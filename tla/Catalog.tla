------------------------------ MODULE Catalog ------------------------------
(***************************************************************************)
(* Notetypes, decks and transfers as one system: any client may send any   *)
(* of their requests next, while files are uploaded and downloaded.        *)
(***************************************************************************)
EXTENDS Transfers

vars == <<stored, cached, merged, notes, answer, decks, presets, jobs>>

TypeOK ==
  /\ stored \in [NotetypeIds -> Shape \cup {None}]
  /\ cached \in [NotetypeIds -> Shape \cup {None}]
  /\ merged \subseteq NotetypeIds
  /\ notes \in [NoteIds -> Note \cup {None}]
  /\ answer \in {"ok", "refused", "littered"}
  /\ decks \in [DeckIds -> PresetIds \cup Terms \cup {None}]
  /\ presets \subseteq PresetIds
  /\ jobs \in [Workers -> Job \cup {None}]

Init == TransfersInit

Next ==
  \/ NotetypeRequest /\ UNCHANGED <<deckVars, jobs>>
  \/ DeckRequest /\ UNCHANGED jobs
  \/ TransferRequest

Spec == Init /\ [][Next]_vars

-----------------------------------------------------------------------------
(* Properties *)

(* A refused request has no effect beyond these: the image occlusion       *)
(* notetype; new normal decks with the Default preset, the one it names and*)
(* those above it (create_note, create_filtered); and of the filtered deck *)
(* that it names, be it new or not, other terms (create_filtered).  No note*)
(* or card has moved, and whatever else was there before is as it was.     *)
RefusalsLeaveLittle ==
  [][answer' # "ok" =>
       /\ notes' = notes /\ presets' = presets
       /\ \A i \in NotetypeIds : stored'[i] # stored[i] =>
            stored[i] = None /\ stored'[i].name = IO_NOTETYPE
       /\ \E named \in DeckIds : \A d \in DeckIds : decks'[d] # decks[d] =>
            \/ decks[d] = None /\ decks'[d] = DEFAULT_PRESET_ID
            \/ d = named /\ decks[d] \in Terms \cup {None} /\ decks'[d] \in Terms]_vars

=============================================================================
