--------------------------- MODULE CatalogProofs ---------------------------
(***************************************************************************)
(* Proofs about Catalog, for any sets of notetypes, notes, decks, presets  *)
(* and workers, from what its requests do (CatalogEffects).                *)
(***************************************************************************)
EXTENDS CatalogEffects

-----------------------------------------------------------------------------
(* Tables is invariant.                                                    *)

LEMMA InitTables == Init => Tables
BY DefaultAssumption
   DEF DefaultAssumption, Init, TransfersInit, DecksInit, NotetypesInit, Tables

LEMMA NextTables == Tables /\ [Next]_vars => Tables'
<1> SUFFICES ASSUME Tables, [Next]_vars
             PROVE  Tables'
  OBVIOUS
<1> USE DefaultAssumption DEF DefaultAssumption
<1>1. NotetypeEffect /\ DeckEffect /\ JobEffect /\ NoteEffect
  BY StepEffect, StepJobs, StepNotes
<1>2. stored' \in [NotetypeIds -> Good \cup {None}] /\ merged' \subseteq NotetypeIds
  BY <1>1 DEF NotetypeEffect, Looks, Adds, Saves, Removes, Merges, AddsIo, Reverts, Put, Tables
<1>3. cached' \in [NotetypeIds -> Good \cup {None}]
  <2>1. Look => cached' \in [NotetypeIds -> Good \cup {None}]
    BY HeldIsGood DEF Look, Kept, Tables
  <2>2. QED
    BY <1>1, <2>1 DEF NotetypeEffect, Looks, Adds, Saves, Removes, Merges, AddsIo, Reverts,
       Put, Tables
<1>4. decks' \in [DeckIds -> PresetIds \cup Terms \cup {None}] /\ presets' \subseteq PresetIds
  BY <1>1 DEF DeckEffect, Makes, Assigns, Drops, deckVars, Tables
<1>5. jobs' \in [Workers -> Job \cup {None}]
  <2>1. CASE UNCHANGED jobs
    BY <2>1 DEF Tables
  <2>2. ASSUME NEW w \in Workers, Begins(w) \/ Ends(w)
        PROVE  jobs' \in [Workers -> Job \cup {None}]
    BY <2>2 DEF Begins, Ends, Tables
  <2>3. ASSUME NEW w \in Workers, Sends(w)
        PROVE  jobs' \in [Workers -> Job \cup {None}]
    <3>1. jobs[w] \in Job
      BY <2>3 DEF Sends, Tables
    <3>2. [jobs[w] EXCEPT !.kind = "download"] \in Job
      BY <3>1 DEF Job
    <3>3. QED
      BY <2>3, <3>2 DEF Sends, Tables
  <2>4. QED
    BY <1>1, <2>1, <2>2, <2>3 DEF JobEffect
<1>6. QED
  BY <1>1, <1>2, <1>3, <1>4, <1>5 DEF NoteEffect, Tables

LEMMA TablesInvariant == Spec => []Tables
BY InitTables, NextTables, PTL DEF Spec

LEMMA AnswersInvariant == Spec => [](answer \in {"ok", "refused", "littered"})
<1> DEFINE Answers == answer \in {"ok", "refused", "littered"}
<1>1. Init => Answers
  BY DEF Init, TransfersInit, DecksInit, NotetypesInit
<1>2. Tables /\ Answers /\ [Next]_vars => Answers'
  BY StepAnswer DEF AnswerEffect, vars
<1>3. QED
  BY <1>1, <1>2, TablesInvariant, PTL DEF Spec

-----------------------------------------------------------------------------
(* The properties.                                                         *)

(* The types of Catalog, whatever the sets and bounds.                     *)
THEOREM TypeCorrect == Spec => []TypeOK
<1>1. Tables /\ answer \in {"ok", "refused", "littered"} => TypeOK
  <2>1. Good \subseteq Shape
    BY DEF Good
  <2>2. QED
    BY <2>1 DEF Tables, TypeOK
<1>2. QED
  BY <1>1, TablesInvariant, AnswersInvariant, PTL

(* However fields and templates are added, moved and removed, a stored     *)
(* notetype keeps a field, a template and a sort field that is one of them. *)
THEOREM NotetypesStayWellFormed == Spec => []WellFormed
<1>1. Tables => WellFormed
  BY DEF Tables, Good, WellFormed
<1>2. QED
  BY <1>1, TablesInvariant, PTL

(* No order of requests about decks and presets leaves a deck with a       *)
(* preset that is not there, whatever the sets of decks and presets.       *)
THEOREM PresetsAlwaysResolve == Spec => []PresetsResolve
<1> USE DefaultAssumption, DeckValueAssumption DEF DefaultAssumption, DeckValueAssumption
<1>1. Init => PresetsResolve
  BY DEF Init, TransfersInit, DecksInit, PresetsResolve
<1>2. Tables /\ PresetsResolve /\ [Next]_vars => PresetsResolve'
  <2> SUFFICES ASSUME Tables, PresetsResolve, [Next]_vars
               PROVE  PresetsResolve'
    OBVIOUS
  <2>1. DeckEffect
    BY StepEffect
  <2>2. QED
    BY <2>1 DEF DeckEffect, Makes, Assigns, Drops, deckVars, Tables, PresetsResolve
<1>3. QED
  BY <1>1, <1>2, TablesInvariant, PTL DEF Spec

(* However notetypes, decks, filtered decks and notes are deleted, emptied  *)
(* and imported, no note is left that names what is gone.                  *)
THEOREM NotesAlwaysResolve == Spec => []NotesResolve
<1>1. Init => NotesResolve
  BY DEF Init, TransfersInit, DecksInit, NotetypesInit, NotesResolve
<1>2. Tables /\ NotesResolve /\ [Next]_vars => NotesResolve'
  <2> SUFFICES ASSUME Tables, NotesResolve, [Next]_vars,
                      NEW n \in NoteIds, notes'[n] # None
               PROVE  /\ stored'[notes'[n].nt] # None
                      /\ decks'[notes'[n].home] \in PresetIds
                      /\ notes'[n].away # None => decks'[notes'[n].away] \in Terms
    BY DEF NotesResolve, Normal, IsFiltered
  <2>1. NotetypeEffect /\ DeckEffect
    BY StepEffect
  <2>2. notes'[n] \in Note /\ Placed(n)
    BY StepNotes DEF NoteEffect
  <2>3. notes[n] # None =>
          /\ notes[n] \in Note
          /\ stored[notes[n].nt] # None
          /\ decks[notes[n].home] \in PresetIds
          /\ notes[n].away # None => decks[notes[n].away] \in Terms
    BY DEF NotesResolve, Normal, IsFiltered, Tables
  <2>4. stored'[notes'[n].nt] # None
    <3>1. ASSUME NEW i \in NotetypeIds, stored[i] # None, stored'[i] = None
          PROVE  Removes(i)
      <4>1. None \notin Good
        BY NoneAssumption DEF Good, NoneAssumption
      <4>2. ASSUME NEW j \in NotetypeIds, Put(j) \/ UNCHANGED stored
            PROVE  FALSE
        BY <3>1, <4>1, <4>2 DEF Put, Tables
      <4>3. PICK j \in NotetypeIds : Removes(j)
        BY <2>1, <3>1, <4>2 DEF NotetypeEffect, Looks, Adds, Saves, Merges, AddsIo, Reverts
      <4>4. i = j
        BY <3>1, <4>3 DEF Removes, Tables
      <4>5. QED
        BY <4>3, <4>4
    <3>2. notes'[n].nt \in NotetypeIds
      BY <2>2 DEF Note
    <3>3. QED
      BY <2>2, <2>3, <3>1, <3>2 DEF Placed, Removes
  <2>5. decks'[notes'[n].home] \in PresetIds
    <3>1. \A d \in DeckIds : decks[d] \in PresetIds => decks'[d] \in PresetIds \/ Drops(d)
      BY <2>1, DefaultAssumption, DeckValueAssumption
         DEF DeckEffect, Makes, Assigns, Drops, deckVars, Tables, DefaultAssumption,
             DeckValueAssumption
    <3>2. notes'[n].home \in DeckIds
      BY <2>2 DEF Note
    <3>3. QED
      BY <2>2, <2>3, <3>1, <3>2 DEF Placed, Drops
  <2>6. ASSUME notes'[n].away # None
        PROVE  decks'[notes'[n].away] \in Terms
    <3>1. \A d \in DeckIds : decks[d] \in Terms => decks'[d] \in Terms \/ Drops(d)
      BY <2>1, DeckValueAssumption
         DEF DeckEffect, Makes, Assigns, Drops, deckVars, Tables, DeckValueAssumption
    <3>2. notes'[n].away \in DeckIds
      BY <2>2, <2>6 DEF Note
    <3>3. QED
      BY <2>2, <2>3, <2>6, <3>1, <3>2 DEF Placed, Drops
  <2>7. QED
    BY <2>4, <2>5, <2>6
<1>3. QED
  BY <1>1, <1>2, TablesInvariant, PTL DEF Spec

(* A refused request, of whichever kind, leaves at most the image occlusion*)
(* notetype, new normal decks, and a filtered deck or its new terms behind.*)
THEOREM RefusalsAlwaysLeaveLittle == Spec => RefusalsLeaveLittle
<1>1. Tables /\ [Next]_vars =>
        [answer' # "ok" =>
           /\ notes' = notes /\ presets' = presets
           /\ \A i \in NotetypeIds : stored'[i] # stored[i] =>
                stored[i] = None /\ stored'[i].name = IO_NOTETYPE
           /\ \E named \in DeckIds : \A d \in DeckIds : decks'[d] # decks[d] =>
                \/ decks[d] = None /\ decks'[d] = DEFAULT_PRESET_ID
                \/ d = named /\ decks[d] \in Terms \cup {None} /\ decks'[d] \in Terms]_vars
  BY StepAnswer DEF AnswerEffect, Little
<1>2. QED
  BY <1>1, TablesInvariant, PTL DEF Spec, RefusalsLeaveLittle

(* A notetype dict that the library keeps is the stored one, but below a   *)
(* merging import: no refusal, wherever it comes, leaves a changed dict.   *)
THEOREM CacheAlwaysAgrees == Spec => []CacheAgrees
<1>1. Init => CacheAgrees
  BY DEF Init, TransfersInit, DecksInit, NotetypesInit, CacheAgrees
<1>2. Tables /\ CacheAgrees /\ [Next]_vars => CacheAgrees'
  <2> SUFFICES ASSUME Tables, CacheAgrees, [Next]_vars, NEW j \in NotetypeIds
               PROVE  cached'[j] = None \/ cached'[j] = stored'[j] \/ j \in merged'
    BY DEF CacheAgrees
  <2>1. NotetypeEffect
    BY StepEffect
  <2>2. cached[j] = None \/ cached[j] = stored[j] \/ j \in merged
    BY DEF CacheAgrees
  <2>3. Look => cached'[j] \in {cached[j], Held(j)}
    BY DEF Look, Kept, Tables
  <2>4. CASE Looks
    BY <2>2, <2>3, <2>4 DEF Looks, Held
  <2>5. ASSUME NEW i \in NotetypeIds, Adds(i)
        PROVE  cached'[j] = None \/ cached'[j] = stored'[j] \/ j \in merged'
    BY <2>2, <2>3, <2>5 DEF Adds, Put, Held, Tables
  <2>6. ASSUME NEW i \in NotetypeIds, Saves(i) \/ Removes(i) \/ Merges(i) \/ AddsIo(i) \/ Reverts(i)
        PROVE  cached'[j] = None \/ cached'[j] = stored'[j] \/ j \in merged'
    BY <2>2, <2>6 DEF Saves, Removes, Merges, AddsIo, Reverts, Put, Tables
  <2>7. QED
    BY <2>1, <2>4, <2>5, <2>6 DEF NotetypeEffect
<1>3. QED
  BY <1>1, <1>2, TablesInvariant, PTL DEF Spec

(* An export holds what its request names, for any decks and notes.        *)
THEOREM ExportsAreExact == Spec => []ExportsWhatWasAsked
<1>1. Init => ExportsWhatWasAsked
  BY DEF Init, TransfersInit, ExportsWhatWasAsked
<1>2. Tables /\ ExportsWhatWasAsked /\ [Next]_vars => ExportsWhatWasAsked'
  <2> SUFFICES ASSUME Tables, ExportsWhatWasAsked, [Next]_vars,
                      NEW v \in Workers, jobs'[v] # None
               PROVE  jobs'[v].holds = jobs'[v].asked
    BY DEF ExportsWhatWasAsked
  <2>1. JobEffect
    BY StepJobs
  <2>2. CASE UNCHANGED jobs
    BY <2>2 DEF ExportsWhatWasAsked
  <2>3. ASSUME NEW w \in Workers, Begins(w) \/ Ends(w)
        PROVE  jobs'[v].holds = jobs'[v].asked
    BY <2>3 DEF Begins, Ends, Tables, ExportsWhatWasAsked
  <2>4. ASSUME NEW w \in Workers, Sends(w)
        PROVE  jobs'[v].holds = jobs'[v].asked
    <3>1. jobs[w] \in Job /\ jobs[w].holds = jobs[w].asked
      BY <2>4 DEF Sends, Tables, ExportsWhatWasAsked
    <3>2. jobs' = [jobs EXCEPT ![w] = [jobs[w] EXCEPT !.kind = "download"]]
      BY <2>4 DEF Sends
    <3>3. [jobs[w] EXCEPT !.kind = "download"].holds = [jobs[w] EXCEPT !.kind = "download"].asked
      BY <3>1 DEF Job
    <3>4. QED
      BY <3>2, <3>3 DEF Tables, ExportsWhatWasAsked
  <2>5. QED
    BY <2>1, <2>2, <2>3, <2>4 DEF JobEffect
<1>3. QED
  BY <1>1, <1>2, TablesInvariant, PTL DEF Spec

(* Only speech that could not be synthesised leaves the file of a request  *)
(* that had begun, whatever the number of workers.                         *)
THEOREM TempFilesAlwaysReclaimed == Spec => TempFilesReclaimed
<1>1. Tables /\ [Next]_vars =>
        [\A w \in Workers : jobs[w] # None /\ jobs'[w] = None =>
           answer' # "littered" \/ jobs[w].kind = "speech"]_<<jobs, answer>>
  <2> SUFFICES ASSUME Tables, [Next]_vars,
                      NEW v \in Workers, jobs[v] # None, jobs'[v] = None
               PROVE  answer' # "littered" \/ jobs[v].kind = "speech"
    OBVIOUS
  <2>1. JobEffect
    BY StepJobs
  <2>2. QED
    BY <2>1 DEF JobEffect, Begins, Ends, Sends, Tables
<1>2. QED
  BY <1>1, TablesInvariant, PTL DEF Spec, TempFilesReclaimed

=============================================================================
