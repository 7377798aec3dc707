----------------------------- MODULE Transfers -----------------------------
(***************************************************************************)
(* The requests that pass a file through the temporary directory: exports, *)
(* imports, speech, and an image for an occlusion note.  The file outlives *)
(* the writer lock: an upload is saved before the lock is asked for, and a *)
(* download is sent after it has been released.                            *)
(*                                                                         *)
(* A job is a request that has a file.  A request that ends and leaves its *)
(* file behind has been refused, and has littered.                         *)
(***************************************************************************)
EXTENDS Decks

CONSTANT Workers    \* the threads that run requests

VARIABLE jobs    \* what each worker has a file for, if anything

collectionVars == <<notetypeVars, deckVars, notes>>

(* An upload has been saved, speech has been asked for, or a file is sent; *)
(* that of an export holds notes.                                          *)
Job == [kind : {"upload", "speech", "download"},
        asked : SUBSET NoteIds, holds : SUBSET NoteIds]

TransfersInit ==
  /\ DecksInit
  /\ jobs = [w \in Workers |-> None]

Existing == {n \in NoteIds : notes[n] # None}
InDeck(d) == {n \in Existing : d \in {notes[n].home, notes[n].away}}

Has(w, kind) == jobs[w] # None /\ jobs[w].kind = kind

Begin(w, kind, asked, holds) ==
  /\ jobs[w] = None
  /\ jobs' = [jobs EXCEPT ![w] = [kind |-> kind, asked |-> asked, holds |-> holds]]

(* os.unlink, in a finally or in the response's background task. *)
Unlink(w) == jobs' = [jobs EXCEPT ![w] = None]

Litter == answer' = "littered"
Abandon(w) == jobs' = [jobs EXCEPT ![w] = None] /\ Litter

-----------------------------------------------------------------------------
(* Exports *)

Limits == [scope : {"collection", "deck", "notes", "cards"},
           deck_id : DeckIds \cup {None}, ids : {None} \cup SUBSET NoteIds]

FieldsMatchScope(l) ==
  /\ l.scope = "deck" <=> l.deck_id # None
  /\ l.scope \in {"notes", "cards"} <=> l.ids # None

(* What a limit says to a reader, whatever its scope. *)
Asked(l) == IF l.deck_id # None THEN InDeck(l.deck_id)
            ELSE IF l.ids # None THEN l.ids ELSE Existing

Names404(l) ==
  \/ l.scope = "deck" /\ decks[l.deck_id] = None
  \/ l.scope \in {"notes", "cards"} /\ ~(l.ids \subseteq Existing)

(* Mutant of BuildLimit: the backend's own message, whatever the scope. *)
BuildMessage(l) == [type |-> "ExportLimit", message |-> l]

BuildLimit(l) ==
  CASE l.scope = "collection" -> [type |-> "None"]
    [] l.scope = "deck" -> [type |-> "DeckIdLimit", deck |-> l.deck_id]
    [] OTHER -> [type |-> "IdsLimit", ids |-> l.ids]

(* The library's exporters dispatch on the limit's type, and skip an id    *)
(* that is not there without a word.                                       *)
Exported(limit) ==
  CASE limit.type = "DeckIdLimit" -> InDeck(limit.deck)
    [] limit.type = "IdsLimit" -> limit.ids \cap Existing
    [] OTHER -> Existing

(* The file is made once the limit stands. *)
Export(w, l) ==
  /\ FieldsMatchScope(l) /\ ~Names404(l)
  /\ Begin(w, "download", Asked(l), Exported(BuildLimit(l)))
  /\ Accept
  /\ UNCHANGED collectionVars

(* The limit does not stand, or the exporter raises and the file goes. *)
ExportRaises(w) ==
  /\ jobs[w] = None
  /\ Unlink(w)
  /\ Refuse
  /\ UNCHANGED collectionVars

(* The response has been sent, and its background task runs. *)
Sent(w) ==
  /\ Has(w, "download")
  /\ Unlink(w)
  /\ Accept
  /\ UNCHANGED collectionVars

-----------------------------------------------------------------------------
(* Imports *)

(* Which endpoint the upload is for shows when it has the lock. *)
SaveUpload(w) ==
  /\ Begin(w, "upload", {}, {})
  /\ Accept
  /\ UNCHANGED collectionVars

(* The file is there, and is not written: no finally guards it yet. *)
SaveUploadFails(w) ==
  /\ jobs[w] = None
  /\ Litter
  /\ UNCHANGED <<collectionVars, jobs>>

(* Mutant of ImportRaises: the unlink is not in a finally.                 *)
ImportRaisesOut(w) ==
  /\ Has(w, "upload")
  /\ Abandon(w)
  /\ UNCHANGED collectionVars

(* The collection is closed, the upload is not a package, or the library   *)
(* refuses what is in it.                                                  *)
ImportRaises(w) ==
  /\ Has(w, "upload")
  /\ Unlink(w)
  /\ Refuse
  /\ UNCHANGED collectionVars

(* A package brings notetypes, decks and notes; a merging import adds the  *)
(* fields it has to a notetype that is there, below a dict that is kept.   *)
ImportApkg(w, i, d, above, n) ==
  /\ Has(w, "upload")
  /\ \/ /\ stored[i] = None
        /\ \E nm \in Names : ByName(nm) = {} /\ stored' = [stored EXCEPT ![i] =
             [name |-> nm, flds |-> Loaded(StockFields), sortf |-> 0, tmpls |-> 1]]
        /\ UNCHANGED merged
     \/ /\ stored[i] # None /\ Len(stored[i].flds) < MaxFields
        /\ stored' = [stored EXCEPT ![i].flds = Loaded(Len(@) + 1)]
        /\ merged' = IF cached[i] = None THEN merged ELSE merged \cup {i}
     \/ stored[i] # None /\ UNCHANGED <<stored, merged>>
  /\ NewDeck(d, above, DEFAULT_PRESET_ID) \/ (Normal(d) /\ UNCHANGED decks)
  /\ notes' = [notes EXCEPT ![n] = IF @ = None THEN [nt |-> i, home |-> d, away |-> None] ELSE @]
  /\ Unlink(w)
  /\ Accept
  /\ UNCHANGED <<cached, presets>>

CsvMetadata(w) ==
  /\ Has(w, "upload")
  /\ Unlink(w)
  /\ Accept
  /\ UNCHANGED collectionVars

(* The library's importer makes a deck that it is given and that is not    *)
(* there, and imports nothing into a notetype that is not there.           *)
CsvImporter(d, i, s) ==
  /\ NewDeck(d, {}, DEFAULT_PRESET_ID) \/ (Normal(d) /\ UNCHANGED decks)
  /\ notes' = [n \in NoteIds |-> IF n \in s /\ notes[n] = None /\ stored[i] # None
                                 THEN [nt |-> i, home |-> d, away |-> None] ELSE notes[n]]
  /\ UNCHANGED <<stored, merged, presets>>

(* 404 for an id that is given and is not there; the deck is judged first. *)
CsvNames404(d, i) == (d # None /\ decks[d] = None) \/ (i # None /\ Held(i) = None)

ImportCsv(w, d, i, s) ==
  /\ Has(w, "upload")
  /\ Unlink(w)
  /\ IF i # None /\ (d # None => decks[d] # None) THEN Kept(i) ELSE UNCHANGED cached
  /\ \/ Refuse /\ UNCHANGED <<stored, merged, deckVars, notes>>
     \/ /\ ~CsvNames404(d, i)
        /\ \E e \in IF d = None THEN {x \in DeckIds : Normal(x)} ELSE {d} :
             \E j \in IF i = None THEN {x \in NotetypeIds : stored[x] # None} ELSE {i} :
               CsvImporter(e, j, s)
        /\ Accept

-----------------------------------------------------------------------------
(* Speech *)

(* The file is made before the lock is asked for, and outside any try. *)
Synthesize(w) ==
  /\ Begin(w, "speech", {}, {})
  /\ Accept
  /\ UNCHANGED collectionVars

SynthesizeRaises(w) ==
  /\ Has(w, "speech")
  /\ Abandon(w)
  /\ UNCHANGED collectionVars

Spoken(w) ==
  /\ Has(w, "speech")
  /\ jobs' = [jobs EXCEPT ![w].kind = "download"]
  /\ Accept
  /\ UNCHANGED collectionVars

-----------------------------------------------------------------------------
(* Image occlusion *)

(* The notetype is found by its name, or added by the backend; by_name has *)
(* the library keep its dict either way.                                   *)
IoNotetype(i) ==
  \/ i \in ByName(IO_NOTETYPE) /\ Kept(i) /\ UNCHANGED stored
  \/ /\ ByName(IO_NOTETYPE) = {} /\ stored[i] = None
     /\ stored' = [stored EXCEPT ![i] =
          [name |-> IO_NOTETYPE, flds |-> Loaded(StockFields), sortf |-> 0, tmpls |-> 1]]
     /\ cached' = [cached EXCEPT ![i] = stored'[i]]

EnsureIoNotetype(i) ==
  /\ IoNotetype(i)
  /\ Accept
  /\ UNCHANGED <<merged, deckVars, notes, jobs>>

(* Occlusions are judged before the lock; the image after the notetype has *)
(* been ensured.  An inline image goes through a file that the finally of  *)
(* the library's call removes, if it was written at all.                   *)
CreateIoNote(i, n, d) ==
  \/ Refuse /\ UNCHANGED <<collectionVars, jobs>>
  \/ /\ IoNotetype(i)
     /\ \/ (Refuse \/ Litter) /\ UNCHANGED notes
        \/ /\ notes[n] = None /\ Normal(d)
           /\ notes' = [notes EXCEPT ![n] = [nt |-> i, home |-> d, away |-> None]]
           /\ Accept
     /\ UNCHANGED <<merged, deckVars, jobs>>

(* Its texts are not followed; a note of another notetype is refused. *)
UpdateIoNote(n) ==
  /\ IF notes[n] = None THEN Refuse ELSE Accept \/ Refuse
  /\ UNCHANGED <<collectionVars, jobs>>

TransferRequest ==
  \/ \E w \in Workers :
       \/ ExportRaises(w) \/ Sent(w) \/ SaveUploadFails(w) \/ ImportRaises(w) \/ CsvMetadata(w)
       \/ SaveUpload(w) \/ Synthesize(w) \/ SynthesizeRaises(w) \/ Spoken(w)
       \/ \E l \in Limits : Export(w, l)
       \/ \E i \in NotetypeIds, d \in DeckIds, above \in SUBSET Missing, n \in NoteIds :
            ImportApkg(w, i, d, above, n)
       \/ \E d \in DeckIds \cup {None}, i \in NotetypeIds \cup {None}, s \in SUBSET NoteIds :
            ImportCsv(w, d, i, s)
  \/ \E i \in NotetypeIds :
       EnsureIoNotetype(i) \/ \E n \in NoteIds, d \in DeckIds : CreateIoNote(i, n, d)
  \/ \E n \in NoteIds : UpdateIoNote(n)

-----------------------------------------------------------------------------
(* Properties *)

(* import_export.py:39-43 and 109-116: an export is never wider, nor       *)
(* narrower, than what the request names.                                  *)
ExportsWhatWasAsked ==
  \A w \in Workers : jobs[w] # None => jobs[w].holds = jobs[w].asked

(* The file of a request that has begun goes when it ends, however far it  *)
(* got and whatever was raised below it: only speech that the backend      *)
(* cannot synthesise leaves one (tts.py:43 has no finally).                *)
TempFilesReclaimed ==
  [][\A w \in Workers : jobs[w] # None /\ jobs'[w] = None =>
       answer' # "littered" \/ jobs[w].kind = "speech"]_<<jobs, answer>>

=============================================================================
