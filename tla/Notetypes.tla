----------------------------- MODULE Notetypes -----------------------------
(***************************************************************************)
(* The notetype endpoints over the library's two copies of a notetype: the *)
(* stored one, and the dict that models.get hands out and keeps.  An       *)
(* endpoint changes the kept dict in place and has update_dict store it,   *)
(* so whatever it raises in between decides what later requests are served.*)
(*                                                                         *)
(* A request body runs under the writer lock (CollectionHandle), so it is  *)
(* one step.  A dict is its name, its fields, its sort field and how many  *)
(* templates it has; a field is known by the position it was loaded from,  *)
(* and New is one that has been added since.  The decks a note's card is   *)
(* in belong to module Decks.                                              *)
(***************************************************************************)
EXTENDS Integers, Sequences, SequencesExt

CONSTANTS
  NotetypeIds,    \* the ids that are followed
  Names,          \* the names a notetype may have
  IO_NOTETYPE,    \* "Image Occlusion"
  StockFields,    \* how many fields the stock notetypes have
  NoteIds,
  None,           \* no notetype, no note, nothing given
  MaxFields,      \* bound: the fields of a notetype
  MaxTemplates    \* bound: the templates of a notetype

ASSUME NameAssumption == IO_NOTETYPE \in Names
ASSUME ShapeAssumption ==
  /\ MaxFields \in Nat /\ MaxTemplates \in Nat \ {0}
  /\ StockFields \in 1 .. MaxFields

VARIABLES
  stored,    \* the notetypes of the collection
  cached,    \* the dicts the library has handed out and kept
  merged,    \* history: changed by a package since the dict was read
  notes,     \* the notes, with their notetype
  answer     \* how the last request ended, "ok" while one goes on

notetypeVars == <<stored, cached, merged>>

New == -1
Loaded(n) == [k \in 1 .. n |-> k - 1]
Shape == [name : Names, flds : {Loaded(n) : n \in 0 .. MaxFields},
          sortf : 0 .. MaxFields, tmpls : 0 .. MaxTemplates]

ASSUME NoneAssumption == None \notin Shape

NotetypesInit ==
  /\ stored = [i \in NotetypeIds |-> None]
  /\ cached = [i \in NotetypeIds |-> None]
  /\ merged = {}
  /\ notes = [n \in NoteIds |-> None]
  /\ answer = "ok"

Accept == answer' = "ok"
Refuse == answer' = "refused"

-----------------------------------------------------------------------------
(* The library *)

(* models.get: the dict it kept, or a fresh one. *)
Held(i) == IF cached[i] # None THEN cached[i] ELSE stored[i]
Kept(i) == cached' = [cached EXCEPT ![i] = Held(i)]

(* models.by_name: the id is looked up in the collection. *)
ByName(nm) == {i \in NotetypeIds : stored[i] # None /\ stored[i].name = nm}

(* What a dict is once the backend has stored it: its sort field is where  *)
(* that field has moved, or the first one if it is gone.                   *)
Written(nt) ==
  LET place == {k \in DOMAIN nt.flds : nt.flds[k] = nt.sortf}
  IN  [nt EXCEPT !.flds = Loaded(Len(nt.flds)),
                 !.sortf = IF place = {} THEN 0 ELSE (CHOOSE k \in place : TRUE) - 1]

(* The backend stores a dict, or refuses it (a template error, a name that *)
(* is empty).  ensure_name_unique gives a name that another notetype has a *)
(* suffix: that is a request for another name.                             *)
Store(i, nt) ==
  \/ Refuse /\ UNCHANGED stored
  \/ /\ ByName(nt.name) \subseteq {i}
     /\ stored' = [stored EXCEPT ![i] = Written(nt)]
     /\ Accept

(* models.update_dict forgets the dict before the backend is asked. *)
UpdateDict(i, nt) ==
  /\ cached' = [cached EXCEPT ![i] = None]
  /\ merged' = merged \ {i}
  /\ Store(i, nt)
  /\ UNCHANGED notes

(* models.add_dict: a fresh id, and nothing kept. *)
AddDict(i, nt) == stored[i] = None /\ Store(i, nt)

-----------------------------------------------------------------------------
(* _get, and the refusals after it: the dict has been kept, unchanged. *)

NotFound(i) ==
  /\ Held(i) = None
  /\ Refuse
  /\ UNCHANGED <<notetypeVars, notes>>

RefuseLoaded(i) == Refuse /\ Kept(i) /\ UNCHANGED <<stored, merged, notes>>

(* A handler that edits the dict nt it got into Edit(nt), unless it finds  *)
(* a reason not to.                                                        *)
Edits(i, reason, edited) ==
  \/ NotFound(i)
  \/ Held(i) # None /\ reason /\ RefuseLoaded(i)
  \/ Held(i) # None /\ ~reason /\ UpdateDict(i, edited)

Fields(i) == Held(i).flds
FieldMissing(i, f) == f >= Len(Fields(i))
TemplateMissing(i, t) == t >= Held(i).tmpls

GetNotetype(i) ==
  \/ NotFound(i)
  \/ /\ Held(i) # None
     /\ Kept(i)
     /\ Accept
     /\ UNCHANGED <<stored, merged, notes>>

(* An unknown stock is refused; the extra fields are part of the new dict. *)
CreateNotetype(i, nm, extra) ==
  /\ StockFields + extra <= MaxFields
  /\ \/ Refuse /\ UNCHANGED stored
     \/ AddDict(i, [name |-> nm, flds |-> Loaded(StockFields + extra), sortf |-> 0, tmpls |-> 1])
  /\ UNCHANGED <<cached, merged, notes>>

CloneNotetype(i, j, nm) ==
  \/ NotFound(i)
  \/ /\ Held(i) # None
     /\ AddDict(j, [Held(i) EXCEPT !.name = nm])
     /\ Kept(i)
     /\ UNCHANGED <<merged, notes>>

(* Mutant of PatchNotetype: the name is set before the index is judged.    *)
PatchAppliesFirst(i, nm, idx) ==
  LET bad == idx # None /\ ~(idx \in 0 .. Len(Fields(i)) - 1)
      named == [Held(i) EXCEPT !.name = IF nm = None THEN @ ELSE nm]
  IN  \/ NotFound(i)
      \/ /\ Held(i) # None /\ bad
         /\ Refuse
         /\ cached' = [cached EXCEPT ![i] = named]
         /\ UNCHANGED <<stored, merged, notes>>
      \/ /\ Held(i) # None /\ ~bad
         /\ UpdateDict(i, [named EXCEPT !.sortf = IF idx = None THEN @ ELSE idx])

(* The sort index is judged before anything is applied to the kept dict. *)
PatchNotetype(i, nm, idx) ==
  Edits(i, idx # None /\ ~(idx \in 0 .. Len(Fields(i)) - 1),
        [Held(i) EXCEPT !.name = IF nm = None THEN @ ELSE nm,
                        !.sortf = IF idx = None THEN @ ELSE idx])

DeleteNotetype(i) ==
  \/ NotFound(i)
  \/ /\ Held(i) # None
     /\ stored' = [stored EXCEPT ![i] = None]
     /\ cached' = [cached EXCEPT ![i] = None]
     /\ merged' = merged \ {i}
     /\ notes' = [n \in NoteIds |->
                    IF notes[n] # None /\ notes[n].nt = i THEN None ELSE notes[n]]
     /\ Accept

AddField(i) ==
  /\ Held(i) # None => Len(Fields(i)) < MaxFields
  /\ Edits(i, FALSE, [Held(i) EXCEPT !.flds = Append(@, New)])

(* The new name is not followed. *)
RenameField(i, f) == Edits(i, FieldMissing(i, f), Held(i))

(* The index is the caller's; list.insert takes one past the end for the end. *)
RepositionField(i, f, idx) ==
  LET rest == RemoveAt(Fields(i), f + 1)
      at == IF idx > Len(rest) THEN Len(rest) ELSE idx
  IN  Edits(i, FieldMissing(i, f), [Held(i) EXCEPT !.flds = InsertAt(rest, at + 1, f)])

(* Mutant of RemoveField: the last field may go. *)
RemoveAnyField(i, f) == Edits(i, FieldMissing(i, f), [Held(i) EXCEPT !.flds = RemoveAt(@, f + 1)])

RemoveField(i, f) ==
  Edits(i, FieldMissing(i, f) \/ Len(Fields(i)) <= 1,
        [Held(i) EXCEPT !.flds = RemoveAt(@, f + 1)])

AddTemplate(i) ==
  /\ Held(i) # None => Held(i).tmpls < MaxTemplates
  /\ Edits(i, FALSE, [Held(i) EXCEPT !.tmpls = @ + 1])

(* Neither the texts nor the order of the templates are followed. *)
UpdateTemplate(i, t) == Edits(i, TemplateMissing(i, t), Held(i))
RepositionTemplate(i, t) == Edits(i, TemplateMissing(i, t), Held(i))

RemoveTemplate(i, t) ==
  Edits(i, TemplateMissing(i, t) \/ Held(i).tmpls <= 1, [Held(i) EXCEPT !.tmpls = @ - 1])

(* The library compares the two notetypes and refuses maps that do not fit.*)
ChangeNotetype(i, j, n) ==
  /\ \/ Refuse /\ UNCHANGED notes
     \/ /\ stored[i] # None /\ stored[j] # None
        /\ notes[n] # None /\ notes[n].nt = i
        /\ notes' = [notes EXCEPT ![n].nt = j]
        /\ Accept
  /\ UNCHANGED notetypeVars

(* get_note reads the note with its notetype; a field that the notetype    *)
(* has not is refused before the note is stored.  Texts are not followed.  *)
UpdateNote(n, fits) ==
  /\ IF notes[n] = None THEN UNCHANGED cached ELSE Kept(notes[n].nt)
  /\ IF notes[n] # None /\ fits THEN Accept \/ Refuse ELSE Refuse
  /\ UNCHANGED <<stored, merged, notes>>

(* anki removes an unknown id without complaint. *)
DeleteNote(n) ==
  /\ notes' = [notes EXCEPT ![n] = None]
  /\ Accept
  /\ UNCHANGED notetypeVars

(* col.undo or col.redo of a change to a notetype: some earlier shape is   *)
(* back, and the wrapper forgets every dict.                               *)
UndoNotetype(i, nt) ==
  /\ stored[i] # None /\ ByName(nt.name) \subseteq {i}
  /\ nt.flds # <<>> /\ nt.tmpls > 0 /\ nt.sortf < Len(nt.flds)
  /\ stored' = [stored EXCEPT ![i] = nt]
  /\ cached' = [j \in NotetypeIds |-> None]
  /\ merged' = {}
  /\ Accept
  /\ UNCHANGED notes

NotetypeRequest ==
  \/ \E i \in NotetypeIds :
       \/ GetNotetype(i) \/ DeleteNotetype(i) \/ AddField(i) \/ AddTemplate(i)
       \/ \E nm \in Names : \E extra \in 0 .. MaxFields : CreateNotetype(i, nm, extra)
       \/ \E j \in NotetypeIds, nm \in Names : CloneNotetype(i, j, nm)
       \/ \E nm \in Names \cup {None}, idx \in (-1 .. MaxFields) \cup {None} :
            PatchNotetype(i, nm, idx)
       \/ \E f \in 0 .. MaxFields :
            \/ RenameField(i, f) \/ RemoveField(i, f)
            \/ \E idx \in 0 .. MaxFields : RepositionField(i, f, idx)
       \/ \E t \in 0 .. MaxTemplates :
            UpdateTemplate(i, t) \/ RepositionTemplate(i, t) \/ RemoveTemplate(i, t)
       \/ \E j \in NotetypeIds, n \in NoteIds : ChangeNotetype(i, j, n)
       \/ \E nt \in Shape : UndoNotetype(i, nt)
  \/ \E n \in NoteIds : DeleteNote(n) \/ \E fits \in BOOLEAN : UpdateNote(n, fits)

-----------------------------------------------------------------------------
(* Properties *)

(* The notetypes the endpoints store have a field, a template and a sort   *)
(* field that is one of them: notes and cards could not be made of others. *)
WellFormed ==
  \A i \in NotetypeIds : stored[i] # None =>
    /\ stored[i].flds # <<>>
    /\ stored[i].tmpls > 0
    /\ stored[i].sortf < Len(stored[i].flds)

(* What GET serves has been saved: a dict the library keeps is the stored  *)
(* notetype, after refused and raised requests too.  The exception is a    *)
(* notetype that a merging import has changed below it.                    *)
CacheAgrees ==
  \A i \in NotetypeIds : cached[i] = None \/ cached[i] = stored[i] \/ i \in merged

=============================================================================
