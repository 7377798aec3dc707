--------------------------- MODULE CatalogEffects ---------------------------
(***************************************************************************)
(* Some forty requests do only a few things to the library's notetypes, to *)
(* the decks, to a note and to the jobs, and end in few ways.  These are   *)
(* named first, and each request of Catalog is shown to do one of them.    *)
(***************************************************************************)
EXTENDS Catalog, TLAPS

(* A notetype as it is stored, and a dict that the backend can store.      *)
Good == {nt \in Shape : nt.flds # <<>> /\ nt.tmpls > 0 /\ nt.sortf < Len(nt.flds)}
Editable == {nt \in [name : Names, flds : Seq(Int), sortf : 0 .. MaxFields,
                     tmpls : 1 .. MaxTemplates] : Len(nt.flds) \in 1 .. MaxFields}

(* The types, with what makes stored and kept notetypes good.              *)
Tables ==
  /\ stored \in [NotetypeIds -> Good \cup {None}]
  /\ cached \in [NotetypeIds -> Good \cup {None}]
  /\ merged \subseteq NotetypeIds
  /\ notes \in [NoteIds -> Note \cup {None}]
  /\ decks \in [DeckIds -> PresetIds \cup Terms \cup {None}]
  /\ presets \subseteq PresetIds
  /\ jobs \in [Workers -> Job \cup {None}]

(* What a request may do to the notetypes.                                 *)
Put(i) == stored'[i] \in Good /\ stored' = [stored EXCEPT ![i] = stored'[i]]
Look == UNCHANGED cached \/ \E i \in NotetypeIds : Kept(i)
Looks == Look /\ UNCHANGED <<stored, merged>>
Adds(i) == stored[i] = None /\ Put(i) /\ Look /\ UNCHANGED merged
Saves(i) ==
  /\ Held(i) # None
  /\ UNCHANGED stored \/ Put(i)
  /\ cached' = [cached EXCEPT ![i] = None]
  /\ merged' = merged \ {i}
Removes(i) ==
  /\ \A n \in NoteIds : notes'[n] = None \/ notes'[n].nt # i
  /\ stored' = [stored EXCEPT ![i] = None]
  /\ cached' = [cached EXCEPT ![i] = None]
  /\ merged' = merged \ {i}
Merges(i) ==
  /\ stored[i] # None /\ Put(i)
  /\ merged' = IF cached[i] = None THEN merged ELSE merged \cup {i}
  /\ UNCHANGED cached
AddsIo(i) ==
  /\ stored[i] = None /\ Put(i)
  /\ cached' = [cached EXCEPT ![i] = stored'[i]]
  /\ UNCHANGED merged
Reverts(i) == Put(i) /\ cached' = [j \in NotetypeIds |-> None] /\ merged' = {}

NotetypeEffect ==
  \/ Looks
  \/ \E i \in NotetypeIds :
       Adds(i) \/ Saves(i) \/ Removes(i) \/ Merges(i) \/ AddsIo(i) \/ Reverts(i)

(* What a request may do to decks and presets.                             *)
Makes(named) ==
  /\ decks' \in [DeckIds -> PresetIds \cup Terms \cup {None}]
  /\ \A d \in DeckIds : decks'[d] # decks[d] =>
       \/ decks[d] = None /\ decks'[d] = DEFAULT_PRESET_ID
       \/ d = named /\ decks[d] \in Terms \cup {None} /\ decks'[d] \in Terms
Assigns(d, p) ==
  decks[d] \in PresetIds /\ p \in presets /\ decks' = [decks EXCEPT ![d] = p]
Drops(d) ==
  /\ \A n \in NoteIds : notes'[n] # None =>
       notes'[n].home # d /\ notes'[n].away \in {None} \cup (DeckIds \ {d})
  /\ decks' = [decks EXCEPT ![d] = None]

DeckEffect ==
  \/ UNCHANGED deckVars
  \/ \E named \in DeckIds : Makes(named) /\ UNCHANGED presets
  \/ \E d \in DeckIds, p \in PresetIds : Assigns(d, p) /\ UNCHANGED presets
  \/ \E d \in DeckIds \ {DEFAULT_DECK} : Drops(d) /\ UNCHANGED presets
  \/ \E p \in PresetIds : presets' = presets \cup {p} /\ UNCHANGED decks
  \/ \E p \in PresetIds \ {DEFAULT_PRESET_ID} :
       /\ presets' = presets \ {p}
       /\ decks' = [d \in DeckIds |-> IF decks[d] = p THEN DEFAULT_PRESET_ID ELSE decks[d]]

(* What a request may do to a note: it goes, or each thing it names is what *)
(* it has named before, or is there.                                       *)
Placed(n) ==
  /\ (notes[n] # None /\ notes'[n].nt = notes[n].nt) \/ stored'[notes'[n].nt] # None
  /\ (notes[n] # None /\ notes'[n].home = notes[n].home) \/ decks'[notes'[n].home] \in PresetIds
  /\ \/ notes[n] # None /\ notes'[n].away = notes[n].away
     \/ notes'[n].away = None \/ decks'[notes'[n].away] \in Terms

NoteEffect ==
  /\ notes' \in [NoteIds -> Note \cup {None}]
  /\ \A n \in NoteIds : notes'[n] = None \/ Placed(n)

(* What a request may do to the jobs, with how it ends.                    *)
Begins(w) ==
  /\ answer' = "ok"
  /\ \E job \in Job : job.holds = job.asked /\ jobs' = [jobs EXCEPT ![w] = job]
Ends(w) ==
  /\ answer' # "littered" \/ jobs[w] = None \/ jobs[w].kind = "speech"
  /\ jobs' = [jobs EXCEPT ![w] = None]
Sends(w) ==
  /\ answer' = "ok" /\ jobs[w] # None
  /\ jobs' = [jobs EXCEPT ![w].kind = "download"]

JobEffect == UNCHANGED jobs \/ \E w \in Workers : Begins(w) \/ Ends(w) \/ Sends(w)

-----------------------------------------------------------------------------
(* Each request does one of these things.                                  *)

LEMMA LoadedIsSeq ==
  ASSUME NEW n \in Nat
  PROVE  Loaded(n) \in Seq(Int) /\ Len(Loaded(n)) = n /\ (Loaded(n) = <<>> <=> n = 0)
<1>1. Loaded(n) \in [1 .. n -> Int]
  BY DEF Loaded
<1>2. Loaded(n) \in Seq(Int) /\ Len(Loaded(n)) = n
  BY <1>1
<1>3. QED
  BY <1>2

LEMMA GoodHasLength ==
  ASSUME NEW nt \in Good
  PROVE  \E n \in 1 .. MaxFields : nt.flds = Loaded(n) /\ Len(nt.flds) = n
<1> USE ShapeAssumption DEF ShapeAssumption
<1>1. PICK n \in 0 .. MaxFields : nt.flds = Loaded(n)
  BY DEF Good, Shape
<1>2. n # 0 /\ Len(nt.flds) = n
  BY <1>1, LoadedIsSeq DEF Good
<1>3. QED
  BY <1>1, <1>2

LEMMA GoodIsEditable == Good \subseteq Editable
<1> USE ShapeAssumption DEF ShapeAssumption
<1> SUFFICES ASSUME NEW nt \in Good
             PROVE  nt \in Editable
  OBVIOUS
<1>1. PICK n \in 1 .. MaxFields : nt.flds = Loaded(n) /\ Len(nt.flds) = n
  BY GoodHasLength
<1>2. nt.flds \in Seq(Int)
  BY <1>1, LoadedIsSeq
<1>3. QED
  BY <1>1, <1>2 DEF Good, Shape, Editable

LEMMA WrittenIsGood ==
  ASSUME NEW nt \in Editable
  PROVE  Written(nt) \in Good
<1> USE ShapeAssumption DEF ShapeAssumption
<1> DEFINE place == {k \in DOMAIN nt.flds : nt.flds[k] = nt.sortf}
           sortf == IF place = {} THEN 0 ELSE (CHOOSE k \in place : TRUE) - 1
<1>1. DOMAIN nt.flds = 1 .. Len(nt.flds) /\ Len(nt.flds) \in 1 .. MaxFields
  BY DEF Editable
<1>2. sortf \in 0 .. Len(nt.flds) - 1
  BY <1>1
<1>3. Loaded(Len(nt.flds)) # <<>> /\ Len(Loaded(Len(nt.flds))) = Len(nt.flds)
  BY <1>1, LoadedIsSeq
<1>4. Written(nt) = [name |-> nt.name, flds |-> Loaded(Len(nt.flds)), sortf |-> sortf,
                     tmpls |-> nt.tmpls]
  <2>1. nt = [name |-> nt.name, flds |-> nt.flds, sortf |-> nt.sortf, tmpls |-> nt.tmpls]
    BY DEF Editable
  <2>2. Written(nt) = [nt EXCEPT !.flds = Loaded(Len(nt.flds)), !.sortf = sortf]
    BY DEF Written
  <2>3. QED
    BY <2>1, <2>2
<1>5. Written(nt) \in Shape
  BY <1>1, <1>2, <1>4 DEF Editable, Shape
<1>6. QED
  BY <1>2, <1>3, <1>4, <1>5 DEF Editable, Good

LEMMA Concat ==
  ASSUME NEW a \in Seq(Int), NEW b \in Seq(Int)
  PROVE  a \o b \in Seq(Int) /\ Len(a \o b) = Len(a) + Len(b)
OBVIOUS

LEMMA RemoveAtProperties ==
  ASSUME NEW s \in Seq(Int), NEW k \in 1 .. Len(s)
  PROVE  RemoveAt(s, k) \in Seq(Int) /\ Len(RemoveAt(s, k)) = Len(s) - 1
<1> DEFINE left == SubSeq(s, 1, k - 1)
           right == SubSeq(s, k + 1, Len(s))
<1>1. left \in Seq(Int) /\ Len(left) = k - 1
  OBVIOUS
<1>2. right \in Seq(Int) /\ Len(right) = Len(s) - k
  OBVIOUS
<1>3. RemoveAt(s, k) = left \o right
  BY Zenon DEF RemoveAt
<1> HIDE DEF left, right
<1>4. left \o right \in Seq(Int) /\ Len(left \o right) = Len(left) + Len(right)
  BY <1>1, <1>2, Zenon, Concat
<1>5. QED
  BY <1>1, <1>2, <1>3, <1>4

LEMMA InsertAtProperties ==
  ASSUME NEW s \in Seq(Int), NEW k \in 1 .. Len(s) + 1, NEW e \in Int
  PROVE  InsertAt(s, k, e) \in Seq(Int) /\ Len(InsertAt(s, k, e)) = Len(s) + 1
<1> DEFINE left == SubSeq(s, 1, k - 1)
           one == <<e>>
           right == SubSeq(s, k, Len(s))
<1>1. left \in Seq(Int) /\ Len(left) = k - 1
  OBVIOUS
<1>2. one \in Seq(Int) /\ Len(one) = 1
  OBVIOUS
<1>3. right \in Seq(Int) /\ Len(right) = Len(s) - k + 1
  OBVIOUS
<1>4. InsertAt(s, k, e) = left \o one \o right
  BY Zenon DEF InsertAt
<1> HIDE DEF left, one, right
<1>5. left \o one \in Seq(Int) /\ Len(left \o one) = Len(left) + Len(one)
  BY <1>1, <1>2, Zenon, Concat
<1>6. /\ left \o one \o right \in Seq(Int)
      /\ Len(left \o one \o right) = Len(left \o one) + Len(right)
  BY <1>3, <1>5, Zenon, Concat
<1>7. QED
  BY <1>1, <1>2, <1>3, <1>4, <1>5, <1>6

(* Changing one part of a good dict leaves it one that can be stored.      *)
LEMMA Refielded ==
  ASSUME NEW nt \in Good, NEW flds \in Seq(Int), Len(flds) \in 1 .. MaxFields
  PROVE  [nt EXCEPT !.flds = flds] \in Editable
<1>1. nt \in Editable
  BY GoodIsEditable
<1>2. QED
  BY <1>1 DEF Editable

LEMMA Retemplated ==
  ASSUME NEW nt \in Good, NEW tmpls \in 1 .. MaxTemplates
  PROVE  [nt EXCEPT !.tmpls = tmpls] \in Editable
<1>1. nt \in Editable
  BY GoodIsEditable
<1>2. QED
  BY <1>1 DEF Editable

LEMMA StockIsEditable ==
  ASSUME NEW nm \in Names, NEW extra \in 0 .. MaxFields, StockFields + extra <= MaxFields
  PROVE  /\ [name |-> nm, flds |-> Loaded(StockFields + extra), sortf |-> 0, tmpls |-> 1] \in Good
         /\ [name |-> nm, flds |-> Loaded(StockFields + extra), sortf |-> 0, tmpls |-> 1] \in Editable
<1> USE ShapeAssumption DEF ShapeAssumption
<1>1. Loaded(StockFields + extra) # <<>> /\ Len(Loaded(StockFields + extra)) = StockFields + extra
  BY LoadedIsSeq
<1>2. QED
  BY <1>1, GoodIsEditable DEF Good, Shape

LEMMA StockIsGood ==
  ASSUME NEW nm \in Names
  PROVE  [name |-> nm, flds |-> Loaded(StockFields), sortf |-> 0, tmpls |-> 1] \in Good
<1> USE ShapeAssumption DEF ShapeAssumption
<1>1. StockFields + 0 = StockFields /\ 0 \in 0 .. MaxFields
  OBVIOUS
<1>2. QED
  BY <1>1, StockIsEditable

LEMMA GrownIsGood ==
  ASSUME NEW nt \in Good, Len(nt.flds) < MaxFields
  PROVE  [nt EXCEPT !.flds = Loaded(Len(@) + 1)] \in Good
<1> USE ShapeAssumption DEF ShapeAssumption
<1>1. PICK n \in 1 .. MaxFields : Len(nt.flds) = n
  BY GoodHasLength
<1>2. n + 1 \in 0 .. MaxFields
  BY <1>1
<1>3. Loaded(n + 1) # <<>> /\ Len(Loaded(n + 1)) = n + 1
  BY <1>2, LoadedIsSeq
<1>4. QED
  BY <1>1, <1>2, <1>3 DEF Good, Shape

LEMMA StoreEffect ==
  ASSUME Tables, NEW i \in NotetypeIds, NEW nt \in Editable, Store(i, nt)
  PROVE  UNCHANGED stored \/ Put(i)
BY WrittenIsGood DEF Store, Put, Tables

LEMMA HeldIsGood ==
  ASSUME Tables, NEW i \in NotetypeIds, Held(i) # None
  PROVE  Held(i) \in Good
BY DEF Tables, Held

LEMMA EditEffect ==
  ASSUME Tables, NEW i \in NotetypeIds, NEW reason, NEW nt, Edits(i, reason, nt),
         Held(i) \in Good /\ ~reason => nt \in Editable
  PROVE  NotetypeEffect
<1>1. CASE NotFound(i)
  BY <1>1 DEF NotFound, NotetypeEffect, Looks, Look, notetypeVars
<1>2. CASE RefuseLoaded(i)
  BY <1>2 DEF RefuseLoaded, NotetypeEffect, Looks, Look
<1>3. CASE Held(i) # None /\ ~reason /\ UpdateDict(i, nt)
  <2>1. Store(i, nt) /\ nt \in Editable
    BY <1>3, HeldIsGood DEF UpdateDict
  <2>2. UNCHANGED stored \/ Put(i)
    BY <2>1, StoreEffect
  <2>3. QED
    BY <1>3, <2>2 DEF UpdateDict, NotetypeEffect, Saves
<1>4. QED
  BY <1>1, <1>2, <1>3 DEF Edits

LEMMA NotetypeRequestEffect == Tables /\ NotetypeRequest => NotetypeEffect
<1> SUFFICES ASSUME Tables, NotetypeRequest
             PROVE  NotetypeEffect
  OBVIOUS
<1>1. ASSUME NEW i \in NotetypeIds, GetNotetype(i)
      PROVE  NotetypeEffect
  BY <1>1 DEF GetNotetype, NotFound, NotetypeEffect, Looks, Look, notetypeVars
<1>2. ASSUME NEW i \in NotetypeIds, DeleteNotetype(i)
      PROVE  NotetypeEffect
  BY <1>2 DEF DeleteNotetype, NotFound, NotetypeEffect, Looks, Look, Removes, notetypeVars, Tables
<1>3. ASSUME NEW i \in NotetypeIds, AddField(i)
      PROVE  NotetypeEffect
  <2>1. ASSUME Held(i) \in Good
        PROVE  [Held(i) EXCEPT !.flds = Append(@, New)] \in Editable
    <3>1. PICK n \in 1 .. MaxFields : Fields(i) = Loaded(n) /\ Len(Fields(i)) = n
      BY <2>1, GoodHasLength DEF Fields
    <3>2. Fields(i) \in Seq(Int) /\ n < MaxFields
      BY <1>3, <2>1, <3>1, LoadedIsSeq, NoneAssumption DEF AddField, Good, NoneAssumption
    <3>3. Append(Fields(i), New) \in Seq(Int) /\ Len(Append(Fields(i), New)) = n + 1
      BY <3>1, <3>2 DEF New
    <3> DEFINE longer == Append(Fields(i), New)
    <3>4. longer \in Seq(Int) /\ Len(longer) \in 1 .. MaxFields
      BY <3>1, <3>2, <3>3, ShapeAssumption DEF ShapeAssumption
    <3>5. [Held(i) EXCEPT !.flds = longer] = [Held(i) EXCEPT !.flds = Append(@, New)]
      BY DEF Fields
    <3> HIDE DEF longer
    <3>6. QED
      BY <2>1, <3>4, <3>5, Refielded
  <2>2. QED
    BY <1>3, <2>1, EditEffect DEF AddField
<1>14. ASSUME NEW i \in NotetypeIds, AddTemplate(i)
      PROVE  NotetypeEffect
  <2>1. ASSUME Held(i) \in Good
        PROVE  [Held(i) EXCEPT !.tmpls = @ + 1] \in Editable
    <3>1. Held(i) # None /\ Held(i).tmpls \in 1 .. MaxTemplates
      BY <2>1, NoneAssumption, GoodIsEditable DEF Good, Editable, NoneAssumption
    <3>2. Held(i).tmpls + 1 \in 1 .. MaxTemplates
      BY <1>14, <3>1, ShapeAssumption DEF AddTemplate, ShapeAssumption
    <3>3. [Held(i) EXCEPT !.tmpls = Held(i).tmpls + 1] \in Editable
      BY <2>1, <3>2, Retemplated
    <3>4. QED
      BY <3>3
  <2>2. QED
    BY <1>14, <2>1, EditEffect DEF AddTemplate
<1>4. ASSUME NEW i \in NotetypeIds, NEW nm \in Names, NEW extra \in 0 .. MaxFields,
             CreateNotetype(i, nm, extra)
      PROVE  NotetypeEffect
  <2> DEFINE nt == [name |-> nm, flds |-> Loaded(StockFields + extra), sortf |-> 0, tmpls |-> 1]
  <2>1. CASE UNCHANGED stored
    BY <1>4, <2>1 DEF CreateNotetype, NotetypeEffect, Looks, Look
  <2>2. CASE AddDict(i, nt)
    <3>1. UNCHANGED stored \/ Put(i)
      BY <1>4, <2>2, StoreEffect, StockIsEditable DEF AddDict, CreateNotetype
    <3>2. QED
      BY <1>4, <2>2, <3>1 DEF CreateNotetype, AddDict, NotetypeEffect, Looks, Adds, Look
  <2>3. QED
    BY <1>4, <2>1, <2>2 DEF CreateNotetype
<1>5. ASSUME NEW i \in NotetypeIds, NEW j \in NotetypeIds, NEW nm \in Names,
             CloneNotetype(i, j, nm)
      PROVE  NotetypeEffect
  <2> DEFINE nt == [Held(i) EXCEPT !.name = nm]
  <2>1. CASE NotFound(i)
    BY <2>1 DEF NotFound, NotetypeEffect, Looks, Look, notetypeVars
  <2>2. CASE Held(i) # None /\ AddDict(j, nt) /\ Kept(i) /\ UNCHANGED <<merged, notes>>
    <3>1. UNCHANGED stored \/ Put(j)
      <4>1. Held(i) \in Editable
        BY <2>2, HeldIsGood, GoodIsEditable
      <4>2. nt \in Editable
        BY <4>1 DEF Editable
      <4>3. QED
        BY <2>2, <4>2, StoreEffect DEF AddDict
    <3>2. QED
      BY <2>2, <3>1 DEF AddDict, NotetypeEffect, Looks, Adds, Look
  <2>3. QED
    BY <1>5, <2>1, <2>2 DEF CloneNotetype
<1>6. ASSUME NEW i \in NotetypeIds, NEW nm \in Names \cup {None},
             NEW idx \in (-1 .. MaxFields) \cup {None}, PatchNotetype(i, nm, idx)
      PROVE  NotetypeEffect
  <2> DEFINE name == IF nm = None THEN Held(i).name ELSE nm
             sortf == IF idx = None THEN Held(i).sortf ELSE idx
             bad == idx # None /\ ~(idx \in 0 .. Len(Fields(i)) - 1)
  <2>1. ASSUME Held(i) \in Good, ~bad
        PROVE  [Held(i) EXCEPT !.name = name, !.sortf = sortf] \in Editable
    <3>1. Held(i) \in Editable
      BY <2>1, GoodIsEditable
    <3>2. Len(Fields(i)) \in 1 .. MaxFields
      BY <3>1 DEF Editable, Fields
    <3>3. name \in Names /\ sortf \in 0 .. MaxFields
      BY <2>1, <3>1, <3>2, ShapeAssumption DEF Editable, ShapeAssumption
    <3>4. QED
      BY <3>1, <3>3 DEF Editable
  <2>2. Edits(i, bad, [Held(i) EXCEPT !.name = name, !.sortf = sortf])
    BY <1>6 DEF PatchNotetype
  <2> HIDE DEF name, sortf, bad
  <2>3. QED
    BY <2>1, <2>2, EditEffect
<1>7. ASSUME NEW i \in NotetypeIds, NEW f \in 0 .. MaxFields, NEW idx \in 0 .. MaxFields,
             RenameField(i, f) \/ RemoveField(i, f) \/ RepositionField(i, f, idx)
      PROVE  NotetypeEffect
  <2> DEFINE rest == RemoveAt(Fields(i), f + 1)
             at == IF idx > Len(rest) THEN Len(rest) ELSE idx
  <2>1. CASE RenameField(i, f)
    BY <2>1, EditEffect, GoodIsEditable DEF RenameField
  <2>2. ASSUME Held(i) \in Good, ~FieldMissing(i, f)
        PROVE  /\ Len(Fields(i)) \in 1 .. MaxFields
               /\ rest \in Seq(Int) /\ Len(rest) = Len(Fields(i)) - 1
    <3>1. Fields(i) \in Seq(Int) /\ Len(Fields(i)) \in 1 .. MaxFields
      BY <2>2, GoodIsEditable DEF Editable, Fields
    <3>2. f \in 0 .. Len(Fields(i)) - 1
      BY <2>2, <3>1 DEF FieldMissing
    <3>3. QED
      BY <3>1, <3>2, f + 1 \in 1 .. Len(Fields(i)), RemoveAtProperties
  <2>3. CASE RemoveField(i, f)
    <3>1. ASSUME Held(i) \in Good, ~(FieldMissing(i, f) \/ Len(Fields(i)) <= 1)
          PROVE  [Held(i) EXCEPT !.flds = rest] \in Editable
      <4>1. Len(rest) \in 1 .. MaxFields /\ rest \in Seq(Int)
        BY <2>2, <3>1, ShapeAssumption DEF ShapeAssumption
      <4>2. QED
        BY <3>1, <4>1, Refielded
    <3>2. Edits(i, FieldMissing(i, f) \/ Len(Fields(i)) <= 1, [Held(i) EXCEPT !.flds = rest])
      BY <2>3 DEF RemoveField, Fields
    <3> HIDE DEF rest
    <3>3. QED
      BY <3>1, <3>2, EditEffect
  <2>4. CASE RepositionField(i, f, idx)
    <3>1. ASSUME Held(i) \in Good, ~FieldMissing(i, f)
          PROVE  [Held(i) EXCEPT !.flds = InsertAt(rest, at + 1, f)] \in Editable
      <4>1. at + 1 \in 1 .. Len(rest) + 1 /\ f \in Int
        BY <2>2, <3>1
      <4>2. /\ InsertAt(rest, at + 1, f) \in Seq(Int)
            /\ Len(InsertAt(rest, at + 1, f)) = Len(Fields(i))
        <5> HIDE DEF rest, at
        <5>1. QED
          BY <2>2, <3>1, <4>1, InsertAtProperties
      <4>3. QED
        BY <2>2, <3>1, <4>2, Refielded
    <3>2. Edits(i, FieldMissing(i, f), [Held(i) EXCEPT !.flds = InsertAt(rest, at + 1, f)])
      BY <2>4 DEF RepositionField
    <3> HIDE DEF rest, at
    <3>3. QED
      BY <3>1, <3>2, EditEffect
  <2>5. QED
    BY <1>7, <2>1, <2>3, <2>4
<1>8. ASSUME NEW i \in NotetypeIds, NEW t \in 0 .. MaxTemplates,
             UpdateTemplate(i, t) \/ RepositionTemplate(i, t) \/ RemoveTemplate(i, t)
      PROVE  NotetypeEffect
  <2>1. CASE UpdateTemplate(i, t) \/ RepositionTemplate(i, t)
    BY <2>1, EditEffect, GoodIsEditable DEF UpdateTemplate, RepositionTemplate
  <2>2. CASE RemoveTemplate(i, t)
    <3>1. ASSUME Held(i) \in Good, ~(Held(i).tmpls <= 1)
          PROVE  [Held(i) EXCEPT !.tmpls = @ - 1] \in Editable
      <4>1. Held(i).tmpls - 1 \in 1 .. MaxTemplates
        BY <3>1, ShapeAssumption DEF Good, Shape, ShapeAssumption
      <4>2. QED
        BY <3>1, <4>1, Retemplated
    <3>2. QED
      BY <2>2, <3>1, EditEffect DEF RemoveTemplate
  <2>3. QED
    BY <1>8, <2>1, <2>2
<1>9. ASSUME NEW i \in NotetypeIds, NEW j \in NotetypeIds, NEW n \in NoteIds,
             ChangeNotetype(i, j, n)
      PROVE  NotetypeEffect
  BY <1>9 DEF ChangeNotetype, NotetypeEffect, Looks, Look, notetypeVars
<1>10. ASSUME NEW i \in NotetypeIds, NEW nt \in Shape, UndoNotetype(i, nt)
       PROVE  NotetypeEffect
  <2>1. nt \in Good
    BY <1>10 DEF UndoNotetype, Good
  <2>2. QED
    BY <1>10, <2>1 DEF UndoNotetype, NotetypeEffect, Reverts, Put, Tables
<1>11. ASSUME NEW n \in NoteIds, DeleteNote(n)
       PROVE  NotetypeEffect
  BY <1>11 DEF DeleteNote, NotetypeEffect, Looks, Look, notetypeVars
<1>12. ASSUME NEW n \in NoteIds, NEW fits \in BOOLEAN, UpdateNote(n, fits)
       PROVE  NotetypeEffect
  <2>1. UNCHANGED <<stored, merged>>
    BY <1>12 DEF UpdateNote
  <2>2. Look
    BY <1>12 DEF UpdateNote, Look, Kept, Tables
  <2>3. QED
    BY <2>1, <2>2 DEF NotetypeEffect, Looks
<1>13. QED
  BY <1>1, <1>2, <1>3, <1>4, <1>5, <1>6, <1>7, <1>8, <1>9, <1>10, <1>11, <1>12,
     <1>14 DEF NotetypeRequest

(* What a filtered deck gives back or takes is still a note, with the same *)
(* notetype and home.                                                      *)
LEMMA GatheredNote ==
  ASSUME Tables, NEW d \in DeckIds, NEW s, NEW n \in NoteIds
  PROVE  /\ Gathered(d, s)[n] \in Note \cup {None}
         /\ notes[n] = None => Gathered(d, s)[n] = None
         /\ notes[n] # None =>
              /\ Gathered(d, s)[n].nt = notes[n].nt
              /\ Gathered(d, s)[n].home = notes[n].home
              /\ Gathered(d, s)[n].away = IF n \in s THEN d
                                          ELSE IF notes[n].away = d THEN None ELSE notes[n].away
<1>1. notes[n] \in Note \cup {None}
  BY DEF Tables
<1>2. CASE notes[n] = None
  BY <1>2 DEF Gathered
<1>3. CASE notes[n] # None
  <2>1. notes[n] = [nt |-> notes[n].nt, home |-> notes[n].home, away |-> notes[n].away]
    BY <1>1, <1>3 DEF Note
  <2>2. Gathered(d, s)[n] = IF n \in s THEN [notes[n] EXCEPT !.away = d]
                            ELSE IF notes[n].away = d THEN [notes[n] EXCEPT !.away = None]
                            ELSE notes[n]
    BY <1>3 DEF Gathered
  <2>3. QED
    BY <1>1, <1>3, <2>2 DEF Note
<1>4. QED
  BY <1>2, <1>3

(* What a name makes: the deck, those above it that are missing, or other  *)
(* terms of a filtered deck.                                               *)
LEMMA NewDeckMakes ==
  ASSUME Tables, NEW d \in DeckIds, NEW above \in SUBSET Missing,
         NEW value \in {DEFAULT_PRESET_ID} \cup Terms, NewDeck(d, above, value)
  PROVE  Makes(d) /\ decks'[d] = value
<1>1. decks[d] = None /\ \A e \in above : decks[e] = None
  BY DEF NewDeck, Missing
<1>2. WithParents(above) \in [DeckIds -> PresetIds \cup Terms \cup {None}]
  BY DefaultAssumption DEF DefaultAssumption, WithParents, Tables
<1>3. \A e \in DeckIds : decks'[e] = IF e = d THEN value
                                    ELSE IF e \in above THEN DEFAULT_PRESET_ID ELSE decks[e]
  BY <1>2 DEF NewDeck, WithParents
<1>4. decks' \in [DeckIds -> PresetIds \cup Terms \cup {None}]
  BY <1>2, DefaultAssumption DEF DefaultAssumption, NewDeck
<1>5. QED
  BY <1>1, <1>3, <1>4 DEF Makes

LEMMA ParentsMake ==
  ASSUME Tables, NEW d \in DeckIds, NEW above \in SUBSET Missing, decks' = WithParents(above)
  PROVE  Makes(d)
BY DefaultAssumption DEF DefaultAssumption, WithParents, Missing, Tables, Makes

LEMMA TermsMake ==
  ASSUME Tables, NEW d \in DeckIds, ~Normal(d), NEW terms \in Terms,
         decks' = [decks EXCEPT ![d] = terms]
  PROVE  Makes(d) /\ decks'[d] = terms
BY DEF Normal, Tables, Makes

LEMMA DeckRequestEffect ==
  ASSUME Tables, DeckRequest
  PROVE  DeckEffect /\ Look /\ UNCHANGED <<stored, merged>>
<1> USE DefaultAssumption DEF DefaultAssumption
<1> DEFINE Goal == DeckEffect /\ Look /\ UNCHANGED <<stored, merged>>
<1>1. ASSUME UNCHANGED deckVars, UNCHANGED notetypeVars
      PROVE  Goal
  BY <1>1 DEF DeckEffect, Look, notetypeVars
<1>2. CASE RefuseDeck
  BY <1>1, <1>2 DEF RefuseDeck
<1>3. ASSUME NEW d \in DeckIds, Makes(d), UNCHANGED presets, UNCHANGED notetypeVars
      PROVE  Goal
  BY <1>3 DEF DeckEffect, Look, notetypeVars
<1>4. ASSUME NEW d \in DeckIds, DeleteDeck(d) \/ Empty(d)
      PROVE  Goal
  <2>1. CASE DeleteDeck(d) /\ ~RefuseDeck
    <3>1. UNCHANGED presets /\ UNCHANGED notetypeVars
      BY <2>1 DEF DeleteDeck, RefuseDeck
    <3>2. CASE d = DEFAULT_DECK
      <4>1. UNCHANGED decks
        BY <2>1, <3>2 DEF DeleteDeck, Tables
      <4>2. QED
        BY <1>1, <3>1, <4>1 DEF deckVars
    <3>3. CASE d # DEFAULT_DECK
      <4>1. decks' = [decks EXCEPT ![d] = None]
        BY <2>1, <3>3 DEF DeleteDeck, RefuseDeck, Tables
      <4>2. ASSUME NEW n \in NoteIds, notes'[n] # None
            PROVE  notes'[n].home # d /\ notes'[n].away \in {None} \cup (DeckIds \ {d})
        <5>1. notes'[n] = Gathered(d, {})[n] /\ ~(notes[n] # None /\ notes[n].home = d)
          BY <2>1, <4>2 DEF DeleteDeck, RefuseDeck
        <5>2. QED
          BY <4>2, <5>1, GatheredNote DEF Note
      <4>3. Drops(d) /\ UNCHANGED presets
        BY <3>1, <4>1, <4>2 DEF Drops
      <4>4. QED
        BY <3>1, <3>3, <4>3 DEF DeckEffect, Look, notetypeVars
    <3>4. QED
      BY <3>2, <3>3
  <2>2. CASE Empty(d)
    BY <1>1, <1>2, <2>2 DEF Empty
  <2>3. QED
    BY <1>2, <1>4, <2>1, <2>2
<1>5. ASSUME NEW d \in DeckIds, NEW above \in SUBSET Missing,
             CreateDeck(d, above) \/ RenameDeck(d, above)
      PROVE  Goal
  BY <1>2, <1>3, <1>5, NewDeckMakes, ParentsMake DEF CreateDeck, RenameDeck
<1>6. ASSUME NEW d \in DeckIds, NEW p \in PresetIds, AssignPreset(d, p)
      PROVE  Goal
  <2>1. CASE RefuseDeck
    BY <1>2, <2>1
  <2>2. CASE ~RefuseDeck /\ decks[d] \in Terms
    <3>1. UNCHANGED decks
      BY <1>6, <2>2 DEF AssignPreset, Tables
    <3>2. QED
      BY <1>1, <1>6, <2>2, <3>1 DEF AssignPreset, deckVars
  <2>3. CASE ~RefuseDeck /\ decks[d] \notin Terms
    <3>1. Assigns(d, p) /\ UNCHANGED presets /\ UNCHANGED notetypeVars
      BY <1>6, <2>3 DEF AssignPreset, Assigns, Tables
    <3>2. QED
      BY <3>1 DEF DeckEffect, Look, notetypeVars
  <2>4. QED
    BY <2>1, <2>2, <2>3
<1>7. ASSUME NEW d \in DeckIds, NEW above \in SUBSET Missing, NEW terms \in Terms, NEW s,
             CreateFiltered(d, above, terms, s)
      PROVE  Goal
  <2>1. CASE CreateFiltered(d, above, terms, s) /\ ~RefuseDeck
    <3>1. NewDeck(d, above, terms) => Makes(d)
      BY NewDeckMakes
    <3>2. IsFiltered(d) /\ decks' = [decks EXCEPT ![d] = terms] => Makes(d)
      BY TermsMake, DeckValueAssumption DEF DeckValueAssumption, IsFiltered, Normal
    <3>3. QED
      BY <1>3, <2>1, <3>1, <3>2 DEF CreateFiltered
  <2>2. QED
    BY <1>2, <1>7, <2>1
<1>8. ASSUME NEW d \in DeckIds, NEW session \in DeckIds, NEW terms \in Terms, NEW s,
             CustomStudy(d, session, terms, s)
      PROVE  Goal
  BY <1>1, <1>2, <1>3, <1>8, TermsMake DEF CustomStudy, deckVars
<1>9. ASSUME NEW d \in DeckIds, NEW s, SetDeck(s, d) \/ Rebuild(d, s)
      PROVE  Goal
  BY <1>1, <1>2, <1>9 DEF SetDeck, Rebuild
<1>10. ASSUME NEW d \in DeckIds, NEW n \in NoteIds, NEW nm \in Names,
              NEW above \in SUBSET Missing, NEW fit \in BOOLEAN,
              CreateNote(n, nm, d, above, fit)
       PROVE  Goal
  <2>1. CASE RefuseDeck
    BY <1>2, <2>1
  <2>2. ASSUME NEW i \in ByName(nm), Kept(i),
               NewDeck(d, above, DEFAULT_PRESET_ID) \/ UNCHANGED decks,
               UNCHANGED <<presets, stored, merged>>
        PROVE  Goal
    <3>1. Look
      BY <2>2 DEF ByName, Look
    <3>2. DeckEffect
      BY <2>2, NewDeckMakes DEF DeckEffect, deckVars
    <3>3. QED
      BY <2>2, <3>1, <3>2
  <2>3. QED
    BY <1>10, <2>1, <2>2 DEF CreateNote
<1>11. ASSUME NEW parent, ReparentDecks(parent)
       PROVE  Goal
  BY <1>1, <1>11 DEF ReparentDecks
<1>12. ASSUME NEW p \in PresetIds, DeletePreset(p)
       PROVE  Goal
  BY <1>2, <1>12 DEF DeletePreset, DeckEffect, Look, notetypeVars
<1>13. ASSUME NEW p \in PresetIds, NEW from, CreatePreset(p, from)
       PROVE  Goal
  BY <1>2, <1>13 DEF CreatePreset, DeckEffect, Look, notetypeVars
<1>14. ASSUME NEW p \in PresetIds, NEW known, RestoreDefaults(p) \/ UpdatePreset(p, known)
       PROVE  Goal
  BY <1>1, <1>14 DEF RestoreDefaults, UpdatePreset
<1>15. QED
  BY <1>4, <1>5, <1>6, <1>7, <1>8, <1>9, <1>10, <1>11, <1>12, <1>13, <1>14 DEF DeckRequest

LEMMA IoEffect ==
  ASSUME Tables, NEW i \in NotetypeIds, IoNotetype(i), UNCHANGED merged
  PROVE  NotetypeEffect
<1>1. CASE Kept(i) /\ UNCHANGED stored
  BY <1>1 DEF NotetypeEffect, Looks, Look
<1>2. CASE ~(Kept(i) /\ UNCHANGED stored)
  <2>1. [name |-> IO_NOTETYPE, flds |-> Loaded(StockFields), sortf |-> 0, tmpls |-> 1] \in Good
    BY StockIsGood, NameAssumption DEF NameAssumption
  <2>2. QED
    BY <1>2, <2>1 DEF IoNotetype, NotetypeEffect, AddsIo, Put, Tables
<1>3. QED
  BY <1>1, <1>2

LEMMA TransferRequestEffect ==
  ASSUME Tables, TransferRequest
  PROVE  NotetypeEffect /\ DeckEffect
<1> USE DefaultAssumption DEF DefaultAssumption
<1>1. ASSUME UNCHANGED collectionVars
      PROVE  NotetypeEffect /\ DeckEffect
  BY <1>1 DEF collectionVars, NotetypeEffect, Looks, Look, DeckEffect, notetypeVars
<1>2. ASSUME NEW w \in Workers,
             \/ ExportRaises(w) \/ Sent(w) \/ SaveUploadFails(w) \/ ImportRaises(w)
             \/ CsvMetadata(w) \/ SaveUpload(w) \/ Synthesize(w) \/ SynthesizeRaises(w)
             \/ Spoken(w) \/ \E l \in Limits : Export(w, l)
      PROVE  NotetypeEffect /\ DeckEffect
  BY <1>1, <1>2 DEF ExportRaises, Sent, SaveUploadFails, ImportRaises, CsvMetadata,
     SaveUpload, Synthesize, SynthesizeRaises, Spoken, Export
<1>3. ASSUME NEW w \in Workers, NEW i \in NotetypeIds, NEW d \in DeckIds,
             NEW above \in SUBSET Missing, NEW n \in NoteIds, ImportApkg(w, i, d, above, n)
      PROVE  NotetypeEffect /\ DeckEffect
  <2>1. DeckEffect
    BY <1>3, NewDeckMakes DEF ImportApkg, DeckEffect, deckVars
  <2>2. CASE UNCHANGED <<stored, merged>>
    BY <1>3, <2>1, <2>2 DEF ImportApkg, NotetypeEffect, Looks, Look
  <2>3. CASE stored[i] = None /\ UNCHANGED merged /\ ~UNCHANGED <<stored, merged>>
    <3>1. Put(i)
      BY <1>3, <2>3, StockIsGood DEF ImportApkg, Put, Tables
    <3>2. QED
      BY <1>3, <2>1, <2>3, <3>1 DEF ImportApkg, NotetypeEffect, Adds, Look
  <2>4. CASE stored[i] # None /\ ~UNCHANGED <<stored, merged>>
    <3>1. [stored[i] EXCEPT !.flds = Loaded(Len(@) + 1)] \in Good
      BY <1>3, <2>4, GrownIsGood DEF ImportApkg, Tables
    <3>2. Put(i)
      BY <1>3, <2>4, <3>1 DEF ImportApkg, Put, Tables
    <3>3. QED
      BY <1>3, <2>1, <2>4, <3>2 DEF ImportApkg, NotetypeEffect, Merges
  <2>5. QED
    BY <1>3, <2>2, <2>3, <2>4 DEF ImportApkg
<1>4. ASSUME NEW w \in Workers, NEW d \in DeckIds \cup {None},
             NEW i \in NotetypeIds \cup {None}, NEW s, ImportCsv(w, d, i, s)
      PROVE  NotetypeEffect /\ DeckEffect
  <2>1. Look
    BY <1>4 DEF ImportCsv, Look
  <2>2. UNCHANGED <<stored, merged>>
    BY <1>4 DEF ImportCsv, CsvImporter
  <2>3. CASE UNCHANGED deckVars
    BY <2>1, <2>2, <2>3 DEF NotetypeEffect, Looks, DeckEffect
  <2>4. ASSUME NEW e \in DeckIds, NEW j, CsvImporter(e, j, s)
        PROVE  DeckEffect
    BY <2>4, NewDeckMakes DEF CsvImporter, DeckEffect, deckVars
  <2>5. DeckEffect
    BY <1>4, <2>3, <2>4 DEF ImportCsv, DeckEffect
  <2>6. QED
    BY <2>1, <2>2, <2>5 DEF NotetypeEffect, Looks
<1>5. ASSUME NEW i \in NotetypeIds, EnsureIoNotetype(i)
      PROVE  NotetypeEffect /\ DeckEffect
  BY <1>5, IoEffect DEF EnsureIoNotetype, DeckEffect
<1>6. ASSUME NEW i \in NotetypeIds, NEW n \in NoteIds, NEW d \in DeckIds, CreateIoNote(i, n, d)
      PROVE  NotetypeEffect /\ DeckEffect
  BY <1>1, <1>6, IoEffect DEF CreateIoNote, DeckEffect
<1>7. ASSUME NEW n \in NoteIds, UpdateIoNote(n)
      PROVE  NotetypeEffect /\ DeckEffect
  BY <1>1, <1>7 DEF UpdateIoNote
<1>8. QED
  BY <1>2, <1>3, <1>4, <1>5, <1>6, <1>7 DEF TransferRequest

LEMMA StepEffect == Tables /\ [Next]_vars => NotetypeEffect /\ DeckEffect
<1> SUFFICES ASSUME Tables, [Next]_vars
             PROVE  NotetypeEffect /\ DeckEffect
  OBVIOUS
<1>1. CASE NotetypeRequest /\ UNCHANGED <<deckVars, jobs>>
  BY <1>1, NotetypeRequestEffect DEF DeckEffect
<1>2. CASE DeckRequest
  BY <1>2, DeckRequestEffect DEF NotetypeEffect, Looks
<1>3. CASE TransferRequest
  BY <1>3, TransferRequestEffect
<1>4. CASE UNCHANGED vars
  BY <1>4 DEF vars, NotetypeEffect, Looks, Look, DeckEffect, deckVars
<1>5. QED
  BY <1>1, <1>2, <1>3, <1>4 DEF Next

(* A note that stays as it is, goes, or is new and names what is there.    *)
LEMMA NotesKept ==
  ASSUME Tables, notes' = notes
  PROVE  NoteEffect
BY DEF NoteEffect, Placed, Tables

LEMMA NoteGathered ==
  ASSUME Tables, NEW d \in DeckIds, NEW s, decks'[d] \in Terms \/ s = {},
         notes' = Gathered(d, s)
  PROVE  NoteEffect
<1>1. notes' \in [NoteIds -> Note \cup {None}]
  BY GatheredNote DEF Gathered
<1>2. ASSUME NEW n \in NoteIds, notes'[n] # None
      PROVE  Placed(n)
  BY <1>2, GatheredNote DEF Placed
<1>3. QED
  BY <1>1, <1>2 DEF NoteEffect

LEMMA NoteCreated ==
  ASSUME Tables, NEW n \in NoteIds, NEW i \in NotetypeIds, NEW d \in DeckIds,
         stored'[i] # None, decks'[d] \in PresetIds,
         notes' = [notes EXCEPT ![n] = [nt |-> i, home |-> d, away |-> None]]
  PROVE  NoteEffect
BY DEF NoteEffect, Placed, Note, Tables

LEMMA StockIsThere ==
  ASSUME NEW nm \in Names
  PROVE  [name |-> nm, flds |-> Loaded(StockFields), sortf |-> 0, tmpls |-> 1] # None
BY StockIsGood, NoneAssumption DEF Good, NoneAssumption

LEMMA NotetypeRequestNotes ==
  ASSUME Tables, NotetypeRequest
  PROVE  NoteEffect
<1>1. ASSUME NEW i \in NotetypeIds, NEW reason, NEW nt, Edits(i, reason, nt)
      PROVE  NoteEffect
  BY <1>1, NotesKept DEF Edits, NotFound, RefuseLoaded, UpdateDict
<1>2. ASSUME NEW i \in NotetypeIds, GetNotetype(i) \/ AddField(i) \/ AddTemplate(i)
      PROVE  NoteEffect
  BY <1>1, <1>2, NotesKept DEF GetNotetype, NotFound, AddField, AddTemplate
<1>3. ASSUME NEW i \in NotetypeIds, NEW j, NEW nm, NEW extra,
             CreateNotetype(i, nm, extra) \/ CloneNotetype(i, j, nm)
      PROVE  NoteEffect
  BY <1>3, NotesKept DEF CreateNotetype, CloneNotetype, NotFound
<1>4. ASSUME NEW i \in NotetypeIds, NEW nm, NEW idx, PatchNotetype(i, nm, idx)
      PROVE  NoteEffect
  BY <1>1, <1>4 DEF PatchNotetype
<1>5. ASSUME NEW i \in NotetypeIds, NEW f, NEW idx,
             RenameField(i, f) \/ RemoveField(i, f) \/ RepositionField(i, f, idx)
      PROVE  NoteEffect
  BY <1>1, <1>5 DEF RenameField, RemoveField, RepositionField
<1>6. ASSUME NEW i \in NotetypeIds, NEW t,
             UpdateTemplate(i, t) \/ RepositionTemplate(i, t) \/ RemoveTemplate(i, t)
      PROVE  NoteEffect
  BY <1>1, <1>6 DEF UpdateTemplate, RepositionTemplate, RemoveTemplate
<1>7. ASSUME NEW i \in NotetypeIds, NEW nt, UndoNotetype(i, nt)
      PROVE  NoteEffect
  BY <1>7, NotesKept DEF UndoNotetype
<1>8. ASSUME NEW i \in NotetypeIds, DeleteNotetype(i)
      PROVE  NoteEffect
  <2>1. CASE NotFound(i)
    BY <2>1, NotesKept DEF NotFound
  <2>2. CASE ~NotFound(i)
    <3>1. notes' = [n \in NoteIds |->
                      IF notes[n] # None /\ notes[n].nt = i THEN None ELSE notes[n]]
      BY <1>8, <2>2 DEF DeleteNotetype
    <3>2. QED
      BY <3>1 DEF NoteEffect, Placed, Tables
  <2>3. QED
    BY <2>1, <2>2
<1>9. ASSUME NEW i \in NotetypeIds, NEW j \in NotetypeIds, NEW n \in NoteIds,
             ChangeNotetype(i, j, n)
      PROVE  NoteEffect
  <2>1. CASE UNCHANGED notes
    BY <2>1, NotesKept
  <2>2. CASE ~UNCHANGED notes
    <3>1. /\ stored'[j] # None /\ notes[n] # None
          /\ notes' = [notes EXCEPT ![n] = [notes[n] EXCEPT !.nt = j]]
      BY <1>9, <2>2 DEF ChangeNotetype, notetypeVars
    <3>2. notes[n] \in Note
      BY <3>1 DEF Tables
    <3>3. [notes[n] EXCEPT !.nt = j] \in Note
      BY <3>2 DEF Note
    <3>4. notes' \in [NoteIds -> Note \cup {None}]
      BY <3>1, <3>3 DEF Tables
    <3>5. ASSUME NEW m \in NoteIds, notes'[m] # None
          PROVE  Placed(m)
      BY <3>1, <3>2, <3>5 DEF Placed, Tables, Note
    <3>6. QED
      BY <3>4, <3>5 DEF NoteEffect
  <2>3. QED
    BY <2>1, <2>2
<1>10. ASSUME NEW n \in NoteIds, DeleteNote(n)
       PROVE  NoteEffect
  BY <1>10 DEF DeleteNote, NoteEffect, Placed, Tables
<1>11. ASSUME NEW n \in NoteIds, NEW fits, UpdateNote(n, fits)
       PROVE  NoteEffect
  BY <1>11, NotesKept DEF UpdateNote
<1>12. QED
  BY <1>2, <1>3, <1>4, <1>5, <1>6, <1>7, <1>8, <1>9, <1>10, <1>11 DEF NotetypeRequest

LEMMA DeckRequestNotes ==
  ASSUME Tables, DeckRequest
  PROVE  NoteEffect
<1> USE DefaultAssumption DEF DefaultAssumption
<1>1. CASE RefuseDeck
  BY <1>1, NotesKept DEF RefuseDeck
<1>2. ASSUME NEW d \in DeckIds, NEW p, NEW from, NEW known, NEW parent, NEW above,
             \/ CreateDeck(d, above) \/ RenameDeck(d, above) \/ ReparentDecks(parent)
             \/ AssignPreset(d, p) \/ CreatePreset(p, from) \/ UpdatePreset(p, known)
             \/ RestoreDefaults(p) \/ DeletePreset(p)
      PROVE  NoteEffect
  BY <1>1, <1>2, NotesKept
     DEF CreateDeck, RenameDeck, ReparentDecks, AssignPreset, CreatePreset, UpdatePreset,
         RestoreDefaults, DeletePreset
<1>3. ASSUME NEW d \in DeckIds, DeleteDeck(d)
      PROVE  NoteEffect
  <2>1. CASE ~RefuseDeck
    <3>1. notes' = [n \in NoteIds |-> IF notes[n] # None /\ notes[n].home = d
                                      THEN None ELSE Gathered(d, {})[n]]
      BY <1>3, <2>1 DEF DeleteDeck
    <3>2. notes' \in [NoteIds -> Note \cup {None}]
      BY <3>1, GatheredNote
    <3>3. ASSUME NEW n \in NoteIds, notes'[n] # None
          PROVE  Placed(n)
      BY <3>1, <3>3, GatheredNote DEF Placed
    <3>4. QED
      BY <3>2, <3>3 DEF NoteEffect
  <2>2. QED
    BY <1>1, <2>1
<1>4. ASSUME NEW d \in DeckIds, NEW above \in SUBSET Missing, NEW terms \in Terms, NEW s,
             CreateFiltered(d, above, terms, s)
      PROVE  NoteEffect
  <2>1. CASE UNCHANGED notes
    BY <2>1, NotesKept
  <2>2. CASE ~UNCHANGED notes
    <3>1. notes' = Gathered(d, s) /\ decks'[d] \in Terms
      BY <1>4, <2>2, NewDeckMakes
         DEF CreateFiltered, RefuseDeck, Tables
    <3>2. QED
      BY <3>1, NoteGathered
  <2>3. QED
    BY <2>1, <2>2
<1>5. ASSUME NEW d \in DeckIds, NEW s, Empty(d) \/ Rebuild(d, s)
      PROVE  NoteEffect
  BY <1>1, <1>5, NoteGathered DEF Empty, Rebuild, IsFiltered, deckVars
<1>6. ASSUME NEW d \in DeckIds, NEW session \in DeckIds, NEW terms \in Terms, NEW s,
             CustomStudy(d, session, terms, s)
      PROVE  NoteEffect
  <2>1. CASE UNCHANGED notes
    BY <2>1, NotesKept
  <2>2. CASE ~UNCHANGED notes
    <3>1. notes' = Gathered(session, s) /\ decks'[session] \in Terms
      BY <1>6, <2>2 DEF CustomStudy, RefuseDeck, Tables
    <3>2. QED
      BY <3>1, NoteGathered
  <2>3. QED
    BY <2>1, <2>2
<1>7. ASSUME NEW d \in DeckIds, NEW s, SetDeck(s, d)
      PROVE  NoteEffect
  <2>1. CASE ~RefuseDeck
    <3>1. /\ decks'[d] \in PresetIds
          /\ notes' = [n \in NoteIds |->
                         IF n \in s /\ notes[n] # None
                         THEN [notes[n] EXCEPT !.home = d, !.away = None] ELSE notes[n]]
      BY <1>7, <2>1 DEF SetDeck, Normal, deckVars
    <3>2. ASSUME NEW n \in NoteIds
          PROVE  notes'[n] \in Note \cup {None} /\ (notes'[n] = None \/ Placed(n))
      <4>1. CASE n \in s /\ notes[n] # None
        <5>1. notes[n] \in Note
          BY <4>1 DEF Tables
        <5>2. /\ notes'[n] \in Note /\ notes'[n].home = d /\ notes'[n].away = None
              /\ notes'[n].nt = notes[n].nt
          BY <3>1, <4>1, <5>1 DEF Note
        <5>3. QED
          BY <3>1, <4>1, <5>2 DEF Placed
      <4>2. CASE ~(n \in s /\ notes[n] # None)
        BY <3>1, <4>2 DEF Placed, Tables
      <4>3. QED
        BY <4>1, <4>2
    <3>3. QED
      BY <3>1, <3>2 DEF NoteEffect
  <2>2. QED
    BY <1>1, <2>1
<1>8. ASSUME NEW d \in DeckIds, NEW n \in NoteIds, NEW nm, NEW above \in SUBSET Missing,
             NEW fit, CreateNote(n, nm, d, above, fit)
      PROVE  NoteEffect
  <2>1. CASE UNCHANGED notes
    BY <2>1, NotesKept
  <2>2. CASE ~UNCHANGED notes
    <3>1. PICK i \in ByName(nm) :
            /\ notes' = [notes EXCEPT ![n] = [nt |-> i, home |-> d, away |-> None]]
            /\ NewDeck(d, above, DEFAULT_PRESET_ID) \/ (Normal(d) /\ UNCHANGED decks)
            /\ UNCHANGED stored
      BY <1>8, <2>2 DEF CreateNote, RefuseDeck
    <3>2. i \in NotetypeIds /\ stored'[i] # None
      BY <3>1 DEF ByName
    <3>3. decks'[d] \in PresetIds
      BY <3>1, NewDeckMakes DEF Normal
    <3>4. QED
      BY <3>1, <3>2, <3>3, NoteCreated
  <2>3. QED
    BY <2>1, <2>2
<1>9. QED
  BY <1>2, <1>3, <1>4, <1>5, <1>6, <1>7, <1>8 DEF DeckRequest

LEMMA TransferRequestNotes ==
  ASSUME Tables, TransferRequest
  PROVE  NoteEffect
<1> USE DefaultAssumption DEF DefaultAssumption
<1>1. ASSUME NEW w \in Workers,
             \/ ExportRaises(w) \/ Sent(w) \/ SaveUploadFails(w) \/ ImportRaises(w)
             \/ CsvMetadata(w) \/ SaveUpload(w) \/ Synthesize(w) \/ SynthesizeRaises(w)
             \/ Spoken(w) \/ \E l \in Limits : Export(w, l)
      PROVE  NoteEffect
  BY <1>1, NotesKept DEF ExportRaises, Sent, SaveUploadFails, ImportRaises, CsvMetadata,
     SaveUpload, Synthesize, SynthesizeRaises, Spoken, Export, collectionVars
<1>2. ASSUME NEW w \in Workers, NEW i \in NotetypeIds, NEW d \in DeckIds,
             NEW above \in SUBSET Missing, NEW n \in NoteIds, ImportApkg(w, i, d, above, n)
      PROVE  NoteEffect
  <2>1. CASE notes[n] # None
    <3>1. UNCHANGED notes
      BY <1>2, <2>1 DEF ImportApkg, Tables
    <3>2. QED
      BY <3>1, NotesKept
  <2>2. CASE notes[n] = None
    <3>1. notes' = [notes EXCEPT ![n] = [nt |-> i, home |-> d, away |-> None]]
      BY <1>2, <2>2 DEF ImportApkg
    <3>2. decks'[d] \in PresetIds
      BY <1>2, NewDeckMakes DEF ImportApkg, Normal
    <3>3. stored'[i] # None
      <4>1. CASE UNCHANGED stored
        BY <1>2, <4>1, StockIsThere DEF ImportApkg, Tables
      <4>2. CASE stored[i] = None
        BY <1>2, <4>2, StockIsThere DEF ImportApkg, Tables
      <4>3. CASE stored[i] # None /\ ~UNCHANGED stored
        <5>1. stored' = [stored EXCEPT ![i] = [stored[i] EXCEPT !.flds = Loaded(Len(@) + 1)]]
          BY <1>2, <4>3 DEF ImportApkg
        <5>2. stored'[i] \in Good
          BY <1>2, <4>3, <5>1, GrownIsGood DEF ImportApkg, Tables
        <5>3. QED
          BY <5>2, NoneAssumption DEF Good, NoneAssumption
      <4>4. QED
        BY <4>1, <4>2, <4>3
    <3>4. QED
      BY <3>1, <3>2, <3>3, NoteCreated
  <2>3. QED
    BY <2>1, <2>2
<1>3. ASSUME NEW w \in Workers, NEW d \in DeckIds \cup {None},
             NEW i \in NotetypeIds \cup {None}, NEW s, ImportCsv(w, d, i, s)
      PROVE  NoteEffect
  <2>1. ASSUME NEW e \in DeckIds, NEW j \in NotetypeIds, CsvImporter(e, j, s)
        PROVE  NoteEffect
    <3>1. /\ notes' = [n \in NoteIds |-> IF n \in s /\ notes[n] = None /\ stored[j] # None
                         THEN [nt |-> j, home |-> e, away |-> None] ELSE notes[n]]
          /\ stored' = stored
      BY <2>1 DEF CsvImporter
    <3>2. decks'[e] \in PresetIds
      BY <2>1, NewDeckMakes DEF CsvImporter, Normal
    <3>3. QED
      BY <3>1, <3>2 DEF NoteEffect, Placed, Note, Tables
  <2>2. CASE UNCHANGED notes
    BY <2>2, NotesKept
  <2>3. QED
    BY <1>3, <2>1, <2>2 DEF ImportCsv
<1>4. ASSUME NEW i \in NotetypeIds, EnsureIoNotetype(i)
      PROVE  NoteEffect
  BY <1>4, NotesKept DEF EnsureIoNotetype
<1>5. ASSUME NEW i \in NotetypeIds, NEW n \in NoteIds, NEW d \in DeckIds, CreateIoNote(i, n, d)
      PROVE  NoteEffect
  <2>1. CASE UNCHANGED notes
    BY <2>1, NotesKept
  <2>2. CASE ~UNCHANGED notes
    <3>1. /\ IoNotetype(i) /\ Normal(d) /\ UNCHANGED deckVars
          /\ notes' = [notes EXCEPT ![n] = [nt |-> i, home |-> d, away |-> None]]
      BY <1>5, <2>2 DEF CreateIoNote, collectionVars
    <3>2. stored'[i] # None
      BY <3>1, StockIsThere, NameAssumption DEF IoNotetype, ByName, NameAssumption, Tables
    <3>3. decks'[d] \in PresetIds
      BY <3>1 DEF Normal, deckVars
    <3>4. QED
      BY <3>1, <3>2, <3>3, NoteCreated
  <2>3. QED
    BY <2>1, <2>2
<1>6. ASSUME NEW n \in NoteIds, UpdateIoNote(n)
      PROVE  NoteEffect
  BY <1>6, NotesKept DEF UpdateIoNote, collectionVars
<1>7. QED
  BY <1>1, <1>2, <1>3, <1>4, <1>5, <1>6 DEF TransferRequest

LEMMA StepNotes == Tables /\ [Next]_vars => NoteEffect
BY NotetypeRequestNotes, DeckRequestNotes, TransferRequestNotes, NotesKept DEF Next, vars

(* What a limit lets out is what it says: FieldsMatchScope has left nothing *)
(* that the scope does not mean, and Names404 nothing that is not there.   *)
LEMMA LimitIsExact ==
  ASSUME NEW l \in Limits, FieldsMatchScope(l), ~Names404(l)
  PROVE  Exported(BuildLimit(l)) = Asked(l) /\ Asked(l) \in SUBSET NoteIds
<1>1. l.scope \in {"collection", "deck", "notes", "cards"}
  BY DEF Limits
<1>2. Existing \in SUBSET NoteIds /\ \A d : InDeck(d) \in SUBSET NoteIds
  BY DEF Existing, InDeck
<1>3. CASE l.scope = "collection"
  BY <1>2, <1>3 DEF FieldsMatchScope, BuildLimit, Exported, Asked
<1>4. CASE l.scope = "deck"
  BY <1>2, <1>4 DEF FieldsMatchScope, BuildLimit, Exported, Asked
<1>5. CASE l.scope \in {"notes", "cards"}
  <2>1. l.deck_id = None /\ l.ids # None /\ l.ids \subseteq Existing
    BY <1>5 DEF FieldsMatchScope, Names404
  <2>2. l.ids \cap Existing = l.ids
    BY <2>1
  <2>3. BuildLimit(l) = [type |-> "IdsLimit", ids |-> l.ids]
    BY <1>5 DEF BuildLimit
  <2>4. QED
    BY <1>2, <2>1, <2>2, <2>3 DEF Exported, Asked
<1>6. QED
  BY <1>1, <1>3, <1>4, <1>5

LEMMA TransferRequestJobs ==
  ASSUME Tables, TransferRequest
  PROVE  JobEffect
<1>1. ASSUME NEW w \in Workers, NEW kind \in {"upload", "speech", "download"},
             NEW ids \in SUBSET NoteIds, Begin(w, kind, ids, ids), Accept
      PROVE  JobEffect
  <2> DEFINE job == [kind |-> kind, asked |-> ids, holds |-> ids]
  <2>1. job \in Job /\ job.holds = job.asked
    BY DEF Job
  <2>2. jobs' = [jobs EXCEPT ![w] = job]
    BY <1>1 DEF Begin
  <2>3. QED
    BY <1>1, <2>1, <2>2 DEF Accept, JobEffect, Begins
<1>2. ASSUME NEW w \in Workers, NEW l \in Limits, Export(w, l)
      PROVE  JobEffect
  BY <1>1, <1>2, LimitIsExact DEF Export
<1>3. ASSUME NEW w \in Workers, SaveUpload(w) \/ Synthesize(w)
      PROVE  JobEffect
  BY <1>1, <1>3 DEF SaveUpload, Synthesize
<1>4. ASSUME NEW w \in Workers, Unlink(w), Accept \/ Refuse
      PROVE  JobEffect
  BY <1>4 DEF Unlink, Accept, Refuse, JobEffect, Ends
<1>5. ASSUME NEW w \in Workers,
             ExportRaises(w) \/ Sent(w) \/ ImportRaises(w) \/ CsvMetadata(w)
      PROVE  JobEffect
  BY <1>4, <1>5 DEF ExportRaises, Sent, ImportRaises, CsvMetadata
<1>6. ASSUME NEW w \in Workers, NEW i, NEW d, NEW above, NEW n, ImportApkg(w, i, d, above, n)
      PROVE  JobEffect
  BY <1>4, <1>6 DEF ImportApkg
<1>7. ASSUME NEW w \in Workers, NEW d, NEW i, NEW s, ImportCsv(w, d, i, s)
      PROVE  JobEffect
  BY <1>4, <1>7 DEF ImportCsv
<1>8. ASSUME NEW w \in Workers, SynthesizeRaises(w)
      PROVE  JobEffect
  BY <1>8 DEF SynthesizeRaises, Has, Abandon, JobEffect, Ends
<1>9. ASSUME NEW w \in Workers, Spoken(w)
      PROVE  JobEffect
  BY <1>9 DEF Spoken, Has, Accept, JobEffect, Sends
<1>10. ASSUME UNCHANGED jobs
       PROVE  JobEffect
  BY <1>10 DEF JobEffect
<1>11. ASSUME NEW w \in Workers, SaveUploadFails(w)
       PROVE  JobEffect
  BY <1>10, <1>11 DEF SaveUploadFails
<1>12. ASSUME NEW i, NEW n, NEW d, EnsureIoNotetype(i) \/ CreateIoNote(i, n, d) \/ UpdateIoNote(n)
       PROVE  JobEffect
  BY <1>10, <1>12 DEF EnsureIoNotetype, CreateIoNote, UpdateIoNote
<1>13. QED
  BY <1>2, <1>3, <1>5, <1>6, <1>7, <1>8, <1>9, <1>11, <1>12 DEF TransferRequest

LEMMA StepJobs == Tables /\ [Next]_vars => JobEffect
BY TransferRequestJobs DEF Next, vars, JobEffect

(* How a request ends: granted, or refused with little left behind.        *)
Little ==
  /\ notes' = notes /\ presets' = presets
  /\ \A i \in NotetypeIds : stored'[i] # stored[i] =>
       stored[i] = None /\ stored'[i].name = IO_NOTETYPE
  /\ \E named \in DeckIds : \A d \in DeckIds : decks'[d] # decks[d] =>
       \/ decks[d] = None /\ decks'[d] = DEFAULT_PRESET_ID
       \/ d = named /\ decks[d] \in Terms \cup {None} /\ decks'[d] \in Terms

AnswerEffect ==
  \/ answer' = "ok"
  \/ answer' \in {"refused", "littered"} /\ Little

LEMMA Granted ==
  ASSUME Accept
  PROVE  AnswerEffect
BY DEF Accept, AnswerEffect

LEMMA RefusedBare ==
  ASSUME Refuse \/ Litter, notes' = notes, UNCHANGED deckVars, stored' = stored
  PROVE  AnswerEffect
BY DefaultAssumption DEF Refuse, Litter, AnswerEffect, Little, deckVars, DefaultAssumption

LEMMA NotetypeRequestAnswer ==
  ASSUME Tables, NotetypeRequest, UNCHANGED deckVars
  PROVE  AnswerEffect
<1> USE Granted, RefusedBare
<1>1. ASSUME NEW i \in NotetypeIds, NEW reason, NEW nt, Edits(i, reason, nt)
      PROVE  AnswerEffect
  BY <1>1 DEF Edits, NotFound, RefuseLoaded, UpdateDict, Store, notetypeVars
<1>2. ASSUME NEW i \in NotetypeIds,
             GetNotetype(i) \/ DeleteNotetype(i) \/ AddField(i) \/ AddTemplate(i)
      PROVE  AnswerEffect
  BY <1>1, <1>2 DEF GetNotetype, DeleteNotetype, NotFound, AddField, AddTemplate, notetypeVars
<1>3. ASSUME NEW i \in NotetypeIds, NEW j, NEW nm, NEW extra,
             CreateNotetype(i, nm, extra) \/ CloneNotetype(i, j, nm)
      PROVE  AnswerEffect
  BY <1>3 DEF CreateNotetype, CloneNotetype, AddDict, Store, NotFound, notetypeVars
<1>4. ASSUME NEW i \in NotetypeIds, NEW nm, NEW idx, PatchNotetype(i, nm, idx)
      PROVE  AnswerEffect
  BY <1>1, <1>4 DEF PatchNotetype
<1>5. ASSUME NEW i \in NotetypeIds, NEW f, NEW idx,
             RenameField(i, f) \/ RemoveField(i, f) \/ RepositionField(i, f, idx)
      PROVE  AnswerEffect
  BY <1>1, <1>5 DEF RenameField, RemoveField, RepositionField
<1>6. ASSUME NEW i \in NotetypeIds, NEW t,
             UpdateTemplate(i, t) \/ RepositionTemplate(i, t) \/ RemoveTemplate(i, t)
      PROVE  AnswerEffect
  BY <1>1, <1>6 DEF UpdateTemplate, RepositionTemplate, RemoveTemplate
<1>7. ASSUME NEW i, NEW j, NEW n, NEW nt, NEW fits,
             \/ UndoNotetype(i, nt) \/ ChangeNotetype(i, j, n)
             \/ DeleteNote(n) \/ UpdateNote(n, fits)
      PROVE  AnswerEffect
  BY <1>7 DEF UndoNotetype, ChangeNotetype, DeleteNote, UpdateNote, notetypeVars
<1>8. QED
  BY <1>2, <1>3, <1>4, <1>5, <1>6, <1>7 DEF NotetypeRequest

LEMMA DeckRequestAnswer ==
  ASSUME Tables, DeckRequest
  PROVE  AnswerEffect
<1> USE Granted
<1>1. CASE RefuseDeck
  BY <1>1, RefusedBare DEF RefuseDeck, notetypeVars
<1>2. ASSUME NEW d, NEW p, NEW from, NEW known, NEW parent, NEW above, NEW s, NEW session,
             NEW terms,
             \/ CreateDeck(d, above) \/ RenameDeck(d, above) \/ ReparentDecks(parent)
             \/ AssignPreset(d, p) \/ CreatePreset(p, from) \/ UpdatePreset(p, known)
             \/ RestoreDefaults(p) \/ DeletePreset(p) \/ DeleteDeck(d) \/ Rebuild(d, s)
             \/ Empty(d) \/ CustomStudy(d, session, terms, s) \/ SetDeck(s, d)
      PROVE  AnswerEffect
  BY <1>1, <1>2, RefusedBare
     DEF CreateDeck, RenameDeck, ReparentDecks, AssignPreset, CreatePreset, UpdatePreset,
         RestoreDefaults, DeletePreset, DeleteDeck, Rebuild, Empty, CustomStudy, SetDeck,
         notetypeVars
<1>3. ASSUME NEW d \in DeckIds, Refuse, notes' = notes, presets' = presets,
             stored' = stored, Makes(d)
      PROVE  AnswerEffect
  BY <1>3 DEF Refuse, Makes, AnswerEffect, Little
<1>4. ASSUME NEW d \in DeckIds, NEW above \in SUBSET Missing, NEW terms \in Terms, NEW s,
             CreateFiltered(d, above, terms, s)
      PROVE  AnswerEffect
  <2>1. CASE ~RefuseDeck /\ ~Accept
    <3>1. NewDeck(d, above, terms) => Makes(d)
      BY NewDeckMakes
    <3>2. IsFiltered(d) /\ decks' = [decks EXCEPT ![d] = terms] => Makes(d)
      BY TermsMake, DeckValueAssumption DEF DeckValueAssumption, IsFiltered, Normal
    <3>3. QED
      BY <1>3, <1>4, <2>1, <3>1, <3>2 DEF CreateFiltered, notetypeVars
  <2>2. QED
    BY <1>1, <2>1
<1>5. ASSUME NEW d \in DeckIds, NEW n, NEW nm, NEW above \in SUBSET Missing, NEW fit,
             CreateNote(n, nm, d, above, fit)
      PROVE  AnswerEffect
  BY <1>1, <1>3, <1>5, NewDeckMakes, RefusedBare DEF CreateNote, deckVars
<1>6. QED
  BY <1>2, <1>4, <1>5 DEF DeckRequest

LEMMA TransferRequestAnswer ==
  ASSUME Tables, TransferRequest
  PROVE  AnswerEffect
<1> USE Granted
<1>1. ASSUME NEW w, NEW l, NEW n,
             \/ ExportRaises(w) \/ Sent(w) \/ SaveUploadFails(w) \/ ImportRaises(w)
             \/ CsvMetadata(w) \/ SaveUpload(w) \/ Synthesize(w) \/ SynthesizeRaises(w)
             \/ Spoken(w) \/ Export(w, l) \/ UpdateIoNote(n)
      PROVE  AnswerEffect
  BY <1>1, RefusedBare DEF ExportRaises, Sent, SaveUploadFails, ImportRaises, CsvMetadata,
     SaveUpload, Synthesize, SynthesizeRaises, Abandon, Spoken, Export, UpdateIoNote,
     collectionVars, notetypeVars
<1>2. ASSUME NEW w, NEW i, NEW d, NEW above, NEW n, NEW s,
             ImportApkg(w, i, d, above, n) \/ ImportCsv(w, d, i, s)
      PROVE  AnswerEffect
  BY <1>2, RefusedBare DEF ImportApkg, ImportCsv
<1>3. ASSUME NEW i \in NotetypeIds, EnsureIoNotetype(i)
      PROVE  AnswerEffect
  BY <1>3 DEF EnsureIoNotetype
<1>4. ASSUME NEW i \in NotetypeIds, NEW n, NEW d, CreateIoNote(i, n, d)
      PROVE  AnswerEffect
  <2>1. CASE UNCHANGED stored /\ ~Accept
    BY <1>4, <2>1, RefusedBare DEF CreateIoNote, collectionVars
  <2>2. CASE ~UNCHANGED stored /\ ~Accept
    <3>1. /\ IoNotetype(i) /\ UNCHANGED deckVars /\ UNCHANGED notes
          /\ Refuse \/ Litter
      BY <1>4, <2>2 DEF CreateIoNote, collectionVars, notetypeVars
    <3>2. stored[i] = None /\ stored' = [stored EXCEPT ![i] =
            [name |-> IO_NOTETYPE, flds |-> Loaded(StockFields), sortf |-> 0, tmpls |-> 1]]
      BY <2>2, <3>1 DEF IoNotetype
    <3>3. \A j \in NotetypeIds : stored'[j] # stored[j] =>
            stored[j] = None /\ stored'[j].name = IO_NOTETYPE
      BY <3>2 DEF Tables
    <3>4. QED
      BY <3>1, <3>3, DefaultAssumption
         DEF Refuse, Litter, deckVars, AnswerEffect, Little, DefaultAssumption
  <2>3. QED
    BY <2>1, <2>2
<1>5. QED
  BY <1>1, <1>2, <1>3, <1>4 DEF TransferRequest

LEMMA StepAnswer == Tables /\ Next => AnswerEffect
BY NotetypeRequestAnswer, DeckRequestAnswer, TransferRequestAnswer DEF Next

=============================================================================
