------------------------------- MODULE Decks -------------------------------
(***************************************************************************)
(* Decks, their option presets, filtered decks and the notes put in them,  *)
(* over the notetypes of module Notetypes.  One step is one request body,  *)
(* under the writer lock.  A body often makes several calls that change    *)
(* the collection, and a later one may be refused.                         *)
(*                                                                         *)
(* A deck stands for its id and the name it has; its value is the preset   *)
(* it points at or, if it is filtered, the terms it searches by.  A note   *)
(* has one card, which is in its home deck, and may have been gathered into*)
(* a filtered deck.  Which decks are above which is left open, but for the *)
(* missing ones that a new name makes; deleting a deck with its children   *)
(* is deleting them all.                                                   *)
(***************************************************************************)
EXTENDS Notetypes

CONSTANTS
  DeckIds,
  DEFAULT_DECK,       \* the deck that always exists
  PresetIds,
  DEFAULT_PRESET_ID,  \* 1
  Terms               \* what filtered decks search by

ASSUME DefaultAssumption ==
  DEFAULT_DECK \in DeckIds /\ DEFAULT_PRESET_ID \in PresetIds
ASSUME DeckValueAssumption ==
  /\ None \notin PresetIds \cup Terms
  /\ PresetIds \cap Terms = {}

VARIABLES
  decks,     \* the decks: None, the preset of a normal one, the terms of another
  presets    \* the presets there are

deckVars == <<decks, presets>>

Note == [nt : NotetypeIds, home : DeckIds, away : DeckIds \cup {None}]

DecksInit ==
  /\ NotetypesInit
  /\ decks = [d \in DeckIds |-> IF d = DEFAULT_DECK THEN DEFAULT_PRESET_ID ELSE None]
  /\ presets = {DEFAULT_PRESET_ID}

RefuseDeck == Refuse /\ UNCHANGED <<deckVars, notes, notetypeVars>>

Normal(d) == decks[d] \in PresetIds
IsFiltered(d) == decks[d] \in Terms

(* A name with decks above it that are not there makes them; a name below a*)
(* filtered deck is refused.                                               *)
Missing == {d \in DeckIds : decks[d] = None}
WithParents(above) ==
  [e \in DeckIds |-> IF e \in above THEN DEFAULT_PRESET_ID ELSE decks[e]]

NewDeck(d, above, value) ==
  /\ d \in Missing \ above
  /\ decks' = [WithParents(above) EXCEPT ![d] = value]

(* A filtered deck gives back the cards it has, and takes those of s.      *)
Gathered(d, s) ==
  [n \in NoteIds |->
     IF notes[n] = None THEN None
     ELSE IF n \in s THEN [notes[n] EXCEPT !.away = d]
     ELSE IF notes[n].away = d THEN [notes[n] EXCEPT !.away = None]
     ELSE notes[n]]

(* What a filtered deck may gather: cards that no other one has. *)
Gatherable(d) == {n \in NoteIds : notes[n] # None /\ notes[n].away \in {None, d}}

-----------------------------------------------------------------------------
(* Decks and presets *)

CreateDeck(d, above) ==
  /\ NewDeck(d, above, DEFAULT_PRESET_ID)
  /\ Accept
  /\ UNCHANGED <<presets, notes, notetypeVars>>

(* The deck is the same one under its new name. *)
RenameDeck(d, above) ==
  \/ RefuseDeck
  \/ /\ decks[d] # None
     /\ decks' = WithParents(above)
     /\ Accept
     /\ UNCHANGED <<presets, notes, notetypeVars>>

(* Under a filtered deck nothing is put; None is the top level. *)
ReparentDecks(parent) ==
  /\ IF parent = None \/ Normal(parent) THEN Accept \/ Refuse ELSE Refuse
  /\ UNCHANGED <<deckVars, notes, notetypeVars>>

(* Mutant of AssignPreset: whatever id is given is stored.                 *)
AssignAnyPreset(d, p) ==
  \/ decks[d] = None /\ RefuseDeck
  \/ /\ decks[d] # None
     /\ decks' = [decks EXCEPT ![d] = IF @ \in Terms THEN @ ELSE p]
     /\ Accept
     /\ UNCHANGED <<presets, notes, notetypeVars>>

(* preset_or_404, and then the legacy dict of the deck is stored; that of  *)
(* a filtered deck has no preset.                                          *)
AssignPreset(d, p) ==
  \/ (decks[d] = None \/ p \notin presets) /\ RefuseDeck
  \/ /\ decks[d] # None /\ p \in presets
     /\ decks' = [decks EXCEPT ![d] = IF @ \in Terms THEN @ ELSE p]
     /\ Accept
     /\ UNCHANGED <<presets, notes, notetypeVars>>

(* Mutant of DeleteDeck: the cards of a filtered deck are not sent home.   *)
DeleteDeckOnly(d) ==
  \/ decks[d] = None /\ RefuseDeck
  \/ /\ decks[d] # None
     /\ decks' = [decks EXCEPT ![d] = IF d = DEFAULT_DECK THEN @ ELSE None]
     /\ notes' = [n \in NoteIds |-> IF notes[n] # None /\ notes[n].home = d
                                    THEN None ELSE notes[n]]
     /\ Accept
     /\ UNCHANGED <<presets, notetypeVars>>

(* The library deletes a normal deck with its notes, wherever their cards  *)
(* are, sends the cards of a filtered one home, and keeps the Default deck.*)
DeleteDeck(d) ==
  \/ decks[d] = None /\ RefuseDeck
  \/ /\ decks[d] # None
     /\ decks' = [decks EXCEPT ![d] = IF d = DEFAULT_DECK THEN @ ELSE None]
     /\ notes' = [n \in NoteIds |-> IF notes[n] # None /\ notes[n].home = d
                                    THEN None ELSE Gathered(d, {})[n]]
     /\ Accept
     /\ UNCHANGED <<presets, notetypeVars>>

(* clone_from is looked up first: get_config would answer the Default one. *)
CreatePreset(p, from) ==
  \/ from \notin presets \cup {None} /\ RefuseDeck
  \/ /\ from \in presets \cup {None}
     /\ p \notin presets
     /\ presets' = presets \cup {p}
     /\ Accept
     /\ UNCHANGED <<decks, notes, notetypeVars>>

(* The values of a preset are not followed.  get_config's dict is a fresh  *)
(* one: a merge that meets an unknown key has changed nothing but that.    *)
UpdatePreset(p, known) ==
  /\ IF p \in presets /\ known THEN Accept ELSE Refuse
  /\ UNCHANGED <<deckVars, notes, notetypeVars>>

RestoreDefaults(p) ==
  /\ IF p \in presets THEN Accept ELSE Refuse
  /\ UNCHANGED <<deckVars, notes, notetypeVars>>

(* remove_config gives the decks that had the preset the Default one. *)
DeletePreset(p) ==
  \/ (p = DEFAULT_PRESET_ID \/ p \notin presets) /\ RefuseDeck
  \/ /\ p # DEFAULT_PRESET_ID /\ p \in presets
     /\ presets' = presets \ {p}
     /\ decks' = [d \in DeckIds |-> IF decks[d] = p THEN DEFAULT_PRESET_ID ELSE decks[d]]
     /\ Accept
     /\ UNCHANGED <<notes, notetypeVars>>

-----------------------------------------------------------------------------
(* Filtered decks *)

(* new_filtered creates or gets the deck, and its terms are saved, over    *)
(* those it had; then it is filled, which may be refused (an invalid       *)
(* search).  That refuses a normal deck of that name, too, whose saved     *)
(* terms nothing reads.  An unknown order is refused before all that.      *)
CreateFiltered(d, above, terms, s) ==
  \/ RefuseDeck
  \/ /\ \/ NewDeck(d, above, terms)
        \/ IsFiltered(d) /\ decks' = [decks EXCEPT ![d] = terms]
     /\ \/ Refuse /\ UNCHANGED notes
        \/ Accept /\ notes' = Gathered(d, s)
     /\ UNCHANGED <<presets, notetypeVars>>

Rebuild(d, s) ==
  \/ RefuseDeck
  \/ /\ IsFiltered(d)
     /\ notes' = Gathered(d, s)
     /\ Accept
     /\ UNCHANGED <<deckVars, notetypeVars>>

Empty(d) ==
  \/ ~IsFiltered(d) /\ RefuseDeck
  \/ /\ IsFiltered(d)
     /\ notes' = Gathered(d, {})
     /\ Accept
     /\ UNCHANGED <<deckVars, notetypeVars>>

(* One call of the library: it raises a limit of the deck, or fills the    *)
(* session deck by new terms, and makes it if there is none.               *)
CustomStudy(d, session, terms, s) ==
  \/ RefuseDeck
  \/ /\ Normal(d)
     /\ \/ UNCHANGED <<decks, notes>>
        \/ /\ ~Normal(session)
           /\ decks' = [decks EXCEPT ![session] = terms]
           /\ notes' = Gathered(session, s)
     /\ Accept
     /\ UNCHANGED <<presets, notetypeVars>>

(* A card that is moved leaves the filtered deck it is in. *)
SetDeck(s, d) ==
  \/ ~Normal(d) /\ RefuseDeck
  \/ /\ Normal(d)
     /\ notes' = [n \in NoteIds |->
                    IF n \in s /\ notes[n] # None
                    THEN [notes[n] EXCEPT !.home = d, !.away = None] ELSE notes[n]]
     /\ Accept
     /\ UNCHANGED <<deckVars, notetypeVars>>

-----------------------------------------------------------------------------
(* Notes *)

(* Mutants of CreateNote: a name that no notetype has is not refused; the  *)
(* note is stored before its fields are judged.                            *)
CreateNoteUnnamed(n, nm, d, above, fit) ==
  /\ notes[n] = None
  /\ ByName(nm) = {} /\ Normal(d)
  /\ notes' = [notes EXCEPT ![n] = [nt |-> None, home |-> d, away |-> None]]
  /\ Accept
  /\ UNCHANGED <<deckVars, notetypeVars>>

CreateNoteStoresFirst(n, nm, d, above, fit) ==
  /\ notes[n] = None
  /\ \E i \in ByName(nm) :
       /\ Kept(i)
       /\ Normal(d)
       /\ notes' = [notes EXCEPT ![n] = [nt |-> i, home |-> d, away |-> None]]
  /\ IF fit THEN Accept ELSE Refuse
  /\ UNCHANGED <<deckVars, stored, merged>>

(* decks.id has made the deck, and those above it, when the fields are     *)
(* judged, and they stay.                                                  *)
CreateNote(n, nm, d, above, fit) ==
  /\ notes[n] = None
  /\ \/ ByName(nm) = {} /\ RefuseDeck
     \/ \E i \in ByName(nm) :
          /\ Kept(i)
          /\ \/ Refuse /\ UNCHANGED <<decks, notes>>
             \/ /\ NewDeck(d, above, DEFAULT_PRESET_ID) \/ (Normal(d) /\ UNCHANGED decks)
                /\ \/ ~fit /\ Refuse /\ UNCHANGED notes
                   \/ /\ fit
                      /\ notes' = [notes EXCEPT ![n] =
                                     [nt |-> i, home |-> d, away |-> None]]
                      /\ Accept
          /\ UNCHANGED <<presets, stored, merged>>

DeckRequest ==
  \/ \E d \in DeckIds :
       \/ DeleteDeck(d) \/ Empty(d)
       \/ \E above \in SUBSET Missing : CreateDeck(d, above) \/ RenameDeck(d, above)
       \/ \E p \in PresetIds : AssignPreset(d, p)
       \/ \E s \in SUBSET Gatherable(d) :
            \/ Rebuild(d, s)
            \/ \E above \in SUBSET Missing, terms \in Terms : CreateFiltered(d, above, terms, s)
       \/ \E session \in DeckIds, terms \in Terms : \E s \in SUBSET Gatherable(session) :
            CustomStudy(d, session, terms, s)
       \/ \E s \in SUBSET NoteIds : SetDeck(s, d)
       \/ \E n \in NoteIds, nm \in Names, above \in SUBSET Missing, fit \in BOOLEAN :
            CreateNote(n, nm, d, above, fit)
  \/ \E parent \in DeckIds \cup {None} : ReparentDecks(parent)
  \/ \E p \in PresetIds :
       \/ DeletePreset(p) \/ RestoreDefaults(p)
       \/ \E from \in PresetIds \cup {None} : CreatePreset(p, from)
       \/ \E known \in BOOLEAN : UpdatePreset(p, known)

-----------------------------------------------------------------------------
(* Properties *)

(* decks.py:106, "a deck pointing at a preset that does not exist then     *)
(* studies with the Default one": no sequence of requests about decks and  *)
(* presets leaves such a deck, and the Default preset and deck stay.       *)
PresetsResolve ==
  /\ \A d \in DeckIds : decks[d] \in PresetIds => decks[d] \in presets
  /\ DEFAULT_PRESET_ID \in presets /\ decks[DEFAULT_DECK] # None

(* Every note has a notetype, a normal deck for a home and, if its card is *)
(* away, a filtered deck that has it: deleting any of these, in any order, *)
(* leaves no note behind that names it.                                    *)
NotesResolve ==
  \A n \in NoteIds : notes[n] # None =>
    /\ stored[notes[n].nt] # None
    /\ Normal(notes[n].home)
    /\ notes[n].away # None => IsFiltered(notes[n].away)

=============================================================================
