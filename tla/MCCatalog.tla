----------------------------- MODULE MCCatalog -----------------------------
(* Catalog for TLC: the notetypes, the decks beside the Default one and the*)
(* terms are interchangeable, and at most one notetype at a time is larger *)
(* than the stock one, by a field or by a template.                        *)
EXTENDS Catalog, TLC

CatalogSymmetry ==
  Permutations(NotetypeIds) \cup Permutations(DeckIds \ {DEFAULT_DECK}) \cup Permutations(Terms)

Size(i) == IF stored[i] = None THEN 0 ELSE Len(stored[i].flds) + stored[i].tmpls
Stock == StockFields + 1
OneGrown ==
  \A i, j \in NotetypeIds :
    Size(i) > Stock => Size(i) = Stock + 1 /\ (Size(j) > Stock => i = j)

=============================================================================
