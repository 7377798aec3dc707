\* Two notetypes, one of them larger than the stock one, a note, two decks and a
\* preset beside the Default ones, two searches, and one transfer at a time.
SPECIFICATION Spec
CONSTANTS
  None = None
  Terms = {s1, s2}
  NotetypeIds = {nt1, nt2}
  Names = {Basic, ImageOcclusion}
  IO_NOTETYPE = ImageOcclusion
  StockFields = 1
  MaxFields = 2
  MaxTemplates = 2
  NoteIds = {n1}
  DeckIds = {d1, d2, d3}
  DEFAULT_DECK = d1
  PresetIds = {p1, p2}
  DEFAULT_PRESET_ID = p1
  Workers = {w1}

SYMMETRY CatalogSymmetry
CONSTRAINT OneGrown
INVARIANTS
  TypeOK
  WellFormed
  CacheAgrees
  PresetsResolve
  NotesResolve
  ExportsWhatWasAsked
PROPERTIES
  TempFilesReclaimed
  RefusalsLeaveLittle
