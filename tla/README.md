# A specification of anki-api

anki-api puts one Anki collection behind a REST interface. One process owns one
open collection; worker threads serve the requests; a background loop keeps the
collection in sync with a sync server. This directory holds TLA+ modules of that
program, the TLC configurations that check them on small instances, and TLAPS
proofs of what the modules promise. `PROJECT.json` says, definition by
definition, which lines of the source a module stands for.

To check a module or a proof:

    tlc -workers 2 -config MCAutosync.cfg MCAutosync
    tlapm AutosyncProofs.tla

Paths below are relative to `src/src/anki_api/`.

## 1. Inventory

33 Python files, 3551 lines: 23 router files (2980 lines) on top of 10 files
(571 lines) that hold everything the routers share.

### The parts that keep state

**Collection handle** (`collection_handle.py`, `deps.py`).
State: the writer lock, the open collection or None, and through it the file; the
sync token in memory; two pieces of loop memory (`server_media_usn`,
`autosync_last_required`). Operations: `locked()`, `close()`, `save_sync_auth`,
`clear_sync_auth`, `_load_auth`, `ensure_logged_in`. Every router goes through
`locked()`. Hard: the threads' interleavings, a body that raises, a close while
bodies run, a full sync that detaches the collection and does not come back.
Correct when: one thread inside at a time, no update lost, nothing on a closed
collection, every request answered.

**Application lifespan** (`app.py`). State: `app.state.handle` and the autosync
task. It opens the handle, logs in, starts the loop, and on shutdown cancels the
task, closes the handle and drops it. Hard: cancelling the task does not stop the
worker thread that runs a tick. Correct when: a shutdown that has begun ends with
the collection closed and no body on it.

**Autosync tick and sync endpoints** (`routers/sync.py`). State: none of its own;
the collection, the server's collection, the token, the loop memory. Operations:
`run_autosync`, `/sync`, `/sync/login`, `/sync/logout`, `/sync/full-upload`,
`/sync/full-download`, `/sync/media`, and two read-only reports. A tick takes and
releases the lock several times; requests and other clients act in between. Correct
when: nothing that exists on one side only is overwritten unasked, the backup
covers what a download takes away, an alert comes once per transition, the loop
settles.

**Sync token store** (`collection_handle.py` 84-108, `routers/sync.py`). State: the
token object in memory, which threads share and a sync changes in place, and the
sidecar file. None of it under a lock. Hard: saves and logouts that overlap, a
sync that saves a token read before a logout, a crash between truncating and
writing. Correct when: a restart brings back the login and a logout sticks.

**Remote backups** (`routers/sync.py` 272-315). State: a folder of timestamped
files. `backup_remote` downloads into a throwaway collection and prunes. No lock.
Hard: calls of the same second, which share a file that is unlocked while it is
downloaded, prunings that overlap, failed calls. Correct when: the newest are kept
and an answered call's backup is on disk.

### The parts that change the collection in one body

Each of these is a router whose handlers run under the lock, one body per request.
What is hard about them is not threads but what a body leaves when a later call of
it is refused, and what long sequences of requests of many clients lead to.

| part | source | state | operations | hard | correct when |
|---|---|---|---|---|---|
| Notes | `routers/notes.py` | notes with a notetype, cards in decks | create, update, delete, views | a deck created before the refusal (72) | no note names what is gone |
| Notetypes | `routers/notetypes.py` | stored notetypes, and the dicts the library keeps | add, clone, patch, delete, fields, templates, change | `_get` returns the kept dict, changed before the backend accepts (85) | what is served has been stored; no notetype without fields or templates |
| Decks, presets | `routers/decks.py`, `deck_presets.py` | the decks' presets | create, delete, assign, clone, update, restore | an unknown preset id silently means the Default one | a deck's preset is there |
| Filtered decks | `routers/filtered_decks.py` | which cards are away, and where | create, rebuild, empty, custom study | the deck made, or its terms overwritten, before the search is tried (54-57) | a card that is away has a deck to come back from and one to go to |
| Image occlusion | `routers/image_occlusion.py` | none of its own | notetype, note, read, update | a notetype added before the image is looked at (81) | a refusal leaves that at most |
| Import, export | `routers/import_export.py` | temporary files | apkg, csv, metadata | files that outlive the lock, on every path out | no file left; an export holds what was asked |
| Text to speech | `routers/tts.py` | one temporary file | synthesis | the file stays when synthesis raises (43) | as above |
| Review | `routers/review.py` | scheduling, queues, review log | answer, grade-now, set-due-date, next | tokens that outlive the card's state (111); two undo entries for one call (144); the shared current deck (72) | suspended cards stay suspended |
| Cards, Undo | `routers/cards.py`, `undo.py` | queues, two stacks | views, patch, custom data, bulk actions, undo, redo | lookups by chunks (81) | views agree with the log |
| Review log | `routers/revlog.py` | the log | paged read, insert | the clock read before the lock (101); rows outside the undo stacks (125) | paging misses nothing; inserted rows stay |
| Media | `routers/media.py` | the media folder | list, get, put, delete | a path used after the lock (74) | |
| FSRS, preferences, tags, statistics, search, system, utilities, typing | the other routers | | one backend call each | none beyond the lock | |

`errors.py` maps exceptions to answers, `ids.py` and `schemas/` parse and shape,
`config.py` reads the environment once.

### How they interact

Requests reach the handle through `get_handle` (503 without one) and enter
`locked()`. The autosync thread does the same, but several times per tick. Login,
logout and syncs change the token store outside the lock. The lifespan closes the
handle under the lock. The sync server is shared with other clients. The Anki
library does the rest; where it matters (what a sync merges, what a full sync
replaces, that an open collection's file is locked) it is modelled from how this
code relies on it.

## 2. Modules

| module | models | instance | proofs |
|---|---|---|---|
| `SerialCollection` | the promise: atomic updates, whole-collection syncs, one close | through `CollectionHandle` | `CollectionHandleProofs` |
| `CollectionHandle` | lock, bodies, full syncs, shutdown | `MCCollectionHandle` | `CollectionHandleProofs` |
| `Autosync` | one loop's ticks among requests and other clients | `MCAutosync` | `AutosyncProofs` |
| `SyncAuthStore` | the token, its file, crashes and restarts | `MCSyncAuthStore` | `SyncAuthStoreProofs` |
| `RemoteBackups` | backup-remote calls and pruning | `MCRemoteBackups` | `RemoteBackupsProofs` |
| `Notetypes` | notetypes, stored and kept by the library; notes' updates and deletions | through `Catalog` | `CatalogEffects`, `CatalogProofs` |
| `Decks` | decks, presets, filtered decks, new notes (extends `Notetypes`) | through `Catalog` | `CatalogEffects`, `CatalogProofs` |
| `Transfers` | exports, imports, speech, occlusion notes and their files (extends `Decks`) | through `Catalog` | `CatalogEffects`, `CatalogProofs` |
| `Catalog` | the three composed | `MCCatalog` | `CatalogEffects`, `CatalogProofs` |
| `ReviewLog` | the promise: rows are written at free stamps or taken back, never changed; replayed ones stay | through `StudyDesk` | `StudyDeskProofs` |
| `StudyCards` | card actions, undo and redo, raw log access, card views | through `StudyDesk` | `StudyCardsProofs` |
| `StudyDesk` | reviewing and a paging reader on top of `StudyCards` | `MCStudyDesk` | `StudyDeskProofs` |

Each module ends with its properties. Definitions that a comment calls mutants are
defects put next to the definition they would replace; no next-state relation uses
them. Each property has one that violates it.

### CollectionHandle

`lock`, `open`, `attached`, `appHandle` are `_lock`, `_col is not None`,
`_col.db is not None` and `app.state.handle is not None`. `pc[t]` is where a
thread is: idle, waiting at the `with`, in a body, in an update that has read, in a
full sync that has detached or transferred. `content` and `remote` are sets of
updates, named by the request that makes them. Actions: `Arrive`/`ArriveLate`
(`get_handle`), `Enter`/`Refuse` (`locked`), `Read`, `Write`, `Reject` (an update),
`Query`, `Detach`, `Upload`/`Download`, `TransferFails`, `UploadUnconfirmed`,
`Reopen` (the full syncs), `BeginShutdown`, `CloseHandle`, `DropHandle`.

Choices: taking the lock and testing `_col` is one step, since only the lock's
holder assigns `_col`. The RLock never nests, since no body calls `locked()` again.
The shutdown may begin while bodies run: that is what happens to a tick's thread
when its task is cancelled, and to requests when the server is told to exit at
once. A full sync that raises leaves `col.db` None and, except for an upload whose
answer is lost, both collections as they were.

`SerialCollection` is what this is for: `RefinesSerialCollection` maps `open`,
`content` and `remote` to themselves and every `Write`, `Download`, `Upload`,
`UploadUnconfirmed` and `CloseHandle` to one abstract step; all else stutters.

### Autosync

A collection is a set of notes and a set of schema changes. Each body of a `with`
is one step, which `CollectionHandle` justifies: bodies exclude each other. The
tick is several: `tick` is where `run_autosync` is between them (asleep, before
`_incremental_sync`, before the look at `scm > ls`, before the backup, before the
download, before the sync that follows). Between any two of them users add notes,
change the schema, log in and out, sync and full-sync, full syncs are torn, and
other clients change the server. `required`, `lastRequired` and `policy` are the
code's; `SyncRequired` and `Exchange` are what the library's `sync_collection`
reports and does. `MayDownload` is `_autosync_full_action`. A skipped tick (no
token, no credentials) changes nothing and is left out. Nobody deletes notes here.
`lateSchemas`, `lateNotes`, `stuck`, `alerts` are history: what came after the
tick had looked, after it had backed up, what the last decision left blocked, and
the alerts raised since.

### SyncAuthStore

`mem` is `handle.sync_auth`, a token being the number of the login that minted it;
`endpoint` is kept per object, since `_incremental_sync` assigns to the object that
other threads hold. `file` is what the sidecar's name stands for: nothing, an empty
file, garbled JSON or a whole token; `linked` says whether the file a thread has
open still has that name. `save_sync_auth` is four steps (`OpenFile`, which
truncates, `WriteFile`, `Chmod`, `Publish`) and `clear_sync_auth` three. `Restart`
ends the process at any step and starts the next with `_load_auth`. `alone`, `serial`
and `apart` are history: whether any request overlapped this one, or any other, and
whether any logout overlapped a login or a sync.

### RemoteBackups

A backup is known by the second its name holds; its content is a version of the
server's collection or Blank, which is what `Collection(path)` creates. A call
goes through `Start` and `Open` (`OpenFile`: it creates the file or takes the one
there), then `Release`, since `close_for_full_sync` and the download close the file
(`sync.py:305-306`), `Fetch`, which takes the server's version into a temporary file,
`Replace`, which renames that over the path, `Reopen` and `Close`; then `List`, and
`Find` and `Remove` per file (glob and remove are separate steps, so another call's
come between), `Answer`. `linked` is which calls have the file open that is at the
path now: the library locks an open file (`Locked`), so `Open` and `Reopen` fail while
another call of that second has it (`OpenFails`, `ReopenFails`), but between `Release`
and `Reopen` nobody does, and the other call may do any of its steps. A rename or an
unlink takes the file away under those who have it open. `DownloadFails` is an error
of the download or of the check of what came; the library opens the path again before
it raises, and the `finally` closes it: the file stays, as it was, and is not pruned
for. A backup's side files go with it. The clock does not go back. A call without a
token or that cannot make the folder does nothing, and is left out. `first` is history:
what the server had when the first call of a second was made.

### Notetypes, Decks, Transfers, Catalog

These are layers of one specification: each module declares its variables and ends
with the disjunction of its requests, and `Catalog` puts the three together. One
step is one request body, since `CollectionHandle` shows that bodies exclude each
other; only files live across steps. `answer` is how the last request ended: "ok",
"refused", or "littered" for a refused one that has left a file behind.

`Notetypes` keeps two copies of a notetype: `stored` is the collection's, `cached`
the dict that the library's `models.get` hands out and keeps (`Held`, `Kept`).
`_get` in `notetypes.py` returns that very dict, and the handlers change it in place
before `update_dict` stores it. `UpdateDict` is what saves this: it forgets the dict
before it asks the backend, so a refusal (`Store`) leaves nothing behind. Handlers
that look, judge, then edit are instances of `Edits`: not found, a reason to refuse
(the dict has been kept, unchanged), or the edit. A dict is its name, the positions
its fields were loaded from, its sort field and the number of its templates;
`Written` is what the backend makes of it (positions anew, the sort field wherever
that field has moved to, or the first). `merged` is history: notetypes that a package
import has changed below a kept dict.

`Decks` gives a deck the preset it points at or, if it is filtered, the terms it
searches by. A deck is a name, and a name `A::B` makes the decks above it that are
missing: `above` is any set of them (`WithParents`), as which deck is above which is
left open. A note has one card, with a home and, if a filtered deck has gathered it, a
place where it is away (`Gathered`). `CreateNote`, `CreateFiltered` and `CustomStudy`
change the decks first and may be refused afterwards; they are one action each with
those ways out. `new_filtered` creates or gets: of a filtered deck that is there
`CreateFiltered` overwrites the terms, which stay when the rebuild is refused. Of a
normal deck of that name the code saves terms that nothing reads, and the rebuild is
refused; the model has no change there. What the
library does on deletion (a deck takes its notes, a filtered deck sends its cards
home, a preset's decks get the Default one) is modelled from how the handlers rely on
it.

`Transfers` gives a worker a job as long as there is a file of its request in the
temporary directory: an upload that is saved before the lock is asked for, speech
before it is synthesised, and a download until the response is sent. `Export` goes
through `FieldsMatchScope`, `Names404`, `BuildLimit` and the library's dispatch on
the limit's type. `ImportApkg`, `ImportCsv` and `CsvMetadata` unlink in a finally.
Image occlusion notes are here because an inline image is a file too.

### StudyCards, StudyDesk

A card is its scheduling state (new, learning, review at an interval), its queue, and
`wanted`, which is history: whether it has been suspended and nothing has asked for
the contrary since. `revlog` maps a time stamp to a row; `now` is the clock, at which
the library stamps rows. `past` and `undone` are the library's stacks: what an undo or
a redo goes back to, the log included. `Operation` is a change that can be undone.
`GradeNow` makes two of them, as the code does; the rows of a request of several cards
come in any order (`Orders`), with stamps that are not taken (`Stamp`). `InsertRevlog`
writes by SQL, which empties both stacks, and reads its clock before it gets the lock,
so any clock up to `now`. `Fetched`, `Entries`, `Truncated` are the paged read: a row is
among the first `limit + 1` from `since` on if at most `limit` such rows come before it.
`ReviewBounds` cuts a selection into chunks like the code (`Starts`, `Chunk`), one query
per chunk (`Grouped`).

`StudyDesk` adds answers and a client that reads the whole log. The server keeps
nothing of a review token, so `Answer` takes any scheduling states as the ones that
were shown; the library refuses them unless they are the card's. `reader.owed` is
history: rows that have been in the log since the first page and are still to be
read. `ReviewLog` is what the log promises its readers, whatever happens to the cards:
a step only writes rows where none are, or only takes rows back, and never one that
`insert_revlog` wrote. `RefinesReviewLog` maps `revlog` to itself and forgets the rest.

## 3. Runs

Every number is from 2 workers.

| run | question | bounds | states | result |
|---|---|---|---|---|
| `collection_handle` | Is the lock enough? | 3 threads, 3 requests | 333 thousand | holds |
| `yields_open` | Does `locked()` yield the open collection? | 2 threads, 2 requests | | no |
| `autosync` | What may a tick discard, and does it settle? | 1 local and 1 remote note, 1 + 1 schema changes, 2 mishaps, 1 torn full sync, both policies | 741 thousand | holds |
| `autosync_discards` | Is nothing local-only discarded? | no failures | | no |
| `autosync_schema_race` | Nor a schema change? | no failures | | no |
| `autosync_alert` | Does a blocked loop say so? | 1 mishap | | no |
| `sync_auth` | Does a login survive, does a logout stick? | 3 threads, 2 logins, 1 move, 2 restarts | 4.7 million | holds, but for some overlaps |
| `sync_auth_logout` | Also when requests overlap? | 2 threads, 1 login, 1 move | | no |
| `remote_backups` | Are the newest kept, and the answered there? | 3 calls at once, Keep 1, 3 seconds, 2 versions | 2.5 million | holds |
| `backups_crowded` | Also of backups that hold something? | 1 thread, Keep 2, 4 seconds | | no |
| `catalog` | What do refusals leave, does anything dangle, do files go? | 2 notetypes (up to 2 fields or 2 templates), 1 note, 3 decks, 2 searches, 2 presets, 1 file at a time | 90 thousand | holds |
| `study_desk` | Do suspensions, replayed rows, pages and views survive what clients do? | 2 cards, 2 time stamps, 3 scheduling states, 2 undo steps | 60 thousand | holds |

Why the bounds are enough. Three threads let one wait while another is inside and
a third arrives. Safety is proved for any number, so the runs' bounds matter for
liveness and for the six runs that find a counterexample. One local note suffices
in `autosync` because every property speaks of notes one at a time; one torn sync
and two mishaps let a tick fail, be retried and fail again; with credentials every
step without them is possible too, as `Wake` is only wider (but `Settles` does need
them: without, a loop that has no token has nothing to do). In `sync_auth` two
logins give two different tokens, one move gives the token that changes under
another thread, and the second restart follows a crash. In `remote_backups`
three seconds are two more than are kept, and three calls fit in one of them; two
versions tell an old download from a new one.
Threads are symmetric in `sync_auth` and `remote_backups`, which check no liveness.

In `catalog` the notetypes, the decks beside the Default one and the searches are
symmetric, and a constraint (`OneGrown`) lets one notetype at a time have a field or a
template more than the stock ones: no request compares the sizes of two notetypes, or the fields
of one with its templates, and two fields are enough for the sort field to move, to go
and to be the last. One of three decks is the Default one: two beside it let one name
make both, and two searches tell a filtered deck's old terms from the new ones. A
preset beside the Default one is enough to dangle. Properties speak of notes one at a
time. A file outlives steps of every other kind, and no two jobs touch each other's
file. In `study_desk` a constraint (`QuietCards`) keeps the second
card in its queue and at most in learning: it is there so that bulk actions, chunks and
the log mix two cards. Two time stamps put a page's end between two rows, before and
after a replayed one; selections of three ids with chunks of two have a full chunk and
a partial one, and repeat a card across them. Two undo steps hold both halves of a
grade-now, and are few enough to be exceeded. The library's limit is larger, which
adds longer histories of the same kind.

### What holds

- `HolderOnlyInside`, `NoUseAfterClose`, `NoLostUpdate`, `SwapIsInvisible`: the
  lock excludes; no body runs on a closed collection, a cancelled tick's included;
  an update answered 200 stays until a full download; a body sees a detached
  collection only after a full sync that raised.
- `EveryRequestAnswered`, `ShutdownCompletes`.
- `DiscardsOnlyLateSchemas`: a schema change that an automatic download discards
  was made after the tick had looked, and a collection that never synced is never
  overwritten. `BackupCoversDownload`: what it takes away is in the backup, unless
  that failed or the note came later. `NeverAutoUploads`, `OffDiscardsNothing`.
  `AlertsAtMostOnce`. `Settles`.
- `SerialSaveAgrees`, `SerialLogoutForgets`: a save or logout that overlaps no
  other is right, whatever earlier overlaps and crashes left.
  `SerialRestartKeepsLogin`: without overlaps, a restart between requests keeps the
  login. `ApartLogoutSticks`: a logout sticks, whatever saves do to each other and
  however many logouts overlap, as long as no logout overlaps a login or a sync; the
  counterexample of `sync_auth_logout` is of such an overlap.
- `PruneKeepsNewest`: however prunings overlap, and however old the list they work
  from, a backup goes only while Keep newer ones stay. `AnsweredIsPossessed`: when
  a call answers, its backup is there, not blank, and no older than the first call of
  that second, or Keep newer ones have come. It is not "no older than the call", since
  calls of one second share the file (see below); a call that is alone in its second is
  the first of it.

- `WellFormed`, `CacheAgrees`: through refusals at any point and deletions of any
  field or template, a stored notetype has a field, a template and a sort field that
  is one of its own, and a kept dict is what is stored. The exception is `merged`: a
  merging import adds fields to a notetype without the library forgetting its dict, so
  GET serves the shape before, until something stores or forgets it.
- `PresetsResolve`, `NotesResolve`: no order of requests leaves a deck with a preset
  that is gone, or a note with a notetype or deck that is.
- `RefusalsLeaveLittle`: what a refusal may leave is new normal decks, the one that is
  named and those above it (`notes.py:72`, `filtered_decks.py:54`), a new filtered deck
  or other terms of the filtered deck that is named (`filtered_decks.py:54-57`), or the
  image occlusion notetype (`image_occlusion.py:81`). No note or card moves, and nothing
  else that was there before changes.
- `ExportsWhatWasAsked`: what goes into a file is what the request names at that time.
  `TempFilesReclaimed`: of requests that have begun, only one whose speech cannot be
  synthesised leaves its file (`tts.py:43`). An upload that cannot be written leaves
  its file too (`SaveUploadFails`), as does an inline image (`CreateIoNote`).
- `SuspendedAsAsked`: a card that was suspended stays so through grading, undo and
  redo, unless a request brings it back: unsuspending, forgetting, a due date, and
  also a late answer, whose token does not know about queues. After a grade-now of a
  suspended card, one undo takes back its second operation only: the card is graded
  and not suspended ("half"), and a second undo takes back the rest.
- `RefinesReviewLog`: no undo or redo puts a row in the place of another, since what
  comes after an undo leaves nothing to redo; and inserted rows outlive both, because
  inserting leaves nothing to undo. `PagedReadComplete`: paging by `since` misses no row that was there
  all along. `BoundsAgree`: views are right however a selection falls into chunks.

### What does not

| run | the source says | the code does |
|---|---|---|
| `yields_open` | `collection_handle.py:60`: "yield the open collection" | after a full sync that raises (`sync.py:256`) nobody re-attaches; later requests get a collection whose `db` is None |
| `autosync_discards` | `README.md:175`: "so nothing local-only is discarded" | the guard is the schema; notes added here since the last sync are replaced (they are in the backup) |
| `autosync_schema_race` | `sync.py:97`: "no local-only schema change is ever silently discarded" | the look, the backup and the download are separate bodies; a change in between is lost |
| `autosync_alert` | `sync.py:139`: "once per transition" | the transition is judged by what was required, so a block that follows a failed download is silent |
| `sync_auth_logout` | `test_sync.py:107`, `test_logout_clears_persisted_auth` | a sync under way during the logout saves its token again |
| `backups_crowded` | `sync.py:296`: "Keeps the newest REMOTE_BACKUP_KEEP backups" | failed calls leave blank files that are counted |

Also seen, and without a run of their own: the docstring of `locked()` promises
503 during a full-sync swap, but requests wait for it instead
(`SwapIsInvisible` is the better half of that); a crash between truncating and
writing the token file loses the login; two overlapping saves may leave the file
with one token and the memory with the other; after a torn full sync every tick
raises at `sync.py:152` until somebody full-syncs by hand (hence the premise of
`Settles`); of two backup-remote calls in one second, the slower download may be of
an older version of the server's collection and land over the newer one, so that the
other call answers with a file that does not hold what the server had when it was made
(`AnsweredIsPossessed` goes no further than the first call of a second; `Fetch` of one
call, a change of the server, all of the other up to its answer, `Replace` of the first).

## 4. Fairness

`CollectionHandle`: weak fairness of each thread's next step, of `CloseHandle` and
of `DropHandle`. Bodies end, by a return or by the backend's and the network's
errors; a free lock that one thread wants is given to it; the event loop runs the
lifespan on. An RLock is not fair, and no strong fairness is assumed: what ends a
wait is that only finitely many requests arrive. Nothing forces a request to
arrive, nor a shutdown.

`Autosync`: weak fairness of the tick as a whole. `_autosync_loop` never ends and
its calls return or raise. Users and other clients may do nothing, so `Settles` is
of the loop alone. Mishaps are bounded: a server that fails forever settles
nothing.

The other modules have safety properties only.

## 5. Proofs

The proof modules of the first four specifications prove that `TypeOK` is invariant,
then that `IInv` is, one step per action, and then derive the properties.

- `CollectionHandleProofs`. The invariant adds two facts to what is claimed:
  `SeenIsCurrent` (what an update has read is still there when it writes; without
  it `Write` could drop an update) and `DetachedBySwap` (an open collection that is
  detached is in a swap or was left by one). Theorems: mutual exclusion, the four
  safety properties, and the refinement of `SerialCollection`.
- `AutosyncProofs`. A decision to download stands on a look at the schema that only
  later changes outdate; a backup misses only later notes; the loop remembers what
  it is blocked on. Theorems: the five safety properties.
- `SyncAuthStoreProofs`. `AloneInv`: a request that is alone finds the file as its
  own steps left it. `SerialInv`: as long as no two overlapped, memory and file
  agree outside saves and logouts. `ApartInv`: as long as no logout overlapped a login
  or a sync, logouts meet only logouts, they find the file gone when they drop the
  token, and once nobody wants a login there is nothing under way that would bring a
  token back. Theorems: the four properties.
- `RemoteBackupsProofs`. What a list dooms stays outdated, since removals spare the
  newest: this needs that the number of backups newer than one never falls below
  Keep once it is there, which is a lemma on cardinalities. `AnsweredIsPossessed`
  cannot rest on who has the file open, as nobody has during a download. It rests on
  what is put there: whatever a call has fetched is no older than `first` of its second,
  so once one call of a second has replaced the file, it is possessed, and each later
  replacement by another call keeps it so, while opening never blanks a file that is
  there. Theorems: both properties.
- `CatalogEffects`, `CatalogProofs`. Some forty requests do only a few things to the
  notetypes, to the decks, to a note and to the jobs, and end in few ways. These effects
  are defined first (`NotetypeEffect`, `DeckEffect`, `NoteEffect`, `JobEffect`,
  `AnswerEffect`), and a lemma per layer shows that each of its requests has one of
  them. `Tables`, the inductive invariant, says that a stored notetype is well-formed,
  and that a kept dict is too, even one that an import has outdated: without it an edit
  of a kept dict could store one without fields. For what is stored the prover has to
  know that removing, moving and appending a field changes the length as it should, and
  that what an edit makes can be written. `NotesResolve` then needs both sides of an
  effect: a note that stays names what it named or what is there (`NoteEffect`), and a
  notetype or deck goes only with the notes that name it (`Removes`, `Drops`); the two
  are of the same step. `RefusalsLeaveLittle` is a case distinction over the ways in
  which a request can be refused. A deck that is made comes with those above it, or
  has its terms overwritten (`Makes`). Theorems: all eight properties of the run, among them
  `ExportsWhatWasAsked` (the limit that `BuildLimit` makes of a request that passes both
  checks lets out what the request names).
- `StudyCardsProofs`, `StudyDeskProofs`. What undo may do depends on everything that
  has ever been remembered, so the invariant is about the stacks: each moment on either
  is `Safe`, which is to say that its cards are suspended if they are wanted so, and
  that its log has the very rows of `insert_revlog` that the log has now (`Replays`).
  An operation keeps `Safe` as it is, since the rows it logs take stamps that no row has
  (`StampIsFree`) and count as answered or manual; an insertion changes it, and that is
  why it must empty both stacks. The moment between the two operations of a grade-now
  is safe because its cards are wanted "half". Two things came out of the proof: the
  two stacks *together* hold no more than the library remembers, without which the
  redo stack would have no bound; and neither undo nor redo drops a moment. For
  `RefinesReviewLog` the invariant orders the moments: each on the stack of undo has the
  rows of those below it and the log has the rows of all (`Under`), each on the stack of
  redo has the rows of the log and of those above it (`Over`). An operation keeps the
  order since it adds rows only, forgetting the oldest moment does not disturb it
  (`RememberedUnder`), and undo and redo move the present along it (`TakenBetween`,
  `PushedOver`); that is why undo only takes back and redo only writes. For the reader,
  `ReaderInv` says that what is owed is still in the log, and on the pages to come. It
  rests on three facts about a page: it begins with the first row that is left
  (`FirstIsRead`), what it leaves comes after all of it (`PagesAreInOrder`), and one
  that is not truncated leaves nothing (`LastPage`); these on least and greatest
  elements of sets of numbers, and on cardinalities. For the views, each card of a
  selection is in the chunk that begins at its position rounded down (`InSomeChunk`),
  and dividing commutes with the least and the greatest (`FirstAndLastSecond`).
  Theorems: all five properties of the run; of the views for selections of any length
  (`AnySelectionAgrees`), where the run has three ids at most.

Assumed: the constants' named assumptions (bounds are natural numbers, `Keep` is
positive, `Nobody` is no thread, there is a shard, `None` is no notetype and no preset,
the Default deck and preset are there, the cards are finitely many and `Unknown` is none
of them), nothing else. In particular, the theorems hold for any set of threads, notes,
schema changes, decks and cards, and any bounds.

Every safety property of the six passing runs is a theorem. Only model-checked:
liveness under fairness (`EveryRequestAnswered`, `ShutdownCompletes`, `Settles`), which
the prover does not do, and the counterexamples of the six runs that find one.

## 6. Not modelled, and the plan

Not modelled for good: what the library computes (scheduling, search, rendering,
FSRS optimisation), one-call endpoints that add nothing to `CollectionHandle`'s
update and query, HTTP itself.

Left out, and why:

- The deck that `/review/next` selects (`review.py:72`) is shared by all clients. No
  text says which deck a request without one is about, so there is nothing to hold
  the code to.
- The comparison of a token's states with the card's is the library's: `Answer` has it
  as a guard, and no property restates it.
- `server_media_usn` (`sync.py:77`) is written after the lock. It is a number that a
  full sync passes on to a media sync, which corrects it; nothing else reads it.
- A media file's path is used after the lock (`media.py:74`). A download that races a
  deletion fails like one of a missing file.
- A response that is never sent (the client has gone): the file of a download is
  unlinked by a task that runs after it (`import_export.py:150`).
- The library's dicts after a normal sync that changes notetypes (as after a merging
  import, nothing forgets them), and the presets that a package brings: its decks get
  the Default one.
- The filters of a log read (card, ease) narrow what `Fetched` sees and nothing else.
- The names that fields have besides their ids, which deck is above which (a new name
  makes any missing ones; deleting a deck with its children is deleting them all), tags, texts of notes and
  templates, the values of presets: no property tells them apart.
- The table of `errors.py`, `parse_id`, `Settings.from_env`: functions without state,
  which the unit tests of the repository go through case by case.

Planned: for the counterexample of `backups_crowded`, a condition under which what the
source says does hold. Two ways to crowd are known, and it has to exclude both: files of
calls that failed, and files of calls that are not done when another call prunes.
