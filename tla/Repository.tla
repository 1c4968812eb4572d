----------------------------- MODULE Repository -----------------------------
(***************************************************************************)
(* The file records of a folder in SqlRepository: the tables file_info,    *)
(* file_blocks and folder_stats, and the cache of the folder's statistics. *)
(* updateFileInfo is not a transaction: each of its statements is an       *)
(* action, and the program may stop between any two of them.  Its callers  *)
(* hold IndexHandler.writeAccessLock, so there is one writer.  A user may  *)
(* open a FolderBrowser, which listens to the updates and reads all        *)
(* statistics without that lock.                                           *)
(***************************************************************************)
EXTENDS Integers, FiniteSets

CONSTANTS
  Path,      \* paths of the folder
  NoPath,    \* no path
  MaxTime,   \* bound: modification times of records
  MaxResets  \* bound: clearIndex calls and restarts

ASSUME RepositoryAssumption ==
  /\ IsFiniteSet(Path) /\ NoPath \notin Path /\ MaxTime \in Nat
  /\ MaxResets \in Nat

VARIABLES
  info,      \* file_info: a record per path, or NoRow
  blocks,    \* file_blocks: modification time of the record they are from,
             \* 0 for no row
  row,       \* folder_stats: the row of the folder, or NoStats
  cache,     \* folderStatsByFolder: Unloaded, or NoStats, or statistics
  stage,     \* the next statement of the thread that holds the lock
  job,       \* its path, record, old record and old statistics
  browser,   \* where the FolderBrowser is
  snapshot,  \* what its findAllFolderStats read
  shown,     \* its folderStatsCache
  resets,    \* clearIndex calls and restarts so far
  torn,      \* history: stopped between file_info and folder_stats
  stale,     \* history: findAllFolderStats cached outdated statistics
  heard,     \* history: the browser had an event since it read the statistics
  behind     \* history: it missed a clearIndex, or put what it had read over an event

browserVars == <<browser, snapshot, shown, heard, behind>>
vars == <<info, blocks, row, cache, stage, job, browserVars, resets, torn, stale>>

FileType == {"file", "dir"}
FileRow == [type: FileType, deleted: BOOLEAN, modified: 1..MaxTime]
NoRow == [type |-> "none", deleted |-> TRUE, modified |-> 0]
FolderStats == [files: Nat, dirs: Nat]
NoStats == [files |-> -1, dirs |-> -1]
NoFiles == [files |-> 0, dirs |-> 0]
Unloaded == [files |-> -2, dirs |-> -2]
NoJob == [path |-> NoPath, new |-> NoRow, old |-> NoRow, stats |-> NoStats]

Init ==
  /\ info = [p \in Path |-> NoRow] /\ blocks = [p \in Path |-> 0]
  /\ row = NoStats /\ cache = Unloaded
  /\ stage = "idle" /\ job = NoJob
  /\ browser = "none" /\ snapshot = NoStats /\ shown = NoFiles
  /\ heard = FALSE /\ behind = FALSE
  /\ resets = 0 /\ torn = FALSE /\ stale = FALSE

(***************************************************************************)
(* updateFileInfo.                                                         *)
(***************************************************************************)

(* addRecord: the lock is taken for a record that is new or newer.         *)
AddRecord(p, r) ==
  /\ stage = "idle"
  /\ info[p] = NoRow \/ r.modified > info[p].modified
  /\ stage' = "blocks"
  /\ job' = [NoJob EXCEPT !.path = p, !.new = r]
  /\ UNCHANGED <<info, blocks, row, cache, browserVars, resets, torn, stale>>

(* MERGE INTO file_blocks; a directory has no blocks.                      *)
WriteNewBlocks ==
  /\ stage = "blocks"
  /\ blocks' = IF job.new.type = "file" /\ ~job.new.deleted
               THEN [blocks EXCEPT ![job.path] = job.new.modified] ELSE blocks
  /\ stage' = "info"
  /\ UNCHANGED <<info, row, cache, job, browserVars, resets, torn, stale>>
WriteBlocks ==
  /\ stage = "blocks"
  /\ blocks' = IF job.new.type = "file"
               THEN [blocks EXCEPT ![job.path] = job.new.modified] ELSE blocks
  /\ stage' = "info"
  /\ UNCHANGED <<info, row, cache, job, browserVars, resets, torn, stale>>

(* The old record is read, MERGE INTO file_info.                           *)
WriteInfo ==
  /\ stage = "info"
  /\ job' = [job EXCEPT !.old = info[job.path]]
  /\ info' = [info EXCEPT ![job.path] = job.new]
  /\ stage' = "stats"
  /\ UNCHANGED <<blocks, row, cache, browserVars, resets, torn, stale>>

(* findFolderStats: from the cache, which loads the row.                   *)
FindStats ==
  /\ stage = "stats"
  /\ cache' = IF cache = Unloaded THEN row ELSE cache
  /\ job' = [job EXCEPT !.stats = cache']
  /\ stage' = "row"
  /\ UNCHANGED <<info, blocks, row, browserVars, resets, torn, stale>>

Counts(r, type) == IF r.type = type /\ ~r.deleted THEN 1 ELSE 0
DeltaOfNew(type) == Counts(job.new, type)
Delta(type) == Counts(job.new, type) - Counts(job.old, type)
OrZero(s) == IF s = NoStats THEN NoFiles ELSE s
NewStats == [files |-> OrZero(job.stats).files + Delta("file"),
             dirs  |-> OrZero(job.stats).dirs + Delta("dir")]

(* MERGE INTO folder_stats, after checkArgument of each count.             *)
StatsCheck == NewStats.files >= 0 /\ NewStats.dirs >= 0

WriteStats ==
  /\ stage = "row"
  /\ IF StatsCheck
     THEN row' = NewStats /\ stage' = "put" /\ UNCHANGED job
     ELSE stage' = "idle" /\ job' = NoJob /\ UNCHANGED row
  /\ UNCHANGED <<info, blocks, cache, browserVars, resets, torn, stale>>

PutStats ==
  /\ stage = "put"
  /\ cache' = NewStats
  /\ stage' = "post"
  /\ UNCHANGED <<info, blocks, row, job, browserVars, resets, torn, stale>>

(* FolderStatsUpdatedEvent, to the browser that is registered.             *)
ListeningWhenReady == browser = "ready"
Listening == browser # "none"

PostStats ==
  /\ stage = "post"
  /\ IF Listening
     THEN /\ shown' = NewStats /\ behind' = FALSE
          /\ heard' = (browser \in {"queried", "cached"})
     ELSE UNCHANGED <<shown, heard, behind>>
  /\ stage' = "idle" /\ job' = NoJob
  /\ UNCHANGED <<info, blocks, row, cache, browser, snapshot, resets, torn, stale>>

(***************************************************************************)
(* clearIndex, with the lock: DROP ALL OBJECTS, then the cache.  No event  *)
(* tells the browsers.                                                     *)
(***************************************************************************)
DropTables ==
  /\ stage = "idle"
  /\ resets < MaxResets /\ resets' = resets + 1
  /\ info' = [p \in Path |-> NoRow] /\ blocks' = [p \in Path |-> 0]
  /\ row' = NoStats
  /\ stage' = "invalidate"
  /\ behind' = (browser # "none")
  /\ UNCHANGED <<cache, job, browser, snapshot, shown, heard, torn, stale>>

InvalidateCache ==
  /\ stage = "invalidate"
  /\ cache' = Unloaded
  /\ stage' = "idle"
  /\ UNCHANGED <<info, blocks, row, job, browserVars, resets, torn, stale>>

(***************************************************************************)
(* FolderBrowser: it registers itself, then findAllFolderStats reads the   *)
(* rows and caches them, without the lock, then it shows them.  A folder   *)
(* without a row is not in the result.                                     *)
(***************************************************************************)
OpenBrowser ==
  /\ browser = "none"
  /\ browser' = "registered"
  /\ shown' = NoFiles /\ heard' = FALSE /\ behind' = FALSE
  /\ UNCHANGED <<info, blocks, row, cache, stage, job, snapshot, resets, torn, stale>>

QueryStats ==
  /\ browser = "registered"
  /\ IF row = NoStats THEN browser' = "ready" /\ UNCHANGED <<snapshot, heard>>
     ELSE browser' = "queried" /\ snapshot' = row /\ heard' = FALSE
  /\ UNCHANGED <<info, blocks, row, cache, stage, job, shown, behind, resets, torn, stale>>

CacheSnapshot ==
  /\ browser = "queried"
  /\ cache' = snapshot
  /\ browser' = "cached"
  /\ stale' = (stale \/ (snapshot # row /\ stage \notin {"row", "put", "invalidate"}))
  /\ UNCHANGED <<info, blocks, row, stage, job, snapshot, shown, heard, behind, resets, torn>>

ShowSnapshot ==
  /\ browser = "cached"
  /\ shown' = snapshot /\ snapshot' = NoStats
  /\ browser' = "ready"
  /\ behind' = (behind \/ (heard /\ snapshot # row)) /\ heard' = FALSE
  /\ UNCHANGED <<info, blocks, row, cache, stage, job, resets, torn, stale>>

CloseBrowser ==
  /\ browser = "ready"
  /\ browser' = "none" /\ shown' = NoFiles /\ heard' = FALSE /\ behind' = FALSE
  /\ UNCHANGED <<info, blocks, row, cache, stage, job, snapshot, resets, torn, stale>>

(* The program stops and starts again.                                     *)
Restart ==
  /\ resets < MaxResets /\ resets' = resets + 1
  /\ stage' = "idle" /\ job' = NoJob
  /\ cache' = Unloaded
  /\ browser' = "none" /\ snapshot' = NoStats /\ shown' = NoFiles
  /\ heard' = FALSE /\ behind' = FALSE
  /\ torn' = (torn \/ stage \in {"stats", "row"})
  /\ UNCHANGED <<info, blocks, row, stale>>

Next ==
  \/ \E p \in Path, r \in FileRow : AddRecord(p, r)
  \/ WriteBlocks \/ WriteInfo \/ FindStats \/ WriteStats \/ PutStats \/ PostStats
  \/ DropTables \/ InvalidateCache
  \/ OpenBrowser \/ QueryStats \/ CacheSnapshot \/ ShowSnapshot \/ CloseBrowser
  \/ Restart

Spec == Init /\ [][Next]_vars

(***************************************************************************)
(* Properties.                                                             *)
(***************************************************************************)

(* The variables keep their types.                                         *)
TypeOK ==
  /\ info \in [Path -> FileRow \cup {NoRow}]
  /\ blocks \in [Path -> 0..MaxTime]
  /\ row \in FolderStats \cup {NoStats}
  /\ cache \in FolderStats \cup {NoStats, Unloaded}
  /\ stage \in {"idle", "blocks", "info", "stats", "row", "put", "post", "invalidate"}
  /\ job.path \in Path \cup {NoPath}
  /\ {job.new, job.old} \subseteq FileRow \cup {NoRow}
  /\ job.stats \in FolderStats \cup {NoStats}
  /\ browser \in {"none", "registered", "queried", "cached", "ready"}
  /\ snapshot \in FolderStats \cup {NoStats} /\ shown \in FolderStats
  /\ resets \in 0..MaxResets
  /\ {torn, stale, heard, behind} \subseteq BOOLEAN

(* "file blocks not found for file info": the record of a file always has  *)
(* blocks, as recent as the record, wherever the program stopped.          *)
BlocksCoverInfo ==
  \A p \in Path : info[p].type = "file" => blocks[p] >= info[p].modified

(* Outside an update the statistics, and those in the cache, are what the  *)
(* records of the folder add up to: files and directories that are not     *)
(* deleted.  What breaks this is a stop within an update, or the caching   *)
(* of an outdated result by findAllFolderStats.                            *)
Present(type) == Cardinality({p \in Path : info[p].type = type /\ ~info[p].deleted})

StatsExact ==
  stage = "idle" /\ ~torn /\ ~stale =>
    /\ OrZero(row) = [files |-> Present("file"), dirs |-> Present("dir")]
    /\ cache \in {row, Unloaded}

(* Outside an update, an open browser shows the statistics of the          *)
(* repository: it listens before it reads them, so no update is lost.      *)
(* Unless it puts what it read over a newer event, or missed a clearIndex. *)
ShownIsCurrent ==
  stage = "idle" /\ browser = "ready" /\ ~behind => shown = OrZero(row)
=============================================================================
