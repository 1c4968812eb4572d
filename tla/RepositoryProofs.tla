-------------------------- MODULE RepositoryProofs --------------------------
(***************************************************************************)
(* Theorems about Repository, for every finite set of paths, any times and *)
(* any number of stops and clears: what updateFileInfo leaves behind,      *)
(* wherever it is cut, and what a FolderBrowser shows beside it.           *)
(***************************************************************************)
EXTENDS Repository, FiniteSetTheorems, TLAPS

(***************************************************************************)
(* Types.                                                                  *)
(***************************************************************************)
Stats == FolderStats \cup {NoStats}
Busy == stage \in {"blocks", "info", "stats", "row", "put", "post"}

(* An update holds its path and its record from its first statement on.    *)
JobOK ==
  /\ job \in [path : Path \cup {NoPath}, new : FileRow \cup {NoRow},
              old : FileRow \cup {NoRow}, stats : Stats]
  /\ Busy => job.path \in Path /\ job.new \in FileRow
  /\ stage \in {"put", "post"} => row = NewStats /\ row \in FolderStats
  /\ browser \in {"queried", "cached"} => snapshot \in FolderStats

TypeInv == TypeOK /\ JobOK

LEMMA OrZeroType == ASSUME NEW s \in Stats PROVE OrZero(s) \in FolderStats
BY DEF Stats, OrZero, FolderStats, NoFiles

LEMMA RowType ==
  /\ NoRow \notin FileRow /\ NoRow.type = "none"
  /\ \A r \in FileRow : r.modified \in Nat /\ r.type \in FileType
BY RepositoryAssumption DEF FileRow, NoRow, FileType

LEMMA NewStatsType ==
  ASSUME job.stats \in Stats, StatsCheck
  PROVE  NewStats \in FolderStats
<1>1. OrZero(job.stats).files \in Nat /\ OrZero(job.stats).dirs \in Nat
  BY OrZeroType DEF FolderStats
<1>2. Delta("file") \in Int /\ Delta("dir") \in Int
  BY DEF Delta, Counts
<1> DEFINE f == OrZero(job.stats).files + Delta("file")
           d == OrZero(job.stats).dirs + Delta("dir")
<1>3. NewStats = [files |-> f, dirs |-> d] /\ f >= 0 /\ d >= 0
  BY DEF NewStats, StatsCheck
<1>4. f \in Int /\ d \in Int
  BY <1>1, <1>2
<1> HIDE DEF f, d
<1> QED  BY <1>3, <1>4 DEF FolderStats

LEMMA InitTypeInv == Init => TypeInv
<1> SUFFICES ASSUME Init PROVE TypeInv
  OBVIOUS
<1>1. TypeOK
  <2>1. /\ info \in [Path -> FileRow \cup {NoRow}] /\ blocks \in [Path -> 0..MaxTime]
        /\ resets \in 0..MaxResets
    BY RepositoryAssumption DEF Init
  <2>2. shown \in FolderStats /\ snapshot \in FolderStats \cup {NoStats}
        /\ row \in FolderStats \cup {NoStats} /\ cache \in FolderStats \cup {NoStats, Unloaded}
    BY DEF Init, NoFiles, FolderStats
  <2>3. /\ job.path \in Path \cup {NoPath}
        /\ {job.new, job.old} \subseteq FileRow \cup {NoRow}
        /\ job.stats \in FolderStats \cup {NoStats}
    BY DEF Init, NoJob
  <2>4. /\ stage = "idle" /\ browser = "none"
        /\ {torn, stale, heard, behind} \subseteq BOOLEAN
    BY DEF Init
  <2> QED  BY <2>1, <2>2, <2>3, <2>4 DEF TypeOK
<1>2. JobOK
  BY DEF Init, JobOK, Busy, NoJob, Stats
<1> QED  BY <1>1, <1>2 DEF TypeInv

(* The statements of updateFileInfo.                                       *)
LEMMA UpdateTypeInv ==
  ASSUME TypeInv,
         \/ \E p \in Path, r \in FileRow : AddRecord(p, r)
         \/ WriteBlocks \/ WriteInfo \/ FindStats \/ WriteStats \/ PutStats \/ PostStats
  PROVE  TypeInv'
<1>1. CASE \E p \in Path, r \in FileRow : AddRecord(p, r)
  <2>1. PICK p \in Path, r \in FileRow : AddRecord(p, r)
    BY <1>1
  <2>2. job' = [path |-> p, new |-> r, old |-> NoRow, stats |-> NoStats]
        /\ stage' = "blocks"
        /\ UNCHANGED <<info, blocks, row, cache, browserVars, resets, torn, stale>>
    BY <2>1 DEF AddRecord, NoJob
  <2>3. TypeOK'
    BY <2>2 DEF TypeInv, TypeOK, browserVars
  <2>4. JobOK'
    BY <2>2 DEF TypeInv, JobOK, Busy, Stats, browserVars
  <2> QED  BY <2>3, <2>4 DEF TypeInv
<1>2. CASE WriteBlocks
  <2>1. job.new.modified \in 0..MaxTime /\ job.path \in Path
    BY <1>2, RepositoryAssumption DEF WriteBlocks, TypeInv, JobOK, Busy, FileRow
  <2>2. blocks' \in [Path -> 0..MaxTime] /\ stage' = "info"
        /\ UNCHANGED <<info, row, cache, job, browserVars, resets, torn, stale>>
    BY <1>2, <2>1 DEF WriteBlocks, TypeInv, TypeOK
  <2>3. TypeOK'
    BY <2>2 DEF TypeInv, TypeOK, browserVars
  <2>4. JobOK'
    BY <1>2, <2>2 DEF WriteBlocks, TypeInv, JobOK, Busy, browserVars
  <2> QED  BY <2>3, <2>4 DEF TypeInv
<1>3. CASE WriteInfo
  <2>1. job.path \in Path /\ job.new \in FileRow /\ info[job.path] \in FileRow \cup {NoRow}
    BY <1>3 DEF WriteInfo, TypeInv, TypeOK, JobOK, Busy
  <2>2. job' = [job EXCEPT !.old = info[job.path]]
        /\ info' = [info EXCEPT ![job.path] = job.new] /\ stage' = "stats"
        /\ UNCHANGED <<blocks, row, cache, browserVars, resets, torn, stale>>
    BY <1>3 DEF WriteInfo
  <2>3. info' \in [Path -> FileRow \cup {NoRow}]
    BY <2>1, <2>2 DEF TypeInv, TypeOK
  <2>4. TypeOK'
    BY <2>1, <2>2, <2>3 DEF TypeInv, TypeOK, JobOK, browserVars
  <2>5. JobOK'
    BY <2>1, <2>2 DEF TypeInv, JobOK, Busy, browserVars
  <2> QED  BY <2>4, <2>5 DEF TypeInv
<1>4. CASE FindStats
  <2>1. cache' = (IF cache = Unloaded THEN row ELSE cache) /\ cache' \in Stats
        /\ job' = [job EXCEPT !.stats = cache'] /\ stage = "stats" /\ stage' = "row"
        /\ UNCHANGED <<info, blocks, row, browserVars, resets, torn, stale>>
    BY <1>4 DEF FindStats, TypeInv, TypeOK, Stats
  <2>2. TypeOK'
    BY <2>1 DEF TypeInv, TypeOK, JobOK, Stats, browserVars
  <2>3. JobOK'
    BY <2>1 DEF TypeInv, JobOK, Busy, browserVars
  <2> QED  BY <2>2, <2>3 DEF TypeInv
<1>5. CASE WriteStats
  <2>1. CASE StatsCheck
    <3>1. row' = NewStats /\ stage' = "put" /\ stage = "row"
          /\ UNCHANGED <<info, blocks, cache, job, browserVars, resets, torn, stale>>
      BY <1>5, <2>1 DEF WriteStats
    <3>2. NewStats \in FolderStats /\ NewStats' = NewStats
      BY <2>1, <3>1, NewStatsType DEF TypeInv, JobOK, NewStats, Delta
    <3>3. TypeOK'
      BY <3>1, <3>2 DEF TypeInv, TypeOK, browserVars
    <3>4. JobOK'
      BY <3>1, <3>2 DEF TypeInv, JobOK, Busy, browserVars
    <3> QED  BY <3>3, <3>4 DEF TypeInv
  <2>2. CASE ~StatsCheck
    <3>1. job' = NoJob /\ stage' = "idle"
          /\ UNCHANGED <<info, blocks, row, cache, browserVars, resets, torn, stale>>
      BY <1>5, <2>2 DEF WriteStats
    <3>2. TypeOK'
      BY <3>1 DEF TypeInv, TypeOK, NoJob, browserVars
    <3>3. JobOK'
      BY <3>1 DEF TypeInv, JobOK, Busy, NoJob, Stats, browserVars
    <3> QED  BY <3>2, <3>3 DEF TypeInv
  <2> QED  BY <2>1, <2>2
<1>6. CASE PutStats
  <2>1. cache' = row /\ row \in FolderStats /\ stage = "put" /\ stage' = "post"
        /\ UNCHANGED <<info, blocks, row, job, browserVars, resets, torn, stale>>
    BY <1>6 DEF PutStats, TypeInv, JobOK
  <2>2. NewStats' = NewStats
    BY <2>1 DEF NewStats, Delta
  <2>3. TypeOK'
    BY <2>1 DEF TypeInv, TypeOK, browserVars
  <2>4. JobOK'
    BY <2>1, <2>2 DEF TypeInv, JobOK, Busy, browserVars
  <2> QED  BY <2>3, <2>4 DEF TypeInv
<1>7. CASE PostStats
  <2>1. stage = "post" /\ stage' = "idle" /\ job' = NoJob
        /\ UNCHANGED <<info, blocks, row, cache, browser, snapshot, resets, torn, stale>>
    BY <1>7 DEF PostStats
  <2>2. \/ shown' = NewStats /\ behind' = FALSE
           /\ heard' = (browser \in {"queried", "cached"})
        \/ UNCHANGED <<shown, heard, behind>>
    BY <1>7 DEF PostStats
  <2>3. shown' \in FolderStats
    BY <2>1, <2>2 DEF TypeInv, TypeOK, JobOK
  <2>4. heard \in BOOLEAN /\ behind \in BOOLEAN
    BY DEF TypeInv, TypeOK
  <2>5. heard' \in BOOLEAN /\ behind' \in BOOLEAN
    <3>1. CASE behind' = FALSE /\ heard' = (browser \in {"queried", "cached"})
      <4> DEFINE reading == browser \in {"queried", "cached"}
      <4>1. reading \in BOOLEAN
        OBVIOUS
      <4>2. heard' = reading
        BY <3>1
      <4> HIDE DEF reading
      <4>3. heard' \in BOOLEAN
        BY <4>1, <4>2, Zenon
      <4> QED  BY <3>1, <4>3
    <3>2. CASE UNCHANGED <<shown, heard, behind>>
      BY <2>4, <3>2
    <3> QED  BY <2>2, <3>1, <3>2
  <2>6. TypeOK'
    BY <2>1, <2>3, <2>5 DEF TypeInv, TypeOK, NoJob
  <2>7. JobOK'
    BY <2>1 DEF TypeInv, JobOK, Busy, NoJob, Stats
  <2> QED  BY <2>6, <2>7 DEF TypeInv
<1> QED  BY <1>1, <1>2, <1>3, <1>4, <1>5, <1>6, <1>7

(* clearIndex, the FolderBrowser and a restart.                            *)
LEMMA OtherTypeInv ==
  ASSUME TypeInv,
         \/ DropTables \/ InvalidateCache \/ OpenBrowser \/ QueryStats \/ CacheSnapshot
         \/ ShowSnapshot \/ CloseBrowser \/ Restart
  PROVE  TypeInv'
<1>1. CASE DropTables
  <2>1. /\ info' \in [Path -> FileRow \cup {NoRow}] /\ blocks' \in [Path -> 0..MaxTime]
        /\ row' = NoStats /\ resets' \in 0..MaxResets
    BY <1>1, RepositoryAssumption DEF DropTables, TypeInv, TypeOK
  <2>2. behind' \in BOOLEAN
    BY <1>1 DEF DropTables
  <2>3. stage = "idle" /\ stage' = "invalidate"
        /\ UNCHANGED <<cache, job, browser, snapshot, shown, heard, torn, stale>>
    BY <1>1 DEF DropTables
  <2>4. TypeOK'
    BY <2>1, <2>2, <2>3 DEF TypeInv, TypeOK
  <2>5. JobOK'
    BY <2>3 DEF TypeInv, JobOK, Busy
  <2> QED  BY <2>4, <2>5 DEF TypeInv
<1>2. CASE InvalidateCache
  <2>1. stage' = "idle" /\ cache' = Unloaded
        /\ UNCHANGED <<info, blocks, row, job, browserVars, resets, torn, stale>>
    BY <1>2 DEF InvalidateCache
  <2>2. TypeOK' /\ JobOK'
    BY <2>1 DEF TypeInv, TypeOK, JobOK, Busy, browserVars
  <2> QED  BY <2>2 DEF TypeInv
<1>3. CASE OpenBrowser \/ CloseBrowser
  <2>1. /\ browser' \in {"registered", "none"} /\ shown' = NoFiles
        /\ heard' = FALSE /\ behind' = FALSE
        /\ UNCHANGED <<info, blocks, row, cache, stage, job, snapshot, resets, torn, stale>>
    BY <1>3 DEF OpenBrowser, CloseBrowser
  <2>2. NoFiles \in FolderStats
    BY DEF NoFiles, FolderStats
  <2>3. TypeOK'
    BY <2>1, <2>2 DEF TypeInv, TypeOK
  <2>4. NewStats' = NewStats
    BY <2>1 DEF NewStats, Delta
  <2>5. JobOK'
    BY <2>1, <2>4 DEF TypeInv, JobOK, Busy
  <2> QED  BY <2>3, <2>5 DEF TypeInv
<1>4. CASE QueryStats
  <2>1. UNCHANGED <<info, blocks, row, cache, stage, job, shown, behind, resets, torn, stale>>
    BY <1>4 DEF QueryStats
  <2>2. \/ browser' = "ready" /\ UNCHANGED <<snapshot, heard>>
        \/ browser' = "queried" /\ snapshot' = row /\ row # NoStats /\ heard' = FALSE
    BY <1>4 DEF QueryStats
  <2>3. NewStats' = NewStats
    BY <2>1 DEF NewStats, Delta
  <2>4. TypeOK'
    BY <2>1, <2>2 DEF TypeInv, TypeOK
  <2>5. JobOK'
    BY <2>1, <2>2, <2>3 DEF TypeInv, TypeOK, JobOK, Busy
  <2> QED  BY <2>4, <2>5 DEF TypeInv
<1>5. CASE CacheSnapshot
  <2>1. /\ browser = "queried" /\ browser' = "cached" /\ cache' = snapshot
        /\ UNCHANGED <<info, blocks, row, stage, job, snapshot, shown, heard, behind, resets,
                       torn>>
    BY <1>5 DEF CacheSnapshot
  <2>2. stale' \in BOOLEAN
    <3>1. stale' = (stale \/ (snapshot # row /\ stage \notin {"row", "put", "invalidate"}))
      BY <1>5 DEF CacheSnapshot
    <3> QED  BY <3>1, Zenon DEF TypeInv, TypeOK
  <2>3. NewStats' = NewStats
    BY <2>1 DEF NewStats, Delta
  <2>4. TypeOK'
    BY <2>1, <2>2 DEF TypeInv, TypeOK
  <2>5. JobOK'
    BY <2>1, <2>3 DEF TypeInv, JobOK, Busy
  <2> QED  BY <2>4, <2>5 DEF TypeInv
<1>6. CASE ShowSnapshot
  <2>1. /\ browser = "cached" /\ browser' = "ready" /\ shown' = snapshot
        /\ snapshot' = NoStats /\ heard' = FALSE
        /\ UNCHANGED <<info, blocks, row, cache, stage, job, resets, torn, stale>>
    BY <1>6 DEF ShowSnapshot
  <2>2. behind' \in BOOLEAN
    <3>1. behind' = (behind \/ (heard /\ snapshot # row))
      BY <1>6 DEF ShowSnapshot
    <3> QED  BY <3>1, Zenon DEF TypeInv, TypeOK
  <2>3. shown' \in FolderStats
    BY <2>1 DEF TypeInv, JobOK
  <2>4. NewStats' = NewStats
    BY <2>1 DEF NewStats, Delta
  <2>5. TypeOK'
    BY <2>1, <2>2, <2>3 DEF TypeInv, TypeOK
  <2>6. JobOK'
    BY <2>1, <2>4 DEF TypeInv, JobOK, Busy
  <2> QED  BY <2>5, <2>6 DEF TypeInv
<1>7. CASE Restart
  <2>1. /\ stage' = "idle" /\ job' = NoJob /\ cache' = Unloaded /\ browser' = "none"
        /\ snapshot' = NoStats /\ shown' = NoFiles /\ heard' = FALSE /\ behind' = FALSE
        /\ UNCHANGED <<info, blocks, row, stale>>
    BY <1>7 DEF Restart
  <2>2. resets' \in 0..MaxResets
    BY <1>7, RepositoryAssumption DEF Restart, TypeInv, TypeOK
  <2>3. torn' \in BOOLEAN
    <3>1. torn' = (torn \/ stage \in {"stats", "row"})
      BY <1>7 DEF Restart
    <3> QED  BY <3>1, Zenon DEF TypeInv, TypeOK
  <2>4. NoFiles \in FolderStats
    BY DEF NoFiles, FolderStats
  <2>5. TypeOK'
    BY <2>1, <2>2, <2>3, <2>4 DEF TypeInv, TypeOK, NoJob
  <2>6. JobOK'
    BY <2>1 DEF JobOK, Busy, NoJob, Stats
  <2> QED  BY <2>5, <2>6 DEF TypeInv
<1> QED  BY <1>1, <1>2, <1>3, <1>4, <1>5, <1>6, <1>7

LEMMA StutterTypeInv == ASSUME TypeInv, UNCHANGED vars PROVE TypeInv'
<1>1. NewStats' = NewStats
  BY DEF vars, NewStats, Delta
<1> QED  BY <1>1 DEF vars, browserVars, TypeInv, TypeOK, JobOK, Busy

(* The variables keep their types, and an update keeps its path and record *)
(* from its first statement to its event, for any paths and times.         *)
THEOREM TypeCorrect == Spec => []TypeInv
<1>1. TypeInv /\ Next => TypeInv'
  BY UpdateTypeInv, OtherTypeInv DEF Next
<1> QED  BY InitTypeInv, <1>1, StutterTypeInv, PTL DEF Spec

(***************************************************************************)
(* Blocks.  The record of an update is newer than the one it replaces; its *)
(* blocks are there before it is.                                          *)
(***************************************************************************)
UpdateOK ==
  /\ stage = "blocks" => \/ info[job.path] = NoRow
                         \/ job.new.modified > info[job.path].modified
  /\ stage = "info" /\ job.new.type = "file" => blocks[job.path] >= job.new.modified

BlocksInv == BlocksCoverInfo /\ UpdateOK

LEMMA InitBlocksInv == Init => BlocksInv
BY RowType DEF Init, BlocksInv, BlocksCoverInfo, UpdateOK

LEMMA NextBlocksInv == ASSUME TypeInv, TypeInv', BlocksInv, [Next]_vars PROVE BlocksInv'
<1>t. /\ info \in [Path -> FileRow \cup {NoRow}] /\ blocks \in [Path -> 0..MaxTime]
      /\ \A p \in Path : info[p].type = "file" => info[p] \in FileRow
      /\ \A p \in Path : blocks[p] \in Nat
  BY RowType, RepositoryAssumption DEF TypeInv, TypeOK
<1>1. CASE \E p \in Path, r \in FileRow : AddRecord(p, r)
  <2>1. PICK p \in Path, r \in FileRow : AddRecord(p, r)
    BY <1>1
  <2>2. job'.path = p /\ job'.new = r /\ stage' = "blocks" /\ UNCHANGED <<info, blocks>>
        /\ (info[p] = NoRow \/ r.modified > info[p].modified)
    BY <2>1 DEF AddRecord, NoJob
  <2> QED  BY <2>2 DEF BlocksInv, BlocksCoverInfo, UpdateOK
<1>2. CASE WriteBlocks
  <2>1. /\ job.path \in Path /\ job.new \in FileRow /\ stage = "blocks" /\ stage' = "info"
        /\ UNCHANGED <<info, job>>
        /\ blocks' = IF job.new.type = "file"
                     THEN [blocks EXCEPT ![job.path] = job.new.modified] ELSE blocks
    BY <1>2 DEF WriteBlocks, TypeInv, JobOK, Busy
  <2>2. job.new.modified \in Nat
    BY <2>1, RowType
  <2>3. UpdateOK'
    BY <1>t, <2>1, <2>2 DEF UpdateOK
  <2>4. BlocksCoverInfo'
    <3> SUFFICES ASSUME NEW p \in Path, info[p].type = "file"
                 PROVE  blocks'[p] >= info[p].modified
      BY <2>1 DEF BlocksCoverInfo
    <3>1. blocks[p] >= info[p].modified /\ info[p].modified \in Nat /\ info[p] # NoRow
      BY <1>t, RowType DEF BlocksInv, BlocksCoverInfo
    <3>2. CASE p = job.path /\ job.new.type = "file"
      <4>1. job.new.modified > info[p].modified
        BY <2>1, <3>1, <3>2 DEF BlocksInv, UpdateOK
      <4>2. blocks'[p] = job.new.modified
        BY <1>t, <2>1, <3>2
      <4> QED  BY <2>2, <3>1, <4>1, <4>2
    <3>3. CASE ~(p = job.path /\ job.new.type = "file")
      BY <1>t, <2>1, <3>1, <3>3
    <3> QED  BY <3>2, <3>3
  <2> QED  BY <2>3, <2>4 DEF BlocksInv
<1>3. CASE WriteInfo
  <2>1. /\ job.path \in Path /\ stage = "info" /\ stage' = "stats"
        /\ info' = [info EXCEPT ![job.path] = job.new] /\ blocks' = blocks
    BY <1>3 DEF WriteInfo, TypeInv, JobOK, Busy
  <2>2. UpdateOK'
    BY <2>1 DEF UpdateOK
  <2>3. ASSUME NEW p \in Path, info'[p].type = "file"
        PROVE  blocks'[p] >= info'[p].modified
    <3>1. CASE p = job.path
      BY <1>t, <2>1, <2>3, <3>1 DEF BlocksInv, UpdateOK
    <3>2. CASE p # job.path
      BY <1>t, <2>1, <2>3, <3>2 DEF BlocksInv, BlocksCoverInfo
    <3> QED  BY <3>1, <3>2
  <2> QED  BY <2>2, <2>3 DEF BlocksInv, BlocksCoverInfo
<1>4. CASE FindStats \/ WriteStats \/ PutStats \/ PostStats \/ InvalidateCache \/ Restart
  <2>1. stage' \in {"row", "put", "post", "idle"} /\ UNCHANGED <<info, blocks>>
    BY <1>4 DEF FindStats, WriteStats, PutStats, PostStats, InvalidateCache, Restart
  <2> QED  BY <2>1 DEF BlocksInv, BlocksCoverInfo, UpdateOK
<1>5. CASE DropTables
  <2>1. stage' = "invalidate" /\ info' = [p \in Path |-> NoRow]
    BY <1>5 DEF DropTables
  <2> QED  BY <2>1, RowType DEF BlocksInv, BlocksCoverInfo, UpdateOK
<1>6. CASE \/ OpenBrowser \/ QueryStats \/ CacheSnapshot \/ ShowSnapshot \/ CloseBrowser
           \/ UNCHANGED vars
  <2>1. UNCHANGED <<info, blocks, stage, job>>
    BY <1>6 DEF OpenBrowser, QueryStats, CacheSnapshot, ShowSnapshot, CloseBrowser, vars
  <2> QED  BY <2>1 DEF BlocksInv, BlocksCoverInfo, UpdateOK
<1> QED  BY <1>1, <1>2, <1>3, <1>4, <1>5, <1>6 DEF Next

(* The record of a file has its blocks, wherever updateFileInfo is cut.    *)
THEOREM BlocksCover == Spec => []BlocksCoverInfo
<1>1. TypeInv /\ TypeInv' /\ BlocksInv /\ [Next]_vars => BlocksInv'
  BY NextBlocksInv
<1>2. BlocksInv => BlocksCoverInfo
  BY DEF BlocksInv
<1> QED  BY InitBlocksInv, TypeCorrect, <1>1, <1>2, PTL DEF Spec

(***************************************************************************)
(* The FolderBrowser.  Between the update of the row and the event the two *)
(* differ; otherwise what it shows, or will show, is the row, unless an    *)
(* event came after its reading or a clearIndex without any.               *)
(***************************************************************************)
Settled == stage \notin {"put", "post"}

ReadyOK == Settled /\ browser = "ready" /\ ~behind => shown = OrZero(row)
ReadingOK ==
  Settled /\ browser \in {"queried", "cached"} /\ ~behind /\ ~heard => snapshot = row
RegisteredOK ==
  browser = "registered" /\ ~behind /\ row = NoStats => shown = NoFiles

BrowserInv == ReadyOK /\ ReadingOK /\ RegisteredOK

LEMMA OrZeroOfStats ==
  /\ OrZero(NoStats) = NoFiles
  /\ \A s \in FolderStats : OrZero(s) = s /\ s # NoStats
BY DEF OrZero, FolderStats, NoStats

LEMMA NextBrowserInv == ASSUME TypeInv, BrowserInv, [Next]_vars PROVE BrowserInv'
<1> USE DEF BrowserInv, ReadyOK, ReadingOK, RegisteredOK, Settled
<1>1. CASE \/ \E p \in Path, r \in FileRow : AddRecord(p, r)
           \/ WriteBlocks \/ WriteInfo \/ FindStats \/ InvalidateCache
  <2>1. UNCHANGED <<row, browserVars>> /\ Settled
    BY <1>1 DEF AddRecord, WriteBlocks, WriteInfo, FindStats, InvalidateCache
  <2> QED  BY <2>1 DEF browserVars, OrZero
<1>2. CASE WriteStats
  <2>1. CASE StatsCheck
    <3>1. stage' = "put" /\ row' = NewStats /\ UNCHANGED browserVars
      BY <1>2, <2>1 DEF WriteStats
    <3>2. NewStats # NoStats
      BY <2>1, NewStatsType, OrZeroOfStats DEF TypeInv, JobOK
    <3> QED  BY <3>1, <3>2 DEF browserVars
  <2>2. CASE ~StatsCheck
    <3>1. UNCHANGED <<row, browserVars>> /\ stage = "row"
      BY <1>2, <2>2 DEF WriteStats
    <3> QED  BY <3>1 DEF browserVars, OrZero
  <2> QED  BY <2>1, <2>2
<1>3. CASE PutStats
  <2>1. stage' = "post" /\ row' = row /\ UNCHANGED browserVars
    BY <1>3 DEF PutStats
  <2> QED  BY <2>1 DEF browserVars
<1>4. CASE PostStats
  <2>1. row = NewStats /\ row \in FolderStats /\ row' = row /\ browser' = browser
    BY <1>4 DEF PostStats, TypeInv, JobOK
  <2>2. CASE Listening
    <3>1. shown' = row /\ behind' = FALSE /\ heard' = (browser \in {"queried", "cached"})
      BY <1>4, <2>1, <2>2 DEF PostStats
    <3>2. browser \in {"queried", "cached"} => heard'
      BY <3>1
    <3> QED  BY <2>1, <3>1, <3>2, OrZeroOfStats
  <2>3. CASE ~Listening
    BY <2>1, <2>3 DEF Listening
  <2> QED  BY <2>2, <2>3
<1>5. CASE DropTables
  <2>1. browser' = browser /\ behind' = (browser # "none")
    BY <1>5 DEF DropTables
  <2>2. browser # "none" => behind'
    BY <2>1
  <2> QED  BY <2>1, <2>2
<1>6. CASE OpenBrowser
  BY <1>6 DEF OpenBrowser
<1>7. CASE QueryStats
  <2>1. UNCHANGED <<row, stage, shown, behind>> /\ browser = "registered"
        /\ \/ row = NoStats /\ browser' = "ready"
           \/ row # NoStats /\ browser' = "queried" /\ snapshot' = row
    BY <1>7 DEF QueryStats
  <2> QED  BY <2>1, OrZeroOfStats
<1>8. CASE CacheSnapshot
  <2>1. browser = "queried" /\ browser' = "cached"
        /\ UNCHANGED <<row, stage, snapshot, shown, heard, behind>>
    BY <1>8 DEF CacheSnapshot
  <2> QED  BY <2>1
<1>9. CASE ShowSnapshot
  <2>1. /\ browser = "cached" /\ browser' = "ready" /\ shown' = snapshot
        /\ behind' = (behind \/ (heard /\ snapshot # row)) /\ UNCHANGED <<row, stage>>
        /\ snapshot \in FolderStats
    BY <1>9 DEF ShowSnapshot, TypeInv, JobOK
  <2>2. Settled /\ ~behind' => snapshot = row
    BY <2>1
  <2>3. Settled /\ ~behind' => shown' = OrZero(row)
    BY <2>1, <2>2, OrZeroOfStats
  <2> QED  BY <2>1, <2>3 DEF OrZero
<1>10. CASE CloseBrowser \/ Restart
  BY <1>10 DEF CloseBrowser, Restart
<1>11. CASE UNCHANGED vars
  BY <1>11 DEF vars, browserVars, OrZero
<1> QED  BY <1>1, <1>2, <1>3, <1>4, <1>5, <1>6, <1>7, <1>8, <1>9, <1>10, <1>11 DEF Next

(* Outside an update an open FolderBrowser shows the statistics of the     *)
(* repository, unless it put what it read over an event or missed a        *)
(* clearIndex: to listen before reading loses no update.                   *)
THEOREM BrowserCurrent == Spec => []ShownIsCurrent
<1>1. Init => BrowserInv
  BY DEF Init, BrowserInv, ReadyOK, ReadingOK, RegisteredOK
<1>2. TypeInv /\ BrowserInv /\ [Next]_vars => BrowserInv'
  BY NextBrowserInv
<1>3. BrowserInv => ShownIsCurrent
  BY DEF BrowserInv, ReadyOK, Settled, ShownIsCurrent
<1> QED  BY TypeCorrect, <1>1, <1>2, <1>3, PTL DEF Spec

(***************************************************************************)
(* Statistics.  One record more or less changes the count of its type by   *)
(* what Delta says; between file_info and folder_stats the row lacks the   *)
(* Delta of the update; the cache, when loaded, is the row.                *)
(***************************************************************************)
PresentIn(tbl, type) == {p \in Path : tbl[p].type = type /\ ~tbl[p].deleted}

LEMMA CountOfUpdate ==
  ASSUME NEW tbl \in [Path -> FileRow \cup {NoRow}], NEW p \in Path,
         NEW r \in FileRow \cup {NoRow}, NEW type
  PROVE  Cardinality(PresentIn([tbl EXCEPT ![p] = r], type))
           = Cardinality(PresentIn(tbl, type)) + Counts(r, type) - Counts(tbl[p], type)
<1> DEFINE upd == [tbl EXCEPT ![p] = r]
           others == PresentIn(tbl, type) \ {p}
<1>1. IsFiniteSet(others) /\ Cardinality(others) \in Nat
  <2>1. IsFiniteSet(PresentIn(tbl, type))
    BY RepositoryAssumption, FS_Subset DEF PresentIn
  <2> QED  BY <2>1, FS_RemoveElement, FS_CardinalityType
<1>2. ASSUME NEW u, NEW x, u[p] = x,
             \A q \in Path : q # p => u[q] = tbl[q]
      PROVE  Cardinality(PresentIn(u, type)) = Cardinality(others) + Counts(x, type)
  <2>1. CASE x.type = type /\ ~x.deleted
    <3>1. PresentIn(u, type) = others \cup {p}
      BY <1>2, <2>1 DEF PresentIn
    <3>2. Cardinality(others \cup {p}) = Cardinality(others) + 1
      BY <1>1, FS_AddElement
    <3>3. Counts(x, type) = 1
      BY <2>1 DEF Counts
    <3> HIDE DEF others
    <3> QED  BY <3>1, <3>2, <3>3
  <2>2. CASE ~(x.type = type /\ ~x.deleted)
    <3>1. PresentIn(u, type) = others
      BY <1>2, <2>2 DEF PresentIn
    <3>2. Counts(x, type) = 0
      BY <2>2 DEF Counts
    <3> HIDE DEF others
    <3> QED  BY <1>1, <3>1, <3>2
  <2> QED  BY <2>1, <2>2
<1>3. Cardinality(PresentIn(upd, type)) = Cardinality(others) + Counts(r, type)
  <2>1. upd[p] = r /\ \A q \in Path : q # p => upd[q] = tbl[q]
    OBVIOUS
  <2> HIDE DEF upd, others
  <2> QED  BY <1>2, <2>1
<1>4. Cardinality(PresentIn(tbl, type)) = Cardinality(others) + Counts(tbl[p], type)
  <2> HIDE DEF others
  <2> QED  BY <1>2
<1>5. Counts(r, type) \in Int /\ Counts(tbl[p], type) \in Int
  BY DEF Counts
<1> HIDE DEF others, upd
<1>6. Cardinality(PresentIn(upd, type))
        = Cardinality(PresentIn(tbl, type)) + Counts(r, type) - Counts(tbl[p], type)
  BY <1>1, <1>3, <1>4, <1>5
<1> QED  BY <1>6 DEF upd

LEMMA NothingPresent ==
  ASSUME NEW tbl, \A p \in Path : tbl[p] = NoRow, NEW type
  PROVE  Cardinality(PresentIn(tbl, type)) = 0
<1>1. PresentIn(tbl, type) = {}
  BY DEF PresentIn, NoRow
<1> QED  BY <1>1, FS_EmptySet

LEMMA PresentType == \A type : Present(type) \in Nat
<1> SUFFICES ASSUME NEW type PROVE Present(type) \in Nat
  OBVIOUS
<1>1. IsFiniteSet({p \in Path : info[p].type = type /\ ~info[p].deleted})
  BY RepositoryAssumption, FS_Subset
<1> QED  BY <1>1, FS_CardinalityType DEF Present

(* The row is exact, or lacks the Delta of the update in its statistics.   *)
Exact == OrZero(row) = [files |-> Present("file"), dirs |-> Present("dir")]
Lacking ==
  /\ OrZero(row).files + Delta("file") = Present("file")
  /\ OrZero(row).dirs + Delta("dir") = Present("dir")

StatsInv ==
  ~torn /\ ~stale =>
    /\ stage \notin {"stats", "row"} => Exact
    /\ stage \in {"stats", "row"} => Lacking
    /\ stage = "row" => job.stats = row
    /\ stage \notin {"row", "put", "invalidate"} => cache \in {row, Unloaded}
    /\ stage = "invalidate" => row = NoStats

LEMMA InitStatsInv == Init => StatsInv
<1> SUFFICES ASSUME Init PROVE StatsInv
  OBVIOUS
<1>1. \A p \in Path : info[p] = NoRow
  BY DEF Init
<1>2. Present("file") = 0 /\ Present("dir") = 0
  BY <1>1, NothingPresent DEF Present, PresentIn
<1>3. Exact
  BY <1>2 DEF Init, Exact, OrZero, NoFiles
<1> QED  BY <1>3 DEF Init, StatsInv

(* The records and the row are as they were.                               *)
LEMMA SameCounts ==
  ASSUME UNCHANGED <<info, row>>
  PROVE  Exact' <=> Exact
BY DEF Exact, Present, OrZero

LEMMA SameLacking ==
  ASSUME UNCHANGED <<info, row>>, job'.new = job.new, job'.old = job.old
  PROVE  Lacking' <=> Lacking
BY DEF Lacking, Present, OrZero, Delta

LEMMA UpdateStatsInv ==
  ASSUME TypeInv, StatsInv,
         \/ \E p \in Path, r \in FileRow : AddRecord(p, r)
         \/ WriteBlocks \/ WriteInfo \/ FindStats \/ WriteStats \/ PutStats \/ PostStats
  PROVE  StatsInv'
<1>a. UNCHANGED <<torn, stale>>
  BY DEF AddRecord, WriteBlocks, WriteInfo, FindStats, WriteStats, PutStats, PostStats
<1> SUFFICES ASSUME ~torn, ~stale PROVE StatsInv'
  BY <1>a DEF StatsInv
<1>1. CASE (\E p \in Path, r \in FileRow : AddRecord(p, r)) \/ WriteBlocks
  <2>1. /\ stage' \in {"blocks", "info"} /\ stage \in {"idle", "blocks"}
        /\ UNCHANGED <<info, row, cache>>
    BY <1>1 DEF AddRecord, WriteBlocks
  <2> QED  BY <2>1, SameCounts DEF StatsInv
<1>2. CASE WriteInfo
  <2>1. /\ stage = "info" /\ stage' = "stats" /\ UNCHANGED <<row, cache>>
        /\ info' = [info EXCEPT ![job.path] = job.new]
        /\ job'.new = job.new /\ job'.old = info[job.path]
    BY <1>2 DEF WriteInfo, TypeInv, JobOK
  <2>2. /\ info \in [Path -> FileRow \cup {NoRow}] /\ job.path \in Path /\ job.new \in FileRow
    BY <2>1 DEF TypeInv, TypeOK, JobOK, Busy
  <2>3. \A type : Present(type)' = Present(type) + Delta(type)'
    <3> SUFFICES ASSUME NEW type PROVE Present(type)' = Present(type) + Delta(type)'
      OBVIOUS
    <3>1. Cardinality(PresentIn(info', type))
            = Cardinality(PresentIn(info, type)) + Counts(job.new, type)
              - Counts(info[job.path], type)
      <4>1. job.new \in FileRow \cup {NoRow}
        BY <2>2
      <4>2. Cardinality(PresentIn([info EXCEPT ![job.path] = job.new], type))
              = Cardinality(PresentIn(info, type)) + Counts(job.new, type)
                - Counts(info[job.path], type)
        BY <2>2, <4>1, CountOfUpdate
      <4> QED  BY <2>1, <4>2
    <3>2. Present(type)' = Present(type) + Counts(job.new, type) - Counts(info[job.path], type)
      BY <3>1 DEF Present, PresentIn
    <3>3. Delta(type)' = Counts(job.new, type) - Counts(info[job.path], type)
      BY <2>1 DEF Delta, Counts
    <3>4. Counts(job.new, type) \in Int /\ Counts(info[job.path], type) \in Int
      BY DEF Counts
    <3> QED  BY <3>2, <3>3, <3>4, PresentType
  <2>4. OrZero(row).files = Present("file") /\ OrZero(row).dirs = Present("dir")
    BY <2>1 DEF StatsInv, Exact
  <2>5. Lacking'
    BY <2>1, <2>3, <2>4 DEF Lacking, OrZero
  <2> QED  BY <2>1, <2>5 DEF StatsInv
<1>3. CASE FindStats
  <2>1. stage = "stats" /\ stage' = "row" /\ cache \in {row, Unloaded} /\ Lacking
    BY <1>3 DEF FindStats, StatsInv
  <2>2. /\ cache' = row /\ UNCHANGED <<info, row>>
        /\ job'.new = job.new /\ job'.old = job.old /\ job'.stats = row
    BY <1>3, <2>1 DEF FindStats, TypeInv, JobOK
  <2> QED  BY <2>1, <2>2, SameLacking DEF StatsInv
<1>4. CASE WriteStats
  <2>1. Lacking /\ job.stats = row /\ stage = "row"
    BY <1>4 DEF WriteStats, StatsInv
  <2>2. NewStats = [files |-> Present("file"), dirs |-> Present("dir")]
    BY <2>1 DEF NewStats, Lacking
  <2>3. StatsCheck
    BY <2>2, PresentType DEF StatsCheck
  <2>4. row' = NewStats /\ stage' = "put" /\ info' = info
    BY <1>4, <2>3 DEF WriteStats
  <2>5. OrZero(row)' = row'
    BY <2>2, <2>4, PresentType DEF OrZero, NoStats
  <2>6. Exact'
    BY <2>2, <2>4, <2>5 DEF Exact, Present
  <2> QED  BY <2>4, <2>6 DEF StatsInv
<1>5. CASE PutStats \/ PostStats
  <2>1. /\ stage \in {"put", "post"} /\ stage' \in {"post", "idle"} /\ UNCHANGED <<info, row>>
        /\ cache' = row \/ (stage = "post" /\ cache' = cache)
    BY <1>5 DEF PutStats, PostStats, TypeInv, JobOK
  <2> QED  BY <2>1, SameCounts DEF StatsInv
<1> QED  BY <1>1, <1>2, <1>3, <1>4, <1>5

LEMMA OtherStatsInv ==
  ASSUME TypeInv, StatsInv,
         \/ DropTables \/ InvalidateCache \/ OpenBrowser \/ QueryStats \/ CacheSnapshot
         \/ ShowSnapshot \/ CloseBrowser \/ Restart \/ UNCHANGED vars
  PROVE  StatsInv'
<1>1. CASE DropTables
  <2>1. stage' = "invalidate" /\ row' = NoStats /\ info' = [p \in Path |-> NoRow]
    BY <1>1 DEF DropTables
  <2>2. Cardinality(PresentIn(info', "file")) = 0 /\ Cardinality(PresentIn(info', "dir")) = 0
    <3>1. \A p \in Path : info'[p] = NoRow
      BY <2>1
    <3> QED  BY <3>1, NothingPresent
  <2>3. Present("file")' = 0 /\ Present("dir")' = 0
    BY <2>2 DEF Present, PresentIn
  <2>4. Exact'
    BY <2>1, <2>3 DEF Exact, OrZero, NoFiles
  <2> QED  BY <2>1, <2>4 DEF StatsInv
<1>2. CASE InvalidateCache
  <2>1. stage = "invalidate" /\ stage' = "idle" /\ cache' = Unloaded
        /\ UNCHANGED <<info, row, torn, stale>>
    BY <1>2 DEF InvalidateCache
  <2> QED  BY <2>1, SameCounts DEF StatsInv
<1>3. CASE \/ OpenBrowser \/ QueryStats \/ ShowSnapshot \/ CloseBrowser \/ UNCHANGED vars
  <2>1. UNCHANGED <<info, row, cache, stage, job, torn, stale>>
    BY <1>3 DEF OpenBrowser, QueryStats, ShowSnapshot, CloseBrowser, vars
  <2> QED  BY <2>1, SameCounts, SameLacking DEF StatsInv
<1>4. CASE CacheSnapshot
  <2>1. /\ UNCHANGED <<info, row, stage, job, torn>> /\ cache' = snapshot
        /\ stale' = (stale \/ (snapshot # row /\ stage \notin {"row", "put", "invalidate"}))
    BY <1>4 DEF CacheSnapshot
  <2>2. ~stale' => /\ ~stale
                   /\ stage \notin {"row", "put", "invalidate"} => cache' = row
    BY <2>1
  <2> QED  BY <2>1, <2>2, SameCounts, SameLacking DEF StatsInv
<1>5. CASE Restart
  <2>1. /\ stage' = "idle" /\ cache' = Unloaded /\ UNCHANGED <<info, row, stale>>
        /\ torn' = (torn \/ stage \in {"stats", "row"})
    BY <1>5 DEF Restart
  <2>2. ~torn' => ~torn /\ stage \notin {"stats", "row"}
    BY <2>1
  <2> QED  BY <2>1, <2>2, SameCounts DEF StatsInv
<1> QED  BY <1>1, <1>2, <1>3, <1>4, <1>5

(* Outside an update the statistics, in the table and in the cache, are    *)
(* the files and directories of the records, unless the program stopped    *)
(* within an update or findAllFolderStats cached an outdated row: adding   *)
(* what each update changes never drifts from counting.                    *)
THEOREM StatsCounted == Spec => []StatsExact
<1>1. TypeInv /\ StatsInv /\ [Next]_vars => StatsInv'
  BY UpdateStatsInv, OtherStatsInv DEF Next
<1>2. StatsInv => StatsExact
  BY DEF StatsInv, Exact, StatsExact
<1> QED  BY TypeCorrect, InitStatsInv, <1>1, <1>2, PTL DEF Spec
=============================================================================
