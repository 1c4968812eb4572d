------------------------- MODULE IndexReaderProofs -------------------------
(***************************************************************************)
(* Proofs about the two readers of the index: IndexBrowser, whose caches   *)
(* are fresh and whose preload jobs have tasks, and IndexFinder, whose     *)
(* answers are fresh.                                                      *)
(***************************************************************************)
EXTENDS IndexBrowser, IndexFinder, TLAPS

(***************************************************************************)
(* The caches of IndexBrowser.  CachedIsFresh is about the time when no    *)
(* record is being written.  While one is, a cache may hold an older value *)
(* only as long as the writer has still to clear it.                       *)
(***************************************************************************)
Load == {NoLoad} \cup [of : Cache, value : Record, live : BOOLEAN]

CacheType ==
  /\ record \in Record /\ cached \in [Cache -> Record]
  /\ load \in [Thread -> Load] /\ raced \in SUBSET Cache
  /\ writer \in {"idle", "written", "cleared", "trigger", "add"}

CacheFresh ==
  \A c \in Cache : ~WillClear(c) /\ c \notin raced => cached[c] \in {None, record}

CacheInv == CacheType /\ CacheFresh

(***************************************************************************)
(* The jobs of IndexBrowser.  A job that was found, and even one that was  *)
(* removed to be added again, still counts: its task is on the way.        *)
(***************************************************************************)
TaskOnTheWay == tasks > 0 \/ executor # "idle"

JobInv ==
  /\ tasks \in Nat
  /\ lock = "none" => found = "none"
  /\ (preloadJobs # <<>> \/ found \in {"job", "removed"}) /\ stuck = {} => TaskOnTheWay

(***************************************************************************)
(* The searches of IndexFinder.  Fresh(q, s): the result of q is one that  *)
(* the call of s may return.                                               *)
(***************************************************************************)
Fresh(q, s) == counted[q] >= begun[s] \/ q \in ahead[s]

FinderType ==
  /\ index \in Nat
  /\ caller \in [Searcher -> {"idle", "submitted", "registered", "waiting", "woken",
                              "returned", "thrown"}]
  /\ reference \in [Searcher -> Searcher \cup {Nobody}]
  /\ query \in [Searcher -> {"none", "queued", "running", "counted", "done", "failed",
                             "cancelled"}]
  /\ counted \in [Searcher -> Nat]
  /\ queue \in Seq(Searcher) /\ running \in Searcher \cup {Nobody}
  /\ events \in SUBSET (Searcher \X Searcher)
  /\ begun \in [Searcher -> Nat] /\ ahead \in [Searcher -> SUBSET Searcher]

BegunBefore == \A s \in Searcher : begun[s] <= index

(* A query that has counted is fresh for whoever listens.                  *)
CountedIsFresh ==
  \A q, s \in Searcher : query[q] \in {"counted", "done"} /\ Listening(s) => Fresh(q, s)

(* And so is a result on its way, for the listener that is to get it.  The *)
(* thread of that listener may be gone.                                    *)
Registered(s) == Listening(s) \/ caller[s] = "thrown"
EventIsFresh ==
  \A q, s \in Searcher :
    <<q, s>> \in events => term[q] = term[s] /\ Fresh(q, s) /\ Registered(s)

WokenIsFresh ==
  \A s \in Searcher :
    caller[s] = "woken" =>
      reference[s] \in Searcher /\ term[reference[s]] = term[s] /\ Fresh(reference[s], s)

SearchInv == FinderType /\ BegunBefore /\ CountedIsFresh /\ EventIsFresh /\ WokenIsFresh

(***************************************************************************)
(* The steps that change a cache.                                          *)
(***************************************************************************)

(* What a thread has begun to load is a value of a cache.                  *)
LEMMA LoadIsOfCache ==
  ASSUME CacheType, NEW t \in Thread, Loads(t)
  PROVE  load[t].of \in Cache /\ load[t].value \in Record /\ load[t].live \in BOOLEAN
<1>1. load[t] \in Load /\ load[t] # NoLoad
  BY DEF CacheType, Loads
<1> QED
  BY <1>1 DEF Load

(* A load that is made dead, or not, is still a load.                      *)
LEMMA LoadsKilled ==
  ASSUME CacheType, NEW P \in SUBSET Cache
  PROVE  [t \in Thread |-> IF load[t].of \in P THEN [load[t] EXCEPT !.live = FALSE]
                           ELSE load[t]] \in [Thread -> Load]
<1>1. SUFFICES ASSUME NEW t \in Thread, load[t].of \in P
               PROVE  [load[t] EXCEPT !.live = FALSE] \in Load
  BY DEF CacheType
<1>2. "nothing" \notin Cache
  BY DEF Cache
<1>3. load[t] # NoLoad
  BY <1>1, <1>2 DEF NoLoad
<1>4. load[t] \in [of : Cache, value : Record, live : BOOLEAN]
  BY <1>3 DEF CacheType, Load
<1> QED
  BY <1>4 DEF Load

(* A load begins: it has read the record, the caches are what they were.   *)
LEMMA BeginLoadKeeps ==
  ASSUME CacheInv, NEW t \in Thread, NEW c \in Cache, BeginLoad(t, c)
  PROVE  CacheInv'
<1>1. [of |-> c, value |-> record, live |-> TRUE] \in Load
  BY DEF CacheInv, CacheType, Load
<1>2. load' \in [Thread -> Load]
  BY <1>1 DEF BeginLoad, CacheInv, CacheType
<1>3. CacheType'
  BY <1>2 DEF BeginLoad, CacheInv, CacheType
<1>4. CacheFresh'
  BY DEF BeginLoad, CacheInv, CacheFresh, WillClear
<1> QED
  BY <1>3, <1>4 DEF CacheInv

(* A value is stored in one cache; raced says whether it was read before   *)
(* that cache was cleared.                                                 *)
LEMMA StoreKeeps ==
  ASSUME CacheInv, NEW c \in Cache, NEW value \in Record,
         cached' = [cached EXCEPT ![c] = value], raced' = Raced(c, value),
         UNCHANGED <<record, writer>>
  PROVE  CacheFresh' /\ cached' \in [Cache -> Record] /\ raced' \in SUBSET Cache
<1>1. cached \in [Cache -> Record] /\ raced \in SUBSET Cache
  BY DEF CacheInv, CacheType
<1>2. cached' \in [Cache -> Record] /\ raced' \in SUBSET Cache
  BY <1>1 DEF Raced
<1>3. ASSUME NEW d \in Cache, ~WillClear(d), d \notin raced'
      PROVE  cached'[d] \in {None, record}
  <2>1. CASE d = c
    BY <1>1, <1>3, <2>1 DEF Raced
  <2>2. CASE d # c
    <3>1. d \notin raced /\ cached'[d] = cached[d]
      BY <1>1, <1>3, <2>2 DEF Raced
    <3> QED
      BY <1>3, <3>1 DEF CacheInv, CacheFresh
  <2> QED
    BY <2>1, <2>2
<1> QED
  BY <1>2, <1>3 DEF CacheFresh, WillClear

LEMMA EndLoadKeeps ==
  ASSUME CacheInv, NEW t \in Thread, EndLoad(t)
  PROVE  CacheInv'
<1>1. load' = [load EXCEPT ![t] = NoLoad] /\ UNCHANGED <<record, writer>>
  BY DEF EndLoad
<1>2. load' \in [Thread -> Load]
  BY <1>1 DEF CacheInv, CacheType, Load
<1>3. CASE UNCHANGED <<cached, raced>>
  BY <1>1, <1>2, <1>3 DEF CacheInv, CacheType, CacheFresh, WillClear
<1>4. CASE /\ cached' = [cached EXCEPT ![load[t].of] = load[t].value]
           /\ raced' = Raced(load[t].of, load[t].value)
  <2>1. load[t].of \in Cache /\ load[t].value \in Record
    BY LoadIsOfCache DEF CacheInv, EndLoad
  <2>2. CacheFresh' /\ cached' \in [Cache -> Record] /\ raced' \in SUBSET Cache
    BY <1>1, <1>4, <2>1, StoreKeeps
  <2> QED
    BY <1>1, <1>2, <2>2 DEF CacheInv, CacheType
<1> QED
  BY <1>3, <1>4 DEF EndLoad

LEMMA PutEntriesKeeps ==
  ASSUME CacheInv, PutEntries
  PROVE  CacheInv'
<1>1. UNCHANGED <<record, writer>>
  BY DEF PutEntries
<1>2. CASE UNCHANGED cacheVars
  BY <1>1, <1>2 DEF CacheInv, CacheType, CacheFresh, WillClear, cacheVars
<1>3. CASE ~load["executor"].value.deleted
  <2> DEFINE value == load["executor"].value
  <2>1. "executor" \in Thread /\ "info" \in Cache
    BY DEF Thread, Cache
  <2>2. load["executor"] # NoLoad
    BY <1>3 DEF NoLoad, None
  <2>3. value \in Record
    BY <2>1, <2>2, LoadIsOfCache DEF CacheInv, Loads
  <2>4. /\ cached' = [cached EXCEPT !["info"] = value] /\ raced' = Raced("info", value)
        /\ load' = [t \in Thread |->
                      IF load[t].of = "info" THEN [load[t] EXCEPT !.live = FALSE] ELSE load[t]]
    BY <1>3 DEF PutEntries
  <2>5. CacheFresh' /\ cached' \in [Cache -> Record] /\ raced' \in SUBSET Cache
    BY <1>1, <2>1, <2>3, <2>4, StoreKeeps
  <2>6. load' = [t \in Thread |->
                   IF load[t].of \in {"info"} THEN [load[t] EXCEPT !.live = FALSE] ELSE load[t]]
    BY <2>4
  <2>7. load' \in [Thread -> Load]
    BY <2>1, <2>6, LoadsKilled DEF CacheInv
  <2> QED
    BY <1>1, <2>5, <2>7 DEF CacheInv, CacheType
<1> QED
  BY <1>2, <1>3 DEF PutEntries

(* The writer clears the listings first, then the infos.                   *)
LEMMA ClearKeeps ==
  ASSUME CacheInv, NEW P \in SUBSET Cache, Clear(P), UNCHANGED record,
         writer' \in {"cleared", "trigger"},
         \A c \in Cache : ~WillClear(c)' => c \in P \/ ~WillClear(c)
  PROVE  CacheInv'
<1>1. load' \in [Thread -> Load]
  BY LoadsKilled DEF Clear, CacheInv
<1>2. None \in Record
  BY DEF None, Record
<1>3. cached' \in [Cache -> Record] /\ raced' \in SUBSET Cache
  BY <1>2 DEF Clear, CacheInv, CacheType
<1>4. CacheFresh'
  <2>1. SUFFICES ASSUME NEW c \in Cache, ~WillClear(c)', c \notin raced'
                 PROVE  cached'[c] \in {None, record}
    BY DEF CacheFresh
  <2>2. CASE c \in P
    BY <2>2 DEF Clear
  <2>3. CASE c \notin P
    <3>1. cached'[c] = cached[c] /\ c \notin raced /\ ~WillClear(c)
      BY <2>1, <2>3 DEF Clear
    <3> QED
      BY <3>1 DEF CacheInv, CacheFresh
  <2> QED
    BY <2>2, <2>3
<1> QED
  BY <1>1, <1>3, <1>4 DEF CacheInv, CacheType

LEMMA ListenKeeps ==
  ASSUME CacheInv, Listen
  PROVE  CacheInv'
<1>1. CASE InvalidateList
  <2>1. /\ {"list"} \in SUBSET Cache
        /\ \A c \in Cache : ~WillClear(c)' => c \in {"list"} \/ ~WillClear(c)
    BY <1>1 DEF InvalidateList, WillClear, Cache
  <2> QED
    BY <1>1, <2>1, ClearKeeps DEF InvalidateList
<1>2. CASE InvalidateInfo
  <2>1. /\ {"info"} \in SUBSET Cache
        /\ \A c \in Cache : ~WillClear(c)' => c \in {"info"} \/ ~WillClear(c)
    BY <1>2 DEF InvalidateInfo, WillClear, Cache
  <2> QED
    BY <1>2, <2>1, ClearKeeps DEF InvalidateInfo
<1>3. CASE WriterTests \/ WriterAdds
  BY <1>3 DEF WriterTests, WriterAdds, CacheInv, CacheType, CacheFresh, WillClear, cacheVars
<1>4. CASE RemoveJob("writer")
  BY <1>4 DEF RemoveJob, CacheInv, CacheType, CacheFresh, WillClear, cacheVars
<1> QED
  BY <1>1, <1>2, <1>3, <1>4 DEF Listen

(* A record is written: the writer has now to clear both caches.           *)
LEMMA WriteKeeps ==
  ASSUME CacheInv, UpdateFileInfo
  PROVE  CacheInv'
<1>1. PICK deleted \in BOOLEAN :
        record' = [version |-> record.version + 1, deleted |-> deleted]
  BY DEF UpdateFileInfo
<1>2. record' \in Record
  BY <1>1 DEF CacheInv, CacheType, Record
<1>3. writer' = "written" /\ UNCHANGED cacheVars
  BY DEF UpdateFileInfo
<1> QED
  BY <1>2, <1>3 DEF CacheInv, CacheType, CacheFresh, WillClear, cacheVars

LEMMA ReadersKeep ==
  ASSUME CacheInv,
         RunTask \/ Navigate \/ (\E path \in Path : NavigateTo(path)) \/ WaitForCacheReady
  PROVE  CacheInv'
<1>1. Cache = {"info", "list"} /\ Thread = {"user", "executor"}
  BY DEF Cache, Thread
<1>2. CASE BeginPreload \/ EndPreload \/ PutEntries
  BY <1>1, <1>2, BeginLoadKeeps, EndLoadKeeps, PutEntriesKeeps DEF BeginPreload, EndPreload
<1>3. CASE BeginEnter \/ EndEnter
  BY <1>1, <1>3, BeginLoadKeeps, EndLoadKeeps DEF BeginEnter, EndEnter
<1>4. ASSUME UNCHANGED <<record, writer, cacheVars>>
      PROVE  CacheInv'
  BY <1>4 DEF CacheInv, CacheType, CacheFresh, WillClear, cacheVars
<1>5. CASE TakeJob \/ GetCached \/ PreloadFails \/ EndJob
  BY <1>4, <1>5 DEF TakeJob, GetCached, PreloadFails, EndJob
<1>6. CASE EnterCached \/ EnterFails \/ UserTests \/ RemoveJob("user") \/ UserAdds
  BY <1>4, <1>6 DEF EnterCached, EnterFails, UserTests, RemoveJob, UserAdds
<1>7. CASE (\E path \in Path : NavigateTo(path)) \/ WaitForCacheReady
  BY <1>4, <1>7 DEF NavigateTo, WaitForCacheReady
<1> QED
  BY <1>2, <1>3, <1>5, <1>6, <1>7 DEF RunTask, Navigate

(* When no record is being written, a cache holds what the repository      *)
(* holds, unless a load overlapped with the writing: whatever the user and *)
(* the tasks do (IndexBrowser's caches, IndexHandler.addRecord).           *)
THEOREM CachesAreFresh == Spec => []CachedIsFresh
<1>1. Init => CacheInv
  <2>1. SUFFICES ASSUME Init PROVE CacheInv
    OBVIOUS
  <2>2. record \in Record /\ None \in Record
    BY <2>1 DEF Init, Record, None
  <2>3. CacheType
    BY <2>1, <2>2 DEF Init, CacheType, Load
  <2>4. CacheFresh
    BY <2>1 DEF Init, CacheFresh
  <2> QED
    BY <2>3, <2>4 DEF CacheInv
<1>2. CacheInv /\ [Next]_vars => CacheInv'
  <2>1. CASE Next
    BY <2>1, WriteKeeps, ListenKeeps, ReadersKeep DEF Next, Write
  <2>2. CASE UNCHANGED vars
    BY <2>2 DEF vars, CacheInv, CacheType, CacheFresh, WillClear, cacheVars
  <2> QED
    BY <2>1, <2>2
<1>3. CacheInv => CachedIsFresh
  BY DEF CacheInv, CacheFresh, CachedIsFresh, WillClear
<1> QED
  BY <1>1, <1>2, <1>3, PTL DEF Spec

(***************************************************************************)
(* The jobs.                                                               *)
(***************************************************************************)

(* preloadFileInfoForCurrentPath: a job is added together with its task,   *)
(* unless one was there before, whose task is still to come.               *)
LEMMA TriggerKeeps ==
  ASSUME JobInv, NEW by \in {"user", "writer"}, TestJobs(by) \/ RemoveJob(by) \/ AddJob(by),
         UNCHANGED <<executor, stuck>>,
         TestJobs(by) => UNCHANGED <<preloadJobs, tasks>>
  PROVE  JobInv'
<1>1. CASE TestJobs(by)
  <2>1. Contains(preloadJobs, currentPath) => preloadJobs # <<>>
    BY DEF Contains
  <2> QED
    BY <1>1, <2>1 DEF TestJobs, JobInv, TaskOnTheWay
<1>2. CASE RemoveJob(by)
  BY <1>2 DEF RemoveJob, JobInv, TaskOnTheWay, taskVars
<1>3. CASE AddJob(by)
  BY <1>3 DEF AddJob, JobInv, TaskOnTheWay
<1> QED
  BY <1>1, <1>2, <1>3

LEMMA TaskKeeps ==
  ASSUME JobInv, RunTask
  PROVE  JobInv'
<1>1. CASE TakeJob
  BY <1>1 DEF TakeJob, JobInv, TaskOnTheWay
<1>2. CASE GetCached \/ BeginPreload \/ PutEntries \/ EndPreload
  <2>1. UNCHANGED <<jobVars, stuck>>
    BY <1>2 DEF GetCached, BeginPreload, BeginLoad, PutEntries, EndPreload, EndLoad
  <2>2. executor' # "idle"
    BY <1>2 DEF GetCached, BeginPreload, PutEntries, EndPreload, AfterGet
  <2> QED
    BY <2>1, <2>2 DEF JobInv, TaskOnTheWay, jobVars
<1>3. CASE PreloadFails
  BY <1>3 DEF PreloadFails, JobInv, jobVars
<1>4. CASE EndJob
  BY <1>4 DEF EndJob, JobInv, TaskOnTheWay
<1> QED
  BY <1>1, <1>2, <1>3, <1>4 DEF RunTask

LEMMA UserKeeps ==
  ASSUME JobInv, Navigate
  PROVE  JobInv'
<1>1. CASE UserTests \/ RemoveJob("user") \/ UserAdds
  <2>1. TestJobs("user") \/ RemoveJob("user") \/ AddJob("user")
    BY <1>1 DEF UserTests, UserAdds
  <2>2. UNCHANGED <<executor, stuck>>
    BY <1>1 DEF UserTests, UserAdds, RemoveJob, taskVars
  <2>3. TestJobs("user") => UNCHANGED <<preloadJobs, tasks>>
    BY <1>1 DEF UserTests, UserAdds, RemoveJob, AddJob, TestJobs
  <2> QED
    BY <2>1, <2>2, <2>3, TriggerKeeps
<1>2. CASE EnterCached \/ BeginEnter \/ EndEnter \/ EnterFails
  <2>1. UNCHANGED <<jobVars, taskVars>>
    BY <1>2 DEF EnterCached, BeginEnter, BeginLoad, EndEnter, EndLoad, EnterFails, Enter
  <2> QED
    BY <2>1 DEF JobInv, TaskOnTheWay, jobVars, taskVars
<1> QED
  BY <1>1, <1>2 DEF Navigate

LEMMA WriterKeeps ==
  ASSUME JobInv, Listen
  PROVE  JobInv'
<1>1. CASE WriterTests \/ RemoveJob("writer") \/ WriterAdds
  <2>1. TestJobs("writer") \/ RemoveJob("writer") \/ AddJob("writer")
    BY <1>1 DEF WriterTests, WriterAdds
  <2>2. UNCHANGED <<executor, stuck>>
    BY <1>1 DEF WriterTests, WriterAdds, RemoveJob, taskVars
  <2>3. TestJobs("writer") => UNCHANGED <<preloadJobs, tasks>>
    BY <1>1 DEF WriterTests, WriterAdds, RemoveJob, AddJob, TestJobs
  <2> QED
    BY <2>1, <2>2, <2>3, TriggerKeeps
<1>2. CASE InvalidateList \/ InvalidateInfo
  BY <1>2 DEF InvalidateList, InvalidateInfo, JobInv, TaskOnTheWay, jobVars, taskVars
<1> QED
  BY <1>1, <1>2 DEF Listen

(* Every job has a task that will come to it, however the user, the writer *)
(* and the tasks interleave (preloadJobs and executorService).             *)
THEOREM NoJobIsForgotten == Spec => []JobsHaveTasks
<1>1. Init => JobInv
  BY DEF Init, JobInv
<1>2. JobInv /\ [Next]_vars => JobInv'
  <2>1. CASE Write \/ (\E path \in Path : NavigateTo(path)) \/ WaitForCacheReady
    BY <2>1 DEF Write, UpdateFileInfo, NavigateTo, WaitForCacheReady, JobInv, TaskOnTheWay,
                jobVars, taskVars
  <2>2. CASE UNCHANGED vars
    BY <2>2 DEF vars, JobInv, TaskOnTheWay, jobVars, taskVars
  <2> QED
    BY <2>1, <2>2, TaskKeeps, UserKeeps, WriterKeeps DEF Next
<1>3. JobInv => JobsHaveTasks
  BY DEF JobInv, JobsHaveTasks, TaskOnTheWay
<1> QED
  BY <1>1, <1>2, <1>3, PTL DEF Spec

(***************************************************************************)
(* The searches.                                                           *)
(***************************************************************************)

(* A thread that submits its query listens already, or never does; the     *)
(* query is one that has not counted.                                      *)
LEMMA SubmitKeeps ==
  ASSUME SearchInv, NEW s \in Searcher, NEW next \in {"submitted", "waiting"},
         SubmitSearch(s, next),
         next = "waiting" => caller[s] = "registered",
         next = "submitted" => caller[s] = "idle"
  PROVE  SearchInv'
<1>1. FinderType'
  <2>1. queue' \in Seq(Searcher)
    <3>1. queue \in Seq(Searcher) /\ (queue' = queue \/ queue' = Append(queue, s))
      BY DEF SubmitSearch, SearchInv, FinderType
    <3> QED
      BY <3>1
  <2>2. query' \in [Searcher -> {"none", "queued", "running", "counted", "done", "failed",
                                 "cancelled"}]
    BY DEF SubmitSearch, SearchInv, FinderType
  <2>3. caller' \in [Searcher -> {"idle", "submitted", "registered", "waiting", "woken",
                                  "returned", "thrown"}]
    BY DEF SubmitSearch, SearchInv, FinderType
  <2> QED
    BY <2>1, <2>2, <2>3 DEF SubmitSearch, SearchInv, FinderType
<1>2. /\ \A q \in Searcher : query'[q] \in {"counted", "done"} => query[q] = query'[q]
      /\ UNCHANGED <<index, counted, begun, ahead, events, reference>>
  BY DEF SubmitSearch, SearchInv, FinderType
<1>3. \A t \in Searcher : \/ caller'[t] = caller[t]
                          \/ t = s /\ caller'[t] \in {next, "thrown"}
  BY DEF SubmitSearch, SearchInv, FinderType
<1>4. \A t \in Searcher : /\ Listening(t)' => Listening(t)
                          /\ caller'[t] = "woken" => caller[t] = "woken"
                          /\ Registered(t) => Registered(t)'
  BY <1>3 DEF Listening, Registered
<1>5. \A q, t \in Searcher : Fresh(q, t)' <=> Fresh(q, t)
  BY <1>2 DEF Fresh
<1>6. BegunBefore'
  BY <1>2 DEF SearchInv, BegunBefore
<1>7. CountedIsFresh'
  BY <1>2, <1>4, <1>5 DEF SearchInv, CountedIsFresh
<1>8. EventIsFresh'
  BY <1>2, <1>4, <1>5 DEF SearchInv, EventIsFresh
<1>9. WokenIsFresh'
  BY <1>2, <1>4, <1>5 DEF SearchInv, WokenIsFresh
<1> QED
  BY <1>1, <1>6, <1>7, <1>8, <1>9 DEF SearchInv

(* What has counted by then may be older than the call: it is ahead of it. *)
LEMMA RegisterKeeps ==
  ASSUME SearchInv, NEW s \in Searcher, Register(s)
  PROVE  SearchInv'
<1> DEFINE Ran == {q \in Searcher : query[q] \in {"running", "counted", "done"}}
<1>1. /\ caller[s] = "idle" /\ caller' = [caller EXCEPT ![s] = "registered"]
      /\ begun' = [begun EXCEPT ![s] = index] /\ ahead' = [ahead EXCEPT ![s] = Ran]
      /\ UNCHANGED <<index, query, counted, events, reference, queue, running>>
  BY DEF Register, queryVars
<1>2. FinderType'
  BY <1>1 DEF SearchInv, FinderType
<1>3. \A t \in Searcher \ {s} :
        caller'[t] = caller[t] /\ begun'[t] = begun[t] /\ ahead'[t] = ahead[t]
  BY <1>1 DEF SearchInv, FinderType
<1>4. caller'[s] = "registered" /\ begun'[s] = index /\ ahead'[s] = Ran
  BY <1>1 DEF SearchInv, FinderType
<1>5. BegunBefore'
  BY <1>1, <1>3, <1>4 DEF SearchInv, FinderType, BegunBefore
<1>6. \A q \in Searcher, t \in Searcher \ {s} : Fresh(q, t)' <=> Fresh(q, t)
  BY <1>1, <1>3 DEF Fresh
<1>7. \A q \in Searcher : query[q] \in {"counted", "done"} => Fresh(q, s)'
  BY <1>4 DEF Fresh
<1>8. \A t \in Searcher \ {s} : Listening(t)' <=> Listening(t)
  BY <1>3 DEF Listening
<1>9. CountedIsFresh'
  BY <1>1, <1>6, <1>7, <1>8 DEF SearchInv, CountedIsFresh
<1>10. EventIsFresh'
  <2>1. ~Registered(s)
    BY <1>1 DEF Registered, Listening
  <2> QED
    BY <1>1, <1>3, <1>6, <2>1 DEF SearchInv, EventIsFresh, Registered, Listening
<1>11. WokenIsFresh'
  BY <1>1, <1>3, <1>4, <1>6 DEF SearchInv, WokenIsFresh
<1> QED
  BY <1>2, <1>5, <1>9, <1>10, <1>11 DEF SearchInv

LEMMA ReturnKeeps ==
  ASSUME SearchInv, NEW s \in Searcher, Return(s)
  PROVE  SearchInv'
<1>1. /\ caller' = [caller EXCEPT ![s] = "returned"]
      /\ reference' = [reference EXCEPT ![s] = Nobody]
      /\ events' = {e \in events : e[2] # s}
      /\ begun' = [begun EXCEPT ![s] = 0] /\ ahead' = [ahead EXCEPT ![s] = {}]
      /\ UNCHANGED <<index, query, counted, queue, running>>
  BY DEF Return, queryVars
<1>2. FinderType'
  BY <1>1 DEF SearchInv, FinderType
<1>3. \A t \in Searcher \ {s} : /\ caller'[t] = caller[t] /\ reference'[t] = reference[t]
                                /\ begun'[t] = begun[t] /\ ahead'[t] = ahead[t]
  BY <1>1 DEF SearchInv, FinderType
<1>4. caller'[s] = "returned" /\ begun'[s] = 0
  BY <1>1 DEF SearchInv, FinderType
<1>5. BegunBefore'
  BY <1>1, <1>3, <1>4 DEF SearchInv, FinderType, BegunBefore
<1>6. \A q \in Searcher, t \in Searcher \ {s} : Fresh(q, t)' <=> Fresh(q, t)
  BY <1>1, <1>3 DEF Fresh
<1>7. CountedIsFresh'
  BY <1>1, <1>3, <1>4, <1>6 DEF SearchInv, CountedIsFresh, Listening
<1>8. EventIsFresh'
  <2>1. \A q, t \in Searcher : <<q, t>> \in events' => <<q, t>> \in events /\ t # s
    BY <1>1
  <2> QED
    BY <2>1, <1>3, <1>6 DEF SearchInv, EventIsFresh, Registered, Listening
<1>9. WokenIsFresh'
  BY <1>3, <1>4, <1>6 DEF SearchInv, WokenIsFresh
<1> QED
  BY <1>2, <1>5, <1>7, <1>8, <1>9 DEF SearchInv

(* A result is given to the thread whose listener gets it.                 *)
LEMMA HandleKeeps ==
  ASSUME SearchInv, NEW q \in Searcher, NEW s \in Searcher, HandleResult(q, s)
  PROVE  SearchInv'
<1>1. /\ <<q, s>> \in events /\ caller[s] # "registered"
      /\ events' = events \ {<<q, s>>} /\ reference' = [reference EXCEPT ![s] = q]
      /\ caller' = [caller EXCEPT ![s] = IF @ = "thrown" THEN @ ELSE "woken"]
      /\ UNCHANGED <<index, query, counted, queue, running, begun, ahead>>
  BY DEF HandleResult, Notify, queryVars
<1>2. FinderType'
  BY <1>1 DEF SearchInv, FinderType
<1>3. \A t \in Searcher \ {s} : caller'[t] = caller[t] /\ reference'[t] = reference[t]
  BY <1>1 DEF SearchInv, FinderType
<1>4. /\ caller'[s] = IF caller[s] = "thrown" THEN "thrown" ELSE "woken"
      /\ reference'[s] = q
  BY <1>1 DEF SearchInv, FinderType
<1>5. \A p, t \in Searcher : Fresh(p, t)' <=> Fresh(p, t)
  BY <1>1 DEF Fresh
<1>6. term[q] = term[s] /\ Fresh(q, s) /\ Registered(s)
  BY <1>1 DEF SearchInv, EventIsFresh
<1>7. BegunBefore'
  BY <1>1 DEF SearchInv, BegunBefore
<1>8. \A t \in Searcher : /\ Registered(t) => Registered(t)'
                          /\ Listening(t)' => Listening(t)
  BY <1>3, <1>4, <1>6 DEF Registered, Listening
<1>9. CountedIsFresh' /\ EventIsFresh'
  BY <1>1, <1>5, <1>8 DEF SearchInv, CountedIsFresh, EventIsFresh
<1>10. WokenIsFresh'
  BY <1>3, <1>4, <1>5, <1>6 DEF SearchInv, WokenIsFresh
<1> QED
  BY <1>2, <1>7, <1>9, <1>10 DEF SearchInv

(* A query counts what is there now: no call has begun later.              *)
LEMMA CountKeeps ==
  ASSUME SearchInv, CountMatches
  PROVE  SearchInv'
<1>1. /\ running \in Searcher
      /\ counted' = [counted EXCEPT ![running] = index]
      /\ query' = [query EXCEPT ![running] = "counted"]
      /\ UNCHANGED <<index, callVars, queue, running, events>>
  BY DEF CountMatches, SearchInv, FinderType
<1>2. FinderType'
  BY <1>1 DEF SearchInv, FinderType, callVars
<1>3. /\ counted'[running] = index
      /\ \A q \in Searcher \ {running} : counted'[q] = counted[q] /\ query'[q] = query[q]
  BY <1>1 DEF SearchInv, FinderType
<1>4. \A s \in Searcher : Fresh(running, s)'
  BY <1>1, <1>3 DEF SearchInv, BegunBefore, Fresh, FinderType, callVars
<1>5. \A q, s \in Searcher : Fresh(q, s) => Fresh(q, s)'
  BY <1>1, <1>3, <1>4 DEF Fresh, callVars
<1>6. BegunBefore'
  BY <1>1 DEF SearchInv, BegunBefore, callVars
<1>7. CountedIsFresh'
  BY <1>1, <1>3, <1>4, <1>5 DEF SearchInv, CountedIsFresh, Listening, callVars
<1>8. EventIsFresh'
  BY <1>1, <1>5 DEF SearchInv, EventIsFresh, Registered, Listening, callVars
<1>9. WokenIsFresh'
  BY <1>1, <1>5 DEF SearchInv, WokenIsFresh, callVars
<1> QED
  BY <1>2, <1>6, <1>7, <1>8, <1>9 DEF SearchInv

LEMMA PostKeeps ==
  ASSUME SearchInv, PostResult
  PROVE  SearchInv'
<1>1. /\ running \in Searcher /\ query[running] = "counted"
      /\ query' = [query EXCEPT ![running] = "done"]
      /\ UNCHANGED <<index, callVars, counted, queue>>
      /\ running' = Nobody
  BY DEF PostResult, SearchInv, FinderType
<1>2. \A q, s \in Searcher :
        <<q, s>> \in events' => \/ <<q, s>> \in events
                                \/ q = running /\ Listening(s) /\ term[q] = term[s]
  BY DEF PostResult, Accepts
<1>3. events' \in SUBSET (Searcher \X Searcher)
  BY <1>1 DEF PostResult, SearchInv, FinderType
<1>4. FinderType'
  BY <1>1, <1>3 DEF SearchInv, FinderType, callVars
<1>5. \A q \in Searcher : query'[q] \in {"counted", "done"} => query[q] \in {"counted", "done"}
  BY <1>1 DEF SearchInv, FinderType
<1>6. \A q, s \in Searcher : Fresh(q, s)' <=> Fresh(q, s)
  BY <1>1 DEF Fresh, callVars
<1>7. \A s \in Searcher : caller'[s] = caller[s] /\ reference'[s] = reference[s]
  BY <1>1 DEF callVars
<1>8. BegunBefore'
  BY <1>1 DEF SearchInv, BegunBefore, callVars
<1>9. CountedIsFresh'
  BY <1>5, <1>6, <1>7 DEF SearchInv, CountedIsFresh, Listening
<1>10. EventIsFresh'
  BY <1>1, <1>2, <1>6, <1>7 DEF SearchInv, EventIsFresh, CountedIsFresh, Registered, Listening
<1>11. WokenIsFresh'
  BY <1>6, <1>7 DEF SearchInv, WokenIsFresh
<1> QED
  BY <1>4, <1>8, <1>9, <1>10, <1>11 DEF SearchInv

(* The steps after which no query has counted that had not before.         *)
LEMMA OtherStepsKeep ==
  ASSUME SearchInv, TakeQuery \/ QueryFails \/ ChangeIndex \/ Close \/ UNCHANGED finderVars
  PROVE  SearchInv'
<1>1. UNCHANGED <<callVars, counted, events>>
  BY DEF TakeQuery, QueryFails, ChangeIndex, Close, finderVars, queryVars
<1>2. /\ queue' \in Seq(Searcher) /\ running' \in Searcher \cup {Nobody}
      /\ query' \in [Searcher -> {"none", "queued", "running", "counted", "done", "failed",
                                  "cancelled"}]
      /\ \A q \in Searcher : query'[q] \in {"counted", "done"} => query[q] = query'[q]
  <2>1. CASE TakeQuery
    <3>1. Head(queue) \in Searcher /\ Tail(queue) \in Seq(Searcher)
      BY <2>1 DEF TakeQuery, SearchInv, FinderType
    <3> QED
      BY <2>1, <3>1 DEF TakeQuery, SearchInv, FinderType
  <2>2. CASE QueryFails
    BY <2>2 DEF QueryFails, SearchInv, FinderType
  <2>3. CASE ChangeIndex \/ Close \/ UNCHANGED finderVars
    BY <2>3 DEF ChangeIndex, Close, finderVars, queryVars, SearchInv, FinderType
  <2> QED
    BY <2>1, <2>2, <2>3
<1>3. index' \in Nat /\ index' >= index
  BY DEF TakeQuery, QueryFails, ChangeIndex, Close, finderVars, SearchInv, FinderType
<1>4. FinderType'
  BY <1>1, <1>2, <1>3 DEF SearchInv, FinderType, callVars
<1>5. BegunBefore'
  BY <1>1, <1>3 DEF SearchInv, BegunBefore, FinderType, callVars
<1>6. \A q, s \in Searcher : Fresh(q, s)' <=> Fresh(q, s)
  BY <1>1 DEF Fresh, callVars
<1>7. CountedIsFresh'
  BY <1>1, <1>2, <1>6 DEF SearchInv, CountedIsFresh, Listening, callVars
<1>8. EventIsFresh'
  BY <1>1, <1>6 DEF SearchInv, EventIsFresh, Registered, Listening, callVars
<1>9. WokenIsFresh'
  BY <1>1, <1>6 DEF SearchInv, WokenIsFresh, callVars
<1> QED
  BY <1>4, <1>5, <1>7, <1>8, <1>9 DEF SearchInv

LEMMA SearchInvKept ==
  SearchInv /\ [FinderNext]_finderVars => SearchInv'
<1>1. SUFFICES ASSUME SearchInv, [FinderNext]_finderVars
               PROVE  SearchInv'
  OBVIOUS
<1>2. ASSUME NEW s \in Searcher, Search(s) \/ Submit(s)
      PROVE  SearchInv'
  BY <1>1, <1>2, SubmitKeeps DEF Search, Submit
<1>3. ASSUME NEW s \in Searcher, Register(s) \/ Return(s) \/ \E q \in Searcher : HandleResult(q, s)
      PROVE  SearchInv'
  BY <1>1, <1>3, RegisterKeeps, ReturnKeeps, HandleKeeps
<1>4. CASE CountMatches \/ PostResult
  BY <1>1, <1>4, CountKeeps, PostKeeps
<1>5. CASE TakeQuery \/ QueryFails \/ ChangeIndex \/ Close \/ UNCHANGED finderVars
  BY <1>1, <1>5, OtherStepsKeep
<1> QED
  BY <1>1, <1>2, <1>3, <1>4, <1>5 DEF FinderNext, RunQuery, Step

(* What doSearch returns is for its term and no older than the call, or    *)
(* than the query that ran when the call began, whoever submitted it       *)
(* (IndexFinder.doSearch, handleSearchCompletedEvent).                     *)
THEOREM AnswersAreFresh == FinderSpec => AnswerIsFresh
<1>1. FinderInit => SearchInv
  BY DEF FinderInit, SearchInv, FinderType, BegunBefore, CountedIsFresh, EventIsFresh,
         WokenIsFresh, Fresh
<1>2. ASSUME SearchInv
      PROVE  [\A s \in Searcher :
                caller[s] = "woken" /\ caller'[s] = "returned" =>
                  LET q == reference[s]
                  IN  /\ term[q] = term[s]
                      /\ counted[q] >= begun[s] \/ q \in ahead[s]]_finderVars
  BY <1>2 DEF SearchInv, WokenIsFresh, Fresh
<1> QED
  BY <1>1, <1>2, SearchInvKept, PTL DEF FinderSpec, AnswerIsFresh
=============================================================================
