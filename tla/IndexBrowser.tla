---------------------------- MODULE IndexBrowser ----------------------------
(***************************************************************************)
(* IndexBrowser: a user walks through a folder while the index of the      *)
(* folder changes.  Listings and file infos are cached; each change of the *)
(* index clears both caches and triggers a preload of the current path.    *)
(*                                                                         *)
(* The folder is Root with one entry, the directory Dir, whose record the  *)
(* writer replaces, or deletes.  Threads: the user's, the single thread of *)
(* executorService, and the one that writes records (IndexHandler          *)
(* .addRecord), which runs the listener of the browser.  The caches are    *)
(* Guava's, external: a load reads the repository and then stores what it  *)
(* has read, also when the cache was cleared in between.                   *)
(***************************************************************************)
EXTENDS Naturals, Sequences, SequencesExt

CONSTANTS
  MaxWrites,       \* bound: records written
  MaxNavigations   \* bound: paths the user goes to

ASSUME IndexBrowserAssumption == MaxWrites \in Nat /\ MaxNavigations \in Nat

Path == {"root", "dir"}
(* fileInfoCache of Dir, listFolderCache of Root: what they hold is the    *)
(* record of Dir.                                                          *)
Cache == {"info", "list"}
Thread == {"user", "executor"}
Record == [version : Nat, deleted : BOOLEAN]
None == [version |-> 0, deleted |-> TRUE]

VARIABLES
  record,       \* the record of Dir in the repository
  writer,       \* where addRecord is
  cached,       \* the value of each cache, None if absent
  load,         \* the load that each thread is in: of a cache, what it read, and
                \* whether its entry is still in the cache
  raced,        \* history: caches with a value that was read before it was cleared
  currentPath,
  preloadJobs,  \* the last one is the next
  lock,         \* who is in preloadFileInfoForCurrentPath, between its reads of
                \* currentPath: "user", "writer" or "none"
  found,        \* what they came upon: a "job", one that they "removed", or "none"
  tasks,        \* tasks queued in executorService
  executor,     \* where the running task is
  preloadPath,  \* its path
  stuck,        \* history: paths whose task threw, and is not done since
  user,         \* where the user's thread is
  navigations

cacheVars == <<cached, load, raced>>
jobVars == <<preloadJobs, lock, found, tasks>>
taskVars == <<executor, preloadPath, stuck>>
userVars == <<currentPath, user, navigations>>
vars == <<record, writer, cacheVars, jobVars, taskVars, userVars>>

NoLoad == [of |-> "nothing", value |-> None, live |-> FALSE]

Init ==
  /\ record = [version |-> 1, deleted |-> FALSE] /\ writer = "idle"
  /\ cached = [c \in Cache |-> None] /\ load = [t \in Thread |-> NoLoad] /\ raced = {}
  /\ currentPath = "root" /\ preloadJobs = <<>> /\ lock = "none" /\ found = "none"
  /\ tasks = 0 /\ executor = "idle" /\ preloadPath = "root" /\ stuck = {}
  /\ user = "idle" /\ navigations = 0

(***************************************************************************)
(* The caches.                                                             *)
(***************************************************************************)

Loads(t) == load[t] # NoLoad
LoadedBy(t, c) == load[t].of = c /\ load[t].live

(* A value absent from the cache is read from the repository, by the first *)
(* thread that asks; the others wait for its load.  The load of a deleted  *)
(* record throws (checkNotNull), a listing does not.                       *)
BeginLoad(t, c) ==
  /\ ~Loads(t) /\ cached[c] = None /\ \A s \in Thread : ~LoadedBy(s, c)
  /\ c = "info" => ~record.deleted
  /\ load' = [load EXCEPT ![t] = [of |-> c, value |-> record, live |-> TRUE]]
  /\ UNCHANGED <<record, writer, cached, raced, jobVars>>

(* Whether the writer has still to clear the cache for the record it wrote.*)
WillClear(c) == writer = "written" \/ (writer = "cleared" /\ c = "info")
Raced(c, value) ==
  IF value # record /\ ~WillClear(c) THEN raced \cup {c} ELSE raced \ {c}

(* A value is stored unless another took its place since its load began.   *)
EndLoad(t) ==
  /\ Loads(t)
  /\ LET c == load[t].of
         value == load[t].value
         free == cached[c] = None /\ \A s \in Thread : ~LoadedBy(s, c)
     IN  IF load[t].live \/ free
         THEN cached' = [cached EXCEPT ![c] = value] /\ raced' = Raced(c, value)
         ELSE UNCHANGED <<cached, raced>>
  /\ load' = [load EXCEPT ![t] = NoLoad]
  /\ UNCHANGED <<record, writer, jobVars>>

(* doListFiles puts the infos of the entries, before the listing itself is *)
(* stored.  What is put takes the place of what is being loaded.           *)
PutEntries ==
  /\ executor = "put"
  /\ LET value == load["executor"].value
     IN  IF value.deleted THEN UNCHANGED cacheVars
         ELSE /\ cached' = [cached EXCEPT !["info"] = value]
              /\ raced' = Raced("info", value)
              /\ load' = [t \in Thread |->
                            IF load[t].of = "info" THEN [load[t] EXCEPT !.live = FALSE]
                            ELSE load[t]]
  /\ executor' = "store"
  /\ UNCHANGED <<record, writer, jobVars, preloadPath, stuck, userVars>>

(***************************************************************************)
(* preloadFileInfoForCurrentPath, with preloadJobsLock.  currentPath is    *)
(* read by each of contains, remove and add; the user may change it in     *)
(* between.  An addition leaves a job that is there where it is.           *)
(***************************************************************************)
Without(path) == SelectSeq(preloadJobs, LAMBDA p : p # path)

TestJobs(by) ==
  /\ lock = "none"
  /\ lock' = by
  /\ found' = IF Contains(preloadJobs, currentPath) THEN "job" ELSE "none"

RemoveJob(by) ==
  /\ lock = by /\ found = "job"
  /\ preloadJobs' = Without(currentPath)
  /\ found' = "removed"
  /\ UNCHANGED <<record, writer, cacheVars, lock, tasks, taskVars, userVars>>

AddJob(by) ==
  /\ lock = by /\ found # "job"
  /\ preloadJobs' = IF Contains(preloadJobs, currentPath) THEN preloadJobs
                    ELSE Append(preloadJobs, currentPath)
  /\ tasks' = IF found = "removed" THEN tasks ELSE tasks + 1
  /\ lock' = "none" /\ found' = "none"

(***************************************************************************)
(* IndexHandler.addRecord: the record is written, the listener clears one  *)
(* cache, then the other, then triggers a preload.                         *)
(***************************************************************************)
UpdateFileInfo ==
  /\ writer = "idle" /\ record.version <= MaxWrites
  /\ \E deleted \in BOOLEAN :
       record' = [version |-> record.version + 1, deleted |-> deleted]
  /\ writer' = "written"
  /\ UNCHANGED <<cacheVars, jobVars, taskVars, userVars>>

Clear(caches) ==
  /\ cached' = [c \in Cache |-> IF c \in caches THEN None ELSE cached[c]]
  /\ raced' = raced \ caches
  /\ load' = [t \in Thread |->
                IF load[t].of \in caches THEN [load[t] EXCEPT !.live = FALSE] ELSE load[t]]

InvalidateNothing ==
  /\ writer = "written"
  /\ writer' = "cleared"
  /\ UNCHANGED <<record, cacheVars, jobVars, taskVars, userVars>>
InvalidateList ==
  /\ writer = "written"
  /\ Clear({"list"})
  /\ writer' = "cleared"
  /\ UNCHANGED <<record, jobVars, taskVars, userVars>>
InvalidateInfo ==
  /\ writer = "cleared"
  /\ Clear({"info"})
  /\ writer' = "trigger"
  /\ UNCHANGED <<record, jobVars, taskVars, userVars>>

WriterTests ==
  /\ writer = "trigger"
  /\ TestJobs("writer")
  /\ writer' = "add"
  /\ UNCHANGED <<record, cacheVars, preloadJobs, tasks, taskVars, userVars>>
WriterAdds ==
  /\ writer = "add"
  /\ AddJob("writer")
  /\ writer' = "idle"
  /\ UNCHANGED <<record, cacheVars, taskVars, userVars>>

(***************************************************************************)
(* The task.                                                               *)
(***************************************************************************)

(* The last job is taken; a task that finds none throws, and is gone.      *)
TakeJob ==
  /\ executor = "idle" /\ tasks > 0 /\ lock = "none"
  /\ tasks' = tasks - 1
  /\ IF preloadJobs = <<>> THEN UNCHANGED <<executor, preloadPath>>
     ELSE /\ preloadPath' = Last(preloadJobs)
          /\ executor' = IF Last(preloadJobs) = "root" THEN "list" ELSE "info"
  /\ UNCHANGED <<record, writer, cacheVars, preloadJobs, lock, found, stuck, userVars>>

(* The info of the path, unless it is the root, then the listing of the    *)
(* root, as parent or as the path itself.                                  *)
AfterGet == IF executor \in {"info", "loadInfo"} THEN "list" ELSE "end"
GetCached ==
  /\ executor \in {"info", "list"} /\ cached[executor] # None
  /\ executor' = AfterGet
  /\ UNCHANGED <<record, writer, cacheVars, jobVars, preloadPath, stuck, userVars>>
BeginPreload ==
  /\ executor \in {"info", "list"}
  /\ BeginLoad("executor", executor)
  /\ executor' = IF executor = "info" THEN "loadInfo" ELSE "put"
  /\ UNCHANGED <<preloadPath, stuck, userVars>>
EndPreload ==
  /\ executor \in {"loadInfo", "store"}
  /\ EndLoad("executor")
  /\ executor' = AfterGet
  /\ UNCHANGED <<preloadPath, stuck, userVars>>

(* Dir is deleted: the task throws and its path stays in preloadJobs.      *)
PreloadFails ==
  /\ executor = "info" /\ cached["info"] = None /\ record.deleted
  /\ executor' = "idle"
  /\ stuck' = stuck \cup {preloadPath}
  /\ UNCHANGED <<record, writer, cacheVars, jobVars, preloadPath, userVars>>

NotifyReady == user' = IF user = "waiting" THEN "woken" ELSE user

(* The job is removed; the task submits itself while jobs are left.        *)
EndQuietly ==
  /\ executor = "end" /\ lock = "none"
  /\ executor' = "idle" /\ stuck' = stuck \ {preloadPath}
  /\ preloadJobs' = Without(preloadPath)
  /\ IF preloadJobs' = <<>> THEN NotifyReady ELSE UNCHANGED user
  /\ UNCHANGED <<record, writer, cacheVars, lock, found, tasks, preloadPath, currentPath,
                 navigations>>
EndForgetsNotify ==
  /\ executor = "end" /\ lock = "none"
  /\ executor' = "idle" /\ stuck' = stuck \ {preloadPath}
  /\ preloadJobs' = Without(preloadPath)
  /\ tasks' = IF preloadJobs' = <<>> THEN tasks ELSE tasks + 1
  /\ UNCHANGED <<record, writer, cacheVars, lock, found, preloadPath, userVars>>
EndJob ==
  /\ executor = "end" /\ lock = "none"
  /\ executor' = "idle" /\ stuck' = stuck \ {preloadPath}
  /\ preloadJobs' = Without(preloadPath)
  /\ IF preloadJobs' = <<>> THEN NotifyReady /\ UNCHANGED tasks
     ELSE tasks' = tasks + 1 /\ UNCHANGED user
  /\ UNCHANGED <<record, writer, cacheVars, lock, found, preloadPath, currentPath,
                 navigations>>

(***************************************************************************)
(* The user.                                                               *)
(***************************************************************************)
NavigateTo(path) ==
  /\ user = "idle" /\ navigations < MaxNavigations
  /\ navigations' = navigations + 1
  /\ user' = IF path = "root" THEN "trigger" ELSE "load"
  /\ currentPath' = IF path = "root" THEN path ELSE currentPath
  /\ UNCHANGED <<record, writer, cacheVars, jobVars, taskVars>>

(* The info of the path is taken from the cache, or loaded; without it the *)
(* user stays where it is.                                                 *)
Enter == user' = "trigger" /\ currentPath' = "dir" /\ UNCHANGED <<taskVars, navigations>>
EnterCached ==
  /\ user = "load" /\ cached["info"] # None
  /\ Enter
  /\ UNCHANGED <<record, writer, cacheVars, jobVars>>
BeginEnter ==
  /\ user = "load"
  /\ BeginLoad("user", "info")
  /\ user' = "loading"
  /\ UNCHANGED <<taskVars, currentPath, navigations>>
EndEnter == user = "loading" /\ EndLoad("user") /\ Enter
EnterFails ==
  /\ user = "load" /\ cached["info"] = None /\ record.deleted
  /\ user' = "idle"
  /\ UNCHANGED <<record, writer, cacheVars, jobVars, taskVars, currentPath, navigations>>

UserTests ==
  /\ user = "trigger"
  /\ TestJobs("user")
  /\ user' = "add"
  /\ UNCHANGED <<record, writer, cacheVars, preloadJobs, tasks, taskVars, currentPath,
                 navigations>>
UserAdds ==
  /\ user = "add"
  /\ AddJob("user")
  /\ user' = "idle"
  /\ UNCHANGED <<record, writer, cacheVars, taskVars, currentPath, navigations>>

(* waitForCacheReady: while (!isCacheReady()) preloadJobsLock.wait();      *)
WaitForCacheReady ==
  /\ user \in {"idle", "woken"} /\ lock = "none"
  /\ user' = IF preloadJobs = <<>> THEN "idle" ELSE "waiting"
  /\ UNCHANGED <<record, writer, cacheVars, jobVars, taskVars, currentPath, navigations>>

Write == UpdateFileInfo
Listen == InvalidateList \/ InvalidateInfo \/ WriterTests \/ RemoveJob("writer") \/ WriterAdds
RunTask == \/ TakeJob \/ GetCached \/ BeginPreload \/ PutEntries \/ EndPreload
           \/ PreloadFails \/ EndJob
Navigate == \/ EnterCached \/ BeginEnter \/ EndEnter \/ EnterFails
            \/ UserTests \/ RemoveJob("user") \/ UserAdds

Next ==
  \/ Write \/ Listen \/ RunTask \/ Navigate
  \/ \E path \in Path : NavigateTo(path)
  \/ WaitForCacheReady

Spec == Init /\ [][Next]_vars

(* The threads run; nothing is assumed of what the user asks for.          *)
FairSpec == Spec /\ WF_vars(Listen) /\ WF_vars(RunTask) /\ WF_vars(Navigate)
              /\ WF_vars(user = "woken" /\ WaitForCacheReady)

(***************************************************************************)
(* Properties.                                                             *)
(***************************************************************************)

(* When no record is being written, a cache holds what the repository      *)
(* holds: the listener clears both caches after the record was written.    *)
(* Unless a load read the record before it was written and stored it after *)
(* the cache was cleared.                                                  *)
CachedIsFresh ==
  \A c \in Cache :
    writer \in {"idle", "trigger", "add"} /\ c \notin raced
      => cached[c] \in {None, record}

(* Every job has a task that will come to it, whoever triggers and         *)
(* whenever the current path changes: unless a task threw, whose path then *)
(* stays in preloadJobs without one.                                       *)
JobsHaveTasks ==
  preloadJobs # <<>> /\ stuck = {} => tasks > 0 \/ executor # "idle"

(* A thread in waitForCacheReady returns, unless a task threw.             *)
WaiterReleased == user = "waiting" ~> user # "waiting" \/ stuck # {}
=============================================================================
