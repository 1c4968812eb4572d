----------------------------- MODULE IndexFinder -----------------------------
(***************************************************************************)
(* IndexFinder: searches run one at a time in queryExecutorService; a new  *)
(* one drops the one before it, if that has not begun.  Results go to the  *)
(* listeners over an AsyncEventBus; doSearch is a listener that waits for  *)
(* the result of its term.  Each Searcher is a thread that searches once,  *)
(* and gives its name to its query.                                        *)
(***************************************************************************)
EXTENDS Naturals, Sequences

CONSTANTS
  Searcher, Nobody,
  term,        \* the term that each thread searches
  MaxChanges   \* bound: changes of the index

ASSUME IndexFinderAssumption ==
  Nobody \notin Searcher /\ DOMAIN term = Searcher /\ MaxChanges \in Nat

VARIABLES
  index,      \* changes of the index so far
  caller,     \* where each thread is
  reference,  \* the query whose result it was given, or Nobody
  query,      \* what became of its query
  counted,    \* the index that its query counted
  queue,      \* tasks of queryExecutorService
  previousQuery,
  running,    \* the query that runs, or Nobody
  events,     \* results posted, each with the listener that is still to get it
  closed,
  begun,      \* history: the index when the thread began
  ahead       \* history: the queries that ran or had run by then

callVars == <<caller, reference, begun, ahead>>
queryVars == <<query, counted, queue, previousQuery, running>>
finderVars == <<index, callVars, queryVars, events, closed>>

FinderInit ==
  /\ index = 0
  /\ caller = [s \in Searcher |-> "idle"]
  /\ reference = [s \in Searcher |-> Nobody]
  /\ query = [s \in Searcher |-> "none"] /\ counted = [s \in Searcher |-> 0]
  /\ queue = <<>> /\ previousQuery = Nobody /\ running = Nobody
  /\ events = {} /\ closed = FALSE
  /\ begun = [s \in Searcher |-> 0] /\ ahead = [s \in Searcher |-> {}]

(* IndexHandler writes records, some of which match a term.                *)
ChangeIndex ==
  /\ index < MaxChanges /\ index' = index + 1
  /\ UNCHANGED <<callVars, queryVars, events, closed>>

(***************************************************************************)
(* submitSearch.  cancel(false) has no effect on a query that runs; the    *)
(* executor of a closed finder rejects the query.                          *)
(***************************************************************************)
Cancelled(s) == s = previousQuery /\ query[s] = "queued"

SubmitSearch(s, next) ==
  /\ query' = [q \in Searcher |-> IF Cancelled(q) THEN "cancelled"
                                  ELSE IF q = s /\ ~closed THEN "queued" ELSE query[q]]
  /\ caller' = [caller EXCEPT ![s] = IF closed THEN "thrown" ELSE next]
  /\ IF closed THEN UNCHANGED <<queue, previousQuery>>
     ELSE queue' = Append(queue, s) /\ previousQuery' = s
  /\ UNCHANGED <<index, reference, counted, running, events, closed, begun, ahead>>

Search(s) == caller[s] = "idle" /\ SubmitSearch(s, "submitted")

(* doSearch: the listener is registered, the query submitted, with the     *)
(* lock that the listener needs; the wait releases it.                     *)
Register(s) ==
  /\ caller[s] = "idle"
  /\ caller' = [caller EXCEPT ![s] = "registered"]
  /\ begun' = [begun EXCEPT ![s] = index]
  /\ ahead' = [ahead EXCEPT ![s] = {q \in Searcher : query[q] \in {"running", "counted", "done"}}]
  /\ UNCHANGED <<index, reference, queryVars, events, closed>>
Submit(s) == caller[s] = "registered" /\ SubmitSearch(s, "waiting")

(* The listener is unregistered; results on their way to it have no effect.*)
Return(s) ==
  /\ caller[s] = "woken"
  /\ caller' = [caller EXCEPT ![s] = "returned"]
  /\ events' = {e \in events : e[2] # s}
  /\ reference' = [reference EXCEPT ![s] = Nobody]
  /\ begun' = [begun EXCEPT ![s] = 0] /\ ahead' = [ahead EXCEPT ![s] = {}]
  /\ UNCHANGED <<index, queryVars, closed>>

(***************************************************************************)
(* The thread of queryExecutorService.  The matches are counted; if there  *)
(* are some, and not too many, they are read, by a second query that the   *)
(* result does not depend on here; the result is posted.  What throws is   *)
(* logged.                                                                 *)
(***************************************************************************)
TakeQuery ==
  /\ running = Nobody /\ queue # <<>>
  /\ queue' = Tail(queue)
  /\ IF query[Head(queue)] = "cancelled" THEN UNCHANGED <<query, running>>
     ELSE running' = Head(queue) /\ query' = [query EXCEPT ![Head(queue)] = "running"]
  /\ UNCHANGED <<index, callVars, counted, previousQuery, events, closed>>

CountMatches ==
  /\ running # Nobody /\ query[running] = "running"
  /\ counted' = [counted EXCEPT ![running] = index]
  /\ query' = [query EXCEPT ![running] = "counted"]
  /\ UNCHANGED <<index, callVars, queue, previousQuery, running, events, closed>>

QueryFails ==
  /\ running # Nobody
  /\ query' = [query EXCEPT ![running] = "failed"]
  /\ running' = Nobody
  /\ UNCHANGED <<index, callVars, counted, queue, previousQuery, events, closed>>

Listening(s) == caller[s] \in {"registered", "waiting", "woken"}

(* Of the listeners, those of the term do something with the result.       *)
AcceptAny(q, s) == TRUE
Accepts(q, s) == term[q] = term[s]

PostResult ==
  /\ running # Nobody /\ query[running] = "counted"
  /\ events' = IF closed THEN events
               ELSE events \cup {<<running, s>> :
                                  s \in {t \in Searcher : Listening(t) /\ Accepts(running, t)}}
  /\ query' = [query EXCEPT ![running] = "done"]
  /\ running' = Nobody
  /\ UNCHANGED <<index, callVars, counted, queue, previousQuery, closed>>

(* handleSearchCompletedEvent, in a thread of eventProcessingService.  A   *)
(* thread whose query was rejected is gone; its listener is still there.   *)
NotifyNobody(s) == caller
Notify(s) == [caller EXCEPT ![s] = IF @ = "thrown" THEN @ ELSE "woken"]

HandleResult(q, s) ==
  /\ <<q, s>> \in events /\ caller[s] # "registered"
  /\ events' = events \ {<<q, s>>}
  /\ reference' = [reference EXCEPT ![s] = q]
  /\ caller' = Notify(s)
  /\ UNCHANGED <<index, begun, ahead, queryVars, closed>>

(* close: what was submitted to the executors still runs.                  *)
Close == /\ ~closed /\ closed' = TRUE
         /\ UNCHANGED <<index, callVars, queryVars, events>>

RunQuery == TakeQuery \/ CountMatches \/ QueryFails \/ PostResult
Step(s) ==
  \/ Submit(s) \/ Return(s)
  \/ \E q \in Searcher : HandleResult(q, s)

FinderNext ==
  \/ RunQuery
  \/ \E s \in Searcher : Search(s) \/ Register(s) \/ Step(s)
  \/ ChangeIndex \/ Close

FinderSpec == FinderInit /\ [][FinderNext]_finderVars

(* The threads run; nobody needs to search or to close.                    *)
FairFinderSpec ==
  FinderSpec /\ WF_finderVars(RunQuery) /\ \A s \in Searcher : WF_finderVars(Step(s))

(***************************************************************************)
(* Properties.                                                             *)
(***************************************************************************)

(* doSearch returns, unless its query was dropped for a newer one before   *)
(* it began, or threw, or the finder was closed: nothing tells the thread. *)
SearchReturns ==
  \A s \in Searcher :
    caller[s] = "waiting" ~> \/ caller[s] # "waiting"
                             \/ query[s] \in {"cancelled", "failed"} \/ closed

(* What doSearch returns is a result for its term and no older than the    *)
(* call, whoever submitted the query: unless a query for the same term was *)
(* running, or its result on its way, when the call began.                 *)
AnswerIsFresh ==
  [][\A s \in Searcher :
       caller[s] = "woken" /\ caller'[s] = "returned" =>
         LET q == reference[s]
         IN  /\ term[q] = term[s]
             /\ counted[q] >= begun[s] \/ q \in ahead[s]]_finderVars
=============================================================================
