--------------------------- MODULE TaskRetryLoop ---------------------------
(***************************************************************************)
(* backend-shared/util/task_retry_loop.go: a goroutine owns a list of      *)
(* waiting tasks and a map of active ones; every active task runs in a     *)
(* goroutine of its own; all of them, the callers of AddTaskIfNotPresent   *)
(* and a 200ms ticker talk to the loop through one unbuffered channel.     *)
(*                                                                         *)
(* One iteration of the loop is: decide whether to scan the waiting list   *)
(* (pc = "queue"), walk it entry by entry (pc = "scan"), receive one       *)
(* message (pc = "receive").  A send on an unbuffered channel happens when *)
(* the loop receives, so a send and its receipt are one action.            *)
(*                                                                         *)
(* Abstracted: the wall clock.  An entry whose nextScheduledRetryTime is   *)
(* nil or has passed has due = TRUE; RetryTimePasses turns FALSE to TRUE.  *)
(* It does not happen during a scan: an entry that becomes due after the   *)
(* scan passed it, or before the scan reaches it, could as well have done  *)
(* so after or before the whole scan.  The removeTask message is left out, *)
(* nothing in the repository sends it.                                     *)
(***************************************************************************)
EXTENDS Naturals, Sequences, FiniteSets

CONSTANTS
  Names,             \* task names
  Tasks,             \* the RetryableTasks that are submitted
  NoTask,
  MaxActiveRunners   \* maxActiveRunners: 20 in the code

ASSUME NoTaskAssumption == NoTask \notin Tasks
ASSUME MaxActiveRunnersAssumption == MaxActiveRunners \in Nat \ {0}

VARIABLES
  pc,                   \* where the loop's goroutine is
  waitingTasks,         \* the ordered list of waiting entries
  waitingTasksByName,   \* the same entries, by name
  idx,                  \* next index of the scan
  updatedWaitingTasks,  \* what the scan has kept so far
  activeTaskMap,        \* the running tasks, by name
  runners,              \* the task goroutines that have not been received from
  owed                  \* history: names that were requested, by a caller or
                        \* by a retry, since a task of that name last started

loopVars == <<pc, waitingTasks, waitingTasksByName, idx, updatedWaitingTasks,
              activeTaskMap, owed>>
vars == <<loopVars, runners>>

waitingTaskEntry == [name : Names, task : Tasks, due : BOOLEAN]

\* A goroutine runs PerformTask, then blocks until the loop takes its result.
\* A panic of PerformTask is caught and leaves shouldRetry FALSE: "done".
taskRunner == [name : Names, task : Tasks, result : {"running", "retry", "done"}]

TypeOK ==
  /\ pc \in {"queue", "scan", "receive"}
  /\ waitingTasks \in Seq(waitingTaskEntry)
  /\ waitingTasksByName \in [Names -> Tasks \union {NoTask}]
  /\ idx \in Nat \ {0}
  /\ updatedWaitingTasks \in Seq(waitingTaskEntry)
  /\ activeTaskMap \in [Names -> Tasks \union {NoTask}]
  /\ runners \subseteq taskRunner
  /\ owed \subseteq Names

Init ==
  /\ pc = "queue"
  /\ waitingTasks = <<>>
  /\ waitingTasksByName = [n \in Names |-> NoTask]
  /\ idx = 1
  /\ updatedWaitingTasks = <<>>
  /\ activeTaskMap = [n \in Names |-> NoTask]
  /\ runners = {}
  /\ owed = {}

ActiveNames == {n \in Names : activeTaskMap[n] # NoTask}

-----------------------------------------------------------------------------
(* Mutants: plausible bugs, each of the same shape as an operator below;   *)
(* the properties must notice when one takes the operator's place.         *)

\* the duplicate check also looks at the running tasks
addTaskDropsIfActive(e) ==
  IF waitingTasksByName[e.name] # NoTask \/ activeTaskMap[e.name] # NoTask
    THEN UNCHANGED <<waitingTasks, waitingTasksByName>>
    ELSE /\ waitingTasks' = Append(waitingTasks, e)
         /\ waitingTasksByName' = [waitingTasksByName EXCEPT ![e.name] = e.task]

\* tasks are queued at the front of the list
addTaskAtFront(e) ==
  IF waitingTasksByName[e.name] # NoTask
    THEN UNCHANGED <<waitingTasks, waitingTasksByName>>
    ELSE /\ waitingTasks' = <<e>> \o waitingTasks
         /\ waitingTasksByName' = [waitingTasksByName EXCEPT ![e.name] = e.task]

\* "Don't start a task (yet) if it's already running" is forgotten
startTaskEvenIfActive(e) == e.due

\* the started task stays in waitingTasksByName
startNewTaskKeepsName(e) ==
  /\ UNCHANGED waitingTasksByName
  /\ activeTaskMap' = [activeTaskMap EXCEPT ![e.name] = e.task]
  /\ runners' = runners \union
                  {[name |-> e.name, task |-> e.task, result |-> "running"]}
  /\ owed' = owed \ {e.name}

\* the entry of a retried task is read after it was deleted from the map
RetriedTask_readAfterDelete(r) == NoTask

\* a retried task is not removed from the active map
ActiveAfter_keepsRetried(r) ==
  IF r.result = "retry" THEN activeTaskMap
  ELSE [activeTaskMap EXCEPT ![r.name] = NoTask]
-----------------------------------------------------------------------------
HasRoom == Cardinality(ActiveNames) < MaxActiveRunners

addTask(e) ==
  IF waitingTasksByName[e.name] # NoTask
    THEN UNCHANGED <<waitingTasks, waitingTasksByName>>
    ELSE /\ waitingTasks' = Append(waitingTasks, e)
         /\ waitingTasksByName' = [waitingTasksByName EXCEPT ![e.name] = e.task]

\* The scan's test of one entry; the loop has checked the room separately.
startTask(e) == e.due /\ activeTaskMap[e.name] = NoTask

startNewTask(e) ==
  /\ waitingTasksByName' = [waitingTasksByName EXCEPT ![e.name] = NoTask]
  /\ activeTaskMap' = [activeTaskMap EXCEPT ![e.name] = e.task]
  /\ runners' = runners \union
                  {[name |-> e.name, task |-> e.task, result |-> "running"]}
  /\ owed' = owed \ {e.name}

\* Top of the loop: scan only if there is work, and room for it.
BeginQueueing ==
  /\ pc = "queue"
  /\ pc' = IF waitingTasks # <<>> /\ HasRoom THEN "scan" ELSE "receive"
  /\ UNCHANGED <<waitingTasks, waitingTasksByName, idx, updatedWaitingTasks,
                 activeTaskMap, runners, owed>>

ScanEntry ==
  /\ pc = "scan"
  /\ idx <= Len(waitingTasks)
  /\ LET e == waitingTasks[idx] IN
       \/ /\ startTask(e) /\ HasRoom
          /\ startNewTask(e)
          /\ UNCHANGED updatedWaitingTasks
       \/ /\ ~(startTask(e) /\ HasRoom)
          /\ updatedWaitingTasks' = Append(updatedWaitingTasks, e)
          /\ UNCHANGED <<waitingTasksByName, activeTaskMap, runners, owed>>
  /\ idx' = idx + 1
  /\ UNCHANGED <<pc, waitingTasks>>

EndScan ==
  /\ pc = "scan"
  /\ idx > Len(waitingTasks)
  /\ waitingTasks' = updatedWaitingTasks
  /\ updatedWaitingTasks' = <<>>
  /\ idx' = 1
  /\ pc' = "receive"
  /\ UNCHANGED <<waitingTasksByName, activeTaskMap, runners, owed>>

\* The loop receives the message of a caller of AddTaskIfNotPresent.
ReceiveAddTask(n, t) ==
  /\ pc = "receive"
  /\ addTask([name |-> n, task |-> t, due |-> TRUE])
  /\ owed' = owed \union {n}
  /\ pc' = "queue"
  /\ UNCHANGED <<idx, updatedWaitingTasks, activeTaskMap, runners>>

\* The active map after r's result was received; the task that is queued again.
ActiveAfter(r) == [activeTaskMap EXCEPT ![r.name] = NoTask]
RetriedTask(r) == activeTaskMap[r.name]

\* The loop receives the workCompleted message of a task's goroutine.
ReceiveWorkCompleted(r) ==
  /\ pc = "receive"
  /\ r \in runners
  /\ r.result # "running"
  /\ runners' = runners \ {r}
  /\ activeTaskMap' = ActiveAfter(r)
  /\ owed' = IF r.result = "retry" THEN owed \union {r.name} ELSE owed
  /\ IF r.result = "retry" /\ activeTaskMap[r.name] # NoTask
       THEN addTask([name |-> r.name, task |-> RetriedTask(r), due |-> FALSE])
       ELSE UNCHANGED <<waitingTasks, waitingTasksByName>>
  /\ pc' = "queue"
  /\ UNCHANGED <<idx, updatedWaitingTasks>>

ReceiveTick ==
  /\ pc = "receive"
  /\ pc' = "queue"
  /\ UNCHANGED <<waitingTasks, waitingTasksByName, idx, updatedWaitingTasks,
                 activeTaskMap, runners, owed>>

\* PerformTask returns (or panics) in the task's goroutine.
PerformTask(r) ==
  /\ r \in runners
  /\ r.result = "running"
  /\ \E res \in {"retry", "done"} :
       runners' = (runners \ {r}) \union {[r EXCEPT !.result = res]}
  /\ UNCHANGED loopVars

\* A backoff elapses.
RetryTimePasses(i) ==
  /\ pc # "scan"
  /\ i \in DOMAIN waitingTasks
  /\ ~waitingTasks[i].due
  /\ waitingTasks' = [waitingTasks EXCEPT ![i].due = TRUE]
  /\ UNCHANGED <<pc, waitingTasksByName, idx, updatedWaitingTasks,
                 activeTaskMap, runners, owed>>

Next ==
  \/ BeginQueueing
  \/ ScanEntry
  \/ EndScan
  \/ \E n \in Names, t \in Tasks : ReceiveAddTask(n, t)
  \/ \E r \in runners : ReceiveWorkCompleted(r)
  \/ ReceiveTick
  \/ \E r \in runners : PerformTask(r)
  \/ \E i \in DOMAIN waitingTasks : RetryTimePasses(i)

(***************************************************************************)
(* Fairness.  The loop's goroutine is scheduled.  Senders blocked on a Go  *)
(* channel are served in the order they blocked, so neither the ticker nor *)
(* a finished task is passed over for ever (strong fairness: the loop is   *)
(* at its receive again and again, not continuously).  Backoffs elapse.    *)
(* Nothing is assumed about PerformTask, nor about callers.                *)
(***************************************************************************)
Fairness ==
  /\ WF_vars(BeginQueueing)
  /\ WF_vars(ScanEntry)
  /\ WF_vars(EndScan)
  /\ SF_vars(ReceiveTick)
  /\ \A n \in Names :
       SF_vars(\E r \in runners : r.name = n /\ ReceiveWorkCompleted(r))
  /\ \A n \in Names :
       SF_vars(\E i \in DOMAIN waitingTasks :
                  waitingTasks[i].name = n /\ RetryTimePasses(i))

SafetySpec == Init /\ [][Next]_vars
Spec == SafetySpec /\ Fairness
-----------------------------------------------------------------------------
(* Properties *)

\* The entries that wait: outside a scan the whole list, during a scan what the
\* scan has kept (updatedWaitingTasks) and what it has not reached (Unscanned).
Unscanned == {i \in DOMAIN waitingTasks : i >= idx}

\* "waitingTasksByName and waitingTasks contain the same test of tasks, just
\* organized in different collections" (task_retry_loop.go:155): a name that is
\* in the map but not in the list would be de-duplicated for ever and never
\* run; one in the list but not in the map could be queued twice.
ListMatchesMap ==
  /\ \A i \in DOMAIN updatedWaitingTasks :
       waitingTasksByName[updatedWaitingTasks[i].name] = updatedWaitingTasks[i].task
  /\ \A i \in Unscanned :
       waitingTasksByName[waitingTasks[i].name] = waitingTasks[i].task
  /\ \A n \in Names : waitingTasksByName[n] # NoTask =>
       \/ \E i \in DOMAIN updatedWaitingTasks : updatedWaitingTasks[i].name = n
       \/ \E i \in Unscanned : waitingTasks[i].name = n

\* "We ensure there are no duplicates in either list" (task_retry_loop.go:216):
\* no two waiting entries share a name, wherever the scan stands.
NoDuplicateEntries ==
  /\ \A i, j \in DOMAIN updatedWaitingTasks :
       updatedWaitingTasks[i].name = updatedWaitingTasks[j].name => i = j
  /\ \A i, j \in Unscanned : waitingTasks[i].name = waitingTasks[j].name => i = j
  /\ \A i \in DOMAIN updatedWaitingTasks, j \in Unscanned :
       updatedWaitingTasks[i].name # waitingTasks[j].name

\* "If the task name was the same, only one task would be allowed to run
\* concurrently" (task_retry_loop.go:37): the goroutines alive are exactly the
\* active map's tasks, one per name.
OneRunnerPerName ==
  /\ \A r, q \in runners : r.name = q.name => r = q
  /\ \A r \in runners : activeTaskMap[r.name] = r.task
  /\ \A n \in ActiveNames : \E r \in runners : r.name = n

\* At most maxActiveRunners tasks run at once (task_retry_loop.go:238, :263).
ActiveBound == Cardinality(ActiveNames) <= MaxActiveRunners

\* The loop implements the promise of RetryQueue: its safety half, and (under
\* Fairness) that no waiting task is starved by others or lost.
Queue == INSTANCE RetryQueue WITH
           waiting <- waitingTasksByName, running <- activeTaskMap

ImplementsQueueSafety == Queue!QSafety
ImplementsQueue == Queue!QSpec

\* A request is not lost: a name that a caller, or a failed task, asked for is
\* in the waiting list until a task of that name starts AFTER the request.  In
\* particular a task that is added while one of its name runs "will wait for the
\* task from 1 to complete" (task_retry_loop.go:62).
NoRequestLost == \A n \in owed : waitingTasksByName[n] # NoTask

\* As long as no PerformTask hangs, a requested name is started afterwards: the
\* backoff, the de-duplication and the limit on runners only delay it.
Performing(n) == \E r \in runners : r.name = n /\ r.result = "running"

RequestRuns ==
  (\A n \in Names : []<>~Performing(n))
    => \A n \in Names : n \in owed ~> n \notin owed
=============================================================================
