----------------------------- MODULE RetryQueue -----------------------------
(***************************************************************************)
(* What backend-shared/util/task_retry_loop.go promises to its callers.    *)
(*                                                                         *)
(* A task is queued under a name.  For every name at most one task waits   *)
(* and at most one runs.  A task that is added while another one of the    *)
(* same name waits is dropped (de-duplicated), but one that is added while *)
(* a task of that name RUNS is kept and runs afterwards.  A task that asks *)
(* for a retry waits again, unless a task of its name came in meanwhile.   *)
(*                                                                         *)
(* The module is used twice: TaskRetryLoop is shown to implement it, and   *)
(* OperationProtocol builds the cluster-agent on it.                       *)
(***************************************************************************)
EXTENDS Naturals, FiniteSets

CONSTANTS
  Names,             \* task names
  Tasks,             \* what can be queued under a name (a RetryableTask)
  NoTask,            \* "no task of that name"
  MaxActiveRunners   \* how many tasks may run at once

VARIABLES
  waiting,   \* waiting[n]: the task queued under name n, or NoTask
  running    \* running[n]: the task of name n that runs, or NoTask

qvars == <<waiting, running>>

QTypeOK ==
  /\ waiting \in [Names -> Tasks \union {NoTask}]
  /\ running \in [Names -> Tasks \union {NoTask}]

QInit ==
  /\ waiting = [n \in Names |-> NoTask]
  /\ running = [n \in Names |-> NoTask]

RunningNames == {n \in Names : running[n] # NoTask}

\* The queue after task t of name n has been offered to it: only the first
\* task of a name is kept.
Offer(n, t) ==
  IF waiting[n] = NoTask THEN [waiting EXCEPT ![n] = t] ELSE waiting

Add(n, t) ==
  /\ waiting' = Offer(n, t)
  /\ UNCHANGED running

Start(n) ==
  /\ waiting[n] # NoTask
  /\ running[n] = NoTask
  /\ Cardinality(RunningNames) < MaxActiveRunners
  /\ running' = [running EXCEPT ![n] = waiting[n]]
  /\ waiting' = [waiting EXCEPT ![n] = NoTask]

Finish(n, retry) ==
  /\ running[n] # NoTask
  /\ waiting' = IF retry THEN Offer(n, running[n]) ELSE waiting
  /\ running' = [running EXCEPT ![n] = NoTask]

QNext ==
  \E n \in Names :
    \/ \E t \in Tasks : Add(n, t)
    \/ Start(n)
    \/ \E retry \in BOOLEAN : Finish(n, retry)

\* The safety half of the promise.
QSafety == QInit /\ [][QNext]_qvars

\* The liveness half: a waiting task that could be started again and again is
\* started.  Nothing is promised about how long a running task takes.
QSpec == QSafety /\ \A n \in Names : SF_qvars(Start(n))
=============================================================================
