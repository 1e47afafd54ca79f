------------------------- MODULE OperationProtocol -------------------------
(***************************************************************************)
(* How a change of an Application row reaches Argo CD.                     *)
(*                                                                         *)
(* A client writes the row, then calls CreateOperation                     *)
(* (backend-shared/util/operations/types.go): it inserts an Operation row  *)
(* and an Operation custom resource (CR).  The cluster-agent               *)
(* (cluster-agent/.../operation_event_loop.go) is told of the CR by its    *)
(* watch, queues a task under the name of the RESOURCE the operation is    *)
(* about, and the task makes Argo CD agree with the Application row.  The  *)
(* client polls the Operation row and finally deletes row and CR.  Two     *)
(* kinds of client share the resources: the backend's deployment runner    *)
(* ("user", which waits) and the periodic namespace reconciler ("special", *)
(* which does not).  Every call to the database or to Kubernetes may fail, *)
(* and both services may restart.                                          *)
(*                                                                         *)
(* The agent's queue is RetryQueue, which TaskRetryLoop is shown to        *)
(* implement.                                                              *)
(*                                                                         *)
(* Abstracted: the contents of an Application row and of an Argo CD        *)
(* Application are the number of the edit they reflect.  0: no row and no  *)
(* Application yet; Deleted: the row, or the Application, is gone for good *)
(* (ids are UUIDs).  Time: any row may be old enough for the clean-up      *)
(* jobs, any backoff or deadline may have passed.                          *)
(*                                                                         *)
(* Left out: operations on other resources than Applications; rows without *)
(* a managed environment (see NamespaceReconciler); and the agent's sanity *)
(* checks of the Argo CD instance and its Namespace, which are taken to    *)
(* pass.  (When the Namespace has another UID, or the row's Spec_field is  *)
(* not YAML, internalPerformTask returns without an error and the          *)
(* operation is marked Completed although nothing was applied.)            *)
(***************************************************************************)
EXTENDS Naturals, FiniteSets

CONSTANTS
  Resources,         \* Application ids
  Ids,               \* Operation ids: bounds the operations alive at once
  NoOp,              \* no operation
  Deleted,           \* the last edit of a row, its deletion; bounds the edits
  MaxFaults,         \* bounds failed calls and restarts
  MaxActiveRunners

ASSUME IdsAssumption == Ids \subseteq Nat /\ NoOp \notin Ids
ASSUME DeletedAssumption == Deleted \in Nat \ {0}
ASSUME MaxFaultsAssumption == MaxFaults \in Nat
ASSUME RunnersAssumption == MaxActiveRunners \in Nat \ {0}

Owners == {"user", "special"}

VARIABLES
  row,      \* row[r]: the edit in the Application row
  argo,     \* argo[r]: the edit the Argo CD Application reflects
  op,       \* op[i]: the Operation row
  crs,      \* ids of the Operation CRs
  marked,   \* the CRs that carry the periodic-cleanup annotation
  client,   \* client[r][o]: where the client is in CreateOperation
  waiting,  \* the task retry loop of the agent: names are resources,
  running,  \* tasks are operation ids
  task,     \* task[r]: where the running task of r is
  faults    \* calls that failed and restarts so far

queueVars == <<waiting, running>>
agentVars == <<waiting, running, task>>
vars == <<row, argo, op, crs, marked, client, waiting, running, task, faults>>

Queue == INSTANCE RetryQueue WITH Names <- Resources, Tasks <- Ids, NoTask <- NoOp

States == {"Waiting", "In_Progress", "Completed", "Failed"}
Terminal == {"Completed", "Failed"}

\* An Operation row.  state "None": there is no such row.  need is a history
\* value: the edit that was in the Application row when the operation was made.
NoRow == [state |-> "None", owner |-> "user", res |-> NoOp, need |-> 0]
OperationRow ==
  [state : States, owner : Owners, res : Resources, need : 0..Deleted]

ClientPC == {"idle", "list", "get", "insert", "createCR", "wait", "returned", "deleteCR"}

IdleClient == [pc |-> "idle", found |-> {}, opId |-> NoOp]
IdleTask == [pc |-> "idle", seen |-> 0, result |-> "none"]

TypeOK ==
  /\ row \in [Resources -> 0..Deleted]
  /\ argo \in [Resources -> 0..Deleted]
  /\ op \in [Ids -> OperationRow \union {NoRow}]
  /\ crs \subseteq Ids
  /\ marked \subseteq crs
  /\ client \in [Resources -> [Owners -> [pc : ClientPC, found : SUBSET Ids,
                                          opId : Ids \union {NoOp}]]]
  /\ waiting \in [Resources -> Ids \union {NoOp}]
  /\ running \in [Resources -> Ids \union {NoOp}]
  /\ task \in [Resources -> [pc : {"idle", "load", "read", "apply", "update"},
                             seen : 0..Deleted,
                             result : {"none", "retry"} \union Terminal]]
  /\ faults \in 0..MaxFaults

Init ==
  /\ row = [r \in Resources |-> 0]
  /\ argo = [r \in Resources |-> 0]
  /\ op = [i \in Ids |-> NoRow]
  /\ crs = {}
  /\ marked = {}
  /\ client = [r \in Resources |-> [o \in Owners |-> IdleClient]]
  /\ waiting = [r \in Resources |-> NoOp]
  /\ running = [r \in Resources |-> NoOp]
  /\ task = [r \in Resources |-> IdleTask]
  /\ faults = 0

Exists(i) == op[i].state # "None"
Incomplete(i) == op[i].state \in {"Waiting", "In_Progress"}

\* An id nothing refers to any more: it stands for a fresh UUID.
Fresh(i) ==
  /\ ~Exists(i)
  /\ i \notin crs
  /\ \A r \in Resources :
       /\ i \notin {waiting[r], running[r]}
       /\ \A o \in Owners : i # client[r][o].opId /\ i \notin client[r][o].found

\* One more call fails, or one more restart.
Fault == faults < MaxFaults /\ faults' = faults + 1

Goto(r, o, pc) == client' = [client EXCEPT ![r][o].pc = pc]
-----------------------------------------------------------------------------
(* Mutants: plausible bugs, each of the shape of an operator below.        *)

\* the state column is not set
InsertedRow_noState(r, o) ==
  [state |-> "None", owner |-> o, res |-> r, need |-> row[r]]

\* the operation carries the contents it is about, instead of the task
\* reading the row when it runs
Contents_ofOperation(r) == op[running[r]].need

\* a task that asks for a retry is recorded as completed
StateAfter_ignoresRetry(r) ==
  IF task[r].result = "Failed" THEN "Failed" ELSE "Completed"

\* an operation that already completed is processed again
Processable_evenIfTerminal(i) == i \in crs /\ Exists(i)

\* only an operation that nobody has started is processed
Processable_onlyWaiting(i) == i \in crs /\ op[i].state = "Waiting"

\* the namespace reconciler only looks whether the Application is there
OutOfSync_onlyMissing(r) == row[r] \in 1..(Deleted - 1) /\ argo[r] = 0
-----------------------------------------------------------------------------
(* The clients: backend-shared/util/operations/types.go and its callers.   *)

\* The deployment runner writes a new version of the Application row (creation,
\* update or deletion of a GitOpsDeployment) and calls CreateOperation.
UpdateApplication(r) ==
  /\ client[r]["user"].pc = "idle"
  /\ row[r] < Deleted
  /\ \E v \in {row[r] + 1} \union (IF row[r] > 0 THEN {Deleted} ELSE {}) :
       row' = [row EXCEPT ![r] = v]
  /\ Goto(r, "user", "list")
  /\ UNCHANGED <<argo, op, crs, marked, agentVars, faults>>

\* The namespace reconciler's comparison of a row with Argo CD.  Rows it cannot
\* or need not repair are not looked at: those that are gone.
OutOfSync(r) == row[r] \in 1..(Deleted - 1) /\ argo[r] # row[r]

processApplicationRowToSyncWithCluster(r) ==
  /\ client[r]["special"].pc = "idle"
  /\ OutOfSync(r)
  /\ Goto(r, "special", "list")
  /\ UNCHANGED <<row, argo, op, crs, marked, agentVars, faults>>

\* createOperationInternal: look for an operation of this owner on this resource
\* that nobody has started.  A failure to list them is ignored.
ListOperations(r, o) ==
  /\ client[r][o].pc = "list"
  /\ LET found == {i \in Ids : op[i].state = "Waiting" /\ op[i].owner = o /\ op[i].res = r}
     IN  \/ /\ client' = [client EXCEPT ![r][o].pc = IF found = {} THEN "insert" ELSE "get",
                                       ![r][o].found = found]
            /\ UNCHANGED faults
         \/ Fault /\ Goto(r, o, "insert")
  /\ UNCHANGED <<row, argo, op, crs, marked, agentVars>>

\* CreateOperation returns operation i: the runner goes on to clean it up.
Return(r, o, i) ==
  client' = [client EXCEPT ![r][o] =
               IF o = "user" THEN [pc |-> "returned", found |-> {}, opId |-> i]
               ELSE IdleClient]

\* One of those whose CR exists is used, without waiting for it.
UseExistingOperation(r, o) ==
  /\ client[r][o].pc = "get"
  /\ \E i \in client[r][o].found \intersect crs : Return(r, o, i)
  /\ UNCHANGED <<row, argo, op, crs, marked, agentVars, faults>>

NoExistingOperation(r, o) ==
  /\ client[r][o].pc = "get"
  /\ \/ client[r][o].found \intersect crs = {} /\ UNCHANGED faults
     \/ client[r][o].found \intersect crs # {} /\ Fault
  /\ client' = [client EXCEPT ![r][o].pc = "insert", ![r][o].found = {}]
  /\ UNCHANGED <<row, argo, op, crs, marked, agentVars>>

InsertedRow(r, o) ==
  [state |-> "Waiting", owner |-> o, res |-> r, need |-> row[r]]

InsertOperationRow(r, o) ==
  /\ client[r][o].pc = "insert"
  /\ \E i \in Ids :
       /\ Fresh(i) /\ \A j \in Ids : Fresh(j) => i <= j
       /\ op' = [op EXCEPT ![i] = InsertedRow(r, o)]
       /\ client' = [client EXCEPT ![r][o].pc = "createCR", ![r][o].opId = i]
  /\ UNCHANGED <<row, argo, crs, marked, agentVars, faults>>

CreateOperationCR(r, o) ==
  /\ client[r][o].pc = "createCR"
  /\ LET i == client[r][o].opId
     IN  /\ crs' = crs \union {i}
         /\ marked' = IF o = "special" THEN marked \union {i} ELSE marked
         /\ IF o = "user" THEN Goto(r, o, "wait") ELSE Return(r, o, i)
  /\ UNCHANGED <<row, argo, op, queueVars, task, faults>>

\* createOperationInternal returns an error; what it created before stays.
\* doCreateOperation tries again, or its minute is over and it returns the
\* error.  The caller's event is then retried, finds the row unchanged and is
\* done: nobody makes the operation.
RetryOrExpire(r, o) ==
  \E next \in {"list", "idle"} :
    client' = [client EXCEPT ![r][o] = [IdleClient EXCEPT !.pc = next]]

\* waitForOperationToComplete: a row that has disappeared is an error.
PollOperation(r) ==
  /\ client[r]["user"].pc = "wait"
  /\ LET i == client[r]["user"].opId
     IN  \/ op[i].state \in Terminal /\ Return(r, "user", i)
         \/ ~Exists(i) /\ RetryOrExpire(r, "user")
  /\ UNCHANGED <<row, argo, op, crs, marked, agentVars, faults>>

\* A call of createOperationInternal fails.
CreateOperationFails(r, o) ==
  /\ client[r][o].pc \in {"list", "insert", "createCR", "wait"}
  /\ Fault
  /\ RetryOrExpire(r, o)
  /\ UNCHANGED <<row, argo, op, crs, marked, agentVars>>

\* CleanupOperation: the row, then the CR; the first failure ends it.
CleanupOperationRow(r) ==
  /\ client[r]["user"].pc = "returned"
  /\ \/ /\ op' = [op EXCEPT ![client[r]["user"].opId] = NoRow]
        /\ Goto(r, "user", "deleteCR")
        /\ UNCHANGED faults
     \/ /\ Fault
        /\ client' = [client EXCEPT ![r]["user"] = IdleClient]
        /\ UNCHANGED op
  /\ UNCHANGED <<row, argo, crs, marked, agentVars>>

CleanupOperationCR(r) ==
  /\ client[r]["user"].pc = "deleteCR"
  /\ \/ /\ crs' = crs \ {client[r]["user"].opId}
        /\ marked' = marked \ {client[r]["user"].opId}
        /\ UNCHANGED faults
     \/ Fault /\ UNCHANGED <<crs, marked>>
  /\ client' = [client EXCEPT ![r]["user"] = IdleClient]
  /\ UNCHANGED <<row, argo, op, agentVars>>

ClientStep(r, o) ==
  \/ ListOperations(r, o)
  \/ UseExistingOperation(r, o)
  \/ NoExistingOperation(r, o)
  \/ InsertOperationRow(r, o)
  \/ CreateOperationCR(r, o)
  \/ o = "user" /\ (PollOperation(r) \/ CleanupOperationRow(r) \/ CleanupOperationCR(r))
-----------------------------------------------------------------------------
(* The clean-up jobs.                                                      *)

\* cleanOrphanedEntriesfromTable_Operation reads a batch of rows, then creates
\* the CR of an incomplete one that has none.  That the row it read is stale and
\* the operation done by now is left out: the agent ignores such a CR (RouteEvent,
\* LoadOperation) and DeleteOperationCR removes it.
RecreateMissingCR(i) ==
  /\ Incomplete(i) /\ i \notin crs
  /\ crs' = crs \union {i}
  /\ marked' = marked \union {i}
  /\ UNCHANGED <<row, argo, op, client, agentVars, faults>>

\* ... and deletes the rows that completed a day ago.
DeleteCompletedRow(i) ==
  /\ op[i].state = "Completed"
  /\ op' = [op EXCEPT ![i] = NoRow]
  /\ UNCHANGED <<row, argo, crs, marked, client, agentVars, faults>>

\* The namespace reconciler deletes a CR that has no row, or a completed one
\* (cleanOrphanedCRsfromCluster_Operation), and its own ones that are done
\* (syncCRsWithDB_Applications_Delete_Operations).
DeleteOperationCR(i) ==
  /\ i \in crs
  /\ \/ op[i].state \in {"None", "Completed"}
     \/ i \in marked /\ op[i].state \in Terminal
  /\ crs' = crs \ {i}
  /\ marked' = marked \ {i}
  /\ UNCHANGED <<row, argo, op, client, agentVars, faults>>

\* cleanOrphanedCRsfromCluster_Applications: an Argo CD Application without row.
DeleteOrphanedArgoApplication(r) ==
  /\ row[r] = Deleted
  /\ argo[r] \notin {0, Deleted}
  /\ argo' = [argo EXCEPT ![r] = Deleted]
  /\ UNCHANGED <<row, op, crs, marked, client, agentVars, faults>>
-----------------------------------------------------------------------------
(* The cluster-agent: operation_event_loop.go.                             *)

\* The watch of the controller reports a CR when it is created, when the agent
\* starts and at every resync: any time, that is, while the CR exists.
\* operationEventLoopRouter reads CR and row (a failure is retried until it
\* succeeds) and queues a task under the name of the operation's resource.
RouteEvent(i) ==
  /\ i \in crs /\ Exists(i)
  /\ Queue!Add(op[i].res, i)
  /\ UNCHANGED <<row, argo, op, crs, marked, client, task, faults>>

StartTask(r) ==
  /\ Queue!Start(r)
  /\ task' = [task EXCEPT ![r].pc = "load"]
  /\ UNCHANGED <<row, argo, op, crs, marked, client, faults>>

FinishTask(r, retry) ==
  /\ Queue!Finish(r, retry)
  /\ task' = [task EXCEPT ![r] = IdleTask]

Processable(i) == i \in crs /\ Incomplete(i)

\* internalPerformTask: nothing to do for an operation that is gone or done;
\* otherwise it is marked In_Progress.
LoadOperation(r) ==
  /\ task[r].pc = "load"
  /\ LET i == running[r]
     IN  \/ /\ ~Processable(i)
            /\ FinishTask(r, FALSE)
            /\ UNCHANGED op
         \/ /\ Processable(i)
            /\ op' = [op EXCEPT ![i].state = "In_Progress"]
            /\ task' = [task EXCEPT ![r].pc = "read"]
            /\ UNCHANGED queueVars
  /\ UNCHANGED <<row, argo, crs, marked, client, faults>>

\* processOperation_Application reads the row as it is now ...
Contents(r) == row[r]

ReadApplication(r) ==
  /\ task[r].pc = "read"
  /\ task' = [task EXCEPT ![r].pc = "apply", ![r].seen = Contents(r)]
  /\ UNCHANGED <<row, argo, op, crs, marked, client, queueVars, faults>>

\* ... and creates, updates or deletes the Argo CD Application.
ApplyToArgoCD(r) ==
  /\ task[r].pc = "apply"
  /\ argo' = [argo EXCEPT ![r] = task[r].seen]
  /\ task' = [task EXCEPT ![r] = [pc |-> "update", seen |-> 0, result |-> "Completed"]]
  /\ UNCHANGED <<row, op, crs, marked, client, queueVars, faults>>

\* A call fails: the task asks for a retry or gives up.
ProcessingFails(r) ==
  /\ task[r].pc \in {"read", "apply"}
  /\ Fault
  /\ \E result \in {"retry", "Failed"} :
       task' = [task EXCEPT ![r] = [pc |-> "update", seen |-> 0, result |-> result]]
  /\ UNCHANGED <<row, argo, op, crs, marked, client, queueVars>>

\* PerformTask records the outcome.  A row that is gone cannot be updated, which
\* is a reason to try again.
StateAfter(r) ==
  IF task[r].result = "retry" THEN "In_Progress" ELSE task[r].result

UpdateOperationState(r) ==
  /\ task[r].pc = "update"
  /\ LET i == running[r]
     IN  \/ /\ Exists(i)
            /\ op' = [op EXCEPT ![i].state = StateAfter(r)]
            /\ FinishTask(r, task[r].result = "retry")
         \/ /\ ~Exists(i)
            /\ FinishTask(r, TRUE)
            /\ UNCHANGED op
  /\ UNCHANGED <<row, argo, crs, marked, client, faults>>

\* A database call of PerformTask fails (retry), or it panics (no retry).
TaskAborts(r) ==
  /\ task[r].pc # "idle"
  /\ Fault
  /\ \E retry \in BOOLEAN :
       /\ retry => task[r].pc \in {"load", "update"}
       /\ FinishTask(r, retry)
  /\ UNCHANGED <<row, argo, op, crs, marked, client>>

TaskStep(r) ==
  LoadOperation(r) \/ ReadApplication(r) \/ ApplyToArgoCD(r) \/ UpdateOperationState(r)
-----------------------------------------------------------------------------
(* Restarts.                                                               *)

\* The GitOpsDeployment events that are replayed find the rows unchanged.
BackendRestarts ==
  /\ Fault
  /\ client' = [r \in Resources |-> [client[r] EXCEPT !["user"] = IdleClient]]
  /\ UNCHANGED <<row, argo, op, crs, marked, agentVars>>

\* The queue is lost; the watch begins with every CR there is (RouteEvent).
AgentRestarts ==
  /\ Fault
  /\ client' = [r \in Resources |-> [client[r] EXCEPT !["special"] = IdleClient]]
  /\ waiting' = [r \in Resources |-> NoOp]
  /\ running' = [r \in Resources |-> NoOp]
  /\ task' = [r \in Resources |-> IdleTask]
  /\ UNCHANGED <<row, argo, op, crs, marked>>
-----------------------------------------------------------------------------
Next ==
  \/ \E r \in Resources :
       \/ UpdateApplication(r)
       \/ processApplicationRowToSyncWithCluster(r)
       \/ \E o \in Owners : ClientStep(r, o) \/ CreateOperationFails(r, o)
       \/ DeleteOrphanedArgoApplication(r)
       \/ StartTask(r) \/ TaskStep(r) \/ ProcessingFails(r) \/ TaskAborts(r)
  \/ \E i \in Ids :
       RecreateMissingCR(i) \/ DeleteCompletedRow(i) \/ DeleteOperationCR(i) \/ RouteEvent(i)
  \/ BackendRestarts
  \/ AgentRestarts

SafetySpec == Init /\ [][Next]_vars

(***************************************************************************)
(* Fairness.  The goroutines of the clients, of the router and of the      *)
(* tasks are scheduled; the reconcilers run periodically; the watch        *)
(* resyncs.  Edits, failures and restarts happen or not.                   *)
(***************************************************************************)
Fairness ==
  /\ \A r \in Resources :
       /\ \A o \in Owners : WF_vars(ClientStep(r, o))
       /\ WF_vars(processApplicationRowToSyncWithCluster(r))
       /\ WF_vars(DeleteOrphanedArgoApplication(r))
       /\ WF_vars(StartTask(r))
       /\ WF_vars(TaskStep(r))
  /\ \A i \in Ids :
       /\ WF_vars(RouteEvent(i))
       /\ WF_vars(RecreateMissingCR(i))
       /\ WF_vars(DeleteOperationCR(i))
       /\ WF_vars(DeleteCompletedRow(i))

Spec == SafetySpec /\ Fairness
-----------------------------------------------------------------------------
(* Properties *)

\* An operation that is marked Completed has been carried out: Argo CD reflects
\* the Application row as it was when the operation was created, or later
\* (PerformTask, operation_event_loop.go:239).  This is what a client that waits
\* for its operation relies on.
CompletedIsApplied ==
  \A i \in Ids : op[i].state = "Completed" => argo[op[i].res] >= op[i].need

\* However retries, restarts and several operations on one resource interleave,
\* Argo CD never goes back to an older version of the row: the tasks of one
\* resource run one at a time and read the row when they run.  The exception is
\* an Application whose row is gone: a task that read the row before it was
\* deleted may create it once more after the namespace reconciler removed it.
ArgoNeverRegresses ==
  [][\A r \in Resources : argo'[r] < argo[r] => argo[r] = Deleted]_vars

\* An operation's state only moves forward.  A finished one is never taken up
\* again, whatever is queued for it (operation_event_loop.go:362).
OperationStateMovesForward ==
  [][\A i \in Ids :
       /\ op[i].state \in Terminal => op'[i].state \in {op[i].state, "None"}
       /\ op[i].state = "In_Progress" => op'[i].state # "Waiting"]_vars

\* A client that waits for its operation does not wait for ever, even when the
\* agent dropped the operation's event as a duplicate or restarted.
WaitEnds ==
  \A r \in Resources : client[r]["user"].pc = "wait" ~> client[r]["user"].pc # "wait"

\* Once the edits and the failures stop, Argo CD ends up reflecting the row,
\* also when the operation for the last edit was never made, or was cleaned up
\* before it was processed (docs/self-healing-mechanism.md, E and F).
Agree(r) == argo[r] = row[r] \/ (row[r] = Deleted /\ argo[r] = 0)

Converges == \A r \in Resources : <>[]Agree(r)

=============================================================================
