------------------------------ MODULE SyncRun ------------------------------
(***************************************************************************)
(* The GitOpsDeploymentSyncRuns of one name, one after the other, for one  *)
(* GitOpsDeployment, and what the service makes of them: a SyncOperation   *)
(* row with its mapping, operations on that row, and a sync of the Argo CD *)
(* Application.                                                            *)
(*                                                                         *)
(*   - The SyncRun runner of the backend                                   *)
(*     (application_event_runner_syncruns.go) repeats an event until it is *)
(*     handled without error.                                              *)
(*   - The cluster-agent takes operations from its task retry loop, where  *)
(*     a task is named after the SyncOperation row: an operation that comes*)
(*     while a task of that name waits is dropped until it is announced    *)
(*     again.                                                              *)
(*   - The deployment runner and the database reconciler delete the        *)
(*     Application row and rows that nobody needs any more.                *)
(*                                                                         *)
(* Abstracted: the Argo CD Application is there as long as its row, and    *)
(* runs one sync at a time; a sync is named by the row it was made for.    *)
(***************************************************************************)
EXTENDS Naturals, FiniteSets

CONSTANTS
  None,
  MaxInputs     \* bounds what users change and what fails

ASSUME InputsAssumption == MaxInputs \in Nat

VARIABLES
  run, cond,    \* the GitOpsDeploymentSyncRun, its condition ErrorOccurred
  depl,         \* the GitOpsDeployment: its type, or "gone"
  dtam, app,    \* whether there are the mapping and the row of its Application
  rows, mappings,       \* SyncOperation and APICRToDatabaseMapping rows
  ops,          \* Operation rows
  event,        \* an event of the SyncRun is to be handled
  runner,       \* the SyncRun runner
  notices, waiting, tasks,  \* the cluster-agent: operations announced, its task retry loop
  argo,         \* the sync in progress
  done,         \* history: rows that were synced
  gaveUp,       \* history: the runner lost track of an operation
  inputs

user == <<run, depl>>
db == <<dtam, app, rows, mappings>>
agent == <<notices, waiting, tasks>>
vars == <<user, cond, db, ops, event, runner, agent, argo, done, gaveUp, inputs>>

Id == 1..(MaxInputs + 4)
Uid == 1..(MaxInputs + 1)
Run == [uid : Uid, rev : 1..2]
Row == [id : Id, rev : 1..2, app : BOOLEAN, want : {"Running", "Terminated"}]
Mapping == [uid : Uid, row : Id]
Operation == [id : Id, row : Id, state : {"Waiting", "In_Progress", "Completed", "Failed"}]
Task == [op : Id, row : Id, pc : {"load", "sync", "syncing", "terminate"}]

IdleRunner == [pc |-> "idle", run |-> None, row |-> 0, op |-> 0]

TypeOK ==
  /\ run \in Run \union {None} /\ cond \in {"none", "ok", "error"}
  /\ depl \in {"manual", "auto", "gone"} /\ dtam \in BOOLEAN /\ app \in BOOLEAN
  /\ rows \subseteq Row /\ mappings \subseteq Mapping /\ ops \subseteq Operation
  /\ event \in BOOLEAN
  /\ runner \in [pc : {"idle", "row", "mapping", "op", "poll", "terminate", "terminateOp", "wait",
                       "purge", "unmap"},
                 run : Run \union {None}, row : Id \union {0}, op : Id \union {0}]
  /\ notices \subseteq Id /\ waiting \subseteq Task /\ tasks \subseteq Task
  /\ argo \in [row : Id, running : BOOLEAN] \union {None}
  /\ done \subseteq Id /\ gaveUp \in BOOLEAN /\ inputs \in 0..MaxInputs
  /\ \A r, s \in rows : r.id = s.id => r = s
  /\ \A o, p \in ops : o.id = p.id => o = p
  /\ \A t, u \in tasks : t.row = u.row => t = u

\* The user has made a SyncRun of a GitOpsDeployment that is deployed.
Init ==
  /\ run = [uid |-> 1, rev |-> 1] /\ cond = "none" /\ depl = "manual" /\ dtam = TRUE /\ app = TRUE
  /\ rows = {} /\ mappings = {} /\ ops = {} /\ event = TRUE /\ runner = IdleRunner
  /\ notices = {} /\ waiting = {} /\ tasks = {} /\ argo = None
  /\ done = {} /\ gaveUp = FALSE /\ inputs = 0
-----------------------------------------------------------------------------
(* Users                                                                   *)

\* A new uid or id is one that nobody knows; Uid and Id bound how many are in use at a time.
FreeUids ==
  Uid \ ({m.uid : m \in mappings} \union {r.uid : r \in {runner.run} \ {None}})

FreeRowIds ==
  Id \ ({r.id : r \in rows} \union {m.row : m \in mappings} \union {o.row : o \in ops}
        \union {t.row : t \in tasks \union waiting} \union {runner.row} \union done
        \union {a.row : a \in {argo} \ {None}})

FreeOpIds ==
  Id \ ({o.id : o \in ops} \union {t.op : t \in tasks \union waiting} \union notices
        \union {runner.op})

NewUid == CHOOSE n \in FreeUids : TRUE

NewRowId == CHOOSE n \in FreeRowIds : TRUE

NewOpId == CHOOSE n \in FreeOpIds : TRUE

Input == inputs < MaxInputs /\ inputs' = inputs + 1

CreateRun ==
  /\ Input
  /\ FreeUids # {}
  /\ run = None /\ run' = [uid |-> NewUid, rev |-> 1] /\ cond' = "none" /\ event' = TRUE
  /\ UNCHANGED <<depl, db, ops, runner, agent, argo, done, gaveUp>>

ChangeRevision ==
  /\ Input
  /\ run # None /\ run' = [run EXCEPT !.rev = 3 - @] /\ event' = TRUE
  /\ UNCHANGED <<depl, cond, db, ops, runner, agent, argo, done, gaveUp>>

DeleteRun ==
  /\ Input
  /\ run # None /\ run' = None /\ cond' = "none" /\ event' = TRUE
  /\ UNCHANGED <<depl, db, ops, runner, agent, argo, done, gaveUp>>

ChangeDeployment(type) ==
  /\ Input
  /\ depl \notin {"gone", type} /\ depl' = type
  /\ UNCHANGED <<run, cond, db, ops, event, runner, agent, argo, done, gaveUp>>
-----------------------------------------------------------------------------
(* The deployment runner, when the GitOpsDeployment is gone                *)

\* SyncOperation rows are detached from the Application, whose mapping goes.
DetachApplication ==
  /\ depl = "gone" /\ dtam
  /\ rows' = {[r EXCEPT !.app = FALSE] : r \in rows} /\ dtam' = FALSE
  /\ UNCHANGED <<user, cond, app, mappings, ops, event, runner, agent, argo, done, gaveUp, inputs>>

\* The foreign key of SyncOperation keeps the row; then the database reconciler tries
\* again (cleanOrphanedEntriesfromTable_Application).
DeleteApplication ==
  /\ ~dtam /\ app /\ ~\E r \in rows : r.app
  /\ app' = FALSE /\ argo' = None
  /\ UNCHANGED <<user, cond, dtam, rows, mappings, ops, event, runner, agent, done, gaveUp, inputs>>
-----------------------------------------------------------------------------
(* The SyncRun runner                                                      *)

\* The event is handled without error, or tried again; the condition is written to the
\* SyncRun that has the name now.  When there is none any more, an error is ignored.
ReturnWith(result, more) ==
  /\ runner' = IdleRunner
  /\ cond' = IF run = None THEN cond ELSE result
  /\ event' = (more \/ (result = "error" /\ run # None))

Return(result) == ReturnWith(result, event)

Handled(result) == ReturnWith(result, FALSE)

RowOf(id) == {r \in rows : r.id = id}

MappingsOf(r) == IF r = None THEN mappings ELSE {m \in mappings : m.uid = r.uid}

\* the revision is not compared
Immutable_nameOnly(r) == TRUE

\* handleUpdatedGitOpsDeplSyncRunEvent
Immutable(r) == r.rev = run.rev

\* What there is for the SyncRun in the database must be one mapping with its row.
Inconsistent ==
  LET ms == MappingsOf(run)
  IN Cardinality(ms) > 1 \/ \E m \in ms : RowOf(m.row) = {}

\* applicationEventRunner_handleSyncRunModifiedInternal reads, and decides.
StartEvent ==
  /\ runner.pc = "idle" /\ event
  /\ LET ms == MappingsOf(run)
         old == {r \in rows : \E m \in ms : m.row = r.id}
     IN IF ms = {} /\ run = None THEN Handled("ok")
        ELSE IF Inconsistent \/ (run # None /\ (depl # "manual" \/ ~dtam))
        THEN Handled("error")
        ELSE IF run # None /\ ms # {}
        THEN Handled(IF \A r \in old : Immutable(r) THEN "ok" ELSE "error")
        ELSE /\ event' = FALSE /\ UNCHANGED cond
             /\ runner' = [IdleRunner EXCEPT
                            !.run = run,
                            !.row = IF run = None THEN (CHOOSE r \in old : TRUE).id ELSE 0,
                            !.pc = IF run # None THEN "row"
                                   ELSE IF \E r \in old : r.app THEN "terminate" ELSE "purge"]
  /\ UNCHANGED <<user, db, ops, agent, argo, done, gaveUp, inputs>>

\* handleNewGitOpsDeplSyncRunEvent; the foreign key asks for the Application row.
CreateRow ==
  /\ runner.pc = "row"
  /\ IF app
     THEN /\ FreeRowIds # {}
          /\ rows' = rows \union
               {[id |-> NewRowId, rev |-> runner.run.rev, app |-> TRUE, want |-> "Running"]}
          /\ runner' = [runner EXCEPT !.pc = "mapping", !.row = NewRowId]
          /\ UNCHANGED <<cond, event>>
     ELSE Return("error") /\ UNCHANGED rows
  /\ UNCHANGED <<user, dtam, app, mappings, ops, agent, argo, done, gaveUp, inputs>>

CreateMapping ==
  /\ runner.pc = "mapping"
  /\ mappings' = mappings \union {[uid |-> runner.run.uid, row |-> runner.row]}
  /\ runner' = [runner EXCEPT !.pc = "op"]
  /\ UNCHANGED <<user, cond, dtam, app, rows, ops, event, agent, argo, done, gaveUp, inputs>>

\* CreateOperation: an operation on the row that is Waiting is taken instead, and then
\* nobody waits for it.
CreateOperation(wait, next) ==
  LET same == {o \in ops : o.row = runner.row /\ o.state = "Waiting"}
  IN IF same = {}
     THEN /\ FreeOpIds # {}
          /\ ops' = ops \union {[id |-> NewOpId, row |-> runner.row, state |-> "Waiting"]}
          /\ notices' = notices \union {NewOpId}
          /\ runner' = [runner EXCEPT !.pc = wait, !.op = NewOpId]
     ELSE /\ runner' = [runner EXCEPT !.pc = next, !.op = (CHOOSE o \in same : TRUE).id]
          /\ UNCHANGED <<ops, notices>>

RequestSync ==
  /\ runner.pc = "op" /\ CreateOperation("poll", "poll")
  /\ UNCHANGED <<user, cond, db, event, waiting, tasks, argo, done, gaveUp, inputs>>

Ended(id) == \E o \in ops : o.id = id /\ o.state \in {"Completed", "Failed"}

\* The SyncRun was deleted, or replaced by another one of the name.
Abandoned == ~(run # None /\ run.uid = runner.run.uid)

\* The operation has ended, or need not be waited for: CleanupOperation deletes it.
PollOperation ==
  /\ runner.pc = "poll" /\ (Ended(runner.op) \/ Abandoned)
  /\ ops' = {o \in ops : o.id # runner.op}
  /\ Return("ok")
  /\ UNCHANGED <<user, db, agent, argo, done, gaveUp, inputs>>

\* The state of the operation cannot be read: the loop ends as if it were complete.
PollFails ==
  /\ runner.pc = "poll" /\ Input
  /\ ops' = {o \in ops : o.id # runner.op}
  /\ Return("ok") /\ gaveUp' = TRUE
  /\ UNCHANGED <<user, db, agent, argo, done>>

\* handleDeletedGitOpsDeplSyncRunEvent writes the whole row as it was read, with its
\* Application.
SetTerminated ==
  /\ runner.pc = "terminate"
  /\ IF RowOf(runner.row) = {} \/ ~app
     THEN Return("error") /\ UNCHANGED rows
     ELSE /\ rows' = {IF r.id = runner.row THEN [r EXCEPT !.app = TRUE, !.want = "Terminated"]
                                           ELSE r : r \in rows}
          /\ runner' = [runner EXCEPT !.pc = "terminateOp"] /\ UNCHANGED <<cond, event>>
  /\ UNCHANGED <<user, dtam, app, mappings, ops, agent, argo, done, gaveUp, inputs>>

RequestTermination ==
  /\ runner.pc = "terminateOp"
  /\ IF app
     THEN CreateOperation("wait", "purge") /\ UNCHANGED <<cond, event>>
     ELSE Return("error") /\ UNCHANGED <<ops, notices>>
  /\ UNCHANGED <<user, db, waiting, tasks, argo, done, gaveUp, inputs>>

\* waitForOperationToComplete; an operation that is gone is an error.
Waited ==
  /\ runner.pc = "wait" /\ ~\E o \in ops : o.id = runner.op /\ ~Ended(o.id)
  /\ IF Ended(runner.op)
     THEN runner' = [runner EXCEPT !.pc = "purge"] /\ UNCHANGED <<cond, event>>
     ELSE Return("error")
  /\ UNCHANGED <<user, db, ops, agent, argo, done, gaveUp, inputs>>

\* CleanupOperation and cleanupOldSyncDBEntry
DeleteRow ==
  /\ runner.pc = "purge"
  /\ rows' = rows \ RowOf(runner.row) /\ ops' = {o \in ops : o.row # runner.row}
  /\ runner' = [runner EXCEPT !.pc = "unmap"]
  /\ UNCHANGED <<user, cond, dtam, app, mappings, event, agent, argo, done, gaveUp, inputs>>

DeleteMapping ==
  /\ runner.pc = "unmap"
  /\ mappings' = {m \in mappings : m.row # runner.row}
  /\ Return("ok")
  /\ UNCHANGED <<user, dtam, app, rows, ops, agent, argo, done, gaveUp, inputs>>

\* the mapping is not disposed of
Disposed_rowOnly == mappings

\* DisposeApplicationScopedResources
Disposed == {m \in mappings : m.row # runner.row}

\* A call fails.  What a creation has made so far is disposed of, unless that fails too.
CallFails ==
  /\ runner.pc # "idle" /\ runner.pc # "poll" /\ Input
  /\ \/ /\ runner.pc \in {"mapping", "op"}
        /\ rows' = rows \ RowOf(runner.row)
        /\ mappings' = Disposed /\ UNCHANGED gaveUp
     \/ /\ gaveUp' = (gaveUp \/ runner.pc \in {"mapping", "op"})
        /\ UNCHANGED <<rows, mappings>>
  /\ Return("error")
  /\ UNCHANGED <<user, dtam, app, ops, agent, argo, done>>

\* Events come for the SyncRuns there are.
BackendRestarts ==
  /\ Input
  /\ runner' = IdleRunner /\ event' = (run # None) /\ gaveUp' = TRUE
  /\ UNCHANGED <<user, cond, db, ops, agent, argo, done>>
-----------------------------------------------------------------------------
(* The database reconciler                                                 *)

\* another SyncRun of the name keeps the rows
Orphaned_nameOnly(m) == run = None

\* isRowOrphaned
Orphaned(m) == ~(run # None /\ run.uid = m.uid)

\* cleanOrphanedEntriesfromTable_ACTDM_GitOpsDeploymentSyncRun; the operation it makes is
\* in the namespace of the SyncRun and is refused.  If the row has no Application any more
\* the SyncRun of that name is deleted.  If the job fails halfway the row stays.
CleanOrphanedMapping(m) ==
  /\ Orphaned(m)
  /\ mappings' = mappings \ {m}
  /\ \/ /\ rows' = rows \ RowOf(m.row)
        /\ LET delete == run # None /\ \E r \in RowOf(m.row) : ~r.app
           IN /\ run' = IF delete THEN None ELSE run
              /\ cond' = IF delete THEN "none" ELSE cond
              /\ event' = (event \/ delete)
        /\ UNCHANGED inputs
     \/ Input /\ UNCHANGED <<rows, run, cond, event>>
  /\ UNCHANGED <<depl, dtam, app, ops, runner, agent, argo, done, gaveUp>>

\* cleanOrphanedEntriesfromTable_SyncOperation: rows of the last hour are left alone, and
\* a mapping does not take an hour.
CleanOrphanedRow(r) ==
  /\ ~\E m \in mappings : m.row = r.id
  /\ ~(runner.row = r.id /\ runner.pc = "mapping") /\ rows' = rows \ {r}
  /\ UNCHANGED <<user, cond, dtam, app, mappings, ops, event, runner, agent, argo, done, gaveUp, inputs>>

\* cleanOrphanedEntriesfromTable_Operation: operations that have ended.
CleanOperation(o) ==
  /\ Ended(o.id) /\ runner.op # o.id /\ ops' = ops \ {o}
  /\ UNCHANGED <<user, cond, db, event, runner, agent, argo, done, gaveUp, inputs>>
-----------------------------------------------------------------------------
(* The cluster-agent, and Argo CD                                          *)

Announce(o) ==
  /\ ~Ended(o.id) /\ o.id \notin notices /\ ~\E t \in tasks \union waiting : t.op = o.id
  /\ notices' = notices \union {o.id}
  /\ UNCHANGED <<user, cond, db, ops, event, runner, waiting, tasks, argo, done, gaveUp, inputs>>

\* operationEventLoopRouter names a task after the row its operation is on.
TaskName(o) == o.row

\* addTask drops a task whose name is waiting.
Add(t) == IF \E w \in waiting : w.row = t.row THEN waiting ELSE waiting \union {t}

RouteEvent(id) ==
  /\ notices' = notices \ {id}
  /\ waiting' = waiting \union
       UNION {Add([op |-> id, row |-> TaskName(o), pc |-> "load"]) : o \in {p \in ops : p.id = id}}
  /\ UNCHANGED <<user, cond, db, ops, event, runner, tasks, argo, done, gaveUp, inputs>>

\* The task retry loop runs one task of a name at a time.
Busy(t) == \E u \in tasks : u.row = t.row

StartTask(t) ==
  /\ t \in waiting /\ ~Busy(t)
  /\ waiting' = waiting \ {t} /\ tasks' = tasks \union {t}
  /\ UNCHANGED <<user, cond, db, ops, event, runner, notices, argo, done, gaveUp, inputs>>

SetState(id, state) ==
  ops' = {IF o.id = id /\ ~Ended(id) THEN [o EXCEPT !.state = state] ELSE o : o \in ops}

\* The task has done what it can.
Finish(t, state) == SetState(t.op, state) /\ tasks' = tasks \ {t} /\ UNCHANGED waiting

\* a failed sync counts as an end
Retry_never(t) == Finish(t, "Completed")

\* The task is to be tried again.
Retry(t) ==
  /\ SetState(t.op, "In_Progress")
  /\ tasks' = tasks \ {t} /\ waiting' = Add([t EXCEPT !.pc = "load"])

\* internalPerformTask and processOperation_SyncOperation
LoadOperation(t) ==
  /\ t.pc = "load"
  /\ LET row == RowOf(t.row)
     IN IF Ended(t.op) \/ ~\E o \in ops : o.id = t.op
        THEN tasks' = tasks \ {t} /\ UNCHANGED <<ops, waiting>>
        ELSE IF row = {} THEN Finish(t, "Failed")
        ELSE IF \E r \in row : ~r.app THEN Retry(t)
        ELSE /\ SetState(t.op, "In_Progress")
             /\ tasks' = (tasks \ {t}) \union
                  {[t EXCEPT !.pc = IF r.want = "Running" THEN "sync" ELSE "terminate"] : r \in row}
             /\ UNCHANGED waiting
  /\ UNCHANGED <<user, cond, db, event, runner, notices, argo, done, gaveUp, inputs>>

\* AppSync asks Argo CD, which refuses while another sync is in progress.
AppSync(t) ==
  /\ t.pc = "sync"
  /\ IF app /\ argo = None
     THEN /\ argo' = [row |-> t.row, running |-> FALSE]
          /\ tasks' = (tasks \ {t}) \union {[t EXCEPT !.pc = "syncing"]}
          /\ UNCHANGED <<waiting, ops>>
     ELSE Retry(t) /\ UNCHANGED argo
  /\ UNCHANGED <<user, cond, db, event, runner, notices, done, gaveUp, inputs>>

\* runAppSync gives up when the row is gone or is to be terminated.
Cancelled(t) == ~\E r \in RowOf(t.row) : r.want = "Running"

CancelSync(t) ==
  /\ t.pc \in {"sync", "syncing"} /\ Cancelled(t) /\ Finish(t, "Completed")
  /\ UNCHANGED <<user, cond, db, event, runner, notices, argo, done, gaveUp, inputs>>

\* waitOnApplicationStatus: the sync is over.
SyncReturns(t) ==
  /\ t.pc = "syncing" /\ ~Cancelled(t) /\ ~(argo # None /\ argo.row = t.row)
  /\ IF t.row \in done THEN Finish(t, "Completed") ELSE Retry(t)
  /\ UNCHANGED <<user, cond, db, event, runner, notices, argo, done, gaveUp, inputs>>

\* terminateExistingOperation: whatever sync the Application is in.  One that Argo CD has
\* only been asked for may pass for none.
TerminateOperation(t) ==
  /\ t.pc = "terminate"
  /\ IF ~app THEN Retry(t) /\ UNCHANGED argo
     ELSE /\ Finish(t, "Completed")
          /\ \/ argo' = None
             \/ argo # None /\ ~argo.running /\ UNCHANGED argo
  /\ UNCHANGED <<user, cond, db, event, runner, notices, done, gaveUp, inputs>>

TaskFails(t) ==
  /\ Input /\ Retry(t)
  /\ UNCHANGED <<user, cond, db, event, runner, notices, argo, done, gaveUp>>

\* Argo CD takes up the sync, and ends it.
StartSync ==
  /\ argo # None /\ ~argo.running /\ argo' = [argo EXCEPT !.running = TRUE]
  /\ UNCHANGED <<user, cond, db, ops, event, runner, agent, done, gaveUp, inputs>>

EndSync ==
  /\ argo # None /\ argo.running /\ argo' = None
  /\ \/ done' = done \union {argo.row} /\ UNCHANGED inputs
     \/ Input /\ UNCHANGED done
  /\ UNCHANGED <<user, cond, db, ops, event, runner, agent, gaveUp>>

AgentRestarts ==
  /\ Input
  /\ waiting' = {} /\ tasks' = {} /\ notices' = {o.id : o \in ops}
  /\ UNCHANGED <<user, cond, db, ops, event, runner, argo, done, gaveUp>>
-----------------------------------------------------------------------------
UserStep ==
  \/ CreateRun \/ ChangeRevision \/ DeleteRun
  \/ \E type \in {"manual", "auto", "gone"} : ChangeDeployment(type)

Runner ==
  \/ StartEvent \/ CreateRow \/ CreateMapping \/ RequestSync \/ PollOperation
  \/ SetTerminated \/ RequestTermination \/ Waited \/ DeleteRow \/ DeleteMapping

Sweeps ==
  \/ DetachApplication \/ DeleteApplication
  \/ \E m \in mappings : CleanOrphanedMapping(m)
  \/ \E r \in rows : CleanOrphanedRow(r)
  \/ \E o \in ops : CleanOperation(o)

Watch ==
  \/ \E o \in ops : Announce(o)
  \/ \E id \in notices : RouteEvent(id)

\* What the cluster-agent does for the operations on one row.
TaskOf(row) ==
  \/ \E t \in waiting : t.row = row /\ StartTask(t)
  \/ \E t \in tasks :
       /\ t.row = row
       /\ LoadOperation(t) \/ AppSync(t) \/ CancelSync(t) \/ SyncReturns(t) \/ TerminateOperation(t)

ArgoCD == StartSync \/ EndSync

Next ==
  \/ UserStep \/ Runner \/ Sweeps \/ ArgoCD \/ Watch
  \/ \E row \in Id : TaskOf(row)
  \/ \E t \in tasks : TaskFails(t)
  \/ PollFails \/ CallFails \/ BackendRestarts \/ AgentRestarts

\* Every loop and every periodic job goes on, and so does the cluster-agent with each of
\* its tasks; Argo CD ends what it is asked for.
Fairness ==
  /\ WF_vars(Runner) /\ WF_vars(Sweeps) /\ WF_vars(ArgoCD) /\ WF_vars(Watch)
  /\ \A row \in Id : WF_vars(TaskOf(row))

Spec == Init /\ [][Next]_vars /\ Fairness
-----------------------------------------------------------------------------
(* Properties                                                              *)

\* An operation on a row that is still wanted is recorded as Completed only when Argo CD
\* has synced that row (runAppSync and PerformTask: a sync that failed, was refused or was
\* ended by somebody else is tried again).
CompletedIsSynced ==
  \A o \in ops, r \in rows :
    o.row = r.id /\ o.state = "Completed" /\ r.want = "Running" => r.id \in done

\* A SyncRun that is handled and shows no error is in the database with the revision it
\* has now (handleUpdatedGitOpsDeplSyncRunEvent, and the disposal of half a creation).
OkIsAccepted ==
  runner.pc = "idle" /\ ~event /\ run # None /\ cond = "ok" =>
    \E m \in mappings, r \in rows : m.uid = run.uid /\ m.row = r.id /\ r.rev = run.rev

\* A SyncRun that stays is synced in the end, whatever else fails, as long as its
\* GitOpsDeployment stays with type manual and the runner does not lose track of the
\* operation: it cannot read the operation's state, cannot dispose of half a creation, or
\* restarts (handleNewGitOpsDeplSyncRunEvent).
EndsSynced ==
  <>[](\/ gaveUp \/ run = None \/ depl # "manual"
       \/ \E m \in mappings : m.uid = run.uid /\ m.row \in done)

\* In the end the rows are those of the SyncRun there is; and when there is none, the
\* runner and the cluster-agent have come to rest and the Application of a
\* GitOpsDeployment that is gone could be deleted.
Heals ==
  <>[](/\ \A m \in mappings : run # None /\ m.uid = run.uid
       /\ \A r \in rows : \E m \in mappings : m.row = r.id
       /\ run = None => /\ runner.pc = "idle" /\ ops = {} /\ tasks = {}
                        /\ depl = "gone" => ~app)

\* Rows, operations and tasks are well formed, a row that has an Application keeps it in
\* the database (the foreign key of SyncOperation), and no SyncRun that is not in the
\* database shows success.
SyncRunInv == TypeOK /\ (\A r \in rows : r.app => app) /\ OkIsAccepted
=============================================================================
