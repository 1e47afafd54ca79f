------------------------ MODULE ApplicationEventLoop ------------------------
(***************************************************************************)
(* How the backend handles the events of one GitOpsDeployment name:        *)
(*  - the workspace event loop (backend/eventloop/workspace_event_loop.go) *)
(*    receives all events of a namespace, keeps SyncRuns whose             *)
(*    GitOpsDeployment is missing in orphanedResources, and passes the     *)
(*    others to the application event loop of the GitOpsDeployment, which  *)
(*    it starts when there is none or the old one has shut down;           *)
(*  - the application event loop (application_event_loop.go) queues events *)
(*    for two runners, a status timer among them, and gives each runner    *)
(*    one event at a time;                                                 *)
(*  - the deployment runner (application_event_runner.go) reconciles the   *)
(*    database with the GitOpsDeployment, and may ask for shutdown.        *)
(*                                                                         *)
(* All channels are unbuffered: a send and its receipt are one step.  The  *)
(* request of the workspace loop and the reply are one step as well: each  *)
(* side does nothing else meanwhile.                                       *)
(*                                                                         *)
(* Abstracted: an event names a resource, which is read when the event is  *)
(* handled, so equal events on their way to the workspace loop are one.    *)
(* The database is the set of the GitOpsDeployments (uids) that have rows  *)
(* (dtams).  What the sync runner does with a SyncRun is left out, and     *)
(* whether the row of a deleted SyncRun names the GitOpsDeployment is a    *)
(* free choice.  A GitOpsDeploymentManagedEnvironment has another name     *)
(* than the GitOpsDeployment.  The goroutines that keep waiting to send to *)
(* an application event loop that has terminated are dropped.              *)
(***************************************************************************)
EXTENDS Naturals, Sequences, FiniteSets

CONSTANTS
  SyncRuns,     \* names of GitOpsDeploymentSyncRuns for the GitOpsDeployment
  MaxUid,       \* bounds how often the GitOpsDeployment is created
  MaxWaiting,   \* bounds the events that wait for the deployment runner
  MaxInputs     \* bounds the creations, changes of SyncRuns and failing calls together

ASSUME BoundsAssumption == MaxUid \in Nat /\ MaxWaiting \in Nat /\ MaxInputs \in Nat
ASSUME SyncRunsAssumption == SyncRuns \intersect {"deployment", "managedEnv", "none"} = {}

VARIABLES
  cr,        \* the GitOpsDeployment: uid (0: none), terminating
  lastUid,   \* the uid given to the latest GitOpsDeployment
  syncCRs,   \* the SyncRuns that exist
  dtams,     \* uids of the GitOpsDeployments that have rows in the database
  inbox,     \* events on their way to the workspace event loop
  orphaned,  \* orphanedResources
  loop,      \* the application event loop in applicationMap (see Loop)
  runner,    \* its deployment runner
  faults,    \* calls that have failed
  syncs      \* changes of SyncRuns

vars == <<cr, lastUid, syncCRs, dtams, inbox, orphaned, loop, runner, faults, syncs>>
k8sVars == <<cr, lastUid, syncCRs, syncs>>

NoCR == [uid |-> 0, terminating |-> FALSE]
isGitOpsDeploymentDeleted(c) == c.uid = 0 \/ c.terminating

DeploymentEvents == {"deployment", "managedEnv", "tick"}

\* applicationEventQueueLoopState; timers counts the goroutines that will send a
\* tick, envSender is one that sends a managed environment event; stuck: the loop
\* waits for ever for a runner that has ended.
Loop ==
  [mapped : BOOLEAN, stuck : BOOLEAN,
   waitingD : Seq(DeploymentEvents), activeD : DeploymentEvents \union {"none"},
   waitingS : Seq(SyncRuns), activeS : SyncRuns \union {"none"},
   shutdownD : BOOLEAN, shutdownS : BOOLEAN,
   timers : Nat, envSender : BOOLEAN]

NewLoop ==
  [mapped |-> TRUE, stuck |-> FALSE, waitingD |-> <<>>, activeD |-> "none",
   waitingS |-> <<>>, activeS |-> "none", shutdownD |-> FALSE, shutdownS |-> FALSE,
   timers |-> 1, envSender |-> FALSE]

NoLoop == [NewLoop EXCEPT !.mapped = FALSE, !.timers = 0]

\* The deployment runner: waits for an event (idle), reads the GitOpsDeployment,
\* reconciles the database, reads it again, reports (done); or has ended.
Runner ==
  [pc : {"idle", "read", "reconcile", "recheck", "done", "ended"},
   seen : [uid : 0..MaxUid, terminating : BOOLEAN], err : BOOLEAN, signal : BOOLEAN]

NewRunner == [pc |-> "idle", seen |-> NoCR, err |-> FALSE, signal |-> FALSE]

TypeOK ==
  /\ cr \in [uid : 0..MaxUid, terminating : BOOLEAN]
  /\ lastUid \in 0..MaxUid
  /\ syncCRs \subseteq SyncRuns
  /\ dtams \subseteq 1..MaxUid
  /\ inbox \subseteq {"deployment"} \union SyncRuns
  /\ orphaned \subseteq SyncRuns
  /\ loop \in Loop
  /\ runner \in Runner
  /\ faults \in 0..MaxInputs /\ syncs \in 0..MaxInputs

Init ==
  /\ cr = NoCR
  /\ lastUid = 0
  /\ syncCRs = {}
  /\ dtams = {}
  /\ inbox = {}
  /\ orphaned = {}
  /\ loop = NoLoop
  /\ runner = NewRunner
  /\ faults = 0 /\ syncs = 0

Input == lastUid + syncs + faults < MaxInputs
Fault == Input /\ faults' = faults + 1
-----------------------------------------------------------------------------
(* Mutants: plausible bugs, each of the shape of an operator below.        *)

\* an event waiting for the deployment runner is sent to it although it has ended
CanSendD_afterShutdown(L) == L.waitingD # <<>> /\ L.activeD = "none"

\* the shutdown signal of the runner is not looked at
WorkCompleteD_ignoresSignal(L) ==
  [L EXCEPT !.activeD = "none", !.timers = IF L.activeD = "tick" THEN @ + 1 ELSE @]

\* orphans are not looked at when the GitOpsDeployment's event arrives and the
\* application event loop runs already
Unorphaned_onlyIfNew == IF cr.uid # 0 /\ ~loop.mapped THEN orphaned ELSE {}

\* the rows of an earlier GitOpsDeployment of that name are left alone
RowsAfter_keepsOld(c) ==
  IF isGitOpsDeploymentDeleted(c) THEN dtams ELSE dtams \union {c.uid}
-----------------------------------------------------------------------------
(* The namespace: users, Kubernetes, and the watches of the controllers.   *)

CreateDeployment ==
  /\ cr.uid = 0 /\ lastUid < MaxUid /\ Input
  /\ lastUid' = lastUid + 1
  /\ cr' = [uid |-> lastUid + 1, terminating |-> FALSE]
  /\ inbox' = inbox \union {"deployment"}
  /\ UNCHANGED <<syncCRs, dtams, orphaned, loop, runner, faults, syncs>>

\* With a finalizer the GitOpsDeployment stays, terminating.
DeleteDeployment ==
  /\ cr.uid # 0 /\ ~cr.terminating
  /\ cr' \in {NoCR, [cr EXCEPT !.terminating = TRUE]}
  /\ inbox' = inbox \union {"deployment"}
  /\ UNCHANGED <<lastUid, syncCRs, dtams, orphaned, loop, runner, faults, syncs>>

\* The last finalizer, one of somebody else, is removed.
DeploymentGone ==
  /\ cr.terminating
  /\ cr' = NoCR
  /\ inbox' = inbox \union {"deployment"}
  /\ UNCHANGED <<lastUid, syncCRs, dtams, orphaned, loop, runner, faults, syncs>>

ChangeSyncRun(s) ==
  /\ Input /\ syncs' = syncs + 1
  /\ syncCRs' = IF s \in syncCRs THEN syncCRs \ {s} ELSE syncCRs \union {s}
  /\ Len(loop.waitingS) < MaxWaiting
  /\ inbox' = inbox \union {s}
  /\ UNCHANGED <<cr, lastUid, dtams, orphaned, loop, runner, faults>>

\* controller-runtime reconciles every resource that exists again, periodically.
Resync ==
  /\ Len(loop.waitingD) < MaxWaiting /\ Len(loop.waitingS) < MaxWaiting
  /\ inbox' = inbox \union syncCRs \union (IF cr.uid # 0 THEN {"deployment"} ELSE {})
  /\ UNCHANGED <<k8sVars, dtams, orphaned, loop, runner, faults>>
-----------------------------------------------------------------------------
(* The application event loop: processApplicationEventQueueLoopMessage.    *)

workRejected(L) == L.shutdownD /\ L.shutdownS

\* An event is queued for its runner, or ignored if that has shut down.
QueueD(L, e) == IF L.shutdownD THEN L ELSE [L EXCEPT !.waitingD = Append(@, e)]
QueueS(L, s) == IF L.shutdownS THEN L ELSE [L EXCEPT !.waitingS = Append(@, s)]
Queue(L, e) == IF e \in SyncRuns THEN QueueS(L, e) ELSE QueueD(L, e)

\* The end of every iteration: hand an event to each runner that is not working;
\* once the deployment runner has shut down and no SyncRun is left, shut the sync
\* runner down as well.
CanSendD(L) == L.waitingD # <<>> /\ L.activeD = "none" /\ ~L.shutdownD

SendD(L, ready) ==
  IF ~CanSendD(L) THEN L
  ELSE [L EXCEPT !.activeD = Head(L.waitingD), !.waitingD = Tail(@), !.stuck = ~ready]

SendS(L) ==
  IF L.waitingS # <<>> /\ L.activeS = "none" /\ ~L.shutdownS
    THEN [L EXCEPT !.activeS = Head(L.waitingS), !.waitingS = Tail(@)]
    ELSE L

ShutdownS(L) ==
  IF L.shutdownD /\ L.waitingS = <<>> /\ L.activeS = "none"
    THEN [L EXCEPT !.shutdownS = TRUE]
    ELSE L

\* r: the deployment runner as it is when the loop has received its message.
EndIteration(L, r) ==
  /\ loop' = ShutdownS(SendS(SendD(L, r.pc = "idle")))
  /\ runner' = IF CanSendD(L) /\ r.pc = "idle" THEN [r EXCEPT !.pc = "read"] ELSE r

\* A tick or a managed environment event: nobody waits for a reply.
ReceiveAsync(L, e) ==
  IF workRejected(L) THEN loop' = L /\ UNCHANGED runner ELSE EndIteration(QueueD(L, e), runner)

ReceiveTick ==
  /\ loop.mapped /\ ~loop.stuck /\ loop.timers > 0
  /\ ReceiveAsync([loop EXCEPT !.timers = @ - 1], "tick")
  /\ UNCHANGED <<k8sVars, dtams, inbox, orphaned, faults>>

ReceiveManagedEnvironment ==
  /\ loop.mapped /\ ~loop.stuck /\ loop.envSender
  /\ ReceiveAsync([loop EXCEPT !.envSender = FALSE], "managedEnv")
  /\ UNCHANGED <<k8sVars, dtams, inbox, orphaned, faults>>

WorkCompleteD(L) ==
  IF L.activeD = "tick"
    THEN [L EXCEPT !.activeD = "none", !.timers = @ + 1]
    ELSE [L EXCEPT !.activeD = "none", !.shutdownD = runner.signal]

ReceiveWorkCompleteD ==
  /\ loop.mapped /\ ~loop.stuck
  /\ runner.pc = "done"
  /\ EndIteration(WorkCompleteD(loop),
                  [NewRunner EXCEPT !.pc = IF runner.signal THEN "ended" ELSE "idle"])
  /\ UNCHANGED <<k8sVars, dtams, inbox, orphaned, faults>>

\* The sync runner never asks for shutdown.
ReceiveWorkCompleteS ==
  /\ loop.mapped /\ ~loop.stuck
  /\ loop.activeS # "none"
  /\ EndIteration([loop EXCEPT !.activeS = "none"], runner)
  /\ UNCHANGED <<k8sVars, dtams, inbox, orphaned, faults>>
-----------------------------------------------------------------------------
(* The workspace event loop.                                               *)

\* The end of handleWorkspaceEventLoopMessage: start an application event loop if
\* there is none, send it e, and wait for its reply.  A rejected event is sent to
\* the workspace event loop again; the application event loop has terminated.
PassToApplication(e, rest) ==
  IF loop.mapped /\ workRejected(loop)
    THEN /\ loop' = NoLoop /\ runner' = NewRunner
         /\ inbox' = rest \union {e}
    ELSE /\ EndIteration(Queue(IF loop.mapped THEN loop ELSE NewLoop, e), runner)
         /\ inbox' = rest

\* unorphanResourcesIfPossible: what is sent to the workspace event loop again.
Unorphaned == IF cr.uid # 0 THEN orphaned ELSE {}

HandleDeploymentEvent ==
  /\ "deployment" \in inbox /\ ~loop.stuck
  /\ \/ /\ orphaned' = orphaned \ Unorphaned
        /\ PassToApplication("deployment", (inbox \ {"deployment"}) \union Unorphaned)
        /\ UNCHANGED faults
     \/ /\ orphaned # {} /\ Fault
        /\ PassToApplication("deployment", inbox \ {"deployment"})
        /\ UNCHANGED orphaned
  /\ UNCHANGED <<k8sVars, dtams>>

\* checkIfOrphanedGitOpsDeploymentSyncRun
OrphanedWith(s) == orphaned \union {s}

HandleSyncRunEvent(s) ==
  /\ s \in inbox /\ ~loop.stuck
  /\ \/ /\ s \in syncCRs /\ cr.uid = 0
        /\ orphaned' = OrphanedWith(s)
        /\ inbox' = inbox \ {s}
        /\ UNCHANGED <<loop, runner, faults>>
     \/ /\ s \in syncCRs => cr.uid # 0
        /\ PassToApplication(s, inbox \ {s})
        /\ UNCHANGED <<orphaned, faults>>
     \* the SyncRun is gone and was never recorded in the database
     \/ /\ s \notin syncCRs
        /\ inbox' = inbox \ {s}
        /\ UNCHANGED <<orphaned, loop, runner, faults>>
     \* an error: the event is dropped
     \/ /\ Fault
        /\ inbox' = inbox \ {s}
        /\ UNCHANGED <<orphaned, loop, runner>>
  /\ UNCHANGED <<k8sVars, dtams>>

\* workspace_resource_event_loop.go has processed a managed environment and tells
\* the workspace event loop, which can happen any time.
handleManagedEnvProcessedMessage ==
  /\ loop.mapped /\ ~loop.stuck /\ Len(loop.waitingD) < MaxWaiting
  /\ loop' = [loop EXCEPT !.envSender = TRUE]
  /\ UNCHANGED <<k8sVars, dtams, inbox, orphaned, runner, faults>>

\* The status check finds that the application event loop has shut down.
handleStatusTickerMessage ==
  /\ loop.mapped /\ workRejected(loop)
  /\ loop' = NoLoop
  /\ runner' = NewRunner
  /\ UNCHANGED <<k8sVars, dtams, inbox, orphaned, faults>>
-----------------------------------------------------------------------------
(* The deployment runner.                                                  *)

\* A status tick changes no row that is modelled.  For a managed environment the
\* runner looks whether the GitOpsDeployment exists and refers to it.
RunnerReads ==
  /\ runner.pc = "read"
  /\ \/ /\ loop.activeD \in {"tick", "managedEnv"}
        /\ runner' = [NewRunner EXCEPT !.pc = "done"]
     \/ /\ loop.activeD = "deployment" \/ (loop.activeD = "managedEnv" /\ cr.uid # 0)
        /\ runner' = [NewRunner EXCEPT !.pc = "reconcile", !.seen = cr]
  /\ UNCHANGED <<k8sVars, dtams, inbox, orphaned, loop, faults>>

\* The rows of this name after a reconcile that read GitOpsDeployment c.
RowsAfter(c) == IF isGitOpsDeploymentDeleted(c) THEN {} ELSE {c.uid}

\* The finalizer is removed when the rows are gone; there may be others.
RemoveFinalizer(c) ==
  IF c.terminating /\ cr = c
    THEN \/ cr' = NoCR /\ inbox' = inbox \union {"deployment"}
         \/ UNCHANGED <<cr, inbox>>
    ELSE UNCHANGED <<cr, inbox>>

\* applicationEventRunner_handleDeploymentModified.  An error comes before the rows
\* are touched, after old ones are gone, or (creating or waiting for the Operation,
\* removing the finalizer) when all rows are as they should be.
RunnerReconciles ==
  /\ runner.pc = "reconcile"
  /\ \/ /\ dtams' = RowsAfter(runner.seen)
        /\ RemoveFinalizer(runner.seen)
        /\ runner' = [runner EXCEPT !.pc = "recheck", !.err = FALSE,
                                    !.signal = isGitOpsDeploymentDeleted(runner.seen)]
        /\ UNCHANGED faults
     \/ /\ Fault
        /\ dtams' \in {dtams, dtams \intersect RowsAfter(runner.seen), RowsAfter(runner.seen)}
        /\ runner' = [runner EXCEPT !.pc = "recheck", !.err = TRUE, !.signal = FALSE]
        /\ UNCHANGED <<cr, inbox>>
  /\ UNCHANGED <<lastUid, syncCRs, orphaned, loop, syncs>>

\* handleDeploymentModified reads the GitOpsDeployment again, by the name in the
\* event: for a managed environment event that is the environment's name.
RunnerRechecks ==
  /\ runner.pc = "recheck"
  /\ LET found == loop.activeD = "deployment" /\ cr.uid # 0 IN
       \/ /\ ~found
          /\ runner' = [runner EXCEPT !.pc = "done", !.signal = FALSE]
          /\ UNCHANGED faults
       \/ /\ found
          /\ runner' = [runner EXCEPT !.pc = IF runner.err THEN "read" ELSE "done"]
          /\ UNCHANGED faults
       \/ /\ Fault
          /\ runner' = [runner EXCEPT !.pc = "read"]
  /\ UNCHANGED <<k8sVars, dtams, inbox, orphaned, loop>>
-----------------------------------------------------------------------------
\* The database reconciler removes the rows of a GitOpsDeployment that is gone
\* (db_reconciler.go, cleanOrphanedEntriesfromTable_DTAM).
CleanOrphanedRows(u) ==
  /\ u \in dtams /\ u # cr.uid
  /\ dtams' = dtams \ {u}
  /\ UNCHANGED <<k8sVars, inbox, orphaned, loop, runner, faults>>

Next ==
  \/ CreateDeployment \/ DeleteDeployment \/ DeploymentGone
  \/ \E s \in SyncRuns : ChangeSyncRun(s) \/ HandleSyncRunEvent(s)
  \/ Resync
  \/ HandleDeploymentEvent \/ handleManagedEnvProcessedMessage \/ handleStatusTickerMessage
  \/ ReceiveTick \/ ReceiveManagedEnvironment \/ ReceiveWorkCompleteD \/ ReceiveWorkCompleteS
  \/ RunnerReads \/ RunnerReconciles \/ RunnerRechecks
  \/ \E u \in 1..MaxUid : CleanOrphanedRows(u)

(***************************************************************************)
(* Fairness.  The goroutines are scheduled and blocked senders are served  *)
(* in the order they blocked; the watch resyncs and the periodic jobs run. *)
(***************************************************************************)
Fairness ==
  /\ WF_vars(HandleDeploymentEvent)
  /\ WF_vars(handleStatusTickerMessage)
  /\ \A s \in SyncRuns : WF_vars(HandleSyncRunEvent(s))
  /\ WF_vars(ReceiveTick) /\ WF_vars(ReceiveManagedEnvironment)
  /\ WF_vars(ReceiveWorkCompleteD) /\ WF_vars(ReceiveWorkCompleteS)
  /\ WF_vars(RunnerReads \/ RunnerReconciles \/ RunnerRechecks)
  /\ SF_vars(Resync)
  /\ \A u \in 1..MaxUid : WF_vars(CleanOrphanedRows(u))

Spec == Init /\ [][Next]_vars /\ Fairness
-----------------------------------------------------------------------------
(* Properties *)

\* The application event loop never waits for a runner that will not receive: it
\* would take the workspace event loop, and the whole namespace, with it
\* (application_event_loop.go:380).
NeverStuck == ~loop.stuck

\* "Only one deployment event is processed at a time" (application_event_loop.go:
\* 123): the runner works exactly when the loop has an active event, and it has
\* ended exactly when the loop knows.
RunnerMatchesLoop ==
  /\ runner.pc \in {"read", "reconcile", "recheck", "done"} <=> loop.activeD # "none"
  /\ runner.pc = "ended" <=> loop.shutdownD

\* "This ensures we are always reminded to do a status update"
\* (application_event_loop.go:302), and only once per period: as long as the
\* deployment runner lives there is exactly one tick, in a timer, in the queue or
\* at work.
TicksInQueue == Cardinality({i \in DOMAIN loop.waitingD : loop.waitingD[i] = "tick"})

OneTick ==
  loop.mapped /\ ~loop.shutdownD =>
    loop.timers + TicksInQueue + (IF loop.activeD = "tick" THEN 1 ELSE 0) = 1

\* An orphaned SyncRun is taken up again: as long as no call fails, when its
\* GitOpsDeployment exists the event that will unorphan it is on its way, however
\* the two were created and whatever the event loops do meanwhile
\* (workspace_event_loop.go:282).
OrphansAreWatched ==
  orphaned # {} /\ cr.uid # 0 /\ faults = 0 => "deployment" \in inbox

\* Once nothing fails any more and the user stops, the database has the rows of
\* the GitOpsDeployment that exists and of no other (deployments.go:52), although
\* events are dropped when a runner shuts down and errors are not always retried.
\* The sync runner must be without work now and then: an application event loop
\* whose deployment runner has shut down goes on as long as it has SyncRuns.
Reconciled ==
  <>[][UNCHANGED k8sVars]_vars /\ []<>(loop.activeS = "none")
    => <>[](dtams = IF isGitOpsDeploymentDeleted(cr) THEN {} ELSE {cr.uid})

\* Loop and runner agree: on who works, on who has ended and on the one status tick.
EventLoopInv == TypeOK /\ RunnerMatchesLoop /\ OneTick
=============================================================================
