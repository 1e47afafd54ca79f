----------------------------- MODULE PromotionRun -----------------------------
(***************************************************************************)
(* The PromotionRun controller of appstudio-controller                     *)
(* (promotionrun_controller.go): a run has the SnapshotEnvironmentBinding  *)
(* of its application and environment point to its snapshot, and waits     *)
(* until the binding's GitOpsDeployments are synced and healthy.  Runs of  *)
(* one application take turns.                                             *)
(*                                                                         *)
(* One application, one environment.  The controller runs one reconcile at *)
(* a time; its reads are made in one step, each write is a step.  A write  *)
(* fails if its object has changed since it was read, and any may fail.    *)
(* The binding's controller (SnapshotBinding) is reduced to what it does   *)
(* to the deployments.                                                     *)
(*                                                                         *)
(* Abstracted: conditions and the status per environment, which no         *)
(* controller reads; automated promotions and runs without environment,    *)
(* which are refused; a run has the snapshot of its own number.            *)
(***************************************************************************)
EXTENDS Naturals

CONSTANTS
  Comps,        \* components of the application
  NumRuns,      \* PromotionRuns, numbered in the order they are created
  None,
  MaxInputs     \* bounds the runs, the changes made by others and the calls that fail

ASSUME BoundsAssumption == NumRuns \in Nat /\ MaxInputs \in Nat
Runs == 1..NumRuns

VARIABLES
  binding,      \* the SnapshotEnvironmentBinding
  deps,         \* status of the GitOpsDeployment of each component
  snapshots,    \* the runs whose Snapshot exists
  runs,         \* PromotionRuns
  queue,        \* requests
  promoter,     \* the reconcile that runs
  inputs

vars == <<binding, deps, snapshots, runs, queue, promoter, inputs>>

Binding == [there : BOOLEAN, snapshot : Runs \union {None}, deployed : BOOLEAN]
NoBinding == [there |-> FALSE, snapshot |-> None, deployed |-> FALSE]
Statuses == {"OutOfSync", "Synced", "Healthy"}
Run == [stamp : Nat, state : {"none", "", "Active", "Waiting", "Complete"}, started : BOOLEAN,
        late : BOOLEAN, result : {"", "Success", "Failure"}]
NoRun == [stamp |-> 0, state |-> "none", started |-> FALSE, late |-> FALSE, result |-> ""]
Promoter == [pc : {"idle", "activate", "setSnapshot", "setActiveBinding", "check"},
             run : Runs \union {None}, seen : Binding]
IdlePromoter == [pc |-> "idle", run |-> None, seen |-> NoBinding]

TypeOK ==
  /\ binding \in Binding
  /\ deps \in [Comps -> Statuses \union {None}]
  /\ snapshots \subseteq Runs
  /\ runs \in [Runs -> Run]
  /\ queue \subseteq Runs /\ promoter \in Promoter
  /\ inputs \in 0..MaxInputs
  /\ \A r \in Runs : runs[r].result # "" <=> runs[r].state = "Complete"
  /\ binding.there \/ binding = NoBinding

Init ==
  /\ binding = NoBinding
  /\ deps = [k \in Comps |-> None]
  /\ snapshots \in SUBSET Runs
  /\ runs = [r \in Runs |-> NoRun]
  /\ queue = {} /\ promoter = IdlePromoter
  /\ inputs = 0

Input == inputs < MaxInputs /\ inputs' = inputs + 1
-----------------------------------------------------------------------------
(* Mutants *)

\* runs that are waiting do not count
ActiveBefore_notWaiting(r) ==
  {q \in Runs : runs[q].state \in {"", "Active"} /\ runs[q].stamp < runs[r].stamp}

\* the snapshot is only set if the binding has none
NeedsSnapshot_unset(r) == promoter.seen.snapshot = None

\* a run that is late goes on waiting for its deployments
TimedOut_whenHealthy(r) == runs[r].late /\ \A k \in Comps : deps[k] # "Synced"
-----------------------------------------------------------------------------
(* Users, the binding's controller, managed-gitops and time.               *)

\* Creation timestamps have a precision of one second.
CreateRun(r, later) ==
  /\ Input
  /\ runs[r].state = "none" /\ \A q \in Runs : q < r => runs[q].state # "none"
  /\ runs' = [runs EXCEPT ![r] = [NoRun EXCEPT !.state = "",
                                    !.stamp = IF r = 1 THEN 1 ELSE runs[r - 1].stamp + later]]
  /\ queue' = queue \union {r}
  /\ UNCHANGED <<binding, deps, snapshots, promoter>>

\* The binding's controller makes the deployments and lists them; it, or a user, takes
\* them away again.
ChangeDeployments(deployed) ==
  /\ binding.there /\ binding.deployed # deployed
  /\ IF deployed THEN UNCHANGED inputs ELSE Input
  /\ binding' = [binding EXCEPT !.deployed = deployed]
  /\ deps' = [k \in Comps |-> IF deployed THEN "OutOfSync" ELSE None]
  /\ UNCHANGED <<snapshots, runs, queue, promoter>>

DeleteBinding ==
  /\ Input
  /\ binding.there /\ binding' = NoBinding
  /\ deps' = [k \in Comps |-> None]
  /\ UNCHANGED <<snapshots, runs, queue, promoter>>

\* managed-gitops reports what Argo CD makes of a deployment.
ReportStatus(k, status) ==
  /\ deps[k] # None /\ deps[k] # status
  /\ IF status = "Healthy" THEN UNCHANGED inputs ELSE Input
  /\ deps' = [deps EXCEPT ![k] = status]
  /\ UNCHANGED <<binding, snapshots, runs, queue, promoter>>

\* PromotionRunTimeOutLimit has passed since the run was started.
RunGetsLate(r) ==
  /\ runs[r].started /\ ~runs[r].late /\ runs[r].state # "Complete"
  /\ runs' = [runs EXCEPT ![r].late = TRUE]
  /\ UNCHANGED <<binding, deps, snapshots, queue, promoter, inputs>>

\* controller-runtime has every object reconciled from time to time.
Resync(r) ==
  /\ runs[r].state \notin {"none", "Complete"}
  /\ queue' = queue \union {r}
  /\ UNCHANGED <<binding, deps, snapshots, runs, promoter, inputs>>
-----------------------------------------------------------------------------
(* PromotionRunReconciler                                                  *)

\* checkForExistingActivePromotions
ActiveBefore(r) ==
  {q \in Runs : runs[q].state \in {"", "Active", "Waiting"} /\ runs[q].stamp < runs[r].stamp}

\* A run that is complete is ignored.  One that has to wait for another writes the
\* time in a condition, which raises an event unless it is the time written before.
SkipRun(r) ==
  /\ promoter.pc = "idle" /\ r \in queue
  /\ \/ runs[r].state = "Complete" /\ queue' = queue \ {r}
     \/ runs[r].state # "Complete" /\ ActiveBefore(r) # {} /\ queue' \in {queue, queue \ {r}}
  /\ UNCHANGED <<binding, deps, snapshots, runs, promoter, inputs>>

\* A failure to create the binding is not retried.
locateOrCreateTargetManualBinding(r) ==
  /\ promoter.pc = "idle" /\ r \in queue
  /\ runs[r].state # "Complete" /\ ActiveBefore(r) = {}
  /\ queue' = queue \ {r}
  /\ \/ /\ binding' = IF binding.there THEN binding
                      ELSE [NoBinding EXCEPT !.there = TRUE, !.snapshot = r]
        /\ promoter' = [pc |-> "activate", run |-> r, seen |-> binding']
        /\ UNCHANGED inputs
     \/ /\ ~binding.there /\ Input
        /\ UNCHANGED <<binding, promoter>>
  /\ UNCHANGED <<deps, snapshots, runs>>

\* A write of the run's status raises an event, if it changes anything.
WriteRun(r, new) ==
  /\ runs' = [runs EXCEPT ![r] = new]
  /\ queue' = IF new # runs[r] THEN queue \union {r} ELSE queue

NeedsSnapshot(r) == promoter.seen.snapshot # r \/ ~runs[r].started

\* Nothing more is done for a run whose snapshot does not exist.
Activate ==
  /\ promoter.pc = "activate"
  /\ LET r == promoter.run IN
       /\ WriteRun(r, [runs[r] EXCEPT !.state = "Active"])
       /\ promoter' = IF r \notin snapshots THEN IdlePromoter
                      ELSE [promoter EXCEPT !.pc = IF NeedsSnapshot(r) THEN "setSnapshot"
                                                   ELSE "check"]
  /\ UNCHANGED <<binding, deps, snapshots, inputs>>

SetSnapshot ==
  /\ promoter.pc = "setSnapshot" /\ binding = promoter.seen
  /\ binding' = [binding EXCEPT !.snapshot = promoter.run]
  /\ promoter' = [promoter EXCEPT !.pc = "setActiveBinding", !.seen = binding']
  /\ UNCHANGED <<deps, snapshots, runs, queue, inputs>>

SetActiveBinding ==
  /\ promoter.pc = "setActiveBinding"
  /\ WriteRun(promoter.run, [runs[promoter.run] EXCEPT !.started = TRUE])
  /\ promoter' = [promoter EXCEPT !.pc = "check"]
  /\ UNCHANGED <<binding, deps, snapshots, inputs>>

Completed(r, result) == [runs[r] EXCEPT !.state = "Complete", !.result = result]
TimedOut(r) == runs[r].late

\* The deployments are looked at that the binding listed when it was read.  A run that
\* waits for them is reconciled again after 15 seconds; one that waits for the binding
\* to list them is not.
CheckDeployments ==
  /\ promoter.pc = "check"
  /\ LET r == promoter.run
         waiting == {k \in Comps : deps[k] = "Synced"}
     IN \/ ~promoter.seen.deployed /\ UNCHANGED <<runs, queue>>
        \/ /\ promoter.seen.deployed /\ \E k \in Comps : deps[k] = None
           /\ queue' = queue \union {r}
           /\ UNCHANGED runs
        \/ /\ promoter.seen.deployed /\ \A k \in Comps : deps[k] # None
           /\ \/ TimedOut(r) /\ WriteRun(r, Completed(r, "Failure"))
              \/ /\ ~TimedOut(r) /\ waiting # {}
                 /\ runs' = [runs EXCEPT ![r].state = "Waiting"]
                 /\ queue' = queue \union {r}
              \/ ~TimedOut(r) /\ waiting = {} /\ WriteRun(r, Completed(r, "Success"))
  /\ promoter' = IdlePromoter
  /\ UNCHANGED <<binding, deps, snapshots, inputs>>

ReconcileFails ==
  /\ promoter.pc # "idle"
  /\ \/ Input
     \/ promoter.pc = "setSnapshot" /\ binding # promoter.seen /\ UNCHANGED inputs
  /\ queue' = queue \union {promoter.run}
  /\ promoter' = IdlePromoter
  /\ UNCHANGED <<binding, deps, snapshots, runs>>
-----------------------------------------------------------------------------
StartReconcile(r) == SkipRun(r) \/ locateOrCreateTargetManualBinding(r)
GoOn == Activate \/ SetSnapshot \/ SetActiveBinding \/ CheckDeployments \/ ReconcileFails

Next ==
  \/ \E r \in Runs : RunGetsLate(r) \/ Resync(r) \/ \E later \in 0..1 : CreateRun(r, later)
  \/ \E deployed \in BOOLEAN : ChangeDeployments(deployed)
  \/ DeleteBinding
  \/ \E k \in Comps, status \in Statuses : ReportStatus(k, status)
  \/ \E r \in Runs : StartReconcile(r)
  \/ GoOn

\* A reconcile goes on, and each request gets its turn; so does time, and with it the
\* resync.
Fairness ==
  /\ WF_vars(GoOn)
  /\ \A r \in Runs :
       SF_vars(StartReconcile(r)) /\ WF_vars(RunGetsLate(r)) /\ SF_vars(Resync(r))

Spec == Init /\ [][Next]_vars /\ Fairness
-----------------------------------------------------------------------------
(* Properties *)

\* "only one promotion should be active at a time on a single Application"
\* (promotionrun_controller.go:401), as long as no two are created within the second
\* that a creation timestamp tells apart.
OneActive ==
  \A q, r \in Runs :
    runs[q].stamp # runs[r].stamp
      => ~({runs[q].state, runs[r].state} \subseteq {"Active", "Waiting"})

\* A run that succeeds has promoted its own snapshot: that is what the binding points
\* to, although the binding may have been deleted, created again and written for an
\* earlier run since (promotionrun_controller.go:221).
PromotesSnapshot ==
  [][\A r \in Runs :
       runs[r].result = "" /\ runs'[r].result = "Success" /\ binding.there
         => binding.snapshot = r]_vars

\* Promotions take turns and end, one way or the other, if their snapshots exist and
\* the binding has got its deployments for good (promotionrun_controller.go:329).
Served == binding.there /\ binding.deployed

PromotionsEnd ==
  <>[]Served /\ snapshots = Runs =>
    \A r \in Runs : runs[r].state = "" ~> runs[r].state = "Complete"

\* Runs are well formed, and one at a time is active.
PromotionInv == TypeOK /\ OneActive
===============================================================================
