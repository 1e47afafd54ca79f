-------------------------- MODULE SnapshotBinding --------------------------
(***************************************************************************)
(* The SnapshotEnvironmentBinding (SEB) controller of appstudio-controller *)
(* (snapshotenvironmentbinding_controller.go): it makes a GitOpsDeployment *)
(* for each component of a binding, with the destination that the          *)
(* Environment, its claim and the claim's target give, and lists them in   *)
(* the binding's status.                                                   *)
(*                                                                         *)
(* One binding.  The controller runs one reconcile at a time; its reads    *)
(* are made in one step, each write is a step.  A write fails if its       *)
(* object has changed since it was read, and any may fail.  What a change  *)
(* of another object has to do with the binding is found out by mapping    *)
(* functions, some time after the change.                                  *)
(*                                                                         *)
(* Abstracted: conditions, which no controller reads; labels; a snapshot   *)
(* is a number; the three minutes that an orphan is left are over at any   *)
(* time.                                                                   *)
(***************************************************************************)
EXTENDS Naturals

CONSTANTS
  Comps,        \* components of the application
  None,
  MaxInputs     \* bounds the changes made by others and the calls that fail

ASSUME BoundsAssumption == MaxInputs \in Nat

VARIABLES
  world,        \* application, environment, claim and target
  binding,      \* the SnapshotEnvironmentBinding
  deps,         \* destination of the GitOpsDeployment of each component
  events,       \* watch events for which the mapping function has not run
  queued,       \* there is a request
  seb,          \* the reconcile that runs
  inputs

vars == <<world, binding, deps, events, queued, seb, inputs>>

World == [app : BOOLEAN, env : {"gone", "plain", "claimed"}, claim : BOOLEAN,
          target : {None, "ns1", "ns2"}]
Dests == {"local", "ns1", "ns2"}
Binding == [there : BOOLEAN, snapshot : 0..1, repo : {"", "ok", "bad"}, comps : SUBSET Comps,
            deployed : SUBSET Comps]
NoBinding == [there |-> FALSE, snapshot |-> 0, repo |-> "", comps |-> {}, deployed |-> {}]
SEB == [pc : {"idle", "deleteBinding", "deleteUnmatched", "process", "status"},
        seen : Binding, dest : Dests \union {None}, todo : SUBSET Comps, failed : BOOLEAN]
IdleSEB == [pc |-> "idle", seen |-> NoBinding, dest |-> None, todo |-> {}, failed |-> FALSE]

TypeOK ==
  /\ world \in World /\ binding \in Binding
  /\ deps \in [Comps -> Dests \union {None}]
  /\ events \subseteq {"app", "env", "claim", "target"}
  /\ queued \in BOOLEAN /\ seb \in SEB
  /\ inputs \in 0..MaxInputs
  /\ ~binding.there => binding = NoBinding /\ \A k \in Comps : deps[k] = None

\* A binding that was just created.
Init ==
  /\ world \in [app : {TRUE}, env : {"plain", "claimed"}, claim : {TRUE}, target : {"ns1"}]
  /\ binding = [NoBinding EXCEPT !.there = TRUE]
  /\ deps = [k \in Comps |-> None]
  /\ events = {} /\ queued = TRUE /\ seb = IdleSEB
  /\ inputs = 0

Input == inputs < MaxInputs /\ inputs' = inputs + 1
-----------------------------------------------------------------------------
(* Mutants *)

\* the deployments that are not expected any more stay
Unmatched_none == {}

\* deleteUnmatchedDeployments is not told which deployments are expected
Unmatched_all == {k \in Comps : deps[k] # None}

\* a status that is out of date is written over the binding
Conflict_none == FALSE

-----------------------------------------------------------------------------
(* Users, application-service, Kubernetes.                                 *)

\* The field of the world that changes is watched by the SEB controller.
ChangeWorld(kind, new) ==
  /\ Input
  /\ world # new /\ world' = new
  /\ events' = events \union {kind}
  /\ UNCHANGED <<binding, deps, queued, seb>>

ChangeApplication == \E x \in BOOLEAN : ChangeWorld("app", [world EXCEPT !.app = x])
ChangeEnvironment == \E x \in {"gone", "plain", "claimed"} : ChangeWorld("env", [world EXCEPT !.env = x])
ChangeClaim == \E x \in BOOLEAN : ChangeWorld("claim", [world EXCEPT !.claim = x])
ChangeTarget == \E x \in {None, "ns1", "ns2"} : ChangeWorld("target", [world EXCEPT !.target = x])

ChangeBinding(new) ==
  /\ binding.there
  /\ binding' = new /\ binding' # binding
  /\ queued' = TRUE
  /\ UNCHANGED <<world, deps, events, seb>>

\* application-service prepares the GitOps repository for the binding's components.
PrepareRepository(repo, comps) ==
  /\ IF binding.repo = "" THEN UNCHANGED inputs ELSE Input
  /\ ChangeBinding([binding EXCEPT !.repo = repo, !.comps = comps])

\* A user or a PromotionRun has the binding point to another snapshot.
ChangeSnapshot == Input /\ ChangeBinding([binding EXCEPT !.snapshot = 1 - @])

\* The owner references have the deployments deleted with their binding.
RemoveBinding ==
  /\ binding' = NoBinding /\ deps' = [k \in Comps |-> None]
  /\ queued' = TRUE

UserDeletesBinding ==
  /\ Input /\ binding.there /\ RemoveBinding
  /\ UNCHANGED <<world, events, seb>>

\* The binding owns its deployments.
UserDeletesDeployment(k) ==
  /\ Input
  /\ deps[k] # None
  /\ deps' = [deps EXCEPT ![k] = None]
  /\ queued' = TRUE
  /\ UNCHANGED <<world, binding, events, seb>>
-----------------------------------------------------------------------------
(* SnapshotEnvironmentBindingReconciler                                    *)

\* Each mapping function finds the binding if it is there, and uses the object.
findObjectsForApplication == binding.there
findObjectsForEnvironment == binding.there
findObjectsForDeploymentTargetClaim == binding.there /\ world.env = "claimed"
findObjectsForDeploymentTarget == binding.there /\ world.env = "claimed" /\ world.claim

DeliverEvent(kind) ==
  /\ kind \in events
  /\ events' = events \ {kind}
  /\ queued' = \/ queued
               \/ kind = "app" /\ findObjectsForApplication
               \/ kind = "env" /\ findObjectsForEnvironment
               \/ kind = "claim" /\ findObjectsForDeploymentTargetClaim
               \/ kind = "target" /\ findObjectsForDeploymentTarget
  /\ UNCHANGED <<world, binding, deps, seb, inputs>>

\* generateExpectedGitOpsDeployment: None if the target cannot be found.
ExpectedDest ==
  CASE world.env = "plain"                   -> "local"
    [] world.env = "claimed" /\ world.claim  -> world.target
    [] OTHER                                 -> None

\* Whether a reconcile goes on to the deployments, and with which components.
RepoReady == binding.repo = "ok" \/ (binding.repo = "" /\ binding.comps = {})

ReconcileBinding ==
  /\ seb.pc = "idle" /\ queued
  /\ LET start(pc) == [IdleSEB EXCEPT !.pc = pc, !.seen = binding, !.dest = ExpectedDest,
                                      !.todo = binding.comps]
     IN \/ \* the binding is an orphan, to be deleted when it is three minutes old
           /\ binding.there /\ ~world.app
           /\ \/ seb' = start("deleteBinding") /\ queued' = FALSE
              \/ seb' = IdleSEB /\ queued' = TRUE
        \/ \* there is nothing to do, or it is not known yet what
           /\ ~binding.there \/ (world.app /\ (world.env = "gone" \/ ~RepoReady))
           /\ seb' = IdleSEB /\ queued' = FALSE
        \/ \* the deployment cannot be generated: this is retried
           /\ binding.there /\ world.app /\ world.env # "gone" /\ RepoReady
           /\ binding.comps # {} /\ ExpectedDest = None
           /\ seb' = IdleSEB /\ queued' = TRUE
        \/ /\ binding.there /\ world.app /\ world.env # "gone" /\ RepoReady
           /\ binding.comps # {} => ExpectedDest # None
           /\ seb' = start("deleteUnmatched") /\ queued' = FALSE
  /\ UNCHANGED <<world, binding, deps, events, inputs>>

DeleteBinding ==
  /\ seb.pc = "deleteBinding"
  /\ RemoveBinding
  /\ seb' = IdleSEB
  /\ UNCHANGED <<world, events, inputs>>

Unmatched == {k \in Comps : deps[k] # None /\ k \notin seb.seen.comps}

\* Without components, that is all: there is no repository yet.
deleteUnmatchedDeployments ==
  /\ seb.pc = "deleteUnmatched"
  /\ \/ /\ Unmatched # {}
        /\ \E k \in Unmatched : deps' = [deps EXCEPT ![k] = None]
        /\ queued' = TRUE
        /\ UNCHANGED seb
     \/ /\ Unmatched = {}
        /\ seb' = IF seb.seen.repo = "" THEN IdleSEB ELSE [seb EXCEPT !.pc = "process"]
        /\ UNCHANGED <<deps, queued>>
  /\ UNCHANGED <<world, binding, events, inputs>>

\* One component after the other; the errors are collected.  Kubernetes collects a
\* deployment whose binding is gone.
Made(k) == IF binding.there THEN seb.dest ELSE None

processExpectedGitOpsDeployment(k) ==
  /\ seb.pc = "process" /\ k \in seb.todo
  /\ \/ /\ deps' = [deps EXCEPT ![k] = Made(k)]
        /\ queued' = (queued \/ deps' # deps)
        /\ seb' = [seb EXCEPT !.todo = @ \ {k}]
        /\ UNCHANGED inputs
     \/ /\ Input
        /\ seb' = [seb EXCEPT !.todo = @ \ {k}, !.failed = TRUE]
        /\ UNCHANGED <<deps, queued>>
  /\ UNCHANGED <<world, binding, events>>

AnyFailed == seb.failed \/ \E k \in seb.seen.comps : deps[k] = None

ProcessedAll ==
  /\ seb.pc = "process" /\ seb.todo = {}
  /\ IF AnyFailed THEN seb' = IdleSEB /\ queued' = TRUE
     ELSE seb' = [seb EXCEPT !.pc = "status"] /\ UNCHANGED queued
  /\ UNCHANGED <<world, binding, deps, events, inputs>>

\* The deployments listed in the status, which is written if it is not as it should be.
Listed == seb.seen.comps
Conflict == binding # seb.seen

UpdateBindingStatus ==
  /\ seb.pc = "status"
  /\ \/ /\ Conflict
        /\ queued' = (queued \/ (binding.there /\ seb.seen.deployed # Listed))
        /\ UNCHANGED binding
     \/ /\ ~Conflict
        /\ binding' = [seb.seen EXCEPT !.deployed = Listed]
        /\ queued' = (queued \/ binding' # binding)
  /\ seb' = IdleSEB
  /\ UNCHANGED <<world, deps, events, inputs>>

ReconcileBindingFails ==
  /\ seb.pc # "idle" /\ Input
  /\ seb' = IdleSEB /\ queued' = TRUE
  /\ UNCHANGED <<world, binding, deps, events>>
-----------------------------------------------------------------------------
Controller ==
  \/ \E kind \in {"app", "env", "claim", "target"} : DeliverEvent(kind)
  \/ ReconcileBinding \/ DeleteBinding \/ deleteUnmatchedDeployments
  \/ \E k \in Comps : processExpectedGitOpsDeployment(k)
  \/ ProcessedAll \/ UpdateBindingStatus \/ ReconcileBindingFails

Next ==
  \/ ChangeApplication \/ ChangeEnvironment \/ ChangeClaim \/ ChangeTarget
  \/ ChangeSnapshot \/ UserDeletesBinding
  \/ \E repo \in {"ok", "bad"}, comps \in SUBSET Comps : PrepareRepository(repo, comps)
  \/ \E k \in Comps : UserDeletesDeployment(k)
  \/ Controller

\* The controller goes on working; users need not change anything.
Spec == Init /\ [][Next]_vars /\ WF_vars(Controller)
-----------------------------------------------------------------------------
(* Properties *)

AtRest == events = {} /\ ~queued /\ seb.pc = "idle"
Deployable == binding.there /\ world.app /\ world.env # "gone" /\ binding.repo = "ok"

\* "Delete any existing deployments which don't have a matching component" and "For
\* each deployment, check if it exists, and if it has the expected content"
\* (snapshotenvironmentbinding_controller.go:268, 284): at rest the deployments are
\* those of the components, at the destination of the Environment, whatever has
\* changed or failed, before or during a reconcile.
DeploymentsAreCurrent ==
  AtRest /\ Deployable =>
    \A k \in Comps : deps[k] = IF k \in binding.comps THEN ExpectedDest ELSE None

\* PromotionRuns wait for the deployments that the status lists: at rest it lists
\* those that there are, although it is written last and the writes before it fail one
\* by one (snapshotenvironmentbinding_controller.go:326).
StatusIsCurrent == AtRest /\ Deployable => binding.deployed = binding.comps

\* The status is written for the binding that was reconciled: no repository, component
\* or snapshot that others wrote meanwhile is undone
\* (snapshotenvironmentbinding_controller.go:340).
NothingUndone ==
  [][UpdateBindingStatus => binding' = [binding EXCEPT !.deployed = binding'.deployed]]_vars

\* The controller's writes raise events; it comes to rest once others do, unless the
\* Environment's target is missing, which is retried for ever
\* (snapshotenvironmentbinding_controller.go:333).
Settles == <>[](AtRest \/ ~world.app \/ (Deployable /\ ExpectedDest = None))

\* At rest the deployments and the status are those of the binding.
SnapshotInv == TypeOK /\ DeploymentsAreCurrent /\ StatusIsCurrent
=============================================================================
