----------------------- MODULE EnvironmentReconciler -----------------------
(***************************************************************************)
(* The Environment controller of appstudio-controller                      *)
(* (environment_controller.go): for every Environment that names a         *)
(* DeploymentTargetClaim, or credentials of its own, it keeps a            *)
(* GitOpsDeploymentManagedEnvironment and a copy of the secret of the      *)
(* claim's DeploymentTarget.                                               *)
(*                                                                         *)
(* The controller acts on requests.  What a change of a claim, a target or *)
(* a secret has to do with an Environment is found out by mapping          *)
(* functions, which run some time after the change and read the objects    *)
(* that are there then.  A request that is not made is not made up for: a  *)
(* reconcile that meets an error of the user is not retried.               *)
(*                                                                         *)
(* Abstracted: a claim names the target and the target the secret of its   *)
(* own name; a target and a secret are the version of their contents; the  *)
(* conditions ErrorOccurred and Reconciled are one flag.  The reads of a   *)
(* reconcile are one step, each of its writes is another.                  *)
(***************************************************************************)
EXTENDS Naturals

CONSTANTS
  Envs, Claims, None,
  MaxChanges,   \* bounds what users and other controllers change
  MaxFaults     \* bounds the calls that fail

ASSUME BoundsAssumption == MaxChanges \in Nat /\ MaxFaults \in Nat
ASSUME NamesAssumption == Claims \intersect {"gone", "none", "own", "badOwn", "both"} = {}

VARIABLES
  envs,         \* the target configuration of each Environment: a claim, or ...
  claims, targets, secrets,
  managed,      \* GitOpsDeploymentManagedEnvironment of each Environment
  copies,       \* managed-environment-secret of each Environment
  failed,       \* condition ErrorOccurred of each Environment
  events,       \* watch events for which the mapping function has not run
  queue,        \* requests of the controller
  worker,       \* the reconcile that runs
  lost,         \* history: a request was not made, see findObjectsForSecret
  changes, faults

vars == <<envs, claims, targets, secrets, managed, copies, failed, events,
          queue, worker, lost, changes, faults>>
objects == <<claims, targets, secrets>>
results == <<managed, copies, failed>>

\* "gone": there is no such Environment; "none": it deploys to its own namespace;
\* "own": it has credentials in a secret of its own, which is there or ("badOwn") is
\* not; "both": it has a claim, too.
Configs == Claims \union {"gone", "none", "own", "badOwn", "both"}
Version == 0..1
ManagedSpec == [from : Claims \union {"own"}, creds : Version]
ASSUME NoneAssumption == None \notin Version \union ManagedSpec

Worker == [pc : {"idle", "deleteManaged", "condition", "deleteCopy", "writeCopy", "writeManaged",
                 "resolve"},
           env : Envs \union {None}, read : Configs, want : ManagedSpec \union {None},
           data : Version \union {None}]
Idle == [pc |-> "idle", env |-> None, read |-> "none", want |-> None, data |-> None]

TypeOK ==
  /\ envs \in [Envs -> Configs]
  /\ claims \in [Claims -> {"gone", "pending", "bound"}]
  /\ targets \in [Claims -> Version \union {None}]
  /\ secrets \in [Claims -> Version \union {None}]
  /\ managed \in [Envs -> ManagedSpec \union {None}]
  /\ copies \in [Envs -> Version \union {None}]
  /\ failed \in [Envs -> BOOLEAN]
  /\ events \subseteq ({"claim", "target", "secret"} \X Claims)
  /\ queue \subseteq Envs
  /\ worker \in Worker
  /\ worker.pc = "writeCopy" => worker.data # None /\ worker.want # None
  /\ lost \in BOOLEAN /\ changes \in 0..MaxChanges /\ faults \in 0..MaxFaults

\* The controller starts: it gets a request for every Environment that exists.
Init ==
  /\ envs \in [Envs -> Configs]
  /\ claims = [c \in Claims |-> "bound"]
  /\ targets = [c \in Claims |-> 0] /\ secrets = [c \in Claims |-> 0]
  /\ managed = [e \in Envs |-> None] /\ copies = [e \in Envs |-> None]
  /\ failed = [e \in Envs |-> FALSE]
  /\ events = {} /\ queue = {e \in Envs : envs[e] # "gone"} /\ worker = Idle
  /\ lost = FALSE /\ changes = 0 /\ faults = 0
-----------------------------------------------------------------------------
(* Mutants *)

\* a change of the target is not mapped to the Environments of its claim
findObjectsForDeploymentTarget_none(c) == {e \in Envs : envs[e] = c /\ claims[c] = "gone"}

\* the copy of a secret that is gone is kept
AfterCondition_keepsCopy == Idle

\* the status is updated, and so the request repeated, at every reconcile
ConditionChanges_always == TRUE
-----------------------------------------------------------------------------
(* Users, the controllers of claims, targets and SpaceRequests.            *)

Change == changes < MaxChanges /\ changes' = changes + 1

ChangeEnvironment(e, x) ==
  /\ Change
  /\ envs[e] # x /\ envs' = [envs EXCEPT ![e] = x]
  /\ queue' = queue \union {e}
  \* the owner reference has a copy deleted with its Environment
  /\ copies' = IF x = "gone" THEN [copies EXCEPT ![e] = None] ELSE copies
  /\ failed' = IF x = "gone" THEN [failed EXCEPT ![e] = FALSE] ELSE failed
  /\ UNCHANGED <<objects, managed, events, worker, lost, faults>>

ChangeClaim(c, x) ==
  /\ Change
  /\ claims[c] # x /\ claims' = [claims EXCEPT ![c] = x]
  /\ events' = events \union {<<"claim", c>>}
  /\ UNCHANGED <<envs, targets, secrets, results, queue, worker, lost, faults>>

ChangeTarget(c, x) ==
  /\ Change
  /\ targets[c] # x /\ targets' = [targets EXCEPT ![c] = x]
  /\ events' = events \union {<<"target", c>>}
  /\ UNCHANGED <<envs, claims, secrets, results, queue, worker, lost, faults>>

ChangeSecret(c, x) ==
  /\ Change
  /\ secrets[c] # x /\ secrets' = [secrets EXCEPT ![c] = x]
  /\ events' = events \union {<<"secret", c>>}
  /\ UNCHANGED <<envs, claims, targets, results, queue, worker, lost, faults>>

\* A user meddles with what the controller made: its label or owner reference
\* names the Environment.
ChangeManaged(e) ==
  /\ Change
  /\ managed[e] # None /\ managed' = [managed EXCEPT ![e] = None]
  /\ queue' = queue \union {e}
  /\ UNCHANGED <<envs, objects, copies, failed, events, worker, lost, faults>>

ChangeCopy(e) ==
  /\ Change
  /\ copies[e] # None /\ copies' = [copies EXCEPT ![e] = None]
  /\ queue' = queue \union {e}
  /\ UNCHANGED <<envs, objects, managed, failed, events, worker, lost, faults>>
-----------------------------------------------------------------------------
(* Requests                                                                *)

UsersOf(c) == {e \in Envs : envs[e] = c}

findObjectsForDeploymentTargetClaim(c) == UsersOf(c)

\* By the claims that name the target: those that exist.
findObjectsForDeploymentTarget(c) == IF claims[c] # "gone" THEN UsersOf(c) ELSE {}

\* One Environment whose claim cannot be read, and no request is made.
findObjectsForSecret(c) ==
  IF \E e \in Envs : envs[e] \in Claims /\ claims[envs[e]] = "gone" THEN {}
  ELSE IF targets[c] # None THEN UsersOf(c) ELSE {}

\* The Environments that use the secret by now.
SecretUsersOf(c) == IF claims[c] # "gone" /\ targets[c] # None THEN UsersOf(c) ELSE {}

Requests(kind, c) ==
  CASE kind = "claim"  -> findObjectsForDeploymentTargetClaim(c)
    [] kind = "target" -> findObjectsForDeploymentTarget(c)
    [] kind = "secret" -> findObjectsForSecret(c)

DeliverEvent(kind, c) ==
  /\ <<kind, c>> \in events
  /\ events' = events \ {<<kind, c>>}
  /\ queue' = queue \union Requests(kind, c)
  /\ lost' = (lost \/ (kind = "secret" /\ Requests(kind, c) # SecretUsersOf(c)))
  /\ UNCHANGED <<envs, objects, results, worker, changes, faults>>
-----------------------------------------------------------------------------
(* Reconcile                                                               *)

\* The secret that the Environment uses, and the secret's data.
SecretMissing(e) == IF envs[e] \in Claims THEN secrets[envs[e]] = None ELSE envs[e] = "badOwn"

\* The Environment's configuration is in error: it waits for the user.
UserError(e) ==
  \/ envs[e] = "both"
  \/ envs[e] \in Claims /\ \/ claims[envs[e]] = "gone"
                           \/ claims[envs[e]] = "bound" /\ targets[envs[e]] = None

\* The secret is looked for once the claim is bound to a target.
NeedsSecret(e) ==
  \/ envs[e] \in {"own", "badOwn"}
  \/ envs[e] \in Claims /\ claims[envs[e]] = "bound" /\ targets[envs[e]] # None

DesiredSpec(e) ==
  IF ~NeedsSecret(e) \/ SecretMissing(e) THEN None
  ELSE [from |-> envs[e], creds |-> IF envs[e] = "own" THEN 0 ELSE targets[envs[e]]]

\* generateDesiredResource decides which writes are to come.
Plan(e) ==
  LET do(pc) == [Idle EXCEPT !.pc = pc, !.env = e, !.read = envs[e], !.want = DesiredSpec(e)]
  IN  CASE envs[e] = "gone"                     -> do("deleteManaged")
        [] UserError(e)                         -> do("condition")
        [] NeedsSecret(e) /\ SecretMissing(e)   -> [do("condition") EXCEPT !.data = 0]
        [] envs[e] # "gone" /\ ~UserError(e) /\ ~NeedsSecret(e) -> do("resolve")
        [] DesiredSpec(e) # None /\ envs[e] = "own" -> do("writeManaged")
        [] DesiredSpec(e) # None /\ envs[e] # "own" ->
             [do("writeCopy") EXCEPT !.data = secrets[envs[e]]]

Reconcile(e) ==
  /\ worker.pc = "idle" /\ e \in queue
  /\ queue' = queue \ {e}
  /\ worker' = Plan(e)
  /\ UNCHANGED <<envs, objects, results, events, lost, changes, faults>>

\* The Environment is gone: so is its GitOpsDeploymentManagedEnvironment.
DeleteManaged ==
  /\ worker.pc = "deleteManaged"
  /\ managed' = [managed EXCEPT ![worker.env] = None]
  /\ queue' = IF managed[worker.env] # None THEN queue \union {worker.env} ELSE queue
  /\ worker' = Idle
  /\ UNCHANGED <<envs, objects, copies, failed, events, lost, changes, faults>>

\* A write of the status fails if the Environment has changed since it was read; a
\* write that changes nothing is not made, and raises no event.
ConditionChanges == ~failed[worker.env]
AfterCondition == IF worker.data = None THEN Idle ELSE [worker EXCEPT !.pc = "deleteCopy"]

updateEnvironmentReconciledStatusCondition ==
  /\ worker.pc = "condition"
  /\ envs[worker.env] = worker.read \/ ~ConditionChanges
  /\ failed' = [failed EXCEPT ![worker.env] = @ \/ envs[worker.env] # "gone"]
  /\ queue' = IF ConditionChanges THEN queue \union {worker.env} ELSE queue
  /\ worker' = AfterCondition
  /\ UNCHANGED <<envs, objects, managed, copies, events, lost, changes, faults>>

DeleteCopy ==
  /\ worker.pc = "deleteCopy"
  /\ copies' = [copies EXCEPT ![worker.env] = None]
  /\ queue' = IF copies[worker.env] # None THEN queue \union {worker.env} ELSE queue
  /\ worker' = Idle
  /\ UNCHANGED <<envs, objects, managed, failed, events, lost, changes, faults>>

\* Kubernetes collects the copy made for an Environment that is gone by now.
CopyDiffers == copies[worker.env] # worker.data
WriteCopy ==
  /\ worker.pc = "writeCopy"
  /\ \/ /\ CopyDiffers
        /\ copies' = [copies EXCEPT ![worker.env] =
                        IF envs[worker.env] = "gone" THEN None ELSE worker.data]
        /\ queue' = queue \union {worker.env}
     \/ /\ ~CopyDiffers
        /\ UNCHANGED <<copies, queue>>
  /\ worker' = [worker EXCEPT !.pc = "writeManaged"]
  /\ UNCHANGED <<envs, objects, managed, failed, events, lost, changes, faults>>

\* reconcileEnvironment: create it, or update it if it is different.
WriteManaged ==
  /\ worker.pc = "writeManaged"
  /\ managed' = [managed EXCEPT ![worker.env] = worker.want]
  /\ queue' = IF managed' # managed THEN queue \union {worker.env} ELSE queue
  /\ worker' = [worker EXCEPT !.pc = "resolve"]
  /\ UNCHANGED <<envs, objects, copies, failed, events, lost, changes, faults>>

updateConditionErrorAsResolved ==
  /\ worker.pc = "resolve"
  /\ failed' = [failed EXCEPT ![worker.env] = FALSE]
  /\ queue' = IF failed[worker.env] THEN queue \union {worker.env} ELSE queue
  /\ worker' = Idle
  /\ UNCHANGED <<envs, objects, managed, copies, events, lost, changes, faults>>

\* A call fails, or writes an Environment that has changed: the request is repeated.
ReconcileFails ==
  /\ worker.pc # "idle"
  /\ \/ faults < MaxFaults /\ faults' = faults + 1
     \/ /\ worker.pc = "condition" /\ ConditionChanges
        /\ envs[worker.env] # worker.read
        /\ UNCHANGED faults
  /\ queue' = queue \union {worker.env}
  /\ worker' = Idle
  /\ UNCHANGED <<envs, objects, results, events, lost, changes>>
-----------------------------------------------------------------------------
Users ==
  \/ \E e \in Envs : ChangeManaged(e) \/ ChangeCopy(e) \/ \E x \in Configs : ChangeEnvironment(e, x)
  \/ \E c \in Claims : \/ \E x \in {"gone", "pending", "bound"} : ChangeClaim(c, x)
                       \/ \E x \in Version \union {None} : ChangeTarget(c, x) \/ ChangeSecret(c, x)

Controller ==
  \/ \E kind \in {"claim", "target", "secret"}, c \in Claims : DeliverEvent(kind, c)
  \/ \E e \in Envs : Reconcile(e)
  \/ DeleteManaged \/ updateEnvironmentReconciledStatusCondition \/ DeleteCopy
  \/ WriteCopy \/ WriteManaged \/ updateConditionErrorAsResolved
  \/ ReconcileFails

Next == Users \/ Controller

\* The controller goes on working; users need not change anything.
Spec == Init /\ [][Next]_vars /\ WF_vars(Controller)
-----------------------------------------------------------------------------
(* Properties *)

AtRest == events = {} /\ queue = {} /\ worker.pc = "idle"

\* "ensure that if an Environment exists, and ... has the 'kubernetesCredentials'
\* field defined, that a corresponding GitOpsDeploymentManagedEnvironment exists (and
\* is up-to-date)" (environment_controller.go:90): in whatever order the Environment,
\* its claim, the target and the secret change, and whichever call fails, no change
\* goes unnoticed.  Nor does one outlive its Environment.
ManagedIsCurrent ==
  AtRest => \A e \in Envs :
    /\ envs[e] = "gone" => managed[e] = None
    /\ ~lost /\ DesiredSpec(e) # None
         => /\ managed[e] = DesiredSpec(e)
            /\ envs[e] \in Claims => copies[e] = secrets[envs[e]]

\* "Delete the managed Environment secret if the orginal secret is not found"
\* (environment_controller.go:540): credentials that are withdrawn do not stay in
\* use, although the request of the reconcile that finds out is not repeated.
RevokedWithSecret ==
  AtRest /\ ~lost => \A e \in Envs :
    NeedsSecret(e) /\ SecretMissing(e) => copies[e] = None

\* The condition reports the error there is, and no error that is resolved
\* (environment_controller.go:156).
ConditionIsCurrent ==
  AtRest /\ ~lost => \A e \in Envs :
    envs[e] # "gone" => (failed[e] <=> UserError(e) \/ (NeedsSecret(e) /\ SecretMissing(e)))

\* The controller's own writes raise events, and its reconciles write: it comes to
\* rest all the same once the users do (environment_controller.go:308, 342).
Settles == <>[]AtRest

\* At rest the managed environment and the condition say what the Environment asks for.
EnvironmentInv == TypeOK /\ ManagedIsCurrent /\ ConditionIsCurrent
=============================================================================
