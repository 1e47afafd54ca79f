----------------------- MODULE DeploymentTargetBinding -----------------------
(***************************************************************************)
(* How DeploymentTargetClaims (DTC) are bound to DeploymentTargets (DT):   *)
(* the three controllers deploymenttargetclaim_controller.go,              *)
(* deploymenttarget_controller.go and spacerequest_controller.go of        *)
(* appstudio-controller.  A claim takes a target that matches, or asks the *)
(* sandbox provisioner for one with a SpaceRequest (SR); when it goes, its *)
(* target and SpaceRequest are reclaimed as the class's policy says.       *)
(*                                                                         *)
(* Each controller reconciles one object at a time, and a reconcile is a   *)
(* sequence of API calls: every write is a step.  An Update carries the    *)
(* resourceVersion that was read, and so fails if the object has changed   *)
(* since (compare with the copy in "saw"); any call may fail.  A reconcile *)
(* that fails is retried, and all objects are resynced periodically, so a  *)
(* reconcile of an object may begin at any time.                           *)
(*                                                                         *)
(* Abstracted: all claims and targets are of one class, the one of the     *)
(* sandbox provisioner, and have credentials; status conditions and the    *)
(* bound-by-controller annotation, which nothing reads, are left out.  A   *)
(* user does not edit claims and targets, and does not create a target of  *)
(* the same name twice.                                                    *)
(***************************************************************************)
EXTENDS Naturals, FiniteSets

CONSTANTS
  Claims,        \* names of DTCs
  UserTargets,   \* names of DTs created by users
  None,
  SRs,           \* names for SpaceRequests that exist at one time
  MaxCreates,    \* bounds how often a claim of one name is created
  MaxFaults      \* bounds the calls that fail

ASSUME NamesAssumption ==
  UserTargets \intersect Claims = {} /\ None \notin UserTargets \union Claims
ASSUME BoundsAssumption == MaxCreates \in Nat /\ MaxFaults \in Nat

\* The target that is provisioned for claim c ("<c>-dt") has the name c here.
Targets == UserTargets \union Claims

VARIABLES
  policy,    \* ReclaimPolicy of the class
  claims, targets, srs,
  claimer,   \* the DTC controller
  maker,     \* the SpaceRequest controller
  creates, made, faults,  \* claims created, names of targets created, failed calls
  reused                  \* history: names under which a target was created again

vars == <<policy, claims, targets, srs, claimer, maker, creates, made, faults, reused>>
bounds == <<policy, creates, made, reused>>

Claim == [there : BOOLEAN, fin : BOOLEAN, deleting : BOOLEAN,
          target : UserTargets \union Claims \union {None},
          phase : {"", "Pending", "Bound", "Lost"}, marked : BOOLEAN, complete : BOOLEAN]
Target == [there : BOOLEAN, fin : BOOLEAN, deleting : BOOLEAN,
           claimRef : Claims \union {None},
           phase : {"Available", "Bound", "Released", "Failed"}]
SpaceRequest == [there : BOOLEAN, deleting : BOOLEAN, ready : BOOLEAN,
                 claim : Claims \union {None},
                 target : UserTargets \union Claims \union {None}]

NoClaim == [there |-> FALSE, fin |-> FALSE, deleting |-> FALSE, target |-> None,
            phase |-> "", marked |-> FALSE, complete |-> FALSE]
NoTarget == [there |-> FALSE, fin |-> FALSE, deleting |-> FALSE, claimRef |-> None, phase |-> "Available"]
NoSR == [there |-> FALSE, deleting |-> FALSE, ready |-> FALSE,
         claim |-> None, target |-> None]

\* c, d: claim and target of the reconcile; saw: the target as it was read last.
Claimer == [pc : {"idle", "setTarget", "setClaimBound", "setTargetBound", "complete",
                  "release", "setReleased", "removeFinalizer"},
            c : Claims \union {None}, d : UserTargets \union Claims \union {None}, saw : Target]
IdleClaimer == [pc |-> "idle", c |-> None, d |-> None, saw |-> NoTarget]

Maker == [pc : {"idle", "deleteOrphan"}, s : SRs \union {None}]
IdleMaker == [pc |-> "idle", s |-> None]

\* No write of a controller brings back an object that is gone.
TypeOK ==
  /\ policy \in {"Delete", "Retain"}
  /\ claims \in [Claims -> Claim]
  /\ targets \in [Targets -> Target]
  /\ srs \in [SRs -> SpaceRequest]
  /\ claimer \in Claimer
  /\ maker \in Maker
  /\ \A c \in Claims : claims[c].there \/ claims[c] = NoClaim
  /\ \A d \in Targets : targets[d].there \/ targets[d] = NoTarget
  /\ \A s \in SRs : srs[s].there \/ srs[s] = NoSR
  /\ creates \in [Claims -> 0..MaxCreates] /\ made \subseteq Targets /\ faults \in 0..MaxFaults
  /\ reused \subseteq made

Init ==
  /\ policy \in {"Delete", "Retain"}
  /\ claims = [c \in Claims |-> NoClaim]
  /\ targets = [d \in Targets |-> NoTarget]
  /\ srs = [s \in SRs |-> NoSR]
  /\ claimer = IdleClaimer
  /\ maker = IdleMaker
  /\ creates = [c \in Claims |-> 0] /\ made = {} /\ faults = 0 /\ reused = {}

Fault == faults < MaxFaults /\ faults' = faults + 1
-----------------------------------------------------------------------------
(* Mutants: plausible bugs, each of the shape of an operator below.        *)

\* a target that is bound already is taken
doesDTMatchDTC_anyPhase(d, c) ==
  /\ targets[d].claimRef \in {None, c}
  /\ claims[c].target \in {None, d}

\* a deleting claim is let go before its target is looked at
StartDeletion_atOnce(c) == [IdleClaimer EXCEPT !.pc = "removeFinalizer", !.c = c]

\* a target is provisioned for any claim, not for the one of the SpaceRequest
Provisioned_noClaimRef(c) == [NoTarget EXCEPT !.there = TRUE]
-----------------------------------------------------------------------------
(* Users, the toolchain that serves SpaceRequests, Kubernetes.             *)

CreateClaim(c, d) ==
  /\ ~claims[c].there /\ creates[c] < MaxCreates
  /\ claims' = [claims EXCEPT ![c] = [NoClaim EXCEPT !.there = TRUE, !.target = d]]
  /\ creates' = [creates EXCEPT ![c] = @ + 1]
  /\ UNCHANGED <<policy, targets, srs, claimer, maker, made, faults, reused>>

\* An object that is deleted stays, deleting, until its finalizer is removed.
DeletedClaim(x) == IF x.fin THEN [x EXCEPT !.deleting = TRUE] ELSE NoClaim
DeletedTarget(x) == IF x.fin THEN [x EXCEPT !.deleting = TRUE] ELSE NoTarget

DeleteClaim(c) ==
  /\ claims[c].there /\ ~claims[c].deleting
  /\ claims' = [claims EXCEPT ![c] = DeletedClaim(@)]
  /\ UNCHANGED <<bounds, targets, srs, claimer, maker, faults>>

CreateTarget(d, ref) ==
  /\ d \in UserTargets \ made
  /\ targets' = [targets EXCEPT ![d] = [NoTarget EXCEPT !.there = TRUE, !.claimRef = ref]]
  /\ made' = made \union {d}
  /\ UNCHANGED <<policy, claims, srs, claimer, maker, creates, faults, reused>>

DeleteTarget(d) ==
  /\ d \in UserTargets /\ targets[d].there /\ ~targets[d].deleting
  /\ targets' = [targets EXCEPT ![d] = DeletedTarget(@)]
  /\ UNCHANGED <<bounds, claims, srs, claimer, maker, faults>>

\* The toolchain grants a namespace; terminates a deleted SpaceRequest.
SpaceRequestReady(s) ==
  /\ srs[s].there /\ ~srs[s].deleting /\ ~srs[s].ready
  /\ srs' = [srs EXCEPT ![s].ready = TRUE]
  /\ UNCHANGED <<bounds, claims, targets, claimer, maker, faults>>

SpaceRequestGone(s) ==
  /\ srs[s].deleting
  /\ srs' = [srs EXCEPT ![s] = NoSR]
  /\ UNCHANGED <<bounds, claims, targets, claimer, maker, faults>>
-----------------------------------------------------------------------------
(* DeploymentTargetClaimReconciler                                         *)

isDTCBound(c) == claims[c].complete /\ claims[c].phase = "Bound"

\* checkForBindingConflict is the first and the last conjunct.
doesDTMatchDTC(d, c) ==
  /\ targets[d].claimRef \in {None, c}
  /\ targets[d].phase = "Available"
  /\ claims[c].target \in {None, d}

findMatchingDTForDTC(c) ==
  {d \in Targets : /\ targets[d].there
                   /\ claims[c].marked => targets[d].claimRef = c
                   /\ doesDTMatchDTC(d, c)}

\* getDTBoundByDTC: the target the claim names, or else the one that names it; a
\* conflicting claimRef is an error.
BoundTo(c) ==
  {d \in Targets : targets[d].there /\ IF claims[c].target # None THEN d = claims[c].target
                                       ELSE targets[d].claimRef = c}
BindingConflict(c) ==
  \/ Cardinality(BoundTo(c)) > 1
  \/ \E d \in BoundTo(c) : targets[d].claimRef \notin {None, c}

Idle(c) == claimer.pc = "idle" /\ claims[c].there

\* findMatchingSpaceRequestForDTC
HasSpaceRequest(c) == \E s \in SRs : srs[s].there /\ srs[s].claim = c

\* The start of a reconcile: the finalizer is added, and a marked claim that is
\* Pending gets its SpaceRequest (handleProvisioningOfSpaceRequestForDTC).
PrepareClaim(c) ==
  /\ Idle(c) /\ ~claims[c].deleting
  /\ \/ /\ ~claims[c].fin
        /\ claims' = [claims EXCEPT ![c].fin = TRUE]
        /\ UNCHANGED srs
     \/ /\ claims[c].fin /\ claims[c].phase = "Pending" /\ claims[c].marked
        /\ ~HasSpaceRequest(c)
        /\ \E s \in SRs :
             /\ ~srs[s].there /\ \A q \in SRs : ~srs[q].there => srs[q] = srs[s]
             /\ s = CHOOSE q \in SRs : ~srs[q].there
             /\ srs' = [srs EXCEPT ![s] = [NoSR EXCEPT !.there = TRUE, !.claim = c]]
        /\ UNCHANGED claims
  /\ UNCHANGED <<bounds, targets, claimer, maker, faults>>

\* What is left to do for a claim that has its finalizer and its SpaceRequest.
Prepared(c) ==
  /\ Idle(c) /\ claims[c].fin /\ ~claims[c].deleting
  /\ claims[c].phase = "Pending" /\ claims[c].marked
       => HasSpaceRequest(c) \/ \A s \in SRs : srs[s].there

\* The reconcile decides to bind c to d.
StartBind(c) ==
  /\ Prepared(c) /\ ~claims[c].complete
  /\ \E d \in Targets :
       \/ /\ claims[c].target = None
          /\ d \in findMatchingDTForDTC(c)
          /\ claimer' = [pc |-> "setTarget", c |-> c, d |-> d, saw |-> targets[d]]
       \/ /\ claims[c].target = d /\ targets[d].there
          /\ targets[d].claimRef = c \/ (targets[d].claimRef = None /\ doesDTMatchDTC(d, c))
          /\ claimer' = [pc |-> "setClaimBound", c |-> c, d |-> d, saw |-> targets[d]]
  /\ UNCHANGED <<bounds, claims, targets, srs, maker, faults>>

\* There is nothing to bind to: wait (Pending), marked for provisioning if the
\* claim names no target.
NothingToBind(c) ==
  /\ Prepared(c) /\ ~claims[c].complete
  /\ \/ /\ claims[c].target = None /\ findMatchingDTForDTC(c) = {}
        /\ claims' = [claims EXCEPT ![c].marked = TRUE, ![c].phase = "Pending"]
     \/ /\ claims[c].target # None
        /\ \/ ~targets[claims[c].target].there
           \/ targets[claims[c].target].claimRef \notin {None, c}
        /\ claims' = [claims EXCEPT ![c].phase = "Pending"]
  /\ claims' # claims
  /\ UNCHANGED <<bounds, targets, srs, claimer, maker, faults>>

\* bindDeploymentTargetClaimToTarget.  A write of the claim fails if it was deleted
\* meanwhile, one of the target if that has changed since it was read.
Unchanged(d) == targets[d].there /\ targets[d] = claimer.saw

WriteClaim(from, to, new) ==
  /\ claimer.pc = from
  /\ claims[claimer.c].there /\ ~claims[claimer.c].deleting
  /\ claims' = [claims EXCEPT ![claimer.c] = new]
  /\ claimer' = IF to = "idle" THEN IdleClaimer ELSE [claimer EXCEPT !.pc = to]
  /\ UNCHANGED <<bounds, targets, srs, maker, faults>>

SetTarget ==
  WriteClaim("setTarget", "setClaimBound", [claims[claimer.c] EXCEPT !.target = claimer.d])
SetClaimBound ==
  WriteClaim("setClaimBound", "setTargetBound", [claims[claimer.c] EXCEPT !.phase = "Bound"])
BindComplete ==
  WriteClaim("complete", "idle", [claims[claimer.c] EXCEPT !.complete = TRUE])

SetTargetBound ==
  /\ claimer.pc = "setTargetBound"
  /\ Unchanged(claimer.d)
  /\ targets' = [targets EXCEPT ![claimer.d].phase = "Bound"]
  /\ claimer' = [claimer EXCEPT !.pc = "complete"]
  /\ UNCHANGED <<bounds, claims, srs, maker, faults>>

\* handleBoundedDeploymentTargetClaim.  The target is written first; the write of the
\* claim may fail.
HandleBound(c) ==
  /\ Prepared(c) /\ claims[c].complete
  /\ ~BindingConflict(c)
  /\ LET found == BoundTo(c) IN
       /\ targets' = [d \in Targets |-> IF d \in found THEN [targets[d] EXCEPT !.phase = "Bound"]
                                        ELSE targets[d]]
       /\ \/ /\ claims' = [claims EXCEPT ![c].phase = IF found = {} THEN "Lost" ELSE "Bound"]
             /\ UNCHANGED faults
          \/ found # {} /\ Fault /\ UNCHANGED claims
  /\ UNCHANGED <<bounds, srs, claimer, maker>>

\* handleDTCDeletion: a bound claim's target is deleted or kept, then released.
StartDeletion(c) ==
  IF isDTCBound(c) /\ BoundTo(c) # {}
    THEN [IdleClaimer EXCEPT !.pc = "release", !.c = c, !.d = CHOOSE d \in BoundTo(c) : TRUE]
    ELSE [IdleClaimer EXCEPT !.pc = "removeFinalizer", !.c = c]

BeginDeletion(c) ==
  /\ Idle(c) /\ claims[c].deleting
  /\ isDTCBound(c) => ~BindingConflict(c)
  /\ claimer' = StartDeletion(c)
  /\ targets' = IF StartDeletion(c).pc = "release"
                THEN [targets EXCEPT ![StartDeletion(c).d].fin = TRUE,
                                     ![StartDeletion(c).d].deleting = @ \/ policy = "Delete"]
                ELSE targets
  /\ UNCHANGED <<bounds, claims, srs, maker, faults>>

ReleaseTarget ==
  /\ claimer.pc = "release"
  /\ IF targets[claimer.d].there
       THEN /\ targets' = [targets EXCEPT ![claimer.d].claimRef = None]
            /\ claimer' = [claimer EXCEPT !.pc = "setReleased", !.saw = targets'[claimer.d]]
       ELSE claimer' = IdleClaimer /\ UNCHANGED targets
  /\ UNCHANGED <<bounds, claims, srs, maker, faults>>

SetReleased ==
  /\ claimer.pc = "setReleased"
  /\ \/ /\ Unchanged(claimer.d)
        /\ targets' = [targets EXCEPT ![claimer.d].phase = "Released"]
        /\ claimer' = [claimer EXCEPT !.pc = "removeFinalizer"]
     \/ /\ ~targets[claimer.d].there
        /\ claimer' = IdleClaimer
        /\ UNCHANGED targets
  /\ UNCHANGED <<bounds, claims, srs, maker, faults>>

RemoveClaimFinalizer ==
  /\ claimer.pc = "removeFinalizer"
  /\ claims' = [claims EXCEPT ![claimer.c] = NoClaim]
  /\ claimer' = IdleClaimer
  /\ UNCHANGED <<bounds, targets, srs, maker, faults>>

\* A call fails, or its copy of the object is out of date: the reconcile is retried.
ReconcileFails ==
  /\ claimer.pc # "idle"
  /\ \/ Fault
     \/ /\ claimer.pc \in {"setTarget", "setClaimBound", "complete"}
        /\ ~claims[claimer.c].there \/ claims[claimer.c].deleting
        /\ UNCHANGED faults
     \/ /\ claimer.pc = "setTargetBound" \/ (claimer.pc = "setReleased" /\ targets[claimer.d].there)
        /\ ~Unchanged(claimer.d)
        /\ UNCHANGED faults
  /\ claimer' = IdleClaimer
  /\ UNCHANGED <<bounds, claims, targets, srs, maker>>
-----------------------------------------------------------------------------
(* DeploymentTargetReconciler: one write per reconcile that is modelled.   *)

\* findMatchingSpaceRequestForDT
SRsOf(d) ==
  LET labelled == {s \in SRs : srs[s].there /\ srs[s].target = d}
      claimed  == {s \in SRs : /\ srs[s].there
                               /\ targets[d].claimRef # None /\ srs[s].claim = targets[d].claimRef}
  IN  IF labelled # {} THEN labelled ELSE claimed

\* The finalizer is added; the claimRef of a retained target is unset when its
\* claim is gone.
ReconcileTarget(d) ==
  /\ targets[d].there /\ ~targets[d].deleting
  /\ LET x == targets[d]
         unset == /\ policy = "Retain" /\ x.claimRef # None
                  /\ ~claims[x.claimRef].there
     IN  targets' = [targets EXCEPT ![d] =
                       [x EXCEPT !.fin = TRUE, !.claimRef = IF unset THEN None ELSE @]]
  /\ targets' # targets
  /\ UNCHANGED <<bounds, claims, srs, claimer, maker, faults>>

\* A deleted target goes once there is no SpaceRequest, or it is to be retained.
RemoveTargetFinalizer(d) ==
  /\ targets[d].deleting
  /\ SRsOf(d) = {} \/ policy = "Retain"
  /\ targets' = [targets EXCEPT ![d] = NoTarget]
  /\ UNCHANGED <<bounds, claims, srs, claimer, maker, faults>>

DeleteSpaceRequest(d) ==
  /\ targets[d].deleting /\ policy = "Delete"
  /\ \E s \in SRsOf(d) :
       /\ srs[s].ready /\ ~srs[s].deleting
       /\ srs' = [srs EXCEPT ![s].deleting = TRUE]
  /\ UNCHANGED <<bounds, claims, targets, claimer, maker, faults>>

\* Two minutes have passed, and the toolchain reports it cannot terminate the space.
TargetFails(d) ==
  /\ targets[d].deleting /\ policy = "Delete" /\ targets[d].phase # "Failed"
  /\ \E s \in SRsOf(d) : srs[s].deleting
  /\ targets' = [targets EXCEPT ![d].phase = "Failed"]
  /\ UNCHANGED <<bounds, claims, srs, claimer, maker, faults>>
-----------------------------------------------------------------------------
(* SpaceRequestReconciler                                                  *)

\* deleteSpaceRequestIfOrphaned reads the claim, and deletes in a second call.
IsOrphan(s) == policy = "Delete" /\ ~claims[srs[s].claim].there

FindOrphan(s) ==
  /\ maker.pc = "idle" /\ srs[s].there /\ ~srs[s].deleting /\ IsOrphan(s)
  /\ maker' = [pc |-> "deleteOrphan", s |-> s]
  /\ UNCHANGED <<bounds, claims, targets, srs, claimer, faults>>

DeleteOrphan ==
  /\ maker.pc = "deleteOrphan"
  /\ srs' = [srs EXCEPT ![maker.s].deleting = srs[maker.s].there]
  /\ maker' = IdleMaker
  /\ UNCHANGED <<bounds, claims, targets, claimer, faults>>

\* findMatchingDTForSpaceRequest: by label, or by the claim, which must exist.
TargetsOfSR(s) ==
  {d \in Targets : targets[d].there /\ IF srs[s].target # None /\ targets[srs[s].target].there
                                       THEN d = srs[s].target
                                       ELSE targets[d].claimRef = srs[s].claim}

\* createDeploymentTargetForSpaceRequest
Provisioned(c) == [NoTarget EXCEPT !.there = TRUE, !.claimRef = c]

\* A ready SpaceRequest is given its target, which is created if there is none.
ServeSpaceRequest(s) ==
  /\ maker.pc = "idle" /\ srs[s].ready /\ ~srs[s].deleting /\ ~IsOrphan(s)
  /\ LET c == srs[s].claim IN
       \/ /\ TargetsOfSR(s) = {} /\ claims[c].there /\ ~targets[c].there
          /\ targets' = [targets EXCEPT ![c] = Provisioned(c)]
          /\ made' = made \union {c} /\ reused' = reused \union (made \intersect {c})
          /\ UNCHANGED srs
       \/ /\ claims[c].there
          /\ \E d \in TargetsOfSR(s) \ {srs[s].target} : srs' = [srs EXCEPT ![s].target = d]
          /\ UNCHANGED <<targets, made, reused>>
  /\ UNCHANGED <<policy, creates, claims, claimer, maker, faults>>

MakerFails ==
  /\ maker.pc = "deleteOrphan"
  /\ Fault
  /\ maker' = IdleMaker
  /\ UNCHANGED <<bounds, claims, targets, srs, claimer>>
-----------------------------------------------------------------------------
ClaimController ==
  \/ \E c \in Claims : PrepareClaim(c) \/ StartBind(c) \/ NothingToBind(c)
                       \/ HandleBound(c) \/ BeginDeletion(c)
  \/ SetTarget \/ SetClaimBound \/ SetTargetBound \/ BindComplete
  \/ ReleaseTarget \/ SetReleased \/ RemoveClaimFinalizer
  \/ ReconcileFails

TargetController(d) ==
  ReconcileTarget(d) \/ RemoveTargetFinalizer(d) \/ DeleteSpaceRequest(d) \/ TargetFails(d)

SpaceRequestController ==
  \/ \E s \in SRs : FindOrphan(s) \/ ServeSpaceRequest(s)
  \/ DeleteOrphan \/ MakerFails

Next ==
  \/ \E c \in Claims : DeleteClaim(c) \/ \E d \in UserTargets \union {None} : CreateClaim(c, d)
  \/ \E d \in UserTargets : DeleteTarget(d) \/ \E r \in Claims \union {None} : CreateTarget(d, r)
  \/ \E s \in SRs : SpaceRequestReady(s) \/ SpaceRequestGone(s)
  \/ ClaimController
  \/ \E d \in Targets : TargetController(d)
  \/ SpaceRequestController

Spec == Init /\ [][Next]_vars
-----------------------------------------------------------------------------
(* Properties *)

\* "There is a 1:1 relationship between them" (deploymenttargetclaim_controller.go:
\* 727): no two claims complete their binding to the same target, although the
\* claim and the target are written one after the other, writes fail, and nothing
\* but the target's phase tells the next claim that it is taken.  A target that is
\* provisioned for a claim when an earlier one, provisioned for a claim of that name,
\* is gone has the name of the earlier one; a claim that was bound to the earlier one
\* then passes for bound to it.
ExclusiveBinding ==
  \A c, e \in Claims :
    c # e /\ claims[c].complete /\ claims[e].complete /\ claims[c].target \notin reused
      => claims[c].target # claims[e].target

\* "once the DT is fully handled (phase updated, claim ref updated, or deleted),
\* remove the finalizer from the DTC" (deploymenttargetclaim_controller.go:384): a
\* bound claim never goes and leaves its target Bound, which no other claim could
\* take, whichever of the calls failed and was retried.
Goes(c) == claims[c].there /\ ~claims'[c].there

ReleasedWithClaim ==
  [][\A c \in Claims, d \in Targets :
       Goes(c) /\ isDTCBound(c) /\ claims[c].target = d => targets[d].phase # "Bound"]_vars

\* The controllers and the toolchain have nothing left to do but retries that fail
\* again, unless a user acts.
Quiescent ==
  ~ENABLED <<\/ ClaimController \/ SpaceRequestController
             \/ \E d \in Targets : TargetController(d)
             \/ \E s \in SRs : SpaceRequestReady(s) \/ SpaceRequestGone(s)>>_vars

\* The first claim of a name for which a SpaceRequest is made, and that takes no
\* user's target, is bound in the end, whatever write fails on the way
\* (deploymenttargetclaim_controller.go:189).  A later claim of that name may wait
\* for ever: if the earlier one was deleted while it was being bound, its target
\* stays Bound.
ProvisionedClaimsBind ==
  Quiescent /\ policy = "Delete" =>
    \A c \in Claims :
      creates[c] = 1 /\ claims[c].marked /\ claims[c].target \in {None, c} /\ HasSpaceRequest(c)
        => claims[c].complete

\* Nothing is left behind: claims and targets that are deleted go, and so do the
\* SpaceRequests of claims that are gone (spacerequest_controller.go:165).  A claim
\* whose target names another claim is stuck: that is an error at each retry.
AllReclaimed ==
  Quiescent =>
    /\ \A c \in Claims : claims[c].deleting => BindingConflict(c)
    /\ \A d \in Targets : ~targets[d].deleting
    /\ policy = "Delete" => \A s \in SRs : srs[s].there => claims[srs[s].claim].there

\* When the controllers have nothing left to do, provisioning and reclaiming are complete.
BindingInv == TypeOK /\ ProvisionedClaimsBind /\ AllReclaimed
=============================================================================
