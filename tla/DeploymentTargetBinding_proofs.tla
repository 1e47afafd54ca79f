-------------------- MODULE DeploymentTargetBinding_proofs --------------------
(***************************************************************************)
(* Proofs that no two claims are bound to the same target, and that no     *)
(* bound claim goes before its target is released, for any number of       *)
(* claims, targets and SpaceRequests, of claims of one name and of calls   *)
(* that fail.                                                              *)
(***************************************************************************)
EXTENDS DeploymentTargetBinding, TLAPS

BindingPcs == {"setTarget", "setClaimBound", "setTargetBound", "complete"}
ReleasePcs == {"release", "setReleased", "removeFinalizer"}

\* c is bound to d, or the target has been written and the claim is about to be.
Holds(c, d) ==
  \/ claims[c].complete /\ claims[c].target = d
  \/ claimer.pc = "complete" /\ claimer.c = c /\ claimer.d = d

\* A name is recorded when a target is created under it.
MadeInv == \A d \in Targets : targets[d].there => d \in made

\* A claim that is bound, or deleting, has its finalizer; a bound one names its target.
ClaimInv ==
  \A c \in Claims :
    /\ claims[c].complete => claims[c].fin /\ claims[c].target \in made
    /\ claims[c].deleting => claims[c].fin

SpaceRequestInv == \A s \in SRs : srs[s].there => srs[s].claim \in Claims

\* The claim that is reconciled does not go meanwhile, and its target was free, or kept
\* for it, when it was read.
BinderInv ==
  claimer.pc \in BindingPcs =>
    /\ claimer.c \in Claims /\ claimer.d \in made
    /\ claims[claimer.c].fin /\ ~claims[claimer.c].complete
    /\ claimer.saw.claimRef \in {None, claimer.c}
    /\ claimer.saw.phase = "Available" \/ claimer.saw.claimRef = claimer.c
    /\ claimer.pc # "setTarget" => claims[claimer.c].target = claimer.d

\* A claim that is let go is deleting, and its target is not Bound any more.
ReleaserInv ==
  claimer.pc \in ReleasePcs =>
    /\ claimer.c \in Claims /\ claims[claimer.c].deleting
    /\ claimer.pc # "removeFinalizer" =>
         claimer.d \in Targets /\ claims[claimer.c].target = claimer.d
    /\ claimer.pc = "removeFinalizer" /\ isDTCBound(claimer.c) =>
         targets[claims[claimer.c].target].phase # "Bound"

MakerInv == maker.pc = "deleteOrphan" => maker.s \in SRs

\* A target that is held is never Available again, nor kept for another claim.
TakenInv ==
  \A c \in Claims, d \in Targets \ reused :
    Holds(c, d) /\ targets[d].there =>
      targets[d].phase # "Available" /\ targets[d].claimRef \in {None, c}

\* ExclusiveBinding, made inductive.
HolderInv ==
  \A c, e \in Claims, d \in Targets \ reused : Holds(c, d) /\ Holds(e, d) => c = e

IInv ==
  /\ TypeOK /\ MadeInv /\ ClaimInv /\ SpaceRequestInv /\ BinderInv /\ ReleaserInv /\ MakerInv
  /\ TakenInv /\ HolderInv
-----------------------------------------------------------------------------
\* One target is written.
LEMMA TargetWritten ==
  ASSUME TypeOK, NEW d \in Targets, NEW x \in Target, x.there \/ x = NoTarget,
         targets' = [targets EXCEPT ![d] = x]
  PROVE  /\ targets' \in [Targets -> Target]
         /\ \A q \in Targets : targets'[q].there \/ targets'[q] = NoTarget
         /\ targets'[d] = x /\ \A q \in Targets \ {d} : targets'[q] = targets[q]
  BY DEF TypeOK

\* One claim is written.
LEMMA ClaimWritten ==
  ASSUME TypeOK, NEW c \in Claims, NEW x \in Claim, x.there \/ x = NoClaim,
         claims' = [claims EXCEPT ![c] = x]
  PROVE  /\ claims' \in [Claims -> Claim]
         /\ \A q \in Claims : claims'[q].there \/ claims'[q] = NoClaim
         /\ claims'[c] = x /\ \A q \in Claims \ {c} : claims'[q] = claims[q]
  BY DEF TypeOK

\* What a target undergoes while it is held: it goes, or its phase moves on, or its
\* claimRef is unset.
Wears(d) ==
  targets'[d].there =>
    /\ targets[d].there
    /\ targets[d].phase # "Available" => targets'[d].phase # "Available"
    /\ targets'[d].claimRef \in {None, targets[d].claimRef}

LEMMA HoldersKept ==
  ASSUME IInv, \A d \in Targets : Wears(d), UNCHANGED <<made, reused>>,
         \A c \in Claims, d \in Targets : Holds(c, d)' => Holds(c, d)
  PROVE  MadeInv' /\ TakenInv' /\ HolderInv'
<1>1. MadeInv'
  BY DEF IInv, MadeInv, Wears
<1>2. HolderInv'
  BY DEF IInv, HolderInv
<1>3. TakenInv'
  <2> SUFFICES ASSUME NEW c \in Claims, NEW d \in Targets \ reused, Holds(c, d)', targets'[d].there
               PROVE  targets'[d].phase # "Available" /\ targets'[d].claimRef \in {None, c}
    BY DEF TakenInv
  <2>1. Holds(c, d) /\ targets[d].there /\ Wears(d)
    BY DEF Wears
  <2>2. targets[d].phase # "Available" /\ targets[d].claimRef \in {None, c}
    BY <2>1 DEF IInv, TakenInv
  <2> QED
    BY <2>1, <2>2 DEF Wears
<1> QED
  BY <1>1, <1>2, <1>3

\* A step that only writes targets, and makes none Bound.
LEMMA TargetStep ==
  ASSUME IInv, TypeOK', UNCHANGED <<claims, srs, claimer, maker, made, reused>>,
         \A d \in Targets : Wears(d) /\ (targets'[d].phase = "Bound" => targets[d].phase = "Bound")
  PROVE  IInv'
<1>1. \A c \in Claims, d \in Targets : Holds(c, d)' => Holds(c, d)
  BY DEF Holds
<1>2. MadeInv' /\ TakenInv' /\ HolderInv'
  BY <1>1, HoldersKept
<1>3. ClaimInv' /\ SpaceRequestInv' /\ BinderInv' /\ MakerInv'
  BY DEF IInv, ClaimInv, SpaceRequestInv, BinderInv, MakerInv
<1>4. ReleaserInv'
  <2> SUFFICES ASSUME claimer.pc \in ReleasePcs
               PROVE  ReleaserInv'
    BY DEF ReleaserInv
  <2>1. claimer.c \in Claims /\ (isDTCBound(claimer.c) => claims[claimer.c].target \in Targets)
    BY DEF IInv, ReleaserInv, ClaimInv, isDTCBound, TypeOK
  <2> QED
    BY <2>1 DEF IInv, ReleaserInv, isDTCBound
<1> QED
  BY <1>2, <1>3, <1>4 DEF IInv

\* A step that only writes a claim, other than to bind it, and not one that is let go.
LEMMA ClaimStep ==
  ASSUME IInv, TypeOK', UNCHANGED <<targets, srs, claimer, maker, made, reused>>,
         NEW c \in Claims, NEW x \in Claim, x.there \/ x = NoClaim,
         claims' = [claims EXCEPT ![c] = x],
         x.complete => claims[c].complete /\ x.fin /\ x.target = claims[c].target,
         x.deleting => x.fin,
         claimer.pc \in BindingPcs /\ claimer.c = c =>
           x.fin /\ ~x.complete /\ x.target = claims[c].target,
         claimer.pc \in ReleasePcs => claimer.c # c
  PROVE  IInv'
<1>1. claims'[c] = x /\ \A q \in Claims \ {c} : claims'[q] = claims[q]
  BY ClaimWritten DEF IInv
<1>2. \A q \in Claims, d \in Targets : Holds(q, d)' => Holds(q, d)
  BY <1>1 DEF Holds
<1>3. \A d \in Targets : Wears(d)
  BY DEF Wears
<1>4. MadeInv' /\ TakenInv' /\ HolderInv'
  BY <1>2, <1>3, HoldersKept
<1>5. ClaimInv'
  BY <1>1 DEF IInv, ClaimInv
<1>6. SpaceRequestInv' /\ MakerInv'
  BY DEF IInv, SpaceRequestInv, MakerInv
<1>7. BinderInv'
  BY <1>1 DEF IInv, BinderInv
<1>8. ReleaserInv'
  BY <1>1 DEF IInv, ReleaserInv, isDTCBound
<1> QED
  BY <1>4, <1>5, <1>6, <1>7, <1>8 DEF IInv

\* A step that only concerns SpaceRequests.
LEMMA SpaceRequestStep ==
  ASSUME IInv, UNCHANGED <<policy, claims, targets, claimer, creates, made, reused>>,
         srs' \in [SRs -> SpaceRequest], maker' \in Maker, faults' \in 0..MaxFaults,
         \A s \in SRs : /\ srs'[s].there \/ srs'[s] = NoSR
                        /\ srs'[s].there => srs'[s].claim \in Claims,
         maker'.pc = "deleteOrphan" => maker'.s \in SRs
  PROVE  IInv'
<1>1. TypeOK'
  BY DEF IInv, TypeOK
<1>2. SpaceRequestInv' /\ MakerInv'
  BY DEF SpaceRequestInv, MakerInv
<1>3. MadeInv' /\ ClaimInv' /\ BinderInv' /\ ReleaserInv'
  BY DEF IInv, MadeInv, ClaimInv, BinderInv, ReleaserInv, isDTCBound
<1>4. TakenInv' /\ HolderInv'
  BY DEF IInv, TakenInv, HolderInv, Holds
<1> QED
  BY <1>1, <1>2, <1>3, <1>4 DEF IInv

LEMMA FaultBounded ==
  ASSUME TypeOK, Fault
  PROVE  faults' \in 0..MaxFaults
  BY BoundsAssumption DEF TypeOK, Fault
-----------------------------------------------------------------------------
\* What is done to SpaceRequests by the toolchain, the target controller and their own
\* controller, short of creating a target.
LEMMA SpaceRequestsStep ==
  ASSUME IInv, NEW s \in SRs,
         \/ SpaceRequestReady(s) \/ SpaceRequestGone(s) \/ FindOrphan(s)
         \/ DeleteOrphan \/ MakerFails
         \/ \E d \in Targets : DeleteSpaceRequest(d)
  PROVE  IInv'
<1>1. /\ srs \in [SRs -> SpaceRequest] /\ maker \in Maker /\ faults \in 0..MaxFaults
      /\ \A q \in SRs : /\ srs[q].there \/ srs[q] = NoSR
                        /\ srs[q].there => srs[q].claim \in Claims
      /\ maker.pc = "deleteOrphan" => maker.s \in SRs
  BY DEF IInv, TypeOK, SpaceRequestInv, MakerInv
<1>2. NoSR \in SpaceRequest /\ NoSR.there = FALSE /\ NoSR.deleting = FALSE
  BY DEF NoSR, SpaceRequest
<1>3. IdleMaker \in Maker /\ IdleMaker.pc = "idle"
  BY DEF IdleMaker, Maker
<1>4. ASSUME NEW q \in SRs, NEW x \in SpaceRequest, srs' = [srs EXCEPT ![q] = x],
             x = NoSR \/ (x.there /\ srs[q].there /\ x.claim = srs[q].claim)
      PROVE  /\ srs' \in [SRs -> SpaceRequest]
             /\ \A r \in SRs : /\ srs'[r].there \/ srs'[r] = NoSR
                               /\ srs'[r].there => srs'[r].claim \in Claims
  BY <1>1, <1>2, <1>4
<1>5. CASE SpaceRequestReady(s)
  <2> DEFINE x == [srs[s] EXCEPT !.ready = TRUE]
  <2>1. x \in SpaceRequest /\ x.there = srs[s].there /\ x.claim = srs[s].claim
    BY <1>1 DEF SpaceRequest
  <2>2. srs' = [srs EXCEPT ![s] = x] /\ srs[s].there
    BY <1>5 DEF SpaceRequestReady
  <2> HIDE DEF x
  <2> QED
    BY <1>1, <1>4, <1>5, <2>1, <2>2, SpaceRequestStep DEF SpaceRequestReady, bounds
<1>6. CASE SpaceRequestGone(s)
  BY <1>1, <1>2, <1>4, <1>6, SpaceRequestStep DEF SpaceRequestGone, bounds
<1>7. CASE FindOrphan(s)
  <2>1. maker' \in Maker /\ maker'.s = s
    BY <1>7 DEF FindOrphan, Maker
  <2> QED
    BY <1>1, <1>7, <2>1, SpaceRequestStep DEF FindOrphan, bounds
<1>8. CASE DeleteOrphan
  <2>1. PICK q \in SRs : q = maker.s
    BY <1>1, <1>8 DEF DeleteOrphan
  <2> DEFINE x == [srs[q] EXCEPT !.deleting = srs[q].there]
  <2>2. x \in SpaceRequest /\ x.there = srs[q].there /\ x.claim = srs[q].claim
    BY <1>1 DEF SpaceRequest
  <2>3. ~srs[q].there => x = NoSR
    <3> SUFFICES ASSUME ~srs[q].there
                 PROVE  x = NoSR
      OBVIOUS
    <3>1. srs[q] = NoSR /\ NoSR.there = NoSR.deleting
      BY <1>1, <1>2
    <3> QED
      BY <3>1 DEF NoSR
  <2>4. srs' = [srs EXCEPT ![q] = x]
    BY <1>8, <2>1 DEF DeleteOrphan
  <2> HIDE DEF x
  <2>5. x = NoSR \/ (x.there /\ srs[q].there /\ x.claim = srs[q].claim)
    BY <1>1, <2>2, <2>3 DEF SpaceRequest
  <2> QED
    BY <1>1, <1>3, <1>4, <1>8, <2>2, <2>4, <2>5, SpaceRequestStep DEF DeleteOrphan, bounds
<1>9. CASE MakerFails
  BY <1>1, <1>3, <1>9, FaultBounded, SpaceRequestStep DEF MakerFails, bounds, IInv
<1>10. ASSUME NEW d \in Targets, DeleteSpaceRequest(d)
       PROVE  IInv'
  <2>1. PICK q \in SRsOf(d) : srs' = [srs EXCEPT ![q].deleting = TRUE]
    BY <1>10 DEF DeleteSpaceRequest
  <2>2. q \in SRs /\ srs[q].there
    BY DEF SRsOf
  <2> DEFINE x == [srs[q] EXCEPT !.deleting = TRUE]
  <2>3. x \in SpaceRequest /\ x.there = srs[q].there /\ x.claim = srs[q].claim
    BY <1>1, <2>2 DEF SpaceRequest
  <2>4. srs' = [srs EXCEPT ![q] = x]
    BY <2>1
  <2> HIDE DEF x
  <2> QED
    BY <1>1, <1>4, <1>10, <2>2, <2>3, <2>4, SpaceRequestStep DEF DeleteSpaceRequest, bounds
<1> QED
  BY <1>5, <1>6, <1>7, <1>8, <1>9, <1>10

\* Users create and delete claims.
LEMMA UserClaimStep ==
  ASSUME IInv, NEW c \in Claims,
         DeleteClaim(c) \/ \E d \in UserTargets \union {None} : CreateClaim(c, d)
  PROVE  IInv'
<1>1. /\ TypeOK /\ claims \in [Claims -> Claim] /\ claims[c] \in Claim
      /\ claims[c].there \/ claims[c] = NoClaim
  BY DEF IInv, TypeOK
<1>2. /\ claims[c].complete => claims[c].fin
      /\ claimer.pc \in BindingPcs /\ claimer.c = c => claims[c].fin /\ ~claims[c].complete
      /\ claimer.pc \in ReleasePcs /\ claimer.c = c => claims[c].deleting /\ claims[c].fin
  BY DEF IInv, ClaimInv, BinderInv, ReleaserInv
<1>3. /\ NoClaim \in Claim /\ ~NoClaim.there /\ ~NoClaim.fin /\ ~NoClaim.complete
      /\ ~NoClaim.deleting
  BY DEF NoClaim, Claim
<1>4. ASSUME DeleteClaim(c)
      PROVE  IInv'
  <2> DEFINE x == DeletedClaim(claims[c])
  <2>1. claims' = [claims EXCEPT ![c] = x]
    BY <1>1, <1>4 DEF DeleteClaim
  <2>2. x \in Claim /\ (x.there \/ x = NoClaim)
    BY <1>1, <1>3, <1>4 DEF DeletedClaim, DeleteClaim, Claim
  <2>3. claims[c].fin => x.fin /\ x.complete = claims[c].complete /\ x.target = claims[c].target
    BY <1>1 DEF DeletedClaim, Claim
  <2>4. ~claims[c].fin => x = NoClaim
    BY DEF DeletedClaim
  <2> HIDE DEF x
  <2>5. TypeOK'
    BY <1>1, <1>4, <2>1, <2>2, ClaimWritten DEF DeleteClaim, bounds, TypeOK
  <2>6. ~claims[c].deleting
    BY <1>4 DEF DeleteClaim
  <2> QED
    BY <1>1, <1>2, <1>3, <1>4, <2>1, <2>2, <2>3, <2>4, <2>5, <2>6, ClaimStep
    DEF DeleteClaim, bounds
<1>5. ASSUME NEW d \in UserTargets \union {None}, CreateClaim(c, d)
      PROVE  IInv'
  <2> DEFINE x == [NoClaim EXCEPT !.there = TRUE, !.target = d]
  <2>1. claims' = [claims EXCEPT ![c] = x] /\ claims[c] = NoClaim
    BY <1>1, <1>5 DEF CreateClaim
  <2>2. x \in Claim /\ x.there /\ ~x.complete /\ ~x.deleting
    BY DEF NoClaim, Claim
  <2> HIDE DEF x
  <2>3. creates' \in [Claims -> 0..MaxCreates]
    <3>1. /\ creates \in [Claims -> 0..MaxCreates] /\ creates[c] < MaxCreates
          /\ creates' = [creates EXCEPT ![c] = creates[c] + 1]
      BY <1>1, <1>5 DEF CreateClaim, TypeOK
    <3>2. creates[c] + 1 \in 0..MaxCreates
      BY <3>1, BoundsAssumption
    <3> QED
      BY <3>1, <3>2
  <2>4. TypeOK'
    BY <1>1, <1>5, <2>1, <2>2, <2>3, ClaimWritten DEF CreateClaim, TypeOK
  <2> QED
    BY <1>2, <1>3, <1>5, <2>1, <2>2, <2>4, ClaimStep DEF CreateClaim
<1> QED
  BY <1>4, <1>5

\* Users delete targets, and the target controller has its way with them.
LEMMA TargetsStep ==
  ASSUME IInv, NEW d \in Targets,
         DeleteTarget(d) \/ ReconcileTarget(d) \/ RemoveTargetFinalizer(d) \/ TargetFails(d)
  PROVE  IInv'
<1>1. /\ TypeOK /\ targets \in [Targets -> Target] /\ targets[d] \in Target
      /\ targets[d].there \/ targets[d] = NoTarget
  BY DEF IInv, TypeOK
<1>2. /\ NoTarget \in Target /\ ~NoTarget.there /\ NoTarget.phase = "Available"
      /\ ~NoTarget.deleting
  BY DEF NoTarget, Target
<1>3. ASSUME NEW x \in Target, targets' = [targets EXCEPT ![d] = x],
             \/ x = NoTarget
             \/ /\ x.there /\ targets[d].there /\ x.claimRef \in {None, targets[d].claimRef}
                /\ x.phase \in {"Failed", targets[d].phase},
             UNCHANGED <<policy, claims, srs, claimer, maker, creates, made, reused, faults>>
      PROVE  IInv'
  <2>1. /\ targets' \in [Targets -> Target]
        /\ \A q \in Targets : targets'[q].there \/ targets'[q] = NoTarget
        /\ targets'[d] = x /\ \A q \in Targets \ {d} : targets'[q] = targets[q]
    BY <1>1, <1>2, <1>3, TargetWritten
  <2>2. TypeOK'
    BY <1>1, <1>3, <2>1 DEF TypeOK
  <2>3. ASSUME NEW q \in Targets
        PROVE  Wears(q) /\ (targets'[q].phase = "Bound" => targets[q].phase = "Bound")
    BY <1>2, <1>3, <2>1 DEF Wears
  <2> QED
    BY <1>3, <2>2, <2>3, TargetStep
<1>4. CASE DeleteTarget(d)
  <2> DEFINE x == DeletedTarget(targets[d])
  <2>1. targets' = [targets EXCEPT ![d] = x] /\ targets[d].there
    BY <1>1, <1>4 DEF DeleteTarget
  <2>2. x \in Target /\ (x = NoTarget \/ (x.there /\ x.claimRef = targets[d].claimRef
                                                 /\ x.phase = targets[d].phase))
    BY <1>1, <1>2, <2>1 DEF DeletedTarget, Target
  <2> HIDE DEF x
  <2> QED
    BY <1>3, <1>4, <2>1, <2>2 DEF DeleteTarget, bounds
<1>5. CASE ReconcileTarget(d)
  <2>1. PICK ref \in {None, targets[d].claimRef} :
          targets' = [targets EXCEPT ![d] = [targets[d] EXCEPT !.fin = TRUE, !.claimRef = ref]]
    BY <1>5 DEF ReconcileTarget
  <2> DEFINE x == [targets[d] EXCEPT !.fin = TRUE, !.claimRef = ref]
  <2>2. targets[d].there
    BY <1>5 DEF ReconcileTarget
  <2>3. /\ x \in Target /\ x.there = targets[d].there /\ x.claimRef = ref
        /\ x.phase = targets[d].phase
    BY <1>1 DEF Target
  <2>4. targets' = [targets EXCEPT ![d] = x]
    BY <2>1
  <2> HIDE DEF x
  <2> QED
    BY <1>3, <1>5, <2>2, <2>3, <2>4 DEF ReconcileTarget, bounds
<1>6. CASE RemoveTargetFinalizer(d)
  BY <1>2, <1>3, <1>6 DEF RemoveTargetFinalizer, bounds
<1>7. CASE TargetFails(d)
  <2> DEFINE x == [targets[d] EXCEPT !.phase = "Failed"]
  <2>1. targets[d].there
    BY <1>1, <1>2, <1>7 DEF TargetFails
  <2>2. /\ x \in Target /\ x.there = targets[d].there /\ x.claimRef = targets[d].claimRef
        /\ x.phase = "Failed"
    BY <1>1 DEF Target
  <2>3. targets' = [targets EXCEPT ![d] = x]
    BY <1>7 DEF TargetFails
  <2> HIDE DEF x
  <2> QED
    BY <1>3, <1>7, <2>1, <2>2, <2>3 DEF TargetFails, bounds
<1> QED
  BY <1>4, <1>5, <1>6, <1>7

\* A target is created, by a user or for a claim.  Nobody holds it: its name is new, or is
\* recorded as used again.
LEMMA NewTarget ==
  ASSUME IInv, NEW d \in Targets, ~targets[d].there, NEW ref \in Claims \union {None},
         targets' = [targets EXCEPT ![d] = [NoTarget EXCEPT !.there = TRUE, !.claimRef = ref]],
         made' = made \union {d}, reused' = reused \union (made \intersect {d}),
         UNCHANGED <<policy, claims, srs, claimer, maker, creates, faults>>
  PROVE  IInv'
<1> DEFINE x == [NoTarget EXCEPT !.there = TRUE, !.claimRef = ref]
<1>1. x \in Target /\ x.there /\ x.phase = "Available"
  BY DEF NoTarget, Target
<1>2. targets' = [targets EXCEPT ![d] = x]
  OBVIOUS
<1> HIDE DEF x
<1>3. /\ targets' \in [Targets -> Target]
      /\ \A q \in Targets : targets'[q].there \/ targets'[q] = NoTarget
      /\ targets'[d] = x /\ \A q \in Targets \ {d} : targets'[q] = targets[q]
  BY <1>1, <1>2, TargetWritten DEF IInv
<1>4. made' \subseteq Targets /\ reused' \subseteq made'
  BY DEF IInv, TypeOK
<1>5. TypeOK'
  BY <1>3, <1>4 DEF IInv, TypeOK
<1>6. \A c \in Claims, q \in Targets : Holds(c, q) => q \in made
  BY DEF IInv, Holds, ClaimInv, BinderInv, BindingPcs
<1>7. \A c \in Claims, q \in Targets : Holds(c, q)' = Holds(c, q)
  BY DEF Holds
<1>8. MadeInv'
  BY <1>3 DEF IInv, MadeInv
<1>9. TakenInv'
  <2> SUFFICES ASSUME NEW c \in Claims, NEW q \in Targets \ reused', Holds(c, q), targets'[q].there
               PROVE  targets'[q].phase # "Available" /\ targets'[q].claimRef \in {None, c}
    BY <1>7 DEF TakenInv
  <2>1. q # d
    BY <1>6
  <2> QED
    BY <1>3, <2>1 DEF IInv, TakenInv
<1>10. HolderInv'
  BY <1>7 DEF IInv, HolderInv
<1>11. ClaimInv' /\ SpaceRequestInv' /\ BinderInv' /\ MakerInv'
  BY DEF IInv, ClaimInv, SpaceRequestInv, BinderInv, MakerInv
<1>12. ReleaserInv'
  <2>1. \A q \in Targets : targets'[q].phase = "Bound" => targets[q].phase = "Bound"
    BY <1>1, <1>3
  <2>2. claimer.pc \in ReleasePcs /\ isDTCBound(claimer.c) => claims[claimer.c].target \in Targets
    BY DEF IInv, ReleaserInv, ClaimInv, isDTCBound, TypeOK
  <2> QED
    BY <2>1, <2>2 DEF IInv, ReleaserInv, isDTCBound
<1> QED
  BY <1>5, <1>8, <1>9, <1>10, <1>11, <1>12 DEF IInv

\* A ready SpaceRequest is given its target.
LEMMA ServeStep ==
  ASSUME IInv, NEW s \in SRs, ServeSpaceRequest(s)
  PROVE  IInv'
<1>1. /\ srs \in [SRs -> SpaceRequest] /\ srs[s] \in SpaceRequest
      /\ \A q \in SRs : /\ srs[q].there \/ srs[q] = NoSR
                        /\ srs[q].there => srs[q].claim \in Claims
  BY DEF IInv, TypeOK, SpaceRequestInv
<1>2. srs[s].there /\ srs[s].claim \in Claims
  BY <1>1 DEF ServeSpaceRequest, NoSR
<1>3. CASE /\ ~targets[srs[s].claim].there
           /\ targets' = [targets EXCEPT ![srs[s].claim] = Provisioned(srs[s].claim)]
           /\ made' = made \union {srs[s].claim}
           /\ reused' = reused \union (made \intersect {srs[s].claim})
           /\ UNCHANGED srs
  <2>1. srs[s].claim \in Targets
    BY <1>2 DEF Targets
  <2> QED
    BY <1>2, <1>3, <2>1, NewTarget DEF ServeSpaceRequest, Provisioned
<1>4. ASSUME NEW d \in TargetsOfSR(s), srs' = [srs EXCEPT ![s].target = d],
             UNCHANGED <<targets, made, reused>>
      PROVE  IInv'
  <2>1. d \in UserTargets \union Claims
    BY DEF TargetsOfSR, Targets
  <2> DEFINE x == [srs[s] EXCEPT !.target = d]
  <2>2. x \in SpaceRequest /\ x.there = srs[s].there /\ x.claim = srs[s].claim
    BY <1>1, <2>1 DEF SpaceRequest
  <2>3. srs' = [srs EXCEPT ![s] = x]
    BY <1>4
  <2> HIDE DEF x
  <2>4. /\ srs' \in [SRs -> SpaceRequest]
        /\ \A q \in SRs : /\ srs'[q].there \/ srs'[q] = NoSR
                          /\ srs'[q].there => srs'[q].claim \in Claims
    BY <1>1, <1>2, <2>2, <2>3
  <2>5. maker \in Maker /\ faults \in 0..MaxFaults /\ (maker.pc = "deleteOrphan" => maker.s \in SRs)
    BY DEF IInv, TypeOK, MakerInv
  <2> QED
    BY <1>4, <2>4, <2>5, SpaceRequestStep DEF ServeSpaceRequest
<1> QED
  BY <1>3, <1>4 DEF ServeSpaceRequest

\* A claim gets its finalizer, its SpaceRequest, or waits.
LEMMA PrepareStep ==
  ASSUME IInv, NEW c \in Claims, PrepareClaim(c) \/ NothingToBind(c)
  PROVE  IInv'
<1>1. /\ TypeOK /\ claims[c] \in Claim /\ claimer.pc = "idle" /\ claims[c].there
      /\ claims[c].complete => claims[c].fin
      /\ claims[c].deleting => claims[c].fin
  BY DEF IInv, TypeOK, ClaimInv, PrepareClaim, NothingToBind, Prepared, Idle
<1>2. ASSUME NEW x \in Claim, claims' = [claims EXCEPT ![c] = x], x.there,
             x.complete = claims[c].complete, x.target = claims[c].target, x.fin \/ x.fin = claims[c].fin,
             x.deleting = claims[c].deleting,
             UNCHANGED <<policy, targets, srs, claimer, maker, creates, made, reused, faults>>
      PROVE  IInv'
  <2>1. TypeOK'
    BY <1>1, <1>2, ClaimWritten DEF TypeOK
  <2>2. claimer.pc \notin BindingPcs /\ claimer.pc \notin ReleasePcs
    BY <1>1 DEF BindingPcs, ReleasePcs
  <2> QED
    BY <1>1, <1>2, <2>1, <2>2, ClaimStep
<1>3. CASE /\ claims' = [claims EXCEPT ![c].fin = TRUE]
           /\ UNCHANGED <<policy, targets, srs, claimer, maker, creates, made, reused, faults>>
  <2> DEFINE x == [claims[c] EXCEPT !.fin = TRUE]
  <2>1. /\ x \in Claim /\ x.there = claims[c].there /\ x.complete = claims[c].complete
        /\ x.target = claims[c].target /\ x.fin /\ x.deleting = claims[c].deleting
    BY <1>1 DEF Claim
  <2>2. claims' = [claims EXCEPT ![c] = x]
    BY <1>3
  <2> HIDE DEF x
  <2> QED
    BY <1>1, <1>2, <1>3, <2>1, <2>2
<1>4. ASSUME NEW m \in BOOLEAN,
             claims' = [claims EXCEPT ![c] = [claims[c] EXCEPT !.marked = m, !.phase = "Pending"]],
             UNCHANGED <<policy, targets, srs, claimer, maker, creates, made, reused, faults>>
      PROVE  IInv'
  <2> DEFINE x == [claims[c] EXCEPT !.marked = m, !.phase = "Pending"]
  <2>1. /\ x \in Claim /\ x.there = claims[c].there /\ x.complete = claims[c].complete
        /\ x.target = claims[c].target /\ x.fin = claims[c].fin /\ x.deleting = claims[c].deleting
    BY <1>1 DEF Claim
  <2>2. claims' = [claims EXCEPT ![c] = x]
    BY <1>4
  <2> HIDE DEF x
  <2> QED
    BY <1>1, <1>2, <1>4, <2>1, <2>2
<1>5. CASE PrepareClaim(c)
  <2>1. CASE claims' = [claims EXCEPT ![c].fin = TRUE] /\ UNCHANGED srs
    BY <1>3, <1>5, <2>1 DEF PrepareClaim, bounds
  <2>2. ASSUME NEW s \in SRs, srs' = [srs EXCEPT ![s] = [NoSR EXCEPT !.there = TRUE, !.claim = c]],
               UNCHANGED claims
        PROVE  IInv'
    <3> DEFINE x == [NoSR EXCEPT !.there = TRUE, !.claim = c]
    <3>1. x \in SpaceRequest /\ x.there /\ x.claim = c
      BY DEF NoSR, SpaceRequest
    <3>2. srs' = [srs EXCEPT ![s] = x]
      BY <2>2
    <3> HIDE DEF x
    <3>3. /\ srs' \in [SRs -> SpaceRequest]
          /\ \A q \in SRs : /\ srs'[q].there \/ srs'[q] = NoSR
                            /\ srs'[q].there => srs'[q].claim \in Claims
      BY <3>1, <3>2 DEF IInv, TypeOK, SpaceRequestInv
    <3>4. maker \in Maker /\ faults \in 0..MaxFaults /\ (maker.pc = "deleteOrphan" => maker.s \in SRs)
      BY DEF IInv, TypeOK, MakerInv
    <3> QED
      BY <1>5, <2>2, <3>3, <3>4, SpaceRequestStep DEF PrepareClaim, bounds
  <2> QED
    BY <1>5, <2>1, <2>2 DEF PrepareClaim
<1>6. CASE NothingToBind(c)
  <2>1. claims[c].marked \in BOOLEAN /\ claims \in [Claims -> Claim]
    BY <1>1 DEF Claim, TypeOK
  <2>2. \E m \in BOOLEAN :
          claims' = [claims EXCEPT ![c] = [claims[c] EXCEPT !.marked = m, !.phase = "Pending"]]
    <3>1. CASE claims' = [claims EXCEPT ![c].marked = TRUE, ![c].phase = "Pending"]
      BY <2>1, <3>1
    <3>2. CASE claims' = [claims EXCEPT ![c].phase = "Pending"]
      <4>1. [claims[c] EXCEPT !.phase = "Pending"] =
              [claims[c] EXCEPT !.marked = claims[c].marked, !.phase = "Pending"]
        BY <1>1 DEF Claim
      <4> QED
        BY <2>1, <3>2, <4>1
    <3> QED
      BY <1>6, <3>1, <3>2 DEF NothingToBind
  <2> QED
    BY <1>4, <1>6, <2>2 DEF NothingToBind, bounds
<1> QED
  BY <1>5, <1>6

\* The reconcile of a claim ends, here with nothing written.
LEMMA EndStep ==
  ASSUME IInv, claimer' = IdleClaimer, faults' \in 0..MaxFaults,
         UNCHANGED <<policy, claims, targets, srs, maker, creates, made, reused>>
  PROVE  IInv'
<1>1. IdleClaimer \in Claimer /\ IdleClaimer.pc = "idle"
  BY DEF IdleClaimer, Claimer, NoTarget, Target
<1>2. TypeOK'
  BY <1>1 DEF IInv, TypeOK
<1>3. \A c \in Claims, d \in Targets : Holds(c, d)' => Holds(c, d)
  BY <1>1 DEF Holds
<1>4. \A d \in Targets : Wears(d)
  BY DEF Wears
<1>5. MadeInv' /\ TakenInv' /\ HolderInv'
  BY <1>3, <1>4, HoldersKept
<1>6. ClaimInv' /\ SpaceRequestInv' /\ MakerInv'
  BY DEF IInv, ClaimInv, SpaceRequestInv, MakerInv
<1>7. BinderInv' /\ ReleaserInv'
  BY <1>1 DEF BinderInv, ReleaserInv, BindingPcs, ReleasePcs
<1> QED
  BY <1>2, <1>5, <1>6, <1>7 DEF IInv

\* A claim is to be bound to a target that is free, or kept for it.
LEMMA StartBindStep ==
  ASSUME IInv, NEW c \in Claims, StartBind(c)
  PROVE  IInv'
<1>1. /\ claimer.pc = "idle" /\ claims[c].fin /\ ~claims[c].complete
      /\ UNCHANGED <<policy, claims, targets, srs, maker, creates, made, reused, faults>>
  BY DEF StartBind, Prepared, Idle, bounds
<1>2. PICK d \in Targets :
        /\ targets[d].there
        /\ targets[d].claimRef \in {None, c}
        /\ targets[d].phase = "Available" \/ targets[d].claimRef = c
        /\ \/ claimer' = [pc |-> "setTarget", c |-> c, d |-> d, saw |-> targets[d]]
           \/ /\ claimer' = [pc |-> "setClaimBound", c |-> c, d |-> d, saw |-> targets[d]]
              /\ claims[c].target = d
  BY DEF StartBind, findMatchingDTForDTC, doesDTMatchDTC
<1>3. /\ claimer'.pc \in {"setTarget", "setClaimBound"} /\ claimer'.c = c /\ claimer'.d = d
      /\ claimer'.saw = targets[d] /\ (claimer'.pc = "setClaimBound" => claims[c].target = d)
  BY <1>2
<1>4. claimer' \in Claimer
  BY <1>2 DEF IInv, TypeOK, Claimer, Targets
<1>5. TypeOK'
  BY <1>1, <1>4 DEF IInv, TypeOK
<1>6. d \in made
  BY <1>2 DEF IInv, MadeInv
<1>7. \A q \in Claims, e \in Targets : Holds(q, e)' => Holds(q, e)
  BY <1>1, <1>3 DEF Holds
<1>8. \A e \in Targets : Wears(e)
  BY <1>1 DEF Wears
<1>9. MadeInv' /\ TakenInv' /\ HolderInv'
  BY <1>1, <1>7, <1>8, HoldersKept
<1>10. ClaimInv' /\ SpaceRequestInv' /\ MakerInv'
  BY <1>1 DEF IInv, ClaimInv, SpaceRequestInv, MakerInv
<1>11. BinderInv'
  BY <1>1, <1>2, <1>3, <1>6 DEF BinderInv
<1>12. ReleaserInv'
  BY <1>3 DEF ReleaserInv, ReleasePcs
<1> QED
  BY <1>5, <1>9, <1>10, <1>11, <1>12 DEF IInv

\* The writes of the claim that is being bound.
LEMMA BinderStep ==
  ASSUME IInv, SetTarget \/ SetClaimBound \/ BindComplete
  PROVE  IInv'
<1>1. claimer.pc \in BindingPcs /\ claimer \in Claimer
  BY DEF SetTarget, SetClaimBound, BindComplete, WriteClaim, BindingPcs, IInv, TypeOK
<1>2. PICK c \in Claims, d \in Targets : c = claimer.c /\ d = claimer.d
  BY <1>1 DEF IInv, BinderInv, TypeOK
<1>3. /\ claims \in [Claims -> Claim] /\ claims[c] \in Claim
      /\ claims[c].there /\ ~claims[c].deleting
      /\ claims[c].fin /\ ~claims[c].complete /\ d \in made
      /\ claimer.pc # "setTarget" => claims[c].target = d
      /\ UNCHANGED <<policy, targets, srs, maker, creates, made, reused, faults>>
  BY <1>1, <1>2
  DEF IInv, BinderInv, TypeOK, SetTarget, SetClaimBound, BindComplete, WriteClaim, bounds
<1>4. PICK x \in Claim :
        /\ claims' = [claims EXCEPT ![c] = x]
        /\ x.there /\ x.fin /\ ~x.deleting /\ x.target = d
        /\ \/ claimer.pc = "setTarget" /\ claimer' = [claimer EXCEPT !.pc = "setClaimBound"]
              /\ ~x.complete
           \/ claimer.pc = "setClaimBound" /\ claimer' = [claimer EXCEPT !.pc = "setTargetBound"]
              /\ ~x.complete
           \/ claimer.pc = "complete" /\ claimer' = IdleClaimer
  <2>1. CASE SetTarget
    <3> DEFINE x == [claims[c] EXCEPT !.target = d]
    <3>1. /\ x \in Claim /\ x.there = claims[c].there /\ x.fin = claims[c].fin /\ x.target = d
          /\ x.deleting = claims[c].deleting /\ x.complete = claims[c].complete
      BY <1>3 DEF Claim, Targets
    <3>2. /\ claims' = [claims EXCEPT ![c] = x] /\ claimer.pc = "setTarget"
          /\ claimer' = [claimer EXCEPT !.pc = "setClaimBound"]
      BY <1>2, <2>1 DEF SetTarget, WriteClaim
    <3> HIDE DEF x
    <3> QED
      BY <1>3, <3>1, <3>2
  <2>2. CASE SetClaimBound
    <3> DEFINE x == [claims[c] EXCEPT !.phase = "Bound"]
    <3>1. /\ x \in Claim /\ x.there = claims[c].there /\ x.fin = claims[c].fin
          /\ x.target = claims[c].target
          /\ x.deleting = claims[c].deleting /\ x.complete = claims[c].complete
      BY <1>3 DEF Claim
    <3>2. /\ claims' = [claims EXCEPT ![c] = x] /\ claimer.pc = "setClaimBound"
          /\ claimer' = [claimer EXCEPT !.pc = "setTargetBound"]
      BY <1>2, <2>2 DEF SetClaimBound, WriteClaim
    <3> HIDE DEF x
    <3> QED
      BY <1>3, <3>1, <3>2
  <2>3. CASE BindComplete
    <3> DEFINE x == [claims[c] EXCEPT !.complete = TRUE]
    <3>1. /\ x \in Claim /\ x.there = claims[c].there /\ x.fin = claims[c].fin
          /\ x.target = claims[c].target /\ x.deleting = claims[c].deleting
      BY <1>3 DEF Claim
    <3>2. /\ claims' = [claims EXCEPT ![c] = x] /\ claimer.pc = "complete"
          /\ claimer' = IdleClaimer
      BY <1>2, <2>3 DEF BindComplete, WriteClaim
    <3> HIDE DEF x
    <3> QED
      BY <1>3, <3>1, <3>2
  <2> QED
    BY <2>1, <2>2, <2>3
<1>5. /\ claims' \in [Claims -> Claim]
      /\ \A q \in Claims : claims'[q].there \/ claims'[q] = NoClaim
      /\ claims'[c] = x /\ \A q \in Claims \ {c} : claims'[q] = claims[q]
  BY <1>4, ClaimWritten DEF IInv
<1>6. IdleClaimer \in Claimer /\ IdleClaimer.pc = "idle"
  BY DEF IdleClaimer, Claimer, NoTarget, Target
<1>7. /\ claimer' \in Claimer /\ claimer'.pc \in {"setClaimBound", "setTargetBound", "idle"}
      /\ claimer'.pc # "idle" =>
           claimer'.c = c /\ claimer'.d = d /\ claimer'.saw = claimer.saw /\ ~x.complete
      /\ x.complete => claimer.pc = "complete"
  BY <1>1, <1>2, <1>4, <1>6 DEF Claimer
<1>8. TypeOK'
  BY <1>3, <1>5, <1>7 DEF IInv, TypeOK
<1>9. \A q \in Claims, e \in Targets : Holds(q, e)' => Holds(q, e)
  BY <1>2, <1>4, <1>5, <1>7 DEF Holds
<1>10. \A e \in Targets : Wears(e)
  BY <1>3 DEF Wears
<1>11. MadeInv' /\ TakenInv' /\ HolderInv'
  BY <1>3, <1>9, <1>10, HoldersKept
<1>12. ClaimInv'
  BY <1>3, <1>4, <1>5 DEF IInv, ClaimInv
<1>13. SpaceRequestInv' /\ MakerInv'
  BY <1>3 DEF IInv, SpaceRequestInv, MakerInv
<1>14. BinderInv'
  <2>1. claimer.saw.claimRef \in {None, c} /\ (claimer.saw.phase = "Available" \/ claimer.saw.claimRef = c)
    BY <1>1, <1>2 DEF IInv, BinderInv
  <2> QED
    BY <1>3, <1>4, <1>5, <1>7, <2>1 DEF BinderInv, BindingPcs
<1>15. ReleaserInv'
  BY <1>7 DEF ReleaserInv, ReleasePcs
<1> QED
  BY <1>8, <1>11, <1>12, <1>13, <1>14, <1>15 DEF IInv

\* The target is written only if it is as it was read: nobody else holds it.
LEMMA SetTargetBoundStep ==
  ASSUME IInv, SetTargetBound
  PROVE  IInv'
<1>1. claimer.pc = "setTargetBound" /\ claimer \in Claimer /\ claimer.pc \in BindingPcs
  BY DEF SetTargetBound, BindingPcs, IInv, TypeOK
<1>2. PICK c \in Claims, d \in Targets : c = claimer.c /\ d = claimer.d
  BY <1>1 DEF IInv, BinderInv, TypeOK
<1>3. /\ targets[d].there /\ targets[d] = claimer.saw /\ targets[d] \in Target
      /\ targets[d].claimRef \in {None, c}
      /\ targets[d].phase = "Available" \/ targets[d].claimRef = c
      /\ UNCHANGED <<policy, claims, srs, maker, creates, made, reused, faults>>
  BY <1>1, <1>2 DEF SetTargetBound, Unchanged, bounds, IInv, TypeOK, BinderInv
<1> DEFINE x == [targets[d] EXCEPT !.phase = "Bound"]
<1>4. /\ x \in Target /\ x.there = targets[d].there /\ x.claimRef = targets[d].claimRef
      /\ x.phase = "Bound"
  BY <1>3 DEF Target
<1>5. targets' = [targets EXCEPT ![d] = x]
  BY <1>2 DEF SetTargetBound
<1> HIDE DEF x
<1>6. /\ targets' \in [Targets -> Target]
      /\ \A q \in Targets : targets'[q].there \/ targets'[q] = NoTarget
      /\ targets'[d] = x /\ \A q \in Targets \ {d} : targets'[q] = targets[q]
  BY <1>3, <1>4, <1>5, TargetWritten DEF IInv
<1>7. /\ claimer' \in Claimer /\ claimer'.pc = "complete" /\ claimer'.c = c /\ claimer'.d = d
      /\ claimer'.saw = claimer.saw
  BY <1>1, <1>2 DEF SetTargetBound, Claimer
<1>8. TypeOK'
  BY <1>3, <1>6, <1>7 DEF IInv, TypeOK
<1>9. \A q \in Claims, e \in Targets : Holds(q, e)' => Holds(q, e) \/ (q = c /\ e = d)
  BY <1>1, <1>3, <1>7 DEF Holds
<1>10. d \notin reused => \A q \in Claims : Holds(q, d) => q = c
  <2> SUFFICES ASSUME d \notin reused, NEW q \in Claims, Holds(q, d)
               PROVE  q = c
    OBVIOUS
  <2>1. targets[d].phase # "Available" /\ targets[d].claimRef \in {None, q}
    BY <1>3 DEF IInv, TakenInv
  <2>2. c # None
    BY NamesAssumption
  <2> QED
    BY <1>3, <2>1, <2>2
<1>11. HolderInv'
  BY <1>3, <1>9, <1>10 DEF IInv, HolderInv
<1>12. TakenInv'
  <2> SUFFICES ASSUME NEW q \in Claims, NEW e \in Targets \ reused, Holds(q, e)', targets'[e].there
               PROVE  targets'[e].phase # "Available" /\ targets'[e].claimRef \in {None, q}
    BY <1>3 DEF TakenInv
  <2>1. CASE e = d
    <3>1. q = c
      BY <1>9, <1>10, <2>1
    <3> QED
      BY <1>3, <1>4, <1>6, <2>1, <3>1
  <2>2. CASE e # d
    BY <1>6, <1>9, <2>2 DEF IInv, TakenInv
  <2> QED
    BY <2>1, <2>2
<1>13. MadeInv'
  BY <1>3, <1>4, <1>6 DEF IInv, MadeInv
<1>14. ClaimInv' /\ SpaceRequestInv' /\ MakerInv'
  BY <1>3 DEF IInv, ClaimInv, SpaceRequestInv, MakerInv
<1>15. BinderInv'
  BY <1>1, <1>2, <1>3, <1>7 DEF IInv, BinderInv
<1>16. ReleaserInv'
  BY <1>7 DEF ReleaserInv, ReleasePcs
<1> QED
  BY <1>8, <1>11, <1>12, <1>13, <1>14, <1>15, <1>16 DEF IInv

\* A bound claim's target is Bound, or else lost.
LEMMA HandleBoundStep ==
  ASSUME IInv, NEW c \in Claims, HandleBound(c)
  PROVE  IInv'
<1>1. /\ TypeOK /\ claimer.pc = "idle" /\ claims[c].fin /\ claims[c] \in Claim /\ claims[c].there
      /\ UNCHANGED <<policy, srs, claimer, maker, creates, made, reused>>
  BY DEF HandleBound, Prepared, Idle, bounds, IInv, TypeOK
<1>2. faults' \in 0..MaxFaults
  BY <1>1, FaultBounded DEF HandleBound, TypeOK
<1>3. \A d \in Targets : d \in BoundTo(c) => targets[d].there
  BY DEF BoundTo
<1>4. ASSUME NEW d \in Targets
      PROVE  /\ targets'[d] \in Target /\ (targets'[d].there \/ targets'[d] = NoTarget)
             /\ Wears(d)
  <2>1. targets[d] \in Target /\ (targets[d].there \/ targets[d] = NoTarget)
    BY <1>1 DEF TypeOK
  <2>2. CASE d \in BoundTo(c)
    <3>1. targets'[d] = [targets[d] EXCEPT !.phase = "Bound"]
      BY <2>2 DEF HandleBound
    <3>2. /\ targets'[d] \in Target /\ targets'[d].there = targets[d].there
          /\ targets'[d].phase = "Bound" /\ targets'[d].claimRef = targets[d].claimRef
      BY <2>1, <3>1 DEF Target
    <3> QED
      BY <1>3, <2>2, <3>2 DEF Wears
  <2>3. CASE d \notin BoundTo(c)
    <3>1. targets'[d] = targets[d]
      BY <2>3 DEF HandleBound
    <3> QED
      BY <2>1, <3>1 DEF Wears
  <2> QED
    BY <2>2, <2>3
<1>5. targets' \in [Targets -> Target]
  <2>1. targets' = [d \in Targets |-> targets'[d]]
    BY DEF HandleBound
  <2> QED
    BY <1>4, <2>1
<1>6. PICK x \in Claim :
        /\ claims' = [claims EXCEPT ![c] = x]
        /\ x.there /\ x.fin /\ x.target = claims[c].target /\ x.complete = claims[c].complete
        /\ x.deleting = claims[c].deleting
  <2>1. CASE UNCHANGED claims
    <3>1. claims' = [claims EXCEPT ![c] = claims[c]]
      BY <1>1, <2>1 DEF TypeOK
    <3> QED
      BY <1>1, <3>1
  <2>2. ASSUME NEW ph \in {"Lost", "Bound"}, claims' = [claims EXCEPT ![c].phase = ph]
        PROVE  \E x \in Claim :
                 /\ claims' = [claims EXCEPT ![c] = x]
                 /\ x.there /\ x.fin /\ x.target = claims[c].target /\ x.complete = claims[c].complete
                 /\ x.deleting = claims[c].deleting
    <3> DEFINE x == [claims[c] EXCEPT !.phase = ph]
    <3>1. /\ x \in Claim /\ x.there = claims[c].there /\ x.fin = claims[c].fin
          /\ x.target = claims[c].target /\ x.complete = claims[c].complete
          /\ x.deleting = claims[c].deleting
      BY <1>1 DEF Claim
    <3>2. claims' = [claims EXCEPT ![c] = x]
      BY <2>2
    <3> HIDE DEF x
    <3> QED
      BY <1>1, <3>1, <3>2
  <2> QED
    BY <2>1, <2>2 DEF HandleBound
<1>7. /\ claims' \in [Claims -> Claim]
      /\ \A q \in Claims : claims'[q].there \/ claims'[q] = NoClaim
      /\ claims'[c] = x /\ \A q \in Claims \ {c} : claims'[q] = claims[q]
  BY <1>1, <1>6, ClaimWritten
<1>8. TypeOK'
  BY <1>1, <1>2, <1>4, <1>5, <1>7 DEF TypeOK
<1>9. \A q \in Claims, d \in Targets : Holds(q, d)' => Holds(q, d)
  BY <1>1, <1>6, <1>7 DEF Holds
<1>10. MadeInv' /\ TakenInv' /\ HolderInv'
  BY <1>1, <1>4, <1>9, HoldersKept
<1>11. ClaimInv'
  BY <1>1, <1>6, <1>7 DEF IInv, ClaimInv
<1>12. SpaceRequestInv' /\ MakerInv'
  BY <1>1 DEF IInv, SpaceRequestInv, MakerInv
<1>13. BinderInv' /\ ReleaserInv'
  BY <1>1 DEF BinderInv, ReleaserInv, BindingPcs, ReleasePcs
<1> QED
  BY <1>8, <1>10, <1>11, <1>12, <1>13 DEF IInv

\* The controller of claims writes one target, which does not become Available, and goes on
\* with the deletion of a claim.
LEMMA ReleaserStep ==
  ASSUME IInv, NEW c \in Claims, claims[c].deleting, claimer.pc # "complete",
         targets' \in [Targets -> Target],
         \A d \in Targets : (targets'[d].there \/ targets'[d] = NoTarget) /\ Wears(d),
         claimer' \in Claimer, claimer'.pc \in ReleasePcs, claimer'.c = c,
         claimer'.pc # "removeFinalizer" => claimer'.d \in Targets /\ claims[c].target = claimer'.d,
         claimer'.pc = "removeFinalizer" /\ isDTCBound(c) =>
           targets'[claims[c].target].phase # "Bound",
         UNCHANGED <<policy, claims, srs, maker, creates, made, reused, faults>>
  PROVE  IInv'
<1>1. TypeOK'
  BY DEF IInv, TypeOK
<1>2. \A q \in Claims, d \in Targets : Holds(q, d)' => Holds(q, d)
  BY DEF Holds, ReleasePcs
<1>3. MadeInv' /\ TakenInv' /\ HolderInv'
  BY <1>2, HoldersKept
<1>4. ClaimInv' /\ SpaceRequestInv' /\ MakerInv'
  BY DEF IInv, ClaimInv, SpaceRequestInv, MakerInv
<1>5. BinderInv' /\ ReleaserInv'
  BY DEF BinderInv, ReleaserInv, BindingPcs, ReleasePcs, isDTCBound
<1> QED
  BY <1>1, <1>3, <1>4, <1>5 DEF IInv

\* A claim is deleted: its target is, too, or is to be kept.
LEMMA BeginDeletionStep ==
  ASSUME IInv, NEW c \in Claims, BeginDeletion(c)
  PROVE  IInv'
<1>1. /\ claimer.pc = "idle" /\ claims[c].deleting /\ targets \in [Targets -> Target]
      /\ \A q \in Targets : targets[q].there \/ targets[q] = NoTarget
      /\ UNCHANGED <<policy, claims, srs, maker, creates, made, reused, faults>>
  BY DEF BeginDeletion, Idle, bounds, IInv, TypeOK
<1>2. isDTCBound(c) => claims[c].target \in Targets /\ claims[c].target # None
  BY NamesAssumption DEF IInv, ClaimInv, isDTCBound, TypeOK, Targets
<1>3. NoTarget \in Target
  BY DEF NoTarget, Target
<1>4. CASE isDTCBound(c) /\ BoundTo(c) # {}
  <2>1. PICK d \in Targets : d = claims[c].target
    BY <1>2, <1>4
  <2>2. BoundTo(c) = {d} /\ targets[d].there
    BY <1>2, <1>4, <2>1 DEF BoundTo
  <2>3. StartDeletion(c) = [pc |-> "release", c |-> c, d |-> d, saw |-> NoTarget]
    BY <1>4, <2>2 DEF StartDeletion, IdleClaimer
  <2>4. /\ StartDeletion(c) \in Claimer /\ StartDeletion(c).pc = "release"
        /\ StartDeletion(c).c = c /\ StartDeletion(c).d = d
    BY <1>3, <2>3 DEF Claimer, Targets
  <2> DEFINE x == [targets[d] EXCEPT !.fin = TRUE, !.deleting = targets[d].deleting \/ policy = "Delete"]
  <2>5. targets[d] \in Target /\ (targets[d].deleting \/ policy = "Delete") \in BOOLEAN
    BY <1>1
  <2>6. /\ x \in Target /\ x.there = targets[d].there /\ x.phase = targets[d].phase
        /\ x.claimRef = targets[d].claimRef
    BY <2>5 DEF Target
  <2>7. targets' = [targets EXCEPT ![d] = x] /\ claimer' = StartDeletion(c)
    BY <1>1, <2>4 DEF BeginDeletion
  <2> HIDE DEF x
  <2>8. /\ targets' \in [Targets -> Target]
        /\ \A q \in Targets : targets'[q].there \/ targets'[q] = NoTarget
        /\ targets'[d] = x /\ \A q \in Targets \ {d} : targets'[q] = targets[q]
    BY <2>2, <2>6, <2>7, TargetWritten DEF IInv
  <2>9. \A q \in Targets : Wears(q)
    BY <2>2, <2>6, <2>8 DEF Wears
  <2> QED
    BY <1>1, <2>1, <2>4, <2>7, <2>8, <2>9, ReleaserStep DEF ReleasePcs
<1>5. CASE ~(isDTCBound(c) /\ BoundTo(c) # {})
  <2>1. StartDeletion(c) = [pc |-> "removeFinalizer", c |-> c, d |-> None, saw |-> NoTarget]
    BY <1>5 DEF StartDeletion, IdleClaimer
  <2>2. /\ StartDeletion(c) \in Claimer /\ StartDeletion(c).pc = "removeFinalizer"
        /\ StartDeletion(c).c = c
    BY <1>3, <2>1 DEF Claimer
  <2>3. targets' = targets /\ claimer' = StartDeletion(c)
    BY <2>2 DEF BeginDeletion
  <2>4. isDTCBound(c) => targets[claims[c].target].phase # "Bound"
    <3> SUFFICES ASSUME isDTCBound(c)
                 PROVE  targets[claims[c].target].phase # "Bound"
      OBVIOUS
    <3>1. ~targets[claims[c].target].there
      BY <1>2, <1>5 DEF BoundTo
    <3>2. targets[claims[c].target] = NoTarget
      BY <1>1, <1>2, <3>1
    <3> QED
      BY <3>2 DEF NoTarget
  <2>5. \A q \in Targets : Wears(q)
    BY <2>3 DEF Wears
  <2> QED
    BY <1>1, <2>2, <2>3, <2>4, <2>5, ReleaserStep DEF ReleasePcs
<1> QED
  BY <1>4, <1>5

\* The target is released, and the claim let go.
LEMMA ReleaseStep ==
  ASSUME IInv, ReleaseTarget \/ SetReleased
  PROVE  IInv'
<1>1. /\ claimer.pc \in {"release", "setReleased"} /\ claimer.pc \in ReleasePcs
      /\ claimer \in Claimer /\ targets \in [Targets -> Target]
      /\ UNCHANGED <<policy, claims, srs, maker, creates, made, reused, faults>>
      /\ faults \in 0..MaxFaults
  BY DEF ReleaseTarget, SetReleased, ReleasePcs, bounds, IInv, TypeOK
<1>2. PICK c \in Claims, d \in Targets : c = claimer.c /\ d = claimer.d
  BY <1>1 DEF IInv, ReleaserInv
<1>3. claims[c].deleting /\ claims[c].target = d /\ targets[d] \in Target
  BY <1>1, <1>2 DEF IInv, ReleaserInv
<1>4. ASSUME NEW x \in Target, targets' = [targets EXCEPT ![d] = x], x.there, targets[d].there,
             x.phase \in {"Released", targets[d].phase}, x.claimRef \in {None, targets[d].claimRef}
      PROVE  /\ targets' \in [Targets -> Target] /\ targets'[d] = x
             /\ \A q \in Targets : (targets'[q].there \/ targets'[q] = NoTarget) /\ Wears(q)
  <2>1. /\ targets' \in [Targets -> Target]
        /\ \A q \in Targets : targets'[q].there \/ targets'[q] = NoTarget
        /\ targets'[d] = x /\ \A q \in Targets \ {d} : targets'[q] = targets[q]
    BY <1>4, TargetWritten DEF IInv
  <2>2. \A q \in Targets : Wears(q)
    BY <1>4, <2>1 DEF Wears
  <2> QED
    BY <2>1, <2>2
<1>5. CASE ReleaseTarget /\ targets[d].there
  <2> DEFINE x == [targets[d] EXCEPT !.claimRef = None]
  <2>1. /\ x \in Target /\ x.there = targets[d].there /\ x.phase = targets[d].phase
        /\ x.claimRef = None
    BY <1>3 DEF Target
  <2>2. /\ targets' = [targets EXCEPT ![d] = x]
        /\ claimer' = [claimer EXCEPT !.pc = "setReleased", !.saw = targets'[d]]
    BY <1>2, <1>5 DEF ReleaseTarget
  <2> HIDE DEF x
  <2>3. /\ targets' \in [Targets -> Target] /\ targets'[d] = x
        /\ \A q \in Targets : (targets'[q].there \/ targets'[q] = NoTarget) /\ Wears(q)
    BY <1>4, <1>5, <2>1, <2>2
  <2>4. claimer' \in Claimer /\ claimer'.pc = "setReleased" /\ claimer'.c = c /\ claimer'.d = d
    BY <1>1, <1>2, <2>1, <2>2, <2>3 DEF Claimer
  <2> QED
    BY <1>1, <1>3, <2>3, <2>4, ReleaserStep DEF ReleasePcs
<1>6. CASE SetReleased /\ Unchanged(d)
  <2> DEFINE x == [targets[d] EXCEPT !.phase = "Released"]
  <2>1. /\ x \in Target /\ x.there = targets[d].there /\ x.phase = "Released"
        /\ x.claimRef = targets[d].claimRef
    BY <1>3 DEF Target
  <2>2. /\ targets' = [targets EXCEPT ![d] = x] /\ targets[d].there
        /\ claimer' = [claimer EXCEPT !.pc = "removeFinalizer"]
    BY <1>2, <1>6 DEF SetReleased, Unchanged
  <2> HIDE DEF x
  <2>3. /\ targets' \in [Targets -> Target] /\ targets'[d] = x
        /\ \A q \in Targets : (targets'[q].there \/ targets'[q] = NoTarget) /\ Wears(q)
    BY <1>4, <2>1, <2>2
  <2>4. claimer' \in Claimer /\ claimer'.pc = "removeFinalizer" /\ claimer'.c = c
    BY <1>1, <1>2, <2>2 DEF Claimer
  <2> QED
    BY <1>1, <1>3, <2>1, <2>3, <2>4, ReleaserStep DEF ReleasePcs
<1>7. CASE claimer' = IdleClaimer /\ UNCHANGED targets
  BY <1>1, <1>7, EndStep
<1> QED
  BY <1>2, <1>5, <1>6, <1>7 DEF ReleaseTarget, SetReleased

\* The claim goes.
LEMMA ClaimGoes ==
  ASSUME IInv, RemoveClaimFinalizer
  PROVE  IInv'
<1>1. /\ claimer.pc = "removeFinalizer"
      /\ UNCHANGED <<policy, targets, srs, maker, creates, made, reused, faults>>
  BY DEF RemoveClaimFinalizer, bounds
<1>2. PICK c \in Claims : c = claimer.c
  BY <1>1 DEF IInv, ReleaserInv, ReleasePcs
<1>3. NoClaim \in Claim /\ ~NoClaim.complete /\ ~NoClaim.deleting
  BY DEF NoClaim, Claim
<1>4. /\ claims' \in [Claims -> Claim]
      /\ \A q \in Claims : claims'[q].there \/ claims'[q] = NoClaim
      /\ claims'[c] = NoClaim /\ \A q \in Claims \ {c} : claims'[q] = claims[q]
  BY <1>2, <1>3, ClaimWritten DEF RemoveClaimFinalizer, IInv
<1>5. claimer' \in Claimer /\ claimer'.pc = "idle"
  BY DEF RemoveClaimFinalizer, IdleClaimer, Claimer, NoTarget, Target
<1>6. TypeOK'
  BY <1>1, <1>4, <1>5 DEF IInv, TypeOK
<1>7. \A q \in Claims, d \in Targets : Holds(q, d)' => Holds(q, d)
  BY <1>3, <1>4, <1>5 DEF Holds
<1>8. \A d \in Targets : Wears(d)
  BY <1>1 DEF Wears
<1>9. MadeInv' /\ TakenInv' /\ HolderInv'
  BY <1>1, <1>7, <1>8, HoldersKept
<1>10. ClaimInv' /\ SpaceRequestInv' /\ MakerInv'
  BY <1>1, <1>3, <1>4 DEF IInv, ClaimInv, SpaceRequestInv, MakerInv
<1>11. BinderInv' /\ ReleaserInv'
  BY <1>5 DEF BinderInv, ReleaserInv, BindingPcs, ReleasePcs
<1> QED
  BY <1>6, <1>9, <1>10, <1>11 DEF IInv
-----------------------------------------------------------------------------
\* What holds of claims, targets and the reconcile that runs holds at the start, and every
\* step keeps it.
LEMMA BindingsAreKept == Spec => []IInv
<1>1. Init => IInv
  <2> SUFFICES ASSUME Init
               PROVE  IInv
    OBVIOUS
  <2>1. /\ NoClaim \in Claim /\ ~NoClaim.complete /\ ~NoClaim.deleting
        /\ NoTarget \in Target /\ ~NoTarget.there /\ NoSR \in SpaceRequest /\ ~NoSR.there
    BY DEF NoClaim, Claim, NoTarget, Target, NoSR, SpaceRequest
  <2>2. /\ IdleClaimer \in Claimer /\ IdleClaimer.pc = "idle"
        /\ IdleMaker \in Maker /\ IdleMaker.pc = "idle"
    BY <2>1 DEF IdleClaimer, Claimer, IdleMaker, Maker
  <2>3. 0 \in 0..MaxCreates /\ 0 \in 0..MaxFaults
    BY BoundsAssumption
  <2>4. /\ \A c \in Claims : claims[c] = NoClaim
        /\ \A d \in Targets : targets[d] = NoTarget
        /\ \A s \in SRs : srs[s] = NoSR
    BY DEF Init
  <2>5. TypeOK
    BY <2>1, <2>2, <2>3, <2>4 DEF Init, TypeOK
  <2>6. \A c \in Claims, d \in Targets : ~Holds(c, d)
    BY <2>1, <2>2, <2>4 DEF Init, Holds
  <2>7. MadeInv /\ ClaimInv /\ SpaceRequestInv /\ TakenInv /\ HolderInv
    BY <2>1, <2>4, <2>6 DEF MadeInv, ClaimInv, SpaceRequestInv, TakenInv, HolderInv
  <2>8. BinderInv /\ ReleaserInv /\ MakerInv
    BY <2>2 DEF Init, BinderInv, ReleaserInv, MakerInv, BindingPcs, ReleasePcs
  <2> QED
    BY <2>5, <2>7, <2>8 DEF IInv
<1>2. IInv /\ [Next]_vars => IInv'
  <2> SUFFICES ASSUME IInv, [Next]_vars
               PROVE  IInv'
    OBVIOUS
  <2>1. CASE UNCHANGED vars
    <3>1. TypeOK'
      BY <2>1 DEF vars, IInv, TypeOK
    <3> QED
      BY <2>1, <3>1, TargetStep DEF vars, Wears
  <2>2. ASSUME NEW d \in UserTargets, NEW r \in Claims \union {None}, CreateTarget(d, r)
        PROVE  IInv'
    <3>1. d \in Targets /\ d \notin made /\ ~targets[d].there
      BY <2>2 DEF CreateTarget, IInv, MadeInv, Targets
    <3>2. reused' = reused \union (made \intersect {d})
      BY <2>2, <3>1 DEF CreateTarget
    <3> QED
      BY <2>2, <3>1, <3>2, NewTarget DEF CreateTarget
  <2>3. CASE ReconcileFails
    <3>1. faults' \in 0..MaxFaults
      BY <2>3, FaultBounded DEF ReconcileFails, IInv, TypeOK
    <3> QED
      BY <2>3, <3>1, EndStep DEF ReconcileFails, bounds
  <2>4. CASE ClaimController
    BY <2>3, <2>4, PrepareStep, StartBindStep, HandleBoundStep, BeginDeletionStep, BinderStep,
       SetTargetBoundStep, ReleaseStep, ClaimGoes DEF ClaimController
  <2>5. ASSUME NEW d \in Targets, TargetController(d)
        PROVE  IInv'
    <3>1. CASE DeleteSpaceRequest(d)
      <4>1. PICK s \in SRs : s \in SRsOf(d)
        BY <3>1 DEF DeleteSpaceRequest, SRsOf
      <4> QED
        BY <3>1, <4>1, SpaceRequestsStep
    <3> QED
      BY <2>5, <3>1, TargetsStep DEF TargetController
  <2>6. CASE SpaceRequestController
    <3>1. CASE DeleteOrphan \/ MakerFails
      <4>1. maker.s \in SRs
        BY <3>1 DEF DeleteOrphan, MakerFails, IInv, MakerInv
      <4> QED
        BY <3>1, <4>1, SpaceRequestsStep
    <3> QED
      BY <2>6, <3>1, SpaceRequestsStep, ServeStep DEF SpaceRequestController
  <2>7. \A d \in UserTargets : d \in Targets
    BY DEF Targets
  <2> QED
    BY <2>1, <2>2, <2>4, <2>5, <2>6, <2>7, UserClaimStep, TargetsStep, SpaceRequestsStep DEF Next
<1> QED
  BY <1>1, <1>2, PTL DEF Spec

\* "There is a 1:1 relationship between them": no two claims complete their binding to the
\* same target, whatever the order in which the reconciles of claims and targets write
\* them, and whichever writes fail (deploymenttargetclaim_controller.go,
\* bindDeploymentTargetClaimToTarget), as long as no target is provisioned under the name
\* of one that is gone.
THEOREM BindingIsExclusive == Spec => []ExclusiveBinding
<1>1. IInv => ExclusiveBinding
  <2> SUFFICES ASSUME IInv, NEW c \in Claims, NEW e \in Claims,
                      claims[c].complete, claims[e].complete, claims[c].target \notin reused,
                      claims[c].target = claims[e].target
               PROVE  c = e
    BY DEF ExclusiveBinding
  <2>1. claims[c].target \in Targets
    BY DEF IInv, ClaimInv, TypeOK
  <2>2. Holds(c, claims[c].target) /\ Holds(e, claims[c].target)
    BY DEF Holds
  <2> QED
    BY <2>1, <2>2 DEF IInv, HolderInv
<1> QED
  BY <1>1, BindingsAreKept, PTL

\* A bound claim goes only after its target was released, or has gone, so that no target
\* stays Bound to a claim that is not there, whichever of the calls failed and was retried
\* (deploymenttargetclaim_controller.go, handleDTCDeletion).
THEOREM ReleasedBeforeGone == Spec => ReleasedWithClaim
<1>1. IInv /\ [Next]_vars =>
        [\A c \in Claims, d \in Targets :
           Goes(c) /\ isDTCBound(c) /\ claims[c].target = d => targets[d].phase # "Bound"]_vars
  <2> SUFFICES ASSUME IInv, Next, NEW c \in Claims, NEW d \in Targets,
                      Goes(c), isDTCBound(c), claims[c].target = d
               PROVE  targets[d].phase # "Bound"
    BY DEF Goes, vars
  <2>1. /\ claims \in [Claims -> Claim] /\ claims[c].there /\ claims[c].fin
        /\ claims' # claims /\ ~claims'[c].there
    BY DEF IInv, TypeOK, ClaimInv, Goes, isDTCBound
  <2>2. CASE RemoveClaimFinalizer
    <3>1. claimer.pc = "removeFinalizer" /\ claimer.c = c
      BY <2>1, <2>2 DEF RemoveClaimFinalizer
    <3> QED
      BY <3>1 DEF IInv, ReleaserInv, ReleasePcs
  <2>3. ASSUME NEW q \in Claims, NEW x, claims' = [claims EXCEPT ![q] = x], x.there
        PROVE  FALSE
    BY <2>1, <2>3
  <2>4. ASSUME NEW q \in Claims, DeleteClaim(q)
        PROVE  FALSE
    <3>1. claims' = [claims EXCEPT ![q] = DeletedClaim(claims[q])]
      BY <2>4 DEF DeleteClaim
    <3>2. q = c
      BY <2>1, <3>1
    <3>3. DeletedClaim(claims[c]).there
      BY <2>1 DEF DeletedClaim, Claim
    <3> QED
      BY <2>3, <3>1, <3>2, <3>3
  <2>5. ASSUME NEW q \in Claims, NEW e, CreateClaim(q, e)
        PROVE  FALSE
    <3>1. [NoClaim EXCEPT !.there = TRUE, !.target = e].there
      BY DEF NoClaim
    <3> QED
      BY <2>3, <2>5, <3>1 DEF CreateClaim
  <2>6. ASSUME NEW q \in Claims, PrepareClaim(q) \/ NothingToBind(q) \/ HandleBound(q)
        PROVE  FALSE
    <3>1. claims[q].there /\ claims[q] \in Claim
      BY <2>1, <2>6 DEF PrepareClaim, NothingToBind, HandleBound, Prepared, Idle
    <3>2. \A m \in BOOLEAN, ph \in {"Pending", "Bound", "Lost"} :
            /\ [claims[q] EXCEPT !.fin = TRUE].there
            /\ [claims[q] EXCEPT !.marked = m, !.phase = ph].there
            /\ [claims[q] EXCEPT !.phase = ph].there
      BY <3>1 DEF Claim
    <3>3. \/ claims' = [claims EXCEPT ![q] = [claims[q] EXCEPT !.fin = TRUE]]
          \/ claims' = [claims EXCEPT ![q] = [claims[q] EXCEPT !.marked = TRUE, !.phase = "Pending"]]
          \/ \E ph \in {"Pending", "Bound", "Lost"} :
               claims' = [claims EXCEPT ![q] = [claims[q] EXCEPT !.phase = ph]]
      <4>1. CASE PrepareClaim(q)
        BY <2>1, <4>1 DEF PrepareClaim
      <4>2. CASE NothingToBind(q)
        BY <2>1, <4>2 DEF NothingToBind
      <4>3. CASE HandleBound(q)
        BY <2>1, <4>3 DEF HandleBound
      <4> QED
        BY <2>6, <4>1, <4>2, <4>3
    <3> QED
      BY <2>3, <3>2, <3>3
  <2>7. ASSUME SetTarget \/ SetClaimBound \/ BindComplete
        PROVE  FALSE
    <3>1. PICK q \in Claims : q = claimer.c
      BY <2>7 DEF SetTarget, SetClaimBound, BindComplete, WriteClaim, IInv, BinderInv, BindingPcs
    <3>2. claims[q].there /\ claims[q] \in Claim
      BY <2>1, <2>7, <3>1 DEF SetTarget, SetClaimBound, BindComplete, WriteClaim
    <3>3. /\ [claims[q] EXCEPT !.target = claimer.d].there
          /\ [claims[q] EXCEPT !.phase = "Bound"].there
          /\ [claims[q] EXCEPT !.complete = TRUE].there
      BY <3>2 DEF Claim
    <3> QED
      BY <2>3, <2>7, <3>1, <3>3 DEF SetTarget, SetClaimBound, BindComplete, WriteClaim
  <2> QED
    BY <2>1, <2>2, <2>4, <2>5, <2>6, <2>7
    DEF Next, ClaimController, TargetController, SpaceRequestController, DeleteTarget, CreateTarget,
        SpaceRequestReady, SpaceRequestGone, StartBind, BeginDeletion, SetTargetBound, ReleaseTarget,
        SetReleased, ReconcileFails, ReconcileTarget, RemoveTargetFinalizer, DeleteSpaceRequest,
        TargetFails, FindOrphan, ServeSpaceRequest, DeleteOrphan, MakerFails
<1> QED
  BY <1>1, BindingsAreKept, PTL DEF Spec, ReleasedWithClaim
=============================================================================
