------------------------- MODULE PromotionRun_proofs -------------------------
(***************************************************************************)
(* Proofs that promotions of one application exclude each other, and that  *)
(* a run that succeeds has promoted its own snapshot, for any number of    *)
(* runs and components, of changes made by others and of calls that fail.  *)
(*                                                                         *)
(* The second part is about SnapshotBinding, the controller of the binding *)
(* a run promotes to: whenever it is at rest, the deployments and the      *)
(* status are those of the binding, and it undoes nothing others wrote.    *)
(***************************************************************************)
EXTENDS PromotionRun, TLAPS

\* The reconciler of the binding a run promotes to has a specification of its own, over
\* variables of which it shares those of the binding; its proofs are at the end.
VARIABLES world, events, queued, seb

S == INSTANCE SnapshotBinding

\* The order of creation is that of the timestamps, as far as these tell.
StampInv ==
  \A q, r \in Runs :
    q < r /\ runs[r].state # "none" => runs[q].state # "none" /\ runs[q].stamp <= runs[r].stamp

\* Only runs that were created are reconciled.
QueueInv == \A r \in queue : runs[r].state # "none"

\* All runs created before r have ended.
IsFirst(r) ==
  \A q \in Runs :
    runs[q].state # "none" /\ runs[q].stamp < runs[r].stamp => runs[q].state = "Complete"

\* What checkForExistingActivePromotions found holds for the whole reconcile.
PromoterInv ==
  promoter.pc # "idle" =>
    /\ promoter.run \in Runs
    /\ runs[promoter.run].state \notin {"none", "Complete"}
    /\ promoter.seen.there
    /\ IsFirst(promoter.run)

\* An active run is the first that has not ended: OneActive, made inductive.
FirstInv == \A r \in Runs : runs[r].state \in {"Active", "Waiting"} => IsFirst(r)

IInv == TypeOK /\ StampInv /\ QueueInv /\ PromoterInv /\ FirstInv

\* The bound on the inputs holds.
LEMMA InputBounded ==
  ASSUME inputs \in 0..MaxInputs, Input
  PROVE  inputs' \in 0..MaxInputs
<1>1. inputs < MaxInputs /\ inputs' = inputs + 1
  BY DEF Input
<1> QED
  BY <1>1, BoundsAssumption

\* A write of the run that is reconciled leaves the order of the runs as it is.
LEMMA WriteKeepsOrder ==
  ASSUME IInv, promoter.pc # "idle", NEW new \in Run,
         new.stamp = runs[promoter.run].stamp, new.state # "none",
         runs' = [runs EXCEPT ![promoter.run] = new]
  PROVE  /\ StampInv' /\ FirstInv'
         /\ runs' \in [Runs -> Run]
         /\ \A r \in Runs : runs[r].state # "none" => runs'[r].state # "none"
         /\ \A r \in Runs : IsFirst(r) => IsFirst(r)'
<1> DEFINE p == promoter.run
<1>1. /\ p \in Runs /\ runs \in [Runs -> Run]
      /\ runs[p].state \notin {"none", "Complete"} /\ IsFirst(p)
  BY DEF IInv, TypeOK, PromoterInv
<1>2. /\ runs'[p] = new
      /\ \A r \in Runs : r # p => runs'[r] = runs[r]
      /\ \A r \in Runs : runs'[r].stamp = runs[r].stamp
  BY <1>1
<1>3. runs' \in [Runs -> Run]
  BY <1>1
<1>4. \A r \in Runs : runs[r].state # "none" <=> runs'[r].state # "none"
  BY <1>1, <1>2
<1>5. StampInv'
  BY <1>2, <1>4 DEF IInv, StampInv
<1>6. \A r \in Runs : runs[r].stamp \in Nat
  BY <1>1 DEF Run
<1>7. ASSUME NEW r \in Runs, IsFirst(r)
      PROVE  IsFirst(r)'
  <2> SUFFICES ASSUME NEW q \in Runs, runs'[q].state # "none", runs'[q].stamp < runs'[r].stamp
               PROVE  runs'[q].state = "Complete"
    BY DEF IsFirst
  <2>1. runs[q].state = "Complete"
    BY <1>2, <1>4, <1>7 DEF IsFirst
  <2>2. q # p
    BY <1>1, <2>1
  <2> QED
    BY <1>2, <2>1, <2>2
<1>8. FirstInv'
  <2> SUFFICES ASSUME NEW r \in Runs, runs'[r].state \in {"Active", "Waiting"}
               PROVE  IsFirst(r)'
    BY DEF FirstInv
  <2>1. IsFirst(r)
    BY <1>1, <1>2 DEF IInv, FirstInv
  <2> QED
    BY <1>7, <2>1
<1> QED
  BY <1>3, <1>4, <1>5, <1>7, <1>8

\* A new run is the last one: it comes before nobody.
LEMMA CreateKeepsOrder ==
  ASSUME IInv, NEW n \in Runs, NEW later \in 0..1, CreateRun(n, later)
  PROVE  IInv'
<1>1. /\ runs \in [Runs -> Run] /\ runs[n].state = "none"
      /\ \A q \in Runs : q < n => runs[q].state # "none"
      /\ queue' = queue \union {n}
      /\ UNCHANGED <<binding, deps, snapshots, promoter>>
  BY DEF IInv, TypeOK, CreateRun
<1>2. \A r \in Runs : r \in Nat /\ runs[r].stamp \in Nat
  <2>1. \A r \in Runs : r \in Nat
    BY BoundsAssumption DEF Runs
  <2>2. \A r \in Runs : runs[r].stamp \in Nat
    BY <1>1 DEF Run
  <2> QED
    BY <2>1, <2>2
<1> DEFINE s == IF n = 1 THEN 1 ELSE runs[n - 1].stamp + later
           new == [NoRun EXCEPT !.state = "", !.stamp = s]
<1>3. n # 1 => n - 1 \in Runs
  BY BoundsAssumption DEF Runs
<1>4. s \in Nat
  BY <1>2, <1>3
<1>5. runs' = [runs EXCEPT ![n] = new]
  BY DEF CreateRun
<1> HIDE DEF s
<1>6. new \in Run /\ new.stamp = s /\ new.state = "" /\ new.result = ""
  BY <1>4 DEF Run, NoRun
<1>7. \A q \in Runs : q < n => runs[q].stamp <= s
  <2> SUFFICES ASSUME NEW q \in Runs, q < n
               PROVE  runs[q].stamp <= s
    OBVIOUS
  <2>1. n # 1 /\ q <= n - 1
    BY <1>2 DEF Runs
  <2>2. runs[q].stamp <= runs[n - 1].stamp
    <3>1. CASE q = n - 1
      BY <1>2, <3>1
    <3>2. CASE q # n - 1
      <4>1. q < n - 1 /\ n - 1 \in Runs /\ n - 1 < n
        BY <1>2, <1>3, <2>1, <3>2
      <4> QED
        BY <1>1, <4>1 DEF IInv, StampInv
    <3> QED
      BY <3>1, <3>2
  <2> QED
    BY <1>2, <1>3, <2>1, <2>2 DEF s
<1>8. \A r \in Runs : n < r => runs[r].state = "none"
  BY <1>1 DEF IInv, StampInv
<1> HIDE DEF new
<1>9. runs'[n] = new /\ \A r \in Runs : r # n => runs'[r] = runs[r]
  BY <1>1, <1>5
<1>10. TypeOK'
  <2>1. runs' \in [Runs -> Run]
    BY <1>1, <1>5, <1>6
  <2>2. \A r \in Runs : runs'[r].result # "" <=> runs'[r].state = "Complete"
    BY <1>6, <1>9 DEF IInv, TypeOK
  <2>3. inputs' \in 0..MaxInputs
    BY BoundsAssumption, InputBounded DEF IInv, TypeOK, CreateRun
  <2>4. queue' \subseteq Runs
    BY <1>1 DEF IInv, TypeOK
  <2> QED
    BY <1>1, <2>1, <2>2, <2>3, <2>4 DEF IInv, TypeOK
<1>11. StampInv'
  <2> SUFFICES ASSUME NEW q \in Runs, NEW r \in Runs, q < r, runs'[r].state # "none"
               PROVE  runs'[q].state # "none" /\ runs'[q].stamp <= runs'[r].stamp
    BY DEF StampInv
  <2>1. CASE r = n
    BY <1>1, <1>2, <1>6, <1>7, <1>9, <2>1
  <2>2. CASE r # n
    <3>1. q # n
      BY <1>8, <1>9, <2>2
    <3> QED
      BY <1>9, <2>2, <3>1 DEF IInv, StampInv
  <2> QED
    BY <2>1, <2>2
<1>12. QueueInv'
  BY <1>1, <1>6, <1>9 DEF IInv, QueueInv, TypeOK
<1>13. ASSUME NEW r \in Runs, runs[r].state # "none", IsFirst(r)
       PROVE  IsFirst(r)'
  <2>1. r # n /\ ~(n < r)
    BY <1>1, <1>8, <1>13
  <2>2. r < n
    BY <1>2, <2>1
  <2>3. ~(s < runs[r].stamp)
    BY <1>2, <1>4, <1>7, <2>2
  <2> QED
    BY <1>6, <1>9, <1>13, <2>1, <2>3 DEF IsFirst
<1>14. PromoterInv'
  <2> SUFFICES ASSUME promoter.pc # "idle"
               PROVE  PromoterInv'
    BY <1>1 DEF PromoterInv
  <2>1. /\ promoter.run \in Runs /\ promoter.seen.there /\ IsFirst(promoter.run)
        /\ runs[promoter.run].state \notin {"none", "Complete"}
    BY DEF IInv, PromoterInv
  <2>2. promoter.run # n
    BY <1>1, <2>1
  <2>3. IsFirst(promoter.run)'
    <3>1. PICK p \in Runs : p = promoter.run
      BY <2>1
    <3>2. IsFirst(p)'
      BY <1>13, <2>1, <3>1
    <3>3. promoter'.run = p
      BY <1>1, <3>1
    <3> QED
      BY <3>2, <3>3 DEF IsFirst
  <2> QED
    BY <1>1, <1>9, <2>1, <2>2, <2>3 DEF PromoterInv
<1>15. FirstInv'
  <2> SUFFICES ASSUME NEW r \in Runs, runs'[r].state \in {"Active", "Waiting"}
               PROVE  IsFirst(r)'
    BY DEF FirstInv
  <2>1. r # n
    BY <1>6, <1>9
  <2>2. IsFirst(r)
    BY <1>9, <2>1 DEF IInv, FirstInv
  <2> QED
    BY <1>9, <1>13, <2>1, <2>2
<1> QED
  BY <1>10, <1>11, <1>12, <1>14, <1>15 DEF IInv

\* Nothing is known of the runs that a step could break which writes no run, starts no
\* reconcile and asks for no run that does not exist.
LEMMA QuietStep ==
  ASSUME IInv, TypeOK', UNCHANGED runs, promoter' \in {promoter, IdlePromoter},
         \A r \in queue' : r \in queue \/ runs[r].state # "none"
  PROVE  IInv'
<1>1. StampInv' /\ FirstInv' /\ QueueInv'
  BY DEF IInv, StampInv, FirstInv, QueueInv, IsFirst
<1>2. PromoterInv'
  BY DEF IInv, PromoterInv, IsFirst, IdlePromoter
<1> QED
  BY <1>1, <1>2 DEF IInv

\* What users, the binding's controller, managed-gitops and time do keeps the order.
LEMMA EnvironmentStep ==
  ASSUME IInv,
         \/ \E deployed \in BOOLEAN : ChangeDeployments(deployed)
         \/ DeleteBinding
         \/ \E k \in Comps, status \in Statuses : ReportStatus(k, status)
         \/ \E r \in Runs : Resync(r)
  PROVE  IInv'
<1>1. ASSUME NEW deployed \in BOOLEAN, ChangeDeployments(deployed)
      PROVE  IInv'
  <2>1. binding' \in Binding /\ binding'.there
    BY <1>1 DEF ChangeDeployments, IInv, TypeOK, Binding
  <2>2. deps' \in [Comps -> Statuses \union {None}]
    BY <1>1 DEF ChangeDeployments, Statuses
  <2>3. inputs' \in 0..MaxInputs
    BY <1>1, InputBounded DEF ChangeDeployments, IInv, TypeOK
  <2>4. TypeOK'
    BY <1>1, <2>1, <2>2, <2>3 DEF ChangeDeployments, IInv, TypeOK
  <2> QED
    BY <1>1, <2>4, QuietStep DEF ChangeDeployments
<1>2. ASSUME DeleteBinding
      PROVE  IInv'
  <2>1. binding' \in Binding
    BY <1>2 DEF DeleteBinding, Binding, NoBinding
  <2>2. inputs' \in 0..MaxInputs
    BY <1>2, InputBounded DEF DeleteBinding, IInv, TypeOK
  <2>3. TypeOK'
    BY <1>2, <2>1, <2>2 DEF DeleteBinding, IInv, TypeOK
  <2> QED
    BY <1>2, <2>3, QuietStep DEF DeleteBinding
<1>3. ASSUME NEW k \in Comps, NEW status \in Statuses, ReportStatus(k, status)
      PROVE  IInv'
  <2>1. deps' \in [Comps -> Statuses \union {None}]
    BY <1>3 DEF ReportStatus, IInv, TypeOK
  <2>2. inputs' \in 0..MaxInputs
    BY <1>3, InputBounded DEF ReportStatus, IInv, TypeOK
  <2>3. TypeOK'
    BY <1>3, <2>1, <2>2 DEF ReportStatus, IInv, TypeOK
  <2> QED
    BY <1>3, <2>3, QuietStep DEF ReportStatus
<1>4. ASSUME NEW r \in Runs, Resync(r)
      PROVE  IInv'
  <2>1. TypeOK'
    BY <1>4 DEF Resync, IInv, TypeOK
  <2> QED
    BY <1>4, <2>1, QuietStep DEF Resync
<1> QED
  BY <1>1, <1>2, <1>3, <1>4

\* A run that gets late keeps its place.
LEMMA LateStep ==
  ASSUME IInv, NEW l \in Runs, RunGetsLate(l)
  PROVE  IInv'
<1>1. runs \in [Runs -> Run] /\ UNCHANGED <<binding, deps, snapshots, queue, promoter, inputs>>
  BY DEF IInv, TypeOK, RunGetsLate
<1>2. runs' = [runs EXCEPT ![l].late = TRUE]
  BY DEF RunGetsLate
<1>3. runs' \in [Runs -> Run]
  BY <1>1, <1>2 DEF Run
<1>4. \A r \in Runs : /\ runs'[r].stamp = runs[r].stamp /\ runs'[r].state = runs[r].state
                      /\ runs'[r].result = runs[r].result
  BY <1>1, <1>2 DEF Run
<1>5. TypeOK'
  BY <1>1, <1>3, <1>4 DEF IInv, TypeOK
<1>6. StampInv' /\ FirstInv'
  BY <1>4 DEF IInv, StampInv, FirstInv, IsFirst
<1>7. QueueInv'
  BY <1>1, <1>4 DEF IInv, QueueInv, TypeOK
<1>8. PromoterInv'
  BY <1>1, <1>4 DEF IInv, PromoterInv, IsFirst
<1> QED
  BY <1>5, <1>6, <1>7, <1>8 DEF IInv

\* A reconcile starts only for a run that is the first of those that have not ended.
LEMMA StartStep ==
  ASSUME IInv, NEW r \in Runs, StartReconcile(r)
  PROVE  IInv'
<1>1. ASSUME SkipRun(r)
      PROVE  IInv'
  <2>1. queue' \subseteq queue
    BY <1>1 DEF SkipRun
  <2>2. TypeOK'
    BY <1>1, <2>1 DEF SkipRun, IInv, TypeOK
  <2> QED
    BY <1>1, <2>1, <2>2, QuietStep DEF SkipRun
<1>2. ASSUME locateOrCreateTargetManualBinding(r)
      PROVE  IInv'
  <2>1. /\ r \in queue /\ queue' = queue \ {r}
        /\ runs[r].state # "Complete" /\ ActiveBefore(r) = {}
        /\ UNCHANGED <<deps, snapshots, runs>>
    BY <1>2 DEF locateOrCreateTargetManualBinding
  <2>2. runs[r].state # "none" /\ runs \in [Runs -> Run]
    BY <2>1 DEF IInv, QueueInv, TypeOK
  <2>3. IsFirst(r)
    <3> SUFFICES ASSUME NEW q \in Runs, runs[q].state # "none", runs[q].stamp < runs[r].stamp
                 PROVE  runs[q].state = "Complete"
      BY DEF IsFirst
    <3>1. runs[q].state \notin {"", "Active", "Waiting"}
      BY <2>1 DEF ActiveBefore
    <3>2. runs[q].state \in {"none", "", "Active", "Waiting", "Complete"}
      BY <2>2 DEF Run
    <3> QED
      BY <3>1, <3>2
  <2>4. CASE ~binding.there /\ Input /\ UNCHANGED <<binding, promoter>>
    <3>1. inputs' \in 0..MaxInputs
      BY <2>4, InputBounded DEF IInv, TypeOK
    <3>2. TypeOK'
      BY <2>1, <2>4, <3>1 DEF IInv, TypeOK
    <3> QED
      BY <2>1, <2>4, <3>2, QuietStep
  <2>5. CASE /\ binding' = IF binding.there THEN binding
                           ELSE [NoBinding EXCEPT !.there = TRUE, !.snapshot = r]
             /\ promoter' = [pc |-> "activate", run |-> r, seen |-> binding']
             /\ UNCHANGED inputs
    <3>1. binding' \in Binding /\ binding'.there
      BY <2>5 DEF IInv, TypeOK, Binding, NoBinding
    <3>2. promoter' \in Promoter
      BY <2>5, <3>1 DEF Promoter
    <3>3. TypeOK'
      BY <2>1, <2>5, <3>1, <3>2 DEF IInv, TypeOK
    <3>4. StampInv' /\ FirstInv' /\ QueueInv'
      BY <2>1 DEF IInv, StampInv, FirstInv, QueueInv, IsFirst
    <3>5. promoter'.run = r /\ promoter'.seen.there
      BY <2>5, <3>1
    <3>6. PromoterInv'
      BY <2>1, <2>2, <2>3, <3>5 DEF PromoterInv, IsFirst
    <3> QED
      BY <3>3, <3>4, <3>6 DEF IInv
  <2> QED
    BY <1>2, <2>4, <2>5 DEF locateOrCreateTargetManualBinding
<1> QED
  BY <1>1, <1>2 DEF StartReconcile

\* A reconcile that goes on writes its own run only, and goes on for that run or ends.
LEMMA WriteStep ==
  ASSUME IInv, promoter.pc # "idle", NEW new \in Run,
         new.stamp = runs[promoter.run].stamp, new.state # "none",
         new.result # "" <=> new.state = "Complete",
         runs' = [runs EXCEPT ![promoter.run] = new],
         queue' \in {queue, queue \union {promoter.run}},
         promoter' \in Promoter,
         promoter'.pc # "idle" =>
           promoter'.run = promoter.run /\ promoter'.seen.there /\ new.state # "Complete",
         UNCHANGED <<binding, deps, snapshots, inputs>>
  PROVE  IInv'
<1>1. /\ promoter.run \in Runs /\ IsFirst(promoter.run)
      /\ runs \in [Runs -> Run] /\ queue \subseteq Runs
  BY DEF IInv, PromoterInv, TypeOK
<1>2. /\ StampInv' /\ FirstInv' /\ runs' \in [Runs -> Run]
      /\ \A r \in Runs : runs[r].state # "none" => runs'[r].state # "none"
      /\ \A r \in Runs : IsFirst(r) => IsFirst(r)'
  BY WriteKeepsOrder
<1>3. runs'[promoter.run] = new /\ \A r \in Runs : r # promoter.run => runs'[r] = runs[r]
  BY <1>1
<1>4. TypeOK'
  <2>1. \A r \in Runs : runs'[r].result # "" <=> runs'[r].state = "Complete"
    BY <1>3 DEF IInv, TypeOK
  <2>2. queue' \subseteq Runs
    BY <1>1
  <2> QED
    BY <1>2, <2>1, <2>2 DEF IInv, TypeOK
<1>5. QueueInv'
  BY <1>1, <1>2, <1>3 DEF IInv, QueueInv
<1>6. PromoterInv'
  <2> SUFFICES ASSUME promoter'.pc # "idle"
               PROVE  PromoterInv'
    BY DEF PromoterInv
  <2>1. PICK p \in Runs : p = promoter.run
    BY <1>1
  <2>2. IsFirst(p)'
    BY <1>1, <1>2, <2>1
  <2>3. promoter'.run = p
    BY <2>1
  <2>4. IsFirst(promoter.run)'
    BY <2>2, <2>3 DEF IsFirst
  <2> QED
    BY <1>1, <1>3, <2>4 DEF PromoterInv
<1> QED
  BY <1>2, <1>4, <1>5, <1>6 DEF IInv

\* The reconcile of a run keeps the order, whatever step it takes and wherever it fails.
LEMMA ReconcileStep ==
  ASSUME IInv, GoOn
  PROVE  IInv'
<1> DEFINE p == promoter.run
<1>1. /\ runs \in [Runs -> Run] /\ binding \in Binding /\ promoter \in Promoter
      /\ queue \subseteq Runs
      /\ \A r \in Runs : runs[r].result # "" <=> runs[r].state = "Complete"
  BY DEF IInv, TypeOK
<1>2. promoter.pc # "idle"
  BY DEF GoOn, Activate, SetSnapshot, SetActiveBinding, CheckDeployments, ReconcileFails
<1>3. /\ p \in Runs /\ runs[p] \in Run /\ promoter.seen.there
      /\ runs[p].state \notin {"none", "Complete"}
  BY <1>1, <1>2 DEF IInv, PromoterInv
<1>4. IdlePromoter \in Promoter /\ IdlePromoter.pc = "idle"
  BY DEF IdlePromoter, Promoter, Binding, NoBinding
<1>5. runs[p].result = ""
  BY <1>1, <1>3
<1>6. CASE Activate
  <2> DEFINE new == [runs[p] EXCEPT !.state = "Active"]
  <2>1. /\ new \in Run /\ new.stamp = runs[p].stamp /\ new.state = "Active"
        /\ new.result = ""
    BY <1>3, <1>5 DEF Run
  <2>2. /\ runs' = [runs EXCEPT ![p] = new]
        /\ queue' \in {queue, queue \union {p}}
        /\ UNCHANGED <<binding, deps, snapshots, inputs>>
    BY <1>6 DEF Activate, WriteRun
  <2>3. /\ promoter' \in Promoter
        /\ promoter'.pc # "idle" => promoter'.run = p /\ promoter'.seen.there
    BY <1>1, <1>3, <1>4, <1>6 DEF Activate, Promoter
  <2> HIDE DEF new
  <2> QED
    BY <1>2, <2>1, <2>2, <2>3, WriteStep
<1>7. CASE SetSnapshot
  <2>1. /\ binding' \in Binding /\ binding'.there
        /\ UNCHANGED <<deps, snapshots, runs, queue, inputs>>
    BY <1>1, <1>3, <1>7 DEF SetSnapshot, Binding
  <2>2. promoter' \in Promoter /\ promoter'.run = p /\ promoter'.seen = binding'
    BY <1>1, <1>7, <2>1 DEF SetSnapshot, Promoter
  <2>3. TypeOK'
    BY <2>1, <2>2 DEF IInv, TypeOK
  <2>4. StampInv' /\ FirstInv' /\ QueueInv'
    BY <2>1 DEF IInv, StampInv, FirstInv, QueueInv, IsFirst
  <2>5. PromoterInv'
    BY <1>2, <2>1, <2>2 DEF IInv, PromoterInv, IsFirst
  <2> QED
    BY <2>3, <2>4, <2>5 DEF IInv
<1>8. CASE SetActiveBinding
  <2> DEFINE new == [runs[p] EXCEPT !.started = TRUE]
  <2>1. /\ new \in Run /\ new.stamp = runs[p].stamp /\ new.state = runs[p].state
        /\ new.result = ""
    BY <1>3, <1>5 DEF Run
  <2>2. /\ runs' = [runs EXCEPT ![p] = new]
        /\ queue' \in {queue, queue \union {p}}
        /\ UNCHANGED <<binding, deps, snapshots, inputs>>
    BY <1>8 DEF SetActiveBinding, WriteRun
  <2>3. promoter' \in Promoter /\ promoter'.run = p /\ promoter'.seen.there
    BY <1>1, <1>3, <1>8 DEF SetActiveBinding, Promoter
  <2> HIDE DEF new
  <2> QED
    BY <1>2, <1>3, <2>1, <2>2, <2>3, WriteStep
<1>9. CASE CheckDeployments
  <2>1. promoter' = IdlePromoter /\ UNCHANGED <<binding, deps, snapshots, inputs>>
    BY <1>9 DEF CheckDeployments
  <2>2. CASE UNCHANGED runs /\ queue' \in {queue, queue \union {p}}
    <3>1. TypeOK'
      BY <1>3, <1>4, <2>1, <2>2 DEF IInv, TypeOK
    <3> QED
      BY <1>3, <2>1, <2>2, <3>1, QuietStep
  <2>3. ASSUME NEW new \in {Completed(p, "Failure"), Completed(p, "Success"),
                            [runs[p] EXCEPT !.state = "Waiting"]},
               runs' = [runs EXCEPT ![p] = new], queue' \in {queue, queue \union {p}}
        PROVE  IInv'
    <3>1. /\ new \in Run /\ new.stamp = runs[p].stamp /\ new.state # "none"
          /\ new.result # "" <=> new.state = "Complete"
      BY <1>3, <1>5 DEF Run, Completed
    <3> QED
      BY <1>2, <1>4, <2>1, <2>3, <3>1, WriteStep
  <2>4. \/ UNCHANGED runs /\ queue' \in {queue, queue \union {p}}
        \/ \E new \in {Completed(p, "Failure"), Completed(p, "Success"),
                       [runs[p] EXCEPT !.state = "Waiting"]} :
             runs' = [runs EXCEPT ![p] = new] /\ queue' \in {queue, queue \union {p}}
    BY <1>9 DEF CheckDeployments, WriteRun
  <2> QED
    BY <2>2, <2>3, <2>4
<1>10. CASE ReconcileFails
  <2>1. /\ queue' = queue \union {p} /\ promoter' = IdlePromoter
        /\ UNCHANGED <<binding, deps, snapshots, runs>>
    BY <1>10 DEF ReconcileFails
  <2>2. inputs' \in 0..MaxInputs
    BY <1>10, InputBounded DEF ReconcileFails, IInv, TypeOK
  <2>3. TypeOK'
    BY <1>3, <1>4, <2>1, <2>2 DEF IInv, TypeOK
  <2> QED
    BY <1>3, <2>1, <2>3, QuietStep
<1> QED
  BY <1>6, <1>7, <1>8, <1>9, <1>10 DEF GoOn

\* Two active runs are each the first of those that have not ended.
LEMMA FirstIsAlone ==
  ASSUME IInv
  PROVE  PromotionInv
<1> SUFFICES ASSUME NEW q \in Runs, NEW r \in Runs, runs[q].stamp # runs[r].stamp,
                    runs[q].state \in {"Active", "Waiting"},
                    runs[r].state \in {"Active", "Waiting"}
             PROVE  FALSE
  BY DEF PromotionInv, OneActive, IInv
<1>1. IsFirst(q) /\ IsFirst(r)
  BY DEF IInv, FirstInv
<1>2. runs[q].stamp \in Nat /\ runs[r].stamp \in Nat
  BY DEF IInv, TypeOK, Run
<1>3. runs[q].stamp < runs[r].stamp \/ runs[r].stamp < runs[q].stamp
  BY <1>2
<1> QED
  BY <1>1, <1>3 DEF IsFirst

\* The order holds at the start, and every step keeps it.
LEMMA OrderIsKept == Spec => []IInv
<1>1. Init => IInv
  <2> SUFFICES ASSUME Init
               PROVE  IInv
    OBVIOUS
  <2>1. \A r \in Runs : runs[r] = NoRun
    BY DEF Init
  <2>2. NoRun \in Run /\ NoRun.state = "none" /\ NoRun.result = ""
    BY DEF NoRun, Run
  <2>3. NoBinding \in Binding /\ IdlePromoter \in Promoter /\ IdlePromoter.pc = "idle"
    BY DEF NoBinding, Binding, IdlePromoter, Promoter
  <2>4. 0 \in 0..MaxInputs
    BY BoundsAssumption
  <2>5. TypeOK
    <3>1. runs \in [Runs -> Run]
      BY <2>2 DEF Init
    <3>2. \A r \in Runs : runs[r].result # "" <=> runs[r].state = "Complete"
      BY <2>1, <2>2
    <3>3. deps \in [Comps -> Statuses \union {None}]
      BY DEF Init
    <3> QED
      BY <2>3, <2>4, <3>1, <3>2, <3>3 DEF Init, TypeOK
  <2>6. StampInv /\ FirstInv
    BY <2>1, <2>2 DEF StampInv, FirstInv
  <2>7. QueueInv /\ PromoterInv
    BY <2>3 DEF Init, QueueInv, PromoterInv
  <2> QED
    BY <2>5, <2>6, <2>7 DEF IInv
<1>2. IInv /\ [Next]_vars => IInv'
  <2> SUFFICES ASSUME IInv, [Next]_vars
               PROVE  IInv'
    OBVIOUS
  <2>1. CASE UNCHANGED vars
    <3>1. TypeOK'
      BY <2>1 DEF IInv, TypeOK, vars
    <3> QED
      BY <2>1, <3>1, QuietStep DEF vars
  <2>2. CASE Next
    BY <2>2, LateStep, CreateKeepsOrder, EnvironmentStep, StartStep, ReconcileStep DEF Next
  <2> QED
    BY <2>1, <2>2
<1> QED
  BY <1>1, <1>2, PTL DEF Spec

\* Promotions of one application take turns: two runs that the controller can tell apart
\* by their creation timestamps are never both active or waiting, however the reconciles
\* of the runs, their failures, and the changes made by others interleave
\* (promotionrun_controller.go, checkForExistingActivePromotions).
THEOREM PromotionsExclusive == Spec => []PromotionInv
<1>1. IInv => PromotionInv
  BY FirstIsAlone
<1> QED
  BY <1>1, OrderIsKept, PTL

\* While a run is reconciled nobody else writes the binding's snapshot, and once it was
\* set, or found set, it is that of the run.
SnapshotInv ==
  /\ promoter.pc # "idle" /\ binding.there => binding.snapshot = promoter.seen.snapshot
  /\ promoter.pc \in {"setActiveBinding", "check"} => promoter.seen.snapshot = promoter.run

\* Every step keeps that, although the binding may go, and come back for another run,
\* between two reconciles.
LEMMA SnapshotStep ==
  ASSUME IInv, SnapshotInv, [Next]_vars
  PROVE  SnapshotInv'
<1>1. binding \in Binding /\ promoter \in Promoter
  BY DEF IInv, TypeOK
<1>2. CASE UNCHANGED <<binding, promoter>>
  BY <1>2 DEF SnapshotInv
<1>3. CASE promoter' = IdlePromoter
  BY <1>3 DEF SnapshotInv, IdlePromoter
<1>4. ASSUME NEW deployed \in BOOLEAN, ChangeDeployments(deployed)
      PROVE  SnapshotInv'
  <2>1. binding'.snapshot = binding.snapshot /\ binding'.there = binding.there
    BY <1>1, <1>4 DEF ChangeDeployments, Binding
  <2> QED
    BY <1>4, <2>1 DEF ChangeDeployments, SnapshotInv
<1>5. CASE DeleteBinding
  <2>1. ~binding'.there /\ UNCHANGED promoter
    BY <1>5 DEF DeleteBinding, NoBinding
  <2> QED
    BY <2>1 DEF SnapshotInv
<1>6. ASSUME NEW r \in Runs, locateOrCreateTargetManualBinding(r)
      PROVE  SnapshotInv'
  <2>1. CASE promoter' = [pc |-> "activate", run |-> r, seen |-> binding']
    BY <2>1 DEF SnapshotInv
  <2> QED
    BY <1>2, <1>6, <2>1 DEF locateOrCreateTargetManualBinding
<1>7. CASE Activate
  <2>1. CASE promoter.run \in snapshots
    <3>1. /\ promoter'.run = promoter.run /\ promoter'.seen = promoter.seen
          /\ promoter'.pc = IF NeedsSnapshot(promoter.run) THEN "setSnapshot" ELSE "check"
          /\ binding' = binding /\ promoter.pc = "activate"
      BY <1>1, <1>7, <2>1 DEF Activate, Promoter
    <3>2. ~NeedsSnapshot(promoter.run) => promoter.seen.snapshot = promoter.run
      BY DEF NeedsSnapshot
    <3> QED
      BY <3>1, <3>2 DEF SnapshotInv
  <2> QED
    BY <1>3, <1>7, <2>1 DEF Activate
<1>8. CASE SetSnapshot
  <2>1. binding'.snapshot = promoter.run
    BY <1>1, <1>8 DEF SetSnapshot, Binding
  <2>2. promoter'.seen = binding' /\ promoter'.run = promoter.run
    BY <1>1, <1>8 DEF SetSnapshot, Promoter
  <2> QED
    BY <2>1, <2>2 DEF SnapshotInv
<1>9. CASE SetActiveBinding
  <2>1. /\ promoter'.seen = promoter.seen /\ promoter'.run = promoter.run
        /\ binding' = binding /\ promoter.pc = "setActiveBinding"
    BY <1>1, <1>9 DEF SetActiveBinding, Promoter
  <2> QED
    BY <2>1 DEF SnapshotInv
<1>10. CASE CheckDeployments \/ ReconcileFails
  BY <1>3, <1>10 DEF CheckDeployments, ReconcileFails
<1>11. ASSUME NEW r \in Runs,
              RunGetsLate(r) \/ Resync(r) \/ SkipRun(r) \/ \E later \in 0..1 : CreateRun(r, later)
       PROVE  SnapshotInv'
  BY <1>2, <1>11 DEF RunGetsLate, Resync, SkipRun, CreateRun
<1>12. ASSUME NEW k \in Comps, NEW status \in Statuses, ReportStatus(k, status)
       PROVE  SnapshotInv'
  BY <1>2, <1>12 DEF ReportStatus
<1>13. CASE UNCHANGED vars
  BY <1>2, <1>13 DEF vars
<1> QED
  BY <1>4, <1>5, <1>6, <1>7, <1>8, <1>9, <1>10, <1>11, <1>12, <1>13
  DEF Next, StartReconcile, GoOn

\* A run's result is written at the end of its reconcile only.
LEMMA OnlyCheckEndsRuns ==
  ASSUME IInv, [Next]_vars, NEW r \in Runs,
         runs[r].result = "", runs'[r].result = "Success"
  PROVE  promoter.pc = "check" /\ promoter.run = r
<1>1. runs \in [Runs -> Run] /\ runs[r] \in Run
  BY DEF IInv, TypeOK
<1>2. runs'[r] # runs[r]
  OBVIOUS
<1>3. ASSUME NEW p \in Runs, NEW new, runs' = [runs EXCEPT ![p] = new], new.result = runs[p].result
      PROVE  FALSE
  BY <1>1, <1>3
<1>4. promoter.pc # "idle" => promoter.run \in Runs
  BY DEF IInv, PromoterInv
<1>5. ~Activate
  <2> SUFFICES ASSUME Activate
               PROVE  FALSE
    OBVIOUS
  <2>1. /\ promoter.run \in Runs
        /\ runs' = [runs EXCEPT ![promoter.run] = [runs[promoter.run] EXCEPT !.state = "Active"]]
    BY <1>4 DEF Activate, WriteRun
  <2>2. [runs[promoter.run] EXCEPT !.state = "Active"].result = runs[promoter.run].result
    BY <1>1, <2>1 DEF Run
  <2> QED
    BY <1>3, <2>1, <2>2
<1>6. ~SetActiveBinding
  <2> SUFFICES ASSUME SetActiveBinding
               PROVE  FALSE
    OBVIOUS
  <2>1. /\ promoter.run \in Runs
        /\ runs' = [runs EXCEPT ![promoter.run] = [runs[promoter.run] EXCEPT !.started = TRUE]]
    BY <1>4 DEF SetActiveBinding, WriteRun
  <2>2. [runs[promoter.run] EXCEPT !.started = TRUE].result = runs[promoter.run].result
    BY <1>1, <2>1 DEF Run
  <2> QED
    BY <1>3, <2>1, <2>2
<1>7. ASSUME NEW l \in Runs, RunGetsLate(l)
      PROVE  FALSE
  <2>1. runs' = [runs EXCEPT ![l] = [runs[l] EXCEPT !.late = TRUE]]
    BY <1>7 DEF RunGetsLate
  <2>2. [runs[l] EXCEPT !.late = TRUE].result = runs[l].result
    BY <1>1 DEF Run
  <2> QED
    BY <1>3, <2>1, <2>2
<1>8. ASSUME NEW n \in Runs, NEW later \in 0..1, CreateRun(n, later)
      PROVE  FALSE
  <2>1. PICK stamp : runs' = [runs EXCEPT ![n] = [NoRun EXCEPT !.state = "", !.stamp = stamp]]
    BY <1>8 DEF CreateRun
  <2>2. [NoRun EXCEPT !.state = "", !.stamp = stamp].result = ""
    BY DEF NoRun
  <2> QED
    BY <1>1, <2>1, <2>2
<1>9. CASE CheckDeployments
  <2>1. promoter.pc = "check" /\ promoter.run \in Runs
    BY <1>4, <1>9 DEF CheckDeployments
  <2>2. \A q \in Runs : q # promoter.run => runs'[q] = runs[q]
    BY <1>1, <1>9, <2>1 DEF CheckDeployments, WriteRun
  <2> QED
    BY <1>2, <2>1, <2>2
<1> QED
  BY <1>2, <1>5, <1>6, <1>7, <1>8, <1>9
  DEF Next, vars, Resync, ChangeDeployments, DeleteBinding, ReportStatus, StartReconcile, SkipRun,
      locateOrCreateTargetManualBinding, GoOn, SetSnapshot, ReconcileFails

\* A run that succeeds has promoted its own snapshot: at that moment the binding, unless
\* it was deleted, points to it, whatever other runs wrote before and whichever calls
\* failed (promotionrun_controller.go, the update of the binding's snapshot).
THEOREM SucceedsWithItsSnapshot == Spec => PromotesSnapshot
<1>1. Init => SnapshotInv
  BY DEF Init, SnapshotInv, IdlePromoter
<1>2. IInv /\ SnapshotInv /\ [Next]_vars => SnapshotInv'
  BY SnapshotStep
<1>3. IInv /\ SnapshotInv /\ [Next]_vars =>
        [\A r \in Runs :
           runs[r].result = "" /\ runs'[r].result = "Success" /\ binding.there
             => binding.snapshot = r]_vars
  <2> SUFFICES ASSUME IInv, SnapshotInv, [Next]_vars, NEW r \in Runs,
                      runs[r].result = "", runs'[r].result = "Success", binding.there
               PROVE  binding.snapshot = r
    OBVIOUS
  <2>1. promoter.pc = "check" /\ promoter.run = r
    BY OnlyCheckEndsRuns
  <2> QED
    BY <2>1 DEF SnapshotInv
<1> QED
  BY <1>1, <1>2, <1>3, OrderIsKept, PTL DEF Spec, PromotesSnapshot

-----------------------------------------------------------------------------
(* SnapshotBinding                                                         *)

\* There is an event whose mapping function finds the binding.
Announced ==
  \/ "app" \in events \/ "env" \in events
  \/ "claim" \in events /\ world.env = "claimed"
  \/ "target" \in events /\ world.env = "claimed" /\ world.claim

\* A reconcile works on the binding as it is, and has so far found every deployment as it
\* should be: a deployment it writes is an event.
OnTrack ==
  /\ seb.pc \in {"deleteUnmatched", "process", "status"}
  /\ seb.seen = binding /\ seb.dest = S!ExpectedDest /\ seb.todo \subseteq binding.comps
  /\ seb.pc = "deleteUnmatched" => seb.todo = binding.comps
  /\ seb.pc # "deleteUnmatched" =>
       /\ \A k \in Comps : deps[k] # None => k \in binding.comps
       /\ seb.failed \/ \A k \in binding.comps \ seb.todo : deps[k] = seb.dest
  /\ seb.pc = "status" => seb.todo = {} /\ ~seb.failed

\* What is to hold at rest.
Current ==
  /\ \A k \in Comps : deps[k] = IF k \in binding.comps THEN S!ExpectedDest ELSE None
  /\ binding.deployed = binding.comps

\* A binding that can be deployed is not forgotten.
Noticed == S!Deployable => queued \/ Announced \/ OnTrack \/ Current

BindingIInv == S!TypeOK /\ Noticed
-----------------------------------------------------------------------------
LEMMA BindingInputBounded ==
  ASSUME S!TypeOK, S!Input
  PROVE  inputs' \in 0..MaxInputs
  BY BoundsAssumption DEF S!TypeOK, S!Input

LEMMA ConstantsTyped ==
  S!NoBinding \in S!Binding /\ ~S!NoBinding.there /\ S!NoBinding.comps = {} /\ S!IdleSEB \in S!SEB
  /\ S!IdleSEB.pc = "idle"
<1>1. S!NoBinding \in S!Binding /\ ~S!NoBinding.there /\ S!NoBinding.comps = {}
  BY DEF S!NoBinding, S!Binding
<1> QED
  BY <1>1 DEF S!IdleSEB, S!SEB, S!Dests

LEMMA ExpectedTyped ==
  ASSUME S!TypeOK
  PROVE  S!ExpectedDest \in S!Dests \union {None}
  BY DEF S!TypeOK, S!World, S!ExpectedDest, S!Dests

\* Somebody changes the application, the environment, the claim or the target.
LEMMA WorldStep ==
  ASSUME BindingIInv, S!ChangeApplication \/ S!ChangeEnvironment \/ S!ChangeClaim \/ S!ChangeTarget
  PROVE  BindingIInv'
<1>1. /\ world \in S!World /\ inputs' \in 0..MaxInputs
      /\ UNCHANGED <<binding, deps, queued, seb>>
  BY BindingInputBounded DEF BindingIInv, S!TypeOK, S!ChangeApplication, S!ChangeEnvironment,
     S!ChangeClaim,
     S!ChangeTarget, S!ChangeWorld
<1>2. CASE S!ChangeApplication \/ S!ChangeEnvironment
  <2>1. world' \in S!World
    BY <1>1, <1>2 DEF S!ChangeApplication, S!ChangeEnvironment, S!ChangeWorld, S!World
  <2>2. events' \subseteq {"app", "env", "claim", "target"} /\ ("app" \in events' \/ "env" \in events')
    BY <1>2 DEF S!ChangeApplication, S!ChangeEnvironment, S!ChangeWorld, BindingIInv, S!TypeOK
  <2>3. S!TypeOK'
    BY <1>1, <2>1, <2>2 DEF BindingIInv, S!TypeOK
  <2> QED
    BY <2>2, <2>3 DEF BindingIInv, Noticed, Announced
<1>3. CASE S!ChangeClaim
  <2>1. PICK x \in BOOLEAN : world' = [world EXCEPT !.claim = x] /\ events' = events \union {"claim"}
    BY <1>3 DEF S!ChangeClaim, S!ChangeWorld
  <2>2. /\ world' \in S!World /\ world'.app = world.app /\ world'.env = world.env
        /\ world'.target = world.target
    BY <1>1, <2>1 DEF S!World
  <2>3. S!TypeOK'
    BY <1>1, <2>1, <2>2 DEF BindingIInv, S!TypeOK
  <2>4. CASE world.env = "claimed"
    BY <2>1, <2>2, <2>3, <2>4 DEF BindingIInv, Noticed, Announced
  <2>5. CASE world.env # "claimed"
    <3>1. S!ExpectedDest' = S!ExpectedDest
      BY <2>2, <2>5 DEF S!ExpectedDest
    <3> QED
      BY <1>1, <2>1, <2>2, <2>3, <2>5, <3>1
      DEF BindingIInv, Noticed, Announced, OnTrack, Current, S!Deployable
  <2> QED
    BY <2>4, <2>5
<1>4. CASE S!ChangeTarget
  <2>1. PICK x \in {None, "ns1", "ns2"} :
          world' = [world EXCEPT !.target = x] /\ events' = events \union {"target"}
    BY <1>4 DEF S!ChangeTarget, S!ChangeWorld
  <2>2. /\ world' \in S!World /\ world'.app = world.app /\ world'.env = world.env
        /\ world'.claim = world.claim
    BY <1>1, <2>1 DEF S!World
  <2>3. S!TypeOK'
    BY <1>1, <2>1, <2>2 DEF BindingIInv, S!TypeOK
  <2>4. CASE world.env = "claimed" /\ world.claim
    BY <2>1, <2>2, <2>3, <2>4 DEF BindingIInv, Noticed, Announced
  <2>5. CASE ~(world.env = "claimed" /\ world.claim)
    <3>1. S!ExpectedDest' = S!ExpectedDest
      BY <2>2, <2>5 DEF S!ExpectedDest
    <3> QED
      BY <1>1, <2>1, <2>2, <2>3, <2>5, <3>1
      DEF BindingIInv, Noticed, Announced, OnTrack, Current, S!Deployable
  <2> QED
    BY <2>4, <2>5
<1> QED
  BY <1>2, <1>3, <1>4

\* The binding or its deployments change, or go.
LEMMA BindingStep ==
  ASSUME BindingIInv,
         \/ S!ChangeSnapshot \/ S!UserDeletesBinding \/ S!DeleteBinding \/ S!ReconcileBindingFails
         \/ \E repo \in {"ok", "bad"}, comps \in SUBSET Comps : S!PrepareRepository(repo, comps)
         \/ \E k \in Comps : S!UserDeletesDeployment(k)
  PROVE  BindingIInv'
<1>1. S!TypeOK /\ binding \in S!Binding /\ deps \in [Comps -> S!Dests \union {None}]
  BY DEF BindingIInv, S!TypeOK
<1>2. queued'
  BY DEF S!ChangeSnapshot, S!ChangeBinding, S!UserDeletesBinding, S!DeleteBinding, S!RemoveBinding,
     S!ReconcileBindingFails, S!PrepareRepository, S!UserDeletesDeployment
<1>3. inputs' \in 0..MaxInputs
  BY <1>1, BindingInputBounded DEF S!ChangeSnapshot, S!UserDeletesBinding, S!DeleteBinding,
     S!ReconcileBindingFails, S!PrepareRepository, S!UserDeletesDeployment, S!TypeOK
<1>4. S!TypeOK'
  <2>1. CASE S!ChangeSnapshot
    <3>1. 1 - binding.snapshot \in 0..1
      <4>1. binding.snapshot \in 0..1
        BY <1>1 DEF S!Binding
      <4> QED
        BY <4>1
    <3>2. binding' \in S!Binding /\ binding'.there
      BY <1>1, <2>1, <3>1 DEF S!ChangeSnapshot, S!ChangeBinding, S!Binding
    <3> QED
      BY <1>1, <1>2, <1>3, <2>1, <3>2 DEF S!ChangeSnapshot, S!ChangeBinding, S!TypeOK
  <2>2. CASE S!UserDeletesBinding \/ S!DeleteBinding
    BY <1>1, <1>2, <1>3, <2>2, ConstantsTyped
    DEF S!UserDeletesBinding, S!DeleteBinding, S!RemoveBinding, S!TypeOK
  <2>3. CASE S!ReconcileBindingFails
    BY <1>1, <1>2, <1>3, <2>3, ConstantsTyped DEF S!ReconcileBindingFails, S!TypeOK
  <2>4. ASSUME NEW repo \in {"ok", "bad"}, NEW comps \in SUBSET Comps,
               S!PrepareRepository(repo, comps)
        PROVE  S!TypeOK'
    <3>1. binding' \in S!Binding /\ binding'.there
      BY <1>1, <2>4 DEF S!PrepareRepository, S!ChangeBinding, S!Binding
    <3> QED
      BY <1>1, <1>2, <1>3, <2>4, <3>1 DEF S!PrepareRepository, S!ChangeBinding, S!TypeOK
  <2>5. ASSUME NEW k \in Comps, S!UserDeletesDeployment(k)
        PROVE  S!TypeOK'
    BY <1>1, <1>2, <1>3, <2>5 DEF S!UserDeletesDeployment, S!TypeOK
  <2> QED
    BY <2>1, <2>2, <2>3, <2>4, <2>5
<1> QED
  BY <1>2, <1>4 DEF BindingIInv, Noticed

\* A mapping function runs: an event that matters becomes a request.
LEMMA DeliverStep ==
  ASSUME BindingIInv, NEW kind \in {"app", "env", "claim", "target"}, S!DeliverEvent(kind)
  PROVE  BindingIInv'
<1>1. S!TypeOK' /\ UNCHANGED <<world, binding, deps, seb>>
  BY DEF S!DeliverEvent, BindingIInv, S!TypeOK
<1>2. S!Deployable /\ Announced /\ ~queued' => Announced'
  BY <1>1 DEF S!DeliverEvent, S!Deployable, Announced, S!findObjectsForApplication,
     S!findObjectsForEnvironment, S!findObjectsForDeploymentTargetClaim,
     S!findObjectsForDeploymentTarget
<1>3. S!Deployable' = S!Deployable /\ OnTrack' = OnTrack /\ Current' = Current
  BY <1>1 DEF S!Deployable, OnTrack, Current, S!ExpectedDest
<1>4. queued => queued'
  BY DEF S!DeliverEvent
<1> QED
  BY <1>1, <1>2, <1>3, <1>4 DEF BindingIInv, Noticed

\* A reconcile begins.
LEMMA BindingReconcileStep ==
  ASSUME BindingIInv, S!ReconcileBinding
  PROVE  BindingIInv'
<1>1. S!TypeOK /\ UNCHANGED <<world, binding, deps, events, inputs>>
  BY DEF S!ReconcileBinding, BindingIInv
<1> DEFINE start(pc) == [S!IdleSEB EXCEPT !.pc = pc, !.seen = binding, !.dest = S!ExpectedDest,
                                        !.todo = binding.comps]
<1>2. ASSUME NEW pc \in {"deleteBinding", "deleteUnmatched"}
      PROVE  /\ start(pc) \in S!SEB /\ start(pc).pc = pc /\ start(pc).seen = binding
             /\ start(pc).dest = S!ExpectedDest /\ start(pc).todo = binding.comps
  <2>1. binding \in S!Binding /\ binding.comps \subseteq Comps /\ S!ExpectedDest \in S!Dests \union {None}
    BY <1>1, ExpectedTyped DEF S!TypeOK, S!Binding
  <2> QED
    BY <2>1, ConstantsTyped DEF S!SEB
<1>3. \/ queued' = TRUE /\ seb' = S!IdleSEB
      \/ queued' = FALSE /\ seb' = start("deleteUnmatched")
      \/ queued' = FALSE /\ seb' \in {S!IdleSEB, start("deleteBinding")} /\ ~S!Deployable
  BY DEF S!ReconcileBinding, S!Deployable, S!RepoReady
<1> HIDE DEF start
<1>4. seb' \in S!SEB /\ queued' \in BOOLEAN
  BY <1>2, <1>3, ConstantsTyped
<1>5. S!TypeOK'
  BY <1>1, <1>4 DEF S!TypeOK
<1>6. S!Deployable' = S!Deployable /\ S!ExpectedDest' = S!ExpectedDest
  BY <1>1 DEF S!Deployable, S!ExpectedDest
<1>7. seb' = start("deleteUnmatched") => OnTrack'
  BY <1>1, <1>2, <1>6 DEF OnTrack
<1> QED
  BY <1>3, <1>5, <1>6, <1>7 DEF BindingIInv, Noticed

\* A step of the reconcile that leaves the world and the binding alone.
LEMMA ProgressStep ==
  ASSUME BindingIInv, S!TypeOK', UNCHANGED <<world, binding, events>>, queued => queued',
         queued' \/ (UNCHANGED deps /\ (OnTrack /\ S!Deployable => OnTrack'))
  PROVE  BindingIInv'
<1>1. Announced' = Announced /\ S!Deployable' = S!Deployable /\ S!ExpectedDest' = S!ExpectedDest
  BY DEF Announced, S!Deployable, S!ExpectedDest
<1>2. UNCHANGED deps => Current' = Current
  BY <1>1 DEF Current
<1> QED
  BY <1>1, <1>2 DEF BindingIInv, Noticed

\* A deployment without a component is deleted, or there is none any more.
LEMMA UnmatchedStep ==
  ASSUME BindingIInv, S!deleteUnmatchedDeployments
  PROVE  BindingIInv'
<1>1. S!TypeOK /\ UNCHANGED <<world, binding, events, inputs>> /\ seb \in S!SEB
  BY DEF S!deleteUnmatchedDeployments, BindingIInv, S!TypeOK
<1>2. CASE S!Unmatched # {}
  <2>1. queued' = TRUE /\ UNCHANGED seb
    BY <1>2 DEF S!deleteUnmatchedDeployments
  <2>2. S!TypeOK'
    BY <1>1, <1>2, <2>1 DEF S!deleteUnmatchedDeployments, S!Unmatched, S!TypeOK
  <2> QED
    BY <1>1, <2>1, <2>2, ProgressStep
<1>3. CASE S!Unmatched = {}
  <2>1. /\ UNCHANGED <<deps, queued>> /\ seb.pc = "deleteUnmatched"
        /\ seb' = IF seb.seen.repo = "" THEN S!IdleSEB ELSE [seb EXCEPT !.pc = "process"]
    BY <1>3 DEF S!deleteUnmatchedDeployments
  <2>2. LET x == [seb EXCEPT !.pc = "process"]
        IN  /\ x \in S!SEB /\ x.pc = "process" /\ x.seen = seb.seen /\ x.dest = seb.dest
            /\ x.todo = seb.todo /\ x.failed = seb.failed
    BY <1>1 DEF S!SEB
  <2>3. S!TypeOK'
    BY <1>1, <2>1, <2>2, ConstantsTyped DEF S!TypeOK
  <2>4. OnTrack /\ S!Deployable => OnTrack'
    <3> SUFFICES ASSUME OnTrack, S!Deployable
                 PROVE  OnTrack'
      OBVIOUS
    <3>1. seb.seen = binding /\ binding.repo = "ok" /\ seb.todo = binding.comps
      BY <2>1 DEF OnTrack, S!Deployable
    <3>2. S!ExpectedDest' = S!ExpectedDest
      BY <1>1 DEF S!ExpectedDest
    <3>3. \A k \in Comps : deps[k] # None => k \in binding.comps
      BY <1>3, <3>1 DEF S!Unmatched
    <3> QED
      BY <1>1, <2>1, <2>2, <3>1, <3>2, <3>3 DEF OnTrack
  <2> QED
    BY <1>1, <2>1, <2>3, <2>4, ProgressStep
<1> QED
  BY <1>2, <1>3

\* The deployment of a component is written, if it is not as it should be.
LEMMA ProcessStep ==
  ASSUME BindingIInv, NEW k \in Comps, S!processExpectedGitOpsDeployment(k)
  PROVE  BindingIInv'
<1>1. /\ S!TypeOK /\ UNCHANGED <<world, binding, events>> /\ seb \in S!SEB /\ seb.pc = "process"
      /\ k \in seb.todo /\ deps \in [Comps -> S!Dests \union {None}]
  BY DEF S!processExpectedGitOpsDeployment, BindingIInv, S!TypeOK
<1>2. S!Made(k) \in S!Dests \union {None} /\ (~binding.there => S!Made(k) = None)
      /\ (binding.there => S!Made(k) = seb.dest)
  BY <1>1 DEF S!Made, S!SEB
<1>3. inputs' \in 0..MaxInputs
  BY <1>1, BindingInputBounded DEF S!processExpectedGitOpsDeployment, S!TypeOK
<1>4. /\ seb' \in S!SEB /\ seb'.pc = "process" /\ seb'.seen = seb.seen /\ seb'.dest = seb.dest
      /\ seb'.todo = seb.todo \ {k} /\ (seb.failed => seb'.failed)
  BY <1>1 DEF S!processExpectedGitOpsDeployment, S!SEB
<1>5. S!ExpectedDest' = S!ExpectedDest
  BY <1>1 DEF S!ExpectedDest
<1>6. CASE deps' = [deps EXCEPT ![k] = S!Made(k)] /\ queued' = (queued \/ deps' # deps)
  <2>1. deps' \in [Comps -> S!Dests \union {None}] /\ deps'[k] = S!Made(k)
    BY <1>1, <1>2, <1>6
  <2>2. ~binding.there => \A q \in Comps : deps'[q] = None
    BY <1>1, <1>2, <1>6 DEF S!TypeOK
  <2>3. S!TypeOK'
    BY <1>1, <1>3, <1>4, <1>6, <2>1, <2>2 DEF S!TypeOK
  <2>4. deps' = deps /\ OnTrack /\ S!Deployable => OnTrack'
    BY <1>1, <1>2, <1>4, <1>5, <2>1 DEF OnTrack, S!Deployable
  <2> QED
    BY <1>1, <1>6, <2>3, <2>4, ProgressStep
<1>7. CASE seb'.failed /\ UNCHANGED <<deps, queued>>
  <2>1. S!TypeOK'
    BY <1>1, <1>3, <1>4, <1>7 DEF S!TypeOK
  <2>2. OnTrack => OnTrack'
    BY <1>1, <1>4, <1>5, <1>7 DEF OnTrack
  <2> QED
    BY <1>1, <1>7, <2>1, <2>2, ProgressStep
<1>8. [seb EXCEPT !.todo = @ \ {k}, !.failed = TRUE].failed
  BY <1>1 DEF S!SEB
<1> QED
  BY <1>6, <1>7, <1>8 DEF S!processExpectedGitOpsDeployment

\* All deployments were looked at.
LEMMA ProcessedStep ==
  ASSUME BindingIInv, S!ProcessedAll
  PROVE  BindingIInv'
<1>1. /\ S!TypeOK /\ UNCHANGED <<world, binding, deps, events, inputs>> /\ seb \in S!SEB
      /\ seb.pc = "process" /\ seb.todo = {}
  BY DEF S!ProcessedAll, BindingIInv, S!TypeOK
<1>2. CASE S!AnyFailed
  <2>1. seb' = S!IdleSEB /\ queued' = TRUE
    BY <1>2 DEF S!ProcessedAll
  <2>2. S!TypeOK'
    BY <1>1, <2>1, ConstantsTyped DEF S!TypeOK
  <2> QED
    BY <1>1, <2>1, <2>2, ProgressStep
<1>3. CASE ~S!AnyFailed
  <2>1. seb' = [seb EXCEPT !.pc = "status"] /\ UNCHANGED queued
    BY <1>3 DEF S!ProcessedAll
  <2>2. /\ seb' \in S!SEB /\ seb'.pc = "status" /\ seb'.seen = seb.seen /\ seb'.dest = seb.dest
        /\ seb'.todo = seb.todo /\ seb'.failed = seb.failed
    BY <1>1, <2>1 DEF S!SEB
  <2>3. S!TypeOK'
    BY <1>1, <2>1, <2>2 DEF S!TypeOK
  <2>4. S!ExpectedDest' = S!ExpectedDest /\ ~seb.failed
    BY <1>1, <1>3 DEF S!ExpectedDest, S!AnyFailed
  <2>5. OnTrack => OnTrack'
    BY <1>1, <2>2, <2>4 DEF OnTrack
  <2> QED
    BY <1>1, <2>1, <2>3, <2>5, ProgressStep
<1> QED
  BY <1>2, <1>3

\* The status is written, if the binding is still the one that was reconciled.
LEMMA StatusStep ==
  ASSUME BindingIInv, S!UpdateBindingStatus
  PROVE  BindingIInv'
<1>1. /\ S!TypeOK /\ UNCHANGED <<world, deps, events, inputs>> /\ seb \in S!SEB /\ seb.pc = "status"
      /\ seb' = S!IdleSEB /\ binding \in S!Binding
  BY DEF S!UpdateBindingStatus, BindingIInv, S!TypeOK
<1>2. queued => queued'
  BY DEF S!UpdateBindingStatus
<1>3. CASE S!Conflict
  <2>1. UNCHANGED binding /\ queued' \in BOOLEAN
    BY <1>1, <1>3 DEF S!UpdateBindingStatus, S!TypeOK
  <2>2. S!TypeOK'
    BY <1>1, <2>1, ConstantsTyped DEF S!TypeOK
  <2>3. ~OnTrack
    BY <1>3 DEF S!Conflict, OnTrack
  <2> QED
    BY <1>1, <1>2, <2>1, <2>2, <2>3, ProgressStep
<1>4. CASE ~S!Conflict
  <2>1. /\ binding = seb.seen /\ binding' = [binding EXCEPT !.deployed = binding.comps]
        /\ queued' = (queued \/ binding' # binding)
    BY <1>4 DEF S!UpdateBindingStatus, S!Conflict, S!Listed
  <2>2. /\ binding' \in S!Binding /\ binding'.there = binding.there
        /\ binding'.comps = binding.comps /\ binding'.deployed = binding.comps
    BY <1>1, <2>1 DEF S!Binding
  <2>3. ~binding.there => binding' = S!NoBinding
    <3> SUFFICES ASSUME ~binding.there
                 PROVE  binding' = S!NoBinding
      OBVIOUS
    <3>1. binding' = [S!NoBinding EXCEPT !.deployed = {}]
      BY <1>1, <2>1, ConstantsTyped DEF S!TypeOK
    <3> QED
      BY <3>1 DEF S!NoBinding
  <2>4. S!TypeOK'
    BY <1>1, <2>1, <2>2, <2>3, ConstantsTyped DEF S!TypeOK
  <2>5. CASE binding' # binding
    BY <2>1, <2>4, <2>5 DEF BindingIInv, Noticed
  <2>6. CASE binding' = binding
    <3>1. Announced' = Announced /\ S!Deployable' = S!Deployable /\ S!ExpectedDest' = S!ExpectedDest
      BY <1>1, <2>6 DEF Announced, S!Deployable, S!ExpectedDest
    <3>2. Current => Current'
      BY <1>1, <2>6, <3>1 DEF Current
    <3>3. OnTrack => Current'
      <4> SUFFICES ASSUME OnTrack
                   PROVE  Current'
        OBVIOUS
      <4>1. /\ \A k \in binding.comps : deps[k] = S!ExpectedDest
            /\ \A k \in Comps : k \notin binding.comps => deps[k] = None
        BY <1>1 DEF OnTrack
      <4> QED
        BY <1>1, <2>2, <2>6, <3>1, <4>1 DEF Current
    <3> QED
      BY <1>2, <2>4, <3>1, <3>2, <3>3 DEF BindingIInv, Noticed
  <2> QED
    BY <2>5, <2>6
<1> QED
  BY <1>3, <1>4
-----------------------------------------------------------------------------
\* No change is forgotten: this holds at the start, and every step keeps it.
LEMMA ChangesAreNoticed == S!Spec => []BindingIInv
<1>1. S!Init => BindingIInv
  <2> SUFFICES ASSUME S!Init
               PROVE  BindingIInv
    OBVIOUS
  <2>1. binding \in S!Binding /\ binding.there
    BY ConstantsTyped DEF S!Init, S!Binding
  <2>2. 0 \in 0..MaxInputs
    BY BoundsAssumption
  <2>3. world \in S!World
    BY DEF S!Init, S!World
  <2>4. S!TypeOK
    BY <2>1, <2>2, <2>3, ConstantsTyped DEF S!Init, S!TypeOK
  <2> QED
    BY <2>4 DEF S!Init, BindingIInv, Noticed
<1>2. BindingIInv /\ [S!Next]_(S!vars) => BindingIInv'
  <2> SUFFICES ASSUME BindingIInv, [S!Next]_(S!vars)
               PROVE  BindingIInv'
    OBVIOUS
  <2>1. CASE UNCHANGED S!vars
    <3>1. S!TypeOK'
      BY <2>1 DEF S!vars, BindingIInv, S!TypeOK
    <3>2. OnTrack' = OnTrack
      BY <2>1 DEF S!vars, OnTrack, S!ExpectedDest
    <3> QED
      BY <2>1, <3>1, <3>2, ProgressStep DEF S!vars
  <2>2. CASE S!Controller
    BY <2>2, DeliverStep, BindingReconcileStep, BindingStep, UnmatchedStep, ProcessStep,
       ProcessedStep,
       StatusStep DEF S!Controller
  <2> QED
    BY <2>1, <2>2, WorldStep, BindingStep DEF S!Next
<1> QED
  BY <1>1, <1>2, PTL DEF S!Spec

\* Whenever the controller is at rest, the GitOpsDeployments are those of the binding's
\* components, at the destination that Environment, claim and target give, and the status
\* lists them, whatever has changed or failed before or during a reconcile
\* (snapshotenvironmentbinding_controller.go, Reconcile and the mapping functions).
THEOREM AtRestCurrent == S!Spec => []S!SnapshotInv
<1>1. BindingIInv => S!SnapshotInv
  <2>1. S!AtRest => ~queued /\ ~Announced /\ ~OnTrack
    BY DEF S!AtRest, Announced, OnTrack
  <2> QED
    BY <2>1 DEF BindingIInv, Noticed, Current, S!SnapshotInv, S!DeploymentsAreCurrent,
       S!StatusIsCurrent
<1> QED
  BY <1>1, ChangesAreNoticed, PTL

\* The status that a reconcile writes at its end leaves the binding's repository,
\* components and snapshot as others have written them in the meantime
\* (snapshotenvironmentbinding_controller.go, the update of the status).
THEOREM StatusUndoesNothing == S!Spec => S!NothingUndone
<1>1. BindingIInv /\ [S!Next]_(S!vars) =>
        [S!UpdateBindingStatus => binding' = [binding EXCEPT !.deployed = binding'.deployed]]_(S!vars)
  <2> SUFFICES ASSUME BindingIInv, S!UpdateBindingStatus
               PROVE  binding' = [binding EXCEPT !.deployed = binding'.deployed]
    OBVIOUS
  <2>1. binding \in S!Binding
    BY DEF BindingIInv, S!TypeOK
  <2>2. CASE S!Conflict
    <3>1. binding' = binding
      BY <2>2 DEF S!UpdateBindingStatus
    <3> QED
      BY <2>1, <3>1 DEF S!Binding
  <2>3. CASE ~S!Conflict
    BY <2>1, <2>3 DEF S!UpdateBindingStatus, S!Conflict, S!Binding
  <2> QED
    BY <2>2, <2>3
<1> QED
  BY <1>1, ChangesAreNoticed, PTL DEF S!Spec, S!NothingUndone
=============================================================================
