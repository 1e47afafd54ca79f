---------------------- MODULE ApplicationEventLoop_proofs ----------------------
(***************************************************************************)
(* Proofs about the event loops of the backend, for any set of SyncRuns    *)
(* and any number of creations, changes and failing calls.                 *)
(*                                                                         *)
(* The second part is about SyncRun, the runner the application event loop *)
(* starts for a GitOpsDeploymentSyncRun: no operation is recorded as       *)
(* Completed that was not synced, and no SyncRun shows success that is not *)
(* in the database.                                                        *)
(***************************************************************************)
EXTENDS ApplicationEventLoop, FiniteSetTheorems, SequenceTheorems, TLAPS

CONSTANT None

\* The SyncRun runner, which the loop starts, has a specification of its own; its proofs are
\* at the end.
VARIABLES run, cond, depl, dtam, app, rows, mappings, ops, event, notices,
          waiting, tasks, argo, done, gaveUp, inputs

Y == INSTANCE SyncRun

\* The ticks in a queue.
Ticks(q) == Cardinality({i \in DOMAIN q : q[i] = "tick"})

\* What the application event loop L knows of its deployment runner r is true: whether
\* it works and whether it has ended.
Agree(L, r) ==
  /\ r.pc \in {"read", "reconcile", "recheck", "done"} <=> L.activeD # "none"
  /\ r.pc = "ended" <=> L.shutdownD

\* There is one tick.
Ticking(L) ==
  ~L.shutdownD => L.timers + Ticks(L.waitingD) + (IF L.activeD = "tick" THEN 1 ELSE 0) = 1

\* A tick does not make the runner reconcile, and so not ask for shutdown: the loop
\* would not look at its answer.  Nor does a runner that has nothing to do.
NoSignal(L, r) ==
  /\ r.pc \in {"reconcile", "recheck"} \/ r.signal => L.activeD # "tick"
  /\ r.signal => L.activeD # "none"

\* An application event loop between two iterations.
Sound(L, r) ==
  /\ L \in Loop /\ r \in Runner
  /\ L.mapped /\ ~L.stuck
  /\ Agree(L, r) /\ Ticking(L) /\ NoSignal(L, r)

LoopInv ==
  \/ Sound(loop, runner)
  \/ loop = NoLoop /\ runner = NewRunner

IInv == TypeOK /\ LoopInv
-----------------------------------------------------------------------------
(* Ticks in a queue                                                        *)

\* Counting the ticks of a queue makes sense.
LEMMA TicksType ==
  ASSUME NEW q \in Seq(DeploymentEvents)
  PROVE  /\ IsFiniteSet({i \in DOMAIN q : q[i] = "tick"})
         /\ Ticks(q) \in Nat
<1>1. DOMAIN q = 1..Len(q) /\ Len(q) \in Nat
  BY LenProperties
<1>2. IsFiniteSet(1..Len(q))
  BY <1>1, FS_Interval
<1>3. {i \in DOMAIN q : q[i] = "tick"} \in SUBSET (1..Len(q))
  BY <1>1
<1>4. IsFiniteSet({i \in DOMAIN q : q[i] = "tick"})
  BY <1>2, <1>3, FS_Subset
<1> QED
  BY <1>4, FS_CardinalityType DEF Ticks

\* Nothing is in an empty queue.
LEMMA TicksEmpty == Ticks(<<>>) = 0
<1>1. {i \in DOMAIN <<>> : <<>>[i] = "tick"} = {}
  OBVIOUS
<1> QED
  BY <1>1, FS_EmptySet DEF Ticks

\* An event that is queued counts if it is a tick.
LEMMA TicksAppend ==
  ASSUME NEW q \in Seq(DeploymentEvents), NEW e \in DeploymentEvents
  PROVE  Ticks(Append(q, e)) = Ticks(q) + (IF e = "tick" THEN 1 ELSE 0)
<1> DEFINE S == {i \in DOMAIN q : q[i] = "tick"}
           T == {i \in DOMAIN Append(q, e) : Append(q, e)[i] = "tick"}
           n == Len(q) + 1
<1>1. DOMAIN q = 1..Len(q) /\ Len(q) \in Nat
  BY LenProperties
<1>2. /\ Append(q, e) \in Seq(DeploymentEvents) /\ Len(Append(q, e)) = Len(q) + 1
      /\ \A i \in 1..Len(q) : Append(q, e)[i] = q[i]
      /\ Append(q, e)[n] = e
  BY AppendProperties
<1>3. DOMAIN Append(q, e) = 1..(Len(q) + 1)
  BY <1>2, LenProperties
<1>4. IsFiniteSet(S) /\ Cardinality(S) \in Nat
  BY TicksType DEF Ticks
<1>5. \A i : i \in 1..n <=> i \in 1..Len(q) \/ i = n
  BY <1>1
<1>6. n \notin S
  BY <1>1
<1>7. CASE e = "tick"
  <2>1. T = S \union {n}
    BY <1>1, <1>2, <1>3, <1>5, <1>7
  <2>2. Cardinality(T) = Cardinality(S) + 1
    BY <1>4, <1>6, <2>1, FS_AddElement
  <2> QED
    BY <1>7, <2>2 DEF Ticks
<1>8. CASE e # "tick"
  <2>1. \A i : i \in T <=> i \in S
    BY <1>1, <1>2, <1>3, <1>5, <1>8
  <2>2. T = S
    <3> HIDE DEF S, T
    <3> QED
      BY <2>1
  <2>3. Ticks(Append(q, e)) = Cardinality(T) /\ Ticks(q) = Cardinality(S)
    BY DEF Ticks
  <2> HIDE DEF S, T
  <2> QED
    BY <1>4, <1>8, <2>2, <2>3
<1> QED
  BY <1>7, <1>8

\* An event that leaves the queue counted if it is a tick.
LEMMA TicksTail ==
  ASSUME NEW q \in Seq(DeploymentEvents), q # <<>>
  PROVE  Ticks(q) = Ticks(Tail(q)) + (IF Head(q) = "tick" THEN 1 ELSE 0)
<1> DEFINE S == {i \in DOMAIN q : q[i] = "tick"}
           T == {i \in DOMAIN Tail(q) : Tail(q)[i] = "tick"}
           f == [i \in T |-> i + 1]
<1>1. DOMAIN q = 1..Len(q) /\ Len(q) \in Nat \ {0} /\ Head(q) = q[1]
  BY LenProperties, EmptySeq
<1>2. /\ Tail(q) \in Seq(DeploymentEvents) /\ Len(Tail(q)) = Len(q) - 1
      /\ \A i \in 1..Len(Tail(q)) : Tail(q)[i] = q[i + 1]
  BY HeadTailProperties
<1>3. DOMAIN Tail(q) = 1..(Len(q) - 1)
  BY <1>2, LenProperties
<1>4. IsFiniteSet(S) /\ IsFiniteSet(T) /\ Cardinality(T) \in Nat /\ Cardinality(S) \in Nat
  BY <1>2, TicksType DEF Ticks
<1>5. T \subseteq 1..(Len(q) - 1) /\ \A i \in 1..(Len(q) - 1) : i \in T <=> q[i + 1] = "tick"
  BY <1>2, <1>3
<1>6. S \subseteq 1..Len(q) /\ \A i \in 1..Len(q) : i \in S <=> q[i] = "tick"
  BY <1>1
<1> HIDE DEF S, T
<1>7. \A i \in T : i \in Nat /\ i + 1 \in S \ {1}
  BY <1>1, <1>5, <1>6
<1>8. \A j \in S \ {1} : j \in Nat /\ j - 1 \in T /\ (j - 1) + 1 = j
  <2> SUFFICES ASSUME NEW j \in S \ {1}
               PROVE  j \in Nat /\ j - 1 \in T /\ (j - 1) + 1 = j
    OBVIOUS
  <2>1. j \in 1..Len(q) /\ j # 1 /\ q[j] = "tick"
    BY <1>6
  <2>2. j - 1 \in 1..(Len(q) - 1) /\ (j - 1) + 1 = j
    BY <1>1, <2>1
  <2> QED
    BY <1>5, <2>1, <2>2
<1>9. f \in Bijection(T, S \ {1})
  <2>1. f \in [T -> S \ {1}]
    BY <1>7
  <2>2. \A i, j \in T : f[i] = f[j] => i = j
    BY <1>7
  <2>3. \A j \in S \ {1} : \E i \in T : f[i] = j
    BY <1>8
  <2> QED
    BY <2>1, <2>2, <2>3 DEF Bijection, Injection, Surjection, IsInjective
<1>10. IsFiniteSet(S \ {1}) /\ Cardinality(S \ {1}) = Cardinality(T)
  BY <1>4, <1>9, FS_Bijection DEF ExistsBijection
<1>11. Cardinality(S \ {1}) = IF 1 \in S THEN Cardinality(S) - 1 ELSE Cardinality(S)
  BY <1>4, FS_RemoveElement
<1>12. 1 \in S <=> Head(q) = "tick"
  BY <1>1, <1>6
<1>13. Cardinality(S) = Cardinality(T) + (IF Head(q) = "tick" THEN 1 ELSE 0)
  BY <1>4, <1>10, <1>11, <1>12
<1> QED
  BY <1>13 DEF Ticks, S, T
-----------------------------------------------------------------------------
(* The application event loop                                              *)

\* Handing an event to the deployment runner: the loop does so only if the runner
\* waits for one.
LEMMA SendDSound ==
  ASSUME NEW L, NEW r, Sound(L, r)
  PROVE  /\ CanSendD(L) => r.pc = "idle"
         /\ Sound(SendD(L, r.pc = "idle"), IF CanSendD(L) /\ r.pc = "idle" THEN [r EXCEPT !.pc = "read"] ELSE r)
<1>1. CASE ~CanSendD(L)
  BY <1>1 DEF SendD
<1>2. CASE CanSendD(L)
  <2> DEFINE M == [L EXCEPT !.activeD = Head(L.waitingD), !.waitingD = Tail(@), !.stuck = FALSE]
             p == [r EXCEPT !.pc = "read"]
  <2>1. L.waitingD # <<>> /\ L.activeD = "none" /\ ~L.shutdownD /\ L \in Loop /\ r \in Runner
    BY <1>2 DEF CanSendD, Sound
  <2>2. r.pc = "idle"
    BY <2>1 DEF Sound, Agree, Runner
  <2>3. L.waitingD \in Seq(DeploymentEvents) /\ L.timers \in Nat
    BY <2>1 DEF Loop
  <2>4. Head(L.waitingD) \in DeploymentEvents /\ Tail(L.waitingD) \in Seq(DeploymentEvents)
    BY <2>1, <2>3, HeadTailProperties
  <2>5. SendD(L, r.pc = "idle") = M
    BY <1>2, <2>2 DEF SendD
  <2>6. M \in Loop
    BY <2>1, <2>4 DEF Loop
  <2>7. /\ M.activeD = Head(L.waitingD) /\ M.waitingD = Tail(L.waitingD) /\ M.stuck = FALSE
        /\ M.mapped = L.mapped /\ M.shutdownD = L.shutdownD /\ M.timers = L.timers
    BY <2>1 DEF Loop
  <2>8. p \in Runner /\ p.pc = "read" /\ p.signal = r.signal
    BY <2>1 DEF Runner
  <2> HIDE DEF M, p
  <2>9. Agree(M, p)
    BY <2>1, <2>4, <2>7, <2>8 DEF Agree, DeploymentEvents
  <2>10. Ticking(M)
    <3>1. L.timers + Ticks(L.waitingD) + 0 = 1
      BY <2>1 DEF Sound, Ticking
    <3>2. Ticks(L.waitingD) = Ticks(M.waitingD) + (IF M.activeD = "tick" THEN 1 ELSE 0)
      BY <2>1, <2>3, <2>7, TicksTail
    <3>3. Ticks(M.waitingD) \in Nat
      BY <2>4, <2>7, TicksType
    <3> QED
      BY <2>3, <2>7, <3>1, <3>2, <3>3 DEF Ticking
  <2>11. NoSignal(M, p)
    <3>1. ~r.signal
      BY <2>1 DEF Sound, NoSignal
    <3> QED
      BY <2>8, <3>1 DEF NoSignal
  <2>12. Sound(M, p)
    BY <2>6, <2>7, <2>8, <2>9, <2>10, <2>11 DEF Sound
  <2> QED
    BY <1>2, <2>2, <2>5, <2>12 DEF p
<1> QED
  BY <1>1, <1>2

\* The rest of an iteration does not concern the deployment runner.
LEMMA SyncRunnerSound ==
  ASSUME NEW L, NEW r, Sound(L, r)
  PROVE  Sound(ShutdownS(SendS(L)), r)
<1>1. ASSUME NEW M \in Loop,
             M.mapped = L.mapped, M.stuck = L.stuck, M.activeD = L.activeD,
             M.shutdownD = L.shutdownD, M.timers = L.timers, M.waitingD = L.waitingD
      PROVE  Sound(M, r)
  <2>1. Agree(M, r) /\ Ticking(M) /\ NoSignal(M, r)
    BY <1>1 DEF Sound, Agree, Ticking, NoSignal
  <2> QED
    BY <1>1, <2>1 DEF Sound
<1>2. L \in Loop
  BY DEF Sound
<1> DEFINE M == SendS(L)
<1>3. /\ M \in Loop /\ M.mapped = L.mapped /\ M.stuck = L.stuck /\ M.activeD = L.activeD
      /\ M.shutdownD = L.shutdownD /\ M.timers = L.timers /\ M.waitingD = L.waitingD
  <2>1. CASE ~(L.waitingS # <<>> /\ L.activeS = "none" /\ ~L.shutdownS)
    BY <1>2, <2>1 DEF SendS
  <2>2. CASE L.waitingS # <<>> /\ L.activeS = "none" /\ ~L.shutdownS
    <3>1. L.waitingS \in Seq(SyncRuns) /\ L.waitingS # <<>>
      BY <1>2, <2>2 DEF Loop
    <3>2. Head(L.waitingS) \in SyncRuns /\ Tail(L.waitingS) \in Seq(SyncRuns)
      BY <3>1, HeadTailProperties
    <3>3. M = [L EXCEPT !.activeS = Head(L.waitingS), !.waitingS = Tail(L.waitingS)]
      BY <2>2 DEF SendS
    <3> QED
      BY <1>2, <3>2, <3>3 DEF Loop
  <2> QED
    BY <2>1, <2>2
<1> HIDE DEF M
<1>4. /\ ShutdownS(M) \in Loop /\ ShutdownS(M).mapped = M.mapped
      /\ ShutdownS(M).stuck = M.stuck /\ ShutdownS(M).activeD = M.activeD
      /\ ShutdownS(M).shutdownD = M.shutdownD /\ ShutdownS(M).timers = M.timers
      /\ ShutdownS(M).waitingD = M.waitingD
  BY <1>3 DEF ShutdownS, Loop
<1>5. Sound(ShutdownS(M), r)
  BY <1>1, <1>3, <1>4
<1> QED
  BY <1>5 DEF M

\* A whole iteration.
LEMMA EndIterationSound ==
  ASSUME NEW L, NEW r, Sound(L, r), EndIteration(L, r)
  PROVE  Sound(loop', runner')
<1> DEFINE p == IF CanSendD(L) /\ r.pc = "idle" THEN [r EXCEPT !.pc = "read"] ELSE r
<1>1. Sound(SendD(L, r.pc = "idle"), p)
  BY SendDSound
<1>2. Sound(ShutdownS(SendS(SendD(L, r.pc = "idle"))), p)
  BY <1>1, SyncRunnerSound
<1> QED
  BY <1>2 DEF EndIteration

\* An event of the workspace is queued: it is no tick.
LEMMA QueueSound ==
  ASSUME NEW L, NEW r, Sound(L, r), NEW e \in {"deployment", "managedEnv"} \union SyncRuns
  PROVE  Sound(Queue(L, e), r)
<1>1. L \in Loop
  BY DEF Sound
<1>2. CASE e \in SyncRuns
  <2>1. CASE L.shutdownS
    BY <1>2, <2>1 DEF Queue, QueueS
  <2>2. CASE ~L.shutdownS
    <3> DEFINE M == [L EXCEPT !.waitingS = Append(L.waitingS, e)]
    <3>1. Queue(L, e) = M
      BY <1>2, <2>2 DEF Queue, QueueS
    <3>2. Append(L.waitingS, e) \in Seq(SyncRuns)
      BY <1>1, <1>2, AppendProperties DEF Loop
    <3>3. /\ M \in Loop /\ M.mapped = L.mapped /\ M.stuck = L.stuck /\ M.activeD = L.activeD
          /\ M.shutdownD = L.shutdownD /\ M.timers = L.timers /\ M.waitingD = L.waitingD
      BY <1>1, <3>2 DEF Loop
    <3> HIDE DEF M
    <3>4. Agree(M, r) /\ Ticking(M) /\ NoSignal(M, r)
      BY <3>3 DEF Sound, Agree, Ticking, NoSignal
    <3> QED
      BY <3>1, <3>3, <3>4 DEF Sound
  <2> QED
    BY <2>1, <2>2
<1>3. CASE e \notin SyncRuns
  <2>1. CASE L.shutdownD
    BY <1>3, <2>1 DEF Queue, QueueD
  <2>2. CASE ~L.shutdownD
    <3> DEFINE M == [L EXCEPT !.waitingD = Append(L.waitingD, e)]
    <3>1. Queue(L, e) = M
      BY <1>3, <2>2 DEF Queue, QueueD
    <3>2. e \in DeploymentEvents /\ e # "tick"
      BY <1>3 DEF DeploymentEvents
    <3>3. /\ L.waitingD \in Seq(DeploymentEvents)
          /\ Append(L.waitingD, e) \in Seq(DeploymentEvents)
      BY <1>1, <3>2, AppendProperties DEF Loop
    <3>4. /\ M \in Loop /\ M.mapped = L.mapped /\ M.stuck = L.stuck /\ M.activeD = L.activeD
          /\ M.shutdownD = L.shutdownD /\ M.timers = L.timers
          /\ M.waitingD = Append(L.waitingD, e)
      BY <1>1, <3>3 DEF Loop
    <3> HIDE DEF M
    <3>5. Ticks(M.waitingD) = Ticks(L.waitingD)
      <4>1. Ticks(L.waitingD) \in Nat
        BY <3>3, TicksType
      <4>2. Ticks(M.waitingD) = Ticks(L.waitingD) + 0
        BY <3>2, <3>3, <3>4, TicksAppend
      <4> QED
        BY <4>1, <4>2
    <3>6. Agree(M, r) /\ Ticking(M) /\ NoSignal(M, r)
      BY <3>4, <3>5 DEF Sound, Agree, Ticking, NoSignal
    <3> QED
      BY <3>1, <3>4, <3>6 DEF Sound
  <2> QED
    BY <2>1, <2>2
<1> QED
  BY <1>2, <1>3

\* A loop that has just been started has its timer.
LEMMA NewLoopSound == Sound(NewLoop, NewRunner)
<1>1. <<>> \in Seq(DeploymentEvents) /\ <<>> \in Seq(SyncRuns)
  BY EmptySeq
<1>2. NewLoop \in Loop
  BY <1>1 DEF NewLoop, Loop
<1>3. 0 \in 0..MaxUid
  BY BoundsAssumption
<1>4. NewRunner \in Runner
  BY <1>3 DEF NewRunner, Runner, NoCR
<1>5. Agree(NewLoop, NewRunner) /\ NoSignal(NewLoop, NewRunner)
  BY DEF NewLoop, NewRunner, Agree, NoSignal
<1>6. Ticking(NewLoop)
  BY TicksEmpty DEF NewLoop, Ticking
<1> QED
  BY <1>2, <1>4, <1>5, <1>6 DEF Sound, NewLoop
-----------------------------------------------------------------------------
(* Steps                                                                   *)

\* The bound on the inputs holds for failing calls.
LEMMA FaultBounded ==
  ASSUME TypeOK, Fault
  PROVE  faults' \in 0..MaxInputs /\ faults' # 0
<1>1. /\ lastUid \in 0..MaxUid /\ faults \in 0..MaxInputs /\ syncs \in 0..MaxInputs
      /\ lastUid + syncs + faults < MaxInputs /\ faults' = faults + 1
  BY DEF TypeOK, Fault, Input
<1> QED
  BY <1>1, BoundsAssumption

\* An iteration of the application event loop keeps the invariant.
LEMMA LoopStep ==
  ASSUME IInv, Sound(loop', runner'),
         UNCHANGED <<cr, lastUid, syncCRs, syncs, dtams>>,
         inbox' \subseteq {"deployment"} \union SyncRuns, orphaned' \subseteq SyncRuns,
         faults' \in 0..MaxInputs
  PROVE  IInv'
<1>1. loop' \in Loop /\ runner' \in Runner
  BY DEF Sound
<1>2. TypeOK'
  BY <1>1 DEF IInv, TypeOK
<1>3. LoopInv'
  BY DEF LoopInv, Sound, Agree, Ticking, NoSignal, Ticks
<1> QED
  BY <1>2, <1>3 DEF IInv

\* A loop that has shut down is forgotten.
LEMMA ForgetStep ==
  ASSUME IInv, loop' = NoLoop, runner' = NewRunner,
         UNCHANGED <<cr, lastUid, syncCRs, syncs, dtams>>,
         inbox' \subseteq {"deployment"} \union SyncRuns, orphaned' \subseteq SyncRuns,
         faults' \in 0..MaxInputs
  PROVE  IInv'
<1>1. NoLoop \in Loop
  BY NewLoopSound DEF NoLoop, Sound, Loop
<1>2. NewRunner \in Runner
  BY NewLoopSound DEF Sound
<1>3. TypeOK'
  BY <1>1, <1>2 DEF IInv, TypeOK
<1> QED
  BY <1>3 DEF IInv, LoopInv

\* A step that changes neither the loop nor its runner.
LEMMA OtherStep ==
  ASSUME IInv, TypeOK', UNCHANGED <<loop, runner>>
  PROVE  IInv'
  BY DEF IInv, LoopInv, Sound, Agree, Ticking, NoSignal, Ticks

\* A loop that is there is sound.
LEMMA MappedIsSound ==
  ASSUME IInv, loop.mapped
  PROVE  Sound(loop, runner)
  BY DEF IInv, LoopInv, NoLoop, NewLoop

\* The workspace event loop passes an event on.
LEMMA PassStep ==
  ASSUME IInv, NEW e \in {"deployment"} \union SyncRuns,
         NEW rest \in SUBSET ({"deployment"} \union SyncRuns),
         PassToApplication(e, rest),
         UNCHANGED <<cr, lastUid, syncCRs, syncs, dtams>>,
         orphaned' \subseteq SyncRuns, faults' \in 0..MaxInputs
  PROVE  IInv'
<1>1. CASE loop.mapped /\ workRejected(loop)
  <2>1. loop' = NoLoop /\ runner' = NewRunner /\ inbox' = rest \union {e}
    BY <1>1 DEF PassToApplication
  <2> QED
    BY <2>1, ForgetStep
<1>2. CASE ~(loop.mapped /\ workRejected(loop))
  <2> DEFINE L == IF loop.mapped THEN loop ELSE NewLoop
  <2>1. EndIteration(Queue(L, e), runner) /\ inbox' = rest
    BY <1>2 DEF PassToApplication
  <2>2. Sound(L, runner)
    <3>1. CASE loop.mapped
      BY <3>1, MappedIsSound
    <3>2. CASE ~loop.mapped
      <4>1. runner = NewRunner
        BY <3>2 DEF IInv, LoopInv, Sound
      <4> QED
        BY <3>2, <4>1, NewLoopSound
    <3> QED
      BY <3>1, <3>2
  <2> HIDE DEF L
  <2>3. Sound(Queue(L, e), runner)
    BY <2>2, QueueSound
  <2>4. Sound(loop', runner')
    BY <2>1, <2>3, EndIterationSound
  <2> QED
    BY <2>1, <2>4, LoopStep
<1> QED
  BY <1>1, <1>2

\* Users, Kubernetes and the database reconciler.
LEMMA NamespaceStep ==
  ASSUME IInv,
         \/ CreateDeployment \/ DeleteDeployment \/ DeploymentGone \/ Resync
         \/ \E s \in SyncRuns : ChangeSyncRun(s)
         \/ \E u \in 1..MaxUid : CleanOrphanedRows(u)
  PROVE  IInv'
<1>1. TypeOK
  BY DEF IInv
<1>2. CASE CreateDeployment
  <2>1. lastUid \in 0..MaxUid /\ lastUid < MaxUid /\ lastUid' = lastUid + 1
    BY <1>1, <1>2 DEF CreateDeployment, TypeOK
  <2>2. lastUid + 1 \in 0..MaxUid
    BY <2>1, BoundsAssumption
  <2>3. TypeOK'
    BY <1>1, <1>2, <2>1, <2>2 DEF CreateDeployment, TypeOK
  <2> QED
    BY <1>2, <2>3, OtherStep DEF CreateDeployment
<1>3. CASE DeleteDeployment \/ DeploymentGone
  <2>1. 0 \in 0..MaxUid
    BY BoundsAssumption
  <2>2. cr' \in [uid : 0..MaxUid, terminating : BOOLEAN]
    <3>1. NoCR \in [uid : 0..MaxUid, terminating : BOOLEAN]
      BY <2>1 DEF NoCR
    <3>2. [cr EXCEPT !.terminating = TRUE] \in [uid : 0..MaxUid, terminating : BOOLEAN]
      BY <1>1 DEF TypeOK
    <3>3. cr' = NoCR \/ cr' = [cr EXCEPT !.terminating = TRUE]
      BY <1>3 DEF DeleteDeployment, DeploymentGone
    <3> QED
      BY <3>1, <3>2, <3>3
  <2>3. TypeOK'
    BY <1>1, <1>3, <2>2 DEF DeleteDeployment, DeploymentGone, TypeOK
  <2> QED
    BY <1>3, <2>3, OtherStep DEF DeleteDeployment, DeploymentGone
<1>4. CASE Resync
  <2>1. TypeOK'
    BY <1>1, <1>4 DEF Resync, TypeOK, k8sVars
  <2> QED
    BY <1>4, <2>1, OtherStep DEF Resync
<1>5. ASSUME NEW s \in SyncRuns, ChangeSyncRun(s)
      PROVE  IInv'
  <2>1. /\ lastUid \in 0..MaxUid /\ faults \in 0..MaxInputs /\ syncs \in 0..MaxInputs
        /\ lastUid + syncs + faults < MaxInputs /\ syncs' = syncs + 1
    BY <1>1, <1>5 DEF ChangeSyncRun, TypeOK, Input
  <2>2. syncs' \in 0..MaxInputs
    BY <2>1, BoundsAssumption
  <2>3. TypeOK'
    BY <1>1, <1>5, <2>2 DEF ChangeSyncRun, TypeOK
  <2> QED
    BY <1>5, <2>3, OtherStep DEF ChangeSyncRun
<1>6. ASSUME NEW u \in 1..MaxUid, CleanOrphanedRows(u)
      PROVE  IInv'
  <2>1. TypeOK'
    BY <1>1, <1>6 DEF CleanOrphanedRows, TypeOK, k8sVars
  <2> QED
    BY <1>6, <2>1, OtherStep DEF CleanOrphanedRows
<1> QED
  BY <1>2, <1>3, <1>4, <1>5, <1>6

\* The workspace event loop.
LEMMA WorkspaceStep ==
  ASSUME IInv,
         \/ HandleDeploymentEvent \/ handleManagedEnvProcessedMessage
         \/ handleStatusTickerMessage
         \/ \E s \in SyncRuns : HandleSyncRunEvent(s)
  PROVE  IInv'
<1>1. /\ TypeOK /\ faults \in 0..MaxInputs /\ orphaned \subseteq SyncRuns
      /\ inbox \subseteq {"deployment"} \union SyncRuns
  BY DEF IInv, TypeOK
<1>2. CASE HandleDeploymentEvent
  <2>1. UNCHANGED <<cr, lastUid, syncCRs, syncs, dtams>>
    BY <1>2 DEF HandleDeploymentEvent, k8sVars
  <2>2. CASE /\ orphaned' = orphaned \ Unorphaned
             /\ PassToApplication("deployment", (inbox \ {"deployment"}) \union Unorphaned)
             /\ UNCHANGED faults
    <3>1. Unorphaned \subseteq SyncRuns
      BY <1>1 DEF Unorphaned
    <3>2. /\ (inbox \ {"deployment"}) \union Unorphaned \in SUBSET ({"deployment"} \union SyncRuns)
          /\ orphaned' \subseteq SyncRuns /\ faults' \in 0..MaxInputs
      BY <1>1, <2>2, <3>1
    <3> QED
      BY <2>1, <2>2, <3>2, PassStep
  <2>3. CASE /\ Fault /\ PassToApplication("deployment", inbox \ {"deployment"})
             /\ UNCHANGED orphaned
    <3>1. /\ inbox \ {"deployment"} \in SUBSET ({"deployment"} \union SyncRuns)
          /\ orphaned' \subseteq SyncRuns /\ faults' \in 0..MaxInputs
      BY <1>1, <2>3, FaultBounded
    <3> QED
      BY <2>1, <2>3, <3>1, PassStep
  <2> QED
    BY <1>2, <2>2, <2>3 DEF HandleDeploymentEvent
<1>3. CASE handleManagedEnvProcessedMessage
  <2>1. /\ loop.mapped /\ loop' = [loop EXCEPT !.envSender = TRUE]
        /\ UNCHANGED <<cr, lastUid, syncCRs, syncs, dtams, inbox, orphaned, runner, faults>>
    BY <1>3 DEF handleManagedEnvProcessedMessage, k8sVars
  <2>2. Sound(loop, runner) /\ loop \in Loop
    BY <2>1, MappedIsSound DEF Sound
  <2>3. /\ loop' \in Loop /\ loop'.mapped = loop.mapped /\ loop'.stuck = loop.stuck
        /\ loop'.activeD = loop.activeD /\ loop'.shutdownD = loop.shutdownD
        /\ loop'.timers = loop.timers /\ loop'.waitingD = loop.waitingD
    BY <2>1, <2>2 DEF Loop
  <2>4. Agree(loop', runner') /\ Ticking(loop') /\ NoSignal(loop', runner')
    BY <2>1, <2>2, <2>3 DEF Sound, Agree, Ticking, NoSignal
  <2>5. Sound(loop', runner')
    BY <2>1, <2>2, <2>3, <2>4 DEF Sound
  <2> QED
    BY <1>1, <2>1, <2>5, LoopStep
<1>4. CASE handleStatusTickerMessage
  <2>1. /\ loop' = NoLoop /\ runner' = NewRunner
        /\ UNCHANGED <<cr, lastUid, syncCRs, syncs, dtams, inbox, orphaned, faults>>
    BY <1>4 DEF handleStatusTickerMessage, k8sVars
  <2> QED
    BY <1>1, <2>1, ForgetStep
<1>5. ASSUME NEW s \in SyncRuns, HandleSyncRunEvent(s)
      PROVE  IInv'
  <2>1. UNCHANGED <<cr, lastUid, syncCRs, syncs, dtams>>
    BY <1>5 DEF HandleSyncRunEvent, k8sVars
  <2>2. CASE PassToApplication(s, inbox \ {s}) /\ UNCHANGED <<orphaned, faults>>
    <3>1. /\ inbox \ {s} \in SUBSET ({"deployment"} \union SyncRuns)
          /\ orphaned' \subseteq SyncRuns /\ faults' \in 0..MaxInputs
      BY <1>1, <2>2
    <3> QED
      BY <2>1, <2>2, <3>1, PassStep
  <2>3. CASE /\ inbox' = inbox \ {s} /\ UNCHANGED <<loop, runner>>
             /\ orphaned' \in {orphaned, OrphanedWith(s)}
             /\ Fault \/ UNCHANGED faults
    <3>1. faults' \in 0..MaxInputs /\ orphaned' \subseteq SyncRuns
      BY <1>1, <2>3, FaultBounded DEF OrphanedWith
    <3>2. TypeOK'
      BY <1>1, <2>1, <2>3, <3>1 DEF TypeOK
    <3> QED
      BY <2>3, <3>2, OtherStep
  <2> QED
    BY <1>5, <2>2, <2>3 DEF HandleSyncRunEvent
<1> QED
  BY <1>2, <1>3, <1>4, <1>5

\* A tick is received: it goes from the timer to the queue.
LEMMA TickStep ==
  ASSUME IInv, ReceiveTick
  PROVE  IInv'
<1> DEFINE L == [loop EXCEPT !.timers = loop.timers - 1]
<1>1. /\ loop.mapped /\ loop.timers > 0 /\ ReceiveAsync(L, "tick")
      /\ UNCHANGED <<cr, lastUid, syncCRs, syncs, dtams, inbox, orphaned, faults>>
  BY DEF ReceiveTick, k8sVars
<1>2. Sound(loop, runner) /\ loop \in Loop /\ runner \in Runner
  BY <1>1, MappedIsSound DEF Sound
<1>3. loop.timers \in Nat /\ loop.waitingD \in Seq(DeploymentEvents)
  BY <1>2 DEF Loop
<1>4. loop.timers - 1 \in Nat
  BY <1>1, <1>3
<1>5. /\ L \in Loop /\ L.mapped = loop.mapped /\ L.stuck = loop.stuck
      /\ L.activeD = loop.activeD /\ L.shutdownD = loop.shutdownD
      /\ L.timers = loop.timers - 1 /\ L.waitingD = loop.waitingD
  BY <1>2, <1>4 DEF Loop
<1> HIDE DEF L
<1>6. Agree(L, runner) /\ NoSignal(L, runner)
  BY <1>2, <1>5 DEF Sound, Agree, NoSignal
<1>7. CASE L.shutdownD
  <2>1. Sound(L, runner)
    BY <1>2, <1>5, <1>6, <1>7 DEF Sound, Ticking
  <2>2. (loop' = L /\ UNCHANGED runner) \/ EndIteration(L, runner)
    BY <1>1, <1>7 DEF ReceiveAsync, QueueD
  <2>3. Sound(loop', runner')
    BY <2>1, <2>2, EndIterationSound
  <2> QED
    BY <1>1, <2>3, LoopStep DEF IInv, TypeOK
<1>8. CASE ~L.shutdownD
  <2> DEFINE M == [L EXCEPT !.waitingD = Append(L.waitingD, "tick")]
  <2>1. EndIteration(M, runner)
    BY <1>1, <1>8 DEF ReceiveAsync, QueueD, workRejected
  <2>2. "tick" \in DeploymentEvents
    BY DEF DeploymentEvents
  <2>3. Append(L.waitingD, "tick") \in Seq(DeploymentEvents)
    BY <1>3, <1>5, <2>2, AppendProperties
  <2>4. /\ M \in Loop /\ M.mapped = L.mapped /\ M.stuck = L.stuck
        /\ M.activeD = L.activeD /\ M.shutdownD = L.shutdownD
        /\ M.timers = L.timers /\ M.waitingD = Append(L.waitingD, "tick")
    BY <1>5, <2>3 DEF Loop
  <2> HIDE DEF M
  <2>5. Agree(M, runner) /\ NoSignal(M, runner)
    BY <1>6, <2>4 DEF Agree, NoSignal
  <2>6. Ticking(M)
    <3>1. Ticks(M.waitingD) = Ticks(loop.waitingD) + 1 /\ Ticks(loop.waitingD) \in Nat
      BY <1>3, <1>5, <2>2, <2>4, TicksAppend, TicksType
    <3>2. loop.timers + Ticks(loop.waitingD) + (IF loop.activeD = "tick" THEN 1 ELSE 0) = 1
      BY <1>2, <1>5, <1>8 DEF Sound, Ticking
    <3> QED
      BY <1>3, <1>5, <2>4, <3>1, <3>2 DEF Ticking
  <2>7. Sound(M, runner)
    BY <1>2, <1>5, <2>4, <2>5, <2>6 DEF Sound
  <2>8. Sound(loop', runner')
    BY <2>1, <2>7, EndIterationSound
  <2> QED
    BY <1>1, <2>8, LoopStep DEF IInv, TypeOK
<1> QED
  BY <1>7, <1>8

\* A managed environment event is received.
LEMMA EnvStep ==
  ASSUME IInv, ReceiveManagedEnvironment
  PROVE  IInv'
<1> DEFINE L == [loop EXCEPT !.envSender = FALSE]
<1>1. /\ loop.mapped /\ ReceiveAsync(L, "managedEnv")
      /\ UNCHANGED <<cr, lastUid, syncCRs, syncs, dtams, inbox, orphaned, faults>>
  BY DEF ReceiveManagedEnvironment, k8sVars
<1>2. Sound(loop, runner) /\ loop \in Loop
  BY <1>1, MappedIsSound DEF Sound
<1>3. /\ L \in Loop /\ L.mapped = loop.mapped /\ L.stuck = loop.stuck
      /\ L.activeD = loop.activeD /\ L.shutdownD = loop.shutdownD
      /\ L.timers = loop.timers /\ L.waitingD = loop.waitingD
  BY <1>2 DEF Loop
<1> HIDE DEF L
<1>4. Agree(L, runner) /\ NoSignal(L, runner) /\ Ticking(L)
  BY <1>2, <1>3 DEF Sound, Agree, NoSignal, Ticking
<1>5. Sound(L, runner)
  BY <1>2, <1>3, <1>4 DEF Sound
<1>6. "managedEnv" \notin SyncRuns
  BY SyncRunsAssumption
<1>7. Sound(QueueD(L, "managedEnv"), runner)
  BY <1>5, <1>6, QueueSound DEF Queue
<1>8. Sound(loop', runner')
  BY <1>1, <1>5, <1>7, EndIterationSound DEF ReceiveAsync
<1> QED
  BY <1>1, <1>8, LoopStep DEF IInv, TypeOK

\* The deployment runner reports: if it has ended, the loop knows, and otherwise it
\* waits for the next event.  After a tick the timer is set again.
LEMMA WorkCompleteStep ==
  ASSUME IInv, ReceiveWorkCompleteD
  PROVE  IInv'
<1> DEFINE M == WorkCompleteD(loop)
           r == [NewRunner EXCEPT !.pc = IF runner.signal THEN "ended" ELSE "idle"]
<1>1. /\ loop.mapped /\ runner.pc = "done" /\ EndIteration(M, r)
      /\ UNCHANGED <<cr, lastUid, syncCRs, syncs, dtams, inbox, orphaned, faults>>
  BY DEF ReceiveWorkCompleteD, k8sVars
<1>2. /\ Sound(loop, runner) /\ loop \in Loop /\ runner \in Runner
      /\ ~loop.shutdownD /\ loop.activeD # "none"
  BY <1>1, MappedIsSound DEF Sound, Agree
<1>3. /\ loop.timers \in Nat /\ loop.timers + 1 \in Nat
      /\ loop.waitingD \in Seq(DeploymentEvents) /\ runner.signal \in BOOLEAN
  BY <1>2 DEF Loop, Runner
<1>4. Ticks(loop.waitingD) \in Nat
  BY <1>3, TicksType
<1>5. loop.timers + Ticks(loop.waitingD) + (IF loop.activeD = "tick" THEN 1 ELSE 0) = 1
  BY <1>2 DEF Sound, Ticking
<1>6. /\ M \in Loop /\ M.mapped = loop.mapped /\ M.stuck = loop.stuck
      /\ M.activeD = "none" /\ M.waitingD = loop.waitingD
      /\ loop.activeD = "tick" => M.timers = loop.timers + 1 /\ M.shutdownD = loop.shutdownD
      /\ loop.activeD # "tick" => M.timers = loop.timers /\ M.shutdownD = runner.signal
  <2>1. CASE loop.activeD = "tick"
    <3>1. M = [loop EXCEPT !.activeD = "none", !.timers = loop.timers + 1]
      BY <2>1 DEF WorkCompleteD
    <3> QED
      BY <1>2, <1>3, <2>1, <3>1 DEF Loop
  <2>2. CASE loop.activeD # "tick"
    <3>1. M = [loop EXCEPT !.activeD = "none", !.shutdownD = runner.signal]
      BY <2>2 DEF WorkCompleteD
    <3> QED
      BY <1>2, <1>3, <2>2, <3>1 DEF Loop
  <2> QED
    BY <2>1, <2>2
<1>7. /\ r \in Runner /\ r.signal = FALSE
      /\ r.pc = IF runner.signal THEN "ended" ELSE "idle"
  BY NewLoopSound DEF Sound, NewRunner, Runner
<1> HIDE DEF M, r
<1>8. loop.activeD = "tick" => ~runner.signal
  BY <1>2 DEF Sound, NoSignal
<1>9. Agree(M, r) /\ NoSignal(M, r)
  BY <1>2, <1>3, <1>6, <1>7, <1>8 DEF Agree, NoSignal
<1>10. Ticking(M)
  <2>1. CASE loop.activeD = "tick"
    BY <1>3, <1>4, <1>5, <1>6, <2>1 DEF Ticking
  <2>2. CASE loop.activeD # "tick"
    BY <1>3, <1>4, <1>5, <1>6, <2>2 DEF Ticking
  <2> QED
    BY <2>1, <2>2
<1>11. Sound(M, r)
  BY <1>2, <1>6, <1>7, <1>9, <1>10 DEF Sound
<1>12. Sound(loop', runner')
  BY <1>1, <1>11, EndIterationSound
<1> QED
  BY <1>1, <1>12, LoopStep DEF IInv, TypeOK

\* The sync runner reports.
LEMMA SyncCompleteStep ==
  ASSUME IInv, ReceiveWorkCompleteS
  PROVE  IInv'
<1> DEFINE L == [loop EXCEPT !.activeS = "none"]
<1>1. /\ loop.mapped /\ EndIteration(L, runner)
      /\ UNCHANGED <<cr, lastUid, syncCRs, syncs, dtams, inbox, orphaned, faults>>
  BY DEF ReceiveWorkCompleteS, k8sVars
<1>2. Sound(loop, runner) /\ loop \in Loop
  BY <1>1, MappedIsSound DEF Sound
<1>3. /\ L \in Loop /\ L.mapped = loop.mapped /\ L.stuck = loop.stuck
      /\ L.activeD = loop.activeD /\ L.shutdownD = loop.shutdownD
      /\ L.timers = loop.timers /\ L.waitingD = loop.waitingD
  BY <1>2 DEF Loop
<1> HIDE DEF L
<1>4. Agree(L, runner) /\ NoSignal(L, runner) /\ Ticking(L)
  BY <1>2, <1>3 DEF Sound, Agree, NoSignal, Ticking
<1>5. Sound(L, runner)
  BY <1>2, <1>3, <1>4 DEF Sound
<1>6. Sound(loop', runner')
  BY <1>1, <1>5, EndIterationSound
<1> QED
  BY <1>1, <1>6, LoopStep DEF IInv, TypeOK

\* The deployment runner works on the event that the loop has given it.
LEMMA RunnerStep ==
  ASSUME IInv, RunnerReads \/ RunnerReconciles \/ RunnerRechecks
  PROVE  IInv'
<1>1. /\ UNCHANGED <<lastUid, syncCRs, syncs, orphaned, loop>>
      /\ runner.pc \in {"read", "reconcile", "recheck"}
  BY DEF RunnerReads, RunnerReconciles, RunnerRechecks, k8sVars
<1>2. /\ Sound(loop, runner) /\ runner \in Runner /\ TypeOK /\ loop.activeD # "none"
      /\ runner.seen \in [uid : 0..MaxUid, terminating : BOOLEAN]
  BY <1>1 DEF IInv, LoopInv, NewRunner, Sound, Agree, Runner
<1>3. /\ runner' \in Runner /\ runner'.pc \in {"read", "reconcile", "recheck", "done"}
      /\ runner'.pc \in {"reconcile", "recheck"} \/ runner'.signal => loop.activeD # "tick"
  <2>1. CASE RunnerReads
    <3>1. CASE runner' = [NewRunner EXCEPT !.pc = "done"]
      BY <3>1, NewLoopSound DEF Sound, NewRunner, Runner
    <3>2. CASE /\ loop.activeD \in {"deployment", "managedEnv"}
               /\ runner' = [NewRunner EXCEPT !.pc = "reconcile", !.seen = cr]
      BY <1>2, <3>2, NewLoopSound DEF Sound, NewRunner, Runner, TypeOK
    <3> QED
      BY <2>1, <3>1, <3>2 DEF RunnerReads
  <2>2. CASE RunnerReconciles
    <3>1. loop.activeD # "tick"
      BY <1>2, <2>2 DEF RunnerReconciles, Sound, NoSignal
    <3>2. isGitOpsDeploymentDeleted(runner.seen) \in BOOLEAN
      BY <1>2 DEF isGitOpsDeploymentDeleted
    <3>3. \E err, signal \in BOOLEAN :
            runner' = [runner EXCEPT !.pc = "recheck", !.err = err, !.signal = signal]
      BY <2>2, <3>2 DEF RunnerReconciles
    <3> QED
      BY <1>2, <3>1, <3>3 DEF Runner
  <2>3. CASE RunnerRechecks
    <3>1. loop.activeD # "tick"
      BY <1>2, <2>3 DEF RunnerRechecks, Sound, NoSignal
    <3>2. \/ runner' = [runner EXCEPT !.pc = "done", !.signal = FALSE]
          \/ \E pc \in {"read", "done"} : runner' = [runner EXCEPT !.pc = pc]
      BY <2>3 DEF RunnerRechecks
    <3> QED
      BY <1>2, <3>1, <3>2 DEF Runner
  <2> QED
    BY <2>1, <2>2, <2>3
<1>4. Sound(loop', runner')
  <2>1. Agree(loop, runner') /\ NoSignal(loop, runner')
    BY <1>1, <1>2, <1>3 DEF Sound, Agree, NoSignal
  <2> QED
    BY <1>1, <1>2, <1>3, <2>1 DEF Sound
<1>5. /\ faults' \in 0..MaxInputs /\ dtams' \subseteq 1..MaxUid
      /\ cr' \in [uid : 0..MaxUid, terminating : BOOLEAN]
      /\ inbox' \subseteq {"deployment"} \union SyncRuns
  <2>1. CASE RunnerReads \/ RunnerRechecks
    BY <1>2, <2>1, FaultBounded DEF RunnerReads, RunnerRechecks, k8sVars, TypeOK
  <2>2. CASE RunnerReconciles
    <3>1. RowsAfter(runner.seen) \subseteq 1..MaxUid
      <4>1. runner.seen.uid \in 0..MaxUid
        BY <1>2
      <4>2. runner.seen.uid # 0 => runner.seen.uid \in 1..MaxUid
        BY <4>1, BoundsAssumption
      <4> QED
        BY <4>2 DEF RowsAfter, isGitOpsDeploymentDeleted
    <3>2. dtams' \subseteq 1..MaxUid
      BY <1>2, <2>2, <3>1 DEF RunnerReconciles, TypeOK
    <3>3. faults' \in 0..MaxInputs
      BY <1>2, <2>2, FaultBounded DEF RunnerReconciles, TypeOK
    <3>4. /\ cr' \in {cr, NoCR} /\ inbox' \in {inbox, inbox \union {"deployment"}}
      BY <2>2 DEF RunnerReconciles, RemoveFinalizer
    <3>5. NoCR \in [uid : 0..MaxUid, terminating : BOOLEAN]
      BY BoundsAssumption DEF NoCR
    <3> QED
      BY <1>2, <3>2, <3>3, <3>4, <3>5 DEF TypeOK
  <2> QED
    BY <2>1, <2>2
<1>6. TypeOK'
  BY <1>1, <1>2, <1>3, <1>5 DEF TypeOK
<1>7. LoopInv'
  BY <1>4 DEF LoopInv, Sound, Agree, Ticking, NoSignal, Ticks
<1> QED
  BY <1>6, <1>7 DEF IInv

\* The steps together.
LEMMA NextStep ==
  ASSUME IInv, [Next]_vars
  PROVE  IInv'
<1>1. CASE UNCHANGED vars
  <2>1. TypeOK'
    BY <1>1 DEF IInv, TypeOK, vars
  <2> QED
    BY <1>1, <2>1, OtherStep DEF vars
<1>2. CASE Next
  BY <1>2, NamespaceStep, WorkspaceStep, TickStep, EnvStep, WorkCompleteStep, SyncCompleteStep,
     RunnerStep DEF Next
<1> QED
  BY <1>1, <1>2

\* The invariant holds at the start.
LEMMA InitStep ==
  ASSUME Init
  PROVE  IInv
<1>1. NoLoop \in Loop /\ NewRunner \in Runner
  BY NewLoopSound DEF NoLoop, Sound, Loop
<1>2. NoCR \in [uid : 0..MaxUid, terminating : BOOLEAN] /\ 0 \in 0..MaxUid /\ 0 \in 0..MaxInputs
  BY BoundsAssumption DEF NoCR
<1>3. TypeOK
  BY <1>1, <1>2 DEF Init, TypeOK
<1> QED
  BY <1>3 DEF Init, IInv, LoopInv
-----------------------------------------------------------------------------
\* "Only one deployment event is processed at a time", and there is always exactly one
\* status tick (application_event_loop.go): loop and runner agree on who works and who has
\* ended, in every interleaving of the workspace event loop, the application event loop
\* and its runners.
THEOREM LoopAgreesWithRunner == Spec => []EventLoopInv
<1>1. IInv => EventLoopInv
  <2> SUFFICES ASSUME IInv
               PROVE  EventLoopInv
    OBVIOUS
  <2>1. CASE Sound(loop, runner)
    BY <2>1 DEF IInv, Sound, Agree, Ticking, Ticks, EventLoopInv, RunnerMatchesLoop, OneTick,
                TicksInQueue
  <2>2. CASE loop = NoLoop /\ runner = NewRunner
    BY <2>2 DEF IInv, NoLoop, NewLoop, NewRunner, EventLoopInv, RunnerMatchesLoop, OneTick
  <2> QED
    BY <2>1, <2>2 DEF IInv, LoopInv
<1>2. Init => IInv
  BY InitStep
<1>3. IInv /\ [Next]_vars => IInv'
  BY NextStep
<1> QED
  BY <1>1, <1>2, <1>3, PTL DEF Spec

\* The application event loop never sends to a runner that does not receive, and so does
\* not block the workspace event loop (application_event_loop.go).
THEOREM LoopNeverBlocks == Spec => []NeverStuck
<1>1. IInv => NeverStuck
  BY DEF IInv, LoopInv, Sound, NoLoop, NewLoop, NeverStuck
<1>2. Init => IInv
  BY InitStep
<1>3. IInv /\ [Next]_vars => IInv'
  BY NextStep
<1> QED
  BY <1>1, <1>2, <1>3, PTL DEF Spec

\* An orphaned SyncRun whose GitOpsDeployment exists is about to be taken up again, as
\* long as no call fails (workspace_event_loop.go, unorphanResourcesIfPossible).
THEOREM OrphansTakenUp == Spec => []OrphansAreWatched
<1>1. Init => OrphansAreWatched
  BY DEF Init, OrphansAreWatched
<1>2. IInv /\ OrphansAreWatched /\ [Next]_vars => OrphansAreWatched'
  <2> SUFFICES ASSUME IInv, OrphansAreWatched, [Next]_vars,
                      orphaned' # {}, cr'.uid # 0, faults' = 0
               PROVE  "deployment" \in inbox'
    BY DEF OrphansAreWatched
  <2>1. TypeOK /\ \A s \in SyncRuns : s # "deployment"
    BY SyncRunsAssumption DEF IInv
  <2>2. Fault => FALSE
    BY <2>1, FaultBounded
  <2>3. ASSUME orphaned' = orphaned, cr' = cr, faults' = faults,
               "deployment" \in inbox => "deployment" \in inbox'
        PROVE  "deployment" \in inbox'
    BY <2>3 DEF OrphansAreWatched
  <2>4. CASE CreateDeployment \/ DeleteDeployment \/ DeploymentGone
    BY <2>4 DEF CreateDeployment, DeleteDeployment, DeploymentGone
  <2>5. CASE Resync \/ \E s \in SyncRuns : ChangeSyncRun(s)
    BY <2>3, <2>5 DEF Resync, ChangeSyncRun, k8sVars
  <2>6. CASE HandleDeploymentEvent
    <3>1. orphaned' = orphaned \ Unorphaned /\ UNCHANGED cr
      BY <2>2, <2>6 DEF HandleDeploymentEvent, k8sVars
    <3>2. orphaned' = {}
      BY <3>1 DEF Unorphaned
    <3> QED
      BY <3>2
  <2>7. ASSUME NEW s \in SyncRuns, HandleSyncRunEvent(s)
        PROVE  "deployment" \in inbox'
    <3>1. UNCHANGED cr
      BY <2>7 DEF HandleSyncRunEvent, k8sVars
    <3>2. inbox \ {s} \subseteq inbox' /\ orphaned' = orphaned /\ faults' = faults
      <4>1. CASE PassToApplication(s, inbox \ {s}) /\ UNCHANGED <<orphaned, faults>>
        BY <4>1 DEF PassToApplication
      <4>2. CASE inbox' = inbox \ {s} /\ UNCHANGED <<orphaned, faults>>
        BY <4>2
      <4> QED
        BY <2>2, <2>7, <3>1, <4>1, <4>2 DEF HandleSyncRunEvent
    <3> QED
      BY <2>1, <2>3, <3>1, <3>2
  <2>8. CASE handleManagedEnvProcessedMessage \/ handleStatusTickerMessage \/ ReceiveTick
             \/ ReceiveManagedEnvironment \/ ReceiveWorkCompleteD \/ ReceiveWorkCompleteS
    BY <2>3, <2>8 DEF handleManagedEnvProcessedMessage, handleStatusTickerMessage, ReceiveTick,
       ReceiveManagedEnvironment, ReceiveWorkCompleteD, ReceiveWorkCompleteS, k8sVars
  <2>9. CASE RunnerReads \/ RunnerRechecks
    BY <2>2, <2>3, <2>9 DEF RunnerReads, RunnerRechecks, k8sVars
  <2>10. CASE RunnerReconciles
    <3>1. orphaned' = orphaned /\ faults' = faults
      BY <2>2, <2>10 DEF RunnerReconciles
    <3>2. (cr' = cr /\ inbox' = inbox) \/ "deployment" \in inbox'
      BY <2>10 DEF RunnerReconciles, RemoveFinalizer
    <3> QED
      BY <2>3, <3>1, <3>2
  <2>11. ASSUME NEW u \in 1..MaxUid, CleanOrphanedRows(u)
         PROVE  "deployment" \in inbox'
    BY <2>3, <2>11 DEF CleanOrphanedRows, k8sVars
  <2>12. CASE UNCHANGED vars
    BY <2>3, <2>12 DEF vars
  <2> QED
    BY <2>4, <2>5, <2>6, <2>7, <2>8, <2>9, <2>10, <2>11, <2>12 DEF Next
<1>3. Init => IInv
  BY InitStep
<1>4. IInv /\ [Next]_vars => IInv'
  BY NextStep
<1> QED
  BY <1>1, <1>2, <1>3, <1>4, PTL DEF Spec

-----------------------------------------------------------------------------
(* SyncRun                                                                 *)

\* A task works on the row its operation is on; a task that waits starts from the
\* beginning; a row for which a sync is terminated is not wanted any more.
TasksFit ==
  /\ \A t \in tasks \union waiting, o \in ops : o.id = t.op => o.row = t.row
  /\ \A t \in waiting : t.pc = "load"
  /\ \A t \in tasks, r \in rows : t.pc = "terminate" /\ r.id = t.row => r.want = "Terminated"

\* The SyncRun there is has a mapping and a row with its revision.
Accepted == \E m \in mappings, r \in rows : m.uid = run.uid /\ m.row = r.id /\ r.rev = run.rev

\* What the runner has made so far is still there, as long as nothing new is heard of the
\* SyncRun.
RunnerFits ==
  /\ runner.run # None <=> runner.pc \in {"row", "mapping", "op", "poll"}
  /\ runner.pc \notin {"idle", "row"} => runner.row \in Y!Id
  /\ runner.pc # "idle" /\ ~event => run = runner.run
  /\ \A m, n \in mappings : m.row = n.row => m = n
  /\ runner.pc = "mapping" =>
       /\ \E r \in rows : r.id = runner.row /\ r.rev = runner.run.rev
       /\ \A m \in mappings : m.row # runner.row
  /\ ~event /\ run # None /\ runner.pc \in {"idle", "op", "poll"} => Accepted

\* the foreign key of SyncOperation
ForeignKey == \A r \in rows : r.app => app

SyncRunIInv == Y!TypeOK /\ ForeignKey /\ TasksFit /\ Y!CompletedIsSynced /\ RunnerFits
-----------------------------------------------------------------------------
(* Facts about the operators                                               *)

LEMMA FreshUid ==
  ASSUME Y!FreeUids # {}
  PROVE  Y!NewUid \in Y!Uid
  BY DEF Y!FreeUids, Y!NewUid

\* A new row is one that no mapping, operation or task knows.
LEMMA FreshRow ==
  ASSUME Y!FreeRowIds # {}
  PROVE  /\ Y!NewRowId \in Y!Id
         /\ \A r \in rows : r.id # Y!NewRowId
         /\ \A m \in mappings : m.row # Y!NewRowId
         /\ \A o \in ops : o.row # Y!NewRowId
         /\ \A t \in tasks \union waiting : t.row # Y!NewRowId
<1>1. Y!NewRowId \in Y!FreeRowIds
  BY DEF Y!NewRowId
<1> QED
  BY <1>1 DEF Y!FreeRowIds

LEMMA FreshOp ==
  ASSUME Y!FreeOpIds # {}
  PROVE  /\ Y!NewOpId \in Y!Id
         /\ \A o \in ops : o.id # Y!NewOpId
         /\ \A t \in tasks \union waiting : t.op # Y!NewOpId
<1>1. Y!NewOpId \in Y!FreeOpIds
  BY DEF Y!NewOpId
<1> QED
  BY <1>1 DEF Y!FreeOpIds

LEMMA InputBounded ==
  ASSUME Y!TypeOK, Y!Input
  PROVE  inputs' \in 0..MaxInputs
  BY BoundsAssumption DEF Y!TypeOK, Y!Input

LEMMA IdleTyped ==
  /\ Y!IdleRunner \in [pc : {"idle"}, run : {None}, row : {0}, op : {0}]
  /\ Y!IdleRunner.pc = "idle" /\ Y!IdleRunner.run = None /\ Y!IdleRunner.row = 0
  BY DEF Y!IdleRunner

\* A task that ends or is retried writes the state of its operation, and nothing else.
LEMMA StateSet ==
  ASSUME Y!TypeOK, NEW id, NEW state \in {"In_Progress", "Completed", "Failed"}, Y!SetState(id, state)
  PROVE  /\ ops' \subseteq Y!Operation
         /\ \A p \in ops' : \E o \in ops : /\ o.id = p.id /\ o.row = p.row
                                           /\ p = o \/ (o.id = id /\ p.state = state)
         /\ \A o, p \in ops' : o.id = p.id => o = p
<1>1. \A o \in ops : [o EXCEPT !.state = state] \in Y!Operation
                     /\ [o EXCEPT !.state = state].id = o.id
                     /\ [o EXCEPT !.state = state].row = o.row
                     /\ [o EXCEPT !.state = state].state = state
  BY DEF Y!TypeOK, Y!Operation
<1>2. \A p \in ops' : \E o \in ops :
        p = IF o.id = id /\ ~Y!Ended(id) THEN [o EXCEPT !.state = state] ELSE o
  BY DEF Y!SetState
<1>3. ops' \subseteq Y!Operation
  BY <1>1, <1>2 DEF Y!TypeOK
<1>4. \A p \in ops' : \E o \in ops : /\ o.id = p.id /\ o.row = p.row
                                     /\ p = o \/ (o.id = id /\ p.state = state)
  BY <1>1, <1>2
<1>5. ASSUME NEW p \in ops', NEW q \in ops', p.id = q.id
      PROVE  p = q
  <2>1. PICK o \in ops : p = IF o.id = id /\ ~Y!Ended(id) THEN [o EXCEPT !.state = state] ELSE o
    BY <1>2
  <2>2. PICK x \in ops : q = IF x.id = id /\ ~Y!Ended(id) THEN [x EXCEPT !.state = state] ELSE x
    BY <1>2
  <2>3. p.id = o.id /\ q.id = x.id
    BY <1>1, <2>1, <2>2
  <2>4. o = x
    BY <1>5, <2>3 DEF Y!TypeOK
  <2> QED
    BY <2>1, <2>2, <2>4
<1> QED
  BY <1>3, <1>4, <1>5

\* What is added is the task, at most.
LEMMA Added ==
  ASSUME NEW t
  PROVE  Y!Add(t) \subseteq waiting \union {t}
  BY DEF Y!Add

-----------------------------------------------------------------------------
(* Steps of users and of the deployment runner                             *)

\* A user changes the SyncRun, and the runner hears of it.
LEMMA RunChanges ==
  ASSUME SyncRunIInv, Y!CreateRun \/ Y!ChangeRevision \/ Y!DeleteRun
  PROVE  SyncRunIInv'
<1>1. run' \in Y!Run \union {None}
  <2>1. CASE Y!CreateRun
    BY <2>1, FreshUid DEF Y!CreateRun, Y!Run
  <2>2. CASE Y!ChangeRevision
    <3>1. run \in Y!Run /\ run' = [run EXCEPT !.rev = 3 - @]
      BY <2>2 DEF SyncRunIInv, Y!TypeOK, Y!ChangeRevision
    <3>2. 3 - run.rev \in 1..2
      BY <3>1 DEF Y!Run
    <3> QED
      BY <3>1, <3>2 DEF Y!Run
  <2>3. CASE Y!DeleteRun
    BY <2>3 DEF Y!DeleteRun
  <2> QED
    BY <2>1, <2>2, <2>3
<1>2. /\ UNCHANGED <<depl, dtam, app, rows, mappings, ops, runner, notices, waiting, tasks, argo, done, gaveUp>>
      /\ event' = TRUE /\ cond' \in {"none", "ok", "error"}
  BY DEF SyncRunIInv, Y!TypeOK, Y!CreateRun, Y!ChangeRevision, Y!DeleteRun, Y!db, Y!agent
<1>3. inputs' \in 0..MaxInputs
  BY InputBounded DEF SyncRunIInv, Y!CreateRun, Y!ChangeRevision, Y!DeleteRun
<1>4. Y!TypeOK' /\ ForeignKey'
  BY <1>1, <1>2, <1>3 DEF SyncRunIInv, Y!TypeOK, ForeignKey
<1>5. TasksFit' /\ Y!CompletedIsSynced'
  BY <1>2 DEF SyncRunIInv, TasksFit, Y!CompletedIsSynced
<1>6. RunnerFits'
  BY <1>2 DEF SyncRunIInv, RunnerFits
<1> QED
  BY <1>4, <1>5, <1>6 DEF SyncRunIInv

LEMMA DeploymentChanges ==
  ASSUME SyncRunIInv, NEW type \in {"manual", "auto", "gone"}, Y!ChangeDeployment(type)
  PROVE  SyncRunIInv'
<1>1. /\ UNCHANGED <<run, cond, dtam, app, rows, mappings, ops, event, runner, notices, waiting,
                     tasks, argo, done, gaveUp>>
      /\ depl' \in {"manual", "auto", "gone"} /\ inputs' \in 0..MaxInputs
  BY InputBounded DEF SyncRunIInv, Y!ChangeDeployment, Y!db, Y!agent
<1>2. Y!TypeOK' /\ ForeignKey'
  BY <1>1 DEF SyncRunIInv, Y!TypeOK, ForeignKey
<1>3. TasksFit' /\ Y!CompletedIsSynced'
  BY <1>1 DEF SyncRunIInv, TasksFit, Y!CompletedIsSynced
<1>4. RunnerFits'
  BY <1>1 DEF SyncRunIInv, RunnerFits, Accepted
<1> QED
  BY <1>2, <1>3, <1>4 DEF SyncRunIInv

\* What a change of the rows may do that keeps each row with its id and its revision, and
\* at most withdraws it.
Rewritten ==
  /\ rows' \subseteq Y!Row
  /\ \A s \in rows' : \E r \in rows : /\ s.id = r.id /\ s.rev = r.rev
                                      /\ s.want = r.want \/ s.want = "Terminated"
  /\ \A r \in rows : \E s \in rows' : s.id = r.id /\ s.rev = r.rev

LEMMA RewrittenFits ==
  ASSUME SyncRunIInv, Rewritten,
         UNCHANGED <<run, mappings, ops, event, waiting, tasks, done>>
  PROVE  /\ TasksFit' /\ Y!CompletedIsSynced'
         /\ Accepted => Accepted'
         /\ \A i, v : (\E r \in rows : r.id = i /\ r.rev = v) => \E r \in rows' : r.id = i /\ r.rev = v
<1>1. TasksFit'
  BY DEF SyncRunIInv, TasksFit, Rewritten
<1>2. Y!CompletedIsSynced'
  BY DEF SyncRunIInv, Y!CompletedIsSynced, Rewritten
<1>3. Accepted => Accepted'
  BY DEF Accepted, Rewritten
<1> QED
  BY <1>1, <1>2, <1>3 DEF Rewritten

LEMMA ApplicationDetached ==
  ASSUME SyncRunIInv, Y!DetachApplication
  PROVE  SyncRunIInv'
<1>1. /\ UNCHANGED <<run, depl, cond, app, mappings, ops, event, runner, notices, waiting, tasks,
                     argo, done, gaveUp, inputs>>
      /\ dtam' \in BOOLEAN /\ rows' = {[r EXCEPT !.app = FALSE] : r \in rows}
  BY DEF Y!DetachApplication, Y!user, Y!agent
<1>2. \A r \in rows : /\ [r EXCEPT !.app = FALSE] \in Y!Row
                      /\ [r EXCEPT !.app = FALSE].id = r.id /\ [r EXCEPT !.app = FALSE].rev = r.rev
                      /\ [r EXCEPT !.app = FALSE].want = r.want
                      /\ [r EXCEPT !.app = FALSE].app = FALSE
  <2> SUFFICES ASSUME NEW r \in rows
               PROVE  /\ [r EXCEPT !.app = FALSE] \in Y!Row
                      /\ [r EXCEPT !.app = FALSE].id = r.id /\ [r EXCEPT !.app = FALSE].rev = r.rev
                      /\ [r EXCEPT !.app = FALSE].want = r.want
                      /\ [r EXCEPT !.app = FALSE].app = FALSE
    OBVIOUS
  <2>1. r \in [id : Y!Id, rev : 1..2, app : BOOLEAN, want : {"Running", "Terminated"}]
    BY DEF SyncRunIInv, Y!TypeOK, Y!Row
  <2> QED
    BY <2>1 DEF Y!Row
<1>3. Rewritten /\ \A s \in rows' : s.app = FALSE
  BY <1>1, <1>2 DEF Rewritten
<1>4. \A r, s \in rows' : r.id = s.id => r = s
  <2> SUFFICES ASSUME NEW r \in rows', NEW s \in rows', r.id = s.id
               PROVE  r = s
    OBVIOUS
  <2>1. PICK x \in rows : r = [x EXCEPT !.app = FALSE]
    BY <1>1
  <2>2. PICK y \in rows : s = [y EXCEPT !.app = FALSE]
    BY <1>1
  <2>3. x = y
    BY <1>2, <2>1, <2>2 DEF SyncRunIInv, Y!TypeOK
  <2> QED
    BY <2>1, <2>2, <2>3
<1>5. ForeignKey'
  BY <1>3 DEF ForeignKey
<1>6. rows' \subseteq Y!Row
  BY <1>3 DEF Rewritten
<1>7. Y!TypeOK'
  BY <1>1, <1>4, <1>6 DEF SyncRunIInv, Y!TypeOK
<1>8. TasksFit' /\ Y!CompletedIsSynced' /\ RunnerFits'
  BY <1>1, <1>3, RewrittenFits DEF SyncRunIInv, RunnerFits
<1> QED
  BY <1>5, <1>7, <1>8 DEF SyncRunIInv

LEMMA ApplicationDeleted ==
  ASSUME SyncRunIInv, Y!DeleteApplication
  PROVE  SyncRunIInv'
<1>1. /\ UNCHANGED <<run, depl, cond, dtam, rows, mappings, ops, event, runner, notices, waiting,
                     tasks, done, gaveUp, inputs>>
      /\ app' \in BOOLEAN /\ argo' = None
  BY DEF Y!DeleteApplication, Y!user, Y!agent
<1>2. ForeignKey'
  BY Zenon DEF ForeignKey, Y!DeleteApplication
<1>3. Y!TypeOK'
  BY <1>1 DEF SyncRunIInv, Y!TypeOK
<1>4. TasksFit' /\ Y!CompletedIsSynced'
  BY <1>1 DEF SyncRunIInv, TasksFit, Y!CompletedIsSynced
<1>5. RunnerFits'
  BY <1>1 DEF SyncRunIInv, RunnerFits, Accepted
<1> QED
  BY <1>2, <1>3, <1>4, <1>5 DEF SyncRunIInv

-----------------------------------------------------------------------------
(* Steps of the SyncRun runner                                             *)

\* The runner is back in its loop: what must hold of it then.
LEMMA Idles ==
  ASSUME runner' = Y!IdleRunner, \A m, n \in mappings' : m.row = n.row => m = n,
         event' \/ run' = None \/ Accepted'
  PROVE  RunnerFits'
  BY IdleTyped DEF RunnerFits

LEMMA Returned ==
  ASSUME SyncRunIInv, NEW result \in {"ok", "error"}, NEW more \in BOOLEAN, Y!ReturnWith(result, more)
  PROVE  /\ runner' = Y!IdleRunner /\ cond' \in {"none", "ok", "error"} /\ event' \in BOOLEAN
         /\ more => event'
         /\ result = "error" => event' \/ run = None
<1>1. runner' = Y!IdleRunner /\ cond' \in {"none", "ok", "error"}
  BY DEF SyncRunIInv, Y!TypeOK, Y!ReturnWith
<1>2. event' = (more \/ (result = "error" /\ run # None))
  BY DEF Y!ReturnWith
<1>3. event' \in BOOLEAN /\ (more => event') /\ (result = "error" => event' \/ run = None)
  BY <1>2, Zenon
<1> QED
  BY <1>1, <1>3

LEMMA ReturnTyped ==
  Y!IdleRunner \in [pc : {"idle", "row", "mapping", "op", "poll", "terminate", "terminateOp", "wait",
                        "purge", "unmap"},
                  run : Y!Run \union {None}, row : Y!Id \union {0}, op : Y!Id \union {0}]
  BY DEF Y!IdleRunner

\* A call that failed, or an event that could not be handled.
LEMMA ReturnsError ==
  ASSUME SyncRunIInv, Y!Return("error"), run' = run,
         mappings' \subseteq mappings
  PROVE  /\ RunnerFits'
         /\ runner' = Y!IdleRunner /\ cond' \in {"none", "ok", "error"} /\ event' \in BOOLEAN
<1>1. /\ runner' = Y!IdleRunner /\ cond' \in {"none", "ok", "error"} /\ event' \in BOOLEAN
      /\ event' \/ run = None
  BY Returned DEF SyncRunIInv, Y!TypeOK, Y!Return
<1>2. \A m, n \in mappings' : m.row = n.row => m = n
  BY DEF SyncRunIInv, RunnerFits
<1>3. RunnerFits'
  BY <1>1, <1>2, Idles
<1> QED
  BY <1>1, <1>3

LEMMA EventStarted ==
  ASSUME SyncRunIInv, Y!StartEvent
  PROVE  SyncRunIInv'
<1> DEFINE ms == Y!MappingsOf(run)
<1> DEFINE old == {r \in rows : \E m \in ms : m.row = r.id}
<1> DEFINE Found == [Y!IdleRunner EXCEPT
                       !.run = run,
                       !.row = IF run = None THEN (CHOOSE r \in old : TRUE).id ELSE 0,
                       !.pc = IF run # None THEN "row"
                              ELSE IF \E r \in old : r.app THEN "terminate" ELSE "purge"]
<1>1. /\ UNCHANGED <<run, depl, dtam, app, rows, mappings, ops, notices, waiting, tasks, argo, done,
                     gaveUp, inputs>>
      /\ runner.pc = "idle"
  BY DEF Y!StartEvent, Y!user, Y!db, Y!agent
<1>2. TasksFit' /\ Y!CompletedIsSynced' /\ ForeignKey'
  BY <1>1 DEF SyncRunIInv, TasksFit, Y!CompletedIsSynced, ForeignKey
<1>3. \A m, n \in mappings' : m.row = n.row => m = n
  BY <1>1 DEF SyncRunIInv, RunnerFits
<1>4. ASSUME NEW result \in {"ok", "error"}, Y!Handled(result),
             result = "ok" /\ run # None => Accepted
      PROVE  SyncRunIInv'
  <2>1. /\ runner' = Y!IdleRunner /\ cond' \in {"none", "ok", "error"} /\ event' \in BOOLEAN
        /\ result = "error" => event' \/ run = None
    BY <1>4, Returned DEF Y!Handled
  <2>2. Accepted => Accepted'
    BY <1>1 DEF Accepted
  <2>3. event' \/ run' = None \/ Accepted'
    BY <1>1, <1>4, <2>1, <2>2
  <2>4. RunnerFits'
    BY <1>3, <2>1, <2>3, Idles
  <2>5. Y!TypeOK'
    BY <1>1, <2>1, ReturnTyped DEF SyncRunIInv, Y!TypeOK
  <2> QED
    BY <1>2, <2>4, <2>5 DEF SyncRunIInv
<1>5. ASSUME event' = FALSE, UNCHANGED cond, runner' = Found, run = None => old # {}
      PROVE  SyncRunIInv'
  <2>1. run = None => (CHOOSE r \in old : TRUE).id \in Y!Id
    <3>1. run = None => (CHOOSE r \in old : TRUE) \in rows
      BY <1>5
    <3> QED
      BY <3>1 DEF SyncRunIInv, Y!TypeOK, Y!Row
  <2>2. /\ Found \in [pc : {"idle", "row", "mapping", "op", "poll", "terminate", "terminateOp", "wait",
                            "purge", "unmap"},
                      run : Y!Run \union {None}, row : Y!Id \union {0}, op : Y!Id \union {0}]
        /\ Found.run = run
        /\ run # None => Found.pc = "row"
        /\ run = None => Found.pc \in {"terminate", "purge"} /\ Found.row \in Y!Id
    <3>1. run \in Y!Run \union {None}
      BY DEF SyncRunIInv, Y!TypeOK
    <3> DEFINE row == IF run = None THEN (CHOOSE r \in old : TRUE).id ELSE 0
               pc == IF run # None THEN "row"
                     ELSE IF \E r \in old : r.app THEN "terminate" ELSE "purge"
    <3>2. /\ row \in Y!Id \union {0} /\ pc \in {"row", "terminate", "purge"}
          /\ run # None => pc = "row"
          /\ run = None => pc \in {"terminate", "purge"} /\ row \in Y!Id
      BY <2>1
    <3>3. Found = [Y!IdleRunner EXCEPT !.run = run, !.row = row, !.pc = pc]
      OBVIOUS
    <3> HIDE DEF row, pc, Found
    <3> QED
      BY <3>1, <3>2, <3>3 DEF Y!IdleRunner
  <2> HIDE DEF Found
  <2>3. Y!TypeOK'
    BY <1>1, <1>5, <2>2 DEF SyncRunIInv, Y!TypeOK
  <2>4. RunnerFits'
    BY <1>1, <1>3, <1>5, <2>2 DEF RunnerFits
  <2> QED
    BY <1>2, <2>3, <2>4 DEF SyncRunIInv
<1>6. CASE ms = {} /\ run = None
  BY <1>4, <1>6 DEF Y!StartEvent
<1>7. CASE ~(ms = {} /\ run = None) /\ (Y!Inconsistent \/ (run # None /\ (depl # "manual" \/ ~dtam)))
  BY <1>4, <1>7 DEF Y!StartEvent
<1>8. CASE /\ ~(Y!Inconsistent \/ (run # None /\ (depl # "manual" \/ ~dtam)))
           /\ run # None /\ ms # {}
  <2>1. \A m \in ms : Y!RowOf(m.row) # {}
    BY <1>8 DEF Y!Inconsistent
  <2>2. PICK m \in ms : TRUE
    BY <1>8
  <2>3. m \in mappings /\ m.uid = run.uid
    BY <1>8, <2>2 DEF Y!MappingsOf
  <2>4. PICK r \in rows : r.id = m.row
    BY <2>1, <2>2 DEF Y!RowOf
  <2>5. CASE \A s \in old : Y!Immutable(s)
    <3>1. r.rev = run.rev
      BY <2>2, <2>4, <2>5 DEF Y!Immutable
    <3>2. Accepted
      BY <2>3, <2>4, <3>1 DEF Accepted
    <3>3. Y!Handled("ok")
      BY <1>8, <2>5 DEF Y!StartEvent
    <3> QED
      BY <1>4, <3>2, <3>3
  <2>6. CASE ~\A s \in old : Y!Immutable(s)
    <3>1. Y!Handled("error")
      BY <1>8, <2>6 DEF Y!StartEvent
    <3> QED
      BY <1>4, <3>1
  <2> QED
    BY <2>5, <2>6
<1>9. CASE /\ ~(ms = {} /\ run = None)
           /\ ~(Y!Inconsistent \/ (run # None /\ (depl # "manual" \/ ~dtam)))
           /\ ~(run # None /\ ms # {})
  <2>1. event' = FALSE /\ UNCHANGED cond /\ runner' = Found
    BY <1>9 DEF Y!StartEvent
  <2>2. run = None => old # {}
    <3> SUFFICES ASSUME run = None
                 PROVE  old # {}
      OBVIOUS
    <3>1. PICK m \in ms : Y!RowOf(m.row) # {}
      BY <1>9 DEF Y!Inconsistent
    <3> QED
      BY <3>1 DEF Y!RowOf
  <2> QED
    BY <1>5, <2>1, <2>2
<1> QED
  BY <1>6, <1>7, <1>8, <1>9

LEMMA RowCreated ==
  ASSUME SyncRunIInv, Y!CreateRow
  PROVE  SyncRunIInv'
<1>1. /\ UNCHANGED <<run, depl, dtam, app, mappings, ops, notices, waiting, tasks, argo, done,
                     gaveUp, inputs>>
      /\ runner.pc = "row"
  BY DEF Y!CreateRow, Y!user, Y!agent
<1>2. CASE app
  <2> DEFINE new == [id |-> Y!NewRowId, rev |-> runner.run.rev, app |-> TRUE, want |-> "Running"]
  <2>1. /\ Y!FreeRowIds # {} /\ rows' = rows \union {new}
        /\ runner' = [runner EXCEPT !.pc = "mapping", !.row = Y!NewRowId]
        /\ UNCHANGED <<cond, event>>
    BY <1>2 DEF Y!CreateRow
  <2>2. runner.run \in Y!Run
    BY <1>1 DEF SyncRunIInv, Y!TypeOK, RunnerFits
  <2>3. Y!NewRowId \in Y!Id /\ runner.run.rev \in 1..2
    BY <2>1, <2>2, FreshRow DEF Y!Run
  <2>4. new \in Y!Row /\ new.id = Y!NewRowId /\ new.rev = runner.run.rev /\ new.want = "Running"
    BY <2>3 DEF Y!Row
  <2> HIDE DEF new
  <2>5. /\ runner' \in [pc : {"mapping"}, run : Y!Run, row : Y!Id, op : Y!Id \union {0}]
        /\ runner'.pc = "mapping" /\ runner'.run = runner.run /\ runner'.row = Y!NewRowId
    BY <2>1, <2>2, <2>3 DEF SyncRunIInv, Y!TypeOK
  <2>6. Y!TypeOK'
    <3>1. \A r, s \in rows' : r.id = s.id => r = s
      BY <2>1, <2>4, FreshRow DEF SyncRunIInv, Y!TypeOK
    <3>2. rows' \subseteq Y!Row
      BY <2>1, <2>4 DEF SyncRunIInv, Y!TypeOK
    <3> QED
      BY <1>1, <2>1, <2>5, <3>1, <3>2 DEF SyncRunIInv, Y!TypeOK
  <2>7. ForeignKey'
    BY <1>1, <1>2 DEF ForeignKey
  <2>8. TasksFit' /\ Y!CompletedIsSynced'
    BY <1>1, <2>1, <2>4, FreshRow DEF SyncRunIInv, TasksFit, Y!CompletedIsSynced
  <2>9. RunnerFits'
    <3>1. \A m \in mappings : m.row # Y!NewRowId
      BY <2>1, FreshRow
    <3>2. new \in rows'
      BY <2>1
    <3>3. runner'.run # None
      BY <1>1, <2>5 DEF SyncRunIInv, RunnerFits
    <3>4. ~event' => run' = runner'.run
      BY <1>1, <2>1, <2>5 DEF SyncRunIInv, RunnerFits
    <3>5. \A m, n \in mappings' : m.row = n.row => m = n
      BY <1>1 DEF SyncRunIInv, RunnerFits
    <3> QED
      BY <1>1, <2>3, <2>4, <2>5, <3>1, <3>2, <3>3, <3>4, <3>5 DEF RunnerFits
  <2> QED
    BY <2>6, <2>7, <2>8, <2>9 DEF SyncRunIInv
<1>3. CASE ~app
  <2>1. Y!Return("error") /\ UNCHANGED rows
    BY <1>3 DEF Y!CreateRow
  <2>2. /\ RunnerFits' /\ runner' = Y!IdleRunner /\ cond' \in {"none", "ok", "error"}
        /\ event' \in BOOLEAN
    BY <1>1, <2>1, ReturnsError
  <2>3. Y!TypeOK'
    BY <1>1, <2>1, <2>2, ReturnTyped DEF SyncRunIInv, Y!TypeOK
  <2>4. TasksFit' /\ Y!CompletedIsSynced' /\ ForeignKey'
    BY <1>1, <2>1 DEF SyncRunIInv, TasksFit, Y!CompletedIsSynced, ForeignKey
  <2> QED
    BY <2>2, <2>3, <2>4 DEF SyncRunIInv
<1> QED
  BY <1>2, <1>3

LEMMA MappingCreated ==
  ASSUME SyncRunIInv, Y!CreateMapping
  PROVE  SyncRunIInv'
<1> DEFINE new == [uid |-> runner.run.uid, row |-> runner.row]
<1>1. /\ UNCHANGED <<run, depl, cond, dtam, app, rows, ops, event, notices, waiting, tasks, argo,
                     done, gaveUp, inputs>>
      /\ runner.pc = "mapping" /\ mappings' = mappings \union {new}
      /\ runner' = [runner EXCEPT !.pc = "op"]
  BY DEF Y!CreateMapping, Y!user, Y!agent
<1>2. runner.run \in Y!Run /\ runner.row \in Y!Id
  BY <1>1 DEF SyncRunIInv, Y!TypeOK, RunnerFits
<1>3. new \in Y!Mapping /\ new.uid = runner.run.uid /\ new.row = runner.row
  BY <1>2 DEF Y!Run, Y!Mapping
<1> HIDE DEF new
<1>4. /\ runner' \in [pc : {"op"}, run : Y!Run, row : Y!Id, op : Y!Id \union {0}]
      /\ runner'.pc = "op" /\ runner'.run = runner.run /\ runner'.row = runner.row
  BY <1>1, <1>2 DEF SyncRunIInv, Y!TypeOK
<1>5. Y!TypeOK'
  <2>1. mappings' \subseteq Y!Mapping
    BY <1>1, <1>3 DEF SyncRunIInv, Y!TypeOK
  <2> QED
    BY <1>1, <1>4, <2>1 DEF SyncRunIInv, Y!TypeOK
<1>6. TasksFit' /\ Y!CompletedIsSynced' /\ ForeignKey'
  BY <1>1 DEF SyncRunIInv, TasksFit, Y!CompletedIsSynced, ForeignKey
<1>7. RunnerFits'
  <2>1. \A m, n \in mappings' : m.row = n.row => m = n
    BY <1>1, <1>3 DEF SyncRunIInv, RunnerFits
  <2>2. PICK r \in rows : r.id = runner.row /\ r.rev = runner.run.rev
    BY <1>1 DEF SyncRunIInv, RunnerFits
  <2>3. runner'.run # None /\ (~event' => run' = runner'.run)
    BY <1>1, <1>4 DEF SyncRunIInv, RunnerFits
  <2>4. new \in mappings' /\ r \in rows'
    BY <1>1
  <2>5. ~event' => Accepted'
    BY <1>3, <1>4, <2>2, <2>3, <2>4 DEF Accepted
  <2> QED
    BY <1>2, <1>4, <2>1, <2>3, <2>5 DEF RunnerFits
<1> QED
  BY <1>5, <1>6, <1>7 DEF SyncRunIInv

\* Rows, operations and tasks may go at any time.
LEMMA Fewer ==
  ASSUME SyncRunIInv, ops' \subseteq ops, rows' \subseteq rows, waiting' \subseteq waiting,
         tasks' \subseteq tasks, done' = done, app' = app
  PROVE  /\ TasksFit' /\ Y!CompletedIsSynced' /\ ForeignKey'
         /\ ops' \subseteq Y!Operation /\ rows' \subseteq Y!Row
         /\ waiting' \subseteq Y!Task /\ tasks' \subseteq Y!Task
         /\ \A r, s \in rows' : r.id = s.id => r = s
         /\ \A o, p \in ops' : o.id = p.id => o = p
         /\ \A t, u \in tasks' : t.row = u.row => t = u
<1>1. TasksFit'
  BY DEF SyncRunIInv, TasksFit
<1>2. Y!CompletedIsSynced'
  BY DEF SyncRunIInv, Y!CompletedIsSynced
<1>3. ForeignKey'
  BY DEF SyncRunIInv, ForeignKey
<1> QED
  BY <1>1, <1>2, <1>3 DEF SyncRunIInv, Y!TypeOK

LEMMA ReturnsOk ==
  ASSUME SyncRunIInv, Y!Return("ok"), run' = run, mappings' \subseteq mappings,
         ~event /\ run # None => Accepted'
  PROVE  /\ RunnerFits'
         /\ runner' = Y!IdleRunner /\ cond' \in {"none", "ok", "error"} /\ event' \in BOOLEAN
<1>1. /\ runner' = Y!IdleRunner /\ cond' \in {"none", "ok", "error"} /\ event' \in BOOLEAN
      /\ event => event'
  BY Returned DEF SyncRunIInv, Y!TypeOK, Y!Return
<1>2. \A m, n \in mappings' : m.row = n.row => m = n
  BY DEF SyncRunIInv, RunnerFits
<1>3. RunnerFits'
  BY <1>1, <1>2, Idles
<1> QED
  BY <1>1, <1>3

\* CreateOperation makes an operation on the row of the runner, which no task knows yet.
LEMMA OperationCreated ==
  ASSUME SyncRunIInv, NEW wait \in {"poll", "wait"}, NEW next \in {"poll", "purge"}, runner.row \in Y!Id,
         Y!CreateOperation(wait, next),
         UNCHANGED <<rows, waiting, tasks, done>>
  PROVE  /\ ops' \subseteq Y!Operation /\ notices' \subseteq Y!Id
         /\ \A o, p \in ops' : o.id = p.id => o = p
         /\ TasksFit' /\ Y!CompletedIsSynced'
         /\ runner' \in [pc : {"poll", "wait", "purge"}, run : Y!Run \union {None}, row : Y!Id,
                         op : Y!Id \union {0}]
         /\ runner'.pc \in {wait, next} /\ runner'.run = runner.run /\ runner'.row = runner.row
<1> DEFINE same == {o \in ops : o.row = runner.row /\ o.state = "Waiting"}
<1>1. CASE same = {}
  <2> DEFINE new == [id |-> Y!NewOpId, row |-> runner.row, state |-> "Waiting"]
  <2>1. /\ Y!FreeOpIds # {} /\ ops' = ops \union {new} /\ notices' = notices \union {Y!NewOpId}
        /\ runner' = [runner EXCEPT !.pc = wait, !.op = Y!NewOpId]
    BY <1>1 DEF Y!CreateOperation
  <2>2. Y!NewOpId \in Y!Id
    BY <2>1, FreshOp
  <2>3. new \in Y!Operation /\ new.id = Y!NewOpId /\ new.state = "Waiting"
    BY <2>2 DEF Y!Operation
  <2> HIDE DEF new
  <2>4. /\ ops' \subseteq Y!Operation /\ notices' \subseteq Y!Id
        /\ \A o, p \in ops' : o.id = p.id => o = p
    BY <2>1, <2>2, <2>3, FreshOp DEF SyncRunIInv, Y!TypeOK
  <2>5. TasksFit'
    BY <2>1, <2>3, FreshOp DEF SyncRunIInv, TasksFit
  <2>6. Y!CompletedIsSynced'
    BY <2>1, <2>3 DEF SyncRunIInv, Y!CompletedIsSynced
  <2>7. /\ runner' \in [pc : {"poll", "wait", "purge"}, run : Y!Run \union {None}, row : Y!Id,
                        op : Y!Id \union {0}]
        /\ runner'.pc \in {wait, next} /\ runner'.run = runner.run /\ runner'.row = runner.row
    BY <2>1, <2>2 DEF SyncRunIInv, Y!TypeOK
  <2> QED
    BY <2>4, <2>5, <2>6, <2>7
<1>2. CASE same # {}
  <2>1. /\ UNCHANGED <<ops, notices>>
        /\ runner' = [runner EXCEPT !.pc = next, !.op = (CHOOSE o \in same : TRUE).id]
    BY <1>2 DEF Y!CreateOperation
  <2>2. (CHOOSE o \in same : TRUE) \in ops
    BY <1>2
  <2>3. (CHOOSE o \in same : TRUE).id \in Y!Id
    BY <2>2 DEF SyncRunIInv, Y!TypeOK, Y!Operation
  <2> HIDE DEF same
  <2>4. TasksFit' /\ Y!CompletedIsSynced'
    BY <2>1 DEF SyncRunIInv, TasksFit, Y!CompletedIsSynced
  <2>5. /\ runner' \in [pc : {"poll", "wait", "purge"}, run : Y!Run \union {None}, row : Y!Id,
                        op : Y!Id \union {0}]
        /\ runner'.pc \in {wait, next} /\ runner'.run = runner.run /\ runner'.row = runner.row
    BY <2>1, <2>3 DEF SyncRunIInv, Y!TypeOK
  <2> QED
    BY <2>1, <2>4, <2>5 DEF SyncRunIInv, Y!TypeOK
<1> QED
  BY <1>1, <1>2

LEMMA SyncRequested ==
  ASSUME SyncRunIInv, Y!RequestSync
  PROVE  SyncRunIInv'
<1>1. /\ UNCHANGED <<run, depl, cond, dtam, app, rows, mappings, event, waiting, tasks, argo, done,
                     gaveUp, inputs>>
      /\ runner.pc = "op" /\ Y!CreateOperation("poll", "poll")
  BY DEF Y!RequestSync, Y!user, Y!db
<1>2. runner.row \in Y!Id /\ runner.run \in Y!Run
  BY <1>1 DEF SyncRunIInv, Y!TypeOK, RunnerFits
<1>3. /\ ops' \subseteq Y!Operation /\ notices' \subseteq Y!Id
      /\ \A o, p \in ops' : o.id = p.id => o = p
      /\ TasksFit' /\ Y!CompletedIsSynced'
      /\ runner' \in [pc : {"poll", "wait", "purge"}, run : Y!Run \union {None}, row : Y!Id,
                      op : Y!Id \union {0}]
      /\ runner'.pc = "poll" /\ runner'.run = runner.run /\ runner'.row = runner.row
  BY <1>1, <1>2, OperationCreated
<1>4. Y!TypeOK'
  BY <1>1, <1>3 DEF SyncRunIInv, Y!TypeOK
<1>5. ForeignKey'
  BY <1>1 DEF SyncRunIInv, ForeignKey
<1>6. Accepted => Accepted'
  BY <1>1 DEF Accepted
<1>7. RunnerFits'
  BY <1>1, <1>2, <1>3, <1>6 DEF SyncRunIInv, RunnerFits
<1> QED
  BY <1>3, <1>4, <1>5, <1>7 DEF SyncRunIInv

LEMMA OperationPolled ==
  ASSUME SyncRunIInv, Y!PollOperation \/ Y!PollFails
  PROVE  SyncRunIInv'
<1>1. /\ UNCHANGED <<run, depl, dtam, app, rows, mappings, notices, waiting, tasks, argo, done>>
      /\ runner.pc = "poll" /\ ops' = {o \in ops : o.id # runner.op} /\ Y!Return("ok")
  BY DEF Y!PollOperation, Y!PollFails, Y!user, Y!db, Y!agent
<1>2. inputs' \in 0..MaxInputs /\ gaveUp' \in BOOLEAN
  BY InputBounded DEF SyncRunIInv, Y!TypeOK, Y!PollOperation, Y!PollFails
<1>3. ~event /\ run # None => Accepted'
  BY <1>1 DEF SyncRunIInv, RunnerFits, Accepted
<1>4. RunnerFits' /\ runner' = Y!IdleRunner /\ cond' \in {"none", "ok", "error"} /\ event' \in BOOLEAN
  BY <1>1, <1>3, ReturnsOk
<1>5. /\ TasksFit' /\ Y!CompletedIsSynced' /\ ForeignKey' /\ ops' \subseteq Y!Operation
      /\ \A o, p \in ops' : o.id = p.id => o = p
  BY <1>1, Fewer
<1>6. Y!TypeOK'
  BY <1>1, <1>2, <1>4, <1>5, ReturnTyped DEF SyncRunIInv, Y!TypeOK
<1> QED
  BY <1>4, <1>5, <1>6 DEF SyncRunIInv

LEMMA TerminatedSet ==
  ASSUME SyncRunIInv, Y!SetTerminated
  PROVE  SyncRunIInv'
<1>1. /\ UNCHANGED <<run, depl, dtam, app, mappings, ops, notices, waiting, tasks, argo, done,
                     gaveUp, inputs>>
      /\ runner.pc = "terminate"
  BY DEF Y!SetTerminated, Y!user, Y!agent
<1>2. CASE Y!RowOf(runner.row) = {} \/ ~app
  <2>1. Y!Return("error") /\ UNCHANGED rows
    BY <1>2 DEF Y!SetTerminated
  <2>2. /\ RunnerFits' /\ runner' = Y!IdleRunner /\ cond' \in {"none", "ok", "error"}
        /\ event' \in BOOLEAN
    BY <1>1, <2>1, ReturnsError
  <2>3. Y!TypeOK'
    BY <1>1, <2>1, <2>2, ReturnTyped DEF SyncRunIInv, Y!TypeOK
  <2>4. TasksFit' /\ Y!CompletedIsSynced' /\ ForeignKey'
    BY <1>1, <2>1 DEF SyncRunIInv, TasksFit, Y!CompletedIsSynced, ForeignKey
  <2> QED
    BY <2>2, <2>3, <2>4 DEF SyncRunIInv
<1>3. CASE ~(Y!RowOf(runner.row) = {} \/ ~app)
  <2> DEFINE Withdrawn(r) == [r EXCEPT !.app = TRUE, !.want = "Terminated"]
  <2>1. /\ rows' = {IF r.id = runner.row THEN Withdrawn(r) ELSE r : r \in rows}
        /\ runner' = [runner EXCEPT !.pc = "terminateOp"] /\ UNCHANGED <<cond, event>>
    BY <1>3 DEF Y!SetTerminated
  <2>2. \A r \in rows : /\ Withdrawn(r) \in Y!Row /\ Withdrawn(r).id = r.id
                        /\ Withdrawn(r).rev = r.rev /\ Withdrawn(r).want = "Terminated"
    <3> SUFFICES ASSUME NEW r \in rows
                 PROVE  /\ Withdrawn(r) \in Y!Row /\ Withdrawn(r).id = r.id
                        /\ Withdrawn(r).rev = r.rev /\ Withdrawn(r).want = "Terminated"
      OBVIOUS
    <3>1. r \in [id : Y!Id, rev : 1..2, app : BOOLEAN, want : {"Running", "Terminated"}]
      BY DEF SyncRunIInv, Y!TypeOK, Y!Row
    <3> QED
      BY <3>1 DEF Y!Row
  <2> HIDE DEF Withdrawn
  <2>3. \A s \in rows' : \E r \in rows : s.id = r.id /\ (s = r \/ s = Withdrawn(r))
    BY <2>1, <2>2
  <2>4. \A r, s \in rows' : r.id = s.id => r = s
    <3> SUFFICES ASSUME NEW r \in rows', NEW s \in rows', r.id = s.id
                 PROVE  r = s
      OBVIOUS
    <3>1. PICK x \in rows : r = IF x.id = runner.row THEN Withdrawn(x) ELSE x
      BY <2>1
    <3>2. PICK y \in rows : s = IF y.id = runner.row THEN Withdrawn(y) ELSE y
      BY <2>1
    <3>3. x = y
      BY <2>2, <3>1, <3>2 DEF SyncRunIInv, Y!TypeOK
    <3> QED
      BY <3>1, <3>2, <3>3
  <2>5. Rewritten
    <3>1. rows \subseteq Y!Row
      BY DEF SyncRunIInv, Y!TypeOK
    <3>2. rows' \subseteq Y!Row
      BY <2>1, <2>2, <3>1
    <3>3. \A s \in rows' : \E r \in rows : /\ s.id = r.id /\ s.rev = r.rev
                                           /\ s.want = r.want \/ s.want = "Terminated"
      BY <2>2, <2>3
    <3>4. \A r \in rows : \E s \in rows' : s.id = r.id /\ s.rev = r.rev
      BY <2>1, <2>2
    <3> QED
      BY <3>2, <3>3, <3>4 DEF Rewritten
  <2>6. ForeignKey'
    BY <1>1, <1>3 DEF ForeignKey
  <2>7. TasksFit' /\ Y!CompletedIsSynced'
    BY <1>1, <2>1, <2>5, RewrittenFits
  <2>8. runner.run = None /\ runner.row \in Y!Id
    BY <1>1 DEF SyncRunIInv, RunnerFits
  <2>9. /\ runner' \in [pc : {"terminateOp"}, run : {None}, row : Y!Id, op : Y!Id \union {0}]
        /\ runner'.pc = "terminateOp" /\ runner'.run = runner.run /\ runner'.row = runner.row
    BY <2>1, <2>8 DEF SyncRunIInv, Y!TypeOK
  <2>10. Y!TypeOK'
    <3>1. rows' \subseteq Y!Row
      BY <2>5 DEF Rewritten
    <3> QED
      BY <1>1, <2>1, <2>4, <2>9, <3>1 DEF SyncRunIInv, Y!TypeOK
  <2>11. RunnerFits'
    BY <1>1, <2>1, <2>8, <2>9 DEF SyncRunIInv, RunnerFits
  <2> QED
    BY <2>6, <2>7, <2>10, <2>11 DEF SyncRunIInv
<1> QED
  BY <1>2, <1>3

LEMMA TerminationRequested ==
  ASSUME SyncRunIInv, Y!RequestTermination
  PROVE  SyncRunIInv'
<1>1. /\ UNCHANGED <<run, depl, dtam, app, rows, mappings, waiting, tasks, argo, done, gaveUp,
                     inputs>>
      /\ runner.pc = "terminateOp"
  BY DEF Y!RequestTermination, Y!user, Y!db
<1>2. runner.row \in Y!Id /\ runner.run = None
  BY <1>1 DEF SyncRunIInv, RunnerFits
<1>3. ForeignKey'
  BY <1>1 DEF SyncRunIInv, ForeignKey
<1>4. CASE app
  <2>1. Y!CreateOperation("wait", "purge") /\ UNCHANGED <<cond, event>>
    BY <1>4 DEF Y!RequestTermination
  <2>2. /\ ops' \subseteq Y!Operation /\ notices' \subseteq Y!Id
        /\ \A o, p \in ops' : o.id = p.id => o = p
        /\ TasksFit' /\ Y!CompletedIsSynced'
        /\ runner' \in [pc : {"poll", "wait", "purge"}, run : Y!Run \union {None}, row : Y!Id,
                        op : Y!Id \union {0}]
        /\ runner'.pc \in {"wait", "purge"} /\ runner'.run = runner.run /\ runner'.row = runner.row
    BY <1>1, <1>2, <2>1, OperationCreated
  <2>3. Y!TypeOK'
    BY <1>1, <2>1, <2>2 DEF SyncRunIInv, Y!TypeOK
  <2>4. RunnerFits'
    BY <1>1, <1>2, <2>1, <2>2 DEF SyncRunIInv, RunnerFits
  <2> QED
    BY <1>3, <2>2, <2>3, <2>4 DEF SyncRunIInv
<1>5. CASE ~app
  <2>1. Y!Return("error") /\ UNCHANGED <<ops, notices>>
    BY <1>5 DEF Y!RequestTermination
  <2>2. /\ RunnerFits' /\ runner' = Y!IdleRunner /\ cond' \in {"none", "ok", "error"}
        /\ event' \in BOOLEAN
    BY <1>1, <2>1, ReturnsError
  <2>3. Y!TypeOK'
    BY <1>1, <2>1, <2>2, ReturnTyped DEF SyncRunIInv, Y!TypeOK
  <2>4. TasksFit' /\ Y!CompletedIsSynced'
    BY <1>1, <2>1 DEF SyncRunIInv, TasksFit, Y!CompletedIsSynced
  <2> QED
    BY <1>3, <2>2, <2>3, <2>4 DEF SyncRunIInv
<1> QED
  BY <1>4, <1>5

LEMMA OperationWaited ==
  ASSUME SyncRunIInv, Y!Waited
  PROVE  SyncRunIInv'
<1>1. /\ UNCHANGED <<run, depl, dtam, app, rows, mappings, ops, notices, waiting, tasks, argo, done,
                     gaveUp, inputs>>
      /\ runner.pc = "wait"
  BY DEF Y!Waited, Y!user, Y!db, Y!agent
<1>2. TasksFit' /\ Y!CompletedIsSynced' /\ ForeignKey'
  BY <1>1 DEF SyncRunIInv, TasksFit, Y!CompletedIsSynced, ForeignKey
<1>3. CASE Y!Ended(runner.op)
  <2>1. runner' = [runner EXCEPT !.pc = "purge"] /\ UNCHANGED <<cond, event>>
    BY <1>3 DEF Y!Waited
  <2>2. /\ runner' \in [pc : {"purge"}, run : Y!Run \union {None}, row : Y!Id \union {0},
                        op : Y!Id \union {0}]
        /\ runner'.pc = "purge" /\ runner'.run = runner.run /\ runner'.row = runner.row
    BY <2>1 DEF SyncRunIInv, Y!TypeOK
  <2>3. Y!TypeOK'
    BY <1>1, <2>1, <2>2 DEF SyncRunIInv, Y!TypeOK
  <2>4. RunnerFits'
    BY <1>1, <2>1, <2>2 DEF SyncRunIInv, RunnerFits
  <2> QED
    BY <1>2, <2>3, <2>4 DEF SyncRunIInv
<1>4. CASE ~Y!Ended(runner.op)
  <2>1. Y!Return("error")
    BY <1>4 DEF Y!Waited
  <2>2. /\ RunnerFits' /\ runner' = Y!IdleRunner /\ cond' \in {"none", "ok", "error"}
        /\ event' \in BOOLEAN
    BY <1>1, <2>1, ReturnsError
  <2>3. Y!TypeOK'
    BY <1>1, <2>2, ReturnTyped DEF SyncRunIInv, Y!TypeOK
  <2> QED
    BY <1>2, <2>2, <2>3 DEF SyncRunIInv
<1> QED
  BY <1>3, <1>4

LEMMA RowDeleted ==
  ASSUME SyncRunIInv, Y!DeleteRow
  PROVE  SyncRunIInv'
<1>1. /\ UNCHANGED <<run, depl, cond, dtam, app, mappings, event, notices, waiting, tasks, argo,
                     done, gaveUp, inputs>>
      /\ runner.pc = "purge" /\ rows' \subseteq rows /\ ops' \subseteq ops
      /\ runner' = [runner EXCEPT !.pc = "unmap"]
  BY DEF Y!DeleteRow, Y!user, Y!agent
<1>2. /\ runner' \in [pc : {"unmap"}, run : Y!Run \union {None}, row : Y!Id \union {0},
                      op : Y!Id \union {0}]
      /\ runner'.pc = "unmap" /\ runner'.run = runner.run /\ runner'.row = runner.row
  BY <1>1 DEF SyncRunIInv, Y!TypeOK
<1>3. /\ TasksFit' /\ Y!CompletedIsSynced' /\ ForeignKey'
      /\ ops' \subseteq Y!Operation /\ rows' \subseteq Y!Row
      /\ \A r, s \in rows' : r.id = s.id => r = s
      /\ \A o, p \in ops' : o.id = p.id => o = p
  BY <1>1, Fewer
<1>4. Y!TypeOK'
  BY <1>1, <1>2, <1>3 DEF SyncRunIInv, Y!TypeOK
<1>5. RunnerFits'
  BY <1>1, <1>2 DEF SyncRunIInv, RunnerFits
<1> QED
  BY <1>3, <1>4, <1>5 DEF SyncRunIInv

LEMMA MappingDeleted ==
  ASSUME SyncRunIInv, Y!DeleteMapping
  PROVE  SyncRunIInv'
<1>1. /\ UNCHANGED <<run, depl, dtam, app, rows, ops, notices, waiting, tasks, argo, done, gaveUp,
                     inputs>>
      /\ runner.pc = "unmap" /\ mappings' \subseteq mappings /\ Y!Return("ok")
  BY DEF Y!DeleteMapping, Y!user, Y!agent
<1>2. ~event => run = None
  BY <1>1 DEF SyncRunIInv, RunnerFits
<1>3. RunnerFits' /\ runner' = Y!IdleRunner /\ cond' \in {"none", "ok", "error"} /\ event' \in BOOLEAN
  BY <1>1, <1>2, ReturnsOk
<1>4. TasksFit' /\ Y!CompletedIsSynced' /\ ForeignKey'
  BY <1>1 DEF SyncRunIInv, TasksFit, Y!CompletedIsSynced, ForeignKey
<1>5. Y!TypeOK'
  BY <1>1, <1>3, ReturnTyped DEF SyncRunIInv, Y!TypeOK
<1> QED
  BY <1>3, <1>4, <1>5 DEF SyncRunIInv

LEMMA CallFailed ==
  ASSUME SyncRunIInv, Y!CallFails
  PROVE  SyncRunIInv'
<1>1. /\ UNCHANGED <<run, depl, dtam, app, ops, notices, waiting, tasks, argo, done>>
      /\ Y!Return("error") /\ rows' \subseteq rows /\ mappings' \subseteq mappings
  BY DEF Y!CallFails, Y!Disposed, Y!user, Y!agent
<1>2. gaveUp' \in BOOLEAN
  BY Zenon DEF Y!CallFails, SyncRunIInv, Y!TypeOK
<1>3. inputs' \in 0..MaxInputs
  BY InputBounded DEF SyncRunIInv, Y!CallFails
<1>4. RunnerFits' /\ runner' = Y!IdleRunner /\ cond' \in {"none", "ok", "error"} /\ event' \in BOOLEAN
  BY <1>1, ReturnsError
<1>5. /\ TasksFit' /\ Y!CompletedIsSynced' /\ ForeignKey' /\ rows' \subseteq Y!Row
      /\ \A r, s \in rows' : r.id = s.id => r = s
  BY <1>1, Fewer
<1>6. Y!TypeOK'
  BY <1>1, <1>2, <1>3, <1>4, <1>5, ReturnTyped DEF SyncRunIInv, Y!TypeOK
<1> QED
  BY <1>4, <1>5, <1>6 DEF SyncRunIInv

LEMMA BackendRestarted ==
  ASSUME SyncRunIInv, Y!BackendRestarts
  PROVE  SyncRunIInv'
<1>1. /\ UNCHANGED <<run, depl, cond, dtam, app, rows, mappings, ops, notices, waiting, tasks, argo,
                     done>>
      /\ runner' = Y!IdleRunner /\ gaveUp' \in BOOLEAN /\ inputs' \in 0..MaxInputs
  BY InputBounded DEF SyncRunIInv, Y!BackendRestarts, Y!user, Y!db, Y!agent
<1>2. event' \in BOOLEAN /\ (event' \/ run' = None)
  BY Zenon DEF Y!BackendRestarts, Y!user
<1>3. Y!TypeOK'
  BY <1>1, <1>2, ReturnTyped DEF SyncRunIInv, Y!TypeOK
<1>4. TasksFit' /\ Y!CompletedIsSynced' /\ ForeignKey'
  BY <1>1 DEF SyncRunIInv, TasksFit, Y!CompletedIsSynced, ForeignKey
<1>5. \A m, n \in mappings' : m.row = n.row => m = n
  BY <1>1 DEF SyncRunIInv, RunnerFits
<1>6. RunnerFits'
  BY <1>1, <1>2, <1>5, Idles
<1> QED
  BY <1>3, <1>4, <1>6 DEF SyncRunIInv
-----------------------------------------------------------------------------
(* Steps of the database reconciler                                        *)

\* The sweep leaves the mapping and the row of the SyncRun alone, and those the runner is
\* working on.
LEMMA OrphanedMappingCleaned ==
  ASSUME SyncRunIInv, NEW m \in mappings, Y!CleanOrphanedMapping(m)
  PROVE  SyncRunIInv'
<1>1. /\ UNCHANGED <<depl, dtam, app, ops, runner, notices, waiting, tasks, argo, done, gaveUp>>
      /\ mappings' = mappings \ {m} /\ rows' \subseteq rows
      /\ \A r \in rows : r \in rows' \/ r.id = m.row
      /\ ~(run # None /\ run.uid = m.uid)
  BY DEF Y!CleanOrphanedMapping, Y!Orphaned, Y!RowOf, Y!agent
<1>2. /\ run' \in {run, None} /\ cond' \in {"none", "ok", "error"} /\ inputs' \in 0..MaxInputs
  BY InputBounded DEF Y!CleanOrphanedMapping, SyncRunIInv, Y!TypeOK
<1>3. /\ event' \in BOOLEAN
      /\ ~event' => ~event /\ run' = run
  <2> DEFINE delete == run # None /\ \E r \in Y!RowOf(m.row) : ~r.app
  <2>1. \/ run' = (IF delete THEN None ELSE run) /\ event' = (event \/ delete)
        \/ UNCHANGED <<run, event>>
    BY DEF Y!CleanOrphanedMapping
  <2>2. event \in BOOLEAN /\ delete \in BOOLEAN
    BY DEF SyncRunIInv, Y!TypeOK
  <2> HIDE DEF delete
  <2> QED
    BY <2>1, <2>2, Zenon
<1>4. /\ TasksFit' /\ Y!CompletedIsSynced' /\ ForeignKey' /\ rows' \subseteq Y!Row
      /\ \A r, s \in rows' : r.id = s.id => r = s
  BY <1>1, Fewer
<1>5. Y!TypeOK'
  BY <1>1, <1>2, <1>3, <1>4 DEF SyncRunIInv, Y!TypeOK
<1>6. \A n \in mappings, r \in rows : n # m /\ n.row = r.id => n \in mappings' /\ r \in rows'
  <2> SUFFICES ASSUME NEW n \in mappings, NEW r \in rows, n # m, n.row = r.id
               PROVE  n \in mappings' /\ r \in rows'
    OBVIOUS
  <2>1. n.row # m.row
    BY DEF SyncRunIInv, RunnerFits
  <2> QED
    BY <1>1, <2>1
<1>7. RunnerFits'
  <2>1. /\ runner.run # None <=> runner.pc \in {"row", "mapping", "op", "poll"}
        /\ runner.pc \notin {"idle", "row"} => runner.row \in Y!Id
        /\ \A x, n \in mappings' : x.row = n.row => x = n
    BY <1>1 DEF SyncRunIInv, RunnerFits
  <2>2. runner.pc # "idle" /\ ~event' => run' = runner.run
    BY <1>3 DEF SyncRunIInv, RunnerFits
  <2>3. runner.pc = "mapping" =>
          /\ \E r \in rows' : r.id = runner.row /\ r.rev = runner.run.rev
          /\ \A n \in mappings' : n.row # runner.row
    BY <1>1 DEF SyncRunIInv, RunnerFits
  <2>4. ~event' /\ run # None /\ Accepted => Accepted'
    <3> SUFFICES ASSUME ~event', run # None, Accepted
                 PROVE  Accepted'
      OBVIOUS
    <3>1. PICK n \in mappings, r \in rows : n.uid = run.uid /\ n.row = r.id /\ r.rev = run.rev
      BY DEF Accepted
    <3>2. n # m
      BY <1>1, <3>1
    <3>3. n \in mappings' /\ r \in rows' /\ run' = run
      BY <1>3, <1>6, <3>1, <3>2
    <3> QED
      BY <3>1, <3>3 DEF Accepted
  <2>5. ~event' /\ run' # None /\ runner.pc \in {"idle", "op", "poll"} => Accepted'
    BY <1>3, <2>4 DEF SyncRunIInv, RunnerFits
  <2> QED
    BY <1>1, <2>1, <2>2, <2>3, <2>5 DEF RunnerFits
<1> QED
  BY <1>4, <1>5, <1>7 DEF SyncRunIInv

LEMMA OrphanedRowCleaned ==
  ASSUME SyncRunIInv, NEW r \in rows, Y!CleanOrphanedRow(r)
  PROVE  SyncRunIInv'
<1>1. /\ UNCHANGED <<run, depl, cond, dtam, app, mappings, ops, event, runner, notices, waiting,
                     tasks, argo, done, gaveUp, inputs>>
      /\ rows' = rows \ {r} /\ ~\E m \in mappings : m.row = r.id
      /\ ~(runner.row = r.id /\ runner.pc = "mapping")
  BY DEF Y!CleanOrphanedRow, Y!user, Y!agent
<1>2. /\ TasksFit' /\ Y!CompletedIsSynced' /\ ForeignKey' /\ rows' \subseteq Y!Row
      /\ \A x, s \in rows' : x.id = s.id => x = s
  BY <1>1, Fewer
<1>3. Y!TypeOK'
  BY <1>1, <1>2 DEF SyncRunIInv, Y!TypeOK
<1>4. Accepted => Accepted'
  BY <1>1 DEF Accepted
<1>5. RunnerFits'
  BY <1>1, <1>4 DEF SyncRunIInv, RunnerFits
<1> QED
  BY <1>2, <1>3, <1>5 DEF SyncRunIInv

LEMMA OperationCleaned ==
  ASSUME SyncRunIInv, NEW o \in ops, Y!CleanOperation(o)
  PROVE  SyncRunIInv'
<1>1. /\ UNCHANGED <<run, depl, cond, dtam, app, rows, mappings, event, runner, notices, waiting,
                     tasks, argo, done, gaveUp, inputs>>
      /\ ops' \subseteq ops
  BY DEF Y!CleanOperation, Y!user, Y!db, Y!agent
<1>2. /\ TasksFit' /\ Y!CompletedIsSynced' /\ ForeignKey' /\ ops' \subseteq Y!Operation
      /\ \A x, p \in ops' : x.id = p.id => x = p
  BY <1>1, Fewer
<1>3. Y!TypeOK'
  BY <1>1, <1>2 DEF SyncRunIInv, Y!TypeOK
<1>4. RunnerFits'
  BY <1>1 DEF SyncRunIInv, RunnerFits, Accepted
<1> QED
  BY <1>2, <1>3, <1>4 DEF SyncRunIInv

-----------------------------------------------------------------------------
(* Steps of the cluster-agent and of Argo CD                               *)

\* What a step of the cluster-agent must keep.
AgentFits ==
  /\ ops \subseteq Y!Operation /\ notices \subseteq Y!Id /\ waiting \subseteq Y!Task /\ tasks \subseteq Y!Task
  /\ \A o, p \in ops : o.id = p.id => o = p
  /\ \A t, u \in tasks : t.row = u.row => t = u
  /\ TasksFit /\ Y!CompletedIsSynced

LEMMA AgentStep ==
  ASSUME SyncRunIInv, AgentFits',
         UNCHANGED <<run, depl, cond, dtam, app, rows, mappings, event, runner, gaveUp>>,
         argo' \in [row : Y!Id, running : BOOLEAN] \union {None}, done' \subseteq Y!Id,
         inputs' \in 0..MaxInputs
  PROVE  SyncRunIInv'
<1>1. Y!TypeOK'
  BY DEF SyncRunIInv, Y!TypeOK, AgentFits
<1>2. RunnerFits'
  BY DEF SyncRunIInv, RunnerFits, Accepted
<1>3. ForeignKey'
  BY DEF SyncRunIInv, ForeignKey
<1> QED
  BY <1>1, <1>2, <1>3 DEF SyncRunIInv, AgentFits

\* A task is started again from the beginning.
LEMMA Retried ==
  ASSUME SyncRunIInv, NEW t \in tasks, Y!Retry(t), UNCHANGED <<rows, notices, done>>
  PROVE  AgentFits'
<1> DEFINE again == [t EXCEPT !.pc = "load"]
<1>1. /\ Y!SetState(t.op, "In_Progress") /\ tasks' = tasks \ {t} /\ waiting' = Y!Add(again)
  BY DEF Y!Retry
<1>2. /\ ops' \subseteq Y!Operation
      /\ \A p \in ops' : \E o \in ops : /\ o.id = p.id /\ o.row = p.row
                                        /\ p = o \/ (o.id = t.op /\ p.state = "In_Progress")
      /\ \A o, p \in ops' : o.id = p.id => o = p
  BY <1>1, StateSet DEF SyncRunIInv
<1>3. again \in Y!Task /\ again.op = t.op /\ again.row = t.row /\ again.pc = "load"
  BY DEF SyncRunIInv, Y!TypeOK, Y!Task
<1>4. waiting' \subseteq waiting \union {again}
  BY <1>1, Added
<1> HIDE DEF again
<1>5. waiting' \subseteq Y!Task /\ tasks' \subseteq Y!Task /\ notices' \subseteq Y!Id
  BY <1>1, <1>3, <1>4 DEF SyncRunIInv, Y!TypeOK
<1>6. \A u, v \in tasks' : u.row = v.row => u = v
  BY <1>1 DEF SyncRunIInv, Y!TypeOK
<1>7. TasksFit'
  <2>1. \A u \in tasks' \union waiting', o \in ops' : o.id = u.op => o.row = u.row
    BY <1>1, <1>2, <1>3, <1>4 DEF SyncRunIInv, TasksFit
  <2>2. \A u \in waiting' : u.pc = "load"
    BY <1>3, <1>4 DEF SyncRunIInv, TasksFit
  <2>3. \A u \in tasks', r \in rows' : u.pc = "terminate" /\ r.id = u.row => r.want = "Terminated"
    BY <1>1 DEF SyncRunIInv, TasksFit
  <2> QED
    BY <2>1, <2>2, <2>3 DEF TasksFit
<1>8. Y!CompletedIsSynced'
  BY <1>2 DEF SyncRunIInv, Y!CompletedIsSynced
<1> QED
  BY <1>2, <1>5, <1>6, <1>7, <1>8 DEF AgentFits

\* A task ends, with Completed only if its row was synced or is not wanted.
LEMMA Finished ==
  ASSUME SyncRunIInv, NEW t \in tasks, NEW state \in {"Completed", "Failed"}, Y!Finish(t, state),
         UNCHANGED <<rows, notices, done>>,
         state = "Completed" => \A r \in rows : r.id = t.row /\ r.want = "Running" => r.id \in done
  PROVE  AgentFits'
<1>1. Y!SetState(t.op, state) /\ tasks' = tasks \ {t} /\ waiting' = waiting
  BY DEF Y!Finish
<1>2. /\ ops' \subseteq Y!Operation
      /\ \A p \in ops' : \E o \in ops : /\ o.id = p.id /\ o.row = p.row
                                        /\ p = o \/ (o.id = t.op /\ p.state = state)
      /\ \A o, p \in ops' : o.id = p.id => o = p
  BY <1>1, StateSet DEF SyncRunIInv
<1>3. /\ waiting' \subseteq Y!Task /\ tasks' \subseteq Y!Task /\ notices' \subseteq Y!Id
      /\ \A u, v \in tasks' : u.row = v.row => u = v
  BY <1>1 DEF SyncRunIInv, Y!TypeOK
<1>4. TasksFit'
  BY <1>1, <1>2 DEF SyncRunIInv, TasksFit
<1>5. Y!CompletedIsSynced'
  <2> SUFFICES ASSUME NEW p \in ops', NEW r \in rows', p.row = r.id, p.state = "Completed",
                      r.want = "Running"
               PROVE  r.id \in done
    BY DEF Y!CompletedIsSynced
  <2>1. PICK o \in ops : /\ o.id = p.id /\ o.row = p.row
                         /\ p = o \/ (o.id = t.op /\ p.state = state)
    BY <1>2
  <2>2. CASE p = o
    BY <2>1, <2>2 DEF SyncRunIInv, Y!CompletedIsSynced
  <2>3. CASE o.id = t.op /\ p.state = state
    <3>1. o.row = t.row
      BY <2>3 DEF SyncRunIInv, TasksFit
    <3> QED
      BY <2>1, <2>3, <3>1
  <2> QED
    BY <2>1, <2>2, <2>3
<1> QED
  BY <1>2, <1>3, <1>4, <1>5 DEF AgentFits

\* A task goes on to its next step.
LEMMA TaskMoves ==
  ASSUME SyncRunIInv, NEW t \in tasks, NEW u \in Y!Task, u.row = t.row, u.op = t.op,
         tasks' = (tasks \ {t}) \union {u}, UNCHANGED <<rows, notices, waiting, done>>,
         ops' \subseteq Y!Operation, \A o, p \in ops' : o.id = p.id => o = p,
         \A p \in ops' : \E o \in ops : o.id = p.id /\ o.row = p.row
                                        /\ (p.state = "Completed" => o.state = "Completed"),
         u.pc = "terminate" => \A r \in rows : r.id = t.row => r.want = "Terminated"
  PROVE  AgentFits'
<1>1. waiting' \subseteq Y!Task /\ tasks' \subseteq Y!Task /\ notices' \subseteq Y!Id
  BY DEF SyncRunIInv, Y!TypeOK
<1>2. \A v, w \in tasks' : v.row = w.row => v = w
  BY DEF SyncRunIInv, Y!TypeOK
<1>3. TasksFit'
  <2>1. \A v \in tasks' \union waiting', o \in ops' : o.id = v.op => o.row = v.row
    BY DEF SyncRunIInv, TasksFit
  <2>2. \A v \in waiting' : v.pc = "load"
    BY DEF SyncRunIInv, TasksFit
  <2>3. \A v \in tasks', r \in rows' : v.pc = "terminate" /\ r.id = v.row => r.want = "Terminated"
    BY DEF SyncRunIInv, TasksFit
  <2> QED
    BY <2>1, <2>2, <2>3 DEF TasksFit
<1>4. Y!CompletedIsSynced'
  BY DEF SyncRunIInv, Y!CompletedIsSynced
<1> QED
  BY <1>1, <1>2, <1>3, <1>4 DEF AgentFits

LEMMA Announced ==
  ASSUME SyncRunIInv, NEW o \in ops, Y!Announce(o)
  PROVE  SyncRunIInv'
<1>1. /\ UNCHANGED <<run, depl, cond, dtam, app, rows, mappings, ops, event, runner, waiting, tasks,
                     argo, done, gaveUp, inputs>>
      /\ notices' = notices \union {o.id}
  BY DEF Y!Announce, Y!user, Y!db
<1>2. AgentFits'
  <2>1. o.id \in Y!Id
    BY DEF SyncRunIInv, Y!TypeOK, Y!Operation
  <2>2. TasksFit' /\ Y!CompletedIsSynced'
    BY <1>1 DEF SyncRunIInv, TasksFit, Y!CompletedIsSynced
  <2> QED
    BY <1>1, <2>1, <2>2 DEF SyncRunIInv, Y!TypeOK, AgentFits
<1> QED
  BY <1>1, <1>2, AgentStep DEF SyncRunIInv, Y!TypeOK

LEMMA EventRouted ==
  ASSUME SyncRunIInv, NEW id \in notices, Y!RouteEvent(id)
  PROVE  SyncRunIInv'
<1>1. /\ UNCHANGED <<run, depl, cond, dtam, app, rows, mappings, ops, event, runner, tasks,
                     argo, done, gaveUp, inputs>>
      /\ notices' = notices \ {id}
  BY DEF Y!RouteEvent, Y!user, Y!db
<1>2. ASSUME NEW t \in waiting'
      PROVE  \/ t \in waiting
             \/ \E o \in ops : o.id = id /\ t = [op |-> id, row |-> o.row, pc |-> "load"]
  <2>1. CASE t \in waiting
    BY <2>1
  <2>2. CASE t \notin waiting
    <3> DEFINE new == UNION {Y!Add([op |-> id, row |-> Y!TaskName(o), pc |-> "load"]) :
                               o \in {p \in ops : p.id = id}}
    <3>1. waiting' = waiting \union new
      BY DEF Y!RouteEvent
    <3>2. t \in new
      <4> HIDE DEF new
      <4> QED
        BY <1>2, <2>2, <3>1
    <3>3. PICK o \in ops : o.id = id /\ t \in Y!Add([op |-> id, row |-> Y!TaskName(o), pc |-> "load"])
      BY <3>2
    <3>4. t = [op |-> id, row |-> Y!TaskName(o), pc |-> "load"]
      BY <2>2, <3>3, Added
    <3> QED
      BY <3>3, <3>4 DEF Y!TaskName
  <2> QED
    BY <2>1, <2>2
<1>3. \A o \in ops : o.id = id =>
        /\ [op |-> id, row |-> o.row, pc |-> "load"] \in Y!Task
        /\ [op |-> id, row |-> o.row, pc |-> "load"].op = id
        /\ [op |-> id, row |-> o.row, pc |-> "load"].row = o.row
        /\ [op |-> id, row |-> o.row, pc |-> "load"].pc = "load"
  BY DEF SyncRunIInv, Y!TypeOK, Y!Operation, Y!Task
<1>4. waiting' \subseteq Y!Task
  BY <1>2, <1>3 DEF SyncRunIInv, Y!TypeOK
<1>5. TasksFit'
  <2>1. \A t \in waiting' : t.pc = "load"
    BY <1>2, <1>3 DEF SyncRunIInv, TasksFit
  <2>2. ASSUME NEW t \in waiting', NEW o \in ops, o.id = t.op
        PROVE  o.row = t.row
    <3>1. CASE t \in waiting
      BY <2>2, <3>1 DEF SyncRunIInv, TasksFit
    <3>2. CASE t \notin waiting
      <4>1. PICK p \in ops : p.id = id /\ t = [op |-> id, row |-> p.row, pc |-> "load"]
        BY <1>2, <3>2
      <4>2. t.op = id /\ t.row = p.row
        BY <1>3, <4>1
      <4>3. o = p
        BY <2>2, <4>1, <4>2 DEF SyncRunIInv, Y!TypeOK
      <4> QED
        BY <4>2, <4>3
    <3> QED
      BY <3>1, <3>2
  <2>3. \A t \in tasks \union waiting', o \in ops : o.id = t.op => o.row = t.row
    BY <2>2 DEF SyncRunIInv, TasksFit
  <2>4. \A t \in tasks, r \in rows : t.pc = "terminate" /\ r.id = t.row => r.want = "Terminated"
    BY DEF SyncRunIInv, TasksFit
  <2> QED
    BY <1>1, <2>1, <2>3, <2>4 DEF TasksFit
<1>6. Y!CompletedIsSynced'
  BY <1>1 DEF SyncRunIInv, Y!CompletedIsSynced
<1>7. AgentFits'
  BY <1>1, <1>4, <1>5, <1>6 DEF SyncRunIInv, Y!TypeOK, AgentFits
<1> QED
  BY <1>1, <1>7, AgentStep DEF SyncRunIInv, Y!TypeOK

LEMMA TaskStarted ==
  ASSUME SyncRunIInv, NEW t \in waiting, Y!StartTask(t)
  PROVE  SyncRunIInv'
<1>1. /\ UNCHANGED <<run, depl, cond, dtam, app, rows, mappings, ops, event, runner, notices,
                     argo, done, gaveUp, inputs>>
      /\ waiting' = waiting \ {t} /\ tasks' = tasks \union {t}
      /\ \A u \in tasks : u.row # t.row
  BY DEF Y!StartTask, Y!Busy, Y!user, Y!db
<1>2. t.pc = "load"
  BY DEF SyncRunIInv, TasksFit
<1>3. TasksFit'
  BY <1>1, <1>2 DEF SyncRunIInv, TasksFit
<1>4. Y!CompletedIsSynced'
  BY <1>1 DEF SyncRunIInv, Y!CompletedIsSynced
<1>5. AgentFits'
  BY <1>1, <1>3, <1>4 DEF SyncRunIInv, Y!TypeOK, AgentFits
<1> QED
  BY <1>1, <1>5, AgentStep DEF SyncRunIInv, Y!TypeOK

LEMMA OperationLoaded ==
  ASSUME SyncRunIInv, NEW t \in tasks, Y!LoadOperation(t)
  PROVE  SyncRunIInv'
<1>1. /\ UNCHANGED <<run, depl, cond, dtam, app, rows, mappings, event, runner, notices, argo, done,
                     gaveUp, inputs>>
      /\ t.pc = "load"
  BY DEF Y!LoadOperation, Y!user, Y!db
<1>2. ASSUME tasks' = tasks \ {t}, UNCHANGED <<ops, waiting>>
      PROVE  AgentFits'
  BY <1>1, <1>2, Fewer DEF AgentFits, SyncRunIInv, Y!TypeOK
<1>3. ASSUME NEW r \in rows, r.id = t.row, Y!SetState(t.op, "In_Progress"), UNCHANGED waiting,
             tasks' = (tasks \ {t}) \union
               {[t EXCEPT !.pc = IF s.want = "Running" THEN "sync" ELSE "terminate"] : s \in Y!RowOf(t.row)}
      PROVE  AgentFits'
  <2> DEFINE u == [t EXCEPT !.pc = IF r.want = "Running" THEN "sync" ELSE "terminate"]
  <2>1. Y!RowOf(t.row) = {r}
    BY <1>3 DEF SyncRunIInv, Y!TypeOK, Y!RowOf
  <2>2. tasks' = (tasks \ {t}) \union {u}
    BY <1>3, <2>1
  <2>3. /\ u \in Y!Task /\ u.row = t.row /\ u.op = t.op
        /\ u.pc = "terminate" => r.want # "Running"
    BY DEF SyncRunIInv, Y!TypeOK, Y!Task
  <2> HIDE DEF u
  <2>4. u.pc = "terminate" => \A s \in rows : s.id = t.row => s.want = "Terminated"
    BY <2>1, <2>3 DEF SyncRunIInv, Y!TypeOK, Y!RowOf, Y!Row
  <2>5. /\ ops' \subseteq Y!Operation
        /\ \A p \in ops' : \E o \in ops : /\ o.id = p.id /\ o.row = p.row
                                          /\ p = o \/ (o.id = t.op /\ p.state = "In_Progress")
        /\ \A o, p \in ops' : o.id = p.id => o = p
    BY <1>3, StateSet DEF SyncRunIInv
  <2>6. \A p \in ops' : \E o \in ops : o.id = p.id /\ o.row = p.row
                                       /\ (p.state = "Completed" => o.state = "Completed")
    BY <2>5
  <2> QED
    BY <1>1, <1>3, <2>2, <2>3, <2>4, <2>5, <2>6, TaskMoves
<1>4. AgentFits'
  <2>1. CASE Y!Ended(t.op) \/ ~\E o \in ops : o.id = t.op
    BY <1>2, <2>1 DEF Y!LoadOperation
  <2>2. CASE ~(Y!Ended(t.op) \/ ~\E o \in ops : o.id = t.op) /\ Y!RowOf(t.row) = {}
    <3>1. Y!Finish(t, "Failed")
      BY <2>2 DEF Y!LoadOperation
    <3> QED
      BY <1>1, <3>1, Finished
  <2>3. CASE /\ ~(Y!Ended(t.op) \/ ~\E o \in ops : o.id = t.op) /\ Y!RowOf(t.row) # {}
             /\ \E r \in Y!RowOf(t.row) : ~r.app
    <3>1. Y!Retry(t)
      BY <2>3 DEF Y!LoadOperation
    <3> QED
      BY <1>1, <3>1, Retried
  <2>4. CASE /\ ~(Y!Ended(t.op) \/ ~\E o \in ops : o.id = t.op) /\ Y!RowOf(t.row) # {}
             /\ ~\E r \in Y!RowOf(t.row) : ~r.app
    <3>1. /\ Y!SetState(t.op, "In_Progress") /\ UNCHANGED waiting
          /\ tasks' = (tasks \ {t}) \union
               {[t EXCEPT !.pc = IF s.want = "Running" THEN "sync" ELSE "terminate"] : s \in Y!RowOf(t.row)}
      BY <2>4 DEF Y!LoadOperation
    <3>2. PICK r \in rows : r.id = t.row
      BY <2>4 DEF Y!RowOf
    <3> QED
      BY <1>3, <3>1, <3>2
  <2> QED
    BY <2>1, <2>2, <2>3, <2>4
<1> QED
  BY <1>1, <1>4, AgentStep DEF SyncRunIInv, Y!TypeOK

LEMMA SyncAsked ==
  ASSUME SyncRunIInv, NEW t \in tasks, Y!AppSync(t)
  PROVE  SyncRunIInv'
<1>1. UNCHANGED <<run, depl, cond, dtam, app, rows, mappings, event, runner, notices, done, gaveUp,
                  inputs>>
  BY DEF Y!AppSync, Y!user, Y!db
<1>2. CASE app /\ argo = None
  <2> DEFINE u == [t EXCEPT !.pc = "syncing"]
  <2>1. /\ argo' = [row |-> t.row, running |-> FALSE] /\ tasks' = (tasks \ {t}) \union {u}
        /\ UNCHANGED <<waiting, ops>>
    BY <1>2 DEF Y!AppSync
  <2>2. t \in Y!Task
    BY DEF SyncRunIInv, Y!TypeOK
  <2>3. u \in Y!Task /\ u.row = t.row /\ u.op = t.op /\ u.pc = "syncing"
    BY <2>2 DEF Y!Task
  <2>4. argo' \in [row : Y!Id, running : BOOLEAN] \union {None}
    BY <2>1, <2>2 DEF Y!Task
  <2> HIDE DEF u
  <2>5. /\ ops' \subseteq Y!Operation /\ \A o, p \in ops' : o.id = p.id => o = p
        /\ \A p \in ops' : \E o \in ops : o.id = p.id /\ o.row = p.row
                                          /\ (p.state = "Completed" => o.state = "Completed")
    BY <2>1 DEF SyncRunIInv, Y!TypeOK
  <2>6. AgentFits'
    BY <1>1, <2>1, <2>3, <2>5, TaskMoves
  <2> QED
    BY <1>1, <2>4, <2>6, AgentStep DEF SyncRunIInv, Y!TypeOK
<1>3. CASE ~(app /\ argo = None)
  <2>1. Y!Retry(t) /\ UNCHANGED argo
    BY <1>3 DEF Y!AppSync
  <2>2. AgentFits'
    BY <1>1, <2>1, Retried
  <2> QED
    BY <1>1, <2>1, <2>2, AgentStep DEF SyncRunIInv, Y!TypeOK
<1> QED
  BY <1>2, <1>3

LEMMA SyncCancelled ==
  ASSUME SyncRunIInv, NEW t \in tasks, Y!CancelSync(t)
  PROVE  SyncRunIInv'
<1>1. /\ UNCHANGED <<run, depl, cond, dtam, app, rows, mappings, event, runner, notices, argo, done,
                     gaveUp, inputs>>
      /\ Y!Finish(t, "Completed") /\ Y!Cancelled(t)
  BY DEF Y!CancelSync, Y!user, Y!db
<1>2. \A r \in rows : r.id = t.row /\ r.want = "Running" => r.id \in done
  BY <1>1 DEF Y!Cancelled, Y!RowOf
<1>3. AgentFits'
  BY <1>1, <1>2, Finished
<1> QED
  BY <1>1, <1>3, AgentStep DEF SyncRunIInv, Y!TypeOK

LEMMA SyncReturned ==
  ASSUME SyncRunIInv, NEW t \in tasks, Y!SyncReturns(t)
  PROVE  SyncRunIInv'
<1>1. UNCHANGED <<run, depl, cond, dtam, app, rows, mappings, event, runner, notices, argo, done,
                  gaveUp, inputs>>
  BY DEF Y!SyncReturns, Y!user, Y!db
<1>2. AgentFits'
  <2>1. CASE t.row \in done
    <3>1. Y!Finish(t, "Completed")
      BY <2>1 DEF Y!SyncReturns
    <3> QED
      BY <1>1, <2>1, <3>1, Finished
  <2>2. CASE t.row \notin done
    <3>1. Y!Retry(t)
      BY <2>2 DEF Y!SyncReturns
    <3> QED
      BY <1>1, <3>1, Retried
  <2> QED
    BY <2>1, <2>2
<1> QED
  BY <1>1, <1>2, AgentStep DEF SyncRunIInv, Y!TypeOK

LEMMA OperationTerminated ==
  ASSUME SyncRunIInv, NEW t \in tasks, Y!TerminateOperation(t)
  PROVE  SyncRunIInv'
<1>1. /\ UNCHANGED <<run, depl, cond, dtam, app, rows, mappings, event, runner, notices, done,
                     gaveUp, inputs>>
      /\ t.pc = "terminate" /\ argo' \in {argo, None}
  BY DEF Y!TerminateOperation, Y!user, Y!db
<1>2. AgentFits'
  <2>1. CASE ~app
    <3>1. Y!Retry(t)
      BY <2>1 DEF Y!TerminateOperation
    <3> QED
      BY <1>1, <3>1, Retried
  <2>2. CASE app
    <3>1. Y!Finish(t, "Completed")
      BY <2>2 DEF Y!TerminateOperation
    <3>2. \A r \in rows : r.id = t.row /\ r.want = "Running" => r.id \in done
      BY <1>1 DEF SyncRunIInv, TasksFit
    <3> QED
      BY <1>1, <3>1, <3>2, Finished
  <2> QED
    BY <2>1, <2>2
<1> QED
  BY <1>1, <1>2, AgentStep DEF SyncRunIInv, Y!TypeOK

LEMMA TaskFailed ==
  ASSUME SyncRunIInv, NEW t \in tasks, Y!TaskFails(t)
  PROVE  SyncRunIInv'
<1>1. /\ UNCHANGED <<run, depl, cond, dtam, app, rows, mappings, event, runner, notices, argo, done,
                     gaveUp>>
      /\ Y!Retry(t) /\ inputs' \in 0..MaxInputs
  BY InputBounded DEF SyncRunIInv, Y!TaskFails, Y!user, Y!db
<1>2. AgentFits'
  BY <1>1, Retried
<1> QED
  BY <1>1, <1>2, AgentStep DEF SyncRunIInv, Y!TypeOK

LEMMA ArgoCDSteps ==
  ASSUME SyncRunIInv, Y!ArgoCD
  PROVE  SyncRunIInv'
<1>1. /\ UNCHANGED <<run, depl, cond, dtam, app, rows, mappings, ops, event, runner, notices,
                     waiting, tasks, gaveUp>>
      /\ argo # None /\ done \subseteq done' /\ done' \subseteq done \union {argo.row}
  BY DEF Y!ArgoCD, Y!StartSync, Y!EndSync, Y!user, Y!db, Y!agent
<1>2. argo \in [row : Y!Id, running : BOOLEAN]
  BY <1>1 DEF SyncRunIInv, Y!TypeOK
<1>3. inputs' \in 0..MaxInputs
  BY InputBounded DEF SyncRunIInv, Y!TypeOK, Y!ArgoCD, Y!StartSync, Y!EndSync
<1>4. argo' \in [row : Y!Id, running : BOOLEAN] \union {None}
  <2>1. CASE Y!StartSync
    <3>1. argo' = [argo EXCEPT !.running = TRUE]
      BY <2>1 DEF Y!StartSync
    <3> QED
      BY <1>2, <3>1
  <2>2. CASE Y!EndSync
    BY <2>2 DEF Y!EndSync
  <2> QED
    BY <2>1, <2>2 DEF Y!ArgoCD
<1>5. done' \subseteq Y!Id
  BY <1>1, <1>2 DEF SyncRunIInv, Y!TypeOK
<1>6. TasksFit' /\ Y!CompletedIsSynced'
  BY <1>1 DEF SyncRunIInv, TasksFit, Y!CompletedIsSynced
<1>7. AgentFits'
  BY <1>1, <1>6 DEF SyncRunIInv, Y!TypeOK, AgentFits
<1> QED
  BY <1>1, <1>3, <1>4, <1>5, <1>7, AgentStep

LEMMA AgentRestarted ==
  ASSUME SyncRunIInv, Y!AgentRestarts
  PROVE  SyncRunIInv'
<1>1. /\ UNCHANGED <<run, depl, cond, dtam, app, rows, mappings, ops, event, runner, argo, done,
                     gaveUp>>
      /\ waiting' = {} /\ tasks' = {} /\ notices' = {o.id : o \in ops}
  BY DEF Y!AgentRestarts, Y!user, Y!db
<1>2. inputs' \in 0..MaxInputs
  BY InputBounded DEF SyncRunIInv, Y!AgentRestarts
<1>3. notices' \subseteq Y!Id
  BY <1>1 DEF SyncRunIInv, Y!TypeOK, Y!Operation
<1>4. TasksFit' /\ Y!CompletedIsSynced'
  BY <1>1 DEF SyncRunIInv, TasksFit, Y!CompletedIsSynced
<1>5. AgentFits'
  BY <1>1, <1>3, <1>4 DEF SyncRunIInv, Y!TypeOK, AgentFits
<1> QED
  BY <1>1, <1>2, <1>5, AgentStep DEF SyncRunIInv, Y!TypeOK
-----------------------------------------------------------------------------
(* The invariant, and what follows from it                                 *)

LEMMA Initially == Y!Init => SyncRunIInv
<1> SUFFICES ASSUME Y!Init
             PROVE  SyncRunIInv
  OBVIOUS
<1>1. Y!TypeOK
  <2>1. run \in Y!Run
    BY BoundsAssumption DEF Y!Init, Y!Run, Y!Uid
  <2>2. inputs \in 0..MaxInputs
    BY BoundsAssumption DEF Y!Init
  <2> QED
    BY <2>1, <2>2, ReturnTyped DEF Y!Init, Y!TypeOK
<1>2. ForeignKey /\ TasksFit /\ Y!CompletedIsSynced
  BY DEF Y!Init, ForeignKey, TasksFit, Y!CompletedIsSynced
<1>3. RunnerFits
  BY IdleTyped DEF Y!Init, RunnerFits
<1> QED
  BY <1>1, <1>2, <1>3 DEF SyncRunIInv

LEMMA Stutters ==
  ASSUME SyncRunIInv, UNCHANGED Y!vars
  PROVE  SyncRunIInv'
<1>1. UNCHANGED <<run, depl, cond, dtam, app, rows, mappings, ops, event, runner, notices, waiting,
                  tasks, argo, done, gaveUp, inputs>>
  BY DEF Y!vars, Y!user, Y!db, Y!agent
<1>2. Y!TypeOK' /\ ForeignKey'
  BY <1>1 DEF SyncRunIInv, Y!TypeOK, ForeignKey
<1>3. TasksFit' /\ Y!CompletedIsSynced'
  BY <1>1 DEF SyncRunIInv, TasksFit, Y!CompletedIsSynced
<1>4. RunnerFits'
  BY <1>1 DEF SyncRunIInv, RunnerFits, Accepted
<1> QED
  BY <1>2, <1>3, <1>4 DEF SyncRunIInv

LEMMA Inductive == SyncRunIInv /\ [Y!Next]_(Y!vars) => SyncRunIInv'
<1> SUFFICES ASSUME SyncRunIInv, [Y!Next]_(Y!vars)
             PROVE  SyncRunIInv'
  OBVIOUS
<1>1. CASE Y!UserStep
  BY <1>1, RunChanges, DeploymentChanges DEF Y!UserStep
<1>2. CASE Y!Runner
  BY <1>2, EventStarted, RowCreated, MappingCreated, SyncRequested, OperationPolled, TerminatedSet,
     TerminationRequested, OperationWaited, RowDeleted, MappingDeleted DEF Y!Runner
<1>3. CASE Y!Sweeps
  BY <1>3, ApplicationDetached, ApplicationDeleted, OrphanedMappingCleaned, OrphanedRowCleaned,
     OperationCleaned DEF Y!Sweeps
<1>4. CASE Y!ArgoCD
  BY <1>4, ArgoCDSteps
<1>5. CASE Y!Watch
  BY <1>5, Announced, EventRouted DEF Y!Watch
<1>6. ASSUME NEW row \in Y!Id, Y!TaskOf(row)
      PROVE  SyncRunIInv'
  BY <1>6, TaskStarted, OperationLoaded, SyncAsked, SyncCancelled, SyncReturned,
     OperationTerminated DEF Y!TaskOf
<1>7. CASE \E t \in tasks : Y!TaskFails(t)
  BY <1>7, TaskFailed
<1>8. CASE Y!PollFails \/ Y!CallFails \/ Y!BackendRestarts \/ Y!AgentRestarts
  BY <1>8, OperationPolled, CallFailed, BackendRestarted, AgentRestarted
<1>9. CASE UNCHANGED Y!vars
  BY <1>9, Stutters
<1> QED
  BY <1>1, <1>2, <1>3, <1>4, <1>5, <1>6, <1>7, <1>8, <1>9 DEF Y!Next

\* An operation on a row that is still wanted is Completed only when Argo CD has synced
\* the row, for any number of SyncRuns, failures and restarts (runAppSync, PerformTask).
THEOREM CompletedAreSynced == Y!Spec => []Y!CompletedIsSynced
<1>1. SyncRunIInv => Y!CompletedIsSynced
  BY DEF SyncRunIInv
<1> QED
  BY Initially, Inductive, <1>1, PTL DEF Y!Spec

\* Rows, operations and tasks are well formed, and a SyncRun that is handled and shows no
\* error is in the database with the revision it has
\* (applicationEventRunner_handleSyncRunModifiedInternal and the sweeps of the database
\* reconciler, whatever fails in between).
THEOREM AcceptedAreStored == Y!Spec => []Y!SyncRunInv
<1>1. SyncRunIInv => Y!SyncRunInv
  <2>1. SyncRunIInv => Y!TypeOK /\ \A r \in rows : r.app => app
    BY DEF SyncRunIInv, ForeignKey
  <2>2. SyncRunIInv => Y!OkIsAccepted
    BY DEF SyncRunIInv, RunnerFits, Accepted, Y!OkIsAccepted
  <2> QED
    BY <2>1, <2>2 DEF Y!SyncRunInv
<1> QED
  BY Initially, Inductive, <1>1, PTL DEF Y!Spec
=============================================================================
