--------------------- MODULE EnvironmentReconciler_proofs ---------------------
(***************************************************************************)
(* Proof that the Environment controller loses no change: at rest, the     *)
(* managed environment, the copy of the secret and the condition of every  *)
(* Environment are what its configuration and the objects it names ask     *)
(* for.  It holds for any number of Environments and claims, of changes    *)
(* and of calls that fail.                                                 *)
(***************************************************************************)
EXTENDS EnvironmentReconciler, TLAPS

Erroneous(e) == UserError(e) \/ (NeedsSecret(e) /\ SecretMissing(e))

CopyIsCurrent(e) == envs[e] \in Claims => copies[e] = secrets[envs[e]]

IsDeployed(e) ==
  DesiredSpec(e) # None => managed[e] = DesiredSpec(e) /\ CopyIsCurrent(e)

\* Nothing is to be done for e.
Current(e) ==
  /\ envs[e] = "gone" => managed[e] = None
  /\ envs[e] # "gone" => (failed[e] <=> Erroneous(e))
  /\ IsDeployed(e)
  /\ NeedsSecret(e) /\ SecretMissing(e) => copies[e] = None

\* The reconcile of e has a plan that fits the objects as they are, and has kept to it.
OnTrack(e) ==
  /\ worker.pc = "deleteManaged" => envs[e] = "gone"
  /\ worker.pc = "condition" =>
       /\ envs[e] # "gone"
       /\ worker.data = None => UserError(e)
       /\ worker.data # None => NeedsSecret(e) /\ SecretMissing(e)
  /\ worker.pc = "deleteCopy" => failed[e] /\ NeedsSecret(e) /\ SecretMissing(e)
  /\ worker.pc = "writeCopy" =>
       /\ worker.want = DesiredSpec(e) /\ worker.want # None
       /\ envs[e] \in Claims /\ worker.data = secrets[envs[e]]
  /\ worker.pc = "writeManaged" =>
       worker.want = DesiredSpec(e) /\ worker.want # None /\ CopyIsCurrent(e)
  /\ worker.pc = "resolve" => envs[e] # "gone" /\ ~Erroneous(e) /\ IsDeployed(e)

\* An event that the mapping functions will turn into a request for e.
Announced(e) ==
  LET c == envs[e]
  IN  /\ c \in Claims
      /\ \/ <<"claim", c>> \in events
         \/ <<"target", c>> \in events /\ claims[c] # "gone"
         \/ <<"secret", c>> \in events /\ claims[c] # "gone" /\ targets[c] # None
         \/ lost

\* What is to be done for e is requested, will be, or is being done.
Noticed(e) ==
  \/ e \in queue
  \/ Announced(e)
  \/ worker.pc # "idle" /\ worker.env = e /\ OnTrack(e)
  \/ ~(worker.pc # "idle" /\ worker.env = e) /\ Current(e)

WorkerInv == worker.pc # "idle" => worker.env \in Envs

IInv == TypeOK /\ WorkerInv /\ \A e \in Envs : Noticed(e)
\* e and the objects that it uses stay as they are.  A target counts as long as the claim
\* is there, and a secret as long as both are.
Unchanged(e) ==
  /\ envs'[e] = envs[e] /\ managed'[e] = managed[e]
  /\ copies'[e] = copies[e] /\ failed'[e] = failed[e]
  /\ LET c == envs[e]
     IN  c \in Claims =>
           /\ claims'[c] = claims[c]
           /\ claims[c] # "gone" =>
                targets'[c] = targets[c] /\ (targets[c] # None => secrets'[c] = secrets[c])

\* What is asked for depends on nothing else.
LEMMA SameNeeds ==
  ASSUME NEW e \in Envs, Unchanged(e)
  PROVE  /\ UserError(e)' = UserError(e) /\ NeedsSecret(e)' = NeedsSecret(e)
         /\ (NeedsSecret(e) /\ SecretMissing(e))' = (NeedsSecret(e) /\ SecretMissing(e))
         /\ DesiredSpec(e)' = DesiredSpec(e)
         /\ DesiredSpec(e) # None /\ envs[e] \in Claims => secrets'[envs[e]] = secrets[envs[e]]
<1> DEFINE c == envs[e]
<1>1. CASE c \in Claims
  <2>1. UserError(e)' = UserError(e) /\ NeedsSecret(e)' = NeedsSecret(e)
    BY <1>1 DEF Unchanged, UserError, NeedsSecret
  <2>2. NeedsSecret(e) => claims[c] # "gone" /\ targets[c] # None
    BY <1>1, NamesAssumption DEF NeedsSecret
  <2>3. NeedsSecret(e) => secrets'[c] = secrets[c] /\ targets'[c] = targets[c]
    BY <1>1, <2>2 DEF Unchanged
  <2>4. NeedsSecret(e) => SecretMissing(e)' = SecretMissing(e)
    BY <1>1, <2>3 DEF Unchanged, SecretMissing
  <2>5. DesiredSpec(e)' = DesiredSpec(e)
    BY <1>1, <2>1, <2>3, <2>4 DEF Unchanged, DesiredSpec
  <2>6. DesiredSpec(e) # None => NeedsSecret(e)
    BY DEF DesiredSpec
  <2> QED
    BY <2>1, <2>3, <2>4, <2>5, <2>6
<1>2. CASE c \notin Claims
  <2>1. /\ UserError(e)' = UserError(e) /\ NeedsSecret(e)' = NeedsSecret(e)
        /\ SecretMissing(e)' = SecretMissing(e)
    BY <1>2 DEF Unchanged, UserError, NeedsSecret, SecretMissing
  <2>2. NeedsSecret(e) /\ ~SecretMissing(e) => c = "own"
    BY <1>2 DEF NeedsSecret, SecretMissing
  <2>3. DesiredSpec(e)' = DesiredSpec(e)
    BY <2>1, <2>2 DEF Unchanged, DesiredSpec
  <2> QED
    BY <1>2, <2>1, <2>3
<1> QED
  BY <1>1, <1>2

LEMMA KeepsCurrent ==
  ASSUME NEW e \in Envs, Unchanged(e), Current(e)
  PROVE  Current(e)'
<1>1. Erroneous(e)' = Erroneous(e)
  BY SameNeeds DEF Erroneous
<1>2. IsDeployed(e)'
  BY SameNeeds DEF Current, IsDeployed, CopyIsCurrent, Unchanged
<1> QED
  BY <1>1, <1>2, SameNeeds DEF Current, Unchanged

LEMMA KeepsTrack ==
  ASSUME NEW e \in Envs, Unchanged(e), OnTrack(e), worker' = worker
  PROVE  OnTrack(e)'
<1>1. Erroneous(e)' = Erroneous(e)
  BY SameNeeds DEF Erroneous
<1>2. IsDeployed(e) => IsDeployed(e)'
  BY SameNeeds DEF IsDeployed, CopyIsCurrent, Unchanged
<1>3. DesiredSpec(e) # None /\ CopyIsCurrent(e) => CopyIsCurrent(e)'
  BY SameNeeds DEF CopyIsCurrent, Unchanged
<1>4. /\ (worker.pc = "deleteManaged" => envs[e] = "gone")'
      /\ (worker.pc = "condition" =>
            /\ envs[e] # "gone"
            /\ worker.data = None => UserError(e)
            /\ worker.data # None => NeedsSecret(e) /\ SecretMissing(e))'
      /\ (worker.pc = "deleteCopy" => failed[e] /\ NeedsSecret(e) /\ SecretMissing(e))'
  BY SameNeeds DEF OnTrack, Unchanged
<1>5. (worker.pc = "writeCopy" =>
         /\ worker.want = DesiredSpec(e) /\ worker.want # None
         /\ envs[e] \in Claims /\ worker.data = secrets[envs[e]])'
  BY SameNeeds DEF OnTrack, Unchanged
<1>6. (worker.pc = "writeManaged" =>
         worker.want = DesiredSpec(e) /\ worker.want # None /\ CopyIsCurrent(e))'
  BY <1>3, SameNeeds DEF OnTrack, Unchanged
<1>7. (worker.pc = "resolve" => envs[e] # "gone" /\ ~Erroneous(e) /\ IsDeployed(e))'
  BY <1>1, <1>2 DEF OnTrack, Unchanged
<1> QED
  BY <1>4, <1>5, <1>6, <1>7 DEF OnTrack

\* A step that neither touches e nor drops what is announced for it, and starts or ends
\* no reconcile of e.
LEMMA KeepsNoticed ==
  ASSUME NEW e \in Envs, Noticed(e), Unchanged(e),
         e \in queue => e \in queue', events \subseteq events', lost => lost',
         \/ worker' = worker
         \/ /\ ~(worker.pc # "idle" /\ worker.env = e)
            /\ ~(worker'.pc # "idle" /\ worker'.env = e)
  PROVE  Noticed(e)'
<1>1. CASE e \in queue
  BY <1>1 DEF Noticed
<1>2. CASE Announced(e)
  <2>1. Announced(e)'
    BY <1>2 DEF Announced, Unchanged
  <2> QED
    BY <2>1 DEF Noticed
<1>3. CASE worker.pc # "idle" /\ worker.env = e /\ OnTrack(e)
  <2>1. worker' = worker /\ OnTrack(e)'
    BY <1>3, KeepsTrack
  <2> QED
    BY <1>3, <2>1 DEF Noticed
<1>4. CASE ~(worker.pc # "idle" /\ worker.env = e) /\ Current(e)
  <2>1. Current(e)'
    BY <1>4, KeepsCurrent
  <2> QED
    BY <1>4, <2>1 DEF Noticed
<1> QED
  BY <1>1, <1>2, <1>3, <1>4 DEF Noticed

\* What users and other controllers change is noticed.
LEMMA UserStep ==
  ASSUME IInv, Users
  PROVE  IInv'
<1>1. /\ envs \in [Envs -> Configs] /\ claims \in [Claims -> {"gone", "pending", "bound"}]
      /\ targets \in [Claims -> Version \union {None}]
      /\ secrets \in [Claims -> Version \union {None}]
      /\ managed \in [Envs -> ManagedSpec \union {None}]
      /\ copies \in [Envs -> Version \union {None}] /\ failed \in [Envs -> BOOLEAN]
      /\ events \subseteq ({"claim", "target", "secret"} \X Claims) /\ queue \subseteq Envs
      /\ \A e \in Envs : Noticed(e)
  BY DEF IInv, TypeOK
<1>2. Change => changes' \in 0..MaxChanges
  BY BoundsAssumption DEF Change, IInv, TypeOK
<1>3. ASSUME NEW u \in Envs, NEW x \in Configs, ChangeEnvironment(u, x)
      PROVE  IInv'
  <2>1. /\ envs' \in [Envs -> Configs] /\ queue' \subseteq Envs
        /\ copies' \in [Envs -> Version \union {None}] /\ failed' \in [Envs -> BOOLEAN]
    BY <1>1, <1>3 DEF ChangeEnvironment
  <2>2. TypeOK'
    BY <1>2, <1>3, <2>1 DEF ChangeEnvironment, objects, IInv, TypeOK
  <2>3. ASSUME NEW e \in Envs
        PROVE  Noticed(e)'
    <3>1. CASE e = u
      BY <1>3, <3>1 DEF ChangeEnvironment, Noticed
    <3>2. CASE e # u
      <4>1. Unchanged(e)
        BY <1>1, <1>3, <3>2 DEF ChangeEnvironment, objects, Unchanged
      <4> QED
        BY <1>1, <1>3, <4>1, KeepsNoticed DEF ChangeEnvironment
    <3> QED
      BY <3>1, <3>2
  <2> QED
    BY <1>3, <2>2, <2>3 DEF ChangeEnvironment, IInv, WorkerInv
<1>4. ASSUME NEW c \in Claims, NEW x \in {"gone", "pending", "bound"}, ChangeClaim(c, x)
      PROVE  IInv'
  <2>1. /\ claims' \in [Claims -> {"gone", "pending", "bound"}]
        /\ events' \subseteq ({"claim", "target", "secret"} \X Claims)
    BY <1>1, <1>4 DEF ChangeClaim
  <2>2. TypeOK'
    BY <1>2, <1>4, <2>1 DEF ChangeClaim, results, IInv, TypeOK
  <2>3. ASSUME NEW e \in Envs
        PROVE  Noticed(e)'
    <3>1. CASE envs[e] = c
      BY <1>4, <3>1 DEF ChangeClaim, Noticed, Announced
    <3>2. CASE envs[e] # c
      <4>1. Unchanged(e)
        BY <1>1, <1>4, <3>2 DEF ChangeClaim, results, Unchanged
      <4> QED
        BY <1>1, <1>4, <4>1, KeepsNoticed DEF ChangeClaim
    <3> QED
      BY <3>1, <3>2
  <2> QED
    BY <1>4, <2>2, <2>3 DEF ChangeClaim, IInv, WorkerInv
<1>5. ASSUME NEW c \in Claims, NEW x \in Version \union {None}, ChangeTarget(c, x)
      PROVE  IInv'
  <2>1. /\ targets' \in [Claims -> Version \union {None}]
        /\ events' \subseteq ({"claim", "target", "secret"} \X Claims)
    BY <1>1, <1>5 DEF ChangeTarget
  <2>2. TypeOK'
    BY <1>2, <1>5, <2>1 DEF ChangeTarget, results, IInv, TypeOK
  <2>3. ASSUME NEW e \in Envs
        PROVE  Noticed(e)'
    <3>1. CASE envs[e] = c /\ claims[c] # "gone"
      BY <1>5, <3>1 DEF ChangeTarget, Noticed, Announced
    <3>2. CASE ~(envs[e] = c /\ claims[c] # "gone")
      <4>1. Unchanged(e)
        BY <1>1, <1>5, <3>2 DEF ChangeTarget, results, Unchanged
      <4> QED
        BY <1>1, <1>5, <4>1, KeepsNoticed DEF ChangeTarget
    <3> QED
      BY <3>1, <3>2
  <2> QED
    BY <1>5, <2>2, <2>3 DEF ChangeTarget, IInv, WorkerInv
<1>6. ASSUME NEW c \in Claims, NEW x \in Version \union {None}, ChangeSecret(c, x)
      PROVE  IInv'
  <2>1. /\ secrets' \in [Claims -> Version \union {None}]
        /\ events' \subseteq ({"claim", "target", "secret"} \X Claims)
    BY <1>1, <1>6 DEF ChangeSecret
  <2>2. TypeOK'
    BY <1>2, <1>6, <2>1 DEF ChangeSecret, results, IInv, TypeOK
  <2>3. ASSUME NEW e \in Envs
        PROVE  Noticed(e)'
    <3>1. CASE envs[e] = c /\ claims[c] # "gone" /\ targets[c] # None
      BY <1>6, <3>1 DEF ChangeSecret, Noticed, Announced
    <3>2. CASE ~(envs[e] = c /\ claims[c] # "gone" /\ targets[c] # None)
      <4>1. Unchanged(e)
        BY <1>1, <1>6, <3>2 DEF ChangeSecret, results, Unchanged
      <4> QED
        BY <1>1, <1>6, <4>1, KeepsNoticed DEF ChangeSecret
    <3> QED
      BY <3>1, <3>2
  <2> QED
    BY <1>6, <2>2, <2>3 DEF ChangeSecret, IInv, WorkerInv
<1>7. ASSUME NEW u \in Envs, ChangeManaged(u) \/ ChangeCopy(u)
      PROVE  IInv'
  <2>1. /\ managed' \in [Envs -> ManagedSpec \union {None}] /\ queue' \subseteq Envs
        /\ copies' \in [Envs -> Version \union {None}]
    BY <1>1, <1>7 DEF ChangeManaged, ChangeCopy
  <2>2. TypeOK'
    BY <1>2, <1>7, <2>1 DEF ChangeManaged, ChangeCopy, objects, IInv, TypeOK
  <2>3. ASSUME NEW e \in Envs
        PROVE  Noticed(e)'
    <3>1. CASE e = u
      BY <1>7, <3>1 DEF ChangeManaged, ChangeCopy, Noticed
    <3>2. CASE e # u
      <4>1. Unchanged(e)
        BY <1>1, <1>7, <3>2 DEF ChangeManaged, ChangeCopy, objects, Unchanged
      <4> QED
        BY <1>1, <1>7, <4>1, KeepsNoticed DEF ChangeManaged, ChangeCopy
    <3> QED
      BY <3>1, <3>2
  <2> QED
    BY <1>7, <2>2, <2>3 DEF ChangeManaged, ChangeCopy, IInv, WorkerInv
<1> QED
  BY <1>3, <1>4, <1>5, <1>6, <1>7 DEF Users

\* The mapping functions make the requests that an event stands for, or else the history
\* variable says that one was not made.
LEMMA EventStep ==
  ASSUME IInv, NEW kind \in {"claim", "target", "secret"}, NEW c \in Claims, DeliverEvent(kind, c)
  PROVE  IInv'
<1>1. Requests(kind, c) \subseteq Envs
  BY DEF Requests, findObjectsForDeploymentTargetClaim, findObjectsForDeploymentTarget,
         findObjectsForSecret, UsersOf
<1>2. TypeOK'
  BY <1>1 DEF DeliverEvent, objects, results, IInv, TypeOK
<1>3. ASSUME NEW e \in Envs
      PROVE  Noticed(e)'
  <2>1. Unchanged(e) /\ worker' = worker /\ Noticed(e)
    BY DEF DeliverEvent, objects, results, Unchanged, IInv
  <2>2. queue \subseteq queue' /\ (lost => lost')
    BY DEF DeliverEvent
  <2>3. CASE Announced(e)
    <3>1. CASE envs[e] # c \/ lost
      BY <2>3, <3>1 DEF DeliverEvent, objects, Noticed, Announced
    <3>2. CASE envs[e] = c /\ ~lost
      <4>1. CASE e \in Requests(kind, c)
        BY <4>1 DEF DeliverEvent, Noticed
      <4>2. CASE e \notin Requests(kind, c)
        <5>1. e \in UsersOf(c)
          BY <3>2 DEF UsersOf
        <5>2. CASE kind = "claim"
          BY <4>2, <5>1, <5>2 DEF Requests, findObjectsForDeploymentTargetClaim
        <5>3. CASE kind = "target"
          <6>1. claims[c] = "gone"
            BY <4>2, <5>1, <5>3 DEF Requests, findObjectsForDeploymentTarget
          <6> QED
            BY <2>3, <3>2, <5>3, <6>1 DEF DeliverEvent, objects, Noticed, Announced
        <5>4. CASE kind = "secret"
          <6>1. CASE lost'
            BY <3>2, <6>1 DEF DeliverEvent, objects, Noticed, Announced
          <6>2. CASE ~lost'
            <7>1. e \notin SecretUsersOf(c)
              BY <4>2, <5>4, <6>2 DEF DeliverEvent
            <7>2. claims[c] = "gone" \/ targets[c] = None
              BY <5>1, <7>1 DEF SecretUsersOf
            <7> QED
              BY <2>3, <3>2, <5>4, <7>2 DEF DeliverEvent, objects, Noticed, Announced
          <6> QED
            BY <6>1, <6>2
        <5> QED
          BY <5>2, <5>3, <5>4
      <4> QED
        BY <4>1, <4>2
    <3> QED
      BY <3>1, <3>2
  <2>4. CASE e \in queue
    BY <2>2, <2>4 DEF Noticed
  <2>5. CASE worker.pc # "idle" /\ worker.env = e /\ OnTrack(e)
    BY <2>1, <2>5, KeepsTrack DEF Noticed
  <2>6. CASE ~(worker.pc # "idle" /\ worker.env = e) /\ Current(e)
    BY <2>1, <2>6, KeepsCurrent DEF Noticed
  <2> QED
    BY <2>1, <2>3, <2>4, <2>5, <2>6 DEF Noticed
<1> QED
  BY <1>2, <1>3 DEF DeliverEvent, IInv, WorkerInv

\* A managed environment is asked for only with all it is made of.
LEMMA DesiredSpecType ==
  ASSUME TypeOK, NEW e \in Envs
  PROVE  /\ DesiredSpec(e) \in ManagedSpec \union {None}
         /\ DesiredSpec(e) = None <=> ~NeedsSecret(e) \/ SecretMissing(e)
         /\ UserError(e) => ~NeedsSecret(e)
         /\ envs[e] = "gone" => ~UserError(e) /\ ~NeedsSecret(e)
         /\ DesiredSpec(e) # None /\ envs[e] # "own" => envs[e] \in Claims
<1>1. envs[e] \in Configs
  BY DEF TypeOK
<1>2. /\ UserError(e) => ~NeedsSecret(e)
      /\ envs[e] = "gone" => ~UserError(e) /\ ~NeedsSecret(e)
  BY NamesAssumption DEF UserError, NeedsSecret
<1>3. CASE ~NeedsSecret(e) \/ SecretMissing(e)
  BY <1>2, <1>3 DEF DesiredSpec
<1>4. CASE NeedsSecret(e) /\ ~SecretMissing(e)
  <2>1. envs[e] \in Claims \/ envs[e] = "own"
    BY <1>1, <1>4 DEF NeedsSecret, SecretMissing, Configs
  <2>2. envs[e] # "own" => envs[e] \in Claims /\ targets[envs[e]] \in Version
    <3> SUFFICES ASSUME envs[e] \in Claims, envs[e] # "own"
                 PROVE  targets[envs[e]] \in Version
      BY <2>1
    <3>1. targets[envs[e]] # None
      BY <1>4, NamesAssumption DEF NeedsSecret
    <3> QED
      BY <3>1 DEF TypeOK
  <2>3. (IF envs[e] = "own" THEN 0 ELSE targets[envs[e]]) \in Version
    BY <2>2 DEF Version
  <2>4. [from |-> envs[e], creds |-> IF envs[e] = "own" THEN 0 ELSE targets[envs[e]]] \in ManagedSpec
    BY <2>1, <2>3 DEF ManagedSpec
  <2>5. DesiredSpec(e) \in ManagedSpec
    BY <1>4, <2>4 DEF DesiredSpec
  <2> QED
    BY <1>2, <1>4, <2>2, <2>5, NoneAssumption
<1> QED
  BY <1>3, <1>4

\* generateDesiredResource makes a plan that fits what it has read.
LEMMA ReconcileBegins ==
  ASSUME IInv, NEW u \in Envs, Reconcile(u)
  PROVE  IInv'
<1> DEFINE do(pc) == [Idle EXCEPT !.pc = pc, !.env = u, !.read = envs[u], !.want = DesiredSpec(u)]
<1>1. TypeOK /\ \A e \in Envs : Noticed(e)
  BY DEF IInv
<1>2. /\ UNCHANGED <<envs, claims, targets, secrets, managed, copies, failed, events, lost>>
      /\ worker.pc = "idle" /\ worker' = Plan(u) /\ queue' = queue \ {u}
  BY DEF Reconcile, objects, results
<1>3. \A e \in Envs : Unchanged(e)
  BY <1>2 DEF Unchanged
<1>4. /\ DesiredSpec(u) \in ManagedSpec \union {None} /\ envs[u] \in Configs
      /\ DesiredSpec(u) = None <=> ~NeedsSecret(u) \/ SecretMissing(u)
      /\ UserError(u) => ~NeedsSecret(u)
      /\ envs[u] = "gone" => ~UserError(u) /\ ~NeedsSecret(u)
      /\ DesiredSpec(u) # None /\ envs[u] # "own" => envs[u] \in Claims
  BY <1>1, DesiredSpecType DEF TypeOK
<1>5. 0 \in Version /\ None \notin Version
  BY NoneAssumption DEF Version
<1>6. \A pc \in {"deleteManaged", "condition", "deleteCopy", "writeCopy", "writeManaged", "resolve"} :
        /\ do(pc) \in Worker /\ do(pc).pc = pc /\ do(pc).env = u
        /\ do(pc).want = DesiredSpec(u) /\ do(pc).data = None
        /\ \A v \in Version \union {None} :
             /\ [do(pc) EXCEPT !.data = v] \in Worker /\ [do(pc) EXCEPT !.data = v].pc = pc
             /\ [do(pc) EXCEPT !.data = v].env = u /\ [do(pc) EXCEPT !.data = v].data = v
             /\ [do(pc) EXCEPT !.data = v].want = DesiredSpec(u)
  BY <1>4 DEF Idle, Worker
<1> HIDE DEF do
<1>7. /\ worker' \in Worker /\ worker'.env = u /\ worker'.pc # "idle" /\ OnTrack(u)'
      /\ worker'.pc = "writeCopy" => worker'.data # None /\ worker'.want # None
  <2>1. CASE envs[u] = "gone"
    <3>1. worker' = do("deleteManaged")
      BY <1>2, <1>4, <2>1 DEF Plan, do
    <3> QED
      BY <1>2, <1>6, <2>1, <3>1 DEF OnTrack
  <2>2. CASE envs[u] # "gone" /\ UserError(u)
    <3>1. worker' = do("condition")
      BY <1>2, <1>4, <2>2 DEF Plan, do
    <3>2. UserError(u)'
      BY <1>3, <2>2, SameNeeds
    <3> QED
      BY <1>2, <1>6, <2>2, <3>1, <3>2 DEF OnTrack
  <2>3. CASE envs[u] # "gone" /\ NeedsSecret(u) /\ SecretMissing(u)
    <3>1. worker' = [do("condition") EXCEPT !.data = 0]
      BY <1>2, <1>4, <2>3 DEF Plan, do
    <3>2. (NeedsSecret(u) /\ SecretMissing(u))'
      BY <1>3, <2>3, SameNeeds
    <3> QED
      BY <1>2, <1>5, <1>6, <2>3, <3>1, <3>2 DEF OnTrack
  <2>4. CASE envs[u] # "gone" /\ ~UserError(u) /\ ~NeedsSecret(u)
    <3>1. worker' = do("resolve")
      BY <1>2, <1>4, <2>4 DEF Plan, do
    <3>2. ~Erroneous(u)' /\ DesiredSpec(u)' = None
      BY <1>3, <1>4, <2>4, SameNeeds DEF Erroneous
    <3> QED
      BY <1>2, <1>6, <2>4, <3>1, <3>2 DEF OnTrack, IsDeployed
  <2>5. CASE envs[u] = "own" /\ NeedsSecret(u) /\ ~SecretMissing(u)
    <3>1. worker' = do("writeManaged")
      BY <1>2, <1>4, <2>5 DEF Plan, do
    <3>2. DesiredSpec(u)' = DesiredSpec(u) /\ DesiredSpec(u) # None
      BY <1>3, <1>4, <2>5, SameNeeds
    <3>3. CopyIsCurrent(u)'
      BY <1>2, <2>5, NamesAssumption DEF CopyIsCurrent
    <3> QED
      BY <1>2, <1>6, <2>5, <3>1, <3>2, <3>3 DEF OnTrack
  <2>6. CASE envs[u] \notin {"gone", "own"} /\ NeedsSecret(u) /\ ~SecretMissing(u)
    <3>1. worker' = [do("writeCopy") EXCEPT !.data = secrets[envs[u]]]
      BY <1>2, <1>4, <2>6 DEF Plan, do
    <3>2. DesiredSpec(u)' = DesiredSpec(u) /\ DesiredSpec(u) # None /\ envs[u] \in Claims
      BY <1>3, <1>4, <2>6, SameNeeds
    <3>3. secrets[envs[u]] \in Version
      BY <1>1, <2>6, <3>2 DEF SecretMissing, TypeOK
    <3> QED
      BY <1>2, <1>5, <1>6, <2>6, <3>1, <3>2, <3>3 DEF OnTrack
  <2> QED
    BY <2>1, <2>2, <2>3, <2>4, <2>5, <2>6
<1>8. TypeOK'
  BY <1>1, <1>7 DEF Reconcile, objects, results, TypeOK
<1>9. ASSUME NEW e \in Envs
      PROVE  Noticed(e)'
  <2>1. CASE e = u
    BY <1>7, <2>1 DEF Noticed
  <2>2. CASE e # u
    BY <1>1, <1>2, <1>3, <1>7, <2>2, KeepsNoticed
  <2> QED
    BY <2>1, <2>2
<1> QED
  BY <1>7, <1>8, <1>9 DEF IInv, WorkerInv

\* A step of the reconcile of w keeps to the plan, or ends with nothing left to do, if
\* the plan fits; or else w is reconciled again.
LEMMA WorkerKeepsNoticed ==
  ASSUME IInv, TypeOK', NEW w \in Envs, worker.pc # "idle", worker.env = w,
         UNCHANGED <<envs, claims, targets, secrets, events, lost>>, queue \subseteq queue',
         worker'.pc = "idle" \/ worker'.env = w,
         \A e \in Envs \ {w} : /\ managed'[e] = managed[e] /\ copies'[e] = copies[e]
                               /\ failed'[e] = failed[e],
         OnTrack(w) /\ w \notin queue' =>
           /\ worker'.pc = "idle" => Current(w)'
           /\ worker'.pc # "idle" => OnTrack(w)'
  PROVE  IInv'
<1>1. ASSUME NEW e \in Envs
      PROVE  Noticed(e)'
  <2>1. Noticed(e)
    BY DEF IInv
  <2>2. CASE e # w
    <3>1. Unchanged(e)
      BY <2>2 DEF Unchanged
    <3> QED
      BY <2>1, <2>2, <3>1, KeepsNoticed
  <2>3. CASE e = w /\ (e \in queue' \/ Announced(e))
    BY <2>3 DEF Noticed, Announced
  <2>4. CASE e = w /\ e \notin queue' /\ ~Announced(e)
    <3>1. OnTrack(w)
      BY <2>1, <2>4 DEF Noticed
    <3> QED
      BY <2>4, <3>1 DEF Noticed
  <2> QED
    BY <2>2, <2>3, <2>4
<1> QED
  BY <1>1 DEF IInv, WorkerInv

\* Every step of a reconcile, whether it is out of date or not, keeps what is noticed.
LEMMA WorkerStep ==
  ASSUME IInv,
         \/ DeleteManaged \/ updateEnvironmentReconciledStatusCondition \/ DeleteCopy
         \/ WriteCopy \/ WriteManaged \/ updateConditionErrorAsResolved \/ ReconcileFails
  PROVE  IInv'
<1>1. worker.pc # "idle" /\ UNCHANGED <<envs, claims, targets, secrets, events, lost, changes>>
  BY DEF DeleteManaged, updateEnvironmentReconciledStatusCondition, DeleteCopy, WriteCopy,
         WriteManaged, updateConditionErrorAsResolved, ReconcileFails, objects
<1>2. PICK w \in Envs : w = worker.env
  BY <1>1 DEF IInv, WorkerInv
<1>3. /\ envs \in [Envs -> Configs] /\ worker \in Worker /\ queue \subseteq Envs
      /\ managed \in [Envs -> ManagedSpec \union {None}]
      /\ copies \in [Envs -> Version \union {None}] /\ failed \in [Envs -> BOOLEAN]
  BY DEF IInv, TypeOK
<1>4. Idle \in Worker /\ Idle.pc = "idle"
  BY DEF Idle, Worker, Configs
<1>5. /\ DesiredSpec(w) \in ManagedSpec \union {None}
      /\ DesiredSpec(w) = None <=> ~NeedsSecret(w) \/ SecretMissing(w)
      /\ UserError(w) => ~NeedsSecret(w)
      /\ envs[w] = "gone" => ~UserError(w) /\ ~NeedsSecret(w)
  BY DesiredSpecType DEF IInv
<1>6. /\ UserError(w)' = UserError(w) /\ NeedsSecret(w)' = NeedsSecret(w)
      /\ SecretMissing(w)' = SecretMissing(w) /\ DesiredSpec(w)' = DesiredSpec(w)
  BY <1>1 DEF UserError, NeedsSecret, SecretMissing, DesiredSpec
<1>7. Erroneous(w)' = Erroneous(w)
  BY <1>6 DEF Erroneous
<1>8. CASE DeleteManaged
  <2>1. /\ worker.pc = "deleteManaged" /\ managed' = [managed EXCEPT ![w] = None]
        /\ queue \subseteq queue' /\ queue' \subseteq Envs
        /\ worker' = Idle /\ UNCHANGED <<copies, failed, faults>>
    BY <1>2, <1>3, <1>8 DEF DeleteManaged
  <2>2. TypeOK'
    BY <1>1, <1>3, <1>4, <2>1 DEF IInv, TypeOK
  <2>3. OnTrack(w) => Current(w)'
    BY <1>1, <1>3, <1>5, <1>6, <2>1 DEF OnTrack, Current, IsDeployed
  <2> QED
    BY <1>1, <1>2, <1>3, <1>4, <2>1, <2>2, <2>3, WorkerKeepsNoticed
<1>9. CASE updateEnvironmentReconciledStatusCondition
  <2>1. /\ worker.pc = "condition" /\ UNCHANGED <<managed, copies, faults>>
        /\ failed' = [failed EXCEPT ![w] = @ \/ envs[w] # "gone"]
        /\ queue \subseteq queue' /\ queue' \subseteq Envs
        /\ worker' = AfterCondition
        /\ ConditionChanges => w \in queue'
    BY <1>2, <1>3, <1>9 DEF updateEnvironmentReconciledStatusCondition
  <2>2. /\ worker' \in Worker /\ worker'.pc \in {"idle", "deleteCopy"}
        /\ worker'.pc # "idle" => worker'.env = w /\ worker.data # None
        /\ worker'.pc = "idle" => worker.data = None
    BY <1>2, <1>3, <1>4, <2>1 DEF AfterCondition, Worker
  <2>3. failed' \in [Envs -> BOOLEAN] /\ (envs[w] # "gone" => failed'[w] = TRUE)
    BY <1>3, <2>1
  <2>4. TypeOK'
    BY <1>1, <1>3, <2>1, <2>2, <2>3 DEF IInv, TypeOK
  <2>5. OnTrack(w) /\ worker'.pc = "idle" => Current(w)'
    <3> SUFFICES ASSUME OnTrack(w), worker'.pc = "idle"
                 PROVE  Current(w)'
      OBVIOUS
    <3>1. envs[w] # "gone" /\ UserError(w)
      BY <2>1, <2>2 DEF OnTrack
    <3>2. Erroneous(w)' /\ ~NeedsSecret(w)' /\ DesiredSpec(w)' = None
      BY <1>5, <1>6, <3>1 DEF Erroneous
    <3> QED
      BY <1>1, <2>3, <3>1, <3>2 DEF Current, IsDeployed
  <2>6. OnTrack(w) /\ worker'.pc # "idle" => OnTrack(w)'
    <3> SUFFICES ASSUME OnTrack(w), worker'.pc # "idle"
                 PROVE  OnTrack(w)'
      OBVIOUS
    <3>1. envs[w] # "gone" /\ NeedsSecret(w) /\ SecretMissing(w)
      BY <2>1, <2>2 DEF OnTrack
    <3>2. worker'.pc = "deleteCopy" /\ NeedsSecret(w)' /\ SecretMissing(w)'
      BY <1>6, <2>2, <3>1
    <3> QED
      BY <2>3, <3>1, <3>2 DEF OnTrack
  <2>7. \A e \in Envs \ {w} : failed'[e] = failed[e]
    BY <1>3, <2>1
  <2> QED
    BY <1>1, <1>2, <2>1, <2>2, <2>4, <2>5, <2>6, <2>7, WorkerKeepsNoticed
<1>10. CASE DeleteCopy
  <2>1. /\ worker.pc = "deleteCopy" /\ copies' = [copies EXCEPT ![w] = None]
        /\ queue \subseteq queue' /\ queue' \subseteq Envs
        /\ worker' = Idle /\ UNCHANGED <<managed, failed, faults>>
    BY <1>2, <1>3, <1>10 DEF DeleteCopy
  <2>2. TypeOK'
    BY <1>1, <1>3, <1>4, <2>1 DEF IInv, TypeOK
  <2>3. OnTrack(w) => Current(w)'
    <3> SUFFICES ASSUME OnTrack(w)
                 PROVE  Current(w)'
      OBVIOUS
    <3>1. failed[w] /\ NeedsSecret(w) /\ SecretMissing(w)
      BY <2>1 DEF OnTrack
    <3>2. Erroneous(w)' /\ DesiredSpec(w)' = None /\ envs[w] # "gone" /\ copies'[w] = None
      BY <1>3, <1>5, <1>6, <2>1, <3>1 DEF Erroneous
    <3> QED
      BY <1>1, <2>1, <3>1, <3>2 DEF Current, IsDeployed
  <2> QED
    BY <1>1, <1>2, <1>3, <1>4, <2>1, <2>2, <2>3, WorkerKeepsNoticed
<1>11. CASE WriteCopy
  <2>1. /\ worker.pc = "writeCopy" /\ UNCHANGED <<managed, failed, faults>>
        /\ queue \subseteq queue' /\ queue' \subseteq Envs
        /\ worker' = [worker EXCEPT !.pc = "writeManaged"]
        /\ w \notin queue' => copies'[w] = worker.data
    BY <1>2, <1>3, <1>11 DEF WriteCopy, CopyDiffers
  <2>2. worker.data \in Version
    BY <1>3, <2>1 DEF IInv, TypeOK, Worker
  <2>3. /\ copies' \in [Envs -> Version \union {None}]
        /\ \A e \in Envs \ {w} : copies'[e] = copies[e]
    BY <1>2, <1>3, <1>11, <2>2 DEF WriteCopy
  <2>4. /\ worker' \in Worker /\ worker'.pc = "writeManaged" /\ worker'.env = w
        /\ worker'.want = worker.want
    BY <1>2, <1>3, <2>1 DEF Worker
  <2>5. TypeOK'
    BY <1>1, <2>1, <2>3, <2>4 DEF IInv, TypeOK
  <2>6. OnTrack(w) /\ w \notin queue' => OnTrack(w)'
    <3> SUFFICES ASSUME OnTrack(w), w \notin queue'
                 PROVE  OnTrack(w)'
      OBVIOUS
    <3>1. /\ worker.want = DesiredSpec(w) /\ worker.want # None
          /\ envs[w] \in Claims /\ worker.data = secrets[envs[w]]
      BY <2>1 DEF OnTrack
    <3>2. CopyIsCurrent(w)'
      BY <1>1, <2>1, <3>1 DEF CopyIsCurrent
    <3> QED
      BY <1>6, <2>4, <3>1, <3>2 DEF OnTrack
  <2> QED
    BY <1>1, <1>2, <2>1, <2>3, <2>4, <2>5, <2>6, WorkerKeepsNoticed
<1>12. CASE WriteManaged
  <2>1. /\ worker.pc = "writeManaged" /\ UNCHANGED <<copies, failed, faults>>
        /\ managed' = [managed EXCEPT ![w] = worker.want]
        /\ queue \subseteq queue' /\ queue' \subseteq Envs
        /\ worker' = [worker EXCEPT !.pc = "resolve"]
    BY <1>2, <1>3, <1>12 DEF WriteManaged
  <2>2. worker.want \in ManagedSpec \union {None}
    BY <1>3 DEF Worker
  <2>3. managed' \in [Envs -> ManagedSpec \union {None}] /\ managed'[w] = worker.want
    BY <1>3, <2>1, <2>2
  <2>4. worker' \in Worker /\ worker'.pc = "resolve" /\ worker'.env = w
    BY <1>2, <1>3, <2>1 DEF Worker
  <2>5. TypeOK'
    BY <1>1, <1>3, <2>1, <2>3, <2>4 DEF IInv, TypeOK
  <2>6. OnTrack(w) => OnTrack(w)'
    <3> SUFFICES ASSUME OnTrack(w)
                 PROVE  OnTrack(w)'
      OBVIOUS
    <3>1. worker.want = DesiredSpec(w) /\ worker.want # None /\ CopyIsCurrent(w)
      BY <2>1 DEF OnTrack
    <3>2. CopyIsCurrent(w)'
      BY <1>1, <2>1, <3>1 DEF CopyIsCurrent
    <3>3. IsDeployed(w)'
      BY <1>6, <2>3, <3>1, <3>2 DEF IsDeployed
    <3>4. envs[w] # "gone" /\ ~Erroneous(w)
      BY <1>5, <3>1 DEF Erroneous
    <3> QED
      BY <1>1, <1>7, <2>4, <3>3, <3>4 DEF OnTrack
  <2>7. \A e \in Envs \ {w} : managed'[e] = managed[e]
    BY <1>3, <2>1
  <2> QED
    BY <1>1, <1>2, <2>1, <2>4, <2>5, <2>6, <2>7, WorkerKeepsNoticed
<1>13. CASE updateConditionErrorAsResolved
  <2>1. /\ worker.pc = "resolve" /\ failed' = [failed EXCEPT ![w] = FALSE]
        /\ queue \subseteq queue' /\ queue' \subseteq Envs
        /\ worker' = Idle /\ UNCHANGED <<managed, copies, faults>>
    BY <1>2, <1>3, <1>13 DEF updateConditionErrorAsResolved
  <2>2. TypeOK'
    BY <1>1, <1>3, <1>4, <2>1 DEF IInv, TypeOK
  <2>3. OnTrack(w) => Current(w)'
    <3> SUFFICES ASSUME OnTrack(w)
                 PROVE  Current(w)'
      OBVIOUS
    <3>1. envs[w] # "gone" /\ ~Erroneous(w) /\ IsDeployed(w)
      BY <2>1 DEF OnTrack
    <3>2. IsDeployed(w)'
      BY <1>1, <1>6, <2>1, <3>1 DEF IsDeployed, CopyIsCurrent
    <3>3. failed'[w] = FALSE /\ ~Erroneous(w)'
      BY <1>3, <1>7, <2>1, <3>1
    <3>4. ~(NeedsSecret(w) /\ SecretMissing(w))'
      BY <3>3 DEF Erroneous
    <3> QED
      BY <1>1, <3>1, <3>2, <3>3, <3>4 DEF Current
  <2> QED
    BY <1>1, <1>2, <1>3, <1>4, <2>1, <2>2, <2>3, WorkerKeepsNoticed
<1>14. CASE ReconcileFails
  <2>1. /\ w \in queue' /\ queue \subseteq queue' /\ queue' \subseteq Envs
        /\ worker' = Idle /\ UNCHANGED <<managed, copies, failed>>
    BY <1>2, <1>3, <1>14 DEF ReconcileFails, results
  <2>2. faults' \in 0..MaxFaults
    BY <1>14, BoundsAssumption DEF ReconcileFails, IInv, TypeOK
  <2>3. TypeOK'
    BY <1>1, <1>4, <2>1, <2>2 DEF IInv, TypeOK
  <2> QED
    BY <1>1, <1>2, <1>4, <2>1, <2>3, WorkerKeepsNoticed
<1> QED
  BY <1>8, <1>9, <1>10, <1>11, <1>12, <1>13, <1>14

\* The controller has got a request for every Environment there is, and every step keeps
\* what is noticed.
LEMMA NothingIsMissed == Spec => []IInv
<1>1. Init => IInv
  <2> SUFFICES ASSUME Init
               PROVE  IInv
    OBVIOUS
  <2>1. Idle \in Worker /\ Idle.pc = "idle" /\ 0 \in Version
    BY DEF Idle, Worker, Configs, Version
  <2>2. 0 \in 0..MaxChanges /\ 0 \in 0..MaxFaults
    BY BoundsAssumption
  <2>3. TypeOK
    BY <2>1, <2>2 DEF Init, TypeOK
  <2>4. ASSUME NEW e \in Envs
        PROVE  Noticed(e)
    <3>1. CASE envs[e] # "gone"
      BY <3>1 DEF Init, Noticed
    <3>2. CASE envs[e] = "gone"
      <4>1. managed[e] = None /\ worker.pc = "idle"
        BY <2>1 DEF Init
      <4>2. ~NeedsSecret(e) /\ DesiredSpec(e) = None
        BY <2>3, <3>2, DesiredSpecType
      <4> QED
        BY <3>2, <4>1, <4>2 DEF Noticed, Current, IsDeployed
    <3> QED
      BY <3>1, <3>2
  <2> QED
    BY <2>1, <2>3, <2>4 DEF Init, IInv, WorkerInv
<1>2. IInv /\ [Next]_vars => IInv'
  <2> SUFFICES ASSUME IInv, [Next]_vars
               PROVE  IInv'
    OBVIOUS
  <2>1. CASE UNCHANGED vars
    <3>1. TypeOK'
      BY <2>1 DEF vars, IInv, TypeOK
    <3>2. ASSUME NEW e \in Envs
          PROVE  Noticed(e)'
      <4>1. Noticed(e) /\ Unchanged(e)
        BY <2>1 DEF vars, IInv, Unchanged
      <4> QED
        BY <2>1, <4>1, KeepsNoticed DEF vars
    <3> QED
      BY <2>1, <3>1, <3>2 DEF vars, IInv, WorkerInv
  <2>2. CASE Next
    BY <2>2, UserStep, EventStep, ReconcileBegins, WorkerStep DEF Next, Controller
  <2> QED
    BY <2>1, <2>2
<1> QED
  BY <1>1, <1>2, PTL DEF Spec

\* At rest everything is as it should be, unless a request was not made.
LEMMA RestIsCurrent ==
  ASSUME IInv, AtRest, NEW e \in Envs
  PROVE  Current(e) \/ (lost /\ envs[e] \in Claims)
<1>1. Noticed(e) /\ e \notin queue /\ events = {} /\ worker.pc = "idle"
  BY DEF IInv, AtRest
<1>2. Announced(e) => lost /\ envs[e] \in Claims
  BY <1>1 DEF Announced
<1> QED
  BY <1>1, <1>2 DEF Noticed

\* At rest the managed environment, the copy of the secret and the condition of every
\* Environment are those its configuration asks for, whatever the order in which the
\* Environment, its claim, the target and the secret changed and whichever calls failed
\* (environment_controller.go, Reconcile and the mapping functions); and no managed
\* environment outlives its Environment.
THEOREM NoChangeIsMissed == Spec => []EnvironmentInv
<1>1. IInv => EnvironmentInv
  <2> SUFFICES ASSUME IInv, AtRest, NEW e \in Envs
               PROVE  /\ envs[e] = "gone" => managed[e] = None
                      /\ ~lost /\ DesiredSpec(e) # None
                           => /\ managed[e] = DesiredSpec(e)
                              /\ envs[e] \in Claims => copies[e] = secrets[envs[e]]
                      /\ ~lost /\ envs[e] # "gone"
                           => (failed[e] <=> UserError(e) \/ (NeedsSecret(e) /\ SecretMissing(e)))
    BY DEF EnvironmentInv, ManagedIsCurrent, ConditionIsCurrent, IInv
  <2> QED
    BY RestIsCurrent, NamesAssumption DEF Current, Erroneous, IsDeployed, CopyIsCurrent
<1> QED
  BY <1>1, NothingIsMissed, PTL

\* Credentials that are withdrawn do not stay in use: the copy of a secret that is gone is
\* deleted, although the reconcile that finds out is not repeated
\* (environment_controller.go, generateDesiredResource).
THEOREM RevokedInTheEnd == Spec => []RevokedWithSecret
<1>1. IInv => RevokedWithSecret
  BY RestIsCurrent DEF RevokedWithSecret, Current
<1> QED
  BY <1>1, NothingIsMissed, PTL
=============================================================================
