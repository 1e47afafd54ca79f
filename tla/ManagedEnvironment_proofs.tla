---------------------- MODULE ManagedEnvironment_proofs ----------------------
(***************************************************************************)
(* Proofs for ManagedEnvironment: once the requests of the resource and of *)
(* the deployment are served, the database has one environment for the     *)
(* resource, with its credentials, and the Application row names it, in    *)
(* whatever order the shared resource loop, the deployment runner and the  *)
(* database reconciler worked on the tables, and whatever failed.          *)
(*                                                                         *)
(* The second part is about RepositoryCredential, the other resource of    *)
(* the shared resource loop: once its requests are served, the database    *)
(* has what the resource and its secret say.                               *)
(***************************************************************************)
EXTENDS ManagedEnvironment, TLAPS

\* The other resource the shared resource loop serves has a specification of its own; its
\* proofs are at the end.
VARIABLES cond, pwd, health, depl, rows, repos, deplEvent

R == INSTANCE RepositoryCredential

\* Credentials belong to one environment at most, an environment to one resource.
Keys ==
  /\ \A e, x \in envs : e.id = x.id \/ e.cred = x.cred => e = x
  /\ \A c, d \in creds : c.id = d.id => c = d
  /\ \A m, n \in mappings : m.uid = n.uid \/ m.env = n.env => m = n

\* The row of an environment, with credentials as the given resource asks for.
Fits(e, c) == \E x \in envs, y \in creds : x.id = e /\ x.cred = y.id /\ y.spec = c.spec

\* The credentials that are to go belong to the environment that is to go.
TargetFits(u) ==
  /\ del[u].pc # "idle" => del[u].env \in Id
  /\ del[u].pc \in {"nil", "ops", "refs", "row"} =>
       \A e \in envs : e.cred = del[u].cred => e.id = del[u].env
  /\ del[u].pc = "creds" => \A e \in envs : e.cred # del[u].cred

\* The loop's own deletion is part of a call, and the database reconciler deletes no
\* environment that has a mapping.
DeletionsFit ==
  /\ srl.pc = "delete" <=> del["owner"].pc # "idle"
  /\ srl.pc = "delete" => del["owner"].env = srl.env
  /\ \A u \in Users : TargetFits(u)
  /\ del["special"].pc # "idle" => \A m \in mappings : m.env # del["special"].env

\* What the call cleans up is not the resource's own.
CleaningFits ==
  /\ srl.pc \in {"clean", "delete", "unmap"} =>
       \A m \in srl.todo : /\ srl.cr = None \/ m.uid # srl.cr.uid
                           /\ \A n \in mappings : m.env = n.env => m = n
  /\ srl.pc \in {"delete", "unmap"} =>
       \A n \in mappings : n.env = srl.env => srl.cr = None \/ n.uid # srl.cr.uid

\* What the call has made so far is there, and nobody else has a hold of it.
MakingFits ==
  /\ srl.pc \in {"create", "newEnv", "newMapping", "project", "update", "oldCreds", "access"} =>
       srl.cr # None
  /\ srl.pc \in {"newEnv", "newMapping"} \/ (srl.pc = "create" /\ srl.env = 0) =>
       /\ srl.old = 0
       /\ \A m \in mappings : m.uid # srl.cr.uid
  /\ srl.pc \in {"newEnv", "update"} =>
       /\ srl.cred \in Id /\ srl.cred # srl.old
       /\ \E c \in creds : c.id = srl.cred /\ c.spec = srl.cr.spec
       /\ \A e \in envs : e.cred # srl.cred
       /\ \A u \in Users : del[u].cred # srl.cred
  /\ srl.pc = "newMapping" =>
       /\ srl.env \in Id /\ Fits(srl.env, srl.cr)
       /\ \A m \in mappings : m.env # srl.env
       /\ \A u \in Users : del[u].env # srl.env
  /\ srl.pc = "update" \/ (srl.pc = "create" /\ srl.env # 0) =>
       \A e \in envs : e.cred = srl.old => e.id = srl.env
  /\ srl.pc \in {"project", "oldCreds"} => \A e \in envs : e.cred # srl.old
  /\ srl.pc \in {"newMapping", "project", "update", "oldCreds", "access"} => srl.env \in Id

\* The resource there is has a mapping to an environment with its credentials.
Stored == \E m \in mappings : m.uid = cr.uid /\ Fits(m.env, cr)

\* The call that is served is one of the given caller.
CallOf(caller) == srl.pc # "idle" /\ srl.caller = caller

\* As long as nothing new is heard of the resource the call works on the one there is; a
\* call of the runner finds it stored and changes nothing.
ServedFits ==
  /\ srl.pc # "idle" /\ ~event => srl.cr = cr /\ (cr # None => secretOK)
  /\ ~event /\ cr # None /\ CallOf("runner") =>
       srl.pc \in {"clean", "delete", "unmap", "access"}
  /\ ~event /\ (srl.pc \in {"update", "project", "oldCreds", "access"}
                \/ (srl.pc = "create" /\ srl.env # 0)) =>
       \E m \in mappings : m.uid = cr.uid /\ m.env = srl.env
  /\ ~event /\ cr # None /\ secretOK
     /\ (srl.pc \in {"idle", "project", "oldCreds", "access"} \/ CallOf("runner")) => Stored

CallerFits ==
  /\ srl.pc # "idle" => srl.caller \in {"event", "runner"}
  /\ CallOf("runner") <=> runner.pc = "call"

\* A request is still to be served, by which the Application row is brought up to date.
Pending ==
  event \/ appEvent \/ CallOf("event") \/ (cr # None /\ ~secretOK)

Follows == row.env = row.dest /\ CurrentEnv = {row.env} \ {0}

\* The row the runner has read is the one there is, unless its environment was deleted,
\* and then it is not that of the resource.
RowFits ==
  ~Pending =>
    /\ runner.pc \in {"idle", "operation"} => row = None \/ Follows
    /\ runner.pc = "call" =>
         \/ row = runner.row
         \/ runner.row # None /\ runner.row.env # 0 /\ runner.row.env \notin CurrentEnv
    /\ runner.pc = "update" =>
         /\ CurrentEnv = {runner.env} \ {0}
         /\ runner.row = NewRow => row = NewRow

IInv ==
  /\ TypeOK /\ CredentialsThere /\ ReferencesThere /\ Keys /\ DeletionsFit /\ CleaningFits
  /\ MakingFits /\ ServedFits /\ CallerFits /\ RowFits

-----------------------------------------------------------------------------
(* Facts about the operators                                               *)

LEMMA FreshUid ==
  ASSUME FreeUids # {}
  PROVE  NewUid \in Uid
<1>1. NewUid \in FreeUids
  BY DEF NewUid
<1> QED
  BY <1>1 DEF FreeUids

\* Nobody knows a new id of credentials.
LEMMA FreshCredId ==
  ASSUME FreeCredIds # {}
  PROVE  /\ NewCredId \in Id /\ NewCredId # srl.old
         /\ \A c \in creds : c.id # NewCredId
         /\ \A e \in envs : e.cred # NewCredId
         /\ \A u \in Users : del[u].cred # NewCredId
<1>1. NewCredId \in FreeCredIds
  BY DEF NewCredId
<1> QED
  BY <1>1 DEF FreeCredIds

\* Nobody knows a new id of an environment.
LEMMA FreshEnvId ==
  ASSUME FreeEnvIds # {}
  PROVE  /\ NewEnvId \in Id
         /\ \A e \in envs : e.id # NewEnvId
         /\ \A m \in mappings : m.env # NewEnvId
         /\ \A u \in Users : del[u].env # NewEnvId
<1>1. NewEnvId \in FreeEnvIds
  BY DEF NewEnvId
<1> QED
  BY <1>1 DEF FreeEnvIds

LEMMA IdsArePositive == 0 \notin Id
  BY InputsAssumption DEF Id

LEMMA IdleTyped ==
  /\ IdleSRL \in Call /\ IdleDel \in Del /\ IdleRunner \in RunnerState
  BY DEF IdleSRL, IdleDel, IdleRunner, Call, Del, RunnerState

\* The fields of what the tables and the processes hold.
LEMMA Fields ==
  ASSUME TypeOK
  PROVE  /\ \A c \in creds : c.id \in Id /\ c.spec \in 0..1
         /\ \A e \in envs : e.id \in Id /\ e.cred \in Id
         /\ \A m \in mappings : m.uid \in Uid /\ m.env \in Id
         /\ \A m \in srl.todo : m.uid \in Uid /\ m.env \in Id
         /\ \A u \in Users : del[u] \in Del
         /\ cr # None => cr \in Cr
         /\ srl.cr # None => srl.cr \in Cr
  BY DEF TypeOK, Cred, Env, Mapping, Call

\* The row of an environment there is.
LEMMA RowOf ==
  ASSUME TypeOK, Keys, NEW e \in Id, HasRow(e)
  PROVE  /\ (CHOOSE x \in envs : x.id = e) \in envs
         /\ (CHOOSE x \in envs : x.id = e).id = e
         /\ (CHOOSE x \in envs : x.id = e).cred \in Id
<1>1. PICK x \in envs : x.id = e
  BY DEF HasRow
<1>2. (CHOOSE y \in envs : y.id = e) \in envs /\ (CHOOSE y \in envs : y.id = e).id = e
  BY <1>1
<1> QED
  BY <1>2, Fields

-----------------------------------------------------------------------------
(* Type correctness                                                        *)

LEMMA InputBounded ==
  ASSUME TypeOK, Input
  PROVE  inputs' \in 0..MaxInputs
  BY InputsAssumption DEF TypeOK, Input

LEMMA UsersTyped ==
  ASSUME TypeOK, UserStep
  PROVE  TypeOK'
<1>0. Input
  BY DEF UserStep, CreateEnvironment, ChangeSpec, DeleteEnvironment, DeleteSecret,
         DeleteClusterSecret
<1>1. inputs' \in 0..MaxInputs
  BY <1>0, InputBounded
<1>2. CASE CreateEnvironment
  <2>1. cr' \in Cr
    BY <1>2, FreshUid DEF CreateEnvironment, Cr
  <2> QED
    BY <1>1, <1>2, <2>1 DEF CreateEnvironment, TypeOK, tables, cluster
<1>3. CASE ChangeSpec
  <2>1. cr \in Cr /\ cr' = [cr EXCEPT !.spec = 1 - @]
    BY <1>3 DEF ChangeSpec, TypeOK
  <2>2. cr' \in Cr
    BY <2>1 DEF Cr
  <2> QED
    BY <1>1, <1>3, <2>2 DEF ChangeSpec, TypeOK, tables, cluster
<1>4. CASE DeleteEnvironment
  BY <1>1, <1>4 DEF DeleteEnvironment, TypeOK, tables, cluster
<1>5. CASE DeleteSecret
  <2>1. event' \in BOOLEAN
    BY <1>5 DEF DeleteSecret, TypeOK
  <2> QED
    BY <1>1, <1>5, <2>1 DEF DeleteSecret, TypeOK, tables, cluster
<1>6. CASE \E s \in secrets : DeleteClusterSecret(s)
  BY <1>1, <1>6 DEF DeleteClusterSecret, TypeOK, user, tables
<1> QED
  BY <1>2, <1>3, <1>4, <1>5, <1>6 DEF UserStep

LEMMA FailTyped ==
  ASSUME TypeOK, Fail, UNCHANGED <<user, tables, row, cluster>>, inputs' \in 0..MaxInputs
  PROVE  TypeOK'
<1>1. srl' \in Call
  BY IdleTyped DEF Fail
<1>2. del' \in [Users -> Del]
  BY IdleTyped DEF Fail, TypeOK
<1>3. runner' \in RunnerState
  BY IdleTyped DEF Fail, TypeOK
<1>4. event' \in BOOLEAN /\ appEvent' \in BOOLEAN
  BY DEF Fail, TypeOK
<1> QED
  BY <1>1, <1>2, <1>3, <1>4 DEF TypeOK, user, tables, cluster

LEMMA DeletionTyped ==
  ASSUME TypeOK, NEW u \in Users, Deletion(u)
  PROVE  TypeOK'
<1>0. del \in [Users -> Del] /\ del[u] \in Del /\ srl \in Call
  BY DEF TypeOK
<1>1. CASE NilEnvironment(u)
  <2>1. row' \in Row \union {None}
    BY <1>1 DEF NilEnvironment, RowWithout, TypeOK, Row
  <2>2. del' \in [Users -> Del]
    BY <1>0, <1>1 DEF NilEnvironment, Del
  <2> QED
    BY <1>1, <2>1, <2>2 DEF NilEnvironment, TypeOK, user, tables, cluster
<1>2. CASE UpdateApplications(u)
  <2>1. del' \in [Users -> Del]
    BY <1>0, <1>2 DEF UpdateApplications, Del
  <2> QED
    BY <1>2, <2>1 DEF UpdateApplications, TypeOK, user, tables
<1>3. CASE DeleteReferences(u)
  <2>1. del' \in [Users -> Del]
    BY <1>0, <1>3 DEF DeleteReferences, Del
  <2> QED
    BY <1>3, <2>1 DEF DeleteReferences, ProjectsAfter, TypeOK, user, cluster
<1>4. CASE DeleteRow(u)
  <2>1. del' \in [Users -> Del]
    BY <1>0, <1>4 DEF DeleteRow, Del
  <2> QED
    BY <1>4, <2>1 DEF DeleteRow, TypeOK, user, cluster
<1>5. ASSUME Deleted(u)
      PROVE  del' \in [Users -> Del] /\ srl' \in Call
  <2>1. del' \in [Users -> Del]
    BY <1>0, <1>5, IdleTyped DEF Deleted
  <2>2. srl' \in Call
    BY <1>0, <1>5 DEF Deleted, Call
  <2> QED
    BY <2>1, <2>2
<1>6. CASE DeleteCredentials(u)
  <2>1. del' \in [Users -> Del] /\ srl' \in Call
    <3>1. CASE del[u].apps
      BY <1>0, <1>6, <3>1 DEF DeleteCredentials, Del
    <3>2. CASE ~del[u].apps
      BY <1>5, <1>6, <3>2 DEF DeleteCredentials
    <3> QED
      BY <3>1, <3>2
  <2> QED
    BY <1>6, <2>1 DEF DeleteCredentials, TypeOK, user, cluster
<1>7. CASE InformArgoCD(u)
  BY <1>0, <1>5, <1>7 DEF InformArgoCD, TypeOK, Del, AppOp, user, tables
<1>8. CASE Refused(u)
  <2>1. CASE u = "owner"
    BY <1>8, <2>1, FailTyped DEF Refused, TypeOK
  <2>2. CASE u # "owner"
    <3>1. del' \in [Users -> Del]
      BY <1>0, <1>8, <2>2, IdleTyped DEF Refused
    <3> QED
      BY <1>8, <2>2, <3>1 DEF Refused, TypeOK, user, tables, cluster
  <2> QED
    BY <2>1, <2>2
<1> QED
  BY <1>1, <1>2, <1>3, <1>4, <1>6, <1>7, <1>8 DEF Deletion

LEMMA AnswerTyped ==
  ASSUME TypeOK, NEW e \in Id \union {0}, Answer(e)
  PROVE  srl' \in Call /\ runner' \in RunnerState /\ appEvent' \in BOOLEAN
  BY IdleTyped DEF Answer, TypeOK, RunnerState

LEMMA StartCallTyped ==
  ASSUME TypeOK, NEW caller \in {"event", "runner"}, StartCall(caller)
  PROVE  TypeOK'
<1>1. event' \in BOOLEAN
  BY DEF StartCall, TypeOK
<1>2. CASE cr # None /\ ~secretOK
  BY <1>1, <1>2 DEF StartCall, TypeOK, user, tables, cluster
<1>3. CASE ~(cr # None /\ ~secretOK)
  <2>1. Outdated(cr) \subseteq Mapping
    BY DEF Outdated, TypeOK
  <2>2. srl' = [pc |-> "clean", caller |-> caller, cr |-> cr, todo |-> Outdated(cr),
                env |-> 0, old |-> 0, cred |-> 0]
    BY <1>3 DEF StartCall, IdleSRL
  <2>3. srl' \in Call
    BY <2>1, <2>2 DEF TypeOK, Call
  <2>4. runner' \in RunnerState
    BY <1>3 DEF StartCall, TypeOK, IdleRunner, RunnerState
  <2>5. appEvent' \in BOOLEAN
    BY <1>3 DEF StartCall, TypeOK
  <2> QED
    BY <1>1, <2>3, <2>4, <2>5 DEF StartCall, TypeOK, user, tables, cluster
<1> QED
  BY <1>2, <1>3

LEMMA CleanMappingTyped ==
  ASSUME TypeOK, Keys, NEW m \in srl.todo, CleanMapping(m)
  PROVE  TypeOK'
<1>1. m.env \in Id
  BY Fields
<1>2. srl' \in Call
  BY <1>1 DEF CleanMapping, TypeOK, Call
<1>3. del' \in [Users -> Del]
  BY <1>1, RowOf DEF CleanMapping, TypeOK, IdleDel, Del
<1> QED
  BY <1>2, <1>3 DEF CleanMapping, TypeOK, user, tables, cluster

\* The row and the credentials Look finds for the resource.
LEMMA Found ==
  ASSUME TypeOK, CredentialsThere, NEW es, es \subseteq envs, es # {}
  PROVE  LET e == CHOOSE x \in es : TRUE
             c == CHOOSE x \in creds : x.id = e.cred
         IN e \in es /\ e \in envs /\ e.id \in Id /\ e.cred \in Id /\ c \in creds /\ c.id = e.cred
<1> DEFINE e == CHOOSE x \in es : TRUE
           c == CHOOSE x \in creds : x.id = e.cred
<1>1. e \in es
  OBVIOUS
<1>2. e \in envs /\ e.id \in Id /\ e.cred \in Id
  BY <1>1, Fields
<1> HIDE DEF e
<1>3. \E x \in creds : x.id = e.cred
  BY <1>2 DEF CredentialsThere
<1>4. c \in creds /\ c.id = e.cred
  BY <1>3
<1> QED
  BY <1>1, <1>2, <1>4 DEF e

LEMMA LoopTyped ==
  ASSUME TypeOK, Keys, CredentialsThere, MakingFits, SharedResourceLoop
  PROVE  TypeOK'
<1>0. srl \in Call
  BY DEF TypeOK
<1>1. CASE \E caller \in {"event", "runner"} : StartCall(caller)
  BY <1>1, StartCallTyped
<1>2. CASE \E m \in srl.todo : CleanMapping(m)
  BY <1>2, CleanMappingTyped
<1>3. CASE DeleteMapping
  <2>1. srl' \in Call
    BY <1>0, <1>3 DEF DeleteMapping, Call
  <2> QED
    BY <1>3, <2>1 DEF DeleteMapping, TypeOK, user, cluster
<1>4. CASE EndOfResource
  <2>1. Answer(0)
    BY <1>4 DEF EndOfResource
  <2> QED
    BY <1>4, <2>1, AnswerTyped DEF EndOfResource, TypeOK, user, tables, cluster
<1>5. CASE Look
  <2> DEFINE ms == {m \in mappings : m.uid = srl.cr.uid}
             es == {e \in envs : \E m \in ms : m.env = e.id}
             e == CHOOSE x \in es : TRUE
  <2>1. srl' \in Call
    <3>1. es # {} => e.id \in Id /\ e.cred \in Id
      BY Found
    <3> HIDE DEF es, e
    <3>2. \E p \in {"create", "access"} :
             srl' = [srl EXCEPT !.pc = p, !.env = IF es = {} THEN 0 ELSE e.id,
                                !.old = IF es = {} THEN 0 ELSE e.cred]
      BY <1>5 DEF Look, e, es
    <3> QED
      BY <1>0, <3>1, <3>2 DEF Call
  <2>2. mappings' \subseteq mappings
    BY <1>5 DEF Look
  <2> QED
    BY <1>5, <2>1, <2>2 DEF Look, TypeOK, user, cluster
<1>6. CASE CreateCredentials
  <2>1. srl' \in Call
    BY <1>0, <1>6, FreshCredId DEF CreateCredentials, Call
  <2>2. srl.cr \in Cr
    BY <1>0, <1>6 DEF CreateCredentials, MakingFits, Call
  <2>3. creds' \subseteq Cred
    BY <1>6, <2>2, FreshCredId DEF CreateCredentials, TypeOK, Cr, Cred
  <2> QED
    BY <1>6, <2>1, <2>3 DEF CreateCredentials, TypeOK, user, cluster
<1>7. CASE InvalidCredentials
  BY <1>7, FailTyped DEF InvalidCredentials, TypeOK
<1>8. CASE CreateEnvRow
  <2>1. srl' \in Call
    BY <1>0, <1>8, FreshEnvId DEF CreateEnvRow, Call
  <2>2. envs' \subseteq Env
    BY <1>8, FreshEnvId DEF CreateEnvRow, MakingFits, TypeOK, Env
  <2> QED
    BY <1>8, <2>1, <2>2 DEF CreateEnvRow, TypeOK, user, cluster
<1>9. CASE CreateMapping
  <2>1. srl' \in Call
    BY <1>0, <1>9 DEF CreateMapping, Call
  <2>2. srl.cr \in Cr /\ srl.env \in Id
    BY <1>0, <1>9 DEF CreateMapping, MakingFits, Call
  <2>3. mappings' \subseteq Mapping
    BY <1>9, <2>2 DEF CreateMapping, TypeOK, Cr, Mapping
  <2> QED
    BY <1>9, <2>1, <2>3 DEF CreateMapping, TypeOK, user, cluster
<1>10. CASE UpdateEnvRow
  <2>1. srl' \in Call
    BY <1>0, <1>10 DEF UpdateEnvRow, Call
  <2>2. srl.cred \in Id
    BY <1>10 DEF UpdateEnvRow, MakingFits
  <2>3. ASSUME NEW e \in envs
        PROVE  (IF e.id = srl.env THEN [e EXCEPT !.cred = srl.cred] ELSE e) \in Env
    BY <2>2 DEF TypeOK, Env
  <2>4. envs' \subseteq Env
    BY <1>10, <2>3 DEF UpdateEnvRow
  <2> QED
    BY <1>10, <2>1, <2>4 DEF UpdateEnvRow, TypeOK, user, cluster
<1>11. CASE CreateAppProject
  <2>1. srl' \in Call
    BY <1>0, <1>11 DEF CreateAppProject, Call
  <2>2. srl.env \in Id
    BY <1>11, Fields DEF CreateAppProject, HasRow
  <2> QED
    BY <1>11, <2>1, <2>2 DEF CreateAppProject, TypeOK, user, cluster
<1>12. CASE DeleteOldCredentials
  <2>1. srl' \in Call /\ runner' \in RunnerState /\ appEvent' \in BOOLEAN
    <3>1. CASE \E c \in creds : c.id = srl.old
      BY <1>0, <1>12, <3>1 DEF DeleteOldCredentials, TypeOK, Call
    <3>2. CASE ~\E c \in creds : c.id = srl.old
      BY <1>12, <3>2, AnswerTyped DEF DeleteOldCredentials
    <3> QED
      BY <3>1, <3>2
  <2> QED
    BY <1>12, <2>1 DEF DeleteOldCredentials, TypeOK, user, cluster
<1>13. CASE WrapManagedEnv
  <2>1. srl.env \in Id
    BY <1>13, Fields DEF WrapManagedEnv, HasRow
  <2>2. srl' \in Call /\ runner' \in RunnerState /\ appEvent' \in BOOLEAN
    BY <1>13, <2>1, AnswerTyped DEF WrapManagedEnv
  <2> QED
    BY <1>13, <2>1, <2>2 DEF WrapManagedEnv, TypeOK, user, cluster
<1>14. CASE RowVanished
  BY <1>14, FailTyped DEF RowVanished, TypeOK
<1> QED
  BY <1>1, <1>2, <1>3, <1>4, <1>5, <1>6, <1>7, <1>8, <1>9, <1>10, <1>11, <1>12, <1>13, <1>14
     DEF SharedResourceLoop

LEMMA RunnerTyped ==
  ASSUME TypeOK, Runner
  PROVE  TypeOK'
<1>0. runner \in RunnerState
  BY DEF TypeOK
<1>1. CASE UpdateApplication
  <2>1. row' \in Row \union {None}
    BY <1>0, <1>1 DEF UpdateApplication, NewRow, TypeOK, RunnerState, Row
  <2>2. runner' \in RunnerState
    BY <1>0, <1>1, IdleTyped DEF UpdateApplication, RunnerState
  <2>3. appEvent' \in BOOLEAN
    BY <1>1 DEF UpdateApplication, TypeOK
  <2> QED
    BY <1>1, <2>1, <2>2, <2>3 DEF UpdateApplication, TypeOK, user, tables, cluster
<1>2. CASE CreateOperation
  BY <1>2, IdleTyped DEF CreateOperation, TypeOK, AppOp, user, tables
<1> QED
  BY <1>1, <1>2 DEF Runner

LEMMA FailuresTyped ==
  ASSUME TypeOK, Failures
  PROVE  TypeOK'
<1>0. inputs' \in 0..MaxInputs
  BY InputBounded DEF Failures, CallFails, RunnerFails, BackendRestarts, OperationFails
<1>1. CASE CallFails
  BY <1>0, <1>1, FailTyped DEF CallFails
<1>2. CASE RunnerFails
  BY <1>0, <1>2, IdleTyped DEF RunnerFails, TypeOK, user, tables, cluster
<1>3. CASE BackendRestarts
  <2>1. event' \in BOOLEAN
    BY <1>3 DEF BackendRestarts
  <2>2. del' \in [Users -> Del]
    BY <1>3, IdleTyped DEF BackendRestarts
  <2> QED
    BY <1>0, <1>3, <2>1, <2>2, IdleTyped DEF BackendRestarts, TypeOK, user, tables, cluster
<1>4. CASE OperationFails
  BY <1>0, <1>4 DEF OperationFails, TypeOK, AppOp, user, tables
<1> QED
  BY <1>1, <1>2, <1>3, <1>4 DEF Failures

LEMMA SweepTyped ==
  ASSUME TypeOK, Keys,
         \/ \E m \in mappings : CleanOrphanedMapping(m)
         \/ \E e \in envs : CleanOrphanedEnv(e)
         \/ \E c \in creds : CleanOrphanedCredentials(c)
  PROVE  TypeOK'
<1>1. ASSUME NEW m \in mappings, CleanOrphanedMapping(m)
      PROVE  TypeOK'
  <2>1. m.env \in Id
    BY Fields
  <2>2. del' \in [Users -> Del]
    BY <1>1, <2>1, RowOf DEF CleanOrphanedMapping, TypeOK, IdleDel, Del
  <2> QED
    BY <1>1, <2>2 DEF CleanOrphanedMapping, TypeOK, user, cluster
<1>2. ASSUME NEW e \in envs, CleanOrphanedEnv(e)
      PROVE  TypeOK'
  <2>1. e.id \in Id /\ e.cred \in Id
    BY Fields
  <2>2. del' \in [Users -> Del]
    BY <1>2, <2>1 DEF CleanOrphanedEnv, TypeOK, IdleDel, Del
  <2> QED
    BY <1>2, <2>2 DEF CleanOrphanedEnv, TypeOK, user, tables, cluster
<1>3. ASSUME NEW c \in creds, CleanOrphanedCredentials(c)
      PROVE  TypeOK'
  BY <1>3 DEF CleanOrphanedCredentials, TypeOK, user, cluster
<1> QED
  BY <1>1, <1>2, <1>3

\* The agent finds the rows it needs, thanks to the foreign keys.
LEMMA ExpectedTyped ==
  ASSUME TypeOK, CredentialsThere, ReferencesThere
  PROVE  ExpectedSecret \in Secret \union {None}
<1>1. CASE row = None \/ row.env = 0
  BY <1>1 DEF ExpectedSecret
<1>2. CASE ~(row = None \/ row.env = 0)
  <2> DEFINE e == CHOOSE x \in envs : x.id = row.env
             c == CHOOSE x \in creds : x.id = e.cred
  <2>1. \E x \in envs : x.id = row.env
    BY <1>2 DEF ReferencesThere
  <2>2. e \in envs
    BY <2>1
  <2> HIDE DEF e
  <2>3. \E x \in creds : x.id = e.cred
    BY <2>2 DEF CredentialsThere
  <2>4. c \in creds
    BY <2>3
  <2> HIDE DEF c
  <2>5. ExpectedSecret = [env |-> e.id, spec |-> c.spec]
    BY <1>2 DEF ExpectedSecret, e, c
  <2> QED
    BY <2>2, <2>4, <2>5, Fields DEF Secret
<1> QED
  BY <1>1, <1>2

LEMMA AgentTyped ==
  ASSUME TypeOK, CredentialsThere, ReferencesThere, Agent
  PROVE  TypeOK'
<1>1. CASE ReadRows
  BY <1>1, ExpectedTyped DEF ReadRows, TypeOK, user, tables
<1>2. CASE EnsureSecret
  <2>1. agent \in Secret
    BY <1>2 DEF EnsureSecret, TypeOK
  <2>2. secrets' \subseteq Secret
    BY <1>2, <2>1 DEF EnsureSecret, TypeOK
  <2> QED
    BY <1>2, <2>2 DEF EnsureSecret, TypeOK, user, tables
<1>3. CASE \E id \in Id : DeleteSecretOf(id)
  BY <1>3 DEF DeleteSecretOf, TypeOK, user, tables
<1>4. CASE \E s \in secrets : CleanOrphanedSecret(s)
  BY <1>4 DEF CleanOrphanedSecret, TypeOK, user, tables
<1>5. CASE \E e \in accesses : RecreateClusterSecret(e)
  BY <1>5 DEF RecreateClusterSecret, TypeOK, AppOp, user, tables
<1> QED
  BY <1>1, <1>2, <1>3, <1>4, <1>5 DEF Agent

LEMMA TypesPreserved ==
  ASSUME IInv, Next
  PROVE  TypeOK'
<1>1. TypeOK /\ Keys /\ CredentialsThere /\ ReferencesThere /\ MakingFits
  BY DEF IInv
<1> QED
  BY <1>1, UsersTyped, LoopTyped, RunnerTyped, FailuresTyped, DeletionTyped, SweepTyped, AgentTyped
     DEF Next

-----------------------------------------------------------------------------
(* Which steps change which table                                          *)

Sweep ==
  \/ \E m \in mappings : CleanOrphanedMapping(m)
  \/ \E e \in envs : CleanOrphanedEnv(e)
  \/ \E c \in creds : CleanOrphanedCredentials(c)

\* A call of the shared resource loop that fails.
CallFailed == Fail /\ UNCHANGED <<user, tables, row>>

Deletions == \E u \in Users : Deletion(u)

LEMMA StepKinds ==
  ASSUME Next
  PROVE  UserStep \/ SharedResourceLoop \/ Runner \/ Failures \/ Deletions \/ Sweep \/ Agent
  BY DEF Next, Deletions, Sweep

\* Rows of environments.
LEMMA EnvsChange ==
  ASSUME Next
  PROVE  \/ envs' = envs
         \/ \E u \in Users : DeleteRow(u)
         \/ CreateEnvRow \/ UpdateEnvRow
<1>1. CASE UserStep
  BY <1>1 DEF UserStep, CreateEnvironment, ChangeSpec, DeleteEnvironment, DeleteSecret,
     DeleteClusterSecret, user, tables, cluster
<1>2. CASE SharedResourceLoop
  BY <1>2 DEF SharedResourceLoop, StartCall, CleanMapping, DeleteMapping, EndOfResource,
     Look, CreateCredentials, InvalidCredentials, CreateEnvRow, CreateMapping, UpdateEnvRow,
     CreateAppProject, DeleteOldCredentials, WrapManagedEnv, RowVanished, user, tables,
     cluster
<1>3. CASE Runner
  BY <1>3 DEF Runner, UpdateApplication, CreateOperation, user, tables, cluster
<1>4. CASE Failures
  BY <1>4 DEF Failures, CallFails, RunnerFails, BackendRestarts, OperationFails, user,
     tables, cluster
<1>5. CASE Deletions
  BY <1>5 DEF Deletions, Deletion, NilEnvironment, UpdateApplications, DeleteReferences,
     DeleteRow, DeleteCredentials, InformArgoCD, Refused, user, tables, cluster
<1>6. CASE Sweep
  BY <1>6 DEF Sweep, CleanOrphanedMapping, CleanOrphanedEnv, CleanOrphanedCredentials, user,
     tables, cluster
<1>7. CASE Agent
  BY <1>7 DEF Agent, ReadRows, EnsureSecret, DeleteSecretOf, CleanOrphanedSecret,
     RecreateClusterSecret, user, tables, cluster
<1> QED
  BY <1>1, <1>2, <1>3, <1>4, <1>5, <1>6, <1>7, StepKinds

\* Rows of credentials.
LEMMA CredsChange ==
  ASSUME Next
  PROVE  \/ creds' = creds
         \/ \E u \in Users : DeleteCredentials(u)
         \/ CreateCredentials \/ DeleteOldCredentials
         \/ \E c \in creds : CleanOrphanedCredentials(c)
<1>1. CASE UserStep
  BY <1>1 DEF UserStep, CreateEnvironment, ChangeSpec, DeleteEnvironment, DeleteSecret,
     DeleteClusterSecret, user, tables, cluster
<1>2. CASE SharedResourceLoop
  BY <1>2 DEF SharedResourceLoop, StartCall, CleanMapping, DeleteMapping, EndOfResource,
     Look, CreateCredentials, InvalidCredentials, CreateEnvRow, CreateMapping, UpdateEnvRow,
     CreateAppProject, DeleteOldCredentials, WrapManagedEnv, RowVanished, user, tables,
     cluster
<1>3. CASE Runner
  BY <1>3 DEF Runner, UpdateApplication, CreateOperation, user, tables, cluster
<1>4. CASE Failures
  BY <1>4 DEF Failures, CallFails, RunnerFails, BackendRestarts, OperationFails, user,
     tables, cluster
<1>5. CASE Deletions
  BY <1>5 DEF Deletions, Deletion, NilEnvironment, UpdateApplications, DeleteReferences,
     DeleteRow, DeleteCredentials, InformArgoCD, Refused, user, tables, cluster
<1>6. CASE Sweep
  BY <1>6 DEF Sweep, CleanOrphanedMapping, CleanOrphanedEnv, CleanOrphanedCredentials, user,
     tables, cluster
<1>7. CASE Agent
  BY <1>7 DEF Agent, ReadRows, EnsureSecret, DeleteSecretOf, CleanOrphanedSecret,
     RecreateClusterSecret, user, tables, cluster
<1> QED
  BY <1>1, <1>2, <1>3, <1>4, <1>5, <1>6, <1>7, StepKinds

\* Mappings.
LEMMA MappingsChange ==
  ASSUME Next
  PROVE  \/ mappings' = mappings
         \/ DeleteMapping \/ Look \/ CreateMapping
         \/ \E m \in mappings : CleanOrphanedMapping(m)
<1>1. CASE UserStep
  BY <1>1 DEF UserStep, CreateEnvironment, ChangeSpec, DeleteEnvironment, DeleteSecret,
     DeleteClusterSecret, user, tables, cluster
<1>2. CASE SharedResourceLoop
  BY <1>2 DEF SharedResourceLoop, StartCall, CleanMapping, DeleteMapping, EndOfResource,
     Look, CreateCredentials, InvalidCredentials, CreateEnvRow, CreateMapping, UpdateEnvRow,
     CreateAppProject, DeleteOldCredentials, WrapManagedEnv, RowVanished, user, tables,
     cluster
<1>3. CASE Runner
  BY <1>3 DEF Runner, UpdateApplication, CreateOperation, user, tables, cluster
<1>4. CASE Failures
  BY <1>4 DEF Failures, CallFails, RunnerFails, BackendRestarts, OperationFails, user,
     tables, cluster
<1>5. CASE Deletions
  BY <1>5 DEF Deletions, Deletion, NilEnvironment, UpdateApplications, DeleteReferences,
     DeleteRow, DeleteCredentials, InformArgoCD, Refused, user, tables, cluster
<1>6. CASE Sweep
  BY <1>6 DEF Sweep, CleanOrphanedMapping, CleanOrphanedEnv, CleanOrphanedCredentials, user,
     tables, cluster
<1>7. CASE Agent
  BY <1>7 DEF Agent, ReadRows, EnsureSecret, DeleteSecretOf, CleanOrphanedSecret,
     RecreateClusterSecret, user, tables, cluster
<1> QED
  BY <1>1, <1>2, <1>3, <1>4, <1>5, <1>6, <1>7, StepKinds

\* Rows with an environment as a foreign key.
LEMMA ReferencesChange ==
  ASSUME Next
  PROVE  \/ UNCHANGED <<projects, accesses, row>>
         \/ \E u \in Users : NilEnvironment(u) \/ DeleteReferences(u)
         \/ CreateAppProject \/ WrapManagedEnv \/ UpdateApplication \/ RunnerFails
<1>1. CASE UserStep
  BY <1>1 DEF UserStep, CreateEnvironment, ChangeSpec, DeleteEnvironment, DeleteSecret,
     DeleteClusterSecret, user, tables, cluster
<1>2. CASE SharedResourceLoop
  BY <1>2 DEF SharedResourceLoop, StartCall, CleanMapping, DeleteMapping, EndOfResource,
     Look, CreateCredentials, InvalidCredentials, CreateEnvRow, CreateMapping, UpdateEnvRow,
     CreateAppProject, DeleteOldCredentials, WrapManagedEnv, RowVanished, user, tables,
     cluster
<1>3. CASE Runner
  BY <1>3 DEF Runner, UpdateApplication, CreateOperation, user, tables, cluster
<1>4. CASE Failures
  BY <1>4 DEF Failures, CallFails, RunnerFails, BackendRestarts, OperationFails, user,
     tables, cluster
<1>5. CASE Deletions
  BY <1>5 DEF Deletions, Deletion, NilEnvironment, UpdateApplications, DeleteReferences,
     DeleteRow, DeleteCredentials, InformArgoCD, Refused, user, tables, cluster
<1>6. CASE Sweep
  BY <1>6 DEF Sweep, CleanOrphanedMapping, CleanOrphanedEnv, CleanOrphanedCredentials, user,
     tables, cluster
<1>7. CASE Agent
  BY <1>7 DEF Agent, ReadRows, EnsureSecret, DeleteSecretOf, CleanOrphanedSecret,
     RecreateClusterSecret, user, tables, cluster
<1> QED
  BY <1>1, <1>2, <1>3, <1>4, <1>5, <1>6, <1>7, StepKinds

-----------------------------------------------------------------------------
(* The tables                                                              *)

LEMMA CredentialsPreserved ==
  ASSUME IInv, Next
  PROVE  CredentialsThere'
<1>0. TypeOK /\ CredentialsThere /\ DeletionsFit /\ MakingFits
  BY DEF IInv
<1>1. ASSUME NEW u \in Users, DeleteRow(u)
      PROVE  CredentialsThere'
  BY <1>0, <1>1 DEF DeleteRow, CredentialsThere
<1>2. CASE CreateEnvRow
  <2>1. \E c \in creds : c.id = srl.cred
    BY <1>0, <1>2 DEF CreateEnvRow, MakingFits
  <2> QED
    BY <1>0, <1>2, <2>1 DEF CreateEnvRow, CredentialsThere
<1>3. CASE UpdateEnvRow
  <2>1. \E c \in creds : c.id = srl.cred
    BY <1>0, <1>3 DEF UpdateEnvRow, MakingFits
  <2>2. ASSUME NEW e \in envs
        PROVE  (IF e.id = srl.env THEN [e EXCEPT !.cred = srl.cred] ELSE e).cred
                 \in {e.cred, srl.cred}
    BY <1>0 DEF TypeOK, Env
  <2> QED
    BY <1>0, <1>3, <2>1, <2>2 DEF UpdateEnvRow, CredentialsThere
<1>4. ASSUME NEW u \in Users, DeleteCredentials(u)
      PROVE  CredentialsThere'
  <2>1. \A e \in envs : e.cred # del[u].cred
    BY <1>0, <1>4 DEF DeleteCredentials, DeletionsFit, TargetFits
  <2> QED
    BY <1>0, <1>4, <2>1 DEF DeleteCredentials, CredentialsThere
<1>5. CASE CreateCredentials
  BY <1>0, <1>5 DEF CreateCredentials, CredentialsThere
<1>6. CASE DeleteOldCredentials
  <2>1. \A e \in envs : e.cred # srl.old
    BY <1>0, <1>6 DEF DeleteOldCredentials, MakingFits
  <2> QED
    BY <1>0, <1>6, <2>1 DEF DeleteOldCredentials, CredentialsThere
<1>7. ASSUME NEW c \in creds, CleanOrphanedCredentials(c)
      PROVE  CredentialsThere'
  BY <1>0, <1>7 DEF CleanOrphanedCredentials, Unused, CredentialsThere
<1>8. CASE envs' = envs /\ creds' = creds
  BY <1>0, <1>8 DEF CredentialsThere
<1> QED
  BY <1>1, <1>2, <1>3, <1>4, <1>5, <1>6, <1>7, <1>8, EnvsChange, CredsChange

LEMMA ReferencesPreserved ==
  ASSUME IInv, Next
  PROVE  ReferencesThere'
<1>0. TypeOK /\ ReferencesThere
  BY DEF IInv
<1>1. ASSUME NEW u \in Users, DeleteRow(u)
      PROVE  ReferencesThere'
  BY <1>0, <1>1 DEF DeleteRow, Deletable, ReferencesThere
<1>2. CASE CreateEnvRow
  BY <1>0, <1>2 DEF CreateEnvRow, ReferencesThere
<1>3. CASE UpdateEnvRow
  <2>1. ASSUME NEW e \in envs
        PROVE  (IF e.id = srl.env THEN [e EXCEPT !.cred = srl.cred] ELSE e).id = e.id
    BY <1>0 DEF TypeOK, Env
  <2>2. {e.id : e \in envs'} = {e.id : e \in envs}
    BY <1>3, <2>1 DEF UpdateEnvRow
  <2>3. \A id : (\E e \in envs : e.id = id) => \E e \in envs' : e.id = id
    BY <2>2
  <2> QED
    BY <1>0, <1>3, <2>2, <2>3 DEF UpdateEnvRow, ReferencesThere
<1>4. ASSUME NEW u \in Users, NilEnvironment(u)
      PROVE  ReferencesThere'
  <2>1. row' = row \/ (row \in Row /\ row' = [row EXCEPT !.env = 0])
    BY <1>0, <1>4 DEF NilEnvironment, RowWithout, TypeOK
  <2>2. row' = row \/ row'.env = 0
    BY <2>1 DEF Row
  <2> QED
    BY <1>0, <1>4, <2>2 DEF NilEnvironment, tables, ReferencesThere
<1>5. ASSUME NEW u \in Users, DeleteReferences(u)
      PROVE  ReferencesThere'
  BY <1>0, <1>5 DEF DeleteReferences, ProjectsAfter, ReferencesThere
<1>6. CASE CreateAppProject
  BY <1>0, <1>6 DEF CreateAppProject, HasRow, ReferencesThere
<1>7. CASE WrapManagedEnv
  BY <1>0, <1>7 DEF WrapManagedEnv, HasRow, ReferencesThere
<1>8. CASE UpdateApplication
  BY <1>0, <1>8 DEF UpdateApplication, NewRow, HasRow, tables, ReferencesThere
<1>9. CASE RunnerFails
  BY <1>0, <1>9 DEF RunnerFails, tables, ReferencesThere
<1>10. CASE envs' = envs /\ UNCHANGED <<projects, accesses, row>>
  BY <1>0, <1>10 DEF ReferencesThere
<1> QED
  BY <1>1, <1>2, <1>3, <1>4, <1>5, <1>6, <1>7, <1>8, <1>9, <1>10, EnvsChange, ReferencesChange

LEMMA KeysPreserved ==
  ASSUME IInv, Next
  PROVE  Keys'
<1>0. TypeOK /\ Keys /\ MakingFits
  BY DEF IInv
<1>1. \A e, x \in envs' : e.id = x.id \/ e.cred = x.cred => e = x
  <2>1. CASE CreateEnvRow
    <3> DEFINE n == [id |-> NewEnvId, cred |-> srl.cred]
    <3>1. \A e \in envs : e.id # n.id /\ e.cred # n.cred
      BY <1>0, <2>1, FreshEnvId DEF CreateEnvRow, MakingFits
    <3>2. envs' = envs \union {n}
      BY <2>1 DEF CreateEnvRow
    <3> HIDE DEF n
    <3> QED
      BY <1>0, <3>1, <3>2 DEF Keys
  <2>2. CASE UpdateEnvRow
    <3> DEFINE new(e) == IF e.id = srl.env THEN [e EXCEPT !.cred = srl.cred] ELSE e
    <3>1. ASSUME NEW e \in envs
          PROVE  /\ new(e).id = e.id
                 /\ new(e).cred = IF e.id = srl.env THEN srl.cred ELSE e.cred
      BY <1>0 DEF TypeOK, Env
    <3>2. \A e \in envs : e.cred # srl.cred
      BY <1>0, <2>2 DEF UpdateEnvRow, MakingFits
    <3>3. \A e, x \in envs : new(e).id = new(x).id \/ new(e).cred = new(x).cred => e = x
      BY <1>0, <3>1, <3>2 DEF Keys
    <3>4. envs' = {new(e) : e \in envs}
      BY <2>2 DEF UpdateEnvRow
    <3> HIDE DEF new
    <3> QED
      BY <3>3, <3>4
  <2>3. CASE \E u \in Users : DeleteRow(u)
    BY <1>0, <2>3 DEF DeleteRow, Keys
  <2>4. CASE envs' = envs
    BY <1>0, <2>4 DEF Keys
  <2> QED
    BY <2>1, <2>2, <2>3, <2>4, EnvsChange
<1>2. \A c, d \in creds' : c.id = d.id => c = d
  <2>1. CASE CreateCredentials
    <3> DEFINE n == [id |-> NewCredId, spec |-> srl.cr.spec]
    <3>1. \A c \in creds : c.id # n.id
      BY <2>1, FreshCredId DEF CreateCredentials
    <3>2. creds' = creds \union {n}
      BY <2>1 DEF CreateCredentials
    <3> HIDE DEF n
    <3> QED
      BY <1>0, <3>1, <3>2 DEF Keys
  <2>2. CASE creds' \subseteq creds
    BY <1>0, <2>2 DEF Keys
  <2> QED
    BY <2>1, <2>2, CredsChange DEF DeleteCredentials, DeleteOldCredentials, CleanOrphanedCredentials
<1>3. \A m, n \in mappings' : m.uid = n.uid \/ m.env = n.env => m = n
  <2>1. CASE CreateMapping
    <3> DEFINE k == [uid |-> srl.cr.uid, env |-> srl.env]
    <3>1. \A m \in mappings : m.uid # k.uid /\ m.env # k.env
      BY <1>0, <2>1 DEF CreateMapping, MakingFits
    <3>2. mappings' = mappings \union {k}
      BY <2>1 DEF CreateMapping
    <3> HIDE DEF k
    <3> QED
      BY <1>0, <3>1, <3>2 DEF Keys
  <2>2. CASE mappings' \subseteq mappings
    BY <1>0, <2>2 DEF Keys
  <2> QED
    BY <2>1, <2>2, MappingsChange DEF DeleteMapping, Look, CleanOrphanedMapping
<1> QED
  BY <1>1, <1>2, <1>3 DEF Keys

\* Deletions.
LEMMA DelChange ==
  ASSUME Next
  PROVE  \/ del' = del
         \/ Deletions \/ CallFailed \/ BackendRestarts
         \/ \E m \in srl.todo : CleanMapping(m)
         \/ \E m \in mappings : CleanOrphanedMapping(m)
         \/ \E e \in envs : CleanOrphanedEnv(e)
<1>1. CASE UserStep
  BY <1>1 DEF UserStep, CreateEnvironment, ChangeSpec, DeleteEnvironment, DeleteSecret,
     DeleteClusterSecret, CallFailed, user, tables, cluster
<1>2. CASE SharedResourceLoop
  BY <1>2 DEF SharedResourceLoop, StartCall, CleanMapping, DeleteMapping, EndOfResource,
     Look, CreateCredentials, InvalidCredentials, CreateEnvRow, CreateMapping, UpdateEnvRow,
     CreateAppProject, DeleteOldCredentials, WrapManagedEnv, RowVanished, CallFailed, user, tables,
     cluster
<1>3. CASE Runner
  BY <1>3 DEF Runner, UpdateApplication, CreateOperation, CallFailed, user, tables, cluster
<1>4. CASE Failures
  BY <1>4 DEF Failures, CallFails, RunnerFails, BackendRestarts, OperationFails, CallFailed, user,
     tables, cluster
<1>5. CASE Deletions
  BY <1>5 DEF Deletions, Deletion, NilEnvironment, UpdateApplications, DeleteReferences,
     DeleteRow, DeleteCredentials, InformArgoCD, Refused, CallFailed, user, tables, cluster
<1>6. CASE Sweep
  BY <1>6 DEF Sweep, CleanOrphanedMapping, CleanOrphanedEnv, CleanOrphanedCredentials,
     CallFailed, user, tables, cluster
<1>7. CASE Agent
  BY <1>7 DEF Agent, ReadRows, EnsureSecret, DeleteSecretOf, CleanOrphanedSecret,
     RecreateClusterSecret, CallFailed, user, tables, cluster
<1> QED
  BY <1>1, <1>2, <1>3, <1>4, <1>5, <1>6, <1>7, StepKinds


-----------------------------------------------------------------------------
(* Deletions                                                               *)

\* A deletion that has just begun.
LEMMA NewTarget ==
  ASSUME TypeOK, Keys, NEW u \in Users, NEW e \in envs, envs' = envs,
         del'[u] = [IdleDel EXCEPT !.pc = "nil", !.env = e.id, !.cred = e.cred]
  PROVE  TargetFits(u)'
<1>1. del'[u].pc = "nil" /\ del'[u].env = e.id /\ del'[u].cred = e.cred
  BY DEF IdleDel
<1>2. e.id \in Id
  BY Fields
<1> QED
  BY <1>1, <1>2 DEF TargetFits, Keys

\* A step that begins no deletion and makes no use of credentials that are to go.
LEMMA OldTarget ==
  ASSUME TypeOK, NEW u \in Users, TargetFits(u),
         del'[u] = del[u] \/ del'[u] = IdleDel,
         \A x \in envs' : \/ \E e \in envs : x.id = e.id /\ x.cred = e.cred
                          \/ x.cred # del[u].cred
  PROVE  TargetFits(u)'
<1>1. CASE del'[u] = IdleDel
  BY <1>1 DEF TargetFits, IdleDel
<1>2. CASE del'[u] = del[u]
  BY <1>2 DEF TargetFits
<1> QED
  BY <1>1, <1>2

\* What is left of a deletion.
LEMMA TargetStep ==
  ASSUME TypeOK, NEW u \in Users, TargetFits(u), Deletion(u)
  PROVE  TargetFits(u)'
<1>0. del \in [Users -> Del] /\ del[u] \in Del
  BY DEF TypeOK
<1>1. CASE NilEnvironment(u)
  <2>1. /\ del'[u].pc \in {"ops", "refs"} /\ del'[u].env = del[u].env /\ del'[u].cred = del[u].cred
        /\ envs' = envs /\ del[u].pc = "nil"
    BY <1>0, <1>1 DEF NilEnvironment, Del, tables
  <2> QED
    BY <2>1 DEF TargetFits
<1>2. CASE UpdateApplications(u)
  <2>1. /\ del'[u].pc = "refs" /\ del'[u].env = del[u].env /\ del'[u].cred = del[u].cred
        /\ envs' = envs /\ del[u].pc = "ops"
    BY <1>0, <1>2 DEF UpdateApplications, Del, tables
  <2> QED
    BY <2>1 DEF TargetFits
<1>3. CASE DeleteReferences(u)
  <2>1. /\ del'[u].pc = "row" /\ del'[u].env = del[u].env /\ del'[u].cred = del[u].cred
        /\ envs' = envs /\ del[u].pc = "refs"
    BY <1>0, <1>3 DEF DeleteReferences, Del
  <2> QED
    BY <2>1 DEF TargetFits
<1>4. CASE DeleteRow(u)
  <2>1. /\ del'[u].pc = "creds" /\ del'[u].env = del[u].env /\ del'[u].cred = del[u].cred
        /\ envs' = {e \in envs : e.id # del[u].env} /\ del[u].pc = "row"
    BY <1>0, <1>4 DEF DeleteRow, Del
  <2> QED
    BY <2>1 DEF TargetFits
<1>5. CASE DeleteCredentials(u)
  <2>1. CASE del[u].apps
    <3>1. del'[u].pc = "argo" /\ del'[u].env = del[u].env /\ del[u].pc = "creds"
      BY <1>0, <1>5, <2>1 DEF DeleteCredentials, Del
    <3> QED
      BY <3>1 DEF TargetFits
  <2>2. CASE ~del[u].apps
    <3>1. del'[u] = IdleDel
      BY <1>0, <1>5, <2>2 DEF DeleteCredentials, Deleted
    <3> QED
      BY <3>1 DEF TargetFits, IdleDel
  <2> QED
    BY <2>1, <2>2
<1>6. CASE InformArgoCD(u) \/ Refused(u)
  <2>1. del'[u] = IdleDel
    BY <1>0, <1>6 DEF InformArgoCD, Deleted, Refused, Fail
  <2> QED
    BY <2>1 DEF TargetFits, IdleDel
<1> QED
  BY <1>1, <1>2, <1>3, <1>4, <1>5, <1>6 DEF Deletion

\* A deletion for one user leaves that for the other alone.
LEMMA OtherDeletion ==
  ASSUME TypeOK, NEW u \in Users, NEW v \in Users, u # v, Deletion(v)
  PROVE  (del'[u] = del[u] \/ del'[u] = IdleDel) /\ envs' \subseteq envs
<1>0. del \in [Users -> Del]
  BY DEF TypeOK
<1> QED
  BY <1>0 DEF Deletion, NilEnvironment, UpdateApplications, DeleteReferences, DeleteRow,
     DeleteCredentials, InformArgoCD, Deleted, Refused, Fail, tables

LEMMA TargetsPreserved ==
  ASSUME IInv, Next, NEW u \in Users
  PROVE  TargetFits(u)'
<1>0. /\ TypeOK /\ Keys /\ MakingFits /\ TargetFits(u)
      /\ del \in [Users -> Del]
  BY DEF IInv, DeletionsFit, TypeOK
<1>1. CASE Deletions
  <2>1. PICK v \in Users : Deletion(v)
    BY <1>1 DEF Deletions
  <2> QED
    BY <1>0, <2>1, TargetStep, OtherDeletion, OldTarget
<1>2. CASE CallFailed \/ BackendRestarts
  <2>1. del'[u] = del[u] \/ del'[u] = IdleDel
    BY <1>0, <1>2 DEF CallFailed, Fail, BackendRestarts
  <2>2. envs' = envs
    BY <1>2 DEF CallFailed, BackendRestarts, tables
  <2> QED
    BY <1>0, <2>1, <2>2, OldTarget
<1>3. ASSUME NEW m \in srl.todo, CleanMapping(m)
      PROVE  TargetFits(u)'
  <2>0. m.env \in Id /\ envs' = envs
    BY <1>0, <1>3, Fields DEF CleanMapping, tables
  <2>1. CASE HasRow(m.env) /\ u = "owner"
    <3> DEFINE e == CHOOSE x \in envs : x.id = m.env
    <3>1. e \in envs /\ e.id = m.env
      BY <1>0, <2>0, <2>1, RowOf
    <3>2. del'[u] = [IdleDel EXCEPT !.pc = "nil", !.env = e.id, !.cred = e.cred]
      BY <1>0, <1>3, <2>1, <3>1 DEF CleanMapping
    <3> HIDE DEF e
    <3> QED
      BY <1>0, <2>0, <3>1, <3>2, NewTarget
  <2>2. CASE ~(HasRow(m.env) /\ u = "owner")
    <3>1. del'[u] = del[u]
      BY <1>0, <1>3, <2>2 DEF CleanMapping
    <3> QED
      BY <1>0, <2>0, <3>1, OldTarget
  <2> QED
    BY <2>1, <2>2
<1>4. ASSUME NEW m \in mappings, CleanOrphanedMapping(m)
      PROVE  TargetFits(u)'
  <2>0. m.env \in Id /\ envs' = envs
    BY <1>0, <1>4, Fields DEF CleanOrphanedMapping
  <2>1. CASE HasRow(m.env) /\ u = "special"
    <3> DEFINE e == CHOOSE x \in envs : x.id = m.env
    <3>1. e \in envs /\ e.id = m.env
      BY <1>0, <2>0, <2>1, RowOf
    <3>2. del'[u] = [IdleDel EXCEPT !.pc = "nil", !.env = e.id, !.cred = e.cred]
      BY <1>0, <1>4, <2>1, <3>1 DEF CleanOrphanedMapping
    <3> HIDE DEF e
    <3> QED
      BY <1>0, <2>0, <3>1, <3>2, NewTarget
  <2>2. CASE ~(HasRow(m.env) /\ u = "special")
    <3>1. del'[u] = del[u]
      BY <1>0, <1>4, <2>2 DEF CleanOrphanedMapping
    <3> QED
      BY <1>0, <2>0, <3>1, OldTarget
  <2> QED
    BY <2>1, <2>2
<1>5. ASSUME NEW e \in envs, CleanOrphanedEnv(e)
      PROVE  TargetFits(u)'
  <2>0. envs' = envs
    BY <1>5 DEF CleanOrphanedEnv, tables
  <2>1. CASE u = "special"
    <3>1. del'[u] = [IdleDel EXCEPT !.pc = "nil", !.env = e.id, !.cred = e.cred]
      BY <1>0, <1>5, <2>1 DEF CleanOrphanedEnv
    <3> QED
      BY <1>0, <2>0, <3>1, NewTarget
  <2>2. CASE u # "special"
    <3>1. del'[u] = del[u]
      BY <1>0, <1>5, <2>2 DEF CleanOrphanedEnv
    <3> QED
      BY <1>0, <2>0, <3>1, OldTarget
  <2> QED
    BY <2>1, <2>2
<1>6. CASE del' = del
  <2>1. CASE CreateEnvRow
    <3> DEFINE n == [id |-> NewEnvId, cred |-> srl.cred]
    <3>1. n.cred # del[u].cred /\ envs' = envs \union {n}
      BY <1>0, <2>1 DEF CreateEnvRow, MakingFits
    <3> HIDE DEF n
    <3>2. \A x \in envs' : x \in envs \/ x.cred # del[u].cred
      BY <3>1
    <3> QED
      BY <1>0, <1>6, <3>2, OldTarget
  <2>2. CASE UpdateEnvRow
    <3>1. srl.cred # del[u].cred
      BY <1>0, <2>2 DEF UpdateEnvRow, MakingFits
    <3> DEFINE new(e) == IF e.id = srl.env THEN [e EXCEPT !.cred = srl.cred] ELSE e
    <3>2. \A e \in envs : new(e).id = e.id /\ new(e).cred \in {e.cred, srl.cred}
      BY <1>0 DEF TypeOK, Env
    <3>4. envs' = {new(e) : e \in envs}
      BY <2>2 DEF UpdateEnvRow
    <3> HIDE DEF new
    <3>3. \A x \in envs' : \/ \E e \in envs : x.id = e.id /\ x.cred = e.cred
                           \/ x.cred # del[u].cred
      BY <3>1, <3>2, <3>4
    <3> QED
      BY <1>0, <1>6, <3>3, OldTarget
  <2>3. CASE envs' \subseteq envs
    BY <1>0, <1>6, <2>3, OldTarget
  <2> QED
    BY <2>1, <2>2, <2>3, EnvsChange DEF DeleteRow
<1> QED
  BY <1>1, <1>2, <1>3, <1>4, <1>5, <1>6, DelChange

\* Calls of the shared resource loop.
LEMMA SrlSteps ==
  ASSUME Next
  PROVE  \/ srl' = srl
         \/ CallFailed \/ BackendRestarts \/ EndOfResource \/ WrapManagedEnv
         \/ \E caller \in {"event", "runner"} : StartCall(caller)
         \/ \E m \in srl.todo : CleanMapping(m)
         \/ Deletion("owner") /\ Deleted("owner")
         \/ DeleteMapping \/ Look \/ CreateCredentials \/ CreateEnvRow \/ CreateMapping
         \/ UpdateEnvRow \/ CreateAppProject \/ DeleteOldCredentials
<1>1. CASE UserStep
  BY <1>1 DEF UserStep, CreateEnvironment, ChangeSpec, DeleteEnvironment, DeleteSecret,
     DeleteClusterSecret, CallFailed, Deleted, user, tables, cluster
<1>2. CASE SharedResourceLoop
  BY <1>2 DEF SharedResourceLoop, StartCall, CleanMapping, DeleteMapping, EndOfResource, Look,
     CreateCredentials, InvalidCredentials, CreateEnvRow, CreateMapping, UpdateEnvRow,
     CreateAppProject, DeleteOldCredentials, WrapManagedEnv, RowVanished, CallFailed, Deleted,
     user, tables, cluster
<1>3. CASE Runner
  BY <1>3 DEF Runner, UpdateApplication, CreateOperation, CallFailed, Deleted, user, tables, cluster
<1>4. CASE Failures
  BY <1>4 DEF Failures, CallFails, RunnerFails, BackendRestarts, OperationFails, CallFailed,
     Deleted, user, tables, cluster
<1>5. CASE Deletions
  BY <1>5 DEF Deletions, Deletion, NilEnvironment, UpdateApplications, DeleteReferences,
     DeleteRow, DeleteCredentials, InformArgoCD, Refused, CallFailed, Deleted, user, tables, cluster
<1>6. CASE Sweep
  BY <1>6 DEF Sweep, CleanOrphanedMapping, CleanOrphanedEnv, CleanOrphanedCredentials,
     CallFailed, Deleted, user, tables, cluster
<1>7. CASE Agent
  BY <1>7 DEF Agent, ReadRows, EnsureSecret, DeleteSecretOf, CleanOrphanedSecret,
     RecreateClusterSecret, CallFailed, Deleted, user, tables, cluster
<1> QED
  BY <1>1, <1>2, <1>3, <1>4, <1>5, <1>6, <1>7, StepKinds

LEMMA SrlChange ==
  ASSUME Next
  PROVE  \/ srl' = srl \/ srl' = IdleSRL
         \/ \E caller \in {"event", "runner"} : StartCall(caller)
         \/ \E m \in srl.todo : CleanMapping(m)
         \/ Deletion("owner") /\ Deleted("owner")
         \/ DeleteMapping \/ Look \/ CreateCredentials \/ CreateEnvRow \/ CreateMapping
         \/ UpdateEnvRow \/ CreateAppProject \/ DeleteOldCredentials
  BY SrlSteps DEF CallFailed, Fail, BackendRestarts, EndOfResource, WrapManagedEnv, Answer

LEMMA OwnerPreserved ==
  ASSUME IInv, Next
  PROVE  /\ srl'.pc = "delete" <=> del'["owner"].pc # "idle"
         /\ srl'.pc = "delete" => del'["owner"].env = srl'.env
<1>0. /\ del \in [Users -> Del] /\ srl \in Call
      /\ "owner" \in Users /\ "special" \in Users /\ del["owner"] \in Del
      /\ srl.pc = "delete" <=> del["owner"].pc # "idle"
      /\ srl.pc = "delete" => del["owner"].env = srl.env
  BY DEF IInv, TypeOK, DeletionsFit, Users
<1>1. CASE CallFailed \/ BackendRestarts
  <2>1. srl' = IdleSRL /\ del'["owner"] = IdleDel
    BY <1>0, <1>1 DEF CallFailed, Fail, BackendRestarts
  <2> QED
    BY <2>1 DEF IdleSRL, IdleDel
<1>2. CASE srl' = srl /\ del'["owner"] = del["owner"]
  BY <1>0, <1>2
<1>3. CASE del' = del /\ srl.pc # "delete" /\ srl'.pc # "delete"
  BY <1>0, <1>3
<1>4. CASE Deletion("owner")
  <2>1. CASE Deleted("owner")
    <3>1. del'["owner"] = IdleDel /\ srl'.pc = "unmap"
      BY <1>0, <2>1 DEF Deleted, Call
    <3> QED
      BY <3>1 DEF IdleDel
  <2>2. CASE CallFailed
    BY <1>1, <2>2
  <2>3. CASE /\ srl' = srl /\ del["owner"].pc # "idle" /\ del'["owner"].pc # "idle"
             /\ del'["owner"].env = del["owner"].env
    BY <1>0, <2>3
  <2> QED
    BY <1>0, <1>4, <2>1, <2>2, <2>3
       DEF Deletion, NilEnvironment, UpdateApplications, DeleteReferences, DeleteRow,
           DeleteCredentials, InformArgoCD, Refused, CallFailed, Del
<1>5. CASE Deletions
  <2>1. CASE Deletion("special")
    BY <1>0, <1>2, <2>1
       DEF Deletion, NilEnvironment, UpdateApplications, DeleteReferences, DeleteRow,
           DeleteCredentials, InformArgoCD, Deleted, Refused
  <2> QED
    BY <1>4, <1>5, <2>1 DEF Deletions, Users
<1>6. CASE SharedResourceLoop
  <2>1. ASSUME NEW caller \in {"event", "runner"}, StartCall(caller)
        PROVE  (srl' = srl \/ srl'.pc = "clean") /\ del' = del /\ srl.pc = "idle"
    BY <2>1 DEF StartCall, IdleSRL
  <2>2. ASSUME NEW m \in srl.todo, CleanMapping(m)
        PROVE  /\ srl'.pc = "delete" <=> del'["owner"].pc # "idle"
               /\ srl'.pc = "delete" => del'["owner"].env = srl'.env
    <3>1. /\ srl.pc = "clean" /\ srl'.env = m.env
          /\ srl'.pc = IF HasRow(m.env) THEN "delete" ELSE "unmap"
      BY <1>0, <2>2 DEF CleanMapping, Call
    <3>2. IF HasRow(m.env) THEN del'["owner"].pc = "nil" /\ del'["owner"].env = m.env
          ELSE del'["owner"] = del["owner"]
      BY <1>0, <2>2 DEF CleanMapping, IdleDel
    <3> QED
      BY <1>0, <3>1, <3>2
  <2>3. ASSUME DeleteMapping \/ Look \/ CreateCredentials \/ CreateEnvRow \/ CreateMapping
               \/ UpdateEnvRow \/ CreateAppProject
        PROVE  del' = del /\ srl.pc # "delete" /\ srl'.pc # "delete"
    BY <1>0, <2>3 DEF DeleteMapping, Look, CreateCredentials, CreateEnvRow, CreateMapping,
       UpdateEnvRow, CreateAppProject, Call
  <2>4. ASSUME EndOfResource \/ WrapManagedEnv \/ DeleteOldCredentials
        PROVE  del' = del /\ srl.pc # "delete" /\ srl'.pc # "delete"
    BY <1>0, <2>4 DEF EndOfResource, WrapManagedEnv, DeleteOldCredentials, Answer, IdleSRL, Call
  <2>5. ASSUME InvalidCredentials \/ RowVanished
        PROVE  CallFailed
    BY <2>5 DEF InvalidCredentials, RowVanished, CallFailed
  <2> QED
    BY <1>1, <1>2, <1>3, <1>6, <2>1, <2>2, <2>3, <2>4, <2>5 DEF SharedResourceLoop
<1>7. CASE UserStep
  BY <1>2, <1>7 DEF UserStep, CreateEnvironment, ChangeSpec, DeleteEnvironment, DeleteSecret,
     DeleteClusterSecret
<1>8. CASE Runner
  BY <1>2, <1>8 DEF Runner, UpdateApplication, CreateOperation
<1>9. CASE Failures
  BY <1>1, <1>2, <1>9 DEF Failures, CallFails, RunnerFails, OperationFails, CallFailed
<1>10. CASE Sweep
  BY <1>0, <1>2, <1>10 DEF Sweep, CleanOrphanedMapping, CleanOrphanedEnv, CleanOrphanedCredentials
<1>11. CASE Agent
  BY <1>2, <1>11 DEF Agent, ReadRows, EnsureSecret, DeleteSecretOf, CleanOrphanedSecret,
     RecreateClusterSecret
<1> QED
  BY <1>5, <1>6, <1>7, <1>8, <1>9, <1>10, <1>11, StepKinds

\* The database reconciler deletes no environment that has a mapping.
LEMMA SpecialPreserved ==
  ASSUME IInv, Next, del'["special"].pc # "idle"
  PROVE  \A m \in mappings' : m.env # del'["special"].env
<1>0. /\ TypeOK /\ Keys /\ MakingFits /\ del \in [Users -> Del]
      /\ "owner" \in Users /\ "special" \in Users /\ del["special"] \in Del
      /\ del["special"].pc # "idle" => \A m \in mappings : m.env # del["special"].env
  BY DEF IInv, TypeOK, DeletionsFit, Users
<1>1. ASSUME NEW m \in mappings, CleanOrphanedMapping(m)
      PROVE  \A n \in mappings' : n.env # del'["special"].env
  <2>1. CASE HasRow(m.env)
    <3>1. del'["special"].env = m.env /\ mappings' = mappings \ {m}
      BY <1>0, <1>1, <2>1 DEF CleanOrphanedMapping, IdleDel
    <3> QED
      BY <1>0, <3>1 DEF Keys
  <2>2. CASE ~HasRow(m.env)
    BY <1>0, <1>1, <2>2 DEF CleanOrphanedMapping
  <2> QED
    BY <2>1, <2>2
<1>2. ASSUME NEW e \in envs, CleanOrphanedEnv(e)
      PROVE  \A n \in mappings' : n.env # del'["special"].env
  BY <1>0, <1>2 DEF CleanOrphanedEnv, IdleDel, tables
<1>3. CASE del["special"].pc # "idle" /\ del'["special"].env = del["special"].env
  <2>1. CASE CreateMapping
    <3>1. srl.env # del["special"].env
      BY <1>0, <2>1 DEF CreateMapping, MakingFits
    <3>2. \A m \in mappings' : m \in mappings \/ m.env = srl.env
      BY <2>1 DEF CreateMapping
    <3> QED
      BY <1>0, <1>3, <3>1, <3>2
  <2>2. CASE mappings' \subseteq mappings
    BY <1>0, <1>3, <2>2
  <2> QED
    BY <2>1, <2>2, MappingsChange DEF DeleteMapping, Look, CleanOrphanedMapping
<1>4. CASE del' = del
  BY <1>3, <1>4
<1>5. CASE CallFailed \/ BackendRestarts
  BY <1>0, <1>3, <1>5 DEF CallFailed, Fail, BackendRestarts, IdleDel
<1>6. CASE \E m \in srl.todo : CleanMapping(m)
  BY <1>0, <1>3, <1>6 DEF CleanMapping
<1>7. CASE Deletion("special")
  <2>1. CASE del'["special"] = IdleDel
    BY <2>1 DEF IdleDel
  <2> QED
    BY <1>0, <1>3, <1>7, <2>1
       DEF Deletion, NilEnvironment, UpdateApplications, DeleteReferences, DeleteRow,
           DeleteCredentials, InformArgoCD, Deleted, Refused, Del
<1>8. CASE Deletion("owner")
  <2>1. del'["special"] = del["special"]
    BY <1>0, <1>8
       DEF Deletion, NilEnvironment, UpdateApplications, DeleteReferences, DeleteRow,
           DeleteCredentials, InformArgoCD, Deleted, Refused, Fail
  <2> QED
    BY <1>3, <2>1
<1>9. CASE Deletions
  BY <1>7, <1>8, <1>9 DEF Deletions, Users
<1> QED
  BY <1>1, <1>2, <1>4, <1>5, <1>6, <1>9, DelChange

LEMMA DeletionsPreserved ==
  ASSUME IInv, Next
  PROVE  DeletionsFit'
  BY OwnerPreserved, SpecialPreserved, TargetsPreserved DEF DeletionsFit

-----------------------------------------------------------------------------
(* Calls of the shared resource loop                                       *)

LEMMA CallerPreserved ==
  ASSUME IInv, Next
  PROVE  CallerFits'
<1>0. CallerFits /\ srl \in Call /\ runner \in RunnerState
  BY DEF IInv, TypeOK
<1>1. CASE CallFailed
  BY <1>0, <1>1 DEF CallFailed, Fail, CallerFits, CallOf, IdleSRL, IdleRunner
<1>2. CASE BackendRestarts
  BY <1>2 DEF BackendRestarts, CallerFits, CallOf, IdleSRL, IdleRunner
<1>3. CASE srl' = srl /\ (runner' = runner \/ (runner.pc # "call" /\ runner'.pc # "call"))
  BY <1>0, <1>3 DEF CallerFits, CallOf
<1>4. CASE /\ runner' = runner /\ srl.pc # "idle"
           /\ srl'.pc # "idle" /\ srl'.caller = srl.caller
  BY <1>0, <1>4 DEF CallerFits, CallOf
<1>5. ASSUME NEW e \in Id \union {0}, Answer(e), srl.pc # "idle"
      PROVE  CallerFits'
  <2>1. srl'.pc = "idle"
    BY <1>5 DEF Answer, IdleSRL
  <2>2. CASE srl.caller = "event"
    BY <1>0, <1>5, <2>1, <2>2 DEF Answer, CallerFits, CallOf
  <2>3. CASE srl.caller # "event"
    <3>1. runner'.pc = "update"
      BY <1>0, <1>5, <2>3 DEF Answer, RunnerState
    <3> QED
      BY <2>1, <3>1 DEF CallerFits, CallOf
  <2> QED
    BY <2>2, <2>3
<1>6. ASSUME NEW caller \in {"event", "runner"}, StartCall(caller)
      PROVE  CallerFits'
  <2>1. CASE cr # None /\ ~secretOK
    BY <1>3, <1>6, <2>1 DEF StartCall
  <2>2. CASE ~(cr # None /\ ~secretOK)
    <3>1. srl'.pc = "clean" /\ srl'.caller = caller /\ srl.pc = "idle"
      BY <1>6, <2>2 DEF StartCall, IdleSRL
    <3>2. CASE caller = "event"
      BY <1>0, <1>6, <2>2, <3>1, <3>2 DEF StartCall, CallerFits, CallOf
    <3>3. CASE caller = "runner"
      <4>1. runner'.pc = "call"
        BY <1>6, <2>2, <3>3 DEF StartCall, IdleRunner
      <4> QED
        BY <3>1, <3>3, <4>1 DEF CallerFits, CallOf
    <3> QED
      BY <3>2, <3>3
  <2> QED
    BY <2>1, <2>2
<1>7. CASE SharedResourceLoop
  <2>1. CASE \E m \in srl.todo : CleanMapping(m)
    BY <1>0, <1>4, <2>1 DEF CleanMapping, Call
  <2>2. CASE DeleteMapping \/ Look \/ CreateCredentials \/ CreateEnvRow \/ CreateMapping
             \/ UpdateEnvRow \/ CreateAppProject
    BY <1>0, <1>4, <2>2 DEF DeleteMapping, Look, CreateCredentials, CreateEnvRow, CreateMapping,
       UpdateEnvRow, CreateAppProject, Call
  <2>3. CASE EndOfResource \/ WrapManagedEnv
    BY <1>0, <1>5, <2>3 DEF EndOfResource, WrapManagedEnv, Call
  <2>4. CASE DeleteOldCredentials
    BY <1>0, <1>4, <1>5, <2>4 DEF DeleteOldCredentials, Call
  <2>5. CASE InvalidCredentials \/ RowVanished
    BY <1>1, <2>5 DEF InvalidCredentials, RowVanished, CallFailed
  <2> QED
    BY <1>6, <1>7, <2>1, <2>2, <2>3, <2>4, <2>5 DEF SharedResourceLoop
<1>8. CASE Deletions
  <2>1. CASE Deletion("special")
    BY <1>3, <2>1
       DEF Deletion, NilEnvironment, UpdateApplications, DeleteReferences, DeleteRow,
           DeleteCredentials, InformArgoCD, Deleted, Refused
  <2>2. CASE Deletion("owner")
    <3>1. srl.pc # "idle"
      BY <2>2 DEF IInv, DeletionsFit, Deletion, NilEnvironment, UpdateApplications,
         DeleteReferences, DeleteRow, DeleteCredentials, InformArgoCD, Refused
    <3> QED
      BY <1>0, <1>1, <1>3, <1>4, <2>2, <3>1
         DEF Deletion, NilEnvironment, UpdateApplications, DeleteReferences, DeleteRow,
             DeleteCredentials, InformArgoCD, Deleted, Refused, CallFailed, Call
  <2> QED
    BY <1>8, <2>1, <2>2 DEF Deletions, Users
<1>9. CASE Runner
  BY <1>0, <1>3, <1>9 DEF Runner, UpdateApplication, CreateOperation, IdleRunner, RunnerState
<1>10. CASE Failures
  BY <1>0, <1>1, <1>2, <1>3, <1>10 DEF Failures, CallFails, RunnerFails, OperationFails, CallFailed,
     IdleRunner
<1>11. CASE UserStep
  BY <1>3, <1>11 DEF UserStep, CreateEnvironment, ChangeSpec, DeleteEnvironment, DeleteSecret,
     DeleteClusterSecret
<1>12. CASE Sweep
  BY <1>3, <1>12 DEF Sweep, CleanOrphanedMapping, CleanOrphanedEnv, CleanOrphanedCredentials
<1>13. CASE Agent
  BY <1>3, <1>13 DEF Agent, ReadRows, EnsureSecret, DeleteSecretOf, CleanOrphanedSecret,
     RecreateClusterSecret
<1> QED
  BY <1>7, <1>8, <1>9, <1>10, <1>11, <1>12, <1>13, StepKinds

LEMMA CleaningPreserved ==
  ASSUME IInv, Next
  PROVE  CleaningFits'
<1>0. TypeOK /\ Keys /\ CleaningFits /\ srl \in Call
  BY DEF IInv, TypeOK
<1>1. CASE srl'.pc \notin {"clean", "delete", "unmap"}
  BY <1>1 DEF CleaningFits
<1>2. CASE CreateMapping
  BY <1>0, <1>1, <1>2 DEF CreateMapping, Call
<1>3. CASE mappings' \subseteq mappings
  <2>1. CASE srl' = srl
    BY <1>0, <1>3, <2>1 DEF CleaningFits
  <2>2. ASSUME NEW caller \in {"event", "runner"}, StartCall(caller)
        PROVE  CleaningFits'
    <3>1. CASE srl' = srl
      BY <2>1, <3>1
    <3>2. CASE srl' # srl
      <4>1. srl'.pc = "clean" /\ srl'.cr = cr /\ srl'.todo = Outdated(cr)
        BY <2>2, <3>2 DEF StartCall, IdleSRL
      <4> QED
        BY <1>0, <1>3, <4>1 DEF CleaningFits, Outdated, Keys
    <3> QED
      BY <3>1, <3>2
  <2>3. ASSUME NEW m \in srl.todo, CleanMapping(m)
        PROVE  CleaningFits'
    <3>1. /\ srl.pc = "clean" /\ srl'.pc \in {"delete", "unmap"} /\ srl'.env = m.env
          /\ srl'.todo = srl.todo /\ srl'.cr = srl.cr
      BY <1>0, <2>3 DEF CleanMapping, Call
    <3> QED
      BY <1>0, <1>3, <3>1 DEF CleaningFits
  <2>4. CASE Deletion("owner") /\ Deleted("owner")
    <3>1. srl'.pc = "unmap" /\ srl'.env = srl.env /\ srl'.todo = srl.todo /\ srl'.cr = srl.cr
      BY <1>0, <2>4 DEF Deleted, Call
    <3>2. srl.pc = "delete"
      BY <2>4 DEF IInv, DeletionsFit, Deletion, NilEnvironment, UpdateApplications,
         DeleteReferences, DeleteRow, DeleteCredentials, InformArgoCD, Refused
    <3> QED
      BY <1>0, <1>3, <3>1, <3>2 DEF CleaningFits
  <2>5. CASE DeleteMapping
    <3>1. srl.pc = "unmap" /\ srl'.pc = "clean" /\ srl'.todo \subseteq srl.todo /\ srl'.cr = srl.cr
      BY <1>0, <2>5 DEF DeleteMapping, Call
    <3> QED
      BY <1>0, <1>3, <3>1 DEF CleaningFits
  <2>6. CASE Look \/ CreateCredentials \/ CreateEnvRow \/ CreateMapping \/ UpdateEnvRow
             \/ CreateAppProject
    BY <1>0, <1>1, <2>6 DEF Look, CreateCredentials, CreateEnvRow, CreateMapping, UpdateEnvRow,
       CreateAppProject, Call
  <2>7. CASE DeleteOldCredentials \/ srl' = IdleSRL
    BY <1>0, <1>1, <2>7 DEF DeleteOldCredentials, Answer, IdleSRL, Call
  <2> QED
    BY <2>1, <2>2, <2>3, <2>4, <2>5, <2>6, <2>7, SrlChange
<1> QED
  BY <1>2, <1>3, MappingsChange DEF DeleteMapping, Look, CleanOrphanedMapping

\* What the other processes do to a call that makes an environment.
LEMMA OthersKeep ==
  ASSUME IInv, Next, srl' = srl, srl.pc # "idle", srl.pc # "delete"
  PROVE  /\ envs' \subseteq envs /\ mappings' \subseteq mappings
         /\ \A c \in creds : \/ c \in creds' \/ c.id # srl.cred
                             \/ \E u \in Users : del[u].pc = "creds" /\ c.id = del[u].cred
         /\ \A u \in Users : \/ del'[u].env = 0 /\ del'[u].cred = 0
                             \/ del'[u].env = del[u].env /\ del'[u].cred = del[u].cred
                             \/ \E e \in envs : /\ del'[u].env = e.id /\ del'[u].cred = e.cred
                                                /\ \/ e.id # srl.env
                                                   \/ \E m \in mappings : m.env = e.id
<1>0. /\ TypeOK /\ Keys /\ srl \in Call /\ del \in [Users -> Del] /\ \A u \in Users : del[u] \in Del
      /\ "owner" \in Users /\ "special" \in Users
      /\ srl.pc = "delete" <=> del["owner"].pc # "idle"
  BY DEF IInv, TypeOK, DeletionsFit, Users
<1>1. envs' \subseteq envs
  <2>1. ~CreateEnvRow
    BY <1>0 DEF CreateEnvRow, Call
  <2>2. ~UpdateEnvRow
    BY <1>0 DEF UpdateEnvRow, Call
  <2> QED
    BY <2>1, <2>2, EnvsChange DEF DeleteRow
<1>2. mappings' \subseteq mappings
  <2>1. ~CreateMapping
    BY <1>0 DEF CreateMapping, Call
  <2> QED
    BY <2>1, MappingsChange DEF DeleteMapping, Look, CleanOrphanedMapping
<1>3. ASSUME NEW c \in creds
      PROVE  \/ c \in creds' \/ c.id # srl.cred
             \/ \E u \in Users : del[u].pc = "creds" /\ c.id = del[u].cred
  <2>1. ~DeleteOldCredentials
    BY <1>0 DEF DeleteOldCredentials, Answer, IdleSRL, Call
  <2>2. ASSUME NEW u \in Users, DeleteCredentials(u)
        PROVE  c \in creds' \/ (del[u].pc = "creds" /\ c.id = del[u].cred)
    BY <2>2 DEF DeleteCredentials
  <2>3. ASSUME NEW d \in creds, CleanOrphanedCredentials(d)
        PROVE  c \in creds' \/ c.id # srl.cred
    BY <2>3 DEF CleanOrphanedCredentials, Unused, RecentCred
  <2>4. CASE CreateCredentials
    BY <2>4 DEF CreateCredentials
  <2> QED
    BY <2>1, <2>2, <2>3, <2>4, CredsChange
<1>4. ASSUME NEW u \in Users
      PROVE  \/ del'[u].env = 0 /\ del'[u].cred = 0
             \/ del'[u].env = del[u].env /\ del'[u].cred = del[u].cred
             \/ \E e \in envs : /\ del'[u].env = e.id /\ del'[u].cred = e.cred
                                /\ \/ e.id # srl.env
                                   \/ \E m \in mappings : m.env = e.id
  <2>1. CASE del'[u] = IdleDel \/ del'[u] = del[u]
    BY <2>1 DEF IdleDel
  <2>2. CASE Deletions
    <3>1. ASSUME NEW v \in Users, Deletion(v)
          PROVE  \/ del'[u] = IdleDel \/ del'[u] = del[u]
                 \/ del'[u].env = del[u].env /\ del'[u].cred = del[u].cred
      <4>1. CASE u = v
        BY <1>0, <3>1, <4>1 DEF Deletion, NilEnvironment, UpdateApplications, DeleteReferences,
           DeleteRow, DeleteCredentials, InformArgoCD, Deleted, Refused, Fail, Del
      <4>2. CASE u # v
        BY <1>0, <3>1, <4>2, OtherDeletion
      <4> QED
        BY <4>1, <4>2
    <3> QED
      BY <2>1, <2>2, <3>1 DEF Deletions
  <2>3. CASE CallFailed \/ BackendRestarts \/ del' = del
    BY <1>0, <2>1, <2>3 DEF CallFailed, Fail, BackendRestarts
  <2>4. CASE \E m \in srl.todo : CleanMapping(m)
    BY <1>0, <2>4 DEF CleanMapping, Call
  <2>5. ASSUME NEW m \in mappings, CleanOrphanedMapping(m), u = "special", HasRow(m.env)
        PROVE  \E e \in envs : /\ del'[u].env = e.id /\ del'[u].cred = e.cred
                               /\ \E n \in mappings : n.env = e.id
    <3> DEFINE e == CHOOSE x \in envs : x.id = m.env
    <3>1. e \in envs /\ e.id = m.env
      BY <1>0, <2>5, RowOf, Fields
    <3>2. del'[u] = [IdleDel EXCEPT !.pc = "nil", !.env = m.env, !.cred = e.cred]
      BY <1>0, <2>5 DEF CleanOrphanedMapping
    <3> HIDE DEF e
    <3> QED
      BY <3>1, <3>2 DEF IdleDel
  <2>6. ASSUME NEW m \in mappings, CleanOrphanedMapping(m), ~(u = "special" /\ HasRow(m.env))
        PROVE  del'[u] = del[u]
    BY <1>0, <2>6 DEF CleanOrphanedMapping
  <2>7. ASSUME NEW e \in envs, CleanOrphanedEnv(e)
        PROVE  \/ del'[u] = del[u]
               \/ del'[u].env = e.id /\ del'[u].cred = e.cred /\ e.id # srl.env
    BY <1>0, <2>7 DEF CleanOrphanedEnv, Recent, IdleDel
  <2> QED
    BY <2>1, <2>2, <2>3, <2>4, <2>5, <2>6, <2>7, DelChange
<1> QED
  BY <1>1, <1>2, <1>3, <1>4

\* An environment with its credentials stays, unless it is deleted or replaced.
LEMMA FitsKept ==
  ASSUME IInv, Next, NEW e, NEW c, Fits(e, c), ~UpdateEnvRow,
         \A u \in Users : DeleteRow(u) => del[u].env # e
  PROVE  \E x \in envs', y \in creds' : x.id = e /\ x.cred = y.id /\ y.spec = c.spec
<1>0. DeletionsFit /\ MakingFits
  BY DEF IInv
<1>1. PICK x \in envs, y \in creds : x.id = e /\ x.cred = y.id /\ y.spec = c.spec
  BY DEF Fits
<1>2. x \in envs'
  BY <1>1, EnvsChange DEF DeleteRow, CreateEnvRow
<1>3. y \in creds'
  <2>1. ASSUME NEW u \in Users, DeleteCredentials(u)
        PROVE  y \in creds'
    BY <1>0, <1>1, <2>1 DEF DeleteCredentials, DeletionsFit, TargetFits
  <2>2. CASE DeleteOldCredentials
    BY <1>0, <1>1, <2>2 DEF DeleteOldCredentials, MakingFits
  <2>3. ASSUME NEW d \in creds, CleanOrphanedCredentials(d)
        PROVE  y \in creds'
    BY <1>1, <2>3 DEF CleanOrphanedCredentials, Unused
  <2>4. CASE CreateCredentials
    BY <2>4 DEF CreateCredentials
  <2> QED
    BY <2>1, <2>2, <2>3, <2>4, CredsChange
<1> QED
  BY <1>1, <1>2, <1>3

\* A call that goes on making an environment while another process takes a step.
LEMMA MakingUndisturbed ==
  ASSUME IInv, Next, srl' = srl
  PROVE  MakingFits'
<1>0. TypeOK /\ MakingFits /\ DeletionsFit /\ srl \in Call
  BY DEF IInv, TypeOK
<1>1. CASE srl.pc \in {"idle", "clean", "delete", "unmap"}
  BY <1>1 DEF MakingFits
<1>2. CASE srl.pc \notin {"idle", "clean", "delete", "unmap"}
  <2>1. envs' \subseteq envs /\ mappings' \subseteq mappings
    BY <1>2, OthersKeep
  <2>2. ASSUME srl.pc \in {"newEnv", "update"}
        PROVE  /\ \E c \in creds' : c.id = srl.cred /\ c.spec = srl.cr.spec
               /\ \A u \in Users : del'[u].cred # srl.cred
    <3>1. /\ srl.cred \in Id
          /\ \A e \in envs : e.cred # srl.cred
          /\ \A u \in Users : del[u].cred # srl.cred
      BY <1>0, <2>2 DEF MakingFits
    <3>2. PICK c \in creds : c.id = srl.cred /\ c.spec = srl.cr.spec
      BY <1>0, <2>2 DEF MakingFits
    <3>3. c \in creds'
      BY <1>2, <3>1, <3>2, OthersKeep
    <3>4. \A u \in Users : del'[u].cred # srl.cred
      BY <1>2, <3>1, OthersKeep, IdsArePositive
    <3> QED
      BY <3>2, <3>3, <3>4
  <2>3. ASSUME srl.pc = "newMapping"
        PROVE  /\ \E x \in envs', y \in creds' :
                    x.id = srl.env /\ x.cred = y.id /\ y.spec = srl.cr.spec
               /\ \A u \in Users : del'[u].env # srl.env
    <3>1. /\ srl.env \in Id /\ Fits(srl.env, srl.cr)
          /\ \A m \in mappings : m.env # srl.env
          /\ \A u \in Users : del[u].env # srl.env
      BY <1>0, <2>3 DEF MakingFits
    <3>2. ~UpdateEnvRow
      BY <2>3 DEF UpdateEnvRow
    <3>3. \E x \in envs', y \in creds' :
            x.id = srl.env /\ x.cred = y.id /\ y.spec = srl.cr.spec
      BY <3>1, <3>2, FitsKept
    <3>4. \A u \in Users : del'[u].env # srl.env
      BY <1>2, <3>1, OthersKeep, IdsArePositive
    <3> QED
      BY <3>3, <3>4
  <2> QED
    BY <1>0, <2>1, <2>2, <2>3 DEF MakingFits, Fits
<1> QED
  BY <1>1, <1>2

LEMMA LookMakes ==
  ASSUME IInv, Next, Look
  PROVE  MakingFits'
<1>0. TypeOK /\ Keys /\ CredentialsThere /\ srl \in Call
  BY DEF IInv, TypeOK
<1> DEFINE ms == {m \in mappings : m.uid = srl.cr.uid}
           es == {e \in envs : \E m \in ms : m.env = e.id}
           e == CHOOSE x \in es : TRUE
<1>1. /\ srl'.pc \in {"create", "access"} /\ srl'.cr = srl.cr /\ srl.cr # None
      /\ envs' = envs /\ creds' = creds /\ del' = del
      /\ srl'.pc = "access" => es # {}
  <2>1. srl'.pc \in {"create", "access"} /\ srl'.cr = srl.cr
    BY <1>0 DEF Look, Call
  <2>2. srl'.pc = "access" => es # {}
    BY <1>0 DEF Look, Call
  <2> QED
    BY <2>1, <2>2 DEF Look
<1>2. CASE es = {}
  <2>1. srl'.env = 0 /\ srl'.old = 0 /\ mappings' = mappings \ ms
    BY <1>0, <1>2 DEF Look, Call
  <2> QED
    BY <1>1, <1>2, <2>1 DEF MakingFits
<1>3. CASE es # {}
  <2>1. e \in envs /\ e.id \in Id /\ e.cred \in Id
    BY <1>0, <1>3, Found
  <2>2. srl'.env = e.id /\ srl'.old = e.cred /\ mappings' = mappings
    BY <1>0, <1>3 DEF Look, Call
  <2> HIDE DEF e, es
  <2>3. srl'.env # 0
    BY <2>1, <2>2, IdsArePositive
  <2>4. \A x \in envs' : x.cred = srl'.old => x.id = srl'.env
    BY <1>0, <1>1, <2>1, <2>2 DEF Keys
  <2> QED
    BY <1>1, <2>1, <2>2, <2>3, <2>4 DEF MakingFits
<1> QED
  BY <1>2, <1>3

LEMMA CreateCredentialsMakes ==
  ASSUME IInv, Next, CreateCredentials
  PROVE  MakingFits'
<1>0. TypeOK /\ MakingFits /\ srl \in Call
  BY DEF IInv, TypeOK
<1> DEFINE n == [id |-> NewCredId, spec |-> srl.cr.spec]
<1>1. /\ srl'.pc = IF srl.env = 0 THEN "newEnv" ELSE "update"
      /\ srl'.cr = srl.cr /\ srl'.env = srl.env /\ srl'.old = srl.old /\ srl'.cred = NewCredId
      /\ srl.pc = "create"
  BY <1>0 DEF CreateCredentials, Call
<1>2. /\ n \in creds' /\ n.id = NewCredId /\ n.spec = srl.cr.spec
      /\ envs' = envs /\ mappings' = mappings /\ del' = del
  BY DEF CreateCredentials
<1>3. /\ NewCredId \in Id /\ NewCredId # srl.old
      /\ \A e \in envs : e.cred # NewCredId
      /\ \A u \in Users : del[u].cred # NewCredId
  BY FreshCredId DEF CreateCredentials
<1>4. srl.env \in Id \union {0}
  BY <1>0 DEF Call
<1> HIDE DEF n
<1> QED
  BY <1>0, <1>1, <1>2, <1>3, <1>4 DEF MakingFits

LEMMA CreateEnvRowMakes ==
  ASSUME IInv, Next, CreateEnvRow
  PROVE  MakingFits'
<1>0. TypeOK /\ MakingFits /\ srl \in Call
  BY DEF IInv, TypeOK
<1> DEFINE n == [id |-> NewEnvId, cred |-> srl.cred]
<1>1. /\ srl'.pc = "newMapping" /\ srl.pc = "newEnv"
      /\ srl'.cr = srl.cr /\ srl'.env = NewEnvId /\ srl'.old = srl.old
  BY <1>0 DEF CreateEnvRow, Call
<1>2. /\ n \in envs' /\ n.id = NewEnvId /\ n.cred = srl.cred
      /\ creds' = creds /\ mappings' = mappings /\ del' = del
  BY DEF CreateEnvRow
<1>3. /\ NewEnvId \in Id
      /\ \A m \in mappings : m.env # NewEnvId
      /\ \A u \in Users : del[u].env # NewEnvId
  BY FreshEnvId DEF CreateEnvRow
<1> HIDE DEF n
<1>4. \E x \in envs', y \in creds' : x.id = srl'.env /\ x.cred = y.id /\ y.spec = srl'.cr.spec
  BY <1>0, <1>1, <1>2 DEF MakingFits
<1> QED
  BY <1>0, <1>1, <1>2, <1>3, <1>4 DEF MakingFits, Fits

LEMMA UpdateEnvRowMakes ==
  ASSUME IInv, Next, UpdateEnvRow
  PROVE  MakingFits'
<1>0. TypeOK /\ MakingFits /\ srl \in Call
  BY DEF IInv, TypeOK
<1> DEFINE new(e) == IF e.id = srl.env THEN [e EXCEPT !.cred = srl.cred] ELSE e
<1>1. /\ srl'.pc = "project" /\ srl.pc = "update"
      /\ srl'.cr = srl.cr /\ srl'.env = srl.env /\ srl'.old = srl.old
  BY <1>0 DEF UpdateEnvRow, Call
<1>2. /\ srl.cred # srl.old /\ srl.cr # None /\ srl.env \in Id
      /\ \A e \in envs : e.cred = srl.old => e.id = srl.env
  BY <1>0, <1>1 DEF MakingFits
<1>3. \A e \in envs : new(e).cred = IF e.id = srl.env THEN srl.cred ELSE e.cred
  BY <1>0 DEF TypeOK, Env
<1>4. envs' = {new(e) : e \in envs}
  BY DEF UpdateEnvRow
<1> HIDE DEF new
<1>5. \A x \in envs' : x.cred # srl.old
  BY <1>2, <1>3, <1>4
<1> QED
  BY <1>1, <1>2, <1>5 DEF MakingFits

LEMMA MakingPreserved ==
  ASSUME IInv, Next
  PROVE  MakingFits'
<1>0. TypeOK /\ MakingFits /\ srl \in Call
  BY DEF IInv, TypeOK
<1>1. CASE srl'.pc \in {"idle", "clean", "delete", "unmap"}
  BY <1>1 DEF MakingFits
<1>2. CASE srl' = srl
  BY <1>2, MakingUndisturbed
<1>3. ASSUME NEW caller \in {"event", "runner"}, StartCall(caller)
      PROVE  MakingFits'
  BY <1>1, <1>2, <1>3 DEF StartCall, IdleSRL
<1>4. CASE \E m \in srl.todo : CleanMapping(m)
  BY <1>0, <1>1, <1>4 DEF CleanMapping, Call
<1>5. CASE Deleted("owner") \/ DeleteMapping \/ srl' = IdleSRL
  <2>1. Deleted("owner") => srl'.pc = "unmap"
    BY <1>0 DEF Deleted, Call
  <2>2. DeleteMapping => srl'.pc = "clean"
    BY <1>0 DEF DeleteMapping, Call
  <2>3. srl' = IdleSRL => srl'.pc = "idle"
    BY DEF IdleSRL
  <2> QED
    BY <1>1, <1>5, <2>1, <2>2, <2>3
<1>6. CASE CreateMapping
  <2>1. /\ srl.pc = "newMapping" /\ srl'.pc = "project" /\ srl'.cr = srl.cr /\ srl'.env = srl.env
        /\ srl'.old = srl.old /\ envs' = envs
    BY <1>0, <1>6 DEF CreateMapping, Call
  <2>2. \A e \in envs : e.cred # 0
    BY <1>0, Fields, IdsArePositive
  <2> QED
    BY <1>0, <2>1, <2>2 DEF MakingFits
<1>7. CASE CreateAppProject
  <2>1. /\ srl.pc = "project" /\ srl'.pc \in {"access", "oldCreds"} /\ srl'.cr = srl.cr
        /\ srl'.env = srl.env /\ srl'.old = srl.old /\ envs' = envs
    BY <1>0, <1>7 DEF CreateAppProject, Call
  <2> QED
    BY <1>0, <2>1 DEF MakingFits
<1>8. CASE DeleteOldCredentials
  <2>1. \/ srl' = IdleSRL
        \/ /\ srl.pc = "oldCreds" /\ srl'.pc = "access" /\ srl'.cr = srl.cr /\ srl'.env = srl.env
    BY <1>0, <1>8 DEF DeleteOldCredentials, Answer, Call
  <2> QED
    BY <1>0, <1>5, <2>1 DEF MakingFits
<1> QED
  BY <1>2, <1>3, <1>4, <1>5, <1>6, <1>7, <1>8, SrlChange, LookMakes, CreateCredentialsMakes,
     CreateEnvRowMakes, UpdateEnvRowMakes

\* A request of the resource is taken up by a call, or lost with the backend.
LEMMA EventServed ==
  ASSUME Next, ~event'
  PROVE  ~event \/ StartCall("event") \/ BackendRestarts
<1>1. CASE UserStep
  BY <1>1 DEF UserStep, CreateEnvironment, ChangeSpec, DeleteEnvironment, DeleteSecret,
     DeleteClusterSecret, Answer, Fail, user, tables, cluster
<1>2. CASE SharedResourceLoop
  BY <1>2 DEF SharedResourceLoop, StartCall, CleanMapping, DeleteMapping, EndOfResource, Look,
     CreateCredentials, InvalidCredentials, CreateEnvRow, CreateMapping, UpdateEnvRow,
     CreateAppProject, DeleteOldCredentials, WrapManagedEnv, RowVanished, Answer, Fail, user,
     tables, cluster
<1>3. CASE Runner
  BY <1>3 DEF Runner, UpdateApplication, CreateOperation, Answer, Fail, user, tables, cluster
<1>4. CASE Failures
  BY <1>4 DEF Failures, CallFails, RunnerFails, BackendRestarts, OperationFails, Answer, Fail, user,
     tables, cluster
<1>5. CASE Deletions
  BY <1>5 DEF Deletions, Deletion, NilEnvironment, UpdateApplications, DeleteReferences,
     DeleteRow, DeleteCredentials, InformArgoCD, Refused, Answer, Fail, user, tables, cluster
<1>6. CASE Sweep
  BY <1>6 DEF Sweep, CleanOrphanedMapping, CleanOrphanedEnv, CleanOrphanedCredentials, Answer,
     Fail, user, tables, cluster
<1>7. CASE Agent
  BY <1>7 DEF Agent, ReadRows, EnsureSecret, DeleteSecretOf, CleanOrphanedSecret,
     RecreateClusterSecret, Answer, Fail, user, tables, cluster
<1> QED
  BY <1>1, <1>2, <1>3, <1>4, <1>5, <1>6, <1>7, StepKinds

\* Users are heard.
LEMMA ResourceKept ==
  ASSUME Next, ~event'
  PROVE  cr' = cr /\ (cr # None => secretOK' = secretOK)
<1>1. CASE UserStep
  BY <1>1 DEF UserStep, CreateEnvironment, ChangeSpec, DeleteEnvironment, DeleteSecret,
     DeleteClusterSecret, user, tables, cluster
<1>2. CASE SharedResourceLoop
  BY <1>2 DEF SharedResourceLoop, StartCall, CleanMapping, DeleteMapping, EndOfResource,
     Look, CreateCredentials, InvalidCredentials, CreateEnvRow, CreateMapping, UpdateEnvRow,
     CreateAppProject, DeleteOldCredentials, WrapManagedEnv, RowVanished, user, tables,
     cluster
<1>3. CASE Runner
  BY <1>3 DEF Runner, UpdateApplication, CreateOperation, user, tables, cluster
<1>4. CASE Failures
  BY <1>4 DEF Failures, CallFails, RunnerFails, BackendRestarts, OperationFails, user,
     tables, cluster
<1>5. CASE Deletions
  BY <1>5 DEF Deletions, Deletion, NilEnvironment, UpdateApplications, DeleteReferences,
     DeleteRow, DeleteCredentials, InformArgoCD, Refused, user, tables, cluster
<1>6. CASE Sweep
  BY <1>6 DEF Sweep, CleanOrphanedMapping, CleanOrphanedEnv, CleanOrphanedCredentials, user,
     tables, cluster
<1>7. CASE Agent
  BY <1>7 DEF Agent, ReadRows, EnsureSecret, DeleteSecretOf, CleanOrphanedSecret,
     RecreateClusterSecret, user, tables, cluster
<1> QED
  BY <1>1, <1>2, <1>3, <1>4, <1>5, <1>6, <1>7, StepKinds


-----------------------------------------------------------------------------
(* What the service has stored of the resource                             *)

\* The resource stays in the database while its call goes on, or another process takes a
\* step.
LEMMA MappingKept ==
  ASSUME IInv, Next, ~event, cr # None, NEW m \in mappings, m.uid = cr.uid,
         Look => \E e \in envs : e.id = m.env
  PROVE  m \in mappings'
<1>0. CleaningFits /\ ServedFits
  BY DEF IInv
<1>1. CASE DeleteMapping
  <2>1. srl.pc = "unmap" /\ srl.cr = cr
    BY <1>0, <1>1 DEF DeleteMapping, ServedFits
  <2>2. m.env # srl.env
    BY <1>0, <2>1 DEF CleaningFits
  <2> QED
    BY <1>1, <2>2 DEF DeleteMapping
<1>2. CASE Look
  <2>1. srl.cr = cr
    BY <1>0, <1>2 DEF Look, ServedFits
  <2> QED
    BY <1>2, <2>1 DEF Look
<1>3. CASE CreateMapping
  BY <1>3 DEF CreateMapping
<1>4. ASSUME NEW n \in mappings, CleanOrphanedMapping(n)
      PROVE  m \in mappings'
  BY <1>4 DEF CleanOrphanedMapping
<1> QED
  BY <1>1, <1>2, <1>3, <1>4, MappingsChange

LEMMA StoredKept ==
  ASSUME IInv, Next, ~event, ~event', cr # None, secretOK,
         srl.pc \in {"idle", "project", "oldCreds", "access"} \/ CallOf("runner")
  PROVE  Stored'
<1>0. /\ TypeOK /\ CleaningFits /\ DeletionsFit /\ ServedFits /\ MakingFits /\ CallerFits
      /\ cr' = cr
  BY ResourceKept DEF IInv
<1>1. Stored
  BY <1>0 DEF ServedFits
<1>2. PICK m \in mappings : m.uid = cr.uid /\ Fits(m.env, cr)
  BY <1>1 DEF Stored
<1>3. ASSUME NEW u \in Users, DeleteRow(u)
      PROVE  del[u].env # m.env
  <2>1. CASE u = "special"
    BY <1>0, <1>2, <1>3, <2>1 DEF DeleteRow, DeletionsFit
  <2>2. CASE u = "owner"
    <3>1. srl.pc = "delete" /\ del[u].env = srl.env
      BY <1>0, <1>3, <2>2 DEF DeleteRow, DeletionsFit
    <3>2. srl.cr = cr
      BY <1>0, <3>1 DEF ServedFits
    <3> QED
      BY <1>0, <1>2, <3>1, <3>2 DEF CleaningFits
  <2> QED
    BY <2>1, <2>2 DEF Users
<1>4. ~UpdateEnvRow
  BY <1>0 DEF UpdateEnvRow, ServedFits
<1>5. \E x \in envs', y \in creds' : x.id = m.env /\ x.cred = y.id /\ y.spec = cr.spec
  BY <1>2, <1>3, <1>4, FitsKept
<1>6. m \in mappings'
  BY <1>2, MappingKept DEF Fits
<1> QED
  BY <1>0, <1>2, <1>5, <1>6 DEF Stored, Fits

\* The call Look makes of a resource that is stored.
LEMMA LookServes ==
  ASSUME IInv, Next, Look, ~event, ~event'
  PROVE  ServedFits'
<1>0. /\ TypeOK /\ Keys /\ CredentialsThere /\ ServedFits /\ srl \in Call
      /\ cr' = cr /\ srl.cr # None /\ srl.cr = cr /\ secretOK /\ secretOK' = secretOK
  BY ResourceKept DEF IInv, TypeOK, ServedFits, Look
<1> DEFINE ms == {m \in mappings : m.uid = srl.cr.uid}
           es == {e \in envs : \E m \in ms : m.env = e.id}
           e == CHOOSE x \in es : TRUE
           c == CHOOSE x \in creds : x.id = e.cred
<1>1. /\ srl'.cr = srl.cr /\ srl'.caller = srl.caller /\ srl.pc = "clean"
      /\ srl'.pc = IF es = {} \/ MustReplace(c) THEN "create" ELSE "access"
      /\ srl'.env = IF es = {} THEN 0 ELSE e.id
      /\ envs' = envs /\ creds' = creds
      /\ mappings' = IF es = {} THEN mappings \ ms ELSE mappings
  BY <1>0 DEF Look, Call
<1>2. Stored => es # {}
  BY <1>0 DEF Stored, Fits
<1>3. es # {} => e \in es /\ e \in envs /\ e.id \in Id /\ e.cred \in Id /\ c \in creds /\ c.id = e.cred
  BY <1>0, Found
<1>4. es # {} => \E m \in mappings : m.uid = cr.uid /\ m.env = e.id
  BY <1>0, <1>3
<1> HIDE DEF e, c
<1>5. Stored => c.spec = cr.spec
  <2>1. SUFFICES ASSUME Stored
                 PROVE  c.spec = cr.spec
    OBVIOUS
  <2>2. PICK m \in mappings : m.uid = cr.uid /\ Fits(m.env, cr)
    BY <2>1 DEF Stored
  <2>3. PICK x \in envs, y \in creds : x.id = m.env /\ x.cred = y.id /\ y.spec = cr.spec
    BY <2>2 DEF Fits
  <2>4. e = x
    <3>1. PICK n \in ms : n.env = e.id
      BY <1>2, <1>3, <2>1
    <3>2. n = m
      BY <1>0, <2>2, <3>1 DEF Keys
    <3> QED
      BY <1>0, <1>2, <1>3, <2>1, <2>3, <3>1, <3>2 DEF Keys
  <2>5. c = y
    BY <1>0, <1>2, <1>3, <2>1, <2>3, <2>4 DEF Keys
  <2> QED
    BY <2>3, <2>5
<1> HIDE DEF es
<1>6. CallOf("runner") => Stored
  BY <1>0 DEF ServedFits
<1>7. CallOf("runner")' => CallOf("runner")
  BY <1>1 DEF CallOf
<1>8. CallOf("runner")' => srl'.pc = "access"
  BY <1>0, <1>1, <1>2, <1>5, <1>6, <1>7 DEF MustReplace
<1>9. srl'.pc = "access" => Stored'
  <2>1. SUFFICES ASSUME srl'.pc = "access"
                 PROVE  Stored'
    OBVIOUS
  <2>2. es # {} /\ c.spec = cr.spec
    BY <1>0, <1>1, <2>1 DEF MustReplace
  <2>3. PICK m \in mappings : m.uid = cr.uid /\ m.env = e.id
    BY <1>4, <2>2
  <2> QED
    BY <1>0, <1>1, <1>3, <2>2, <2>3 DEF Stored, Fits
<1>10. srl'.pc = "access" \/ srl'.env # 0 =>
         \E m \in mappings' : m.uid = cr'.uid /\ m.env = srl'.env
  BY <1>0, <1>1, <1>4
<1> QED
  BY <1>0, <1>1, <1>8, <1>9, <1>10 DEF ServedFits

\* The call of the loop that brings the resource and its environment together.
LEMMA CreateMappingServes ==
  ASSUME IInv, Next, CreateMapping, ~event, ~event'
  PROVE  ServedFits'
<1>0. /\ TypeOK /\ ServedFits /\ MakingFits /\ srl \in Call
      /\ cr' = cr /\ srl.cr # None /\ srl.cr = cr /\ secretOK /\ secretOK' = secretOK
      /\ srl.pc = "newMapping"
  BY ResourceKept DEF IInv, TypeOK, ServedFits, MakingFits, CreateMapping
<1> DEFINE k == [uid |-> srl.cr.uid, env |-> srl.env]
<1>1. /\ srl'.cr = srl.cr /\ srl'.caller = srl.caller /\ srl'.pc = "project" /\ srl'.env = srl.env
      /\ envs' = envs /\ creds' = creds /\ k \in mappings' /\ k.uid = cr.uid /\ k.env = srl.env
  BY <1>0 DEF CreateMapping, Call
<1> HIDE DEF k
<1>2. Stored'
  BY <1>0, <1>1 DEF MakingFits, Stored, Fits
<1>3. ~CallOf("runner")'
  BY <1>0, <1>1 DEF ServedFits, CallOf
<1> QED
  BY <1>0, <1>1, <1>2, <1>3 DEF ServedFits

LEMMA UpdateEnvRowServes ==
  ASSUME IInv, Next, UpdateEnvRow, ~event, ~event'
  PROVE  ServedFits'
<1>0. /\ TypeOK /\ ServedFits /\ MakingFits /\ srl \in Call
      /\ cr' = cr /\ srl.cr # None /\ srl.cr = cr /\ secretOK /\ secretOK' = secretOK
      /\ srl.pc = "update"
  BY ResourceKept DEF IInv, TypeOK, ServedFits, MakingFits, UpdateEnvRow
<1>1. /\ srl'.cr = srl.cr /\ srl'.caller = srl.caller /\ srl'.pc = "project" /\ srl'.env = srl.env
      /\ creds' = creds /\ mappings' = mappings
  BY <1>0 DEF UpdateEnvRow, Call
<1>2. PICK m \in mappings : m.uid = cr.uid /\ m.env = srl.env
  BY <1>0 DEF ServedFits
<1>3. PICK y \in creds : y.id = srl.cred /\ y.spec = cr.spec
  BY <1>0 DEF MakingFits
<1>4. PICK e \in envs : e.id = srl.env
  BY DEF UpdateEnvRow, HasRow
<1>5. [e EXCEPT !.cred = srl.cred] \in envs'
  BY <1>4 DEF UpdateEnvRow
<1>6. \E x \in envs' : x.id = srl.env /\ x.cred = srl.cred
  BY <1>0, <1>4, <1>5 DEF TypeOK, Env
<1>7. Stored'
  BY <1>0, <1>1, <1>2, <1>3, <1>6 DEF Stored, Fits
<1>8. ~CallOf("runner")'
  BY <1>0, <1>1 DEF ServedFits, CallOf
<1> QED
  BY <1>0, <1>1, <1>2, <1>7, <1>8 DEF ServedFits

\* A step that leaves the call at the same resource, in which it is stored as it was.
LEMMA CallGoesOn ==
  ASSUME IInv, Next, ~event, ~event', ~Look, srl.pc # "idle",
         srl'.cr = srl.cr, srl'.caller = srl.caller, srl'.pc # "idle",
         CallOf("runner") => srl'.pc \in {"clean", "delete", "unmap"} \/ srl'.pc = srl.pc,
         \/ srl'.pc \in {"clean", "delete", "unmap", "newEnv", "newMapping"}
         \/ srl' = srl
         \/ /\ srl.env = srl'.env /\ (srl.pc = "create" => srl.env # 0)
            /\ srl.pc \in {"create", "update", "project", "oldCreds", "access"}
            /\ srl'.pc \in {"update", "project", "oldCreds", "access"},
         srl'.pc \in {"project", "oldCreds", "access"} => srl.pc \in {"project", "oldCreds", "access"}
  PROVE  ServedFits'
<1>0. /\ TypeOK /\ ServedFits /\ MakingFits /\ cr' = cr /\ srl.cr = cr
      /\ cr # None => secretOK /\ secretOK' = secretOK
  BY ResourceKept DEF IInv, ServedFits
<1>1. srl'.pc # "idle" /\ ~event' => srl'.cr = cr' /\ (cr' # None => secretOK')
  BY <1>0
<1>2. CallOf("runner")' <=> CallOf("runner")
  BY DEF CallOf
<1>3. ~event' /\ cr' # None /\ CallOf("runner")' =>
        srl'.pc \in {"clean", "delete", "unmap", "access"}
  BY <1>0, <1>2 DEF ServedFits
<1>4. ASSUME srl'.pc \in {"update", "project", "oldCreds", "access"}
             \/ (srl'.pc = "create" /\ srl'.env # 0)
      PROVE  \E m \in mappings' : m.uid = cr'.uid /\ m.env = srl'.env
  <2>1. /\ srl'.env = srl.env
        /\ srl.pc \in {"update", "project", "oldCreds", "access"} \/ (srl.pc = "create" /\ srl.env # 0)
    BY <1>4
  <2>2. cr # None
    BY <1>0, <2>1 DEF MakingFits
  <2>3. PICK m \in mappings : m.uid = cr.uid /\ m.env = srl.env
    BY <1>0, <2>1 DEF ServedFits
  <2>4. m \in mappings'
    BY <2>2, <2>3, MappingKept
  <2> QED
    BY <1>0, <2>1, <2>3, <2>4
<1>5. ASSUME cr' # None, srl'.pc \in {"idle", "project", "oldCreds", "access"} \/ CallOf("runner")'
      PROVE  Stored'
  <2>1. srl.pc \in {"project", "oldCreds", "access"} \/ CallOf("runner")
    BY <1>2, <1>5
  <2> QED
    BY <1>0, <1>5, <2>1, StoredKept
<1> QED
  BY <1>1, <1>3, <1>4, <1>5 DEF ServedFits

\* A call that comes to an end, or there is none.
LEMMA CallOver ==
  ASSUME IInv, Next, ~event, ~event', srl'.pc = "idle",
         \/ cr = None
         \/ srl.pc \in {"idle", "project", "oldCreds", "access"}
         \/ CallOf("runner")
  PROVE  ServedFits'
<1>0. cr' = cr /\ (cr # None => secretOK' = secretOK)
  BY ResourceKept
<1>1. ~CallOf("runner")'
  BY DEF CallOf
<1>2. cr' # None /\ secretOK' => Stored'
  BY <1>0, StoredKept
<1> QED
  BY <1>1, <1>2 DEF ServedFits

LEMMA StartCallServes ==
  ASSUME IInv, Next, NEW caller \in {"event", "runner"}, StartCall(caller), ~event'
  PROVE  ServedFits'
<1>0. /\ ServedFits /\ cr' = cr /\ (cr # None => secretOK' = secretOK) /\ srl.pc = "idle"
      /\ secretOK' = secretOK
  BY ResourceKept DEF IInv, StartCall, user
<1>1. CASE cr # None /\ ~secretOK
  <2>1. srl' = srl /\ ~CallOf("runner")'
    BY <1>0, <1>1 DEF StartCall, CallOf
  <2> QED
    BY <1>0, <1>1, <2>1 DEF ServedFits
<1>2. CASE ~(cr # None /\ ~secretOK)
  <2>1. srl'.pc = "clean" /\ srl'.cr = cr /\ srl'.caller = caller
    BY <1>2 DEF StartCall, IdleSRL
  <2>2. caller = "runner" => ~event
    BY DEF StartCall
  <2>3. CallOf("runner")' => caller = "runner"
    BY <2>1 DEF CallOf
  <2>4. cr' # None /\ secretOK' /\ CallOf("runner")' => Stored'
    BY <1>0, <2>2, <2>3, StoredKept
  <2> QED
    BY <1>0, <1>2, <2>1, <2>4 DEF ServedFits
<1> QED
  BY <1>1, <1>2

LEMMA ServedPreserved ==
  ASSUME IInv, Next
  PROVE  ServedFits'
<1>0. /\ TypeOK /\ ServedFits /\ MakingFits /\ CallerFits /\ DeletionsFit /\ srl \in Call
  BY DEF IInv, TypeOK
<1>1. CASE event'
  BY <1>1 DEF ServedFits
<1>2. CASE ~event' /\ BackendRestarts
  <2>1. srl'.pc = "idle" /\ cr' = None
    BY <1>2 DEF BackendRestarts, IdleSRL, user
  <2> QED
    BY <2>1 DEF ServedFits, CallOf
<1>3. CASE ~event' /\ \E caller \in {"event", "runner"} : StartCall(caller)
  BY <1>3, StartCallServes
<1>4. CASE /\ ~event' /\ ~BackendRestarts
           /\ ~\E caller \in {"event", "runner"} : StartCall(caller)
  <2>0. ~event
    BY <1>4, EventServed
  <2>1. CASE srl' = srl
    <3>1. CASE srl.pc = "idle"
      BY <1>4, <2>0, <2>1, <3>1, CallOver
    <3>2. CASE srl.pc # "idle"
      <4>1. ~Look
        BY <1>0, <2>1 DEF Look, Call
      <4> QED
        BY <1>0, <1>4, <2>0, <2>1, <3>2, <4>1, CallGoesOn
    <3> QED
      BY <3>1, <3>2
  <2>2. CASE CallFailed
    <3>1. srl'.pc = "idle"
      BY <2>2 DEF CallFailed, Fail, IdleSRL
    <3>2. srl.pc = "idle" \/ CallOf("runner")
      BY <1>0, <1>4, <2>2 DEF CallFailed, Fail, CallerFits, CallOf
    <3> QED
      BY <1>4, <2>0, <3>1, <3>2, CallOver
  <2>3. CASE EndOfResource
    <3>1. srl'.pc = "idle"
      BY <2>3 DEF EndOfResource, Answer, IdleSRL
    <3>2. cr = None
      BY <1>0, <2>0, <2>3 DEF EndOfResource, ServedFits
    <3> QED
      BY <1>4, <2>0, <3>1, <3>2, CallOver
  <2>4. CASE WrapManagedEnv
    <3>1. srl'.pc = "idle" /\ srl.pc = "access"
      BY <2>4 DEF WrapManagedEnv, Answer, IdleSRL
    <3> QED
      BY <1>4, <2>0, <3>1, CallOver
  <2>5. ASSUME NEW m \in srl.todo, CleanMapping(m)
        PROVE  ServedFits'
    <3>1. /\ srl.pc = "clean" /\ srl'.pc \in {"delete", "unmap"} /\ srl'.cr = srl.cr
          /\ srl'.caller = srl.caller
      BY <1>0, <2>5 DEF CleanMapping, Call
    <3>2. ~Look
      BY <1>0, <3>1 DEF Look, Call
    <3> QED
      BY <1>4, <2>0, <3>1, <3>2, CallGoesOn
  <2>6. CASE Deletion("owner") /\ Deleted("owner")
    <3>1. srl'.pc = "unmap" /\ srl'.cr = srl.cr /\ srl'.caller = srl.caller
      BY <1>0, <2>6 DEF Deleted, Call
    <3>2. srl.pc = "delete"
      BY <1>0, <2>6 DEF DeletionsFit, Deletion, NilEnvironment, UpdateApplications,
         DeleteReferences, DeleteRow, DeleteCredentials, InformArgoCD, Refused
    <3>3. ~Look
      BY <3>2 DEF Look
    <3> QED
      BY <1>4, <2>0, <3>1, <3>2, <3>3, CallGoesOn
  <2>7. CASE DeleteMapping
    <3>1. srl.pc = "unmap" /\ srl'.pc = "clean" /\ srl'.cr = srl.cr /\ srl'.caller = srl.caller
      BY <1>0, <2>7 DEF DeleteMapping, Call
    <3>2. ~Look
      BY <3>1 DEF Look
    <3> QED
      BY <1>4, <2>0, <3>1, <3>2, CallGoesOn
  <2>8. ASSUME srl.pc \in {"create", "newEnv", "project", "oldCreds"}
        PROVE  ~Look /\ (cr # None => ~(CallOf("runner")))
    <3>1. ~Look
      BY <2>8 DEF Look
    <3>2. CallOf("runner") => cr = None
      BY <1>0, <2>0, <2>8 DEF ServedFits
    <3> QED
      BY <3>1, <3>2
  <2>9. ASSUME srl.pc \in {"create", "newEnv", "project", "oldCreds"}
        PROVE  cr # None
    BY <1>0, <2>0, <2>9 DEF MakingFits, ServedFits
  <2>10. CASE CreateCredentials
    <3>1. /\ srl.pc = "create" /\ srl'.pc = (IF srl.env = 0 THEN "newEnv" ELSE "update")
          /\ srl'.cr = srl.cr /\ srl'.caller = srl.caller /\ srl'.env = srl.env
      BY <1>0, <2>10 DEF CreateCredentials, Call
    <3> QED
      BY <1>4, <2>0, <2>8, <2>9, <3>1, CallGoesOn
  <2>11. CASE CreateEnvRow
    <3>1. /\ srl.pc = "newEnv" /\ srl'.pc = "newMapping"
          /\ srl'.cr = srl.cr /\ srl'.caller = srl.caller
      BY <1>0, <2>11 DEF CreateEnvRow, Call
    <3> QED
      BY <1>4, <2>0, <2>8, <2>9, <3>1, CallGoesOn
  <2>12. CASE CreateAppProject
    <3>1. /\ srl.pc = "project" /\ srl'.pc \in {"access", "oldCreds"} /\ srl'.env = srl.env
          /\ srl'.cr = srl.cr /\ srl'.caller = srl.caller
      BY <1>0, <2>12 DEF CreateAppProject, Call
    <3> QED
      BY <1>4, <2>0, <2>8, <2>9, <3>1, CallGoesOn
  <2>13. CASE DeleteOldCredentials
    <3>1. srl.pc = "oldCreds"
      BY <2>13 DEF DeleteOldCredentials
    <3>2. \/ srl'.pc = "idle"
          \/ srl'.pc = "access" /\ srl'.cr = srl.cr /\ srl'.caller = srl.caller /\ srl'.env = srl.env
      BY <1>0, <2>13 DEF DeleteOldCredentials, Answer, IdleSRL, Call
    <3> QED
      BY <1>4, <2>0, <2>8, <2>9, <3>1, <3>2, CallGoesOn, CallOver
  <2> QED
    BY <1>4, <2>0, <2>1, <2>2, <2>3, <2>4, <2>5, <2>6, <2>7, <2>10, <2>11, <2>12, <2>13, SrlSteps,
       LookServes, CreateMappingServes, UpdateEnvRowServes
<1> QED
  BY <1>1, <1>2, <1>3, <1>4

\* A request of the deployment is taken up by a call.
LEMMA RequestServed ==
  ASSUME Next, ~appEvent'
  PROVE  ~appEvent \/ StartCall("runner")
<1>1. CASE UserStep
  BY <1>1 DEF UserStep, CreateEnvironment, ChangeSpec, DeleteEnvironment, DeleteSecret,
     DeleteClusterSecret, Answer, Fail, user, tables, cluster
<1>2. CASE SharedResourceLoop
  BY <1>2 DEF SharedResourceLoop, StartCall, CleanMapping, DeleteMapping, EndOfResource, Look,
     CreateCredentials, InvalidCredentials, CreateEnvRow, CreateMapping, UpdateEnvRow,
     CreateAppProject, DeleteOldCredentials, WrapManagedEnv, RowVanished, Answer, Fail, user,
     tables, cluster
<1>3. CASE Runner
  BY <1>3 DEF Runner, UpdateApplication, CreateOperation, Answer, Fail, user, tables, cluster
<1>4. CASE Failures
  BY <1>4 DEF Failures, CallFails, RunnerFails, BackendRestarts, OperationFails, Answer, Fail, user,
     tables, cluster
<1>5. CASE Deletions
  BY <1>5 DEF Deletions, Deletion, NilEnvironment, UpdateApplications, DeleteReferences,
     DeleteRow, DeleteCredentials, InformArgoCD, Refused, Answer, Fail, user, tables, cluster
<1>6. CASE Sweep
  BY <1>6 DEF Sweep, CleanOrphanedMapping, CleanOrphanedEnv, CleanOrphanedCredentials, Answer,
     Fail, user, tables, cluster
<1>7. CASE Agent
  BY <1>7 DEF Agent, ReadRows, EnsureSecret, DeleteSecretOf, CleanOrphanedSecret,
     RecreateClusterSecret, Answer, Fail, user, tables, cluster
<1> QED
  BY <1>1, <1>2, <1>3, <1>4, <1>5, <1>6, <1>7, StepKinds

\* The row of the Application and the runner.
LEMMA RowChange ==
  ASSUME Next
  PROVE  \/ UNCHANGED <<row, runner>>
         \/ \E u \in Users : NilEnvironment(u)
         \/ UpdateApplication \/ CreateOperation \/ RunnerFails
         \/ \E caller \in {"event", "runner"} : StartCall(caller)
         \/ EndOfResource \/ WrapManagedEnv \/ DeleteOldCredentials
         \/ CallFailed \/ BackendRestarts
<1>1. CASE UserStep
  BY <1>1 DEF UserStep, CreateEnvironment, ChangeSpec, DeleteEnvironment, DeleteSecret,
     DeleteClusterSecret, CallFailed, user, tables, cluster
<1>2. CASE SharedResourceLoop
  BY <1>2 DEF SharedResourceLoop, StartCall, CleanMapping, DeleteMapping, EndOfResource,
     Look, CreateCredentials, InvalidCredentials, CreateEnvRow, CreateMapping, UpdateEnvRow,
     CreateAppProject, DeleteOldCredentials, WrapManagedEnv, RowVanished, CallFailed, user, tables,
     cluster
<1>3. CASE Runner
  BY <1>3 DEF Runner, UpdateApplication, CreateOperation, CallFailed, user, tables, cluster
<1>4. CASE Failures
  BY <1>4 DEF Failures, CallFails, RunnerFails, BackendRestarts, OperationFails, CallFailed, user,
     tables, cluster
<1>5. CASE Deletions
  BY <1>5 DEF Deletions, Deletion, NilEnvironment, UpdateApplications, DeleteReferences,
     DeleteRow, DeleteCredentials, InformArgoCD, Refused, CallFailed, user, tables, cluster
<1>6. CASE Sweep
  BY <1>6 DEF Sweep, CleanOrphanedMapping, CleanOrphanedEnv, CleanOrphanedCredentials,
     CallFailed, user, tables, cluster
<1>7. CASE Agent
  BY <1>7 DEF Agent, ReadRows, EnsureSecret, DeleteSecretOf, CleanOrphanedSecret,
     RecreateClusterSecret, CallFailed, user, tables, cluster
<1> QED
  BY <1>1, <1>2, <1>3, <1>4, <1>5, <1>6, <1>7, StepKinds


-----------------------------------------------------------------------------
(* The row of the Application                                              *)

\* A request that is pending stays so until the runner takes it up.
LEMMA PendingKept ==
  ASSUME IInv, Next, ~Pending', ~StartCall("runner")
  PROVE  ~Pending /\ cr' = cr
<1>0. TypeOK /\ CallerFits /\ srl \in Call
  BY DEF IInv, TypeOK
<1>1. ~event' /\ ~appEvent' /\ ~CallOf("event")' /\ (cr' # None => secretOK')
  BY DEF Pending
<1>2. cr' = cr /\ (cr # None => secretOK' = secretOK)
  BY <1>1, ResourceKept
<1>3. ~BackendRestarts
  BY <1>1 DEF BackendRestarts
<1>4. ~StartCall("event")
  <2>1. SUFFICES ASSUME StartCall("event")
                 PROVE  CallOf("event")' \/ (cr' # None /\ ~secretOK')
    BY <1>1
  <2>2. CASE cr # None /\ ~secretOK
    BY <2>1, <2>2 DEF StartCall, user
  <2>3. CASE ~(cr # None /\ ~secretOK)
    BY <2>1, <2>3 DEF StartCall, CallOf, IdleSRL
  <2> QED
    BY <2>2, <2>3
<1>5. ~event
  BY <1>1, <1>3, <1>4, EventServed
<1>6. ~appEvent
  BY <1>1, RequestServed
<1>7. ~CallOf("event")
  <2>1. SUFFICES ASSUME srl.pc # "idle", srl.caller = "event"
                 PROVE  appEvent' \/ event' \/ CallOf("event")'
    BY <1>1 DEF CallOf
  <2>2. CASE srl' = srl
    BY <2>1, <2>2 DEF CallOf
  <2>3. CASE CallFailed
    BY <2>1, <2>3 DEF CallFailed, Fail
  <2>4. CASE EndOfResource \/ WrapManagedEnv
    BY <2>1, <2>4 DEF EndOfResource, WrapManagedEnv, Answer
  <2>5. CASE DeleteOldCredentials
    <3>1. appEvent' \/ (srl'.pc = "access" /\ srl'.caller = srl.caller)
      BY <1>0, <2>1, <2>5 DEF DeleteOldCredentials, Answer, Call
    <3> QED
      BY <2>1, <3>1 DEF CallOf
  <2>6. CASE \/ \E m \in srl.todo : CleanMapping(m)
             \/ Deletion("owner") /\ Deleted("owner")
    <3>1. srl'.pc # "idle" /\ srl'.caller = srl.caller
      BY <1>0, <2>6 DEF CleanMapping, Deleted, Call
    <3> QED
      BY <2>1, <3>1 DEF CallOf
  <2>7. CASE \/ DeleteMapping \/ Look \/ CreateCredentials \/ CreateEnvRow \/ CreateMapping
             \/ UpdateEnvRow \/ CreateAppProject
    <3>1. srl'.pc # "idle" /\ srl'.caller = srl.caller
      BY <1>0, <2>7 DEF DeleteMapping, Look, CreateCredentials, CreateEnvRow, CreateMapping,
         UpdateEnvRow, CreateAppProject, Call
    <3> QED
      BY <2>1, <3>1 DEF CallOf
  <2>8. ~\E caller \in {"event", "runner"} : StartCall(caller)
    BY <2>1 DEF StartCall
  <2> QED
    BY <1>3, <2>2, <2>3, <2>4, <2>5, <2>6, <2>7, <2>8, SrlSteps
<1> QED
  BY <1>1, <1>2, <1>5, <1>6, <1>7 DEF Pending

\* With nothing pending no step changes the mapping of the resource.
LEMMA CurrentKept ==
  ASSUME IInv, Next, ~Pending, cr' = cr
  PROVE  CurrentEnv' = CurrentEnv
<1>0. /\ TypeOK /\ CallerFits /\ ServedFits /\ MakingFits /\ CleaningFits
      /\ ~event /\ ~CallOf("event") /\ (cr # None => secretOK)
  BY DEF IInv, Pending
<1>1. CASE cr = None
  BY <1>1 DEF CurrentEnv
<1>2. CASE cr # None
  <2>1. ASSUME srl.pc # "idle"
        PROVE  CallOf("runner") /\ srl.cr = cr /\ srl.pc \in {"clean", "delete", "unmap", "access"}
               /\ Stored
    <3>1. CallOf("runner")
      BY <1>0, <2>1 DEF CallerFits, CallOf
    <3> QED
      BY <1>0, <1>2, <2>1, <3>1 DEF ServedFits
  <2>2. CASE DeleteMapping
    <3>1. srl.pc = "unmap" /\ srl.cr = cr /\ mappings' = {m \in mappings : m.env # srl.env}
      BY <2>1, <2>2 DEF DeleteMapping
    <3>2. \A m \in mappings : m.uid = cr.uid => m.env # srl.env
      BY <1>0, <1>2, <3>1 DEF CleaningFits
    <3> QED
      BY <3>1, <3>2 DEF CurrentEnv
  <2>3. CASE Look
    <3>1. srl.cr = cr /\ Stored
      BY <2>1, <2>3 DEF Look
    <3>2. mappings' = mappings
      BY <2>3, <3>1 DEF Look, Stored, Fits
    <3> QED
      BY <3>2 DEF CurrentEnv
  <2>4. ~CreateMapping
    BY <2>1 DEF CreateMapping
  <2>5. ASSUME NEW m \in mappings, CleanOrphanedMapping(m)
        PROVE  CurrentEnv' = CurrentEnv
    <3>1. mappings' = mappings \ {m} /\ m.uid # cr.uid
      BY <1>2, <2>5 DEF CleanOrphanedMapping
    <3> QED
      BY <3>1 DEF CurrentEnv
  <2>6. CASE mappings' = mappings
    BY <2>6 DEF CurrentEnv
  <2> QED
    BY <2>2, <2>3, <2>4, <2>5, <2>6, MappingsChange
<1> QED
  BY <1>1, <1>2

\* The environment a deletion takes from the Application is not that of the resource.
LEMMA NilKeepsRow ==
  ASSUME IInv, Next, ~Pending, ~Pending', cr' = cr, NEW u \in Users, NilEnvironment(u)
  PROVE  RowFits'
<1>0. /\ TypeOK /\ CallerFits /\ ServedFits /\ CleaningFits /\ DeletionsFit /\ RowFits
      /\ ~event /\ ~CallOf("event") /\ runner' = runner /\ CurrentEnv' = CurrentEnv
      /\ del[u].pc = "nil" /\ del[u].env \in Id /\ del[u].env # 0
  BY CurrentKept, IdsArePositive DEF IInv, Pending, NilEnvironment, DeletionsFit, TargetFits
<1>1. del[u].env \notin CurrentEnv
  <2>1. CASE u = "special"
    BY <1>0, <2>1 DEF DeletionsFit, CurrentEnv
  <2>2. CASE u = "owner"
    <3>1. srl.pc = "delete" /\ del[u].env = srl.env
      BY <1>0, <2>2 DEF DeletionsFit
    <3>2. srl.cr = cr
      BY <1>0, <3>1 DEF ServedFits
    <3> QED
      BY <1>0, <3>1, <3>2 DEF CleaningFits, CurrentEnv
  <2> QED
    BY <2>1, <2>2 DEF Users
<1>2. CASE row' = row
  BY <1>0, <1>2 DEF RowFits, Follows, NewRow
<1>3. CASE row # None /\ row.env = del[u].env
  <2>1. row.env \notin CurrentEnv /\ row.env # 0
    BY <1>0, <1>1, <1>3
  <2>2. ~(runner.pc \in {"idle", "operation"})
    BY <1>0, <1>3, <2>1 DEF RowFits, Follows
  <2>3. runner.pc = "call" =>
          runner.row # None /\ runner.row.env # 0 /\ runner.row.env \notin CurrentEnv
    BY <1>0, <1>3, <2>1 DEF RowFits
  <2>4. runner.pc = "update" => CurrentEnv = {runner.env} \ {0} /\ runner.row # NewRow
    BY <1>0, <2>1 DEF RowFits, NewRow
  <2> QED
    BY <1>0, <2>2, <2>3, <2>4 DEF RowFits, NewRow
<1> QED
  BY <1>2, <1>3 DEF NilEnvironment, RowWithout

LEMMA AnswerFits ==
  ASSUME IInv, Next, ~Pending, ~Pending', cr' = cr, EndOfResource \/ WrapManagedEnv
  PROVE  RowFits'
<1> DEFINE e == IF srl.pc = "access" THEN srl.env ELSE 0
<1>0. /\ TypeOK /\ Keys /\ CallerFits /\ ServedFits /\ RowFits /\ MakingFits /\ runner \in RunnerState
      /\ ~event /\ ~CallOf("event") /\ (cr # None => secretOK) /\ CurrentEnv' = CurrentEnv
  BY CurrentKept DEF IInv, TypeOK, Pending
<1>1. Answer(e) /\ row' = row /\ srl.pc # "idle" /\ srl.pc \in {"clean", "access"}
  BY DEF EndOfResource, WrapManagedEnv
<1>2. srl.cr = cr /\ CallOf("runner") /\ runner.pc = "call" /\ srl.caller # "event"
  BY <1>0, <1>1 DEF ServedFits, CallerFits, CallOf
<1>3. CurrentEnv = {e} \ {0}
  <2>1. CASE EndOfResource
    BY <1>2, <2>1 DEF EndOfResource, CurrentEnv
  <2>2. CASE WrapManagedEnv
    <3>1. srl.pc = "access" /\ srl.env \in Id /\ srl.env # 0 /\ cr # None
      BY <1>0, <1>2, <2>2, IdsArePositive DEF WrapManagedEnv, MakingFits
    <3>2. PICK m \in mappings : m.uid = cr.uid /\ m.env = srl.env
      BY <1>0, <3>1 DEF ServedFits
    <3>3. \A n \in mappings : n.uid = cr.uid => n = m
      BY <1>0, <3>2 DEF Keys
    <3>4. CurrentEnv = {srl.env}
      BY <3>1, <3>2, <3>3 DEF CurrentEnv
    <3> QED
      BY <3>1, <3>4
  <2> QED
    BY <2>1, <2>2
<1>4. runner'.pc = "update" /\ runner'.env = e /\ runner'.row = runner.row
  BY <1>0, <1>1, <1>2 DEF Answer, RunnerState
<1> HIDE DEF e
<1>5. runner.row = [env |-> e, dest |-> e] => row = runner.row
  BY <1>0, <1>2, <1>3 DEF RowFits
<1> QED
  BY <1>0, <1>1, <1>3, <1>4, <1>5 DEF RowFits, NewRow

LEMMA RowPreserved ==
  ASSUME IInv, Next
  PROVE  RowFits'
<1>0. /\ TypeOK /\ CallerFits /\ ServedFits /\ RowFits /\ MakingFits /\ runner \in RunnerState
  BY DEF IInv, TypeOK
<1>1. CASE Pending'
  BY <1>1 DEF RowFits
<1>2. CASE ~Pending' /\ StartCall("runner")
  <2>1. ~(cr # None /\ ~secretOK)
    BY <1>2 DEF Pending, StartCall, user
  <2>2. runner'.pc = "call" /\ runner'.row = row /\ row' = row
    BY <1>2, <2>1 DEF StartCall, IdleRunner
  <2> QED
    BY <2>2 DEF RowFits
<1>3. CASE ~Pending' /\ ~StartCall("runner")
  <2>0. /\ ~Pending /\ cr' = cr /\ CurrentEnv' = CurrentEnv
        /\ ~event' /\ ~appEvent' /\ ~event /\ ~CallOf("event")
    BY <1>3, PendingKept, CurrentKept DEF Pending
  <2>1. CASE UNCHANGED <<row, runner>>
    BY <1>0, <2>0, <2>1 DEF RowFits, Follows, NewRow
  <2>2. CASE \E u \in Users : NilEnvironment(u)
    BY <1>3, <2>0, <2>2, NilKeepsRow
  <2>3. CASE UpdateApplication
    <3>1. /\ runner.pc = "update" /\ CurrentEnv = {runner.env} \ {0}
          /\ runner.row = NewRow => row = NewRow
      BY <1>0, <2>0, <2>3 DEF UpdateApplication, RowFits
    <3>2. runner'.pc \in {"idle", "operation"}
      BY <1>0, <2>3 DEF UpdateApplication, IdleRunner, RunnerState
    <3>3. row' = NewRow
      BY <2>0, <2>3, <3>1 DEF UpdateApplication, RowChanges
    <3>4. row'.env = runner.env /\ row'.dest = runner.env
      BY <3>3 DEF NewRow
    <3> QED
      BY <2>0, <3>1, <3>2, <3>4 DEF RowFits, Follows
  <2>4. CASE CreateOperation
    <3>1. runner.pc = "operation" /\ runner'.pc = "idle" /\ row' = row
      BY <2>4 DEF CreateOperation, IdleRunner
    <3> QED
      BY <1>0, <2>0, <3>1 DEF RowFits, Follows
  <2>5. ~RunnerFails /\ ~BackendRestarts /\ ~StartCall("event")
    BY <2>0 DEF RunnerFails, BackendRestarts, StartCall
  <2>6. CASE CallFailed
    <3>1. srl.caller # "event"
      BY <2>0, <2>6 DEF CallFailed, Fail
    <3> QED
      BY <2>0, <2>6, <3>1 DEF CallFailed, Fail
  <2>7. ~DeleteOldCredentials
    <3>1. SUFFICES ASSUME DeleteOldCredentials
                   PROVE  FALSE
      OBVIOUS
    <3>2. srl.pc = "oldCreds" /\ cr # None /\ CallOf("runner")
      BY <1>0, <2>0, <3>1 DEF DeleteOldCredentials, MakingFits, ServedFits, CallerFits, CallOf
    <3> QED
      BY <1>0, <2>0, <3>2 DEF ServedFits
  <2> QED
    BY <1>3, <2>0, <2>1, <2>2, <2>3, <2>4, <2>5, <2>6, <2>7, RowChange, AnswerFits
<1> QED
  BY <1>1, <1>2, <1>3

-----------------------------------------------------------------------------
(* The theorems                                                            *)

LEMMA Initially ==
  ASSUME Init
  PROVE  IInv
<1>1. TypeOK
  <2>1. cr \in Cr
    BY InputsAssumption DEF Init, Cr, Uid
  <2>2. del \in [Users -> Del]
    BY IdleTyped DEF Init
  <2> QED
    BY <2>1, <2>2, IdleTyped, InputsAssumption DEF Init, TypeOK
<1>2. CredentialsThere /\ ReferencesThere /\ Keys
  BY DEF Init, CredentialsThere, ReferencesThere, Keys
<1>3. srl.pc = "idle" /\ runner.pc = "idle" /\ \A u \in Users : del[u].pc = "idle"
  BY DEF Init, IdleSRL, IdleRunner, IdleDel
<1>4. DeletionsFit /\ CleaningFits /\ MakingFits /\ CallerFits
  BY <1>3 DEF DeletionsFit, TargetFits, CleaningFits, MakingFits, CallerFits, CallOf, Users
<1>5. ServedFits /\ RowFits
  BY DEF Init, ServedFits, RowFits, Pending
<1> QED
  BY <1>1, <1>2, <1>4, <1>5 DEF IInv

LEMMA Stutters ==
  ASSUME IInv, UNCHANGED vars
  PROVE  IInv'
<1>0. UNCHANGED <<cr, secretOK, creds, envs, mappings, projects, accesses, row, ops, secrets, agent,
                  event, appEvent, srl, del, runner, inputs>>
  BY DEF vars, user, tables, cluster
<1>1. TypeOK' /\ CredentialsThere' /\ ReferencesThere' /\ Keys'
  BY <1>0 DEF IInv, TypeOK, CredentialsThere, ReferencesThere, Keys
<1>2. DeletionsFit' /\ CleaningFits'
  BY <1>0 DEF IInv, DeletionsFit, TargetFits, CleaningFits
<1>3. MakingFits'
  BY <1>0 DEF IInv, MakingFits, Fits
<1>4. ServedFits' /\ CallerFits'
  BY <1>0 DEF IInv, ServedFits, CallerFits, CallOf, Stored, Fits
<1>5. RowFits'
  BY <1>0 DEF IInv, RowFits, Pending, CallOf, Follows, NewRow, CurrentEnv
<1> QED
  BY <1>1, <1>2, <1>3, <1>4, <1>5 DEF IInv

LEMMA Inductive ==
  ASSUME IInv, [Next]_vars
  PROVE  IInv'
<1>1. CASE Next
  BY <1>1, TypesPreserved, CredentialsPreserved, ReferencesPreserved, KeysPreserved,
     DeletionsPreserved, CleaningPreserved, MakingPreserved, ServedPreserved, CallerPreserved,
     RowPreserved DEF IInv
<1>2. CASE UNCHANGED vars
  BY <1>2, Stutters
<1> QED
  BY <1>1, <1>2

\* Once the request of a resource is served and its secret is there, the database has
\* exactly one environment for it, with credentials that say what the resource says
\* (ReconcileSharedManagedEnv), whatever the calls of the runner, the sweeps of the
\* database reconciler, failures and restarts did in between.
THEOREM EnvironmentsAreCurrent == Spec => []EnvIsCurrent
<1>1. ASSUME IInv
      PROVE  EnvIsCurrent
  <2>1. SUFFICES ASSUME ~event, srl.pc = "idle", cr # None, secretOK
                 PROVE  \E e \in envs, c \in creds : /\ CurrentEnv = {e.id}
                                                     /\ e.cred = c.id /\ c.spec = cr.spec
    BY DEF EnvIsCurrent
  <2>2. Stored /\ Keys
    BY <1>1, <2>1 DEF IInv, ServedFits
  <2>3. PICK m \in mappings : m.uid = cr.uid /\ Fits(m.env, cr)
    BY <2>2 DEF Stored
  <2>4. PICK e \in envs, c \in creds : e.id = m.env /\ e.cred = c.id /\ c.spec = cr.spec
    BY <2>3 DEF Fits
  <2>5. \A n \in mappings : n.uid = cr.uid => n = m
    BY <2>2, <2>3 DEF Keys
  <2>6. CurrentEnv = {e.id}
    BY <2>1, <2>3, <2>4, <2>5 DEF CurrentEnv
  <2> QED
    BY <2>4, <2>6
<1> QED
  BY <1>1, Initially, Inductive, PTL DEF Spec

\* No row loses the credentials or the environment it refers to, and once the requests of
\* the resource and of the deployment are served the Application row has the environment
\* of the resource, or none if there is no resource (handleUpdatedGitOpsDeplEvent), though
\* the runner writes a row it read before a deletion took its environment away.
THEOREM RowsFollowResources == Spec => []ManagedEnvironmentInv
<1>1. ASSUME IInv
      PROVE  ManagedEnvironmentInv
  <2>1. TypeOK /\ CredentialsThere /\ ReferencesThere /\ RowFits
    BY <1>1 DEF IInv
  <2>2. RowFollowsResource
    <3>1. SUFFICES ASSUME ~event, ~appEvent, srl.pc = "idle", runner.pc = "idle", row # None,
                          cr = None \/ secretOK
                   PROVE  row.env = row.dest /\ CurrentEnv = {row.env} \ {0}
      BY DEF RowFollowsResource
    <3>2. ~Pending
      BY <3>1 DEF Pending, CallOf
    <3> QED
      BY <2>1, <3>1, <3>2 DEF RowFits, Follows
  <2> QED
    BY <2>1, <2>2 DEF ManagedEnvironmentInv
<1> QED
  BY <1>1, Initially, Inductive, PTL DEF Spec

-----------------------------------------------------------------------------
(* RepositoryCredential                                                    *)

\* The call is past the cleaning of other resources' rows.
Past == {"validate", "create", "project", "mapping", "createOp", "compare", "update", "updateOp"}

\* The loop rests, or has nothing left to write for the resource.
Settled == srl.pc \in {"idle", "createOp"} \/ (srl.pc = "wait" /\ srl.next = "idle")

\* The resource there is has a mapping and a row with its URL and the content of its secret.
CredentialStored ==
  \E m \in mappings, r \in rows : /\ m.uid = cr.uid /\ m.row = r.id
                                  /\ r.url = cr.url /\ r.pwd = pwd

\* What the call knows of the resource is what there is, as long as nothing new is heard.
CallFits ==
  /\ srl.pc \in Past => srl.cr # None
  /\ srl.cr # None => srl.url \in R!Url
  /\ srl.pc \in {"cleanOp", "project", "mapping", "createOp"} => srl.id \in R!Id
  /\ srl.pc # "idle" /\ ~event => srl.cr = cr /\ (cr # None => srl.url = cr.url)
  /\ srl.pc \in {"create", "project", "mapping", "compare"} /\ ~event => srl.pwd = pwd
  /\ srl.pc = "compare" /\ ~event => \E m \in mappings : m.uid = cr.uid /\ m.row = srl.id

\* A row has one mapping at most, and a resource that is new to the call has none.
MappingsFit ==
  /\ \A m, n \in mappings : m.row = n.row => m = n
  /\ srl.pc # "idle" /\ cr # None /\ (srl.cr = None \/ srl.cr.uid # cr.uid) =>
       \A m \in mappings : m.uid # cr.uid
  /\ srl.pc \in {"create", "project", "mapping"} => \A m \in mappings : m.uid # srl.cr.uid
  /\ srl.pc \in {"project", "mapping"} =>
       /\ \A m \in mappings : m.row # srl.id
       /\ \E r \in rows : r.id = srl.id /\ r.url = srl.url /\ r.pwd = srl.pwd

StoredWhenSettled == ~event /\ cr # None /\ Settled => CredentialStored

AllowedWhenSettled ==
  /\ ~deplEvent /\ depl # 0 => depl \in repos
  /\ ~event /\ cr # None /\ (Settled \/ srl.pc = "mapping") => cr.url \in repos

AgentFits == agent # None /\ agent.row # None => agent.row.id = agent.id

CredentialIInv ==
  R!TypeOK /\ CallFits /\ MappingsFit /\ StoredWhenSettled /\ AllowedWhenSettled /\ AgentFits

-----------------------------------------------------------------------------
(* Facts about the operators                                               *)

LEMMA CredentialFreshUid ==
  ASSUME R!FreeUids # {}
  PROVE  R!NewUid \in R!Uid /\ \A m \in mappings : m.uid # R!NewUid
<1>1. R!NewUid \in R!FreeUids
  BY DEF R!NewUid
<1> QED
  BY <1>1 DEF R!FreeUids

LEMMA FreshId ==
  ASSUME R!FreeIds # {}
  PROVE  /\ R!NewId \in R!Id
         /\ \A r \in rows : r.id # R!NewId
         /\ \A m \in mappings : m.row # R!NewId
<1>1. R!NewId \in R!FreeIds
  BY DEF R!NewId
<1> QED
  BY <1>1 DEF R!FreeIds

LEMMA CredentialInputBounded ==
  ASSUME R!TypeOK, R!Input
  PROVE  inputs' \in 0..MaxInputs
  BY InputsAssumption DEF R!TypeOK, R!Input

LEMMA CredentialIdleTyped ==
  R!IdleSRL \in R!Call /\ R!IdleSRL.pc = "idle" /\ R!IdleSRL.next = "idle" /\ R!IdleSRL.cr = None
  BY DEF R!IdleSRL, R!Call, R!Condition

LEMMA ProjectsTyped ==
  ASSUME CredentialIInv
  PROVE  /\ R!reconcileAppProjectRepositories \subseteq R!Url
         /\ cr # None => cr.url \in R!reconcileAppProjectRepositories
         /\ depl # 0 => depl \in R!reconcileAppProjectRepositories
<1>1. depl \in 0..2 /\ cr \in R!Cr \union {None}
  BY DEF CredentialIInv, R!TypeOK
<1>2. cr # None => cr.url \in R!Url
  BY <1>1 DEF R!Cr
<1>3. {depl} \ {0} \subseteq R!Url
  BY <1>1 DEF R!Url
<1> QED
  BY <1>2, <1>3 DEF R!reconcileAppProjectRepositories

\* A resource has one mapping at most, and CurrentRow is its row.
LEMMA CurrentRowIs ==
  ASSUME CredentialIInv, NEW c
  PROVE  /\ \A m \in mappings : m.uid = c.uid => R!CurrentRow(c) = m.row
         /\ R!CurrentRow(c) \in R!Id \union {0}
         /\ R!CurrentRow(c) = 0 => \A m \in mappings : m.uid # c.uid
         /\ R!CurrentRow(c) # 0 => \E m \in mappings : m.uid = c.uid /\ m.row = R!CurrentRow(c)
<1> DEFINE ms == {m \in mappings : m.uid = c.uid}
<1>1. CASE ms = {}
  BY <1>1 DEF R!CurrentRow
<1>2. CASE ms # {}
  <2>1. PICK m \in ms : m = CHOOSE n \in ms : TRUE
    BY <1>2
  <2>2. R!CurrentRow(c) = m.row
    BY <1>2, <2>1 DEF R!CurrentRow
  <2>3. \A n \in mappings : n.uid = c.uid => n = m
    BY DEF CredentialIInv, R!TypeOK
  <2>4. m.row \in R!Id /\ m.row # 0
    BY DEF CredentialIInv, R!TypeOK, R!Mapping, R!Id
  <2> QED
    BY <2>2, <2>3, <2>4
<1> QED
  BY <1>1, <1>2

\* A step that touches neither the resource nor its rows, mappings and calls.
LEMMA Bystander ==
  ASSUME CredentialIInv, UNCHANGED <<cr, pwd, depl, rows, mappings, repos, event, deplEvent, srl>>
  PROVE  CallFits' /\ MappingsFit' /\ StoredWhenSettled' /\ AllowedWhenSettled'
<1>1. CallFits' /\ MappingsFit'
  BY DEF CredentialIInv, CallFits, MappingsFit
<1>2. StoredWhenSettled' /\ AllowedWhenSettled'
  BY DEF CredentialIInv, StoredWhenSettled, Settled, CredentialStored, AllowedWhenSettled
<1> QED
  BY <1>1, <1>2

\* A call that fails leaves its request to be served.
LEMMA Failed ==
  ASSUME CredentialIInv, R!Fail, UNCHANGED <<depl, deplEvent, repos>>, mappings' \subseteq mappings
  PROVE  /\ CallFits' /\ MappingsFit' /\ StoredWhenSettled' /\ AllowedWhenSettled'
         /\ srl' \in R!Call /\ event' \in BOOLEAN
<1>1. srl' = R!IdleSRL /\ event' = TRUE
  BY DEF R!Fail
<1>2. CallFits' /\ MappingsFit'
  BY <1>1, CredentialIdleTyped DEF CredentialIInv, CallFits, MappingsFit, Past
<1>3. StoredWhenSettled' /\ AllowedWhenSettled'
  BY <1>1 DEF CredentialIInv, StoredWhenSettled, AllowedWhenSettled
<1> QED
  BY <1>1, <1>2, <1>3, CredentialIdleTyped
-----------------------------------------------------------------------------
(* Steps of users                                                          *)

LEMMA ResourceChanges ==
  ASSUME CredentialIInv, R!CreateCredential \/ R!ChangeURL \/ R!DeleteCredential
  PROVE  CredentialIInv'
<1>1. /\ UNCHANGED <<pwd, health, depl, rows, mappings, repos, ops, secrets, agent, deplEvent, srl>>
      /\ event' = TRUE /\ cond' \in R!Condition /\ inputs' \in 0..MaxInputs
  BY CredentialInputBounded DEF CredentialIInv, R!TypeOK, R!Condition, R!CreateCredential,
     R!ChangeURL, R!DeleteCredential,
     R!tables, R!cluster
<1>2. /\ cr' \in R!Cr \union {None}
      /\ cr' # None => \/ cr # None /\ cr'.uid = cr.uid
                       \/ \A m \in mappings : m.uid # cr'.uid
  <2>1. CASE R!CreateCredential
    BY <2>1, CredentialFreshUid DEF R!CreateCredential, R!Cr, R!Url
  <2>2. CASE R!ChangeURL
    <3>1. cr \in R!Cr /\ cr # None /\ cr' = [cr EXCEPT !.url = 3 - @]
      BY <2>2 DEF CredentialIInv, R!TypeOK, R!ChangeURL
    <3>2. 3 - cr.url \in R!Url
      BY <3>1 DEF R!Cr, R!Url
    <3> QED
      BY <3>1, <3>2 DEF R!Cr
  <2>3. CASE R!DeleteCredential
    BY <2>3 DEF R!DeleteCredential
  <2> QED
    BY <2>1, <2>2, <2>3
<1>3. R!TypeOK'
  BY <1>1, <1>2 DEF CredentialIInv, R!TypeOK
<1>4. CallFits'
  BY <1>1 DEF CredentialIInv, CallFits
<1>5. MappingsFit'
  BY <1>1, <1>2 DEF CredentialIInv, MappingsFit
<1>6. StoredWhenSettled' /\ AllowedWhenSettled' /\ AgentFits'
  BY <1>1 DEF CredentialIInv, StoredWhenSettled, AllowedWhenSettled, AgentFits
<1> QED
  BY <1>3, <1>4, <1>5, <1>6 DEF CredentialIInv

LEMMA SecretChanges ==
  ASSUME CredentialIInv, NEW p \in 0..1, NEW h \in {"ok", "missing"}, R!ChangeSecret(p, h)
  PROVE  CredentialIInv'
<1>1. /\ UNCHANGED <<cr, depl, cond, rows, mappings, repos, ops, secrets, agent, deplEvent, srl>>
      /\ pwd' \in 0..1 /\ health' \in {"ok", "invalid", "missing"} /\ inputs' \in 0..MaxInputs
  BY CredentialInputBounded DEF CredentialIInv, R!ChangeSecret, R!tables, R!cluster
<1>2. event' \in BOOLEAN /\ (~event' => ~event /\ cr = None)
  <2>1. event' = (event \/ cr # None) /\ event \in BOOLEAN
    BY DEF R!ChangeSecret, CredentialIInv, R!TypeOK
  <2> QED
    BY <2>1, Zenon
<1>3. R!TypeOK'
  BY <1>1, <1>2 DEF CredentialIInv, R!TypeOK
<1>4. CallFits'
  BY <1>1, <1>2 DEF CredentialIInv, CallFits, Past
<1>5. MappingsFit' /\ AgentFits'
  BY <1>1 DEF CredentialIInv, MappingsFit, AgentFits
<1>6. StoredWhenSettled' /\ AllowedWhenSettled'
  BY <1>1, <1>2 DEF CredentialIInv, StoredWhenSettled, AllowedWhenSettled
<1> QED
  BY <1>3, <1>4, <1>5, <1>6 DEF CredentialIInv

LEMMA DeploymentChanges ==
  ASSUME CredentialIInv, NEW url \in 0..2, R!ChangeDeployment(url)
  PROVE  CredentialIInv'
<1>1. /\ UNCHANGED <<cr, pwd, health, cond, rows, mappings, repos, ops, secrets, agent, event, srl>>
      /\ depl' \in 0..2 /\ deplEvent' = TRUE /\ inputs' \in 0..MaxInputs
  BY CredentialInputBounded DEF CredentialIInv, R!ChangeDeployment, R!tables, R!cluster
<1>2. R!TypeOK'
  BY <1>1 DEF CredentialIInv, R!TypeOK
<1>3. CallFits' /\ MappingsFit' /\ AgentFits'
  BY <1>1 DEF CredentialIInv, CallFits, MappingsFit, AgentFits
<1>4. StoredWhenSettled' /\ AllowedWhenSettled'
  BY <1>1 DEF CredentialIInv, StoredWhenSettled, Settled, CredentialStored, AllowedWhenSettled
<1> QED
  BY <1>2, <1>3, <1>4 DEF CredentialIInv

\* The repository, the status job, the secrets of Argo CD.
LEMMA SurroundingsChange ==
  ASSUME CredentialIInv,
         \/ R!ChangeRepository \/ R!ReconcileStatus
         \/ \E s \in secrets : R!DeleteRepositorySecret(s) \/ R!CleanOrphanedSecret(s)
         \/ \E r \in rows : R!RecreateSecret(r)
  PROVE  CredentialIInv'
<1>1. UNCHANGED <<cr, pwd, depl, rows, mappings, repos, event, deplEvent, srl, agent>>
  BY DEF R!ChangeRepository, R!ReconcileStatus, R!DeleteRepositorySecret, R!CleanOrphanedSecret,
     R!RecreateSecret, R!user, R!tables, R!cluster
<1>2. health' \in {"ok", "invalid", "missing"}
  BY DEF R!ChangeRepository, R!ReconcileStatus, R!DeleteRepositorySecret, R!CleanOrphanedSecret,
     R!RecreateSecret, R!user, CredentialIInv, R!TypeOK
<1>3. cond' \in R!Condition
  BY DEF R!ChangeRepository, R!ReconcileStatus, R!DeleteRepositorySecret, R!CleanOrphanedSecret,
     R!RecreateSecret, R!ConditionFor, R!Condition, CredentialIInv, R!TypeOK
<1>4. secrets' \subseteq secrets
  BY DEF R!ChangeRepository, R!ReconcileStatus, R!DeleteRepositorySecret, R!CleanOrphanedSecret,
     R!RecreateSecret, R!cluster
<1>5. ops' \subseteq R!Id
  BY DEF R!ChangeRepository, R!ReconcileStatus, R!DeleteRepositorySecret, R!CleanOrphanedSecret,
     R!RecreateSecret, R!cluster, CredentialIInv, R!TypeOK, R!Row
<1>6. inputs' \in 0..MaxInputs
  BY CredentialInputBounded DEF R!ChangeRepository, R!ReconcileStatus, R!DeleteRepositorySecret,
     R!CleanOrphanedSecret,
     R!RecreateSecret, CredentialIInv, R!TypeOK
<1>7. R!TypeOK'
  BY <1>1, <1>2, <1>3, <1>4, <1>5, <1>6 DEF CredentialIInv, R!TypeOK
<1>8. AgentFits'
  BY <1>1 DEF CredentialIInv, AgentFits
<1> QED
  BY <1>1, <1>7, <1>8, Bystander DEF CredentialIInv

-----------------------------------------------------------------------------
(* Steps of the shared resource loop                                       *)

LEMMA ProjectsReconciled ==
  ASSUME CredentialIInv, R!ReconcileProjects
  PROVE  CredentialIInv'
<1>1. /\ UNCHANGED <<cr, pwd, health, depl, cond, rows, mappings, ops, secrets, agent, event, srl,
                     inputs>>
      /\ repos' = R!reconcileAppProjectRepositories /\ deplEvent' = FALSE
  BY DEF R!ReconcileProjects, R!user, R!cluster
<1>2. R!TypeOK'
  BY <1>1, ProjectsTyped DEF CredentialIInv, R!TypeOK
<1>3. CallFits' /\ MappingsFit' /\ AgentFits'
  BY <1>1 DEF CredentialIInv, CallFits, MappingsFit, AgentFits
<1>4. StoredWhenSettled' /\ AllowedWhenSettled'
  BY <1>1, ProjectsTyped DEF CredentialIInv, StoredWhenSettled, Settled, CredentialStored,
     AllowedWhenSettled
<1> QED
  BY <1>2, <1>3, <1>4 DEF CredentialIInv

LEMMA CallStarted ==
  ASSUME CredentialIInv, R!StartCall
  PROVE  CredentialIInv'
<1> DEFINE url == IF cr = None THEN 0 ELSE cr.url
           todo == {m \in mappings : cr = None \/ m.uid # cr.uid}
<1>1. /\ UNCHANGED <<cr, pwd, health, depl, cond, rows, mappings, repos, ops, secrets, agent,
                     deplEvent, inputs>>
      /\ event' = FALSE
      /\ srl' = [R!IdleSRL EXCEPT !.pc = "clean", !.cr = cr, !.cond = cond, !.url = url,
                                !.todo = todo]
  BY DEF R!StartCall, R!user, R!tables, R!cluster
<1>2. url \in 0..2 /\ todo \in SUBSET R!Mapping /\ (cr # None => url = cr.url /\ url \in R!Url)
  BY DEF CredentialIInv, R!TypeOK, R!Cr, R!Url
<1> HIDE DEF url, todo
<1>3. srl' \in R!Call /\ srl'.pc = "clean" /\ srl'.cr = cr /\ srl'.url = url
  BY <1>1, <1>2, CredentialIdleTyped DEF CredentialIInv, R!TypeOK, R!Call
<1>4. R!TypeOK'
  BY <1>1, <1>3 DEF CredentialIInv, R!TypeOK
<1>5. CallFits' /\ MappingsFit'
  BY <1>1, <1>2, <1>3 DEF CredentialIInv, CallFits, MappingsFit, Past
<1>6. StoredWhenSettled' /\ AllowedWhenSettled' /\ AgentFits'
  BY <1>1, <1>3 DEF CredentialIInv, StoredWhenSettled, Settled, AllowedWhenSettled, AgentFits
<1> QED
  BY <1>4, <1>5, <1>6 DEF CredentialIInv

\* A step of the call before the resource itself is looked at.
LEMMA Cleaning ==
  ASSUME CredentialIInv, srl' \in R!Call, srl'.pc \in {"clean", "cleanOp", "unmap", "wait"},
         srl'.cr = srl.cr, srl'.url = srl.url, srl.pc # "idle",
         srl'.pc = "wait" => srl'.next = "unmap", srl'.pc = "cleanOp" => srl'.id \in R!Id,
         UNCHANGED <<cr, depl, event, deplEvent>>,
         mappings' \subseteq mappings,
         repos' = repos \/ repos' = R!reconcileAppProjectRepositories
  PROVE  CallFits' /\ MappingsFit' /\ StoredWhenSettled' /\ AllowedWhenSettled'
<1>1. CallFits'
  BY DEF CredentialIInv, CallFits, Past
<1>2. MappingsFit'
  BY DEF CredentialIInv, MappingsFit
<1>3. StoredWhenSettled' /\ AllowedWhenSettled'
  BY ProjectsTyped DEF CredentialIInv, StoredWhenSettled, Settled, AllowedWhenSettled
<1> QED
  BY <1>1, <1>2, <1>3

LEMMA MappingCleaned ==
  ASSUME CredentialIInv, NEW m \in srl.todo, R!CleanMapping(m)
  PROVE  CredentialIInv'
<1>1. /\ UNCHANGED <<cr, pwd, health, depl, cond, mappings, ops, secrets, agent, event, deplEvent,
                     inputs>>
      /\ srl.pc = "clean" /\ rows' \subseteq rows
      /\ repos' = repos \/ repos' = R!reconcileAppProjectRepositories
      /\ \E pc \in {"unmap", "cleanOp"} : srl' = [srl EXCEPT !.pc = pc, !.id = m.row]
  BY DEF R!CleanMapping, R!user, R!cluster
<1>2. m.row \in R!Id
  BY DEF CredentialIInv, R!TypeOK, R!Call, R!Mapping
<1>3. PICK pc \in {"unmap", "cleanOp"} : srl' = [srl EXCEPT !.pc = pc, !.id = m.row]
  BY <1>1
<1>4. /\ srl' \in R!Call /\ srl'.pc \in {"unmap", "cleanOp"} /\ srl'.cr = srl.cr
      /\ srl'.url = srl.url /\ srl'.id \in R!Id
  BY <1>2, <1>3 DEF CredentialIInv, R!TypeOK, R!Call
<1>5. CallFits' /\ MappingsFit' /\ StoredWhenSettled' /\ AllowedWhenSettled'
  BY <1>1, <1>4, Cleaning
<1>6. R!TypeOK' /\ AgentFits'
  BY <1>1, <1>4, ProjectsTyped DEF CredentialIInv, R!TypeOK, AgentFits
<1> QED
  BY <1>5, <1>6 DEF CredentialIInv

LEMMA DeletionInformed ==
  ASSUME CredentialIInv, R!InformOfDeletion
  PROVE  CredentialIInv'
<1>1. /\ UNCHANGED <<cr, pwd, health, depl, cond, rows, mappings, repos, secrets, agent, event,
                     deplEvent, inputs>>
      /\ srl.pc = "cleanOp" /\ ops' = ops \union {srl.id}
      /\ srl' = [srl EXCEPT !.pc = "unmap"] \/ srl' = [srl EXCEPT !.pc = "wait", !.next = "unmap"]
  BY DEF R!InformOfDeletion, R!CreateOperation, R!user, R!tables
<1>2. srl.id \in R!Id
  BY <1>1 DEF CredentialIInv, CallFits
<1>3. /\ srl' \in R!Call /\ srl'.pc \in {"unmap", "wait"} /\ srl'.cr = srl.cr /\ srl'.url = srl.url
      /\ srl'.pc = "wait" => srl'.next = "unmap"
  BY <1>1 DEF CredentialIInv, R!TypeOK, R!Call
<1>4. CallFits' /\ MappingsFit' /\ StoredWhenSettled' /\ AllowedWhenSettled'
  BY <1>1, <1>3, Cleaning
<1>5. R!TypeOK' /\ AgentFits'
  BY <1>1, <1>2, <1>3 DEF CredentialIInv, R!TypeOK, AgentFits
<1> QED
  BY <1>4, <1>5 DEF CredentialIInv

LEMMA OperationWaited ==
  ASSUME CredentialIInv, R!Waited
  PROVE  CredentialIInv'
<1>1. /\ UNCHANGED <<cr, pwd, health, depl, cond, rows, mappings, repos, ops, secrets, agent, event,
                     deplEvent, inputs>>
      /\ srl.pc = "wait"
  BY DEF R!Waited, R!user, R!tables, R!cluster
<1>2. CASE srl.next = "idle"
  <2>1. srl' = R!IdleSRL
    BY <1>2 DEF R!Waited
  <2>2. R!TypeOK' /\ AgentFits'
    BY <1>1, <2>1, CredentialIdleTyped DEF CredentialIInv, R!TypeOK, AgentFits
  <2>3. CallFits' /\ MappingsFit'
    BY <1>1, <2>1, CredentialIdleTyped DEF CredentialIInv, CallFits, MappingsFit, Past
  <2>4. StoredWhenSettled' /\ AllowedWhenSettled'
    BY <1>1, <1>2, <2>1, CredentialIdleTyped DEF CredentialIInv, StoredWhenSettled, Settled,
       CredentialStored, AllowedWhenSettled
  <2> QED
    BY <2>2, <2>3, <2>4 DEF CredentialIInv
<1>3. CASE srl.next # "idle"
  <2>1. srl' = [srl EXCEPT !.pc = srl.next] /\ srl.next = "unmap"
    BY <1>3 DEF R!Waited, CredentialIInv, R!TypeOK, R!Call
  <2>2. srl' \in R!Call /\ srl'.pc = "unmap" /\ srl'.cr = srl.cr /\ srl'.url = srl.url
    BY <2>1 DEF CredentialIInv, R!TypeOK, R!Call
  <2>3. CallFits' /\ MappingsFit' /\ StoredWhenSettled' /\ AllowedWhenSettled'
    BY <1>1, <2>2, Cleaning
  <2>4. R!TypeOK' /\ AgentFits'
    BY <1>1, <2>2 DEF CredentialIInv, R!TypeOK, AgentFits
  <2> QED
    BY <2>3, <2>4 DEF CredentialIInv
<1> QED
  BY <1>2, <1>3

LEMMA MappingDeleted ==
  ASSUME CredentialIInv, R!DeleteMapping
  PROVE  CredentialIInv'
<1> DEFINE todo == {m \in srl.todo : m.row # srl.id}
<1>1. /\ UNCHANGED <<cr, pwd, health, depl, cond, rows, repos, ops, secrets, agent, event,
                     deplEvent, inputs>>
      /\ srl.pc = "unmap" /\ mappings' \subseteq mappings
      /\ srl' = [srl EXCEPT !.pc = "clean", !.todo = todo, !.id = 0]
  BY DEF R!DeleteMapping, R!user, R!cluster
<1>2. todo \in SUBSET R!Mapping
  BY DEF CredentialIInv, R!TypeOK, R!Call
<1> HIDE DEF todo
<1>3. srl' \in R!Call /\ srl'.pc = "clean" /\ srl'.cr = srl.cr /\ srl'.url = srl.url
  BY <1>1, <1>2 DEF CredentialIInv, R!TypeOK, R!Call
<1>4. CallFits' /\ MappingsFit' /\ StoredWhenSettled' /\ AllowedWhenSettled'
  BY <1>1, <1>3, Cleaning
<1>5. R!TypeOK' /\ AgentFits'
  BY <1>1, <1>3 DEF CredentialIInv, R!TypeOK, AgentFits
<1> QED
  BY <1>4, <1>5 DEF CredentialIInv

LEMMA AllCleaned ==
  ASSUME CredentialIInv, R!Cleaned
  PROVE  CredentialIInv'
<1>1. /\ UNCHANGED <<cr, pwd, health, depl, cond, rows, mappings, repos, ops, secrets, agent, event,
                     deplEvent, inputs>>
      /\ srl.pc = "clean"
  BY DEF R!Cleaned, R!user, R!tables, R!cluster
<1>2. CASE srl.cr = None
  <2>1. srl' = R!IdleSRL /\ (~event => cr = None)
    BY <1>1, <1>2 DEF R!Cleaned, CredentialIInv, CallFits
  <2>2. R!TypeOK' /\ AgentFits'
    BY <1>1, <2>1, CredentialIdleTyped DEF CredentialIInv, R!TypeOK, AgentFits
  <2>3. CallFits' /\ MappingsFit'
    BY <1>1, <2>1, CredentialIdleTyped DEF CredentialIInv, CallFits, MappingsFit, Past
  <2>4. StoredWhenSettled' /\ AllowedWhenSettled'
    BY <1>1, <2>1 DEF CredentialIInv, StoredWhenSettled, AllowedWhenSettled
  <2> QED
    BY <2>2, <2>3, <2>4 DEF CredentialIInv
<1>3. CASE srl.cr # None
  <2>1. srl' = [srl EXCEPT !.pc = "validate"]
    BY <1>3 DEF R!Cleaned
  <2>2. srl' \in R!Call /\ srl'.pc = "validate" /\ srl'.cr = srl.cr /\ srl'.url = srl.url
    BY <2>1 DEF CredentialIInv, R!TypeOK, R!Call
  <2>3. R!TypeOK' /\ AgentFits'
    BY <1>1, <2>2 DEF CredentialIInv, R!TypeOK, AgentFits
  <2>4. CallFits'
    BY <1>1, <1>3, <2>2 DEF CredentialIInv, CallFits, Past
  <2>5. MappingsFit'
    BY <1>1, <2>2 DEF CredentialIInv, MappingsFit
  <2>6. StoredWhenSettled' /\ AllowedWhenSettled'
    BY <1>1, <2>2 DEF CredentialIInv, StoredWhenSettled, Settled, AllowedWhenSettled
  <2> QED
    BY <2>3, <2>4, <2>5, <2>6 DEF CredentialIInv
<1> QED
  BY <1>2, <1>3

LEMMA Validated ==
  ASSUME CredentialIInv, R!Validate
  PROVE  CredentialIInv'
<1> DEFINE c == R!ConditionFor(health, "badType")
           latest == IF c = srl.cond THEN srl.cr ELSE cr
           id == R!CurrentRow(srl.cr)
           pc == IF id = 0 THEN "create" ELSE "compare"
<1>1. /\ UNCHANGED <<cr, pwd, health, depl, rows, mappings, repos, ops, secrets, agent, deplEvent,
                     inputs>>
      /\ srl.pc = "validate" /\ srl.cr # None
  BY DEF R!Validate, R!user, R!tables, R!cluster, CredentialIInv, CallFits, Past
<1>2. cond' \in R!Condition
  <2>1. c \in R!Condition
    BY DEF R!ConditionFor, R!Condition
  <2>2. cond' \in {cond, c}
    BY DEF R!Validate
  <2> QED
    BY <2>1, <2>2 DEF CredentialIInv, R!TypeOK
<1>3. CASE latest = None \/ health # "ok"
  <2>1. R!Fail
    BY <1>3 DEF R!Validate
  <2>2. /\ CallFits' /\ MappingsFit' /\ StoredWhenSettled' /\ AllowedWhenSettled'
        /\ srl' \in R!Call /\ event' \in BOOLEAN
    BY <1>1, <2>1, Failed
  <2>3. R!TypeOK' /\ AgentFits'
    BY <1>1, <1>2, <2>2 DEF CredentialIInv, R!TypeOK, AgentFits
  <2> QED
    BY <2>2, <2>3 DEF CredentialIInv
<1>4. CASE ~(latest = None \/ health # "ok")
  <2>1. /\ srl' = [srl EXCEPT !.cr = latest, !.pwd = pwd, !.id = id, !.pc = pc]
        /\ event' = event
    BY <1>4 DEF R!Validate
  <2>2. latest \in {srl.cr, cr} /\ latest \in R!Cr
    BY <1>4 DEF CredentialIInv, R!TypeOK, R!Call
  <2>3. id \in R!Id \union {0}
    BY CurrentRowIs
  <2>4. /\ pc \in {"create", "compare"}
        /\ pc = "create" => \A m \in mappings : m.uid # srl.cr.uid
        /\ pc = "compare" => \E m \in mappings : m.uid = srl.cr.uid /\ m.row = id
    BY CurrentRowIs
  <2>5. latest # None /\ pwd \in 0..1
    BY <1>4 DEF CredentialIInv, R!TypeOK
  <2> HIDE DEF c, latest, id, pc
  <2>6. /\ srl' \in R!Call /\ srl'.pc = pc /\ srl'.cr = latest /\ srl'.id = id /\ srl'.pwd = pwd
        /\ srl'.url = srl.url
    BY <2>1, <2>2, <2>3, <2>4, <2>5 DEF CredentialIInv, R!TypeOK, R!Call
  <2>7. R!TypeOK' /\ AgentFits'
    BY <1>1, <1>2, <2>1, <2>6 DEF CredentialIInv, R!TypeOK, AgentFits
  <2>8. ~event => latest = cr /\ srl.cr = cr /\ srl.url = cr.url
    BY <1>1, <2>2 DEF CredentialIInv, CallFits
  <2>9. CallFits'
    BY <1>1, <2>1, <2>4, <2>5, <2>6, <2>8 DEF CredentialIInv, CallFits, Past
  <2>10. MappingsFit'
    <3>1. pc = "create" => \A m \in mappings : m.uid # latest.uid
      <4>1. CASE latest = srl.cr
        BY <2>4, <4>1
      <4>2. CASE latest = cr /\ srl.cr.uid # cr.uid
        BY <1>1, <2>5, <4>2 DEF CredentialIInv, MappingsFit
      <4>3. CASE latest = cr /\ srl.cr.uid = cr.uid
        BY <2>4, <4>3
      <4> QED
        BY <2>2, <4>1, <4>2, <4>3
    <3>2. cr # None /\ latest.uid # cr.uid => \A m \in mappings : m.uid # cr.uid
      BY <1>1, <2>2 DEF CredentialIInv, MappingsFit
    <3> QED
      BY <1>1, <2>4, <2>5, <2>6, <3>1, <3>2 DEF CredentialIInv, MappingsFit
  <2>11. StoredWhenSettled' /\ AllowedWhenSettled'
    BY <1>1, <2>4, <2>6 DEF CredentialIInv, StoredWhenSettled, Settled, AllowedWhenSettled
  <2> QED
    BY <2>7, <2>9, <2>10, <2>11 DEF CredentialIInv
<1> QED
  BY <1>3, <1>4

LEMMA RowCreated ==
  ASSUME CredentialIInv, R!CreateRow
  PROVE  CredentialIInv'
<1> DEFINE new == [id |-> R!NewId, url |-> srl.url, pwd |-> srl.pwd]
<1>1. /\ UNCHANGED <<cr, pwd, health, depl, cond, mappings, repos, ops, secrets, agent, event,
                     deplEvent, inputs>>
      /\ srl.pc = "create" /\ R!FreeIds # {} /\ rows' = rows \union {new}
      /\ srl' = [srl EXCEPT !.pc = "project", !.id = R!NewId]
  BY DEF R!CreateRow, R!user, R!cluster
<1>2. /\ R!NewId \in R!Id /\ srl.url \in R!Url /\ srl.pwd \in 0..1
      /\ \A r \in rows : r.id # R!NewId
      /\ \A m \in mappings : m.row # R!NewId
  BY <1>1, FreshId DEF CredentialIInv, R!TypeOK, R!Call, CallFits, Past
<1>3. new \in R!Row /\ new.id = R!NewId /\ new.url = srl.url /\ new.pwd = srl.pwd
  BY <1>2 DEF R!Row
<1> HIDE DEF new
<1>4. /\ srl' \in R!Call /\ srl'.pc = "project" /\ srl'.id = R!NewId /\ srl'.cr = srl.cr
      /\ srl'.url = srl.url /\ srl'.pwd = srl.pwd
  BY <1>1, <1>2 DEF CredentialIInv, R!TypeOK, R!Call
<1>5. R!TypeOK' /\ AgentFits'
  <2>1. rows' \subseteq R!Row /\ \A r, s \in rows' : r.id = s.id => r = s
    BY <1>1, <1>2, <1>3 DEF CredentialIInv, R!TypeOK
  <2> QED
    BY <1>1, <1>4, <2>1 DEF CredentialIInv, R!TypeOK, AgentFits
<1>6. CallFits'
  BY <1>1, <1>2, <1>4 DEF CredentialIInv, CallFits, Past
<1>7. MappingsFit'
  <2>1. \E r \in rows' : r.id = srl'.id /\ r.url = srl'.url /\ r.pwd = srl'.pwd
    BY <1>1, <1>3, <1>4
  <2> QED
    BY <1>1, <1>2, <1>4, <2>1 DEF CredentialIInv, MappingsFit
<1>8. StoredWhenSettled' /\ AllowedWhenSettled'
  BY <1>1, <1>4 DEF CredentialIInv, StoredWhenSettled, Settled, AllowedWhenSettled
<1> QED
  BY <1>5, <1>6, <1>7, <1>8 DEF CredentialIInv

LEMMA AppProjectProcessed ==
  ASSUME CredentialIInv, R!ProcessAppProjectRepository
  PROVE  CredentialIInv'
<1>1. /\ UNCHANGED <<cr, pwd, health, depl, cond, rows, mappings, ops, secrets, agent, event,
                     deplEvent, inputs>>
      /\ srl.pc = "project" /\ repos' = R!reconcileAppProjectRepositories
      /\ srl' = [srl EXCEPT !.pc = "mapping"]
  BY DEF R!ProcessAppProjectRepository, R!user, R!cluster
<1>2. /\ srl' \in R!Call /\ srl'.pc = "mapping" /\ srl'.id = srl.id /\ srl'.cr = srl.cr
      /\ srl'.url = srl.url /\ srl'.pwd = srl.pwd
  BY <1>1 DEF CredentialIInv, R!TypeOK, R!Call
<1>3. R!TypeOK' /\ AgentFits'
  BY <1>1, <1>2, ProjectsTyped DEF CredentialIInv, R!TypeOK, AgentFits
<1>4. CallFits'
  BY <1>1, <1>2 DEF CredentialIInv, CallFits, Past
<1>5. MappingsFit'
  BY <1>1, <1>2 DEF CredentialIInv, MappingsFit
<1>6. StoredWhenSettled' /\ AllowedWhenSettled'
  BY <1>1, <1>2, ProjectsTyped DEF CredentialIInv, StoredWhenSettled, Settled, AllowedWhenSettled
<1> QED
  BY <1>3, <1>4, <1>5, <1>6 DEF CredentialIInv

LEMMA MappingCreated ==
  ASSUME CredentialIInv, R!CreateMapping
  PROVE  CredentialIInv'
<1> DEFINE new == [uid |-> srl.cr.uid, row |-> srl.id]
<1>1. /\ UNCHANGED <<cr, pwd, health, depl, cond, rows, repos, ops, secrets, agent, event,
                     deplEvent, inputs>>
      /\ srl.pc = "mapping" /\ mappings' = mappings \union {new}
      /\ srl' = [srl EXCEPT !.pc = "createOp"]
  BY DEF R!CreateMapping, R!user, R!cluster
<1>2. srl.cr \in R!Cr /\ srl.cr # None /\ srl.id \in R!Id
  BY <1>1 DEF CredentialIInv, R!TypeOK, R!Call, CallFits, Past
<1>3. new \in R!Mapping /\ new.uid = srl.cr.uid /\ new.row = srl.id
  BY <1>2 DEF R!Cr, R!Mapping
<1> HIDE DEF new
<1>4. /\ srl' \in R!Call /\ srl'.pc = "createOp" /\ srl'.id = srl.id /\ srl'.cr = srl.cr
      /\ srl'.url = srl.url
  BY <1>1 DEF CredentialIInv, R!TypeOK, R!Call
<1>5. (\A m \in mappings : m.uid # srl.cr.uid) /\ \A m \in mappings : m.row # srl.id
  BY <1>1 DEF CredentialIInv, MappingsFit
<1>6. R!TypeOK' /\ AgentFits'
  <2>1. mappings' \subseteq R!Mapping /\ \A m, n \in mappings' : m.uid = n.uid => m = n
    BY <1>1, <1>3, <1>5 DEF CredentialIInv, R!TypeOK
  <2> QED
    BY <1>1, <1>4, <2>1 DEF CredentialIInv, R!TypeOK, AgentFits
<1>7. CallFits'
  BY <1>1, <1>2, <1>4 DEF CredentialIInv, CallFits, Past
<1>8. MappingsFit'
  <2>1. \A m, n \in mappings' : m.row = n.row => m = n
    BY <1>1, <1>3, <1>5 DEF CredentialIInv, MappingsFit
  <2>2. cr # None /\ srl.cr.uid # cr.uid => \A m \in mappings' : m.uid # cr.uid
    BY <1>1, <1>3 DEF CredentialIInv, MappingsFit
  <2> QED
    BY <1>1, <1>2, <1>4, <2>1, <2>2 DEF MappingsFit
<1>9. StoredWhenSettled'
  <2> SUFFICES ASSUME ~event
               PROVE  CredentialStored'
    BY <1>1 DEF StoredWhenSettled
  <2>1. srl.cr = cr /\ srl.url = cr.url /\ srl.pwd = pwd
    BY <1>1, <1>2 DEF CredentialIInv, CallFits
  <2>2. PICK r \in rows : r.id = srl.id /\ r.url = srl.url /\ r.pwd = srl.pwd
    BY <1>1 DEF CredentialIInv, MappingsFit
  <2>3. new \in mappings' /\ r \in rows'
    BY <1>1
  <2> QED
    BY <1>1, <1>3, <2>1, <2>2, <2>3 DEF CredentialStored
<1>10. AllowedWhenSettled'
  BY <1>1, <1>4 DEF CredentialIInv, Settled, AllowedWhenSettled
<1> QED
  BY <1>6, <1>7, <1>8, <1>9, <1>10 DEF CredentialIInv

LEMMA CreationInformed ==
  ASSUME CredentialIInv, R!InformOfCreation
  PROVE  CredentialIInv'
<1>1. /\ UNCHANGED <<cr, pwd, health, depl, cond, rows, mappings, repos, secrets, agent, event,
                     deplEvent, inputs>>
      /\ srl.pc = "createOp" /\ ops' = ops \union {srl.id}
      /\ srl' = R!IdleSRL \/ srl' = [srl EXCEPT !.pc = "wait", !.next = "idle"]
  BY DEF R!InformOfCreation, R!CreateOperation, R!user, R!tables
<1>2. /\ srl' \in R!Call
      /\ \/ srl'.pc = "idle" /\ srl'.cr = None
         \/ srl'.pc = "wait" /\ srl'.next = "idle" /\ srl'.cr = srl.cr /\ srl'.url = srl.url
  BY <1>1, CredentialIdleTyped DEF CredentialIInv, R!TypeOK, R!Call
<1>3. R!TypeOK' /\ AgentFits'
  <2>1. ops' \subseteq R!Id
    BY <1>1 DEF CredentialIInv, R!TypeOK, CallFits
  <2> QED
    BY <1>1, <1>2, <2>1 DEF CredentialIInv, R!TypeOK, AgentFits
<1>4. CallFits'
  BY <1>1, <1>2 DEF CredentialIInv, CallFits, Past
<1>5. MappingsFit'
  BY <1>1, <1>2 DEF CredentialIInv, MappingsFit
<1>6. StoredWhenSettled' /\ AllowedWhenSettled'
  BY <1>1, <1>2 DEF CredentialIInv, StoredWhenSettled, Settled, CredentialStored, AllowedWhenSettled
<1> QED
  BY <1>3, <1>4, <1>5, <1>6 DEF CredentialIInv

LEMMA RowCompared ==
  ASSUME CredentialIInv, R!CompareRow
  PROVE  CredentialIInv'
<1>1. /\ UNCHANGED <<cr, pwd, health, depl, cond, rows, ops, secrets, agent, deplEvent, inputs>>
      /\ srl.pc = "compare" /\ srl.cr # None
  BY DEF R!CompareRow, R!user, R!cluster, CredentialIInv, CallFits, Past
<1>2. CASE R!RowOf(srl.id) = {}
  <2>1. R!Fail /\ mappings' \subseteq mappings /\ repos' = repos
    BY <1>2 DEF R!CompareRow
  <2>2. /\ CallFits' /\ MappingsFit' /\ StoredWhenSettled' /\ AllowedWhenSettled'
        /\ srl' \in R!Call /\ event' \in BOOLEAN
    BY <1>1, <2>1, Failed
  <2>3. R!TypeOK' /\ AgentFits'
    BY <1>1, <2>1, <2>2 DEF CredentialIInv, R!TypeOK, AgentFits
  <2> QED
    BY <2>2, <2>3 DEF CredentialIInv
<1>3. CASE R!RowOf(srl.id) # {}
  <2>1. /\ repos' = R!reconcileAppProjectRepositories /\ UNCHANGED <<mappings, event>>
        /\ \/ srl' = [srl EXCEPT !.pc = "update"]
           \/ srl' = R!IdleSRL /\ \A r \in R!RowOf(srl.id) : R!compareAndModify(r) = r
    BY <1>3 DEF R!CompareRow
  <2>2. CASE srl' = [srl EXCEPT !.pc = "update"]
    <3>1. srl' \in R!Call /\ srl'.pc = "update" /\ srl'.cr = srl.cr /\ srl'.url = srl.url
      BY <2>2 DEF CredentialIInv, R!TypeOK, R!Call
    <3>2. R!TypeOK' /\ AgentFits'
      BY <1>1, <2>1, <3>1, ProjectsTyped DEF CredentialIInv, R!TypeOK, AgentFits
    <3>3. CallFits'
      BY <1>1, <2>1, <3>1 DEF CredentialIInv, CallFits, Past
    <3>4. MappingsFit'
      BY <1>1, <2>1, <3>1 DEF CredentialIInv, MappingsFit
    <3>5. StoredWhenSettled' /\ AllowedWhenSettled'
      BY <1>1, <2>1, <3>1, ProjectsTyped DEF CredentialIInv, StoredWhenSettled, Settled,
         AllowedWhenSettled
    <3> QED
      BY <3>2, <3>3, <3>4, <3>5 DEF CredentialIInv
  <2>3. CASE srl' = R!IdleSRL /\ \A r \in R!RowOf(srl.id) : R!compareAndModify(r) = r
    <3>1. R!TypeOK' /\ AgentFits'
      BY <1>1, <2>1, <2>3, CredentialIdleTyped, ProjectsTyped DEF CredentialIInv, R!TypeOK,
         AgentFits
    <3>2. CallFits' /\ MappingsFit'
      BY <1>1, <2>1, <2>3, CredentialIdleTyped DEF CredentialIInv, CallFits, MappingsFit, Past
    <3>3. StoredWhenSettled'
      <4> SUFFICES ASSUME ~event
                   PROVE  CredentialStored'
        BY <2>1 DEF StoredWhenSettled
      <4>1. srl.cr = cr /\ srl.pwd = pwd
        BY <1>1 DEF CredentialIInv, CallFits
      <4>2. PICK m \in mappings : m.uid = cr.uid /\ m.row = srl.id
        BY <1>1 DEF CredentialIInv, CallFits
      <4>3. PICK r \in rows : r.id = srl.id
        BY <1>3 DEF R!RowOf
      <4>4. R!compareAndModify(r) = r
        BY <2>3, <4>3 DEF R!RowOf
      <4>5. r \in [id : R!Id, url : R!Url, pwd : 0..1]
        BY DEF CredentialIInv, R!TypeOK, R!Row
      <4>6. r.url = cr.url /\ r.pwd = pwd
        BY <4>1, <4>4, <4>5 DEF R!compareAndModify
      <4> QED
        BY <1>1, <2>1, <4>2, <4>3, <4>6 DEF CredentialStored
    <3>4. AllowedWhenSettled'
      BY <1>1, <2>1, ProjectsTyped DEF AllowedWhenSettled
    <3> QED
      BY <3>1, <3>2, <3>3, <3>4 DEF CredentialIInv
  <2> QED
    BY <2>1, <2>2, <2>3
<1> QED
  BY <1>2, <1>3

LEMMA RowUpdated ==
  ASSUME CredentialIInv, R!UpdateRow
  PROVE  CredentialIInv'
<1>1. /\ UNCHANGED <<cr, pwd, health, depl, cond, mappings, repos, ops, secrets, agent, event,
                     deplEvent, inputs>>
      /\ srl.pc = "update" /\ srl' = [srl EXCEPT !.pc = "updateOp"]
      /\ rows' = {IF r.id = srl.id THEN R!compareAndModify(r) ELSE r : r \in rows}
  BY DEF R!UpdateRow, R!user, R!cluster
<1>2. srl.cr \in R!Cr /\ srl.cr.url \in R!Url /\ srl.pwd \in 0..1
  <2>1. srl.cr # None
    BY <1>1 DEF CredentialIInv, CallFits, Past
  <2>2. srl.cr \in R!Cr /\ srl.pwd \in 0..1
    BY <2>1 DEF CredentialIInv, R!TypeOK, R!Call
  <2> QED
    BY <2>2 DEF R!Cr
<1>3. \A r \in rows : R!compareAndModify(r) \in R!Row /\ R!compareAndModify(r).id = r.id
  <2> SUFFICES ASSUME NEW r \in rows
               PROVE  R!compareAndModify(r) \in R!Row /\ R!compareAndModify(r).id = r.id
    OBVIOUS
  <2>1. r \in R!Row
    BY DEF CredentialIInv, R!TypeOK
  <2> QED
    BY <1>2, <2>1 DEF R!compareAndModify, R!Row
<1>4. srl' \in R!Call /\ srl'.pc = "updateOp" /\ srl'.cr = srl.cr /\ srl'.url = srl.url
  BY <1>1 DEF CredentialIInv, R!TypeOK, R!Call
<1>5. rows' \subseteq R!Row
  BY <1>1, <1>3 DEF CredentialIInv, R!TypeOK
<1>6. \A r, s \in rows' : r.id = s.id => r = s
  <2> SUFFICES ASSUME NEW r \in rows', NEW s \in rows', r.id = s.id
               PROVE  r = s
    OBVIOUS
  <2>1. PICK x \in rows : r = IF x.id = srl.id THEN R!compareAndModify(x) ELSE x
    BY <1>1
  <2>2. PICK y \in rows : s = IF y.id = srl.id THEN R!compareAndModify(y) ELSE y
    BY <1>1
  <2>3. x = y
    BY <1>3, <2>1, <2>2 DEF CredentialIInv, R!TypeOK
  <2> QED
    BY <2>1, <2>2, <2>3
<1>7. R!TypeOK' /\ AgentFits'
  BY <1>1, <1>4, <1>5, <1>6 DEF CredentialIInv, R!TypeOK, AgentFits
<1>8. CallFits'
  BY <1>1, <1>4 DEF CredentialIInv, CallFits, Past
<1>9. MappingsFit'
  BY <1>1, <1>4 DEF CredentialIInv, MappingsFit
<1>10. StoredWhenSettled' /\ AllowedWhenSettled'
  BY <1>1, <1>4 DEF CredentialIInv, StoredWhenSettled, Settled, AllowedWhenSettled
<1> QED
  BY <1>7, <1>8, <1>9, <1>10 DEF CredentialIInv

LEMMA CredentialCallFailed ==
  ASSUME CredentialIInv, R!InformOfUpdate \/ R!CallFails
  PROVE  CredentialIInv'
<1>1. /\ UNCHANGED <<cr, pwd, health, depl, cond, mappings, repos, ops, secrets, agent, deplEvent>>
      /\ R!Fail /\ rows' \subseteq rows
  BY DEF R!InformOfUpdate, R!CallFails, R!user, R!tables, R!cluster
<1>2. inputs' \in 0..MaxInputs
  BY CredentialInputBounded DEF R!InformOfUpdate, R!CallFails, CredentialIInv, R!TypeOK
<1>3. /\ CallFits' /\ MappingsFit' /\ StoredWhenSettled' /\ AllowedWhenSettled'
      /\ srl' \in R!Call /\ event' \in BOOLEAN
  BY <1>1, Failed
<1>4. R!TypeOK' /\ AgentFits'
  BY <1>1, <1>2, <1>3 DEF CredentialIInv, R!TypeOK, AgentFits
<1> QED
  BY <1>3, <1>4 DEF CredentialIInv

LEMMA BackendRestarted ==
  ASSUME CredentialIInv, R!BackendRestarts
  PROVE  CredentialIInv'
<1>1. /\ UNCHANGED <<cr, pwd, health, depl, cond, rows, mappings, repos, ops, secrets, agent>>
      /\ srl' = R!IdleSRL /\ inputs' \in 0..MaxInputs
  BY CredentialInputBounded DEF R!BackendRestarts, R!user, R!tables, R!cluster, CredentialIInv
<1>2. /\ event' \in BOOLEAN /\ deplEvent' \in BOOLEAN
      /\ ~event' => cr = None
      /\ ~deplEvent' => depl = 0
  BY Zenon DEF R!BackendRestarts
<1>3. R!TypeOK' /\ AgentFits'
  BY <1>1, <1>2, CredentialIdleTyped DEF CredentialIInv, R!TypeOK, AgentFits
<1>4. CallFits' /\ MappingsFit'
  BY <1>1, CredentialIdleTyped DEF CredentialIInv, CallFits, MappingsFit, Past
<1>5. StoredWhenSettled' /\ AllowedWhenSettled'
  BY <1>1, <1>2 DEF StoredWhenSettled, AllowedWhenSettled
<1> QED
  BY <1>3, <1>4, <1>5 DEF CredentialIInv
-----------------------------------------------------------------------------
(* Steps of the database reconciler and of the cluster-agent               *)

\* The sweep leaves the mapping and the row of the resource alone, and the row the call has
\* just made.
LEMMA OrphanedMappingCleaned ==
  ASSUME CredentialIInv, NEW m \in mappings, R!CleanOrphanedMapping(m)
  PROVE  CredentialIInv'
<1>1. /\ UNCHANGED <<cr, pwd, health, depl, cond, repos, ops, secrets, agent, event, deplEvent, srl>>
      /\ mappings' = mappings \ {m} /\ rows' \subseteq rows
      /\ \A r \in rows : r \in rows' \/ r.id = m.row
      /\ cr # None => cr.uid # m.uid
  BY DEF R!CleanOrphanedMapping, R!RowOf, R!user, R!cluster
<1>2. inputs' \in 0..MaxInputs
  BY CredentialInputBounded DEF R!CleanOrphanedMapping, CredentialIInv, R!TypeOK
<1>3. R!TypeOK' /\ AgentFits'
  BY <1>1, <1>2 DEF CredentialIInv, R!TypeOK, AgentFits
<1>4. CallFits'
  <2>1. srl.pc = "compare" /\ ~event => \E n \in mappings' : n.uid = cr.uid /\ n.row = srl.id
    <3> SUFFICES ASSUME srl.pc = "compare", ~event
                 PROVE  \E n \in mappings' : n.uid = cr.uid /\ n.row = srl.id
      OBVIOUS
    <3>1. PICK n \in mappings : n.uid = cr.uid /\ n.row = srl.id
      BY DEF CredentialIInv, CallFits
    <3>2. cr # None
      BY DEF CredentialIInv, CallFits, Past
    <3> QED
      BY <1>1, <3>1, <3>2
  <2> QED
    BY <1>1, <2>1 DEF CredentialIInv, CallFits
<1>5. MappingsFit'
  BY <1>1 DEF CredentialIInv, MappingsFit
<1>6. cr # None /\ CredentialStored => CredentialStored'
  <2> SUFFICES ASSUME cr # None, CredentialStored
               PROVE  CredentialStored'
    OBVIOUS
  <2>1. PICK n \in mappings, r \in rows : /\ n.uid = cr.uid /\ n.row = r.id
                                          /\ r.url = cr.url /\ r.pwd = pwd
    BY DEF CredentialStored
  <2>2. n # m
    BY <1>1, <2>1
  <2>3. n.row # m.row
    BY <2>2 DEF CredentialIInv, MappingsFit
  <2>4. n \in mappings' /\ r \in rows'
    BY <1>1, <2>1, <2>2, <2>3
  <2> QED
    BY <1>1, <2>1, <2>4 DEF CredentialStored
<1>7. StoredWhenSettled' /\ AllowedWhenSettled'
  BY <1>1, <1>6 DEF CredentialIInv, StoredWhenSettled, Settled, AllowedWhenSettled
<1> QED
  BY <1>3, <1>4, <1>5, <1>7 DEF CredentialIInv

LEMMA OrphanedRowCleaned ==
  ASSUME CredentialIInv, NEW r \in rows, R!CleanOrphanedRow(r)
  PROVE  CredentialIInv'
<1>1. /\ UNCHANGED <<cr, pwd, health, depl, cond, mappings, repos, ops, secrets, agent, event,
                     deplEvent, srl, inputs>>
      /\ rows' = rows \ {r} /\ srl.id # r.id /\ \A m \in mappings : m.row # r.id
  BY DEF R!CleanOrphanedRow, R!RowOrphaned, R!user, R!cluster
<1>2. R!TypeOK' /\ AgentFits'
  BY <1>1 DEF CredentialIInv, R!TypeOK, AgentFits
<1>3. CallFits'
  BY <1>1 DEF CredentialIInv, CallFits
<1>4. MappingsFit'
  BY <1>1 DEF CredentialIInv, MappingsFit
<1>5. CredentialStored => CredentialStored'
  BY <1>1 DEF CredentialStored
<1>6. StoredWhenSettled' /\ AllowedWhenSettled'
  BY <1>1, <1>5 DEF CredentialIInv, StoredWhenSettled, Settled, AllowedWhenSettled
<1> QED
  BY <1>2, <1>3, <1>4, <1>6 DEF CredentialIInv

LEMMA RowRead ==
  ASSUME CredentialIInv, NEW id \in ops, R!ReadRow(id)
  PROVE  CredentialIInv'
<1> DEFINE found == IF R!RowOf(id) = {} THEN None ELSE CHOOSE r \in R!RowOf(id) : TRUE
<1>1. /\ UNCHANGED <<cr, pwd, health, depl, cond, rows, mappings, repos, secrets, event, deplEvent,
                     srl, inputs>>
      /\ ops' \subseteq ops /\ agent' = [id |-> id, row |-> found]
  BY DEF R!ReadRow, R!user, R!tables
<1>2. found = None \/ (found \in R!Row /\ found.id = id)
  <2>1. R!RowOf(id) # {} => (CHOOSE r \in R!RowOf(id) : TRUE) \in R!RowOf(id)
    OBVIOUS
  <2> QED
    BY <2>1 DEF R!RowOf, CredentialIInv, R!TypeOK
<1> HIDE DEF found
<1>3. agent' \in [id : R!Id, row : R!Row \union {None}]
  BY <1>1, <1>2 DEF CredentialIInv, R!TypeOK
<1>4. R!TypeOK' /\ AgentFits'
  BY <1>1, <1>2, <1>3 DEF CredentialIInv, R!TypeOK, AgentFits
<1> QED
  BY <1>1, <1>4, Bystander DEF CredentialIInv

LEMMA SecretWritten ==
  ASSUME CredentialIInv, R!WriteSecret \/ R!OperationFails
  PROVE  CredentialIInv'
<1>1. /\ UNCHANGED <<cr, pwd, health, depl, cond, rows, mappings, repos, event, deplEvent, srl>>
      /\ agent # None /\ agent' = None
  BY DEF R!WriteSecret, R!OperationFails, R!user, R!tables
<1>2. inputs' \in 0..MaxInputs
  BY CredentialInputBounded DEF R!WriteSecret, R!OperationFails, CredentialIInv, R!TypeOK
<1>3. /\ agent.id \in R!Id /\ agent.row \in R!Row \union {None}
      /\ agent.row # None => agent.row.id = agent.id
  BY <1>1 DEF CredentialIInv, R!TypeOK, AgentFits
<1>4. ops' \subseteq R!Id
  BY <1>3 DEF R!WriteSecret, R!OperationFails, CredentialIInv, R!TypeOK
<1>5. secrets' \subseteq R!Row /\ \A r, s \in secrets' : r.id = s.id => r = s
  <2>1. CASE secrets' = secrets
    BY <2>1 DEF CredentialIInv, R!TypeOK
  <2>2. CASE secrets' = {s \in secrets : s.id # agent.id} \union ({agent.row} \ {None})
    BY <1>3, <2>2 DEF CredentialIInv, R!TypeOK
  <2> QED
    BY <2>1, <2>2 DEF R!WriteSecret, R!OperationFails
<1>6. R!TypeOK' /\ AgentFits'
  BY <1>1, <1>2, <1>4, <1>5 DEF CredentialIInv, R!TypeOK, AgentFits
<1> QED
  BY <1>1, <1>6, Bystander DEF CredentialIInv
-----------------------------------------------------------------------------
(* The invariant, and what follows from it                                 *)

LEMMA CredentialInitially == R!Init => CredentialIInv
<1> SUFFICES ASSUME R!Init
             PROVE  CredentialIInv
  OBVIOUS
<1>1. R!TypeOK
  <2>1. cr \in R!Cr
    BY InputsAssumption DEF R!Init, R!Cr, R!Uid, R!Url
  <2>2. inputs \in 0..MaxInputs /\ pwd \in 0..1 /\ depl \in 0..2
    BY InputsAssumption DEF R!Init
  <2> QED
    BY <2>1, <2>2, CredentialIdleTyped DEF R!Init, R!TypeOK, R!Condition
<1>2. CallFits /\ MappingsFit
  BY CredentialIdleTyped DEF R!Init, CallFits, MappingsFit, Past
<1>3. StoredWhenSettled /\ AllowedWhenSettled /\ AgentFits
  BY DEF R!Init, StoredWhenSettled, AllowedWhenSettled, AgentFits
<1> QED
  BY <1>1, <1>2, <1>3 DEF CredentialIInv

LEMMA CredentialStutters ==
  ASSUME CredentialIInv, UNCHANGED R!vars
  PROVE  CredentialIInv'
<1>1. UNCHANGED <<cr, pwd, health, depl, cond, rows, mappings, repos, ops, secrets, agent, event,
                  deplEvent, srl, inputs>>
  BY DEF R!vars, R!user, R!tables, R!cluster
<1>2. R!TypeOK' /\ AgentFits'
  BY <1>1 DEF CredentialIInv, R!TypeOK, AgentFits
<1> QED
  BY <1>1, <1>2, Bystander DEF CredentialIInv

LEMMA CredentialInductive == CredentialIInv /\ [R!Next]_(R!vars) => CredentialIInv'
<1> SUFFICES ASSUME CredentialIInv, [R!Next]_(R!vars)
             PROVE  CredentialIInv'
  OBVIOUS
<1>1. CASE R!UserStep
  <2>1. 1 - pwd \in 0..1 /\ pwd \in 0..1
    BY DEF CredentialIInv, R!TypeOK
  <2>2. CASE R!CreateCredential \/ R!ChangeURL \/ R!DeleteCredential
    BY <2>2, ResourceChanges
  <2>3. CASE R!ChangeSecret(1 - pwd, "ok") \/ R!ChangeSecret(pwd, "missing")
    BY <2>1, <2>3, SecretChanges
  <2>4. CASE R!ChangeRepository \/ \E s \in secrets : R!DeleteRepositorySecret(s)
    BY <2>4, SurroundingsChange
  <2>5. CASE \E url \in 0..2 : R!ChangeDeployment(url)
    BY <2>5, DeploymentChanges
  <2> QED
    BY <1>1, <2>2, <2>3, <2>4, <2>5 DEF R!UserStep
<1>2. CASE R!SharedResourceLoop
  BY <1>2, CallStarted, MappingCleaned, DeletionInformed, OperationWaited, MappingDeleted,
     AllCleaned, Validated, RowCreated, AppProjectProcessed, MappingCreated, CreationInformed,
     RowCompared, RowUpdated, CredentialCallFailed DEF R!SharedResourceLoop
<1>3. CASE R!ReconcileProjects \/ R!ReconcileStatus
  BY <1>3, ProjectsReconciled, SurroundingsChange
<1>4. CASE R!DatabaseReconciler
  BY <1>4, OrphanedMappingCleaned, OrphanedRowCleaned DEF R!DatabaseReconciler
<1>5. CASE R!Agent
  <2>1. CASE \E id \in ops : R!ReadRow(id)
    BY <2>1, RowRead
  <2>2. CASE R!WriteSecret
    BY <2>2, SecretWritten
  <2>3. CASE \/ \E s \in secrets : R!CleanOrphanedSecret(s)
             \/ \E r \in rows : R!RecreateSecret(r)
    BY <2>3, SurroundingsChange
  <2> QED
    BY <1>5, <2>1, <2>2, <2>3 DEF R!Agent
<1>6. CASE R!CallFails \/ R!BackendRestarts \/ R!OperationFails
  BY <1>6, CredentialCallFailed, BackendRestarted, SecretWritten
<1>7. CASE UNCHANGED R!vars
  BY <1>7, CredentialStutters
<1> QED
  BY <1>1, <1>2, <1>3, <1>4, <1>5, <1>6, <1>7 DEF R!Next

\* Once the requests of a resource and of the deployment are served, the row of the
\* resource has its URL and the content of its secret, and the AppProject allows the
\* repositories of both, for any number of changes and failures
\* (internalProcessMessage_ReconcileRepositoryCredential, which goes on with a resource it
\* reads again, and the sweeps of the database reconciler).
THEOREM ServedIsCurrent == R!Spec => []R!CredentialInv
<1>1. CredentialIInv => R!RowIsCurrent
  <2> SUFFICES ASSUME CredentialIInv, ~event, srl.pc = "idle", cr # None
               PROVE  \E r \in rows : r.id = R!CurrentRow(cr) /\ r.url = cr.url /\ r.pwd = pwd
    BY DEF R!RowIsCurrent
  <2>1. PICK m \in mappings, r \in rows : /\ m.uid = cr.uid /\ m.row = r.id
                                          /\ r.url = cr.url /\ r.pwd = pwd
    BY DEF CredentialIInv, StoredWhenSettled, Settled, CredentialStored
  <2>2. R!CurrentRow(cr) = m.row
    BY <2>1, CurrentRowIs
  <2> QED
    BY <2>1, <2>2
<1>2. CredentialIInv => R!ReposAllowed
  BY DEF CredentialIInv, AllowedWhenSettled, Settled, R!ReposAllowed
<1>3. CredentialIInv => R!CredentialInv
  BY <1>1, <1>2 DEF CredentialIInv, R!CredentialInv
<1> QED
  BY CredentialInitially, CredentialInductive, <1>3, PTL DEF R!Spec
=============================================================================
