------------------------- MODULE ManagedEnvironment -------------------------
(***************************************************************************)
(* One GitOpsDeploymentManagedEnvironment, by name, and what the service   *)
(* keeps for it: rows in the database and the cluster secret in the Argo   *)
(* CD namespace.  Four processes work on them without a lock:              *)
(*                                                                         *)
(*   - the shared resource loop (sharedresourceloop_managedenv.go), which  *)
(*     serves one call at a time, of the workspace resource loop (an event *)
(*     of the resource) or of a deployment runner;                         *)
(*   - the runner of a GitOpsDeployment that names the environment         *)
(*     (application_event_runner_deployments.go);                          *)
(*   - the database reconciler (db_reconciler.go), which deletes rows the  *)
(*     service lost track of;                                              *)
(*   - the cluster-agent (operation_event_loop.go, namespace_reconciler.go).*)
(*                                                                         *)
(* A step is one call to the database or to a cluster; any of them may     *)
(* fail, and the backend may restart between two of them.                  *)
(*                                                                         *)
(* Abstracted: the fields of the resource that are compared with those of  *)
(* the credentials, and the token in its secret, are one value, spec.      *)
(* There is one Argo CD instance and one user.  The Argo CD                *)
(* Application an operation is about is left to OperationProtocol.         *)
(***************************************************************************)
EXTENDS Naturals

CONSTANTS
  None,
  MaxInputs     \* bounds what users change and what fails

ASSUME InputsAssumption == MaxInputs \in Nat

VARIABLES
  cr,           \* the GitOpsDeploymentManagedEnvironment, or None
  secretOK,     \* the user's secret is there
  creds, envs, mappings,         \* rows: ClusterCredentials, ManagedEnvironment,
  projects, accesses, row,       \* APICRToDatabaseMapping, AppProjectManagedEnvironment,
                                 \* ClusterAccess, and the Application of the deployment
  ops,          \* operations the agent has not started
  secrets,      \* Argo CD cluster secrets
  event, appEvent,   \* a request of the resource loop, of the deployment runner
  srl, del, runner, agent,       \* the processes
  inputs                         \* the inputs so far

tables == <<creds, envs, mappings, projects, accesses>>
cluster == <<ops, secrets, agent>>
user == <<cr, secretOK>>
vars == <<user, tables, row, cluster, event, appEvent, srl, del, runner, inputs>>

Id == 1..(2 * (MaxInputs + 2))
Uid == 1..(MaxInputs + 1)
Cr == [uid : Uid, spec : 0..1]
Cred == [id : Id, spec : 0..1]
Env == [id : Id, cred : Id]
Mapping == [uid : Uid, env : Id]
Row == [env : Id \union {0}, dest : Id \union {0}]
Secret == [env : Id, spec : 0..1]

\* The user for whom rows are deleted: the shared resource loop works for the owner of
\* the resource, the database reconciler for the "special cluster user".
Users == {"owner", "special"}

\* The operation on the Application; the others are on an environment, by its id.
AppOp == 0

\* a call of the shared resource loop, a deletion, and the deployment runner
Call == [pc : {"idle", "clean", "delete", "unmap", "create", "newEnv", "newMapping", "project",
               "update", "oldCreds", "access"},
         caller : {"event", "runner", None}, cr : Cr \union {None}, todo : SUBSET Mapping,
         env : Id \union {0}, old : Id \union {0}, cred : Id \union {0}]
Del == [pc : {"idle", "nil", "ops", "refs", "row", "creds", "argo"},
        env : Id \union {0}, cred : Id \union {0}, apps : BOOLEAN]
RunnerState == [pc : {"idle", "call", "update", "operation"}, row : Row \union {None},
                env : Id \union {0}]

IdleSRL == [pc |-> "idle", caller |-> None, cr |-> None, todo |-> {},
            env |-> 0, old |-> 0, cred |-> 0]
IdleDel == [pc |-> "idle", env |-> 0, cred |-> 0, apps |-> FALSE]
IdleRunner == [pc |-> "idle", row |-> None, env |-> 0]

TypeOK ==
  /\ cr \in Cr \union {None} /\ secretOK \in BOOLEAN
  /\ creds \subseteq Cred /\ envs \subseteq Env /\ mappings \subseteq Mapping
  /\ projects \subseteq Id /\ accesses \subseteq Id /\ row \in Row \union {None}
  /\ ops \subseteq (Id \union {AppOp})
  /\ secrets \subseteq Secret
  /\ event \in BOOLEAN /\ appEvent \in BOOLEAN
  /\ srl \in Call /\ del \in [Users -> Del] /\ runner \in RunnerState
  /\ agent \in Secret \union {None}
  /\ inputs \in 0..MaxInputs

\* the foreign keys of db-schema.sql
CredentialsThere == \A e \in envs : \E c \in creds : c.id = e.cred

ReferencesThere ==
  /\ projects \union accesses \subseteq {e.id : e \in envs}
  /\ row # None /\ row.env # 0 => \E e \in envs : e.id = row.env

\* The service starts with an empty database, a resource of a user and a deployment that
\* names it.
Init ==
  /\ cr = [uid |-> 1, spec |-> 0] /\ secretOK = TRUE
  /\ creds = {} /\ envs = {} /\ mappings = {} /\ projects = {} /\ accesses = {} /\ row = None
  /\ ops = {} /\ secrets = {} /\ event = TRUE /\ appEvent = TRUE
  /\ srl = IdleSRL /\ del = [u \in Users |-> IdleDel] /\ runner = IdleRunner /\ agent = None
  /\ inputs = 0
-----------------------------------------------------------------------------
(* Users                                                                   *)

\* A new uid or id is one nobody knows; Uid and Id bound how many are in use at a time.
FreeUids ==
  Uid \ ({m.uid : m \in mappings \union srl.todo} \union {c.uid : c \in {srl.cr} \ {None}})

FreeCredIds ==
  Id \ ({c.id : c \in creds} \union {e.cred : e \in envs} \union {srl.old, srl.cred}
        \union {del[u].cred : u \in Users})

FreeEnvIds ==
  Id \ ({e.id : e \in envs} \union ops \union {m.env : m \in mappings \union srl.todo}
        \union {s.env : s \in secrets \union ({agent} \ {None})} \union {srl.env, runner.env}
        \union {del[u].env : u \in Users}
        \union UNION {{r.env, r.dest} : r \in {row, runner.row} \ {None}})

NewUid == CHOOSE n \in FreeUids : TRUE

NewCredId == CHOOSE n \in FreeCredIds : TRUE

NewEnvId == CHOOSE n \in FreeEnvIds : TRUE

Input == inputs < MaxInputs /\ inputs' = inputs + 1

CreateEnvironment ==
  /\ Input
  /\ FreeUids # {}
  /\ cr = None /\ cr' = [uid |-> NewUid, spec |-> 0] /\ event' = TRUE
  /\ UNCHANGED <<secretOK, tables, row, cluster, appEvent, srl, del, runner>>

\* The resource changes, or the token of the cluster and with it the secret.
ChangeSpec ==
  /\ Input
  /\ cr # None /\ cr' = [cr EXCEPT !.spec = 1 - @] /\ secretOK' = TRUE /\ event' = TRUE
  /\ UNCHANGED <<tables, row, cluster, appEvent, srl, del, runner>>

DeleteEnvironment ==
  /\ Input
  /\ cr # None /\ cr' = None /\ event' = TRUE
  /\ UNCHANGED <<secretOK, tables, row, cluster, appEvent, srl, del, runner>>

DeleteSecret ==
  /\ Input
  /\ secretOK /\ secretOK' = FALSE /\ event' = (event \/ cr # None)
  /\ UNCHANGED <<cr, tables, row, cluster, appEvent, srl, del, runner>>

\* Somebody deletes a cluster secret from the Argo CD namespace.
DeleteClusterSecret(s) ==
  /\ Input
  /\ secrets' = secrets \ {s}
  /\ UNCHANGED <<user, tables, row, ops, agent, event, appEvent, srl, del, runner>>
-----------------------------------------------------------------------------
(* DeleteManagedEnvironmentResources, which two processes run              *)

RowWithout(e) == IF row # None /\ row.env = e THEN [row EXCEPT !.env = 0] ELSE row

\* Only the rows of the given user are listed.
ProjectsAfter(u, e) == IF u = "owner" THEN projects \ {e} ELSE projects

NilEnvironment(u) ==
  /\ del[u].pc = "nil"
  /\ row' = RowWithout(del[u].env)
  /\ LET apps == row # None /\ row.env = del[u].env
     IN del' = [del EXCEPT ![u].apps = apps, ![u].pc = IF apps THEN "ops" ELSE "refs"]
  /\ UNCHANGED <<user, tables, cluster, event, appEvent, srl, runner, inputs>>

UpdateApplications(u) ==
  /\ del[u].pc = "ops"
  /\ ops' = ops \union {AppOp} /\ del' = [del EXCEPT ![u].pc = "refs"]
  /\ UNCHANGED <<user, tables, row, secrets, agent, event, appEvent, srl, runner, inputs>>

\* The rows that have the environment as a foreign key.
DeleteReferences(u) ==
  /\ del[u].pc = "refs"
  /\ accesses' = accesses \ {del[u].env} /\ projects' = ProjectsAfter(u, del[u].env)
  /\ del' = [del EXCEPT ![u].pc = "row"]
  /\ UNCHANGED <<user, creds, envs, mappings, row, cluster, event, appEvent, srl, runner, inputs>>

HasRow(e) == \E x \in envs : x.id = e

\* The row can be deleted if it is there and nothing has it as a foreign key.
Deletable(e) ==
  /\ HasRow(e)
  /\ e \notin projects \union accesses /\ (row # None => row.env # e)

DeleteRow(u) ==
  /\ del[u].pc = "row" /\ Deletable(del[u].env)
  /\ envs' = {e \in envs : e.id # del[u].env} /\ del' = [del EXCEPT ![u].pc = "creds"]
  /\ UNCHANGED <<user, creds, mappings, projects, accesses, row, cluster, event, appEvent, srl,
                 runner, inputs>>

\* The end of a deletion.
Deleted(u) ==
  /\ del' = [del EXCEPT ![u] = IdleDel]
  /\ srl' = IF u = "owner" THEN [srl EXCEPT !.pc = "unmap"] ELSE srl

\* The credentials go last ...
DeleteCredentials(u) ==
  /\ del[u].pc = "creds"
  /\ \E c \in creds : c.id = del[u].cred
  /\ creds' = {c \in creds : c.id # del[u].cred}
  /\ IF del[u].apps THEN del' = [del EXCEPT ![u].pc = "argo"] /\ UNCHANGED srl ELSE Deleted(u)
  /\ UNCHANGED <<user, envs, mappings, projects, accesses, row, cluster, event, appEvent,
                 runner, inputs>>

\* ... and Argo CD is told with an operation on the environment, which is gone by then.
InformArgoCD(u) ==
  /\ del[u].pc = "argo"
  /\ ops' = ops \union {del[u].env}
  /\ Deleted(u)
  /\ UNCHANGED <<user, tables, row, secrets, agent, event, appEvent, runner, inputs>>
-----------------------------------------------------------------------------
(* The shared resource loop: ReconcileSharedManagedEnv                     *)

\* The mappings deleteManagedEnvironmentDBByAPINameAndNamespace goes through.
Outdated(c) == {m \in mappings : c = None \/ m.uid # c.uid}

\* StartCall reads the resource and its secret.  A resource whose secret is missing is
\* an error of the user, before any row is touched.  handleNewGitOpsDeplEvent and
\* handleUpdatedGitOpsDeplEvent read the Application before the call.
StartCall(caller) ==
  /\ srl.pc = "idle"
  /\ IF caller = "event" THEN event ELSE runner.pc = "idle" /\ appEvent
  /\ event' = (event /\ caller # "event")
  /\ IF cr # None /\ ~secretOK
     THEN UNCHANGED <<srl, runner, appEvent>>
     ELSE /\ srl' = [IdleSRL EXCEPT !.pc = "clean", !.caller = caller, !.cr = cr,
                                    !.todo = Outdated(cr)]
          /\ appEvent' = (appEvent /\ caller # "runner")
          /\ runner' = IF caller = "event" THEN runner
                       ELSE [IdleRunner EXCEPT !.pc = "call", !.row = row]
  /\ UNCHANGED <<user, tables, row, cluster, del, inputs>>

CleanMapping(m) ==
  /\ srl.pc = "clean" /\ m \in srl.todo
  /\ srl' = [srl EXCEPT !.pc = IF HasRow(m.env) THEN "delete" ELSE "unmap",
                        !.env = m.env]
  /\ del' = [del EXCEPT !["owner"] =
               IF HasRow(m.env)
               THEN [IdleDel EXCEPT !.pc = "nil", !.env = m.env,
                                    !.cred = (CHOOSE e \in envs : e.id = m.env).cred]
               ELSE @]
  /\ UNCHANGED <<user, tables, row, cluster, event, appEvent, runner, inputs>>

DeleteMapping ==
  /\ srl.pc = "unmap"
  /\ mappings' = {m \in mappings : m.env # srl.env}
  /\ srl' = [srl EXCEPT !.pc = "clean", !.todo = {m \in @ : m.env # srl.env}]
  /\ UNCHANGED <<user, creds, envs, projects, accesses, row, cluster, event, appEvent, del, runner,
                 inputs>>

\* The end of a call: the caller gets the environment, or 0.
Answer(e) ==
  /\ srl' = IdleSRL
  /\ IF srl.caller = "event"
     THEN appEvent' = TRUE /\ UNCHANGED runner
     ELSE runner' = [runner EXCEPT !.pc = "update", !.env = e] /\ UNCHANGED appEvent

\* A call that fails: the event is retried by the task retry loop, the runner tries again.
Fail ==
  /\ srl' = IdleSRL /\ del' = [del EXCEPT !["owner"] = IdleDel]
  /\ IF srl.caller = "event" THEN event' = TRUE /\ UNCHANGED <<runner, appEvent>>
     ELSE runner' = IdleRunner /\ appEvent' = TRUE /\ UNCHANGED event

EndOfResource ==
  /\ srl.pc = "clean" /\ srl.todo = {} /\ srl.cr = None
  /\ Answer(0)
  /\ UNCHANGED <<user, tables, row, cluster, event, del, inputs>>

\* the row of an environment is taken to be current
MustReplace_never(c) == FALSE

\* A field of the resource differs from the credentials, or the cluster refuses the token.
MustReplace(c) == c.spec # srl.cr.spec

\* The branches A to E of internalReconcileSharedManagedEnv: create, create again,
\* replace the credentials, or go on with what there is.
Look ==
  /\ srl.pc = "clean" /\ srl.todo = {} /\ srl.cr # None
  /\ LET ms == {m \in mappings : m.uid = srl.cr.uid}
         es == {e \in envs : \E m \in ms : m.env = e.id}
         e == CHOOSE x \in es : TRUE
         c == CHOOSE x \in creds : x.id = e.cred
     IN /\ srl' = [srl EXCEPT !.pc = IF es = {} \/ MustReplace(c) THEN "create" ELSE "access",
                              !.env = IF es = {} THEN 0 ELSE e.id,
                              !.old = IF es = {} THEN 0 ELSE e.cred]
        /\ mappings' = IF es = {} THEN mappings \ ms ELSE mappings
  /\ UNCHANGED <<user, creds, envs, projects, accesses, row, cluster, event, appEvent, del, runner,
                 inputs>>

\* createNewClusterCredentials, from the resource and the secret that were read.
CreateCredentials ==
  /\ srl.pc = "create" /\ FreeCredIds # {}
  /\ creds' = creds \union {[id |-> NewCredId, spec |-> srl.cr.spec]}
  /\ srl' = [srl EXCEPT !.pc = IF srl.env = 0 THEN "newEnv" ELSE "update", !.cred = NewCredId]
  /\ UNCHANGED <<user, envs, mappings, projects, accesses, row, cluster, event, appEvent, del,
                 runner, inputs>>

\* The token that was read has been replaced.
InvalidCredentials ==
  /\ srl.pc = "create" /\ cr # None /\ cr.spec # srl.cr.spec
  /\ Fail
  /\ UNCHANGED <<user, tables, row, cluster, inputs>>

CreateEnvRow ==
  /\ srl.pc = "newEnv" /\ FreeEnvIds # {}
  /\ envs' = envs \union {[id |-> NewEnvId, cred |-> srl.cred]}
  /\ srl' = [srl EXCEPT !.pc = "newMapping", !.env = NewEnvId]
  /\ UNCHANGED <<user, creds, mappings, projects, accesses, row, cluster, event, appEvent, del,
                 runner, inputs>>

CreateMapping ==
  /\ srl.pc = "newMapping"
  /\ mappings' = mappings \union {[uid |-> srl.cr.uid, env |-> srl.env]}
  /\ srl' = [srl EXCEPT !.pc = "project"]
  /\ UNCHANGED <<user, creds, envs, projects, accesses, row, cluster, event, appEvent, del, runner,
                 inputs>>

UpdateEnvRow ==
  /\ srl.pc = "update" /\ HasRow(srl.env)
  /\ envs' = {IF e.id = srl.env THEN [e EXCEPT !.cred = srl.cred] ELSE e : e \in envs}
  /\ srl' = [srl EXCEPT !.pc = "project"]
  /\ UNCHANGED <<user, creds, mappings, projects, accesses, row, cluster, event, appEvent, del,
                 runner, inputs>>

CreateAppProject ==
  /\ srl.pc = "project" /\ HasRow(srl.env)
  /\ projects' = projects \union {srl.env}
  /\ srl' = [srl EXCEPT !.pc = IF srl.old = 0 THEN "access" ELSE "oldCreds"]
  /\ UNCHANGED <<user, creds, envs, mappings, accesses, row, cluster, event, appEvent, del, runner,
                 inputs>>

\* If the old credentials are gone already the call ends without an environment and
\* without an error.
DeleteOldCredentials ==
  /\ srl.pc = "oldCreds"
  /\ creds' = {c \in creds : c.id # srl.old}
  /\ IF \E c \in creds : c.id = srl.old
     THEN srl' = [srl EXCEPT !.pc = "access"] /\ UNCHANGED <<runner, appEvent>>
     ELSE Answer(0)
  /\ UNCHANGED <<user, envs, mappings, projects, accesses, row, cluster, event, del, inputs>>

WrapManagedEnv ==
  /\ srl.pc = "access" /\ HasRow(srl.env)
  /\ accesses' = accesses \union {srl.env}
  /\ Answer(srl.env)
  /\ UNCHANGED <<user, creds, envs, mappings, projects, row, cluster, event, del, inputs>>

\* Somebody else deleted the row of the environment in the meantime.
RowVanished ==
  /\ srl.pc \in {"update", "project", "access"} /\ ~HasRow(srl.env)
  /\ Fail
  /\ UNCHANGED <<user, tables, row, cluster, inputs>>

\* A call to the database or to a cluster fails.
CallFails ==
  /\ srl.pc # "idle" /\ Input
  /\ Fail
  /\ UNCHANGED <<user, tables, row, cluster>>

\* A row that is to be deleted is not there, or a foreign key keeps it.
Refused(u) ==
  /\ \/ del[u].pc = "row" /\ ~Deletable(del[u].env)
     \/ del[u].pc = "creds" /\ ~\E c \in creds : c.id = del[u].cred
  /\ IF u = "owner" THEN Fail
     ELSE del' = [del EXCEPT ![u] = IdleDel] /\ UNCHANGED <<event, appEvent, srl, runner>>
  /\ UNCHANGED <<user, tables, row, cluster, inputs>>
-----------------------------------------------------------------------------
(* The runner of the deployment                                            *)

NewRow == [env |-> runner.env, dest |-> runner.env]

\* the destination in the row is not compared
RowChanges_envOnly == runner.row = None \/ runner.row.env # runner.env

RowChanges == runner.row # NewRow

\* There is no Application for an environment that is not there, no row may name one
\* that was deleted in between, and no operation is made if nothing changed.
UpdateApplication ==
  /\ runner.pc = "update"
  /\ IF ~RowChanges
     THEN runner' = IdleRunner /\ UNCHANGED <<row, appEvent>>
     ELSE IF (runner.env = 0 /\ runner.row = None)
             \/ (runner.env # 0 /\ ~HasRow(runner.env))
          THEN runner' = IdleRunner /\ appEvent' = TRUE /\ UNCHANGED row
          ELSE runner' = [runner EXCEPT !.pc = "operation"] /\ row' = NewRow /\ UNCHANGED appEvent
  /\ UNCHANGED <<user, tables, cluster, event, srl, del, inputs>>

CreateOperation ==
  /\ runner.pc = "operation"
  /\ ops' = ops \union {AppOp} /\ runner' = IdleRunner
  /\ UNCHANGED <<user, tables, row, secrets, agent, event, appEvent, srl, del, inputs>>

\* An Application that was new is disposed of.
RunnerFails ==
  /\ runner.pc \in {"update", "operation"} /\ Input
  /\ row' = IF runner.pc = "operation" /\ runner.row = None THEN None ELSE row
  /\ runner' = IdleRunner /\ appEvent' = TRUE
  /\ UNCHANGED <<user, tables, cluster, event, srl, del>>

\* The backend restarts: what it was doing is lost, events come for what there is.
BackendRestarts ==
  /\ Input
  /\ srl' = IdleSRL /\ del' = [u \in Users |-> IdleDel] /\ runner' = IdleRunner
  /\ event' = (cr # None) /\ appEvent' = TRUE
  /\ UNCHANGED <<user, tables, row, cluster>>
-----------------------------------------------------------------------------
(* The database reconciler                                                 *)

\* cleanOrphanedEntriesfromTable_ACTDM_ManagedEnvironment: the mapping goes first.
CleanOrphanedMapping(m) ==
  /\ del["special"].pc = "idle"
  /\ ~(cr # None /\ cr.uid = m.uid)
  /\ mappings' = mappings \ {m}
  /\ del' = [del EXCEPT !["special"] =
               IF HasRow(m.env)
               THEN [IdleDel EXCEPT !.pc = "nil", !.env = m.env,
                                    !.cred = (CHOOSE e \in envs : e.id = m.env).cred]
               ELSE @]
  /\ UNCHANGED <<user, creds, envs, projects, accesses, row, cluster, event, appEvent, srl, runner,
                 inputs>>

\* Rows of the last hour are left alone: no call takes an hour.
RecentCred(id) == srl.pc # "idle" /\ id = srl.cred
Recent(id) == srl.pc # "idle" /\ id = srl.env

CleanOrphanedEnv(e) ==
  /\ del["special"].pc = "idle"
  /\ ~\E m \in mappings : m.env = e.id
  /\ ~Recent(e.id)
  /\ del' = [del EXCEPT !["special"] = [IdleDel EXCEPT !.pc = "nil", !.env = e.id, !.cred = e.cred]]
  /\ UNCHANGED <<user, tables, row, cluster, event, appEvent, srl, runner, inputs>>

Unused(c) == (~\E e \in envs : e.cred = c.id) /\ ~RecentCred(c.id)

CleanOrphanedCredentials(c) ==
  /\ del["special"].pc = "idle" /\ Unused(c)
  /\ creds' = creds \ {c}
  /\ UNCHANGED <<user, envs, mappings, projects, accesses, row, cluster, event, appEvent, srl, del,
                 runner, inputs>>
-----------------------------------------------------------------------------
(* The cluster-agent                                                       *)

\* generateExpectedClusterSecret for the environment of the Application; None if there
\* is nothing to do.  (The foreign keys see to it that row and credentials are there.)
ExpectedSecret ==
  IF row = None \/ row.env = 0 THEN None
  ELSE LET e == CHOOSE x \in envs : x.id = row.env
           c == CHOOSE x \in creds : x.id = e.cred
       IN [env |-> e.id, spec |-> c.spec]

\* processOperation_Application reads the rows ...
ReadRows ==
  /\ AppOp \in ops /\ agent = None
  /\ IF ExpectedSecret = None THEN ops' = ops \ {AppOp} /\ UNCHANGED agent
     ELSE agent' = ExpectedSecret /\ ops' = ops \ {AppOp}
  /\ UNCHANGED <<user, tables, row, secrets, event, appEvent, srl, del, runner, inputs>>

\* ... and writes the secret.
EnsureSecret ==
  /\ agent # None
  /\ secrets' = {s \in secrets : s.env # agent.env} \union {agent} /\ agent' = None
  /\ UNCHANGED <<user, tables, row, ops, event, appEvent, srl, del, runner, inputs>>

\* processOperation_ManagedEnvironment: an environment that is still there is an error
\* that is not retried.
DeleteSecretOf(id) ==
  /\ id \in ops
  /\ ops' = ops \ {id}
  /\ secrets' = IF HasRow(id) THEN secrets ELSE {s \in secrets : s.env # id}
  /\ UNCHANGED <<user, tables, row, agent, event, appEvent, srl, del, runner, inputs>>

OperationFails ==
  /\ agent # None /\ Input
  /\ agent' = None /\ ops' = ops \union {AppOp}
  /\ UNCHANGED <<user, tables, row, secrets, event, appEvent, srl, del, runner>>

\* orphans are looked for only when nothing is deployed
SecretOrphaned_ifUnused(s) == (~HasRow(s.env)) /\ row = None

SecretOrphaned(s) == ~HasRow(s.env)

\* cleanOrphanedCRsfromCluster_Secret_Delete
CleanOrphanedSecret(s) ==
  /\ SecretOrphaned(s) /\ secrets' = secrets \ {s}
  /\ UNCHANGED <<user, tables, row, ops, agent, event, appEvent, srl, del, runner, inputs>>

\* recreateManagedEnvClusterSecretFromClusterAccess: of an environment with an access
\* and an Application.
SecretMissing(e) ==
  /\ e \in accesses /\ ~\E s \in secrets : s.env = e
  /\ row # None /\ row.env = e

RecreateClusterSecret(e) ==
  /\ SecretMissing(e) /\ ops' = ops \union {AppOp} /\ AppOp \notin ops /\ agent = None
  /\ UNCHANGED <<user, tables, row, secrets, agent, event, appEvent, srl, del, runner, inputs>>
-----------------------------------------------------------------------------
UserStep ==
  \/ CreateEnvironment \/ ChangeSpec \/ DeleteEnvironment \/ DeleteSecret
  \/ \E s \in secrets : DeleteClusterSecret(s)

Deletion(u) ==
  \/ NilEnvironment(u) \/ UpdateApplications(u) \/ DeleteReferences(u)
  \/ DeleteRow(u) \/ DeleteCredentials(u) \/ InformArgoCD(u)
  \/ Refused(u)

SharedResourceLoop ==
  \/ \E caller \in {"event", "runner"} : StartCall(caller)
  \/ \E m \in srl.todo : CleanMapping(m)
  \/ DeleteMapping \/ EndOfResource \/ Look \/ CreateCredentials \/ InvalidCredentials
  \/ CreateEnvRow \/ CreateMapping \/ UpdateEnvRow \/ CreateAppProject \/ DeleteOldCredentials
  \/ WrapManagedEnv \/ RowVanished

Runner == UpdateApplication \/ CreateOperation

Failures == CallFails \/ RunnerFails \/ BackendRestarts \/ OperationFails

Agent ==
  \/ ReadRows \/ EnsureSecret
  \/ \E id \in Id : DeleteSecretOf(id)
  \/ \E s \in secrets : CleanOrphanedSecret(s)
  \/ \E e \in accesses : RecreateClusterSecret(e)

Next ==
  \/ UserStep \/ SharedResourceLoop \/ Runner \/ Failures
  \/ \E u \in Users : Deletion(u)
  \/ \E m \in mappings : CleanOrphanedMapping(m)
  \/ \E e \in envs : CleanOrphanedEnv(e)
  \/ \E c \in creds : CleanOrphanedCredentials(c)
  \/ Agent

\* Every process goes on with what it has to do, and the database reconciler looks for
\* unused credentials in every cycle.
Fairness ==
  /\ WF_vars(SharedResourceLoop \/ Deletion("owner"))
  /\ WF_vars(Runner) /\ WF_vars(Agent) /\ WF_vars(Deletion("special"))
  /\ SF_vars(\E c \in creds : CleanOrphanedCredentials(c))

Spec == Init /\ [][Next]_vars /\ Fairness
-----------------------------------------------------------------------------
(* Properties                                                              *)

CurrentEnv == {m.env : m \in {x \in mappings : cr # None /\ x.uid = cr.uid}}

\* Once the request of a resource has been served and its secret is there, the database
\* has exactly one environment for it, whose credentials have what the
\* resource and the secret say (ReconcileSharedManagedEnv, whatever failed before).
EnvIsCurrent ==
  ~event /\ srl.pc = "idle" /\ cr # None /\ secretOK =>
    \E e \in envs, c \in creds :
      /\ CurrentEnv = {e.id}
      /\ e.cred = c.id /\ c.spec = cr.spec

\* With the requests of the resource and of the deployment served, the Application row
\* has the environment of the resource in its column and in its destination, or, if
\* there is no resource, none (handleUpdatedGitOpsDeplEvent, which works on a row it
\* read before other processes changed it).
RowFollowsResource ==
  /\ ~event /\ ~appEvent /\ srl.pc = "idle" /\ runner.pc = "idle" /\ row # None
  /\ cr = None \/ secretOK
  => row.env = row.dest /\ CurrentEnv = {row.env} \ {0}

\* Whatever the order of operations, failures and sweeps, in the end no cluster secret is
\* left whose environment has no row (InformArgoCD, DeleteSecretOf, CleanOrphanedSecret),
\* the environment of the Application has the secret it needs to deploy
\* (RecreateClusterSecret), and no credentials of a user's cluster are left that no
\* environment has (createNewManagedEnv and replaceExistingManagedEnv leave them behind).
Heals ==
  <>[](/\ \A s \in secrets : HasRow(s.env)
       /\ row # None /\ row.env # 0 => \E s \in secrets : s.env = row.env
       /\ \A c \in creds : \E e \in envs : e.cred = c.id)

\* Rows are well formed, none has lost the row it refers to, and that of the Application
\* follows the resource.
ManagedEnvironmentInv == TypeOK /\ CredentialsThere /\ ReferencesThere /\ RowFollowsResource
=============================================================================
