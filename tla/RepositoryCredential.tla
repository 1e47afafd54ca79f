------------------------ MODULE RepositoryCredential ------------------------
(***************************************************************************)
(* One GitOpsDeploymentRepositoryCredential, by name, and what the service *)
(* keeps for it: the RepositoryCredentials row with its mapping, the       *)
(* AppProjectRepository rows of the namespace, and the repository secret   *)
(* in the Argo CD namespace.                                               *)
(*                                                                         *)
(*   - The shared resource loop reconciles the resource                    *)
(*     (sharedresourceloop_repositorycredential.go).  It waits for the     *)
(*     operations it creates, and serves nobody else in the meantime.      *)
(*   - The cluster-agent processes the operations (repocred.go) and sweeps *)
(*     the secrets (namespace_reconciler.go).                              *)
(*   - The database reconciler sweeps rows and mappings (db_reconciler.go),*)
(*     another job checks the credentials (repocred_reconciler.go).        *)
(*                                                                         *)
(* Abstracted: user name and password are one value, pwd; a URL stands for *)
(* its normalized form; other deployments of the namespace are one, whose  *)
(* runner asks the loop for the AppProjectRepository rows.                 *)
(***************************************************************************)
EXTENDS Naturals

CONSTANTS
  None,
  MaxInputs     \* bounds what users change and what fails

ASSUME InputsAssumption == MaxInputs \in Nat

VARIABLES
  cr,           \* the GitOpsDeploymentRepositoryCredential, or None
  cond,         \* its conditions
  pwd,          \* the content of the user's secret
  health,       \* whether the secret is there and the repository accepts it
  depl,         \* the URL of a GitOpsDeployment of the namespace, 0 if there is none
  rows, mappings, repos,    \* rows: RepositoryCredentials, APICRToDatabaseMapping,
                            \* AppProjectRepository
  ops,          \* RepositoryCredentials operations in state Waiting, by the row's id
  secrets,      \* repository secrets of Argo CD
  event, deplEvent,         \* requests of the resource, of the deployment
  srl, agent,   \* the shared resource loop, the task of the cluster-agent
  inputs

user == <<cr, pwd, health, depl>>
tables == <<rows, mappings, repos>>
cluster == <<ops, secrets, agent>>
vars == <<user, cond, tables, cluster, event, deplEvent, srl, inputs>>

Id == 1..(MaxInputs + 3)
Uid == 1..(MaxInputs + 1)
Url == 1..2
Cr == [uid : Uid, url : Url]
Row == [id : Id, url : Url, pwd : 0..1]
Mapping == [uid : Uid, row : Id]
Condition == {"none", "valid", "invalid", "notFound", "badType"}

\* a call of the shared resource loop
Call == [pc : {"idle", "clean", "cleanOp", "unmap", "validate", "create", "project", "mapping",
               "createOp", "compare", "update", "updateOp", "wait"},
         cr : Cr \union {None}, cond : Condition, url : 0..2, pwd : 0..1,
         todo : SUBSET Mapping, id : Id \union {0}, next : {"idle", "unmap"}]

IdleSRL == [pc |-> "idle", cr |-> None, cond |-> "none", url |-> 0, pwd |-> 0, todo |-> {},
            id |-> 0, next |-> "idle"]

TypeOK ==
  /\ cr \in Cr \union {None} /\ cond \in Condition /\ pwd \in 0..1 /\ depl \in 0..2
  /\ health \in {"ok", "invalid", "missing"}
  /\ rows \subseteq Row /\ mappings \subseteq Mapping /\ repos \subseteq Url
  /\ ops \subseteq Id /\ secrets \subseteq Row
  /\ event \in BOOLEAN /\ deplEvent \in BOOLEAN
  /\ srl \in Call
  /\ agent \in [id : Id, row : Row \union {None}] \union {None}
  /\ inputs \in 0..MaxInputs
  /\ \A r, s \in rows : r.id = s.id => r = s
  /\ \A r, s \in secrets : r.id = s.id => r = s
  /\ \A m, n \in mappings : m.uid = n.uid => m = n

\* The service starts with an empty database and a resource of a user.
Init ==
  /\ cr = [uid |-> 1, url |-> 1] /\ cond = "none" /\ pwd = 0 /\ health = "ok" /\ depl = 0
  /\ rows = {} /\ mappings = {} /\ repos = {} /\ ops = {} /\ secrets = {}
  /\ event = TRUE /\ deplEvent = FALSE /\ srl = IdleSRL /\ agent = None /\ inputs = 0
-----------------------------------------------------------------------------
(* Users                                                                   *)

\* A new uid or id is one nobody knows; Uid and Id bound how many are in use at a time.
FreeUids ==
  Uid \ ({m.uid : m \in mappings \union srl.todo} \union {c.uid : c \in {srl.cr} \ {None}})

FreeIds ==
  Id \ ({r.id : r \in rows \union secrets} \union {m.row : m \in mappings \union srl.todo}
        \union ops \union {srl.id} \union {a.id : a \in {agent} \ {None}})

NewUid == CHOOSE n \in FreeUids : TRUE

NewId == CHOOSE n \in FreeIds : TRUE

Input == inputs < MaxInputs /\ inputs' = inputs + 1

CreateCredential ==
  /\ Input
  /\ FreeUids # {}
  /\ cr = None /\ cr' = [uid |-> NewUid, url |-> 1] /\ cond' = "none" /\ event' = TRUE
  /\ UNCHANGED <<pwd, health, depl, tables, cluster, deplEvent, srl>>

ChangeURL ==
  /\ Input
  /\ cr # None /\ cr' = [cr EXCEPT !.url = 3 - @] /\ event' = TRUE
  /\ UNCHANGED <<pwd, health, depl, cond, tables, cluster, deplEvent, srl>>

DeleteCredential ==
  /\ Input
  /\ cr # None /\ cr' = None /\ cond' = "none" /\ event' = TRUE
  /\ UNCHANGED <<pwd, health, depl, tables, cluster, deplEvent, srl>>

\* findSecretsForRepositoryCredential: a change of the secret is an event of the resource.
ChangeSecret(p, h) ==
  /\ Input
  /\ pwd' = p /\ health' = h /\ event' = (event \/ cr # None)
  /\ UNCHANGED <<cr, depl, cond, tables, cluster, deplEvent, srl>>

\* The repository stops, or starts again, to accept the password: nobody hears of it.
ChangeRepository ==
  /\ Input
  /\ health # "missing" /\ health' = IF health = "ok" THEN "invalid" ELSE "ok"
  /\ UNCHANGED <<cr, pwd, depl, cond, tables, cluster, event, deplEvent, srl>>

ChangeDeployment(url) ==
  /\ Input
  /\ url # depl /\ depl' = url /\ deplEvent' = TRUE
  /\ UNCHANGED <<cr, pwd, health, cond, tables, cluster, event, srl>>

\* Somebody deletes a repository secret from the Argo CD namespace.
DeleteRepositorySecret(s) ==
  /\ Input
  /\ secrets' = secrets \ {s}
  /\ UNCHANGED <<user, cond, tables, ops, agent, event, deplEvent, srl>>
-----------------------------------------------------------------------------
(* The shared resource loop                                                *)

\* The AppProjectRepository rows of the namespace, from what there is now.
reconcileAppProjectRepositories ==
  (IF cr = None THEN {} ELSE {cr.url}) \union ({depl} \ {0})

RowOf(id) == {r \in rows : r.id = id}

\* The row that belongs to a resource, 0 if there is none.
CurrentRow(c) ==
  LET ms == {m \in mappings : m.uid = c.uid}
  IN IF ms = {} THEN 0 ELSE (CHOOSE m \in ms : TRUE).row

\* The call of the runner of the deployment.
ReconcileProjects ==
  /\ srl.pc = "idle" /\ deplEvent
  /\ repos' = reconcileAppProjectRepositories /\ deplEvent' = FALSE
  /\ UNCHANGED <<user, cond, rows, mappings, cluster, event, srl, inputs>>

\* internalProcessMessage_ReconcileRepositoryCredential reads the resource, and the
\* mappings of its name that are not its own.
StartCall ==
  /\ srl.pc = "idle" /\ event /\ event' = FALSE
  /\ srl' = [IdleSRL EXCEPT !.pc = "clean", !.cr = cr, !.cond = cond,
                            !.url = IF cr = None THEN 0 ELSE cr.url,
                            !.todo = {m \in mappings : cr = None \/ m.uid # cr.uid}]
  /\ UNCHANGED <<user, cond, tables, cluster, deplEvent, inputs>>

\* deleteRepoCredFromDB
CleanMapping(m) ==
  /\ srl.pc = "clean" /\ m \in srl.todo
  /\ rows' = rows \ RowOf(m.row)
  /\ repos' = IF RowOf(m.row) = {} THEN repos ELSE reconcileAppProjectRepositories
  /\ srl' = [srl EXCEPT !.pc = IF RowOf(m.row) = {} THEN "unmap" ELSE "cleanOp", !.id = m.row]
  /\ UNCHANGED <<user, cond, mappings, cluster, event, deplEvent, inputs>>

\* createRepoCredOperation: an operation that waits already is taken instead, and then
\* nobody waits for its end.
CreateOperation(next) ==
  /\ ops' = ops \union {srl.id}
  /\ srl' = IF srl.id \in ops
            THEN IF next = "idle" THEN IdleSRL ELSE [srl EXCEPT !.pc = next]
            ELSE [srl EXCEPT !.pc = "wait", !.next = next]

InformOfDeletion ==
  /\ srl.pc = "cleanOp" /\ CreateOperation("unmap")
  /\ UNCHANGED <<user, cond, tables, secrets, agent, event, deplEvent, inputs>>

InProgress(id) == agent # None /\ agent.id = id

\* waitForOperationToComplete
Waited ==
  /\ srl.pc = "wait" /\ srl.id \notin ops /\ ~InProgress(srl.id)
  /\ srl' = IF srl.next = "idle" THEN IdleSRL ELSE [srl EXCEPT !.pc = srl.next]
  /\ UNCHANGED <<user, cond, tables, cluster, event, deplEvent, inputs>>

DeleteMapping ==
  /\ srl.pc = "unmap"
  /\ mappings' = {m \in mappings : m.row # srl.id}
  /\ srl' = [srl EXCEPT !.pc = "clean", !.todo = {m \in @ : m.row # srl.id}, !.id = 0]
  /\ UNCHANGED <<user, cond, rows, repos, cluster, event, deplEvent, inputs>>

\* A call that fails is retried by the task retry loop.
Fail == srl' = IdleSRL /\ event' = TRUE

Cleaned ==
  /\ srl.pc = "clean" /\ srl.todo = {}
  /\ srl' = IF srl.cr = None THEN IdleSRL ELSE [srl EXCEPT !.pc = "validate"]
  /\ UNCHANGED <<user, cond, tables, cluster, event, deplEvent, inputs>>

\* generateRepositoryCredentialsConditions; for a secret that is missing the loop passes
\* an empty one, whose type is wrong, and the status job none at all.
ConditionFor(h, missing) ==
  CASE h = "ok" -> "valid" [] h = "invalid" -> "invalid" [] OTHER -> missing

\* UpdateGitopsDeploymentRepositoryCredentialStatus: the resource is read again before
\* its conditions are written, and it is the new one that the call goes on with, though
\* with the URL and the mapping of the old one.
Validate ==
  /\ srl.pc = "validate"
  /\ LET c == ConditionFor(health, "badType")
         latest == IF c = srl.cond THEN srl.cr ELSE cr
     IN /\ cond' = IF latest = None \/ c = srl.cond THEN cond ELSE c
        /\ IF latest = None \/ health # "ok" THEN Fail
           ELSE /\ srl' = [srl EXCEPT !.cr = latest, !.pwd = pwd, !.id = CurrentRow(srl.cr),
                                      !.pc = IF CurrentRow(srl.cr) = 0 THEN "create" ELSE "compare"]
                /\ UNCHANGED event
  /\ UNCHANGED <<user, tables, cluster, deplEvent, inputs>>

CreateRow ==
  /\ srl.pc = "create" /\ FreeIds # {}
  /\ rows' = rows \union {[id |-> NewId, url |-> srl.url, pwd |-> srl.pwd]}
  /\ srl' = [srl EXCEPT !.pc = "project", !.id = NewId]
  /\ UNCHANGED <<user, cond, mappings, repos, cluster, event, deplEvent, inputs>>

ProcessAppProjectRepository ==
  /\ srl.pc = "project"
  /\ repos' = reconcileAppProjectRepositories /\ srl' = [srl EXCEPT !.pc = "mapping"]
  /\ UNCHANGED <<user, cond, rows, mappings, cluster, event, deplEvent, inputs>>

CreateMapping ==
  /\ srl.pc = "mapping"
  /\ mappings' = mappings \union {[uid |-> srl.cr.uid, row |-> srl.id]}
  /\ srl' = [srl EXCEPT !.pc = "createOp"]
  /\ UNCHANGED <<user, cond, rows, repos, cluster, event, deplEvent, inputs>>

InformOfCreation ==
  /\ srl.pc = "createOp" /\ CreateOperation("idle")
  /\ UNCHANGED <<user, cond, tables, secrets, agent, event, deplEvent, inputs>>

\* the secret is not compared
compareAndModify_urlOnly(r) == [r EXCEPT !.url = srl.cr.url]

\* compareAndModifyClusterResourceWithDatabaseRow
compareAndModify(r) == [r EXCEPT !.url = srl.cr.url, !.pwd = srl.pwd]

\* A mapping whose row is gone is deleted, and the call fails.
CompareRow ==
  /\ srl.pc = "compare"
  /\ IF RowOf(srl.id) = {}
     THEN /\ mappings' = {m \in mappings : m.row # srl.id}
          /\ Fail /\ UNCHANGED repos
     ELSE /\ repos' = reconcileAppProjectRepositories
          /\ srl' = IF repos' # repos \/ \E r \in RowOf(srl.id) : compareAndModify(r) # r
                    THEN [srl EXCEPT !.pc = "update"] ELSE IdleSRL
          /\ UNCHANGED <<mappings, event>>
  /\ UNCHANGED <<user, cond, rows, cluster, deplEvent, inputs>>

UpdateRow ==
  /\ srl.pc = "update"
  /\ rows' = {IF r.id = srl.id THEN compareAndModify(r) ELSE r : r \in rows}
  /\ srl' = [srl EXCEPT !.pc = "updateOp"]
  /\ UNCHANGED <<user, cond, mappings, repos, cluster, event, deplEvent, inputs>>

\* createOperationInternal refuses an operation whose namespace is not that of the Argo CD
\* instance, and this one is created in the namespace of the resource.
InformOfUpdate ==
  /\ srl.pc = "updateOp" /\ Fail
  /\ UNCHANGED <<user, cond, tables, cluster, deplEvent, inputs>>

\* A call to the database or to a cluster fails.  A row whose mapping cannot be created
\* is deleted again.
CallFails ==
  /\ srl.pc # "idle" /\ Input /\ Fail
  /\ rows' = IF srl.pc = "mapping" THEN rows \ RowOf(srl.id) ELSE rows
  /\ UNCHANGED <<user, cond, mappings, repos, cluster, deplEvent>>

\* The backend restarts: events come for the resources there are.
BackendRestarts ==
  /\ Input
  /\ srl' = IdleSRL /\ event' = (cr # None) /\ deplEvent' = (depl # 0)
  /\ UNCHANGED <<user, cond, tables, cluster>>
-----------------------------------------------------------------------------
(* The jobs of the backend                                                 *)

\* reconcileRepositoryCredentialStatus finds resources by the name in a mapping.
ReconcileStatus ==
  /\ mappings # {} /\ cr # None
  /\ cond # ConditionFor(health, "notFound") /\ cond' = ConditionFor(health, "notFound")
  /\ UNCHANGED <<user, tables, cluster, event, deplEvent, srl, inputs>>

\* cleanOrphanedEntriesfromTable_ACTDM_RepositoryCredential; its operation is in the
\* namespace of the resource and is refused.  If the job fails halfway the row stays.
CleanOrphanedMapping(m) ==
  /\ ~(cr # None /\ cr.uid = m.uid)
  /\ mappings' = mappings \ {m}
  /\ \/ rows' = rows \ RowOf(m.row) /\ UNCHANGED inputs
     \/ Input /\ UNCHANGED rows
  /\ UNCHANGED <<user, cond, repos, cluster, event, deplEvent, srl>>

\* Rows of the last hour are left alone: no call takes an hour.
RowOrphaned(r) == (~\E m \in mappings : m.row = r.id) /\ srl.id # r.id

\* cleanOrphanedEntriesfromTable_RepositoryCredential: its operation is of type
\* Application, for which the cluster-agent finds nothing to do.
CleanOrphanedRow(r) ==
  /\ RowOrphaned(r) /\ rows' = rows \ {r}
  /\ UNCHANGED <<user, cond, mappings, repos, cluster, event, deplEvent, srl, inputs>>
-----------------------------------------------------------------------------
(* The cluster-agent                                                       *)

\* processOperation_RepositoryCredentials reads the row ...
ReadRow(id) ==
  /\ agent = None /\ id \in ops
  /\ ops' = ops \ {id}
  /\ agent' = [id |-> id, row |-> IF RowOf(id) = {} THEN None ELSE CHOOSE r \in RowOf(id) : TRUE]
  /\ UNCHANGED <<user, cond, tables, secrets, event, deplEvent, srl, inputs>>

\* an operation on a row that is gone is tried again until there is a secret to delete
Completes_ifFound == agent.row # None \/ \E s \in secrets : s.id = agent.id

\* deleteArgoCDSecretLeftovers is content with what it finds.
Completes == TRUE

\* ... and deletes what is left of it, or writes the secret.
WriteSecret ==
  /\ agent # None
  /\ secrets' = {s \in secrets : s.id # agent.id} \union ({agent.row} \ {None})
  /\ agent' = None
  /\ ops' = IF Completes THEN ops ELSE ops \union {agent.id}
  /\ UNCHANGED <<user, cond, tables, event, deplEvent, srl, inputs>>

OperationFails ==
  /\ agent # None /\ Input
  /\ agent' = None /\ ops' = ops \union {agent.id}
  /\ UNCHANGED <<user, cond, tables, secrets, event, deplEvent, srl>>

\* orphans are looked for among the secrets of rows only
SecretOrphaned_mapped(s) == \E m \in mappings : m.row = s.id

SecretOrphaned(s) == RowOf(s.id) = {}

\* cleanOrphanedCRsfromCluster_Secret_Delete
CleanOrphanedSecret(s) ==
  /\ SecretOrphaned(s) /\ secrets' = secrets \ {s}
  /\ UNCHANGED <<user, cond, tables, ops, agent, event, deplEvent, srl, inputs>>

\* recreateClusterSecrets_RepositoryCredentials
RecreateSecret(r) ==
  /\ ~\E s \in secrets : s.id = r.id
  /\ srl.id # r.id /\ ~InProgress(r.id) /\ r.id \notin ops /\ ops' = ops \union {r.id}
  /\ UNCHANGED <<user, cond, tables, secrets, agent, event, deplEvent, srl, inputs>>
-----------------------------------------------------------------------------
UserStep ==
  \/ CreateCredential \/ ChangeURL \/ DeleteCredential \/ ChangeRepository
  \/ ChangeSecret(1 - pwd, "ok") \/ ChangeSecret(pwd, "missing")
  \/ \E url \in 0..2 : ChangeDeployment(url)
  \/ \E s \in secrets : DeleteRepositorySecret(s)

SharedResourceLoop ==
  \/ StartCall \/ Cleaned \/ \E m \in srl.todo : CleanMapping(m)
  \/ InformOfDeletion \/ Waited \/ DeleteMapping \/ Validate \/ CreateRow
  \/ ProcessAppProjectRepository \/ CreateMapping \/ InformOfCreation \/ CompareRow \/ UpdateRow
  \/ InformOfUpdate

DatabaseReconciler ==
  \/ \E m \in mappings : CleanOrphanedMapping(m)
  \/ \E r \in rows : CleanOrphanedRow(r)

Agent ==
  \/ \E id \in ops : ReadRow(id)
  \/ WriteSecret
  \/ \E s \in secrets : CleanOrphanedSecret(s)
  \/ \E r \in rows : RecreateSecret(r)

Next ==
  \/ UserStep \/ SharedResourceLoop \/ ReconcileProjects \/ ReconcileStatus
  \/ DatabaseReconciler \/ Agent
  \/ CallFails \/ BackendRestarts \/ OperationFails

\* Every loop and every periodic job goes on with what it has to do.
Fairness ==
  /\ WF_vars(SharedResourceLoop) /\ SF_vars(ReconcileProjects) /\ WF_vars(ReconcileStatus)
  /\ WF_vars(DatabaseReconciler) /\ WF_vars(Agent)

Spec == Init /\ [][Next]_vars /\ Fairness
-----------------------------------------------------------------------------
(* Properties                                                              *)

\* Once the request of a resource has been served, with a secret that works, exactly one
\* row is its own and has its URL and the content of its secret (the steps 4 to 7 of
\* internalProcessMessage_ReconcileRepositoryCredential, whatever failed before).
RowIsCurrent ==
  ~event /\ srl.pc = "idle" /\ cr # None /\ health = "ok" =>
    \E r \in rows : r.id = CurrentRow(cr) /\ r.url = cr.url /\ r.pwd = pwd

\* Once their requests have been served, the AppProject of the namespace allows the
\* repositories of the credential and of the deployment (reconcileAppProjectRepositories,
\* which works on the lists of the moment, for whoever called).
ReposAllowed ==
  ~event /\ ~deplEvent /\ srl.pc = "idle" /\ health = "ok" =>
    /\ cr # None => cr.url \in repos
    /\ depl # 0 => depl \in repos

\* The loop that all workspaces share comes back from every call: the operations it waits
\* for end (waitForOperationToComplete has no timeout).
LoopReturns == []<>(srl.pc = "idle")

\* Whatever the order of calls, failures and sweeps, in the end every row belongs to the
\* resource and has a secret in Argo CD, no secret is left without a row, and the
\* condition of the resource says whether its credentials work.
Heals ==
  <>[](/\ \A r \in rows : cr # None /\ r.id = CurrentRow(cr)
       /\ {s.id : s \in secrets} = {r.id : r \in rows}
       /\ cr # None => (cond = "valid" <=> health = "ok"))

\* workspace_resource_event_loop.go:256: "Then, in all 3 cases, create an Operation to
\* update the cluster-agent": the secret of Argo CD gets what the row of the resource has.
SecretIsCurrent == <>[](\A r \in rows, s \in secrets : r.id = s.id => r = s)

\* Rows are well formed, and once the requests are served they are those of the resources.
CredentialInv == TypeOK /\ RowIsCurrent /\ ReposAllowed
=============================================================================
