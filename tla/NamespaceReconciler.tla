------------------------ MODULE NamespaceReconciler ------------------------
(***************************************************************************)
(* The periodic sweep of the cluster-agent over the Application table      *)
(* (cluster-agent/controllers/argoproj.io/namespace_reconciler.go,         *)
(* syncCRsWithDB_Applications): it lists the Argo CD Applications, walks   *)
(* the table in batches selected by OFFSET, makes an Operation for every   *)
(* row the cluster disagrees with, and finally has a goroutine delete the  *)
(* listed Applications whose row it has not met.  Meanwhile the backend    *)
(* inserts, edits and deletes rows and the agent carries out Operations.   *)
(*                                                                         *)
(* Abstracted: what an Operation goes through (OperationProtocol) is one   *)
(* step, ProcessOperation, that may fail.  The contents of a row are a     *)
(* version and whether its managed_environment_id is set; an Argo CD       *)
(* Application is the version it was made from, 0 if there is none.        *)
(* Applications without the databaseID label are not listed here: both     *)
(* the sweep and the deletion skip them.  If the deleting goroutine of an  *)
(* earlier cycle is still at work, its remaining Applications are in the   *)
(* same set as those of the next.                                          *)
(***************************************************************************)
EXTENDS Naturals, Sequences, FiniteSets

CONSTANTS
  Apps,            \* Application ids (UUIDs: an id is used for one row only)
  BatchSize,       \* appRowBatchSize: 100 in the code
  MaxVersion,      \* bounds the edits of a row
  MaxBatchFaults,  \* bounds the batch queries that fail
  MaxFaults        \* bounds the other failures, restarts and manual changes

ASSUME BatchSizeAssumption == BatchSize \in Nat \ {0}
ASSUME BoundsAssumption ==
  MaxVersion \in Nat \ {0} /\ MaxBatchFaults \in Nat /\ MaxFaults \in Nat

VARIABLES
  rows,         \* the Application table in the order of seq_id
  contents,     \* contents[a]: version and environment of a's row
  argo,         \* argo[a]: the version the Argo CD Application was made from
  pending,      \* rows for which an Operation has been created
  pc,           \* the sweep: "idle", "batch" (fetch the next one) or "row"
  listed,       \* argoApplications: the Applications listed first
  processed,    \* processedApplicationIds
  offset,
  batch,        \* what is left of the batch of rows that was fetched
  doomed,       \* Applications the deleting goroutine has yet to delete
  disturbed,    \* history: during this cycle a batch query failed, or a row was
                \* deleted while the table was being walked
  suspect,      \* history: those of doomed that a disturbed cycle decided on
  batchFaults, faults

dbVars == <<rows, contents>>
sweepVars == <<pc, listed, processed, offset, batch>>
faultVars == <<batchFaults, faults>>
history == <<disturbed, suspect>>
vars == <<rows, contents, argo, pending, pc, listed, processed, offset, batch, doomed,
          disturbed, suspect, batchFaults, faults>>

Live == {rows[i] : i \in DOMAIN rows}

BatchEntry == [app : Apps, ver : 1..MaxVersion, env : BOOLEAN]

TypeOK ==
  /\ rows \in Seq(Apps)
  /\ contents \in [Apps -> [ver : 0..MaxVersion, env : BOOLEAN]]
  /\ argo \in [Apps -> 0..MaxVersion]
  /\ pending \subseteq Apps
  /\ pc \in {"idle", "batch", "row"}
  /\ listed \subseteq Apps
  /\ processed \subseteq Apps
  /\ offset \in Nat
  /\ batch \in Seq(BatchEntry)
  /\ doomed \subseteq Apps
  /\ disturbed \in BOOLEAN
  /\ suspect \subseteq doomed
  /\ batchFaults \in 0..MaxBatchFaults
  /\ faults \in 0..MaxFaults

Init ==
  /\ rows = <<>>
  /\ contents = [a \in Apps |-> [ver |-> 0, env |-> TRUE]]
  /\ argo = [a \in Apps |-> 0]
  /\ pending = {}
  /\ pc = "idle"
  /\ listed = {}
  /\ processed = {}
  /\ offset = 0
  /\ batch = <<>>
  /\ doomed = {}
  /\ disturbed = FALSE
  /\ suspect = {}
  /\ batchFaults = 0
  /\ faults = 0

Fault == faults < MaxFaults /\ faults' = faults + 1 /\ UNCHANGED batchFaults
-----------------------------------------------------------------------------
(* Mutants: plausible bugs, each of the shape of an operator below.        *)

\* only the rows of the last batch are remembered
Processed_lastBatch(e) == {e.app}

\* only missing Applications are repaired
NeedsOperation_onlyMissing(e) == argo[e.app] = 0 /\ e.env
-----------------------------------------------------------------------------
(* The backend: GitOpsDeployments come, change and go.  Each change makes  *)
(* an Operation for the row, unless that fails.                            *)

OperationMade(a) ==
  \/ pending' = pending \union {a} /\ UNCHANGED faultVars
  \/ UNCHANGED pending /\ Fault

InsertRow(a) ==
  /\ contents[a].ver = 0
  /\ rows' = Append(rows, a)
  /\ contents' = [contents EXCEPT ![a].ver = 1]
  /\ OperationMade(a)
  /\ UNCHANGED <<argo, sweepVars, doomed, history>>

\* The managed environment of a row may be deleted, or set again.
EditRow(a) ==
  /\ a \in Live
  /\ contents[a].ver < MaxVersion
  /\ \E env \in BOOLEAN :
       contents' = [contents EXCEPT ![a] = [ver |-> contents[a].ver + 1, env |-> env]]
  /\ OperationMade(a)
  /\ UNCHANGED <<rows, argo, sweepVars, doomed, history>>

DeleteRow(a) ==
  /\ \E i \in DOMAIN rows :
       rows[i] = a /\ rows' = SubSeq(rows, 1, i - 1) \o SubSeq(rows, i + 1, Len(rows))
  /\ OperationMade(a)
  /\ disturbed' = (disturbed \/ pc # "idle")
  /\ UNCHANGED <<contents, argo, sweepVars, doomed, suspect>>
-----------------------------------------------------------------------------
(* The agent carries out an Operation: processOperation_Application makes   *)
(* the cluster agree with the row as it is then.                            *)

ArgoAfterOperation(a) ==
  IF a \notin Live THEN 0
  ELSE IF argo[a] = 0 /\ ~contents[a].env THEN 0
  ELSE contents[a].ver

ProcessOperation(a) ==
  /\ a \in pending
  /\ pending' = pending \ {a}
  /\ \/ argo' = [argo EXCEPT ![a] = ArgoAfterOperation(a)] /\ UNCHANGED faultVars
     \/ UNCHANGED argo /\ Fault
  /\ UNCHANGED <<dbVars, sweepVars, doomed, history>>
-----------------------------------------------------------------------------
(* The sweep: syncCRsWithDB_Applications.                                   *)

\* A failure to list the Applications ends the cycle before it has done anything.
StartCycle ==
  /\ pc = "idle"
  /\ pc' = "batch"
  /\ listed' = {a \in Apps : argo[a] # 0}
  /\ processed' = {}
  /\ offset' = 0
  /\ disturbed' = FALSE
  /\ UNCHANGED <<dbVars, argo, pending, batch, doomed, suspect, faultVars>>

BatchEntryOf(a) == [app |-> a, ver |-> contents[a].ver, env |-> contents[a].env]

\* GetApplicationBatch: ORDER BY seq_id LIMIT BatchSize OFFSET offset
GetApplicationBatch ==
  LET last == IF offset + BatchSize < Len(rows) THEN offset + BatchSize ELSE Len(rows)
  IN  [i \in 1..(IF offset < last THEN last - offset ELSE 0) |-> BatchEntryOf(rows[offset + i])]

\* cleanOrphanedCRsfromCluster_Applications
Orphans == listed \ processed

EndCycle ==
  /\ doomed' = doomed \union Orphans
  /\ suspect' = IF disturbed' THEN suspect \union Orphans ELSE suspect
  /\ pc' = "idle"
  /\ listed' = {} /\ processed' = {} /\ offset' = 0
  /\ UNCHANGED batch

\* An empty batch means that the table has been walked.
FetchBatch ==
  /\ pc = "batch"
  /\ \/ /\ GetApplicationBatch = <<>>
        /\ UNCHANGED disturbed
        /\ EndCycle
     \/ /\ GetApplicationBatch # <<>>
        /\ batch' = GetApplicationBatch
        /\ offset' = offset + BatchSize
        /\ pc' = "row"
        /\ UNCHANGED <<listed, processed, doomed, history>>
  /\ UNCHANGED <<dbVars, argo, pending, faultVars>>

\* The query fails: the loop is left, and the orphans are looked for as usual.
BatchFails ==
  /\ pc = "batch"
  /\ batchFaults < MaxBatchFaults
  /\ batchFaults' = batchFaults + 1
  /\ disturbed' = TRUE
  /\ EndCycle
  /\ UNCHANGED <<dbVars, argo, pending, faults>>

\* e is the row as it was when its batch was fetched.  A row without environment
\* is not recreated, but always looked at again by the agent if it is there.
NeedsOperation(e) ==
  IF argo[e.app] = 0 THEN e.env ELSE ~e.env \/ argo[e.app] # e.ver

Processed(e) == processed \union {e.app}

processApplicationRowToSyncWithCluster ==
  /\ pc = "row"
  /\ LET e == Head(batch) IN
       /\ processed' = Processed(e)
       /\ \/ NeedsOperation(e) /\ OperationMade(e.app)
          \/ ~NeedsOperation(e) /\ UNCHANGED <<pending, faultVars>>
  /\ batch' = Tail(batch)
  /\ pc' = IF Tail(batch) = <<>> THEN "batch" ELSE "row"
  /\ UNCHANGED <<dbVars, argo, listed, offset, doomed, history>>

\* DeleteArgoCDApplication, in the goroutine the sweep has started.
DeleteArgoCDApplication(a) ==
  /\ a \in doomed
  /\ doomed' = doomed \ {a}
  /\ suspect' = suspect \ {a}
  /\ \/ argo' = [argo EXCEPT ![a] = 0] /\ UNCHANGED faultVars
     \/ UNCHANGED argo /\ Fault
  /\ UNCHANGED <<dbVars, pending, sweepVars, disturbed>>
-----------------------------------------------------------------------------
(* Someone deletes the Argo CD Application; the agent restarts.             *)

ApplicationIsDeleted(a) ==
  /\ argo[a] # 0
  /\ argo' = [argo EXCEPT ![a] = 0]
  /\ Fault
  /\ UNCHANGED <<dbVars, pending, sweepVars, doomed, history>>

AgentRestarts ==
  /\ Fault
  /\ pc' = "idle" /\ listed' = {} /\ processed' = {} /\ offset' = 0 /\ batch' = <<>>
  /\ doomed' = {} /\ disturbed' = FALSE /\ suspect' = {}
  /\ UNCHANGED <<dbVars, argo, pending>>
-----------------------------------------------------------------------------
Next ==
  \/ \E a \in Apps :
       \/ InsertRow(a) \/ EditRow(a) \/ DeleteRow(a)
       \/ ProcessOperation(a)
       \/ DeleteArgoCDApplication(a)
       \/ ApplicationIsDeleted(a)
  \/ StartCycle
  \/ FetchBatch
  \/ BatchFails
  \/ processApplicationRowToSyncWithCluster
  \/ AgentRestarts

SafetySpec == Init /\ [][Next]_vars

(***************************************************************************)
(* Fairness.  The timer starts a cycle again and again, its goroutines and *)
(* those of the agent's tasks are scheduled.  Nothing is assumed about the *)
(* users, and failures are finitely many.                                  *)
(***************************************************************************)
Fairness ==
  /\ WF_vars(StartCycle)
  /\ WF_vars(FetchBatch)
  /\ WF_vars(processApplicationRowToSyncWithCluster)
  /\ \A a \in Apps : WF_vars(ProcessOperation(a)) /\ WF_vars(DeleteArgoCDApplication(a))

Spec == SafetySpec /\ Fairness
-----------------------------------------------------------------------------
(* Properties *)

\* What the sweep guarantees of "delete applications which are not having entry in DB"
\* (namespace_reconciler.go:369): when every batch query of the cycle succeeded
\* and no row was deleted while the table was walked, only Applications without
\* row are deleted, whatever is inserted, edited and processed during the cycle,
\* and however late the deleting goroutine gets to it (namespace_reconciler.go:
\* 109 lists the Applications before the first row is read).
UndisturbedSweepIsSafe == (doomed \ suspect) \intersect Live = {}

\* Once rows are no longer edited and nothing fails any more, the cluster ends up
\* agreeing with the table: every row that has an environment has its
\* Application, in the row's version, and there is no Application without a row
\* (docs/self-healing-mechanism.md, E and F).  What the sweep deletes wrongly it
\* recreates in a later cycle.
Synced(a) ==
  IF a \notin Live THEN argo[a] = 0
  ELSE argo[a] = contents[a].ver \/ (argo[a] = 0 /\ ~contents[a].env)

SelfHeals == <>[](\A a \in Apps : Synced(a))

\* The two together: values of the right kind, and a sweep that is safe when undisturbed.
NamespaceInv == TypeOK /\ UndisturbedSweepIsSafe
=============================================================================
