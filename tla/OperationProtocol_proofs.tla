---------------------- MODULE OperationProtocol_proofs ----------------------
(***************************************************************************)
(* Proofs about OperationProtocol, for any number of resources, operations,*)
(* edits and faults.                                                       *)
(*                                                                         *)
(* The argument.  A task of resource r runs alone (RetryQueue), so nothing *)
(* but that task changes the state of its operation or the Argo CD         *)
(* Application of r, except that the namespace reconciler may delete an    *)
(* Application whose row is gone.  An id is only reused when nothing       *)
(* refers to it, so the operation a task runs is still one of its          *)
(* resource.  What the task read from the row is at least as recent as     *)
(* what its operation, and every operation completed before, asked for.    *)
(***************************************************************************)
EXTENDS OperationProtocol, TLAPS

\* What the type of a client and of a task leaves open: an id that is used is
\* there, and an outcome that is recorded was set.
LocalsSet ==
  /\ \A r \in Resources, o \in Owners :
       client[r][o].pc = "createCR" => client[r][o].opId # NoOp
  /\ \A r \in Resources : task[r].pc = "update" => task[r].result # "none"

Types == TypeOK /\ LocalsSet

\* No operation asks for an edit that is still to come.
NeedsBelowRow == \A i \in Ids : Exists(i) => op[i].need <= row[op[i].res]

\* The operations in the queue of r are operations on r.
QueuedUnderResource ==
  \A r \in Resources, i \in Ids :
    Exists(i) /\ i \in {waiting[r], running[r]} => op[i].res = r

\* A task exists exactly while the queue says that one runs.
TaskWhileRunning ==
  \A r \in Resources : running[r] \in Ids <=> task[r].pc # "idle"

\* Once loaded, the operation of a task is In_Progress until the task ends.
LoadedInProgress ==
  \A r \in Resources :
    /\ task[r].pc \in {"read", "apply", "update"}
    /\ Exists(running[r])
    => op[running[r]].state = "In_Progress"

\* What a task is about to apply is recent enough: it comes from the row, it is
\* not older than what Argo CD has, nor than what its own operation and the
\* completed ones ask for.
SeenRecentEnough ==
  \A r \in Resources : task[r].pc = "apply" =>
    /\ task[r].seen <= row[r]
    /\ argo[r] # Deleted => argo[r] <= task[r].seen
    /\ \A i \in Ids :
         /\ Exists(i) /\ op[i].res = r
         /\ i = running[r] \/ op[i].state = "Completed"
         => op[i].need <= task[r].seen

ArgoBelowRow == \A r \in Resources : argo[r] <= row[r]

\* A task that is about to record success has applied what its operation asks.
AppliedBeforeRecorded ==
  \A r \in Resources :
    /\ task[r].pc = "update" /\ task[r].result = "Completed"
    /\ Exists(running[r])
    => op[running[r]].need <= argo[r]

CoreInv ==
  /\ NeedsBelowRow
  /\ QueuedUnderResource
  /\ TaskWhileRunning
  /\ LoadedInProgress
  /\ SeenRecentEnough
  /\ ArgoBelowRow
  /\ AppliedBeforeRecorded
  /\ CompletedIsApplied

IInv == Types /\ CoreInv
-----------------------------------------------------------------------------
(* Type correctness *)

ClientRecord == [pc : ClientPC, found : SUBSET Ids, opId : Ids \union {NoOp}]
TaskRecord == [pc : {"idle", "load", "read", "apply", "update"},
               seen : 0..Deleted,
               result : {"none", "retry"} \union Terminal]

\* A step that gives one client a new record.
LEMMA ClientTypes ==
  ASSUME Types, NEW r \in Resources, NEW o \in Owners,
         NEW c \in ClientRecord, c.pc = "createCR" => c.opId # NoOp,
         client' = [client EXCEPT ![r][o] = c],
         UNCHANGED task
  PROVE  /\ client' \in [Resources -> [Owners -> ClientRecord]]
         /\ LocalsSet'
<1>1. client \in [Resources -> [Owners -> ClientRecord]]
  BY DEF Types, TypeOK, ClientRecord
<1>2. /\ client' \in [Resources -> [Owners -> ClientRecord]]
      /\ \A q \in Resources, p \in Owners :
           client'[q][p] = IF q = r /\ p = o THEN c ELSE client[q][p]
  BY <1>1
<1> QED
  BY <1>2 DEF Types, LocalsSet

\* The queue stays well typed when it is offered a task.
LEMMA OfferType ==
  ASSUME TypeOK, NEW r \in Resources, NEW i \in Ids \union {NoOp}
  PROVE  Queue!Offer(r, i) \in [Resources -> Ids \union {NoOp}]
BY DEF TypeOK, Queue!Offer

\* The end of a task.
LEMMA FinishTypes ==
  ASSUME Types, NEW r \in Resources, NEW retry \in BOOLEAN,
         FinishTask(r, retry), UNCHANGED client
  PROVE  /\ waiting' \in [Resources -> Ids \union {NoOp}]
         /\ running' \in [Resources -> Ids \union {NoOp}]
         /\ task' \in [Resources -> TaskRecord]
         /\ LocalsSet'
<1>1. running[r] \in Ids \union {NoOp}
  BY DEF Types, TypeOK
<1>2. Queue!Offer(r, running[r]) \in [Resources -> Ids \union {NoOp}]
  BY <1>1, OfferType DEF Types
<1>3. /\ waiting' \in [Resources -> Ids \union {NoOp}]
      /\ running' \in [Resources -> Ids \union {NoOp}]
  BY <1>2 DEF FinishTask, Queue!Finish, Types, TypeOK
<1>4. /\ task' \in [Resources -> TaskRecord]
      /\ LocalsSet'
  BY DeletedAssumption DEF FinishTask, IdleTask, TaskRecord, Types, TypeOK, LocalsSet
<1> QED
  BY <1>3, <1>4

\* A client that moves to another step keeps its type.
LEMMA GotoTypes ==
  ASSUME Types, NEW r \in Resources, NEW o \in Owners, NEW pc \in ClientPC,
         pc = "createCR" => client[r][o].opId # NoOp,
         Goto(r, o, pc), UNCHANGED task
  PROVE  /\ client' \in [Resources -> [Owners -> ClientRecord]]
         /\ LocalsSet'
<1> DEFINE c == [client[r][o] EXCEPT !.pc = pc]
<1>1. client[r][o] \in ClientRecord
  BY DEF Types, TypeOK, ClientRecord
<1>2. c \in ClientRecord /\ (c.pc = "createCR" => c.opId # NoOp)
  BY <1>1 DEF ClientRecord
<1>3. client' = [client EXCEPT ![r][o] = c]
  BY DEF Goto
<1> HIDE DEF c
<1> QED
  BY <1>2, <1>3, ClientTypes

LEMMA ReturnTypes ==
  ASSUME Types, NEW r \in Resources, NEW o \in Owners,
         NEW i \in Ids \union {NoOp}, Return(r, o, i), UNCHANGED task
  PROVE  /\ client' \in [Resources -> [Owners -> ClientRecord]]
         /\ LocalsSet'
<1> DEFINE c == IF o = "user" THEN [pc |-> "returned", found |-> {}, opId |-> i]
                ELSE IdleClient
<1>1. c \in ClientRecord /\ c.pc # "createCR"
  BY DEF ClientRecord, IdleClient, ClientPC
<1>2. client' = [client EXCEPT ![r][o] = c]
  BY DEF Return
<1> HIDE DEF c
<1> QED
  BY <1>1, <1>2, ClientTypes

LEMMA RetryOrExpireTypes ==
  ASSUME Types, NEW r \in Resources, NEW o \in Owners,
         RetryOrExpire(r, o), UNCHANGED task
  PROVE  /\ client' \in [Resources -> [Owners -> ClientRecord]]
         /\ LocalsSet'
<1>1. PICK next \in {"list", "idle"} :
        client' = [client EXCEPT ![r][o] = [IdleClient EXCEPT !.pc = next]]
  BY DEF RetryOrExpire
<1> DEFINE c == [IdleClient EXCEPT !.pc = next]
<1>2. c \in ClientRecord /\ c.pc # "createCR"
  BY DEF ClientRecord, IdleClient, ClientPC
<1>3. client' = [client EXCEPT ![r][o] = c]
  BY <1>1
<1> HIDE DEF c
<1> QED
  BY <1>2, <1>3, ClientTypes

\* Every step of a client keeps the types.
LEMMA ClientStepTypes ==
  ASSUME Types, NEW r \in Resources, NEW o \in Owners,
         ClientStep(r, o) \/ CreateOperationFails(r, o)
  PROVE  Types'
<1> USE DEF ClientRecord
<1>a. "user" \in Owners
  BY DEF Owners
<1>1. CASE ListOperations(r, o)
  <2>1. client' \in [Resources -> [Owners -> ClientRecord]] /\ LocalsSet'
    <3> DEFINE found == {i \in Ids : op[i].state = "Waiting" /\ op[i].owner = o /\ op[i].res = r}
               c == [client[r][o] EXCEPT !.pc = IF found = {} THEN "insert" ELSE "get",
                                         !.found = found]
    <3>1. CASE client' = [client EXCEPT ![r][o].pc = IF found = {} THEN "insert" ELSE "get",
                                       ![r][o].found = found]
      <4>1. client[r][o] \in ClientRecord
        BY DEF Types, TypeOK
      <4>2. c \in ClientRecord /\ c.pc # "createCR"
        <5>1. (IF found = {} THEN "insert" ELSE "get") \in ClientPC /\ found \in SUBSET Ids
          BY DEF ClientPC
        <5> HIDE DEF found
        <5> QED
          BY <4>1, <5>1
      <4>3. client' = [client EXCEPT ![r][o] = c]
        <5> HIDE DEF found
        <5> QED
          BY <3>1, <4>1 DEF Types, TypeOK
      <4> HIDE DEF c
      <4> QED
        BY <1>1, <4>2, <4>3, ClientTypes DEF ListOperations, agentVars
    <3>2. CASE Goto(r, o, "insert")
      BY <1>1, <3>2, GotoTypes DEF ListOperations, agentVars, ClientPC
    <3> HIDE DEF found
    <3> QED
      BY <1>1, <3>1, <3>2 DEF ListOperations, found
  <2> QED
    BY <1>1, <2>1, MaxFaultsAssumption DEF ListOperations, agentVars, Fault, Types, TypeOK
<1>2. CASE UseExistingOperation(r, o)
  <2>1. PICK i \in Ids : Return(r, o, i)
    BY <1>2 DEF UseExistingOperation, Types, TypeOK
  <2>2. client' \in [Resources -> [Owners -> ClientRecord]] /\ LocalsSet'
    BY <1>2, <2>1, ReturnTypes DEF UseExistingOperation, agentVars
  <2> QED
    BY <1>2, <2>2 DEF UseExistingOperation, agentVars, Types, TypeOK
<1>3. CASE NoExistingOperation(r, o)
  <2> DEFINE c == [client[r][o] EXCEPT !.pc = "insert", !.found = {}]
  <2>1. client[r][o] \in ClientRecord
    BY DEF Types, TypeOK
  <2>2. c \in ClientRecord /\ c.pc # "createCR"
    BY <2>1 DEF ClientPC
  <2>3. client' = [client EXCEPT ![r][o] = c]
    BY <1>3, <2>1 DEF NoExistingOperation, Types, TypeOK
  <2> HIDE DEF c
  <2>4. client' \in [Resources -> [Owners -> ClientRecord]] /\ LocalsSet'
    BY <1>3, <2>2, <2>3, ClientTypes DEF NoExistingOperation, agentVars
  <2> QED
    BY <1>3, <2>4, MaxFaultsAssumption
    DEF NoExistingOperation, agentVars, Fault, Types, TypeOK
<1>4. CASE InsertOperationRow(r, o)
  <2>1. PICK i \in Ids :
          /\ op' = [op EXCEPT ![i] = InsertedRow(r, o)]
          /\ client' = [client EXCEPT ![r][o].pc = "createCR", ![r][o].opId = i]
    BY <1>4 DEF InsertOperationRow
  <2> DEFINE c == [client[r][o] EXCEPT !.pc = "createCR", !.opId = i]
  <2>2. client[r][o] \in ClientRecord
    BY DEF Types, TypeOK
  <2>3. c \in ClientRecord /\ c.opId # NoOp
    BY <2>2, IdsAssumption DEF ClientPC
  <2>4. client' = [client EXCEPT ![r][o] = c]
    BY <2>1, <2>2 DEF Types, TypeOK
  <2> HIDE DEF c
  <2>5. client' \in [Resources -> [Owners -> ClientRecord]] /\ LocalsSet'
    BY <1>4, <2>3, <2>4, ClientTypes DEF InsertOperationRow, agentVars
  <2>6. InsertedRow(r, o) \in OperationRow
    BY DEF InsertedRow, OperationRow, States, Types, TypeOK
  <2>7. op' \in [Ids -> OperationRow \union {NoRow}]
    BY <2>1, <2>6 DEF Types, TypeOK
  <2> QED
    BY <1>4, <2>5, <2>7 DEF InsertOperationRow, agentVars, Types, TypeOK
<1>5. CASE CreateOperationCR(r, o)
  <2> DEFINE i == client[r][o].opId
  <2>1. i \in Ids
    BY <1>5 DEF CreateOperationCR, Types, TypeOK, LocalsSet
  <2>2. client' \in [Resources -> [Owners -> ClientRecord]] /\ LocalsSet'
    BY <1>5, <2>1, GotoTypes, ReturnTypes DEF CreateOperationCR, ClientPC
  <2> QED
    BY <1>5, <2>1, <2>2 DEF CreateOperationCR, queueVars, Types, TypeOK
<1>6. CASE PollOperation(r)
  <2>1. client[r]["user"].opId \in Ids \union {NoOp}
    BY <1>a DEF Types, TypeOK
  <2>2. client' \in [Resources -> [Owners -> ClientRecord]] /\ LocalsSet'
    BY <1>6, <1>a, <2>1, ReturnTypes, RetryOrExpireTypes DEF PollOperation, agentVars
  <2> QED
    BY <1>6, <2>2 DEF PollOperation, agentVars, Types, TypeOK
<1>7. CASE CleanupOperationRow(r)
  <2>1. client' \in [Resources -> [Owners -> ClientRecord]] /\ LocalsSet'
    <3>1. IdleClient \in ClientRecord /\ IdleClient.pc # "createCR"
      BY DEF IdleClient, ClientPC
    <3>2. CASE Goto(r, "user", "deleteCR")
      BY <1>7, <1>a, <3>2, GotoTypes DEF CleanupOperationRow, agentVars, ClientPC
    <3>3. CASE client' = [client EXCEPT ![r]["user"] = IdleClient]
      BY <1>7, <1>a, <3>1, <3>3, ClientTypes DEF CleanupOperationRow, agentVars
    <3> QED
      BY <1>7, <3>2, <3>3 DEF CleanupOperationRow
  <2>2. op' \in [Ids -> OperationRow \union {NoRow}]
    BY <1>7 DEF CleanupOperationRow, Types, TypeOK
  <2> QED
    BY <1>7, <2>1, <2>2, MaxFaultsAssumption
    DEF CleanupOperationRow, agentVars, Fault, Types, TypeOK
<1>8. CASE CleanupOperationCR(r)
  <2>1. IdleClient \in ClientRecord /\ IdleClient.pc # "createCR"
    BY DEF IdleClient, ClientPC
  <2>2. client' \in [Resources -> [Owners -> ClientRecord]] /\ LocalsSet'
    BY <1>8, <1>a, <2>1, ClientTypes DEF CleanupOperationCR, agentVars
  <2> QED
    BY <1>8, <2>2, MaxFaultsAssumption
    DEF CleanupOperationCR, agentVars, Fault, Types, TypeOK
<1>9. CASE CreateOperationFails(r, o)
  <2>1. client' \in [Resources -> [Owners -> ClientRecord]] /\ LocalsSet'
    BY <1>9, RetryOrExpireTypes DEF CreateOperationFails, agentVars
  <2> QED
    BY <1>9, <2>1, MaxFaultsAssumption
    DEF CreateOperationFails, agentVars, Fault, Types, TypeOK
<1> QED
  BY <1>1, <1>2, <1>3, <1>4, <1>5, <1>6, <1>7, <1>8, <1>9 DEF ClientStep

\* Every step of a task keeps the types.
LEMMA TaskStepTypes ==
  ASSUME Types, NEW r \in Resources,
         TaskStep(r) \/ ProcessingFails(r) \/ TaskAborts(r)
  PROVE  Types'
<1> USE DEF TaskRecord
<1>0. task \in [Resources -> TaskRecord]
  BY DEF Types, TypeOK
<1>1. CASE LoadOperation(r)
  <2> DEFINE i == running[r]
  <2>1. CASE ~Processable(i)
    <3>1. FinishTask(r, FALSE) /\ UNCHANGED <<op, client>>
      BY <1>1, <2>1 DEF LoadOperation
    <3> QED
      BY <1>1, <3>1, FinishTypes DEF LoadOperation, Types, TypeOK
  <2>2. CASE Processable(i)
    <3>1. /\ op' = [op EXCEPT ![i].state = "In_Progress"]
          /\ task' = [task EXCEPT ![r].pc = "read"]
          /\ UNCHANGED queueVars
      BY <1>1, <2>2 DEF LoadOperation
    <3>2. i \in Ids /\ op[i] \in OperationRow
      BY <2>2 DEF Processable, Incomplete, NoRow, Types, TypeOK
    <3>3. [op[i] EXCEPT !.state = "In_Progress"] \in OperationRow
      BY <3>2 DEF OperationRow, States
    <3>4. op' \in [Ids -> OperationRow \union {NoRow}]
      BY <3>1, <3>3 DEF Types, TypeOK
    <3>5. task' \in [Resources -> TaskRecord]
      BY <1>0, <3>1
    <3>6. LocalsSet'
      BY <1>1, <1>0, <3>1 DEF LoadOperation, Types, LocalsSet
    <3> QED
      BY <1>1, <3>1, <3>4, <3>5, <3>6 DEF LoadOperation, queueVars, Types, TypeOK
  <2> QED
    BY <2>1, <2>2
<1>2. CASE ReadApplication(r)
  <2>1. task' \in [Resources -> TaskRecord]
    BY <1>2, <1>0 DEF ReadApplication, Contents, Types, TypeOK
  <2>2. LocalsSet'
    BY <1>2, <1>0 DEF ReadApplication, Types, LocalsSet
  <2> QED
    BY <1>2, <2>1, <2>2 DEF ReadApplication, queueVars, Types, TypeOK
<1>3. CASE ApplyToArgoCD(r)
  <2>1. task' \in [Resources -> TaskRecord]
    BY <1>3, <1>0, DeletedAssumption DEF ApplyToArgoCD, Terminal
  <2>2. LocalsSet'
    BY <1>3, <1>0 DEF ApplyToArgoCD, Types, LocalsSet
  <2>3. argo' \in [Resources -> 0..Deleted]
    BY <1>3, <1>0 DEF ApplyToArgoCD, Types, TypeOK
  <2> QED
    BY <1>3, <2>1, <2>2, <2>3 DEF ApplyToArgoCD, queueVars, Types, TypeOK
<1>4. CASE ProcessingFails(r)
  <2>1. PICK result \in {"retry", "Failed"} :
          task' = [task EXCEPT ![r] = [pc |-> "update", seen |-> 0, result |-> result]]
    BY <1>4 DEF ProcessingFails
  <2>2. task' \in [Resources -> TaskRecord]
    BY <2>1, <1>0, DeletedAssumption DEF Terminal
  <2>3. LocalsSet'
    BY <1>4, <2>1, <1>0 DEF ProcessingFails, Types, LocalsSet
  <2> QED
    BY <1>4, <2>2, <2>3, MaxFaultsAssumption
    DEF ProcessingFails, Fault, queueVars, Types, TypeOK
<1>5. CASE UpdateOperationState(r)
  <2> DEFINE i == running[r]
  <2>1. \E retry \in BOOLEAN : FinishTask(r, retry)
    BY <1>5 DEF UpdateOperationState
  <2>2. op' \in [Ids -> OperationRow \union {NoRow}]
    <3>1. CASE UNCHANGED op
      BY <3>1 DEF Types, TypeOK
    <3>2. CASE Exists(i) /\ op' = [op EXCEPT ![i].state = StateAfter(r)]
      <4>1. CASE i \notin Ids
        BY <3>2, <4>1 DEF Types, TypeOK
      <4>2. CASE i \in Ids
        <5>1. op[i] \in OperationRow
          BY <3>2, <4>2 DEF Exists, NoRow, Types, TypeOK
        <5>2. StateAfter(r) \in States
          <6>1. task[r] \in TaskRecord /\ task[r].result # "none"
            BY <1>5, <1>0 DEF UpdateOperationState, Types, LocalsSet
          <6> QED
            BY <6>1 DEF StateAfter, States, Terminal
        <5>3. [op[i] EXCEPT !.state = StateAfter(r)] \in OperationRow
          BY <5>1, <5>2 DEF OperationRow
        <5> QED
          BY <3>2, <5>3 DEF Types, TypeOK
      <4> QED
        BY <4>1, <4>2
    <3> QED
      BY <1>5, <3>1, <3>2 DEF UpdateOperationState
  <2> QED
    BY <1>5, <2>1, <2>2, FinishTypes DEF UpdateOperationState, Types, TypeOK
<1>6. CASE TaskAborts(r)
  <2>1. \E retry \in BOOLEAN : FinishTask(r, retry)
    BY <1>6 DEF TaskAborts
  <2> QED
    BY <1>6, <2>1, FinishTypes, MaxFaultsAssumption
    DEF TaskAborts, Fault, Types, TypeOK
<1> QED
  BY <1>1, <1>2, <1>3, <1>4, <1>5, <1>6 DEF TaskStep

LEMMA TypesStep == Types /\ [Next]_vars => Types'
<1> SUFFICES ASSUME Types, [Next]_vars PROVE Types'
  OBVIOUS
<1> USE DEF agentVars, queueVars, ClientRecord
<1>1. ASSUME NEW r \in Resources, UpdateApplication(r) PROVE Types'
  <2>1. client' \in [Resources -> [Owners -> ClientRecord]] /\ LocalsSet'
    BY <1>1, GotoTypes DEF UpdateApplication, ClientPC, Owners
  <2>2. row' \in [Resources -> 0..Deleted]
    BY <1>1, DeletedAssumption DEF UpdateApplication, Types, TypeOK
  <2> QED
    BY <1>1, <2>1, <2>2 DEF UpdateApplication, Types, TypeOK
<1>2. ASSUME NEW r \in Resources, processApplicationRowToSyncWithCluster(r) PROVE Types'
  <2>1. client' \in [Resources -> [Owners -> ClientRecord]] /\ LocalsSet'
    BY <1>2, GotoTypes DEF processApplicationRowToSyncWithCluster, ClientPC, Owners
  <2> QED
    BY <1>2, <2>1 DEF processApplicationRowToSyncWithCluster, Types, TypeOK
<1>3. ASSUME NEW r \in Resources, DeleteOrphanedArgoApplication(r) PROVE Types'
  BY <1>3, DeletedAssumption DEF DeleteOrphanedArgoApplication, Types, TypeOK, LocalsSet
<1>4. ASSUME NEW r \in Resources, StartTask(r) PROVE Types'
  <2>1. task' \in [Resources -> TaskRecord] /\ LocalsSet'
    BY <1>4 DEF StartTask, TaskRecord, Types, TypeOK, LocalsSet
  <2>2. /\ waiting' \in [Resources -> Ids \union {NoOp}]
        /\ running' \in [Resources -> Ids \union {NoOp}]
    BY <1>4 DEF StartTask, Queue!Start, Types, TypeOK
  <2> QED
    BY <1>4, <2>1, <2>2 DEF StartTask, TaskRecord, Types, TypeOK
<1>5. ASSUME NEW i \in Ids, RecreateMissingCR(i) PROVE Types'
  BY <1>5 DEF RecreateMissingCR, Types, TypeOK, LocalsSet
<1>6. ASSUME NEW i \in Ids, DeleteCompletedRow(i) PROVE Types'
  BY <1>6 DEF DeleteCompletedRow, Types, TypeOK, LocalsSet
<1>7. ASSUME NEW i \in Ids, DeleteOperationCR(i) PROVE Types'
  BY <1>7 DEF DeleteOperationCR, Types, TypeOK, LocalsSet
<1>8. ASSUME NEW i \in Ids, RouteEvent(i) PROVE Types'
  <2>1. op[i].res \in Resources
    BY <1>8 DEF RouteEvent, Exists, NoRow, OperationRow, Types, TypeOK
  <2>2. waiting' \in [Resources -> Ids \union {NoOp}]
    BY <1>8, <2>1, OfferType DEF RouteEvent, Queue!Add, Types
  <2> QED
    BY <1>8, <2>2 DEF RouteEvent, Queue!Add, Types, TypeOK, LocalsSet
<1>9. CASE BackendRestarts
  <2>1. client' \in [Resources -> [Owners -> ClientRecord]]
    <3>1. IdleClient \in ClientRecord
      BY DEF IdleClient, ClientPC
    <3> QED
      BY <1>9, <3>1 DEF BackendRestarts, Types, TypeOK
  <2>2. LocalsSet'
    BY <1>9 DEF BackendRestarts, IdleClient, Types, TypeOK, LocalsSet
  <2> QED
    BY <1>9, <2>1, <2>2, MaxFaultsAssumption DEF BackendRestarts, Fault, Types, TypeOK
<1>10. CASE AgentRestarts
  <2>1. client' \in [Resources -> [Owners -> ClientRecord]]
    <3>1. IdleClient \in ClientRecord
      BY DEF IdleClient, ClientPC
    <3> QED
      BY <1>10, <3>1 DEF AgentRestarts, Types, TypeOK
  <2>2. LocalsSet'
    BY <1>10 DEF AgentRestarts, IdleClient, IdleTask, Types, TypeOK, LocalsSet
  <2>3. task' \in [Resources -> TaskRecord]
    BY <1>10, DeletedAssumption DEF AgentRestarts, IdleTask, TaskRecord
  <2> QED
    BY <1>10, <2>1, <2>2, <2>3, MaxFaultsAssumption
    DEF AgentRestarts, Fault, TaskRecord, Types, TypeOK
<1>11. CASE UNCHANGED vars
  BY <1>11 DEF vars, Types, TypeOK, LocalsSet
<1> QED
  BY <1>1, <1>2, <1>3, <1>4, <1>5, <1>6, <1>7, <1>8, <1>9, <1>10, <1>11,
     ClientStepTypes, TaskStepTypes
  DEF Next

\* Type correctness of the protocol.
THEOREM TypeCorrect == SafetySpec => []TypeOK
<1>1. Init => Types
  BY DeletedAssumption, MaxFaultsAssumption
  DEF Init, Types, TypeOK, LocalsSet, IdleClient, IdleTask, ClientPC
<1>2. Types => TypeOK
  BY DEF Types
<1> QED
  BY <1>1, <1>2, TypesStep, PTL DEF SafetySpec
-----------------------------------------------------------------------------
(* The invariant of the tasks *)

coreVars == <<row, argo, op, waiting, running, task>>

\* Steps that leave rows, Argo CD, operations and tasks alone.
LEMMA CoreFrame ==
  ASSUME CoreInv, UNCHANGED coreVars
  PROVE  CoreInv'
BY DEF coreVars, CoreInv, NeedsBelowRow, QueuedUnderResource, TaskWhileRunning,
       LoadedInProgress, SeenRecentEnough, ArgoBelowRow, AppliedBeforeRecorded,
       CompletedIsApplied, Exists

\* An operation row is deleted, at whatever moment.
LEMMA RemoveRow ==
  ASSUME TypeOK, CoreInv, NEW j,
         op' = [op EXCEPT ![j] = NoRow],
         UNCHANGED <<row, argo, waiting, running, task>>
  PROVE  CoreInv'
<1>1. \A i \in Ids : Exists(i)' => Exists(i) /\ op'[i] = op[i]
  BY DEF Exists, NoRow, TypeOK
<1>2. \A r \in Resources : task[r].pc # "idle" => running[r] \in Ids
  BY DEF CoreInv, TaskWhileRunning
<1>3. NeedsBelowRow' /\ QueuedUnderResource' /\ ArgoBelowRow'
  BY <1>1 DEF CoreInv, NeedsBelowRow, QueuedUnderResource, ArgoBelowRow
<1>4. TaskWhileRunning'
  BY DEF CoreInv, TaskWhileRunning
<1>5. LoadedInProgress' /\ AppliedBeforeRecorded'
  BY <1>1, <1>2 DEF CoreInv, LoadedInProgress, AppliedBeforeRecorded
<1>6. SeenRecentEnough'
  BY <1>1 DEF CoreInv, SeenRecentEnough
<1>7. CompletedIsApplied'
  BY <1>1 DEF CoreInv, CompletedIsApplied, Exists
<1> QED
  BY <1>3, <1>4, <1>5, <1>6, <1>7 DEF CoreInv

\* The row is edited: it only grows.
LEMMA EditRow ==
  ASSUME TypeOK, CoreInv, NEW r \in Resources, UpdateApplication(r)
  PROVE  CoreInv'
<1>1. /\ row' \in [Resources -> 0..Deleted]
      /\ \A q \in Resources : row[q] <= row'[q]
  BY DeletedAssumption DEF UpdateApplication, TypeOK
<1>2. UNCHANGED <<argo, op, waiting, running, task>>
  BY DEF UpdateApplication, agentVars
<1>3. NeedsBelowRow'
  <2> SUFFICES ASSUME NEW i \in Ids, Exists(i) PROVE op[i].need <= row'[op[i].res]
    BY <1>2 DEF NeedsBelowRow, Exists
  <2>1. op[i].res \in Resources /\ op[i].need \in 0..Deleted
    BY DEF TypeOK, OperationRow, NoRow, Exists
  <2> QED
    BY <1>1, <2>1, DeletedAssumption DEF CoreInv, NeedsBelowRow, TypeOK
<1>4. ArgoBelowRow'
  BY <1>1, <1>2, DeletedAssumption DEF CoreInv, ArgoBelowRow, TypeOK
<1>5. SeenRecentEnough'
  <2>1. \A q \in Resources : task[q].seen \in 0..Deleted
    BY DEF TypeOK
  <2> QED
    BY <1>1, <1>2, <2>1, DeletedAssumption DEF CoreInv, SeenRecentEnough, Exists, TypeOK
<1> QED
  BY <1>2, <1>3, <1>4, <1>5
  DEF CoreInv, QueuedUnderResource, TaskWhileRunning, LoadedInProgress,
      AppliedBeforeRecorded, CompletedIsApplied, Exists

\* A new operation: nothing refers to its id yet.
LEMMA InsertRow ==
  ASSUME TypeOK, CoreInv, NEW r \in Resources, NEW o \in Owners,
         InsertOperationRow(r, o)
  PROVE  CoreInv'
<1>1. PICK j \in Ids : Fresh(j) /\ op' = [op EXCEPT ![j] = InsertedRow(r, o)]
  BY DEF InsertOperationRow
<1>2. UNCHANGED <<row, argo, waiting, running, task>>
  BY DEF InsertOperationRow, agentVars
<1>3. /\ \A i \in Ids : i # j => op'[i] = op[i]
      /\ op'[j].state = "Waiting" /\ op'[j].res = r /\ op'[j].need = row[r]
      /\ \A q \in Resources : j # waiting[q] /\ j # running[q]
  BY <1>1 DEF TypeOK, InsertedRow, Fresh
<1>4. \A q \in Resources : task[q].pc # "idle" => running[q] \in Ids
  BY DEF CoreInv, TaskWhileRunning
<1>5. NeedsBelowRow'
  <2>1. row[r] \in 0..Deleted
    BY DEF TypeOK
  <2>2. row[r] <= row[r]
    BY <2>1, DeletedAssumption
  <2> QED
    BY <1>2, <1>3, <2>2 DEF CoreInv, NeedsBelowRow, Exists
<1>6. QueuedUnderResource'
  BY <1>2, <1>3 DEF CoreInv, QueuedUnderResource, Exists
<1>7. TaskWhileRunning' /\ ArgoBelowRow'
  BY <1>2 DEF CoreInv, TaskWhileRunning, ArgoBelowRow
<1>8. LoadedInProgress' /\ AppliedBeforeRecorded'
  BY <1>2, <1>3, <1>4 DEF CoreInv, LoadedInProgress, AppliedBeforeRecorded, Exists
<1>9. SeenRecentEnough'
  BY <1>2, <1>3 DEF CoreInv, SeenRecentEnough, Exists
<1>10. CompletedIsApplied'
  BY <1>2, <1>3 DEF CoreInv, CompletedIsApplied
<1> QED
  BY <1>5, <1>6, <1>7, <1>8, <1>9, <1>10 DEF CoreInv

\* The namespace reconciler deletes the Application of a row that is gone.
LEMMA DeleteOrphan ==
  ASSUME TypeOK, CoreInv, NEW r \in Resources, DeleteOrphanedArgoApplication(r)
  PROVE  CoreInv'
<1>1. /\ row[r] = Deleted
      /\ argo' = [argo EXCEPT ![r] = Deleted]
      /\ UNCHANGED <<row, op, waiting, running, task>>
  BY DEF DeleteOrphanedArgoApplication, agentVars
<1>2. /\ argo'[r] = Deleted
      /\ \A q \in Resources : q # r => argo'[q] = argo[q]
  BY <1>1 DEF TypeOK
<1>3. \A i \in Ids : Exists(i) => op[i].need \in 0..Deleted /\ op[i].res \in Resources
  BY DEF TypeOK, OperationRow, NoRow, Exists
<1>4. \A q \in Resources : task[q].pc # "idle" => running[q] \in Ids
  BY DEF CoreInv, TaskWhileRunning
<1>5. ArgoBelowRow'
  BY <1>1, <1>2, DeletedAssumption DEF CoreInv, ArgoBelowRow
<1>6. SeenRecentEnough'
  BY <1>1, <1>2 DEF CoreInv, SeenRecentEnough, Exists
<1>7. AppliedBeforeRecorded'
  <2> SUFFICES ASSUME NEW q \in Resources,
                      task[q].pc = "update", task[q].result = "Completed",
                      Exists(running[q])
               PROVE  op[running[q]].need <= argo'[q]
    BY <1>1 DEF AppliedBeforeRecorded, Exists
  <2>1. CASE q = r
    <3>1. running[r] \in Ids
      BY <1>4, <2>1
    <3>2. op[running[r]].need \in 0..Deleted
      BY <1>3, <2>1, <3>1
    <3> QED
      BY <1>2, <2>1, <3>2, DeletedAssumption
  <2>2. CASE q # r
    BY <1>2, <2>2 DEF CoreInv, AppliedBeforeRecorded
  <2> QED
    BY <2>1, <2>2
<1>8. CompletedIsApplied'
  <2> SUFFICES ASSUME NEW i \in Ids, op[i].state = "Completed"
               PROVE  argo'[op[i].res] >= op[i].need
    BY <1>1 DEF CompletedIsApplied
  <2>1. op[i].need \in 0..Deleted /\ op[i].res \in Resources
    BY <1>3 DEF Exists
  <2> QED
    BY <1>2, <2>1, DeletedAssumption DEF CoreInv, CompletedIsApplied
<1> QED
  BY <1>1, <1>5, <1>6, <1>7, <1>8
  DEF CoreInv, NeedsBelowRow, QueuedUnderResource, TaskWhileRunning,
      LoadedInProgress, Exists

\* An operation is queued under its resource.
LEMMA Route ==
  ASSUME TypeOK, CoreInv, NEW j \in Ids, RouteEvent(j)
  PROVE  CoreInv'
<1>1. UNCHANGED <<row, argo, op, running, task>>
  BY DEF RouteEvent, Queue!Add
<1>2. op[j].res \in Resources
  BY DEF RouteEvent, TypeOK, OperationRow, NoRow, Exists
<1>3. \A q \in Resources :
        waiting'[q] = waiting[q] \/ (q = op[j].res /\ waiting'[q] = j)
  BY <1>2 DEF RouteEvent, Queue!Add, Queue!Offer, TypeOK
<1>4. QueuedUnderResource'
  BY <1>1, <1>3 DEF CoreInv, QueuedUnderResource, Exists
<1> QED
  BY <1>1, <1>4
  DEF CoreInv, NeedsBelowRow, TaskWhileRunning, LoadedInProgress, SeenRecentEnough,
      ArgoBelowRow, AppliedBeforeRecorded, CompletedIsApplied, Exists

\* What the end of a task changes: its own entries, nothing of the others.
LEMMA FinishEffect ==
  ASSUME TypeOK, NEW r \in Resources, NEW retry \in BOOLEAN, FinishTask(r, retry)
  PROVE  /\ running'[r] = NoOp
         /\ task'[r].pc = "idle"
         /\ waiting'[r] \in {waiting[r], running[r]}
         /\ \A q \in Resources : q # r =>
              running'[q] = running[q] /\ task'[q] = task[q] /\ waiting'[q] = waiting[q]
BY DEF TypeOK, FinishTask, IdleTask, Queue!Finish, Queue!Offer

\* A task ends; its operation keeps resource and need, and is only recorded as
\* Completed when Argo CD has what it needs.
LEMMA FinishCore ==
  ASSUME TypeOK, CoreInv, NEW r \in Resources, NEW retry \in BOOLEAN,
         FinishTask(r, retry), UNCHANGED <<row, argo>>,
         \A i \in Ids :
           /\ i # running[r] => op'[i] = op[i]
           /\ op'[i].res = op[i].res /\ op'[i].need = op[i].need
           /\ op'[i].state # "None" => op[i].state # "None"
           /\ op'[i].state = "Completed" =>
                op[i].state = "Completed" \/ (i = running[r] /\ op[i].need <= argo[r])
  PROVE  CoreInv'
<1>1. /\ running'[r] = NoOp
      /\ task'[r].pc = "idle"
      /\ waiting'[r] \in {waiting[r], running[r]}
      /\ \A q \in Resources : q # r =>
           running'[q] = running[q] /\ task'[q] = task[q] /\ waiting'[q] = waiting[q]
  BY FinishEffect
<1>2. \A i \in Ids :
        /\ op'[i].res = op[i].res /\ op'[i].need = op[i].need
        /\ Exists(i)' => Exists(i)
  BY DEF Exists
<1>3. NoOp \notin Ids
  BY IdsAssumption
<1>4. NeedsBelowRow' /\ ArgoBelowRow'
  BY <1>2 DEF CoreInv, NeedsBelowRow, ArgoBelowRow
<1>5. QueuedUnderResource'
  BY <1>1, <1>2, <1>3 DEF CoreInv, QueuedUnderResource
<1>6. TaskWhileRunning'
  BY <1>1, <1>3 DEF CoreInv, TaskWhileRunning
<1>7. \A q \in Resources : q # r /\ task[q].pc # "idle" /\ Exists(running[q]) =>
        /\ running[q] \in Ids
        /\ running[q] # running[r]
        /\ op'[running[q]] = op[running[q]]
  BY DEF CoreInv, TaskWhileRunning, QueuedUnderResource
<1>8. \A q \in Resources : task'[q].pc # "idle" =>
        q # r /\ running'[q] = running[q] /\ task'[q] = task[q] /\ running[q] \in Ids
  BY <1>1 DEF CoreInv, TaskWhileRunning
<1>9. LoadedInProgress'
  <2> SUFFICES ASSUME NEW q \in Resources,
                      task'[q].pc \in {"read", "apply", "update"},
                      op'[running'[q]].state # "None"
               PROVE  op'[running'[q]].state = "In_Progress"
    BY DEF LoadedInProgress, Exists
  <2>1. Exists(running[q])
    BY <1>2, <1>8 DEF Exists
  <2> QED
    BY <1>7, <1>8, <2>1 DEF CoreInv, LoadedInProgress
<1>10. AppliedBeforeRecorded'
  <2> SUFFICES ASSUME NEW q \in Resources,
                      task'[q].pc = "update", task'[q].result = "Completed",
                      op'[running'[q]].state # "None"
               PROVE  op'[running'[q]].need <= argo[q]
    BY DEF AppliedBeforeRecorded, Exists
  <2>1. Exists(running[q])
    BY <1>2, <1>8 DEF Exists
  <2> QED
    BY <1>7, <1>8, <2>1 DEF CoreInv, AppliedBeforeRecorded
<1>11. SeenRecentEnough'
  <2> SUFFICES ASSUME NEW q \in Resources, task'[q].pc = "apply"
               PROVE  /\ task'[q].seen <= row[q]
                      /\ argo[q] # Deleted => argo[q] <= task'[q].seen
                      /\ \A i \in Ids :
                           /\ op'[i].state # "None" /\ op'[i].res = q
                           /\ i = running'[q] \/ op'[i].state = "Completed"
                           => op'[i].need <= task'[q].seen
    BY DEF SeenRecentEnough, Exists
  <2>1. q # r /\ running'[q] = running[q] /\ task'[q] = task[q]
    BY <1>8
  <2>2. /\ task[q].seen <= row[q]
        /\ argo[q] # Deleted => argo[q] <= task[q].seen
    BY <2>1 DEF CoreInv, SeenRecentEnough
  <2>3. ASSUME NEW i \in Ids, op'[i].state # "None", op'[i].res = q,
               i = running[q] \/ op'[i].state = "Completed"
        PROVE  op'[i].need <= task[q].seen
    <3>1. i # running[r]
      BY <1>2, <2>1, <2>3 DEF CoreInv, QueuedUnderResource, Exists
    <3> QED
      BY <2>1, <2>3, <3>1 DEF CoreInv, SeenRecentEnough, Exists
  <2> QED
    BY <2>1, <2>2, <2>3
<1>12. CompletedIsApplied'
  <2> SUFFICES ASSUME NEW i \in Ids, op'[i].state = "Completed"
               PROVE  argo[op[i].res] >= op[i].need
    BY <1>2 DEF CompletedIsApplied
  <2>1. CASE op[i].state = "Completed"
    BY <2>1 DEF CoreInv, CompletedIsApplied
  <2>2. CASE op[i].state # "Completed"
    <3>1. i = running[r] /\ op[i].need <= argo[r]
      BY <2>2
    <3>2. op[i].res = r
      BY <1>2, <3>1 DEF CoreInv, QueuedUnderResource, Exists
    <3>3. op[i].need \in Nat /\ argo[r] \in Nat
      BY <1>2, DeletedAssumption DEF TypeOK, OperationRow, NoRow, Exists
    <3> QED
      BY <3>1, <3>2, <3>3
  <2> QED
    BY <2>1, <2>2
<1> QED
  BY <1>4, <1>5, <1>6, <1>9, <1>10, <1>11, <1>12 DEF CoreInv

LEMMA StartCore ==
  ASSUME TypeOK, CoreInv, NEW r \in Resources, StartTask(r)
  PROVE  CoreInv'
<1>1. /\ UNCHANGED <<row, argo, op>>
      /\ running'[r] = waiting[r] /\ waiting[r] \in Ids
      /\ waiting'[r] = NoOp
      /\ task'[r].pc = "load"
      /\ \A q \in Resources : q # r =>
           running'[q] = running[q] /\ task'[q] = task[q] /\ waiting'[q] = waiting[q]
  BY DEF StartTask, Queue!Start, TypeOK
<1>2. NeedsBelowRow' /\ ArgoBelowRow' /\ CompletedIsApplied'
  BY <1>1 DEF CoreInv, NeedsBelowRow, ArgoBelowRow, CompletedIsApplied, Exists
<1>3. QueuedUnderResource'
  BY <1>1, IdsAssumption DEF CoreInv, QueuedUnderResource, Exists
<1>4. TaskWhileRunning'
  BY <1>1 DEF CoreInv, TaskWhileRunning
<1>5. LoadedInProgress' /\ AppliedBeforeRecorded'
  BY <1>1 DEF CoreInv, LoadedInProgress, AppliedBeforeRecorded, Exists
<1>6. SeenRecentEnough'
  BY <1>1 DEF CoreInv, SeenRecentEnough, Exists
<1> QED
  BY <1>2, <1>3, <1>4, <1>5, <1>6 DEF CoreInv

\* internalPerformTask takes the operation up, or ends at once.
LEMMA LoadCore ==
  ASSUME TypeOK, CoreInv, NEW r \in Resources, LoadOperation(r)
  PROVE  CoreInv'
<1> DEFINE i == running[r]
<1>1. CASE ~Processable(i)
  <2>1. FinishTask(r, FALSE) /\ UNCHANGED <<row, argo, op>>
    BY <1>1 DEF LoadOperation
  <2> QED
    BY <2>1, FinishCore
<1>2. CASE Processable(i)
  <2>1. /\ op' = [op EXCEPT ![i].state = "In_Progress"]
        /\ task' = [task EXCEPT ![r].pc = "read"]
        /\ UNCHANGED <<row, argo, waiting, running>>
    BY <1>2 DEF LoadOperation, queueVars
  <2>2. i \in Ids /\ op[i].state \in {"Waiting", "In_Progress"} /\ op[i].res = r
    BY <1>2 DEF Processable, Incomplete, CoreInv, QueuedUnderResource, Exists, TypeOK
  <2>3. op[i] \in OperationRow
    BY <2>2 DEF TypeOK, NoRow
  <2>4. /\ op'[i].state = "In_Progress"
        /\ op'[i].res = op[i].res /\ op'[i].need = op[i].need
        /\ \A j \in Ids : j # i => op'[j] = op[j]
    BY <2>1, <2>2, <2>3 DEF TypeOK, OperationRow
  <2> HIDE DEF i
  <2>5. /\ task'[r].pc = "read"
        /\ \A q \in Resources : q # r => task'[q] = task[q]
    BY <2>1 DEF TypeOK
  <2>6. \A q \in Resources : q # r /\ task[q].pc # "idle" => running[q] \in Ids
    BY DEF CoreInv, TaskWhileRunning
  <2>7. \A q \in Resources : q # r => i # running[q]
    BY <2>2 DEF CoreInv, QueuedUnderResource, Exists, i
  <2>8. NeedsBelowRow' /\ QueuedUnderResource' /\ ArgoBelowRow'
    BY <2>1, <2>2, <2>4
    DEF CoreInv, NeedsBelowRow, QueuedUnderResource, ArgoBelowRow, Exists
  <2>9. TaskWhileRunning'
    BY <2>1, <2>2, <2>5 DEF CoreInv, TaskWhileRunning, i
  <2>10. LoadedInProgress'
    BY <2>1, <2>4, <2>5, <2>6, <2>7 DEF CoreInv, LoadedInProgress, Exists, i
  <2>11. AppliedBeforeRecorded'
    BY <2>1, <2>4, <2>5, <2>6, <2>7 DEF CoreInv, AppliedBeforeRecorded, Exists, i
  <2>12. SeenRecentEnough'
    BY <2>1, <2>2, <2>4, <2>5 DEF CoreInv, SeenRecentEnough, Exists
  <2>13. CompletedIsApplied'
    BY <2>1, <2>4 DEF CoreInv, CompletedIsApplied
  <2> QED
    BY <2>8, <2>9, <2>10, <2>11, <2>12, <2>13 DEF CoreInv
<1> QED
  BY <1>1, <1>2

\* The row is read as it is now: every operation made so far asks for less.
LEMMA ReadCore ==
  ASSUME TypeOK, CoreInv, NEW r \in Resources, ReadApplication(r)
  PROVE  CoreInv'
<1>1. /\ UNCHANGED <<row, argo, op, waiting, running>>
      /\ task[r].pc = "read"
      /\ task'[r].pc = "apply" /\ task'[r].seen = row[r]
      /\ \A q \in Resources : q # r => task'[q] = task[q]
  BY DEF ReadApplication, Contents, queueVars, TypeOK
<1>2. row[r] \in Nat
  BY DeletedAssumption DEF TypeOK
<1>3. SeenRecentEnough'
  <2> SUFFICES ASSUME NEW q \in Resources, task'[q].pc = "apply"
               PROVE  /\ task'[q].seen <= row[q]
                      /\ argo[q] # Deleted => argo[q] <= task'[q].seen
                      /\ \A i \in Ids :
                           /\ Exists(i) /\ op[i].res = q
                           /\ i = running[q] \/ op[i].state = "Completed"
                           => op[i].need <= task'[q].seen
    BY <1>1 DEF SeenRecentEnough, Exists
  <2>1. CASE q = r
    BY <1>1, <1>2, <2>1 DEF CoreInv, NeedsBelowRow, ArgoBelowRow
  <2>2. CASE q # r
    BY <1>1, <2>2 DEF CoreInv, SeenRecentEnough
  <2> QED
    BY <2>1, <2>2
<1>4. LoadedInProgress' /\ AppliedBeforeRecorded'
  BY <1>1 DEF CoreInv, LoadedInProgress, AppliedBeforeRecorded, Exists
<1>5. TaskWhileRunning'
  BY <1>1 DEF CoreInv, TaskWhileRunning
<1> QED
  BY <1>1, <1>3, <1>4, <1>5
  DEF CoreInv, NeedsBelowRow, QueuedUnderResource, ArgoBelowRow, CompletedIsApplied, Exists

\* What was read is applied: that never takes back what a completed operation
\* was told to be done.
LEMMA ApplyCore ==
  ASSUME TypeOK, CoreInv, NEW r \in Resources, ApplyToArgoCD(r)
  PROVE  CoreInv'
<1>1. /\ UNCHANGED <<row, op, waiting, running>>
      /\ task[r].pc = "apply"
      /\ argo'[r] = task[r].seen
      /\ task'[r].pc = "update"
      /\ \A q \in Resources : q # r => task'[q] = task[q] /\ argo'[q] = argo[q]
  BY DEF ApplyToArgoCD, queueVars, TypeOK
<1>2. /\ task[r].seen <= row[r]
      /\ \A i \in Ids :
           /\ Exists(i) /\ op[i].res = r
           /\ i = running[r] \/ op[i].state = "Completed"
           => op[i].need <= task[r].seen
  BY <1>1 DEF CoreInv, SeenRecentEnough
<1>3. TaskWhileRunning'
  BY <1>1 DEF CoreInv, TaskWhileRunning
<1>4. ArgoBelowRow'
  BY <1>1, <1>2 DEF CoreInv, ArgoBelowRow
<1>5. LoadedInProgress'
  BY <1>1 DEF CoreInv, LoadedInProgress, Exists
<1>6. SeenRecentEnough'
  BY <1>1 DEF CoreInv, SeenRecentEnough, Exists
<1>7. AppliedBeforeRecorded'
  <2>1. running[r] \in Ids
    BY <1>1 DEF CoreInv, TaskWhileRunning
  <2>2. Exists(running[r]) => op[running[r]].need <= task[r].seen
    BY <1>2, <2>1 DEF CoreInv, QueuedUnderResource
  <2> QED
    BY <1>1, <2>2 DEF CoreInv, AppliedBeforeRecorded, Exists
<1>8. CompletedIsApplied'
  <2> SUFFICES ASSUME NEW i \in Ids, op[i].state = "Completed"
               PROVE  argo'[op[i].res] >= op[i].need
    BY <1>1 DEF CompletedIsApplied
  <2>1. op[i].res \in Resources /\ op[i].need \in Nat
    BY DeletedAssumption DEF TypeOK, OperationRow, NoRow
  <2>2. CASE op[i].res = r
    <3>1. op[i].need <= task[r].seen /\ task[r].seen \in Nat
      BY <1>2, <2>2, DeletedAssumption DEF Exists, TypeOK
    <3> QED
      BY <1>1, <2>1, <2>2, <3>1
  <2>3. CASE op[i].res # r
    BY <1>1, <2>1, <2>3 DEF CoreInv, CompletedIsApplied
  <2> QED
    BY <2>2, <2>3
<1> QED
  BY <1>1, <1>3, <1>4, <1>5, <1>6, <1>7, <1>8
  DEF CoreInv, NeedsBelowRow, QueuedUnderResource, Exists

LEMMA FailCore ==
  ASSUME TypeOK, CoreInv, NEW r \in Resources, ProcessingFails(r)
  PROVE  CoreInv'
<1>1. /\ UNCHANGED <<row, argo, op, waiting, running>>
      /\ task[r].pc \in {"read", "apply"}
      /\ task'[r].pc = "update" /\ task'[r].result # "Completed"
      /\ \A q \in Resources : q # r => task'[q] = task[q]
  BY DEF ProcessingFails, queueVars, TypeOK
<1>2. TaskWhileRunning'
  BY <1>1 DEF CoreInv, TaskWhileRunning
<1>3. LoadedInProgress' /\ AppliedBeforeRecorded'
  BY <1>1 DEF CoreInv, LoadedInProgress, AppliedBeforeRecorded, Exists
<1>4. SeenRecentEnough'
  BY <1>1 DEF CoreInv, SeenRecentEnough, Exists
<1> QED
  BY <1>1, <1>2, <1>3, <1>4
  DEF CoreInv, NeedsBelowRow, QueuedUnderResource, ArgoBelowRow, CompletedIsApplied, Exists

\* The outcome of a task is recorded.
LEMMA UpdateCore ==
  ASSUME Types, CoreInv, NEW r \in Resources, UpdateOperationState(r)
  PROVE  CoreInv'
<1> DEFINE i == running[r]
<1>1. TypeOK /\ UNCHANGED <<row, argo>>
  BY DEF Types, UpdateOperationState
<1>2. i \in Ids
  BY DEF UpdateOperationState, CoreInv, TaskWhileRunning
<1>3. CASE ~Exists(i)
  <2>1. FinishTask(r, TRUE) /\ UNCHANGED op
    BY <1>3 DEF UpdateOperationState
  <2> QED
    BY <1>1, <2>1, FinishCore
<1>4. CASE Exists(i)
  <2>1. /\ op' = [op EXCEPT ![i].state = StateAfter(r)]
        /\ FinishTask(r, task[r].result = "retry")
    BY <1>4 DEF UpdateOperationState
  <2>2. op[i] \in OperationRow
    BY <1>1, <1>2, <1>4 DEF TypeOK, NoRow, Exists
  <2>3. /\ op'[i].state = StateAfter(r)
        /\ op'[i].res = op[i].res /\ op'[i].need = op[i].need
        /\ \A j \in Ids : j # i => op'[j] = op[j]
    BY <1>1, <1>2, <2>1, <2>2 DEF TypeOK, OperationRow
  <2>4. StateAfter(r) = "Completed" => op[i].need <= argo[r]
    BY <1>4 DEF StateAfter, UpdateOperationState, CoreInv, AppliedBeforeRecorded
  <2>5. (task[r].result = "retry") \in BOOLEAN
    OBVIOUS
  <2>6. op[i].state # "None"
    BY <1>4 DEF Exists
  <2> HIDE DEF i
  <2>7. \A j \in Ids :
          /\ j # i => op'[j] = op[j]
          /\ op'[j].res = op[j].res /\ op'[j].need = op[j].need
          /\ op'[j].state # "None" => op[j].state # "None"
          /\ op'[j].state = "Completed" =>
               op[j].state = "Completed" \/ (j = i /\ op[j].need <= argo[r])
    BY <2>3, <2>4, <2>6
  <2> QED
    BY <1>1, <2>1, <2>5, <2>7, FinishCore DEF i
<1> QED
  BY <1>3, <1>4

LEMMA RestartCore ==
  ASSUME TypeOK, CoreInv, AgentRestarts
  PROVE  CoreInv'
<1>1. /\ UNCHANGED <<row, argo, op>>
      /\ \A r \in Resources :
           waiting'[r] = NoOp /\ running'[r] = NoOp /\ task'[r].pc = "idle"
  BY DEF AgentRestarts, IdleTask
<1> QED
  BY <1>1, IdsAssumption
  DEF CoreInv, NeedsBelowRow, QueuedUnderResource, TaskWhileRunning, LoadedInProgress,
      SeenRecentEnough, ArgoBelowRow, AppliedBeforeRecorded, CompletedIsApplied, Exists

LEMMA CoreStep == IInv /\ [Next]_vars => CoreInv'
<1> SUFFICES ASSUME Types, TypeOK, CoreInv, [Next]_vars PROVE CoreInv'
  BY DEF IInv, Types
<1> USE DEF agentVars, queueVars, coreVars
<1>1. ASSUME NEW r \in Resources, UpdateApplication(r) PROVE CoreInv'
  BY <1>1, EditRow
<1>2. ASSUME NEW r \in Resources, processApplicationRowToSyncWithCluster(r) PROVE CoreInv'
  BY <1>2, CoreFrame DEF processApplicationRowToSyncWithCluster
<1>3. ASSUME NEW r \in Resources, NEW o \in Owners, ClientStep(r, o) PROVE CoreInv'
  <2>1. CASE ListOperations(r, o)
    BY <2>1, CoreFrame DEF ListOperations
  <2>2. CASE UseExistingOperation(r, o)
    BY <2>2, CoreFrame DEF UseExistingOperation
  <2>3. CASE NoExistingOperation(r, o)
    BY <2>3, CoreFrame DEF NoExistingOperation
  <2>4. CASE InsertOperationRow(r, o)
    BY <2>4, InsertRow
  <2>5. CASE CreateOperationCR(r, o)
    BY <2>5, CoreFrame DEF CreateOperationCR
  <2>6. CASE PollOperation(r)
    BY <2>6, CoreFrame DEF PollOperation
  <2>7. CASE CleanupOperationRow(r)
    BY <2>7, CoreFrame, RemoveRow DEF CleanupOperationRow
  <2>8. CASE CleanupOperationCR(r)
    BY <2>8, CoreFrame DEF CleanupOperationCR
  <2> QED
    BY <1>3, <2>1, <2>2, <2>3, <2>4, <2>5, <2>6, <2>7, <2>8 DEF ClientStep
<1>4. ASSUME NEW r \in Resources, NEW o \in Owners, CreateOperationFails(r, o) PROVE CoreInv'
  BY <1>4, CoreFrame DEF CreateOperationFails
<1>5. ASSUME NEW r \in Resources, DeleteOrphanedArgoApplication(r) PROVE CoreInv'
  BY <1>5, DeleteOrphan
<1>6. ASSUME NEW r \in Resources, StartTask(r) PROVE CoreInv'
  BY <1>6, StartCore
<1>7. ASSUME NEW r \in Resources, TaskStep(r) PROVE CoreInv'
  BY <1>7, LoadCore, ReadCore, ApplyCore, UpdateCore DEF TaskStep
<1>8. ASSUME NEW r \in Resources, ProcessingFails(r) PROVE CoreInv'
  BY <1>8, FailCore
<1>9. ASSUME NEW r \in Resources, TaskAborts(r) PROVE CoreInv'
  <2>1. PICK retry \in BOOLEAN : FinishTask(r, retry)
    BY <1>9 DEF TaskAborts
  <2>2. UNCHANGED <<row, argo, op>>
    BY <1>9 DEF TaskAborts
  <2> QED
    BY <2>1, <2>2, FinishCore
<1>10. ASSUME NEW i \in Ids, RecreateMissingCR(i) PROVE CoreInv'
  BY <1>10, CoreFrame DEF RecreateMissingCR
<1>11. ASSUME NEW i \in Ids, DeleteCompletedRow(i) PROVE CoreInv'
  BY <1>11, RemoveRow DEF DeleteCompletedRow
<1>12. ASSUME NEW i \in Ids, DeleteOperationCR(i) PROVE CoreInv'
  BY <1>12, CoreFrame DEF DeleteOperationCR
<1>13. ASSUME NEW i \in Ids, RouteEvent(i) PROVE CoreInv'
  BY <1>13, Route
<1>14. CASE BackendRestarts
  BY <1>14, CoreFrame DEF BackendRestarts
<1>15. CASE AgentRestarts
  BY <1>15, RestartCore
<1>16. CASE UNCHANGED vars
  BY <1>16, CoreFrame DEF vars
<1> QED
  BY <1>1, <1>2, <1>3, <1>4, <1>5, <1>6, <1>7, <1>8, <1>9, <1>10, <1>11, <1>12,
     <1>13, <1>14, <1>15, <1>16
  DEF Next

LEMMA Invariance == SafetySpec => []IInv
<1>1. Init => IInv
  <2>1. Init => Types
    BY DeletedAssumption, MaxFaultsAssumption
    DEF Init, Types, TypeOK, LocalsSet, IdleClient, IdleTask, ClientPC
  <2>2. Init => CoreInv
    BY IdsAssumption
    DEF Init, NoRow, IdleTask, CoreInv, NeedsBelowRow, QueuedUnderResource,
        TaskWhileRunning, LoadedInProgress, SeenRecentEnough, ArgoBelowRow,
        AppliedBeforeRecorded, CompletedIsApplied, Exists
  <2> QED
    BY <2>1, <2>2 DEF IInv
<1>2. IInv /\ [Next]_vars => IInv'
  BY TypesStep, CoreStep DEF IInv
<1> QED
  BY <1>1, <1>2, PTL DEF SafetySpec

\* An operation that is recorded as Completed has been carried out, however
\* edits, clean-up jobs, failures, retries and restarts interleave.
THEOREM CompletedMeansApplied == SafetySpec => []CompletedIsApplied
<1>1. IInv => CompletedIsApplied
  BY DEF IInv, CoreInv
<1> QED
  BY <1>1, Invariance, PTL

\* Who changes Argo CD: a task that applies, and the deletion of orphans.
LEMMA ArgoWriters ==
  ASSUME Next
  PROVE  \/ UNCHANGED argo
         \/ \E r \in Resources : ApplyToArgoCD(r) \/ DeleteOrphanedArgoApplication(r)
<1>1. ASSUME NEW r \in Resources, NEW o \in Owners,
             ClientStep(r, o) \/ CreateOperationFails(r, o)
      PROVE  UNCHANGED argo
  BY <1>1 DEF ClientStep, ListOperations, UseExistingOperation, NoExistingOperation,
              InsertOperationRow, CreateOperationCR, PollOperation,
              CleanupOperationRow, CleanupOperationCR, CreateOperationFails
<1>2. ASSUME NEW r \in Resources,
             \/ UpdateApplication(r) \/ processApplicationRowToSyncWithCluster(r)
             \/ StartTask(r) \/ ProcessingFails(r) \/ TaskAborts(r)
      PROVE  UNCHANGED argo
  BY <1>2 DEF UpdateApplication, processApplicationRowToSyncWithCluster, StartTask,
              ProcessingFails, TaskAborts
<1>3. ASSUME NEW r \in Resources, TaskStep(r), ~ApplyToArgoCD(r)
      PROVE  UNCHANGED argo
  BY <1>3 DEF TaskStep, LoadOperation, ReadApplication, UpdateOperationState
<1>4. ASSUME NEW i \in Ids,
             \/ RecreateMissingCR(i) \/ DeleteCompletedRow(i)
             \/ DeleteOperationCR(i) \/ RouteEvent(i)
      PROVE  UNCHANGED argo
  BY <1>4 DEF RecreateMissingCR, DeleteCompletedRow, DeleteOperationCR, RouteEvent
<1>5. ASSUME BackendRestarts \/ AgentRestarts PROVE UNCHANGED argo
  BY <1>5 DEF BackendRestarts, AgentRestarts
<1> QED
  BY <1>1, <1>2, <1>3, <1>4, <1>5 DEF Next

\* Who changes an operation row: insertion, deletion, and the task that runs it.
LEMMA OperationWriters ==
  ASSUME TypeOK, Next, NEW i \in Ids
  PROVE  \/ op'[i] \in {op[i], NoRow}
         \/ \E r \in Resources, o \in Owners : InsertOperationRow(r, o)
         \/ \E r \in Resources : LoadOperation(r) \/ UpdateOperationState(r)
<1>1. ASSUME NEW r \in Resources, NEW o \in Owners,
             ClientStep(r, o) \/ CreateOperationFails(r, o), ~InsertOperationRow(r, o)
      PROVE  op'[i] \in {op[i], NoRow}
  <2>1. CASE CleanupOperationRow(r)
    BY <2>1 DEF CleanupOperationRow, TypeOK
  <2>2. CASE ~CleanupOperationRow(r)
    BY <1>1, <2>2
    DEF ClientStep, ListOperations, UseExistingOperation, NoExistingOperation,
        CreateOperationCR, PollOperation, CleanupOperationCR, CreateOperationFails
  <2> QED
    BY <2>1, <2>2
<1>2. ASSUME NEW r \in Resources,
             \/ UpdateApplication(r) \/ processApplicationRowToSyncWithCluster(r)
             \/ DeleteOrphanedArgoApplication(r)
             \/ StartTask(r) \/ ProcessingFails(r) \/ TaskAborts(r)
             \/ ReadApplication(r) \/ ApplyToArgoCD(r)
      PROVE  UNCHANGED op
  BY <1>2 DEF UpdateApplication, processApplicationRowToSyncWithCluster,
              DeleteOrphanedArgoApplication, StartTask, ProcessingFails, TaskAborts,
              ReadApplication, ApplyToArgoCD
<1>3. ASSUME NEW j \in Ids, RecreateMissingCR(j) \/ DeleteOperationCR(j) \/ RouteEvent(j)
      PROVE  UNCHANGED op
  BY <1>3 DEF RecreateMissingCR, DeleteOperationCR, RouteEvent
<1>4. ASSUME NEW j \in Ids, DeleteCompletedRow(j)
      PROVE  op'[i] \in {op[i], NoRow}
  BY <1>4 DEF DeleteCompletedRow, TypeOK
<1>5. ASSUME BackendRestarts \/ AgentRestarts PROVE UNCHANGED op
  BY <1>5 DEF BackendRestarts, AgentRestarts
<1> QED
  BY <1>1, <1>2, <1>3, <1>4, <1>5 DEF Next, TaskStep

\* Argo CD never goes back to an older version of a row.
THEOREM ArgoIsMonotonic == SafetySpec => ArgoNeverRegresses
<1> DEFINE A == \A r \in Resources : argo'[r] < argo[r] => argo[r] = Deleted
<1>1. IInv /\ [Next]_vars => [A]_vars
  <2> SUFFICES ASSUME TypeOK, CoreInv, Next,
                      NEW q \in Resources, argo'[q] < argo[q], argo[q] # Deleted
               PROVE  FALSE
    BY DEF IInv, Types
  <2>1. /\ argo[q] \in Nat
        /\ argo'[q] # argo[q]
    BY DeletedAssumption DEF TypeOK
  <2>2. PICK r \in Resources : ApplyToArgoCD(r) \/ DeleteOrphanedArgoApplication(r)
    BY <2>1, ArgoWriters
  <2>3. CASE ApplyToArgoCD(r)
    <3>1. q = r /\ argo'[r] = task[r].seen
      BY <2>1, <2>3 DEF ApplyToArgoCD, TypeOK
    <3>2. argo[r] <= task[r].seen /\ task[r].seen \in Nat
      BY <2>3, <3>1, DeletedAssumption
      DEF ApplyToArgoCD, CoreInv, SeenRecentEnough, TypeOK
    <3> QED
      BY <2>1, <3>1, <3>2
  <2>4. CASE DeleteOrphanedArgoApplication(r)
    <3>1. q = r /\ argo'[r] = Deleted
      BY <2>1, <2>4 DEF DeleteOrphanedArgoApplication, TypeOK
    <3>2. argo[r] \in 0..Deleted
      BY DEF TypeOK
    <3> QED
      BY <3>1, <3>2, DeletedAssumption
  <2> QED
    BY <2>2, <2>3, <2>4
<1> QED
  BY <1>1, Invariance, PTL DEF SafetySpec, ArgoNeverRegresses

\* A finished operation is never taken up again, and one that was started is
\* never put back.
THEOREM StatesMoveForward == SafetySpec => OperationStateMovesForward
<1> DEFINE A == \A i \in Ids :
                  /\ op[i].state \in Terminal => op'[i].state \in {op[i].state, "None"}
                  /\ op[i].state = "In_Progress" => op'[i].state # "Waiting"
<1>1. IInv /\ [Next]_vars => [A]_vars
  <2> SUFFICES ASSUME Types, TypeOK, CoreInv, Next, NEW i \in Ids
               PROVE  /\ op[i].state \in Terminal => op'[i].state \in {op[i].state, "None"}
                      /\ op[i].state = "In_Progress" => op'[i].state # "Waiting"
    BY DEF IInv, Types
  <2>1. CASE op'[i] = op[i]
    BY <2>1 DEF Terminal
  <2>2. CASE op'[i] = NoRow
    BY <2>2 DEF NoRow
  <2>3. ASSUME NEW r \in Resources, NEW o \in Owners, InsertOperationRow(r, o),
               op'[i] # op[i]
        PROVE  op[i].state = "None"
    BY <2>3 DEF InsertOperationRow, Fresh, Exists, TypeOK
  <2>4. ASSUME NEW r \in Resources, LoadOperation(r), op'[i] # op[i]
        PROVE  op[i].state \notin Terminal /\ op'[i].state # "Waiting"
    <3>1. /\ i = running[r] /\ Processable(i)
          /\ op' = [op EXCEPT ![i].state = "In_Progress"]
      BY <2>4 DEF LoadOperation, TypeOK
    <3>2. op[i] \in OperationRow
      BY <3>1 DEF Processable, Incomplete, NoRow, TypeOK
    <3> QED
      BY <3>1, <3>2 DEF Processable, Incomplete, Terminal, OperationRow, TypeOK
  <2>5. ASSUME NEW r \in Resources, UpdateOperationState(r), op'[i] # op[i]
        PROVE  op[i].state \notin Terminal /\ op'[i].state # "Waiting"
    <3>1. /\ i = running[r] /\ Exists(i)
          /\ op' = [op EXCEPT ![i].state = StateAfter(r)]
      BY <2>5 DEF UpdateOperationState, TypeOK
    <3>2. op[i] \in OperationRow /\ op[i].state = "In_Progress"
      BY <2>5, <3>1
      DEF UpdateOperationState, Exists, NoRow, TypeOK, CoreInv, LoadedInProgress
    <3>3. StateAfter(r) # "Waiting"
      <4>1. task[r].result \in {"none", "retry"} \union Terminal
        BY DEF TypeOK
      <4> QED
        BY <4>1 DEF StateAfter, Terminal
    <3>4. op'[i].state = StateAfter(r)
      BY <3>1, <3>2 DEF OperationRow, TypeOK
    <3> QED
      BY <3>2, <3>3, <3>4 DEF Terminal
  <2> QED
    BY <2>1, <2>2, <2>3, <2>4, <2>5, OperationWriters DEF Terminal
<1> QED
  BY <1>1, Invariance, PTL DEF SafetySpec, OperationStateMovesForward
=============================================================================
