------------------------ MODULE TaskRetryLoop_proofs ------------------------
(***************************************************************************)
(* Proofs about TaskRetryLoop, for any set of names and tasks and any      *)
(* limit on the runners.                                                   *)
(***************************************************************************)
EXTENDS TaskRetryLoop, FiniteSetTheorems, TLAPS

\* An entry to be queued is well typed.
LEMMA addTaskType ==
  ASSUME TypeOK, NEW e \in waitingTaskEntry, addTask(e)
  PROVE  /\ waitingTasks' \in Seq(waitingTaskEntry)
         /\ waitingTasksByName' \in [Names -> Tasks \union {NoTask}]
<1>1. e.name \in Names /\ e.task \in Tasks
  BY DEF waitingTaskEntry
<1>2. CASE waitingTasksByName[e.name] # NoTask
  BY <1>2 DEF TypeOK, addTask
<1>3. CASE waitingTasksByName[e.name] = NoTask
  <2>1. waitingTasks' = Append(waitingTasks, e)
    BY <1>3 DEF addTask
  <2>2. waitingTasksByName' = [waitingTasksByName EXCEPT ![e.name] = e.task]
    BY <1>3 DEF addTask
  <2> QED
    BY <1>1, <2>1, <2>2 DEF TypeOK
<1> QED
  BY <1>2, <1>3

\* Type correctness of the loop: every step keeps the variables' types.
THEOREM TypeCorrect == SafetySpec => []TypeOK
<1>1. Init => TypeOK
  BY DEF Init, TypeOK
<1>2. TypeOK /\ [Next]_vars => TypeOK'
  <2> SUFFICES ASSUME TypeOK, [Next]_vars PROVE TypeOK'
    OBVIOUS
  <2>1. CASE BeginQueueing
    BY <2>1 DEF BeginQueueing, TypeOK
  <2>2. CASE ScanEntry
    <3> DEFINE e == waitingTasks[idx]
    <3>1. e \in waitingTaskEntry
      BY <2>2 DEF ScanEntry, TypeOK
    <3>2. CASE startNewTask(e) /\ UNCHANGED updatedWaitingTasks
      BY <2>2, <3>1, <3>2 DEF ScanEntry, startNewTask, TypeOK, waitingTaskEntry, taskRunner
    <3>3. CASE /\ updatedWaitingTasks' = Append(updatedWaitingTasks, e)
               /\ UNCHANGED <<waitingTasksByName, activeTaskMap, runners, owed>>
      BY <2>2, <3>1, <3>3 DEF ScanEntry, TypeOK
    <3> QED
      BY <2>2, <3>2, <3>3 DEF ScanEntry
  <2>3. CASE EndScan
    BY <2>3 DEF EndScan, TypeOK
  <2>4. ASSUME NEW n \in Names, NEW t \in Tasks, ReceiveAddTask(n, t)
        PROVE  TypeOK'
    <3> DEFINE e == [name |-> n, task |-> t, due |-> TRUE]
    <3>1. e \in waitingTaskEntry
      BY DEF waitingTaskEntry
    <3>2. addTask(e)
      BY <2>4 DEF ReceiveAddTask
    <3> HIDE DEF e
    <3>3. /\ waitingTasks' \in Seq(waitingTaskEntry)
          /\ waitingTasksByName' \in [Names -> Tasks \union {NoTask}]
      BY <3>1, <3>2, addTaskType
    <3> QED
      BY <2>4, <3>3 DEF ReceiveAddTask, TypeOK
  <2>5. ASSUME NEW r \in runners, ReceiveWorkCompleted(r)
        PROVE  TypeOK'
    <3>1. r \in taskRunner
      BY DEF TypeOK
    <3>2. /\ waitingTasks' \in Seq(waitingTaskEntry)
          /\ waitingTasksByName' \in [Names -> Tasks \union {NoTask}]
      <4>1. CASE r.result = "retry" /\ activeTaskMap[r.name] # NoTask
        <5> DEFINE e == [name |-> r.name, task |-> RetriedTask(r), due |-> FALSE]
        <5>1. e \in waitingTaskEntry
          BY <3>1, <4>1 DEF waitingTaskEntry, RetriedTask, TypeOK, taskRunner
        <5>2. addTask(e)
          BY <2>5, <4>1 DEF ReceiveWorkCompleted
        <5> HIDE DEF e
        <5> QED
          BY <5>1, <5>2, addTaskType
      <4>2. CASE ~(r.result = "retry" /\ activeTaskMap[r.name] # NoTask)
        BY <2>5, <4>2 DEF ReceiveWorkCompleted, TypeOK
      <4> QED
        BY <4>1, <4>2
    <3> QED
      BY <2>5, <3>1, <3>2 DEF ReceiveWorkCompleted, ActiveAfter, TypeOK, taskRunner
  <2>6. CASE ReceiveTick
    BY <2>6 DEF ReceiveTick, TypeOK
  <2>7. ASSUME NEW r \in runners, PerformTask(r)
        PROVE  TypeOK'
    <3>1. r \in taskRunner
      BY DEF TypeOK
    <3>2. \A res \in {"retry", "done"} : [r EXCEPT !.result = res] \in taskRunner
      BY <3>1 DEF taskRunner
    <3> QED
      BY <2>7, <3>2 DEF PerformTask, TypeOK, loopVars
  <2>8. ASSUME NEW i \in DOMAIN waitingTasks, RetryTimePasses(i)
        PROVE  TypeOK'
    <3>1. waitingTasks[i] \in waitingTaskEntry
      BY DEF TypeOK
    <3>2. [waitingTasks[i] EXCEPT !.due = TRUE] \in waitingTaskEntry
      BY <3>1 DEF waitingTaskEntry
    <3>3. waitingTasks' = [waitingTasks EXCEPT ![i] = [waitingTasks[i] EXCEPT !.due = TRUE]]
      BY <2>8 DEF RetryTimePasses
    <3>4. waitingTasks' \in Seq(waitingTaskEntry)
      BY <3>2, <3>3 DEF TypeOK
    <3> QED
      BY <2>8, <3>4 DEF RetryTimePasses, TypeOK
  <2>9. CASE UNCHANGED vars
    BY <2>9 DEF vars, loopVars, TypeOK
  <2> QED
    BY <2>1, <2>2, <2>3, <2>4, <2>5, <2>6, <2>7, <2>8, <2>9 DEF Next
<1> QED
  BY <1>1, <1>2, PTL DEF SafetySpec

-----------------------------------------------------------------------------
(* The waiting list.                                                       *)

\* Between two scans the scan's variables are at rest.
ScanAtRest == pc # "scan" => idx = 1 /\ updatedWaitingTasks = <<>>

ListInv == ScanAtRest /\ ListMatchesMap /\ NoDuplicateEntries

\* What the type says of the entries of the two lists.
LEMMA EntryType ==
  ASSUME TypeOK
  PROVE  /\ \A i \in DOMAIN waitingTasks :
              waitingTasks[i].name \in Names /\ waitingTasks[i].task \in Tasks
         /\ \A i \in DOMAIN updatedWaitingTasks :
              updatedWaitingTasks[i].name \in Names /\ updatedWaitingTasks[i].task \in Tasks
<1>1. \A e \in waitingTaskEntry : e.name \in Names /\ e.task \in Tasks
  BY DEF waitingTaskEntry
<1>2. \A i \in DOMAIN waitingTasks : waitingTasks[i] \in waitingTaskEntry
  BY DEF TypeOK
<1>3. \A i \in DOMAIN updatedWaitingTasks : updatedWaitingTasks[i] \in waitingTaskEntry
  BY DEF TypeOK
<1> QED
  BY <1>1, <1>2, <1>3

\* Queueing an entry, outside a scan, keeps list and map in agreement.
LEMMA addTaskListInv ==
  ASSUME TypeOK, ListInv, pc # "scan", NEW e \in waitingTaskEntry, addTask(e),
         UNCHANGED <<idx, updatedWaitingTasks>>
  PROVE  ListMatchesMap' /\ NoDuplicateEntries'
<1>1. e.name \in Names /\ e.task \in Tasks /\ e.task # NoTask
  BY NoTaskAssumption DEF waitingTaskEntry
<1>2. idx = 1 /\ updatedWaitingTasks = <<>>
  BY DEF ListInv, ScanAtRest
<1>3. CASE waitingTasksByName[e.name] # NoTask
  BY <1>3 DEF addTask, ListInv, ListMatchesMap, NoDuplicateEntries, Unscanned
<1>4. CASE waitingTasksByName[e.name] = NoTask
  <2> DEFINE n == Len(waitingTasks)
  <2>1. waitingTasks' = Append(waitingTasks, e)
    BY <1>4 DEF addTask
  <2>2. waitingTasksByName' = [waitingTasksByName EXCEPT ![e.name] = e.task]
    BY <1>4 DEF addTask
  <2>3. n \in Nat /\ Unscanned = 1..n /\ Unscanned' = 1..(n + 1)
    BY <1>2, <2>1 DEF Unscanned, TypeOK
  <2>4. /\ waitingTasks'[n + 1] = e
        /\ \A i \in 1..n : waitingTasks'[i] = waitingTasks[i]
    BY <2>1, <2>3 DEF TypeOK
  <2>5. \A i \in 1..n : waitingTasks[i].name # e.name
    BY <1>4, <2>3, EntryType, NoTaskAssumption DEF ListInv, ListMatchesMap, Unscanned
  <2>6. DOMAIN updatedWaitingTasks = {} /\ DOMAIN updatedWaitingTasks' = {}
    BY <1>2
  <2>7. \A i \in 1..n : waitingTasks[i].name \in Names
    BY <2>3, EntryType DEF Unscanned, TypeOK
  <2>8. \A m \in Names \ {e.name} : waitingTasksByName'[m] = waitingTasksByName[m]
    BY <2>2 DEF TypeOK
  <2>9. waitingTasksByName'[e.name] = e.task
    BY <1>1, <2>2 DEF TypeOK
  <2>10. \A i \in Unscanned' : i \in 1..n \/ i = n + 1
    BY <2>3
  <2>11. \A i \in Unscanned' : waitingTasksByName'[waitingTasks'[i].name] = waitingTasks'[i].task
    <3>1. \A i \in 1..n : waitingTasksByName[waitingTasks[i].name] = waitingTasks[i].task
      BY <2>3 DEF ListInv, ListMatchesMap
    <3>2. \A i \in 1..n : waitingTasksByName'[waitingTasks'[i].name] = waitingTasks'[i].task
      BY <3>1, <2>4, <2>5, <2>7, <2>8
    <3> QED
      BY <3>2, <2>4, <2>9, <2>10
  <2>12. ASSUME NEW m \in Names, waitingTasksByName'[m] # NoTask
         PROVE  \E i \in Unscanned' : waitingTasks'[i].name = m
    <3>1. CASE m = e.name
      BY <3>1, <2>3, <2>4
    <3>2. CASE m # e.name
      <4>1. waitingTasksByName[m] # NoTask
        BY <3>2, <2>8, <2>12
      <4>2. PICK i \in 1..n : waitingTasks[i].name = m
        BY <4>1, <2>3, <2>6 DEF ListInv, ListMatchesMap
      <4>3. i \in Unscanned' /\ waitingTasks'[i].name = m
        BY <4>2, <2>3, <2>4
      <4> QED
        BY <4>3
    <3> QED
      BY <3>1, <3>2
  <2>13. ASSUME NEW i \in Unscanned', NEW j \in Unscanned',
                waitingTasks'[i].name = waitingTasks'[j].name
         PROVE  i = j
    <3>1. CASE i \in 1..n /\ j \in 1..n
      <4>1. waitingTasks[i].name = waitingTasks[j].name
        BY <3>1, <2>4, <2>13
      <4> QED
        BY <4>1, <3>1, <2>3 DEF ListInv, NoDuplicateEntries
    <3>2. CASE i \in 1..n /\ j = n + 1
      BY <3>2, <2>4, <2>5, <2>13
    <3>3. CASE i = n + 1 /\ j \in 1..n
      BY <3>3, <2>4, <2>5, <2>13
    <3> QED
      BY <3>1, <3>2, <3>3, <2>10
  <2>14. ListMatchesMap'
    BY <2>6, <2>11, <2>12 DEF ListMatchesMap
  <2>15. NoDuplicateEntries'
    BY <2>6, <2>13 DEF NoDuplicateEntries
  <2> QED
    BY <2>14, <2>15
<1> QED
  BY <1>3, <1>4

\* The entries a task runner or a caller queues are well typed.
LEMMA QueuedEntryType ==
  ASSUME TypeOK
  PROVE  /\ \A n \in Names, t \in Tasks :
              [name |-> n, task |-> t, due |-> TRUE] \in waitingTaskEntry
         /\ \A r \in runners : activeTaskMap[r.name] # NoTask =>
              [name |-> r.name, task |-> RetriedTask(r), due |-> FALSE] \in waitingTaskEntry
<1>1. \A r \in runners : r.name \in Names
  BY DEF TypeOK, taskRunner
<1> QED
  BY <1>1 DEF TypeOK, waitingTaskEntry, RetriedTask

\* Every step of the loop keeps list and map in agreement.
LEMMA ListInvStep ==
  ASSUME TypeOK, ListInv, [Next]_vars
  PROVE  ListInv'
<1> USE DEF ListInv
<1>1. CASE BeginQueueing
  BY <1>1 DEF BeginQueueing, ScanAtRest, ListMatchesMap, NoDuplicateEntries, Unscanned
<1>2. CASE ScanEntry
  <2> DEFINE e == waitingTasks[idx]
  <2>1. /\ idx \in Unscanned
        /\ Unscanned' = Unscanned \ {idx}
        /\ pc' = "scan" /\ waitingTasks' = waitingTasks
    BY <1>2 DEF ScanEntry, Unscanned, TypeOK
  <2>2. e.name \in Names /\ e.task \in Tasks
    BY <2>1, EntryType DEF Unscanned
  <2>3. CASE startNewTask(e) /\ UNCHANGED updatedWaitingTasks
    <3>1. waitingTasksByName' = [waitingTasksByName EXCEPT ![e.name] = NoTask]
      BY <2>3 DEF startNewTask
    <3>2. \A i \in Unscanned' : waitingTasks[i].name # e.name
      BY <2>1 DEF NoDuplicateEntries
    <3>3. \A i \in DOMAIN updatedWaitingTasks : updatedWaitingTasks[i].name # e.name
      BY <2>1 DEF NoDuplicateEntries
    <3>4. ListMatchesMap'
      <4>1. \A i \in DOMAIN updatedWaitingTasks :
              waitingTasksByName'[updatedWaitingTasks[i].name] = updatedWaitingTasks[i].task
        BY <3>1, <3>3, EntryType DEF ListMatchesMap, TypeOK
      <4>2. \A i \in Unscanned' : waitingTasksByName'[waitingTasks[i].name] = waitingTasks[i].task
        BY <2>1, <3>1, <3>2, EntryType DEF ListMatchesMap, TypeOK, Unscanned
      <4>3. \A n \in Names : waitingTasksByName'[n] # NoTask =>
              \/ \E i \in DOMAIN updatedWaitingTasks : updatedWaitingTasks[i].name = n
              \/ \E i \in Unscanned' : waitingTasks[i].name = n
        BY <2>1, <2>2, <3>1 DEF ListMatchesMap, TypeOK
      <4> QED
        BY <2>1, <2>3, <4>1, <4>2, <4>3 DEF ListMatchesMap
    <3> QED
      BY <2>1, <2>3, <3>4 DEF ScanAtRest, NoDuplicateEntries
  <2>4. CASE /\ updatedWaitingTasks' = Append(updatedWaitingTasks, e)
             /\ UNCHANGED waitingTasksByName
    <3> DEFINE n == Len(updatedWaitingTasks)
    <3>1. /\ n \in Nat
          /\ DOMAIN updatedWaitingTasks = 1..n
          /\ DOMAIN updatedWaitingTasks' = 1..(n + 1)
          /\ updatedWaitingTasks'[n + 1] = e
          /\ \A i \in 1..n : updatedWaitingTasks'[i] = updatedWaitingTasks[i]
      BY <2>4 DEF TypeOK
    <3>2. \A i \in 1..n : updatedWaitingTasks[i].name # e.name
      BY <2>1, <3>1 DEF NoDuplicateEntries
    <3>3. \A i \in Unscanned' : waitingTasks[i].name # e.name
      BY <2>1 DEF NoDuplicateEntries
    <3>4. ListMatchesMap'
      <4> HIDE DEF n
      <4>1. \A i \in DOMAIN updatedWaitingTasks' :
              waitingTasksByName[updatedWaitingTasks'[i].name] = updatedWaitingTasks'[i].task
        BY <2>1, <3>1 DEF ListMatchesMap
      <4>2. \A m \in Names : waitingTasksByName[m] # NoTask =>
              \/ \E i \in DOMAIN updatedWaitingTasks' : updatedWaitingTasks'[i].name = m
              \/ \E i \in Unscanned' : waitingTasks[i].name = m
        BY <2>1, <3>1 DEF ListMatchesMap
      <4> QED
        BY <2>1, <2>4, <4>1, <4>2 DEF ListMatchesMap
    <3>5. NoDuplicateEntries'
      <4> HIDE DEF n
      <4> QED
        BY <2>1, <3>1, <3>2, <3>3 DEF NoDuplicateEntries
    <3> QED
      BY <2>1, <3>4, <3>5 DEF ScanAtRest
  <2> QED
    BY <1>2, <2>3, <2>4 DEF ScanEntry
<1>3. CASE EndScan
  <2>1. Unscanned = {} /\ Unscanned' = DOMAIN updatedWaitingTasks
    <3>1. /\ DOMAIN waitingTasks = 1..Len(waitingTasks) /\ Len(waitingTasks) \in Nat
          /\ DOMAIN updatedWaitingTasks = 1..Len(updatedWaitingTasks)
          /\ idx \in Nat /\ idx > Len(waitingTasks)
      BY <1>3 DEF EndScan, TypeOK
    <3>2. Unscanned = {}
      BY <3>1 DEF Unscanned
    <3>3. waitingTasks' = updatedWaitingTasks /\ idx' = 1
      BY <1>3 DEF EndScan
    <3>4. Unscanned' = {i \in DOMAIN updatedWaitingTasks : i >= 1}
      BY <3>3 DEF Unscanned
    <3> QED
      BY <3>1, <3>2, <3>4
  <2>2. DOMAIN updatedWaitingTasks' = {}
    BY <1>3 DEF EndScan
  <2> QED
    BY <1>3, <2>1, <2>2 DEF EndScan, ScanAtRest, ListMatchesMap, NoDuplicateEntries
<1>4. ASSUME NEW n \in Names, NEW t \in Tasks, ReceiveAddTask(n, t)
      PROVE  ListInv'
  <2> DEFINE e == [name |-> n, task |-> t, due |-> TRUE]
  <2>1. e \in waitingTaskEntry
    BY QueuedEntryType
  <2>2. addTask(e) /\ pc # "scan" /\ pc' = "queue" /\ UNCHANGED <<idx, updatedWaitingTasks>>
    BY <1>4 DEF ReceiveAddTask
  <2> HIDE DEF e
  <2> QED
    BY <2>1, <2>2, addTaskListInv DEF ScanAtRest
<1>5. ASSUME NEW r \in runners, ReceiveWorkCompleted(r)
      PROVE  ListInv'
  <2>1. pc # "scan" /\ pc' = "queue" /\ UNCHANGED <<idx, updatedWaitingTasks>>
    BY <1>5 DEF ReceiveWorkCompleted
  <2>2. CASE r.result = "retry" /\ activeTaskMap[r.name] # NoTask
    <3> DEFINE e == [name |-> r.name, task |-> RetriedTask(r), due |-> FALSE]
    <3>1. e \in waitingTaskEntry
      BY <2>2, QueuedEntryType
    <3>2. addTask(e)
      BY <1>5, <2>2 DEF ReceiveWorkCompleted
    <3> HIDE DEF e
    <3> QED
      BY <2>1, <3>1, <3>2, addTaskListInv DEF ScanAtRest
  <2>3. CASE ~(r.result = "retry" /\ activeTaskMap[r.name] # NoTask)
    <3>1. UNCHANGED <<waitingTasks, waitingTasksByName>>
      BY <1>5, <2>3 DEF ReceiveWorkCompleted
    <3> QED
      BY <2>1, <3>1 DEF ScanAtRest, ListMatchesMap, NoDuplicateEntries, Unscanned
  <2> QED
    BY <2>2, <2>3
<1>6. CASE ReceiveTick
  BY <1>6 DEF ReceiveTick, ScanAtRest, ListMatchesMap, NoDuplicateEntries, Unscanned
<1>7. ASSUME NEW r \in runners, PerformTask(r)
      PROVE  ListInv'
  BY <1>7 DEF PerformTask, loopVars, ScanAtRest, ListMatchesMap, NoDuplicateEntries, Unscanned
<1>8. ASSUME NEW i \in DOMAIN waitingTasks, RetryTimePasses(i)
      PROVE  ListInv'
  <2>1. waitingTasks[i] \in waitingTaskEntry
    BY DEF TypeOK
  <2>2. waitingTasks' = [waitingTasks EXCEPT ![i] = [waitingTasks[i] EXCEPT !.due = TRUE]]
    BY <1>8 DEF RetryTimePasses
  <2>3. /\ DOMAIN waitingTasks' = DOMAIN waitingTasks
        /\ \A j \in DOMAIN waitingTasks :
             /\ waitingTasks'[j].name = waitingTasks[j].name
             /\ waitingTasks'[j].task = waitingTasks[j].task
    BY <2>1, <2>2 DEF waitingTaskEntry
  <2>4. UNCHANGED <<pc, waitingTasksByName, idx, updatedWaitingTasks>>
    BY <1>8 DEF RetryTimePasses
  <2> QED
    BY <2>3, <2>4 DEF ScanAtRest, ListMatchesMap, NoDuplicateEntries, Unscanned
<1>9. CASE UNCHANGED vars
  BY <1>9 DEF vars, loopVars, ScanAtRest, ListMatchesMap, NoDuplicateEntries, Unscanned
<1> QED
  BY <1>1, <1>2, <1>3, <1>4, <1>5, <1>6, <1>7, <1>8, <1>9 DEF Next

-----------------------------------------------------------------------------
(* The active tasks and their goroutines.                                  *)

RunnersInv == OneRunnerPerName /\ IsFiniteSet(ActiveNames) /\ ActiveBound

\* Only a scan that found room starts a task, a task leaves the active map when
\* its goroutine ends, and nothing else touches either.
LEMMA RunnersInvStep ==
  ASSUME TypeOK, RunnersInv, [Next]_vars
  PROVE  RunnersInv'
<1> USE DEF RunnersInv
<1>0. ASSUME UNCHANGED <<activeTaskMap, runners>>
      PROVE  RunnersInv'
  BY <1>0 DEF OneRunnerPerName, ActiveNames, ActiveBound
<1>1. CASE BeginQueueing
  BY <1>0, <1>1 DEF BeginQueueing
<1>2. CASE ScanEntry
  <2> DEFINE e == waitingTasks[idx]
  <2>1. e.name \in Names /\ e.task \in Tasks
    BY <1>2, EntryType DEF ScanEntry, TypeOK
  <2>2. CASE startTask(e) /\ HasRoom /\ startNewTask(e)
    <3> DEFINE r0 == [name |-> e.name, task |-> e.task, result |-> "running"]
    <3>1. /\ activeTaskMap' = [activeTaskMap EXCEPT ![e.name] = e.task]
          /\ runners' = runners \union {r0}
      BY <2>2 DEF startNewTask
    <3>2. e.name \notin ActiveNames
      BY <2>2 DEF startTask, ActiveNames
    <3>3. ActiveNames' = ActiveNames \union {e.name}
      BY <2>1, <3>1, NoTaskAssumption DEF ActiveNames, TypeOK
    <3>4. IsFiniteSet(ActiveNames') /\ Cardinality(ActiveNames') = Cardinality(ActiveNames) + 1
      BY <3>2, <3>3, FS_AddElement
    <3>5. ActiveBound'
      BY <2>2, <3>4, FS_CardinalityType, MaxActiveRunnersAssumption DEF HasRoom, ActiveBound
    <3>6. \A r \in runners : r.name \in Names /\ r.task \in Tasks /\ r.name # e.name
      BY <2>2, NoTaskAssumption DEF TypeOK, taskRunner, OneRunnerPerName, startTask
    <3>7. OneRunnerPerName'
      <4>1. r0.name = e.name /\ r0.task = e.task
        OBVIOUS
      <4> HIDE DEF r0
      <4> QED
        BY <2>1, <3>1, <3>3, <3>6, <4>1 DEF OneRunnerPerName, TypeOK
    <3> QED
      BY <3>4, <3>5, <3>7
  <2>3. CASE UNCHANGED <<activeTaskMap, runners>>
    BY <1>0, <2>3
  <2> QED
    BY <1>2, <2>2, <2>3 DEF ScanEntry
<1>3. CASE EndScan
  BY <1>0, <1>3 DEF EndScan
<1>4. ASSUME NEW n \in Names, NEW t \in Tasks, ReceiveAddTask(n, t)
      PROVE  RunnersInv'
  BY <1>0, <1>4 DEF ReceiveAddTask
<1>5. ASSUME NEW r \in runners, ReceiveWorkCompleted(r)
      PROVE  RunnersInv'
  <2>1. r.name \in Names
    BY DEF TypeOK, taskRunner
  <2>2. /\ activeTaskMap' = [activeTaskMap EXCEPT ![r.name] = NoTask]
        /\ runners' = runners \ {r}
    BY <1>5 DEF ReceiveWorkCompleted, ActiveAfter
  <2>3. ActiveNames' = ActiveNames \ {r.name}
    BY <2>1, <2>2 DEF ActiveNames, TypeOK
  <2>4. /\ IsFiniteSet(ActiveNames')
        /\ Cardinality(ActiveNames') \in Nat /\ Cardinality(ActiveNames) \in Nat
        /\ Cardinality(ActiveNames') <= Cardinality(ActiveNames)
    BY <2>3, FS_Subset, FS_CardinalityType
  <2>5. ActiveBound'
    BY <2>4, MaxActiveRunnersAssumption DEF ActiveBound
  <2>6. \A q \in runners' : q.name \in Names /\ q.name # r.name
    BY <2>2 DEF OneRunnerPerName, TypeOK, taskRunner
  <2>7. OneRunnerPerName'
    BY <2>1, <2>2, <2>3, <2>6 DEF OneRunnerPerName, TypeOK
  <2> QED
    BY <2>4, <2>5, <2>7
<1>6. CASE ReceiveTick
  BY <1>0, <1>6 DEF ReceiveTick
<1>7. ASSUME NEW r \in runners, PerformTask(r)
      PROVE  RunnersInv'
  <2>1. PICK res \in {"retry", "done"} :
          runners' = (runners \ {r}) \union {[r EXCEPT !.result = res]}
    BY <1>7 DEF PerformTask
  <2> DEFINE q0 == [r EXCEPT !.result = res]
  <2>2. q0.name = r.name /\ q0.task = r.task
    BY DEF TypeOK, taskRunner
  <2>3. activeTaskMap' = activeTaskMap
    BY <1>7 DEF PerformTask, loopVars
  <2>4. ActiveNames' = ActiveNames
    BY <2>3 DEF ActiveNames
  <2> HIDE DEF q0
  <2>5. runners' = (runners \ {r}) \union {q0}
    BY <2>1 DEF q0
  <2>6. OneRunnerPerName'
    BY <2>2, <2>3, <2>4, <2>5 DEF OneRunnerPerName
  <2> QED
    BY <2>4, <2>6 DEF ActiveBound
<1>8. ASSUME NEW i \in DOMAIN waitingTasks, RetryTimePasses(i)
      PROVE  RunnersInv'
  BY <1>0, <1>8 DEF RetryTimePasses
<1>9. CASE UNCHANGED vars
  BY <1>0, <1>9 DEF vars, loopVars
<1> QED
  BY <1>1, <1>2, <1>3, <1>4, <1>5, <1>6, <1>7, <1>8, <1>9 DEF Next

-----------------------------------------------------------------------------
(* The theorems.                                                           *)

\* The inductive invariant.
IInv == TypeOK /\ ListInv /\ RunnersInv /\ NoRequestLost

\* Every step keeps every request in the waiting list: the list forgets a name
\* only when a task of that name starts.
LEMMA NoRequestLostStep ==
  ASSUME IInv, [Next]_vars
  PROVE  NoRequestLost'
<1> USE DEF IInv, NoRequestLost
<1>0. ASSUME UNCHANGED <<owed, waitingTasksByName>>
      PROVE  NoRequestLost'
  BY <1>0
<1>1. CASE ScanEntry
  <2> DEFINE e == waitingTasks[idx]
  <2>1. e.name \in Names
    BY <1>1, EntryType DEF ScanEntry, TypeOK
  <2>2. CASE startNewTask(e)
    BY <2>1, <2>2 DEF startNewTask, TypeOK
  <2>3. CASE UNCHANGED <<owed, waitingTasksByName>>
    BY <2>3
  <2> QED
    BY <1>1, <2>2, <2>3 DEF ScanEntry
<1>2. ASSUME NEW e \in waitingTaskEntry, addTask(e), owed' = owed \union {e.name}
      PROVE  NoRequestLost'
  <2>1. e.name \in Names /\ e.task # NoTask
    BY NoTaskAssumption DEF waitingTaskEntry
  <2>2. waitingTasksByName' \in [Names -> Tasks \union {NoTask}]
    BY <1>2, addTaskType
  <2> QED
    BY <1>2, <2>1, <2>2 DEF addTask, TypeOK
<1>3. ASSUME NEW n \in Names, NEW t \in Tasks, ReceiveAddTask(n, t)
      PROVE  NoRequestLost'
  <2> DEFINE e == [name |-> n, task |-> t, due |-> TRUE]
  <2>1. e \in waitingTaskEntry /\ addTask(e) /\ owed' = owed \union {e.name}
    BY <1>3, QueuedEntryType DEF ReceiveAddTask
  <2> HIDE DEF e
  <2> QED
    BY <1>2, <2>1
<1>4. ASSUME NEW r \in runners, ReceiveWorkCompleted(r)
      PROVE  NoRequestLost'
  <2>1. r.name \in Names /\ activeTaskMap[r.name] # NoTask
    BY NoTaskAssumption DEF TypeOK, taskRunner, RunnersInv, OneRunnerPerName
  <2>2. CASE r.result = "retry"
    <3> DEFINE e == [name |-> r.name, task |-> RetriedTask(r), due |-> FALSE]
    <3>1. e \in waitingTaskEntry
      BY <2>1, QueuedEntryType
    <3>2. addTask(e) /\ owed' = owed \union {e.name}
      BY <1>4, <2>1, <2>2 DEF ReceiveWorkCompleted
    <3> HIDE DEF e
    <3> QED
      BY <1>2, <3>1, <3>2
  <2>3. CASE r.result # "retry"
    BY <1>0, <1>4, <2>3 DEF ReceiveWorkCompleted
  <2> QED
    BY <2>2, <2>3
<1>5. CASE BeginQueueing \/ EndScan \/ ReceiveTick
  BY <1>0, <1>5 DEF BeginQueueing, EndScan, ReceiveTick
<1>6. ASSUME NEW r \in runners, PerformTask(r)
      PROVE  NoRequestLost'
  BY <1>0, <1>6 DEF PerformTask, loopVars
<1>7. ASSUME NEW i \in DOMAIN waitingTasks, RetryTimePasses(i)
      PROVE  NoRequestLost'
  BY <1>0, <1>7 DEF RetryTimePasses
<1>8. CASE UNCHANGED vars
  BY <1>0, <1>8 DEF vars, loopVars
<1> QED
  BY <1>1, <1>3, <1>4, <1>5, <1>6, <1>7, <1>8 DEF Next

\* The invariant holds in every reachable state of the loop.
LEMMA Invariance == SafetySpec => []IInv
<1>1. Init => IInv
  <2> SUFFICES ASSUME Init PROVE IInv
    OBVIOUS
  <2>1. TypeOK
    BY DEF Init, TypeOK
  <2>2. ListInv
    BY DEF Init, ListInv, ScanAtRest, ListMatchesMap, NoDuplicateEntries, Unscanned
  <2>3. ActiveNames = {}
    BY DEF Init, ActiveNames
  <2>4. RunnersInv
    BY <2>3, FS_EmptySet, MaxActiveRunnersAssumption
       DEF Init, RunnersInv, OneRunnerPerName, ActiveBound
  <2> QED
    BY <2>1, <2>2, <2>4 DEF Init, IInv, NoRequestLost
<1>2. TypeOK /\ IInv /\ [Next]_vars /\ TypeOK' => IInv'
  BY ListInvStep, RunnersInvStep, NoRequestLostStep DEF IInv
<1> QED
  BY <1>1, <1>2, TypeCorrect, PTL DEF SafetySpec

\* The list and the map of waiting tasks always agree, and no name waits twice.
THEOREM WaitingTasksAgree == SafetySpec => [](ListMatchesMap /\ NoDuplicateEntries)
BY Invariance, PTL DEF IInv, ListInv

\* No two tasks of one name ever run at once, and never more than
\* maxActiveRunners tasks in all.
THEOREM RunnersExclusive == SafetySpec => [](OneRunnerPerName /\ ActiveBound)
BY Invariance, PTL DEF IInv, RunnersInv

\* A name that was asked for waits until a task of that name starts.
THEOREM RequestsKept == SafetySpec => []NoRequestLost
BY Invariance, PTL DEF IInv

\* The loop implements the safety half of RetryQueue: the map of waiting tasks
\* and the map of active tasks change exactly as the abstract queue's do.
THEOREM ImplementsRetryQueue == SafetySpec => ImplementsQueueSafety
<1>1. Init => Queue!QInit
  BY DEF Init, Queue!QInit
<1>2. IInv /\ [Next]_vars => [Queue!QNext]_(Queue!qvars)
  <2> SUFFICES ASSUME IInv, [Next]_vars PROVE [Queue!QNext]_(Queue!qvars)
    OBVIOUS
  <2>0. ASSUME UNCHANGED <<waitingTasksByName, activeTaskMap>>
        PROVE  UNCHANGED Queue!qvars
    BY <2>0 DEF Queue!qvars
  <2>1. CASE ScanEntry
    <3> DEFINE e == waitingTasks[idx]
    <3>1. e.name \in Names /\ e.task \in Tasks
      BY <2>1, EntryType DEF ScanEntry, IInv, TypeOK
    <3>2. waitingTasksByName[e.name] = e.task
      BY <2>1 DEF ScanEntry, IInv, ListInv, ListMatchesMap, Unscanned, TypeOK
    <3>3. CASE startTask(e) /\ HasRoom /\ startNewTask(e)
      <4>1. Queue!RunningNames = ActiveNames
        BY DEF Queue!RunningNames, ActiveNames
      <4>2. Queue!Cardinality(Queue!RunningNames) < MaxActiveRunners
        BY <3>3, <4>1 DEF HasRoom, Queue!Cardinality, Cardinality
      <4>3. waitingTasksByName[e.name] # NoTask /\ activeTaskMap[e.name] = NoTask
        BY <3>1, <3>2, <3>3, NoTaskAssumption DEF startTask
      <4>4. /\ activeTaskMap' = [activeTaskMap EXCEPT ![e.name] = waitingTasksByName[e.name]]
            /\ waitingTasksByName' = [waitingTasksByName EXCEPT ![e.name] = NoTask]
        BY <3>2, <3>3 DEF startNewTask
      <4>5. Queue!Start(e.name)
        BY <4>2, <4>3, <4>4 DEF Queue!Start
      <4> QED
        BY <3>1, <4>5 DEF Queue!QNext
    <3>4. CASE UNCHANGED <<waitingTasksByName, activeTaskMap>>
      BY <2>0, <3>4
    <3> QED
      BY <2>1, <3>3, <3>4 DEF ScanEntry
  <2>2. ASSUME NEW n \in Names, NEW t \in Tasks, ReceiveAddTask(n, t)
        PROVE  Queue!QNext
    <3>1. Queue!Add(n, t)
      BY <2>2 DEF ReceiveAddTask, addTask, Queue!Add, Queue!Offer
    <3> QED
      BY <3>1 DEF Queue!QNext
  <2>3. ASSUME NEW r \in runners, ReceiveWorkCompleted(r)
        PROVE  Queue!QNext
    <3>1. r.name \in Names /\ activeTaskMap[r.name] # NoTask
      BY NoTaskAssumption DEF IInv, TypeOK, taskRunner, RunnersInv, OneRunnerPerName
    <3>2. CASE r.result = "retry"
      <4>1. Queue!Finish(r.name, TRUE)
        BY <2>3, <3>1, <3>2 DEF ReceiveWorkCompleted, ActiveAfter, RetriedTask, addTask,
                                Queue!Finish, Queue!Offer
      <4> QED
        BY <3>1, <4>1 DEF Queue!QNext
    <3>3. CASE r.result # "retry"
      <4>1. Queue!Finish(r.name, FALSE)
        BY <2>3, <3>1, <3>3 DEF ReceiveWorkCompleted, ActiveAfter, Queue!Finish
      <4> QED
        BY <3>1, <4>1 DEF Queue!QNext
    <3> QED
      BY <3>2, <3>3
  <2>4. CASE BeginQueueing \/ EndScan \/ ReceiveTick
    BY <2>0, <2>4 DEF BeginQueueing, EndScan, ReceiveTick
  <2>5. ASSUME NEW r \in runners, PerformTask(r)
        PROVE  UNCHANGED Queue!qvars
    BY <2>0, <2>5 DEF PerformTask, loopVars
  <2>6. ASSUME NEW i \in DOMAIN waitingTasks, RetryTimePasses(i)
        PROVE  UNCHANGED Queue!qvars
    BY <2>0, <2>6 DEF RetryTimePasses
  <2>7. CASE UNCHANGED vars
    BY <2>0, <2>7 DEF vars, loopVars
  <2> QED
    BY <2>1, <2>2, <2>3, <2>4, <2>5, <2>6, <2>7 DEF Next
<1> QED
  BY <1>1, <1>2, Invariance, PTL DEF SafetySpec, ImplementsQueueSafety, Queue!QSafety
=============================================================================
