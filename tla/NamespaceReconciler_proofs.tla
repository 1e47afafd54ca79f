----------------------- MODULE NamespaceReconciler_proofs -----------------------
(***************************************************************************)
(* Proof that a sweep which is not disturbed deletes no Application that   *)
(* has a row, for any set of Applications, any size of a batch and any     *)
(* number of edits and faults.                                             *)
(***************************************************************************)
EXTENDS NamespaceReconciler, SequenceTheorems, TLAPS

\* A row has contents.  An id that ever had a row keeps a version, and so is not
\* inserted again.
RowsInv == \A a \in Live : contents[a].ver # 0

\* An Application of Argo CD was made from a row.
ArgoInv == \A a \in Apps : argo[a] # 0 => contents[a].ver # 0

\* So was one the sweep has listed.
ListedInv == \A a \in listed : contents[a].ver # 0

BatchInv == pc = "row" => batch # <<>>

\* a's row is among those fetched and not yet looked at.
InBatch(a) == pc = "row" /\ \E k \in DOMAIN batch : batch[k].app = a

\* What the walk has behind it: a row before the offset has been met or is in the batch,
\* unless its Application was not listed.  A row that was inserted before the offset
\* since the listing is of that kind.
WalkInv ==
  pc # "idle" /\ ~disturbed =>
    \A i \in DOMAIN rows :
      i <= offset /\ rows[i] \in listed => rows[i] \in processed \/ InBatch(rows[i])

\* What is to be deleted has no row and will not get one.
DoomedInv == \A a \in doomed \ suspect : a \notin Live /\ contents[a].ver # 0

IInv == TypeOK /\ RowsInv /\ ArgoInv /\ ListedInv /\ BatchInv /\ WalkInv /\ DoomedInv
-----------------------------------------------------------------------------
(* Lemmas                                                                  *)

\* The bounds on failures hold.
LEMMA FaultBounded ==
  ASSUME TypeOK, Fault
  PROVE  faults' \in 0..MaxFaults /\ batchFaults' \in 0..MaxBatchFaults
<1>1. faults \in 0..MaxFaults /\ faults < MaxFaults /\ faults' = faults + 1
  BY DEF TypeOK, Fault
<1>2. faults' \in 0..MaxFaults
  BY <1>1, BoundsAssumption
<1> QED
  BY <1>2 DEF TypeOK, Fault

\* Creating an Operation for a row, or failing to, changes nothing else.
LEMMA OperationMadeType ==
  ASSUME TypeOK, NEW a \in Apps, OperationMade(a)
  PROVE  /\ pending' \subseteq Apps
         /\ faults' \in 0..MaxFaults /\ batchFaults' \in 0..MaxBatchFaults
<1>1. CASE pending' = pending \union {a} /\ UNCHANGED faultVars
  BY <1>1 DEF TypeOK, faultVars
<1>2. CASE UNCHANGED pending /\ Fault
  BY <1>2, FaultBounded DEF TypeOK
<1> QED
  BY <1>1, <1>2 DEF OperationMade

\* The table is a sequence of ids.
LEMMA RowsFacts ==
  ASSUME TypeOK
  PROVE  /\ Len(rows) \in Nat /\ DOMAIN rows = 1..Len(rows)
         /\ \A i \in DOMAIN rows : rows[i] \in Apps
         /\ Live \subseteq Apps
  BY LenProperties, ElementOfSeq DEF TypeOK, Live

\* A step that leaves the table and the sweep alone, and does not add to the
\* Applications that are to be deleted, keeps the invariant.
LEMMA QuietStep ==
  ASSUME IInv, TypeOK', ArgoInv',
         UNCHANGED <<dbVars, sweepVars, disturbed>>,
         doomed' \ suspect' \subseteq doomed \ suspect
  PROVE  IInv'
<1>1. /\ UNCHANGED <<rows, contents, pc, listed, processed, offset, batch, disturbed>>
  BY DEF dbVars, sweepVars
<1>2. RowsInv' /\ ListedInv' /\ BatchInv' /\ DoomedInv'
  BY <1>1 DEF IInv, RowsInv, ListedInv, BatchInv, DoomedInv, Live
<1>3. WalkInv'
  BY <1>1 DEF IInv, WalkInv, InBatch
<1> QED
  BY <1>2, <1>3 DEF IInv

\* The same for a step that ends the cycle.
LEMMA IdleStep ==
  ASSUME IInv, TypeOK', UNCHANGED <<dbVars, argo>>, pc' = "idle", listed' = {},
         DoomedInv'
  PROVE  IInv'
<1>1. RowsInv' /\ ArgoInv' /\ ListedInv' /\ BatchInv' /\ WalkInv'
  BY DEF IInv, RowsInv, ArgoInv, ListedInv, BatchInv, WalkInv, Live, dbVars
<1> QED
  BY <1>1 DEF IInv
-----------------------------------------------------------------------------
(* The backend                                                             *)

\* A row that is inserted is new: its Application is neither listed nor to be deleted.
LEMMA InsertStep ==
  ASSUME IInv, NEW a \in Apps, InsertRow(a)
  PROVE  IInv'
<1>1. /\ contents[a].ver = 0 /\ rows' = Append(rows, a)
      /\ contents' = [contents EXCEPT ![a].ver = 1]
      /\ UNCHANGED <<argo, pc, listed, processed, offset, batch, doomed, disturbed, suspect>>
  BY DEF InsertRow, sweepVars, history
<1>2. contents' \in [Apps -> [ver : 0..MaxVersion, env : BOOLEAN]]
  <2>1. 1 \in 0..MaxVersion
    BY BoundsAssumption
  <2>2. contents \in [Apps -> [ver : 0..MaxVersion, env : BOOLEAN]]
    BY DEF IInv, TypeOK
  <2> QED
    BY <1>1, <2>1, <2>2
<1>3. /\ contents'[a].ver = 1
      /\ \A b \in Apps : b # a => contents'[b] = contents[b]
  BY <1>1 DEF IInv, TypeOK
<1>4. /\ rows' \in Seq(Apps) /\ Len(rows') = Len(rows) + 1
      /\ \A i \in 1..Len(rows) : rows'[i] = rows[i]
      /\ rows'[Len(rows) + 1] = a
  BY <1>1, AppendProperties DEF IInv, TypeOK
<1>5. /\ Len(rows) \in Nat /\ DOMAIN rows = 1..Len(rows) /\ Live \subseteq Apps
      /\ \A i \in DOMAIN rows : rows[i] \in Apps
  BY RowsFacts DEF IInv
<1>6. DOMAIN rows' = 1..(Len(rows) + 1)
  BY <1>4, LenProperties
<1>7. \A i \in DOMAIN rows' : rows'[i] = a \/ (i \in DOMAIN rows /\ rows'[i] = rows[i])
  BY <1>4, <1>5, <1>6
<1>8. Live' \subseteq Live \union {a}
  BY <1>7 DEF Live
<1>9. TypeOK'
  <2>1. /\ pending' \subseteq Apps
        /\ faults' \in 0..MaxFaults /\ batchFaults' \in 0..MaxBatchFaults
    BY OperationMadeType DEF IInv, InsertRow
  <2> QED
    BY <1>1, <1>2, <1>4, <2>1 DEF IInv, TypeOK
<1>10. \A b \in Apps : contents[b].ver # 0 => b # a /\ contents'[b].ver # 0
  BY <1>1, <1>3
<1>11. RowsInv'
  BY <1>3, <1>5, <1>8, <1>10 DEF IInv, RowsInv
<1>12. ArgoInv' /\ ListedInv'
  BY <1>1, <1>10 DEF IInv, TypeOK, ArgoInv, ListedInv
<1>13. BatchInv'
  BY <1>1 DEF IInv, BatchInv
<1>14. WalkInv'
  <2> SUFFICES ASSUME pc # "idle", ~disturbed,
                      NEW i \in DOMAIN rows', i <= offset, rows'[i] \in listed
               PROVE  (rows[i] \in processed \/ InBatch(rows[i]))'
    BY <1>1 DEF WalkInv
  <2>1. rows'[i] # a
    BY <1>1 DEF IInv, ListedInv
  <2>2. i \in DOMAIN rows /\ rows'[i] = rows[i]
    BY <1>7, <2>1
  <2>3. rows[i] \in processed \/ InBatch(rows[i])
    BY <2>2 DEF IInv, WalkInv
  <2> QED
    BY <1>1, <2>2, <2>3 DEF InBatch
<1>15. DoomedInv'
  BY <1>1, <1>8, <1>10 DEF IInv, TypeOK, DoomedInv
<1> QED
  BY <1>9, <1>11, <1>12, <1>13, <1>14, <1>15 DEF IInv

\* An edit leaves every id with a version.
LEMMA EditStep ==
  ASSUME IInv, NEW a \in Apps, EditRow(a)
  PROVE  IInv'
<1>1. /\ a \in Live /\ contents[a].ver < MaxVersion
      /\ UNCHANGED <<rows, argo, pc, listed, processed, offset, batch, doomed, disturbed, suspect>>
  BY DEF EditRow, sweepVars, history
<1>2. PICK env \in BOOLEAN :
        contents' = [contents EXCEPT ![a] = [ver |-> contents[a].ver + 1, env |-> env]]
  BY DEF EditRow
<1>3. contents[a].ver \in 0..MaxVersion
  BY DEF IInv, TypeOK
<1>4. contents[a].ver + 1 \in 1..MaxVersion
  BY <1>1, <1>3, BoundsAssumption
<1>5. contents' \in [Apps -> [ver : 0..MaxVersion, env : BOOLEAN]]
  BY <1>2, <1>4, BoundsAssumption DEF IInv, TypeOK
<1>6. \A b \in Apps : contents[b].ver # 0 => contents'[b].ver # 0
  BY <1>2, <1>4 DEF IInv, TypeOK
<1>7. TypeOK'
  <2>1. /\ pending' \subseteq Apps
        /\ faults' \in 0..MaxFaults /\ batchFaults' \in 0..MaxBatchFaults
    BY OperationMadeType DEF IInv, EditRow
  <2> QED
    BY <1>1, <1>5, <2>1 DEF IInv, TypeOK
<1>8. Live \subseteq Apps
  BY RowsFacts DEF IInv
<1>9. RowsInv' /\ ArgoInv' /\ ListedInv' /\ BatchInv' /\ DoomedInv'
  BY <1>1, <1>6, <1>8 DEF IInv, TypeOK, RowsInv, ArgoInv, ListedInv, BatchInv, DoomedInv, Live
<1>10. WalkInv'
  BY <1>1 DEF IInv, WalkInv, InBatch
<1> QED
  BY <1>7, <1>9, <1>10 DEF IInv

\* A row that is deleted during a walk shifts those behind it: the cycle is disturbed.
LEMMA DeleteStep ==
  ASSUME IInv, NEW a \in Apps, DeleteRow(a)
  PROVE  IInv'
<1>1. /\ UNCHANGED <<contents, argo, pc, listed, processed, offset, batch, doomed, suspect>>
      /\ disturbed' = (disturbed \/ pc # "idle")
  BY DEF DeleteRow, sweepVars
<1>2. PICK i \in DOMAIN rows :
        rows' = SubSeq(rows, 1, i - 1) \o SubSeq(rows, i + 1, Len(rows))
  BY DEF DeleteRow
<1>3. /\ Len(rows) \in Nat /\ DOMAIN rows = 1..Len(rows) /\ Live \subseteq Apps
      /\ \A j \in DOMAIN rows : rows[j] \in Apps
  BY RowsFacts DEF IInv
<1>4. i \in 1..Len(rows)
  BY <1>3
<1> DEFINE s == SubSeq(rows, 1, i - 1)
           t == SubSeq(rows, i + 1, Len(rows))
<1>5. /\ s \in Seq(Apps) /\ Len(s) = i - 1
      /\ \A j \in 1..(i - 1) : s[j] = rows[j]
  <2>1. \A j \in 1..(i - 1) : rows[j] \in Apps
    BY <1>3, <1>4
  <2>2. 1 \in Int /\ i - 1 \in Int /\ i - 1 >= 0
    BY <1>3, <1>4
  <2>3. /\ s \in Seq(Apps)
        /\ Len(s) = IF 1 <= i - 1 THEN i - 1 - 1 + 1 ELSE 0
        /\ \A j \in 1..(i - 1 - 1 + 1) : s[j] = rows[1 + j - 1]
    BY <2>1, <2>2, SubSeqProperties
  <2> QED
    BY <2>2, <2>3
<1>6. /\ t \in Seq(Apps) /\ Len(t) = Len(rows) - i
      /\ \A j \in 1..(Len(rows) - i) : t[j] = rows[i + j]
  <2>1. \A j \in (i + 1)..Len(rows) : rows[j] \in Apps
    BY <1>3, <1>4
  <2>2. i \in Int /\ i + 1 \in Int /\ Len(rows) \in Int /\ i <= Len(rows)
    BY <1>3, <1>4
  <2>3. /\ t \in Seq(Apps)
        /\ Len(t) = IF i + 1 <= Len(rows) THEN Len(rows) - (i + 1) + 1 ELSE 0
        /\ \A j \in 1..(Len(rows) - (i + 1) + 1) : t[j] = rows[(i + 1) + j - 1]
    BY <2>1, <2>2, SubSeqProperties
  <2> QED
    BY <2>2, <2>3
<1> HIDE DEF s, t
<1>7. rows' = s \o t
  BY <1>2 DEF s, t
<1>8. /\ rows' \in Seq(Apps) /\ Len(rows') = Len(s) + Len(t)
      /\ \A j \in 1..(Len(s) + Len(t)) : rows'[j] = IF j <= Len(s) THEN s[j] ELSE t[j - Len(s)]
  BY <1>5, <1>6, <1>7, ConcatProperties
<1>9. \A j \in DOMAIN rows' : \E k \in DOMAIN rows : rows'[j] = rows[k]
  <2> SUFFICES ASSUME NEW j \in DOMAIN rows'
               PROVE  \E k \in DOMAIN rows : rows'[j] = rows[k]
    OBVIOUS
  <2>1. j \in 1..(Len(s) + Len(t))
    BY <1>8, LenProperties
  <2>2. i \in 1..Len(rows)
    BY <1>2, <1>3
  <2>3. CASE j <= Len(s)
    BY <1>3, <1>5, <1>6, <1>8, <2>1, <2>2, <2>3
  <2>4. CASE ~(j <= Len(s))
    <3>1. j - Len(s) \in 1..(Len(rows) - i)
      BY <1>3, <1>5, <1>6, <2>1, <2>2, <2>4
    <3>2. i + (j - Len(s)) \in DOMAIN rows
      BY <1>3, <1>5, <2>1, <2>2, <3>1
    <3>3. rows'[j] = rows[i + (j - Len(s))]
      BY <1>6, <1>8, <2>1, <2>4, <3>1
    <3> QED
      BY <3>2, <3>3
  <2> QED
    BY <2>3, <2>4
<1>10. Live' \subseteq Live
  BY <1>9 DEF Live
<1>11. TypeOK'
  <2>1. /\ pending' \subseteq Apps
        /\ faults' \in 0..MaxFaults /\ batchFaults' \in 0..MaxBatchFaults
    BY OperationMadeType DEF IInv, DeleteRow
  <2> QED
    BY <1>1, <1>8, <2>1 DEF IInv, TypeOK
<1>12. RowsInv' /\ ArgoInv' /\ ListedInv' /\ BatchInv' /\ WalkInv' /\ DoomedInv'
  BY <1>1, <1>10 DEF IInv, RowsInv, ArgoInv, ListedInv, BatchInv, WalkInv, DoomedInv
<1> QED
  BY <1>11, <1>12 DEF IInv
-----------------------------------------------------------------------------
(* The agent's operations, manual changes, restarts                        *)

\* An operation makes an Application from a row, which has a version.
LEMMA OperationStep ==
  ASSUME IInv, NEW a \in Apps, ProcessOperation(a)
  PROVE  IInv'
<1>1. /\ pending' = pending \ {a}
      /\ UNCHANGED <<dbVars, sweepVars, doomed, disturbed, suspect>>
  BY DEF ProcessOperation, history
<1>2. UNCHANGED <<rows, contents, pc, listed, processed, offset, batch>>
  BY <1>1 DEF dbVars, sweepVars
<1>3. CASE argo' = [argo EXCEPT ![a] = ArgoAfterOperation(a)] /\ UNCHANGED faultVars
  <2>1. /\ ArgoAfterOperation(a) \in 0..MaxVersion
        /\ ArgoAfterOperation(a) # 0 => contents[a].ver # 0
    BY BoundsAssumption DEF IInv, TypeOK, ArgoAfterOperation
  <2>2. argo' \in [Apps -> 0..MaxVersion] /\ ArgoInv'
    BY <1>2, <1>3, <2>1 DEF IInv, TypeOK, ArgoInv
  <2>3. TypeOK'
    BY <1>1, <1>2, <1>3, <2>2 DEF IInv, TypeOK, faultVars
  <2> QED
    BY <1>1, <2>2, <2>3, QuietStep
<1>4. CASE UNCHANGED argo /\ Fault
  <2>1. TypeOK'
    BY <1>1, <1>2, <1>4, FaultBounded DEF IInv, TypeOK
  <2>2. ArgoInv'
    BY <1>2, <1>4 DEF IInv, ArgoInv
  <2> QED
    BY <1>1, <2>1, <2>2, QuietStep
<1> QED
  BY <1>3, <1>4 DEF ProcessOperation

\* Deleting what is to be deleted.
LEMMA DeleteApplicationStep ==
  ASSUME IInv, NEW a \in Apps, DeleteArgoCDApplication(a) \/ ApplicationIsDeleted(a)
  PROVE  IInv'
<1>1. /\ UNCHANGED <<dbVars, pending, sweepVars, disturbed>>
      /\ doomed' \ suspect' \subseteq doomed \ suspect
      /\ doomed' \subseteq Apps /\ suspect' \subseteq doomed'
  BY DEF DeleteArgoCDApplication, ApplicationIsDeleted, history, IInv, TypeOK
<1>2. UNCHANGED <<rows, contents, pc, listed, processed, offset, batch>>
  BY <1>1 DEF dbVars, sweepVars
<1>3. argo' \in {argo, [argo EXCEPT ![a] = 0]}
  BY DEF DeleteArgoCDApplication, ApplicationIsDeleted
<1>4. 0 \in 0..MaxVersion
  BY BoundsAssumption
<1>5. argo' \in [Apps -> 0..MaxVersion] /\ ArgoInv'
  BY <1>2, <1>3, <1>4 DEF IInv, TypeOK, ArgoInv
<1>6. faults' \in 0..MaxFaults /\ batchFaults' \in 0..MaxBatchFaults
  BY FaultBounded DEF DeleteArgoCDApplication, ApplicationIsDeleted, IInv, TypeOK, faultVars
<1>7. TypeOK'
  BY <1>1, <1>2, <1>5, <1>6 DEF IInv, TypeOK
<1> QED
  BY <1>1, <1>5, <1>7, QuietStep

\* A restart forgets the cycle and what was to be deleted.
LEMMA RestartStep ==
  ASSUME IInv, AgentRestarts
  PROVE  IInv'
<1>1. /\ pc' = "idle" /\ listed' = {} /\ processed' = {} /\ offset' = 0 /\ batch' = <<>>
      /\ doomed' = {} /\ disturbed' = FALSE /\ suspect' = {}
      /\ UNCHANGED <<dbVars, argo, pending>>
  BY DEF AgentRestarts
<1>2. faults' \in 0..MaxFaults /\ batchFaults' \in 0..MaxBatchFaults
  BY FaultBounded DEF AgentRestarts, IInv
<1>3. TypeOK'
  BY <1>1, <1>2, EmptySeq DEF IInv, TypeOK, dbVars
<1>4. DoomedInv'
  BY <1>1 DEF DoomedInv
<1> QED
  BY <1>1, <1>3, <1>4, IdleStep
-----------------------------------------------------------------------------
(* The sweep                                                               *)

\* At the start the walk has nothing behind it, and what is listed has been made
\* from rows.
LEMMA StartStep ==
  ASSUME IInv, StartCycle
  PROVE  IInv'
<1>1. /\ pc' = "batch" /\ listed' = {a \in Apps : argo[a] # 0} /\ processed' = {}
      /\ offset' = 0 /\ disturbed' = FALSE
      /\ UNCHANGED <<rows, contents, argo, pending, batch, doomed, suspect, batchFaults, faults>>
  BY DEF StartCycle, dbVars, faultVars
<1>2. TypeOK'
  BY <1>1 DEF IInv, TypeOK
<1>3. RowsInv' /\ ArgoInv' /\ ListedInv' /\ BatchInv' /\ DoomedInv'
  BY <1>1 DEF IInv, RowsInv, ArgoInv, ListedInv, BatchInv, DoomedInv, Live
<1>4. WalkInv'
  <2> SUFFICES ASSUME NEW i \in DOMAIN rows
               PROVE  ~(i <= 0)
    BY <1>1 DEF WalkInv
  <2>1. i \in 1..Len(rows) /\ Len(rows) \in Nat
    BY RowsFacts DEF IInv
  <2> QED
    BY <2>1
<1> QED
  BY <1>2, <1>3, <1>4 DEF IInv

\* At the end of the cycle the orphans join those to be deleted.
LEMMA EndStep ==
  ASSUME IInv, EndCycle, UNCHANGED <<dbVars, argo, pending>>, disturbed' \in BOOLEAN,
         faults' \in 0..MaxFaults, batchFaults' \in 0..MaxBatchFaults,
         disturbed' \/ Orphans \intersect Live = {}
  PROVE  IInv'
<1>1. /\ doomed' = doomed \union Orphans
      /\ suspect' = IF disturbed' THEN suspect \union Orphans ELSE suspect
      /\ pc' = "idle" /\ listed' = {} /\ processed' = {} /\ offset' = 0
      /\ UNCHANGED batch
  BY DEF EndCycle
<1>2. Orphans \subseteq listed /\ listed \subseteq Apps
  BY DEF Orphans, IInv, TypeOK
<1>3. TypeOK'
  BY <1>1, <1>2 DEF IInv, TypeOK, dbVars
<1>4. Live' = Live /\ contents' = contents
  BY DEF Live, dbVars
<1>5. DoomedInv'
  <2> SUFFICES ASSUME NEW a \in doomed' \ suspect'
               PROVE  a \notin Live /\ contents[a].ver # 0
    BY <1>4 DEF DoomedInv
  <2>1. CASE a \in doomed \ suspect
    BY <2>1 DEF IInv, DoomedInv
  <2>2. CASE a \in Orphans /\ ~disturbed'
    BY <1>2, <2>2 DEF IInv, ListedInv
  <2> QED
    BY <1>1, <2>1, <2>2
<1> QED
  BY <1>1, <1>3, <1>5, IdleStep

\* The batch is the rows from the offset on, BatchSize of them or what there is.
LEMMA BatchFacts ==
  ASSUME IInv
  PROVE  /\ GetApplicationBatch \in Seq(BatchEntry)
         /\ GetApplicationBatch = <<>> => Len(rows) <= offset
         /\ \A i \in DOMAIN rows :
              offset < i /\ i <= offset + BatchSize =>
                \E k \in DOMAIN GetApplicationBatch : GetApplicationBatch[k].app = rows[i]
<1> DEFINE last == IF offset + BatchSize < Len(rows) THEN offset + BatchSize ELSE Len(rows)
           n == IF offset < last THEN last - offset ELSE 0
           e(i) == BatchEntryOf(rows[offset + i])
<1>1. /\ Len(rows) \in Nat /\ DOMAIN rows = 1..Len(rows) /\ offset \in Nat /\ BatchSize \in Nat \ {0}
      /\ Live \subseteq Apps
  BY RowsFacts, BatchSizeAssumption DEF IInv, TypeOK
<1>2. n \in Nat /\ \A i \in 1..n : offset + i \in DOMAIN rows
  BY <1>1
<1>3. \A i \in DOMAIN rows : BatchEntryOf(rows[i]) \in BatchEntry
  <2> SUFFICES ASSUME NEW i \in DOMAIN rows
               PROVE  BatchEntryOf(rows[i]) \in BatchEntry
    OBVIOUS
  <2>1. rows[i] \in Live /\ rows[i] \in Apps
    BY <1>1 DEF Live
  <2>2. contents[rows[i]] \in [ver : 0..MaxVersion, env : BOOLEAN] /\ contents[rows[i]].ver # 0
    BY <2>1 DEF IInv, TypeOK, RowsInv
  <2>3. contents[rows[i]].ver \in 1..MaxVersion /\ contents[rows[i]].env \in BOOLEAN
    BY <2>2, BoundsAssumption
  <2> QED
    BY <2>1, <2>3 DEF BatchEntryOf, BatchEntry
<1>4. GetApplicationBatch = [i \in 1..n |-> e(i)]
  BY DEF GetApplicationBatch
<1>5. \A i \in 1..n : e(i) \in BatchEntry
  BY <1>2, <1>3
<1>6. /\ \A i \in DOMAIN rows : offset < i /\ i <= offset + BatchSize => i - offset \in 1..n
      /\ n = 0 => Len(rows) <= offset
  <2>1. last \in Nat /\ last <= Len(rows) /\ last <= offset + BatchSize
    BY <1>1
  <2>2. last = offset + BatchSize \/ last = Len(rows)
    BY <1>1
  <2>3. /\ offset < last => n = last - offset
        /\ ~(offset < last) => n = 0
    OBVIOUS
  <2>4. Len(rows) \in Nat /\ offset \in Nat /\ BatchSize \in Nat /\ BatchSize > 0
    BY <1>1
  <2> HIDE DEF last, n
  <2>5. ASSUME NEW i \in 1..Len(rows), offset < i, i <= offset + BatchSize
        PROVE  i - offset \in 1..n
    BY <2>1, <2>2, <2>3, <2>5, <2>4
  <2>6. n = 0 => Len(rows) <= offset
    BY <2>1, <2>2, <2>3, <2>4
  <2> QED
    BY <1>1, <2>5, <2>6
<1> HIDE DEF n
<1>7. GetApplicationBatch \in Seq(BatchEntry)
  <2>1. GetApplicationBatch \in [1..n -> BatchEntry]
    BY <1>4, <1>5
  <2> QED
    BY <1>2, <2>1, SeqDef
<1>8. DOMAIN GetApplicationBatch = 1..n /\ \A i \in 1..n : GetApplicationBatch[i].app = rows[offset + i]
  BY <1>4 DEF BatchEntryOf
<1>9. GetApplicationBatch = <<>> => n = 0
  <2> SUFFICES ASSUME GetApplicationBatch = <<>>
               PROVE  n = 0
    OBVIOUS
  <2>1. DOMAIN GetApplicationBatch = {}
    OBVIOUS
  <2>2. ~(1 \in 1..n)
    BY <1>8, <2>1
  <2> QED
    BY <1>2, <2>2
<1>10. ASSUME NEW i \in DOMAIN rows, offset < i, i <= offset + BatchSize
       PROVE  \E k \in DOMAIN GetApplicationBatch : GetApplicationBatch[k].app = rows[i]
  <2>1. i - offset \in 1..n /\ offset + (i - offset) = i
    BY <1>1, <1>6, <1>10
  <2> QED
    BY <1>8, <2>1
<1> QED
  BY <1>6, <1>7, <1>9, <1>10

\* An empty batch means that the walk has met every row that is listed; another one
\* takes the offset past the rows it holds.
LEMMA FetchStep ==
  ASSUME IInv, FetchBatch
  PROVE  IInv'
<1>1. /\ pc = "batch" /\ UNCHANGED <<dbVars, argo, pending, faultVars>>
      /\ UNCHANGED <<rows, contents, batchFaults, faults>>
  BY DEF FetchBatch, dbVars, faultVars
<1>2. /\ Len(rows) \in Nat /\ DOMAIN rows = 1..Len(rows)
      /\ offset \in Nat /\ BatchSize \in Nat \ {0}
  BY RowsFacts, BatchSizeAssumption DEF IInv, TypeOK
<1>3. CASE GetApplicationBatch = <<>> /\ UNCHANGED disturbed /\ EndCycle
  <2>1. ASSUME ~disturbed
        PROVE  Orphans \intersect Live = {}
    <3> SUFFICES ASSUME NEW i \in DOMAIN rows, rows[i] \in listed
                 PROVE  rows[i] \in processed
      BY DEF Orphans, Live
    <3>1. i <= offset
      BY <1>2, <1>3, BatchFacts
    <3> QED
      BY <1>1, <2>1, <3>1 DEF IInv, WalkInv, InBatch
  <2>2. /\ faults' \in 0..MaxFaults /\ batchFaults' \in 0..MaxBatchFaults
        /\ disturbed' \in BOOLEAN /\ (disturbed' \/ Orphans \intersect Live = {})
    BY <1>1, <1>3, <2>1 DEF IInv, TypeOK
  <2> QED
    BY <1>1, <1>3, <2>2, EndStep
<1>4. CASE /\ GetApplicationBatch # <<>> /\ batch' = GetApplicationBatch
           /\ offset' = offset + BatchSize /\ pc' = "row"
           /\ UNCHANGED <<listed, processed, doomed, history>>
  <2>1. UNCHANGED <<disturbed, suspect>>
    BY <1>4 DEF history
  <2>2. offset' \in Nat /\ batch' \in Seq(BatchEntry)
    BY <1>2, <1>4, BatchFacts
  <2>3. TypeOK'
    BY <1>1, <1>4, <2>1, <2>2 DEF IInv, TypeOK
  <2>4. RowsInv' /\ ArgoInv' /\ ListedInv' /\ BatchInv' /\ DoomedInv'
    BY <1>1, <1>4, <2>1 DEF IInv, RowsInv, ArgoInv, ListedInv, BatchInv, DoomedInv, Live
  <2>5. WalkInv'
    <3> SUFFICES ASSUME ~disturbed, NEW i \in DOMAIN rows, i <= offset + BatchSize,
                        rows[i] \in listed
                 PROVE  rows[i] \in processed \/ \E k \in DOMAIN batch' : batch'[k].app = rows[i]
      BY <1>1, <1>4, <2>1 DEF WalkInv, InBatch
    <3>1. CASE i <= offset
      BY <1>1, <3>1 DEF IInv, WalkInv, InBatch
    <3>2. CASE ~(i <= offset)
      <4>1. offset < i
        BY <1>2, <3>2
      <4> QED
        BY <1>4, <4>1, BatchFacts
    <3> QED
      BY <3>1, <3>2
  <2> QED
    BY <2>3, <2>4, <2>5 DEF IInv
<1> QED
  BY <1>3, <1>4 DEF FetchBatch

\* A failed query disturbs the cycle.
LEMMA BatchFailsStep ==
  ASSUME IInv, BatchFails
  PROVE  IInv'
<1>1. /\ disturbed' = TRUE /\ EndCycle /\ UNCHANGED <<dbVars, argo, pending, faults>>
      /\ batchFaults < MaxBatchFaults /\ batchFaults' = batchFaults + 1
  BY DEF BatchFails
<1>2. batchFaults \in 0..MaxBatchFaults /\ faults' \in 0..MaxFaults
  BY <1>1 DEF IInv, TypeOK
<1>3. batchFaults' \in 0..MaxBatchFaults
  BY <1>1, <1>2, BoundsAssumption
<1> QED
  BY <1>1, <1>2, <1>3, EndStep

\* A row that leaves the batch is processed.
LEMMA RowStep ==
  ASSUME IInv, processApplicationRowToSyncWithCluster
  PROVE  IInv'
<1> DEFINE e == Head(batch)
<1>1. /\ pc = "row" /\ processed' = processed \union {e.app}
      /\ batch' = Tail(batch) /\ pc' = IF Tail(batch) = <<>> THEN "batch" ELSE "row"
      /\ UNCHANGED <<rows, contents, argo, listed, offset, doomed, disturbed, suspect>>
  BY DEF processApplicationRowToSyncWithCluster, Processed, dbVars, history
<1>2. batch \in Seq(BatchEntry) /\ batch # <<>>
  BY <1>1 DEF IInv, TypeOK, BatchInv
<1>3. /\ e \in BatchEntry /\ e = batch[1]
      /\ Tail(batch) \in Seq(BatchEntry) /\ Len(Tail(batch)) = Len(batch) - 1
      /\ \A k \in 1..Len(Tail(batch)) : Tail(batch)[k] = batch[k + 1]
  BY <1>2, HeadTailProperties
<1>4. e.app \in Apps
  BY <1>3 DEF BatchEntry
<1>5. /\ Len(batch) \in Nat /\ DOMAIN batch = 1..Len(batch)
      /\ DOMAIN Tail(batch) = 1..(Len(batch) - 1)
  BY <1>2, <1>3, LenProperties
<1>6. /\ pending' \subseteq Apps
      /\ faults' \in 0..MaxFaults /\ batchFaults' \in 0..MaxBatchFaults
  <2>1. OperationMade(e.app) \/ UNCHANGED <<pending, faultVars>>
    BY DEF processApplicationRowToSyncWithCluster
  <2>2. CASE UNCHANGED <<pending, faultVars>>
    BY <2>2 DEF IInv, TypeOK, faultVars
  <2> QED
    BY <1>4, <2>1, <2>2, OperationMadeType DEF IInv
<1>7. TypeOK'
  BY <1>1, <1>3, <1>4, <1>6 DEF IInv, TypeOK
<1>8. RowsInv' /\ ArgoInv' /\ ListedInv' /\ BatchInv' /\ DoomedInv'
  BY <1>1 DEF IInv, RowsInv, ArgoInv, ListedInv, BatchInv, DoomedInv, Live
<1>9. WalkInv'
  <2> SUFFICES ASSUME ~disturbed, NEW i \in DOMAIN rows, i <= offset, rows[i] \in listed,
                      rows[i] \notin processed'
               PROVE  pc' = "row" /\ \E k \in DOMAIN batch' : batch'[k].app = rows[i]
    BY <1>1 DEF WalkInv, InBatch
  <2>1. rows[i] \notin processed /\ rows[i] # e.app
    BY <1>1
  <2>2. PICK k \in DOMAIN batch : batch[k].app = rows[i]
    BY <1>1, <2>1 DEF IInv, WalkInv, InBatch
  <2>3. k # 1
    BY <1>3, <2>1, <2>2
  <2>4. k - 1 \in 1..(Len(batch) - 1) /\ (k - 1) + 1 = k
    BY <1>5, <2>2, <2>3
  <2>5. Tail(batch)[k - 1] = batch[k]
    BY <1>3, <2>4
  <2>6. Tail(batch) # <<>>
    BY <1>5, <2>4
  <2> QED
    BY <1>1, <1>5, <2>2, <2>4, <2>5, <2>6
<1> QED
  BY <1>7, <1>8, <1>9 DEF IInv
-----------------------------------------------------------------------------
\* "delete applications which are not having entry in DB" (namespace_reconciler.go): as
\* long as the batch queries of a cycle succeed and no row is deleted while the table is
\* walked, the sweep has only Applications without row deleted, although they are listed
\* before the first row is read, rows are inserted and edited during the walk, and the
\* goroutine that deletes them may be arbitrarily late.
THEOREM SweepIsSafe == Spec => []NamespaceInv
<1>1. Init => IInv
  <2> SUFFICES ASSUME Init
               PROVE  IInv
    OBVIOUS
  <2>1. 0 \in 0..MaxVersion /\ 0 \in 0..MaxFaults /\ 0 \in 0..MaxBatchFaults
    BY BoundsAssumption
  <2>2. TypeOK
    BY <2>1, EmptySeq DEF Init, TypeOK
  <2>3. RowsInv /\ ArgoInv /\ ListedInv /\ BatchInv /\ WalkInv /\ DoomedInv
    BY DEF Init, RowsInv, ArgoInv, ListedInv, BatchInv, WalkInv, DoomedInv, Live
  <2> QED
    BY <2>2, <2>3 DEF IInv
<1>2. IInv /\ [Next]_vars => IInv'
  <2> SUFFICES ASSUME IInv, [Next]_vars
               PROVE  IInv'
    OBVIOUS
  <2>1. CASE UNCHANGED vars
    <3>1. TypeOK' /\ ArgoInv'
      BY <2>1 DEF IInv, TypeOK, ArgoInv, vars
    <3> QED
      BY <2>1, <3>1, QuietStep DEF vars, dbVars, sweepVars
  <2>2. CASE Next
    BY <2>2, InsertStep, EditStep, DeleteStep, OperationStep, DeleteApplicationStep, StartStep,
       FetchStep, BatchFailsStep, RowStep, RestartStep DEF Next
  <2> QED
    BY <2>1, <2>2
<1>3. IInv => NamespaceInv
  BY DEF IInv, DoomedInv, NamespaceInv, UndisturbedSweepIsSafe
<1> QED
  BY <1>1, <1>2, <1>3, PTL DEF Spec, SafetySpec
=============================================================================
