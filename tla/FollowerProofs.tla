---------------------------- MODULE FollowerProofs ----------------------------
(***************************************************************************)
(* Proofs about Follower, for every set of outputs, every height bound,    *)
(* every START_HEIGHT and every number of confirmations.                   *)
(***************************************************************************)
EXTENDS Follower, UtxoStoreProofs

USE MaxHeightAssumption, FinalityAssumption, StartHeightAssumption, ForksAssumption,
    InBlockSpendsAssumption

-----------------------------------------------------------------------------
(* What a row fits                                                         *)

(* A creation is followed by its only spending                             *)
LEMMA CreatedBeforeSpent ==
  ASSUME NEW log, NEW B \in StartHeight - 1 .. MaxHeight, Chained(log, B),
         NEW o \in Outputs,
         NEW i \in StartHeight .. B, NEW j \in StartHeight .. B,
         o \in log[j].spends
  PROVE  /\ o \in log[i].creates => i < j
         /\ o \in log[i].spends => i = j
<1>1. o \in log[i].creates => ~(j < i)
  BY DEF Chained, Extends, Touched, SpentBy, Heights
<1>2. o \in log[i].creates => i # j
  BY DEF Chained, NoInBlockSpend
<1>3. o \in log[i].spends => ~(j < i) /\ ~(i < j)
  BY DEF Chained, Extends, SpentBy, Heights
<1>4. QED
  BY <1>1, <1>2, <1>3 DEF Heights

(* A row that fits the blocks up to B fits, once reverted, those up to C   *)
LEMMA FitsShrink ==
  ASSUME NEW log,
         NEW B \in StartHeight - 1 .. MaxHeight, NEW C \in StartHeight - 1 .. B,
         Chained(log, B),
         NEW o \in Outputs, NEW cur \in Int, NEW r \in UtxoRow,
         Fits(RevertRow(r, B), o, log, B, cur)
  PROVE  Fits(RevertRow(r, C), o, log, C, cur)
<1> DEFINE row == RevertRow(r, B)
<1> DEFINE low == RevertRow(row, C)
<1>0. /\ row \in UtxoRow
      /\ low = RevertRow(r, C)
      /\ StartHeight \in Nat /\ MaxHeight \in Nat
  BY RevertRowType, RevertRevert DEF Heights
<1>1. \A i \in StartHeight .. B : o \in log[i].creates => row.height = i
  BY DEF Fits
<1>2. \A j \in StartHeight .. B : o \in log[j].spends =>
         /\ row.height <= j
         /\ row.spent \in {NULL, j}
         /\ j < cur => row.spent = j
  BY <1>0, CreatedBeforeSpent DEF Fits, CreatedBy
<1>3. \A i \in StartHeight .. C : o \in log[i].creates => low.height = i
  BY <1>0, <1>1 DEF RevertRow, UtxoRow, Heights
<1>4. ASSUME NEW j \in StartHeight .. C, o \in log[j].spends
      PROVE  /\ o \notin CreatedBy(log, StartHeight, C) => low.height = j
             /\ low.spent \in {NULL, j}
             /\ j < cur => low.spent = j
  <2>1. row.height <= C /\ row.spent <= C
    BY <1>0, <1>2, <1>4 DEF UtxoRow, NULL, Heights
  <2>2. low = row
    BY <1>0, <2>1 DEF RevertRow, UtxoRow, NULL, Heights
  <2>3. o \in CreatedBy(log, StartHeight, B) => o \in CreatedBy(log, StartHeight, C)
    BY <1>0, <1>1, <2>1 DEF CreatedBy
  <2>4. QED
    BY <1>0, <1>2, <1>4, <2>2, <2>3 DEF Fits
<1>5. o \notin SpentBy(log, StartHeight, C) => low.spent = NULL
  <2>1. SUFFICES ASSUME o \notin SpentBy(log, StartHeight, C) PROVE low.spent = NULL
    OBVIOUS
  <2>2. row.spent = NULL \/ row.spent > C
    BY <1>0, <1>2, <2>1 DEF Fits, SpentBy
  <2>3. QED
    BY <1>0, <2>2 DEF RevertRow, NoUtxoRow, UtxoRow, NULL, Heights
<1>6. o \notin Touched(log, StartHeight, C) => low.height = NULL
  <2>1. SUFFICES ASSUME o \notin Touched(log, StartHeight, C) PROVE low.height = NULL
    OBVIOUS
  <2>2. row.height = NULL \/ row.height > C
    BY <1>0, <1>1, <2>1 DEF Fits, Touched, CreatedBy, SpentBy
  <2>3. QED
    BY <1>0, <2>2 DEF RevertRow, NoUtxoRow, UtxoRow, NULL, Heights
<1>7. QED
  BY <1>0, <1>3, <1>4, <1>5, <1>6 DEF Fits

-----------------------------------------------------------------------------
(* What applying a block does to a row that fits                           *)

(* The blocks admitted above B, up to height h, change nothing that a      *)
(* revert to B leaves                                                      *)
LEMMA AppliedAbove ==
  ASSUME NEW log, NEW B \in StartHeight - 1 .. MaxHeight,
         NEW h \in B + 1 .. MaxHeight, NEW b,
         NoInBlockSpend(b), Extends(b, log, StartHeight, B),
         NEW o \in Outputs, NEW cur, NEW r \in UtxoRow,
         Fits(RevertRow(r, B), o, log, B, cur)
  PROVE  RevertRow(Applied(r, o, h, b), B) = RevertRow(r, B)
<1>0. StartHeight \in Nat /\ MaxHeight \in Nat /\ B \in -1 .. MaxHeight
  BY DEF Heights
<1>1. CASE o \in b.creates
  <2>1. o \notin Touched(log, StartHeight, B) /\ o \notin SpentBy(log, StartHeight, B)
    BY <1>1 DEF Extends, Touched
  <2>2. RevertRow(r, B).height = NULL /\ RevertRow(r, B).spent = NULL
    BY <2>1 DEF Fits
  <2>3. o \notin b.spends
    BY <1>1 DEF NoInBlockSpend
  <2>4. Applied(r, o, h, b) = Upsert(r, h, NULL)
    BY <1>1, <2>3 DEF Applied
  <2>5. RevertRow(Upsert(r, h, NULL), B) = NoUtxoRow
    BY <1>0, <2>2 DEF Upsert, RevertRow, NoUtxoRow, UtxoRow, NULL, Heights
  <2>6. RevertRow(r, B) \in UtxoRow
    BY <1>0, RevertRowType
  <2>7. RevertRow(r, B) = NoUtxoRow
    BY <2>2, <2>6 DEF NoUtxoRow, UtxoRow
  <2>8. QED
    BY <2>4, <2>5, <2>7
<1>2. CASE o \notin b.creates /\ o \in b.spends
  <2>1. RevertRow(r, B).spent = NULL
    BY <1>2 DEF Extends, Fits
  <2>2. Applied(r, o, h, b) = Upsert(r, h, h)
    BY <1>2 DEF Applied
  <2>3. RevertRow(r, B) \in UtxoRow
    BY <1>0, RevertRowType
  <2>4. CASE r.height = NULL \/ r.height > B
    <3>1. RevertRow(Upsert(r, h, h), B) = NoUtxoRow
      BY <1>0, <2>4 DEF Upsert, RevertRow, NoUtxoRow, UtxoRow, NULL, Heights
    <3>2. RevertRow(r, B) = NoUtxoRow
      BY <1>0, <2>1, <2>3, <2>4 DEF RevertRow, NoUtxoRow, UtxoRow, NULL, Heights
    <3>3. QED
      BY <2>2, <3>1, <3>2
  <2>5. CASE r.height # NULL /\ r.height <= B
    <3>1. RevertRow(Upsert(r, h, h), B) = [height |-> r.height, spent |-> NULL]
      BY <1>0, <2>5 DEF Upsert, RevertRow, NoUtxoRow, UtxoRow, NULL, Heights
    <3>2. RevertRow(r, B) = [height |-> r.height, spent |-> NULL]
      BY <1>0, <2>1, <2>3, <2>5 DEF RevertRow, NoUtxoRow, UtxoRow, NULL, Heights
    <3>3. QED
      BY <2>2, <3>1, <3>2
  <2>6. QED
    BY <1>0, <2>4, <2>5 DEF UtxoRow, NULL, Heights
<1>3. CASE o \notin b.creates /\ o \notin b.spends
  BY <1>3 DEF Applied
<1>4. QED
  BY <1>1, <1>2, <1>3

(* How a cursor moves when the block at height h has been processed        *)
Moves(cur, new, h) == new <= cur \/ (cur = h /\ new = h + 1)

(* Block log[h] is applied (again) to a row that fits the blocks up to B,  *)
(* which includes h                                                        *)
LEMMA AppliedAgain ==
  ASSUME NEW log, NEW B \in StartHeight - 1 .. MaxHeight, Chained(log, B),
         NEW h \in StartHeight .. B,
         NEW o \in Outputs, NEW r \in UtxoRow,
         NEW cur \in Int, NEW new \in Int, cur <= h, Moves(cur, new, h),
         Fits(RevertRow(r, B), o, log, B, cur)
  PROVE  Fits(RevertRow(Applied(r, o, h, log[h]), B), o, log, B, new)
<1> DEFINE b == log[h]
<1> DEFINE row == RevertRow(r, B)
<1> DEFINE next == RevertRow(Applied(r, o, h, b), B)
<1>0. /\ StartHeight \in Nat /\ MaxHeight \in Nat /\ B \in -1 .. MaxHeight
      /\ h \in Heights
      /\ row \in UtxoRow
  BY RevertRowType DEF Heights
<1>1. CASE o \in b.creates
  <2>1. o \notin b.spends
    BY <1>1 DEF Chained, NoInBlockSpend
  <2>2. row.height = h
    BY <1>1 DEF Fits
  <2>3. r.height = h
    BY <1>0, <2>2 DEF RevertRow, NoUtxoRow, UtxoRow, NULL, Heights
  <2>4. Applied(r, o, h, b) = [height |-> h, spent |-> NULL]
    BY <1>0, <1>1, <2>1, <2>3 DEF Applied, Upsert, NULL, Heights
  <2>5. next = [height |-> h, spent |-> NULL]
    BY <1>0, <2>4 DEF RevertRow, NULL, Heights
  <2>6. \A j \in StartHeight .. B : o \in log[j].spends => h < j
    BY <1>1, CreatedBeforeSpent
  <2>7. \A j \in StartHeight .. B : o \in log[j].spends => ~(j < new)
    BY <1>0, <2>6 DEF Moves, Heights
  <2>8. o \in CreatedBy(log, StartHeight, B)
    BY <1>1 DEF CreatedBy
  <2>9. QED
    BY <2>2, <2>5, <2>7, <2>8 DEF Fits, Touched
<1>2. CASE o \notin b.creates /\ o \in b.spends
  <2>1. \A j \in StartHeight .. B : o \in log[j].spends => j = h
    BY <1>2, CreatedBeforeSpent
  <2>2. o \in SpentBy(log, StartHeight, B) /\ o \in Touched(log, StartHeight, B)
    BY <1>2 DEF SpentBy, Touched
  <2>3. row.height \in Heights /\ row.height <= h
    <3>1. CASE o \in CreatedBy(log, StartHeight, B)
      <4>1. PICK i \in StartHeight .. B : o \in log[i].creates
        BY <3>1 DEF CreatedBy
      <4>2. i < h
        BY <1>2, <4>1, CreatedBeforeSpent
      <4>3. QED
        BY <1>0, <4>1, <4>2 DEF Fits, Heights
    <3>2. CASE o \notin CreatedBy(log, StartHeight, B)
      BY <1>0, <1>2, <3>2 DEF Fits, Heights
    <3>3. QED
      BY <3>1, <3>2
  <2>4. r.height = row.height
    BY <1>0, <2>3 DEF RevertRow, NoUtxoRow, UtxoRow, NULL, Heights
  <2>5. Applied(r, o, h, b) = [height |-> row.height, spent |-> h]
    BY <1>0, <1>2, <2>3, <2>4 DEF Applied, Upsert, NULL, Heights
  <2>6. next = [height |-> row.height, spent |-> h]
    BY <1>0, <2>3, <2>5 DEF RevertRow, NULL, Heights
  <2>7. QED
    BY <1>0, <2>1, <2>2, <2>6 DEF Fits
<1>3. CASE o \notin b.creates /\ o \notin b.spends
  <2>1. next = row
    BY <1>3 DEF Applied
  <2>2. \A j \in StartHeight .. B : o \in log[j].spends /\ j < new => j < cur
    BY <1>0, <1>3 DEF Moves, Heights
  <2>3. QED
    BY <2>1, <2>2 DEF Fits
<1>4. QED
  BY <1>1, <1>2, <1>3

(* Block log[h], the first above the base, is applied to a row with        *)
(* nothing from above the base                                             *)
LEMMA AppliedNext ==
  ASSUME NEW log, NEW B \in StartHeight - 1 .. MaxHeight, Chained(log, B),
         NEW h \in Heights, h = B + 1,
         NoInBlockSpend(log[h]), Extends(log[h], log, StartHeight, B),
         NEW o \in Outputs, NEW r \in UtxoRow, RevertRow(r, B) = r,
         NEW cur \in Int, NEW new \in Int, cur <= h, Moves(cur, new, h),
         Fits(RevertRow(r, B), o, log, B, cur)
  PROVE  Fits(RevertRow(Applied(r, o, h, log[h]), h), o, log, h, new)
<1> DEFINE b == log[h]
<1> DEFINE next == RevertRow(Applied(r, o, h, b), h)
<1>0. /\ StartHeight \in Nat /\ MaxHeight \in Nat /\ B \in -1 .. MaxHeight
      /\ h \in Heights /\ h \in StartHeight .. MaxHeight
      /\ StartHeight .. h = (StartHeight .. B) \cup {h}
  BY DEF Heights
<1>1. CASE o \in b.creates
  <2>1. o \notin Touched(log, StartHeight, B)
    BY <1>1 DEF Extends
  <2>2. o \notin b.spends
    BY <1>1 DEF NoInBlockSpend
  <2>3. r.height = NULL
    BY <2>1 DEF Fits
  <2>4. next = [height |-> h, spent |-> NULL]
    BY <1>0, <1>1, <2>2, <2>3 DEF Applied, Upsert, RevertRow, NULL, Heights
  <2>5. \A i \in StartHeight .. h : o \notin log[i].spends
    BY <1>0, <2>1, <2>2 DEF Touched, SpentBy
  <2>6. \A i \in StartHeight .. h : o \in log[i].creates => i = h
    BY <1>0, <2>1 DEF Touched, CreatedBy
  <2>7. o \in CreatedBy(log, StartHeight, h)
    BY <1>0, <1>1 DEF CreatedBy
  <2>8. QED
    BY <2>4, <2>5, <2>6, <2>7 DEF Fits, Touched
<1>2. CASE o \notin b.creates /\ o \in b.spends
  <2>1. o \notin SpentBy(log, StartHeight, B)
    BY <1>2 DEF Extends
  <2>2. \A j \in StartHeight .. h : o \in log[j].spends => j = h
    BY <1>0, <2>1 DEF SpentBy
  <2>3. o \in SpentBy(log, StartHeight, h)
    BY <1>0, <1>2 DEF SpentBy
  <2>4. CASE o \in CreatedBy(log, StartHeight, B)
    <3>1. PICK i \in StartHeight .. B : o \in log[i].creates
      BY <2>4 DEF CreatedBy
    <3>2. r.height = i
      BY <3>1 DEF Fits
    <3>3. next = [height |-> i, spent |-> h]
      BY <1>0, <1>2, <3>2 DEF Applied, Upsert, RevertRow, NULL, Heights
    <3>4. \A k \in StartHeight .. h : o \in log[k].creates => k = i
      BY <1>0, <1>2, <3>2 DEF Fits
    <3>5. o \in CreatedBy(log, StartHeight, h)
      BY <1>0, <3>1 DEF CreatedBy
    <3>6. QED
      BY <2>2, <2>3, <3>3, <3>4, <3>5 DEF Fits, Touched
  <2>5. CASE o \notin CreatedBy(log, StartHeight, B)
    <3>1. r.height = NULL
      BY <2>1, <2>5 DEF Fits, Touched
    <3>2. next = [height |-> h, spent |-> h]
      BY <1>0, <1>2, <3>1 DEF Applied, Upsert, RevertRow, NULL, Heights
    <3>3. o \notin CreatedBy(log, StartHeight, h)
      BY <1>0, <1>2, <2>5 DEF CreatedBy
    <3>4. QED
      BY <2>2, <2>3, <3>2, <3>3 DEF Fits, Touched, CreatedBy
  <2>6. QED
    BY <2>4, <2>5
<1>3. CASE o \notin b.creates /\ o \notin b.spends
  <2>1. next = r
    <3>1. next = RevertRow(r, h)
      BY <1>3 DEF Applied
    <3>2. QED
      BY <1>0, <3>1 DEF RevertRow, NoUtxoRow, UtxoRow, NULL, Heights
  <2>2. /\ CreatedBy(log, StartHeight, h) \cap {o} = CreatedBy(log, StartHeight, B) \cap {o}
        /\ SpentBy(log, StartHeight, h) \cap {o} = SpentBy(log, StartHeight, B) \cap {o}
    BY <1>0, <1>3 DEF CreatedBy, SpentBy
  <2>3. \A j \in StartHeight .. B : o \in log[j].spends /\ j < new => j < cur
    BY <1>0 DEF Moves, Heights
  <2>4. QED
    BY <1>0, <1>3, <2>1, <2>2, <2>3 DEF Fits, Touched
<1>4. QED
  BY <1>1, <1>2, <1>3

-----------------------------------------------------------------------------
(* Type correctness                                                        *)

LEMMA TypeInit == Init => TypeOK
<1> SUFFICES ASSUME Init PROVE TypeOK
  OBVIOUS
<1>1. NoBlockRow \in BlockRow /\ NoUtxoRow \in UtxoRow
  BY DEF NoBlockRow, BlockRow, NoUtxoRow, UtxoRow
<1>2. StorageTypeOK
  BY <1>1 DEF Init, StorageInit, StorageTypeOK, Jobs
<1>3. job.kind # "block"
  BY DEF Init, StorageInit, NoJob
<1>4. cursor \in StartHeight .. MaxHeight + 1 /\ base \in StartHeight - 1 .. MaxHeight
  BY DEF Init, Heights
<1>5. QED
  BY <1>2, <1>3, <1>4 DEF TypeOK

(* What the type invariant says of a running handler                       *)
LEMMA JobType ==
  ASSUME job \in Jobs
  PROVE  /\ job.kind = "block" => job.height \in Heights /\ job.block \in Block
         /\ job.kind = "revert" => job.height \in Heights
BY DEF Jobs, NoJob

LEMMA AcknowledgedType ==
  ASSUME TypeOK, job.kind = "block", NEW acked \in BOOLEAN, Acknowledged(acked)
  PROVE  /\ cursor' \in StartHeight .. MaxHeight + 1
         /\ cursor <= job.height => Moves(cursor, cursor', job.height)
BY JobType DEF TypeOK, StorageTypeOK, Acknowledged, Moves, Heights

LEMMA TypeStep == TypeOK /\ [Next]_vars => TypeOK'
<1> SUFFICES ASSUME TypeOK, [Next]_vars PROVE TypeOK'
  OBVIOUS
<1> USE DEF TypeOK, StorageTypeOK
<1>1. ASSUME NEW b \in Block, NEW stored \in BOOLEAN, Deliver(b, stored)
      PROVE  TypeOK'
  <2>1. blocks' \in [Heights -> BlockRow]
    BY <1>1, StoreBlockType DEF Deliver, ReceiveBlock
  <2>2. job' \in Jobs
    BY <1>1 DEF Deliver, ReceiveBlock, Jobs
  <2>3. job'.height = cursor /\ cursor >= StartHeight
    BY <1>1 DEF Deliver, ReceiveBlock, Heights
  <2>4. QED
    BY <1>1, <2>1, <2>2, <2>3 DEF Deliver, ReceiveBlock
<1>2. ASSUME NEW acked \in BOOLEAN, NEW current \in BOOLEAN, Process(acked, current)
      PROVE  TypeOK'
  <2>1. utxo' \in [Outputs -> UtxoRow] /\ blocks' = blocks /\ job' = NoJob
    BY <1>2, JobType, ProcessType DEF Process, ProcessBlock
  <2>2. cursor' \in StartHeight .. MaxHeight + 1
    BY <1>2, AcknowledgedType DEF Process, ProcessBlock
  <2>3. base' \in StartHeight - 1 .. MaxHeight
    BY <1>2, JobType DEF Process, ProcessBlock, BaseAfter, Heights
  <2>4. QED
    BY <2>1, <2>2, <2>3 DEF Jobs, NoJob
<1>3. ASSUME NEW acked \in BOOLEAN, FailProcess(acked)
      PROVE  TypeOK'
  <2>1. utxo' = utxo /\ blocks' = blocks /\ job' = NoJob
    BY <1>3 DEF FailProcess, DropJob
  <2>2. cursor' \in StartHeight .. MaxHeight + 1
    BY <1>3, AcknowledgedType DEF FailProcess
  <2>3. base' \in StartHeight - 1 .. MaxHeight
    BY <1>3, JobType DEF FailProcess, Acknowledged, Lesser, Heights
  <2>4. QED
    BY <2>1, <2>2, <2>3 DEF Jobs, NoJob
<1>4. ASSUME NEW f \in StartHeight - 1 .. MaxHeight, Reorg(f)
      PROVE  TypeOK'
  <2>1. SafeRevertHeight(blocks, f) \in Heights /\ f <= SafeRevertHeight(blocks, f)
    BY SafeRevertType, LatestBlockType DEF SafeRevertHeight, RevertHeight, Greater, Heights
  <2>2. /\ utxo' = utxo /\ blocks' \in [Heights -> BlockRow] /\ job' \in Jobs
        /\ job'.kind = "block" => job'.height >= StartHeight
    BY <1>4, <2>1, MarkNotMainType DEF Reorg, ReceiveReorg, Jobs
  <2>3. base' \in StartHeight - 1 .. MaxHeight
    BY <1>4, <2>1 DEF Reorg, Lesser, Heights
  <2>4. QED
    BY <1>4, <2>2, <2>3 DEF Reorg
<1>5. ASSUME FinishReorg
      PROVE  TypeOK'
  <2>1. utxo' \in [Outputs -> UtxoRow]
    BY <1>5, JobType, RevertType DEF FinishReorg, RevertUtxos, Heights
  <2>2. QED
    BY <1>5, <2>1 DEF FinishReorg, RevertUtxos, Jobs, NoJob
<1>6. ASSUME FailReorg
      PROVE  TypeOK'
  BY <1>6 DEF FailReorg, DropJob, Jobs, NoJob
<1>7. ASSUME NEW h \in Heights, Finality(h)
      PROVE  TypeOK'
  BY <1>7, FinalityType DEF Finality, ReceiveFinality
<1>8. ASSUME NEW k \in StartHeight .. MaxHeight, Rewind(k)
      PROVE  TypeOK'
  BY <1>8 DEF Rewind, storageVars, Heights
<1>9. ASSUME NEW k \in StartHeight - 1 .. MaxHeight, Fork(k)
      PROVE  TypeOK'
  BY <1>9 DEF Fork, storageVars, Heights
<1>10. CASE UNCHANGED vars
  BY <1>10 DEF vars, storageVars
<1>11. QED
  BY <1>1, <1>2, <1>3, <1>4, <1>5, <1>6, <1>7, <1>8, <1>9, <1>10 DEF Next

(* The tables, the running handler, the cursor and the base stay well      *)
(* typed, whatever is delivered, lost, repeated or fails.  In particular   *)
(* the cursor never runs past the block after the highest and no handler   *)
(* is owed work at a height that does not exist (handle_socket_connection, *)
(* socket.rs).                                                             *)
THEOREM TypeCorrect == Spec => []TypeOK
<1>1. QED
  BY TypeInit, TypeStep, PTL DEF Spec

-----------------------------------------------------------------------------
(* Logs that agree up to a height, and shorter stretches of one log        *)

LEMMA ChainedAgree ==
  ASSUME NEW log1, NEW log2, NEW B \in Int,
         \A h \in StartHeight .. B : log1[h] = log2[h],
         Chained(log1, B)
  PROVE  Chained(log2, B)
<1> SUFFICES ASSUME NEW h \in StartHeight .. B
             PROVE  /\ log2[h] \in Block
                    /\ NoInBlockSpend(log2[h])
                    /\ Extends(log2[h], log2, StartHeight, h - 1)
  BY DEF Chained
<1>1. StartHeight \in Nat /\ h - 1 \in Int
  BY DEF Heights
<1>2. \A k \in StartHeight .. h - 1 : log1[k] = log2[k]
  BY <1>1
<1>3. Extends(log2[h], log1, StartHeight, h - 1)
  BY DEF Chained
<1>4. Extends(log2[h], log2, StartHeight, h - 1)
  BY <1>1, <1>2, <1>3, ExtendsAgree
<1>5. QED
  BY <1>4 DEF Chained

LEMMA FitsAgree ==
  ASSUME NEW log1, NEW log2, NEW B \in Int, NEW row, NEW o, NEW cur, NEW new,
         \A h \in StartHeight .. B : log1[h] = log2[h],
         \A j \in StartHeight .. B : j < new => j < cur,
         Fits(row, o, log1, B, cur)
  PROVE  Fits(row, o, log2, B, new)
BY EffectsAgree DEF Fits, Touched

LEMMA ChainedShrink ==
  ASSUME NEW log, NEW B \in Int, NEW C \in Int, C <= B, Chained(log, B)
  PROVE  Chained(log, C)
<1>1. StartHeight \in Nat
  BY DEF Heights
<1>2. StartHeight .. C \subseteq StartHeight .. B
  BY <1>1
<1>3. QED
  BY <1>2 DEF Chained

-----------------------------------------------------------------------------
(* The inductive invariant                                                 *)

(* A step that leaves the stored blocks and the reverted rows of the new   *)
(* base as they were, and does not move the cursor over the base           *)
LEMMA BaseKept ==
  ASSUME TypeOK, TypeOK', BaseStored, RowsTrusted,
         base' <= base,
         \A j \in StartHeight .. base' : j < cursor' => j < cursor,
         \A h \in StartHeight .. base' : /\ blocks'[h].hash = blocks[h].hash
                                        /\ blocks'[h].main = 1,
         \A o \in Outputs : RevertRow(utxo'[o], base') = RevertRow(utxo[o], base')
  PROVE  BaseStored' /\ RowsTrusted'
<1>0. /\ StartHeight \in Nat /\ MaxHeight \in Nat
      /\ base \in StartHeight - 1 .. MaxHeight /\ base' \in StartHeight - 1 .. base
      /\ base' \in Int /\ base \in Int /\ cursor \in Int /\ cursor' \in Int
      /\ utxo \in [Outputs -> UtxoRow]
  BY DEF TypeOK, StorageTypeOK, Heights
<1>1. \A h \in StartHeight .. base' : Log[h] = Log'[h]
  BY <1>0 DEF Log, Hashes, Heights
<1>2. Chained(Log, base')
  BY <1>0, ChainedShrink DEF BaseStored
<1>3. Chained(Log', base')
  BY <1>0, <1>1, <1>2, ChainedAgree
<1>4. BaseStored'
  BY <1>3 DEF BaseStored, Base
<1>5. ASSUME NEW o \in Outputs
      PROVE  Fits(RevertRow(utxo'[o], base'), o, Log', base', cursor')
  <2>1. Fits(RevertRow(utxo[o], base), o, Log, base, cursor)
    BY DEF RowsTrusted, RowTrusted
  <2>2. Chained(Log, base)
    BY DEF BaseStored
  <2>3. utxo[o] \in UtxoRow
    BY <1>0
  <2>4. Fits(RevertRow(utxo[o], base'), o, Log, base', cursor)
    BY <1>0, <2>1, <2>2, <2>3, FitsShrink
  <2>5. QED
    BY <1>0, <1>1, <2>4, FitsAgree
<1>6. QED
  BY <1>4, <1>5 DEF RowsTrusted, RowTrusted

LEMMA InvInit == Init => Inv
<1> SUFFICES ASSUME Init PROVE Inv
  OBVIOUS
<1>0. StartHeight \in Nat /\ StartHeight .. base = {}
  BY DEF Init, Heights
<1>1. BaseStored
  BY <1>0 DEF BaseStored, Chained, Base
<1>2. ASSUME NEW o \in Outputs PROVE RowTrusted(o)
  <2>1. RevertRow(utxo[o], base) = NoUtxoRow
    BY DEF Init, StorageInit, RevertRow, NoUtxoRow
  <2>2. QED
    BY <1>0, <2>1 DEF RowTrusted, Fits, NoUtxoRow
<1>3. JobTrusted
  BY DEF Init, StorageInit, NoJob, JobTrusted
<1>4. QED
  BY <1>1, <1>2, <1>3 DEF Inv, RowsTrusted

LEMMA DeliverKeepsInv ==
  ASSUME ~InBlockSpends, TypeOK, TypeOK', Inv,
         NEW b \in Block, NEW stored \in BOOLEAN, Deliver(b, stored)
  PROVE  Inv'
<1>0. /\ StartHeight \in Nat /\ MaxHeight \in Nat /\ base \in Int /\ cursor \in Heights
      /\ blocks \in [Heights -> BlockRow]
      /\ base \in StartHeight - 1 .. MaxHeight
      /\ base' = base /\ cursor' = cursor /\ utxo' = utxo
      /\ job' = [kind |-> "block", height |-> cursor, block |-> b]
  BY DEF TypeOK, StorageTypeOK, Deliver, ReceiveBlock, Heights
<1>1. ASSUME NEW h \in StartHeight .. base
      PROVE  blocks'[h].hash = blocks[h].hash /\ blocks'[h].main = 1
  <2>1. h \in Heights /\ blocks[h].main = 1
    BY <1>0 DEF Inv, BaseStored, Base, Heights
  <2>2. h = cursor => b = blocks[h].hash
    BY <1>0, <2>1 DEF Deliver, Log, Hashes
  <2>3. QED
    BY <1>0, <2>1, <2>2 DEF Deliver, ReceiveBlock, StoreBlock
<1>2. BaseStored' /\ RowsTrusted'
  BY <1>0, <1>1, BaseKept DEF Inv
<1>3. \A h \in StartHeight .. base : Log[h] = Log'[h]
  BY <1>0, <1>1 DEF Log, Hashes, Heights
<1>4. JobTrusted'
  <2>1. NoInBlockSpend(b)
    BY DEF Deliver
  <2>2. cursor <= base => b = Log'[cursor]
    BY <1>0, <1>3 DEF Deliver, TypeOK, Heights
  <2>3. ~(cursor <= base) => Extends(b, Log', StartHeight, base)
    BY <1>0, <1>3, ExtendsAgree DEF Deliver
  <2>4. QED
    BY <1>0, <2>1, <2>2, <2>3 DEF JobTrusted, Heights
<1>5. QED
  BY <1>2, <1>4 DEF Inv

(* The block just stored above a base with nothing above it joins the base *)
LEMMA BaseGrows ==
  ASSUME TypeOK, TypeOK', Inv,
         NEW acked \in BOOLEAN, NEW current \in BOOLEAN, Process(acked, current),
         base' # base
  PROVE  BaseStored' /\ RowsTrusted'
<1> DEFINE h == job.height
<1>0. /\ StartHeight \in Nat /\ MaxHeight \in Nat
      /\ base \in StartHeight - 1 .. MaxHeight /\ cursor \in Int /\ cursor' \in Int
      /\ utxo \in [Outputs -> UtxoRow] /\ blocks \in [Heights -> BlockRow]
      /\ job.kind = "block" /\ h \in Heights /\ job.block \in Block
      /\ cursor <= h /\ Moves(cursor, cursor', h)
      /\ blocks' = blocks
      /\ utxo' = ProcessBlockUtxos(utxo, h, job.block)
  BY JobType, AcknowledgedType
  DEF TypeOK, StorageTypeOK, Process, ProcessBlock, Inv, JobTrusted, Heights
<1>1. h = base + 1 /\ base' = h /\ NothingAbove /\ StoredHash(blocks, h) = job.block
  BY DEF Process, BaseAfter
<1>2. blocks[h].main = 1 /\ Log[h] = job.block
  <2>1. job.block # NoBlock
    BY <1>0 DEF Block, NoBlock, NULL
  <2>2. QED
    BY <1>0, <1>1, <2>1 DEF StoredHash, Log, Hashes
<1>3. NoInBlockSpend(Log[h]) /\ Extends(Log[h], Log, StartHeight, base)
  BY <1>0, <1>1, <1>2 DEF Inv, JobTrusted
<1>4. Chained(Log, base)
  BY DEF Inv, BaseStored
<1>5. Log' = Log
  BY <1>0 DEF Log
<1>6. Chained(Log, h)
  <2>1. SUFFICES ASSUME NEW k \in StartHeight .. h
                 PROVE  /\ Log[k] \in Block
                        /\ NoInBlockSpend(Log[k])
                        /\ Extends(Log[k], Log, StartHeight, k - 1)
    BY DEF Chained
  <2>2. CASE k = h
    BY <1>0, <1>1, <1>2, <1>3, <2>2
  <2>3. CASE k # h
    BY <1>0, <1>1, <1>4, <2>3 DEF Chained
  <2>4. QED
    BY <2>2, <2>3
<1>7. BaseStored'
  <2>1. \A k \in StartHeight .. h : blocks[k].main = 1
    BY <1>0, <1>1, <1>2 DEF Inv, BaseStored, Base
  <2>2. QED
    BY <1>0, <1>1, <1>5, <1>6, <2>1 DEF BaseStored, Base
<1>8. ASSUME NEW o \in Outputs
      PROVE  Fits(RevertRow(utxo'[o], h), o, Log, h, cursor')
  <2>1. utxo'[o] = Applied(utxo[o], o, h, Log[h])
    BY <1>0, <1>2, ProcessIsApplied
  <2>2. Fits(RevertRow(utxo[o], base), o, Log, base, cursor)
    BY DEF Inv, RowsTrusted, RowTrusted
  <2>3. utxo[o] \in UtxoRow
    BY <1>0
  <2>4. RevertRow(utxo[o], base) = utxo[o]
    BY <1>1 DEF NothingAbove, RevertUtxosAfterHeight
  <2>5. QED
    BY <1>0, <1>1, <1>3, <1>4, <2>1, <2>2, <2>3, <2>4, AppliedNext
<1>9. RowsTrusted'
  BY <1>1, <1>5, <1>8 DEF RowsTrusted, RowTrusted
<1>10. QED
  BY <1>7, <1>9

(* A block that does not join the base changes nothing below it, unless it *)
(* is a block of the base, applied again                                   *)
LEMMA BaseStays ==
  ASSUME TypeOK, TypeOK', Inv,
         NEW acked \in BOOLEAN, NEW current \in BOOLEAN, Process(acked, current),
         base' = base
  PROVE  BaseStored' /\ RowsTrusted'
<1> DEFINE h == job.height
<1>0. /\ StartHeight \in Nat /\ MaxHeight \in Nat
      /\ base \in StartHeight - 1 .. MaxHeight /\ cursor \in Int /\ cursor' \in Int
      /\ utxo \in [Outputs -> UtxoRow]
      /\ job.kind = "block" /\ h \in Heights /\ h >= StartHeight
      /\ cursor <= h /\ Moves(cursor, cursor', h)
      /\ blocks' = blocks
      /\ utxo' = ProcessBlockUtxos(utxo, h, job.block)
  BY JobType, AcknowledgedType
  DEF TypeOK, StorageTypeOK, Process, ProcessBlock, Inv, JobTrusted, Heights
<1>1. Log' = Log /\ Chained(Log, base)
  BY <1>0 DEF Log, Inv, BaseStored
<1>2. BaseStored'
  BY <1>0, <1>1 DEF BaseStored, Base, Inv
<1>3. ASSUME NEW o \in Outputs
      PROVE  Fits(RevertRow(utxo'[o], base), o, Log, base, cursor')
  <2>1. /\ utxo'[o] = Applied(utxo[o], o, h, job.block)
        /\ utxo[o] \in UtxoRow
    BY <1>0, ProcessIsApplied
  <2>2. Fits(RevertRow(utxo[o], base), o, Log, base, cursor)
    BY DEF Inv, RowsTrusted, RowTrusted
  <2>3. CASE h <= base
    <3>1. job.block = Log[h] /\ h \in StartHeight .. base
      BY <1>0, <2>3 DEF Inv, JobTrusted, Heights
    <3>2. QED
      BY <1>0, <1>1, <2>1, <2>2, <3>1, AppliedAgain
  <2>4. CASE ~(h <= base)
    <3>1. NoInBlockSpend(job.block) /\ Extends(job.block, Log, StartHeight, base)
      BY <1>0, <2>4 DEF Inv, JobTrusted
    <3>2. h \in base + 1 .. MaxHeight
      BY <1>0, <2>4 DEF Heights
    <3>3. RevertRow(utxo'[o], base) = RevertRow(utxo[o], base)
      BY <2>1, <2>2, <3>1, <3>2, <1>0, AppliedAbove
    <3>4. \A j \in StartHeight .. base : j < cursor' => j < cursor
      BY <1>0, <2>4 DEF Moves, Heights
    <3>5. base \in Int
      BY <1>0
    <3>6. QED
      BY <2>2, <3>3, <3>4, <3>5, FitsAgree
  <2>5. QED
    BY <2>3, <2>4
<1>4. RowsTrusted'
  BY <1>1, <1>3 DEF RowsTrusted, RowTrusted
<1>5. QED
  BY <1>2, <1>4

LEMMA ProcessKeepsInv ==
  ASSUME TypeOK, TypeOK', Inv,
         NEW acked \in BOOLEAN, NEW current \in BOOLEAN, Process(acked, current)
  PROVE  Inv'
<1>1. JobTrusted'
  BY DEF Process, ProcessBlock, JobTrusted, NoJob
<1>2. QED
  BY <1>1, BaseGrows, BaseStays DEF Inv

LEMMA FailProcessKeepsInv ==
  ASSUME TypeOK, TypeOK', Inv, NEW acked \in BOOLEAN, FailProcess(acked)
  PROVE  Inv'
<1>0. /\ StartHeight \in Nat /\ MaxHeight \in Nat /\ base \in Int
      /\ base \in StartHeight - 1 .. MaxHeight /\ base' \in StartHeight - 1 .. MaxHeight
      /\ cursor \in Int /\ cursor' \in Int /\ job.height \in Heights
      /\ blocks' = blocks /\ utxo' = utxo /\ job' = NoJob
      /\ base' <= base
      /\ acked => base' < job.height
  BY JobType DEF TypeOK, StorageTypeOK, FailProcess, DropJob, Lesser, Heights
<1>1. \A j \in StartHeight .. base' : j < cursor' => j < cursor
  BY <1>0 DEF FailProcess, Acknowledged, Heights
<1>2. \A h \in StartHeight .. base' : blocks[h].main = 1
  BY <1>0 DEF Inv, BaseStored, Base
<1>3. BaseStored' /\ RowsTrusted'
  BY <1>0, <1>1, <1>2, BaseKept DEF Inv
<1>4. JobTrusted'
  BY <1>0 DEF JobTrusted, NoJob
<1>5. QED
  BY <1>3, <1>4 DEF Inv

LEMMA ReorgKeepsInv ==
  ASSUME TypeOK, TypeOK', Inv, NEW f \in StartHeight - 1 .. MaxHeight, Reorg(f)
  PROVE  Inv'
<1> DEFINE safe == SafeRevertHeight(blocks, f)
<1>0. /\ StartHeight \in Nat /\ MaxHeight \in Nat /\ base \in Int
      /\ base \in StartHeight - 1 .. MaxHeight /\ base' \in StartHeight - 1 .. MaxHeight
      /\ cursor \in Int /\ cursor' = cursor /\ utxo' = utxo
      /\ safe \in Heights
  BY SafeRevertType DEF TypeOK, Reorg, ReceiveReorg, Heights
<1>1. CASE LatestBlock(blocks) = 0
  <2>1. blocks' = blocks /\ job' = job /\ base' = base
    BY <1>1 DEF Reorg, ReceiveReorg
  <2>2. QED
    BY <1>0, <2>1
    DEF Inv, BaseStored, RowsTrusted, RowTrusted, JobTrusted, Log, Base
<1>2. CASE LatestBlock(blocks) # 0
  <2>1. /\ blocks' = MarkBlocksAfterHeightNotMain(blocks, safe)
        /\ job' = [kind |-> "revert", height |-> safe, block |-> NoBlock]
        /\ base' = Lesser(base, safe)
    BY <1>2 DEF Reorg, ReceiveReorg
  <2>2. base' <= base /\ base' <= safe
    BY <1>0, <2>1 DEF Lesser, Heights
  <2>3. \A h \in StartHeight .. base' : /\ blocks'[h].hash = blocks[h].hash
                                       /\ blocks'[h].main = 1
    <3>1. SUFFICES ASSUME NEW h \in StartHeight .. base' PROVE blocks'[h] = blocks[h]
      BY <1>0, <2>2 DEF Inv, BaseStored, Base
    <3>2. h \in Heights /\ ~(h > safe)
      BY <1>0, <2>2 DEF Heights
    <3>3. QED
      BY <2>1, <3>2 DEF MarkBlocksAfterHeightNotMain
  <2>4. BaseStored' /\ RowsTrusted'
    BY <1>0, <2>2, <2>3, BaseKept DEF Inv
  <2>5. JobTrusted'
    BY <2>1, <2>2 DEF JobTrusted
  <2>6. QED
    BY <2>4, <2>5 DEF Inv
<1>3. QED
  BY <1>1, <1>2

LEMMA FinishReorgKeepsInv ==
  ASSUME TypeOK, TypeOK', Inv, FinishReorg
  PROVE  Inv'
<1>0. /\ StartHeight \in Nat /\ MaxHeight \in Nat /\ base \in Int
      /\ base \in StartHeight - 1 .. MaxHeight
      /\ cursor \in Int /\ cursor' = cursor /\ base' = base /\ blocks' = blocks
      /\ utxo \in [Outputs -> UtxoRow]
      /\ job.height \in Heights /\ base <= job.height
      /\ utxo' = RevertUtxosAfterHeight(utxo, job.height) /\ job' = NoJob
  BY JobType
  DEF TypeOK, StorageTypeOK, FinishReorg, RevertUtxos, Inv, JobTrusted, Heights
<1>1. ASSUME NEW o \in Outputs
      PROVE  RevertRow(utxo'[o], base') = RevertRow(utxo[o], base')
  BY <1>0, RevertRevert DEF RevertUtxosAfterHeight, Heights
<1>2. \A h \in StartHeight .. base' : blocks[h].main = 1
  BY <1>0 DEF Inv, BaseStored, Base
<1>3. BaseStored' /\ RowsTrusted'
  BY <1>0, <1>1, <1>2, BaseKept DEF Inv
<1>4. JobTrusted'
  BY <1>0 DEF JobTrusted, NoJob
<1>5. QED
  BY <1>3, <1>4 DEF Inv

LEMMA InvStep == ~InBlockSpends /\ TypeOK /\ TypeOK' /\ Inv /\ [Next]_vars => Inv'
<1> SUFFICES ASSUME ~InBlockSpends, TypeOK, TypeOK', Inv, [Next]_vars PROVE Inv'
  OBVIOUS
<1>0. /\ StartHeight \in Nat /\ MaxHeight \in Nat /\ base \in Int /\ base' \in Int
      /\ base \in StartHeight - 1 .. MaxHeight /\ base' \in StartHeight - 1 .. MaxHeight
      /\ cursor \in Int /\ cursor' \in Int
  BY DEF TypeOK, Heights
<1>1. ASSUME NEW b \in Block, NEW stored \in BOOLEAN, Deliver(b, stored)
      PROVE  Inv'
  BY <1>1, DeliverKeepsInv
<1>2. ASSUME NEW acked \in BOOLEAN, NEW current \in BOOLEAN, Process(acked, current)
      PROVE  Inv'
  BY <1>2, ProcessKeepsInv
<1>3. ASSUME NEW acked \in BOOLEAN, FailProcess(acked)
      PROVE  Inv'
  BY <1>3, FailProcessKeepsInv
<1>4. ASSUME NEW f \in StartHeight - 1 .. MaxHeight, Reorg(f)
      PROVE  Inv'
  BY <1>4, ReorgKeepsInv
<1>5. ASSUME FinishReorg
      PROVE  Inv'
  BY <1>5, FinishReorgKeepsInv
<1>6. ASSUME FailReorg
      PROVE  Inv'
  <2>1. BaseStored' /\ RowsTrusted'
    BY <1>6 DEF FailReorg, DropJob, Inv, BaseStored, RowsTrusted, RowTrusted, Log, Base
  <2>2. JobTrusted'
    BY <1>6 DEF FailReorg, DropJob, JobTrusted, NoJob
  <2>3. QED
    BY <2>1, <2>2 DEF Inv
<1>7. ASSUME NEW c \in Heights, Finality(c)
      PROVE  Inv'
  <2>0. /\ base' = base /\ cursor' = cursor /\ utxo' = utxo /\ job' = NoJob
        /\ blocks' = UpdateFinalityStatus(blocks, c)
        /\ blocks \in [Heights -> BlockRow]
    BY <1>7 DEF Finality, ReceiveFinality, TypeOK, StorageTypeOK
  <2>1. ASSUME NEW h \in StartHeight .. base'
        PROVE  blocks'[h].hash = blocks[h].hash /\ blocks'[h].main = 1
    <3>1. h \in Heights /\ blocks[h].main = 1
      BY <1>0, <2>0 DEF Inv, BaseStored, Base, Heights
    <3>2. QED
      BY <2>0, <3>1 DEF UpdateFinalityStatus, MarkBlocksAsFinal
  <2>2. BaseStored' /\ RowsTrusted'
    BY <1>0, <2>0, <2>1, BaseKept DEF Inv
  <2>3. JobTrusted'
    BY <2>0 DEF JobTrusted, NoJob
  <2>4. QED
    BY <2>2, <2>3 DEF Inv
<1>8. ASSUME NEW k \in StartHeight .. MaxHeight, Rewind(k)
      PROVE  Inv'
  <2>0. base' = base /\ blocks' = blocks /\ utxo' = utxo /\ job' = job /\ cursor' < cursor
    BY <1>8 DEF Rewind, storageVars
  <2>1. \A h \in StartHeight .. base' : blocks[h].main = 1
    BY <2>0 DEF Inv, BaseStored, Base
  <2>2. BaseStored' /\ RowsTrusted'
    BY <1>0, <2>0, <2>1, BaseKept DEF Inv
  <2>3. JobTrusted'
    <3>1. job.kind = "block" => cursor' <= job.height
      BY <1>0, <2>0, JobType DEF Inv, JobTrusted, TypeOK, StorageTypeOK, Heights
    <3>2. QED
      BY <2>0, <3>1 DEF Inv, JobTrusted, Log
  <2>4. QED
    BY <2>2, <2>3 DEF Inv
<1>9. ASSUME NEW k \in StartHeight - 1 .. MaxHeight, Fork(k)
      PROVE  Inv'
  <2>0. base' < base /\ blocks' = blocks /\ utxo' = utxo /\ job' = job /\ cursor' = cursor
    BY <1>9 DEF Fork, storageVars
  <2>1. \A h \in StartHeight .. base' : blocks[h].main = 1
    BY <1>0, <2>0 DEF Inv, BaseStored, Base
  <2>2. BaseStored' /\ RowsTrusted'
    BY <1>0, <2>0, <2>1, BaseKept DEF Inv
  <2>3. JobTrusted'
    <3>1. job.kind = "revert" => base' <= job.height
      BY <1>0, <2>0, JobType DEF Inv, JobTrusted, TypeOK, StorageTypeOK, Heights
    <3>2. CASE job.kind = "block" /\ job.height <= base' 
      BY <1>0, <2>0, <3>2, JobType DEF Inv, JobTrusted, Log, TypeOK, StorageTypeOK, Heights
    <3>3. CASE job.kind = "block" /\ ~(job.height <= base')
      <4>1. CASE job.height <= base
        <5>1. job.block = Log[job.height] /\ job.height \in StartHeight .. base
          BY <1>0, <3>3, <4>1, JobType
          DEF Inv, JobTrusted, TypeOK, StorageTypeOK, Heights
        <5>2. Extends(job.block, Log, StartHeight, job.height - 1)
          BY <5>1 DEF Inv, BaseStored, Chained
        <5>3. job.height \in Int /\ base' <= job.height - 1
          BY <1>0, <3>3, <5>1, JobType DEF TypeOK, StorageTypeOK, Heights
        <5>4. Extends(job.block, Log, StartHeight, base')
          BY <1>0, <5>2, <5>3, ExtendsShrink
        <5>5. QED
          BY <2>0, <3>3, <5>4 DEF Inv, JobTrusted, Log
      <4>2. CASE ~(job.height <= base)
        <5>1. Extends(job.block, Log, StartHeight, base)
          BY <3>3, <4>2 DEF Inv, JobTrusted
        <5>2. Extends(job.block, Log, StartHeight, base')
          BY <1>0, <2>0, <5>1, ExtendsShrink
        <5>3. QED
          BY <2>0, <3>3, <5>2 DEF Inv, JobTrusted, Log
      <4>3. QED
        BY <4>1, <4>2
    <3>4. QED
      BY <2>0, <3>1, <3>2, <3>3 DEF JobTrusted
  <2>4. QED
    BY <2>2, <2>3 DEF Inv
<1>10. CASE UNCHANGED vars
  BY <1>10
  DEF vars, storageVars, Inv, BaseStored, RowsTrusted, RowTrusted, JobTrusted, Log, Base
<1>11. QED
  BY <1>1, <1>2, <1>3, <1>4, <1>5, <1>6, <1>7, <1>8, <1>9, <1>10 DEF Next

(* As long as no block spends an output it creates, whatever part of a     *)
(* block or of a rollback is lost, repeated, late or fails, reverting the  *)
(* table to the base leaves what the blocks of the base say: the upserts   *)
(* of process_block_utxos never disturb what revert_utxos_after_height     *)
(* goes back to (sqlite.rs).                                               *)
THEOREM InvHolds == ~InBlockSpends => (Spec => []Inv)
<1>1. Init => TypeOK /\ Inv
  BY TypeInit, InvInit
<1>2. ASSUME ~InBlockSpends
      PROVE  (TypeOK /\ Inv) /\ [Next]_vars => (TypeOK /\ Inv)'
  BY <1>2, TypeStep, InvStep
<1>3. ASSUME ~InBlockSpends
      PROVE  Spec => []Inv
  <2>1. (TypeOK /\ Inv) /\ [Next]_vars => (TypeOK /\ Inv)'
    BY <1>2, <1>3
  <2>2. QED
    BY <1>1, <2>1, PTL DEF Spec
<1>4. QED
  BY <1>3

-----------------------------------------------------------------------------
(* Queries                                                                 *)

(* A row that fits the blocks up to B answers for every height they cover  *)
LEMMA RowAnswers ==
  ASSUME NEW log, NEW B \in StartHeight - 1 .. MaxHeight, Chained(log, B),
         NEW o \in Outputs, NEW r \in UtxoRow, NEW cur \in Int,
         Fits(RevertRow(r, B), o, log, B, cur),
         NEW h \in StartHeight .. B, h < cur
  PROVE  r.height # NULL /\ r.height <= h /\ (r.spent = NULL \/ r.spent > h)
           <=> o \in RefSpendable(log, StartHeight, h)
<1> DEFINE row == RevertRow(r, B)
<1>0. /\ StartHeight \in Nat /\ MaxHeight \in Nat /\ B \in Heights /\ h \in Heights
      /\ row \in UtxoRow
      /\ StartHeight .. h \subseteq StartHeight .. B
  BY RevertRowType DEF Heights
<1>1. r.height # NULL /\ r.height <= h /\ (r.spent = NULL \/ r.spent > h)
        <=> row.height # NULL /\ row.height <= h /\ (row.spent = NULL \/ row.spent > h)
  BY <1>0 DEF RevertRow, NoUtxoRow, UtxoRow, NULL, Heights
<1>2. CASE o \in SpentBy(log, StartHeight, h)
  <2>1. PICK j \in StartHeight .. h : o \in log[j].spends
    BY <1>2 DEF SpentBy
  <2>2. row.spent = j
    BY <1>0, <2>1 DEF Fits, Heights
  <2>3. ~(row.spent = NULL \/ row.spent > h)
    BY <1>0, <2>1, <2>2 DEF NULL, Heights
  <2>4. QED
    BY <1>1, <1>2, <2>3 DEF RefSpendable
<1>3. CASE o \notin SpentBy(log, StartHeight, h) /\ o \in CreatedBy(log, StartHeight, h)
  <2>1. PICK i \in StartHeight .. h : o \in log[i].creates
    BY <1>3 DEF CreatedBy
  <2>2. row.height = i
    BY <1>0, <2>1 DEF Fits
  <2>3. row.spent = NULL \/ row.spent > h
    <3>1. CASE o \in SpentBy(log, StartHeight, B)
      <4>1. PICK j \in StartHeight .. B : o \in log[j].spends
        BY <3>1 DEF SpentBy
      <4>2. j > h
        BY <1>0, <1>3, <4>1 DEF SpentBy, Heights
      <4>3. QED
        BY <4>1, <4>2 DEF Fits
    <3>2. CASE o \notin SpentBy(log, StartHeight, B)
      BY <3>2 DEF Fits
    <3>3. QED
      BY <3>1, <3>2
  <2>4. row.height # NULL /\ row.height <= h
    BY <1>0, <2>1, <2>2 DEF NULL, Heights
  <2>5. QED
    BY <1>1, <1>3, <2>3, <2>4 DEF RefSpendable
<1>4. CASE o \notin SpentBy(log, StartHeight, h) /\ o \notin CreatedBy(log, StartHeight, h)
  <2>1. row.height = NULL \/ row.height > h
    <3>1. CASE o \in CreatedBy(log, StartHeight, B)
      <4>1. PICK i \in StartHeight .. B : o \in log[i].creates
        BY <3>1 DEF CreatedBy
      <4>2. row.height = i /\ i > h
        BY <1>0, <1>4, <4>1 DEF Fits, CreatedBy, Heights
      <4>3. QED
        BY <4>2
    <3>2. CASE o \notin CreatedBy(log, StartHeight, B) /\ o \in SpentBy(log, StartHeight, B)
      <4>1. PICK j \in StartHeight .. B : o \in log[j].spends
        BY <3>2 DEF SpentBy
      <4>2. row.height = j /\ j > h
        BY <1>0, <1>4, <3>2, <4>1 DEF Fits, SpentBy, Heights
      <4>3. QED
        BY <4>2
    <3>3. CASE o \notin Touched(log, StartHeight, B)
      BY <3>3 DEF Fits
    <3>4. QED
      BY <3>1, <3>2, <3>3 DEF Touched
  <2>2. QED
    BY <1>0, <1>1, <1>4, <2>1 DEF RefSpendable, UtxoRow, NULL, Heights
<1>5. QED
  BY <1>2, <1>3, <1>4

LEMMA InvAnswers == TypeOK /\ Inv => AnswersExact
<1> SUFFICES ASSUME TypeOK, Inv, NEW h \in StartHeight .. CaughtUp
             PROVE  Spendable(utxo, h) = RefSpendable(Log, StartHeight, h)
  BY DEF AnswersExact
<1>0. /\ StartHeight \in Nat /\ MaxHeight \in Nat
      /\ base \in StartHeight - 1 .. MaxHeight /\ cursor \in Int
      /\ utxo \in [Outputs -> UtxoRow]
  BY DEF TypeOK, StorageTypeOK, Heights
<1>1. h \in StartHeight .. base /\ h < cursor
  BY <1>0 DEF CaughtUp, Lesser
<1>2. Chained(Log, base)
  BY DEF Inv, BaseStored
<1>3. ASSUME NEW o \in Outputs
      PROVE  o \in Spendable(utxo, h) <=> o \in RefSpendable(Log, StartHeight, h)
  <2>1. Fits(RevertRow(utxo[o], base), o, Log, base, cursor) /\ utxo[o] \in UtxoRow
    BY <1>0 DEF Inv, RowsTrusted, RowTrusted
  <2>2. utxo[o].height # NULL /\ utxo[o].height <= h
          /\ (utxo[o].spent = NULL \/ utxo[o].spent > h)
          <=> o \in RefSpendable(Log, StartHeight, h)
    BY <1>0, <1>1, <1>2, <2>1, RowAnswers
  <2>3. QED
    BY <2>2 DEF Spendable
<1>4. QED
  BY <1>3 DEF Spendable, RefSpendable, CreatedBy

(* As long as no block spends an output it creates, a query at a height of *)
(* the base below the cursor is answered exactly, in every state between   *)
(* two statements of any handler (get_spendable_utxos_at_height,           *)
(* sqlite.rs).                                                             *)
THEOREM AnswersAreExact == ~InBlockSpends => (Spec => []AnswersExact)
<1>1. ASSUME ~InBlockSpends
      PROVE  Spec => []AnswersExact
  <2>1. Spec => []Inv
    BY <1>1, InvHolds
  <2>2. QED
    BY <2>1, TypeCorrect, InvAnswers, PTL
<1>2. QED
  BY <1>1

-----------------------------------------------------------------------------
(* Rollbacks                                                               *)

LEMMA StepKeepsOldBlocks ==
  ASSUME TypeOK, [Next]_vars, NEW h \in Heights,
         h <= LatestBlock(blocks) - FinalityConfirmations, blocks[h].main = 1
  PROVE  blocks'[h].main = 1
<1>0. MaxHeight \in Nat /\ FinalityConfirmations \in Nat \ {0} /\ LatestBlock(blocks) \in Heights
  BY LatestBlockType
<1>1. ASSUME NEW b \in Block, NEW stored \in BOOLEAN, Deliver(b, stored)
      PROVE  blocks'[h].main = 1
  BY <1>1 DEF Deliver, ReceiveBlock, StoreBlock, TypeOK, StorageTypeOK
<1>2. ASSUME NEW f \in StartHeight - 1 .. MaxHeight, Reorg(f)
      PROVE  blocks'[h].main = 1
  <2>1. h <= SafeRevertHeight(blocks, f)
    BY <1>0, StartHeightAssumption DEF SafeRevertHeight, RevertHeight, Greater, Heights
  <2>2. SafeRevertHeight(blocks, f) \in Heights
    BY SafeRevertType
  <2>3. QED
    BY <1>2, <2>1, <2>2 DEF Reorg, ReceiveReorg, MarkBlocksAfterHeightNotMain, Heights
<1>3. ASSUME NEW c \in Heights, Finality(c)
      PROVE  blocks'[h].main = 1
  BY <1>3
  DEF Finality, ReceiveFinality, UpdateFinalityStatus, MarkBlocksAsFinal, TypeOK,
      StorageTypeOK, BlockRow
<1>4. CASE blocks' = blocks
  BY <1>4
<1>5. QED
  BY <1>1, <1>2, <1>3, <1>4
  DEF Next, Process, ProcessBlock, FailProcess, DropJob, FinishReorg, RevertUtxos,
      FailReorg, Rewind, Fork, vars, storageVars

(* No message, however late or repeated, takes a block off the main chain  *)
(* that has FINALITY_CONFIRMATIONS stored blocks above it: the clamp of    *)
(* revert_to_height (database.rs) is enough.                               *)
THEOREM RollbackIsBounded == Spec => RollbackBounded
<1>1. TypeOK /\ [Next]_vars =>
        [\A h \in Heights :
           h <= LatestBlock(blocks) - FinalityConfirmations /\ blocks[h].main = 1
             => blocks'[h].main = 1]_blocks
  BY StepKeepsOldBlocks
<1>2. QED
  BY <1>1, TypeCorrect, PTL DEF Spec, RollbackBounded

-----------------------------------------------------------------------------
(* The ledger                                                              *)

LEMMA CaughtUpType == TypeOK => CaughtUp \in StartHeight - 1 .. MaxHeight
<1> SUFFICES ASSUME TypeOK PROVE CaughtUp \in StartHeight - 1 .. MaxHeight
  OBVIOUS
<1>1. /\ StartHeight \in Nat /\ MaxHeight \in Nat
      /\ base \in StartHeight - 1 .. MaxHeight
      /\ cursor \in StartHeight .. MaxHeight + 1
  BY DEF TypeOK, Heights
<1>2. cursor - 1 \in StartHeight - 1 .. MaxHeight
  BY <1>1
<1>3. base \in Int /\ cursor - 1 \in Int
  BY <1>1
<1>4. QED
  BY <1>1, <1>2, <1>3, LesserIs DEF CaughtUp

(* No step changes a block that the answers depend on, or adds more than   *)
(* one answer                                                              *)
LEMMA StepKeepsLog ==
  ASSUME TypeOK, TypeOK', [Next]_vars
  PROVE  /\ \A h \in StartHeight .. CaughtUp : Log'[h] = Log[h]
         /\ CaughtUp' <= CaughtUp + 1
<1>0. /\ StartHeight \in Nat /\ MaxHeight \in Nat
      /\ cursor \in Int /\ cursor' \in Int /\ base \in Int /\ base' \in Int
      /\ base \in StartHeight - 1 .. MaxHeight
      /\ blocks \in [Heights -> BlockRow]
      /\ cursor - 1 \in Int /\ cursor' - 1 \in Int
  BY DEF TypeOK, StorageTypeOK, Heights
<1>1. ASSUME NEW h \in StartHeight .. CaughtUp
      PROVE  h \in Heights /\ h <= base /\ h < cursor
  BY <1>0, LesserIs DEF CaughtUp, Heights
<1>2. ASSUME NEW b \in Block, NEW stored \in BOOLEAN, Deliver(b, stored)
      PROVE  /\ \A h \in StartHeight .. CaughtUp : Log'[h] = Log[h]
             /\ CaughtUp' <= CaughtUp + 1
  <2>1. \A h \in StartHeight .. CaughtUp : Log'[h] = Log[h]
    BY <1>0, <1>1, <1>2 DEF Deliver, ReceiveBlock, StoreBlock, Log, Hashes, BlockRow
  <2>2. CaughtUp' = CaughtUp
    BY <1>2 DEF Deliver, CaughtUp
  <2>3. QED
    BY <1>0, <2>1, <2>2, LesserIs DEF CaughtUp
<1>3. ASSUME NEW acked \in BOOLEAN, NEW current \in BOOLEAN, Process(acked, current)
      PROVE  Log' = Log /\ CaughtUp' <= CaughtUp + 1
  <2>1. blocks' = blocks /\ job.kind = "block" /\ job.height \in Int
    BY <1>3, JobType DEF Process, ProcessBlock, TypeOK, StorageTypeOK, Heights
  <2>2. base' <= base + 1
    BY <1>0, <1>3 DEF Process, BaseAfter
  <2>3. cursor' <= cursor + 1
    BY <1>0, <1>3, <2>1 DEF Process, Acknowledged
  <2>4. QED
    BY <1>0, <2>1, <2>2, <2>3, LesserIs DEF CaughtUp, Log
<1>4. ASSUME NEW acked \in BOOLEAN, FailProcess(acked)
      PROVE  Log' = Log /\ CaughtUp' <= CaughtUp + 1
  <2>1. blocks' = blocks /\ job.kind = "block" /\ job.height \in Int
    BY <1>4, JobType DEF FailProcess, DropJob, TypeOK, StorageTypeOK, Heights
  <2>2. base' <= base
    BY <1>0, <1>4, <2>1 DEF FailProcess, Lesser
  <2>3. cursor' <= cursor + 1
    BY <1>0, <1>4, <2>1 DEF FailProcess, Acknowledged
  <2>4. QED
    BY <1>0, <2>1, <2>2, <2>3, LesserIs DEF CaughtUp, Log
<1>5. ASSUME NEW f \in StartHeight - 1 .. MaxHeight, Reorg(f)
      PROVE  Log' = Log /\ CaughtUp' <= CaughtUp + 1
  <2>1. Log' = Log
    BY <1>0, <1>5
    DEF Reorg, ReceiveReorg, MarkBlocksAfterHeightNotMain, Log, Hashes, BlockRow
  <2>2. base' <= base /\ cursor' = cursor
    BY <1>0, <1>5, SafeRevertType DEF Reorg, Lesser, Heights
  <2>3. QED
    BY <1>0, <2>1, <2>2, LesserIs DEF CaughtUp
<1>6. ASSUME NEW c \in Heights, Finality(c)
      PROVE  Log' = Log /\ CaughtUp' = CaughtUp
  BY <1>0, <1>6
  DEF Finality, ReceiveFinality, UpdateFinalityStatus, MarkBlocksAsFinal, Log, Hashes,
      BlockRow, CaughtUp
<1>7. ASSUME blocks' = blocks, base' <= base, cursor' <= cursor
      PROVE  Log' = Log /\ CaughtUp' <= CaughtUp + 1
  BY <1>0, <1>7, LesserIs DEF Log, CaughtUp
<1>8. CASE UNCHANGED vars
  BY <1>0, <1>7, <1>8 DEF vars, storageVars
<1>9. ASSUME FinishReorg \/ FailReorg
      PROVE  blocks' = blocks /\ base' <= base /\ cursor' <= cursor
  BY <1>0, <1>9 DEF FinishReorg, RevertUtxos, FailReorg, DropJob
<1>10. ASSUME NEW k, Rewind(k) \/ Fork(k)
       PROVE  blocks' = blocks /\ base' <= base /\ cursor' <= cursor
  BY <1>0, <1>10 DEF Rewind, Fork, storageVars
<1>11. CaughtUp \in Int
  BY <1>0, LesserIs DEF CaughtUp
<1>12. QED
  BY <1>2, <1>3, <1>4, <1>5, <1>6, <1>7, <1>8, <1>9, <1>10, <1>11 DEF Next

LEMMA LedgerStep ==
  ASSUME TypeOK, TypeOK', Inv, Inv', [Next]_vars
  PROVE  [LedgerView!LedgerNext]_(LedgerView!ledgerVars)
<1> DEFINE ans == [h \in StartHeight .. CaughtUp |-> Spendable(utxo, h)]
<1>0. /\ StartHeight \in Nat /\ MaxHeight \in Nat
      /\ CaughtUp \in StartHeight - 1 .. MaxHeight
      /\ CaughtUp' \in StartHeight - 1 .. MaxHeight
      /\ CaughtUp \in Int /\ CaughtUp' \in Int
  <2>1. (CaughtUp \in StartHeight - 1 .. MaxHeight)'
    BY CaughtUpType, PTL
  <2>2. QED
    BY <2>1, CaughtUpType DEF Heights
<1>1. /\ \A h \in StartHeight .. CaughtUp : Log'[h] = Log[h]
      /\ CaughtUp' <= CaughtUp + 1
  BY StepKeepsLog
<1>2. /\ \A h \in StartHeight .. CaughtUp : ans[h] = RefSpendable(Log, StartHeight, h)
      /\ \A h \in StartHeight .. CaughtUp' : ans'[h] = RefSpendable(Log', StartHeight, h)
  <2>1. AnswersExact /\ AnswersExact'
    BY InvAnswers, PTL
  <2>2. QED
    BY <2>1 DEF AnswersExact
<1>3. \A h \in StartHeight .. CaughtUp :
        RefSpendable(Log, StartHeight, h) = RefSpendable(Log', StartHeight, h)
  BY <1>0, <1>1, NewAnswers
<1>4. CASE CaughtUp' <= CaughtUp
  <2>1. ans' = [h \in StartHeight .. CaughtUp' |-> ans[h]]
    BY <1>0, <1>2, <1>3, <1>4
  <2>2. CASE CaughtUp' = CaughtUp
    BY <2>1, <2>2 DEF LedgerView!ledgerVars
  <2>3. CASE CaughtUp' < CaughtUp
    <3>1. CaughtUp' \in StartHeight - 1 .. CaughtUp - 1
      BY <1>0, <2>3
    <3>2. LedgerView!Truncate
      BY <2>1, <3>1 DEF LedgerView!Truncate
    <3>3. QED
      BY <3>2 DEF LedgerView!LedgerNext
  <2>4. QED
    BY <1>0, <1>4, <2>2, <2>3
<1>5. CASE CaughtUp' = CaughtUp + 1
  <2> DEFINE next == Spendable(utxo', CaughtUp')
  <2>1. ans' = [h \in StartHeight .. CaughtUp + 1 |->
                  IF h <= CaughtUp THEN ans[h] ELSE next]
    BY <1>0, <1>2, <1>3, <1>5
  <2>2. next \in SUBSET Outputs
    BY DEF Spendable
  <2>3. next = RefSpendable(Log', StartHeight, CaughtUp + 1)
    BY <1>0, <1>2, <1>5
  <2>4. LedgerView!Current = RefSpendable(Log, StartHeight, CaughtUp)
    BY <1>0, <1>1, <1>2, NewAnswers DEF LedgerView!Current
  <2>5. (next \ LedgerView!Current) \cap LedgerView!Ever = {}
    BY <1>0, <1>1, <1>2, <2>3, <2>4, NewAnswers DEF LedgerView!Ever, LedgerView!Answered
  <2>6. LedgerView!Grow
    BY <1>5, <2>1, <2>2, <2>5 DEF LedgerView!Grow
  <2>7. QED
    BY <2>6 DEF LedgerView!LedgerNext
<1>6. QED
  BY <1>0, <1>1, <1>4, <1>5

(* As long as no block spends an output it creates, the tables, queried at *)
(* the heights caught up with, implement Ledger: whatever handler runs,    *)
(* fails or is interrupted, and whatever rollback runs, answers are only   *)
(* appended and taken away from the end, and what was spent does not come  *)
(* back (process_block_utxos, revert_to_height).                           *)
THEOREM LedgerImplemented == ~InBlockSpends => (Spec => ImplementsLedger)
<1>1. Init => LedgerView!LedgerInit
  BY StartHeightAssumption DEF Init, CaughtUp, Lesser, LedgerView!LedgerInit, LedgerView!Answered, Heights
<1>2. ASSUME ~InBlockSpends
      PROVE  Spec => ImplementsLedger
  <2>1. Spec => []Inv
    BY <1>2, InvHolds
  <2>2. TypeOK /\ TypeOK' /\ Inv /\ Inv' /\ [Next]_vars
          => [LedgerView!LedgerNext]_(LedgerView!ledgerVars)
    BY LedgerStep
  <2>3. QED
    BY <1>1, <2>1, <2>2, TypeCorrect, PTL DEF Spec, ImplementsLedger, LedgerView!LedgerSpec
<1>3. QED
  BY <1>2
=============================================================================
