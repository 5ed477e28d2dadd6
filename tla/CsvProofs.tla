------------------------------ MODULE CsvProofs ------------------------------
(***************************************************************************)
(* Proofs about CsvFollower, for every set of outputs, every height bound, *)
(* every START_HEIGHT and every number of confirmations, and with blocks   *)
(* that spend what they create.                                            *)
(***************************************************************************)
EXTENDS Datasources, FollowerProofs

USE MaxHeightAssumption, FinalityAssumption, StartHeightAssumption, ForksAssumption

(* The blocks from START_HEIGHT to height hi are blocks of one chain       *)
CsvChained(log, hi) ==
  \A h \in StartHeight .. hi : /\ log[h] \in Block
                              /\ Extends(log[h], log, StartHeight, h - 1)

(* The row says of output o what the blocks up to height hi say: nothing   *)
(* if none of them created it, and otherwise when it was created and, as   *)
(* soon as the spending block has been sent (again), spent.                *)
CsvFits(row, o, log, hi, cur) ==
  /\ \A i \in StartHeight .. hi : o \in log[i].creates => row.height = i
  /\ o \notin CreatedBy(log, StartHeight, hi) => row = NoUtxoRow
  /\ o \notin SpentBy(log, StartHeight, hi) => row.spent = NULL
  /\ \A j \in StartHeight .. hi :
       o \in log[j].spends /\ o \in CreatedBy(log, StartHeight, hi) =>
         /\ row.spent \in {NULL, j}
         /\ j < cur => row.spent = j

(* No row has been spent without having been created                       *)
NullOrWhole(row) == row.height = NULL => row = NoUtxoRow

(* The inductive invariant.  Reverted to the sound height, every row says  *)
(* what the sound blocks say, whatever lies above; and what the source     *)
(* keeps beside the rows agrees with the same blocks.                      *)
CsvRowsTrusted ==
  \A o \in Outputs :
    /\ CsvFits(RevertRow(utxos[o], sound), o, block_hashes, sound, sending)
    /\ NullOrWhole(utxos[o])

CsvInv ==
  /\ CsvChained(block_hashes, sound)
  /\ CsvRowsTrusted
  /\ \A h \in StartHeight .. sound : block_utxos[h] = Copies(h, block_hashes[h])
  /\ \A h \in StartHeight .. CsvCaughtUp : h <= latest_block

-----------------------------------------------------------------------------
(* What a block does to a row                                              *)

CsvApplied(r, o, h, b) ==
  LET inserted == IF o \in b.creates THEN [height |-> h, spent |-> NULL] ELSE r
  IN  IF o \in b.spends /\ inserted # NoUtxoRow THEN [inserted EXCEPT !.spent = h]
                                                ELSE inserted

LEMMA InsertedFirstIsApplied ==
  ASSUME NEW u, NEW h, NEW b, NEW o \in Outputs
  PROVE  InsertedFirst(u, h, b)[o] = CsvApplied(u[o], o, h, b)
BY DEF InsertedFirst, Updated, Inserted, CsvApplied

LEMMA CsvAppliedType ==
  ASSUME NEW r \in UtxoRow, NEW h \in Heights, NEW b, NEW o
  PROVE  CsvApplied(r, o, h, b) \in UtxoRow
BY DEF CsvApplied, UtxoRow

LEMMA InsertedFirstType ==
  ASSUME NEW u \in [Outputs -> UtxoRow], NEW h \in Heights, NEW b
  PROVE  InsertedFirst(u, h, b) \in [Outputs -> UtxoRow]
BY DEF InsertedFirst, Updated, Inserted, UtxoRow

LEMMA CopiesType ==
  ASSUME NEW h \in Heights, NEW b
  PROVE  Copies(h, b) \in [Outputs -> UtxoRow] /\ NoUtxos \in [Outputs -> UtxoRow]
BY DEF Copies, Inserted, NoUtxos, NoUtxoRow, UtxoRow

LEMMA WholeKept ==
  ASSUME NEW r \in UtxoRow, NullOrWhole(r), NEW h \in Heights, NEW b, NEW o
  PROVE  NullOrWhole(CsvApplied(r, o, h, b)) /\ NullOrWhole(RevertRow(r, h))
BY DEF NullOrWhole, CsvApplied, RevertRow, NoUtxoRow, UtxoRow, NULL, Heights

(* A creation is not after its only spending                               *)
LEMMA CsvCreatedBeforeSpent ==
  ASSUME NEW log, NEW B \in StartHeight - 1 .. MaxHeight, CsvChained(log, B),
         NEW o \in Outputs,
         NEW i \in StartHeight .. B, NEW j \in StartHeight .. B,
         o \in log[j].spends
  PROVE  /\ o \in log[i].creates => i <= j
         /\ o \in log[i].spends => i = j
<1>1. o \in log[i].creates => ~(j < i)
  BY DEF CsvChained, Extends, Touched, SpentBy, Heights
<1>2. o \in log[i].spends => ~(j < i) /\ ~(i < j)
  BY DEF CsvChained, Extends, SpentBy, Heights
<1>3. QED
  BY <1>1, <1>2 DEF Heights

(* A row that fits the blocks up to B fits, once reverted, those up to C   *)
LEMMA CsvFitsShrink ==
  ASSUME NEW log,
         NEW B \in StartHeight - 1 .. MaxHeight, NEW C \in StartHeight - 1 .. B,
         CsvChained(log, B),
         NEW o \in Outputs, NEW cur \in Int, NEW r \in UtxoRow,
         CsvFits(RevertRow(r, B), o, log, B, cur)
  PROVE  CsvFits(RevertRow(r, C), o, log, C, cur)
<1> DEFINE row == RevertRow(r, B)
<1> DEFINE low == RevertRow(row, C)
<1>0. /\ row \in UtxoRow
      /\ low = RevertRow(r, C)
      /\ StartHeight \in Nat /\ MaxHeight \in Nat /\ C \in -1 .. MaxHeight
      /\ StartHeight .. C \subseteq StartHeight .. B
  BY RevertRowType, RevertRevert DEF Heights
<1>1. \A i \in StartHeight .. C : o \in log[i].creates => low.height = i
  BY <1>0 DEF CsvFits, RevertRow, UtxoRow, Heights
<1>2. o \notin CreatedBy(log, StartHeight, C) => low = NoUtxoRow
  <2>1. SUFFICES ASSUME o \notin CreatedBy(log, StartHeight, C) PROVE low = NoUtxoRow
    OBVIOUS
  <2>2. CASE o \in CreatedBy(log, StartHeight, B)
    <3>1. PICK i \in StartHeight .. B : o \in log[i].creates
      BY <2>2 DEF CreatedBy
    <3>2. row.height = i /\ i > C
      BY <1>0, <2>1, <3>1 DEF CsvFits, CreatedBy
    <3>3. QED
      BY <3>2 DEF RevertRow
  <2>3. CASE o \notin CreatedBy(log, StartHeight, B)
    <3>1. row = NoUtxoRow
      BY <2>3 DEF CsvFits
    <3>2. QED
      BY <1>0, <3>1 DEF RevertRow, NoUtxoRow, NULL
  <2>4. QED
    BY <2>2, <2>3
<1>3. o \notin SpentBy(log, StartHeight, C) => low.spent = NULL
  <2>1. SUFFICES ASSUME o \notin SpentBy(log, StartHeight, C),
                        o \in CreatedBy(log, StartHeight, C)
                 PROVE  low.spent = NULL
    BY <1>2 DEF NoUtxoRow
  <2>2. o \in CreatedBy(log, StartHeight, B)
    BY <1>0, <2>1 DEF CreatedBy
  <2>3. row.spent = NULL \/ row.spent > C
    <3>1. CASE o \in SpentBy(log, StartHeight, B)
      <4>1. PICK j \in StartHeight .. B : o \in log[j].spends
        BY <3>1 DEF SpentBy
      <4>2. j > C /\ row.spent \in {NULL, j}
        BY <1>0, <2>1, <2>2, <4>1 DEF CsvFits, SpentBy
      <4>3. QED
        BY <4>2
    <3>2. QED
      BY <3>1 DEF CsvFits
  <2>4. QED
    BY <1>0, <2>3 DEF RevertRow, NoUtxoRow, UtxoRow, NULL, Heights
<1>4. ASSUME NEW j \in StartHeight .. C, o \in log[j].spends,
             o \in CreatedBy(log, StartHeight, C)
      PROVE  low.spent \in {NULL, j} /\ (j < cur => low.spent = j)
  <2>1. PICK i \in StartHeight .. C : o \in log[i].creates
    BY <1>4 DEF CreatedBy
  <2>2. row.height = i /\ row.spent \in {NULL, j} /\ (j < cur => row.spent = j)
    BY <1>0, <1>4, <2>1 DEF CsvFits, CreatedBy
  <2>3. low = row
    BY <1>0, <2>1, <2>2 DEF RevertRow, UtxoRow, NULL, Heights
  <2>4. QED
    BY <2>2, <2>3
<1>5. QED
  BY <1>0, <1>1, <1>2, <1>3, <1>4 DEF CsvFits

(* Rows that fit the same blocks of two logs, and a cursor that went back  *)
LEMMA CsvFitsAgree ==
  ASSUME NEW log1, NEW log2, NEW B \in StartHeight - 1 .. MaxHeight,
         \A h \in StartHeight .. B : log1[h] = log2[h],
         NEW o, NEW cur \in Int, NEW new \in Int, new <= cur, NEW row,
         CsvFits(row, o, log1, B, cur)
  PROVE  CsvFits(row, o, log2, B, new)
<1>1. StartHeight \in Nat /\ MaxHeight \in Nat /\ B \in Int
  BY DEF Heights
<1>2. /\ CreatedBy(log1, StartHeight, B) = CreatedBy(log2, StartHeight, B)
      /\ SpentBy(log1, StartHeight, B) = SpentBy(log2, StartHeight, B)
  BY <1>1, EffectsAgree
<1>3. \A j \in StartHeight .. B : j < new => j < cur
  BY <1>1
<1>4. QED
  BY <1>2, <1>3 DEF CsvFits

LEMMA CsvChainedAgree ==
  ASSUME NEW log1, NEW log2,
         NEW B \in StartHeight - 1 .. MaxHeight, NEW C \in StartHeight - 1 .. B,
         \A h \in StartHeight .. C : log1[h] = log2[h], CsvChained(log1, B)
  PROVE  CsvChained(log2, C)
<1>0. StartHeight \in Nat /\ MaxHeight \in Nat
  BY DEF Heights
<1>1. ASSUME NEW h \in StartHeight .. C
      PROVE  log2[h] \in Block /\ Extends(log2[h], log2, StartHeight, h - 1)
  <2>1. h \in StartHeight .. B /\ h - 1 \in Int /\ log1[h] = log2[h]
    BY <1>0
  <2>2. \A k \in StartHeight .. h - 1 : log1[k] = log2[k]
    BY <1>0
  <2>3. QED
    BY <2>1, <2>2, ExtendsAgree DEF CsvChained
<1>2. QED
  BY <1>1 DEF CsvChained

(* A block admitted above B leaves, for a revert to B, what was there      *)
LEMMA CsvAppliedAbove ==
  ASSUME NEW log, NEW B \in StartHeight - 1 .. MaxHeight,
         NEW h \in B + 1 .. MaxHeight, NEW b, Extends(b, log, StartHeight, B),
         NEW o \in Outputs, NEW cur, NEW r \in UtxoRow,
         CsvFits(RevertRow(r, B), o, log, B, cur)
  PROVE  RevertRow(CsvApplied(r, o, h, b), B) = RevertRow(r, B)
<1>0. /\ StartHeight \in Nat /\ MaxHeight \in Nat /\ B \in -1 .. MaxHeight
      /\ h \in Heights /\ h > B
      /\ RevertRow(r, B) \in UtxoRow
  BY RevertRowType DEF Heights
<1>1. CASE o \in b.creates
  <2>1. RevertRow(r, B) = NoUtxoRow
    BY <1>1 DEF Extends, Touched, CsvFits
  <2>2. CsvApplied(r, o, h, b).height = h
    BY <1>1 DEF CsvApplied
  <2>3. QED
    BY <1>0, <2>1, <2>2 DEF RevertRow
<1>2. CASE o \notin b.creates /\ o \in b.spends
  <2>1. RevertRow(r, B).spent = NULL
    BY <1>2 DEF Extends, CsvFits
  <2>2. CASE r = NoUtxoRow
    BY <1>2, <2>2 DEF CsvApplied
  <2>3. CASE r # NoUtxoRow
    <3>1. CsvApplied(r, o, h, b) = [r EXCEPT !.spent = h]
      BY <1>2, <2>3 DEF CsvApplied
    <3>2. CASE r.height > B
      BY <1>0, <3>1, <3>2 DEF RevertRow, UtxoRow
    <3>3. CASE ~(r.height > B)
      <4>1. RevertRow([r EXCEPT !.spent = h], B) = [r EXCEPT !.spent = NULL]
        BY <1>0, <3>3 DEF RevertRow, UtxoRow
      <4>2. RevertRow(r, B) = [r EXCEPT !.spent = NULL]
        BY <1>0, <2>1, <3>3 DEF RevertRow, UtxoRow
      <4>3. QED
        BY <3>1, <4>1, <4>2
    <3>4. QED
      BY <3>2, <3>3
  <2>4. QED
    BY <2>2, <2>3
<1>3. CASE o \notin b.creates /\ o \notin b.spends
  BY <1>3 DEF CsvApplied
<1>4. QED
  BY <1>1, <1>2, <1>3

(* How the cursor moves                                                    *)
CsvMoves(cur, new) == new <= cur \/ new = cur + 1

(* Block log[h] at the cursor is applied to a row that fits the blocks up  *)
(* to B, which includes h                                                  *)
LEMMA CsvAppliedAgain ==
  ASSUME NEW log, NEW B \in StartHeight - 1 .. MaxHeight, CsvChained(log, B),
         NEW h \in StartHeight .. B,
         NEW o \in Outputs, NEW r \in UtxoRow, NullOrWhole(r),
         NEW new \in Int, CsvMoves(h, new),
         CsvFits(RevertRow(r, B), o, log, B, h)
  PROVE  CsvFits(RevertRow(CsvApplied(r, o, h, log[h]), B), o, log, B, new)
<1> DEFINE b == log[h]
<1> DEFINE row == RevertRow(r, B)
<1> DEFINE next == RevertRow(CsvApplied(r, o, h, b), B)
<1>0. /\ StartHeight \in Nat /\ MaxHeight \in Nat /\ B \in -1 .. MaxHeight
      /\ h \in Heights
      /\ row \in UtxoRow
  BY RevertRowType DEF Heights
<1>1. CASE o \in b.creates
  <2>1. \A i \in StartHeight .. B : o \in log[i].creates => i = h
    BY <1>1 DEF CsvFits
  <2>2. \A j \in StartHeight .. B : o \in log[j].spends => h <= j
    BY <1>1, CsvCreatedBeforeSpent
  <2>3. o \in CreatedBy(log, StartHeight, B)
    BY <1>1 DEF CreatedBy
  <2>4. CASE o \in b.spends
    <3>1. CsvApplied(r, o, h, b) = [height |-> h, spent |-> h]
      BY <1>0, <1>1, <2>4 DEF CsvApplied, NoUtxoRow, NULL, Heights
    <3>2. next = [height |-> h, spent |-> h]
      BY <1>0, <3>1 DEF RevertRow, Heights
    <3>3. \A j \in StartHeight .. B : o \in log[j].spends => j = h
      BY <2>4, CsvCreatedBeforeSpent
    <3>4. o \in SpentBy(log, StartHeight, B)
      BY <2>4 DEF SpentBy
    <3>5. QED
      BY <2>1, <2>3, <3>2, <3>3, <3>4 DEF CsvFits
  <2>5. CASE o \notin b.spends
    <3>1. CsvApplied(r, o, h, b) = [height |-> h, spent |-> NULL]
      BY <1>1, <2>5 DEF CsvApplied
    <3>2. next = [height |-> h, spent |-> NULL]
      BY <1>0, <3>1 DEF RevertRow, NULL, Heights
    <3>3. \A j \in StartHeight .. B : o \in log[j].spends => ~(j < new)
      BY <1>0, <2>2, <2>5 DEF CsvMoves, Heights
    <3>4. QED
      BY <2>1, <2>3, <3>2, <3>3 DEF CsvFits
  <2>6. QED
    BY <2>4, <2>5
<1>2. CASE o \notin b.creates /\ o \in b.spends
  <2>1. \A j \in StartHeight .. B : o \in log[j].spends => j = h
    BY <1>2, CsvCreatedBeforeSpent
  <2>2. o \in SpentBy(log, StartHeight, B)
    BY <1>2 DEF SpentBy
  <2>3. CASE o \in CreatedBy(log, StartHeight, B)
    <3>1. PICK i \in StartHeight .. B : o \in log[i].creates
      BY <2>3 DEF CreatedBy
    <3>2. row.height = i
      BY <3>1 DEF CsvFits
    <3>3. r.height = i
      BY <1>0, <3>1, <3>2 DEF RevertRow, NoUtxoRow, UtxoRow, NULL, Heights
    <3>4. CsvApplied(r, o, h, b) = [height |-> i, spent |-> h]
      BY <1>0, <1>2, <3>1, <3>3 DEF CsvApplied, NoUtxoRow, UtxoRow, NULL, Heights
    <3>5. next = [height |-> i, spent |-> h]
      BY <1>0, <3>1, <3>4 DEF RevertRow, Heights
    <3>6. \A k \in StartHeight .. B : o \in log[k].creates => k = i
      BY <3>2 DEF CsvFits
    <3>7. QED
      BY <2>1, <2>2, <2>3, <3>5, <3>6 DEF CsvFits
  <2>4. CASE o \notin CreatedBy(log, StartHeight, B)
    <3>1. row = NoUtxoRow
      BY <2>4 DEF CsvFits
    <3>2. r = NoUtxoRow \/ r.height > B
      BY <1>0, <3>1 DEF NullOrWhole, RevertRow, NoUtxoRow, UtxoRow, NULL, Heights
    <3>3. next = NoUtxoRow
      BY <1>0, <1>2, <3>1, <3>2 DEF CsvApplied, RevertRow, UtxoRow
    <3>4. QED
      BY <2>2, <2>4, <3>3 DEF CsvFits, CreatedBy
  <2>5. QED
    BY <2>3, <2>4
<1>3. CASE o \notin b.creates /\ o \notin b.spends
  <2>1. next = row
    BY <1>3 DEF CsvApplied
  <2>2. \A j \in StartHeight .. B : o \in log[j].spends /\ j < new => j < h
    BY <1>0, <1>3 DEF CsvMoves, Heights
  <2>3. QED
    BY <2>1, <2>2 DEF CsvFits
<1>4. QED
  BY <1>1, <1>2, <1>3

(* Block b, the first above B, is applied to a row with nothing from above *)
LEMMA CsvAppliedNext ==
  ASSUME NEW log, NEW B \in StartHeight - 1 .. MaxHeight, CsvChained(log, B),
         NEW h \in Heights, h = B + 1, Extends(log[h], log, StartHeight, B),
         NEW o \in Outputs, NEW r \in UtxoRow, RevertRow(r, B) = r,
         NEW new \in Int, CsvMoves(h, new),
         CsvFits(r, o, log, B, h)
  PROVE  CsvFits(RevertRow(CsvApplied(r, o, h, log[h]), h), o, log, h, new)
<1> DEFINE b == log[h]
<1> DEFINE next == RevertRow(CsvApplied(r, o, h, b), h)
<1>0. /\ StartHeight \in Nat /\ MaxHeight \in Nat /\ B \in -1 .. MaxHeight
      /\ StartHeight .. h = (StartHeight .. B) \cup {h} /\ h \notin StartHeight .. B
      /\ h \in StartHeight .. h
  BY DEF Heights
<1>1. CASE o \in b.creates
  <2>1. o \notin Touched(log, StartHeight, B)
    BY <1>1 DEF Extends
  <2>2. \A i \in StartHeight .. h : o \in log[i].creates \/ o \in log[i].spends => i = h
    BY <1>0, <2>1 DEF Touched, CreatedBy, SpentBy
  <2>3. o \in CreatedBy(log, StartHeight, h)
    BY <1>0, <1>1 DEF CreatedBy
  <2>4. CASE o \in b.spends
    <3>1. CsvApplied(r, o, h, b) = [height |-> h, spent |-> h]
      BY <1>1, <2>4 DEF CsvApplied, NoUtxoRow, NULL, Heights
    <3>2. next = [height |-> h, spent |-> h]
      BY <3>1 DEF RevertRow, Heights
    <3>3. o \in SpentBy(log, StartHeight, h)
      BY <1>0, <2>4 DEF SpentBy
    <3>4. QED
      BY <2>2, <2>3, <3>2, <3>3 DEF CsvFits
  <2>5. CASE o \notin b.spends
    <3>1. CsvApplied(r, o, h, b) = [height |-> h, spent |-> NULL]
      BY <1>1, <2>5 DEF CsvApplied
    <3>2. next = [height |-> h, spent |-> NULL]
      BY <3>1 DEF RevertRow, NULL, Heights
    <3>3. \A j \in StartHeight .. h : o \notin log[j].spends
      BY <2>2, <2>5
    <3>4. QED
      BY <2>2, <2>3, <3>2, <3>3 DEF CsvFits
  <2>6. QED
    BY <2>4, <2>5
<1>2. CASE o \notin b.creates /\ o \in b.spends
  <2>1. o \notin SpentBy(log, StartHeight, B)
    BY <1>2 DEF Extends
  <2>2. \A j \in StartHeight .. h : o \in log[j].spends => j = h
    BY <1>0, <2>1 DEF SpentBy
  <2>3. o \in SpentBy(log, StartHeight, h)
    BY <1>0, <1>2 DEF SpentBy
  <2>4. CASE o \in CreatedBy(log, StartHeight, B)
    <3>1. PICK i \in StartHeight .. B : o \in log[i].creates
      BY <2>4 DEF CreatedBy
    <3>2. r.height = i
      BY <3>1 DEF CsvFits
    <3>3. CsvApplied(r, o, h, b) = [height |-> i, spent |-> h]
      BY <1>0, <1>2, <3>1, <3>2 DEF CsvApplied, NoUtxoRow, UtxoRow, NULL, Heights
    <3>4. next = [height |-> i, spent |-> h]
      BY <1>0, <3>1, <3>3 DEF RevertRow, Heights
    <3>5. \A k \in StartHeight .. h : o \in log[k].creates => k = i
      BY <1>0, <1>2, <3>2 DEF CsvFits
    <3>6. o \in CreatedBy(log, StartHeight, h)
      BY <1>0, <3>1 DEF CreatedBy
    <3>7. QED
      BY <2>2, <2>3, <3>4, <3>5, <3>6 DEF CsvFits
  <2>5. CASE o \notin CreatedBy(log, StartHeight, B)
    <3>1. next = NoUtxoRow
      BY <1>0, <1>2, <2>5 DEF CsvFits, CsvApplied, RevertRow, NoUtxoRow, NULL, Heights
    <3>2. o \notin CreatedBy(log, StartHeight, h)
      BY <1>0, <1>2, <2>5 DEF CreatedBy
    <3>3. QED
      BY <2>3, <3>1, <3>2 DEF CsvFits, CreatedBy
  <2>6. QED
    BY <2>4, <2>5
<1>3. CASE o \notin b.creates /\ o \notin b.spends
  <2>1. next = r
    BY <1>0, <1>3 DEF CsvApplied, RevertRow, NoUtxoRow, UtxoRow, NULL, Heights
  <2>2. /\ o \in CreatedBy(log, StartHeight, h) <=> o \in CreatedBy(log, StartHeight, B)
        /\ o \in SpentBy(log, StartHeight, h) <=> o \in SpentBy(log, StartHeight, B)
    BY <1>0, <1>3 DEF CreatedBy, SpentBy
  <2>3. \A j \in StartHeight .. B : j < h
    BY <1>0
  <2>4. QED
    BY <1>0, <1>3, <2>1, <2>2, <2>3 DEF CsvFits
<1>4. QED
  BY <1>1, <1>2, <1>3

-----------------------------------------------------------------------------
(* Type correctness                                                        *)

LEMMA MoveOnType ==
  ASSUME sending \in StartHeight .. MaxHeight, NEW acked \in BOOLEAN, MoveOn(acked)
  PROVE  sending' \in StartHeight .. MaxHeight + 1 /\ CsvMoves(sending, sending')
BY DEF MoveOn, CsvMoves, Heights

LEMMA RevertHeightType ==
  ASSUME NEW latest \in Heights, NEW f \in StartHeight - 1 .. MaxHeight
  PROVE  RevertHeight(latest, f) \in Heights /\ StartHeight - 1 <= RevertHeight(latest, f)
BY DEF RevertHeight, Greater, Heights

LEMMA CsvTypeInit == CsvInit => CsvTypeOK
<1> SUFFICES ASSUME CsvInit PROVE CsvTypeOK
  OBVIOUS
<1>1. NoUtxoRow \in UtxoRow /\ 0 \in Heights
  BY DEF NoUtxoRow, UtxoRow, Heights
<1>2. sending \in StartHeight .. MaxHeight + 1 /\ sound \in StartHeight - 1 .. MaxHeight
  BY DEF CsvInit, Heights
<1>3. QED
  BY <1>1, <1>2 DEF CsvInit, CsvTypeOK, NoUtxos

LEMMA NoBlockIsNoBlock == NoBlock \notin Block
BY DEF NoBlock, Block, NULL

LEMMA CsvTypeStep == CsvTypeOK /\ [CsvNext]_csvVars => CsvTypeOK'
<1> SUFFICES ASSUME CsvTypeOK, [CsvNext]_csvVars PROVE CsvTypeOK'
  OBVIOUS
<1> USE DEF CsvTypeOK
<1>0. StartHeight \in Nat /\ MaxHeight \in Nat
  BY DEF Heights
<1>1. ASSUME NEW b \in Block, NEW acked \in BOOLEAN, NEW current \in BOOLEAN,
             CsvDeliver(b, acked, current)
      PROVE  CsvTypeOK'
  <2>0. sending \in Heights /\ sending \in StartHeight .. MaxHeight
    BY <1>0, <1>1 DEF CsvDeliver, Heights
  <2>1. utxos' \in [Outputs -> UtxoRow]
    BY <1>1, <2>0, InsertedFirstType DEF CsvDeliver
  <2>2. block_utxos' \in [Heights -> [Outputs -> UtxoRow]] /\ latest_block' \in Heights
    BY <1>1, <2>0, CopiesType DEF CsvDeliver
  <2>3. block_hashes' \in [Heights -> Block \cup {NoBlock}]
    BY <1>1, <2>0 DEF CsvDeliver
  <2>4. main_chain_heights' \subseteq {h \in Heights : block_hashes'[h] # NoBlock}
    BY <1>1, <2>0, NoBlockIsNoBlock DEF CsvDeliver
  <2>5. sending' \in StartHeight .. MaxHeight + 1
    BY <1>1, <2>0, MoveOnType DEF CsvDeliver
  <2>6. sound' \in StartHeight - 1 .. MaxHeight
    BY <1>0, <1>1, <2>0 DEF CsvDeliver
  <2>7. finalized_heights' \subseteq Heights
    BY <1>1 DEF CsvDeliver
  <2>8. QED
    BY <2>1, <2>2, <2>3, <2>4, <2>5, <2>6, <2>7
<1>2. ASSUME NEW f \in StartHeight - 1 .. MaxHeight, CsvReorg(f)
      PROVE  CsvTypeOK'
  <2> DEFINE safe == RevertHeight(latest_block, f)
  <2>1. safe \in Heights
    BY RevertHeightType
  <2>2. utxos' \in [Outputs -> UtxoRow]
    <3>1. utxos' = RevertUtxosAfterHeight(utxos, safe)
      BY <1>2 DEF CsvReorg, Retained
    <3> HIDE DEF safe
    <3>2. safe \in Int
      BY <1>0, <2>1 DEF Heights
    <3>3. QED
      BY <3>1, <3>2, RevertType
  <2>3. block_utxos' \in [Heights -> [Outputs -> UtxoRow]]
    BY <1>2, CopiesType DEF CsvReorg
  <2>4. sound' \in StartHeight - 1 .. MaxHeight
    <3>1. sound \in Int /\ safe \in StartHeight - 1 .. MaxHeight /\ safe \in Int
      BY <1>0, <2>1, RevertHeightType DEF Heights
    <3>2. sound' \in {sound, safe}
      BY <1>2, <3>1, LesserIs DEF CsvReorg
    <3>3. QED
      BY <3>1, <3>2
  <2>5. QED
    BY <1>2, <2>1, <2>2, <2>3, <2>4 DEF CsvReorg
<1>3. ASSUME NEW h \in Heights, CsvFinality(h)
      PROVE  CsvTypeOK'
  <2>1. 0 .. h - FinalityConfirmations + 1 \subseteq Heights
    BY <1>0 DEF Heights
  <2>2. QED
    BY <1>3, <2>1 DEF CsvFinality
<1>4. CASE CsvRestart
  <2>1. NoUtxoRow \in UtxoRow /\ 0 \in Heights /\ StartHeight - 1 \in StartHeight - 1 .. MaxHeight
    BY <1>0 DEF NoUtxoRow, UtxoRow, Heights
  <2>2. QED
    BY <1>4, <2>1 DEF CsvRestart, EmptyMaps, NoUtxos
<1>5. ASSUME NEW k \in StartHeight .. MaxHeight, CsvRewind(k)
      PROVE  CsvTypeOK'
  BY <1>0, <1>5 DEF CsvRewind
<1>6. ASSUME NEW k \in StartHeight - 1 .. MaxHeight, CsvFork(k)
      PROVE  CsvTypeOK'
  BY <1>6 DEF CsvFork
<1>7. CASE UNCHANGED csvVars
  BY <1>7 DEF csvVars
<1>8. QED
  BY <1>1, <1>2, <1>3, <1>4, <1>5, <1>6, <1>7 DEF CsvNext

(* Whatever arrives, in whatever order, the maps of the CSV datasource     *)
(* hold rows, blocks and heights of their types, and a height of the main  *)
(* chain has a hash (csv.rs).                                              *)
THEOREM CsvTypeCorrect == CsvSpec => []CsvTypeOK
BY CsvTypeInit, CsvTypeStep, PTL DEF CsvSpec

-----------------------------------------------------------------------------
(* The invariant                                                           *)

LEMMA CsvInvInit == CsvInit => CsvInv
<1> SUFFICES ASSUME CsvInit PROVE CsvInv
  OBVIOUS
<1>0. StartHeight \in Nat /\ StartHeight .. StartHeight - 1 = {}
  BY DEF Heights
<1>1. \A o \in Outputs : RevertRow(utxos[o], sound) = NoUtxoRow
  BY DEF CsvInit, NoUtxos, RevertRow, NoUtxoRow
<1>2. CsvRowsTrusted
  <2>1. ASSUME NEW o \in Outputs
        PROVE  NullOrWhole(utxos[o]) /\ sound = StartHeight - 1
    BY DEF CsvInit, NoUtxos, NoUtxoRow, NullOrWhole
  <2>2. ASSUME NEW o \in Outputs
        PROVE  CsvFits(NoUtxoRow, o, block_hashes, StartHeight - 1, sending)
    BY <1>0 DEF CsvFits, NoUtxoRow
  <2>3. QED
    BY <1>1, <2>1, <2>2 DEF CsvRowsTrusted
<1>3. CsvCaughtUp = StartHeight - 1
  BY DEF CsvInit, CsvCaughtUp, Lesser
<1>4. QED
  BY <1>0, <1>2, <1>3 DEF CsvInit, CsvInv, CsvChained

(* The heights caught up with                                              *)
LEMMA BelowBoth ==
  ASSUME NEW a \in Int, NEW b \in Int, NEW c \in Int, NEW d \in Int, c <= a, d <= b,
         NEW h \in StartHeight .. Lesser(c, d - 1)
  PROVE  h \in StartHeight .. Lesser(a, b - 1) /\ h <= c
BY DEF Lesser, Heights

LEMMA BelowNext ==
  ASSUME NEW c \in Int, NEW h \in Int, NEW new \in Int, CsvMoves(h, new),
         NEW k \in StartHeight .. Lesser(c, new - 1)
  PROVE  k <= h
BY DEF Lesser, CsvMoves, Heights

(* What CsvTypeOK says of the two heights                                  *)
LEMMA CsvHeights ==
  ASSUME CsvTypeOK
  PROVE  /\ StartHeight \in Nat /\ MaxHeight \in Nat
         /\ sound \in StartHeight - 1 .. MaxHeight /\ sound \in Int
         /\ sending \in StartHeight .. MaxHeight + 1 /\ sending \in Int
         /\ CsvCaughtUp \in StartHeight - 1 .. MaxHeight /\ CsvCaughtUp \in Int
         /\ CsvCaughtUp <= sound /\ CsvCaughtUp <= sending - 1
<1>1. /\ StartHeight \in Nat /\ MaxHeight \in Nat
      /\ sound \in StartHeight - 1 .. MaxHeight
      /\ sending \in StartHeight .. MaxHeight + 1
  BY DEF CsvTypeOK, Heights
<1>2. /\ sending - 1 \in Int /\ sound \in Int /\ sending \in Int
      /\ sending - 1 \in StartHeight - 1 .. MaxHeight
  BY <1>1
<1>3. QED
  BY <1>1, <1>2, LesserIs DEF CsvCaughtUp

(* A step that keeps the blocks up to the new sound height, and what a     *)
(* revert to it leaves of the rows, and does not move the cursor on        *)
LEMMA SoundKept ==
  ASSUME CsvTypeOK, CsvTypeOK', CsvInv, sound' <= sound, sending' <= sending,
         \A h \in StartHeight .. sound' : /\ block_hashes'[h] = block_hashes[h]
                                         /\ block_utxos'[h] = block_utxos[h],
         \A o \in Outputs : /\ RevertRow(utxos'[o], sound') = RevertRow(utxos[o], sound')
                            /\ NullOrWhole(utxos'[o]),
         latest_block' = latest_block \/ latest_block' >= sound'
  PROVE  CsvInv'
<1>0. /\ StartHeight \in Nat /\ MaxHeight \in Nat
      /\ sound \in StartHeight - 1 .. MaxHeight /\ sound' \in StartHeight - 1 .. MaxHeight
      /\ sound' \in StartHeight - 1 .. sound /\ sound \in Int /\ sound' \in Int
      /\ sending \in Int /\ sending' \in Int
      /\ sending - 1 \in Int /\ sending' - 1 \in Int
      /\ latest_block \in Int /\ latest_block' \in Int
      /\ utxos \in [Outputs -> UtxoRow]
  BY DEF CsvTypeOK, Heights
<1>1. CsvChained(block_hashes', sound')
  BY <1>0, CsvChainedAgree DEF CsvInv
<1>2. ASSUME NEW o \in Outputs
      PROVE  CsvFits(RevertRow(utxos'[o], sound'), o, block_hashes', sound', sending')
  <2>1. CsvFits(RevertRow(utxos[o], sound'), o, block_hashes, sound', sending)
    BY <1>0, CsvFitsShrink DEF CsvInv, CsvRowsTrusted
  <2>2. CsvFits(RevertRow(utxos[o], sound'), o, block_hashes', sound', sending')
    BY <1>0, <2>1, CsvFitsAgree
  <2>3. QED
    BY <2>2
<1>3. \A h \in StartHeight .. sound' : block_utxos'[h] = Copies(h, block_hashes'[h])
  BY <1>0 DEF CsvInv
<1>4. ASSUME NEW h \in StartHeight .. CsvCaughtUp'
      PROVE  h <= latest_block'
  <2>1. h \in StartHeight .. Lesser(sound', sending' - 1)
    BY DEF CsvCaughtUp
  <2>2. h \in StartHeight .. CsvCaughtUp /\ h <= sound'
    BY <1>0, <2>1, BelowBoth DEF CsvCaughtUp
  <2>3. QED
    BY <1>0, <2>2 DEF CsvInv
<1>5. QED
  BY <1>1, <1>2, <1>3, <1>4 DEF CsvInv, CsvRowsTrusted

LEMMA CsvDeliverKeepsInv ==
  ASSUME CsvTypeOK, CsvTypeOK', CsvInv, NEW b \in Block, NEW acked \in BOOLEAN,
         NEW current \in BOOLEAN, CsvDeliver(b, acked, current)
  PROVE  CsvInv'
<1> DEFINE h == sending
<1>0. /\ StartHeight \in Nat /\ MaxHeight \in Nat
      /\ sound \in StartHeight - 1 .. MaxHeight /\ sound' \in StartHeight - 1 .. MaxHeight
      /\ sound \in Int /\ sound' \in Int
      /\ h \in StartHeight .. MaxHeight /\ h \in Heights /\ h \in Int
      /\ sending' \in Int /\ sending' - 1 \in Int /\ CsvMoves(h, sending')
      /\ utxos \in [Outputs -> UtxoRow]
      /\ block_hashes \in [Heights -> Block \cup {NoBlock}]
      /\ block_utxos \in [Heights -> [Outputs -> UtxoRow]]
  <2>1. /\ sound \in StartHeight - 1 .. MaxHeight
        /\ sound' \in StartHeight - 1 .. MaxHeight
        /\ sending \in StartHeight .. MaxHeight + 1
        /\ utxos \in [Outputs -> UtxoRow]
        /\ block_hashes \in [Heights -> Block \cup {NoBlock}]
        /\ block_utxos \in [Heights -> [Outputs -> UtxoRow]]
    BY DEF CsvTypeOK
  <2>2. /\ StartHeight \in Nat /\ MaxHeight \in Nat
        /\ sound \in Int /\ sound' \in Int
    BY <2>1
  <2>3. h \in Heights /\ MoveOn(acked)
    BY DEF CsvDeliver
  <2>4. h \in StartHeight .. MaxHeight /\ h \in Int
    BY <2>1, <2>2, <2>3 DEF Heights
  <2>5. sending' \in StartHeight .. MaxHeight + 1 /\ CsvMoves(h, sending')
    BY <2>1, <2>3 DEF MoveOn, CsvMoves, Heights
  <2>6. sending' \in Int /\ sending' - 1 \in Int
    BY <2>2, <2>5
  <2>7. QED
    BY <2>1, <2>2, <2>3, <2>4, <2>5, <2>6
<1>1. /\ block_hashes' = [block_hashes EXCEPT ![h] = b]
      /\ block_utxos' = [block_utxos EXCEPT ![h] = Copies(h, b)]
      /\ latest_block' = h
      /\ \A o \in Outputs : utxos'[o] = CsvApplied(utxos[o], o, h, b)
  BY InsertedFirstIsApplied DEF CsvDeliver
<1>2. /\ block_hashes'[h] = b /\ block_utxos'[h] = Copies(h, b)
      /\ \A k \in Heights : k # h => /\ block_hashes'[k] = block_hashes[k]
                                   /\ block_utxos'[k] = block_utxos[k]
  BY <1>0, <1>1
<1>3. \A o \in Outputs : utxos[o] \in UtxoRow /\ NullOrWhole(utxos[o]) /\ NullOrWhole(utxos'[o])
  BY <1>0, <1>1, WholeKept DEF CsvInv, CsvRowsTrusted
<1>4. \A k \in StartHeight .. CsvCaughtUp' : k <= latest_block'
  <2>1. \A k \in StartHeight .. Lesser(sound', sending' - 1) : k <= h
    BY <1>0, BelowNext
  <2>2. QED
    BY <1>1, <2>1 DEF CsvCaughtUp
<1>5. CASE h <= sound
  <2>1. /\ sound' = sound /\ b = block_hashes[h] /\ h \in StartHeight .. sound
        /\ \A k \in StartHeight .. sound : k \in Heights
    BY <1>0, <1>5 DEF CsvDeliver, Heights
  <2>2. \A k \in StartHeight .. sound' : /\ block_hashes'[k] = block_hashes[k]
                                        /\ block_utxos'[k] = Copies(k, block_hashes'[k])
    BY <1>2, <2>1 DEF CsvInv
  <2>3. CsvChained(block_hashes', sound')
    BY <1>0, <2>1, <2>2, CsvChainedAgree DEF CsvInv
  <2>4. ASSUME NEW o \in Outputs
        PROVE  CsvFits(RevertRow(utxos'[o], sound'), o, block_hashes', sound', sending')
    <3>1. CsvFits(RevertRow(utxos'[o], sound), o, block_hashes, sound, sending')
      BY <1>0, <1>1, <1>3, <2>1, CsvAppliedAgain DEF CsvInv, CsvRowsTrusted
    <3>2. \A k \in StartHeight .. sound : block_hashes[k] = block_hashes'[k]
      BY <1>2, <2>1
    <3>3. sending' \in Int /\ sending' <= sending' /\ sound' = sound
      BY <1>0, <2>1
    <3>4. CsvFits(RevertRow(utxos'[o], sound), o, block_hashes', sound, sending')
      BY <1>0, <3>1, <3>2, <3>3, CsvFitsAgree
    <3>5. QED
      BY <3>3, <3>4
  <2>5. QED
    BY <1>3, <1>4, <2>2, <2>3, <2>4 DEF CsvInv, CsvRowsTrusted
<1>6. CASE ~(h <= sound)
  <2>0. /\ Extends(b, block_hashes, StartHeight, sound)
        /\ h \in sound + 1 .. MaxHeight
        /\ \A k \in StartHeight .. sound : k \in Heights /\ k # h
    BY <1>0, <1>6 DEF CsvDeliver, Heights
  <2>1. \A k \in StartHeight .. sound : /\ block_hashes'[k] = block_hashes[k]
                                       /\ block_utxos'[k] = Copies(k, block_hashes'[k])
    BY <1>2, <2>0 DEF CsvInv
  <2>2. CsvChained(block_hashes', sound)
    BY <1>0, <2>1, CsvChainedAgree DEF CsvInv
  <2>3. Extends(b, block_hashes', StartHeight, sound)
    BY <1>0, <2>0, <2>1, ExtendsAgree
  <2>4. \A o \in Outputs : CsvFits(RevertRow(utxos[o], sound), o, block_hashes', sound, h)
    <3>1. \A k \in StartHeight .. sound : block_hashes[k] = block_hashes'[k]
      BY <2>1
    <3>2. ASSUME NEW o \in Outputs
          PROVE  CsvFits(RevertRow(utxos[o], sound), o, block_hashes', sound, h)
      <4>1. CsvFits(RevertRow(utxos[o], sound), o, block_hashes, sound, h) /\ h <= h
        BY <1>0 DEF CsvInv, CsvRowsTrusted
      <4>2. QED
        BY <1>0, <3>1, <4>1, CsvFitsAgree
    <3>3. QED
      BY <3>2
  <2>5. CASE sound' = sound
    <3>1. ASSUME NEW o \in Outputs
          PROVE  CsvFits(RevertRow(utxos'[o], sound'), o, block_hashes', sound', sending')
      <4>1. RevertRow(utxos'[o], sound) = RevertRow(utxos[o], sound)
        BY <1>0, <1>1, <1>3, <2>0, CsvAppliedAbove DEF CsvInv, CsvRowsTrusted
      <4>2. \A k \in StartHeight .. sound : k < h
        BY <1>0, <1>6
      <4>3. QED
        BY <2>4, <2>5, <4>1, <4>2 DEF CsvFits
    <3>2. QED
      BY <1>3, <1>4, <2>1, <2>2, <2>5, <3>1 DEF CsvInv, CsvRowsTrusted
  <2>6. CASE sound' # sound
    <3>1. sound' = h /\ h = sound + 1 /\ NothingAboveSound
      BY <2>6 DEF CsvDeliver
    <3>2. \A k \in StartHeight .. h : k = h \/ k \in StartHeight .. sound
      BY <1>0, <3>1
    <3>3. CsvChained(block_hashes', h)
      <4>1. h - 1 = sound
        BY <1>0, <3>1
      <4>2. QED
        BY <1>2, <2>2, <2>3, <3>2, <4>1 DEF CsvChained
    <3>4. \A k \in StartHeight .. h : block_utxos'[k] = Copies(k, block_hashes'[k])
      BY <1>2, <2>1, <3>2
    <3>5. ASSUME NEW o \in Outputs
          PROVE  CsvFits(RevertRow(utxos'[o], sound'), o, block_hashes', sound', sending')
      <4>1. RevertRow(utxos[o], sound) = utxos[o]
        BY <1>0, <3>1 DEF NothingAboveSound, RevertUtxosAfterHeight
      <4>2. CsvFits(utxos[o], o, block_hashes', sound, h)
        BY <2>4, <4>1
      <4>3. utxos[o] \in UtxoRow /\ utxos'[o] = CsvApplied(utxos[o], o, h, block_hashes'[h])
        BY <1>1, <1>2, <1>3
      <4>4. CsvFits(RevertRow(CsvApplied(utxos[o], o, h, block_hashes'[h]), h), o,
                    block_hashes', h, sending')
        BY <1>0, <1>2, <2>2, <2>3, <3>1, <4>1, <4>2, <4>3, CsvAppliedNext
      <4>5. QED
        BY <3>1, <4>3, <4>4
    <3>6. QED
      BY <1>3, <1>4, <3>1, <3>3, <3>4, <3>5 DEF CsvInv, CsvRowsTrusted
  <2>7. QED
    BY <2>5, <2>6
<1>7. QED
  BY <1>5, <1>6

LEMMA CsvInvStep == CsvTypeOK /\ CsvTypeOK' /\ CsvInv /\ [CsvNext]_csvVars => CsvInv'
<1> SUFFICES ASSUME CsvTypeOK, CsvTypeOK', CsvInv, [CsvNext]_csvVars PROVE CsvInv'
  OBVIOUS
<1>0. /\ StartHeight \in Nat /\ MaxHeight \in Nat
      /\ sound \in StartHeight - 1 .. MaxHeight /\ sound \in Int
      /\ sending \in Int /\ utxos \in [Outputs -> UtxoRow]
      /\ sound' \in StartHeight - 1 .. MaxHeight /\ sound' \in Int
  BY DEF CsvTypeOK, Heights
<1>1. ASSUME NEW b \in Block, NEW acked \in BOOLEAN, NEW current \in BOOLEAN,
             CsvDeliver(b, acked, current)
      PROVE  CsvInv'
  BY <1>1, CsvDeliverKeepsInv
<1>2. ASSUME NEW f \in StartHeight - 1 .. MaxHeight, CsvReorg(f)
      PROVE  CsvInv'
  <2> DEFINE safe == RevertHeight(latest_block, f)
  <2>1. /\ safe \in Heights /\ safe \in Int
        /\ sound' = Lesser(sound, safe) /\ sending' = sending
        /\ utxos' = RevertUtxosAfterHeight(utxos, safe)
        /\ block_hashes' = block_hashes /\ latest_block' = safe
        /\ block_utxos' = [h \in Heights |-> IF h <= safe THEN block_utxos[h]
                                                         ELSE NoUtxos]
    BY <1>2, RevertHeightType DEF CsvReorg, Retained, CsvTypeOK, Heights
  <2>2. sound' <= sound /\ sound' <= safe
    BY <1>0, <2>1, LesserIs
  <2>3. \A h \in StartHeight .. sound' : block_utxos'[h] = block_utxos[h]
    BY <1>0, <2>1, <2>2 DEF Heights
  <2>4. ASSUME NEW o \in Outputs
        PROVE  /\ RevertRow(utxos'[o], sound') = RevertRow(utxos[o], sound')
               /\ NullOrWhole(utxos'[o])
    <3>1. utxos'[o] = RevertRow(utxos[o], safe) /\ utxos[o] \in UtxoRow
      BY <1>0, <2>1 DEF RevertUtxosAfterHeight
    <3>2. sound' \in -1 .. MaxHeight /\ safe \in -1 .. MaxHeight
      BY <1>0, <2>1 DEF Heights
    <3>3. NullOrWhole(utxos[o])
      BY DEF CsvInv, CsvRowsTrusted
    <3>4. QED
      BY <2>1, <2>2, <3>1, <3>2, <3>3, RevertRevert, WholeKept
  <2>5. sending' <= sending /\ latest_block' >= sound'
    BY <1>0, <2>1, <2>2
  <2>6. QED
    BY <2>1, <2>2, <2>3, <2>4, <2>5, SoundKept
<1>3. CASE CsvRestart
  <2>1. sound' = StartHeight - 1 /\ sending' = sending /\ latest_block' = 0
        /\ utxos' = [o \in Outputs |-> NoUtxoRow]
    BY <1>3 DEF CsvRestart, EmptyMaps, NoUtxos
  <2>2. StartHeight .. sound' = {}
    BY <1>0, <2>1
  <2>3. ASSUME NEW o \in Outputs
        PROVE  /\ CsvFits(RevertRow(utxos'[o], sound'), o, block_hashes', sound', sending')
               /\ NullOrWhole(utxos'[o])
    <3>1. utxos'[o] = NoUtxoRow
      BY <2>1
    <3>2. RevertRow(NoUtxoRow, sound') = NoUtxoRow
      BY DEF RevertRow, NoUtxoRow
    <3>3. CsvFits(NoUtxoRow, o, block_hashes', sound', sending')
      BY <2>2 DEF CsvFits, NoUtxoRow
    <3>4. QED
      BY <3>1, <3>2, <3>3 DEF NullOrWhole
  <2>4. StartHeight .. CsvCaughtUp' = {}
    <3>1. \A c \in Int : \A h \in StartHeight .. Lesser(StartHeight - 1, c) : FALSE
      BY <1>0 DEF Lesser
    <3>2. sending' - 1 \in Int
      BY <1>0, <2>1
    <3>3. QED
      BY <2>1, <3>1, <3>2 DEF CsvCaughtUp
  <2>5. QED
    BY <2>2, <2>3, <2>4 DEF CsvInv, CsvChained, CsvRowsTrusted
<1>4. ASSUME UNCHANGED <<utxos, block_utxos, latest_block, block_hashes>>,
             sound' <= sound, sending' <= sending
      PROVE  CsvInv'
  <2>1. \A o \in Outputs : NullOrWhole(utxos[o])
    BY DEF CsvInv, CsvRowsTrusted
  <2>2. QED
    BY <1>4, <2>1, SoundKept
<1>5. ASSUME NEW h \in Heights, CsvFinality(h)
      PROVE  CsvInv'
  BY <1>0, <1>4, <1>5 DEF CsvFinality
<1>6. ASSUME NEW k \in StartHeight .. MaxHeight, CsvRewind(k)
      PROVE  CsvInv'
  BY <1>0, <1>4, <1>6 DEF CsvRewind
<1>7. ASSUME NEW k \in StartHeight - 1 .. MaxHeight, CsvFork(k)
      PROVE  CsvInv'
  BY <1>0, <1>4, <1>7 DEF CsvFork
<1>8. CASE UNCHANGED csvVars
  BY <1>0, <1>4, <1>8 DEF csvVars
<1>9. QED
  BY <1>1, <1>2, <1>3, <1>5, <1>6, <1>7, <1>8 DEF CsvNext

(* Whatever part of the messages is lost, repeated or late, and however    *)
(* often the service starts over empty, reverting the maps of the CSV      *)
(* datasource to the sound height leaves what the sound blocks say, also   *)
(* with blocks that spend what they create: process_block_utxos inserts    *)
(* before it updates (csv.rs).                                             *)
THEOREM CsvInvHolds == CsvSpec => []CsvInv
<1>1. CsvInit => CsvTypeOK /\ CsvInv
  BY CsvTypeInit, CsvInvInit
<1>2. (CsvTypeOK /\ CsvInv) /\ [CsvNext]_csvVars => (CsvTypeOK /\ CsvInv)'
  BY CsvTypeStep, CsvInvStep
<1>3. QED
  BY <1>1, <1>2, PTL DEF CsvSpec

-----------------------------------------------------------------------------
(* Queries                                                                 *)

(* A row that fits the blocks up to B answers for every height they cover  *)
LEMMA CsvRowAnswers ==
  ASSUME NEW log, NEW B \in StartHeight - 1 .. MaxHeight, CsvChained(log, B),
         NEW o \in Outputs, NEW r \in UtxoRow, NEW cur \in Int,
         CsvFits(RevertRow(r, B), o, log, B, cur),
         NEW h \in StartHeight .. B, h < cur
  PROVE  r.height # NULL /\ r.height <= h /\ (r.spent = NULL \/ r.spent > h)
           <=> o \in RefSpendable(log, StartHeight, h)
<1> DEFINE row == RevertRow(r, B)
<1>0. /\ StartHeight \in Nat /\ MaxHeight \in Nat /\ B \in Heights /\ h \in Heights
      /\ row \in UtxoRow
      /\ StartHeight .. h \subseteq StartHeight .. B
  BY RevertRowType DEF Heights
<1>1. r.height # NULL /\ r.height <= h /\ (r.spent = NULL \/ r.spent > h)
        <=> row.height # NULL /\ row.height <= h /\ (row.spent = NULL \/ row.spent > h)
  BY <1>0 DEF RevertRow, NoUtxoRow, UtxoRow, NULL, Heights
<1>2. CASE o \notin CreatedBy(log, StartHeight, h)
  <2>1. row.height = NULL \/ row.height > h
    <3>1. CASE o \in CreatedBy(log, StartHeight, B)
      <4>1. PICK i \in StartHeight .. B : o \in log[i].creates
        BY <3>1 DEF CreatedBy
      <4>2. QED
        BY <1>0, <1>2, <4>1 DEF CsvFits, CreatedBy, Heights
    <3>2. CASE o \notin CreatedBy(log, StartHeight, B)
      BY <3>2 DEF CsvFits, NoUtxoRow
    <3>3. QED
      BY <3>1, <3>2
  <2>2. QED
    BY <1>0, <1>1, <1>2, <2>1 DEF RefSpendable, UtxoRow, NULL, Heights
<1>3. CASE o \in CreatedBy(log, StartHeight, h)
  <2>1. PICK i \in StartHeight .. h : o \in log[i].creates
    BY <1>3 DEF CreatedBy
  <2>2. /\ row.height = i /\ row.height # NULL /\ row.height <= h
        /\ o \in CreatedBy(log, StartHeight, B)
    BY <1>0, <2>1 DEF CsvFits, CreatedBy, NULL, Heights
  <2>3. CASE o \in SpentBy(log, StartHeight, B)
    <3>1. PICK j \in StartHeight .. B : o \in log[j].spends
      BY <2>3 DEF SpentBy
    <3>2. /\ row.spent \in {NULL, j} /\ (j < cur => row.spent = j)
          /\ j \in Heights
      BY <1>0, <2>2, <3>1 DEF CsvFits, Heights
    <3>3. o \in SpentBy(log, StartHeight, h) <=> j <= h
      <4>1. \A k \in StartHeight .. B : o \in log[k].spends => k = j
        BY <3>1, CsvCreatedBeforeSpent
      <4>2. QED
        BY <1>0, <3>1, <3>2, <4>1 DEF SpentBy, Heights
    <3>4. row.spent = NULL \/ row.spent > h <=> ~(j <= h)
      BY <1>0, <3>2 DEF NULL, Heights
    <3>5. QED
      BY <1>1, <1>3, <2>2, <3>3, <3>4 DEF RefSpendable
  <2>4. CASE o \notin SpentBy(log, StartHeight, B)
    <3>1. row.spent = NULL /\ o \notin SpentBy(log, StartHeight, h)
      BY <1>0, <2>4 DEF CsvFits, SpentBy
    <3>2. QED
      BY <1>1, <1>3, <2>2, <3>1 DEF RefSpendable
  <2>5. QED
    BY <2>3, <2>4
<1>4. QED
  BY <1>2, <1>3

LEMMA CsvInvAnswers == CsvTypeOK /\ CsvInv => CsvAnswersExact
<1> SUFFICES ASSUME CsvTypeOK, CsvInv, NEW h \in StartHeight .. CsvCaughtUp
             PROVE  /\ h <= latest_block
                    /\ Spendable(utxos, h) = RefSpendable(block_hashes, StartHeight, h)
  BY DEF CsvAnswersExact
<1>1. h <= latest_block
  BY DEF CsvInv
<1>2. h \in StartHeight .. sound /\ h < sending
  BY CsvHeights
<1>3. ASSUME NEW o \in Outputs
      PROVE  o \in Spendable(utxos, h) <=> o \in RefSpendable(block_hashes, StartHeight, h)
  <2>1. CsvFits(RevertRow(utxos[o], sound), o, block_hashes, sound, sending)
        /\ utxos[o] \in UtxoRow
    BY DEF CsvInv, CsvRowsTrusted, CsvTypeOK
  <2>2. utxos[o].height # NULL /\ utxos[o].height <= h
          /\ (utxos[o].spent = NULL \/ utxos[o].spent > h)
          <=> o \in RefSpendable(block_hashes, StartHeight, h)
    BY <1>2, <2>1, CsvHeights, CsvRowAnswers DEF CsvInv
  <2>3. QED
    BY <2>2 DEF Spendable
<1>4. QED
  BY <1>1, <1>3 DEF Spendable, RefSpendable, CreatedBy

(* Over CSV a query at a height of the sound blocks below the cursor is    *)
(* admitted and answered exactly, whatever was lost, repeated, late or     *)
(* rolled back, and whatever the blocks spend                              *)
(* (get_spendable_utxos_at_height, csv.rs).                                *)
THEOREM CsvAnswersAreExact == CsvSpec => []CsvAnswersExact
BY CsvTypeCorrect, CsvInvHolds, CsvInvAnswers, PTL

LEMMA CsvInvCopies == CsvTypeOK /\ CsvInv => BlockCopiesTrail
<1> SUFFICES ASSUME CsvTypeOK, CsvInv, NEW h \in StartHeight .. sound, NEW o \in Outputs
             PROVE  /\ block_utxos[h][o].height = h <=> utxos[o].height = h
                    /\ block_utxos[h][o].spent \in {NULL, utxos[o].spent}
  BY DEF BlockCopiesTrail
<1>0. /\ StartHeight \in Nat /\ sound \in StartHeight - 1 .. MaxHeight /\ sound \in Int
      /\ h \in Heights /\ h <= sound /\ h # NULL
  BY CsvHeights DEF Heights, NULL
<1>1. block_utxos[h][o] = IF o \in block_hashes[h].creates
                            THEN [height |-> h, spent |-> NULL] ELSE NoUtxoRow
  BY DEF CsvInv, Copies, Inserted, NoUtxos
<1>2. o \in block_hashes[h].creates <=> utxos[o].height = h
  <2> DEFINE row == RevertRow(utxos[o], sound)
  <2>1. /\ CsvFits(row, o, block_hashes, sound, sending)
        /\ utxos[o] \in UtxoRow /\ row \in UtxoRow
    BY <1>0, RevertRowType DEF CsvInv, CsvRowsTrusted, CsvTypeOK
  <2>2. row.height = h => utxos[o].height = h
    BY <1>0, <2>1 DEF RevertRow, NoUtxoRow, UtxoRow, NULL, Heights
  <2>3. utxos[o].height = h => row.height = h
    BY <1>0, <2>1 DEF RevertRow, NoUtxoRow, UtxoRow, NULL, Heights
  <2>4. row.height = h => o \in CreatedBy(block_hashes, StartHeight, sound)
    BY <1>0, <2>1 DEF CsvFits, NoUtxoRow, NULL, Heights
  <2>5. QED
    BY <2>1, <2>2, <2>3, <2>4 DEF CsvFits, CreatedBy
<1>3. QED
  BY <1>0, <1>1, <1>2 DEF NoUtxoRow

(* A query about a sound block lists exactly the outputs whose rows say    *)
(* that the block created them, through rollbacks, repetitions and         *)
(* restarts; as for spends, a copy may miss the row's and never has        *)
(* another (process_block_utxos, revert_utxos_after_height,                *)
(* get_all_utxos_for_block, csv.rs).                                       *)
THEOREM CsvCopiesTrail == CsvSpec => []BlockCopiesTrail
BY CsvTypeCorrect, CsvInvHolds, CsvInvCopies, PTL

-----------------------------------------------------------------------------
(* The ledger                                                              *)

LEMMA LesserGrows ==
  ASSUME NEW a \in Int, NEW b \in Int, NEW c \in Int, NEW d \in Int,
         c <= a + 1, d <= b + 1
  PROVE  Lesser(c, d - 1) <= Lesser(a, b - 1) + 1
BY DEF Lesser

(* No step adds more than one answer, or changes a block that the answers  *)
(* which stay depend on                                                    *)
LEMMA CsvStepKeepsLog ==
  ASSUME CsvTypeOK, CsvTypeOK', [CsvNext]_csvVars
  PROVE  /\ \A h \in StartHeight .. CsvCaughtUp :
              h <= CsvCaughtUp' => block_hashes'[h] = block_hashes[h]
         /\ CsvCaughtUp' <= CsvCaughtUp + 1
<1>0. /\ StartHeight \in Nat /\ MaxHeight \in Nat /\ sound \in Int /\ sound' \in Int
      /\ sending \in Int /\ sending' \in Int
  BY DEF CsvTypeOK, Heights
<1>1. ASSUME NEW b \in Block, NEW acked \in BOOLEAN, NEW current \in BOOLEAN,
             CsvDeliver(b, acked, current)
      PROVE  /\ \A h \in StartHeight .. CsvCaughtUp : block_hashes'[h] = block_hashes[h]
             /\ CsvCaughtUp' <= CsvCaughtUp + 1
  <2>1. sending \in StartHeight .. MaxHeight
    BY <1>0, <1>1 DEF CsvDeliver, CsvTypeOK, Heights
  <2>2. /\ sending' <= sending \/ sending' = sending + 1
        /\ sound' = sound \/ sound' = sound + 1
    BY <1>0, <1>1, <2>1, MoveOnType DEF CsvDeliver, CsvMoves
  <2>3. sending' <= sending + 1 /\ sound' <= sound + 1
    BY <1>0, <2>2
  <2>4. \A h \in StartHeight .. CsvCaughtUp : h \in Heights /\ h # sending
    BY CsvHeights DEF Heights
  <2>5. \A h \in StartHeight .. CsvCaughtUp : block_hashes'[h] = block_hashes[h]
    BY <1>1, <2>4 DEF CsvDeliver, CsvTypeOK
  <2>6. QED
    BY <1>0, <2>3, <2>5, LesserGrows DEF CsvCaughtUp
<1>2. ASSUME sound' <= sound, sending' <= sending
      PROVE  CsvCaughtUp' <= CsvCaughtUp + 1
  <2>1. sound' <= sound + 1 /\ sending' <= sending + 1
    BY <1>0, <1>2
  <2>2. QED
    BY <1>0, <2>1, LesserGrows DEF CsvCaughtUp
<1>3. ASSUME NEW f \in StartHeight - 1 .. MaxHeight, CsvReorg(f)
      PROVE  block_hashes' = block_hashes /\ sound' <= sound /\ sending' <= sending
  <2>1. RevertHeight(latest_block, f) \in Int
    BY RevertHeightType DEF CsvTypeOK, Heights
  <2>2. QED
    BY <1>0, <1>3, <2>1, LesserIs DEF CsvReorg
<1>4. ASSUME CsvRestart
      PROVE  /\ sound' <= sound /\ sending' <= sending
             /\ \A h \in StartHeight .. CsvCaughtUp : ~(h <= CsvCaughtUp')
  <2>1. sound' = StartHeight - 1 /\ sending' = sending /\ StartHeight - 1 <= sound
    BY <1>4, CsvHeights DEF CsvRestart
  <2>2. \A c \in Int, h \in Int : StartHeight <= h => ~(h <= Lesser(StartHeight - 1, c))
    BY <1>0 DEF Lesser
  <2>3. sending - 1 \in Int
    BY <1>0
  <2>4. QED
    BY <1>0, <2>1, <2>2, <2>3 DEF CsvCaughtUp
<1>5. ASSUME NEW h \in Heights, CsvFinality(h)
      PROVE  block_hashes' = block_hashes /\ sound' <= sound /\ sending' <= sending
  BY <1>0, <1>5 DEF CsvFinality
<1>6. ASSUME NEW k, CsvRewind(k) \/ CsvFork(k)
      PROVE  block_hashes' = block_hashes /\ sound' <= sound /\ sending' <= sending
  BY <1>0, <1>6 DEF CsvRewind, CsvFork
<1>7. CASE UNCHANGED csvVars
  BY <1>0, <1>2, <1>7 DEF csvVars
<1>8. QED
  BY <1>1, <1>2, <1>3, <1>4, <1>5, <1>6, <1>7 DEF CsvNext

LEMMA CsvCaughtUpType == CsvTypeOK => CsvCaughtUp \in StartHeight - 1 .. MaxHeight
BY CsvHeights

LEMMA CsvLedgerStep ==
  ASSUME CsvTypeOK, CsvTypeOK', CsvInv, CsvInv', [CsvNext]_csvVars
  PROVE  [CsvLedgerView!LedgerNext]_(CsvLedgerView!ledgerVars)
<1> DEFINE ans == [h \in StartHeight .. CsvCaughtUp |-> Spendable(utxos, h)]
<1> DEFINE Ref(log, h) == RefSpendable(log, StartHeight, h)
<1>0. /\ StartHeight \in Nat /\ MaxHeight \in Nat
      /\ CsvCaughtUp \in StartHeight - 1 .. MaxHeight
      /\ CsvCaughtUp' \in StartHeight - 1 .. MaxHeight
      /\ CsvCaughtUp \in Int /\ CsvCaughtUp' \in Int
  <2>1. (CsvCaughtUp \in StartHeight - 1 .. MaxHeight)'
    BY CsvCaughtUpType, PTL
  <2>2. QED
    BY <2>1, CsvHeights
<1>1. /\ \A h \in StartHeight .. CsvCaughtUp :
           h <= CsvCaughtUp' => block_hashes'[h] = block_hashes[h]
      /\ CsvCaughtUp' <= CsvCaughtUp + 1
  BY CsvStepKeepsLog
<1>2. /\ \A h \in StartHeight .. CsvCaughtUp : ans[h] = Ref(block_hashes, h)
      /\ \A h \in StartHeight .. CsvCaughtUp' : ans'[h] = Ref(block_hashes', h)
  <2>1. CsvAnswersExact /\ CsvAnswersExact'
    BY CsvInvAnswers, PTL
  <2>2. QED
    BY <2>1 DEF CsvAnswersExact
<1>3. CASE CsvCaughtUp' <= CsvCaughtUp
  <2>1. \A h \in StartHeight .. CsvCaughtUp' : block_hashes'[h] = block_hashes[h]
    BY <1>0, <1>1, <1>3
  <2>2. \A h \in StartHeight .. CsvCaughtUp' : Ref(block_hashes, h) = Ref(block_hashes', h)
    BY <1>0, <2>1, NewAnswers
  <2>3. ans' = [h \in StartHeight .. CsvCaughtUp' |-> ans[h]]
    BY <1>0, <1>2, <1>3, <2>2
  <2>4. CASE CsvCaughtUp' = CsvCaughtUp
    BY <2>3, <2>4 DEF CsvLedgerView!ledgerVars
  <2>5. CASE CsvCaughtUp' < CsvCaughtUp
    <3>1. CsvCaughtUp' \in StartHeight - 1 .. CsvCaughtUp - 1
      BY <1>0, <2>5
    <3>2. CsvLedgerView!Truncate
      BY <2>3, <3>1 DEF CsvLedgerView!Truncate
    <3>3. QED
      BY <3>2 DEF CsvLedgerView!LedgerNext
  <2>6. QED
    BY <1>0, <1>3, <2>4, <2>5
<1>4. CASE CsvCaughtUp' = CsvCaughtUp + 1
  <2> DEFINE next == Spendable(utxos', CsvCaughtUp')
  <2>1. \A h \in StartHeight .. CsvCaughtUp : block_hashes'[h] = block_hashes[h]
    BY <1>0, <1>1, <1>4
  <2>2. \A h \in StartHeight .. CsvCaughtUp : Ref(block_hashes, h) = Ref(block_hashes', h)
    BY <1>0, <2>1, NewAnswers
  <2>3. ans' = [h \in StartHeight .. CsvCaughtUp + 1 |->
                  IF h <= CsvCaughtUp THEN ans[h] ELSE next]
    BY <1>0, <1>2, <1>4, <2>2
  <2>4. next \in SUBSET Outputs
    BY DEF Spendable
  <2>5. next = Ref(block_hashes', CsvCaughtUp + 1)
    BY <1>0, <1>2, <1>4
  <2>6. CsvLedgerView!Current = Ref(block_hashes, CsvCaughtUp)
    BY <1>0, <1>2, <2>1, NewAnswers DEF CsvLedgerView!Current
  <2>7. (next \ CsvLedgerView!Current) \cap CsvLedgerView!Ever = {}
    BY <1>0, <1>2, <2>1, <2>5, <2>6, NewAnswers
    DEF CsvLedgerView!Ever, CsvLedgerView!Answered
  <2>8. CsvLedgerView!Grow
    BY <1>4, <2>3, <2>4, <2>7 DEF CsvLedgerView!Grow
  <2>9. QED
    BY <2>8 DEF CsvLedgerView!LedgerNext
<1>5. QED
  BY <1>0, <1>1, <1>3, <1>4

(* The readers' contract over CSV: answers are appended and taken away     *)
(* from the end, by rollbacks and by restarts that lose everything, and no *)
(* answer that stays changes (process_block_utxos,                         *)
(* revert_utxos_after_height, csv.rs).                                     *)
THEOREM CsvLedgerImplemented == CsvSpec => CsvImplementsLedger
<1>1. CsvInit => CsvLedgerView!LedgerInit
  BY StartHeightAssumption
  DEF CsvInit, CsvCaughtUp, Lesser, CsvLedgerView!LedgerInit, CsvLedgerView!Answered, Heights
<1>2. CsvTypeOK /\ CsvTypeOK' /\ CsvInv /\ CsvInv' /\ [CsvNext]_csvVars
        => [CsvLedgerView!LedgerNext]_(CsvLedgerView!ledgerVars)
  BY CsvLedgerStep
<1>3. QED
  BY <1>1, <1>2, CsvTypeCorrect, CsvInvHolds, PTL
  DEF CsvSpec, CsvImplementsLedger, CsvLedgerView!LedgerSpec

-----------------------------------------------------------------------------
(* The storage service with one of its two datasources behaves as that     *)
(* datasource by itself does, so that what is proved of Follower and of    *)
(* CsvFollower holds of the service, whichever it was started with.        *)

LEMMA OneDatasource == DatasourcesSpec => Spec /\ CsvSpec
<1>1. DatasourcesInit => Init /\ CsvInit
  BY DEF DatasourcesInit
<1>2. [DatasourcesNext]_datasourcesVars => [Next]_vars /\ [CsvNext]_csvVars
  BY DEF DatasourcesNext, datasourcesVars
<1>3. QED
  BY <1>1, <1>2, PTL DEF DatasourcesSpec, Spec, CsvSpec

(* Over either datasource the answers of the storage service implement     *)
(* Ledger: over CSV always, over SQLite as long as no block spends an      *)
(* output it creates (create_datasource, main.rs).                         *)
THEOREM ServiceImplementsLedger ==
  DatasourcesSpec => /\ CsvImplementsLedger
                     /\ ~InBlockSpends => ImplementsLedger
BY OneDatasource, LedgerImplemented, CsvLedgerImplemented, PTL

(* Over either datasource the answers are exact                            *)
(* (get_spendable_utxos_at_height, database.rs).                           *)
THEOREM ServiceAnswersAreExact ==
  DatasourcesSpec => /\ []CsvAnswersExact
                     /\ ~InBlockSpends => []AnswersExact
BY OneDatasource, AnswersAreExact, CsvAnswersAreExact, PTL
=============================================================================
