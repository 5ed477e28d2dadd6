--------------------------- MODULE UtxoStoreProofs ---------------------------
(***************************************************************************)
(* Lemmas about the operators of UtxoStore, for the proofs about the two   *)
(* datasources.                                                            *)
(***************************************************************************)
EXTENDS UtxoStore, TLAPS

USE MaxHeightAssumption, FinalityAssumption, StartHeightAssumption, ForksAssumption

-----------------------------------------------------------------------------
(* The operators of UtxoStore keep the tables well typed                   *)

LEMMA LesserIs ==
  ASSUME NEW a \in Int, NEW b \in Int
  PROVE  /\ Lesser(a, b) \in {a, b}
         /\ Lesser(a, b) <= a /\ Lesser(a, b) <= b
BY DEF Lesser

LEMMA LatestBlockType ==
  ASSUME NEW bs
  PROVE  LatestBlock(bs) \in Heights
<1> DEFINE tops == {h \in MainHeights(bs) : \A k \in MainHeights(bs) : k <= h}
<1>1. tops \subseteq Heights
  BY DEF MainHeights
<1>2. 0 \in Heights
  BY DEF Heights
<1>3. QED
  BY <1>1, <1>2 DEF LatestBlock

LEMMA SafeRevertType ==
  ASSUME NEW bs, NEW f \in StartHeight - 1 .. MaxHeight
  PROVE  SafeRevertHeight(bs, f) \in Heights
BY LatestBlockType DEF SafeRevertHeight, RevertHeight, Greater, Heights

LEMMA StoreBlockType ==
  ASSUME NEW bs \in [Heights -> BlockRow], NEW h \in Heights, NEW b \in Block
  PROVE  StoreBlock(bs, h, b) \in [Heights -> BlockRow]
BY DEF StoreBlock, BlockRow

LEMMA MarkNotMainType ==
  ASSUME NEW bs \in [Heights -> BlockRow], NEW h \in Heights
  PROVE  MarkBlocksAfterHeightNotMain(bs, h) \in [Heights -> BlockRow]
BY DEF MarkBlocksAfterHeightNotMain, BlockRow

LEMMA FinalityType ==
  ASSUME NEW bs \in [Heights -> BlockRow], NEW h \in Heights
  PROVE  UpdateFinalityStatus(bs, h) \in [Heights -> BlockRow]
BY DEF UpdateFinalityStatus, MarkBlocksAsFinal, BlockRow

LEMMA UpsertType ==
  ASSUME NEW r \in UtxoRow, NEW h \in Heights, NEW s \in Heights \cup {NULL}
  PROVE  Upsert(r, h, s) \in UtxoRow
BY DEF Upsert, UtxoRow

LEMMA RevertRowType ==
  ASSUME NEW r \in UtxoRow, NEW h \in Int
  PROVE  RevertRow(r, h) \in UtxoRow
BY DEF RevertRow, UtxoRow, NoUtxoRow

LEMMA ProcessType ==
  ASSUME NEW u \in [Outputs -> UtxoRow], NEW h \in Heights, NEW b \in Block
  PROVE  ProcessBlockUtxos(u, h, b) \in [Outputs -> UtxoRow]
<1>1. BulkUpsert(u, b.spends, h, h) \in [Outputs -> UtxoRow]
  BY UpsertType DEF BulkUpsert
<1>2. QED
  BY <1>1, UpsertType DEF ProcessBlockUtxos, BulkUpsert

LEMMA RevertType ==
  ASSUME NEW u \in [Outputs -> UtxoRow], NEW h \in Int
  PROVE  RevertUtxosAfterHeight(u, h) \in [Outputs -> UtxoRow]
BY RevertRowType DEF RevertUtxosAfterHeight

(* Reverting twice is reverting to the lower height                        *)
LEMMA RevertRevert ==
  ASSUME NEW r \in UtxoRow, NEW f \in -1 .. MaxHeight, NEW g \in -1 .. MaxHeight,
         f <= g
  PROVE  RevertRow(RevertRow(r, g), f) = RevertRow(r, f)
BY DEF RevertRow, NoUtxoRow, UtxoRow, NULL, Heights

-----------------------------------------------------------------------------
(* What applying a block does to a row                                     *)

Applied(r, o, h, b) ==
  LET spent == IF o \in b.spends THEN Upsert(r, h, h) ELSE r
  IN  IF o \in b.creates THEN Upsert(spent, h, NULL) ELSE spent

LEMMA ProcessIsApplied ==
  ASSUME NEW u, NEW h, NEW b, NEW o \in Outputs
  PROVE  ProcessBlockUtxos(u, h, b)[o] = Applied(u[o], o, h, b)
BY DEF ProcessBlockUtxos, BulkUpsert, Applied

LEMMA AppliedType ==
  ASSUME NEW r \in UtxoRow, NEW h \in Heights, NEW b, NEW o
  PROVE  Applied(r, o, h, b) \in UtxoRow
BY UpsertType DEF Applied

-----------------------------------------------------------------------------
(* Logs that agree up to a height, and shorter stretches of one log        *)

LEMMA EffectsAgree ==
  ASSUME NEW log1, NEW log2, NEW B \in Int,
         \A h \in StartHeight .. B : log1[h] = log2[h]
  PROVE  /\ CreatedBy(log1, StartHeight, B) = CreatedBy(log2, StartHeight, B)
         /\ SpentBy(log1, StartHeight, B) = SpentBy(log2, StartHeight, B)
BY DEF CreatedBy, SpentBy

LEMMA ExtendsAgree ==
  ASSUME NEW log1, NEW log2, NEW B \in Int, NEW b,
         \A h \in StartHeight .. B : log1[h] = log2[h],
         Extends(b, log1, StartHeight, B)
  PROVE  Extends(b, log2, StartHeight, B)
BY EffectsAgree DEF Extends, Touched

LEMMA ExtendsShrink ==
  ASSUME NEW log, NEW b, NEW B \in Int, NEW C \in Int, C <= B,
         Extends(b, log, StartHeight, B)
  PROVE  Extends(b, log, StartHeight, C)
<1>1. StartHeight \in Nat
  BY DEF Heights
<1>2. StartHeight .. C \subseteq StartHeight .. B
  BY <1>1
<1>3. QED
  BY <1>2 DEF Extends, Touched, CreatedBy, SpentBy

(* Answers computed from logs that agree up to U: the same up to U, and an *)
(* output that is not spendable at U but was before is not spendable at    *)
(* U + 1 either                                                            *)
LEMMA NewAnswers ==
  ASSUME NEW log1, NEW log2, NEW U \in StartHeight - 1 .. MaxHeight,
         \A h \in StartHeight .. U : log1[h] = log2[h]
  PROVE  /\ \A h \in StartHeight .. U :
              RefSpendable(log1, StartHeight, h) = RefSpendable(log2, StartHeight, h)
         /\ \A h \in StartHeight .. U :
              (RefSpendable(log2, StartHeight, U + 1) \ RefSpendable(log1, StartHeight, U))
                \cap RefSpendable(log1, StartHeight, h) = {}
         /\ RefSpendable(log1, StartHeight, StartHeight - 1) = {}
<1>0. StartHeight \in Nat /\ MaxHeight \in Nat /\ U \in Int
  BY DEF Heights
<1>1. ASSUME NEW h \in StartHeight .. U
      PROVE  RefSpendable(log1, StartHeight, h) = RefSpendable(log2, StartHeight, h)
  <2>1. h \in Int /\ \A i \in StartHeight .. h : log1[i] = log2[i]
    BY <1>0
  <2>2. QED
    BY <2>1, EffectsAgree DEF RefSpendable
<1>2. ASSUME NEW h \in StartHeight .. U, NEW o \in RefSpendable(log1, StartHeight, h),
             o \in RefSpendable(log2, StartHeight, U + 1)
      PROVE  o \in RefSpendable(log1, StartHeight, U)
  <2>1. /\ StartHeight .. h \subseteq StartHeight .. U
        /\ StartHeight .. U \subseteq StartHeight .. U + 1
    BY <1>0
  <2>2. o \in CreatedBy(log1, StartHeight, U)
    BY <1>2, <2>1 DEF RefSpendable, CreatedBy
  <2>3. o \notin SpentBy(log1, StartHeight, U)
    BY <1>2, <2>1 DEF RefSpendable, CreatedBy, SpentBy
  <2>4. QED
    BY <2>2, <2>3 DEF RefSpendable
<1>3. RefSpendable(log1, StartHeight, StartHeight - 1) = {}
  BY <1>0 DEF RefSpendable, CreatedBy
<1>4. QED
  BY <1>1, <1>2, <1>3
=============================================================================
