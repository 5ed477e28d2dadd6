------------------------------ MODULE UtxoStore ------------------------------
(***************************************************************************)
(* The two tables of the storage service and the operations on them, as    *)
(* pure operators: the SQLite datasource (datasources/sqlite.rs) and the   *)
(* height arithmetic of UtxoDatabase (database.rs).  Every module that     *)
(* talks about the storage service is built from these operators.          *)
(*                                                                         *)
(* `blocks' maps every height to the row of the table blocks, `utxo' maps  *)
(* every output of interest to the row of the table utxo.  A missing row   *)
(* is a row of NULLs.                                                      *)
(***************************************************************************)
EXTENDS Integers

CONSTANTS
  Outputs,               \* outputs ("txid:vout") that pay a watched address
  Forks,                 \* tags that tell apart blocks of competing branches
  MaxHeight,             \* highest block height considered
  StartHeight,           \* START_HEIGHT: the first block the indexer sends
  FinalityConfirmations  \* FINALITY_CONFIRMATIONS, 6 in the source

ASSUME ForksAssumption == Forks \subseteq Nat
ASSUME MaxHeightAssumption == MaxHeight \in Nat
ASSUME StartHeightAssumption == StartHeight \in 0 .. MaxHeight
ASSUME FinalityAssumption == FinalityConfirmations \in Nat \ {0}

Heights == 0 .. MaxHeight

NULL == -1   \* SQL NULL in a height column

(* What a BlockUpdate tells the storage service about a block: its hash    *)
(* (the record itself: blocks that differ have different hashes, and equal *)
(* contents on two branches differ in `fork'), the watched outputs its     *)
(* transactions create and the watched outputs they spend.                 *)
Block == [fork : Forks, creates : SUBSET Outputs, spends : SUBSET Outputs]

(* The empty hash, the answer of GetBlockHash for a height it cannot serve *)
NoBlock == [fork |-> NULL, creates |-> {}, spends |-> {}]

BlockRow == [hash : Block \cup {NoBlock}, main : {0, 1}, final : {0, 1}]
UtxoRow  == [height : Heights \cup {NULL}, spent : Heights \cup {NULL}]

NoBlockRow == [hash |-> NoBlock, main |-> 0, final |-> 0]
NoUtxoRow  == [height |-> NULL, spent |-> NULL]

Lesser(a, b)  == IF a < b THEN a ELSE b
Greater(a, b) == IF a > b THEN a ELSE b

-----------------------------------------------------------------------------
(* The table blocks                                                        *)

MainHeights(blocks) == {h \in Heights : blocks[h].main = 1}

(* SELECT MAX(height) ... WHERE is_main_chain = 1, or 0 without any        *)
LatestBlock(blocks) ==
  LET tops == {h \in MainHeights(blocks) :
                 \A k \in MainHeights(blocks) : k <= h}
  IN  IF tops = {} THEN 0 ELSE CHOOSE h \in tops : TRUE

(* The upsert resets is_main_chain and keeps is_final                      *)
StoreBlock(blocks, h, b) ==
  [blocks EXCEPT ![h] = [hash |-> b, main |-> 1, final |-> blocks[h].final]]

(* The hash a GetBlockHash request is answered with                        *)
StoredHash(blocks, h) ==
  IF h \in Heights /\ blocks[h].main = 1 THEN blocks[h].hash ELSE NoBlock

(* A mutation: the block at the height reverted to is taken off, too       *)
MarkNotMainFromHeight(blocks, h) ==
  [k \in Heights |-> IF k >= h THEN [blocks[k] EXCEPT !.main = 0]
                               ELSE blocks[k]]

MarkBlocksAfterHeightNotMain(blocks, h) ==
  [k \in Heights |-> IF k > h THEN [blocks[k] EXCEPT !.main = 0]
                              ELSE blocks[k]]

HasBlockRow(blocks, h) == blocks[h].hash # NoBlock

MarkBlocksAsFinal(blocks, threshold) ==
  [k \in Heights |-> IF k <= threshold /\ HasBlockRow(blocks, k)
                       THEN [blocks[k] EXCEPT !.final = 1]
                       ELSE blocks[k]]

(* A mutation: one confirmation too few                                    *)
UpdateFinalityStatusEarly(blocks, currentHeight) ==
  LET threshold == currentHeight - FinalityConfirmations + 2
  IN  IF threshold > 0 THEN MarkBlocksAsFinal(blocks, threshold) ELSE blocks

(* update_finality_status: nothing below a threshold of 1                  *)
UpdateFinalityStatus(blocks, currentHeight) ==
  LET threshold == currentHeight - FinalityConfirmations + 1
  IN  IF threshold > 0 THEN MarkBlocksAsFinal(blocks, threshold) ELSE blocks

(* A mutation: the requested height is not clamped                         *)
UnclampedRevertHeight(latest, h) == Greater(h, 0)

(* The height revert_to_height reverts to, for a latest block              *)
RevertHeight(latest, h) ==
  LET threshold == Greater(latest - FinalityConfirmations + 1, 0)
  IN  Greater(Greater(h, 0), threshold - 1)

SafeRevertHeight(blocks, h) == RevertHeight(LatestBlock(blocks), h)

-----------------------------------------------------------------------------
(* The table utxo                                                          *)

(* A mutation: the update overwrites block_height                          *)
OverwritingUpsert(row, h, spent) == [height |-> h, spent |-> spent]

(* INSERT ... ON CONFLICT(id) DO UPDATE: an existing row keeps its         *)
(* block_height and takes the spent columns of the new one                 *)
Upsert(row, h, spent) ==
  [height |-> IF row.height = NULL THEN h ELSE row.height, spent |-> spent]

BulkUpsert(utxo, outputs, h, spent) ==
  [o \in Outputs |-> IF o \in outputs THEN Upsert(utxo[o], h, spent)
                                      ELSE utxo[o]]

(* One transaction: first the spends (utxos_update), then the creations    *)
ProcessBlockUtxos(utxo, h, b) ==
  BulkUpsert(BulkUpsert(utxo, b.spends, h, h), b.creates, h, NULL)

(* A mutation: what was spent above h stays spent                          *)
RevertRowKeepingSpent(row, h) == IF row.height > h THEN NoUtxoRow ELSE row

RevertRow(row, h) ==
  IF row.height > h THEN NoUtxoRow
  ELSE IF row.spent > h THEN [row EXCEPT !.spent = NULL]
  ELSE row

(* One transaction: unspend what was spent above h, delete what was        *)
(* created above h                                                         *)
RevertUtxosAfterHeight(utxo, h) == [o \in Outputs |-> RevertRow(utxo[o], h)]

(* A mutation: an output is still spendable in the block that spends it    *)
SpendableWhenSpent(utxo, h) ==
  {o \in Outputs : /\ utxo[o].height # NULL
                   /\ utxo[o].height <= h
                   /\ utxo[o].spent = NULL \/ utxo[o].spent >= h}

(* get_spendable_utxos_at_height                                           *)
Spendable(utxo, h) ==
  {o \in Outputs : /\ utxo[o].height # NULL
                   /\ utxo[o].height <= h
                   /\ utxo[o].spent = NULL \/ utxo[o].spent > h}

(* get_all_utxos_for_block                                                 *)
GetAllUtxosForBlock(utxo, h) == {o \in Outputs : utxo[o].height = h}

-----------------------------------------------------------------------------
(* What the tables should say: the same answers computed from a log of     *)
(* blocks, a function from heights to blocks                               *)

CreatedBy(log, lo, hi) == {o \in Outputs : \E i \in lo .. hi : o \in log[i].creates}

SpentBy(log, lo, hi) == {o \in Outputs : \E i \in lo .. hi : o \in log[i].spends}

Touched(log, lo, hi) == CreatedBy(log, lo, hi) \cup SpentBy(log, lo, hi)

RefSpendable(log, lo, hi) == CreatedBy(log, lo, hi) \ SpentBy(log, lo, hi)

(* Block b can extend the blocks lo..hi: no output is created twice, spent *)
(* twice, or created after it was spent.  Outputs older than lo can be     *)
(* spent without having been created.                                      *)
Extends(b, log, lo, hi) ==
  /\ b.creates \cap Touched(log, lo, hi) = {}
  /\ b.spends \cap SpentBy(log, lo, hi) = {}

(* No transaction of the block spends an output of the same block          *)
NoInBlockSpend(b) == b.creates \cap b.spends = {}

(* The log the table blocks holds                                          *)
Hashes(blocks) == [h \in Heights |-> blocks[h].hash]
=============================================================================
