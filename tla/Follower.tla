------------------------------- MODULE Follower -------------------------------
(***************************************************************************)
(* The storage service together with what it may assume of the indexer     *)
(* that feeds it, whatever else goes wrong: blocks come in height order,   *)
(* from one chain at a time, and any step may be lost, repeated or fail.   *)
(*                                                                         *)
(* The module answers one question about database.rs and sqlite.rs: which  *)
(* part of the tables is right, after any such history?  The answer is the *)
(* auxiliary variable `base'.  It has no counterpart in the code, and no   *)
(* table ever depends on it.                                               *)
(***************************************************************************)
EXTENDS Storage

CONSTANT
  InBlockSpends   \* may a block spend an output that it creates itself?

ASSUME InBlockSpendsAssumption == InBlockSpends \in BOOLEAN

VARIABLES
  cursor,  \* height of the next block the indexer sends
  base     \* the stored blocks up to this height are the node's, each was
           \* applied in its turn, and their effect can be read off the table

vars == <<storageVars, cursor, base>>

TypeOK ==
  /\ StorageTypeOK
  /\ job.kind = "block" => job.height >= StartHeight
  /\ cursor \in StartHeight .. MaxHeight + 1
  /\ base \in StartHeight - 1 .. MaxHeight

Init ==
  /\ StorageInit
  /\ cursor = StartHeight
  /\ base = StartHeight - 1

(* The blocks the storage service knows                                    *)
Log == Hashes(blocks)

(* Nothing in the table comes from above the base                          *)
NothingAbove == RevertUtxosAfterHeight(utxo, base) = utxo

(* The base after block b at height h has been applied                     *)
BaseAfter(h, b) ==
  IF h = base + 1 /\ StoredHash(blocks, h) = b /\ NothingAbove THEN h ELSE base

(* send_update for the block at the cursor.  A block of the base is sent   *)
(* again as it was; a later one fits what the base says, and may replace   *)
(* another block of its height.                                            *)
Deliver(b, stored) ==
  /\ cursor \in Heights
  /\ IF cursor <= base THEN b = Log[cursor]
                       ELSE Extends(b, Log, StartHeight, base)
  /\ InBlockSpends \/ NoInBlockSpend(b)
  /\ ReceiveBlock(cursor, b, stored)
  /\ UNCHANGED <<cursor, base>>

(* A mutation: the acknowledged block is counted twice                     *)
AcknowledgedTwice(acked) ==
  cursor' \in IF acked /\ cursor = job.height THEN {cursor + 2}
                                             ELSE StartHeight .. cursor

(* The acknowledgement moves the indexer to the next height.  Without it   *)
(* the indexer goes back, which it can as well have done in the meantime.  *)
Acknowledged(acked) ==
  cursor' \in IF acked /\ cursor = job.height THEN {cursor + 1}
                                             ELSE StartHeight .. cursor

(* The node can have left the block's branch by now (current is FALSE)     *)
Process(acked, current) ==
  /\ ProcessBlock
  /\ Acknowledged(acked)
  /\ base' = IF current THEN BaseAfter(job.height, job.block) ELSE base

(* process_block fails, which is acknowledged all the same, or the storage *)
(* service stops before it, which is not                                   *)
FailProcess(acked) ==
  /\ job.kind = "block"
  /\ DropJob
  /\ Acknowledged(acked)
  /\ base' = IF acked THEN Lesser(base, job.height - 1) ELSE base

(* A ReorgEvent, in time or late                                           *)
Reorg(forkHeight) ==
  /\ ReceiveReorg(forkHeight)
  /\ base' = IF LatestBlock(blocks) = 0
               THEN base
               ELSE Lesser(base, SafeRevertHeight(blocks, forkHeight))
  /\ UNCHANGED cursor

FinishReorg == RevertUtxos /\ UNCHANGED <<cursor, base>>

FailReorg == job.kind = "revert" /\ DropJob /\ UNCHANGED <<cursor, base>>

Finality(currentHeight) ==
  ReceiveFinality(currentHeight) /\ UNCHANGED <<cursor, base>>

(* An aborted batch, a restart, or a reorganisation: the indexer goes back *)
Rewind(k) ==
  /\ k < cursor
  /\ cursor' = k
  /\ UNCHANGED <<storageVars, base>>

(* The node leaves the branch above k                                      *)
Fork(k) ==
  /\ k < base
  /\ base' = k
  /\ UNCHANGED <<storageVars, cursor>>

Next ==
  \/ \E b \in Block, stored \in BOOLEAN : Deliver(b, stored)
  \/ \E acked, current \in BOOLEAN : Process(acked, current)
  \/ \E acked \in BOOLEAN : FailProcess(acked)
  \/ \E f \in StartHeight - 1 .. MaxHeight : Reorg(f)
  \/ FinishReorg
  \/ FailReorg
  \/ \E h \in Heights : Finality(h)
  \/ \E k \in StartHeight .. MaxHeight : Rewind(k)
  \/ \E k \in StartHeight - 1 .. MaxHeight : Fork(k)

Spec == Init /\ [][Next]_vars

-----------------------------------------------------------------------------
(* Properties                                                              *)

Base == StartHeight .. base

(* The blocks from START_HEIGHT to height hi are blocks of one chain       *)
Chained(log, hi) ==
  \A h \in StartHeight .. hi : /\ log[h] \in Block
                              /\ NoInBlockSpend(log[h])
                              /\ Extends(log[h], log, StartHeight, h - 1)

(* Every height of the base holds a block of the main chain that fits the  *)
(* blocks below it (store_block, mark_blocks_after_height_not_main_chain). *)
BaseStored == Chained(Log, base) /\ \A h \in Base : blocks[h].main = 1

(* The row says of output o what the blocks up to height hi say.  Only the *)
(* spending can be missing, while the indexer is sending again blocks that *)
(* it had sent before, until it reaches the spending block.                *)
Fits(row, o, log, hi, cur) ==
  /\ \A i \in StartHeight .. hi : o \in log[i].creates => row.height = i
  /\ \A j \in StartHeight .. hi : o \in log[j].spends =>
       /\ o \notin CreatedBy(log, StartHeight, hi) => row.height = j
       /\ row.spent \in {NULL, j}
       /\ j < cur => row.spent = j
  /\ o \notin SpentBy(log, StartHeight, hi) => row.spent = NULL
  /\ o \notin Touched(log, StartHeight, hi) => row.height = NULL

(* Reverted to the base, every row is right (process_block_utxos,          *)
(* revert_utxos_after_height).                                             *)
RowTrusted(o) == Fits(RevertRow(utxo[o], base), o, Log, base, cursor)
RowsTrusted == \A o \in Outputs : RowTrusted(o)

(* The running handler's block is the one the base holds for its height,   *)
(* or one that fits the base; its revert does not reach into the base.     *)
JobTrusted ==
  /\ job.kind = "block" =>
       /\ cursor <= job.height
       /\ NoInBlockSpend(job.block)
       /\ IF job.height <= base
            THEN job.block = Log[job.height]
            ELSE Extends(job.block, Log, StartHeight, base)
  /\ job.kind = "revert" => base <= job.height

(* The inductive invariant: whatever was stored, replaced, half done or    *)
(* lost above the base (StoreBlock, ProcessBlock, ReceiveReorg and their   *)
(* failures), reverting the table to the base leaves exactly what the      *)
(* blocks of the base say.  So a revert always finds its way back.         *)
Inv == BaseStored /\ RowsTrusted /\ JobTrusted

(* The last height for which the indexer has, in this pass, delivered all  *)
(* of the base                                                             *)
CaughtUp == Lesser(base, cursor - 1)

(* The query get_spendable_utxos_at_height is exact for every height that  *)
(* is in the base and below the cursor, in every intermediate state: while *)
(* a block is stored but not processed, while blocks are marked but their  *)
(* UTXOs not reverted, after failures, and whatever lies above the base.   *)
AnswersExact ==
  \A h \in StartHeight .. CaughtUp :
    Spendable(utxo, h) = RefSpendable(Log, StartHeight, h)

(* No message takes a block that is FINALITY_CONFIRMATIONS or more below   *)
(* the latest one off the main chain (the clamp of revert_to_height).      *)
RollbackBounded ==
  [][\A h \in Heights :
       h <= LatestBlock(blocks) - FinalityConfirmations /\ blocks[h].main = 1
         => blocks'[h].main = 1]_blocks

(* Queried at a height up to CaughtUp, the tables implement the ledger.    *)
LedgerView == INSTANCE Ledger WITH
  upto <- CaughtUp,
  ans  <- [h \in StartHeight .. CaughtUp |-> Spendable(utxo, h)]

(* Answers are appended and truncated, never changed, whatever handler     *)
(* runs, fails or is interrupted.                                          *)
ImplementsLedger == LedgerView!LedgerSpec
=============================================================================
