------------------------------- MODULE Storage -------------------------------
(***************************************************************************)
(* The storage service: what handle_socket_connection does with each kind  *)
(* of message (network/socket.rs), over SQLite.                            *)
(*                                                                         *)
(* Each statement of SQLite commits on its own, so a handler that uses two *)
(* of them is two steps, and `job' is the second step that is still owed.  *)
(* The connection tasks share one thread and no handler awaits between its *)
(* statements, so no other message is handled while a job is open; the     *)
(* HTTP workers are other threads and see the tables in between.           *)
(***************************************************************************)
EXTENDS UtxoStore

VARIABLES
  blocks,  \* table blocks
  utxo,    \* table utxo
  job      \* rest of the handler that is running

storageVars == <<blocks, utxo, job>>

NoJob == [kind |-> "none", height |-> 0, block |-> NoBlock]

Jobs ==
  {NoJob} \cup [kind : {"block"}, height : Heights, block : Block]
          \cup [kind : {"revert"}, height : Heights, block : {NoBlock}]

StorageTypeOK ==
  /\ blocks \in [Heights -> BlockRow]
  /\ utxo \in [Outputs -> UtxoRow]
  /\ job \in Jobs

StorageInit ==
  /\ blocks = [h \in Heights |-> NoBlockRow]
  /\ utxo = [o \in Outputs |-> NoUtxoRow]
  /\ job = NoJob

(* BlockUpdate: store_block, then process_block, then the acknowledgement. *)
(* An error of store_block is logged and the handler goes on.              *)
ReceiveBlock(h, b, stored) ==
  /\ job = NoJob
  /\ blocks' = IF stored THEN StoreBlock(blocks, h, b) ELSE blocks
  /\ job' = [kind |-> "block", height |-> h, block |-> b]
  /\ UNCHANGED utxo

ProcessBlock ==
  /\ job.kind = "block"
  /\ utxo' = ProcessBlockUtxos(utxo, job.height, job.block)
  /\ job' = NoJob
  /\ UNCHANGED blocks

(* The second step fails and is logged, or the process stops before it     *)
DropJob ==
  /\ job # NoJob
  /\ job' = NoJob
  /\ UNCHANGED <<blocks, utxo>>

(* ReorgEvent: revert_to_height.  Latest height 0 means an empty store.    *)
ReceiveReorg(forkHeight) ==
  /\ job = NoJob
  /\ IF LatestBlock(blocks) = 0
       THEN UNCHANGED <<blocks, job>>
       ELSE LET safe == SafeRevertHeight(blocks, forkHeight) IN
            /\ blocks' = MarkBlocksAfterHeightNotMain(blocks, safe)
            /\ job' = [kind |-> "revert", height |-> safe, block |-> NoBlock]
  /\ UNCHANGED utxo

RevertUtxos ==
  /\ job.kind = "revert"
  /\ utxo' = RevertUtxosAfterHeight(utxo, job.height)
  /\ job' = NoJob
  /\ UNCHANGED blocks

(* UpdateFinalityStatus                                                    *)
ReceiveFinality(currentHeight) ==
  /\ job = NoJob
  /\ blocks' = UpdateFinalityStatus(blocks, currentHeight)
  /\ UNCHANGED <<utxo, job>>
=============================================================================
