------------------------------ MODULE CsvFollower ------------------------------
(***************************************************************************)
(* The storage service over the CSV datasource (datasources/csv.rs), fed   *)
(* as in Follower.  Its maps live in memory; load_data reads two files at  *)
(* the start that nothing writes (save_changes is a TODO), so that a       *)
(* restart of the service empties them.                                    *)
(*                                                                         *)
(* process_block_utxos and revert_utxos_after_height keep the UTXOs locked *)
(* until they return, and what store_block and the marking of blocks write *)
(* no query reads: a handler is one step.                                  *)
(***************************************************************************)
EXTENDS UtxoStore

VARIABLES
  utxos,               \* utxos: the row of every output, a row of NULLs if none
  block_utxos,         \* blocks: height -> copies of what its block inserted
  latest_block,
  block_hashes,
  main_chain_heights,
  finalized_heights,   \* written, and read by nobody
  sending,  \* height of the next block the indexer sends: cursor in Follower
  sound     \* auxiliary: what base is in Follower

csvVars == <<utxos, block_utxos, latest_block, block_hashes, main_chain_heights,
             finalized_heights, sending, sound>>

CsvTypeOK ==
  /\ utxos \in [Outputs -> UtxoRow]
  /\ block_utxos \in [Heights -> [Outputs -> UtxoRow]]
  /\ latest_block \in Heights
  /\ block_hashes \in [Heights -> Block \cup {NoBlock}]
  /\ main_chain_heights \subseteq {h \in Heights : block_hashes[h] # NoBlock}
  /\ finalized_heights \subseteq Heights
  /\ sending \in StartHeight .. MaxHeight + 1
  /\ sound \in StartHeight - 1 .. MaxHeight

NoUtxos == [o \in Outputs |-> NoUtxoRow]

(* UtxoCSVDatasource::new, with no file to load                            *)
EmptyMaps ==
  /\ utxos' = NoUtxos
  /\ block_utxos' = [h \in Heights |-> NoUtxos]
  /\ latest_block' = 0
  /\ block_hashes' = [h \in Heights |-> NoBlock]
  /\ main_chain_heights' = {}
  /\ finalized_heights' = {}

CsvInit ==
  /\ utxos = NoUtxos
  /\ block_utxos = [h \in Heights |-> NoUtxos]
  /\ latest_block = 0
  /\ block_hashes = [h \in Heights |-> NoBlock]
  /\ main_chain_heights = {}
  /\ finalized_heights = {}
  /\ sending = StartHeight
  /\ sound = StartHeight - 1

-----------------------------------------------------------------------------
(* The datasource                                                          *)

(* A creation overwrites the row, a spend changes only a row that is there *)
Inserted(rows, h, outputs) ==
  [o \in Outputs |-> IF o \in outputs THEN [height |-> h, spent |-> NULL]
                                      ELSE rows[o]]

(* A mutation: the update, which has the height of the spending block,     *)
(* replaces the row                                                        *)
UpdatedWhole(rows, h, outputs) ==
  [o \in Outputs |-> IF o \in outputs /\ rows[o] # NoUtxoRow
                       THEN [height |-> h, spent |-> h] ELSE rows[o]]

Updated(rows, h, outputs) ==
  [o \in Outputs |-> IF o \in outputs /\ rows[o] # NoUtxoRow
                       THEN [rows[o] EXCEPT !.spent = h] ELSE rows[o]]

(* A mutation: the spends come first                                       *)
UpdatedFirst(rows, h, b) == Inserted(Updated(rows, h, b.spends), h, b.creates)

(* process_block_utxos, in utxos: the creations come first                 *)
InsertedFirst(rows, h, b) == Updated(Inserted(rows, h, b.creates), h, b.spends)

(* process_block_utxos, in blocks: the creations are copied before there   *)
(* are any spends, and no spend, of this block or a later one, is written  *)
(* into a copy                                                             *)
Copies(h, b) == Inserted(NoUtxos, h, b.creates)

(* revert_utxos_after_height, which does to a row what SQLite does         *)
Retained(rows, h) == RevertUtxosAfterHeight(rows, h)

NothingAboveSound == RevertUtxosAfterHeight(utxos, sound) = utxos

-----------------------------------------------------------------------------
(* Its messages                                                            *)

(* A mutation: the acknowledged block is counted twice                     *)
MoveOnTwice(acked) ==
  sending' \in IF acked THEN {sending + 2} ELSE StartHeight .. sending

(* The acknowledgement moves the indexer on; without it, it goes back      *)
MoveOn(acked) ==
  sending' \in IF acked THEN {sending + 1} ELSE StartHeight .. sending

(* A BlockUpdate, stored and processed.  The node can have left the branch *)
(* of the block by now (current is FALSE).                                 *)
CsvDeliver(b, acked, current) ==
  /\ sending \in Heights
  /\ IF sending <= sound THEN b = block_hashes[sending]
                         ELSE Extends(b, block_hashes, StartHeight, sound)
  /\ block_hashes' = [block_hashes EXCEPT ![sending] = b]
  /\ main_chain_heights' = main_chain_heights \cup {sending}
  /\ utxos' = InsertedFirst(utxos, sending, b)
  /\ block_utxos' = [block_utxos EXCEPT ![sending] = Copies(sending, b)]
  /\ latest_block' = sending
  /\ MoveOn(acked)
  /\ sound' = IF current /\ sending = sound + 1 /\ NothingAboveSound
                THEN sending ELSE sound
  /\ UNCHANGED finalized_heights

(* A mutation: the copies of the block reverted to go as well              *)
CsvReorgDroppingCopies(forkHeight) ==
  /\ latest_block # 0
  /\ LET safe == RevertHeight(latest_block, forkHeight) IN
       /\ main_chain_heights' = {h \in main_chain_heights : h <= safe}
       /\ utxos' = Retained(utxos, safe)
       /\ block_utxos' = [h \in Heights |-> IF h < safe THEN block_utxos[h]
                                                      ELSE NoUtxos]
       /\ latest_block' = safe
       /\ sound' = Lesser(sound, safe)
  /\ UNCHANGED <<block_hashes, finalized_heights, sending>>

(* A ReorgEvent: nothing happens while the latest block is 0.  Afterwards  *)
(* the latest block is the height reverted to, even if that is higher.     *)
CsvReorg(forkHeight) ==
  /\ latest_block # 0
  /\ LET safe == RevertHeight(latest_block, forkHeight) IN
       /\ main_chain_heights' = {h \in main_chain_heights : h <= safe}
       /\ utxos' = Retained(utxos, safe)
       /\ block_utxos' = [h \in Heights |-> IF h <= safe THEN block_utxos[h]
                                                       ELSE NoUtxos]
       /\ latest_block' = safe
       /\ sound' = Lesser(sound, safe)
  /\ UNCHANGED <<block_hashes, finalized_heights, sending>>

(* mark_blocks_as_final: all heights up to the threshold, stored or not    *)
CsvFinality(currentHeight) ==
  LET threshold == currentHeight - FinalityConfirmations + 1 IN
    /\ threshold > 0
    /\ finalized_heights' = finalized_heights \cup 0 .. threshold
    /\ UNCHANGED <<utxos, block_utxos, latest_block, block_hashes,
                   main_chain_heights, sending, sound>>

(* The service stops and starts again                                      *)
CsvRestart ==
  /\ EmptyMaps
  /\ sound' = StartHeight - 1
  /\ UNCHANGED sending

(* An aborted batch, a restart of the indexer, or a reorganisation         *)
CsvRewind(k) ==
  /\ k < sending
  /\ sending' = k
  /\ UNCHANGED <<utxos, block_utxos, latest_block, block_hashes,
                 main_chain_heights, finalized_heights, sound>>

(* The node leaves the branch above k                                      *)
CsvFork(k) ==
  /\ k < sound
  /\ sound' = k
  /\ UNCHANGED <<utxos, block_utxos, latest_block, block_hashes,
                 main_chain_heights, finalized_heights, sending>>

CsvNext ==
  \/ \E b \in Block, acked, current \in BOOLEAN : CsvDeliver(b, acked, current)
  \/ \E f \in StartHeight - 1 .. MaxHeight : CsvReorg(f)
  \/ \E h \in Heights : CsvFinality(h)
  \/ CsvRestart
  \/ \E k \in StartHeight .. MaxHeight : CsvRewind(k)
  \/ \E k \in StartHeight - 1 .. MaxHeight : CsvFork(k)

CsvSpec == CsvInit /\ [][CsvNext]_csvVars

-----------------------------------------------------------------------------
(* Properties                                                              *)

CsvCaughtUp == Lesser(sound, sending - 1)

(* Queries at the heights caught up with are admitted, although the latest *)
(* block goes back when a block is sent again, and exact, as over SQLite   *)
(* (Follower), and with blocks that spend what they create as well:        *)
(* process_block_utxos, revert_utxos_after_height,                         *)
(* get_spendable_utxos_at_height.                                          *)
CsvAnswersExact ==
  \A h \in StartHeight .. CsvCaughtUp :
    /\ h <= latest_block
    /\ Spendable(utxos, h) = RefSpendable(block_hashes, StartHeight, h)

(* A query about one block (get_all_utxos_for_block,                       *)
(* get_utxos_for_block_and_address) returns the copies.  They list the     *)
(* outputs that according to the rows were created in the block, although  *)
(* the two maps are written, written again and rolled back one after the   *)
(* other.  They do not show what was spent: spends are written into the    *)
(* rows only.  A copy is stale in this direction alone; it never shows a   *)
(* spend that the row does not have.                                       *)
BlockCopiesTrail ==
  \A h \in StartHeight .. sound : \A o \in Outputs :
    LET copy == block_utxos[h][o] IN
      /\ copy.height = h <=> utxos[o].height = h
      /\ copy.spent \in {NULL, utxos[o].spent}

CsvLedgerView == INSTANCE Ledger WITH
  upto <- CsvCaughtUp,
  ans  <- [h \in StartHeight .. CsvCaughtUp |-> Spendable(utxos, h)]

(* The readers' contract is kept over CSV as it is over SQLite.            *)
CsvImplementsLedger == CsvLedgerView!LedgerSpec
=============================================================================
