--------------------------------- MODULE Sync ---------------------------------
(***************************************************************************)
(* The indexer's loop (indexer.rs: run, process_new_blocks,                *)
(* check_for_reorg, find_fork_point) between the Bitcoin node it polls and *)
(* the storage service it feeds over the Unix socket (network-shared).     *)
(*                                                                         *)
(* Every await that reads or writes something another process changes is a *)
(* step of its own, except two pairs.  A block is fetched and sent in one  *)
(* step, and the two hashes of a comparison are read in one: between the   *)
(* two halves only the node can move (the storage service only changes     *)
(* when the indexer's messages are handled), it does not look at the       *)
(* storage service, and so its move can as well come after the second half.*)
(***************************************************************************)
EXTENDS BitcoinNode, Storage, SequencesExt

CONSTANTS
  BatchLimit,    \* MAX_BLOCKS_PER_BATCH, or 1 on mainnet
  Faults,        \* kinds of fault that happen, a subset of FaultKinds
  MaxFaults,     \* how many of them
  Together,      \* do faults and reorganisations happen in one behaviour?
  Prompt,        \* is an unacknowledged message handled within a poll interval?
  OutrunsWindow  \* does the node leave the window while blocks are stale?

FaultKinds == {"rpc", "ack", "stop", "database", "restart"}

ASSUME SyncAssumption == /\ BatchLimit \in Nat \ {0}
                         /\ Faults \subseteq FaultKinds
                         /\ MaxFaults \in Nat
                         /\ {Together, Prompt, OutrunsWindow} \subseteq BOOLEAN

VARIABLES
  pc,      \* where the loop of the indexer is
  last,    \* last_processed_height
  seen,    \* current_height of process_new_blocks
  low,     \* start_check_height of check_for_reorg
  at,      \* height the current loop is at
  inbox,   \* messages sent without waiting for an answer, not yet handled
  faults,  \* faults so far
  base     \* auxiliary: the base of the storage service (see Follower)

indexerVars == <<pc, last, seen, low, at>>
vars == <<nodeVars, storageVars, indexerVars, inbox, faults, base>>

Message == [kind : {"reorg", "finality"}, height : Heights \cup {-1}]

TypeOK ==
  /\ NodeTypeOK
  /\ StorageTypeOK
  /\ pc \in {"idle", "window", "check", "fork", "send", "sent", "finality"}
  /\ {last, low, at} \subseteq -1 .. MaxHeight
  /\ seen \in Heights
  /\ inbox \in Seq(Message)
  /\ faults \in 0 .. MaxFaults
  /\ base \in StartHeight - 1 .. MaxHeight

Init ==
  /\ NodeInit
  /\ StorageInit
  /\ pc = "idle"
  /\ last = StartHeight - 1
  /\ seen = 0 /\ low = 0 /\ at = 0
  /\ inbox = << >>
  /\ faults = 0
  /\ base = StartHeight - 1

-----------------------------------------------------------------------------
(* The node                                                                *)

(* The blocks that the storage service has and the given chain has not     *)
Stale(c) == {h \in MainHeights(blocks) : blocks[h].hash # c[h]}

(* The node keeps its blocks up to k.  Unless OutrunsWindow, it is slow    *)
(* enough for the indexer: stale blocks are still in the window of         *)
(* FINALITY_CONFIRMATIONS blocks that the indexer checks.                  *)
NodeAdvances(k) ==
  /\ Advance(k)
  /\ Together \/ faults = 0 \/ reorgs' = 0
  /\ OutrunsWindow \/ \A h \in Stale(chain') : h >= tip' - FinalityConfirmations + 1
  /\ base' = Lesser(base, Greater(k, StartHeight - 1))
  /\ UNCHANGED <<storageVars, indexerVars, inbox, faults>>

-----------------------------------------------------------------------------
(* The indexer                                                             *)

Goto(label) == pc' = label

(* The cycle is over, and its local variables are gone                     *)
EndCycle == Goto("idle") /\ seen' = 0 /\ low' = 0 /\ at' = 0

(* A mutation: a single new block is not worth a batch                     *)
LazyPoll ==
  /\ pc = "idle"
  /\ Prompt => inbox = << >> /\ job = NoJob
  /\ IF tip <= last + 1 THEN UNCHANGED <<pc, seen>>
                        ELSE Goto("window") /\ seen' = tip
  /\ UNCHANGED <<nodeVars, storageVars, last, low, at, inbox, faults, base>>

(* process_new_blocks: get_block_count                                     *)
Poll ==
  /\ pc = "idle"
  /\ Prompt => inbox = << >> /\ job = NoJob
  /\ IF tip <= last THEN UNCHANGED <<pc, seen>>
                    ELSE Goto("window") /\ seen' = tip
  /\ UNCHANGED <<nodeVars, storageVars, last, low, at, inbox, faults, base>>

(* A mutation: the batch starts one block late                             *)
BeginBatchLate == Goto("send") /\ at' = last + 2 /\ low' = 0

(* The batch starts after the last processed block                         *)
BeginBatch == Goto("send") /\ at' = last + 1 /\ low' = 0

(* check_for_reorg: its own get_block_count                                *)
BeginCheck ==
  /\ pc = "window"
  /\ LET start == Greater(tip - FinalityConfirmations + 1, 0)
     IN  IF last < start THEN BeginBatch
                         ELSE Goto("check") /\ at' = start /\ low' = start
  /\ UNCHANGED <<nodeVars, storageVars, last, seen, inbox, faults, base>>

HashesAgree == chain[at] = StoredHash(blocks, at)

CheckHeight ==
  /\ pc = "check"
  /\ job = NoJob
  /\ CASE ~HashesAgree -> Goto("fork") /\ at' = at - 1 /\ UNCHANGED low
       [] HashesAgree /\ at = last -> BeginBatch
       [] OTHER -> at' = at + 1 /\ UNCHANGED <<pc, low>>
  /\ UNCHANGED <<nodeVars, storageVars, last, seen, inbox, faults, base>>

(* find_fork_point, and send_reorg_event once it is found                  *)
FindForkPoint ==
  /\ pc = "fork"
  /\ job = NoJob
  /\ IF at >= low /\ ~HashesAgree
       THEN /\ at' = at - 1
            /\ UNCHANGED <<pc, last, seen, low, inbox>>
       ELSE /\ EndCycle
            /\ last' = at
            /\ inbox' = Append(inbox, [kind |-> "reorg", height |-> at])
  /\ UNCHANGED <<nodeVars, storageVars, faults, base>>

(* A mutation: the batch goes on past the tip                              *)
FullBatchEnd == last + BatchLimit

BatchEnd == last + Lesser(seen - last, BatchLimit)

(* get_block_hash, get_block_data and send_block_update                    *)
SendBlock(stored) ==
  /\ pc = "send"
  /\ ReceiveBlock(at, chain[at], stored)
  /\ Goto("sent")
  /\ UNCHANGED <<nodeVars, last, seen, low, at, inbox, base>>

(* BlockProcessedAck: the next block, or the end of the batch              *)
Acknowledge ==
  /\ IF at < BatchEnd
       THEN Goto("send") /\ at' = at + 1 /\ UNCHANGED <<last, seen, low>>
       ELSE /\ last' = at
            /\ IF seen - FinalityConfirmations + 1 > 0
                 THEN Goto("finality") /\ at' = 0 /\ UNCHANGED <<seen, low>>
                 ELSE EndCycle

(* The cycle ends with an error: run logs it and sleeps                    *)
Abort == EndCycle /\ UNCHANGED last

SendFinality ==
  /\ pc = "finality"
  /\ EndCycle
  /\ inbox' = Append(inbox, [kind |-> "finality", height |-> seen])
  /\ UNCHANGED <<nodeVars, storageVars, last, faults, base>>

-----------------------------------------------------------------------------
(* The storage service                                                     *)

BaseAfter(h, b) ==
  IF /\ h = base + 1
     /\ StoredHash(blocks, h) = b /\ chain[h] = b
     /\ RevertUtxosAfterHeight(utxo, base) = utxo
    THEN h ELSE base

Process ==
  /\ ProcessBlock
  /\ base' = BaseAfter(job.height, job.block)
  /\ UNCHANGED <<nodeVars, inbox>>

StorageProcesses == Process /\ Acknowledge /\ UNCHANGED faults

(* Each message has a connection and a task of its own: any order          *)
HandleMessage(i) ==
  /\ inbox' = RemoveAt(inbox, i)
  /\ IF inbox[i].kind = "finality"
       THEN ReceiveFinality(inbox[i].height) /\ UNCHANGED base
       ELSE /\ ReceiveReorg(inbox[i].height)
            /\ base' = IF LatestBlock(blocks) = 0 THEN base
                       ELSE Lesser(base, SafeRevertHeight(blocks, inbox[i].height))
  /\ UNCHANGED <<nodeVars, indexerVars, faults>>

StorageReverts ==
  RevertUtxos /\ UNCHANGED <<nodeVars, indexerVars, inbox, faults, base>>

-----------------------------------------------------------------------------
(* Faults                                                                  *)

Fault(kind) ==
  /\ kind \in Faults /\ faults < MaxFaults
  /\ Together \/ reorgs = 0
  /\ faults' = faults + 1

(* A call to the node fails.  An error of check_for_reorg is dropped, and  *)
(* the cycle goes on as if there were no reorganisation.                   *)
RpcFails ==
  /\ Fault("rpc")
  /\ \/ pc \in {"window", "check", "fork"} /\ BeginBatch /\ UNCHANGED seen
     \/ pc = "send" /\ EndCycle
  /\ UNCHANGED <<nodeVars, storageVars, last, inbox, base>>

(* The block is processed, the acknowledgement does not arrive             *)
AckLost == Fault("ack") /\ Process /\ Abort

(* A mutation: the broken connection is taken for an acknowledgement       *)
StorageStopsUnnoticed ==
  /\ Fault("stop")
  /\ job # NoJob \/ inbox # << >>
  /\ job' = NoJob
  /\ inbox' = << >>
  /\ IF pc = "sent" THEN Acknowledge ELSE UNCHANGED indexerVars
  /\ UNCHANGED <<nodeVars, blocks, utxo, base>>

(* The storage service stops and starts again: open connections break      *)
StorageStops ==
  /\ Fault("stop")
  /\ job # NoJob \/ inbox # << >>
  /\ job' = NoJob
  /\ inbox' = << >>
  /\ IF pc = "sent" THEN Abort ELSE UNCHANGED indexerVars
  /\ UNCHANGED <<nodeVars, blocks, utxo, base>>

(* A statement of SQLite fails, and the handler logs the error             *)
StoreFails == Fault("database") /\ SendBlock(FALSE)

ProcessFails ==
  /\ Fault("database")
  /\ job.kind = "block" /\ DropJob
  /\ base' = Lesser(base, job.height - 1)
  /\ Acknowledge
  /\ UNCHANGED <<nodeVars, inbox>>

MessageFails(i) ==
  /\ Fault("database")
  /\ job = NoJob
  /\ inbox' = RemoveAt(inbox, i)
  /\ UNCHANGED <<nodeVars, storageVars, indexerVars, base>>

RevertFails ==
  /\ Fault("database")
  /\ job.kind = "revert" /\ DropJob
  /\ UNCHANGED <<nodeVars, indexerVars, inbox, base>>

(* A mutation: the indexer starts again from the tip                       *)
IndexerRestartsAtTip ==
  /\ Fault("restart")
  /\ pc # "sent"
  /\ StartHeight <= tip
  /\ EndCycle
  /\ last' = tip
  /\ UNCHANGED <<nodeVars, storageVars, inbox, base>>

(* The indexer starts again from START_HEIGHT.  While a block is being     *)
(* processed this is a lost acknowledgement, followed by a restart.  It    *)
(* has lost its watch set; Outputs are the outputs of those addresses that *)
(* it is told to watch again before it scans a block.                      *)
IndexerRestarts ==
  /\ Fault("restart")
  /\ pc # "sent"
  /\ StartHeight <= tip
  /\ EndCycle
  /\ last' = StartHeight - 1
  /\ UNCHANGED <<nodeVars, storageVars, inbox, base>>

-----------------------------------------------------------------------------
IndexerStep ==
  \/ Poll \/ BeginCheck \/ CheckHeight \/ FindForkPoint
  \/ SendBlock(TRUE) /\ UNCHANGED faults
  \/ SendFinality

HandleMessages == \E i \in DOMAIN inbox : HandleMessage(i)

StorageStep == StorageProcesses \/ HandleMessages \/ StorageReverts

FaultStep ==
  \/ RpcFails \/ AckLost \/ StorageStops \/ StoreFails \/ ProcessFails
  \/ \E i \in DOMAIN inbox : MessageFails(i)
  \/ RevertFails \/ IndexerRestarts

NodeStep == \E k \in Heights : k <= tip /\ NodeAdvances(k)

Next == NodeStep \/ IndexerStep \/ StorageStep \/ FaultStep

Spec == Init /\ [][Next]_vars

(* The loop never returns (run has no exit but a panic), the runtime gets  *)
(* to every connection task, and handlers run to their end.  Nothing       *)
(* obliges the node to find a block.                                       *)
FairSpec == Spec /\ WF_vars(IndexerStep) /\ WF_vars(StorageStep)

-----------------------------------------------------------------------------
(* Properties                                                              *)

Quiet == pc = "idle" /\ inbox = << >> /\ job = NoJob

Processed == StartHeight .. last

(* The evidence the indexer goes by: the hash the storage service has for  *)
(* every processed height is the node's.                                   *)
HashesMatch == \A h \in Processed : StoredHash(blocks, h) = chain[h]

(* Matching hashes mean matching answers: when the indexer has nothing to  *)
(* do and every processed block is on the node's chain, every query up to  *)
(* the last processed height is answered as the chain says.  The recovery  *)
(* from reorganisations rests on it: check_for_reorg looks only at hashes, *)
(* and never at the UTXOs stored for them.                                 *)
HashesWitnessAnswers ==
  Quiet /\ HashesMatch =>
    \A h \in Processed : Spendable(utxo, h) = RefSpendable(chain, StartHeight, h)

(* A block marked final is on the node's chain (README.md:133: the system  *)
(* handles reorganisations for up to 6 blocks behind the current block).   *)
FinalOnChain ==
  \A h \in MainHeights(blocks) :
    blocks[h].final = 1 => blocks[h].hash = chain[h]

(* A final block stays as it is: no revert takes it off the main chain and *)
(* no later block takes its place.                                         *)
FinalStays ==
  [][\A h \in MainHeights(blocks) :
       blocks[h].final = 1 => blocks'[h] = blocks[h]]_blocks

(* START_HEIGHT is the block height to start from (README.md:110): no      *)
(* block below it is stored.                                               *)
NothingBelowStart == \A h \in Heights : HasBlockRow(blocks, h) => h >= StartHeight

(* Once the node stops moving, the indexer gets to the tip, and from then  *)
(* on the stored hashes and the answers are those of the node's chain.     *)
Converged ==
  /\ last = tip
  /\ HashesMatch
  /\ \A h \in Processed : Spendable(utxo, h) = RefSpendable(chain, StartHeight, h)

Converges == <>[]Converged

(* Whatever fails, the indexer keeps to the protocol of Follower: the next *)
(* height to send is its cursor.  So what is proved there of the tables    *)
(* holds for the system as it runs.                                        *)
NextHeight == IF pc \in {"send", "sent"} THEN at ELSE last + 1

FollowerView == INSTANCE Follower WITH cursor <- NextHeight, InBlockSpends <- FALSE

FollowsProtocol == FollowerView!Spec

(* Whatever fails and however the node moves, the answers up to the last   *)
(* block delivered in this pass are those of the node's chain, as far up   *)
(* as the tables have followed it (send_block_update, process_block).      *)
AnswersFollowChain ==
  \A h \in StartHeight .. Lesser(base, NextHeight - 1) :
    Spendable(utxo, h) = RefSpendable(chain, StartHeight, h)
=============================================================================
