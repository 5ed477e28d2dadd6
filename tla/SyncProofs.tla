------------------------------ MODULE SyncProofs ------------------------------
(***************************************************************************)
(* Proofs about Sync, for every height bound, number of confirmations,     *)
(* batch limit, set of faults and number of reorganisations.  The first    *)
(* goal is that the indexer keeps to the protocol of Follower, so that     *)
(* what FollowerProofs proves of the tables holds for the system.          *)
(***************************************************************************)
EXTENDS Sync, UtxoStoreProofs, SequenceTheorems

USE MaxHeightAssumption, FinalityAssumption, StartHeightAssumption, ForksAssumption,
    FirstTipAssumption, ReorgAssumption, SyncAssumption

-----------------------------------------------------------------------------
(* The invariant                                                           *)

(* START_HEIGHT is not above the blocks that the first check looks at.     *)
(* Otherwise the check takes the missing blocks below it for a             *)
(* reorganisation (NothingBelowStart).                                     *)
StartsInWindow == StartHeight <= Greater(FirstTip - FinalityConfirmations + 1, 0)

(* Each block of the node's chain extends the blocks below it              *)
ChainValid ==
  \A h \in 0 .. tip : /\ chain[h] \in Block
                     /\ Extends(chain[h], chain, 0, h - 1)
                     /\ NoInBlockSpend(chain[h])

BaseOnChain ==
  /\ base <= tip
  /\ \A h \in StartHeight .. base : blocks[h].hash = chain[h]

(* Where the loops of the indexer are: the batch lies above the last       *)
(* processed block, the check and the search for the fork at or below it,  *)
(* and never below START_HEIGHT                                            *)
LoopsInRange ==
  /\ StartHeight - 1 <= last
  /\ FirstTip <= tip /\ seen <= tip
  /\ pc \notin {"idle", "finality"} => last < seen
  /\ pc \in {"check", "fork"} => StartHeight <= low /\ low - 1 <= at
  /\ pc = "check" => low <= at /\ at <= last
  /\ pc = "fork" => at < last
  /\ pc \in {"send", "sent"} => last < at /\ at <= BatchEnd

(* A block is being processed while, and only while, the indexer waits for *)
(* its acknowledgement                                                     *)
OneUpdate ==
  /\ pc = "sent" <=> job.kind = "block"
  /\ pc = "sent" => job.height = at

(* No message asks for a rollback below START_HEIGHT                       *)
MessageInRange ==
  [kind : {"reorg"}, height : StartHeight - 1 .. MaxHeight]
    \cup [kind : {"finality"}, height : Heights]

MessagesInRange == inbox \in Seq(MessageInRange)

SyncInv ==
  ChainValid /\ BaseOnChain /\ LoopsInRange /\ OneUpdate /\ MessagesInRange

-----------------------------------------------------------------------------
(* Lemmas                                                                  *)

LEMMA ConstantTypes ==
  /\ StartHeight \in Nat /\ MaxHeight \in Nat /\ StartHeight <= MaxHeight
  /\ FinalityConfirmations \in Int /\ FinalityConfirmations >= 1
  /\ BatchLimit \in Int /\ BatchLimit >= 1
  /\ FirstTip \in Int /\ FirstTip >= 0 /\ FirstTip <= MaxHeight
BY DEF Heights

(* A block that extends a stretch of one log extends any part of it that   *)
(* begins higher or ends lower, in a log that has the same blocks there    *)
LEMMA ExtendsPart ==
  ASSUME NEW log1, NEW log2, NEW lo1 \in Int, NEW lo2 \in Int, lo1 <= lo2,
         NEW B \in Int, NEW C \in Int, C <= B, NEW b,
         \A h \in lo2 .. C : log1[h] = log2[h],
         Extends(b, log1, lo1, B)
  PROVE  Extends(b, log2, lo2, C)
<1>1. \A h \in lo2 .. C : h \in lo1 .. B /\ log2[h] = log1[h]
  OBVIOUS
<1>2. /\ CreatedBy(log2, lo2, C) \subseteq CreatedBy(log1, lo1, B)
      /\ SpentBy(log2, lo2, C) \subseteq SpentBy(log1, lo1, B)
  BY <1>1 DEF CreatedBy, SpentBy
<1>3. QED
  BY <1>2 DEF Extends, Touched

LEMMA RemoveAtType ==
  ASSUME NEW S, NEW s \in Seq(S), NEW i \in DOMAIN s
  PROVE  RemoveAt(s, i) \in Seq(S)
<1>1. i \in 1 .. Len(s) /\ Len(s) \in Nat
  OBVIOUS
<1>2. /\ 1 \in 1 .. Len(s) + 1 /\ i - 1 \in 0 .. Len(s)
      /\ i + 1 \in 1 .. Len(s) + 1 /\ Len(s) \in 0 .. Len(s)
  BY <1>1
<1>3. SubSeq(s, 1, i - 1) \in Seq(S) /\ SubSeq(s, i + 1, Len(s)) \in Seq(S)
  BY <1>2, SubSeqProperties
<1>4. QED
  BY <1>3, ConcatProperties DEF RemoveAt

(* What the invariants say of the integers of a state                      *)
LEMMA StateRanges ==
  ASSUME TypeOK, SyncInv
  PROVE  /\ tip \in Int /\ 0 <= tip /\ tip <= MaxHeight
         /\ last \in Int /\ StartHeight - 1 <= last /\ last <= MaxHeight
         /\ low \in Int /\ at \in Int /\ seen \in Int /\ base \in Int
         /\ -1 <= at /\ at <= MaxHeight /\ 0 <= seen /\ seen <= tip
         /\ StartHeight - 1 <= base /\ base <= tip
         /\ low <= MaxHeight /\ FirstTip <= tip
BY ConstantTypes
DEF TypeOK, NodeTypeOK, SyncInv, BaseOnChain, LoopsInRange, Heights

(* The first height of the check is not below START_HEIGHT                 *)
LEMMA WindowIs ==
  ASSUME StartsInWindow, NEW t \in Int, FirstTip <= t
  PROVE  LET start == Greater(t - FinalityConfirmations + 1, 0)
         IN  start \in Nat /\ StartHeight <= start
BY ConstantTypes DEF StartsInWindow, Greater

LEMMA BatchEndIs ==
  ASSUME NEW l \in Int, NEW s \in Int
  PROVE  /\ l + Lesser(s - l, BatchLimit) <= s
         /\ l < s => l + 1 <= l + Lesser(s - l, BatchLimit)
BY ConstantTypes DEF Lesser

-----------------------------------------------------------------------------
(* The loops of the indexer                                                *)

LoopTypes ==
  /\ pc \in {"idle", "window", "check", "fork", "send", "sent", "finality"}
  /\ {last, low, at} \subseteq -1 .. MaxHeight
  /\ seen \in Heights

Loops == LoopTypes /\ LoopsInRange

LEMMA EndCycleLoops ==
  ASSUME TypeOK, SyncInv, EndCycle, last' \in StartHeight - 1 .. MaxHeight, tip' = tip
  PROVE  Loops' /\ pc' = "idle"
<1>1. /\ pc' = "idle" /\ seen' = 0 /\ low' = 0 /\ at' = 0
      /\ last' \in -1 .. MaxHeight /\ StartHeight - 1 <= last'
      /\ 0 \in Heights /\ 0 \in -1 .. MaxHeight
  BY ConstantTypes DEF EndCycle, Goto, Heights
<1>2. FirstTip <= tip' /\ seen' <= tip'
  BY <1>1, StateRanges
<1>3. QED
  BY <1>1, <1>2 DEF Loops, LoopTypes, LoopsInRange

LEMMA BeginBatchLoops ==
  ASSUME TypeOK, SyncInv, BeginBatch, last < seen,
         last' = last, seen' = seen, tip' = tip
  PROVE  Loops' /\ pc' = "send"
<1>1. pc' = "send" /\ at' = last + 1 /\ low' = 0
  BY DEF BeginBatch, Goto
<1>2. /\ last \in -1 .. MaxHeight /\ last + 1 \in -1 .. MaxHeight
      /\ 0 \in -1 .. MaxHeight /\ seen \in Heights
      /\ StartHeight - 1 <= last /\ FirstTip <= tip /\ seen <= tip
      /\ last < last + 1
  BY StateRanges, ConstantTypes DEF TypeOK, Heights
<1>3. last + 1 <= BatchEnd
  BY StateRanges, BatchEndIs DEF BatchEnd
<1>4. BatchEnd' = BatchEnd
  BY DEF BatchEnd
<1>5. QED
  BY <1>1, <1>2, <1>3, <1>4 DEF Loops, LoopTypes, LoopsInRange

LEMMA AcknowledgeLoops ==
  ASSUME TypeOK, SyncInv, pc = "sent", Acknowledge, tip' = tip
  PROVE  Loops' /\ pc' \in {"send", "finality", "idle"}
<1>0. /\ last < seen /\ last < at /\ at <= BatchEnd /\ BatchEnd <= seen
      /\ BatchEnd \in Int /\ at \in Int /\ last \in Int /\ seen \in Int
  BY StateRanges, BatchEndIs, ConstantTypes DEF SyncInv, LoopsInRange, BatchEnd, Lesser
<1>1. CASE at < BatchEnd
  <2>1. /\ pc' = "send" /\ at' = at + 1
        /\ last' = last /\ seen' = seen /\ low' = low /\ BatchEnd' = BatchEnd
    BY <1>1 DEF Acknowledge, Goto, BatchEnd
  <2>2. at + 1 <= BatchEnd /\ last < at + 1 /\ at + 1 \in -1 .. MaxHeight
    BY <1>0, <1>1, StateRanges
  <2>3. /\ last \in -1 .. MaxHeight /\ low \in -1 .. MaxHeight /\ seen \in Heights
        /\ StartHeight - 1 <= last /\ FirstTip <= tip /\ seen <= tip
    BY StateRanges DEF TypeOK
  <2>4. QED
    BY <1>0, <2>1, <2>2, <2>3 DEF Loops, LoopTypes, LoopsInRange
<1>2. CASE ~(at < BatchEnd)
  <2>1. last' = at /\ at \in StartHeight - 1 .. MaxHeight
    BY <1>0, <1>2, StateRanges, ConstantTypes DEF Acknowledge
  <2>2. CASE seen - FinalityConfirmations + 1 > 0
    <3>1. /\ pc' = "finality" /\ at' = 0 /\ seen' = seen /\ low' = low
      BY <1>2, <2>2 DEF Acknowledge, Goto
    <3>2. /\ at \in -1 .. MaxHeight /\ low \in -1 .. MaxHeight /\ seen \in Heights
          /\ 0 \in -1 .. MaxHeight
          /\ StartHeight - 1 <= at /\ FirstTip <= tip /\ seen <= tip
      BY <2>1, StateRanges, ConstantTypes DEF TypeOK
    <3>3. QED
      BY <2>1, <3>1, <3>2 DEF Loops, LoopTypes, LoopsInRange
  <2>3. CASE ~(seen - FinalityConfirmations + 1 > 0)
    BY <1>2, <2>1, <2>3, EndCycleLoops DEF Acknowledge
  <2>4. QED
    BY <2>2, <2>3
<1>3. QED
  BY <1>1, <1>2

-----------------------------------------------------------------------------
(* The node, the tables and the messages                                   *)

LEMMA NodeStays ==
  ASSUME TypeOK, SyncInv, UNCHANGED nodeVars
  PROVE  NodeTypeOK' /\ ChainValid' /\ tip' = tip
BY DEF TypeOK, SyncInv, NodeTypeOK, ChainValid, nodeVars

LEMMA BaseStays ==
  ASSUME TypeOK, SyncInv, UNCHANGED nodeVars, base' \in StartHeight - 1 .. base,
         \A h \in StartHeight .. base' : blocks'[h].hash = blocks[h].hash
  PROVE  BaseOnChain' /\ base' \in StartHeight - 1 .. MaxHeight
<1>1. /\ base' <= base /\ base' <= tip /\ base' \in StartHeight - 1 .. MaxHeight
      /\ tip' = tip /\ chain' = chain
  BY StateRanges, ConstantTypes DEF nodeVars
<1>2. \A h \in StartHeight .. base' : h \in StartHeight .. base
  BY <1>1, StateRanges, ConstantTypes
<1>3. QED
  BY <1>1, <1>2 DEF SyncInv, BaseOnChain

(* A step of the indexer alone                                             *)
LEMMA IndexerAlone ==
  ASSUME TypeOK, SyncInv, UNCHANGED <<nodeVars, storageVars, base>>,
         Loops', pc' # "sent", pc # "sent",
         inbox' \in Seq(MessageInRange), faults' \in 0 .. MaxFaults
  PROVE  TypeOK' /\ SyncInv'
<1>1. NodeTypeOK' /\ ChainValid'
  BY NodeStays
<1>2. BaseOnChain' /\ base' \in StartHeight - 1 .. MaxHeight
  BY BaseStays, StateRanges, ConstantTypes DEF storageVars
<1>3. StorageTypeOK' /\ OneUpdate'
  BY DEF TypeOK, StorageTypeOK, SyncInv, OneUpdate, storageVars
<1>4. inbox' \in Seq(Message)
  <2>1. MessageInRange \subseteq Message
    BY ConstantTypes DEF MessageInRange, Message, Heights
  <2>2. QED
    BY <2>1
<1>5. QED
  BY <1>1, <1>2, <1>3, <1>4
  DEF TypeOK, SyncInv, Loops, LoopTypes, MessagesInRange

-----------------------------------------------------------------------------
(* The steps                                                               *)

LEMMA InitKeeps == Init /\ StartsInWindow => TypeOK /\ SyncInv
<1> SUFFICES ASSUME Init, StartsInWindow PROVE TypeOK /\ SyncInv
  OBVIOUS
<1> DEFINE genesis == [h \in Heights |-> IF h = 0 THEN Genesis ELSE NoBlock]
<1>1. PICK new \in [0 + 1 .. FirstTip -> {b \in Block : b.fork = 0}] :
        /\ chain = [h \in Heights |-> IF h <= 0 THEN genesis[h]
                                      ELSE IF h <= FirstTip THEN new[h] ELSE NoBlock]
        /\ ValidAbove(chain, 0, FirstTip)
  BY DEF Init, NodeInit, Branches
<1>2. Genesis \in Block
  BY DEF Genesis, Block
<1>3. ASSUME NEW h \in Heights
      PROVE  /\ chain[h] \in Block \cup {NoBlock}
             /\ h <= FirstTip => chain[h] \in Block
  <2>1. CASE h = 0
    BY <1>1, <1>2, <2>1 DEF Heights
  <2>2. CASE h # 0 /\ h <= FirstTip
    <3>1. h \in 0 + 1 .. FirstTip /\ ~(h <= 0)
      BY <2>2, ConstantTypes DEF Heights
    <3>2. new[h] \in Block
      BY <1>1, <3>1
    <3>3. QED
      BY <1>1, <2>2, <3>1, <3>2
  <2>3. CASE ~(h <= FirstTip)
    <3>1. ~(h <= 0)
      BY <2>3, ConstantTypes DEF Heights
    <3>2. QED
      BY <1>1, <2>3, <3>1
  <2>4. QED
    BY <2>1, <2>2, <2>3
<1>4. NodeTypeOK
  <2>1. chain \in [Heights -> Block \cup {NoBlock}]
    BY <1>1, <1>3
  <2>2. QED
    BY <2>1 DEF Init, NodeInit, NodeTypeOK
<1>5. ChainValid
  <2>1. SUFFICES ASSUME NEW h \in 0 .. FirstTip
                 PROVE  /\ chain[h] \in Block
                        /\ Extends(chain[h], chain, 0, h - 1)
                        /\ NoInBlockSpend(chain[h])
    BY DEF Init, NodeInit, ChainValid
  <2>2. chain[h] \in Block
    BY <1>3, ConstantTypes DEF Heights
  <2>3. CASE h = 0
    <3>1. chain[0] = Genesis
      BY <1>1 DEF Heights
    <3>2. QED
      BY <2>2, <2>3, <3>1 DEF Genesis, Extends, NoInBlockSpend
  <2>4. CASE h # 0
    <3>1. h \in 0 + 1 .. FirstTip
      BY <2>4
    <3>2. QED
      BY <1>1, <2>2, <3>1 DEF ValidAbove
  <2>5. QED
    BY <2>3, <2>4
<1>6. StorageTypeOK
  <2>1. NoBlockRow \in BlockRow /\ NoUtxoRow \in UtxoRow
    BY DEF NoBlockRow, BlockRow, NoUtxoRow, UtxoRow
  <2>2. QED
    BY <2>1 DEF Init, StorageInit, StorageTypeOK, Jobs
<1>7. /\ LoopTypes /\ LoopsInRange
  BY ConstantTypes DEF Init, NodeInit, LoopTypes, LoopsInRange, Heights
<1>8. BaseOnChain /\ base \in StartHeight - 1 .. MaxHeight
  <2>1. StartHeight - 1 <= FirstTip
    BY ConstantTypes DEF StartsInWindow, Greater
  <2>2. QED
    BY <2>1, ConstantTypes DEF Init, NodeInit, BaseOnChain
<1>9. OneUpdate
  BY DEF Init, StorageInit, NoJob, OneUpdate
<1>10. inbox \in Seq(Message) /\ MessagesInRange /\ faults \in 0 .. MaxFaults
  <2>1. 0 \in 0 .. MaxFaults
    BY DEF SyncAssumption
  <2>2. QED
    BY <2>1 DEF Init, MessagesInRange
<1>11. QED
  BY <1>4, <1>5, <1>6, <1>7, <1>8, <1>9, <1>10 DEF TypeOK, SyncInv, LoopTypes

LEMMA InboxTypes ==
  ASSUME TypeOK, SyncInv
  PROVE  /\ inbox \in Seq(MessageInRange) /\ faults \in 0 .. MaxFaults
         /\ \A f \in StartHeight - 1 .. MaxHeight :
              Append(inbox, [kind |-> "reorg", height |-> f]) \in Seq(MessageInRange)
         /\ \A h \in Heights :
              Append(inbox, [kind |-> "finality", height |-> h]) \in Seq(MessageInRange)
         /\ \A i \in DOMAIN inbox : RemoveAt(inbox, i) \in Seq(MessageInRange)
<1>1. inbox \in Seq(MessageInRange) /\ faults \in 0 .. MaxFaults
  BY DEF TypeOK, SyncInv, MessagesInRange
<1>2. \A m \in MessageInRange : Append(inbox, m) \in Seq(MessageInRange)
  BY <1>1, AppendProperties
<1>3. /\ \A f \in StartHeight - 1 .. MaxHeight :
           [kind |-> "reorg", height |-> f] \in MessageInRange
      /\ \A h \in Heights : [kind |-> "finality", height |-> h] \in MessageInRange
  BY DEF MessageInRange
<1>4. QED
  BY <1>1, <1>2, <1>3, RemoveAtType

LEMMA FaultCounted ==
  ASSUME TypeOK, NEW kind, Fault(kind)
  PROVE  faults' \in 0 .. MaxFaults
BY DEF TypeOK, Fault, SyncAssumption

(* The loops of the indexer that do not wait for the storage service       *)
LEMMA IndexerKeeps ==
  ASSUME TypeOK, SyncInv, StartsInWindow,
         \/ Poll \/ BeginCheck \/ CheckHeight \/ FindForkPoint \/ SendFinality
         \/ RpcFails \/ IndexerRestarts
  PROVE  TypeOK' /\ SyncInv'
<1> USE InboxTypes, StateRanges, ConstantTypes
<1>1. CASE Poll
  <2>1. CASE tip <= last
    <3>1. /\ UNCHANGED <<nodeVars, storageVars, indexerVars, inbox, faults, base>>
          /\ pc = "idle"
      BY <1>1, <2>1 DEF Poll, indexerVars
    <3>2. Loops'
      BY <3>1 DEF TypeOK, SyncInv, Loops, LoopTypes, LoopsInRange, indexerVars, nodeVars,
                  BatchEnd
    <3>3. QED
      BY <3>1, <3>2, IndexerAlone DEF indexerVars
  <2>2. CASE ~(tip <= last)
    <3>1. /\ UNCHANGED <<nodeVars, storageVars, last, low, at, inbox, faults, base>>
          /\ pc = "idle" /\ pc' = "window" /\ seen' = tip
      BY <1>1, <2>2 DEF Poll, Goto
    <3>2. /\ last \in -1 .. MaxHeight /\ low \in -1 .. MaxHeight /\ at \in -1 .. MaxHeight
          /\ tip \in Heights /\ last < tip
      BY <2>2 DEF TypeOK, NodeTypeOK
    <3>3. Loops'
      BY <3>1, <3>2 DEF SyncInv, Loops, LoopTypes, LoopsInRange, nodeVars
    <3>4. QED
      BY <3>1, <3>3, IndexerAlone
  <2>3. QED
    BY <2>1, <2>2
<1>2. CASE BeginCheck
  <2> DEFINE start == Greater(tip - FinalityConfirmations + 1, 0)
  <2>0. /\ UNCHANGED <<nodeVars, storageVars, last, seen, inbox, faults, base>>
        /\ pc = "window" /\ tip' = tip /\ last < seen
    BY <1>2 DEF BeginCheck, nodeVars, SyncInv, LoopsInRange
  <2>1. CASE last < start
    BY <1>2, <2>0, <2>1, BeginBatchLoops, IndexerAlone DEF BeginCheck
  <2>2. CASE ~(last < start)
    <3>1. pc' = "check" /\ at' = start /\ low' = start
      BY <1>2, <2>2 DEF BeginCheck, Goto
    <3>2. /\ StartHeight <= start /\ start <= last /\ start \in -1 .. MaxHeight
          /\ start - 1 <= start /\ start <= start
      <4>1. start \in Nat /\ StartHeight <= start
        BY WindowIs
      <4>2. QED
        <5> HIDE DEF start
        <5> QED
          BY <2>2, <4>1
    <3>3. last \in -1 .. MaxHeight /\ seen \in Heights
      BY DEF TypeOK
    <3> HIDE DEF start
    <3>4. Loops'
      BY <2>0, <3>1, <3>2, <3>3 DEF SyncInv, Loops, LoopTypes, LoopsInRange
    <3>5. QED
      BY <2>0, <3>1, <3>4, IndexerAlone
  <2>3. QED
    BY <2>1, <2>2
<1>3. CASE CheckHeight
  <2>0. /\ UNCHANGED <<nodeVars, storageVars, last, seen, inbox, faults, base>>
        /\ pc = "check" /\ tip' = tip
        /\ last < seen /\ StartHeight <= low /\ low <= at /\ at <= last
        /\ last \in -1 .. MaxHeight /\ low \in -1 .. MaxHeight /\ seen \in Heights
    BY <1>3 DEF CheckHeight, nodeVars, SyncInv, LoopsInRange, TypeOK
  <2>1. CASE ~HashesAgree
    <3>1. at' = at - 1 /\ low' = low /\ pc' = "fork"
      BY <1>3, <2>1 DEF CheckHeight, Goto
    <3>2. low - 1 <= at - 1 /\ at - 1 < last /\ at - 1 \in -1 .. MaxHeight
      BY <2>0
    <3>3. Loops'
      BY <2>0, <3>1, <3>2 DEF SyncInv, Loops, LoopTypes, LoopsInRange
    <3>4. QED
      BY <2>0, <3>1, <3>3, IndexerAlone
  <2>2. CASE HashesAgree /\ at = last
    BY <1>3, <2>0, <2>2, BeginBatchLoops, IndexerAlone DEF CheckHeight
  <2>3. CASE HashesAgree /\ at # last
    <3>1. at' = at + 1 /\ low' = low /\ pc' = "check"
      BY <1>3, <2>0, <2>3 DEF CheckHeight
    <3>2. at + 1 <= last /\ low <= at + 1 /\ low - 1 <= at + 1
          /\ at + 1 \in -1 .. MaxHeight
      BY <2>0, <2>3
    <3>3. Loops'
      BY <2>0, <3>1, <3>2 DEF SyncInv, Loops, LoopTypes, LoopsInRange
    <3>4. QED
      BY <2>0, <3>1, <3>3, IndexerAlone
  <2>4. QED
    BY <2>1, <2>2, <2>3
<1>4. CASE FindForkPoint
  <2>0. /\ UNCHANGED <<nodeVars, storageVars, faults, base>>
        /\ pc = "fork" /\ tip' = tip
        /\ last < seen /\ StartHeight <= low /\ low - 1 <= at /\ at < last
        /\ last \in -1 .. MaxHeight /\ low \in -1 .. MaxHeight /\ seen \in Heights
    BY <1>4 DEF FindForkPoint, nodeVars, SyncInv, LoopsInRange, TypeOK
  <2>1. CASE at >= low /\ ~HashesAgree
    <3>1. at' = at - 1 /\ UNCHANGED <<pc, last, seen, low, inbox>>
      BY <1>4, <2>1 DEF FindForkPoint
    <3>2. low - 1 <= at - 1 /\ at - 1 < last /\ at - 1 \in -1 .. MaxHeight
      BY <2>0, <2>1
    <3>3. Loops'
      BY <2>0, <3>1, <3>2 DEF SyncInv, Loops, LoopTypes, LoopsInRange
    <3>4. QED
      BY <2>0, <3>1, <3>3, IndexerAlone
  <2>2. CASE ~(at >= low /\ ~HashesAgree)
    <3>1. /\ EndCycle /\ last' = at
          /\ inbox' = Append(inbox, [kind |-> "reorg", height |-> at])
      BY <1>4, <2>2 DEF FindForkPoint
    <3>2. at \in StartHeight - 1 .. MaxHeight
      BY <2>0
    <3>3. QED
      BY <2>0, <3>1, <3>2, EndCycleLoops, IndexerAlone
  <2>3. QED
    BY <2>1, <2>2
<1>5. CASE SendFinality
  <2>1. /\ UNCHANGED <<nodeVars, storageVars, last, faults, base>>
        /\ pc = "finality" /\ EndCycle /\ tip' = tip /\ seen \in Heights
        /\ inbox' = Append(inbox, [kind |-> "finality", height |-> seen])
        /\ last \in StartHeight - 1 .. MaxHeight
    BY <1>5 DEF SendFinality, nodeVars, TypeOK
  <2>2. QED
    BY <2>1, EndCycleLoops, IndexerAlone
<1>6. CASE RpcFails
  <2>0. /\ UNCHANGED <<nodeVars, storageVars, last, inbox, base>>
        /\ tip' = tip /\ faults' \in 0 .. MaxFaults
        /\ last \in StartHeight - 1 .. MaxHeight
    BY <1>6, FaultCounted DEF RpcFails, nodeVars
  <2>1. CASE pc \in {"window", "check", "fork"} /\ BeginBatch /\ UNCHANGED seen
    <3>1. last < seen
      BY <2>1 DEF SyncInv, LoopsInRange
    <3>2. QED
      BY <2>0, <2>1, <3>1, BeginBatchLoops, IndexerAlone
  <2>2. CASE pc = "send" /\ EndCycle
    BY <2>0, <2>2, EndCycleLoops, IndexerAlone
  <2>3. QED
    BY <1>6, <2>1, <2>2 DEF RpcFails
<1>7. CASE IndexerRestarts
  <2>1. /\ UNCHANGED <<nodeVars, storageVars, inbox, base>>
        /\ tip' = tip /\ pc # "sent" /\ EndCycle /\ last' = StartHeight - 1
        /\ faults' \in 0 .. MaxFaults /\ StartHeight - 1 \in StartHeight - 1 .. MaxHeight
    BY <1>7, FaultCounted DEF IndexerRestarts, nodeVars
  <2>2. QED
    BY <2>1, EndCycleLoops, IndexerAlone
<1>8. QED
  BY <1>1, <1>2, <1>3, <1>4, <1>5, <1>6, <1>7

-----------------------------------------------------------------------------
(* The node moves                                                          *)

LEMMA BranchIs ==
  ASSUME NEW old, NEW k \in Heights, NEW top \in Heights, NEW f,
         NEW log \in Branches(old, k, top, f), old \in [Heights -> Block \cup {NoBlock}]
  PROVE  /\ log \in [Heights -> Block \cup {NoBlock}]
         /\ ValidAbove(log, k, top)
         /\ \A h \in Heights : /\ h <= k => log[h] = old[h]
                               /\ k < h /\ h <= top => log[h] \in Block
<1>1. PICK new \in [k + 1 .. top -> {b \in Block : b.fork = f}] :
        /\ log = [h \in Heights |-> IF h <= k THEN old[h]
                                    ELSE IF h <= top THEN new[h] ELSE NoBlock]
        /\ ValidAbove(log, k, top)
  BY DEF Branches
<1>2. ASSUME NEW h \in Heights, k < h, h <= top
      PROVE  log[h] \in Block
  <2>1. h \in k + 1 .. top /\ ~(h <= k)
    BY <1>2 DEF Heights
  <2>2. log[h] = new[h]
    BY <1>1, <1>2, <2>1
  <2>3. QED
    BY <2>1, <2>2
<1>3. ASSUME NEW h \in Heights
      PROVE  /\ h <= k => log[h] = old[h]
             /\ ~(h <= k) /\ ~(h <= top) => log[h] = NoBlock
             /\ log[h] \in Block \cup {NoBlock}
  <2>1. /\ h <= k => log[h] = old[h]
        /\ ~(h <= k) /\ ~(h <= top) => log[h] = NoBlock
    BY <1>1
  <2>2. ~(h <= k) => k < h
    BY DEF Heights
  <2>3. QED
    BY <1>2, <2>1, <2>2
<1>4. log \in [Heights -> Block \cup {NoBlock}]
  BY <1>1, <1>3
<1>5. QED
  BY <1>1, <1>2, <1>3, <1>4

LEMMA ExtendsSame ==
  ASSUME NEW log1, NEW log2, NEW B \in Int, NEW b,
         \A h \in 0 .. B : log1[h] = log2[h],
         Extends(b, log1, 0, B)
  PROVE  Extends(b, log2, 0, B)
BY ExtendsPart

LEMMA ReorgsCounted ==
  ASSUME NEW r \in 0 .. MaxReorgs, NEW s \in {r, r + 1}, s <= MaxReorgs
  PROVE  s \in 0 .. MaxReorgs
BY DEF ReorgAssumption

(* What the node does to the chain when it keeps the blocks up to k        *)
LEMMA AdvanceIs ==
  ASSUME TypeOK, SyncInv, NEW k \in Heights, k <= tip, Advance(k)
  PROVE  /\ NodeTypeOK' /\ ChainValid'
         /\ tip' = tip + 1
         /\ \A h \in 0 .. k : chain'[h] = chain[h]
<1>0. /\ tip \in Int /\ 0 <= tip /\ tip + 1 <= MaxHeight /\ tip' = tip + 1
      /\ k \in Int /\ 0 <= k /\ k <= MaxHeight /\ tip + 1 \in Heights
  BY StateRanges, ConstantTypes DEF Advance, Heights
<1>1. /\ chain' \in [Heights -> Block \cup {NoBlock}]
      /\ ValidAbove(chain', k, tip + 1)
      /\ \A h \in Heights : /\ h <= k => chain'[h] = chain[h]
                            /\ k < h /\ h <= tip + 1 => chain'[h] \in Block
  <2>1. chain' \in Branches(chain, k, tip + 1, reorgs')
    BY DEF Advance
  <2>2. chain \in [Heights -> Block \cup {NoBlock}]
    BY DEF TypeOK, NodeTypeOK
  <2>3. QED
    BY <1>0, <2>1, <2>2, BranchIs
<1>2. \A h \in 0 .. k : h \in Heights /\ h <= k /\ h \in 0 .. tip
  BY <1>0, ConstantTypes DEF Heights
<1>3. \A h \in 0 .. k : chain'[h] = chain[h]
  BY <1>1, <1>2
<1>4. ASSUME NEW h \in 0 .. tip + 1
      PROVE  /\ chain'[h] \in Block
             /\ Extends(chain'[h], chain', 0, h - 1)
             /\ NoInBlockSpend(chain'[h])
  <2>0. h \in Heights /\ h - 1 \in Int
    BY <1>0, <1>4 DEF Heights
  <2>1. CASE h <= k
    <3>1. /\ h \in 0 .. k /\ h \in 0 .. tip /\ chain'[h] = chain[h]
          /\ \A i \in 0 .. h - 1 : i \in 0 .. k
      BY <1>0, <1>2, <1>3, <1>4, <2>1
    <3>2. \A i \in 0 .. h - 1 : chain[i] = chain'[i]
      BY <1>3, <3>1
    <3>3. /\ chain[h] \in Block /\ NoInBlockSpend(chain[h])
          /\ Extends(chain[h], chain, 0, h - 1)
      BY <3>1 DEF SyncInv, ChainValid
    <3>4. Extends(chain[h], chain', 0, h - 1)
      BY <2>0, <3>2, <3>3, ExtendsSame
    <3>5. QED
      BY <3>1, <3>3, <3>4
  <2>2. CASE k < h
    <3>1. h \in k + 1 .. tip + 1 /\ h <= tip + 1
      BY <1>0, <1>4, <2>2
    <3>2. QED
      BY <1>1, <2>0, <2>2, <3>1 DEF ValidAbove
  <2>3. QED
    BY <1>0, <1>4, <2>1, <2>2
<1>5. ChainValid'
  BY <1>0, <1>4 DEF ChainValid
<1>6. NodeTypeOK'
  <2>1. reorgs' \in 0 .. MaxReorgs
    BY ReorgsCounted DEF TypeOK, NodeTypeOK, Advance
  <2>2. QED
    BY <1>0, <1>1, <2>1 DEF NodeTypeOK
<1>7. QED
  BY <1>0, <1>3, <1>5, <1>6

(* The conjuncts of the two invariants, put together                       *)
LEMMA InvAssembles ==
  ASSUME NodeTypeOK', ChainValid', StorageTypeOK', OneUpdate', Loops',
         BaseOnChain', base' \in StartHeight - 1 .. MaxHeight,
         inbox' \in Seq(MessageInRange), faults' \in 0 .. MaxFaults
  PROVE  TypeOK' /\ SyncInv'
<1>1. MessageInRange \subseteq Message
  BY ConstantTypes DEF MessageInRange, Message, Heights
<1>2. inbox' \in Seq(Message)
  BY <1>1
<1>3. QED
  BY <1>2 DEF TypeOK, SyncInv, Loops, LoopTypes, MessagesInRange

LEMMA LoopsStay ==
  ASSUME TypeOK, SyncInv, UNCHANGED indexerVars, tip <= tip', tip' \in Int
  PROVE  Loops'
<1>1. /\ pc' = pc /\ last' = last /\ seen' = seen /\ low' = low /\ at' = at
      /\ BatchEnd' = BatchEnd
  BY DEF indexerVars, BatchEnd
<1>2. FirstTip <= tip' /\ seen <= tip'
  BY StateRanges, ConstantTypes
<1>3. QED
  BY <1>1, <1>2 DEF TypeOK, SyncInv, Loops, LoopTypes, LoopsInRange

LEMMA NodeKeeps ==
  ASSUME TypeOK, SyncInv, NEW k \in Heights, k <= tip, NodeAdvances(k)
  PROVE  TypeOK' /\ SyncInv'
<1>1. /\ Advance(k) /\ base' = Lesser(base, Greater(k, StartHeight - 1))
      /\ UNCHANGED <<storageVars, indexerVars, inbox, faults>>
  BY DEF NodeAdvances
<1>2. /\ NodeTypeOK' /\ ChainValid' /\ tip' = tip + 1
      /\ \A h \in 0 .. k : chain'[h] = chain[h]
  BY <1>1, AdvanceIs
<1>3. tip <= tip' /\ tip' \in Int
  BY <1>2, StateRanges
<1>4. Loops'
  BY <1>1, <1>3, LoopsStay
<1>5. /\ base' \in StartHeight - 1 .. base
      /\ \A h \in StartHeight .. base' : h \in StartHeight .. base /\ h \in 0 .. k
  BY <1>1, StateRanges, ConstantTypes DEF Lesser, Greater, Heights
<1>6. BaseOnChain' /\ base' \in StartHeight - 1 .. MaxHeight
  <2>1. base' <= tip' /\ base' \in StartHeight - 1 .. MaxHeight
    BY <1>3, <1>5, StateRanges, ConstantTypes
  <2>2. blocks' = blocks
    BY <1>1 DEF storageVars
  <2>3. QED
    BY <1>2, <1>5, <2>1, <2>2 DEF SyncInv, BaseOnChain
<1>7. StorageTypeOK' /\ OneUpdate'
  BY <1>1 DEF TypeOK, StorageTypeOK, SyncInv, OneUpdate, storageVars, indexerVars
<1>8. inbox' \in Seq(MessageInRange) /\ faults' \in 0 .. MaxFaults
  BY <1>1, InboxTypes
<1>9. QED
  BY <1>2, <1>4, <1>6, <1>7, <1>8, InvAssembles

-----------------------------------------------------------------------------
(* A block on its way                                                      *)

(* The block sent is the one the node has at a height of the batch         *)
LEMMA SentBlock ==
  ASSUME TypeOK, SyncInv, pc \in {"send", "sent"}
  PROVE  /\ at \in Heights /\ at <= tip /\ chain[at] \in Block
         /\ StartHeight <= at /\ last < at
<1>1. last < at /\ at <= BatchEnd /\ BatchEnd <= seen /\ BatchEnd \in Int
  BY StateRanges, BatchEndIs, ConstantTypes DEF SyncInv, LoopsInRange, BatchEnd, Lesser
<1>2. at \in 0 .. tip /\ StartHeight <= at /\ at \in Heights
  BY <1>1, StateRanges, ConstantTypes DEF Heights
<1>3. QED
  BY <1>1, <1>2 DEF SyncInv, ChainValid

LEMMA SendKeeps ==
  ASSUME TypeOK, SyncInv, NEW stored \in BOOLEAN, SendBlock(stored),
         faults' \in 0 .. MaxFaults
  PROVE  TypeOK' /\ SyncInv'
<1>1. /\ pc = "send" /\ pc' = "sent"
      /\ blocks' = IF stored THEN StoreBlock(blocks, at, chain[at]) ELSE blocks
      /\ job' = [kind |-> "block", height |-> at, block |-> chain[at]]
      /\ UNCHANGED <<nodeVars, utxo, last, seen, low, at, inbox, base>>
  BY DEF SendBlock, ReceiveBlock, Goto
<1>2. at \in Heights /\ at <= tip /\ chain[at] \in Block
  BY <1>1, SentBlock
<1>3. StorageTypeOK' /\ OneUpdate'
  <2>1. blocks' \in [Heights -> BlockRow]
    BY <1>1, <1>2, StoreBlockType DEF TypeOK, StorageTypeOK
  <2>2. job' \in Jobs
    BY <1>1, <1>2 DEF Jobs
  <2>3. QED
    BY <1>1, <2>1, <2>2 DEF TypeOK, StorageTypeOK, OneUpdate
<1>4. NodeTypeOK' /\ ChainValid' /\ tip' = tip
  BY <1>1, NodeStays
<1>5. BaseOnChain' /\ base' \in StartHeight - 1 .. MaxHeight
  <2>1. ASSUME NEW h \in StartHeight .. base'
        PROVE  blocks'[h].hash = blocks[h].hash
    <3>1. h \in StartHeight .. base /\ h \in Heights
      BY <1>1, StateRanges, ConstantTypes DEF Heights
    <3>2. blocks[h].hash = chain[h]
      BY <3>1 DEF SyncInv, BaseOnChain
    <3>3. QED
      BY <1>1, <1>2, <3>1, <3>2 DEF StoreBlock, TypeOK, StorageTypeOK
  <2>2. base' \in StartHeight - 1 .. base
    BY <1>1, StateRanges, ConstantTypes
  <2>3. QED
    BY <1>1, <2>1, <2>2, BaseStays
<1>6. Loops'
  <2>1. BatchEnd' = BatchEnd
    BY <1>1 DEF BatchEnd
  <2>2. QED
    BY <1>1, <1>4, <2>1 DEF TypeOK, SyncInv, Loops, LoopTypes, LoopsInRange
<1>7. inbox' \in Seq(MessageInRange)
  BY <1>1, InboxTypes
<1>8. QED
  BY <1>3, <1>4, <1>5, <1>6, <1>7, InvAssembles

(* While a handler owes its second step, the indexer waits for it          *)
LEMMA RunningBlock ==
  ASSUME TypeOK, SyncInv, job.kind = "block"
  PROVE  /\ pc = "sent" /\ job.height = at
         /\ at \in Heights /\ at <= tip /\ StartHeight <= at /\ last < at
         /\ job.block \in Block
<1>1. pc = "sent" /\ job.height = at
  BY DEF SyncInv, OneUpdate
<1>2. job.block \in Block
  BY DEF TypeOK, StorageTypeOK, Jobs, NoJob
<1>3. QED
  BY <1>1, <1>2, SentBlock

(* A stored hash that is the hash of a block is the one in the row         *)
LEMMA StoredBlock ==
  ASSUME NEW bs, NEW h, NEW b \in Block, StoredHash(bs, h) = b
  PROVE  h \in Heights /\ bs[h].main = 1 /\ bs[h].hash = b
<1>1. NoBlock \notin Block
  BY DEF NoBlock, Block, NULL
<1>2. QED
  BY <1>1 DEF StoredHash

(* The tables keep their types, and no block is left half processed        *)
LEMMA ProcessKeepsTables ==
  ASSUME TypeOK, SyncInv, Process
  PROVE  StorageTypeOK' /\ BaseOnChain' /\ base' \in StartHeight - 1 .. MaxHeight
         /\ job' = NoJob
<1>1. /\ job.kind = "block" /\ job' = NoJob
      /\ utxo' = ProcessBlockUtxos(utxo, job.height, job.block)
      /\ base' = BaseAfter(job.height, job.block)
      /\ UNCHANGED <<nodeVars, inbox, blocks>>
  BY DEF Process, ProcessBlock
<1>2. /\ pc = "sent" /\ job.height = at /\ job.block \in Block
      /\ at \in Heights /\ at <= tip
  BY <1>1, RunningBlock
<1>3. StorageTypeOK'
  BY <1>1, <1>2, ProcessType DEF TypeOK, StorageTypeOK, Jobs
<1>4. CASE base' = base
  <2>1. base' \in StartHeight - 1 .. base
    BY <1>4, StateRanges, ConstantTypes
  <2>2. QED
    BY <1>1, <1>3, <2>1, BaseStays
<1>5. CASE base' # base
  <2>1. /\ base' = at /\ at = base + 1
        /\ StoredHash(blocks, at) = job.block /\ chain[at] = job.block
    BY <1>1, <1>2, <1>5 DEF BaseAfter
  <2>2. blocks[at].hash = chain[at]
    BY <1>2, <2>1, StoredBlock
  <2>3. ASSUME NEW h \in StartHeight .. at
        PROVE  blocks[h].hash = chain[h]
    <3>1. h \in StartHeight .. base \/ h = at
      BY <2>1, StateRanges, ConstantTypes
    <3>2. QED
      BY <2>2, <3>1 DEF SyncInv, BaseOnChain
  <2>4. at \in StartHeight - 1 .. MaxHeight
    BY <2>1, StateRanges, ConstantTypes
  <2>5. QED
    BY <1>1, <1>2, <1>3, <2>1, <2>3, <2>4 DEF BaseOnChain, nodeVars
<1>6. QED
  BY <1>1, <1>3, <1>4, <1>5

LEMMA StorageProcessesKeeps ==
  ASSUME TypeOK, SyncInv, StorageProcesses \/ AckLost
  PROVE  TypeOK' /\ SyncInv'
<1>1. /\ Process /\ job.kind = "block" /\ UNCHANGED <<nodeVars, inbox>>
      /\ (Acknowledge /\ faults' = faults) \/ (Fault("ack") /\ Abort)
  BY DEF StorageProcesses, AckLost, Process, ProcessBlock
<1>2. pc = "sent" /\ last \in StartHeight - 1 .. MaxHeight
  BY <1>1, RunningBlock, StateRanges
<1>3. NodeTypeOK' /\ ChainValid' /\ tip' = tip
  BY <1>1, NodeStays
<1>4. Loops' /\ pc' \in {"send", "finality", "idle"} /\ faults' \in 0 .. MaxFaults
  BY <1>1, <1>2, <1>3, AcknowledgeLoops, EndCycleLoops, FaultCounted, InboxTypes DEF Abort
<1>5. /\ StorageTypeOK' /\ job' = NoJob
      /\ BaseOnChain' /\ base' \in StartHeight - 1 .. MaxHeight
  BY <1>1, ProcessKeepsTables
<1>6. OneUpdate'
  BY <1>4, <1>5 DEF OneUpdate, NoJob
<1>7. inbox' \in Seq(MessageInRange)
  BY <1>1, InboxTypes
<1>8. QED
  BY <1>3, <1>4, <1>5, <1>6, <1>7, InvAssembles

LEMMA ProcessFailsKeeps ==
  ASSUME TypeOK, SyncInv, ProcessFails
  PROVE  TypeOK' /\ SyncInv'
<1>1. /\ Fault("database") /\ job.kind = "block" /\ job' = NoJob /\ Acknowledge
      /\ base' = Lesser(base, job.height - 1)
      /\ UNCHANGED <<nodeVars, inbox, blocks, utxo>>
  BY DEF ProcessFails, DropJob
<1>2. /\ pc = "sent" /\ job.height = at
      /\ at \in Heights /\ at <= tip /\ StartHeight <= at
  BY <1>1, RunningBlock
<1>3. NodeTypeOK' /\ ChainValid' /\ tip' = tip
  BY <1>1, NodeStays
<1>4. Loops' /\ pc' \in {"send", "finality", "idle"} /\ faults' \in 0 .. MaxFaults
  BY <1>1, <1>2, <1>3, AcknowledgeLoops, FaultCounted
<1>5. base' \in StartHeight - 1 .. base
  BY <1>1, <1>2, StateRanges, ConstantTypes DEF Lesser
<1>6. BaseOnChain' /\ base' \in StartHeight - 1 .. MaxHeight
  BY <1>1, <1>5, BaseStays
<1>7. StorageTypeOK' /\ OneUpdate'
  BY <1>1, <1>4 DEF TypeOK, StorageTypeOK, Jobs, OneUpdate, NoJob
<1>8. inbox' \in Seq(MessageInRange)
  BY <1>1, InboxTypes
<1>9. QED
  BY <1>3, <1>4, <1>6, <1>7, <1>8, InvAssembles

-----------------------------------------------------------------------------
(* Messages that nobody waits for, and handlers that stop half way         *)

(* A rollback stays above START_HEIGHT when the fork it is told of does    *)
LEMMA RevertAbove ==
  ASSUME NEW bs, NEW f \in StartHeight - 1 .. MaxHeight
  PROVE  /\ SafeRevertHeight(bs, f) \in Heights
         /\ f <= SafeRevertHeight(bs, f)
BY LatestBlockType, SafeRevertType DEF SafeRevertHeight, RevertHeight, Greater, Heights

LEMMA HashesKept ==
  ASSUME NEW bs \in [Heights -> BlockRow], NEW k \in Heights, NEW f
  PROVE  /\ MarkBlocksAfterHeightNotMain(bs, f)[k].hash = bs[k].hash
         /\ UpdateFinalityStatus(bs, f)[k].hash = bs[k].hash
BY DEF MarkBlocksAfterHeightNotMain, UpdateFinalityStatus, MarkBlocksAsFinal, BlockRow

LEMMA BaseHeights ==
  ASSUME TypeOK, SyncInv, NEW b \in StartHeight - 1 .. base
  PROVE  \A h \in StartHeight .. b : h \in Heights
BY StateRanges, ConstantTypes DEF Heights

(* A step of the storage service alone                                     *)
LEMMA StorageAlone ==
  ASSUME TypeOK, SyncInv, UNCHANGED <<nodeVars, indexerVars>>,
         StorageTypeOK', pc # "sent", job'.kind # "block",
         base' \in StartHeight - 1 .. base,
         \A h \in Heights : blocks'[h].hash = blocks[h].hash,
         inbox' \in Seq(MessageInRange), faults' \in 0 .. MaxFaults
  PROVE  TypeOK' /\ SyncInv'
<1>1. NodeTypeOK' /\ ChainValid' /\ tip' = tip /\ tip \in Int
  BY NodeStays, StateRanges
<1>2. Loops'
  BY <1>1, LoopsStay
<1>3. \A h \in StartHeight .. base' : blocks'[h].hash = blocks[h].hash
  BY BaseHeights
<1>4. BaseOnChain' /\ base' \in StartHeight - 1 .. MaxHeight
  BY <1>3, BaseStays
<1>5. OneUpdate'
  BY DEF OneUpdate, indexerVars
<1>6. QED
  BY <1>1, <1>2, <1>4, <1>5, InvAssembles

LEMMA MessageTypes ==
  ASSUME TypeOK, SyncInv, NEW i \in DOMAIN inbox
  PROVE  /\ inbox[i] \in MessageInRange
         /\ inbox[i].kind = "finality" => inbox[i].height \in Heights
         /\ inbox[i].kind # "finality" =>
              inbox[i].height \in StartHeight - 1 .. MaxHeight
         /\ RemoveAt(inbox, i) \in Seq(MessageInRange)
<1>1. inbox[i] \in MessageInRange /\ RemoveAt(inbox, i) \in Seq(MessageInRange)
  BY InboxTypes
<1>2. QED
  BY <1>1 DEF MessageInRange

LEMMA HandleKeeps ==
  ASSUME TypeOK, SyncInv, NEW i \in DOMAIN inbox, HandleMessage(i)
  PROVE  TypeOK' /\ SyncInv'
<1>1. /\ job = NoJob /\ UNCHANGED <<nodeVars, indexerVars, faults, utxo>>
      /\ inbox' = RemoveAt(inbox, i)
  BY DEF HandleMessage, ReceiveFinality, ReceiveReorg
<1>2. /\ pc # "sent" /\ blocks \in [Heights -> BlockRow] /\ utxo \in [Outputs -> UtxoRow]
      /\ faults' \in 0 .. MaxFaults /\ inbox' \in Seq(MessageInRange)
      /\ base \in StartHeight - 1 .. base
  BY <1>1, InboxTypes, MessageTypes, StateRanges, ConstantTypes
  DEF SyncInv, OneUpdate, NoJob, TypeOK, StorageTypeOK
<1>3. CASE inbox[i].kind = "finality"
  <2> DEFINE h == inbox[i].height
  <2>1. /\ blocks' = UpdateFinalityStatus(blocks, h)
        /\ job' = job /\ base' = base /\ h \in Heights
    BY <1>3, MessageTypes DEF HandleMessage, ReceiveFinality
  <2>2. StorageTypeOK' /\ job'.kind # "block"
    BY <1>1, <1>2, <2>1, FinalityType DEF StorageTypeOK, Jobs, NoJob
  <2>3. \A k \in Heights : blocks'[k].hash = blocks[k].hash
    BY <1>2, <2>1, HashesKept
  <2>4. QED
    BY <1>1, <1>2, <2>1, <2>2, <2>3, StorageAlone
<1>4. CASE inbox[i].kind # "finality"
  <2> DEFINE f == inbox[i].height
  <2> DEFINE safe == SafeRevertHeight(blocks, f)
  <2>1. /\ f \in StartHeight - 1 .. MaxHeight
        /\ ReceiveReorg(f)
        /\ base' = IF LatestBlock(blocks) = 0 THEN base ELSE Lesser(base, safe)
    BY <1>4, MessageTypes DEF HandleMessage
  <2>2. safe \in Heights /\ f <= safe
    BY <2>1, RevertAbove
  <2>3. CASE LatestBlock(blocks) = 0
    <3>1. blocks' = blocks /\ job' = job /\ base' = base
      BY <2>1, <2>3 DEF ReceiveReorg
    <3>2. StorageTypeOK' /\ job'.kind # "block"
      BY <1>1, <1>2, <3>1 DEF StorageTypeOK, Jobs, NoJob
    <3>3. QED
      BY <1>1, <1>2, <3>1, <3>2, StorageAlone
  <2>4. CASE LatestBlock(blocks) # 0
    <3>1. /\ blocks' = MarkBlocksAfterHeightNotMain(blocks, safe)
          /\ job' = [kind |-> "revert", height |-> safe, block |-> NoBlock]
          /\ base' = Lesser(base, safe)
      BY <2>1, <2>4 DEF ReceiveReorg
    <3>2. StorageTypeOK' /\ job'.kind # "block"
      BY <1>1, <1>2, <2>2, <3>1, MarkNotMainType DEF StorageTypeOK, Jobs
    <3>3. base' \in StartHeight - 1 .. base
      <4> HIDE DEF safe
      <4> QED
        BY <2>1, <2>2, <3>1, StateRanges, ConstantTypes DEF Lesser, Heights
    <3>4. \A k \in Heights : blocks'[k].hash = blocks[k].hash
      BY <1>2, <3>1, HashesKept
    <3>5. QED
      BY <1>1, <1>2, <3>2, <3>3, <3>4, StorageAlone
  <2>5. QED
    BY <2>3, <2>4
<1>5. QED
  BY <1>3, <1>4

LEMMA StorageKeeps ==
  ASSUME TypeOK, SyncInv,
         \/ StorageReverts \/ StorageStops \/ RevertFails
         \/ \E i \in DOMAIN inbox : MessageFails(i)
  PROVE  TypeOK' /\ SyncInv'
<1> USE InboxTypes
<1>0. /\ base \in StartHeight - 1 .. base
      /\ blocks \in [Heights -> BlockRow] /\ utxo \in [Outputs -> UtxoRow]
      /\ pc = "sent" <=> job.kind = "block"
      /\ NoJob \in Jobs /\ NoJob.kind = "none"
  BY StateRanges, ConstantTypes DEF TypeOK, StorageTypeOK, SyncInv, OneUpdate, Jobs, NoJob
<1>1. CASE StorageReverts
  <2>1. /\ job.kind = "revert" /\ job' = NoJob
        /\ utxo' = RevertUtxosAfterHeight(utxo, job.height)
        /\ UNCHANGED <<nodeVars, indexerVars, inbox, faults, base, blocks>>
    BY <1>1 DEF StorageReverts, RevertUtxos
  <2>2. job.height \in Int
    BY <2>1 DEF TypeOK, StorageTypeOK, Jobs, NoJob, Heights
  <2>3. StorageTypeOK'
    BY <1>0, <2>1, <2>2, RevertType DEF StorageTypeOK
  <2>4. QED
    BY <1>0, <2>1, <2>3, StorageAlone
<1>2. CASE RevertFails
  <2>1. /\ job.kind = "revert" /\ job' = NoJob /\ Fault("database")
        /\ UNCHANGED <<nodeVars, indexerVars, inbox, base, blocks, utxo>>
    BY <1>2 DEF RevertFails, DropJob
  <2>2. StorageTypeOK' /\ faults' \in 0 .. MaxFaults
    BY <1>0, <2>1, FaultCounted DEF StorageTypeOK
  <2>3. QED
    BY <1>0, <2>1, <2>2, StorageAlone
<1>3. ASSUME NEW i \in DOMAIN inbox, MessageFails(i)
      PROVE  TypeOK' /\ SyncInv'
  <2>1. /\ job = NoJob /\ Fault("database") /\ inbox' = RemoveAt(inbox, i)
        /\ UNCHANGED <<nodeVars, storageVars, indexerVars, base>>
    BY <1>3 DEF MessageFails
  <2>2. /\ StorageTypeOK' /\ faults' \in 0 .. MaxFaults
        /\ inbox' \in Seq(MessageInRange) /\ blocks' = blocks /\ job' = job
    BY <1>0, <2>1, FaultCounted, MessageTypes DEF StorageTypeOK, storageVars
  <2>3. QED
    BY <1>0, <2>1, <2>2, StorageAlone
<1>4. CASE StorageStops
  <2>1. /\ Fault("stop") /\ job' = NoJob /\ inbox' = << >>
        /\ UNCHANGED <<nodeVars, blocks, utxo, base>>
        /\ IF pc = "sent" THEN Abort ELSE UNCHANGED indexerVars
    BY <1>4 DEF StorageStops
  <2>2. NodeTypeOK' /\ ChainValid' /\ tip' = tip /\ tip \in Int
    BY <2>1, NodeStays, StateRanges
  <2>3. Loops' /\ pc' # "sent"
    <3>1. last \in StartHeight - 1 .. MaxHeight
      BY StateRanges, ConstantTypes
    <3>2. CASE pc = "sent"
      BY <2>1, <2>2, <3>1, <3>2, EndCycleLoops DEF Abort
    <3>3. CASE pc # "sent"
      BY <2>1, <2>2, <3>3, LoopsStay DEF indexerVars
    <3>4. QED
      BY <3>2, <3>3
  <2>4. BaseOnChain' /\ base' \in StartHeight - 1 .. MaxHeight
    BY <1>0, <2>1, BaseStays
  <2>5. StorageTypeOK' /\ OneUpdate'
    BY <1>0, <2>1, <2>3 DEF StorageTypeOK, OneUpdate
  <2>6. inbox' \in Seq(MessageInRange) /\ faults' \in 0 .. MaxFaults
    BY <2>1, FaultCounted
  <2>7. QED
    BY <2>2, <2>3, <2>4, <2>5, <2>6, InvAssembles
<1>5. QED
  BY <1>1, <1>2, <1>3, <1>4

(* A step that changes nothing                                             *)
LEMMA StutterKeeps ==
  ASSUME TypeOK, SyncInv, UNCHANGED vars
  PROVE  TypeOK' /\ SyncInv'
<1>1. UNCHANGED <<nodeVars, storageVars, indexerVars, inbox, faults, base>>
  BY DEF vars
<1>2. NodeTypeOK' /\ ChainValid' /\ tip' = tip /\ tip \in Int
  BY <1>1, NodeStays, StateRanges
<1>3. Loops'
  BY <1>1, <1>2, LoopsStay
<1>4. BaseOnChain' /\ base' \in StartHeight - 1 .. MaxHeight
  BY <1>1, BaseStays, StateRanges, ConstantTypes DEF storageVars
<1>5. StorageTypeOK' /\ OneUpdate'
  BY <1>1 DEF TypeOK, StorageTypeOK, SyncInv, OneUpdate, storageVars, indexerVars
<1>6. QED
  BY <1>1, <1>2, <1>3, <1>4, <1>5, InboxTypes, InvAssembles

LEMMA StepKeeps ==
  StartsInWindow /\ TypeOK /\ SyncInv /\ [Next]_vars => TypeOK' /\ SyncInv'
<1> SUFFICES ASSUME StartsInWindow, TypeOK, SyncInv, [Next]_vars
             PROVE  TypeOK' /\ SyncInv'
  OBVIOUS
<1>1. CASE NodeStep
  BY <1>1, NodeKeeps DEF NodeStep
<1>2. CASE IndexerStep
  <2>1. CASE SendBlock(TRUE) /\ UNCHANGED faults
    BY <2>1, SendKeeps, InboxTypes
  <2>2. QED
    BY <1>2, <2>1, IndexerKeeps DEF IndexerStep
<1>3. CASE StorageStep
  BY <1>3, StorageProcessesKeeps, HandleKeeps, StorageKeeps DEF StorageStep, HandleMessages
<1>4. CASE FaultStep
  <2>1. CASE StoreFails
    BY <2>1, SendKeeps, FaultCounted DEF StoreFails
  <2>2. QED
    BY <1>4, <2>1, IndexerKeeps, StorageProcessesKeeps, ProcessFailsKeeps, StorageKeeps
    DEF FaultStep
<1>5. CASE UNCHANGED vars
  BY <1>5, StutterKeeps
<1>6. QED
  BY <1>1, <1>2, <1>3, <1>4, <1>5 DEF Next

(* Every variable of the node, the indexer and the storage service keeps   *)
(* its range: no loop of the indexer runs below START_HEIGHT or past the   *)
(* tip it has seen (process_new_blocks, check_for_reorg, find_fork_point). *)
THEOREM TypeCorrect == StartsInWindow => (Spec => []TypeOK)
<1> SUFFICES ASSUME StartsInWindow PROVE Spec => []TypeOK
  OBVIOUS
<1>1. Init => TypeOK /\ SyncInv
  BY InitKeeps
<1>2. TypeOK /\ SyncInv /\ [Next]_vars => TypeOK' /\ SyncInv'
  BY StepKeeps
<1>3. QED
  BY <1>1, <1>2, PTL DEF Spec

(* The node's chain stays valid, the base of the tables is a part of it,   *)
(* and a block is in process exactly while the indexer waits for its       *)
(* acknowledgement.                                                        *)
THEOREM SyncInvHolds == StartsInWindow => (Spec => []SyncInv)
<1> SUFFICES ASSUME StartsInWindow PROVE Spec => []SyncInv
  OBVIOUS
<1>1. Init => TypeOK /\ SyncInv
  BY InitKeeps
<1>2. TypeOK /\ SyncInv /\ [Next]_vars => TypeOK' /\ SyncInv'
  BY StepKeeps
<1>3. QED
  BY <1>1, <1>2, PTL DEF Spec

-----------------------------------------------------------------------------
(* The indexer keeps to the protocol                                       *)

(* Follower's operators are the ones of this module                        *)
LEMMA SameStore ==
  /\ FollowerView!Block = Block /\ FollowerView!Heights = Heights
  /\ FollowerView!NoBlock = NoBlock /\ FollowerView!NoJob = NoJob
  /\ FollowerView!Log = Hashes(blocks)
  /\ \A b, log, lo, hi : FollowerView!Extends(b, log, lo, hi) = Extends(b, log, lo, hi)
  /\ \A b : FollowerView!NoInBlockSpend(b) = NoInBlockSpend(b)
  /\ \A a, b : FollowerView!Lesser(a, b) = Lesser(a, b)
  /\ FollowerView!LatestBlock(blocks) = LatestBlock(blocks)
  /\ \A f : FollowerView!SafeRevertHeight(blocks, f) = SafeRevertHeight(blocks, f)
  /\ \A h : FollowerView!StoredHash(blocks, h) = StoredHash(blocks, h)
  /\ FollowerView!NothingAbove = (RevertUtxosAfterHeight(utxo, base) = utxo)
<1>1. /\ FollowerView!Block = Block /\ FollowerView!Heights = Heights
      /\ FollowerView!NoBlock = NoBlock
  BY DEF FollowerView!Block, Block, FollowerView!Heights, Heights,
         FollowerView!NoBlock, NoBlock, FollowerView!NULL, NULL
<1>2. FollowerView!NoJob = NoJob
  BY <1>1 DEF FollowerView!NoJob, NoJob
<1>3. FollowerView!Log = Hashes(blocks)
  BY <1>1 DEF FollowerView!Log, FollowerView!Hashes, Hashes
<1>4. \A b, log, lo, hi : FollowerView!Extends(b, log, lo, hi) = Extends(b, log, lo, hi)
  BY DEF FollowerView!Extends, Extends, FollowerView!Touched, Touched,
         FollowerView!CreatedBy, CreatedBy, FollowerView!SpentBy, SpentBy
<1>5. \A b : FollowerView!NoInBlockSpend(b) = NoInBlockSpend(b)
  BY DEF FollowerView!NoInBlockSpend, NoInBlockSpend
<1>6. \A a, b : FollowerView!Lesser(a, b) = Lesser(a, b)
  BY DEF FollowerView!Lesser, Lesser
<1>7. FollowerView!LatestBlock(blocks) = LatestBlock(blocks)
  BY <1>1 DEF FollowerView!LatestBlock, LatestBlock,
              FollowerView!MainHeights, MainHeights
<1>8. \A f : FollowerView!SafeRevertHeight(blocks, f) = SafeRevertHeight(blocks, f)
  BY <1>7 DEF FollowerView!SafeRevertHeight, SafeRevertHeight,
              FollowerView!RevertHeight, RevertHeight, FollowerView!Greater, Greater
<1>9. \A h : FollowerView!StoredHash(blocks, h) = StoredHash(blocks, h)
  BY <1>1 DEF FollowerView!StoredHash, StoredHash
<1>10. FollowerView!NothingAbove = (RevertUtxosAfterHeight(utxo, base) = utxo)
  BY DEF FollowerView!NothingAbove, FollowerView!RevertUtxosAfterHeight,
         RevertUtxosAfterHeight, FollowerView!RevertRow, RevertRow,
         FollowerView!NoUtxoRow, NoUtxoRow, FollowerView!NULL, NULL
<1>11. QED
  BY <1>1, <1>2, <1>3, <1>4, <1>5, <1>6, <1>7, <1>8, <1>9, <1>10

(* So are its handlers                                                     *)
LEMMA SameHandlers ==
  /\ FollowerView!StorageInit = StorageInit
  /\ \A h, b, stored : FollowerView!ReceiveBlock(h, b, stored) = ReceiveBlock(h, b, stored)
  /\ FollowerView!ProcessBlock = ProcessBlock
  /\ FollowerView!DropJob = DropJob
  /\ \A f : FollowerView!ReceiveReorg(f) = ReceiveReorg(f)
  /\ FollowerView!RevertUtxos = RevertUtxos
  /\ \A h : FollowerView!ReceiveFinality(h) = ReceiveFinality(h)
<1> USE SameStore
<1>1. FollowerView!StorageInit = StorageInit
  BY DEF FollowerView!StorageInit, StorageInit, FollowerView!NoBlockRow, NoBlockRow,
         FollowerView!NoUtxoRow, NoUtxoRow, FollowerView!NULL, NULL
<1>2. \A h, b, stored : FollowerView!ReceiveBlock(h, b, stored) = ReceiveBlock(h, b, stored)
  BY DEF FollowerView!ReceiveBlock, ReceiveBlock, FollowerView!StoreBlock, StoreBlock
<1>3. FollowerView!ProcessBlock = ProcessBlock
  BY DEF FollowerView!ProcessBlock, ProcessBlock,
         FollowerView!ProcessBlockUtxos, ProcessBlockUtxos,
         FollowerView!BulkUpsert, BulkUpsert, FollowerView!Upsert, Upsert,
         FollowerView!NULL, NULL
<1>4. FollowerView!DropJob = DropJob
  BY DEF FollowerView!DropJob, DropJob
<1>5. \A f : FollowerView!ReceiveReorg(f) = ReceiveReorg(f)
  BY DEF FollowerView!ReceiveReorg, ReceiveReorg,
         FollowerView!MarkBlocksAfterHeightNotMain, MarkBlocksAfterHeightNotMain
<1>6. FollowerView!RevertUtxos = RevertUtxos
  BY DEF FollowerView!RevertUtxos, RevertUtxos,
         FollowerView!RevertUtxosAfterHeight, RevertUtxosAfterHeight,
         FollowerView!RevertRow, RevertRow, FollowerView!NoUtxoRow, NoUtxoRow,
         FollowerView!NULL, NULL
<1>7. \A h : FollowerView!ReceiveFinality(h) = ReceiveFinality(h)
  BY DEF FollowerView!ReceiveFinality, ReceiveFinality,
         FollowerView!UpdateFinalityStatus, UpdateFinalityStatus,
         FollowerView!MarkBlocksAsFinal, MarkBlocksAsFinal,
         FollowerView!HasBlockRow, HasBlockRow
<1>8. QED
  BY <1>1, <1>2, <1>3, <1>4, <1>5, <1>6, <1>7

Follows == [FollowerView!Next]_(FollowerView!vars)

(* The height to send, where the indexer is now and after a step           *)
LEMMA NextHeightIs ==
  /\ TypeOK /\ SyncInv => NextHeight \in StartHeight .. MaxHeight + 1
  /\ pc \in {"send", "sent"} => NextHeight = at
  /\ pc \notin {"send", "sent"} => NextHeight = last + 1
  /\ \A h \in Int : /\ pc' \in {"send", "sent"} /\ at' = h => NextHeight' = h
                    /\ pc' \notin {"send", "sent"} /\ last' = h => NextHeight' = h + 1
<1>1. ASSUME TypeOK, SyncInv PROVE NextHeight \in StartHeight .. MaxHeight + 1
  <2>1. CASE pc \in {"send", "sent"}
    BY <1>1, <2>1, SentBlock, ConstantTypes DEF NextHeight, Heights
  <2>2. CASE pc \notin {"send", "sent"}
    BY <1>1, <2>2, StateRanges, ConstantTypes DEF NextHeight
  <2>3. QED
    BY <2>1, <2>2
<1>2. QED
  BY <1>1 DEF NextHeight

(* The indexer stays where it is, or goes back                             *)
LEMMA GoesBack ==
  ASSUME TypeOK, SyncInv, UNCHANGED <<storageVars, base>>,
         NextHeight' \in StartHeight .. NextHeight
  PROVE  Follows
<1>1. NextHeight \in StartHeight .. MaxHeight + 1
  BY NextHeightIs
<1>2. CASE NextHeight' = NextHeight
  BY <1>2 DEF Follows, FollowerView!vars, FollowerView!storageVars, storageVars
<1>3. CASE NextHeight' # NextHeight
  <2>1. NextHeight' \in StartHeight .. MaxHeight /\ NextHeight' < NextHeight
    BY <1>1, <1>3, ConstantTypes
  <2>2. FollowerView!Rewind(NextHeight')
    BY <2>1 DEF FollowerView!Rewind, FollowerView!storageVars, storageVars
  <2>3. QED
    BY <2>1, <2>2 DEF Follows, FollowerView!Next
<1>4. QED
  BY <1>2, <1>3

LEMMA IndexerFollows ==
  ASSUME TypeOK, SyncInv,
         \/ Poll \/ BeginCheck \/ CheckHeight \/ FindForkPoint \/ SendFinality
         \/ RpcFails \/ IndexerRestarts
  PROVE  Follows
<1>0. /\ StartHeight <= last + 1 /\ last \in Int /\ at \in Int /\ last + 1 \in Int
      /\ NextHeight \in StartHeight .. MaxHeight + 1
      /\ StartHeight \in Int /\ StartHeight - 1 \in Int
      /\ UNCHANGED <<storageVars, base>>
  <2>1. UNCHANGED <<storageVars, base>>
    BY DEF Poll, BeginCheck, CheckHeight, FindForkPoint, SendFinality, RpcFails,
           IndexerRestarts
  <2>2. NextHeight \in StartHeight .. MaxHeight + 1
    BY NextHeightIs
  <2>3. /\ StartHeight <= last + 1 /\ last \in Int /\ at \in Int /\ last + 1 \in Int
        /\ StartHeight \in Int /\ StartHeight - 1 \in Int
    BY StateRanges, ConstantTypes
  <2>4. QED
    BY <2>1, <2>2, <2>3
<1>1. SUFFICES NextHeight' \in StartHeight .. NextHeight
  BY <1>0, GoesBack
<1>2. CASE pc \notin {"send", "sent"} /\ pc' \notin {"send", "sent"} /\ last' = last
  <2>1. NextHeight = last + 1 /\ NextHeight' = last + 1
    BY <1>0, <1>2, NextHeightIs
  <2>2. QED
    BY <1>0, <2>1
<1>3. CASE pc \notin {"send", "sent"} /\ BeginBatch /\ last' = last
  <2>1. NextHeight = last + 1 /\ NextHeight' = last + 1
    BY <1>0, <1>3, NextHeightIs DEF BeginBatch, Goto
  <2>2. QED
    BY <1>0, <2>1
<1>4. CASE Poll
  BY <1>2, <1>4 DEF Poll, Goto
<1>5. CASE BeginCheck
  BY <1>2, <1>3, <1>5 DEF BeginCheck, Goto
<1>6. CASE CheckHeight
  BY <1>2, <1>3, <1>6 DEF CheckHeight, Goto
<1>7. CASE FindForkPoint
  <2>1. CASE at >= low /\ ~HashesAgree
    BY <1>2, <1>7, <2>1 DEF FindForkPoint
  <2>2. CASE ~(at >= low /\ ~HashesAgree)
    <3>1. pc = "fork" /\ pc' = "idle" /\ last' = at
      BY <1>7, <2>2 DEF FindForkPoint, EndCycle, Goto
    <3>2. NextHeight = last + 1 /\ NextHeight' = at + 1
      BY <1>0, <3>1, NextHeightIs
    <3>3. StartHeight <= at + 1 /\ at + 1 <= last + 1
      BY <1>0, <3>1, StateRanges, ConstantTypes DEF SyncInv, LoopsInRange
    <3>4. QED
      BY <1>0, <3>2, <3>3
  <2>3. QED
    BY <2>1, <2>2
<1>8. CASE SendFinality
  BY <1>2, <1>8 DEF SendFinality, EndCycle, Goto
<1>9. CASE RpcFails
  <2>1. CASE pc \in {"window", "check", "fork"} /\ BeginBatch
    BY <1>3, <1>9, <2>1 DEF RpcFails
  <2>2. CASE pc = "send" /\ EndCycle
    <3>1. pc' = "idle" /\ last' = last
      BY <1>9, <2>2 DEF RpcFails, EndCycle, Goto
    <3>2. NextHeight = at /\ NextHeight' = last + 1 /\ last < at
      BY <1>0, <2>2, <3>1, NextHeightIs, SentBlock
    <3>3. QED
      BY <1>0, <3>2
  <2>3. QED
    BY <1>9, <2>1, <2>2 DEF RpcFails
<1>10. CASE IndexerRestarts
  <2>1. pc' = "idle" /\ last' = StartHeight - 1
    BY <1>10 DEF IndexerRestarts, EndCycle, Goto
  <2>2. NextHeight' = StartHeight - 1 + 1
    BY <1>0, <2>1, NextHeightIs
  <2>3. QED
    BY <1>0, <2>2
<1>11. QED
  BY <1>4, <1>5, <1>6, <1>7, <1>8, <1>9, <1>10

(* The node leaves a branch that the base is on, or does not touch it      *)
LEMMA NodeFollows ==
  ASSUME TypeOK, SyncInv, NEW k \in Heights, NodeAdvances(k)
  PROVE  Follows
<1>1. /\ base' = Lesser(base, Greater(k, StartHeight - 1))
      /\ UNCHANGED <<storageVars, indexerVars>>
  BY DEF NodeAdvances
<1>2. NextHeight' = NextHeight /\ UNCHANGED FollowerView!storageVars
  BY <1>1 DEF NextHeight, indexerVars, FollowerView!storageVars, storageVars
<1>3. CASE base' = base
  BY <1>2, <1>3 DEF Follows, FollowerView!vars
<1>4. CASE base' # base
  <2>1. base' \in StartHeight - 1 .. MaxHeight /\ base' < base
    BY <1>1, <1>4, StateRanges, ConstantTypes DEF Lesser, Greater, Heights
  <2>2. FollowerView!Fork(base')
    BY <1>2, <2>1 DEF FollowerView!Fork
  <2>3. QED
    BY <2>1, <2>2 DEF Follows, FollowerView!Next
<1>5. QED
  BY <1>3, <1>4

LEMMA ExtendsFromStart ==
  ASSUME NEW log1, NEW log2, NEW B \in Int, NEW C \in Int, C <= B, NEW b,
         \A h \in StartHeight .. C : log1[h] = log2[h],
         Extends(b, log1, 0, B)
  PROVE  Extends(b, log2, StartHeight, C)
<1>1. 0 \in Int /\ StartHeight \in Int /\ 0 <= StartHeight
  BY ConstantTypes
<1>2. QED
  BY <1>1, ExtendsPart

(* A block of the base is sent again as it was, and a later one fits it    *)
LEMMA SendFollows ==
  ASSUME TypeOK, SyncInv, NEW stored \in BOOLEAN, SendBlock(stored)
  PROVE  Follows
<1>1. /\ pc = "send" /\ pc' = "sent" /\ at' = at /\ base' = base
      /\ ReceiveBlock(at, chain[at], stored)
  BY DEF SendBlock, Goto
<1>2. /\ at \in Heights /\ at <= tip /\ chain[at] \in Block /\ StartHeight <= at
      /\ at \in Int /\ base \in Int
  BY <1>1, SentBlock, StateRanges
<1>3. NextHeight = at /\ NextHeight' = at
  BY <1>1, <1>2, NextHeightIs
<1>4. \A h \in StartHeight .. base : h \in Heights /\ Hashes(blocks)[h] = chain[h]
  <2>1. \A h \in StartHeight .. base : h \in Heights
    BY StateRanges, ConstantTypes DEF Heights
  <2>2. QED
    BY <2>1 DEF SyncInv, BaseOnChain, Hashes
<1>5. Extends(chain[at], chain, 0, at - 1) /\ NoInBlockSpend(chain[at])
  <2>1. at \in 0 .. tip
    BY <1>2, StateRanges, ConstantTypes
  <2>2. QED
    BY <2>1 DEF SyncInv, ChainValid
<1>6. IF at <= base THEN chain[at] = Hashes(blocks)[at]
                    ELSE Extends(chain[at], Hashes(blocks), StartHeight, base)
  <2>1. CASE at <= base
    <3>1. at \in StartHeight .. base
      BY <1>2, <2>1, StateRanges, ConstantTypes
    <3>2. QED
      BY <1>4, <2>1, <3>1
  <2>2. CASE ~(at <= base)
    <3>1. at - 1 \in Int /\ base <= at - 1
      BY <1>2, <2>2
    <3>2. Extends(chain[at], Hashes(blocks), StartHeight, base)
      BY <1>2, <1>4, <1>5, <3>1, ExtendsFromStart
    <3>3. QED
      BY <2>2, <3>2
  <2>3. QED
    BY <2>1, <2>2
<1>7. FollowerView!Deliver(chain[at], stored)
  BY <1>1, <1>2, <1>3, <1>5, <1>6, SameStore, SameHandlers DEF FollowerView!Deliver
<1>8. QED
  BY <1>2, <1>7, SameStore DEF Follows, FollowerView!Next

(* The next height after an acknowledgement, and after none                *)
LEMMA AcknowledgedHeight ==
  ASSUME TypeOK, SyncInv, job.kind = "block"
  PROVE  /\ NextHeight = job.height
         /\ Acknowledge => FollowerView!Acknowledged(TRUE)
         /\ Abort => FollowerView!Acknowledged(FALSE)
<1>1. /\ pc = "sent" /\ job.height = at /\ at \in Int /\ last \in Int
      /\ StartHeight <= last + 1 /\ last < at /\ StartHeight \in Int
      /\ NextHeight = at /\ at + 1 \in Int
  BY RunningBlock, StateRanges, NextHeightIs, ConstantTypes DEF Heights
<1>2. ASSUME Acknowledge PROVE FollowerView!Acknowledged(TRUE)
  <2>1. CASE at < BatchEnd
    <3>1. pc' = "send" /\ at' = at + 1
      BY <1>2, <2>1 DEF Acknowledge, Goto
    <3>2. NextHeight' = at + 1
      BY <1>1, <3>1, NextHeightIs
    <3>3. QED
      BY <1>1, <3>2 DEF FollowerView!Acknowledged
  <2>2. CASE ~(at < BatchEnd)
    <3>1. pc' \in {"finality", "idle"} /\ last' = at
      BY <1>2, <2>2 DEF Acknowledge, EndCycle, Goto
    <3>2. NextHeight' = at + 1
      BY <1>1, <3>1, NextHeightIs
    <3>3. QED
      BY <1>1, <3>2 DEF FollowerView!Acknowledged
  <2>3. QED
    BY <2>1, <2>2
<1>3. ASSUME Abort PROVE FollowerView!Acknowledged(FALSE)
  <2>1. pc' = "idle" /\ last' = last
    BY <1>3 DEF Abort, EndCycle, Goto
  <2>2. NextHeight' = last + 1
    BY <1>1, <2>1, NextHeightIs
  <2>3. QED
    BY <1>1, <2>2 DEF FollowerView!Acknowledged
<1>4. QED
  BY <1>1, <1>2, <1>3

LEMMA ProcessFollows ==
  ASSUME TypeOK, SyncInv, StorageProcesses \/ AckLost
  PROVE  Follows
<1>1. /\ ProcessBlock /\ job.kind = "block"
      /\ base' = BaseAfter(job.height, job.block)
      /\ Acknowledge \/ Abort
  BY DEF StorageProcesses, AckLost, Process, ProcessBlock
<1> DEFINE current == chain[job.height] = job.block
<1>2. base' = IF current THEN FollowerView!BaseAfter(job.height, job.block) ELSE base
  BY <1>1, SameStore DEF BaseAfter, FollowerView!BaseAfter
<1>3. current \in BOOLEAN
  OBVIOUS
<1>4. PICK acked \in BOOLEAN : FollowerView!Acknowledged(acked)
  BY <1>1, AcknowledgedHeight
<1>5. FollowerView!Process(acked, current)
  BY <1>1, <1>2, <1>4, SameHandlers DEF FollowerView!Process
<1>6. QED
  BY <1>3, <1>5 DEF Follows, FollowerView!Next

LEMMA ProcessFailsFollows ==
  ASSUME TypeOK, SyncInv, ProcessFails
  PROVE  Follows
<1>1. /\ DropJob /\ job.kind = "block" /\ Acknowledge
      /\ base' = Lesser(base, job.height - 1)
  BY DEF ProcessFails
<1>2. FollowerView!FailProcess(TRUE)
  BY <1>1, AcknowledgedHeight, SameStore, SameHandlers DEF FollowerView!FailProcess
<1>3. QED
  BY <1>2 DEF Follows, FollowerView!Next

(* A step of the storage service that does not move the indexer            *)
LEMMA IndexerStays ==
  ASSUME UNCHANGED indexerVars
  PROVE  NextHeight' = NextHeight
BY DEF indexerVars, NextHeight

LEMMA HandleFollows ==
  ASSUME TypeOK, SyncInv, NEW i \in DOMAIN inbox, HandleMessage(i)
  PROVE  Follows
<1>1. NextHeight' = NextHeight
  BY IndexerStays DEF HandleMessage
<1>2. CASE inbox[i].kind = "finality"
  <2>1. /\ ReceiveFinality(inbox[i].height) /\ base' = base
        /\ inbox[i].height \in Heights
    BY <1>2, MessageTypes DEF HandleMessage
  <2>2. FollowerView!Finality(inbox[i].height)
    BY <1>1, <2>1, SameHandlers DEF FollowerView!Finality
  <2>3. QED
    BY <2>1, <2>2, SameStore DEF Follows, FollowerView!Next
<1>3. CASE inbox[i].kind # "finality"
  <2>1. /\ ReceiveReorg(inbox[i].height)
        /\ base' = IF LatestBlock(blocks) = 0 THEN base
                   ELSE Lesser(base, SafeRevertHeight(blocks, inbox[i].height))
        /\ inbox[i].height \in StartHeight - 1 .. MaxHeight
    BY <1>3, MessageTypes DEF HandleMessage
  <2>2. FollowerView!Reorg(inbox[i].height)
    BY <1>1, <2>1, SameStore, SameHandlers DEF FollowerView!Reorg
  <2>3. QED
    BY <2>1, <2>2 DEF Follows, FollowerView!Next
<1>4. QED
  BY <1>2, <1>3

LEMMA StorageFollows ==
  ASSUME TypeOK, SyncInv,
         \/ StorageReverts \/ StorageStops \/ RevertFails
         \/ \E i \in DOMAIN inbox : MessageFails(i)
  PROVE  Follows
<1>1. CASE StorageReverts
  <2>1. RevertUtxos /\ base' = base /\ NextHeight' = NextHeight
    BY <1>1, IndexerStays DEF StorageReverts
  <2>2. FollowerView!FinishReorg
    BY <2>1, SameHandlers DEF FollowerView!FinishReorg
  <2>3. QED
    BY <2>2 DEF Follows, FollowerView!Next
<1>2. CASE RevertFails
  <2>1. job.kind = "revert" /\ DropJob /\ base' = base /\ NextHeight' = NextHeight
    BY <1>2, IndexerStays DEF RevertFails
  <2>2. FollowerView!FailReorg
    BY <2>1, SameHandlers DEF FollowerView!FailReorg
  <2>3. QED
    BY <2>2 DEF Follows, FollowerView!Next
<1>3. ASSUME NEW i \in DOMAIN inbox, MessageFails(i)
      PROVE  Follows
  <2>1. UNCHANGED <<storageVars, base>> /\ NextHeight' = NextHeight
    BY <1>3, IndexerStays DEF MessageFails
  <2>2. QED
    BY <2>1 DEF Follows, FollowerView!vars, FollowerView!storageVars, storageVars
<1>4. CASE StorageStops
  <2>1. /\ job' = NoJob /\ UNCHANGED <<blocks, utxo, base>>
        /\ IF pc = "sent" THEN Abort ELSE UNCHANGED indexerVars
    BY <1>4 DEF StorageStops
  <2>2. CASE job.kind = "block"
    <3>1. DropJob /\ Abort
      BY <2>1, <2>2, RunningBlock DEF DropJob, NoJob
    <3>2. FollowerView!FailProcess(FALSE)
      BY <2>1, <2>2, <3>1, AcknowledgedHeight, SameHandlers DEF FollowerView!FailProcess
    <3>3. QED
      BY <3>2 DEF Follows, FollowerView!Next
  <2>3. CASE job.kind # "block"
    <3>1. NextHeight' = NextHeight
      BY <2>1, <2>3, IndexerStays DEF SyncInv, OneUpdate
    <3>2. CASE job = NoJob
      BY <2>1, <3>1, <3>2 DEF Follows, FollowerView!vars, FollowerView!storageVars
    <3>3. CASE job # NoJob
      <4>1. job.kind = "revert"
        BY <2>3, <3>3 DEF TypeOK, StorageTypeOK, Jobs
      <4>2. FollowerView!FailReorg
        BY <2>1, <3>1, <3>3, <4>1, SameHandlers DEF FollowerView!FailReorg, DropJob
      <4>3. QED
        BY <4>2 DEF Follows, FollowerView!Next
    <3>4. QED
      BY <3>2, <3>3
  <2>4. QED
    BY <2>2, <2>3
<1>5. QED
  BY <1>1, <1>2, <1>3, <1>4

LEMMA StepFollows ==
  TypeOK /\ SyncInv /\ [Next]_vars => [FollowerView!Next]_(FollowerView!vars)
<1> SUFFICES ASSUME TypeOK, SyncInv, [Next]_vars PROVE Follows
  BY DEF Follows
<1>1. CASE NodeStep
  BY <1>1, NodeFollows DEF NodeStep
<1>2. CASE IndexerStep
  <2>1. CASE SendBlock(TRUE) /\ UNCHANGED faults
    BY <2>1, SendFollows
  <2>2. QED
    BY <1>2, <2>1, IndexerFollows DEF IndexerStep
<1>3. CASE StorageStep
  BY <1>3, ProcessFollows, HandleFollows, StorageFollows DEF StorageStep, HandleMessages
<1>4. CASE FaultStep
  <2>1. CASE StoreFails
    BY <2>1, SendFollows DEF StoreFails
  <2>2. QED
    BY <1>4, <2>1, IndexerFollows, ProcessFollows, ProcessFailsFollows, StorageFollows
    DEF FaultStep
<1>5. CASE UNCHANGED vars
  BY <1>5 DEF Follows, vars, NextHeight, indexerVars, storageVars,
              FollowerView!vars, FollowerView!storageVars
<1>6. QED
  BY <1>1, <1>2, <1>3, <1>4, <1>5 DEF Next

LEMMA InitFollows == Init => FollowerView!Init
<1> SUFFICES ASSUME Init PROVE FollowerView!Init
  OBVIOUS
<1>1. StorageInit /\ pc = "idle" /\ last = StartHeight - 1 /\ base = StartHeight - 1
  BY DEF Init
<1>2. NextHeight = StartHeight
  BY <1>1, ConstantTypes DEF NextHeight
<1>3. QED
  BY <1>1, <1>2, SameHandlers DEF FollowerView!Init

(* Polling, batches, the check for a reorganisation, lost calls, restarts  *)
(* and a node that reorganises at any moment: to the tables they are no    *)
(* more than Follower allows (process_new_blocks, indexer.rs;              *)
(* handle_socket_connection, socket.rs).                                   *)
THEOREM ProtocolFollowed == StartsInWindow => (Spec => FollowsProtocol)
<1> SUFFICES ASSUME StartsInWindow PROVE Spec => FollowsProtocol
  OBVIOUS
<1>1. Init => TypeOK /\ SyncInv /\ FollowerView!Init
  BY InitKeeps, InitFollows
<1>2. TypeOK /\ SyncInv /\ [Next]_vars => TypeOK' /\ SyncInv'
  BY StepKeeps
<1>3. TypeOK /\ SyncInv /\ [Next]_vars => [FollowerView!Next]_(FollowerView!vars)
  BY StepFollows
<1>4. QED
  BY <1>1, <1>2, <1>3, PTL DEF Spec, FollowsProtocol, FollowerView!Spec

-----------------------------------------------------------------------------
(* What follows from FollowerProofs                                        *)

FP == INSTANCE FollowerProofs WITH cursor <- NextHeight, InBlockSpends <- FALSE

(* FP and FollowerView are two names for the same definitions              *)
LEMMA SameNext == FP!Next = FollowerView!Next
BY DEF
  FP!NULL, FollowerView!NULL, FP!NoBlock, FollowerView!NoBlock, FP!Block,
  FollowerView!Block, FP!Heights, FollowerView!Heights, FP!NoJob,
  FollowerView!NoJob, FP!Touched, FollowerView!Touched, FP!CreatedBy,
  FollowerView!CreatedBy, FP!SpentBy, FollowerView!SpentBy, FP!Extends,
  FollowerView!Extends, FP!NoInBlockSpend, FollowerView!NoInBlockSpend,
  FP!Lesser, FollowerView!Lesser, FP!Greater, FollowerView!Greater,
  FP!MainHeights, FollowerView!MainHeights, FP!LatestBlock,
  FollowerView!LatestBlock, FP!RevertHeight, FollowerView!RevertHeight,
  FP!SafeRevertHeight, FollowerView!SafeRevertHeight, FP!StoredHash,
  FollowerView!StoredHash, FP!Hashes, FollowerView!Hashes, FP!Log,
  FollowerView!Log, FP!NoUtxoRow, FollowerView!NoUtxoRow, FP!RevertRow,
  FollowerView!RevertRow, FP!RevertUtxosAfterHeight,
  FollowerView!RevertUtxosAfterHeight, FP!NothingAbove,
  FollowerView!NothingAbove, FP!BaseAfter, FollowerView!BaseAfter, FP!Upsert,
  FollowerView!Upsert, FP!BulkUpsert, FollowerView!BulkUpsert,
  FP!ProcessBlockUtxos, FollowerView!ProcessBlockUtxos, FP!StoreBlock,
  FollowerView!StoreBlock, FP!MarkBlocksAfterHeightNotMain,
  FollowerView!MarkBlocksAfterHeightNotMain, FP!HasBlockRow,
  FollowerView!HasBlockRow, FP!MarkBlocksAsFinal,
  FollowerView!MarkBlocksAsFinal, FP!UpdateFinalityStatus,
  FollowerView!UpdateFinalityStatus, FP!ReceiveBlock,
  FollowerView!ReceiveBlock, FP!ProcessBlock, FollowerView!ProcessBlock,
  FP!DropJob, FollowerView!DropJob, FP!ReceiveReorg, FollowerView!ReceiveReorg,
  FP!RevertUtxos, FollowerView!RevertUtxos, FP!ReceiveFinality,
  FollowerView!ReceiveFinality, FP!Acknowledged, FollowerView!Acknowledged,
  FP!storageVars, FollowerView!storageVars, FP!Deliver, FollowerView!Deliver,
  FP!Process, FollowerView!Process, FP!FailProcess, FollowerView!FailProcess,
  FP!Reorg, FollowerView!Reorg, FP!FinishReorg, FollowerView!FinishReorg,
  FP!FailReorg, FollowerView!FailReorg, FP!Finality, FollowerView!Finality,
  FP!Rewind, FollowerView!Rewind, FP!Fork, FollowerView!Fork, FP!Next,
  FollowerView!Next

LEMMA SameSpec == FollowsProtocol <=> FP!Spec
<1>1. FP!Init <=> FollowerView!Init
  BY DEF
    FP!Init, FollowerView!Init, FP!StorageInit, FollowerView!StorageInit,
    FP!NoBlockRow, FollowerView!NoBlockRow, FP!NoUtxoRow,
    FollowerView!NoUtxoRow, FP!NULL, FollowerView!NULL, FP!NoBlock,
    FollowerView!NoBlock, FP!NoJob, FollowerView!NoJob, FP!Heights,
    FollowerView!Heights
<1>2. [FP!Next]_(FP!vars) <=> [FollowerView!Next]_(FollowerView!vars)
  BY SameNext DEF
    FP!vars, FollowerView!vars, FP!storageVars, FollowerView!storageVars
<1>3. QED
  BY <1>1, <1>2, PTL DEF FollowsProtocol, FollowerView!Spec, FP!Spec

(* While the indexer polls, checks, batches, loses calls and starts again, *)
(* and the node reorganises, every answer up to the last block delivered   *)
(* in this pass is the one the stored blocks give                          *)
(* (get_spendable_utxos_at_height).                                        *)
THEOREM SystemAnswersAreExact == StartsInWindow => (Spec => []FP!AnswersExact)
BY ProtocolFollowed, SameSpec, FP!AnswersAreExact

(* And the stored blocks are the node's, so the answer is the one the      *)
(* node's chain gives (get_block_hash, get_block_data, send_block_update). *)
THEOREM AnswersAreTheChains == StartsInWindow => (Spec => []AnswersFollowChain)
<1> SUFFICES ASSUME StartsInWindow PROVE Spec => []AnswersFollowChain
  OBVIOUS
<1>1. TypeOK /\ SyncInv /\ FP!AnswersExact => AnswersFollowChain
  <2> SUFFICES ASSUME TypeOK, SyncInv, FP!AnswersExact,
                      NEW h \in StartHeight .. Lesser(base, NextHeight - 1)
               PROVE  Spendable(utxo, h) = RefSpendable(chain, StartHeight, h)
    BY DEF AnswersFollowChain
  <2>1. h \in Int /\ h \in StartHeight .. base
    BY NextHeightIs, StateRanges, ConstantTypes DEF Lesser
  <2>2. \A i \in StartHeight .. h : i \in StartHeight .. base /\ i \in Heights
    BY <2>1, StateRanges, ConstantTypes DEF Heights
  <2>3. \A i \in StartHeight .. h : Hashes(blocks)[i] = chain[i]
    BY <2>2 DEF SyncInv, BaseOnChain, Hashes
  <2>4. RefSpendable(Hashes(blocks), StartHeight, h) = RefSpendable(chain, StartHeight, h)
    BY <2>1, <2>3, EffectsAgree DEF RefSpendable
  <2>5. Spendable(utxo, h) = RefSpendable(Hashes(blocks), StartHeight, h)
    <3>1. FP!CaughtUp = Lesser(base, NextHeight - 1)
      BY DEF FP!CaughtUp, FP!Lesser, Lesser
    <3>2. FP!Log = Hashes(blocks)
      BY DEF FP!Log, FP!Hashes, Hashes, FP!Heights, Heights
    <3>3. FP!Spendable(utxo, h) = Spendable(utxo, h)
      BY DEF FP!Spendable, Spendable, FP!NULL, NULL
    <3>4. FP!RefSpendable(Hashes(blocks), StartHeight, h)
            = RefSpendable(Hashes(blocks), StartHeight, h)
      BY DEF FP!RefSpendable, RefSpendable, FP!CreatedBy, CreatedBy, FP!SpentBy, SpentBy
    <3>5. QED
      BY <3>1, <3>2, <3>3, <3>4 DEF FP!AnswersExact
  <2>6. QED
    BY <2>4, <2>5
<1>2. QED
  BY <1>1, TypeCorrect, SyncInvHolds, SystemAnswersAreExact, PTL

(* No message of the indexer takes a block that is FINALITY_CONFIRMATIONS  *)
(* or more below the latest one off the main chain (revert_to_height).     *)
THEOREM SystemRollbackIsBounded == StartsInWindow => (Spec => FP!RollbackBounded)
BY ProtocolFollowed, SameSpec, FP!RollbackIsBounded

(* Whatever fails, to those who query it the system is the ledger: answers *)
(* are appended and truncated, never changed.                              *)
THEOREM SystemImplementsLedger == StartsInWindow => (Spec => FP!ImplementsLedger)
BY ProtocolFollowed, SameSpec, FP!LedgerImplemented

-----------------------------------------------------------------------------
(* Nothing below START_HEIGHT                                              *)

(* The hash column of a height changes only when a block is sent for it    *)
LEMMA HashesChangeBySending ==
  ASSUME TypeOK, SyncInv, [Next]_vars, NEW h \in Heights
  PROVE  \/ HasBlockRow(blocks, h)' = HasBlockRow(blocks, h)
         \/ pc = "send" /\ h = at
<1> USE DEF HasBlockRow
<1>1. CASE blocks' = blocks
  BY <1>1
<1>2. ASSUME NEW stored \in BOOLEAN, SendBlock(stored)
      PROVE  pc = "send" /\ (h = at \/ blocks'[h].hash = blocks[h].hash)
  BY <1>2 DEF SendBlock, ReceiveBlock, StoreBlock, TypeOK, StorageTypeOK
<1>3. ASSUME NEW i \in DOMAIN inbox, HandleMessage(i)
      PROVE  blocks'[h].hash = blocks[h].hash
  BY SMTT(20), <1>3, HashesKept DEF HandleMessage, ReceiveFinality, ReceiveReorg, TypeOK,
                                        StorageTypeOK
<1>4. CASE NodeStep
  BY <1>1, <1>4 DEF NodeStep, NodeAdvances, storageVars
<1>5. CASE IndexerStep
  BY <1>1, <1>2, <1>5
  DEF IndexerStep, Poll, BeginCheck, CheckHeight, FindForkPoint, SendFinality, storageVars
<1>6. CASE StorageStep
  BY <1>1, <1>3, <1>6
  DEF StorageStep, StorageProcesses, Process, ProcessBlock, HandleMessages,
      StorageReverts, RevertUtxos
<1>7. CASE FaultStep
  BY <1>1, <1>2, <1>7
  DEF FaultStep, RpcFails, AckLost, Process, ProcessBlock, StorageStops, StoreFails,
      ProcessFails, DropJob, MessageFails, RevertFails, IndexerRestarts, storageVars
<1>8. QED
  BY <1>1, <1>4, <1>5, <1>6, <1>7 DEF Next, vars, storageVars

(* When the first check looks at no block below START_HEIGHT, nothing      *)
(* below START_HEIGHT is ever stored (README.md:110, check_for_reorg).     *)
THEOREM StartIsRespected == StartsInWindow => (Spec => []NothingBelowStart)
<1> SUFFICES ASSUME StartsInWindow PROVE Spec => []NothingBelowStart
  OBVIOUS
<1>1. Init => NothingBelowStart
  BY DEF Init, StorageInit, NothingBelowStart, HasBlockRow, NoBlockRow
<1>2. TypeOK /\ SyncInv /\ NothingBelowStart /\ [Next]_vars => NothingBelowStart'
  BY HashesChangeBySending, SentBlock DEF NothingBelowStart
<1>3. QED
  BY <1>1, <1>2, TypeCorrect, SyncInvHolds, PTL DEF Spec
=============================================================================
