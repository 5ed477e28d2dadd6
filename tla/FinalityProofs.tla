---------------------------- MODULE FinalityProofs ----------------------------
(***************************************************************************)
(* Theorems about finality and about the evidence the indexer goes by, for *)
(* every chain, every START_HEIGHT in the window, every size of a batch    *)
(* and every number of confirmations, reorganisations and faults.          *)
(***************************************************************************)
EXTENDS SyncProofs, FiniteSetTheorems

(* What the theorems take for granted: a message without acknowledgement   *)
(* is handled within a poll interval, the node does not bury a stale block *)
(* below the window that is checked (sync_outrun), and no fault meets a    *)
(* reorganisation but the loss of acknowledgements.                        *)
Paced == Prompt /\ ~OutrunsWindow /\ (Together => Faults \subseteq {"ack"})

(* Nothing has been lost but acknowledgements                              *)
Tidy == faults = 0 \/ Faults \subseteq {"ack"}

-----------------------------------------------------------------------------
(* The invariant about finality                                            *)

OnMain(h) == blocks[h].main = 1

Final(h) == OnMain(h) /\ blocks[h].final = 1

(* The block stored for a height is not the node's                         *)
Outdated(h) == OnMain(h) /\ blocks[h].hash # chain[h]

Items(s) == {s[i] : i \in DOMAIN s}

Waiting == Items(inbox)

(* The messages without acknowledgement end a cycle, and the next one does *)
(* not begin before they are handled                                       *)
OneMessage ==
  /\ inbox # << >> => pc = "idle" /\ Len(inbox) = 1
  /\ job.kind = "revert" => pc = "idle" /\ inbox = << >>

(* Outdated blocks come from reorganisations and are in the window         *)
OutdatedInWindow ==
  /\ Together \/ faults = 0 \/ reorgs = 0
  /\ \A h \in Heights : OnMain(h) => h <= tip
  /\ \A h \in Heights : Outdated(h) => /\ reorgs # 0 /\ 0 < h
                                       /\ h >= tip - FinalityConfirmations + 1

FinalBuried ==
  \A h \in Heights : blocks[h].final = 1 => h <= tip - FinalityConfirmations + 1

(* At a tip of t, no block that would be marked final is outdated          *)
Settled(t) == \A h \in Heights : Outdated(h) => h > t - FinalityConfirmations + 1

(* The highest block that was sent in this pass                            *)
Reached == IF pc = "sent" THEN at ELSE NextHeight - 1

(* The rest of the batch                                                   *)
ToSend(h) == Reached < h /\ h <= BatchEnd

(* At a tip of t, what would be marked final and is outdated will be       *)
(* replaced before the end of the batch                                    *)
SettledByBatch(t) ==
  \A h \in Heights : Outdated(h) => h > t - FinalityConfirmations + 1 \/ ToSend(h)

(* What a batch or a message of finality has been preceded by              *)
FinalityDue ==
  /\ pc \in {"send", "sent"} => SettledByBatch(seen)
  /\ pc = "finality" => Settled(seen)
  /\ \A m \in Waiting : m.kind = "finality" => m.height <= tip /\ Settled(m.height)

(* What the check and the search for the fork have found out               *)
WindowChecked ==
  pc \in {"check", "fork"} =>
    /\ seen - FinalityConfirmations + 1 <= low
    /\ low = 0 \/ low <= tip - FinalityConfirmations + 1
    /\ \A h \in Heights : blocks[h].final = 1 => h <= low
    /\ pc = "check" /\ low < at => Settled(seen)
    /\ pc = "fork" => \A h \in Heights : Final(h) => h <= at

NoRollbackWaits == \A m \in Waiting : m.kind # "reorg"

(* An acknowledgement that was lost leaves blocks behind that the next     *)
(* batch, or the one after it, will reach again                            *)
StoredInReach ==
  /\ pc # "idle" => \A h \in Heights : OnMain(h) => h <= seen
  /\ Tidy /\ NoRollbackWaits =>
       \A h \in Heights : OnMain(h) => h <= last + BatchLimit

(* A rollback that was asked for does not reach a final block              *)
RollbackSafe ==
  \A m \in Waiting : m.kind = "reorg" =>
    /\ \A h \in Heights : Final(h) => h <= m.height
    /\ Tidy =>
         /\ m.height = last
         /\ \A h \in Heights : OnMain(h) => h - FinalityConfirmations <= m.height

TablesInv == OutdatedInWindow /\ FinalBuried /\ FinalOnChain

FinalInv ==
  TablesInv /\ FinalityDue /\ WindowChecked /\ StoredInReach /\ RollbackSafe

-----------------------------------------------------------------------------
(* The messages                                                            *)

LEMMA ItemsAre ==
  /\ Items(<< >>) = {}
  /\ \A m : Items(Append(<< >>, m)) = {m} /\ Len(Append(<< >>, m)) = 1
BY DEF Items

LEMMA OnlyItem ==
  ASSUME NEW S, NEW s \in Seq(S), Len(s) = 1, NEW i \in DOMAIN s
  PROVE  RemoveAt(s, i) = << >> /\ Items(s) = {s[i]}
<1>1. i = 1 /\ DOMAIN s = {1}
  OBVIOUS
<1>2. RemoveAt(s, i) \in Seq(S) /\ RemoveAt(s, i) = SubSeq(s, 1, 0) \o SubSeq(s, 2, 1)
  BY <1>1, RemoveAtType DEF RemoveAt
<1>3. SubSeq(s, 1, 0) = << >> /\ SubSeq(s, 2, 1) = << >>
  OBVIOUS
<1>4. QED
  BY <1>1, <1>2, <1>3 DEF Items

(* What waits when the indexer is busy, and when a message is handled      *)
LEMMA WaitingIs ==
  ASSUME TypeOK, OneMessage
  PROVE  /\ pc # "idle" => inbox = << >> /\ Waiting = {}
         /\ inbox = << >> => Waiting = {}
         /\ \A i \in DOMAIN inbox : /\ Waiting = {inbox[i]} /\ pc = "idle"
                                    /\ RemoveAt(inbox, i) = << >>
<1>1. inbox \in Seq(Message)
  BY DEF TypeOK
<1>2. inbox = << >> => Waiting = {}
  BY ItemsAre DEF Waiting
<1>3. ASSUME NEW i \in DOMAIN inbox
      PROVE  /\ Waiting = {inbox[i]} /\ pc = "idle"
             /\ RemoveAt(inbox, i) = << >>
  <2>1. inbox # << >>
    BY <1>1, <1>3
  <2>2. QED
    BY <1>1, <2>1, OnlyItem DEF OneMessage, Waiting
<1>4. QED
  BY <1>2, <1>3 DEF OneMessage

LEMMA OneMessageStep ==
  ASSUME Prompt, TypeOK, SyncInv, OneMessage, [Next]_vars
  PROVE  OneMessage'
<1>0. /\ \A m : Append(<< >>, m) # << >> /\ Len(Append(<< >>, m)) = 1
      /\ pc # "idle" => inbox = << >> /\ job.kind # "revert"
      /\ NoJob.kind = "none"
      /\ pc = "sent" <=> job.kind = "block"
  BY DEF OneMessage, NoJob, SyncInv, OneUpdate
<1>1. CASE NodeStep \/ UNCHANGED vars
  BY <1>1 DEF NodeStep, NodeAdvances, OneMessage, storageVars, indexerVars, vars
<1>2. CASE IndexerStep
  <2>1. CASE Poll
    BY <1>0, <2>1 DEF Poll, OneMessage, storageVars
  <2>2. CASE BeginCheck \/ CheckHeight
    BY <1>0, <2>2 DEF BeginCheck, CheckHeight, OneMessage, storageVars
  <2>3. CASE FindForkPoint
    <3>1. CASE at >= low /\ ~HashesAgree
      BY <1>0, <2>3, <3>1 DEF FindForkPoint, OneMessage, storageVars
    <3>2. CASE ~(at >= low /\ ~HashesAgree)
      BY <1>0, <2>3, <3>2 DEF FindForkPoint, OneMessage, storageVars, EndCycle, Goto
    <3>3. QED
      BY <3>1, <3>2
  <2>4. CASE SendFinality
    BY <1>0, <2>4 DEF SendFinality, OneMessage, storageVars, EndCycle, Goto
  <2>5. CASE SendBlock(TRUE) /\ UNCHANGED faults
    BY <1>0, <2>5 DEF SendBlock, ReceiveBlock, OneMessage
  <2>6. QED
    BY <1>2, <2>1, <2>2, <2>3, <2>4, <2>5 DEF IndexerStep
<1>3. ASSUME NEW i \in DOMAIN inbox, inbox' = RemoveAt(inbox, i),
             UNCHANGED indexerVars
      PROVE  OneMessage'
  BY <1>3, WaitingIs DEF OneMessage, indexerVars
<1>4. ASSUME job.kind = "block", job' = NoJob, UNCHANGED inbox
      PROVE  OneMessage'
  BY <1>0, <1>4 DEF OneMessage
<1>5. CASE StorageStep
  <2>1. CASE StorageProcesses
    BY <1>4, <2>1 DEF StorageProcesses, Process, ProcessBlock
  <2>2. CASE HandleMessages
    BY <1>3, <2>2 DEF HandleMessages, HandleMessage
  <2>3. CASE StorageReverts
    BY <1>0, <2>3 DEF StorageReverts, RevertUtxos, OneMessage, indexerVars
  <2>4. QED
    BY <1>5, <2>1, <2>2, <2>3 DEF StorageStep
<1>6. CASE FaultStep
  <2>1. CASE RpcFails
    BY <1>0, <2>1 DEF RpcFails, OneMessage, storageVars
  <2>2. CASE AckLost \/ ProcessFails
    BY <1>4, <2>2 DEF AckLost, ProcessFails, Process, ProcessBlock, DropJob
  <2>3. CASE StorageStops
    BY <1>0, <2>3 DEF StorageStops, OneMessage
  <2>4. CASE StoreFails
    BY <1>0, <2>4 DEF StoreFails, SendBlock, ReceiveBlock, OneMessage
  <2>5. CASE \E i \in DOMAIN inbox : MessageFails(i)
    BY <1>3, <2>5 DEF MessageFails
  <2>6. CASE RevertFails
    BY <1>0, <2>6 DEF RevertFails, DropJob, OneMessage, indexerVars
  <2>7. CASE IndexerRestarts
    BY <1>0, <2>7 DEF IndexerRestarts, OneMessage, storageVars, EndCycle, Goto
  <2>8. QED
    BY <1>6, <2>1, <2>2, <2>3, <2>4, <2>5, <2>6, <2>7 DEF FaultStep
<1>7. QED
  BY <1>1, <1>2, <1>5, <1>6 DEF Next

-----------------------------------------------------------------------------
(* The tables                                                              *)

LEMMA FinalityTypes ==
  ASSUME TypeOK
  PROVE  /\ blocks \in [Heights -> BlockRow]
         /\ \A h \in Heights : /\ h \in Int /\ 0 <= h
                               /\ blocks[h].main \in {0, 1} /\ blocks[h].final \in {0, 1}
         /\ faults \in Int /\ reorgs \in Int /\ 0 <= reorgs /\ 0 <= faults
BY ConstantTypes, SyncAssumption, ReorgAssumption
DEF TypeOK, StorageTypeOK, NodeTypeOK, BlockRow, Heights

(* What a step of the node does to outdated blocks                         *)
LEMMA NodeOutdates ==
  ASSUME Paced, TypeOK, SyncInv, TablesInv, NEW k \in Heights, k <= tip, NodeAdvances(k)
  PROVE  /\ tip' = tip + 1
         /\ blocks' = blocks /\ faults' = faults
         /\ \A h \in Heights : Outdated(h)' => h >= tip' - FinalityConfirmations + 1
         /\ \A h \in Heights : h <= k => chain'[h] = chain[h]
         /\ Together \/ faults = 0 \/ reorgs' = 0
         /\ reorgs' = 0 => reorgs = 0 /\ k = tip
<1>1. /\ Advance(k) /\ blocks' = blocks /\ faults' = faults
      /\ Together \/ faults = 0 \/ reorgs' = 0
      /\ \A h \in Stale(chain') : h >= tip' - FinalityConfirmations + 1
  BY DEF NodeAdvances, storageVars, Paced
<1>2. /\ tip' = tip + 1
      /\ \A h \in 0 .. k : chain'[h] = chain[h]
  BY <1>1, AdvanceIs
<1>3. \A h \in Heights : h <= k => h \in 0 .. k
  BY ConstantTypes DEF Heights
<1>4. \A h \in Heights : Outdated(h)' => h \in Stale(chain')
  BY <1>1 DEF Outdated, OnMain, Stale, MainHeights
<1>5. reorgs' = 0 => reorgs = 0 /\ k = tip
  BY <1>1, FinalityTypes DEF Advance
<1>6. QED
  BY <1>1, <1>2, <1>3, <1>4, <1>5

LEMMA NodeKeepsTables ==
  ASSUME Paced, TypeOK, SyncInv, TablesInv, NEW k \in Heights, k <= tip, NodeAdvances(k)
  PROVE  TablesInv'
<1>0. /\ tip' = tip + 1 /\ tip \in Int /\ k \in Int /\ 0 <= k
      /\ FinalityConfirmations \in Int
      /\ blocks' = blocks /\ faults' = faults
      /\ \A h \in Heights : h \in Int /\ 0 <= h
      /\ \A h \in Heights : Outdated(h)' => h >= tip' - FinalityConfirmations + 1
      /\ \A h \in Heights : h <= k => chain'[h] = chain[h]
      /\ Together \/ faults = 0 \/ reorgs' = 0
      /\ reorgs' = 0 => reorgs = 0 /\ k = tip
  BY NodeOutdates, StateRanges, ConstantTypes, FinalityTypes DEF Heights
<1>1. ASSUME NEW h \in Heights
      PROVE  OnMain(h)' => h <= tip'
  BY <1>0 DEF TablesInv, OutdatedInWindow, OnMain
<1>2. ASSUME NEW h \in Heights, Outdated(h)'
      PROVE  reorgs' # 0 /\ 0 < h
  <2>1. OnMain(h) /\ h <= tip
    BY <1>0, <1>2 DEF TablesInv, OutdatedInWindow, Outdated, OnMain
  <2>2. CASE h <= k
    <3>1. Outdated(h)
      BY <1>0, <1>2, <2>2 DEF Outdated, OnMain
    <3>2. QED
      BY <1>0, <3>1 DEF TablesInv, OutdatedInWindow
  <2>3. CASE ~(h <= k)
    BY <1>0, <2>1, <2>3
  <2>4. QED
    BY <2>2, <2>3
<1>3. ASSUME NEW h \in Heights, blocks'[h].final = 1
      PROVE  h <= tip' - FinalityConfirmations + 1 /\ ~Outdated(h)'
  BY <1>0, <1>3 DEF TablesInv, FinalBuried
<1>4. OutdatedInWindow'
  BY <1>0, <1>1, <1>2 DEF OutdatedInWindow
<1>5. FinalBuried'
  BY <1>3 DEF FinalBuried
<1>6. FinalOnChain'
  BY <1>3 DEF FinalOnChain, MainHeights, Outdated, OnMain
<1>7. QED
  BY <1>4, <1>5, <1>6 DEF TablesInv

(* Faults are counted, all of them while there has been no reorganisation, *)
(* or all of them lost acknowledgements                                    *)
LEMMA FaultsApart ==
  ASSUME Paced, NEW kind, Fault(kind), TypeOK
  PROVE  /\ faults' # 0 /\ (Together \/ reorgs = 0)
         /\ kind # "ack" => reorgs = 0 /\ ~Tidy'
<1>1. /\ kind \in Faults /\ faults' = faults + 1
      /\ Together \/ reorgs = 0
      /\ Together => Faults \subseteq {"ack"}
  BY DEF Paced, Fault
<1>2. faults' # 0
  BY <1>1, FinalityTypes
<1>3. kind # "ack" => ~(Faults \subseteq {"ack"})
  BY <1>1
<1>4. QED
  BY <1>1, <1>2, <1>3 DEF Tidy

LEMMA TidyStays ==
  /\ faults' = faults => (Tidy' <=> Tidy)
  /\ faults' # 0 /\ Tidy' => Tidy
BY DEF Tidy

(* What is outdated has not met faults that matter                         *)
LEMMA TidyWhenReplaced ==
  ASSUME Paced, TablesInv, reorgs # 0
  PROVE  Tidy
BY DEF Paced, TablesInv, OutdatedInWindow, Tidy

(* The storage service marks a settled part of the chain as final          *)
LEMMA MarkedFinal ==
  ASSUME NEW bs \in [Heights -> BlockRow], NEW t \in Int, NEW h \in Heights
  PROVE  LET new == UpdateFinalityStatus(bs, t)[h]
         IN  /\ new.main = bs[h].main /\ new.hash = bs[h].hash
             /\ \/ new.final = bs[h].final
                \/ new.final = 1 /\ h <= t - FinalityConfirmations + 1
             /\ bs[h].final = 1 => new = bs[h]
BY DEF UpdateFinalityStatus, MarkBlocksAsFinal, BlockRow

LEMMA MarkedNotMain ==
  ASSUME NEW bs \in [Heights -> BlockRow], NEW t, NEW h \in Heights
  PROVE  LET new == MarkBlocksAfterHeightNotMain(bs, t)[h]
         IN  /\ new.hash = bs[h].hash /\ new.final = bs[h].final
             /\ new.main = IF h > t THEN 0 ELSE bs[h].main
             /\ ~(h > t) => new = bs[h]
BY DEF MarkBlocksAfterHeightNotMain, BlockRow

(* A step that stores nothing, or the node's block, and takes blocks off   *)
(* the main chain at most                                                  *)
LEMMA TablesShrink ==
  ASSUME TypeOK, SyncInv, TablesInv, UNCHANGED nodeVars,
         Together \/ faults' = 0 \/ reorgs = 0,
         \A h \in Heights :
           /\ OnMain(h)' => \/ OnMain(h) /\ blocks'[h].hash = blocks[h].hash
                            \/ h <= tip /\ blocks'[h].hash = chain[h]
           /\ blocks'[h].final = 1 =>
                \/ blocks[h].final = 1
                \/ h <= tip - FinalityConfirmations + 1 /\ ~Outdated(h)
  PROVE  TablesInv' /\ \A h \in Heights : Outdated(h)' => Outdated(h)
<1>0. tip' = tip /\ reorgs' = reorgs /\ chain' = chain
  BY DEF nodeVars
<1>1. ASSUME NEW h \in Heights, Outdated(h)'
      PROVE  Outdated(h)
  BY <1>0, <1>1 DEF Outdated, OnMain
<1>2. OutdatedInWindow'
  BY <1>0, <1>1 DEF TablesInv, OutdatedInWindow, OnMain
<1>3. FinalBuried'
  BY <1>0 DEF TablesInv, FinalBuried
<1>4. FinalOnChain'
  <2>1. SUFFICES ASSUME NEW h \in Heights, Outdated(h)', blocks'[h].final = 1
                 PROVE  FALSE
    BY DEF FinalOnChain, MainHeights, Outdated, OnMain
  <2>2. Outdated(h)
    BY <1>1, <2>1
  <2>3. blocks[h].final = 1
    BY <2>1, <2>2
  <2>4. QED
    BY <2>2, <2>3 DEF TablesInv, FinalOnChain, MainHeights, Outdated, OnMain
<1>5. QED
  BY <1>1, <1>2, <1>3, <1>4 DEF TablesInv

(* The steps that leave the tables to themselves                           *)
LEMMA TablesAlone ==
  ASSUME TypeOK, SyncInv, TablesInv, UNCHANGED <<nodeVars, blocks>>,
         faults' = faults \/ Together \/ reorgs = 0
  PROVE  TablesInv'
<1>1. Together \/ faults' = 0 \/ reorgs = 0
  BY DEF TablesInv, OutdatedInWindow
<1>2. \A h \in Heights : OnMain(h)' <=> OnMain(h)
  BY DEF OnMain
<1>3. QED
  BY <1>1, <1>2, TablesShrink

(* A block on its way into the tables is the node's                        *)
LEMMA SentTables ==
  ASSUME TypeOK, SyncInv, NEW stored \in BOOLEAN, SendBlock(stored)
  PROVE  /\ at \in Heights /\ at <= tip
         /\ UNCHANGED nodeVars /\ pc = "send"
         /\ \A h \in Heights :
              /\ blocks'[h].final = blocks[h].final
              /\ \/ blocks'[h] = blocks[h]
                 \/ h = at /\ blocks'[h].main = 1 /\ blocks'[h].hash = chain[h]
<1>1. /\ pc = "send" /\ UNCHANGED nodeVars
      /\ blocks' = IF stored THEN StoreBlock(blocks, at, chain[at]) ELSE blocks
  BY DEF SendBlock, ReceiveBlock
<1>2. at \in Heights /\ at <= tip
  BY <1>1, SentBlock
<1>3. QED
  BY <1>1, <1>2, FinalityTypes DEF StoreBlock

LEMMA SendKeepsTables ==
  ASSUME TypeOK, SyncInv, TablesInv, NEW stored \in BOOLEAN, SendBlock(stored),
         faults' = faults \/ Together \/ reorgs = 0
  PROVE  /\ TablesInv'
         /\ \A h \in Heights : Outdated(h)' => Outdated(h) /\ (stored => h # at)
<1>1. Together \/ faults' = 0 \/ reorgs = 0
  BY DEF TablesInv, OutdatedInWindow
<1>2. \A h \in Heights :
         /\ OnMain(h)' => \/ OnMain(h) /\ blocks'[h].hash = blocks[h].hash
                          \/ h <= tip /\ blocks'[h].hash = chain[h]
         /\ blocks'[h].final = blocks[h].final
  BY SentTables DEF OnMain
<1>3. \A h \in Heights : stored /\ h = at => ~Outdated(h)'
  <2>1. at \in Heights /\ chain' = chain
    BY SentTables DEF nodeVars
  <2>2. stored => blocks' = StoreBlock(blocks, at, chain[at])
    BY DEF SendBlock, ReceiveBlock
  <2>3. stored => blocks'[at].hash = chain[at]
    BY <2>1, <2>2, FinalityTypes DEF StoreBlock
  <2>4. QED
    BY <2>1, <2>3 DEF Outdated
<1>4. QED
  BY <1>1, <1>2, <1>3, SentTables, TablesShrink

(* What a message does to the tables                                       *)
LEMMA HandledFinality ==
  ASSUME TypeOK, SyncInv, NEW i \in DOMAIN inbox, HandleMessage(i),
         inbox[i].kind = "finality"
  PROVE  \A h \in Heights :
           /\ blocks'[h].main = blocks[h].main /\ blocks'[h].hash = blocks[h].hash
           /\ \/ blocks'[h].final = blocks[h].final
              \/ /\ blocks'[h].final = 1
                 /\ h <= inbox[i].height - FinalityConfirmations + 1
           /\ blocks[h].final = 1 => blocks'[h] = blocks[h]
<1>1. /\ blocks' = UpdateFinalityStatus(blocks, inbox[i].height)
      /\ inbox[i].height \in Int
  BY MessageTypes DEF HandleMessage, ReceiveFinality, Heights
<1>2. QED
  BY <1>1, FinalityTypes, MarkedFinal

LEMMA HandledReorg ==
  ASSUME TypeOK, SyncInv, NEW i \in DOMAIN inbox, HandleMessage(i),
         inbox[i].kind # "finality"
  PROVE  /\ inbox[i].kind = "reorg" /\ inbox[i].height \in StartHeight - 1 .. MaxHeight
         /\ \A h \in Heights :
              /\ blocks'[h].hash = blocks[h].hash /\ blocks'[h].final = blocks[h].final
              /\ OnMain(h)' => OnMain(h)
              /\ h <= inbox[i].height => blocks'[h] = blocks[h]
         /\ LatestBlock(blocks) # 0 =>
              \A h \in Heights :
                OnMain(h)' => h <= SafeRevertHeight(blocks, inbox[i].height)
         /\ LatestBlock(blocks) = 0 => blocks' = blocks
<1> DEFINE f == inbox[i].height
<1> DEFINE safe == SafeRevertHeight(blocks, f)
<1>0. inbox[i].kind = "reorg" /\ f \in StartHeight - 1 .. MaxHeight
  BY MessageTypes DEF MessageInRange
<1>1. blocks' = IF LatestBlock(blocks) = 0 THEN blocks
                ELSE MarkBlocksAfterHeightNotMain(blocks, safe)
  BY DEF HandleMessage, ReceiveReorg
<1>2. safe \in Int /\ f <= safe /\ f \in Int
  BY <1>0, RevertAbove, ConstantTypes DEF Heights
<1>3. \A h \in Heights :
         LET new == MarkBlocksAfterHeightNotMain(blocks, safe)[h]
         IN  /\ new.hash = blocks[h].hash /\ new.final = blocks[h].final
             /\ new.main = IF h > safe THEN 0 ELSE blocks[h].main
             /\ ~(h > safe) => new = blocks[h]
  BY FinalityTypes, MarkedNotMain
<1> HIDE DEF f, safe
<1>4. ASSUME NEW h \in Heights
      PROVE  /\ blocks'[h].hash = blocks[h].hash /\ blocks'[h].final = blocks[h].final
             /\ OnMain(h)' => OnMain(h)
             /\ h <= f => blocks'[h] = blocks[h]
             /\ LatestBlock(blocks) # 0 /\ OnMain(h)' => h <= safe
  <2>1. h \in Int
    BY FinalityTypes
  <2>2. QED
    BY <1>1, <1>2, <1>3, <2>1 DEF OnMain
<1>5. QED
  BY <1>0, <1>1, <1>4 DEF f, safe

LEMMA HandleKeepsTables ==
  ASSUME Paced, TypeOK, SyncInv, OneMessage, TablesInv, FinalityDue,
         NEW i \in DOMAIN inbox, HandleMessage(i)
  PROVE  TablesInv'
<1>1. /\ UNCHANGED <<nodeVars, faults>>
      /\ Together \/ faults' = 0 \/ reorgs = 0
  BY DEF HandleMessage, TablesInv, OutdatedInWindow
<1>2. CASE inbox[i].kind = "finality"
  <2>1. inbox[i].height <= tip /\ Settled(inbox[i].height) /\ inbox[i].height \in Int
    BY <1>2, WaitingIs, MessageTypes DEF FinalityDue, Heights
  <2>2. ASSUME NEW h \in Heights, blocks'[h].final = 1, blocks[h].final # 1
        PROVE  h <= tip - FinalityConfirmations + 1 /\ ~Outdated(h)
    <3>1. h <= inbox[i].height - FinalityConfirmations + 1
      BY <1>2, <2>2, HandledFinality
    <3>2. ~Outdated(h)
      BY <2>1, <3>1, FinalityTypes, ConstantTypes DEF Settled
    <3>3. QED
      BY <2>1, <3>1, <3>2, FinalityTypes, ConstantTypes, StateRanges
  <2>3. \A h \in Heights : /\ OnMain(h)' => OnMain(h)
                           /\ blocks'[h].hash = blocks[h].hash
    BY <1>2, HandledFinality DEF OnMain
  <2>4. QED
    BY <1>1, <2>2, <2>3, TablesShrink
<1>3. CASE inbox[i].kind # "finality"
  <2>1. \A h \in Heights :
          /\ OnMain(h)' => OnMain(h)
          /\ blocks'[h].hash = blocks[h].hash /\ blocks'[h].final = blocks[h].final
    BY <1>3, HandledReorg
  <2>2. QED
    BY <1>1, <2>1, TablesShrink
<1>4. QED
  BY <1>2, <1>3

(* What a step may do, as far as finality is concerned: the node moves, a  *)
(* block is stored, a message is handled, or the tables stay as they are   *)
LEMMA StepIs ==
  ASSUME Paced, TypeOK, SyncInv, [Next]_vars
  PROVE  \/ \E k \in Heights : k <= tip /\ NodeAdvances(k)
         \/ \E stored \in BOOLEAN :
              SendBlock(stored) /\ (faults' = faults \/ Together \/ reorgs = 0)
         \/ \E i \in DOMAIN inbox : HandleMessage(i)
         \/ /\ UNCHANGED <<nodeVars, blocks>>
            /\ faults' = faults \/ Together \/ reorgs = 0
<1>1. CASE NodeStep
  BY <1>1 DEF NodeStep
<1>2. CASE IndexerStep
  BY <1>2 DEF IndexerStep, Poll, BeginCheck, CheckHeight, FindForkPoint, SendFinality,
              storageVars
<1>3. CASE StorageStep
  BY <1>3 DEF StorageStep, StorageProcesses, Process, ProcessBlock, HandleMessages,
              StorageReverts, RevertUtxos
<1>4. CASE FaultStep
  <2>1. Together \/ reorgs = 0
    BY <1>4, FaultsApart
    DEF FaultStep, RpcFails, AckLost, StorageStops, StoreFails, ProcessFails, MessageFails,
        RevertFails, IndexerRestarts
  <2>2. CASE StoreFails
    BY <2>1, <2>2 DEF StoreFails
  <2>3. QED
    BY <1>4, <2>1, <2>2
    DEF FaultStep, RpcFails, AckLost, Process, ProcessBlock, StorageStops, ProcessFails,
        DropJob, MessageFails, RevertFails, IndexerRestarts, storageVars
<1>5. CASE UNCHANGED vars
  BY <1>5 DEF vars, storageVars
<1>6. QED
  BY <1>1, <1>2, <1>3, <1>4, <1>5 DEF Next

LEMMA TablesStep ==
  ASSUME Paced, TypeOK, SyncInv, OneMessage, TablesInv, FinalityDue, [Next]_vars
  PROVE  TablesInv'
BY StepIs, NodeKeepsTables, SendKeepsTables, HandleKeepsTables, TablesAlone

-----------------------------------------------------------------------------
(* The loops                                                               *)

LoopsInv == FinalityDue /\ WindowChecked /\ StoredInReach /\ RollbackSafe

LEMMA ReachedIs ==
  /\ last \in Int /\ at \in Int =>
       Reached = IF pc = "sent" THEN at ELSE IF pc = "send" THEN at - 1 ELSE last
  /\ \A h \in Int : /\ pc' = "sent" /\ at' = h => Reached' = h
                    /\ pc' = "send" /\ at' = h + 1 => Reached' = h
                    /\ pc' \notin {"send", "sent"} /\ last' = h => Reached' = h
BY DEF Reached, NextHeight

LEMMA SameBlocks ==
  ASSUME UNCHANGED <<nodeVars, blocks>>
  PROVE  /\ tip' = tip /\ reorgs' = reorgs
         /\ \A h \in Heights : /\ Outdated(h)' <=> Outdated(h)
                               /\ OnMain(h)' <=> OnMain(h)
                               /\ Final(h)' <=> Final(h)
         /\ \A t : Settled(t)' <=> Settled(t)
BY DEF nodeVars, Outdated, OnMain, Final, Settled

(* Nothing that the loops know of changes                                  *)
LEMMA LoopsAlone ==
  ASSUME LoopsInv, UNCHANGED <<nodeVars, blocks, indexerVars, inbox>>,
         faults' = faults \/ (faults' # 0 /\ ~Tidy')
  PROVE  LoopsInv'
<1>1. /\ UNCHANGED <<pc, last, seen, low, at, tip>>
      /\ Waiting' = Waiting /\ Reached' = Reached /\ BatchEnd' = BatchEnd
  BY DEF indexerVars, nodeVars, Waiting, Reached, NextHeight, BatchEnd
<1>2. FinalityDue'
  BY <1>1, SameBlocks DEF LoopsInv, FinalityDue, SettledByBatch, ToSend
<1>3. WindowChecked'
  BY <1>1, SameBlocks DEF LoopsInv, WindowChecked
<1>4. StoredInReach'
  BY <1>1, SameBlocks, TidyStays DEF LoopsInv, StoredInReach, NoRollbackWaits
<1>5. RollbackSafe'
  BY <1>1, SameBlocks, TidyStays DEF LoopsInv, RollbackSafe
<1>6. QED
  BY <1>2, <1>3, <1>4, <1>5 DEF LoopsInv

(* A fault ends the cycle                                                  *)
LEMMA LoopsEnd ==
  ASSUME UNCHANGED <<nodeVars, blocks>>, Waiting' = {}, pc' = "idle", faults' # 0, ~Tidy'
  PROVE  LoopsInv'
BY DEF LoopsInv, FinalityDue, WindowChecked, StoredInReach, RollbackSafe

LEMMA NodeKeepsLoops ==
  ASSUME Paced, TypeOK, SyncInv, TablesInv, LoopsInv,
         NEW k \in Heights, k <= tip, NodeAdvances(k)
  PROVE  LoopsInv'
<1>1. /\ UNCHANGED <<blocks, faults, pc, last, seen, low, at, inbox>>
      /\ Waiting' = Waiting /\ Reached' = Reached /\ Tidy' = Tidy
  BY DEF Tidy, NodeAdvances, storageVars, indexerVars, Waiting, Reached, NextHeight
<1>2. /\ tip' = tip + 1 /\ tip \in Int /\ seen \in Int /\ seen <= tip /\ low \in Int
      /\ \A h \in Heights : h \in Int
      /\ \A h \in Heights : Outdated(h)' => h >= tip' - FinalityConfirmations + 1
      /\ FinalityConfirmations \in Int
  BY NodeOutdates, StateRanges, FinalityTypes, ConstantTypes
<1>3. ASSUME NEW t \in Int, t <= tip
      PROVE  \A h \in Heights : Outdated(h)' => h > t - FinalityConfirmations + 1
  BY <1>2, <1>3
<1>4. Settled(seen)'
  BY <1>1, <1>2, <1>3 DEF Settled
<1>5. FinalityDue'
  <2>1. ASSUME NEW m \in Waiting, m.kind = "finality"
        PROVE  m.height <= tip' /\ Settled(m.height)'
    <3>1. m.height <= tip
      BY <2>1 DEF LoopsInv, FinalityDue
    <3>2. m.height \in Int
      <4>1. PICK i \in DOMAIN inbox : m = inbox[i]
        BY <2>1 DEF Waiting, Items
      <4>2. QED
        BY <2>1, <4>1, MessageTypes DEF Heights
    <3>3. \A h \in Heights : Outdated(h)' => h > m.height - FinalityConfirmations + 1
      BY <1>3, <3>1, <3>2
    <3>4. QED
      BY <1>2, <3>1, <3>2, <3>3 DEF Settled
  <2>2. SettledByBatch(seen)'
    BY <1>4 DEF SettledByBatch, Settled
  <2>3. QED
    BY <1>1, <1>4, <2>1, <2>2 DEF FinalityDue
<1>6. WindowChecked'
  BY <1>1, <1>2, <1>4 DEF LoopsInv, WindowChecked, Final, OnMain
<1>7. StoredInReach'
  BY <1>1 DEF LoopsInv, StoredInReach, NoRollbackWaits, OnMain
<1>8. RollbackSafe'
  BY <1>1 DEF LoopsInv, RollbackSafe, Final, OnMain
<1>9. QED
  BY <1>5, <1>6, <1>7, <1>8 DEF LoopsInv

(* When the batch starts, nothing that it will declare final is outdated   *)
(* for longer than the batch takes: either the window begins above the     *)
(* last processed block, and what a lost acknowledgement has left there is *)
(* within the batch,                                                       *)
LEMMA BelowWindow ==
  ASSUME Paced, TypeOK, SyncInv, OneMessage, TablesInv, LoopsInv, pc = "window",
         last < Greater(tip - FinalityConfirmations + 1, 0)
  PROVE  \A h \in Heights : Outdated(h) => last < h /\ h <= BatchEnd
<1> SUFFICES ASSUME NEW h \in Heights, Outdated(h)
             PROVE  last < h /\ h <= BatchEnd
  OBVIOUS
<1>1. /\ reorgs # 0 /\ 0 < h /\ h >= tip - FinalityConfirmations + 1
      /\ Tidy /\ OnMain(h)
      /\ h \in Int /\ last \in Int /\ tip \in Int /\ seen \in Int /\ BatchLimit \in Int
  BY FinalityTypes, StateRanges, TidyWhenReplaced, SyncAssumption
  DEF TablesInv, OutdatedInWindow, Outdated
<1>2. NoRollbackWaits
  BY WaitingIs DEF NoRollbackWaits
<1>3. h <= last + BatchLimit /\ h <= seen
  BY <1>1, <1>2 DEF LoopsInv, StoredInReach
<1>4. last < h
  BY <1>1, ConstantTypes DEF Greater
<1>5. QED
  BY <1>1, <1>3, <1>4 DEF BatchEnd, Lesser

(* or the lowest block of the window is still the node's                   *)
LEMMA LowAgrees ==
  ASSUME TypeOK, SyncInv, TablesInv, WindowChecked, pc = "check", at = low, HashesAgree
  PROVE  Settled(seen)
<1> SUFFICES ASSUME NEW h \in Heights, Outdated(h)
             PROVE  h > seen - FinalityConfirmations + 1
  BY DEF Settled
<1>1. /\ 0 < h /\ h >= tip - FinalityConfirmations + 1
      /\ h \in Int /\ low \in Int /\ tip \in Int /\ seen \in Int /\ seen <= tip
      /\ seen - FinalityConfirmations + 1 <= low
      /\ low = 0 \/ low <= tip - FinalityConfirmations + 1
  BY FinalityTypes, StateRanges DEF TablesInv, OutdatedInWindow, WindowChecked
<1>2. h # low
  BY DEF HashesAgree, StoredHash, Outdated, OnMain
<1>3. QED
  BY <1>1, <1>2, ConstantTypes

(* A step of the loop that neither stores a block nor sends a message      *)
LEMMA LoopsGoOn ==
  ASSUME TypeOK, SyncInv, OneMessage, TablesInv, LoopsInv,
         pc \in {"window", "check", "fork"}, pc' \in {"check", "fork", "send"},
         UNCHANGED <<nodeVars, blocks, last, seen, inbox>>,
         faults' = faults \/ (faults' # 0 /\ ~Tidy'),
         at' \in Int,
         pc' = "send" =>
           /\ at' = last + 1
           /\ \A h \in Heights : Outdated(h) => \/ h > seen - FinalityConfirmations + 1
                                                \/ last < h /\ h <= BatchEnd,
         WindowChecked'
  PROVE  LoopsInv'
<1>1. Waiting' = {} /\ Waiting = {} /\ BatchEnd' = BatchEnd
  BY WaitingIs DEF Waiting, BatchEnd
<1>2. Reached' = last /\ Reached = last
  <2>1. last \in Int /\ last' = last /\ at \in Int
    BY StateRanges
  <2>2. Reached = last
    BY <2>1, ReachedIs
  <2>3. Reached' = last
    BY <2>1, ReachedIs
  <2>4. QED
    BY <2>2, <2>3
<1>3. FinalityDue'
  <2>1. pc' = "send" => SettledByBatch(seen)'
    BY <1>1, <1>2, SameBlocks DEF SettledByBatch, ToSend
  <2>2. QED
    BY <1>1, <2>1 DEF FinalityDue
<1>4. StoredInReach'
  BY <1>1, SameBlocks, TidyStays DEF LoopsInv, StoredInReach, NoRollbackWaits
<1>5. RollbackSafe'
  BY <1>1 DEF RollbackSafe
<1>6. QED
  BY <1>3, <1>4, <1>5 DEF LoopsInv

LEMMA CheckKeepsLoops ==
  ASSUME Paced, TypeOK, SyncInv, OneMessage, TablesInv, LoopsInv, BeginCheck \/ CheckHeight
  PROVE  LoopsInv'
<1>0. /\ UNCHANGED <<nodeVars, blocks, last, seen, inbox, faults>>
      /\ tip \in Int /\ seen \in Int /\ seen <= tip /\ last \in Int /\ low \in Int
      /\ at \in Int /\ FinalityConfirmations \in Int
      /\ \A h \in Heights : h \in Int /\ 0 <= h
  BY StateRanges, FinalityTypes, ConstantTypes DEF BeginCheck, CheckHeight, storageVars
<1>1. CASE BeginCheck
  <2> DEFINE start == Greater(tip - FinalityConfirmations + 1, 0)
  <2>0. pc = "window"
    BY <1>1 DEF BeginCheck
  <2>1. CASE last < start
    <3>1. /\ pc' = "send" /\ at' = last + 1
          /\ \A h \in Heights : Outdated(h) => last < h /\ h <= BatchEnd
      BY <1>1, <2>0, <2>1, BelowWindow DEF BeginCheck, BeginBatch, Goto
    <3>2. WindowChecked'
      BY <3>1 DEF WindowChecked
    <3>3. QED
      BY <1>0, <2>0, <3>1, <3>2, LoopsGoOn
  <2>2. CASE ~(last < start)
    <3>1. pc' = "check" /\ at' = start /\ low' = start
      BY <1>1, <2>2 DEF BeginCheck, Goto
    <3>2. /\ start \in Int /\ tip - FinalityConfirmations + 1 <= start
          /\ start = 0 \/ start = tip - FinalityConfirmations + 1
      BY <1>0 DEF Greater
    <3> HIDE DEF start
    <3>3. \A h \in Heights : blocks'[h].final = 1 => h <= start
      BY <1>0, <3>2 DEF TablesInv, FinalBuried
    <3>4. WindowChecked'
      <4>1. /\ seen' = seen /\ tip' = tip /\ pc' # "fork" /\ ~(low' < at')
            /\ low' = start
        BY <1>0, <3>1, <3>2, SameBlocks
      <4>2. /\ seen - FinalityConfirmations + 1 <= start
            /\ start = 0 \/ start <= tip - FinalityConfirmations + 1
        BY <1>0, <3>2
      <4>3. QED
        BY <3>3, <4>1, <4>2 DEF WindowChecked
    <3>5. QED
      BY <1>0, <2>0, <3>1, <3>2, <3>4, LoopsGoOn
  <2>3. QED
    BY <2>1, <2>2
<1>2. CASE CheckHeight
  <2>0. /\ pc = "check" /\ low <= at /\ at <= last
        /\ seen - FinalityConfirmations + 1 <= low
        /\ low = 0 \/ low <= tip - FinalityConfirmations + 1
        /\ \A h \in Heights : blocks[h].final = 1 => h <= low
        /\ low < at => Settled(seen)
    BY <1>2 DEF CheckHeight, SyncInv, LoopsInRange, LoopsInv, WindowChecked
  <2>1. CASE ~HashesAgree
    <3>1. pc' = "fork" /\ at' = at - 1 /\ low' = low
      BY <1>2, <2>1 DEF CheckHeight, Goto
    <3>2. \A h \in Heights : Final(h) => h <= at - 1
      <4> SUFFICES ASSUME NEW h \in Heights, Final(h) PROVE h <= at - 1
        OBVIOUS
      <4>1. h <= low
        BY <2>0 DEF Final
      <4>2. blocks[h].hash = chain[h]
        BY DEF TablesInv, FinalOnChain, MainHeights, Final, OnMain
      <4>3. h # at
        BY <2>1, <4>2 DEF HashesAgree, StoredHash, Final, OnMain
      <4>4. QED
        BY <1>0, <2>0, <4>1, <4>3
    <3>3. WindowChecked'
      <4>1. seen' = seen /\ tip' = tip /\ blocks' = blocks
        BY <1>0, SameBlocks
      <4>2. QED
        BY <2>0, <3>1, <3>2, <4>1, SameBlocks, <1>0 DEF WindowChecked
    <3>4. QED
      BY <1>0, <2>0, <3>1, <3>3, LoopsGoOn
  <2>2. CASE HashesAgree
    <3>1. Settled(seen)
      <4>1. CASE at = low
        BY <2>0, <2>2, <4>1, LowAgrees DEF LoopsInv
      <4>2. CASE at # low
        BY <1>0, <2>0, <4>2
      <4>3. QED
        BY <4>1, <4>2
    <3>2. CASE at = last
      <4>1. pc' = "send" /\ at' = last + 1
        BY <1>2, <2>0, <2>2, <3>2 DEF CheckHeight, BeginBatch, Goto
      <4>2. WindowChecked'
        BY <4>1 DEF WindowChecked
      <4>3. QED
        BY <1>0, <2>0, <3>1, <4>1, <4>2, LoopsGoOn DEF Settled
    <3>3. CASE at # last
      <4>1. pc' = "check" /\ at' = at + 1 /\ low' = low
        BY <1>2, <2>0, <2>2, <3>3 DEF CheckHeight
      <4>2. seen' = seen /\ tip' = tip /\ blocks' = blocks /\ Settled(seen)'
        BY <1>0, <3>1, SameBlocks DEF Settled
      <4>3. WindowChecked'
        BY <2>0, <4>1, <4>2 DEF WindowChecked
      <4>4. QED
        BY <1>0, <2>0, <4>1, <4>3, LoopsGoOn
    <3>4. QED
      BY <3>2, <3>3
  <2>3. QED
    BY <2>1, <2>2
<1>3. QED
  BY <1>1, <1>2

(* The rollback that is asked for is one to a height below which nothing   *)
(* final is outdated                                                       *)
LEMMA ForkKeepsLoops ==
  ASSUME Paced, TypeOK, SyncInv, OneMessage, TablesInv, LoopsInv, FindForkPoint
  PROVE  LoopsInv'
<1>0. /\ UNCHANGED <<nodeVars, blocks, faults>> /\ pc = "fork"
      /\ tip \in Int /\ seen \in Int /\ last \in Int /\ low \in Int /\ at \in Int
      /\ last < seen /\ low - 1 <= at
      /\ \A h \in Heights : h \in Int /\ 0 <= h
      /\ seen - FinalityConfirmations + 1 <= low
      /\ low = 0 \/ low <= tip - FinalityConfirmations + 1
      /\ \A h \in Heights : blocks[h].final = 1 => h <= low
      /\ \A h \in Heights : Final(h) => h <= at
  BY StateRanges, FinalityTypes
  DEF FindForkPoint, storageVars, SyncInv, LoopsInRange, LoopsInv, WindowChecked
<1>1. inbox = << >> /\ Waiting = {}
  BY <1>0, WaitingIs
<1>2. CASE at >= low /\ ~HashesAgree
  <2>1. at' = at - 1 /\ UNCHANGED <<pc, last, seen, low, inbox>>
    BY <1>2 DEF FindForkPoint
  <2>2. ASSUME NEW h \in Heights, Final(h) PROVE h <= at - 1
    <3>1. blocks[h].hash = chain[h]
      BY <2>2 DEF TablesInv, FinalOnChain, MainHeights, Final, OnMain
    <3>2. h # at
      BY <1>2, <2>2, <3>1 DEF HashesAgree, StoredHash, Final, OnMain
    <3>3. QED
      BY <1>0, <2>2, <3>2
  <2>3. WindowChecked'
    BY <1>0, <2>1, <2>2, SameBlocks DEF WindowChecked
  <2>4. QED
    BY <1>0, <2>1, <2>3, LoopsGoOn
<1>3. CASE ~(at >= low /\ ~HashesAgree)
  <2> DEFINE m == [kind |-> "reorg", height |-> at]
  <2>1. /\ pc' = "idle" /\ last' = at /\ inbox' = Append(inbox, m)
    BY <1>3 DEF FindForkPoint, EndCycle, Goto
  <2>2. Waiting' = {m}
    BY <1>1, <2>1, ItemsAre DEF Waiting
  <2>3. \A h \in Heights : OnMain(h) => h - FinalityConfirmations <= at
    <3>1. \A h \in Heights : OnMain(h) => h <= seen
      BY <1>0 DEF LoopsInv, StoredInReach
    <3>2. QED
      BY <1>0, <3>1, ConstantTypes
  <2>4. RollbackSafe'
    <3>1. m.height = at
      OBVIOUS
    <3> HIDE DEF m
    <3>2. QED
      BY <1>0, <2>1, <2>2, <2>3, <3>1, SameBlocks DEF RollbackSafe
  <2>5. ~NoRollbackWaits'
    BY <2>2 DEF NoRollbackWaits
  <2>6. FinalityDue'
    BY <2>1, <2>2 DEF FinalityDue
  <2>7. QED
    BY <2>1, <2>4, <2>5, <2>6 DEF LoopsInv, WindowChecked, StoredInReach
<1>4. QED
  BY <1>2, <1>3

LEMMA CycleKeepsLoops ==
  ASSUME Paced, TypeOK, SyncInv, OneMessage, TablesInv, LoopsInv,
         Poll \/ SendFinality
  PROVE  LoopsInv'
<1>0. /\ UNCHANGED <<nodeVars, blocks, last, faults>>
      /\ last \in Int /\ at \in Int /\ seen \in Int /\ seen <= tip
      /\ \A m : Items(Append(<< >>, m)) = {m}
  BY StateRanges, ItemsAre DEF Poll, SendFinality, storageVars
<1>1. CASE Poll
  <2>1. /\ pc = "idle" /\ pc' \in {"idle", "window"} /\ UNCHANGED inbox
        /\ Waiting = {} /\ Waiting' = {}
    BY <1>1, WaitingIs DEF Poll, Paced, Goto, Waiting
  <2>2. StoredInReach'
    <3>1. pc' # "idle" => \A h \in Heights : OnMain(h) => h <= seen'
      BY <1>1, <2>1 DEF Poll, TablesInv, OutdatedInWindow
    <3>2. QED
      BY <1>0, <2>1, <3>1, SameBlocks, TidyStays
      DEF LoopsInv, StoredInReach, NoRollbackWaits
  <2>3. QED
    BY <2>1, <2>2 DEF LoopsInv, FinalityDue, WindowChecked, RollbackSafe
<1>2. CASE SendFinality
  <2> DEFINE m == [kind |-> "finality", height |-> seen]
  <2>1. /\ pc = "finality" /\ pc' = "idle" /\ inbox' = Append(inbox, m)
        /\ Settled(seen)
    BY <1>2 DEF SendFinality, EndCycle, Goto, LoopsInv, FinalityDue
  <2>2. Waiting' = {m} /\ Waiting = {}
    BY <1>0, <2>1, WaitingIs DEF Waiting
  <2>3. m.kind = "finality" /\ m.height = seen
    OBVIOUS
  <2> HIDE DEF m
  <2>4. FinalityDue'
    <3>1. SUFFICES ASSUME NEW x \in Waiting'
                   PROVE  x.height <= tip' /\ Settled(x.height)'
      BY <2>1 DEF FinalityDue
    <3>2. x.height = seen
      BY <2>2, <2>3, <3>1
    <3>3. Settled(x.height)
      BY <2>1, <3>2
    <3>4. QED
      BY <1>0, <3>2, <3>3, SameBlocks
  <2>5. WindowChecked' /\ RollbackSafe'
    BY <2>1, <2>2, <2>3 DEF WindowChecked, RollbackSafe
  <2>6. StoredInReach'
    BY <1>0, <2>1, <2>2, SameBlocks, TidyStays
    DEF LoopsInv, StoredInReach, NoRollbackWaits
  <2>7. QED
    BY <2>4, <2>5, <2>6 DEF LoopsInv
<1>3. QED
  BY <1>1, <1>2

(* A call to the node fails while there has been no reorganisation, or the *)
(* indexer starts again                                                    *)
LEMMA FailureKeepsLoops ==
  ASSUME Paced, TypeOK, SyncInv, OneMessage, TablesInv, LoopsInv,
         RpcFails \/ IndexerRestarts
  PROVE  LoopsInv'
<1>0. /\ UNCHANGED <<nodeVars, blocks, inbox>> /\ reorgs = 0
      /\ faults' # 0 /\ ~Tidy' /\ Waiting' = Waiting
  BY FaultsApart DEF RpcFails, IndexerRestarts, storageVars, Waiting
<1>1. CASE RpcFails /\ pc # "send"
  <2>1. /\ pc \in {"window", "check", "fork"} /\ pc' = "send" /\ at' = last + 1
        /\ UNCHANGED <<last, seen>>
    BY <1>1 DEF RpcFails, BeginBatch, Goto
  <2>2. \A h \in Heights : ~Outdated(h)
    BY <1>0 DEF TablesInv, OutdatedInWindow
  <2>3. WindowChecked'
    BY <2>1 DEF WindowChecked
  <2>4. at' \in Int
    BY <2>1, StateRanges
  <2>5. QED
    BY <1>0, <2>1, <2>2, <2>3, <2>4, LoopsGoOn
<1>2. CASE RpcFails /\ pc = "send"
  <2>1. pc' = "idle" /\ Waiting' = {}
    BY <1>0, <1>2, WaitingIs DEF RpcFails, EndCycle, Goto
  <2>2. QED
    BY <1>0, <2>1, LoopsEnd
<1>3. CASE IndexerRestarts
  <2>1. pc' = "idle"
    BY <1>3 DEF IndexerRestarts, EndCycle, Goto
  <2>2. FinalityDue' /\ RollbackSafe'
    BY <1>0, <2>1, SameBlocks DEF LoopsInv, FinalityDue, RollbackSafe
  <2>3. QED
    BY <1>0, <2>1, <2>2 DEF LoopsInv, WindowChecked, StoredInReach
<1>4. QED
  BY <1>1, <1>2, <1>3

LEMMA SendKeepsLoops ==
  ASSUME TypeOK, SyncInv, OneMessage, TablesInv, LoopsInv,
         NEW stored \in BOOLEAN, SendBlock(stored),
         \/ stored /\ faults' = faults
         \/ reorgs = 0 /\ faults' # 0 /\ ~Tidy'
  PROVE  LoopsInv'
<1>0. /\ pc = "send" /\ pc' = "sent" /\ at' = at /\ seen' = seen /\ last' = last
      /\ Waiting = {} /\ Waiting' = {}
      /\ at \in Heights /\ at \in Int /\ last \in Int
      /\ \A h \in Heights : OnMain(h)' => OnMain(h) \/ h = at
  BY WaitingIs, SentTables, StateRanges DEF SendBlock, ReceiveBlock, Goto, Waiting, OnMain
<1>1. FinalityDue'
  <2>1. Reached' = at /\ Reached = at - 1 /\ BatchEnd' = BatchEnd
    BY <1>0, ReachedIs DEF BatchEnd
  <2>2. \A h \in Heights : Outdated(h)' => Outdated(h) /\ h # at
    <3>1. \A h \in Heights : Outdated(h)' => Outdated(h) /\ (stored => h # at)
      BY SendKeepsTables
    <3>2. reorgs = 0 => \A h \in Heights : ~Outdated(h)
      BY DEF TablesInv, OutdatedInWindow
    <3>3. QED
      BY <3>1, <3>2
  <2>3. ASSUME NEW h \in Heights, Outdated(h)'
        PROVE  h > seen - FinalityConfirmations + 1 \/ (at < h /\ h <= BatchEnd)
    <3>1. Outdated(h) /\ h # at /\ h \in Int
      BY <2>2, <2>3, FinalityTypes
    <3>2. h > seen - FinalityConfirmations + 1 \/ ToSend(h)
      BY <1>0, <3>1 DEF LoopsInv, FinalityDue, SettledByBatch
    <3>3. at - 1 < h => at < h
      BY <1>0, <3>1
    <3>4. QED
      BY <2>1, <3>2, <3>3 DEF ToSend
  <2>4. SettledByBatch(seen)'
    BY <1>0, <2>1, <2>3 DEF SettledByBatch, ToSend
  <2>5. QED
    BY <1>0, <2>4 DEF FinalityDue
<1>2. WindowChecked' /\ RollbackSafe'
  BY <1>0 DEF WindowChecked, RollbackSafe
<1>3. StoredInReach'
  <2>1. at <= seen /\ at <= last + BatchLimit
    BY <1>0, StateRanges, SyncAssumption DEF SyncInv, LoopsInRange, BatchEnd, Lesser
  <2>2. Tidy' => Tidy
    BY TidyStays
  <2>3. \A h \in Heights : OnMain(h)' => h <= seen
    BY <1>0, <2>1 DEF LoopsInv, StoredInReach
  <2>4. Tidy' => \A h \in Heights : OnMain(h)' => h <= last + BatchLimit
    BY <1>0, <2>1, <2>2 DEF LoopsInv, StoredInReach, NoRollbackWaits
  <2>5. QED
    BY <1>0, <2>3, <2>4 DEF StoredInReach
<1>4. QED
  BY <1>1, <1>2, <1>3 DEF LoopsInv

(* The answer of the storage service, or none                              *)
LEMMA AnswerKeepsLoops ==
  ASSUME Paced, TypeOK, SyncInv, OneMessage, TablesInv, LoopsInv,
         StorageProcesses \/ AckLost \/ ProcessFails
  PROVE  LoopsInv'
<1>0. /\ UNCHANGED <<nodeVars, blocks, inbox>> /\ pc = "sent"
      /\ Waiting = {} /\ Waiting' = {}
      /\ at \in Int /\ last \in Int
  <2>1. UNCHANGED <<nodeVars, blocks, inbox>> /\ job.kind = "block"
    BY DEF StorageProcesses, AckLost, ProcessFails, Process, ProcessBlock, DropJob
  <2>2. QED
    BY <2>1, WaitingIs, RunningBlock, StateRanges DEF Waiting
<1>1. CASE AckLost
  <2>1. pc' = "idle" /\ last' = last /\ faults' # 0
    BY <1>1, FaultsApart DEF AckLost, Abort, EndCycle, Goto
  <2>2. FinalityDue' /\ WindowChecked' /\ RollbackSafe'
    BY <1>0, <2>1 DEF FinalityDue, WindowChecked, RollbackSafe
  <2>3. StoredInReach'
    BY <1>0, <2>1, SameBlocks, TidyStays DEF LoopsInv, StoredInReach, NoRollbackWaits
  <2>4. QED
    BY <2>2, <2>3 DEF LoopsInv
<1>2. CASE StorageProcesses \/ ProcessFails
  <2>0. Acknowledge /\ (faults' = faults \/ (faults' # 0 /\ ~Tidy'))
    BY <1>2, FaultsApart DEF StorageProcesses, ProcessFails
  <2>1. /\ \/ pc' = "send" /\ at' = at + 1 /\ seen' = seen /\ last' = last
           \/ /\ pc' = "finality" /\ last' = at /\ seen' = seen
              /\ ~(at < BatchEnd)
           \/ pc' = "idle" /\ last' = at
    BY <2>0 DEF Acknowledge, EndCycle, Goto
  <2>2. Reached' = at /\ Reached = at
    BY <1>0, <2>1, ReachedIs
  <2>3. FinalityDue'
    <3>1. SettledByBatch(seen)
      BY <1>0 DEF LoopsInv, FinalityDue
    <3>2. pc' = "send" => SettledByBatch(seen)'
      <4>1. pc' = "send" => BatchEnd' = BatchEnd /\ seen' = seen
        BY <2>1 DEF BatchEnd
      <4>2. QED
        BY <1>0, <2>2, <3>1, <4>1, SameBlocks DEF SettledByBatch, ToSend
    <3>3. pc' = "finality" => Settled(seen)'
      <4>1. pc' = "finality" => seen' = seen /\ ~(at < BatchEnd)
        BY <2>1
      <4>2. BatchEnd \in Int
        BY StateRanges, SyncAssumption DEF BatchEnd, Lesser
      <4>3. ~(at < BatchEnd) => \A h \in Heights : ~ToSend(h)
        BY <1>0, <2>2, <4>2, FinalityTypes DEF ToSend
      <4>4. ~(at < BatchEnd) => Settled(seen)
        BY <3>1, <4>3 DEF SettledByBatch, Settled
      <4>5. QED
        BY <1>0, <4>1, <4>4, SameBlocks DEF Settled
    <3>4. QED
      BY <1>0, <2>1, <3>2, <3>3 DEF FinalityDue
  <2>4. WindowChecked' /\ RollbackSafe'
    BY <1>0, <2>1 DEF WindowChecked, RollbackSafe
  <2>5. StoredInReach'
    <3>1. last' \in Int /\ last <= last'
      BY <1>0, <2>1 DEF SyncInv, LoopsInRange
    <3>2. BatchLimit \in Int /\ (Tidy' => Tidy)
      BY <2>0, SyncAssumption, TidyStays
    <3>3. Tidy' => \A h \in Heights : OnMain(h) => h <= last' + BatchLimit
      BY <1>0, <3>1, <3>2, FinalityTypes DEF LoopsInv, StoredInReach, NoRollbackWaits
    <3>4. pc' # "idle" => \A h \in Heights : OnMain(h) => h <= seen'
      BY <1>0, <2>1 DEF LoopsInv, StoredInReach
    <3>5. QED
      BY <1>0, <3>3, <3>4, SameBlocks DEF StoredInReach
  <2>6. QED
    BY <2>3, <2>4, <2>5 DEF LoopsInv
<1>3. QED
  BY <1>1, <1>2

-----------------------------------------------------------------------------
(* A rollback                                                              *)

(* A set of heights that is not empty has a highest element                *)
LEMMA HighestExists ==
  ASSUME NEW S \in SUBSET Heights, S # {}
  PROVE  \E h \in S : \A k \in S : k <= h
<1> DEFINE Above(h) == {k \in S : h < k}
<1> DEFINE T == {Above(h) : h \in S}
<1> DEFINE R == StrictSubsetOrdering(Heights)
<1>1. IsFiniteSet(Heights)
  BY FS_Interval, ConstantTypes DEF Heights
<1>2. T \subseteq FiniteSubsetsOf(Heights) /\ T # {}
  <2>1. \A h \in S : Above(h) \in SUBSET Heights
    OBVIOUS
  <2>2. \A h \in S : IsFiniteSet(Above(h))
    BY <1>1, <2>1, FS_Subset
  <2> HIDE DEF Above
  <2>3. QED
    BY <2>1, <2>2 DEF FiniteSubsetsOf
<1>3. PICK X \in T : \A Y \in T : ~(<<Y, X>> \in R)
  <2>1. IsWellFoundedOn(R, FiniteSubsetsOf(Heights))
    BY FS_StrictSubsetOrderingWellFounded
  <2> HIDE DEF R, T
  <2>2. QED
    BY <1>2, <2>1, WFMin
<1>4. PICK h \in S : X = Above(h)
  BY <1>3
<1>5. ASSUME NEW k \in S, ~(k <= h) PROVE FALSE
  <2>1. k \in Int /\ h \in Int /\ \A j \in S : j \in Int
    BY DEF Heights
  <2>2. Above(k) \subseteq Above(h) /\ k \in Above(h) /\ k \notin Above(k)
    <3>1. h < k /\ ~(k < k)
      BY <1>5, <2>1
    <3>2. \A j \in S : k < j => h < j
      BY <2>1, <3>1
    <3>3. QED
      BY <3>1, <3>2, Zenon
  <2>3. <<Above(k), Above(h)>> \in R
    BY <2>2 DEF StrictSubsetOrdering
  <2>4. QED
    BY <1>3, <1>4, <2>3
<1>6. QED
  BY <1>5

LEMMA LatestIs ==
  ASSUME NEW bs
  PROVE  /\ LatestBlock(bs) # 0 => bs[LatestBlock(bs)].main = 1
         /\ \A h \in Heights : bs[h].main = 1 => h <= LatestBlock(bs)
<1> DEFINE tops == {h \in MainHeights(bs) : \A k \in MainHeights(bs) : k <= h}
<1>1. LatestBlock(bs) = IF tops = {} THEN 0 ELSE CHOOSE h \in tops : TRUE
  BY DEF LatestBlock
<1>2. CASE tops = {}
  <2>1. MainHeights(bs) = {}
    BY <1>2, HighestExists DEF MainHeights
  <2>2. QED
    BY <1>1, <1>2, <2>1 DEF MainHeights
<1>3. CASE tops # {}
  <2>1. LatestBlock(bs) \in tops
    BY <1>1, <1>3
  <2>2. QED
    BY <2>1 DEF MainHeights
<1>4. QED
  BY <1>2, <1>3

(* A rollback leaves nothing above the height that was asked for, unless   *)
(* more was lost than acknowledgements: the clamp does not bite            *)
LEMMA RollbackDone ==
  ASSUME TypeOK, SyncInv, OneMessage, LoopsInv, Tidy,
         NEW i \in DOMAIN inbox, HandleMessage(i), inbox[i].kind # "finality"
  PROVE  /\ inbox[i].height = last
         /\ LatestBlock(blocks) # 0 =>
              SafeRevertHeight(blocks, inbox[i].height) = Greater(last, 0)
         /\ \A h \in Heights : OnMain(h)' => h <= Greater(last, 0)
<1> DEFINE L == LatestBlock(blocks)
<1>1. /\ L \in Heights /\ L \in Int /\ last \in Int
      /\ \A h \in Heights : h \in Int
  BY LatestBlockType, StateRanges, FinalityTypes
<1>2. inbox[i].kind = "reorg" /\ inbox[i] \in Waiting
  BY HandledReorg, WaitingIs
<1>3. /\ inbox[i].height = last
      /\ \A h \in Heights : OnMain(h) => h - FinalityConfirmations <= last
  BY <1>2 DEF LoopsInv, RollbackSafe
<1>4. CASE L # 0
  <2>1. L - FinalityConfirmations <= last
    BY <1>1, <1>3, <1>4, LatestIs DEF OnMain
  <2>2. SafeRevertHeight(blocks, last)
          = Greater(Greater(last, 0), Greater(L - FinalityConfirmations + 1, 0) - 1)
    BY DEF SafeRevertHeight, RevertHeight
  <2> HIDE DEF L
  <2>3. SafeRevertHeight(blocks, last) = Greater(last, 0)
    BY <1>1, <2>1, <2>2, ConstantTypes DEF Greater
  <2>4. QED
    BY <1>3, <1>4, <2>3, HandledReorg DEF L
<1>5. CASE L = 0
  <2>1. blocks' = blocks
    BY <1>5, HandledReorg
  <2>2. \A h \in Heights : OnMain(h)' => h <= 0
    BY <1>5, <2>1, LatestIs DEF OnMain
  <2>3. QED
    BY <1>1, <1>3, <1>5, <2>2 DEF Greater
<1>6. QED
  BY <1>4, <1>5

LEMMA HandleKeepsLoops ==
  ASSUME TypeOK, SyncInv, OneMessage, TablesInv, LoopsInv,
         NEW i \in DOMAIN inbox, HandleMessage(i)
  PROVE  LoopsInv'
<1>1. /\ pc = "idle" /\ pc' = "idle" /\ last' = last /\ faults' = faults
      /\ Waiting = {inbox[i]} /\ Waiting' = {}
      /\ last \in Int /\ at \in Int /\ 0 <= last + 1
  BY WaitingIs, StateRanges, ConstantTypes, ItemsAre
  DEF HandleMessage, indexerVars, Waiting
<1>2. StoredInReach'
  <2>1. SUFFICES ASSUME Tidy, NEW h \in Heights, OnMain(h)'
                 PROVE  h <= last + BatchLimit
    BY <1>1, TidyStays DEF StoredInReach
  <2>2. CASE inbox[i].kind = "finality"
    <3>1. OnMain(h)
      BY <2>1, <2>2, HandledFinality DEF OnMain
    <3>2. NoRollbackWaits
      BY <1>1, <2>2 DEF NoRollbackWaits
    <3>3. QED
      BY <2>1, <3>1, <3>2 DEF LoopsInv, StoredInReach
  <2>3. CASE inbox[i].kind # "finality"
    <3>1. h <= Greater(last, 0)
      BY <2>1, <2>3, RollbackDone
    <3>2. QED
      BY <1>1, <3>1, FinalityTypes, SyncAssumption DEF Greater
  <2>4. QED
    BY <2>2, <2>3
<1>3. QED
  BY <1>1, <1>2 DEF LoopsInv, FinalityDue, WindowChecked, RollbackSafe

LEMMA StorageKeepsLoops ==
  ASSUME Paced, TypeOK, SyncInv, OneMessage, TablesInv, LoopsInv,
         \/ StorageReverts \/ StorageStops \/ RevertFails
         \/ \E i \in DOMAIN inbox : MessageFails(i)
  PROVE  LoopsInv'
<1>1. CASE StorageReverts
  BY <1>1, LoopsAlone DEF StorageReverts, RevertUtxos
<1>2. CASE RevertFails
  BY <1>2, LoopsAlone, FaultsApart DEF RevertFails, DropJob
<1>3. CASE StorageStops
  <2>1. /\ UNCHANGED <<nodeVars, blocks>> /\ faults' # 0 /\ ~Tidy' /\ Waiting' = {}
    BY <1>3, FaultsApart, ItemsAre DEF StorageStops, Waiting
  <2>2. pc' = "idle"
    <3>1. CASE pc = "sent"
      BY <1>3, <3>1 DEF StorageStops, Abort, EndCycle, Goto
    <3>2. CASE pc # "sent"
      <4>1. inbox # << >> \/ job.kind = "revert"
        BY <1>3, <3>2 DEF StorageStops, SyncInv, OneUpdate, TypeOK, StorageTypeOK, Jobs
      <4>2. QED
        BY <1>3, <3>2, <4>1 DEF StorageStops, OneMessage, indexerVars
    <3>3. QED
      BY <3>1, <3>2
  <2>3. QED
    BY <2>1, <2>2, LoopsEnd
<1>4. ASSUME NEW i \in DOMAIN inbox, MessageFails(i) PROVE LoopsInv'
  <2>1. /\ UNCHANGED <<nodeVars, blocks, indexerVars>> /\ faults' # 0 /\ ~Tidy'
        /\ inbox' = RemoveAt(inbox, i)
    BY <1>4, FaultsApart DEF MessageFails, storageVars
  <2>2. Waiting' = {} /\ pc' = "idle"
    BY <2>1, WaitingIs, ItemsAre DEF Waiting, indexerVars
  <2>3. QED
    BY <2>1, <2>2, LoopsEnd
<1>5. QED
  BY <1>1, <1>2, <1>3, <1>4

LEMMA LoopsStep ==
  ASSUME Paced, TypeOK, SyncInv, OneMessage, TablesInv, LoopsInv, [Next]_vars
  PROVE  LoopsInv'
<1>1. CASE NodeStep
  BY <1>1, NodeKeepsLoops DEF NodeStep
<1>2. CASE IndexerStep
  <2>1. CASE SendBlock(TRUE) /\ UNCHANGED faults
    BY <2>1, SendKeepsLoops
  <2>2. QED
    BY <1>2, <2>1, CheckKeepsLoops, ForkKeepsLoops, CycleKeepsLoops DEF IndexerStep
<1>3. CASE StorageStep
  BY <1>3, AnswerKeepsLoops, HandleKeepsLoops, StorageKeepsLoops
  DEF StorageStep, HandleMessages
<1>4. CASE FaultStep
  <2>1. CASE StoreFails
    <3>1. Fault("database") /\ SendBlock(FALSE)
      BY <2>1 DEF StoreFails
    <3>2. reorgs = 0 /\ faults' # 0 /\ ~Tidy'
      BY <3>1, FaultsApart
    <3>3. QED
      BY <3>1, <3>2, SendKeepsLoops
  <2>2. QED
    BY <1>4, <2>1, FailureKeepsLoops, AnswerKeepsLoops, StorageKeepsLoops DEF FaultStep
<1>5. CASE UNCHANGED vars
  BY <1>5, LoopsAlone DEF vars, storageVars
<1>6. QED
  BY <1>1, <1>2, <1>3, <1>4, <1>5 DEF Next

LEMMA FinalInit ==
  ASSUME Init
  PROVE  OneMessage /\ TablesInv /\ LoopsInv
<1>1. /\ pc = "idle" /\ inbox = << >> /\ job.kind = "none" /\ faults = 0
      /\ \A h \in Heights : blocks[h].main = 0 /\ blocks[h].final = 0
  BY DEF Init, StorageInit, NoJob, NoBlockRow
<1>2. Waiting = {}
  BY <1>1, ItemsAre DEF Waiting
<1>3. OneMessage
  BY <1>1 DEF OneMessage
<1>4. TablesInv
  BY <1>1 DEF TablesInv, OutdatedInWindow, FinalBuried, FinalOnChain, Outdated, OnMain,
              MainHeights
<1>5. LoopsInv
  BY <1>1, <1>2 DEF LoopsInv, FinalityDue, WindowChecked, StoredInReach,
                    RollbackSafe, OnMain
<1>6. QED
  BY <1>3, <1>4, <1>5

LEMMA FinalInvHolds ==
  StartsInWindow /\ Paced => (Spec => [](TypeOK /\ SyncInv /\ OneMessage /\ FinalInv))
<1> SUFFICES ASSUME StartsInWindow, Paced
             PROVE  Spec => [](TypeOK /\ SyncInv /\ OneMessage /\ FinalInv)
  OBVIOUS
<1>0. FinalInv <=> TablesInv /\ LoopsInv
  BY DEF FinalInv, LoopsInv
<1>1. Init => OneMessage /\ TablesInv /\ LoopsInv
  BY FinalInit
<1>2. TypeOK /\ SyncInv /\ OneMessage /\ TablesInv /\ LoopsInv /\ [Next]_vars
        => OneMessage' /\ TablesInv' /\ LoopsInv'
  BY OneMessageStep, TablesStep, LoopsStep DEF Paced, LoopsInv
<1>3. QED
  BY <1>0, <1>1, <1>2, TypeCorrect, SyncInvHolds, PTL DEF Spec

(* A block marked final is on the node's chain (update_finality_status):   *)
(* the check at the start of a cycle has found the blocks that the cycle's *)
(* last message marks to be the node's, or the batch sends them again, and *)
(* they are replaced only by a chain so long that they are out of the      *)
(* reach of the message.                                                   *)
THEOREM FinalBlocksAreOnChain ==
  StartsInWindow /\ Paced => (Spec => []FinalOnChain)
<1> SUFFICES ASSUME StartsInWindow, Paced PROVE Spec => []FinalOnChain
  OBVIOUS
<1>1. FinalInv => FinalOnChain
  BY DEF FinalInv, TablesInv
<1>2. QED
  BY <1>1, FinalInvHolds, PTL

(* A final block stays as it is: a later block for its height is the same  *)
(* block, and no rollback reaches it (store_block, revert_to_height).      *)
THEOREM FinalBlocksStay ==
  StartsInWindow /\ Paced => (Spec => FinalStays)
<1> SUFFICES ASSUME StartsInWindow, Paced PROVE Spec => FinalStays
  OBVIOUS
<1>1. ASSUME TypeOK, SyncInv, OneMessage, FinalInv, [Next]_vars,
             NEW h \in MainHeights(blocks), blocks[h].final = 1
      PROVE  blocks'[h] = blocks[h]
  <2>1. h \in Heights /\ Final(h) /\ blocks[h].hash = chain[h]
    BY <1>1 DEF MainHeights, Final, OnMain, FinalInv, TablesInv, FinalOnChain
  <2>2. ASSUME NEW stored \in BOOLEAN, SendBlock(stored)
        PROVE  blocks'[h] = blocks[h]
    <3>1. PICK row \in {blocks'[h]} :
            /\ row.final = blocks[h].final
            /\ \/ row = blocks[h]
               \/ row.main = 1 /\ row.hash = chain[h]
      BY <1>1, <2>1, <2>2, SentTables
    <3>2. row \in BlockRow /\ blocks[h] \in BlockRow
      <4>1. blocks' \in [Heights -> BlockRow]
        BY <1>1, <2>2, SendKeeps, StoreBlockType, SentBlock
        DEF SendBlock, ReceiveBlock, TypeOK, StorageTypeOK
      <4>2. QED
        BY <1>1, <2>1, <3>1, <4>1, FinalityTypes
    <3>3. row.main = blocks[h].main /\ row.hash = blocks[h].hash
      BY <2>1, <3>1 DEF Final, OnMain
    <3>4. row = blocks[h]
      BY <3>1, <3>2, <3>3 DEF BlockRow
    <3>5. QED
      BY <3>1, <3>4
  <2>3. ASSUME NEW i \in DOMAIN inbox, HandleMessage(i)
        PROVE  blocks'[h] = blocks[h]
    <3>1. CASE inbox[i].kind = "finality"
      BY <1>1, <2>1, <2>3, <3>1, HandledFinality
    <3>2. CASE inbox[i].kind # "finality"
      <4>1. inbox[i].kind = "reorg" /\ inbox[i] \in Waiting
        BY <1>1, <2>3, <3>2, HandledReorg, WaitingIs
      <4>2. h <= inbox[i].height
        BY <1>1, <2>1, <4>1 DEF FinalInv, RollbackSafe
      <4>3. QED
        BY <1>1, <2>1, <2>3, <3>2, <4>2, HandledReorg
    <3>3. QED
      BY <3>1, <3>2
  <2>4. ASSUME NEW k \in Heights, NodeAdvances(k)
        PROVE  blocks'[h] = blocks[h]
    BY <2>4 DEF NodeAdvances, storageVars
  <2>5. QED
    BY <1>1, <2>2, <2>3, <2>4, StepIs
<1>2. TypeOK /\ SyncInv /\ OneMessage /\ FinalInv /\ [Next]_vars
        => [\A h \in MainHeights(blocks) :
              blocks[h].final = 1 => blocks'[h] = blocks[h]]_blocks
  BY <1>1
<1>3. QED
  BY <1>2, FinalInvHolds, PTL DEF Spec, FinalStays

-----------------------------------------------------------------------------
(* The rest of this module needs that no statement of the storage service  *)
(* fails: process_block's error is dropped and the block acknowledged, so  *)
(* that its hash is stored and its rows are not; and that faults do not    *)
(* meet reorganisations (sync_replaced).                                   *)
Stores == Paced /\ ~Together /\ "database" \notin Faults

-----------------------------------------------------------------------------
(* The invariant about the evidence                                        *)

Delivered == StartHeight .. Greater(base, NextHeight - 1)

(* The storage service would answer with another hash than the node        *)
Differs(h) == StoredHash(blocks, h) # chain[h]

DeliveredMain == \A h \in Delivered : OnMain(h)

(* Each branch of the node has a tag of its own                            *)
OldTags ==
  \A h \in Heights : blocks[h].hash.fork <= reorgs /\ chain[h].fork <= reorgs

(* What the tables have not followed has a hash that shows it              *)
Gap == base < NextHeight - 1 => Differs(base + 1)

CleanAbove(b) == \A o \in Outputs : RevertRow(utxo[o], b) = utxo[o]

RollbackDue(h) ==
  \/ [kind |-> "reorg", height |-> h] \in Waiting
  \/ job.kind = "revert" /\ job.height = h

(* Before the next block is processed, no row is left from above           *)
CleanOrDue == base >= NextHeight - 1 => CleanAbove(base) \/ RollbackDue(base)

(* Without reorganisations the indexer finds none                          *)
NoneUntold ==
  reorgs = 0 => pc # "fork" /\ NoRollbackWaits /\ job.kind # "revert"

SentStored == pc = "sent" => StoredHash(blocks, at) = job.block

BaseReached == faults = 0 => base <= NextHeight - 1

(* Above the height that a rollback asks for, something is stored          *)
ForkAbove(h) == 0 <= h /\ h + 1 \in Heights /\ OnMain(h + 1)

Forking ==
  /\ pc = "fork" => base <= at /\ ForkAbove(at)
  /\ \A m \in Waiting : m.kind = "reorg" => ForkAbove(m.height)

WitnessInv ==
  /\ DeliveredMain /\ OldTags /\ Gap /\ CleanOrDue
  /\ NoneUntold /\ SentStored /\ BaseReached /\ Forking

-----------------------------------------------------------------------------
LEMMA DeliveredIs ==
  ASSUME TypeOK, SyncInv, DeliveredMain
  PROVE  /\ NextHeight \in Int /\ StartHeight <= NextHeight
         /\ base \in Int /\ StartHeight - 1 <= base /\ base <= tip
         /\ \A h \in Int : StartHeight <= h /\ (h <= base \/ h < NextHeight)
                             => h \in Heights /\ OnMain(h)
<1>1. /\ NextHeight \in Int /\ StartHeight <= NextHeight /\ NextHeight <= MaxHeight + 1
      /\ base \in Int /\ StartHeight - 1 <= base /\ base <= tip /\ base <= MaxHeight
      /\ StartHeight \in Nat /\ MaxHeight \in Nat
  BY NextHeightIs, StateRanges, ConstantTypes DEF TypeOK
<1>2. ASSUME NEW h \in Int, StartHeight <= h, h <= base \/ h < NextHeight
      PROVE  h \in Heights /\ OnMain(h)
  <2>1. h \in Heights
    BY <1>1, <1>2 DEF Heights
  <2>2. h <= Greater(base, NextHeight - 1)
    BY <1>1, <1>2 DEF Greater
  <2>3. h \in Delivered
    BY <1>1, <1>2, <2>2 DEF Delivered, Greater
  <2>4. QED
    BY <2>1, <2>3 DEF DeliveredMain
<1>3. QED
  BY <1>1, <1>2

(* A delivered block with another hash is above the base and outdated      *)
LEMMA DiffersIs ==
  ASSUME TypeOK, SyncInv, TablesInv, DeliveredMain,
         NEW h \in Int, StartHeight <= h, h < NextHeight, Differs(h)
  PROVE  /\ h \in Heights /\ Outdated(h) /\ base < h
         /\ reorgs # 0 /\ 0 < h /\ h >= tip - FinalityConfirmations + 1
<1>1. h \in Heights /\ OnMain(h)
  BY DeliveredIs
<1>2. Outdated(h)
  BY <1>1 DEF Differs, StoredHash, Outdated, OnMain
<1>3. base < h
  <2>1. SUFFICES ASSUME ~(base < h) PROVE FALSE
    OBVIOUS
  <2>2. h \in StartHeight .. base
    BY <2>1, DeliveredIs, ConstantTypes
  <2>3. QED
    BY <1>2, <2>2 DEF SyncInv, BaseOnChain, Outdated
<1>4. QED
  BY <1>1, <1>2, <1>3 DEF TablesInv, OutdatedInWindow

(* Without reorganisations the tables follow, and have nothing from above  *)
LEMMA NoReorgClean ==
  ASSUME TypeOK, SyncInv, TablesInv, WitnessInv, reorgs = 0
  PROVE  NextHeight - 1 <= base /\ CleanAbove(base)
<1>1. NextHeight - 1 <= base
  <2>1. SUFFICES ASSUME base < NextHeight - 1 PROVE FALSE
    BY DeliveredIs DEF WitnessInv
  <2>2. Differs(base + 1)
    BY <2>1 DEF WitnessInv, Gap
  <2>3. base + 1 \in Int /\ StartHeight <= base + 1 /\ base + 1 < NextHeight
    BY <2>1, DeliveredIs, ConstantTypes DEF WitnessInv
  <2>4. QED
    BY <2>2, <2>3, DiffersIs DEF WitnessInv
<1>2. ~RollbackDue(base)
  BY DEF WitnessInv, NoneUntold, NoRollbackWaits, RollbackDue
<1>3. CleanAbove(base)
  BY <1>1, <1>2, DeliveredIs DEF WitnessInv, CleanOrDue
<1>4. QED
  BY <1>1, <1>3

(* While the indexer is busy, no rollback is due                           *)
LEMMA BusyClean ==
  ASSUME TypeOK, SyncInv, OneMessage, WitnessInv, pc # "idle", NextHeight - 1 <= base
  PROVE  CleanAbove(base)
<1>1. ~RollbackDue(base)
  BY WaitingIs DEF OneMessage, RollbackDue
<1>2. QED
  BY <1>1, DeliveredIs DEF WitnessInv, CleanOrDue

(* A step that leaves the tables and the node alone, and goes back at most *)
LEMMA WitnessAlone ==
  ASSUME TypeOK, SyncInv, WitnessInv,
         UNCHANGED <<nodeVars, blocks, utxo, base>>,
         NextHeight' \in Int, NextHeight' <= NextHeight,
         pc' # "sent", CleanOrDue', NoneUntold', BaseReached', Forking'
  PROVE  WitnessInv'
<1> DEFINE n == NextHeight'
<1>1. /\ base \in Int /\ NextHeight \in Int /\ StartHeight - 1 <= base
      /\ reorgs' = reorgs /\ chain' = chain /\ base' = base /\ blocks' = blocks
      /\ \A h \in Int : StartHeight <= h /\ (h <= base \/ h < NextHeight)
                             => h \in Heights /\ OnMain(h)
  BY DeliveredIs DEF WitnessInv, nodeVars
<1>2. DeliveredMain'
  <2>1. ASSUME NEW h \in Delivered' PROVE OnMain(h)'
    <3>1. h \in Int /\ StartHeight <= h /\ (h <= base \/ h < NextHeight)
      <4>1. h \in StartHeight .. Greater(base, NextHeight' - 1)
        BY <1>1, <2>1 DEF Delivered
      <4>2. /\ StartHeight \in Int /\ n \in Int /\ n <= NextHeight
            /\ h \in StartHeight .. Greater(base, n - 1)
        BY <4>1, ConstantTypes
      <4> HIDE DEF n
      <4>3. QED
        BY <1>1, <4>2 DEF Greater
    <3>2. QED
      BY <1>1, <3>1 DEF OnMain
  <2>2. QED
    BY <2>1 DEF DeliveredMain
<1>3. OldTags' /\ Gap'
  <2>1. OldTags'
    BY <1>1 DEF WitnessInv, OldTags
  <2>2. base < NextHeight' - 1 => base < NextHeight - 1
    <3>1. n \in Int /\ n <= NextHeight
      OBVIOUS
    <3> HIDE DEF n
    <3>2. base < n - 1 => base < NextHeight - 1
      BY <1>1, <3>1
    <3>3. QED
      BY <3>2 DEF n
  <2>3. QED
    BY <1>1, <2>1, <2>2 DEF WitnessInv, Gap, Differs
<1>4. SentStored'
  BY DEF SentStored
<1>5. QED
  BY <1>2, <1>3, <1>4 DEF WitnessInv

-----------------------------------------------------------------------------
(* The loop                                                                *)

LEMMA SameFork ==
  ASSUME blocks' = blocks
  PROVE  \A h : ForkAbove(h)' <=> ForkAbove(h)
BY DEF ForkAbove, OnMain

(* A delivered block with another hash is above the base, and has been     *)
(* replaced by a reorganisation                                            *)
LEMMA AgreesIs ==
  ASSUME TypeOK, SyncInv, TablesInv, WitnessInv, pc \in {"check", "fork"},
         StartHeight <= at, ~HashesAgree
  PROVE  /\ at \in Heights /\ 0 < at /\ base < at /\ OnMain(at) /\ reorgs # 0
<1>1. at \in Int /\ at < NextHeight /\ Differs(at)
  <2>1. at <= last
    BY StateRanges DEF SyncInv, LoopsInRange
  <2>2. NextHeight = last + 1
    BY NextHeightIs
  <2>3. QED
    BY <2>1, <2>2, StateRanges DEF HashesAgree, Differs
<1>2. QED
  BY <1>1, DiffersIs DEF WitnessInv, Outdated

LEMMA LoopKeepsWitness ==
  ASSUME Stores, TypeOK, SyncInv, OneMessage, TablesInv, WitnessInv,
         Poll \/ BeginCheck \/ CheckHeight \/ SendFinality
  PROVE  WitnessInv'
<1>0. /\ UNCHANGED <<nodeVars, blocks, utxo, job, base, last, faults>>
      /\ base' = base /\ reorgs' = reorgs /\ job' = job
      /\ pc \in {"idle", "window", "check", "finality"}
      /\ NextHeight = last + 1 /\ last \in Int
  <2>1. pc \in {"idle", "window", "check", "finality"}
    BY DEF Poll, BeginCheck, CheckHeight, SendFinality
  <2>2. UNCHANGED <<nodeVars, blocks, utxo, job, base, last, faults>>
    BY DEF Poll, BeginCheck, CheckHeight, SendFinality, storageVars
  <2>3. QED
    BY <2>1, <2>2, NextHeightIs, StateRanges DEF nodeVars
<1>1. Waiting = {} /\ job.kind # "revert" /\ ~RollbackDue(base)
  <2>1. inbox = << >> /\ job.kind # "revert"
    BY WaitingIs DEF Poll, BeginCheck, CheckHeight, SendFinality, OneMessage,
                     Stores, Paced, NoJob
  <2>2. QED
    BY <2>1, WaitingIs DEF RollbackDue
<1>2. /\ pc' # "sent" /\ NextHeight' = last + 1
      /\ pc' = "fork" => /\ CheckHeight /\ ~HashesAgree /\ at' = at - 1
      /\ \A m \in Waiting' : m.kind # "reorg"
  <2>1. CASE Poll
    <3>1. pc' \in {"idle", "window"} /\ last' = last /\ inbox' = inbox
      BY <2>1 DEF Poll, Goto
    <3>2. QED
      BY <1>0, <1>1, <3>1, NextHeightIs DEF Waiting
  <2>2. CASE BeginCheck
    <3>1. /\ inbox' = inbox /\ last' = last
          /\ \/ pc' = "check"
             \/ pc' = "send" /\ at' = last + 1
      BY <2>2 DEF BeginCheck, BeginBatch, Goto
    <3>2. QED
      BY <1>0, <1>1, <3>1, NextHeightIs DEF Waiting
  <2>3. CASE CheckHeight
    <3>1. /\ inbox' = inbox /\ last' = last
          /\ \/ pc' = "check"
             \/ pc' = "send" /\ at' = last + 1
             \/ pc' = "fork" /\ at' = at - 1 /\ ~HashesAgree
      BY <1>0, <2>3 DEF CheckHeight, BeginBatch, Goto
    <3>2. QED
      BY <1>0, <1>1, <2>3, <3>1, NextHeightIs DEF Waiting
  <2>4. CASE SendFinality
    <3> DEFINE m == [kind |-> "finality", height |-> seen]
    <3>1. pc' = "idle" /\ last' = last /\ inbox' = Append(<< >>, m)
      <4>1. inbox = << >>
        BY <2>4, WaitingIs DEF SendFinality
      <4>2. QED
        BY <2>4, <4>1 DEF SendFinality, EndCycle, Goto
    <3>2. Waiting' = {m}
      BY <3>1, ItemsAre DEF Waiting
    <3>3. QED
      BY <1>0, <3>1, <3>2, NextHeightIs
  <2>5. QED
    BY <2>1, <2>2, <2>3, <2>4
<1>3. NextHeight' = NextHeight /\ NextHeight' \in Int
  BY <1>0, <1>2
<1>4. CleanOrDue'
  BY <1>0, <1>1, <1>3 DEF WitnessInv, CleanOrDue, CleanAbove
<1>5. ASSUME pc' = "fork"
      PROVE  reorgs # 0 /\ base <= at - 1 /\ ForkAbove(at - 1) /\ at' = at - 1
  <2>1. CheckHeight /\ ~HashesAgree /\ at' = at - 1
    BY <1>2, <1>5
  <2>2. pc = "check" /\ StartHeight <= at
    BY <2>1, StateRanges, ConstantTypes DEF CheckHeight, SyncInv, LoopsInRange
  <2>3. at \in Heights /\ 0 < at /\ base < at /\ OnMain(at) /\ reorgs # 0
    BY <2>1, <2>2, AgreesIs
  <2>4. (at - 1) + 1 = at /\ 0 <= at - 1 /\ base <= at - 1
    BY <2>3, StateRanges DEF Heights
  <2>5. QED
    BY <2>1, <2>3, <2>4 DEF ForkAbove
<1>6. NoneUntold'
  BY <1>0, <1>1, <1>2, <1>5 DEF NoneUntold, NoRollbackWaits
<1>7. Forking'
  <2>1. pc' = "fork" => base' <= at' /\ ForkAbove(at)'
    BY <1>0, <1>5, SameFork DEF ForkAbove, OnMain
  <2>2. QED
    BY <1>2, <2>1 DEF Forking
<1>8. QED
  <2>1. BaseReached'
    BY <1>0, <1>3 DEF WitnessInv, BaseReached
  <2>2. QED
    BY <1>0, <1>2, <1>3, <1>4, <1>6, <1>7, <2>1, WitnessAlone

LEMMA ForkKeepsWitness ==
  ASSUME TypeOK, SyncInv, OneMessage, TablesInv, WitnessInv, FindForkPoint
  PROVE  WitnessInv'
<1>0. /\ UNCHANGED <<nodeVars, blocks, utxo, job, base, faults>> /\ pc = "fork"
      /\ base' = base /\ reorgs' = reorgs /\ job' = job
      /\ NextHeight = last + 1 /\ last \in Int /\ at \in Int /\ at < last /\ low \in Int
      /\ base \in Int
      /\ base <= at /\ ForkAbove(at) /\ reorgs # 0 /\ StartHeight <= low
      /\ inbox = << >> /\ Waiting = {} /\ ~RollbackDue(base)
  <2>1. pc = "fork" /\ UNCHANGED <<nodeVars, blocks, utxo, job, base, faults>>
    BY DEF FindForkPoint, storageVars
  <2>2. base <= at /\ ForkAbove(at) /\ reorgs # 0
    BY <2>1 DEF WitnessInv, Forking, NoneUntold
  <2>3. inbox = << >> /\ Waiting = {} /\ ~RollbackDue(base)
    BY <2>1, WaitingIs DEF OneMessage, RollbackDue
  <2>4. QED
    BY <2>1, <2>2, <2>3, NextHeightIs, StateRanges DEF nodeVars, SyncInv, LoopsInRange
<1>1. CASE at >= low /\ ~HashesAgree
  <2>1. at' = at - 1 /\ UNCHANGED <<pc, last, inbox>>
    BY <1>1 DEF FindForkPoint
  <2>2. at \in Heights /\ 0 < at /\ base < at /\ OnMain(at)
    <3>1. StartHeight <= at
      BY <1>0, <1>1, ConstantTypes
    <3>2. QED
      BY <1>0, <1>1, <3>1, AgreesIs
  <2>3. NextHeight' = NextHeight
    BY <1>0, <2>1, NextHeightIs
  <2>4. base' <= at' /\ ForkAbove(at)'
    <3>1. (at - 1) + 1 = at /\ 0 <= at - 1 /\ base <= at - 1
      BY <1>0, <2>2
    <3>2. ForkAbove(at - 1)
      BY <2>2, <3>1 DEF ForkAbove
    <3>3. QED
      BY <1>0, <2>1, <3>1, <3>2 DEF ForkAbove, OnMain
  <2>5. Waiting' = {}
    BY <1>0, <2>1 DEF Waiting
  <2>6. CleanOrDue'
    BY <1>0, <2>3 DEF WitnessInv, CleanOrDue, CleanAbove
  <2>7. NoneUntold' /\ Forking'
    BY <1>0, <2>1, <2>4, <2>5 DEF NoneUntold, Forking
  <2>8. BaseReached'
    BY <1>0, <2>3 DEF WitnessInv, BaseReached
  <2>9. QED
    BY <1>0, <2>1, <2>3, <2>6, <2>7, <2>8, WitnessAlone
<1>2. CASE ~(at >= low /\ ~HashesAgree)
  <2> DEFINE m == [kind |-> "reorg", height |-> at]
  <2>1. pc' = "idle" /\ last' = at /\ inbox' = Append(<< >>, m)
    BY <1>0, <1>2 DEF FindForkPoint, EndCycle, Goto
  <2>2. Waiting' = {m}
    BY <2>1, ItemsAre DEF Waiting
  <2>3. NextHeight' = at + 1 /\ NextHeight' \in Int
    BY <1>0, <2>1, NextHeightIs
  <2>4. CleanOrDue'
    <3>1. base' >= NextHeight' - 1 => base = at
      BY <1>0, <2>3
    <3>2. base = at => RollbackDue(base)'
      BY <1>0, <2>2 DEF RollbackDue
    <3>3. QED
      BY <3>1, <3>2 DEF CleanOrDue
  <2>5. NoneUntold'
    BY <1>0 DEF NoneUntold
  <2>6. Forking'
    <3>1. m.height = at
      OBVIOUS
    <3> HIDE DEF m
    <3>2. \A x \in Waiting' : ForkAbove(x.height)'
      <4>1. SUFFICES ASSUME NEW x \in Waiting' PROVE ForkAbove(x.height)'
        OBVIOUS
      <4>2. x.height = at
        BY <2>2, <3>1, <4>1
      <4>3. ForkAbove(x.height)
        BY <1>0, <4>2
      <4>4. QED
        BY <1>0, <4>3, SameFork
    <3>3. QED
      BY <2>1, <3>2 DEF Forking
  <2>7. QED
    <3>1. NextHeight' <= NextHeight
      BY <1>0, <2>3
    <3>2. BaseReached'
      BY <1>0, <2>3 DEF BaseReached
    <3>3. QED
      BY <1>0, <2>1, <2>3, <2>4, <2>5, <2>6, <3>1, <3>2, WitnessAlone
<1>3. QED
  BY <1>1, <1>2

(* A fault before the first reorganisation: the tables have followed       *)
LEMMA FailureKeepsWitness ==
  ASSUME Stores, TypeOK, SyncInv, OneMessage, TablesInv, WitnessInv,
         RpcFails \/ StorageStops \/ IndexerRestarts
  PROVE  WitnessInv'
<1>0. /\ UNCHANGED <<nodeVars, blocks, utxo, base>>
      /\ base' = base /\ reorgs' = reorgs /\ reorgs = 0 /\ faults' # 0
      /\ last \in Int /\ StartHeight - 1 <= last /\ last < NextHeight
      /\ NextHeight \in Int /\ StartHeight <= NextHeight
      /\ CleanAbove(base)
  <2>1. UNCHANGED <<nodeVars, blocks, utxo, base>> /\ reorgs = 0 /\ faults' # 0
    BY FaultsApart DEF RpcFails, StorageStops, IndexerRestarts, storageVars, Stores
  <2>2. last < NextHeight
    BY NextHeightIs, SentBlock, StateRanges
  <2>3. CleanAbove(base)
    BY <2>1, NoReorgClean
  <2>4. QED
    BY <2>1, <2>2, <2>3, StateRanges, DeliveredIs DEF nodeVars, WitnessInv
<1>1. CleanOrDue' /\ BaseReached'
  BY <1>0 DEF CleanOrDue, CleanAbove, BaseReached
<1>2. pc # "fork" /\ NoRollbackWaits /\ job.kind # "revert"
  BY <1>0 DEF WitnessInv, NoneUntold
<1>3. /\ pc' \in {"idle", "send"} /\ job'.kind # "revert"
      /\ Waiting' = Waiting \/ Waiting' = {}
      /\ \/ NextHeight' = last + 1
         \/ NextHeight' = StartHeight
         \/ pc = "idle" /\ NextHeight' = NextHeight
  <2>1. CASE RpcFails
    <3>1. /\ inbox' = inbox /\ job' = job /\ last' = last
          /\ \/ pc' = "idle"
             \/ pc' = "send" /\ at' = last + 1
      BY <2>1 DEF RpcFails, BeginBatch, EndCycle, Goto, storageVars
    <3>2. QED
      BY <1>0, <1>2, <3>1, NextHeightIs DEF Waiting
  <2>2. CASE StorageStops /\ pc = "sent"
    <3>1. pc' = "idle" /\ last' = last /\ inbox' = << >> /\ job' = NoJob
      BY <2>2 DEF StorageStops, Abort, EndCycle, Goto
    <3>2. QED
      BY <1>0, <3>1, NextHeightIs, ItemsAre DEF Waiting, NoJob
  <2>3. CASE StorageStops /\ pc # "sent"
    <3>1. /\ UNCHANGED indexerVars /\ inbox' = << >> /\ job' = NoJob
          /\ inbox # << >> \/ job.kind = "revert"
      BY <2>3 DEF StorageStops, SyncInv, OneUpdate, TypeOK, StorageTypeOK, Jobs
    <3>2. pc = "idle" /\ pc' = "idle" /\ last' = last
      BY <3>1 DEF OneMessage, indexerVars
    <3>3. QED
      BY <1>0, <3>1, <3>2, NextHeightIs, ItemsAre DEF Waiting, NoJob
  <2>4. CASE IndexerRestarts
    <3>1. /\ pc' = "idle" /\ last' = StartHeight - 1 /\ inbox' = inbox /\ job' = job
      BY <2>4 DEF IndexerRestarts, EndCycle, Goto, storageVars
    <3>2. NextHeight' = (StartHeight - 1) + 1 /\ StartHeight \in Int
      BY <3>1, NextHeightIs, ConstantTypes
    <3>3. QED
      BY <1>2, <3>1, <3>2 DEF Waiting
  <2>5. QED
    BY <2>1, <2>2, <2>3, <2>4
<1>4. NextHeight' \in Int /\ NextHeight' <= NextHeight
  BY <1>0, <1>3, ConstantTypes
<1>5. NoneUntold' /\ Forking'
  <2>1. \A m \in Waiting' : m.kind # "reorg"
    BY <1>2, <1>3 DEF NoRollbackWaits
  <2>2. QED
    BY <1>3, <2>1 DEF NoneUntold, NoRollbackWaits, Forking
<1>6. QED
  BY <1>0, <1>1, <1>3, <1>4, <1>5, WitnessAlone

-----------------------------------------------------------------------------
(* The node                                                                *)

LEMMA TagType ==
  ASSUME NEW b \in Block \cup {NoBlock}
  PROVE  b.fork \in Int
<1>1. CASE b \in Block
  <2>1. b.fork \in Forks
    BY <1>1 DEF Block
  <2>2. \A f \in Forks : f \in Nat
    BY ForksAssumption
  <2>3. \A f \in Nat : f \in Int
    OBVIOUS
  <2>4. QED
    BY <2>1, <2>2, <2>3, Zenon
<1>2. CASE b = NoBlock
  BY <1>2 DEF NoBlock, NULL
<1>3. QED
  BY <1>1, <1>2

(* Where the node has another block than before, it is one that has not    *)
(* been stored yet                                                         *)
LEMMA NodeDiffers ==
  ASSUME Stores, TypeOK, SyncInv, OldTags, NEW k \in Heights, k <= tip, NodeAdvances(k)
  PROVE  /\ OldTags'
         /\ \A h \in Heights : h <= k => chain'[h] = chain[h]
         /\ \A h \in Heights : k < h /\ h <= tip => Differs(h)'
<1>1. /\ tip \in Int /\ 0 <= tip /\ tip + 1 <= MaxHeight /\ k \in Int
      /\ reorgs \in Int /\ reorgs' \in Int /\ 0 <= reorgs
      /\ reorgs' = IF k = tip THEN reorgs ELSE reorgs + 1
      /\ chain' \in Branches(chain, k, tip + 1, reorgs')
      /\ blocks' = blocks
  BY StateRanges, ConstantTypes, FinalityTypes DEF NodeAdvances, Advance, storageVars
<1>2. PICK new \in [k + 1 .. tip + 1 -> {b \in Block : b.fork = reorgs'}] :
        chain' = [h \in Heights |-> IF h <= k THEN chain[h]
                                    ELSE IF h <= tip + 1 THEN new[h] ELSE NoBlock]
  BY <1>1 DEF Branches
<1>3. ASSUME NEW h \in Heights
      PROVE  /\ h <= k => chain'[h] = chain[h]
             /\ k < h /\ h <= tip + 1 => chain'[h] \in Block /\ chain'[h].fork = reorgs'
             /\ ~(h <= k) /\ ~(h <= tip + 1) => chain'[h] = NoBlock
             /\ h <= k \/ k < h
  <2>1. h \in Int
    BY FinalityTypes
  <2>2. CASE k < h /\ h <= tip + 1
    <3>1. h \in k + 1 .. tip + 1 /\ ~(h <= k)
      BY <1>1, <2>1, <2>2
    <3>2. chain'[h] = new[h]
      BY <1>2, <2>2, <3>1
    <3>3. new[h] \in {b \in Block : b.fork = reorgs'}
      BY <1>2, <3>1
    <3>4. QED
      BY <2>2, <3>1, <3>2, <3>3
  <2>3. CASE ~(k < h /\ h <= tip + 1)
    BY <1>1, <1>2, <2>1, <2>3
  <2>4. QED
    BY <2>2, <2>3
<1>4. ASSUME NEW h \in Heights, k < h, h <= tip
      PROVE  Differs(h)'
  <2>1. h \in Int /\ h <= tip + 1 /\ k # tip
    BY <1>1, <1>4, FinalityTypes
  <2>2. chain'[h] \in Block /\ chain'[h].fork = reorgs + 1
    BY <1>1, <1>3, <1>4, <2>1
  <2>3. blocks[h].hash.fork <= reorgs /\ blocks[h].hash \in Block \cup {NoBlock}
    BY FinalityTypes DEF OldTags, BlockRow
  <2>4. blocks[h].hash # chain'[h]
    <3>1. blocks[h].hash.fork \in Int
      BY <2>3, TagType
    <3>2. QED
      BY <1>1, <2>2, <2>3, <3>1
  <2>5. NoBlock \notin Block
    BY ForksAssumption DEF NoBlock, Block, NULL
  <2>6. QED
    BY <1>1, <2>2, <2>4, <2>5 DEF Differs, StoredHash
<1>5. OldTags'
  <2> SUFFICES ASSUME NEW h \in Heights
               PROVE  blocks'[h].hash.fork <= reorgs' /\ chain'[h].fork <= reorgs'
    BY DEF OldTags
  <2>1. /\ blocks[h].hash.fork <= reorgs /\ chain[h].fork <= reorgs
        /\ blocks[h].hash.fork \in Int /\ chain[h].fork \in Int
    <3>1. blocks[h].hash \in Block \cup {NoBlock} /\ chain[h] \in Block \cup {NoBlock}
      BY FinalityTypes DEF TypeOK, NodeTypeOK, BlockRow
    <3>2. blocks[h].hash.fork \in Int /\ chain[h].fork \in Int
      BY <3>1, TagType
    <3>3. QED
      BY <3>2 DEF OldTags
  <2>2. reorgs <= reorgs'
    BY <1>1
  <2>3. chain'[h].fork <= reorgs'
    <3>1. NoBlock.fork <= reorgs'
      BY <1>1 DEF NoBlock, NULL
    <3>2. chain'[h] = chain[h] \/ chain'[h].fork = reorgs' \/ chain'[h] = NoBlock
      BY <1>1, <1>3, FinalityTypes
    <3>3. QED
      BY <1>1, <2>1, <2>2, <3>1, <3>2
  <2>4. QED
    BY <1>1, <2>1, <2>2, <2>3
<1>6. QED
  BY <1>3, <1>4, <1>5

LEMMA NodeKeepsWitness ==
  ASSUME Stores, TypeOK, SyncInv, TablesInv, WitnessInv,
         NEW k \in Heights, k <= tip, NodeAdvances(k)
  PROVE  WitnessInv'
<1> DEFINE b == Lesser(base, Greater(k, StartHeight - 1))
<1>0. /\ UNCHANGED <<blocks, utxo, job, inbox, faults, pc, last, at>>
      /\ base' = b /\ NextHeight' = NextHeight /\ Waiting' = Waiting
      /\ faults = 0 \/ reorgs' = 0
      /\ reorgs' = 0 => reorgs = 0 /\ k = tip
  <2>1. UNCHANGED <<blocks, utxo, job, inbox, faults, pc, last, at>> /\ base' = b
    BY DEF NodeAdvances, storageVars, indexerVars
  <2>2. QED
    BY <2>1, NodeOutdates DEF Waiting, NextHeight, Stores
<1>1. /\ NextHeight \in Int /\ StartHeight <= NextHeight /\ NextHeight - 1 <= tip
      /\ base \in Int /\ StartHeight - 1 <= base /\ base <= tip
      /\ tip \in Int /\ k \in Int /\ StartHeight \in Nat
      /\ last \in Int /\ at \in Int
      /\ \A h \in Int : StartHeight <= h /\ (h <= base \/ h < NextHeight)
                          => h \in Heights /\ OnMain(h)
  <2>1. /\ NextHeight \in Int /\ StartHeight <= NextHeight
        /\ \A h \in Int : StartHeight <= h /\ (h <= base \/ h < NextHeight)
                             => h \in Heights /\ OnMain(h)
    BY DeliveredIs DEF WitnessInv
  <2>2. NextHeight - 1 <= tip
    <3>1. CASE NextHeight = StartHeight
      BY <3>1, DeliveredIs, StateRanges DEF WitnessInv
    <3>2. CASE NextHeight # StartHeight
      <4>1. /\ NextHeight - 1 \in Int /\ StartHeight <= NextHeight - 1
            /\ NextHeight - 1 < NextHeight
        BY <2>1, <3>2, ConstantTypes
      <4>2. NextHeight - 1 \in Heights /\ OnMain(NextHeight - 1)
        BY <2>1, <4>1
      <4>3. QED
        BY <4>2 DEF TablesInv, OutdatedInWindow
    <3>3. QED
      BY <3>1, <3>2
  <2>3. QED
    BY <2>1, <2>2, StateRanges, ConstantTypes DEF Heights
<1>2. /\ b \in Int /\ b <= base /\ StartHeight - 1 <= b
      /\ b = base \/ k <= b
  BY <1>1 DEF Lesser, Greater
<1> HIDE DEF b
<1>3. DeliveredMain'
  <2>1. ASSUME NEW h \in Delivered' PROVE OnMain(h)'
    <3>1. h \in StartHeight .. Greater(b, NextHeight - 1)
      BY <1>0, <2>1 DEF Delivered
    <3>2. h \in Int /\ StartHeight <= h /\ (h <= base \/ h < NextHeight)
      BY <1>1, <1>2, <3>1 DEF Greater
    <3>3. QED
      BY <1>0, <1>1, <3>2 DEF OnMain
  <2>2. QED
    BY <2>1 DEF DeliveredMain
<1>4. /\ OldTags'
      /\ \A h \in Heights : h <= k => chain'[h] = chain[h]
      /\ \A h \in Heights : k < h /\ h <= tip => Differs(h)'
  BY NodeDiffers DEF WitnessInv
<1>5. Gap'
  <2>1. ASSUME NEW c \in Int, c = b, c < NextHeight - 1
        PROVE  Differs(c + 1)'
    <3>1. c + 1 \in Heights /\ c + 1 <= tip
      BY <1>1, <1>2, <2>1
    <3>2. CASE k < c + 1
      BY <1>4, <3>1, <3>2
    <3>3. CASE ~(k < c + 1)
      <4>1. c = base /\ c + 1 <= k
        BY <1>1, <1>2, <2>1, <3>3
      <4>2. Differs(c + 1)
        BY <2>1, <4>1 DEF WitnessInv, Gap
      <4>3. QED
        BY <1>0, <1>4, <3>1, <4>1, <4>2 DEF Differs
    <3>4. QED
      BY <3>2, <3>3
  <2>2. QED
    BY <1>0, <1>2, <2>1 DEF Gap, Differs
<1>6. CleanOrDue'
  <2>1. SUFFICES ASSUME b >= NextHeight - 1 PROVE CleanAbove(b) \/ RollbackDue(b)
    BY <1>0 DEF CleanOrDue, CleanAbove, RollbackDue
  <2>2. b = base
    <3>1. CASE faults = 0
      BY <1>1, <1>2, <2>1, <3>1 DEF WitnessInv, BaseReached
    <3>2. CASE faults # 0
      <4>1. k = tip
        BY <1>0, <3>2
      <4>2. QED
        BY <1>1, <1>2, <4>1
    <3>3. QED
      BY <3>1, <3>2
  <2>3. QED
    BY <1>1, <2>1, <2>2 DEF WitnessInv, CleanOrDue
<1>7. NoneUntold' /\ SentStored'
  BY <1>0 DEF WitnessInv, NoneUntold, NoRollbackWaits, SentStored
<1>8. BaseReached'
  <2>1. faults = 0 => b <= NextHeight - 1
    BY <1>1, <1>2 DEF WitnessInv, BaseReached
  <2>2. QED
    BY <1>0, <2>1 DEF BaseReached
<1>9. Forking'
  <2>1. pc = "fork" => b <= at /\ ForkAbove(at)
    BY <1>1, <1>2 DEF WitnessInv, Forking
  <2>2. QED
    BY <1>0, <2>1, SameFork DEF WitnessInv, Forking, ForkAbove, OnMain
<1>10. QED
  BY <1>3, <1>4, <1>5, <1>6, <1>7, <1>8, <1>9 DEF WitnessInv

-----------------------------------------------------------------------------
(* A block is stored                                                       *)

LEMMA SendKeepsWitness ==
  ASSUME TypeOK, SyncInv, OneMessage, TablesInv, WitnessInv, SendBlock(TRUE),
         faults' = faults
  PROVE  WitnessInv'
<1>0. /\ pc = "send" /\ pc' = "sent" /\ job'.kind = "block" /\ job'.block = chain[at]
      /\ base' = base /\ NextHeight' = NextHeight /\ NextHeight = at
      /\ at' = at /\ chain' = chain /\ reorgs' = reorgs /\ utxo' = utxo
      /\ blocks' = StoreBlock(blocks, at, chain[at])
      /\ Waiting' = {} /\ ~RollbackDue(base)
  <2>1. /\ pc = "send" /\ pc' = "sent" /\ UNCHANGED <<nodeVars, base, at, inbox, utxo>>
        /\ job' = [kind |-> "block", height |-> at, block |-> chain[at]]
        /\ blocks' = StoreBlock(blocks, at, chain[at])
    BY DEF SendBlock, ReceiveBlock, Goto
  <2>2. Waiting = {} /\ inbox = << >> /\ ~RollbackDue(base)
    BY <2>1, WaitingIs DEF OneMessage, RollbackDue
  <2>3. QED
    BY <2>1, <2>2, NextHeightIs DEF nodeVars, NextHeight, Waiting
<1>1. /\ at \in Heights /\ chain[at] \in Block
      /\ \A h \in Heights :
           /\ h # at => blocks'[h] = blocks[h]
           /\ blocks'[at].main = 1 /\ blocks'[at].hash = chain[at]
      /\ base \in Int /\ at \in Int
  BY <1>0, SentBlock, FinalityTypes, StateRanges DEF StoreBlock
<1>2. DeliveredMain'
  <2>1. Delivered' = Delivered
    BY <1>0 DEF Delivered
  <2>2. \A h \in Delivered : h \in Heights /\ OnMain(h)
    BY <1>0, <1>1, DeliveredIs, ConstantTypes DEF WitnessInv, Delivered, Greater
  <2>3. \A h \in Delivered : OnMain(h)'
    BY <1>1, <2>2 DEF OnMain
  <2>4. QED
    BY <2>1, <2>3 DEF DeliveredMain
<1>3. OldTags'
  BY <1>0, <1>1 DEF WitnessInv, OldTags
<1>4. Gap'
  <2>1. base < at - 1 => base + 1 # at
    BY <1>1
  <2>2. base < at - 1 => StoredHash(blocks', base + 1) = StoredHash(blocks, base + 1)
    BY <1>1, <2>1 DEF StoredHash
  <2>3. QED
    BY <1>0, <2>2 DEF WitnessInv, Gap, Differs
<1>5. CleanOrDue'
  BY <1>0 DEF WitnessInv, CleanOrDue, CleanAbove
<1>6. SentStored'
  BY <1>0, <1>1 DEF SentStored, StoredHash
<1>7. NoneUntold' /\ Forking' /\ BaseReached'
  BY <1>0 DEF WitnessInv, NoneUntold, NoRollbackWaits, Forking, BaseReached
<1>8. QED
  BY <1>2, <1>3, <1>4, <1>5, <1>6, <1>7 DEF WitnessInv

-----------------------------------------------------------------------------
(* A block is processed                                                    *)

LEMMA AppliedClean ==
  ASSUME NEW r \in UtxoRow, NEW b \in -1 .. MaxHeight, RevertRow(r, b) = r,
         NEW h \in Heights, NEW c \in -1 .. MaxHeight, b <= c, h <= c, NEW blk, NEW o
  PROVE  RevertRow(Applied(r, o, h, blk), c) = Applied(r, o, h, blk)
BY ConstantTypes
DEF RevertRow, Applied, Upsert, UtxoRow, NoUtxoRow, NULL, Heights

(* After its block, the base has nothing above, and if the base stays      *)
(* behind, the block shows that the node has another one                   *)
LEMMA ProcessedIs ==
  ASSUME TypeOK, SyncInv, OneMessage, WitnessInv, Process
  PROVE  /\ UNCHANGED <<nodeVars, blocks, inbox>> /\ job' = NoJob /\ pc = "sent"
         /\ at \in Heights /\ at \in Int /\ NextHeight = at /\ OnMain(at)
         /\ (base' = base \/ (base' = at /\ base = at - 1))
         /\ base' < at => base' = base /\ Differs(base + 1)
         /\ base' >= at => CleanAbove(base)'
<1>0. /\ UNCHANGED <<nodeVars, blocks, inbox>> /\ job' = NoJob /\ pc = "sent"
      /\ at \in Heights /\ NextHeight = at /\ job.height = at /\ job.block \in Block
      /\ utxo' = ProcessBlockUtxos(utxo, at, job.block)
      /\ base' = BaseAfter(at, job.block)
      /\ base \in Int /\ at \in Int /\ -1 <= base /\ base <= MaxHeight
  <2>1. job.kind = "block"
    BY DEF Process, ProcessBlock
  <2>2. QED
    BY <2>1, RunningBlock, NextHeightIs, StateRanges, ConstantTypes
    DEF Process, ProcessBlock
<1>1. OnMain(at) /\ StoredHash(blocks, at) = job.block
  BY <1>0, StoredBlock DEF WitnessInv, SentStored, OnMain
<1>2. base >= at - 1 => CleanAbove(base)
  BY <1>0, BusyClean
<1>3. RevertUtxosAfterHeight(utxo, base) = utxo <=> CleanAbove(base)
  BY DEF RevertUtxosAfterHeight, CleanAbove, TypeOK, StorageTypeOK
<1>4. \/ base' = base
      \/ base' = at /\ base = at - 1
  BY <1>0 DEF BaseAfter
<1>5. ASSUME base' < at PROVE base' = base /\ Differs(base + 1)
  <2>1. base' = base
    BY <1>0, <1>4, <1>5
  <2>2. CASE base = at - 1
    <3>1. base + 1 = at
      BY <1>0, <2>2
    <3>2. chain[at] # job.block
      BY <1>0, <1>1, <1>2, <1>3, <1>5, <2>1, <2>2, <3>1 DEF BaseAfter
    <3>3. QED
      BY <1>1, <2>1, <3>1, <3>2 DEF Differs
  <2>3. CASE base # at - 1
    BY <1>0, <1>5, <2>1, <2>3 DEF WitnessInv, Gap
  <2>4. QED
    BY <2>2, <2>3
<1>6. ASSUME NEW c \in Int, base' = c, c >= at
      PROVE  \A o \in Outputs : RevertRow(utxo'[o], c) = utxo'[o]
  <2>1. base >= at - 1 /\ base <= c /\ c \in -1 .. MaxHeight
    BY <1>0, <1>4, <1>6 DEF Heights
  <2>2. CleanAbove(base)
    BY <1>2, <2>1
  <2>3. \A o \in Outputs : utxo'[o] = Applied(utxo[o], o, at, job.block)
    BY <1>0, ProcessIsApplied
  <2>4. ASSUME NEW o \in Outputs
        PROVE  RevertRow(Applied(utxo[o], o, at, job.block), c)
                 = Applied(utxo[o], o, at, job.block)
    <3>1. utxo[o] \in UtxoRow /\ RevertRow(utxo[o], base) = utxo[o]
      BY <2>2 DEF CleanAbove, TypeOK, StorageTypeOK
    <3>2. base \in -1 .. MaxHeight
      BY <1>0, ConstantTypes
    <3>3. QED
      BY <1>0, <1>6, <2>1, <3>1, <3>2, AppliedClean
  <2>5. QED
    BY <2>3, <2>4
<1>7. base' \in Int
  BY <1>0, <1>4
<1>8. base' >= at => CleanAbove(base)'
  BY <1>6, <1>7 DEF CleanAbove
<1>9. QED
  BY <1>0, <1>1, <1>4, <1>5, <1>8

LEMMA AnswerKeepsWitness ==
  ASSUME Stores, TypeOK, SyncInv, OneMessage, TablesInv, WitnessInv,
         StorageProcesses \/ AckLost
  PROVE  WitnessInv'
<1>0. Process
  BY DEF StorageProcesses, AckLost
<1>1. /\ UNCHANGED <<nodeVars, blocks, inbox>> /\ job' = NoJob /\ pc = "sent"
      /\ at \in Heights /\ at \in Int /\ NextHeight = at /\ OnMain(at)
      /\ (base' = base \/ (base' = at /\ base = at - 1))
      /\ base' < at => base' = base /\ Differs(base + 1)
      /\ base' >= at => CleanAbove(base)'
      /\ chain' = chain /\ reorgs' = reorgs /\ blocks' = blocks
  BY <1>0, ProcessedIs DEF nodeVars
<1>2. /\ base \in Int /\ base' \in Int /\ StartHeight \in Int /\ last \in Int /\ last < at
      /\ \A h \in Int : StartHeight <= h /\ (h <= base \/ h < at)
                          => h \in Heights /\ OnMain(h)
  BY <1>1, DeliveredIs, SentBlock, ConstantTypes, StateRanges DEF WitnessInv
<1>3. Waiting' = {} /\ job'.kind # "revert"
  BY <1>1, WaitingIs DEF Waiting, NoJob
<1>4. /\ \/ StorageProcesses /\ faults' = faults /\ NextHeight' = at + 1
         \/ AckLost /\ faults' # 0 /\ reorgs = 0 /\ NextHeight' = last + 1
      /\ pc' \in {"send", "finality", "idle"}
  <2>1. CASE StorageProcesses
    <3>1. /\ faults' = faults
          /\ \/ pc' = "send" /\ at' = at + 1
             \/ pc' \in {"finality", "idle"} /\ last' = at
      BY <2>1 DEF StorageProcesses, Acknowledge, EndCycle, Goto
    <3>2. QED
      BY <1>1, <2>1, <3>1, NextHeightIs
  <2>2. CASE AckLost
    <3>1. pc' = "idle" /\ last' = last /\ faults' # 0 /\ reorgs = 0
      BY <2>2, FaultsApart DEF AckLost, Abort, EndCycle, Goto, Stores
    <3>2. QED
      BY <1>2, <2>2, <3>1, NextHeightIs
  <2>3. QED
    BY <2>1, <2>2
<1>5. NextHeight' \in Int /\ NextHeight' <= at + 1
  BY <1>1, <1>2, <1>4
<1>6. DeliveredMain'
  <2>1. ASSUME NEW n \in Int, NextHeight' = n, NEW c \in Int, base' = c,
               NEW h \in StartHeight .. Greater(c, n - 1)
        PROVE  OnMain(h)
    <3>1. h \in Int /\ StartHeight <= h /\ (h <= base \/ h < at \/ h = at)
      BY <1>1, <1>2, <1>5, <2>1 DEF Greater
    <3>2. QED
      BY <1>1, <1>2, <3>1
  <2>2. QED
    BY <1>1, <1>2, <1>5, <2>1 DEF DeliveredMain, Delivered, OnMain
<1>7. OldTags' /\ SentStored' /\ Forking' /\ NoneUntold'
  BY <1>1, <1>3, <1>4 DEF WitnessInv, OldTags, SentStored, Forking, NoneUntold, NoRollbackWaits
<1>8. Gap'
  <2>1. \A c, n \in Int : n <= at + 1 /\ c < n - 1 => c < at
    BY <1>1
  <2>2. base' < NextHeight' - 1 => base' < at
    BY <1>2, <1>5, <2>1
  <2>3. QED
    BY <1>1, <2>2 DEF Gap, Differs
<1>9. reorgs = 0 => base' >= at
  <2>1. SUFFICES ASSUME reorgs = 0, base' < at PROVE FALSE
    BY <1>1, <1>2
  <2>2. Differs(base + 1) /\ base < at
    BY <1>1, <2>1
  <2>3. CASE base + 1 < at
    <3>1. base + 1 \in Int /\ StartHeight <= base + 1 /\ base + 1 < NextHeight
      BY <1>1, <2>3, DeliveredIs, ConstantTypes DEF WitnessInv
    <3>2. QED
      BY <2>1, <2>2, <3>1, DiffersIs DEF WitnessInv
  <2>4. CASE base + 1 = at
    <3>1. Outdated(at)
      BY <1>1, <2>2, <2>4 DEF Differs, StoredHash, Outdated, OnMain
    <3>2. QED
      BY <1>1, <2>1, <3>1 DEF TablesInv, OutdatedInWindow
  <2>5. QED
    BY <1>1, <1>2, <2>2, <2>3, <2>4
<1>10. CleanOrDue'
  <2>1. base' >= NextHeight' - 1 => base' >= at
    BY <1>1, <1>2, <1>4, <1>9
  <2>2. QED
    BY <1>1, <2>1 DEF CleanOrDue
<1>11. BaseReached'
  <2>1. faults = 0 => base <= at - 1
    BY <1>1 DEF WitnessInv, BaseReached
  <2>2. faults' = 0 => base' <= NextHeight' - 1
    BY <1>1, <1>2, <1>4, <2>1
  <2>3. QED
    BY <2>2 DEF BaseReached
<1>12. QED
  BY <1>6, <1>7, <1>8, <1>10, <1>11 DEF WitnessInv

-----------------------------------------------------------------------------
(* A rollback                                                              *)

LEMMA HandleKeepsWitness ==
  ASSUME Stores, TypeOK, SyncInv, OneMessage, FinalInv, WitnessInv,
         NEW i \in DOMAIN inbox, HandleMessage(i)
  PROVE  WitnessInv'
<1>0. /\ pc = "idle" /\ pc' = "idle" /\ last' = last /\ faults' = faults
      /\ utxo' = utxo /\ reorgs' = reorgs /\ chain' = chain
      /\ Waiting = {inbox[i]} /\ Waiting' = {}
      /\ NextHeight = last + 1 /\ NextHeight' = NextHeight /\ last \in Int
      /\ job = NoJob
  <2>1. /\ UNCHANGED <<nodeVars, indexerVars, faults, utxo>> /\ job = NoJob
        /\ inbox' = RemoveAt(inbox, i)
    BY DEF HandleMessage, ReceiveFinality, ReceiveReorg
  <2>2. Waiting = {inbox[i]} /\ pc = "idle" /\ inbox' = << >>
    BY <2>1, WaitingIs
  <2>3. QED
    BY <2>1, <2>2, NextHeightIs, ItemsAre, StateRanges
    DEF nodeVars, indexerVars, Waiting, NextHeight
<1>1. /\ base \in Int /\ StartHeight - 1 <= base /\ StartHeight \in Nat
      /\ \A h \in Int : StartHeight <= h /\ (h <= base \/ h < NextHeight)
                          => h \in Heights /\ OnMain(h)
  BY DeliveredIs, ConstantTypes DEF WitnessInv
<1>2. Forking' /\ SentStored'
  BY <1>0 DEF Forking, SentStored
<1>3. \A h \in Heights : blocks'[h].hash = blocks[h].hash
  BY HandledFinality, HandledReorg
<1>4. OldTags'
  BY <1>0, <1>3 DEF WitnessInv, OldTags
<1>5. CASE inbox[i].kind = "finality"
  <2>1. base' = base /\ job' = job
    BY <1>5 DEF HandleMessage, ReceiveFinality
  <2>2. \A h \in Heights : OnMain(h)' <=> OnMain(h)
    BY <1>5, HandledFinality DEF OnMain
  <2>3. Delivered' = Delivered /\ \A h \in Delivered : h \in Heights
    BY <1>0, <1>1, <2>1 DEF Delivered, Greater
  <2>4. DeliveredMain'
    BY <2>2, <2>3 DEF WitnessInv, DeliveredMain
  <2>5. Gap'
    <3>1. \A h : StoredHash(blocks', h) = StoredHash(blocks, h)
      BY <1>3, <2>2 DEF StoredHash, OnMain
    <3>2. QED
      BY <1>0, <2>1, <3>1 DEF WitnessInv, Gap, Differs
  <2>6. CleanOrDue'
    <3>1. ~RollbackDue(base)
      BY <1>0, <1>5 DEF RollbackDue, NoJob
    <3>2. QED
      BY <1>0, <2>1, <3>1 DEF WitnessInv, CleanOrDue, CleanAbove
  <2>7. NoneUntold' /\ BaseReached'
    BY <1>0, <2>1 DEF WitnessInv, NoneUntold, NoRollbackWaits, NoJob, BaseReached
  <2>8. QED
    BY <1>2, <1>4, <2>4, <2>5, <2>6, <2>7 DEF WitnessInv
<1>6. CASE inbox[i].kind # "finality"
  <2>1. inbox[i].kind = "reorg" /\ inbox[i] \in Waiting
    BY <1>0, <1>6, HandledReorg
  <2>2. reorgs # 0 /\ faults = 0 /\ base <= last
    <3>1. reorgs # 0
      BY <2>1 DEF WitnessInv, NoneUntold, NoRollbackWaits
    <3>2. faults = 0
      BY <3>1 DEF Stores, FinalInv, TablesInv, OutdatedInWindow
    <3>3. QED
      BY <1>0, <1>1, <3>1, <3>2 DEF WitnessInv, BaseReached
  <2>3. /\ inbox[i].height = last
        /\ LatestBlock(blocks) # 0 =>
             SafeRevertHeight(blocks, inbox[i].height) = Greater(last, 0)
    <3>1. Tidy /\ LoopsInv
      BY <2>2 DEF Tidy, FinalInv, LoopsInv
    <3>2. QED
      BY <1>6, <3>1, RollbackDone
  <2>4. LatestBlock(blocks) # 0 /\ 0 <= last
    <3>1. 0 <= last /\ last + 1 \in Heights /\ OnMain(last + 1)
      BY <2>1, <2>3 DEF WitnessInv, Forking, ForkAbove
    <3>2. last + 1 <= LatestBlock(blocks)
      BY <3>1, LatestIs DEF OnMain
    <3>3. QED
      BY <1>0, <3>1, <3>2
  <2>5. /\ SafeRevertHeight(blocks, inbox[i].height) = last
        /\ blocks' = MarkBlocksAfterHeightNotMain(blocks, last)
        /\ job' = [kind |-> "revert", height |-> last, block |-> NoBlock]
        /\ base' = base
    <3>1. SafeRevertHeight(blocks, inbox[i].height) = last
      BY <1>0, <2>3, <2>4 DEF Greater
    <3>2. Lesser(base, last) = base
      BY <1>0, <1>1, <2>2 DEF Lesser
    <3>3. QED
      BY <1>6, <2>4, <3>1, <3>2 DEF HandleMessage, ReceiveReorg
  <2>6. \A h \in Heights : h <= last => blocks'[h] = blocks[h]
    BY <1>0, <2>5, FinalityTypes, MarkedNotMain
  <2>7. DeliveredMain'
    <3>1. ASSUME NEW h \in StartHeight .. Greater(base, last)
          PROVE  OnMain(h)'
      <4>1. h \in Int /\ StartHeight <= h /\ h < NextHeight /\ h <= last
        BY <1>0, <1>1, <2>2, <3>1 DEF Greater
      <4>2. QED
        BY <1>1, <2>6, <4>1 DEF OnMain
    <3>2. Greater(base', NextHeight' - 1) = Greater(base, last)
      BY <1>0, <2>5
    <3>3. QED
      BY <3>1, <3>2 DEF DeliveredMain, Delivered
  <2>8. Gap'
    <3>1. base < last => Differs(base + 1)'
      <4> SUFFICES ASSUME base < last PROVE Differs(base + 1)'
        OBVIOUS
      <4>1. base + 1 \in Heights /\ base + 1 <= last
        BY <1>0, <1>1
      <4>2. Differs(base + 1)
        BY <1>0, <1>1 DEF WitnessInv, Gap
      <4>3. QED
        BY <1>0, <2>5, <2>6, <4>1, <4>2 DEF Differs, StoredHash
    <3>2. base' < NextHeight' - 1 => base < last
      BY <1>0, <2>5
    <3>3. QED
      BY <3>1, <3>2 DEF Gap
  <2>9. CleanOrDue'
    <3>1. base' >= NextHeight' - 1 => base = last
      BY <1>0, <1>1, <2>2, <2>5
    <3>2. QED
      BY <2>5, <3>1 DEF CleanOrDue, RollbackDue
  <2>10. NoneUntold' /\ BaseReached'
    BY <1>0, <1>1, <2>2, <2>5 DEF NoneUntold, BaseReached
  <2>11. QED
    BY <1>2, <1>4, <2>7, <2>8, <2>9, <2>10 DEF WitnessInv
<1>7. QED
  BY <1>5, <1>6

(* The second statement of a rollback removes what is above                *)
LEMMA RevertKeepsWitness ==
  ASSUME TypeOK, SyncInv, OneMessage, WitnessInv, StorageReverts
  PROVE  WitnessInv'
<1>0. /\ UNCHANGED <<nodeVars, indexerVars, inbox, faults, base, blocks>>
      /\ base' = base /\ blocks' = blocks /\ chain' = chain /\ reorgs' = reorgs
      /\ pc = "idle" /\ pc' = "idle" /\ at' = at
      /\ job.kind = "revert" /\ job' = NoJob /\ job.height \in Int
      /\ utxo' = RevertUtxosAfterHeight(utxo, job.height)
      /\ NextHeight' = NextHeight /\ Waiting = {} /\ Waiting' = {}
      /\ base \in Int /\ -1 <= base
  <2>1. /\ UNCHANGED <<nodeVars, indexerVars, inbox, faults, base, blocks>>
        /\ job.kind = "revert" /\ job' = NoJob
        /\ utxo' = RevertUtxosAfterHeight(utxo, job.height)
    BY DEF StorageReverts, RevertUtxos
  <2>2. pc = "idle" /\ inbox = << >> /\ job.height \in Int
    BY <2>1 DEF OneMessage, TypeOK, StorageTypeOK, Jobs, NoJob, Heights
  <2>3. QED
    BY <2>1, <2>2, WaitingIs, StateRanges, ConstantTypes
    DEF nodeVars, indexerVars, Waiting, NextHeight
<1>1. ASSUME NextHeight - 1 <= base
      PROVE  \A o \in Outputs : RevertRow(utxo'[o], base) = utxo'[o]
  <2>1. SUFFICES ASSUME NEW o \in Outputs
                 PROVE  RevertRow(utxo'[o], base) = utxo'[o]
    OBVIOUS
  <2>2. utxo[o] \in UtxoRow /\ utxo'[o] = RevertRow(utxo[o], job.height)
    BY <1>0 DEF TypeOK, StorageTypeOK, RevertUtxosAfterHeight
  <2>3. RevertRow(utxo[o], base) = utxo[o] \/ job.height = base
    BY <1>0, <1>1, DeliveredIs
    DEF WitnessInv, CleanOrDue, CleanAbove, RollbackDue
  <2>4. QED
    BY <1>0, <2>2, <2>3 DEF RevertRow, NoUtxoRow, UtxoRow, NULL, Heights
<1>2. CleanOrDue'
  <2>1. NextHeight \in Int
    BY DeliveredIs DEF WitnessInv
  <2>2. QED
    BY <1>0, <1>1, <2>1 DEF CleanOrDue, CleanAbove
<1>3. DeliveredMain' /\ OldTags' /\ Gap'
  BY <1>0 DEF WitnessInv, DeliveredMain, Delivered, OnMain, OldTags, Gap, Differs
<1>4. NoneUntold' /\ SentStored' /\ BaseReached' /\ Forking'
  BY <1>0 DEF WitnessInv, NoneUntold, NoRollbackWaits, NoJob, SentStored, BaseReached, Forking
<1>5. QED
  BY <1>2, <1>3, <1>4 DEF WitnessInv

-----------------------------------------------------------------------------
(* Matching hashes                                                         *)

LEMMA WitnessInit ==
  ASSUME Init
  PROVE  WitnessInv
<1>1. /\ pc = "idle" /\ inbox = << >> /\ job.kind = "none" /\ faults = 0 /\ reorgs = 0
      /\ NextHeight = StartHeight /\ base = StartHeight - 1 /\ StartHeight \in Nat
      /\ blocks = [h \in Heights |-> NoBlockRow] /\ utxo = [o \in Outputs |-> NoUtxoRow]
  <2>1. last = StartHeight - 1 /\ StartHeight \in Nat /\ pc = "idle"
    BY ConstantTypes DEF Init
  <2>2. NextHeight = StartHeight
    BY <2>1, NextHeightIs
  <2>3. QED
    BY <2>1, <2>2 DEF Init, NodeInit, StorageInit, NoJob
<1>2. Waiting = {}
  BY <1>1, ItemsAre DEF Waiting
<1>3. DeliveredMain
  <2>1. Delivered = {}
    BY <1>1 DEF Delivered, Greater
  <2>2. QED
    BY <2>1 DEF DeliveredMain
<1>4. OldTags
  <2> SUFFICES ASSUME NEW h \in Heights
               PROVE  blocks[h].hash.fork <= 0 /\ chain[h].fork <= 0
    BY <1>1 DEF OldTags
  <2>1. PICK new \in [0 + 1 .. FirstTip -> {b \in Block : b.fork = 0}] :
          chain = [k \in Heights |-> IF k <= 0
                                       THEN [j \in Heights |-> IF j = 0 THEN Genesis
                                                               ELSE NoBlock][k]
                                     ELSE IF k <= FirstTip THEN new[k] ELSE NoBlock]
    BY DEF Init, NodeInit, Branches
  <2>2. /\ NoBlock.fork <= 0 /\ Genesis.fork = 0
        /\ h \in Int /\ 0 <= h /\ FirstTip \in Int
    BY ConstantTypes DEF NoBlock, NULL, Genesis, Heights
  <2>3. CASE h # 0 /\ h <= FirstTip
    <3>1. h \in 0 + 1 .. FirstTip /\ ~(h <= 0)
      BY <2>2, <2>3
    <3>2. chain[h] = new[h] /\ new[h] \in {b \in Block : b.fork = 0}
      BY <2>1, <2>3, <3>1
    <3>3. QED
      BY <1>1, <2>2, <3>2 DEF NoBlockRow
  <2>4. CASE ~(h # 0 /\ h <= FirstTip)
    <3>1. chain[h] = Genesis \/ chain[h] = NoBlock
      BY <2>1, <2>2, <2>4
    <3>2. QED
      BY <1>1, <2>2, <3>1 DEF NoBlockRow
  <2>5. QED
    BY <2>3, <2>4
<1>5. Gap /\ BaseReached
  BY <1>1 DEF Gap, BaseReached
<1>6. CleanOrDue
  BY <1>1 DEF CleanOrDue, CleanAbove, RevertRow, NoUtxoRow, NULL
<1>7. NoneUntold /\ SentStored /\ Forking
  BY <1>1, <1>2 DEF NoneUntold, NoRollbackWaits, SentStored, Forking
<1>8. QED
  BY <1>3, <1>4, <1>5, <1>6, <1>7 DEF WitnessInv

LEMMA WitnessStep ==
  ASSUME Stores, TypeOK, SyncInv, OneMessage, FinalInv, WitnessInv, [Next]_vars
  PROVE  WitnessInv'
<1>0. TablesInv
  BY DEF FinalInv
<1>1. CASE NodeStep
  BY <1>0, <1>1, NodeKeepsWitness DEF NodeStep
<1>2. CASE IndexerStep
  BY <1>0, <1>2, LoopKeepsWitness, ForkKeepsWitness, SendKeepsWitness DEF IndexerStep
<1>3. CASE StorageStep
  BY <1>0, <1>3, AnswerKeepsWitness, HandleKeepsWitness, RevertKeepsWitness
  DEF StorageStep, HandleMessages
<1>4. CASE FaultStep
  <2>1. ~StoreFails /\ ~ProcessFails /\ ~RevertFails
        /\ \A i \in DOMAIN inbox : ~MessageFails(i)
    BY DEF StoreFails, ProcessFails, RevertFails, MessageFails, Fault, Stores
  <2>2. QED
    BY <1>0, <1>4, <2>1, FailureKeepsWitness, AnswerKeepsWitness DEF FaultStep
<1>5. CASE UNCHANGED vars
  <2>1. /\ UNCHANGED <<nodeVars, blocks, utxo, job, inbox, base, faults, pc, at, last>>
        /\ Waiting' = Waiting /\ NextHeight' = NextHeight
    BY <1>5 DEF vars, storageVars, indexerVars, Waiting, NextHeight
  <2>2. DeliveredMain' /\ OldTags' /\ Gap' /\ CleanOrDue'
    BY <2>1 DEF WitnessInv, DeliveredMain, Delivered, OnMain, OldTags, Gap, Differs,
                nodeVars, CleanOrDue, CleanAbove, RollbackDue
  <2>3. NoneUntold' /\ SentStored' /\ BaseReached' /\ Forking'
    BY <2>1 DEF WitnessInv, NoneUntold, NoRollbackWaits, SentStored, BaseReached, Forking,
                ForkAbove, OnMain, nodeVars
  <2>4. QED
    BY <2>2, <2>3 DEF WitnessInv
<1>6. QED
  BY <1>1, <1>2, <1>3, <1>4, <1>5 DEF Next

(* Matching hashes mean matching answers.  check_for_reorg, which looks at *)
(* nothing but hashes, is right to conclude from them that the UTXOs of    *)
(* the processed blocks need no repair: whatever call or acknowledgement   *)
(* is lost, whichever process starts again, and however the node           *)
(* reorganises inside the window, the tables have either followed a block  *)
(* or hold another hash for its height.                                    *)
THEOREM HashesAreWitnesses ==
  StartsInWindow /\ Stores => (Spec => []HashesWitnessAnswers)
<1> SUFFICES ASSUME StartsInWindow, Stores PROVE Spec => []HashesWitnessAnswers
  OBVIOUS
<1>1. TypeOK /\ SyncInv /\ WitnessInv /\ AnswersFollowChain => HashesWitnessAnswers
  <2> SUFFICES ASSUME TypeOK, SyncInv, WitnessInv, AnswersFollowChain, Quiet, HashesMatch,
                      NEW h \in Processed
               PROVE  Spendable(utxo, h) = RefSpendable(chain, StartHeight, h)
    BY DEF HashesWitnessAnswers
  <2>1. /\ NextHeight = last + 1 /\ last \in Int /\ base \in Int
        /\ StartHeight - 1 <= base /\ StartHeight \in Int
    BY NextHeightIs, StateRanges, ConstantTypes DEF Quiet
  <2>2. ~(base < last)
    <3>1. SUFFICES ASSUME base < last PROVE FALSE
      OBVIOUS
    <3>2. Differs(base + 1) /\ base + 1 \in Processed
      BY <2>1, <3>1 DEF WitnessInv, Gap, Processed
    <3>3. QED
      BY <3>2 DEF HashesMatch, Differs
  <2>3. h \in StartHeight .. Lesser(base, NextHeight - 1)
    BY <2>1, <2>2 DEF Processed, Lesser
  <2>4. QED
    BY <2>3 DEF AnswersFollowChain
<1>2. Stores => Paced
  BY DEF Stores
<1>3. TypeOK /\ SyncInv /\ OneMessage /\ FinalInv /\ WitnessInv /\ [Next]_vars
        => WitnessInv'
  BY WitnessStep
<1>4. Init => WitnessInv
  BY WitnessInit
<1>5. Spec => [](TypeOK /\ SyncInv /\ OneMessage /\ FinalInv)
  BY <1>2, FinalInvHolds
<1>6. Spec => []AnswersFollowChain
  BY AnswersAreTheChains
<1>7. QED
  BY <1>1, <1>3, <1>4, <1>5, <1>6, PTL DEF Spec
=============================================================================
