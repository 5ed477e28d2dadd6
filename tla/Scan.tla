--------------------------------- MODULE Scan ---------------------------------
(***************************************************************************)
(* How the indexer finds the creations and spends of watched outputs in a  *)
(* block (indexer.rs: get_block_data, process_transactions,                *)
(* process_transaction_chunk), with the node's answers (RpcClient), while  *)
(* the API adds watched addresses and reads them (WatchSet) and the        *)
(* indexer restarts.  The chain is given: reorganisations, batches of      *)
(* blocks and lost messages are the subject of Sync, which takes a block's *)
(* creations and spends as given.  What is reported goes into the table    *)
(* utxo at once.                                                           *)
(*                                                                         *)
(* An outpoint is a pair of a transaction and a position, from 1.          *)
(***************************************************************************)
EXTENDS UtxoStore, RpcClient, WatchSet

CONSTANTS
  Chain,       \* height -> the block's transactions, the coinbase first
  Pays,        \* transaction -> addresses its outputs pay
  Spends,      \* transaction -> outpoints of its inputs
  Calls,       \* calls to the node for a block itself, 3 in the source
  CacheSize,   \* capacity of tx_cache, 100,000 in the source
  MaxRestarts, \* bound on the restarts of the indexer
  LateSigning  \* do sign requests come after a restart, too?

Tx == DOMAIN Pays

ASSUME ScanAssumption ==
  /\ \A h \in StartHeight .. MaxHeight :
       /\ Chain[h] \in Seq(Tx)
       /\ \A i \in 2 .. Len(Chain[h]) : Spends[Chain[h][i]] \in Seq(Outputs)
  /\ Outputs = UNION {{<<t, v>> : v \in DOMAIN Pays[t]} : t \in Tx}
  /\ Calls \in Nat \ {0} /\ CacheSize \in Nat \ {0}
  /\ MaxRestarts \in Nat /\ LateSigning \in BOOLEAN

VARIABLES
  last,      \* last_processed_height
  tx_cache,  \* transactions, the most recently used first
  scan,      \* the scan under way
  utxo,      \* the table of the storage service
  restarts,  \* restarts so far
  top,       \* auxiliary: the highest block ever scanned
  since,     \* auxiliary: `top' when an address was watched
  dropped,   \* auxiliary: was a block reported without a transaction asked for?
  report     \* auxiliary: the last report, until the next scan

vars == <<last, tx_cache, scan, utxo, restarts, top, since, dropped, report,
          rpc, watched, holders, waiting>>

NotScanning == [pc |-> "idle"]

NoReport == [height |-> NULL]

(* What a call asks for that is not for one of a number of items           *)
Single == {"block"}

TypeOK ==
  /\ WatchSetTypeOK
  /\ last \in StartHeight - 1 .. MaxHeight
  /\ ToSet(tx_cache) \subseteq Tx
  /\ Len(tx_cache) <= CacheSize /\ IsInjective(tx_cache)
  /\ utxo \in [Outputs -> UtxoRow]
  /\ rpc.attempt < Attempts /\ rpc.todo \cap rpc.got = {}
  /\ scan.pc \in {"idle", "call", "lock", "transactions", "outputs"}
  /\ scan.pc \in {"idle", "lock"} => rpc = NoRequest
  /\ Waits(Scanner) <=> scan.pc = "lock"
  /\ scan.pc \in {"transactions", "outputs"} => scan.seen \subseteq watched

Init ==
  /\ WatchSetInit
  /\ rpc = NoRequest
  /\ last = StartHeight - 1 /\ top = last
  /\ since = [a \in Watchable |-> NULL]
  /\ tx_cache = <<>>
  /\ scan = NotScanning
  /\ utxo = [o \in Outputs |-> NoUtxoRow]
  /\ restarts = 0 /\ dropped = FALSE /\ report = NoReport

-----------------------------------------------------------------------------
(* The chain                                                               *)

AddressOf(o) == Pays[o[1]][o[2]]

(* Inputs of a block, without those of its coinbase                        *)
InputsOf(h) ==
  FlattenSeq([i \in 1 .. Len(Chain[h]) - 1 |-> Spends[Chain[h][i + 1]]])

CreatedIn(h) == {o \in Outputs : o[1] \in ToSet(Chain[h])}

SpentIn(h) == ToSet(InputsOf(h))

(* The chain is valid: an output is created once, spent at most once, and  *)
(* never before it is created                                              *)
ASSUME ChainAssumption ==
  \A h, k \in StartHeight .. MaxHeight : \A o \in Outputs :
    /\ o \in CreatedIn(h) /\ o \in CreatedIn(k) => h = k
    /\ o \in SpentIn(h) /\ o \in SpentIn(k) => h = k
    /\ o \in CreatedIn(h) /\ o \in SpentIn(k) => h <= k

Unspent(h) ==
  (UNION {CreatedIn(k) : k \in StartHeight .. h})
    \ (UNION {SpentIn(k) : k \in StartHeight .. h})

(* gettxout: nothing for an output that the chain has spent                *)
GetTxOut(o) == o \in Unspent(MaxHeight)

-----------------------------------------------------------------------------
(* The transaction cache                                                   *)

(* LruCache::get, when the transaction is there                            *)
Touch(cache, t) == IF Contains(cache, t) THEN Cons(t, RemoveFirst(cache, t)) ELSE cache

(* A mutation: nothing is ever evicted                                     *)
PutWithoutEviction(cache, t) == Cons(t, RemoveFirst(cache, t))

(* LruCache::put                                                           *)
Put(cache, t) ==
  LET all == Cons(t, RemoveFirst(cache, t))
  IN  SubSeq(all, 1, Lesser(Len(all), CacheSize))

-----------------------------------------------------------------------------
(* Requests to the node                                                    *)

(* The block is asked for: get_block_hash, get_block and get_block_info    *)
BeginBlock ==
  /\ scan = NotScanning /\ last < MaxHeight
  /\ scan' = [pc |-> "call", number |-> 1]
  /\ Request(Single)
  /\ report' = NoReport
  /\ UNCHANGED <<last, tx_cache, utxo, restarts, top, since, dropped, lockVars>>

NextCall ==
  /\ scan.pc = "call" /\ scan.number < Calls
  /\ scan' = [pc |-> "call", number |-> scan.number + 1]
  /\ Request(Single)
  /\ UNCHANGED <<last, tx_cache, utxo, restarts, top, since, dropped, report,
                 lockVars>>

(* After the last of them the watched addresses are asked for              *)
LastCall ==
  /\ scan.pc = "call" /\ scan.number = Calls
  /\ scan' = [pc |-> "lock"]
  /\ rpc' = NoRequest
  /\ Arrives(Scanner)
  /\ UNCHANGED <<last, tx_cache, utxo, restarts, top, since, dropped, report,
                 watched, holders>>

(* A batch is answered.  An error leaves its item out of the result, as    *)
(* does the output's having been spent.                                    *)
BatchAnswered ==
  /\ scan.pc \in {"transactions", "outputs"} /\ rpc.todo # {}
  /\ \E batch \in Batches :
       LET there == IF scan.pc = "outputs" THEN {o \in batch : GetTxOut(o)} ELSE batch
       IN  \E found \in IF Faulty THEN SUBSET there ELSE {there} :
             Answered(batch, found)
  /\ UNCHANGED <<last, tx_cache, scan, utxo, restarts, top, since, dropped, report,
                 lockVars>>

CallRefused ==
  /\ Refused
  /\ UNCHANGED <<last, tx_cache, scan, utxo, restarts, top, since, dropped, report,
                 lockVars>>

(* A request fails, and the scan with it: the block is scanned again.  The *)
(* calls for many items at once, to Bitcoin Core, never fail as a whole.   *)
RequestFails ==
  /\ External \/ scan.pc = "call"
  /\ Fails
  /\ scan' = NotScanning
  /\ UNCHANGED <<last, tx_cache, utxo, restarts, top, since, dropped, report, lockVars>>

-----------------------------------------------------------------------------
(* Scanning a block                                                        *)

(* The watch set is copied, and the inputs are looked up in the cache;     *)
(* nothing is looked up when no address is watched                         *)
StartBlock ==
  /\ scan.pc = "lock"
  /\ ScannerReads
  /\ LET inputs == IF watched = {} THEN <<>> ELSE InputsOf(last + 1)
         txids  == [i \in DOMAIN inputs |-> inputs[i][1]]
         needed == ToSet(txids) \ ToSet(tx_cache)
     IN  /\ scan' = [pc |-> "transactions", seen |-> watched,
                     known |-> ToSet(txids) \cap ToSet(tx_cache), needed |-> needed]
         /\ Request(needed)
         /\ tx_cache' = FoldLeft(Touch, tx_cache, txids)
  /\ UNCHANGED <<last, utxo, restarts, top, since, dropped, report>>

(* Outputs of the block's inputs whose transaction is not among txs        *)
Missing(seen, txs) ==
  {o \in SpentIn(last + 1) : seen # {} /\ o[1] \notin txs}

(* The fetched transactions come as a map and go into the cache in any     *)
(* order; the outputs whose transaction is missing are asked for           *)
CacheTransactions ==
  /\ scan.pc = "transactions" /\ rpc.todo = {}
  /\ \E order \in SetToSeqs(rpc.got) : tx_cache' = FoldLeft(Put, tx_cache, order)
  /\ scan' = [pc |-> "outputs", seen |-> scan.seen, known |-> scan.known,
              needed |-> scan.needed, fetched |-> rpc.got]
  /\ Request(Missing(scan.seen, scan.known \cup rpc.got))
  /\ UNCHANGED <<last, utxo, restarts, top, since, dropped, report, lockVars>>

(* A mutation: a transaction one of whose inputs cannot be resolved is     *)
(* skipped as a whole, with the outputs it creates                         *)
UpdatesSkipping(h, seen, txs, found) ==
  LET resolved(t) == \A o \in ToSet(Spends[t]) : o[1] \in txs \/ o \in found
  IN  [creates |-> {o \in CreatedIn(h) :
                      AddressOf(o) \in seen /\ (o[1] = Chain[h][1] \/ resolved(o[1]))},
       spends  |-> {o \in SpentIn(h) : /\ AddressOf(o) \in seen
                                       /\ o[1] \in txs \/ o \in found}]

(* What a block means for the addresses seen, with the transactions known  *)
(* and the outputs found by gettxout                                       *)
Updates(h, seen, txs, found) ==
  [creates |-> {o \in CreatedIn(h) : AddressOf(o) \in seen},
   spends  |-> {o \in SpentIn(h) : /\ AddressOf(o) \in seen
                                   /\ o[1] \in txs \/ o \in found}]

(* The block is sent, and the storage service processes it                 *)
Report(update) ==
  /\ scan.pc = "outputs" /\ rpc.todo = {}
  /\ utxo' = ProcessBlockUtxos(utxo, last + 1, update)
  /\ last' = last + 1 /\ top' = Greater(top, last')
  /\ dropped' = (dropped \/ scan.fetched # scan.needed)
  /\ report' = [height |-> last + 1, seen |-> scan.seen, update |-> update,
                complete |-> scan.fetched = scan.needed]
  /\ scan' = NotScanning
  /\ rpc' = NoRequest
  /\ UNCHANGED <<tx_cache, restarts, since, lockVars>>

(* A mutation: the transactions are taken from the cache after the new     *)
(* ones have been put there, and some of the known ones are gone           *)
FinishBlockFromCache ==
  Report(Updates(last + 1, scan.seen, ToSet(tx_cache) \cup scan.fetched, rpc.got))

(* A mutation: the addresses watched by now                                *)
FinishBlockLateSet ==
  Report(Updates(last + 1, watched, scan.known \cup scan.fetched, rpc.got))

FinishBlock ==
  Report(Updates(last + 1, scan.seen, scan.known \cup scan.fetched, rpc.got))

(* The storage service cannot be reached: the block is scanned again       *)
SendFails ==
  /\ Faulty
  /\ scan.pc = "outputs" /\ rpc.todo = {}
  /\ scan' = NotScanning
  /\ rpc' = NoRequest
  /\ UNCHANGED <<last, tx_cache, utxo, restarts, top, since, dropped, report, lockVars>>

IndexerStep ==
  \/ BeginBlock \/ NextCall \/ LastCall
  \/ BatchAnswered \/ CallRefused \/ RequestFails
  \/ StartBlock \/ CacheTransactions \/ FinishBlock \/ SendFails

-----------------------------------------------------------------------------
(* The API, and restarts                                                   *)

indexerVars == <<last, tx_cache, scan, utxo, restarts, top, dropped, report, rpc>>

(* A block whose scan has copied the set is scanned without the address    *)
AddressWatched(a) ==
  /\ Watch(a)
  /\ since' = [since EXCEPT ![a] = IF scan.pc \in {"transactions", "outputs"}
                                     THEN Greater(top, last + 1) ELSE top]
  /\ UNCHANGED indexerVars

LockGranted ==
  \/ \E a \in Watchable : AddressWatched(a)
  \/ \E s \in Signers : BeginSelecting(s) /\ UNCHANGED <<indexerVars, since>>

SelectionEnds(s) == EndSelecting(s) /\ UNCHANGED <<indexerVars, since>>

RequestArrives ==
  /\ \/ \E a \in Watchable : AskToWatch(a)
     \/ \E s \in Signers : AskToSign(s) /\ (LateSigning \/ restarts = 0)
  /\ UNCHANGED <<indexerVars, since>>

(* The watch set, the cache, the height and every request are kept in      *)
(* memory only                                                             *)
Restart ==
  /\ restarts < MaxRestarts
  /\ restarts' = restarts + 1
  /\ last' = StartHeight - 1
  /\ watched' = {} /\ holders' = {} /\ waiting' = <<>>
  /\ since' = [a \in Watchable |-> NULL]
  /\ tx_cache' = <<>>
  /\ scan' = NotScanning
  /\ rpc' = NoRequest
  /\ UNCHANGED <<utxo, top, dropped, report>>

Next ==
  \/ IndexerStep
  \/ RequestArrives
  \/ LockGranted
  \/ \E s \in Signers : SelectionEnds(s)
  \/ Restart

(* The scan goes on, a lock is granted when it can be, and the storage     *)
(* service answers the requests of a selection                             *)
Fairness ==
  /\ WF_vars(IndexerStep)
  /\ WF_vars(LockGranted)
  /\ \A s \in Signers : WF_vars(SelectionEnds(s))

Spec == Init /\ [][Next]_vars /\ Fairness

-----------------------------------------------------------------------------
(* What the storage service lists of a block                               *)

(* get_utxos_for_block_and_address                                         *)
GetUtxosForBlockAndAddress(h, a) ==
  {o \in GetAllUtxosForBlock(utxo, h) : AddressOf(o) = a}

(* The transaction of block h that spends an output                        *)
Spenders(o, h) ==
  {t \in ToSet(Chain[h]) : t # Chain[h][1] /\ Contains(Spends[t], o)}

(* get_block_txids: the spending transactions of these outputs, too        *)
BlockTxids(h) ==
  LET rows == GetAllUtxosForBlock(utxo, h)
  IN  {o[1] : o \in rows}
        \cup UNION {Spenders(o, h) : o \in {r \in rows : utxo[r].spent = h}}

-----------------------------------------------------------------------------
(* Properties                                                              *)

(* A report says neither less nor more of the addresses watched when its   *)
(* scan began than the block does, whatever was in the cache, evicted from *)
(* it meanwhile or asked for twice, unless the node's answer for a         *)
(* transaction was lost                                                    *)
ReportsAreExact ==
  report # NoReport /\ report.complete =>
    LET mine(S) == {o \in S : AddressOf(o) \in report.seen}
    IN  report.update = [creates |-> mine(CreatedIn(report.height)),
                         spends  |-> mine(SpentIn(report.height))]

(* As long as the indexer does not restart and no answer of the node is    *)
(* lost, no query at a scanned height returns an output that was spent:    *)
(* whoever's creation was reported, its spend is                           *)
NothingStale ==
  restarts = 0 /\ ~dropped =>
    \A k \in StartHeight .. last : Spendable(utxo, k) \subseteq Unspent(k)

(* Queries are exact for outputs created in blocks that came after their   *)
(* address was watched, and the outputs are listed at their block,         *)
(* whatever happened before ("Every new block is scanned", "begins         *)
(* receiving UTXO updates immediately", README.md)                         *)
NewOutputsTracked ==
  ~dropped =>
    \A c, k \in StartHeight .. last : c <= k =>
      \A o \in CreatedIn(c) :
        /\ AddressOf(o) \in watched
        /\ c > since[AddressOf(o)]
        => /\ o \in Spendable(utxo, k) <=> o \in Unspent(k)
           /\ o \in GetUtxosForBlockAndAddress(c, AddressOf(o))

(* Answers of the node that are lost hide spends and nothing else: the     *)
(* outputs of blocks that came after their address was watched are listed  *)
(* at their block and answered as long as they are unspent, though the     *)
(* transactions that their own one spends could not be fetched, and        *)
(* whatever was lost before a restart (process_transaction_chunk goes on   *)
(* after an input it cannot resolve)                                       *)
LossesHideSpendsOnly ==
  \A c, k \in StartHeight .. last : c <= k =>
    \A o \in CreatedIn(c) :
      /\ AddressOf(o) \in watched
      /\ c > since[AddressOf(o)]
      => /\ o \in Unspent(k) => o \in Spendable(utxo, k)
         /\ o \in GetUtxosForBlockAndAddress(c, AddressOf(o))

(* A scan comes to an end, reported or given up, however often the node    *)
(* refuses to answer: its retries do not go on for ever                    *)
ScanEnds == scan # NotScanning ~> scan = NotScanning

(* Whoever asks for the lock is granted it: a sign request that holds it   *)
(* while the storage service answers delays a request to watch an address, *)
(* and the scan behind it, but does not block them                         *)
WatchGranted ==
  \A a \in Watchable : Waits(a) ~> ~Waits(a)

(* The indexer reaches the top of the chain unless the node or the storage *)
(* service keeps failing                                                   *)
CatchesUp ==
  <>[][~RequestFails /\ ~SendFails]_vars => <>[](last = MaxHeight)

(* A transaction of a block that spends an output known to the storage     *)
(* service is in the block's list ("Get transaction IDs in a specific      *)
(* block", README.md; "Also include spending transactions that happened in *)
(* this block", database.rs)                                               *)
SpendersListed ==
  \A h \in StartHeight .. last : \A o \in Outputs :
    utxo[o].spent = h => Spenders(o, h) \subseteq BlockTxids(h)
=============================================================================
