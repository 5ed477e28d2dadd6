------------------------------ MODULE ScanProofs ------------------------------
(***************************************************************************)
(* Proofs about Scan, for every chain, every set of watched addresses and  *)
(* every size of the cache.                                                *)
(***************************************************************************)
EXTENDS Scan, UtxoStoreProofs, SequenceLemmas

USE MaxHeightAssumption, StartHeightAssumption

TxidsOf(h) == {o[1] : o \in SpentIn(h)}

(* The transactions a scan knows and those it asks for are together those  *)
(* that the inputs of its block refer to, unless nothing is watched.       *)
(* Which of them were in the cache does not matter, nor what becomes of    *)
(* the cache.                                                              *)
ScanCovers ==
  scan.pc \in {"transactions", "outputs"} /\ scan.seen # {} =>
    scan.known \cup scan.needed = TxidsOf(last + 1)

ReportFollows == ScanCovers /\ ReportsAreExact

(* What is left of a block when nothing is missing                         *)
Mine(S, seen) == {o \in S : AddressOf(o) \in seen}

LEMMA UpdatesExact ==
  ASSUME NEW h, NEW seen, NEW txs, NEW found,
         seen # {} => TxidsOf(h) \subseteq txs
  PROVE  Updates(h, seen, txs, found) =
           [creates |-> Mine(CreatedIn(h), seen), spends |-> Mine(SpentIn(h), seen)]
<1>1. \A o \in SpentIn(h) : AddressOf(o) \in seen => o[1] \in txs
  BY DEF TxidsOf
<1>2. QED
  BY <1>1 DEF Updates, Mine

LEMMA TxidsAreInputs ==
  ASSUME NEW h,
         NEW txids, txids = [i \in DOMAIN InputsOf(h) |-> InputsOf(h)[i][1]]
  PROVE  ToSet(txids) = TxidsOf(h)
BY DEF ToSet, TxidsOf, SpentIn

LEMMA InitFollows == Init => ReportFollows
BY DEF Init, ReportFollows, ScanCovers, ReportsAreExact, NotScanning

(* Neither the block nor the transactions of the scan change, nor the      *)
(* last report                                                             *)
LEMMA Unaffected ==
  ASSUME ReportFollows, UNCHANGED <<last, report>>,
         \/ UNCHANGED scan
         \/ scan'.pc \in {"idle", "call", "lock"}
  PROVE  ReportFollows'
BY DEF ReportFollows, ScanCovers, ReportsAreExact, TxidsOf, CreatedIn, SpentIn,
       InputsOf, AddressOf

LEMMA ReportExact ==
  ASSUME ReportFollows, FinishBlock
  PROVE  ReportsAreExact'
<1> DEFINE h      == last + 1
           txs    == scan.known \cup scan.fetched
           update == Updates(h, scan.seen, txs, rpc.got)
<1>1. /\ scan.pc = "outputs"
      /\ report' = [height |-> h, seen |-> scan.seen, update |-> update,
                    complete |-> scan.fetched = scan.needed]
  BY DEF FinishBlock, Report
<1>2. ASSUME scan.fetched = scan.needed
      PROVE  update = [creates |-> Mine(CreatedIn(h), scan.seen),
                       spends  |-> Mine(SpentIn(h), scan.seen)]
  <2>1. scan.seen # {} => TxidsOf(h) \subseteq txs
    BY <1>1, <1>2 DEF ReportFollows, ScanCovers
  <2>2. QED
    BY <2>1, UpdatesExact
<1> HIDE DEF update, txs, h
<1>3. QED
  BY <1>1, <1>2 DEF ReportsAreExact, Mine

LEMMA NextFollows == ReportFollows /\ [Next]_vars => ReportFollows'
<1> SUFFICES ASSUME ReportFollows, [Next]_vars
             PROVE  ReportFollows'
  OBVIOUS
<1>1. CASE BeginBlock
  <2>1. UNCHANGED last /\ report' = NoReport /\ scan'.pc = "call"
    BY <1>1 DEF BeginBlock
  <2>2. QED
    BY <2>1 DEF ReportFollows, ScanCovers, ReportsAreExact
<1>2. CASE NextCall
  BY <1>2, Unaffected DEF NextCall
<1>3. CASE LastCall
  BY <1>3, Unaffected DEF LastCall
<1>4. CASE BatchAnswered \/ CallRefused
  BY <1>4, Unaffected DEF BatchAnswered, CallRefused
<1>5. CASE RequestFails \/ SendFails
  BY <1>5, Unaffected DEF RequestFails, SendFails, NotScanning
<1>6. CASE StartBlock
  <2>1. UNCHANGED <<last, report>>
    BY <1>6 DEF StartBlock
  <2>2. ASSUME watched # {}
        PROVE  scan'.known \cup scan'.needed = TxidsOf(last + 1)
    <3> DEFINE txids == [i \in DOMAIN InputsOf(last + 1) |-> InputsOf(last + 1)[i][1]]
    <3>1. /\ scan'.known = ToSet(txids) \cap ToSet(tx_cache)
          /\ scan'.needed = ToSet(txids) \ ToSet(tx_cache)
      BY <1>6, <2>2 DEF StartBlock
    <3>2. ToSet(txids) = TxidsOf(last + 1)
      BY TxidsAreInputs
    <3> HIDE DEF txids
    <3>3. QED
      BY <3>1, <3>2
  <2>3. scan'.seen = watched
    BY <1>6 DEF StartBlock
  <2>4. ScanCovers'
    BY <2>1, <2>2, <2>3 DEF ScanCovers, TxidsOf, SpentIn, InputsOf
  <2>5. QED
    BY <2>1, <2>4 DEF ReportFollows, ReportsAreExact, CreatedIn, SpentIn,
                      InputsOf, AddressOf
<1>7. CASE CacheTransactions
  <2>1. /\ UNCHANGED <<last, report>>
        /\ scan.pc = "transactions"
        /\ scan' = [pc |-> "outputs", seen |-> scan.seen, known |-> scan.known,
                    needed |-> scan.needed, fetched |-> rpc.got]
    BY <1>7 DEF CacheTransactions
  <2>2. ScanCovers'
    BY <2>1 DEF ReportFollows, ScanCovers, TxidsOf, SpentIn, InputsOf
  <2>3. QED
    BY <2>1, <2>2 DEF ReportFollows, ReportsAreExact, CreatedIn, SpentIn,
                      InputsOf, AddressOf
<1>8. CASE FinishBlock
  <2>1. scan' = NotScanning
    BY <1>8 DEF FinishBlock, Report
  <2>2. ScanCovers'
    BY <2>1 DEF ScanCovers, NotScanning
  <2>3. QED
    BY <1>8, <2>2, ReportExact DEF ReportFollows
<1>9. CASE LockGranted
  BY <1>9, Unaffected DEF LockGranted, AddressWatched, indexerVars
<1>10. CASE RequestArrives \/ \E s \in Signers : SelectionEnds(s)
  BY <1>10, Unaffected DEF RequestArrives, SelectionEnds, indexerVars
<1>11. CASE Restart
  <2>1. UNCHANGED report /\ scan'.pc = "idle"
    BY <1>11 DEF Restart, NotScanning
  <2>2. QED
    BY <2>1 DEF ReportFollows, ScanCovers, ReportsAreExact, CreatedIn, SpentIn,
                InputsOf, AddressOf
<1>12. CASE UNCHANGED vars
  BY <1>12, Unaffected DEF vars
<1>13. QED
  BY <1>1, <1>2, <1>3, <1>4, <1>5, <1>6, <1>7, <1>8, <1>9, <1>10, <1>11, <1>12
     DEF Next, IndexerStep

(* Every report says of the addresses watched when its scan began exactly  *)
(* what the block does, unless an answer of the node was lost: the cache   *)
(* of transactions may be of any size and lose any entry at any time       *)
(* (process_transactions)                                                  *)
THEOREM ReportsExact == Spec => []ReportsAreExact
<1>1. Init => ReportFollows
  BY InitFollows
<1>2. ReportFollows /\ [Next]_vars => ReportFollows'
  BY NextFollows
<1>3. ReportFollows => ReportsAreExact
  BY DEF ReportFollows
<1>4. QED
  BY <1>1, <1>2, <1>3, PTL DEF Spec

-----------------------------------------------------------------------------
(* The rows of the table, as far as the chain was scanned                  *)

(* No block spends an output of its own: such a spend is lost              *)
(* (FollowerInBlock)                                                       *)
NoInBlockSpends ==
  \A h \in StartHeight .. MaxHeight : CreatedIn(h) \cap SpentIn(h) = {}

Scanning == scan.pc \in {"transactions", "outputs"}

ScanTypes ==
  /\ last \in StartHeight - 1 .. MaxHeight
  /\ top \in last .. MaxHeight
  /\ utxo \in [Outputs -> UtxoRow]
  /\ watched \subseteq Watchable
  /\ since \in [Watchable -> Heights \cup {NULL}]
  /\ restarts \in Nat /\ dropped \in BOOLEAN
  /\ scan.pc \in {"idle", "call", "lock", "transactions", "outputs"}
  /\ scan.pc # "idle" => last < MaxHeight
  /\ Scanning => scan.seen \subseteq watched

(* Outputs of blocks that no indexer has scanned yet are not in the table  *)
NeverScanned ==
  \A c \in StartHeight .. MaxHeight : \A o \in CreatedIn(c) :
    c > top => utxo[o] = NoUtxoRow

(* Since an address was watched, only blocks above the highest one of that *)
(* time were scanned for the first time, and those with the address        *)
SinceTop ==
  \A a \in watched :
    /\ top <= since[a] \/ top <= last
    /\ Scanning /\ a \notin scan.seen => last + 1 <= since[a]

(* The row of an output created at height c says which of the blocks up to *)
(* n spends it                                                             *)
Tracks(row, o, c, n) ==
  /\ row.height = c
  /\ \A j \in StartHeight .. n : o \in SpentIn(j) => row.spent = j
  /\ row.spent # NULL => row.spent \in StartHeight .. n /\ o \in SpentIn(row.spent)

NewTracked ==
  ~dropped =>
    \A c \in StartHeight .. last : \A o \in CreatedIn(c) :
      AddressOf(o) \in watched /\ c > since[AddressOf(o)] => Tracks(utxo[o], o, c, last)

(* The row of an output created at height c says no more than the blocks   *)
(* up to n do, whatever answers were lost                                  *)
Keeps(row, o, c, n) ==
  /\ row.height = c
  /\ row.spent # NULL => row.spent \in StartHeight .. n /\ o \in SpentIn(row.spent)

NewKept ==
  \A c \in StartHeight .. last : \A o \in CreatedIn(c) :
    AddressOf(o) \in watched /\ c > since[AddressOf(o)] => Keeps(utxo[o], o, c, last)

(* Until the first restart, whatever is in the table is still watched      *)
RowsWatched ==
  restarts = 0 =>
    \A o \in Outputs : utxo[o].height # NULL =>
      /\ AddressOf(o) \in watched
      /\ Scanning => AddressOf(o) \in scan.seen

(* A row says that its output was created at its height, and is still      *)
(* unspent or spent where it says; or that it was spent there, and was     *)
(* created before its address was watched                                  *)
SaysTruth(row, o, n) ==
  /\ row.height \in StartHeight .. n
  /\ IF row.spent = NULL
       THEN /\ o \in CreatedIn(row.height)
            /\ \A j \in StartHeight .. n : o \notin SpentIn(j)
       ELSE /\ row.spent \in StartHeight .. n /\ o \in SpentIn(row.spent)
            /\ o \in CreatedIn(row.height) \/ row.height = row.spent

RowsTrue ==
  restarts = 0 /\ ~dropped =>
    \A o \in Outputs : utxo[o].height # NULL => SaysTruth(utxo[o], o, last)

TrackInv ==
  /\ ScanTypes /\ NeverScanned /\ SinceTop
  /\ NewTracked /\ NewKept /\ RowsWatched /\ RowsTrue

-----------------------------------------------------------------------------
(* One block more                                                          *)

LEMMA ScanHeights ==
  /\ StartHeight \in Int /\ 0 <= StartHeight /\ MaxHeight \in Int
  /\ StartHeight <= MaxHeight /\ NULL = -1
BY DEF NULL

LEMMA AppliedIs ==
  ASSUME NEW r \in UtxoRow, NEW o, NEW h \in Heights, NEW b,
         o \in b.creates => o \notin b.spends
  PROVE  /\ o \in b.creates =>
              /\ r.height = NULL => Applied(r, o, h, b) = [height |-> h, spent |-> NULL]
              /\ r.height # NULL =>
                   Applied(r, o, h, b) = [height |-> r.height, spent |-> NULL]
         /\ o \in b.spends =>
              /\ r.height = NULL => Applied(r, o, h, b) = [height |-> h, spent |-> h]
              /\ r.height # NULL =>
                   Applied(r, o, h, b) = [height |-> r.height, spent |-> h]
         /\ o \notin b.creates /\ o \notin b.spends => Applied(r, o, h, b) = r
BY DEF Applied, Upsert, UtxoRow

(* The creation is recorded, in a row that was empty                       *)
LEMMA TracksCreation ==
  ASSUME NoInBlockSpends, NEW c \in StartHeight .. MaxHeight,
         NEW o \in Outputs, o \in CreatedIn(c)
  PROVE  Tracks([height |-> c, spent |-> NULL], o, c, c)
<1>1. ASSUME NEW j \in StartHeight .. c, o \in SpentIn(j)
      PROVE  FALSE
  <2>1. j \in StartHeight .. MaxHeight
    BY ScanHeights
  <2>2. c <= j
    BY <1>1, <2>1, ChainAssumption
  <2>3. j = c
    BY <2>2, ScanHeights
  <2>4. QED
    BY <1>1, <2>3 DEF NoInBlockSpends
<1>2. QED
  BY <1>1 DEF Tracks

(* The next block is scanned with the output's address                     *)
LEMMA TracksNext ==
  ASSUME NEW n \in StartHeight - 1 .. MaxHeight - 1,
         NEW c \in StartHeight .. n, NEW o \in Outputs, o \in CreatedIn(c),
         NEW r \in UtxoRow, Tracks(r, o, c, n),
         NEW b, o \notin b.creates, o \in b.spends <=> o \in SpentIn(n + 1)
  PROVE  Tracks(Applied(r, o, n + 1, b), o, c, n + 1)
<1>0. /\ n \in Int /\ n + 1 \in Heights /\ n + 1 \in StartHeight .. MaxHeight
      /\ r.height = c /\ c # NULL
      /\ StartHeight .. n + 1 = (StartHeight .. n) \cup {n + 1}
      /\ \A j \in StartHeight .. n : j \in StartHeight .. MaxHeight /\ j # n + 1
      /\ n + 1 # NULL
  BY ScanHeights DEF Heights, Tracks
<1>1. CASE o \in SpentIn(n + 1)
  <2>1. Applied(r, o, n + 1, b) = [height |-> c, spent |-> n + 1]
    BY <1>0, <1>1, AppliedIs
  <2>2. \A j \in StartHeight .. n : o \notin SpentIn(j)
    BY <1>0, <1>1, ChainAssumption
  <2>3. QED
    BY <1>0, <1>1, <2>1, <2>2 DEF Tracks
<1>2. CASE o \notin SpentIn(n + 1)
  <2>1. Applied(r, o, n + 1, b) = r
    BY <1>0, <1>2, AppliedIs
  <2>2. QED
    BY <1>0, <1>2, <2>1 DEF Tracks
<1>3. QED
  BY <1>1, <1>2

(* The same, if the block's spend may have been lost                       *)
LEMMA KeepsNext ==
  ASSUME NEW n \in StartHeight - 1 .. MaxHeight - 1,
         NEW c \in StartHeight .. n, NEW o \in Outputs,
         NEW r \in UtxoRow, Keeps(r, o, c, n),
         NEW b, o \notin b.creates, o \in b.spends => o \in SpentIn(n + 1)
  PROVE  Keeps(Applied(r, o, n + 1, b), o, c, n + 1)
<1>0. /\ n \in Int /\ n + 1 \in Heights /\ r.height = c /\ c # NULL
      /\ StartHeight .. n + 1 = (StartHeight .. n) \cup {n + 1}
      /\ n + 1 # NULL
  BY ScanHeights DEF Heights, Keeps
<1>1. CASE o \in b.spends
  <2>1. Applied(r, o, n + 1, b) = [height |-> c, spent |-> n + 1]
    BY <1>0, <1>1, AppliedIs
  <2>2. QED
    BY <1>0, <1>1, <2>1 DEF Keeps
<1>2. CASE o \notin b.spends
  <2>1. Applied(r, o, n + 1, b) = r
    BY <1>0, <1>2, AppliedIs
  <2>2. QED
    BY <1>0, <2>1 DEF Keeps
<1>3. QED
  BY <1>1, <1>2

(* The next block touches an output that was in the table already, or not  *)
LEMMA TruthNext ==
  ASSUME NoInBlockSpends, NEW n \in StartHeight - 1 .. MaxHeight - 1, NEW o \in Outputs,
         NEW r \in UtxoRow, r.height # NULL => SaysTruth(r, o, n),
         NEW b, o \in b.creates => o \in CreatedIn(n + 1),
         o \in b.spends => o \in SpentIn(n + 1),
         r.height # NULL /\ o \in SpentIn(n + 1) => o \in b.spends,
         Applied(r, o, n + 1, b).height # NULL
  PROVE  SaysTruth(Applied(r, o, n + 1, b), o, n + 1)
<1>0. /\ n \in Int /\ n + 1 \in Heights /\ n + 1 \in StartHeight .. MaxHeight
      /\ StartHeight .. n + 1 = (StartHeight .. n) \cup {n + 1}
      /\ \A j \in StartHeight .. n : j \in StartHeight .. MaxHeight /\ j # n + 1 /\ ~(n + 1 <= j)
      /\ n + 1 # NULL
  BY ScanHeights DEF Heights
<1>1. o \in b.creates => o \notin b.spends
  BY <1>0 DEF NoInBlockSpends
<1>2. CASE o \in b.creates
  <2>1. r.height = NULL
    <3>1. SUFFICES ASSUME r.height # NULL PROVE FALSE
      OBVIOUS
    <3>2. SaysTruth(r, o, n) /\ o \in CreatedIn(n + 1)
      BY <1>2, <3>1
    <3>3. \A j \in StartHeight .. n : o \notin CreatedIn(j) /\ o \notin SpentIn(j)
      BY <1>0, <3>2, ChainAssumption
    <3>4. QED
      BY <3>2, <3>3 DEF SaysTruth
  <2>2. Applied(r, o, n + 1, b) = [height |-> n + 1, spent |-> NULL]
    BY <1>0, <1>1, <1>2, <2>1, AppliedIs
  <2>3. \A j \in StartHeight .. n + 1 : o \notin SpentIn(j)
    BY <1>0, <1>2, ChainAssumption DEF NoInBlockSpends
  <2>4. QED
    BY <1>0, <1>2, <2>2, <2>3 DEF SaysTruth
<1>3. CASE o \in b.spends
  <2>1. CASE r.height = NULL
    <3>1. Applied(r, o, n + 1, b) = [height |-> n + 1, spent |-> n + 1]
      BY <1>0, <1>1, <1>3, <2>1, AppliedIs
    <3>2. QED
      BY <1>0, <1>3, <3>1 DEF SaysTruth
  <2>2. CASE r.height # NULL
    <3>1. Applied(r, o, n + 1, b) = [height |-> r.height, spent |-> n + 1]
      BY <1>0, <1>1, <1>3, <2>2, AppliedIs
    <3>2. r.spent = NULL
      BY <1>0, <1>3, <2>2, ChainAssumption DEF SaysTruth
    <3>3. QED
      BY <1>0, <1>3, <2>2, <3>1, <3>2 DEF SaysTruth
  <2>3. QED
    BY <2>1, <2>2
<1>4. CASE o \notin b.creates /\ o \notin b.spends
  <2>1. Applied(r, o, n + 1, b) = r
    BY <1>0, <1>1, <1>4, AppliedIs
  <2>2. o \notin SpentIn(n + 1) /\ SaysTruth(r, o, n)
    BY <1>4, <2>1
  <2>3. QED
    BY <1>0, <2>1, <2>2 DEF SaysTruth
<1>5. QED
  BY <1>2, <1>3, <1>4

-----------------------------------------------------------------------------
(* The steps                                                               *)

LEMMA TrackInit == Init => TrackInv
<1> SUFFICES ASSUME Init PROVE TrackInv
  OBVIOUS
<1>1. /\ watched = {} /\ last = StartHeight - 1 /\ top = last /\ scan.pc = "idle"
      /\ since = [a \in Watchable |-> NULL] /\ restarts = 0 /\ dropped = FALSE
      /\ utxo = [o \in Outputs |-> NoUtxoRow]
  BY DEF Init, WatchSetInit, NotScanning
<1>2. ScanTypes
  <2>1. NoUtxoRow \in UtxoRow
    BY DEF NoUtxoRow, UtxoRow
  <2>2. QED
    <3>1. last \in StartHeight - 1 .. MaxHeight /\ top \in last .. MaxHeight
      BY <1>1, ScanHeights
    <3>2. utxo \in [Outputs -> UtxoRow] /\ since \in [Watchable -> Heights \cup {NULL}]
      BY <1>1, <2>1
    <3>3. QED
      BY <1>1, <3>1, <3>2 DEF ScanTypes, Scanning
<1>3. NeverScanned /\ RowsWatched /\ RowsTrue
  BY <1>1 DEF NeverScanned, RowsWatched, RowsTrue, NoUtxoRow, CreatedIn
<1>4. SinceTop /\ NewTracked /\ NewKept
  BY <1>1, ScanHeights DEF SinceTop, NewTracked, NewKept
<1>5. QED
  BY <1>2, <1>3, <1>4 DEF TrackInv

(* A step of the scan that leaves table and watch set alone: it ends, goes *)
(* on, or starts with the addresses watched now                            *)
LEMMA ScanGoesOn ==
  ASSUME TrackInv,
         UNCHANGED <<last, top, utxo, since, watched, restarts, dropped>>,
         scan'.pc \in {"idle", "call", "lock", "transactions", "outputs"},
         scan'.pc # "idle" => last < MaxHeight,
         Scanning' => scan'.seen = watched \/ (Scanning /\ scan'.seen = scan.seen)
  PROVE  TrackInv'
<1>1. ScanTypes'
  BY DEF TrackInv, ScanTypes, Scanning
<1>2. NeverScanned' /\ NewTracked' /\ NewKept' /\ RowsTrue'
  BY DEF TrackInv, NeverScanned, NewTracked, NewKept, RowsTrue, CreatedIn, AddressOf
<1>3. SinceTop'
  BY DEF TrackInv, SinceTop
<1>4. RowsWatched'
  BY DEF TrackInv, RowsWatched, AddressOf
<1>5. QED
  BY <1>1, <1>2, <1>3, <1>4 DEF TrackInv

LEMMA NextTracked ==
  NewTracked' <=>
    (~dropped' =>
       \A c \in StartHeight .. last' : \A o \in CreatedIn(c) :
         AddressOf(o) \in watched' /\ c > since'[AddressOf(o)]
           => Tracks(utxo'[o], o, c, last'))
BY DEF NewTracked, CreatedIn, AddressOf, Tracks, SpentIn, InputsOf

LEMMA NextKept ==
  NewKept' <=>
    \A c \in StartHeight .. last' : \A o \in CreatedIn(c) :
      AddressOf(o) \in watched' /\ c > since'[AddressOf(o)]
        => Keeps(utxo'[o], o, c, last')
BY DEF NewKept, CreatedIn, AddressOf, Keeps, SpentIn, InputsOf

(* An address is watched: nothing of the table is promised for it yet      *)
LEMMA WatchKeepsTrack ==
  ASSUME TrackInv, NEW a \in Watchable, AddressWatched(a)
  PROVE  TrackInv'
<1>1. /\ UNCHANGED <<last, top, utxo, restarts, dropped, scan>>
      /\ watched' = watched \cup {a}
      /\ since' = [since EXCEPT ![a] = IF Scanning THEN Greater(top, last + 1) ELSE top]
  BY DEF AddressWatched, Watch, indexerVars, Scanning
<1>2. /\ last \in Int /\ top \in Int /\ last <= top /\ top <= MaxHeight
      /\ Scanning => last + 1 <= MaxHeight
      /\ top \in Heights \cup {NULL} /\ last + 1 \in Int /\ 0 <= last + 1
  BY ScanHeights DEF TrackInv, ScanTypes, Scanning, Heights
<1>3. /\ since'[a] = IF Scanning THEN Greater(top, last + 1) ELSE top
      /\ since' \in [Watchable -> Heights \cup {NULL}]
      /\ \A x \in Watchable : x # a => since'[x] = since[x]
  <2>1. Scanning => Greater(top, last + 1) \in Heights \cup {NULL}
    BY <1>2, ScanHeights DEF Greater, Heights
  <2>2. QED
    BY <1>1, <1>2, <2>1 DEF TrackInv, ScanTypes
<1>4. top <= since'[a] /\ since'[a] \in Int /\ (Scanning => last + 1 <= since'[a])
  BY <1>2, <1>3 DEF Greater
<1>5. ScanTypes'
  BY <1>1, <1>3 DEF TrackInv, ScanTypes, Scanning
<1>6. NeverScanned' /\ RowsTrue' /\ RowsWatched'
  BY <1>1 DEF TrackInv, NeverScanned, RowsTrue, RowsWatched, Scanning, CreatedIn, AddressOf
<1>7. SinceTop'
  BY <1>1, <1>3, <1>4 DEF TrackInv, SinceTop, ScanTypes, Scanning
<1>8. NewTracked' /\ NewKept'
  <2> SUFFICES ASSUME NEW c \in StartHeight .. last, NEW o \in CreatedIn(c),
                      AddressOf(o) \in watched', c > since'[AddressOf(o)]
               PROVE  /\ ~dropped => Tracks(utxo[o], o, c, last)
                      /\ Keeps(utxo[o], o, c, last)
    BY <1>1, NextTracked, NextKept
  <2>1. AddressOf(o) # a
    <3>1. c <= top /\ c \in Int
      BY <1>2, ScanHeights
    <3>2. ~(c > since'[a])
      BY <1>4, <1>2, <3>1
    <3>3. QED
      BY <3>2
  <2>2. AddressOf(o) \in watched /\ AddressOf(o) \in Watchable
    BY <1>1, <2>1 DEF TrackInv, ScanTypes
  <2>3. QED
    BY <1>3, <2>1, <2>2 DEF TrackInv, NewTracked, NewKept
<1>9. QED
  BY <1>5, <1>6, <1>7, <1>8 DEF TrackInv

(* A restart forgets the addresses, so that nothing is promised            *)
LEMMA RestartKeepsTrack ==
  ASSUME TrackInv, Restart
  PROVE  TrackInv'
<1>1. /\ restarts' = restarts + 1 /\ last' = StartHeight - 1
      /\ watched' = {} /\ since' = [a \in Watchable |-> NULL] /\ scan'.pc = "idle"
      /\ UNCHANGED <<utxo, top, dropped>>
  BY DEF Restart, NotScanning
<1>2. restarts' \in Nat /\ restarts' # 0
  BY <1>1 DEF TrackInv, ScanTypes
<1>3. ScanTypes'
  BY <1>1, <1>2, ScanHeights DEF TrackInv, ScanTypes, Scanning
<1>4. NeverScanned'
  BY <1>1 DEF TrackInv, NeverScanned, CreatedIn
<1>5. SinceTop' /\ RowsWatched' /\ RowsTrue' /\ NewTracked' /\ NewKept'
  BY <1>1, <1>2 DEF SinceTop, RowsWatched, RowsTrue, NewTracked, NewKept
<1>6. QED
  BY <1>3, <1>4, <1>5 DEF TrackInv

(* A block is reported: what the table says of the block                   *)
LEMMA ReportIs ==
  ASSUME TrackInv, ReportFollows, FinishBlock
  PROVE  LET b == report'.update
         IN  /\ scan.pc = "outputs" /\ Scanning /\ scan'.pc = "idle"
             /\ last' = last + 1 /\ top' = Greater(top, last + 1)
             /\ UNCHANGED <<since, watched, restarts>>
             /\ dropped' \in BOOLEAN /\ (dropped => dropped')
             /\ utxo' = ProcessBlockUtxos(utxo, last + 1, b)
             /\ b.creates = Mine(CreatedIn(last + 1), scan.seen)
             /\ b.spends \subseteq Mine(SpentIn(last + 1), scan.seen)
             /\ ~dropped' => b.spends = Mine(SpentIn(last + 1), scan.seen)
<1> DEFINE h      == last + 1
           txs    == scan.known \cup scan.fetched
           update == Updates(h, scan.seen, txs, rpc.got)
<1>1. /\ scan.pc = "outputs" /\ scan' = NotScanning
      /\ last' = h /\ top' = Greater(top, last')
      /\ UNCHANGED <<since, watched, restarts>>
      /\ dropped' = (dropped \/ scan.fetched # scan.needed)
      /\ utxo' = ProcessBlockUtxos(utxo, h, update)
      /\ report'.update = update
  BY DEF FinishBlock, Report, lockVars
<1>2. /\ update.creates = Mine(CreatedIn(h), scan.seen)
      /\ update.spends \subseteq Mine(SpentIn(h), scan.seen)
  BY DEF Updates, Mine
<1>3. ASSUME scan.fetched = scan.needed
      PROVE  update.spends = Mine(SpentIn(h), scan.seen)
  <2>1. scan.seen # {} => TxidsOf(h) \subseteq txs
    BY <1>1, <1>3 DEF ReportFollows, ScanCovers
  <2>2. update = [creates |-> Mine(CreatedIn(h), scan.seen),
                  spends  |-> Mine(SpentIn(h), scan.seen)]
    BY <2>1, UpdatesExact
  <2>3. QED
    BY <2>2
<1> HIDE DEF update
<1>4. QED
  BY <1>1, <1>2, <1>3 DEF Scanning, NotScanning

LEMMA ProcessedType ==
  ASSUME NEW u \in [Outputs -> UtxoRow], NEW h \in Heights, NEW b
  PROVE  ProcessBlockUtxos(u, h, b) \in [Outputs -> UtxoRow]
<1>1. BulkUpsert(u, b.spends, h, h) \in [Outputs -> UtxoRow]
  BY UpsertType DEF BulkUpsert
<1>2. QED
  BY <1>1, UpsertType DEF ProcessBlockUtxos, BulkUpsert

LEMMA GreaterIs ==
  ASSUME NEW a \in Int, NEW b \in Int
  PROVE  /\ Greater(a, b) \in {a, b} /\ a <= Greater(a, b) /\ b <= Greater(a, b)
BY DEF Greater

LEMMA ReportKeepsTrack ==
  ASSUME NoInBlockSpends, TrackInv, ReportFollows, FinishBlock
  PROVE  TrackInv'
<1> DEFINE b == report'.update
           h == last + 1
<1>1. /\ scan.pc = "outputs" /\ Scanning /\ scan'.pc = "idle"
      /\ last' = h /\ top' = Greater(top, h)
      /\ UNCHANGED <<since, watched, restarts>>
      /\ dropped' \in BOOLEAN /\ (dropped => dropped')
      /\ utxo' = ProcessBlockUtxos(utxo, h, b)
      /\ b.creates = Mine(CreatedIn(h), scan.seen)
      /\ b.spends \subseteq Mine(SpentIn(h), scan.seen)
      /\ ~dropped' => b.spends = Mine(SpentIn(h), scan.seen)
  BY ReportIs
<1> HIDE DEF b
<1>2. /\ last \in StartHeight - 1 .. MaxHeight - 1 /\ last \in Int /\ top \in Int
      /\ last <= top /\ top <= MaxHeight
      /\ h \in Heights /\ h \in StartHeight .. MaxHeight
      /\ utxo \in [Outputs -> UtxoRow] /\ scan.seen \subseteq watched
  BY <1>1, ScanHeights DEF TrackInv, ScanTypes, Scanning, Heights
<1>3. /\ utxo' \in [Outputs -> UtxoRow]
      /\ \A o \in Outputs : utxo'[o] = Applied(utxo[o], o, h, b)
  BY <1>1, <1>2, ProcessedType, ProcessIsApplied
<1>4. /\ \A o : o \in b.creates <=> o \in CreatedIn(h) /\ AddressOf(o) \in scan.seen
      /\ \A o : o \in b.spends => o \in SpentIn(h) /\ AddressOf(o) \in scan.seen
      /\ ~dropped' =>
           \A o : o \in SpentIn(h) /\ AddressOf(o) \in scan.seen => o \in b.spends
      /\ \A o : o \in b.creates => o \notin b.spends
  BY <1>1, <1>2 DEF Mine, NoInBlockSpends
<1>5. /\ h <= top' /\ top <= top' /\ top' \in h .. MaxHeight /\ top' \in {top, h}
  BY <1>1, <1>2, GreaterIs
<1>6. ScanTypes'
  BY <1>1, <1>2, <1>3, <1>5 DEF TrackInv, ScanTypes, Scanning
<1>7. NeverScanned'
  <2> SUFFICES ASSUME NEW c \in StartHeight .. MaxHeight, NEW o \in CreatedIn(c), c > top'
               PROVE  utxo'[o] = NoUtxoRow
    BY DEF NeverScanned, CreatedIn
  <2>1. o \in Outputs /\ c # h /\ ~(c <= h) /\ c > top
    BY <1>2, <1>5, ScanHeights DEF CreatedIn
  <2>2. o \notin CreatedIn(h) /\ o \notin SpentIn(h)
    BY <1>2, <2>1, ChainAssumption
  <2>3. o \notin b.creates /\ o \notin b.spends
    BY <1>4, <2>2
  <2>4. utxo'[o] = utxo[o]
    BY <1>2, <1>3, <2>1, <2>3, AppliedIs
  <2>5. QED
    BY <2>1, <2>4 DEF TrackInv, NeverScanned
<1>8. SinceTop'
  <2> SUFFICES ASSUME NEW a \in watched
               PROVE  top' <= since[a] \/ top' <= h
    BY <1>1 DEF SinceTop, Scanning
  <2>1. top <= since[a] \/ top <= last
    BY DEF TrackInv, SinceTop
  <2>2. QED
    BY <1>2, <1>5, <2>1
<1>9. NewTracked' /\ NewKept'
  <2> SUFFICES ASSUME NEW c \in StartHeight .. h, NEW o \in CreatedIn(c),
                      AddressOf(o) \in watched, c > since[AddressOf(o)]
               PROVE  /\ ~dropped' => Tracks(utxo'[o], o, c, h)
                      /\ Keeps(utxo'[o], o, c, h)
    BY <1>1, NextTracked, NextKept
  <2>1. o \in Outputs /\ c \in StartHeight .. MaxHeight
    BY <1>2, ScanHeights DEF CreatedIn
  <2>2. AddressOf(o) \in scan.seen
    <3>1. since[AddressOf(o)] \in Int
      BY ScanHeights DEF TrackInv, ScanTypes, Heights
    <3>2. ~(h <= since[AddressOf(o)])
      BY <1>2, <3>1, ScanHeights
    <3>3. QED
      BY <1>1, <3>2 DEF TrackInv, SinceTop
  <2>3. CASE c = h
    <3>1. utxo[o] = NoUtxoRow
      <4>1. since[AddressOf(o)] \in Int
        BY ScanHeights DEF TrackInv, ScanTypes, Heights
      <4>2. top <= since[AddressOf(o)] \/ top <= last
        BY DEF TrackInv, SinceTop
      <4>3. c > top
        BY <1>2, <2>3, <4>1, <4>2
      <4>4. QED
        BY <2>1, <4>3 DEF TrackInv, NeverScanned
    <3>2. o \in b.creates
      BY <1>4, <2>2, <2>3
    <3>3. NoUtxoRow \in UtxoRow /\ NoUtxoRow.height = NULL
      BY DEF NoUtxoRow, UtxoRow
    <3>4. utxo'[o] = [height |-> c, spent |-> NULL]
      BY <1>2, <1>3, <1>4, <2>1, <2>3, <3>1, <3>2, <3>3, AppliedIs
    <3>5. Tracks(utxo'[o], o, c, h)
      BY <2>1, <2>3, <3>4, TracksCreation
    <3>6. QED
      BY <3>5 DEF Tracks, Keeps
  <2>4. CASE c # h
    <3>1. c \in StartHeight .. last
      BY <1>2, <2>4
    <3>2. o \notin b.creates
      BY <1>2, <1>4, <2>1, <2>4, ChainAssumption
    <3>3. ASSUME ~dropped' PROVE Tracks(utxo'[o], o, c, h)
      <4>1. Tracks(utxo[o], o, c, last)
        BY <1>1, <3>1, <3>3 DEF TrackInv, NewTracked
      <4>2. o \in b.spends <=> o \in SpentIn(h)
        BY <1>4, <2>2, <3>3
      <4>3. QED
        BY <1>2, <1>3, <2>1, <3>1, <3>2, <4>1, <4>2, TracksNext
    <3>4. Keeps(utxo'[o], o, c, h)
      <4>1. Keeps(utxo[o], o, c, last)
        BY <3>1 DEF TrackInv, NewKept
      <4>2. o \in b.spends => o \in SpentIn(h)
        BY <1>4
      <4>3. QED
        BY <1>2, <1>3, <2>1, <3>1, <3>2, <4>1, <4>2, KeepsNext
    <3>5. QED
      BY <3>3, <3>4
  <2>5. QED
    BY <2>3, <2>4
<1>10. RowsWatched'
  <2> SUFFICES ASSUME restarts = 0, NEW o \in Outputs, utxo'[o].height # NULL
               PROVE  AddressOf(o) \in watched
    BY <1>1 DEF RowsWatched, Scanning, AddressOf
  <2>1. CASE o \in b.creates \/ o \in b.spends
    BY <1>2, <1>4, <2>1
  <2>2. CASE o \notin b.creates /\ o \notin b.spends
    BY <1>2, <1>3, <2>2, AppliedIs DEF TrackInv, RowsWatched
  <2>3. QED
    BY <2>1, <2>2
<1>11. RowsTrue'
  <2> SUFFICES ASSUME restarts = 0, ~dropped', NEW o \in Outputs, utxo'[o].height # NULL
               PROVE  SaysTruth(utxo'[o], o, h)
    BY <1>1 DEF RowsTrue, SaysTruth, CreatedIn, SpentIn, InputsOf
  <2>1. utxo[o].height # NULL => SaysTruth(utxo[o], o, last) /\ AddressOf(o) \in scan.seen
    BY <1>1 DEF TrackInv, RowsTrue, RowsWatched
  <2>2. /\ utxo[o] \in UtxoRow /\ utxo'[o] = Applied(utxo[o], o, last + 1, b)
        /\ o \in b.creates => o \in CreatedIn(last + 1)
        /\ o \in b.spends => o \in SpentIn(last + 1)
        /\ utxo[o].height # NULL /\ o \in SpentIn(last + 1) => o \in b.spends
    BY <1>2, <1>3, <1>4, <2>1
  <2>3. QED
    BY <1>2, <2>1, <2>2, TruthNext
<1>12. QED
  BY <1>6, <1>7, <1>8, <1>9, <1>10, <1>11 DEF TrackInv

LEMMA TrackStep ==
  NoInBlockSpends /\ TrackInv /\ ReportFollows /\ [Next]_vars => TrackInv'
<1> SUFFICES ASSUME NoInBlockSpends, TrackInv, ReportFollows, [Next]_vars
             PROVE  TrackInv'
  OBVIOUS
<1>0. /\ scan.pc \in {"idle", "call", "lock", "transactions", "outputs"}
      /\ scan.pc # "idle" => last < MaxHeight
  BY DEF TrackInv, ScanTypes
<1>1. CASE BeginBlock \/ NextCall \/ LastCall
  <2>1. /\ UNCHANGED <<last, top, utxo, since, watched, restarts, dropped>>
        /\ scan'.pc \in {"call", "lock"} /\ last < MaxHeight
    BY <1>0, <1>1 DEF BeginBlock, NextCall, LastCall, lockVars
  <2>2. QED
    BY <2>1, ScanGoesOn DEF Scanning
<1>2. CASE StartBlock \/ CacheTransactions
  <2>1. /\ UNCHANGED <<last, top, utxo, since, watched, restarts, dropped>>
        /\ scan.pc \in {"lock", "transactions"} /\ scan'.pc \in {"transactions", "outputs"}
        /\ scan'.seen = watched \/ (Scanning /\ scan'.seen = scan.seen)
    BY <1>2 DEF StartBlock, ScannerReads, CacheTransactions, lockVars, Scanning
  <2>2. QED
    BY <1>0, <2>1, ScanGoesOn
<1>3. CASE RequestFails \/ SendFails
  <2>1. /\ UNCHANGED <<last, top, utxo, since, watched, restarts, dropped>>
        /\ scan'.pc = "idle"
    BY <1>3 DEF RequestFails, SendFails, NotScanning, lockVars
  <2>2. QED
    BY <2>1, ScanGoesOn DEF Scanning
<1>4. CASE UNCHANGED <<last, top, utxo, since, watched, restarts, dropped, scan>>
  BY <1>0, <1>4, ScanGoesOn DEF Scanning
<1>5. CASE BatchAnswered \/ CallRefused
  BY <1>4, <1>5 DEF BatchAnswered, CallRefused, lockVars
<1>6. CASE FinishBlock
  BY <1>6, ReportKeepsTrack
<1>7. CASE RequestArrives \/ \E s \in Signers : SelectionEnds(s)
  BY <1>4, <1>7
  DEF RequestArrives, SelectionEnds, EndSelecting, AskToWatch, AskToSign, indexerVars
<1>8. CASE LockGranted
  <2>1. CASE \E s \in Signers : BeginSelecting(s) /\ UNCHANGED <<indexerVars, since>>
    BY <1>4, <2>1 DEF BeginSelecting, indexerVars
  <2>2. QED
    BY <1>8, <2>1, WatchKeepsTrack DEF LockGranted
<1>9. CASE Restart
  BY <1>9, RestartKeepsTrack
<1>10. CASE UNCHANGED vars
  BY <1>4, <1>10 DEF vars
<1>11. QED
  BY <1>1, <1>2, <1>3, <1>5, <1>6, <1>7, <1>8, <1>9, <1>10 DEF Next, IndexerStep

LEMMA UnspentIs ==
  ASSUME NEW h, NEW o
  PROVE  o \in Unspent(h) <=> /\ \E k \in StartHeight .. h : o \in CreatedIn(k)
                              /\ \A k \in StartHeight .. h : o \notin SpentIn(k)
<1> DEFINE C == UNION {CreatedIn(k) : k \in StartHeight .. h}
           S == UNION {SpentIn(k) : k \in StartHeight .. h}
<1>1. Unspent(h) = C \ S
  BY DEF Unspent
<1>2. /\ o \in C <=> \E k \in StartHeight .. h : o \in CreatedIn(k)
      /\ o \in S <=> \E k \in StartHeight .. h : o \in SpentIn(k)
  OBVIOUS
<1> HIDE DEF C, S
<1>3. QED
  BY <1>1, <1>2

(* A row that says the truth up to n answers no query up to n with an      *)
(* output that was spent                                                   *)
LEMMA TruthNotStale ==
  ASSUME NEW n \in StartHeight - 1 .. MaxHeight, NEW u \in [Outputs -> UtxoRow],
         NEW o \in Outputs, u[o].height # NULL => SaysTruth(u[o], o, n),
         NEW k \in StartHeight .. n, o \in Spendable(u, k)
  PROVE  o \in Unspent(k)
<1> DEFINE r == u[o]
<1>1. /\ r.height # NULL /\ r.height <= k
      /\ r.spent = NULL \/ r.spent > k
      /\ SaysTruth(r, o, n) /\ r \in UtxoRow
  BY DEF Spendable
<1>2. /\ r.height \in StartHeight .. k
      /\ \A i \in StartHeight .. k : i \in StartHeight .. n /\ i \in StartHeight .. MaxHeight
  BY <1>1, ScanHeights DEF SaysTruth
<1>3. o \in CreatedIn(r.height)
  BY <1>1, <1>2, ScanHeights DEF SaysTruth
<1>4. ASSUME NEW i \in StartHeight .. k, o \in SpentIn(i)
      PROVE  FALSE
  <2>1. r.spent # NULL
    BY <1>1, <1>2, <1>4 DEF SaysTruth
  <2>2. r.spent = i
    <3>1. r.spent \in StartHeight .. MaxHeight /\ o \in SpentIn(r.spent)
      BY <1>1, <2>1, ScanHeights DEF SaysTruth
    <3>2. QED
      BY <1>2, <1>4, <3>1, ChainAssumption
  <2>3. QED
    BY <1>1, <2>1, <2>2, ScanHeights
<1>5. QED
  BY <1>2, <1>3, <1>4, UnspentIs

LEMMA TrackNotStale == TrackInv => NothingStale
<1> SUFFICES ASSUME TrackInv, restarts = 0, ~dropped,
                    NEW k \in StartHeight .. last, NEW o \in Spendable(utxo, k)
             PROVE  o \in Unspent(k)
  BY DEF NothingStale
<1>1. /\ last \in StartHeight - 1 .. MaxHeight /\ utxo \in [Outputs -> UtxoRow]
      /\ o \in Outputs
  BY DEF TrackInv, ScanTypes, Spendable
<1>2. utxo[o].height # NULL => SaysTruth(utxo[o], o, last)
  BY <1>1 DEF TrackInv, RowsTrue
<1>3. QED
  BY <1>1, <1>2, TruthNotStale

(* A row that tracks an output created at c answers exactly from c on      *)
LEMMA TracksExact ==
  ASSUME NEW n \in StartHeight - 1 .. MaxHeight, NEW u \in [Outputs -> UtxoRow],
         NEW o \in Outputs, NEW c \in StartHeight .. n, o \in CreatedIn(c),
         Tracks(u[o], o, c, n), NEW k \in StartHeight .. n, c <= k
  PROVE  o \in Spendable(u, k) <=> o \in Unspent(k)
<1> DEFINE r == u[o]
<1>1. /\ r.height = c /\ r.height # NULL /\ r.height <= k /\ r \in UtxoRow
      /\ c \in StartHeight .. k
      /\ \A i \in StartHeight .. k : i \in StartHeight .. n
  BY ScanHeights DEF Tracks
<1>2. o \in Unspent(k) <=> \A i \in StartHeight .. k : o \notin SpentIn(i)
  BY <1>1, UnspentIs
<1>3. o \in Spendable(u, k) <=> r.spent = NULL \/ r.spent > k
  BY <1>1 DEF Spendable
<1>4. CASE r.spent = NULL
  <2>1. \A i \in StartHeight .. k : o \notin SpentIn(i)
    BY <1>1, <1>4, ScanHeights DEF Tracks
  <2>2. QED
    BY <1>2, <1>3, <1>4, <2>1
<1>5. CASE r.spent # NULL
  <2>1. r.spent \in StartHeight .. n /\ o \in SpentIn(r.spent)
    BY <1>5 DEF Tracks
  <2>2. \A i \in StartHeight .. k : o \in SpentIn(i) => r.spent = i
    BY <1>1 DEF Tracks
  <2>3. (\A i \in StartHeight .. k : o \notin SpentIn(i)) <=> r.spent > k
    BY <2>1, <2>2, ScanHeights
  <2>4. QED
    BY <1>2, <1>3, <1>5, <2>3
<1>6. QED
  BY <1>4, <1>5

LEMMA TrackExact == TrackInv => NewOutputsTracked
<1> SUFFICES ASSUME TrackInv, ~dropped,
                    NEW c \in StartHeight .. last, NEW k \in StartHeight .. last, c <= k,
                    NEW o \in CreatedIn(c),
                    AddressOf(o) \in watched, c > since[AddressOf(o)]
             PROVE  /\ o \in Spendable(utxo, k) <=> o \in Unspent(k)
                    /\ o \in GetUtxosForBlockAndAddress(c, AddressOf(o))
  BY DEF NewOutputsTracked
<1>1. /\ last \in StartHeight - 1 .. MaxHeight /\ utxo \in [Outputs -> UtxoRow]
      /\ o \in Outputs
  BY DEF TrackInv, ScanTypes, CreatedIn
<1>2. Tracks(utxo[o], o, c, last)
  BY DEF TrackInv, NewTracked
<1>3. o \in Spendable(utxo, k) <=> o \in Unspent(k)
  BY <1>1, <1>2, TracksExact
<1>4. o \in GetUtxosForBlockAndAddress(c, AddressOf(o))
  BY <1>1, <1>2 DEF Tracks, GetUtxosForBlockAndAddress, GetAllUtxosForBlock
<1>5. QED
  BY <1>3, <1>4

LEMMA TrackKeeps == TrackInv => LossesHideSpendsOnly
<1> SUFFICES ASSUME TrackInv,
                    NEW c \in StartHeight .. last, NEW k \in StartHeight .. last, c <= k,
                    NEW o \in CreatedIn(c),
                    AddressOf(o) \in watched, c > since[AddressOf(o)]
             PROVE  /\ o \in Unspent(k) => o \in Spendable(utxo, k)
                    /\ o \in GetUtxosForBlockAndAddress(c, AddressOf(o))
  BY DEF LossesHideSpendsOnly
<1>1. /\ last \in StartHeight - 1 .. MaxHeight /\ utxo \in [Outputs -> UtxoRow]
      /\ o \in Outputs
  BY DEF TrackInv, ScanTypes, CreatedIn
<1>2. Keeps(utxo[o], o, c, last)
  BY DEF TrackInv, NewKept
<1>3. ASSUME o \in Unspent(k) PROVE o \in Spendable(utxo, k)
  <2>1. \A i \in StartHeight .. k : o \notin SpentIn(i)
    BY <1>3, UnspentIs
  <2>2. utxo[o].spent # NULL => utxo[o].spent > k
    BY <1>1, <1>2, <2>1, ScanHeights DEF Keeps
  <2>3. utxo[o].height = c /\ c # NULL
    BY <1>2, ScanHeights DEF Keeps
  <2>4. QED
    BY <1>1, <2>2, <2>3 DEF Spendable
<1>4. o \in GetUtxosForBlockAndAddress(c, AddressOf(o))
  BY <1>1, <1>2 DEF Keeps, GetUtxosForBlockAndAddress, GetAllUtxosForBlock
<1>5. QED
  BY <1>3, <1>4

LEMMA TrackHolds == NoInBlockSpends => (Spec => []TrackInv)
<1> SUFFICES ASSUME NoInBlockSpends PROVE Spec => []TrackInv
  OBVIOUS
<1>1. Init => TrackInv /\ ReportFollows
  BY TrackInit, InitFollows
<1>2. TrackInv /\ ReportFollows /\ [Next]_vars => TrackInv' /\ ReportFollows'
  BY TrackStep, NextFollows
<1>3. QED
  BY <1>1, <1>2, PTL DEF Spec

(* Until the indexer restarts, and as long as the node's answers arrive,   *)
(* whoever's creation was reported, its spend is: the watch set only       *)
(* grows, and the block that spends an output is scanned with its address  *)
(* (process_transaction_chunk, watch_address_handler).                     *)
THEOREM NothingIsStale == NoInBlockSpends => (Spec => []NothingStale)
BY TrackHolds, TrackNotStale, PTL

(* Outputs of blocks that came after their address was watched are         *)
(* answered for exactly, and listed at their block, through restarts,      *)
(* failed scans and addresses watched while a block is being scanned       *)
(* (process_transactions, get_utxos_for_block_and_address).                *)
THEOREM NewOutputsAreTracked == NoInBlockSpends => (Spec => []NewOutputsTracked)
BY TrackHolds, TrackExact, PTL

(* Whatever answers of the node are lost, in whatever scan and before      *)
(* whatever restart, the outputs of blocks that came after their address   *)
(* was watched are in the table at their height, and are answered as long  *)
(* as they are unspent (process_transaction_chunk).                        *)
THEOREM LossesHideOnlySpends == NoInBlockSpends => (Spec => []LossesHideSpendsOnly)
BY TrackHolds, TrackKeeps, PTL

-----------------------------------------------------------------------------
(* The types of the scan                                                   *)

(* What the cache of transactions may hold                                 *)
Caches == {c \in Seq(Tx) : Len(c) <= CacheSize /\ IsInjective(c)}

Contenders == Watchable \cup Signers \cup {Scanner}

(* The scan waits for the lock exactly when that is its next step, and     *)
(* nobody waits for what it holds                                          *)
LockTypes ==
  /\ watched \subseteq Watchable /\ holders \subseteq Signers
  /\ waiting \in Seq(Contenders) /\ IsInjective(waiting)
  /\ \A s \in holders : s \notin ToSet(waiting)
  /\ Scanner \in ToSet(waiting) <=> scan.pc = "lock"

(* A request is for transactions of the chain when what was answered goes  *)
(* into the cache                                                          *)
RequestTypes ==
  /\ rpc = [todo |-> rpc.todo, got |-> rpc.got, attempt |-> rpc.attempt]
  /\ rpc.attempt \in Nat /\ rpc.attempt < Attempts
  /\ rpc.todo \cap rpc.got = {}
  /\ scan.pc \in {"idle", "lock"} => rpc = NoRequest
  /\ scan.pc = "transactions" =>
       rpc.todo \cup rpc.got \subseteq Tx /\ IsFiniteSet(rpc.todo \cup rpc.got)

ProgressTypes ==
  /\ last \in StartHeight - 1 .. MaxHeight
  /\ utxo \in [Outputs -> UtxoRow]
  /\ scan.pc \in {"idle", "call", "lock", "transactions", "outputs"}
  /\ scan.pc # "idle" => last < MaxHeight
  /\ Scanning => scan.seen \subseteq watched

ScanTyped == LockTypes /\ RequestTypes /\ ProgressTypes /\ tx_cache \in Caches

-----------------------------------------------------------------------------
(* The cache                                                               *)

LEMMA TouchStays ==
  ASSUME NEW cache \in Caches, NEW t
  PROVE  Touch(cache, t) \in Caches
<1>1. cache \in Seq(Tx) /\ IsInjective(cache) /\ Len(cache) <= CacheSize
  BY DEF Caches
<1>2. CASE Contains(cache, t)
  <2>1. t \in ToSet(cache)
    BY <1>1, <1>2, ContainsIs
  <2>2. t \in Tx
    BY <1>1, <2>1 DEF ToSet
  <2> DEFINE rest == RemoveFirst(cache, t)
  <2>3. /\ rest \in Seq(Tx) /\ IsInjective(rest) /\ t \notin ToSet(rest)
        /\ Len(rest) = Len(cache) - 1
    BY <1>1, <2>1, RemoveFirstIs
  <2> HIDE DEF rest
  <2>4. /\ Cons(t, rest) \in Seq(Tx) /\ Len(Cons(t, rest)) = Len(rest) + 1
        /\ IsInjective(Cons(t, rest))
    BY <2>2, <2>3, ConsIs
  <2>5. Len(cache) \in Nat
    BY <1>1
  <2>6. Cons(t, rest) \in Caches
    BY <1>1, <2>3, <2>4, <2>5 DEF Caches
  <2>7. Touch(cache, t) = Cons(t, rest)
    BY <1>2 DEF Touch, rest
  <2>8. QED
    BY <2>6, <2>7
<1>3. CASE ~Contains(cache, t)
  BY <1>3 DEF Touch
<1>4. QED
  BY <1>2, <1>3

LEMMA PutStays ==
  ASSUME NEW cache \in Caches, NEW t \in Tx
  PROVE  Put(cache, t) \in Caches
<1>1. cache \in Seq(Tx) /\ IsInjective(cache)
  BY DEF Caches
<1> DEFINE rest == RemoveFirst(cache, t)
           all == Cons(t, rest)
           n == Lesser(Len(all), CacheSize)
<1>2. rest \in Seq(Tx) /\ IsInjective(rest) /\ t \notin ToSet(rest)
  BY <1>1, RemoveFirstIs
<1> HIDE DEF rest
<1>3. all \in Seq(Tx) /\ IsInjective(all)
  BY <1>2, ConsIs
<1> HIDE DEF all
<1>4. Len(all) \in Nat /\ DOMAIN all = 1 .. Len(all) /\ CacheSize \in Nat
  BY <1>3, ScanAssumption
<1>5. n \in 0 .. Len(all) /\ n <= CacheSize
  BY <1>4 DEF Lesser
<1> HIDE DEF n
<1>6. /\ SubSeq(all, 1, n) \in Seq(Tx) /\ Len(SubSeq(all, 1, n)) = n
      /\ DOMAIN SubSeq(all, 1, n) = 1 .. n
      /\ \A i \in 1 .. n : SubSeq(all, 1, n)[i] = all[i]
  BY <1>3, <1>4, <1>5
<1>7. \A i \in 1 .. n : i \in 1 .. Len(all)
  BY <1>4, <1>5
<1>8. IsInjective(SubSeq(all, 1, n))
  BY <1>3, <1>4, <1>6, <1>7 DEF IsInjective
<1>9. SubSeq(all, 1, n) \in Caches
  BY <1>5, <1>6, <1>8 DEF Caches
<1>10. QED
  BY <1>9 DEF Put, all, rest, n

(* Whatever is looked up                                                   *)
LEMMA TouchesStay ==
  ASSUME NEW cache \in Caches, NEW X, NEW s \in Seq(X)
  PROVE  FoldLeft(Touch, cache, s) \in Caches
<1> DEFINE n == Len(s)
           P(f) == f = [q \in SUBSET (1 .. n) |->
                          IF q = {} THEN cache ELSE Touch(f[q \ {Max(q)}], s[Max(q)])]
           c == CHOOSE f : P(f)
           g == [p \in Caches \X (1 .. n) |-> Touch(p[1], s[p[2]])]
<1>1. n \in Nat /\ DOMAIN s = 1 .. n
  OBVIOUS
<1>2. FoldLeft(Touch, cache, s) = c[1 .. n]
  BY <1>1 DEF FoldLeft, MapThenFoldSet
<1> HIDE DEF n
<1>3. g \in [Caches \X (1 .. n) -> Caches]
  BY TouchStays
<1>4. \A d \in Caches : \A i \in 1 .. n : g[<<d, i>>] = Touch(d, s[i])
  OBVIOUS
<1> HIDE DEF g
<1>5. PICK f \in [SUBSET (1 .. n) -> Caches] : FoldsWith(f, g, cache, n)
  BY <1>1, <1>3, FoldExists
<1>6. ASSUME NEW q \in SUBSET (1 .. n), q # {}
      PROVE  g[<<f[q \ {Max(q)}], Max(q)>>] = Touch(f[q \ {Max(q)}], s[Max(q)])
  <2>1. Max(q) \in 1 .. n
    BY <1>1, <1>6, LargestElement
  <2>2. f[q \ {Max(q)}] \in Caches
    OBVIOUS
  <2>3. QED
    BY <1>4, <2>1, <2>2
<1>7. P(f)
  BY <1>5, <1>6 DEF FoldsWith
<1>8. P(c)
  BY <1>7, Zenon
<1> HIDE DEF c
<1>9. FoldAlike(c, f, n)
  BY <1>7, <1>8 DEF FoldAlike
<1>10. c[1 .. n] \in Caches
  BY <1>1, <1>3, <1>5, <1>9, FoldStays
<1>11. QED
  BY <1>2, <1>10

(* ... and fetched                                                         *)
LEMMA PutsStay ==
  ASSUME NEW cache \in Caches, NEW s \in Seq(Tx)
  PROVE  FoldLeft(Put, cache, s) \in Caches
<1> DEFINE n == Len(s)
           P(f) == f = [q \in SUBSET (1 .. n) |->
                          IF q = {} THEN cache ELSE Put(f[q \ {Max(q)}], s[Max(q)])]
           c == CHOOSE f : P(f)
           g == [p \in Caches \X (1 .. n) |-> Put(p[1], s[p[2]])]
<1>1. n \in Nat /\ DOMAIN s = 1 .. n /\ \A i \in 1 .. n : s[i] \in Tx
  OBVIOUS
<1>2. FoldLeft(Put, cache, s) = c[1 .. n]
  BY <1>1 DEF FoldLeft, MapThenFoldSet
<1> HIDE DEF n
<1>3. g \in [Caches \X (1 .. n) -> Caches]
  BY <1>1, PutStays
<1>4. \A d \in Caches : \A i \in 1 .. n : g[<<d, i>>] = Put(d, s[i])
  OBVIOUS
<1> HIDE DEF g
<1>5. PICK f \in [SUBSET (1 .. n) -> Caches] : FoldsWith(f, g, cache, n)
  BY <1>1, <1>3, FoldExists
<1>6. ASSUME NEW q \in SUBSET (1 .. n), q # {}
      PROVE  g[<<f[q \ {Max(q)}], Max(q)>>] = Put(f[q \ {Max(q)}], s[Max(q)])
  <2>1. Max(q) \in 1 .. n
    BY <1>1, <1>6, LargestElement
  <2>2. f[q \ {Max(q)}] \in Caches
    OBVIOUS
  <2>3. QED
    BY <1>4, <2>1, <2>2
<1>7. P(f)
  BY <1>5, <1>6 DEF FoldsWith
<1>8. P(c)
  BY <1>7, Zenon
<1> HIDE DEF c
<1>9. FoldAlike(c, f, n)
  BY <1>7, <1>8 DEF FoldAlike
<1>10. c[1 .. n] \in Caches
  BY <1>1, <1>3, <1>5, <1>9, FoldStays
<1>11. QED
  BY <1>2, <1>10

-----------------------------------------------------------------------------
(* The inputs of a block                                                   *)

LEMMA InputsType ==
  ASSUME NEW h \in StartHeight .. MaxHeight
  PROVE  InputsOf(h) \in Seq(Outputs)
<1> DEFINE lists == [i \in 1 .. Len(Chain[h]) - 1 |-> Spends[Chain[h][i + 1]]]
<1>1. /\ Chain[h] \in Seq(Tx)
      /\ \A i \in 2 .. Len(Chain[h]) : Spends[Chain[h][i]] \in Seq(Outputs)
  BY ScanAssumption
<1>2. Len(Chain[h]) \in Nat
  BY <1>1
<1>3. \A i \in 1 .. Len(Chain[h]) - 1 : i + 1 \in 2 .. Len(Chain[h])
  BY <1>2
<1>4. \A i \in 1 .. Len(Chain[h]) - 1 : lists[i] \in Seq(Outputs)
  BY <1>1, <1>3
<1>5. lists \in Seq(Seq(Outputs))
  <2>1. CASE Len(Chain[h]) = 0
    <3>1. 1 .. Len(Chain[h]) - 1 = 1 .. 0
      BY <2>1
    <3>2. lists \in [1 .. 0 -> Seq(Outputs)]
      BY <1>4, <3>1
    <3> HIDE DEF lists
    <3>3. QED
      BY <3>2
  <2>2. CASE Len(Chain[h]) # 0
    <3>1. Len(Chain[h]) - 1 \in Nat
      BY <1>2, <2>2
    <3>2. lists \in [1 .. Len(Chain[h]) - 1 -> Seq(Outputs)]
      BY <1>4
    <3> HIDE DEF lists
    <3>3. QED
      BY <3>1, <3>2
  <2>3. QED
    BY <2>1, <2>2
<1> HIDE DEF lists
<1>6. FlattenSeq(lists) \in Seq(Outputs)
  BY <1>5, FlattenIs
<1>7. QED
  BY <1>6 DEF InputsOf, lists

(* What a scan that has the lock looks up                                  *)
LEMMA NextInputsType ==
  ASSUME ProgressTypes, scan.pc = "lock"
  PROVE  (IF watched = {} THEN <<>> ELSE InputsOf(last + 1)) \in Seq(Outputs)
<1>1. last + 1 \in StartHeight .. MaxHeight
  BY ScanHeights DEF ProgressTypes
<1>2. InputsOf(last + 1) \in Seq(Outputs)
  BY <1>1, InputsType
<1>3. <<>> \in Seq(Outputs)
  OBVIOUS
<1>4. QED
  BY <1>2, <1>3

LEMMA EmptyCache == <<>> \in Caches
<1>1. \A s : s = <<>> => s \in Seq(Tx) /\ Len(s) = 0 /\ IsInjective(s)
  BY EmptyIs
<1>2. <<>> \in Seq(Tx) /\ Len(<<>>) = 0 /\ IsInjective(<<>>)
  BY <1>1
<1>3. 0 <= CacheSize
  BY ScanAssumption
<1>4. QED
  BY <1>2, <1>3 DEF Caches

LEMMA OutputsOfTx == \A o \in Outputs : o[1] \in Tx
BY ScanAssumption

(* The transactions that a scan asks for                                   *)
LEMMA NeededIs ==
  ASSUME NEW inputs \in Seq(Outputs),
         NEW txids, txids = [i \in DOMAIN inputs |-> inputs[i][1]]
  PROVE  txids \in Seq(Tx) /\ ToSet(txids) \subseteq Tx /\ IsFiniteSet(ToSet(txids))
<1> DEFINE n == Len(inputs)
<1>1. n \in Nat /\ DOMAIN inputs = 1 .. n /\ \A i \in 1 .. n : inputs[i] \in Outputs
  OBVIOUS
<1> HIDE DEF n
<1>2. txids = [i \in 1 .. n |-> inputs[i][1]]
  BY <1>1
<1>3. txids \in [1 .. n -> Tx]
  BY <1>1, <1>2, OutputsOfTx
<1>4. txids \in Seq(Tx) /\ DOMAIN txids = 1 .. n
  BY <1>1, <1>3
<1>5. ToSet(txids) \subseteq Tx
  BY <1>3, <1>4 DEF ToSet
<1>6. ToSet(txids) = {txids[i] : i \in 1 .. n}
  BY <1>4 DEF ToSet
<1>7. IsFiniteSet(1 .. n)
  BY <1>1, FS_Interval
<1>8. IsFiniteSet({txids[i] : i \in 1 .. n})
  <2>1. txids \in Surjection(1 .. n, {txids[i] : i \in 1 .. n})
    BY <1>3 DEF Surjection
  <2>2. QED
    BY <1>7, <2>1, FS_Surjection
<1>9. QED
  BY <1>4, <1>5, <1>6, <1>8

-----------------------------------------------------------------------------
(* The lock                                                                *)

(* Somebody comes who does not hold the lock                               *)
LEMMA ArrivalKeeps ==
  ASSUME LockTypes, NEW t \in Contenders, t \notin holders, Arrives(t),
         UNCHANGED <<watched, holders>>,
         scan'.pc = "lock" <=> scan.pc = "lock" \/ t = Scanner
  PROVE  LockTypes'
<1>1. waiting \in Seq(Contenders) /\ IsInjective(waiting)
  BY DEF LockTypes
<1>2. t \notin ToSet(waiting) /\ waiting' = Append(waiting, t)
  BY <1>1, ContainsIs DEF Arrives, Waits
<1>3. /\ waiting' \in Seq(Contenders) /\ IsInjective(waiting')
      /\ ToSet(waiting') = ToSet(waiting) \cup {t}
  BY <1>1, <1>2, AppendIs
<1>4. \A s \in holders' : s \notin ToSet(waiting')
  BY <1>3 DEF LockTypes
<1>5. Scanner \in ToSet(waiting') <=> scan'.pc = "lock"
  BY <1>3 DEF LockTypes
<1>6. QED
  BY <1>3, <1>4, <1>5 DEF LockTypes

(* Somebody leaves the queue, and may hold the lock from now on            *)
LEMMA DepartureKeeps ==
  ASSUME LockTypes, NEW t \in Contenders, IsNext(t), Leaves(t),
         watched' \subseteq Watchable,
         holders' \subseteq Signers, holders' \subseteq holders \cup {t},
         scan'.pc = "lock" <=> scan.pc = "lock" /\ t # Scanner
  PROVE  LockTypes'
<1>1. waiting \in Seq(Contenders) /\ IsInjective(waiting)
  BY DEF LockTypes
<1>2. waiting' = RemoveFirst(waiting, t)
  BY DEF Leaves
<1>3. /\ waiting' \in Seq(Contenders) /\ IsInjective(waiting')
      /\ t \notin ToSet(waiting')
      /\ \A x \in ToSet(waiting) : x = t \/ x \in ToSet(waiting')
      /\ \A x \in ToSet(waiting') : x \in ToSet(waiting)
  BY <1>1, <1>2, RemoveFirstIs
<1>4. \A s \in holders' : s \notin ToSet(waiting')
  BY <1>3 DEF LockTypes
<1>5. Scanner \in ToSet(waiting') <=> scan'.pc = "lock"
  BY <1>3 DEF LockTypes
<1>6. QED
  BY <1>3, <1>4, <1>5 DEF LockTypes

(* Nobody comes or leaves                                                  *)
LEMMA LockUntouched ==
  ASSUME LockTypes, UNCHANGED <<watched, waiting>>, holders' \subseteq holders,
         scan'.pc = "lock" <=> scan.pc = "lock"
  PROVE  LockTypes'
BY DEF LockTypes

LEMMA ScannerIs == Scanner \in Contenders /\ Scanner \notin Signers
BY WatchSetAssumption DEF Contenders

LEMMA LockKept ==
  ASSUME ScanTyped, [Next]_vars
  PROVE  LockTypes'
<1>1. LockTypes /\ holders \subseteq Signers /\ ProgressTypes /\ RequestTypes
  BY DEF ScanTyped, LockTypes
<1>2. CASE BeginBlock \/ NextCall \/ CacheTransactions \/ FinishBlock \/ SendFails
  <2>1. scan.pc # "lock" /\ scan'.pc # "lock" /\ UNCHANGED lockVars
    BY <1>2 DEF BeginBlock, NextCall, CacheTransactions, FinishBlock, Report, SendFails,
                NotScanning
  <2>2. QED
    BY <1>1, <2>1, LockUntouched DEF lockVars
<1>3. CASE RequestFails
  <2>1. scan.pc # "lock"
    BY <1>1, <1>3 DEF RequestFails, Fails, RequestTypes, NoRequest
  <2>2. scan'.pc # "lock" /\ UNCHANGED lockVars
    BY <1>3 DEF RequestFails, NotScanning
  <2>3. QED
    BY <1>1, <2>1, <2>2, LockUntouched DEF lockVars
<1>4. CASE BatchAnswered \/ CallRefused \/ UNCHANGED vars
  <2>1. UNCHANGED scan /\ UNCHANGED lockVars
    BY <1>4 DEF BatchAnswered, CallRefused, vars, lockVars
  <2>2. QED
    BY <1>1, <2>1, LockUntouched DEF lockVars
<1>5. CASE LastCall
  <2>1. scan'.pc = "lock" /\ Arrives(Scanner) /\ UNCHANGED <<watched, holders>>
    BY <1>5 DEF LastCall
  <2>2. QED
    BY <1>1, <2>1, ScannerIs, ArrivalKeeps
<1>6. CASE StartBlock
  <2>1. scan'.pc = "transactions"
    BY <1>6 DEF StartBlock
  <2>2. IsNext(Scanner) /\ Leaves(Scanner) /\ UNCHANGED <<watched, holders>>
    BY <1>6 DEF StartBlock, ScannerReads
  <2>3. watched' \subseteq Watchable /\ holders' \subseteq Signers
    BY <1>1, <2>2 DEF LockTypes
  <2>4. QED
    BY <1>1, <2>1, <2>2, <2>3, ScannerIs, DepartureKeeps
<1>7. CASE RequestArrives
  <2>1. UNCHANGED scan
    BY <1>7 DEF RequestArrives, indexerVars
  <2>2. ASSUME NEW a \in Watchable, AskToWatch(a) PROVE LockTypes'
    <3>1. Arrives(a) /\ UNCHANGED <<watched, holders>> /\ a \in Contenders
      BY <2>2 DEF AskToWatch, Contenders
    <3>2. a \notin holders /\ a # Scanner
      BY <1>1, WatchSetAssumption
    <3>3. QED
      BY <1>1, <2>1, <3>1, <3>2, ArrivalKeeps
  <2>3. ASSUME NEW s \in Signers, AskToSign(s) PROVE LockTypes'
    <3>1. /\ Arrives(s) /\ UNCHANGED <<watched, holders>> /\ s \in Contenders
          /\ s \notin holders
      BY <2>3 DEF AskToSign, Contenders
    <3>2. s # Scanner
      BY WatchSetAssumption
    <3>3. QED
      BY <1>1, <2>1, <3>1, <3>2, ArrivalKeeps
  <2>4. QED
    BY <1>7, <2>2, <2>3 DEF RequestArrives
<1>8. CASE LockGranted
  <2>1. UNCHANGED scan
    BY <1>8 DEF LockGranted, AddressWatched, indexerVars
  <2>2. ASSUME NEW a \in Watchable, Watch(a) PROVE LockTypes'
    <3>1. /\ IsNext(a) /\ Leaves(a) /\ watched' = watched \cup {a} /\ UNCHANGED holders
          /\ a \in Contenders /\ a # Scanner
      BY <2>2, WatchSetAssumption DEF Watch, Contenders
    <3>2. watched' \subseteq Watchable /\ holders' \subseteq Signers
      BY <1>1, <3>1 DEF LockTypes
    <3>3. holders' \subseteq holders \cup {a}
      BY <3>1
    <3>4. QED
      BY <1>1, <2>1, <3>1, <3>2, <3>3, DepartureKeeps
  <2>3. ASSUME NEW s \in Signers, BeginSelecting(s) PROVE LockTypes'
    <3>1. /\ IsNext(s) /\ Leaves(s) /\ holders' = holders \cup {s} /\ UNCHANGED watched
          /\ s \in Contenders /\ s # Scanner
      BY <2>3, WatchSetAssumption DEF BeginSelecting, Contenders
    <3>2. watched' \subseteq Watchable /\ holders' \subseteq Signers
      BY <1>1, <3>1 DEF LockTypes
    <3>3. QED
      BY <1>1, <2>1, <3>1, <3>2, DepartureKeeps
  <2>4. QED
    BY <1>8, <2>2, <2>3 DEF LockGranted, AddressWatched
<1>9. CASE \E s \in Signers : SelectionEnds(s)
  <2>1. UNCHANGED <<scan, watched, waiting>> /\ holders' \subseteq holders
    BY <1>9 DEF SelectionEnds, EndSelecting, indexerVars
  <2>2. QED
    BY <1>1, <2>1, LockUntouched
<1>10. CASE Restart
  <2>1. watched' = {} /\ holders' = {} /\ waiting' = <<>> /\ scan'.pc = "idle"
    BY <1>10 DEF Restart, NotScanning
  <2>2. waiting' \in Seq(Contenders) /\ IsInjective(waiting') /\ ToSet(waiting') = {}
    BY <2>1, EmptyIs
  <2>3. QED
    BY <2>1, <2>2 DEF LockTypes
<1>11. QED
  BY <1>2, <1>3, <1>4, <1>5, <1>6, <1>7, <1>8, <1>9, <1>10 DEF Next, IndexerStep

-----------------------------------------------------------------------------
(* Requests to the node                                                    *)

LEMMA AttemptsPositive == Attempts \in Nat /\ 0 < Attempts
BY RpcAssumption DEF Attempts

(* A new request, or none                                                  *)
LEMMA RequestMade ==
  ASSUME NEW items, Request(items),
         scan'.pc \in {"idle", "lock"} => items = {},
         scan'.pc = "transactions" => items \subseteq Tx /\ IsFiniteSet(items)
  PROVE  RequestTypes'
<1>1. rpc' = [todo |-> items, got |-> {}, attempt |-> 0]
  BY DEF Request
<1>2. items \cup {} = items
  OBVIOUS
<1>3. QED
  BY <1>1, <1>2, AttemptsPositive DEF RequestTypes, NoRequest

LEMMA NothingAsked == rpc' = NoRequest => Request({})
BY DEF NoRequest, Request

LEMMA RequestKept ==
  ASSUME ScanTyped, [Next]_vars
  PROVE  RequestTypes'
<1>1. RequestTypes /\ ProgressTypes
  BY DEF ScanTyped
<1>2. CASE BeginBlock \/ NextCall
  <2>1. scan'.pc = "call" /\ Request(Single)
    BY <1>2 DEF BeginBlock, NextCall
  <2>2. QED
    BY <2>1, RequestMade
<1>3. CASE LastCall \/ RequestFails \/ FinishBlock \/ SendFails \/ Restart
  <2>1. scan'.pc \in {"idle", "lock"} /\ rpc' = NoRequest
    BY <1>3 DEF LastCall, RequestFails, Fails, FinishBlock, Report, SendFails, Restart,
                NotScanning
  <2>2. QED
    BY <2>1, NothingAsked, RequestMade
<1>4. CASE CacheTransactions
  <2>1. scan'.pc = "outputs"
    BY <1>4 DEF CacheTransactions
  <2>2. PICK items : Request(items)
    BY <1>4 DEF CacheTransactions
  <2>3. QED
    BY <2>1, <2>2, RequestMade
<1>5. CASE StartBlock
  <2> DEFINE inputs == IF watched = {} THEN <<>> ELSE InputsOf(last + 1)
             txids  == [i \in DOMAIN inputs |-> inputs[i][1]]
             needed == ToSet(txids) \ ToSet(tx_cache)
  <2>1. scan.pc = "lock" /\ scan'.pc = "transactions" /\ Request(needed)
    BY <1>5 DEF StartBlock
  <2>2. inputs \in Seq(Outputs)
    BY <1>1, <2>1, NextInputsType
  <2>3. \A x : x = txids => ToSet(x) \subseteq Tx /\ IsFiniteSet(ToSet(x))
    <3> HIDE DEF inputs
    <3>1. QED
      BY <2>2, NeededIs
  <2>4. ToSet(txids) \subseteq Tx /\ IsFiniteSet(ToSet(txids))
    <3> HIDE DEF txids
    <3>1. QED
      BY <2>3
  <2> HIDE DEF txids
  <2>5. needed \subseteq Tx /\ IsFiniteSet(needed)
    <3>1. needed \subseteq ToSet(txids)
      OBVIOUS
    <3>2. QED
      BY <2>4, <3>1, FS_Subset
  <2> HIDE DEF needed
  <2>6. QED
    BY <2>1, <2>5, RequestMade
<1>6. CASE BatchAnswered
  <2>1. PICK batch \in Batches : \E found \in SUBSET batch : Answered(batch, found)
    <3>1. PICK batch \in Batches :
            LET there == IF scan.pc = "outputs" THEN {o \in batch : GetTxOut(o)} ELSE batch
            IN  \E found \in IF Faulty THEN SUBSET there ELSE {there} :
                  Answered(batch, found)
      BY <1>6 DEF BatchAnswered
    <3> DEFINE there == IF scan.pc = "outputs" THEN {o \in batch : GetTxOut(o)} ELSE batch
    <3>2. there \subseteq batch
      OBVIOUS
    <3>3. PICK found \in IF Faulty THEN SUBSET there ELSE {there} : Answered(batch, found)
      BY <3>1
    <3> HIDE DEF there
    <3>4. found \subseteq batch
      BY <3>2, <3>3
    <3>5. QED
      BY <3>3, <3>4
  <2>2. PICK found \in SUBSET batch : Answered(batch, found)
    BY <2>1
  <2>3. batch \subseteq rpc.todo
    BY DEF Batches, kSubset
  <2>4. /\ rpc' = [todo |-> rpc.todo \ batch, got |-> rpc.got \cup found, attempt |-> 0]
        /\ UNCHANGED scan /\ scan.pc \in {"transactions", "outputs"}
    BY <1>6, <2>2 DEF BatchAnswered, Answered
  <2>5. /\ rpc'.todo \cap rpc'.got = {}
        /\ rpc'.todo \cup rpc'.got \subseteq rpc.todo \cup rpc.got
    BY <1>1, <2>2, <2>3, <2>4 DEF RequestTypes
  <2>6. scan.pc = "transactions" =>
          rpc'.todo \cup rpc'.got \subseteq Tx /\ IsFiniteSet(rpc'.todo \cup rpc'.got)
    BY <1>1, <2>5, FS_Subset DEF RequestTypes
  <2>7. QED
    BY <2>4, <2>5, <2>6, AttemptsPositive DEF RequestTypes
<1>7. CASE CallRefused
  <2>1. /\ rpc' = [rpc EXCEPT !.attempt = @ + 1] /\ rpc.attempt + 1 < Attempts
        /\ UNCHANGED scan /\ rpc.todo # {}
    BY <1>7 DEF CallRefused, Refused
  <2>2. rpc' = [todo |-> rpc.todo, got |-> rpc.got, attempt |-> rpc.attempt + 1]
    BY <1>1, <2>1 DEF RequestTypes
  <2>3. scan.pc \notin {"idle", "lock"}
    BY <1>1, <2>1 DEF RequestTypes, NoRequest
  <2>4. QED
    BY <1>1, <2>1, <2>2, <2>3 DEF RequestTypes
<1>8. CASE RequestArrives \/ LockGranted \/ (\E s \in Signers : SelectionEnds(s))
           \/ UNCHANGED vars
  <2>1. UNCHANGED <<rpc, scan>>
    BY <1>8 DEF RequestArrives, LockGranted, AddressWatched, SelectionEnds, indexerVars,
                vars
  <2>2. QED
    BY <1>1, <2>1 DEF RequestTypes
<1>9. QED
  BY <1>2, <1>3, <1>4, <1>5, <1>6, <1>7, <1>8 DEF Next, IndexerStep

-----------------------------------------------------------------------------
(* The cache and the progress of the scan                                  *)

LEMMA CacheKept ==
  ASSUME ScanTyped, [Next]_vars
  PROVE  tx_cache' \in Caches
<1>1. tx_cache \in Caches /\ RequestTypes /\ ProgressTypes
  BY DEF ScanTyped
<1>2. CASE StartBlock
  <2> DEFINE inputs == IF watched = {} THEN <<>> ELSE InputsOf(last + 1)
             txids  == [i \in DOMAIN inputs |-> inputs[i][1]]
  <2>1. scan.pc = "lock" /\ tx_cache' = FoldLeft(Touch, tx_cache, txids)
    BY <1>2 DEF StartBlock
  <2>2. inputs \in Seq(Outputs)
    BY <1>1, <2>1, NextInputsType
  <2>3. \A x : x = txids => x \in Seq(Tx)
    <3> HIDE DEF inputs
    <3>1. QED
      BY <2>2, NeededIs
  <2>4. txids \in Seq(Tx)
    <3> HIDE DEF txids
    <3>1. QED
      BY <2>3
  <2> HIDE DEF txids
  <2>5. QED
    BY <1>1, <2>1, <2>4, TouchesStay
<1>3. CASE CacheTransactions
  <2>1. PICK order \in SetToSeqs(rpc.got) : tx_cache' = FoldLeft(Put, tx_cache, order)
    BY <1>3 DEF CacheTransactions
  <2>2. rpc.got \subseteq Tx /\ IsFiniteSet(rpc.got)
    <3>1. /\ rpc.todo \cup rpc.got \subseteq Tx
          /\ IsFiniteSet(rpc.todo \cup rpc.got)
      BY <1>1, <1>3 DEF CacheTransactions, RequestTypes
    <3>2. rpc.got \subseteq rpc.todo \cup rpc.got
      OBVIOUS
    <3>3. QED
      BY <3>1, <3>2, FS_Subset
  <2>3. Cardinality(rpc.got) \in Nat
    BY <2>2, FS_CardinalityType
  <2>4. order \in [1 .. Cardinality(rpc.got) -> rpc.got]
    BY <2>1 DEF SetToSeqs
  <2>5. order \in Seq(Tx)
    <3>1. order \in [1 .. Cardinality(rpc.got) -> Tx]
      BY <2>2, <2>4
    <3>2. QED
      BY <2>3, <3>1
  <2>6. QED
    BY <1>1, <2>1, <2>5, PutsStay
<1>4. CASE Restart
  <2>1. tx_cache' = <<>>
    BY <1>4 DEF Restart
  <2>2. QED
    BY <2>1, EmptyCache
<1>5. CASE ~StartBlock /\ ~CacheTransactions /\ ~Restart
  <2>1. UNCHANGED tx_cache
    BY <1>5 DEF Next, IndexerStep, BeginBlock, NextCall, LastCall, BatchAnswered,
                CallRefused, RequestFails, FinishBlock, Report, SendFails, RequestArrives,
                LockGranted, AddressWatched, SelectionEnds, indexerVars, vars
  <2>2. QED
    BY <1>1, <2>1
<1>6. QED
  BY <1>2, <1>3, <1>4, <1>5

LEMMA ProgressKept ==
  ASSUME ScanTyped, [Next]_vars
  PROVE  ProgressTypes'
<1>1. ProgressTypes /\ LockTypes /\ RequestTypes
  BY DEF ScanTyped
<1>2. /\ last \in StartHeight - 1 .. MaxHeight /\ utxo \in [Outputs -> UtxoRow]
      /\ watched \subseteq Watchable
  BY <1>1 DEF ProgressTypes, LockTypes
<1>3. CASE BeginBlock
  <2>1. UNCHANGED <<last, utxo, watched>> /\ scan'.pc = "call" /\ last < MaxHeight
    BY <1>3 DEF BeginBlock, lockVars
  <2>2. QED
    BY <1>2, <2>1 DEF ProgressTypes, Scanning
<1>4. CASE NextCall \/ LastCall
  <2>1. /\ UNCHANGED <<last, utxo, watched>> /\ scan'.pc \in {"call", "lock"}
        /\ scan.pc = "call"
    BY <1>4 DEF NextCall, LastCall, lockVars
  <2>2. QED
    BY <1>1, <2>1 DEF ProgressTypes, Scanning
<1>5. CASE RequestFails \/ SendFails
  <2>1. UNCHANGED <<last, utxo, watched>> /\ scan'.pc = "idle"
    BY <1>5 DEF RequestFails, SendFails, lockVars, NotScanning
  <2>2. QED
    BY <1>2, <2>1 DEF ProgressTypes, Scanning
<1>6. CASE StartBlock
  <2>1. /\ UNCHANGED <<last, utxo, watched>> /\ scan.pc = "lock"
        /\ scan'.pc = "transactions" /\ scan'.seen = watched
    BY <1>6 DEF StartBlock, ScannerReads
  <2>2. QED
    BY <1>1, <2>1 DEF ProgressTypes, Scanning
<1>7. CASE CacheTransactions
  <2>1. /\ UNCHANGED <<last, utxo, watched>> /\ scan.pc = "transactions"
        /\ scan'.pc = "outputs" /\ scan'.seen = scan.seen
    BY <1>7 DEF CacheTransactions, lockVars
  <2>2. QED
    BY <1>1, <2>1 DEF ProgressTypes, Scanning
<1>8. CASE FinishBlock
  <2>1. PICK update : Report(update)
    BY <1>8 DEF FinishBlock
  <2>2. /\ scan.pc = "outputs" /\ last' = last + 1 /\ scan'.pc = "idle"
        /\ utxo' = ProcessBlockUtxos(utxo, last + 1, update)
    BY <2>1 DEF Report, NotScanning
  <2>3. last + 1 \in StartHeight .. MaxHeight /\ last + 1 \in Heights
    BY <1>1, <2>2, ScanHeights DEF ProgressTypes, Heights
  <2>4. utxo' \in [Outputs -> UtxoRow]
    BY <1>2, <2>2, <2>3, ProcessedType
  <2>5. QED
    BY <2>2, <2>3, <2>4, ScanHeights DEF ProgressTypes, Scanning
<1>9. CASE LockGranted
  <2>1. UNCHANGED <<last, utxo, scan>> /\ watched \subseteq watched'
    BY <1>9 DEF LockGranted, AddressWatched, Watch, BeginSelecting, indexerVars
  <2>2. QED
    BY <1>1, <2>1 DEF ProgressTypes, Scanning
<1>10. CASE BatchAnswered \/ CallRefused \/ RequestArrives \/ UNCHANGED vars
            \/ \E s \in Signers : SelectionEnds(s)
  <2>1. UNCHANGED <<last, utxo, scan, watched>>
    BY <1>10 DEF BatchAnswered, CallRefused, RequestArrives, AskToWatch, AskToSign,
                 SelectionEnds, EndSelecting, indexerVars, vars, lockVars
  <2>2. QED
    BY <1>1, <2>1 DEF ProgressTypes, Scanning
<1>11. CASE Restart
  <2>1. UNCHANGED utxo /\ last' = StartHeight - 1 /\ scan'.pc = "idle"
    BY <1>11 DEF Restart, NotScanning
  <2>2. QED
    BY <1>2, <2>1, ScanHeights DEF ProgressTypes, Scanning
<1>12. QED
  BY <1>3, <1>4, <1>5, <1>6, <1>7, <1>8, <1>9, <1>10, <1>11 DEF Next, IndexerStep

LEMMA InitTyped == Init => ScanTyped
<1> SUFFICES ASSUME Init PROVE ScanTyped
  OBVIOUS
<1>1. /\ watched = {} /\ holders = {} /\ waiting = <<>> /\ scan.pc = "idle"
      /\ rpc = NoRequest /\ last = StartHeight - 1 /\ tx_cache = <<>>
      /\ utxo = [o \in Outputs |-> NoUtxoRow]
  BY DEF Init, WatchSetInit, NotScanning
<1>2. waiting \in Seq(Contenders) /\ IsInjective(waiting) /\ ToSet(waiting) = {}
  BY <1>1, EmptyIs
<1>3. LockTypes
  BY <1>1, <1>2 DEF LockTypes
<1>4. RequestTypes
  BY <1>1, AttemptsPositive DEF RequestTypes, NoRequest
<1>5. NoUtxoRow \in UtxoRow
  BY DEF NoUtxoRow, UtxoRow
<1>6. ProgressTypes
  BY <1>1, <1>5, ScanHeights DEF ProgressTypes, Scanning
<1>7. QED
  BY <1>1, <1>3, <1>4, <1>6, EmptyCache DEF ScanTyped

LEMMA TypedIsOK == ScanTyped => TypeOK
<1> SUFFICES ASSUME ScanTyped PROVE TypeOK
  OBVIOUS
<1>1. LockTypes /\ RequestTypes /\ ProgressTypes /\ tx_cache \in Caches
  BY DEF ScanTyped
<1>2. waiting \in Seq(Contenders) /\ IsInjective(waiting)
  BY <1>1 DEF LockTypes
<1>3. \A t : Waits(t) <=> t \in ToSet(waiting)
  BY <1>2, ContainsIs DEF Waits
<1>4. ToSet(waiting) \subseteq Contenders
  BY <1>2 DEF ToSet
<1>5. WatchSetTypeOK /\ (Waits(Scanner) <=> scan.pc = "lock")
  BY <1>1, <1>2, <1>3, <1>4 DEF LockTypes, WatchSetTypeOK, Contenders
<1>6. /\ ToSet(tx_cache) \subseteq Tx
      /\ Len(tx_cache) <= CacheSize /\ IsInjective(tx_cache)
  <2>1. tx_cache \in Seq(Tx)
    BY <1>1 DEF Caches
  <2>2. ToSet(tx_cache) \subseteq Tx
    BY <2>1 DEF ToSet
  <2>3. QED
    BY <1>1, <2>2 DEF Caches
<1>7. /\ rpc.attempt < Attempts /\ rpc.todo \cap rpc.got = {}
      /\ scan.pc \in {"idle", "lock"} => rpc = NoRequest
  BY <1>1 DEF RequestTypes
<1>8. QED
  BY <1>1, <1>5, <1>6, <1>7 DEF ProgressTypes, Scanning, TypeOK

(* At every time the cache of transactions holds no transaction twice and  *)
(* no more than it may (LruCache), a request to the node neither asks for  *)
(* what it has nor tries more often than it should (RpcClient), nobody     *)
(* waits for the lock twice or while holding it (RwLock), the scan waits   *)
(* for it when it has to, and it uses addresses that are watched: for      *)
(* every chain whose transactions spend outputs of known ones, whatever    *)
(* the node, the API and restarts do (process_transactions)                *)
THEOREM ScanWellTyped == Spec => []TypeOK
<1>1. ScanTyped /\ [Next]_vars => ScanTyped'
  BY LockKept, RequestKept, ProgressKept, CacheKept DEF ScanTyped
<1>2. QED
  BY InitTyped, <1>1, TypedIsOK, PTL DEF Spec
=============================================================================
