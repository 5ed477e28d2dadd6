-------------------------------- MODULE Wallet --------------------------------
(***************************************************************************)
(* The HTTP API of the indexer (api.rs): watching addresses, selecting     *)
(* outputs, preparing and signing transactions, with concurrent requests.  *)
(* The storage service behind it has the rows that Ledger allows (Follower *)
(* implements Ledger).  It answers for one address at a time, while blocks *)
(* and reorganisations come in, each in the two statements of its handler, *)
(* and admits what its latest block allows.                                *)
(*                                                                         *)
(* A prepare request that finds its key in the cache, or misses it and     *)
(* lists the watched addresses, is one step: the two locks are taken one   *)
(* after the other and nothing that comes in between depends on the first. *)
(***************************************************************************)
EXTENDS Selection

CONSTANTS
  Requests,     \* requests that are handled at the same time
  Questions,    \* what can be asked
  StartHeight,  \* the first height with an answer
  MaxHeight,    \* bound on the heights
  MaxReorgs,    \* bound on the reorganisations
  MaxAsks,      \* bound on the requests altogether
  MaxRestarts,  \* bound on the restarts of the indexer
  PageSize,     \* records on a page of the signed log, 250 in the source
  Faulty        \* do calls and writes to the file fail?

Question == [kind : {"prepare", "sign", "select"}, height : Nat,
             amount : Nat, fee : Nat]

ASSUME WalletAssumption ==
  /\ Questions \subseteq Question
  /\ MaxHeight \in Nat /\ StartHeight \in 0 .. MaxHeight
  /\ MaxReorgs \in Nat /\ MaxAsks \in Nat /\ MaxRestarts \in Nat
  /\ PageSize \in Nat \ {0} /\ Faulty \in BOOLEAN

VARIABLES
  upto, ans,  \* the rows of the storage service, see Ledger
  latest,     \* its latest block: more than upto while a block that is
              \* stored has to be processed, less while rows have to be reverted
  watched,    \* watched_addresses
  cache,      \* prepare_tx_cache: a function from questions to transactions
  file,       \* PREPARE_TX_CACHE_FILE: its entries, and whether it parses
  request,    \* request -> where its handler is
  signedLog,  \* the signed transactions stored, in order
  spawned,    \* signed transactions whose storing is under way, in order
  reorgs, asks, restarts,  \* counters for the bounds
  calm,       \* auxiliary: requests under way that nothing has disturbed
  agreed,     \* auxiliary: transactions prepared that nothing has disturbed
  built,      \* auxiliary: transactions built without the cache
  answers,    \* auxiliary: prepare and sign requests and their answers
  clean       \* auxiliary: no write of the file overlapped, failed or was cut

storageVars == <<upto, ans, latest>>
counters    == <<reorgs, asks, restarts>>
serverVars  == <<watched, cache, file, request, signedLog, spawned>>
historyVars == <<calm, agreed, built, answers, clean>>
vars == <<storageVars, serverVars, counters, historyVars>>

Readers == INSTANCE Ledger

Keys == {q \in Questions : q.kind = "prepare"}

(* A mutation: the height is not part of the key                           *)
CacheKeyWithoutHeight(q) == [q EXCEPT !.height = 0]

(* generate_prepare_tx_cache_key                                           *)
CacheKey(q) == q

NoEntries == [k \in {} |-> {}]

EmptyFile == [entries |-> NoEntries, whole |-> FALSE]

(* `todo' are the addresses still to ask for, `got' the outputs so far,    *)
(* `tx' the transaction built, `data' the serialised cache; `first' is     *)
(* auxiliary: had the question not been answered before?                   *)
Idle == [pc |-> "idle"]

Needed(q) == q.amount + q.fee

Saving(r) == request[r].pc \in {"snapshot", "open", "write"}

TypeOK ==
  /\ upto \in StartHeight - 1 .. MaxHeight
  /\ ans \in [StartHeight .. upto -> SUBSET Outputs]
  /\ latest \in StartHeight - 1 .. upto + 1
  /\ watched \subseteq Addresses
  /\ DOMAIN cache \subseteq Keys /\ DOMAIN file.entries \subseteq Keys
  /\ \A r \in Requests :
       \/ request[r] = Idle
       \/ request[r].pc \in {"ask", "read"} /\ request[r].todo # <<>>
       \/ request[r].pc \in {"insert", "snapshot", "open", "write"}
          /\ request[r].q \in Keys
       \/ request[r].pc = "enclave" /\ request[r].q.kind = "sign"
  /\ calm \subseteq {r \in Requests : request[r].pc \in {"ask", "read"}}
  /\ reorgs \in 0 .. MaxReorgs /\ asks \in 0 .. MaxAsks
  /\ restarts \in 0 .. MaxRestarts

Init ==
  /\ Readers!LedgerInit
  /\ latest = upto
  /\ watched = {}
  /\ cache = NoEntries
  /\ file = EmptyFile
  /\ request = [r \in Requests |-> Idle]
  /\ signedLog = <<>> /\ spawned = <<>>
  /\ reorgs = 0 /\ asks = 0 /\ restarts = 0
  /\ calm = {} /\ agreed = {} /\ built = {} /\ answers = {} /\ clean = TRUE

(* What can change the outcome of a request: of any request, or of those   *)
(* at heights above h                                                      *)
Disturbance == calm' = {} /\ agreed' = {}

DisturbanceAbove(h) ==
  /\ calm' = {r \in calm : request[r].q.height <= h}
  /\ agreed' = {b \in agreed : b.q.height <= h}

-----------------------------------------------------------------------------
(* The storage service                                                     *)

(* A mutation: the height is forgotten                                     *)
RowsOfLatest(a, h) ==
  LET born(o) == Min({k \in StartHeight .. upto : o \in ans[k]})
      here == IF upto < StartHeight THEN {} ELSE {o \in ans[upto] : Owner[o] = a}
      rows == {[id |-> o, height |-> born(o)] : o \in here}
  IN  InOrder(rows, LAMBDA u, v : \/ u.height < v.height
                                  \/ u.height = v.height /\ u.id < v.id)

(* The rows of address a at height h, in the order they were inserted.  At *)
(* a height whose rows are not there, because its block is still to be     *)
(* processed or because it was reverted after the height was admitted,     *)
(* these are the rows of the blocks below it.                              *)
Rows(a, h) ==
  LET at == Min({h, upto})
      born(o) == Min({k \in StartHeight .. at : o \in ans[k]})
      here == IF at < StartHeight THEN {} ELSE {o \in ans[at] : Owner[o] = a}
      rows == {[id |-> o, height |-> born(o)] : o \in here}
  IN  InOrder(rows, LAMBDA u, v : \/ u.height < v.height
                                  \/ u.height = v.height /\ u.id < v.id)

(* latest_block is 0 as long as there is none                              *)
Admitted(h) == h <= Max({latest, 0})

(* The two statements of a BlockUpdate ...                                 *)
StoreBlock ==
  /\ latest = upto /\ upto < MaxHeight
  /\ latest' = latest + 1
  /\ UNCHANGED <<upto, ans, serverVars, counters, historyVars>>

ProcessBlock ==
  /\ latest > upto
  /\ Readers!Grow
  /\ DisturbanceAbove(upto)
  /\ UNCHANGED <<latest, serverVars, counters, built, answers, clean>>

(* ... and of a ReorgEvent                                                 *)
MarkBlocks ==
  /\ latest = upto /\ reorgs < MaxReorgs
  /\ latest' \in StartHeight - 1 .. upto - 1
  /\ reorgs' = reorgs + 1
  /\ UNCHANGED <<upto, ans, serverVars, asks, restarts, historyVars>>

RevertUtxos ==
  /\ latest < upto
  /\ Readers!Truncate /\ upto' = latest
  /\ DisturbanceAbove(latest)
  /\ UNCHANGED <<latest, serverVars, counters, built, answers, clean>>

-----------------------------------------------------------------------------
(* Watching                                                                *)

(* watch_address_handler, and derive_address_handler once the enclave has  *)
(* answered.  A sign request holds the lock for reading while it asks.     *)
Watch(a) ==
  /\ a \notin watched
  /\ \A r \in Requests : request[r] # Idle /\ request[r].q.kind = "sign"
                           => request[r].pc \notin {"ask", "read"}
  /\ watched' = watched \cup {a}
  /\ Disturbance
  /\ UNCHANGED <<storageVars, cache, file, request, signedLog, spawned,
                 counters, built, answers, clean>>

-----------------------------------------------------------------------------
(* Collecting outputs: the loops of fetch_selected_utxos (sign),           *)
(* fetch_selected_utxos_deterministic (prepare) and select_utxos_handler   *)

(* A mutation: prepare asks in the order of the hash set, as sign does     *)
AnyOrder(kind) == SetToSeqs(watched)

(* The orders in which the watched addresses may be asked for              *)
Orders(kind) ==
  IF kind = "prepare" THEN {InOrder(watched, <)} ELSE SetToSeqs(watched)

(* The head of the loop.  A request that has its outputs goes on, one that *)
(* cannot get them ends.  sign looks at the sum only after it has added to *)
(* it, select only at the end.  Nothing is awaited between an answer and   *)
(* the next step.                                                          *)
Continue(r, req, undisturbed) ==
  LET q == req.q
      list == IF q.kind = "select"
                THEN Taken(ByHeight(req.got), Needed(q)) ELSE req.got
      tx == BuildUnsignedTransaction(list, q.amount, q.fee)
      enough == /\ tx.change >= 0
                /\ q.kind = "sign" => list # <<>>
                /\ q.kind = "select" => req.todo = <<>>
  IN  \/ /\ enough
         /\ built' = built \cup {[q |-> q, tx |-> tx]}
         /\ agreed' = IF undisturbed /\ q.kind = "prepare"
                        THEN agreed \cup {[q |-> q, tx |-> tx]} ELSE agreed
         /\ calm' = calm \ {r}
         /\ request' = [request EXCEPT ![r] =
              CASE q.kind = "prepare" ->
                     [pc |-> "insert", q |-> q, tx |-> tx, first |-> req.first]
                [] q.kind = "sign"    -> [pc |-> "enclave", q |-> q, tx |-> tx]
                [] q.kind = "select"  -> Idle]
      \/ /\ ~enough /\ req.todo # <<>>
         /\ request' = [request EXCEPT ![r] = [req EXCEPT !.pc = "ask"]]
         /\ calm' = IF undisturbed THEN calm \cup {r} ELSE calm
         /\ UNCHANGED <<built, agreed>>
      \/ /\ ~enough /\ req.todo = <<>>
         /\ request' = [request EXCEPT ![r] = Idle]
         /\ calm' = calm \ {r}
         /\ UNCHANGED <<built, agreed>>

Asked(q) == {a \in answers : a.q = q}

(* A new request.  prepare answers from the cache if it can.               *)
Ask(r) ==
  /\ request[r] = Idle
  /\ asks < MaxAsks
  /\ asks' = asks + 1
  /\ \E q \in Questions :
       \/ /\ CacheKey(q) \in DOMAIN cache
          /\ answers' = answers \cup {[q |-> q, tx |-> cache[CacheKey(q)]]}
          /\ UNCHANGED <<request, calm, agreed, built>>
       \/ /\ CacheKey(q) \notin DOMAIN cache
          /\ \E order \in Orders(q.kind) :
               Continue(r, [pc |-> "ask", q |-> q, todo |-> order, got |-> <<>>,
                            first |-> Asked(q) = {}], TRUE)
          /\ UNCHANGED answers
  /\ UNCHANGED <<storageVars, watched, cache, file, signedLog, spawned, reorgs,
                 restarts, clean>>

(* select leaves out an address it gets no answer for, the others give up  *)
WithoutAnswer(r) ==
  IF request[r].q.kind = "select"
    THEN Continue(r, [request[r] EXCEPT !.todo = Tail(@)], r \in calm)
    ELSE /\ request' = [request EXCEPT ![r] = Idle]
         /\ calm' = calm \ {r}
         /\ UNCHANGED <<built, agreed>>

(* The storage service admits the request for the next address             *)
Admit(r) ==
  /\ request[r].pc = "ask"
  /\ \/ /\ Admitted(request[r].q.height)
        /\ request' = [request EXCEPT ![r].pc = "read"]
        /\ UNCHANGED <<calm, agreed, built>>
     \/ ~Admitted(request[r].q.height) /\ WithoutAnswer(r)
     \/ Faulty /\ WithoutAnswer(r)
  /\ UNCHANGED <<storageVars, watched, cache, file, signedLog, spawned, counters,
                 answers, clean>>

(* ... and answers it                                                      *)
Answer(r) ==
  /\ request[r].pc = "read"
  /\ LET req == request[r]
         rows == Rows(Head(req.todo), req.q.height)
         rest == Needed(req.q) - Total(req.got)
         choosing == req.q.kind # "select"
         selection == IF choosing THEN SelectUtxosForAmount(rows, rest)
                                  ELSE Selected(rows)
         more == IF choosing THEN Taken(selection.utxos, rest) ELSE rows
     IN  IF selection.ok
           THEN Continue(r, [req EXCEPT !.todo = Tail(@), !.got = @ \o more],
                         r \in calm)
           ELSE WithoutAnswer(r)
  /\ UNCHANGED <<storageVars, watched, cache, file, signedLog, spawned, counters,
                 answers, clean>>

-----------------------------------------------------------------------------
(* The rest of prepare_transaction_handler_idempotent                      *)

(* HashMap::insert                                                         *)
With(entries, key, tx) ==
  [k \in (DOMAIN entries) \cup {key} |-> IF k = key THEN tx ELSE entries[k]]

InsertInCache(r) ==
  /\ request[r].pc = "insert"
  /\ cache' = With(cache, CacheKey(request[r].q), request[r].tx)
  /\ request' = [request EXCEPT ![r].pc = "snapshot"]
  /\ UNCHANGED <<storageVars, watched, file, signedLog, spawned, counters,
                 historyVars>>

(* save_prepare_tx_cache serialises the cache under its lock, opens the    *)
(* file, which empties it, and writes.  The answer comes after it, whether *)
(* it succeeded or not.                                                    *)
Respond(r) ==
  /\ request' = [request EXCEPT ![r] = Idle]
  /\ answers' = answers \cup {[q |-> request[r].q, tx |-> request[r].tx]}

(* A mutation: only the new entry is written                               *)
SnapshotOfOwnEntry(r) ==
  /\ request[r].pc = "snapshot"
  /\ request' = [request EXCEPT ![r] =
       [pc |-> "open", q |-> @.q, tx |-> @.tx, first |-> @.first,
        data |-> With(NoEntries, CacheKey(@.q), @.tx)]]
  /\ clean' = (clean /\ \A s \in Requests : request[s].pc \notin {"open", "write"})
  /\ UNCHANGED <<storageVars, watched, cache, file, signedLog, spawned, counters,
                 calm, agreed, built, answers>>

Snapshot(r) ==
  /\ request[r].pc = "snapshot"
  /\ request' = [request EXCEPT ![r] =
       [pc |-> "open", q |-> @.q, tx |-> @.tx, first |-> @.first, data |-> cache]]
  /\ clean' = (clean /\ \A s \in Requests : request[s].pc \notin {"open", "write"})
  /\ UNCHANGED <<storageVars, watched, cache, file, signedLog, spawned, counters,
                 calm, agreed, built, answers>>

OpenFile(r) ==
  /\ request[r].pc = "open"
  /\ file' = EmptyFile
  /\ request' = [request EXCEPT ![r].pc = "write"]
  /\ UNCHANGED <<storageVars, watched, cache, signedLog, spawned, counters,
                 historyVars>>

(* Another request may have written since the file was opened: what it     *)
(* wrote beyond the end of this one's data stays behind                    *)
WriteFile(r) ==
  /\ request[r].pc = "write"
  /\ LET data == request[r].data IN
       file' = [entries |-> data,
                whole |-> \/ file = EmptyFile
                          \/ /\ file.whole
                             /\ Cardinality(DOMAIN file.entries)
                                  <= Cardinality(DOMAIN data)]
  /\ Respond(r)
  /\ UNCHANGED <<storageVars, watched, cache, signedLog, spawned, counters, calm,
                 agreed, built, clean>>

SaveFails(r) ==
  /\ Faulty
  /\ request[r].pc \in {"open", "write"}
  /\ Respond(r)
  /\ clean' = FALSE
  /\ UNCHANGED <<storageVars, watched, cache, file, signedLog, spawned, counters,
                 calm, agreed, built>>

-----------------------------------------------------------------------------
(* The rest of sign_transaction_handler                                    *)

(* The enclave signs, the client is answered, and the record is sent to    *)
(* the storage service by a task of its own                                *)
Sign(r) ==
  /\ request[r].pc = "enclave"
  /\ spawned' = Append(spawned, [q |-> request[r].q, tx |-> request[r].tx])
  /\ Respond(r)
  /\ UNCHANGED <<storageVars, watched, cache, file, signedLog, counters, calm,
                 agreed, built, clean>>

SignFails(r) ==
  /\ Faulty
  /\ request[r].pc = "enclave"
  /\ request' = [request EXCEPT ![r] = Idle]
  /\ UNCHANGED <<storageVars, watched, cache, file, signedLog, spawned, counters,
                 historyVars>>

(* A mutation: equal requests are recorded once                            *)
StoreSignedTxOnce ==
  \E i \in DOMAIN spawned :
    /\ spawned' = RemoveAt(spawned, i)
    /\ signedLog' = IF \E s \in ToSet(signedLog) : s.q = spawned[i].q
                      THEN signedLog ELSE Append(signedLog, spawned[i])
    /\ UNCHANGED <<storageVars, watched, cache, file, request, counters,
                   historyVars>>

(* INSERT INTO signed_transactions, or a call that fails and is logged     *)
StoreSignedTx ==
  \E i \in DOMAIN spawned :
    /\ spawned' = RemoveAt(spawned, i)
    /\ \/ signedLog' = Append(signedLog, spawned[i])
       \/ Faulty /\ UNCHANGED signedLog
    /\ UNCHANGED <<storageVars, watched, cache, file, request, counters,
                   historyVars>>

(* A mutation: the newest record first                                     *)
PageNewestFirst(log, n) ==
  SubSeq(Reverse(log), (n - 1) * PageSize + 1, Min({n * PageSize, Len(log)}))

(* get_all_signed_txs for page n: ORDER BY id LIMIT PageSize OFFSET ...    *)
Page(log, n) ==
  SubSeq(log, (n - 1) * PageSize + 1, Min({n * PageSize, Len(log)}))

(* get_signed_txs_by_caller, _by_block_height and _by_destination: the     *)
(* records with a given value in a column, ORDER BY id                     *)
SignedTxsWhere(log, column, value) ==
  LET ids == InOrder({i \in DOMAIN log : log[i].q[column] = value}, <)
  IN  [n \in DOMAIN ids |-> log[ids[n]]]

(* get_signed_tx_by_txid: ORDER BY id DESC LIMIT 1, if there is one        *)
SignedTxByTxid(log, tx) ==
  LET ids == {i \in DOMAIN log : log[i].tx = tx}
  IN  IF ids = {} THEN {} ELSE {log[Max(ids)]}

-----------------------------------------------------------------------------
(* The indexer stops and starts.  load_prepare_tx_cache takes an empty     *)
(* cache for a file that does not parse.                                   *)
LoadPrepareTxCache(f) == IF f.whole THEN f.entries ELSE NoEntries

Restart ==
  /\ restarts < MaxRestarts
  /\ restarts' = restarts + 1
  /\ request' = [r \in Requests |-> Idle]
  /\ watched' = {}
  /\ cache' = LoadPrepareTxCache(file)
  /\ spawned' = <<>>
  /\ Disturbance
  /\ clean' = (clean /\ \A r \in Requests : ~Saving(r))
  /\ UNCHANGED <<storageVars, file, signedLog, reorgs, asks, built, answers>>

Handle(r) ==
  \/ Ask(r) \/ Admit(r) \/ Answer(r)
  \/ InsertInCache(r) \/ Snapshot(r) \/ OpenFile(r) \/ WriteFile(r) \/ SaveFails(r)
  \/ Sign(r) \/ SignFails(r)

Next ==
  \/ StoreBlock \/ ProcessBlock \/ MarkBlocks \/ RevertUtxos
  \/ \E a \in Addresses : Watch(a)
  \/ \E r \in Requests : Handle(r)
  \/ StoreSignedTx
  \/ Restart

Spec == Init /\ [][Next]_vars

-----------------------------------------------------------------------------
(* Properties                                                              *)

(* What the first n of some outputs are worth                              *)
Worth(inputs, n) == FoldLeft(+, 0, [i \in 1 .. n |-> Amount[inputs[i]]])

(* What has been built pays what was asked for, with no output twice and   *)
(* none that it could do without at the end: the selections of the storage *)
(* service, summed up address by address, are neither too small nor go on  *)
(* past the target (database.rs select_utxos_for_amount, api.rs)           *)
PaysWithoutExcess ==
  \A b \in built :
    LET inputs == b.tx.inputs
        n      == Len(inputs)
    IN  /\ Worth(inputs, n) = Needed(b.q) + b.tx.change
        /\ b.tx.change >= 0
        /\ n > 0 => Worth(inputs, n - 1) < Needed(b.q)
        /\ IsInjective(inputs)

(* The outputs the storage service shows at height h: those of the blocks  *)
(* below it while there are no rows at h                                   *)
SpendableNow(h) ==
  LET at == Min({h, upto}) IN IF at < StartHeight THEN {} ELSE ans[at]

(* When a transaction is built, all of its inputs are spendable together,  *)
(* although the addresses are asked one after the other while the storage  *)
(* service reverts blocks (api.rs fetch_selected_utxos and its             *)
(* deterministic variant)                                                  *)
InputsSpendableTogether ==
  [][\A r \in Requests :
       request[r].pc = "read" /\ request'[r].pc \in {"insert", "enclave"}
         => ToSet(request'[r].tx.inputs) \subseteq SpendableNow(request[r].q.height)
    ]_vars

(* select, unlike the others, puts together what several addresses         *)
(* answered at different times.  Unless a reorganisation went below its    *)
(* height in between, or the block of that height was still being          *)
(* processed, or the watched addresses changed, all of it is spendable at  *)
(* that height in the end, whatever blocks came or went above it (api.rs   *)
(* select_utxos_handler).                                                  *)
SelectedTogether ==
  [][\A r \in calm, b \in built' \ built :
       request[r].q.kind = "select" /\ request'[r] = Idle
         => ToSet(b.tx.inputs) \subseteq SpendableNow(b.q.height)]_vars

(* Equal prepare requests that both miss the cache build the same          *)
(* transaction, however their questions interleave, and whatever blocks    *)
(* come or are reverted above their height in between, as long as the rows *)
(* at their height stay, no address is newly watched and nothing restarts  *)
(* (api.rs fetch_selected_utxos_deterministic)                             *)
PreparesAgree ==
  \A b, c \in agreed : b.q = c.q => b.tx = c.tx

(* Once a prepare request has been answered, no later one with the same    *)
(* parameters is worked out again, also after a restart of the indexer,    *)
(* unless writes of the cache file overlapped, failed or were cut off      *)
(* ("Always return cached result if it exists (idempotent)", api.rs)       *)
AnsweredForGood ==
  clean => \A r \in Requests :
    /\ request[r].pc \in {"ask", "read", "insert", "snapshot", "open", "write"}
    /\ request[r].q.kind = "prepare"
    => request[r].first

(* What a prepare or sign request is answered, and what the signed log     *)
(* records, is a transaction that was built for the parameters it is kept  *)
(* under                                                                   *)
AnswersWereBuilt ==
  \A a \in answers \cup ToSet(signedLog) :
    \E b \in built : b.q = a.q /\ b.tx = a.tx

(* Whoever was answered with a signed transaction finds its record, or     *)
(* will, at the height of the request, and a record of the transaction by  *)
(* its txid, unless a call fails or the indexer stops: the tasks that      *)
(* store the records finish in any order, and equal requests that were     *)
(* signed differently each leave a record (api.rs, "Fire and forget        *)
(* storing of the signed transaction")                                     *)
SignedAreStored ==
  ~Faulty /\ restarts = 0 =>
    \A a \in answers :
      a.q.kind = "sign" =>
        \/ a \in ToSet(spawned)
        \/ /\ Contains(SignedTxsWhere(signedLog, "height", a.q.height), a)
           /\ \E s \in SignedTxByTxid(signedLog, a.tx) : s.tx = a.tx

(* A reader who goes through the signed log page by page, while records    *)
(* are added, sees every record once: a full page never changes            *)
FullPagesStay ==
  [][\A n \in 1 .. Len(signedLog) :
       Len(Page(signedLog, n)) = PageSize
         => Page(signedLog', n) = Page(signedLog, n)]_vars

(* A prepare or sign request does not fail while the watched addresses     *)
(* together have enough ("Loop over each address and attempt to gather     *)
(* enough UTXOs", api.rs)                                                  *)
FundsAcrossAddresses ==
  [][\A r \in Requests :
       LET q == request[r].q
           all == SetToSeq(UNION {ToSet(Rows(a, q.height)) : a \in watched})
       IN  /\ request[r].pc = "read" /\ q.kind # "select"
           /\ r \in calm /\ request'[r] = Idle
           /\ restarts' = restarts
           => Total(all) < Needed(q)
    ]_vars
=============================================================================
