----------------------------- MODULE WalletProofs -----------------------------
(***************************************************************************)
(* What the wallet's API answers and records, for any number of requests,  *)
(* questions and restarts.                                                 *)
(***************************************************************************)
EXTENDS Wallet, SequenceLemmas, TLAPS

-----------------------------------------------------------------------------
(* The states of a handler.  What a handler has collected is of no concern *)
(* here, so a state is described by its own fields.                        *)

Collects(x) ==
  /\ x.pc \in {"ask", "read"}
  /\ x = [pc |-> x.pc, q |-> x.q, todo |-> x.todo, got |-> x.got, first |-> x.first]
  /\ x.q \in Questions /\ x.todo # <<>>

Prepared(x) ==
  /\ x.pc \in {"insert", "snapshot"}
  /\ x = [pc |-> x.pc, q |-> x.q, tx |-> x.tx, first |-> x.first]
  /\ x.q \in Keys

Saves(x) ==
  /\ x.pc \in {"open", "write"}
  /\ x = [pc |-> x.pc, q |-> x.q, tx |-> x.tx, first |-> x.first, data |-> x.data]
  /\ x.q \in Keys
  /\ DOMAIN x.data \subseteq Keys

Signs(x) ==
  /\ x.pc = "enclave"
  /\ x = [pc |-> x.pc, q |-> x.q, tx |-> x.tx]
  /\ x.q \in Questions /\ x.q.kind = "sign"

HandlerState(x) ==
  x = Idle \/ Collects(x) \/ Prepared(x) \/ Saves(x) \/ Signs(x)

ServerTypes ==
  /\ request = [r \in Requests |-> request[r]]
  /\ \A r \in Requests : HandlerState(request[r])
  /\ \A r \in calm : r \in Requests /\ Collects(request[r])
  /\ DOMAIN cache \subseteq Keys /\ DOMAIN file.entries \subseteq Keys
  /\ clean \in BOOLEAN

StorageTypes ==
  /\ upto \in StartHeight - 1 .. MaxHeight
  /\ ans \in [StartHeight .. upto -> SUBSET Outputs]
  /\ latest \in StartHeight - 1 .. upto + 1 /\ latest <= MaxHeight

CounterTypes ==
  /\ watched \subseteq Addresses
  /\ reorgs \in 0 .. MaxReorgs /\ asks \in 0 .. MaxAsks
  /\ restarts \in 0 .. MaxRestarts

(* Every transaction that is kept anywhere was built for the parameters it *)
(* is kept under; b is what has been built                                 *)
KeptFor(entries, b) ==
  \A k \in DOMAIN entries : [q |-> k, tx |-> entries[k]] \in b

BuiltFor(x, b) ==
  /\ x.pc \in {"insert", "snapshot", "open", "write", "enclave"}
       => [q |-> x.q, tx |-> x.tx] \in b
  /\ x.pc \in {"open", "write"} => KeptFor(x.data, b)

BuiltInv ==
  /\ signedLog \in Seq(built) /\ spawned \in Seq(built)
  /\ answers \subseteq built
  /\ KeptFor(cache, built) /\ KeptFor(file.entries, built)
  /\ \A r \in Requests : BuiltFor(request[r], built)

(* While no writes of the file have overlapped, failed or been cut off,    *)
(* whatever is in the cache is in the file, or on its way there            *)
Writing(r) == request[r].pc \in {"open", "write"}

Secured(k) ==
  \/ \E r \in Requests : request[r].pc = "snapshot"
  \/ \E r \in Requests : Writing(r) /\ k \in DOMAIN request[r].data
  \/ (\A r \in Requests : ~Writing(r)) /\ file.whole /\ k \in DOMAIN file.entries

CacheInv ==
  /\ \A r, s \in Requests : Writing(r) /\ Writing(s) => r = s
  /\ \A r \in Requests : request[r].pc = "write" => file = EmptyFile
  /\ \A k \in DOMAIN cache : Secured(k)
  /\ \A a \in answers : a.q.kind = "prepare" => a.q \in DOMAIN cache
  /\ \A r \in Requests : request[r].pc \in {"snapshot", "open", "write"}
                           => request[r].q \in DOMAIN cache

USE DEF CacheKey

LEMMA QuestionKinds ==
  ASSUME NEW q \in Questions
  PROVE  /\ q.kind \in {"prepare", "sign", "select"}
         /\ q \in Keys <=> q.kind = "prepare"
  BY WalletAssumption DEF Question, Keys

LEMMA StateSet ==
  ASSUME ServerTypes, NEW r \in Requests, NEW x,
         request' = [request EXCEPT ![r] = x]
  PROVE  /\ request'[r] = x
         /\ \A s \in Requests : s # r => request'[s] = request[s]
         /\ request' = [s \in Requests |-> request'[s]]
  BY DEF ServerTypes

LEMMA StateShapes ==
  ASSUME NEW q \in Questions, NEW todo, NEW got, NEW first, NEW tx
  PROVE  /\ \A pc \in {"ask", "read"} : todo # <<>> =>
              Collects([pc |-> pc, q |-> q, todo |-> todo, got |-> got, first |-> first])
         /\ \A pc \in {"insert", "snapshot"} : q \in Keys =>
              Prepared([pc |-> pc, q |-> q, tx |-> tx, first |-> first])
         /\ q.kind = "sign" => Signs([pc |-> "enclave", q |-> q, tx |-> tx])
  BY DEF Collects, Prepared, Signs

LEMMA Shortened ==
  ASSUME NEW x, Collects(x)
  PROVE  [x EXCEPT !.todo = Tail(@)]
           = [pc |-> x.pc, q |-> x.q, todo |-> Tail(x.todo), got |-> x.got,
              first |-> x.first]
BY SMTT(20) DEF Collects

LEMMA Updated ==
  ASSUME NEW x, Collects(x), NEW pc, NEW todo, NEW got
  PROVE  /\ [x EXCEPT !.pc = pc]
              = [pc |-> pc, q |-> x.q, todo |-> x.todo, got |-> x.got, first |-> x.first]
         /\ [x EXCEPT !.todo = todo, !.got = got]
              = [pc |-> x.pc, q |-> x.q, todo |-> todo, got |-> got, first |-> x.first]
<1>1. [x EXCEPT !.pc = pc]
        = [pc |-> pc, q |-> x.q, todo |-> x.todo, got |-> x.got, first |-> x.first]
  BY DEF Collects
<1>2. [x EXCEPT !.todo = todo]
        = [pc |-> x.pc, q |-> x.q, todo |-> todo, got |-> x.got, first |-> x.first]
  BY DEF Collects
<1>3. [[x EXCEPT !.todo = todo] EXCEPT !.got = got]
        = [pc |-> x.pc, q |-> x.q, todo |-> todo, got |-> got, first |-> x.first]
  <2> DEFINE y == [pc |-> x.pc, q |-> x.q, todo |-> todo, got |-> x.got, first |-> x.first]
  <2>1. [y EXCEPT !.got = got]
          = [pc |-> x.pc, q |-> x.q, todo |-> todo, got |-> got, first |-> x.first]
    OBVIOUS
  <2>2. [x EXCEPT !.todo = todo] = y
    BY <1>2
  <2> HIDE DEF y
  <2>3. QED
    BY <2>1, <2>2
<1>4. [x EXCEPT !.todo = todo, !.got = got] = [[x EXCEPT !.todo = todo] EXCEPT !.got = got]
  OBVIOUS
<1>5. QED
  BY <1>1, <1>3, <1>4

(* What Continue leaves behind of a question q                             *)
Continued(r, q, first) ==
  /\ request' = [request EXCEPT ![r] = request'[r]]
  /\ built \subseteq built'
  /\ calm' \subseteq calm \cup {r}
  /\ r \in calm' => Collects(request'[r])
  /\ \/ request'[r] = Idle
     \/ /\ Collects(request'[r])
        /\ request'[r].q = q /\ request'[r].first = first
     \/ /\ Prepared(request'[r]) /\ request'[r].pc = "insert"
        /\ request'[r].q = q /\ request'[r].first = first
        /\ [q |-> q, tx |-> request'[r].tx] \in built'
     \/ /\ Signs(request'[r]) /\ request'[r].q = q
        /\ [q |-> q, tx |-> request'[r].tx] \in built'

LEMMA ContinueIs ==
  ASSUME ServerTypes, NEW r \in Requests, NEW pc, NEW q \in Questions,
         NEW todo, NEW got, NEW first, NEW undisturbed,
         Continue(r, [pc |-> pc, q |-> q, todo |-> todo, got |-> got, first |-> first],
                  undisturbed)
  PROVE  Continued(r, q, first)
<1> DEFINE req == [pc |-> pc, q |-> q, todo |-> todo, got |-> got, first |-> first]
           list == IF q.kind = "select"
                     THEN Taken(ByHeight(got), Needed(q)) ELSE got
           tx == BuildUnsignedTransaction(list, q.amount, q.fee)
           enough == /\ tx.change >= 0
                     /\ q.kind = "sign" => list # <<>>
                     /\ q.kind = "select" => todo = <<>>
<1>1. /\ req.q = q /\ req.todo = todo /\ req.got = got /\ req.first = first
      /\ [req EXCEPT !.pc = "ask"]
           = [pc |-> "ask", q |-> q, todo |-> todo, got |-> got, first |-> first]
  OBVIOUS
<1>2. \/ /\ built' = built \cup {[q |-> q, tx |-> tx]}
         /\ calm' = calm \ {r}
         /\ request' = [request EXCEPT ![r] =
              CASE q.kind = "prepare" ->
                     [pc |-> "insert", q |-> q, tx |-> tx, first |-> first]
                [] q.kind = "sign"    -> [pc |-> "enclave", q |-> q, tx |-> tx]
                [] q.kind = "select"  -> Idle]
      \/ /\ todo # <<>>
         /\ request' = [request EXCEPT ![r] =
              [pc |-> "ask", q |-> q, todo |-> todo, got |-> got, first |-> first]]
         /\ calm' = calm \cup {r} \/ calm' = calm
         /\ UNCHANGED built
      \/ /\ request' = [request EXCEPT ![r] = Idle]
         /\ calm' = calm \ {r}
         /\ UNCHANGED built
  BY <1>1 DEF Continue
<1> HIDE DEF tx, req
<1>3. CASE /\ built' = built \cup {[q |-> q, tx |-> tx]}
           /\ calm' = calm \ {r}
           /\ request' = [request EXCEPT ![r] =
                CASE q.kind = "prepare" ->
                       [pc |-> "insert", q |-> q, tx |-> tx, first |-> first]
                  [] q.kind = "sign"    -> [pc |-> "enclave", q |-> q, tx |-> tx]
                  [] q.kind = "select"  -> Idle]
  <2>1. CASE q.kind = "prepare"
    <3>1. request' = [request EXCEPT ![r] =
                        [pc |-> "insert", q |-> q, tx |-> tx, first |-> first]]
      BY <1>3, <2>1
    <3>2. request'[r] = [pc |-> "insert", q |-> q, tx |-> tx, first |-> first]
      BY <3>1, StateSet
    <3>3. Prepared(request'[r])
      BY <2>1, <3>2, StateShapes, QuestionKinds
    <3>4. request' = [request EXCEPT ![r] = request'[r]]
      BY <3>1, <3>2
    <3>5. /\ request'[r].pc = "insert" /\ request'[r].q = q
          /\ request'[r].first = first /\ request'[r].tx = tx
      BY <3>2
    <3>6. /\ built \subseteq built' /\ calm' \subseteq calm /\ r \notin calm'
          /\ [q |-> q, tx |-> tx] \in built'
      BY <1>3
    <3>7. QED
      BY <3>3, <3>4, <3>5, <3>6 DEF Continued
  <2>2. CASE q.kind = "sign"
    <3>1. request' = [request EXCEPT ![r] = [pc |-> "enclave", q |-> q, tx |-> tx]]
      BY <1>3, <2>2
    <3>2. request'[r] = [pc |-> "enclave", q |-> q, tx |-> tx]
      BY <3>1, StateSet
    <3>3. Signs(request'[r])
      BY <2>2, <3>2, StateShapes
    <3>4. request' = [request EXCEPT ![r] = request'[r]]
      BY <3>1, <3>2
    <3>5. request'[r].q = q /\ request'[r].tx = tx
      BY <3>2
    <3>6. /\ built \subseteq built' /\ calm' \subseteq calm /\ r \notin calm'
          /\ [q |-> q, tx |-> tx] \in built'
      BY <1>3
    <3>7. QED
      BY <3>3, <3>4, <3>5, <3>6 DEF Continued
  <2>3. CASE q.kind = "select"
    <3>1. request' = [request EXCEPT ![r] = Idle]
      BY <1>3, <2>3
    <3>2. QED
      BY <1>3, <3>1, StateSet DEF Continued
  <2>4. QED
    BY <2>1, <2>2, <2>3, QuestionKinds
<1>4. CASE /\ todo # <<>>
           /\ request' = [request EXCEPT ![r] =
                [pc |-> "ask", q |-> q, todo |-> todo, got |-> got, first |-> first]]
           /\ calm' = calm \cup {r} \/ calm' = calm
           /\ UNCHANGED built
  <2>1. request'[r] = [pc |-> "ask", q |-> q, todo |-> todo, got |-> got, first |-> first]
    BY <1>4, StateSet
  <2>2. Collects(request'[r])
    BY <1>4, <2>1, StateShapes
  <2>3. request' = [request EXCEPT ![r] = request'[r]]
    BY <1>4, <2>1
  <2>4. request'[r].q = q /\ request'[r].first = first
    BY <2>1
  <2>5. built \subseteq built' /\ calm' \subseteq calm \cup {r}
    BY <1>4
  <2>6. QED
    BY <2>2, <2>3, <2>4, <2>5 DEF Continued
<1>5. CASE /\ request' = [request EXCEPT ![r] = Idle]
           /\ calm' = calm \ {r}
           /\ UNCHANGED built
  BY <1>5, StateSet DEF Continued
<1>6. QED
  BY <1>2, <1>3, <1>4, <1>5

LEMMA WithoutAnswerIs ==
  ASSUME ServerTypes, NEW r \in Requests, Collects(request[r]), WithoutAnswer(r)
  PROVE  Continued(r, request[r].q, request[r].first)
<1> DEFINE x == request[r]
<1>1. CASE x.q.kind = "select"
  <2>1. [x EXCEPT !.todo = Tail(@)]
          = [pc |-> x.pc, q |-> x.q, todo |-> Tail(x.todo), got |-> x.got,
             first |-> x.first]
    BY DEF Collects
  <2>2. x.q \in Questions
    BY DEF Collects
  <2>3. Continue(r, [pc |-> x.pc, q |-> x.q, todo |-> Tail(x.todo), got |-> x.got,
                     first |-> x.first], r \in calm)
    BY <1>1, <2>1 DEF WithoutAnswer
  <2>4. QED
    BY <2>2, <2>3, ContinueIs
<1>2. CASE x.q.kind # "select"
  BY <1>2, StateSet DEF WithoutAnswer, Continued
<1>3. QED
  BY <1>1, <1>2

(* Admit and Answer                                                        *)
LEMMA CollectingIs ==
  ASSUME ServerTypes, NEW r \in Requests, Admit(r) \/ Answer(r)
  PROVE  Collects(request[r]) /\ Continued(r, request[r].q, request[r].first)
<1> DEFINE x == request[r]
<1>1. Collects(x)
  BY DEF Admit, Answer, ServerTypes, HandlerState, Idle, Collects, Prepared, Saves, Signs
<1>2. CASE request' = [request EXCEPT ![r].pc = "read"] /\ UNCHANGED <<calm, built>>
  <2>1. request' = [request EXCEPT ![r] =
          [pc |-> "read", q |-> x.q, todo |-> x.todo, got |-> x.got, first |-> x.first]]
    BY <1>1, <1>2, Updated
  <2>2. request'[r]
          = [pc |-> "read", q |-> x.q, todo |-> x.todo, got |-> x.got, first |-> x.first]
    BY <2>1, StateSet
  <2>3. Collects(request'[r])
    BY <1>1, <2>2, StateShapes DEF Collects
  <2>4. request' = [request EXCEPT ![r] = request'[r]]
    BY <2>1, <2>2
  <2>5. request'[r].q = x.q /\ request'[r].first = x.first
    BY <2>2
  <2>6. built \subseteq built' /\ calm' \subseteq calm \cup {r}
    BY <1>2
  <2>7. QED
    BY <1>1, <2>3, <2>4, <2>5, <2>6 DEF Continued
<1>3. CASE WithoutAnswer(r)
  BY <1>1, <1>3, WithoutAnswerIs
<1>4. ASSUME NEW more,
             Continue(r, [x EXCEPT !.todo = Tail(@), !.got = @ \o more], r \in calm)
      PROVE  Continued(r, x.q, x.first)
  <2>1. [x EXCEPT !.todo = Tail(@), !.got = @ \o more]
          = [pc |-> x.pc, q |-> x.q, todo |-> Tail(x.todo), got |-> x.got \o more,
             first |-> x.first]
    BY <1>1, Updated
  <2>2. x.q \in Questions
    BY <1>1 DEF Collects
  <2>3. Continue(r, [pc |-> x.pc, q |-> x.q, todo |-> Tail(x.todo),
                     got |-> x.got \o more, first |-> x.first], r \in calm)
    BY <1>4, <2>1
  <2>4. QED
    BY <2>2, <2>3, ContinueIs
<1>5. CASE Admit(r)
  BY <1>1, <1>2, <1>3, <1>5 DEF Admit
<1>6. CASE Answer(r)
  BY <1>1, <1>3, <1>4, <1>6 DEF Answer
<1>7. QED
  BY <1>1, <1>5, <1>6

(* A new question is answered from the cache, or missing there             *)
Hit(q) ==
  /\ q \in DOMAIN cache
  /\ answers' = answers \cup {[q |-> q, tx |-> cache[q]]}
  /\ UNCHANGED <<request, calm, agreed, built>>

LEMMA AskIs ==
  ASSUME ServerTypes, NEW r \in Requests, Ask(r)
  PROVE  \E q \in Questions :
           \/ Hit(q)
           \/ /\ q \notin DOMAIN cache /\ UNCHANGED answers
              /\ Continued(r, q, Asked(q) = {})
<1>1. PICK q \in Questions :
        \/ Hit(q)
        \/ /\ q \notin DOMAIN cache /\ UNCHANGED answers
           /\ \E order \in Orders(q.kind) :
                Continue(r, [pc |-> "ask", q |-> q, todo |-> order, got |-> <<>>,
                             first |-> Asked(q) = {}], TRUE)
  BY DEF Ask, Hit
<1>2. CASE Hit(q)
  BY <1>2
<1>3. ASSUME NEW order,
             Continue(r, [pc |-> "ask", q |-> q, todo |-> order, got |-> <<>>,
                          first |-> Asked(q) = {}], TRUE)
      PROVE  Continued(r, q, Asked(q) = {})
  BY <1>3, ContinueIs
<1>4. QED
  BY <1>1, <1>2, <1>3

-----------------------------------------------------------------------------
(* What the other steps of a handler find and leave behind                 *)

LEMMA StateOf ==
  ASSUME ServerTypes, NEW r \in Requests
  PROVE  /\ request[r].pc \in {"ask", "read"} => Collects(request[r])
         /\ request[r].pc \in {"insert", "snapshot"} => Prepared(request[r])
         /\ request[r].pc \in {"open", "write"} => Saves(request[r])
         /\ request[r].pc = "enclave" => Signs(request[r])
         /\ r \in calm => request[r].pc \in {"ask", "read"}
<1> DEFINE x == request[r]
<1>1. HandlerState(x) /\ (r \in calm => Collects(x))
  BY DEF ServerTypes
<1> HIDE DEF x
<1>2. /\ x = Idle => x.pc = "idle"
      /\ Collects(x) => x.pc \in {"ask", "read"}
      /\ Prepared(x) => x.pc \in {"insert", "snapshot"}
      /\ Saves(x) => x.pc \in {"open", "write"}
      /\ Signs(x) => x.pc = "enclave"
  BY DEF Idle, Collects, Prepared, Saves, Signs
<1>3. QED
  BY <1>1, <1>2 DEF HandlerState, x

LEMMA StateShapesSaved ==
  ASSUME NEW pc \in {"open", "write"}, NEW q \in Keys, NEW tx, NEW first, NEW data,
         DOMAIN data \subseteq Keys
  PROVE  Saves([pc |-> pc, q |-> q, tx |-> tx, first |-> first, data |-> data])
BY DEF Saves

LEMMA InsertIs ==
  ASSUME ServerTypes, NEW r \in Requests, InsertInCache(r)
  PROVE  /\ Prepared(request[r]) /\ request[r].pc = "insert"
         /\ request' = [request EXCEPT ![r] = request'[r]]
         /\ Prepared(request'[r]) /\ request'[r].pc = "snapshot"
         /\ request'[r].q = request[r].q /\ request'[r].tx = request[r].tx
         /\ request'[r].first = request[r].first
         /\ DOMAIN cache' = (DOMAIN cache) \cup {request[r].q}
         /\ cache'[request[r].q] = request[r].tx
         /\ \A k \in DOMAIN cache : k # request[r].q => cache'[k] = cache[k]
<1> DEFINE x == request[r]
           y == [pc |-> "snapshot", q |-> x.q, tx |-> x.tx, first |-> x.first]
<1>1. Prepared(x) /\ x.pc = "insert"
  BY StateOf DEF InsertInCache
<1>2. [x EXCEPT !.pc = "snapshot"] = y
  BY <1>1 DEF Prepared
<1>3. request' = [request EXCEPT ![r] = y]
  BY <1>2 DEF InsertInCache
<1>4. request'[r] = y
  BY <1>3, StateSet
<1>5. x.q \in Questions /\ x.q \in Keys
  BY <1>1 DEF Prepared, Keys
<1>6. Prepared(y)
  BY <1>5, StateShapes
<1>7. cache' = With(cache, x.q, x.tx)
  BY DEF InsertInCache
<1>8. /\ DOMAIN cache' = (DOMAIN cache) \cup {x.q}
      /\ cache'[x.q] = x.tx
      /\ \A k \in DOMAIN cache : k # x.q => cache'[k] = cache[k]
  BY <1>7 DEF With
<1>9. y.pc = "snapshot" /\ y.q = x.q /\ y.tx = x.tx /\ y.first = x.first
  OBVIOUS
<1> HIDE DEF y
<1>10. QED
  BY <1>1, <1>3, <1>4, <1>6, <1>8, <1>9

LEMMA SnapshotIs ==
  ASSUME ServerTypes, NEW r \in Requests, Snapshot(r)
  PROVE  /\ Prepared(request[r]) /\ request[r].pc = "snapshot"
         /\ request' = [request EXCEPT ![r] = request'[r]]
         /\ Saves(request'[r]) /\ request'[r].pc = "open"
         /\ request'[r].q = request[r].q /\ request'[r].tx = request[r].tx
         /\ request'[r].first = request[r].first /\ request'[r].data = cache
<1> DEFINE x == request[r]
           y == [pc |-> "open", q |-> x.q, tx |-> x.tx, first |-> x.first, data |-> cache]
<1>1. Prepared(x) /\ x.pc = "snapshot"
  BY StateOf DEF Snapshot
<1>2. request' = [request EXCEPT ![r] = y]
  BY DEF Snapshot
<1>3. request'[r] = y
  BY <1>2, StateSet
<1>4. Saves(y)
  BY <1>1, StateShapesSaved DEF Prepared, ServerTypes
<1>5. /\ y.pc = "open" /\ y.q = x.q /\ y.tx = x.tx /\ y.first = x.first
      /\ y.data = cache
  OBVIOUS
<1> HIDE DEF y
<1>6. QED
  BY <1>1, <1>2, <1>3, <1>4, <1>5

LEMMA OpenIs ==
  ASSUME ServerTypes, NEW r \in Requests, OpenFile(r)
  PROVE  /\ Saves(request[r]) /\ request[r].pc = "open"
         /\ request' = [request EXCEPT ![r] = request'[r]]
         /\ Saves(request'[r]) /\ request'[r].pc = "write"
         /\ request'[r].q = request[r].q /\ request'[r].tx = request[r].tx
         /\ request'[r].first = request[r].first
         /\ request'[r].data = request[r].data
<1> DEFINE x == request[r]
           y == [pc |-> "write", q |-> x.q, tx |-> x.tx, first |-> x.first, data |-> x.data]
<1>1. Saves(x) /\ x.pc = "open"
  BY StateOf DEF OpenFile
<1>2. [x EXCEPT !.pc = "write"] = y
  BY <1>1 DEF Saves
<1>3. request' = [request EXCEPT ![r] = y]
  BY <1>2 DEF OpenFile
<1>4. request'[r] = y
  BY <1>3, StateSet
<1>5. Saves(y)
  BY <1>1, StateShapesSaved DEF Saves
<1>6. /\ y.pc = "write" /\ y.q = x.q /\ y.tx = x.tx /\ y.first = x.first
      /\ y.data = x.data
  OBVIOUS
<1> HIDE DEF y
<1>7. QED
  BY <1>1, <1>3, <1>4, <1>5, <1>6

LEMMA EndIs ==
  ASSUME ServerTypes, NEW r \in Requests
  PROVE  /\ WriteFile(r) \/ SaveFails(r)
              => /\ Saves(request[r])
                 /\ request' = [request EXCEPT ![r] = Idle]
                 /\ answers' = answers \cup {[q |-> request[r].q, tx |-> request[r].tx]}
         /\ Sign(r) => answers' = answers \cup {[q |-> request[r].q, tx |-> request[r].tx]}
         /\ Sign(r) \/ SignFails(r)
              => Signs(request[r]) /\ request' = [request EXCEPT ![r] = Idle]
BY StateOf DEF WriteFile, SaveFails, Sign, SignFails, Respond

-----------------------------------------------------------------------------
(* Types                                                                   *)

LEMMA RequestKeepsTypes ==
  ASSUME ServerTypes, NEW r \in Requests,
         request' = [request EXCEPT ![r] = request'[r]], HandlerState(request'[r]),
         calm' \subseteq calm \cup {r}, r \in calm' => Collects(request'[r])
  PROVE  /\ request' = [s \in Requests |-> request'[s]]
         /\ \A s \in Requests : HandlerState(request'[s])
         /\ \A s \in calm' : s \in Requests /\ Collects(request'[s])
<1>1. /\ request' = [s \in Requests |-> request'[s]]
      /\ \A s \in Requests : s # r => request'[s] = request[s]
  BY StateSet
<1>2. QED
  BY <1>1 DEF ServerTypes

LEMMA ContinuedKeepsTypes ==
  ASSUME ServerTypes, NEW r \in Requests, NEW q, NEW first, Continued(r, q, first),
         UNCHANGED <<cache, file, clean>>
  PROVE  ServerTypes'
<1>1. HandlerState(request'[r])
  BY DEF Continued, HandlerState
<1>2. /\ request' = [s \in Requests |-> request'[s]]
      /\ \A s \in Requests : HandlerState(request'[s])
      /\ \A s \in calm' : s \in Requests /\ Collects(request'[s])
  BY <1>1, RequestKeepsTypes DEF Continued
<1>3. QED
  BY <1>2 DEF ServerTypes

LEMMA SettingKeepsTypes ==
  ASSUME ServerTypes, NEW r \in Requests, request[r].pc \notin {"ask", "read"},
         request' = [request EXCEPT ![r] = request'[r]], HandlerState(request'[r]),
         UNCHANGED calm, DOMAIN cache' \subseteq Keys,
         DOMAIN file'.entries \subseteq Keys, clean' \in BOOLEAN
  PROVE  ServerTypes'
<1>1. r \notin calm
  BY StateOf
<1>2. /\ request' = [s \in Requests |-> request'[s]]
      /\ \A s \in Requests : HandlerState(request'[s])
      /\ \A s \in calm' : s \in Requests /\ Collects(request'[s])
  BY <1>1, RequestKeepsTypes
<1>3. QED
  BY <1>2 DEF ServerTypes

LEMMA HandleKeepsTypes ==
  ASSUME ServerTypes, NEW r \in Requests, Handle(r)
  PROVE  ServerTypes'
<1>0. /\ DOMAIN cache \subseteq Keys /\ DOMAIN file.entries \subseteq Keys
      /\ clean \in BOOLEAN
  BY DEF ServerTypes
<1>1. CASE Ask(r)
  <2>1. PICK q \in Questions :
          \/ Hit(q)
          \/ Continued(r, q, Asked(q) = {})
    BY <1>1, AskIs
  <2>2. UNCHANGED <<cache, file, clean>>
    BY <1>1 DEF Ask
  <2>3. CASE Hit(q)
    BY <2>2, <2>3 DEF Hit, ServerTypes
  <2>4. CASE Continued(r, q, Asked(q) = {})
    BY <2>2, <2>4, ContinuedKeepsTypes
  <2>5. QED
    BY <2>1, <2>3, <2>4
<1>2. CASE Admit(r) \/ Answer(r)
  <2>1. UNCHANGED <<cache, file, clean>>
    BY <1>2 DEF Admit, Answer
  <2>2. QED
    BY <1>2, <2>1, CollectingIs, ContinuedKeepsTypes
<1>3. CASE InsertInCache(r)
  <2>1. DOMAIN cache' \subseteq Keys
    <3>1. Prepared(request[r]) /\ DOMAIN cache' = (DOMAIN cache) \cup {request[r].q}
      BY <1>3, InsertIs
    <3>2. request[r].q \in Keys
      BY <3>1 DEF Prepared
    <3>3. QED
      BY <1>0, <3>1, <3>2
  <2>2. UNCHANGED <<file, calm, clean>>
    BY <1>3 DEF InsertInCache, historyVars
  <2>3. HandlerState(request'[r])
    BY <1>3, InsertIs DEF HandlerState
  <2>4. QED
    BY <1>0, <1>3, <2>1, <2>2, <2>3, InsertIs, SettingKeepsTypes
<1>4. CASE Snapshot(r)
  <2>1. UNCHANGED <<cache, file, calm>> /\ clean' \in BOOLEAN
    BY <1>0, <1>4 DEF Snapshot
  <2>2. HandlerState(request'[r])
    BY <1>4, SnapshotIs DEF HandlerState
  <2>3. QED
    BY <1>0, <1>4, <2>1, <2>2, SnapshotIs, SettingKeepsTypes
<1>5. CASE OpenFile(r)
  <2>1. UNCHANGED <<cache, calm, clean>> /\ file' = EmptyFile
    BY <1>5 DEF OpenFile, historyVars
  <2>2. DOMAIN file'.entries \subseteq Keys
    BY <2>1 DEF EmptyFile, NoEntries
  <2>3. HandlerState(request'[r])
    BY <1>5, OpenIs DEF HandlerState
  <2>4. QED
    BY <1>0, <1>5, <2>1, <2>2, <2>3, OpenIs, SettingKeepsTypes
<1>6. CASE WriteFile(r) \/ SaveFails(r)
  <2>1. UNCHANGED <<cache, calm>> /\ clean' \in BOOLEAN
    BY <1>0, <1>6 DEF WriteFile, SaveFails
  <2>2. file'.entries = request[r].data \/ UNCHANGED file
    BY <1>6 DEF WriteFile, SaveFails
  <2>3. Saves(request[r])
    BY <1>6, EndIs
  <2>4. DOMAIN file'.entries \subseteq Keys
    BY <1>0, <2>2, <2>3 DEF Saves
  <2>5. request' = [request EXCEPT ![r] = Idle] /\ request'[r] = Idle
    BY <1>6, EndIs, StateSet
  <2>6. HandlerState(request'[r])
    BY <2>5 DEF HandlerState
  <2>7. request[r].pc \notin {"ask", "read"}
    BY <2>3 DEF Saves
  <2>8. QED
    BY <1>0, <2>1, <2>4, <2>5, <2>6, <2>7, SettingKeepsTypes
<1>7. CASE Sign(r) \/ SignFails(r)
  <2>1. UNCHANGED <<cache, file, calm, clean>>
    BY <1>7 DEF Sign, SignFails, historyVars
  <2>2. request' = [request EXCEPT ![r] = Idle] /\ request'[r] = Idle
    BY <1>7, EndIs, StateSet
  <2>3. HandlerState(request'[r])
    BY <2>2 DEF HandlerState
  <2>4. request[r].pc \notin {"ask", "read"}
    BY <1>7, EndIs DEF Signs
  <2>5. QED
    BY <1>0, <2>1, <2>2, <2>3, <2>4, SettingKeepsTypes
<1>8. QED
  BY <1>1, <1>2, <1>3, <1>4, <1>5, <1>6, <1>7 DEF Handle

LEMMA ServerStepTypes ==
  ASSUME ServerTypes, [Next]_vars
  PROVE  ServerTypes'
<1>1. CASE StoreBlock \/ ProcessBlock \/ MarkBlocks \/ RevertUtxos
  <2>1. UNCHANGED <<request, cache, file, clean>> /\ calm' \subseteq calm
    BY <1>1 DEF StoreBlock, ProcessBlock, MarkBlocks, RevertUtxos, DisturbanceAbove,
                serverVars, historyVars
  <2>2. QED
    BY <2>1 DEF ServerTypes
<1>2. CASE \E a \in Addresses : Watch(a)
  <2>1. UNCHANGED <<request, cache, file, clean>> /\ calm' = {}
    BY <1>2 DEF Watch, Disturbance
  <2>2. QED
    BY <2>1 DEF ServerTypes
<1>3. CASE \E r \in Requests : Handle(r)
  BY <1>3, HandleKeepsTypes
<1>4. CASE StoreSignedTx
  <2>1. UNCHANGED <<request, cache, file, clean, calm>>
    BY <1>4 DEF StoreSignedTx, historyVars
  <2>2. QED
    BY <2>1 DEF ServerTypes
<1>5. CASE Restart
  <2>1. /\ request' = [r \in Requests |-> Idle] /\ calm' = {}
        /\ cache' = NoEntries \/ cache' = file.entries
        /\ UNCHANGED file /\ clean' \in BOOLEAN
    BY <1>5 DEF Restart, Disturbance, LoadPrepareTxCache, ServerTypes
  <2>2. DOMAIN cache' \subseteq Keys
    BY <2>1 DEF NoEntries, ServerTypes
  <2>3. QED
    BY <2>1, <2>2 DEF ServerTypes, HandlerState
<1>6. CASE UNCHANGED vars
  <2>1. UNCHANGED <<request, cache, file, clean, calm>>
    BY <1>6 DEF vars, serverVars, historyVars
  <2>2. QED
    BY <2>1 DEF ServerTypes
<1>7. QED
  BY <1>1, <1>2, <1>3, <1>4, <1>5, <1>6 DEF Next

LEMMA StorageStepTypes ==
  ASSUME StorageTypes, CounterTypes, [Next]_vars
  PROVE  StorageTypes' /\ CounterTypes'
<1>0. /\ StartHeight \in Int /\ MaxHeight \in Int /\ 0 <= StartHeight
      /\ StartHeight <= MaxHeight
      /\ upto \in Int /\ StartHeight - 1 <= upto /\ upto <= MaxHeight
      /\ latest \in Int /\ StartHeight - 1 <= latest /\ latest <= upto + 1
      /\ latest <= MaxHeight
  BY WalletAssumption DEF StorageTypes
<1>1. CASE StoreBlock
  <2>1. latest' = latest + 1 /\ latest = upto /\ upto < MaxHeight /\ UNCHANGED <<upto, ans>>
    BY <1>1 DEF StoreBlock
  <2>2. latest' = upto + 1
    BY <2>1
  <2>3. UNCHANGED <<watched, reorgs, asks, restarts>>
    BY <1>1 DEF StoreBlock, serverVars, counters
  <2>4. QED
    BY <1>0, <2>1, <2>2, <2>3 DEF StorageTypes, CounterTypes
<1>2. CASE ProcessBlock
  <2>1. /\ latest > upto /\ Readers!Grow
        /\ UNCHANGED <<latest, watched, reorgs, asks, restarts>>
    BY <1>2 DEF ProcessBlock, serverVars, counters
  <2>2. PICK next \in SUBSET Outputs :
          /\ upto' = upto + 1
          /\ ans' = [h \in StartHeight .. upto + 1 |-> IF h <= upto THEN ans[h] ELSE next]
    BY <2>1 DEF Readers!Grow
  <2>3. ans \in [StartHeight .. upto -> SUBSET Outputs]
    BY DEF StorageTypes
  <2>4. ans' \in [StartHeight .. upto + 1 -> SUBSET Outputs]
    BY <1>0, <2>2, <2>3
  <2>5. latest = upto + 1
    BY <1>0, <2>1
  <2>6. QED
    BY <1>0, <2>1, <2>2, <2>4, <2>5 DEF StorageTypes, CounterTypes
<1>3. CASE MarkBlocks
  <2>1. /\ latest' \in StartHeight - 1 .. upto - 1 /\ reorgs < MaxReorgs
        /\ reorgs' = reorgs + 1 /\ UNCHANGED <<upto, ans, watched, asks, restarts>>
    BY <1>3 DEF MarkBlocks, serverVars
  <2>2. latest' \in StartHeight - 1 .. upto + 1 /\ latest' <= MaxHeight
    BY <1>0, <2>1
  <2>3. reorgs + 1 \in 0 .. MaxReorgs
    BY <2>1, WalletAssumption DEF CounterTypes
  <2>4. QED
    BY <2>1, <2>2, <2>3 DEF StorageTypes, CounterTypes
<1>4. CASE RevertUtxos
  <2>1. /\ Readers!Truncate /\ upto' = latest /\ latest < upto
        /\ UNCHANGED <<latest, watched, reorgs, asks, restarts>>
    BY <1>4 DEF RevertUtxos, serverVars, counters
  <2>2. ans' = [h \in StartHeight .. latest |-> ans[h]]
    BY <2>1 DEF Readers!Truncate
  <2>3. ans \in [StartHeight .. upto -> SUBSET Outputs]
    BY DEF StorageTypes
  <2>4. ans' \in [StartHeight .. latest -> SUBSET Outputs]
    BY <1>0, <2>1, <2>2, <2>3
  <2>5. QED
    BY <1>0, <2>1, <2>4 DEF StorageTypes, CounterTypes
<1>5. ASSUME NEW a \in Addresses, Watch(a)
      PROVE  StorageTypes' /\ CounterTypes'
  BY <1>5 DEF Watch, storageVars, counters, StorageTypes, CounterTypes
<1>6. ASSUME NEW r \in Requests, Handle(r)
      PROVE  StorageTypes' /\ CounterTypes'
  <2>1. UNCHANGED <<upto, ans, latest, watched, reorgs, restarts>>
    BY <1>6 DEF Handle, Ask, Admit, Answer, InsertInCache, Snapshot, OpenFile, WriteFile,
                SaveFails, Sign, SignFails, storageVars, counters
  <2>2. UNCHANGED asks \/ (asks < MaxAsks /\ asks' = asks + 1)
    BY <1>6 DEF Handle, Ask, Admit, Answer, InsertInCache, Snapshot, OpenFile, WriteFile,
                SaveFails, Sign, SignFails, counters
  <2>3. asks < MaxAsks => asks + 1 \in 0 .. MaxAsks
    BY WalletAssumption DEF CounterTypes
  <2>4. QED
    BY <2>1, <2>2, <2>3 DEF StorageTypes, CounterTypes
<1>7. CASE StoreSignedTx
  BY <1>7 DEF StoreSignedTx, storageVars, counters, StorageTypes, CounterTypes
<1>8. CASE Restart
  <2>1. /\ restarts < MaxRestarts /\ restarts' = restarts + 1 /\ watched' = {}
        /\ UNCHANGED <<upto, ans, latest, reorgs, asks>>
    BY <1>8 DEF Restart, storageVars
  <2>2. restarts + 1 \in 0 .. MaxRestarts
    BY <2>1, WalletAssumption DEF CounterTypes
  <2>3. QED
    BY <2>1, <2>2 DEF StorageTypes, CounterTypes
<1>9. CASE UNCHANGED vars
  BY <1>9 DEF vars, storageVars, serverVars, counters, StorageTypes, CounterTypes
<1>10. QED
  BY <1>1, <1>2, <1>3, <1>4, <1>5, <1>6, <1>7, <1>8, <1>9 DEF Next

Types == ServerTypes /\ StorageTypes /\ CounterTypes

LEMMA TypesInit == Init => Types
<1> SUFFICES ASSUME Init PROVE Types
  OBVIOUS
<1>1. ServerTypes
  BY DEF Init, ServerTypes, HandlerState, NoEntries, EmptyFile
<1>2. StorageTypes
  <2>1. upto = StartHeight - 1 /\ ans = [h \in StartHeight .. upto |-> {}] /\ latest = upto
    BY DEF Init, Readers!LedgerInit, Readers!Answered
  <2>2. QED
    BY <2>1, WalletAssumption DEF StorageTypes
<1>3. CounterTypes
  BY WalletAssumption DEF Init, CounterTypes
<1>4. QED
  BY <1>1, <1>2, <1>3 DEF Types

LEMMA TypesImply == ASSUME Types PROVE TypeOK
<1>1. ASSUME NEW r \in Requests
      PROVE  \/ request[r] = Idle
             \/ request[r].pc \in {"ask", "read"} /\ request[r].todo # <<>>
             \/ request[r].pc \in {"insert", "snapshot", "open", "write"}
                /\ request[r].q \in Keys
             \/ request[r].pc = "enclave" /\ request[r].q.kind = "sign"
  <2>1. HandlerState(request[r])
    BY DEF Types, ServerTypes
  <2>2. QED
    BY <2>1 DEF HandlerState, Collects, Prepared, Saves, Signs
<1>2. calm \subseteq {r \in Requests : request[r].pc \in {"ask", "read"}}
  BY DEF Types, ServerTypes, Collects
<1>3. DOMAIN cache \subseteq Keys /\ DOMAIN file.entries \subseteq Keys
  BY DEF Types, ServerTypes
<1>4. QED
  BY <1>1, <1>2, <1>3 DEF TypeOK, Types, StorageTypes, CounterTypes

LEMMA TypesHold == Spec => []Types
<1>1. Types /\ [Next]_vars => Types'
  BY ServerStepTypes, StorageStepTypes DEF Types
<1>2. QED
  BY <1>1, TypesInit, PTL DEF Spec

(* Whatever is asked, answered, refused or cut off by a restart, every     *)
(* handler is at a place where its own question can be: only prepare       *)
(* requests reach the cache and its file, only sign requests the enclave,  *)
(* and a request that waits for an answer has an address it asked for      *)
(* (prepare_transaction_handler_idempotent, sign_transaction_handler).     *)
THEOREM WalletTypeCorrect == Spec => []TypeOK
<1>1. Types => TypeOK
  BY TypesImply
<1>2. QED
  BY <1>1, TypesHold, PTL

-----------------------------------------------------------------------------
(* Everything that is kept was built                                       *)

LEMMA BuiltGrows ==
  ASSUME NEW b, NEW c, b \subseteq c
  PROVE  /\ \A s \in Seq(b) : s \in Seq(c)
         /\ \A x : BuiltFor(x, b) => BuiltFor(x, c)
         /\ \A e : KeptFor(e, b) => KeptFor(e, c)
<1>1. \A s \in Seq(b) : s \in Seq(c)
  OBVIOUS
<1>2. \A e : KeptFor(e, b) => KeptFor(e, c)
  BY DEF KeptFor
<1>3. \A x : BuiltFor(x, b) => BuiltFor(x, c)
  BY <1>2 DEF BuiltFor
<1>4. QED
  BY <1>1, <1>2, <1>3

LEMMA SettingKeepsBuilt ==
  ASSUME ServerTypes, BuiltInv, NEW r \in Requests,
         request' = [request EXCEPT ![r] = request'[r]], built \subseteq built',
         BuiltFor(request'[r], built'), UNCHANGED signedLog,
         spawned' \in Seq(built'), answers' \subseteq built',
         KeptFor(cache', built'), KeptFor(file'.entries, built')
  PROVE  BuiltInv'
<1>1. \A s \in Requests : s # r => request'[s] = request[s]
  BY StateSet
<1>2. signedLog' \in Seq(built')
  BY BuiltGrows DEF BuiltInv
<1>3. ASSUME NEW s \in Requests PROVE BuiltFor(request'[s], built')
  <2>1. BuiltFor(request[s], built')
    BY BuiltGrows DEF BuiltInv
  <2>2. QED
    BY <1>1, <2>1
<1>4. QED
  BY <1>2, <1>3 DEF BuiltInv

LEMMA ContinuedKeepsBuilt ==
  ASSUME ServerTypes, BuiltInv, NEW r \in Requests, NEW q, NEW first,
         Continued(r, q, first), UNCHANGED <<cache, file, signedLog, spawned, answers>>
  PROVE  BuiltInv'
<1>1. BuiltFor(request'[r], built')
  <2> DEFINE x == request'[r]
  <2>1. \/ x = Idle
        \/ Collects(x)
        \/ Prepared(x) /\ x.pc = "insert" /\ x.q = q /\ [q |-> q, tx |-> x.tx] \in built'
        \/ Signs(x) /\ x.q = q /\ [q |-> q, tx |-> x.tx] \in built'
    BY DEF Continued
  <2> HIDE DEF x
  <2>2. BuiltFor(x, built')
    BY <2>1 DEF BuiltFor, Idle, Collects, Signs
  <2>3. QED
    BY <2>2 DEF x
<1>2. built \subseteq built' /\ request' = [request EXCEPT ![r] = request'[r]]
  BY DEF Continued
<1>3. /\ spawned' \in Seq(built') /\ answers' \subseteq built'
      /\ KeptFor(cache', built') /\ KeptFor(file'.entries, built')
  BY <1>2, BuiltGrows DEF BuiltInv
<1>4. QED
  BY <1>1, <1>2, <1>3, SettingKeepsBuilt

LEMMA HandleKeepsBuilt ==
  ASSUME ServerTypes, BuiltInv, NEW r \in Requests, Handle(r)
  PROVE  BuiltInv'
<1>0. /\ signedLog \in Seq(built) /\ spawned \in Seq(built)
      /\ answers \subseteq built
      /\ KeptFor(cache, built) /\ KeptFor(file.entries, built)
      /\ BuiltFor(request[r], built)
  BY DEF BuiltInv
<1>1. CASE Ask(r)
  <2>1. PICK q \in Questions :
          \/ Hit(q)
          \/ UNCHANGED answers /\ Continued(r, q, Asked(q) = {})
    BY <1>1, AskIs
  <2>2. UNCHANGED <<cache, file, signedLog, spawned>>
    BY <1>1 DEF Ask
  <2>3. CASE Hit(q)
    <3>1. answers' \subseteq built /\ UNCHANGED <<request, built>>
      BY <1>0, <2>3 DEF Hit, KeptFor
    <3>2. QED
      BY <2>2, <3>1 DEF BuiltInv
  <2>4. CASE UNCHANGED answers /\ Continued(r, q, Asked(q) = {})
    BY <2>2, <2>4, ContinuedKeepsBuilt
  <2>5. QED
    BY <2>1, <2>3, <2>4
<1>2. CASE Admit(r) \/ Answer(r)
  <2>1. UNCHANGED <<cache, file, signedLog, spawned, answers>>
    BY <1>2 DEF Admit, Answer
  <2>2. QED
    BY <1>2, <2>1, CollectingIs, ContinuedKeepsBuilt
<1>3. CASE InsertInCache(r)
  <2>1. UNCHANGED <<file, signedLog, spawned, answers, built>>
    BY <1>3 DEF InsertInCache, historyVars
  <2>2. request[r].pc = "insert" /\ [q |-> request[r].q, tx |-> request[r].tx] \in built
    BY <1>0, <1>3, InsertIs DEF BuiltFor
  <2>3. /\ request'[r].pc = "snapshot" /\ request'[r].q = request[r].q
        /\ request'[r].tx = request[r].tx
    BY <1>3, InsertIs
  <2>4. BuiltFor(request'[r], built)
    BY <2>2, <2>3 DEF BuiltFor
  <2>5. /\ DOMAIN cache' = (DOMAIN cache) \cup {request[r].q}
        /\ cache'[request[r].q] = request[r].tx
        /\ \A k \in DOMAIN cache : k # request[r].q => cache'[k] = cache[k]
        /\ request' = [request EXCEPT ![r] = request'[r]]
    BY <1>3, InsertIs
  <2>6. KeptFor(cache', built)
    BY <1>0, <2>2, <2>5 DEF KeptFor
  <2>7. QED
    BY <1>0, <2>1, <2>4, <2>5, <2>6, SettingKeepsBuilt
<1>4. CASE Snapshot(r)
  <2>1. UNCHANGED <<cache, file, signedLog, spawned, answers, built>>
    BY <1>4 DEF Snapshot
  <2>2. request[r].pc = "snapshot"
    BY <1>4 DEF Snapshot
  <2>3. /\ request'[r].pc = "open" /\ request'[r].q = request[r].q
        /\ request'[r].tx = request[r].tx /\ request'[r].data = cache
        /\ request' = [request EXCEPT ![r] = request'[r]]
    BY <1>4, SnapshotIs
  <2>4. BuiltFor(request'[r], built)
    BY <1>0, <2>2, <2>3 DEF BuiltFor
  <2>5. QED
    BY <1>0, <2>1, <2>3, <2>4, SettingKeepsBuilt
<1>5. CASE OpenFile(r)
  <2>1. UNCHANGED <<cache, signedLog, spawned, answers, built>> /\ file' = EmptyFile
    BY <1>5 DEF OpenFile, historyVars
  <2>2. KeptFor(file'.entries, built)
    BY <2>1 DEF KeptFor, EmptyFile, NoEntries
  <2>3. request[r].pc = "open"
    BY <1>5 DEF OpenFile
  <2>4. /\ request'[r].pc = "write" /\ request'[r].q = request[r].q
        /\ request'[r].tx = request[r].tx /\ request'[r].data = request[r].data
        /\ request' = [request EXCEPT ![r] = request'[r]]
    BY <1>5, OpenIs
  <2>5. BuiltFor(request'[r], built)
    BY <1>0, <2>3, <2>4 DEF BuiltFor
  <2>6. QED
    BY <1>0, <2>1, <2>2, <2>4, <2>5, SettingKeepsBuilt
<1>6. BuiltFor(Idle, built)
  BY DEF BuiltFor, Idle
<1>7. CASE WriteFile(r) \/ SaveFails(r)
  <2>1. UNCHANGED <<cache, signedLog, spawned, built>>
    BY <1>7 DEF WriteFile, SaveFails
  <2>2. file'.entries = request[r].data \/ UNCHANGED file
    BY <1>7 DEF WriteFile, SaveFails
  <2>3. request[r].pc \in {"open", "write"}
    BY <1>7 DEF WriteFile, SaveFails
  <2>4. KeptFor(file'.entries, built)
    BY <1>0, <2>2, <2>3 DEF BuiltFor
  <2>5. /\ request' = [request EXCEPT ![r] = Idle] /\ request'[r] = Idle
        /\ answers' = answers \cup {[q |-> request[r].q, tx |-> request[r].tx]}
    BY <1>7, EndIs, StateSet
  <2>6. answers' \subseteq built
    BY <1>0, <2>3, <2>5 DEF BuiltFor
  <2>7. QED
    BY <1>0, <1>6, <2>1, <2>4, <2>5, <2>6, SettingKeepsBuilt
<1>8. CASE Sign(r) \/ SignFails(r)
  <2>1. UNCHANGED <<cache, file, signedLog, built>>
    BY <1>8 DEF Sign, SignFails, historyVars
  <2>2. request[r].pc = "enclave"
    BY <1>8 DEF Sign, SignFails
  <2>3. [q |-> request[r].q, tx |-> request[r].tx] \in built
    BY <1>0, <2>2 DEF BuiltFor
  <2>4. request' = [request EXCEPT ![r] = Idle] /\ request'[r] = Idle
    BY <1>8, EndIs, StateSet
  <2>5. \/ spawned' = Append(spawned, [q |-> request[r].q, tx |-> request[r].tx])
        \/ UNCHANGED spawned
    BY <1>8 DEF Sign, SignFails
  <2>6. spawned' \in Seq(built)
    BY <1>0, <2>3, <2>5
  <2>7. answers' \subseteq built
    BY <1>0, <1>8, <2>3, EndIs DEF SignFails, historyVars
  <2>8. QED
    BY <1>0, <1>6, <2>1, <2>4, <2>6, <2>7, SettingKeepsBuilt
<1>9. QED
  BY <1>1, <1>2, <1>3, <1>4, <1>5, <1>7, <1>8 DEF Handle

LEMMA StoreKeepsBuilt ==
  ASSUME BuiltInv, StoreSignedTx
  PROVE  BuiltInv' /\ (UNCHANGED signedLog \/ \E s \in built : signedLog' = Append(signedLog, s))
<1>1. PICK i \in DOMAIN spawned :
        /\ spawned' = RemoveAt(spawned, i)
        /\ signedLog' = Append(signedLog, spawned[i]) \/ UNCHANGED signedLog
        /\ UNCHANGED <<cache, file, request, answers, built>>
  BY DEF StoreSignedTx, historyVars
<1>2. signedLog \in Seq(built) /\ spawned \in Seq(built)
  BY DEF BuiltInv
<1>3. i \in 1 .. Len(spawned) /\ spawned[i] \in built
  BY <1>1, <1>2
<1>4. spawned' \in Seq(built)
  <2>1. /\ SubSeq(spawned, 1, i - 1) \in Seq(built)
        /\ SubSeq(spawned, i + 1, Len(spawned)) \in Seq(built)
    BY <1>2, <1>3
  <2>2. QED
    BY <1>1, <2>1 DEF RemoveAt
<1>5. signedLog' \in Seq(built)
  BY <1>1, <1>2, <1>3
<1>6. QED
  BY <1>1, <1>3, <1>4, <1>5 DEF BuiltInv

LEMMA BuiltStep ==
  ASSUME ServerTypes, BuiltInv, [Next]_vars
  PROVE  BuiltInv'
<1>1. CASE StoreBlock \/ ProcessBlock \/ MarkBlocks \/ RevertUtxos \/ UNCHANGED vars
  <2>1. UNCHANGED <<request, cache, file, signedLog, spawned, answers, built>>
    BY <1>1 DEF StoreBlock, ProcessBlock, MarkBlocks, RevertUtxos, serverVars,
                historyVars, vars
  <2>2. QED
    BY <2>1 DEF BuiltInv
<1>2. CASE \E a \in Addresses : Watch(a)
  BY <1>2 DEF Watch, BuiltInv
<1>3. CASE \E r \in Requests : Handle(r)
  BY <1>3, HandleKeepsBuilt
<1>4. CASE StoreSignedTx
  BY <1>4, StoreKeepsBuilt
<1>5. CASE Restart
  <2>1. /\ request' = [r \in Requests |-> Idle] /\ spawned' = <<>>
        /\ cache' = NoEntries \/ cache' = file.entries
        /\ UNCHANGED <<file, signedLog, answers, built>>
    BY <1>5 DEF Restart, LoadPrepareTxCache
  <2>2. KeptFor(cache', built)
    BY <2>1 DEF NoEntries, KeptFor, BuiltInv
  <2>3. \A r \in Requests : BuiltFor(request'[r], built)
    BY <2>1 DEF BuiltFor, Idle
  <2>4. QED
    BY <2>1, <2>2, <2>3 DEF BuiltInv
<1>6. QED
  BY <1>1, <1>2, <1>3, <1>4, <1>5 DEF Next

LEMMA BuiltHolds == Spec => [](Types /\ BuiltInv)
<1>1. Init => BuiltInv
  BY DEF Init, BuiltInv, BuiltFor, KeptFor, Idle, NoEntries, EmptyFile
<1>2. Types /\ BuiltInv /\ [Next]_vars => BuiltInv'
  BY BuiltStep DEF Types
<1>3. QED
  BY <1>1, <1>2, TypesHold, PTL DEF Spec

(* Whatever is answered from the cache, from the cache of an earlier run,  *)
(* or after signing, and whatever the log records, is a transaction that   *)
(* was built for those parameters, heights included                        *)
(* (generate_prepare_tx_cache_key, load_prepare_tx_cache).                 *)
THEOREM AnswersAreBuilt == Spec => []AnswersWereBuilt
<1>1. BuiltInv => AnswersWereBuilt
  <2> SUFFICES ASSUME BuiltInv PROVE AnswersWereBuilt
    OBVIOUS
  <2>1. answers \subseteq built /\ signedLog \in Seq(built)
    BY DEF BuiltInv
  <2>2. ToSet(signedLog) \subseteq built
    BY <2>1 DEF ToSet
  <2>3. QED
    BY <2>1, <2>2 DEF AnswersWereBuilt
<1>2. QED
  BY <1>1, BuiltHolds, PTL

-----------------------------------------------------------------------------
(* The signed log                                                          *)

LEMMA MinOfTwo ==
  ASSUME NEW a \in Int, NEW b \in Int
  PROVE  Min({a, b}) = IF a <= b THEN a ELSE b
<1>1. CASE a <= b
  BY <1>1 DEF Min
<1>2. CASE b < a
  BY <1>2 DEF Min
<1>3. QED
  BY <1>1, <1>2

LEMMA Multiples ==
  ASSUME NEW n \in Nat \ {0}
  PROVE  /\ (n - 1) * PageSize \in Nat /\ n * PageSize \in Nat
         /\ (n - 1) * PageSize + PageSize = n * PageSize
BY WalletAssumption

LEMMA FullPageStays ==
  ASSUME NEW S, NEW log \in Seq(S), NEW s \in S, NEW n \in Nat \ {0},
         Len(Page(log, n)) = PageSize
  PROVE  Page(Append(log, s), n) = Page(log, n)
<1> DEFINE a == (n - 1) * PageSize
           e == n * PageSize
           m == Min({e, Len(log)})
           p == Min({e, Len(log) + 1})
<1>1. a \in Nat /\ e \in Nat /\ a + PageSize = e /\ PageSize \in Nat \ {0}
  BY Multiples, WalletAssumption
<1>2. Page(log, n) = SubSeq(log, a + 1, m)
  BY DEF Page
<1>3. Page(Append(log, s), n) = SubSeq(Append(log, s), a + 1, p)
  <2>1. Len(Append(log, s)) = Len(log) + 1
    OBVIOUS
  <2>2. Page(Append(log, s), n)
          = SubSeq(Append(log, s), a + 1, Min({e, Len(Append(log, s))}))
    BY DEF Page
  <2>3. QED
    BY <2>1, <2>2, Zenon
<1> HIDE DEF a, e
<1>4. /\ m = IF e <= Len(log) THEN e ELSE Len(log)
      /\ p = IF e <= Len(log) + 1 THEN e ELSE Len(log) + 1
  BY <1>1, MinOfTwo
<1> HIDE DEF m, p
<1>5. m = e /\ e <= Len(log) /\ p = e
  BY <1>1, <1>2, <1>4
<1>6. SubSeq(Append(log, s), a + 1, e) = SubSeq(log, a + 1, e)
  BY <1>1, <1>5
<1>7. QED
  BY <1>2, <1>3, <1>4, <1>5, <1>6

LEMMA LogStep ==
  ASSUME BuiltInv, [Next]_vars
  PROVE  UNCHANGED signedLog \/ \E s \in built : signedLog' = Append(signedLog, s)
<1>1. CASE StoreSignedTx
  BY <1>1, StoreKeepsBuilt
<1>2. CASE \E r \in Requests : Handle(r)
  BY <1>2 DEF Handle, Ask, Admit, Answer, InsertInCache, Snapshot, OpenFile, WriteFile,
              SaveFails, Sign, SignFails
<1>3. CASE \/ StoreBlock \/ ProcessBlock \/ MarkBlocks \/ RevertUtxos \/ Restart
           \/ (\E a \in Addresses : Watch(a)) \/ UNCHANGED vars
  BY <1>3 DEF StoreBlock, ProcessBlock, MarkBlocks, RevertUtxos, Restart, Watch,
              serverVars, vars
<1>4. QED
  BY <1>1, <1>2, <1>3 DEF Next

(* A reader who goes through the log page by page, for any size of the     *)
(* pages, sees no record twice and misses none, while tasks that finish in *)
(* any order add records (get_all_signed_txs, signed_db.rs).               *)
THEOREM PagesStay == Spec => FullPagesStay
<1>1. ASSUME BuiltInv, [Next]_vars
      PROVE  [\A n \in 1 .. Len(signedLog) :
                Len(Page(signedLog, n)) = PageSize
                  => Page(signedLog', n) = Page(signedLog, n)]_vars
  <2>1. signedLog \in Seq(built)
    BY <1>1 DEF BuiltInv
  <2>2. CASE UNCHANGED signedLog
    BY <2>2
  <2>3. ASSUME NEW s \in built, signedLog' = Append(signedLog, s),
               NEW n \in 1 .. Len(signedLog), Len(Page(signedLog, n)) = PageSize
        PROVE  Page(signedLog', n) = Page(signedLog, n)
    <3>1. n \in Nat \ {0}
      BY <2>1
    <3>2. QED
      BY <2>1, <2>3, <3>1, FullPageStays
  <2>4. QED
    BY <1>1, <2>2, <2>3, LogStep
<1>2. QED
  BY <1>1, BuiltHolds, PTL DEF Spec, FullPagesStay

-----------------------------------------------------------------------------
(* The cache and its file                                                  *)

Outside(x) == x.pc \notin {"snapshot", "open", "write"}

(* Steps that touch neither the cache nor its file                         *)
LEMMA OutsideKeepsCache ==
  ASSUME ServerTypes, CacheInv, NEW r \in Requests,
         request' = [request EXCEPT ![r] = request'[r]],
         Outside(request[r]), Outside(request'[r]), UNCHANGED <<cache, file>>,
         \A a \in answers' : a.q.kind = "prepare" => a \in answers \/ a.q \in DOMAIN cache
  PROVE  CacheInv'
<1>1. \A s \in Requests : s # r => request'[s] = request[s]
  BY StateSet
<1>2. \A s \in Requests : ~Outside(request[s]) \/ ~Outside(request'[s])
                            => s # r /\ request'[s] = request[s]
  BY <1>1
<1>3. \A s \in Requests : Writing(s)' <=> Writing(s)
  BY <1>2 DEF Writing, Outside
<1>4. ASSUME NEW k, Secured(k) PROVE Secured(k)'
  BY <1>2, <1>3, <1>4 DEF Secured, Writing, Outside
<1>5. \A k \in DOMAIN cache' : Secured(k)'
  BY <1>4 DEF CacheInv
<1>6. \A s, t \in Requests : Writing(s)' /\ Writing(t)' => s = t
  BY <1>3 DEF CacheInv
<1>7. \A s \in Requests : request'[s].pc = "write" => file' = EmptyFile
  BY <1>2 DEF CacheInv, Outside
<1>8. \A s \in Requests : request'[s].pc \in {"snapshot", "open", "write"}
                            => request'[s].q \in DOMAIN cache'
  BY <1>2 DEF CacheInv, Outside
<1>9. \A a \in answers' : a.q.kind = "prepare" => a.q \in DOMAIN cache'
  BY DEF CacheInv
<1>10. QED
  BY <1>5, <1>6, <1>7, <1>8, <1>9 DEF CacheInv

LEMMA ContinuedKeepsCache ==
  ASSUME ServerTypes, CacheInv, NEW r \in Requests, NEW q, NEW first,
         Continued(r, q, first), Outside(request[r]), UNCHANGED <<cache, file, answers>>
  PROVE  CacheInv'
<1> DEFINE x == request'[r]
<1>1. x = Idle \/ Collects(x) \/ (Prepared(x) /\ x.pc = "insert") \/ Signs(x)
  BY DEF Continued
<1> HIDE DEF x
<1>2. Outside(x)
  BY <1>1 DEF Outside, Idle, Collects, Signs
<1>3. Outside(request'[r]) /\ request' = [request EXCEPT ![r] = request'[r]]
  BY <1>2 DEF Continued, x
<1>4. QED
  BY <1>3, OutsideKeepsCache

LEMMA InsertKeepsCache ==
  ASSUME ServerTypes, CacheInv, NEW r \in Requests, InsertInCache(r)
  PROVE  CacheInv'
<1>1. /\ request[r].pc = "insert" /\ request'[r].pc = "snapshot"
      /\ request'[r].q = request[r].q
      /\ DOMAIN cache' = (DOMAIN cache) \cup {request[r].q}
      /\ \A s \in Requests : s # r => request'[s] = request[s]
  <2>1. request' = [request EXCEPT ![r] = request'[r]]
    BY InsertIs
  <2>2. \A s \in Requests : s # r => request'[s] = request[s]
    BY <2>1, StateSet
  <2>3. QED
    BY <2>2, InsertIs
<1>2. UNCHANGED <<file, answers>>
  BY DEF InsertInCache, historyVars
<1>3. \A k : Secured(k)'
  BY <1>1 DEF Secured
<1>4. \A s \in Requests : Writing(s)' => Writing(s)
  BY <1>1 DEF Writing
<1>5. \A s \in Requests : request'[s].pc = "write" => request[s].pc = "write"
  BY <1>1
<1>6. \A s \in Requests : request'[s].pc \in {"snapshot", "open", "write"}
                            => request'[s].q \in DOMAIN cache'
  BY <1>1 DEF CacheInv
<1>7. \A a \in answers' : a.q.kind = "prepare" => a.q \in DOMAIN cache'
  BY <1>1, <1>2 DEF CacheInv
<1>8. QED
  BY <1>2, <1>3, <1>4, <1>5, <1>6, <1>7 DEF CacheInv

LEMMA SnapshotKeepsCache ==
  ASSUME ServerTypes, CacheInv, NEW r \in Requests, Snapshot(r), clean'
  PROVE  CacheInv'
<1>1. /\ request[r].pc = "snapshot" /\ request'[r].pc = "open"
      /\ request'[r].q = request[r].q /\ request'[r].data = cache
      /\ \A s \in Requests : s # r => request'[s] = request[s]
  BY SnapshotIs, StateSet
<1>2. UNCHANGED <<cache, file, answers>> /\ \A s \in Requests : ~Writing(s)
  BY DEF Snapshot, Writing
<1>3. \A s \in Requests : Writing(s)' <=> s = r
  BY <1>1, <1>2 DEF Writing
<1>4. \A k \in DOMAIN cache' : Secured(k)'
  BY <1>1, <1>2, <1>3 DEF Secured
<1>5. \A s \in Requests : request'[s].pc # "write"
  BY <1>1, <1>2 DEF Writing
<1>6. \A s \in Requests : request'[s].pc \in {"snapshot", "open", "write"}
                            => request'[s].q \in DOMAIN cache'
  BY <1>1, <1>2 DEF CacheInv
<1>7. QED
  BY <1>2, <1>3, <1>4, <1>5, <1>6 DEF CacheInv

LEMMA OpenKeepsCache ==
  ASSUME ServerTypes, CacheInv, NEW r \in Requests, OpenFile(r)
  PROVE  CacheInv'
<1>1. /\ request[r].pc = "open" /\ request'[r].pc = "write"
      /\ request'[r].q = request[r].q /\ request'[r].data = request[r].data
      /\ \A s \in Requests : s # r => request'[s] = request[s]
  BY OpenIs, StateSet
<1>2. UNCHANGED <<cache, answers>> /\ file' = EmptyFile
  BY DEF OpenFile, historyVars
<1>3. \A s \in Requests : (Writing(s)' <=> Writing(s)) /\ (Writing(s) <=> s = r)
  BY <1>1 DEF Writing, CacheInv
<1>4. ASSUME NEW k \in DOMAIN cache' PROVE Secured(k)'
  <2>1. Secured(k)
    BY <1>2 DEF CacheInv
  <2>2. CASE \E s \in Requests : request[s].pc = "snapshot"
    BY <1>1, <2>2 DEF Secured
  <2>3. CASE k \in DOMAIN request[r].data
    BY <1>1, <1>3, <2>3 DEF Secured
  <2>4. QED
    BY <1>3, <2>1, <2>2, <2>3 DEF Secured
<1>5. \A s \in Requests : request'[s].pc \in {"snapshot", "open", "write"}
                            => request'[s].q \in DOMAIN cache'
  BY <1>1, <1>2 DEF CacheInv
<1>6. \A a \in answers' : a.q.kind = "prepare" => a.q \in DOMAIN cache'
  BY <1>2 DEF CacheInv
<1>7. QED
  BY <1>2, <1>3, <1>4, <1>5, <1>6 DEF CacheInv

LEMMA WriteKeepsCache ==
  ASSUME ServerTypes, CacheInv, NEW r \in Requests, WriteFile(r)
  PROVE  CacheInv'
<1>1. request[r].pc = "write" /\ UNCHANGED cache
  BY DEF WriteFile
<1>2. /\ request'[r] = Idle
      /\ \A s \in Requests : s # r => request'[s] = request[s]
      /\ answers' = answers \cup {[q |-> request[r].q, tx |-> request[r].tx]}
  BY EndIs, StateSet
<1>3. file = EmptyFile
  BY <1>1 DEF CacheInv
<1>4. file'.entries = request[r].data /\ file'.whole
  BY <1>3 DEF WriteFile
<1>5. Idle.pc \notin {"snapshot", "open", "write"}
  BY DEF Idle
<1>6. \A s \in Requests : Writing(s) <=> s = r
  BY <1>1 DEF Writing, CacheInv
<1>7. \A s \in Requests : ~Writing(s)'
  BY <1>2, <1>5, <1>6 DEF Writing
<1>8. ASSUME NEW k \in DOMAIN cache' PROVE Secured(k)'
  <2>1. Secured(k)
    BY <1>1 DEF CacheInv
  <2>2. CASE \E s \in Requests : request[s].pc = "snapshot"
    BY <1>1, <1>2, <2>2 DEF Secured
  <2>3. CASE k \in DOMAIN request[r].data
    BY <1>4, <1>7, <2>3 DEF Secured
  <2>4. QED
    BY <1>6, <2>1, <2>2, <2>3 DEF Secured
<1>9. \A s \in Requests : request'[s].pc \in {"snapshot", "open", "write"}
                            => request'[s].q \in DOMAIN cache'
  BY <1>1, <1>2, <1>5 DEF CacheInv
<1>10. request[r].q \in DOMAIN cache
  BY <1>1 DEF CacheInv
<1>11. \A a \in answers' : a.q.kind = "prepare" => a.q \in DOMAIN cache'
  BY <1>1, <1>2, <1>10 DEF CacheInv
<1>12. \A s \in Requests : request'[s].pc # "write"
  BY <1>7 DEF Writing
<1>13. QED
  BY <1>7, <1>8, <1>9, <1>11, <1>12 DEF CacheInv

LEMMA RestartKeepsCache ==
  ASSUME ServerTypes, CacheInv, Restart, clean'
  PROVE  CacheInv'
<1>1. /\ \A r \in Requests : request'[r] = Idle /\ ~Saving(r)
      /\ cache' = IF file.whole THEN file.entries ELSE NoEntries
      /\ UNCHANGED <<file, answers>>
  BY DEF Restart, LoadPrepareTxCache
<1>2. Idle.pc \notin {"snapshot", "open", "write"}
  BY DEF Idle
<1>3. \A k \in DOMAIN cache : file.whole /\ k \in DOMAIN file.entries
  BY <1>1 DEF CacheInv, Secured, Writing, Saving
<1>4. DOMAIN cache \subseteq DOMAIN cache'
  BY <1>1, <1>3
<1>5. \A k \in DOMAIN cache' : file'.whole /\ k \in DOMAIN file'.entries
  BY <1>1 DEF NoEntries
<1>6. \A r \in Requests : ~Writing(r)' /\ request'[r].pc \notin {"snapshot", "open", "write"}
  BY <1>1, <1>2 DEF Writing
<1>7. \A k \in DOMAIN cache' : Secured(k)'
  BY <1>5, <1>6 DEF Secured
<1>8. \A a \in answers' : a.q.kind = "prepare" => a.q \in DOMAIN cache'
  BY <1>1, <1>4 DEF CacheInv
<1>9. QED
  BY <1>6, <1>7, <1>8 DEF CacheInv

LEMMA HandleKeepsCache ==
  ASSUME ServerTypes, CacheInv, NEW r \in Requests, Handle(r), clean'
  PROVE  CacheInv'
<1>1. CASE Ask(r)
  <2>1. PICK q \in Questions :
          \/ Hit(q)
          \/ UNCHANGED answers /\ Continued(r, q, Asked(q) = {})
    BY <1>1, AskIs
  <2>2. UNCHANGED <<cache, file>> /\ Outside(request[r])
    BY <1>1 DEF Ask, Outside, Idle
  <2>3. CASE Hit(q)
    <3>1. UNCHANGED request /\ answers' = answers \cup {[q |-> q, tx |-> cache[q]]}
          /\ q \in DOMAIN cache
      BY <2>3 DEF Hit
    <3>2. request' = [request EXCEPT ![r] = request'[r]]
      BY <3>1 DEF ServerTypes
    <3>3. \A a \in answers' : a.q.kind = "prepare" => a \in answers \/ a.q \in DOMAIN cache
      BY <3>1
    <3>4. Outside(request'[r])
      BY <2>2, <3>1
    <3>5. QED
      BY <2>2, <3>2, <3>3, <3>4, OutsideKeepsCache
  <2>4. CASE UNCHANGED answers /\ Continued(r, q, Asked(q) = {})
    BY <2>2, <2>4, ContinuedKeepsCache
  <2>5. QED
    BY <2>1, <2>3, <2>4
<1>2. CASE Admit(r) \/ Answer(r)
  <2>1. UNCHANGED <<cache, file, answers>> /\ Outside(request[r])
    BY <1>2 DEF Admit, Answer, Outside
  <2>2. QED
    BY <1>2, <2>1, CollectingIs, ContinuedKeepsCache
<1>3. CASE InsertInCache(r)
  BY <1>3, InsertKeepsCache
<1>4. CASE Snapshot(r)
  BY <1>4, SnapshotKeepsCache
<1>5. CASE OpenFile(r)
  BY <1>5, OpenKeepsCache
<1>6. CASE WriteFile(r)
  BY <1>6, WriteKeepsCache
<1>7. CASE SaveFails(r)
  BY <1>7 DEF SaveFails
<1>8. CASE Sign(r) \/ SignFails(r)
  <2>1. UNCHANGED <<cache, file>>
    BY <1>8 DEF Sign, SignFails
  <2>2. Outside(request[r])
    BY <1>8 DEF Sign, SignFails, Outside
  <2>3. request' = [request EXCEPT ![r] = Idle] /\ request'[r] = Idle
    BY <1>8, EndIs, StateSet
  <2>4. Outside(request'[r])
    BY <2>3 DEF Outside, Idle
  <2>5. request[r].q.kind = "sign"
    BY <1>8, EndIs DEF Signs
  <2>6. \A a \in answers' : a.q.kind = "prepare" => a \in answers
    <3>1. \/ answers' = answers \cup {[q |-> request[r].q, tx |-> request[r].tx]}
          \/ answers' = answers
      BY <1>8 DEF Sign, Respond, SignFails, historyVars
    <3>2. QED
      BY <2>5, <3>1
  <2>7. QED
    BY <2>1, <2>2, <2>3, <2>4, <2>6, OutsideKeepsCache
<1>9. QED
  BY <1>1, <1>2, <1>3, <1>4, <1>5, <1>6, <1>7, <1>8 DEF Handle

(* What becomes of the file or the cache is never clean again              *)
LEMMA CleanBefore ==
  ASSUME [Next]_vars, clean'
  PROVE  clean
<1>1. CASE \/ StoreBlock \/ ProcessBlock \/ MarkBlocks \/ RevertUtxos \/ Restart
           \/ (\E a \in Addresses : Watch(a)) \/ StoreSignedTx \/ UNCHANGED vars
  BY <1>1 DEF StoreBlock, ProcessBlock, MarkBlocks, RevertUtxos, Restart, Watch,
              StoreSignedTx, historyVars, vars
<1>2. CASE \E r \in Requests : Handle(r)
  BY <1>2 DEF Handle, Ask, Admit, Answer, InsertInCache, Snapshot, OpenFile, WriteFile,
              SaveFails, Sign, SignFails, historyVars
<1>3. QED
  BY <1>1, <1>2 DEF Next

LEMMA CacheStep ==
  ASSUME ServerTypes, CacheInv, [Next]_vars, clean'
  PROVE  CacheInv'
<1>1. CASE \/ StoreBlock \/ ProcessBlock \/ MarkBlocks \/ RevertUtxos
           \/ (\E a \in Addresses : Watch(a)) \/ StoreSignedTx \/ UNCHANGED vars
  <2>1. UNCHANGED <<request, cache, file, answers>>
    BY <1>1 DEF StoreBlock, ProcessBlock, MarkBlocks, RevertUtxos, Watch,
                StoreSignedTx, serverVars, historyVars, vars
  <2>2. QED
    BY <2>1 DEF CacheInv, Secured, Writing
<1>2. CASE \E r \in Requests : Handle(r)
  BY <1>2, HandleKeepsCache
<1>3. CASE Restart
  BY <1>3, RestartKeepsCache
<1>4. QED
  BY <1>1, <1>2, <1>3 DEF Next

(* Being asked for the first time                                          *)
Fresh(x) ==
  /\ x.pc \in {"ask", "read", "insert", "snapshot", "open", "write"}
  /\ x.q.kind = "prepare"
  => x.first

LEMMA FreshStep ==
  ASSUME ServerTypes, CacheInv, \A r \in Requests : Fresh(request[r]), [Next]_vars
  PROVE  \A r \in Requests : Fresh(request'[r])
<1>0. Fresh(Idle)
  BY DEF Fresh, Idle
<1>1. ASSUME NEW r \in Requests, Handle(r)
      PROVE  \A s \in Requests : Fresh(request'[s])
  <2>1. SUFFICES /\ request' = [request EXCEPT ![r] = request'[r]]
                 /\ Fresh(request'[r])
    BY StateSet
  <2>2. ASSUME NEW q, NEW first, Continued(r, q, first),
               q.kind = "prepare" => first
        PROVE  Fresh(request'[r]) /\ request' = [request EXCEPT ![r] = request'[r]]
    <3> DEFINE x == request'[r]
    <3>1. \/ x = Idle
          \/ Collects(x) /\ x.q = q /\ x.first = first
          \/ Prepared(x) /\ x.q = q /\ x.first = first
          \/ Signs(x)
      BY <2>2 DEF Continued
    <3> HIDE DEF x
    <3>2. Fresh(x)
      BY <1>0, <2>2, <3>1 DEF Fresh, Signs
    <3>3. QED
      BY <2>2, <3>2 DEF Continued, x
  <2>3. CASE Ask(r)
    <3>1. PICK q \in Questions :
            \/ Hit(q)
            \/ /\ q \notin DOMAIN cache
               /\ Continued(r, q, Asked(q) = {})
      BY <2>3, AskIs
    <3>2. CASE Hit(q)
      BY <3>2 DEF Hit, ServerTypes
    <3>3. CASE q \notin DOMAIN cache /\ Continued(r, q, Asked(q) = {})
      <4>1. q.kind = "prepare" => Asked(q) = {}
        BY <3>3 DEF Asked, CacheInv
      <4>2. QED
        BY <2>2, <3>3, <4>1
    <3>4. QED
      BY <3>1, <3>2, <3>3
  <2>4. CASE Admit(r) \/ Answer(r)
    <3>1. Collects(request[r]) /\ Continued(r, request[r].q, request[r].first)
      BY <2>4, CollectingIs
    <3>2. request[r].q.kind = "prepare" => request[r].first
      BY <3>1 DEF Fresh, Collects
    <3>3. QED
      BY <2>2, <3>1, <3>2
  <2>5. CASE InsertInCache(r)
    BY <2>5, InsertIs DEF Fresh
  <2>6. CASE Snapshot(r)
    BY <2>6, SnapshotIs DEF Fresh
  <2>7. CASE OpenFile(r)
    BY <2>7, OpenIs DEF Fresh
  <2>8. CASE WriteFile(r) \/ SaveFails(r) \/ Sign(r) \/ SignFails(r)
    <3>1. request' = [request EXCEPT ![r] = Idle] /\ request'[r] = Idle
      BY <2>8, EndIs, StateSet
    <3>2. QED
      BY <1>0, <3>1
  <2>9. QED
    BY <1>1, <2>3, <2>4, <2>5, <2>6, <2>7, <2>8 DEF Handle
<1>2. CASE \/ StoreBlock \/ ProcessBlock \/ MarkBlocks \/ RevertUtxos
           \/ (\E a \in Addresses : Watch(a)) \/ StoreSignedTx \/ UNCHANGED vars
  <2>1. UNCHANGED request
    BY <1>2 DEF StoreBlock, ProcessBlock, MarkBlocks, RevertUtxos, Watch,
                StoreSignedTx, serverVars, vars
  <2>2. QED
    BY <2>1
<1>3. CASE Restart
  BY <1>0, <1>3 DEF Restart
<1>4. QED
  BY <1>1, <1>2, <1>3 DEF Next

CleanInv == clean => CacheInv /\ \A r \in Requests : Fresh(request[r])

LEMMA CleanHolds == Spec => [](Types /\ CleanInv)
<1>1. Init => CleanInv
  <2> SUFFICES ASSUME Init PROVE CleanInv
    OBVIOUS
  <2>1. /\ \A r \in Requests : request[r].pc = "idle"
        /\ cache = NoEntries /\ answers = {}
    BY DEF Init, Idle
  <2>2. DOMAIN cache = {}
    BY <2>1 DEF NoEntries
  <2>3. QED
    BY <2>1, <2>2 DEF CleanInv, CacheInv, Fresh, Writing
<1>2. Types /\ CleanInv /\ [Next]_vars => CleanInv'
  BY CleanBefore, CacheStep, FreshStep DEF Types, CleanInv
<1>3. QED
  BY <1>1, <1>2, TypesHold, PTL DEF Spec

(* A prepare request that was answered is not worked out again, for any    *)
(* number of requests that save at the same time as others ask, and        *)
(* through any number of restarts: while no two writes overlap and none    *)
(* fails or is cut off, what is in the cache is in the file or in the data *)
(* of a write still to come (save_prepare_tx_cache,                        *)
(* load_prepare_tx_cache).                                                 *)
THEOREM AnswersStay == Spec => []AnsweredForGood
<1>1. CleanInv => AnsweredForGood
  BY DEF CleanInv, AnsweredForGood, Fresh
<1>2. QED
  BY <1>1, CleanHolds, PTL

-----------------------------------------------------------------------------
(* Sums of amounts                                                         *)

(* Sums: f[s] is the sum of w over the indices s                           *)
Sums(f, w, n) ==
  \A s \in SUBSET (1 .. n) :
    f[s] = IF s = {} THEN 0 ELSE f[s \ {Max(s)}] + w[Max(s)]

LEMMA SumExists ==
  ASSUME NEW n \in Nat, NEW w \in [1 .. n -> Nat]
  PROVE  \E f \in [SUBSET (1 .. n) -> Nat] : Sums(f, w, n)
<1> DEFINE g == [p \in Nat \X (1 .. n) |-> p[1] + w[p[2]]]
<1>1. g \in [Nat \X (1 .. n) -> Nat]
  OBVIOUS
<1> HIDE DEF g
<1>2. PICK f \in [SUBSET (1 .. n) -> Nat] : FoldsWith(f, g, 0, n)
  BY <1>1, FoldExists
<1>3. ASSUME NEW s \in SUBSET (1 .. n)
      PROVE  f[s] = IF s = {} THEN 0 ELSE f[s \ {Max(s)}] + w[Max(s)]
  <2>1. f[s] = IF s = {} THEN 0 ELSE g[<<f[s \ {Max(s)}], Max(s)>>]
    BY <1>2 DEF FoldsWith
  <2>2. CASE s = {}
    BY <2>1, <2>2
  <2>3. CASE s # {}
    <3>1. Max(s) \in 1 .. n
      BY <2>3, LargestElement
    <3>2. f[s \ {Max(s)}] \in Nat
      OBVIOUS
    <3>3. g[<<f[s \ {Max(s)}], Max(s)>>] = f[s \ {Max(s)}] + w[Max(s)]
      BY <3>1, <3>2 DEF g
    <3>4. QED
      BY <2>1, <2>3, <3>3
  <2>4. QED
    BY <2>2, <2>3
<1>4. QED
  BY <1>3 DEF Sums

LEMMA SumsAgree ==
  ASSUME NEW n \in Nat, NEW w, NEW e, NEW f, Sums(e, w, n), Sums(f, w, n)
  PROVE  e[1 .. n] = f[1 .. n]
<1>1. FoldAlike(e, f, n)
  BY DEF FoldAlike, Sums
<1>2. \A s \in SUBSET (1 .. n) : e[s] = f[s]
  BY <1>1, FoldAgrees
<1>3. QED
  BY <1>2

AmountsOf(list) == [i \in 1 .. Len(list) |-> Amount[list[i].id]]

LEMMA AmountsType ==
  ASSUME NEW list \in Seq(Utxo)
  PROVE  /\ Len(list) \in Nat /\ DOMAIN list = 1 .. Len(list)
         /\ AmountsOf(list) \in [1 .. Len(list) -> Nat]
<1>1. \A i \in 1 .. Len(list) : list[i].id \in Outputs
  <2>1. \A i \in 1 .. Len(list) : list[i] \in Utxo
    OBVIOUS
  <2>2. \A u \in Utxo : u.id \in Outputs
    BY DEF Utxo
  <2>3. QED
    BY <2>1, <2>2
<1>2. \A i \in 1 .. Len(list) : Amount[list[i].id] \in Nat
  BY <1>1, SelectionAssumption
<1>3. QED
  BY <1>2 DEF AmountsOf

LEMMA TotalSums ==
  ASSUME NEW list \in Seq(Utxo)
  PROVE  \E c : Sums(c, AmountsOf(list), Len(list)) /\ Total(list) = c[1 .. Len(list)]
<1> DEFINE n == Len(list)
           P(f) == f = [s \in SUBSET (1 .. n) |->
                          IF s = {} THEN 0 ELSE f[s \ {Max(s)}] + Amount[list[Max(s)].id]]
           c == CHOOSE f : P(f)
<1>1. n \in Nat /\ DOMAIN list = 1 .. n /\ AmountsOf(list) \in [1 .. n -> Nat]
  BY AmountsType
<1>2. Total(list) = c[1 .. n]
  BY <1>1 DEF Total, FoldLeft, MapThenFoldSet
<1>3. ASSUME NEW s \in SUBSET (1 .. n), s # {}
      PROVE  AmountsOf(list)[Max(s)] = Amount[list[Max(s)].id]
  <2>1. Max(s) \in 1 .. n
    BY <1>1, <1>3, LargestElement
  <2>2. QED
    BY <2>1 DEF AmountsOf
<1>4. PICK f \in [SUBSET (1 .. n) -> Nat] : Sums(f, AmountsOf(list), n)
  BY <1>1, SumExists
<1> HIDE DEF n
<1>5. P(f)
  BY <1>3, <1>4 DEF Sums
<1>6. P(c)
  BY <1>5, Zenon
<1> HIDE DEF c
<1>7. Sums(c, AmountsOf(list), n)
  BY <1>3, <1>6 DEF Sums
<1>8. QED
  BY <1>2, <1>7 DEF n

LEMMA TotalIs ==
  ASSUME NEW list \in Seq(Utxo)
  PROVE  Total(list) \in Nat /\ (list = <<>> => Total(list) = 0)
<1> DEFINE n == Len(list)
<1>1. n \in Nat /\ AmountsOf(list) \in [1 .. n -> Nat]
  BY AmountsType
<1>2. PICK c : Sums(c, AmountsOf(list), n) /\ Total(list) = c[1 .. n]
  BY TotalSums
<1>3. PICK f \in [SUBSET (1 .. n) -> Nat] : Sums(f, AmountsOf(list), n)
  BY <1>1, SumExists
<1>4. c[1 .. n] = f[1 .. n]
  BY <1>1, <1>2, <1>3, SumsAgree
<1>5. Total(list) \in Nat
  BY <1>2, <1>4
<1>6. ASSUME list = <<>> PROVE Total(list) = 0
  <2>1. 1 .. n = {}
    BY <1>6
  <2>2. QED
    BY <1>2, <2>1 DEF Sums
<1>7. QED
  BY <1>5, <1>6

(* The sum of the amounts of the first inputs of a transaction             *)
LEMMA InputsSum ==
  ASSUME NEW list \in Seq(Utxo), NEW m \in 0 .. Len(list),
         NEW inputs, inputs = [i \in DOMAIN list |-> list[i].id]
  PROVE  Worth(inputs, m) = Total(SubSeq(list, 1, m))
<1> DEFINE first == SubSeq(list, 1, m)
           w == [i \in 1 .. m |-> Amount[inputs[i]]]
           P(f) == f = [s \in SUBSET DOMAIN w |->
                          IF s = {} THEN 0 ELSE f[s \ {Max(s)}] + w[Max(s)]]
           c == CHOOSE f : P(f)
<1>1. Len(list) \in Nat /\ DOMAIN list = 1 .. Len(list) /\ m \in Nat
  BY AmountsType
<1>2. /\ first \in Seq(Utxo) /\ Len(first) = m
      /\ \A i \in 1 .. m : first[i] = list[i]
  BY <1>1
<1>3. DOMAIN w = 1 .. m /\ \A i \in 1 .. m : w[i] = Amount[list[i].id]
  BY <1>1
<1> HIDE DEF w
<1>4. Worth(inputs, m) = c[DOMAIN w]
  <2>1. Worth(inputs, m) = FoldLeft(+, 0, w)
    BY DEF Worth, w
  <2>2. FoldLeft(+, 0, w) = c[DOMAIN w]
    BY DEF FoldLeft, MapThenFoldSet
  <2>3. QED
    BY <2>1, <2>2
<1>5. w \in [1 .. m -> Nat] /\ AmountsOf(first) = w
  <2>1. w = [i \in 1 .. m |-> w[i]] /\ \A i \in 1 .. m : w[i] = Amount[first[i].id]
    BY <1>1, <1>2, <1>3 DEF w
  <2>2. AmountsOf(first) = [i \in 1 .. m |-> Amount[first[i].id]]
    BY <1>2 DEF AmountsOf
  <2>3. QED
    BY <1>2, <2>1, <2>2, AmountsType
<1>6. PICK f \in [SUBSET (1 .. m) -> Nat] : Sums(f, w, m)
  BY <1>1, <1>5, SumExists
<1>7. P(f)
  BY <1>3, <1>6 DEF Sums
<1>8. P(c)
  BY <1>7, Zenon
<1> HIDE DEF c
<1>9. Sums(c, w, m)
  BY <1>3, <1>8 DEF Sums
<1>10. PICK d : Sums(d, w, m) /\ Total(first) = d[1 .. m]
  BY <1>2, <1>5, TotalSums
<1>11. c[1 .. m] = d[1 .. m]
  BY <1>1, <1>9, <1>10, SumsAgree
<1>12. QED
  BY <1>3, <1>4, <1>10, <1>11

-----------------------------------------------------------------------------
(* What is selected                                                        *)

Distinct(list) ==
  \A i, j \in 1 .. Len(list) : list[i].id = list[j].id => i = j

PartOf(s, list) ==
  /\ s \in Seq(Utxo)
  /\ \A i \in 1 .. Len(s) : \E j \in 1 .. Len(list) : s[i] = list[j]
  /\ Distinct(list) => Distinct(s)

LEMMA PartOfPart ==
  ASSUME NEW s, NEW t, NEW list \in Seq(Utxo), PartOf(s, t), PartOf(t, list)
  PROVE  PartOf(s, list)
<1>1. s \in Seq(Utxo) /\ (Distinct(list) => Distinct(s))
  BY DEF PartOf
<1>2. ASSUME NEW i \in 1 .. Len(s) PROVE \E j \in 1 .. Len(list) : s[i] = list[j]
  <2>1. PICK k \in 1 .. Len(t) : s[i] = t[k]
    BY DEF PartOf
  <2>2. PICK j \in 1 .. Len(list) : t[k] = list[j]
    BY DEF PartOf
  <2>3. QED
    BY <2>1, <2>2
<1>3. QED
  BY <1>1, <1>2 DEF PartOf

LEMMA PrefixPart ==
  ASSUME NEW list \in Seq(Utxo), NEW n \in 0 .. Len(list)
  PROVE  /\ PartOf(SubSeq(list, 1, n), list)
         /\ Len(SubSeq(list, 1, n)) = n
         /\ \A i \in 1 .. n : SubSeq(list, 1, n)[i] = list[i]
<1> DEFINE s == SubSeq(list, 1, n)
<1>1. s \in Seq(Utxo) /\ Len(s) = n /\ \A i \in 1 .. n : s[i] = list[i] /\ i \in 1 .. Len(list)
  OBVIOUS
<1> HIDE DEF s
<1>2. PartOf(s, list)
  BY <1>1 DEF PartOf, Distinct
<1>3. QED
  BY <1>1, <1>2 DEF s

(* The selection loop stops at the first sum that is enough                *)
LEMMA TakenIs ==
  ASSUME NEW list \in Seq(Utxo), NEW target \in Int
  PROVE  \E n \in 0 .. Len(list) :
           /\ Taken(list, target) = SubSeq(list, 1, n)
           /\ Total(list) >= target => Total(SubSeq(list, 1, n)) >= target
           /\ Total(SubSeq(list, 1, n)) >= target /\ n > 0
                => Total(SubSeq(list, 1, n - 1)) < target
<1> DEFINE enough == {n \in 0 .. Len(list) : Total(SubSeq(list, 1, n)) >= target}
<1>1. Len(list) \in Nat /\ SubSeq(list, 1, Len(list)) = list
  OBVIOUS
<1>2. Taken(list, target) = IF enough = {} THEN list ELSE SubSeq(list, 1, Min(enough))
  BY DEF Taken
<1>3. CASE enough = {}
  <2>1. Len(list) \in 0 .. Len(list) /\ Len(list) \notin enough
    BY <1>1, <1>3
  <2>2. ~(Total(list) >= target)
    BY <1>1, <2>1
  <2>3. QED
    BY <1>1, <1>2, <1>3, <2>1, <2>2
<1>4. CASE enough # {}
  <2> DEFINE n == Min(enough)
  <2>1. n \in enough /\ \A m \in enough : n <= m
    <3>1. enough \in SUBSET Nat
      BY <1>1
    <3> HIDE DEF enough
    <3>2. QED
      BY <1>4, <3>1, LeastElement
  <2> HIDE DEF n
  <2>2. n \in 0 .. Len(list) /\ Total(SubSeq(list, 1, n)) >= target
    BY <2>1
  <2>3. ASSUME n > 0 PROVE Total(SubSeq(list, 1, n - 1)) < target
    <3>1. n - 1 \in 0 .. Len(list) /\ ~(n <= n - 1)
      BY <1>1, <2>2, <2>3
    <3>2. n - 1 \notin enough
      BY <2>1, <3>1
    <3>3. SubSeq(list, 1, n - 1) \in Seq(Utxo)
      BY <3>1, PrefixPart DEF PartOf
    <3>4. Total(SubSeq(list, 1, n - 1)) \in Nat
      BY <3>3, TotalIs
    <3>5. QED
      BY <3>1, <3>2, <3>4
  <2>4. QED
    BY <1>2, <1>4, <2>2, <2>3 DEF n
<1>5. QED
  BY <1>3, <1>4

LEMMA TakenPart ==
  ASSUME NEW list \in Seq(Utxo), NEW target \in Int
  PROVE  /\ PartOf(Taken(list, target), list)
         /\ Total(list) >= target => Total(Taken(list, target)) >= target
         /\ list = <<>> => Taken(list, target) = <<>>
<1>1. PICK n \in 0 .. Len(list) :
        /\ Taken(list, target) = SubSeq(list, 1, n)
        /\ Total(list) >= target => Total(SubSeq(list, 1, n)) >= target
  BY TakenIs
<1>2. PartOf(Taken(list, target), list) /\ Len(Taken(list, target)) = n
  BY <1>1, PrefixPart
<1>3. list = <<>> => Taken(list, target) = <<>>
  <2>1. Taken(list, target) \in Seq(Utxo)
    BY <1>2 DEF PartOf
  <2>2. list = <<>> => n = 0
    OBVIOUS
  <2>3. QED
    BY <1>2, <2>1, <2>2
<1>4. QED
  BY <1>1, <1>2, <1>3

LEMMA ByHeightPart ==
  ASSUME NEW list \in Seq(Utxo)
  PROVE  PartOf(ByHeight(list), list)
<1> DEFINE n == Len(list)
           before(i, j) == \/ list[i].height < list[j].height
                           \/ list[i].height = list[j].height /\ i < j
           R == {p \in (1 .. n) \X (1 .. n) : before(p[1], p[2])}
           P(s) == s \in [1 .. n -> 1 .. n]
                   /\ \A i, j \in 1 .. n : i < j => before(s[i], s[j])
           order == CHOOSE s : P(s)
<1>1. n \in Nat /\ DOMAIN list = 1 .. n /\ \A i \in 1 .. n : list[i].height \in Int
  <2>1. \A i \in 1 .. n : list[i] \in Utxo
    OBVIOUS
  <2>2. QED
    BY <2>1 DEF Utxo
<1>2. IsFiniteSet(1 .. n) /\ Cardinality(1 .. n) = n
  <2> HIDE DEF n
  <2>1. n \in Int /\ 1 \in Int /\ n - 1 + 1 = n
    BY <1>1
  <2>2. QED
    BY <1>1, <2>1, FS_Interval
<1>3. \A i, j \in 1 .. n : <<i, j>> \in R <=> before(i, j)
  OBVIOUS
<1>4. TotallyOrders(R, 1 .. n)
  <2> HIDE DEF R
  <2>1. QED
    BY SMTT(20), <1>1, <1>3 DEF TotallyOrders
<1>5. PICK s \in [1 .. n -> 1 .. n] : Ascends(s, R)
  BY <1>2, <1>4, SortExists
<1>6. \A i, j \in 1 .. n : i < j => before(s[i], s[j])
  <2> HIDE DEF R, before
  <2>1. QED
    BY <1>3, <1>5 DEF Ascends
<1>7. P(order)
  <2> HIDE DEF before
  <2>1. P(s)
    BY <1>6
  <2>2. QED
    BY <2>1, Zenon
<1>8. ByHeight(list) = [i \in 1 .. n |-> list[order[i]]]
  <2>1. InOrder(1 .. n, before) = order
    BY <1>2 DEF InOrder
  <2>2. QED
    BY <1>1, <2>1 DEF ByHeight
<1> HIDE DEF order, n, before
<1>9. order \in [1 .. n -> 1 .. n] /\ IsInjective(order)
  <2>1. order \in [1 .. Cardinality(1 .. n) -> 1 .. n] /\ Ascends(order, R)
    BY <1>2, <1>3, <1>7 DEF Ascends
  <2>2. QED
    BY <1>2, <1>4, <2>1, AscendingRuns
<1>10. ByHeight(list) \in Seq(Utxo) /\ Len(ByHeight(list)) = n
  <2>1. \A i \in 1 .. n : list[order[i]] \in Utxo
    BY <1>1, <1>9
  <2>2. n \in Nat
    BY <1>1
  <2> HIDE DEF R
  <2>3. [i \in 1 .. n |-> list[order[i]]] \in Seq(Utxo)
    BY <2>1, <2>2
  <2>4. Len([i \in 1 .. n |-> list[order[i]]]) = n
    BY <2>2
  <2>5. QED
    BY <1>8, <2>3, <2>4
<1>11. \A i \in 1 .. n : order[i] \in 1 .. n /\ ByHeight(list)[i] = list[order[i]]
  BY <1>8, <1>9
<1>12. Distinct(list) => Distinct(ByHeight(list))
  BY <1>9, <1>10, <1>11 DEF Distinct, IsInjective, n
<1>13. QED
  BY <1>10, <1>11, <1>12 DEF PartOf, n

(* What one address yields: its selection, limited to the target again     *)
Chosen(rows, target) == Taken(Taken(ByHeight(rows), target), target)

LEMMA ChosenIs ==
  ASSUME NEW rows \in Seq(Utxo), NEW target \in Int,
         SelectUtxosForAmount(rows, target).ok
  PROVE  /\ target > 0
         /\ rows = <<>> => SelectUtxosForAmount(rows, target).utxos = <<>>
         /\ rows # <<>> =>
              /\ SelectUtxosForAmount(rows, target).utxos = Taken(ByHeight(rows), target)
              /\ Total(Chosen(rows, target)) >= target
              /\ Chosen(rows, target) # <<>>
              /\ PartOf(Taken(ByHeight(rows), target), rows)
              /\ PartOf(Chosen(rows, target), rows)
<1> DEFINE sorted == ByHeight(rows)
           taken == Taken(sorted, target)
<1>1. /\ target > 0
      /\ rows = <<>> => SelectUtxosForAmount(rows, target).utxos = <<>>
      /\ rows # <<>> => /\ SelectUtxosForAmount(rows, target).utxos = taken
                        /\ Total(taken) >= target
  <2>1. SelectUtxosForAmount(rows, target)
          = IF target <= 0 THEN Refused
            ELSE IF rows = <<>> THEN Selected(<<>>)
            ELSE IF Total(taken) >= target THEN Selected(taken)
            ELSE Refused
    BY DEF SelectUtxosForAmount
  <2>2. ~Refused.ok /\ \A l : Selected(l).utxos = l
    BY DEF Refused, Selected
  <2> HIDE DEF taken
  <2>3. QED
    BY <2>1, <2>2
<1>2. PartOf(sorted, rows) /\ sorted \in Seq(Utxo)
  BY ByHeightPart DEF PartOf
<1> HIDE DEF sorted
<1>3. PartOf(taken, sorted) /\ taken \in Seq(Utxo)
  BY <1>2, TakenPart DEF PartOf
<1>4. PartOf(taken, rows)
  BY <1>2, <1>3, PartOfPart
<1> HIDE DEF taken
<1>5. /\ PartOf(Taken(taken, target), taken) /\ Taken(taken, target) \in Seq(Utxo)
      /\ Total(taken) >= target => Total(Taken(taken, target)) >= target
  BY <1>3, TakenPart DEF PartOf
<1>6. PartOf(Taken(taken, target), rows)
  BY <1>4, <1>5, PartOfPart
<1>7. ASSUME Total(Taken(taken, target)) >= target PROVE Taken(taken, target) # <<>>
  BY <1>1, <1>5, <1>7, TotalIs
<1>8. QED
  BY <1>1, <1>4, <1>5, <1>6, <1>7 DEF Chosen, taken, sorted

-----------------------------------------------------------------------------
(* What is built                                                           *)

PaidInFull(b) ==
  LET inputs == b.tx.inputs
      n      == Len(inputs)
  IN  /\ Worth(inputs, n) = Needed(b.q) + b.tx.change
      /\ b.tx.change >= 0
      /\ n > 0 => Worth(inputs, n - 1) < Needed(b.q)
      /\ IsInjective(inputs)

BuiltFrom(q, list) == BuildUnsignedTransaction(list, q.amount, q.fee)

LEMMA NeededIs ==
  ASSUME NEW q \in Questions
  PROVE  /\ q.amount \in Nat /\ q.fee \in Nat /\ q.height \in Nat
         /\ Needed(q) = q.amount + q.fee /\ Needed(q) \in Nat
<1>1. q.amount \in Nat /\ q.fee \in Nat /\ q.height \in Nat
  BY WalletAssumption DEF Question
<1>2. QED
  BY <1>1 DEF Needed

LEMMA BuildIs ==
  ASSUME NEW q \in Questions, NEW list \in Seq(Utxo)
  PROVE  /\ BuiltFrom(q, list).change = Total(list) - Needed(q)
         /\ BuiltFrom(q, list).change \in Int
         /\ BuiltFrom(q, list).inputs = [i \in DOMAIN list |-> list[i].id]
<1>1. Total(list) \in Nat
  BY TotalIs
<1>2. /\ BuiltFrom(q, list).change = Total(list) - (q.amount + q.fee)
      /\ BuiltFrom(q, list).inputs = [i \in DOMAIN list |-> list[i].id]
  BY DEF BuiltFrom, BuildUnsignedTransaction
<1>3. QED
  BY <1>1, <1>2, NeededIs

LEMMA TakenPays ==
  ASSUME NEW q \in Questions, NEW whole \in Seq(Utxo), Distinct(whole),
         NEW list, list = Taken(whole, Needed(q)), BuiltFrom(q, list).change >= 0
  PROVE  PaidInFull([q |-> q, tx |-> BuiltFrom(q, list)])
<1> DEFINE tx == BuiltFrom(q, list)
           N == Needed(q)
<1>1. N \in Nat /\ N \in Int /\ list = Taken(whole, N)
  BY NeededIs
<1> HIDE DEF tx, N
<1>2. PICK n \in 0 .. Len(whole) :
        /\ Taken(whole, N) = SubSeq(whole, 1, n)
        /\ Total(whole) >= N => Total(SubSeq(whole, 1, n)) >= N
        /\ Total(SubSeq(whole, 1, n)) >= N /\ n > 0
             => Total(SubSeq(whole, 1, n - 1)) < N
  BY <1>1, TakenIs
<1>3. PartOf(list, whole) /\ Len(list) = n /\ list = SubSeq(whole, 1, n)
  BY <1>1, <1>2, PrefixPart
<1>4. list \in Seq(Utxo) /\ Distinct(list) /\ DOMAIN list = 1 .. n
  BY <1>3 DEF PartOf
<1>5. /\ tx.change = Total(list) - N /\ Total(list) \in Nat
      /\ tx.inputs = [i \in 1 .. n |-> list[i].id]
      /\ tx.inputs = [i \in DOMAIN list |-> list[i].id]
  <2>1. /\ tx.change = Total(list) - N /\ Total(list) \in Nat
        /\ tx.inputs = [i \in DOMAIN list |-> list[i].id]
    BY <1>4, BuildIs, TotalIs DEF tx, N
  <2>2. QED
    BY <1>4, <2>1
<1>6. Total(list) >= N /\ Total(list) = N + tx.change
  BY <1>1, <1>5 DEF tx
<1>7. tx.inputs \in Seq(Outputs) /\ Len(tx.inputs) = n /\ IsInjective(tx.inputs)
  <2>1. \A i \in 1 .. n : list[i] \in Utxo
    BY <1>3, <1>4
  <2>2. \A i \in 1 .. n : list[i].id \in Outputs
    BY <2>1 DEF Utxo
  <2>3. tx.inputs \in Seq(Outputs) /\ Len(tx.inputs) = n
    BY <1>5, <2>2
  <2>4. IsInjective(tx.inputs)
    BY <1>3, <1>4, <1>5 DEF Distinct, IsInjective
  <2>5. QED
    BY <2>3, <2>4
<1>8. Worth(tx.inputs, n) = Total(list)
  <2>1. Worth(tx.inputs, n) = Total(SubSeq(list, 1, n))
    <3>1. n \in 0 .. Len(list)
      BY <1>3
    <3>2. QED
      BY <1>4, <1>5, <3>1, InputsSum
  <2>2. SubSeq(list, 1, n) = list
    BY <1>3, <1>4
  <2>3. QED
    BY <2>1, <2>2
<1>9. ASSUME n > 0 PROVE Worth(tx.inputs, n - 1) < N
  <2>1. Worth(tx.inputs, n - 1) = Total(SubSeq(list, 1, n - 1))
    <3>1. n - 1 \in 0 .. Len(list)
      BY <1>3, <1>9
    <3>2. QED
      BY SMTT(20), <1>4, <1>5, <3>1, InputsSum
  <2>2. SubSeq(list, 1, n - 1) = SubSeq(whole, 1, n - 1)
    BY <1>3, <1>9
  <2>3. QED
    BY <1>2, <1>3, <1>6, <1>9, <2>1, <2>2
<1>10. QED
  BY <1>6, <1>7, <1>8, <1>9 DEF PaidInFull, tx, N

-----------------------------------------------------------------------------
(* What the storage service has of an address                              *)

RowsBefore(u, v) == \/ u.height < v.height
                    \/ u.height = v.height /\ u.id < v.id

(* The rows of an address: distinct outputs that pay it                    *)
LEMMA RowsAre ==
  ASSUME StorageTypes, NEW a, NEW h \in Int
  PROVE  /\ Rows(a, h) \in Seq(Utxo) /\ Distinct(Rows(a, h))
         /\ \A i \in 1 .. Len(Rows(a, h)) :
              Owner[Rows(a, h)[i].id] = a /\ Rows(a, h)[i].id \in SpendableNow(h)
<1> DEFINE at == Min({h, upto})
           born(o) == Min({k \in StartHeight .. at : o \in ans[k]})
           here == IF at < StartHeight THEN {} ELSE {o \in ans[at] : Owner[o] = a}
           rows == {[id |-> o, height |-> born(o)] : o \in here}
           n == Cardinality(rows)
           R == {p \in rows \X rows : RowsBefore(p[1], p[2])}
           P(s) == /\ s \in [1 .. n -> rows]
                   /\ \A i, j \in DOMAIN s : i < j => RowsBefore(s[i], s[j])
           order == CHOOSE s : P(s)
<1>1. /\ StartHeight \in Nat /\ upto \in Int /\ at \in Int /\ at <= upto
      /\ ans \in [StartHeight .. upto -> SUBSET Outputs]
  <2>1. upto \in Int /\ StartHeight \in Nat
    BY WalletAssumption DEF StorageTypes
  <2>2. QED
    BY <2>1, MinOfTwo DEF StorageTypes
<1> HIDE DEF at
<1>2. here \in SUBSET Outputs
  BY <1>1
<1>3. ASSUME NEW o \in here PROVE born(o) \in Int
  <2> DEFINE S == {k \in StartHeight .. at : o \in ans[k]}
  <2>1. S \in SUBSET Nat /\ at \in S
    BY <1>1
  <2> HIDE DEF S
  <2>2. Min(S) \in S
    BY <2>1, LeastElement
  <2>3. QED
    BY <2>1, <2>2 DEF S
<1> HIDE DEF here, born
<1>4. \A u \in rows : u \in Utxo /\ u.id \in here /\ u = [id |-> u.id, height |-> born(u.id)]
  BY <1>2, <1>3 DEF Utxo
<1>5. IsFiniteSet(rows)
  <2> DEFINE f == [o \in here |-> [id |-> o, height |-> born(o)]]
  <2>1. f \in Surjection(here, rows)
    BY DEF Surjection
  <2>2. IsFiniteSet(here)
    BY <1>2, SelectionAssumption, FS_Subset
  <2>3. QED
    BY <2>1, <2>2, FS_Surjection
<1> HIDE DEF rows
<1>6. n \in Nat
  BY <1>5, FS_CardinalityType
<1>7. \A u, v \in rows : <<u, v>> \in R <=> RowsBefore(u, v)
  OBVIOUS
<1>8. TotallyOrders(R, rows)
  <2>1. \A u \in rows : u.height \in Int /\ u.id \in Int
    BY <1>4, SelectionAssumption DEF Utxo
  <2>2. \A u, v \in rows : u # v => u.id # v.id
    BY <1>4
  <2> HIDE DEF R
  <2>3. QED
    BY <1>7, <2>1, <2>2 DEF TotallyOrders, RowsBefore
<1> HIDE DEF R
<1>9. P(order)
  <2>1. PICK s \in [1 .. n -> rows] : Ascends(s, R)
    BY <1>5, <1>8, SortExists
  <2>2. P(s)
    BY <1>7, <2>1 DEF Ascends
  <2>3. QED
    BY <2>2, Zenon
<1>10. Rows(a, h) = order
  BY DEF Rows, InOrder, RowsBefore, at, here, born, rows
<1> HIDE DEF order
<1>11. order \in [1 .. n -> rows] /\ IsInjective(order)
  <2>1. Ascends(order, R)
    BY <1>7, <1>9 DEF Ascends
  <2>2. QED
    BY <1>5, <1>8, <1>9, <2>1, AscendingRuns
<1> HIDE DEF n, P
<1>12. order \in Seq(Utxo) /\ Len(order) = n
  BY <1>4, <1>6, <1>11
<1>13. Distinct(order)
  <2>1. \A i, j \in 1 .. n : order[i].id = order[j].id => order[i] = order[j]
    BY <1>4, <1>11
  <2>2. QED
    BY <1>11, <1>12, <2>1 DEF Distinct, IsInjective
<1>14. \A i \in 1 .. n : Owner[order[i].id] = a /\ order[i].id \in SpendableNow(h)
  <2>1. \A i \in 1 .. n : order[i].id \in here
    BY <1>4, <1>11
  <2>2. \A o \in here : Owner[o] = a /\ o \in SpendableNow(h)
    BY DEF here, at, SpendableNow
  <2>3. QED
    BY <2>1, <2>2
<1>15. QED
  BY <1>10, <1>12, <1>13, <1>14

(* Rows and answers depend on the blocks up to their height only           *)
RowsOf(log, a, h) ==
  LET born(o) == Min({k \in StartHeight .. h : o \in log[k]})
      here == IF h < StartHeight THEN {} ELSE {o \in log[h] : Owner[o] = a}
      rows == {[id |-> o, height |-> born(o)] : o \in here}
  IN  InOrder(rows, RowsBefore)

LEMMA RowsAgree ==
  ASSUME NEW log1, NEW log2, NEW h \in Int, NEW a, StartHeight \in Int,
         \A k \in StartHeight .. h : log1[k] = log2[k]
  PROVE  RowsOf(log1, a, h) = RowsOf(log2, a, h)
<1> DEFINE born(log, o) == Min({k \in StartHeight .. h : o \in log[k]})
           here(log) == IF h < StartHeight THEN {} ELSE {o \in log[h] : Owner[o] = a}
           rows(log) == {[id |-> o, height |-> born(log, o)] : o \in here(log)}
<1>1. here(log1) = here(log2)
  BY SMT
<1>2. ASSUME NEW o PROVE born(log1, o) = born(log2, o)
  <2>1. {k \in StartHeight .. h : o \in log1[k]} = {k \in StartHeight .. h : o \in log2[k]}
    OBVIOUS
  <2>2. QED
    BY <2>1, Zenon
<1> HIDE DEF born, here
<1>3. rows(log1) = rows(log2)
  BY <1>1, <1>2
<1>4. RowsOf(log1, a, h) = InOrder(rows(log1), RowsBefore)
      /\ RowsOf(log2, a, h) = InOrder(rows(log2), RowsBefore)
  BY Zenon DEF RowsOf, born, here
<1> HIDE DEF rows
<1>5. QED
  BY <1>3, <1>4 DEF InOrder

LEMMA RowsStay ==
  ASSUME StorageTypes, StorageTypes', NEW h \in Int, h <= upto, h <= upto',
         \A k \in StartHeight .. h : ans'[k] = ans[k]
  PROVE  /\ SpendableNow(h)' = SpendableNow(h)
         /\ \A a \in Addresses : Rows(a, h)' = Rows(a, h)
<1>1. /\ StartHeight \in Int /\ upto \in Int /\ upto' \in Int
      /\ Min({h, upto}) = h /\ Min({h, upto'}) = h
  <2>1. StartHeight \in Int /\ upto \in Int /\ upto' \in Int
    BY WalletAssumption DEF StorageTypes
  <2>2. QED
    BY <2>1, MinOfTwo
<1>2. SpendableNow(h)' = SpendableNow(h)
  BY <1>1 DEF SpendableNow
<1>3. ASSUME NEW a \in Addresses PROVE Rows(a, h)' = Rows(a, h)
  <2>1. Rows(a, h) = RowsOf(ans, a, h)
    <3>1. Rows(a, h) = RowsOf(ans, a, Min({h, upto}))
      BY Zenon DEF Rows, RowsOf, InOrder, RowsBefore
    <3>2. QED
      BY <1>1, <3>1
  <2>2. Rows(a, h)' = RowsOf(ans', a, h)
    <3>1. Rows(a, h)' = RowsOf(ans', a, Min({h, upto'}))
      BY Zenon DEF Rows, RowsOf, InOrder, RowsBefore
    <3>2. QED
      BY <1>1, <3>1
  <2>3. RowsOf(ans', a, h) = RowsOf(ans, a, h)
    BY <1>1, RowsAgree
  <2>4. QED
    BY <2>1, <2>2, <2>3
<1>4. QED
  BY <1>2, <1>3

(* What goes on without disturbance keeps its rows                         *)
LEMMA RowsStayBelow ==
  ASSUME StorageTypes, StorageTypes', ProcessBlock \/ RevertUtxos
  PROVE  \E m \in Int :
           /\ DisturbanceAbove(m)
           /\ \A h \in Int : h <= m =>
                /\ SpendableNow(h)' = SpendableNow(h)
                /\ \A a \in Addresses : Rows(a, h)' = Rows(a, h)
<1>0. /\ StartHeight \in Int /\ upto \in Int /\ upto' \in Int /\ latest \in Int
      /\ ans \in [StartHeight .. upto -> SUBSET Outputs]
  BY WalletAssumption DEF StorageTypes
<1>1. CASE ProcessBlock
  <2>1. PICK next \in SUBSET Outputs :
          /\ upto' = upto + 1
          /\ ans' = [h \in StartHeight .. upto + 1 |-> IF h <= upto THEN ans[h] ELSE next]
    BY <1>1 DEF ProcessBlock, Readers!Grow
  <2>2. ASSUME NEW h \in Int, h <= upto
        PROVE  h <= upto' /\ \A k \in StartHeight .. h : ans'[k] = ans[k]
    BY <1>0, <2>1, <2>2
  <2>3. DisturbanceAbove(upto)
    BY <1>1 DEF ProcessBlock
  <2>4. QED
    BY <1>0, <2>2, <2>3, RowsStay
<1>2. CASE RevertUtxos
  <2>1. /\ upto' = latest /\ latest < upto /\ DisturbanceAbove(latest)
        /\ ans' = [h \in StartHeight .. latest |-> ans[h]]
    BY <1>2 DEF RevertUtxos, Readers!Truncate
  <2>2. ASSUME NEW h \in Int, h <= latest
        PROVE  /\ h <= upto /\ h <= upto'
               /\ \A k \in StartHeight .. h : ans'[k] = ans[k]
    BY <1>0, <2>1, <2>2
  <2>3. QED
    BY <1>0, <2>1, <2>2, RowsStay
<1>3. QED
  BY <1>1, <1>2

(* Numbers in ascending order                                              *)
LEMMA AscendingIs ==
  ASSUME NEW S \in SUBSET Nat, IsFiniteSet(S)
  PROVE  /\ InOrder(S, <) \in [1 .. Cardinality(S) -> S]
         /\ IsInjective(InOrder(S, <))
         /\ \A x \in S : \E i \in DOMAIN InOrder(S, <) : InOrder(S, <)[i] = x
         /\ InOrder(S, <) \in Seq(S)
<1> DEFINE n == Cardinality(S)
           R == {p \in S \X S : p[1] < p[2]}
           P(s) == s \in [1 .. n -> S] /\ \A i, j \in DOMAIN s : i < j => s[i] < s[j]
           order == CHOOSE s : P(s)
<1>1. n \in Nat
  BY FS_CardinalityType
<1>2. \A u, v \in S : <<u, v>> \in R <=> u < v
  OBVIOUS
<1>3. TotallyOrders(R, S)
  <2>1. \A u \in S : u \in Int
    OBVIOUS
  <2> HIDE DEF R
  <2>2. QED
    BY <1>2, <2>1 DEF TotallyOrders
<1> HIDE DEF R
<1>4. P(order)
  <2>1. PICK s \in [1 .. n -> S] : Ascends(s, R)
    BY <1>3, SortExists
  <2>2. P(s)
    BY <1>2, <2>1 DEF Ascends
  <2>3. QED
    BY <2>2, Zenon
<1>5. InOrder(S, <) = order
  BY DEF InOrder
<1> HIDE DEF order
<1>6. Ascends(order, R)
  BY <1>2, <1>4 DEF Ascends
<1>7. IsInjective(order) /\ \A x \in S : \E i \in 1 .. n : order[i] = x
  BY <1>3, <1>4, <1>6, AscendingRuns
<1>8. DOMAIN order = 1 .. n /\ order \in Seq(S)
  BY <1>1, <1>4
<1>9. QED
  BY <1>4, <1>5, <1>7, <1>8

LEMMA OrdersAre ==
  ASSUME watched \subseteq Addresses, NEW kind, NEW order \in Orders(kind)
  PROVE  order \in Seq(Addresses) /\ IsInjective(order)
<1>1. watched \in SUBSET Nat /\ IsFiniteSet(watched)
  BY SelectionAssumption, FS_Subset
<1>2. CASE order = InOrder(watched, <)
  <2>1. order \in Seq(watched) /\ IsInjective(order)
    BY <1>1, <1>2, AscendingIs
  <2>2. QED
    BY <2>1
<1>3. CASE order \in SetToSeqs(watched)
  <2>1. Cardinality(watched) \in Nat
    BY <1>1, FS_CardinalityType
  <2>2. /\ order \in [1 .. Cardinality(watched) -> watched]
        /\ \A i, j \in 1 .. Cardinality(watched) : i # j => order[i] # order[j]
    BY <1>3 DEF SetToSeqs
  <2> HIDE <1>3
  <2>3. QED
    BY <2>1, <2>2 DEF IsInjective
<1>4. QED
  BY <1>2, <1>3 DEF Orders

-----------------------------------------------------------------------------
(* What a request has gathered                                             *)

(* What a request has to ask for and has got so far.  select collects the  *)
(* outputs of all addresses; the others have nothing until one address     *)
(* gives them enough.                                                      *)
Apart(todo, got) ==
  \A i \in 1 .. Len(got) : \A j \in 1 .. Len(todo) : Owner[got[i].id] # todo[j]

Enough(q, got) ==
  /\ got # <<>> /\ Total(got) >= Needed(q)
  /\ \E rows \in Seq(Utxo) : Distinct(rows) /\ got = Taken(rows, Needed(q))

Gathering(q, todo, got) ==
  /\ todo \in Seq(Addresses) /\ IsInjective(todo)
  /\ got \in Seq(Utxo) /\ Distinct(got)
  /\ q.kind = "select" => Apart(todo, got)

Gathers(x) ==
  /\ Gathering(x.q, x.todo, x.got)
  /\ x.q.kind # "select" => x.got = <<>>

GatherInv ==
  /\ \A r \in Requests : request[r].pc \in {"ask", "read"} => Gathers(request[r])
  /\ \A b \in built : PaidInFull(b)

(* The transaction that Continue may build                                 *)
Tx(q, got) ==
  BuiltFrom(q, IF q.kind = "select" THEN Taken(ByHeight(got), Needed(q)) ELSE got)

LEMMA ContinueSplits ==
  ASSUME ServerTypes, NEW r \in Requests, NEW pc, NEW q \in Questions,
         NEW todo, NEW got, NEW first, NEW undisturbed,
         Continue(r, [pc |-> pc, q |-> q, todo |-> todo, got |-> got, first |-> first],
                  undisturbed)
  PROVE  \/ /\ Tx(q, got).change >= 0
            /\ built' = built \cup {[q |-> q, tx |-> Tx(q, got)]}
            /\ agreed' = IF undisturbed /\ q.kind = "prepare"
                           THEN agreed \cup {[q |-> q, tx |-> Tx(q, got)]} ELSE agreed
            /\ calm' = calm \ {r}
            /\ request'[r].pc \notin {"ask", "read"}
            /\ request'[r].pc \in {"insert", "enclave"}
                 => q.kind # "select" /\ request'[r].tx = Tx(q, got)
         \/ /\ \/ ~(Tx(q, got).change >= 0)
               \/ q.kind = "sign" /\ got = <<>>
               \/ q.kind = "select"
            /\ request'[r] = [pc |-> "ask", q |-> q, todo |-> todo, got |-> got,
                              first |-> first]
            /\ calm' = IF undisturbed THEN calm \cup {r} ELSE calm
            /\ UNCHANGED <<built, agreed>> /\ todo # <<>>
         \/ /\ request'[r] = Idle /\ calm' = calm \ {r}
            /\ UNCHANGED <<built, agreed>>
<1> DEFINE req == [pc |-> pc, q |-> q, todo |-> todo, got |-> got, first |-> first]
           tx == Tx(q, got)
           enough == /\ tx.change >= 0
                     /\ q.kind = "sign" =>
                          (IF q.kind = "select" THEN Taken(ByHeight(got), Needed(q))
                                                ELSE got) # <<>>
                     /\ q.kind = "select" => todo = <<>>
           next == CASE q.kind = "prepare" ->
                          [pc |-> "insert", q |-> q, tx |-> tx, first |-> first]
                     [] q.kind = "sign"    -> [pc |-> "enclave", q |-> q, tx |-> tx]
                     [] q.kind = "select"  -> Idle
<1>1. /\ req.q = q /\ req.todo = todo /\ req.got = got /\ req.first = first
      /\ [req EXCEPT !.pc = "ask"]
           = [pc |-> "ask", q |-> q, todo |-> todo, got |-> got, first |-> first]
  OBVIOUS
<1>2. tx = BuildUnsignedTransaction(
             IF q.kind = "select" THEN Taken(ByHeight(got), Needed(q)) ELSE got,
             q.amount, q.fee)
  BY DEF Tx, BuiltFrom
<1>3. \/ /\ enough
         /\ built' = built \cup {[q |-> q, tx |-> tx]}
         /\ agreed' = IF undisturbed /\ q.kind = "prepare"
                        THEN agreed \cup {[q |-> q, tx |-> tx]} ELSE agreed
         /\ calm' = calm \ {r}
         /\ request' = [request EXCEPT ![r] = next]
      \/ /\ ~enough /\ todo # <<>>
         /\ request' = [request EXCEPT ![r] =
              [pc |-> "ask", q |-> q, todo |-> todo, got |-> got, first |-> first]]
         /\ calm' = IF undisturbed THEN calm \cup {r} ELSE calm
         /\ UNCHANGED <<built, agreed>>
      \/ /\ request' = [request EXCEPT ![r] = Idle]
         /\ calm' = calm \ {r}
         /\ UNCHANGED <<built, agreed>>
  <2> HIDE DEF tx, req
  <2>1. Continue(r, req, undisturbed)
    BY DEF req
  <2>2. QED
    BY <1>1, <1>2, <2>1 DEF Continue
<1>4. /\ next.pc \notin {"ask", "read"}
      /\ next.pc \in {"insert", "enclave"} => q.kind # "select" /\ next.tx = tx
  BY QuestionKinds DEF Idle
<1> HIDE DEF next, tx, req
<1>5. QED
  BY <1>3, <1>4, StateSet DEF tx

(* The inputs that Continue may spend                                      *)
LEMMA TxIs ==
  ASSUME NEW q \in Questions, NEW todo, NEW got, Gathering(q, todo, got),
         q.kind # "select" => got = <<>> \/ Enough(q, got),
         Tx(q, got).change >= 0
  PROVE  /\ PaidInFull([q |-> q, tx |-> Tx(q, got)])
         /\ q.kind # "select" =>
              \A i \in ToSet(Tx(q, got).inputs) : \E k \in 1 .. Len(got) : i = got[k].id
<1> DEFINE N == Needed(q)
<1>1. N \in Nat /\ N \in Int /\ got \in Seq(Utxo) /\ Distinct(got)
  BY NeededIs DEF Gathering
<1>2. CASE q.kind = "select"
  <2> DEFINE whole == ByHeight(got)
             list == Taken(whole, N)
  <2>1. whole \in Seq(Utxo) /\ Distinct(whole)
    BY <1>1, ByHeightPart DEF PartOf
  <2>2. Tx(q, got) = BuiltFrom(q, list)
    BY <1>2 DEF Tx
  <2> HIDE DEF whole
  <2>3. PaidInFull([q |-> q, tx |-> Tx(q, got)])
    BY <2>1, <2>2, TakenPays
  <2>4. QED
    BY <1>2, <2>3
<1>3. CASE q.kind # "select"
  <2>1. Tx(q, got) = BuiltFrom(q, got)
    BY <1>3 DEF Tx
  <2>2. PICK rows \in Seq(Utxo) : Distinct(rows) /\ got = Taken(rows, N)
    <3>1. CASE got = <<>>
      <4>1. got = Taken(got, N)
        BY <1>1, <3>1, TakenPart
      <4>2. QED
        BY <1>1, <4>1
    <3>2. CASE Enough(q, got)
      BY <3>2 DEF Enough
    <3>3. QED
      BY <1>3, <3>1, <3>2
  <2>3. PaidInFull([q |-> q, tx |-> Tx(q, got)])
    BY <2>1, <2>2, TakenPays
  <2>4. Tx(q, got).inputs = [k \in DOMAIN got |-> got[k].id]
    BY <1>1, <2>1, BuildIs
  <2>5. \A i \in ToSet(Tx(q, got).inputs) : \E k \in 1 .. Len(got) : i = got[k].id
    BY <1>1, <2>4 DEF ToSet
  <2>6. QED
    BY <2>3, <2>5
<1>4. QED
  BY <1>2, <1>3

(* The inputs of what a request is about to record come from some outputs  *)
Spends(r, got) ==
  request'[r].pc \in {"insert", "enclave"} =>
    \A i \in ToSet(request'[r].tx.inputs) : \E k \in 1 .. Len(got) : i = got[k].id

(* What the step of a request leaves of it and of what is built            *)
Leaves(r) ==
  /\ request'[r].pc \in {"ask", "read"} => Gathers(request'[r])
  /\ \A b \in built' : b \in built \/ PaidInFull(b)

LEMMA ContinueGathers ==
  ASSUME ServerTypes, NEW r \in Requests, NEW pc, NEW q \in Questions,
         NEW todo, NEW got, NEW first, NEW undisturbed,
         Continue(r, [pc |-> pc, q |-> q, todo |-> todo, got |-> got, first |-> first],
                  undisturbed),
         Gathering(q, todo, got), q.kind # "select" => got = <<>> \/ Enough(q, got)
  PROVE  Leaves(r) /\ Spends(r, got)
<1> DEFINE tx == Tx(q, got)
           b == [q |-> q, tx |-> tx]
           x == [pc |-> "ask", q |-> q, todo |-> todo, got |-> got, first |-> first]
<1>1. CASE /\ tx.change >= 0 /\ built' = built \cup {b}
           /\ request'[r].pc \notin {"ask", "read"}
           /\ request'[r].pc \in {"insert", "enclave"}
                => q.kind # "select" /\ request'[r].tx = tx
  <2>1. /\ PaidInFull(b)
        /\ q.kind # "select" =>
             \A i \in ToSet(tx.inputs) : \E k \in 1 .. Len(got) : i = got[k].id
    BY <1>1, TxIs
  <2> HIDE DEF b, tx
  <2>2. QED
    BY <1>1, <2>1 DEF Leaves, Spends
<1>2. CASE /\ \/ ~(tx.change >= 0)
              \/ q.kind = "sign" /\ got = <<>>
              \/ q.kind = "select"
           /\ request'[r] = x /\ UNCHANGED built
  <2>1. q.kind # "select" => got = <<>>
    <3> SUFFICES ASSUME q.kind # "select", Enough(q, got), ~(tx.change >= 0) PROVE FALSE
      BY <1>2 DEF Enough
    <3>1. tx.change = Total(got) - Needed(q) /\ Total(got) >= Needed(q)
      BY BuildIs DEF Tx, Gathering, Enough
    <3>2. Total(got) \in Nat /\ Needed(q) \in Nat
      BY TotalIs, NeededIs DEF Gathering
    <3> HIDE DEF tx
    <3>3. QED
      BY <3>1, <3>2
  <2>2. Gathers(x) /\ x.pc = "ask"
    BY <2>1 DEF Gathers
  <2>3. QED
    BY <1>2, <2>2 DEF Leaves, Spends
<1>3. CASE request'[r] = Idle /\ UNCHANGED built
  BY <1>3 DEF Idle, Leaves, Spends
<1>4. QED
  BY <1>1, <1>2, <1>3, ContinueSplits

LEMMA GatheringGoesOn ==
  ASSUME NEW q, NEW todo, NEW got, Gathering(q, todo, got), todo # <<>>,
         q.kind # "select" => got = <<>>,
         NEW rows \in Seq(Utxo), Distinct(rows),
         \A i \in 1 .. Len(rows) : Owner[rows[i].id] = Head(todo),
         NEW more, PartOf(more, rows)
  PROVE  /\ Gathering(q, Tail(todo), got)
         /\ Gathering(q, Tail(todo), got \o more)
<1>1. /\ todo \in Seq(Addresses) /\ Len(todo) \in Nat \ {0}
      /\ Tail(todo) \in Seq(Addresses) /\ Len(Tail(todo)) = Len(todo) - 1
      /\ \A i \in 1 .. Len(Tail(todo)) : Tail(todo)[i] = todo[i + 1]
      /\ Head(todo) = todo[1]
  BY DEF Gathering
<1>2. IsInjective(Tail(todo)) /\ \A i \in 1 .. Len(Tail(todo)) : Tail(todo)[i] # Head(todo)
  <2>1. \A i, j \in 1 .. Len(todo) : todo[i] = todo[j] => i = j
    BY SMTT(20), <1>1 DEF Gathering, IsInjective
  <2>2. DOMAIN Tail(todo) = 1 .. Len(Tail(todo))
    BY <1>1
  <2>3. \A i \in 1 .. Len(Tail(todo)) : i + 1 \in 1 .. Len(todo) /\ i + 1 # 1 /\ i \in Int
    BY <1>1
  <2>4. 1 \in 1 .. Len(todo)
    BY <1>1
  <2>5. QED
    BY <1>1, <2>1, <2>2, <2>3, <2>4 DEF IsInjective
<1>3. got \in Seq(Utxo) /\ Distinct(got) /\ (q.kind = "select" => Apart(todo, got))
  BY DEF Gathering
<1>4. q.kind = "select" => Apart(Tail(todo), got)
  <2> SUFFICES ASSUME q.kind = "select", NEW i \in 1 .. Len(got),
                      NEW j \in 1 .. Len(Tail(todo))
               PROVE  Owner[got[i].id] # Tail(todo)[j]
    BY DEF Apart
  <2>1. j + 1 \in 1 .. Len(todo)
    BY <1>1
  <2>2. QED
    BY <1>1, <1>3, <2>1 DEF Apart
<1>5. Gathering(q, Tail(todo), got)
  BY <1>1, <1>2, <1>3, <1>4 DEF Gathering
<1>6. more \in Seq(Utxo) /\ Distinct(more)
      /\ \A i \in 1 .. Len(more) : Owner[more[i].id] = Head(todo)
  BY DEF PartOf
<1> DEFINE both == got \o more
<1>7. /\ both \in Seq(Utxo) /\ Len(both) = Len(got) + Len(more)
      /\ Len(got) \in Nat /\ Len(more) \in Nat
      /\ \A i \in 1 .. Len(got) : both[i] = got[i]
      /\ \A i \in 1 .. Len(more) : both[i + Len(got)] = more[i]
  BY <1>3, <1>6
<1> HIDE DEF both
<1>8. CASE q.kind = "select"
  <2>1. \A i \in 1 .. Len(both) :
          \/ i \in 1 .. Len(got) /\ both[i] = got[i]
          \/ i - Len(got) \in 1 .. Len(more) /\ both[i] = more[i - Len(got)]
    <3> SUFFICES ASSUME NEW i \in 1 .. Len(both), i \notin 1 .. Len(got)
                 PROVE  i - Len(got) \in 1 .. Len(more) /\ both[i] = more[i - Len(got)]
      BY <1>7
    <3>1. i - Len(got) \in 1 .. Len(more) /\ i = (i - Len(got)) + Len(got)
      BY <1>7
    <3>2. QED
      BY <1>7, <3>1
  <2>2. Apart(Tail(todo), both)
    <3> SUFFICES ASSUME NEW i \in 1 .. Len(both), NEW j \in 1 .. Len(Tail(todo))
                 PROVE  Owner[both[i].id] # Tail(todo)[j]
      BY DEF Apart
    <3>1. CASE i \in 1 .. Len(got) /\ both[i] = got[i]
      BY <1>4, <1>8, <3>1 DEF Apart
    <3>2. CASE i - Len(got) \in 1 .. Len(more) /\ both[i] = more[i - Len(got)]
      BY <1>2, <1>6, <3>2
    <3>3. QED
      BY <2>1, <3>1, <3>2
  <2>3. Distinct(both)
    <3>1. ASSUME NEW i \in 1 .. Len(got), NEW j \in 1 .. Len(more)
          PROVE  got[i].id # more[j].id
      <4>1. 1 \in 1 .. Len(todo)
        BY <1>1
      <4>2. QED
        BY <1>1, <1>3, <1>6, <1>8, <4>1 DEF Apart
    <3>2. ASSUME NEW i \in 1 .. Len(both), NEW j \in 1 .. Len(both),
                 both[i].id = both[j].id
          PROVE  i = j
      <4>1. CASE i \in 1 .. Len(got) /\ j \in 1 .. Len(got)
        BY <1>3, <1>7, <3>2, <4>1 DEF Distinct
      <4>2. CASE i \notin 1 .. Len(got) /\ j \notin 1 .. Len(got)
        <5>1. /\ i - Len(got) \in 1 .. Len(more) /\ both[i] = more[i - Len(got)]
              /\ j - Len(got) \in 1 .. Len(more) /\ both[j] = more[j - Len(got)]
          BY <2>1, <4>2
        <5>2. i - Len(got) = j - Len(got)
          BY <1>6, <3>2, <5>1 DEF Distinct
        <5>3. QED
          BY <1>7, <5>2
      <4>3. CASE i \in 1 .. Len(got) /\ j \notin 1 .. Len(got)
        <5>1. /\ both[i] = got[i]
              /\ j - Len(got) \in 1 .. Len(more) /\ both[j] = more[j - Len(got)]
          BY <1>7, <2>1, <4>3
        <5>2. QED
          BY <3>1, <3>2, <4>3, <5>1
      <4>4. CASE i \notin 1 .. Len(got) /\ j \in 1 .. Len(got)
        <5>1. /\ both[j] = got[j]
              /\ i - Len(got) \in 1 .. Len(more) /\ both[i] = more[i - Len(got)]
          BY <1>7, <2>1, <4>4
        <5>2. QED
          BY <3>1, <3>2, <4>4, <5>1
      <4>5. QED
        BY <4>1, <4>2, <4>3, <4>4
    <3>3. QED
      BY <3>2 DEF Distinct
  <2>4. QED
    BY <1>1, <1>2, <1>5, <1>7, <2>2, <2>3 DEF Gathering, both
<1>9. CASE q.kind # "select"
  <2>1. both = more
    BY <1>6, <1>9 DEF both
  <2>2. QED
    BY <1>1, <1>2, <1>5, <1>6, <1>9, <2>1 DEF Gathering, both
<1>10. QED
  BY <1>8, <1>9

LEMMA EnoughIs ==
  ASSUME NEW q \in Questions, NEW rows \in Seq(Utxo), Distinct(rows), rows # <<>>,
         SelectUtxosForAmount(rows, Needed(q)).ok
  PROVE  Enough(q, Chosen(rows, Needed(q)))
<1> DEFINE N == Needed(q)
           taken == Taken(ByHeight(rows), N)
           more == Taken(taken, N)
<1>1. N \in Int
  BY NeededIs
<1>2. /\ Total(more) >= N /\ more # <<>> /\ PartOf(taken, rows) /\ PartOf(more, rows)
  <2> HIDE DEF N
  <2>1. QED
    BY <1>1, ChosenIs DEF Chosen, N
<1> HIDE DEF taken
<1>3. taken \in Seq(Utxo) /\ Distinct(taken)
  BY <1>2 DEF PartOf
<1> HIDE DEF more
<1>4. Enough(q, more)
  BY <1>2, <1>3 DEF Enough, more
<1>5. QED
  BY <1>4 DEF more, taken, Chosen

(* The request goes on with what it got, or without an answer              *)
GoesOn(r, more) ==
  LET x == request[r]
  IN  Continue(r, [pc |-> x.pc, q |-> x.q, todo |-> Tail(x.todo),
                   got |-> x.got \o more, first |-> x.first], r \in calm)

HeadRows(x) == Rows(Head(x.todo), x.q.height)

LEMMA AnswerSplits ==
  ASSUME ServerTypes, StorageTypes, NEW r \in Requests, Gathers(request[r]), Answer(r)
  PROVE  \/ WithoutAnswer(r)
         \/ \E more :
              /\ GoesOn(r, more) /\ PartOf(more, HeadRows(request[r]))
              /\ request[r].q.kind # "select" =>
                   /\ Needed(request[r].q) > 0
                   /\ HeadRows(request[r]) = <<>> => more = <<>>
                   /\ HeadRows(request[r]) # <<>> =>
                        /\ more = Chosen(HeadRows(request[r]), Needed(request[r].q))
                        /\ Enough(request[r].q, more)
<1> DEFINE x == request[r]
           rows == HeadRows(x)
           N == Needed(x.q)
           rest == N - Total(x.got)
           selection == IF x.q.kind # "select" THEN SelectUtxosForAmount(rows, rest)
                                               ELSE Selected(rows)
           more == IF x.q.kind # "select" THEN Taken(selection.utxos, rest) ELSE rows
<1>1. Collects(x) /\ x.q \in Questions /\ x.todo # <<>>
  BY StateOf DEF Answer, Collects
<1>2. /\ N \in Nat /\ N \in Int /\ x.q.height \in Int
  BY <1>1, NeededIs
<1>3. /\ rows \in Seq(Utxo) /\ Distinct(rows)
      /\ \A i \in 1 .. Len(rows) : Owner[rows[i].id] = Head(x.todo)
  BY <1>2, RowsAre DEF HeadRows
<1>4. \/ WithoutAnswer(r)
      \/ selection.ok /\ Continue(r, [x EXCEPT !.todo = Tail(@), !.got = @ \o more], r \in calm)
  BY DEF Answer, HeadRows
<1> HIDE DEF more
<1>5. [x EXCEPT !.todo = Tail(@), !.got = @ \o more]
        = [pc |-> x.pc, q |-> x.q, todo |-> Tail(x.todo), got |-> x.got \o more,
           first |-> x.first]
  <2> HIDE DEF x
  <2>1. QED
    BY <1>1, Updated
<1>6. WithoutAnswer(r) \/ (selection.ok /\ GoesOn(r, more))
  BY <1>4, <1>5 DEF GoesOn
<1>7. CASE x.q.kind = "select"
  <2>1. more = rows
    BY <1>7 DEF more
  <2>2. PartOf(rows, rows)
    BY <1>3 DEF PartOf
  <2>3. QED
    BY <1>6, <1>7, <2>1, <2>2
<1>8. CASE x.q.kind # "select" /\ selection.ok
  <2>1. x.got = <<>>
    BY <1>8 DEF Gathers
  <2>2. rest = N
    <3>1. x.got \in Seq(Utxo)
      BY <2>1
    <3>2. Total(x.got) = 0
      BY <2>1, <3>1, TotalIs
    <3>3. QED
      BY <1>2, <3>2
  <2> HIDE DEF rest, N, rows
  <2>3. selection = SelectUtxosForAmount(rows, N) /\ more = Taken(selection.utxos, N)
    BY <1>8, <2>2 DEF more
  <2> HIDE DEF selection
  <2>4. /\ N > 0
        /\ rows = <<>> => selection.utxos = <<>>
        /\ rows # <<>> => /\ selection.utxos = Taken(ByHeight(rows), N)
                          /\ PartOf(Chosen(rows, N), rows)
    BY <1>2, <1>3, <1>8, <2>3, ChosenIs
  <2>5. CASE rows = <<>>
    <3>1. <<>> \in Seq(Utxo)
      OBVIOUS
    <3>2. more = <<>>
      BY <1>2, <2>3, <2>4, <2>5, <3>1, TakenPart
    <3>3. PartOf(more, rows)
      BY <1>3, <2>5, <3>2 DEF PartOf
    <3>4. QED
      BY <1>6, <1>8, <2>4, <2>5, <3>2, <3>3 DEF rows, N
  <2>6. CASE rows # <<>>
    <3>1. more = Chosen(rows, N)
      BY <2>3, <2>4, <2>6 DEF Chosen
    <3>2. Enough(x.q, Chosen(rows, N))
      BY <1>1, <1>3, <1>8, <2>3, <2>6, EnoughIs DEF N
    <3>3. QED
      BY <1>6, <1>8, <2>4, <2>6, <3>1, <3>2 DEF rows, N
  <2>7. QED
    BY <2>5, <2>6
<1>9. QED
  BY <1>6, <1>7, <1>8

-----------------------------------------------------------------------------
(* A transaction is built from what was gathered                           *)

Gathered(r) == request' = [request EXCEPT ![r] = request'[r]] /\ Leaves(r)

LEMMA IdleIs == Idle.pc = "idle"
BY DEF Idle

LEMMA WithoutAnswerGathers ==
  ASSUME ServerTypes, StorageTypes, NEW r \in Requests, Collects(request[r]),
         Gathers(request[r]), WithoutAnswer(r)
  PROVE  Gathered(r) /\ (request[r].q.kind # "select" => request'[r] = Idle)
<1> DEFINE x == request[r]
<1>1. x.q \in Questions /\ x.todo # <<>> /\ Gathering(x.q, x.todo, x.got)
  BY DEF Collects, Gathers
<1>2. CASE x.q.kind = "select"
  <2>1. [x EXCEPT !.todo = Tail(@)]
          = [pc |-> x.pc, q |-> x.q, todo |-> Tail(x.todo), got |-> x.got,
             first |-> x.first]
    BY SMTT(20) DEF Collects
  <2>2. Continue(r, [pc |-> x.pc, q |-> x.q, todo |-> Tail(x.todo), got |-> x.got,
                     first |-> x.first], r \in calm)
    BY <1>2, <2>1 DEF WithoutAnswer
  <2>3. Gathering(x.q, Tail(x.todo), x.got)
    <3>1. <<>> \in Seq(Utxo) /\ Distinct(<<>>) /\ PartOf(<<>>, <<>>)
          /\ \A i \in 1 .. Len(<<>>) : Owner[<<>>[i].id] = Head(x.todo)
      BY DEF Distinct, PartOf
    <3> HIDE DEF x
    <3>2. QED
      BY <1>1, <1>2, <3>1, GatheringGoesOn
  <2>4. Continued(r, x.q, x.first)
    BY WithoutAnswerIs
  <2> HIDE DEF x
  <2>5. QED
    BY <1>1, <1>2, <2>2, <2>3, <2>4, ContinueGathers DEF Gathered, Continued, x
<1>3. CASE x.q.kind # "select"
  <2>1. request' = [request EXCEPT ![r] = Idle] /\ UNCHANGED built
    BY <1>3 DEF WithoutAnswer
  <2>2. request'[r] = Idle
    BY <2>1, StateSet
  <2>3. QED
    BY <2>1, <2>2, IdleIs DEF Gathered, Leaves
<1>4. QED
  BY <1>2, <1>3

LEMMA AnswerGathers ==
  ASSUME ServerTypes, StorageTypes, NEW r \in Requests, Gathers(request[r]), Answer(r)
  PROVE  /\ Gathered(r)
         /\ Spends(r, HeadRows(request[r]))
<1> DEFINE x == request[r]
           rows == HeadRows(x)
<1>1. /\ Collects(x) /\ x.q \in Questions /\ x.todo # <<>>
      /\ Gathering(x.q, x.todo, x.got)
      /\ x.q.kind # "select" => x.got = <<>>
  BY StateOf DEF Answer, Collects, Gathers
<1>2. /\ rows \in Seq(Utxo) /\ Distinct(rows)
      /\ \A i \in 1 .. Len(rows) : Owner[rows[i].id] = Head(x.todo)
  <2>1. x.q.height \in Int
    BY <1>1, NeededIs
  <2>2. QED
    BY <2>1, RowsAre DEF HeadRows
<1>3. Continued(r, x.q, x.first)
  BY CollectingIs
<1>4. CASE WithoutAnswer(r)
  <2>1. Gathered(r) /\ (x.q.kind # "select" => request'[r] = Idle)
    BY <1>1, <1>4, WithoutAnswerGathers
  <2>2. request'[r].pc \notin {"insert", "enclave"}
    <3>1. CASE x.q.kind = "select"
      <4>1. x.q \notin Keys /\ x.q.kind # "sign"
        BY <1>1, <3>1, QuestionKinds
      <4>2. QED
        BY <1>3, <4>1 DEF Continued, Collects, Prepared, Signs, Idle
    <3>2. QED
      BY <2>1, <3>1 DEF Idle
  <2>3. QED
    BY <2>1, <2>2 DEF Spends
<1>5. ASSUME NEW more, GoesOn(r, more), PartOf(more, rows),
             x.q.kind # "select" =>
               (rows = <<>> => more = <<>>) /\ (rows # <<>> => Enough(x.q, more))
      PROVE  Gathered(r) /\ Spends(r, rows)
  <2> DEFINE got == x.got \o more
  <2>1. Gathering(x.q, Tail(x.todo), got)
    <3> HIDE DEF x, rows
    <3>1. QED
      BY <1>1, <1>2, <1>5, GatheringGoesOn
  <2>2. x.q.kind # "select" => got = more
    BY <1>1, <1>5 DEF PartOf
  <2>3. Continue(r, [pc |-> x.pc, q |-> x.q, todo |-> Tail(x.todo), got |-> got,
                     first |-> x.first], r \in calm)
    BY <1>5 DEF GoesOn
  <2> HIDE DEF got
  <2>4. x.q.kind # "select" => got = <<>> \/ Enough(x.q, got)
    BY <1>5, <2>2
  <2> HIDE DEF x, rows
  <2> DEFINE undisturbed == r \in calm
  <2> HIDE DEF undisturbed
  <2>9. Continue(r, [pc |-> x.pc, q |-> x.q, todo |-> Tail(x.todo), got |-> got,
                     first |-> x.first], undisturbed)
    BY <2>3 DEF undisturbed
  <2>10. x.q \in Questions
    BY <1>1
  <2>5. Leaves(r) /\ Spends(r, got)
    BY <2>1, <2>4, <2>9, <2>10, ContinueGathers
  <2>6. Gathered(r)
    BY <1>3, <2>5 DEF Gathered, Continued
  <2>7. ASSUME request'[r].pc \in {"insert", "enclave"},
               NEW i \in ToSet(request'[r].tx.inputs)
        PROVE  \E k \in 1 .. Len(rows) : i = rows[k].id
    <3>1. x.q.kind # "select"
      <4>1. x.q.kind = "prepare" \/ x.q.kind = "sign"
        BY <1>1, <1>3, <2>7, QuestionKinds DEF Continued, Collects, Prepared, Signs, Idle
      <4>2. QED
        BY <4>1
    <3>2. PICK k \in 1 .. Len(more) : i = more[k].id
      BY <2>2, <2>5, <2>7, <3>1 DEF Spends
    <3>3. QED
      BY <1>5, <3>2 DEF PartOf
  <2>8. QED
    BY <2>6, <2>7 DEF Spends
<1>6. QED
  BY <1>4, <1>5, AnswerSplits

LEMMA AskGathers ==
  ASSUME Types, NEW r \in Requests, Ask(r), GatherInv
  PROVE  GatherInv'
<1>1. PICK q \in Questions :
        \/ Hit(q)
        \/ \E order \in Orders(q.kind) :
             Continue(r, [pc |-> "ask", q |-> q, todo |-> order, got |-> <<>>,
                          first |-> Asked(q) = {}], TRUE)
  BY DEF Ask, Hit, CacheKey
<1>2. CASE Hit(q)
  BY <1>2 DEF Hit, GatherInv
<1>3. ASSUME NEW order \in Orders(q.kind),
             Continue(r, [pc |-> "ask", q |-> q, todo |-> order, got |-> <<>>,
                          first |-> Asked(q) = {}], TRUE)
      PROVE  GatherInv'
  <2>1. ServerTypes /\ watched \subseteq Addresses
    BY DEF Types, CounterTypes
  <2>2. order \in Seq(Addresses) /\ IsInjective(order)
    BY <2>1, OrdersAre
  <2>3. <<>> \in Seq(Utxo) /\ Distinct(<<>>) /\ Apart(order, <<>>)
    BY DEF Distinct, Apart
  <2>4. Gathering(q, order, <<>>)
    BY <2>2, <2>3 DEF Gathering
  <2>5. Continued(r, q, Asked(q) = {})
    BY <1>3, <2>1, ContinueIs
  <2>6. Gathered(r)
    BY <1>3, <2>1, <2>4, <2>5, ContinueGathers DEF Gathered, Continued
  <2>7. \A s \in Requests : s # r => request'[s] = request[s]
    BY <2>1, <2>6, StateSet DEF Gathered
  <2>8. QED
    BY <2>6, <2>7 DEF GatherInv, Gathered, Leaves
<1>4. QED
  BY <1>1, <1>2, <1>3

LEMMA HandleGathers ==
  ASSUME Types, NEW r \in Requests, Handle(r), GatherInv
  PROVE  GatherInv'
<1>1. ServerTypes /\ StorageTypes
  BY DEF Types
<1>2. ASSUME Gathered(r) PROVE GatherInv'
  <2>1. \A s \in Requests : s # r => request'[s] = request[s]
    BY <1>1, <1>2, StateSet DEF Gathered
  <2>2. QED
    BY <1>2, <2>1 DEF GatherInv, Gathered, Leaves
<1>3. CASE Ask(r)
  BY <1>3, AskGathers
<1>4. CASE Admit(r)
  <2>1. Collects(request[r]) /\ Gathers(request[r])
    BY <1>1, <1>4, StateOf DEF Admit, GatherInv
  <2>2. CASE request' = [request EXCEPT ![r].pc = "read"] /\ UNCHANGED built
    <3> DEFINE x == request[r]
               y == [pc |-> "read", q |-> x.q, todo |-> x.todo, got |-> x.got,
                     first |-> x.first]
    <3>1. request' = [request EXCEPT ![r] = y]
      BY <2>1, <2>2, Updated
    <3>2. Gathers(y)
      BY <2>1 DEF Gathers
    <3> HIDE DEF y
    <3>3. request'[r] = y
      BY <1>1, <3>1, StateSet
    <3>4. QED
      BY <1>2, <2>2, <3>1, <3>2, <3>3 DEF Gathered, Leaves
  <2>3. CASE WithoutAnswer(r)
    BY <1>1, <1>2, <2>1, <2>3, WithoutAnswerGathers
  <2>4. QED
    BY <1>4, <2>2, <2>3 DEF Admit
<1>5. CASE Answer(r)
  <2>1. Gathers(request[r])
    BY <1>5 DEF Answer, GatherInv
  <2>2. QED
    BY <1>1, <1>2, <1>5, <2>1, AnswerGathers
<1>6. CASE \/ InsertInCache(r) \/ Snapshot(r) \/ OpenFile(r) \/ WriteFile(r)
           \/ SaveFails(r) \/ Sign(r) \/ SignFails(r)
  <2>1. UNCHANGED built
    BY <1>6 DEF InsertInCache, Snapshot, OpenFile, WriteFile, SaveFails, Sign, SignFails,
                historyVars
  <2>2. CASE InsertInCache(r) \/ Snapshot(r) \/ OpenFile(r)
    <3>1. /\ request' = [request EXCEPT ![r] = request'[r]]
          /\ request'[r].pc \in {"snapshot", "open", "write"}
      BY <1>1, <2>2, InsertIs, SnapshotIs, OpenIs
    <3>2. QED
      BY <1>2, <2>1, <3>1 DEF Gathered, Leaves
  <2>3. CASE WriteFile(r) \/ SaveFails(r) \/ Sign(r) \/ SignFails(r)
    <3>1. request' = [request EXCEPT ![r] = Idle]
      BY <1>1, <2>3, EndIs
    <3>2. request'[r] = Idle
      BY <1>1, <3>1, StateSet
    <3>3. QED
      BY <1>2, <2>1, <3>1, <3>2, IdleIs DEF Gathered, Leaves
  <2>4. QED
    BY <1>6, <2>2, <2>3
<1>7. QED
  BY <1>3, <1>4, <1>5, <1>6 DEF Handle

LEMMA GatherStep ==
  ASSUME Types, [Next]_vars, GatherInv
  PROVE  GatherInv'
<1>1. CASE \/ StoreBlock \/ ProcessBlock \/ MarkBlocks \/ RevertUtxos
           \/ (\E a \in Addresses : Watch(a)) \/ StoreSignedTx \/ UNCHANGED vars
  <2>1. UNCHANGED <<request, built>>
    BY <1>1 DEF StoreBlock, ProcessBlock, MarkBlocks, RevertUtxos, Watch, StoreSignedTx,
                serverVars, historyVars, vars
  <2>2. QED
    BY <2>1 DEF GatherInv
<1>2. CASE \E r \in Requests : Handle(r)
  BY <1>2, HandleGathers
<1>3. CASE Restart
  BY <1>3 DEF Restart, GatherInv, Idle
<1>4. QED
  BY <1>1, <1>2, <1>3 DEF Next

(* Every request that asks for outputs has so far got distinct ones, and   *)
(* what is built from them pays in full                                    *)
LEMMA GatherHolds == Spec => [](Types /\ GatherInv)
<1>1. Init => GatherInv
  BY DEF Init, GatherInv, Idle
<1>2. Types /\ GatherInv /\ [Next]_vars => GatherInv'
  BY GatherStep
<1>3. QED
  BY <1>1, <1>2, TypesHold, PTL DEF Spec

(* Selecting and selecting again, address by address, ends with a          *)
(* transaction that pays exactly what was asked for and its change, has no *)
(* input twice and none that it could do without at the end (api.rs,       *)
(* database.rs select_utxos_for_amount)                                    *)
THEOREM BuiltPaysInFull == Spec => []PaysWithoutExcess
<1>1. GatherInv => PaysWithoutExcess
  BY DEF GatherInv, PaysWithoutExcess, PaidInFull
<1>2. QED
  BY <1>1, GatherHolds, PTL

(* Only its own handler, or a restart, changes the state of a request      *)
LEMMA OwnStep ==
  ASSUME ServerTypes, [Next]_vars, NEW r \in Requests, request'[r] # request[r]
  PROVE  Handle(r) \/ Restart
<1>1. Restart \/ \E s \in Requests : Handle(s)
  BY DEF Next, StoreBlock, ProcessBlock, MarkBlocks, RevertUtxos, Watch, StoreSignedTx,
         serverVars, vars
<1>2. ASSUME NEW s \in Requests, Handle(s)
      PROVE  s = r
  <2>1. request' = [request EXCEPT ![s] = request'[s]]
    <3>1. CASE Ask(s)
      BY <3>1, AskIs DEF Hit, Continued, ServerTypes
    <3>2. CASE Admit(s) \/ Answer(s)
      BY <3>2, CollectingIs DEF Continued
    <3>3. CASE InsertInCache(s) \/ Snapshot(s) \/ OpenFile(s)
      BY <3>3, InsertIs, SnapshotIs, OpenIs
    <3>4. CASE WriteFile(s) \/ SaveFails(s) \/ Sign(s) \/ SignFails(s)
      BY <3>4, EndIs, StateSet
    <3>5. QED
      BY <1>2, <3>1, <3>2, <3>3, <3>4 DEF Handle
  <2>2. QED
    BY <2>1, StateSet
<1>3. QED
  BY <1>1, <1>2

LEMMA TogetherStep ==
  ASSUME Types, GatherInv, [Next]_vars, NEW r \in Requests,
         request[r].pc = "read", request'[r].pc \in {"insert", "enclave"}
  PROVE  ToSet(request'[r].tx.inputs) \subseteq SpendableNow(request[r].q.height)
<1> DEFINE x == request[r]
           rows == HeadRows(x)
<1>1. ServerTypes /\ StorageTypes /\ Gathers(x) /\ Collects(x)
  BY StateOf DEF Types, GatherInv
<1>2. Answer(r)
  <2>1. Handle(r)
    <3>1. request'[r] # request[r]
      OBVIOUS
    <3>2. ~Restart
      BY DEF Restart, Idle
    <3>3. QED
      BY <1>1, <3>1, <3>2, OwnStep
  <2>2. ~Admit(r)
    BY DEF Admit
  <2>3. ~(InsertInCache(r) \/ Snapshot(r) \/ OpenFile(r) \/ WriteFile(r)
          \/ SaveFails(r) \/ Sign(r) \/ SignFails(r))
    BY DEF InsertInCache, Snapshot, OpenFile, WriteFile, SaveFails, Sign, SignFails
  <2>4. ~Ask(r)
    <3>1. Idle.pc # "read"
      BY DEF Idle
    <3>2. QED
      BY <3>1 DEF Ask
  <2>5. QED
    BY <2>1, <2>2, <2>3, <2>4 DEF Handle
<1>3. \A i \in ToSet(request'[r].tx.inputs) : \E k \in 1 .. Len(rows) : i = rows[k].id
  BY <1>1, <1>2, AnswerGathers DEF Spends
<1>4. \A k \in 1 .. Len(rows) : rows[k].id \in SpendableNow(x.q.height)
  <2>1. x.q.height \in Int
    BY <1>1, NeededIs DEF Collects
  <2>2. QED
    BY <1>1, <2>1, RowsAre DEF HeadRows
<1>5. QED
  BY <1>3, <1>4

(* Because a transaction takes its inputs from one answer, they are        *)
(* spendable together in the state in which it is built, however many      *)
(* blocks came or were reverted while the addresses before were asked      *)
(* (api.rs fetch_selected_utxos and its deterministic variant)             *)
THEOREM BuiltFromOneAnswer == Spec => InputsSpendableTogether
<1>1. Types /\ GatherInv /\ [Next]_vars
        => [\A r \in Requests :
              request[r].pc = "read" /\ request'[r].pc \in {"insert", "enclave"}
                => ToSet(request'[r].tx.inputs) \subseteq SpendableNow(request[r].q.height)
           ]_vars
  BY TogetherStep
<1>2. QED
  BY <1>1, GatherHolds, PTL DEF Spec, InputsSpendableTogether

-----------------------------------------------------------------------------
(* What select puts together                                               *)

(* All that an undisturbed request has got is still spendable              *)
Holds(q, got) ==
  \A i \in 1 .. Len(got) : got[i].id \in SpendableNow(q.height)

HeldInv == \A r \in calm : Holds(request[r].q, request[r].got)

(* What the step of a request leaves of that                               *)
Held(r) ==
  /\ request' = [request EXCEPT ![r] = request'[r]]
  /\ calm' \subseteq calm \cup {r}
  /\ r \in calm' => Holds(request'[r].q, request'[r].got)
  /\ r \in calm => \A b \in built' :
       b \in built \/ ToSet(b.tx.inputs) \subseteq SpendableNow(b.q.height)

LEMMA InputsAreGot ==
  ASSUME NEW q \in Questions, NEW got \in Seq(Utxo)
  PROVE  \A i \in ToSet(Tx(q, got).inputs) : \E k \in 1 .. Len(got) : i = got[k].id
<1> DEFINE list == IF q.kind = "select" THEN Taken(ByHeight(got), Needed(q)) ELSE got
<1>1. PartOf(list, got)
  <2>1. Needed(q) \in Int
    BY NeededIs
  <2>2. PartOf(ByHeight(got), got) /\ ByHeight(got) \in Seq(Utxo)
    BY ByHeightPart DEF PartOf
  <2>3. PartOf(Taken(ByHeight(got), Needed(q)), ByHeight(got))
    BY <2>1, <2>2, TakenPart
  <2>4. PartOf(Taken(ByHeight(got), Needed(q)), got)
    BY <2>2, <2>3, PartOfPart
  <2>5. PartOf(got, got)
    BY DEF PartOf
  <2>6. QED
    BY <2>4, <2>5
<1> HIDE DEF list
<1>2. list \in Seq(Utxo) /\ \A i \in 1 .. Len(list) : \E k \in 1 .. Len(got) : list[i] = got[k]
  BY <1>1 DEF PartOf
<1>3. Tx(q, got).inputs = [i \in DOMAIN list |-> list[i].id]
  BY <1>2, BuildIs DEF Tx, list
<1>4. \A i \in ToSet(Tx(q, got).inputs) : \E k \in 1 .. Len(list) : i = list[k].id
  BY <1>2, <1>3 DEF ToSet
<1>5. QED
  BY <1>2, <1>4

LEMMA ContinueHolds ==
  ASSUME ServerTypes, NEW r \in Requests, NEW pc, NEW q \in Questions,
         NEW todo, NEW got \in Seq(Utxo), NEW first, NEW undisturbed,
         Continue(r, [pc |-> pc, q |-> q, todo |-> todo, got |-> got, first |-> first],
                  undisturbed),
         r \in calm => undisturbed, undisturbed => Holds(q, got)
  PROVE  Held(r)
<1> DEFINE tx == Tx(q, got)
           x == [pc |-> "ask", q |-> q, todo |-> todo, got |-> got, first |-> first]
<1>1. request' = [request EXCEPT ![r] = request'[r]] /\ calm' \subseteq calm \cup {r}
  BY ContinueIs DEF Continued
<1>2. undisturbed => ToSet(tx.inputs) \subseteq SpendableNow(q.height)
  <2> SUFFICES ASSUME Holds(q, got), NEW i \in ToSet(tx.inputs)
               PROVE  i \in SpendableNow(q.height)
    OBVIOUS
  <2>1. PICK k \in 1 .. Len(got) : i = got[k].id
    BY InputsAreGot
  <2>2. QED
    BY <2>1 DEF Holds
<1>3. x.q = q /\ x.got = got
  OBVIOUS
<1> HIDE DEF tx, x
<1>4. CASE built' = built \cup {[q |-> q, tx |-> tx]} /\ calm' = calm \ {r}
  BY <1>1, <1>2, <1>4 DEF Held
<1>5. CASE /\ request'[r] = x /\ UNCHANGED built
           /\ calm' = IF undisturbed THEN calm \cup {r} ELSE calm
  BY <1>1, <1>3, <1>5 DEF Held
<1>6. CASE calm' = calm \ {r} /\ UNCHANGED built
  BY <1>1, <1>6 DEF Held
<1>7. QED
  BY <1>4, <1>5, <1>6, ContinueSplits DEF tx, x

LEMMA WithoutAnswerHolds ==
  ASSUME ServerTypes, HeldInv, NEW r \in Requests, Collects(request[r]),
         Gathers(request[r]), WithoutAnswer(r)
  PROVE  Held(r)
<1> DEFINE x == request[r]
<1>1. x.q \in Questions /\ x.got \in Seq(Utxo) /\ (r \in calm => Holds(x.q, x.got))
  BY DEF Collects, Gathers, Gathering, HeldInv
<1>2. CASE x.q.kind = "select"
  <2>1. [x EXCEPT !.todo = Tail(@)]
          = [pc |-> x.pc, q |-> x.q, todo |-> Tail(x.todo), got |-> x.got,
             first |-> x.first]
    BY SMTT(20) DEF Collects
  <2>2. Continue(r, [pc |-> x.pc, q |-> x.q, todo |-> Tail(x.todo), got |-> x.got,
                     first |-> x.first], r \in calm)
    BY <1>2, <2>1 DEF WithoutAnswer
  <2> HIDE DEF x
  <2>3. QED
    BY <1>1, <2>2, ContinueHolds
<1>3. CASE x.q.kind # "select"
  <2>1. request' = [request EXCEPT ![r] = Idle] /\ calm' = calm \ {r} /\ UNCHANGED built
    BY <1>3 DEF WithoutAnswer
  <2>2. request'[r] = Idle
    BY <2>1, StateSet
  <2>3. QED
    BY <2>1, <2>2 DEF Held
<1>4. QED
  BY <1>2, <1>3

LEMMA AnswerHolds ==
  ASSUME ServerTypes, StorageTypes, HeldInv, NEW r \in Requests, Gathers(request[r]),
         Answer(r)
  PROVE  Held(r)
<1> DEFINE x == request[r]
           rows == HeadRows(x)
<1>1. /\ Collects(x) /\ x.q \in Questions /\ x.q.height \in Int
      /\ x.got \in Seq(Utxo) /\ (r \in calm => Holds(x.q, x.got))
  BY StateOf, NeededIs DEF Answer, Collects, Gathers, Gathering, HeldInv
<1>2. rows \in Seq(Utxo) /\ Holds(x.q, rows)
  BY <1>1, RowsAre DEF HeadRows, Holds
<1>3. ASSUME NEW more, GoesOn(r, more), PartOf(more, rows)
      PROVE  Held(r)
  <2> DEFINE got == x.got \o more
             todo == Tail(x.todo)
             undisturbed == r \in calm
  <2>1. Continue(r, [pc |-> x.pc, q |-> x.q, todo |-> todo, got |-> got,
                     first |-> x.first], undisturbed)
    BY <1>3 DEF GoesOn
  <2> HIDE DEF x, rows
  <2>2. more \in Seq(Utxo) /\ Holds(x.q, more)
    BY <1>2, <1>3 DEF PartOf, Holds
  <2>3. got \in Seq(Utxo)
    BY <1>1, <2>2
  <2>4. ASSUME r \in calm, NEW i \in 1 .. Len(got)
        PROVE  got[i].id \in SpendableNow(x.q.height)
    <3>1. /\ Len(got) = Len(x.got) + Len(more)
          /\ Len(x.got) \in Nat /\ Len(more) \in Nat
      BY <1>1, <2>2
    <3>2. CASE i \in 1 .. Len(x.got)
      <4>1. got[i] = x.got[i]
        BY <1>1, <2>2, <3>2
      <4>2. QED
        BY <1>1, <2>4, <3>2, <4>1 DEF Holds
    <3>3. CASE i \notin 1 .. Len(x.got)
      <4>1. i - Len(x.got) \in 1 .. Len(more) /\ got[i] = more[i - Len(x.got)]
        BY <1>1, <2>2, <3>1, <3>3
      <4>2. QED
        BY <2>2, <4>1 DEF Holds
    <3>4. QED
      BY <3>2, <3>3
  <2>5. undisturbed => Holds(x.q, got)
    BY <2>4 DEF Holds
  <2>6. r \in calm => undisturbed
    OBVIOUS
  <2> HIDE DEF got, todo, undisturbed
  <2>7. QED
    BY <1>1, <2>1, <2>3, <2>5, <2>6, ContinueHolds
<1>4. CASE WithoutAnswer(r)
  BY <1>1, <1>4, WithoutAnswerHolds
<1>5. QED
  BY <1>3, <1>4, AnswerSplits

LEMMA HandleHolds ==
  ASSUME Types, GatherInv, HeldInv, NEW r \in Requests, Handle(r)
  PROVE  Held(r)
<1>1. ServerTypes /\ StorageTypes
  BY DEF Types
<1>2. CASE Ask(r)
  <2>1. r \notin calm
    BY <1>1, <1>2, StateOf DEF Ask, Idle
  <2>2. PICK q \in Questions :
          \/ Hit(q)
          \/ \E order \in Orders(q.kind) :
               Continue(r, [pc |-> "ask", q |-> q, todo |-> order, got |-> <<>>,
                            first |-> Asked(q) = {}], TRUE)
    BY <1>2 DEF Ask, Hit, CacheKey
  <2>3. CASE Hit(q)
    BY <1>1, <2>1, <2>3 DEF Hit, Held, ServerTypes
  <2>4. ASSUME NEW order,
               Continue(r, [pc |-> "ask", q |-> q, todo |-> order, got |-> <<>>,
                            first |-> Asked(q) = {}], TRUE)
        PROVE  Held(r)
    <3>1. <<>> \in Seq(Utxo) /\ Holds(q, <<>>)
      BY DEF Holds
    <3>2. QED
      BY <1>1, <2>4, <3>1, ContinueHolds
  <2>5. QED
    BY <2>2, <2>3, <2>4
<1>3. CASE Admit(r)
  <2>1. Collects(request[r]) /\ Gathers(request[r])
    BY <1>1, <1>3, StateOf DEF Admit, GatherInv
  <2>2. CASE request' = [request EXCEPT ![r].pc = "read"] /\ UNCHANGED <<calm, built>>
    <3> DEFINE x == request[r]
               y == [pc |-> "read", q |-> x.q, todo |-> x.todo, got |-> x.got,
                     first |-> x.first]
    <3>1. request' = [request EXCEPT ![r] = y] /\ y.q = x.q /\ y.got = x.got
      BY <2>1, <2>2, Updated
    <3> HIDE DEF y
    <3>2. request'[r] = y
      BY <1>1, <3>1, StateSet
    <3>3. r \in calm => Holds(x.q, x.got)
      BY DEF HeldInv
    <3>4. QED
      BY <2>2, <3>1, <3>2, <3>3 DEF Held
  <2>3. CASE WithoutAnswer(r)
    BY <1>1, <2>1, <2>3, WithoutAnswerHolds
  <2>4. QED
    BY <1>3, <2>2, <2>3 DEF Admit
<1>4. CASE Answer(r)
  <2>1. Gathers(request[r])
    BY <1>4 DEF Answer, GatherInv
  <2>2. QED
    BY <1>1, <1>4, <2>1, AnswerHolds
<1>5. CASE \/ InsertInCache(r) \/ Snapshot(r) \/ OpenFile(r) \/ WriteFile(r)
           \/ SaveFails(r) \/ Sign(r) \/ SignFails(r)
  <2>1. UNCHANGED <<calm, built>> /\ request[r].pc \notin {"ask", "read"}
    BY <1>5 DEF InsertInCache, Snapshot, OpenFile, WriteFile, SaveFails, Sign, SignFails,
                historyVars
  <2>2. r \notin calm
    BY <1>1, <2>1, StateOf
  <2>3. request' = [request EXCEPT ![r] = request'[r]]
    <3>1. CASE InsertInCache(r) \/ Snapshot(r) \/ OpenFile(r)
      BY <1>1, <3>1, InsertIs, SnapshotIs, OpenIs
    <3>2. CASE WriteFile(r) \/ SaveFails(r) \/ Sign(r) \/ SignFails(r)
      BY <1>1, <3>2, EndIs, StateSet
    <3>3. QED
      BY <1>5, <3>1, <3>2
  <2>4. QED
    BY <2>1, <2>2, <2>3 DEF Held
<1>6. QED
  BY <1>2, <1>3, <1>4, <1>5 DEF Handle

LEMMA HeldStep ==
  ASSUME Types, Types', GatherInv, HeldInv, [Next]_vars
  PROVE  HeldInv'
<1>1. CASE StoreBlock \/ MarkBlocks \/ StoreSignedTx \/ UNCHANGED vars
  <2>1. UNCHANGED <<upto, ans, request, calm>>
    BY <1>1 DEF StoreBlock, MarkBlocks, StoreSignedTx, vars, storageVars, serverVars,
                historyVars
  <2>2. QED
    BY <2>1 DEF HeldInv, Holds, SpendableNow
<1>2. CASE (\E a \in Addresses : Watch(a)) \/ Restart
  <2>1. calm' = {}
    BY <1>2 DEF Watch, Restart, Disturbance
  <2>2. QED
    BY <2>1 DEF HeldInv
<1>3. CASE ProcessBlock \/ RevertUtxos
  <2>1. UNCHANGED request
    BY <1>3 DEF ProcessBlock, RevertUtxos, serverVars
  <2>2. PICK m \in Int :
          /\ DisturbanceAbove(m)
          /\ \A h \in Int : h <= m => SpendableNow(h)' = SpendableNow(h)
    BY <1>3, RowsStayBelow DEF Types
  <2>3. ASSUME NEW r \in calm', NEW x, x = request[r]
        PROVE  Holds(x.q, x.got)'
    <3>1. x.q.height <= m /\ x.q \in Questions /\ Holds(x.q, x.got)
      BY <2>2, <2>3 DEF DisturbanceAbove, HeldInv, Types, ServerTypes, Collects
    <3>2. x.q.height \in Int
      BY <3>1, NeededIs
    <3>3. SpendableNow(x.q.height)' = SpendableNow(x.q.height)
      BY <2>2, <3>1, <3>2
    <3>4. QED
      BY <3>1, <3>3 DEF Holds
  <2>4. ASSUME NEW r \in calm' PROVE Holds(request[r].q, request[r].got)'
    BY <2>1, <2>3 DEF Holds
  <2>5. QED
    BY <2>4 DEF HeldInv
<1>4. ASSUME NEW r \in Requests, Handle(r) PROVE HeldInv'
  <2>1. UNCHANGED <<upto, ans>>
    BY <1>4 DEF Handle, Ask, Admit, Answer, InsertInCache, Snapshot, OpenFile, WriteFile,
                SaveFails, Sign, SignFails, storageVars
  <2>2. Held(r)
    BY <1>4, HandleHolds
  <2>3. \A s \in Requests : s # r => request'[s] = request[s]
    BY <2>2, StateSet DEF Held, Types
  <2>4. \A s \in calm' : Holds(request'[s].q, request'[s].got)
    BY <2>2, <2>3 DEF Held, HeldInv, Types, ServerTypes
  <2>5. QED
    BY <2>1, <2>4 DEF HeldInv, Holds, SpendableNow
<1>5. QED
  BY <1>1, <1>2, <1>3, <1>4 DEF Next

LEMMA SelectStep ==
  ASSUME Types, GatherInv, HeldInv, [Next]_vars, NEW r \in calm, NEW b \in built' \ built,
         request'[r] = Idle
  PROVE  ToSet(b.tx.inputs) \subseteq SpendableNow(b.q.height)
<1>1. ServerTypes /\ r \in Requests /\ request[r].pc \in {"ask", "read"}
  BY StateOf DEF Types, ServerTypes
<1>2. request'[r] # request[r]
  BY <1>1 DEF Idle
<1>3. ~Restart
  BY DEF Restart
<1>4. Handle(r)
  BY <1>1, <1>2, <1>3, OwnStep
<1>5. QED
  BY <1>1, <1>4, HandleHolds DEF Held

(* What select has collected from several addresses, one after the other,  *)
(* is still spendable at its height when it answers, whatever blocks came  *)
(* or were reverted above that height in between (api.rs                   *)
(* select_utxos_handler)                                                   *)
THEOREM SelectedFitTogether == Spec => SelectedTogether
<1>1. Init => HeldInv
  BY DEF Init, HeldInv
<1>2. Types /\ Types' /\ GatherInv /\ HeldInv /\ [Next]_vars => HeldInv'
  BY HeldStep
<1>3. Types /\ GatherInv /\ HeldInv /\ [Next]_vars
        => [\A r \in calm, b \in built' \ built :
              request[r].q.kind = "select" /\ request'[r] = Idle
                => ToSet(b.tx.inputs) \subseteq SpendableNow(b.q.height)]_vars
  BY SelectStep
<1>4. QED
  BY <1>1, <1>2, <1>3, GatherHolds, PTL DEF Spec, SelectedTogether

-----------------------------------------------------------------------------
(* What is signed is recorded                                              *)

(* While no call has failed and nothing has restarted, whatever a sign     *)
(* request was answered is recorded, or its task is still to finish        *)
Recorded(a) == a \in ToSet(spawned) \/ a \in ToSet(signedLog)

RecordInv ==
  ~Faulty /\ restarts = 0 =>
    \A a \in answers : a.q.kind = "sign" => Recorded(a)

LEMMA HandleRecords ==
  ASSUME ServerTypes, BuiltInv, RecordInv, ~Faulty, restarts = 0,
         NEW r \in Requests, Handle(r)
  PROVE  RecordInv'
<1>1. /\ signedLog \in Seq(built) /\ spawned \in Seq(built)
      /\ BuiltFor(request[r], built)
  BY DEF BuiltInv
<1>2. \A a \in answers : a.q.kind = "sign" => Recorded(a)
  BY DEF RecordInv
<1>3. CASE Sign(r)
  <2> DEFINE a == [q |-> request[r].q, tx |-> request[r].tx]
  <2>1. spawned' = Append(spawned, a) /\ UNCHANGED signedLog
    BY <1>3 DEF Sign
  <2>2. answers' = answers \cup {a}
    BY <1>3, EndIs
  <2>3. a \in built
    BY <1>1, <1>3 DEF BuiltFor, Sign
  <2> HIDE DEF a
  <2>4. ToSet(spawned') = ToSet(spawned) \cup {a}
    BY <1>1, <2>1, <2>3, AppendIs
  <2>5. \A b \in answers' : b.q.kind = "sign" => b \in ToSet(spawned') \/ b \in ToSet(signedLog')
    BY <1>2, <2>1, <2>2, <2>4 DEF Recorded
  <2>6. QED
    BY <2>5 DEF RecordInv, Recorded
<1>4. CASE ~Sign(r)
  <2>1. UNCHANGED <<spawned, signedLog>>
    BY <1>4 DEF Handle, Ask, Admit, Answer, InsertInCache, Snapshot, OpenFile, WriteFile,
                SaveFails, SignFails
  <2>2. \A a \in answers' : a \in answers \/ a.q.kind # "sign"
    <3>1. CASE Ask(r)
      <4>1. PICK q \in Questions : Hit(q) \/ UNCHANGED answers
        BY <3>1, AskIs
      <4>2. CASE Hit(q)
        <5>1. q.kind = "prepare" /\ answers' = answers \cup {[q |-> q, tx |-> cache[q]]}
          BY <4>2, QuestionKinds DEF Hit, ServerTypes
        <5>2. QED
          BY <5>1
      <4>3. QED
        BY <4>1, <4>2
    <3>2. CASE WriteFile(r)
      <4>1. /\ Saves(request[r])
            /\ answers' = answers \cup {[q |-> request[r].q, tx |-> request[r].tx]}
        BY <3>2, EndIs
      <4>2. request[r].q.kind = "prepare"
        BY <4>1 DEF Saves, Keys
      <4>3. QED
        BY <4>1, <4>2
    <3>3. CASE ~Ask(r) /\ ~WriteFile(r)
      BY <1>4, <3>3 DEF Handle, Admit, Answer, InsertInCache, Snapshot, OpenFile,
                        SaveFails, SignFails, historyVars
    <3>4. QED
      BY <3>1, <3>2, <3>3
  <2>3. \A a \in answers' : a.q.kind = "sign" => a \in ToSet(spawned') \/ a \in ToSet(signedLog')
    BY <1>2, <2>1, <2>2 DEF Recorded
  <2>4. QED
    BY <2>3 DEF RecordInv, Recorded
<1>5. QED
  BY <1>3, <1>4

LEMMA RecordStep ==
  ASSUME Types, BuiltInv, RecordInv, [Next]_vars
  PROVE  RecordInv'
<1>1. /\ signedLog \in Seq(built) /\ spawned \in Seq(built) /\ ServerTypes
      /\ restarts \in Nat
  BY DEF BuiltInv, Types, CounterTypes
<1>2. SUFFICES ASSUME ~Faulty, restarts' = 0 PROVE RecordInv'
  BY DEF RecordInv
<1>3. CASE \/ StoreBlock \/ ProcessBlock \/ MarkBlocks \/ RevertUtxos
           \/ (\E a \in Addresses : Watch(a)) \/ UNCHANGED vars
  <2>1. UNCHANGED <<restarts, answers, spawned, signedLog>>
    BY <1>3 DEF StoreBlock, ProcessBlock, MarkBlocks, RevertUtxos, Watch, serverVars,
                counters, historyVars, vars
  <2>2. QED
    BY <2>1 DEF RecordInv, Recorded
<1>4. CASE \E r \in Requests : Handle(r)
  <2>1. PICK r \in Requests : Handle(r)
    BY <1>4
  <2>2. UNCHANGED restarts
    BY <2>1 DEF Handle, Ask, Admit, Answer, InsertInCache, Snapshot, OpenFile, WriteFile,
                SaveFails, Sign, SignFails, counters
  <2>3. QED
    BY <1>1, <1>2, <2>1, <2>2, HandleRecords
<1>5. CASE StoreSignedTx
  <2>1. PICK i \in DOMAIN spawned :
          /\ spawned' = RemoveAt(spawned, i)
          /\ signedLog' = Append(signedLog, spawned[i])
          /\ UNCHANGED <<restarts, answers>>
    BY <1>2, <1>5 DEF StoreSignedTx, historyVars, counters
  <2>2. i \in 1 .. Len(spawned) /\ spawned[i] \in built
    BY <1>1
  <2>3. ToSet(signedLog') = ToSet(signedLog) \cup {spawned[i]}
    BY <1>1, <2>1, <2>2, AppendIs
  <2>4. \A e \in ToSet(spawned) : e = spawned[i] \/ e \in ToSet(spawned')
    BY <1>1, <2>1, <2>2, RemoveAtIs
  <2>5. \A a \in answers : a.q.kind = "sign" => Recorded(a)
    BY <1>2, <2>1 DEF RecordInv
  <2>6. \A a \in answers' : a.q.kind = "sign" => a \in ToSet(spawned') \/ a \in ToSet(signedLog')
    BY <2>1, <2>3, <2>4, <2>5 DEF Recorded
  <2>7. QED
    BY <2>6 DEF RecordInv, Recorded
<1>6. CASE Restart
  <2>1. restarts' = restarts + 1
    BY <1>6 DEF Restart
  <2>2. QED
    BY <1>1, <1>2, <2>1
<1>7. QED
  BY <1>3, <1>4, <1>5, <1>6 DEF Next

(* A record is found by a value in one of its columns, and by its txid     *)
LEMMA RecordFound ==
  ASSUME NEW T, NEW log \in Seq(T), NEW a \in ToSet(log)
  PROVE  /\ Contains(SignedTxsWhere(log, "height", a.q.height), a)
         /\ \E s \in SignedTxByTxid(log, a.tx) : s.tx = a.tx
<1>1. Len(log) \in Nat /\ DOMAIN log = 1 .. Len(log)
  OBVIOUS
<1>2. PICK i \in 1 .. Len(log) : log[i] = a
  BY <1>1 DEF ToSet
<1> DEFINE ids == {j \in DOMAIN log : log[j].q["height"] = a.q.height}
           same == {j \in DOMAIN log : log[j].tx = a.tx}
           order == InOrder(ids, <)
           n == Cardinality(ids)
           found == [k \in DOMAIN order |-> log[order[k]]]
<1>3. Contains(SignedTxsWhere(log, "height", a.q.height), a)
  <2>1. ids \in SUBSET (1 .. Len(log)) /\ i \in ids
    BY <1>1, <1>2
  <2>2. ids \in SUBSET Nat /\ IsFiniteSet(ids)
    <3> HIDE DEF ids
    <3>1. IsFiniteSet(1 .. Len(log)) /\ ids \in SUBSET Nat
      BY <1>1, <2>1, FS_Interval
    <3>2. QED
      BY <2>1, <3>1, FS_Subset
  <2>3. SignedTxsWhere(log, "height", a.q.height) = found
    BY DEF SignedTxsWhere
  <2> HIDE DEF ids
  <2>4. /\ order \in [1 .. n -> ids] /\ n \in Nat
        /\ \E k \in DOMAIN order : order[k] = i
    BY <2>1, <2>2, AscendingIs, FS_CardinalityType
  <2> HIDE DEF order, n
  <2>5. DOMAIN order = 1 .. n
    BY <2>4
  <2>6. Len(found) = n /\ \E k \in 1 .. n : found[k] = a
    BY <1>2, <2>4, <2>5
  <2> HIDE DEF found
  <2>7. QED
    BY <2>3, <2>6 DEF Contains
<1>4. \E s \in SignedTxByTxid(log, a.tx) : s.tx = a.tx
  <2>1. same \in SUBSET (1 .. Len(log)) /\ i \in same
    BY <1>1, <1>2
  <2>2. Max(same) \in same
    <3> HIDE DEF same
    <3>1. QED
      BY <1>1, <2>1, LargestElement
  <2>3. SignedTxByTxid(log, a.tx) = {log[Max(same)]}
    BY <2>1 DEF SignedTxByTxid
  <2>4. QED
    BY <2>2, <2>3
<1>5. QED
  BY <1>3, <1>4

(* Whoever was answered with a signed transaction finds its record, or     *)
(* will, by the height of the request and by its txid, in whatever order   *)
(* the tasks that store the records finish (api.rs                         *)
(* sign_transaction_handler, signed_db.rs)                                 *)
THEOREM SignedAreRecorded == Spec => []SignedAreStored
<1>1. Init => RecordInv
  BY DEF Init, RecordInv
<1>2. Types /\ BuiltInv /\ RecordInv /\ [Next]_vars => RecordInv'
  BY RecordStep
<1>3. BuiltInv /\ RecordInv => SignedAreStored
  <2> SUFFICES ASSUME BuiltInv, RecordInv, ~Faulty, restarts = 0,
                      NEW a \in answers, a.q.kind = "sign", a \notin ToSet(spawned)
               PROVE  /\ Contains(SignedTxsWhere(signedLog, "height", a.q.height), a)
                      /\ \E s \in SignedTxByTxid(signedLog, a.tx) : s.tx = a.tx
    BY DEF SignedAreStored
  <2>1. a \in ToSet(signedLog) /\ signedLog \in Seq(built)
    BY DEF RecordInv, Recorded, BuiltInv
  <2>2. QED
    BY <2>1, RecordFound
<1>4. QED
  BY <1>1, <1>2, <1>3, BuiltHolds, PTL DEF Spec

-----------------------------------------------------------------------------
(* Prepare requests that nothing disturbs                                  *)

(* What the addresses would answer now, and the order in which prepare     *)
(* asks for them                                                           *)
Order == InOrder(watched, <)

Found == [p \in Addresses \X Nat |-> Rows(p[1], p[2])]

Nothing(h, k) == \A i \in 1 .. k : Found[<<Order[i], h>>] = <<>>

(* A request that nothing has disturbed has got nothing from the addresses *)
(* before the next one                                                     *)
CalmAt(x) ==
  /\ Needed(x.q) > 0
  /\ \E k \in 0 .. Len(Order) :
       x.todo = SubSeq(Order, k + 1, Len(Order)) /\ Nothing(x.q.height, k)

(* ... and is built from the first address that has something              *)
FirstPays(b, k) ==
  LET rows == Found[<<Order[k], b.q.height>>]
  IN  /\ Nothing(b.q.height, k - 1) /\ rows # <<>>
      /\ b.tx = BuiltFrom(b.q, Chosen(rows, Needed(b.q)))

Settled(b) ==
  /\ b.q \in Questions
  /\ \/ Needed(b.q) = 0 /\ b.tx = BuiltFrom(b.q, <<>>)
     \/ Needed(b.q) > 0 /\ \E k \in 1 .. Len(Order) : FirstPays(b, k)

AgreeInv ==
  /\ \A r \in calm : request[r].q.kind = "prepare" => CalmAt(request[r])
  /\ \A b \in agreed : Settled(b)

LEMMA OrderIs ==
  ASSUME Types
  PROVE  /\ Order \in Seq(Addresses) /\ Len(Order) \in Nat
         /\ \A k \in 1 .. Len(Order) : Order[k] \in Addresses
         /\ Orders("prepare") = {Order}
<1>1. Orders("prepare") = {Order}
  BY DEF Orders, Order
<1>2. Order \in Seq(Addresses)
  BY <1>1, OrdersAre DEF Types, CounterTypes
<1> HIDE DEF Order
<1>3. QED
  BY <1>1, <1>2

LEMMA FoundIs ==
  ASSUME NEW a \in Addresses, NEW h \in Nat
  PROVE  Found[<<a, h>>] = Rows(a, h)
BY DEF Found

LEMMA FoundStays ==
  ASSUME UNCHANGED <<upto, ans, watched>>
  PROVE  Order' = Order /\ Found' = Found
<1>1. Order' = Order
  BY DEF Order, InOrder
<1>2. \A a, h : Rows(a, h)' = Rows(a, h)
  BY DEF Rows, InOrder
<1>3. Found' = Found
  BY <1>2 DEF Found
<1>4. QED
  BY <1>1, <1>3

LEMMA AgreeNext ==
  ASSUME UNCHANGED <<upto, ans, watched>>,
         \A r \in calm' : request'[r].q.kind = "prepare" => CalmAt(request'[r]),
         \A b \in agreed' : Settled(b)
  PROVE  AgreeInv'
<1>1. Order' = Order /\ Found' = Found
  BY FoundStays
<1>2. QED
  BY <1>1 DEF AgreeInv, CalmAt, Settled, FirstPays, Nothing

(* What is kept when the rows above a height change                        *)
LEMMA AgreeBelow ==
  ASSUME Types, AgreeInv, UNCHANGED <<watched, request>>,
         NEW m \in Int, DisturbanceAbove(m),
         \A h \in Int : h <= m => \A a \in Addresses : Rows(a, h)' = Rows(a, h)
  PROVE  AgreeInv'
<1>1. Order' = Order
  BY DEF Order, InOrder
<1>2. \A i \in 1 .. Len(Order) : Order[i] \in Addresses
  BY OrderIs
<1>3. Len(Order) \in Nat
  BY OrderIs
<1>4. ASSUME NEW h \in Nat, h <= m, NEW i \in 1 .. Len(Order)
      PROVE  Found'[<<Order[i], h>>] = Found[<<Order[i], h>>]
  <2>1. Order[i] \in Addresses /\ h \in Int
    BY <1>2
  <2>2. \A a \in Addresses : Rows(a, h)' = Rows(a, h)
    BY <1>4, <2>1
  <2>3. /\ \A a \in Addresses : Found[<<a, h>>] = Rows(a, h)
        /\ \A a \in Addresses : Found'[<<a, h>>] = Rows(a, h)'
    BY DEF Found
  <2>4. QED
    BY <2>1, <2>2, <2>3
<1> HIDE DEF Found, Order
<1>5. ASSUME NEW h \in Nat, h <= m, NEW k \in Int, k <= Len(Order), Nothing(h, k)
      PROVE  Nothing(h, k)'
  <2>1. \A i \in 1 .. k : i \in 1 .. Len(Order)
    BY <1>3, <1>5
  <2>2. QED
    BY <1>1, <1>4, <1>5, <2>1 DEF Nothing
<1>6. ASSUME NEW r \in calm', NEW x, x = request'[r], x.q.kind = "prepare"
      PROVE  CalmAt(x)'
  <2>1. r \in calm /\ x = request[r] /\ x.q.height <= m /\ x.q \in Questions /\ CalmAt(x)
    BY <1>6 DEF DisturbanceAbove, AgreeInv, Types, ServerTypes, Collects
  <2>2. x.q.height \in Nat
    BY <2>1, NeededIs
  <2>3. PICK k \in 0 .. Len(Order) :
          x.todo = SubSeq(Order, k + 1, Len(Order)) /\ Nothing(x.q.height, k)
    BY <2>1 DEF CalmAt
  <2>4. Nothing(x.q.height, k)'
    BY <1>3, <1>5, <2>1, <2>2, <2>3
  <2>5. QED
    BY <1>1, <2>1, <2>3, <2>4 DEF CalmAt
<1>7. ASSUME NEW b \in agreed' PROVE Settled(b)'
  <2>1. Settled(b) /\ b.q.height <= m
    BY <1>7 DEF DisturbanceAbove, AgreeInv
  <2>2. b.q.height \in Nat
    BY <2>1, NeededIs DEF Settled
  <2>3. ASSUME NEW k \in 1 .. Len(Order), FirstPays(b, k)
        PROVE  FirstPays(b, k)'
    <3>1. Found'[<<Order[k], b.q.height>>] = Found[<<Order[k], b.q.height>>]
      BY <1>4, <2>1, <2>2
    <3>2. Nothing(b.q.height, k - 1)'
      <4>1. k - 1 \in Int /\ k - 1 <= Len(Order) /\ Nothing(b.q.height, k - 1)
        BY <1>3, <2>3 DEF FirstPays
      <4>2. QED
        BY <1>5, <2>1, <2>2, <4>1
    <3>3. QED
      BY <1>1, <2>3, <3>1, <3>2 DEF FirstPays
  <2>4. QED
    BY <1>1, <2>1, <2>3 DEF Settled
<1>8. ASSUME NEW r \in calm', request'[r].q.kind = "prepare"
      PROVE  CalmAt(request[r])'
  BY <1>6, <1>8 DEF CalmAt
<1>9. QED
  BY <1>7, <1>8 DEF AgreeInv

(* What is settled is settled once                                         *)
LEMMA SettledOnce ==
  ASSUME Types, NEW b, NEW c, Settled(b), Settled(c), b.q = c.q
  PROVE  b.tx = c.tx
<1>1. CASE Needed(b.q) = 0
  BY <1>1 DEF Settled
<1>2. CASE Needed(b.q) > 0
  <2>1. PICK k \in 1 .. Len(Order) : FirstPays(b, k)
    BY <1>2 DEF Settled
  <2>2. PICK m \in 1 .. Len(Order) : FirstPays(c, m)
    BY <1>2 DEF Settled
  <2>3. k = m
    <3>1. k \in Nat /\ m \in Nat
      BY OrderIs
    <3>2. ~(k \in 1 .. m - 1) /\ ~(m \in 1 .. k - 1)
      BY <2>1, <2>2 DEF FirstPays, Nothing
    <3>3. QED
      BY <3>1, <3>2
  <2>4. QED
    BY <2>1, <2>2, <2>3 DEF FirstPays
<1>3. QED
  BY <1>1, <1>2 DEF Settled

(* What a prepare request finds that nothing has disturbed                 *)
OnTheWay(q, todo, got) ==
  \/ /\ got = <<>>
     /\ \E k \in 0 .. Len(Order) :
          todo = SubSeq(Order, k + 1, Len(Order)) /\ Nothing(q.height, k)
  \/ /\ got \in Seq(Utxo) /\ Total(got) >= Needed(q)
     /\ Settled([q |-> q, tx |-> BuiltFrom(q, got)])

Agrees(r) ==
  /\ request' = [request EXCEPT ![r] = request'[r]]
  /\ calm' \subseteq calm \cup {r}
  /\ r \in calm' /\ request'[r].q.kind = "prepare" => CalmAt(request'[r])
  /\ \A b \in agreed' : b \in agreed \/ Settled(b)

LEMMA ContinueAgrees ==
  ASSUME Types, NEW r \in Requests, NEW pc, NEW q \in Questions,
         NEW todo, NEW got, NEW first, NEW undisturbed,
         Continue(r, [pc |-> pc, q |-> q, todo |-> todo, got |-> got, first |-> first],
                  undisturbed),
         r \in calm => undisturbed,
         undisturbed /\ q.kind = "prepare" => OnTheWay(q, todo, got)
  PROVE  Agrees(r)
<1> DEFINE tx == Tx(q, got)
           b == [q |-> q, tx |-> tx]
           x == [pc |-> "ask", q |-> q, todo |-> todo, got |-> got, first |-> first]
<1>1. ServerTypes /\ Needed(q) \in Nat
  BY NeededIs DEF Types
<1>2. Continued(r, q, first)
  BY <1>1, ContinueIs
<1>3. ASSUME undisturbed, q.kind = "prepare"
      PROVE  /\ tx.change >= 0 => Settled(b)
             /\ ~(tx.change >= 0) => CalmAt(x)
  <2>1. tx = BuiltFrom(q, got)
    BY <1>3 DEF Tx
  <2>2. CASE /\ got = <<>>
             /\ \E k \in 0 .. Len(Order) :
                  todo = SubSeq(Order, k + 1, Len(Order)) /\ Nothing(q.height, k)
    <3>1. got \in Seq(Utxo)
      BY <2>2
    <3>2. tx.change = 0 - Needed(q)
      BY <1>1, <2>1, <2>2, <3>1, BuildIs, TotalIs
    <3>3. tx.change >= 0 => Needed(q) = 0
      <4> HIDE DEF tx
      <4>1. QED
        BY <1>1, <3>2
    <3>4. ~(tx.change >= 0) => Needed(q) > 0
      <4> HIDE DEF tx
      <4>1. QED
        BY <1>1, <3>2
    <3>5. tx.change >= 0 => Settled(b)
      BY <2>1, <2>2, <3>3 DEF Settled
    <3>6. x.q = q /\ x.todo = todo
      OBVIOUS
    <3> HIDE DEF x, tx
    <3>7. ~(tx.change >= 0) => CalmAt(x)
      BY <2>2, <3>4, <3>6 DEF CalmAt
    <3>8. QED
      BY <3>5, <3>7
  <2>3. CASE /\ got \in Seq(Utxo) /\ Total(got) >= Needed(q)
             /\ Settled([q |-> q, tx |-> BuiltFrom(q, got)])
    <3>1. tx.change = Total(got) - Needed(q) /\ Total(got) \in Nat
      BY <2>1, <2>3, BuildIs, TotalIs
    <3>2. tx.change >= 0
      <4> HIDE DEF tx
      <4>1. QED
        BY <1>1, <2>3, <3>1
    <3>3. QED
      BY <2>1, <2>3, <3>2
  <2>4. QED
    BY <1>3, <2>2, <2>3 DEF OnTheWay
<1> HIDE DEF tx, b, x
<1>4. CASE /\ tx.change >= 0 /\ calm' = calm \ {r}
           /\ agreed' = IF undisturbed /\ q.kind = "prepare"
                          THEN agreed \cup {b} ELSE agreed
  BY <1>2, <1>3, <1>4 DEF Agrees, Continued
<1>5. CASE /\ \/ ~(tx.change >= 0)
              \/ q.kind = "sign" /\ got = <<>>
              \/ q.kind = "select"
           /\ request'[r] = x
           /\ calm' = IF undisturbed THEN calm \cup {r} ELSE calm
           /\ UNCHANGED agreed
  <2>1. x.q = q
    BY DEF x
  <2>2. r \in calm' /\ q.kind = "prepare" => CalmAt(request'[r])
    BY <1>3, <1>5
  <2>3. QED
    BY <1>2, <1>5, <2>1, <2>2 DEF Agrees, Continued
<1>6. CASE calm' = calm \ {r} /\ UNCHANGED agreed
  BY <1>2, <1>6 DEF Agrees, Continued
<1>7. QED
  BY <1>1, <1>4, <1>5, <1>6, ContinueSplits DEF tx, b, x

LEMMA AnswerAgrees ==
  ASSUME Types, GatherInv, AgreeInv, NEW r \in Requests, Answer(r)
  PROVE  Agrees(r)
<1> DEFINE x == request[r]
           n == Len(Order)
           h == x.q.height
           undisturbed == r \in calm
<1>1. /\ ServerTypes /\ StorageTypes /\ Collects(x) /\ Gathers(x)
      /\ x.q \in Questions /\ x.todo # <<>>
  BY StateOf DEF Types, GatherInv, Answer, Collects
<1>2. Needed(x.q) \in Nat /\ h \in Nat
  BY <1>1, NeededIs
<1>3. CASE WithoutAnswer(r)
  <2>1. CASE x.q.kind = "select"
    <3>1. [x EXCEPT !.todo = Tail(@)]
            = [pc |-> x.pc, q |-> x.q, todo |-> Tail(x.todo), got |-> x.got,
               first |-> x.first]
      <4> HIDE DEF x
      <4>1. QED
        BY <1>1, Shortened
    <3>2. Continue(r, [pc |-> x.pc, q |-> x.q, todo |-> Tail(x.todo), got |-> x.got,
                       first |-> x.first], r \in calm)
      BY <1>3, <2>1, <3>1 DEF WithoutAnswer
    <3>3. QED
      BY <1>1, <2>1, <3>2, ContinueAgrees
  <2>2. CASE x.q.kind # "select"
    <3>1. /\ request' = [request EXCEPT ![r] = Idle]
          /\ calm' = calm \ {r} /\ UNCHANGED agreed
      BY <1>3, <2>2 DEF WithoutAnswer
    <3>2. request'[r] = Idle
      BY <1>1, <3>1, StateSet
    <3>3. QED
      BY <3>1, <3>2 DEF Agrees
  <2>3. QED
    BY <2>1, <2>2
<1>4. ASSUME NEW more, GoesOn(r, more), PartOf(more, HeadRows(x)),
             x.q.kind # "select" =>
               /\ HeadRows(x) = <<>> => more = <<>>
               /\ HeadRows(x) # <<>> => /\ more = Chosen(HeadRows(x), Needed(x.q))
                                        /\ Enough(x.q, more)
      PROVE  Agrees(r)
  <2>1. Continue(r, [pc |-> x.pc, q |-> x.q, todo |-> Tail(x.todo), got |-> x.got \o more,
                     first |-> x.first], undisturbed)
    BY <1>4 DEF GoesOn
  <2>2. ASSUME r \in calm, x.q.kind = "prepare"
        PROVE  OnTheWay(x.q, Tail(x.todo), x.got \o more)
    <3>1. more \in Seq(Utxo) /\ x.got = <<>> /\ x.got \o more = more
      BY <1>1, <1>4, <2>2 DEF PartOf, Gathers
    <3>2. CalmAt(x)
      BY <2>2 DEF AgreeInv
    <3>3. PICK k \in 0 .. n : x.todo = SubSeq(Order, k + 1, n) /\ Nothing(h, k)
      BY <3>2 DEF CalmAt
    <3>4. /\ Order \in Seq(Addresses) /\ n \in Nat
          /\ \A i \in 1 .. n : Order[i] \in Addresses
      BY OrderIs
    <3> HIDE DEF n, h, x
    <3>5. /\ k + 1 \in 1 .. n /\ Head(x.todo) = Order[k + 1]
          /\ Tail(x.todo) = SubSeq(Order, k + 2, n)
      <4>1. k + 1 \in 1 .. n
        BY <1>1, <3>3, <3>4
      <4>2. k + 1 + 1 = k + 2
        BY <3>3, <3>4
      <4>3. QED
        BY <3>3, <3>4, <4>1, <4>2 DEF n
    <3>6. HeadRows(x) = Found[<<Order[k + 1], h>>]
      BY <1>2, <3>4, <3>5, FoundIs DEF HeadRows, h
    <3>7. CASE HeadRows(x) = <<>>
      <4>1. Nothing(h, k + 1) /\ k + 1 \in 0 .. n /\ k + 1 + 1 = k + 2
        <5>1. \A i \in 1 .. k + 1 : i \in 1 .. k \/ i = k + 1
          BY <3>3, <3>4
        <5>2. Nothing(h, k + 1)
          BY <3>3, <3>6, <3>7, <5>1 DEF Nothing
        <5>3. QED
          BY <3>3, <3>4, <3>5, <5>2
      <4>2. more = <<>>
        BY <1>4, <2>2, <3>7
      <4>3. QED
        BY <3>1, <3>5, <4>1, <4>2 DEF OnTheWay, n, h
    <3>8. CASE HeadRows(x) # <<>>
      <4> DEFINE b == [q |-> x.q, tx |-> BuiltFrom(x.q, more)]
      <4>1. more = Chosen(HeadRows(x), Needed(x.q)) /\ Total(more) >= Needed(x.q)
        BY <1>4, <2>2, <3>8 DEF Enough
      <4>2. k + 1 - 1 = k /\ b.q = x.q /\ b.tx = BuiltFrom(x.q, more)
        BY <3>3, <3>4
      <4> HIDE DEF b
      <4>3. FirstPays(b, k + 1)
        BY <3>3, <3>6, <3>8, <4>1, <4>2 DEF FirstPays, h
      <4>4. Settled(b)
        <5>1. Needed(b.q) > 0
          BY <3>2, <4>2 DEF CalmAt
        <5>2. QED
          BY <1>1, <3>5, <4>2, <4>3, <5>1 DEF Settled, n
      <4>5. QED
        BY <3>1, <4>1, <4>4 DEF OnTheWay, b
    <3>9. QED
      BY <3>7, <3>8
  <2> HIDE DEF undisturbed
  <2> DEFINE got == x.got \o more
             todo == Tail(x.todo)
  <2>3. /\ r \in calm => undisturbed
        /\ undisturbed /\ x.q.kind = "prepare" => OnTheWay(x.q, todo, got)
    BY <2>2 DEF undisturbed
  <2> HIDE DEF got, todo, x
  <2>4. Continue(r, [pc |-> x.pc, q |-> x.q, todo |-> todo, got |-> got,
                     first |-> x.first], undisturbed)
    BY <2>1 DEF got, todo
  <2>5. x.q \in Questions
    BY <1>1
  <2>6. QED
    BY <2>3, <2>4, <2>5, ContinueAgrees
<1>5. QED
  BY <1>1, <1>3, <1>4, AnswerSplits

LEMMA AdmitAgrees ==
  ASSUME Types, AgreeInv, NEW r \in Requests, Admit(r)
  PROVE  Agrees(r)
<1> DEFINE x == request[r]
           y == [pc |-> "read", q |-> x.q, todo |-> x.todo, got |-> x.got,
                 first |-> x.first]
<1>1. ServerTypes /\ Collects(x) /\ x.q \in Questions
  BY StateOf DEF Types, Admit, Collects
<1>2. CASE request' = [request EXCEPT ![r].pc = "read"] /\ UNCHANGED <<calm, agreed>>
  <2>1. request' = [request EXCEPT ![r] = y]
    BY <1>1, <1>2, Updated
  <2>2. y.q = x.q /\ y.todo = x.todo
    OBVIOUS
  <2> HIDE DEF y
  <2>3. request'[r] = y
    BY <1>1, <2>1, StateSet
  <2>4. r \in calm /\ x.q.kind = "prepare" => CalmAt(x)
    BY DEF AgreeInv
  <2>5. r \in calm' /\ y.q.kind = "prepare" => CalmAt(y)
    BY <1>2, <2>2, <2>4 DEF CalmAt
  <2>6. QED
    BY <1>2, <2>1, <2>3, <2>5 DEF Agrees
<1>3. CASE WithoutAnswer(r)
  <2>1. CASE x.q.kind = "select"
    <3>1. [x EXCEPT !.todo = Tail(@)]
            = [pc |-> x.pc, q |-> x.q, todo |-> Tail(x.todo), got |-> x.got,
               first |-> x.first]
      <4> HIDE DEF x
      <4>1. QED
        BY <1>1, Shortened
    <3>2. Continue(r, [pc |-> x.pc, q |-> x.q, todo |-> Tail(x.todo), got |-> x.got,
                       first |-> x.first], r \in calm)
      BY <1>3, <2>1, <3>1 DEF WithoutAnswer
    <3>3. QED
      BY <1>1, <2>1, <3>2, ContinueAgrees
  <2>2. CASE x.q.kind # "select"
    <3>1. /\ request' = [request EXCEPT ![r] = Idle]
          /\ calm' = calm \ {r} /\ UNCHANGED agreed
      BY <1>3, <2>2 DEF WithoutAnswer
    <3>2. request'[r] = Idle
      BY <1>1, <3>1, StateSet
    <3>3. QED
      BY <3>1, <3>2 DEF Agrees
  <2>3. QED
    BY <2>1, <2>2
<1>4. QED
  BY <1>2, <1>3 DEF Admit

LEMMA AskAgrees ==
  ASSUME Types, AgreeInv, NEW r \in Requests, Ask(r)
  PROVE  Agrees(r)
<1>0. ServerTypes
  BY DEF Types
<1>1. PICK q \in Questions :
        \/ Hit(q)
        \/ \E order \in Orders(q.kind) :
             Continue(r, [pc |-> "ask", q |-> q, todo |-> order, got |-> <<>>,
                          first |-> Asked(q) = {}], TRUE)
  BY DEF Ask, Hit, CacheKey
<1>2. CASE Hit(q)
  <2>1. r \notin calm
    BY <1>0, StateOf DEF Ask, Idle
  <2>2. QED
    BY <1>0, <1>2, <2>1 DEF Hit, Agrees, ServerTypes
<1>3. ASSUME NEW order \in Orders(q.kind),
             Continue(r, [pc |-> "ask", q |-> q, todo |-> order, got |-> <<>>,
                          first |-> Asked(q) = {}], TRUE)
      PROVE  Agrees(r)
  <2>1. ASSUME q.kind = "prepare" PROVE OnTheWay(q, order, <<>>)
    <3>1. order = Order /\ Order \in Seq(Addresses) /\ Len(Order) \in Nat
      BY <1>3, <2>1, OrderIs
    <3>2. 0 \in 0 .. Len(Order) /\ order = SubSeq(Order, 0 + 1, Len(Order))
      BY <3>1
    <3>3. Nothing(q.height, 0)
      BY DEF Nothing
    <3>4. QED
      BY <3>2, <3>3 DEF OnTheWay
  <2>2. QED
    BY <1>3, <2>1, ContinueAgrees
<1>4. QED
  BY <1>1, <1>2, <1>3

LEMMA HandleAgrees ==
  ASSUME Types, GatherInv, AgreeInv, NEW r \in Requests, Handle(r)
  PROVE  AgreeInv'
<1>1. ServerTypes /\ UNCHANGED <<upto, ans, watched>>
  BY DEF Types, Handle, Ask, Admit, Answer, InsertInCache, Snapshot, OpenFile, WriteFile,
         SaveFails, Sign, SignFails, storageVars
<1>2. CASE Agrees(r)
  <2>1. \A s \in Requests : s # r => request'[s] = request[s]
    BY <1>1, <1>2, StateSet DEF Agrees
  <2>2. \A s \in calm : s \in Requests
    BY <1>1 DEF ServerTypes
  <2>3. \A s \in calm' : request'[s].q.kind = "prepare" => CalmAt(request'[s])
    BY <1>2, <2>1, <2>2 DEF Agrees, AgreeInv
  <2>4. \A b \in agreed' : Settled(b)
    BY <1>2 DEF Agrees, AgreeInv
  <2>5. QED
    BY <1>1, <2>3, <2>4, AgreeNext
<1>3. CASE \/ InsertInCache(r) \/ Snapshot(r) \/ OpenFile(r) \/ WriteFile(r)
           \/ SaveFails(r) \/ Sign(r) \/ SignFails(r)
  <2>1. UNCHANGED <<calm, agreed>>
    BY <1>3 DEF InsertInCache, Snapshot, OpenFile, WriteFile, SaveFails, Sign, SignFails,
                historyVars
  <2>2. request[r].pc \notin {"ask", "read"}
    BY <1>3 DEF InsertInCache, Snapshot, OpenFile, WriteFile, SaveFails, Sign, SignFails
  <2>3. r \notin calm
    BY <1>1, <2>2, StateOf
  <2>4. request' = [request EXCEPT ![r] = request'[r]]
    <3>1. CASE InsertInCache(r) \/ Snapshot(r) \/ OpenFile(r)
      BY <1>1, <3>1, InsertIs, SnapshotIs, OpenIs
    <3>2. CASE WriteFile(r) \/ SaveFails(r) \/ Sign(r) \/ SignFails(r)
      BY <1>1, <3>2, EndIs, StateSet
    <3>3. QED
      BY <1>3, <3>1, <3>2
  <2>5. QED
    BY <1>2, <2>1, <2>3, <2>4 DEF Agrees
<1>4. QED
  BY <1>2, <1>3, AskAgrees, AdmitAgrees, AnswerAgrees DEF Handle

LEMMA AgreeStep ==
  ASSUME Types, Types', GatherInv, AgreeInv, [Next]_vars
  PROVE  AgreeInv'
<1>1. CASE StoreBlock \/ MarkBlocks \/ StoreSignedTx \/ UNCHANGED vars
  <2>1. UNCHANGED <<upto, ans, watched, request, calm, agreed>>
    BY <1>1 DEF StoreBlock, MarkBlocks, StoreSignedTx, vars, storageVars, serverVars,
                historyVars
  <2>2. QED
    BY <2>1, AgreeNext DEF AgreeInv
<1>2. CASE (\E a \in Addresses : Watch(a)) \/ Restart
  <2>1. calm' = {} /\ agreed' = {}
    BY <1>2 DEF Watch, Restart, Disturbance
  <2>2. QED
    BY <2>1 DEF AgreeInv
<1>3. CASE ProcessBlock \/ RevertUtxos
  <2>1. UNCHANGED <<watched, request>>
    BY <1>3 DEF ProcessBlock, RevertUtxos, serverVars
  <2>2. PICK m \in Int :
          /\ DisturbanceAbove(m)
          /\ \A h \in Int : h <= m => \A a \in Addresses : Rows(a, h)' = Rows(a, h)
    BY <1>3, RowsStayBelow DEF Types
  <2>3. QED
    BY <2>1, <2>2, AgreeBelow
<1>4. CASE \E r \in Requests : Handle(r)
  BY <1>4, HandleAgrees
<1>5. QED
  BY <1>1, <1>2, <1>3, <1>4 DEF Next

(* Two prepare requests with the same parameters that both miss the cache  *)
(* build the same transaction, however their questions to the storage      *)
(* service interleave, and whatever blocks come or are reverted above      *)
(* their height in between, as long as the rows at their height stay, no   *)
(* address is newly watched and nothing restarts (api.rs                   *)
(* fetch_selected_utxos_deterministic)                                     *)
THEOREM PreparedAlike == Spec => []PreparesAgree
<1>1. Init => AgreeInv
  BY DEF Init, AgreeInv
<1>2. Types /\ Types' /\ GatherInv /\ AgreeInv /\ [Next]_vars => AgreeInv'
  BY AgreeStep
<1>3. Types /\ AgreeInv => PreparesAgree
  BY SettledOnce DEF AgreeInv, PreparesAgree
<1>4. QED
  BY <1>1, <1>2, <1>3, GatherHolds, PTL DEF Spec
=============================================================================
