------------------------------- MODULE RpcClient -------------------------------
(***************************************************************************)
(* A request of the indexer to the Bitcoin node for a number of items, as  *)
(* the two clients make it (indexer.rs).  The one for an external service  *)
(* posts batches, one after the other, and tries each of them three times; *)
(* the one for Bitcoin Core makes a call for every item, all at the same   *)
(* time.  The module that uses this one says when a request is made.       *)
(***************************************************************************)
EXTENDS Integers, FiniteSetsExt

CONSTANTS
  External,     \* connection_type is "external", not "bitcoincore"
  BatchSize,    \* items of a batch
  MaxAttempts,  \* attempts for a batch, 3 in the source
  Faulty        \* does the node refuse requests and give bad answers?

ASSUME RpcAssumption ==
  /\ External \in BOOLEAN /\ Faulty \in BOOLEAN
  /\ BatchSize \in Nat \ {0} /\ MaxAttempts \in Nat \ {0}

VARIABLE
  rpc  \* items to ask for, items answered, failed attempts for the next batch

NoRequest == [todo |-> {}, got |-> {}, attempt |-> 0]

Request(items) == rpc' = [todo |-> items, got |-> {}, attempt |-> 0]

Attempts == IF External THEN MaxAttempts ELSE 1

(* The next batch: the items come from a hash set, in any order            *)
Batches ==
  LET all == Cardinality(rpc.todo)
  IN  IF External /\ BatchSize < all THEN kSubset(BatchSize, rpc.todo)
                                     ELSE {rpc.todo}

(* The batch is answered: what is not found is left out of the result      *)
Answered(batch, found) ==
  rpc' = [todo |-> rpc.todo \ batch, got |-> rpc.got \cup found, attempt |-> 0]

(* A mutation: the attempts are counted round and round                    *)
RefusedForEver ==
  /\ Faulty
  /\ rpc.todo # {}
  /\ rpc' = [rpc EXCEPT !.attempt = (@ + 1) % Attempts]

(* The connection fails, or the service answers 429: another attempt       *)
Refused ==
  /\ Faulty
  /\ rpc.todo # {} /\ rpc.attempt + 1 < Attempts
  /\ rpc' = [rpc EXCEPT !.attempt = @ + 1]

(* The request fails: the last attempt was refused, or an answer cannot be *)
(* parsed or is an error, at any attempt                                   *)
Fails ==
  /\ Faulty
  /\ rpc.todo # {}
  /\ rpc' = NoRequest
=============================================================================
