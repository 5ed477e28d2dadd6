------------------------------- MODULE Selection -------------------------------
(***************************************************************************)
(* Choosing outputs for a payment, as pure operators: the selection of the *)
(* storage service for one address (database.rs), the loops of the         *)
(* indexer's API over several of them, and the transaction built from what *)
(* they return (api.rs).                                                   *)
(***************************************************************************)
EXTENDS Integers, SequencesExt

CONSTANTS
  Outputs,    \* outputs, numbered in the order of their rows in a block
  Addresses,  \* addresses, numbered in the order of their text
  Owner,      \* the address an output pays
  Amount      \* the value of an output

ASSUME SelectionAssumption ==
  /\ Outputs \subseteq Nat /\ IsFiniteSet(Outputs)
  /\ Addresses \subseteq Nat /\ IsFiniteSet(Addresses)
  /\ Owner \in [Outputs -> Addresses]
  /\ Amount \in [Outputs -> Nat]

NoAddress == -1

(* A row of an answer: an output and the block_height stored with it       *)
Utxo == [id : Outputs, height : Int]

(* The elements of a finite set, one before the other                      *)
InOrder(S, before(_, _)) ==
  CHOOSE s \in [1 .. Cardinality(S) -> S] :
    \A i, j \in DOMAIN s : i < j => before(s[i], s[j])

(* sort_by_key(block_height), which is stable                              *)
ByHeight(list) ==
  LET sooner(i, j) == \/ list[i].height < list[j].height
                      \/ list[i].height = list[j].height /\ i < j
      order == InOrder(DOMAIN list, sooner)
  IN  [i \in DOMAIN list |-> list[order[i]]]

Total(list) == FoldLeft(LAMBDA sum, u : sum + Amount[u.id], 0, list)

(* A mutation: the loop goes on when the target is met exactly             *)
TakenBeyond(list, target) ==
  LET enough == {n \in 0 .. Len(list) : Total(SubSeq(list, 1, n)) > target}
  IN  IF enough = {} THEN list ELSE SubSeq(list, 1, Min(enough))

(* The selection loop: outputs in order, until their sum reaches the       *)
(* target, or all of them                                                  *)
Taken(list, target) ==
  LET enough == {n \in 0 .. Len(list) : Total(SubSeq(list, 1, n)) >= target}
  IN  IF enough = {} THEN list ELSE SubSeq(list, 1, Min(enough))

Selected(list) == [ok |-> TRUE, utxos |-> list]
Refused        == [ok |-> FALSE, utxos |-> <<>>]

(* A mutation: what there is, when it is not enough                        *)
SelectWhatThereIs(rows, target) ==
  IF target <= 0 THEN Refused ELSE Selected(Taken(ByHeight(rows), target))

(* select_utxos_for_amount.  An address without outputs is no error, one   *)
(* with too few is.                                                        *)
SelectUtxosForAmount(rows, target) ==
  LET taken == Taken(ByHeight(rows), target)
  IN  IF target <= 0 THEN Refused
      ELSE IF rows = <<>> THEN Selected(<<>>)
      ELSE IF Total(taken) >= target THEN Selected(taken)
      ELSE Refused

(* The transaction spending `list': a payment, and the rest to the address *)
(* of the first input.  Equal records stand for equal txids.               *)
BuildUnsignedTransaction(list, amount, fee) ==
  LET change == Total(list) - (amount + fee)
  IN  [inputs   |-> [i \in DOMAIN list |-> list[i].id],
       amount   |-> amount,
       change   |-> change,
       changeTo |-> IF change > 0 /\ list # <<>> THEN Owner[list[1].id]
                                                 ELSE NoAddress]
=============================================================================
