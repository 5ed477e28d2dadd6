-------------------------------- MODULE Ledger --------------------------------
(***************************************************************************)
(* What the storage service promises to those who query it, without        *)
(* tables, hashes, messages or failures: for every height it has caught up *)
(* with it has one answer, the set of spendable outputs.  Catching up      *)
(* appends an answer; a reorganisation, or a client that starts over,      *)
(* takes answers away from the end; an answer that stays does not change,  *)
(* and an output that stopped being spendable does not come back.          *)
(***************************************************************************)
EXTENDS Integers

CONSTANTS Outputs, StartHeight

VARIABLES
  upto,   \* last height with an answer
  ans     \* height -> outputs spendable at that height

ledgerVars == <<upto, ans>>

Answered == StartHeight .. upto

Ever == UNION {ans[h] : h \in Answered}

Current == IF upto < StartHeight THEN {} ELSE ans[upto]

LedgerInit ==
  /\ upto = StartHeight - 1
  /\ ans = [h \in Answered |-> {}]

Grow ==
  \E next \in SUBSET Outputs :
    /\ (next \ Current) \cap Ever = {}
    /\ upto' = upto + 1
    /\ ans' = [h \in StartHeight .. upto + 1 |->
                 IF h <= upto THEN ans[h] ELSE next]

Truncate ==
  \E k \in StartHeight - 1 .. upto - 1 :
    /\ upto' = k
    /\ ans' = [h \in StartHeight .. k |-> ans[h]]

LedgerNext == Grow \/ Truncate

LedgerSpec == LedgerInit /\ [][LedgerNext]_ledgerVars
=============================================================================
