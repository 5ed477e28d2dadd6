----------------------------- MODULE BitcoinNode -----------------------------
(***************************************************************************)
(* The Bitcoin node, as far as the indexer sees it through get_block_count,*)
(* get_block_hash and get_block (external: it is not part of the           *)
(* repository).  The best chain grows by a block, or is replaced above     *)
(* some height by a strictly longer branch.                                *)
(***************************************************************************)
EXTENDS UtxoStore

CONSTANTS
  FirstTip,      \* height of the best chain when the indexer first starts
  MaxReorgs,     \* reorganisations considered
  MaxReorgDepth  \* blocks that one reorganisation replaces, at most

ASSUME FirstTipAssumption == FirstTip \in Heights

ASSUME ReorgAssumption == /\ MaxReorgs \in Nat
                          /\ MaxReorgDepth \in Nat
                          /\ 0 .. MaxReorgs \subseteq Forks

VARIABLES
  chain,   \* height -> block of the best chain
  tip,     \* its height
  reorgs   \* reorganisations so far, the tag of the newest branch

nodeVars == <<chain, tip, reorgs>>

NodeTypeOK ==
  /\ chain \in [Heights -> Block \cup {NoBlock}]
  /\ tip \in Heights
  /\ reorgs \in 0 .. MaxReorgs

Genesis == [fork |-> 0, creates |-> {}, spends |-> {}]

(* A chain that the node accepts on top of the blocks up to k              *)
ValidAbove(log, k, top) ==
  \A h \in k + 1 .. top : /\ Extends(log[h], log, 0, h - 1)
                          /\ NoInBlockSpend(log[h])

(* The chains that keep the blocks of an old one up to k and go on to      *)
(* height top                                                              *)
Branches(old, k, top, fork) ==
  LET news == [k + 1 .. top -> {b \in Block : b.fork = fork}]
      join(new) == [h \in Heights |-> IF h <= k THEN old[h]
                                      ELSE IF h <= top THEN new[h]
                                      ELSE NoBlock]
  IN  {log \in {join(new) : new \in news} : ValidAbove(log, k, top)}

NodeInit ==
  /\ tip = FirstTip
  /\ LET genesis == [h \in Heights |-> IF h = 0 THEN Genesis ELSE NoBlock]
     IN  chain \in Branches(genesis, 0, FirstTip, 0)
  /\ reorgs = 0

(* The node keeps the blocks up to k and gets one block longer             *)
Advance(k) ==
  /\ tip < MaxHeight
  /\ reorgs' = IF k = tip THEN reorgs ELSE reorgs + 1
  /\ reorgs' <= MaxReorgs
  /\ tip - k <= MaxReorgDepth
  /\ chain' \in Branches(chain, k, tip + 1, reorgs')
  /\ tip' = tip + 1
=============================================================================
