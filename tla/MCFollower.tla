------------------------------ MODULE MCFollower ------------------------------
(* Instances of Datasources for TLC.  The operations on UTXOs treat        *)
(* every output by itself, so one output meets every history of one, and   *)
(* two are enough for blocks that mix creations and spends.                *)
EXTENDS Datasources

OneBranch == {0}
=============================================================================
