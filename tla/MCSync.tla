-------------------------------- MODULE MCSync --------------------------------
(* Instances of Sync for TLC.                                              *)
EXTENDS Sync

BranchTags == 0 .. MaxReorgs
=============================================================================
