--------------------------- MODULE MCSyncManager ---------------------------
(* An instance of SyncManager for TLC: interchangeable syncs.              *)
EXTENDS SyncManager, TLC

MCSymmetry == Permutations(Sync)
=============================================================================
