--------------------------- MODULE MCSyncPipeline ---------------------------
(* An instance of SyncPipeline for TLC: interchangeable calls of one        *)
(* content.                                                                *)
EXTENDS SyncPipeline, TLC

MCSameContent == [c \in Call |-> "content"]
MCSymmetry == Permutations(Call)
=============================================================================
