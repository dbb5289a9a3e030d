-------------------------- MODULE MCFilesystemStore --------------------------
(* Small instances of FilesystemStore for TLC. *)
EXTENDS FilesystemStore, TLC

CONSTANTS t1, t2, fs_store, persister, k1, k2, v1, v2, d1

OneDir == [k \in Keys |-> d1]

Symm == Permutations(Threads) \cup Permutations(Values)
=============================================================================
