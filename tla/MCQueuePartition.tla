-------------------------- MODULE MCQueuePartition --------------------------
(* Small instances of QueuePartition.                                      *)
EXTENDS QueuePartition, TLC

(* Sound for the safety run: processes, tokens and URLs are interchangeable. *)
Symmetry == Permutations(Procs) \union Permutations(Tokens) \union Permutations(Urls)
=============================================================================
