----------------------------- MODULE MCDelivery -----------------------------
(* Small instances of Delivery.                                            *)
EXTENDS Delivery, TLC

(* Sound for the safety runs, which tell no two processes, records or URLs *)
(* apart.                                                                  *)
Symmetry == Permutations(Procs) \union Permutations(Events) \union Permutations(Dests)
=============================================================================
