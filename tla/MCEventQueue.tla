---------------------------- MODULE MCEventQueue ----------------------------
(* Small instances of EventQueue.                                          *)
EXTENDS EventQueue, TLC

(* Sound for the safety runs: processes and events are interchangeable in  *)
(* every formula they check.                                               *)
Symmetry == Permutations(Procs) \union Permutations(Events)
=============================================================================
