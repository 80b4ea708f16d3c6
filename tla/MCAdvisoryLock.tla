--------------------------- MODULE MCAdvisoryLock ---------------------------
(* Contenders for one lock: the holder dies or outlives the bound, a       *)
(* waiter stats the file, and another breaks it and creates its own before *)
(* the first acts on what it saw.                                          *)
EXTENDS AdvisoryLock
=============================================================================
