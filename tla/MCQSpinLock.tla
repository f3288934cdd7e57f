----------------------------- MODULE MCQSpinLock -----------------------------
(* TLC's instances of QSpinLock.  The threads are interchangeable: no action *)
(* compares or orders them.                                                  *)
EXTENDS QSpinLock, TLC

Symmetry == Permutations(Threads)
===============================================================================
