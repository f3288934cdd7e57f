------------------------------ MODULE MCMCSLock ------------------------------
(* TLC's instance of MCSLock.                                                *)
EXTENDS MCSLock
===============================================================================
