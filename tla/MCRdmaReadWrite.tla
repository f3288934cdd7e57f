---------------------------- MODULE MCRdmaReadWrite ----------------------------
(* TLC's instances of RdmaReadWrite.                                         *)
EXTENDS RdmaReadWrite
===============================================================================
