------------------------------- MODULE MCPrograms -------------------------------
(* TLC's instance of Programs; its cfg has the bounds.                       *)
EXTENDS Programs
===============================================================================
