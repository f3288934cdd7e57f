----------------------------- MODULE MCRdmaBasic -----------------------------
(* TLC's instance of RdmaBasic: two clients and the server.                  *)
EXTENDS RdmaBasic
===============================================================================
