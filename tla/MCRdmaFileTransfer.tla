-------------------------- MODULE MCRdmaFileTransfer --------------------------
(* TLC's instance of RdmaFileTransfer: two clients, with files of two chunks *)
(* and of none, which have names of their own or the same name.              *)
EXTENDS RdmaFileTransfer

CONSTANTS c1, c2, n1, n2

MCClients == {c1, c2}
MCChunks  == [c \in MCClients |-> IF c = c1 THEN 2 ELSE 0]
MCNamings == {[c \in MCClients |-> IF c = c1 THEN n1 ELSE n] : n \in {n1, n2}}
===============================================================================
