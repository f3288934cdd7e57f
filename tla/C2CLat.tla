--------------------------------- MODULE C2CLat ---------------------------------
(*****************************************************************************)
(* c2c-lat/c2c-lat.cc: the main thread and a peer thread pinned to another   *)
(* cpu pass a shared word to and fro; then the main thread has to get the    *)
(* peer out of its loop, which waits for the word to change.                 *)
(*                                                                           *)
(* Every access to the shared word or to stop_token is a step; a weak        *)
(* compare-exchange that fails without reason leaves the state as it is.     *)
(*****************************************************************************)
EXTENDS Integers

CONSTANTS
  NCpus,        (* the cpus that are on line                                 *)
  Loops         (* _loops, one million in the code                           *)

VARIABLES
  src, peer,    (* the cpus main was given, peer = -1 for all the others     *)
  mpc,          (* where the main thread is                                  *)
  ppc,          (* where the peer thread is                                  *)
  target,       (* the cpu the peer thread is pinned to                      *)
  shared, stopToken, loop

vars == <<src, peer, mpc, ppc, target, shared, stopToken, loop>>

Cpu == 0..NCpus - 1

Init ==
  /\ src = 0 /\ peer = -1 /\ mpc = "args" /\ ppc = "off" /\ target = -1
  /\ shared = 0 /\ stopToken = 0 /\ loop = 0

(* The first cpu after c that is not the source, or NCpus.                   *)
NextTarget(c) ==
  IF c + 1 = src THEN c + 2 ELSE c + 1

(* main, with the cpus its arguments give: -1 for no --peer-cpu.             *)
main(s, p) ==
  /\ mpc = "args"
  /\ src' = s /\ peer' = p
  /\ IF (p # -1 /\ p \notin Cpu) \/ s \notin Cpu \/ s = p
     THEN mpc' = "exit 1"
     ELSE mpc' = "next"
  /\ UNCHANGED <<ppc, target, shared, stopToken, loop>>

(* test_latency on the next cpu: the word and the token are set before the   *)
(* peer starts.                                                              *)
test_latency ==
  /\ mpc = "next" /\ ppc = "off"
  /\ target' = IF peer # -1 THEN peer ELSE NextTarget(target)
  /\ IF target' \notin Cpu
     THEN mpc' = "exit 0" /\ UNCHANGED <<ppc, shared, stopToken, loop>>
     ELSE /\ mpc' = "wait" /\ ppc' = "test"
          /\ shared' = 0 /\ stopToken' = 0 /\ loop' = 0
  /\ UNCHANGED <<src, peer>>

-----------------------------------------------------------------------------
(* The peer thread                                                           *)

peer_tests ==
  /\ ppc = "test"
  /\ ppc' = IF stopToken = 0 THEN "store" ELSE "stop"
  /\ UNCHANGED <<src, peer, mpc, target, shared, stopToken, loop>>

peer_stores ==
  /\ ppc = "store" /\ ppc' = "cas"
  /\ shared' = 1
  /\ UNCHANGED <<src, peer, mpc, target, stopToken, loop>>

peer_exchanges ==
  /\ ppc = "cas" /\ shared = 0
  /\ shared' = 1 /\ ppc' = "test"
  /\ UNCHANGED <<src, peer, mpc, target, stopToken, loop>>

peer_stops ==
  /\ ppc = "stop" /\ ppc' = "ended"
  /\ stopToken' = 2
  /\ UNCHANGED <<src, peer, mpc, target, shared, loop>>

-----------------------------------------------------------------------------
(* The main thread                                                           *)

main_waits ==
  /\ mpc = "wait" /\ shared # 0
  /\ mpc' = "store"
  /\ UNCHANGED <<src, peer, ppc, target, shared, stopToken, loop>>

main_stores ==
  /\ mpc = "store" /\ mpc' = "cas"
  /\ shared' = 0
  /\ UNCHANGED <<src, peer, ppc, target, stopToken, loop>>

(* With --peer-cpu the loops are timed again and again.                      *)
main_exchanges ==
  /\ mpc = "cas" /\ shared = 1
  /\ shared' = 0
  /\ loop' = IF loop + 1 < Loops \/ peer # -1 THEN (loop + 1) % Loops
             ELSE Loops
  /\ mpc' = IF loop' = Loops THEN "stop" ELSE "store"
  /\ UNCHANGED <<src, peer, ppc, target, stopToken>>

main_stops ==
  /\ mpc = "stop" /\ mpc' = "stopping"
  /\ stopToken' = 1
  /\ UNCHANGED <<src, peer, ppc, target, shared, loop>>

(* Mutant of main_frees: the word is not set again for the waiting peer.     *)
main_frees_nobody ==
  /\ mpc = "stopping" /\ stopToken = 2
  /\ mpc' = "join"
  /\ UNCHANGED <<src, peer, ppc, target, shared, stopToken, loop>>

(* Until the peer says it has stopped the word is set for it once more.      *)
main_frees ==
  /\ mpc = "stopping"
  /\ IF stopToken # 2 THEN shared' = 0 /\ UNCHANGED mpc
                      ELSE mpc' = "join" /\ UNCHANGED shared
  /\ UNCHANGED <<src, peer, ppc, target, stopToken, loop>>

main_joins ==
  /\ mpc = "join" /\ ppc = "ended"
  /\ mpc' = "next" /\ ppc' = "off"
  /\ UNCHANGED <<src, peer, target, shared, stopToken, loop>>

peerThread == peer_tests \/ peer_stores \/ peer_exchanges \/ peer_stops
mainThread ==
  \/ test_latency \/ main_waits \/ main_stores \/ main_exchanges
  \/ main_stops \/ main_frees \/ main_joins

Next ==
  \/ \E s, p \in -1..NCpus : main(s, p)
  \/ peerThread \/ mainThread

(* Each thread has a cpu of its own; pinned to them they run on.             *)
Fairness == WF_vars(peerThread) /\ WF_vars(mainThread)

-----------------------------------------------------------------------------
(* Properties                                                                *)

(* Without --peer-cpu the program ends: it gets every peer out of its loop,  *)
(* wherever the peer was when the token was set, and joins it.               *)
EveryPeerIsJoined == (mpc # "args" /\ peer = -1) ~> mpc \in {"exit 0", "exit 1"}
=============================================================================
