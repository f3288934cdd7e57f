------------------------------- MODULE RdmaBasic -------------------------------
(*****************************************************************************)
(* rdma/01_basic-client-server: each client swaps one message with a server  *)
(* that serves any number of them, and disconnects after its two             *)
(* completions.                                                              *)
(*                                                                           *)
(* Every process has an event thread (main, one handler per event) and a     *)
(* completion poller that sleeps until its queue, armed by                   *)
(* ibv_req_notify_cq, raises an event.  The server's poller has no part in   *)
(* ending a connection: its event thread frees it on DISCONNECTED.           *)
(*                                                                           *)
(* The adapter and the connection manager are external: a send arrives once  *)
(* and is acknowledged; one that finds no receive posted fails               *)
(* (rnr_retry_count = 0); destroying a queue pair drops what it has          *)
(* outstanding, and its entries of the completion queue or not.              *)
(*****************************************************************************)
EXTENDS Integers, Sequences

CONSTANTS
  Clients,      (* the client processes                                      *)
  Server        (* the server process                                        *)

ASSUME ServerAssumption == Server \notin Clients

VARIABLES
  cm,           (* how far a client's connection is set up                   *)
  told,         (* the side's event thread has seen ESTABLISHED              *)
  posted,       (* receives posted, per side and client                      *)
  wire,         (* where the side's send is                                  *)
  cq,           (* the completion queue of a process                         *)
  armed,        (* ibv_req_notify_cq: the next completion raises an event    *)
  event,        (* completion events not yet taken                           *)
  poller,       (* where the poller of a process is                          *)
  wc,           (* the completion it has taken off the queue                 *)
  numCompletions, (* conn->num_completions of a client                       *)
  printed,      (* what a side printed as the peer's message                 *)
  discon,       (* the client has called rdma_disconnect                     *)
  gone,         (* the side has destroyed the connection                     *)
  died          (* the process has died                                      *)

conn == <<cm, told, posted, wire>>
queue == <<cq, armed, event>>
ends == <<discon, gone>>
vars == <<conn, queue, poller, wc, numCompletions, printed, ends, died>>

Procs == Clients \cup {Server}
Sides == {"client", "server"}
Peer(s) == IF s = "client" THEN "server" ELSE "client"
Proc(s, c) == IF s = "client" THEN c ELSE Server
SideOf(p) == IF p = Server THEN "server" ELSE "client"

Put(f, s, c, x) == [f EXCEPT ![s][c] = x]
PerSide(x) == [s \in Sides |-> [c \in Clients |-> x]]
NoWc == [op |-> "none"]

Init ==
  /\ cm = [c \in Clients |-> "start"]
  /\ told = PerSide(FALSE)
  /\ posted = PerSide(0)
  /\ wire = PerSide("none")
  /\ cq = [p \in Procs |-> <<>>]
  /\ armed = [p \in Procs |-> FALSE] /\ event = [p \in Procs |-> 0]
  /\ poller = [p \in Procs |-> "off"] /\ wc = [p \in Procs |-> NoWc]
  /\ numCompletions = [c \in Clients |-> 0]
  /\ printed = PerSide("nothing")
  /\ discon = [c \in Clients |-> FALSE] /\ gone = PerSide(FALSE)
  /\ died = [p \in Procs |-> FALSE]

-----------------------------------------------------------------------------
(* The event threads                                                         *)

(* The first connection of a process makes the queue, arms it and starts the *)
(* poller; the server's later ones share them.                               *)
build_context(p) ==
  IF poller[p] # "off" THEN UNCHANGED <<armed, poller>>
  ELSE /\ armed' = [armed EXCEPT ![p] = TRUE]
       /\ poller' = [poller EXCEPT ![p] = "wait"]

post_receives(s, c) == posted' = Put(posted, s, c, 1)

(* Address resolved: context, queue pair, buffers, the receive; then the     *)
(* route is resolved.                                                        *)
on_addr_resolved(c) ==
  /\ cm[c] = "start"
  /\ cm' = [cm EXCEPT ![c] = "resolved"]
  /\ build_context(c)
  /\ post_receives("client", c)
  /\ UNCHANGED <<told, wire, cq, event, wc, numCompletions, printed, ends,
                 died>>

on_route_resolved(c) ==
  /\ cm[c] = "resolved"
  /\ cm' = [cm EXCEPT ![c] = "requested"]
  /\ UNCHANGED <<told, posted, wire, queue, poller, wc, numCompletions, printed,
                 ends, died>>

(* Mutant: the receive is left for on_connection.                            *)
on_connect_request_unready(c) ==
  /\ cm[c] = "requested" /\ ~died[Server]
  /\ cm' = [cm EXCEPT ![c] = "accepted"]
  /\ build_context(Server)
  /\ UNCHANGED <<told, posted, wire, cq, event, wc, numCompletions, printed,
                 ends, died>>

(* The server prepares the same, receive included, and then accepts.         *)
on_connect_request(c) ==
  /\ cm[c] = "requested" /\ ~died[Server]
  /\ cm' = [cm EXCEPT ![c] = "accepted"]
  /\ build_context(Server)
  /\ post_receives("server", c)
  /\ UNCHANGED <<told, wire, cq, event, wc, numCompletions, printed, ends,
                 died>>

(* ESTABLISHED, on either side and in either order: post the send.           *)
on_connection(s, c) ==
  /\ cm[c] = "accepted" /\ ~told[s][c] /\ ~died[Proc(s, c)]
  /\ told' = Put(told, s, c, TRUE)
  /\ wire' = Put(wire, s, c, "sent")
  /\ UNCHANGED <<cm, posted, queue, poller, wc, numCompletions, printed, ends,
                 died>>

(* DISCONNECTED: the queue pair, the buffers and the connection are freed.   *)
(* What the queue still holds for the queue pair may be dropped with it.     *)
DropsOrKeeps(c) ==
  \/ UNCHANGED cq
  \/ LET q    == cq[Server]
         kept == {i \in DOMAIN q : q[i].conn # c}
     IN \E n \in 0..Len(q) : \E f \in [1..n -> kept] :
          /\ kept = {f[i] : i \in 1..n}
          /\ \A i, j \in 1..n : i < j => f[i] < f[j]
          /\ cq' = [cq EXCEPT ![Server] = [i \in 1..n |-> q[f[i]]]]

on_disconnect_server(c) ==
  /\ discon[c] /\ ~gone["server"][c] /\ ~died[Server]
  /\ gone' = Put(gone, "server", c, TRUE)
  /\ posted' = Put(posted, "server", c, 0)
  /\ wire' = Put(wire, "server", c, "none")
  /\ DropsOrKeeps(c)
  /\ UNCHANGED <<cm, told, armed, event, poller, wc, numCompletions, printed,
                 discon, died>>

(* The client's event loop ends with it, and the process.                    *)
on_disconnect_client(c) ==
  /\ discon[c] /\ ~gone["client"][c] /\ ~died[c]
  /\ gone' = Put(gone, "client", c, TRUE)
  /\ posted' = Put(posted, "client", c, 0)
  /\ wire' = Put(wire, "client", c, "none")
  /\ poller' = [poller EXCEPT ![c] = "off"]
  /\ wc' = [wc EXCEPT ![c] = NoWc]
  /\ cq' = [cq EXCEPT ![c] = <<>>] /\ event' = [event EXCEPT ![c] = 0]
  /\ armed' = [armed EXCEPT ![c] = FALSE]
  /\ UNCHANGED <<cm, told, numCompletions, printed, discon, died>>

-----------------------------------------------------------------------------
(* The completion pollers                                                    *)

Goto(p, from, to) ==
  poller[p] = from /\ ~died[p] /\ poller' = [poller EXCEPT ![p] = to]

(* Mutant: the queue is not armed again.                                     *)
get_cq_event_unarmed(p) ==
  /\ event[p] > 0
  /\ Goto(p, "wait", "drain")
  /\ event' = [event EXCEPT ![p] = @ - 1]
  /\ UNCHANGED <<conn, cq, armed, wc, numCompletions, printed, ends, died>>

(* ibv_get_cq_event sleeps until there is an event.  The queue is armed      *)
(* again before it is drained: what comes meanwhile raises another.          *)
get_cq_event(p) ==
  /\ event[p] > 0
  /\ Goto(p, "wait", "drain")
  /\ event' = [event EXCEPT ![p] = @ - 1]
  /\ armed' = [armed EXCEPT ![p] = TRUE]
  /\ UNCHANGED <<conn, cq, wc, numCompletions, printed, ends, died>>

(* status # IBV_WC_SUCCESS, the first thing on_completion looks at: die.     *)
BadStatus(p) == cq[p] # <<>> /\ Head(cq[p]).op = "error"

(* ibv_poll_cq takes one completion off the queue, or finds none.            *)
poll_cq(p) ==
  /\ IF cq[p] = <<>>
     THEN Goto(p, "drain", "wait") /\ UNCHANGED <<cq, wc>>
     ELSE /\ Goto(p, "drain", "handle")
          /\ wc' = [wc EXCEPT ![p] = Head(cq[p])]
          /\ cq' = [cq EXCEPT ![p] = Tail(@)]
  /\ died' = [died EXCEPT ![p] = BadStatus(p)]
  /\ UNCHANGED <<conn, armed, event, numCompletions, printed, ends>>

Prints(s, c, what) ==
  printed' = IF wc[Proc(s, c)].op = "recv" THEN Put(printed, s, c, what)
             ELSE printed

(* rdma_disconnect flushes what is outstanding as errors.                    *)
Outstanding(c) == posted["client"][c] > 0
                  \/ wire["client"][c] \in {"sent", "arrived"}

rdma_disconnect(c) ==
  /\ discon' = [discon EXCEPT ![c] = TRUE]
  /\ cq' = IF Outstanding(c)
           THEN [cq EXCEPT ![c] = Append(@, [op |-> "error", conn |-> c])]
           ELSE cq

(* Mutants: the first completion is taken for the last; a third is awaited.  *)
on_completion_client_first(c) ==
  /\ wc[c].op \in {"send", "recv"}
  /\ Goto(c, "handle", "drain")
  /\ Prints("client", c, "message")
  /\ numCompletions' = [numCompletions EXCEPT ![c] = @ + 1]
  /\ IF numCompletions[c] + 1 = 1 THEN rdma_disconnect(c)
     ELSE UNCHANGED <<discon, cq>>
  /\ wc' = [wc EXCEPT ![c] = NoWc]
  /\ UNCHANGED <<conn, armed, event, gone, died>>

on_completion_client_third(c) ==
  /\ wc[c].op \in {"send", "recv"}
  /\ Goto(c, "handle", "drain")
  /\ Prints("client", c, "message")
  /\ numCompletions' = [numCompletions EXCEPT ![c] = @ + 1]
  /\ IF numCompletions[c] + 1 = 3 THEN rdma_disconnect(c)
     ELSE UNCHANGED <<discon, cq>>
  /\ wc' = [wc EXCEPT ![c] = NoWc]
  /\ UNCHANGED <<conn, armed, event, gone, died>>

(* The client counts, and disconnects after the second.                      *)
on_completion_client(c) ==
  /\ wc[c].op \in {"send", "recv"}
  /\ Goto(c, "handle", "drain")
  /\ Prints("client", c, "message")
  /\ numCompletions' = [numCompletions EXCEPT ![c] = @ + 1]
  /\ IF numCompletions[c] + 1 = 2 THEN rdma_disconnect(c)
     ELSE UNCHANGED <<discon, cq>>
  /\ wc' = [wc EXCEPT ![c] = NoWc]
  /\ UNCHANGED <<conn, armed, event, gone, died>>

(* The server prints conn->recv_region.  A connection that the event thread  *)
(* has freed meanwhile holds anything: then it prints that, or crashes.      *)
on_completion_server ==
  LET c == wc[Server].conn IN
  /\ wc[Server].op \in {"send", "recv"}
  /\ Goto(Server, "handle", "drain")
  /\ Prints("server", c, IF gone["server"][c] THEN "freed" ELSE "message")
  /\ \E d \in BOOLEAN :
       /\ d => gone["server"][c] /\ wc[Server].op = "recv"
       /\ died' = [died EXCEPT ![Server] = d]
  /\ wc' = [wc EXCEPT ![Server] = NoWc]
  /\ UNCHANGED <<conn, queue, numCompletions, ends>>

-----------------------------------------------------------------------------
(* The adapters                                                              *)

(* A completion of connection c is put on the queue of p; an armed queue     *)
(* raises one event.                                                         *)
Completion(p, kind, c) ==
  /\ cq' = [cq EXCEPT ![p] = Append(@, [op |-> kind, conn |-> c])]
  /\ armed' = [armed EXCEPT ![p] = FALSE]
  /\ event' = [event EXCEPT ![p] = @ + (IF armed[p] THEN 1 ELSE 0)]

(* A send arrives and takes the peer's receive, or there is none to take.    *)
Arrives(s, c) ==
  LET r == Peer(s) IN
  /\ wire[s][c] = "sent" /\ ~discon[c]
  /\ IF posted[r][c] > 0
     THEN /\ wire' = Put(wire, s, c, "arrived")
          /\ posted' = Put(posted, r, c, 0)
          /\ Completion(Proc(r, c), "recv", c)
     ELSE /\ wire' = Put(wire, s, c, "acked")
          /\ Completion(Proc(s, c), "error", c)
          /\ UNCHANGED posted
  /\ UNCHANGED <<cm, told, poller, wc, numCompletions, printed, ends, died>>

(* Its acknowledgement comes back.                                           *)
Acked(s, c) ==
  /\ wire[s][c] = "arrived"
  /\ wire' = Put(wire, s, c, "acked")
  /\ Completion(Proc(s, c), "send", c)
  /\ UNCHANGED <<cm, told, posted, poller, wc, numCompletions, printed, ends,
                 died>>

-----------------------------------------------------------------------------
on_event(c) ==
  \/ on_addr_resolved(c) \/ on_route_resolved(c) \/ on_connect_request(c)
  \/ \E s \in Sides : on_connection(s, c)
  \/ on_disconnect_server(c) \/ on_disconnect_client(c)

Poller(p) ==
  \/ get_cq_event(p) \/ poll_cq(p)
  \/ p \in Clients /\ on_completion_client(p)
  \/ p = Server /\ on_completion_server

Next ==
  \/ \E c \in Clients : \/ on_event(c)
                        \/ \E s \in Sides : Arrives(s, c) \/ Acked(s, c)
  \/ \E p \in Procs : Poller(p)

(* No handler waits for another forever: as long as a thread or an adapter   *)
(* can take a step, one does.                                                *)
Fairness == WF_vars(Next)

Spec == Init /\ [][Next]_vars /\ Fairness

-----------------------------------------------------------------------------
(* Properties                                                                *)

(* An entry of a completion queue, and all that fits its type: no request of *)
(* this program ever completes with an error.                                *)
Completions == [op : {"send", "recv"}, conn : Clients]

TypeOK ==
  /\ cm \in [Clients -> {"start", "resolved", "requested", "accepted"}]
  /\ told \in [Sides -> [Clients -> BOOLEAN]]
  /\ posted \in [Sides -> [Clients -> {0, 1}]]
  /\ wire \in [Sides -> [Clients -> {"none", "sent", "arrived", "acked"}]]
  /\ cq \in [Procs -> Seq(Completions)]
  /\ armed \in [Procs -> BOOLEAN] /\ event \in [Procs -> Nat]
  /\ poller \in [Procs -> {"off", "wait", "drain", "handle"}]
  /\ wc \in [Procs -> Completions \cup {NoWc}]
  /\ numCompletions \in [Clients -> 0..2]
  /\ printed \in [Sides -> [Clients -> {"nothing", "message", "freed"}]]
  /\ discon \in [Clients -> BOOLEAN]
  /\ gone \in [Sides -> [Clients -> BOOLEAN]]
  /\ died \in [Procs -> BOOLEAN]

(* No send finds the peer without a receive, and no disconnect flushes a     *)
(* request: a process dies (die in on_completion) only where the server's    *)
(* poller reads a connection that its event thread has freed.  That is one   *)
(* whose client has the server's message and has disconnected.               *)
OnlyAFreedConnectionKills ==
  /\ \A p \in Procs : died[p] =>
       p = Server /\ \E c \in Clients : printed["server"][c] = "freed"
  /\ \A c \in Clients : printed["server"][c] = "freed" =>
       discon[c] /\ printed["client"][c] = "message"

(* A client that disconnects has printed the server's message, and its own   *)
(* has reached the server: printed, freed unread, or still with the poller.  *)
DisconnectsAfterTheSwap ==
  \A c \in Clients : discon[c] =>
    /\ printed["client"][c] = "message"
    /\ told["server"][c] /\ posted["server"][c] = 0
    /\ \/ printed["server"][c] # "nothing" \/ gone["server"][c]
       \/ [op |-> "recv", conn |-> c] \in
            {wc[Server]} \cup {cq[Server][i] : i \in DOMAIN cq[Server]}

(* No wake-up is lost between the pollers and their queues: while a poller   *)
(* sleeps on a queue that is not empty, an event is on its way.              *)
SleepsOnlyWhenDrained ==
  \A p \in Procs : poller[p] = "wait" /\ cq[p] # <<>> => event[p] > 0

(* Every client gets through its swap and ends, unless the server has died.  *)
EveryClientEnds ==
  <>(\A c \in Clients : gone["client"][c] \/ died[Server])
===============================================================================
