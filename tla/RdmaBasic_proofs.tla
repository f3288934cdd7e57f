--------------------------- MODULE RdmaBasic_proofs ---------------------------
(*****************************************************************************)
(* The safety of the basic client and server, for any set of clients.        *)
(*                                                                           *)
(* The inductive invariant counts what the client of a connection has        *)
(* handled, has queued and is handling against what has happened on the      *)
(* wire; so its second completion is the last there will be, and comes when  *)
(* nothing is outstanding.  A poller that sleeps has an armed queue.         *)
(*****************************************************************************)
EXTENDS RdmaBasic, SequenceTheorems, TLAPS

Received == {"arrived", "acked"}
One(b)   == IF b THEN 1 ELSE 0

(* The poller of p has still to handle the peer's message on connection c.   *)
Pending(p, c) ==
  [op |-> "recv", conn |-> c] \in {wc[p]} \cup {cq[p][i] : i \in DOMAIN cq[p]}

(* A poller that is on has an armed queue or an event to wake it; it sleeps  *)
(* on a queue that holds something only with the event.                      *)
Wakes(p) ==
  /\ poller[p] = "off" => cq[p] = <<>>
  /\ poller[p] # "off" => armed[p] \/ event[p] > 0
  /\ poller[p] = "wait" /\ cq[p] # <<>> => event[p] > 0
  /\ poller[p] = "handle" <=> wc[p] # NoWc

PollersOn(c) ==
  /\ cm[c] = "accepted" => poller[Server] # "off"
  /\ ~gone["client"][c] => (cm[c] = "start" <=> poller[c] = "off")

(* Until the client disconnects: a receive is posted until the peer's send   *)
(* has arrived, and each completion of the client is counted, queued or      *)
(* being handled.                                                            *)
Swapping(c) ==
  /\ ~discon[c] /\ ~gone["client"][c] /\ ~gone["server"][c]
  /\ \A s \in Sides : /\ told[s][c] => cm[c] = "accepted"
                      /\ told[s][c] <=> wire[s][c] # "none"
  /\ posted["client"][c] =
       One(cm[c] # "start" /\ wire["server"][c] \notin Received)
  /\ posted["server"][c] =
       One(cm[c] = "accepted" /\ wire["client"][c] \notin Received)
  /\ numCompletions[c] < 2
  /\ numCompletions[c] + Len(cq[c]) + One(wc[c] # NoWc)
       = One(wire["server"][c] \in Received) + One(wire["client"][c] = "acked")
  /\ wire["server"][c] \in Received =>
       printed["client"][c] = "message" \/ Pending(c, c)

(* From then on nothing comes for the client.                                *)
Swapped(c) ==
  /\ discon[c] /\ cm[c] = "accepted"
  /\ told["server"][c] /\ told["client"][c]
  /\ \A s \in Sides : posted[s][c] = 0
  /\ wire["client"][c] \in {"acked", "none"}
  /\ wire["server"][c] \in Received \cup {"none"}
  /\ \A s \in Sides : gone[s][c] => wire[s][c] = "none"
  /\ printed["client"][c] = "message"
  /\ cq[c] = <<>> /\ wc[c] = NoWc

(* A message that has taken the server's receive is not lost.                *)
NotLost(c) ==
  cm[c] = "accepted" /\ posted["server"][c] = 0 =>
    printed["server"][c] # "nothing" \/ gone["server"][c] \/ Pending(Server, c)

Conn(c) == (Swapping(c) \/ Swapped(c)) /\ PollersOn(c) /\ NotLost(c)

FreedIsGone ==
  \A c \in Clients : printed["server"][c] = "freed" => gone["server"][c]

DeathsAreFreed ==
  \A p \in Procs : died[p] =>
    p = Server /\ \E c \in Clients : printed["server"][c] = "freed"

IInv ==
  /\ TypeOK /\ FreedIsGone /\ DeathsAreFreed
  /\ \A p \in Procs : Wakes(p)
  /\ \A c \in Clients : Conn(c)

-----------------------------------------------------------------------------
(* What a change of one side of one connection does.                         *)
LEMMA PutType ==
  ASSUME NEW V, NEW f \in [Sides -> [Clients -> V]],
         NEW s \in Sides, NEW c \in Clients, NEW x \in V
  PROVE  Put(f, s, c, x) \in [Sides -> [Clients -> V]]
<1> DEFINE g == [f[s] EXCEPT ![c] = x]
<1>1. g \in [Clients -> V]
  OBVIOUS
<1>2. Put(f, s, c, x) = [f EXCEPT ![s] = g]
  BY DEF Put
<1> HIDE DEF g
<1>3. QED
  BY <1>1, <1>2

LEMMA PutValue ==
  ASSUME NEW f, DOMAIN f = Sides, \A s \in Sides : DOMAIN f[s] = Clients,
         NEW s \in Sides, NEW c \in Clients, NEW x
  PROVE  /\ Put(f, s, c, x)[s][c] = x
         /\ \A r \in Sides, d \in Clients :
              r # s \/ d # c => Put(f, s, c, x)[r][d] = f[r][d]
<1> DEFINE g == [f[s] EXCEPT ![c] = x]
<1>1. g[c] = x /\ \A d \in Clients : d # c => g[d] = f[s][d]
  OBVIOUS
<1>2. Put(f, s, c, x) = [f EXCEPT ![s] = g]
  BY DEF Put
<1> HIDE DEF g
<1>3. /\ Put(f, s, c, x)[s] = g
      /\ \A r \in Sides : r # s => Put(f, s, c, x)[r] = f[r]
  BY <1>2
<1>4. QED
  BY <1>1, <1>3

LEMMA PutTold ==
  ASSUME TypeOK, NEW s \in Sides, NEW c \in Clients,
         NEW x \in BOOLEAN,
         told' = Put(told, s, c, x)
  PROVE  /\ told' \in [Sides -> [Clients -> BOOLEAN]]
         /\ told'[s][c] = x
         /\ \A r \in Sides, d \in Clients :
              r # s \/ d # c => told'[r][d] = told[r][d]
<1> DEFINE V == BOOLEAN
<1>1. told \in [Sides -> [Clients -> V]] /\ x \in V
  BY DEF TypeOK
<1>2. DOMAIN told = Sides /\ \A r \in Sides : DOMAIN told[r] = Clients
  BY <1>1
<1> HIDE DEF V
<1>3. Put(told, s, c, x) \in [Sides -> [Clients -> V]]
  BY <1>1, PutType
<1>4. /\ Put(told, s, c, x)[s][c] = x
      /\ \A r \in Sides, d \in Clients :
           r # s \/ d # c => Put(told, s, c, x)[r][d] = told[r][d]
  BY <1>2, PutValue
<1>5. QED
  BY <1>3, <1>4 DEF V

LEMMA PutPosted ==
  ASSUME TypeOK, NEW s \in Sides, NEW c \in Clients,
         NEW x \in {0, 1},
         posted' = Put(posted, s, c, x)
  PROVE  /\ posted' \in [Sides -> [Clients -> {0, 1}]]
         /\ posted'[s][c] = x
         /\ \A r \in Sides, d \in Clients :
              r # s \/ d # c => posted'[r][d] = posted[r][d]
<1> DEFINE V == {0, 1}
<1>1. posted \in [Sides -> [Clients -> V]] /\ x \in V
  BY DEF TypeOK
<1>2. DOMAIN posted = Sides /\ \A r \in Sides : DOMAIN posted[r] = Clients
  BY <1>1
<1> HIDE DEF V
<1>3. Put(posted, s, c, x) \in [Sides -> [Clients -> V]]
  BY <1>1, PutType
<1>4. /\ Put(posted, s, c, x)[s][c] = x
      /\ \A r \in Sides, d \in Clients :
           r # s \/ d # c => Put(posted, s, c, x)[r][d] = posted[r][d]
  BY <1>2, PutValue
<1>5. QED
  BY <1>3, <1>4 DEF V

LEMMA PutWire ==
  ASSUME TypeOK, NEW s \in Sides, NEW c \in Clients,
         NEW x \in {"none", "sent", "arrived", "acked"},
         wire' = Put(wire, s, c, x)
  PROVE  /\ wire' \in
              [Sides -> [Clients -> {"none", "sent", "arrived", "acked"}]]
         /\ wire'[s][c] = x
         /\ \A r \in Sides, d \in Clients :
              r # s \/ d # c => wire'[r][d] = wire[r][d]
<1> DEFINE V == {"none", "sent", "arrived", "acked"}
<1>1. wire \in [Sides -> [Clients -> V]] /\ x \in V
  BY DEF TypeOK
<1>2. DOMAIN wire = Sides /\ \A r \in Sides : DOMAIN wire[r] = Clients
  BY <1>1
<1> HIDE DEF V
<1>3. Put(wire, s, c, x) \in [Sides -> [Clients -> V]]
  BY <1>1, PutType
<1>4. /\ Put(wire, s, c, x)[s][c] = x
      /\ \A r \in Sides, d \in Clients :
           r # s \/ d # c => Put(wire, s, c, x)[r][d] = wire[r][d]
  BY <1>2, PutValue
<1>5. QED
  BY <1>3, <1>4 DEF V

LEMMA PutPrinted ==
  ASSUME TypeOK, NEW s \in Sides, NEW c \in Clients,
         NEW x \in {"nothing", "message", "freed"},
         printed' = Put(printed, s, c, x)
  PROVE  /\ printed' \in [Sides -> [Clients -> {"nothing", "message", "freed"}]]
         /\ printed'[s][c] = x
         /\ \A r \in Sides, d \in Clients :
              r # s \/ d # c => printed'[r][d] = printed[r][d]
<1> DEFINE V == {"nothing", "message", "freed"}
<1>1. printed \in [Sides -> [Clients -> V]] /\ x \in V
  BY DEF TypeOK
<1>2. DOMAIN printed = Sides /\ \A r \in Sides : DOMAIN printed[r] = Clients
  BY <1>1
<1> HIDE DEF V
<1>3. Put(printed, s, c, x) \in [Sides -> [Clients -> V]]
  BY <1>1, PutType
<1>4. /\ Put(printed, s, c, x)[s][c] = x
      /\ \A r \in Sides, d \in Clients :
           r # s \/ d # c => Put(printed, s, c, x)[r][d] = printed[r][d]
  BY <1>2, PutValue
<1>5. QED
  BY <1>3, <1>4 DEF V

LEMMA PutGone ==
  ASSUME TypeOK, NEW s \in Sides, NEW c \in Clients,
         NEW x \in BOOLEAN,
         gone' = Put(gone, s, c, x)
  PROVE  /\ gone' \in [Sides -> [Clients -> BOOLEAN]]
         /\ gone'[s][c] = x
         /\ \A r \in Sides, d \in Clients :
              r # s \/ d # c => gone'[r][d] = gone[r][d]
<1> DEFINE V == BOOLEAN
<1>1. gone \in [Sides -> [Clients -> V]] /\ x \in V
  BY DEF TypeOK
<1>2. DOMAIN gone = Sides /\ \A r \in Sides : DOMAIN gone[r] = Clients
  BY <1>1
<1> HIDE DEF V
<1>3. Put(gone, s, c, x) \in [Sides -> [Clients -> V]]
  BY <1>1, PutType
<1>4. /\ Put(gone, s, c, x)[s][c] = x
      /\ \A r \in Sides, d \in Clients :
           r # s \/ d # c => Put(gone, s, c, x)[r][d] = gone[r][d]
  BY <1>2, PutValue
<1>5. QED
  BY <1>3, <1>4 DEF V

-----------------------------------------------------------------------------
(* A step leaves a connection as it was when it changes nothing of it.       *)

SameAt(d) ==
  /\ cm'[d] = cm[d] /\ discon'[d] = discon[d]
  /\ numCompletions'[d] = numCompletions[d]
  /\ \A s \in Sides : /\ told'[s][d] = told[s][d] /\ gone'[s][d] = gone[s][d]
                      /\ posted'[s][d] = posted[s][d]
                      /\ wire'[s][d] = wire[s][d]
                      /\ printed'[s][d] = printed[s][d]
  /\ cq'[d] = cq[d] /\ wc'[d] = wc[d]
  /\ poller'[d] = "off" <=> poller[d] = "off"
  /\ poller[Server] # "off" => poller'[Server] # "off"
  /\ Pending(Server, d) => Pending(Server, d)'

LEMMA ConnFrame ==
  ASSUME NEW d \in Clients, Conn(d), SameAt(d)
  PROVE  Conn(d)'
<1>1. Pending(d, d) <=> Pending(d, d)'
  BY DEF Pending, SameAt
<1>2. Swapping(d) => Swapping(d)'
  BY <1>1 DEF Swapping, SameAt, Sides
<1>3. Swapped(d) => Swapped(d)'
  BY DEF Swapped, SameAt, Sides
<1>4. PollersOn(d)' /\ NotLost(d)'
  BY DEF Conn, PollersOn, NotLost, SameAt, Sides
<1>5. QED
  BY <1>2, <1>3, <1>4 DEF Conn

(* The steps in which the server prints nothing.                             *)
LEMMA OneConnection ==
  ASSUME IInv, NEW c \in Clients, TypeOK', Conn(c)',
         \A p \in Procs : Wakes(p)',
         \A d \in Clients \ {c} : SameAt(d),
         printed'["server"][c] = printed["server"][c],
         gone["server"][c] => gone'["server"][c],
         died' = died
  PROVE  IInv'
<1>1. \A d \in Clients \ {c} : Conn(d)'
  BY ConnFrame DEF IInv
<1>2. \A d \in Clients : printed'["server"][d] = printed["server"][d]
  BY DEF SameAt, Sides
<1>3. FreedIsGone'
  <2>1. \A d \in Clients : gone["server"][d] => gone'["server"][d]
    BY DEF SameAt, Sides
  <2>2. FreedIsGone
    BY DEF IInv
  <2>3. QED
    BY <1>2, <2>1, <2>2, Zenon DEF FreedIsGone
<1>4. DeathsAreFreed'
  <2>1. \A d \in Clients : printed'["server"][d] = printed["server"][d]
    BY <1>2
  <2>2. DeathsAreFreed
    BY DEF IInv
  <2>3. QED
    BY <2>1, <2>2 DEF DeathsAreFreed
<1>5. Conn(c)' /\ \A d \in Clients : Conn(d)'
  BY <1>1
<1>6. QED
  BY <1>3, <1>4, <1>5 DEF IInv

LEMMA ProcsFacts ==
  /\ Server \in Procs /\ Clients \subseteq Procs
  /\ \A c \in Clients : c # Server
  /\ "client" \in Sides /\ "server" \in Sides
  /\ Peer("client") = "server" /\ Peer("server") = "client"
  /\ \A c \in Clients : /\ Proc("client", c) = c
                        /\ Proc("server", c) = Server
BY ServerAssumption DEF Procs, Sides, Peer, Proc

-----------------------------------------------------------------------------
(* Connection set-up                                                         *)

LEMMA AddrResolvedStep ==
  ASSUME IInv, NEW c \in Clients, on_addr_resolved(c)
  PROVE  IInv'
<1> USE DEF on_addr_resolved
<1>1. TypeOK /\ Conn(c) /\ Wakes(c) /\ Swapping(c) /\ poller[c] = "off"
  BY ProcsFacts DEF IInv, Conn, Swapped, Swapping, PollersOn
<1>2. /\ cm' = [cm EXCEPT ![c] = "resolved"]
      /\ armed' = [armed EXCEPT ![c] = TRUE]
      /\ poller' = [poller EXCEPT ![c] = "wait"]
      /\ posted' = [posted EXCEPT !["client"][c] = 1]
      /\ UNCHANGED <<told, wire, cq, event, wc, numCompletions, printed,
                     discon, gone, died>>
  BY <1>1 DEF build_context, post_receives, Put, ends
<1>3. TypeOK'
  BY <1>1, <1>2, ProcsFacts DEF TypeOK
<1>4. \A p \in Procs : Wakes(p)'
  BY <1>1, <1>2, ProcsFacts DEF IInv, Wakes, TypeOK
<1>5. Conn(c)'
  <2>1. wire["server"][c] = "none" /\ wire["client"][c] = "none"
    BY <1>1, ProcsFacts DEF Swapping
  <2>2. \A s \in Sides : ~told[s][c]
    BY <1>1 DEF Swapping
  <2>3. /\ cm'[c] = "resolved" /\ posted'["client"][c] = 1
        /\ posted'["server"][c] = posted["server"][c]
        /\ poller'[c] = "wait"
    BY <1>1, <1>2, ProcsFacts DEF TypeOK
  <2>4. Swapping(c)'
    BY <1>1, <1>2, <2>1, <2>2, <2>3 DEF Swapping, One, Received
  <2>5. PollersOn(c)' /\ NotLost(c)'
    BY <2>3 DEF PollersOn, NotLost
  <2>6. QED
    BY <2>4, <2>5 DEF Conn
<1>6. \A d \in Clients \ {c} : SameAt(d)
  BY <1>1, <1>2, ProcsFacts DEF SameAt, TypeOK, Pending, Sides
<1>7. QED
  BY <1>2, <1>3, <1>4, <1>5, <1>6, OneConnection

LEMMA RouteResolvedStep ==
  ASSUME IInv, NEW c \in Clients, on_route_resolved(c)
  PROVE  IInv'
<1> USE DEF on_route_resolved, conn, queue, ends
<1>1. TypeOK /\ Conn(c) /\ Swapping(c)
  BY DEF IInv, Conn, Swapped
<1>2. TypeOK'
  BY <1>1 DEF TypeOK
<1>3. \A p \in Procs : Wakes(p)'
  BY DEF IInv, Wakes
<1>4. cm'[c] = "requested"
  BY <1>1 DEF TypeOK
<1>5. Swapping(c)'
  BY <1>1, <1>4 DEF Swapping, Pending
<1>6. PollersOn(c)' /\ NotLost(c)'
  BY <1>1, <1>4 DEF Conn, PollersOn, NotLost
<1>7. \A d \in Clients \ {c} : SameAt(d)
  BY <1>1 DEF SameAt, TypeOK, Pending
<1>8. QED
  BY <1>2, <1>3, <1>5, <1>6, <1>7, OneConnection DEF Conn

LEMMA ConnectRequestStep ==
  ASSUME IInv, NEW c \in Clients, on_connect_request(c)
  PROVE  IInv'
<1> USE DEF on_connect_request
<1>1. TypeOK /\ Conn(c) /\ Swapping(c) /\ Wakes(Server)
  BY ProcsFacts DEF IInv, Conn, Swapped
<1>2. /\ cm' = [cm EXCEPT ![c] = "accepted"]
      /\ \/ poller[Server] # "off" /\ UNCHANGED <<armed, poller>>
         \/ /\ poller[Server] = "off"
            /\ armed' = [armed EXCEPT ![Server] = TRUE]
            /\ poller' = [poller EXCEPT ![Server] = "wait"]
      /\ posted' = [posted EXCEPT !["server"][c] = 1]
      /\ UNCHANGED <<told, wire, cq, event, wc, numCompletions, printed,
                     discon, gone, died>>
  BY DEF build_context, post_receives, Put, ends
<1>3. TypeOK'
  <2>1. armed' \in [Procs -> BOOLEAN]
        /\ poller' \in [Procs -> {"off", "wait", "drain", "handle"}]
    BY <1>1, <1>2, ProcsFacts DEF TypeOK
  <2>2. QED
    BY <1>1, <1>2, <2>1, ProcsFacts DEF TypeOK
<1>4. \A p \in Procs : Wakes(p)'
  BY <1>1, <1>2, ProcsFacts DEF IInv, Wakes, TypeOK
<1>5. poller'[Server] # "off" /\ \A d \in Clients : poller'[d] = poller[d]
  BY <1>1, <1>2, ProcsFacts DEF TypeOK
<1>6. Conn(c)'
  <2>1. \A s \in Sides : ~told[s][c] /\ wire[s][c] = "none"
    BY <1>1 DEF Swapping, on_connect_request
  <2>2. /\ cm'[c] = "accepted" /\ posted'["server"][c] = 1
        /\ posted'["client"][c] = posted["client"][c]
    BY <1>1, <1>2, ProcsFacts DEF TypeOK
  <2>3. Swapping(c)'
    BY <1>1, <1>2, <2>1, <2>2, ProcsFacts DEF Swapping, One, Received
  <2>4. PollersOn(c)' /\ NotLost(c)'
    BY <1>1, <1>2, <1>5, <2>2 DEF Conn, PollersOn, NotLost
  <2>5. QED
    BY <2>3, <2>4 DEF Conn
<1>7. \A d \in Clients \ {c} : SameAt(d)
  BY <1>1, <1>2, <1>5, ProcsFacts DEF SameAt, TypeOK, Pending, Sides
<1>8. QED
  BY <1>2, <1>3, <1>4, <1>6, <1>7, OneConnection

(* ESTABLISHED on one side; its send goes out.                               *)
LEMMA ConnectionStep ==
  ASSUME IInv, NEW c \in Clients, NEW s \in Sides, on_connection(s, c)
  PROVE  IInv'
<1> USE DEF on_connection, queue, ends
<1>1. TypeOK /\ Conn(c) /\ Swapping(c) /\ wire[s][c] = "none"
  BY ProcsFacts DEF IInv, Conn, Swapped, Swapping, Sides
<1>2. told' = Put(told, s, c, TRUE) /\ wire' = Put(wire, s, c, "sent")
  OBVIOUS
<1>3. /\ told' \in [Sides -> [Clients -> BOOLEAN]]
      /\ told'[s][c]
      /\ \A r \in Sides, d \in Clients :
           r # s \/ d # c => told'[r][d] = told[r][d]
  BY <1>1, <1>2, PutTold
<1>4. /\ wire' \in [Sides -> [Clients -> {"none", "sent", "arrived", "acked"}]]
      /\ wire'[s][c] = "sent"
      /\ \A r \in Sides, d \in Clients :
           r # s \/ d # c => wire'[r][d] = wire[r][d]
  BY <1>1, <1>2, PutWire
<1>5. TypeOK' /\ \A p \in Procs : Wakes(p)'
  <2>1. TypeOK'
    BY <1>1, <1>3, <1>4 DEF TypeOK
  <2>2. \A p \in Procs : Wakes(p)'
    BY DEF IInv, Wakes
  <2>3. QED
    BY <2>1, <2>2
<1>6. Swapping(c)'
  <2>1. \A r \in Sides :
          /\ wire'[r][c] \in Received <=> wire[r][c] \in Received
          /\ wire'[r][c] = "acked" <=> wire[r][c] = "acked"
          /\ told'[r][c] <=> wire'[r][c] # "none"
    <3>1. \A r \in Sides : told[r][c] <=> wire[r][c] # "none"
      BY <1>1 DEF Swapping
    <3>2. TAKE r \in Sides
    <3>3. CASE r = s
      BY <1>1, <1>3, <1>4, <3>3 DEF Received
    <3>4. CASE r # s
      BY <1>3, <1>4, <3>1, <3>4
    <3>5. QED
      BY <3>3, <3>4
  <2>2. cm'[c] = "accepted" /\ cm' = cm
    OBVIOUS
  <2>3. /\ wire'["server"][c] \in Received <=> wire["server"][c] \in Received
        /\ wire'["client"][c] \in Received <=> wire["client"][c] \in Received
        /\ wire'["client"][c] = "acked" <=> wire["client"][c] = "acked"
    BY <2>1, ProcsFacts
  <2>4. QED
    BY <1>1, <2>1, <2>2, <2>3 DEF Swapping, Pending, One
<1>7. PollersOn(c)' /\ NotLost(c)'
  BY <1>1 DEF Conn, PollersOn, NotLost, Pending
<1>8. \A d \in Clients \ {c} : SameAt(d)
  BY <1>3, <1>4 DEF SameAt, Pending
<1>9. QED
  BY <1>5, <1>6, <1>7, <1>8, OneConnection DEF Conn

-----------------------------------------------------------------------------
(* The end of a connection                                                   *)

LEMMA DropsFacts ==
  ASSUME TypeOK, NEW c \in Clients, DropsOrKeeps(c)
  PROVE  /\ cq' \in [Procs -> Seq(Completions)]
         /\ \A d \in Clients : cq'[d] = cq[d]
         /\ cq[Server] = <<>> => cq'[Server] = <<>>
         /\ \A i \in DOMAIN cq[Server] : cq[Server][i].conn # c =>
              \E j \in DOMAIN cq'[Server] : cq'[Server][j] = cq[Server][i]
<1>1. CASE UNCHANGED cq
  BY <1>1 DEF TypeOK
<1>2. CASE ~UNCHANGED cq
  <2> DEFINE q    == cq[Server]
             kept == {i \in DOMAIN q : q[i].conn # c}
  <2>1. PICK n \in 0..Len(q) : \E f \in [1..n -> kept] :
          /\ kept = {f[i] : i \in 1..n}
          /\ cq' = [cq EXCEPT ![Server] = [i \in 1..n |-> q[f[i]]]]
    BY <1>2 DEF DropsOrKeeps
  <2>2. PICK f \in [1..n -> kept] :
          /\ kept = {f[i] : i \in 1..n}
          /\ cq' = [cq EXCEPT ![Server] = [i \in 1..n |-> q[f[i]]]]
    BY <2>1
  <2> DEFINE r == [i \in 1..n |-> q[f[i]]]
  <2>3. q \in Seq(Completions) /\ Len(q) \in Nat /\ n \in Nat
    BY ProcsFacts DEF TypeOK
  <2>4. \A i \in 1..n : f[i] \in kept /\ q[f[i]] \in Completions
    BY <2>3, ElementOfSeq
  <2>5. r \in Seq(Completions) /\ Len(r) = n
    BY <2>3, <2>4
  <2>6. q = <<>> => r = <<>>
    <3>1. q = <<>> => n = 0
      BY <2>3
    <3>2. n = 0 => r = <<>>
      BY <2>5
    <3>3. QED
      BY <3>1, <3>2
  <2>7. \A i \in kept : \E j \in DOMAIN r : r[j] = q[i]
    BY <2>2
  <2> HIDE DEF r
  <2>8. /\ cq' = [cq EXCEPT ![Server] = r]
        /\ cq'[Server] = r /\ \A d \in Clients : cq'[d] = cq[d]
    BY <2>2, ProcsFacts DEF TypeOK, r
  <2>9. QED
    BY <2>5, <2>6, <2>7, <2>8, ProcsFacts DEF TypeOK
<1>3. QED
  BY <1>1, <1>2

LEMMA DisconnectServerStep ==
  ASSUME IInv, NEW c \in Clients, on_disconnect_server(c)
  PROVE  IInv'
<1>1. TypeOK /\ Conn(c) /\ Swapped(c)
  BY DEF IInv, Conn, Swapping, on_disconnect_server
<1>2. /\ gone' \in [Sides -> [Clients -> BOOLEAN]]
      /\ gone'["server"][c]
      /\ \A r \in Sides, d \in Clients :
           r # "server" \/ d # c => gone'[r][d] = gone[r][d]
  BY <1>1, PutGone, ProcsFacts DEF on_disconnect_server
<1>3. /\ posted' \in [Sides -> [Clients -> {0, 1}]]
      /\ posted'["server"][c] = 0
      /\ \A r \in Sides, d \in Clients :
           r # "server" \/ d # c => posted'[r][d] = posted[r][d]
  BY <1>1, PutPosted, ProcsFacts DEF on_disconnect_server
<1>4. /\ wire' \in [Sides -> [Clients -> {"none", "sent", "arrived", "acked"}]]
      /\ wire'["server"][c] = "none"
      /\ \A r \in Sides, d \in Clients :
           r # "server" \/ d # c => wire'[r][d] = wire[r][d]
  BY <1>1, PutWire, ProcsFacts DEF on_disconnect_server
<1>5. /\ cq' \in [Procs -> Seq(Completions)]
      /\ \A d \in Clients : cq'[d] = cq[d]
      /\ cq[Server] = <<>> => cq'[Server] = <<>>
      /\ \A i \in DOMAIN cq[Server] : cq[Server][i].conn # c =>
           \E j \in DOMAIN cq'[Server] : cq'[Server][j] = cq[Server][i]
  BY <1>1, DropsFacts DEF on_disconnect_server
<1>6. UNCHANGED <<cm, told, armed, event, poller, wc, numCompletions, printed,
                  discon, died>>
  BY DEF on_disconnect_server
<1>7. TypeOK'
  BY <1>1, <1>2, <1>3, <1>4, <1>5, <1>6 DEF TypeOK
<1>8. \A p \in Procs : Wakes(p)'
  BY <1>5, <1>6 DEF IInv, Wakes, Procs
<1>9. Conn(c)'
  <2>1. Swapped(c)'
    BY <1>1, <1>2, <1>3, <1>4, <1>5, <1>6, ProcsFacts DEF Swapped, Sides,
       Received
  <2>2. PollersOn(c)' /\ NotLost(c)'
    BY <1>1, <1>2, <1>6, ProcsFacts DEF Conn, PollersOn, NotLost, Sides
  <2>3. QED
    BY <2>1, <2>2 DEF Conn
<1>10. \A d \in Clients \ {c} : SameAt(d)
  <2>1. \A d \in Clients \ {c} : Pending(Server, d) => Pending(Server, d)'
    BY <1>5, <1>6 DEF Pending
  <2>2. QED
    BY <1>2, <1>3, <1>4, <1>5, <1>6, <2>1, ProcsFacts DEF SameAt
<1>11. QED
  BY <1>2, <1>6, <1>7, <1>8, <1>9, <1>10, OneConnection

LEMMA DisconnectClientStep ==
  ASSUME IInv, NEW c \in Clients, on_disconnect_client(c)
  PROVE  IInv'
<1>1. TypeOK /\ Conn(c) /\ Swapped(c)
  BY DEF IInv, Conn, Swapping, on_disconnect_client
<1>2. /\ gone' \in [Sides -> [Clients -> BOOLEAN]]
      /\ gone'["client"][c]
      /\ \A r \in Sides, d \in Clients :
           r # "client" \/ d # c => gone'[r][d] = gone[r][d]
  BY <1>1, PutGone, ProcsFacts DEF on_disconnect_client
<1>3. /\ posted' \in [Sides -> [Clients -> {0, 1}]]
      /\ posted'["client"][c] = 0
      /\ \A r \in Sides, d \in Clients :
           r # "client" \/ d # c => posted'[r][d] = posted[r][d]
  BY <1>1, PutPosted, ProcsFacts DEF on_disconnect_client
<1>4. /\ wire' \in [Sides -> [Clients -> {"none", "sent", "arrived", "acked"}]]
      /\ wire'["client"][c] = "none"
      /\ \A r \in Sides, d \in Clients :
           r # "client" \/ d # c => wire'[r][d] = wire[r][d]
  BY <1>1, PutWire, ProcsFacts DEF on_disconnect_client
<1>5. /\ poller' = [poller EXCEPT ![c] = "off"]
      /\ wc' = [wc EXCEPT ![c] = NoWc]
      /\ cq' = [cq EXCEPT ![c] = <<>>] /\ event' = [event EXCEPT ![c] = 0]
      /\ armed' = [armed EXCEPT ![c] = FALSE]
      /\ UNCHANGED <<cm, told, numCompletions, printed, discon, died>>
  BY DEF on_disconnect_client
<1>6. TypeOK'
  <2>1. <<>> \in Seq(Completions)
    OBVIOUS
  <2>2. QED
    BY <1>1, <1>2, <1>3, <1>4, <1>5, <2>1, ProcsFacts DEF TypeOK
<1>7. \A p \in Procs : Wakes(p)'
  BY <1>1, <1>5, ProcsFacts DEF IInv, Wakes, TypeOK
<1>8. Conn(c)'
  <2>1. Swapped(c)'
    BY <1>1, <1>2, <1>3, <1>4, <1>5, ProcsFacts DEF Swapped, Sides,
       Received, TypeOK
  <2>2. PollersOn(c)'
    BY <1>1, <1>2, <1>5, ProcsFacts DEF Conn, PollersOn, TypeOK
  <2>3. /\ gone'["server"][c] = gone["server"][c]
        /\ posted'["server"][c] = posted["server"][c]
        /\ wc'[Server] = wc[Server] /\ cq'[Server] = cq[Server]
    BY <1>1, <1>2, <1>3, <1>5, ProcsFacts DEF TypeOK
  <2>4. NotLost(c)'
    BY <1>1, <1>5, <2>3 DEF Conn, NotLost, Pending
  <2>5. QED
    BY <2>1, <2>2, <2>4 DEF Conn
<1>9. \A d \in Clients \ {c} : SameAt(d)
  BY <1>1, <1>2, <1>3, <1>4, <1>5, ProcsFacts DEF SameAt, Pending, TypeOK
<1>10. QED
  BY <1>2, <1>5, <1>6, <1>7, <1>8, <1>9, OneConnection, ProcsFacts

-----------------------------------------------------------------------------
(* The completion pollers                                                    *)

(* The steps that change nothing of any connection.                          *)
LEMMA NoConnection ==
  ASSUME IInv, TypeOK', \A p \in Procs : Wakes(p)',
         \A d \in Clients : SameAt(d),
         UNCHANGED <<printed, gone, died>>
  PROVE  IInv'
<1>1. \A d \in Clients : Conn(d)'
  BY ConnFrame DEF IInv
<1>2. FreedIsGone' /\ DeathsAreFreed'
  BY DEF IInv, FreedIsGone, DeathsAreFreed
<1>3. QED
  BY <1>1, <1>2 DEF IInv

LEMMA GetCqEventStep ==
  ASSUME IInv, NEW p \in Procs, get_cq_event(p)
  PROVE  IInv'
<1> USE DEF get_cq_event, Goto, conn, ends
<1>1. TypeOK
  BY DEF IInv
<1>2. TypeOK'
  BY <1>1 DEF TypeOK
<1>3. \A q \in Procs : Wakes(q)'
  BY <1>1 DEF IInv, Wakes, TypeOK
<1>4. \A d \in Clients : SameAt(d)
  BY <1>1, ProcsFacts DEF SameAt, Pending, TypeOK
<1>5. QED
  BY <1>2, <1>3, <1>4, NoConnection

LEMMA HeadFacts ==
  ASSUME TypeOK, NEW p \in Procs, cq[p] # <<>>
  PROVE  /\ Head(cq[p]) \in Completions /\ Head(cq[p]) # NoWc
         /\ Tail(cq[p]) \in Seq(Completions)
         /\ Len(Tail(cq[p])) = Len(cq[p]) - 1 /\ Len(cq[p]) \in Nat
         /\ \A i \in DOMAIN cq[p] :
              \/ cq[p][i] = Head(cq[p])
              \/ \E j \in DOMAIN Tail(cq[p]) : Tail(cq[p])[j] = cq[p][i]
         /\ ~BadStatus(p)
<1> DEFINE q == cq[p]
<1>1. q \in Seq(Completions) /\ q # <<>>
  BY DEF TypeOK
<1>2. /\ Head(q) \in Completions /\ Tail(q) \in Seq(Completions)
      /\ Len(Tail(q)) = Len(q) - 1 /\ Len(q) \in Nat /\ Len(q) > 0
      /\ Head(q) = q[1]
      /\ \A i \in 1..Len(Tail(q)) : Tail(q)[i] = q[i + 1]
  BY <1>1
<1> HIDE DEF q
<1>3. Head(q).op \in {"send", "recv"}
  BY <1>2 DEF Completions
<1>4. ASSUME NEW i \in DOMAIN q, q[i] # Head(q)
      PROVE  \E j \in DOMAIN Tail(q) : Tail(q)[j] = q[i]
  <2>1. i \in 1..Len(q) /\ i # 1
    BY <1>1, <1>2, <1>4
  <2>2. i - 1 \in 1..Len(Tail(q)) /\ Tail(q)[i - 1] = q[(i - 1) + 1]
    BY <2>1, <1>2
  <2>3. (i - 1) + 1 = i /\ DOMAIN Tail(q) = 1..Len(Tail(q))
    BY <2>1, <1>2
  <2>4. QED
    BY <2>2, <2>3
<1>5. Head(q) # NoWc /\ Head(q).op # "error"
  BY <1>3 DEF NoWc
<1>6. QED
  BY <1>2, <1>4, <1>5 DEF q, BadStatus

(* What is on the queue of p is then with its poller.                        *)
LEMMA TakenIsPending ==
  ASSUME TypeOK, NEW p \in Procs, cq[p] # <<>>, wc[p] = NoWc,
         wc'[p] = Head(cq[p]), cq'[p] = Tail(cq[p]), NEW c \in Clients,
         Pending(p, c)
  PROVE  Pending(p, c)'
<1>1. [op |-> "recv", conn |-> c] # NoWc
  BY DEF NoWc
<1>2. PICK i \in DOMAIN cq[p] : cq[p][i] = [op |-> "recv", conn |-> c]
  BY <1>1 DEF Pending
<1>3. \/ cq[p][i] = Head(cq[p])
      \/ \E j \in DOMAIN Tail(cq[p]) : Tail(cq[p])[j] = cq[p][i]
  BY HeadFacts
<1>4. QED
  BY <1>2, <1>3 DEF Pending

LEMMA PollCqStep ==
  ASSUME IInv, NEW p \in Procs, poll_cq(p)
  PROVE  IInv'
<1>1. TypeOK /\ Wakes(p)
  BY DEF IInv
<1>2. /\ poller[p] = "drain" /\ ~died[p] /\ wc[p] = NoWc
      /\ UNCHANGED <<cm, told, posted, wire, armed, event, numCompletions,
                     printed, discon, gone>>
  BY <1>1 DEF poll_cq, Goto, Wakes, conn, ends
<1>3. died' = died
  <2>1. BadStatus(p) = FALSE
    <3>1. ~BadStatus(p)
      BY <1>1, HeadFacts DEF BadStatus
    <3>2. BadStatus(p) \in BOOLEAN
      BY DEF BadStatus
    <3>3. QED
      BY <3>1, <3>2
  <2>2. died' = [died EXCEPT ![p] = FALSE]
    BY <2>1 DEF poll_cq
  <2>3. died[p] = FALSE /\ died \in [Procs -> BOOLEAN]
    BY <1>1, <1>2 DEF TypeOK
  <2>4. QED
    BY <2>2, <2>3
<1>4. CASE cq[p] = <<>>
  <2>1. poller' = [poller EXCEPT ![p] = "wait"] /\ UNCHANGED <<cq, wc>>
    BY <1>4 DEF poll_cq, Goto
  <2>2. TypeOK'
    BY <1>1, <1>2, <1>3, <2>1 DEF TypeOK
  <2>3. \A q \in Procs : Wakes(q)'
    BY <1>1, <1>2, <1>4, <2>1 DEF IInv, Wakes, TypeOK
  <2>4. \A d \in Clients : SameAt(d)
    BY <1>1, <1>2, <2>1, ProcsFacts DEF SameAt, Pending, TypeOK
  <2>5. QED
    BY <1>2, <1>3, <2>2, <2>3, <2>4, NoConnection
<1>5. CASE cq[p] # <<>>
  <2>1. /\ poller' = [poller EXCEPT ![p] = "handle"]
        /\ wc' = [wc EXCEPT ![p] = Head(cq[p])]
        /\ cq' = [cq EXCEPT ![p] = Tail(cq[p])]
    BY <1>5 DEF poll_cq, Goto
  <2>2. /\ Head(cq[p]) \in Completions /\ Head(cq[p]) # NoWc
        /\ Tail(cq[p]) \in Seq(Completions)
        /\ Len(Tail(cq[p])) = Len(cq[p]) - 1 /\ Len(cq[p]) \in Nat
    BY <1>1, <1>5, HeadFacts
  <2>3. /\ wc'[p] = Head(cq[p]) /\ cq'[p] = Tail(cq[p])
        /\ poller'[p] = "handle"
        /\ \A q \in Procs \ {p} : /\ wc'[q] = wc[q] /\ cq'[q] = cq[q]
                                  /\ poller'[q] = poller[q]
    BY <1>1, <2>1 DEF TypeOK
  <2>4. TypeOK'
    BY <1>1, <1>2, <1>3, <2>1, <2>2 DEF TypeOK
  <2>5. \A q \in Procs : Wakes(q)'
    <3>1. Wakes(p)'
      BY <1>1, <1>2, <2>2, <2>3 DEF Wakes
    <3>2. \A q \in Procs \ {p} : Wakes(q)'
      BY <1>2, <2>3 DEF IInv, Wakes
    <3>3. QED
      BY <3>1, <3>2
  <2>6. \A d \in Clients : Pending(Server, d) => Pending(Server, d)'
    <3>1. CASE p = Server
      BY <1>1, <1>2, <1>5, <2>3, <3>1, TakenIsPending
    <3>2. CASE p # Server
      BY <2>3, <3>2, ProcsFacts DEF Pending
    <3>3. QED
      BY <3>1, <3>2
  <2>7. \A d \in Clients \ {p} : SameAt(d)
    BY <1>1, <1>2, <2>3, <2>6, ProcsFacts DEF SameAt
  <2>8. CASE p = Server
    BY <1>2, <1>3, <2>4, <2>5, <2>7, <2>8, NoConnection, ProcsFacts
  <2>9. CASE p \in Clients
    <3>1. Conn(p) /\ Swapping(p)
      BY <1>5, <2>9 DEF IInv, Conn, Swapped
    <3>2. Pending(p, p) => Pending(p, p)'
      BY <1>1, <1>2, <1>5, <2>3, <2>9, TakenIsPending
    <3>3. Swapping(p)'
      <4>1. One(wc'[p] # NoWc) = 1 /\ One(wc[p] # NoWc) = 0
        BY <1>2, <2>2, <2>3 DEF One
      <4>2. /\ Len(cq'[p]) = Len(cq[p]) - 1 /\ Len(cq[p]) \in Nat
            /\ numCompletions[p] \in Nat
        BY <1>1, <2>2, <2>3, <2>9 DEF TypeOK
      <4>3. numCompletions[p] + Len(cq'[p]) + One(wc'[p] # NoWc)
              = numCompletions[p] + Len(cq[p]) + One(wc[p] # NoWc)
        BY <4>1, <4>2
      <4>4. QED
        BY <1>2, <3>1, <3>2, <4>3 DEF Swapping
    <3>4. PollersOn(p)' /\ NotLost(p)'
      BY <1>2, <2>3, <2>6, <2>9, <3>1, ProcsFacts
         DEF Conn, PollersOn, NotLost
    <3>5. QED
      BY <1>2, <1>3, <2>4, <2>5, <2>7, <2>9, <3>3, <3>4, OneConnection
         DEF Conn
  <2>10. QED
    BY <2>8, <2>9 DEF Procs
<1>6. QED
  BY <1>4, <1>5

(* The client's first completion is counted; with the second the swap is     *)
(* over and nothing is outstanding, so rdma_disconnect flushes nothing.      *)
LEMMA CompletionClientStep ==
  ASSUME IInv, NEW c \in Clients, on_completion_client(c)
  PROVE  IInv'
<1>1. /\ TypeOK /\ Conn(c) /\ Wakes(c) /\ c \in Procs
      /\ poller[c] = "handle" /\ wc[c] # NoWc /\ Swapping(c)
  <2>1. TypeOK /\ Conn(c) /\ Wakes(c) /\ c \in Procs /\ poller[c] = "handle"
    BY ProcsFacts DEF IInv, on_completion_client, Goto
  <2>2. wc[c] # NoWc
    BY <2>1 DEF Wakes
  <2>3. QED
    BY <2>1, <2>2 DEF Conn, Swapped
<1>2. /\ poller' = [poller EXCEPT ![c] = "drain"]
      /\ wc' = [wc EXCEPT ![c] = NoWc]
      /\ numCompletions' = [numCompletions EXCEPT ![c] = @ + 1]
      /\ UNCHANGED <<cm, told, posted, wire, armed, event, gone, died>>
  BY DEF on_completion_client, Goto, conn
<1>3. /\ poller'[c] = "drain" /\ wc'[c] = NoWc
      /\ numCompletions'[c] = numCompletions[c] + 1
      /\ numCompletions[c] \in {0, 1}
      /\ \A d \in Clients \ {c} : numCompletions'[d] = numCompletions[d]
      /\ \A p \in Procs \ {c} : wc'[p] = wc[p] /\ poller'[p] = poller[p]
  BY <1>1, <1>2 DEF TypeOK, Swapping
<1>4. /\ printed' \in [Sides -> [Clients -> {"nothing", "message", "freed"}]]
      /\ wc[c].op = "recv" => printed'["client"][c] = "message"
      /\ wc[c].op # "recv" => printed'["client"][c] = printed["client"][c]
      /\ \A s \in Sides, d \in Clients :
           s # "client" \/ d # c => printed'[s][d] = printed[s][d]
  <2>1. CASE wc[c].op = "recv"
    <3>1. printed' = Put(printed, "client", c, "message")
      BY <2>1, ProcsFacts DEF on_completion_client, Prints
    <3>2. QED
      BY <1>1, <2>1, <3>1, PutPrinted, ProcsFacts
  <2>2. CASE wc[c].op # "recv"
    <3>1. printed' = printed
      BY <2>2, ProcsFacts DEF on_completion_client, Prints
    <3>2. QED
      BY <1>1, <2>2, <3>1, ProcsFacts DEF TypeOK
  <2>3. QED
    BY <2>1, <2>2
<1>5. wire["server"][c] \in Received =>
        \/ printed'["client"][c] = "message"
        \/ \E i \in DOMAIN cq[c] : cq[c][i] = [op |-> "recv", conn |-> c]
  <2>1. printed["client"][c] = "message" => printed'["client"][c] = "message"
    BY <1>4
  <2>2. wc[c] = [op |-> "recv", conn |-> c] =>
          printed'["client"][c] = "message"
    BY <1>4
  <2>3. QED
    BY <1>1, <2>1, <2>2 DEF Swapping, Pending
<1>6. /\ numCompletions[c] + Len(cq[c]) + 1
           = One(wire["server"][c] \in Received)
             + One(wire["client"][c] = "acked")
      /\ Len(cq[c]) \in Nat
  <2>1. One(wc[c] # NoWc) = 1
    BY <1>1 DEF One
  <2>2. QED
    BY <1>1, <2>1 DEF Swapping, TypeOK
<1>7. cq' = cq
      /\ IF numCompletions[c] = 1 THEN discon' = [discon EXCEPT ![c] = TRUE]
         ELSE discon' = discon
  <2>1. CASE numCompletions[c] = 1
    <3>1. rdma_disconnect(c)
      BY <2>1 DEF on_completion_client
    <3>2. wire["server"][c] \in Received /\ wire["client"][c] = "acked"
      BY <1>6, <2>1 DEF One
    <3>3. posted["client"][c] = 0
      BY <1>1, <3>2 DEF Swapping, One
    <3>4. ~Outstanding(c)
      BY <3>2, <3>3 DEF Outstanding
    <3>5. QED
      BY <2>1, <3>1, <3>4 DEF rdma_disconnect
  <2>2. CASE numCompletions[c] = 0
    BY <2>2 DEF on_completion_client
  <2>3. QED
    BY <1>3, <2>1, <2>2
<1>8. TypeOK'
  <2>1. NoWc \in Completions \cup {NoWc}
    OBVIOUS
  <2>2. numCompletions' \in [Clients -> 0..2]
    BY <1>1, <1>2, <1>3 DEF TypeOK
  <2>3. discon' \in [Clients -> BOOLEAN]
    BY <1>1, <1>7 DEF TypeOK
  <2>4. wc' \in [Procs -> Completions \cup {NoWc}]
    BY <1>1, <1>2, <2>1 DEF TypeOK
  <2>5. poller' \in [Procs -> {"off", "wait", "drain", "handle"}]
    BY <1>1, <1>2 DEF TypeOK
  <2>6. QED
    BY <1>1, <1>2, <1>4, <1>7, <2>2, <2>3, <2>4, <2>5 DEF TypeOK
<1>9. \A p \in Procs : Wakes(p)'
  <2>1. Wakes(c)'
    BY <1>1, <1>2, <1>3, <1>7 DEF Wakes
  <2>2. \A p \in Procs \ {c} : Wakes(p)'
    BY <1>2, <1>3, <1>7 DEF IInv, Wakes
  <2>3. QED
    BY <2>1, <2>2
<1>10. PollersOn(c)' /\ NotLost(c)'
  <2>1. poller'[Server] = poller[Server] /\ wc'[Server] = wc[Server]
        /\ printed'["server"][c] = printed["server"][c]
    BY <1>3, <1>4, ProcsFacts
  <2>2. QED
    BY <1>1, <1>2, <1>3, <1>7, <2>1 DEF Conn, PollersOn, NotLost, Pending
<1>11. Swapping(c)' \/ Swapped(c)'
  <2>1. CASE numCompletions[c] = 0
    <3>1. discon' = discon /\ cq' = cq /\ numCompletions'[c] = 1
      BY <1>3, <1>7, <2>1
    <3>2. numCompletions'[c] + Len(cq'[c]) + One(wc'[c] # NoWc)
            = One(wire["server"][c] \in Received)
              + One(wire["client"][c] = "acked")
      BY <1>3, <1>6, <2>1, <3>1 DEF One
    <3>3. wire["server"][c] \in Received =>
            printed'["client"][c] = "message" \/ Pending(c, c)'
      BY <1>5, <3>1 DEF Pending
    <3>4. QED
      BY <1>1, <1>2, <3>1, <3>2, <3>3 DEF Swapping
  <2>2. CASE numCompletions[c] = 1
    <3>1. /\ wire["server"][c] \in Received /\ wire["client"][c] = "acked"
          /\ Len(cq[c]) = 0
      BY <1>6, <2>2 DEF One
    <3>2. cq[c] = <<>>
      BY <1>1, <3>1 DEF TypeOK
    <3>3. printed'["client"][c] = "message"
      BY <1>5, <3>1, <3>2
    <3>4. discon'[c]
      BY <1>1, <1>7, <2>2 DEF TypeOK
    <3>5. /\ told["server"][c] /\ told["client"][c] /\ cm[c] = "accepted"
          /\ posted["server"][c] = 0 /\ posted["client"][c] = 0
          /\ ~gone["server"][c] /\ ~gone["client"][c]
      BY <1>1, <3>1, ProcsFacts DEF Swapping, Received, One
    <3>6. QED
      BY <1>2, <1>3, <1>7, <3>1, <3>2, <3>3, <3>4, <3>5
         DEF Swapped, Sides, Received
  <2>3. QED
    BY <1>3, <2>1, <2>2
<1>12. \A d \in Clients \ {c} : SameAt(d)
  <2>1. \A d \in Clients \ {c} : discon'[d] = discon[d]
    BY <1>1, <1>7 DEF TypeOK
  <2>2. wc'[Server] = wc[Server] /\ poller'[Server] = poller[Server]
    BY <1>3, ProcsFacts
  <2>3. QED
    BY <1>2, <1>3, <1>4, <1>7, <2>1, <2>2, ProcsFacts DEF SameAt, Pending
<1>13. QED
  BY <1>2, <1>4, <1>8, <1>9, <1>10, <1>11, <1>12, OneConnection, ProcsFacts
     DEF Conn

(* The server prints the message of a connection it still has; only one that *)
(* its event thread has freed can kill it.                                   *)
LEMMA CompletionServerStep ==
  ASSUME IInv, on_completion_server
  PROVE  IInv'
<1> DEFINE c == wc[Server].conn
           what == IF gone["server"][c] THEN "freed" ELSE "message"
<1>1. /\ TypeOK /\ Wakes(Server) /\ Server \in Procs
      /\ poller[Server] = "handle" /\ ~died[Server]
      /\ wc[Server] # NoWc /\ wc[Server] \in Completions /\ c \in Clients
  <2>1. /\ TypeOK /\ Wakes(Server) /\ Server \in Procs
        /\ poller[Server] = "handle" /\ ~died[Server]
    BY ProcsFacts DEF IInv, on_completion_server, Goto
  <2>2. wc[Server] # NoWc
    BY <2>1 DEF Wakes
  <2>3. wc[Server] \in Completions
    BY <2>1, <2>2 DEF TypeOK
  <2>4. QED
    BY <2>1, <2>2, <2>3 DEF Completions
<1> HIDE DEF c
<1>2. /\ poller' = [poller EXCEPT ![Server] = "drain"]
      /\ wc' = [wc EXCEPT ![Server] = NoWc]
      /\ UNCHANGED <<cm, told, posted, wire, cq, armed, event, numCompletions,
                     discon, gone>>
      /\ Prints("server", c, what)
  BY DEF on_completion_server, Goto, conn, queue, ends, c
<1>3. PICK d \in BOOLEAN :
        /\ d => gone["server"][c] /\ wc[Server].op = "recv"
        /\ died' = [died EXCEPT ![Server] = d]
  BY DEF on_completion_server, c
<1>4. /\ printed' \in [Sides -> [Clients -> {"nothing", "message", "freed"}]]
      /\ wc[Server].op = "recv" => printed'["server"][c] = what
      /\ wc[Server].op # "recv" =>
           printed'["server"][c] = printed["server"][c]
      /\ \A s \in Sides, e \in Clients :
           s # "server" \/ e # c => printed'[s][e] = printed[s][e]
  <2>1. CASE wc[Server].op = "recv"
    <3>1. printed' = Put(printed, "server", c, what)
      BY <1>1, <1>2, <2>1, ProcsFacts DEF Prints
    <3>2. QED
      BY <1>1, <2>1, <3>1, PutPrinted, ProcsFacts
  <2>2. CASE wc[Server].op # "recv"
    <3>1. printed' = printed
      BY <1>1, <1>2, <2>2, ProcsFacts DEF Prints
    <3>2. QED
      BY <1>1, <2>2, <3>1, ProcsFacts DEF TypeOK
  <2>3. QED
    BY <2>1, <2>2
<1>5. /\ poller'[Server] = "drain" /\ wc'[Server] = NoWc
      /\ \A p \in Procs \ {Server} : wc'[p] = wc[p] /\ poller'[p] = poller[p]
  BY <1>1, <1>2 DEF TypeOK
<1>6. TypeOK'
  <2>1. NoWc \in Completions \cup {NoWc}
    OBVIOUS
  <2>2. wc' \in [Procs -> Completions \cup {NoWc}]
    BY <1>1, <1>2, <2>1 DEF TypeOK
  <2>3. poller' \in [Procs -> {"off", "wait", "drain", "handle"}]
    BY <1>1, <1>2 DEF TypeOK
  <2>4. died' \in [Procs -> BOOLEAN]
    BY <1>1, <1>3 DEF TypeOK
  <2>5. QED
    BY <1>1, <1>2, <1>4, <2>2, <2>3, <2>4 DEF TypeOK
<1>7. \A p \in Procs : Wakes(p)'
  <2>1. Wakes(Server)'
    BY <1>1, <1>2, <1>5 DEF Wakes
  <2>2. \A p \in Procs \ {Server} : Wakes(p)'
    BY <1>2, <1>5 DEF IInv, Wakes
  <2>3. QED
    BY <2>1, <2>2
<1>8. FreedIsGone'
  <2>1. ASSUME NEW e \in Clients, printed'["server"][e] = "freed"
        PROVE  gone["server"][e]
    <3>1. CASE printed'["server"][e] = printed["server"][e]
      BY <2>1, <3>1 DEF IInv, FreedIsGone
    <3>2. CASE e = c /\ wc[Server].op = "recv"
      BY <1>4, <2>1, <3>2
    <3>3. QED
      BY <1>4, <3>1, <3>2, ProcsFacts
  <2>2. QED
    BY <1>2, <2>1 DEF FreedIsGone
<1>9. DeathsAreFreed'
  <2>1. \A p \in Procs : ~died[p]
    BY <1>1 DEF IInv, DeathsAreFreed
  <2>2. \A p \in Procs : died'[p] =>
          p = Server /\ gone["server"][c] /\ wc[Server].op = "recv"
    BY <1>1, <1>3, <2>1 DEF TypeOK
  <2>3. \A p \in Procs : died'[p] =>
          p = Server /\ printed'["server"][c] = "freed"
    BY <1>4, <2>2
  <2>4. QED
    BY <1>1, <2>3 DEF DeathsAreFreed
<1>10. ASSUME NEW e \in Clients
       PROVE  Conn(e)'
  <2>1. Conn(e) /\ e \in Procs \ {Server}
    BY ProcsFacts DEF IInv
  <2>2. /\ wc'[e] = wc[e] /\ poller'[e] = poller[e] /\ poller'[Server] # "off"
        /\ printed'["client"][e] = printed["client"][e]
    BY <1>4, <1>5, <2>1, ProcsFacts
  <2>3. Pending(e, e) => Pending(e, e)'
    BY <1>2, <2>2 DEF Pending
  <2>4. Swapping(e) => Swapping(e)'
    BY <1>2, <2>2, <2>3 DEF Swapping
  <2>5. Swapped(e) => Swapped(e)'
    BY <1>2, <2>2 DEF Swapped
  <2>6. PollersOn(e)'
    BY <1>2, <2>1, <2>2 DEF Conn, PollersOn
  <2>7. printed["server"][e] # "nothing" => printed'["server"][e] # "nothing"
    BY <1>4, ProcsFacts
  <2>8. Pending(Server, e) =>
          printed'["server"][e] # "nothing" \/ Pending(Server, e)'
    <3>1. CASE wc[Server] = [op |-> "recv", conn |-> e]
      <4>1. e = c /\ wc[Server].op = "recv"
        BY <3>1 DEF c
      <4>2. QED
        BY <1>4, <4>1
    <3>2. CASE wc[Server] # [op |-> "recv", conn |-> e]
      BY <1>2, <3>2 DEF Pending
    <3>3. QED
      BY <3>1, <3>2
  <2>9. NotLost(e)'
    BY <1>2, <2>1, <2>7, <2>8 DEF Conn, NotLost
  <2>10. QED
    BY <2>1, <2>4, <2>5, <2>6, <2>9 DEF Conn
<1>11. QED
  BY <1>6, <1>7, <1>8, <1>9, <1>10 DEF IInv

-----------------------------------------------------------------------------
(* The adapters                                                              *)

LEMMA CompletionFacts ==
  ASSUME IInv, NEW p \in Procs, NEW kind \in {"send", "recv"},
         NEW c \in Clients, Completion(p, kind, c), poller[p] # "off",
         UNCHANGED <<poller, wc>>
  PROVE  /\ cq' \in [Procs -> Seq(Completions)]
         /\ armed' \in [Procs -> BOOLEAN] /\ event' \in [Procs -> Nat]
         /\ Len(cq'[p]) = Len(cq[p]) + 1
         /\ \A q \in Procs \ {p} : cq'[q] = cq[q]
         /\ \A q \in Procs : Wakes(q)'
         /\ \A q \in Procs, d \in Clients : Pending(q, d) => Pending(q, d)'
         /\ kind = "recv" => Pending(p, c)'
<1> DEFINE e == [op |-> kind, conn |-> c]
           n == IF armed[p] THEN 1 ELSE 0
<1>1. TypeOK /\ Wakes(p) /\ e \in Completions
  BY DEF IInv, Completions
<1>2. /\ cq' = [cq EXCEPT ![p] = Append(cq[p], e)]
      /\ armed' = [armed EXCEPT ![p] = FALSE]
      /\ event' = [event EXCEPT ![p] = event[p] + n]
  BY DEF Completion
<1> DEFINE q == cq[p]
           r == Append(q, e)
<1>3. q \in Seq(Completions) /\ event[p] \in Nat /\ n \in Nat
  BY <1>1 DEF TypeOK
<1>4. /\ r \in Seq(Completions) /\ Len(r) = Len(q) + 1 /\ Len(q) \in Nat
      /\ \A i \in 1..Len(q) : r[i] = q[i]
      /\ r[Len(q) + 1] = e
      /\ DOMAIN q = 1..Len(q) /\ DOMAIN r = 1..(Len(q) + 1)
  BY <1>1, <1>3
<1> HIDE DEF e, r
<1>5. \A i \in DOMAIN q : \E j \in DOMAIN r : r[j] = q[i]
  BY <1>4
<1>6. \E j \in DOMAIN r : r[j] = e
  BY <1>4
<1>7. cq'[p] = r /\ \A o \in Procs \ {p} : cq'[o] = cq[o]
  BY <1>1, <1>2 DEF TypeOK, r
<1>8. /\ armed'[p] = FALSE /\ event'[p] = event[p] + n /\ event'[p] > 0
      /\ \A o \in Procs \ {p} : armed'[o] = armed[o] /\ event'[o] = event[o]
  <2>1. armed[p] \/ event[p] > 0
    BY <1>1 DEF Wakes
  <2>2. event[p] + n > 0
    BY <1>3, <2>1
  <2>3. QED
    BY <1>1, <1>2, <2>2 DEF TypeOK
<1> HIDE DEF n
<1>9. \A o \in Procs : Wakes(o)'
  <2>1. Wakes(p)'
    BY <1>1, <1>8 DEF Wakes
  <2>2. \A o \in Procs \ {p} : Wakes(o)'
    BY <1>7, <1>8 DEF IInv, Wakes
  <2>3. QED
    BY <2>1, <2>2
<1>10. \A o \in Procs, d \in Clients : Pending(o, d) => Pending(o, d)'
  <2>1. \A d \in Clients : Pending(p, d) => Pending(p, d)'
    BY <1>5, <1>7 DEF Pending
  <2>2. \A o \in Procs \ {p}, d \in Clients : Pending(o, d) => Pending(o, d)'
    BY <1>7 DEF Pending
  <2>3. QED
    BY <2>1, <2>2
<1>11. kind = "recv" => Pending(p, c)'
  BY <1>6, <1>7 DEF Pending, e
<1>12. /\ cq' \in [Procs -> Seq(Completions)]
       /\ armed' \in [Procs -> BOOLEAN] /\ event' \in [Procs -> Nat]
  <2>1. event[p] + n \in Nat
    BY <1>3
  <2>2. QED
    BY <1>1, <1>2, <1>4, <2>1 DEF TypeOK, r
<1>13. QED
  BY <1>4, <1>7, <1>9, <1>10, <1>11, <1>12

(* Before the disconnect both sides have posted their receive before either  *)
(* can send: no send finds its peer without one.                             *)
LEMMA ArrivesStep ==
  ASSUME IInv, NEW c \in Clients, NEW s \in Sides, Arrives(s, c)
  PROVE  IInv'
<1> DEFINE r == Peer(s)
           p == Proc(r, c)
<1>1. /\ TypeOK /\ Conn(c) /\ Swapping(c) /\ r \in Sides /\ r # s
      /\ p \in Procs /\ wire[s][c] = "sent"
  BY ProcsFacts DEF IInv, Conn, Swapped, Arrives, Sides
<1>2. cm[c] = "accepted" /\ posted[r][c] = 1 /\ poller[p] # "off"
  <2>1. cm[c] = "accepted"
    BY <1>1 DEF Swapping
  <2>2. posted[r][c] = 1
    BY <1>1, <2>1, ProcsFacts DEF Swapping, Sides, Received, One
  <2>3. poller[c] # "off" /\ poller[Server] # "off"
    BY <1>1, <2>1 DEF Conn, Swapping, PollersOn
  <2>4. QED
    BY <1>1, <2>1, <2>2, <2>3, ProcsFacts DEF Sides
<1>3. /\ wire' = Put(wire, s, c, "arrived") /\ posted' = Put(posted, r, c, 0)
      /\ Completion(p, "recv", c)
      /\ UNCHANGED <<cm, told, poller, wc, numCompletions, printed, discon,
                     gone, died>>
  BY <1>2 DEF Arrives, ends
<1> HIDE DEF r, p
<1>4. /\ wire' \in [Sides -> [Clients -> {"none", "sent", "arrived", "acked"}]]
      /\ wire'[s][c] = "arrived"
      /\ \A t \in Sides, d \in Clients :
           t # s \/ d # c => wire'[t][d] = wire[t][d]
  BY <1>1, <1>3, PutWire
<1>5. /\ posted' \in [Sides -> [Clients -> {0, 1}]]
      /\ posted'[r][c] = 0
      /\ \A t \in Sides, d \in Clients :
           t # r \/ d # c => posted'[t][d] = posted[t][d]
  BY <1>1, <1>3, PutPosted
<1>6. /\ cq' \in [Procs -> Seq(Completions)]
      /\ armed' \in [Procs -> BOOLEAN] /\ event' \in [Procs -> Nat]
      /\ Len(cq'[p]) = Len(cq[p]) + 1
      /\ \A q \in Procs \ {p} : cq'[q] = cq[q]
      /\ \A q \in Procs : Wakes(q)'
      /\ \A q \in Procs, d \in Clients : Pending(q, d) => Pending(q, d)'
      /\ Pending(p, c)'
  BY <1>1, <1>2, <1>3, CompletionFacts
<1>7. TypeOK'
  BY <1>1, <1>3, <1>4, <1>5, <1>6 DEF TypeOK
<1>8. \A t \in Sides : told[t][c] <=> wire'[t][c] # "none"
  <2>1. \A t \in Sides : told[t][c] <=> wire[t][c] # "none"
    BY <1>1 DEF Swapping
  <2>2. told[s][c] /\ wire'[s][c] # "none"
    BY <1>1, <1>4, <2>1
  <2>3. TAKE t \in Sides
  <2>4. CASE t = s
    BY <2>2, <2>4
  <2>5. CASE t # s
    BY <1>4, <2>1, <2>5
  <2>6. QED
    BY <2>4, <2>5
<1>9. Swapping(c)' /\ NotLost(c)'
  <2>1. CASE s = "server"
    <3>1. r = "client" /\ p = c
      BY <2>1, ProcsFacts DEF r, p
    <3>2. /\ posted'["client"][c] = 0
          /\ posted'["server"][c] = posted["server"][c]
          /\ wire'["server"][c] = "arrived" /\ wire["server"][c] = "sent"
          /\ wire'["client"][c] = wire["client"][c]
      BY <1>1, <1>4, <1>5, <2>1, <3>1, ProcsFacts
    <3> DEFINE a  == One(wire["server"][c] \in Received)
               a1 == One(wire'["server"][c] \in Received)
               b  == One(wire["client"][c] = "acked")
               w  == One(wc[c] # NoWc)
               l  == Len(cq[c])
               l1 == Len(cq'[c])
               n  == numCompletions[c]
    <3>3. a1 = a + 1 /\ a \in Nat /\ b \in Nat /\ w \in Nat
      BY <3>2 DEF One, Received
    <3>4. l1 = l + 1 /\ l \in Nat /\ n \in Nat
      BY <1>1, <1>6, <3>1, ProcsFacts DEF TypeOK
    <3>5. n + l + w = a + b
      BY <1>1 DEF Swapping
    <3>6. n + l1 + w = a1 + b
      <4> HIDE DEF a, a1, b, w, l, l1, n
      <4>1. QED
        BY <3>3, <3>4, <3>5
    <3>7. numCompletions[c] + Len(cq'[c]) + One(wc'[c] # NoWc)
            = One(wire'["server"][c] \in Received)
              + One(wire'["client"][c] = "acked")
      <4>1. wc'[c] = wc[c] /\ wire'["client"][c] = wire["client"][c]
        BY <1>3, <3>2
      <4>2. QED
        BY <3>6, <4>1
    <3>8. /\ posted'["client"][c]
               = One(cm[c] # "start" /\ wire'["server"][c] \notin Received)
          /\ posted'["server"][c]
               = One(cm[c] = "accepted" /\ wire'["client"][c] \notin Received)
      BY <1>1, <1>2, <3>2 DEF Swapping, One, Received
    <3>9. Swapping(c)'
      BY <1>1, <1>2, <1>3, <1>6, <1>8, <3>1, <3>7, <3>8 DEF Swapping
    <3>10. NotLost(c)'
      BY <1>1, <1>3, <1>6, <3>2, ProcsFacts DEF Conn, NotLost
    <3>11. QED
      BY <3>9, <3>10
  <2>2. CASE s = "client"
    <3>1. r = "server" /\ p = Server
      BY <2>2, ProcsFacts DEF r, p
    <3>2. /\ posted'["server"][c] = 0
          /\ posted'["client"][c] = posted["client"][c]
          /\ wire'["client"][c] = "arrived" /\ wire["client"][c] = "sent"
          /\ wire'["server"][c] = wire["server"][c]
      BY <1>1, <1>4, <1>5, <2>2, <3>1, ProcsFacts
    <3>3. cq'[c] = cq[c] /\ wc'[c] = wc[c]
      BY <1>3, <1>6, <3>1, ProcsFacts
    <3>4. One(wire'["client"][c] = "acked") = One(wire["client"][c] = "acked")
      BY <3>2 DEF One
    <3>5. /\ posted'["client"][c]
               = One(cm[c] # "start" /\ wire'["server"][c] \notin Received)
          /\ posted'["server"][c]
               = One(cm[c] = "accepted" /\ wire'["client"][c] \notin Received)
      BY <1>1, <1>2, <3>2 DEF Swapping, One, Received
    <3>6. Pending(c, c) => Pending(c, c)'
      BY <1>6, ProcsFacts
    <3>7. Swapping(c)'
      BY <1>1, <1>2, <1>3, <1>8, <3>2, <3>3, <3>4, <3>5, <3>6 DEF Swapping
    <3>8. NotLost(c)'
      BY <1>6, <3>1 DEF NotLost
    <3>9. QED
      BY <3>7, <3>8
  <2>3. QED
    BY <2>1, <2>2 DEF Sides
<1>10. PollersOn(c)'
  BY <1>1, <1>3 DEF Conn, PollersOn
<1>11. \A d \in Clients \ {c} : SameAt(d)
  <2>1. \A d \in Clients \ {c} : cq'[d] = cq[d]
    BY <1>6, ProcsFacts DEF p, r, Proc, Peer
  <2>2. \A d \in Clients \ {c} : Pending(Server, d) => Pending(Server, d)'
    BY <1>6, ProcsFacts
  <2>3. QED
    BY <1>3, <1>4, <1>5, <2>1, <2>2 DEF SameAt
<1>12. QED
  BY <1>3, <1>6, <1>7, <1>9, <1>10, <1>11, OneConnection DEF Conn

LEMMA AckedStep ==
  ASSUME IInv, NEW c \in Clients, NEW s \in Sides, Acked(s, c)
  PROVE  IInv'
<1> DEFINE p == Proc(s, c)
<1>1. /\ TypeOK /\ Conn(c) /\ p \in Procs /\ wire[s][c] = "arrived"
  BY ProcsFacts DEF IInv, Acked, Sides
<1>2. /\ s = "client" => Swapping(c)
      /\ s = "client" => ~gone["client"][c]
      /\ cm[c] = "accepted"
  BY <1>1 DEF Conn, Swapping, Swapped
<1>3. poller[p] # "off"
  BY <1>1, <1>2, ProcsFacts DEF Conn, PollersOn, Sides
<1>4. /\ wire' = Put(wire, s, c, "acked") /\ Completion(p, "send", c)
      /\ UNCHANGED <<cm, told, posted, poller, wc, numCompletions, printed,
                     discon, gone, died>>
  BY DEF Acked, ends
<1> HIDE DEF p
<1>5. /\ wire' \in [Sides -> [Clients -> {"none", "sent", "arrived", "acked"}]]
      /\ wire'[s][c] = "acked"
      /\ \A t \in Sides, d \in Clients :
           t # s \/ d # c => wire'[t][d] = wire[t][d]
  BY <1>1, <1>4, PutWire
<1>6. /\ cq' \in [Procs -> Seq(Completions)]
      /\ armed' \in [Procs -> BOOLEAN] /\ event' \in [Procs -> Nat]
      /\ Len(cq'[p]) = Len(cq[p]) + 1
      /\ \A q \in Procs \ {p} : cq'[q] = cq[q]
      /\ \A q \in Procs : Wakes(q)'
      /\ \A q \in Procs, d \in Clients : Pending(q, d) => Pending(q, d)'
  BY <1>1, <1>3, <1>4, CompletionFacts
<1>7. TypeOK'
  BY <1>1, <1>4, <1>5, <1>6 DEF TypeOK
<1>8. \A t \in Sides :
        /\ wire'[t][c] = "none" <=> wire[t][c] = "none"
        /\ wire'[t][c] \in Received <=> wire[t][c] \in Received
  <2>1. TAKE t \in Sides
  <2>2. CASE t = s
    BY <1>1, <1>5, <2>2 DEF Received
  <2>3. CASE t # s
    BY <1>5, <2>3
  <2>4. QED
    BY <2>2, <2>3
<1>9. Swapping(c) => Swapping(c)'
  <2> SUFFICES ASSUME Swapping(c)
               PROVE  Swapping(c)'
    OBVIOUS
  <2> DEFINE a  == One(wire["server"][c] \in Received)
             b  == One(wire["client"][c] = "acked")
             b1 == One(wire'["client"][c] = "acked")
             w  == One(wc[c] # NoWc)
  <2>1. numCompletions[c] + Len(cq[c]) + w = a + b
    BY DEF Swapping
  <2>2. /\ Len(cq[c]) \in Nat /\ numCompletions[c] \in Nat
        /\ w \in Nat /\ a \in Nat /\ b \in Nat /\ b1 \in Nat
    BY <1>1, ProcsFacts DEF TypeOK, One
  <2>3. Len(cq'[c]) - Len(cq[c]) = b1 - b /\ Len(cq'[c]) \in Nat
    <3>1. CASE s = "client"
      <4>1. /\ wire'["client"][c] = "acked" /\ wire["client"][c] = "arrived"
            /\ Len(cq'[c]) = Len(cq[c]) + 1
        BY <1>1, <1>5, <1>6, <3>1, ProcsFacts DEF p
      <4>2. b1 = 1 /\ b = 0
        BY <4>1 DEF One
      <4>3. QED
        BY <2>2, <4>1, <4>2
    <3>2. CASE s = "server"
      <4>1. wire'["client"][c] = wire["client"][c] /\ cq'[c] = cq[c]
        BY <1>5, <1>6, <3>2, ProcsFacts DEF p
      <4>2. b1 = b
        BY <4>1
      <4>3. QED
        BY <2>2, <4>1, <4>2
    <3>3. QED
      BY <3>1, <3>2 DEF Sides
  <2>4. One(wire'["server"][c] \in Received) = a
    BY <1>8, ProcsFacts DEF One
  <2>5. numCompletions[c] + Len(cq'[c]) + w = a + b1
    <3> HIDE DEF a, b, b1, w
    <3>1. QED
      BY <2>1, <2>2, <2>3
  <2>6. numCompletions[c] + Len(cq'[c]) + One(wc[c] # NoWc)
          = One(wire'["server"][c] \in Received)
            + One(wire'["client"][c] = "acked")
    <3> HIDE DEF a, b
    <3>1. QED
      BY <2>4, <2>5
  <2>7. Pending(c, c) => Pending(c, c)'
    BY <1>6, ProcsFacts
  <2>8. /\ wire'["server"][c] \in Received <=> wire["server"][c] \in Received
        /\ wire'["client"][c] \in Received <=> wire["client"][c] \in Received
    BY <1>8, ProcsFacts
  <2>9. QED
    BY <1>4, <1>8, <2>6, <2>7, <2>8 DEF Swapping, One
<1>10. Swapped(c) => Swapped(c)'
  <2> SUFFICES ASSUME Swapped(c)
               PROVE  Swapped(c)'
    OBVIOUS
  <2>1. s = "server" /\ p = Server
    BY <1>1, ProcsFacts DEF Swapped, Sides, p
  <2>2. cq'[c] = cq[c] /\ wire'["client"][c] = wire["client"][c]
        /\ wire'["server"][c] = "acked"
    BY <1>5, <1>6, <2>1, ProcsFacts
  <2>3. \A t \in Sides : gone[t][c] => wire'[t][c] = "none"
    BY <1>8 DEF Swapped
  <2>4. QED
    BY <1>4, <2>2, <2>3 DEF Swapped, Received
<1>11. PollersOn(c)' /\ NotLost(c)'
  <2>1. Pending(Server, c) => Pending(Server, c)'
    BY <1>6, ProcsFacts
  <2>2. QED
    BY <1>1, <1>4, <2>1 DEF Conn, PollersOn, NotLost
<1>12. \A d \in Clients \ {c} : SameAt(d)
  <2>1. \A d \in Clients \ {c} : cq'[d] = cq[d]
    BY <1>6, ProcsFacts DEF p, Proc
  <2>2. \A d \in Clients \ {c} : Pending(Server, d) => Pending(Server, d)'
    BY <1>6, ProcsFacts
  <2>3. QED
    BY <1>4, <1>5, <2>1, <2>2 DEF SameAt
<1>13. QED
  BY <1>1, <1>4, <1>6, <1>7, <1>9, <1>10, <1>11, <1>12, OneConnection
     DEF Conn

-----------------------------------------------------------------------------
(* The inductive invariant                                                   *)

LEMMA InitInv ==
  ASSUME Init
  PROVE  IInv
<1> USE ServerAssumption DEF Init, PerSide
<1>1. /\ told = [s \in Sides |-> [c \in Clients |-> FALSE]]
      /\ gone = [s \in Sides |-> [c \in Clients |-> FALSE]]
      /\ posted = [s \in Sides |-> [c \in Clients |-> 0]]
      /\ wire = [s \in Sides |-> [c \in Clients |-> "none"]]
      /\ printed = [s \in Sides |-> [c \in Clients |-> "nothing"]]
  OBVIOUS
<1>2. TypeOK
  <2>1. <<>> \in Seq(Completions) /\ NoWc \in Completions \cup {NoWc}
    OBVIOUS
  <2>2. told \in [Sides -> [Clients -> BOOLEAN]]
        /\ gone \in [Sides -> [Clients -> BOOLEAN]]
    BY <1>1
  <2>3. /\ posted \in [Sides -> [Clients -> {0, 1}]]
        /\ wire \in [Sides -> [Clients -> {"none", "sent", "arrived", "acked"}]]
        /\ printed
             \in [Sides -> [Clients -> {"nothing", "message", "freed"}]]
    BY <1>1
  <2>4. QED
    BY <2>1, <2>2, <2>3 DEF TypeOK
<1>3. FreedIsGone /\ DeathsAreFreed
  BY <1>1, ProcsFacts DEF FreedIsGone, DeathsAreFreed
<1>4. \A p \in Procs : Wakes(p)
  BY DEF Wakes
<1>5. ASSUME NEW c \in Clients
      PROVE  Conn(c)
  <2>1. \A s \in Sides : /\ ~told[s][c] /\ ~gone[s][c] /\ posted[s][c] = 0
                         /\ wire[s][c] = "none"
    BY <1>1
  <2>2. cq[c] = <<>> /\ wc[c] = NoWc /\ Len(cq[c]) = 0
    BY ProcsFacts
  <2>3. /\ One(wc[c] # NoWc) = 0 /\ numCompletions[c] = 0
        /\ One(wire["server"][c] \in Received) = 0
        /\ One(wire["client"][c] = "acked") = 0
    BY <2>1, <2>2, ProcsFacts DEF One, Received
  <2>4. numCompletions[c] + Len(cq[c]) + One(wc[c] # NoWc)
          = One(wire["server"][c] \in Received)
            + One(wire["client"][c] = "acked")
    BY <2>2, <2>3
  <2>5. /\ posted["client"][c]
             = One(cm[c] # "start" /\ wire["server"][c] \notin Received)
        /\ posted["server"][c]
             = One(cm[c] = "accepted" /\ wire["client"][c] \notin Received)
    BY <2>1, ProcsFacts DEF One
  <2>6. Swapping(c)
    BY <2>1, <2>3, <2>4, <2>5, ProcsFacts DEF Swapping, Received
  <2>7. PollersOn(c) /\ NotLost(c)
    BY ProcsFacts DEF PollersOn, NotLost
  <2>8. QED
    BY <2>6, <2>7 DEF Conn
<1>6. QED
  BY <1>2, <1>3, <1>4, <1>5 DEF IInv

LEMMA StutterInv ==
  ASSUME IInv, UNCHANGED vars
  PROVE  IInv'
<1> USE DEF vars, conn, queue, ends
<1>1. TypeOK'
  BY DEF IInv, TypeOK
<1>2. \A p \in Procs : Wakes(p)'
  BY DEF IInv, Wakes
<1>3. \A d \in Clients : SameAt(d)
  BY DEF SameAt, Pending
<1>4. QED
  BY <1>1, <1>2, <1>3, NoConnection

LEMMA NextInv ==
  ASSUME IInv, [Next]_vars
  PROVE  IInv'
<1>1. ASSUME NEW c \in Clients, on_event(c)
      PROVE  IInv'
  BY <1>1, AddrResolvedStep, RouteResolvedStep, ConnectRequestStep,
     ConnectionStep, DisconnectServerStep, DisconnectClientStep DEF on_event
<1>2. ASSUME NEW c \in Clients, NEW s \in Sides, Arrives(s, c) \/ Acked(s, c)
      PROVE  IInv'
  BY <1>2, ArrivesStep, AckedStep
<1>3. ASSUME NEW p \in Procs, Poller(p)
      PROVE  IInv'
  BY <1>3, GetCqEventStep, PollCqStep, CompletionClientStep,
     CompletionServerStep DEF Poller
<1>4. CASE UNCHANGED vars
  BY <1>4, StutterInv
<1>5. QED
  BY <1>1, <1>2, <1>3, <1>4 DEF Next

(* The connections of any number of clients keep the inductive invariant.    *)
THEOREM InductiveInvariant == Spec => []IInv
<1>1. Init => IInv
  BY InitInv
<1>2. IInv /\ [Next]_vars => IInv'
  BY NextInv
<1>3. QED
  BY <1>1, <1>2, PTL DEF Spec

-----------------------------------------------------------------------------
(* What it shows                                                             *)

(* Every variable keeps its type; above all no completion is ever an error:  *)
(* no send finds its peer without a receive (rnr_retry_count is 0), and      *)
(* rdma_disconnect flushes nothing.                                          *)
THEOREM TypeCorrect == Spec => []TypeOK
<1>1. IInv => TypeOK
  BY DEF IInv
<1>2. QED
  BY <1>1, InductiveInvariant, PTL

(* A process dies only where the server's poller reads a connection that     *)
(* on_disconnect, in the event thread, has freed, after its client's swap.   *)
THEOREM OnlyFreedKills == Spec => []OnlyAFreedConnectionKills
<1>1. ASSUME IInv
      PROVE  OnlyAFreedConnectionKills
  <2>1. ASSUME NEW c \in Clients, printed["server"][c] = "freed"
        PROVE  discon[c] /\ printed["client"][c] = "message"
    <3>1. gone["server"][c] /\ Conn(c)
      BY <1>1, <2>1 DEF IInv, FreedIsGone
    <3>2. QED
      BY <3>1 DEF Conn, Swapping, Swapped
  <2>2. QED
    BY <1>1, <2>1 DEF IInv, DeathsAreFreed, OnlyAFreedConnectionKills
<1>2. QED
  BY <1>1, InductiveInvariant, PTL

(* The second completion of a client means that it has printed the server's  *)
(* message, and that its own is with the server.                             *)
THEOREM DisconnectsAfterSwap == Spec => []DisconnectsAfterTheSwap
<1>1. ASSUME IInv
      PROVE  DisconnectsAfterTheSwap
  <2>1. ASSUME NEW c \in Clients, discon[c]
        PROVE  /\ printed["client"][c] = "message"
               /\ told["server"][c] /\ posted["server"][c] = 0
               /\ \/ printed["server"][c] # "nothing" \/ gone["server"][c]
                  \/ Pending(Server, c)
    <3>1. Conn(c) /\ Swapped(c)
      BY <1>1, <2>1 DEF IInv, Conn, Swapping
    <3>2. cm[c] = "accepted" /\ posted["server"][c] = 0
      BY <3>1, ProcsFacts DEF Swapped
    <3>3. QED
      BY <3>1, <3>2 DEF Conn, NotLost, Swapped
  <2>2. QED
    BY <2>1 DEF DisconnectsAfterTheSwap, Pending
<1>2. QED
  BY <1>1, InductiveInvariant, PTL

(* A poller asleep in ibv_get_cq_event on a queue that is not empty has an   *)
(* event to wake it.                                                         *)
THEOREM NoWakeUpLost == Spec => []SleepsOnlyWhenDrained
<1>1. IInv => SleepsOnlyWhenDrained
  BY DEF IInv, Wakes, SleepsOnlyWhenDrained
<1>2. QED
  BY <1>1, InductiveInvariant, PTL
===============================================================================
