----------------------- MODULE RdmaFileTransfer_proofs ------------------------
(*****************************************************************************)
(* The safety of the file transfer, for any set of clients, any lengths of   *)
(* their files and any naming of them.                                       *)
(*                                                                           *)
(* The two ends of a connection take turns.  At any time the turn is in one  *)
(* place: in a message of the server on its way, in the client's queue or    *)
(* handler, in a write on its way, in the server's queue or handler.  The    *)
(* inductive invariant says for each place what the buffers, the queues and  *)
(* the file then hold; an action takes the turn from one place to the next.  *)
(*****************************************************************************)
EXTENDS RdmaFileTransfer, SequenceTheorems, FiniteSetTheorems, TLAPS

(* The server has the first k chunks of the file of c.                       *)
Holds(c, k) == opened[c] /\ file[name[c]] = Part(c, k)

(* What the server's message means: MR asks for the name, READY for the next *)
(* chunk, and DONE ends the transfer.                                        *)
Answers(c, msg) ==
  \/ msg = "MR" /\ ~opened[c] /\ offset[c] = 0
  \/ msg = "READY" /\ Holds(c, offset[c])
  \/ msg = "DONE" /\ offset[c] = Chunks[c] /\ Holds(c, offset[c])

(* What a write of this size brings from this buffer: the name, the chunk    *)
(* that the client has read last, or the end.                                *)
Carries(c, size, buf) ==
  \/ size = 1 /\ buf = name[c] /\ ~opened[c] /\ offset[c] = 0
  \/ size = 1 /\ buf = <<c, offset[c]>> /\ 0 < offset[c]
     /\ Holds(c, offset[c] - 1)
  \/ size = 0 /\ offset[c] = Chunks[c] /\ Holds(c, offset[c])

(* The client waits for the answer, or is about to post the receive for it.  *)
Waits(c) ==
  /\ conn[c] = "up" /\ cMsg[c] # "DONE"
  /\ \/ cAt[c] = "poll" /\ cRecv[c] = 1
     \/ cAt[c] = "post" /\ cRecv[c] = 0

(* The write has arrived: its completion may be due, waiting or dealt with.  *)
Arrived(c) ==
  /\ writes[c] = <<>>
  /\ \/ cUnacked[c] = 0 /\ cCq[c] \in {<<>>, <<"write">>}
     \/ cUnacked[c] = 1 /\ cCq[c] = <<>>

(* The server has left the connection alone since its send: the queue holds  *)
(* at most the completion of that send.                                      *)
NoneQueued(c) == \A i \in DOMAIN sCq : sCq[i].conn # c
Sent(c) ==
  /\ sends[c] = 0 /\ sAt.conn # c
  /\ \A i \in DOMAIN sCq : sCq[i].conn = c => sCq[i].what = "send"
  /\ sUnacked[c] = 1 => NoneQueued(c)

-----------------------------------------------------------------------------
(* Where the turn is                                                         *)

SetUp(c) ==
  /\ conn[c] \in {"none", "resolved", "requested", "accepted", "confirmed"}
  /\ cAt[c] = "poll" /\ cMsg[c] = None /\ offset[c] = 0 /\ ~opened[c]
  /\ cRecv[c] = IF conn[c] = "none" THEN 0 ELSE 1
  /\ conn[c] \in {"none", "resolved", "requested"} => sRecv[c] = 0
  /\ cCq[c] = <<>> /\ writes[c] = <<>> /\ cUnacked[c] = 0
  /\ sUnacked[c] = 0 /\ Sent(c) /\ NoneQueued(c)

AnswerPosted(c) ==
  /\ Waits(c) /\ Arrived(c)
  /\ sends[c] = 1 /\ sUnacked[c] = 0 /\ sAt.conn # c /\ NoneQueued(c)
  /\ Answers(c, sMsg[c])

AnswerQueued(c) ==
  /\ conn[c] = "up" /\ cAt[c] = "poll" /\ cRecv[c] = 0
  /\ writes[c] = <<>> /\ cUnacked[c] = 0
  /\ cCq[c] \in {<<"recv">>, <<"write", "recv">>}
  /\ Sent(c) /\ Answers(c, cMsg[c])

AnswerHandled(c) ==
  /\ conn[c] = "up" /\ cAt[c] = "handle" /\ cRecv[c] = 0
  /\ writes[c] = <<>> /\ cUnacked[c] = 0 /\ cCq[c] = <<>>
  /\ Sent(c) /\ Answers(c, cMsg[c])

WritePosted(c) ==
  /\ Waits(c) /\ cUnacked[c] = 0 /\ cCq[c] = <<>>
  /\ Sent(c)
  /\ \E size \in {0, 1} :
       writes[c] = <<size>> /\ Carries(c, size, cBuf[c])

WriteQueued(c) ==
  /\ Waits(c) /\ Arrived(c)
  /\ sends[c] = 0 /\ sUnacked[c] = 0 /\ sAt.conn # c /\ sRecv[c] = 0
  /\ \E i \in DOMAIN sCq : /\ sCq[i].conn = c /\ sCq[i].what = "recv"
                           /\ Carries(c, sCq[i].size, sBuf[c])

WriteHandled(c) ==
  /\ Waits(c) /\ Arrived(c)
  /\ sends[c] = 0 /\ sUnacked[c] = 0 /\ sAt.conn = c /\ NoneQueued(c)
  /\ \/ sAt.step = "handle" /\ sRecv[c] = 0 /\ Carries(c, sAt.size, sBuf[c])
     \/ sAt.step = "post" /\ sRecv[c] = 0 /\ Holds(c, offset[c])
     \/ sAt.step = "answer" /\ Holds(c, offset[c])

(* The client has disconnected, or has died reading its file.                *)
Ended(c) ==
  /\ conn[c] \in {"down", "closed"}
  /\ \/ cMsg[c] = "DONE" /\ cAt[c] \in {"poll", "exited"}
     \/ cMsg[c] = "READY" /\ cAt[c] = "died"
  /\ cCq[c] = <<>> /\ Sent(c) /\ Answers(c, cMsg[c])

(* The client has gone after the server.                                     *)
Lost(c) ==
  /\ ~alive /\ cAt[c] \in {"exited", "died"} /\ conn[c] # "closed"
  /\ "error" \notin ToSet(cCq[c])
  /\ opened[c] => \E k \in 0..Chunks[c] : Holds(c, k)
  /\ cMsg[c] = "DONE" => Holds(c, Chunks[c])

Turn(c) ==
  \/ SetUp(c) \/ AnswerPosted(c) \/ AnswerQueued(c) \/ AnswerHandled(c)
  \/ WritePosted(c) \/ WriteQueued(c) \/ WriteHandled(c)
  \/ Ended(c) \/ Lost(c)

(* Of two completions of a connection in the server's queue, the first is of *)
(* a send and the second of a receive.                                       *)
SendBeforeRecv ==
  \A i, j \in DOMAIN sCq :
    i < j /\ sCq[i].conn = sCq[j].conn =>
      sCq[i].what = "send" /\ sCq[j].what = "recv"

(* No two connections have the same file open.                               *)
OneWriterEach ==
  \A c, d \in Clients : opened[c] /\ opened[d] /\ name[c] = name[d] => c = d

(* The poller is between two completions just when it is at no connection.   *)
PollerAtWork == sAt.step = "poll" <=> sAt.conn = None

IInv ==
  /\ TypeOK /\ SendBeforeRecv /\ OneWriterEach /\ PollerAtWork
  /\ \A c \in Clients : Turn(c)

-----------------------------------------------------------------------------
(* Lemmas about the operators                                                *)

(* Appending the next chunk to the first k - 1 gives the first k.            *)
LEMMA PartAppend ==
  ASSUME NEW c, NEW k \in Nat, 0 < k
  PROVE  Append(Part(c, k - 1), <<c, k>>) = Part(c, k)
<1> DEFINE s == Part(c, k - 1)
<1>1. s \in Seq({<<c, i>> : i \in Nat}) /\ Len(s) = k - 1
  BY DEF Part
<1>2. /\ Append(s, <<c, k>>) \in Seq({<<c, i>> : i \in Nat})
      /\ Len(Append(s, <<c, k>>)) = k
      /\ Append(s, <<c, k>>)[k] = <<c, k>>
      /\ \A i \in 1..k - 1 : Append(s, <<c, k>>)[i] = <<c, i>>
  BY <1>1 DEF Part
<1>3. DOMAIN Append(s, <<c, k>>) = 1..k
  BY <1>2
<1>4. \A i \in 1..k : Append(s, <<c, k>>)[i] = <<c, i>>
  BY <1>2
<1>5. Append(s, <<c, k>>) = [i \in 1..k |-> Append(s, <<c, k>>)[i]]
  BY <1>2, <1>3
<1>6. QED
  BY <1>4, <1>5 DEF Part

LEMMA PartIsPrefix ==
  ASSUME NEW c, NEW n \in Nat, NEW k \in 0..n
  PROVE  IsPrefix(Part(c, k), Part(c, n))
<1>1. /\ Part(c, k) \in Seq({<<c, i>> : i \in Nat}) /\ Len(Part(c, k)) = k
      /\ Part(c, n) \in Seq({<<c, i>> : i \in Nat}) /\ Len(Part(c, n)) = n
  BY DEF Part
<1>2. SubSeq(Part(c, k), 1, k) = [i \in 1..k |-> <<c, i>>]
  BY <1>1 DEF Part
<1>3. SubSeq(Part(c, n), 1, k) = [i \in 1..k |-> <<c, i>>]
  BY <1>1 DEF Part
<1>4. k <= n
  OBVIOUS
<1>5. QED
  BY <1>1, <1>2, <1>3, <1>4, Zenon DEF IsPrefix

-----------------------------------------------------------------------------
(* A step leaves a connection where it was when it changes nothing of it.    *)

SameAt(d) ==
  /\ conn'[d] = conn[d] /\ name' = name
  /\ cAt'[d] = cAt[d] /\ offset'[d] = offset[d] /\ cBuf'[d] = cBuf[d]
  /\ cMsg'[d] = cMsg[d] /\ cRecv'[d] = cRecv[d] /\ cCq'[d] = cCq[d]
  /\ writes'[d] = writes[d] /\ cUnacked'[d] = cUnacked[d]
  /\ alive' => alive
  /\ \/ sAt' = sAt
     \/ sAt.conn # d /\ sAt'.conn # d
  /\ opened'[d] = opened[d]
  /\ opened[d] => file'[name[d]] = file[name[d]]
  /\ sBuf'[d] = sBuf[d] /\ sMsg'[d] = sMsg[d] /\ sRecv'[d] = sRecv[d]
  /\ sends'[d] = sends[d] /\ sUnacked'[d] = sUnacked[d]

(* Its entries in the server's queue may move, and completions of its sends  *)
(* may be gone, but none is new.                                             *)
SameQueued(d) ==
  /\ \A i \in DOMAIN sCq' : sCq'[i].conn = d =>
       \E j \in DOMAIN sCq : sCq[j] = sCq'[i]
  /\ \A i \in DOMAIN sCq : sCq[i].conn = d /\ sCq[i].what = "recv" =>
       \E j \in DOMAIN sCq' : sCq'[j] = sCq[i]

LEMMA TurnFrame ==
  ASSUME NEW d \in Clients, Turn(d), SameAt(d), SameQueued(d)
  PROVE  Turn(d)'
<1>1. \A k : Holds(d, k) => Holds(d, k)'
  BY DEF Holds, SameAt
<1>2. \A m : Answers(d, m) => Answers(d, m)'
  BY <1>1 DEF Answers, SameAt, Holds
<1>3. \A z, b : Carries(d, z, b) => Carries(d, z, b)'
  BY <1>1 DEF Carries, SameAt, Holds
<1>4. /\ NoneQueued(d) => NoneQueued(d)'
      /\ Sent(d) => Sent(d)'
      /\ Waits(d) => Waits(d)' 
      /\ Arrived(d) => Arrived(d)'
  BY DEF NoneQueued, Sent, Waits, Arrived, SameAt, SameQueued
<1>5. SetUp(d) => SetUp(d)'
  BY <1>4 DEF SetUp, SameAt
<1>6. AnswerPosted(d) => AnswerPosted(d)'
  BY <1>2, <1>4 DEF AnswerPosted, SameAt
<1>7. AnswerQueued(d) => AnswerQueued(d)'
  BY <1>2, <1>4 DEF AnswerQueued, SameAt
<1>8. AnswerHandled(d) => AnswerHandled(d)'
  BY <1>2, <1>4 DEF AnswerHandled, SameAt
<1>9. WritePosted(d) => WritePosted(d)'
  BY <1>3, <1>4 DEF WritePosted, SameAt
<1>10. WriteQueued(d) => WriteQueued(d)'
  BY <1>3, <1>4 DEF WriteQueued, SameAt, SameQueued
<1>11. WriteHandled(d) => WriteHandled(d)'
  BY <1>1, <1>3, <1>4 DEF WriteHandled, SameAt
<1>12. Ended(d) => Ended(d)'
  BY <1>2, <1>4 DEF Ended, SameAt
<1>13. Lost(d) => Lost(d)'
  BY <1>1 DEF Lost, SameAt
<1>14. QED
  BY <1>5, <1>6, <1>7, <1>8, <1>9, <1>10, <1>11, <1>12, <1>13 DEF Turn

(* The steps that leave the server's queue and its set of open files alone.  *)
LEMMA OneConnection ==
  ASSUME IInv, NEW c \in Clients, TypeOK', Turn(c)', PollerAtWork',
         \A d \in Clients \ {c} : SameAt(d),
         sCq' = sCq, opened' = opened, name' = name
  PROVE  IInv'
<1>1. \A d \in Clients : SameQueued(d)
  BY DEF SameQueued
<1>2. \A d \in Clients \ {c} : Turn(d)'
  BY <1>1, TurnFrame DEF IInv
<1>3. SendBeforeRecv' /\ OneWriterEach'
  BY DEF IInv, SendBeforeRecv, OneWriterEach
<1>4. QED
  BY <1>2, <1>3 DEF IInv

(* A step that changes only the client's side, and its connection.           *)
LEMMA ClientSide ==
  ASSUME IInv, NEW c \in Clients, TypeOK', Turn(c)', UNCHANGED server,
         name' = name,
         \A d \in Clients \ {c} :
           /\ conn'[d] = conn[d] /\ cAt'[d] = cAt[d] /\ offset'[d] = offset[d]
           /\ cBuf'[d] = cBuf[d] /\ cMsg'[d] = cMsg[d]
           /\ cRecv'[d] = cRecv[d] /\ cCq'[d] = cCq[d]
           /\ writes'[d] = writes[d] /\ cUnacked'[d] = cUnacked[d]
  PROVE  IInv'
<1>1. \A d \in Clients \ {c} : SameAt(d)
  BY DEF SameAt, server
<1>2. PollerAtWork'
  BY DEF IInv, PollerAtWork, server
<1>3. QED
  BY <1>1, <1>2, OneConnection DEF server

-----------------------------------------------------------------------------
(* Connection set-up                                                         *)

LEMMA AddrResolvedStep ==
  ASSUME IInv, NEW c \in Clients, OnAddrResolved(c)
  PROVE  IInv'
<1> USE DEF OnAddrResolved, ConnGoto, Add, server
<1>1. SetUp(c) /\ TypeOK
  BY DEF IInv, Turn, SetUp, AnswerPosted, AnswerQueued, AnswerHandled,
     WritePosted, WriteQueued, WriteHandled, Waits, Ended, Lost, Running
<1>2. TypeOK'
  BY <1>1 DEF TypeOK, SetUp
<1>3. SetUp(c)'
  BY <1>1 DEF SetUp, TypeOK, Sent, NoneQueued
<1>4. QED
  BY <1>1, <1>2, <1>3, ClientSide DEF Turn, TypeOK

(* The two events of the client that only move the connection on.            *)
LEMMA ClientEventStep ==
  ASSUME IInv, NEW c \in Clients,
         OnRouteResolved(c) \/ OnClientEstablished(c)
  PROVE  IInv'
<1> USE DEF OnRouteResolved, OnClientEstablished, ConnGoto, server, client
<1>1. SetUp(c) /\ TypeOK
  BY DEF IInv, Turn, SetUp, AnswerPosted, AnswerQueued, AnswerHandled,
     WritePosted, WriteQueued, WriteHandled, Waits, Ended, Lost, Running
<1>2. TypeOK'
  <2>1. CASE OnRouteResolved(c)
    BY <1>1, <2>1 DEF TypeOK
  <2>2. CASE OnClientEstablished(c)
    BY <1>1, <2>2 DEF TypeOK
  <2>3. QED
    BY <2>1, <2>2
<1>3. SetUp(c)'
  BY <1>1 DEF SetUp, TypeOK, Sent, NoneQueued
<1>4. QED
  BY <1>1, <1>2, <1>3, ClientSide DEF Turn, TypeOK

LEMMA ConnectRequestStep ==
  ASSUME IInv, NEW c \in Clients, OnConnectRequest(c)
  PROVE  IInv'
<1> USE DEF OnConnectRequest, ConnGoto, Add, client
<1>1. SetUp(c) /\ TypeOK
  BY DEF IInv, Turn, SetUp, AnswerPosted, AnswerQueued, AnswerHandled,
     WritePosted, WriteQueued, WriteHandled, Waits, Ended, Lost
<1>2. TypeOK'
  BY <1>1 DEF TypeOK, SetUp
<1>3. SetUp(c)'
  BY <1>1 DEF SetUp, TypeOK, Sent, NoneQueued
<1>4. \A d \in Clients \ {c} : SameAt(d)
  BY <1>1 DEF SameAt, TypeOK
<1>5. PollerAtWork'
  BY DEF IInv, PollerAtWork
<1>6. QED
  BY <1>2, <1>3, <1>4, <1>5, OneConnection DEF Turn

(* ESTABLISHED: the memory region is the first message.                      *)
LEMMA EstablishedStep ==
  ASSUME IInv, NEW c \in Clients, OnEstablished(c)
  PROVE  IInv'
<1> USE DEF OnEstablished, ConnGoto, Send, Add, client
<1>1. SetUp(c) /\ TypeOK
  BY DEF IInv, Turn, SetUp, AnswerPosted, AnswerQueued, AnswerHandled,
     WritePosted, WriteQueued, WriteHandled, Waits, Ended, Lost
<1>2. TypeOK'
  BY <1>1 DEF TypeOK, SetUp, Sent, Msgs
<1>3. AnswerPosted(c)'
  BY <1>1, <1>2, NoneAssumption DEF SetUp, AnswerPosted, Waits, Arrived,
     Answers, TypeOK, Sent, NoneQueued
<1>4. \A d \in Clients \ {c} : SameAt(d)
  BY <1>1 DEF SameAt, TypeOK
<1>5. PollerAtWork'
  BY DEF IInv, PollerAtWork
<1>6. QED
  BY <1>2, <1>3, <1>4, <1>5, OneConnection DEF Turn

(* DISCONNECTED: the server forgets what the connection had posted.          *)
LEMMA DisconnectedStep ==
  ASSUME IInv, NEW c \in Clients, OnDisconnected(c)
  PROVE  IInv'
<1> USE DEF OnDisconnected, ConnGoto, client
<1>1. Ended(c) /\ TypeOK
  BY DEF IInv, Turn, SetUp, AnswerPosted, AnswerQueued, AnswerHandled,
     WritePosted, WriteQueued, WriteHandled, Waits, Ended, Lost
<1>2. TypeOK'
  BY <1>1 DEF TypeOK
<1>3. Ended(c)'
  BY <1>1 DEF Ended, Answers, Holds, TypeOK, Sent, NoneQueued
<1>4. \A d \in Clients \ {c} : SameAt(d)
  BY <1>1 DEF SameAt, TypeOK
<1>5. PollerAtWork'
  BY DEF IInv, PollerAtWork
<1>6. QED
  BY <1>2, <1>3, <1>4, <1>5, OneConnection DEF Turn

-----------------------------------------------------------------------------
(* What every turn has in common                                             *)

(* Whoever has the turn, an open file is a part of the client's file.        *)
LEMMA OpenFileIsAPart ==
  ASSUME TypeOK, NEW c \in Clients, Turn(c), opened[c]
  PROVE  \E k \in 0..Chunks[c] : Holds(c, k)
<1>1. /\ Chunks[c] \in Nat /\ offset[c] \in Nat /\ offset[c] <= Chunks[c]
      /\ offset[c] \in 0..Chunks[c]
      /\ 0 < offset[c] => offset[c] - 1 \in 0..Chunks[c]
  BY ChunksAssumption DEF TypeOK
<1>2. \A m : Answers(c, m) => Holds(c, offset[c])
  BY DEF Answers
<1>3. \A z, b : Carries(c, z, b) =>
        Holds(c, offset[c]) \/ (0 < offset[c] /\ Holds(c, offset[c] - 1))
  BY DEF Carries
<1>4. CASE Lost(c)
  BY <1>4 DEF Lost
<1>5. CASE ~Lost(c)
  <2>1. \/ Holds(c, offset[c])
        \/ 0 < offset[c] /\ Holds(c, offset[c] - 1)
    BY <1>2, <1>3, <1>5 DEF Turn, SetUp, AnswerPosted, AnswerQueued,
       AnswerHandled, WritePosted, WriteQueued, WriteHandled, Ended
  <2>2. QED
    BY <1>1, <2>1
<1>6. QED
  BY <1>4, <1>5

(* A client that has seen DONE has its whole file on the server.             *)
LEMMA DoneHoldsAll ==
  ASSUME NEW c \in Clients, Turn(c), cMsg[c] = "DONE"
  PROVE  Holds(c, Chunks[c])
<1>1. Answers(c, cMsg[c]) => Holds(c, Chunks[c])
  BY DEF Answers
<1>2. QED
  BY <1>1, NoneAssumption DEF Turn, SetUp, AnswerPosted, AnswerQueued,
     AnswerHandled, WritePosted, WriteQueued, WriteHandled, Waits, Ended, Lost

LEMMA NoErrorInTurn ==
  ASSUME NEW c \in Clients, Turn(c)
  PROVE  "error" \notin ToSet(cCq[c])
<1>1. CASE cCq[c] \in {<<>>, <<"write">>, <<"recv">>, <<"write", "recv">>}
  <2>1. \/ ToSet(cCq[c]) = {} \/ ToSet(cCq[c]) = {"write"}
        \/ ToSet(cCq[c]) = {"recv"} \/ ToSet(cCq[c]) = {"write", "recv"}
    BY <1>1 DEF ToSet
  <2>2. QED
    BY <2>1
<1>2. CASE Lost(c)
  BY <1>2 DEF Lost
<1>3. QED
  BY <1>1, <1>2 DEF Turn, SetUp, AnswerPosted, AnswerQueued, AnswerHandled,
     WritePosted, WriteQueued, WriteHandled, Arrived, Ended

-----------------------------------------------------------------------------
(* The client ends                                                           *)

(* A client that leaves after the server may leave in the middle of a turn.  *)
LEMMA LeavesAfterServer ==
  ASSUME IInv, NEW c \in Clients, ~alive, conn[c] # "closed",
         conn'[c] # "closed", cAt'[c] \in {"exited", "died"},
         UNCHANGED <<name, cMsg, cCq, server>>
  PROVE  Lost(c)'
<1>1. /\ "error" \notin ToSet(cCq[c])
      /\ opened[c] => \E k \in 0..Chunks[c] : Holds(c, k)
      /\ cMsg[c] = "DONE" => Holds(c, Chunks[c])
  BY NoErrorInTurn, OpenFileIsAPart, DoneHoldsAll DEF IInv
<1>2. \A k : Holds(c, k) => Holds(c, k)'
  BY DEF Holds, server
<1>3. QED
  BY <1>1, <1>2 DEF Lost, server

LEMMA ClientDisconnectedStep ==
  ASSUME IInv, NEW c \in Clients, OnClientDisconnected(c)
  PROVE  IInv'
<1> USE DEF OnClientDisconnected
<1>1. TypeOK
  BY DEF IInv
<1>2. TypeOK'
  BY <1>1 DEF TypeOK, server
<1>3. Turn(c)'
  <2>1. CASE conn[c] \in {"down", "closed"}
    <3>1. Ended(c)
      BY <2>1 DEF IInv, Turn, SetUp, AnswerPosted, AnswerQueued,
         AnswerHandled, WritePosted, WriteQueued, WriteHandled, Waits, Lost,
         Running
    <3>2. Ended(c)'
      BY <1>1, <3>1 DEF Ended, Running, Answers, Holds, TypeOK, Sent,
         NoneQueued, server
    <3>3. QED
      BY <3>2 DEF Turn
  <2>2. CASE conn[c] \in {"confirmed", "up"} /\ ~alive
    <3>1. cAt'[c] = "exited"
      BY <1>1 DEF TypeOK
    <3>2. QED
      BY <2>2, <3>1, LeavesAfterServer DEF Turn
  <2>3. QED
    BY <2>1, <2>2
<1>4. QED
  BY <1>1, <1>2, <1>3, ClientSide DEF TypeOK

LEMMA RejectedStep ==
  ASSUME IInv, NEW c \in Clients, OnRejected(c)
  PROVE  IInv'
<1> USE DEF OnRejected, ClientDies
<1>1. TypeOK
  BY DEF IInv
<1>2. TypeOK'
  BY <1>1 DEF TypeOK, server
<1>3. cAt'[c] = "died" /\ conn'[c] = "down"
  BY <1>1 DEF TypeOK
<1>4. Turn(c)'
  BY <1>3, LeavesAfterServer DEF Turn
<1>5. QED
  BY <1>1, <1>2, <1>4, ClientSide DEF TypeOK

-----------------------------------------------------------------------------
(* The client's poller                                                       *)

(* Polling takes one completion, which is no error.                          *)
LEMMA PollTakesOne ==
  ASSUME IInv, NEW c \in Clients, ClientPoll(c),
         NEW q \in Seq({"recv", "write", "error"}),
         Head(cCq[c]) \in {"recv", "write"}, Tail(cCq[c]) = q
  PROVE  /\ cAt[c] = "poll"
         /\ cAt' = [cAt EXCEPT ![c] = IF Head(cCq[c]) = "recv"
                                      THEN "handle" ELSE "poll"]
         /\ cCq' = [cCq EXCEPT ![c] = q]
         /\ UNCHANGED <<name, conn, offset, cBuf, cMsg, cRecv, writes,
                        cUnacked, server>>
         /\ TypeOK'
         /\ Turn(c)' => IInv'
<1>1. /\ cAt[c] = "poll"
      /\ cAt' = [cAt EXCEPT ![c] = IF Head(cCq[c]) = "recv"
                                   THEN "handle" ELSE "poll"]
      /\ cCq' = [cCq EXCEPT ![c] = q]
      /\ UNCHANGED <<name, conn, offset, cBuf, cMsg, cRecv, writes, cUnacked,
                     server>>
  BY DEF ClientPoll
<1>2. TypeOK
  BY DEF IInv
<1>3. TypeOK'
  BY <1>1, <1>2 DEF TypeOK, server
<1>4. Turn(c)' => IInv'
  BY <1>1, <1>2, <1>3, ClientSide DEF TypeOK
<1>5. QED
  BY <1>1, <1>3, <1>4

(* Polling takes the completion of a write, or the answer and its turn.      *)
LEMMA ClientPollStep ==
  ASSUME IInv, NEW c \in Clients, ClientPoll(c)
  PROVE  IInv'
<1>1. TypeOK /\ cAt[c] = "poll" /\ cCq[c] # <<>>
  BY DEF IInv, ClientPoll
<1>2. CASE AnswerQueued(c) /\ cCq[c] = <<"recv">>
  <2>1. /\ Head(cCq[c]) = "recv" /\ Tail(cCq[c]) = <<>>
        /\ <<>> \in Seq({"recv", "write", "error"})
    BY <1>2
  <2>2. /\ cAt' = [cAt EXCEPT ![c] = "handle"]
        /\ cCq' = [cCq EXCEPT ![c] = <<>>]
        /\ UNCHANGED <<name, conn, offset, cBuf, cMsg, cRecv, writes,
                       cUnacked, server>>
    BY <2>1, PollTakesOne
  <2>3. AnswerHandled(c)'
    BY <1>1, <1>2, <2>2 DEF AnswerQueued, AnswerHandled, Answers, Holds,
       Sent, NoneQueued, TypeOK, server
  <2>4. QED
    BY <2>1, <2>3, PollTakesOne DEF Turn
<1>3. CASE AnswerQueued(c) /\ cCq[c] = <<"write", "recv">>
  <2>1. /\ Head(cCq[c]) = "write" /\ Tail(cCq[c]) = <<"recv">>
        /\ <<"recv">> \in Seq({"recv", "write", "error"})
    BY <1>3
  <2>2. /\ cAt' = [cAt EXCEPT ![c] = "poll"]
        /\ cCq' = [cCq EXCEPT ![c] = <<"recv">>]
        /\ UNCHANGED <<name, conn, offset, cBuf, cMsg, cRecv, writes,
                       cUnacked, server>>
    BY <2>1, PollTakesOne
  <2>3. AnswerQueued(c)'
    BY <1>1, <1>3, <2>2 DEF AnswerQueued, Answers, Holds, Sent, NoneQueued,
       TypeOK, server
  <2>4. QED
    BY <2>1, <2>3, PollTakesOne DEF Turn
<1>4. CASE Arrived(c) /\ Waits(c)
  <2>1. cCq[c] = <<"write">> /\ cUnacked[c] = 0
    BY <1>1, <1>4 DEF Arrived
  <2>2. /\ Head(cCq[c]) = "write" /\ Tail(cCq[c]) = <<>>
        /\ <<>> \in Seq({"recv", "write", "error"})
    BY <2>1
  <2>3. /\ cAt' = [cAt EXCEPT ![c] = "poll"]
        /\ cCq' = [cCq EXCEPT ![c] = <<>>]
        /\ UNCHANGED <<name, conn, offset, cBuf, cMsg, cRecv, writes,
                       cUnacked, server>>
    BY <2>2, PollTakesOne
  <2>4. Arrived(c)' /\ Waits(c)'
    BY <1>1, <1>4, <2>1, <2>3 DEF Arrived, Waits, TypeOK
  <2>5. AnswerPosted(c) => AnswerPosted(c)'
    BY <2>3, <2>4 DEF AnswerPosted, Answers, Holds, NoneQueued, server
  <2>6. WriteQueued(c) => WriteQueued(c)'
    BY <2>3, <2>4 DEF WriteQueued, Carries, Holds, server
  <2>7. WriteHandled(c) => WriteHandled(c)'
    BY <2>3, <2>4 DEF WriteHandled, Carries, Holds, NoneQueued, server
  <2>8. AnswerPosted(c) \/ WriteQueued(c) \/ WriteHandled(c)
    BY <1>1, <1>4 DEF IInv, Turn, SetUp, AnswerQueued, AnswerHandled,
       WritePosted, Ended, Lost, Waits
  <2>9. QED
    BY <2>2, <2>5, <2>6, <2>7, <2>8, PollTakesOne DEF Turn
<1>5. QED
  BY <1>1, <1>2, <1>3, <1>4 DEF IInv, Turn, SetUp, AnswerPosted, AnswerQueued,
     AnswerHandled, WritePosted, WriteQueued, WriteHandled, Ended, Lost

(* A client in its handler has the answer to handle.                         *)
LEMMA HandlerHasTheAnswer ==
  ASSUME IInv, NEW c \in Clients, cAt[c] = "handle"
  PROVE  AnswerHandled(c)
BY DEF IInv, Turn, SetUp, AnswerPosted, AnswerQueued, WritePosted,
   WriteQueued, WriteHandled, Waits, Ended, Lost

(* MSG_MR: the turn goes to the write of the name.                           *)
LEMMA ClientOnMRStep ==
  ASSUME IInv, NEW c \in Clients, ClientOnMR(c)
  PROVE  IInv'
<1> USE DEF ClientOnMR, CGoto, Push
<1>1. TypeOK /\ AnswerHandled(c)
  BY HandlerHasTheAnswer DEF IInv
<1>2. /\ writes[c] = <<>> /\ Append(writes[c], 1) = <<1>>
      /\ <<1>> \in Seq({0, 1})
  BY <1>1 DEF AnswerHandled
<1>3. /\ cAt' = [cAt EXCEPT ![c] = "post"]
      /\ cBuf' = [cBuf EXCEPT ![c] = name[c]]
      /\ writes' = [writes EXCEPT ![c] = <<1>>]
      /\ UNCHANGED <<name, conn, offset, cMsg, cRecv, cCq, cUnacked, server>>
  BY <1>1, <1>2 DEF TypeOK
<1>4. TypeOK'
  BY <1>1, <1>2, <1>3 DEF TypeOK, server
<1>5. Carries(c, 1, cBuf[c])'
  BY <1>1, <1>3 DEF AnswerHandled, Answers, Carries, TypeOK, server
<1>6. WritePosted(c)'
  BY <1>1, <1>3, <1>5 DEF AnswerHandled, WritePosted, Waits, Sent,
     NoneQueued, TypeOK, server
<1>7. QED
  BY <1>1, <1>3, <1>4, <1>6, ClientSide DEF Turn, TypeOK

(* MSG_READY: the turn goes to the write of a chunk, or of the end.          *)
LEMMA ClientOnReadyStep ==
  ASSUME IInv, NEW c \in Clients, ClientOnReady(c)
  PROVE  IInv'
<1>1. TypeOK /\ AnswerHandled(c) /\ cMsg[c] = "READY"
  BY HandlerHasTheAnswer DEF IInv, ClientOnReady, CGoto
<1>2. /\ writes[c] = <<>>
      /\ \A x \in {0, 1} : Append(writes[c], x) = <<x>> /\ <<x>> \in Seq({0, 1})
  BY <1>1 DEF AnswerHandled
<1>3. offset[c] \in Nat /\ Holds(c, offset[c])
  BY <1>1 DEF AnswerHandled, Answers, TypeOK
<1>4. CASE offset[c] < Chunks[c] /\ writes' = Push(writes, c, 1)
  <2>1. /\ cAt' = [cAt EXCEPT ![c] = "post"]
        /\ offset' = [offset EXCEPT ![c] = offset[c] + 1]
        /\ cBuf' = [cBuf EXCEPT ![c] = <<c, offset[c] + 1>>]
        /\ writes' = [writes EXCEPT ![c] = <<1>>]
        /\ UNCHANGED <<name, conn, cMsg, cRecv, cCq, cUnacked, server>>
    BY <1>1, <1>2, <1>4 DEF ClientOnReady, CGoto, Push, Add, TypeOK
  <2>2. TypeOK'
    <3>1. /\ offset' \in [Clients -> Nat]
          /\ \A d \in Clients : offset'[d] <= Chunks[d]
      <4>1. /\ offset[c] + 1 \in Nat /\ Chunks[c] \in Nat
            /\ offset[c] + 1 <= Chunks[c]
        BY <1>3, <1>4, ChunksAssumption
      <4>2. \A d \in Clients : offset'[d] = IF d = c THEN offset[c] + 1
                                            ELSE offset[d]
        BY <1>1, <2>1 DEF TypeOK
      <4>3. QED
        BY <1>1, <2>1, <4>1, <4>2 DEF TypeOK
    <3>2. QED
      BY <1>1, <1>2, <2>1, <3>1 DEF TypeOK, server
  <2>3. /\ offset'[c] = offset[c] + 1 /\ offset'[c] - 1 = offset[c]
        /\ 0 < offset'[c] /\ cBuf'[c] = <<c, offset'[c]>>
    BY <1>1, <1>3, <2>1 DEF TypeOK
  <2>4. Carries(c, 1, cBuf[c])'
    BY <1>3, <2>1, <2>3 DEF Carries, Holds, server
  <2>5. WritePosted(c)'
    BY <1>1, <2>1, <2>4 DEF AnswerHandled, WritePosted, Waits, Sent,
       NoneQueued, TypeOK, server
  <2>6. QED
    BY <1>1, <2>1, <2>2, <2>5, ClientSide DEF Turn, TypeOK
<1>5. CASE offset[c] = Chunks[c] /\ writes' = Push(writes, c, 0)
  <2>1. /\ cAt' = [cAt EXCEPT ![c] = "post"]
        /\ writes' = [writes EXCEPT ![c] = <<0>>]
        /\ UNCHANGED <<name, conn, offset, cBuf, cMsg, cRecv, cCq, cUnacked,
                       server>>
    <3>1. UNCHANGED <<offset, cBuf>>
      BY <1>1, <1>3, <1>5, ChunksAssumption DEF ClientOnReady
    <3>2. QED
      BY <1>1, <1>2, <1>5, <3>1 DEF ClientOnReady, CGoto, Push, TypeOK
  <2>2. TypeOK'
    BY <1>1, <1>2, <2>1 DEF TypeOK, server
  <2>3. Carries(c, 0, cBuf[c])'
    BY <1>3, <1>5, <2>1 DEF Carries, Holds, server
  <2>4. WritePosted(c)'
    BY <1>1, <2>1, <2>3 DEF AnswerHandled, WritePosted, Waits, Sent,
       NoneQueued, TypeOK, server
  <2>5. QED
    BY <1>1, <2>1, <2>2, <2>4, ClientSide DEF Turn, TypeOK
<1>6. QED
  BY <1>4, <1>5 DEF ClientOnReady

LEMMA ReadFailsStep ==
  ASSUME IInv, NEW c \in Clients, ReadFails(c)
  PROVE  IInv'
<1>1. TypeOK /\ AnswerHandled(c) /\ cMsg[c] = "READY"
  BY HandlerHasTheAnswer DEF IInv, ReadFails
<1>2. /\ cAt' = [cAt EXCEPT ![c] = "died"]
      /\ conn' = [conn EXCEPT ![c] = "down"]
      /\ UNCHANGED <<name, offset, cBuf, cMsg, cRecv, cCq, writes, cUnacked,
                     server>>
  BY <1>1 DEF ReadFails, ClientDies, AnswerHandled
<1>3. TypeOK'
  BY <1>1, <1>2 DEF TypeOK, server
<1>4. Ended(c)'
  BY <1>1, <1>2 DEF AnswerHandled, Ended, Answers, Holds, Sent, NoneQueued,
     TypeOK, server
<1>5. QED
  BY <1>1, <1>2, <1>3, <1>4, ClientSide DEF Turn, TypeOK

(* MSG_DONE: nothing is outstanding, so disconnecting flushes nothing.       *)
LEMMA ClientOnDoneStep ==
  ASSUME IInv, NEW c \in Clients, ClientOnDone(c)
  PROVE  IInv'
<1>1. TypeOK /\ AnswerHandled(c) /\ cMsg[c] = "DONE"
  BY HandlerHasTheAnswer DEF IInv, ClientOnDone, CGoto
<1>2. ~(cRecv[c] > 0 \/ writes[c] # <<>> \/ cUnacked[c] > 0)
  BY <1>1 DEF AnswerHandled
<1>3. /\ cAt' = [cAt EXCEPT ![c] = "poll"]
      /\ conn' = [conn EXCEPT ![c] = "down"]
      /\ cCq' = cCq
      /\ writes' = [writes EXCEPT ![c] = <<>>]
      /\ UNCHANGED <<name, offset, cBuf, cMsg, cRecv, cUnacked, server>>
  BY <1>2 DEF ClientOnDone, CGoto, Disconnect
<1>4. TypeOK'
  BY <1>1, <1>3 DEF TypeOK, server
<1>5. Ended(c)'
  BY <1>1, <1>3 DEF AnswerHandled, Ended, Answers, Holds, Sent, NoneQueued,
     TypeOK, server
<1>6. QED
  BY <1>1, <1>3, <1>4, <1>5, ClientSide DEF Turn, TypeOK

(* The receive is posted while the write is on its way, is being handled, or *)
(* is answered already: the connection is up.                                *)
LEMMA ClientPostReceiveStep ==
  ASSUME IInv, NEW c \in Clients, ClientPostReceive(c)
  PROVE  IInv'
<1>1. TypeOK /\ cAt[c] = "post"
  BY DEF IInv, ClientPostReceive, CGoto
<1>2. /\ Waits(c) /\ cRecv[c] = 0
      /\ AnswerPosted(c) \/ WritePosted(c) \/ WriteQueued(c) \/ WriteHandled(c)
  BY <1>1 DEF IInv, Turn, SetUp, AnswerPosted, AnswerQueued, AnswerHandled,
     WritePosted, WriteQueued, WriteHandled, Waits, Ended, Lost
<1>3. /\ cAt' = [cAt EXCEPT ![c] = "poll"]
      /\ cRecv' = [cRecv EXCEPT ![c] = 1]
      /\ UNCHANGED <<name, conn, offset, cBuf, cMsg, cCq, writes, cUnacked,
                     server>>
  BY <1>1, <1>2 DEF ClientPostReceive, CGoto, Add, Waits, TypeOK
<1>4. TypeOK'
  BY <1>1, <1>3 DEF TypeOK, server
<1>5. /\ Waits(c)' /\ (Arrived(c) => Arrived(c)') /\ (Sent(c) => Sent(c)')
      /\ NoneQueued(c) => NoneQueued(c)'
  BY <1>1, <1>2, <1>3 DEF Waits, Arrived, Sent, NoneQueued, TypeOK, server
<1>6. /\ \A m : Answers(c, m) => Answers(c, m)'
      /\ \A z, b : Carries(c, z, b) => Carries(c, z, b)'
      /\ Holds(c, offset[c]) => Holds(c, offset[c])'
  BY <1>3 DEF Answers, Carries, Holds, server
<1>7. AnswerPosted(c) => AnswerPosted(c)'
  BY <1>3, <1>5, <1>6 DEF AnswerPosted, server
<1>8. WritePosted(c) => WritePosted(c)'
  BY <1>3, <1>5, <1>6 DEF WritePosted
<1>9. WriteQueued(c) => WriteQueued(c)'
  BY <1>3, <1>5, <1>6 DEF WriteQueued, server
<1>10. WriteHandled(c) => WriteHandled(c)'
  BY <1>3, <1>5, <1>6 DEF WriteHandled, server
<1>11. Turn(c)'
  BY <1>2, <1>7, <1>8, <1>9, <1>10 DEF Turn
<1>12. QED
  BY <1>1, <1>3, <1>4, <1>11, ClientSide DEF TypeOK

-----------------------------------------------------------------------------
(* The server's completion queue                                             *)

LEMMA QueueGrows ==
  ASSUME TypeOK, NEW e \in Entries, sCq' = Append(sCq, e)
  PROVE  /\ sCq' \in Seq(Entries)
         /\ Len(sCq) + 1 \in DOMAIN sCq' /\ sCq'[Len(sCq) + 1] = e
         /\ \A i \in DOMAIN sCq :
              i \in DOMAIN sCq' /\ sCq'[i] = sCq[i] /\ i < Len(sCq) + 1
         /\ \A i \in DOMAIN sCq' : i \in DOMAIN sCq \/ i = Len(sCq) + 1
         /\ \A i \in DOMAIN sCq : ~(Len(sCq) + 1 < i)
         /\ \A d \in Clients : d # e.conn => SameQueued(d)
<1>1. sCq \in Seq(Entries) /\ Len(sCq) \in Nat /\ DOMAIN sCq = 1..Len(sCq)
  BY DEF TypeOK
<1>2. /\ sCq' \in Seq(Entries) /\ DOMAIN sCq' = 1..(Len(sCq) + 1)
      /\ sCq'[Len(sCq) + 1] = e
      /\ \A i \in 1..Len(sCq) : sCq'[i] = sCq[i]
  BY <1>1, AppendProperties
<1>3. \A i \in DOMAIN sCq :
        i \in DOMAIN sCq' /\ i < Len(sCq) + 1 /\ ~(Len(sCq) + 1 < i)
  BY <1>1, <1>2
<1>4. \A i \in DOMAIN sCq' : i \in DOMAIN sCq \/ i = Len(sCq) + 1
  BY <1>1, <1>2
<1>5. Len(sCq) + 1 \in DOMAIN sCq'
  BY <1>1, <1>2
<1>6. \A d \in Clients : d # e.conn => SameQueued(d)
  BY <1>1, <1>2, <1>3, <1>4 DEF SameQueued
<1>7. QED
  BY <1>1, <1>2, <1>3, <1>4, <1>5, <1>6

LEMMA QueueShrinks ==
  ASSUME TypeOK, sCq # <<>>, sCq' = Tail(sCq)
  PROVE  /\ sCq' \in Seq(Entries)
         /\ 1 \in DOMAIN sCq /\ Head(sCq) = sCq[1] /\ Head(sCq) \in Entries
         /\ \A i \in DOMAIN sCq' :
              i + 1 \in DOMAIN sCq /\ sCq'[i] = sCq[i + 1] /\ 1 < i + 1
         /\ \A i \in DOMAIN sCq :
              i # 1 => i - 1 \in DOMAIN sCq' /\ sCq'[i - 1] = sCq[i] /\ 1 < i
         /\ \A i, j \in DOMAIN sCq' : i < j => i + 1 < j + 1
         /\ \A d \in Clients :
              \/ Head(sCq).conn # d
              \/ Head(sCq).what = "send"
              => SameQueued(d)
<1>1. sCq \in Seq(Entries) /\ Len(sCq) \in Nat /\ DOMAIN sCq = 1..Len(sCq)
      /\ Len(sCq) # 0
  BY DEF TypeOK
<1>2. /\ sCq' \in Seq(Entries) /\ Len(sCq') = Len(sCq) - 1
      /\ DOMAIN sCq' = 1..(Len(sCq) - 1)
      /\ Head(sCq) = sCq[1] /\ 1 \in DOMAIN sCq /\ sCq[1] \in Entries
      /\ \A i \in 1..(Len(sCq) - 1) : sCq'[i] = sCq[i + 1]
  BY <1>1, HeadTailProperties, ElementOfSeq
<1>3. \A i \in DOMAIN sCq' :
        i + 1 \in DOMAIN sCq /\ sCq'[i] = sCq[i + 1] /\ 1 < i + 1
  BY <1>1, <1>2
<1>4. \A i \in DOMAIN sCq :
        i # 1 => i - 1 \in DOMAIN sCq' /\ i - 1 + 1 = i /\ 1 < i
  BY <1>1, <1>2
<1>5. \A i \in DOMAIN sCq : i # 1 => sCq'[i - 1] = sCq[i]
  BY <1>3, <1>4
<1>6. \A i, j \in DOMAIN sCq' : i < j => i + 1 < j + 1
  BY <1>1, <1>2
<1>7. ASSUME NEW d \in Clients,
             Head(sCq).conn # d \/ Head(sCq).what = "send"
      PROVE  SameQueued(d)
  <2>1. \A i \in DOMAIN sCq' : \E j \in DOMAIN sCq : sCq[j] = sCq'[i]
    BY <1>3
  <2>2. ASSUME NEW i \in DOMAIN sCq, sCq[i].conn = d, sCq[i].what = "recv"
        PROVE  \E j \in DOMAIN sCq' : sCq'[j] = sCq[i]
    <3>1. i # 1
      BY <1>2, <1>7, <2>2
    <3>2. QED
      BY <1>4, <1>5, <3>1
  <2>3. QED
    BY <2>1, <2>2 DEF SameQueued
<1>8. QED
  BY <1>2, <1>3, <1>4, <1>5, <1>6, <1>7

-----------------------------------------------------------------------------
(* The adapters                                                              *)

(* A new completion goes behind the others of its connection.                *)
LEMMA NewCompletion ==
  ASSUME IInv, NEW e \in Entries, sCq' = Append(sCq, e),
         \/ e.what = "recv" /\ \A i \in DOMAIN sCq :
                                 sCq[i].conn = e.conn => sCq[i].what = "send"
         \/ \A i \in DOMAIN sCq : sCq[i].conn # e.conn
  PROVE  SendBeforeRecv'
<1> SUFFICES ASSUME NEW i \in DOMAIN sCq', NEW j \in DOMAIN sCq',
                    i < j, sCq'[i].conn = sCq'[j].conn
             PROVE  sCq'[i].what = "send" /\ sCq'[j].what = "recv"
  BY DEF SendBeforeRecv
<1>1. i \in DOMAIN sCq /\ sCq'[i] = sCq[i]
  BY QueueGrows DEF IInv, TypeOK
<1>2. CASE j \in DOMAIN sCq
  BY <1>1, <1>2, QueueGrows DEF IInv, SendBeforeRecv
<1>3. CASE j = Len(sCq) + 1
  BY <1>1, <1>3, QueueGrows DEF IInv
<1>4. QED
  BY <1>2, <1>3, QueueGrows DEF IInv

(* The write reaches the server's buffer and takes its receive.              *)
LEMMA WriteArrivesStep ==
  ASSUME IInv, NEW c \in Clients, WriteArrives(c)
  PROVE  IInv'
<1>1. TypeOK
  BY DEF IInv
<1>2. WritePosted(c)
  BY DEF IInv, Turn, SetUp, AnswerPosted, AnswerQueued, AnswerHandled,
     WriteQueued, WriteHandled, Arrived, Ended, Lost, WriteArrives
<1>3. PICK size \in {0, 1} :
        writes[c] = <<size>> /\ Carries(c, size, cBuf[c])
  BY <1>2 DEF WritePosted
<1>4. Head(writes[c]) = size /\ Tail(writes[c]) = <<>>
  BY <1>3
<1> DEFINE e == [what |-> "recv", conn |-> c, size |-> size]
<1>5. /\ sBuf' = IF size = 0 THEN sBuf ELSE [sBuf EXCEPT ![c] = cBuf[c]]
      /\ sRecv' = [sRecv EXCEPT ![c] = 0]
      /\ sCq' = Append(sCq, e)
      /\ writes' = [writes EXCEPT ![c] = <<>>]
      /\ cUnacked' = [cUnacked EXCEPT ![c] = 1]
      /\ sUnacked[c] = 0
      /\ UNCHANGED <<name, conn, cAt, offset, cBuf, cMsg, cRecv, cCq, alive,
                     sAt, opened, file, sMsg, sends, sUnacked>>
  <2>1. sRecv[c] = 1 /\ cUnacked[c] = 0
    BY <1>1, <1>2 DEF WriteArrives, WritePosted, TypeOK
  <2>2. /\ sRecv' = [sRecv EXCEPT ![c] = 0]
        /\ cUnacked' = [cUnacked EXCEPT ![c] = 1]
    BY <2>1 DEF WriteArrives, Add
  <2>3. QED
    BY <1>4, <2>2 DEF WriteArrives
<1>6. e \in Entries
  BY DEF Entries
<1>7. TypeOK'
  <2>1. <<>> \in Seq({0, 1}) /\ sCq' \in Seq(Entries)
    BY <1>1, <1>5, <1>6, QueueGrows
  <2>2. QED
    BY <1>1, <1>5, <2>1 DEF TypeOK
<1>8. SendBeforeRecv'
  BY <1>2, <1>5, <1>6, NewCompletion DEF WritePosted, Sent
<1>9. Carries(c, size, sBuf[c])'
  BY <1>1, <1>3, <1>5 DEF Carries, Holds, TypeOK
<1>10. WriteQueued(c)'
  <2>1. Len(sCq) + 1 \in DOMAIN sCq' /\ sCq'[Len(sCq) + 1] = e
    BY <1>1, <1>5, <1>6, QueueGrows
  <2>2. \E i \in DOMAIN sCq' :
          /\ sCq'[i].conn = c /\ sCq'[i].what = "recv"
          /\ Carries(c, sCq[i].size, sBuf[c])'
    BY <1>9, <2>1
  <2>3. Waits(c)' /\ Arrived(c)'
    BY <1>1, <1>2, <1>5 DEF WritePosted, Waits, Arrived, TypeOK
  <2>4. QED
    BY <1>1, <1>2, <1>5, <2>2, <2>3 DEF WritePosted, WriteQueued, Sent, TypeOK
<1>11. \A d \in Clients \ {c} : SameAt(d) /\ SameQueued(d)
  <2>1. \A d \in Clients \ {c} : SameQueued(d)
    BY <1>1, <1>5, <1>6, QueueGrows
  <2>2. \A d \in Clients \ {c} : SameAt(d)
    BY <1>1, <1>5 DEF SameAt, TypeOK
  <2>3. QED
    BY <2>1, <2>2
<1>12. OneWriterEach' /\ PollerAtWork'
  BY <1>5 DEF IInv, OneWriterEach, PollerAtWork
<1>13. QED
  BY <1>7, <1>8, <1>10, <1>11, <1>12, TurnFrame DEF IInv, Turn

LEMMA WriteCompletesStep ==
  ASSUME IInv, NEW c \in Clients, WriteCompletes(c)
  PROVE  IInv'
<1>1. TypeOK /\ Running(c) /\ conn[c] = "up" /\ cUnacked[c] = 1
  BY DEF IInv, TypeOK, WriteCompletes
<1>2. /\ Arrived(c) /\ Waits(c)
      /\ AnswerPosted(c) \/ WriteQueued(c) \/ WriteHandled(c)
  BY <1>1 DEF IInv, Turn, SetUp, AnswerPosted, AnswerQueued, AnswerHandled,
     WritePosted, WriteQueued, WriteHandled, Ended, Lost, Running
<1>3. cCq[c] = <<>> /\ Append(cCq[c], "write") = <<"write">>
  <2>1. cCq[c] = <<>>
    BY <1>1, <1>2 DEF Arrived
  <2>2. Append(<<>>, "write") = <<"write">>
    OBVIOUS
  <2>3. QED
    BY <2>1, <2>2
<1>4. /\ cUnacked' = [cUnacked EXCEPT ![c] = 0]
      /\ cCq' = [cCq EXCEPT ![c] = <<"write">>]
      /\ UNCHANGED <<name, conn, cAt, offset, cBuf, cMsg, cRecv, writes,
                     server>>
  BY <1>1, <1>3 DEF WriteCompletes, Add, Push
<1>5. TypeOK'
  <2>1. <<"write">> \in Seq({"recv", "write", "error"})
    OBVIOUS
  <2>2. QED
    BY <1>1, <1>4, <2>1 DEF TypeOK, server
<1>6. Waits(c)' /\ Arrived(c)'
  BY <1>1, <1>2, <1>4 DEF Waits, Arrived, TypeOK
<1>7. AnswerPosted(c) => AnswerPosted(c)'
  BY <1>4, <1>6 DEF AnswerPosted, Answers, Holds, NoneQueued, server
<1>8. WriteQueued(c) => WriteQueued(c)'
  BY <1>4, <1>6 DEF WriteQueued, Carries, Holds, server
<1>9. WriteHandled(c) => WriteHandled(c)'
  BY <1>4, <1>6 DEF WriteHandled, Carries, Holds, NoneQueued, server
<1>10. Turn(c)'
  BY <1>2, <1>7, <1>8, <1>9 DEF Turn
<1>11. QED
  BY <1>1, <1>4, <1>5, <1>10, ClientSide DEF TypeOK

(* The message reaches the client's buffer and takes its receive.            *)
LEMMA SendArrivesStep ==
  ASSUME IInv, NEW c \in Clients, SendArrives(c)
  PROVE  IInv'
<1>1. TypeOK
  BY DEF IInv
<1>2. AnswerPosted(c)
  BY DEF IInv, Turn, SetUp, AnswerQueued, AnswerHandled, WritePosted,
     WriteQueued, WriteHandled, Sent, Ended, Lost, SendArrives, Running
<1>3. /\ cAt[c] = "poll" /\ cRecv[c] = 1 /\ sends[c] = 1 /\ sUnacked[c] = 0
      /\ writes[c] = <<>> /\ cUnacked[c] = 0
      /\ cCq[c] \in {<<>>, <<"write">>}
  BY <1>1, <1>2 DEF AnswerPosted, Waits, Arrived, SendArrives, TypeOK
<1>4. PICK q \in {<<"recv">>, <<"write", "recv">>} :
        Append(cCq[c], "recv") = q
  <2> DEFINE both == [i \in 1..2 |-> IF i = 1 THEN "write" ELSE "recv"]
  <2>1. Append(<<>>, "recv") = <<"recv">>
    OBVIOUS
  <2>2. Append(<<"write">>, "recv") = both
    OBVIOUS
  <2>3. <<"write", "recv">> = both
    OBVIOUS
  <2>4. QED
    BY <1>3, <2>1, <2>2, <2>3, Zenon
<1>5. /\ cMsg' = [cMsg EXCEPT ![c] = sMsg[c]]
      /\ cRecv' = [cRecv EXCEPT ![c] = 0]
      /\ cCq' = [cCq EXCEPT ![c] = q]
      /\ sends' = [sends EXCEPT ![c] = 0]
      /\ sUnacked' = [sUnacked EXCEPT ![c] = 1]
      /\ UNCHANGED <<name, conn, cAt, offset, cBuf, writes, cUnacked, alive,
                     sAt, opened, file, sBuf, sMsg, sRecv, sCq>>
  <2>1. /\ cRecv' = [cRecv EXCEPT ![c] = 0]
        /\ sends' = [sends EXCEPT ![c] = 0]
        /\ sUnacked' = [sUnacked EXCEPT ![c] = 1]
    BY <1>3 DEF SendArrives, Add
  <2>2. QED
    BY <1>4, <2>1 DEF SendArrives, Push
<1>6. TypeOK'
  <2>1. q \in Seq({"recv", "write", "error"})
    BY <1>4
  <2>2. QED
    BY <1>1, <1>5, <2>1 DEF TypeOK
<1>7. AnswerQueued(c)'
  BY <1>1, <1>2, <1>3, <1>4, <1>5 DEF AnswerPosted, AnswerQueued, Waits,
     Answers, Holds, Sent, NoneQueued, TypeOK
<1>8. \A d \in Clients \ {c} : SameAt(d)
  BY <1>1, <1>5 DEF SameAt, TypeOK
<1>9. PollerAtWork'
  BY <1>5 DEF IInv, PollerAtWork
<1>10. QED
  BY <1>5, <1>6, <1>7, <1>8, <1>9, OneConnection DEF Turn

(* The server may learn of its send any time until the next write.           *)
LEMMA SendCompletesStep ==
  ASSUME IInv, NEW c \in Clients, SendCompletes(c)
  PROVE  IInv'
<1>1. TypeOK /\ alive /\ sUnacked[c] = 1
  BY DEF IInv, TypeOK, SendCompletes
<1>2. /\ Sent(c) /\ NoneQueued(c)
      /\ AnswerQueued(c) \/ AnswerHandled(c) \/ WritePosted(c) \/ Ended(c)
  BY <1>1 DEF IInv, Turn, SetUp, AnswerPosted, AnswerQueued, AnswerHandled,
     WritePosted, WriteQueued, WriteHandled, Sent, Ended, Lost
<1> DEFINE e == [what |-> "send", conn |-> c, size |-> 0]
<1>3. /\ sUnacked' = [sUnacked EXCEPT ![c] = 0]
      /\ sCq' = Append(sCq, e)
      /\ UNCHANGED <<name, conn, cAt, offset, cBuf, cMsg, cRecv, cCq, writes,
                     cUnacked, alive, sAt, opened, file, sBuf, sMsg, sRecv,
                     sends>>
  BY <1>1 DEF SendCompletes, Add, client
<1>4. e \in Entries
  BY DEF Entries
<1>5. TypeOK'
  <2>1. sCq' \in Seq(Entries)
    BY <1>1, <1>3, <1>4, QueueGrows
  <2>2. QED
    BY <1>1, <1>3, <2>1 DEF TypeOK
<1>6. SendBeforeRecv'
  BY <1>2, <1>3, <1>4, NewCompletion DEF NoneQueued
<1>7. Sent(c)'
  <2>1. \A i \in DOMAIN sCq' : sCq'[i].conn = c => sCq'[i].what = "send"
    BY <1>1, <1>2, <1>3, <1>4, QueueGrows DEF NoneQueued
  <2>2. QED
    BY <1>1, <1>2, <1>3, <2>1 DEF Sent, TypeOK
<1>8. Turn(c)'
  <2>1. /\ \A m : Answers(c, m) => Answers(c, m)'
        /\ \A z, b : Carries(c, z, b) => Carries(c, z, b)'
        /\ Waits(c) => Waits(c)'
    BY <1>3 DEF Answers, Carries, Holds, Waits
  <2>2. AnswerQueued(c) => AnswerQueued(c)'
    BY <1>3, <1>7, <2>1 DEF AnswerQueued
  <2>3. AnswerHandled(c) => AnswerHandled(c)'
    BY <1>3, <1>7, <2>1 DEF AnswerHandled
  <2>4. WritePosted(c) => WritePosted(c)'
    BY <1>3, <1>7, <2>1 DEF WritePosted
  <2>5. Ended(c) => Ended(c)'
    BY <1>3, <1>7, <2>1 DEF Ended
  <2>6. QED
    BY <1>2, <2>2, <2>3, <2>4, <2>5 DEF Turn
<1>9. \A d \in Clients \ {c} : SameAt(d) /\ SameQueued(d)
  <2>1. \A d \in Clients \ {c} : SameQueued(d)
    BY <1>1, <1>3, <1>4, QueueGrows
  <2>2. \A d \in Clients \ {c} : SameAt(d)
    BY <1>1, <1>3 DEF SameAt, TypeOK
  <2>3. QED
    BY <2>1, <2>2
<1>10. OneWriterEach' /\ PollerAtWork'
  BY <1>3 DEF IInv, OneWriterEach, PollerAtWork
<1>11. QED
  BY <1>5, <1>6, <1>8, <1>9, <1>10, TurnFrame DEF IInv

-----------------------------------------------------------------------------
(* The server's poller                                                       *)

(* Taking a completion off the queue keeps the order of the others.          *)
LEMMA PollKeepsOrder ==
  ASSUME IInv, sCq # <<>>, sCq' = Tail(sCq)
  PROVE  SendBeforeRecv'
<1> SUFFICES ASSUME NEW i \in DOMAIN sCq', NEW j \in DOMAIN sCq',
                    i < j, sCq'[i].conn = sCq'[j].conn
             PROVE  sCq'[i].what = "send" /\ sCq'[j].what = "recv"
  BY DEF SendBeforeRecv
<1>1. /\ i + 1 \in DOMAIN sCq /\ j + 1 \in DOMAIN sCq /\ i + 1 < j + 1
      /\ sCq'[i] = sCq[i + 1] /\ sCq'[j] = sCq[j + 1]
  BY QueueShrinks DEF IInv
<1>2. QED
  BY <1>1 DEF IInv, SendBeforeRecv

LEMMA ServerPollStep ==
  ASSUME IInv, ServerPoll
  PROVE  IInv'
<1>1. /\ TypeOK /\ alive /\ sAt.step = "poll" /\ sAt.conn = None
      /\ sCq # <<>> /\ sCq' = Tail(sCq)
      /\ UNCHANGED <<name, conn, cAt, offset, cBuf, cMsg, cRecv, cCq, writes,
                     cUnacked, alive, opened, file, sBuf, sMsg, sRecv, sends,
                     sUnacked>>
  BY DEF IInv, ServerPoll, At, PollerAtWork, client
<1>2. /\ 1 \in DOMAIN sCq /\ Head(sCq) = sCq[1] /\ Head(sCq) \in Entries
      /\ sCq' \in Seq(Entries)
  BY <1>1, QueueShrinks
<1>3. SendBeforeRecv' /\ OneWriterEach'
  BY <1>1, PollKeepsOrder DEF IInv, OneWriterEach
<1>4. CASE Head(sCq).what = "send" /\ sAt' = sAt
  <2>1. TypeOK'
    BY <1>1, <1>2, <1>4 DEF TypeOK
  <2>2. \A d \in Clients : SameAt(d) /\ SameQueued(d)
    <3>1. \A d \in Clients : SameAt(d)
      BY <1>1, <1>4 DEF SameAt
    <3>2. \A d \in Clients : SameQueued(d)
      BY <1>1, <1>4, QueueShrinks
    <3>3. QED
      BY <3>1, <3>2
  <2>3. PollerAtWork'
    BY <1>4 DEF IInv, PollerAtWork
  <2>4. QED
    BY <1>3, <2>1, <2>2, <2>3, TurnFrame DEF IInv
<1>5. CASE /\ Head(sCq).what = "recv"
           /\ sAt' = [conn |-> Head(sCq).conn, size |-> Head(sCq).size,
                      step |-> "handle"]
  <2>1. PICK c \in Clients : c = sCq[1].conn
    BY <1>2 DEF Entries
  <2>2. sCq[1].what = "recv" /\ sCq[1].size \in {0, 1}
    BY <1>2, <1>5 DEF Entries
  <2>3. TypeOK'
    BY <1>1, <1>2, <1>5, <2>1, <2>2 DEF TypeOK
  <2>4. WriteQueued(c)
    BY <1>1, <1>2, <2>1, <2>2 DEF IInv, Turn, SetUp, AnswerPosted,
       AnswerQueued, AnswerHandled, WritePosted, WriteHandled, NoneQueued,
       Sent, Ended, Lost
  <2>5. \A i \in DOMAIN sCq : i # 1 => sCq[i].conn # c
    BY <1>1, <1>2, <2>1, <2>2, QueueShrinks DEF IInv, SendBeforeRecv
  <2>6. Carries(c, sCq[1].size, sBuf[c])
    BY <2>4, <2>5 DEF WriteQueued
  <2>7. NoneQueued(c)'
    <3>1. SUFFICES ASSUME NEW i \in DOMAIN sCq' PROVE sCq'[i].conn # c
      BY DEF NoneQueued
    <3>2. i + 1 \in DOMAIN sCq /\ sCq'[i] = sCq[i + 1] /\ 1 < i + 1
      BY <1>1, QueueShrinks
    <3>3. i + 1 # 1
      BY <1>1, <3>2 DEF TypeOK
    <3>4. QED
      BY <2>5, <3>2, <3>3
  <2>8. WriteHandled(c)'
    <3>1. Waits(c)' /\ Arrived(c)'
      BY <1>1, <2>4 DEF WriteQueued, Waits, Arrived
    <3>2. Carries(c, sAt.size, sBuf[c])'
      BY <1>1, <1>2, <1>5, <2>6 DEF Carries, Holds
    <3>3. QED
      BY <1>1, <1>2, <1>5, <2>1, <2>4, <2>7, <3>1, <3>2 DEF WriteQueued,
         WriteHandled
  <2>9. \A d \in Clients \ {c} : SameAt(d) /\ SameQueued(d)
    <3>1. \A d \in Clients \ {c} : SameAt(d)
      BY <1>1, <1>2, <1>5, <2>1, NoneAssumption DEF SameAt
    <3>2. \A d \in Clients \ {c} : SameQueued(d)
      BY <1>1, <1>2, <2>1, QueueShrinks
    <3>3. QED
      BY <3>1, <3>2
  <2>10. PollerAtWork'
    BY <1>2, <1>5, <2>1, NoneAssumption DEF PollerAtWork
  <2>11. QED
    BY <1>3, <2>3, <2>8, <2>9, <2>10, TurnFrame DEF IInv, Turn
<1>6. QED
  BY <1>4, <1>5 DEF ServerPoll

(* A poller at work on a connection has its turn.                            *)
LEMMA WorkIsTheTurn ==
  ASSUME IInv, NEW c \in Clients, alive, sAt.conn = c
  PROVE  WriteHandled(c)
BY DEF IInv, Turn, SetUp, AnswerPosted, AnswerQueued, AnswerHandled,
   WritePosted, WriteQueued, Sent, Ended, Lost

(* A step of the poller at work that changes only the server's side.         *)
LEMMA ServerSide ==
  ASSUME IInv, NEW c \in Clients, TypeOK', Turn(c)', PollerAtWork',
         sAt.conn = c, sAt' = Idle \/ sAt'.conn = c,
         UNCHANGED <<conn, client, alive, opened, file, sBuf, sCq>>,
         \A d \in Clients \ {c} :
           /\ sMsg'[d] = sMsg[d] /\ sRecv'[d] = sRecv[d]
           /\ sends'[d] = sends[d] /\ sUnacked'[d] = sUnacked[d]
  PROVE  IInv'
<1>1. \A d \in Clients \ {c} : SameAt(d)
  BY NoneAssumption DEF SameAt, client, Idle
<1>2. QED
  BY <1>1, OneConnection DEF client

(* The empty write is answered with DONE.                                    *)
LEMMA ServerOnEmptyStep ==
  ASSUME IInv, NEW c \in Clients, ServerOnEmpty(c)
  PROVE  IInv'
<1>1. /\ TypeOK /\ WriteHandled(c)
      /\ sAt.step = "handle" /\ sAt.conn = c /\ sAt.size = 0
  BY WorkIsTheTurn DEF IInv, ServerOnEmpty, At
<1>2. /\ sMsg' = [sMsg EXCEPT ![c] = "DONE"]
      /\ sends' = [sends EXCEPT ![c] = 1]
      /\ sAt' = Idle
      /\ UNCHANGED <<conn, client, alive, opened, file, sBuf, sRecv, sCq,
                     sUnacked>>
  BY <1>1 DEF ServerOnEmpty, Send, Add, WriteHandled
<1>3. TypeOK' /\ PollerAtWork'
  BY <1>1, <1>2 DEF TypeOK, PollerAtWork, Idle, Msgs, client
<1>4. Answers(c, "DONE")'
  BY <1>1, <1>2 DEF WriteHandled, Carries, Answers, Holds, client
<1>5. AnswerPosted(c)'
  BY <1>1, <1>2, <1>4, NoneAssumption DEF WriteHandled, AnswerPosted, Waits,
     Arrived, NoneQueued, Idle, TypeOK, client
<1>6. QED
  BY <1>1, <1>2, <1>3, <1>5, ServerSide DEF Turn, TypeOK

LEMMA ServerPostReceiveStep ==
  ASSUME IInv, NEW c \in Clients, ServerPostReceive(c)
  PROVE  IInv'
<1>1. /\ TypeOK /\ WriteHandled(c) /\ sAt.step = "post" /\ sAt.conn = c
      /\ sRecv[c] = 0 /\ Holds(c, offset[c])
  BY WorkIsTheTurn DEF IInv, ServerPostReceive, At, WriteHandled
<1>2. /\ sRecv' = [sRecv EXCEPT ![c] = 1]
      /\ sAt' = [sAt EXCEPT !.step = "answer"]
      /\ UNCHANGED <<conn, client, alive, opened, file, sBuf, sMsg, sCq,
                     sends, sUnacked>>
  BY <1>1 DEF ServerPostReceive, SGoto, Add
<1>3. /\ sAt'.conn = c /\ sAt'.step = "answer"
      /\ sAt' \in [conn : Clients \union {None}, size : {0, 1},
                  step : {"poll", "handle", "post", "answer"}]
  BY <1>1, <1>2 DEF TypeOK
<1>4. TypeOK' /\ PollerAtWork'
  <2>1. PollerAtWork'
    BY <1>3, NoneAssumption DEF PollerAtWork
  <2>2. TypeOK'
    BY <1>1, <1>2, <1>3 DEF TypeOK, client
  <2>3. QED
    BY <2>1, <2>2
<1>5. WriteHandled(c)'
  BY <1>1, <1>2, <1>3 DEF WriteHandled, Waits, Arrived, NoneQueued, Holds,
     client
<1>6. QED
  BY <1>1, <1>2, <1>3, <1>4, <1>5, ServerSide DEF Turn, TypeOK

LEMMA ServerAnswerStep ==
  ASSUME IInv, NEW c \in Clients, ServerAnswer(c)
  PROVE  IInv'
<1>1. /\ TypeOK /\ WriteHandled(c) /\ sAt.step = "answer" /\ sAt.conn = c
      /\ sends[c] = 0 /\ Holds(c, offset[c])
  BY WorkIsTheTurn DEF IInv, ServerAnswer, At, WriteHandled
<1>2. /\ sMsg' = [sMsg EXCEPT ![c] = "READY"]
      /\ sends' = [sends EXCEPT ![c] = 1]
      /\ sAt' = Idle
      /\ UNCHANGED <<conn, client, alive, opened, file, sBuf, sRecv, sCq,
                     sUnacked>>
  BY <1>1 DEF ServerAnswer, Send, Add
<1>3. TypeOK' /\ PollerAtWork'
  BY <1>1, <1>2 DEF TypeOK, PollerAtWork, Idle, Msgs, client
<1>4. Answers(c, "READY")'
  BY <1>1, <1>2 DEF Answers, Holds, client
<1>5. AnswerPosted(c)'
  BY <1>1, <1>2, <1>4, NoneAssumption DEF WriteHandled, AnswerPosted, Waits,
     Arrived, NoneQueued, Idle, TypeOK, client
<1>6. QED
  BY <1>1, <1>2, <1>3, <1>5, ServerSide DEF Turn, TypeOK

(* The first write opens the file: O_EXCL makes sure that it is nobody's.    *)
LEMMA ServerOnNameStep ==
  ASSUME IInv, NEW c \in Clients, ServerOnName(c)
  PROVE  IInv'
<1>1. /\ TypeOK /\ WriteHandled(c) /\ sAt.step = "handle" /\ sAt.conn = c
      /\ sAt.size = 1 /\ ~opened[c] /\ sRecv[c] = 0
  BY WorkIsTheTurn DEF IInv, ServerOnName, At, WriteHandled, TypeOK
<1>2. /\ sBuf[c] = name[c] /\ offset[c] = 0 /\ file[name[c]] = None
      /\ name[c] \in Names
  BY <1>1 DEF WriteHandled, Carries, Holds, ServerOnName, Names, TypeOK
<1>3. /\ opened' = [opened EXCEPT ![c] = TRUE]
      /\ file' = [file EXCEPT ![name[c]] = <<>>]
      /\ sAt' = [sAt EXCEPT !.step = "post"]
      /\ UNCHANGED <<conn, client, alive, sBuf, sMsg, sRecv, sCq, sends,
                     sUnacked>>
  BY <1>2 DEF ServerOnName, SGoto
<1>4. /\ sAt'.conn = c /\ sAt'.step = "post"
      /\ sAt' \in [conn : Clients \union {None}, size : {0, 1},
                   step : {"poll", "handle", "post", "answer"}]
  BY <1>1, <1>3 DEF TypeOK
<1>5. TypeOK'
  BY <1>1, <1>3, <1>4 DEF TypeOK, client
<1>6. PollerAtWork' /\ SendBeforeRecv'
  BY <1>3, <1>4, NoneAssumption DEF IInv, PollerAtWork, SendBeforeRecv
<1>7. WriteHandled(c)'
  <2>1. Part(c, 0) = <<>>
    BY DEF Part
  <2>2. Holds(c, offset[c])'
    BY <1>1, <1>2, <1>3, <2>1 DEF Holds, TypeOK, client
  <2>3. Waits(c)' /\ Arrived(c)' /\ NoneQueued(c)'
    BY <1>1, <1>3 DEF WriteHandled, Waits, Arrived, NoneQueued, client
  <2>4. QED
    BY <1>1, <1>3, <1>4, <2>2, <2>3 DEF WriteHandled, client
<1>8. \A d \in Clients : opened[d] => name[d] # name[c]
  <2>1. ASSUME NEW d \in Clients, opened[d]
        PROVE  file[name[d]] # None
    BY <1>1, <2>1, OpenFileIsAPart, NoneAssumption DEF IInv, Holds
  <2>2. QED
    BY <1>2, <2>1
<1>9. OneWriterEach'
  BY <1>1, <1>3, <1>8 DEF IInv, OneWriterEach, TypeOK, client
<1>10. \A d \in Clients \ {c} : SameAt(d) /\ SameQueued(d)
  BY <1>1, <1>3, <1>4, <1>8 DEF SameAt, SameQueued, TypeOK, client
<1>11. QED
  BY <1>5, <1>6, <1>7, <1>9, <1>10, TurnFrame DEF IInv, Turn

(* A chunk goes to the end of the client's file, and is the next.            *)
LEMMA ServerOnChunkStep ==
  ASSUME IInv, NEW c \in Clients, ServerOnChunk(c)
  PROVE  IInv'
<1>1. /\ TypeOK /\ WriteHandled(c) /\ sAt.step = "handle" /\ sAt.conn = c
      /\ sAt.size = 1 /\ opened[c] /\ sRecv[c] = 0
  BY WorkIsTheTurn DEF IInv, ServerOnChunk, At, WriteHandled, TypeOK
<1>2. /\ sBuf[c] = <<c, offset[c]>> /\ offset[c] \in Nat /\ 0 < offset[c]
      /\ file[name[c]] = Part(c, offset[c] - 1)
      /\ name[c] \in Names
  BY <1>1 DEF WriteHandled, Carries, Holds, Names, TypeOK
<1>3. /\ file' = [file EXCEPT ![name[c]] = Part(c, offset[c])]
      /\ sAt' = [sAt EXCEPT !.step = "post"]
      /\ UNCHANGED <<conn, client, alive, opened, sBuf, sMsg, sRecv, sCq,
                     sends, sUnacked>>
  <2>1. Append(file[name[c]], sBuf[c]) = Part(c, offset[c])
    BY <1>2, PartAppend
  <2>2. QED
    BY <2>1 DEF ServerOnChunk, SGoto
<1>4. /\ sAt'.conn = c /\ sAt'.step = "post"
      /\ sAt' \in [conn : Clients \union {None}, size : {0, 1},
                   step : {"poll", "handle", "post", "answer"}]
  BY <1>1, <1>3 DEF TypeOK
<1>5. TypeOK'
  BY <1>1, <1>3, <1>4 DEF TypeOK, client
<1>6. PollerAtWork'
  BY <1>4, NoneAssumption DEF PollerAtWork
<1>7. WriteHandled(c)'
  <2>1. Holds(c, offset[c])'
    BY <1>1, <1>2, <1>3 DEF Holds, TypeOK, client
  <2>2. Waits(c)' /\ Arrived(c)' /\ NoneQueued(c)'
    BY <1>1, <1>3 DEF WriteHandled, Waits, Arrived, NoneQueued, client
  <2>3. QED
    BY <1>1, <1>3, <1>4, <2>1, <2>2 DEF WriteHandled, client
<1>8. \A d \in Clients \ {c} : opened[d] => name[d] # name[c]
  BY <1>1 DEF IInv, OneWriterEach
<1>9. \A d \in Clients \ {c} : SameAt(d)
  BY <1>1, <1>3, <1>4, <1>8 DEF SameAt, TypeOK, client
<1>10. QED
  BY <1>3, <1>5, <1>6, <1>7, <1>9, OneConnection DEF Turn, client

(* A failed open or write stops the server, and with it nothing but itself.  *)
LEMMA ServerDiesStep ==
  ASSUME IInv, ServerDies
  PROVE  IInv'
<1>1. TypeOK'
  BY DEF IInv, TypeOK, ServerDies, client
<1>2. SendBeforeRecv' /\ OneWriterEach' /\ PollerAtWork'
  BY DEF IInv, SendBeforeRecv, OneWriterEach, PollerAtWork, ServerDies, client
<1>3. \A d \in Clients : SameAt(d) /\ SameQueued(d)
  BY DEF SameAt, SameQueued, ServerDies, client
<1>4. QED
  BY <1>1, <1>2, <1>3, TurnFrame DEF IInv

-----------------------------------------------------------------------------
(* The inductive invariant, and what follows from it                         *)

LEMMA InitInv == Init => IInv
<1> SUFFICES ASSUME Init PROVE IInv
  OBVIOUS
<1> USE DEF Init, Idle
<1>1. TypeOK
  BY ChunksAssumption DEF TypeOK, Msgs
<1>2. SendBeforeRecv /\ OneWriterEach /\ PollerAtWork
  BY DEF SendBeforeRecv, OneWriterEach, PollerAtWork
<1>3. \A c \in Clients : SetUp(c)
  BY NoneAssumption DEF SetUp, Sent, NoneQueued
<1>4. QED
  BY <1>1, <1>2, <1>3 DEF IInv, Turn

LEMMA NextInv == IInv /\ [Next]_vars => IInv'
<1> SUFFICES ASSUME IInv, [Next]_vars PROVE IInv'
  OBVIOUS
<1>1. ASSUME NEW c \in Clients, ClientPoller(c) \/ ClientEvents(c)
      PROVE  IInv'
  BY <1>1, ClientPollStep, ClientOnMRStep, ClientOnReadyStep,
     ClientOnDoneStep, ClientPostReceiveStep, AddrResolvedStep,
     ClientEventStep, ClientDisconnectedStep, RejectedStep
     DEF ClientPoller, ClientEvents
<1>2. ASSUME NEW c \in Clients, ServerEvents(c) \/ Adapter(c)
      PROVE  IInv'
  BY <1>2, ConnectRequestStep, EstablishedStep, DisconnectedStep,
     WriteArrivesStep, WriteCompletesStep, SendArrivesStep, SendCompletesStep
     DEF ServerEvents, Adapter
<1>3. ASSUME NEW c \in Clients, ReadFails(c) \/ WriteFails(c)
      PROVE  IInv'
  BY <1>3, ReadFailsStep, ServerDiesStep DEF WriteFails
<1>4. CASE ServerPoller
  BY <1>4, ServerPollStep, ServerOnEmptyStep, ServerOnNameStep,
     ServerDiesStep, ServerOnChunkStep, ServerPostReceiveStep,
     ServerAnswerStep DEF ServerPoller, OpenFails
<1>5. CASE UNCHANGED vars
  <2>1. TypeOK'
    BY <1>5 DEF IInv, TypeOK, vars, client, server
  <2>2. SendBeforeRecv' /\ OneWriterEach' /\ PollerAtWork'
    BY <1>5 DEF IInv, SendBeforeRecv, OneWriterEach, PollerAtWork, vars,
       client, server
  <2>3. \A d \in Clients : SameAt(d) /\ SameQueued(d)
    BY <1>5 DEF SameAt, SameQueued, vars, client, server
  <2>4. QED
    BY <2>1, <2>2, <2>3, TurnFrame DEF IInv
<1>6. QED
  BY <1>1, <1>2, <1>3, <1>4, <1>5 DEF Next

(* Over any number of connections the protocol keeps its turns.              *)
THEOREM InductiveInvariant == Spec => []IInv
BY InitInv, NextInv, PTL DEF Spec

(* Every variable of the two ends and of the adapters keeps its type.        *)
THEOREM TypeCorrect == Spec => []TypeOK
<1>1. IInv => TypeOK
  BY DEF IInv
<1>2. QED
  BY <1>1, InductiveInvariant, PTL

(* send_next_chunk and the server's on_completion: a file that is open on    *)
(* the server is the first chunks of its client's file, in order.            *)
THEOREM FilesInOrder == Spec => []FilesAreInOrder
<1>1. IInv => FilesAreInOrder
  <2> SUFFICES ASSUME IInv, NEW c \in Clients, opened[c]
               PROVE  IsPrefix(file[name[c]], Whole(c))
    BY DEF FilesAreInOrder
  <2>1. PICK k \in 0..Chunks[c] : file[name[c]] = Part(c, k)
    BY OpenFileIsAPart DEF IInv, Holds
  <2>2. QED
    BY <2>1, PartIsPrefix, ChunksAssumption DEF Whole
<1>2. QED
  BY <1>1, InductiveInvariant, PTL

(* MSG_DONE, and rc_disconnect after it, come only when the server has the   *)
(* whole file.                                                               *)
THEOREM DeliveredWhenDone == Spec => []DoneMeansWhole
<1>1. IInv => DoneMeansWhole
  <2> SUFFICES ASSUME IInv, NEW c \in Clients,
                      cMsg[c] = "DONE" \/ (cAt[c] = "exited" /\ alive)
               PROVE  opened[c] /\ file[name[c]] = Whole(c)
    BY DEF DoneMeansWhole
  <2>1. cMsg[c] = "DONE"
    BY DEF IInv, Turn, SetUp, AnswerPosted, AnswerQueued, AnswerHandled,
       WritePosted, WriteQueued, WriteHandled, Waits, Ended, Lost
  <2>2. QED
    BY <2>1, DoneHoldsAll DEF IInv, Holds, Whole
<1>2. QED
  BY <1>1, InductiveInvariant, PTL

(* on_disconnect frees a context that the poller has no more use for.        *)
THEOREM ContextFreed == Spec => []ContextIsNotInUse
<1>1. IInv => ContextIsNotInUse
  <2> SUFFICES ASSUME IInv, NEW c \in Clients, conn[c] = "closed"
               PROVE  /\ opened[c] /\ sAt.conn # c
                      /\ \A i \in DOMAIN sCq :
                           sCq[i].conn = c => sCq[i].what = "send"
    BY DEF ContextIsNotInUse
  <2>1. Ended(c)
    BY DEF IInv, Turn, SetUp, AnswerPosted, AnswerQueued, AnswerHandled,
       WritePosted, WriteQueued, WriteHandled, Waits, Lost
  <2>2. QED
    BY <2>1 DEF Ended, Sent, Answers, Holds
<1>2. QED
  BY <1>1, InductiveInvariant, PTL

(* No completion is an error, and no connection takes more than two of the   *)
(* entries of the server's completion queue.                                 *)
THEOREM CompletionsFit == Spec => []CompletionsSucceedAndFit
<1>1. IInv => NothingIsFlushed
  BY NoErrorInTurn DEF IInv, NothingIsFlushed
<1>2. IInv => TwoCompletionsEach
  <2> SUFFICES ASSUME IInv, NEW c \in Clients
               PROVE  Cardinality({i \in DOMAIN sCq : sCq[i].conn = c}) <= 2
    BY DEF TwoCompletionsEach
  <2> DEFINE S == {i \in DOMAIN sCq : sCq[i].conn = c}
  <2>1. \A i, j, k \in S : i = j \/ i = k \/ j = k
    <3>1. \A i, j \in S : i < j => sCq[i].what = "send" /\ sCq[j].what = "recv"
      BY DEF IInv, SendBeforeRecv
    <3>2. \A i, j \in S : i = j \/ i < j \/ j < i
      BY DEF IInv, TypeOK
    <3>3. QED
      BY <3>1, <3>2
  <2>2. CASE S = {}
    BY <2>2, FS_EmptySet
  <2>3. CASE S # {}
    <3>1. PICK i \in S : TRUE
      BY <2>3
    <3>2. /\ IsFiniteSet({i}) /\ Cardinality({i}) = 1
      BY FS_Singleton
    <3>3. PICK j : S = {i} \union {j}
      <4>1. CASE S = {i}
        BY <4>1
      <4>2. CASE S # {i}
        <5>1. PICK j \in S : j # i
          BY <3>1, <4>2
        <5>2. S = {i} \union {j}
          BY <2>1, <3>1, <5>1
        <5>3. QED
          BY <5>2
      <4>3. QED
        BY <4>1, <4>2
    <3>4. Cardinality({i} \union {j}) \in {1, 2}
      BY <3>2, FS_AddElement
    <3>5. Cardinality(S) \in {1, 2}
      <4> HIDE DEF S
      <4>1. QED
        BY <3>3, <3>4
    <3>6. QED
      BY <3>5
  <2>4. QED
    BY <2>2, <2>3
<1>3. QED
  BY <1>1, <1>2, InductiveInvariant, PTL DEF CompletionsSucceedAndFit

-----------------------------------------------------------------------------
(* The buffers                                                               *)

(* Who writes into the buffers and messages of a connection.                 *)
LEMMA OnlyTheseWrite ==
  ASSUME TypeOK, Next, NEW c \in Clients
  PROVE  /\ cBuf'[c] # cBuf[c] => ClientOnMR(c) \/ ClientOnReady(c)
         /\ sMsg'[c] # sMsg[c] =>
              OnEstablished(c) \/ ServerOnEmpty(c) \/ ServerAnswer(c)
         /\ sBuf'[c] # sBuf[c] => WriteArrives(c)
         /\ cMsg'[c] # cMsg[c] => SendArrives(c)
<1> DEFINE Quiet == UNCHANGED <<cBuf, sMsg, sBuf, cMsg>>
<1> USE DEF client, server
<1>1. ASSUME NEW d \in Clients, ClientPoll(d) \/ ClientOnDone(d)
                                \/ ClientPostReceive(d) \/ ReadFails(d)
      PROVE  Quiet
  BY <1>1 DEF ClientPoll, ClientOnDone, ClientPostReceive, ReadFails
<1>2. ASSUME NEW d \in Clients,
             ClientEvents(d) \/ OnConnectRequest(d) \/ OnDisconnected(d)
      PROVE  Quiet
  BY <1>2 DEF ClientEvents, OnAddrResolved, OnRouteResolved,
     OnClientEstablished, OnClientDisconnected, OnRejected, OnConnectRequest,
     OnDisconnected
<1>3. ASSUME NEW d \in Clients, \/ ServerOnName(d) \/ OpenFails(d)
                                \/ WriteFails(d) \/ ServerOnChunk(d)
                                \/ ServerPostReceive(d)
      PROVE  Quiet
  BY <1>3 DEF ServerOnName, OpenFails, WriteFails, ServerOnChunk,
     ServerPostReceive, ServerDies
<1>4. ASSUME NEW d \in Clients, WriteCompletes(d) \/ SendCompletes(d)
      PROVE  Quiet
  BY <1>4 DEF WriteCompletes, SendCompletes
<1>5. CASE ServerPoll
  BY <1>5 DEF ServerPoll
<1>6. ASSUME NEW d \in Clients, ClientOnMR(d) \/ ClientOnReady(d)
      PROVE  /\ UNCHANGED <<sMsg, sBuf, cMsg>>
             /\ cBuf'[c] # cBuf[c] => d = c
  BY <1>6 DEF ClientOnMR, ClientOnReady, TypeOK
<1>7. ASSUME NEW d \in Clients,
             OnEstablished(d) \/ ServerOnEmpty(d) \/ ServerAnswer(d)
      PROVE  /\ UNCHANGED <<cBuf, sBuf, cMsg>>
             /\ sMsg'[c] # sMsg[c] => d = c
  BY <1>7 DEF OnEstablished, ServerOnEmpty, ServerAnswer, Send, TypeOK
<1>8. ASSUME NEW d \in Clients, WriteArrives(d)
      PROVE  UNCHANGED <<cBuf, sMsg, cMsg>> /\ (sBuf'[c] # sBuf[c] => d = c)
  BY <1>8 DEF WriteArrives, TypeOK
<1>9. ASSUME NEW d \in Clients, SendArrives(d)
      PROVE  UNCHANGED <<cBuf, sMsg, sBuf>> /\ (cMsg'[c] # cMsg[c] => d = c)
  BY <1>9 DEF SendArrives, TypeOK
<1>10. QED
  BY <1>1, <1>2, <1>3, <1>4, <1>5, <1>6, <1>7, <1>8, <1>9 DEF Next,
     ClientPoller, ServerEvents, Adapter, ServerPoller

(* One buffer and one message per end are enough: whoever writes into one    *)
(* has the turn, and nobody has still to read it.                            *)
THEOREM BuffersFree == Spec => BuffersAreFree
<1>1. ASSUME IInv, Next, NEW c \in Clients
      PROVE  /\ cBuf'[c] # cBuf[c] => writes[c] = <<>>
             /\ sMsg'[c] # sMsg[c] => sends[c] = 0
             /\ sBuf'[c] # sBuf[c] =>
                  sAt.conn # c /\ \A i \in DOMAIN sCq :
                    sCq[i].conn = c => sCq[i].what = "send"
             /\ cMsg'[c] # cMsg[c] =>
                  cAt[c] = "poll" /\ "recv" \notin ToSet(cCq[c])
  <2>1. TypeOK /\ Turn(c)
    BY <1>1 DEF IInv
  <2>2. ClientOnMR(c) \/ ClientOnReady(c) => writes[c] = <<>>
    BY <1>1, HandlerHasTheAnswer DEF ClientOnMR, ClientOnReady, CGoto,
       AnswerHandled
  <2>3. OnEstablished(c) => sends[c] = 0
    BY <2>1 DEF OnEstablished, ConnGoto, Turn, SetUp, AnswerPosted,
       AnswerQueued, AnswerHandled, WritePosted, WriteQueued, WriteHandled,
       Waits, Sent, Ended, Lost
  <2>4. ServerOnEmpty(c) \/ ServerAnswer(c) => sends[c] = 0
    BY <1>1, WorkIsTheTurn DEF ServerOnEmpty, ServerAnswer, At, WriteHandled
  <2>5. WriteArrives(c) => Sent(c)
    BY <2>1 DEF WriteArrives, Turn, SetUp, AnswerPosted, AnswerQueued,
       AnswerHandled, WritePosted, WriteQueued, WriteHandled, Arrived, Ended,
       Lost
  <2>6. SendArrives(c) => cAt[c] = "poll" /\ "recv" \notin ToSet(cCq[c])
    <3>1. SUFFICES ASSUME SendArrives(c)
                   PROVE  cAt[c] = "poll" /\ "recv" \notin ToSet(cCq[c])
      OBVIOUS
    <3>2. cAt[c] = "poll" /\ cCq[c] \in {<<>>, <<"write">>}
      BY <2>1, <3>1 DEF SendArrives, Running, Turn, SetUp, AnswerPosted,
         AnswerQueued, AnswerHandled, WritePosted, WriteQueued, WriteHandled,
         Waits, Arrived, Sent, Ended, Lost
    <3>3. ToSet(cCq[c]) = {} \/ ToSet(cCq[c]) = {"write"}
      BY <3>2 DEF ToSet
    <3>4. QED
      BY <3>2, <3>3
  <2>7. QED
    BY <1>1, <2>1, <2>2, <2>3, <2>4, <2>5, <2>6, OnlyTheseWrite DEF Sent
<1>2. IInv /\ [Next]_vars => [WritesOnlyFree]_vars
  BY <1>1 DEF WritesOnlyFree
<1>3. QED
  BY <1>2, InductiveInvariant, PTL DEF Spec, BuffersAreFree
===============================================================================
