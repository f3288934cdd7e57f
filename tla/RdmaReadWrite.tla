----------------------------- MODULE RdmaReadWrite -----------------------------
(*****************************************************************************)
(* rdma/02_read-write: a client and a server swap one message by RDMA write  *)
(* or RDMA read.                                                             *)
(*                                                                           *)
(* Both sides run the same state machine in their completion poller.  Each   *)
(* sends its memory region (the client on its own, the server in answer);    *)
(* with its own sent and the peer's received it posts the RDMA request and   *)
(* DONE; with DONE sent and received it prints the peer's message and        *)
(* disconnects.  The event thread frees the connection on DISCONNECTED.      *)
(*                                                                           *)
(* The adapter and the connection manager are external: requests of a side   *)
(* arrive once and in order, messages only into a posted receive             *)
(* (rnr_retry_count = 7), and each is acknowledged.  With AcksFirst an       *)
(* acknowledgement comes before what the peer sends later, as on an in-order *)
(* loss-free fabric; without, it may be overtaken.  Both sides are started   *)
(* in the same mode.                                                         *)
(*****************************************************************************)
EXTENDS Integers, Sequences

CONSTANT AcksFirst
ASSUME AcksFirstAssumption == AcksFirst \in BOOLEAN

VARIABLES
  mode,         (* s_mode of both sides                                      *)
  cm,           (* how far the connection is set up                          *)
  connected,    (* conn->connected                                           *)
  sendState,    (* conn->send_state, SS_INIT..SS_DONE_SENT as 0..3           *)
  recvState,    (* conn->recv_state, RS_INIT..RS_DONE_RECV as 0..2           *)
  sendMsg,      (* conn->send_msg->type                                      *)
  recvMsg,      (* conn->recv_msg->type                                      *)
  posted,       (* receives posted                                           *)
  sq,           (* posted work requests, "send" or "rdma"                    *)
  unacked,      (* those that arrived and have no completion yet             *)
  cq,           (* the completion queue                                      *)
  spinning,     (* the poller is in send_message's wait for connected        *)
  got,          (* the peer's message is in the region that is printed       *)
  discon,       (* the side has printed it and called rdma_disconnect        *)
  gone,         (* the connection is destroyed                               *)
  died,         (* the process has died                                      *)
  mrs           (* auxiliary: the MSG_MR sends posted                        *)

state == <<sendState, recvState, sendMsg>>
queues == <<posted, sq, unacked, cq>>
ends == <<discon, gone, died>>
vars == <<mode, cm, connected, state, recvMsg, queues, spinning, got, ends,
          mrs>>

Sides == {"client", "server"}
Peer(s) == IF s = "client" THEN "server" ELSE "client"
Set(f, s, x) == [f EXCEPT ![s] = x]
Add(f, s, n) == [f EXCEPT ![s] = @ + n]
Push(f, s, q) == [f EXCEPT ![s] = @ \o q]
Pop(f, s) == [f EXCEPT ![s] = Tail(@)]

Init ==
  /\ mode \in {"write", "read"}
  /\ cm = "none"
  /\ connected = [s \in Sides |-> FALSE]
  /\ sendState = [s \in Sides |-> 0] /\ recvState = [s \in Sides |-> 0]
  /\ sendMsg = [s \in Sides |-> "unset"] /\ recvMsg = [s \in Sides |-> "unset"]
  /\ posted = [s \in Sides |-> 0]
  /\ sq = [s \in Sides |-> <<>>] /\ unacked = [s \in Sides |-> <<>>]
  /\ cq = [s \in Sides |-> <<>>]
  /\ spinning = [s \in Sides |-> FALSE]
  /\ got = [s \in Sides |-> FALSE]
  /\ discon = [s \in Sides |-> FALSE] /\ gone = [s \in Sides |-> FALSE]
  /\ died = [s \in Sides |-> FALSE]
  /\ mrs = [s \in Sides |-> 0]

-----------------------------------------------------------------------------
(* The event threads                                                         *)

CmGoto(from, to) == cm = from /\ cm' = to

PostReceives(s) == posted' = Add(posted, s, 1)

(* build_connection posts the first receive.                                 *)
OnAddrResolved ==
  /\ CmGoto("none", "resolved")
  /\ PostReceives("client")
  /\ UNCHANGED <<mode, connected, state, recvMsg, sq, unacked, cq, spinning,
                 got, ends, mrs>>

OnRouteResolved ==
  /\ CmGoto("resolved", "requested")
  /\ UNCHANGED <<mode, connected, state, recvMsg, queues, spinning, got, ends,
                 mrs>>

OnConnectRequest ==
  /\ CmGoto("requested", "accepted")
  /\ PostReceives("server")
  /\ UNCHANGED <<mode, connected, state, recvMsg, sq, unacked, cq, spinning,
                 got, ends, mrs>>

(* The client's on_connection: on_connect and send_mr.                       *)
OnClientConnection ==
  /\ CmGoto("accepted", "up")
  /\ connected' = Set(connected, "client", TRUE)
  /\ sendMsg' = Set(sendMsg, "client", "MR")
  /\ sq' = Push(sq, "client", <<"send">>)
  /\ mrs' = Add(mrs, "client", 1)
  /\ UNCHANGED <<mode, sendState, recvState, recvMsg, posted, unacked, cq,
                 spinning, got, ends>>

(* The server's: its first message may be there already.                     *)
OnServerConnection ==
  /\ cm = "up" /\ ~connected["server"]
  /\ connected' = Set(connected, "server", TRUE)
  /\ UNCHANGED <<mode, cm, state, recvMsg, queues, spinning, got, ends, mrs>>

(* DISCONNECTED, by either side: destroy_connection.  The client's main then *)
(* returns.                                                                  *)
OnDisconnect(s) ==
  /\ \E r \in Sides : discon[r]
  /\ ~gone[s] /\ ~died[s]
  /\ gone' = Set(gone, s, TRUE)
  /\ sq' = Set(sq, s, <<>>) /\ unacked' = Set(unacked, s, <<>>)
  /\ posted' = Set(posted, s, 0)
  /\ UNCHANGED <<mode, cm, connected, state, recvMsg, cq, spinning, got, discon,
                 died, mrs>>

-----------------------------------------------------------------------------
(* on_completion                                                             *)

(* rdma_disconnect flushes what is outstanding as errors.                    *)
Disconnect(s) ==
  /\ discon' = Set(discon, s, TRUE)
  /\ cq' = IF posted[s] > 0 \/ sq[s] # <<>> \/ unacked[s] # <<>>
           THEN Set(cq, s, Append(Tail(cq[s]), "error")) ELSE Pop(cq, s)

(* Mutant: DONE is sent first, and the RDMA request after it.                *)
RdmaRequestsDoneFirst(s) == sq' = Push(sq, s, <<"send", "rdma">>)

(* The RDMA request, and DONE behind it.                                     *)
RdmaRequests(s) == sq' = Push(sq, s, <<"rdma", "send">>)

(* Mutant: disconnect when the own DONE is out.                              *)
ProceedEarly(s, ss, rs) ==
  /\ sendState' = Set(sendState, s, ss) /\ recvState' = Set(recvState, s, rs)
  /\ IF ss = 1 /\ rs = 1
     THEN /\ RdmaRequests(s)
          /\ sendMsg' = Set(sendMsg, s, "DONE")
          /\ cq' = Pop(cq, s) /\ UNCHANGED discon
     ELSE /\ UNCHANGED <<sendMsg, sq>>
          /\ IF ss = 3 THEN Disconnect(s)
             ELSE cq' = Pop(cq, s) /\ UNCHANGED discon

(* What follows once the states are ss and rs.                               *)
Proceed(s, ss, rs) ==
  /\ sendState' = Set(sendState, s, ss) /\ recvState' = Set(recvState, s, rs)
  /\ IF ss = 1 /\ rs = 1
     THEN /\ RdmaRequests(s)
          /\ sendMsg' = Set(sendMsg, s, "DONE")
          /\ cq' = Pop(cq, s) /\ UNCHANGED discon
     ELSE /\ UNCHANGED <<sendMsg, sq>>
          /\ IF ss = 3 /\ rs = 2 THEN Disconnect(s)
             ELSE cq' = Pop(cq, s) /\ UNCHANGED discon

Polls(s, what) ==
  ~gone[s] /\ ~died[s] /\ ~spinning[s] /\ cq[s] # <<>> /\ Head(cq[s]) \in what

(* A request has completed, or was flushed: then the process dies.           *)
PollSent(s) ==
  /\ Polls(s, {"send", "error"})
  /\ IF Head(cq[s]) = "error"
     THEN /\ died' = Set(died, s, TRUE)
          /\ UNCHANGED <<state, sq, cq, discon>>
     ELSE Proceed(s, sendState[s] + 1, recvState[s]) /\ UNCHANGED died
  /\ UNCHANGED <<mode, cm, connected, recvMsg, posted, unacked, spinning, got,
                 gone, mrs>>

PollDone(s) ==
  /\ Polls(s, {"recv"}) /\ recvMsg[s] # "MR"
  /\ Proceed(s, sendState[s], recvState[s] + 1)
  /\ UNCHANGED <<mode, cm, connected, recvMsg, posted, unacked, spinning, got,
                 gone, died, mrs>>

(* Mutants: the peer's region is answered with ours every time; the receive  *)
(* is not posted again.                                                      *)
PollMrAnswer(s) ==
  /\ Polls(s, {"recv"}) /\ recvMsg[s] = "MR"
  /\ PostReceives(s)
  /\ sendMsg' = Set(sendMsg, s, "MR") /\ spinning' = Set(spinning, s, TRUE)
  /\ recvState' = Add(recvState, s, 1)
  /\ cq' = Pop(cq, s)
  /\ UNCHANGED <<mode, cm, connected, sendState, recvMsg, sq, unacked, got,
                 ends, mrs>>

PollMrNoRearm(s) ==
  /\ Polls(s, {"recv"}) /\ recvMsg[s] = "MR"
  /\ IF sendState[s] = 0
     THEN /\ sendMsg' = Set(sendMsg, s, "MR")
          /\ spinning' = Set(spinning, s, TRUE)
          /\ recvState' = Add(recvState, s, 1)
          /\ cq' = Pop(cq, s)
          /\ UNCHANGED <<sendState, sq, discon>>
     ELSE Proceed(s, sendState[s], recvState[s] + 1) /\ UNCHANGED spinning
  /\ UNCHANGED <<mode, cm, connected, recvMsg, posted, unacked, got, gone, died,
                 mrs>>

(* MSG_MR: post_receives, and send_mr "if received before sending ours",     *)
(* which waits for connected.                                                *)
PollMr(s) ==
  /\ Polls(s, {"recv"}) /\ recvMsg[s] = "MR"
  /\ PostReceives(s)
  /\ IF sendState[s] = 0
     THEN /\ sendMsg' = Set(sendMsg, s, "MR")
          /\ spinning' = Set(spinning, s, TRUE)
          /\ recvState' = Add(recvState, s, 1)
          /\ cq' = Pop(cq, s)
          /\ UNCHANGED <<sendState, sq, discon>>
     ELSE Proceed(s, sendState[s], recvState[s] + 1) /\ UNCHANGED spinning
  /\ UNCHANGED <<mode, cm, connected, recvMsg, unacked, got, gone, died, mrs>>

SendMr(s) ==
  /\ spinning[s] /\ connected[s] /\ ~gone[s]
  /\ spinning' = Set(spinning, s, FALSE)
  /\ sq' = Push(sq, s, <<"send">>)
  /\ mrs' = Add(mrs, s, 1)
  /\ UNCHANGED <<mode, cm, connected, state, recvMsg, posted, unacked, cq, got,
                 ends>>

(* The poller works on a connection that the event thread has freed: what    *)
(* it finds there is undefined.  (The client's process is over by then.)     *)
PollFreed ==
  /\ gone["server"] /\ ~died["server"] /\ cq["server"] # <<>>
  /\ cq' = Pop(cq, "server")
  /\ \E d \in BOOLEAN : died' = Set(died, "server", d)
  /\ UNCHANGED <<mode, cm, connected, state, recvMsg, posted, sq, unacked,
                 spinning, got, discon, gone, mrs>>

-----------------------------------------------------------------------------
(* The adapters                                                              *)

Linked == cm = "up" /\ \A s \in Sides : ~discon[s] /\ ~gone[s]

(* The first request of s arrives at its peer.                               *)
Arrives(s) ==
  LET p == Peer(s) IN
  /\ Linked /\ sq[s] # <<>>
  /\ AcksFirst => unacked[p] = <<>>
  /\ IF Head(sq[s]) = "rdma"
     THEN /\ got' = IF mode = "write" THEN Set(got, p, TRUE) ELSE got
          /\ UNCHANGED <<recvMsg, posted, cq>>
     ELSE /\ posted[p] > 0
          /\ posted' = Add(posted, p, -1)
          /\ recvMsg' = Set(recvMsg, p, sendMsg[s])
          /\ cq' = Push(cq, p, <<"recv">>)
          /\ UNCHANGED got
  /\ sq' = Pop(sq, s)
  /\ unacked' = Push(unacked, s, <<Head(sq[s])>>)
  /\ UNCHANGED <<mode, cm, connected, state, spinning, ends, mrs>>

(* Its acknowledgement, or the data it reads, comes back.                    *)
Completes(s) ==
  /\ unacked[s] # <<>> /\ ~gone[s]
  /\ unacked' = Pop(unacked, s)
  /\ cq' = Push(cq, s, <<"send">>)
  /\ got' = IF Head(unacked[s]) = "rdma" /\ mode = "read"
            THEN Set(got, s, TRUE) ELSE got
  /\ UNCHANGED <<mode, cm, connected, state, recvMsg, posted, sq, spinning,
                 ends, mrs>>

-----------------------------------------------------------------------------
Connecting == OnAddrResolved \/ OnRouteResolved \/ OnConnectRequest
              \/ OnClientConnection
Poller(s) == PollSent(s) \/ PollDone(s) \/ PollMr(s) \/ SendMr(s)

Next ==
  \/ Connecting \/ OnServerConnection
  \/ \E s \in Sides : Poller(s) \/ Arrives(s) \/ Completes(s) \/ OnDisconnect(s)
  \/ PollFreed

(* Both sides' threads and adapters keep going.                              *)
Fairness ==
  /\ WF_vars(Connecting) /\ WF_vars(OnServerConnection)
  /\ \A s \in Sides : /\ WF_vars(Poller(s)) /\ WF_vars(Arrives(s))
                      /\ WF_vars(Completes(s)) /\ WF_vars(OnDisconnect(s))

Spec == Init /\ [][Next]_vars /\ Fairness

-----------------------------------------------------------------------------
(* Properties                                                                *)

TypeOK ==
  /\ mode \in {"write", "read"}
  /\ cm \in {"none", "resolved", "requested", "accepted", "up"}
  /\ sendState \in [Sides -> 0..3] /\ recvState \in [Sides -> 0..2]
  /\ sendMsg \in [Sides -> {"unset", "MR", "DONE"}]
  /\ recvMsg \in [Sides -> {"unset", "MR", "DONE"}]
  /\ posted \in [Sides -> 0..1]
  /\ sq \in [Sides -> Seq({"send", "rdma"})]
  /\ unacked \in [Sides -> Seq({"send", "rdma"})]
  /\ cq \in [Sides -> Seq({"send", "recv", "error"})]
  /\ {connected, spinning, got, discon, gone, died} \subseteq [Sides -> BOOLEAN]

(* "received peer's MR before sending ours, so send ours back"               *)
(* (on_completion): a region is sent back only when it has not been sent.    *)
MrIsSentOnce == \A s \in Sides : mrs[s] <= 1

(* Who prints the peer's message and disconnects has the message, and leaves *)
(* nothing to be flushed as an error.                                        *)
PrintsThePeersMessage ==
  \A s \in Sides : discon[s] =>
    /\ got[s]
    /\ \A i \in DOMAIN cq[s] : cq[s][i] # "error"

(* A side that is cut off before it prints, because the event thread frees   *)
(* the connection the poller still needs, is cut off by a peer that has      *)
(* printed; and what that peer wrote is there.                               *)
CutOffByAFinishedPeer ==
  \A s \in Sides : gone[s] /\ ~discon[s] =>
    /\ discon[Peer(s)]
    /\ recvState[s] >= 1 /\ sendState[s] >= 1
    /\ mode = "write" => got[s]

(* The handshake always ends, on both sides.                                 *)
BothSidesEnd == <>(\A s \in Sides : gone[s])
===============================================================================
