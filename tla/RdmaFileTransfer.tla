--------------------------- MODULE RdmaFileTransfer ---------------------------
(*****************************************************************************)
(* rdma/03_file-transfer: clients copy one file each to a server over        *)
(* reliable RDMA connections.                                                *)
(*                                                                           *)
(* A client process has an event thread (connection events) and a poller     *)
(* (completions); so has the server, one of each for all its connections.    *)
(* Both ends work on one buffer and one message per connection, and take     *)
(* turns: the client RDMA-writes the file's name, then its chunks, then an   *)
(* empty write, each announced by its immediate data; the server answers     *)
(* every one but the last with READY and the last with DONE.                 *)
(*                                                                           *)
(* The adapter and the connection manager are external.  A work request      *)
(* names a buffer, and the adapter reads it when it transmits.  Requests of  *)
(* a connection arrive once and in order, each only when the peer has a      *)
(* receive posted (rnr_retry_count = 7 retries for ever), and are            *)
(* acknowledged before anything the peer sends in answer.  Disconnecting     *)
(* flushes what is outstanding as errors.                                    *)
(*****************************************************************************)
EXTENDS Naturals, Sequences, FiniteSets, SequencesExt

CONSTANTS Clients,      (* client processes, with their connection           *)
          Namings,      (* the ways in which the clients' files may be named *)
          Chunks,       (* Chunks[c]: its length, in buffers                 *)
          None

(* What is in a file of c after its first k chunks.                          *)
Part(c, k) == [i \in 1..k |-> <<c, i>>]

ASSUME ChunksAssumption == Chunks \in [Clients -> Nat]

(* None stands for no connection, no message and no file.                    *)
ASSUME NoneAssumption ==
  /\ None \notin Clients \union {"MR", "READY", "DONE"}
  /\ \A c \in Clients : \A k \in 0..Chunks[c] : None # Part(c, k)

VARIABLES
  name,         (* the name of the file c sends, ctx.file_name               *)
  conn,         (* how far the connection of c is, on either side            *)
  cAt,          (* where c's poller is                                       *)
  offset,       (* c's file offset                                           *)
  cBuf, cMsg,   (* c's data buffer and message                               *)
  cRecv,        (* receives c has posted                                     *)
  cCq,          (* c's completion queue                                      *)
  writes,       (* c's posted writes, by their immediate data                *)
  cUnacked,     (* writes that arrived and have no completion yet            *)
  alive,        (* the server process runs                                   *)
  sAt,          (* the connection and step the server's poller works on      *)
  opened,       (* ctx->file_name is set and ctx->fd open                    *)
  file,         (* the server's files: chunks written, or None               *)
  sBuf, sMsg,   (* the buffer and message of each connection                 *)
  sRecv,        (* receives the server has posted on each connection         *)
  sCq,          (* its completion queue, one for all connections             *)
  sends,        (* its posted sends, per connection                          *)
  sUnacked      (* sends that arrived and have no completion yet             *)

client == <<name, cAt, offset, cBuf, cMsg, cRecv, cCq, writes, cUnacked>>
server == <<alive, sAt, opened, file, sBuf, sMsg, sRecv, sCq, sends, sUnacked>>
vars   == <<conn, client, server>>

Names == UNION {{f[c] : c \in Clients} : f \in Namings}
Idle  == [conn |-> None, size |-> 0, step |-> "poll"]

Add(f, c, n) == [f EXCEPT ![c] = @ + n]
Push(f, c, x) == [f EXCEPT ![c] = Append(@, x)]

Init ==
  /\ name \in Namings
  /\ conn = [c \in Clients |-> "none"]
  /\ cAt  = [c \in Clients |-> "poll"]
  /\ offset = [c \in Clients |-> 0]
  /\ cBuf = [c \in Clients |-> None] /\ cMsg = [c \in Clients |-> None]
  /\ cRecv = [c \in Clients |-> 0]
  /\ cCq = [c \in Clients |-> <<>>]
  /\ writes = [c \in Clients |-> <<>>]
  /\ cUnacked = [c \in Clients |-> 0]
  /\ alive = TRUE
  /\ sAt = Idle
  /\ opened = [c \in Clients |-> FALSE]
  /\ file = [n \in Names |-> None]
  /\ sBuf = [c \in Clients |-> None] /\ sMsg = [c \in Clients |-> None]
  /\ sRecv = [c \in Clients |-> 0]
  /\ sCq = <<>>
  /\ sends = [c \in Clients |-> 0]
  /\ sUnacked = [c \in Clients |-> 0]

Running(c) == cAt[c] \notin {"exited", "died"}
ConnGoto(c, from, to) == conn[c] = from /\ conn' = [conn EXCEPT ![c] = to]
CGoto(c, from, to) == cAt[c] = from /\ cAt' = [cAt EXCEPT ![c] = to]

-----------------------------------------------------------------------------
(* Connection set-up: the event loops                                        *)

(* ADDR_RESOLVED: build_connection, on_pre_conn, rdma_resolve_route.         *)
OnAddrResolved(c) ==
  /\ ConnGoto(c, "none", "resolved") /\ Running(c)
  /\ cRecv' = Add(cRecv, c, 1)
  /\ UNCHANGED <<name, cAt, offset, cBuf, cMsg, cCq, writes, cUnacked, server>>

(* ROUTE_RESOLVED: rdma_connect.                                             *)
OnRouteResolved(c) ==
  /\ ConnGoto(c, "resolved", "requested") /\ Running(c)
  /\ UNCHANGED <<client, server>>

(* CONNECT_REQUEST: build_connection, on_pre_conn, rdma_accept.              *)
OnConnectRequest(c) ==
  /\ alive /\ ConnGoto(c, "requested", "accepted")
  /\ sRecv' = Add(sRecv, c, 1)
  /\ UNCHANGED <<client, alive, sAt, opened, file, sBuf, sMsg, sCq, sends,
                 sUnacked>>

(* The client's ESTABLISHED has no callback.                                 *)
OnClientEstablished(c) ==
  /\ ConnGoto(c, "accepted", "confirmed") /\ Running(c)
  /\ UNCHANGED <<client, server>>

Send(c, msg) == sMsg' = [sMsg EXCEPT ![c] = msg] /\ sends' = Add(sends, c, 1)

(* ESTABLISHED: on_connection sends the memory region.                       *)
OnEstablished(c) ==
  /\ alive /\ ConnGoto(c, "confirmed", "up")
  /\ Send(c, "MR")
  /\ UNCHANGED <<client, alive, sAt, opened, file, sBuf, sRecv, sCq, sUnacked>>

(* DISCONNECTED: rdma_destroy_qp, on_disconnect, rdma_destroy_id.  What is   *)
(* already in the completion queue stays there.                              *)
OnDisconnected(c) ==
  /\ alive /\ ConnGoto(c, "down", "closed")
  /\ sRecv' = [sRecv EXCEPT ![c] = 0]
  /\ sends' = [sends EXCEPT ![c] = 0]
  /\ sUnacked' = [sUnacked EXCEPT ![c] = 0]
  /\ UNCHANGED <<client, alive, sAt, opened, file, sBuf, sMsg, sCq>>

(* The client's DISCONNECTED: leave the event loop and return from main.     *)
(* It also comes when the server is gone.                                    *)
OnClientDisconnected(c) ==
  /\ Running(c)
  /\ \/ conn[c] \in {"down", "closed"}
     \/ conn[c] \in {"confirmed", "up"} /\ ~alive
  /\ cAt' = [cAt EXCEPT ![c] = "exited"]
  /\ UNCHANGED <<name, conn, offset, cBuf, cMsg, cRecv, cCq, writes, cUnacked,
                 server>>

(* Its process ends, and with it the connection.                             *)
ClientDies(c) ==
  /\ cAt'  = [cAt EXCEPT ![c] = "died"]
  /\ conn' = [conn EXCEPT ![c] = IF @ = "closed" THEN @ ELSE "down"]

(* Nobody listens any more: the event is "unknown".                          *)
OnRejected(c) ==
  /\ Running(c) /\ conn[c] = "requested" /\ ~alive
  /\ ClientDies(c)
  /\ UNCHANGED <<name, offset, cBuf, cMsg, cRecv, cCq, writes, cUnacked,
                 server>>

-----------------------------------------------------------------------------
(* The client's on_completion                                                *)

(* Mutant: the last write's completion is taken for the end.                 *)
ClientPollNoDone(c) ==
  /\ cAt[c] = "poll" /\ cCq[c] # <<>>
  /\ cCq' = [cCq EXCEPT ![c] = Tail(@)]
  /\ IF Head(cCq[c]) = "recv"
     THEN cAt' = [cAt EXCEPT ![c] = "handle"] /\ UNCHANGED conn
     ELSE /\ conn' = IF offset[c] = Chunks[c] /\ cMsg[c] = "READY"
                     THEN [conn EXCEPT ![c] = "down"] ELSE conn
          /\ UNCHANGED cAt
  /\ UNCHANGED <<name, offset, cBuf, cMsg, cRecv, writes, cUnacked, server>>

(* poll_cq: an error ends the process; the completion of a write needs       *)
(* nothing.                                                                  *)
ClientPoll(c) ==
  /\ cAt[c] = "poll" /\ cCq[c] # <<>>
  /\ cCq' = [cCq EXCEPT ![c] = Tail(@)]
  /\ IF Head(cCq[c]) = "error"
     THEN ClientDies(c)
     ELSE /\ cAt' = [cAt EXCEPT ![c] = IF Head(cCq[c]) = "recv"
                                       THEN "handle" ELSE "poll"]
          /\ UNCHANGED conn
  /\ UNCHANGED <<name, offset, cBuf, cMsg, cRecv, writes, cUnacked, server>>

(* MSG_MR: send_file_name.                                                   *)
ClientOnMR(c) ==
  /\ cMsg[c] = "MR" /\ CGoto(c, "handle", "post")
  /\ cBuf' = [cBuf EXCEPT ![c] = name[c]]
  /\ writes' = Push(writes, c, 1)
  /\ UNCHANGED <<name, conn, offset, cMsg, cRecv, cCq, cUnacked, server>>

(* Mutant: no empty write at the end of the file.                            *)
ClientOnReadyNoEof(c) ==
  /\ cMsg[c] = "READY" /\ CGoto(c, "handle", "post")
  /\ offset[c] < Chunks[c]
  /\ offset' = Add(offset, c, 1)
  /\ cBuf' = [cBuf EXCEPT ![c] = <<c, offset[c] + 1>>]
  /\ writes' = Push(writes, c, 1)
  /\ UNCHANGED <<name, conn, cMsg, cRecv, cCq, cUnacked, server>>

(* Mutant: the chunk before the end is taken for the end.                    *)
ClientOnReadyShort(c) ==
  /\ cMsg[c] = "READY" /\ CGoto(c, "handle", "post")
  /\ IF offset[c] + 1 < Chunks[c]
     THEN /\ offset' = Add(offset, c, 1)
          /\ cBuf' = [cBuf EXCEPT ![c] = <<c, offset[c] + 1>>]
          /\ writes' = Push(writes, c, 1)
     ELSE /\ writes' = Push(writes, c, 0)
          /\ UNCHANGED <<offset, cBuf>>
  /\ UNCHANGED <<name, conn, cMsg, cRecv, cCq, cUnacked, server>>

(* Mutant: the first READY is answered with two chunks from the one buffer.  *)
ClientOnReadyTwo(c) ==
  /\ cMsg[c] = "READY"
  /\ IF offset[c] < Chunks[c]
     THEN /\ CGoto(c, "handle", IF offset[c] = 0 THEN "handle" ELSE "post")
          /\ offset' = Add(offset, c, 1)
          /\ cBuf' = [cBuf EXCEPT ![c] = <<c, offset[c] + 1>>]
          /\ writes' = Push(writes, c, 1)
     ELSE /\ CGoto(c, "handle", "post")
          /\ writes' = Push(writes, c, 0)
          /\ UNCHANGED <<offset, cBuf>>
  /\ UNCHANGED <<name, conn, cMsg, cRecv, cCq, cUnacked, server>>

(* MSG_READY: send_next_chunk; at the end of the file the write is empty.    *)
ClientOnReady(c) ==
  /\ cMsg[c] = "READY" /\ CGoto(c, "handle", "post")
  /\ \/ /\ offset[c] < Chunks[c]
        /\ offset' = Add(offset, c, 1)
        /\ cBuf' = [cBuf EXCEPT ![c] = <<c, offset[c] + 1>>]
        /\ writes' = Push(writes, c, 1)
     \/ /\ offset[c] = Chunks[c]
        /\ writes' = Push(writes, c, 0)
        /\ UNCHANGED <<offset, cBuf>>
  /\ UNCHANGED <<name, conn, cMsg, cRecv, cCq, cUnacked, server>>

ReadFails(c) ==
  /\ cMsg[c] = "READY" /\ cAt[c] = "handle"
  /\ ClientDies(c)
  /\ UNCHANGED <<name, offset, cBuf, cMsg, cRecv, cCq, writes, cUnacked,
                 server>>

(* rdma_disconnect turns everything outstanding into flush errors.           *)
Disconnect(c) ==
  /\ conn' = [conn EXCEPT ![c] = "down"]
  /\ cCq' = IF cRecv[c] > 0 \/ writes[c] # <<>> \/ cUnacked[c] > 0
            THEN Push(cCq, c, "error") ELSE cCq
  /\ writes' = [writes EXCEPT ![c] = <<>>]

(* MSG_DONE: rc_disconnect and return, without a receive.                    *)
ClientOnDone(c) ==
  /\ cMsg[c] = "DONE" /\ CGoto(c, "handle", "poll")
  /\ Disconnect(c)
  /\ UNCHANGED <<name, offset, cBuf, cMsg, cRecv, cUnacked, server>>

(* The receive for the next message, after the write that asks for it.       *)
ClientPostReceive(c) ==
  /\ CGoto(c, "post", "poll")
  /\ IF conn[c] = "up"
     THEN cRecv' = Add(cRecv, c, 1) /\ UNCHANGED cCq
     ELSE cCq' = Push(cCq, c, "error") /\ UNCHANGED cRecv
  /\ UNCHANGED <<name, conn, offset, cBuf, cMsg, writes, cUnacked, server>>

-----------------------------------------------------------------------------
(* The server's on_completion                                                *)

At(step) == alive /\ sAt.step = step
SGoto(step) == sAt' = [sAt EXCEPT !.step = step]

ServerDies ==
  /\ alive' = FALSE
  /\ UNCHANGED <<conn, client, sAt, opened, file, sBuf, sMsg, sRecv, sCq,
                 sends, sUnacked>>

(* A send completion needs nothing; a write is dealt with by its size.       *)
ServerPoll ==
  /\ At("poll") /\ sCq # <<>>
  /\ sCq' = Tail(sCq)
  /\ \/ Head(sCq).what = "send" /\ UNCHANGED sAt
     \/ /\ Head(sCq).what = "recv"
        /\ sAt' = [conn |-> Head(sCq).conn, size |-> Head(sCq).size,
                   step |-> "handle"]
  /\ UNCHANGED <<conn, client, alive, opened, file, sBuf, sMsg, sRecv, sends,
                 sUnacked>>

ServerOnEmpty(c) ==
  /\ At("handle") /\ sAt.conn = c /\ sAt.size = 0
  /\ Send(c, "DONE")
  /\ sAt' = Idle
  /\ UNCHANGED <<conn, client, alive, opened, file, sBuf, sRecv, sCq,
                 sUnacked>>

(* The first write is the file's name; O_EXCL wants a new file.              *)
ServerOnName(c) ==
  /\ At("handle") /\ sAt.conn = c /\ sAt.size # 0 /\ ~opened[c]
  /\ file[sBuf[c]] = None
  /\ opened' = [opened EXCEPT ![c] = TRUE]
  /\ file' = [file EXCEPT ![sBuf[c]] = <<>>]
  /\ SGoto("post")
  /\ UNCHANGED <<conn, client, alive, sBuf, sMsg, sRecv, sCq, sends, sUnacked>>

OpenFails(c) ==
  /\ At("handle") /\ sAt.conn = c /\ sAt.size # 0 /\ ~opened[c]
  /\ file[sBuf[c]] # None
  /\ ServerDies

ServerOnChunk(c) ==
  /\ At("handle") /\ sAt.conn = c /\ sAt.size # 0 /\ opened[c]
  /\ file' = [file EXCEPT ![name[c]] = Append(@, sBuf[c])]
  /\ SGoto("post")
  /\ UNCHANGED <<conn, client, alive, opened, sBuf, sMsg, sRecv, sCq, sends,
                 sUnacked>>

WriteFails(c) ==
  /\ At("handle") /\ sAt.conn = c /\ sAt.size # 0 /\ opened[c]
  /\ ServerDies

(* Mutant: one READY too many.                                               *)
ServerPostReceiveAnswer(c) ==
  /\ At("post") /\ sAt.conn = c
  /\ sRecv' = Add(sRecv, c, 1)
  /\ Send(c, "READY")
  /\ SGoto("answer")
  /\ UNCHANGED <<conn, client, alive, opened, file, sBuf, sCq, sUnacked>>

ServerPostReceive(c) ==
  /\ At("post") /\ sAt.conn = c
  /\ sRecv' = Add(sRecv, c, 1)
  /\ SGoto("answer")
  /\ UNCHANGED <<conn, client, alive, opened, file, sBuf, sMsg, sCq, sends,
                 sUnacked>>

ServerAnswer(c) ==
  /\ At("answer") /\ sAt.conn = c
  /\ Send(c, "READY")
  /\ sAt' = Idle
  /\ UNCHANGED <<conn, client, alive, opened, file, sBuf, sRecv, sCq,
                 sUnacked>>

-----------------------------------------------------------------------------
(* The adapters                                                              *)

WriteArrives(c) ==
  /\ alive /\ conn[c] = "up" /\ sUnacked[c] = 0
  /\ writes[c] # <<>> /\ sRecv[c] > 0
  /\ sBuf' = IF Head(writes[c]) = 0 THEN sBuf ELSE [sBuf EXCEPT ![c] = cBuf[c]]
  /\ sRecv' = Add(sRecv, c, -1)
  /\ sCq' = Append(sCq, [what |-> "recv", conn |-> c, size |-> Head(writes[c])])
  /\ writes' = [writes EXCEPT ![c] = Tail(@)]
  /\ cUnacked' = Add(cUnacked, c, 1)
  /\ UNCHANGED <<name, conn, cAt, offset, cBuf, cMsg, cRecv, cCq, alive, sAt,
                 opened, file, sMsg, sends, sUnacked>>

WriteCompletes(c) ==
  /\ Running(c) /\ conn[c] = "up" /\ cUnacked[c] > 0
  /\ cUnacked' = Add(cUnacked, c, -1)
  /\ cCq' = Push(cCq, c, "write")
  /\ UNCHANGED <<name, conn, cAt, offset, cBuf, cMsg, cRecv, writes, server>>

SendArrives(c) ==
  /\ Running(c) /\ conn[c] = "up" /\ cUnacked[c] = 0
  /\ sends[c] > 0 /\ cRecv[c] > 0
  /\ cMsg' = [cMsg EXCEPT ![c] = sMsg[c]]
  /\ cRecv' = Add(cRecv, c, -1)
  /\ cCq' = Push(cCq, c, "recv")
  /\ sends' = Add(sends, c, -1)
  /\ sUnacked' = Add(sUnacked, c, 1)
  /\ UNCHANGED <<name, conn, cAt, offset, cBuf, writes, cUnacked, alive, sAt,
                 opened, file, sBuf, sMsg, sRecv, sCq>>

SendCompletes(c) ==
  /\ alive /\ sUnacked[c] > 0
  /\ sUnacked' = Add(sUnacked, c, -1)
  /\ sCq' = Append(sCq, [what |-> "send", conn |-> c, size |-> 0])
  /\ UNCHANGED <<conn, client, alive, sAt, opened, file, sBuf, sMsg, sRecv,
                 sends>>

-----------------------------------------------------------------------------
ClientPoller(c) == ClientPoll(c) \/ ClientOnMR(c) \/ ClientOnReady(c)
                   \/ ClientOnDone(c) \/ ClientPostReceive(c)
ClientEvents(c) == OnAddrResolved(c) \/ OnRouteResolved(c)
                   \/ OnClientEstablished(c) \/ OnClientDisconnected(c)
                   \/ OnRejected(c)
ServerPoller ==
  \/ ServerPoll
  \/ \E c \in Clients : \/ ServerOnEmpty(c) \/ ServerOnName(c) \/ OpenFails(c)
                        \/ ServerOnChunk(c) \/ ServerPostReceive(c)
                        \/ ServerAnswer(c)
ServerEvents(c) == OnConnectRequest(c) \/ OnEstablished(c) \/ OnDisconnected(c)
Adapter(c) == WriteArrives(c) \/ WriteCompletes(c) \/ SendArrives(c)
              \/ SendCompletes(c)

Next ==
  \/ \E c \in Clients :
       \/ ClientPoller(c) \/ ClientEvents(c) \/ ServerEvents(c) \/ Adapter(c)
       \/ ReadFails(c) \/ WriteFails(c)
  \/ ServerPoller

(* Every thread and every adapter keeps going; nothing has to fail.          *)
Fairness ==
  /\ WF_vars(ServerPoller)
  /\ \A c \in Clients :
       /\ WF_vars(ClientPoller(c)) /\ WF_vars(ClientEvents(c))
       /\ WF_vars(ServerEvents(c)) /\ WF_vars(WriteArrives(c))
       /\ WF_vars(WriteCompletes(c)) /\ WF_vars(SendArrives(c))
       /\ WF_vars(SendCompletes(c))

Spec == Init /\ [][Next]_vars /\ Fairness

-----------------------------------------------------------------------------
(* Properties                                                                *)

Whole(c) == Part(c, Chunks[c])
Msgs     == {"MR", "READY", "DONE", None}
Entries  == [what : {"send", "recv"}, conn : Clients, size : {0, 1}]

TypeOK ==
  /\ conn \in [Clients -> {"none", "resolved", "requested", "accepted",
                           "confirmed", "up", "down", "closed"}]
  /\ name \in Namings
  /\ cAt \in [Clients -> {"poll", "handle", "post", "exited", "died"}]
  /\ offset \in [Clients -> Nat]
  /\ \A c \in Clients : offset[c] <= Chunks[c]
  /\ cMsg \in [Clients -> Msgs] /\ sMsg \in [Clients -> Msgs]
  /\ cRecv \in [Clients -> 0..1] /\ sRecv \in [Clients -> 0..1]
  /\ cUnacked \in [Clients -> 0..1] /\ sUnacked \in [Clients -> 0..1]
  /\ sends \in [Clients -> 0..1]
  /\ writes \in [Clients -> Seq({0, 1})]
  /\ cCq \in [Clients -> Seq({"recv", "write", "error"})]
  /\ alive \in BOOLEAN /\ opened \in [Clients -> BOOLEAN]
  /\ sAt \in [conn : Clients \union {None}, size : {0, 1},
              step : {"poll", "handle", "post", "answer"}]
  /\ sCq \in Seq(Entries)
  /\ DOMAIN file = Names
  /\ DOMAIN cBuf = Clients /\ DOMAIN sBuf = Clients

(* Every file the server has opened holds the chunks of its client's file,   *)
(* from the first on, each once and in order: no chunk is taken from a       *)
(* buffer that does not hold it yet or any more.                             *)
FilesAreInOrder ==
  \A c \in Clients : opened[c] => IsPrefix(file[name[c]], Whole(c))

(* A client that saw DONE, or that exits while the server lives, has its     *)
(* whole file on the server.                                                 *)
DoneMeansWhole ==
  \A c \in Clients :
    \/ cMsg[c] = "DONE"
    \/ cAt[c] = "exited" /\ alive
    => opened[c] /\ file[name[c]] = Whole(c)

(* One buffer and one message per end are enough: none is written again      *)
(* while the adapter or the peer's handler still has to read it.             *)
WritesOnlyFree ==
  \A c \in Clients :
    /\ cBuf'[c] # cBuf[c] => writes[c] = <<>>
    /\ sMsg'[c] # sMsg[c] => sends[c] = 0
    /\ sBuf'[c] # sBuf[c] =>
         sAt.conn # c /\ \A i \in DOMAIN sCq :
           sCq[i].conn = c => sCq[i].what = "send"
    /\ cMsg'[c] # cMsg[c] =>
         cAt[c] = "poll" /\ "recv" \notin ToSet(cCq[c])

BuffersAreFree == [][WritesOnlyFree]_vars

(* on_disconnect closes ctx->fd and frees the context.  The descriptor has   *)
(* been opened by then, and the poller is not at work on the context, nor    *)
(* will be but for send completions, for which it only reads id->context.    *)
ContextIsNotInUse ==
  \A c \in Clients : conn[c] = "closed" =>
    /\ opened[c]
    /\ sAt.conn # c
    /\ \A i \in DOMAIN sCq : sCq[i].conn = c => sCq[i].what = "send"

(* A client never ends with "status is not IBV_WC_SUCCESS": nothing is       *)
(* outstanding when it disconnects, and nothing is posted after.             *)
NothingIsFlushed == \A c \in Clients : "error" \notin ToSet(cCq[c])

(* cqe = 10 is arbitrary, says build_context.  A connection never has more   *)
(* than two completions waiting, so it serves five connections at a time.    *)
TwoCompletionsEach ==
  \A c \in Clients : Cardinality({i \in DOMAIN sCq : sCq[i].conn = c}) <= 2

(* The completion queues are never the reason to stop: nothing a client has  *)
(* posted is flushed by its own rc_disconnect, and the server's queue, which *)
(* all connections share, is filled by no connection beyond two entries.     *)
CompletionsSucceedAndFit == NothingIsFlushed /\ TwoCompletionsEach

(* Every client comes to an end, and a connection that is up delivers its    *)
(* file unless a read, a write or an open fails.                             *)
EveryClientEnds == \A c \in Clients : <>(cAt[c] \in {"exited", "died"})

(* sequence.txt: the client re-posts its receive before each write.          *)
ReceiveIsPostedFirst ==
  [][\A c \in Clients : Len(writes'[c]) > Len(writes[c]) => cRecv[c] > 0]_vars
===============================================================================
