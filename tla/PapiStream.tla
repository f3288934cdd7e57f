------------------------------- MODULE PapiStream -------------------------------
(*****************************************************************************)
(* papi/client.cc and server.cc: clients stream messages of one size to a    *)
(* server that reads one connection to its end, in rounds of a fixed number  *)
(* of messages, and checks its buffer after every round.                     *)
(*                                                                           *)
(* The socket layer is external: a stream delivers bytes in order, a send    *)
(* may be cut short by a signal and a recv returns what is there; after the  *)
(* server's process has ended a send fails, which ends the client by an      *)
(* abort or by SIGPIPE.  (The build without io_uring.)                       *)
(*****************************************************************************)
EXTENDS Integers, Sequences

CONSTANTS
  Clients,      (* the client processes                                      *)
  Size,         (* a message, 64 bytes in the code                           *)
  Space,        (* what the socket buffers hold                              *)
  Loops         (* messages a round, 1000 in the code                        *)

VARIABLES
  serving,      (* the server: "off", "up", "down" or "aborted"              *)
  sender,       (* a client: where it is, and what is left of its message    *)
  backlog,      (* the connections the server has not accepted               *)
  s2,           (* the connection it serves, or none                         *)
  size,         (* what is left of the message vio_read reads                *)
  i,            (* messages read in this round                               *)
  buf_recv,     (* the bytes of the buffer that hold a 'c'                   *)
  stream        (* bytes sent and not received                               *)

vars == <<serving, sender, backlog, s2, size, i, buf_recv, stream>>

Nobody == 0
Smaller(a, b) == IF a < b THEN a ELSE b

Init ==
  /\ serving = "off"
  /\ sender = [k \in Clients |-> [at |-> "new", size |-> 0]]
  /\ backlog = <<>> /\ s2 = Nobody /\ size = 0 /\ i = 0 /\ buf_recv = {}
  /\ stream = [k \in Clients |-> 0]

start ==
  /\ serving = "off" /\ serving' = "up"
  /\ UNCHANGED <<sender, backlog, s2, size, i, buf_recv, stream>>

-----------------------------------------------------------------------------
(* The client                                                                *)

Leaves(k) == sender' = [sender EXCEPT ![k] = [at |-> "gone", size |-> 0]]

(* A refused connection aborts.                                              *)
connect(k) ==
  /\ serving # "off" /\ sender[k].at = "new"
  /\ IF serving = "up"
     THEN /\ sender' = [sender EXCEPT ![k] = [at |-> "send", size |-> Size]]
          /\ backlog' = Append(backlog, k)
     ELSE Leaves(k) /\ UNCHANGED backlog
  /\ UNCHANGED <<serving, s2, size, i, buf_recv, stream>>

(* One send of vio_write; the next message starts where one has been sent.   *)
vio_write(k) ==
  /\ sender[k].at = "send"
  /\ \/ \E n \in 1..Smaller(sender[k].size, Space - stream[k]) :
          /\ serving = "up"
          /\ stream' = [stream EXCEPT ![k] = @ + n]
          /\ sender' = [sender EXCEPT ![k].size =
               IF n = @ THEN Size ELSE @ - n]
     \/ serving # "up" /\ Leaves(k) /\ UNCHANGED stream
  /\ UNCHANGED <<serving, backlog, s2, size, i, buf_recv>>

-----------------------------------------------------------------------------
(* The server                                                                *)

NewRound == i' = 0 /\ buf_recv' = {} /\ size' = Size

accept ==
  /\ serving = "up" /\ s2 = Nobody /\ backlog # <<>>
  /\ s2' = Head(backlog) /\ backlog' = Tail(backlog)
  /\ NewRound
  /\ UNCHANGED <<serving, sender, stream>>

(* One recv of vio_read, that leaves something of the message to read.       *)
vio_read_part ==
  /\ serving = "up" /\ s2 # Nobody
  /\ \E n \in 1..Smaller(size - 1, stream[s2]) :
       /\ stream' = [stream EXCEPT ![s2] = @ - n]
       /\ buf_recv' = buf_recv \cup ((Size - size + 1)..(Size - size + n))
       /\ size' = size - n
  /\ UNCHANGED <<serving, sender, backlog, s2, i>>

(* The recv that completes it: the last message of a round is checked.       *)
vio_read_rest ==
  /\ serving = "up" /\ s2 # Nobody /\ stream[s2] >= size
  /\ stream' = [stream EXCEPT ![s2] = @ - size]
  /\ LET full == buf_recv \cup ((Size - size + 1)..Size) IN
       IF i + 1 < Loops
       THEN /\ i' = i + 1 /\ buf_recv' = full /\ size' = Size
            /\ UNCHANGED serving
       ELSE /\ serving' = IF full = 1..Size THEN "up" ELSE "aborted"
            /\ NewRound
  /\ UNCHANGED <<sender, backlog, s2>>

(* The client has closed: its round is not checked, the next one is served.  *)
closed ==
  /\ serving = "up" /\ s2 # Nobody
  /\ stream[s2] = 0 /\ sender[s2].at = "gone"
  /\ s2' = Nobody
  /\ UNCHANGED <<serving, sender, backlog, size, i, buf_recv, stream>>

(* The user stops a process: none of them ends by itself.                    *)
interrupt ==
  /\ serving = "up"
  /\ \/ serving' = "down" /\ UNCHANGED sender
     \/ \E k \in Clients :
          sender[k].at = "send" /\ Leaves(k) /\ UNCHANGED serving
  /\ UNCHANGED <<backlog, s2, size, i, buf_recv, stream>>

-----------------------------------------------------------------------------

server == accept \/ vio_read_part \/ vio_read_rest \/ closed

Next ==
  \/ start
  \/ \E k \in Clients : connect(k) \/ vio_write(k)
  \/ server
  \/ interrupt

(* Both run on; a client's send has to end only when it fails.               *)
Fairness == WF_vars(server) /\ \A k \in Clients : WF_vars(vio_write(k))

-----------------------------------------------------------------------------
(* Properties                                                                *)

(* Framing by size alone does not slip, however sends and reads are cut and  *)
(* whoever goes away in the middle of a message: a live client and the       *)
(* server agree, up to whole messages, on where in a message they are, and   *)
(* the buffer is full of the client's letter at the end of every round.      *)
StreamIsFramed ==
  /\ serving # "aborted"
  /\ s2 # Nobody /\ serving = "up" /\ sender[s2].at = "send" =>
       (stream[s2] - size + sender[s2].size) % Size = 0

(* A connection whose client has gone is closed, so the next one is served,  *)
(* and no client outlives the server for ever, not even one blocked in send. *)
StreamsEnd ==
  \A k \in Clients :
    /\ (serving = "up" /\ s2 = k /\ sender[k].at = "gone")
         ~> (serving # "up" \/ s2 # k)
    /\ (serving = "down" /\ sender[k].at = "send") ~> sender[k].at = "gone"
=============================================================================
