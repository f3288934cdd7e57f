-------------------------------- MODULE VioBench --------------------------------
(*****************************************************************************)
(* mysql/vio-bench and vio-bench2: clients that send a command and wait for  *)
(* its response over non-blocking stream sockets.                            *)
(*                                                                           *)
(* vio-bench ("threads"): one client process, one thread per connection, and *)
(* a server with a thread per connection.  vio-bench2 ("serial"): a process  *)
(* per connection, and a server that serves one connection to its end,       *)
(* after a warm-up that looks at no return value.                            *)
(*                                                                           *)
(* The socket layer is external: a stream delivers bytes in order and a read *)
(* may return fewer than asked for; closing a socket with unread bytes       *)
(* resets the connection, otherwise the peer sees its end; bytes sent to a   *)
(* closed socket come back as a reset; an operation on a reset connection    *)
(* fails once, and then a send raises SIGPIPE, which nobody catches.         *)
(*****************************************************************************)
EXTENDS Integers, FiniteSets

CONSTANTS
  Conns,        (* the connections, 1..n in the order main makes them        *)
  MsgSize,      (* _c2s_size and _s2c_size, in chunks a read may split       *)
  WarmUp        (* the warm-up's rounds, 1000 in the code                    *)

VARIABLES
  bench,        (* "none" until the programs start, "threads" or "serial"    *)
  thread,       (* the client's handler of a connection                      *)
  handler,      (* the server's handler of a connection                      *)
  pipe,         (* bytes a side has been sent and has not read               *)
  ended,        (* what a side can see of the other's close                  *)
  errorFlag,    (* _error_flag of vio-bench's client                         *)
  alive         (* the processes that run                                    *)

vars == <<bench, thread, handler, pipe, ended, errorFlag, alive>>

Sides == {"client", "server"}
Other(s) == IF s = "client" THEN "server" ELSE "client"
Server == 0                   (* its process; the clients' are numbered      *)
Proc(c) == IF bench = "threads" THEN 1 ELSE c
SendBuffer == MsgSize         (* the least a socket buffer holds             *)
At(where, n) == [at |-> where, need |-> n]

Init ==
  /\ bench = "none"
  /\ thread = [c \in Conns |-> At("new", 0)]
  /\ handler = [c \in Conns |-> [at |-> "none", need |-> 0, warm |-> 0]]
  /\ pipe = [c \in Conns |-> [s \in Sides |-> 0]]
  /\ ended = [c \in Conns |-> [s \in Sides |-> "open"]]
  /\ errorFlag = FALSE
  /\ alive = {}

start(b) ==
  /\ bench = "none" /\ bench' = b
  /\ alive' = {Server} \cup (IF b = "threads" THEN {1} ELSE Conns)
  /\ UNCHANGED <<thread, handler, pipe, ended, errorFlag>>

HasSocket(c, s) ==
  IF s = "client" THEN thread[c].at \in {"send", "recv"}
                  ELSE handler[c].at \in {"backlog", "read", "write"}

-----------------------------------------------------------------------------
(* The socket layer                                                          *)

(* What the sides see once s has closed the connections cs.                  *)
Closed(cs, s) ==
  [c \in Conns |->
     IF c \in cs /\ HasSocket(c, s) /\ ended[c][Other(s)] = "open"
     THEN [ended[c] EXCEPT ![Other(s)] =
             IF pipe[c][s] > 0 \/ (s = "server" /\ handler[c].at = "backlog")
             THEN "rst" ELSE "fin"]
     ELSE ended[c]]

(* A process ends, and the kernel closes its sockets.                        *)
ProcessEnds(p) ==
  /\ alive' = alive \ {p}
  /\ IF p = Server
     THEN /\ ended' = Closed(Conns, "server")
          /\ handler' = [c \in Conns |-> [handler[c] EXCEPT
               !.at = IF @ \in {"none", "backlog"} THEN "never" ELSE "gone"]]
          /\ UNCHANGED thread
     ELSE LET mine == {c \in Conns : Proc(c) = p}
          IN /\ ended' = Closed(mine, "client")
             /\ thread' = [c \in Conns |-> IF c \in mine THEN At("gone", 0)
                                                         ELSE thread[c]]
             /\ UNCHANGED handler

(* The reset that answers what a side sent to a closed socket.               *)
reset(c, s) ==
  /\ ended[c][s] = "answered"
  /\ ended' = [ended EXCEPT ![c][s] = "broken"]
  /\ UNCHANGED <<bench, thread, handler, pipe, errorFlag, alive>>

(* recv takes k bytes, or finds the end of the stream or an error.           *)
Takes(c, s, k) ==
  /\ pipe' = [pipe EXCEPT ![c][s] = @ - k]
  /\ UNCHANGED ended

FindsEnd(c, s) ==
  /\ pipe[c][s] = 0 /\ ended[c][s] # "open"
  /\ ended' = [ended EXCEPT ![c][s] = IF @ = "rst" THEN "broken" ELSE @]
  /\ UNCHANGED pipe

(* send puts k bytes in the stream; the peer may have closed its end.        *)
Puts(c, s, k) ==
  /\ ended[c][s] \in {"open", "fin", "answered"}
  /\ IF ended[c][s] = "open"
     THEN pipe' = [pipe EXCEPT ![c][Other(s)] = @ + k] /\ UNCHANGED ended
     ELSE ended' = [ended EXCEPT ![c][s] = "answered"] /\ UNCHANGED pipe

(* What send can take: all a closed peer is sent is thrown away.             *)
Room(c, s) ==
  IF ended[c][s] = "open" THEN SendBuffer - pipe[c][Other(s)] ELSE MsgSize

Least(a, b) == IF a < b THEN a ELSE b

-----------------------------------------------------------------------------
(* The client                                                                *)

(* main connects one socket after the other; a refused connect aborts.       *)
connect(c) ==
  /\ bench # "none" /\ thread[c].at = "new" /\ Proc(c) \in alive
  /\ bench = "threads" => \A d \in Conns : d < c => thread[d].at # "new"
  /\ IF Server \in alive
     THEN /\ thread' = [thread EXCEPT ![c] = At("send", MsgSize)]
          /\ handler' = [handler EXCEPT ![c].at = "backlog"]
          /\ UNCHANGED <<ended, alive>>
     ELSE ProcessEnds(Proc(c))
  /\ UNCHANGED <<bench, pipe, errorFlag>>

(* The handler leaves its loop and closes the socket.  vio-bench2's main     *)
(* returns with it.                                                          *)
client_stops(c, flag) ==
  /\ errorFlag' = (errorFlag \/ flag)
  /\ IF bench = "serial"
     THEN alive' = alive \ {c}
     ELSE UNCHANGED alive
  /\ thread' = [thread EXCEPT ![c] = At("gone", 0)]
  /\ UNCHANGED <<bench, handler>>

(* A write error does not set the flag.  A full stream is one in vio-bench;  *)
(* vio-bench2 tries again.                                                   *)
vio_write(c) ==
  /\ thread[c].at = "send"
  /\ \/ LET k == Least(thread[c].need, Room(c, "client"))
        IN /\ k > 0 /\ Puts(c, "client", k)
           /\ thread' = [thread EXCEPT ![c] =
                IF k = thread[c].need THEN At("recv", MsgSize)
                                      ELSE At("send", @.need - k)]
           /\ UNCHANGED <<bench, handler, errorFlag, alive>>
     \/ /\ \/ Room(c, "client") = 0 /\ bench = "threads"
           \/ ended[c]["client"] \in {"rst", "broken"}
        /\ IF ended[c]["client"] = "broken"
           THEN ProcessEnds(Proc(c)) /\ UNCHANGED <<bench, errorFlag>>
           ELSE ended' = Closed({c}, "client") /\ client_stops(c, FALSE)
        /\ UNCHANGED pipe

(* Mutant of vio_read: one recv is taken for the whole response.             *)
vio_read_once(c) ==
  /\ thread[c].at = "recv"
  /\ \/ \E k \in 1..Least(thread[c].need, pipe[c]["client"]) :
          /\ Takes(c, "client", k)
          /\ thread' = [thread EXCEPT ![c] = At("send", MsgSize)]
          /\ UNCHANGED <<bench, handler, errorFlag, alive>>
     \/ FindsEnd(c, "client") /\ client_stops(c, TRUE)

vio_read(c) ==
  /\ thread[c].at = "recv"
  /\ \/ \E k \in 1..Least(thread[c].need, pipe[c]["client"]) :
          /\ Takes(c, "client", k)
          /\ thread' = [thread EXCEPT ![c] =
               IF k = thread[c].need THEN At("send", MsgSize)
                                     ELSE At("recv", @.need - k)]
          /\ UNCHANGED <<bench, handler, errorFlag, alive>>
     \/ FindsEnd(c, "client") /\ client_stops(c, TRUE)

(* main of vio-bench's client wakes up every second and looks at the flag.   *)
main_checks ==
  /\ bench = "threads" /\ 1 \in alive /\ errorFlag
  /\ ProcessEnds(1)
  /\ UNCHANGED <<bench, pipe, errorFlag>>

-----------------------------------------------------------------------------
(* The server                                                                *)

(* The handler drops the client: its socket is closed, and the peer's was.   *)
Dropped(c) == [handler EXCEPT ![c] = [at |-> "gone", need |-> 0, warm |-> 0]]

accepts(c, warm) ==
  /\ handler[c].at = "backlog"
  /\ handler' = [handler EXCEPT ![c] =
       [at |-> "read", need |-> MsgSize, warm |-> warm]]
  /\ UNCHANGED <<bench, thread, pipe, ended, errorFlag, alive>>

accept_threads(c) == bench = "threads" /\ accepts(c, 0)

accept_serial(c) ==
  /\ bench = "serial"
  /\ \A d \in Conns : handler[d].at \notin {"read", "write"}
  /\ accepts(c, WarmUp)

(* Mutant of handler_read: the loop does not look at the result either.      *)
handler_read_unchecked(c) ==
  /\ handler[c].at = "read"
  /\ \/ \E k \in 1..Least(handler[c].need, pipe[c]["server"]) :
          /\ Takes(c, "server", k)
          /\ handler' = [handler EXCEPT
               ![c].at = IF k = handler[c].need THEN "write" ELSE @,
               ![c].need = IF k = @ THEN MsgSize ELSE @ - k]
     \/ /\ FindsEnd(c, "server")
        /\ handler' = [handler EXCEPT ![c].at = "write", ![c].need = MsgSize]
  /\ UNCHANGED <<bench, thread, errorFlag, alive>>

(* recv fills the buffer, or the client is gone: the warm-up does not look.  *)
handler_read(c) ==
  /\ handler[c].at = "read"
  /\ \/ \E k \in 1..Least(handler[c].need, pipe[c]["server"]) :
          /\ Takes(c, "server", k)
          /\ handler' = [handler EXCEPT
               ![c].at = IF k = handler[c].need THEN "write" ELSE @,
               ![c].need = IF k = @ THEN MsgSize ELSE @ - k]
     \/ /\ FindsEnd(c, "server")
        /\ handler' = IF handler[c].warm = 0 THEN Dropped(c)
                      ELSE [handler EXCEPT ![c].at = "write",
                                           ![c].need = MsgSize]
  /\ UNCHANGED <<bench, thread, errorFlag, alive>>

(* A round of the loop, or of the warm-up, is over.                          *)
NextRound(c) ==
  [handler EXCEPT ![c] = [at |-> "read", need |-> MsgSize,
                          warm |-> IF @.warm > 0 THEN @.warm - 1 ELSE 0]]

handler_write(c) ==
  /\ handler[c].at = "write"
  /\ \/ LET k == Least(handler[c].need, Room(c, "server"))
        IN /\ k > 0 /\ Puts(c, "server", k)
           /\ handler' = IF k = handler[c].need THEN NextRound(c)
                         ELSE [handler EXCEPT ![c].need = @ - k]
           /\ UNCHANGED <<thread, alive>>
     \/ /\ ended[c]["server"] \in {"rst", "broken"}
        /\ IF ended[c]["server"] = "broken"
           THEN ProcessEnds(Server)
           ELSE /\ ended' = [ended EXCEPT ![c]["server"] = "broken"]
                /\ handler' = IF handler[c].warm = 0 THEN Dropped(c)
                              ELSE NextRound(c)
                /\ UNCHANGED <<thread, alive>>
        /\ UNCHANGED pipe
  /\ UNCHANGED <<bench, errorFlag>>

(* The user stops a process: none of them ends by itself.                    *)
interrupt(p) ==
  /\ bench # "none" /\ p \in alive
  /\ ProcessEnds(p)
  /\ UNCHANGED <<bench, pipe, errorFlag>>

-----------------------------------------------------------------------------

client(c) == connect(c) \/ vio_write(c) \/ vio_read(c)
server(c) ==
  \/ accept_threads(c) \/ accept_serial(c) \/ handler_read(c)
  \/ handler_write(c)

Next ==
  \/ \E b \in {"threads", "serial"} : start(b)
  \/ \E c \in Conns : client(c) \/ server(c)
  \/ \E c \in Conns, s \in Sides : reset(c, s)
  \/ main_checks
  \/ \E p \in alive : interrupt(p)

(* Every thread runs on, and the kernel sends its resets; nobody has to      *)
(* interrupt anything.                                                       *)
Fairness ==
  /\ \A c \in Conns :
       /\ WF_vars(client(c)) /\ WF_vars(server(c))
       /\ \A s \in Sides : WF_vars(reset(c, s))
  /\ WF_vars(main_checks)

-----------------------------------------------------------------------------
(* Properties                                                                *)

(* A client that is about to send finds both streams empty: the command and  *)
(* its response never overlap with those of another round, whatever the      *)
(* pieces the reads return, so framing by size alone does not slip and the   *)
(* non-blocking send always has room.                                        *)
OneMessageAtATime ==
  \A c \in Conns :
    thread[c].at = "send" => pipe[c] = [s \in Sides |-> 0]

(* A client's thread stops on a write error, which its main never hears of,  *)
(* only when the server went away before it had accepted the connection.     *)
WriteErrorsAreEarly ==
  \A c \in Conns :
    (bench = "threads" /\ thread[c].at = "gone" /\ 1 \in alive /\ ~errorFlag)
      => handler[c].at = "never"

(* The clients never take the server with them, except in the warm-up of     *)
(* vio-bench2, whose ignored errors lead to a second send and to SIGPIPE.    *)
(* (A step property: the server process only ends by an interrupt, or from a *)
(* handler that is warming up a connection whose own client has gone; it is  *)
(* never the others' clients or what is left in their streams.)              *)
ServerOutlivesClients ==
  [][\A c \in Conns :
       server(c) /\ Server \notin alive'
         => handler[c].warm > 0 /\ thread[c].at = "gone"]_vars

(* Once its client is gone a connection is dropped, if the server lives.     *)
DeadClientsAreDropped ==
  \A c \in Conns :
    (handler[c].at \in {"read", "write"} /\ ended[c]["server"] # "open")
      ~> handler[c].at = "gone"

(* A client that waits for a response when the server goes away notices, and *)
(* its process ends, the other threads with it.                              *)
DeadServersAreNoticed ==
  \A c \in Conns :
    (Server \notin alive /\ thread[c].at = "recv") ~> Proc(c) \notin alive
=============================================================================
