---------------------------- MODULE Programs_proofs ----------------------------
(*****************************************************************************)
(* The programs of Programs one after the other: for each an inductive       *)
(* invariant over its own variables, which the steps of the others leave     *)
(* alone, and the theorems that follow from it.  Then the loops of Ascii,    *)
(* for any length, and the properties of Programs that speak of several.     *)
(*                                                                           *)
(* The programs' constants are bounds (how often somebody types, how many    *)
(* threads are started) or numbers of the code; the proofs assume that they  *)
(* are numbers, and positive where the code has them so.                     *)
(*****************************************************************************)
EXTENDS Programs, FiniteSetTheorems, WellFoundedInduction, TLAPS

-----------------------------------------------------------------------------
(* The vio benches.  Of every connection it is known where the next message  *)
(* is: in the client, in the pipe to the server, or on its way back.         *)

(* Where a handler is that has a connection.                                 *)
Serving == {"backlog", "read", "write"}

(* The types of the variables.                                               *)
VioTypeOK ==
  /\ bench \in {"none", "threads", "serial"}
  /\ thread \in [Conns -> [at : {"new", "send", "recv", "gone"},
                           need : 0..MsgSize]]
  /\ handler \in [Conns -> [at : Serving \cup {"none", "gone", "never"},
                            need : 0..MsgSize, warm : Nat]]
  /\ pipe \in [Conns -> [Vio!Sides -> 0..MsgSize]]
  /\ ended \in [Conns -> [Vio!Sides -> {"open", "fin", "rst",
                                        "answered", "broken"}]]
  /\ errorFlag \in BOOLEAN
  /\ alive \subseteq Nat

(* A thread that runs has its process, and so has a handler.                 *)
VioProcesses ==
  /\ bench = "none" => alive = {} /\ ~errorFlag
  /\ \A c \in Conns :
       /\ bench = "none" => thread[c].at = "new" /\ handler[c].at = "none"
       /\ thread[c].at \in {"send", "recv"} => Vio!Proc(c) \in alive
       /\ handler[c].at \in Serving => Vio!Server \in alive
       /\ handler[c].at = "never" => Vio!Server \notin alive

(* The response is in the stream, or the client has asked for it.            *)
Coming(c) ==
  /\ pipe[c]["client"] = thread[c].need /\ pipe[c]["server"] = 0
  /\ ended[c]["client"] \in {"open", "fin"}
  /\ \/ handler[c].at = "read" /\ handler[c].need = MsgSize
     \/ handler[c].at = "gone"

Asked(c) ==
  /\ pipe[c]["client"] = 0 /\ thread[c].need = MsgSize
  /\ handler[c].at = "backlog" => pipe[c]["server"] = MsgSize
  /\ handler[c].at = "read" =>
       handler[c].need > 0 /\ pipe[c]["server"] = handler[c].need
  /\ handler[c].at = "write" =>
       handler[c].need = MsgSize /\ pipe[c]["server"] = 0

(* Where the round of a connection is.                                       *)
NewFramed(c) ==
  /\ \A s \in Vio!Sides : pipe[c][s] = 0 /\ ended[c][s] = "open"
  /\ handler[c].at \in {"none", "never"}

SendFramed(c) ==
  /\ thread[c].need = MsgSize
  /\ \A s \in Vio!Sides : pipe[c][s] = 0
  /\ \/ handler[c].at \in {"backlog", "gone", "never"}
     \/ handler[c].at = "read" /\ handler[c].need = MsgSize
  /\ \/ ended[c]["client"] \in {"open", "fin"}
     \/ ended[c]["client"] = "rst" /\ handler[c].at = "never"

RecvFramed(c) ==
  /\ thread[c].need > 0
  /\ handler[c].at # "none"
  /\ Coming(c) \/ Asked(c)

(* The handler of a client that has gone: what was left of a command comes   *)
(* whole, and a second response is only sent in the warm-up.                 *)
LeftBehind(c) ==
  /\ ended[c]["server"] # "open"
  /\ ended[c]["server"] # "fin" => pipe[c]["server"] = 0
  /\ handler[c].at = "backlog" => pipe[c]["server"] \in {0, MsgSize}
  /\ handler[c].at = "read" =>
       handler[c].need > 0 /\ pipe[c]["server"] \in {0, handler[c].need}
  /\ handler[c].at = "write" =>
       /\ handler[c].need = MsgSize /\ pipe[c]["server"] = 0
       /\ ended[c]["server"] \in {"answered", "broken"} => handler[c].warm > 0

Framed(c) ==
  /\ thread[c].at = "new" => NewFramed(c)
  /\ thread[c].at = "send" => SendFramed(c)
  /\ thread[c].at = "recv" => RecvFramed(c)
  /\ thread[c].at \in {"send", "recv"} =>
       /\ ended[c]["server"] = "open"
       /\ handler[c].at \in Serving => ended[c]["client"] = "open"
  /\ thread[c].at = "gone" /\ handler[c].at \in Serving => LeftBehind(c)

(* The inductive invariant.                                                  *)
VioIInv ==
  /\ VioTypeOK /\ VioProcesses
  /\ \A c \in Conns : Framed(c)
  /\ Vio!WriteErrorsAreEarly

(* No fairness is needed for safety.                                         *)
VioSpec == Vio!Init /\ [][Vio!Next]_(Vio!vars)

-----------------------------------------------------------------------------

(* A step on one connection does not move the round of another.              *)
LEMMA VioFrame ==
  ASSUME NEW c, Framed(c), thread'[c] = thread[c], handler'[c] = handler[c],
         pipe'[c] = pipe[c], ended'[c] = ended[c]
  PROVE  Framed(c)'
BY DEF Framed, NewFramed, SendFramed, RecvFramed, Coming, Asked, LeftBehind

LEMMA VioInitIInv ==
  ASSUME Vio!Init
  PROVE  VioIInv
<1> USE DEF Vio!Init
<1>1. VioTypeOK
  <2>1. 0 \in 0..MsgSize /\ WarmUp \in Nat
    BY VioAssumption
  <2>2. thread \in [Conns -> [at : {"new", "send", "recv", "gone"},
                            need : 0..MsgSize]]
    BY <2>1 DEF Vio!At
  <2>3. QED
    BY <2>1, <2>2 DEF VioTypeOK
<1>2. VioProcesses
  BY DEF VioProcesses, Vio!At, Serving
<1>3. ASSUME NEW c \in Conns PROVE Framed(c)
  BY DEF Framed, NewFramed, Vio!At, Vio!Sides
<1>4. Vio!WriteErrorsAreEarly
  BY DEF Vio!WriteErrorsAreEarly
<1>5. QED
  BY <1>1, <1>2, <1>3, <1>4 DEF VioIInv

LEMMA VioStartKeeps ==
  ASSUME VioIInv, NEW b \in {"threads", "serial"}, Vio!start(b)
  PROVE  VioIInv'
<1> USE DEF Vio!start, VioIInv
<1>1. VioTypeOK'
  BY VioAssumption DEF VioTypeOK, Vio!Server
<1>2. VioProcesses'
  BY DEF VioProcesses, Serving, Vio!Server
<1>3. ASSUME NEW c \in Conns PROVE Framed(c)'
  BY <1>3, VioFrame
<1>4. Vio!WriteErrorsAreEarly'
  BY DEF Vio!WriteErrorsAreEarly, VioProcesses
<1>5. QED
  BY <1>1, <1>2, <1>3, <1>4

-----------------------------------------------------------------------------
(* What a process leaves behind when it ends, whoever ends it: the sockets   *)
(* it had are closed in the middle of their rounds.                          *)

LEMMA VioClosedType ==
  ASSUME VioTypeOK, NEW cs, NEW s \in Vio!Sides
  PROVE  Vio!Closed(cs, s) \in [Conns -> [Vio!Sides -> {"open", "fin", "rst",
                                              "answered", "broken"}]]
<1>1. ASSUME NEW c \in Conns, NEW e \in {"fin", "rst"}
      PROVE  [ended[c] EXCEPT ![Vio!Other(s)] = e]
               \in [Vio!Sides -> {"open", "fin", "rst", "answered", "broken"}]
  BY DEF VioTypeOK
<1>2. QED
  BY <1>1 DEF Vio!Closed, VioTypeOK

LEMMA VioServerEndKeeps ==
  ASSUME VioIInv, Vio!ProcessEnds(Vio!Server), bench # "none",
         Vio!Server \in alive,
         UNCHANGED <<bench, pipe, errorFlag>>
  PROVE  VioIInv'
<1> USE DEF VioIInv, Vio!ProcessEnds
<1>1. VioTypeOK'
  <2>1. ASSUME NEW c \in Conns, NEW a \in {"gone", "never"}
        PROVE  [handler[c] EXCEPT !.at = a]
                 \in [at : Serving \cup {"none", "gone", "never"},
                      need : 0..MsgSize, warm : Nat]
    BY DEF VioTypeOK
  <2>2. handler' \in [Conns -> [at : Serving \cup {"none", "gone", "never"},
                              need : 0..MsgSize, warm : Nat]]
    <3>1. handler' = [c \in Conns |->
             IF handler[c].at \in {"none", "backlog"}
             THEN [handler[c] EXCEPT !.at = "never"]
             ELSE [handler[c] EXCEPT !.at = "gone"]]
      OBVIOUS
    <3>2. QED
      BY <2>1, <3>1
  <2>3. QED
    BY <2>2, VioClosedType DEF VioTypeOK, Vio!Sides
<1>2. \A c \in Conns :
        /\ handler'[c].at \in {"never", "gone"}
        /\ handler'[c].at = "never" <=> handler[c].at \in {"none", "backlog"}
  BY DEF VioTypeOK, Serving
<1>3. VioProcesses'
  <2>1. ASSUME NEW c \in Conns, thread[c].at \in {"send", "recv"}
        PROVE  Vio!Proc(c) \in alive'
    BY <2>1, VioAssumption DEF VioProcesses, Vio!Proc, Vio!Server
  <2>2. QED
    BY <1>2, <2>1 DEF VioProcesses, Serving, Vio!Proc
<1>4. ASSUME NEW c \in Conns PROVE Framed(c)'
  <2>1. /\ thread'[c] = thread[c] /\ pipe'[c] = pipe[c]
        /\ ended'[c]["server"] = ended[c]["server"]
        /\ ended'[c]["client"] =
             IF handler[c].at \in Serving /\ ended[c]["client"] = "open"
             THEN IF pipe[c]["server"] > 0 \/ handler[c].at = "backlog"
                  THEN "rst" ELSE "fin"
             ELSE ended[c]["client"]
    BY DEF VioTypeOK, Vio!Closed, Vio!HasSocket, Vio!Other, Vio!Sides, Serving
  <2>2. Framed(c) /\ (handler[c].at = "never" => Vio!Server \notin alive)
    BY DEF VioProcesses
  <2>3. QED
    BY <1>2, <2>1, <2>2, VioAssumption DEF Framed, NewFramed, SendFramed,
       RecvFramed, Coming, Asked, Serving, VioTypeOK, Vio!Sides
<1>5. Vio!WriteErrorsAreEarly'
  BY <1>2 DEF Vio!WriteErrorsAreEarly, VioProcesses
<1>6. QED
  BY <1>1, <1>3, <1>4, <1>5

(* What the server sees of a client that closes a connection in its round.   *)
LEMMA VioClientCloseFrames ==
  ASSUME VioIInv, NEW c \in Conns, thread[c].at # "gone",
         thread'[c] = Vio!At("gone", 0), handler'[c] = handler[c],
         pipe'[c] = pipe[c],
         ended'[c]["server"] =
           IF thread[c].at \in {"send", "recv"}
           THEN IF pipe[c]["client"] > 0 THEN "rst" ELSE "fin"
           ELSE ended[c]["server"]
  PROVE  Framed(c)'
<1>1. Framed(c) /\ thread[c].at \in {"new", "send", "recv"}
      /\ thread[c].need \in 0..MsgSize
  BY DEF VioIInv, VioTypeOK
<1>2. QED
  BY <1>1, VioAssumption DEF Framed, NewFramed, SendFramed, RecvFramed, Coming,
     Asked, LeftBehind, Serving, Vio!At, Vio!Sides

LEMMA VioClientEndKeeps ==
  ASSUME VioIInv, NEW p \in alive, p # Vio!Server, Vio!ProcessEnds(p),
         bench # "none", UNCHANGED <<bench, pipe, errorFlag>>
  PROVE  VioIInv'
<1> USE DEF VioIInv, Vio!ProcessEnds
<1>1. VioTypeOK'
  <2>1. thread' \in [Conns -> [at : {"new", "send", "recv", "gone"},
                             need : 0..MsgSize]]
    BY VioAssumption DEF VioTypeOK, Vio!At
  <2>2. QED
    BY <2>1, VioClosedType DEF VioTypeOK, Vio!Sides
<1>2. \A c \in Conns :
        thread'[c] = IF Vio!Proc(c) = p THEN Vio!At("gone", 0) ELSE thread[c]
  BY DEF VioTypeOK
<1>3. VioProcesses'
  BY <1>2 DEF VioProcesses, VioTypeOK, Vio!Proc, Vio!At
<1>4. ASSUME NEW c \in Conns PROVE Framed(c)'
  <2>1. CASE Vio!Proc(c) # p
    <3>1. ended'[c] = ended[c]
      BY <2>1 DEF Vio!Closed
    <3>2. QED
      BY <1>2, <2>1, <3>1, VioFrame
  <2>2. CASE Vio!Proc(c) = p /\ thread[c].at = "gone"
    <3>1. ended'[c] = ended[c]
      BY <2>2 DEF Vio!Closed, Vio!HasSocket
    <3>2. QED
      BY <1>2, <2>2, <3>1 DEF Framed, LeftBehind, Vio!At
  <2>3. CASE Vio!Proc(c) = p /\ thread[c].at # "gone"
    <3>1. Framed(c)
      OBVIOUS
    <3>2. ended'[c]["server"] =
            IF thread[c].at \in {"send", "recv"}
            THEN IF pipe[c]["client"] > 0 THEN "rst" ELSE "fin"
            ELSE ended[c]["server"]
      BY <2>3, <3>1 DEF Framed, VioTypeOK, Vio!Closed, Vio!HasSocket,
         Vio!Other, Vio!Sides
    <3>3. QED
      BY <1>2, <2>3, <3>2, VioClientCloseFrames
  <2>4. QED
    BY <2>1, <2>2, <2>3
<1>5. Vio!WriteErrorsAreEarly'
  BY <1>2 DEF Vio!WriteErrorsAreEarly, Vio!Proc
<1>6. QED
  BY <1>1, <1>3, <1>4, <1>5

LEMMA VioEndKeeps ==
  ASSUME VioIInv, NEW p \in alive, Vio!ProcessEnds(p),
         bench # "none", UNCHANGED <<bench, pipe, errorFlag>>
  PROVE  VioIInv'
<1>1. CASE p = Vio!Server
  BY <1>1, VioServerEndKeeps
<1>2. CASE p # Vio!Server
  BY <1>2, VioClientEndKeeps
<1>3. QED
  BY <1>1, <1>2

LEMMA VioResetKeeps ==
  ASSUME VioIInv, NEW c \in Conns, NEW s \in Vio!Sides, Vio!reset(c, s)
  PROVE  VioIInv'
<1> USE DEF VioIInv, Vio!reset
<1>1. VioTypeOK'
  BY DEF VioTypeOK
<1>2. VioProcesses'
  BY DEF VioProcesses, Vio!Proc
<1>3. ASSUME NEW d \in Conns PROVE Framed(d)'
  <2>1. CASE d # c
    BY <2>1, VioFrame DEF VioTypeOK
  <2>2. CASE d = c
    <3>1. /\ ended'[c][s] = "broken" /\ ended[c][s] = "answered"
          /\ \A x \in Vio!Sides : x # s => ended'[c][x] = ended[c][x]
      BY DEF VioTypeOK
    <3>2. Framed(c) /\ s \in {"client", "server"}
      BY DEF Vio!Sides
    <3>3. QED
      BY <2>2, <3>1, <3>2 DEF Framed, NewFramed, SendFramed, RecvFramed,
         Coming, Asked, LeftBehind, Vio!Sides, Serving
  <2>3. QED
    BY <2>1, <2>2
<1>4. Vio!WriteErrorsAreEarly'
  BY DEF Vio!WriteErrorsAreEarly
<1>5. QED
  BY <1>1, <1>2, <1>3, <1>4

-----------------------------------------------------------------------------
(* The client                                                                *)

LEMMA VioConnectKeeps ==
  ASSUME VioIInv, NEW c \in Conns, Vio!connect(c)
  PROVE  VioIInv'
<1>1. CASE Vio!Server \notin alive
  <2>1. Vio!Proc(c) \in alive /\ Vio!ProcessEnds(Vio!Proc(c)) /\ bench # "none"
        /\ UNCHANGED <<bench, pipe, errorFlag>>
    BY <1>1 DEF Vio!connect
  <2>2. QED
    BY <2>1, VioEndKeeps
<1>2. CASE Vio!Server \in alive
  <2> USE DEF VioIInv
  <2>1. /\ thread' = [thread EXCEPT ![c] = Vio!At("send", MsgSize)]
        /\ handler' = [handler EXCEPT ![c].at = "backlog"]
        /\ thread[c].at = "new" /\ Vio!Proc(c) \in alive /\ bench # "none"
        /\ UNCHANGED <<ended, alive, bench, pipe, errorFlag>>
    BY <1>2 DEF Vio!connect
  <2>2. VioTypeOK'
    <3>1. Vio!At("send", MsgSize) \in [at : {"new", "send", "recv", "gone"},
                                  need : 0..MsgSize]
      BY VioAssumption DEF Vio!At
    <3>2. thread' \in [Conns -> [at : {"new", "send", "recv", "gone"},
                               need : 0..MsgSize]]
      BY <2>1, <3>1 DEF VioTypeOK
    <3>3. handler' \in [Conns -> [at : Serving \cup {"none", "gone", "never"},
                                need : 0..MsgSize, warm : Nat]]
      BY <2>1 DEF VioTypeOK, Serving
    <3>4. QED
      BY <2>1, <3>2, <3>3 DEF VioTypeOK
  <2>3. VioProcesses'
    BY <1>2, <2>1 DEF VioProcesses, Vio!Proc, VioTypeOK, Vio!At
  <2>4. ASSUME NEW d \in Conns PROVE Framed(d)'
    <3>1. CASE d # c
      BY <2>1, <3>1, VioFrame DEF VioTypeOK
    <3>2. CASE d = c
      <4>1. thread'[c] = Vio!At("send", MsgSize) /\ handler'[c].at = "backlog"
            /\ Framed(c)
        BY <2>1 DEF VioTypeOK
      <4>2. QED
        BY <2>1, <3>2, <4>1 DEF Framed, NewFramed, SendFramed, Vio!At,
           Vio!Sides
    <3>3. QED
      BY <3>1, <3>2
  <2>5. Vio!WriteErrorsAreEarly'
    BY <2>1 DEF Vio!WriteErrorsAreEarly, VioTypeOK, Vio!At, Framed, NewFramed
  <2>6. QED
    BY <2>2, <2>3, <2>4, <2>5
<1>3. QED
  BY <1>1, <1>2

(* The client's side of a connection moves on.                               *)
LEMMA VioThreadStep ==
  ASSUME VioIInv, NEW c \in Conns, thread[c].at \in {"send", "recv"},
         NEW a \in {"send", "recv"}, NEW n \in 0..MsgSize,
         thread' = [thread EXCEPT ![c] = Vio!At(a, n)],
         UNCHANGED <<bench, handler, errorFlag, alive>>,
         pipe' \in [Conns -> [Vio!Sides -> 0..MsgSize]],
         ended' \in [Conns -> [Vio!Sides -> {"open", "fin", "rst",
                                             "answered", "broken"}]],
         \A d \in Conns \ {c} : pipe'[d] = pipe[d] /\ ended'[d] = ended[d],
         Framed(c)'
  PROVE  VioIInv'
<1> USE DEF VioIInv
<1>1. VioTypeOK'
  <2>1. Vio!At(a, n) \in [at : {"new", "send", "recv", "gone"},
                      need : 0..MsgSize]
    BY DEF Vio!At
  <2>2. QED
    BY <2>1 DEF VioTypeOK
<1>2. \A d \in Conns :
        thread'[d] = IF d = c THEN Vio!At(a, n) ELSE thread[d]
  BY DEF VioTypeOK
<1>3. VioProcesses'
  BY <1>2 DEF VioProcesses, Vio!Proc, Vio!At
<1>4. ASSUME NEW d \in Conns PROVE Framed(d)'
  BY <1>2, VioFrame
<1>5. Vio!WriteErrorsAreEarly'
  BY <1>2 DEF Vio!WriteErrorsAreEarly, Vio!At
<1>6. QED
  BY <1>1, <1>3, <1>4, <1>5

(* It stops, and main hears of it or the server has never accepted it.       *)
LEMMA VioThreadStops ==
  ASSUME VioIInv, NEW c \in Conns, thread[c].at \in {"send", "recv"},
         NEW flag \in BOOLEAN, Vio!client_stops(c, flag), UNCHANGED pipe,
         flag \/ handler[c].at = "never",
         ended' \in [Conns -> [Vio!Sides -> {"open", "fin", "rst",
                                             "answered", "broken"}]],
         \A d \in Conns \ {c} : ended'[d] = ended[d],
         handler[c].at \notin Serving
  PROVE  VioIInv'
<1> USE DEF VioIInv, Vio!client_stops
<1>1. \A d \in Conns :
        thread'[d] = IF d = c THEN Vio!At("gone", 0) ELSE thread[d]
  BY DEF VioTypeOK
<1>2. alive' \subseteq alive /\ (Vio!Server \in alive => Vio!Server \in alive')
      /\ (bench = "threads" => alive' = alive)
      /\ (bench # "threads" => alive \ {c} \subseteq alive')
  BY VioAssumption DEF Vio!Server
<1>3. VioTypeOK'
  <2>1. Vio!At("gone", 0) \in [at : {"new", "send", "recv", "gone"},
                           need : 0..MsgSize]
    BY VioAssumption DEF Vio!At
  <2>2. QED
    BY <1>2, <2>1 DEF VioTypeOK
<1>4. VioProcesses'
  BY <1>1, <1>2 DEF VioProcesses, Vio!Proc, Vio!At
<1>5. ASSUME NEW d \in Conns PROVE Framed(d)'
  <2>1. CASE d = c
    BY <1>1, <2>1 DEF Framed, Vio!At
  <2>2. CASE d # c
    BY <1>1, <2>2, VioFrame
  <2>3. QED
    BY <2>1, <2>2
<1>6. Vio!WriteErrorsAreEarly'
  BY <1>1, <1>2 DEF Vio!WriteErrorsAreEarly, Vio!At
<1>7. QED
  BY <1>3, <1>4, <1>5, <1>6

LEMMA VioFindsEndType ==
  ASSUME VioTypeOK, NEW c \in Conns, NEW s \in Vio!Sides, Vio!FindsEnd(c, s)
  PROVE  /\ ended' \in [Conns -> [Vio!Sides -> {"open", "fin", "rst",
                                                "answered", "broken"}]]
         /\ \A d \in Conns \ {c} : ended'[d] = ended[d]
         /\ \A x \in Vio!Sides \ {s} : ended'[c][x] = ended[c][x]
         /\ ended'[c][s] = IF ended[c][s] = "rst" THEN "broken"
                           ELSE ended[c][s]
         /\ pipe[c][s] = 0 /\ ended[c][s] # "open" /\ UNCHANGED pipe
BY DEF VioTypeOK, Vio!FindsEnd

LEMMA VioTakesType ==
  ASSUME VioTypeOK, NEW c \in Conns, NEW s \in Vio!Sides,
         NEW k \in 1..pipe[c][s], Vio!Takes(c, s, k)
  PROVE  /\ pipe' \in [Conns -> [Vio!Sides -> 0..MsgSize]]
         /\ \A d \in Conns \ {c} : pipe'[d] = pipe[d]
         /\ \A x \in Vio!Sides \ {s} : pipe'[c][x] = pipe[c][x]
         /\ pipe'[c][s] = pipe[c][s] - k
         /\ UNCHANGED ended
<1>1. pipe[c][s] \in 0..MsgSize /\ pipe[c][s] - k \in 0..MsgSize
  BY VioAssumption DEF VioTypeOK
<1>2. QED
  BY <1>1 DEF VioTypeOK, Vio!Takes

(* The client never sends but a whole command.                               *)
LEMMA VioWriteKeeps ==
  ASSUME VioIInv, NEW c \in Conns, Vio!vio_write(c)
  PROVE  VioIInv'
<1> USE DEF VioIInv
<1>1. thread[c].at = "send" /\ SendFramed(c) /\ Framed(c)
  BY DEF Vio!vio_write, Framed
<1>2. MsgSize \in Nat \ {0} /\ thread[c].need = MsgSize
      /\ pipe[c]["client"] = 0 /\ pipe[c]["server"] = 0
  BY <1>1, VioAssumption DEF SendFramed, Vio!Sides
<1>3. Vio!Room(c, "client") = MsgSize
      /\ Vio!Least(thread[c].need, MsgSize) = MsgSize
  BY <1>2 DEF Vio!Room, Vio!SendBuffer, Vio!Other, Vio!Least
<1>4. CASE Vio!Puts(c, "client", MsgSize)
           /\ thread' = [thread EXCEPT ![c] = Vio!At("recv", MsgSize)]
           /\ UNCHANGED <<bench, handler, errorFlag, alive>>
  <2>1. thread'[c] = Vio!At("recv", MsgSize)
    BY <1>4 DEF VioTypeOK
  <2>2. CASE ended[c]["client"] = "open"
    <3>1. pipe' = [pipe EXCEPT ![c]["server"] = MsgSize] /\ UNCHANGED ended
      BY <1>2, <1>4, <2>2 DEF Vio!Puts, Vio!Other
    <3>2. pipe' \in [Conns -> [Vio!Sides -> 0..MsgSize]]
          /\ (\A d \in Conns \ {c} : pipe'[d] = pipe[d])
          /\ pipe'[c]["client"] = 0 /\ pipe'[c]["server"] = MsgSize
      BY <1>2, <3>1 DEF VioTypeOK, Vio!Sides
    <3>3. Framed(c)'
      BY <1>1, <1>2, <1>4, <2>1, <2>2, <3>1, <3>2 DEF Framed, SendFramed,
         RecvFramed, Asked, Vio!At
    <3>4. QED
      BY <1>1, <1>2, <1>4, <3>1, <3>2, <3>3, VioThreadStep DEF VioTypeOK
  <2>3. CASE ended[c]["client"] # "open"
    <3>1. ended' = [ended EXCEPT ![c]["client"] = "answered"]
          /\ UNCHANGED pipe
      BY <1>4, <2>3 DEF Vio!Puts
    <3>2. ended' \in [Conns -> [Vio!Sides -> {"open", "fin", "rst",
                                              "answered", "broken"}]]
          /\ (\A d \in Conns \ {c} : ended'[d] = ended[d])
          /\ ended'[c]["server"] = ended[c]["server"]
      BY <3>1 DEF VioTypeOK, Vio!Sides
    <3>3. Framed(c)'
      BY <1>1, <1>2, <1>4, <2>1, <2>3, <3>1, <3>2 DEF Framed, SendFramed,
         RecvFramed, Asked, Vio!At, Serving
    <3>4. QED
      BY <1>1, <1>2, <1>4, <3>1, <3>2, <3>3, VioThreadStep DEF VioTypeOK
  <2>4. QED
    BY <2>2, <2>3
<1>5. CASE ended[c]["client"] \in {"rst", "broken"}
  <2>1. ended[c]["client"] = "rst" /\ handler[c].at = "never"
    BY <1>1, <1>5 DEF SendFramed
  <2>2. ended' = Vio!Closed({c}, "client") /\ Vio!client_stops(c, FALSE)
        /\ UNCHANGED pipe
    BY <1>3, <2>1 DEF Vio!vio_write, Vio!Puts
  <2>3. ended' \in [Conns -> [Vio!Sides -> {"open", "fin", "rst",
                                            "answered", "broken"}]]
    BY <2>2, VioClosedType DEF Vio!Sides
  <2>4. \A d \in Conns \ {c} : ended'[d] = ended[d]
    BY <2>2 DEF Vio!Closed
  <2>5. QED
    BY <1>1, <2>1, <2>2, <2>3, <2>4, VioThreadStops DEF Serving
<1>6. QED
  BY <1>1, <1>2, <1>3, <1>4, <1>5 DEF Vio!vio_write

(* Reads of a response come to its end exactly when the stream is empty.     *)
LEMMA VioReadKeeps ==
  ASSUME VioIInv, NEW c \in Conns, Vio!vio_read(c)
  PROVE  VioIInv'
<1> USE DEF VioIInv
<1>1. thread[c].at = "recv" /\ RecvFramed(c) /\ Framed(c)
      /\ "client" \in Vio!Sides
  BY DEF Vio!vio_read, Framed, Vio!Sides
<1>2. /\ pipe[c]["client"] \in 0..MsgSize /\ pipe[c]["server"] \in 0..MsgSize
      /\ thread[c].need \in 0..MsgSize /\ MsgSize \in Nat \ {0}
  BY VioAssumption DEF VioTypeOK, Vio!Sides
<1>3. ASSUME NEW k \in 1..Vio!Least(thread[c].need, pipe[c]["client"]),
             Vio!Takes(c, "client", k),
             thread' = [thread EXCEPT ![c] =
               IF k = thread[c].need THEN Vio!At("send", MsgSize)
                                     ELSE Vio!At("recv", @.need - k)],
             UNCHANGED <<bench, handler, errorFlag, alive>>
      PROVE  VioIInv'
  <2>1. k \in 1..pipe[c]["client"] /\ k \in 1..thread[c].need
    BY <1>2 DEF Vio!Least
  <2>2. Coming(c)
    BY <1>1, <2>1 DEF RecvFramed, Asked
  <2>3. /\ pipe' \in [Conns -> [Vio!Sides -> 0..MsgSize]]
        /\ \A d \in Conns \ {c} : pipe'[d] = pipe[d] /\ ended'[d] = ended[d]
        /\ pipe'[c]["server"] = pipe[c]["server"]
        /\ pipe'[c]["client"] = pipe[c]["client"] - k
        /\ UNCHANGED <<bench, handler, errorFlag, alive, ended>>
        /\ ended' \in [Conns -> [Vio!Sides -> {"open", "fin", "rst",
                                               "answered", "broken"}]]
    BY <1>1, <1>3, <2>1, VioTakesType DEF Vio!Sides, VioTypeOK
  <2>4. CASE k = thread[c].need
    <3>1. thread' = [thread EXCEPT ![c] = Vio!At("send", MsgSize)]
          /\ thread'[c] = Vio!At("send", MsgSize)
      BY <1>3, <2>4 DEF VioTypeOK
    <3>2. Framed(c)'
      BY <1>1, <1>2, <1>3, <2>2, <2>3, <2>4, <3>1 DEF Framed, SendFramed,
         Coming, Vio!At, Vio!Sides
    <3>3. QED
      <4>1. MsgSize \in 0..MsgSize
        BY <1>2
      <4>2. QED
        BY <1>1, <2>3, <3>1, <3>2, <4>1, VioThreadStep
  <2>5. CASE k # thread[c].need
    <3>1. thread' = [thread EXCEPT ![c] = Vio!At("recv", thread[c].need - k)]
          /\ thread'[c] = Vio!At("recv", thread[c].need - k)
      BY <1>3, <2>5 DEF VioTypeOK
    <3>2. thread[c].need - k \in 0..MsgSize /\ thread[c].need - k > 0
      BY <1>2, <2>1, <2>5
    <3>3. Framed(c)'
      BY <1>1, <1>2, <1>3, <2>2, <2>3, <3>1, <3>2 DEF Framed, RecvFramed,
         Coming, Vio!At
    <3>4. QED
      BY <1>1, <2>3, <3>1, <3>2, <3>3, VioThreadStep
  <2>6. QED
    BY <2>4, <2>5
<1>4. ASSUME Vio!FindsEnd(c, "client"), Vio!client_stops(c, TRUE)
      PROVE  VioIInv'
  <2>1. /\ ended' \in [Conns -> [Vio!Sides -> {"open", "fin", "rst",
                                               "answered", "broken"}]]
        /\ \A d \in Conns \ {c} : ended'[d] = ended[d]
        /\ ended[c]["client"] # "open" /\ UNCHANGED pipe
    BY <1>1, <1>4, VioFindsEndType
  <2>2. handler[c].at \notin Serving
    BY <1>1, <2>1 DEF Framed
  <2>3. QED
    BY <1>1, <1>4, <2>1, <2>2, VioThreadStops
<1>5. QED
  BY <1>3, <1>4 DEF Vio!vio_read

LEMMA VioMainChecksKeeps ==
  ASSUME VioIInv, Vio!main_checks
  PROVE  VioIInv'
BY VioEndKeeps DEF Vio!main_checks

LEMMA VioInterruptKeeps ==
  ASSUME VioIInv, NEW p \in alive, Vio!interrupt(p)
  PROVE  VioIInv'
BY VioEndKeeps DEF Vio!interrupt

-----------------------------------------------------------------------------
(* The server                                                                *)

(* The handler of a connection moves on, and its process lives.              *)
LEMMA VioHandlerStep ==
  ASSUME VioIInv, NEW c \in Conns, handler[c].at \in Serving,
         NEW h \in [at : Serving \cup {"gone"}, need : 0..MsgSize, warm : Nat],
         handler' = [handler EXCEPT ![c] = h],
         UNCHANGED <<bench, thread, errorFlag, alive>>,
         pipe' \in [Conns -> [Vio!Sides -> 0..MsgSize]],
         ended' \in [Conns -> [Vio!Sides -> {"open", "fin", "rst",
                                             "answered", "broken"}]],
         \A d \in Conns \ {c} : pipe'[d] = pipe[d] /\ ended'[d] = ended[d],
         Framed(c)'
  PROVE  VioIInv'
<1> USE DEF VioIInv
<1>1. VioTypeOK'
  BY DEF VioTypeOK
<1>2. \A d \in Conns : handler'[d] = IF d = c THEN h ELSE handler[d]
  BY DEF VioTypeOK
<1>3. Vio!Server \in alive
  BY DEF VioProcesses
<1>4. VioProcesses'
  BY <1>2, <1>3 DEF VioProcesses, Vio!Proc, Serving
<1>5. ASSUME NEW d \in Conns PROVE Framed(d)'
  BY <1>2, VioFrame
<1>6. Vio!WriteErrorsAreEarly'
  BY <1>2 DEF Vio!WriteErrorsAreEarly, Serving
<1>7. QED
  BY <1>1, <1>4, <1>5, <1>6

LEMMA VioAcceptKeeps ==
  ASSUME VioIInv, NEW c \in Conns, NEW w \in Nat, Vio!accepts(c, w)
  PROVE  VioIInv'
<1> DEFINE h == [at |-> "read", need |-> MsgSize, warm |-> w]
<1>1. Framed(c) /\ handler[c].at = "backlog" /\ MsgSize \in Nat \ {0}
      /\ thread[c].at \in {"new", "send", "recv", "gone"}
  BY VioAssumption DEF VioIInv, VioTypeOK, Vio!accepts
<1>2. handler' = [handler EXCEPT ![c] = h]
      /\ UNCHANGED <<bench, thread, pipe, ended, errorFlag, alive>>
  BY DEF Vio!accepts
<1>3. h \in [at : Serving \cup {"gone"}, need : 0..MsgSize, warm : Nat]
  BY <1>1 DEF Serving
<1>4. handler'[c] = h
  BY <1>2 DEF VioIInv, VioTypeOK
<1>5. Framed(c)'
  <2>1. handler'[c].at = "read" /\ handler'[c].need = MsgSize
    BY <1>4
  <2>2. QED
    BY <1>1, <1>2, <2>1 DEF Framed, NewFramed, SendFramed, RecvFramed, Coming,
       Asked, LeftBehind, Serving
<1>6. QED
  BY <1>1, <1>2, <1>3, <1>5, VioHandlerStep DEF VioIInv, VioTypeOK, Serving

LEMMA VioHandlerExcept ==
  ASSUME VioTypeOK, NEW c \in Conns, NEW a, NEW n
  PROVE  [handler EXCEPT ![c].at = a, ![c].need = n]
           = [handler EXCEPT ![c] = [at |-> a, need |-> n,
                                     warm |-> handler[c].warm]]
<1>1. PICK x, y, w : handler[c] = [at |-> x, need |-> y, warm |-> w]
  BY DEF VioTypeOK
<1>2. [handler[c] EXCEPT !.at = a] = [at |-> a, need |-> y, warm |-> w]
  BY <1>1
<1>3. [[at |-> a, need |-> y, warm |-> w] EXCEPT !.need = n]
        = [at |-> a, need |-> n, warm |-> w]
  OBVIOUS
<1>4. [handler EXCEPT ![c].at = a, ![c].need = n]
        = [[handler EXCEPT ![c].at = a] EXCEPT ![c].need = n]
  OBVIOUS
<1>5. QED
  BY <1>1, <1>2, <1>3, <1>4 DEF VioTypeOK

(* In a command's last read the handler turns to write, otherwise the stream *)
(* and the handler's need shrink together.                                   *)
LEMMA VioHandlerReadKeeps ==
  ASSUME VioIInv, NEW c \in Conns, Vio!handler_read(c)
  PROVE  VioIInv'
<1>1. /\ handler[c].at = "read" /\ Framed(c)
      /\ UNCHANGED <<bench, thread, errorFlag, alive>>
      /\ "server" \in Vio!Sides /\ "client" \in Vio!Sides
  BY DEF Vio!handler_read, VioIInv, Vio!Sides
<1>2. /\ pipe[c]["client"] \in 0..MsgSize /\ pipe[c]["server"] \in 0..MsgSize
      /\ handler[c].need \in 0..MsgSize /\ MsgSize \in Nat \ {0}
      /\ handler[c].warm \in Nat
      /\ handler[c] = [at |-> "read", need |-> handler[c].need,
                       warm |-> handler[c].warm]
      /\ thread[c].at \in {"new", "send", "recv", "gone"}
  BY <1>1, VioAssumption DEF VioIInv, VioTypeOK, Vio!Sides
<1>3. ASSUME NEW k \in 1..Vio!Least(handler[c].need, pipe[c]["server"]),
             Vio!Takes(c, "server", k),
             handler' = [handler EXCEPT
               ![c].at = IF k = handler[c].need THEN "write" ELSE @,
               ![c].need = IF k = @ THEN MsgSize ELSE @ - k]
      PROVE  VioIInv'
  <2> DEFINE h == [at |-> IF k = handler[c].need THEN "write" ELSE "read",
                   need |-> IF k = handler[c].need THEN MsgSize
                                                   ELSE handler[c].need - k,
                   warm |-> handler[c].warm]
  <2>1. k \in 1..pipe[c]["server"] /\ k \in 1..handler[c].need
    BY <1>2 DEF Vio!Least
  <2>2. /\ pipe' \in [Conns -> [Vio!Sides -> 0..MsgSize]]
        /\ \A d \in Conns \ {c} : pipe'[d] = pipe[d] /\ ended'[d] = ended[d]
        /\ pipe'[c]["client"] = pipe[c]["client"]
        /\ pipe'[c]["server"] = pipe[c]["server"] - k
        /\ UNCHANGED ended
        /\ ended' \in [Conns -> [Vio!Sides -> {"open", "fin", "rst",
                                               "answered", "broken"}]]
    BY <1>1, <1>3, <2>1, VioTakesType DEF Vio!Sides, VioIInv, VioTypeOK
  <2>3. handler' = [handler EXCEPT ![c] = h]
    <3>1. CASE k = handler[c].need
      <4>1. handler' = [handler EXCEPT ![c].at = "write", ![c].need = MsgSize]
        BY <1>3, <3>1 DEF VioIInv, VioTypeOK
      <4>2. QED
        BY <3>1, <4>1, VioHandlerExcept DEF VioIInv
    <3>2. CASE k # handler[c].need
      <4>1. handler' = [handler EXCEPT ![c].at = "read",
                                       ![c].need = handler[c].need - k]
        BY <1>1, <1>3, <3>2 DEF VioIInv, VioTypeOK
      <4>2. QED
        BY <3>2, <4>1, VioHandlerExcept DEF VioIInv
    <3>3. QED
      BY <3>1, <3>2
  <2>4. h \in [at : Serving \cup {"gone"}, need : 0..MsgSize, warm : Nat]
    BY <1>2, <2>1 DEF Serving
  <2>5. handler'[c] = h
    BY <2>3 DEF VioIInv, VioTypeOK
  <2>6. Framed(c)'
    <3>1. CASE k = handler[c].need
      <4>1. handler'[c].at = "write" /\ handler'[c].need = MsgSize
        BY <2>5, <3>1
      <4>2. QED
        BY <1>1, <1>2, <2>1, <2>2, <3>1, <4>1 DEF Framed, NewFramed,
           SendFramed, RecvFramed, Coming, Asked, LeftBehind, Serving
    <3>2. CASE k # handler[c].need
      <4>1. handler'[c].at = "read"
            /\ handler'[c].need = handler[c].need - k
        BY <2>5, <3>2
      <4>2. handler[c].need - k > 0 /\ pipe[c]["server"] > 0
        BY <1>2, <2>1, <3>2
      <4>3. CASE thread[c].at = "recv"
        <5>1. Asked(c)
          BY <1>1, <4>2, <4>3 DEF Framed, RecvFramed, Coming
        <5>2. Asked(c)'
          BY <1>1, <2>2, <4>1, <4>2, <5>1 DEF Asked
        <5>3. QED
          BY <1>1, <2>2, <4>1, <4>3, <5>2 DEF Framed, RecvFramed, Serving
      <4>4. CASE thread[c].at = "gone"
        BY <1>1, <1>2, <2>2, <4>1, <4>2, <4>4 DEF Framed, LeftBehind, Serving
      <4>5. QED
        BY <1>1, <1>2, <4>2, <4>3, <4>4 DEF Framed, NewFramed, SendFramed,
           Vio!Sides
    <3>3. QED
      BY <3>1, <3>2
  <2>7. handler[c].at \in Serving
    BY <1>1 DEF Serving
  <2>8. QED
    BY <1>1, <2>2, <2>3, <2>4, <2>6, <2>7, VioHandlerStep
<1>4. ASSUME Vio!FindsEnd(c, "server"),
             handler' = IF handler[c].warm = 0 THEN Vio!Dropped(c)
                        ELSE [handler EXCEPT ![c].at = "write",
                                             ![c].need = MsgSize]
      PROVE  VioIInv'
  <2> DEFINE h == IF handler[c].warm = 0
                  THEN [at |-> "gone", need |-> 0, warm |-> 0]
                  ELSE [at |-> "write", need |-> MsgSize,
                        warm |-> handler[c].warm]
  <2>1. /\ ended' \in [Conns -> [Vio!Sides -> {"open", "fin", "rst",
                                               "answered", "broken"}]]
        /\ \A d \in Conns \ {c} : pipe'[d] = pipe[d] /\ ended'[d] = ended[d]
        /\ ended'[c]["client"] = ended[c]["client"]
        /\ ended'[c]["server"] = IF ended[c]["server"] = "rst" THEN "broken"
                                 ELSE ended[c]["server"]
        /\ pipe[c]["server"] = 0 /\ ended[c]["server"] # "open"
        /\ UNCHANGED pipe
        /\ pipe' \in [Conns -> [Vio!Sides -> 0..MsgSize]]
    BY <1>1, <1>4, VioFindsEndType DEF Vio!Sides, VioIInv, VioTypeOK
  <2>2. handler' = [handler EXCEPT ![c] = h]
    <3>1. CASE handler[c].warm = 0
      BY <1>4, <3>1 DEF Vio!Dropped
    <3>2. CASE handler[c].warm # 0
      <4>1. handler' = [handler EXCEPT ![c].at = "write", ![c].need = MsgSize]
        BY <1>4, <3>2
      <4>2. QED
        BY <3>2, <4>1, VioHandlerExcept DEF VioIInv
    <3>3. QED
      BY <3>1, <3>2
  <2>3. h \in [at : Serving \cup {"gone"}, need : 0..MsgSize, warm : Nat]
    BY <1>2 DEF Serving
  <2>4. handler'[c] = h
    BY <2>2 DEF VioIInv, VioTypeOK
  <2>5. Framed(c)'
    <3>1. thread[c].at = "gone" /\ LeftBehind(c)
      BY <1>1, <1>2, <2>1 DEF Framed, NewFramed, Serving, Vio!Sides
    <3>2. CASE handler[c].warm = 0
      BY <1>1, <2>4, <3>1, <3>2 DEF Framed, Serving
    <3>3. CASE handler[c].warm # 0
      <4>1. handler'[c].at = "write" /\ handler'[c].need = MsgSize
            /\ handler'[c].warm > 0
        BY <1>2, <2>4, <3>3
      <4>2. QED
        BY <1>1, <2>1, <3>1, <4>1 DEF Framed, LeftBehind
    <3>4. QED
      BY <3>2, <3>3
  <2>6. handler[c].at \in Serving
    BY <1>1 DEF Serving
  <2>7. QED
    BY <1>1, <2>1, <2>2, <2>3, <2>5, <2>6, VioHandlerStep
<1>5. QED
  BY <1>3, <1>4 DEF Vio!handler_read

(* Whoever the handler writes to, the response goes out in one piece.        *)
LEMMA VioWriterFacts ==
  ASSUME VioIInv, NEW c \in Conns, handler[c].at = "write"
  PROVE  /\ handler[c].need = MsgSize /\ MsgSize \in Nat \ {0}
         /\ handler[c].warm \in Nat
         /\ pipe[c]["server"] = 0
         /\ Vio!Room(c, "server") = MsgSize
         /\ Vio!Least(handler[c].need, MsgSize) = MsgSize
         /\ \/ /\ thread[c].at = "recv" /\ thread[c].need = MsgSize
               /\ pipe[c]["client"] = 0
               /\ ended[c]["server"] = "open" /\ ended[c]["client"] = "open"
            \/ /\ thread[c].at = "gone" /\ ended[c]["server"] # "open"
               /\ ended[c]["server"] \in {"answered", "broken"} =>
                    handler[c].warm > 0
<1>1. /\ Framed(c) /\ MsgSize \in Nat \ {0} /\ handler[c].warm \in Nat
      /\ thread[c].at \in {"new", "send", "recv", "gone"}
  BY VioAssumption DEF VioIInv, VioTypeOK
<1>2. /\ handler[c].need = MsgSize /\ pipe[c]["server"] = 0
      /\ \/ /\ thread[c].at = "recv" /\ thread[c].need = MsgSize
            /\ pipe[c]["client"] = 0
            /\ ended[c]["server"] = "open" /\ ended[c]["client"] = "open"
         \/ /\ thread[c].at = "gone" /\ ended[c]["server"] # "open"
            /\ ended[c]["server"] \in {"answered", "broken"} =>
                 handler[c].warm > 0
  BY <1>1 DEF Framed, NewFramed, SendFramed, RecvFramed, Coming, Asked,
     LeftBehind, Serving
<1>3. Vio!Room(c, "server") = MsgSize
      /\ Vio!Least(handler[c].need, MsgSize) = MsgSize
  BY <1>1, <1>2 DEF Vio!Room, Vio!SendBuffer, Vio!Other, Vio!Least
<1>4. QED
  BY <1>1, <1>2, <1>3

LEMMA VioNextRoundType ==
  ASSUME VioTypeOK, NEW c \in Conns
  PROVE  \E h \in [at : Serving \cup {"gone"}, need : 0..MsgSize,
                   warm : Nat] :
           Vio!NextRound(c) = [handler EXCEPT ![c] = h]
             /\ h.at = "read" /\ h.need = MsgSize
<1> DEFINE h == [at |-> "read", need |-> MsgSize,
                 warm |-> IF handler[c].warm > 0 THEN handler[c].warm - 1
                                                 ELSE 0]
<1>1. handler[c].warm \in Nat /\ MsgSize \in Nat \ {0}
  BY VioAssumption DEF VioTypeOK
<1>2. h \in [at : Serving \cup {"gone"}, need : 0..MsgSize, warm : Nat]
  BY <1>1 DEF Serving
<1>3. Vio!NextRound(c) = [handler EXCEPT ![c] = h]
  BY DEF Vio!NextRound, VioTypeOK
<1>4. QED
  BY <1>2, <1>3

LEMMA VioHandlerWriteKeeps ==
  ASSUME VioIInv, NEW c \in Conns, Vio!handler_write(c)
  PROVE  VioIInv'
<1>1. /\ handler[c].at = "write" /\ Framed(c)
      /\ UNCHANGED <<bench, errorFlag>>
      /\ handler[c].at \in Serving
  BY DEF Vio!handler_write, VioIInv, Serving
<1>2. PICK h \in [at : Serving \cup {"gone"}, need : 0..MsgSize,
                  warm : Nat] :
        Vio!NextRound(c) = [handler EXCEPT ![c] = h]
          /\ h.at = "read" /\ h.need = MsgSize
  BY VioNextRoundType DEF VioIInv
<1>3. ASSUME Vio!Puts(c, "server", MsgSize), handler' = Vio!NextRound(c),
             UNCHANGED <<thread, alive>>
      PROVE  VioIInv'
  <2>1. handler' = [handler EXCEPT ![c] = h] /\ handler'[c] = h
    BY <1>2, <1>3 DEF VioIInv, VioTypeOK
  <2>2. CASE ended[c]["server"] = "open"
    <3>1. /\ thread[c].at = "recv" /\ thread[c].need = MsgSize
          /\ pipe[c]["client"] = 0 /\ pipe[c]["server"] = 0
          /\ ended[c]["client"] = "open" /\ MsgSize \in Nat \ {0}
      BY <1>1, <2>2, VioWriterFacts
    <3>2. pipe' = [pipe EXCEPT ![c]["client"] = MsgSize] /\ UNCHANGED ended
      BY <1>3, <2>2, <3>1 DEF Vio!Puts, Vio!Other
    <3>3. /\ pipe' \in [Conns -> [Vio!Sides -> 0..MsgSize]]
          /\ ended' \in [Conns -> [Vio!Sides -> {"open", "fin", "rst",
                                             "answered", "broken"}]]
          /\ \A d \in Conns \ {c} :
               pipe'[d] = pipe[d] /\ ended'[d] = ended[d]
          /\ pipe'[c]["client"] = MsgSize /\ pipe'[c]["server"] = 0
      BY <3>1, <3>2 DEF VioIInv, VioTypeOK, Vio!Sides
    <3>4. Framed(c)'
      BY <1>2, <1>3, <2>1, <2>2, <3>1, <3>2, <3>3 DEF Framed, RecvFramed,
         Coming
    <3>5. QED
      BY <1>1, <1>3, <2>1, <3>3, <3>4, VioHandlerStep
  <2>3. CASE ended[c]["server"] # "open"
    <3>1. thread[c].at = "gone" /\ pipe[c]["server"] = 0
          /\ MsgSize \in Nat \ {0}
      BY <1>1, <2>3, VioWriterFacts
    <3>2. ended' = [ended EXCEPT ![c]["server"] = "answered"]
          /\ UNCHANGED pipe
      BY <1>3, <2>3 DEF Vio!Puts
    <3>3. /\ pipe' \in [Conns -> [Vio!Sides -> 0..MsgSize]]
          /\ ended' \in [Conns -> [Vio!Sides -> {"open", "fin", "rst",
                                             "answered", "broken"}]]
          /\ \A d \in Conns \ {c} :
               pipe'[d] = pipe[d] /\ ended'[d] = ended[d]
          /\ ended'[c]["server"] = "answered"
      BY <3>2 DEF VioIInv, VioTypeOK, Vio!Sides
    <3>4. Framed(c)'
      BY <1>2, <1>3, <2>1, <3>1, <3>2, <3>3 DEF Framed, LeftBehind
    <3>5. QED
      BY <1>1, <1>3, <2>1, <3>3, <3>4, VioHandlerStep
  <2>4. QED
    BY <2>2, <2>3
<1>4. ASSUME ended[c]["server"] = "rst",
             ended' = [ended EXCEPT ![c]["server"] = "broken"],
             handler' = IF handler[c].warm = 0 THEN Vio!Dropped(c)
                        ELSE Vio!NextRound(c),
             UNCHANGED <<thread, alive, pipe>>
      PROVE  VioIInv'
  <2>1. /\ thread[c].at = "gone" /\ pipe[c]["server"] = 0
        /\ MsgSize \in Nat \ {0}
    BY <1>1, <1>4, VioWriterFacts
  <2>2. /\ pipe' \in [Conns -> [Vio!Sides -> 0..MsgSize]]
        /\ ended' \in [Conns -> [Vio!Sides -> {"open", "fin", "rst",
                                           "answered", "broken"}]]
        /\ \A d \in Conns \ {c} : pipe'[d] = pipe[d] /\ ended'[d] = ended[d]
        /\ ended'[c]["server"] = "broken"
    BY <1>4 DEF VioIInv, VioTypeOK, Vio!Sides
  <2>3. CASE handler[c].warm = 0
    <3> DEFINE g == [at |-> "gone", need |-> 0, warm |-> 0]
    <3>1. g \in [at : Serving \cup {"gone"}, need : 0..MsgSize, warm : Nat]
      BY <2>1
    <3>2. handler' = [handler EXCEPT ![c] = g] /\ handler'[c] = g
      BY <1>4, <2>3 DEF Vio!Dropped, VioIInv, VioTypeOK
    <3>3. Framed(c)'
      BY <1>4, <2>1, <3>2 DEF Framed, Serving
    <3>4. QED
      BY <1>1, <1>4, <2>2, <3>1, <3>2, <3>3, VioHandlerStep
  <2>4. CASE handler[c].warm # 0
    <3>1. handler' = [handler EXCEPT ![c] = h] /\ handler'[c] = h
      BY <1>2, <1>4, <2>4 DEF VioIInv, VioTypeOK
    <3>2. Framed(c)'
      BY <1>2, <1>4, <2>1, <2>2, <3>1 DEF Framed, LeftBehind
    <3>3. QED
      BY <1>1, <1>4, <2>2, <3>1, <3>2, VioHandlerStep
  <2>5. QED
    BY <2>3, <2>4
<1>5. ASSUME Vio!ProcessEnds(Vio!Server), UNCHANGED pipe
      PROVE  VioIInv'
  <2>1. Vio!Server \in alive /\ bench # "none"
    BY <1>1 DEF VioIInv, VioProcesses
  <2>2. QED
    BY <1>1, <1>5, <2>1, VioServerEndKeeps
<1>6. Vio!Room(c, "server") = MsgSize
      /\ Vio!Least(handler[c].need, MsgSize) = MsgSize
      /\ handler[c].need = MsgSize
  BY <1>1, VioWriterFacts
<1>7. QED
  BY <1>3, <1>4, <1>5, <1>6 DEF Vio!handler_write

-----------------------------------------------------------------------------
(* The results                                                               *)

LEMMA VioNextIInv ==
  ASSUME VioIInv, [Vio!Next]_(Vio!vars)
  PROVE  VioIInv'
<1>1. ASSUME NEW c \in Conns, Vio!client(c) PROVE VioIInv'
  BY <1>1, VioConnectKeeps, VioWriteKeeps, VioReadKeeps DEF Vio!client
<1>2. ASSUME NEW c \in Conns, Vio!server(c) PROVE VioIInv'
  <2>1. WarmUp \in Nat /\ 0 \in Nat
    BY VioAssumption
  <2>2. QED
    BY <1>2, <2>1, VioAcceptKeeps, VioHandlerReadKeeps, VioHandlerWriteKeeps
       DEF Vio!server, Vio!accept_threads, Vio!accept_serial
<1>3. CASE UNCHANGED Vio!vars
  BY <1>3 DEF Vio!vars, VioIInv, VioTypeOK, VioProcesses, Vio!Proc, Framed,
     NewFramed, SendFramed, RecvFramed, Coming, Asked, LeftBehind,
     Vio!WriteErrorsAreEarly
<1>4. QED
  BY <1>1, <1>2, <1>3, VioStartKeeps, VioResetKeeps, VioMainChecksKeeps,
     VioInterruptKeeps DEF Vio!Next

(* A step of the programs is a step of the benches or leaves them alone.     *)
LEMMA VioSteps == [Next]_vars => [Vio!Next]_(Vio!vars)
BY DEF Next, vars, Still, two_points, some_bytes, buffer, mask, array, salary,
   Chosen, vioVars, Vio!vars

(* The bookkeeping of the rounds, of any number of connections, is right.    *)
THEOREM VioInductiveInvariant == Spec => []VioIInv
<1>1. Init => VioIInv
  BY VioInitIInv DEF Init
<1>2. VioIInv /\ [Next]_vars => VioIInv'
  BY VioNextIInv, VioSteps
<1>3. QED
  BY <1>1, <1>2, PTL DEF Spec

(* vio_write and vio_read frame by size alone, and never slip: whoever sends *)
(* a command has read the whole response to the last one.                    *)
THEOREM FramingNeverSlips == Spec => []Vio!OneMessageAtATime
<1>1. VioIInv => Vio!OneMessageAtATime
  BY DEF VioIInv, Vio!OneMessageAtATime, VioTypeOK, Framed, SendFramed
<1>2. QED
  BY <1>1, VioInductiveInvariant, PTL

(* A handler that stops on a write error does not set _error_flag, and need  *)
(* not: its connection was never accepted.                                   *)
THEOREM UnheardErrorsAreEarly == Spec => []Vio!WriteErrorsAreEarly
<1>1. VioIInv => Vio!WriteErrorsAreEarly
  BY DEF VioIInv
<1>2. QED
  BY <1>1, VioInductiveInvariant, PTL

(* A client that goes away raises SIGPIPE in the server only in the warm-up  *)
(* of its own connection in vio-bench2, so never without one.                *)
THEOREM OnlyWarmUpsAreFatal == Spec => ServerOutlivesClients
<1>1. ASSUME VioIInv, [Vio!Next]_(Vio!vars), NEW c \in Conns, Vio!server(c),
             Vio!Server \notin alive'
      PROVE  handler[c].warm > 0 /\ thread[c].at = "gone"
  <2>1. handler[c].at \in Serving
    BY <1>1 DEF Vio!server, Vio!accept_threads, Vio!accept_serial, Vio!accepts,
       Vio!handler_read, Vio!handler_write, Serving
  <2>2. Vio!Server \in alive
    BY <1>1, <2>1 DEF VioIInv, VioProcesses
  <2>3. handler[c].at = "write" /\ ended[c]["server"] = "broken"
    BY <1>1, <2>2 DEF Vio!server, Vio!accept_threads, Vio!accept_serial,
       Vio!accepts, Vio!handler_read, Vio!handler_write
  <2>4. QED
    BY <1>1, <2>3, VioWriterFacts
<1>2. VioIInv /\ [Next]_vars
        => [\A c \in Conns :
              Vio!server(c) /\ Vio!Server \notin alive'
                => handler[c].warm > 0 /\ thread[c].at = "gone"]_(Vio!vars)
  BY <1>1, VioSteps
<1>3. QED
  BY <1>2, VioInductiveInvariant, PTL DEF Spec, ServerOutlivesClients,
     Vio!ServerOutlivesClients

-----------------------------------------------------------------------------
(* The papi stream.  Of every client it is known how far in a message it     *)
(* and the stream are, and of the server which bytes of its buffer a round   *)
(* has filled.                                                               *)

PapiTypeOK ==
  /\ serving \in {"off", "up", "down"}
  /\ sender \in [Clients -> [at : {"new", "send", "gone"}, size : 0..Size]]
  /\ backlog \in Seq(Clients) /\ s2 \in Clients \cup {Papi!Nobody}
  /\ size \in Nat /\ i \in Nat /\ stream \in [Clients -> Nat]

(* What a live client has still to send and what is in the stream make up    *)
(* whole messages, with what the server has read of one already.             *)
WholeMessages(k) ==
  \E m \in Int :
    stream[k] + sender[k].size = m * Size + (IF k = s2 THEN size ELSE 0)

(* In its first message the buffer is filled as far as it is read, in later  *)
(* ones it is full.                                                          *)
BufferFills ==
  s2 # Papi!Nobody =>
    /\ size \in 1..Size
    /\ buf_recv = IF i = 0 THEN 1..(Size - size) ELSE 1..Size

PapiIInv ==
  /\ PapiTypeOK
  /\ serving = "off" => s2 = Papi!Nobody
  /\ \A k \in Clients :
       /\ serving = "off" => sender[k].at = "new"
       /\ sender[k].at = "new" => stream[k] = 0
       /\ sender[k].at = "send" => sender[k].size > 0
       /\ sender[k].at = "send" /\ serving = "up" => WholeMessages(k)
  /\ s2 # Papi!Nobody => sender[s2].at # "new"
  /\ \A n \in DOMAIN backlog : sender[backlog[n]].at # "new"
  /\ BufferFills

LEMMA PapiInit == Papi!Init => PapiIInv
BY PapiAssumption DEF Papi!Init, PapiIInv, PapiTypeOK, WholeMessages,
   BufferFills, Papi!Nobody

LEMMA PapiConnect ==
  ASSUME PapiIInv, NEW k \in Clients, Papi!connect(k)
  PROVE  PapiIInv'
<1>1. Size \in Nat \ {0} /\ 0 \notin Clients
  BY PapiAssumption
<1>2. /\ sender' \in [Clients -> [at : {"new", "send", "gone"},
                                  size : 0..Size]]
      /\ \A j \in Clients \ {k} : sender'[j] = sender[j]
      /\ sender'[k].at \in {"send", "gone"} /\ sender[k].at = "new"
      /\ sender'[k].at = "send" => sender'[k].size = Size
  <2>1. sender \in [Clients -> [at : {"new", "send", "gone"},
                               size : 0..Size]]
        /\ sender[k].at = "new"
    BY DEF PapiIInv, PapiTypeOK, Papi!connect
  <2>2. CASE sender' = [sender EXCEPT ![k] = [at |-> "send", size |-> Size]]
    BY <1>1, <2>1, <2>2
  <2>3. CASE sender' = [sender EXCEPT ![k] = [at |-> "gone", size |-> 0]]
    BY <1>1, <2>1, <2>3
  <2>4. QED
    BY <2>2, <2>3 DEF Papi!connect, Papi!Leaves
<1>3. backlog' \in {backlog, Append(backlog, k)} /\ backlog \in Seq(Clients)
  BY DEF Papi!connect, PapiIInv, PapiTypeOK
<1>4. /\ UNCHANGED <<serving, s2, size, i, buf_recv, stream>>
      /\ serving # "off"
  BY DEF Papi!connect
<1>5. PapiTypeOK'
  <2>1. backlog' \in Seq(Clients)
    BY <1>3
  <2>2. QED
    BY <1>2, <1>4, <2>1 DEF PapiIInv, PapiTypeOK
<1>6. k # s2 /\ stream[k] = 0
  BY <1>1, <1>2 DEF PapiIInv, PapiTypeOK, Papi!Nobody
<1>7. sender'[k].at = "send" => WholeMessages(k)'
  <2>1. stream'[k] + Size = 1 * Size + 0
    BY <1>1, <1>4, <1>6
  <2>2. sender'[k].at = "send" =>
          stream'[k] + sender'[k].size
            = 1 * Size + (IF k = s2' THEN size' ELSE 0)
    BY <1>2, <1>4, <1>6, <2>1
  <2>3. QED
    BY <2>2 DEF WholeMessages
<1>8. \A j \in Clients \ {k} : WholeMessages(j) => WholeMessages(j)'
  BY <1>2, <1>4 DEF WholeMessages
<1>9. \A j \in Clients :
         /\ serving' = "off" => sender'[j].at = "new"
         /\ sender'[j].at = "new" => stream'[j] = 0
         /\ sender'[j].at = "send" => sender'[j].size > 0
         /\ sender'[j].at = "send" /\ serving' = "up" => WholeMessages(j)'
  BY <1>1, <1>2, <1>4, <1>7, <1>8 DEF PapiIInv
<1>10. \A n \in DOMAIN backlog' : sender'[backlog'[n]].at # "new"
  <2>1. \A n \in DOMAIN backlog : sender'[backlog[n]].at # "new"
    BY <1>2, <1>3 DEF PapiIInv
  <2>2. \A n \in DOMAIN backlog' :
          backlog'[n] = k \/ (n \in DOMAIN backlog
                              /\ backlog'[n] = backlog[n])
    BY <1>3
  <2>3. QED
    BY <1>2, <2>1, <2>2
<1>11. BufferFills' /\ (s2' # Papi!Nobody => sender'[s2'].at # "new")
       /\ (serving' = "off" => s2' = Papi!Nobody)
  BY <1>2, <1>4, <1>6 DEF PapiIInv, PapiTypeOK, BufferFills, Papi!Nobody
<1>12. QED
  BY <1>5, <1>9, <1>10, <1>11 DEF PapiIInv

(* A client that leaves takes its promises with it.                          *)
LEMMA PapiGone ==
  ASSUME PapiIInv, NEW k \in Clients, sender[k].at = "send",
         Papi!Leaves(k),
         UNCHANGED <<serving, backlog, s2, size, i, buf_recv, stream>>
  PROVE  PapiIInv'
<1>1. /\ \A j \in Clients \ {k} : sender'[j] = sender[j]
      /\ sender'[k].at = "gone" /\ serving # "off"
      /\ sender' \in [Clients -> [at : {"new", "send", "gone"},
                                  size : 0..Size]]
  BY PapiAssumption DEF Papi!Leaves, PapiIInv, PapiTypeOK
<1>2. \A j \in Clients \ {k} : WholeMessages(j) => WholeMessages(j)'
  BY <1>1 DEF WholeMessages
<1>3. \A j \in Clients :
         /\ sender'[j].at = "new" => sender[j].at = "new"
         /\ serving' = "off" => sender'[j].at = "new"
         /\ sender'[j].at = "new" => stream'[j] = 0
         /\ sender'[j].at = "send" => sender'[j].size > 0
         /\ sender'[j].at = "send" /\ serving' = "up" => WholeMessages(j)'
  BY <1>1, <1>2 DEF PapiIInv
<1>4. PapiTypeOK'
  BY <1>1 DEF PapiIInv, PapiTypeOK
<1>5. QED
  BY <1>3, <1>4 DEF PapiIInv, PapiTypeOK, BufferFills, Papi!Nobody

LEMMA PapiWrite ==
  ASSUME PapiIInv, NEW k \in Clients, Papi!vio_write(k)
  PROVE  PapiIInv'
<1>1. /\ Size \in Nat \ {0} /\ Space \in Nat /\ 0 \notin Clients
      /\ stream \in [Clients -> Nat] /\ sender[k].size \in 0..Size
      /\ sender[k].at = "send" /\ size \in Nat
  BY PapiAssumption DEF PapiIInv, PapiTypeOK, Papi!vio_write
<1>2. /\ UNCHANGED <<serving, backlog, s2, size, i, buf_recv>>
      /\ serving # "off"
  BY <1>1 DEF Papi!vio_write, PapiIInv
<1>3. ASSUME NEW n \in 1..Papi!Smaller(sender[k].size, Space - stream[k]),
             stream' = [stream EXCEPT ![k] = @ + n],
             sender' = [sender EXCEPT ![k].size =
               IF n = @ THEN Size ELSE @ - n]
      PROVE  PapiIInv'
  <2>1. n \in Nat /\ 1 <= n /\ n <= sender[k].size
    BY <1>1, <1>3 DEF Papi!Smaller
  <2>2. /\ \A j \in Clients \ {k} :
             sender'[j] = sender[j] /\ stream'[j] = stream[j]
        /\ stream'[k] = stream[k] + n /\ stream' \in [Clients -> Nat]
        /\ sender'[k].at = "send"
        /\ sender'[k].size = IF n = sender[k].size THEN Size
                             ELSE sender[k].size - n
    BY <1>1, <1>3, <2>1 DEF PapiIInv, PapiTypeOK
  <2>3. sender'[k].size \in 0..Size /\ sender'[k].size > 0
    BY <1>1, <2>1, <2>2
  <2>4. sender' \in [Clients -> [at : {"new", "send", "gone"},
                                 size : 0..Size]]
    BY <1>3, <2>2, <2>3 DEF PapiIInv, PapiTypeOK
  <2>5. WholeMessages(k) => WholeMessages(k)'
    <3>1. SUFFICES ASSUME NEW m \in Int,
                     stream[k] + sender[k].size
                       = m * Size + (IF k = s2 THEN size ELSE 0)
                   PROVE  WholeMessages(k)'
      BY DEF WholeMessages
    <3>2. CASE n = sender[k].size
      <4>1. stream'[k] + sender'[k].size
              = (m + 1) * Size + (IF k = s2' THEN size' ELSE 0)
        BY <1>1, <1>2, <2>1, <2>2, <3>1, <3>2
      <4>2. m + 1 \in Int
        OBVIOUS
      <4>3. QED
        BY <4>1, <4>2 DEF WholeMessages
    <3>3. CASE n # sender[k].size
      <4>1. stream'[k] + sender'[k].size
              = m * Size + (IF k = s2' THEN size' ELSE 0)
        BY <1>1, <1>2, <2>1, <2>2, <3>1, <3>3
      <4>2. QED
        BY <4>1 DEF WholeMessages
    <3>4. QED
      BY <3>2, <3>3
  <2>6. \A j \in Clients \ {k} : WholeMessages(j) => WholeMessages(j)'
    BY <1>2, <2>2 DEF WholeMessages
  <2>7. PapiTypeOK'
    BY <1>2, <2>2, <2>4 DEF PapiIInv, PapiTypeOK
  <2>8. \A j \in Clients :
         /\ sender'[j].at = "new" => sender[j].at = "new"
         /\ serving' = "off" => sender'[j].at = "new"
         /\ sender'[j].at = "new" => stream'[j] = 0
         /\ sender'[j].at = "send" => sender'[j].size > 0
         /\ sender'[j].at = "send" /\ serving' = "up" => WholeMessages(j)'
    BY <1>1, <1>2, <2>2, <2>3, <2>5, <2>6 DEF PapiIInv
  <2>9. QED
    BY <1>2, <2>7, <2>8 DEF PapiIInv, PapiTypeOK, BufferFills, Papi!Nobody
<1>4. ASSUME Papi!Leaves(k), UNCHANGED stream
      PROVE  PapiIInv'
  BY <1>1, <1>2, <1>4, PapiGone
<1>5. QED
  BY <1>3, <1>4 DEF Papi!vio_write

LEMMA PapiAccept ==
  ASSUME PapiIInv, Papi!accept
  PROVE  PapiIInv'
<1>1. /\ Size \in Nat \ {0} /\ 0 \notin Clients
      /\ backlog \in Seq(Clients) /\ backlog # <<>>
      /\ s2 = Papi!Nobody /\ s2' = Head(backlog) /\ backlog' = Tail(backlog)
      /\ i' = 0 /\ buf_recv' = {} /\ size' = Size
      /\ UNCHANGED <<serving, sender, stream>> /\ serving = "up"
  BY PapiAssumption DEF PapiIInv, PapiTypeOK, Papi!accept, Papi!NewRound
<1>2. /\ s2' \in Clients /\ s2' = backlog[1] /\ 1 \in DOMAIN backlog
      /\ backlog' \in Seq(Clients)
      /\ \A n \in DOMAIN backlog' :
           n + 1 \in DOMAIN backlog /\ backlog'[n] = backlog[n + 1]
  BY <1>1
<1>3. PapiTypeOK'
  BY <1>1, <1>2 DEF PapiIInv, PapiTypeOK
<1>4. sender'[s2'].at # "new"
      /\ \A n \in DOMAIN backlog' : sender'[backlog'[n]].at # "new"
  BY <1>1, <1>2 DEF PapiIInv
<1>5. BufferFills'
  BY <1>1 DEF BufferFills
<1>6. ASSUME NEW k \in Clients, WholeMessages(k)
      PROVE  WholeMessages(k)'
  <2>1. PICK m \in Int : stream[k] + sender[k].size = m * Size + 0
    BY <1>1, <1>6 DEF WholeMessages, Papi!Nobody
  <2>2. stream[k] + sender[k].size = (m - 1) * Size + Size
    BY <1>1, <2>1
  <2>3. CASE k = s2'
    <3>1. stream'[k] + sender'[k].size
            = (m - 1) * Size + (IF k = s2' THEN size' ELSE 0)
      BY <1>1, <2>2, <2>3
    <3>2. m - 1 \in Int
      OBVIOUS
    <3>3. QED
      BY <3>1, <3>2 DEF WholeMessages
  <2>4. CASE k # s2'
    <3>1. stream'[k] + sender'[k].size
            = m * Size + (IF k = s2' THEN size' ELSE 0)
      BY <1>1, <2>1, <2>4
    <3>2. QED
      BY <3>1 DEF WholeMessages
  <2>5. QED
    BY <2>3, <2>4
<1>7. QED
  BY <1>1, <1>3, <1>4, <1>5, <1>6 DEF PapiIInv

(* A recv of n bytes of the message takes the framing with it.               *)
LEMMA PapiTakes ==
  ASSUME PapiIInv, serving = "up", s2 # Papi!Nobody,
         NEW n \in Nat, n <= size, n <= stream[s2],
         stream' = [stream EXCEPT ![s2] = @ - n],
         size' = IF n = size THEN Size ELSE size - n,
         UNCHANGED <<serving, sender, backlog, s2>>,
         i' \in Nat, BufferFills'
  PROVE  PapiIInv'
<1>1. /\ Size \in Nat \ {0} /\ 0 \notin Clients
      /\ s2 \in Clients /\ size \in 1..Size /\ stream \in [Clients -> Nat]
  BY PapiAssumption DEF PapiIInv, PapiTypeOK, BufferFills, Papi!Nobody
<1>2. /\ stream' \in [Clients -> Nat] /\ stream'[s2] = stream[s2] - n
      /\ \A k \in Clients \ {s2} : stream'[k] = stream[k]
      /\ size' \in Nat /\ sender[s2].at # "new"
  BY <1>1 DEF PapiIInv
<1>3. ASSUME NEW k \in Clients, WholeMessages(k),
             sender[k].at = "send", serving' = "up"
      PROVE  WholeMessages(k)'
  <2>1. CASE k # s2
    BY <1>2, <1>3, <2>1 DEF WholeMessages
  <2>2. CASE k = s2
    <3>1. PICK m \in Int : stream[k] + sender[k].size = m * Size + size
      BY <1>3, <2>2 DEF WholeMessages
    <3>2. sender[k].size \in Nat
      BY DEF PapiIInv, PapiTypeOK
    <3>3. m - 1 \in Int
      OBVIOUS
    <3>4. CASE n = size
      <4>1. stream'[k] + sender'[k].size = m * Size
        BY <1>1, <1>2, <2>2, <3>1, <3>2, <3>4
      <4>2. m * Size = (m - 1) * Size + Size
        BY <1>1
      <4>3. stream'[k] + sender'[k].size
              = (m - 1) * Size + (IF k = s2' THEN size' ELSE 0)
        BY <2>2, <3>4, <4>1, <4>2
      <4>4. QED
        BY <3>3, <4>3 DEF WholeMessages
    <3>5. CASE n # size
      <4>1. stream'[k] + sender'[k].size
              = m * Size + (IF k = s2' THEN size' ELSE 0)
        BY <1>1, <1>2, <2>2, <3>1, <3>2, <3>5
      <4>2. QED
        BY <4>1 DEF WholeMessages
    <3>6. QED
      BY <3>4, <3>5
  <2>3. QED
    BY <2>1, <2>2
<1>4. PapiTypeOK'
  BY <1>2 DEF PapiIInv, PapiTypeOK
<1>5. QED
  BY <1>2, <1>3, <1>4 DEF PapiIInv

LEMMA PapiReadPart ==
  ASSUME PapiIInv, Papi!vio_read_part
  PROVE  PapiIInv'
<1>1. /\ Size \in Nat \ {0} /\ s2 \in Clients /\ size \in 1..Size
      /\ stream[s2] \in Nat /\ serving = "up" /\ s2 # Papi!Nobody
      /\ UNCHANGED <<serving, sender, backlog, s2, i>> /\ i \in Nat
  BY PapiAssumption DEF PapiIInv, PapiTypeOK, BufferFills, Papi!Nobody,
     Papi!vio_read_part
<1>2. PICK n \in 1..Papi!Smaller(size - 1, stream[s2]) :
        /\ stream' = [stream EXCEPT ![s2] = @ - n]
        /\ buf_recv' = buf_recv \cup ((Size - size + 1)..(Size - size + n))
        /\ size' = size - n
  BY DEF Papi!vio_read_part
<1>3. n \in Nat /\ n < size /\ n <= stream[s2]
  BY <1>1, <1>2 DEF Papi!Smaller
<1>4. BufferFills'
  BY <1>1, <1>2, <1>3 DEF PapiIInv, BufferFills
<1>5. /\ size' = (IF n = size THEN Size ELSE size - n)
      /\ UNCHANGED <<serving, sender, backlog, s2>> /\ i' \in Nat
      /\ n <= size
  BY <1>1, <1>2, <1>3
<1>6. QED
  BY <1>1, <1>2, <1>3, <1>4, <1>5, PapiTakes

(* The last message of a round finds the buffer full: nothing aborts.        *)
LEMMA PapiReadRest ==
  ASSUME PapiIInv, Papi!vio_read_rest
  PROVE  PapiIInv'
<1>1. /\ Size \in Nat \ {0} /\ s2 \in Clients /\ size \in 1..Size
      /\ stream[s2] \in Nat /\ size <= stream[s2]
      /\ serving = "up" /\ s2 # Papi!Nobody /\ i \in Nat
      /\ stream' = [stream EXCEPT ![s2] = @ - size]
      /\ UNCHANGED <<sender, backlog, s2>>
  BY PapiAssumption DEF PapiIInv, PapiTypeOK, BufferFills, Papi!Nobody,
     Papi!vio_read_rest
<1>2. buf_recv \cup ((Size - size + 1)..Size) = 1..Size
  BY <1>1 DEF PapiIInv, BufferFills
<1>3. /\ size' = Size /\ serving' = "up"
      /\ \/ i' = i + 1 /\ buf_recv' = 1..Size
         \/ i' = 0 /\ buf_recv' = {}
  BY <1>1, <1>2 DEF Papi!vio_read_rest, Papi!NewRound
<1>4. BufferFills'
  BY <1>1, <1>3 DEF BufferFills
<1>5. /\ size' = (IF size = size THEN Size ELSE size - size)
      /\ UNCHANGED <<serving, sender, backlog, s2>> /\ i' \in Nat
      /\ size \in Nat /\ size <= size
  BY <1>1, <1>3
<1>6. QED
  BY <1>1, <1>4, <1>5, PapiTakes

LEMMA PapiClosed ==
  ASSUME PapiIInv, Papi!closed
  PROVE  PapiIInv'
<1>1. /\ s2 \in Clients /\ sender[s2].at = "gone" /\ s2' = Papi!Nobody
      /\ UNCHANGED <<serving, sender, backlog, size, i, buf_recv, stream>>
      /\ 0 \notin Clients
  BY PapiAssumption DEF Papi!closed, PapiIInv, PapiTypeOK
<1>2. \A k \in Clients \ {s2} : WholeMessages(k) => WholeMessages(k)'
  BY <1>1 DEF WholeMessages, Papi!Nobody
<1>3. QED
  BY <1>1, <1>2 DEF PapiIInv, PapiTypeOK, BufferFills, Papi!Nobody

LEMMA PapiInterrupt ==
  ASSUME PapiIInv, Papi!interrupt
  PROVE  PapiIInv'
<1>1. CASE serving' = "down" /\ UNCHANGED sender
  BY <1>1 DEF Papi!interrupt, PapiIInv, PapiTypeOK, BufferFills
<1>2. ASSUME NEW k \in Clients, Papi!Leaves(k), UNCHANGED serving,
             sender[k].at = "send"
      PROVE  PapiIInv'
  BY <1>2, PapiGone DEF Papi!interrupt
<1>3. QED
  BY <1>1, <1>2 DEF Papi!interrupt

LEMMA PapiNext ==
  ASSUME PapiIInv, [Papi!Next]_(Papi!vars)
  PROVE  PapiIInv'
<1>1. CASE Papi!start
  BY <1>1 DEF Papi!start, PapiIInv, PapiTypeOK, BufferFills, WholeMessages,
     Papi!Nobody
<1>2. CASE UNCHANGED Papi!vars
  BY <1>2 DEF Papi!vars, PapiIInv, PapiTypeOK, BufferFills, WholeMessages
<1>3. QED
  BY <1>1, <1>2, PapiConnect, PapiWrite, PapiAccept, PapiReadPart,
     PapiReadRest, PapiClosed, PapiInterrupt DEF Papi!Next, Papi!server

LEMMA PapiSteps == [Next]_vars => [Papi!Next]_(Papi!vars)
BY DEF Next, vars, Still, two_points, some_bytes, buffer, mask, array, salary,
   Chosen, papiVars, Papi!vars

LEMMA MultiplesLeaveNothing ==
  ASSUME NEW a \in Int, NEW b \in Nat \ {0}
  PROVE  (a * b) % b = 0
<1>1. (a * b) \div b = a
  BY SMTT(20)
<1>2. QED
  BY <1>1, SMTT(20)

(* vio_write and vio_read of papi/: a live client and the server agree on    *)
(* where in a message they are, and memcmp never finds the buffer different, *)
(* for any number of clients, any size of message, round and socket buffer,  *)
(* and however the sends and reads are cut.                                  *)
THEOREM StreamsAreFramed == Spec => []Papi!StreamIsFramed
<1>1. Init => PapiIInv
  BY PapiInit DEF Init
<1>2. PapiIInv /\ [Next]_vars => PapiIInv'
  BY PapiNext, PapiSteps
<1>3. PapiIInv => Papi!StreamIsFramed
  <2>1. SUFFICES ASSUME PapiIInv, s2 # Papi!Nobody, serving = "up",
                        sender[s2].at = "send"
                 PROVE  (stream[s2] - size + sender[s2].size) % Size = 0
    BY DEF PapiIInv, PapiTypeOK, Papi!StreamIsFramed
  <2>2. /\ s2 \in Clients /\ size \in Nat /\ stream[s2] \in Nat
        /\ sender[s2].size \in Nat /\ Size \in Nat \ {0}
    BY <2>1, PapiAssumption DEF PapiIInv, PapiTypeOK
  <2>3. PICK m \in Int : stream[s2] + sender[s2].size = m * Size + size
    BY <2>1, <2>2 DEF PapiIInv, WholeMessages
  <2>4. m * Size \in Int
    BY <2>2
  <2>5. stream[s2] - size + sender[s2].size = m * Size
    BY <2>2, <2>3, <2>4
  <2>6. QED
    BY <2>2, <2>5, MultiplesLeaveNothing
<1>4. QED
  BY <1>1, <1>2, <1>3, PTL DEF Spec

-----------------------------------------------------------------------------
(* The shell.  With a patient user at most one command is between the        *)
(* keyboard and the screen, and where it is determines everything else; a    *)
(* command that either side drops, or that has no answer, leaves the session *)
(* without one.                                                              *)

IsCd(m) == typed[m] \in {"cd", "cd d"}
Cds(n) == {m \in 1..n : IsCd(m)}

ShellTypeOK ==
  /\ patient \in {"unknown", "yes", "no"}
  /\ typed \in Seq(Shell!Cmds)
  /\ patient = "unknown" <=> cpc = "off"
  /\ patient = "unknown" =>
       typed = <<>> /\ stdin = <<>> /\ toServer = <<>> /\ toClient = <<>>
         /\ screen = <<>> /\ cwd = "home"

Idle == stdin = <<>> /\ toServer = <<>> /\ toClient = <<>>

Answered ==
  Idle /\ Len(screen) = Len(typed) /\ cwd = Shell!DirAfter(Len(typed))

(* Where the last command is: with the client, with the server, answered, or *)
(* nowhere.                                                                  *)
Unread ==
  /\ stdin = <<typed[Len(typed)]>> /\ toServer = <<>> /\ toClient = <<>>
  /\ cwd = Shell!DirAfter(Len(typed) - 1)

Sent ==
  /\ stdin = <<>> /\ toServer = <<typed[Len(typed)]>> /\ toClient = <<>>
  /\ cwd = Shell!DirAfter(Len(typed) - 1)

OnItsWay ==
  /\ stdin = <<>> /\ toServer = <<>>
  /\ toClient = <<Shell!Expected(Len(typed))>>
  /\ cwd = Shell!DirAfter(Len(typed))

OneAtATime ==
  \/ Answered
  \/ /\ Len(typed) > 0 /\ Len(screen) = Len(typed) - 1
     /\ Unread \/ Sent \/ OnItsWay \/ Idle

Answers == ({"in", "files of"} \X {"home", "d"})
             \union {<<"error", "invalid path">>, <<"error", "unknown cmd">>}

AnswersSoFar ==
  /\ screen \in Seq(Answers)
  /\ \A n \in 1..Len(screen) : screen[n] = Shell!Expected(n)

ShellIInv ==
  /\ ShellTypeOK
  /\ patient = "yes" => OneAtATime /\ AnswersSoFar

(* A set of numbers with a bound has a greatest one.                         *)
LEMMA GreatestExists ==
  ASSUME NEW n \in Nat, NEW S \in SUBSET (1..n), S # {}
  PROVE  \E a \in S : \A b \in S : b <= a
<1> DEFINE T == {n - a : a \in S}
<1>1. /\ T \subseteq Nat /\ T # {}
      /\ \A a \in S : a \in Nat
  <2>1. \A a \in S : a \in Nat /\ n - a \in Nat
    OBVIOUS
  <2>2. QED
    BY <2>1
<1>2. PICK x \in T : \A y \in T : ~(<<y, x>> \in OpToRel(<, Nat))
  BY <1>1, NatLessThanWellFounded, WFMin
<1>3. \A y \in T : ~(y < x)
  BY <1>1, <1>2 DEF OpToRel
<1>4. PICK a \in S : x = n - a
  OBVIOUS
<1>5. ASSUME NEW b \in S PROVE b <= a
  <2>1. a \in Nat /\ b \in Nat /\ n - b \in T
    BY <1>1, <1>4, <1>5
  <2>2. ~(n - b < n - a)
    BY <1>3, <1>4, <2>1
  <2>3. QED
    BY <2>1, <2>2
<1>6. QED
  BY <1>5

(* DirAfter follows the commands one by one.                                 *)
LEMMA DirStep ==
  ASSUME typed \in Seq(Shell!Cmds), NEW n \in 1..Len(typed)
  PROVE  Shell!DirAfter(n) =
           IF typed[n] = "cd" THEN "home"
           ELSE IF typed[n] = "cd d" /\ "home" \in filled THEN "d"
           ELSE Shell!DirAfter(n - 1)
<1>1. Len(typed) \in Nat /\ n \in Nat /\ n - 1 \in Nat /\ n > 0
  OBVIOUS
<1>2. CASE IsCd(n)
  <2>1. n \in Cds(n)
    BY <1>1, <1>2 DEF Cds
  <2>2. (CHOOSE a \in Cds(n) : \A b \in Cds(n) : b <= a) = n
    <3>1. \A a \in Cds(n) : (\A b \in Cds(n) : b <= a) <=> a = n
      <4>1. \A b \in Cds(n) : b \in Nat /\ b <= n
        BY <1>1 DEF Cds
      <4>2. QED
        BY <1>1, <2>1, <4>1
    <3>2. QED
      BY <2>1, <3>1
  <2>3. CASE "home" \in filled
    <3>1. Shell!DirAfter(n) = IF typed[n] = "cd" THEN "home" ELSE "d"
      BY <2>1, <2>2, <2>3 DEF Shell!DirAfter, Cds, IsCd
    <3>2. QED
      BY <1>2, <2>3, <3>1 DEF IsCd
  <2>4. CASE "home" \notin filled
    BY <2>4 DEF Shell!DirAfter
  <2>5. QED
    BY <2>3, <2>4
<1>3. CASE ~IsCd(n)
  <2>1. Cds(n) = Cds(n - 1)
    <3>1. \A m : m \in 1..n <=> m \in 1..(n - 1) \/ m = n
      BY <1>1
    <3>2. \A m : m \in Cds(n) <=> m \in Cds(n - 1)
      BY <1>3, <3>1 DEF Cds
    <3>3. QED
      BY <3>2
  <2>2. Shell!DirAfter(n) = Shell!DirAfter(n - 1)
    BY <2>1 DEF Shell!DirAfter, Cds, IsCd
  <2>3. QED
    BY <1>3, <2>2 DEF IsCd
<1>4. QED
  BY <1>2, <1>3

(* It is one of the two, and d only if there is one.                         *)
LEMMA DirValues ==
  ASSUME NEW n
  PROVE  /\ Shell!DirAfter(n) \in {"home", "d"}
         /\ Shell!DirAfter(n) = "d" => "home" \in filled
BY DEF Shell!DirAfter

(* What is typed later changes nothing of what was expected before.          *)
LEMMA DirKept ==
  ASSUME typed \in Seq(Shell!Cmds), NEW cmd \in Shell!Cmds,
         typed' = Append(typed, cmd), filled' = filled
  PROVE  /\ \A n \in 0..Len(typed) : Shell!DirAfter(n)' = Shell!DirAfter(n)
         /\ \A n \in 1..Len(typed) : Shell!Expected(n)' = Shell!Expected(n)
<1>1. Len(typed) \in Nat /\ \A m \in 1..Len(typed) : typed'[m] = typed[m]
  OBVIOUS
<1>2. ASSUME NEW n \in 0..Len(typed)
      PROVE  Shell!DirAfter(n)' = Shell!DirAfter(n)
  <2>1. Cds(n)' = Cds(n)
    <3>1. \A m \in 1..n : typed'[m] = typed[m]
      BY <1>1
    <3>2. QED
      BY <3>1 DEF Cds, IsCd
  <2>2. CASE Cds(n) = {} \/ "home" \notin filled
    BY <2>1, <2>2 DEF Shell!DirAfter, Cds, IsCd
  <2>3. CASE Cds(n) # {} /\ "home" \in filled
    <3> DEFINE last_cd == CHOOSE a \in Cds(n) : \A b \in Cds(n) : b <= a
    <3>1. n \in Nat /\ Cds(n) \in SUBSET (1..n)
      BY <1>1 DEF Cds
    <3>2. \E a \in Cds(n) : \A b \in Cds(n) : b <= a
      BY <2>3, <3>1, GreatestExists
    <3>3. last_cd \in Cds(n)
      BY <3>2
    <3>4. typed'[last_cd] = typed[last_cd]
      <4>1. last_cd \in 1..Len(typed)
        BY <1>1, <3>1, <3>3
      <4>2. QED
        BY <1>1, <4>1
    <3>5. Shell!DirAfter(n) = IF typed[last_cd] = "cd" THEN "home" ELSE "d"
      BY <2>3 DEF Shell!DirAfter, Cds, IsCd
    <3>6. Shell!DirAfter(n)'
            = IF typed'[CHOOSE a \in Cds(n)' : \A b \in Cds(n)' : b <= a]
                   = "cd" THEN "home" ELSE "d"
      BY <2>1, <2>3 DEF Shell!DirAfter, Cds, IsCd
    <3>7. QED
      BY <2>1, <3>4, <3>5, <3>6
  <2>4. QED
    BY <2>2, <2>3
<1>3. ASSUME NEW n \in 1..Len(typed)
      PROVE  Shell!Expected(n)' = Shell!Expected(n)
  <2>1. n \in 0..Len(typed) /\ typed'[n] = typed[n]
    BY <1>1
  <2>2. /\ Shell!DirAfter(n)' = Shell!DirAfter(n)
        /\ Shell!DirAfter(n - 1)' = Shell!DirAfter(n - 1)
    <3>1. n - 1 \in 0..Len(typed)
      BY <1>1
    <3>2. QED
      BY <1>2, <2>1, <3>1
  <2>3. QED
    BY <2>1, <2>2 DEF Shell!Expected, Shell!NoSuchDir
<1>4. QED
  BY <1>2, <1>3

LEMMA WholeSingleton ==
  ASSUME NEW x, NEW k \in 1..Len(<<x>>)
  PROVE  Shell!Front(<<x>>, k) = <<x>> /\ Shell!Rest(<<x>>, k) = <<>>
<1>1. k = 1 /\ Len(<<x>>) = 1 /\ <<x>>[1] = x
  OBVIOUS
<1>2. SubSeq(<<x>>, 1, 1) = [m \in 1..1 |-> x]
  BY <1>1
<1>3. SubSeq(<<x>>, 2, 1) = <<>>
  OBVIOUS
<1>4. [m \in 1..1 |-> x] = <<x>>
  BY <1>1
<1>5. Shell!Front(<<x>>, 1) = <<x>>
  BY <1>2, <1>4 DEF Shell!Front
<1>6. Shell!Rest(<<x>>, 1) = <<>>
  BY <1>1, <1>3 DEF Shell!Rest
<1>7. QED
  BY <1>1, <1>5, <1>6

LEMMA DirSame ==
  ASSUME UNCHANGED <<filled, typed>>
  PROVE  \A n : /\ Shell!DirAfter(n)' = Shell!DirAfter(n)
                /\ Shell!Expected(n)' = Shell!Expected(n)
BY DEF Shell!DirAfter, Shell!Expected, Shell!NoSuchDir

(* What an action that types and prints nothing has to show.                 *)
LEMMA SameAnswers ==
  ASSUME ShellIInv, UNCHANGED <<filled, patient, typed, screen>>, cpc # "off",
         cpc' # "off", patient = "yes" => OneAtATime'
  PROVE  ShellIInv'
<1>1. patient # "unknown" /\ ShellTypeOK'
  BY DEF ShellIInv, ShellTypeOK
<1>2. patient = "yes" => AnswersSoFar'
  BY DirSame DEF ShellIInv, AnswersSoFar
<1>3. QED
  BY <1>1, <1>2 DEF ShellIInv

LEMMA ShellTypes ==
  ASSUME ShellIInv, NEW cmd \in Shell!Cmds, Shell!types(cmd)
  PROVE  ShellIInv'
<1>1. /\ cpc # "off"
      /\ patient = "yes" => Len(screen) = Len(typed)
      /\ typed' = Append(typed, cmd) /\ stdin' = Append(stdin, cmd)
      /\ UNCHANGED <<filled, patient, cpc, screen, toServer, toClient, cwd>>
      /\ typed \in Seq(Shell!Cmds)
  BY DEF Shell!types, Shell!AtTerminal, Shell!cvars, Shell!svars, ShellIInv,
     ShellTypeOK
<1>2. ShellTypeOK'
  BY <1>1 DEF ShellIInv, ShellTypeOK
<1>3. ASSUME patient = "yes" PROVE OneAtATime'
  <2>1. Answered /\ Len(typed) \in Nat
    BY <1>1, <1>3 DEF ShellIInv, OneAtATime
  <2>2. Len(typed') = Len(typed) + 1 /\ typed'[Len(typed')] = cmd
    BY <1>1
  <2>3. \A n \in 0..Len(typed) : Shell!DirAfter(n)' = Shell!DirAfter(n)
    BY <1>1, DirKept
  <2>4. stdin' = <<cmd>>
    BY <1>1, <2>1 DEF Answered, Idle
  <2>5. Len(typed') - 1 = Len(typed)
    BY <2>1, <2>2
  <2>6. cwd' = Shell!DirAfter(Len(typed) - 1)'
    BY <1>1, <2>1, <2>3, <2>5 DEF Answered
  <2>7. Unread'
    BY <1>1, <2>1, <2>2, <2>4, <2>6 DEF Unread, Answered, Idle
  <2>8. Len(typed') > 0 /\ Len(screen') = Len(typed') - 1
    BY <1>1, <2>1, <2>5 DEF Answered
  <2>9. QED
    BY <2>7, <2>8 DEF OneAtATime
<1>4. ASSUME patient = "yes" PROVE AnswersSoFar'
  <2>1. AnswersSoFar /\ Len(screen) = Len(typed) /\ Len(typed) \in Nat
    BY <1>1, <1>4 DEF ShellIInv
  <2>2. \A n \in 1..Len(typed) : Shell!Expected(n)' = Shell!Expected(n)
    BY <1>1, DirKept
  <2>3. QED
    BY <1>1, <2>1, <2>2 DEF AnswersSoFar
<1>5. QED
  BY <1>1, <1>2, <1>3, <1>4 DEF ShellIInv

LEMMA ShellStdin ==
  ASSUME ShellIInv, Shell!client_stdin
  PROVE  ShellIInv'
<1>1. /\ cpc # "off" /\ cpc' # "off"
      /\ UNCHANGED <<filled, patient, typed, screen, toClient, cwd>>
  BY DEF Shell!client_stdin, Shell!svars
<1>2. ASSUME patient = "yes" PROVE OneAtATime'
  <2>1. OneAtATime /\ typed \in Seq(Shell!Cmds)
    BY <1>2 DEF ShellIInv, ShellTypeOK
  <2>2. CASE UNCHANGED <<stdin, toServer>>
    BY <1>1, <2>1, <2>2, DirSame DEF OneAtATime, Answered, Unread, Sent,
       OnItsWay, Idle
  <2>3. ASSUME stdin # <<>>, NEW k \in 1..Len(stdin),
               stdin' = Shell!Rest(stdin, k),
               \/ Shell!writen(Shell!Front(stdin, k))
               \/ UNCHANGED toServer
        PROVE  OneAtATime'
    <3> DEFINE cmd == typed[Len(typed)]
    <3>1. /\ Len(typed) > 0 /\ Len(screen) = Len(typed) - 1
          /\ stdin = <<cmd>> /\ toServer = <<>> /\ toClient = <<>>
          /\ cwd = Shell!DirAfter(Len(typed) - 1)
      BY <2>1, <2>3 DEF OneAtATime, Answered, Unread, Sent, OnItsWay, Idle
    <3> HIDE DEF cmd
    <3>2. Shell!Front(stdin, k) = <<cmd>> /\ stdin' = <<>>
      BY <2>3, <3>1, WholeSingleton
    <3>3. toServer' = <<>> \/ toServer' = <<cmd>>
      <4>1. CASE UNCHANGED toServer
        BY <3>1, <4>1
      <4>2. CASE Shell!writen(<<cmd>>)
        <5>1. /\ SockRoom \in Nat /\ Len(<<cmd>>) = 1 /\ Len(toServer) = 0
          BY <3>1, ShellAssumption
        <5>2. \/ toServer' = toServer
              \/ /\ 1 > SockRoom
                 /\ toServer' = <<>> \o Shell!Front(<<cmd>>, SockRoom - 0)
              \/ toServer' = <<>> \o Shell!Front(<<cmd>>, 1)
          <6>1. err' = (1 > SockRoom)
            BY <3>1, <4>2, <5>1 DEF Shell!writen
          <6>2. CASE 1 > SockRoom
            BY <3>1, <4>2, <5>1, <6>1, <6>2 DEF Shell!writen
          <6>3. CASE ~(1 > SockRoom)
            BY <3>1, <4>2, <5>1, <6>1, <6>3 DEF Shell!writen
          <6>4. QED
            BY <6>2, <6>3
        <5>3. SubSeq(<<cmd>>, 1, 0) = <<>>
          OBVIOUS
        <5>4. Shell!Front(<<cmd>>, 1) = <<cmd>>
              /\ Shell!Front(<<cmd>>, 0) = <<>>
          BY <5>1, <5>3, WholeSingleton DEF Shell!Front
        <5>5. <<>> \o <<cmd>> = <<cmd>> /\ <<>> \o <<>> = <<>>
          OBVIOUS
        <5>6. 1 > SockRoom => SockRoom - 0 = 0
          BY <5>1
        <5>7. QED
          BY <3>1, <5>2, <5>4, <5>5, <5>6
      <4>3. QED
        BY <2>3, <3>2, <4>1, <4>2
    <3>4. Idle' \/ Sent'
      BY <1>1, <3>1, <3>2, <3>3, DirSame DEF Idle, Sent, cmd
    <3>5. QED
      BY <1>1, <3>1, <3>4 DEF OneAtATime
  <2>4. QED
    BY <2>2, <2>3 DEF Shell!client_stdin
<1>3. QED
  BY <1>1, <1>2, SameAnswers

LEMMA ShellSock ==
  ASSUME ShellIInv, Shell!client_sock
  PROVE  ShellIInv'
<1>1. /\ cpc # "off" /\ cpc' # "off"
      /\ UNCHANGED <<filled, patient, typed, stdin, toServer, cwd>>
  BY DEF Shell!client_sock, Shell!svars
<1>2. CASE UNCHANGED <<screen, toClient>>
  <2>1. patient = "yes" => OneAtATime'
    BY <1>1, <1>2, DirSame DEF ShellIInv, OneAtATime, Answered, Unread, Sent,
       OnItsWay, Idle
  <2>2. QED
    BY <1>1, <1>2, <2>1, SameAnswers
<1>3. ASSUME toClient # <<>>, NEW k \in 1..Len(toClient),
             screen' = screen \o Shell!Front(toClient, k),
             toClient' = Shell!Rest(toClient, k)
      PROVE  ShellIInv'
  <2>1. ShellTypeOK' /\ patient # "unknown"
    BY <1>1 DEF ShellIInv, ShellTypeOK
  <2>2. ASSUME patient = "yes" PROVE OneAtATime' /\ AnswersSoFar'
    <3> DEFINE n == Len(typed)
    <3>1. /\ n > 0 /\ Len(screen) = n - 1 /\ n \in Nat
          /\ stdin = <<>> /\ toServer = <<>>
          /\ toClient = <<Shell!Expected(n)>> /\ cwd = Shell!DirAfter(n)
          /\ screen \in Seq(Answers)
          /\ \A m \in 1..Len(screen) : screen[m] = Shell!Expected(m)
      BY <1>3, <2>2 DEF ShellIInv, ShellTypeOK, OneAtATime, Answered, Unread,
         Sent, OnItsWay, Idle, AnswersSoFar
    <3>2. Shell!Expected(n) \in Answers
      BY DirValues DEF Answers, Shell!Expected
    <3> HIDE DEF n
    <3>3. toClient' = <<>> /\ screen' = screen \o <<Shell!Expected(n)>>
      BY <1>3, <3>1, WholeSingleton
    <3>4. /\ screen' \in Seq(Answers)
          /\ Len(screen') = n /\ screen'[n] = Shell!Expected(n)
          /\ \A m \in 1..(n - 1) : screen'[m] = screen[m]
      BY <3>1, <3>2, <3>3
    <3>5. n' = n /\ \A m : /\ Shell!Expected(m)' = Shell!Expected(m)
                           /\ Shell!DirAfter(m)' = Shell!DirAfter(m)
      BY <1>1, DirSame DEF n
    <3>6. \A m \in 1..Len(screen') : screen'[m] = Shell!Expected(m)
      BY <3>1, <3>4
    <3>7. AnswersSoFar'
      BY <3>4, <3>5, <3>6 DEF AnswersSoFar
    <3>8. Answered'
      BY <1>1, <3>1, <3>3, <3>4, <3>5 DEF Answered, Idle, n
    <3>9. QED
      BY <3>7, <3>8 DEF OneAtATime
  <2>3. QED
    BY <1>1, <2>1, <2>2 DEF ShellIInv
<1>4. QED
  BY <1>2, <1>3 DEF Shell!client_sock

LEMMA ShellRuns ==
  ASSUME ShellIInv, Shell!server_runs
  PROVE  ShellIInv'
<1>1. /\ UNCHANGED <<filled, patient, typed, stdin, cpc, screen>>
      /\ toServer # <<>> /\ cpc # "off" /\ cpc' # "off"
  BY DEF Shell!server_runs, Shell!cvars, ShellIInv, ShellTypeOK
<1>2. ASSUME patient = "yes" PROVE OneAtATime'
  <2> DEFINE n == Len(typed)
             cmd == typed[n]
  <2>1. /\ n > 0 /\ Len(screen) = n - 1 /\ n \in Nat /\ n \in 1..n
        /\ stdin = <<>> /\ toServer = <<cmd>> /\ toClient = <<>>
        /\ cwd = Shell!DirAfter(n - 1)
        /\ typed \in Seq(Shell!Cmds)
    BY <1>1, <1>2 DEF ShellIInv, ShellTypeOK, OneAtATime, Answered, Unread,
       Sent, OnItsWay, Idle
  <2>2. cmd \in Shell!Cmds
    BY <2>1
  <2>3. Shell!DirAfter(n) = IF cmd = "cd" THEN "home"
                            ELSE IF cmd = "cd d" /\ "home" \in filled THEN "d"
                            ELSE cwd
    BY <2>1, DirStep
  <2>4. /\ cwd \in {"home", "d"}
        /\ cwd = "d" => "home" \in filled
    BY <2>1, DirValues
  <2>5. Shell!Expected(n) =
          IF cmd = "ls" THEN <<"files of", Shell!DirAfter(n)>>
          ELSE IF cmd = "unknown" THEN <<"error", "unknown cmd">>
          ELSE IF cmd = "cd d" /\ ("home" \notin filled \/ cwd = "d")
          THEN <<"error", "invalid path">>
          ELSE <<"in", Shell!DirAfter(n)>>
    BY <2>1 DEF Shell!Expected, Shell!NoSuchDir
  <2> HIDE DEF cmd, n
  <2>6. Shell!DirAfter(n) = IF cmd \in Shell!CdCmds THEN Shell!chdir(cmd)
                            ELSE cwd
    BY <2>2, <2>3, <2>4
       DEF Shell!CdCmds, Shell!chdir, Shell!PathLeads, Shell!Cmds
  <2>7. cmd # "quit" =>
          Shell!Answer(cmd) = <<>> \/ Shell!Answer(cmd) = <<Shell!Expected(n)>>
    <3>1. CASE cmd = "pwd"
      BY <2>3, <2>5, <3>1 DEF Shell!Answer, Shell!server_pwd
    <3>2. CASE cmd = "unknown"
      BY <2>5, <3>2 DEF Shell!Answer, Shell!CdCmds
    <3>3. CASE cmd = "ls"
      <4>1. Shell!Answer(cmd) = Shell!server_ls(cwd)
        BY <3>3 DEF Shell!Answer, Shell!CdCmds
      <4>2. Shell!Expected(n) = <<"files of", cwd>>
        BY <2>3, <2>5, <3>3
      <4>3. QED
        BY <4>1, <4>2 DEF Shell!server_ls
    <3>4. CASE cmd \in {"cd", "cd d"}
      <4>1. Shell!Answer(cmd) = <<Shell!server_cd(cmd)>>
        BY <3>4 DEF Shell!Answer, Shell!CdCmds
      <4>2. CASE Shell!PathLeads(cmd)
        <5>1. Shell!server_cd(cmd) = <<"in", Shell!DirAfter(n)>>
          BY <2>6, <3>4, <4>2
             DEF Shell!server_cd, Shell!server_pwd, Shell!CdCmds
        <5>2. Shell!Expected(n) = <<"in", Shell!DirAfter(n)>>
          BY <2>5, <3>4, <4>2 DEF Shell!PathLeads
        <5>3. QED
          BY <4>1, <5>1, <5>2
      <4>3. CASE ~Shell!PathLeads(cmd)
        <5>1. Shell!server_cd(cmd) = <<"error", "invalid path">>
          BY <4>3 DEF Shell!server_cd
        <5>2. Shell!Expected(n) = <<"error", "invalid path">>
          BY <2>4, <2>5, <3>4, <4>3 DEF Shell!PathLeads
        <5>3. QED
          BY <4>1, <5>1, <5>2
      <4>4. QED
        BY <4>2, <4>3
    <3>5. QED
      BY <2>2, <3>1, <3>2, <3>3, <3>4 DEF Shell!Cmds
  <2>8. PICK k \in 1..Len(toServer) :
          LET c == Shell!Parse(Shell!Front(toServer, k))
          IN /\ toServer' = IF cpc = "done" THEN <<>>
                            ELSE Shell!Rest(toServer, k)
             /\ IF c = "quit"
                THEN UNCHANGED <<toClient, cwd>>
                ELSE /\ cwd' = IF c \in Shell!CdCmds THEN Shell!chdir(c)
                               ELSE cwd
                     /\ toClient' = IF cpc = "done" THEN toClient
                                    ELSE toClient \o Shell!Answer(c)
    BY DEF Shell!server_runs
  <2>9. /\ Shell!Front(toServer, k) = <<cmd>>
        /\ Shell!Rest(toServer, k) = <<>>
    BY <2>1, <2>8, WholeSingleton
  <2>10. Shell!Parse(<<cmd>>) = cmd
    BY DEF Shell!Parse
  <2>11. /\ toServer' = <<>>
        /\ \/ toClient' = <<>>
           \/ toClient' = <<Shell!Expected(n)>> /\ cwd' = Shell!DirAfter(n)
    <3>1. /\ <<>> \o <<>> = <<>>
          /\ <<>> \o <<Shell!Expected(n)>> = <<Shell!Expected(n)>>
      OBVIOUS
    <3>2. CASE cmd = "quit"
      BY <2>1, <2>8, <2>9, <2>10, <3>2
    <3>3. CASE cmd # "quit"
      BY <2>1, <2>6, <2>7, <2>8, <2>9, <2>10, <3>1, <3>3
    <3>4. QED
      BY <3>2, <3>3
  <2>12. n' = n /\ \A m : /\ Shell!Expected(m)' = Shell!Expected(m)
                          /\ Shell!DirAfter(m)' = Shell!DirAfter(m)
    BY <1>1, DirSame DEF n
  <2>13. Idle' \/ OnItsWay'
    BY <1>1, <2>1, <2>11, <2>12 DEF Idle, OnItsWay, n
  <2>14. QED
    BY <1>1, <2>1, <2>13 DEF OneAtATime, n
<1>3. QED
  BY <1>1, <1>2, SameAnswers

LEMMA ShellConnects ==
  ASSUME ShellIInv, NEW p \in {"yes", "no"}, NEW dirs,
         Shell!main_connects(p, dirs)
  PROVE  ShellIInv'
<1>1. /\ patient = "unknown" /\ patient' = p /\ cpc' = "poll"
      /\ UNCHANGED <<typed, stdin, toServer, toClient, screen, cwd>>
      /\ typed = <<>> /\ stdin = <<>> /\ toServer = <<>> /\ toClient = <<>>
      /\ screen = <<>> /\ cwd = "home"
  BY DEF Shell!main_connects, ShellIInv, ShellTypeOK
<1>2. ShellTypeOK'
  BY <1>1 DEF ShellTypeOK
<1>3. Shell!DirAfter(0)' = "home"
  BY DEF Shell!DirAfter
<1>4. Answered'
  BY <1>1, <1>3 DEF Answered, Idle
<1>5. AnswersSoFar'
  BY <1>1 DEF AnswersSoFar
<1>6. QED
  BY <1>2, <1>4, <1>5 DEF ShellIInv, OneAtATime

(* The steps that move no command.                                           *)
LEMMA ShellStill ==
  ASSUME ShellIInv,
         \/ Shell!closes \/ Shell!client_polls \/ Shell!server_ends
         \/ UNCHANGED Shell!vars
  PROVE  ShellIInv'
<1>1. UNCHANGED <<filled, patient, typed, stdin, toServer, toClient, screen,
                cwd>>
  BY DEF Shell!closes, Shell!client_polls, Shell!server_ends, Shell!vars,
     Shell!cvars, Shell!svars
<1>2. ShellTypeOK'
  BY <1>1 DEF Shell!closes, Shell!client_polls, Shell!server_ends, Shell!vars,
     Shell!cvars, Shell!AtTerminal, ShellIInv, ShellTypeOK
<1>3. OneAtATime => OneAtATime'
  BY <1>1, DirSame DEF OneAtATime, Answered, Unread, Sent, OnItsWay, Idle
<1>4. AnswersSoFar => AnswersSoFar'
  BY <1>1, DirSame DEF AnswersSoFar
<1>5. QED
  BY <1>1, <1>2, <1>3, <1>4 DEF ShellIInv

LEMMA ShellNext ==
  ASSUME ShellIInv, [Shell!Next]_(Shell!vars)
  PROVE  ShellIInv'
BY ShellConnects, ShellTypes, ShellStdin, ShellSock, ShellRuns, ShellStill
   DEF Shell!Next, Shell!client, Shell!server

LEMMA ShellSteps == [Next]_vars => [Shell!Next]_(Shell!vars)
BY DEF Next, vars, Still, two_points, some_bytes, buffer, mask, array, salary,
   Chosen, shellVars, Shell!vars, Shell!cvars, Shell!svars

(* The server of client-server.c takes a read for a command, and a patient   *)
(* user does not notice: the screen has the answers to what was typed, one   *)
(* for one, whatever the length of the session and the room in the socket.   *)
THEOREM PatientUsersAreAnswered == Spec => []Shell!PatientUserIsAnswered
<1>1. Init => ShellIInv
  BY DEF Init, Shell!Init, ShellIInv, ShellTypeOK
<1>2. ShellIInv /\ [Next]_vars => ShellIInv'
  BY ShellNext, ShellSteps
<1>3. ShellIInv => Shell!PatientUserIsAnswered
  <2>1. SUFFICES ASSUME ShellIInv, patient = "yes"
                 PROVE  /\ Len(screen) <= Len(typed)
                        /\ \A n \in 1..Len(screen) :
                             screen[n] = Shell!Expected(n)
    BY DEF Shell!PatientUserIsAnswered
  <2>2. Len(screen) = Len(typed) \/ Len(screen) = Len(typed) - 1
    BY <2>1 DEF ShellIInv, OneAtATime, Answered
  <2>3. Len(typed) \in Nat
    BY <2>1 DEF ShellIInv, ShellTypeOK
  <2>4. QED
    BY <2>1, <2>2, <2>3 DEF ShellIInv, AnswersSoFar
<1>4. QED
  BY <1>1, <1>2, <1>3, PTL DEF Spec

-----------------------------------------------------------------------------
(* mt-print and mt-cond.  In round m of mt-print thread 0 prints a 0 and     *)
(* thread MtOdd(m) prints m + 1; each of the six steps of a round leaves     *)
(* exactly one mutex free, or none.                                          *)

MtPlace(t) == IF iter[t] <= (IF t = 0 THEN 5 ELSE t + 4) THEN "lock"
                                                         ELSE "end"
MtOne(m) == (m % 2) + 1
MtOther(m) == 3 - MtOne(m)

MtThread0(m) ==
  /\ iter[0] = m /\ tpc[MtOne(m)] = MtPlace(MtOne(m))
  /\ \/ tpc[0] = MtPlace(0) /\ mtx = {1, 2} /\ Len(printed) = 2 * m
     \/ m < 6 /\ tpc[0] = "print" /\ mtx = 0..2 /\ Len(printed) = 2 * m
     \/ m < 6 /\ tpc[0] = "unlock" /\ mtx = 0..2 /\ Len(printed) = 2 * m + 1

MtThread12(m) ==
  /\ m < 6 /\ iter[0] = m + 1 /\ tpc[0] = MtPlace(0)
  /\ \/ /\ tpc[MtOne(m)] = "lock" /\ mtx = 0..2 \ {MtOne(m)}
        /\ Len(printed) = 2 * m + 1
     \/ tpc[MtOne(m)] = "print" /\ mtx = 0..2 /\ Len(printed) = 2 * m + 1
     \/ tpc[MtOne(m)] = "unlock" /\ mtx = 0..2 /\ Len(printed) = 2 * m + 2

MtRound(m) ==
  /\ iter[MtOne(m)] = m + 1 /\ iter[MtOther(m)] = m + 2
  /\ tpc[MtOther(m)] = MtPlace(MtOther(m))
  /\ MtThread0(m) \/ MtThread12(m)

MtPrint ==
  /\ tpc \in [0..2 -> {"lock", "print", "unlock", "end"}]
  /\ iter \in [0..2 -> Nat]
  /\ \E m \in 0..6 : MtRound(m)

MtCond ==
  /\ tpc \in [0..1 -> {"lock", "test", "wait", "woken", "add", "signal",
                       "end"}]
  /\ iter \in [0..1 -> Nat]
  /\ cnt = IF tpc[1] = "signal" THEN iter[1] + 1 ELSE iter[1]
  /\ iter[1] <= 3 /\ (tpc[1] = "end" <=> iter[1] = 3)
  /\ tpc[0] = "end" => cnt = 3

MtIInv ==
  /\ mtprog \in {"none", "print", "cond"} /\ cnt \in Nat
  /\ printed \in Seq(Nat) /\ Len(printed) <= 12
  /\ \A n \in 1..Len(printed) : printed[n] = Mt!Goal[n]
  /\ mtprog = "none" => cnt = 0
  /\ mtprog # "print" => printed = <<>>
  /\ mtprog = "print" => MtPrint
  /\ mtprog = "cond" => MtCond

LEMMA GoalByRounds ==
  \A m \in 0..5 : Mt!Goal[2 * m + 1] = 0 /\ Mt!Goal[2 * m + 2] = m + 1
<1>1. \A m \in 0..5 : m = 0 \/ m = 1 \/ m = 2 \/ m = 3 \/ m = 4 \/ m = 5
  OBVIOUS
<1>2. /\ Mt!Goal[1] = 0 /\ Mt!Goal[2] = 1 /\ Mt!Goal[3] = 0 /\ Mt!Goal[4] = 2
      /\ Mt!Goal[5] = 0 /\ Mt!Goal[6] = 3 /\ Mt!Goal[7] = 0 /\ Mt!Goal[8] = 4
      /\ Mt!Goal[9] = 0 /\ Mt!Goal[10] = 5
      /\ Mt!Goal[11] = 0 /\ Mt!Goal[12] = 6
  BY DEF Mt!Goal
<1>3. QED
  BY <1>1, <1>2

(* A round has one of these two threads.                                     *)
LEMMA MtWho ==
  \A m \in 0..6 :
    \/ m \in {0, 2, 4, 6} /\ MtOne(m) = 1 /\ MtOther(m) = 2
    \/ m \in {1, 3, 5} /\ MtOne(m) = 2 /\ MtOther(m) = 1
<1>1. \A m \in 0..6 : m % 2 \in {0, 1} /\ (m % 2 = 0 <=> m \in {0, 2, 4, 6})
  OBVIOUS
<1>2. QED
  BY <1>1 DEF MtOne, MtOther

LEMMA MtMain ==
  ASSUME MtIInv, Mt!print_main \/ Mt!cond_main
  PROVE  MtIInv'
<1>1. CASE Mt!print_main
  <2>1. /\ mtprog' = "print" /\ printed' = <<>> /\ cnt' = 0
        /\ mtx' = {1, 2} /\ tpc' = [t \in 0..2 |-> "lock"]
        /\ iter' = [t \in 0..2 |-> t]
    BY <1>1 DEF Mt!print_main, MtIInv
  <2>2. MtOne(0) = 1 /\ MtOther(0) = 2
    BY MtWho
  <2>3. MtRound(0)'
    BY <2>1, <2>2 DEF MtRound, MtThread0, MtPlace
  <2>4. MtPrint'
    BY <2>1, <2>3 DEF MtPrint
  <2>5. QED
    BY <2>1, <2>4 DEF MtIInv
<1>2. CASE Mt!cond_main
  BY <1>2 DEF Mt!cond_main, MtIInv, MtCond
<1>3. QED
  BY <1>1, <1>2

(* What a step of mt-print has to show of the output.                        *)
LEMMA MtOutput ==
  ASSUME MtIInv, mtprog = "print", UNCHANGED <<mtprog, cnt>>, MtPrint',
         \/ UNCHANGED printed
         \/ \E v \in Nat : /\ printed' = Append(printed, v)
                           /\ Len(printed) < 12
                           /\ v = Mt!Goal[Len(printed) + 1]
  PROVE  MtIInv'
<1>1. CASE UNCHANGED printed
  BY <1>1 DEF MtIInv
<1>2. ASSUME NEW v \in Nat, printed' = Append(printed, v),
             Len(printed) < 12, v = Mt!Goal[Len(printed) + 1]
      PROVE  MtIInv'
  <2>1. /\ printed' \in Seq(Nat) /\ Len(printed') = Len(printed) + 1
        /\ Len(printed) \in Nat /\ printed'[Len(printed) + 1] = v
        /\ \A n \in 1..Len(printed) : printed'[n] = printed[n]
    BY <1>2 DEF MtIInv
  <2>2. \A n \in 1..Len(printed') : printed'[n] = Mt!Goal[n]
    BY <1>2, <2>1 DEF MtIInv
  <2>3. Len(printed') <= 12
    BY <1>2, <2>1
  <2>4. QED
    BY <2>1, <2>2, <2>3 DEF MtIInv
<1>3. QED
  BY <1>1, <1>2

LEMMA MtLocks ==
  ASSUME MtIInv, NEW t \in 0..2, Mt!locks(t)
  PROVE  MtIInv'
<1>1. /\ mtprog = "print" /\ tpc[t] = "lock" /\ t \notin mtx
      /\ mtx' = mtx \cup {t} /\ tpc' = [tpc EXCEPT ![t] = "print"]
      /\ UNCHANGED <<mtprog, iter, printed, cnt>>
      /\ tpc \in [0..2 -> {"lock", "print", "unlock", "end"}]
      /\ iter \in [0..2 -> Nat]
  BY DEF Mt!locks, MtIInv, MtPrint
<1>2. PICK m \in 0..6 : MtRound(m)
  BY <1>1 DEF MtIInv, MtPrint
<1>3. /\ MtOne(m) \in {1, 2} /\ MtOther(m) \in {1, 2}
      /\ MtOne(m) # MtOther(m)
  BY MtWho
<1>4. tpc'[t] = "print" /\ \A s \in 0..2 \ {t} : tpc'[s] = tpc[s]
  BY <1>1
<1>5. CASE MtThread0(m)
  <2>1. t = 0 /\ mtx = {1, 2} /\ mtx' = 0..2
    BY <1>1, <1>5 DEF MtThread0
  <2>2. m < 6
    BY <1>1, <1>5, <2>1 DEF MtThread0, MtPlace
  <2>3. MtRound(m)'
    BY <1>1, <1>2, <1>3, <1>4, <1>5, <2>1, <2>2 DEF MtRound, MtThread0, MtPlace
  <2>4. QED
    BY <1>1, <2>3, MtOutput DEF MtPrint
<1>6. CASE MtThread12(m)
  <2>1. t = MtOne(m) /\ mtx' = 0..2
    BY <1>1, <1>3, <1>6 DEF MtThread12
  <2>2. MtRound(m)'
    BY <1>1, <1>2, <1>3, <1>4, <1>6, <2>1 DEF MtRound, MtThread12, MtPlace
  <2>3. QED
    BY <1>1, <2>2, MtOutput DEF MtPrint
<1>7. QED
  BY <1>2, <1>5, <1>6 DEF MtRound

LEMMA MtPrints ==
  ASSUME MtIInv, NEW t \in 0..2, Mt!prints(t)
  PROVE  MtIInv'
<1>1. /\ mtprog = "print" /\ tpc[t] = "print"
      /\ printed' = Append(printed, IF t = 0 THEN 0 ELSE iter[t])
      /\ tpc' = [tpc EXCEPT ![t] = "unlock"]
      /\ UNCHANGED <<mtprog, mtx, iter, cnt>>
      /\ tpc \in [0..2 -> {"lock", "print", "unlock", "end"}]
      /\ iter \in [0..2 -> Nat]
      /\ Len(printed') = Len(printed) + 1 /\ Len(printed) \in Nat
  BY DEF Mt!prints, MtIInv, MtPrint
<1>2. PICK m \in 0..6 : MtRound(m)
  BY <1>1 DEF MtIInv, MtPrint
<1>3. /\ MtOne(m) \in {1, 2} /\ MtOther(m) \in {1, 2}
      /\ MtOne(m) # MtOther(m)
  BY MtWho
<1>4. tpc'[t] = "unlock" /\ \A s \in 0..2 \ {t} : tpc'[s] = tpc[s]
  BY <1>1
<1>5. CASE MtThread0(m)
  <2>1. t = 0 /\ m < 6 /\ Len(printed) = 2 * m /\ mtx = 0..2
    BY <1>1, <1>2, <1>3, <1>5 DEF MtThread0, MtRound, MtPlace
  <2>2. MtRound(m)'
    BY <1>1, <1>2, <1>3, <1>4, <1>5, <2>1 DEF MtRound, MtThread0, MtPlace
  <2>3. printed' = Append(printed, 0) /\ 0 = Mt!Goal[Len(printed) + 1]
    BY <1>1, <2>1, GoalByRounds
  <2>4. QED
    BY <1>1, <2>1, <2>2, <2>3, MtOutput DEF MtPrint
<1>6. CASE MtThread12(m)
  <2>1. t = MtOne(m) /\ m < 6 /\ Len(printed) = 2 * m + 1 /\ mtx = 0..2
    BY <1>1, <1>2, <1>3, <1>6 DEF MtThread12, MtRound, MtPlace
  <2>2. MtRound(m)'
    BY <1>1, <1>2, <1>3, <1>4, <1>6, <2>1 DEF MtRound, MtThread12, MtPlace
  <2>3. /\ printed' = Append(printed, m + 1)
        /\ m + 1 = Mt!Goal[Len(printed) + 1] /\ m + 1 \in Nat
    <3>1. iter[t] = m + 1 /\ t # 0
      BY <1>2, <1>3, <2>1 DEF MtRound
    <3>2. m \in 0..5 /\ Len(printed) + 1 = 2 * m + 2
      BY <2>1
    <3>3. Mt!Goal[2 * m + 2] = m + 1
      BY <3>2, GoalByRounds
    <3>4. QED
      BY <1>1, <3>1, <3>2, <3>3
  <2>4. QED
    BY <1>1, <2>1, <2>2, <2>3, MtOutput DEF MtPrint
<1>7. QED
  BY <1>2, <1>5, <1>6 DEF MtRound

LEMMA MtUnlock0 ==
  ASSUME MtIInv, Mt!thread0_unlocks
  PROVE  MtIInv'
<1>1. /\ mtprog = "print" /\ tpc[0] = "unlock"
      /\ mtx' = mtx \ {(iter[0] % 2) + 1}
      /\ iter' = [iter EXCEPT ![0] = @ + 1]
      /\ tpc' = [tpc EXCEPT ![0] = IF iter'[0] <= 5 THEN "lock" ELSE "end"]
      /\ UNCHANGED <<mtprog, printed, cnt>>
      /\ tpc \in [0..2 -> {"lock", "print", "unlock", "end"}]
      /\ iter \in [0..2 -> Nat]
  BY DEF Mt!thread0_unlocks, Mt!Ended, MtIInv, MtPrint
<1>2. PICK m \in 0..6 : MtRound(m)
  BY <1>1 DEF MtIInv, MtPrint
<1>3. /\ MtOne(m) \in {1, 2} /\ MtOther(m) \in {1, 2}
      /\ MtOne(m) # MtOther(m)
      /\ m < 6 => m + 1 <= MtOne(m) + 4
  BY MtWho
<1>4. /\ MtThread0(m) /\ m < 6 /\ mtx = 0..2 /\ iter[0] = m
      /\ Len(printed) = 2 * m + 1
  BY <1>1, <1>2 DEF MtRound, MtThread0, MtThread12, MtPlace
<1>5. mtx' = 0..2 \ {MtOne(m)}
  BY <1>1, <1>4 DEF MtOne
<1>6. tpc[MtOne(m)] = "lock"
  BY <1>2, <1>3, <1>4 DEF MtRound, MtThread0, MtPlace
<1>7. /\ iter'[0] = m + 1 /\ iter'[1] = iter[1] /\ iter'[2] = iter[2]
      /\ tpc'[0] = IF m + 1 <= 5 THEN "lock" ELSE "end"
      /\ tpc'[1] = tpc[1] /\ tpc'[2] = tpc[2]
      /\ tpc' \in [0..2 -> {"lock", "print", "unlock", "end"}]
      /\ iter' \in [0..2 -> Nat]
  BY <1>1, <1>4
<1>8. MtRound(m)'
  <2>1. /\ iter'[MtOne(m)] = m + 1 /\ iter'[MtOther(m)] = m + 2
        /\ tpc'[MtOther(m)] = MtPlace(MtOther(m))
        /\ MtPlace(MtOther(m))' = MtPlace(MtOther(m))
    BY <1>2, <1>3, <1>7 DEF MtRound, MtPlace
  <2>2. MtThread12(m)'
    <3>1. tpc'[0] = MtPlace(0)'
      BY <1>7 DEF MtPlace
    <3>2. tpc'[MtOne(m)] = "lock"
      BY <1>3, <1>6, <1>7
    <3>3. UNCHANGED printed
      BY <1>1
    <3>4. QED
      BY <1>4, <1>5, <1>7, <3>1, <3>2, <3>3 DEF MtThread12
  <2>3. QED
    BY <2>1, <2>2 DEF MtRound
<1>9. QED
  BY <1>1, <1>7, <1>8, MtOutput DEF MtPrint

LEMMA MtUnlock12 ==
  ASSUME MtIInv, NEW x \in {1, 2}, mtprog = "print", tpc[x] = "unlock",
         mtx' = mtx \ {0}, iter' = [iter EXCEPT ![x] = @ + 2],
         tpc' = [tpc EXCEPT ![x] = IF iter'[x] <= x + 4 THEN "lock"
                                                        ELSE "end"],
         UNCHANGED <<mtprog, printed, cnt>>
  PROVE  MtIInv'
<1>1. /\ tpc \in [0..2 -> {"lock", "print", "unlock", "end"}]
      /\ iter \in [0..2 -> Nat]
  BY DEF MtIInv, MtPrint
<1>2. PICK m \in 0..6 : MtRound(m)
  BY DEF MtIInv, MtPrint
<1>3. /\ MtOne(m) \in {1, 2} /\ MtOther(m) \in {1, 2}
      /\ MtOne(m) # MtOther(m)
  BY MtWho
<1>4. /\ MtThread12(m) /\ m < 6 /\ mtx = 0..2 /\ x = MtOne(m)
      /\ Len(printed) = 2 * m + 2 /\ iter[0] = m + 1
      /\ iter[x] = m + 1 /\ iter[MtOther(m)] = m + 2
  BY <1>2, <1>3 DEF MtRound, MtThread0, MtThread12, MtPlace
<1>5. /\ m + 1 \in 0..6 /\ MtOne(m + 1) = MtOther(m) /\ MtOther(m + 1) = x
  <2>1. m + 1 \in 0..6
    BY <1>4
  <2>2. QED
    BY <1>4, <2>1, MtWho
<1>6. /\ iter'[x] = m + 3 /\ iter'[0] = m + 1 /\ iter'[MtOther(m)] = m + 2
      /\ tpc'[x] = IF m + 3 <= x + 4 THEN "lock" ELSE "end"
      /\ tpc'[0] = tpc[0] /\ tpc'[MtOther(m)] = tpc[MtOther(m)]
      /\ tpc' \in [0..2 -> {"lock", "print", "unlock", "end"}]
      /\ iter' \in [0..2 -> Nat] /\ mtx' = {1, 2}
  BY <1>1, <1>3, <1>4
<1>7. MtRound(m + 1)'
  BY <1>2, <1>3, <1>4, <1>5, <1>6 DEF MtRound, MtThread0, MtThread12, MtPlace
<1>8. QED
  BY <1>5, <1>6, <1>7, MtOutput DEF MtPrint

LEMMA MtCondSteps ==
  ASSUME MtIInv, Mt!Wait3 \/ Mt!Add \/ Mt!wakes_for_nothing
  PROVE  MtIInv'
<1>1. /\ mtprog = "cond" /\ MtCond /\ UNCHANGED <<mtprog, printed>>
      /\ cnt \in Nat
  BY DEF Mt!Wait3, Mt!wait3_locks, Mt!wait3_tests, Mt!Add, Mt!add_locks,
     Mt!add_counts, Mt!add_signals, Mt!wakes_for_nothing, MtIInv
<1>2. MtCond' /\ cnt' \in Nat
  <2>1. CASE Mt!wait3_locks
    BY <1>1, <2>1 DEF Mt!wait3_locks, Mt!Goes, MtCond
  <2>2. CASE Mt!wait3_tests
    BY <1>1, <2>2 DEF Mt!wait3_tests, Mt!Goes, MtCond
  <2>3. CASE Mt!wakes_for_nothing
    BY <1>1, <2>3 DEF Mt!wakes_for_nothing, Mt!Goes, MtCond
  <2>4. CASE Mt!add_locks
    BY <1>1, <2>4 DEF Mt!add_locks, Mt!Goes, MtCond
  <2>5. CASE Mt!add_counts
    BY <1>1, <2>5 DEF Mt!add_counts, Mt!Goes, MtCond
  <2>6. CASE Mt!add_signals
    BY <1>1, <2>6 DEF Mt!add_signals, MtCond
  <2>7. QED
    BY <2>1, <2>2, <2>3, <2>4, <2>5, <2>6 DEF Mt!Wait3, Mt!Add
<1>3. QED
  BY <1>1, <1>2 DEF MtIInv

LEMMA MtNext ==
  ASSUME MtIInv, [Mt!Next]_(Mt!vars)
  PROVE  MtIInv'
<1>1. CASE Mt!thread1_unlocks
  <2>1. tpc' = [tpc EXCEPT ![1] = IF iter'[1] <= 1 + 4 THEN "lock"
                                                       ELSE "end"]
    BY <1>1 DEF Mt!thread1_unlocks, Mt!Ended
  <2>2. QED
    BY <1>1, <2>1, MtUnlock12 DEF Mt!thread1_unlocks
<1>2. CASE Mt!thread2_unlocks
  <2>1. tpc' = [tpc EXCEPT ![2] = IF iter'[2] <= 2 + 4 THEN "lock"
                                                       ELSE "end"]
    BY <1>2 DEF Mt!thread2_unlocks, Mt!Ended
  <2>2. QED
    BY <1>2, <2>1, MtUnlock12 DEF Mt!thread2_unlocks
<1>3. CASE UNCHANGED Mt!vars
  BY <1>3 DEF Mt!vars, MtIInv, MtPrint, MtCond, MtRound, MtThread0,
     MtThread12, MtPlace
<1>4. QED
  BY <1>1, <1>2, <1>3, MtMain, MtLocks, MtPrints, MtUnlock0, MtCondSteps
     DEF Mt!Next, Mt!Printers

LEMMA MtSteps == [Next]_vars => [Mt!Next]_(Mt!vars)
BY DEF Next, vars, Still, two_points, some_bytes, buffer, mask, array, salary,
   Chosen, mtVars, Mt!vars

(* mt-print's three threads print 010203040506 or a beginning of it, though  *)
(* each unlocks the mutex another one has locked; and thread_wait3 does not  *)
(* get past its loop before thread_add has counted to three.                 *)
THEOREM PrintersTakeTurns == Spec => []Mt!ThreadsTakeTurns
<1>1. Init => MtIInv
  BY DEF Init, Mt!Init, MtIInv
<1>2. MtIInv /\ [Next]_vars => MtIInv'
  BY MtNext, MtSteps
<1>3. MtIInv => Mt!ThreadsTakeTurns
  <2>1. SUFFICES ASSUME MtIInv
                 PROVE  printed = SubSeq(Mt!Goal, 1, Len(printed))
    BY DEF MtIInv, MtCond, Mt!ThreadsTakeTurns
  <2>2. Mt!Goal \in Seq(Nat) /\ Len(Mt!Goal) = 12
    BY DEF Mt!Goal
  <2>3. /\ printed \in Seq(Nat) /\ Len(printed) <= 12
        /\ \A n \in 1..Len(printed) : printed[n] = Mt!Goal[n]
    BY <2>1 DEF MtIInv
  <2>4. QED
    BY <2>2, <2>3
<1>4. QED
  BY <1>1, <1>2, <1>3, PTL DEF Spec

-----------------------------------------------------------------------------
(* test.c of the spinlock.  Main's loops are over in the order of the        *)
(* workers, and a worker is in the queue only after it has set its index.    *)

TestTypeOK ==
  /\ at \in {"off", "create", "test", "report", "cancel", "join", "dump"}
  /\ next_i \in Test!Threads
  /\ wpc \in [Test!Threads -> {"none", "start", "want", "wait", "count",
                               "gone"}]
  /\ thread_index \in [Test!Threads -> Int]
  /\ waiters \in Seq(Test!Threads)
  /\ counters \in [Test!Threads -> Nat]
  /\ prev_counts \in [Test!Threads -> Nat]

(* Nothing is created before main creates it.                                *)
NotCreated ==
  /\ at = "off" => \A t \in Test!Threads : wpc[t] = "none"
  /\ at = "create" =>
       \A t \in Test!Threads : t >= next_i => wpc[t] = "none"

Joined ==
  /\ at = "join" => \A t \in Test!Threads : t < next_i => wpc[t] = "gone"
  /\ at = "dump" => \A t \in Test!Threads : wpc[t] = "gone"

Indexed ==
  /\ \A t \in Test!Threads : wpc[t] \notin {"none", "start"}
                               => thread_index[t] = t
  /\ \A n \in DOMAIN waiters : wpc[waiters[n]] \notin {"none", "start"}

TestIInv ==
  /\ TestTypeOK /\ NotCreated /\ Joined /\ Indexed
  /\ at \in {"off", "test", "dump"} => next_i = 0
  /\ \A t \in Test!Threads : prev_counts[t] <= counters[t]

LEMMA ThreadsAreNumbers ==
  /\ Workers \in Nat \ {0} /\ 0 \in Test!Threads
  /\ \A t : t \in Test!Threads <=> t \in Nat /\ t < Workers
BY TestAssumption DEF Test!Threads

(* A round of a loop of main's: the next worker, or the next loop.           *)
LEMMA TestLoop ==
  ASSUME TestTypeOK, NEW here, NEW after, Test!Loop(here, after)
  PROVE  /\ at = here
         /\ \/ /\ next_i' = next_i + 1 /\ at' = at
               /\ next_i' \in Test!Threads
            \/ /\ next_i' = 0 /\ at' = after
               /\ \A t \in Test!Threads : t <= next_i
<1>1. next_i \in Nat /\ next_i < Workers
  BY ThreadsAreNumbers DEF TestTypeOK
<1>2. CASE next_i + 1 < Workers
  BY <1>1, <1>2, ThreadsAreNumbers DEF Test!Loop
<1>3. CASE ~(next_i + 1 < Workers)
  BY <1>1, <1>3, ThreadsAreNumbers DEF Test!Loop
<1>4. QED
  BY <1>2, <1>3

LEMMA TestCreates ==
  ASSUME TestIInv, Test!main_creates
  PROVE  TestIInv'
<1>1. /\ Test!Loop("create", "test") /\ next_i \in Test!Threads
      /\ thread_index' = [thread_index EXCEPT ![next_i] = -1]
      /\ wpc' = [wpc EXCEPT ![next_i] = "start"]
      /\ UNCHANGED <<waiters, counters, prev_counts>>
  BY DEF Test!main_creates, TestIInv, TestTypeOK
<1>2. /\ at = "create"
      /\ \/ /\ next_i' = next_i + 1 /\ at' = at
            /\ next_i' \in Test!Threads
         \/ next_i' = 0 /\ at' = "test"
  BY <1>1, TestLoop DEF TestIInv
<1>3. /\ wpc'[next_i] = "start" /\ thread_index'[next_i] = -1
      /\ \A t \in Test!Threads \ {next_i} :
           wpc'[t] = wpc[t] /\ thread_index'[t] = thread_index[t]
  BY <1>1 DEF TestIInv, TestTypeOK
<1>4. TestTypeOK'
  BY <1>1, <1>2, ThreadsAreNumbers DEF TestIInv, TestTypeOK
<1>5. wpc[next_i] = "none"
  BY <1>1, <1>2, ThreadsAreNumbers DEF TestIInv, NotCreated
<1>6. Indexed'
  <2>1. \A n \in DOMAIN waiters : waiters[n] \in Test!Threads \ {next_i}
    BY <1>5 DEF TestIInv, TestTypeOK, Indexed
  <2>2. QED
    BY <1>1, <1>3, <2>1 DEF TestIInv, Indexed
<1>7. NotCreated'
  <2>1. \A t \in Test!Threads :
          next_i' = next_i + 1 /\ t >= next_i' => t >= next_i /\ t # next_i
    BY <1>1, ThreadsAreNumbers
  <2>2. QED
    BY <1>2, <1>3, <2>1 DEF TestIInv, NotCreated
<1>8. Joined' /\ (at' \in {"off", "test", "dump"} => next_i' = 0)
  BY <1>2 DEF Joined
<1>9. QED
  BY <1>1, <1>4, <1>6, <1>7, <1>8 DEF TestIInv

LEMMA TestMain ==
  ASSUME TestIInv,
         \/ Test!main \/ Test!main_tests \/ Test!main_reports
         \/ Test!main_cancels \/ Test!main_joins \/ Test!sigint_handler
         \/ UNCHANGED Test!vars
  PROVE  TestIInv'
<1>1. UNCHANGED <<wpc, thread_index, waiters, counters>>
  BY DEF Test!main, Test!main_tests, Test!main_reports, Test!main_cancels,
     Test!main_joins, Test!sigint_handler, Test!vars
<1>2. /\ prev_counts' \in [Test!Threads -> Nat]
      /\ \A t \in Test!Threads : prev_counts'[t] <= counters[t]
  <2>1. CASE UNCHANGED prev_counts
    BY <2>1 DEF TestIInv, TestTypeOK
  <2>2. CASE prev_counts' = [prev_counts EXCEPT ![next_i] = counters[next_i]]
    <3>1. /\ next_i \in Test!Threads /\ counters \in [Test!Threads -> Nat]
          /\ prev_counts \in [Test!Threads -> Nat]
          /\ \A t \in Test!Threads : prev_counts[t] <= counters[t]
      BY DEF TestIInv, TestTypeOK
    <3>2. QED
      BY <2>2, <3>1
  <2>3. QED
    BY <2>1, <2>2 DEF Test!main, Test!main_tests, Test!main_reports,
       Test!main_cancels, Test!main_joins, Test!sigint_handler, Test!vars
<1>3. ASSUME at' \in {"off", "create", "test", "report", "cancel", "join",
                      "dump"},
             next_i' \in Test!Threads, NotCreated', Joined',
             at' \in {"off", "test", "dump"} => next_i' = 0
      PROVE  TestIInv'
  BY <1>1, <1>2, <1>3 DEF TestIInv, TestTypeOK, Indexed
<1>4. CASE UNCHANGED <<at, next_i>>
  BY <1>1, <1>3, <1>4 DEF TestIInv, TestTypeOK, NotCreated, Joined
<1>5. CASE Test!main
  BY <1>1, <1>3, <1>5 DEF Test!main, TestIInv, TestTypeOK, NotCreated, Joined
<1>6. CASE Test!main_tests
  BY <1>1, <1>3, <1>6, ThreadsAreNumbers DEF Test!main_tests, TestIInv,
     TestTypeOK, NotCreated, Joined
<1>7. CASE Test!main_reports
  BY <1>1, <1>3, <1>7, TestLoop, ThreadsAreNumbers DEF Test!main_reports,
     TestIInv, NotCreated, Joined
<1>8. CASE Test!main_cancels
  BY <1>1, <1>3, <1>8, TestLoop, ThreadsAreNumbers DEF Test!main_cancels,
     TestIInv, NotCreated, Joined
<1>9. CASE Test!main_joins
  <2>1. /\ wpc[next_i] = "gone" /\ Test!Loop("join", "dump")
    BY <1>9 DEF Test!main_joins
  <2>2. /\ at = "join"
        /\ \/ /\ next_i' = next_i + 1 /\ at' = at
              /\ next_i' \in Test!Threads
           \/ /\ next_i' = 0 /\ at' = "dump"
              /\ \A t \in Test!Threads : t <= next_i
    BY <2>1, TestLoop DEF TestIInv
  <2>3. next_i \in Nat
    BY ThreadsAreNumbers DEF TestIInv, TestTypeOK
  <2>4. \A t \in Test!Threads : t <= next_i => wpc[t] = "gone"
    BY <2>1, <2>2, <2>3, ThreadsAreNumbers DEF TestIInv, Joined
  <2>5. Joined'
    <3>1. CASE next_i' = next_i + 1 /\ at' = "join"
      BY <1>1, <2>3, <2>4, <3>1, ThreadsAreNumbers DEF Joined
    <3>2. CASE next_i' = 0 /\ at' = "dump" /\ \A t \in Test!Threads :
                                                 t <= next_i
      BY <1>1, <2>4, <3>2 DEF Joined
    <3>3. QED
      BY <2>2, <3>1, <3>2
  <2>6. QED
    BY <1>3, <2>2, <2>5, ThreadsAreNumbers DEF NotCreated
<1>10. QED
  BY <1>4, <1>5, <1>6, <1>7, <1>8, <1>9 DEF Test!sigint_handler, Test!vars

LEMMA TestWorker ==
  ASSUME TestIInv, NEW t \in Test!Threads,
         Test!worker_thread(t) \/ Test!dies(t)
  PROVE  TestIInv'
<1>1. /\ UNCHANGED <<at, next_i, prev_counts>>
      /\ wpc[t] \in {"start", "want", "wait", "count"}
      /\ \A s \in Test!Threads \ {t} : wpc'[s] = wpc[s]
      /\ wpc'[t] \in {"want", "wait", "count", "gone"}
      /\ wpc' \in [Test!Threads -> {"none", "start", "want", "wait", "count",
                                    "gone"}]
  BY DEF Test!worker_thread, Test!worker_starts, Test!worker_waits,
     Test!worker_unlocks, Test!worker_counts, Test!dies, Test!Goes,
     Test!OfMain, TestIInv, TestTypeOK
<1>2. NotCreated' /\ Joined'
  BY <1>1 DEF TestIInv, NotCreated, Joined
<1>3. /\ thread_index' \in [Test!Threads -> Int] /\ thread_index'[t] = t
      /\ \A s \in Test!Threads \ {t} : thread_index'[s] = thread_index[s]
  <2>1. t \in Int /\ thread_index \in [Test!Threads -> Int]
    BY ThreadsAreNumbers DEF TestIInv, TestTypeOK
  <2>2. CASE thread_index' = [thread_index EXCEPT ![t] = t]
    BY <2>1, <2>2
  <2>3. CASE UNCHANGED thread_index /\ wpc[t] # "start"
    <3>1. thread_index[t] = t
      BY <1>1, <2>3 DEF TestIInv, Indexed
    <3>2. QED
      BY <2>1, <2>3, <3>1
  <2>4. QED
    BY <2>2, <2>3 DEF Test!worker_thread, Test!worker_starts,
       Test!worker_waits, Test!worker_unlocks, Test!worker_counts, Test!dies,
       Test!Goes
<1>4. /\ counters' \in [Test!Threads -> Nat]
      /\ \A s \in Test!Threads : prev_counts[s] <= counters'[s]
  <2>1. /\ counters \in [Test!Threads -> Nat]
        /\ prev_counts \in [Test!Threads -> Nat]
        /\ \A s \in Test!Threads : prev_counts[s] <= counters[s]
    BY DEF TestIInv, TestTypeOK
  <2>2. CASE UNCHANGED counters
    BY <2>1, <2>2
  <2>3. CASE counters' = [counters EXCEPT ![t] = @ + 1]
    BY <2>1, <2>3
  <2>4. QED
    BY <2>2, <2>3 DEF Test!worker_thread, Test!worker_starts,
       Test!worker_waits, Test!worker_unlocks, Test!worker_counts, Test!dies
<1>5. /\ waiters' \in Seq(Test!Threads)
      /\ \A n \in DOMAIN waiters' :
           \/ waiters'[n] = t
           \/ \E m \in DOMAIN waiters : waiters'[n] = waiters[m]
  <2>1. waiters \in Seq(Test!Threads)
    BY DEF TestIInv, TestTypeOK
  <2>2. CASE UNCHANGED waiters
    BY <2>1, <2>2
  <2>3. CASE waiters' = Append(waiters, t)
    BY <2>1, <2>3
  <2>4. CASE waiters # <<>> /\ waiters' = Tail(waiters)
    BY <2>1, <2>4
  <2>5. QED
    BY <2>2, <2>3, <2>4 DEF Test!worker_thread, Test!worker_starts,
       Test!worker_waits, Test!worker_unlocks, Test!worker_counts, Test!dies
<1>6. Indexed'
  <2>1. \A s \in Test!Threads :
          wpc[s] \notin {"none", "start"} => wpc'[s] \notin {"none", "start"}
    BY <1>1
  <2>2. \A n \in DOMAIN waiters : /\ waiters[n] \in Test!Threads
                                  /\ wpc[waiters[n]] \notin {"none", "start"}
    BY DEF TestIInv, TestTypeOK, Indexed
  <2>3. \A n \in DOMAIN waiters' : wpc'[waiters'[n]] \notin {"none", "start"}
    BY <1>1, <1>5, <2>1, <2>2
  <2>4. \A s \in Test!Threads : wpc'[s] \notin {"none", "start"}
                                  => thread_index'[s] = s
    BY <1>1, <1>3 DEF TestIInv, Indexed
  <2>5. QED
    BY <2>3, <2>4 DEF Indexed
<1>7. TestTypeOK'
  BY <1>1, <1>3, <1>4, <1>5 DEF TestIInv, TestTypeOK
<1>8. QED
  BY <1>1, <1>2, <1>4, <1>6, <1>7 DEF TestIInv

LEMMA TestNext ==
  ASSUME TestIInv, [Test!Next]_(Test!vars)
  PROVE  TestIInv'
BY TestCreates, TestMain, TestWorker DEF Test!Next, Test!mainThread

LEMMA TestSteps == [Next]_vars => [Test!Next]_(Test!vars)
BY DEF Next, vars, Still, two_points, some_bytes, buffer, mask, array, salary,
   Chosen, testVars, Test!vars

(* main of qspinlock/test.c, with any number of workers: the dump is of a    *)
(* queue nobody changes any more, its links are printed with the indices     *)
(* worker_thread has set, and no difference of counters is negative.         *)
THEOREM DumpsAreOfAStandstill == Spec => []Test!DumpIsOfAStandstill
<1>1. Init => TestIInv
  BY ThreadsAreNumbers DEF Init, Test!Init, TestIInv, TestTypeOK, NotCreated,
     Joined, Indexed
<1>2. TestIInv /\ [Next]_vars => TestIInv'
  BY TestNext, TestSteps
<1>3. TestIInv => Test!DumpIsOfAStandstill
  BY DEF TestIInv, TestTypeOK, Joined, Indexed, Test!DumpIsOfAStandstill
<1>4. QED
  BY <1>1, <1>2, <1>3, PTL DEF Spec

-----------------------------------------------------------------------------
(* pipe.c, signal-sync.c and shm.c                                           *)

Chars == {"a", "A", "Z", Sync!Newline, "?"}

(* pipe.c: the character the parent is at.                                   *)
Position == Len(echoed) + 1

AtPosition == Position <= taken => char.parent = line[Position]

(* Its answer is in the second pipe, or the child has still to write it, or  *)
(* never will.                                                               *)
AnswerIsOnItsWay ==
  /\ AtPosition
  /\ \/ /\ c2p = <<Sync!Capital(char.parent)>>
        /\ child = "gone" \/ (child = "read" /\ p2c = <<>>)
     \/ c2p = <<>> /\ child = "gone"
     \/ c2p = <<>> /\ child = "read" /\ p2c = <<char.parent>>
     \/ /\ c2p = <<>> /\ child = "echo" /\ p2c = <<>>
        /\ char.child = Sync!Capital(char.parent)

EchoesSoFar ==
  \A n \in DOMAIN echoed : n <= taken =>
    \/ echoed[n] = Sync!Capital(line[n])
    \/ child = "gone" /\ echoed[n] = line[n]

PipeTypeOK ==
  /\ line \in Seq(Chars) /\ taken \in 0..Len(line)
  /\ char \in [parent : Chars, child : Chars]
  /\ p2c \in Seq(Chars) /\ c2p \in Seq(Chars) /\ echoed \in Seq(Chars)

PipeInv ==
  /\ PipeTypeOK
  /\ EchoesSoFar
  /\ parent \in {"stdin", "write", "answer", "wait", "end", "gone"}
  /\ child \in {"read", "echo", "gone"}
  /\ parent = "stdin" =>
       /\ c2p = <<>> /\ (child = "gone" \/ (child = "read" /\ p2c = <<>>))
       /\ taken <= Len(echoed) /\ (taken < Len(line) => taken = Len(echoed))
  /\ parent = "write" =>
       /\ c2p = <<>> /\ (child = "gone" \/ (child = "read" /\ p2c = <<>>))
       /\ AtPosition
  /\ parent \in {"write", "answer"} =>
       taken <= Position /\ (taken < Len(line) => taken = Position)
  /\ parent = "answer" => AnswerIsOnItsWay

(* signal-sync.c: what has been printed and what is pending in each round.   *)
BothRan == {ran[1], ran[2]} = {"parent", "child"}

FirstRound ==
  \/ parent = "kill" /\ child = "suspend" /\ pending = {} /\ ran = <<>>
  \/ /\ parent = "print" /\ child = "suspend" /\ pending = {"child"}
     /\ ran = <<>>
  \/ parent = "print" /\ child = "gone" /\ pending = {} /\ ran = <<"child">>
  \/ /\ parent = "wait" /\ child = "suspend" /\ pending = {"child"}
     /\ ran = <<"parent">>
  \/ /\ parent = "wait" /\ child = "gone" /\ pending = {}
     /\ Len(ran) = 2 /\ BothRan

SecondRound ==
  /\ parent \in {"suspend", "end"} /\ child \in {"kill", "print", "gone"}
  /\ child = "kill" => parent = "suspend" /\ pending = {}
  /\ Len(ran) >= 2 /\ BothRan

(* shm.c: who fills the segment and with what it is full.                    *)
ShmInv ==
  \/ parent = "fill" /\ child = "off"
  \/ parent = "wait" /\ child \in {"open", "check"} /\ Sync!Full("A")
  \/ parent = "wait" /\ child = "fill"
  \/ parent \in {"wait", "end"} /\ child = "gone" /\ Sync!Full("B")
  \/ parent \in {"wait", "end", "aborted"} /\ child = "aborted"

SyncIInv ==
  /\ exercise \in {"none", "pipe", "signal", "shm"}
  /\ ran \in Seq({"parent", "child"})
  /\ exercise \in {"none", "signal", "shm"} => taken = 0 /\ echoed = <<>>
  /\ exercise = "none" => /\ parent = "off" /\ child = "off"
                          /\ char = [parent |-> "?", child |-> "?"]
                          /\ p2c = <<>> /\ c2p = <<>>
  /\ exercise # "signal" => ran = <<>> /\ pending = {}
  /\ exercise = "pipe" => PipeInv
  /\ exercise = "signal" => FirstRound \/ SecondRound
  /\ exercise = "shm" => ShmInv

LEMMA CapitalChars == \A ch \in Chars : Sync!Capital(ch) \in Chars
BY DEF Chars, Sync!Capital, Sync!Newline

LEMMA SyncMain ==
  ASSUME SyncIInv, Sync!pipe_main \/ Sync!signal_main \/ Sync!shm_main
  PROVE  SyncIInv'
<1>1. /\ exercise = "none" /\ taken = 0 /\ echoed = <<>> /\ pending = {}
      /\ ran = <<>> /\ child = "off"
      /\ char = [parent |-> "?", child |-> "?"] /\ p2c = <<>> /\ c2p = <<>>
  BY DEF SyncIInv, Sync!pipe_main, Sync!signal_main, Sync!shm_main
<1>2. CASE Sync!pipe_main
  <2>1. PICK n \in 0..MaxTyped : \E text \in [1..n -> {"a", "Z"}] :
                                 line' \in {text, Append(text, Sync!Newline)}
    BY <1>2 DEF Sync!pipe_main
  <2>2. PICK text \in [1..n -> {"a", "Z"}] :
               line' \in {text, Append(text, Sync!Newline)}
    BY <2>1
  <2>3. text \in Seq(Chars) /\ Sync!Newline \in Chars
    BY SyncAssumption DEF Chars
  <2>4. line' \in Seq(Chars)
    BY <2>2, <2>3
  <2>5. /\ char' \in [parent : Chars, child : Chars]
        /\ exercise' = "pipe" /\ parent' = "stdin" /\ child' = "read"
        /\ UNCHANGED <<taken, p2c, c2p, echoed, pending, ran>>
    BY <1>1, <1>2 DEF Sync!pipe_main, Chars
  <2>6. PipeTypeOK'
    BY <1>1, <2>4, <2>5 DEF PipeTypeOK
  <2>7. PipeInv'
    BY <1>1, <2>5, <2>6 DEF PipeInv, EchoesSoFar
  <2>8. QED
    BY <1>1, <2>5, <2>7 DEF SyncIInv
<1>3. CASE Sync!signal_main
  BY <1>1, <1>3 DEF Sync!signal_main, Sync!pipeVars, SyncIInv, FirstRound
<1>4. CASE Sync!shm_main
  BY <1>1, <1>4 DEF Sync!shm_main, Sync!pipeVars, SyncIInv, ShmInv
<1>5. QED
  BY <1>2, <1>3, <1>4

(* What a step of pipe.c has to show.                                        *)
LEMMA PipeStep ==
  ASSUME SyncIInv, Sync!InPipe, PipeInv'
  PROVE  SyncIInv'
BY DEF Sync!InPipe, SyncIInv

LEMMA PipeReads ==
  ASSUME SyncIInv, Sync!parent_reads
  PROVE  SyncIInv'
<1>1. /\ Sync!InPipe /\ exercise = "pipe" /\ PipeInv /\ PipeTypeOK
      /\ parent = "stdin" /\ UNCHANGED <<child, line, p2c, c2p, echoed>>
      /\ parent' \in {"wait", "write"}
      /\ c2p = <<>> /\ (child = "gone" \/ (child = "read" /\ p2c = <<>>))
      /\ Len(line) \in Nat /\ Len(echoed) \in Nat /\ taken \in Nat
      /\ taken <= Len(line) /\ taken <= Len(echoed)
      /\ taken < Len(line) => taken = Len(echoed)
  BY DEF Sync!parent_reads, Sync!InPipe, Sync!Parent, SyncIInv, PipeInv,
     PipeTypeOK
<1>2. /\ taken' \in 0..Len(line) /\ taken <= taken' /\ taken' <= Len(echoed) + 1
      /\ taken' < Len(line) => taken' = Len(echoed) + 1
      /\ taken' = Len(echoed) + 1 => char'.parent = line[taken']
      /\ char' \in [parent : Chars, child : Chars]
      /\ taken' # taken => taken = Len(echoed)
  <2>1. CASE taken < Len(line)
    <3>1. taken' = taken + 1
          /\ char' = [char EXCEPT !.parent = line[taken + 1]]
      BY <2>1 DEF Sync!parent_reads
    <3>2. line[taken + 1] \in Chars
      BY <1>1, <2>1 DEF PipeTypeOK
    <3>3. /\ char' \in [parent : Chars, child : Chars]
          /\ char'.parent = line[taken + 1]
      BY <1>1, <3>1, <3>2 DEF PipeTypeOK
    <3>4. QED
      BY <1>1, <2>1, <3>1, <3>3
  <2>2. CASE ~(taken < Len(line))
    BY <1>1, <2>2 DEF Sync!parent_reads, PipeTypeOK
  <2>3. QED
    BY <2>1, <2>2
<1>3. EchoesSoFar'
  BY <1>1, <1>2 DEF PipeInv, PipeTypeOK, EchoesSoFar
<1>4. AtPosition'
  BY <1>1, <1>2 DEF AtPosition, Position
<1>5. PipeTypeOK'
  BY <1>1, <1>2 DEF PipeTypeOK
<1>6. PipeInv'
  BY <1>1, <1>2, <1>3, <1>4, <1>5 DEF PipeInv, Position
<1>7. QED
  BY <1>1, <1>6, PipeStep

LEMMA PipeWrites ==
  ASSUME SyncIInv, Sync!parent_writes
  PROVE  SyncIInv'
<1>1. /\ Sync!InPipe /\ exercise = "pipe" /\ PipeInv /\ PipeTypeOK
      /\ parent = "write" /\ parent' = "answer"
      /\ UNCHANGED <<child, line, taken, char, c2p, echoed>>
      /\ p2c' = IF child = "gone" THEN p2c ELSE Append(p2c, char.parent)
      /\ c2p = <<>> /\ (child = "gone" \/ (child = "read" /\ p2c = <<>>))
      /\ AtPosition
  BY DEF Sync!parent_writes, Sync!InPipe, Sync!Parent, SyncIInv, PipeInv
<1>2. p2c' \in Seq(Chars) /\ char.parent \in Chars
  BY <1>1 DEF PipeTypeOK
<1>3. child # "gone" => p2c' = <<char.parent>>
  <2>1. Append(<<>>, char.parent) = <<char.parent>>
    OBVIOUS
  <2>2. QED
    BY <1>1, <2>1
<1>4. AnswerIsOnItsWay'
  BY <1>1, <1>3 DEF AnswerIsOnItsWay, AtPosition, Position
<1>5. PipeTypeOK' /\ EchoesSoFar'
  BY <1>1, <1>2 DEF PipeTypeOK, PipeInv, EchoesSoFar
<1>6. PipeInv'
  BY <1>1, <1>4, <1>5 DEF PipeInv, Position
<1>7. QED
  BY <1>1, <1>6, PipeStep

LEMMA PipeEchoes ==
  ASSUME SyncIInv, Sync!parent_echoes
  PROVE  SyncIInv'
<1>1. /\ Sync!InPipe /\ exercise = "pipe" /\ PipeInv /\ PipeTypeOK
      /\ parent = "answer" /\ parent' = "stdin"
      /\ UNCHANGED <<child, line, taken, p2c>>
      /\ echoed' = Append(echoed, char'.parent)
      /\ AnswerIsOnItsWay /\ EchoesSoFar
      /\ c2p # <<>> \/ child = "gone"
      /\ Len(echoed) \in Nat /\ taken \in Nat /\ Len(line) \in Nat
      /\ taken <= Position /\ (taken < Len(line) => taken = Position)
  BY DEF Sync!parent_echoes, Sync!InPipe, Sync!Parent, SyncIInv, PipeInv,
     PipeTypeOK
<1>2. /\ c2p' = <<>> /\ (child = "gone" \/ (child = "read" /\ p2c = <<>>))
      /\ \/ char'.parent = Sync!Capital(char.parent)
         \/ child = "gone" /\ char'.parent = char.parent
      /\ char' \in [parent : Chars, child : Chars]
  <2>1. CASE c2p # <<>>
    <3>1. /\ c2p = <<Sync!Capital(char.parent)>>
          /\ child = "gone" \/ (child = "read" /\ p2c = <<>>)
      BY <1>1, <2>1 DEF AnswerIsOnItsWay
    <3>2. /\ char' = [char EXCEPT !.parent = Head(c2p)] /\ c2p' = Tail(c2p)
      BY <2>1 DEF Sync!parent_echoes
    <3>3. /\ char \in [parent : Chars, child : Chars]
          /\ Sync!Capital(char.parent) \in Chars
      BY <1>1, CapitalChars DEF PipeTypeOK
    <3>4. Head(c2p) = Sync!Capital(char.parent) /\ Tail(c2p) = <<>>
      BY <3>1
    <3>5. QED
      BY <3>1, <3>2, <3>3, <3>4
  <2>2. CASE c2p = <<>>
    BY <1>1, <2>2 DEF Sync!parent_echoes, PipeTypeOK
  <2>3. QED
    BY <2>1, <2>2
<1>3. /\ echoed' \in Seq(Chars) /\ Len(echoed') = Position
      /\ echoed'[Position] = char'.parent
      /\ \A n \in DOMAIN echoed : echoed'[n] = echoed[n]
      /\ \A n \in DOMAIN echoed' : n \in DOMAIN echoed \/ n = Position
  BY <1>1, <1>2 DEF PipeTypeOK, Position
<1>4. Position <= taken => char.parent = line[Position]
  BY <1>1 DEF AnswerIsOnItsWay, AtPosition
<1>5. EchoesSoFar'
  BY <1>1, <1>2, <1>3, <1>4 DEF EchoesSoFar
<1>6. PipeTypeOK'
  BY <1>1, <1>2, <1>3 DEF PipeTypeOK
<1>7. PipeInv'
  BY <1>1, <1>2, <1>3, <1>5, <1>6 DEF PipeInv
<1>8. QED
  BY <1>1, <1>7, PipeStep

LEMMA PipeChild ==
  ASSUME SyncIInv, Sync!child_reads \/ Sync!child_echoes
  PROVE  SyncIInv'
<1>1. /\ Sync!InPipe /\ exercise = "pipe" /\ PipeInv /\ PipeTypeOK
      /\ UNCHANGED <<parent, line, taken, echoed>>
      /\ child # "gone" /\ char'.parent = char.parent
  BY DEF Sync!child_reads, Sync!child_echoes, Sync!InPipe, Sync!Child,
     SyncIInv, PipeInv, PipeTypeOK
<1>2. EchoesSoFar'
  BY <1>1 DEF PipeInv, EchoesSoFar
<1>3. CASE Sync!ParentClosed
  <2>1. /\ p2c' \in Seq(Chars) /\ c2p' \in Seq(Chars)
        /\ char' \in [parent : Chars, child : Chars]
        /\ child' \in {"read", "echo", "gone"}
    <3>1. CASE p2c # <<>> /\ Sync!child_reads
      <4>1. Head(p2c) \in Chars /\ Tail(p2c) \in Seq(Chars)
        BY <1>1, <3>1 DEF PipeTypeOK
      <4>2. Sync!Capital(Head(p2c)) \in Chars
        BY <4>1, CapitalChars
      <4>3. QED
        BY <1>1, <3>1, <4>1, <4>2 DEF Sync!child_reads, Sync!Child, PipeTypeOK
    <3>2. CASE p2c = <<>> \/ Sync!child_echoes
      BY <1>1, <1>3, <3>2 DEF Sync!child_reads, Sync!child_echoes, Sync!Child,
         PipeTypeOK
    <3>3. QED
      BY <3>1, <3>2
  <2>2. PipeTypeOK'
    BY <1>1, <2>1 DEF PipeTypeOK
  <2>3. PipeInv'
    BY <1>1, <1>2, <1>3, <2>1, <2>2 DEF PipeInv, Sync!ParentClosed
  <2>4. QED
    BY <1>1, <2>3, PipeStep
<1>4. CASE ~Sync!ParentClosed
  <2>1. /\ parent = "answer" /\ AnswerIsOnItsWay
        /\ char \in [parent : Chars, child : Chars]
        /\ Sync!Capital(char.parent) \in Chars
    BY <1>1, <1>4, CapitalChars DEF PipeInv, PipeTypeOK, Sync!ParentClosed,
       Sync!child_reads, Sync!child_echoes, Sync!Child
  <2>2. CASE Sync!child_reads
    <3>1. /\ p2c # <<>> /\ child = "read" /\ child' = "echo"
          /\ char' = [char EXCEPT !.child = Sync!Capital(Head(p2c))]
          /\ p2c' = Tail(p2c) /\ UNCHANGED c2p
      BY <1>4, <2>2 DEF Sync!child_reads, Sync!Child
    <3>2. c2p = <<>> /\ p2c = <<char.parent>>
      BY <2>1, <3>1 DEF AnswerIsOnItsWay
    <3>3. Head(p2c) = char.parent /\ Tail(p2c) = <<>>
      BY <3>2
    <3>4. /\ char' \in [parent : Chars, child : Chars]
          /\ char'.child = Sync!Capital(char.parent)
          /\ p2c' = <<>>
      BY <2>1, <3>1, <3>3
    <3>5. AnswerIsOnItsWay'
      BY <1>1, <2>1, <3>1, <3>2, <3>4 DEF AnswerIsOnItsWay, AtPosition,
         Position
    <3>6. PipeTypeOK'
      BY <1>1, <3>1, <3>4 DEF PipeTypeOK
    <3>7. PipeInv'
      BY <1>1, <1>2, <2>1, <3>1, <3>5, <3>6 DEF PipeInv, Position
    <3>8. QED
      BY <1>1, <3>7, PipeStep
  <2>3. CASE Sync!child_echoes
    <3>1. /\ child = "echo" /\ child' = "read"
          /\ c2p' = Append(c2p, char.child)
          /\ UNCHANGED <<char, p2c>>
      BY <1>4, <2>3 DEF Sync!child_echoes, Sync!Child
    <3>2. /\ c2p = <<>> /\ p2c = <<>>
          /\ char.child = Sync!Capital(char.parent)
      BY <2>1, <3>1 DEF AnswerIsOnItsWay
    <3>3. c2p' = <<Sync!Capital(char.parent)>> /\ c2p' \in Seq(Chars)
      BY <2>1, <3>1, <3>2
    <3>4. AnswerIsOnItsWay'
      BY <1>1, <2>1, <3>1, <3>2, <3>3 DEF AnswerIsOnItsWay, AtPosition,
         Position
    <3>5. PipeTypeOK'
      BY <1>1, <3>1, <3>3 DEF PipeTypeOK
    <3>6. PipeInv'
      BY <1>1, <1>2, <2>1, <3>1, <3>4, <3>5 DEF PipeInv, Position
    <3>7. QED
      BY <1>1, <3>6, PipeStep
  <2>4. QED
    BY <2>2, <2>3
<1>5. QED
  BY <1>3, <1>4

LEMMA PipeEnds ==
  ASSUME SyncIInv, Sync!parent_waits \/ Sync!kills
  PROVE  SyncIInv'
<1>1. /\ Sync!InPipe /\ exercise = "pipe" /\ PipeInv
      /\ UNCHANGED <<line, taken, char, p2c, c2p, echoed>>
      /\ \/ parent' \in {"end", "gone"} /\ UNCHANGED child
         \/ child' = "gone" /\ UNCHANGED parent
  BY DEF Sync!parent_waits, Sync!kills, Sync!InPipe, Sync!Parent,
     Sync!pipeVars, SyncIInv
<1>2. PipeTypeOK' /\ EchoesSoFar'
  BY <1>1 DEF PipeInv, PipeTypeOK, EchoesSoFar
<1>3. AnswerIsOnItsWay /\ UNCHANGED parent => AnswerIsOnItsWay'
  BY <1>1 DEF AnswerIsOnItsWay, AtPosition, Position
<1>4. PipeInv'
  BY <1>1, <1>2, <1>3 DEF PipeInv, AtPosition, Position
<1>5. QED
  BY <1>1, <1>4, PipeStep

(* Whoever runs appends to what has run.                                     *)
LEMMA SignalRuns ==
  ASSUME NEW who \in {"parent", "child"}, ran \in Seq({"parent", "child"}),
         ran' = Append(ran, who)
  PROVE  /\ ran' \in Seq({"parent", "child"})
         /\ ran = <<>> => ran' = <<who>>
         /\ \A x : ran = <<x>> =>
              Len(ran') = 2 /\ ran'[1] = x /\ ran'[2] = who
         /\ Len(ran) >= 2 /\ BothRan => Len(ran') >= 2 /\ BothRan'
<1>1. /\ ran' \in Seq({"parent", "child"}) /\ Len(ran) \in Nat
      /\ Len(ran') = Len(ran) + 1 /\ ran'[Len(ran) + 1] = who
      /\ \A n \in 1..Len(ran) : ran'[n] = ran[n]
  OBVIOUS
<1>2. ran = <<>> => ran' = <<who>>
  <2>1. Append(<<>>, who) = <<who>>
    OBVIOUS
  <2>2. QED
    BY <2>1
<1>3. ASSUME NEW x, ran = <<x>>
      PROVE  Len(ran') = 2 /\ ran'[1] = x /\ ran'[2] = who
  <2>1. Len(ran) = 1 /\ ran[1] = x
    BY <1>3
  <2>2. QED
    BY <1>1, <2>1
<1>4. ASSUME Len(ran) >= 2, BothRan
      PROVE  Len(ran') >= 2 /\ BothRan'
  <2>1. ran'[1] = ran[1] /\ ran'[2] = ran[2]
    BY <1>1, <1>4
  <2>2. QED
    BY <1>1, <1>4, <2>1 DEF BothRan
<1>5. QED
  BY <1>1, <1>2, <1>3, <1>4

LEMMA SignalSteps ==
  ASSUME SyncIInv,
         \/ Sync!parent_kills \/ Sync!parent_prints \/ Sync!parent_forks
         \/ Sync!parent_runs \/ Sync!child_runs \/ Sync!child_kills
         \/ Sync!child_prints
  PROVE  SyncIInv'
<1>1. /\ Sync!InSignal /\ exercise = "signal"
      /\ ran \in Seq({"parent", "child"})
      /\ FirstRound \/ SecondRound
  BY DEF Sync!parent_kills, Sync!parent_prints, Sync!parent_forks,
     Sync!parent_runs, Sync!child_runs, Sync!child_kills, Sync!child_prints,
     Sync!InSignal, SyncIInv
<1>2. SUFFICES /\ ran' \in Seq({"parent", "child"})
               /\ FirstRound' \/ SecondRound'
  BY <1>1 DEF Sync!InSignal, Sync!pipeVars, SyncIInv
<1>3. CASE Sync!parent_kills \/ Sync!child_kills \/ Sync!parent_forks
  <2>1. UNCHANGED ran /\ (BothRan => BothRan')
    BY <1>3 DEF Sync!parent_kills, Sync!child_kills, Sync!parent_forks, BothRan
  <2>2. CASE Sync!parent_kills
    <3>1. /\ parent = "kill" /\ parent' = "print" /\ UNCHANGED child
          /\ pending' = pending \cup {"child"}
      BY <2>2 DEF Sync!parent_kills, Sync!Parent
    <3>2. child = "suspend" /\ pending = {} /\ ran = <<>>
      BY <1>1, <3>1 DEF FirstRound, SecondRound
    <3>3. FirstRound'
      BY <2>1, <3>1, <3>2 DEF FirstRound
    <3>4. QED
      BY <1>1, <2>1, <3>3
  <2>3. CASE Sync!child_kills
    <3>1. child = "kill" /\ child' = "print" /\ UNCHANGED parent
      BY <2>3 DEF Sync!child_kills, Sync!Child
    <3>2. SecondRound
      BY <1>1, <3>1 DEF FirstRound
    <3>3. SecondRound'
      BY <2>1, <3>1, <3>2 DEF SecondRound
    <3>4. QED
      BY <1>1, <2>1, <3>3
  <2>4. CASE Sync!parent_forks
    <3>1. /\ parent = "wait" /\ child = "gone" /\ UNCHANGED pending
          /\ parent' = "suspend" /\ child' = "kill"
      BY <2>4 DEF Sync!parent_forks
    <3>2. pending = {} /\ Len(ran) = 2 /\ BothRan
      BY <1>1, <3>1 DEF FirstRound, SecondRound
    <3>3. SecondRound'
      BY <2>1, <3>1, <3>2 DEF SecondRound
    <3>4. QED
      BY <1>1, <2>1, <3>3
  <2>5. QED
    BY <1>3, <2>2, <2>3, <2>4
<1>4. CASE Sync!parent_prints
  <2>1. /\ parent = "print" /\ parent' = "wait"
        /\ UNCHANGED <<child, pending>> /\ ran' = Append(ran, "parent")
    BY <1>4 DEF Sync!parent_prints, Sync!Parent
  <2>2. FirstRound
    BY <1>1, <2>1 DEF SecondRound
  <2>3. QED
    BY <1>1, <2>1, <2>2, SignalRuns DEF FirstRound, BothRan
<1>5. CASE Sync!child_runs
  <2>1. /\ child = "suspend" /\ child' = "gone" /\ UNCHANGED parent
        /\ pending' = pending \ {"child"} /\ ran' = Append(ran, "child")
        /\ "child" \in pending
    BY <1>5 DEF Sync!child_runs, Sync!Child
  <2>2. FirstRound
    BY <1>1, <2>1 DEF SecondRound
  <2>3. QED
    BY <1>1, <2>1, <2>2, SignalRuns DEF FirstRound, BothRan
<1>6. CASE Sync!child_prints
  <2>1. /\ child = "print" /\ child' = "gone"
        /\ UNCHANGED <<parent, pending>> /\ ran' = Append(ran, "child")
    BY <1>6 DEF Sync!child_prints, Sync!Child
  <2>2. SecondRound
    BY <1>1, <2>1 DEF FirstRound
  <2>3. QED
    BY <1>1, <2>1, <2>2, SignalRuns DEF SecondRound
<1>7. CASE Sync!parent_runs
  <2>1. /\ parent = "suspend" /\ parent' = "end" /\ UNCHANGED child
        /\ ran' = Append(ran, "parent") /\ "parent" \in pending
    BY <1>7 DEF Sync!parent_runs, Sync!Parent
  <2>2. SecondRound
    BY <1>1, <2>1 DEF FirstRound
  <2>3. QED
    BY <1>1, <2>1, <2>2, SignalRuns DEF SecondRound
<1>8. QED
  BY <1>3, <1>4, <1>5, <1>6, <1>7

LEMMA ShmSteps ==
  ASSUME SyncIInv,
         \/ Sync!parent_fills \/ Sync!child_opens \/ Sync!child_checks
         \/ Sync!child_fills \/ Sync!parent_checks
  PROVE  SyncIInv'
<1>1. Sync!InShm /\ exercise = "shm" /\ ShmInv
  BY DEF Sync!parent_fills, Sync!child_opens, Sync!child_checks,
     Sync!child_fills, Sync!parent_checks, Sync!InShm, SyncIInv
<1>2. \A ch : UNCHANGED cells => Sync!Full(ch)' = Sync!Full(ch)
  BY DEF Sync!Full
<1>3. ShmInv'
  BY <1>1, <1>2 DEF Sync!parent_fills, Sync!child_opens, Sync!child_checks,
     Sync!child_fills, Sync!parent_checks, Sync!Parent, Sync!Child, ShmInv
<1>4. QED
  BY <1>1, <1>3 DEF Sync!InShm, Sync!pipeVars, SyncIInv

LEMMA SyncNext ==
  ASSUME SyncIInv, [Sync!Next]_(Sync!vars)
  PROVE  SyncIInv'
<1>1. CASE UNCHANGED Sync!vars
  BY <1>1 DEF Sync!vars, Sync!pipeVars, SyncIInv, PipeInv, PipeTypeOK,
     EchoesSoFar, AtPosition, Position, AnswerIsOnItsWay, FirstRound,
     SecondRound, BothRan, ShmInv, Sync!Full
<1>2. QED
  BY <1>1, SyncMain, PipeReads, PipeWrites, PipeEchoes, PipeChild, PipeEnds,
     SignalSteps, ShmSteps DEF Sync!Next, Sync!parentStep, Sync!childStep

LEMMA SyncSteps == [Next]_vars => [Sync!Next]_(Sync!vars)
BY DEF Next, vars, Still, two_points, some_bytes, buffer, mask, array, salary,
   Chosen, syncVars, Sync!vars, Sync!pipeVars

(* pipe.c gives every character back once and in order, signal-sync.c lets   *)
(* nobody run before its signal, and shm.c's child finds what its parent     *)
(* wrote: for any line, any bound and any size of the segment.               *)
THEOREM ParentsAndChildrenTakeTurns == Spec => []Sync!ProcessesTakeTurns
<1>1. Init => SyncIInv
  BY DEF Init, Sync!Init, SyncIInv
<1>2. SyncIInv /\ [Next]_vars => SyncIInv'
  BY SyncNext, SyncSteps
<1>3. SyncIInv => Sync!ProcessesTakeTurns
  <2>1. SUFFICES ASSUME SyncIInv PROVE Sync!ProcessesTakeTurns
    OBVIOUS
  <2>2. EchoesSoFar
    BY <2>1 DEF SyncIInv, PipeInv, EchoesSoFar
  <2>3. Len(ran) >= 3 => BothRan
    <3>1. CASE exercise = "signal"
      <4>1. FirstRound \/ SecondRound
        BY <2>1, <3>1 DEF SyncIInv
      <4>2. Len(<<>>) = 0 /\ Len(<<"child">>) = 1 /\ Len(<<"parent">>) = 1
        OBVIOUS
      <4>3. QED
        BY <4>1, <4>2 DEF FirstRound, SecondRound
    <3>2. CASE exercise # "signal"
      BY <2>1, <3>2 DEF SyncIInv
    <3>3. QED
      BY <3>1, <3>2
  <2>4. /\ ~(exercise = "signal" /\ parent = "kill" /\ child = "gone")
        /\ ~(exercise = "signal" /\ parent = "end" /\ child = "kill")
        /\ child # "wrong" /\ (parent = "aborted" => child = "aborted")
    BY <2>1 DEF SyncIInv, PipeInv, FirstRound, SecondRound, ShmInv
  <2>5. QED
    BY <2>2, <2>3, <2>4 DEF Sync!ProcessesTakeTurns, EchoesSoFar, BothRan
<1>4. QED
  BY <1>1, <1>2, <1>3, PTL DEF Spec

-----------------------------------------------------------------------------
(* mydd.cc                                                                   *)

Threads == 0..depth - 1
Quota == BlockCount \div depth

(* The writes each thread of dio and files has made.                         *)
Done(t) == Quota - left[t]

(* Where a thread's k-th write goes: the file and the offset.                *)
Base(t) == IF mode = "dio" THEN Dd!Share(t) ELSE 0
Place(t, k) == <<IF mode = "dio" THEN 0 ELSE t, Base(t) + k * BlockSize>>

WrittenSoFar ==
  \A w : w \in written <=>
    \E t \in Threads, k \in 0..Quota - 1 : k < Done(t) /\ w = Place(t, k)

ThreadsInv ==
  /\ left \in [Threads -> 0..Quota]
  /\ offset \in [Threads -> Nat]
  /\ \A t \in Threads : offset[t] = Base(t) + Done(t) * BlockSize
  /\ WrittenSoFar
  /\ mdpc = "done" => \A t \in Threads : left[t] = 0

(* evaluate_aio: while nothing has come back the offset stays that of block  *)
(* 0; afterwards there is one submit for each that does, so the blocks that  *)
(* are written or in flight end depth before the number of submits.          *)
SubmitsSoFar == sentBlocks + Dd!Pending

Submitted ==
  IF SubmitsSoFar = 0 THEN {} ELSE {0} \cup 1..SubmitsSoFar - depth

AioInv ==
  /\ IsFiniteSet(inFlight)
  /\ sentBlocks \in 0..BlockCount
  /\ \A io \in inFlight : io[1] \in Nat /\ io[1] < SubmitsSoFar
  /\ Dd!Pending <= depth /\ SubmitsSoFar <= BlockCount
  /\ sentBlocks = 0 \/ Dd!Pending >= depth - 1 \/ SubmitsSoFar = BlockCount
  /\ \A w : (w \in written \/ \E io \in inFlight : w = <<0, io[2]>>) <=>
       \E n \in Submitted : w = <<0, Dd!AioOffset(n)>>
  /\ mdpc = "done" => sentBlocks = BlockCount

DdIInv ==
  /\ mode \in {"none", "usage", "dio", "aio", "files"}
  /\ mdpc \in {"args", "open", "run", "done", "failed"}
  /\ mdpc = "args" <=> mode = "none"
  /\ mode = "usage" => mdpc = "failed"
  /\ mdpc # "args" => depth \in Nat \ {0}
  /\ mdpc \in {"args", "open"} =>
       /\ left = <<>> /\ inFlight = {} /\ sentBlocks = 0 /\ written = {}
  /\ mode = "usage" => left = <<>>
  /\ mdpc \in {"run", "done", "failed"} =>
       /\ mode \in {"dio", "files"} => ThreadsInv
       /\ mode = "aio" => AioInv /\ left = <<>>

(* The cardinality Mydd takes from FiniteSets.                               *)
LEMMA DdSizes == \A S : Dd!Cardinality(S) = Cardinality(S)
BY DEF Dd!Cardinality, Cardinality

(* \div and % are division with a remainder.                                 *)
LEMMA DivMod ==
  \A a, b \in Nat : b > 0 =>
    /\ a \div b \in Nat /\ a % b \in 0..b - 1
    /\ a = b * (a \div b) + (a % b)
OBVIOUS

LEMMA Quotients ==
  ASSUME NEW b \in Nat, b > 0, NEW q \in Nat, NEW r \in 0..b - 1
  PROVE  (q * b + r) \div b = q /\ (q * b + r) % b = r
OBVIOUS

LEMMA Products ==
  ASSUME NEW a \in Nat, NEW b \in Nat, NEW k \in Nat, a <= b
  PROVE  k * a <= k * b /\ a * k <= b * k
OBVIOUS

(* A thread's writes fit into its share of the bytes.                        *)
LEMMA QuotaFits ==
  ASSUME depth \in Nat \ {0}
  PROVE  /\ (BlockCount * BlockSize) \div depth \in Nat
         /\ Quota * BlockSize <= (BlockCount * BlockSize) \div depth
BY DivMod, MyddAssumption DEF Quota

LEMMA DdMain ==
  ASSUME DdIInv,
         NEW m \in {"usage", "dio", "aio", "files"}, NEW n \in 0..MaxDepth,
         Dd!main(m, n)
  PROVE  DdIInv'
<1>1. depth' \in Nat \ {0}
  <2>1. depth' = IF n <= 0 THEN 1 ELSE n
    BY DEF Dd!main
  <2>2. QED
    BY <2>1, MyddAssumption
<1>2. QED
  BY <1>1 DEF Dd!main, DdIInv

LEMMA DdOpened ==
  ASSUME DdIInv, Dd!opened
  PROVE  DdIInv'
<1>1. /\ mdpc' = "run" /\ depth \in Nat \ {0}
      /\ mode \in {"dio", "aio", "files"}
      /\ inFlight = {} /\ sentBlocks = 0 /\ written = {}
      /\ UNCHANGED <<mode, depth, inFlight, sentBlocks, written>>
  BY DEF Dd!opened, DdIInv
<1>2. Quota \in Nat /\ Quota' = Quota /\ Threads' = Threads
  BY <1>1, DivMod, MyddAssumption DEF Quota, Threads
<1>3. CASE mode \in {"dio", "files"}
  <2>1. /\ left' = [t \in Threads |-> Quota]
        /\ offset' = [t \in Threads |-> Base(t)]
    BY <1>3, <1>1 DEF Dd!opened, Threads, Quota, Base
  <2>2. \A t \in Threads : Done(t)' = 0 /\ Base(t) \in Nat /\ Base(t)' = Base(t)
    BY <1>1, <1>2, <2>1, QuotaFits DEF Done, Threads, Base, Dd!Share
  <2>3. /\ left' \in [Threads -> 0..Quota] /\ offset' \in [Threads -> Nat]
        /\ \A t \in Threads : offset'[t] = Base(t) + 0 * BlockSize
    BY <1>2, <2>1, <2>2, MyddAssumption
  <2>4. ThreadsInv'
    <3>1. WrittenSoFar'
      BY <1>1, <1>2, <2>2 DEF WrittenSoFar
    <3>2. QED
      BY <1>1, <1>2, <2>2, <2>3, <3>1 DEF ThreadsInv
  <2>5. QED
    BY <1>1, <1>3, <2>4 DEF DdIInv
<1>4. CASE mode = "aio"
  <2>1. left' = <<>>
    BY <1>1, <1>4 DEF Dd!opened
  <2>2. Cardinality({}) = 0 /\ IsFiniteSet({})
    BY FS_EmptySet
  <2>3. SubmitsSoFar' = 0 /\ Dd!Pending' = 0 /\ Submitted' = {}
    <3>1. Dd!Pending' = 0
      BY <1>1, <2>2, DdSizes DEF Dd!Pending
    <3>2. QED
      BY <1>1, <3>1 DEF SubmitsSoFar, Submitted
  <2>4. AioInv'
    BY <1>1, <2>2, <2>3, MyddAssumption DEF AioInv
  <2>5. QED
    BY <1>1, <1>4, <2>1, <2>4 DEF DdIInv
<1>5. QED
  BY <1>1, <1>3, <1>4

LEMMA DdWrites ==
  ASSUME DdIInv, NEW t \in DOMAIN left,
         Dd!evaluate_dio(t) \/ Dd!evaluate_files(t)
  PROVE  DdIInv'
<1>1. /\ mdpc = "run" /\ mode \in {"dio", "files"} /\ ThreadsInv
      /\ depth \in Nat \ {0} /\ t \in Threads /\ left[t] > 0
      /\ UNCHANGED <<mode, depth, inFlight, sentBlocks>>
  BY DEF Dd!evaluate_dio, Dd!evaluate_files, DdIInv, ThreadsInv
<1>2. /\ Quota \in Nat /\ Quota' = Quota /\ Threads' = Threads
      /\ \A u \in Threads : Base(u) \in Nat /\ Base(u)' = Base(u)
      /\ \A u \in Threads, k \in Nat : Place(u, k)' = Place(u, k)
  <2>1. Quota \in Nat /\ Quota' = Quota /\ Threads' = Threads
    BY <1>1, DivMod, MyddAssumption DEF Quota, Threads
  <2>2. \A u \in Threads : Base(u) \in Nat /\ Base(u)' = Base(u)
    BY <1>1, QuotaFits DEF Threads, Base, Dd!Share
  <2>3. \A u \in Threads, k \in Nat : Place(u, k)' = Place(u, k)
    BY <1>1, <2>2 DEF Place
  <2>4. QED
    BY <2>1, <2>2, <2>3
<1>3. CASE mdpc' = "failed" /\ UNCHANGED <<offset, left, written>>
  <2>1. \A u \in Threads : Done(u)' = Done(u)
    BY <1>2, <1>3 DEF Done
  <2>2. \A w : w \in written' <=>
          \E u \in Threads, k \in 0..Quota - 1 : k < Done(u)' /\ w = Place(u, k)
    BY <1>1, <1>3, <2>1 DEF ThreadsInv, WrittenSoFar
  <2>3. \A u \in Threads : offset'[u] = Base(u) + Done(u)' * BlockSize
    BY <1>1, <1>3, <2>1 DEF ThreadsInv
  <2>4. left' \in [Threads -> 0..Quota] /\ offset' \in [Threads -> Nat]
    BY <1>1, <1>3 DEF ThreadsInv
  <2>5. ThreadsInv'
    <3>1. \A u \in Threads, k \in 0..Quota - 1 : Place(u, k)' = Place(u, k)
      BY <1>2
    <3>2. mdpc' # "done"
      BY <1>3
    <3>3. /\ left' \in [Threads' -> 0..Quota'] /\ offset' \in [Threads' -> Nat]
          /\ \A u \in Threads' : offset'[u] = Base(u)' + Done(u)' * BlockSize
      BY <1>2, <2>3, <2>4
    <3>4. \A w : w \in written' <=>
            \E u \in Threads', k \in 0..Quota' - 1 :
              k < Done(u)' /\ w = Place(u, k)'
      BY <1>2, <2>2, <3>1
    <3>5. WrittenSoFar'
      BY <3>4 DEF WrittenSoFar
    <3>6. QED
      BY <3>2, <3>3, <3>5 DEF ThreadsInv
  <2>6. QED
    BY <1>1, <1>3, <2>5 DEF DdIInv
<1>4. CASE Dd!WritesBlock(t, IF mode = "dio" THEN 0 ELSE t)
  <2>1. /\ written' =
             written \cup {<<IF mode = "dio" THEN 0 ELSE t, offset[t]>>}
        /\ offset' = [offset EXCEPT ![t] = @ + BlockSize]
        /\ left' = [left EXCEPT ![t] = @ - 1] /\ mdpc' = "run"
    BY <1>1, <1>4 DEF Dd!WritesBlock
  <2>2. /\ left \in [Threads -> 0..Quota] /\ offset \in [Threads -> Nat]
        /\ offset[t] = Base(t) + Done(t) * BlockSize
        /\ Done(t) \in 0..Quota - 1
    BY <1>1, <1>2 DEF ThreadsInv, Done
  <2>3. left' \in [Threads -> 0..Quota] /\ offset' \in [Threads -> Nat]
    BY <1>1, <1>2, <2>1, <2>2, MyddAssumption
  <2>4. \A u \in Threads : Done(u)' = Done(u) + (IF u = t THEN 1 ELSE 0)
    BY <1>1, <1>2, <2>1, <2>2 DEF Done
  <2>5. written' = written \cup {Place(t, Done(t))}
    BY <2>1, <2>2 DEF Place
  <2>6. \A u \in Threads : offset'[u] = Base(u) + Done(u)' * BlockSize
    <3>1. (Done(t) + 1) * BlockSize = Done(t) * BlockSize + BlockSize
      BY <2>2, MyddAssumption
    <3>2. offset'[t] = Base(t) + Done(t)' * BlockSize
      <4>1. Done(t) * BlockSize \in Nat /\ Base(t) \in Nat
        BY <1>1, <1>2, <2>2, MyddAssumption
      <4>2. offset'[t] = offset[t] + BlockSize /\ Done(t)' = Done(t) + 1
        BY <1>1, <2>1, <2>2, <2>4
      <4>3. QED
        BY <2>2, <3>1, <4>1, <4>2, MyddAssumption
    <3>3. \A u \in Threads :
            u # t => offset'[u] = offset[u] /\ Done(u)' = Done(u)
      BY <1>2, <2>1, <2>2, <2>4 DEF Done
    <3>4. QED
      BY <1>1, <3>2, <3>3 DEF ThreadsInv
  <2>7. ASSUME NEW w
        PROVE  w \in written' <=>
                 \E u \in Threads, k \in 0..Quota - 1 :
                   k < Done(u)' /\ w = Place(u, k)
    <3>1. w \in written <=>
            \E u \in Threads, k \in 0..Quota - 1 :
              k < Done(u) /\ w = Place(u, k)
      BY <1>1 DEF ThreadsInv, WrittenSoFar
    <3>2. \A u \in Threads : Done(u) \in Int
      BY <1>2, <2>2 DEF Done
    <3>3. ASSUME NEW u \in Threads, NEW k \in 0..Quota - 1
          PROVE  k < Done(u)' <=> (k < Done(u) \/ (u = t /\ k = Done(t)))
      BY <1>2, <2>4, <3>2
    <3>4. QED
      BY <1>1, <2>2, <2>5, <3>1, <3>3
  <2>8. ThreadsInv'
    <3>1. WrittenSoFar'
      BY <1>2, <2>7 DEF WrittenSoFar
    <3>2. QED
      BY <1>1, <1>2, <2>1, <2>3, <2>6, <3>1 DEF ThreadsInv
  <2>9. QED
    BY <1>1, <2>1, <2>8 DEF DdIInv
<1>5. QED
  BY <1>1, <1>3, <1>4 DEF Dd!evaluate_dio, Dd!evaluate_files

LEMMA AioOffsets ==
  ASSUME depth \in Nat \ {0}, UNCHANGED depth
  PROVE  \A n \in Nat : Dd!AioOffset(n)' = Dd!AioOffset(n)
BY DEF Dd!AioOffset

LEMMA DdSubmits ==
  ASSUME DdIInv, Dd!io_submit
  PROVE  DdIInv'
<1>1. /\ mdpc = "run" /\ mode = "aio" /\ AioInv /\ left = <<>>
      /\ depth \in Nat \ {0} /\ sentBlocks < BlockCount
      /\ Dd!Pending < depth /\ SubmitsSoFar < BlockCount
      /\ UNCHANGED <<mode, depth, mdpc, left, sentBlocks, written>>
      /\ inFlight' =
           inFlight \cup {<<SubmitsSoFar, Dd!AioOffset(sentBlocks)>>}
  BY DEF Dd!io_submit, DdIInv, SubmitsSoFar
<1>2. /\ Dd!Pending \in Nat /\ Dd!Pending = Cardinality(inFlight)
      /\ sentBlocks \in 0..BlockCount /\ SubmitsSoFar \in Nat
  BY <1>1, DdSizes, FS_CardinalityType, MyddAssumption
     DEF AioInv, Dd!Pending, SubmitsSoFar
<1>3. <<SubmitsSoFar, Dd!AioOffset(sentBlocks)>> \notin inFlight
  <2>1. \A io \in inFlight : io[1] < SubmitsSoFar
    BY <1>1 DEF AioInv
  <2>2. QED
    BY <1>2, <2>1
<1>4. /\ IsFiniteSet(inFlight') /\ Dd!Pending' = Dd!Pending + 1
      /\ SubmitsSoFar' = SubmitsSoFar + 1
  <2>1. /\ IsFiniteSet(inFlight')
        /\ Cardinality(inFlight') = Cardinality(inFlight) + 1
    BY <1>1, <1>3, FS_AddElement DEF AioInv
  <2>2. Dd!Pending' = Cardinality(inFlight')
    BY DdSizes DEF Dd!Pending
  <2>3. QED
    BY <1>1, <1>2, <2>1, <2>2 DEF SubmitsSoFar
<1>5. \A n : n \in Submitted' <=> n \in Submitted \/ n = sentBlocks
  <2>1. CASE sentBlocks = 0
    BY <1>1, <1>2, <1>4, <2>1 DEF Submitted, SubmitsSoFar
  <2>2. CASE sentBlocks # 0
    <3>1. sentBlocks = SubmitsSoFar' - depth /\ SubmitsSoFar > 0
      BY <1>1, <1>2, <1>4, <2>2 DEF AioInv, SubmitsSoFar
    <3>2. QED
      BY <1>1, <1>2, <1>4, <2>2, <3>1 DEF Submitted
  <2>3. QED
    BY <2>1, <2>2
<1>6. Submitted \subseteq Nat /\ Submitted' \subseteq Nat
  <2>1. Submitted \subseteq Nat
    BY <1>1, <1>2 DEF Submitted
  <2>2. sentBlocks \in Nat
    BY <1>2, MyddAssumption
  <2>3. QED
    BY <1>5, <2>1, <2>2
<1>7. ASSUME NEW w
      PROVE  (w \in written' \/ \E io \in inFlight' : w = <<0, io[2]>>) <=>
               \E n \in Submitted' : w = <<0, Dd!AioOffset(n)>>
  <2>1. (w \in written \/ \E io \in inFlight : w = <<0, io[2]>>) <=>
          \E n \in Submitted : w = <<0, Dd!AioOffset(n)>>
    BY <1>1 DEF AioInv
  <2>2. (\E io \in inFlight' : w = <<0, io[2]>>) <=>
          \/ \E io \in inFlight : w = <<0, io[2]>>
          \/ w = <<0, Dd!AioOffset(sentBlocks)>>
    <3>1. \A x, y : <<x, y>>[2] = y
      OBVIOUS
    <3>2. QED
      BY <1>1, <3>1
  <2>3. QED
    BY <1>1, <1>5, <2>1, <2>2
<1>8. \A n \in Submitted' : Dd!AioOffset(n)' = Dd!AioOffset(n)
  BY <1>1, <1>6, AioOffsets
<1>9. \A io \in inFlight' : io[1] \in Nat /\ io[1] < SubmitsSoFar'
  BY <1>1, <1>2, <1>4 DEF AioInv
<1>10. AioInv'
  BY <1>1, <1>2, <1>4, <1>7, <1>8, <1>9, MyddAssumption DEF AioInv
<1>11. QED
  BY <1>1, <1>10 DEF DdIInv

LEMMA DdGetsEvents ==
  ASSUME DdIInv, Dd!io_getevents
  PROVE  DdIInv'
<1>1. /\ mdpc = "run" /\ mode = "aio" /\ AioInv /\ left = <<>>
      /\ depth \in Nat \ {0} /\ sentBlocks < BlockCount
      /\ ~(Dd!Pending < depth /\ SubmitsSoFar < BlockCount)
      /\ UNCHANGED <<mode, depth, mdpc, left>>
      /\ sentBlocks' = sentBlocks + 1
  BY DEF Dd!io_getevents, DdIInv, SubmitsSoFar
<1>2. PICK io \in inFlight : /\ inFlight' = inFlight \ {io}
                             /\ written' = written \cup {<<0, io[2]>>}
  BY DEF Dd!io_getevents
<1>3. /\ Dd!Pending \in Nat /\ Dd!Pending = Cardinality(inFlight)
      /\ sentBlocks \in 0..BlockCount /\ SubmitsSoFar \in Nat
  BY <1>1, DdSizes, FS_CardinalityType, MyddAssumption
     DEF AioInv, Dd!Pending, SubmitsSoFar
<1>4. /\ IsFiniteSet(inFlight') /\ Dd!Pending' = Dd!Pending - 1
      /\ SubmitsSoFar' = SubmitsSoFar
  <2>1. /\ IsFiniteSet(inFlight')
        /\ Cardinality(inFlight') = Cardinality(inFlight) - 1
    BY <1>1, <1>2, FS_RemoveElement DEF AioInv
  <2>2. Dd!Pending' = Cardinality(inFlight')
    BY DdSizes DEF Dd!Pending
  <2>3. QED
    BY <1>1, <1>3, <2>1, <2>2 DEF SubmitsSoFar
<1>5. Submitted' = Submitted /\ Submitted \subseteq Nat
  BY <1>1, <1>3, <1>4 DEF Submitted
<1>6. \A w : (w \in written' \/ \E x \in inFlight' : w = <<0, x[2]>>) <=>
               \E n \in Submitted : w = <<0, Dd!AioOffset(n)>>
  BY <1>1, <1>2 DEF AioInv
<1>7. \A n \in Submitted : Dd!AioOffset(n)' = Dd!AioOffset(n)
  BY <1>1, <1>5, AioOffsets
<1>8. AioInv'
  BY <1>1, <1>2, <1>3, <1>4, <1>5, <1>6, <1>7, MyddAssumption DEF AioInv
<1>9. QED
  BY <1>1, <1>8 DEF DdIInv

LEMMA DdReturns ==
  ASSUME DdIInv, Dd!returns
  PROVE  DdIInv'
<1>1. /\ mdpc = "run" /\ mdpc' = "done" /\ mode \in {"dio", "files", "aio"}
      /\ UNCHANGED <<mode, depth, offset, left, inFlight, sentBlocks, written>>
      /\ IF mode = "aio" THEN sentBlocks = BlockCount
         ELSE \A t \in DOMAIN left : left[t] = 0
      /\ depth \in Nat \ {0}
  BY DEF Dd!returns, DdIInv
<1>2. CASE mode = "aio"
  <2>1. /\ AioInv /\ Dd!Pending' = Dd!Pending /\ SubmitsSoFar' = SubmitsSoFar
        /\ Submitted' = Submitted
    BY <1>1, <1>2 DEF DdIInv, Dd!Pending, SubmitsSoFar, Submitted
  <2>2. \A n : Dd!AioOffset(n)' = Dd!AioOffset(n)
    BY <1>1 DEF Dd!AioOffset
  <2>3. AioInv'
    BY <1>1, <1>2, <2>1, <2>2 DEF AioInv
  <2>4. QED
    BY <1>1, <1>2, <2>3 DEF DdIInv
<1>3. CASE mode \in {"dio", "files"}
  <2>1. /\ ThreadsInv /\ Threads' = Threads /\ Quota' = Quota
        /\ \A t : Done(t)' = Done(t) /\ Base(t)' = Base(t)
        /\ \A t, k : Place(t, k)' = Place(t, k)
    BY <1>1, <1>3 DEF DdIInv, Threads, Quota, Done, Base, Place, Dd!Share
  <2>2. \A t \in Threads : left[t] = 0
    BY <1>1, <1>3, <2>1 DEF ThreadsInv
  <2>3. ThreadsInv'
    <3>1. WrittenSoFar => WrittenSoFar'
      BY <1>1, <2>1 DEF WrittenSoFar
    <3>2. QED
      BY <1>1, <2>1, <2>2, <3>1 DEF ThreadsInv
  <2>4. QED
    BY <1>1, <1>3, <2>3 DEF DdIInv
<1>4. QED
  BY <1>1, <1>2, <1>3

LEMMA DdStep ==
  ASSUME DdIInv, [Dd!Next]_(Dd!vars)
  PROVE  DdIInv'
<1>1. CASE UNCHANGED Dd!vars
  <2>1. UNCHANGED <<mode, depth, mdpc, offset, left, inFlight, sentBlocks,
                    written>>
    BY <1>1 DEF Dd!vars
  <2>2. ThreadsInv => ThreadsInv'
    BY <2>1 DEF ThreadsInv, WrittenSoFar, Threads, Quota, Done, Base, Place,
       Dd!Share
  <2>3. AioInv => AioInv'
    BY <2>1 DEF AioInv, SubmitsSoFar, Submitted, Dd!Pending, Dd!AioOffset
  <2>4. QED
    BY <2>1, <2>2, <2>3 DEF DdIInv
<1>2. QED
  BY <1>1, DdMain, DdOpened, DdWrites, DdSubmits, DdGetsEvents, DdReturns
     DEF Dd!Next

LEMMA DdSteps == [Next]_vars => [Dd!Next]_(Dd!vars)
BY DEF Next, vars, Still, two_points, some_bytes, buffer, mask, array, salary,
   Chosen, myddVars, Dd!vars

(* No write of a thread of dio goes beyond where the next thread starts.     *)
LEMMA DioApart ==
  ASSUME depth \in Nat \ {0}, ThreadsInv, mode = "dio",
         NEW t \in Threads, NEW u \in Threads, t < u
  PROVE  offset[t] <= Dd!Share(u)
<1>1. left \in [Threads -> 0..Quota]
  BY DEF ThreadsInv
<1>2. t \in Nat /\ u \in Nat /\ Quota \in Nat /\ left[t] \in 0..Quota
  BY <1>1, DivMod, MyddAssumption DEF Threads, Quota
<1> DEFINE S == (BlockCount * BlockSize) \div depth
<1>3. S \in Nat /\ Quota * BlockSize <= S
  BY <1>1, QuotaFits
<1>4. offset[t] = S * t + Done(t) * BlockSize
  BY <1>1 DEF ThreadsInv, Base, Dd!Share
<1>5. Done(t) \in 0..Quota
  BY <1>2 DEF Done
<1>6. Done(t) * BlockSize <= Quota * BlockSize
  BY <1>2, <1>5, Products, MyddAssumption
<1>7. S * (t + 1) = S * t + S
  BY <1>2, <1>3
<1>8. S * (t + 1) <= S * u
  BY <1>2, <1>3, Products
<1>9. S * t \in Nat /\ Done(t) * BlockSize \in Nat /\ S * u \in Nat
      /\ Quota * BlockSize \in Nat
  BY <1>2, <1>3, <1>5, MyddAssumption
<1>10. QED
  BY <1>3, <1>4, <1>6, <1>7, <1>8, <1>9 DEF Dd!Share

(* When the number of threads divides that of the blocks they are all        *)
(* written.                                                                  *)
LEMMA DioComplete ==
  ASSUME depth \in Nat \ {0}, ThreadsInv, mode = "dio", mdpc = "done",
         BlockCount % depth = 0
  PROVE  written = {<<0, b * BlockSize>> : b \in 0..BlockCount - 1}
<1>1. ThreadsInv /\ depth \in Nat \ {0}
  OBVIOUS
<1>2. /\ Quota \in Nat /\ BlockCount = Quota * depth
      /\ \A t \in Threads : Done(t) = Quota
  <2>1. Quota \in Nat /\ BlockCount = depth * Quota
    BY <1>1, DivMod, MyddAssumption DEF Quota
  <2>2. \A t \in Threads : Done(t) = Quota
    BY <1>1, <2>1 DEF ThreadsInv, Done
  <2>3. QED
    BY <1>1, <2>1, <2>2
<1>3. Quota > 0
  BY <1>1, <1>2, MyddAssumption
<1>4. (BlockCount * BlockSize) \div depth = Quota * BlockSize
  <2>1. BlockCount * BlockSize = (Quota * BlockSize) * depth + 0
    BY <1>1, <1>2, MyddAssumption
  <2>2. Quota * BlockSize \in Nat /\ 0 \in 0..depth - 1
    BY <1>1, <1>2, MyddAssumption
  <2>3. QED
    BY <1>1, <2>1, <2>2, Quotients
<1>5. ASSUME NEW t \in Threads, NEW k \in 0..Quota - 1
      PROVE  Place(t, k) = <<0, (t * Quota + k) * BlockSize>>
  <2>1. Place(t, k) = <<0, (Quota * BlockSize) * t + k * BlockSize>>
    BY <1>4 DEF Place, Base, Dd!Share
  <2>2. (Quota * BlockSize) * t + k * BlockSize = (t * Quota + k) * BlockSize
    BY <1>1, <1>2, MyddAssumption DEF Threads
  <2>3. QED
    BY <2>1, <2>2
<1>6. ASSUME NEW t \in Threads, NEW k \in 0..Quota - 1
      PROVE  t * Quota + k \in 0..BlockCount - 1
  <2>1. t \in Nat /\ t + 1 <= depth /\ depth \in Nat
    BY <1>1 DEF Threads
  <2>2. Quota * (t + 1) <= Quota * depth /\ Quota * (t + 1) = t * Quota + Quota
    BY <1>2, <2>1, Products
  <2>3. t * Quota \in Nat
    BY <1>2, <2>1
  <2>4. QED
    BY <1>2, <2>2, <2>3, MyddAssumption
<1>7. ASSUME NEW b \in 0..BlockCount - 1
      PROVE  /\ b \div Quota \in Threads /\ b % Quota \in 0..Quota - 1
             /\ b = (b \div Quota) * Quota + (b % Quota)
  <2>1. /\ b \div Quota \in Nat /\ b % Quota \in 0..Quota - 1
        /\ b = Quota * (b \div Quota) + (b % Quota) /\ b \in Nat
    BY <1>2, <1>3, DivMod, MyddAssumption
  <2>2. ~(b \div Quota >= depth)
    <3>1. SUFFICES ASSUME b \div Quota >= depth PROVE FALSE
      OBVIOUS
    <3>2. Quota * depth <= Quota * (b \div Quota)
      BY <1>1, <1>2, <2>1, <3>1, Products
    <3>3. Quota * (b \div Quota) <= b
      BY <1>2, <2>1
    <3>4. QED
      BY <1>2, <2>1, <3>2, <3>3, MyddAssumption
  <2>3. QED
    BY <1>1, <1>2, <2>1, <2>2 DEF Threads
<1>8. \A w : w \in written <=>
             \E b \in 0..BlockCount - 1 : w = <<0, b * BlockSize>>
  <2>1. \A w : w \in written <=>
                 \E t \in Threads, k \in 0..Quota - 1 : w = Place(t, k)
    <3>1. WrittenSoFar /\ \A k \in 0..Quota - 1 : k < Quota
      BY <1>1, <1>2 DEF ThreadsInv
    <3>2. QED
      BY <1>2, <3>1 DEF WrittenSoFar
  <2>2. ASSUME NEW w \in written
        PROVE  \E b \in 0..BlockCount - 1 : w = <<0, b * BlockSize>>
    BY <1>5, <1>6, <2>1
  <2>3. ASSUME NEW b \in 0..BlockCount - 1
        PROVE  <<0, b * BlockSize>> \in written
    <3>1. /\ b \div Quota \in Threads /\ b % Quota \in 0..Quota - 1
          /\ b = (b \div Quota) * Quota + (b % Quota)
      BY <1>7
    <3>2. Place(b \div Quota, b % Quota) = <<0, b * BlockSize>>
      BY <1>5, <3>1
    <3>3. QED
      BY <2>1, <3>1, <3>2
  <2>4. QED
    BY <2>2, <2>3
<1>9. QED
  BY <1>8

(* The files get the same number of blocks each.                             *)
LEMMA FilesComplete ==
  ASSUME depth \in Nat \ {0}, ThreadsInv, mode = "files", mdpc = "done"
  PROVE  Cardinality(written) = depth * (BlockCount \div depth)
<1>1. ThreadsInv /\ depth \in Nat \ {0}
  OBVIOUS
<1>2. Quota \in Nat /\ \A t \in Threads : Done(t) = Quota
  BY <1>1, DivMod, MyddAssumption DEF ThreadsInv, Done, Quota
<1>3. \A w : w \in written <=>
             \E t \in Threads, k \in 0..Quota - 1 : w = <<t, k * BlockSize>>
  <2>1. \A t \in Threads, k \in 0..Quota - 1 :
          Place(t, k) = <<t, k * BlockSize>>
    BY MyddAssumption, <1>2 DEF Place, Base
  <2>2. WrittenSoFar /\ \A k \in 0..Quota - 1 : k < Quota
    BY <1>1, <1>2 DEF ThreadsInv
  <2>3. QED
    BY <1>2, <2>1, <2>2 DEF WrittenSoFar
<1> DEFINE P == Threads \X (0..Quota - 1)
           f == [p \in P |-> <<p[1], p[2] * BlockSize>>]
<1>4. f \in [P -> written]
  BY <1>3
<1>5. \A p, q \in P : f[p] = f[q] => p = q
  <2>1. ASSUME NEW p \in P, NEW q \in P, f[p] = f[q]
        PROVE  p = q
    <3>1. /\ p = <<p[1], p[2]>> /\ q = <<q[1], q[2]>>
          /\ p[2] \in Nat /\ q[2] \in Nat
      BY <1>2
    <3>2. p[1] = q[1] /\ p[2] * BlockSize = q[2] * BlockSize
      BY <2>1
    <3>3. p[2] = q[2]
      BY <3>1, <3>2, MyddAssumption
    <3>4. QED
      BY <3>1, <3>2, <3>3
  <2>2. QED
    BY <2>1
<1>6. \A w \in written : \E p \in P : f[p] = w
  <2>1. ASSUME NEW w \in written
        PROVE  \E p \in P : f[p] = w
    <3>1. PICK t \in Threads, k \in 0..Quota - 1 : w = <<t, k * BlockSize>>
      BY <1>3
    <3>2. <<t, k>> \in P /\ f[<<t, k>>] = w
      BY <3>1
    <3>3. QED
      BY <3>2
  <2>2. QED
    BY <2>1
<1>7. ExistsBijection(P, written)
  <2>1. f \in Bijection(P, written)
    <3> HIDE DEF f, P
    <3>1. QED
      BY <1>4, <1>5, <1>6 DEF Bijection, Injection, IsInjective, Surjection
  <2>2. QED
    BY <2>1 DEF ExistsBijection
<1>8. IsFiniteSet(P) /\ Cardinality(P) = depth * Quota
  <2>1. IsFiniteSet(Threads) /\ Cardinality(Threads) = depth
    BY <1>1, FS_Interval DEF Threads
  <2>2. IsFiniteSet(0..Quota - 1) /\ Cardinality(0..Quota - 1) = Quota
    BY <1>2, FS_Interval
  <2>3. QED
    BY <2>1, <2>2, FS_Product
<1>9. QED
  BY <1>7, <1>8, FS_Bijection DEF Quota

(* evaluate_aio is at the end: nothing is in flight, what is written is what *)
(* has been submitted, and that is all but the last depth - 1 blocks.        *)
LEMMA AioComplete ==
  ASSUME depth \in Nat \ {0}, AioInv, mdpc = "done"
  PROVE  /\ inFlight = {}
         /\ written = Dd!Blocks({0} \cup 0..BlockCount - depth)
<1>1. /\ sentBlocks = BlockCount /\ IsFiniteSet(inFlight)
      /\ SubmitsSoFar <= BlockCount
  BY DEF AioInv
<1>2. Dd!Pending = Cardinality(inFlight) /\ Cardinality(inFlight) \in Nat
  BY <1>1, DdSizes, FS_CardinalityType DEF Dd!Pending
<1>3. Cardinality(inFlight) = 0
  BY <1>1, <1>2, MyddAssumption DEF SubmitsSoFar
<1>4. inFlight = {}
  BY <1>1, <1>3, FS_EmptySet
<1>5. Submitted = {0} \cup 1..BlockCount - depth
  BY <1>1, <1>2, <1>3, MyddAssumption DEF Submitted, SubmitsSoFar
<1>6. Submitted = {0} \cup 0..BlockCount - depth
  BY <1>5, MyddAssumption
<1>7. \A w : w \in written <=> \E n \in Submitted : w = <<0, Dd!AioOffset(n)>>
  BY <1>4 DEF AioInv
<1>8. QED
  BY <1>4, <1>6, <1>7 DEF Dd!Blocks

(* When depth divides the number of blocks no two of them are at one place.  *)
LEMMA AioApart ==
  ASSUME depth \in Nat \ {0}, BlockCount % depth = 0,
         NEW m \in 0..BlockCount - depth, NEW n \in 0..BlockCount - depth,
         Dd!AioOffset(m) = Dd!AioOffset(n)
  PROVE  m = n
<1>1. Quota \in Nat /\ BlockCount = Quota * depth
  <2>1. Quota \in Nat /\ BlockCount = depth * Quota
    BY DivMod, MyddAssumption DEF Quota
  <2>2. QED
    BY <2>1
<1>2. ASSUME NEW x \in 0..BlockCount - depth
      PROVE  /\ x % depth \in 0..depth - 1 /\ x \div depth \in 0..Quota - 1
             /\ x = depth * (x \div depth) + (x % depth)
             /\ Dd!AioOffset(x) =
                  ((x % depth) * Quota + x \div depth) * BlockSize
  <2>1. /\ x \in Nat /\ x < BlockCount
        /\ x \div depth \in Nat /\ x % depth \in 0..depth - 1
        /\ x = depth * (x \div depth) + (x % depth)
    BY DivMod, MyddAssumption
  <2>2. ~(x \div depth >= Quota)
    <3>1. SUFFICES ASSUME x \div depth >= Quota PROVE FALSE
      OBVIOUS
    <3>2. depth * Quota <= depth * (x \div depth)
      BY <1>1, <2>1, <3>1, Products
    <3>3. depth * (x \div depth) <= x
      BY <2>1
    <3>4. QED
      BY <1>1, <2>1, <3>2, <3>3, MyddAssumption
  <2>3. ((x % depth) * BlockCount) \div depth = (x % depth) * Quota
    <3>1. (x % depth) * BlockCount = ((x % depth) * Quota) * depth + 0
      BY <1>1, <2>1
    <3>2. (x % depth) * Quota \in Nat /\ 0 \in 0..depth - 1
      BY <1>1, <2>1
    <3>3. QED
      BY <3>1, <3>2, Quotients
  <2>4. QED
    BY <1>1, <2>1, <2>2, <2>3 DEF Dd!AioOffset
<1>3. (m % depth) * Quota + m \div depth = (n % depth) * Quota + n \div depth
  <2> DEFINE a == (m % depth) * Quota + m \div depth
             b == (n % depth) * Quota + n \div depth
  <2>1. a \in Nat /\ b \in Nat
    BY <1>1, <1>2
  <2>2. a * BlockSize = b * BlockSize
    BY <1>2
  <2> HIDE DEF a, b
  <2>3. a = b
    BY <2>1, <2>2, MyddAssumption
  <2>4. QED
    BY <2>3 DEF a, b
<1>4. m % depth = n % depth /\ m \div depth = n \div depth
  <2> DEFINE p == m % depth
             q == n % depth
             s == m \div depth
             t == n \div depth
  <2>1. /\ p \in Nat /\ q \in Nat /\ s \in 0..Quota - 1 /\ t \in 0..Quota - 1
        /\ p * Quota + s = q * Quota + t /\ Quota > 0
    BY <1>1, <1>2, <1>3, MyddAssumption
  <2> HIDE DEF p, q, s, t
  <2>2. (p * Quota + s) \div Quota = p /\ (p * Quota + s) % Quota = s
    BY <1>1, <2>1, Quotients
  <2>3. (q * Quota + t) \div Quota = q /\ (q * Quota + t) % Quota = t
    BY <1>1, <2>1, Quotients
  <2>4. p = q /\ s = t
    BY <2>1, <2>2, <2>3
  <2>5. QED
    BY <2>4 DEF p, q, s, t
<1>5. QED
  BY <1>2, <1>4

LEMMA AioCounts ==
  ASSUME depth \in Nat \ {0}, BlockCount % depth = 0,
         written = Dd!Blocks({0} \cup 0..BlockCount - depth)
  PROVE  Cardinality(written) = BlockCount - (depth - 1)
<1> DEFINE N == 0..BlockCount - depth
           f == [n \in N |-> <<0, Dd!AioOffset(n)>>]
<1>1. BlockCount >= depth
  <2>1. Quota \in Nat /\ BlockCount = depth * Quota
    BY DivMod, MyddAssumption DEF Quota
  <2>2. Quota >= 1
    BY <2>1, MyddAssumption
  <2>3. depth * 1 <= depth * Quota
    BY <2>1, <2>2, Products
  <2>4. QED
    BY <2>1, <2>3
<1>2. 0 \in N /\ {0} \cup N = N
  BY <1>1, MyddAssumption
<1>3. \A w : w \in written <=> \E n \in N : w = <<0, Dd!AioOffset(n)>>
  BY <1>2 DEF Dd!Blocks
<1>4. f \in [N -> written] /\ \A w \in written : \E n \in N : f[n] = w
  BY <1>3
<1>5. \A m, n \in N : f[m] = f[n] => m = n
  BY AioApart
<1>6. f \in Bijection(N, written)
  <2> HIDE DEF f, N
  <2>1. QED
    BY <1>4, <1>5 DEF Bijection, Injection, IsInjective, Surjection
<1>7. ExistsBijection(N, written)
  BY <1>6 DEF ExistsBijection
<1>8. IsFiniteSet(N) /\ Cardinality(N) = BlockCount - depth + 1
  BY <1>1, FS_Interval, MyddAssumption
<1>9. QED
  BY <1>7, <1>8, FS_Bijection, MyddAssumption

(* mydd.cc's threads keep to their shares of the file and write all of it    *)
(* when they can, and its asynchronous writes lose the last depth - 1        *)
(* blocks: for every number of threads, files or writes in flight and of     *)
(* blocks.                                                                   *)
THEOREM WritesAreShared == Spec => []Dd!WritesTheirShare
<1>1. Init => DdIInv
  BY DEF Init, Dd!Init, DdIInv
<1>2. DdIInv /\ [Next]_vars => DdIInv'
  BY DdStep, DdSteps
<1>3. DdIInv => Dd!WritesTheirShare
  <2>1. SUFFICES ASSUME DdIInv PROVE Dd!WritesTheirShare
    OBVIOUS
  <2>2. \/ left = <<>> /\ (mdpc = "done" => mode = "aio")
        \/ mode \in {"dio", "files"} /\ depth \in Nat \ {0} /\ ThreadsInv
    BY <2>1 DEF DdIInv
  <2>3. mode = "aio" => /\ depth \in Nat \ {0}
                        /\ AioInv \/ (inFlight = {} /\ mdpc # "done")
    BY <2>1 DEF DdIInv
  <2>4. CASE mode = "dio"
    <3>1. \A t, u \in DOMAIN left : t < u => offset[t] <= Dd!Share(u)
      <4>1. CASE left = <<>>
        BY <4>1
      <4>2. CASE depth \in Nat \ {0} /\ ThreadsInv
        <5>1. DOMAIN left = Threads
          BY <4>2 DEF ThreadsInv
        <5>2. QED
          BY <2>4, <4>2, <5>1, DioApart
      <4>3. QED
        BY <2>2, <2>4, <4>1, <4>2
    <3>2. mdpc = "done" /\ BlockCount % depth = 0 =>
            written = {<<0, b * BlockSize>> : b \in 0..BlockCount - 1}
      BY <2>2, <2>4, DioComplete
    <3>3. QED
      BY <2>4, <3>1, <3>2 DEF Dd!WritesTheirShare
  <2>5. CASE mode = "files"
    <3>1. mdpc = "done" =>
            Cardinality(written) = depth * (BlockCount \div depth)
      BY <2>2, <2>5, FilesComplete
    <3>2. QED
      BY <2>5, <3>1, DdSizes DEF Dd!WritesTheirShare
  <2>6. CASE mode = "aio"
    <3>1. Dd!Pending <= depth
      <4>1. CASE AioInv
        BY <4>1 DEF AioInv
      <4>2. CASE inFlight = {}
        BY <2>3, <2>6, <4>2, DdSizes, FS_EmptySet DEF Dd!Pending
      <4>3. QED
        BY <2>3, <2>6, <4>1, <4>2
    <3>2. mdpc = "done" =>
            /\ inFlight = {}
            /\ written = Dd!Blocks({0} \cup 0..BlockCount - depth)
            /\ BlockCount % depth = 0 =>
                 Cardinality(written) = BlockCount - (depth - 1)
      BY <2>3, <2>6, AioComplete, AioCounts
    <3>3. QED
      BY <2>6, <3>1, <3>2, DdSizes DEF Dd!WritesTheirShare
  <2>7. CASE mode \notin {"dio", "files", "aio"}
    BY <2>7 DEF Dd!WritesTheirShare
  <2>8. QED
    BY <2>4, <2>5, <2>6, <2>7
<1>4. QED
  BY <1>1, <1>2, <1>3, PTL DEF Spec

-----------------------------------------------------------------------------
(* ThreadSwitchTestAli                                                       *)

LEMMA SwitchSizes == \A S : Switch!Cardinality(S) = Cardinality(S)
BY DEF Switch!Cardinality, Cardinality

LEMMA TallyElements ==
  ASSUME NEW f
  PROVE  \A e : e \in Switch!Tally(f) <=>
           \E x \in DOMAIN f : \E k \in 1..f[x] : e = <<x, k>>
BY DEF Switch!Tally

LEMMA OneMore ==
  ASSUME NEW A, NEW B, NEW e, e \notin A, B = A \cup {e},
         IsFiniteSet(A) \/ IsFiniteSet(B)
  PROVE  /\ IsFiniteSet(A) /\ IsFiniteSet(B) /\ Cardinality(A) \in Nat
         /\ Cardinality(B) = Cardinality(A) + 1
<1>1. A = B \ {e}
  OBVIOUS
<1>2. IsFiniteSet(A)
  BY <1>1, FS_RemoveElement
<1>3. QED
  BY <1>2, FS_AddElement, FS_CardinalityType

LEMMA Rectangle ==
  ASSUME NEW n \in Nat, NEW k \in Nat
  PROVE  /\ IsFiniteSet((1..n) \X (1..k))
         /\ Cardinality((1..n) \X (1..k)) = n * k
<1> DEFINE N == 1..n
           K == 1..k
<1>1. /\ IsFiniteSet(N) /\ Cardinality(N) = n
      /\ IsFiniteSet(K) /\ Cardinality(K) = k
  BY FS_Interval
<1>2. IsFiniteSet(N \X K) /\ Cardinality(N \X K) = n * k
  <2> HIDE DEF N, K
  <2>1. QED
    BY <1>1, FS_Product
<1>3. QED
  BY <1>2

(* One more in one place, new or not, is one more in all.                    *)
LEMMA TallyMore ==
  ASSUME NEW D, NEW d, NEW f \in [D -> Nat], NEW g \in [D \cup {d} -> Nat],
         g[d] = (IF d \in D THEN f[d] ELSE 0) + 1,
         \A x \in D : x # d => g[x] = f[x],
         IsFiniteSet(Switch!Tally(f)) \/ IsFiniteSet(Switch!Tally(g))
  PROVE  /\ IsFiniteSet(Switch!Tally(f)) /\ IsFiniteSet(Switch!Tally(g))
         /\ Cardinality(Switch!Tally(f)) \in Nat
         /\ Cardinality(Switch!Tally(g)) = Cardinality(Switch!Tally(f)) + 1
<1> DEFINE new == <<d, g[d]>>
<1>1. ASSUME NEW e
      PROVE  e \in Switch!Tally(g) <=> e \in Switch!Tally(f) \/ e = new
  <2>1. e \in Switch!Tally(g) <=>
          \E x \in D \cup {d} : \E k \in 1..g[x] : e = <<x, k>>
    BY TallyElements
  <2>2. e \in Switch!Tally(f) <=> \E x \in D : \E k \in 1..f[x] : e = <<x, k>>
    BY TallyElements
  <2>3. \A k : k \in 1..g[d] <=> (d \in D /\ k \in 1..f[d]) \/ k = g[d]
    OBVIOUS
  <2>4. QED
    BY <2>1, <2>2, <2>3
<1>2. new \notin Switch!Tally(f)
  <2>1. SUFFICES ASSUME new \in Switch!Tally(f) PROVE FALSE
    OBVIOUS
  <2>2. PICK x \in D : \E k \in 1..f[x] : new = <<x, k>>
    BY <2>1, TallyElements
  <2>3. d \in D /\ g[d] \in 1..f[d]
    BY <2>2
  <2>4. QED
    BY <2>3
<1>3. Switch!Tally(g) = Switch!Tally(f) \cup {new}
  BY <1>1
<1>4. QED
  <2> HIDE DEF new
  <2>1. QED
    BY <1>2, <1>3, OneMore

(* The same everywhere is a product.                                         *)
LEMMA TallyEven ==
  ASSUME NEW n \in Nat, NEW k \in Nat, NEW f \in [1..n -> {k}]
  PROVE  /\ IsFiniteSet(Switch!Tally(f))
         /\ Cardinality(Switch!Tally(f)) = n * k
<1>1. Switch!Tally(f) = (1..n) \X (1..k)
  <2>1. \A e : e \in Switch!Tally(f) <=>
          \E x \in 1..n : \E j \in 1..k : e = <<x, j>>
    BY TallyElements
  <2>2. QED
    BY <2>1
<1>2. QED
  BY <1>1, Rectangle

LEMMA TallyOfNone ==
  ASSUME NEW f, \A x \in DOMAIN f : f[x] = 0
  PROVE  Switch!Tally(f) = {}
BY TallyElements

(* The jobs that have been made, wait in the queue, are run, are recorded.   *)
Made == Switch!Tally([p \in DOMAIN provider |-> provider[p].exec])
Queued == Switch!Tally(queue)
Run == {c \in DOMAIN job : job[c] # 0}
Recorded == Switch!Tally(excuteState)

(* None of them is lost and none is counted twice.                           *)
JobsAddUp ==
  /\ IsFiniteSet(Made) /\ IsFiniteSet(Queued) /\ IsFiniteSet(Run)
  /\ IsFiniteSet(Recorded)
  /\ Cardinality(Made) =
       Cardinality(Queued) + Cardinality(Run) + Cardinality(Recorded)

SwitchTypeOK ==
  /\ given.providers \in Nat \ {0} /\ given.consumers \in Nat \ {0}
  /\ given.warmUpIter \in Nat /\ given.runIter \in Nat
  /\ given.runSync \in BOOLEAN
  /\ provider \in [1..given.providers -> [exec : Nat, waits : BOOLEAN]]
  /\ queue \in [1..given.providers -> Nat]
  /\ \E k \in 0..given.consumers : job \in [1..k -> 0..given.providers]
  /\ DOMAIN excuteState \subseteq DOMAIN job
  /\ excuteState \in [DOMAIN excuteState -> Nat]

SwitchIInv ==
  /\ tspc \in {"args", "biz", "cons", "cal", "done", "exception"}
  /\ tspc = "args" =>
       provider = <<>> /\ queue = <<>> /\ job = <<>> /\ excuteState = <<>>
  /\ tspc # "args" =>
       /\ SwitchTypeOK
       /\ JobsAddUp
       /\ \A p \in DOMAIN provider : provider[p].exec <= Switch!totalIter
  /\ tspc \in {"cons", "cal", "done", "exception"} =>
       \A p \in DOMAIN provider : provider[p].exec = Switch!totalIter
  /\ tspc \in {"cal", "done", "exception"} =>
       /\ \A p \in DOMAIN queue : queue[p] = 0
       /\ \A c \in DOMAIN job : job[c] = 0
  /\ tspc = "exception" =>
       \E c \in DOMAIN excuteState : Switch!Throws(excuteState[c])

LEMMA SwitchMain ==
  ASSUME SwitchIInv,
         NEW p \in 1..MaxThreads, NEW c \in 1..MaxThreads,
         NEW w \in 0..MaxWarmUp, NEW r \in 0..MaxIter, NEW s \in BOOLEAN,
         Switch!main(p, c, w, r, s)
  PROVE  SwitchIInv'
<1>1. p \in Nat \ {0} /\ c \in Nat \ {0} /\ w \in Nat /\ r \in Nat
  BY SwitchAssumption
<1>2. /\ tspc' = "biz" /\ job' = <<>> /\ excuteState' = <<>>
      /\ given' = [providers |-> p, consumers |-> c, warmUpIter |-> w,
                   runIter |-> r, runSync |-> s]
      /\ provider' = [x \in 1..p |-> [exec |-> 0, waits |-> FALSE]]
      /\ queue' = [x \in 1..p |-> 0]
  BY DEF Switch!main, SwitchIInv
<1>3. SwitchTypeOK'
  <2>1. /\ given'.providers = p /\ given'.consumers = c
        /\ given'.warmUpIter = w /\ given'.runIter = r /\ given'.runSync = s
    BY <1>2
  <2>2. job' \in [1..0 -> 0..p] /\ 0 \in 0..c
    BY <1>1, <1>2
  <2>3. DOMAIN excuteState' = {} /\ excuteState' \in [{} -> Nat]
    BY <1>2
  <2>4. /\ provider' \in [1..p -> [exec : Nat, waits : BOOLEAN]]
        /\ queue' \in [1..p -> Nat]
    BY <1>2
  <2>5. QED
    BY <1>1, <2>1, <2>2, <2>3, <2>4 DEF SwitchTypeOK
<1>4. Made' = {} /\ Queued' = {} /\ Run' = {} /\ Recorded' = {}
  <2>1. Made' = {}
    <3>1. Made' = Switch!Tally([x \in DOMAIN provider' |-> provider'[x].exec])
      BY DEF Made, Switch!Tally
    <3>2. [x \in DOMAIN provider' |-> provider'[x].exec] = [x \in 1..p |-> 0]
      BY <1>2
    <3>3. QED
      BY <3>1, <3>2, TallyOfNone
  <2>2. Queued' = {}
    <3>1. Queued' = Switch!Tally(queue')
      BY DEF Queued, Switch!Tally
    <3>2. QED
      BY <1>2, <3>1, TallyOfNone
  <2>3. Recorded' = {}
    <3>1. Recorded' = Switch!Tally(excuteState')
      BY DEF Recorded, Switch!Tally
    <3>2. QED
      BY <1>2, <3>1, TallyOfNone
  <2>4. QED
    BY <1>2, <2>1, <2>2, <2>3 DEF Run
<1>5. JobsAddUp'
  BY <1>4, FS_EmptySet DEF JobsAddUp
<1>6. \A x \in DOMAIN provider' : provider'[x].exec <= (w + r)
  BY <1>1, <1>2
<1>7. Switch!totalIter' = w + r
  BY <1>2 DEF Switch!totalIter
<1>8. QED
  BY <1>2, <1>3, <1>5, <1>6, <1>7 DEF SwitchIInv

LEMMA SwitchSubmits ==
  ASSUME SwitchIInv, NEW p \in DOMAIN provider, Switch!provider_submits(p)
  PROVE  SwitchIInv'
<1>1. /\ tspc = "biz" /\ SwitchTypeOK /\ JobsAddUp
      /\ \A x \in DOMAIN provider : provider[x].exec <= Switch!totalIter
      /\ UNCHANGED <<given, tspc, excuteState>>
      /\ provider[p].exec < Switch!totalIter
      /\ provider' = [provider EXCEPT ![p] =
                        [exec |-> @.exec + 1, waits |-> given.runSync]]
  BY DEF Switch!provider_submits, SwitchIInv
<1> DEFINE P == 1..given.providers
<1>2. /\ provider \in [P -> [exec : Nat, waits : BOOLEAN]]
      /\ queue \in [P -> Nat] /\ p \in P /\ DOMAIN provider = P
      /\ given.providers \in Nat /\ given.consumers \in Nat
      /\ given.runSync \in BOOLEAN
      /\ given.warmUpIter \in Nat /\ given.runIter \in Nat
      /\ DOMAIN excuteState \subseteq DOMAIN job
  BY <1>1 DEF SwitchTypeOK
<1>3. PICK n \in 0..given.consumers : job \in [1..n -> 0..given.providers]
  BY <1>1 DEF SwitchTypeOK
<1>4. /\ provider' \in [P -> [exec : Nat, waits : BOOLEAN]]
      /\ provider'[p].exec = provider[p].exec + 1
      /\ \A x \in P : x # p => provider'[x] = provider[x]
  BY <1>1, <1>2
<1>5. /\ IsFiniteSet(Made') /\ Cardinality(Made') = Cardinality(Made) + 1
      /\ Cardinality(Made) \in Nat
  <2> DEFINE f == [x \in DOMAIN provider |-> provider[x].exec]
             g == [x \in DOMAIN provider' |-> provider'[x].exec]
  <2>1. Made = Switch!Tally(f) /\ Made' = Switch!Tally(g)
    BY DEF Made, Switch!Tally
  <2>2. /\ f \in [P -> Nat] /\ g \in [P \cup {p} -> Nat]
        /\ g[p] = (IF p \in P THEN f[p] ELSE 0) + 1
        /\ \A x \in P : x # p => g[x] = f[x]
    BY <1>2, <1>4
  <2>3. IsFiniteSet(Switch!Tally(f))
    BY <1>1, <2>1 DEF JobsAddUp
  <2> HIDE DEF f, g, P
  <2>4. QED
    BY <2>1, <2>2, <2>3, TallyMore
<1>6. Recorded' = Recorded
  BY <1>1 DEF Recorded, Switch!Tally
<1>7. \A x \in DOMAIN provider' : provider'[x].exec <= Switch!totalIter
  <2>1. Switch!totalIter \in Nat
    BY <1>2 DEF Switch!totalIter
  <2>2. provider[p].exec \in Nat /\ provider'[p].exec <= Switch!totalIter
    BY <1>1, <1>2, <1>4, <2>1
  <2>3. DOMAIN provider' = DOMAIN provider
    BY <1>2, <1>4
  <2>4. QED
    BY <1>1, <1>2, <1>4, <2>2, <2>3
<1>8. Switch!totalIter' = Switch!totalIter
  BY <1>1 DEF Switch!totalIter
<1>9. Cardinality(DOMAIN job) = n /\ DOMAIN job = 1..n
  BY <1>3, FS_Interval
<1>10. CASE n < given.consumers
  <2>1. /\ job' = [c \in 1..n + 1 |-> IF c \in DOMAIN job THEN job[c] ELSE p]
        /\ UNCHANGED queue
    BY <1>9, <1>10, SwitchSizes DEF Switch!provider_submits
  <2>2. /\ job' \in [1..n + 1 -> 0..given.providers]
        /\ n + 1 \in 0..given.consumers
        /\ DOMAIN job \subseteq DOMAIN job'
    BY <1>2, <1>3, <1>9, <1>10, <2>1
  <2>3. SwitchTypeOK'
    BY <1>1, <1>2, <1>4, <2>1, <2>2 DEF SwitchTypeOK
  <2>4. n + 1 \notin Run /\ Run' = Run \cup {n + 1}
    BY <1>2, <1>3, <1>9, <2>1 DEF Run
  <2>5. /\ IsFiniteSet(Run') /\ Cardinality(Run') = Cardinality(Run) + 1
        /\ Cardinality(Run) \in Nat
    BY <1>1, <2>4, OneMore DEF JobsAddUp
  <2>6. Queued' = Queued
    BY <2>1 DEF Queued, Switch!Tally
  <2>7. JobsAddUp'
    <3>1. Cardinality(Queued) \in Nat /\ Cardinality(Recorded) \in Nat
      BY <1>1, FS_CardinalityType DEF JobsAddUp
    <3>2. QED
      BY <1>1, <1>5, <1>6, <2>5, <2>6, <3>1 DEF JobsAddUp
  <2>8. QED
    BY <1>1, <1>7, <1>8, <2>3, <2>7 DEF SwitchIInv
<1>11. CASE ~(n < given.consumers)
  <2>1. queue' = [queue EXCEPT ![p] = @ + 1] /\ UNCHANGED job
    BY <1>9, <1>11, SwitchSizes DEF Switch!provider_submits
  <2>2. /\ queue' \in [P -> Nat] /\ queue'[p] = queue[p] + 1
        /\ \A x \in P : x # p => queue'[x] = queue[x]
    BY <1>2, <2>1
  <2>3. SwitchTypeOK'
    BY <1>1, <1>2, <1>3, <1>4, <2>1, <2>2 DEF SwitchTypeOK
  <2>4. /\ IsFiniteSet(Queued')
        /\ Cardinality(Queued') = Cardinality(Queued) + 1
        /\ Cardinality(Queued) \in Nat
    <3>1. Queued = Switch!Tally(queue) /\ Queued' = Switch!Tally(queue')
      BY DEF Queued, Switch!Tally
    <3>2. /\ queue' \in [P \cup {p} -> Nat]
          /\ queue'[p] = (IF p \in P THEN queue[p] ELSE 0) + 1
      BY <1>2, <2>2
    <3>3. IsFiniteSet(Switch!Tally(queue))
      BY <1>1, <3>1 DEF JobsAddUp
    <3> HIDE DEF P
    <3>4. QED
      BY <1>2, <2>2, <3>1, <3>2, <3>3, TallyMore
  <2>5. Run' = Run
    BY <2>1 DEF Run
  <2>6. JobsAddUp'
    <3>1. Cardinality(Run) \in Nat /\ Cardinality(Recorded) \in Nat
      BY <1>1, FS_CardinalityType DEF JobsAddUp
    <3>2. QED
      BY <1>1, <1>5, <1>6, <2>4, <2>5, <3>1 DEF JobsAddUp
  <2>7. QED
    BY <1>1, <1>7, <1>8, <2>3, <2>6 DEF SwitchIInv
<1>12. QED
  BY <1>10, <1>11

LEMMA SwitchTakes ==
  ASSUME SwitchIInv, NEW c \in DOMAIN job, NEW p \in DOMAIN queue,
         Switch!consumer_takes(c, p)
  PROVE  SwitchIInv'
<1>1. /\ job[c] = 0 /\ queue[p] > 0
      /\ job' = [job EXCEPT ![c] = p]
      /\ queue' = [queue EXCEPT ![p] = @ - 1]
      /\ UNCHANGED <<given, tspc, provider, excuteState>>
  BY DEF Switch!consumer_takes, Switch!None
<1>2. tspc \in {"biz", "cons"} /\ SwitchTypeOK /\ JobsAddUp
  <2>1. tspc # "args"
    BY DEF SwitchIInv
  <2>2. tspc \notin {"cal", "done", "exception"}
    BY <1>1 DEF SwitchIInv
  <2>3. QED
    BY <2>1, <2>2 DEF SwitchIInv
<1> DEFINE P == 1..given.providers
<1>3. /\ queue \in [P -> Nat] /\ p \in P /\ given.providers \in Nat
  BY <1>2 DEF SwitchTypeOK
<1>4. PICK n \in 0..given.consumers : job \in [1..n -> 0..given.providers]
  BY <1>2 DEF SwitchTypeOK
<1>5. /\ queue' \in [P -> Nat] /\ queue[p] = queue'[p] + 1
      /\ \A x \in P : x # p => queue[x] = queue'[x]
  BY <1>1, <1>3
<1>6. job' \in [1..n -> 0..given.providers] /\ DOMAIN job' = DOMAIN job
  BY <1>1, <1>3, <1>4
<1>7. SwitchTypeOK'
  BY <1>1, <1>2, <1>4, <1>5, <1>6 DEF SwitchTypeOK
<1>8. Made' = Made /\ Recorded' = Recorded
  BY <1>1 DEF Made, Recorded, Switch!Tally
<1>9. /\ IsFiniteSet(Run') /\ Cardinality(Run') = Cardinality(Run) + 1
      /\ Cardinality(Run) \in Nat
  <2>1. c \notin Run /\ Run' = Run \cup {c}
    BY <1>1, <1>3, <1>4 DEF Run
  <2>2. QED
    BY <1>2, <2>1, OneMore DEF JobsAddUp
<1>10. /\ IsFiniteSet(Queued') /\ Cardinality(Queued) = Cardinality(Queued') + 1
       /\ Cardinality(Queued') \in Nat
  <2>1. Queued = Switch!Tally(queue) /\ Queued' = Switch!Tally(queue')
    BY DEF Queued, Switch!Tally
  <2>2. /\ queue \in [P \cup {p} -> Nat]
        /\ queue[p] = (IF p \in P THEN queue'[p] ELSE 0) + 1
    BY <1>3, <1>5
  <2>3. IsFiniteSet(Switch!Tally(queue))
    BY <1>2, <2>1 DEF JobsAddUp
  <2> HIDE DEF P
  <2>4. QED
    BY <1>5, <2>1, <2>2, <2>3, TallyMore
<1>11. JobsAddUp'
  <2>1. Cardinality(Recorded) \in Nat
    BY <1>2, FS_CardinalityType DEF JobsAddUp
  <2>2. QED
    BY <1>2, <1>8, <1>9, <1>10, <2>1 DEF JobsAddUp
<1>12. Switch!totalIter' = Switch!totalIter
  BY <1>1 DEF Switch!totalIter
<1>13. QED
  BY <1>1, <1>2, <1>7, <1>11, <1>12 DEF SwitchIInv

LEMMA SwitchRuns ==
  ASSUME SwitchIInv, NEW c \in DOMAIN job, Switch!consumer_runs(c)
  PROVE  SwitchIInv'
<1>1. /\ job[c] # 0
      /\ excuteState' = [d \in DOMAIN excuteState \cup {c} |->
           (IF d \in DOMAIN excuteState THEN excuteState[d] ELSE 0)
             + (IF d = c THEN 1 ELSE 0)]
      /\ provider' = [provider EXCEPT ![job[c]].waits = FALSE]
      /\ job' = [job EXCEPT ![c] = 0]
      /\ UNCHANGED <<given, tspc, queue>>
  BY DEF Switch!consumer_runs, Switch!None
<1>2. tspc \in {"biz", "cons"} /\ SwitchTypeOK /\ JobsAddUp
  <2>1. tspc # "args"
    BY DEF SwitchIInv
  <2>2. tspc \notin {"cal", "done", "exception"}
    BY <1>1 DEF SwitchIInv
  <2>3. QED
    BY <2>1, <2>2 DEF SwitchIInv
<1> DEFINE P == 1..given.providers
<1>3. /\ provider \in [P -> [exec : Nat, waits : BOOLEAN]]
      /\ given.providers \in Nat
      /\ DOMAIN excuteState \subseteq DOMAIN job
      /\ excuteState \in [DOMAIN excuteState -> Nat]
  BY <1>2 DEF SwitchTypeOK
<1>4. PICK n \in 0..given.consumers : job \in [1..n -> 0..given.providers]
  BY <1>2 DEF SwitchTypeOK
<1>5. job[c] \in P
  BY <1>1, <1>3, <1>4
<1>6. /\ provider' \in [P -> [exec : Nat, waits : BOOLEAN]]
      /\ \A x \in P : provider'[x].exec = provider[x].exec
  BY <1>1, <1>3, <1>5
<1>7. /\ job' \in [1..n -> 0..given.providers] /\ DOMAIN job' = DOMAIN job
  BY <1>1, <1>3, <1>4
<1> DEFINE D == DOMAIN excuteState
<1>8. /\ excuteState' \in [D \cup {c} -> Nat]
      /\ excuteState'[c] = (IF c \in D THEN excuteState[c] ELSE 0) + 1
      /\ \A x \in D : x # c => excuteState'[x] = excuteState[x]
      /\ DOMAIN excuteState' = D \cup {c}
  <2>1. \A x \in D : excuteState[x] \in Nat
    BY <1>3
  <2>2. QED
    BY <1>1, <2>1
<1>9. SwitchTypeOK'
  BY <1>1, <1>2, <1>3, <1>4, <1>6, <1>7, <1>8 DEF SwitchTypeOK
<1>10. Made' = Made /\ Queued' = Queued
  <2>1. Made' = Switch!Tally([p \in DOMAIN provider' |-> provider'[p].exec])
    BY DEF Made, Switch!Tally
  <2>2. [p \in DOMAIN provider' |-> provider'[p].exec] =
          [p \in DOMAIN provider |-> provider[p].exec]
    BY <1>3, <1>6
  <2>3. QED
    BY <1>1, <2>1, <2>2 DEF Made, Queued, Switch!Tally
<1>11. /\ IsFiniteSet(Run') /\ Cardinality(Run) = Cardinality(Run') + 1
       /\ Cardinality(Run') \in Nat
  <2>1. c \notin Run' /\ Run = Run' \cup {c}
    BY <1>1, <1>4, <1>7 DEF Run
  <2>2. IsFiniteSet(Run)
    BY <1>2 DEF JobsAddUp
  <2>3. QED
    BY <2>1, <2>2, OneMore
<1>12. /\ IsFiniteSet(Recorded')
       /\ Cardinality(Recorded') = Cardinality(Recorded) + 1
       /\ Cardinality(Recorded) \in Nat
  <2>1. /\ Recorded = Switch!Tally(excuteState)
        /\ Recorded' = Switch!Tally(excuteState')
    BY DEF Recorded, Switch!Tally
  <2>2. IsFiniteSet(Switch!Tally(excuteState)) /\ excuteState \in [D -> Nat]
    BY <1>2, <1>3, <2>1 DEF JobsAddUp
  <2> HIDE DEF D
  <2>3. QED
    BY <1>8, <2>1, <2>2, TallyMore
<1>13. JobsAddUp'
  <2>1. Cardinality(Queued) \in Nat
    BY <1>2, FS_CardinalityType DEF JobsAddUp
  <2>2. QED
    BY <1>2, <1>10, <1>11, <1>12, <2>1 DEF JobsAddUp
<1>14. Switch!totalIter' = Switch!totalIter
  BY <1>1 DEF Switch!totalIter
<1>15. \A x \in DOMAIN provider' :
         x \in DOMAIN provider /\ provider'[x].exec = provider[x].exec
  BY <1>3, <1>6
<1>16. QED
  BY <1>1, <1>2, <1>9, <1>13, <1>14, <1>15 DEF SwitchIInv

LEMMA SwitchTerminates ==
  ASSUME SwitchIInv,
         \/ Switch!biz_terminates \/ Switch!excutor_terminates
         \/ Switch!calResult
  PROVE  SwitchIInv'
<1>1. /\ UNCHANGED <<given, provider, queue, job, excuteState>>
      /\ tspc # "args" /\ tspc' \in {"cons", "cal", "done", "exception"}
      /\ \/ tspc = "biz" /\ tspc' = "cons"
         \/ tspc = "cons" /\ tspc' = "cal"
         \/ tspc = "cal" /\ tspc' \in {"done", "exception"}
  BY DEF Switch!biz_terminates, Switch!excutor_terminates, Switch!calResult
<1>2. SwitchTypeOK' /\ JobsAddUp' /\ Switch!totalIter' = Switch!totalIter
  BY <1>1 DEF SwitchIInv, SwitchTypeOK, JobsAddUp, Made, Queued, Run, Recorded,
     Switch!Tally, Switch!totalIter
<1>3. \A p \in DOMAIN provider : provider[p].exec = Switch!totalIter
  <2>1. CASE Switch!biz_terminates
    <3>1. \A p \in DOMAIN provider : provider[p].exec >= Switch!totalIter
      BY <2>1 DEF Switch!biz_terminates
    <3>2. /\ \A p \in DOMAIN provider : provider[p].exec <= Switch!totalIter
          /\ SwitchTypeOK
      BY <1>1 DEF SwitchIInv
    <3>3. /\ Switch!totalIter \in Nat
          /\ \A p \in DOMAIN provider : provider[p].exec \in Nat
      BY <3>2 DEF SwitchTypeOK, Switch!totalIter
    <3>4. QED
      BY <3>1, <3>2, <3>3
  <2>2. CASE ~Switch!biz_terminates
    BY <2>2 DEF Switch!excutor_terminates, Switch!calResult, SwitchIInv
  <2>3. QED
    BY <2>1, <2>2
<1>4. tspc' \in {"cal", "done", "exception"} =>
        /\ \A p \in DOMAIN queue : queue[p] = 0
        /\ \A c \in DOMAIN job : job[c] = 0
  BY <1>1 DEF SwitchIInv, Switch!excutor_terminates, Switch!calResult,
     Switch!biz_terminates, Switch!None
<1>5. tspc' = "exception" =>
        \E c \in DOMAIN excuteState : Switch!Throws(excuteState[c])
  BY DEF Switch!excutor_terminates, Switch!calResult, Switch!biz_terminates
<1>6. (\E c \in DOMAIN excuteState : Switch!Throws(excuteState[c])) =>
        (\E c \in DOMAIN excuteState : Switch!Throws(excuteState[c]))'
  BY <1>1 DEF Switch!Throws
<1>7. \A p \in DOMAIN provider : provider[p].exec <= Switch!totalIter
  BY <1>1 DEF SwitchIInv
<1>8. QED
  BY <1>1, <1>2, <1>3, <1>4, <1>5, <1>6, <1>7 DEF SwitchIInv

LEMMA SwitchStep ==
  ASSUME SwitchIInv, [Switch!Next]_(Switch!vars)
  PROVE  SwitchIInv'
<1>1. CASE UNCHANGED Switch!vars
  BY <1>1 DEF Switch!vars, SwitchIInv, SwitchTypeOK, JobsAddUp, Made, Queued,
     Run, Recorded, Switch!Tally, Switch!totalIter, Switch!Throws
<1>2. QED
  BY <1>1, SwitchMain, SwitchSubmits, SwitchTakes, SwitchRuns, SwitchTerminates
     DEF Switch!Next, Switch!consumer

LEMMA SwitchSteps == [Next]_vars => [Switch!Next]_(Switch!vars)
BY DEF Next, vars, Still, two_points, some_bytes, buffer, mask, array, salary,
   Chosen, switchVars, Switch!vars

(* All the providers' iterations, none of them twice.                        *)
LEMMA AllRecorded ==
  ASSUME SwitchIInv, tspc \in {"cal", "done", "exception"}
  PROVE  /\ Switch!Executed = given.providers * Switch!totalIter
         /\ Switch!totalIter \in Nat
<1>1. /\ SwitchTypeOK /\ JobsAddUp
      /\ \A p \in DOMAIN provider : provider[p].exec = Switch!totalIter
      /\ \A p \in DOMAIN queue : queue[p] = 0
      /\ \A c \in DOMAIN job : job[c] = 0
  BY DEF SwitchIInv
<1>2. /\ given.providers \in Nat /\ Switch!totalIter \in Nat
      /\ DOMAIN provider = 1..given.providers
  BY <1>1 DEF SwitchTypeOK, Switch!totalIter
<1>3. Queued = {} /\ Run = {}
  BY <1>1, TallyOfNone DEF Queued, Run
<1>4. Cardinality(Made) = given.providers * Switch!totalIter
  <2> DEFINE n == given.providers
             k == Switch!totalIter
             f == [p \in DOMAIN provider |-> provider[p].exec]
  <2>1. f \in [1..n -> {k}] /\ n \in Nat /\ k \in Nat
    BY <1>1, <1>2
  <2> HIDE DEF f, n, k
  <2>2. Cardinality(Switch!Tally(f)) = n * k
    BY <2>1, TallyEven
  <2>3. QED
    BY <2>2 DEF f, n, k, Made
<1>5. Cardinality(Made) = Cardinality(Recorded)
  BY <1>1, <1>3, FS_EmptySet, FS_CardinalityType DEF JobsAddUp
<1>6. Switch!Executed = Cardinality(Recorded)
  BY SwitchSizes DEF Switch!Executed, Recorded
<1>7. QED
  BY <1>2, <1>4, <1>5, <1>6

(* With a warm-up and more than Skip measured jobs, only a list shorter than *)
(* what one provider makes throws.                                           *)
LEMMA OnlyShortListsThrow ==
  ASSUME SwitchIInv, tspc = "exception",
         given.warmUpIter # 0, ~(given.runIter <= Skip)
  PROVE  \E c \in DOMAIN excuteState : excuteState[c] < Switch!totalIter
<1>1. PICK c \in DOMAIN excuteState : Switch!Throws(excuteState[c])
  BY DEF SwitchIInv
<1>2. SwitchTypeOK
  BY DEF SwitchIInv
<1>3. /\ given.warmUpIter \in Nat /\ given.runIter \in Nat
      /\ Switch!totalIter = given.warmUpIter + given.runIter
      /\ excuteState[c] \in Nat
  BY <1>1, <1>2 DEF SwitchTypeOK, Switch!totalIter
<1>4. QED
  BY <1>1, <1>3, SwitchAssumption DEF Switch!Throws

(* A single consumer has recorded them all, so its list is long enough.      *)
LEMMA OneConsumerIsEnough ==
  ASSUME SwitchIInv, tspc = "exception"
  PROVE  \/ given.consumers > 1 \/ given.warmUpIter = 0
         \/ given.runIter <= Skip
<1>1. PICK c \in DOMAIN excuteState : Switch!Throws(excuteState[c])
  BY DEF SwitchIInv
<1>2. /\ SwitchTypeOK /\ Switch!totalIter \in Nat
      /\ Switch!Executed = given.providers * Switch!totalIter
  BY AllRecorded DEF SwitchIInv
<1>3. SUFFICES ASSUME given.consumers = 1, given.warmUpIter # 0,
                      given.runIter > Skip
               PROVE  FALSE
  BY <1>2, SwitchAssumption DEF SwitchTypeOK
<1>4. DOMAIN excuteState = 1..1 /\ excuteState[c] \in Nat /\ c = 1
  <2>1. PICK k \in 0..given.consumers : job \in [1..k -> 0..given.providers]
    BY <1>2 DEF SwitchTypeOK
  <2>2. DOMAIN excuteState \subseteq 1..1
    BY <1>2, <1>3, <2>1 DEF SwitchTypeOK
  <2>3. \A x \in 1..1 : x = 1
    OBVIOUS
  <2>4. excuteState[c] \in Nat
    BY <1>2 DEF SwitchTypeOK
  <2>5. QED
    BY <1>1, <2>2, <2>3, <2>4
<1>5. Cardinality(Switch!Tally(excuteState)) = 1 * excuteState[c]
  <2> DEFINE k == excuteState[c]
  <2>1. excuteState \in [1..1 -> {k}]
    <3>1. excuteState \in [DOMAIN excuteState -> Nat]
      BY <1>2 DEF SwitchTypeOK
    <3>2. QED
      BY <1>4, <3>1
  <2>2. k \in Nat
    BY <1>4
  <2> HIDE DEF k
  <2>3. Cardinality(Switch!Tally(excuteState)) = 1 * k
    BY <2>1, <2>2, TallyEven
  <2>4. QED
    BY <2>3 DEF k
<1>6. excuteState[c] = given.providers * Switch!totalIter
  BY <1>2, <1>4, <1>5, SwitchSizes DEF Switch!Executed
<1>7. given.providers * Switch!totalIter >= Switch!totalIter
  <2>1. given.providers \in Nat /\ given.providers >= 1
    BY <1>2 DEF SwitchTypeOK
  <2> DEFINE n == given.providers
             k == Switch!totalIter
  <2>2. n \in Nat /\ n >= 1 /\ k \in Nat
    BY <1>2, <2>1
  <2> HIDE DEF n, k
  <2>3. n * k >= k
    BY <2>2
  <2>4. QED
    BY <2>3 DEF n, k
<1>8. /\ given.warmUpIter \in Nat /\ given.runIter \in Nat
      /\ Switch!totalIter = given.warmUpIter + given.runIter
  BY <1>2 DEF SwitchTypeOK, Switch!totalIter
<1>9. excuteState[c] >= given.warmUpIter + given.runIter
  BY <1>6, <1>7, <1>8
<1>10. QED
  BY <1>1, <1>3, <1>4, <1>8, <1>9, SwitchAssumption DEF Switch!Throws

(* When ThreadSwitch adds up its results every job of every provider is      *)
(* among them, once: for every number of providers, consumers and jobs.      *)
THEOREM JobsAreCountedOnce == Spec => []Switch!EveryJobIsCounted
<1>1. Init => SwitchIInv
  BY DEF Init, Switch!Init, SwitchIInv
<1>2. SwitchIInv /\ [Next]_vars => SwitchIInv'
  BY SwitchStep, SwitchSteps
<1>3. SwitchIInv => Switch!EveryJobIsCounted
  <2>1. SUFFICES ASSUME SwitchIInv PROVE Switch!EveryJobIsCounted
    OBVIOUS
  <2>2. ASSUME tspc \in {"cal", "done", "exception"}
        PROVE  /\ Switch!Executed = given.providers * Switch!totalIter
               /\ DOMAIN excuteState \subseteq 1..given.consumers
    <3>1. SwitchTypeOK
      BY <2>1, <2>2 DEF SwitchIInv
    <3>2. PICK k \in 0..given.consumers : job \in [1..k -> 0..given.providers]
      BY <3>1 DEF SwitchTypeOK
    <3>3. DOMAIN excuteState \subseteq 1..given.consumers
      BY <3>1, <3>2 DEF SwitchTypeOK
    <3>4. QED
      BY <2>1, <2>2, <3>3, AllRecorded
  <2>3. QED
    BY <2>1, <2>2, OneConsumerIsEnough, OnlyShortListsThrow
       DEF Switch!EveryJobIsCounted
<1>4. QED
  BY <1>1, <1>2, <1>3, PTL DEF Spec

-----------------------------------------------------------------------------
(* Ascii: what the loops read                                                *)

(* n rounds of two loads leave no byte of their blocks unread.               *)
LEMMA BlocksAreRead ==
  ASSUME NEW n \in Nat, NEW half \in Nat \ {0}
  PROVE  Bytes!Read(n, 2 * half) = 0 .. 2 * half * n - 1
<1>1. (2 * half) \div 2 = half
  OBVIOUS
<1>2. ASSUME NEW q \in Bytes!Read(n, 2 * half)
      PROVE  q \in 0 .. 2 * half * n - 1
  <2>1. PICK k \in 0 .. n - 1, b \in 0 .. 2 * half - 1 : q = 2 * half * k + b
    <3>1. CASE \E k \in 0 .. n - 1, b \in 0 .. half - 1 :
                 q = 2 * half * k + b
      BY <3>1
    <3>2. CASE \E k \in 0 .. n - 1, b \in 0 .. half - 1 :
                 q = 2 * half * k + b + half
      <4>1. PICK k \in 0 .. n - 1, b \in 0 .. half - 1 :
                 q = 2 * half * k + b + half
        BY <3>2
      <4>2. b + half \in 0 .. 2 * half - 1 /\ 2 * half * k \in Int
        OBVIOUS
      <4>3. q = 2 * half * k + (b + half)
        BY <4>1, <4>2
      <4>4. QED
        BY <4>2, <4>3
    <3>3. QED
      BY <1>1, <1>2, <3>1, <3>2 DEF Bytes!Read
  <2>2. 2 * half * k <= 2 * half * (n - 1) /\ 0 <= 2 * half * k
    OBVIOUS
  <2>3. 2 * half * (n - 1) = 2 * half * n - 2 * half
    OBVIOUS
  <2>4. 2 * half * k \in Int /\ 2 * half * n \in Int
    OBVIOUS
  <2>5. QED
    BY <2>1, <2>2, <2>3, <2>4
<1>3. ASSUME NEW q \in 0 .. 2 * half * n - 1
      PROVE  q \in Bytes!Read(n, 2 * half)
  <2> DEFINE k == q \div (2 * half)
             b == q % (2 * half)
  <2>1. /\ q \in Nat /\ k \in Nat /\ b \in 0 .. 2 * half - 1
        /\ q = 2 * half * k + b
    OBVIOUS
  <2>2. k <= n - 1
    <3>1. SUFFICES ASSUME k >= n PROVE FALSE
      BY <2>1
    <3>2. 2 * half * k >= 2 * half * n
      BY <2>1, <3>1
    <3>3. 2 * half * k \in Int /\ 2 * half * n \in Int
      BY <2>1
    <3>4. QED
      BY <2>1, <3>2, <3>3
  <2>3. k \in 0 .. n - 1
    BY <2>1, <2>2
  <2> HIDE DEF k, b
  <2>4. CASE b < half
    <3>1. b \in 0 .. half - 1
      BY <2>1, <2>4
    <3>2. q \in {2 * half * j + c : j \in 0 .. n - 1, c \in 0 .. half - 1}
      BY <2>1, <2>3, <3>1
    <3>3. QED
      BY <1>1, <3>2 DEF Bytes!Read
  <2>5. CASE b >= half
    <3>1. b - half \in 0 .. half - 1
      BY <2>1, <2>5
    <3>2. q = 2 * half * k + (b - half) + half
      <4>1. 2 * half * k \in Int
        BY <2>1
      <4>2. QED
        BY <2>1, <4>1
    <3>3. q \in {2 * half * j + c + half :
                    j \in 0 .. n - 1, c \in 0 .. half - 1}
      <4>1. PICK e \in 0 .. half - 1 : e = b - half
        BY <3>1
      <4>2. q = 2 * half * k + e + half
        BY <3>2, <4>1
      <4>3. \E j \in 0 .. n - 1, c \in 0 .. half - 1 :
              q = 2 * half * j + c + half
        BY <2>3, <4>1, <4>2
      <4>4. QED
        BY <4>3, SMTT(30)
    <3>4. QED
      BY <1>1, <3>3 DEF Bytes!Read
  <2>6. QED
    BY <2>1, <2>4, <2>5
<1>4. QED
  BY <1>2, <1>3

LEMMA SixteensAreRead ==
  ASSUME NEW n \in Nat
  PROVE  Bytes!Read(n, 16) = 0 .. 16 * n - 1
<1>1. Bytes!Read(n, 2 * 8) = 0 .. 2 * 8 * n - 1
  BY BlocksAreRead
<1>2. 2 * 8 = 16
  OBVIOUS
<1>3. QED
  BY <1>1, <1>2

(* ascii_u64 from position d.                                                *)
LEMMA PlainLoop ==
  ASSUME NEW d \in Nat, NEW len \in Nat, NEW p \in Nat
  PROVE  Bytes!ascii_u64({p}, d, len) <=> p \notin d .. d + len - 1
<1> DEFINE rounds == IF len >= 16 THEN len \div 16 ELSE 0
           seen == {d + q : q \in Bytes!Read(rounds, 16)}
           rest == d + 16 * rounds .. d + len - 1
<1>1. rounds \in Nat /\ 16 * rounds <= len
  OBVIOUS
<1>2. Bytes!Read(rounds, 16) = 0 .. 16 * rounds - 1
  BY <1>1, SixteensAreRead
<1>3. p \in seen <=> p \in d .. d + 16 * rounds - 1
  <2>1. ASSUME p \in d .. d + 16 * rounds - 1 PROVE p \in seen
    <3>1. p - d \in 0 .. 16 * rounds - 1 /\ p = d + (p - d)
      BY <1>1, <2>1
    <3>2. QED
      BY <1>2, <3>1
  <2>2. ASSUME p \in seen PROVE p \in d .. d + 16 * rounds - 1
    BY <1>1, <1>2, <2>2
  <2>3. QED
    BY <2>1, <2>2
<1>4. p \in seen \cup rest <=> p \in d .. d + len - 1
  BY <1>1, <1>3
<1>5. Bytes!ascii_u64({p}, d, len) <=> {p} \cap (seen \cup rest) = {}
  BY DEF Bytes!ascii_u64
<1>6. {p} \cap (seen \cup rest) = {} <=> p \notin seen \cup rest
  OBVIOUS
<1>7. QED
  BY <1>4, <1>5, <1>6

(* The unsigned comparison ends ascii_u64_asm's loop where division says.     *)
LEMMA AsmRoundsAre ==
  ASSUME NEW len \in Nat, len >= 16
  PROVE  Bytes!AsmRounds(len) = len \div 16
<1> DEFINE Last(n) == /\ 16 * n > len - 16
                      /\ \A m \in 1 .. n - 1 : 16 * m <= len - 16
<1>1. len \div 16 \in 1 .. len /\ Last(len \div 16)
  OBVIOUS
<1>2. ASSUME NEW n \in 1 .. len, Last(n) PROVE n = len \div 16
  <2>1. 16 * (len \div 16) <= len /\ 16 * (len \div 16) > len - 16
    OBVIOUS
  <2>2. CASE n < len \div 16
    BY <1>2, <2>1, <2>2
  <2>3. CASE n > len \div 16
    <3>1. len \div 16 \in 1 .. n - 1
      BY <1>1, <2>3
    <3>2. QED
      BY <1>2, <2>1, <3>1
  <2>4. QED
    BY <1>1, <2>2, <2>3
<1>3. Bytes!AsmRounds(len) = CHOOSE n \in 1 .. len : Last(n)
  BY DEF Bytes!AsmRounds
<1>4. (CHOOSE n \in 1 .. len : Last(n)) \in 1 .. len
      /\ Last(CHOOSE n \in 1 .. len : Last(n))
  <2>1. \E n \in 1 .. len : Last(n)
    BY <1>1
  <2> HIDE DEF Last
  <2>2. QED
    BY <2>1
<1>5. QED
  BY <1>2, <1>3, <1>4

(* ascii_u64_asm.                                                            *)
LEMMA AsmLoop ==
  ASSUME NEW len \in Nat, NEW p \in Nat
  PROVE  Bytes!ascii_u64_asm({p}, len) <=> p \notin 0 .. len - 1
<1> DEFINE rounds == IF len < 16 THEN 0 ELSE Bytes!AsmRounds(len)
           bytes == IF len < 16 THEN len ELSE len % 16
           rest == 16 * rounds .. 16 * rounds + bytes - 1
<1>1. rounds \in Nat /\ bytes \in Nat /\ 16 * rounds + bytes = len
  BY AsmRoundsAre
<1>2. Bytes!Read(rounds, 16) = 0 .. 16 * rounds - 1
  BY <1>1, SixteensAreRead
<1>3. p \in Bytes!Read(rounds, 16) \cup rest <=> p \in 0 .. len - 1
  <2> HIDE DEF rounds, bytes
  <2>1. QED
    BY <1>1, <1>2
<1>4. Bytes!ascii_u64_asm({p}, len)
        <=> {p} \cap (Bytes!Read(rounds, 16) \cup rest) = {}
  BY DEF Bytes!ascii_u64_asm
<1>5. QED
  BY <1>3, <1>4

(* ascii_neon.                                                               *)
LEMMA NeonLoop ==
  ASSUME NEW len \in Nat, NEW p \in Nat
  PROVE  Bytes!ascii_neon({p}, len) <=> p \notin 0 .. len - 1
<1> DEFINE rounds == len \div 32
<1>1. rounds \in Nat /\ len - 32 * rounds \in Nat /\ 32 * rounds \in Nat
  OBVIOUS
<1>2. Bytes!Read(rounds, 2 * 16) = 0 .. 2 * 16 * rounds - 1
  BY <1>1, BlocksAreRead
<1>3. 2 * 16 = 32
  OBVIOUS
<1>4. Bytes!Read(rounds, 32) = 0 .. 32 * rounds - 1
  BY <1>2, <1>3
<1>5. Bytes!ascii_u64({p}, 32 * rounds, len - 32 * rounds)
        <=> p \notin 32 * rounds .. 32 * rounds + (len - 32 * rounds) - 1
  BY <1>1, PlainLoop
<1>6. Bytes!ascii_neon({p}, len)
        <=> /\ {p} \cap Bytes!Read(rounds, 32) = {}
            /\ Bytes!ascii_u64({p}, 32 * rounds, len - 32 * rounds)
  BY DEF Bytes!ascii_neon
<1> HIDE DEF rounds
<1>7. QED
  BY <1>1, <1>4, <1>5, <1>6

(* ascii.c and ascii.S: the three checks find a byte that is not ASCII in a  *)
(* buffer of any length at any position, in the last round, the remainder or *)
(* before, and read nothing behind the end.                                  *)
THEOREM AsciiChecksAgree == \A len, p \in Nat : Bytes!FindsTheByte(len, p)
<1>1. SUFFICES ASSUME NEW len \in Nat, NEW p \in Nat
               PROVE  Bytes!FindsTheByte(len, p)
  OBVIOUS
<1>2. p >= len <=> p \notin 0 .. len - 1
  OBVIOUS
<1>3. /\ Bytes!ascii_u64({p}, 0, len) \in BOOLEAN
      /\ Bytes!ascii_u64_asm({p}, len) \in BOOLEAN
      /\ Bytes!ascii_neon({p}, len) \in BOOLEAN
  BY DEF Bytes!ascii_u64, Bytes!ascii_u64_asm, Bytes!ascii_neon
<1>4. Bytes!ascii_u64({p}, 0, len) <=> p \notin 0 .. len - 1
  <2>1. Bytes!ascii_u64({p}, 0, len) <=> p \notin 0 .. 0 + len - 1
    BY PlainLoop
  <2>2. QED
    BY <2>1
<1>5. QED
  BY <1>2, <1>3, <1>4, AsmLoop, NeonLoop DEF Bytes!FindsTheByte
-----------------------------------------------------------------------------
(* The properties of Programs                                                *)

(* Every request over a socket is answered by its response: the messages of  *)
(* the vio benches and of the papi stream are read and written whole, errors *)
(* a client does not see come from a server that never was, and the patient  *)
(* user of the shell has the answers in order.                               *)
THEOREM ProtocolsHold == Spec => []SocketProtocolsHold
BY FramingNeverSlips, UnheardErrorsAreEarly, StreamsAreFramed,
   PatientUsersAreAnswered, PTL DEF SocketProtocolsHold

(* Threads, processes and asynchronous writes that share work do each their  *)
(* part of it and nobody else's, whatever their number and their order.      *)
THEOREM WorkIsShared == Spec => []ThreadsShareTheWork
BY WritesAreShared, PrintersTakeTurns, JobsAreCountedOnce,
   ParentsAndChildrenTakeTurns, DumpsAreOfAStandstill, PTL
   DEF ThreadsShareTheWork
=============================================================================
