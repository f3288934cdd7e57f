------------------------------ MODULE ShellSession ------------------------------
(*****************************************************************************)
(* tlpi/client-server.c: a client that polls its standard input and a        *)
(* socket, and a server that runs the commands it reads.                     *)
(*                                                                           *)
(* The server takes what one read returns for one command ("TODO: make sure  *)
(* one full command line is received").  Commands are short, so a read of    *)
(* 127 bytes returns some whole commands of those that have arrived; the     *)
(* streams are external.  A user is patient (types a command when the last   *)
(* one is answered) or not; either may close the input at any time.          *)
(*                                                                           *)
(* The server starts in a directory "home", which is empty or has a          *)
(* directory "d" in it, which is empty or not.  Its answer to a command is   *)
(* one item of the stream however many writes make it (the path and the end  *)
(* of its line are two): the client only passes on what it reads.            *)
(*****************************************************************************)
EXTENDS Integers, Sequences

CONSTANTS
  MaxCmds,      (* bound: commands the user types                            *)
  TypedAhead,   (* bound: which of them a user types who does not wait       *)
  SockRoom      (* commands the socket to the server holds                   *)

VARIABLES
  filled,       (* the directories that are not empty                        *)
  patient,      (* the user waits for answers; "unknown" before main         *)
  typed,        (* all the user has typed                                    *)
  stdin,        (* commands the client has not read yet                      *)
  eof,          (* the user has closed the standard input                    *)
  cpc,          (* where the client is                                       *)
  revents,      (* what its last poll returned                               *)
  err,          (* its local err                                             *)
  toServer, toClient,   (* the two streams of the socket                     *)
  screen,       (* the answers the client has printed                        *)
  spc,          (* where the server is                                       *)
  cwd           (* the server's working directory                            *)

cvars == <<cpc, revents, err, screen>>
svars == <<spc, cwd>>
vars == <<filled, patient, typed, stdin, eof, cvars, toServer, toClient, svars>>

Cmds == {"pwd", "cd", "cd d", "ls", "quit", "unknown"}

Init ==
  /\ filled = {}
  /\ patient = "unknown" /\ typed = <<>> /\ stdin = <<>> /\ eof = FALSE
  /\ cpc = "off" /\ revents = {} /\ err = FALSE /\ screen = <<>>
  /\ toServer = <<>> /\ toClient = <<>>
  /\ spc = "accept" /\ cwd = "home"

Front(s, k) == SubSeq(s, 1, k)
Rest(s, k) == SubSeq(s, k + 1, Len(s))

-----------------------------------------------------------------------------
(* What the server makes of one read                                         *)

(* Several commands in one buffer are one string: only "cd " is compared by  *)
(* its first characters, and the rest is then its path.                      *)
Parse(buf) ==
  IF Len(buf) = 1 THEN Head(buf)
  ELSE IF Head(buf) = "cd d" THEN "cd nowhere" ELSE "unknown"

(* cd goes home; a directory d is found in "home", if there is one.          *)
PathLeads(cmd) == cmd = "cd" \/ (cmd = "cd d" /\ cwd = "home" /\ cwd \in filled)

chdir(cmd) ==
  IF ~PathLeads(cmd) THEN cwd ELSE IF cmd = "cd" THEN "home" ELSE "d"

server_pwd(dir) == <<"in", dir>>
server_cd(cmd) ==
  IF PathLeads(cmd) THEN server_pwd(chdir(cmd)) ELSE <<"error", "invalid path">>

(* What popen's ls prints is passed on: nothing, if there are no files.      *)
server_ls(dir) == IF dir \in filled THEN <<<<"files of", dir>>>> ELSE <<>>

CdCmds == {"cd", "cd d", "cd nowhere"}

(* The items a command adds to the stream to the client.                     *)
Answer(cmd) ==
  IF cmd = "pwd" THEN <<server_pwd(cwd)>>
  ELSE IF cmd \in CdCmds THEN <<server_cd(cmd)>>
  ELSE IF cmd = "ls" THEN server_ls(cwd)
  ELSE <<<<"error", "unknown cmd">>>>

-----------------------------------------------------------------------------
(* The user                                                                  *)

AtTerminal == cpc # "off" /\ ~eof

types(cmd) ==
  /\ AtTerminal /\ Len(typed) < MaxCmds
  /\ patient = "yes" => Len(screen) = Len(typed)
  /\ patient = "no" => cmd \in TypedAhead
  /\ typed' = Append(typed, cmd) /\ stdin' = Append(stdin, cmd)
  /\ UNCHANGED <<filled, patient, eof, cvars, toServer, toClient, svars>>

closes ==
  /\ AtTerminal /\ eof' = TRUE
  /\ UNCHANGED <<filled, patient, typed, stdin, cvars, toServer, toClient,
                 svars>>

-----------------------------------------------------------------------------
(* The client                                                                *)

main_connects(p, dirs) ==
  /\ cpc = "off" /\ cpc' = "poll" /\ spc' = "read"
  /\ patient' = p /\ filled' = dirs
  /\ UNCHANGED <<typed, stdin, eof, revents, err, screen, toServer, toClient,
                 cwd>>

Readable ==
  {f \in {"stdin", "sock"} :
     \/ f = "stdin" /\ (stdin # <<>> \/ eof)
     \/ f = "sock" /\ (toClient # <<>> \/ spc = "done")}

client_polls ==
  /\ cpc = "poll" /\ Readable # {}
  /\ revents' = Readable /\ cpc' = "stdin"
  /\ UNCHANGED <<filled, patient, typed, stdin, eof, err, screen, toServer,
                 toClient, svars>>

(* writen: a full non-blocking socket is an error.                           *)
writen(buf) ==
  /\ err' = (Len(toServer) + Len(buf) > SockRoom)
  /\ toServer' = IF spc = "done" THEN toServer
                 ELSE toServer \o Front(buf, IF err' THEN SockRoom - Len(toServer)
                                             ELSE Len(buf))

(* The loop over the standard input: read and pass on until there is no more *)
(* (EAGAIN), or its end, or an error.  A write to a socket the server has    *)
(* closed may end the client at once (SIGPIPE).                              *)
client_stdin ==
  /\ cpc = "stdin"
  /\ IF "stdin" \notin revents \/ err \/ (stdin = <<>> /\ ~eof)
     THEN cpc' = "sock" /\ UNCHANGED <<stdin, err, toServer>>
     ELSE IF stdin = <<>>
          THEN err' = TRUE /\ UNCHANGED <<cpc, stdin, toServer>>
          ELSE \E k \in 1..Len(stdin) :
                 /\ stdin' = Rest(stdin, k)
                 /\ \/ writen(Front(stdin, k)) /\ UNCHANGED cpc
                    \/ /\ spc = "done" /\ cpc' = "done"
                       /\ UNCHANGED <<err, toServer>>
  /\ UNCHANGED <<filled, patient, typed, eof, revents, screen, toClient, svars>>

(* The loop over the socket, then the next poll, or close and exit.          *)
client_sock ==
  /\ cpc = "sock"
  /\ IF "sock" \notin revents \/ (toClient = <<>> /\ spc # "done")
     THEN /\ cpc' = IF err THEN "done" ELSE "poll"
          /\ UNCHANGED <<err, screen, toClient>>
     ELSE IF toClient = <<>>
          THEN err' = TRUE /\ cpc' = "done" /\ UNCHANGED <<screen, toClient>>
          ELSE /\ \E k \in 1..Len(toClient) :
                    /\ screen' = screen \o Front(toClient, k)
                    /\ toClient' = Rest(toClient, k)
               /\ UNCHANGED <<err, cpc>>
  /\ UNCHANGED <<filled, patient, typed, stdin, eof, revents, toServer, svars>>

-----------------------------------------------------------------------------
(* The server                                                                *)

(* What is written after the client has gone is thrown away, and comes back  *)
(* as a reset that ends the next read, or the second write of an answer.     *)
server_runs ==
  /\ spc = "read" /\ toServer # <<>>
  /\ \E k \in 1..Len(toServer) :
       LET cmd == Parse(Front(toServer, k))
       IN /\ toServer' = IF cpc = "done" THEN <<>> ELSE Rest(toServer, k)
          /\ IF cmd = "quit"
             THEN spc' = "done" /\ UNCHANGED <<toClient, cwd>>
             ELSE /\ cwd' = IF cmd \in CdCmds THEN chdir(cmd) ELSE cwd
                  /\ toClient' = IF cpc = "done" THEN toClient
                                 ELSE toClient \o Answer(cmd)
                  /\ spc' \in {spc} \cup (IF cpc = "done" THEN {"done"} ELSE {})
  /\ UNCHANGED <<filled, patient, typed, stdin, eof, cvars>>

(* read returns 0, or a reset: the client closed with answers unread.        *)
server_ends ==
  /\ spc = "read" /\ cpc = "done"
  /\ toServer = <<>> \/ toClient # <<>>
  /\ spc' = "done"
  /\ UNCHANGED <<filled, patient, typed, stdin, eof, cvars, toServer, toClient,
                 cwd>>

client == client_polls \/ client_stdin \/ client_sock
server == server_runs \/ server_ends

Next ==
  \/ \E p \in {"yes", "no"}, dirs \in {{}, {"home"}, {"home", "d"}} :
       main_connects(p, dirs)
  \/ \E cmd \in Cmds : types(cmd)
  \/ closes
  \/ client \/ server

(* Both processes run on; the user need not type or close anything.          *)
Fairness == WF_vars(client) /\ WF_vars(server)

-----------------------------------------------------------------------------
(* Properties                                                                *)

(* What a shell that ran the typed commands one by one would answer: its     *)
(* directory is that of the last cd; a d is only found from home.            *)
DirAfter(n) ==
  LET cds == {m \in 1..n : typed[m] \in {"cd", "cd d"}}
  IN IF cds = {} \/ "home" \notin filled THEN "home"
     ELSE IF typed[CHOOSE m \in cds : \A k \in cds : k <= m] = "cd"
          THEN "home" ELSE "d"

NoSuchDir(n) ==
  typed[n] = "cd d" /\ ("home" \notin filled \/ DirAfter(n - 1) = "d")

Expected(n) ==
  IF typed[n] = "ls" THEN <<"files of", DirAfter(n)>>
  ELSE IF typed[n] = "unknown" THEN <<"error", "unknown cmd">>
  ELSE IF NoSuchDir(n) THEN <<"error", "invalid path">>
  ELSE <<"in", DirAfter(n)>>

Silent(n) == typed[n] = "ls" /\ DirAfter(n) \notin filled

(* A user who waits for each answer sees exactly the answers to what was     *)
(* typed, in order, though the server takes whatever a read returns for a    *)
(* command.  (One who types ahead may have two commands taken for one.)      *)
PatientUserIsAnswered ==
  patient = "yes" =>
    /\ Len(screen) <= Len(typed)
    /\ \A n \in 1..Len(screen) : screen[n] = Expected(n)

(* Nothing is left running: once the input has ended, or either side is      *)
(* done, both are.                                                           *)
SessionsEnd ==
  (eof \/ cpc = "done" \/ spc = "done") ~> (cpc = "done" /\ spc = "done")

(* A patient user's command is answered or ends the session, unless it is an *)
(* ls of an empty directory: the server has nothing to say to that, and the  *)
(* user who waits for an answer waits until they close the input.            *)
EveryCommandIsAnswered ==
  (patient = "yes" /\ Len(screen) < Len(typed) /\ ~Silent(Len(typed)))
    ~> (Len(screen) = Len(typed) \/ cpc = "done")
=============================================================================
