-------------------------------- MODULE Programs --------------------------------
(*****************************************************************************)
(* The small programs of the repository side by side: a behaviour is of one  *)
(* of them, chosen first, and the others stay where they start.  For the     *)
(* pure algorithms the behaviour is the choice of an input.                  *)
(*****************************************************************************)
EXTENDS Integers, Sequences

CONSTANTS
  Conns, MsgSize, WarmUp,                                 (* VioBench        *)
  MaxCmds, SockRoom, TypedAhead,                          (* ShellSession    *)
  NCpus, Rounds,                                          (* C2CLat          *)
  BlockSize, BlockCount, MaxDepth,                        (* Mydd            *)
  MaxThreads, MaxWarmUp, MaxIter, Skip,                   (* ThreadSwitch    *)
  MaxLen, MaxLines,                                       (* Tail            *)
  MaxTyped, MaxEchoed, Cells,                             (* ProcessSync     *)
  Clients, Size, Space, Loops,                            (* PapiStream      *)
  Workers, MaxCount                                       (* SpinTest        *)

(* The numbers a build of the benches is made with: a message is not empty.  *)
ASSUME VioAssumption ==
  /\ Conns \subseteq Nat \ {0}
  /\ MsgSize \in Nat \ {0}
  /\ WarmUp \in Nat

(* The papi server serves nobody or a client; messages are not empty,   *)
(* nor is a round.                                                           *)
ASSUME PapiAssumption ==
  /\ 0 \notin Clients
  /\ Size \in Nat \ {0} /\ Space \in Nat /\ Loops \in Nat \ {0}

(* The socket of the shell holds some number of commands.                    *)
ASSUME ShellAssumption == SockRoom \in Nat

(* mydd.cc's file is of a block or more.                                     *)
ASSUME MyddAssumption ==
  /\ BlockSize \in Nat \ {0} /\ BlockCount \in Nat \ {0}
  /\ MaxDepth \in Nat

(* test.c starts a worker or more.                                           *)
ASSUME TestAssumption == Workers \in Nat \ {0}

(* The bounds of what ThreadSwitch is called with.                           *)
ASSUME SwitchAssumption ==
  /\ MaxThreads \in Nat /\ MaxWarmUp \in Nat /\ MaxIter \in Nat
  /\ Skip \in Nat

(* The bounds of the exercises.                                              *)
ASSUME SyncAssumption == MaxTyped \in Nat /\ MaxEchoed \in Nat /\ Cells \in Nat

VARIABLES
  prog,                                                   (* which program   *)
  bench, thread, handler, pipe, ended, errorFlag, alive,  (* VioBench        *)
  filled, patient, typed, stdin, eof, cpc, revents, err, toServer, toClient,
  screen, spc, cwd,                                       (* ShellSession    *)
  src, peer, mpc, ppc, target, shared, stopToken, loop,   (* C2CLat          *)
  mode, depth, mdpc, offset, left, inFlight, sentBlocks,
  written,                                                (* Mydd            *)
  mtprog, mtx, tpc, iter, printed, cnt,                   (* MtThreads       *)
  given, tspc, provider, queue, job, excuteState,         (* ThreadSwitch    *)
  file, lines, tlpc, fpos, foffset, lastChar, seeks, first, last, signalAt,
  shown,                                                  (* Tail            *)
  exercise, parent, child, line, taken, char, p2c, c2p, echoed, pending,
  ran, cells,                                             (* ProcessSync     *)
  serving, sender, backlog, s2, size, i, buf_recv, stream, (* PapiStream     *)
  at, next_i, stop_flag, wpc, thread_index, cancelled, waiters, counters,
  prev_counts,                                            (* SpinTest        *)
  input                                                   (* the algorithms' *)

Vio == INSTANCE VioBench
Shell == INSTANCE ShellSession
C2C == INSTANCE C2CLat WITH Loops <- Rounds
Dd == INSTANCE Mydd
Mt == INSTANCE MtThreads
Switch == INSTANCE ThreadSwitch
Lines == INSTANCE Tail
Sync == INSTANCE ProcessSync WITH c <- char
Papi == INSTANCE PapiStream
Test == INSTANCE SpinTest
Utf == INSTANCE Utf8
Bytes == INSTANCE Ascii
Bits == INSTANCE BitExtract WITH Width <- 7, GoBits <- 3, CppBits <- 2
Cnt == INSTANCE Counting WITH Lowest <- -1, Highest <- 2
Money == INSTANCE Tax

vioVars == <<bench, thread, handler, pipe, ended, errorFlag, alive>>
shellVars == <<filled, patient, typed, stdin, eof, cpc, revents, err, toServer,
               toClient, screen, spc, cwd>>
c2cVars == <<src, peer, mpc, ppc, target, shared, stopToken, loop>>
myddVars ==
  <<mode, depth, mdpc, offset, left, inFlight, sentBlocks, written>>
mtVars == <<mtprog, mtx, tpc, iter, printed, cnt>>
switchVars == <<given, tspc, provider, queue, job, excuteState>>
tailVars == <<file, lines, tlpc, fpos, foffset, lastChar, seeks, first, last,
              signalAt, shown>>
syncVars == <<exercise, parent, child, line, taken, char, p2c, c2p, echoed,
              pending, ran, cells>>
papiVars == <<serving, sender, backlog, s2, size, i, buf_recv, stream>>
testVars == <<at, next_i, stop_flag, wpc, thread_index, cancelled, waiters,
              counters, prev_counts>>
vars == <<prog, vioVars, shellVars, c2cVars, myddVars, mtVars, switchVars,
          tailVars, syncVars, papiVars, testVars, input>>

(* What stays as it is when a step is of the programs qs.                    *)
Still(qs) ==
  /\ "vio" \notin qs => UNCHANGED vioVars
  /\ "shell" \notin qs => UNCHANGED shellVars
  /\ "c2c" \notin qs => UNCHANGED c2cVars
  /\ "mydd" \notin qs => UNCHANGED myddVars
  /\ "mt" \notin qs => UNCHANGED mtVars
  /\ "switch" \notin qs => UNCHANGED switchVars
  /\ "tail" \notin qs => UNCHANGED tailVars
  /\ "sync" \notin qs => UNCHANGED syncVars
  /\ "papi" \notin qs => UNCHANGED papiVars
  /\ "test" \notin qs => UNCHANGED testVars
  /\ "algorithm" \notin qs => UNCHANGED input
  /\ UNCHANGED prog

Init ==
  /\ prog \in {"vio", "shell", "c2c", "mydd", "mt", "switch", "tail",
               "sync", "papi", "test", "algorithm"}
  /\ Vio!Init /\ Shell!Init /\ C2C!Init /\ Dd!Init /\ Mt!Init
  /\ Switch!Init /\ Lines!Init /\ Sync!Init /\ Papi!Init /\ Test!Init
  /\ input = <<"none">>

-----------------------------------------------------------------------------
(* Inputs of the algorithms: code points next to every limit, bytes that     *)
(* begin and end every class, lengths around two rounds of each loop, every  *)
(* mask, every short array, salaries in every bracket.                       *)

CodePoints ==
  {67108863, 67108864, 2147483647} \cup
  UNION {{m - 1, m, m + 1} : m \in {1, 128, 2048, 55296, 57343, 65534, 2097151}}

BoundaryBytes ==
  {0, 127, 128, 191, 192, 193, 223, 224, 239, 240, 247, 248, 252, 253}

BufferSizes == UNION {{m - 1, m, m + 1} : m \in {1, 8, 16, 24, 32, 48, 64}}

Bonuses ==
  {[m \in ms |-> IF m = 6 THEN 100000 ELSE 30000] : ms \in SUBSET {1, 6, 12}}

Chosen(v) ==
  /\ prog = "algorithm" /\ input = <<"none">>
  /\ input' = v
  /\ Still({"algorithm"})

two_points == \E u, w \in CodePoints : Chosen(<<"points", u, w>>)
some_bytes ==
  \/ \E n \in 1..2 : \E b \in [1..n -> BoundaryBytes] : Chosen(<<"bytes", b>>)
  \/ \E b \in BoundaryBytes, t, u \in {127, 128, 191, 192} :
       Chosen(<<"bytes", <<b, t, u>> >>)
buffer == \E len, p \in BufferSizes : Chosen(<<"buffer", len, p>>)
mask == \E m \in 0..127 : Chosen(<<"mask", m>>)
array == \E n \in 1..4 : \E a \in [1..n -> -1..2] : Chosen(<<"array", a>>)
salary ==
  \E pay \in {5000, 12000, 40000, 150000}, bonus \in Bonuses,
     own \in {0, 1, 6, 12} :
       /\ IF DOMAIN bonus = {} THEN own = 0 ELSE own \in DOMAIN bonus
       /\ Chosen(<<"salary", pay, bonus, own>>)

-----------------------------------------------------------------------------

Next ==
  \/ prog = "vio" /\ Vio!Next /\ Still({"vio"})
  \/ prog = "shell" /\ Shell!Next /\ Still({"shell"})
  \/ prog = "c2c" /\ C2C!Next /\ Still({"c2c"})
  \/ prog = "mydd" /\ Dd!Next /\ Still({"mydd"})
  \/ prog = "mt" /\ Mt!Next /\ Still({"mt"})
  \/ prog = "switch" /\ Switch!Next /\ Still({"switch"})
  \/ prog = "tail" /\ Lines!Next /\ Still({"tail"})
  \/ prog = "sync" /\ Sync!Next /\ Still({"sync"})
  \/ prog = "papi" /\ Papi!Next /\ Still({"papi"})
  \/ prog = "test" /\ Test!Next /\ Still({"test"})
  \/ two_points \/ some_bytes \/ buffer \/ mask \/ array \/ salary

(* Every program's own: none asks for a program that has not been started.   *)
Fairness ==
  /\ Vio!Fairness /\ Shell!Fairness /\ C2C!Fairness /\ Dd!Fairness
  /\ Mt!Fairness /\ Switch!Fairness
  /\ Sync!Fairness /\ Papi!Fairness /\ Test!Fairness

Spec == Init /\ [][Next]_vars /\ Fairness

-----------------------------------------------------------------------------
(* Properties                                                                *)

(* The request and response protocols over sockets: the vio benches' framing *)
(* by size never slips, whatever the reads return, a client's unheard write  *)
(* error only comes from a server that never accepted it (vio-client.cc),    *)
(* the papi server's rounds end with a full buffer, and the patient user of  *)
(* tlpi/client-server.c gets the answers to the commands, in order, though   *)
(* the server takes a read for a command.                                    *)
SocketProtocolsHold ==
  /\ Vio!OneMessageAtATime
  /\ Vio!WriteErrorsAreEarly
  /\ Papi!StreamIsFramed
  /\ Shell!PatientUserIsAnswered

(* handler of vio-server.cc: no client takes the server with it when it      *)
(* goes away, except in vio-bench2's warm-up of its own connection, which    *)
(* looks at no return value and so comes to the send that raises SIGPIPE.    *)
ServerOutlivesClients == Vio!ServerOutlivesClients

(* Threads and asynchronous writes that share work: mydd.cc's write their    *)
(* own regions and lose the blocks its FIXME says, no others; mt-print.c     *)
(* prints 010203040506 under every schedule; every job of ThreadSwitch is    *)
(* recorded once before the results are added up, and only a consumer with   *)
(* too few of them makes that throw; the parents and children of tlpi/ take  *)
(* turns; and qspinlock/test.c prints the queue of workers that are all      *)
(* gone.                                                                     *)
ThreadsShareTheWork ==
  /\ Dd!WritesTheirShare
  /\ Mt!ThreadsTakeTurns
  /\ Switch!EveryJobIsCounted
  /\ Sync!ProcessesTakeTurns
  /\ Test!DumpIsOfAStandstill

(* What was started ends: a vio connection after its peer has gone, a shell  *)
(* session after its input or either side (and before that its patient user  *)
(* is answered, but to ls in an empty directory), c2c-lat.cc's peers after   *)
(* the stop token, the threads of mydd.cc, mt-print.c and mt-cond.c,         *)
(* ThreadSwitch's pools, the processes of tlpi/ and papi/, and the workers   *)
(* of qspinlock/test.c, cancelled with the lock in their hands.              *)
ProgramsEnd ==
  /\ Vio!DeadClientsAreDropped /\ Vio!DeadServersAreNoticed
  /\ Shell!SessionsEnd /\ Shell!EveryCommandIsAnswered
  /\ C2C!EveryPeerIsJoined
  /\ Dd!MyddEnds
  /\ Mt!ThreadsEnd
  /\ Switch!SwitchEnds
  /\ Sync!ProcessesEnd
  /\ Papi!StreamsEnd
  /\ Test!TestEnds

(* ceph-utf8.c, utf8-len.c, ascii.c and ascii.S against their references on  *)
(* the bytes and lengths at every limit; tlpi/tail.c shows the lines that    *)
(* were asked for, however the reads cut the file, or starts exactly one     *)
(* character early where an interrupted read has shifted them.               *)
TextAgrees ==
  /\ input[1] = "points" => Utf!EncodingRoundTrips(input[2], input[3])
  /\ input[1] = "bytes" => Utf!DecodesWhatItEncodes(input[2])
  /\ input[1] = "buffer" => Bytes!FindsTheByte(input[2], input[3])
  /\ Lines!LastLinesAreShown

(* bmi.go and pext.cc do what the pext instruction does; the counting sorts, *)
(* modes and extremes of cpp/ agree with the library's; and the months'      *)
(* taxes of tax.py add up to the year's.                                     *)
NumbersAgree ==
  /\ input[1] = "mask" => Bits!ExtractsTheBits(input[2])
  /\ input[1] = "array" => Cnt!CountingAgrees(input[2])
  /\ input[1] = "salary" =>
       Money!TaxAddsUp(input[2], 2000, 6000, input[3], input[4])
=============================================================================
