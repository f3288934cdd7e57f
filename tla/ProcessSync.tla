------------------------------ MODULE ProcessSync -------------------------------
(*****************************************************************************)
(* Three exercises of tlpi/ in which a parent and its child wait for each    *)
(* other: pipe.c (the child echoes what the user types in capitals, over two *)
(* pipes), signal-sync.c (a blocked signal and sigsuspend, first one way and *)
(* then the other) and shm.c (a segment of shared memory and wait).          *)
(*                                                                           *)
(* The kernel is external: a pipe is a queue with an end on each side, a     *)
(* blocked signal stays pending, and sigsuspend takes it whenever it came.   *)
(*****************************************************************************)
EXTENDS Integers, Sequences

CONSTANTS
  MaxTyped,     (* characters the user types before the end of the line      *)
  MaxEchoed,    (* a bound on what is echoed, more than MaxTyped: without a  *)
                (* newline it would go on                                    *)
  Cells         (* the cells of the shared segment, 65536 in shm.c           *)

VARIABLES
  exercise,     (* "none", "pipe", "signal" or "shm"                         *)
  parent,       (* what the parent does next                                 *)
  child,        (* what the child does next                                  *)
  line,         (* what is typed; without a newline, the input ends          *)
  taken,        (* how much of it the parent has read                        *)
  c,            (* the parent's and the child's variable c                   *)
  p2c, c2p,     (* the pipes                                                 *)
  echoed,       (* what the parent has written to its output                 *)
  pending,      (* who has SIGUSR1 pending                                   *)
  ran,          (* signal-sync's "run" messages, in order                    *)
  cells         (* the segment                                               *)

pipeVars == <<line, taken, c, p2c, c2p, echoed>>
vars == <<exercise, parent, child, pipeVars, pending, ran, cells>>

Newline == "newline"
Capital(ch) == IF ch = "a" THEN "A" ELSE ch

Init ==
  /\ exercise = "none" /\ parent = "off" /\ child = "off"
  /\ line = <<>> /\ taken = 0 /\ c = [parent |-> "?", child |-> "?"]
  /\ p2c = <<>> /\ c2p = <<>> /\ echoed = <<>>
  /\ pending = {} /\ ran = <<>>
  /\ cells = [k \in 1..Cells |-> "old"]

Parent(from, to) == parent = from /\ parent' = to /\ UNCHANGED child
Child(from, to) == child = from /\ child' = to /\ UNCHANGED parent

-----------------------------------------------------------------------------
(* pipe.c                                                                    *)

(* The parent's c is not initialised: anything can be in it.                 *)
pipe_main ==
  /\ exercise = "none" /\ exercise' = "pipe"
  /\ parent' = "stdin" /\ child' = "read"
  /\ \E n \in 0..MaxTyped : \E text \in [1..n -> {"a", "Z"}] :
       line' \in {text, Append(text, Newline)}
  /\ \E rubbish \in {"a", Newline} : c' = [c EXCEPT !.parent = rubbish]
  /\ UNCHANGED <<taken, p2c, c2p, echoed, pending, ran, cells>>

InPipe == exercise = "pipe" /\ UNCHANGED <<exercise, pending, ran, cells>>

(* read of the standard input: its result is not looked at, so at the end of *)
(* the input c keeps the character echoed last.                              *)
parent_reads ==
  /\ InPipe /\ Len(echoed) < MaxEchoed
  /\ IF taken < Len(line)
     THEN taken' = taken + 1 /\ c' = [c EXCEPT !.parent = line[taken + 1]]
     ELSE UNCHANGED <<taken, c>>
  /\ Parent("stdin", IF c'.parent = Newline THEN "wait" ELSE "write")
  /\ UNCHANGED <<line, p2c, c2p, echoed>>

(* write to the child: SIGPIPE is ignored and so is the error.               *)
parent_writes ==
  /\ InPipe /\ Parent("write", "answer")
  /\ p2c' = IF child = "gone" THEN p2c ELSE Append(p2c, c.parent)
  /\ UNCHANGED <<line, taken, c, c2p, echoed>>

(* read of the answer, or of the end of the pipe, and write to the output.   *)
parent_echoes ==
  /\ InPipe /\ (c2p # <<>> \/ child = "gone")
  /\ Parent("answer", "stdin")
  /\ IF c2p # <<>>
     THEN c' = [c EXCEPT !.parent = Head(c2p)] /\ c2p' = Tail(c2p)
     ELSE UNCHANGED <<c, c2p>>
  /\ echoed' = Append(echoed, c'.parent)
  /\ UNCHANGED <<line, taken, p2c>>

(* The pipes of the parent are closed once it waits, or is gone.             *)
ParentClosed == parent \in {"wait", "end", "gone"}

child_reads ==
  /\ InPipe
  /\ \/ /\ p2c # <<>> /\ Child("read", "echo")
        /\ c' = [c EXCEPT !.child = Capital(Head(p2c))] /\ p2c' = Tail(p2c)
     \/ /\ p2c = <<>> /\ ParentClosed /\ Child("read", "gone")
        /\ UNCHANGED <<c, p2c>>
  /\ UNCHANGED <<line, taken, c2p, echoed>>

child_echoes ==
  /\ InPipe
  /\ IF ParentClosed
     THEN Child("echo", "gone") /\ UNCHANGED c2p
     ELSE Child("echo", "read") /\ c2p' = Append(c2p, c.child)
  /\ UNCHANGED <<line, taken, c, p2c, echoed>>

parent_waits ==
  /\ InPipe /\ child = "gone" /\ Parent("wait", "end") /\ UNCHANGED pipeVars

(* The user kills one of them.                                               *)
kills ==
  /\ InPipe
  /\ \/ child # "gone" /\ child' = "gone" /\ UNCHANGED parent
     \/ parent \notin {"end", "gone"} /\ parent' = "gone" /\ UNCHANGED child
  /\ UNCHANGED pipeVars

-----------------------------------------------------------------------------
(* signal-sync.c: SIGUSR1 is blocked before the first fork                   *)

InSignal == exercise = "signal" /\ UNCHANGED <<exercise, pipeVars, cells>>

signal_main ==
  /\ exercise = "none" /\ exercise' = "signal"
  /\ parent' = "kill" /\ child' = "suspend"
  /\ UNCHANGED <<pipeVars, pending, ran, cells>>

parent_kills ==
  /\ InSignal /\ Parent("kill", "print")
  /\ pending' = pending \cup {"child"} /\ UNCHANGED ran

parent_prints ==
  /\ InSignal /\ Parent("print", "wait")
  /\ ran' = Append(ran, "parent") /\ UNCHANGED pending

child_runs ==
  /\ InSignal /\ "child" \in pending /\ Child("suspend", "gone")
  /\ pending' = pending \ {"child"} /\ ran' = Append(ran, "child")

(* wait returns, and the second child is forked.                             *)
parent_forks ==
  /\ InSignal /\ parent = "wait" /\ child = "gone"
  /\ parent' = "suspend" /\ child' = "kill"
  /\ UNCHANGED <<pending, ran>>

child_kills ==
  /\ InSignal /\ Child("kill", "print")
  /\ pending' = pending \cup {"parent"} /\ UNCHANGED ran

child_prints ==
  /\ InSignal /\ Child("print", "gone")
  /\ ran' = Append(ran, "child") /\ UNCHANGED pending

parent_runs ==
  /\ InSignal /\ "parent" \in pending /\ Parent("suspend", "end")
  /\ pending' = pending \ {"parent"} /\ ran' = Append(ran, "parent")

-----------------------------------------------------------------------------
(* shm.c                                                                     *)

InShm == exercise = "shm" /\ UNCHANGED <<exercise, pipeVars, pending, ran>>

Fill(ch) ==
  \E k \in 1..Cells :
    /\ cells[k] # ch /\ \A j \in 1..(k - 1) : cells[j] = ch
    /\ cells' = [cells EXCEPT ![k] = ch]

Full(ch) == cells = [k \in 1..Cells |-> ch]

(* shm_open and ftruncate: what an earlier run left in the segment stays.    *)
shm_main ==
  /\ exercise = "none" /\ exercise' = "shm"
  /\ parent' = "fill" /\ UNCHANGED <<child, pipeVars, pending, ran>>
  /\ \E left \in {"zero", "A", "B"} : cells' = [k \in 1..Cells |-> left]

parent_fills ==
  /\ InShm /\ parent = "fill"
  /\ \/ Fill("A") /\ UNCHANGED <<parent, child>>
     \/ /\ Full("A") /\ parent' = "wait" /\ child' = "open"
        /\ UNCHANGED cells

(* The program again, with an argument; it may not be found: assert(0).      *)
child_opens ==
  /\ InShm /\ child = "open" /\ child' \in {"check", "aborted"}
  /\ UNCHANGED <<parent, cells>>

child_checks ==
  /\ InShm /\ Child("check", IF Full("A") THEN "fill" ELSE "wrong")
  /\ UNCHANGED cells

child_fills ==
  /\ InShm /\ child = "fill"
  /\ \/ Fill("B") /\ UNCHANGED <<parent, child>>
     \/ Full("B") /\ Child("fill", "gone") /\ UNCHANGED cells

(* wait and the check: the assert aborts before shm_unlink.                  *)
parent_checks ==
  /\ InShm /\ child \in {"gone", "aborted", "wrong"}
  /\ Parent("wait", IF Full("B") THEN "end" ELSE "aborted")
  /\ UNCHANGED cells

-----------------------------------------------------------------------------

parentStep ==
  \/ parent_reads \/ parent_writes \/ parent_echoes \/ parent_waits
  \/ parent_kills \/ parent_prints \/ parent_forks \/ parent_runs
  \/ parent_fills \/ parent_checks
childStep ==
  \/ child_reads \/ child_echoes
  \/ child_runs \/ child_kills \/ child_prints
  \/ child_opens \/ child_checks \/ child_fills

Next ==
  \/ pipe_main \/ signal_main \/ shm_main
  \/ parentStep \/ childStep
  \/ kills

(* Both processes run on; nobody has to kill anything.                       *)
Fairness == WF_vars(parentStep) /\ WF_vars(childStep)

-----------------------------------------------------------------------------
(* Properties                                                                *)

(* pipe.c: every typed character comes back once, in order and in capitals   *)
(* as long as the child lives.  signal-sync.c: nobody runs before the one it *)
(* waits for has sent the signal, and both have run once before the second   *)
(* round.  shm.c: the child finds the parent's letters whatever the segment  *)
(* held before, and the parent only misses the child's if the program could  *)
(* not be started.                                                           *)
ProcessesTakeTurns ==
  /\ \A i \in DOMAIN echoed : i <= taken =>
       \/ echoed[i] = Capital(line[i])
       \/ child = "gone" /\ echoed[i] = line[i]
  /\ ~(exercise = "signal" /\ parent = "kill" /\ child = "gone")
  /\ ~(exercise = "signal" /\ parent = "end" /\ child = "kill")
  /\ Len(ran) >= 3 => {ran[1], ran[2]} = {"parent", "child"}
  /\ child # "wrong"
  /\ parent = "aborted" => child = "aborted"

(* Everybody ends: pipe.c's after a newline or when its parent is killed,    *)
(* signal-sync.c's whichever comes first, the signal or the wait for it, and *)
(* shm.c's.                                                                  *)
ProcessesEnd ==
  /\ (\/ exercise \in {"signal", "shm"}
      \/ exercise = "pipe" /\ line # <<>> /\ line[Len(line)] = Newline)
       ~> parent \in {"end", "gone", "aborted"}
  /\ exercise = "pipe" /\ parent \in {"wait", "gone"} ~> child = "gone"
=============================================================================
