------------------------------- MODULE MtThreads --------------------------------
(*****************************************************************************)
(* mt-print.c: three threads print 010203040506, each waiting on a mutex     *)
(* that another one unlocks.  mt-cond.c: one thread waits on a condition     *)
(* variable until another has counted to three.                              *)
(*                                                                           *)
(* The threads library is external: a mutex is a flag, which unlock clears   *)
(* whoever locked it; a wait may wake up without a signal, and a signal      *)
(* with nobody waiting is lost.                                              *)
(*****************************************************************************)
EXTENDS Integers, Sequences

VARIABLES
  mtprog,       (* which of the two programs runs, "none" before             *)
  mtx,          (* the mutexes that are locked                               *)
  tpc,          (* what each thread does next                                *)
  iter,         (* the loop variable i of each thread                        *)
  printed,      (* the output of mt-print                                    *)
  cnt           (* mt-cond's counter                                         *)

vars == <<mtprog, mtx, tpc, iter, printed, cnt>>

Init ==
  /\ mtprog = "none" /\ mtx = {} /\ tpc = <<>> /\ iter = <<>>
  /\ printed = <<>> /\ cnt = 0

(* mt-print's main locks two of the three mutexes and starts the threads.    *)
print_main ==
  /\ mtprog = "none" /\ mtprog' = "print"
  /\ mtx' = {1, 2}
  /\ tpc' = [t \in 0..2 |-> "lock"]
  /\ iter' = [t \in 0..2 |-> t]
  /\ UNCHANGED <<printed, cnt>>

(* lock: mutex number t is thread t's own.                                   *)
locks(t) ==
  /\ mtprog = "print" /\ tpc[t] = "lock" /\ t \notin mtx
  /\ mtx' = mtx \cup {t}
  /\ tpc' = [tpc EXCEPT ![t] = "print"]
  /\ UNCHANGED <<mtprog, iter, printed, cnt>>

prints(t) ==
  /\ mtprog = "print" /\ tpc[t] = "print"
  /\ printed' = Append(printed, IF t = 0 THEN 0 ELSE iter[t])
  /\ tpc' = [tpc EXCEPT ![t] = "unlock"]
  /\ UNCHANGED <<mtprog, mtx, iter, cnt>>

Ended(t) == [tpc EXCEPT ![t] = IF iter'[t] <= (IF t = 0 THEN 5 ELSE t + 4)
                               THEN "lock" ELSE "end"]

thread0_unlocks ==
  /\ mtprog = "print" /\ tpc[0] = "unlock"
  /\ mtx' = mtx \ {(iter[0] % 2) + 1}
  /\ iter' = [iter EXCEPT ![0] = @ + 1] /\ tpc' = Ended(0)
  /\ UNCHANGED <<mtprog, printed, cnt>>

thread1_unlocks ==
  /\ mtprog = "print" /\ tpc[1] = "unlock"
  /\ mtx' = mtx \ {0}
  /\ iter' = [iter EXCEPT ![1] = @ + 2] /\ tpc' = Ended(1)
  /\ UNCHANGED <<mtprog, printed, cnt>>

thread2_unlocks ==
  /\ mtprog = "print" /\ tpc[2] = "unlock"
  /\ mtx' = mtx \ {0}
  /\ iter' = [iter EXCEPT ![2] = @ + 2] /\ tpc' = Ended(2)
  /\ UNCHANGED <<mtprog, printed, cnt>>

-----------------------------------------------------------------------------
(* mt-cond.c: thread 0 is thread_wait3, thread 1 is thread_add               *)

cond_main ==
  /\ mtprog = "none" /\ mtprog' = "cond"
  /\ tpc' = [t \in 0..1 |-> "lock"] /\ iter' = [t \in 0..1 |-> 0]
  /\ UNCHANGED <<mtx, printed, cnt>>

Goes(t, where) == tpc' = [tpc EXCEPT ![t] = where]

(* Mutant of wait3_locks: the count is tested by an if instead of a while.   *)
wait3_locks_if ==
  /\ mtprog = "cond" /\ tpc[0] \in {"lock", "woken"} /\ mtx = {}
  /\ IF tpc[0] = "lock" THEN mtx' = {0} /\ Goes(0, "test")
                        ELSE mtx' = {} /\ Goes(0, "end")
  /\ UNCHANGED <<mtprog, iter, printed, cnt>>

wait3_locks ==
  /\ mtprog = "cond" /\ tpc[0] \in {"lock", "woken"} /\ mtx = {}
  /\ mtx' = {0} /\ Goes(0, "test")
  /\ UNCHANGED <<mtprog, iter, printed, cnt>>

(* pthread_cond_wait unlocks and waits in one step.                          *)
wait3_tests ==
  /\ mtprog = "cond" /\ tpc[0] = "test" /\ mtx' = {}
  /\ Goes(0, IF cnt < 3 THEN "wait" ELSE "end")
  /\ UNCHANGED <<mtprog, iter, printed, cnt>>

wakes_for_nothing ==
  /\ mtprog = "cond" /\ tpc[0] = "wait" /\ Goes(0, "woken")
  /\ UNCHANGED <<mtprog, mtx, iter, printed, cnt>>

add_locks ==
  /\ mtprog = "cond" /\ tpc[1] = "lock" /\ mtx = {}
  /\ mtx' = {1} /\ Goes(1, "add")
  /\ UNCHANGED <<mtprog, iter, printed, cnt>>

add_counts ==
  /\ mtprog = "cond" /\ tpc[1] = "add"
  /\ cnt' = cnt + 1 /\ mtx' = {} /\ Goes(1, "signal")
  /\ UNCHANGED <<mtprog, iter, printed>>

(* The signal comes after the unlock: the waiter may be anywhere by then.    *)
add_signals ==
  /\ mtprog = "cond" /\ tpc[1] = "signal"
  /\ iter' = [iter EXCEPT ![1] = @ + 1]
  /\ tpc' = [tpc EXCEPT ![1] = IF iter'[1] < 3 THEN "lock" ELSE "end",
                        ![0] = IF @ = "wait" THEN "woken" ELSE @]
  /\ UNCHANGED <<mtprog, mtx, printed, cnt>>

Wait3 == wait3_locks \/ wait3_tests
Add == add_locks \/ add_counts \/ add_signals
Printers == \/ \E t \in 0..2 : mtprog = "print" /\ (locks(t) \/ prints(t))
         \/ thread0_unlocks \/ thread1_unlocks \/ thread2_unlocks

Next ==
  \/ print_main \/ cond_main
  \/ Printers \/ Wait3 \/ Add
  \/ wakes_for_nothing

(* Every thread runs on and a free mutex is not refused for ever; nothing    *)
(* promises a wake-up without a signal.                                      *)
Fairness == WF_vars(Printers) /\ SF_vars(Wait3) /\ SF_vars(Add)

-----------------------------------------------------------------------------
(* Properties                                                                *)

Goal == <<0, 1, 0, 2, 0, 3, 0, 4, 0, 5, 0, 6>>

(* "print 010203040506 by 3 threads": what has been printed is always the    *)
(* beginning of that, under every schedule, though no mutex is unlocked by   *)
(* the thread that locked it.  The thread that waits for three never leaves  *)
(* before.                                                                   *)
ThreadsTakeTurns ==
  /\ printed = SubSeq(Goal, 1, Len(printed))
  /\ mtprog = "cond" /\ tpc[0] = "end" => cnt = 3

(* Both programs end: all twelve numbers are printed and the three threads   *)
(* joined, and the waiting thread, which is the one main joins, returns: the *)
(* signal it needs is not lost, though it is sent after the unlock.          *)
ThreadsEnd ==
  mtprog # "none" ~>
    /\ mtprog # "none" /\ tpc[0] = "end"
    /\ mtprog = "print" =>
         printed = Goal /\ \A t \in DOMAIN tpc : tpc[t] = "end"
=============================================================================
