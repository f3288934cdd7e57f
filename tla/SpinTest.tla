-------------------------------- MODULE SpinTest --------------------------------
(*****************************************************************************)
(* qspinlock/test.c around the lock: main starts the workers, reports their  *)
(* counters until SIGINT, cancels them wherever they are, joins them and     *)
(* prints who was left in the queue.                                         *)
(*                                                                           *)
(* The lock is taken for what QSpinLock shows it to be, a queue served in    *)
(* order; a cancelled worker stays in it.  The threads library is external:  *)
(* an asynchronous cancellation takes effect at any later point, one that    *)
(* comes before the worker asks for that waits until it has.                 *)
(*****************************************************************************)
EXTENDS Integers, Sequences

CONSTANTS
  Workers,      (* thread_count                                              *)
  MaxCount      (* rounds of a worker, a bound                               *)

VARIABLES
  at,           (* where main is                                             *)
  next_i,       (* its loop variable                                         *)
  stop_flag,
  wpc,          (* what each worker does next                                *)
  thread_index, (* of each worker's qnode                                    *)
  cancelled,    (* the workers pthread_cancel was called for                 *)
  waiters,      (* the lock: the workers in its queue, the holder first      *)
  counters, prev_counts

vars == <<at, next_i, stop_flag, wpc, thread_index, cancelled, waiters,
          counters, prev_counts>>

Threads == 0..(Workers - 1)

Init ==
  /\ at = "off" /\ next_i = 0 /\ stop_flag = FALSE
  /\ wpc = [t \in Threads |-> "none"]
  /\ thread_index = [t \in Threads |-> 0]
  /\ cancelled = {} /\ waiters = <<>>
  /\ counters = [t \in Threads |-> 0]
  /\ prev_counts = [t \in Threads |-> 0]

(* Main's loops over the workers, one after the other.                       *)
Loop(here, after) ==
  /\ at = here
  /\ IF next_i + 1 < Workers THEN next_i' = next_i + 1 /\ UNCHANGED at
                             ELSE next_i' = 0 /\ at' = after

main ==
  /\ at = "off" /\ at' = "create"
  /\ UNCHANGED <<next_i, stop_flag, wpc, thread_index, cancelled, waiters,
                 counters, prev_counts>>

sigint_handler ==
  /\ at # "off" /\ ~stop_flag /\ stop_flag' = TRUE
  /\ UNCHANGED <<at, next_i, wpc, thread_index, cancelled, waiters, counters,
                 prev_counts>>

main_creates ==
  /\ Loop("create", "test")
  /\ thread_index' = [thread_index EXCEPT ![next_i] = -1]
  /\ wpc' = [wpc EXCEPT ![next_i] = "start"]
  /\ UNCHANGED <<stop_flag, cancelled, waiters, counters, prev_counts>>

main_tests ==
  /\ at = "test" /\ at' = IF stop_flag THEN "cancel" ELSE "report"
  /\ UNCHANGED <<next_i, stop_flag, wpc, thread_index, cancelled, waiters,
                 counters, prev_counts>>

main_reports ==
  /\ Loop("report", "test")
  /\ prev_counts' = [prev_counts EXCEPT ![next_i] = counters[next_i]]
  /\ UNCHANGED <<stop_flag, wpc, thread_index, cancelled, waiters, counters>>

main_cancels ==
  /\ Loop("cancel", "join")
  /\ cancelled' = cancelled \cup {next_i}
  /\ UNCHANGED <<stop_flag, wpc, thread_index, waiters, counters,
                 prev_counts>>

main_joins ==
  /\ wpc[next_i] = "gone" /\ Loop("join", "dump")
  /\ UNCHANGED <<stop_flag, wpc, thread_index, cancelled, waiters, counters,
                 prev_counts>>

-----------------------------------------------------------------------------

Goes(t, from, to) == wpc[t] = from /\ wpc' = [wpc EXCEPT ![t] = to]

OfMain == UNCHANGED <<at, next_i, stop_flag, cancelled, prev_counts>>

(* worker_thread up to pthread_setcanceltype.                                *)
worker_starts(t) ==
  /\ Goes(t, "start", "want")
  /\ thread_index' = [thread_index EXCEPT ![t] = t]
  /\ OfMain /\ UNCHANGED <<waiters, counters>>

worker_waits(t) ==
  /\ counters[t] < MaxCount /\ Goes(t, "want", "wait")
  /\ waiters' = Append(waiters, t)
  /\ OfMain /\ UNCHANGED <<thread_index, counters>>

worker_unlocks(t) ==
  /\ waiters # <<>> /\ Head(waiters) = t /\ Goes(t, "wait", "count")
  /\ waiters' = Tail(waiters)
  /\ OfMain /\ UNCHANGED <<thread_index, counters>>

worker_counts(t) ==
  /\ Goes(t, "count", "want")
  /\ counters' = [counters EXCEPT ![t] = @ + 1]
  /\ OfMain /\ UNCHANGED <<thread_index, waiters>>

dies(t) ==
  /\ t \in cancelled /\ wpc[t] \in {"want", "wait", "count"}
  /\ wpc' = [wpc EXCEPT ![t] = "gone"]
  /\ OfMain /\ UNCHANGED <<thread_index, waiters, counters>>

worker_thread(t) ==
  worker_starts(t) \/ worker_waits(t) \/ worker_unlocks(t) \/ worker_counts(t)
mainThread ==
  \/ main_creates \/ main_tests \/ main_reports \/ main_cancels \/ main_joins

Next ==
  \/ main \/ mainThread \/ sigint_handler
  \/ \E t \in Threads : worker_thread(t) \/ dies(t)

(* The threads run on and a cancellation is delivered.                       *)
Fairness ==
  /\ WF_vars(mainThread)
  /\ \A t \in Threads : WF_vars(worker_thread(t)) /\ WF_vars(dies(t))

-----------------------------------------------------------------------------
(* Properties                                                                *)

(* The lock and the queue are printed when no worker is left to change them, *)
(* and every qnode in the queue has the index the links are printed with     *)
(* (and the array of links is indexed with), not the -1 main put there.  The *)
(* unsigned differences main reports are of counters that have only grown.   *)
DumpIsOfAStandstill ==
  /\ at = "dump" => \A t \in Threads : wpc[t] = "gone"
  /\ \A n \in DOMAIN waiters : thread_index[waiters[n]] = waiters[n]
  /\ \A t \in Threads : prev_counts[t] <= counters[t]

(* After SIGINT, whenever it comes, every worker is joined: also those that  *)
(* spin behind a worker that was cancelled with the lock.                    *)
TestEnds == stop_flag ~> at = "dump"
=============================================================================
