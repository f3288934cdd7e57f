------------------------------ MODULE ThreadSwitch ------------------------------
(*****************************************************************************)
(* java/ThreadSwitchTestAli: provider threads hand jobs to a fixed pool of   *)
(* consumer threads, and wait for each (sync) or not; when both pools have   *)
(* ended, the times each consumer has recorded are added up.                 *)
(*                                                                           *)
(* The executors are external: a fixed pool starts a thread for each of its  *)
(* first jobs, queues the others, and after shutdown ends when the queue is  *)
(* empty and no thread has a job.  Times are left out, only their number     *)
(* counts.                                                                   *)
(*****************************************************************************)
EXTENDS Integers, FiniteSets

CONSTANTS
  MaxThreads,   (* bound: providers and consumers main is given              *)
  MaxWarmUp,    (* bound: warm-up iterations of the properties               *)
  MaxIter,      (* bound: their run iterations                               *)
  Skip          (* the measured jobs calResult leaves out, 1000 in the code  *)

VARIABLES
  given,        (* providers, consumers, warm-up, run and sync               *)
  tspc,         (* where main is                                             *)
  provider,     (* a provider's jobs so far, and whether it waits for one    *)
  queue,        (* jobs in the consumers' pool, by their provider            *)
  job,          (* the job each started consumer thread has, 0 for none      *)
  excuteState   (* jobs a consumer has recorded: the length of its list in   *)
                (* totalCosts and its count                                  *)

vars == <<given, tspc, provider, queue, job, excuteState>>

None == 0

Init ==
  /\ given = <<>> /\ tspc = "args"
  /\ provider = <<>> /\ queue = <<>> /\ job = <<>> /\ excuteState = <<>>

(* The fields are initialised before the constructor's body has set          *)
(* providerNum, so the iterations are divided by one: every provider makes   *)
(* all of them.                                                              *)
totalIter == given.warmUpIter + given.runIter

(* main, the constructor and runByIter's first loop: the jobs of the         *)
(* providers, in a pool that has a thread for each.                          *)
main(p, c, warm, run, sync) ==
  /\ tspc = "args" /\ tspc' = "biz"
  /\ given' = [providers |-> p, consumers |-> c, warmUpIter |-> warm,
               runIter |-> run, runSync |-> sync]
  /\ provider' = [x \in 1..p |-> [exec |-> 0, waits |-> FALSE]]
  /\ queue' = [x \in 1..p |-> 0]
  /\ UNCHANGED <<job, excuteState>>

(* submit or execute: the pool's next thread if there is one, or the queue.  *)
provider_submits(p) ==
  /\ tspc = "biz"
  /\ ~provider[p].waits /\ provider[p].exec < totalIter
  /\ provider' = [provider EXCEPT ![p] =
                    [exec |-> @.exec + 1, waits |-> given.runSync]]
  /\ IF Cardinality(DOMAIN job) < given.consumers
     THEN /\ job' = [c \in 1..Cardinality(DOMAIN job) + 1 |->
                       IF c \in DOMAIN job THEN job[c] ELSE p]
          /\ UNCHANGED queue
     ELSE queue' = [queue EXCEPT ![p] = @ + 1] /\ UNCHANGED job
  /\ UNCHANGED <<given, tspc, excuteState>>

consumer_takes(c, p) ==
  /\ job[c] = None /\ queue[p] > 0
  /\ job' = [job EXCEPT ![c] = p]
  /\ queue' = [queue EXCEPT ![p] = @ - 1]
  /\ UNCHANGED <<given, tspc, provider, excuteState>>

(* ConsumerThreadJob.run: one synchronized block; the future is then done.   *)
consumer_runs(c) ==
  /\ job[c] # None
  /\ excuteState' = [d \in DOMAIN excuteState \cup {c} |->
       (IF d \in DOMAIN excuteState THEN excuteState[d] ELSE 0)
         + (IF d = c THEN 1 ELSE 0)]
  /\ provider' = [provider EXCEPT ![job[c]].waits = FALSE]
  /\ job' = [job EXCEPT ![c] = None]
  /\ UNCHANGED <<given, tspc, queue>>

(* runByIter waits for the providers, then for the consumers.                *)
biz_terminates ==
  /\ tspc = "biz"
  /\ \A p \in DOMAIN provider :
       provider[p].exec >= totalIter /\ ~provider[p].waits
  /\ tspc' = "cons"
  /\ UNCHANGED <<given, provider, queue, job, excuteState>>

excutor_terminates ==
  /\ tspc = "cons"
  /\ \A p \in DOMAIN queue : queue[p] = 0
  /\ \A c \in DOMAIN job : job[c] = None
  /\ tspc' = "cal"
  /\ UNCHANGED <<given, provider, queue, job, excuteState>>

(* calResult throws on a range outside the list, and on the average of an    *)
(* empty one.                                                                *)
Throws(n) ==
  LET warm == given.warmUpIter
  IN \/ warm > n \/ warm = 0
     \/ Skip >= n - warm

calResult ==
  /\ tspc = "cal"
  /\ tspc' = IF \E c \in DOMAIN excuteState : Throws(excuteState[c])
             THEN "exception" ELSE "done"
  /\ UNCHANGED <<given, provider, queue, job, excuteState>>

consumer(c) == consumer_runs(c) \/ \E p \in DOMAIN queue : consumer_takes(c, p)

Next ==
  \/ \E p, c \in 1..MaxThreads, w \in 0..MaxWarmUp,
       r \in 0..MaxIter, s \in BOOLEAN :
       main(p, c, w, r, s)
  \/ \E p \in DOMAIN provider : provider_submits(p)
  \/ \E c \in DOMAIN job : consumer(c)
  \/ biz_terminates \/ excutor_terminates \/ calResult

(* Once it is called some thread of the program runs on: none of them spins. *)
Fairness == WF_vars(tspc # "args" /\ Next)

-----------------------------------------------------------------------------
(* Properties                                                                *)

(* As many elements as the numbers f stands for add up to.                   *)
Tally(f) == UNION {{x} \X (1..f[x]) : x \in DOMAIN f}

Executed == Cardinality(Tally(excuteState))

(* When the results are added up every job has been recorded once, in both   *)
(* modes, by one of the consumers that were asked for; and with a warm-up    *)
(* and more than Skip measured jobs, adding them up throws only if there are *)
(* several consumers and one of them got fewer jobs than a provider made, so *)
(* that its list may be too short; a single consumer's never is.             *)
EveryJobIsCounted ==
  /\ tspc \in {"cal", "done", "exception"} =>
       /\ Executed = given.providers * totalIter
       /\ DOMAIN excuteState \subseteq 1..given.consumers
  /\ tspc = "exception" =>
       \/ given.warmUpIter = 0 \/ given.runIter <= Skip
       \/ /\ given.consumers > 1
          /\ \E c \in DOMAIN excuteState : excuteState[c] < totalIter

(* The program ends, with its results or with an exception.                  *)
SwitchEnds == tspc # "args" ~> tspc \in {"done", "exception"}
=============================================================================
