-------------------------------- MODULE MCSLock --------------------------------
(*****************************************************************************)
(* qspinlock/include/mcs_spinlock.h: the MCS lock, one action per access to  *)
(* shared memory.                                                            *)
(*                                                                           *)
(* The lock is a pointer to the last node of the queue.  A caller brings a   *)
(* node of its own ("the caller should declare a local node"), so a node is  *)
(* named by its thread, and it is gone when mcs_spin_unlock returns.  Memory *)
(* is sequentially consistent.                                               *)
(*****************************************************************************)
EXTENDS Naturals, Sequences

CONSTANTS Threads, None

ASSUME MCSNoneAssumption == None \notin Threads

VARIABLES
  lock,         (* *lock: the last node of the queue, or None                *)
  nodeLocked,   (* node->locked                                              *)
  nodeNext,     (* node->next                                                *)
  prev,         (* local prev of mcs_spin_lock                               *)
  next,         (* local next of mcs_spin_unlock                             *)
  pc,           (* where each thread is                                      *)
  queue         (* auxiliary, read by no action: the nodes from their xchg   *)
                (* to their release, oldest first                            *)

vars == <<lock, nodeLocked, nodeNext, prev, next, pc, queue>>

Goto(t, from, to) == pc[t] = from /\ pc' = [pc EXCEPT ![t] = to]

Init ==
  /\ lock = None
  /\ nodeLocked = [t \in Threads |-> 0]
  /\ nodeNext = [t \in Threads |-> None]
  /\ prev = [t \in Threads |-> None]
  /\ next = [t \in Threads |-> None]
  /\ pc = [t \in Threads |-> "idle"]
  /\ queue = <<>>

-----------------------------------------------------------------------------
(* mcs_spin_lock                                                             *)

(* The node is the caller's own until it is published.                       *)
InitNode(t) ==
  /\ Goto(t, "idle", "swap")
  /\ nodeLocked' = [nodeLocked EXCEPT ![t] = 0]
  /\ nodeNext' = [nodeNext EXCEPT ![t] = None]
  /\ UNCHANGED <<lock, prev, next, queue>>

(* prev = xchg(lock, node)                                                   *)
Swap(t) ==
  /\ Goto(t, "swap", IF lock = None THEN "cs" ELSE "link")
  /\ lock' = t
  /\ prev' = [prev EXCEPT ![t] = lock]
  /\ queue' = Append(queue, t)
  /\ UNCHANGED <<nodeLocked, nodeNext, next>>

Link(t) ==
  /\ Goto(t, "link", "wait")
  /\ nodeNext' = [nodeNext EXCEPT ![prev[t]] = t]
  /\ UNCHANGED <<lock, nodeLocked, prev, next, queue>>

(* Mutant: do not wait to be passed the lock.                                *)
WaitNot(t) ==
  /\ Goto(t, "wait", "cs")
  /\ prev' = [prev EXCEPT ![t] = None]
  /\ UNCHANGED <<lock, nodeLocked, nodeNext, next, queue>>

(* Spin on the caller's own node until the lock is passed.                   *)
Wait(t) ==
  /\ Goto(t, "wait", "cs")
  /\ nodeLocked[t] = 1
  /\ prev' = [prev EXCEPT ![t] = None]
  /\ UNCHANGED <<lock, nodeLocked, nodeNext, next, queue>>

-----------------------------------------------------------------------------
(* mcs_spin_unlock                                                           *)

ReadNext(t) ==
  /\ Goto(t, "cs", IF nodeNext[t] = None THEN "cas" ELSE "pass")
  /\ next' = [next EXCEPT ![t] = nodeNext[t]]
  /\ UNCHANGED <<lock, nodeLocked, nodeNext, prev, queue>>

(* Mutants: empty the queue whoever is last in it; leave without waiting for *)
(* the successor to link itself.                                             *)
CasAlways(t) ==
  /\ Goto(t, "cas", "idle")
  /\ lock' = None /\ queue' = Tail(queue)
  /\ UNCHANGED <<nodeLocked, nodeNext, prev, next>>

CasNoWait(t) ==
  /\ Goto(t, "cas", "idle")
  /\ lock' = (IF lock = t THEN None ELSE lock) /\ queue' = Tail(queue)
  /\ UNCHANGED <<nodeLocked, nodeNext, prev, next>>

(* cmpxchg_release(lock, node, NULL)                                         *)
Cas(t) ==
  /\ IF lock = t
     THEN /\ Goto(t, "cas", "idle")
          /\ lock' = None
          /\ queue' = Tail(queue)
     ELSE /\ Goto(t, "cas", "wait_next")
          /\ UNCHANGED <<lock, queue>>
  /\ UNCHANGED <<nodeLocked, nodeNext, prev, next>>

WaitNext(t) ==
  /\ Goto(t, "wait_next", "pass")
  /\ nodeNext[t] # None
  /\ next' = [next EXCEPT ![t] = nodeNext[t]]
  /\ UNCHANGED <<lock, nodeLocked, nodeNext, prev, queue>>

(* arch_mcs_spin_unlock_contended(&next->locked), and return.                *)
Pass(t) ==
  /\ Goto(t, "pass", "idle")
  /\ nodeLocked' = [nodeLocked EXCEPT ![next[t]] = 1]
  /\ next' = [next EXCEPT ![t] = None]
  /\ queue' = Tail(queue)
  /\ UNCHANGED <<lock, nodeNext, prev>>

-----------------------------------------------------------------------------
Locking(t) == Swap(t) \/ Link(t) \/ Wait(t)
Unlocking(t) == ReadNext(t) \/ Cas(t) \/ WaitNext(t) \/ Pass(t)

Next == \E t \in Threads : InitNode(t) \/ Locking(t) \/ Unlocking(t)

(* Nobody has to ask for the lock; who has it gives it back.                 *)
Fairness == \A t \in Threads : WF_vars(Locking(t) \/ Unlocking(t))

Spec == Init /\ [][Next]_vars /\ Fairness

-----------------------------------------------------------------------------
(* Properties                                                                *)

OwnerPcs == {"cs", "cas", "wait_next", "pass"}
QueuePcs == {"link", "wait"} \union OwnerPcs

TypeOK ==
  /\ lock \in Threads \union {None}
  /\ nodeLocked \in [Threads -> 0..1]
  /\ nodeNext \in [Threads -> Threads \union {None}]
  /\ prev \in [Threads -> Threads \union {None}]
  /\ next \in [Threads -> Threads \union {None}]
  /\ pc \in [Threads -> {"idle", "swap"} \union QueuePcs]
  /\ queue \in Seq(Threads)

(* From mcs_spin_lock's return to the access that gives the lock away, no    *)
(* two threads have it.                                                      *)
MutualExclusion ==
  \A t, u \in Threads : pc[t] \in OwnerPcs /\ pc[u] \in OwnerPcs => t = u

(* A node is a local of the caller: nobody stores into it before it is       *)
(* published or after mcs_spin_unlock has returned.                          *)
NodesAreOnlyBorrowed ==
  [][\A t \in Threads :
       pc[t] \in {"idle", "swap"} /\ ~InitNode(t) =>
         nodeNext'[t] = nodeNext[t] /\ nodeLocked'[t] = nodeLocked[t]]_vars

(* The lock as its users see it.  Nobody is ever in a pending slot.          *)
LockOwner ==
  IF \E t \in Threads : pc[t] \in OwnerPcs
  THEN CHOOSE t \in Threads : pc[t] \in OwnerPcs ELSE None
Line == IF queue # <<>> /\ pc[queue[1]] \in OwnerPcs THEN Tail(queue) ELSE queue

Fifo == INSTANCE FifoLock WITH owner <- LockOwner, pend <- None, line <- Line

(* The lock is passed in the order of the swaps and stolen by nobody, and    *)
(* every caller of mcs_spin_lock gets it.                                    *)
FifoSpec == Fifo!Spec

(* The safety part of it.                                                    *)
FifoSafety == Fifo!Init /\ [][Fifo!Next]_(Fifo!vars)

-----------------------------------------------------------------------------
(* The inductive invariant                                                   *)

Idx == 1..Len(queue)

(* The queue holds the threads between xchg and release, each once, and the  *)
(* lock points to the last.                                                  *)
QueueIsTheCallers ==
  /\ \A i, j \in Idx : queue[i] = queue[j] => i = j
  /\ \A i \in Idx : pc[queue[i]] \in QueuePcs
  /\ \A t \in Threads : pc[t] \in QueuePcs => \E i \in Idx : queue[i] = t
  /\ lock = IF queue = <<>> THEN None ELSE queue[Len(queue)]

(* The first has the lock or has been passed it; the others wait for it and  *)
(* know their predecessor.                                                   *)
OnlyTheFirstMayGo ==
  /\ queue # <<>> => /\ pc[queue[1]] # "link"
                     /\ pc[queue[1]] = "wait" => nodeLocked[queue[1]] = 1
  /\ \A i \in Idx : i > 1 => /\ pc[queue[i]] \in {"link", "wait"}
                             /\ nodeLocked[queue[i]] = 0
                             /\ prev[queue[i]] = queue[i - 1]

(* node->next is the successor once the successor has linked itself.         *)
LinksFollowTheQueue ==
  \A i \in Idx :
    nodeNext[queue[i]] =
      IF i < Len(queue) /\ pc[queue[i + 1]] # "link" THEN queue[i + 1] ELSE None

(* What the releaser remembers is NULL or its live successor, and a fresh    *)
(* node is as initialised.                                                   *)
LocalsAreGood ==
  \A t \in Threads :
    /\ pc[t] = "pass" => next[t] # None /\ next[t] = nodeNext[t]
    /\ pc[t] = "swap" => nodeLocked[t] = 0 /\ nodeNext[t] = None

IInv == /\ TypeOK /\ QueueIsTheCallers /\ OnlyTheFirstMayGo
        /\ LinksFollowTheQueue /\ LocalsAreGood
===============================================================================
