------------------------------ MODULE QSpinLock ------------------------------
(*****************************************************************************)
(* qspinlock/qspinlock.c and qspinlock.h: the queued spinlock, one action    *)
(* per access to shared memory.                                              *)
(*                                                                           *)
(* The 32-bit lock word is kept as its three fields: the locked byte, the    *)
(* pending byte and the tail half-word, which names a thread's queue node.   *)
(* A cmpxchg or fetch_or acts on the three fields at once, a byte or         *)
(* half-word store on those it covers.                                       *)
(* Every thread has one queue node, qnodes[thread index].mcs, so a node is   *)
(* named by its thread.  Memory is sequentially consistent: the acquire and  *)
(* release orderings of the code are not modelled.                           *)
(*                                                                           *)
(* The value `val' a thread last read from the word is not kept, because     *)
(* the branch it decides is part of the step that reads it; before the final *)
(* cmpxchg it can only be (this thread's tail, 0, 0).                        *)
(*****************************************************************************)
EXTENDS Naturals, Sequences, Functions

CONSTANTS Threads,        (* the threads, each with its qnode                *)
          None,           (* the NULL node and the empty tail                *)
          PendingLoops    (* _Q_PENDING_LOOPS                                *)

ASSUME NoneAssumption  == None \notin Threads
ASSUME LoopsAssumption == PendingLoops \in Nat

VARIABLES
  locked,       (* lock->locked                                              *)
  pending,      (* lock->pending                                             *)
  tail,         (* lock->tail: the thread it encodes, or None                *)
  nodeLocked,   (* qnodes[t].mcs.locked                                      *)
  nodeNext,     (* qnodes[t].mcs.next                                        *)
  nodeCount,    (* qnodes[t].mcs.count                                       *)
  cnt,          (* local cnt of the bounded pending spin                     *)
  prev,         (* local prev                                                *)
  next,         (* local next                                                *)
  pc,           (* where each thread is                                      *)
  queue         (* auxiliary, read by no action: the nodes between their     *)
                (* xchg_tail and their dequeue, oldest first                 *)

word  == <<locked, pending, tail>>
nodes == <<nodeLocked, nodeNext, nodeCount>>
locals == <<cnt, prev, next>>
vars  == <<word, nodes, locals, pc, queue>>

Goto(t, from, to) == pc[t] = from /\ pc' = [pc EXCEPT ![t] = to]

(* The tests the code makes on a value of the word.                          *)
Unlocked    == locked = 0 /\ pending = 0 /\ tail = None
PendingOnly == locked = 0 /\ pending = 1 /\ tail = None
Contended   == pending = 1 \/ tail # None          (* val & ~_Q_LOCKED_MASK  *)

QueueOrPend == IF Contended THEN "grab_node" ELSE "set_pending"

Init ==
  /\ locked = 0 /\ pending = 0 /\ tail = None
  /\ nodeLocked = [t \in Threads |-> 0]
  /\ nodeNext   = [t \in Threads |-> None]
  /\ nodeCount  = [t \in Threads |-> 0]
  /\ cnt  = [t \in Threads |-> 0]
  /\ prev = [t \in Threads |-> None]
  /\ next = [t \in Threads |-> None]
  /\ pc   = [t \in Threads |-> "idle"]
  /\ queue = <<>>

-----------------------------------------------------------------------------
(* queued_spin_lock and queued_spin_unlock                                   *)

(* The fast path's cmpxchg succeeds.                                         *)
FastLock(t) ==
  /\ Goto(t, "idle", "cs")
  /\ Unlocked
  /\ locked' = 1
  /\ UNCHANGED <<pending, tail, nodes, locals, queue>>

(* It fails, and the value it saw decides where the slow path starts.        *)
EnterSlowpath(t) ==
  /\ Goto(t, "idle", IF PendingOnly THEN "pending_spin" ELSE QueueOrPend)
  /\ ~Unlocked
  /\ cnt' = [cnt EXCEPT ![t] = IF PendingOnly THEN PendingLoops ELSE 0]
  /\ UNCHANGED <<word, nodes, prev, next, queue>>

Unlock(t) ==
  /\ Goto(t, "cs", "idle")
  /\ locked' = 0
  /\ UNCHANGED <<pending, tail, nodes, locals, queue>>

-----------------------------------------------------------------------------
(* The pending path                                                          *)

(* Mutant: there is no bound.                                                *)
PendingSpinForever(t) ==
  /\ Goto(t, "pending_spin",
          IF PendingOnly THEN "pending_spin" ELSE QueueOrPend)
  /\ UNCHANGED <<word, nodes, locals, queue>>

(* Read the word once more: keep waiting for a pending -> locked hand-over,  *)
(* a bounded number of times.                                                *)
PendingSpin(t) ==
  \/ /\ PendingOnly /\ cnt[t] # 0
     /\ Goto(t, "pending_spin", "pending_spin")
     /\ cnt' = [cnt EXCEPT ![t] = @ - 1]
     /\ UNCHANGED <<word, nodes, prev, next, queue>>
  \/ /\ ~PendingOnly \/ cnt[t] = 0
     /\ Goto(t, "pending_spin", QueueOrPend)
     /\ cnt' = [cnt EXCEPT ![t] = 0]
     /\ UNCHANGED <<word, nodes, prev, next, queue>>

(* queued_fetch_set_pending_acquire, and the branches on the value it saw.   *)
SetPending(t) ==
  /\ pending' = 1
  /\ \/ Contended /\ pending = 0 /\ Goto(t, "set_pending", "clear_pending")
     \/ Contended /\ pending = 1 /\ Goto(t, "set_pending", "grab_node")
     \/ ~Contended /\ locked = 1 /\ Goto(t, "set_pending", "wait_owner")
     \/ ~Contended /\ locked = 0 /\ Goto(t, "set_pending", "take_pending")
  /\ UNCHANGED <<locked, tail, nodes, locals, queue>>

(* Mutant: a half-word store, as in clear_pending_set_locked.                *)
ClearPendingHalfWord(t) ==
  /\ Goto(t, "clear_pending", "grab_node")
  /\ locked' = 0 /\ pending' = 0
  /\ UNCHANGED <<tail, nodes, locals, queue>>

(* clear_pending: undo our own pending bit and queue.                        *)
ClearPending(t) ==
  /\ Goto(t, "clear_pending", "grab_node")
  /\ pending' = 0
  /\ UNCHANGED <<locked, tail, nodes, locals, queue>>

WaitOwner(t) ==
  /\ Goto(t, "wait_owner", "take_pending")
  /\ locked = 0
  /\ UNCHANGED <<word, nodes, locals, queue>>

(* clear_pending_set_locked: one half-word store.                            *)
TakePending(t) ==
  /\ Goto(t, "take_pending", "cs")
  /\ locked' = 1 /\ pending' = 0
  /\ UNCHANGED <<tail, nodes, locals, queue>>

-----------------------------------------------------------------------------
(* The queue                                                                 *)

(* idx = node->count++; a node in use already means abort().                 *)
GrabNode(t) ==
  /\ Goto(t, "grab_node", IF nodeCount[t] >= 1 THEN "aborted" ELSE "init_node")
  /\ nodeCount' = [nodeCount EXCEPT ![t] = @ + 1]
  /\ UNCHANGED <<word, nodeLocked, nodeNext, locals, queue>>

(* Mutant: node->next keeps its value from the last time in the queue.       *)
InitNodeKeepNext(t) ==
  /\ Goto(t, "init_node", "try_read")
  /\ nodeLocked' = [nodeLocked EXCEPT ![t] = 0]
  /\ UNCHANGED <<word, nodeNext, nodeCount, locals, queue>>

InitNode(t) ==
  /\ Goto(t, "init_node", "try_read")
  /\ nodeLocked' = [nodeLocked EXCEPT ![t] = 0]
  /\ nodeNext'   = [nodeNext EXCEPT ![t] = None]
  /\ UNCHANGED <<word, nodeCount, locals, queue>>

(* queued_spin_trylock reads the word, then tries to change 0 to locked.     *)
TryRead(t) ==
  /\ Goto(t, "try_read", IF Unlocked THEN "try_cas" ELSE "xchg_tail")
  /\ UNCHANGED <<word, nodes, locals, queue>>

(* Mutant: compare the locked and pending bytes only.                        *)
TryCasIgnoreTail(t) ==
  \/ /\ locked = 0 /\ pending = 0
     /\ Goto(t, "try_cas", "release")
     /\ locked' = 1
     /\ UNCHANGED <<pending, tail, nodes, locals, queue>>
  \/ /\ locked = 1 \/ pending = 1
     /\ Goto(t, "try_cas", "xchg_tail")
     /\ UNCHANGED <<word, nodes, locals, queue>>

TryCas(t) ==
  \/ /\ Unlocked
     /\ Goto(t, "try_cas", "release")
     /\ locked' = 1
     /\ UNCHANGED <<pending, tail, nodes, locals, queue>>
  \/ /\ ~Unlocked
     /\ Goto(t, "try_cas", "xchg_tail")
     /\ UNCHANGED <<word, nodes, locals, queue>>

XchgTail(t) ==
  /\ Goto(t, "xchg_tail", IF tail = None THEN "wait_head" ELSE "link")
  /\ tail' = t
  /\ prev' = [prev EXCEPT ![t] = tail]
  /\ next' = [next EXCEPT ![t] = None]
  /\ queue' = Append(queue, t)
  /\ UNCHANGED <<locked, pending, nodes, cnt>>

(* WRITE_ONCE(prev->next, node)                                              *)
LinkPrev(t) ==
  /\ Goto(t, "link", "wait_node")
  /\ nodeNext' = [nodeNext EXCEPT ![prev[t]] = t]
  /\ UNCHANGED <<word, nodeLocked, nodeCount, locals, queue>>

(* arch_mcs_spin_lock_contended(&node->locked)                               *)
WaitNode(t) ==
  /\ Goto(t, "wait_node", "read_next")
  /\ nodeLocked[t] = 1
  /\ UNCHANGED <<word, nodes, locals, queue>>

ReadNext(t) ==
  /\ Goto(t, "read_next", "wait_head")
  /\ next' = [next EXCEPT ![t] = nodeNext[t]]
  /\ UNCHANGED <<word, nodes, cnt, prev, queue>>

(* Mutant: wait for the owner only.                                          *)
WaitHeadIgnorePending(t) ==
  /\ Goto(t, "wait_head", IF tail = t THEN "cas_tail" ELSE "set_locked")
  /\ locked = 0
  /\ UNCHANGED <<word, nodes, locals, queue>>

(* Head of the queue: wait until the owner and the pending thread are gone.  *)
WaitHead(t) ==
  /\ Goto(t, "wait_head", IF tail = t THEN "cas_tail" ELSE "set_locked")
  /\ locked = 0 /\ pending = 0
  /\ UNCHANGED <<word, nodes, locals, queue>>

(* Alone in the queue: n,0,0 -> 0,0,1 dequeues and locks at once.            *)
CasTail(t) ==
  \/ /\ locked = 0 /\ pending = 0 /\ tail = t
     /\ Goto(t, "cas_tail", "release")
     /\ locked' = 1 /\ tail' = None
     /\ queue' = Tail(queue)
     /\ UNCHANGED <<pending, nodes, locals>>
  \/ /\ ~(locked = 0 /\ pending = 0 /\ tail = t)
     /\ Goto(t, "cas_tail", "set_locked")
     /\ UNCHANGED <<word, nodes, locals, queue>>

(* Mutant: no next seen, so there is nobody to hand over to.                 *)
SetLockedNoWait(t) ==
  /\ Goto(t, "set_locked", IF next[t] = None THEN "release" ELSE "hand_off")
  /\ locked' = 1
  /\ UNCHANGED <<pending, tail, nodes, locals, queue>>

SetLocked(t) ==
  /\ Goto(t, "set_locked", IF next[t] = None THEN "wait_next" ELSE "hand_off")
  /\ locked' = 1
  /\ UNCHANGED <<pending, tail, nodes, locals, queue>>

WaitNext(t) ==
  /\ Goto(t, "wait_next", "hand_off")
  /\ nodeNext[t] # None
  /\ next' = [next EXCEPT ![t] = nodeNext[t]]
  /\ UNCHANGED <<word, nodes, cnt, prev, queue>>

(* arch_mcs_spin_unlock_contended(&next->locked)                             *)
HandOff(t) ==
  /\ Goto(t, "hand_off", "release")
  /\ nodeLocked' = [nodeLocked EXCEPT ![next[t]] = 1]
  /\ queue' = Tail(queue)
  /\ UNCHANGED <<word, nodeNext, nodeCount, locals>>

(* --count, and the slow path returns: its locals are gone.                  *)
ReleaseNode(t) ==
  /\ Goto(t, "release", "cs")
  /\ nodeCount' = [nodeCount EXCEPT ![t] = @ - 1]
  /\ prev' = [prev EXCEPT ![t] = None]
  /\ next' = [next EXCEPT ![t] = None]
  /\ UNCHANGED <<word, nodeLocked, nodeNext, cnt, queue>>

-----------------------------------------------------------------------------
Start(t) == FastLock(t) \/ EnterSlowpath(t)

Slowpath(t) ==
  \/ PendingSpin(t) \/ SetPending(t) \/ ClearPending(t)
  \/ WaitOwner(t) \/ TakePending(t)
  \/ GrabNode(t) \/ InitNode(t) \/ TryRead(t) \/ TryCas(t)
  \/ XchgTail(t) \/ LinkPrev(t) \/ WaitNode(t) \/ ReadNext(t)
  \/ WaitHead(t) \/ CasTail(t) \/ SetLocked(t) \/ WaitNext(t)
  \/ HandOff(t) \/ ReleaseNode(t)

Next == \E t \in Threads : Start(t) \/ Slowpath(t) \/ Unlock(t)

(* A thread inside the lock code, or inside its finite critical section,     *)
(* keeps being scheduled; nobody has to ask for the lock.                    *)
Fairness == \A t \in Threads : WF_vars(Slowpath(t) \/ Unlock(t))

Spec == Init /\ [][Next]_vars /\ Fairness

-----------------------------------------------------------------------------
(* Properties                                                                *)

PendingPcs == {"clear_pending", "wait_owner", "take_pending"}
OwnerPcs   == {"wait_next", "hand_off", "release", "cs"}
QueuePcs   == {"link", "wait_node", "read_next", "wait_head", "cas_tail",
               "set_locked", "wait_next", "hand_off"}
Pcs == {"idle", "pending_spin", "set_pending", "grab_node", "init_node",
        "try_read", "try_cas", "xchg_tail", "aborted"}
       \union PendingPcs \union OwnerPcs \union QueuePcs

(* Every field, node and local keeps its type.                               *)
TypeOK ==
  /\ locked \in 0..1 /\ pending \in 0..1
  /\ tail \in Threads \union {None}
  /\ nodeLocked \in [Threads -> 0..1]
  /\ nodeNext \in [Threads -> Threads \union {None}]
  /\ nodeCount \in [Threads -> Nat]
  /\ cnt \in [Threads -> 0..PendingLoops]
  /\ prev \in [Threads -> Threads \union {None}]
  /\ next \in [Threads -> Threads \union {None}]
  /\ pc \in [Threads -> Pcs]
  /\ queue \in Seq(Threads)

(* Two threads never own the lock together, whichever of the four ways in    *)
(* (fast path, pending, trylock in the slow path, queue) each of them took.  *)
MutualExclusion ==
  \A t, u \in Threads : pc[t] \in OwnerPcs /\ pc[u] \in OwnerPcs => t = u

(* The pending bit is set exactly while one thread has it to clear.          *)
(* clear_pending and clear_pending_set_locked are plain stores: they are     *)
(* right only because nobody else's bit can be there to be wiped out.        *)
PendingBitHasOneOwner ==
  /\ \A t, u \in Threads : pc[t] \in PendingPcs /\ pc[u] \in PendingPcs => t = u
  /\ pending = 1 <=> \E t \in Threads : pc[t] \in PendingPcs

(* The `next' that the head of the queue follows to hand over is its live    *)
(* successor, still waiting to be woken, never a link left from an earlier   *)
(* acquisition (nodes are reused and node->next is not cleared).             *)
HandOffReachesWaiter ==
  \A t \in Threads :
    pc[t] = "hand_off" =>
      /\ next[t] # None
      /\ pc[next[t]] = "wait_node" /\ nodeLocked[next[t]] = 0

(* "should never happen in user space": no thread finds its node in use.     *)
NeverAborts == \A t \in Threads : pc[t] # "aborted"

(* Once a thread is out of the queue nobody writes its node: no late link    *)
(* and no late wake-up lands in a node that may already serve again.         *)
NodesOutsideQueueAreLeftAlone ==
  [][\A t \in Threads :
       pc[t] \notin QueuePcs /\ ~InitNode(t) =>
         nodeNext'[t] = nodeNext[t] /\ nodeLocked'[t] = nodeLocked[t]]_vars

(* Every thread that asks for the lock gets it: nobody is lost in the queue, *)
(* left waiting for a link, or kept in the pending spin for ever.            *)
EveryLockerEnters ==
  \A t \in Threads : (pc[t] \notin {"idle", "cs"}) ~> (pc[t] = "cs")

(* The lock as its users see it: who owns it, who is in the pending slot and *)
(* who is in line (the head of the queue owns the lock before it dequeues).  *)
ThreadAt(S) ==
  IF \E t \in Threads : pc[t] \in S
  THEN CHOOSE t \in Threads : pc[t] \in S ELSE None

LockOwner     == ThreadAt(OwnerPcs)
SlotPcs       == {"wait_owner", "take_pending"}
PendingThread == ThreadAt(SlotPcs)
Line == IF queue # <<>> /\ pc[queue[1]] \in OwnerPcs THEN Tail(queue) ELSE queue

Fifo == INSTANCE FifoLock WITH
  owner <- LockOwner, pend <- PendingThread, line <- Line

(* Threads get the lock in the order they swapped themselves into the tail,  *)
(* passed only by one pending thread that was there before the queue; no     *)
(* steal by the fast path or by trylock; and the promises of liveness.       *)
FifoSpec == Fifo!Spec

(* The safety part of it.                                                    *)
FifoSafety == Fifo!Init /\ [][Fifo!Next]_(Fifo!vars)

-----------------------------------------------------------------------------
(* The inductive invariant: the queue is a chain of live links               *)

NodeInUsePcs == {"init_node", "try_read", "try_cas", "xchg_tail", "release"}
                \union QueuePcs

Idx == 1..Len(queue)

(* The queue holds exactly the threads between xchg_tail and their dequeue,  *)
(* each once, and the tail of the lock word names the last of them.          *)
QueueIsTheWaiters ==
  /\ \A i, j \in Idx : queue[i] = queue[j] => i = j
  /\ \A i \in Idx : pc[queue[i]] \in QueuePcs
  /\ \A t \in Threads : pc[t] \in QueuePcs => \E i \in Idx : queue[i] = t
  /\ tail = IF queue = <<>> THEN None ELSE queue[Len(queue)]

(* Only the first has been told to go on; the others wait for their turn and *)
(* know their predecessor.                                                   *)
OnlyTheHeadIsAwake ==
  /\ queue # <<>> => /\ pc[queue[1]] # "link"
                     /\ pc[queue[1]] = "wait_node" => nodeLocked[queue[1]] = 1
  /\ \A i \in Idx : i > 1 => /\ pc[queue[i]] \in {"link", "wait_node"}
                             /\ nodeLocked[queue[i]] = 0
                             /\ prev[queue[i]] = queue[i - 1]

(* node->next names the successor as soon as the successor has linked itself *)
(* and is NULL before that and at the end of the queue.                      *)
LinksFollowTheQueue ==
  \A i \in Idx :
    nodeNext[queue[i]] =
      IF i < Len(queue) /\ pc[queue[i + 1]] # "link" THEN queue[i + 1] ELSE None

(* What the head remembers of node->next is NULL or still true.              *)
NextIsNotStale ==
  \A t \in Threads :
    /\ pc[t] \in {"wait_head", "cas_tail", "set_locked"} =>
         next[t] \in {None, nodeNext[t]}
    /\ pc[t] = "hand_off" => next[t] # None /\ next[t] = nodeNext[t]

(* A node is counted in use from its grab to its release, and is as          *)
(* initialised when it is published.                                         *)
NodesAreFresh ==
  \A t \in Threads :
    /\ nodeCount[t] = IF pc[t] \in NodeInUsePcs THEN 1 ELSE 0
    /\ pc[t] \in {"try_read", "try_cas", "xchg_tail"} =>
         nodeLocked[t] = 0 /\ nodeNext[t] = None

LockedByteHasOneOwner ==
  /\ MutualExclusion
  /\ locked = 1 <=> \E t \in Threads : pc[t] \in OwnerPcs

(* Whoever is about to store the locked byte without looking again finds it  *)
(* clear: the pending thread and the head of the queue exclude each other.   *)
NobodyCanStealTheLock ==
  \A t \in Threads :
    /\ pc[t] = "take_pending" => locked = 0
    /\ pc[t] \in {"cas_tail", "set_locked"} =>
         /\ locked = 0
         /\ \A u \in Threads : pc[u] \notin {"wait_owner", "take_pending"}

IInv ==
  /\ TypeOK
  /\ NeverAborts
  /\ QueueIsTheWaiters
  /\ OnlyTheHeadIsAwake
  /\ LinksFollowTheQueue
  /\ NextIsNotStale
  /\ NodesAreFresh
  /\ PendingBitHasOneOwner
  /\ LockedByteHasOneOwner
  /\ NobodyCanStealTheLock
===============================================================================
