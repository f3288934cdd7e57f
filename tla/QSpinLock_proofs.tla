--------------------------- MODULE QSpinLock_proofs ---------------------------
(*****************************************************************************)
(* The safety of QSpinLock for any set of threads and any number of pending  *)
(* spins.  The argument is the inductive invariant IInv of QSpinLock: the    *)
(* threads between xchg_tail and their dequeue form one chain of links that  *)
(* are either still missing or live, only its head is awake, and the bits of *)
(* the word each have one owner.  The chain is dealt with first, by kind of  *)
(* step; then one lemma per action shows that the action keeps IInv.         *)
(*****************************************************************************)
EXTENDS QSpinLock, SequenceTheorems, TLAPS

(* The part of IInv that speaks of the order of the queue.                   *)
Chain == QueueIsTheWaiters /\ OnlyTheHeadIsAwake /\ LinksFollowTheQueue

(* A queued thread that has been woken is the first of the queue.            *)
LEMMA HeadIsFirst ==
  ASSUME TypeOK, QueueIsTheWaiters, OnlyTheHeadIsAwake,
         NEW t \in Threads, pc[t] \in QueuePcs,
         pc[t] \in {"link", "wait_node"} => nodeLocked[t] = 1
  PROVE  /\ queue # <<>> /\ queue[1] = t /\ pc[t] # "link"
         /\ 1 \in Idx /\ Idx \subseteq Nat /\ Len(queue) \in Nat
<1>1. PICK i \in Idx : queue[i] = t
  BY DEF QueueIsTheWaiters
<1>2. i = 1
  BY <1>1 DEF OnlyTheHeadIsAwake, Idx, TypeOK
<1>3. queue # <<>>
  BY <1>1 DEF TypeOK, Idx
<1>4. QED
  BY <1>1, <1>2, <1>3 DEF OnlyTheHeadIsAwake, Idx, TypeOK

(* A step of a thread that is and stays outside the queue, and touches no    *)
(* queued node, keeps the chain: the fast path, the pending path, the node   *)
(* set-up and the release.                                                   *)
LEMMA StepOutsideQueue ==
  ASSUME TypeOK, Chain,
         NEW t \in Threads, NEW p,
         pc' = [pc EXCEPT ![t] = p], pc[t] \notin QueuePcs, p \notin QueuePcs,
         queue' = queue, tail' = tail,
         \A u \in Threads : pc[u] \in QueuePcs =>
           /\ nodeNext'[u] = nodeNext[u] /\ nodeLocked'[u] = nodeLocked[u]
           /\ prev'[u] = prev[u]
  PROVE  Chain'
<1>1. /\ Idx' = Idx /\ Idx = 1..Len(queue) /\ Len(queue) \in Nat
      /\ queue # <<>> => 1 \in Idx
  BY DEF Idx, TypeOK
<1>2. \A i \in Idx :
        queue[i] \in Threads /\ pc[queue[i]] \in QueuePcs /\ queue[i] # t
  BY DEF Chain, QueueIsTheWaiters, Idx, TypeOK
<1>3. \A u \in Threads : u # t => pc'[u] = pc[u]
  BY DEF TypeOK
<1>4. pc'[t] = p
  BY DEF TypeOK
<1>5. QueueIsTheWaiters'
  BY <1>1, <1>2, <1>3, <1>4 DEF Chain, QueueIsTheWaiters
<1>6. OnlyTheHeadIsAwake'
  BY <1>1, <1>2, <1>3, <1>4 DEF Chain, OnlyTheHeadIsAwake
<1>7. LinksFollowTheQueue'
  <2>1. \A i \in Idx : i < Len(queue) => i + 1 \in Idx
    BY <1>1
  <2>2. QED
    BY <1>1, <1>2, <1>3, <2>1 DEF Chain, LinksFollowTheQueue
<1>8. QED
  BY <1>5, <1>6, <1>7 DEF Chain

(* The head of the queue moves on without dequeuing: the waits, read_next    *)
(* and set_locked.                                                           *)
LEMMA StepOfHead ==
  ASSUME TypeOK, Chain,
         NEW t \in Threads, NEW p \in QueuePcs \ {"link", "wait_node"},
         pc' = [pc EXCEPT ![t] = p], pc[t] \in QueuePcs,
         pc[t] \in {"link", "wait_node"} => nodeLocked[t] = 1,
         queue' = queue, tail' = tail,
         nodeNext' = nodeNext, nodeLocked' = nodeLocked, prev' = prev
  PROVE  Chain'
<1>1. /\ queue # <<>> /\ queue[1] = t /\ pc[t] # "link" /\ 1 \in Idx
  BY HeadIsFirst DEF Chain
<1>2. Idx' = Idx /\ Idx = 1..Len(queue) /\ Len(queue) \in Nat
  BY DEF Idx, TypeOK
<1>3. \A i \in Idx : queue[i] \in Threads /\ (i > 1 => queue[i] # t)
  BY <1>1, <1>2 DEF Chain, QueueIsTheWaiters, TypeOK
<1>4. \A u \in Threads : pc'[u] = IF u = t THEN p ELSE pc[u]
  BY DEF TypeOK
<1>5. QueueIsTheWaiters'
  BY <1>1, <1>2, <1>3, <1>4 DEF Chain, QueueIsTheWaiters
<1>6. OnlyTheHeadIsAwake'
  BY <1>1, <1>2, <1>3, <1>4 DEF Chain, OnlyTheHeadIsAwake
<1>7. LinksFollowTheQueue'
  <2>1. \A i \in Idx : i < Len(queue) => i + 1 \in Idx /\ i + 1 > 1
    BY <1>2
  <2>2. QED
    BY <1>1, <1>2, <1>3, <1>4, <2>1 DEF Chain, LinksFollowTheQueue
<1>8. QED
  BY <1>5, <1>6, <1>7 DEF Chain

(* xchg_tail appends a fresh node behind the old tail.                       *)
LEMMA ChainAfterXchgTail ==
  ASSUME TypeOK, Chain, NodesAreFresh, NEW t \in Threads, XchgTail(t)
  PROVE  Chain'
<1> DEFINE n == Len(queue)
<1>1. /\ n \in Nat /\ Idx = 1..n /\ Idx' = 1..(n + 1) /\ Len(queue') = n + 1
      /\ queue' \in Seq(Threads) /\ queue'[n + 1] = t
      /\ \A i \in 1..n : queue'[i] = queue[i]
  BY DEF XchgTail, TypeOK, Idx
<1>2. \A i \in 1..n :
        queue[i] \in Threads /\ pc[queue[i]] \in QueuePcs /\ queue[i] # t
  BY <1>1 DEF XchgTail, Goto, QueuePcs, Chain, QueueIsTheWaiters, TypeOK
<1>3. /\ \A u \in Threads : u # t => pc'[u] = pc[u] /\ prev'[u] = prev[u]
      /\ pc'[t] = IF n = 0 THEN "wait_head" ELSE "link"
      /\ prev'[t] = tail
      /\ nodeNext[t] = None /\ nodeLocked[t] = 0
      /\ nodeNext' = nodeNext /\ nodeLocked' = nodeLocked /\ tail' = t
      /\ tail = IF n = 0 THEN None ELSE queue[n]
  <2>1. tail = IF n = 0 THEN None ELSE queue[n]
    BY <1>1 DEF Chain, QueueIsTheWaiters, TypeOK
  <2>2. n # 0 => tail # None
    BY <2>1, <1>1, <1>2, NoneAssumption
  <2>3. QED
    BY <2>1, <2>2 DEF XchgTail, Goto, TypeOK, NodesAreFresh, nodes
<1>4. QueueIsTheWaiters'
  <2>1. queue' # <<>>
    BY <1>1
  <2>2. \A i, j \in Idx' : queue'[i] = queue'[j] => i = j
    BY <1>1, <1>2 DEF Chain, QueueIsTheWaiters
  <2>3. \A i \in Idx' : pc'[queue'[i]] \in QueuePcs
    BY <1>1, <1>2, <1>3 DEF QueuePcs
  <2>4. \A u \in Threads : pc'[u] \in QueuePcs => \E i \in Idx' : queue'[i] = u
    BY <1>1, <1>2, <1>3 DEF Chain, QueueIsTheWaiters
  <2>5. QED
    BY <1>1, <1>3, <2>1, <2>2, <2>3, <2>4 DEF QueueIsTheWaiters
<1>5. OnlyTheHeadIsAwake'
  <2>1. CASE n = 0
    BY <1>1, <1>3, <2>1 DEF OnlyTheHeadIsAwake
  <2>2. CASE n > 0
    <3>1. queue # <<>> /\ 1 \in 1..n /\ queue'[1] = queue[1]
      BY <1>1, <2>2
    <3>2. \A i \in 1..(n + 1) : i > 1 =>
            /\ pc'[queue'[i]] \in {"link", "wait_node"}
            /\ nodeLocked'[queue'[i]] = 0
            /\ prev'[queue'[i]] = queue'[i - 1]
      <4> SUFFICES ASSUME NEW i \in 1..(n + 1), i > 1
                   PROVE  /\ pc'[queue'[i]] \in {"link", "wait_node"}
                          /\ nodeLocked'[queue'[i]] = 0
                          /\ prev'[queue'[i]] = queue'[i - 1]
        OBVIOUS
      <4>1. CASE i = n + 1
        BY <1>1, <1>3, <2>2, <4>1
      <4>2. CASE i \in 1..n
        BY <1>1, <1>2, <1>3, <4>2 DEF Chain, OnlyTheHeadIsAwake
      <4>3. QED
        BY <1>1, <4>1, <4>2
    <3>3. QED
      BY <1>1, <1>2, <1>3, <3>1, <3>2 DEF Chain, OnlyTheHeadIsAwake
  <2>3. QED
    BY <1>1, <2>1, <2>2
<1>6. LinksFollowTheQueue'
  <2> SUFFICES ASSUME NEW i \in 1..(n + 1)
               PROVE  nodeNext'[queue'[i]] =
                        IF i < n + 1 /\ pc'[queue'[i + 1]] # "link"
                        THEN queue'[i + 1] ELSE None
    BY <1>1 DEF LinksFollowTheQueue
  <2>1. CASE i = n + 1
    BY <1>1, <1>3, <2>1
  <2>2. CASE i = n
    BY <1>1, <1>3, <2>2 DEF Chain, LinksFollowTheQueue
  <2>3. CASE i < n
    <3>1. i \in 1..n /\ i + 1 \in 1..n
      BY <1>1, <2>3
    <3>2. QED
      BY <1>1, <1>2, <1>3, <2>3, <3>1 DEF Chain, LinksFollowTheQueue
  <2>4. QED
    BY <1>1, <2>1, <2>2, <2>3
<1>7. QED
  BY <1>4, <1>5, <1>6 DEF Chain

(* WRITE_ONCE(prev->next, node) fills in the one missing link, in the node   *)
(* of a predecessor that is still in the queue.                              *)
LEMMA ChainAfterLinkPrev ==
  ASSUME TypeOK, Chain, NEW t \in Threads, LinkPrev(t)
  PROVE  /\ Chain'
         /\ \E k \in Idx : k > 1 /\ queue[k] = t /\ prev[t] = queue[k - 1]
<1>1. PICK k \in Idx : queue[k] = t
  BY DEF LinkPrev, Goto, QueuePcs, Chain, QueueIsTheWaiters
<1>2. /\ Idx' = Idx /\ Idx = 1..Len(queue) /\ Len(queue) \in Nat
      /\ queue' = queue /\ tail' = tail
      /\ \A i \in Idx : queue[i] \in Threads
  BY DEF LinkPrev, Idx, TypeOK, word
<1>3. k > 1 /\ prev[t] = queue[k - 1] /\ k - 1 \in Idx
  BY <1>1, <1>2 DEF LinkPrev, Goto, Chain, OnlyTheHeadIsAwake
<1>4. /\ \A u \in Threads : pc'[u] = IF u = t THEN "wait_node" ELSE pc[u]
      /\ \A u \in Threads :
           nodeNext'[u] = IF u = queue[k - 1] THEN t ELSE nodeNext[u]
      /\ nodeLocked' = nodeLocked /\ prev' = prev /\ pc[t] = "link"
  BY <1>3 DEF LinkPrev, Goto, TypeOK, locals
<1>5. QueueIsTheWaiters'
  BY <1>1, <1>2, <1>4 DEF Chain, QueueIsTheWaiters, QueuePcs
<1>6. OnlyTheHeadIsAwake'
  <2>1. queue # <<>> => 1 \in Idx
    BY <1>2
  <2>2. \A i \in Idx : queue[i] = t => i = k
    BY <1>1 DEF Chain, QueueIsTheWaiters
  <2>3. QED
    BY <1>1, <1>2, <1>3, <1>4, <2>1, <2>2 DEF Chain, OnlyTheHeadIsAwake
<1>7. LinksFollowTheQueue'
  <2> SUFFICES ASSUME NEW i \in Idx
               PROVE  nodeNext'[queue[i]] =
                        IF i < Len(queue) /\ pc'[queue[i + 1]] # "link"
                        THEN queue[i + 1] ELSE None
    BY <1>2 DEF LinksFollowTheQueue
  <2>1. i < Len(queue) => i + 1 \in Idx
    BY <1>2
  <2>2. CASE i = k - 1
    BY <1>1, <1>2, <1>3, <1>4, <2>2
  <2>3. CASE i # k - 1
    <3>1. queue[i] # queue[k - 1] /\ (i < Len(queue) => queue[i + 1] # t)
      BY <1>1, <1>2, <1>3, <2>1, <2>3 DEF Chain, QueueIsTheWaiters
    <3>2. QED
      BY <1>2, <1>4, <2>1, <3>1 DEF Chain, LinksFollowTheQueue
  <2>4. QED
    BY <2>2, <2>3
<1>8. QED
  BY <1>1, <1>3, <1>5, <1>6, <1>7 DEF Chain

(* The final cmpxchg succeeds only when the head is alone: the queue is      *)
(* empty afterwards.                                                         *)
LEMMA ChainAfterCasTail ==
  ASSUME TypeOK, Chain, NEW t \in Threads,
         pc[t] = "cas_tail", pc' = [pc EXCEPT ![t] = "release"], tail = t,
         queue' = Tail(queue), tail' = None
  PROVE  Chain'
<1>1. queue # <<>> /\ queue[1] = t /\ 1 \in Idx
  BY HeadIsFirst DEF Chain, QueuePcs
<1>2. Len(queue) = 1
  <2>1. Len(queue) \in Idx
    BY <1>1 DEF Idx, TypeOK
  <2>2. queue[Len(queue)] = t
    BY <1>1 DEF Chain, QueueIsTheWaiters
  <2>3. QED
    BY <1>1, <2>1, <2>2 DEF Chain, QueueIsTheWaiters
<1>3. queue' = <<>> /\ Idx' = {}
  <2>1. Tail(queue) \in Seq(Threads) /\ Len(Tail(queue)) = 0
    BY <1>1, <1>2, HeadTailProperties DEF TypeOK
  <2>2. QED
    BY <2>1, EmptySeq DEF Idx
<1>4. \A u \in Threads : pc'[u] \notin QueuePcs
  BY <1>1, <1>2 DEF Chain, QueueIsTheWaiters, QueuePcs, TypeOK, Idx
<1>5. QED
  BY <1>3, <1>4 DEF Chain, QueueIsTheWaiters, OnlyTheHeadIsAwake,
     LinksFollowTheQueue

(* Where the head hands over to: the second in the queue, linked and asleep. *)
LEMMA SuccessorOfHead ==
  ASSUME TypeOK, Chain, NextIsNotStale, NEW t \in Threads, pc[t] = "hand_off"
  PROVE  /\ queue[1] = t /\ Len(queue) \in Nat /\ Len(queue) > 1
         /\ next[t] = queue[2] /\ pc[queue[2]] = "wait_node"
         /\ nodeLocked[queue[2]] = 0 /\ queue[2] \in Threads /\ queue[2] # t
<1>1. queue # <<>> /\ queue[1] = t /\ 1 \in Idx /\ Len(queue) \in Nat
  BY HeadIsFirst DEF Chain, QueuePcs
<1>2. next[t] # None /\ next[t] = nodeNext[t]
  BY DEF NextIsNotStale
<1>3. Len(queue) > 1 /\ next[t] = queue[2] /\ pc[queue[2]] # "link"
  BY <1>1, <1>2 DEF Chain, LinksFollowTheQueue
<1>4. 2 \in Idx
  BY <1>1, <1>3 DEF Idx
<1>5. QED
  BY <1>1, <1>3, <1>4 DEF Chain, OnlyTheHeadIsAwake, QueueIsTheWaiters,
     TypeOK, Idx

(* The hand-over dequeues the head and wakes exactly the new one.            *)
LEMMA ChainAfterHandOff ==
  ASSUME TypeOK, Chain, NextIsNotStale, NEW t \in Threads, HandOff(t)
  PROVE  Chain'
<1> DEFINE n == Len(queue)
<1>1. /\ queue[1] = t /\ n \in Nat /\ n > 1 /\ next[t] = queue[2]
      /\ pc[queue[2]] = "wait_node" /\ queue[2] \in Threads /\ queue[2] # t
  BY SuccessorOfHead DEF HandOff, Goto
<1>2. /\ Idx = 1..n /\ Idx' = 1..(n - 1) /\ Len(queue') = n - 1 /\ queue' # <<>>
      /\ \A i \in 1..(n - 1) : queue'[i] = queue[i + 1] /\ i + 1 \in Idx
  <2>1. queue \in Seq(Threads) /\ queue # <<>> /\ queue' = Tail(queue)
    BY <1>1 DEF HandOff, TypeOK
  <2>2. /\ Len(queue') = n - 1
        /\ \A i \in 1..(n - 1) : queue'[i] = queue[i + 1]
    BY <2>1, HeadTailProperties
  <2>3. QED
    BY <1>1, <2>2 DEF Idx
<1>3. \A i \in Idx :
        /\ queue[i] \in Threads
        /\ i > 1 => queue[i] # t
        /\ i > 2 => queue[i] # queue[2]
  <2>1. 1 \in Idx /\ 2 \in Idx
    BY <1>1, <1>2
  <2>2. \A i \in Idx : queue[i] \in Threads
    BY DEF Idx, TypeOK
  <2>3. \A i, j \in Idx : queue[i] = queue[j] => i = j
    BY DEF Chain, QueueIsTheWaiters
  <2>4. \A i \in Idx : i \in Nat
    BY <1>2
  <2>5. QED
    BY <1>1, <2>1, <2>2, <2>3, <2>4
<1>4. /\ \A u \in Threads : pc'[u] = IF u = t THEN "release" ELSE pc[u]
      /\ \A u \in Threads :
           nodeLocked'[u] = IF u = queue[2] THEN 1 ELSE nodeLocked[u]
      /\ nodeNext' = nodeNext /\ prev' = prev /\ tail' = tail
  BY <1>1 DEF HandOff, Goto, TypeOK, locals, word
<1>5. QueueIsTheWaiters'
  <2>1. \A i, j \in Idx' : queue'[i] = queue'[j] => i = j
    BY <1>1, <1>2 DEF Chain, QueueIsTheWaiters
  <2>2. \A i \in Idx' : pc'[queue'[i]] \in QueuePcs
    BY <1>1, <1>2, <1>3, <1>4 DEF Chain, QueueIsTheWaiters
  <2>3. \A u \in Threads : pc'[u] \in QueuePcs => \E i \in Idx' : queue'[i] = u
    <3> SUFFICES ASSUME NEW u \in Threads, pc'[u] \in QueuePcs
                 PROVE  \E i \in Idx' : queue'[i] = u
      OBVIOUS
    <3>1. u # t /\ pc[u] \in QueuePcs
      BY <1>4 DEF QueuePcs
    <3>2. PICK i \in Idx : queue[i] = u
      BY <3>1 DEF Chain, QueueIsTheWaiters
    <3>3. i > 1 /\ i - 1 \in 1..(n - 1)
      BY <1>1, <1>2, <3>1, <3>2
    <3>4. queue'[i - 1] = u
      BY <1>1, <1>2, <3>2, <3>3
    <3>5. QED
      BY <1>2, <3>3, <3>4
  <2>4. tail' = queue'[Len(queue')]
    BY <1>1, <1>2, <1>4 DEF Chain, QueueIsTheWaiters
  <2>5. QED
    BY <1>2, <2>1, <2>2, <2>3, <2>4 DEF QueueIsTheWaiters
<1>6. OnlyTheHeadIsAwake'
  <2>1. queue'[1] = queue[2]
    BY <1>1, <1>2
  <2>2. ASSUME NEW i \in Idx', i > 1
        PROVE  /\ pc'[queue'[i]] \in {"link", "wait_node"}
               /\ nodeLocked'[queue'[i]] = 0
               /\ prev'[queue'[i]] = queue'[i - 1]
    <3>1. /\ i + 1 \in Idx /\ i + 1 > 2 /\ queue'[i] = queue[i + 1]
          /\ i - 1 \in Idx' /\ queue'[i - 1] = queue[i]
      BY <1>1, <1>2, <2>2
    <3>2. i + 1 > 1 /\ (i + 1) - 1 = i
      BY <1>1, <1>2
    <3>3. /\ pc[queue[i + 1]] \in {"link", "wait_node"}
          /\ nodeLocked[queue[i + 1]] = 0
          /\ prev[queue[i + 1]] = queue[i]
      BY <3>1, <3>2 DEF Chain, OnlyTheHeadIsAwake
    <3>4. QED
      BY <1>2, <1>3, <1>4, <3>1, <3>2, <3>3
  <2>3. QED
    BY <1>1, <1>3, <1>4, <2>1, <2>2 DEF OnlyTheHeadIsAwake
<1>7. LinksFollowTheQueue'
  <2> SUFFICES ASSUME NEW i \in Idx'
               PROVE  nodeNext'[queue'[i]] =
                        IF i < Len(queue') /\ pc'[queue'[i + 1]] # "link"
                        THEN queue'[i + 1] ELSE None
    BY DEF LinksFollowTheQueue
  <2>1. /\ i + 1 \in Idx /\ queue'[i] = queue[i + 1]
        /\ (i < Len(queue') <=> i + 1 < n)
        /\ (i < Len(queue') => /\ i + 2 \in Idx /\ queue'[i + 1] = queue[i + 2])
    BY <1>1, <1>2
  <2>2. i < Len(queue') => pc'[queue[i + 2]] = pc[queue[i + 2]]
    BY <1>1, <1>2, <1>3, <1>4, <2>1
  <2>3. QED
    BY <1>1, <1>2, <1>4, <2>1, <2>2 DEF Chain, LinksFollowTheQueue
<1>8. QED
  BY <1>5, <1>6, <1>7 DEF Chain

(* An empty tail means nobody is queued.                                     *)
LEMMA NoTailNoQueue ==
  ASSUME TypeOK, Chain, tail = None
  PROVE  \A u \in Threads : pc[u] \notin QueuePcs
<1>1. queue = <<>>
  <2> SUFFICES ASSUME queue # <<>> PROVE FALSE
    OBVIOUS
  <2>1. Len(queue) \in Nat /\ Len(queue) \in 1..Len(queue)
    BY EmptySeq DEF TypeOK
  <2>2. QED
    BY <2>1, NoneAssumption DEF Chain, QueueIsTheWaiters, TypeOK
<1>2. QED
  BY <1>1 DEF Chain, QueueIsTheWaiters, Idx

(* The queue has one head.                                                   *)
LEMMA OneHead ==
  ASSUME TypeOK, Chain, NEW t \in Threads, NEW u \in Threads,
         pc[t] \in QueuePcs \ {"link", "wait_node"},
         pc[u] \in QueuePcs \ {"link", "wait_node"}
  PROVE  t = u
BY HeadIsFirst DEF Chain

(* IInv is kept by queued_spin_lock's cmpxchg 0 -> locked.                   *)
LEMMA FastLockStep ==
  ASSUME IInv, NEW t \in Threads, FastLock(t)
  PROVE  IInv'
<1> USE NoneAssumption, LoopsAssumption
    DEF Goto, word, nodes, locals, Unlocked, PendingOnly, Contended,
        QueueOrPend, PendingPcs, OwnerPcs, QueuePcs, NodeInUsePcs, Pcs
<1>0. /\ TypeOK /\ NeverAborts /\ Chain /\ NextIsNotStale /\ NodesAreFresh
      /\ PendingBitHasOneOwner /\ LockedByteHasOneOwner /\ NobodyCanStealTheLock
  BY DEF IInv, Chain
<1> USE <1>0
<1>1. TypeOK'
  BY DEF FastLock, TypeOK
<1>2. NeverAborts'
  BY DEF FastLock, TypeOK, NeverAborts
<1>3. Chain'
  BY StepOutsideQueue DEF FastLock
<1>4. NextIsNotStale'
  BY DEF FastLock, TypeOK, NextIsNotStale
<1>5. NodesAreFresh'
  BY DEF FastLock, TypeOK, NodesAreFresh
<1>6. PendingBitHasOneOwner'
  BY DEF FastLock, TypeOK, PendingBitHasOneOwner
<1>7. LockedByteHasOneOwner'
  BY DEF FastLock, TypeOK, LockedByteHasOneOwner, MutualExclusion
<1>8. NobodyCanStealTheLock'
  <2>1. \A u \in Threads : pc[u] \notin QueuePcs
    BY NoTailNoQueue DEF FastLock
  <2>2. \A u \in Threads : pc[u] \notin PendingPcs
    BY DEF FastLock, PendingBitHasOneOwner
  <2>3. QED
    BY <2>1, <2>2 DEF FastLock, TypeOK, NobodyCanStealTheLock
<1>9. QED
  BY <1>1, <1>2, <1>3, <1>4, <1>5, <1>6, <1>7, <1>8 DEF IInv, Chain

(* IInv is kept by its failure.                                              *)
LEMMA EnterSlowpathStep ==
  ASSUME IInv, NEW t \in Threads, EnterSlowpath(t)
  PROVE  IInv'
<1> USE NoneAssumption, LoopsAssumption
    DEF Goto, word, nodes, locals, Unlocked, PendingOnly, Contended,
        QueueOrPend, PendingPcs, OwnerPcs, QueuePcs, NodeInUsePcs, Pcs
<1>0. /\ TypeOK /\ NeverAborts /\ Chain /\ NextIsNotStale /\ NodesAreFresh
      /\ PendingBitHasOneOwner /\ LockedByteHasOneOwner /\ NobodyCanStealTheLock
  BY DEF IInv, Chain
<1> USE <1>0
<1>1. TypeOK'
  BY DEF EnterSlowpath, TypeOK
<1>2. NeverAborts'
  BY DEF EnterSlowpath, TypeOK, NeverAborts
<1>3. Chain'
  BY StepOutsideQueue DEF EnterSlowpath
<1>4. NextIsNotStale'
  BY DEF EnterSlowpath, TypeOK, NextIsNotStale
<1>5. NodesAreFresh'
  BY DEF EnterSlowpath, TypeOK, NodesAreFresh
<1>6. PendingBitHasOneOwner'
  BY DEF EnterSlowpath, TypeOK, PendingBitHasOneOwner
<1>7. LockedByteHasOneOwner'
  BY DEF EnterSlowpath, TypeOK, LockedByteHasOneOwner, MutualExclusion
<1>8. NobodyCanStealTheLock'
  BY DEF EnterSlowpath, TypeOK, NobodyCanStealTheLock
<1>9. QED
  BY <1>1, <1>2, <1>3, <1>4, <1>5, <1>6, <1>7, <1>8 DEF IInv, Chain

(* IInv is kept by queued_spin_unlock.                                       *)
LEMMA UnlockStep ==
  ASSUME IInv, NEW t \in Threads, Unlock(t)
  PROVE  IInv'
<1> USE NoneAssumption, LoopsAssumption
    DEF Goto, word, nodes, locals, Unlocked, PendingOnly, Contended,
        QueueOrPend, PendingPcs, OwnerPcs, QueuePcs, NodeInUsePcs, Pcs
<1>0. /\ TypeOK /\ NeverAborts /\ Chain /\ NextIsNotStale /\ NodesAreFresh
      /\ PendingBitHasOneOwner /\ LockedByteHasOneOwner /\ NobodyCanStealTheLock
  BY DEF IInv, Chain
<1> USE <1>0
<1>1. TypeOK'
  BY DEF Unlock, TypeOK
<1>2. NeverAborts'
  BY DEF Unlock, TypeOK, NeverAborts
<1>3. Chain'
  BY StepOutsideQueue DEF Unlock
<1>4. NextIsNotStale'
  BY DEF Unlock, TypeOK, NextIsNotStale
<1>5. NodesAreFresh'
  BY DEF Unlock, TypeOK, NodesAreFresh
<1>6. PendingBitHasOneOwner'
  BY DEF Unlock, TypeOK, PendingBitHasOneOwner
<1>7. LockedByteHasOneOwner'
  BY DEF Unlock, TypeOK, LockedByteHasOneOwner, MutualExclusion
<1>8. NobodyCanStealTheLock'
  BY DEF Unlock, TypeOK, NobodyCanStealTheLock
<1>9. QED
  BY <1>1, <1>2, <1>3, <1>4, <1>5, <1>6, <1>7, <1>8 DEF IInv, Chain

(* IInv is kept by the bounded pending spin.                                 *)
LEMMA PendingSpinStep ==
  ASSUME IInv, NEW t \in Threads, PendingSpin(t)
  PROVE  IInv'
<1>0. /\ TypeOK /\ NeverAborts /\ Chain /\ NextIsNotStale /\ NodesAreFresh
      /\ PendingBitHasOneOwner /\ LockedByteHasOneOwner /\ NobodyCanStealTheLock
  BY DEF IInv, Chain
<1> USE <1>0
<1>a. PICK p \in {"pending_spin", "grab_node", "set_pending"} :
        /\ pc[t] = "pending_spin" /\ pc' = [pc EXCEPT ![t] = p]
        /\ UNCHANGED <<locked, pending, tail, nodeLocked, nodeNext, nodeCount,
           prev, next, queue>>
  BY DEF PendingSpin, Goto, QueueOrPend, word, nodes
<1>b. \A u \in Threads : pc'[u] = IF u = t THEN p ELSE pc[u]
  BY <1>a DEF TypeOK
<1>1. TypeOK'
  <2>1. p \in Pcs
    BY <1>a DEF Pcs
  <2>2. cnt' \in [Threads -> 0..PendingLoops]
    <3>1. cnt[t] \in 0..PendingLoops /\ cnt \in [Threads -> 0..PendingLoops]
      BY DEF TypeOK
    <3>2. CASE PendingOnly /\ cnt[t] # 0
      <4>1. cnt[t] - 1 \in 0..PendingLoops
        BY <3>1, <3>2, LoopsAssumption
      <4>2. QED
        BY <3>1, <3>2, <4>1 DEF PendingSpin
    <3>3. CASE ~(PendingOnly /\ cnt[t] # 0)
      <4>1. 0 \in 0..PendingLoops
        BY LoopsAssumption
      <4>2. QED
        BY <3>1, <3>3, <4>1 DEF PendingSpin
    <3>4. QED
      BY <3>2, <3>3
  <2>3. QED
    BY <1>a, <2>1, <2>2 DEF TypeOK
<1>2. NeverAborts'
  BY <1>a, <1>b DEF NeverAborts
<1>3. Chain'
  BY <1>a, StepOutsideQueue DEF QueuePcs
<1>4. NextIsNotStale'
  BY <1>a, <1>b DEF NextIsNotStale
<1>5. NodesAreFresh'
  BY <1>a, <1>b DEF NodesAreFresh, NodeInUsePcs, QueuePcs
<1>6. PendingBitHasOneOwner'
  BY <1>a, <1>b DEF PendingBitHasOneOwner, PendingPcs
<1>7. LockedByteHasOneOwner'
  <2>1. \A u \in Threads : pc'[u] \in OwnerPcs <=> pc[u] \in OwnerPcs
    BY <1>a, <1>b DEF OwnerPcs
  <2>2. QED
    BY <1>a, <2>1 DEF LockedByteHasOneOwner, MutualExclusion
<1>8. NobodyCanStealTheLock'
  BY <1>a, <1>b DEF NobodyCanStealTheLock
<1>9. QED
  BY <1>1, <1>2, <1>3, <1>4, <1>5, <1>6, <1>7, <1>8 DEF IInv, Chain

(* IInv is kept by queued_fetch_set_pending_acquire.                         *)
LEMMA SetPendingStep ==
  ASSUME IInv, NEW t \in Threads, SetPending(t)
  PROVE  IInv'
<1>0. /\ TypeOK /\ NeverAborts /\ Chain /\ NextIsNotStale /\ NodesAreFresh
      /\ PendingBitHasOneOwner /\ LockedByteHasOneOwner /\ NobodyCanStealTheLock
  BY DEF IInv, Chain
<1> USE <1>0
<1>a. PICK p \in {"clear_pending", "grab_node", "wait_owner", "take_pending"} :
        /\ pc[t] = "set_pending" /\ pc' = [pc EXCEPT ![t] = p]
        /\ p = "clear_pending" <=> Contended /\ pending = 0
        /\ p = "grab_node" <=> Contended /\ pending = 1
        /\ p = "wait_owner" <=> ~Contended /\ locked = 1
        /\ p = "take_pending" <=> ~Contended /\ locked = 0
        /\ pending' = 1
        /\ UNCHANGED <<locked, tail, nodeLocked, nodeNext, nodeCount, cnt,
           prev, next, queue>>
  <2>1. locked \in 0..1 /\ pending \in 0..1
    BY DEF TypeOK
  <2>2. QED
    BY <2>1 DEF SetPending, Goto, Contended, nodes, locals
<1>b. \A u \in Threads : pc'[u] = IF u = t THEN p ELSE pc[u]
  BY <1>a DEF TypeOK
<1>1. TypeOK'
  <2>1. p \in Pcs
    BY <1>a DEF Pcs, PendingPcs
  <2>2. QED
    BY <1>a, <2>1 DEF TypeOK
<1>2. NeverAborts'
  BY <1>a, <1>b DEF NeverAborts
<1>3. Chain'
  BY <1>a, StepOutsideQueue DEF QueuePcs
<1>4. NextIsNotStale'
  BY <1>a, <1>b DEF NextIsNotStale
<1>5. NodesAreFresh'
  BY <1>a, <1>b DEF NodesAreFresh, NodeInUsePcs, QueuePcs
<1>6. PendingBitHasOneOwner'
  <2>1. CASE p = "grab_node"
    <3>1. pending = 1
      BY <1>a, <2>1
    <3>2. \A u \in Threads : pc'[u] \in PendingPcs <=> pc[u] \in PendingPcs
      BY <1>a, <1>b, <2>1 DEF PendingPcs
    <3>3. QED
      BY <1>a, <3>1, <3>2 DEF PendingBitHasOneOwner
  <2>2. CASE p # "grab_node"
    <3>1. pending = 0
      BY <1>a, <2>2 DEF Contended, TypeOK
    <3>2. \A u \in Threads : pc'[u] \in PendingPcs <=> u = t
      BY <1>a, <1>b, <2>2, <3>1 DEF PendingPcs, PendingBitHasOneOwner
    <3>3. QED
      BY <1>a, <3>2 DEF PendingBitHasOneOwner
  <2>3. QED
    BY <2>1, <2>2
<1>7. LockedByteHasOneOwner'
  <2>1. \A u \in Threads : pc'[u] \in OwnerPcs <=> pc[u] \in OwnerPcs
    BY <1>a, <1>b DEF OwnerPcs
  <2>2. QED
    BY <1>a, <2>1 DEF LockedByteHasOneOwner, MutualExclusion
<1>8. NobodyCanStealTheLock'
  <2>1. ~Contended => \A u \in Threads : pc[u] \notin QueuePcs
    BY NoTailNoQueue DEF Contended
  <2>2. QED
    BY <1>a, <1>b, <2>1 DEF NobodyCanStealTheLock, QueuePcs
<1>9. QED
  BY <1>1, <1>2, <1>3, <1>4, <1>5, <1>6, <1>7, <1>8 DEF IInv, Chain

(* IInv is kept by clear_pending.                                            *)
LEMMA ClearPendingStep ==
  ASSUME IInv, NEW t \in Threads, ClearPending(t)
  PROVE  IInv'
<1> USE NoneAssumption, LoopsAssumption
    DEF Goto, word, nodes, locals, Unlocked, PendingOnly, Contended,
        QueueOrPend, PendingPcs, OwnerPcs, QueuePcs, NodeInUsePcs, Pcs
<1>0. /\ TypeOK /\ NeverAborts /\ Chain /\ NextIsNotStale /\ NodesAreFresh
      /\ PendingBitHasOneOwner /\ LockedByteHasOneOwner /\ NobodyCanStealTheLock
  BY DEF IInv, Chain
<1> USE <1>0
<1>1. TypeOK'
  BY DEF ClearPending, TypeOK
<1>2. NeverAborts'
  BY DEF ClearPending, TypeOK, NeverAborts
<1>3. Chain'
  BY StepOutsideQueue DEF ClearPending
<1>4. NextIsNotStale'
  BY DEF ClearPending, TypeOK, NextIsNotStale
<1>5. NodesAreFresh'
  BY DEF ClearPending, TypeOK, NodesAreFresh
<1>6. PendingBitHasOneOwner'
  BY DEF ClearPending, TypeOK, PendingBitHasOneOwner
<1>7. LockedByteHasOneOwner'
  BY DEF ClearPending, TypeOK, LockedByteHasOneOwner, MutualExclusion
<1>8. NobodyCanStealTheLock'
  BY DEF ClearPending, TypeOK, NobodyCanStealTheLock
<1>9. QED
  BY <1>1, <1>2, <1>3, <1>4, <1>5, <1>6, <1>7, <1>8 DEF IInv, Chain

(* IInv is kept by the pending thread's wait for the owner.                  *)
LEMMA WaitOwnerStep ==
  ASSUME IInv, NEW t \in Threads, WaitOwner(t)
  PROVE  IInv'
<1> USE NoneAssumption, LoopsAssumption
    DEF Goto, word, nodes, locals, Unlocked, PendingOnly, Contended,
        QueueOrPend, PendingPcs, OwnerPcs, QueuePcs, NodeInUsePcs, Pcs
<1>0. /\ TypeOK /\ NeverAborts /\ Chain /\ NextIsNotStale /\ NodesAreFresh
      /\ PendingBitHasOneOwner /\ LockedByteHasOneOwner /\ NobodyCanStealTheLock
  BY DEF IInv, Chain
<1> USE <1>0
<1>1. TypeOK'
  BY DEF WaitOwner, TypeOK
<1>2. NeverAborts'
  BY DEF WaitOwner, TypeOK, NeverAborts
<1>3. Chain'
  BY StepOutsideQueue DEF WaitOwner
<1>4. NextIsNotStale'
  BY DEF WaitOwner, TypeOK, NextIsNotStale
<1>5. NodesAreFresh'
  BY DEF WaitOwner, TypeOK, NodesAreFresh
<1>6. PendingBitHasOneOwner'
  BY DEF WaitOwner, TypeOK, PendingBitHasOneOwner
<1>7. LockedByteHasOneOwner'
  BY DEF WaitOwner, TypeOK, LockedByteHasOneOwner, MutualExclusion
<1>8. NobodyCanStealTheLock'
  BY DEF WaitOwner, TypeOK, NobodyCanStealTheLock
<1>9. QED
  BY <1>1, <1>2, <1>3, <1>4, <1>5, <1>6, <1>7, <1>8 DEF IInv, Chain

(* IInv is kept by clear_pending_set_locked.                                 *)
LEMMA TakePendingStep ==
  ASSUME IInv, NEW t \in Threads, TakePending(t)
  PROVE  IInv'
<1> USE NoneAssumption, LoopsAssumption
    DEF Goto, word, nodes, locals, Unlocked, PendingOnly, Contended,
        QueueOrPend, PendingPcs, OwnerPcs, QueuePcs, NodeInUsePcs, Pcs
<1>0. /\ TypeOK /\ NeverAborts /\ Chain /\ NextIsNotStale /\ NodesAreFresh
      /\ PendingBitHasOneOwner /\ LockedByteHasOneOwner /\ NobodyCanStealTheLock
  BY DEF IInv, Chain
<1> USE <1>0
<1>1. TypeOK'
  BY DEF TakePending, TypeOK
<1>2. NeverAborts'
  BY DEF TakePending, TypeOK, NeverAborts
<1>3. Chain'
  BY StepOutsideQueue DEF TakePending
<1>4. NextIsNotStale'
  BY DEF TakePending, TypeOK, NextIsNotStale
<1>5. NodesAreFresh'
  BY DEF TakePending, TypeOK, NodesAreFresh
<1>6. PendingBitHasOneOwner'
  BY DEF TakePending, TypeOK, PendingBitHasOneOwner
<1>7. LockedByteHasOneOwner'
  BY DEF TakePending, TypeOK, LockedByteHasOneOwner, MutualExclusion,
     NobodyCanStealTheLock
<1>8. NobodyCanStealTheLock'
  BY DEF TakePending, TypeOK, NobodyCanStealTheLock, PendingBitHasOneOwner
<1>9. QED
  BY <1>1, <1>2, <1>3, <1>4, <1>5, <1>6, <1>7, <1>8 DEF IInv, Chain

(* IInv is kept by node->count++.                                            *)
LEMMA GrabNodeStep ==
  ASSUME IInv, NEW t \in Threads, GrabNode(t)
  PROVE  IInv'
<1> USE NoneAssumption, LoopsAssumption
    DEF Goto, word, nodes, locals, Unlocked, PendingOnly, Contended,
        QueueOrPend, PendingPcs, OwnerPcs, QueuePcs, NodeInUsePcs, Pcs
<1>0. /\ TypeOK /\ NeverAborts /\ Chain /\ NextIsNotStale /\ NodesAreFresh
      /\ PendingBitHasOneOwner /\ LockedByteHasOneOwner /\ NobodyCanStealTheLock
  BY DEF IInv, Chain
<1> USE <1>0
<1>1. TypeOK'
  BY DEF GrabNode, TypeOK
<1>2. NeverAborts'
  <2>1. pc[t] = "grab_node" /\ nodeCount[t] = 0
    BY DEF GrabNode, NodesAreFresh
  <2>2. pc' = [pc EXCEPT ![t] = "init_node"]
    BY <2>1 DEF GrabNode
  <2>3. QED
    BY <2>2 DEF NeverAborts, TypeOK
<1>3. Chain'
  BY StepOutsideQueue DEF GrabNode
<1>4. NextIsNotStale'
  BY DEF GrabNode, TypeOK, NextIsNotStale
<1>5. NodesAreFresh'
  BY DEF GrabNode, TypeOK, NodesAreFresh
<1>6. PendingBitHasOneOwner'
  BY DEF GrabNode, TypeOK, PendingBitHasOneOwner
<1>7. LockedByteHasOneOwner'
  BY DEF GrabNode, TypeOK, LockedByteHasOneOwner, MutualExclusion
<1>8. NobodyCanStealTheLock'
  BY DEF GrabNode, TypeOK, NobodyCanStealTheLock
<1>9. QED
  BY <1>1, <1>2, <1>3, <1>4, <1>5, <1>6, <1>7, <1>8 DEF IInv, Chain

(* IInv is kept by the initialisation of the node.                           *)
LEMMA InitNodeStep ==
  ASSUME IInv, NEW t \in Threads, InitNode(t)
  PROVE  IInv'
<1> USE NoneAssumption, LoopsAssumption
    DEF Goto, word, nodes, locals, Unlocked, PendingOnly, Contended,
        QueueOrPend, PendingPcs, OwnerPcs, QueuePcs, NodeInUsePcs, Pcs
<1>0. /\ TypeOK /\ NeverAborts /\ Chain /\ NextIsNotStale /\ NodesAreFresh
      /\ PendingBitHasOneOwner /\ LockedByteHasOneOwner /\ NobodyCanStealTheLock
  BY DEF IInv, Chain
<1> USE <1>0
<1>1. TypeOK'
  BY DEF InitNode, TypeOK
<1>2. NeverAborts'
  BY DEF InitNode, TypeOK, NeverAborts
<1>3. Chain'
  <2>1. \A u \in Threads : pc[u] \in QueuePcs => u # t
    BY DEF InitNode
  <2>2. \A u \in Threads : u # t =>
          nodeNext'[u] = nodeNext[u] /\ nodeLocked'[u] = nodeLocked[u]
    BY DEF InitNode, TypeOK
  <2>3. QED
    BY <2>1, <2>2, StepOutsideQueue DEF InitNode
<1>4. NextIsNotStale'
  BY DEF InitNode, TypeOK, NextIsNotStale
<1>5. NodesAreFresh'
  BY DEF InitNode, TypeOK, NodesAreFresh
<1>6. PendingBitHasOneOwner'
  BY DEF InitNode, TypeOK, PendingBitHasOneOwner
<1>7. LockedByteHasOneOwner'
  BY DEF InitNode, TypeOK, LockedByteHasOneOwner, MutualExclusion
<1>8. NobodyCanStealTheLock'
  BY DEF InitNode, TypeOK, NobodyCanStealTheLock
<1>9. QED
  BY <1>1, <1>2, <1>3, <1>4, <1>5, <1>6, <1>7, <1>8 DEF IInv, Chain

(* IInv is kept by the read of queued_spin_trylock.                          *)
LEMMA TryReadStep ==
  ASSUME IInv, NEW t \in Threads, TryRead(t)
  PROVE  IInv'
<1> USE NoneAssumption, LoopsAssumption
    DEF Goto, word, nodes, locals, Unlocked, PendingOnly, Contended,
        QueueOrPend, PendingPcs, OwnerPcs, QueuePcs, NodeInUsePcs, Pcs
<1>0. /\ TypeOK /\ NeverAborts /\ Chain /\ NextIsNotStale /\ NodesAreFresh
      /\ PendingBitHasOneOwner /\ LockedByteHasOneOwner /\ NobodyCanStealTheLock
  BY DEF IInv, Chain
<1> USE <1>0
<1>1. TypeOK'
  BY DEF TryRead, TypeOK
<1>2. NeverAborts'
  BY DEF TryRead, TypeOK, NeverAborts
<1>3. Chain'
  BY StepOutsideQueue DEF TryRead
<1>4. NextIsNotStale'
  BY DEF TryRead, TypeOK, NextIsNotStale
<1>5. NodesAreFresh'
  BY DEF TryRead, TypeOK, NodesAreFresh
<1>6. PendingBitHasOneOwner'
  BY DEF TryRead, TypeOK, PendingBitHasOneOwner
<1>7. LockedByteHasOneOwner'
  BY DEF TryRead, TypeOK, LockedByteHasOneOwner, MutualExclusion
<1>8. NobodyCanStealTheLock'
  BY DEF TryRead, TypeOK, NobodyCanStealTheLock
<1>9. QED
  BY <1>1, <1>2, <1>3, <1>4, <1>5, <1>6, <1>7, <1>8 DEF IInv, Chain

(* IInv is kept by the cmpxchg of queued_spin_trylock.                       *)
LEMMA TryCasStep ==
  ASSUME IInv, NEW t \in Threads, TryCas(t)
  PROVE  IInv'
<1>0. /\ TypeOK /\ NeverAborts /\ Chain /\ NextIsNotStale /\ NodesAreFresh
      /\ PendingBitHasOneOwner /\ LockedByteHasOneOwner /\ NobodyCanStealTheLock
  BY DEF IInv, Chain
<1> USE <1>0
<1>a. PICK p \in {"release", "xchg_tail"} :
        /\ pc[t] = "try_cas" /\ pc' = [pc EXCEPT ![t] = p]
        /\ p = "release" <=> Unlocked
        /\ locked' = IF Unlocked THEN 1 ELSE locked
        /\ UNCHANGED <<pending, tail, nodeLocked, nodeNext, nodeCount, cnt,
           prev, next, queue>>
  BY DEF TryCas, Goto, word, nodes, locals
<1>b. \A u \in Threads : pc'[u] = IF u = t THEN p ELSE pc[u]
  BY <1>a DEF TypeOK
<1>c. Unlocked => /\ locked = 0
                  /\ \A u \in Threads : pc[u] \notin QueuePcs \union PendingPcs
  BY NoTailNoQueue DEF Unlocked, PendingBitHasOneOwner
<1>1. TypeOK'
  <2>1. p \in Pcs
    BY <1>a DEF Pcs, OwnerPcs
  <2>2. QED
    BY <1>a, <2>1 DEF TypeOK
<1>2. NeverAborts'
  BY <1>a, <1>b DEF NeverAborts
<1>3. Chain'
  BY <1>a, StepOutsideQueue DEF QueuePcs
<1>4. NextIsNotStale'
  BY <1>a, <1>b DEF NextIsNotStale
<1>5. NodesAreFresh'
  BY <1>a, <1>b DEF NodesAreFresh, NodeInUsePcs, QueuePcs
<1>6. PendingBitHasOneOwner'
  BY <1>a, <1>b DEF PendingBitHasOneOwner, PendingPcs
<1>7. LockedByteHasOneOwner'
  <2>1. \A u \in Threads :
          pc'[u] \in OwnerPcs <=> pc[u] \in OwnerPcs \/ (u = t /\ Unlocked)
    BY <1>a, <1>b DEF OwnerPcs
  <2>2. Unlocked => \A u \in Threads : pc[u] \notin OwnerPcs
    BY <1>c DEF LockedByteHasOneOwner
  <2>3. QED
    BY <1>a, <2>1, <2>2 DEF LockedByteHasOneOwner, MutualExclusion
<1>8. NobodyCanStealTheLock'
  BY <1>a, <1>b, <1>c DEF NobodyCanStealTheLock, QueuePcs, PendingPcs
<1>9. QED
  BY <1>1, <1>2, <1>3, <1>4, <1>5, <1>6, <1>7, <1>8 DEF IInv, Chain

(* IInv is kept by xchg_tail.                                                *)
LEMMA XchgTailStep ==
  ASSUME IInv, NEW t \in Threads, XchgTail(t)
  PROVE  IInv'
<1> USE NoneAssumption, LoopsAssumption
    DEF Goto, word, nodes, locals, Unlocked, PendingOnly, Contended,
        QueueOrPend, PendingPcs, OwnerPcs, QueuePcs, NodeInUsePcs, Pcs
<1>0. /\ TypeOK /\ NeverAborts /\ Chain /\ NextIsNotStale /\ NodesAreFresh
      /\ PendingBitHasOneOwner /\ LockedByteHasOneOwner /\ NobodyCanStealTheLock
  BY DEF IInv, Chain
<1> USE <1>0
<1>1. TypeOK'
  BY DEF XchgTail, TypeOK
<1>2. NeverAborts'
  BY DEF XchgTail, TypeOK, NeverAborts
<1>3. Chain'
  BY ChainAfterXchgTail
<1>4. NextIsNotStale'
  BY DEF XchgTail, TypeOK, NextIsNotStale
<1>5. NodesAreFresh'
  BY DEF XchgTail, TypeOK, NodesAreFresh
<1>6. PendingBitHasOneOwner'
  BY DEF XchgTail, TypeOK, PendingBitHasOneOwner
<1>7. LockedByteHasOneOwner'
  BY DEF XchgTail, TypeOK, LockedByteHasOneOwner, MutualExclusion
<1>8. NobodyCanStealTheLock'
  BY DEF XchgTail, TypeOK, NobodyCanStealTheLock
<1>9. QED
  BY <1>1, <1>2, <1>3, <1>4, <1>5, <1>6, <1>7, <1>8 DEF IInv, Chain

(* IInv is kept by the link into prev->next.                                 *)
LEMMA LinkPrevStep ==
  ASSUME IInv, NEW t \in Threads, LinkPrev(t)
  PROVE  IInv'
<1> USE NoneAssumption, LoopsAssumption
    DEF Goto, word, nodes, locals, Unlocked, PendingOnly, Contended,
        QueueOrPend, PendingPcs, OwnerPcs, QueuePcs, NodeInUsePcs, Pcs
<1>0. /\ TypeOK /\ NeverAborts /\ Chain /\ NextIsNotStale /\ NodesAreFresh
      /\ PendingBitHasOneOwner /\ LockedByteHasOneOwner /\ NobodyCanStealTheLock
  BY DEF IInv, Chain
<1> USE <1>0
<1>1. TypeOK'
  BY DEF LinkPrev, TypeOK
<1>2. NeverAborts'
  BY DEF LinkPrev, TypeOK, NeverAborts
<1>3. Chain'
  BY ChainAfterLinkPrev
<1>4. NextIsNotStale'
  <2>1. PICK k \in Idx : k > 1 /\ queue[k] = t /\ prev[t] = queue[k - 1]
    BY ChainAfterLinkPrev
  <2>2. Idx = 1..Len(queue) /\ Len(queue) \in Nat
    BY DEF Idx, TypeOK
  <2>3. k - 1 \in Idx /\ k - 1 < Len(queue) /\ (k - 1) + 1 = k
    BY <2>1, <2>2
  <2>4. nodeNext[prev[t]] = None
    BY <2>1, <2>3 DEF LinkPrev, Chain, LinksFollowTheQueue
  <2>5. QED
    BY <2>4 DEF LinkPrev, TypeOK, NextIsNotStale
<1>5. NodesAreFresh'
  <2>1. PICK k \in Idx : k > 1 /\ queue[k] = t /\ prev[t] = queue[k - 1]
    BY ChainAfterLinkPrev
  <2>2. k - 1 \in Idx
    BY <2>1 DEF Idx, TypeOK
  <2>3. pc[prev[t]] \in QueuePcs
    BY <2>1, <2>2 DEF Chain, QueueIsTheWaiters
  <2>4. QED
    BY <2>3 DEF LinkPrev, TypeOK, NodesAreFresh
<1>6. PendingBitHasOneOwner'
  BY DEF LinkPrev, TypeOK, PendingBitHasOneOwner
<1>7. LockedByteHasOneOwner'
  BY DEF LinkPrev, TypeOK, LockedByteHasOneOwner, MutualExclusion
<1>8. NobodyCanStealTheLock'
  BY DEF LinkPrev, TypeOK, NobodyCanStealTheLock
<1>9. QED
  BY <1>1, <1>2, <1>3, <1>4, <1>5, <1>6, <1>7, <1>8 DEF IInv, Chain

(* IInv is kept by the wait on node->locked.                                 *)
LEMMA WaitNodeStep ==
  ASSUME IInv, NEW t \in Threads, WaitNode(t)
  PROVE  IInv'
<1> USE NoneAssumption, LoopsAssumption
    DEF Goto, word, nodes, locals, Unlocked, PendingOnly, Contended,
        QueueOrPend, PendingPcs, OwnerPcs, QueuePcs, NodeInUsePcs, Pcs
<1>0. /\ TypeOK /\ NeverAborts /\ Chain /\ NextIsNotStale /\ NodesAreFresh
      /\ PendingBitHasOneOwner /\ LockedByteHasOneOwner /\ NobodyCanStealTheLock
  BY DEF IInv, Chain
<1> USE <1>0
<1>1. TypeOK'
  BY DEF WaitNode, TypeOK
<1>2. NeverAborts'
  BY DEF WaitNode, TypeOK, NeverAborts
<1>3. Chain'
  BY StepOfHead DEF WaitNode
<1>4. NextIsNotStale'
  BY DEF WaitNode, TypeOK, NextIsNotStale
<1>5. NodesAreFresh'
  BY DEF WaitNode, TypeOK, NodesAreFresh
<1>6. PendingBitHasOneOwner'
  BY DEF WaitNode, TypeOK, PendingBitHasOneOwner
<1>7. LockedByteHasOneOwner'
  BY DEF WaitNode, TypeOK, LockedByteHasOneOwner, MutualExclusion
<1>8. NobodyCanStealTheLock'
  BY DEF WaitNode, TypeOK, NobodyCanStealTheLock
<1>9. QED
  BY <1>1, <1>2, <1>3, <1>4, <1>5, <1>6, <1>7, <1>8 DEF IInv, Chain

(* IInv is kept by the early read of node->next.                             *)
LEMMA ReadNextStep ==
  ASSUME IInv, NEW t \in Threads, ReadNext(t)
  PROVE  IInv'
<1> USE NoneAssumption, LoopsAssumption
    DEF Goto, word, nodes, locals, Unlocked, PendingOnly, Contended,
        QueueOrPend, PendingPcs, OwnerPcs, QueuePcs, NodeInUsePcs, Pcs
<1>0. /\ TypeOK /\ NeverAborts /\ Chain /\ NextIsNotStale /\ NodesAreFresh
      /\ PendingBitHasOneOwner /\ LockedByteHasOneOwner /\ NobodyCanStealTheLock
  BY DEF IInv, Chain
<1> USE <1>0
<1>1. TypeOK'
  BY DEF ReadNext, TypeOK
<1>2. NeverAborts'
  BY DEF ReadNext, TypeOK, NeverAborts
<1>3. Chain'
  BY StepOfHead DEF ReadNext
<1>4. NextIsNotStale'
  BY DEF ReadNext, TypeOK, NextIsNotStale
<1>5. NodesAreFresh'
  BY DEF ReadNext, TypeOK, NodesAreFresh
<1>6. PendingBitHasOneOwner'
  BY DEF ReadNext, TypeOK, PendingBitHasOneOwner
<1>7. LockedByteHasOneOwner'
  BY DEF ReadNext, TypeOK, LockedByteHasOneOwner, MutualExclusion
<1>8. NobodyCanStealTheLock'
  BY DEF ReadNext, TypeOK, NobodyCanStealTheLock
<1>9. QED
  BY <1>1, <1>2, <1>3, <1>4, <1>5, <1>6, <1>7, <1>8 DEF IInv, Chain

(* IInv is kept by the head's wait for owner and pending.                    *)
LEMMA WaitHeadStep ==
  ASSUME IInv, NEW t \in Threads, WaitHead(t)
  PROVE  IInv'
<1> USE NoneAssumption, LoopsAssumption
    DEF Goto, word, nodes, locals, Unlocked, PendingOnly, Contended,
        QueueOrPend, PendingPcs, OwnerPcs, QueuePcs, NodeInUsePcs, Pcs
<1>0. /\ TypeOK /\ NeverAborts /\ Chain /\ NextIsNotStale /\ NodesAreFresh
      /\ PendingBitHasOneOwner /\ LockedByteHasOneOwner /\ NobodyCanStealTheLock
  BY DEF IInv, Chain
<1> USE <1>0
<1>1. TypeOK'
  BY DEF WaitHead, TypeOK
<1>2. NeverAborts'
  BY DEF WaitHead, TypeOK, NeverAborts
<1>3. Chain'
  BY StepOfHead DEF WaitHead
<1>4. NextIsNotStale'
  BY DEF WaitHead, TypeOK, NextIsNotStale
<1>5. NodesAreFresh'
  BY DEF WaitHead, TypeOK, NodesAreFresh
<1>6. PendingBitHasOneOwner'
  BY DEF WaitHead, TypeOK, PendingBitHasOneOwner
<1>7. LockedByteHasOneOwner'
  BY DEF WaitHead, TypeOK, LockedByteHasOneOwner, MutualExclusion
<1>8. NobodyCanStealTheLock'
  BY DEF WaitHead, TypeOK, NobodyCanStealTheLock, PendingBitHasOneOwner
<1>9. QED
  BY <1>1, <1>2, <1>3, <1>4, <1>5, <1>6, <1>7, <1>8 DEF IInv, Chain

(* IInv is kept by the final cmpxchg.                                        *)
LEMMA CasTailStep ==
  ASSUME IInv, NEW t \in Threads, CasTail(t)
  PROVE  IInv'
<1> USE NoneAssumption, LoopsAssumption
    DEF Goto, word, nodes, locals, Unlocked, PendingOnly, Contended,
        QueueOrPend, PendingPcs, OwnerPcs, QueuePcs, NodeInUsePcs, Pcs
<1>0. /\ TypeOK /\ NeverAborts /\ Chain /\ NextIsNotStale /\ NodesAreFresh
      /\ PendingBitHasOneOwner /\ LockedByteHasOneOwner /\ NobodyCanStealTheLock
  BY DEF IInv, Chain
<1> USE <1>0
<1>1. TypeOK'
  <2>1. queue # <<>> => Tail(queue) \in Seq(Threads)
    BY HeadTailProperties DEF TypeOK
  <2>2. queue # <<>>
    BY HeadIsFirst DEF CasTail, Chain
  <2>3. CASE locked = 0 /\ pending = 0 /\ tail = t
    <3>1. /\ pc' = [pc EXCEPT ![t] = "release"] /\ locked' = 1 /\ tail' = None
          /\ queue' = Tail(queue)
          /\ UNCHANGED <<pending, nodeLocked, nodeNext, nodeCount, cnt, prev,
             next>>
      BY <2>3 DEF CasTail
    <3>2. QED
      BY <2>1, <2>2, <3>1 DEF TypeOK
  <2>4. CASE ~(locked = 0 /\ pending = 0 /\ tail = t)
    BY <2>4 DEF CasTail, TypeOK
  <2>5. QED
    BY <2>3, <2>4
<1>2. NeverAborts'
  BY DEF CasTail, TypeOK, NeverAborts
<1>3. Chain'
  <2>1. CASE locked = 0 /\ pending = 0 /\ tail = t
    BY <2>1, ChainAfterCasTail DEF CasTail
  <2>2. CASE ~(locked = 0 /\ pending = 0 /\ tail = t)
    BY <2>2, StepOfHead DEF CasTail
  <2>3. QED
    BY <2>1, <2>2
<1>4. NextIsNotStale'
  BY DEF CasTail, TypeOK, NextIsNotStale
<1>5. NodesAreFresh'
  BY DEF CasTail, TypeOK, NodesAreFresh
<1>6. PendingBitHasOneOwner'
  BY DEF CasTail, TypeOK, PendingBitHasOneOwner
<1>7. LockedByteHasOneOwner'
  BY DEF CasTail, TypeOK, LockedByteHasOneOwner, MutualExclusion,
     NobodyCanStealTheLock
<1>8. NobodyCanStealTheLock'
  <2>1. \A u \in Threads : pc[u] \in {"cas_tail", "set_locked"} => u = t
    BY OneHead DEF CasTail
  <2>2. CASE locked = 0 /\ pending = 0 /\ tail = t
    BY <2>1, <2>2 DEF CasTail, TypeOK, NobodyCanStealTheLock
  <2>3. CASE ~(locked = 0 /\ pending = 0 /\ tail = t)
    BY <2>3 DEF CasTail, TypeOK, NobodyCanStealTheLock
  <2>4. QED
    BY <2>2, <2>3
<1>9. QED
  BY <1>1, <1>2, <1>3, <1>4, <1>5, <1>6, <1>7, <1>8 DEF IInv, Chain

(* IInv is kept by set_locked.                                               *)
LEMMA SetLockedStep ==
  ASSUME IInv, NEW t \in Threads, SetLocked(t)
  PROVE  IInv'
<1> USE NoneAssumption, LoopsAssumption
    DEF Goto, word, nodes, locals, Unlocked, PendingOnly, Contended,
        QueueOrPend, PendingPcs, OwnerPcs, QueuePcs, NodeInUsePcs, Pcs
<1>0. /\ TypeOK /\ NeverAborts /\ Chain /\ NextIsNotStale /\ NodesAreFresh
      /\ PendingBitHasOneOwner /\ LockedByteHasOneOwner /\ NobodyCanStealTheLock
  BY DEF IInv, Chain
<1> USE <1>0
<1>1. TypeOK'
  BY DEF SetLocked, TypeOK
<1>2. NeverAborts'
  BY DEF SetLocked, TypeOK, NeverAborts
<1>3. Chain'
  BY StepOfHead DEF SetLocked
<1>4. NextIsNotStale'
  BY DEF SetLocked, TypeOK, NextIsNotStale
<1>5. NodesAreFresh'
  BY DEF SetLocked, TypeOK, NodesAreFresh
<1>6. PendingBitHasOneOwner'
  BY DEF SetLocked, TypeOK, PendingBitHasOneOwner
<1>7. LockedByteHasOneOwner'
  BY DEF SetLocked, TypeOK, LockedByteHasOneOwner, MutualExclusion,
     NobodyCanStealTheLock
<1>8. NobodyCanStealTheLock'
  <2>1. \A u \in Threads : pc[u] \in {"cas_tail", "set_locked"} => u = t
    BY OneHead DEF SetLocked
  <2>2. QED
    BY <2>1 DEF SetLocked, TypeOK, NobodyCanStealTheLock
<1>9. QED
  BY <1>1, <1>2, <1>3, <1>4, <1>5, <1>6, <1>7, <1>8 DEF IInv, Chain

(* IInv is kept by the wait for node->next.                                  *)
LEMMA WaitNextStep ==
  ASSUME IInv, NEW t \in Threads, WaitNext(t)
  PROVE  IInv'
<1> USE NoneAssumption, LoopsAssumption
    DEF Goto, word, nodes, locals, Unlocked, PendingOnly, Contended,
        QueueOrPend, PendingPcs, OwnerPcs, QueuePcs, NodeInUsePcs, Pcs
<1>0. /\ TypeOK /\ NeverAborts /\ Chain /\ NextIsNotStale /\ NodesAreFresh
      /\ PendingBitHasOneOwner /\ LockedByteHasOneOwner /\ NobodyCanStealTheLock
  BY DEF IInv, Chain
<1> USE <1>0
<1>1. TypeOK'
  BY DEF WaitNext, TypeOK
<1>2. NeverAborts'
  BY DEF WaitNext, TypeOK, NeverAborts
<1>3. Chain'
  BY StepOfHead DEF WaitNext
<1>4. NextIsNotStale'
  BY DEF WaitNext, TypeOK, NextIsNotStale
<1>5. NodesAreFresh'
  BY DEF WaitNext, TypeOK, NodesAreFresh
<1>6. PendingBitHasOneOwner'
  BY DEF WaitNext, TypeOK, PendingBitHasOneOwner
<1>7. LockedByteHasOneOwner'
  BY DEF WaitNext, TypeOK, LockedByteHasOneOwner, MutualExclusion
<1>8. NobodyCanStealTheLock'
  BY DEF WaitNext, TypeOK, NobodyCanStealTheLock
<1>9. QED
  BY <1>1, <1>2, <1>3, <1>4, <1>5, <1>6, <1>7, <1>8 DEF IInv, Chain

(* IInv is kept by the store to next->locked.                                *)
LEMMA HandOffStep ==
  ASSUME IInv, NEW t \in Threads, HandOff(t)
  PROVE  IInv'
<1> USE NoneAssumption, LoopsAssumption
    DEF Goto, word, nodes, locals, Unlocked, PendingOnly, Contended,
        QueueOrPend, PendingPcs, OwnerPcs, QueuePcs, NodeInUsePcs, Pcs
<1>0. /\ TypeOK /\ NeverAborts /\ Chain /\ NextIsNotStale /\ NodesAreFresh
      /\ PendingBitHasOneOwner /\ LockedByteHasOneOwner /\ NobodyCanStealTheLock
  BY DEF IInv, Chain
<1> USE <1>0
<1>1. TypeOK'
  <2>1. queue # <<>> /\ next[t] \in Threads
    BY SuccessorOfHead, EmptySeq DEF HandOff
  <2>2. Tail(queue) \in Seq(Threads)
    BY <2>1, HeadTailProperties DEF TypeOK
  <2>3. QED
    BY <2>1, <2>2 DEF HandOff, TypeOK
<1>2. NeverAborts'
  BY DEF HandOff, TypeOK, NeverAborts
<1>3. Chain'
  BY ChainAfterHandOff
<1>4. NextIsNotStale'
  BY DEF HandOff, TypeOK, NextIsNotStale
<1>5. NodesAreFresh'
  <2>1. next[t] \in Threads /\ pc[next[t]] = "wait_node"
    BY SuccessorOfHead DEF HandOff
  <2>2. QED
    BY <2>1 DEF HandOff, TypeOK, NodesAreFresh
<1>6. PendingBitHasOneOwner'
  BY DEF HandOff, TypeOK, PendingBitHasOneOwner
<1>7. LockedByteHasOneOwner'
  BY DEF HandOff, TypeOK, LockedByteHasOneOwner, MutualExclusion
<1>8. NobodyCanStealTheLock'
  BY DEF HandOff, TypeOK, NobodyCanStealTheLock
<1>9. QED
  BY <1>1, <1>2, <1>3, <1>4, <1>5, <1>6, <1>7, <1>8 DEF IInv, Chain

(* IInv is kept by --count and the return.                                   *)
LEMMA ReleaseNodeStep ==
  ASSUME IInv, NEW t \in Threads, ReleaseNode(t)
  PROVE  IInv'
<1> USE NoneAssumption, LoopsAssumption
    DEF Goto, word, nodes, locals, Unlocked, PendingOnly, Contended,
        QueueOrPend, PendingPcs, OwnerPcs, QueuePcs, NodeInUsePcs, Pcs
<1>0. /\ TypeOK /\ NeverAborts /\ Chain /\ NextIsNotStale /\ NodesAreFresh
      /\ PendingBitHasOneOwner /\ LockedByteHasOneOwner /\ NobodyCanStealTheLock
  BY DEF IInv, Chain
<1> USE <1>0
<1>1. TypeOK'
  <2>1. nodeCount[t] = 1
    BY DEF ReleaseNode, NodesAreFresh
  <2>2. nodeCount' \in [Threads -> Nat]
    BY <2>1 DEF ReleaseNode, TypeOK
  <2>3. QED
    BY <2>2 DEF ReleaseNode, TypeOK
<1>2. NeverAborts'
  BY DEF ReleaseNode, TypeOK, NeverAborts
<1>3. Chain'
  <2>1. \A u \in Threads : pc[u] \in QueuePcs => u # t
    BY DEF ReleaseNode
  <2>2. \A u \in Threads : u # t => prev'[u] = prev[u]
    BY DEF ReleaseNode, TypeOK
  <2>3. QED
    BY <2>1, <2>2, StepOutsideQueue DEF ReleaseNode
<1>4. NextIsNotStale'
  BY DEF ReleaseNode, TypeOK, NextIsNotStale
<1>5. NodesAreFresh'
  BY DEF ReleaseNode, TypeOK, NodesAreFresh
<1>6. PendingBitHasOneOwner'
  BY DEF ReleaseNode, TypeOK, PendingBitHasOneOwner
<1>7. LockedByteHasOneOwner'
  BY DEF ReleaseNode, TypeOK, LockedByteHasOneOwner, MutualExclusion
<1>8. NobodyCanStealTheLock'
  BY DEF ReleaseNode, TypeOK, NobodyCanStealTheLock
<1>9. QED
  BY <1>1, <1>2, <1>3, <1>4, <1>5, <1>6, <1>7, <1>8 DEF IInv, Chain

-----------------------------------------------------------------------------
(* IInv holds initially.                                                     *)
LEMMA InitIInv == Init => IInv
<1> SUFFICES ASSUME Init PROVE IInv
  OBVIOUS
<1>1. TypeOK
  BY LoopsAssumption, EmptySeq DEF Init, TypeOK, Pcs
<1>2. Idx = {}
  BY EmptySeq DEF Init, Idx
<1>3. QueueIsTheWaiters /\ OnlyTheHeadIsAwake /\ LinksFollowTheQueue
  BY <1>2 DEF Init, QueueIsTheWaiters, OnlyTheHeadIsAwake, LinksFollowTheQueue,
    QueuePcs
<1>4. NeverAborts /\ NextIsNotStale /\ NodesAreFresh
  BY DEF Init, NeverAborts, NextIsNotStale, NodesAreFresh, NodeInUsePcs,
    QueuePcs
<1>5. PendingBitHasOneOwner /\ LockedByteHasOneOwner /\ NobodyCanStealTheLock
  BY DEF Init, PendingBitHasOneOwner, PendingPcs, LockedByteHasOneOwner,
    MutualExclusion, OwnerPcs, NobodyCanStealTheLock
<1>6. QED
  BY <1>1, <1>3, <1>4, <1>5 DEF IInv

(* Every step of every thread keeps IInv.                                    *)
LEMMA NextIInv == IInv /\ [Next]_vars => IInv'
<1> SUFFICES ASSUME IInv, [Next]_vars PROVE IInv'
  OBVIOUS
<1>1. ASSUME NEW t \in Threads, Start(t) \/ Slowpath(t) \/ Unlock(t)
      PROVE  IInv'
  BY <1>1, FastLockStep, EnterSlowpathStep, UnlockStep,
     PendingSpinStep, SetPendingStep, ClearPendingStep,
     WaitOwnerStep, TakePendingStep, GrabNodeStep,
     InitNodeStep, TryReadStep, TryCasStep,
     XchgTailStep, LinkPrevStep, WaitNodeStep,
     ReadNextStep, WaitHeadStep, CasTailStep,
     SetLockedStep, WaitNextStep, HandOffStep,
     ReleaseNodeStep
     DEF Start, Slowpath
<1>2. CASE UNCHANGED vars
  BY <1>2 DEF vars, word, nodes, locals, IInv, TypeOK, NeverAborts,
    QueueIsTheWaiters, OnlyTheHeadIsAwake, LinksFollowTheQueue, Idx,
    NextIsNotStale, NodesAreFresh, PendingBitHasOneOwner,
    LockedByteHasOneOwner, MutualExclusion, NobodyCanStealTheLock
<1>3. QED
  BY <1>1, <1>2 DEF Next

(* The chain of waiters, the fresh nodes and the owned bits are an           *)
(* invariant of the lock.                                                    *)
THEOREM InductiveInvariant == Spec => []IInv
BY InitIInv, NextIInv, PTL DEF Spec

(* The word, the nodes and the locals keep their types.                      *)
THEOREM TypeCorrect == Spec => []TypeOK
<1>1. IInv => TypeOK
  BY DEF IInv
<1>2. QED
  BY <1>1, InductiveInvariant, PTL

(* queued_spin_lock gives mutual exclusion, whichever path a thread takes.   *)
THEOREM Mutex == Spec => []MutualExclusion
<1>1. IInv => MutualExclusion
  BY DEF IInv, LockedByteHasOneOwner
<1>2. QED
  BY <1>1, InductiveInvariant, PTL

(* The plain stores of clear_pending and clear_pending_set_locked never wipe *)
(* out another thread's pending bit.                                         *)
THEOREM PendingIsOwned == Spec => []PendingBitHasOneOwner
<1>1. IInv => PendingBitHasOneOwner
  BY DEF IInv
<1>2. QED
  BY <1>1, InductiveInvariant, PTL

(* A hand-over wakes a live, sleeping successor, never a stale link.         *)
THEOREM HandOffIsLive == Spec => []HandOffReachesWaiter
<1>1. IInv => HandOffReachesWaiter
  <2> SUFFICES ASSUME IInv, NEW t \in Threads, pc[t] = "hand_off"
               PROVE  /\ next[t] # None
                      /\ pc[next[t]] = "wait_node" /\ nodeLocked[next[t]] = 0
    BY DEF HandOffReachesWaiter
  <2>1. TypeOK /\ Chain /\ NextIsNotStale
    BY DEF IInv, Chain
  <2>2. QED
    BY <2>1, SuccessorOfHead, NoneAssumption
<1>2. QED
  BY <1>1, InductiveInvariant, PTL

(* The slow path never finds its queue node in use: abort() is dead code.    *)
THEOREM AbortIsUnreachable == Spec => []NeverAborts
<1>1. IInv => NeverAborts
  BY DEF IInv
<1>2. QED
  BY <1>1, InductiveInvariant, PTL

(* A step writes only the node of the thread that initialises it or nodes    *)
(* that are in the queue.                                                    *)
LEMMA OnlyQueuedNodesAreWritten ==
  ASSUME IInv, NEW t \in Threads, Start(t) \/ Slowpath(t) \/ Unlock(t),
         NEW u \in Threads, pc[u] \notin QueuePcs, ~InitNode(u)
  PROVE  nodeNext'[u] = nodeNext[u] /\ nodeLocked'[u] = nodeLocked[u]
<1>0. TypeOK /\ Chain /\ NextIsNotStale
  BY DEF IInv, Chain
<1>1. CASE InitNode(t)
  BY <1>0, <1>1 DEF InitNode, TypeOK
<1>2. CASE LinkPrev(t)
  <2>1. PICK k \in Idx : k > 1 /\ prev[t] = queue[k - 1]
    BY <1>0, <1>2, ChainAfterLinkPrev
  <2>2. k - 1 \in Idx
    BY <1>0, <2>1 DEF Idx, TypeOK
  <2>3. prev[t] # u
    BY <1>0, <2>1, <2>2 DEF Chain, QueueIsTheWaiters
  <2>4. QED
    BY <1>0, <1>2, <2>3 DEF LinkPrev, TypeOK
<1>3. CASE HandOff(t)
  <2>1. next[t] # u
    BY <1>0, <1>3, SuccessorOfHead DEF HandOff, Goto, QueuePcs
  <2>2. QED
    BY <1>0, <1>3, <2>1 DEF HandOff, TypeOK
<1>4. CASE ~(InitNode(t) \/ LinkPrev(t) \/ HandOff(t))
  <2>1. nodeNext' = nodeNext /\ nodeLocked' = nodeLocked
    BY <1>4 DEF Start, Slowpath, FastLock, EnterSlowpath, Unlock, PendingSpin,
      SetPending, ClearPending, WaitOwner, TakePending, GrabNode, TryRead,
      TryCas, XchgTail, WaitNode, ReadNext, WaitHead, CasTail, SetLocked,
      WaitNext, ReleaseNode, nodes
  <2>2. QED
    BY <2>1
<1>5. QED
  BY <1>1, <1>2, <1>3, <1>4

(* No late link and no late wake-up reaches a node outside the queue.        *)
THEOREM NodesAreQuiet == Spec => NodesOutsideQueueAreLeftAlone
<1>1. IInv /\ [Next]_vars =>
        [\A t \in Threads :
           pc[t] \notin QueuePcs /\ ~InitNode(t) =>
             nodeNext'[t] = nodeNext[t] /\ nodeLocked'[t] = nodeLocked[t]]_vars
  BY OnlyQueuedNodesAreWritten DEF Next
<1>2. QED
  BY <1>1, InductiveInvariant, PTL DEF Spec, NodesOutsideQueueAreLeftAlone

-----------------------------------------------------------------------------
(* QSpinLock implements FifoLock, for any set of threads: every access of    *)
(* the code is a step of FifoLock or is not seen by the lock's users.  IInv  *)
(* says who owns the lock, who is in the pending slot and who is in line     *)
(* when a step is taken.                                                     *)

(* ThreadAt names the one thread there is, and None if there is none.        *)
LEMMA ThreadAtOne ==
  ASSUME NEW S, NEW t \in Threads, pc[t] \in S,
         \A u \in Threads : pc[u] \in S => u = t
  PROVE  ThreadAt(S) = t
BY DEF ThreadAt

(* It does not change when the same threads stay there.                      *)
LEMMA ThreadAtSame ==
  ASSUME NEW S,
         \A u, v \in Threads : pc[u] \in S /\ pc[v] \in S => u = v,
         \A u \in Threads : pc'[u] \in S <=> pc[u] \in S
  PROVE  ThreadAt(S)' = ThreadAt(S)
<1>1. CASE \A u \in Threads : pc[u] \notin S
  BY <1>1 DEF ThreadAt
<1>2. ASSUME NEW t \in Threads, pc[t] \in S PROVE ThreadAt(S)' = ThreadAt(S)
  <2>1. ThreadAt(S) = t
    BY <1>2, ThreadAtOne
  <2>2. pc'[t] \in S /\ \A u \in Threads : pc'[u] \in S => u = t
    BY <1>2
  <2>3. ThreadAt(S)' = t
    BY <2>2 DEF ThreadAt
  <2>4. QED
    BY <2>1, <2>3
<1>3. QED
  BY <1>1, <1>2

(* Owner and pending thread are unique, and a free word has none of them.    *)
LEMMA WhoIsWhere ==
  ASSUME IInv
  PROVE  /\ \A u, v \in Threads :
              pc[u] \in OwnerPcs /\ pc[v] \in OwnerPcs => u = v
         /\ \A u, v \in Threads :
              pc[u] \in SlotPcs /\ pc[v] \in SlotPcs => u = v
         /\ locked = 0 => \A u \in Threads : pc[u] \notin OwnerPcs
         /\ pending = 0 => \A u \in Threads : pc[u] \notin SlotPcs
         /\ tail = None => queue = <<>>
         /\ queue \in Seq(Threads)
         /\ queue # <<>> => queue[1] \in Threads
<1>1. queue \in Seq(Threads) /\ (queue # <<>> => queue[1] \in Threads)
  BY DEF IInv, TypeOK
<1>2. tail = None => queue = <<>>
  BY <1>1, NoneAssumption DEF IInv, QueueIsTheWaiters
<1>3. SlotPcs \subseteq PendingPcs
  BY DEF SlotPcs, PendingPcs
<1>4. QED
  BY <1>1, <1>2, <1>3 DEF IInv, LockedByteHasOneOwner, MutualExclusion,
     PendingBitHasOneOwner

(* A step that moves nobody into or out of a role is not seen.               *)
LEMMA UnseenStep ==
  ASSUME IInv, queue' = queue,
         \A u \in Threads : pc'[u] \in OwnerPcs <=> pc[u] \in OwnerPcs,
         \A u \in Threads : pc'[u] \in SlotPcs <=> pc[u] \in SlotPcs
  PROVE  UNCHANGED <<LockOwner, PendingThread, Line>>
<1>1. LockOwner' = LockOwner
  BY WhoIsWhere, ThreadAtSame DEF LockOwner
<1>2. PendingThread' = PendingThread
  BY WhoIsWhere, ThreadAtSame DEF PendingThread
<1>3. Line' = Line
  BY WhoIsWhere DEF Line
<1>4. QED
  BY <1>1, <1>2, <1>3

(* A thread on its way through the slow path, but for the last step of its   *)
(* role, keeps its role.                                                     *)
LEMMA MoveIsUnseen ==
  ASSUME IInv, NEW t \in Threads, NEW p, pc' = [pc EXCEPT ![t] = p],
         queue' = queue,
         pc[t] \in OwnerPcs <=> p \in OwnerPcs,
         pc[t] \in SlotPcs <=> p \in SlotPcs
  PROVE  UNCHANGED <<LockOwner, PendingThread, Line>>
<1>1. \A u \in Threads : pc'[u] = IF u = t THEN p ELSE pc[u]
  BY DEF IInv, TypeOK
<1>2. QED
  BY <1>1, UnseenStep

(* The cmpxchg from the free word, in the fast path and in trylock.          *)
LEMMA TakeStep ==
  ASSUME IInv, NEW t \in Threads, NEW p \in {"cs", "release"},
         Unlocked, pc' = [pc EXCEPT ![t] = p], queue' = queue,
         pc[t] \notin SlotPcs
  PROVE  Fifo!Take(t)
<1> USE NoneAssumption
<1>1. /\ queue = <<>>
      /\ \A u \in Threads : pc[u] \notin OwnerPcs
      /\ \A u \in Threads : pc[u] \notin SlotPcs
  BY WhoIsWhere DEF Unlocked
<1>2. \A u \in Threads : pc'[u] = IF u = t THEN p ELSE pc[u]
  BY DEF IInv, TypeOK
<1>3. LockOwner = None /\ PendingThread = None /\ Line = <<>>
  BY <1>1 DEF LockOwner, PendingThread, ThreadAt, Line
<1>4. /\ pc'[t] \in OwnerPcs
      /\ \A u \in Threads : pc'[u] \in OwnerPcs => u = t
      /\ \A u \in Threads : pc'[u] \notin SlotPcs
  BY <1>1, <1>2 DEF OwnerPcs, SlotPcs
<1>5. LockOwner' = t /\ PendingThread' = None
  BY <1>4 DEF LockOwner, PendingThread, ThreadAt
<1>6. Line' = <<>>
  BY <1>1 DEF Line
<1>7. Fifo!Out(t)
  BY <1>3 DEF Fifo!Out, Fifo!Range
<1>8. QED
  BY <1>3, <1>5, <1>6, <1>7 DEF Fifo!Take

(* The fetch_or that finds neither a pending thread nor a queue.             *)
LEMMA PendStep ==
  ASSUME IInv, NEW t \in Threads, NEW p \in SlotPcs,
         ~Contended, pc[t] = "set_pending", pc' = [pc EXCEPT ![t] = p],
         queue' = queue
  PROVE  Fifo!Pend(t)
<1> USE NoneAssumption
<1>1. queue = <<>> /\ \A u \in Threads : pc[u] \notin SlotPcs
  BY WhoIsWhere DEF Contended, IInv, TypeOK
<1>2. \A u \in Threads : pc'[u] = IF u = t THEN p ELSE pc[u]
  BY DEF IInv, TypeOK
<1>3. PendingThread = None /\ Line = <<>>
  BY <1>1 DEF PendingThread, ThreadAt, Line
<1>4. /\ pc'[t] \in SlotPcs
      /\ \A u \in Threads : pc'[u] \in SlotPcs => u = t
  BY <1>1, <1>2
<1>5. PendingThread' = t
  BY <1>4 DEF PendingThread, ThreadAt
<1>6. \A u \in Threads : pc'[u] \in OwnerPcs <=> pc[u] \in OwnerPcs
  BY <1>2 DEF OwnerPcs, SlotPcs
<1>7. LockOwner' = LockOwner
  BY <1>6, WhoIsWhere, ThreadAtSame DEF LockOwner
<1>8. Line' = <<>>
  BY <1>1 DEF Line
<1>9. LockOwner # t
  BY DEF LockOwner, ThreadAt, OwnerPcs
<1>10. Fifo!Out(t)
  BY <1>3, <1>9 DEF Fifo!Out, Fifo!Range
<1>11. QED
  BY <1>3, <1>5, <1>7, <1>8, <1>10 DEF Fifo!Pend

(* clear_pending_set_locked.                                                 *)
LEMMA PendingIsGranted ==
  ASSUME IInv, NEW t \in Threads, TakePending(t)
  PROVE  Fifo!GrantPending
<1> USE NoneAssumption
<1>1. /\ pc[t] = "take_pending" /\ locked = 0 /\ queue' = queue
      /\ \A u \in Threads : pc'[u] = IF u = t THEN "cs" ELSE pc[u]
  BY DEF IInv, TypeOK, TakePending, Goto, NobodyCanStealTheLock
<1>2. \A u \in Threads : pc[u] \notin OwnerPcs
  BY <1>1, WhoIsWhere
<1>3. pc[t] \in SlotPcs /\ \A u \in Threads : pc[u] \in SlotPcs => u = t
  BY <1>1, WhoIsWhere DEF SlotPcs
<1>4. LockOwner = None /\ PendingThread = t
  BY <1>2, <1>3 DEF LockOwner, PendingThread, ThreadAt
<1>5. /\ pc'[t] \in OwnerPcs
      /\ \A u \in Threads : pc'[u] \in OwnerPcs => u = t
      /\ \A u \in Threads : pc'[u] \notin SlotPcs
  BY <1>1, <1>2, <1>3 DEF OwnerPcs, SlotPcs
<1>6. LockOwner' = t /\ PendingThread' = None
  BY <1>5 DEF LockOwner, PendingThread, ThreadAt
<1>7. queue # <<>> => queue[1] \in Threads /\ queue[1] # t
  BY <1>1, WhoIsWhere DEF IInv, QueueIsTheWaiters, QueuePcs, Idx
<1>8. Line' = Line
  BY <1>1, <1>2, <1>7 DEF Line
<1>9. QED
  BY <1>4, <1>6, <1>8 DEF Fifo!GrantPending

(* The xchg of the tail.                                                     *)
LEMMA JoinStep ==
  ASSUME IInv, NEW t \in Threads, XchgTail(t)
  PROVE  Fifo!Join(t)
<1> USE NoneAssumption
<1>1. /\ queue \in Seq(Threads) /\ queue' = Append(queue, t)
      /\ pc[t] = "xchg_tail"
      /\ \A u \in Threads :
           pc'[u] = IF u # t THEN pc[u]
                    ELSE IF tail = None THEN "wait_head" ELSE "link"
  BY DEF IInv, TypeOK, XchgTail, Goto
<1>2. \A i \in 1..Len(queue) : queue[i] \in Threads /\ queue[i] # t
  BY <1>1 DEF IInv, QueueIsTheWaiters, QueuePcs, Idx
<1>3. /\ \A u \in Threads : pc'[u] \in OwnerPcs <=> pc[u] \in OwnerPcs
      /\ \A u \in Threads : pc'[u] \in SlotPcs <=> pc[u] \in SlotPcs
  BY <1>1 DEF OwnerPcs, SlotPcs
<1>4. LockOwner' = LockOwner
  BY <1>3, WhoIsWhere, ThreadAtSame DEF LockOwner
<1>5. PendingThread' = PendingThread
  BY <1>3, WhoIsWhere, ThreadAtSame DEF PendingThread
<1>6. Line' = Append(Line, t) /\ \A i \in DOMAIN Line : Line[i] # t
  <2>1. CASE queue = <<>>
    <3>1. queue' # <<>> /\ queue'[1] = t /\ pc'[t] \notin OwnerPcs
      BY <1>1, <2>1 DEF OwnerPcs
    <3>2. QED
      BY <1>1, <2>1, <3>1 DEF Line
  <2>2. CASE queue # <<>>
    <3>1. /\ queue' # <<>> /\ queue'[1] = queue[1] /\ queue[1] \in Threads
          /\ Tail(queue') = Append(Tail(queue), t)
      BY <1>1, <2>2
    <3>2. Line' = Append(Line, t)
      BY <1>1, <1>3, <2>2, <3>1 DEF Line
    <3>3. CASE Line = queue
      BY <1>1, <1>2, <3>2, <3>3
    <3>4. CASE Line = Tail(queue)
      BY <1>1, <1>2, <2>2, <3>2, <3>4
    <3>5. QED
      BY <3>3, <3>4 DEF Line
  <2>3. QED
    BY <2>1, <2>2
<1>7. t # LockOwner /\ t # PendingThread
  BY <1>1 DEF LockOwner, PendingThread, ThreadAt, OwnerPcs, SlotPcs
<1>8. Fifo!Out(t)
  BY <1>6, <1>7 DEF Fifo!Out, Fifo!Range
<1>9. QED
  BY <1>4, <1>5, <1>6, <1>8 DEF Fifo!Join

(* The head of the queue takes the lock: the final cmpxchg, or set_locked.   *)
LEMMA HeadTakesLock ==
  ASSUME IInv, NEW t \in Threads,
         SetLocked(t) \/ (CasTail(t) /\ locked = 0 /\ pending = 0 /\ tail = t)
  PROVE  Fifo!GrantFront
<1> USE NoneAssumption
<1>0. TypeOK /\ QueueIsTheWaiters /\ OnlyTheHeadIsAwake
  BY DEF IInv
<1>1. pc[t] \in {"set_locked", "cas_tail"}
  BY DEF SetLocked, CasTail, Goto
<1>2. queue # <<>> /\ queue[1] = t
  BY <1>0, <1>1, HeadIsFirst DEF QueuePcs
<1>3. /\ \A u \in Threads : pc[u] \notin OwnerPcs
      /\ \A u \in Threads : pc[u] \notin SlotPcs
  <2>1. locked = 0 /\ \A u \in Threads : pc[u] \notin SlotPcs
    BY <1>1 DEF IInv, NobodyCanStealTheLock, SlotPcs
  <2>2. QED
    BY <2>1, WhoIsWhere
<1>4. LockOwner = None /\ PendingThread = None /\ Line = queue
  BY <1>2, <1>3 DEF LockOwner, PendingThread, ThreadAt, Line
<1>5. PICK p \in {"wait_next", "hand_off", "release"} :
        pc' = [pc EXCEPT ![t] = p]
  BY DEF SetLocked, CasTail, Goto
<1>6. \A u \in Threads : pc'[u] = IF u = t THEN p ELSE pc[u]
  BY <1>0, <1>5 DEF TypeOK
<1>7. /\ pc'[t] \in OwnerPcs
      /\ \A u \in Threads : pc'[u] \in OwnerPcs => u = t
      /\ \A u \in Threads : pc'[u] \notin SlotPcs
  BY <1>3, <1>6 DEF OwnerPcs, SlotPcs
<1>8. LockOwner' = t /\ PendingThread' = None
  BY <1>7 DEF LockOwner, PendingThread, ThreadAt
<1>9. Line' = Tail(queue)
  <2>1. CASE SetLocked(t)
    <3>1. queue' = queue
      BY <2>1 DEF SetLocked
    <3>2. QED
      BY <1>2, <1>7, <3>1 DEF Line
  <2>2. CASE CasTail(t) /\ tail = t /\ locked = 0 /\ pending = 0
    <3>1. queue' = Tail(queue)
      BY <2>2 DEF CasTail
    <3>2. Len(queue) = 1
      <4>1. Len(queue) \in Idx /\ 1 \in Idx /\ queue[Len(queue)] = t
        BY <1>0, <1>2, <2>2 DEF QueueIsTheWaiters, Idx, TypeOK
      <4>2. QED
        BY <1>0, <1>2, <4>1 DEF QueueIsTheWaiters
    <3>3. queue' = <<>>
      <4>1. Tail(queue) \in Seq(Threads) /\ Len(Tail(queue)) = 0
        BY <1>0, <1>2, <3>2, HeadTailProperties DEF TypeOK
      <4>2. QED
        BY <3>1, <4>1, EmptySeq
    <3>4. QED
      BY <3>1, <3>3 DEF Line
  <2>3. QED
    BY <2>1, <2>2
<1>10. Head(queue) = t
  BY <1>0, <1>2 DEF TypeOK
<1>11. QED
  BY <1>2, <1>4, <1>8, <1>9, <1>10 DEF Fifo!GrantFront

(* The hand-over in the queue comes after the lock is taken: not seen.       *)
LEMMA HandOffIsUnseen ==
  ASSUME IInv, NEW t \in Threads, HandOff(t)
  PROVE  UNCHANGED <<LockOwner, PendingThread, Line>>
<1>0. TypeOK /\ Chain /\ NextIsNotStale
  BY DEF IInv, Chain
<1>1. /\ queue[1] = t /\ Len(queue) > 1 /\ pc[queue[2]] = "wait_node"
      /\ queue[2] \in Threads /\ queue[2] # t /\ pc[t] = "hand_off"
  BY <1>0, SuccessorOfHead DEF HandOff, Goto
<1>2. /\ \A u \in Threads : pc'[u] = IF u = t THEN "release" ELSE pc[u]
      /\ queue' = Tail(queue) /\ queue \in Seq(Threads)
  BY <1>0 DEF HandOff, Goto, TypeOK
<1>3. /\ \A u \in Threads : pc'[u] \in OwnerPcs <=> pc[u] \in OwnerPcs
      /\ \A u \in Threads : pc'[u] \in SlotPcs <=> pc[u] \in SlotPcs
  BY <1>1, <1>2 DEF OwnerPcs, SlotPcs
<1>4. LockOwner' = LockOwner
  BY <1>3, WhoIsWhere, ThreadAtSame DEF LockOwner
<1>5. PendingThread' = PendingThread
  BY <1>3, WhoIsWhere, ThreadAtSame DEF PendingThread
<1>6. queue # <<>> /\ queue' # <<>> /\ queue'[1] = queue[2]
  <2>1. queue # <<>> /\ Len(queue) \in Nat
    BY <1>1, <1>2
  <2>2. Len(queue') = Len(queue) - 1 /\ queue' \in Seq(Threads)
    BY <1>2, <2>1, HeadTailProperties
  <2>3. queue'[1] = queue[2]
    BY <1>1, <1>2, <2>1, HeadTailProperties
  <2>4. QED
    BY <1>1, <2>1, <2>2, <2>3
<1>7. pc[t] \in OwnerPcs /\ pc'[queue[2]] \notin OwnerPcs
  BY <1>1, <1>2 DEF OwnerPcs
<1>8. Line' = Line
  BY <1>1, <1>2, <1>6, <1>7 DEF Line
<1>9. QED
  BY <1>4, <1>5, <1>8

(* The store that clears the locked byte.                                    *)
LEMMA UnlockIsRelease ==
  ASSUME IInv, NEW t \in Threads, Unlock(t)
  PROVE  Fifo!Release
<1> USE NoneAssumption
<1>1. /\ pc[t] = "cs" /\ pc[t] \in OwnerPcs /\ queue' = queue
      /\ \A u \in Threads : pc'[u] = IF u = t THEN "idle" ELSE pc[u]
  BY DEF IInv, TypeOK, Unlock, Goto, OwnerPcs
<1>2. \A u \in Threads : pc[u] \in OwnerPcs => u = t
  BY <1>1, WhoIsWhere
<1>3. LockOwner = t
  BY <1>1, <1>2, ThreadAtOne DEF LockOwner
<1>4. \A u \in Threads : pc'[u] \notin OwnerPcs
  BY <1>1, <1>2 DEF OwnerPcs
<1>5. LockOwner' = None
  BY <1>4 DEF LockOwner, ThreadAt
<1>6. \A u \in Threads : pc'[u] \in SlotPcs <=> pc[u] \in SlotPcs
  BY <1>1 DEF SlotPcs
<1>7. PendingThread' = PendingThread
  BY <1>6, WhoIsWhere, ThreadAtSame DEF PendingThread
<1>8. queue # <<>> => queue[1] \in Threads /\ queue[1] # t
  BY <1>1, WhoIsWhere DEF IInv, QueueIsTheWaiters, QueuePcs, Idx
<1>9. Line' = Line
  BY <1>1, <1>2, <1>4, <1>8 DEF Line
<1>10. QED
  BY <1>3, <1>5, <1>7, <1>9 DEF Fifo!Release

LEMMA InitIsFifo == Init => Fifo!Init
BY DEF Init, Fifo!Init, LockOwner, PendingThread, ThreadAt, OwnerPcs, SlotPcs,
   Line

LEMMA NextIsFifo == IInv /\ [Next]_vars => [Fifo!Next]_(Fifo!vars)
<1> SUFFICES ASSUME IInv, [Next]_vars
             PROVE  Fifo!Next \/ UNCHANGED <<LockOwner, PendingThread, Line>>
  BY DEF Fifo!vars
<1>1. CASE Next
  <2>1. PICK t \in Threads : Start(t) \/ Slowpath(t) \/ Unlock(t)
    BY <1>1 DEF Next
  <2>2. CASE FastLock(t)
    BY <2>2, TakeStep DEF FastLock, Goto, SlotPcs, Fifo!Next
  <2>3. CASE Unlock(t)
    BY <2>3, UnlockIsRelease DEF Fifo!Next
  <2>4. CASE SetPending(t)
    <3>1. CASE Contended
      <4>1. PICK p \in {"clear_pending", "grab_node"} :
              pc' = [pc EXCEPT ![t] = p]
        BY <2>4, <3>1 DEF SetPending, Goto
      <4>2. QED
        BY <2>4, <4>1, MoveIsUnseen DEF SetPending, Goto, OwnerPcs, SlotPcs
    <3>2. CASE ~Contended
      <4>1. PICK p \in SlotPcs : pc' = [pc EXCEPT ![t] = p]
        BY <2>4, <3>2 DEF SetPending, Goto, SlotPcs
      <4>2. pc[t] = "set_pending" /\ queue' = queue
        BY <2>4 DEF SetPending, Goto
      <4>3. QED
        BY <3>2, <4>1, <4>2, PendStep DEF Fifo!Next
    <3>3. QED
      BY <3>1, <3>2
  <2>5. CASE TakePending(t)
    BY <2>5, PendingIsGranted DEF Fifo!Next
  <2>6. CASE TryCas(t)
    <3>1. CASE Unlocked
      BY <2>6, <3>1, TakeStep DEF TryCas, Goto, SlotPcs, Fifo!Next
    <3>2. CASE ~Unlocked
      BY <2>6, <3>2, MoveIsUnseen DEF TryCas, Goto, OwnerPcs, SlotPcs
    <3>3. QED
      BY <3>1, <3>2
  <2>7. CASE XchgTail(t)
    BY <2>7, JoinStep DEF Fifo!Next
  <2>8. CASE CasTail(t)
    <3>1. CASE locked = 0 /\ pending = 0 /\ tail = t
      BY <2>8, <3>1, HeadTakesLock DEF Fifo!Next
    <3>2. CASE ~(locked = 0 /\ pending = 0 /\ tail = t)
      BY <2>8, <3>2, MoveIsUnseen DEF CasTail, Goto, OwnerPcs, SlotPcs
    <3>3. QED
      BY <3>1, <3>2
  <2>9. CASE SetLocked(t)
    BY <2>9, HeadTakesLock DEF Fifo!Next
  <2>10. CASE HandOff(t)
    BY <2>10, HandOffIsUnseen
  <2>11. CASE \/ EnterSlowpath(t) \/ PendingSpin(t) \/ GrabNode(t)
              \/ WaitHead(t)
    <3>1. PICK p \in {"pending_spin", "grab_node", "set_pending", "aborted",
                      "init_node", "cas_tail", "set_locked"} :
            pc' = [pc EXCEPT ![t] = p]
      BY <2>11 DEF EnterSlowpath, PendingSpin, GrabNode, WaitHead, Goto,
         QueueOrPend
    <3>2. /\ pc[t] \in {"idle", "pending_spin", "grab_node", "wait_head"}
          /\ queue' = queue
      BY <2>11 DEF EnterSlowpath, PendingSpin, GrabNode, WaitHead, Goto
    <3>3. QED
      BY <3>1, <3>2, MoveIsUnseen DEF OwnerPcs, SlotPcs
  <2>12. CASE \/ ClearPending(t) \/ InitNode(t) \/ TryRead(t) \/ LinkPrev(t)
              \/ WaitNode(t) \/ ReadNext(t)
    <3>1. PICK p \in {"grab_node", "try_read", "try_cas", "xchg_tail",
                      "wait_node", "read_next", "wait_head"} :
            pc' = [pc EXCEPT ![t] = p]
      BY <2>12 DEF ClearPending, InitNode, TryRead, LinkPrev, WaitNode,
         ReadNext, Goto
    <3>2. /\ pc[t] \in {"clear_pending", "init_node", "try_read", "link",
                        "wait_node", "read_next"}
          /\ queue' = queue
      BY <2>12 DEF ClearPending, InitNode, TryRead, LinkPrev, WaitNode,
         ReadNext, Goto
    <3>3. QED
      BY <3>1, <3>2, MoveIsUnseen DEF OwnerPcs, SlotPcs
  <2>13. CASE WaitOwner(t)
    BY <2>13, MoveIsUnseen DEF WaitOwner, Goto, OwnerPcs, SlotPcs
  <2>14. CASE WaitNext(t) \/ ReleaseNode(t)
    <3>1. PICK p \in {"hand_off", "cs"} : pc' = [pc EXCEPT ![t] = p]
      BY <2>14 DEF WaitNext, ReleaseNode, Goto
    <3>2. pc[t] \in {"wait_next", "release"} /\ queue' = queue
      BY <2>14 DEF WaitNext, ReleaseNode, Goto
    <3>3. QED
      BY <3>1, <3>2, MoveIsUnseen DEF OwnerPcs, SlotPcs
  <2>15. QED
    BY <2>1, <2>2, <2>3, <2>4, <2>5, <2>6, <2>7, <2>8, <2>9, <2>10, <2>11,
       <2>12, <2>13, <2>14 DEF Start, Slowpath
<1>2. CASE UNCHANGED vars
  BY <1>2 DEF vars, LockOwner, PendingThread, ThreadAt, Line
<1>3. QED
  BY <1>1, <1>2

(* The queued spinlock implements the first-come, first-served lock with one *)
(* pending slot, whatever the threads: nobody steals it, through the fast    *)
(* path, the pending bit, trylock or the queue.                              *)
THEOREM Implements == Spec => FifoSafety
BY InitIsFifo, NextIsFifo, InductiveInvariant, PTL DEF Spec, FifoSafety
===============================================================================
