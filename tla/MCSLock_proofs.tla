---------------------------- MODULE MCSLock_proofs ----------------------------
(*****************************************************************************)
(* The safety of MCSLock for any set of threads, and that it implements      *)
(* FifoLock.  The inductive invariant is IInv of MCSLock: the callers form   *)
(* one chain of links that are missing or live, and only the first of them   *)
(* may go.  Then each action is a step of FifoLock or leaves it unchanged.   *)
(*****************************************************************************)
EXTENDS MCSLock, SequenceTheorems, TLAPS

(* The part of IInv that speaks of the order of the queue.                   *)
Chain == QueueIsTheCallers /\ OnlyTheFirstMayGo /\ LinksFollowTheQueue

(* A queued thread that has been passed the lock is the first of the queue.  *)
LEMMA GoersAreFirst ==
  ASSUME TypeOK, QueueIsTheCallers, OnlyTheFirstMayGo,
         NEW t \in Threads, pc[t] \in QueuePcs,
         pc[t] \in {"link", "wait"} => nodeLocked[t] = 1
  PROVE  /\ queue # <<>> /\ queue[1] = t /\ pc[t] # "link"
         /\ 1 \in Idx /\ Idx \subseteq Nat /\ Len(queue) \in Nat
<1>1. PICK i \in Idx : queue[i] = t
  BY DEF QueueIsTheCallers
<1>2. i = 1
  BY <1>1 DEF OnlyTheFirstMayGo, Idx, TypeOK
<1>3. queue # <<>>
  BY <1>1 DEF TypeOK, Idx
<1>4. QED
  BY <1>1, <1>2, <1>3 DEF OnlyTheFirstMayGo, Idx, TypeOK

(* A step of a thread that is and stays outside the queue, and touches no    *)
(* queued node, keeps the chain: the node set-up.                            *)
LEMMA StepOutsideQueue ==
  ASSUME TypeOK, Chain,
         NEW t \in Threads, NEW p,
         pc' = [pc EXCEPT ![t] = p], pc[t] \notin QueuePcs, p \notin QueuePcs,
         queue' = queue, lock' = lock,
         \A u \in Threads : pc[u] \in QueuePcs =>
           /\ nodeNext'[u] = nodeNext[u] /\ nodeLocked'[u] = nodeLocked[u]
           /\ prev'[u] = prev[u]
  PROVE  Chain'
<1>1. /\ Idx' = Idx /\ Idx = 1..Len(queue) /\ Len(queue) \in Nat
      /\ queue # <<>> => 1 \in Idx
  BY DEF Idx, TypeOK
<1>2. \A i \in Idx :
        queue[i] \in Threads /\ pc[queue[i]] \in QueuePcs /\ queue[i] # t
  BY DEF Chain, QueueIsTheCallers, Idx, TypeOK
<1>3. \A u \in Threads : u # t => pc'[u] = pc[u]
  BY DEF TypeOK
<1>4. pc'[t] = p
  BY DEF TypeOK
<1>5. QueueIsTheCallers'
  BY <1>1, <1>2, <1>3, <1>4 DEF Chain, QueueIsTheCallers
<1>6. OnlyTheFirstMayGo'
  BY <1>1, <1>2, <1>3, <1>4 DEF Chain, OnlyTheFirstMayGo
<1>7. LinksFollowTheQueue'
  <2>1. \A i \in Idx : i < Len(queue) => i + 1 \in Idx
    BY <1>1
  <2>2. QED
    BY <1>1, <1>2, <1>3, <2>1 DEF Chain, LinksFollowTheQueue
<1>8. QED
  BY <1>5, <1>6, <1>7 DEF Chain

(* The first of the queue moves on without leaving it: it is passed the lock *)
(* or looks for its successor.                                               *)
LEMMA StepOfFirst ==
  ASSUME TypeOK, Chain,
         NEW t \in Threads, NEW p \in QueuePcs \ {"link", "wait"},
         pc' = [pc EXCEPT ![t] = p], pc[t] \in QueuePcs,
         pc[t] \in {"link", "wait"} => nodeLocked[t] = 1,
         queue' = queue, lock' = lock,
         nodeNext' = nodeNext, nodeLocked' = nodeLocked,
         \A u \in Threads : u # t => prev'[u] = prev[u]
  PROVE  Chain'
<1>1. /\ queue # <<>> /\ queue[1] = t /\ pc[t] # "link" /\ 1 \in Idx
  BY GoersAreFirst DEF Chain
<1>2. Idx' = Idx /\ Idx = 1..Len(queue) /\ Len(queue) \in Nat
  BY DEF Idx, TypeOK
<1>3. \A i \in Idx : queue[i] \in Threads /\ (i > 1 => queue[i] # t)
  BY <1>1, <1>2 DEF Chain, QueueIsTheCallers, TypeOK
<1>4. \A u \in Threads : pc'[u] = IF u = t THEN p ELSE pc[u]
  BY DEF TypeOK
<1>5. QueueIsTheCallers'
  BY <1>1, <1>2, <1>3, <1>4 DEF Chain, QueueIsTheCallers
<1>6. OnlyTheFirstMayGo'
  BY <1>1, <1>2, <1>3, <1>4 DEF Chain, OnlyTheFirstMayGo
<1>7. LinksFollowTheQueue'
  <2>1. \A i \in Idx : i < Len(queue) => i + 1 \in Idx /\ i + 1 > 1
    BY <1>2
  <2>2. QED
    BY <1>1, <1>2, <1>3, <1>4, <2>1 DEF Chain, LinksFollowTheQueue
<1>8. QED
  BY <1>5, <1>6, <1>7 DEF Chain

(* The xchg appends a fresh node behind the last one.                        *)
LEMMA ChainAfterSwap ==
  ASSUME TypeOK, Chain, LocalsAreGood, NEW t \in Threads, Swap(t)
  PROVE  Chain'
<1> DEFINE n == Len(queue)
<1>1. /\ n \in Nat /\ Idx = 1..n /\ Idx' = 1..(n + 1) /\ Len(queue') = n + 1
      /\ queue' \in Seq(Threads) /\ queue'[n + 1] = t
      /\ \A i \in 1..n : queue'[i] = queue[i]
  BY DEF Swap, TypeOK, Idx
<1>2. \A i \in 1..n :
        queue[i] \in Threads /\ pc[queue[i]] \in QueuePcs /\ queue[i] # t
  BY <1>1 DEF Swap, Goto, QueuePcs, OwnerPcs, Chain, QueueIsTheCallers, TypeOK
<1>3. /\ \A u \in Threads : u # t => pc'[u] = pc[u] /\ prev'[u] = prev[u]
      /\ pc'[t] = IF n = 0 THEN "cs" ELSE "link"
      /\ prev'[t] = lock
      /\ nodeNext[t] = None /\ nodeLocked[t] = 0
      /\ nodeNext' = nodeNext /\ nodeLocked' = nodeLocked /\ lock' = t
      /\ lock = IF n = 0 THEN None ELSE queue[n]
  <2>1. lock = IF n = 0 THEN None ELSE queue[n]
    BY <1>1 DEF Chain, QueueIsTheCallers, TypeOK
  <2>2. n # 0 => lock # None
    BY <2>1, <1>1, <1>2, MCSNoneAssumption
  <2>3. QED
    BY <2>1, <2>2 DEF Swap, Goto, TypeOK, LocalsAreGood
<1>4. QueueIsTheCallers'
  <2>1. queue' # <<>>
    BY <1>1
  <2>2. \A i, j \in Idx' : queue'[i] = queue'[j] => i = j
    BY <1>1, <1>2 DEF Chain, QueueIsTheCallers
  <2>3. \A i \in Idx' : pc'[queue'[i]] \in QueuePcs
    BY <1>1, <1>2, <1>3 DEF QueuePcs, OwnerPcs
  <2>4. \A u \in Threads : pc'[u] \in QueuePcs => \E i \in Idx' : queue'[i] = u
    BY <1>1, <1>2, <1>3 DEF Chain, QueueIsTheCallers
  <2>5. QED
    BY <1>1, <1>3, <2>1, <2>2, <2>3, <2>4 DEF QueueIsTheCallers
<1>5. OnlyTheFirstMayGo'
  <2>1. CASE n = 0
    BY <1>1, <1>3, <2>1 DEF OnlyTheFirstMayGo
  <2>2. CASE n > 0
    <3>1. queue # <<>> /\ 1 \in 1..n /\ queue'[1] = queue[1]
      BY <1>1, <2>2
    <3>2. \A i \in 1..(n + 1) : i > 1 =>
            /\ pc'[queue'[i]] \in {"link", "wait"}
            /\ nodeLocked'[queue'[i]] = 0
            /\ prev'[queue'[i]] = queue'[i - 1]
      <4> SUFFICES ASSUME NEW i \in 1..(n + 1), i > 1
                   PROVE  /\ pc'[queue'[i]] \in {"link", "wait"}
                          /\ nodeLocked'[queue'[i]] = 0
                          /\ prev'[queue'[i]] = queue'[i - 1]
        OBVIOUS
      <4>1. CASE i = n + 1
        BY <1>1, <1>3, <2>2, <4>1
      <4>2. CASE i \in 1..n
        BY <1>1, <1>2, <1>3, <4>2 DEF Chain, OnlyTheFirstMayGo
      <4>3. QED
        BY <1>1, <4>1, <4>2
    <3>3. QED
      BY <1>1, <1>2, <1>3, <3>1, <3>2 DEF Chain, OnlyTheFirstMayGo
  <2>3. QED
    BY <1>1, <2>1, <2>2
<1>6. LinksFollowTheQueue'
  <2> SUFFICES ASSUME NEW i \in 1..(n + 1)
               PROVE  nodeNext'[queue'[i]] =
                        IF i < n + 1 /\ pc'[queue'[i + 1]] # "link"
                        THEN queue'[i + 1] ELSE None
    BY <1>1 DEF LinksFollowTheQueue
  <2>1. CASE i = n + 1
    BY <1>1, <1>3, <2>1
  <2>2. CASE i = n
    BY <1>1, <1>3, <2>2 DEF Chain, LinksFollowTheQueue
  <2>3. CASE i < n
    <3>1. i \in 1..n /\ i + 1 \in 1..n
      BY <1>1, <2>3
    <3>2. QED
      BY <1>1, <1>2, <1>3, <2>3, <3>1 DEF Chain, LinksFollowTheQueue
  <2>4. QED
    BY <1>1, <2>1, <2>2, <2>3
<1>7. QED
  BY <1>4, <1>5, <1>6 DEF Chain

(* WRITE_ONCE(prev->next, node) fills in the one missing link, in the node   *)
(* of a predecessor that is still in the queue.                              *)
LEMMA ChainAfterLink ==
  ASSUME TypeOK, Chain, NEW t \in Threads, Link(t)
  PROVE  /\ Chain'
         /\ \E k \in Idx : k > 1 /\ queue[k] = t /\ prev[t] = queue[k - 1]
<1>1. PICK k \in Idx : queue[k] = t
  BY DEF Link, Goto, QueuePcs, Chain, QueueIsTheCallers
<1>2. /\ Idx' = Idx /\ Idx = 1..Len(queue) /\ Len(queue) \in Nat
      /\ queue' = queue /\ lock' = lock
      /\ \A i \in Idx : queue[i] \in Threads
  BY DEF Link, Idx, TypeOK
<1>3. k > 1 /\ prev[t] = queue[k - 1] /\ k - 1 \in Idx
  BY <1>1, <1>2 DEF Link, Goto, Chain, OnlyTheFirstMayGo
<1>4. /\ \A u \in Threads : pc'[u] = IF u = t THEN "wait" ELSE pc[u]
      /\ \A u \in Threads :
           nodeNext'[u] = IF u = queue[k - 1] THEN t ELSE nodeNext[u]
      /\ nodeLocked' = nodeLocked /\ prev' = prev /\ pc[t] = "link"
  BY <1>3 DEF Link, Goto, TypeOK
<1>5. QueueIsTheCallers'
  BY <1>1, <1>2, <1>4 DEF Chain, QueueIsTheCallers, QueuePcs, OwnerPcs
<1>6. OnlyTheFirstMayGo'
  <2>1. queue # <<>> => 1 \in Idx
    BY <1>2
  <2>2. \A i \in Idx : queue[i] = t => i = k
    BY <1>1 DEF Chain, QueueIsTheCallers
  <2>3. QED
    BY <1>1, <1>2, <1>3, <1>4, <2>1, <2>2 DEF Chain, OnlyTheFirstMayGo
<1>7. LinksFollowTheQueue'
  <2> SUFFICES ASSUME NEW i \in Idx
               PROVE  nodeNext'[queue[i]] =
                        IF i < Len(queue) /\ pc'[queue[i + 1]] # "link"
                        THEN queue[i + 1] ELSE None
    BY <1>2 DEF LinksFollowTheQueue
  <2>1. i < Len(queue) => i + 1 \in Idx
    BY <1>2
  <2>2. CASE i = k - 1
    BY <1>1, <1>2, <1>3, <1>4, <2>2
  <2>3. CASE i # k - 1
    <3>1. queue[i] # queue[k - 1] /\ (i < Len(queue) => queue[i + 1] # t)
      BY <1>1, <1>2, <1>3, <2>1, <2>3 DEF Chain, QueueIsTheCallers
    <3>2. QED
      BY <1>2, <1>4, <2>1, <3>1 DEF Chain, LinksFollowTheQueue
  <2>4. QED
    BY <2>2, <2>3
<1>8. QED
  BY <1>1, <1>3, <1>5, <1>6, <1>7 DEF Chain

(* The cmpxchg succeeds only when the first is alone: the queue is           *)
(* empty afterwards.                                                         *)
LEMMA ChainAfterCas ==
  ASSUME TypeOK, Chain, NEW t \in Threads,
         pc[t] = "cas", pc' = [pc EXCEPT ![t] = "idle"], lock = t,
         queue' = Tail(queue), lock' = None
  PROVE  Chain'
<1>1. queue # <<>> /\ queue[1] = t /\ 1 \in Idx
  BY GoersAreFirst DEF Chain, QueuePcs, OwnerPcs
<1>2. Len(queue) = 1
  <2>1. Len(queue) \in Idx
    BY <1>1 DEF Idx, TypeOK
  <2>2. queue[Len(queue)] = t
    BY <1>1 DEF Chain, QueueIsTheCallers
  <2>3. QED
    BY <1>1, <2>1, <2>2 DEF Chain, QueueIsTheCallers
<1>3. queue' = <<>> /\ Idx' = {}
  <2>1. Tail(queue) \in Seq(Threads) /\ Len(Tail(queue)) = 0
    BY <1>1, <1>2, HeadTailProperties DEF TypeOK
  <2>2. QED
    BY <2>1, EmptySeq DEF Idx
<1>4. \A u \in Threads : pc'[u] \notin QueuePcs
  BY <1>1, <1>2 DEF Chain, QueueIsTheCallers, QueuePcs, OwnerPcs,
     TypeOK, Idx
<1>5. QED
  BY <1>3, <1>4 DEF Chain, QueueIsTheCallers, OnlyTheFirstMayGo,
     LinksFollowTheQueue

(* Whom the lock is passed to: the second in the queue, linked and waiting.  *)
LEMMA SuccessorOfFirst ==
  ASSUME TypeOK, Chain, LocalsAreGood, NEW t \in Threads, pc[t] = "pass"
  PROVE  /\ queue[1] = t /\ Len(queue) \in Nat /\ Len(queue) > 1
         /\ next[t] = queue[2] /\ pc[queue[2]] = "wait"
         /\ nodeLocked[queue[2]] = 0 /\ queue[2] \in Threads /\ queue[2] # t
<1>1. queue # <<>> /\ queue[1] = t /\ 1 \in Idx /\ Len(queue) \in Nat
  BY GoersAreFirst DEF Chain, QueuePcs, OwnerPcs
<1>2. next[t] # None /\ next[t] = nodeNext[t]
  BY DEF LocalsAreGood
<1>3. Len(queue) > 1 /\ next[t] = queue[2] /\ pc[queue[2]] # "link"
  BY <1>1, <1>2 DEF Chain, LinksFollowTheQueue
<1>4. 2 \in Idx
  BY <1>1, <1>3 DEF Idx
<1>5. QED
  BY <1>1, <1>3, <1>4 DEF Chain, OnlyTheFirstMayGo, QueueIsTheCallers,
     TypeOK, Idx

(* Passing the lock takes the first out and wakes exactly the next.          *)
LEMMA ChainAfterPass ==
  ASSUME TypeOK, Chain, LocalsAreGood, NEW t \in Threads, Pass(t)
  PROVE  Chain'
<1> DEFINE n == Len(queue)
<1>1. /\ queue[1] = t /\ n \in Nat /\ n > 1 /\ next[t] = queue[2]
      /\ pc[queue[2]] = "wait" /\ queue[2] \in Threads /\ queue[2] # t
  BY SuccessorOfFirst DEF Pass, Goto
<1>2. /\ Idx = 1..n /\ Idx' = 1..(n - 1) /\ Len(queue') = n - 1 /\ queue' # <<>>
      /\ \A i \in 1..(n - 1) : queue'[i] = queue[i + 1] /\ i + 1 \in Idx
  <2>1. queue \in Seq(Threads) /\ queue # <<>> /\ queue' = Tail(queue)
    BY <1>1 DEF Pass, TypeOK
  <2>2. /\ Len(queue') = n - 1
        /\ \A i \in 1..(n - 1) : queue'[i] = queue[i + 1]
    BY <2>1, HeadTailProperties
  <2>3. QED
    BY <1>1, <2>2 DEF Idx
<1>3. \A i \in Idx :
        /\ queue[i] \in Threads
        /\ i > 1 => queue[i] # t
        /\ i > 2 => queue[i] # queue[2]
  <2>1. 1 \in Idx /\ 2 \in Idx
    BY <1>1, <1>2
  <2>2. \A i \in Idx : queue[i] \in Threads
    BY DEF Idx, TypeOK
  <2>3. \A i, j \in Idx : queue[i] = queue[j] => i = j
    BY DEF Chain, QueueIsTheCallers
  <2>4. \A i \in Idx : i \in Nat
    BY <1>2
  <2>5. QED
    BY <1>1, <2>1, <2>2, <2>3, <2>4
<1>4. /\ \A u \in Threads : pc'[u] = IF u = t THEN "idle" ELSE pc[u]
      /\ \A u \in Threads :
           nodeLocked'[u] = IF u = queue[2] THEN 1 ELSE nodeLocked[u]
      /\ nodeNext' = nodeNext /\ prev' = prev /\ lock' = lock
  BY <1>1 DEF Pass, Goto, TypeOK
<1>5. QueueIsTheCallers'
  <2>1. \A i, j \in Idx' : queue'[i] = queue'[j] => i = j
    BY <1>1, <1>2 DEF Chain, QueueIsTheCallers
  <2>2. \A i \in Idx' : pc'[queue'[i]] \in QueuePcs
    BY <1>1, <1>2, <1>3, <1>4 DEF Chain, QueueIsTheCallers
  <2>3. \A u \in Threads : pc'[u] \in QueuePcs => \E i \in Idx' : queue'[i] = u
    <3> SUFFICES ASSUME NEW u \in Threads, pc'[u] \in QueuePcs
                 PROVE  \E i \in Idx' : queue'[i] = u
      OBVIOUS
    <3>1. u # t /\ pc[u] \in QueuePcs
      BY <1>4 DEF QueuePcs, OwnerPcs
    <3>2. PICK i \in Idx : queue[i] = u
      BY <3>1 DEF Chain, QueueIsTheCallers
    <3>3. i > 1 /\ i - 1 \in 1..(n - 1)
      BY <1>1, <1>2, <3>1, <3>2
    <3>4. queue'[i - 1] = u
      BY <1>1, <1>2, <3>2, <3>3
    <3>5. QED
      BY <1>2, <3>3, <3>4
  <2>4. lock' = queue'[Len(queue')]
    BY <1>1, <1>2, <1>4 DEF Chain, QueueIsTheCallers
  <2>5. QED
    BY <1>2, <2>1, <2>2, <2>3, <2>4 DEF QueueIsTheCallers
<1>6. OnlyTheFirstMayGo'
  <2>1. queue'[1] = queue[2]
    BY <1>1, <1>2
  <2>2. ASSUME NEW i \in Idx', i > 1
        PROVE  /\ pc'[queue'[i]] \in {"link", "wait"}
               /\ nodeLocked'[queue'[i]] = 0
               /\ prev'[queue'[i]] = queue'[i - 1]
    <3>1. /\ i + 1 \in Idx /\ i + 1 > 2 /\ queue'[i] = queue[i + 1]
          /\ i - 1 \in Idx' /\ queue'[i - 1] = queue[i]
      BY <1>1, <1>2, <2>2
    <3>2. i + 1 > 1 /\ (i + 1) - 1 = i
      BY <1>1, <1>2
    <3>3. /\ pc[queue[i + 1]] \in {"link", "wait"}
          /\ nodeLocked[queue[i + 1]] = 0
          /\ prev[queue[i + 1]] = queue[i]
      BY <3>1, <3>2 DEF Chain, OnlyTheFirstMayGo
    <3>4. QED
      BY <1>2, <1>3, <1>4, <3>1, <3>2, <3>3
  <2>3. QED
    BY <1>1, <1>3, <1>4, <2>1, <2>2 DEF OnlyTheFirstMayGo
<1>7. LinksFollowTheQueue'
  <2> SUFFICES ASSUME NEW i \in Idx'
               PROVE  nodeNext'[queue'[i]] =
                        IF i < Len(queue') /\ pc'[queue'[i + 1]] # "link"
                        THEN queue'[i + 1] ELSE None
    BY DEF LinksFollowTheQueue
  <2>1. /\ i + 1 \in Idx /\ queue'[i] = queue[i + 1]
        /\ (i < Len(queue') <=> i + 1 < n)
        /\ (i < Len(queue') => /\ i + 2 \in Idx /\ queue'[i + 1] = queue[i + 2])
    BY <1>1, <1>2
  <2>2. i < Len(queue') => pc'[queue[i + 2]] = pc[queue[i + 2]]
    BY <1>1, <1>2, <1>3, <1>4, <2>1
  <2>3. QED
    BY <1>1, <1>2, <1>4, <2>1, <2>2 DEF Chain, LinksFollowTheQueue
<1>8. QED
  BY <1>5, <1>6, <1>7 DEF Chain

LEMMA InitIInv == Init => IInv
<1> SUFFICES ASSUME Init PROVE IInv
  OBVIOUS
<1> USE MCSNoneAssumption DEF Init
<1>1. TypeOK
  BY DEF TypeOK, QueuePcs, OwnerPcs
<1>2. Idx = {}
  BY DEF Idx
<1>3. QueueIsTheCallers /\ OnlyTheFirstMayGo /\ LinksFollowTheQueue
  BY <1>2 DEF QueueIsTheCallers, OnlyTheFirstMayGo, LinksFollowTheQueue,
     QueuePcs, OwnerPcs
<1>4. LocalsAreGood
  BY DEF LocalsAreGood
<1>5. QED
  BY <1>1, <1>3, <1>4 DEF IInv

(* Every action keeps the types.                                             *)
LEMMA TypesAreKept ==
  ASSUME TypeOK, Chain, LocalsAreGood, NEW t \in Threads,
         InitNode(t) \/ Locking(t) \/ Unlocking(t)
  PROVE  TypeOK'
<1> USE DEF TypeOK, Goto, QueuePcs, OwnerPcs
<1>1. CASE InitNode(t)
  BY <1>1 DEF InitNode
<1>2. CASE Swap(t)
  BY <1>2 DEF Swap
<1>3. CASE Link(t)
  BY <1>3 DEF Link
<1>4. CASE Wait(t)
  BY <1>4 DEF Wait
<1>5. CASE ReadNext(t)
  BY <1>5 DEF ReadNext
<1>6. CASE Cas(t)
  <2>1. CASE lock = t
    <3>1. queue # <<>>
      BY <1>6, GoersAreFirst DEF Cas, Chain
    <3>2. Tail(queue) \in Seq(Threads)
      BY <3>1, HeadTailProperties
    <3>3. QED
      BY <1>6, <2>1, <3>2 DEF Cas
  <2>2. CASE lock # t
    BY <1>6, <2>2 DEF Cas
  <2>3. QED
    BY <2>1, <2>2
<1>7. CASE WaitNext(t)
  BY <1>7 DEF WaitNext
<1>8. CASE Pass(t)
  <2>1. queue # <<>>
    BY <1>8, GoersAreFirst DEF Pass, Chain
  <2>2. Tail(queue) \in Seq(Threads)
    BY <2>1, HeadTailProperties
  <2>3. next[t] \in Threads
    BY <1>8, SuccessorOfFirst DEF Pass
  <2>4. QED
    BY <1>8, <2>2, <2>3 DEF Pass
<1>9. QED
  BY <1>1, <1>2, <1>3, <1>4, <1>5, <1>6, <1>7, <1>8 DEF Locking, Unlocking

(* Every action keeps the chain.                                             *)
LEMMA ChainIsKept ==
  ASSUME TypeOK, Chain, LocalsAreGood, NEW t \in Threads,
         InitNode(t) \/ Locking(t) \/ Unlocking(t)
  PROVE  Chain'
<1>1. CASE InitNode(t)
  <2>1. /\ pc[t] = "idle" /\ pc' = [pc EXCEPT ![t] = "swap"]
        /\ queue' = queue /\ lock' = lock /\ prev' = prev
        /\ \A u \in Threads : u # t =>
             nodeNext'[u] = nodeNext[u] /\ nodeLocked'[u] = nodeLocked[u]
    BY <1>1 DEF InitNode, Goto, TypeOK
  <2>2. "idle" \notin QueuePcs /\ "swap" \notin QueuePcs
    BY DEF QueuePcs, OwnerPcs
  <2>3. \A u \in Threads : pc[u] \in QueuePcs => u # t
    BY <2>1, <2>2
  <2>4. QED
    BY <2>1, <2>2, <2>3, StepOutsideQueue
<1>2. CASE Swap(t)
  BY <1>2, ChainAfterSwap
<1>3. CASE Link(t)
  BY <1>3, ChainAfterLink
<1>4. CASE Wait(t)
  <2>1. /\ pc[t] = "wait" /\ pc' = [pc EXCEPT ![t] = "cs"] /\ nodeLocked[t] = 1
        /\ \A u \in Threads : u # t => prev'[u] = prev[u]
    BY <1>4 DEF Wait, Goto, TypeOK
  <2>2. QED
    BY <1>4, <2>1, StepOfFirst DEF Wait, QueuePcs, OwnerPcs
<1>5. CASE ReadNext(t)
  <2>1. PICK p \in {"cas", "pass"} : pc' = [pc EXCEPT ![t] = p]
    BY <1>5 DEF ReadNext, Goto
  <2>2. QED
    BY <1>5, <2>1, StepOfFirst DEF ReadNext, Goto, QueuePcs, OwnerPcs
<1>6. CASE Cas(t)
  <2>1. CASE lock = t
    BY <1>6, <2>1, ChainAfterCas DEF Cas, Goto
  <2>2. CASE lock # t
    BY <1>6, <2>2, StepOfFirst DEF Cas, Goto, QueuePcs, OwnerPcs
  <2>3. QED
    BY <2>1, <2>2
<1>7. CASE WaitNext(t)
  BY <1>7, StepOfFirst DEF WaitNext, Goto, QueuePcs, OwnerPcs
<1>8. CASE Pass(t)
  BY <1>8, ChainAfterPass
<1>9. QED
  BY <1>1, <1>2, <1>3, <1>4, <1>5, <1>6, <1>7, <1>8 DEF Locking, Unlocking

(* Every action keeps what the releaser and the newcomer rely on: only the   *)
(* last of the queue is linked to, and only a waiter is woken.               *)
LEMMA LocalsAreKept ==
  ASSUME TypeOK, Chain, LocalsAreGood, NEW t \in Threads,
         InitNode(t) \/ Locking(t) \/ Unlocking(t)
  PROVE  LocalsAreGood'
<1> USE MCSNoneAssumption
<1>1. CASE InitNode(t)
  BY <1>1 DEF InitNode, Goto, TypeOK, LocalsAreGood
<1>2. CASE Swap(t)
  BY <1>2 DEF Swap, Goto, TypeOK, LocalsAreGood
<1>3. CASE Link(t)
  <2>1. PICK k \in Idx : k > 1 /\ queue[k] = t /\ prev[t] = queue[k - 1]
    BY <1>3, ChainAfterLink
  <2>2. k - 1 \in Idx /\ k - 1 < Len(queue) /\ (k - 1) + 1 = k
    BY <2>1 DEF Idx, TypeOK
  <2>3. nodeNext[prev[t]] = None
    BY <1>3, <2>1, <2>2 DEF Link, Goto, Chain, LinksFollowTheQueue
  <2>4. pc[prev[t]] \in QueuePcs
    BY <2>1, <2>2 DEF Chain, QueueIsTheCallers
  <2>5. QED
    BY <1>3, <2>3, <2>4 DEF Link, Goto, TypeOK, LocalsAreGood, QueuePcs,
       OwnerPcs
<1>4. CASE Wait(t)
  BY <1>4 DEF Wait, Goto, TypeOK, LocalsAreGood
<1>5. CASE ReadNext(t)
  BY <1>5 DEF ReadNext, Goto, TypeOK, LocalsAreGood
<1>6. CASE Cas(t)
  BY <1>6 DEF Cas, Goto, TypeOK, LocalsAreGood
<1>7. CASE WaitNext(t)
  BY <1>7 DEF WaitNext, Goto, TypeOK, LocalsAreGood
<1>8. CASE Pass(t)
  <2>1. pc[next[t]] = "wait"
    BY <1>8, SuccessorOfFirst DEF Pass, Goto
  <2>2. QED
    BY <1>8, <2>1 DEF Pass, Goto, TypeOK, LocalsAreGood
<1>9. QED
  BY <1>1, <1>2, <1>3, <1>4, <1>5, <1>6, <1>7, <1>8 DEF Locking, Unlocking

LEMMA NextIInv == IInv /\ [Next]_vars => IInv'
<1> SUFFICES ASSUME IInv, [Next]_vars PROVE IInv'
  OBVIOUS
<1>1. TypeOK /\ Chain /\ LocalsAreGood
  BY DEF IInv, Chain
<1>2. CASE Next
  <2>1. PICK t \in Threads : InitNode(t) \/ Locking(t) \/ Unlocking(t)
    BY <1>2 DEF Next
  <2>2. TypeOK' /\ Chain' /\ LocalsAreGood'
    BY <1>1, <2>1, TypesAreKept, ChainIsKept, LocalsAreKept
  <2>3. QED
    BY <2>2 DEF IInv, Chain
<1>3. CASE UNCHANGED vars
  BY <1>3 DEF vars, IInv, TypeOK, QueueIsTheCallers, OnlyTheFirstMayGo,
     LinksFollowTheQueue, LocalsAreGood, Idx
<1>4. QED
  BY <1>2, <1>3

(* The callers of mcs_spin_lock form one chain of live links, at all times.  *)
THEOREM InductiveInvariant == Spec => []IInv
BY InitIInv, NextIInv, PTL DEF Spec

(* The lock, the nodes and the locals keep their types.                      *)
THEOREM TypeCorrect == Spec => []TypeOK
<1>1. IInv => TypeOK
  BY DEF IInv
<1>2. QED
  BY <1>1, InductiveInvariant, PTL

(* Who has the lock is the first of the queue.                               *)
LEMMA OwnerIsFirst ==
  ASSUME IInv, NEW t \in Threads, pc[t] \in OwnerPcs
  PROVE  queue # <<>> /\ queue[1] = t
<1>1. pc[t] \in QueuePcs /\ pc[t] \notin {"link", "wait"}
  BY DEF QueuePcs, OwnerPcs
<1>2. QED
  BY <1>1, GoersAreFirst DEF IInv

(* mcs_spin_lock gives mutual exclusion.                                     *)
THEOREM Mutex == Spec => []MutualExclusion
<1>1. IInv => MutualExclusion
  BY OwnerIsFirst DEF MutualExclusion
<1>2. QED
  BY <1>1, InductiveInvariant, PTL

(* No step stores into a node that is not in the queue, but its owner's own  *)
(* initialisation.                                                           *)
LEMMA OnlyQueuedNodesAreWritten ==
  ASSUME IInv, NEW t \in Threads, InitNode(t) \/ Locking(t) \/ Unlocking(t),
         NEW u \in Threads, pc[u] \in {"idle", "swap"}, ~InitNode(u)
  PROVE  nodeNext'[u] = nodeNext[u] /\ nodeLocked'[u] = nodeLocked[u]
<1>0. TypeOK /\ Chain /\ LocalsAreGood /\ pc[u] \notin QueuePcs
  BY DEF IInv, Chain, QueuePcs, OwnerPcs
<1>1. CASE InitNode(t)
  BY <1>0, <1>1 DEF InitNode, TypeOK
<1>2. CASE Link(t)
  <2>1. PICK k \in Idx : k > 1 /\ prev[t] = queue[k - 1]
    BY <1>0, <1>2, ChainAfterLink
  <2>2. k - 1 \in Idx
    BY <1>0, <2>1 DEF Idx, TypeOK
  <2>3. prev[t] # u
    BY <1>0, <2>1, <2>2 DEF Chain, QueueIsTheCallers
  <2>4. QED
    BY <1>0, <1>2, <2>3 DEF Link, TypeOK
<1>3. CASE Pass(t)
  <2>1. next[t] # u
    BY <1>0, <1>3, SuccessorOfFirst DEF Pass, Goto, QueuePcs
  <2>2. QED
    BY <1>0, <1>3, <2>1 DEF Pass, TypeOK
<1>4. CASE Swap(t) \/ Wait(t) \/ ReadNext(t) \/ Cas(t) \/ WaitNext(t)
  BY <1>4 DEF Swap, Wait, ReadNext, Cas, WaitNext
<1>5. QED
  BY <1>1, <1>2, <1>3, <1>4 DEF Locking, Unlocking

(* A caller may drop its node as soon as mcs_spin_unlock returns.            *)
THEOREM NodesMayBeLocals == Spec => NodesAreOnlyBorrowed
<1>1. IInv /\ [Next]_vars =>
        [\A t \in Threads :
           pc[t] \in {"idle", "swap"} /\ ~InitNode(t) =>
             nodeNext'[t] = nodeNext[t] /\ nodeLocked'[t] = nodeLocked[t]]_vars
  BY OnlyQueuedNodesAreWritten DEF Next
<1>2. QED
  BY <1>1, InductiveInvariant, PTL DEF Spec, NodesAreOnlyBorrowed

-----------------------------------------------------------------------------
(* MCSLock implements FifoLock                                               *)

(* What the users see while t has the lock, and while nobody has it.         *)
LEMMA ViewWithOwner ==
  ASSUME IInv, NEW t \in Threads, pc[t] \in OwnerPcs
  PROVE  LockOwner = t /\ Line = Tail(queue)
<1>1. \A u \in Threads : pc[u] \in OwnerPcs => u = t
  BY OwnerIsFirst
<1>2. LockOwner = t
  BY <1>1 DEF LockOwner
<1>3. QED
  BY <1>2, OwnerIsFirst DEF Line

LEMMA ViewWithoutOwner ==
  ASSUME IInv, \A u \in Threads : pc[u] \notin OwnerPcs
  PROVE  LockOwner = None /\ Line = queue
<1>1. queue # <<>> => queue[1] \in Threads
  BY DEF IInv, TypeOK
<1>2. QED
  BY <1>1 DEF LockOwner, Line

(* A step that changes neither the owner nor the queue is not seen.          *)
LEMMA UnseenStep ==
  ASSUME IInv, queue' = queue,
         \A u \in Threads : pc'[u] \in OwnerPcs <=> pc[u] \in OwnerPcs
  PROVE  LockOwner' = LockOwner /\ Line' = Line
<1>1. queue # <<>> => queue[1] \in Threads
  BY DEF IInv, TypeOK
<1>2. Line' = Line
  BY <1>1 DEF Line
<1>3. CASE \A u \in Threads : pc[u] \notin OwnerPcs
  BY <1>2, <1>3 DEF LockOwner
<1>4. ASSUME NEW t \in Threads, pc[t] \in OwnerPcs PROVE LockOwner' = LockOwner
  <2>1. \A u \in Threads : pc'[u] \in OwnerPcs => u = t
    BY <1>4, OwnerIsFirst
  <2>2. LockOwner' = t
    BY <1>4, <2>1 DEF LockOwner
  <2>3. QED
    BY <1>4, <2>2, ViewWithOwner
<1>5. QED
  BY <1>2, <1>3, <1>4

(* The xchg of an empty queue takes the lock; any other joins the line.      *)
LEMMA SwapTakesOrJoins ==
  ASSUME IInv, NEW t \in Threads, Swap(t)
  PROVE  Fifo!Take(t) \/ Fifo!Join(t)
<1> USE MCSNoneAssumption
<1>1. /\ queue \in Seq(Threads) /\ queue' = Append(queue, t)
      /\ lock = IF queue = <<>> THEN None ELSE queue[Len(queue)]
      /\ pc[t] = "swap" /\ pc[t] \notin OwnerPcs /\ pc[t] \notin QueuePcs
  BY DEF IInv, TypeOK, Swap, Goto, QueueIsTheCallers, OwnerPcs, QueuePcs
<1>2. \A i \in 1..Len(queue) : queue[i] \in Threads /\ queue[i] # t
  BY <1>1 DEF IInv, QueueIsTheCallers, Idx
<1>3. \A u \in Threads :
        pc'[u] = IF u = t THEN IF lock = None THEN "cs" ELSE "link" ELSE pc[u]
  BY DEF IInv, TypeOK, Swap, Goto
<1>4. CASE queue = <<>>
  <2>1. \A u \in Threads : pc[u] \notin OwnerPcs
    BY <1>4, OwnerIsFirst
  <2>2. LockOwner = None /\ Line = <<>>
    BY <1>4, <2>1, ViewWithoutOwner
  <2>3. pc'[t] \in OwnerPcs /\ \A u \in Threads : pc'[u] \in OwnerPcs => u = t
    BY <1>1, <1>3, <1>4, <2>1 DEF OwnerPcs
  <2>4. LockOwner' = t
    BY <2>3 DEF LockOwner
  <2>5. queue' # <<>> /\ queue'[1] = t /\ Tail(queue') = <<>>
    BY <1>1, <1>4
  <2>6. Line' = <<>>
    BY <2>3, <2>5 DEF Line
  <2>7. Fifo!Out(t)
    BY <2>2 DEF Fifo!Out, Fifo!Range
  <2>8. QED
    BY <2>2, <2>4, <2>6, <2>7 DEF Fifo!Take
<1>5. CASE queue # <<>>
  <2>1. lock # None /\ 1 \in 1..Len(queue)
    BY <1>1, <1>2, <1>5
  <2>2. \A u \in Threads : pc'[u] \in OwnerPcs <=> pc[u] \in OwnerPcs
    BY <1>1, <1>3, <2>1 DEF OwnerPcs
  <2>3. LockOwner' = LockOwner
    <3>1. CASE \A u \in Threads : pc[u] \notin OwnerPcs
      BY <2>2, <3>1 DEF LockOwner
    <3>2. ASSUME NEW u \in Threads, pc[u] \in OwnerPcs
          PROVE  LockOwner' = LockOwner
      <4>1. \A v \in Threads : pc'[v] \in OwnerPcs => v = u
        BY <2>2, <3>2, OwnerIsFirst
      <4>2. LockOwner' = u
        BY <2>2, <3>2, <4>1 DEF LockOwner
      <4>3. QED
        BY <3>2, <4>2, ViewWithOwner
    <3>3. QED
      BY <3>1, <3>2
  <2>4. queue' # <<>> /\ queue'[1] = queue[1] /\ queue[1] \in Threads
    BY <1>1, <1>2, <1>5, <2>1
  <2>5. Tail(queue') = Append(Tail(queue), t)
    BY <1>1, <1>5
  <2>6. Line' = Append(Line, t)
    BY <1>1, <1>5, <2>2, <2>4, <2>5 DEF Line
  <2>7. \A i \in DOMAIN Line : Line[i] # t
    <3>1. CASE Line = queue
      BY <1>1, <1>2, <3>1
    <3>2. CASE Line = Tail(queue)
      BY <1>1, <1>2, <1>5, <3>2
    <3>3. QED
      BY <3>1, <3>2 DEF Line
  <2>8. t # LockOwner
    <3>1. CASE \A u \in Threads : pc[u] \notin OwnerPcs
      BY <3>1 DEF LockOwner
    <3>2. ASSUME NEW u \in Threads, pc[u] \in OwnerPcs PROVE t # LockOwner
      BY <1>1, <3>2, ViewWithOwner
    <3>3. QED
      BY <3>1, <3>2
  <2>9. Fifo!Out(t)
    BY <2>7, <2>8 DEF Fifo!Out, Fifo!Range
  <2>10. QED
    BY <2>3, <2>6, <2>9 DEF Fifo!Join
<1>6. QED
  BY <1>4, <1>5

(* Who finds its node's locked set is at the front of the line.              *)
LEMMA WaitIsAGrant ==
  ASSUME IInv, NEW t \in Threads, Wait(t)
  PROVE  Fifo!GrantFront
<1>1. /\ pc[t] = "wait" /\ nodeLocked[t] = 1 /\ queue' = queue
      /\ \A u \in Threads : pc'[u] = IF u = t THEN "cs" ELSE pc[u]
  BY DEF IInv, TypeOK, Wait, Goto
<1>2. queue # <<>> /\ queue[1] = t
  BY <1>1, GoersAreFirst DEF IInv, QueuePcs
<1>3. \A u \in Threads : pc[u] \notin OwnerPcs
  BY <1>1, <1>2, OwnerIsFirst DEF OwnerPcs
<1>4. LockOwner = None /\ Line = queue
  BY <1>3, ViewWithoutOwner
<1>5. pc'[t] \in OwnerPcs /\ \A u \in Threads : pc'[u] \in OwnerPcs => u = t
  BY <1>1, <1>3 DEF OwnerPcs
<1>6. LockOwner' = t
  BY <1>5 DEF LockOwner
<1>7. Line' = Tail(queue)
  BY <1>1, <1>2, <1>5 DEF Line
<1>8. Head(queue) = t
  BY <1>2 DEF IInv, TypeOK
<1>9. QED
  BY <1>2, <1>4, <1>6, <1>7, <1>8 DEF Fifo!GrantFront

(* The successful cmpxchg and the store that passes the lock release it.     *)
LEMMA LeavingIsARelease ==
  ASSUME IInv, NEW t \in Threads, Pass(t) \/ (Cas(t) /\ lock = t)
  PROVE  Fifo!Release
<1> USE MCSNoneAssumption
<1>0. TypeOK /\ Chain /\ LocalsAreGood
  BY DEF IInv, Chain
<1>1. /\ pc[t] \in OwnerPcs /\ queue' = Tail(queue)
      /\ \A u \in Threads : pc'[u] = IF u = t THEN "idle" ELSE pc[u]
  BY <1>0 DEF TypeOK, Pass, Cas, Goto, OwnerPcs
<1>2. LockOwner = t /\ Line = Tail(queue)
  BY <1>1, ViewWithOwner
<1>3. \A u \in Threads : pc'[u] \notin OwnerPcs
  BY <1>1, OwnerIsFirst DEF OwnerPcs
<1>4. LockOwner' = None
  BY <1>3 DEF LockOwner
<1>5. queue' # <<>> => queue'[1] \in Threads
  <2>1. TypeOK'
    BY <1>0, TypesAreKept DEF Locking, Unlocking
  <2>2. QED
    BY <2>1 DEF TypeOK
<1>6. Line' = queue'
  BY <1>3, <1>5 DEF Line
<1>7. QED
  BY <1>1, <1>2, <1>4, <1>6 DEF Fifo!Release

LEMMA InitIsFifo == Init => Fifo!Init
BY DEF Init, Fifo!Init, LockOwner, Line, OwnerPcs

LEMMA NextIsFifo == IInv /\ [Next]_vars => [Fifo!Next]_(Fifo!vars)
<1> SUFFICES ASSUME IInv, [Next]_vars
             PROVE  Fifo!Next \/ (LockOwner' = LockOwner /\ Line' = Line)
  BY DEF Fifo!vars
<1>1. CASE Next
  <2>1. PICK t \in Threads : InitNode(t) \/ Locking(t) \/ Unlocking(t)
    BY <1>1 DEF Next
  <2>2. CASE Swap(t)
    BY <2>2, SwapTakesOrJoins DEF Fifo!Next
  <2>3. CASE Wait(t)
    BY <2>3, WaitIsAGrant DEF Fifo!Next
  <2>4. CASE Pass(t) \/ (Cas(t) /\ lock = t)
    BY <2>4, LeavingIsARelease DEF Fifo!Next
  <2>5. CASE \/ InitNode(t) \/ Link(t) \/ ReadNext(t) \/ WaitNext(t)
             \/ Cas(t) /\ lock # t
    <3>1. queue' = queue
      BY <2>5 DEF InitNode, Link, ReadNext, WaitNext, Cas
    <3>2. \A u \in Threads : pc'[u] \in OwnerPcs <=> pc[u] \in OwnerPcs
      BY <2>5 DEF IInv, TypeOK, InitNode, Link, ReadNext, WaitNext, Cas, Goto,
         OwnerPcs
    <3>3. QED
      BY <3>1, <3>2, UnseenStep
  <2>6. QED
    BY <2>1, <2>2, <2>3, <2>4, <2>5 DEF Locking, Unlocking
<1>2. CASE UNCHANGED vars
  BY <1>2 DEF vars, LockOwner, Line
<1>3. QED
  BY <1>1, <1>2

(* mcs_spin_lock and mcs_spin_unlock implement a first-come, first-served    *)
(* lock, for any set of threads.                                             *)
THEOREM Implements == Spec => FifoSafety
BY InitIsFifo, NextIsFifo, InductiveInvariant, PTL DEF Spec, FifoSafety
===============================================================================
