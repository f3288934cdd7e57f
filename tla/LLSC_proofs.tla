----------------------------- MODULE LLSC_proofs -----------------------------
(*****************************************************************************)
(* Both builds of the atomic operations implement AtomicWord, and no CPU     *)
(* misses a wake-up, for any number of CPUs, any word and any calls.         *)
(*****************************************************************************)
EXTENDS LLSC, TLAPS

(* Each CPU is at an instruction of the call it is in, and a store-exclusive *)
(* is reached only by a cmpxchg whose comparison succeeded.                  *)
CallFitsPc ==
  \A c \in Cpus :
    /\ pc[c] = "store" => call[c].kind = "store"
    /\ pc[c] \in {"lse_op", "load_ex", "store_ex"} =>
         call[c].kind \in Atomic!Rmw
    /\ pc[c] \in {"test", "sevl", "first_wfe", "arm", "second_wfe"} =>
         call[c].kind = "await"
    /\ pc[c] = "store_ex" /\ call[c].kind = "cmpxchg" => reg[c] \in call[c].goal

IInv == TypeOK /\ CallFitsPc /\ ReservationIsCurrent /\ SleeperMissesNothing

(* The word after a call is a word, and so is its result.                    *)
LEMMA NewIsWord ==
  ASSUME NEW o \in Calls, NEW w \in SUBSET Bits
  PROVE  /\ Atomic!New(o, w) \in SUBSET Bits
         /\ Atomic!Read(o, w) \in SUBSET Bits
         /\ Atomic!Result(o, w) \in SUBSET Bits
<1>1. o.arg \in SUBSET Bits /\ o.field \in SUBSET Bits
  BY CallsAssumption DEF Atomic!Call, Atomic!Kinds
<1>2. Plus[w][o.arg] \in SUBSET Bits /\ Minus[w][o.arg] \in SUBSET Bits
  BY <1>1, SumsAssumption
<1>3. Atomic!New(o, w) \in SUBSET Bits
  BY <1>1, <1>2 DEF Atomic!New, Atomic!Writes, Atomic!Read
<1>4. Atomic!Read(o, w) \in SUBSET Bits
  BY DEF Atomic!Read
<1>5. QED
  BY <1>3, <1>4 DEF Atomic!Result

(* What the store-exclusive writes is the effect of the call on the whole    *)
(* word, if the value loaded is still that of its field.                     *)
LEMMA StoreExWritesNew ==
  ASSUME NEW o \in Calls, NEW w \in SUBSET Bits, o.kind \in Atomic!Rmw,
         NEW r, r = Atomic!Read(o, w), o.kind = "cmpxchg" => r \in o.goal
  PROVE  /\ (w \ o.field) \union (Atomic!New(o, r) \intersect o.field)
              = Atomic!New(o, w)
         /\ Atomic!Result(o, r) = Atomic!Result(o, w)
<1>1. o.arg \subseteq o.field
  BY CallsAssumption
<1>2. Atomic!Read(o, r) = r
  BY DEF Atomic!Read
<1>3. CASE o.kind \in Atomic!Sums
  <2>1. o.field = Bits
    BY <1>3, CallsAssumption
  <2>2. r = w
    BY <2>1 DEF Atomic!Read
  <2>3. Atomic!New(o, w) \in SUBSET Bits
    BY NewIsWord
  <2>4. QED
    BY <2>1, <2>2, <2>3
<1>4. CASE o.kind \notin Atomic!Sums
  <2>1. (w \ o.field) \union (Atomic!New(o, r) \intersect o.field)
          = Atomic!New(o, w)
    BY <1>1, <1>2, <1>4
       DEF Atomic!New, Atomic!Writes, Atomic!Rmw, Atomic!Sums,
           Atomic!ReturnsSum, Atomic!Read
  <2>2. Atomic!Result(o, r) = Atomic!Result(o, w)
    BY <1>2, <1>4
       DEF Atomic!Result, Atomic!Rmw, Atomic!Sums, Atomic!ReturnsSum
  <2>3. QED
    BY <2>1, <2>2
<1>5. QED
  BY <1>3, <1>4

(* ldclr of the complement is and, ldadd of the negative is sub, and the     *)
(* register holds the sum.                                                   *)
LEMMA LseWritesNew ==
  ASSUME NEW o \in Calls, NEW w \in SUBSET Bits
  PROVE  /\ LseNew(o, w) = Atomic!New(o, w)
         /\ o.kind \in Atomic!Rmw => LseResult(o, w) = Atomic!Result(o, w)
<1>1. o.arg \subseteq o.field /\ o.arg \in SUBSET Bits
  BY CallsAssumption DEF Atomic!Call
<1>2. Minus[w][o.arg] = Plus[w][Neg[o.arg]]
  BY <1>1, SumsAssumption
<1>3. LseNew(o, w) = Atomic!New(o, w)
  BY <1>1, <1>2 DEF LseNew, Atomic!New, Atomic!Writes
<1>4. ASSUME o.kind \in Atomic!ReturnsSum
      PROVE  LseResult(o, w) = Atomic!Result(o, w)
  <2>1. Atomic!Read(o, w) = w
    BY <1>4, CallsAssumption DEF Atomic!Read, Atomic!Sums
  <2>2. QED
    BY <1>2, <1>4, <2>1
       DEF LseResult, Atomic!Result, Atomic!New, Atomic!ReturnsSum
<1>5. ASSUME o.kind \in Atomic!Rmw, o.kind \notin Atomic!ReturnsSum
      PROVE  LseResult(o, w) = Atomic!Result(o, w)
  BY <1>5 DEF LseResult, Atomic!Result, Atomic!Rmw, Atomic!Sums,
              Atomic!ReturnsSum
<1>6. QED
  BY <1>3, <1>4, <1>5

-----------------------------------------------------------------------------
LEMMA InitIInv == Init => IInv
BY NoneAssumption
   DEF Init, Atomic!Init, IInv, TypeOK, CallFitsPc, ReservationIsCurrent,
       SleeperMissesNothing, Pcs

(* A finished call leaves the CPU ready with a result; the others go on.     *)
LEMMA FinishTypes ==
  ASSUME TypeOK, NEW c \in Cpus, NEW r \in SUBSET Bits, Finish(c, r),
         pc[c] # "ready", pc' = [pc EXCEPT ![c] = "ready"]
  PROVE  /\ call' \in [Cpus -> Calls \union {None}]
         /\ ret' \in [Cpus -> (SUBSET Bits) \union {None}]
         /\ pc' \in [Cpus -> Pcs]
         /\ reg' \in [Cpus -> SUBSET Bits]
         /\ \A d \in Cpus : pc'[d] = "ready" <=> call'[d] = None
BY DEF TypeOK, Finish, Pcs

(* A CPU's store that changes the word leaves no reservation standing and no *)
(* other CPU asleep without an event.                                        *)
LEMMA WriteWakes ==
  ASSUME IInv, NEW c \in Cpus, NEW w \in SUBSET Bits, Write(c, w),
         pc' = [pc EXCEPT ![c] = "ready"],
         call' = [call EXCEPT ![c] = None], reg' = [reg EXCEPT ![c] = {}]
  PROVE  /\ word' \in SUBSET Bits
         /\ monitor' \in [Cpus -> BOOLEAN] /\ event' \in [Cpus -> BOOLEAN]
         /\ CallFitsPc' /\ ReservationIsCurrent' /\ SleeperMissesNothing'
<1> USE DEF IInv, TypeOK
<1>1. /\ \A d \in Cpus : monitor'[d] = FALSE
      /\ \A d \in Cpus : event'[d] = (event[d] \/ (d # c /\ monitor[d]))
      /\ pc'[c] = "ready"
      /\ \A d \in Cpus : d # c => /\ pc'[d] = pc[d] /\ call'[d] = call[d]
                                   /\ reg'[d] = reg[d]
  BY DEF Write
<1>2. word' \in SUBSET Bits
  BY DEF Write
<1>3. monitor' \in [Cpus -> BOOLEAN] /\ event' \in [Cpus -> BOOLEAN]
  BY DEF Write
<1>4. CallFitsPc'
  BY <1>1 DEF CallFitsPc
<1>5. ReservationIsCurrent'
  BY <1>1 DEF ReservationIsCurrent
<1>6. SleeperMissesNothing'
  BY <1>1 DEF SleeperMissesNothing
<1>7. QED
  BY <1>2, <1>3, <1>4, <1>5, <1>6

LEMMA NextIInv == IInv /\ [Next]_vars => IInv'
<1> SUFFICES ASSUME IInv, [Next]_vars PROVE IInv'
  OBVIOUS
<1>1. \A d \in Cpus : pc[d] # "ready" =>
        call[d] \in Calls /\ Atomic!Read(call[d], word) \in SUBSET Bits
  BY NewIsWord DEF IInv, TypeOK
<1>2. ASSUME NEW c \in Cpus, NEW o \in Calls, Invoke(c, o)
      PROVE  IInv'
  <2>1. /\ pc[c] = "ready" /\ o.kind \in Atomic!Kinds
        /\ pc' = [pc EXCEPT ![c] = FirstStep(o)]
        /\ call' = [call EXCEPT ![c] = o]
        /\ UNCHANGED <<lse, word, ret, reg, monitor, event>>
    BY <1>2, CallsAssumption
       DEF Invoke, Goto, cpu, Atomic!Invoke, Atomic!Call
  <2>2. TypeOK'
    BY <2>1, NoneAssumption DEF IInv, TypeOK, FirstStep, Pcs
  <2>3. CallFitsPc'
    BY <2>1 DEF IInv, TypeOK, CallFitsPc, FirstStep, Atomic!Kinds,
              Atomic!Rmw, Atomic!Sums, Atomic!ReturnsSum
  <2>4. ReservationIsCurrent'
    BY <2>1 DEF IInv, TypeOK, ReservationIsCurrent, FirstStep
  <2>5. SleeperMissesNothing'
    BY <2>1 DEF IInv, TypeOK, SleeperMissesNothing, FirstStep
  <2>6. QED
    BY <2>2, <2>3, <2>4, <2>5 DEF IInv
<1>3. ASSUME NEW c \in Cpus, Return(c)
      PROVE  IInv'
  BY <1>3 DEF IInv, TypeOK, CallFitsPc, ReservationIsCurrent,
              SleeperMissesNothing, Return, cpu, Atomic!Return
<1>4. ASSUME NEW c \in Cpus, Store(c)
      PROVE  IInv'
  <2> DEFINE w == Atomic!New(call[c], word)
             r == {}
  <2>1. w \in SUBSET Bits /\ r \in SUBSET Bits
    BY <1>1, <1>4, NewIsWord DEF Store, Goto, IInv, TypeOK
  <2>2. /\ Write(c, w) /\ Finish(c, r) /\ lse' = lse
        /\ pc[c] # "ready" /\ pc' = [pc EXCEPT ![c] = "ready"]
    BY <1>4 DEF Store, Goto
  <2>3. QED
    BY <2>1, <2>2, FinishTypes, WriteWakes DEF IInv, TypeOK, Finish
<1>5. ASSUME NEW c \in Cpus, LseOp(c)
      PROVE  IInv'
  <2> DEFINE w == LseNew(call[c], word)
             r == LseResult(call[c], word)
  <2>1. w \in SUBSET Bits /\ r \in SUBSET Bits
    BY <1>1, <1>5, NewIsWord, LseWritesNew
       DEF LseOp, Goto, IInv, TypeOK, CallFitsPc
  <2>2. /\ Write(c, w) /\ Finish(c, r) /\ lse' = lse
        /\ pc[c] # "ready" /\ pc' = [pc EXCEPT ![c] = "ready"]
    BY <1>5 DEF LseOp, Goto
  <2>3. QED
    BY <2>1, <2>2, FinishTypes, WriteWakes DEF IInv, TypeOK, Finish
<1>6. ASSUME NEW c \in Cpus, LoadEx(c)
      PROVE  IInv'
  <2>1. CASE Mismatch(c)
    <3>1. /\ Finish(c, Atomic!Read(call[c], word)) /\ pc[c] # "ready"
          /\ pc' = [pc EXCEPT ![c] = "ready"]
      BY <1>6, <2>1 DEF LoadEx, Goto
    <3>2. TypeOK'
      BY <1>1, <1>6, <3>1, FinishTypes DEF LoadEx, IInv, TypeOK
    <3>3. CallFitsPc'
      BY <1>6, <3>1 DEF LoadEx, Finish, IInv, TypeOK, CallFitsPc
    <3>4. ReservationIsCurrent'
      BY <1>6, <3>1 DEF LoadEx, Finish, IInv, TypeOK, ReservationIsCurrent
    <3>5. SleeperMissesNothing'
      BY <1>6, <3>1 DEF LoadEx, Finish, IInv, TypeOK, SleeperMissesNothing
    <3>6. QED
      BY <3>2, <3>3, <3>4, <3>5 DEF IInv
  <2>2. CASE ~Mismatch(c)
    <3>1. /\ pc[c] = "load_ex" /\ pc' = [pc EXCEPT ![c] = "store_ex"]
          /\ reg' = [reg EXCEPT ![c] = Atomic!Read(call[c], word)]
          /\ monitor' = [monitor EXCEPT ![c] = TRUE]
          /\ UNCHANGED <<lse, word, event, call, ret>>
      BY <1>6, <2>2 DEF LoadEx, Goto
    <3>2. TypeOK'
      BY <1>1, <3>1 DEF IInv, TypeOK, Pcs
    <3>3. CallFitsPc'
      BY <2>2, <3>1 DEF IInv, TypeOK, CallFitsPc, Mismatch
    <3>4. ReservationIsCurrent'
      BY <3>1 DEF IInv, TypeOK, ReservationIsCurrent
    <3>5. SleeperMissesNothing'
      BY <3>1 DEF IInv, TypeOK, SleeperMissesNothing
    <3>6. QED
      BY <3>2, <3>3, <3>4, <3>5 DEF IInv
  <2>3. QED
    BY <2>1, <2>2
<1>7. ASSUME NEW c \in Cpus, StoreEx(c)
      PROVE  IInv'
  <2>1. CASE monitor[c]
    <3> DEFINE w == Stored(c)
               r == Atomic!Result(call[c], reg[c])
    <3>1. /\ Write(c, w) /\ Finish(c, r) /\ lse' = lse
          /\ pc[c] = "store_ex" /\ pc' = [pc EXCEPT ![c] = "ready"]
      BY <1>7, <2>1 DEF StoreEx, Goto
    <3>2. w \in SUBSET Bits /\ r \in SUBSET Bits
      BY <1>1, <3>1, NewIsWord DEF Stored, IInv, TypeOK
    <3>3. QED
      BY <3>1, <3>2, FinishTypes, WriteWakes DEF IInv, TypeOK, Finish
  <2>2. CASE ~monitor[c]
    <3>1. /\ pc[c] = "store_ex" /\ pc' = [pc EXCEPT ![c] = "load_ex"]
          /\ UNCHANGED <<lse, word, call, ret, reg, monitor, event>>
      BY <1>7, <2>2 DEF StoreEx, Goto, cpu
    <3>2. TypeOK'
      BY <3>1 DEF IInv, TypeOK, Pcs
    <3>3. CallFitsPc'
      BY <3>1 DEF IInv, TypeOK, CallFitsPc
    <3>4. ReservationIsCurrent'
      BY <3>1 DEF IInv, TypeOK, ReservationIsCurrent
    <3>5. SleeperMissesNothing'
      BY <3>1 DEF IInv, TypeOK, SleeperMissesNothing
    <3>6. QED
      BY <3>2, <3>3, <3>4, <3>5 DEF IInv
  <2>3. QED
    BY <2>1, <2>2
<1>8. ASSUME NEW c \in Cpus, TestCond(c)
      PROVE  IInv'
  <2>1. CASE pc' = [pc EXCEPT ![c] = "ready"]
    <3>1. /\ Finish(c, Atomic!Read(call[c], word)) /\ pc[c] = "test"
          /\ UNCHANGED <<lse, word, monitor, event>>
      BY <1>8, <2>1 DEF TestCond, Goto, cpu, IInv, TypeOK
    <3>2. TypeOK'
      BY <1>1, <2>1, <3>1, FinishTypes DEF IInv, TypeOK
    <3>3. CallFitsPc'
      BY <2>1, <3>1 DEF Finish, IInv, TypeOK, CallFitsPc
    <3>4. ReservationIsCurrent'
      BY <2>1, <3>1 DEF Finish, IInv, TypeOK, ReservationIsCurrent
    <3>5. SleeperMissesNothing'
      BY <2>1, <3>1 DEF Finish, IInv, TypeOK, SleeperMissesNothing
    <3>6. QED
      BY <3>2, <3>3, <3>4, <3>5 DEF IInv
  <2>2. CASE pc' = [pc EXCEPT ![c] = "sevl"]
    <3>1. /\ pc[c] = "test"
          /\ reg' = [reg EXCEPT ![c] = Atomic!Read(call[c], word)]
          /\ UNCHANGED <<lse, word, call, ret, monitor, event>>
      BY <1>8, <2>2 DEF TestCond, Goto, cpu, IInv, TypeOK
    <3>2. TypeOK'
      BY <1>1, <2>2, <3>1 DEF IInv, TypeOK, Pcs
    <3>3. CallFitsPc'
      BY <2>2, <3>1 DEF IInv, TypeOK, CallFitsPc
    <3>4. ReservationIsCurrent'
      BY <2>2, <3>1 DEF IInv, TypeOK, ReservationIsCurrent
    <3>5. SleeperMissesNothing'
      BY <2>2, <3>1 DEF IInv, TypeOK, SleeperMissesNothing
    <3>6. QED
      BY <3>2, <3>3, <3>4, <3>5 DEF IInv
  <2>3. QED
    BY <1>8, <2>1, <2>2 DEF TestCond, Goto
<1>9. ASSUME NEW c \in Cpus, Sevl(c)
      PROVE  IInv'
  <2>1. TypeOK'
    BY <1>9 DEF IInv, TypeOK, Sevl, Goto, Pcs, cpu
  <2>2. CallFitsPc'
    BY <1>9 DEF IInv, TypeOK, CallFitsPc, Sevl, Goto, cpu
  <2>3. ReservationIsCurrent'
    BY <1>9 DEF IInv, TypeOK, ReservationIsCurrent, Sevl, Goto, cpu
  <2>4. SleeperMissesNothing'
    BY <1>9 DEF IInv, TypeOK, SleeperMissesNothing, Sevl, Goto, cpu
  <2>5. QED
    BY <2>1, <2>2, <2>3, <2>4 DEF IInv
<1>10. ASSUME NEW c \in Cpus, FirstWfe(c)
      PROVE  IInv'
  <2>1. TypeOK'
    BY <1>10 DEF IInv, TypeOK, FirstWfe, Goto, Pcs, cpu
  <2>2. CallFitsPc'
    BY <1>10 DEF IInv, TypeOK, CallFitsPc, FirstWfe, Goto, cpu
  <2>3. ReservationIsCurrent'
    BY <1>10 DEF IInv, TypeOK, ReservationIsCurrent, FirstWfe, Goto, cpu
  <2>4. SleeperMissesNothing'
    BY <1>10 DEF IInv, TypeOK, SleeperMissesNothing, FirstWfe, Goto, cpu
  <2>5. QED
    BY <2>1, <2>2, <2>3, <2>4 DEF IInv
<1>11. ASSUME NEW c \in Cpus, Arm(c)
      PROVE  IInv'
  <2>1. TypeOK'
    BY <1>11 DEF IInv, TypeOK, Arm, Goto, Pcs, cpu
  <2>2. CallFitsPc'
    BY <1>11 DEF IInv, TypeOK, CallFitsPc, Arm, Goto, cpu
  <2>3. ReservationIsCurrent'
    BY <1>11 DEF IInv, TypeOK, ReservationIsCurrent, Arm, Goto, cpu
  <2>4. SleeperMissesNothing'
    BY <1>11 DEF IInv, TypeOK, SleeperMissesNothing, Arm, Goto, cpu
  <2>5. QED
    BY <2>1, <2>2, <2>3, <2>4 DEF IInv
<1>12. ASSUME NEW c \in Cpus, SecondWfe(c)
      PROVE  IInv'
  <2>1. TypeOK'
    BY <1>12 DEF IInv, TypeOK, SecondWfe, Goto, Pcs, cpu
  <2>2. CallFitsPc'
    BY <1>12 DEF IInv, TypeOK, CallFitsPc, SecondWfe, Goto, cpu
  <2>3. ReservationIsCurrent'
    BY <1>12 DEF IInv, TypeOK, ReservationIsCurrent, SecondWfe, Goto, cpu
  <2>4. SleeperMissesNothing'
    BY <1>12 DEF IInv, TypeOK, SleeperMissesNothing, SecondWfe, Goto, cpu
  <2>5. QED
    BY <2>1, <2>2, <2>3, <2>4 DEF IInv
<1>13. ASSUME NEW c \in Cpus, Interrupt(c)
      PROVE  IInv'
  <2>1. TypeOK'
    BY <1>13 DEF IInv, TypeOK, Interrupt, Goto, Pcs, cpu
  <2>2. CallFitsPc'
    BY <1>13 DEF IInv, TypeOK, CallFitsPc, Interrupt, Goto, cpu
  <2>3. ReservationIsCurrent'
    BY <1>13 DEF IInv, TypeOK, ReservationIsCurrent, Interrupt, Goto, cpu
  <2>4. SleeperMissesNothing'
    BY <1>13 DEF IInv, TypeOK, SleeperMissesNothing, Interrupt, Goto, cpu
  <2>5. QED
    BY <2>1, <2>2, <2>3, <2>4 DEF IInv
<1>14. CASE UNCHANGED vars
  BY <1>14 DEF vars, cpu, IInv, TypeOK, CallFitsPc, ReservationIsCurrent,
               SleeperMissesNothing
<1>15. QED
  BY <1>2, <1>3, <1>4, <1>5, <1>6, <1>7, <1>8, <1>9, <1>10, <1>11, <1>12,
     <1>13, <1>14 DEF Next, Instruction

(* IInv is inductive, so it holds throughout.                                *)
THEOREM InductiveInvariant == Spec => []IInv
BY InitIInv, NextIInv, PTL DEF Spec

(* Every variable keeps its type, and a CPU is in a call exactly while it is *)
(* not ready.                                                                *)
THEOREM TypeCorrect == Spec => []TypeOK
<1>1. IInv => TypeOK
  BY DEF IInv
<1>2. QED
  BY <1>1, InductiveInvariant, PTL

(* No lost wake-up in __cmpwait, whatever the other CPUs do to the word.     *)
THEOREM NoLostWakeup == Spec => []SleeperMissesNothing
<1>1. IInv => SleeperMissesNothing
  BY DEF IInv
<1>2. QED
  BY <1>1, InductiveInvariant, PTL

-----------------------------------------------------------------------------
(* The instruction at which a call takes effect is an atomic step of         *)
(* AtomicWord; every other one changes nothing it speaks of.                 *)
LEMMA StepRefines == IInv /\ [Next]_vars => [Atomic!Next]_(Atomic!vars)
<1> SUFFICES ASSUME IInv, [Next]_vars PROVE [Atomic!Next]_(Atomic!vars)
  OBVIOUS
<1> USE DEF Atomic!vars
<1>1. \A d \in Cpus : pc[d] # "ready" =>
        call[d] \in Calls /\ call[d] # None /\ word \in SUBSET Bits
  BY NoneAssumption DEF IInv, TypeOK
<1>2. ASSUME NEW c \in Cpus, NEW o \in Calls, Invoke(c, o)
      PROVE  Atomic!Next
  BY <1>2 DEF Invoke, Atomic!Next
<1>3. ASSUME NEW c \in Cpus, Return(c)
      PROVE  Atomic!Next
  BY <1>3 DEF Return, Atomic!Next
<1>4. ASSUME NEW c \in Cpus, pc[c] # "ready", Atomic!MayEnd(call[c], word),
             word' = Atomic!New(call[c], word),
             Finish(c, Atomic!Result(call[c], word))
      PROVE  Atomic!Next
  BY <1>1, <1>4 DEF Finish, Atomic!TakeEffect, Atomic!Next
<1>5. ASSUME NEW c \in Cpus, Store(c)
      PROVE  Atomic!Next
  <2>1. pc[c] = "store" /\ call[c].kind = "store"
    BY <1>5 DEF Store, Goto, IInv, CallFitsPc
  <2>2. QED
    BY <1>4, <1>5, <2>1 DEF Store, Write, Atomic!MayEnd, Atomic!Result
<1>6. ASSUME NEW c \in Cpus, LseOp(c)
      PROVE  Atomic!Next
  <2>1. pc[c] = "lse_op" /\ call[c].kind \in Atomic!Rmw
    BY <1>6 DEF LseOp, Goto, IInv, CallFitsPc
  <2>2. Atomic!MayEnd(call[c], word)
    BY <2>1 DEF Atomic!MayEnd, Atomic!Rmw, Atomic!Sums, Atomic!ReturnsSum
  <2>3. Atomic!Result(call[c], word) = LseResult(call[c], word)
    BY <1>1, <1>6, <2>1, LseWritesNew
  <2>4. word' = Atomic!New(call[c], word)
    BY <1>1, <1>6, <2>1, LseWritesNew DEF LseOp, Write
  <2>5. QED
    BY <1>4, <1>6, <2>1, <2>2, <2>3, <2>4 DEF LseOp
<1>7. ASSUME NEW c \in Cpus, LoadEx(c)
      PROVE  [Atomic!Next]_(Atomic!vars)
  <2>1. CASE Mismatch(c)
    <3>1. /\ pc[c] = "load_ex" /\ word' = word
          /\ Finish(c, Atomic!Read(call[c], word))
      BY <1>7, <2>1 DEF LoadEx, Goto
    <3>2. /\ Atomic!New(call[c], word) = word
          /\ Atomic!Result(call[c], word) = Atomic!Read(call[c], word)
          /\ Atomic!MayEnd(call[c], word)
      BY <2>1 DEF Mismatch, Atomic!New, Atomic!Writes, Atomic!Result,
                  Atomic!ReturnsSum, Atomic!MayEnd
    <3>3. QED
      BY <1>4, <3>1, <3>2
  <2>2. CASE ~Mismatch(c)
    BY <1>7, <2>2 DEF LoadEx
  <2>3. QED
    BY <2>1, <2>2
<1>8. ASSUME NEW c \in Cpus, StoreEx(c)
      PROVE  [Atomic!Next]_(Atomic!vars)
  <2>1. CASE monitor[c]
    <3>1. /\ pc[c] = "store_ex" /\ word' = Stored(c)
          /\ Finish(c, Atomic!Result(call[c], reg[c]))
          /\ call[c].kind \in Atomic!Rmw
          /\ call[c].kind = "cmpxchg" => reg[c] \in call[c].goal
      BY <1>8, <2>1 DEF StoreEx, Goto, Write, IInv, CallFitsPc
    <3>2. reg[c] = Atomic!Read(call[c], word)
      BY <2>1, <3>1 DEF IInv, ReservationIsCurrent
    <3>3. word' = Atomic!New(call[c], word)
      BY <1>1, <3>1, <3>2, StoreExWritesNew DEF Stored
    <3>4. /\ Atomic!Result(call[c], word) = Atomic!Result(call[c], reg[c])
          /\ Atomic!MayEnd(call[c], word)
      BY <1>1, <3>1, <3>2, StoreExWritesNew
         DEF Atomic!MayEnd, Atomic!Rmw, Atomic!Sums, Atomic!ReturnsSum
    <3>5. QED
      BY <1>4, <3>1, <3>3, <3>4
  <2>2. CASE ~monitor[c]
    BY <1>8, <2>2 DEF StoreEx
  <2>3. QED
    BY <2>1, <2>2
<1>9. ASSUME NEW c \in Cpus, TestCond(c)
      PROVE  [Atomic!Next]_(Atomic!vars)
  <2>1. CASE Atomic!Read(call[c], word) \in call[c].goal
    <3>1. /\ pc[c] = "test" /\ call[c].kind = "await" /\ word' = word
          /\ Finish(c, Atomic!Read(call[c], word))
      BY <1>9, <2>1 DEF TestCond, Goto, IInv, CallFitsPc
    <3>2. /\ Atomic!New(call[c], word) = word
          /\ Atomic!Result(call[c], word) = Atomic!Read(call[c], word)
          /\ Atomic!MayEnd(call[c], word)
      BY <2>1, <3>1 DEF Atomic!New, Atomic!Writes, Atomic!Result,
                         Atomic!ReturnsSum, Atomic!MayEnd
    <3>3. QED
      BY <1>4, <3>1, <3>2
  <2>2. CASE Atomic!Read(call[c], word) \notin call[c].goal
    BY <1>9, <2>2 DEF TestCond
  <2>3. QED
    BY <2>1, <2>2
<1>10. ASSUME NEW c \in Cpus,
              Sevl(c) \/ FirstWfe(c) \/ Arm(c) \/ SecondWfe(c) \/ Interrupt(c)
       PROVE  UNCHANGED Atomic!vars
  BY <1>10 DEF Sevl, FirstWfe, Arm, SecondWfe, Interrupt
<1>11. CASE UNCHANGED vars
  BY <1>11 DEF vars
<1>12. QED
  BY <1>2, <1>3, <1>5, <1>6, <1>7, <1>8, <1>9, <1>10, <1>11
     DEF Next, Instruction

(* The LL/SC loops, the LSE instructions and the wfe waits implement the     *)
(* atomic operations that the lock is written with.                          *)
THEOREM Implements == Spec => IsAtomic
<1>1. Init => Atomic!Init
  BY DEF Init
<1>2. QED
  BY <1>1, StepRefines, InductiveInvariant, PTL DEF Spec, IsAtomic, Atomic!Spec
===============================================================================
