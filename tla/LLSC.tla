--------------------------------- MODULE LLSC ---------------------------------
(*****************************************************************************)
(* qspinlock/include/atomic: how the atomic operations are built from        *)
(* arm64 instructions, one action per instruction that touches memory.       *)
(*                                                                           *)
(* test-llsc loops over load-exclusive/store-exclusive (atomic_ll_sc.h and   *)
(* the xchg of cmpxchg.h), test-lse has an instruction for each operation    *)
(* (atomic_lse.h); `lse' says which build runs.  Both wait for a change of   *)
(* the word with ldxr and wfe (__cmpwait, smp_cond_load).                    *)
(*                                                                           *)
(* The CPU is external: a store-exclusive succeeds only while the CPU's      *)
(* monitor is armed; a store to the word by another CPU, or an interrupt,    *)
(* disarms it and sets the CPU's event register; wfe waits for that register *)
(* and clears it.  The monitor covers the whole word, so a store to any of   *)
(* its bytes counts.                                                         *)
(*****************************************************************************)
CONSTANTS Cpus, Bits, Calls, None,
          Plus, Minus, Neg      (* add, sub and neg on a word                *)

VARIABLES lse,          (* CONFIG_ARM64_LSE_ATOMICS                          *)
          word, call, ret,
          pc,           (* where each CPU is                                 *)
          reg,          (* the value it loaded last                          *)
          monitor,      (* its exclusive monitor is armed                    *)
          event         (* its event register                                *)

cpu  == <<monitor, event>>
vars == <<lse, word, call, ret, pc, reg, cpu>>

Atomic == INSTANCE AtomicWord

ASSUME NoneAssumption  == \A x \in Calls \union SUBSET Bits : x # None
ASSUME CallsAssumption ==
  \A o \in Calls :
    /\ o \in Atomic!Call /\ o.arg \subseteq o.field
    /\ o.kind \in Atomic!Sums => o.field = Bits
ASSUME SumsAssumption ==
  /\ Plus \in [SUBSET Bits -> [SUBSET Bits -> SUBSET Bits]]
  /\ Minus \in [SUBSET Bits -> [SUBSET Bits -> SUBSET Bits]]
  /\ Neg \in [SUBSET Bits -> SUBSET Bits]
  /\ \A w, x \in SUBSET Bits : Minus[w][x] = Plus[w][Neg[x]]

Goto(c, from, to) == pc[c] = from /\ pc' = [pc EXCEPT ![c] = to]

Init ==
  /\ Atomic!Init
  /\ lse \in BOOLEAN
  /\ pc      = [c \in Cpus |-> "ready"]
  /\ reg     = [c \in Cpus |-> {}]
  /\ monitor = [c \in Cpus |-> FALSE]
  /\ event   = [c \in Cpus |-> FALSE]

(* A store by CPU c: every other armed monitor is disarmed, with an event.   *)
Write(c, w) ==
  /\ word' = w
  /\ monitor' = [d \in Cpus |-> FALSE]
  /\ event' = [d \in Cpus |-> event[d] \/ (d # c /\ monitor[d])]

(* The call is over with result r.                                           *)
Finish(c, r) ==
  /\ ret'  = [ret EXCEPT ![c] = r]
  /\ call' = [call EXCEPT ![c] = None]
  /\ reg'  = [reg EXCEPT ![c] = {}]

-----------------------------------------------------------------------------
FirstStep(o) ==
  CASE o.kind = "store" -> "store"
    [] o.kind = "await" -> "test"
    [] OTHER -> IF lse THEN "lse_op" ELSE "load_ex"

Invoke(c, o) ==
  /\ Atomic!Invoke(c, o)
  /\ Goto(c, "ready", FirstStep(o))
  /\ UNCHANGED <<lse, reg, cpu>>

Return(c) ==
  /\ Atomic!Return(c)
  /\ UNCHANGED <<lse, pc, reg, cpu>>

(* A byte, half-word or word store.                                          *)
Store(c) ==
  /\ Goto(c, "store", "ready")
  /\ Write(c, Atomic!New(call[c], word))
  /\ Finish(c, {})
  /\ UNCHANGED lse

(* Mutant: ldclr without the mvn before it.                                  *)
LseNewNoMvn(o, w) ==
  IF o.kind = "fetch_and" THEN w \ o.arg ELSE Atomic!New(o, w)

(* There is no atomic and: it is ldclr of the complement.  Nor an atomic     *)
(* sub: it is ldadd of the negative.                                         *)
LseNew(o, w) ==
  IF o.kind = "fetch_and" THEN w \ (o.field \ o.arg)
  ELSE IF o.kind \in {"fetch_sub", "sub_return"} THEN Plus[w][Neg[o.arg]]
  ELSE Atomic!New(o, w)

(* All instructions give the old value; a sum to be returned is added up     *)
(* once more in the register.                                                *)
LseResult(o, w) ==
  IF o.kind \in Atomic!ReturnsSum
  THEN Plus[Atomic!Read(o, w)]
           [IF o.kind = "sub_return" THEN Neg[o.arg] ELSE o.arg]
  ELSE Atomic!Read(o, w)

(* swp, cas, ldset, ldclr, ldeor, ldadd                                      *)
LseOp(c) ==
  /\ Goto(c, "lse_op", "ready")
  /\ Write(c, LseNew(call[c], word))
  /\ Finish(c, LseResult(call[c], word))
  /\ UNCHANGED lse

(* A cmpxchg that finds another value branches past the store-exclusive.     *)
Mismatch(c) ==
  call[c].kind = "cmpxchg" /\ Atomic!Read(call[c], word) \notin call[c].goal

(* Mutant: a load that is not exclusive.                                     *)
LoadPlain(c) ==
  \/ /\ Goto(c, "load_ex", "store_ex")
     /\ ~Mismatch(c)
     /\ reg' = [reg EXCEPT ![c] = Atomic!Read(call[c], word)]
     /\ UNCHANGED <<lse, word, call, ret, cpu>>
  \/ /\ Goto(c, "load_ex", "ready")
     /\ Mismatch(c)
     /\ Finish(c, Atomic!Read(call[c], word))
     /\ UNCHANGED <<lse, word, cpu>>

LoadEx(c) ==
  /\ \/ /\ Goto(c, "load_ex", "store_ex")
        /\ ~Mismatch(c)
        /\ reg' = [reg EXCEPT ![c] = Atomic!Read(call[c], word)]
        /\ UNCHANGED <<call, ret>>
     \/ /\ Goto(c, "load_ex", "ready")
        /\ Mismatch(c)
        /\ Finish(c, Atomic!Read(call[c], word))
  /\ monitor' = [monitor EXCEPT ![c] = TRUE]
  /\ UNCHANGED <<lse, word, event>>

(* What the store-exclusive writes is computed from the loaded value; the    *)
(* bytes outside the field are not touched.                                  *)
Stored(c) ==
  (word \ call[c].field) \union
    (Atomic!New(call[c], reg[c]) \intersect call[c].field)

StoreEx(c) ==
  \/ /\ monitor[c]
     /\ Goto(c, "store_ex", "ready")
     /\ Write(c, Stored(c))
     /\ Finish(c, Atomic!Result(call[c], reg[c]))
     /\ UNCHANGED lse
  \/ /\ ~monitor[c]
     /\ Goto(c, "store_ex", "load_ex")
     /\ UNCHANGED <<lse, word, call, ret, reg, cpu>>

-----------------------------------------------------------------------------
(* smp_cond_load: test the value just read, or wait until it may be another. *)
TestCond(c) ==
  \/ /\ Goto(c, "test", "ready")
     /\ Atomic!Read(call[c], word) \in call[c].goal
     /\ Finish(c, Atomic!Read(call[c], word))
     /\ UNCHANGED <<lse, word, cpu>>
  \/ /\ Goto(c, "test", "sevl")
     /\ Atomic!Read(call[c], word) \notin call[c].goal
     /\ reg' = [reg EXCEPT ![c] = Atomic!Read(call[c], word)]
     /\ UNCHANGED <<lse, word, call, ret, cpu>>

(* Mutant: no sevl.                                                          *)
SevlMissing(c) ==
  /\ Goto(c, "sevl", "first_wfe")
  /\ UNCHANGED <<lse, word, call, ret, reg, cpu>>

Sevl(c) ==
  /\ Goto(c, "sevl", "first_wfe")
  /\ event' = [event EXCEPT ![c] = TRUE]
  /\ UNCHANGED <<lse, word, call, ret, reg, monitor>>

(* Only there to consume the sevl and whatever event came before the ldxr.   *)
FirstWfe(c) ==
  /\ Goto(c, "first_wfe", "arm") /\ event[c]
  /\ event' = [event EXCEPT ![c] = FALSE]
  /\ UNCHANGED <<lse, word, call, ret, reg, monitor>>

(* Mutant: no comparison after the ldxr.                                     *)
ArmNoCompare(c) ==
  /\ Goto(c, "arm", "second_wfe")
  /\ monitor' = [monitor EXCEPT ![c] = TRUE]
  /\ UNCHANGED <<lse, word, call, ret, reg, event>>

(* ldxr, eor, cbnz: arm the monitor and sleep only on the value that was     *)
(* tested.                                                                   *)
Arm(c) ==
  /\ pc[c] = "arm"
  /\ Goto(c, "arm", IF Atomic!Read(call[c], word) = reg[c]
                    THEN "second_wfe" ELSE "test")
  /\ monitor' = [monitor EXCEPT ![c] = TRUE]
  /\ UNCHANGED <<lse, word, call, ret, reg, event>>

SecondWfe(c) ==
  /\ Goto(c, "second_wfe", "test") /\ event[c]
  /\ event' = [event EXCEPT ![c] = FALSE]
  /\ UNCHANGED <<lse, word, call, ret, reg, monitor>>

(* An exception return disarms the monitor and sets the event register.      *)
Interrupt(c) ==
  /\ monitor' = [monitor EXCEPT ![c] = FALSE]
  /\ event' = [event EXCEPT ![c] = TRUE]
  /\ UNCHANGED <<lse, word, call, ret, pc, reg>>

-----------------------------------------------------------------------------
Instruction(c) ==
  \/ Store(c) \/ LseOp(c) \/ LoadEx(c) \/ StoreEx(c)
  \/ TestCond(c) \/ Sevl(c) \/ FirstWfe(c) \/ Arm(c) \/ SecondWfe(c)

Next == \E c \in Cpus :
  \/ \E o \in Calls : Invoke(c, o)
  \/ Instruction(c) \/ Return(c) \/ Interrupt(c)

(* A CPU goes on executing; nothing has to interrupt it.                     *)
Fairness == \A c \in Cpus : WF_vars(Instruction(c))

Spec == Init /\ [][Next]_vars /\ Fairness

-----------------------------------------------------------------------------
(* Properties                                                                *)

Pcs == {"ready", "store", "lse_op", "load_ex", "store_ex", "test", "sevl",
        "first_wfe", "arm", "second_wfe"}

(* Types; a CPU is in a call exactly while it is not ready.                  *)
TypeOK ==
  /\ lse \in BOOLEAN
  /\ word \in SUBSET Bits
  /\ call \in [Cpus -> Calls \union {None}]
  /\ ret \in [Cpus -> (SUBSET Bits) \union {None}]
  /\ pc \in [Cpus -> Pcs]
  /\ reg \in [Cpus -> SUBSET Bits]
  /\ monitor \in [Cpus -> BOOLEAN]
  /\ event \in [Cpus -> BOOLEAN]
  /\ \A c \in Cpus : pc[c] = "ready" <=> call[c] = None

(* While a reservation stands, the value loaded under it is the word's: this *)
(* is what makes the store-exclusive an atomic update, values that change    *)
(* and change back included.                                                 *)
ReservationIsCurrent ==
  \A c \in Cpus :
    pc[c] = "store_ex" /\ monitor[c] => reg[c] = Atomic!Read(call[c], word)

(* No lost wake-up: a CPU asleep in the second wfe sleeps on the value the   *)
(* word still has and will hear of its next change, unless it is being woken *)
(* already.                                                                  *)
SleeperMissesNothing ==
  \A c \in Cpus :
    pc[c] = "second_wfe" /\ ~event[c] =>
      monitor[c] /\ reg[c] = Atomic!Read(call[c], word)

(* smp_cond_load ends when its condition comes true and stays true, without  *)
(* the help of an interrupt.                                                 *)
ConditionMet(c) == /\ pc[c] # "ready" /\ call[c].kind = "await"
                   /\ Atomic!Read(call[c], word) \in call[c].goal
WaiterNotices == \A c \in Cpus : ConditionMet(c) ~> ~ConditionMet(c)

(* The loops are lock-free: if store-exclusives go on failing, and not       *)
(* because of interrupts, then stores go on succeeding.                      *)
Stores == \E c \in Cpus : (pc[c] \in {"store", "store_ex"}) /\ pc'[c] = "ready"
Fails  == \E c \in Cpus : pc[c] = "store_ex" /\ ~monitor[c] /\ StoreEx(c)
FailuresMeanProgress ==
  []<><<Fails>>_vars =>
    \/ []<><<Stores>>_vars
    \/ []<><<\E c \in Cpus : Interrupt(c)>>_vars

(* Every operation of both builds takes effect in one step, somewhere        *)
(* between its call and its return, with the result of that step.            *)
IsAtomic == Atomic!Spec
===============================================================================
