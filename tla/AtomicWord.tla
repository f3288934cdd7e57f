------------------------------ MODULE AtomicWord ------------------------------
(*****************************************************************************)
(* What the atomic operations of qspinlock/include/atomic promise: each call *)
(* changes the word and takes its result in one indivisible step.            *)
(*                                                                           *)
(* A word is the set of its bits that are 1.  A call says what it does       *)
(* (`kind'), which bytes it accesses (`field'), its operand (`arg'), and for *)
(* a cmpxchg the old value or for a wait the values that end it (`goal').    *)
(* Plus and Minus are the sum and the difference of two words.  The calls    *)
(* without a result (atomic_or, atomic_add, ...) are the fetch calls whose   *)
(* result nobody looks at, and try_cmpxchg is the cmpxchg whose result the   *)
(* caller has already compared with the old value.                           *)
(*****************************************************************************)
CONSTANTS Cpus, Bits, Plus, Minus,
          Calls,        (* the calls that are made                           *)
          None          (* no call, no result: neither a call nor a value    *)

ReturnsSum == {"add_return", "sub_return"}
Sums  == {"fetch_add", "fetch_sub"} \union ReturnsSum
Rmw   == {"fetch_or", "fetch_and", "fetch_andnot", "fetch_xor", "xchg",
          "cmpxchg"} \union Sums
Kinds == Rmw \union {"store", "await"}
Call  == [kind : Kinds, field : SUBSET Bits, arg : SUBSET Bits,
          goal : SUBSET SUBSET Bits]

VARIABLES word,         (* the shared word                                   *)
          call,         (* call[c]: the call CPU c is in, or None            *)
          ret           (* ret[c]: the result it has not returned yet        *)

vars == <<word, call, ret>>

(* The value of the bytes a call accesses, out of the word w.                *)
Read(o, w) == w \intersect o.field

(* The call replaces its field by its operand.                               *)
Writes(o, w) ==
  \/ o.kind \in {"xchg", "store"}
  \/ o.kind = "cmpxchg" /\ Read(o, w) \in o.goal

(* The word after the call; the bytes outside its field keep their value.    *)
New(o, w) ==
  IF o.kind = "fetch_or" THEN w \union o.arg
  ELSE IF o.kind = "fetch_and" THEN (w \ o.field) \union (w \intersect o.arg)
  ELSE IF o.kind = "fetch_andnot" THEN w \ o.arg
  ELSE IF o.kind = "fetch_xor" THEN (w \ o.arg) \union (o.arg \ w)
  ELSE IF o.kind \in {"fetch_add", "add_return"} THEN Plus[w][o.arg]
  ELSE IF o.kind \in {"fetch_sub", "sub_return"} THEN Minus[w][o.arg]
  ELSE IF Writes(o, w) THEN (w \ o.field) \union o.arg
  ELSE w

(* The result of the call, the old value or the sum; a store has none to     *)
(* speak of.                                                                 *)
Result(o, w) == IF o.kind = "store" THEN {}
                ELSE IF o.kind \in ReturnsSum THEN New(o, w)
                ELSE Read(o, w)

(* A wait ends only when the condition holds.                                *)
MayEnd(o, w) == o.kind = "await" => Read(o, w) \in o.goal

Init ==
  /\ word = {}
  /\ call = [c \in Cpus |-> None]
  /\ ret  = [c \in Cpus |-> None]

Invoke(c, o) ==
  /\ call[c] = None /\ ret[c] = None
  /\ call' = [call EXCEPT ![c] = o]
  /\ UNCHANGED <<word, ret>>

TakeEffect(c) ==
  /\ call[c] # None /\ MayEnd(call[c], word)
  /\ word' = New(call[c], word)
  /\ ret'  = [ret EXCEPT ![c] = Result(call[c], word)]
  /\ call' = [call EXCEPT ![c] = None]

Return(c) ==
  /\ ret[c] # None
  /\ ret' = [ret EXCEPT ![c] = None]
  /\ UNCHANGED <<word, call>>

Next == \E c \in Cpus :
  (\E o \in Calls : Invoke(c, o)) \/ TakeEffect(c) \/ Return(c)

Spec == Init /\ [][Next]_vars
===============================================================================
