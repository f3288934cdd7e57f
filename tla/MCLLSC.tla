-------------------------------- MODULE MCLLSC --------------------------------
(* TLC's instance of LLSC: the calls of qspinlock.c on a word of three bits, *)
(* one for each of its fields, and the other operations.                     *)
EXTENDS LLSC, Integers

CONSTANTS locked, pending, tail

MCBits == {locked, pending, tail}

Value(w) == (IF locked \in w THEN 1 ELSE 0) + (IF pending \in w THEN 2 ELSE 0)
              + (IF tail \in w THEN 4 ELSE 0)
Word(n) == CHOOSE w \in SUBSET MCBits : Value(w) = n % 8

MCPlus  == [w \in SUBSET MCBits |->
              [x \in SUBSET MCBits |-> Word(Value(w) + Value(x))]]
MCMinus == [w \in SUBSET MCBits |->
              [x \in SUBSET MCBits |-> Word(Value(w) - Value(x))]]
MCNeg   == [w \in SUBSET MCBits |-> Word(8 - Value(w))]

Do(kind, field, arg, goal) ==
  [kind |-> kind, field |-> field, arg |-> arg, goal |-> goal]

MCCalls ==
  {Do("cmpxchg", MCBits, {locked}, {{}}),           (* lock                  *)
   Do("fetch_or", MCBits, {pending}, {}),           (* set pending           *)
   Do("store", {locked, pending}, {locked}, {}),    (* take over             *)
   Do("store", {locked}, {}, {}),                   (* unlock                *)
   Do("xchg", {tail}, {tail}, {}),                  (* xchg_tail             *)
   Do("await", MCBits, {}, {{}, {tail}}),           (* owner, pending gone   *)
   Do("fetch_and", MCBits, {locked, pending}, {}),
   Do("fetch_andnot", MCBits, {pending}, {}),
   Do("fetch_xor", MCBits, {tail}, {}),
   Do("fetch_sub", MCBits, {locked}, {}),           (* of 1                  *)
   Do("add_return", MCBits, {locked, pending}, {}), (* of 3                  *)
   Do("sub_return", MCBits, {locked}, {})}
===============================================================================
