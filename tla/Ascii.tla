---------------------------------- MODULE Ascii ---------------------------------
(*****************************************************************************)
(* ascii.c and ascii.S: three ways to look for a byte with its high bit set, *)
(* eight, eight (in assembly) or sixteen bytes at a time.                    *)
(*                                                                           *)
(* A buffer is its length and the set of positions, from 0, whose byte has   *)
(* the bit; or-ing bytes together is asking for one such position among      *)
(* those that were read.                                                     *)
(*****************************************************************************)
EXTENDS Integers

(* The positions that n rounds of a loop read, per round a block of size     *)
(* bytes from two pointers.                                                  *)
Read(n, size) ==
  {size * k + b : k \in 0..n - 1, b \in 0..(size \div 2) - 1}
  \cup {size * k + b + size \div 2 : k \in 0..n - 1, b \in 0..(size \div 2) - 1}

(* ascii_u64 from position d: rounds of sixteen while they fit, then bytes.  *)
ascii_u64(high, d, len) ==
  LET rounds == IF len >= 16 THEN len \div 16 ELSE 0
      seen == {d + p : p \in Read(rounds, 16)}
      rest == d + 16 * rounds .. d + len - 1
  IN high \cap (seen \cup rest) = {}

(* Mutant of AsmRounds: the loop also ends where sixteen bytes are left.     *)
AsmRoundsShort(len) ==
  CHOOSE n \in 1..len : 16 * n >= len - 16 /\ \A m \in 1..n - 1 : 16 * m < len - 16

(* ascii_u64_asm: its loop ends when the pointer has passed the last place   *)
(* where sixteen bytes are left; the remainder is the length's low bits.     *)
AsmRounds(len) ==
  CHOOSE n \in 1..len : 16 * n > len - 16 /\ \A m \in 1..n - 1 : 16 * m <= len - 16

ascii_u64_asm(high, len) ==
  LET rounds == IF len < 16 THEN 0 ELSE AsmRounds(len)
      left == IF len < 16 THEN len ELSE len % 16
      rest == 16 * rounds .. 16 * rounds + left - 1
  IN high \cap (Read(rounds, 16) \cup rest) = {}

(* ascii_neon: rounds of thirty-two, then ascii_u64.                         *)
ascii_neon(high, len) ==
  LET rounds == len \div 32
  IN /\ high \cap Read(rounds, 32) = {}
     /\ ascii_u64(high, 32 * rounds, len - 32 * rounds)

(* test of ascii.c, for every length: each finds the one byte that is not    *)
(* ASCII wherever it is, and nothing when it lies behind the end.            *)
FindsTheByte(len, p) ==
  LET ok == p >= len
  IN /\ ascii_u64({p}, 0, len) = ok
     /\ ascii_u64_asm({p}, len) = ok
     /\ ascii_neon({p}, len) = ok
=============================================================================
