---------------------------------- MODULE Utf8 ----------------------------------
(*****************************************************************************)
(* ceph-utf8/ceph-utf8.c: two encoders of code points and a decoder;         *)
(* utf8-len.c: two ways to find the length of a character.                   *)
(*                                                                           *)
(* Bytes are integers, masks and shifts are division and remainder.  A code  *)
(* point is below 2^31: the encoders' answer to a larger one is left out, as *)
(* are first bytes of seven and eight high bits.                             *)
(*****************************************************************************)
EXTENDS Integers, Sequences

INVALID_UTF8_CHAR == -1

(* high_bits_set: the leading ones of a byte.                                *)
high_bits_set(c) ==
  CHOOSE n \in 0..8 :
    /\ \A k \in 1..n : (c \div 2^(8 - k)) % 2 = 1
    /\ n < 8 => (c \div 2^(7 - n)) % 2 = 0

MaxVal == <<127, 2047, 65535, 2097151, 67108863, 2147483647>>

(* encode_utf8: the first length whose maximum is not exceeded, then six     *)
(* bits for each byte but the first.                                         *)
encode_utf8(u) ==
  LET i == CHOOSE n \in 1..6 :
             u <= MaxVal[n] /\ \A m \in 1..n - 1 : u > MaxVal[m]
      mask == 256 - 2^(8 - i)
  IN IF i = 1 THEN <<u>>
     ELSE [b \in 1..i |->
             IF b = 1 THEN mask + (u \div 64^(i - 1))
             ELSE 128 + ((u \div 64^(i - b)) % 64)]

(* encode_utf8_quick: the cases written out.                                 *)
encode_utf8_quick(u) ==
  LET Six(k) == 128 + ((u \div 2^k) % 64)
  IN CASE u <= 127 -> <<u>>
       [] u > 127 /\ u <= 2047 -> <<192 + (u \div 64), Six(0)>>
       [] u > 2047 /\ u <= 65535 -> <<224 + (u \div 2^12), Six(6), Six(0)>>
       [] u > 65535 /\ u <= 2097151 ->
            <<240 + (u \div 2^18), Six(12), Six(6), Six(0)>>
       [] u > 2097151 /\ u <= 67108863 ->
            <<248 + (u \div 2^24), Six(18), Six(12), Six(6), Six(0)>>
       [] OTHER ->
            <<252 + (u \div 2^30), Six(24), Six(18), Six(12), Six(6), Six(0)>>

IsTail(b) == b \div 64 = 2

(* The bits of the first byte and of the bytes after it, before the checks.  *)
Code(buf) ==
  LET n == Len(buf)
      code[j \in 1..n] ==
        IF j = 1 THEN buf[1] % 2^(8 - n)
        ELSE code[j - 1] * 64 + (buf[j] % 64)
  IN code[n]

decode_utf8(buf) ==
  LET n == Len(buf)
  IN IF n = 1 THEN IF buf[1] >= 128 THEN INVALID_UTF8_CHAR ELSE buf[1]
     ELSE IF high_bits_set(buf[1]) # n \/ \E j \in 2..n : ~IsTail(buf[j])
     THEN INVALID_UTF8_CHAR
     ELSE LET code == Code(buf)
          IN IF code \in {65534, 65535} \/ (code >= 55296 /\ code <= 57343)
             THEN INVALID_UTF8_CHAR ELSE code

(* The step of main's validation loop: the length by the first byte's bits.  *)
StepLength(byte) ==
  LET n == high_bits_set(byte) IN IF n = 0 THEN 1 ELSE n

-----------------------------------------------------------------------------
(* utf8-len.c                                                                *)

utf8_char_length(c) ==
  CASE c < 128 -> 1
    [] c \div 32 = 6 -> 2
    [] c \div 16 = 14 -> 3
    [] c \div 8 = 30 -> 4
    [] OTHER -> 0

tbl == [k \in 1..16 |-> 1] \o [k \in 1..8 |-> 0]
         \o <<2, 2, 2, 2, 3, 3, 4, 0>>

utf8_char_length_tbl(c) == tbl[(c \div 8) + 1]

(* The characters of data when len gives a character's length, or -1 where   *)
(* the program prints an error and exits.                                    *)
Count(data, len(_)) ==
  LET n == Len(data)
      count[i \in 0..n] ==
        IF i = n THEN 0
        ELSE LET k == len(data[i + 1])
             IN IF \/ k = 0 \/ i + k > n
                   \/ \E j \in 1..k - 1 : ~IsTail(data[i + j + 1])
                THEN -1
                ELSE IF count[i + k] = -1 THEN -1 ELSE count[i + k] + 1
  IN count[0]

utf8_length(data) == Count(data, utf8_char_length)
utf8_length_tbl(data) == Count(data, utf8_char_length_tbl)

-----------------------------------------------------------------------------
(* What is checked, for two code points and for a string of bytes            *)

(* The code points the decoder refuses: two that are no characters, and the  *)
(* surrogates.                                                               *)
Refused(u) == u \in {65534, 65535} \cup 55296..57343

(* For two code points, one after the other: the encoders agree; the         *)
(* validation loop, which steps by the first byte, finds both, and they      *)
(* decode to what was encoded unless it is refused; and utf8_length counts   *)
(* two, with either table, if none is longer than four bytes.                *)
EncodingRoundTrips(u, w) ==
  LET first == encode_utf8(u)
      data == first \o encode_utf8(w)
      n == StepLength(data[1])
  IN /\ encode_utf8_quick(u) = first
     /\ n = Len(first) /\ StepLength(data[n + 1]) = Len(data) - n
     /\ decode_utf8(SubSeq(data, 1, n)) =
          IF Refused(u) THEN INVALID_UTF8_CHAR ELSE u
     /\ utf8_length(data) = utf8_length_tbl(data)
     /\ utf8_length(data) = IF u <= MaxVal[4] /\ w <= MaxVal[4] THEN 2 ELSE -1

(* For any bytes: what the decoder accepts is encoded back to the same bytes *)
(* exactly when no shorter form exists; it accepts every overlong form.      *)
DecodesWhatItEncodes(buf) ==
  LET u == decode_utf8(buf)
      overlong == Len(buf) > 1 /\ u <= MaxVal[Len(buf) - 1]
  IN u # INVALID_UTF8_CHAR => (encode_utf8_quick(u) = buf) = ~overlong
=============================================================================
