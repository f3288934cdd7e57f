------------------------------- MODULE BitExtract -------------------------------
(*****************************************************************************)
(* go/bmi/bmi.go and cpp/pext.cc: the pext instruction (gather the bits of a *)
(* word that a mask selects) done with a table, a few bits at a time.        *)
(*                                                                           *)
(* The width of a word and of a look-up are parameters: 64, 5 and 6 in the   *)
(* code, where, as here, no look-up width divides the word's.                *)
(*****************************************************************************)
EXTENDS Integers, FiniteSets

CONSTANTS Width, GoBits, CppBits

Words == 0..2^Width - 1
Bit(x, i) == (x \div 2^i) % 2
Ones(x, n) == Cardinality({i \in 0..n - 1 : Bit(x, i) = 1})

(* gen_pext_lookup_table: the selected bits of data, lowest first.           *)
gen_pext_lookup_table(n, mask, data) ==
  LET value[i \in 0..n] ==
        IF i = 0 THEN 0
        ELSE value[i - 1] + (IF Bit(mask, i - 1) = 1
                             THEN Bit(data, i - 1) * 2^Ones(mask, i - 1)
                             ELSE 0)
  IN value[n]

(* bmi.go has the table as 1024 literals, which are the values the generator *)
(* of pext.cc computes for five bits; the model has the generator only.      *)
pextTable(mask, data) == gen_pext_lookup_table(GoBits, mask, data)

(* The value and the length of the output after k rounds of a loop.          *)
ExtractBitsGo(bitmap, selectBitmap) ==
  LET Low(x, k) == (x \div 2^(GoBits * k)) % 2^GoBits
      rounds == CHOOSE k \in 0..Width :
                  /\ selectBitmap \div 2^(GoBits * k) = 0
                  /\ \A j \in 0..k - 1 : selectBitmap \div 2^(GoBits * j) # 0
      out[k \in 0..rounds] ==
        IF k = 0 THEN [value |-> 0, len |-> 0]
        ELSE LET m == Low(selectBitmap, k - 1)
             IN [value |-> out[k - 1].value
                   + pextTable(m, Low(bitmap, k - 1)) * 2^out[k - 1].len,
                 len |-> out[k - 1].len + Ones(m, GoBits)]
  IN IF selectBitmap = 2^Width - 1 THEN bitmap
     ELSE IF selectBitmap = 0 THEN 0
     ELSE out[rounds].value

(* Mutant of pext_u64_simu: the number of rounds is not rounded up.          *)
pext_u64_simu_short(mask, data) ==
  LET Low(x, k) == (x \div 2^(CppBits * k)) % 2^CppBits
      rounds == Width \div CppBits
      out[k \in 0..rounds] ==
        IF k = 0 THEN [value |-> 0, len |-> 0]
        ELSE LET m == Low(mask, k - 1)
             IN [value |-> out[k - 1].value
                   + gen_pext_lookup_table(CppBits, m, Low(data, k - 1))
                     * 2^out[k - 1].len,
                 len |-> out[k - 1].len + Ones(m, CppBits)]
  IN out[rounds].value

(* pext_u64_simu: a fixed number of rounds, left when the mask is used up.   *)
pext_u64_simu(mask, data) ==
  LET Low(x, k) == (x \div 2^(CppBits * k)) % 2^CppBits
      rounds == (Width + CppBits - 1) \div CppBits
      out[k \in 0..rounds] ==
        IF k = 0 THEN [value |-> 0, len |-> 0]
        ELSE IF k > 1 /\ mask \div 2^(CppBits * (k - 1)) = 0 THEN out[k - 1]
        ELSE LET m == Low(mask, k - 1)
             IN [value |-> out[k - 1].value
                   + gen_pext_lookup_table(CppBits, m, Low(data, k - 1))
                     * 2^out[k - 1].len,
                 len |-> out[k - 1].len + Ones(m, CppBits)]
  IN out[rounds].value

(* What the instruction does: bit number r of the result is the data's bit   *)
(* under the mask's one number r.                                            *)
IsPext(mask, data, result) ==
  /\ result < 2^Ones(mask, Width)
  /\ \A i \in 0..Width - 1 :
       Bit(mask, i) = 1 => Bit(result, Ones(mask, i)) = Bit(data, i)

(* The test of pext.cc ("test correctness"), for both programs and every     *)
(* word: they do what the instruction does.                                  *)
ExtractsTheBits(mask) ==
  \A data \in Words :
    /\ IsPext(mask, data, ExtractBitsGo(data, mask))
    /\ IsPext(mask, data, pext_u64_simu(mask, data))
=============================================================================
