-------------------------------- MODULE Counting --------------------------------
(*****************************************************************************)
(* cpp/sort.cc, sort-range.cc, mode-range.cc, minmax.cc: sorting by counting *)
(* against a stable sort, the most frequent value by counting against a      *)
(* hash table, the smallest and the largest value with one comparison less.  *)
(*                                                                           *)
(* Arrays are sequences, so an index is one more than the code's.  Lowest    *)
(* and Highest are the limits of the type.                                   *)
(*****************************************************************************)
EXTENDS Integers, Sequences, SequencesExt, FiniteSets

CONSTANTS Lowest, Highest

Least(a, b) == IF a < b THEN a ELSE b
Most(a, b) == IF a > b THEN a ELSE b
Count(array, v) == Cardinality({i \in DOMAIN array : array[i] = v})

(* stl_sort: index i goes behind those of smaller values and the equal ones  *)
(* before it.                                                                *)
stl_sort(array) ==
  LET place(i) == 1 + Cardinality({j \in DOMAIN array :
                    array[j] < array[i] \/ (array[j] = array[i] /\ j < i)})
  IN [p \in DOMAIN array |-> CHOOSE i \in DOMAIN array : place(i) = p]

(* The last loop of both sorts: each index goes to the next free place of    *)
(* its value.                                                                *)
Place(array, start) ==
  LET step(acc, i) ==
        [cnt |-> [acc.cnt EXCEPT ![array[i]] = @ + 1],
         idx |-> [acc.idx EXCEPT ![acc.cnt[array[i]] + 1] = i]]
  IN FoldLeft(step, [cnt |-> start, idx |-> [i \in DOMAIN array |-> 0]],
              [i \in DOMAIN array |-> i]).idx

(* sort.cc: counts of all the values of the type, shifted into a prefix sum. *)
count_sort(array) ==
  LET start[v \in Lowest..Highest] ==
        IF v = Lowest THEN 0 ELSE start[v - 1] + Count(array, v - 1)
  IN Place(array, start)

MinMax(array) ==
  LET step(acc, v) == <<Least(acc[1], v), Most(acc[2], v)>>
  IN FoldLeft(step, <<Highest, Lowest>>, array)

(* sort-range.cc: counts of the values between the least and the largest,    *)
(* in slots one further on.                                                  *)
count_sort_range(array) ==
  LET min == MinMax(array)[1]
      max == MinMax(array)[2]
      cnt[i \in 0..max - min + 1] ==
        IF i = 0 THEN 0 ELSE Count(array, i - 1 + min) + cnt[i - 1]
  IN Place(array, [v \in min..max |-> cnt[v - min]])

-----------------------------------------------------------------------------
(* mode-range.cc                                                             *)

ModeStep(acc, v, count) ==
  IF count > acc.count \/ (count = acc.count /\ v < acc.mode)
  THEN [mode |-> v, count |-> count] ELSE acc

ModeOf(array, order) ==
  LET step(acc, v) == ModeStep(acc, v, Count(array, v))
  IN FoldLeft(step, [mode |-> Lowest, count |-> 0], order)

(* The hash table is walked in an order of its own.                          *)
Orders(array) ==
  LET values == {array[i] : i \in DOMAIN array}
  IN {o \in [1..Cardinality(values) -> values] :
        {o[i] : i \in DOMAIN o} = values}

stl_mode(array, order) == ModeOf(array, order)

count_mode(array) ==
  LET min == MinMax(array)[1]
  IN ModeOf(array, [i \in 1..MinMax(array)[2] - min + 1 |-> min + i - 1])

(* minmax.cc: min and max start from the first value.                        *)
opt_minmax(array) ==
  LET step(acc, v) == IF v < acc[1] THEN <<v, acc[2]>>
                      ELSE IF v > acc[2] THEN <<acc[1], v>> ELSE acc
  IN FoldLeft(step, <<array[1], array[1]>>, array)

(* "compare result" of the four programs, for every array: equal indices,    *)
(* the order of equal values included; the same mode, whatever the order in  *)
(* which the table is walked; the same least and largest value.              *)
CountingAgrees(array) ==
  /\ count_sort(array) = stl_sort(array)
  /\ count_sort_range(array) = stl_sort(array)
  /\ \A o \in Orders(array) : stl_mode(array, o) = count_mode(array)
  /\ opt_minmax(array) = MinMax(array)
=============================================================================
