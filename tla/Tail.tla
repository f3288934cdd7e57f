----------------------------------- MODULE Tail ---------------------------------
(*****************************************************************************)
(* tlpi/tail.c: the last lines of a file, found in one pass that keeps the   *)
(* offsets of as many line starts as lines are asked for in a ring.          *)
(*                                                                           *)
(* A file is a sequence of "x" and "nl"; a read returns any number of the    *)
(* characters that are left, or is interrupted by a signal.                  *)
(*****************************************************************************)
EXTENDS Integers, Sequences, FiniteSets

CONSTANTS
  MaxLen,       (* bound: the length of the file                             *)
  MaxLines      (* bound: the -n of the command line                         *)

VARIABLES
  file,         (* what is read                                              *)
  lines,        (* the lines asked for                                       *)
  tlpc,         (* where main is                                             *)
  fpos,         (* the file's position                                       *)
  foffset,      (* the program's count of what it has read                   *)
  lastChar,
  seeks,        (* newline_seeks; -1 where malloc left it as it was          *)
  first, last,  (* newline_first, newline_last                               *)
  signalAt,     (* fpos at the one read that was interrupted, or -1          *)
  shown         (* the position from which the file is printed               *)

vars == <<file, lines, tlpc, fpos, foffset, lastChar, seeks, first, last,
          signalAt, shown>>

Files == UNION {[1..n -> {"x", "nl"}] : n \in 0..MaxLen}

Init ==
  /\ file = <<>> /\ lines = 0 /\ tlpc = "args" /\ fpos = 0 /\ foffset = 0
  /\ lastChar = "none" /\ seeks = <<>> /\ first = 0 /\ last = 0
  /\ signalAt = -1 /\ shown = -1

(* get_lines_fn: ten lines unless a positive number is given; main then      *)
(* opens the file and sets up the ring.                                      *)
main(f, n) ==
  /\ tlpc = "args" /\ tlpc' = "read"
  /\ file' = f
  /\ lines' = IF n < 1 THEN 10 ELSE n
  /\ seeks' = [i \in 0..lines' - 1 |-> IF i = 0 THEN 0 ELSE -1]
  /\ UNCHANGED <<fpos, foffset, lastChar, first, last, signalAt, shown>>

(* parse_newline, one character: the one after a newline starts a line.      *)
ParseChar(ring, off, c) ==
  LET next == (ring.last + 1) % lines
  IN IF ring.char # "nl" THEN [ring EXCEPT !.char = c]
     ELSE [char |-> c, last |-> next,
           first |-> IF next = ring.first THEN (ring.first + 1) % lines
                     ELSE ring.first,
           seeks |-> [ring.seeks EXCEPT ![next] = off]]

parse_newline(buf) ==
  LET ring[i \in 0..Len(buf)] ==
        IF i = 0 THEN [char |-> lastChar, last |-> last, first |-> first,
                       seeks |-> seeks]
        ELSE ParseChar(ring[i - 1], foffset + i - 1, buf[i])
      all == ring[Len(buf)]
  IN /\ lastChar' = all.char /\ last' = all.last
     /\ first' = all.first /\ seeks' = all.seeks

reads(k) ==
  /\ tlpc = "read" /\ fpos + k <= Len(file)
  /\ parse_newline(SubSeq(file, fpos + 1, fpos + k))
  /\ fpos' = fpos + k /\ foffset' = foffset + k
  /\ UNCHANGED <<file, lines, tlpc, signalAt, shown>>

(* An interrupted read returns -1, which is added like a length: the starts  *)
(* of the lines that are read after it are recorded one too low.             *)
interrupted ==
  /\ tlpc = "read" /\ signalAt = -1
  /\ signalAt' = fpos /\ foffset' = foffset - 1
  /\ UNCHANGED <<file, lines, tlpc, fpos, lastChar, seeks, first, last, shown>>

(* The end of the file: seek to the oldest line start that is kept.          *)
prints ==
  /\ tlpc = "read" /\ fpos = Len(file)
  /\ shown' = seeks[first] /\ tlpc' = "done"
  /\ UNCHANGED <<file, lines, fpos, foffset, lastChar, seeks, first, last,
                 signalAt>>

Next ==
  \/ \E f \in Files, n \in 0..MaxLines : main(f, n)
  \/ \E k \in 1..MaxLen : reads(k)
  \/ interrupted
  \/ prints

-----------------------------------------------------------------------------
(* Properties                                                                *)

(* Where the lines of the file start: behind every newline but a last one.   *)
Starts == {0} \cup {i \in 1..Len(file) - 1 : file[i] = "nl"}

Asked == CHOOSE s \in Starts :
  LET n == Cardinality({t \in Starts : t >= s})
  IN n = lines \/ (n < lines /\ s = 0)

Misplaced == signalAt >= 0 /\ Asked > 0 /\ Asked >= signalAt

(* The program prints from the start of the last lines that were asked for,  *)
(* or of the file, however the reads cut it; only if a read was interrupted  *)
(* before that start was read does it begin one character too early, with    *)
(* the end of the line before.                                               *)
LastLinesAreShown ==
  tlpc = "done" => shown = IF Misplaced THEN Asked - 1 ELSE Asked
=============================================================================
