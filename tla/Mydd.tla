---------------------------------- MODULE Mydd ----------------------------------
(*****************************************************************************)
(* mysql/io-bench/mydd.cc: writes a file of blocks with direct I/O, from n   *)
(* threads ("dio"), to n files ("files"), or with n asynchronous writes in   *)
(* flight ("aio").                                                           *)
(*                                                                           *)
(* The kernel is external: a direct write must be aligned, asynchronous      *)
(* writes complete in any order.                                             *)
(*****************************************************************************)
EXTENDS Integers, FiniteSets

CONSTANTS
  BlockSize,    (* block_size; the alignment direct I/O asks for             *)
  BlockCount,   (* block_count                                               *)
  MaxDepth      (* bound: the threads, files or writes in flight             *)

VARIABLES
  mode,         (* how main was called, "none" before                        *)
  depth,        (* its number                                                *)
  mdpc,         (* "run", or how the process ended                           *)
  offset,       (* where each thread writes next                             *)
  left,         (* the writes each thread has to make                        *)
  inFlight,     (* asynchronous writes: [number of the submit, offset]       *)
  sentBlocks,   (* those that io_getevents has returned                      *)
  written       (* offsets that have been written, with the file's number    *)

vars == <<mode, depth, mdpc, offset, left, inFlight, sentBlocks, written>>

Init ==
  /\ mode = "none" /\ depth = 0 /\ mdpc = "args"
  /\ offset = <<>> /\ left = <<>>
  /\ inFlight = {} /\ sentBlocks = 0 /\ written = {}

(* evaluate_dio: thread i (from 0) starts at its share of the bytes.         *)
Share(i) == ((BlockCount * BlockSize) \div depth) * i

(* main: the mode and a number, 1 if it is not positive, or the usage.       *)
main(m, n) ==
  /\ mdpc = "args" /\ mode' = m
  /\ depth' = IF n <= 0 THEN 1 ELSE n
  /\ mdpc' = IF m = "usage" THEN "failed" ELSE "open"
  /\ UNCHANGED <<offset, left, inFlight, sentBlocks, written>>

(* The threads are created, or the context set up.                           *)
opened ==
  /\ mdpc = "open" /\ mdpc' = "run"
  /\ LET thds == IF mode = "aio" THEN {} ELSE 0..depth - 1
     IN /\ offset' = [i \in thds |-> IF mode = "dio" THEN Share(i) ELSE 0]
        /\ left' = [i \in thds |-> BlockCount \div depth]
  /\ UNCHANGED <<mode, depth, inFlight, sentBlocks, written>>

(* A thread of evaluate_dio or evaluate_files writes its next block.         *)
WritesBlock(i, to) ==
  /\ written' = written \cup {<<to, offset[i]>>}
  /\ offset' = [offset EXCEPT ![i] = @ + BlockSize]
  /\ left' = [left EXCEPT ![i] = @ - 1]
  /\ UNCHANGED mdpc

(* A write that is not aligned fails, and the thread takes the whole process *)
(* with it.                                                                  *)
evaluate_dio(i) ==
  /\ mdpc = "run" /\ mode = "dio" /\ left[i] > 0
  /\ IF offset[i] % BlockSize = 0 THEN WritesBlock(i, 0)
     ELSE mdpc' = "failed" /\ UNCHANGED <<offset, left, written>>
  /\ UNCHANGED <<mode, depth, inFlight, sentBlocks>>

evaluate_files(i) ==
  /\ mdpc = "run" /\ mode = "files" /\ left[i] > 0
  /\ WritesBlock(i, i)
  /\ UNCHANGED <<mode, depth, inFlight, sentBlocks>>

(* evaluate_aio's place for block number n.                                  *)
AioOffset(n) ==
  (((n % depth) * BlockCount) \div depth + n \div depth) * BlockSize

Pending == Cardinality(inFlight)

(* The offset is that of the writes that are done, not of those submitted.   *)
io_submit ==
  /\ mdpc = "run" /\ mode = "aio" /\ sentBlocks < BlockCount
  /\ Pending < depth /\ sentBlocks + Pending < BlockCount
  /\ inFlight' = inFlight \cup {<<sentBlocks + Pending, AioOffset(sentBlocks)>>}
  /\ UNCHANGED <<mode, depth, mdpc, offset, left, sentBlocks, written>>

io_getevents ==
  /\ mdpc = "run" /\ mode = "aio" /\ sentBlocks < BlockCount
  /\ ~(Pending < depth /\ sentBlocks + Pending < BlockCount)
  /\ \E io \in inFlight :
       /\ inFlight' = inFlight \ {io}
       /\ written' = written \cup {<<0, io[2]>>}
  /\ sentBlocks' = sentBlocks + 1
  /\ UNCHANGED <<mode, depth, mdpc, offset, left>>

(* The loop is over and the context destroyed, or the threads are joined.    *)
returns ==
  /\ mdpc = "run" /\ mdpc' = "done"
  /\ IF mode = "aio" THEN sentBlocks = BlockCount
     ELSE \A i \in DOMAIN left : left[i] = 0
  /\ UNCHANGED <<mode, depth, offset, left, inFlight, sentBlocks, written>>

Next ==
  \/ \E m \in {"usage", "dio", "aio", "files"}, n \in 0..MaxDepth : main(m, n)
  \/ opened
  \/ \E i \in DOMAIN left : evaluate_dio(i) \/ evaluate_files(i)
  \/ io_submit \/ io_getevents
  \/ returns

(* Once it is called the program runs on, its threads and the kernel too.    *)
Fairness == WF_vars(mdpc # "args" /\ Next)

-----------------------------------------------------------------------------
(* Properties                                                                *)

Blocks(ns) == {<<0, AioOffset(n)>> : n \in ns}

(* "Though each thread writes its own non-overlapped region": no block is    *)
(* overlapped by another thread's, whatever the number of threads, and all   *)
(* of the file is written when their number divides that of the blocks.      *)
(* "FIXME: last depth-1 IOs are lost!!!": evaluate_aio writes exactly the    *)
(* blocks before those, leaves no write in flight when it destroys the       *)
(* context, and never holds more than depth of them.                         *)
WritesTheirShare ==
  /\ mode = "dio" =>
       /\ \A i, j \in DOMAIN left : i < j => offset[i] <= Share(j)
       /\ (mdpc = "done" /\ BlockCount % depth = 0) =>
            written = {<<0, b * BlockSize>> : b \in 0..BlockCount - 1}
  /\ mode = "files" /\ mdpc = "done" =>
       Cardinality(written) = depth * (BlockCount \div depth)
  /\ mode = "aio" =>
       /\ Pending <= depth
       /\ mdpc = "done" =>
            /\ inFlight = {}
            /\ written = Blocks({0} \cup 0..BlockCount - depth)
            /\ BlockCount % depth = 0 =>
                 Cardinality(written) = BlockCount - (depth - 1)

(* Every call of the program ends.                                           *)
MyddEnds == mdpc # "args" ~> mdpc \in {"done", "failed"}
=============================================================================
