# Models and proofs for mytests

The repository is a collection of small programs (C, C++, Python, Go, Java).
This directory holds TLA+ modules for those that carry logic of their own, the
TLC configurations that check them and the TLAPS proofs about them.

## Inventory

| part | state | operations | interaction | what is hard | what makes it correct |
|---|---|---|---|---|---|
| `qspinlock/qspinlock.[ch]` | 32-bit word (locked byte, pending byte, tail half-word), one node per thread (`locked`, `next`, `count`) | `queued_spin_lock`, slow path, `queued_spin_trylock`, `queued_spin_unlock` | threads, through the word and each other's nodes | every interleaving of plain byte stores with read-modify-writes; reused nodes; late links | mutual exclusion, FIFO but for one pending thread, nobody is lost |
| `qspinlock/include/mcs_spinlock.h` | lock pointer, node per waiter | `mcs_spin_lock`, `mcs_spin_unlock` | as above | a late link racing the release | as above, strictly FIFO; a node is free to reuse after unlock |
| `qspinlock/include/atomic` | exclusive monitors, event registers | LL/SC loops, LSE instructions, `__cmpwait` | CPUs | lost reservations, lost wake-ups | each operation is one atomic step; no sleeper misses a change |
| `qspinlock/test.c`, `bench.c` | thread indexes, counters, stop flag | workers, SIGINT, cancel, join, dump | main against workers | a worker cancelled anywhere, lock held | the dump is reached and reads only named, quiet nodes |
| `rdma/03_file-transfer` | connection contexts, file, one posted receive | connection events, completions, chunks | client and server, each an event thread and a poller | receive posted after the send that provokes the answer; disconnect against the poller | the file arrives whole and in order; both sides finish |
| `rdma/02_read-write` | `send_state`, `recv_state` | MR exchange, RDMA operation, DONE | two symmetric peers | completions and messages in any order; the peer's early disconnect | both finish, no operation without the peer's MR |
| `rdma/01_basic-client-server` | connections, armed completion queues, the client's completion counter | connection events, one message each way, disconnect | clients and one server, each an event thread and a poller | the server frees a connection its poller may still have completions of; receives posted just in time | the messages are swapped before anybody disconnects; no wake-up of a poller is lost |
| `mysql/io-bench/mydd.cc` | blocks sent, in flight and left | threads with a region each, files, an asynchronous queue | threads; program and kernel queue | offsets by division; completions in any order | every block is written once, but for those its FIXME names |
| `mysql/vio-bench*` | sockets, non-blocking reads, an error flag | request/response loops, warm-up | client threads or processes and a server | partial reads, EAGAIN, resets, SIGPIPE | messages do not overlap; who is left alone notices; the server survives its clients |
| `papi` | a stream per client, position in the buffer | rounds of messages | clients, one served at a time | sends and reads cut at different places | framing never slips; a dead client makes room |
| `c2c-lat` | a shared word, a stop token | store and compare-and-swap loops | two threads on two cores | the peer may be in either loop when told to stop | every peer is joined |
| `rl-ttt` | board, Q-table, exploration schedule, history; the page's board | moves, updates, evaluations; clicks | agent against opponents and itself; user against agent or page | the board changes sides after every move; updates wait for the reply; evaluations share the agent | the rules of the game; each move credited once with what came of it; the schedule survives evaluations |
| `memory-order`, `cppmem`, `order*.c*` | shared variables | litmus tests | two or more threads | memory models | the outcomes the programs look for |
| `mt-*.c`, `callonce.cc`, `flock.c`, `java` | mutexes, condition, counters, pools | lock and unlock, wait and signal, submit and shut down | threads | mutexes unlocked by others, missed signals, ranges computed from totals | turns are kept; each waiter is released; each job counted once |
| `tlpi/client-server.c` | descriptors, current directory | poll loop, commands | user, client, server | commands that arrive together, full sockets, end of input | a user who waits gets the right answers; sessions end |
| `tlpi/tail.c` | a ring of line positions | read, seek, print | none | ring wrap, reads that cut lines, interrupted reads | the last lines are shown |
| `tlpi/pipe.c`, `signal-sync.c`, `shm.c` | pipes, a pending signal, a segment | fork, read and write, suspend, wait | parent and child | signals before the wait, unchecked reads, leftovers of earlier runs | turns are kept; both end |
| the rest of `tlpi`, `unix-sock`, `va2pa` | descriptors | one or two system calls each | | | |
| `ceph-utf8`, `utf8-len.c`, `ascii.*`, `go/bmi`, `cpp`, `tax.py` | none | pure functions | none | boundaries: code points, buffer ends, widths, brackets | equal to their definition |

Left aside: timing loops, wrappers around other tools, generated tables and
drawings (see the components of `PROJECT.json`).

## Plan

The most intricate code comes first: the lock, then what it stands on, then
the programs that talk over RDMA. The order of work is

1. **done** `FifoLock` (abstract), `QSpinLock`, `MCSLock`, `AtomicWord`
   (abstract), `LLSC`, each with its proofs;
2. **done** `RdmaFileTransfer`, `RdmaReadWrite`, `RdmaBasic`, each with its
   proofs;
3. **done** `TicTacToe` (abstract), `TttGame`, `QLearning` and `TttPlay` for
   `rl-ttt`, `QLearning` with its proofs; the export, the plots and the demo
   pages are left out;
4. **done** the small programs, one module each, composed by `Programs`:
   over sockets `VioBench`, `ShellSession`, `PapiStream`; threads and processes
   `C2CLat`, `Mydd`, `MtThreads`, `ThreadSwitch`, `ProcessSync`, `SpinTest`
   (on top of what `QSpinLock` shows); text and numbers `Tail`, `Utf8`,
   `Ascii`, `BitExtract`, `Counting`, `Tax`;
5. **done** proofs about those of the small programs in which threads,
   processes or streams meet, in `Programs_proofs`.

`TttPlay` is the one module with state and without a proof: it has no constant,
and TLC has seen every state it has, so a proof would say the same again.

## The locks

`QSpinLock` models `qspinlock/qspinlock.c` and `qspinlock.h` with **one action
per access to shared memory**: every load, store or read-modify-write of the
lock word or of a node is a step of its own, and everything a thread remembers
between two of them is a local variable (`prev`, `next`, `loops`). The word is
kept as its three fields `locked`, `pending` and `tail`, because the code
stores into single bytes and half-words of it while other threads apply
read-modify-writes to the whole; each store changes only the fields its width
covers. `pc[t]` names the line a thread is at. `queue` is an auxiliary variable
that no action reads: the threads from `xchg_tail` to the end of their time at
the head, oldest first. Threads lock and unlock for ever, as the workers of
`test.c` and `bench.c` do, but a thread need not come back.

| action | code (`qspinlock.c`, `qspinlock.h`) |
|---|---|
| `FastLock`, `EnterSlowpath` | `queued_spin_lock`: the cmpxchg and the call |
| `PendingSpin` | the bounded wait for a pending thread to become the owner |
| `SetPending`, `ClearPending`, `WaitOwner`, `TakePending` | the pending path |
| `GrabNode`, `InitNode`, `TryRead`, `TryCas` | the node and the trylock of the queue path |
| `XchgTail`, `LinkPrev`, `WaitNode`, `ReadNext` | joining the queue |
| `WaitHead`, `CasTail`, `SetLocked`, `WaitNext`, `HandOff`, `ReleaseNode` | the head of the queue |
| `Unlock` | `queued_spin_unlock` |

`MCSLock` does the same for `mcs_spinlock.h`. `FifoLock` says what both
promise: one owner, a line served in order, one pending slot that can be taken
only while the line is empty, nobody stealing the lock. Both locks refine it
(`FifoSpec`, and `FifoSafety` for its part without fairness); the refinement
maps the owner, the pending slot and the line to the threads at the
corresponding places. The MCS lock never uses the slot.

**Memory model.** Memory is sequentially consistent in both modules. The
acquire and release annotations of the code, and what a weaker memory would do
without them, are outside these models.

`LLSC` models `include/atomic`: the operations used by the lock, and the
remaining logical and arithmetic ones, as loops of load-exclusive and
store-exclusive or as single LSE instructions, and the `wfe` wait of
`smp_cond_load_*`. Sums and differences of words are constants (`Plus`, `Minus`,
`Neg`); all the code needs of them is that subtracting is adding the negative
(`SumsAssumption`), since LSE has no subtraction. An operation without a result
is a fetch whose result nobody looks at, and `atomic_try_cmpxchg` is a cmpxchg
whose result has been compared with the old value. The CPU
(exclusive monitor, event register) is external and modelled from what the
code relies on; an interrupt may disarm a monitor at any time. `AtomicWord` is
its abstract specification: a call, one atomic effect, a return. Stores of the
bytes of the word are calls too, so that the LL/SC loops meet what `qspinlock.c`
does between load and store.

## The RDMA programs

In these modules the processes have two threads each, the event thread
(connection management) and the completion poller, and each callback is one
action. A work request names a buffer, and the adapter reads it when it
transmits: writing to a buffer too early is visible in the model. The adapter
and the connection manager are external:

- the requests of a connection arrive once and in order;
- a send or a write with immediate data waits at the peer until a receive is
  posted (`rnr_retry_count = 7`: retry for ever);
- a request is acknowledged before what the peer sends in answer (a fabric
  without loss). `RdmaReadWrite` has this as the constant `AcksFirst`;
- `rdma_disconnect` flushes what is outstanding on this side as errors, which
  end the process; destroying the queue pair flushes silently;
- failures of the `ibv_*` and `rdma_*` calls themselves, which end the process
  (`TEST_NZ`, `TEST_Z`), are left out.

`RdmaFileTransfer` (`rdma/03_file-transfer`) has any number of clients, each
with a file of `Chunks[c]` buffers and a name from `Namings`; failures of
`open`, `read` and `write` end the process at the point where the code checks
them. `RdmaReadWrite` (`rdma/02_read-write`) has one client and one server, in
either mode, both the same one. When the event thread frees a connection whose
completions the poller still has to look at, what the poller does is undefined
(`PollFreed`).

`RdmaBasic` (`rdma/01_basic-client-server`) has any number of clients and one
server. Its differences matter: `rnr_retry_count` is 0, so a send that finds no
receive posted fails; the queue must be armed again (`ibv_req_notify_cq`)
before it is drained, and the model keeps the armed flag and the events apart;
and the server's event thread frees a connection while its completions may
still be queued, after which the poller's reading of it is undefined.

## The tic-tac-toe learner

`TicTacToe` is the game as anybody knows it, in terms of rows, columns and
diagonals. `TttGame` has the pure functions of `game.py` and `opponents.py`;
`NegamaxMemo` is what the cache of `_negamax` holds, computed from the deepest
boards up. `QLearning` has one action per move of `_run_episode` and per turn
of the loops around it (`evaluate`, `_eval_cycle`, `_training_loop`): `stage`
says whether the game trains the agent or evaluates it against which opponent.
The numbers in the Q-table are left out, so the trainee, and the opponent in
self-play, may make any legal move; what stays is which boards the table is
looked up with and which experiences `agent.update` is given (`update`,
`credits`). `epsilon` is kept as a numerator over the decay length. `TttPlay`
is the `play` command and the page `web/app.js`, whose table may lack any row.

`QLearning` and `TttPlay` both refine `TicTacToe`, the first by undoing the
flips: X is whoever began.

## The small programs

Each has a module of its own with its state, its actions and the fairness of
its threads; `Programs` puts them side by side, and `MCPrograms` is its
instance. A behaviour of `Programs` is one of one program, chosen by `prog` in
the initial state, and all others stay in theirs, so the state spaces add up
instead of multiplying and one run asks all of them the same few questions.

| module | program | abstraction |
|---|---|---|
| `VioBench` | `mysql/vio-bench` (`bench = "threads"`), `vio-bench2` (`"serial"`) | a message is `MsgSize` chunks, a read takes any part; a connection can be reset, and a send on a broken one raises SIGPIPE; the user may interrupt any process |
| `PapiStream` | `papi/client.cc`, `server.cc` | as above, one way; the buffer is the set of its bytes that hold the letter; the build without io_uring, with `poll` |
| `ShellSession` | `tlpi/client-server.c` | commands are names; the socket holds `SockRoom` of them and the server's read takes some of those there are; the server starts in a directory that is empty or has one in it, empty or not (`filled`), so a `cd` may fail and an `ls` say nothing; an answer is one item of the stream however many writes make it; the user waits for answers (`patient`) or types ahead, and may close the input |
| `C2CLat` | `c2c-lat/c2c-lat.cc` | one action per atomic access of either thread; times are left out |
| `Mydd` | `mysql/io-bench/mydd.cc` | `written` is the set of blocks (file and offset); direct writes by threads, files, and the asynchronous queue with completions in any order |
| `MtThreads` | `mt-print.c`, `mt-cond.c` | a mutex is a flag, unlocked by anybody; a wait may wake up for nothing |
| `ThreadSwitch` | `java/ThreadSwitchTestAli` | pools as the executors document them; a list of times is its length; `calResult` throws where `subList` or `average` does |
| `ProcessSync` | `tlpi/pipe.c`, `signal-sync.c`, `shm.c` | pipes are queues, the blocked signal a set of who has it pending; `c` is not initialised, so it starts as anything |
| `SpinTest` | `qspinlock/test.c` | the lock is a queue, as `QSpinLock` shows; a cancelled worker stays in it |
| `Tail` | `tlpi/tail.c` | a file is a sequence of newlines and other characters; reads cut it anywhere and one may be interrupted |
| `Utf8`, `Ascii`, `BitExtract`, `Counting`, `Tax` | `ceph-utf8/ceph-utf8.c`, `utf8-len.c`; `ascii.c`, `ascii.S`; `cpp/pext.cc`, `go/bmi/bmi.go`; `cpp/sort.cc`, `sort-range.cc`, `mode-range.cc`, `minmax.cc`; `tax.py` | operators with a reference definition beside them; the choice of an input is the only step. The width of the bit extraction is small and no multiple of the table's |

The exercises' own fairness: every thread and process that has been started
runs on; a mutex that is free again and again is not refused for ever (strong
fairness, `mt-cond.c`); a cancellation and a TCP reset are delivered. Nobody
has to start, type, interrupt, kill or wake up without a signal. The programs
stop, so this run does not look for deadlocks: `ProgramsEnd` says what must be
reached instead.

## Runs

| run | instance | shows |
|---|---|---|
| `qspinlock_safety` | 4 threads, spin bound 1, symmetric | `MutualExclusion`; `HandOffReachesWaiter` (whoever is woken is linked and asleep); `NodesOutsideQueueAreLeftAlone` (no late store into a reused node); `IInv`, the invariant of the proofs, which contains the type and the owner of the pending bit |
| `qspinlock_liveness` | 3 threads, no symmetry | `EveryLockerEnters`; `FifoSpec`: the lock implements `FifoLock`, fairness included |
| `mcs_lock` | 4 threads | `MutualExclusion`; `FifoSpec`: strictly in order, and everybody enters; `NodesAreOnlyBorrowed`: a node may be a local variable of the caller |
| `atomics` | 2 CPUs, 3 bits, 12 calls, both builds, interrupts | `IsAtomic`: every operation is one atomic step; `SleeperMissesNothing` and `WaiterNotices`: no lost wake-up in `__cmpwait`; `FailuresMeanProgress`: the loops are lock-free |
| `rdma_file_transfer` | 2 clients, 2 chunks and none, two names or the same | `FilesAreInOrder`, `DoneMeansWhole`: the file arrives whole; `BuffersAreFree`: no buffer is written while a request for it is outstanding; `ContextIsNotInUse`: a context is not freed under the poller; `CompletionsSucceedAndFit`: nothing is flushed and the completion queue does not overrun; `EveryClientEnds` |
| `rdma_sequence` | as above | violated on purpose, see Findings |
| `rdma_read_write` | 1 client, 1 server, both modes, `AcksFirst` | `PrintsThePeersMessage`: the message is there when it is printed and nothing is left to be flushed; `MrIsSentOnce`; `CutOffByAFinishedPeer`: only a side whose peer has finished is cut off, after both regions were exchanged; `BothSidesEnd` |
| `rdma_basic` | 2 clients, 1 server | `OnlyAFreedConnectionKills`: no send finds the peer without a receive, no disconnect flushes, and a process dies only where the server reads a connection it has freed, whose client has finished its swap; `DisconnectsAfterTheSwap`; `SleepsOnlyWhenDrained`: no lost wake-up between a poller and its queue; `EveryClientEnds` |
| `rdma_late_ack` | the same without `AcksFirst` | violated on purpose, see Findings |
| `q_learning` | both phases; 0, 1 and 3 episodes; 2 games per evaluation; all games | `KeysAreDecisions`: the table is only looked up by the side to move, on boards that are not over; `CreditIsDue`: every move of a training game is credited once, with the reply or the result; `EvalLeavesTheSchedule`; `MinimaxNeverLoses`; `IsAGame` |
| `ttt_play` | all games, all clicks | `PlayIsAGame`; `PageShowsTheMoves`: the numbers shown are those of the side to move, on the cells that can be clicked |
| `programs` | one small program per behaviour, bounds below | `SocketProtocolsHold`: messages do not overlap or slip, a client's unheard write error comes only from a server that never accepted it, the patient user is answered; `ServerOutlivesClients`: no client takes the server with it outside `vio-bench2`'s unchecked warm-up of its own connection; `ThreadsShareTheWork`: regions, turns, jobs and the final dump; `TextAgrees` and `NumbersAgree`: the algorithms against their references, and where an interrupted `tail` starts; `ProgramsEnd`: what was started ends, and a patient user's command is answered unless it is an `ls` of an empty directory |

**Bounds.** Four threads on the queued spinlock are an owner, a pending thread,
a head of the queue and one behind it: every role at once, with the races
between neighbours. A spin bound of 1 makes both outcomes of the bounded wait
happen; the proofs hold for every bound. Three threads for liveness are an
owner, a pending thread and a queue whose head also meets late links. Two CPUs
are enough for a monitor to be lost and for two loops to collide; the calls are
those of the lock and at least one of each other sort. A file of two chunks reuses the buffer for
another chunk, the empty one goes from name to end at once, and two clients
share the server's poller, its completion queue and its directory. Tic-tac-toe
is explored whole. Three episodes with an evaluation every two end with an
extra one, one episode without, and no episodes with only that one; two games
per evaluation make the tally and the saved epsilon outlive a game.

In `programs`: two connections, so one waits behind the other, and messages of
three chunks, cut in the middle twice (`VioBench`); messages of two with room
for three, so a message and a half can be on the way, and rounds of two
(`PapiStream`); three commands with room for two, so they coalesce and fill the
socket (`ShellSession`); three cores and two rounds (`C2CLat`); six blocks of
four bytes and up to seven threads: divisors, others, and more threads than
blocks (`Mydd`); two providers and two consumers with three jobs each
(`ThreadSwitch`); two characters with and without a newline, two cells
(`ProcessSync`); two workers, so one spins behind another that is cancelled with
the lock (`SpinTest`); five characters and three lines, more lines than asked
for (`Tail`). Inputs of the algorithms lie on both sides of every limit in the
code: code points, lead and continuation bytes, buffer lengths around each
loop's step, all masks of seven bits, all arrays of up to four values, salaries
and bonuses in several brackets.

**Fairness.** Weak fairness of each thread that is inside the lock or owns it:
a thread is never descheduled for ever while others wait for it, as for every
spinlock, and critical sections end. Nobody is assumed to call the lock, and no
CAS is assumed to succeed. For the atomics, each CPU keeps executing
instructions; interrupts are not forced. For RDMA, each thread and each
adapter keeps going, and the connection manager delivers its events; failures
are not forced. `CHECK_DEADLOCK FALSE` stands where the programs end: in the
RDMA runs and in `programs`, whose fairness is described above.

## Findings

- `rdma_sequence`: `rdma/03_file-transfer/sequence.txt` shows the client
  re-posting its receive *before* the RDMA write that asks for the answer;
  `client.c` posts it after. The answer can arrive before the receive is
  posted, and only the infinite RNR retry keeps the transfer going
  (`EveryClientEnds` holds with it).
- `rdma_late_ack`: in `rdma/02_read-write`, `on_completion` sends the memory
  region back "if received peer's MR before sending ours", but tests whether
  the *completion* of the send was polled. If the server's region overtakes the
  acknowledgement of the client's, the client sends its region twice and its
  send states are off by one from then on. With acknowledgements first this
  cannot happen (`MrIsSentOnce` in `rdma_read_write`).
- Not a run: `rl-ttt/docs/DESIGN.md` expects the Q-table to grow to about 5,478
  states, all positions of the game; by `KeysAreDecisions` only those that are
  not over, 4,520, can become keys.
- Not a run: the comment at `tlpi/client-server.c:3` says "server run cmds, send
  back response to client", but `ls` in an empty directory is answered with
  nothing: a user who waits for the answer waits for ever, or until they close
  the input. `EveryCommandIsAnswered` leaves out this case and no other.
- Not a run: four defects the properties bound instead of excluding, as each
  says. The server of `rdma/01_basic-client-server` may read a connection its
  event thread has freed (`OnlyAFreedConnectionKills`: only after the client's
  swap). A client that leaves in `vio-bench2`'s warm-up ends the server
  (`ServerOutlivesClients`: only in the warm-up of its own connection).
  `calResult` of `ThreadSwitchTestAli` may throw (`EveryJobIsCounted`: with
  several consumers, when one got fewer jobs than a provider made). An
  interrupted `tail` starts one character early (`LastLinesAreShown`: exactly
  when the first line shown is not the file's first and was read after the
  interruption).
- Not a run: after `DISCONNECTED` the slower side of `rdma/02_read-write` may
  be freed before it prints. `CutOffByAFinishedPeer` bounds when.

## Proofs

All theorems hold for every value of the constants under the named
assumptions:

- `None` is not a thread (`NoneAssumption`, `MCSNoneAssumption`), and
  `PendingLoops` is a natural number (`LoopsAssumption`);
- for the atomics `None` is neither a call nor a word, and every call is well
  formed, writing only its field, which for a sum is the whole word
  (`NoneAssumption`, `CallsAssumption`); subtracting is adding the negative
  (`SumsAssumption`);
- the files have lengths (`ChunksAssumption`), and `None` is neither a client,
  a message nor a file (`NoneAssumption`); the server is no client
  (`ServerAssumption`);
- a `TrainConfig` has a phase, a number of episodes and an interval that is not
  0 (`ConfigsAssumption`), an evaluation has games (`EvalGamesAssumption`) --
  the code divides by both -- and epsilon is not negative (`EpsAssumption`);
- for the small programs, each numeric bound is a natural number, and what the
  code could not run with is left out: messages, rounds and blocks are not
  empty, and at least one worker is started (`VioAssumption`,
  `PapiAssumption`, `ShellAssumption`, `MyddAssumption`, `TestAssumption`,
  `SwitchAssumption`, `SyncAssumption`); 0 is the server's process in the vio
  benches and nobody in `papi`, so no connection or client has that number;
- `NegamaxAssumption` is what the recursion of `_negamax` computes, for each of
  the boards in its memo: the value is the best of the moves' and
  `minimax_player` makes such a move. It has no constant in it, so TLC's
  evaluation of it, at the start of `q_learning` and `ttt_play`, is all the
  evidence it needs; only induction over the recursion could replace it.

The theorems about `RdmaReadWrite` have a hypothesis as well: `AcksFirst`, an
acknowledgement precedes the answer. The constant says which fabric it is, both
values are meant, and without it the theorems are false: `rdma_late_ack` shows
that for `MrIsSentOnce`, and the other two fall with it.

Every inductive invariant was checked by TLC, too, on the instance of the
module's run, with quantifiers over all numbers cut to those it can reach.

**`QSpinLock_proofs`** proves `IInv` inductive and derives `TypeOK`,
`MutualExclusion`, `PendingBitHasOneOwner`, `HandOffReachesWaiter`,
`NeverAborts` and the action property `NodesOutsideQueueAreLeftAlone`. Mutual
exclusion is not inductive: who may take the lock depends on who is at the head
of the queue, which depends on who woke whom, which depends on which node each
`next` and `prev` names. `IInv` says all of it:

- `QueueIsTheWaiters`, `OnlyTheHeadIsAwake`, `LinksFollowTheQueue`: the waiters
  form one chain from the head to the tail in the word, each link missing
  (its owner is about to store it) or right, and only the first is awake;
- `NextIsNotStale`: what the head remembers of its link is nothing or true;
- `NodesAreFresh`: a node is in use exactly between its grab and release, and
  empty when published;
- `PendingBitHasOneOwner`, `LockedByteHasOneOwner`, `NobodyCanStealTheLock`:
  each bit has one owner, and whoever is about to store the locked byte without
  looking finds it clear.

The lemmas `ChainAfterXchgTail`, `ChainAfterLinkPrev`, `ChainAfterCasTail` and
`ChainAfterHandOff` treat the four steps that change the chain; for all others
`StepOutsideQueue` and `StepOfHead` say that it stays. There is one lemma per
action, and `NextIInv` joins them.

The module's last part proves `Spec => FifoSafety` from `IInv`: each action is
one action of `FifoLock` or a stutter (`TakeStep`, `PendStep`,
`PendingIsGranted`, `JoinStep`, `HeadTakesLock`, `UnlockIsRelease`,
`HandOffIsUnseen`, `MoveIsUnseen`).

**`MCSLock_proofs`** follows the same plan for the MCS lock: `IInv`, mutual
exclusion, `NodesAreOnlyBorrowed`, and the refinement of `FifoLock`.

**`LLSC_proofs`** proves `SleeperMissesNothing` and that `LLSC` implements
`AtomicWord`: with `ReservationIsCurrent`, a store-exclusive that succeeds
writes what the whole operation would write now.

**`RdmaFileTransfer_proofs`** proves, for any set of clients, lengths and names
of files, `FilesAreInOrder`, `DoneMeansWhole`, `ContextIsNotInUse`,
`CompletionsSucceedAndFit` and the action property `BuffersAreFree`. None of
them is inductive: that a file is in order depends on what the buffer holds when
the server reads it, which depends on who may write the buffer now. The two ends
of a connection take turns, and `IInv` says where the turn is (`Turn`): being
set up, in an answer posted, queued or handled, in a write posted, queued or
handled, or nowhere because the connection has ended or the server has died.
Each place says what the buffers then hold (`Answers`, `Carries`) and how much
of the file the server has (`Holds`); the rest relates connections to each
other: of two completions of one in the shared queue the send comes first
(`SendBeforeRecv`), which also bounds the queue, and no file has two writers
(`OneWriterEach`). Each action takes the turn of one connection from one place
to the next, and `TurnFrame` says that all others keep theirs.

**`RdmaBasic_proofs`** proves `OnlyAFreedConnectionKills`,
`DisconnectsAfterTheSwap` and `SleepsOnlyWhenDrained` for any set of clients.
The client counts completions, so the invariant balances accounts (`Swapping`):
what it has counted, has queued and has in hand equals what has arrived at it
and what of its own was acknowledged; a receive is posted exactly until the
peer's send has arrived. So the second completion is the last, and the
disconnect behind it finds nothing outstanding (`Swapped`). `Wakes` ties the
armed flag, the event and the place of a poller together.

**`RdmaReadWrite_proofs`** proves `MrIsSentOnce`, `PrintsThePeersMessage` and
`CutOffByAFinishedPeer`, for both modes. Each side counts: its states go up with
the completions it polls, and those stand for what it has posted and its peer
has sent. `Inv` therefore keeps accounts (`Acked`, `Arrived`, `Requested`,
`Heard`): how much of a side's script is posted (`Queued`), that a receive is
posted for each message to come (`Received`), that what has arrived from one
side is what the other has heard (`Linkage`), and what a state implies about
the past (`Script`). With `AcksFirst` only one side at a time has something
unacknowledged, so a region that is polled finds the completion of ours before
it: the one fact the code's test of `send_state` needs. Once a side is freed
only `Finished` is left to say of its peer. There is one lemma per action.

**`QLearning_proofs`** begins with the lemmas on boards: what a flip and a move
do to the lines and to the number of pieces (`FlipFacts`, `MoveFacts`), that
`winner` finds a line if there is one (`WinnerFacts`), and that a move on a
board that is not over ends the game by its own side's line or the last cell
(`MoveEnds`). It proves all five properties of `q_learning` for any
configurations and any number of evaluation games. `LoopInv` is the calendar:
how many rows there are tells between which multiples of `eval_every` the
current episode lies (`NextMultiple` has the arithmetic), and what epsilon is
now or will be restored to; `ScheduleSurvives` follows from it. `GameInv` is the
episode: `TurnInv` reads whose turn it is off the number of pieces, `CreditInv`
says that `last` is the one move that is not credited yet and that the others
are, `MinimaxInv` that a board against `minimax_player` is worth a draw at best.
`MovePlays` shows that each move, with the flip, the reward and its sign, is a
move of `TicTacToe`, and `PlaysTicTacToe` that the whole implements it.

**`Programs_proofs`** has an inductive invariant for each program of `Programs`
in which something interacts; a step of another program leaves it alone
(`VioSteps`, `PapiSteps`, ...). Together they give `SocketProtocolsHold`
(`ProtocolsHold`), `ThreadsShareTheWork` (`WorkIsShared`) and the action
property `ServerOutlivesClients` (`OnlyWarmUpsAreFatal`), for every value of the
constants.

- *vio benches* (`VioIInv`): what a client may send next depends on what is left
  in both streams, so `Framed` says for each connection where its round is:
  before the first one, with a command to send and both streams empty, waiting
  with the command or the response on its way (`Asked`, `Coming`), or left
  behind by its client (`LeftBehind`). The last is why the server lives: a
  handler that has been answered by a reset once comes to a second send only if
  it ignored the first, in the warm-up.
- *papi* (`PapiIInv`): what a live client has still to send, what is in its
  stream and what the server has read of a message make up whole messages
  (`WholeMessages`), and the buffer is filled as far as it is read.
- *shell* (`ShellIInv`): while the user is patient there is at most one command
  or answer anywhere between keyboard and screen (`OneAtATime`), so what one
  read returns is one command; `GreatestExists` makes the directory of the last
  `cd` well defined, and `DirValues` says which directories it can be.
- *mt-print, mt-cond* (`MtIInv`): three mutexes, of which exactly the one of
  whoever is next is free or taken by it, and how far each thread is tells what
  is printed; the count follows the adder.
- *test.c* (`TestIInv`): main joins the workers in order, and those behind it
  are gone and never come back, so the dump reads what nobody writes.
- *tlpi* (`SyncIInv`): for `pipe.c` where the one character that is not echoed
  yet is, for `signal-sync.c` and `shm.c` the few pairs of places the two
  processes can be in, and the signal that is pending in each.
- *mydd* (`DdIInv`): what is written is what the counters say, at places that
  the arithmetic lemmas keep apart (`DivMod`, `Quotients`); for the
  asynchronous queue the number of submits, and with it the first offset that is
  missing, follows from what has come back and what is in flight. The number of
  blocks is the cardinality of a set with a bijection to an interval.
- *ThreadSwitchTestAli* (`SwitchIInv`): a provider's jobs are in its queue, with
  a consumer or recorded (`JobsAddUp`), counted as the elements of a set, and
  at the end the queues and the hands are empty.

`AsciiChecksAgree` is about a pure algorithm: the rounds of each of the three
loops, whose number the assembly finds by comparing pointers, and the remainder
cover the buffer (`BlocksAreRead`, `AsmRoundsAre`), for every length.

Only model-checked:

- everything with fairness (`EveryLockerEnters`, the fairness of `FifoSpec`,
  `WaiterNotices`, `FailuresMeanProgress`, `EveryClientEnds`, `BothSidesEnd`,
  `ProgramsEnd`), which is out of the prover's reach;
- `TextAgrees` and `NumbersAgree` but for the part about `Ascii`: the other
  algorithms are recursive, folds over their input, or powers of two, and what
  they compute would need induction over data;
- `PageShowsTheMoves` and `PlayIsAGame` of `TttPlay`, whose states TLC has all
  seen.

## Not modelled

- Weak memory: `memory-order`, `cppmem` and `order*` show or enumerate its
  outcomes, and nothing else; the locks are modelled under sequential
  consistency.
- The 128-bit cmpxchg of the atomics (no caller); failing verbs; several connections of one `rdma/02_read-write`
  server.
- The values of the Q-table, its file formats and the random generators.
- `papi`'s io_uring and epoll builds; `bench.c`'s main and the text of
  `test.c`'s dump; the times that the benchmarks measure.
- The hashes (`rabin.c`, `ceph-hash.c`), which have no reference but
  themselves, and floating point (`cpp/p-square.cc`).
- Exercises of one library or system call, timing loops, wrappers around
  external tools, generated tables, and design documents without code.
