------------------------------- MODULE FifoLock -------------------------------
(*****************************************************************************)
(* What a queued spinlock promises, without words, bytes or nodes.           *)
(*                                                                           *)
(* At most one thread owns the lock.  A thread that finds somebody in its    *)
(* way joins a line and is served in the order of the line.  One thread at   *)
(* a time may wait beside the line instead (the pending slot); it may take   *)
(* that slot only while the line is empty, so at most one grant can go past  *)
(* the front of the line, and nobody else can steal the lock.                *)
(*****************************************************************************)
EXTENDS Sequences, Functions

CONSTANTS Threads,      (* the threads that use the lock                     *)
          None          (* "no thread", outside Threads                      *)

VARIABLES owner,        (* the thread holding the lock, or None              *)
          pend,         (* the thread in the pending slot, or None           *)
          line          (* the threads in line, first to be served first     *)

vars == <<owner, pend, line>>

(* A thread that neither owns the lock nor waits for it.                     *)
Out(t) == t \notin {owner, pend} \union Range(line)

Init == owner = None /\ pend = None /\ line = <<>>

(* Nobody owns the lock and nobody waits: take it at once.                   *)
Take(t) ==
  /\ Out(t) /\ owner = None /\ pend = None /\ line = <<>>
  /\ owner' = t
  /\ UNCHANGED <<pend, line>>

(* Nobody waits: occupy the pending slot.                                    *)
Pend(t) ==
  /\ Out(t) /\ pend = None /\ line = <<>>
  /\ pend' = t
  /\ UNCHANGED <<owner, line>>

Join(t) ==
  /\ Out(t)
  /\ line' = Append(line, t)
  /\ UNCHANGED <<owner, pend>>

GrantPending ==
  /\ pend # None /\ owner = None
  /\ owner' = pend /\ pend' = None
  /\ UNCHANGED line

GrantFront ==
  /\ line # <<>> /\ owner = None /\ pend = None
  /\ owner' = Head(line) /\ line' = Tail(line)
  /\ UNCHANGED pend

Release ==
  /\ owner # None
  /\ owner' = None
  /\ UNCHANGED <<pend, line>>

Next ==
  \/ \E t \in Threads : Take(t) \/ Pend(t) \/ Join(t)
  \/ GrantPending
  \/ GrantFront
  \/ Release

(* A free lock is granted to whoever waits, and an owner lets go.            *)
Fairness == WF_vars(GrantPending) /\ WF_vars(GrantFront) /\ WF_vars(Release)

Spec == Init /\ [][Next]_vars /\ Fairness
===============================================================================
