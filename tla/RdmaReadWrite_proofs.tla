------------------------- MODULE RdmaReadWrite_proofs -------------------------
(*****************************************************************************)
(* The message swap of rdma/02_read-write, on fabrics that acknowledge a     *)
(* request before they deliver the answer to it (AcksFirst).                 *)
(*                                                                           *)
(* A side's requests are a script: its region, then the RDMA request, then   *)
(* DONE.  How far each of them has come is counted: completions polled       *)
(* (sendState), not yet polled (in cq), not yet there (unacked), not yet     *)
(* arrived (sq).  The two scripts are tied together by what each side has    *)
(* heard of the other's.                                                     *)
(*****************************************************************************)
EXTENDS RdmaReadWrite, TLAPS

-----------------------------------------------------------------------------
(* The inductive invariant                                                   *)

(* How many x are in a completion queue of up to three entries.              *)
Is(q, i, x) == IF i <= Len(q) /\ q[i] = x THEN 1 ELSE 0
Count(q, x) == Is(q, 1, x) + Is(q, 2, x) + Is(q, 3, x)

(* Request n of a side, and how many messages are among the first n.         *)
Request(n) == IF n = 2 THEN "rdma" ELSE "send"
Messages(n) == IF n = 0 THEN 0 ELSE IF n = 3 THEN 2 ELSE 1

(* How many of a side's requests have completed, arrived and been posted,    *)
(* and how many messages of its peer's have come in.                         *)
Acked(s) == sendState[s] + Count(cq[s], "send")
Arrived(s) == Acked(s) + Len(unacked[s])
Requested(s) == Arrived(s) + Len(sq[s])
Heard(s) == recvState[s] + Count(cq[s], "recv")

(* The RDMA request and DONE have been posted, build_connection has been     *)
(* called, and the region has been sent.                                     *)
Swapping(s) == sendState[s] >= 1 /\ recvState[s] >= 1
Armed(s) == IF s = "client" THEN cm # "none" ELSE cm \in {"accepted", "up"}
MrDue(s) == IF s = "client" THEN cm = "up"
            ELSE recvState[s] >= 1 /\ ~spinning[s]

(* A step leaves side t alone.                                               *)
SameAt(t) ==
  /\ mode' = mode /\ cm' = cm
  /\ sendState'[t] = sendState[t] /\ recvState'[t] = recvState[t]
  /\ sendMsg'[t] = sendMsg[t] /\ recvMsg'[t] = recvMsg[t]
  /\ posted'[t] = posted[t] /\ mrs'[t] = mrs[t]
  /\ sq'[t] = sq[t] /\ unacked'[t] = unacked[t] /\ cq'[t] = cq[t]
  /\ spinning'[t] = spinning[t] /\ got'[t] = got[t]
  /\ discon'[t] = discon[t] /\ gone'[t] = gone[t] /\ died'[t] = died[t]

Types ==
  /\ mode \in {"write", "read"}
  /\ cm \in {"none", "resolved", "requested", "accepted", "up"}
  /\ sendState \in [Sides -> 0..3] /\ recvState \in [Sides -> 0..2]
  /\ sendMsg \in [Sides -> {"unset", "MR", "DONE"}]
  /\ recvMsg \in [Sides -> {"unset", "MR", "DONE"}]
  /\ posted \in [Sides -> 0..1] /\ mrs \in [Sides -> 0..1]
  /\ sq \in [Sides -> Seq({"send", "rdma"})]
  /\ unacked \in [Sides -> Seq({"send", "rdma"})]
  /\ cq \in [Sides -> Seq({"send", "recv"})]
  /\ connected \in [Sides -> BOOLEAN] /\ spinning \in [Sides -> BOOLEAN]
  /\ got \in [Sides -> BOOLEAN] /\ discon \in [Sides -> BOOLEAN]
  /\ gone \in [Sides -> BOOLEAN] /\ died \in [Sides -> BOOLEAN]

(* Nothing has happened yet.                                                 *)
Idle(s) ==
  /\ sendState[s] = 0 /\ recvState[s] = 0
  /\ sq[s] = <<>> /\ unacked[s] = <<>> /\ cq[s] = <<>>
  /\ ~gone[s] /\ ~discon[s] /\ ~spinning[s]

(* Where a side is in its script, whether or not its connection is left.     *)
Script(s) ==
  /\ mrs[s] = IF MrDue(s) THEN 1 ELSE 0
  /\ spinning[s] => s = "server" /\ recvState[s] = 1 /\ sendState[s] = 0
                    /\ sendMsg[s] = "MR"
  /\ IF s = "client" THEN recvState[s] >= 1 => sendState[s] >= 1
     ELSE /\ sendState[s] >= 1 => recvState[s] >= 1
          /\ recvState[s] = 2 => sendState[s] >= 1
  /\ discon[s] => sendState[s] = 3 /\ recvState[s] = 2 /\ got[s]
  /\ died[s] => gone[s]
  /\ gone[s] => \E r \in Sides : discon[r]

(* Its requests: which are posted, in which order, and from which buffer.    *)
Queued(s) ==
  /\ Len(cq[s]) <= 3
  /\ Requested(s) = IF Swapping(s) THEN 3 ELSE mrs[s]
  /\ \A i \in DOMAIN unacked[s] : unacked[s][i] = Request(Acked(s) + i)
  /\ \A i \in DOMAIN sq[s] : sq[s][i] = Request(Arrived(s) + i)
  /\ Requested(s) = 1 => sendMsg[s] = "MR"
  /\ Requested(s) = 3 => sendMsg[s] = "DONE"

(* Its receives: one is posted for each message that may come, the peer's    *)
(* region is polled after the completion of its own, and the data is there   *)
(* before DONE is.                                                           *)
Received(s) ==
  /\ posted[s] + Heard(s) = (IF Armed(s) THEN 1 ELSE 0)
                            + IF recvState[s] >= 1 THEN 1 ELSE 0
  /\ Heard(s) = 1 => recvMsg[s] = "MR"
  /\ Heard(s) = 2 => recvMsg[s] = "DONE"
  /\ /\ sendState[s] = 0 /\ Count(cq[s], "recv") > 0
     /\ s = "client" \/ recvState[s] = 1
     => cq[s][1] = "send"
  /\ mode = "write" /\ Heard(s) = 2 => got[s]
  /\ mode = "read" /\ Acked(s) >= 2 => got[s]

(* What has arrived from s is what p has heard, and acknowledgements are     *)
(* outstanding in one direction only.                                        *)
Linkage(s) ==
  LET p == Peer(s) IN
  /\ Heard(p) = Messages(Arrived(s))
  /\ mode = "write" /\ Arrived(s) >= 2 => got[p]
  /\ unacked[s] = <<>> \/ unacked[p] = <<>>

(* A side that has printed has had its peer's whole script.                  *)
Finished(s) ==
  discon[s] => LET p == Peer(s) IN
    /\ sendState[p] >= 1 /\ recvState[p] >= 1
    /\ mode = "write" => got[p]

Inv ==
  /\ Types
  /\ cm # "up" => \A s \in Sides : Idle(s)
  /\ \A s \in Sides : Script(s) /\ Finished(s)
  /\ \A s \in Sides : ~gone[s] => Queued(s) /\ Received(s)
  /\ (\A s \in Sides : ~gone[s]) => \A s \in Sides : Linkage(s)
-----------------------------------------------------------------------------
(* Queues of at most three entries                                           *)

LEMMA Pair ==
  ASSUME NEW s \in Sides
  PROVE  Peer(s) \in Sides /\ Peer(s) # s /\ Peer(Peer(s)) = s
         /\ Sides = {s, Peer(s)}
BY DEF Sides, Peer

LEMMA CountType ==
  ASSUME NEW q, NEW x
  PROVE  Count(q, x) \in 0..3
BY DEF Count, Is

LEMMA CountEmpty ==
  ASSUME NEW x
  PROVE  Count(<<>>, x) = 0
BY DEF Count, Is

LEMMA Small ==
  \A n \in Nat : /\ n <= 3 => n \in {0, 1, 2, 3}
                 /\ n <= 2 => n \in {0, 1, 2}
OBVIOUS

LEMMA CountLen ==
  ASSUME NEW q \in Seq({"send", "recv"}), Len(q) <= 3
  PROVE  Count(q, "send") + Count(q, "recv") = Len(q)
<1>1. \A i \in 1..Len(q) : q[i] \in {"send", "recv"}
  OBVIOUS
<1>2. Len(q) \in {0, 1, 2, 3}
  <2>1. Len(q) \in Nat
    OBVIOUS
  <2> QED BY <2>1, Small
<1> QED BY <1>1, <1>2 DEF Count, Is

LEMMA CountTail ==
  ASSUME NEW q \in Seq({"send", "recv"}), Len(q) <= 3, q # <<>>, NEW x
  PROVE  /\ Tail(q) \in Seq({"send", "recv"}) /\ Len(Tail(q)) = Len(q) - 1
         /\ Count(Tail(q), x) = Count(q, x) - (IF Head(q) = x THEN 1 ELSE 0)
         /\ Head(q) = q[1] /\ Head(q) \in {"send", "recv"}
<1>1. Len(q) \in {1, 2, 3}
  <2>1. Len(q) \in Nat /\ Len(q) # 0
    OBVIOUS
  <2> QED BY <2>1, Small
<1>2. /\ Tail(q) \in Seq({"send", "recv"}) /\ Len(Tail(q)) = Len(q) - 1
      /\ \A i \in 1..(Len(q) - 1) : Tail(q)[i] = q[i + 1]
      /\ Head(q) = q[1] /\ Head(q) \in {"send", "recv"}
  OBVIOUS
<1> QED BY <1>1, <1>2 DEF Count, Is

LEMMA CountPush ==
  ASSUME NEW q \in Seq({"send", "recv"}), Len(q) <= 2, NEW x,
         NEW e \in {"send", "recv"}
  PROVE  /\ q \o <<e>> \in Seq({"send", "recv"})
         /\ Len(q \o <<e>>) = Len(q) + 1
         /\ Count(q \o <<e>>, x) = Count(q, x) + (IF e = x THEN 1 ELSE 0)
         /\ q # <<>> => (q \o <<e>>)[1] = q[1]
<1>1. Len(q) \in {0, 1, 2}
  <2>1. Len(q) \in Nat
    OBVIOUS
  <2> QED BY <2>1, Small
<1>2. /\ q \o <<e>> \in Seq({"send", "recv"})
      /\ Len(q \o <<e>>) = Len(q) + 1
      /\ \A i \in 1..Len(q) : (q \o <<e>>)[i] = q[i]
      /\ (q \o <<e>>)[Len(q) + 1] = e
  OBVIOUS
<1>3. q # <<>> => Len(q) >= 1
  OBVIOUS
<1> QED BY <1>1, <1>2, <1>3 DEF Count, Is
-----------------------------------------------------------------------------
(* The steps                                                                 *)

LEMMA CountsTypes ==
  ASSUME Types, NEW s \in Sides
  PROVE  /\ Count(cq[s], "send") \in 0..3 /\ Count(cq[s], "recv") \in 0..3
         /\ sendState[s] \in 0..3 /\ recvState[s] \in 0..2
         /\ Len(unacked[s]) \in Nat /\ Len(sq[s]) \in Nat
         /\ posted[s] \in 0..1 /\ mrs[s] \in 0..1
         /\ Acked(s) \in Nat /\ Arrived(s) \in Nat /\ Requested(s) \in Nat
         /\ Heard(s) \in Nat
<1>1. Count(cq[s], "send") \in 0..3 /\ Count(cq[s], "recv") \in 0..3
  BY CountType
<1>2. unacked[s] \in Seq({"send", "rdma"}) /\ sq[s] \in Seq({"send", "rdma"})
  BY DEF Types
<1>3. Len(unacked[s]) \in Nat /\ Len(sq[s]) \in Nat
  BY <1>2
<1>4. /\ sendState[s] \in 0..3 /\ recvState[s] \in 0..2
      /\ posted[s] \in 0..1 /\ mrs[s] \in 0..1
  BY DEF Types
<1>5. Acked(s) \in Nat /\ Heard(s) \in Nat
  BY <1>1, <1>4 DEF Acked, Heard
<1>6. Arrived(s) \in Nat
  BY <1>3, <1>5 DEF Arrived
<1>7. Requested(s) \in Nat
  BY <1>3, <1>6 DEF Requested
<1> QED BY <1>1, <1>3, <1>4, <1>5, <1>6, <1>7

LEMMA Bounds ==
  ASSUME Types, NEW s \in Sides, Queued(s), Received(s)
  PROVE  /\ Acked(s) <= Arrived(s) /\ Arrived(s) <= Requested(s)
         /\ Requested(s) <= 3 /\ Arrived(s) <= 3 /\ Acked(s) <= 3
         /\ Heard(s) <= 2
<1>1. /\ mrs[s] \in 0..1 /\ posted[s] \in 0..1
      /\ Len(unacked[s]) \in Nat /\ Len(sq[s]) \in Nat
      /\ Acked(s) \in Nat /\ Arrived(s) \in Nat /\ Requested(s) \in Nat
      /\ Heard(s) \in Nat
  BY CountsTypes
<1>2. Acked(s) <= Arrived(s)
  BY <1>1 DEF Arrived
<1>3. Arrived(s) <= Requested(s)
  BY <1>1 DEF Requested
<1>4. Requested(s) <= 3
  BY <1>1 DEF Queued
<1>5. Heard(s) <= 2
  BY <1>1 DEF Received
<1> QED BY <1>1, <1>2, <1>3, <1>4, <1>5

LEMMA Frame ==
  ASSUME NEW t \in Sides, SameAt(t)
  PROVE  /\ Acked(t)' = Acked(t) /\ Arrived(t)' = Arrived(t)
         /\ Requested(t)' = Requested(t) /\ Heard(t)' = Heard(t)
         /\ Queued(t) => Queued(t)'
         /\ Received(t) => Received(t)'
         /\ Script(t) /\ (\A r \in Sides : discon[r] => discon'[r])
              => Script(t)'
<1>1. /\ Acked(t)' = Acked(t) /\ Arrived(t)' = Arrived(t)
      /\ Requested(t)' = Requested(t) /\ Heard(t)' = Heard(t)
  BY DEF SameAt, Acked, Arrived, Requested, Heard
<1>2. Swapping(t)' = Swapping(t) /\ Armed(t)' = Armed(t) /\ MrDue(t)' = MrDue(t)
  BY DEF SameAt, Swapping, Armed, MrDue
<1>3. Queued(t) => Queued(t)'
  BY <1>1, <1>2 DEF SameAt, Queued
<1>4. Received(t) => Received(t)'
  BY <1>1, <1>2 DEF SameAt, Received
<1>5. Script(t) /\ (\A r \in Sides : discon[r] => discon'[r]) => Script(t)'
  BY <1>2 DEF SameAt, Script
<1> QED BY <1>1, <1>3, <1>4, <1>5

(* A poll that goes on to Proceed.                                           *)
LEMMA ProceedStep ==
  ASSUME Inv, NEW s \in Sides, NEW ss, NEW rs,
         ~gone[s], ~spinning[s], cq[s] # <<>>, Proceed(s, ss, rs),
         UNCHANGED <<mode, cm, connected, recvMsg, unacked, spinning, got, gone,
                     died, mrs>>,
         \/ /\ Head(cq[s]) = "send"
            /\ ss = sendState[s] + 1 /\ rs = recvState[s]
            /\ posted' = posted
         \/ /\ Head(cq[s]) = "recv" /\ recvState[s] >= 1
            /\ ss = sendState[s] /\ rs = recvState[s] + 1
            /\ posted' = posted
         \/ /\ Head(cq[s]) = "recv" /\ recvState[s] = 0 /\ sendState[s] >= 1
            /\ ss = sendState[s] /\ rs = recvState[s] + 1
            /\ PostReceives(s)
  PROVE  Inv'
<1> DEFINE p == Peer(s)
<1>0. p \in Sides /\ p # s /\ Peer(p) = s /\ Sides = {s, p}
  BY Pair
<1>1. /\ Types /\ Script(s) /\ Queued(s) /\ Received(s) /\ cm = "up"
      /\ Script(p) /\ Finished(s) /\ Finished(p)
  BY <1>0 DEF Inv, Idle
<1>2. cq[s] \in Seq({"send", "recv"}) /\ Len(cq[s]) <= 3
  BY <1>1 DEF Types, Queued
<1>3. /\ Tail(cq[s]) \in Seq({"send", "recv"})
      /\ Len(Tail(cq[s])) = Len(cq[s]) - 1
      /\ Head(cq[s]) = cq[s][1]
      /\ Count(Tail(cq[s]), "send")
           = Count(cq[s], "send") - (IF Head(cq[s]) = "send" THEN 1 ELSE 0)
      /\ Count(Tail(cq[s]), "recv")
           = Count(cq[s], "recv") - (IF Head(cq[s]) = "recv" THEN 1 ELSE 0)
  BY <1>2, CountTail
<1>4. Count(Tail(cq[s]), "send") \in 0..3 /\ Count(Tail(cq[s]), "recv") \in 0..3
  BY CountType
<1>5. /\ Count(cq[s], "send") \in 0..3 /\ Count(cq[s], "recv") \in 0..3
      /\ sendState[s] \in 0..3 /\ recvState[s] \in 0..2
      /\ Len(unacked[s]) \in Nat /\ Len(sq[s]) \in Nat /\ posted[s] \in 0..1
      /\ mrs[s] \in 0..1 /\ Acked(s) \in Nat /\ Heard(s) \in Nat
  BY <1>0, <1>1, CountsTypes
<1>6. /\ Acked(s) = ss + Count(Tail(cq[s]), "send")
      /\ Heard(s) = rs + Count(Tail(cq[s]), "recv")
  BY <1>3, <1>4, <1>5 DEF Acked, Heard
<1>7. /\ Acked(s) <= 3 /\ Heard(s) <= 2
      /\ Acked(s) <= Arrived(s) /\ Arrived(s) <= Requested(s)
      /\ Requested(s) <= 3 /\ Arrived(s) \in Nat /\ Requested(s) \in Nat
  BY <1>1, Bounds, CountsTypes
<1>8. ss \in 0..3 /\ rs \in 0..2
  <2>1. ss >= 0 /\ rs >= 0 /\ ss \in Int /\ rs \in Int
    BY <1>5
  <2> QED BY <2>1, <1>4, <1>6, <1>7
<1>9. Head(cq[s]) = "recv" => Count(cq[s], "recv") > 0
  BY <1>3, <1>4, <1>5
<1>10. Head(cq[s]) = "recv" => sendState[s] >= 1
  <2>1. Head(cq[s]) = "recv" /\ sendState[s] = 0 => s # "client"
                                                    /\ recvState[s] # 1
    BY <1>1, <1>3, <1>9 DEF Received
  <2> QED BY <2>1, <1>1, <1>5 DEF Script
<1>11. ss = 3 /\ rs = 2 =>
         posted[s] = 0 /\ sq[s] = <<>> /\ unacked[s] = <<>>
  <2> HAVE ss = 3 /\ rs = 2
  <2>1. Acked(s) = 3 /\ Heard(s) = 2
    BY <1>4, <1>5, <1>6, <1>7
  <2>2. recvState[s] >= 1
    BY <1>5
  <2>3. posted[s] = 0
    BY <2>1, <2>2, <1>1, <1>5 DEF Received
  <2>4. Len(unacked[s]) = 0
    BY <2>1, <1>5, <1>7 DEF Arrived
  <2>5. Len(sq[s]) = 0
    BY <2>1, <1>5, <1>7 DEF Requested
  <2>6. unacked[s] \in Seq({"send", "rdma"}) /\ sq[s] \in Seq({"send", "rdma"})
    BY <1>1 DEF Types
  <2> QED BY <2>3, <2>4, <2>5, <2>6
<1>12. /\ sendState' = [sendState EXCEPT ![s] = ss]
       /\ recvState' = [recvState EXCEPT ![s] = rs]
       /\ cq' = [cq EXCEPT ![s] = Tail(@)]
       /\ discon' = IF ss = 3 /\ rs = 2 THEN [discon EXCEPT ![s] = TRUE]
                    ELSE discon
       /\ sq' = IF ss = 1 /\ rs = 1
                THEN [sq EXCEPT ![s] = @ \o <<"rdma", "send">>] ELSE sq
       /\ sendMsg' = IF ss = 1 /\ rs = 1 THEN [sendMsg EXCEPT ![s] = "DONE"]
                     ELSE sendMsg
  BY <1>11 DEF Proceed, RdmaRequests, Disconnect, Set, Push, Pop
<1>13. posted' = IF recvState[s] = 0 /\ Head(cq[s]) = "recv"
                 THEN [posted EXCEPT ![s] = @ + 1] ELSE posted
  BY <1>5 DEF PostReceives, Add
<1>14. /\ sendState'[s] = ss /\ recvState'[s] = rs /\ cq'[s] = Tail(cq[s])
       /\ discon'[s] = IF ss = 3 /\ rs = 2 THEN TRUE ELSE discon[s]
       /\ sq'[s] = IF ss = 1 /\ rs = 1
                   THEN sq[s] \o <<"rdma", "send">> ELSE sq[s]
       /\ sendMsg'[s] = IF ss = 1 /\ rs = 1 THEN "DONE" ELSE sendMsg[s]
       /\ posted'[s] = IF recvState[s] = 0 /\ Head(cq[s]) = "recv"
                       THEN posted[s] + 1 ELSE posted[s]
  BY <1>1, <1>12, <1>13 DEF Types
<1>15. SameAt(p)
  BY <1>0, <1>1, <1>12, <1>13 DEF SameAt, Types
<1>16. Acked(s)' = Acked(s) /\ Heard(s)' = Heard(s) /\ Arrived(s)' = Arrived(s)
  <2>1. Acked(s)' = Acked(s) /\ Heard(s)' = Heard(s)
    BY <1>6, <1>14 DEF Acked, Heard
  <2> QED BY <2>1 DEF Arrived
<1>17. Swapping(s)' <=> ss >= 1 /\ rs >= 1
  BY <1>14 DEF Swapping
<1>18. Queued(s)'
  <2>1. Len(cq'[s]) <= 3 /\ Len(cq[s]) \in Nat
    BY <1>2, <1>3, <1>14
  <2>2. CASE ss = 1 /\ rs = 1
    <3>1. ~Swapping(s)
      BY <2>2, <1>5 DEF Swapping
    <3>2. Requested(s) = mrs[s]
      BY <3>1, <1>1 DEF Queued
    <3>3. Requested(s) = 1 /\ Arrived(s) = 1 /\ Acked(s) = 1
      BY <3>2, <2>2, <1>4, <1>5, <1>6, <1>7
    <3>4. Len(sq[s]) = 0 /\ Len(unacked[s]) = 0
      <4>1. 1 = 1 + Len(unacked[s])
        BY <3>3 DEF Arrived
      <4>2. 1 = 1 + Len(sq[s])
        BY <3>3 DEF Requested
      <4> QED BY <4>1, <4>2, <1>5
    <3>5. sq[s] = <<>> /\ DOMAIN unacked[s] = {}
      BY <3>4, <1>1 DEF Types
    <3>6. sq[s] \o <<"rdma", "send">> = <<"rdma", "send">>
      BY <3>5
    <3>7. sq'[s] = <<"rdma", "send">>
      BY <3>6, <1>14, <2>2
    <3>8. /\ Len(sq'[s]) = 2 /\ DOMAIN sq'[s] = 1..2
          /\ sq'[s][1] = "rdma" /\ sq'[s][2] = "send"
      BY <3>7
    <3>9. Requested(s)' = 3
      BY <3>3, <3>8, <1>16 DEF Requested
    <3>10. \A i \in 1..2 : sq'[s][i] = Request(1 + i)
      BY <3>8 DEF Request
    <3>11. Swapping(s)'
      BY <2>2, <1>17
    <3>12. \A i \in DOMAIN sq'[s] : sq'[s][i] = Request(Arrived(s)' + i)
      BY <3>3, <3>8, <3>10, <1>16
    <3>13. DOMAIN unacked'[s] = {} /\ sendMsg'[s] = "DONE"
      BY <3>5, <2>2, <1>14
    <3> QED BY <2>1, <3>9, <3>11, <3>12, <3>13 DEF Queued
  <2>3. CASE ~(ss = 1 /\ rs = 1)
    <3>1. Swapping(s)' = Swapping(s)
      <4>1. CASE Head(cq[s]) = "send"
        <5>1. ss = sendState[s] + 1 /\ rs = recvState[s]
          BY <4>1
        <5>2. sendState[s] = 0 => recvState[s] = 0
          BY <5>1, <2>3, <1>1, <1>5 DEF Script
        <5> QED BY <5>1, <5>2, <1>5, <1>17 DEF Swapping
      <4>2. CASE Head(cq[s]) = "recv"
        <5>1. ss = sendState[s] /\ rs = recvState[s] + 1
          BY <4>2
        <5>2. CASE recvState[s] >= 1
          BY <5>1, <5>2, <1>5, <1>17 DEF Swapping
        <5>3. CASE recvState[s] = 0
          <6>1. ~Swapping(s)
            BY <5>3 DEF Swapping
          <6>2. Requested(s) = mrs[s]
            BY <6>1, <1>1 DEF Queued
          <6>3. ss <= 1
            BY <6>2, <1>4, <1>5, <1>6, <1>7
          <6> QED BY <6>3, <5>1, <5>3, <2>3, <1>5, <1>10, <4>2
        <5> QED BY <5>2, <5>3, <1>5
      <4> QED BY <4>1, <4>2
    <3>2. sq'[s] = sq[s] /\ sendMsg'[s] = sendMsg[s]
      BY <2>3, <1>14
    <3>3. Requested(s)' = Requested(s)
      BY <3>2, <1>16 DEF Requested
    <3> QED BY <2>1, <3>1, <3>2, <3>3, <1>1, <1>16 DEF Queued
  <2> QED BY <2>2, <2>3
<1>19. recvState[s] = 0 /\ Head(cq[s]) = "recv" => s = "client"
  BY <1>1, <1>5, <1>10 DEF Script
<1>20. Received(s)'
  <2>1. Armed(s)' = Armed(s)
    BY DEF Armed
  <2>2. posted'[s] + Heard(s) = (IF Armed(s) THEN 1 ELSE 0)
                                + IF rs >= 1 THEN 1 ELSE 0
    BY <1>1, <1>5, <1>14 DEF Received
  <2>3. ss = 0 => ss = sendState[s] /\ Head(cq[s]) # "recv"
    BY <1>5, <1>10
  <2>4. ss # 0
    BY <2>3, <1>5
  <2> QED BY <2>1, <2>2, <2>4, <1>1, <1>14, <1>16 DEF Received
<1>21. ~discon[s]
  BY <1>1, <1>5, <1>8 DEF Script
<1>22. rs >= 1 /\ s # "client" => recvState[s] >= 1
  BY <1>5, <1>19
<1>23. mrs'[s] = mrs[s] /\ (MrDue(s)' <=> MrDue(s))
  BY <1>5, <1>14, <1>22 DEF MrDue
<1>24. ss >= 1 /\ s # "client" => recvState[s] >= 1
  <2>1. CASE Swapping(s)
    BY <2>1 DEF Swapping
  <2>2. CASE ~Swapping(s)
    <3>1. ss >= 1 => mrs[s] = 1
      BY <2>2, <1>1, <1>4, <1>5, <1>6, <1>7 DEF Queued
    <3> QED BY <3>1, <1>1 DEF Script, MrDue
  <2> QED BY <2>1, <2>2
<1>25. ss = 3 /\ rs = 2 => got[s]
  <2>1. ss = 3 /\ rs = 2 => Heard(s) = 2 /\ Acked(s) = 3
    BY <1>4, <1>5, <1>6, <1>7
  <2> QED BY <2>1, <1>1 DEF Received, Types
<1>26. rs >= 1 => ss >= 1
  BY <1>1, <1>5, <1>10 DEF Script
<1>27. Script(s)'
  BY <1>0, <1>1, <1>5, <1>14, <1>21, <1>23, <1>24, <1>25, <1>26 DEF Script
<1>28. Script(p)'
  BY <1>0, <1>1, <1>15, <1>12, Frame DEF Types
<1>29. Finished(p)'
  BY <1>0, <1>1, <1>5, <1>14, <1>15 DEF Finished, SameAt
<1>30. Finished(s)'
  <2>1. SUFFICES ASSUME ss = 3, rs = 2
                 PROVE  /\ sendState[p] >= 1 /\ recvState[p] >= 1
                        /\ mode = "write" => got[p]
    BY <1>0, <1>14, <1>15, <1>21 DEF Finished, SameAt
  <2>2. CASE gone[p]
    <3>1. discon[p]
      BY <2>2, <1>0, <1>1, <1>21 DEF Script
    <3> QED BY <3>1, <1>1 DEF Script
  <2>3. CASE ~gone[p]
    <3>1. Linkage(s) /\ Linkage(p) /\ Queued(p) /\ Received(p)
      BY <2>3, <1>0 DEF Inv
    <3>2. Heard(s) = 2 /\ Acked(s) = 3 /\ Arrived(s) >= 2
      BY <2>1, <1>4, <1>5, <1>6, <1>7
    <3>3. Arrived(p) = 3
      BY <3>1, <3>2, <1>0 DEF Linkage, Messages
    <3>4. Requested(p) = 3 /\ mrs[p] \in 0..1
      BY <3>1, <3>3, <1>0, <1>1, Bounds, CountsTypes
    <3>5. Swapping(p)
      BY <3>1, <3>4 DEF Queued
    <3> QED BY <3>1, <3>2, <3>5 DEF Linkage, Swapping
  <2> QED BY <2>2, <2>3
<1>31. \A r \in Sides : ~gone'[r] => Queued(r)' /\ Received(r)'
  <2>1. ~gone'[p] => Queued(p)' /\ Received(p)'
    BY <1>0, <1>15, Frame DEF Inv
  <2> QED BY <2>1, <1>0, <1>18, <1>20
<1>32. (\A r \in Sides : ~gone'[r]) => \A r \in Sides : Linkage(r)'
  <2>1. Heard(p)' = Heard(p) /\ Arrived(p)' = Arrived(p)
    BY <1>0, <1>15, Frame
  <2> QED BY <2>1, <1>0, <1>16 DEF Inv, Linkage
<1>33. Types'
  <2>1. sendState' \in [Sides -> 0..3] /\ recvState' \in [Sides -> 0..2]
    BY <1>1, <1>8, <1>12 DEF Types
  <2>5. posted' \in [Sides -> 0..1]
    <3>1. recvState[s] = 0 /\ Head(cq[s]) = "recv" => Heard(s) >= 1
      BY <1>4, <1>5, <1>6, <1>8
    <3>2. recvState[s] = 0 /\ Head(cq[s]) = "recv" => posted[s] = 0
      BY <3>1, <1>1, <1>5 DEF Received
    <3> QED BY <3>2, <1>1, <1>13 DEF Types
  <2>2. sq' \in [Sides -> Seq({"send", "rdma"})]
    <3>1. sq[s] \o <<"rdma", "send">> \in Seq({"send", "rdma"})
      BY <1>1 DEF Types
    <3> QED BY <3>1, <1>1, <1>12 DEF Types
  <2>3. cq' \in [Sides -> Seq({"send", "recv"})]
    BY <1>1, <1>3, <1>12 DEF Types
  <2>4. /\ discon' \in [Sides -> BOOLEAN]
        /\ sendMsg' \in [Sides -> {"unset", "MR", "DONE"}]
    BY <1>1, <1>12 DEF Types
  <2> QED BY <2>1, <2>2, <2>3, <2>4, <2>5, <1>1 DEF Types
<1> QED
  <2>1. cm' = "up"
    BY <1>1
  <2>2. \A r \in Sides : Script(r)' /\ Finished(r)'
    BY <1>0, <1>27, <1>28, <1>29, <1>30
  <2> QED BY <2>1, <2>2, <1>31, <1>32, <1>33 DEF Inv
(* What is polled: the region first, and only then DONE.                     *)
LEMMA PollFacts ==
  ASSUME Inv, NEW s \in Sides, ~gone[s], cq[s] # <<>>
  PROVE  /\ Head(cq[s]) \in {"send", "recv"}
         /\ Head(cq[s]) = "recv" =>
              /\ recvMsg[s] = "MR" <=> recvState[s] = 0
              /\ sendState[s] = 0 => s = "server" /\ recvState[s] = 0
<1>1. Types /\ Script(s) /\ Queued(s) /\ Received(s)
  BY DEF Inv
<1>2. cq[s] \in Seq({"send", "recv"}) /\ Len(cq[s]) <= 3
  BY <1>1 DEF Types, Queued
<1>3. /\ Head(cq[s]) \in {"send", "recv"} /\ Head(cq[s]) = cq[s][1]
      /\ Count(Tail(cq[s]), "recv")
           = Count(cq[s], "recv") - (IF Head(cq[s]) = "recv" THEN 1 ELSE 0)
  BY <1>2, CountTail
<1>4. /\ Count(cq[s], "recv") \in 0..3 /\ Count(Tail(cq[s]), "recv") \in 0..3
      /\ sendState[s] \in 0..3 /\ recvState[s] \in 0..2
      /\ posted[s] \in 0..1 /\ Heard(s) \in Nat /\ Heard(s) <= 2
  BY <1>1, CountType, CountsTypes, Bounds
<1>5. SUFFICES ASSUME Head(cq[s]) = "recv"
               PROVE  /\ recvMsg[s] = "MR" <=> recvState[s] = 0
                      /\ sendState[s] = 0 => s = "server" /\ recvState[s] = 0
  BY <1>3
<1>6. Heard(s) > recvState[s]
  BY <1>3, <1>4, <1>5 DEF Heard
<1>7. recvMsg[s] = "MR" <=> recvState[s] = 0
  <2>1. recvState[s] = 0 => Heard(s) = 1
    BY <1>1, <1>4, <1>6 DEF Received
  <2>2. recvState[s] # 0 => Heard(s) = 2
    BY <1>4, <1>6
  <2> QED BY <2>1, <2>2, <1>1 DEF Received
<1>8. sendState[s] = 0 => s = "server" /\ recvState[s] = 0
  <2>1. Count(cq[s], "recv") > 0
    BY <1>3, <1>4, <1>5
  <2>2. sendState[s] = 0 => s # "client" /\ recvState[s] # 1
    BY <2>1, <1>1, <1>3, <1>5 DEF Received
  <2> QED BY <2>2, <1>1, <1>4 DEF Script, Sides
<1> QED BY <1>7, <1>8

(* The server answers the client's region, and will spin for connected.      *)
LEMMA AnswerStep ==
  ASSUME Inv, NEW s \in Sides, PollMr(s), sendState[s] = 0
  PROVE  Inv'
<1> DEFINE p == Peer(s)
<1>0. p \in Sides /\ p # s /\ Peer(p) = s /\ Sides = {s, p}
  BY Pair
<1>1. ~gone[s] /\ ~spinning[s] /\ cq[s] # <<>> /\ Head(cq[s]) = "recv"
  BY DEF PollMr, Polls
<1>2. /\ Types /\ Script(s) /\ Queued(s) /\ Received(s) /\ cm = "up"
      /\ Script(p) /\ Finished(s) /\ Finished(p)
  BY <1>0, <1>1 DEF Inv, Idle
<1>3. s = "server" /\ recvState[s] = 0
  BY <1>1, PollFacts
<1>4. cq[s] \in Seq({"send", "recv"}) /\ Len(cq[s]) <= 3
  BY <1>2 DEF Types, Queued
<1>5. /\ Tail(cq[s]) \in Seq({"send", "recv"})
      /\ Len(Tail(cq[s])) = Len(cq[s]) - 1 /\ Len(cq[s]) \in Nat
      /\ Count(Tail(cq[s]), "send") = Count(cq[s], "send")
      /\ Count(Tail(cq[s]), "recv") = Count(cq[s], "recv") - 1
  BY <1>1, <1>4, CountTail, CountType
<1>6. /\ Count(cq[s], "send") \in 0..3 /\ Count(cq[s], "recv") \in 0..3
      /\ Count(Tail(cq[s]), "recv") \in 0..3
      /\ Len(unacked[s]) \in Nat /\ Len(sq[s]) \in Nat /\ posted[s] \in 0..1
      /\ mrs[s] \in 0..1 /\ Acked(s) \in Nat /\ Heard(s) \in Nat
      /\ Requested(s) \in Nat /\ Arrived(s) \in Nat
      /\ Acked(s) <= Arrived(s) /\ Arrived(s) <= Requested(s)
  BY <1>2, CountType, CountsTypes, Bounds
<1>7. Requested(s) = 0 /\ mrs[s] = 0
  BY <1>2, <1>3 DEF Queued, Swapping, Script, MrDue
<1>8. Acked(s) = 0 /\ Arrived(s) = 0 /\ Len(unacked[s]) = 0 /\ Len(sq[s]) = 0
  BY <1>6, <1>7 DEF Arrived, Requested
<1>9. Heard(s) >= 1 /\ posted[s] = 0 /\ Heard(s) = 1
  BY <1>2, <1>3, <1>6, <1>5 DEF Heard, Received
<1>10. Count(Tail(cq[s]), "recv") = 0
  BY <1>3, <1>5, <1>6, <1>9 DEF Heard
<1>11. /\ posted' = [posted EXCEPT ![s] = @ + 1]
       /\ sendMsg' = [sendMsg EXCEPT ![s] = "MR"]
       /\ spinning' = [spinning EXCEPT ![s] = TRUE]
       /\ recvState' = [recvState EXCEPT ![s] = @ + 1]
       /\ cq' = [cq EXCEPT ![s] = Tail(@)]
       /\ UNCHANGED <<sendState, sq, discon, mode, cm, connected, recvMsg,
                      unacked, got, gone, died, mrs>>
  BY DEF PollMr, Set, Add, Pop, PostReceives
<1>12. /\ posted'[s] = 1 /\ sendMsg'[s] = "MR" /\ spinning'[s]
       /\ recvState'[s] = 1 /\ cq'[s] = Tail(cq[s])
  BY <1>2, <1>3, <1>9, <1>11 DEF Types
<1>13. SameAt(p)
  BY <1>0, <1>2, <1>11 DEF SameAt, Types
<1>14. /\ Acked(s)' = Acked(s) /\ Heard(s)' = Heard(s)
       /\ Arrived(s)' = Arrived(s) /\ Requested(s)' = Requested(s)
  <2>1. Acked(s)' = Acked(s)
    BY <1>5, <1>11, <1>12 DEF Acked
  <2>2. Heard(s)' = Heard(s)
    BY <1>3, <1>9, <1>10, <1>12 DEF Heard
  <2>3. Arrived(s)' = Arrived(s)
    BY <2>1, <1>11 DEF Arrived
  <2> QED BY <2>1, <2>2, <2>3, <1>11 DEF Requested
<1>15. Queued(s)'
  BY <1>2, <1>4, <1>5, <1>7, <1>11, <1>12, <1>14 DEF Queued, Swapping
<1>16. Received(s)'
  <2>1. Armed(s) /\ Armed(s)'
    BY <1>2, <1>3, <1>11 DEF Armed
  <2>2. Count(cq'[s], "recv") = 0
    BY <1>10, <1>12
  <2>3. Heard(s)' = 1 /\ Acked(s)' = 0 /\ recvMsg'[s] = "MR"
    BY <1>2, <1>8, <1>9, <1>11, <1>14 DEF Received
  <2> QED BY <2>1, <2>2, <2>3, <1>11, <1>12 DEF Received
<1>17. Script(s)'
  <2>1. ~MrDue(s)'
    BY <1>3, <1>12 DEF MrDue
  <2> QED BY <2>1, <1>2, <1>3, <1>7, <1>11, <1>12 DEF Script
<1>18. Script(p)'
  BY <1>0, <1>2, <1>13, <1>11, Frame
<1>19. Finished(s)' /\ Finished(p)'
  BY <1>0, <1>2, <1>3, <1>11, <1>12, <1>13 DEF Finished, SameAt, Script
<1>20. \A r \in Sides : ~gone'[r] => Queued(r)' /\ Received(r)'
  <2>1. ~gone'[p] => Queued(p)' /\ Received(p)'
    BY <1>0, <1>13, Frame DEF Inv, SameAt
  <2> QED BY <2>1, <1>0, <1>15, <1>16
<1>21. (\A r \in Sides : ~gone'[r]) => \A r \in Sides : Linkage(r)'
  <2>1. Heard(p)' = Heard(p) /\ Arrived(p)' = Arrived(p)
    BY <1>0, <1>13, Frame
  <2> QED BY <2>1, <1>0, <1>11, <1>14 DEF Inv, Linkage
<1>22. Types'
  <2>1. recvState' \in [Sides -> 0..2] /\ posted' \in [Sides -> 0..1]
    BY <1>2, <1>3, <1>9, <1>11 DEF Types
  <2>2. cq' \in [Sides -> Seq({"send", "recv"})]
    BY <1>2, <1>5, <1>11 DEF Types
  <2>3. /\ spinning' \in [Sides -> BOOLEAN]
        /\ sendMsg' \in [Sides -> {"unset", "MR", "DONE"}]
    BY <1>2, <1>11 DEF Types
  <2> QED BY <2>1, <2>2, <2>3, <1>2, <1>11 DEF Types
<1> QED
  <2>1. cm' = "up"
    BY <1>2, <1>11
  <2>2. \A r \in Sides : Script(r)' /\ Finished(r)'
    BY <1>0, <1>17, <1>18, <1>19
  <2> QED BY <2>1, <2>2, <1>20, <1>21, <1>22 DEF Inv

LEMMA PollSteps ==
  ASSUME Inv, NEW s \in Sides, PollSent(s) \/ PollDone(s) \/ PollMr(s)
  PROVE  Inv'
<1>1. ~gone[s] /\ ~spinning[s] /\ cq[s] # <<>>
  BY DEF PollSent, PollDone, PollMr, Polls
<1>2. /\ Head(cq[s]) \in {"send", "recv"}
      /\ Head(cq[s]) = "recv" => (recvMsg[s] = "MR" <=> recvState[s] = 0)
      /\ sendState[s] \in 0..3 /\ recvState[s] \in 0..2
  BY <1>1, PollFacts, CountsTypes DEF Inv
<1>3. CASE PollSent(s)
  <2>1. /\ Head(cq[s]) = "send"
        /\ Proceed(s, sendState[s] + 1, recvState[s])
        /\ UNCHANGED <<mode, cm, connected, recvMsg, unacked, spinning, got,
                       gone, died, mrs, posted>>
    BY <1>2, <1>3 DEF PollSent, Polls
  <2> QED BY <2>1, <1>1, ProceedStep
<1>4. CASE PollDone(s)
  <2>1. /\ Head(cq[s]) = "recv" /\ recvState[s] >= 1
        /\ Proceed(s, sendState[s], recvState[s] + 1)
        /\ UNCHANGED <<mode, cm, connected, recvMsg, unacked, spinning, got,
                       gone, died, mrs, posted>>
    BY <1>2, <1>4 DEF PollDone, Polls
  <2> QED BY <2>1, <1>1, ProceedStep
<1>5. CASE PollMr(s) /\ sendState[s] # 0
  <2>1. /\ Head(cq[s]) = "recv" /\ recvState[s] = 0 /\ sendState[s] >= 1
        /\ Proceed(s, sendState[s], recvState[s] + 1) /\ PostReceives(s)
        /\ UNCHANGED <<mode, cm, connected, recvMsg, unacked, spinning, got,
                       gone, died, mrs>>
    BY <1>2, <1>5 DEF PollMr, Polls
  <2> QED BY <2>1, <1>1, ProceedStep
<1> QED BY <1>3, <1>4, <1>5, AnswerStep
(* The wait is over: the server's region is its first request.               *)
LEMMA SendMrStep ==
  ASSUME Inv, NEW s \in Sides, SendMr(s)
  PROVE  Inv'
<1> DEFINE p == Peer(s)
<1>0. p \in Sides /\ p # s /\ Peer(p) = s /\ Sides = {s, p}
  BY Pair
<1>1. ~gone[s] /\ spinning[s]
  BY DEF SendMr
<1>2. /\ Types /\ Script(s) /\ Queued(s) /\ Received(s) /\ cm = "up"
      /\ Script(p) /\ Finished(s) /\ Finished(p)
  BY <1>0, <1>1 DEF Inv, Idle
<1>3. s = "server" /\ recvState[s] = 1 /\ sendState[s] = 0 /\ sendMsg[s] = "MR"
  BY <1>1, <1>2 DEF Script
<1>4. mrs[s] = 0 /\ Requested(s) = 0
  BY <1>1, <1>2, <1>3 DEF Queued, Swapping, Script, MrDue
<1>5. /\ Len(unacked[s]) \in Nat /\ Len(sq[s]) \in Nat /\ Acked(s) \in Nat
      /\ Arrived(s) \in Nat /\ Acked(s) <= Arrived(s)
      /\ Arrived(s) <= Requested(s)
  BY <1>2, CountsTypes, Bounds
<1>6. Arrived(s) = 0 /\ Len(unacked[s]) = 0 /\ Len(sq[s]) = 0
  BY <1>4, <1>5 DEF Arrived, Requested
<1>7. sq[s] = <<>>
  BY <1>2, <1>6 DEF Types
<1>8. /\ sq' = [sq EXCEPT ![s] = @ \o <<"send">>]
      /\ mrs' = [mrs EXCEPT ![s] = @ + 1]
      /\ spinning' = [spinning EXCEPT ![s] = FALSE]
      /\ UNCHANGED <<mode, cm, connected, state, recvMsg, posted, unacked, cq,
                     got, ends>>
  BY DEF SendMr, Set, Push, Add
<1>9. sq[s] \o <<"send">> = <<"send">>
  BY <1>7
<1>10. sq'[s] = <<"send">> /\ mrs'[s] = 1 /\ ~spinning'[s]
  BY <1>2, <1>4, <1>8, <1>9 DEF Types
<1>11. Len(sq'[s]) = 1 /\ DOMAIN sq'[s] = {1} /\ sq'[s][1] = "send"
  BY <1>10
<1>12. SameAt(p)
  BY <1>0, <1>2, <1>8 DEF SameAt, Types, state, ends
<1>13. /\ Acked(s)' = Acked(s) /\ Heard(s)' = Heard(s)
       /\ Arrived(s)' = 0 /\ Requested(s)' = 1
  <2>1. Acked(s)' = Acked(s) /\ Heard(s)' = Heard(s)
    BY <1>8 DEF Acked, Heard, state
  <2>2. Arrived(s)' = Arrived(s)
    BY <2>1, <1>8 DEF Arrived
  <2> QED BY <2>1, <2>2, <1>6, <1>11 DEF Requested
<1>14. Queued(s)'
  <2>1. ~Swapping(s)'
    BY <1>3, <1>8 DEF Swapping, state
  <2>2. \A i \in DOMAIN sq'[s] : sq'[s][i] = Request(Arrived(s)' + i)
    BY <1>11, <1>13 DEF Request
  <2> QED BY <2>1, <2>2, <1>2, <1>3, <1>8, <1>10, <1>13 DEF Queued, state
<1>15. Received(s)'
  BY <1>2, <1>8, <1>13 DEF Received, Armed, state
<1>16. Script(s)'
  BY <1>2, <1>3, <1>8, <1>10 DEF Script, MrDue, state, ends
<1>17. Script(p)'
  BY <1>0, <1>2, <1>12, <1>8, Frame DEF ends
<1>18. Finished(s)' /\ Finished(p)'
  BY <1>0, <1>2, <1>8 DEF Finished, state, ends
<1>19. \A r \in Sides : ~gone'[r] => Queued(r)' /\ Received(r)'
  <2>1. ~gone'[p] => Queued(p)' /\ Received(p)'
    BY <1>0, <1>12, Frame DEF Inv, SameAt
  <2> QED BY <2>1, <1>0, <1>14, <1>15
<1>20. (\A r \in Sides : ~gone'[r]) => \A r \in Sides : Linkage(r)'
  <2>1. Heard(p)' = Heard(p) /\ Arrived(p)' = Arrived(p)
    BY <1>0, <1>12, Frame
  <2> QED BY <2>1, <1>0, <1>6, <1>8, <1>13 DEF Inv, Linkage, ends
<1>21. Types'
  <2>1. mrs' \in [Sides -> 0..1]
    BY <1>2, <1>4, <1>8 DEF Types
  <2>2. sq' \in [Sides -> Seq({"send", "rdma"})]
    <3>1. <<"send">> \in Seq({"send", "rdma"})
      OBVIOUS
    <3> QED BY <3>1, <1>2, <1>8, <1>9 DEF Types
  <2> QED BY <2>1, <2>2, <1>2, <1>8 DEF Types, state, ends
<1> QED
  <2>1. cm' = "up"
    BY <1>2, <1>8
  <2>2. \A r \in Sides : Script(r)' /\ Finished(r)'
    BY <1>0, <1>16, <1>17, <1>18
  <2> QED BY <2>1, <2>2, <1>19, <1>20, <1>21 DEF Inv

(* A request is acknowledged, and what it has read is there.                 *)
LEMMA CompletesStep ==
  ASSUME Inv, NEW s \in Sides, Completes(s)
  PROVE  Inv'
<1> DEFINE p == Peer(s)
<1>0. p \in Sides /\ p # s /\ Peer(p) = s /\ Sides = {s, p}
  BY Pair
<1>1. ~gone[s] /\ unacked[s] # <<>>
  BY DEF Completes
<1>2. /\ Types /\ Script(s) /\ Queued(s) /\ Received(s) /\ cm = "up"
      /\ Script(p) /\ Finished(s) /\ Finished(p)
  BY <1>0, <1>1 DEF Inv, Idle
<1>3. /\ unacked' = [unacked EXCEPT ![s] = Tail(@)]
      /\ cq' = [cq EXCEPT ![s] = @ \o <<"send">>]
      /\ got' = IF Head(unacked[s]) = "rdma" /\ mode = "read"
                THEN [got EXCEPT ![s] = TRUE] ELSE got
      /\ UNCHANGED <<mode, cm, connected, state, recvMsg, posted, sq, spinning,
                     ends, mrs>>
  BY DEF Completes, Set, Push, Pop
<1>4. /\ Count(cq[s], "send") \in 0..3 /\ Count(cq[s], "recv") \in 0..3
      /\ sendState[s] \in 0..3 /\ recvState[s] \in 0..2
      /\ Len(unacked[s]) \in Nat /\ Len(sq[s]) \in Nat /\ posted[s] \in 0..1
      /\ mrs[s] \in 0..1 /\ Acked(s) \in Nat /\ Heard(s) \in Nat
      /\ Requested(s) \in Nat /\ Arrived(s) \in Nat
      /\ Arrived(s) <= Requested(s) /\ Requested(s) <= 3 /\ Heard(s) <= 2
  BY <1>2, CountsTypes, Bounds
<1>5. /\ unacked[s] \in Seq({"send", "rdma"})
      /\ cq[s] \in Seq({"send", "recv"}) /\ Len(cq[s]) <= 3
  BY <1>2 DEF Types, Queued
<1>6. /\ Tail(unacked[s]) \in Seq({"send", "rdma"})
      /\ Len(Tail(unacked[s])) = Len(unacked[s]) - 1 /\ Len(unacked[s]) >= 1
      /\ DOMAIN Tail(unacked[s]) = 1..(Len(unacked[s]) - 1)
      /\ DOMAIN unacked[s] = 1..Len(unacked[s])
      /\ Head(unacked[s]) = unacked[s][1]
      /\ \A i \in 1..(Len(unacked[s]) - 1) : Tail(unacked[s])[i]
                                               = unacked[s][i + 1]
  BY <1>1, <1>5
<1>7. Acked(s) < Arrived(s)
  BY <1>4, <1>6 DEF Arrived
<1>8. Len(cq[s]) <= 2
  <2>1. Count(cq[s], "send") + Count(cq[s], "recv") = Len(cq[s])
    BY <1>5, CountLen
  <2>2. sendState[s] + Count(cq[s], "send") <= 2
    BY <1>4, <1>7 DEF Acked
  <2>3. recvState[s] + Count(cq[s], "recv") <= 2
    BY <1>4 DEF Heard
  <2>4. CASE Swapping(s)
    BY <2>1, <2>2, <2>3, <2>4, <1>4 DEF Swapping
  <2>5. CASE ~Swapping(s)
    <3>1. Requested(s) <= 1
      BY <2>5, <1>2, <1>4 DEF Queued
    <3>2. Acked(s) = 0
      BY <3>1, <1>4, <1>7
    <3>3. Count(cq[s], "send") = 0
      BY <3>2, <1>4 DEF Acked
    <3> QED BY <2>1, <2>3, <3>3, <1>4
  <2> QED BY <2>4, <2>5
<1>9. /\ cq[s] \o <<"send">> \in Seq({"send", "recv"})
      /\ Len(cq[s] \o <<"send">>) <= 3
      /\ Count(cq[s] \o <<"send">>, "send") = Count(cq[s], "send") + 1
      /\ Count(cq[s] \o <<"send">>, "recv") = Count(cq[s], "recv")
      /\ cq[s] # <<>> => (cq[s] \o <<"send">>)[1] = cq[s][1]
  <2>1. /\ cq[s] \o <<"send">> \in Seq({"send", "recv"})
        /\ Len(cq[s] \o <<"send">>) = Len(cq[s]) + 1
        /\ Count(cq[s] \o <<"send">>, "send") = Count(cq[s], "send") + 1
        /\ Count(cq[s] \o <<"send">>, "recv") = Count(cq[s], "recv") + 0
        /\ cq[s] # <<>> => (cq[s] \o <<"send">>)[1] = cq[s][1]
    BY <1>5, <1>8, CountPush
  <2>2. Len(cq[s]) \in Nat
    BY <1>5
  <2> QED BY <2>1, <2>2, <1>4, <1>8
<1>10. /\ cq'[s] = cq[s] \o <<"send">> /\ unacked'[s] = Tail(unacked[s])
       /\ Head(unacked[s]) = "rdma" /\ mode = "read" => got'[s]
       /\ got[s] => got'[s]
       /\ mode = "write" => got' = got
  BY <1>2, <1>3 DEF Types
<1>11. SameAt(p)
  BY <1>0, <1>2, <1>3 DEF SameAt, Types, state, ends
<1>12. /\ Acked(s)' = Acked(s) + 1 /\ Heard(s)' = Heard(s)
       /\ Arrived(s)' = Arrived(s) /\ Requested(s)' = Requested(s)
  <2>1. Acked(s)' = Acked(s) + 1 /\ Heard(s)' = Heard(s)
    BY <1>3, <1>4, <1>9, <1>10 DEF Acked, Heard, state
  <2>2. Arrived(s)' = Arrived(s)
    BY <2>1, <1>4, <1>6, <1>10 DEF Arrived
  <2> QED BY <2>1, <2>2, <1>3 DEF Requested
<1>13. Queued(s)'
  <2>1. Swapping(s)' <=> Swapping(s)
    BY <1>3 DEF Swapping, state
  <2>2. \A i \in DOMAIN unacked'[s] : unacked'[s][i] = Request(Acked(s)' + i)
    <3>1. SUFFICES ASSUME NEW i \in 1..(Len(unacked[s]) - 1)
                   PROVE  unacked[s][i + 1] = Request(Acked(s) + 1 + i)
      BY <1>6, <1>10, <1>12
    <3>2. i + 1 \in DOMAIN unacked[s] /\ Acked(s) + (i + 1) = Acked(s) + 1 + i
      BY <1>4, <1>6
    <3> QED BY <3>2, <1>2 DEF Queued
  <2> QED BY <2>1, <2>2, <1>2, <1>3, <1>9, <1>10, <1>12 DEF Queued, state
<1>14. Received(s)'
  <2>1. mode = "read" /\ Acked(s)' >= 2 => got'[s]
    <3>1. Head(unacked[s]) = Request(Acked(s) + 1)
      BY <1>2, <1>4, <1>6 DEF Queued
    <3>2. Acked(s)' = 2 => Head(unacked[s]) = "rdma"
      BY <3>1, <1>4, <1>12 DEF Request
    <3>3. Acked(s)' > 2 => Acked(s) >= 2
      BY <1>4, <1>12
    <3> QED BY <3>2, <3>3, <1>2, <1>4, <1>10, <1>12 DEF Received
  <2>2. Count(cq[s], "recv") > 0 => cq[s] # <<>>
    BY CountEmpty
  <2> QED BY <2>1, <2>2, <1>2, <1>3, <1>9, <1>10, <1>12
          DEF Received, Armed, state
<1>15. Script(s)'
  BY <1>2, <1>3, <1>10 DEF Script, MrDue, state, ends
<1>16. Script(p)'
  BY <1>0, <1>2, <1>11, <1>3, Frame DEF ends
<1>17. Finished(s)' /\ Finished(p)'
  BY <1>0, <1>2, <1>3, <1>10, <1>11 DEF Finished, state, ends, SameAt
<1>18. \A r \in Sides : ~gone'[r] => Queued(r)' /\ Received(r)'
  <2>1. ~gone'[p] => Queued(p)' /\ Received(p)'
    BY <1>0, <1>11, Frame DEF Inv, SameAt
  <2> QED BY <2>1, <1>0, <1>13, <1>14
<1>19. (\A r \in Sides : ~gone'[r]) => \A r \in Sides : Linkage(r)'
  <2>1. Heard(p)' = Heard(p) /\ Arrived(p)' = Arrived(p)
    BY <1>0, <1>11, Frame
  <2>2. unacked[p] = <<>> => unacked'[p] = <<>>
    BY <1>11 DEF SameAt
  <2> QED BY <2>1, <2>2, <1>0, <1>1, <1>3, <1>10, <1>11, <1>12
          DEF Inv, Linkage, ends, SameAt
<1>20. Types'
  <2>1. /\ cq' \in [Sides -> Seq({"send", "recv"})]
        /\ unacked' \in [Sides -> Seq({"send", "rdma"})]
    BY <1>2, <1>3, <1>6, <1>9 DEF Types
  <2>2. got' \in [Sides -> BOOLEAN]
    BY <1>2, <1>3 DEF Types
  <2> QED BY <2>1, <2>2, <1>2, <1>3 DEF Types, state, ends
<1> QED
  <2>1. cm' = "up"
    BY <1>2, <1>3
  <2>2. \A r \in Sides : Script(r)' /\ Finished(r)'
    BY <1>0, <1>15, <1>16, <1>17
  <2> QED BY <2>1, <2>2, <1>18, <1>19, <1>20 DEF Inv
(* The request that arrives next: the data behind the region, and DONE last. *)
LEMMA ArrivalFacts ==
  ASSUME Inv, NEW s \in Sides, Arrives(s)
  PROVE  /\ Head(sq[s]) = Request(Arrived(s) + 1)
         /\ Arrived(s) + 1 <= Requested(s)
         /\ Requested(s) = 1 \/ Requested(s) = 3
         /\ Len(Tail(sq[s])) = Len(sq[s]) - 1
         /\ Tail(sq[s]) \in Seq({"send", "rdma"})
         /\ DOMAIN Tail(sq[s]) = 1..(Len(sq[s]) - 1)
         /\ \A i \in DOMAIN Tail(sq[s]) :
              Tail(sq[s])[i] = Request(Arrived(s) + 1 + i)
         /\ DOMAIN (unacked[s] \o <<Head(sq[s])>>) = 1..(Len(unacked[s]) + 1)
         /\ unacked[s] \o <<Head(sq[s])>> \in Seq({"send", "rdma"})
         /\ Len(unacked[s] \o <<Head(sq[s])>>) = Len(unacked[s]) + 1
         /\ \A i \in DOMAIN (unacked[s] \o <<Head(sq[s])>>) :
              (unacked[s] \o <<Head(sq[s])>>)[i] = Request(Acked(s) + i)
<1>1. ~gone[s] /\ sq[s] # <<>>
  BY DEF Arrives, Linked
<1>2. Types /\ Queued(s) /\ Received(s)
  BY <1>1 DEF Inv
<1>3. sq[s] \in Seq({"send", "rdma"}) /\ unacked[s] \in Seq({"send", "rdma"})
  BY <1>2 DEF Types
<1>4. /\ Head(sq[s]) \in {"send", "rdma"} /\ Head(sq[s]) = sq[s][1]
      /\ Len(sq[s]) \in Nat /\ Len(sq[s]) >= 1
      /\ DOMAIN sq[s] = 1..Len(sq[s])
      /\ Tail(sq[s]) \in Seq({"send", "rdma"})
      /\ Len(Tail(sq[s])) = Len(sq[s]) - 1
      /\ DOMAIN Tail(sq[s]) = 1..(Len(sq[s]) - 1)
      /\ \A i \in 1..(Len(sq[s]) - 1) : Tail(sq[s])[i] = sq[s][i + 1]
  BY <1>1, <1>3
<1>5. /\ Arrived(s) \in Nat /\ Requested(s) \in Nat /\ Acked(s) \in Nat
      /\ Len(unacked[s]) \in Nat /\ mrs[s] \in 0..1
  BY <1>2, CountsTypes
<1>6. Head(sq[s]) = Request(Arrived(s) + 1)
  BY <1>2, <1>4 DEF Queued
<1>7. Arrived(s) + 1 <= Requested(s)
  BY <1>4, <1>5 DEF Requested
<1>8. Requested(s) = 1 \/ Requested(s) = 3
  BY <1>2, <1>5, <1>7 DEF Queued
<1>9. \A i \in DOMAIN Tail(sq[s]) :
        Tail(sq[s])[i] = Request(Arrived(s) + 1 + i)
  <2>1. SUFFICES ASSUME NEW i \in 1..(Len(sq[s]) - 1)
                 PROVE  sq[s][i + 1] = Request(Arrived(s) + 1 + i)
    BY <1>4
  <2>2. i + 1 \in DOMAIN sq[s] /\ Arrived(s) + (i + 1) = Arrived(s) + 1 + i
    BY <1>4, <1>5
  <2> QED BY <2>2, <1>2 DEF Queued
<1> DEFINE u == unacked[s] \o <<Head(sq[s])>>
<1>10. /\ u \in Seq({"send", "rdma"}) /\ Len(u) = Len(unacked[s]) + 1
       /\ DOMAIN u = 1..(Len(unacked[s]) + 1)
       /\ \A i \in 1..Len(unacked[s]) : u[i] = unacked[s][i]
       /\ u[Len(unacked[s]) + 1] = Head(sq[s])
       /\ DOMAIN unacked[s] = 1..Len(unacked[s])
  BY <1>3, <1>4
<1>11. \A i \in DOMAIN u : u[i] = Request(Acked(s) + i)
  <2>1. SUFFICES ASSUME NEW i \in 1..(Len(unacked[s]) + 1)
                 PROVE  u[i] = Request(Acked(s) + i)
    BY <1>10
  <2>2. CASE i = Len(unacked[s]) + 1
    <3>1. Acked(s) + i = Arrived(s) + 1
      BY <2>2, <1>5 DEF Arrived
    <3> QED BY <3>1, <2>2, <1>6, <1>10
  <2>3. CASE i # Len(unacked[s]) + 1
    <3>1. i \in 1..Len(unacked[s])
      BY <2>3, <1>5
    <3> QED BY <3>1, <1>2, <1>10 DEF Queued
  <2> QED BY <2>2, <2>3
<1> HIDE DEF u
<1>12. /\ u \in Seq({"send", "rdma"}) /\ Len(u) = Len(unacked[s]) + 1
       /\ DOMAIN u = 1..(Len(unacked[s]) + 1)
       /\ \A i \in DOMAIN u : u[i] = Request(Acked(s) + i)
  BY <1>10, <1>11
<1> QED BY <1>4, <1>6, <1>7, <1>8, <1>9, <1>12 DEF u
(* A message arrives at p: there is room for it, and when p has not polled   *)
(* the completion of its region, that completion is ahead of the message.    *)
LEMMA MessageFacts ==
  ASSUME AcksFirst, Inv, NEW s \in Sides, NEW p, p = Peer(s), Arrives(s),
         Head(sq[s]) # "rdma"
  PROVE  /\ \/ Arrived(s) = 0 /\ Heard(p) = 0 /\ sendMsg[s] = "MR"
            \/ /\ Arrived(s) = 2 /\ Heard(p) = 1 /\ sendMsg[s] = "DONE"
               /\ mode = "write" => got[p]
         /\ Len(cq[p]) <= 2
         /\ sendState[p] = 0 /\ (p = "client" \/ recvState[p] = 1) =>
              cq[p] # <<>> /\ cq[p][1] = "send"
<1>0. p \in Sides /\ p # s /\ Peer(p) = s /\ Sides = {s, p}
  BY Pair
<1>1. /\ ~gone[s] /\ ~gone[p] /\ posted[p] > 0 /\ unacked[p] = <<>>
      /\ cm = "up"
  BY <1>0 DEF Arrives, Linked
<1>2. /\ Types /\ Script(s) /\ Queued(s) /\ Received(s) /\ Linkage(s)
      /\ Script(p) /\ Queued(p) /\ Received(p) /\ Linkage(p)
  BY <1>0, <1>1 DEF Inv
<1>3. /\ Head(sq[s]) = Request(Arrived(s) + 1)
      /\ Arrived(s) + 1 <= Requested(s)
      /\ Requested(s) = 1 \/ Requested(s) = 3
  BY ArrivalFacts
<1>4. /\ Arrived(s) \in Nat /\ Requested(s) \in Nat /\ Acked(s) \in Nat
      /\ Acked(s) <= Arrived(s) /\ Heard(s) \in Nat
      /\ sendState[s] \in 0..3 /\ recvState[s] \in 0..2 /\ mrs[s] \in 0..1
      /\ Count(cq[s], "send") \in 0..3 /\ Count(cq[s], "recv") \in 0..3
  BY <1>2, CountsTypes, Bounds
<1>5. /\ Arrived(p) \in Nat /\ Requested(p) \in Nat /\ Acked(p) \in Nat
      /\ Arrived(p) <= Requested(p) /\ Requested(p) <= 3 /\ Acked(p) <= 3
      /\ Acked(p) <= Requested(p)
      /\ Heard(p) \in Nat /\ Heard(p) <= 2 /\ posted[p] \in 0..1
      /\ sendState[p] \in 0..3 /\ recvState[p] \in 0..2 /\ mrs[p] \in 0..1
      /\ Count(cq[p], "send") \in 0..3 /\ Count(cq[p], "recv") \in 0..3
  BY <1>0, <1>2, CountsTypes, Bounds
<1>6. Arrived(s) \in {0, 2}
  BY <1>3, <1>4 DEF Request
<1>7. Heard(p) = Messages(Arrived(s))
  BY <1>2, <1>0 DEF Linkage
<1>8. Arrived(s) = 0 => Requested(s) = 1
  <2> HAVE Arrived(s) = 0
  <2>1. sendState[s] = 0
    BY <1>4 DEF Acked
  <2> QED BY <2>1, <1>2, <1>3, <1>4 DEF Queued, Swapping
<1>9. Arrived(s) = 2 => Requested(s) = 3
  BY <1>3
<1>10. \/ Arrived(s) = 0 /\ Heard(p) = 0 /\ sendMsg[s] = "MR"
       \/ /\ Arrived(s) = 2 /\ Heard(p) = 1 /\ sendMsg[s] = "DONE"
          /\ mode = "write" => got[p]
  BY <1>0, <1>2, <1>6, <1>7, <1>8, <1>9 DEF Messages, Queued, Linkage
<1>11. cq[p] \in Seq({"send", "recv"}) /\ Len(cq[p]) <= 3
  BY <1>0, <1>2 DEF Types, Queued
<1>12. Len(cq[p]) <= 2
  <2>1. Count(cq[p], "send") + Count(cq[p], "recv") = Len(cq[p])
    BY <1>11, CountLen
  <2>2. recvState[p] + Count(cq[p], "recv") <= 1
    BY <1>10 DEF Heard
  <2>3. sendState[p] + Count(cq[p], "send") <= 3
    BY <1>5 DEF Acked
  <2>4. CASE Swapping(p)
    BY <2>1, <2>2, <2>3, <2>4, <1>5 DEF Swapping
  <2>5. CASE ~Swapping(p)
    <3>1. Acked(p) <= 1
      BY <2>5, <1>2, <1>5 DEF Queued
    <3>2. sendState[p] + Count(cq[p], "send") <= 1
      BY <3>1 DEF Acked
    <3> QED BY <2>1, <2>2, <3>2, <1>5
  <2> QED BY <2>4, <2>5
<1>13. ASSUME sendState[p] = 0, p = "client" \/ recvState[p] = 1
       PROVE  cq[p] # <<>> /\ cq[p][1] = "send"
  <2>1. recvState[s] >= 1
    <3>1. CASE p = "client"
      <4>1. s = "server"
        BY <3>1, <1>0 DEF Sides
      <4>2. Swapping(s) \/ mrs[s] = 1
        BY <1>2, <1>3, <1>4 DEF Queued
      <4> QED BY <4>1, <4>2, <1>2 DEF Swapping, Script, MrDue
    <3>2. CASE recvState[p] = 1
      <4>1. Heard(p) >= 1
        BY <3>2, <1>5 DEF Heard
      <4>2. Requested(s) = 3
        BY <4>1, <1>9, <1>10
      <4>3. Swapping(s)
        BY <4>2, <1>2, <1>4 DEF Queued
      <4> QED BY <4>3 DEF Swapping
    <3> QED BY <3>1, <3>2, <1>13
  <2>2. Heard(s) >= 1
    BY <2>1, <1>4 DEF Heard
  <2>3. Arrived(p) >= 1
    BY <2>2, <1>0, <1>2, <1>5 DEF Linkage, Messages
  <2>4. Len(unacked[p]) = 0
    BY <1>1
  <2>5. Acked(p) >= 1
    BY <2>3, <2>4, <1>5 DEF Arrived
  <2>6. Count(cq[p], "send") >= 1
    BY <2>5, <1>5, <1>13 DEF Acked
  <2>7. cq[p] # <<>>
    BY <2>6, CountEmpty
  <2>8. CASE Count(cq[p], "recv") > 0
    BY <2>7, <2>8, <1>2, <1>13 DEF Received
  <2>9. CASE ~(Count(cq[p], "recv") > 0)
    <3>1. /\ Head(cq[p]) = cq[p][1] /\ Head(cq[p]) \in {"send", "recv"}
          /\ Count(Tail(cq[p]), "recv")
               = Count(cq[p], "recv") - (IF Head(cq[p]) = "recv" THEN 1 ELSE 0)
      BY <2>7, <1>11, CountTail
    <3>2. Count(Tail(cq[p]), "recv") \in 0..3
      BY CountType
    <3>3. Head(cq[p]) # "recv"
      BY <3>1, <3>2, <2>9, <1>5
    <3> QED BY <3>1, <3>3, <2>7
  <2> QED BY <2>8, <2>9
<1> QED BY <1>10, <1>12, <1>13

(* The data arrives, or a message.                                           *)
LEMMA ArrivesStep ==
  ASSUME AcksFirst, Inv, NEW s \in Sides, Arrives(s)
  PROVE  Inv'
<1> DEFINE p == Peer(s)
<1>0. p \in Sides /\ p # s /\ Peer(p) = s /\ Sides = {s, p}
  BY Pair
<1>1. /\ ~gone[s] /\ ~gone[p] /\ ~discon[s] /\ ~discon[p]
      /\ unacked[p] = <<>> /\ cm = "up"
  BY <1>0 DEF Arrives, Linked
<1>2. /\ Types /\ Script(s) /\ Queued(s) /\ Received(s) /\ Linkage(s)
      /\ Script(p) /\ Queued(p) /\ Received(p) /\ Linkage(p)
  BY <1>0, <1>1 DEF Inv
<1>3. /\ Head(sq[s]) = Request(Arrived(s) + 1)
      /\ Arrived(s) + 1 <= Requested(s)
      /\ Requested(s) = 1 \/ Requested(s) = 3
      /\ Len(Tail(sq[s])) = Len(sq[s]) - 1
      /\ Tail(sq[s]) \in Seq({"send", "rdma"})
      /\ \A i \in DOMAIN Tail(sq[s]) :
           Tail(sq[s])[i] = Request(Arrived(s) + 1 + i)
      /\ unacked[s] \o <<Head(sq[s])>> \in Seq({"send", "rdma"})
      /\ Len(unacked[s] \o <<Head(sq[s])>>) = Len(unacked[s]) + 1
      /\ \A i \in DOMAIN (unacked[s] \o <<Head(sq[s])>>) :
           (unacked[s] \o <<Head(sq[s])>>)[i] = Request(Acked(s) + i)
  BY ArrivalFacts
<1>4. /\ Arrived(s) \in Nat /\ Requested(s) \in Nat /\ Acked(s) \in Nat
      /\ Len(unacked[s]) \in Nat /\ Len(sq[s]) \in Nat
      /\ Heard(p) \in Nat /\ posted[p] \in 0..1 /\ recvState[p] \in 0..2
      /\ Count(cq[p], "send") \in 0..3 /\ Count(cq[p], "recv") \in 0..3
  BY <1>0, <1>2, CountsTypes
<1>5. /\ sq' = [sq EXCEPT ![s] = Tail(@)]
      /\ unacked' = [unacked EXCEPT ![s] = @ \o <<Head(sq[s])>>]
      /\ UNCHANGED <<mode, cm, connected, state, spinning, ends, mrs>>
  BY DEF Arrives, Set, Push, Pop
<1>6. /\ sq'[s] = Tail(sq[s]) /\ unacked'[s] = unacked[s] \o <<Head(sq[s])>>
      /\ sq'[p] = sq[p] /\ unacked'[p] = unacked[p]
  BY <1>0, <1>2, <1>5 DEF Types
<1>7. /\ recvMsg'[s] = recvMsg[s] /\ posted'[s] = posted[s] /\ cq'[s] = cq[s]
      /\ got'[s] <=> got[s]
      /\ got[p] => got'[p]
  BY <1>0, <1>2 DEF Arrives, Set, Push, Add, Types
<1>8. /\ Acked(s)' = Acked(s) /\ Heard(s)' = Heard(s)
      /\ Arrived(s)' = Arrived(s) + 1 /\ Requested(s)' = Requested(s)
  <2>1. Acked(s)' = Acked(s) /\ Heard(s)' = Heard(s)
    BY <1>5, <1>7 DEF Acked, Heard, state
  <2>2. Arrived(s)' = Arrived(s) + 1
    BY <2>1, <1>3, <1>4, <1>6 DEF Arrived
  <2> QED BY <2>1, <2>2, <1>3, <1>4, <1>6 DEF Requested
<1>9. Queued(s)'
  <2>1. Swapping(s)' <=> Swapping(s)
    BY <1>5 DEF Swapping, state
  <2>2. \A i \in DOMAIN unacked'[s] : unacked'[s][i] = Request(Acked(s)' + i)
    BY <1>3, <1>6, <1>8
  <2>3. \A i \in DOMAIN sq'[s] : sq'[s][i] = Request(Arrived(s)' + i)
    BY <1>3, <1>6, <1>8
  <2> QED BY <2>1, <2>2, <2>3, <1>2, <1>5, <1>7, <1>8 DEF Queued, state
<1>10. Received(s)'
  <2>1. Armed(s)' <=> Armed(s)
    BY <1>5 DEF Armed
  <2>2. sendState' = sendState /\ recvState' = recvState /\ mode' = mode
    BY <1>5 DEF state
  <2> QED BY <2>1, <2>2, <1>2, <1>7, <1>8 DEF Received
<1>11. Script(s)' /\ Script(p)' /\ Finished(s)' /\ Finished(p)'
  BY <1>0, <1>1, <1>2, <1>5, <1>7 DEF Script, Finished, MrDue, state, ends
<1>12. CASE Head(sq[s]) = "rdma"
  <2>1. /\ got' = IF mode = "write" THEN [got EXCEPT ![p] = TRUE] ELSE got
        /\ UNCHANGED <<recvMsg, posted, cq>>
    BY <1>12 DEF Arrives, Set
  <2>2. /\ Acked(p)' = Acked(p) /\ Heard(p)' = Heard(p)
        /\ Arrived(p)' = Arrived(p) /\ Requested(p)' = Requested(p)
    BY <2>1, <1>5, <1>6 DEF Acked, Heard, Arrived, Requested, state
  <2>3. Queued(p)'
    BY <2>1, <2>2, <1>2, <1>5, <1>6 DEF Queued, Swapping, state
  <2>4. Received(p)'
    BY <2>1, <2>2, <1>2, <1>5, <1>7 DEF Received, Armed, state
  <2>5. Arrived(s) = 1
    BY <1>3, <1>4, <1>12 DEF Request
  <2>6. Linkage(s)'
    <3>1. Heard(p) = 1 /\ Messages(2) = 1
      BY <2>5, <1>0, <1>2 DEF Linkage, Messages
    <3>2. mode = "write" => got'[p]
      BY <2>1, <1>0, <1>2 DEF Types
    <3> QED BY <3>1, <3>2, <2>2, <2>5, <1>0, <1>1, <1>5, <1>6, <1>8 DEF Linkage
  <2>7. Linkage(p)'
    <3>1. /\ Heard(s) = Messages(Arrived(p))
          /\ mode = "write" /\ Arrived(p) >= 2 => got[s]
      BY <1>0, <1>2 DEF Linkage
    <3>2. Heard(s)' = Messages(Arrived(p)')
      BY <3>1, <2>2, <1>8
    <3>3. mode' = "write" /\ Arrived(p)' >= 2 => got'[s]
      BY <3>1, <2>2, <1>5, <1>7
    <3> QED BY <3>2, <3>3, <1>0, <1>1, <1>6 DEF Linkage
  <2>8. Types'
    <3>1. /\ sq' \in [Sides -> Seq({"send", "rdma"})]
          /\ unacked' \in [Sides -> Seq({"send", "rdma"})]
          /\ got' \in [Sides -> BOOLEAN]
      BY <2>1, <1>2, <1>3, <1>5 DEF Types
    <3> QED BY <3>1, <2>1, <1>2, <1>5 DEF Types, state, ends
  <2>9. cm' = "up"
    BY <1>1, <1>5
  <2> QED BY <2>3, <2>4, <2>6, <2>7, <2>8, <2>9, <1>0, <1>9, <1>10, <1>11
          DEF Inv
<1>13. CASE Head(sq[s]) # "rdma"
  <2>1. /\ posted[p] > 0
        /\ posted' = [posted EXCEPT ![p] = @ + -1]
        /\ recvMsg' = [recvMsg EXCEPT ![p] = sendMsg[s]]
        /\ cq' = [cq EXCEPT ![p] = @ \o <<"recv">>]
        /\ got' = got
    BY <1>13 DEF Arrives, Set, Push, Add
  <2>2. /\ \/ Arrived(s) = 0 /\ Heard(p) = 0 /\ sendMsg[s] = "MR"
           \/ /\ Arrived(s) = 2 /\ Heard(p) = 1 /\ sendMsg[s] = "DONE"
              /\ mode = "write" => got[p]
        /\ Len(cq[p]) <= 2
        /\ sendState[p] = 0 /\ (p = "client" \/ recvState[p] = 1) =>
             cq[p] # <<>> /\ cq[p][1] = "send"
    BY <1>13, MessageFacts
  <2>3. /\ posted'[p] = 0 /\ recvMsg'[p] = sendMsg[s]
        /\ cq'[p] = cq[p] \o <<"recv">> /\ cq[p] \in Seq({"send", "recv"})
        /\ posted[p] = 1
    BY <2>1, <1>0, <1>2, <1>4 DEF Types
  <2>4. /\ cq[p] \o <<"recv">> \in Seq({"send", "recv"})
        /\ Len(cq[p] \o <<"recv">>) <= 3
        /\ Count(cq[p] \o <<"recv">>, "send") = Count(cq[p], "send")
        /\ Count(cq[p] \o <<"recv">>, "recv") = Count(cq[p], "recv") + 1
        /\ cq[p] # <<>> => (cq[p] \o <<"recv">>)[1] = cq[p][1]
    <3>1. /\ cq[p] \o <<"recv">> \in Seq({"send", "recv"})
          /\ Len(cq[p] \o <<"recv">>) = Len(cq[p]) + 1
          /\ Count(cq[p] \o <<"recv">>, "send") = Count(cq[p], "send") + 0
          /\ Count(cq[p] \o <<"recv">>, "recv") = Count(cq[p], "recv") + 1
          /\ cq[p] # <<>> => (cq[p] \o <<"recv">>)[1] = cq[p][1]
      BY <2>2, <2>3, CountPush
    <3>2. Len(cq[p]) \in Nat
      BY <2>3
    <3> QED BY <3>1, <3>2, <2>2, <1>4
  <2>5. /\ Acked(p)' = Acked(p) /\ Heard(p)' = Heard(p) + 1
        /\ Arrived(p)' = Arrived(p) /\ Requested(p)' = Requested(p)
    <3>1. Acked(p)' = Acked(p) /\ Heard(p)' = Heard(p) + 1
      BY <2>3, <2>4, <1>4, <1>5 DEF Acked, Heard, state
    <3>2. Arrived(p)' = Arrived(p)
      BY <3>1, <1>6 DEF Arrived
    <3> QED BY <3>1, <3>2, <1>6 DEF Requested
  <2>6. Queued(p)'
    BY <2>3, <2>4, <2>5, <1>2, <1>5, <1>6 DEF Queued, Swapping, state
  <2>7. Received(p)'
    <3>1. Armed(p)' <=> Armed(p)
      BY <1>5 DEF Armed
    <3>2. posted'[p] + Heard(p)' = (IF Armed(p) THEN 1 ELSE 0)
                                   + IF recvState[p] >= 1 THEN 1 ELSE 0
      BY <2>3, <2>5, <1>2, <1>4 DEF Received
    <3>3. /\ Heard(p)' = 1 => recvMsg'[p] = "MR"
          /\ Heard(p)' = 2 => recvMsg'[p] = "DONE"
          /\ mode = "write" /\ Heard(p)' = 2 => got[p]
      BY <2>2, <2>3, <2>5
    <3>4. sendState[p] = 0 /\ (p = "client" \/ recvState[p] = 1) =>
            cq'[p][1] = "send"
      BY <2>2, <2>3, <2>4
    <3>5. mode = "read" /\ Acked(p)' >= 2 => got[p]
      BY <2>5, <1>2 DEF Received
    <3> QED BY <3>1, <3>2, <3>3, <3>4, <3>5, <2>1, <1>5 DEF Received, state
  <2>8. Linkage(s)'
    <3>1. Heard(p)' = Messages(Arrived(s)')
      BY <2>2, <2>5, <1>8 DEF Messages
    <3>2. mode = "write" /\ Arrived(s)' >= 2 => got'[p]
      BY <2>1, <2>2, <1>8
    <3> QED BY <3>1, <3>2, <1>0, <1>1, <1>5, <1>6 DEF Linkage
  <2>9. Linkage(p)'
    <3>1. /\ Heard(s) = Messages(Arrived(p))
          /\ mode = "write" /\ Arrived(p) >= 2 => got[s]
      BY <1>0, <1>2 DEF Linkage
    <3>2. Heard(s)' = Messages(Arrived(p)')
      BY <3>1, <2>5, <1>8
    <3>3. mode' = "write" /\ Arrived(p)' >= 2 => got'[s]
      BY <3>1, <2>5, <1>5, <1>7
    <3> QED BY <3>2, <3>3, <1>0, <1>1, <1>6 DEF Linkage
  <2>10. Types'
    <3>1. /\ sq' \in [Sides -> Seq({"send", "rdma"})]
          /\ unacked' \in [Sides -> Seq({"send", "rdma"})]
      BY <1>2, <1>3, <1>5 DEF Types
    <3>2. cq' \in [Sides -> Seq({"send", "recv"})]
      BY <2>1, <2>4, <1>2 DEF Types
    <3>3. posted' \in [Sides -> 0..1]
      BY <2>1, <2>3, <1>2 DEF Types
    <3>4. recvMsg' \in [Sides -> {"unset", "MR", "DONE"}]
      BY <2>1, <1>0, <1>2 DEF Types
    <3> QED BY <3>1, <3>2, <3>3, <3>4, <2>1, <1>2, <1>5 DEF Types, state, ends
  <2>11. cm' = "up"
    BY <1>1, <1>5
  <2> QED BY <2>6, <2>7, <2>8, <2>9, <2>10, <2>11, <1>0, <1>9, <1>10, <1>11
          DEF Inv
<1> QED BY <1>12, <1>13
(* The event thread frees the connection: the queues are gone, and what the  *)
(* side has and has sent stays.                                              *)
LEMMA DisconnectStep ==
  ASSUME Inv, NEW s \in Sides, OnDisconnect(s)
  PROVE  Inv'
<1> DEFINE p == Peer(s)
<1>0. p \in Sides /\ p # s /\ Peer(p) = s /\ Sides = {s, p}
  BY Pair
<1>1. PICK r \in Sides : discon[r]
  BY DEF OnDisconnect
<1>2. /\ Types /\ cm = "up" /\ Script(s) /\ Script(p)
      /\ Finished(s) /\ Finished(p)
  BY <1>0, <1>1 DEF Inv, Idle
<1>3. /\ gone' = [gone EXCEPT ![s] = TRUE]
      /\ sq' = [sq EXCEPT ![s] = <<>>]
      /\ unacked' = [unacked EXCEPT ![s] = <<>>]
      /\ posted' = [posted EXCEPT ![s] = 0]
      /\ UNCHANGED <<mode, cm, connected, state, recvMsg, cq, spinning, got,
                     discon, died, mrs>>
  BY DEF OnDisconnect, Set
<1>4. gone'[s]
  BY <1>2, <1>3 DEF Types
<1>5. /\ gone'[p] <=> gone[p]
      /\ sq'[p] = sq[p] /\ unacked'[p] = unacked[p] /\ posted'[p] = posted[p]
  BY <1>0, <1>2, <1>3 DEF Types
<1>6. Script(s)' /\ Script(p)'
  BY <1>1, <1>2, <1>3, <1>4, <1>5 DEF Script, MrDue, state
<1>7. Finished(s)' /\ Finished(p)'
  BY <1>0, <1>2, <1>3 DEF Finished, state
<1>8. ~gone'[p] => Queued(p)' /\ Received(p)'
  <2>1. /\ Acked(p)' = Acked(p) /\ Heard(p)' = Heard(p)
        /\ Arrived(p)' = Arrived(p) /\ Requested(p)' = Requested(p)
    BY <1>3, <1>5 DEF Acked, Heard, Arrived, Requested, state
  <2>2. (Swapping(p)' <=> Swapping(p)) /\ (Armed(p)' <=> Armed(p))
    BY <1>3 DEF Swapping, Armed, state
  <2>3. ~gone'[p] => Queued(p) /\ Received(p)
    BY <1>0, <1>5 DEF Inv
  <2>4. Queued(p) => Queued(p)'
    BY <2>1, <2>2, <1>3, <1>5 DEF Queued, state
  <2>5. Received(p) => Received(p)'
    BY <2>1, <2>2, <1>3, <1>5 DEF Received, state
  <2> QED BY <2>3, <2>4, <2>5
<1>9. Types'
  <2>1. <<>> \in Seq({"send", "rdma"})
    OBVIOUS
  <2>2. /\ sq' \in [Sides -> Seq({"send", "rdma"})]
        /\ unacked' \in [Sides -> Seq({"send", "rdma"})]
    BY <2>1, <1>2, <1>3 DEF Types
  <2>3. gone' \in [Sides -> BOOLEAN] /\ posted' \in [Sides -> 0..1]
    BY <1>2, <1>3 DEF Types
  <2> QED BY <2>2, <2>3, <1>2, <1>3 DEF Types, state
<1>10. cm' = "up"
  BY <1>2, <1>3
<1> QED BY <1>0, <1>4, <1>6, <1>7, <1>8, <1>9, <1>10 DEF Inv

(* The poller of a freed connection.                                         *)
LEMMA FreedStep ==
  ASSUME Inv, PollFreed
  PROVE  Inv'
<1> DEFINE s == "server"
           p == Peer(s)
<1>0. s \in Sides /\ p \in Sides /\ p # s /\ Peer(p) = s /\ Sides = {s, p}
  BY Pair DEF Sides
<1>1. gone[s] /\ cq[s] # <<>>
  BY DEF PollFreed
<1>2. /\ Types /\ cm = "up" /\ Script(s) /\ Script(p)
      /\ Finished(s) /\ Finished(p)
  BY <1>0, <1>1 DEF Inv, Idle
<1>3. PICK d \in BOOLEAN :
        /\ cq' = [cq EXCEPT ![s] = Tail(@)]
        /\ died' = [died EXCEPT ![s] = d]
        /\ UNCHANGED <<mode, cm, connected, state, recvMsg, posted, sq, unacked,
                       spinning, got, discon, gone, mrs>>
  BY DEF PollFreed, Set, Pop
<1>4. cq'[p] = cq[p] /\ (died'[p] <=> died[p]) /\ gone'[s]
  BY <1>0, <1>1, <1>2, <1>3 DEF Types
<1>5. Script(s)' /\ Script(p)'
  BY <1>1, <1>2, <1>3, <1>4 DEF Script, MrDue, state
<1>6. Finished(s)' /\ Finished(p)'
  BY <1>0, <1>2, <1>3 DEF Finished, state
<1>7. ~gone'[p] => Queued(p)' /\ Received(p)'
  <2>1. /\ Acked(p)' = Acked(p) /\ Heard(p)' = Heard(p)
        /\ Arrived(p)' = Arrived(p) /\ Requested(p)' = Requested(p)
    BY <1>3, <1>4 DEF Acked, Heard, Arrived, Requested, state
  <2>2. (Swapping(p)' <=> Swapping(p)) /\ (Armed(p)' <=> Armed(p))
    BY <1>3 DEF Swapping, Armed, state
  <2>3. ~gone'[p] => Queued(p) /\ Received(p)
    BY <1>0, <1>3 DEF Inv
  <2>4. Queued(p) => Queued(p)'
    BY <2>1, <2>2, <1>3, <1>4 DEF Queued, state
  <2>5. Received(p) => Received(p)'
    BY <2>1, <2>2, <1>3, <1>4 DEF Received, state
  <2> QED BY <2>3, <2>4, <2>5
<1>8. Types'
  <2>1. cq[s] \in Seq({"send", "recv"})
    BY <1>0, <1>2 DEF Types
  <2>2. Tail(cq[s]) \in Seq({"send", "recv"})
    BY <2>1, <1>1
  <2>3. cq' \in [Sides -> Seq({"send", "recv"})] /\ died' \in [Sides -> BOOLEAN]
    BY <2>2, <1>2, <1>3 DEF Types
  <2> QED BY <2>3, <1>2, <1>3 DEF Types, state
<1>9. cm' = "up"
  BY <1>2, <1>3
<1> QED BY <1>0, <1>4, <1>5, <1>6, <1>7, <1>8, <1>9 DEF Inv

-----------------------------------------------------------------------------
(* Setting the connection up                                                 *)

LEMMA IdleCounts ==
  ASSUME NEW s \in Sides, Idle(s)
  PROVE  /\ Acked(s) = 0 /\ Heard(s) = 0 /\ Arrived(s) = 0 /\ Requested(s) = 0
         /\ Count(cq[s], "recv") = 0 /\ Len(cq[s]) = 0
         /\ DOMAIN sq[s] = {} /\ DOMAIN unacked[s] = {}
<1>1. Count(cq[s], "send") = 0 /\ Count(cq[s], "recv") = 0
  BY CountEmpty DEF Idle
<1>2. /\ Len(cq[s]) = 0 /\ Len(unacked[s]) = 0 /\ Len(sq[s]) = 0
      /\ DOMAIN sq[s] = {} /\ DOMAIN unacked[s] = {}
  BY DEF Idle
<1> QED BY <1>1, <1>2 DEF Idle, Acked, Heard, Arrived, Requested

(* A connection that is not up is idle, and a receive is posted on each side *)
(* that has built it.                                                        *)
SettingUp ==
  /\ Types /\ cm # "up" /\ \A s \in Sides : Idle(s)
  /\ \A s \in Sides : mrs[s] = 0 /\ ~died[s]
  /\ \A s \in Sides : posted[s] = IF Armed(s) THEN 1 ELSE 0

LEMMA IdleInv == SettingUp => Inv
<1> HAVE SettingUp
<1> USE DEF SettingUp
<1> SUFFICES ASSUME NEW s \in Sides
             PROVE  Script(s) /\ Finished(s) /\ Queued(s) /\ Received(s)
                    /\ Linkage(s)
  BY DEF Inv
<1>1. /\ Acked(s) = 0 /\ Heard(s) = 0 /\ Arrived(s) = 0 /\ Requested(s) = 0
      /\ Count(cq[s], "recv") = 0 /\ Len(cq[s]) = 0
      /\ DOMAIN sq[s] = {} /\ DOMAIN unacked[s] = {}
  BY IdleCounts
<1>2. Peer(s) \in Sides /\ Heard(Peer(s)) = 0
  BY Pair, IdleCounts
<1>3. Script(s)
  BY DEF Script, Idle, MrDue, Sides
<1>4. Finished(s)
  BY DEF Finished, Idle
<1>5. Queued(s)
  BY <1>1 DEF Queued, Idle, Swapping
<1>6. Received(s)
  BY <1>1 DEF Received, Idle
<1>7. Linkage(s)
  BY <1>1, <1>2 DEF Linkage, Idle, Messages
<1> QED BY <1>3, <1>4, <1>5, <1>6, <1>7

LEMMA SetUpSteps ==
  ASSUME Inv, OnAddrResolved \/ OnRouteResolved \/ OnConnectRequest
  PROVE  Inv'
<1>1. /\ Types /\ cm # "up" /\ cm' # "up"
      /\ cm' \in {"resolved", "requested", "accepted"}
      /\ UNCHANGED <<mode, connected, state, recvMsg, sq, unacked, cq, spinning,
                     got, ends, mrs>>
  BY DEF Inv, OnAddrResolved, OnRouteResolved, OnConnectRequest, CmGoto, queues
<1>2. \A s \in Sides : Idle(s) /\ Script(s) /\ Received(s)
  BY <1>1 DEF Inv, Idle
<1>3. \A s \in Sides : /\ mrs[s] = 0 /\ ~died[s]
                       /\ posted[s] = IF Armed(s) THEN 1 ELSE 0
  <2> SUFFICES ASSUME NEW s \in Sides
               PROVE  /\ mrs[s] = 0 /\ ~died[s]
                      /\ posted[s] = IF Armed(s) THEN 1 ELSE 0
    OBVIOUS
  <2>1. Heard(s) = 0 /\ recvState[s] = 0 /\ ~gone[s]
    BY <1>2, IdleCounts DEF Idle
  <2>2. mrs[s] = 0 /\ ~died[s]
    BY <2>1, <1>1, <1>2 DEF Script, MrDue
  <2>3. posted[s] \in 0..1
    BY <1>1 DEF Types
  <2> QED BY <2>1, <2>2, <2>3, <1>2 DEF Received
<1>4. \A s \in Sides : posted'[s] = IF Armed(s)' THEN 1 ELSE 0
  <2>1. CASE OnAddrResolved
    BY <2>1, <1>1, <1>3 DEF OnAddrResolved, CmGoto, PostReceives, Add, Armed,
                            Sides, Types
  <2>2. CASE OnRouteResolved
    BY <2>2, <1>1, <1>3 DEF OnRouteResolved, CmGoto, queues, Armed, Sides
  <2>3. CASE OnConnectRequest
    BY <2>3, <1>1, <1>3 DEF OnConnectRequest, CmGoto, PostReceives, Add, Armed,
                            Sides, Types
  <2> QED BY <2>1, <2>2, <2>3
<1>5. posted' \in [Sides -> 0..1]
  <2>1. posted' = [s \in Sides |-> posted'[s]]
    BY <1>1 DEF OnAddrResolved, OnRouteResolved, OnConnectRequest, PostReceives,
                Add, queues, Types
  <2>2. \A s \in Sides : posted'[s] \in 0..1
    BY <1>4
  <2> QED BY <2>1, <2>2
<1>6. Types'
  BY <1>1, <1>5 DEF Types, state, ends
<1>7. \A s \in Sides : Idle(s)'
  BY <1>1, <1>2 DEF Idle, state, ends
<1>8. \A s \in Sides : mrs'[s] = 0 /\ ~died'[s]
  BY <1>1, <1>3 DEF ends
<1>9. SettingUp'
  BY <1>1, <1>4, <1>6, <1>7, <1>8 DEF SettingUp
<1>10. (SettingUp => Inv)'
  BY IdleInv, PTL
<1> QED BY <1>9, <1>10
(* ESTABLISHED on the client, which sends its region.                        *)
LEMMA ClientConnectionStep ==
  ASSUME Inv, OnClientConnection
  PROVE  Inv'
<1> DEFINE s == "client"
           p == "server"
<1>0. s \in Sides /\ p \in Sides /\ p # s /\ Peer(s) = p /\ Peer(p) = s
      /\ Sides = {s, p}
  BY DEF Sides, Peer
<1>1. /\ Types /\ cm = "accepted" /\ cm' = "up"
      /\ sendMsg' = [sendMsg EXCEPT ![s] = "MR"]
      /\ sq' = [sq EXCEPT ![s] = @ \o <<"send">>]
      /\ mrs' = [mrs EXCEPT ![s] = @ + 1]
      /\ connected' \in [Sides -> BOOLEAN]
      /\ UNCHANGED <<mode, sendState, recvState, recvMsg, posted, unacked, cq,
                     spinning, got, ends>>
  BY DEF Inv, Types, OnClientConnection, CmGoto, Set, Push, Add
<1>2. \A r \in Sides : Idle(r) /\ Script(r) /\ Received(r) /\ ~gone[r]
  BY <1>1 DEF Inv, Idle
<1>3. /\ sendState[s] = 0 /\ recvState[s] = 0 /\ sq[s] = <<>>
      /\ sendState[p] = 0 /\ recvState[p] = 0 /\ sq[p] = <<>>
      /\ cq[s] = <<>> /\ cq[p] = <<>> /\ unacked[s] = <<>> /\ unacked[p] = <<>>
      /\ ~gone[s] /\ ~gone[p] /\ ~discon[s] /\ ~discon[p]
      /\ ~spinning[s] /\ ~spinning[p]
  BY <1>0, <1>2 DEF Idle
<1>4. mrs[s] = 0 /\ mrs[p] = 0
  BY <1>0, <1>1, <1>2, <1>3 DEF Script, MrDue
<1>5. sq[s] \o <<"send">> = <<"send">>
  BY <1>3
<1>6. /\ sq'[s] = <<"send">> /\ mrs'[s] = 1 /\ sendMsg'[s] = "MR"
      /\ sq'[p] = <<>> /\ mrs'[p] = 0
  BY <1>0, <1>1, <1>3, <1>4, <1>5 DEF Types
<1>7. Len(sq'[s]) = 1 /\ DOMAIN sq'[s] = {1} /\ sq'[s][1] = "send"
  BY <1>6
<1>8. /\ Acked(s) = 0 /\ Arrived(s) = 0 /\ Heard(s) = 0
      /\ Acked(p) = 0 /\ Arrived(p) = 0 /\ Heard(p) = 0
      /\ Count(cq[s], "recv") = 0 /\ Count(cq[p], "recv") = 0
      /\ Len(cq[s]) = 0 /\ Len(cq[p]) = 0 /\ Len(<<>>) = 0
      /\ DOMAIN unacked[s] = {} /\ DOMAIN unacked[p] = {}
      /\ DOMAIN sq[p] = {} /\ Requested(p) = 0
  BY <1>0, <1>2, <1>3, IdleCounts
<1>9. /\ Acked(s)' = 0 /\ Arrived(s)' = 0 /\ Heard(s)' = 0
      /\ Acked(p)' = 0 /\ Arrived(p)' = 0 /\ Heard(p)' = 0
      /\ Requested(p)' = 0 /\ Requested(s)' = 1
  <2>1. /\ Acked(s)' = Acked(s) /\ Heard(s)' = Heard(s)
        /\ Acked(p)' = Acked(p) /\ Heard(p)' = Heard(p)
    BY <1>1 DEF Acked, Heard
  <2>2. Arrived(s)' = Arrived(s) /\ Arrived(p)' = Arrived(p)
    BY <2>1, <1>1 DEF Arrived
  <2>3. Requested(p)' = Requested(p)
    BY <2>2, <1>3, <1>6 DEF Requested
  <2> QED BY <2>1, <2>2, <2>3, <1>7, <1>8 DEF Requested
<1>10. Script(s)' /\ Script(p)'
  BY <1>0, <1>1, <1>2, <1>3, <1>6 DEF Script, MrDue, ends
<1>11. Finished(s)' /\ Finished(p)'
  BY <1>1, <1>3 DEF Finished, ends
<1>12. Queued(s)'
  <2>1. \A i \in DOMAIN sq'[s] : sq'[s][i] = Request(Arrived(s)' + i)
    BY <1>7, <1>9 DEF Request
  <2> QED BY <2>1, <1>1, <1>3, <1>6, <1>8, <1>9 DEF Queued, Swapping
<1>13. Queued(p)'
  BY <1>1, <1>3, <1>6, <1>8, <1>9 DEF Queued, Swapping
<1>14. Received(s)' /\ Received(p)'
  <2>1. posted[s] = 1 /\ posted[p] = 1
    <3>1. /\ posted[s] + 0 = 1 + 0 /\ posted[p] + 0 = 1 + 0
          /\ posted[s] \in 0..1 /\ posted[p] \in 0..1
      BY <1>0, <1>1, <1>2, <1>3, <1>8 DEF Received, Armed, Types
    <3> QED BY <3>1
  <2>2. Armed(s)' /\ Armed(p)'
    BY <1>1 DEF Armed
  <2> QED BY <2>1, <2>2, <1>1, <1>3, <1>8, <1>9 DEF Received
<1>15. Linkage(s)' /\ Linkage(p)'
  BY <1>0, <1>1, <1>3, <1>9 DEF Linkage, Messages
<1>16. Types'
  <2>1. sq' \in [Sides -> Seq({"send", "rdma"})]
    <3>1. <<"send">> \in Seq({"send", "rdma"})
      OBVIOUS
    <3> QED BY <3>1, <1>1, <1>5 DEF Types
  <2>2. sendMsg' \in [Sides -> {"unset", "MR", "DONE"}]
    BY <1>1 DEF Types
  <2>3. mrs' \in [Sides -> 0..1]
    <3>1. mrs' = [r \in Sides |-> mrs'[r]]
      BY <1>1 DEF Types
    <3>2. \A r \in Sides : mrs'[r] \in 0..1
      BY <1>0, <1>6
    <3> QED BY <3>1, <3>2
  <2> QED BY <2>1, <2>2, <2>3, <1>1 DEF Types, ends
<1> QED BY <1>0, <1>1, <1>10, <1>11, <1>12, <1>13, <1>14, <1>15, <1>16 DEF Inv

(* ESTABLISHED on the server, and steps that change nothing.                 *)
LEMMA OtherSteps ==
  ASSUME Inv, OnServerConnection \/ UNCHANGED vars
  PROVE  Inv'
<1>1. /\ Types /\ connected' \in [Sides -> BOOLEAN]
      /\ UNCHANGED <<mode, cm, state, recvMsg, queues, spinning, got, ends,
                     mrs>>
  BY DEF Inv, Types, OnServerConnection, Set, vars
<1>2. \A s \in Sides : SameAt(s)
  BY <1>1 DEF SameAt, state, queues, ends
<1>3. \A s \in Sides : Script(s)' /\ Finished(s)'
  <2>1. \A s \in Sides : Script(s)'
    BY <1>1, <1>2, Frame DEF Inv, ends
  <2>2. \A s \in Sides : Finished(s)'
    BY <1>1 DEF Inv, Finished, state, ends
  <2> QED BY <2>1, <2>2
<1>4. \A s \in Sides : ~gone'[s] => Queued(s)' /\ Received(s)'
  BY <1>2, Frame DEF Inv, SameAt
<1>5. (\A s \in Sides : ~gone'[s]) => \A s \in Sides : Linkage(s)'
  <2> SUFFICES ASSUME \A r \in Sides : ~gone'[r], NEW s \in Sides
               PROVE  Linkage(s)'
    OBVIOUS
  <2>1. Linkage(s) /\ Peer(s) \in Sides
    BY <1>1, Pair DEF Inv, ends
  <2>2. Arrived(s)' = Arrived(s) /\ Heard(Peer(s))' = Heard(Peer(s))
    BY <2>1, <1>2, Frame
  <2> QED BY <2>1, <2>2, <1>1 DEF Linkage, queues
<1>6. Types'
  BY <1>1 DEF Types, state, queues, ends
<1>7. cm' # "up" => \A s \in Sides : Idle(s)'
  BY <1>1 DEF Inv, Idle, state, queues, ends
<1> QED BY <1>3, <1>4, <1>5, <1>6, <1>7 DEF Inv

-----------------------------------------------------------------------------
(* The theorems                                                              *)

(* The invariant holds at first, and every step of Next keeps it.            *)
LEMMA InitInv == Init => Inv
<1> HAVE Init
<1>1. \A s \in Sides : Idle(s)
  BY DEF Init, Idle
<1>2. <<>> \in Seq({"send", "rdma"}) /\ <<>> \in Seq({"send", "recv"})
  OBVIOUS
<1>3. Types
  BY <1>2 DEF Init, Types
<1>4. \A s \in Sides : /\ mrs[s] = 0 /\ ~died[s]
                       /\ posted[s] = IF Armed(s) THEN 1 ELSE 0
  BY DEF Init, Armed
<1>5. cm # "up"
  BY DEF Init
<1> QED BY <1>1, <1>3, <1>4, <1>5, IdleInv DEF SettingUp

LEMMA NextInv ==
  ASSUME AcksFirst, Inv, [Next]_vars
  PROVE  Inv'
<1>1. CASE Connecting
  BY <1>1, SetUpSteps, ClientConnectionStep DEF Connecting
<1>2. CASE OnServerConnection \/ UNCHANGED vars
  BY <1>2, OtherSteps
<1>3. ASSUME NEW s \in Sides,
             Poller(s) \/ Arrives(s) \/ Completes(s) \/ OnDisconnect(s)
      PROVE  Inv'
  BY <1>3, PollSteps, SendMrStep, ArrivesStep, CompletesStep, DisconnectStep
     DEF Poller
<1>4. CASE PollFreed
  BY <1>4, FreedStep
<1> QED BY <1>1, <1>2, <1>3, <1>4 DEF Next

(* Requests and receives of both sides stay in step, by the order of the     *)
(* acknowledgements (on_completion, rdma-common.c).                          *)
THEOREM InductiveInvariant ==
  ASSUME AcksFirst
  PROVE  Spec => []Inv
<1>1. Inv /\ [Next]_vars => Inv'
  BY NextInv
<1> QED BY <1>1, InitInv, PTL DEF Spec

(* Every variable keeps its type: the states stay within the enums of        *)
(* struct connection, and one receive is posted at most (post_receives).     *)
THEOREM TypeCorrect ==
  ASSUME AcksFirst
  PROVE  Spec => []TypeOK
<1>1. Inv => TypeOK
  <2> HAVE Inv
  <2>1. Types
    BY DEF Inv
  <2>2. Seq({"send", "recv"}) \subseteq Seq({"send", "recv", "error"})
    OBVIOUS
  <2>3. cq \in [Sides -> Seq({"send", "recv", "error"})]
    BY <2>1, <2>2 DEF Types
  <2> QED BY <2>1, <2>3 DEF Types, TypeOK
<1> QED BY <1>1, InductiveInvariant, PTL

(* Where acknowledgements come first, on_completion's test of send_state     *)
(* is right: each side sends its region once.                                *)
THEOREM RegionsAreSentOnce ==
  ASSUME AcksFirst
  PROVE  Spec => []MrIsSentOnce
<1>1. Inv => MrIsSentOnce
  <2> SUFFICES ASSUME Inv, NEW s \in Sides
               PROVE  mrs[s] <= 1
    BY DEF MrIsSentOnce
  <2>1. mrs[s] \in 0..1
    BY DEF Inv, Types
  <2> QED BY <2>1
<1> QED BY <1>1, InductiveInvariant, PTL

(* A side that prints and disconnects (on_completion) has its peer's         *)
(* message, and no work that rdma_disconnect would flush as an error.        *)
THEOREM PrintersHaveTheMessage ==
  ASSUME AcksFirst
  PROVE  Spec => []PrintsThePeersMessage
<1>1. Inv => PrintsThePeersMessage
  <2> SUFFICES ASSUME Inv, NEW s \in Sides, discon[s]
               PROVE  got[s] /\ \A i \in DOMAIN cq[s] : cq[s][i] # "error"
    BY DEF PrintsThePeersMessage
  <2>1. got[s]
    BY DEF Inv, Script
  <2>2. cq[s] \in Seq({"send", "recv"})
    BY DEF Inv, Types
  <2>3. \A i \in DOMAIN cq[s] : cq[s][i] \in {"send", "recv"}
    BY <2>2
  <2> QED BY <2>1, <2>3
<1> QED BY <1>1, InductiveInvariant, PTL

(* A side whose connection is freed before it has printed                    *)
(* (destroy_connection) is cut off by a peer that has printed; both have     *)
(* swapped regions, and what the peer wrote is in place.                     *)
THEOREM OnlyFinishedPeersCutOff ==
  ASSUME AcksFirst
  PROVE  Spec => []CutOffByAFinishedPeer
<1>1. Inv => CutOffByAFinishedPeer
  <2> SUFFICES ASSUME Inv, NEW s \in Sides, gone[s], ~discon[s]
               PROVE  /\ discon[Peer(s)]
                      /\ recvState[s] >= 1 /\ sendState[s] >= 1
                      /\ mode = "write" => got[s]
    BY DEF CutOffByAFinishedPeer
  <2>1. Peer(s) \in Sides /\ Peer(Peer(s)) = s /\ Sides = {s, Peer(s)}
    BY Pair
  <2>2. discon[Peer(s)]
    BY <2>1 DEF Inv, Script
  <2> QED BY <2>1, <2>2 DEF Inv, Finished
<1> QED BY <1>1, InductiveInvariant, PTL
===============================================================================
