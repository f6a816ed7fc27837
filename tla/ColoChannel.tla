---------------------------- MODULE ColoChannel -----------------------------
(***************************************************************************)
(* The control channel of a COLO checkpoint: what puts and gets change, and*)
(* that those of the primary keep its two ends balanced and the two threads in*)
(* step.                                                                   *)
(***************************************************************************)
EXTENDS ColoInvariant, TLAPS

\* A completion queue or the plug, without its first element.
LEMMA TakeFirst ==
  ASSUME NEW S, NEW s \in Seq(S), s # <<>>
  PROVE  /\ Len(s) \in Nat /\ Len(s) >= 1 /\ Head(s) = s[1]
         /\ Tail(s) \in Seq(S) /\ Len(Tail(s)) = Len(s) - 1
         /\ \A i \in 1 .. Len(Tail(s)) : Tail(s)[i] = s[i + 1]
<1>1. /\ Len(s) \in Nat /\ Len(s) >= 1 /\ Head(s) = s[1]
      /\ Tail(s) \in Seq(S) /\ Len(Tail(s)) = Len(s) - 1
  OBVIOUS
<1>2. \A i \in 1 .. Len(Tail(s)) : Tail(s)[i] = s[i + 1]
  OBVIOUS
<1>. QED
  BY <1>1, <1>2

\* A completion queue or the plug, with one more element.
LEMMA AddLast ==
  ASSUME NEW S, NEW s \in Seq(S), NEW e \in S
  PROVE  /\ Append(s, e) \in Seq(S)
         /\ Len(s) \in Nat /\ Len(Append(s, e)) = Len(s) + 1
         /\ \A i \in 1 .. Len(s) : Append(s, e)[i] = s[i]
         /\ Append(s, e)[Len(s) + 1] = e
<1>1. Append(s, e) \in Seq(S) /\ Len(s) \in Nat /\ Len(Append(s, e)) = Len(s) + 1
  OBVIOUS
<1>2. /\ \A i \in 1 .. Len(s) : Append(s, e)[i] = s[i]
      /\ Append(s, e)[Len(s) + 1] = e
  OBVIOUS
<1>. QED
  BY <1>1, <1>2

\* The completions that a queue pair in error flushes come after the others.
LEMMA AddFlushed ==
  ASSUME NEW S, NEW s \in Seq(S), NEW t \in Seq(S)
  PROVE  /\ s \o t \in Seq(S)
         /\ Len(s) \in Nat /\ Len(t) \in Nat /\ Len(s \o t) = Len(s) + Len(t)
OBVIOUS

\* The plug after its first m - 1 packets have left.
LEMMA DropFirst ==
  ASSUME NEW S, NEW s \in Seq(S), NEW m \in 1 .. Len(s) + 1
  PROVE  /\ SubSeq(s, m, Len(s)) \in Seq(S)
         /\ Len(SubSeq(s, m, Len(s))) = Len(s) - m + 1
         /\ \A i \in 1 .. Len(s) - m + 1 : SubSeq(s, m, Len(s))[i] = s[m + i - 1]
<1>1. /\ SubSeq(s, m, Len(s)) \in Seq(S)
      /\ Len(SubSeq(s, m, Len(s))) = Len(s) - m + 1
  OBVIOUS
<1>2. \A i \in 1 .. Len(s) - m + 1 : SubSeq(s, m, Len(s))[i] = s[m + i - 1]
  OBVIOUS
<1>. QED
  BY <1>1, <1>2

\* The places of puts and gets of the control channel, and that a put always has a
\* message (mc_rdma_put_colo_ctrl_buffer is never called with an empty buffer).
LEMMA Domains ==
  /\ DOMAIN PutMsg = {"putBmap", "putHash", "putLoaded", "putPBmap", "putSize", "putValue",
                      "putBuf"}
  /\ DOMAIN GetMsg = {"getBmap", "getHash", "getLoaded", "getPBmap", "getSize", "getValue",
                      "getBuf"}
  /\ \A l \in DOMAIN PutMsg : PutMsg[l] # NoMsg
BY DEF PutMsg, GetMsg, NoMsg

\* The places where a side has polled the completions of its sends.
LEMMA QuietPlaces ==
  /\ Quiet["P"] = {"loop", "wait", "req", "stop", "check", "repl", "live", "putPBmap",
                   "write", "writing", "flush", "putSize", "putValue", "putBuf",
                   "barrier", "vmStart", "release"}
  /\ Quiet["S"] = {"loop", "wait", "disable", "stop", "resume", "putBmap", "putHash",
                   "device", "putLoaded"}
BY Domains DEF Quiet, PLabels, SLabels, PGone, SGone, Ram

\* The counts of sent and received messages are integers.
LEMMA CountsAreIntegers ==
  ASSUME TypeOK
  PROVE /\ epoch \in Nat /\ loaded \in Nat
        /\ GotP \in Int /\ SentP \in Int
        /\ GotS(0) \in Int /\ SentS(0) \in Int /\ GotS(1) \in Int /\ SentS(1) \in Int
BY ColoAssumption DEF TypeOK, GotP, SentP, GotS, SentS, One

\* The order of puts and gets in a checkpoint of the secondary: it has sent its
\* second and third message only after its first and fourth receive.
LEMMA SecondaryOrder ==
  ASSUME TypeOK, Places, NEW k \in {0, 1}, NEW n \in Int
  PROVE /\ SentS(k) >= 3 * n + 2 => GotS(k) >= 4 * n + 1
        /\ SentS(k) >= 3 * n + 3 => GotS(k) >= 4 * n + 4
<1>1. loaded \in Nat /\ pc["S"] \in SLabels
  BY ColoAssumption DEF TypeOK
<1>2. posted["S"] => pc["S"] \in {"putBmap", "putHash", "putLoaded"}
  BY <1>1, Domains DEF Places, Side, SLabels
<1>3. CASE k = 0
  BY <1>1, <1>2, <1>3 DEF SentS, GotS, One, SLabels, SGone, Loading, Ram
<1>4. CASE k = 1
  BY <1>1, <1>2, <1>4 DEF SentS, GotS, One, SLabels, SGone, Loading, Ram
<1>. QED
  BY <1>3, <1>4

\* The order of puts and gets in a checkpoint of the primary: it has sent its first
\* and second message only after its first and second receive.
LEMMA PrimaryOrder ==
  ASSUME TypeOK, Places, NEW n \in Int
  PROVE /\ SentP >= 4 * n + 1 => GotP >= 3 * n + 1
        /\ SentP >= 4 * n + 2 => GotP >= 3 * n + 2
<1>1. epoch \in Nat /\ pc["P"] \in PLabels
  BY ColoAssumption DEF TypeOK
<1>2. posted["P"] => pc["P"] \in {"putPBmap", "putSize", "putValue", "putBuf"}
  BY <1>1, Domains DEF Places, Side, PLabels
<1>. QED
  BY <1>1, <1>2 DEF SentP, GotP, One, PLabels, PGone, Sending

\* An end of the control channel that a step leaves alone stays balanced; the peer
\* may only go away.
LEMMA ChannelSame ==
  ASSUME NEW x \in Side,
         alive'[Peer(x)] => alive[Peer(x)],
         pc'[x] = pc[x], posted'[x] = posted[x], sending'[x] = sending[x],
         unacked'[x] = unacked[x], cq'[x] = cq[x], rbuf'[x] = rbuf[x],
         qp_error'[x] = qp_error[x],
         Channel(x)
  PROVE Channel(x)'
BY Zenon DEF Channel, Balanced, One, Quiet

\* The counts do not change when a side and what it has posted stay as they are.
LEMMA PCountsSame ==
  ASSUME pc'["P"] = pc["P"], posted'["P"] = posted["P"], epoch' = epoch
  PROVE GotP' = GotP /\ SentP' = SentP
BY DEF GotP, SentP, One

\* The counts of the secondary depend on its place, its posted send and its loaded
\* checkpoint only.
LEMMA SCountsSame ==
  ASSUME pc'["S"] = pc["S"], posted'["S"] = posted["S"], loaded' = loaded
  PROVE /\ GotS(0)' = GotS(0) /\ SentS(0)' = SentS(0)
        /\ GotS(1)' = GotS(1) /\ SentS(1)' = SentS(1)
BY DEF GotS, SentS, One

\* A step of the primary between two of its operations on the control channel.
PrimaryMove(l) ==
  /\ \/ pc["P"] \in Before \ {"getBmap"} /\ l \in Before \cup {"sem"}
     \/ pc["P"] \in {"write", "writing"} /\ l \in {"writing", "flush"}
     \/ pc["P"] \in {"barrier", "vmStart", "release"}
          /\ l \in {"vmStart", "release", "loop"}
     \/ pc["P"] \in PGone /\ l \in PGone
  /\ pc' = [pc EXCEPT !["P"] = l]
  /\ UNCHANGED <<alive, ctrl, epoch, loaded>>

\* It changes no count, unless the primary gives up.
LEMMA PMoveCounts ==
  ASSUME TypeOK, Places, NEW l \in PLabels, PrimaryMove(l)
  PROVE /\ pc'["P"] = l /\ pc'["S"] = pc["S"] /\ ~posted["P"]
        /\ GotP \in Int /\ GotP' \in Int /\ GotP' <= GotP /\ SentP' = SentP
<1>1. /\ pc'["P"] = l /\ pc'["S"] = pc["S"]
      /\ ~posted["P"]
  BY Domains DEF PrimaryMove, TypeOK, Side, Places, PGone, Before
<1>2. epoch \in Nat /\ epoch' = epoch /\ posted' = posted
  BY CountsAreIntegers DEF PrimaryMove, ctrl
<1>3. GotP \in Int /\ GotP' \in Int /\ GotP' <= GotP
  BY <1>1, <1>2 DEF PrimaryMove, GotP, Before, PGone, Sending, One
<1>4. SentP' = SentP
  BY <1>1, <1>2 DEF PrimaryMove, SentP, Before, PGone, One
<1>. QED
  BY <1>1, <1>3, <1>4

\* Steps of the primary that leave the control channel alone.
LEMMA PMove ==
  ASSUME TypeOK, Places, Protocol, NEW l \in PLabels, PrimaryMove(l)
  PROVE Protocol'
<1>1. /\ pc'["P"] = l /\ pc'["S"] = pc["S"]
      /\ ~posted["P"]
  BY PMoveCounts
<1>2. /\ epoch \in Nat /\ epoch' = epoch /\ posted' = posted /\ loaded' = loaded
      /\ alive' = alive /\ ctrl' = ctrl
  BY CountsAreIntegers DEF PrimaryMove, ctrl
<1>3. GotP' \in Int /\ GotP' <= GotP
  BY PMoveCounts
<1>4. SentP' = SentP
  BY PMoveCounts
<1>5. /\ GotS(0)' = GotS(0) /\ SentS(0)' = SentS(0)
      /\ GotS(1)' = GotS(1) /\ SentS(1)' = SentS(1)
  BY <1>1, <1>2, SCountsSame
<1>6. Channel("S") => Channel("S")'
  BY <1>1, <1>2, ChannelSame DEF ctrl, Peer, Side
<1>7. Channel("P") => Channel("P")'
  BY <1>1, <1>2, QuietPlaces, Zenon DEF PrimaryMove, Channel, Balanced, ctrl, Peer, One, Before,
     PGone
<1>8. Doomed /\ Channel("P") => Doomed'
  BY <1>1, <1>2 DEF PrimaryMove, Doomed, Channel, ctrl, TypeOK, Side, Before, PGone
<1>9. (InStep(0) => InStep(0)') /\ (InStep(1) => InStep(1)')
  <2>1. rbuf' = rbuf /\ sending' = sending
    BY <1>2 DEF ctrl
  <2>2. \A b : One(b) \in Int
    BY DEF One
  <2>. QED
    BY <1>3, <1>4, <1>5, <2>1, <2>2, CountsAreIntegers DEF InStep
<1>. QED
  BY <1>2, <1>6, <1>7, <1>8, <1>9 DEF Protocol

\* Steps of the secondary that leave the control channel alone.
LEMMA SMove ==
  ASSUME TypeOK, Places, Protocol, NEW l \in SLabels,
         pc' = [pc EXCEPT !["S"] = l],
         UNCHANGED <<alive, ctrl, epoch, loaded>>,
         \/ pc["S"] \in {"loop", "wait", "disable", "stop", "resume"}
              /\ l \in {"wait", "disable", "stop", "resume", "putBmap", "out"}
         \/ pc["S"] \in Ram /\ l \in Ram \cup {"getSize", "out"}
         \/ pc["S"] \in SGone /\ l \in SGone
  PROVE Protocol'
<1>1. /\ pc'["S"] = l /\ pc'["P"] = pc["P"]
      /\ ~posted["S"]
  BY Domains DEF TypeOK, Side, Places, SGone, Ram
<1>2. loaded \in Nat /\ epoch' = epoch /\ posted' = posted /\ loaded' = loaded
  BY CountsAreIntegers DEF ctrl
<1>3. GotP' = GotP /\ SentP' = SentP
  BY <1>1, <1>2, PCountsSame
<1>4. pc["S"] \notin SGone => GotS(0) = GotS(1) /\ SentS(0) = SentS(1)
  BY <1>2 DEF GotS, SentS, One
<1>5. Channel("P") => Channel("P")'
  BY <1>1, ChannelSame DEF ctrl, Peer, Side
<1>6. Channel("S") => Channel("S")'
  BY <1>1, QuietPlaces, Zenon DEF Channel, Balanced, ctrl, Peer, One, SGone, Ram
<1>7. Doomed => Doomed'
  BY <1>1 DEF Doomed, ctrl
<1>8. (InStep(0) \/ InStep(1)) => (InStep(0)' \/ InStep(1)')
  <2>1. rbuf' = rbuf /\ sending' = sending
    BY DEF ctrl
  <2>2. CASE pc["S"] \in SGone \/ l \notin SGone
    <3>1. /\ GotS(0)' = GotS(0) /\ SentS(0)' = SentS(0)
      BY <1>1, <1>2, <2>2 DEF GotS, SentS, SGone, Loading, Ram, One
    <3>2. /\ GotS(1)' = GotS(1) /\ SentS(1)' = SentS(1)
      BY <1>1, <1>2, <2>2 DEF GotS, SentS, SGone, Loading, Ram, One
    <3>. QED
      BY <1>3, <2>1, <3>1, <3>2 DEF InStep
  <2>3. CASE pc["S"] \notin SGone /\ l = "out" /\ pc["S"] \notin Ram
    <3>1. /\ GotS(0)' = GotS(0) /\ SentS(0)' = SentS(0)
      BY <1>1, <1>2, <2>3 DEF GotS, SentS, SGone, Loading, Ram, One
    <3>. QED
      BY <1>3, <1>4, <2>1, <2>3, <3>1 DEF InStep
  <2>4. CASE l = "out" /\ pc["S"] \in Ram
    <3>1. /\ GotS(1)' = GotS(1) /\ SentS(1)' = SentS(1)
      BY <1>1, <1>2, <2>4 DEF GotS, SentS, SGone, Loading, Ram, One
    <3>2. pc["S"] \notin SGone
      BY <2>4 DEF SGone, Ram
    <3>. QED
      BY <1>3, <1>4, <2>1, <3>1, <3>2 DEF InStep
  <2>. QED
    BY <2>2, <2>3, <2>4 DEF SGone, Ram
<1>. QED
  BY <1>5, <1>6, <1>7, <1>8 DEF Protocol

\* What a put of the primary changes.
LEMMA PPutFacts ==
  ASSUME TypeOK, Places, PPut
  PROVE /\ alive' = alive /\ epoch' = epoch /\ loaded' = loaded
        /\ pc'["S"] = pc["S"] /\ posted'["S"] = posted["S"] /\ cq'["S"] = cq["S"]
        /\ posted["P"] /\ posted'["P"] = FALSE
        /\ UNCHANGED <<rdma_buffer, rbuf, sending, unacked, qp_error>>
        /\ Len(cq["P"]) \in Nat /\ Len(cq["P"]) >= 1
        /\ Len(cq'["P"]) = Len(cq["P"]) - 1
        /\ \A i \in 1 .. Len(cq'["P"]) : cq'["P"][i] = cq["P"][i + 1]
        /\ Head(cq["P"]) = cq["P"][1]
        /\ \/ pc["P"] = "putPBmap" /\ pc'["P"] = "getHash"
           \/ pc["P"] = "putSize" /\ pc'["P"] = IF cq["P"][1] THEN "putValue" ELSE "loop"
           \/ pc["P"] = "putValue" /\ pc'["P"] = IF cq["P"][1] THEN "putBuf" ELSE "loop"
           \/ pc["P"] = "putBuf" /\ pc'["P"] \in {"sem", "getLoaded"}
<1>1. /\ cq["P"] \in Seq(BOOLEAN) /\ cq["P"] # <<>>
      /\ cq'["P"] = Tail(cq["P"]) /\ cq'["S"] = cq["S"]
  BY DEF TypeOK, PPut, Polled, Side
<1>2. /\ Len(cq["P"]) \in Nat /\ Len(cq["P"]) >= 1
      /\ Len(cq'["P"]) = Len(cq["P"]) - 1
      /\ \A i \in 1 .. Len(cq'["P"]) : cq'["P"][i] = cq["P"][i + 1]
      /\ Head(cq["P"]) = cq["P"][1]
  BY <1>1, TakeFirst
<1>3. /\ posted["P"] /\ posted'["P"] = FALSE /\ posted'["S"] = posted["S"]
  BY DEF PPut, Polled, TypeOK, Side
<1>4. pc["P"] \in {"putPBmap", "putSize", "putValue", "putBuf"}
  BY <1>3, Domains DEF Places, TypeOK, PLabels, Side
<1>5. pc'["S"] = pc["S"] /\ pc'["P"] = PAfterPut(pc["P"], Head(cq["P"]))
  BY DEF PPut, Goto, TypeOK, Side
<1>6. \A ok : /\ PAfterPut("putPBmap", ok) = "getHash"
              /\ PAfterPut("putSize", ok) = IF ok THEN "putValue" ELSE "loop"
              /\ PAfterPut("putValue", ok) = IF ok THEN "putBuf" ELSE "loop"
              /\ PAfterPut("putBuf", ok) \in {"sem", "getLoaded"}
  BY Zenon DEF PAfterPut
<1>7. \/ pc["P"] = "putPBmap" /\ pc'["P"] = "getHash"
      \/ pc["P"] = "putSize" /\ pc'["P"] = IF cq["P"][1] THEN "putValue" ELSE "loop"
      \/ pc["P"] = "putValue" /\ pc'["P"] = IF cq["P"][1] THEN "putBuf" ELSE "loop"
      \/ pc["P"] = "putBuf" /\ pc'["P"] \in {"sem", "getLoaded"}
  BY <1>2, <1>4, <1>5, <1>6
<1>. QED
  BY <1>1, <1>2, <1>3, <1>5, <1>7 DEF PPut, Polled, guest

\* A put of the primary that takes a completion from its queue keeps the two sides
\* in step, whichever completion it was.
LEMMA PPutProtocol ==
  ASSUME TypeOK, Places, Protocol, PPut
  PROVE Protocol'
<1>1. alive["P"] /\ Channel("P") /\ Channel("S") /\ (InStep(0) \/ InStep(1) \/ Doomed)
  BY DEF Protocol, PPut, Polled
<1>2. Channel("S")'
  BY PPutFacts, <1>1, ChannelSame DEF Peer, Side
<1>3. /\ GotS(0)' = GotS(0) /\ SentS(0)' = SentS(0)
      /\ GotS(1)' = GotS(1) /\ SentS(1)' = SentS(1)
  BY PPutFacts, SCountsSame
<1>e. epoch \in Nat /\ epoch' = epoch
  BY PPutFacts, CountsAreIntegers
<1>p. /\ posted["P"] /\ ~posted'["P"]
      /\ \/ pc["P"] = "putPBmap" /\ pc'["P"] = "getHash"
         \/ pc["P"] = "putSize" /\ pc'["P"] \in {"putValue", "loop"}
         \/ pc["P"] = "putValue" /\ pc'["P"] \in {"putBuf", "loop"}
         \/ pc["P"] = "putBuf" /\ pc'["P"] \in {"sem", "getLoaded"}
  BY PPutFacts, Zenon
<1>c. /\ Len(cq["P"]) \in Nat /\ Len(cq["P"]) >= 1
      /\ Len(cq'["P"]) = Len(cq["P"]) - 1
      /\ \A i \in 1 .. Len(cq'["P"]) : cq'["P"][i] = cq["P"][i + 1]
      /\ pc'["P"] = "loop" => ~cq["P"][1]
  BY PPutFacts
<1>q. rbuf' = rbuf /\ sending' = sending /\ unacked' = unacked /\ qp_error' = qp_error
      /\ alive' = alive
  BY PPutFacts
<1>4. pc'["P"] # "loop" => GotP' = GotP /\ SentP' = SentP
  <2>1. pc'["P"] # "loop" => GotP' = GotP
    BY <1>e, <1>p DEF GotP, One, Sending, PGone
  <2>2. pc'["P"] # "loop" => SentP' = SentP
    BY <1>e, <1>p DEF SentP, One
  <2>. QED
    BY <2>1, <2>2
<1>5. qp_error["P"] => Doomed' \/ pc'["P"] # "loop"
  BY <1>1, <1>p, <1>q, <1>c DEF Channel, Doomed, One, Before
<1>6. ~qp_error["P"] => pc'["P"] # "loop"
  BY <1>1, <1>c DEF Channel
<1>7. Doomed => Doomed'
  BY <1>p, <1>q, <1>c DEF Doomed, One, Before, PGone
<1>8. ((InStep(0) => InStep(0)') /\ (InStep(1) => InStep(1)')) \/ Doomed'
  BY <1>3, <1>4, <1>5, <1>6, <1>q DEF InStep
<1>9. ASSUME ~qp_error["P"], rbuf["P"] # NoMsg
      PROVE  ~sending["P"] /\ pc["P"] \notin {"putSize", "putValue"}
  <2>1. PICK k \in {0, 1} : InStep(k)
    BY <1>1, <1>9 DEF Doomed
  <2>2. GotS(k) \in Int /\ SentS(k) \in Int
    BY CountsAreIntegers
  <2>3. CASE pc["P"] = "putPBmap"
    <3>1. GotP = 3 * epoch + 1 /\ SentP = 4 * epoch + 1
      BY <1>e, <1>p, <2>3 DEF GotP, SentP, One, Sending, PGone
    <3>2. SentS(k) >= 3 * epoch + 2 => GotS(k) >= 4 * epoch + 1
      BY <1>e, SecondaryOrder
    <3>. QED
      BY <1>e, <1>9, <2>1, <2>2, <2>3, <3>1, <3>2 DEF InStep, One
  <2>4. CASE pc["P"] # "putPBmap"
    <3>1. GotP = 3 * epoch - 1
      BY <1>e, <1>p, <2>4 DEF GotP, One, Sending, PGone
    <3>2. /\ SentP \in Int /\ SentP <= 4 * epoch
          /\ pc["P"] \in {"putSize", "putValue"} => SentP < 4 * epoch
      BY <1>e, <1>p, <2>4 DEF SentP, One
    <3>n. PICK n \in Int : n = epoch - 1
      BY <1>e
    <3>3. SentS(k) >= 3 * n + 3 => GotS(k) >= 4 * n + 4
      BY SecondaryOrder
    <3>4. GotS(k) >= 4 * epoch
      BY <1>e, <1>9, <2>1, <2>2, <3>n, <3>1, <3>3 DEF InStep, One
    <3>. QED
      BY <1>e, <1>9, <2>1, <2>2, <2>4, <3>2, <3>4 DEF InStep, One
  <2>. QED
    BY <2>3, <2>4
<1>10. ~sending["P"] /\ (pc'["P"] \in Quiet["P"] => ~unacked["P"])
  <2>1. CASE qp_error["P"]
    BY <1>1, <2>1 DEF Channel
  <2>2. CASE ~qp_error["P"]
    <3>1. sending["P"] \/ unacked["P"] => rbuf["P"] # NoMsg
      <4>1. Balanced("P")
        BY <1>1, <2>2 DEF Channel
      <4>. QED
        BY <1>c, <1>p, <4>1 DEF Balanced, One
    <3>. QED
      BY <1>9, <1>p, <2>2, <3>1, QuietPlaces
  <2>. QED
    BY <2>1, <2>2
<1>11. Channel("P")'
  <2>1. CASE qp_error["P"]
    BY <1>1, <1>10, <1>p, <1>q, <1>c, <2>1 DEF Channel, One, Peer
  <2>2. CASE ~qp_error["P"]
    <3>1. Balanced("P")'
      <4>1. Balanced("P")
        BY <1>1, <2>2 DEF Channel
      <4>. QED
        BY <1>c, <1>p, <1>q, <4>1 DEF Balanced, One
    <3>2. \A i \in 1 .. Len(cq'["P"]) : cq'["P"][i] = TRUE
      BY <1>1, <1>c, <2>2 DEF Channel
    <3>. QED
      BY <1>10, <1>p, <1>q, <2>2, <3>1, <3>2 DEF Channel
  <2>. QED
    BY <2>1, <2>2
<1>. QED
  BY <1>1, <1>2, <1>7, <1>8, <1>11, <1>q DEF Protocol

\* What a get of the primary changes.
LEMMA PGetFacts ==
  ASSUME TypeOK, Places, PGet
  PROVE /\ alive' = alive /\ epoch' = epoch /\ loaded' = loaded
        /\ pc'["S"] = pc["S"] /\ rbuf'["S"] = rbuf["S"] /\ cq'["S"] = cq["S"]
        /\ UNCHANGED <<posted, sending, unacked, qp_error>> /\ ~posted["P"]
        /\ Len(cq["P"]) \in Nat /\ Len(cq["P"]) >= 1
        /\ Len(cq'["P"]) = Len(cq["P"]) - 1
        /\ \A i \in 1 .. Len(cq'["P"]) : cq'["P"][i] = cq["P"][i + 1]
        /\ rbuf'["P"] = IF cq["P"][1] THEN NoMsg ELSE rbuf["P"]
        /\ \/ pc["P"] = "getBmap" /\ pc'["P"] = "putPBmap"
           \/ pc["P"] = "getHash" /\ pc'["P"] = "write"
           \/ pc["P"] = "getLoaded" /\ pc'["P"] = "loop"
           \/ pc["P"] = "getLoaded" /\ pc'["P"] = "barrier" /\ rbuf["P"] # NoMsg
              /\ rbuf'["P"] = NoMsg
<1>1. /\ cq["P"] \in Seq(BOOLEAN) /\ cq["P"] # <<>>
      /\ cq'["P"] = Tail(cq["P"]) /\ cq'["S"] = cq["S"]
  BY Zenon DEF TypeOK, PGet, Got, Side
<1>2. /\ Len(cq["P"]) \in Nat /\ Len(cq["P"]) >= 1
      /\ Len(cq'["P"]) = Len(cq["P"]) - 1
      /\ \A i \in 1 .. Len(cq'["P"]) : cq'["P"][i] = cq["P"][i + 1]
      /\ Head(cq["P"]) = cq["P"][1]
  BY <1>1, TakeFirst
<1>3. /\ rbuf'["S"] = rbuf["S"]
      /\ rbuf'["P"] = IF cq["P"][1] THEN NoMsg ELSE rbuf["P"]
      /\ rdma_buffer'["P"] = IF cq["P"][1] THEN rbuf["P"] ELSE rdma_buffer["P"]
  BY <1>2, Zenon DEF PGet, Got, TypeOK, Side
<1>4. pc["P"] \in {"getBmap", "getHash", "getLoaded"}
  BY Domains, Zenon DEF PGet, Got, TypeOK, PLabels
<1>5. pc'["S"] = pc["S"] /\ pc'["P"] = PAfterGet(pc["P"])
  BY DEF PGet, Goto, TypeOK, Side
<1>6. /\ PAfterGet("getBmap") = "putPBmap"
      /\ PAfterGet("getHash") = "write"
      /\ PAfterGet("getLoaded") = IF rdma_buffer'["P"] = "LOADED" THEN "barrier" ELSE "loop"
  BY Zenon DEF PAfterGet
<1>7. ASSUME pc["P"] = "getLoaded", rdma_buffer'["P"] = "LOADED"
      PROVE rbuf["P"] # NoMsg /\ rbuf'["P"] = NoMsg
  BY <1>3, <1>7 DEF Places, NoMsg
<1>8. ~posted["P"]
  BY <1>4, Domains DEF Places, Side
<1>9. /\ \/ pc["P"] = "getBmap" /\ pc'["P"] = "putPBmap"
         \/ pc["P"] = "getHash" /\ pc'["P"] = "write"
         \/ pc["P"] = "getLoaded" /\ pc'["P"] = "loop"
         \/ pc["P"] = "getLoaded" /\ pc'["P"] = "barrier" /\ rbuf["P"] # NoMsg
            /\ rbuf'["P"] = NoMsg
  BY <1>4, <1>5, <1>6, <1>7
<1>. QED
  BY <1>1, <1>2, <1>3, <1>5, <1>8, <1>9, Zenon DEF PGet, Got, guest

\* A get of the primary keeps the two sides in step: without errors the completion
\* it takes is that of a message that has landed.
LEMMA PGetProtocol ==
  ASSUME TypeOK, Places, Protocol, PGet
  PROVE Protocol'
<1>1. alive["P"] /\ Channel("P") /\ Channel("S") /\ (InStep(0) \/ InStep(1) \/ Doomed)
  BY Zenon DEF Protocol, PGet, Got
<1>2. epoch \in Nat /\ epoch' = epoch /\ posted' = posted /\ ~posted["P"]
  BY PGetFacts, CountsAreIntegers
<1>3. /\ \/ pc["P"] = "getBmap" /\ pc'["P"] = "putPBmap"
         \/ pc["P"] = "getHash" /\ pc'["P"] = "write"
         \/ pc["P"] = "getLoaded" /\ pc'["P"] \in {"loop", "barrier"}
      /\ sending' = sending /\ unacked' = unacked /\ qp_error' = qp_error /\ alive' = alive
  BY PGetFacts
<1>4. /\ Len(cq["P"]) \in Nat /\ Len(cq["P"]) >= 1
      /\ Len(cq'["P"]) = Len(cq["P"]) - 1
  BY PGetFacts
<1>5. Channel("S")'
  BY <1>1, PGetFacts, ChannelSame DEF Peer, Side
<1>6. /\ GotS(0)' = GotS(0) /\ SentS(0)' = SentS(0)
      /\ GotS(1)' = GotS(1) /\ SentS(1)' = SentS(1)
  BY PGetFacts, SCountsSame
<1>7. GotP \in Int /\ GotP' = GotP + 1
  BY <1>2, <1>3 DEF GotP, One, Sending, PGone
<1>8. SentP' = SentP
  BY <1>2, <1>3 DEF SentP, One
<1>9. rbuf["P"] # NoMsg /\ rbuf'["P"] = NoMsg =>
        (InStep(0) => InStep(0)') /\ (InStep(1) => InStep(1)')
  <2>1. rbuf'["S"] = rbuf["S"]
    BY PGetFacts
  <2>. QED
    BY <1>3, <1>6, <1>7, <1>8, <2>1, CountsAreIntegers DEF InStep, One
<1>10. CASE qp_error["P"]
  <2>1. Len(cq["P"]) <= 1
    BY <1>1, <1>2, <1>10 DEF Channel, One
  <2>2. Channel("P")'
    BY <1>1, <1>2, <1>3, <1>4, <1>10, <2>1 DEF Channel, One
  <2>3. pc'["P"] # "barrier" => Doomed'
    BY <1>2, <1>3, <1>4, <1>10, <2>1 DEF Doomed, One, Before
  <2>4. pc'["P"] = "barrier" => (InStep(0)' \/ InStep(1)')
    <3>1. pc'["P"] = "barrier" => ~Doomed
      BY <1>2, <1>3, <1>4 DEF Doomed, One, Before, PGone
    <3>. QED
      BY <1>1, <1>9, <3>1, PGetFacts
  <2>. QED
    BY <1>5, <2>2, <2>3, <2>4 DEF Protocol
<1>11. CASE ~qp_error["P"]
  <2>1. Balanced("P") /\ cq["P"][1] = TRUE
    BY <1>1, <1>4, <1>11 DEF Channel
  <2>2. rbuf["P"] # NoMsg /\ ~sending["P"] /\ ~unacked["P"]
    BY <1>2, <1>4, <2>1 DEF Balanced, One
  <2>3. rbuf'["P"] = NoMsg
    BY <2>1, PGetFacts
  <2>4. Len(cq'["P"]) = 0
    BY <1>2, <1>4, <2>1, <2>2 DEF Balanced, One
  <2>5. Balanced("P")'
    BY <1>2, <1>3, <2>2, <2>3, <2>4 DEF Balanced, One
  <2>6. Channel("P")'
    BY <1>2, <1>3, <1>11, <2>2, <2>4, <2>5 DEF Channel
  <2>. QED
    BY <1>1, <1>5, <1>9, <1>11, <2>2, <2>3, <2>6 DEF Protocol, Doomed
<1>. QED
  BY <1>10, <1>11

\* What a post changes.
LEMMA PostFacts ==
  ASSUME TypeOK, Places, NEW x \in Side, Post(x)
  PROVE /\ alive' = alive /\ epoch' = epoch /\ loaded' = loaded /\ pc' = pc
        /\ UNCHANGED <<rbuf, unacked, qp_error>>
        /\ pc[x] \in DOMAIN PutMsg /\ ~posted[x] /\ posted'[x]
        /\ sending'[x] <=> ~qp_error[x]
        /\ Len(cq[x]) \in Nat
        /\ qp_error[x] => Len(cq'[x]) = Len(cq[x]) + 1
        /\ ~qp_error[x] => cq'[x] = cq[x]
        /\ \A y \in Side \ {x} : posted'[y] = posted[y] /\ sending'[y] = sending[y]
                                 /\ cq'[y] = cq[y]
<1>1. /\ alive' = alive /\ epoch' = epoch /\ loaded' = loaded /\ pc' = pc
      /\ UNCHANGED <<rbuf, unacked, qp_error>>
      /\ pc[x] \in DOMAIN PutMsg /\ ~posted[x]
  BY DEF Post, threads, guest
<1>2. posted'[x] /\ (sending'[x] <=> ~qp_error[x])
  BY ZenonT(30) DEF Post, TypeOK
<1>3. cq[x] \in Seq(BOOLEAN) /\ cq'[x] = IF qp_error[x] THEN Append(cq[x], FALSE) ELSE cq[x]
  BY DEF Post, TypeOK
<1>4. \A y \in Side \ {x} : posted'[y] = posted[y] /\ sending'[y] = sending[y]
                            /\ cq'[y] = cq[y]
  BY DEF Post, TypeOK
<1>5. Len(cq[x]) \in Nat /\ Len(Append(cq[x], FALSE)) = Len(cq[x]) + 1
  BY <1>3, AddLast
<1>. QED
  BY <1>1, <1>2, <1>3, <1>4, <1>5, Zenon

\* Posting a send keeps the own end of the control channel balanced.
LEMMA PostChannel ==
  ASSUME TypeOK, Places, NEW x \in Side, Post(x), Channel(x)
  PROVE Channel(x)'
<1>0. /\ Len(cq[x]) \in Nat /\ ~posted[x] /\ posted'[x] /\ (sending'[x] <=> ~qp_error[x])
      /\ unacked'[x] = unacked[x] /\ rbuf'[x] = rbuf[x] /\ qp_error'[x] = qp_error[x]
      /\ alive' = alive
  BY PostFacts
<1>1. pc[x] \in Quiet[x]
  BY PostFacts, Domains, QuietPlaces DEF TypeOK, PLabels, SLabels, Side
<1>2. ~unacked[x] /\ ~sending[x]
  BY <1>1, PostFacts DEF Channel
<1>3. CASE qp_error[x]
  <2>1. Len(cq[x]) <= One(posted[x]) + 1 /\ ~alive[Peer(x)]
    BY <1>3, Zenon DEF Channel
  <2>2. Len(cq'[x]) = Len(cq[x]) + 1
    BY <1>3, PostFacts
  <2>3. One(posted[x]) = 0 /\ One(posted'[x]) = 1
    BY <1>0 DEF One
  <2>4. Len(cq'[x]) <= One(posted'[x]) + 1
    <3>1. Len(cq[x]) <= 0 + 1 /\ Len(cq[x]) \in Nat
      BY <1>0, <2>1, <2>3, Zenon
    <3>2. Len(cq'[x]) <= 1 + 1
      BY <2>2, <3>1
    <3>. QED
      BY <2>3, <3>2, Zenon
  <2>5. ~sending'[x] /\ ~unacked'[x] /\ qp_error'[x] /\ ~alive'[Peer(x)]
    BY <1>0, <1>2, <1>3, <2>1
  <2>. QED
    BY <2>4, <2>5, Zenon DEF Channel
<1>4. CASE ~qp_error[x]
  <2>1. Balanced(x)
    BY <1>4 DEF Channel
  <2>3. cq'[x] = cq[x]
    BY <1>4, PostFacts
  <2>2. Balanced(x)'
    <3>1. Len(cq'[x]) = Len(cq[x])
      BY <2>3
    <3>2. sending'[x] /\ ~unacked'[x]
      BY <1>0, <1>2, <1>4, SMTT(20)
    <3>3. Len(cq[x]) = One(rbuf[x] # NoMsg)
      BY <1>0, <1>2, <2>1 DEF Balanced, One
    <3>. QED
      BY <1>0, <3>1, <3>2, <3>3 DEF Balanced, One
  <2>4. \A i \in 1 .. Len(cq'[x]) : cq'[x][i] = TRUE
    BY <1>4, <2>3, SMTT(20) DEF Channel
  <2>5. ~unacked'[x] /\ ~qp_error'[x]
    BY <1>0, <1>2, <1>4
  <2>. QED
    BY <1>0, <2>2, <2>4, <2>5, Zenon DEF Channel
<1>. QED
  BY <1>3, <1>4

\* Posting a send, with a working queue pair or in error, keeps the protocol.
LEMMA PostProtocol ==
  ASSUME TypeOK, Places, Protocol, NEW x \in Side, Post(x)
  PROVE Protocol'
<1>0. /\ alive' = alive /\ rbuf' = rbuf /\ qp_error' = qp_error
      /\ pc' = pc /\ epoch' = epoch /\ loaded' = loaded
  BY PostFacts
<1>1. SUFFICES ASSUME alive["P"], Channel("P"), Channel("S"),
                      InStep(0) \/ InStep(1) \/ Doomed
               PROVE  Protocol'
  BY <1>0 DEF Protocol
<1>2. Channel("P")' /\ Channel("S")'
  <2>1. Channel(x)'
    BY <1>1, PostChannel DEF Side
  <2>2. ASSUME NEW y \in Side \ {x} PROVE Channel(y)'
    BY <1>0, <1>1, <2>2, PostFacts, ChannelSame DEF Side
  <2>. QED
    BY <2>1, <2>2 DEF Side
<1>3. CASE x = "P"
  <2>1. /\ ~posted["P"] /\ posted'["P"] /\ posted'["S"] = posted["S"] 
        /\ sending'["S"] = sending["S"] /\ (sending'["P"] <=> ~qp_error["P"])
        /\ pc["P"] \in {"putPBmap", "putSize", "putValue", "putBuf"}
    BY <1>3, PostFacts, Domains, Zenon DEF TypeOK, PLabels, Side
  <2>2. GotP' = GotP
    BY <1>0 DEF GotP, One
  <2>3. SentP' = SentP + 1
    BY <1>0, <2>1, CountsAreIntegers DEF SentP, One
  <2>4. /\ GotS(0)' = GotS(0) /\ SentS(0)' = SentS(0)
        /\ GotS(1)' = GotS(1) /\ SentS(1)' = SentS(1)
    BY <1>0, <2>1, SCountsSame
  <2>5. (InStep(0) => InStep(0)') /\ (InStep(1) => InStep(1)')
    BY <1>0, <2>1, <2>2, <2>3, <2>4, CountsAreIntegers DEF InStep, One
  <2>6. Doomed => Doomed'
    BY <1>0, <1>3, <2>1, PostFacts DEF Doomed, One, Before, PGone
  <2>. QED
    BY <1>0, <1>1, <1>2, <2>5, <2>6 DEF Protocol
<1>4. CASE x = "S"
  <2>1. /\ ~posted["S"] /\ posted'["S"] /\ posted'["P"] = posted["P"] 
        /\ sending'["P"] = sending["P"] /\ cq'["P"] = cq["P"]
    BY <1>4, PostFacts DEF Side
  <2>2. GotP' = GotP /\ SentP' = SentP
    BY <1>0, <2>1, PCountsSame
  <2>3. /\ SentS(0)' = SentS(0) + 1 /\ SentS(1)' = SentS(1) + 1
    BY <1>0, <2>1, CountsAreIntegers DEF SentS, One
  <2>4. GotS(0)' = GotS(0) /\ GotS(1)' = GotS(1)
    BY <1>0 DEF GotS, One
  <2>5. ~sending["S"]
    BY <1>1, <2>1 DEF Channel
  <2>6. (InStep(0) => InStep(0)') /\ (InStep(1) => InStep(1)')
    BY <1>0, <2>1, <2>2, <2>3, <2>4, <2>5, CountsAreIntegers DEF InStep, One
  <2>7. Doomed => Doomed'
    BY <1>0, <2>1 DEF Doomed, One
  <2>. QED
    BY <1>0, <1>1, <1>2, <2>6, <2>7 DEF Protocol
<1>. QED
  BY <1>3, <1>4 DEF Side

\* What a put of the secondary changes.
LEMMA SPutFacts ==
  ASSUME TypeOK, Places, SPut
  PROVE /\ alive["S"] /\ alive' = alive /\ epoch' = epoch /\ loaded' = loaded
        /\ pc'["P"] = pc["P"] /\ posted'["P"] = posted["P"] /\ cq'["P"] = cq["P"]
        /\ posted["S"] /\ ~posted'["S"]
        /\ UNCHANGED <<rdma_buffer, rbuf, sending, unacked, qp_error>>
        /\ Len(cq["S"]) \in Nat /\ Len(cq["S"]) >= 1
        /\ Len(cq'["S"]) = Len(cq["S"]) - 1
        /\ \A i \in 1 .. Len(cq'["S"]) : cq'["S"][i] = cq["S"][i + 1]
        /\ \/ pc["S"] = "putBmap" /\ pc'["S"] = "getPBmap"
           \/ pc["S"] = "putHash" /\ pc'["S"] = "load"
           \/ pc["S"] = "putLoaded" /\ pc'["S"] = IF cq["S"][1] THEN "loop" ELSE "out"
<1>1. /\ cq["S"] \in Seq(BOOLEAN) /\ cq["S"] # <<>>
      /\ cq'["S"] = Tail(cq["S"]) /\ cq'["P"] = cq["P"]
  BY Zenon DEF TypeOK, SPut, Polled, Side
<1>2. /\ Len(cq["S"]) \in Nat /\ Len(cq["S"]) >= 1
      /\ Len(cq'["S"]) = Len(cq["S"]) - 1
      /\ \A i \in 1 .. Len(cq'["S"]) : cq'["S"][i] = cq["S"][i + 1]
      /\ Head(cq["S"]) = cq["S"][1]
  BY <1>1, TakeFirst
<1>3. /\ alive["S"] /\ posted["S"] /\ ~posted'["S"] /\ posted'["P"] = posted["P"]
  BY Zenon DEF SPut, Polled, TypeOK, Side
<1>4. pc["S"] \in {"putBmap", "putHash", "putLoaded"}
  BY <1>3, Domains DEF Places, TypeOK, SLabels, Side
<1>5. \E l : pc' = [pc EXCEPT !["S"] = l]
  BY Zenon DEF SPut, Goto
<1>6. pc'["P"] = pc["P"]
  BY <1>5 DEF TypeOK, Side
<1>7. \/ pc["S"] = "putBmap" /\ pc'["S"] = "getPBmap"
      \/ pc["S"] = "putHash" /\ pc'["S"] = "load"
      \/ pc["S"] = "putLoaded" /\ pc'["S"] = IF cq["S"][1] THEN "loop" ELSE "out"
  <2>1. CASE pc["S"] = "putLoaded" /\ Head(cq["S"])
    <3>1. pc'["S"] = "loop"
      BY <2>1, Zenon DEF SPut, Goto, TypeOK, Side
    <3>. QED
      BY <1>2, <2>1, <3>1, Zenon
  <2>2. CASE ~(pc["S"] = "putLoaded" /\ Head(cq["S"]))
    <3>1. pc'["S"] = CASE pc["S"] = "putBmap" -> "getPBmap"
                       [] pc["S"] = "putHash" -> "load"
                       [] pc["S"] = "putLoaded" -> "out"
      BY <2>2, Zenon DEF SPut, Goto, TypeOK, Side
    <3>2. \/ pc["S"] = "putBmap" /\ pc'["S"] = "getPBmap"
          \/ pc["S"] = "putHash" /\ pc'["S"] = "load"
          \/ pc["S"] = "putLoaded" /\ pc'["S"] = "out"
      BY <1>4, <3>1, Zenon
    <3>. QED
      BY <1>2, <2>2, <3>2, Zenon
  <2>. QED
    BY <2>1, <2>2, Zenon
<1>. QED
  BY <1>1, <1>2, <1>3, <1>6, <1>7, Zenon DEF SPut, Polled, guest

\* What a get of the secondary changes.
LEMMA SGetFacts ==
  ASSUME TypeOK, Places, SGet
  PROVE /\ alive["S"] /\ alive'["P"] = alive["P"] /\ epoch' = epoch /\ loaded' = loaded
        /\ pc'["P"] = pc["P"] /\ rbuf'["P"] = rbuf["P"] /\ cq'["P"] = cq["P"]
        /\ UNCHANGED <<posted, sending, unacked, qp_error>> /\ ~posted["S"]
        /\ Len(cq["S"]) \in Nat /\ Len(cq["S"]) >= 1
        /\ Len(cq'["S"]) = Len(cq["S"]) - 1
        /\ \A i \in 1 .. Len(cq'["S"]) : cq'["S"][i] = cq["S"][i + 1]
        /\ rbuf'["S"] = IF cq["S"][1] THEN NoMsg ELSE rbuf["S"]
        /\ \/ pc["S"] = "getPBmap" /\ pc'["S"] = "putHash"
           \/ pc["S"] = "getSize" /\ pc'["S"] \in {"getValue", "out"}
           \/ pc["S"] = "getValue" /\ pc'["S"] = "getBuf"
           \/ pc["S"] = "getBuf" /\ pc'["S"] \in {"device", "out"}
<1>1. /\ cq["S"] \in Seq(BOOLEAN) /\ cq["S"] # <<>>
      /\ cq'["S"] = Tail(cq["S"]) /\ cq'["P"] = cq["P"]
  BY Zenon DEF TypeOK, SGet, Got, Side
<1>2. /\ Len(cq["S"]) \in Nat /\ Len(cq["S"]) >= 1
      /\ Len(cq'["S"]) = Len(cq["S"]) - 1
      /\ \A i \in 1 .. Len(cq'["S"]) : cq'["S"][i] = cq["S"][i + 1]
      /\ Head(cq["S"]) = cq["S"][1]
  BY <1>1, TakeFirst
<1>3. /\ rbuf'["P"] = rbuf["P"]
      /\ rbuf'["S"] = IF cq["S"][1] THEN NoMsg ELSE rbuf["S"]
  BY <1>2, Zenon DEF SGet, Got, TypeOK, Side
<1>4. pc["S"] \in {"getPBmap", "getSize", "getValue", "getBuf"}
  BY Domains, Zenon DEF SGet, Got, TypeOK, SLabels
<1>5. pc'["P"] = pc["P"] /\ pc'["S"] = SAfterGet(pc["S"], Head(cq["S"]))
  BY Zenon DEF SGet, Goto, TypeOK, Side
<1>6. \A ok : /\ SAfterGet("getPBmap", ok) = "putHash"
              /\ SAfterGet("getSize", ok) \in {"getValue", "out"}
              /\ SAfterGet("getValue", ok) = "getBuf"
              /\ SAfterGet("getBuf", ok) \in {"device", "out"}
  BY Zenon DEF SAfterGet
<1>7. ~posted["S"]
  BY <1>4, Domains DEF Places, Side
<1>8. alive["S"] /\ alive'["P"] = alive["P"]
  BY Zenon DEF SGet, Got, TypeOK, Side
<1>9. /\ \/ pc["S"] = "getPBmap" /\ pc'["S"] = "putHash"
         \/ pc["S"] = "getSize" /\ pc'["S"] \in {"getValue", "out"}
         \/ pc["S"] = "getValue" /\ pc'["S"] = "getBuf"
         \/ pc["S"] = "getBuf" /\ pc'["S"] \in {"device", "out"}
  BY <1>4, <1>5, <1>6
<1>. QED
  BY <1>1, <1>2, <1>3, <1>5, <1>7, <1>8, <1>9, Zenon DEF SGet, Got, guest
=============================================================================
