---------------------------- MODULE ColoProtocol ----------------------------
(***************************************************************************)
(* Every step of a COLO checkpoint keeps its two threads in step, and what the*)
(* primary knows when it has received LOADED.                              *)
(***************************************************************************)
EXTENDS ColoChannel

\* A put of the secondary keeps the two sides in step.
LEMMA SPutProtocol ==
  ASSUME TypeOK, Places, Protocol, SPut
  PROVE Protocol'
<1>1. SUFFICES ASSUME alive["P"] PROVE Protocol'
  BY SPutFacts DEF Protocol
<1>2. Channel("P") /\ Channel("S") /\ (InStep(0) \/ InStep(1))
  BY <1>1, SPutFacts DEF Protocol, Doomed, Channel, Peer
<1>3. ~qp_error["S"] /\ Balanced("S") /\ \A i \in 1 .. Len(cq["S"]) : cq["S"][i] = TRUE
  BY <1>1, <1>2 DEF Channel, Peer
<1>4. loaded \in Nat /\ loaded' = loaded
  BY SPutFacts, CountsAreIntegers
<1>5. /\ posted["S"] /\ ~posted'["S"]
      /\ \/ pc["S"] = "putBmap" /\ pc'["S"] = "getPBmap"
         \/ pc["S"] = "putHash" /\ pc'["S"] = "load"
         \/ pc["S"] = "putLoaded" /\ pc'["S"] = "loop"
  BY <1>3, SPutFacts
<1>6. /\ Len(cq["S"]) \in Nat /\ Len(cq["S"]) >= 1
      /\ Len(cq'["S"]) = Len(cq["S"]) - 1
      /\ \A i \in 1 .. Len(cq'["S"]) : cq'["S"][i] = cq["S"][i + 1]
  BY SPutFacts
<1>7. rbuf' = rbuf /\ sending' = sending /\ unacked' = unacked /\ qp_error' = qp_error
      /\ alive' = alive
  BY SPutFacts
<1>8. Channel("P")'
  BY <1>2, SPutFacts, ChannelSame DEF Peer, Side
<1>9. GotP' = GotP /\ SentP' = SentP
  BY SPutFacts, PCountsSame
<1>10. /\ SentS(0)' = SentS(0) /\ SentS(1)' = SentS(1)
  BY <1>4, <1>5 DEF SentS, One, SGone, Loading, Ram
<1>11. /\ GotS(0)' = GotS(0) /\ GotS(1)' = GotS(1)
  BY <1>4, <1>5 DEF GotS, One, SGone, Ram
<1>12. InStep(0)' \/ InStep(1)'
  BY <1>2, <1>7, <1>9, <1>10, <1>11 DEF InStep
<1>13. ASSUME rbuf["S"] # NoMsg
       PROVE  ~sending["S"] /\ pc["S"] # "putLoaded"
  <2>1. PICK k \in {0, 1} : InStep(k)
    BY <1>2
  <2>2. GotP \in Int /\ SentP \in Int /\ GotS(k) \in Int /\ SentS(k) \in Int
    BY CountsAreIntegers
  <2>3. CASE pc["S"] \in {"putBmap", "putLoaded"}
    <3>1. /\ GotS(k) = 4 * loaded /\ SentS(k) <= 3 * loaded + 1
          /\ pc["S"] = "putLoaded" => SentS(k) = 3 * loaded
      BY <1>4, <1>5, <2>3 DEF GotS, SentS, One, SGone, Loading, Ram
    <3>2. SentP >= 4 * loaded + 1 => GotP >= 3 * loaded + 1
      BY <1>4, PrimaryOrder
    <3>. QED
      BY <1>4, <1>13, <2>1, <2>2, <2>3, <3>1, <3>2 DEF InStep, One
  <2>4. CASE pc["S"] = "putHash"
    <3>1. GotS(k) = 4 * loaded + 1 /\ SentS(k) = 3 * loaded + 2
      BY <1>4, <1>5, <2>4 DEF GotS, SentS, One, SGone, Loading, Ram
    <3>2. SentP >= 4 * loaded + 2 => GotP >= 3 * loaded + 2
      BY <1>4, PrimaryOrder
    <3>. QED
      BY <1>4, <1>13, <2>1, <2>2, <2>4, <3>1, <3>2 DEF InStep, One
  <2>. QED
    BY <1>5, <2>3, <2>4
<1>14. ~sending["S"] /\ (pc'["S"] \in Quiet["S"] => ~unacked["S"])
  <2>1. sending["S"] \/ unacked["S"] => rbuf["S"] # NoMsg
    BY <1>3, <1>5, <1>6 DEF Balanced, One
  <2>. QED
    BY <1>5, <1>13, <2>1, QuietPlaces
<1>15. Balanced("S")'
  BY <1>3, <1>5, <1>6, <1>7 DEF Balanced, One
<1>16. \A i \in 1 .. Len(cq'["S"]) : cq'["S"][i] = TRUE
  BY <1>3, <1>6
<1>17. Channel("S")'
  BY <1>3, <1>7, <1>14, <1>15, <1>16 DEF Channel
<1>. QED
  BY <1>8, <1>12, <1>17 DEF Protocol

\* A get of the secondary keeps the two sides in step, or ends the process when the
\* result of the bitmap is an error (backup_prepare_bitmap).
LEMMA SGetProtocol ==
  ASSUME TypeOK, Places, Protocol, SGet
  PROVE Protocol'
<1>1. SUFFICES ASSUME alive["P"] PROVE Protocol'
  BY SGetFacts, Zenon DEF Protocol
<1>2. Channel("P") /\ Channel("S") /\ (InStep(0) \/ InStep(1)) /\ ~qp_error["P"]
  BY <1>1, SGetFacts DEF Protocol, Doomed, Channel, Peer
<1>3. loaded \in Nat /\ loaded' = loaded /\ posted' = posted /\ ~posted["S"]
  BY SGetFacts, CountsAreIntegers
<1>4. /\ Len(cq["S"]) \in Nat /\ Len(cq["S"]) >= 1
      /\ Len(cq'["S"]) = Len(cq["S"]) - 1
  BY SGetFacts
<1>5. ~qp_error["S"] /\ Balanced("S") /\ cq["S"][1] = TRUE
  BY <1>1, <1>2, <1>4 DEF Channel, Peer
<1>6. /\ \/ pc["S"] = "getPBmap" /\ pc'["S"] = "putHash"
         \/ pc["S"] = "getSize" /\ pc'["S"] \in {"getValue", "out"}
         \/ pc["S"] = "getValue" /\ pc'["S"] = "getBuf"
         \/ pc["S"] = "getBuf" /\ pc'["S"] \in {"device", "out"}
      /\ sending' = sending /\ unacked' = unacked /\ qp_error' = qp_error
  BY SGetFacts
<1>7. rbuf["S"] # NoMsg /\ ~sending["S"] /\ ~unacked["S"]
  BY <1>3, <1>4, <1>5 DEF Balanced, One
<1>8. rbuf'["S"] = NoMsg /\ rbuf'["P"] = rbuf["P"]
  BY <1>5, SGetFacts
<1>9. Len(cq'["S"]) = 0
  BY <1>3, <1>4, <1>5, <1>7 DEF Balanced, One
<1>10. Balanced("S")'
  BY <1>3, <1>6, <1>7, <1>8, <1>9 DEF Balanced, One
<1>11. Channel("S")'
  BY <1>3, <1>5, <1>6, <1>7, <1>9, <1>10 DEF Channel
<1>12. Channel("P")'
  BY <1>2, <1>6, SGetFacts, QuietPlaces, ZenonT(30) DEF Channel, Balanced, One
<1>13. GotP' = GotP /\ SentP' = SentP
  BY SGetFacts, PCountsSame
<1>14. GotS(0) = GotS(1) /\ SentS(0) = SentS(1)
  BY <1>3, <1>6 DEF GotS, SentS, One, SGone, Ram
<1>15. SentS(1)' = SentS(1)
  BY <1>3, <1>6 DEF SentS, One, SGone, Loading, Ram
<1>16. GotS(1)' <= GotS(1) + 1 /\ GotS(1)' \in Int
  BY <1>3, <1>6 DEF GotS, One, SGone, Ram
<1>17. InStep(1)'
  <2>1. InStep(1)
    BY <1>2, <1>14 DEF InStep
  <2>. QED
    BY <1>6, <1>7, <1>8, <1>13, <1>15, <1>16, <2>1, CountsAreIntegers DEF InStep, One
<1>. QED
  BY <1>11, <1>12, <1>17 DEF Protocol

\* The secondary loads the devices: that ends its part of the checkpoint.
LEMMA SDeviceProtocol ==
  ASSUME TypeOK, Places, Protocol, Memory, SDevice
  PROVE Protocol'
<1>1. /\ alive' = alive /\ epoch' = epoch /\ ctrl' = ctrl /\ alive["S"] /\ pc["S"] = "device"
  BY DEF SDevice, At
<1>2. SUFFICES ASSUME alive["P"] PROVE Protocol'
  BY <1>1 DEF Protocol
<1>3. Channel("P") /\ Channel("S") /\ (InStep(0) \/ InStep(1))
  BY <1>1, <1>2 DEF Protocol, Doomed, Channel, Peer
<1>4. ~posted["S"] /\ posted' = posted
  BY <1>1, Domains DEF Places, Side, ctrl
<1>5. /\ pc'["P"] = pc["P"]
      /\ \/ pc'["S"] = "putLoaded" /\ loaded' = epoch
         \/ pc'["S"] = "out" /\ loaded' = epoch
         \/ pc'["S"] = "out" /\ loaded' = loaded
  <2>1. CASE loaded' = epoch /\ Goto("S", IF failover_state["S"] = "RELAUNCH" THEN "out" ELSE "putLoaded")
    BY <2>1 DEF Goto, TypeOK, Side
  <2>2. CASE Goto("S", "out") /\ loaded' = loaded
    BY <2>2 DEF Goto, TypeOK, Side
  <2>. QED
    BY <2>1, <2>2 DEF SDevice
<1>6. epoch \in Nat /\ loaded \in Nat /\ epoch = loaded + 1
  BY <1>1, CountsAreIntegers DEF Memory, Sized
<1>7. GotP' = GotP /\ SentP' = SentP
  BY <1>1, <1>4, <1>5, PCountsSame
<1>8. Channel("P")'
  BY <1>1, <1>3, <1>5, ChannelSame DEF ctrl, Side
<1>9. Channel("S")'
  BY <1>1, <1>3, <1>4, <1>5, QuietPlaces, ZenonT(30) DEF ctrl, Channel, Balanced, One
<1>10. \A k \in {0, 1} : GotS(k) = 4 * loaded + 4 /\ SentS(k) = 3 * loaded + 2
  BY <1>1, <1>4, <1>6 DEF GotS, SentS, One, SGone, Loading, Ram
<1>11. \E k \in {0, 1} : /\ GotS(k)' \in Int /\ GotS(k)' <= 4 * loaded + 4
                         /\ SentS(k)' \in Int /\ SentS(k)' >= 3 * loaded + 2
  <2>1. CASE pc'["S"] = "putLoaded" /\ loaded' = epoch
    BY <1>4, <1>6, <2>1 DEF GotS, SentS, One, SGone, Loading, Ram
  <2>2. CASE pc'["S"] = "out" /\ loaded' = epoch
    <3>1. GotS(0)' = 4 * epoch /\ SentS(0)' = 3 * epoch
      BY <1>4, <1>6, <2>2 DEF GotS, SentS, One, SGone, Loading, Ram
    <3>. QED
      BY <1>6, <3>1
  <2>3. CASE pc'["S"] = "out" /\ loaded' = loaded
    <3>1. GotS(1)' = 4 * loaded + 1 /\ SentS(1)' = 3 * loaded + 2
      BY <1>4, <1>6, <2>3 DEF GotS, SentS, One, SGone, Loading, Ram
    <3>. QED
      BY <1>6, <3>1
  <2>. QED
    BY <1>5, <2>1, <2>2, <2>3
<1>12. InStep(0)' \/ InStep(1)'
  <2>1. /\ GotP + One(sending["S"]) + One(rbuf["P"] # NoMsg) <= 3 * loaded + 2
        /\ 4 * loaded + 4 + One(sending["P"]) + One(rbuf["S"] # NoMsg) <= SentP
    BY <1>3, <1>10 DEF InStep
  <2>2. PICK k \in {0, 1} : /\ GotS(k)' \in Int /\ GotS(k)' <= 4 * loaded + 4
                            /\ SentS(k)' \in Int /\ SentS(k)' >= 3 * loaded + 2
    BY <1>11
  <2>3. sending' = sending /\ rbuf' = rbuf
    BY <1>1 DEF ctrl
  <2>4. InStep(k)'
    BY <1>6, <1>7, <2>1, <2>2, <2>3, CountsAreIntegers DEF InStep, One
  <2>. QED
    BY <2>4
<1>. QED
  BY <1>8, <1>9, <1>12 DEF Protocol

\* Flushing the stream starts the next number of a checkpoint; the counts do not
\* change, because the messages are those of the same checkpoint.
LEMMA PFlushProtocol ==
  ASSUME TypeOK, Places, Protocol, PFlush
  PROVE Protocol'
<1>1. /\ alive' = alive /\ epoch' = epoch + 1 /\ loaded' = loaded /\ ctrl' = ctrl
      /\ pc["P"] = "flush"
  BY DEF PFlush, PrimaryKeeps, At
<1>2. pc'["S"] = pc["S"] /\ pc'["P"] \in {"putSize", "sem"}
  BY DEF PFlush, Goto, TypeOK, Side
<1>3. ~posted["P"] /\ posted' = posted /\ epoch \in Nat
  BY <1>1, Domains, CountsAreIntegers DEF Places, Side, ctrl
<1>4. /\ GotS(0)' = GotS(0) /\ SentS(0)' = SentS(0)
      /\ GotS(1)' = GotS(1) /\ SentS(1)' = SentS(1)
  BY <1>1, <1>2, <1>3, SCountsSame
<1>5. GotP' = GotP
  BY <1>1, <1>2, <1>3 DEF GotP, One, Sending, PGone
<1>6. SentP' >= SentP /\ SentP' \in Int
  BY <1>1, <1>2, <1>3 DEF SentP, One
<1>7. Channel("S") => Channel("S")'
  BY <1>1, <1>2, ChannelSame DEF ctrl, Side
<1>8. Channel("P") => Channel("P")'
  BY <1>1, <1>2, <1>3, QuietPlaces, Zenon DEF ctrl, Channel, Balanced, One
<1>9. Doomed => Doomed'
  BY <1>1, <1>2, <1>3 DEF Doomed, ctrl, One, Before, PGone
<1>10. (InStep(0) => InStep(0)') /\ (InStep(1) => InStep(1)')
  <2>1. rbuf' = rbuf /\ sending' = sending
    BY <1>1 DEF ctrl
  <2>. QED
    BY <1>4, <1>5, <1>6, <2>1, CountsAreIntegers DEF InStep, One
<1>. QED
  BY <1>1, <1>7, <1>8, <1>9, <1>10 DEF Protocol

\* A completion is added at the end of a queue.
LEMMA AppendTrue ==
  ASSUME NEW s \in Seq(BOOLEAN)
  PROVE /\ Len(s) \in Nat /\ Len(Append(s, TRUE)) = Len(s) + 1
        /\ (\A i \in 1 .. Len(s) : s[i] = TRUE)
             => (\A i \in 1 .. Len(Append(s, TRUE)) : Append(s, TRUE)[i] = TRUE)
<1>1. /\ Len(s) \in Nat /\ Len(Append(s, TRUE)) = Len(s) + 1
  BY AddLast
<1>2. /\ \A i \in 1 .. Len(s) : Append(s, TRUE)[i] = s[i]
      /\ Append(s, TRUE)[Len(s) + 1] = TRUE
  BY AddLast
<1>3. \A i \in 1 .. Len(Append(s, TRUE)) : i \in 1 .. Len(s) \/ i = Len(s) + 1
  BY <1>1
<1>. QED
  BY <1>1, <1>2, <1>3

\* A message that lands moves from one summand of the counts to the other.
LEMMA LandProtocol ==
  ASSUME TypeOK, Places, Protocol, NEW x \in Side, Land(x)
  PROVE Protocol'
<1>0. /\ alive' = alive /\ pc' = pc /\ epoch' = epoch /\ loaded' = loaded
      /\ posted' = posted /\ qp_error' = qp_error
  BY DEF Land, threads, guest
<1>1. /\ alive["P"] /\ Channel("P") /\ Channel("S") /\ (InStep(0) \/ InStep(1))
      /\ ~qp_error["P"] /\ ~qp_error["S"]
  BY DEF Land, Protocol, Doomed, Side
<1>2. PICK y \in Side : y = Peer(x) /\ y # x
  <2>1. Peer(x) \in Side /\ Peer(x) # x
    BY DEF Side, Peer
  <2>. QED
    BY <2>1
<1>3. /\ sending[x] /\ ~sending'[x] /\ unacked'[x]
      /\ cq'[x] = cq[x] /\ rbuf'[x] = rbuf[x]
  <2>1. sending[x] /\ ~sending'[x] /\ unacked'[x]
    BY ZenonT(30) DEF Land, TypeOK
  <2>2. cq'[x] = cq[x] /\ rbuf'[x] = rbuf[x]
    BY <1>2, ZenonT(30) DEF Land, TypeOK
  <2>. QED
    BY <2>1, <2>2
<1>4. /\ rbuf[y] = NoMsg /\ rbuf'[y] = rdma_buffer[x]
      /\ cq'[y] = Append(cq[y], TRUE) /\ cq[y] \in Seq(BOOLEAN)
      /\ sending'[y] = sending[y] /\ unacked'[y] = unacked[y]
  BY <1>2, Zenon DEF Land, TypeOK
<1>5. rbuf'[y] # NoMsg /\ posted[x] /\ ~unacked[x]
  <2>1. Channel(x)
    BY <1>1 DEF Side
  <2>2. posted[x] /\ ~unacked[x]
    BY <1>3, <2>1 DEF Channel
  <2>. QED
    BY <1>4, <2>2, Domains DEF Places
<1>6. /\ Len(cq[y]) \in Nat /\ Len(cq'[y]) = Len(cq[y]) + 1
      /\ (\A i \in 1 .. Len(cq[y]) : cq[y][i] = TRUE)
           => (\A i \in 1 .. Len(cq'[y]) : cq'[y][i] = TRUE)
  BY <1>4, AppendTrue
<1>7. Channel(x)'
  <2>1. Balanced(x) /\ \A i \in 1 .. Len(cq'[x]) : cq'[x][i] = TRUE
    BY <1>1, <1>3 DEF Channel, Side
  <2>2. Len(cq'[x]) = Len(cq[x])
    BY <1>3
  <2>3. Balanced(x)'
    <3>1. Len(cq[x]) = One(posted[x]) + One(rbuf[x] # NoMsg) - 1
      BY <1>3, <1>5, <2>1 DEF Balanced, One
    <3>2. Len(cq'[x]) = One(posted'[x]) + One(rbuf'[x] # NoMsg) - 1
      BY <1>0, <1>3, <2>2, <3>1
    <3>. QED
      BY <1>3, <3>2 DEF Balanced, One
  <2>. QED
    BY <1>0, <1>1, <1>3, <1>5, <2>1, <2>3 DEF Channel, Side
<1>8. Channel(y)'
  <2>1. Balanced(y) /\ \A i \in 1 .. Len(cq[y]) : cq[y][i] = TRUE
    BY <1>1 DEF Channel, Side
  <2>3. Balanced(y)'
    <3>1. Len(cq[y]) = One(posted[y]) - One(sending[y]) - One(unacked[y])
      BY <1>4, <2>1 DEF Balanced, One
    <3>3. One(posted'[y]) = One(posted[y]) /\ One(sending'[y]) = One(sending[y])
          /\ One(unacked'[y]) = One(unacked[y])
      BY <1>0, <1>4
    <3>4. One(posted[y]) \in Int /\ One(sending[y]) \in Int /\ One(unacked[y]) \in Int
      BY DEF One
    <3>2. Len(cq'[y]) = One(posted'[y]) + 1 - One(sending'[y]) - One(unacked'[y])
      BY <1>6, <3>1, <3>3, <3>4
    <3>. QED
      BY <1>5, <3>2 DEF Balanced, One
  <2>4. Channel(y)
    BY <1>1 DEF Side
  <2>5. ~qp_error'[y]
    BY <1>0, <1>1 DEF Side
  <2>. QED
    BY <1>0, <1>4, <1>6, <2>1, <2>3, <2>4, <2>5 DEF Channel
<1>9. GotP' = GotP /\ SentP' = SentP
  BY <1>0, PCountsSame
<1>10. /\ GotS(0)' = GotS(0) /\ SentS(0)' = SentS(0)
       /\ GotS(1)' = GotS(1) /\ SentS(1)' = SentS(1)
  BY <1>0, SCountsSame
<1>11. InStep(0)' \/ InStep(1)'
  <2>1. CASE x = "P"
    <3>1. y = "S"
      BY <1>2, <2>1 DEF Side
    <3>2. /\ rbuf'["P"] = rbuf["P"] /\ sending'["S"] = sending["S"]
          /\ rbuf["S"] = NoMsg /\ rbuf'["S"] # NoMsg /\ sending["P"] /\ ~sending'["P"]
      BY <1>3, <1>4, <1>5, <2>1, <3>1
    <3>. QED
      BY <1>1, <1>9, <1>10, <3>2, CountsAreIntegers DEF InStep, One
  <2>2. CASE x = "S"
    <3>1. y = "P"
      BY <1>2, <2>2 DEF Side
    <3>2. /\ rbuf'["S"] = rbuf["S"] /\ sending'["P"] = sending["P"]
          /\ rbuf["P"] = NoMsg /\ rbuf'["P"] # NoMsg /\ sending["S"] /\ ~sending'["S"]
      BY <1>3, <1>4, <1>5, <2>2, <3>1
    <3>. QED
      BY <1>1, <1>9, <1>10, <3>2, CountsAreIntegers DEF InStep, One
  <2>. QED
    BY <2>1, <2>2 DEF Side
<1>. QED
  BY <1>2, <1>7, <1>8, <1>11 DEF Protocol, Side

\* The completion of a send arrives: the queue has one more and the channel owes one
\* less.
LEMMA AckProtocol ==
  ASSUME TypeOK, Places, Protocol, NEW x \in Side, Ack(x)
  PROVE Protocol'
<1>0. /\ alive' = alive /\ pc' = pc /\ epoch' = epoch /\ loaded' = loaded
      /\ posted' = posted /\ qp_error' = qp_error /\ rbuf' = rbuf /\ sending' = sending
  BY DEF Ack, threads, guest
<1>1. /\ alive["P"] /\ Channel("P") /\ Channel("S") /\ (InStep(0) \/ InStep(1))
      /\ ~qp_error["P"] /\ ~qp_error["S"]
  BY DEF Ack, Protocol, Doomed, Channel, Side, Peer
<1>2. /\ unacked[x] /\ ~unacked'[x] /\ cq'[x] = Append(cq[x], TRUE)
      /\ cq[x] \in Seq(BOOLEAN)
  BY ZenonT(30) DEF Ack, TypeOK
<1>3. ASSUME NEW y \in Side, y # x PROVE Channel(y)'
  <2>1. cq'[y] = cq[y] /\ unacked'[y] = unacked[y]
    BY <1>3 DEF Ack, TypeOK
  <2>2. Channel(y)
    BY <1>1 DEF Side
  <2>. QED
    BY <1>0, <2>1, <2>2, ChannelSame
<1>4. /\ Len(cq[x]) \in Nat /\ Len(cq'[x]) = Len(cq[x]) + 1
      /\ (\A i \in 1 .. Len(cq[x]) : cq[x][i] = TRUE)
           => (\A i \in 1 .. Len(cq'[x]) : cq'[x][i] = TRUE)
  BY <1>2, AppendTrue
<1>5. Channel(x) /\ ~qp_error[x]
  BY <1>1 DEF Side
<1>6. Balanced(x) /\ ~sending[x] /\ \A i \in 1 .. Len(cq[x]) : cq[x][i] = TRUE
  BY <1>2, <1>5, SMTT(20) DEF Channel
<1>7. Balanced(x)'
  BY <1>0, <1>2, <1>4, <1>6, SMTT(20) DEF Balanced, One
<1>8. Channel(x)'
  BY <1>0, <1>2, <1>4, <1>5, <1>6, <1>7 DEF Channel
<1>9. GotP' = GotP /\ SentP' = SentP
  BY <1>0, PCountsSame
<1>10. /\ GotS(0)' = GotS(0) /\ SentS(0)' = SentS(0)
       /\ GotS(1)' = GotS(1) /\ SentS(1)' = SentS(1)
  BY <1>0, SCountsSame
<1>11. InStep(0)' \/ InStep(1)'
  BY <1>0, <1>1, <1>9, <1>10 DEF InStep
<1>. QED
  BY <1>3, <1>8, <1>11 DEF Protocol, Side

\* The peer is gone: the few completions that a queue pair in error still gives
\* cannot take the primary to the place after LOADED.
LEMMA RetriesProtocol ==
  ASSUME TypeOK, Places, Protocol, NEW x \in Side, RetriesExceeded(x)
  PROVE Protocol'
<1>0. /\ alive' = alive /\ pc' = pc /\ epoch' = epoch /\ loaded' = loaded
      /\ posted' = posted /\ rbuf' = rbuf
  BY DEF RetriesExceeded, threads, guest
<1>1. SUFFICES ASSUME alive["P"] PROVE Protocol'
  BY <1>0 DEF Protocol
<1>2. x = "P" /\ ~alive["S"] /\ (sending["P"] \/ unacked["P"])
  BY <1>1 DEF RetriesExceeded, Peer, Side
<1>3. Channel("P") /\ Channel("S") /\ (InStep(0) \/ InStep(1) \/ Doomed)
  BY <1>1 DEF Protocol
<1>4. ~qp_error["P"] /\ ~Doomed /\ Balanced("P") /\ ~(sending["P"] /\ unacked["P"])
  BY <1>2, <1>3 DEF Channel, Doomed
<1>5. qp_error'["P"] /\ ~sending'["P"] /\ ~unacked'["P"]
  BY <1>2, Zenon DEF RetriesExceeded, TypeOK, Side
<1>6. /\ qp_error'["S"] = qp_error["S"] /\ sending'["S"] = sending["S"]
      /\ unacked'["S"] = unacked["S"] /\ cq'["S"] = cq["S"]
  BY <1>2 DEF RetriesExceeded, TypeOK, Side
<1>7. Len(cq'["P"]) = Len(cq["P"]) + (IF rbuf["P"] = NoMsg THEN 2 ELSE 1) /\ Len(cq["P"]) \in Nat
  <2>1. /\ cq["P"] \in Seq(BOOLEAN)
        /\ cq'["P"] = cq["P"] \o <<FALSE>> \o (IF rbuf["P"] = NoMsg THEN <<FALSE>> ELSE <<>>)
    BY <1>2, SMTT(20) DEF RetriesExceeded, TypeOK, Side
  <2>2. <<FALSE>> \in Seq(BOOLEAN) /\ Len(<<FALSE>>) = 1
    OBVIOUS
  <2>3. /\ cq["P"] \o <<FALSE>> \in Seq(BOOLEAN)
        /\ Len(cq["P"] \o <<FALSE>>) = Len(cq["P"]) + 1 /\ Len(cq["P"]) \in Nat
    BY <2>1, <2>2, AddFlushed
  <2>4. CASE rbuf["P"] = NoMsg
    <3>1. Len((cq["P"] \o <<FALSE>>) \o <<FALSE>>) = Len(cq["P"] \o <<FALSE>>) + Len(<<FALSE>>)
      BY <2>2, <2>3, AddFlushed
    <3>. QED
      BY <2>1, <2>2, <2>3, <2>4, <3>1
  <2>5. CASE rbuf["P"] # NoMsg
    <3>1. (cq["P"] \o <<FALSE>>) \o <<>> = cq["P"] \o <<FALSE>>
      BY <2>3
    <3>. QED
      BY <2>1, <2>3, <2>5, <3>1
  <2>. QED
    BY <2>4, <2>5, Zenon
<1>8. Len(cq'["P"]) <= One(posted'["P"]) + 1
  <2>1. Len(cq["P"]) = One(posted["P"]) + One(rbuf["P"] # NoMsg) - 1
    BY <1>2, <1>4 DEF Balanced, One
  <2>2. Len(cq'["P"]) = One(posted["P"]) + 1
    BY <1>7, <2>1 DEF One
  <2>3. One(posted'["P"]) = One(posted["P"]) /\ One(posted["P"]) \in Int
    BY <1>0 DEF One
  <2>. QED
    BY <2>2, <2>3
<1>9. Channel("P")'
  BY <1>0, <1>2, <1>5, <1>8 DEF Channel, Peer
<1>10. Channel("S")'
  BY <1>0, <1>3, <1>6, ChannelSame DEF Side
<1>11. GotP' = GotP /\ SentP' = SentP
  BY <1>0, PCountsSame
<1>12. /\ GotS(0)' = GotS(0) /\ SentS(0)' = SentS(0)
       /\ GotS(1)' = GotS(1) /\ SentS(1)' = SentS(1)
  BY <1>0, SCountsSame
<1>13. InStep(0)' \/ InStep(1)'
  BY <1>0, <1>3, <1>4, <1>5, <1>6, <1>11, <1>12, CountsAreIntegers DEF InStep, One
<1>. QED
  BY <1>9, <1>10, <1>13 DEF Protocol

\* Steps that leave the control channel, the threads and the checkpoints alone; a
\* process may end.
LEMMA ProtocolFrame ==
  ASSUME Protocol, UNCHANGED <<pc, ctrl, epoch, loaded>>,
         \A x \in Side : alive'[x] => alive[x]
  PROVE Protocol'
<1>0. /\ posted' = posted /\ rbuf' = rbuf /\ sending' = sending /\ unacked' = unacked
      /\ cq' = cq /\ qp_error' = qp_error
  BY DEF ctrl
<1>1. SUFFICES ASSUME alive["P"] PROVE Protocol'
  BY DEF Protocol, Side
<1>2. Channel("P") /\ Channel("S") /\ (InStep(0) \/ InStep(1) \/ Doomed)
  BY <1>1 DEF Protocol
<1>3. Channel("P")' /\ Channel("S")'
  BY <1>0, <1>2, ChannelSame DEF Side, Peer
<1>4. GotP' = GotP /\ SentP' = SentP
  BY <1>0, PCountsSame
<1>5. /\ GotS(0)' = GotS(0) /\ SentS(0)' = SentS(0)
      /\ GotS(1)' = GotS(1) /\ SentS(1)' = SentS(1)
  BY <1>0, SCountsSame
<1>6. InStep(0)' \/ InStep(1)' \/ Doomed'
  BY <1>0, <1>2, <1>4, <1>5 DEF InStep, Doomed
<1>. QED
  BY <1>3, <1>6 DEF Protocol

\* The steps of the primary that do not use the control channel.
LEMMA PrimaryMoves ==
  ASSUME \/ PLoop \/ PWait \/ PReq \/ PStop \/ PCheck \/ PReplication \/ PLive
         \/ PHook \/ PFinish \/ PBarrier \/ PVmStart \/ PRelease \/ PSem \/ PExit
  PROVE \E l \in PLabels : PrimaryMove(l)
<1>1. CASE PLoop \/ PWait \/ PReq \/ PStop \/ PCheck \/ PReplication \/ PLive
  <2>1. PICK l \in Before \cup {"sem"} : pc' = [pc EXCEPT !["P"] = l]
    BY <1>1 DEF PLoop, PWait, PReq, PStop, PCheck, PReplication, PLive, Goto, Before
  <2>2. pc["P"] \in Before \ {"getBmap"}
    BY <1>1 DEF PLoop, PWait, PReq, PStop, PCheck, PReplication, PLive, At, Before
  <2>3. UNCHANGED <<alive, ctrl, epoch, loaded>>
    BY <1>1 DEF PLoop, PWait, PReq, PStop, PCheck, PReplication, PLive, PrimaryKeeps, guest
  <2>. QED
    BY <2>1, <2>2, <2>3, Zenon DEF PrimaryMove, Before, PLabels
<1>2. CASE PHook \/ PFinish
  <2>1. PICK l \in {"writing", "flush"} : pc' = [pc EXCEPT !["P"] = l]
    BY <1>2, Zenon DEF PHook, PFinish, Goto
  <2>2. pc["P"] \in {"write", "writing"} /\ UNCHANGED <<alive, ctrl, epoch, loaded>>
    BY <1>2, Zenon DEF PHook, PFinish, At, PrimaryKeeps, guest
  <2>. QED
    BY <2>1, <2>2, Zenon DEF PrimaryMove, PLabels
<1>3. CASE PBarrier \/ PVmStart \/ PRelease
  <2>1. PICK l \in {"vmStart", "release", "loop"} : pc' = [pc EXCEPT !["P"] = l]
    BY <1>3 DEF PBarrier, PVmStart, PRelease, Goto
  <2>2. pc["P"] \in {"barrier", "vmStart", "release"}
    BY <1>3 DEF PBarrier, PVmStart, PRelease, At
  <2>3. UNCHANGED <<alive, ctrl, epoch, loaded>>
    BY <1>3 DEF PBarrier, PVmStart, PRelease, PrimaryKeeps, guest
  <2>. QED
    BY <2>1, <2>2, <2>3, Zenon DEF PrimaryMove, PLabels
<1>4. CASE PSem \/ PExit
  <2>1. PICK l \in PGone : pc' = [pc EXCEPT !["P"] = l]
    BY <1>4 DEF PSem, PExit, Goto, PGone
  <2>2. pc["P"] \in PGone
    BY <1>4 DEF PSem, PExit, At, PGone
  <2>3. UNCHANGED <<alive, ctrl, epoch, loaded>>
    BY <1>4 DEF PSem, PExit, PrimaryKeeps, guest
  <2>. QED
    BY <2>1, <2>2, <2>3, Zenon DEF PrimaryMove, PLabels, PGone
<1>. QED
  BY <1>1, <1>2, <1>3, <1>4

\* Every step of the two processes and of the adapters keeps the protocol of
\* colo_do_checkpoint_transaction and colo_process_incoming_thread.
LEMMA ProtocolStep ==
  ASSUME TypeOK, Places, Protocol, Memory, [Next]_vars
  PROVE Protocol'
<1>1. CASE \/ PLoop \/ PWait \/ PReq \/ PStop \/ PCheck \/ PReplication \/ PLive
           \/ PHook \/ PFinish \/ PBarrier \/ PVmStart \/ PRelease \/ PSem \/ PExit
  BY <1>1, PrimaryMoves, PMove
<1>5. CASE PPut
  BY <1>5, PPutProtocol
<1>6. CASE PGet
  BY <1>6, PGetProtocol
<1>7. CASE PFlush
  BY <1>7, PFlushProtocol
<1>8. CASE SLoop \/ SWaitDone \/ SDisable \/ SStop \/ SResume
  <2>1. PICK l \in {"wait", "disable", "stop", "resume", "putBmap", "out"} :
          pc' = [pc EXCEPT !["S"] = l]
    BY <1>8 DEF SLoop, SWaitDone, SDisable, SStop, SResume, Goto
  <2>2. pc["S"] \in {"loop", "wait", "disable", "stop", "resume"}
    BY <1>8 DEF SLoop, SWaitDone, SDisable, SStop, SResume, At
  <2>3. UNCHANGED <<alive, ctrl, epoch, loaded>>
    BY <1>8 DEF SLoop, SWaitDone, SDisable, SStop, SResume, SecondaryKeeps, guest
  <2>. QED
    BY <2>1, <2>2, <2>3, SMove, Zenon DEF SLabels
<1>9. CASE SPoll
  <2>1. UNCHANGED <<alive, ctrl, epoch, loaded>>
    BY <1>9 DEF SPoll, SecondaryKeeps, guest
  <2>2. CASE pc' = pc
    BY <2>1, <2>2, ProtocolFrame
  <2>3. CASE pc' = [pc EXCEPT !["S"] = "disable"]
    BY <1>9, <2>1, <2>3, SMove DEF SPoll, At, SLabels
  <2>. QED
    BY <1>9, <2>2, <2>3 DEF SPoll, Goto
<1>10. CASE SLoad \/ SReady \/ SServe \/ STail
  <2>1. PICK l \in Ram \cup {"getSize", "out"} : pc' = [pc EXCEPT !["S"] = l]
    BY <1>10, Zenon DEF SLoad, SReady, SServe, STail, Goto, Ram
  <2>2. pc["S"] \in Ram /\ UNCHANGED <<alive, ctrl, epoch, loaded>>
    BY <1>10, Zenon DEF SLoad, SReady, SServe, STail, At, SecondaryKeeps, guest, Ram
  <2>3. l \in SLabels
    BY <2>1 DEF Ram, SLabels
  <2>. QED
    BY <2>1, <2>2, <2>3, SMove, Zenon
<1>11. CASE SOut \/ SSem
  <2>1. PICK l \in SGone : pc' = [pc EXCEPT !["S"] = l]
    BY <1>11 DEF SOut, SSem, Goto, SGone
  <2>2. pc["S"] \in SGone
    BY <1>11 DEF SOut, SSem, At, SGone
  <2>3. UNCHANGED <<alive, ctrl, epoch, loaded>>
    BY <1>11 DEF SOut, SSem, SecondaryKeeps, guest
  <2>. QED
    BY <2>1, <2>2, <2>3, SMove, Zenon DEF SLabels, SGone
<1>12. CASE SPut
  BY <1>12, SPutProtocol
<1>13. CASE SGet
  BY <1>13, SGetProtocol
<1>14. CASE SDevice
  BY <1>14, SDeviceProtocol
<1>15. CASE PWrite \/ Apply \/ Join \/ Emit \/ (\E x \in Side : Request(x) \/ FailoverBh(x)) \/ UNCHANGED vars
  <2>1. UNCHANGED <<pc, alive, ctrl, epoch, loaded>>
    BY <1>15 DEF PWrite, PrimaryKeeps, Apply, Join, Emit, Request, FailoverBh, vars, threads,
       guest
  <2>. QED
    BY <2>1, ProtocolFrame
<1>16. ASSUME NEW x \in Side, Post(x) \/ Adapter(x) \/ Crash(x) PROVE Protocol'
  <2>1. CASE Crash(x)
    <3>1. \A y \in Side : alive'[y] => alive[y]
      BY <2>1, Zenon DEF Crash, TypeOK
    <3>. QED
      BY <2>1, <3>1, ProtocolFrame DEF Crash, guest
  <2>. QED
    BY <1>16, <2>1, PostProtocol, LandProtocol, AckProtocol, RetriesProtocol DEF Adapter
<1>. QED
  BY <1>1, <1>5, <1>6, <1>7, <1>8, <1>9, <1>10, <1>11, <1>12, <1>13, <1>14, <1>15, <1>16
     DEF Next, Primary, Secondary, Side

\* What the secondary has sent in all.
LEMMA SentSBound ==
  ASSUME TypeOK, Places, NEW k \in {0, 1}
  PROVE SentS(k) <= 3 * loaded + 2
<1>1. loaded \in Nat
  BY CountsAreIntegers
<1>2. posted["S"] => pc["S"] \in {"putBmap", "putHash", "putLoaded"}
  BY Domains DEF Places, TypeOK, Side, SLabels
<1>3. CASE k = 0
  BY <1>1, <1>2, <1>3 DEF SentS, One, SGone, Loading, Ram
<1>4. CASE k = 1
  BY <1>1, <1>2, <1>4 DEF SentS, One, SGone, Loading, Ram
<1>. QED
  BY <1>3, <1>4

\* A primary that writes pages to a secondary that is alive is not ahead of it.
LEMMA NotAhead ==
  ASSUME TypeOK, Places, Protocol, alive["P"], alive["S"],
         pc["P"] \in {"write", "writing", "flush"}
  PROVE epoch <= loaded
<1>1. Channel("P") /\ (InStep(0) \/ InStep(1))
  BY DEF Protocol, Doomed, Channel, Peer
<1>2. PICK k \in {0, 1} : InStep(k)
  BY <1>1
<1>3. epoch \in Nat /\ loaded \in Nat /\ SentS(k) \in Int
  BY CountsAreIntegers
<1>4. GotP = 3 * epoch + 2
  BY <1>3 DEF GotP, One, Sending, PGone
<1>. QED
  BY <1>2, <1>3, <1>4, SentSBound, SMTT(20) DEF InStep, One

\* A primary that receives LOADED knows that the secondary has caught up.
LEMMA CaughtUp ==
  ASSUME TypeOK, Places, Protocol, Memory, PGet, pc'["P"] = "barrier"
  PROVE loaded = epoch
<1>1. /\ pc["P"] = "getLoaded" /\ rbuf["P"] # NoMsg /\ ~posted["P"]
      /\ Len(cq["P"]) \in Nat /\ Len(cq["P"]) >= 1
  BY PGetFacts
<1>2. ~Doomed
  BY <1>1 DEF Doomed, One, Before, PGone
<1>3. InStep(0) \/ InStep(1)
  BY <1>2, Zenon DEF Protocol, PGet, Got
<1>4. PICK k \in {0, 1} : InStep(k)
  BY <1>3
<1>5. epoch \in Nat /\ loaded \in Nat /\ SentS(k) \in Int
  BY CountsAreIntegers
<1>6. GotP = 3 * epoch - 1
  BY <1>1, <1>5 DEF GotP, One, Sending, PGone
<1>7. epoch <= loaded
  BY <1>1, <1>4, <1>5, <1>6, SentSBound DEF InStep, One
<1>. QED
  BY <1>5, <1>7 DEF Memory
=============================================================================
