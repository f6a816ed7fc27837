-------------------------- MODULE E1000RingProofs --------------------------
(***************************************************************************)
(* For every length of the ring and of the pipe and any number of packets: *)
(* no position leaves the ring, no wakeup is lost, and the fast path       *)
(* implements AgreedQueue.  The inductive invariant relates the three      *)
(* positions and the two flags to the numbers of packets that have passed  *)
(* them, and the requests of the proxy to the packets agreed on.  It       *)
(* speaks of the behaviours that have not met a limit of the ring.         *)
(***************************************************************************)
EXTENDS E1000Ring, TLAPS

\* The consensus thread is between its two critical sections: its position does not
\* move, and its copies stay inside the ring.
Copying == cpc \in {"mirror", "wait", "advance"}

Inside ==
  Copying => /\ cur.head = consensus_head
             /\ IF batching THEN cur.head + cur.count \in 0 .. RingLen - 1
                            ELSE cur.count = 1

TypeInv == TypeOK /\ Inside /\ applied <= appended /\ appended <= Len(submitted)

\* The request of the consensus thread is applied, but its position does not say so.
Held == cpc \in {"wait", "advance"} /\ mine <= applied

\* How many packets the guest has got, and how many are before consensus_head.
NT == Len(delivered)
NC == Len(agreed) - (IF Held THEN cur.count ELSE 0)

\* The guest and the log have the packets in order.
Ordered ==
  /\ \A i \in 1 .. Len(agreed) : agreed[i] = i
  /\ \A i \in 1 .. Len(delivered) : delivered[i] = i

\* The positions and the flags say how many packets wait for each stage.
Counts ==
  /\ NT <= NC
  /\ Len(agreed) <= arrived
  /\ arrived - NT <= RingLen
  /\ arrived - NC = buffer_head - consensus_head
                    + (IF buffer_wrap = 1 THEN RingLen ELSE 0)
  /\ NC - NT = consensus_head - buffer_tail
               + (IF consensus_wrap = 1 THEN RingLen ELSE 0)
  /\ batching => buffer_wrap = 0

\* The packets that the guest has not got are in the ring.
Slots == \A k \in 0 .. arrived - NT - 1 : iov_list[Around(buffer_tail + k)] = NT + k + 1

\* The copies of the consensus thread are still good after it released the lock.
Copies ==
  Copying =>
    /\ cur.count >= 1
    /\ cur.head + cur.count <= RingLen
    /\ NC + cur.count <= arrived

\* A request is counted after it is applied, and the requests that are not applied
\* are checkpoint requests and the one that the consensus thread waits for.
Queue ==
  /\ highest_rec <= applied
  /\ cpc \in {"wait", "advance"} => mine \in 1 .. Len(submitted)
  /\ cpc = "advance" => mine <= applied
  /\ \A k \in applied + 1 .. Len(submitted) :
       submitted[k] = IF cpc = "wait" /\ k = mine
                      THEN [i \in 1 .. cur.count |-> Len(agreed) + i]
                      ELSE <<>>

Sound == Ordered /\ Counts /\ Slots /\ Copies /\ Queue

RingInv == TypeInv /\ (~void => Sound)

-----------------------------------------------------------------------------
\* A sequence of the first packets, and the next ones behind it.
LEMMA ConcatNext ==
  ASSUME NEW s \in Seq(Nat), \A i \in 1 .. Len(s) : s[i] = i, NEW n \in Nat
  PROVE  LET t == [i \in 1 .. n |-> Len(s) + i]
         IN  /\ s \o t \in Seq(Nat)
             /\ Len(s \o t) = Len(s) + n
             /\ s \o t = AQ!FirstPackets(Len(s) + n)
<1> DEFINE t == [i \in 1 .. n |-> Len(s) + i]
<1>1. t \in Seq(Nat) /\ Len(t) = n /\ Len(s) \in Nat
  OBVIOUS
<1>2. s \o t = [i \in 1 .. Len(s) + n |-> IF i <= Len(s) THEN s[i] ELSE t[i - Len(s)]]
  BY <1>1
<1>3. \A i \in 1 .. Len(s) + n :
         (IF i <= Len(s) THEN s[i] ELSE t[i - Len(s)]) = i
  BY <1>1
<1>4. s \o t = AQ!FirstPackets(Len(s) + n)
  BY <1>2, <1>3 DEF AQ!FirstPackets
<1>5. s \o t \in Seq(Nat) /\ Len(s \o t) = Len(s) + n
  BY <1>1
<1> QED
  BY <1>4, <1>5, Zenon

\* One more packet behind the first ones.
LEMMA AppendNext ==
  ASSUME NEW s \in Seq(Nat), \A i \in 1 .. Len(s) : s[i] = i
  PROVE  /\ Append(s, Len(s) + 1) \in Seq(Nat)
         /\ Len(Append(s, Len(s) + 1)) = Len(s) + 1
         /\ Append(s, Len(s) + 1) = AQ!FirstPackets(Len(s) + 1)
<1>1. Len(s) \in Nat
  OBVIOUS
<1>2. Append(s, Len(s) + 1) = [i \in 1 .. Len(s) + 1 |-> IF i <= Len(s) THEN s[i] ELSE Len(s) + 1]
  BY <1>1
<1>3. \A i \in 1 .. Len(s) + 1 : (IF i <= Len(s) THEN s[i] ELSE Len(s) + 1) = i
  BY <1>1
<1>4. Append(s, Len(s) + 1) = AQ!FirstPackets(Len(s) + 1)
  BY <1>2, <1>3 DEF AQ!FirstPackets
<1> QED
  BY <1>1, <1>4

\* The sequence of requests with one more at its end.
LEMMA OneMore ==
  ASSUME NEW s \in Seq(Seq(Nat)), NEW e \in Seq(Nat)
  PROVE  /\ Append(s, e) \in Seq(Seq(Nat))
         /\ Len(Append(s, e)) = Len(s) + 1 /\ Len(s) \in Nat
         /\ \A k \in 1 .. Len(s) : Append(s, e)[k] = s[k]
         /\ Append(s, e)[Len(s) + 1] = e
  OBVIOUS

-----------------------------------------------------------------------------
(* The types, also after a limit was met.                                   *)

\* The slots that a batch names are in the ring.
LEMMA BatchType == TypeInv /\ cpc = "mirror" => Batch \in Seq(Nat)
<1> SUFFICES ASSUME TypeInv, cpc = "mirror" PROVE Batch \in Seq(Nat)
  OBVIOUS
<1> DEFINE c == cur.count
           n == IF c < 0 THEN 0 ELSE c
<1>1. c \in Int /\ cur.head \in 0 .. RingLen - 1 /\ n \in Nat
      /\ cur.head + c <= RingLen /\ RingLen \in Nat
  BY RingAssumption, SMTT(60) DEF TypeInv, TypeOK, Inside, Copying
<1>2. 1 .. c = 1 .. n
  BY <1>1
<1>3. \A i \in 1 .. n : iov_list[cur.head + i - 1] \in Nat
  <2>1. \A i \in 1 .. n : cur.head + i - 1 \in 0 .. RingLen - 1
    BY <1>1
  <2>2. iov_list \in [0 .. RingLen - 1 -> Nat]
    BY DEF TypeInv, TypeOK
  <2> QED
    BY <2>1, <2>2
<1>4. Batch = [i \in 1 .. n |-> iov_list[cur.head + i - 1]]
  BY <1>2 DEF Batch
<1> HIDE DEF n
<1>5. [i \in 1 .. n |-> iov_list[cur.head + i - 1]] \in Seq(Nat)
  BY <1>1, <1>3
<1> QED
  BY <1>4, <1>5

\* The types hold at the start.
LEMMA TypeInit == Init => TypeInv
<1>1. Len(<<>>) = 0 /\ <<>> \in Seq(Nat) /\ <<>> \in Seq(Seq(Nat))
  OBVIOUS
<1> QED
  BY <1>1, RingAssumption DEF Init, TypeInv, TypeOK, Inside, Copying

\* The main loop keeps them.
LEMMA TypeMain ==
  TypeInv /\ (e1000_receive_iov \/ Bypass \/ MainLoop \/ Refill \/ Elect) => TypeInv'
<1> SUFFICES ASSUME TypeInv,
                    e1000_receive_iov \/ Bypass \/ MainLoop \/ Refill \/ Elect
             PROVE  TypeInv'
  OBVIOUS
<1> USE RingAssumption
<1>0. UNCHANGED <<consensus_head, batching, cpc, cur, mine, requests>>
  BY Zenon DEF e1000_receive_iov, Bypass, MainLoop, Store, ReadPipe, TakeLock, SendToGuest,
         EndOfLoop, Refill, Elect, ring
<1>1. Inside' /\ applied' <= appended' /\ appended' <= Len(submitted')
  BY <1>0 DEF TypeInv, Inside, Copying, requests
<1>2. CASE Store
  <2>1. void' \in BOOLEAN
    BY <1>2, Zenon DEF Store
  <2> QED
    BY <1>0, <1>1, <1>2, <2>1, SMTT(60) DEF TypeInv, TypeOK, Store, Around, requests
<1>3. CASE SendToGuest
  <2>1. iov_list[buffer_tail] \in Nat
    BY DEF TypeInv, TypeOK
  <2>2. delivered' \in Seq(Nat)
    BY <1>3, <2>1 DEF TypeInv, TypeOK, SendToGuest
  <2> QED
    BY <1>0, <1>1, <1>3, <2>2, SMTT(60) DEF TypeInv, TypeOK, SendToGuest, Around, requests
<1>4. CASE e1000_receive_iov \/ Bypass \/ ReadPipe \/ TakeLock \/ EndOfLoop \/ Refill
           \/ Elect
  <2>1. UNCHANGED <<ring, batching, cpc, cur, mine, requests, history>>
    BY <1>4 DEF e1000_receive_iov, Bypass, ReadPipe, TakeLock, EndOfLoop, Refill, Elect
  <2>2. pipe' \in 0 .. PipeMax /\ rxbufs' \in 0 .. RxBufs
    <3>1. /\ pipe' = pipe \/ pipe' = (IF pipe > ReadMax THEN pipe - ReadMax ELSE 0)
          /\ \/ rxbufs' = rxbufs
             \/ rxbufs > 0 /\ rxbufs' = rxbufs - 1
             \/ rxbufs < RxBufs /\ rxbufs' = rxbufs + 1
      BY <1>4 DEF e1000_receive_iov, Bypass, ReadPipe, TakeLock, EndOfLoop, Refill, Elect
    <3>2. pipe \in 0 .. PipeMax /\ rxbufs \in 0 .. RxBufs
      BY DEF TypeInv, TypeOK
    <3> QED
      BY <3>1, <3>2
  <2>3. mpc' \in {mpc, "idle", "receive", "read", "drain"}
    BY <1>4 DEF e1000_receive_iov, Bypass, ReadPipe, TakeLock, EndOfLoop, Refill, Elect
  <2>4. (leader' = leader \/ leader' = ~leader) /\ (stalled' = stalled \/ stalled' = Waiting)
    BY <1>4, Zenon DEF e1000_receive_iov, Bypass, ReadPipe, TakeLock, EndOfLoop, Refill, Elect
  <2>5. leader' \in BOOLEAN /\ stalled' \in BOOLEAN
    BY <2>4, Zenon DEF TypeInv, TypeOK, Waiting
  <2> QED
    BY <1>1, <2>1, <2>2, <2>3, <2>5 DEF TypeInv, TypeOK, ring, requests, history
<1> QED
  BY <1>2, <1>3, <1>4 DEF MainLoop

\* The consensus thread keeps them.
LEMMA TypeConsensus == TypeInv /\ MakeConsensus => TypeInv'
<1> SUFFICES ASSUME TypeInv, MakeConsensus PROVE TypeInv'
  OBVIOUS
<1> USE RingAssumption
<1>1. CASE Snapshot
  <2>1. cur' \in [head : Int, count : Int]
    BY <1>1 DEF Snapshot, TypeInv, TypeOK
  <2>2. TypeOK'
    BY <1>1, <2>1, SMTT(60) DEF Snapshot, TypeInv, TypeOK, ring, requests, history
  <2>3. Inside'
    BY <1>1 DEF Snapshot, TypeInv, TypeOK, Inside, Copying, ring
  <2> QED
    BY <1>1, <2>2, <2>3 DEF Snapshot, TypeInv, requests
<1>2. CASE Submit
  <2>1. /\ submitted' \in Seq(Seq(Nat)) /\ Len(submitted') = Len(submitted) + 1
        /\ Len(submitted) \in Nat
    BY <1>2, BatchType, OneMore DEF Submit, TypeInv, TypeOK
  <2>2. TypeOK'
    BY <1>2, <2>1, SMTT(60) DEF Submit, TypeInv, TypeOK, ring, history
  <2>3. Inside'
    BY <1>2 DEF Submit, TypeInv, Inside, Copying, ring
  <2>4. applied' <= appended' /\ appended' <= Len(submitted')
    BY <1>2, <2>1 DEF Submit, TypeInv, TypeOK
  <2> QED
    BY <2>2, <2>3, <2>4 DEF TypeInv
<1>3. CASE Die \/ Return
  <2>1. UNCHANGED <<ring, batching, leader, cur, mine, mpc, pipe, rxbufs, requests,
                    stalled, history>>
    BY <1>3 DEF Die, Return
  <2>2. /\ cpc' \in {"scan", "mirror", "wait", "advance", "notify", "dead"}
        /\ Copying' => Copying
    BY <1>3 DEF Die, Return, Copying
  <2>3. TypeOK'
    BY <2>1, <2>2 DEF TypeInv, TypeOK, ring, requests, history
  <2>4. Inside'
    BY <2>1, <2>2 DEF TypeInv, Inside, ring
  <2> QED
    BY <2>1, <2>3, <2>4 DEF TypeInv, requests
<1>4. CASE Advance
  <2>1. consensus_head' \in 0 .. RingLen - 1
    <3>1. consensus_head' = Around(consensus_head + cur.count)
      BY <1>4 DEF Advance
    <3>2. cur.count \in Int /\ consensus_head \in 0 .. RingLen - 1
      BY DEF TypeInv, TypeOK
    <3>3. consensus_head + cur.count \in 0 .. RingLen
      BY <1>4, <3>2 DEF Advance, TypeInv, Inside, Copying
    <3> QED
      BY <3>1, <3>3 DEF Around
  <2>2. buffer_wrap' \in 0 .. 1 /\ consensus_wrap' \in 0 .. 1
    <3>1. /\ buffer_wrap' = 0 \/ buffer_wrap' = buffer_wrap
          /\ consensus_wrap' = 1 \/ consensus_wrap' = consensus_wrap
      BY <1>4 DEF Advance
    <3> QED
      BY <3>1 DEF TypeInv, TypeOK
  <2>3. TypeOK'
    BY <1>4, <2>1, <2>2, SMTT(60) DEF Advance, TypeInv, TypeOK, requests, history
  <2> QED
    BY <1>4, <2>3 DEF Advance, TypeInv, Inside, Copying, requests
<1>5. CASE Notify
  BY <1>5 DEF Notify, TypeInv, TypeOK, Inside, Copying, ring, requests, history
<1> QED
  BY <1>1, <1>2, <1>3, <1>4, <1>5 DEF MakeConsensus

\* The requests keep them.
LEMMA TypeRequests ==
  TypeInv /\ (Checkpoint \/ Server \/ LoseOwn \/ ApplyForeign) => TypeInv'
<1> SUFFICES ASSUME TypeInv, Checkpoint \/ Server \/ LoseOwn \/ ApplyForeign
             PROVE  TypeInv'
  OBVIOUS
<1>0. UNCHANGED <<ring, batching, leader, cpc, cur, mine, mpc, pipe, rxbufs, stalled>>
      /\ UNCHANGED <<arrived, delivered>>
  BY DEF Checkpoint, Server, AppendRequests, ApplyOwn, LoseOwn, ApplyForeign, history
<1>1. Inside'
  BY <1>0 DEF TypeInv, Inside, Copying, ring
<1>2. Len(submitted) \in Nat /\ <<>> \in Seq(Nat)
  BY DEF TypeInv, TypeOK
<1>3. CASE Checkpoint
  <2>1. submitted' \in Seq(Seq(Nat)) /\ Len(submitted') = Len(submitted) + 1
    BY <1>2, <1>3, OneMore DEF Checkpoint, TypeInv, TypeOK
  <2> QED
    BY <1>0, <1>1, <1>2, <1>3, <2>1, SMTT(60) DEF Checkpoint, TypeInv, TypeOK, ring, history
<1>4. CASE ApplyOwn
  <2>1. applied + 1 \in 1 .. Len(submitted)
    BY <1>2, <1>4 DEF ApplyOwn, TypeInv, TypeOK
  <2>2. submitted[applied + 1] \in Seq(Nat)
    BY <2>1, SMTT(60) DEF TypeInv, TypeOK
  <2>3. agreed' \in Seq(Nat)
    BY <1>4, <2>2 DEF ApplyOwn, TypeInv, TypeOK
  <2>4. highest_rec' \in Nat
    BY <1>4 DEF ApplyOwn, TypeInv, TypeOK
  <2> QED
    BY <1>0, <1>1, <1>4, <2>3, <2>4 DEF ApplyOwn, TypeInv, TypeOK, ring
<1>5. CASE AppendRequests
  BY <1>0, <1>1, <1>2, <1>5, SMTT(60) DEF AppendRequests, TypeInv, TypeOK, ring, history
<1>6. CASE LoseOwn
  BY <1>0, <1>1, <1>6 DEF LoseOwn, TypeInv, TypeOK, ring
<1>7. CASE ApplyForeign
  BY <1>0, <1>1, <1>7 DEF ApplyForeign, TypeInv, TypeOK, ring
<1> QED
  BY <1>3, <1>4, <1>5, <1>6, <1>7 DEF Server

\* Every step keeps the types.
LEMMA TypeStep == TypeInv /\ [Next]_vars => TypeInv'
<1> SUFFICES ASSUME TypeInv, [Next]_vars PROVE TypeInv'
  OBVIOUS
<1>1. CASE UNCHANGED vars
  BY <1>1 DEF vars, ring, requests, history, TypeInv, TypeOK, Inside, Copying
<1>2. CASE Next
  BY <1>2, TypeMain, TypeConsensus, TypeRequests DEF Next
<1> QED
  BY <1>1, <1>2

-----------------------------------------------------------------------------
(* The positions, the packets and the requests, until a limit is met.       *)

\* The invariant holds at the start.
LEMMA RingInit == Init => RingInv
<1> SUFFICES ASSUME Init PROVE RingInv
  OBVIOUS
<1> USE RingAssumption DEF Init
<1>1. Len(<<>>) = 0 /\ <<>> \in Seq(Nat)
  OBVIOUS
<1>2. TypeInv
  BY TypeInit
<1>3. NT = 0 /\ NC = 0
  BY <1>1 DEF NT, NC, Held
<1>4. Ordered /\ Counts /\ Slots
  BY <1>1, <1>3 DEF Ordered, Counts, Slots
<1>5. Copies /\ Queue
  BY <1>1 DEF Copies, Copying, Queue
<1> QED
  BY <1>2, <1>4, <1>5 DEF RingInv, Sound

\* The numbers behind the invariant, for the arithmetic of the steps.
NumberFacts ==
  /\ NT \in Nat /\ NC \in Nat /\ Len(agreed) \in Nat /\ arrived \in Nat
  /\ NT <= NC /\ NC <= Len(agreed) /\ Len(agreed) <= arrived
  /\ arrived - NT <= RingLen
  /\ buffer_head \in 0 .. RingLen - 1
  /\ consensus_head \in 0 .. RingLen - 1
  /\ buffer_tail \in 0 .. RingLen - 1
  /\ buffer_wrap \in {0, 1} /\ consensus_wrap \in {0, 1}
  /\ RingLen \in Nat /\ RingLen > 0
  /\ cur.count \in Int

\* They follow from the invariant.
LEMMA Numbers == TypeInv /\ Sound => NumberFacts
<1> SUFFICES ASSUME TypeInv, Sound PROVE NumberFacts
  OBVIOUS
<1>1. NT \in Nat /\ Len(agreed) \in Nat /\ arrived \in Nat /\ cur.count \in Int
  BY DEF TypeInv, TypeOK, NT
<1>2. NC \in Int /\ NC <= Len(agreed)
  <2>1. CASE Held
    <3>1. cur.count >= 1
      BY <2>1 DEF Sound, Copies, Copying, Held
    <3> QED
      BY <1>1, <2>1, <3>1 DEF NC
  <2>2. CASE ~Held
    BY <1>1, <2>2 DEF NC
  <2> QED
    BY <2>1, <2>2
<1>3. NT <= NC /\ Len(agreed) <= arrived /\ arrived - NT <= RingLen
  BY DEF Sound, Counts
<1>4. RingLen \in Nat /\ RingLen > 0
  BY RingAssumption
<1>5. /\ buffer_head \in 0 .. RingLen - 1
      /\ consensus_head \in 0 .. RingLen - 1
      /\ buffer_tail \in 0 .. RingLen - 1
      /\ buffer_wrap \in {0, 1} /\ consensus_wrap \in {0, 1}
  BY <1>4 DEF TypeInv, TypeOK
<1> QED
  BY <1>1, <1>2, <1>3, <1>4, <1>5 DEF NumberFacts

\* The part of the invariant about the requests depends on a few variables.
LEMMA SameQueue ==
  Queue /\ UNCHANGED <<submitted, applied, highest_rec, cpc, mine, cur, agreed>>
  => Queue' /\ (Held' <=> Held) /\ NC' = NC
  BY DEF Queue, Held, NC

\* A packet is stored behind the waiting ones, in a free slot.
LEMMA StoreStep == TypeInv /\ Sound /\ Store /\ ~void' => Sound'
<1> SUFFICES ASSUME TypeInv, Sound, Store, ~void' PROVE Sound'
  OBVIOUS
<1>0. NumberFacts
  BY Numbers
<1>u. UNCHANGED <<submitted, applied, highest_rec, cpc, mine, cur, agreed, delivered,
                  consensus_head, buffer_tail, consensus_wrap, batching>>
  BY DEF Store, requests
<1>1. NT' = NT /\ NC' = NC /\ Queue' /\ Ordered'
  BY <1>u, SameQueue DEF Sound, NT, Ordered
<1>r. arrived - NT < RingLen /\ (batching => buffer_head + 1 < RingLen)
  <2>1. ~(arrived - Len(delivered) >= RingLen) /\ ~(batching /\ buffer_head + 1 >= RingLen)
    BY Zenon DEF Store
  <2> QED
    BY <1>0, <2>1 DEF NT, NumberFacts
<1>a. arrived' = arrived + 1 /\ buffer_head' = Around(buffer_head + 1)
      /\ buffer_wrap' = (IF buffer_head + 1 >= RingLen THEN 1 ELSE buffer_wrap)
      /\ iov_list' = [iov_list EXCEPT ![buffer_head] = arrived + 1]
  BY DEF Store
<1> USE DEF NumberFacts
<1>4. Counts'
  <2>0. /\ arrived - NC = buffer_head - consensus_head
                          + (IF buffer_wrap = 1 THEN RingLen ELSE 0)
        /\ NC - NT = consensus_head - buffer_tail
                     + (IF consensus_wrap = 1 THEN RingLen ELSE 0)
        /\ batching => buffer_wrap = 0
    BY DEF Sound, Counts
  <2>2. buffer_wrap = 1 => buffer_head + 1 < RingLen
    BY <1>0, <1>r, <2>0
  <2>3. arrived' - NC' = buffer_head' - consensus_head'
                         + (IF buffer_wrap' = 1 THEN RingLen ELSE 0)
    BY <1>0, <1>1, <1>u, <1>a, <2>0, <2>2, SMTT(30) DEF Around
  <2>4. batching' => buffer_wrap' = 0
    BY <1>0, <1>u, <1>a, <1>r, <2>0
  <2> QED
    BY <1>0, <1>1, <1>u, <1>a, <1>r, <2>0, <2>3, <2>4 DEF Counts
<1>5. Slots'
  <2> DEFINE n == arrived - NT
  <2>0. n \in 0 .. RingLen - 1
    BY <1>0, <1>r
  <2>1. buffer_head = Around(buffer_tail + n)
    <3>1. n = (buffer_head - consensus_head + (IF buffer_wrap = 1 THEN RingLen ELSE 0))
              + (consensus_head - buffer_tail
                 + (IF consensus_wrap = 1 THEN RingLen ELSE 0))
      BY <1>0 DEF Sound, Counts
    <3> QED
      BY <2>0, <3>1, <1>0 DEF Around
  <2>2. ASSUME NEW k \in 0 .. arrived - NT - 1
        PROVE  Around(buffer_tail + k) # buffer_head
    BY <2>0, <2>1, <1>0 DEF Around
  <2>3. ASSUME NEW k \in 0 .. arrived' - NT' - 1
        PROVE  iov_list'[Around(buffer_tail' + k)] = NT' + k + 1
    <3>0. k \in 0 .. arrived - NT
      BY <1>0, <1>1, <1>a
    <3>1. Around(buffer_tail + k) \in 0 .. RingLen - 1
      BY <3>0, <2>0, <1>0 DEF Around
    <3>4. iov_list \in [0 .. RingLen - 1 -> Nat]
      BY DEF TypeInv, TypeOK
    <3>2. CASE k = arrived - NT
      BY <1>0, <1>1, <1>u, <1>a, <2>1, <3>1, <3>2, <3>4
    <3>3. CASE k \in 0 .. arrived - NT - 1
      <4>2. Around(buffer_tail + k) # buffer_head
        BY <2>2, <3>3
      <4>3. iov_list[Around(buffer_tail + k)] = NT + k + 1
        BY <3>3 DEF Sound, Slots
      <4>5. iov_list'[Around(buffer_tail + k)] = iov_list[Around(buffer_tail + k)]
        BY <1>a, <3>1, <3>4, <4>2
      <4> QED
        BY <1>1, <1>u, <4>3, <4>5
    <3> QED
      BY <1>0, <3>0, <3>2, <3>3
  <2> QED
    BY <2>3 DEF Slots, Around
<1>6. Copies'
  BY <1>0, <1>1, <1>u, <1>a DEF Sound, Copies, Copying
<1> QED
  BY <1>1, <1>4, <1>5, <1>6 DEF Sound

\* The guest gets the oldest packet.
LEMMA DeliverStep ==
  TypeInv /\ Sound /\ SendToGuest
  => Sound' /\ delivered' = AQ!FirstPackets(NT + 1) /\ NT < NC
<1> SUFFICES ASSUME TypeInv, Sound, SendToGuest
             PROVE  Sound' /\ delivered' = AQ!FirstPackets(NT + 1) /\ NT < NC
  OBVIOUS
<1>0. NumberFacts
  BY Numbers
<1> USE DEF NumberFacts
<1>u. UNCHANGED <<submitted, applied, highest_rec, cpc, mine, cur, agreed, arrived,
                  iov_list, buffer_head, consensus_head, buffer_wrap, batching>>
  BY DEF SendToGuest, requests
<1>1. NC' = NC /\ Queue'
  BY <1>u, SameQueue DEF Sound
<1>a. /\ consensus_head > buffer_tail \/ consensus_wrap = 1
      /\ buffer_tail' = Around(buffer_tail + 1)
      /\ consensus_wrap' = (IF buffer_tail + 1 >= RingLen THEN 0 ELSE consensus_wrap)
      /\ delivered' = Append(delivered, iov_list[buffer_tail])
  BY DEF SendToGuest, Waiting
<1>b. /\ arrived - NC = buffer_head - consensus_head
                        + (IF buffer_wrap = 1 THEN RingLen ELSE 0)
      /\ NC - NT = consensus_head - buffer_tail
                   + (IF consensus_wrap = 1 THEN RingLen ELSE 0)
  BY DEF Sound, Counts
<1>2. NT < NC /\ NC <= arrived
  BY <1>0, <1>a, <1>b
<1>3. iov_list[buffer_tail] = NT + 1
  <2>1. 0 \in 0 .. arrived - NT - 1
    BY <1>0, <1>2
  <2>2. Around(buffer_tail + 0) = buffer_tail
    BY <1>0 DEF Around
  <2>3. iov_list[Around(buffer_tail + 0)] = NT + 0 + 1
    BY <2>1, Zenon DEF Sound, Slots
  <2> QED
    BY <1>0, <2>2, <2>3
<1>4. delivered' \in Seq(Nat) /\ NT' = NT + 1 /\ delivered' = AQ!FirstPackets(NT + 1)
  <2>1. delivered' = Append(delivered, Len(delivered) + 1)
    BY <1>3, <1>a DEF NT
  <2>2. delivered \in Seq(Nat) /\ \A i \in 1 .. Len(delivered) : delivered[i] = i
    BY DEF TypeInv, TypeOK, Sound, Ordered
  <2> QED
    BY <2>1, <2>2, AppendNext, Zenon DEF NT
<1>6. Ordered'
  BY <1>0, <1>u, <1>4 DEF Sound, Ordered, AQ!FirstPackets, NT
<1>7. Counts'
  <2>1. consensus_wrap = 0 => buffer_tail + 1 < RingLen
    BY <1>0, <1>a
  <2>2. NC' - NT' = consensus_head' - buffer_tail'
                    + (IF consensus_wrap' = 1 THEN RingLen ELSE 0)
    BY <1>0, <1>1, <1>4, <1>u, <1>a, <1>b, <2>1 DEF Around
  <2> QED
    BY <1>0, <1>1, <1>2, <1>4, <1>u, <2>2 DEF Sound, Counts
<1>8. Slots'
  <2>1. ASSUME NEW k \in 0 .. arrived' - NT' - 1
        PROVE  iov_list'[Around(buffer_tail' + k)] = NT' + k + 1
    <3>1. k + 1 \in 0 .. arrived - NT - 1
      BY <1>0, <1>4, <1>u
    <3>3. Around(buffer_tail' + k) = Around(buffer_tail + (k + 1))
      BY <1>0, <3>1, <1>a, SMTT(30) DEF Around
    <3>4. iov_list[Around(buffer_tail + (k + 1))] = NT + (k + 1) + 1
      BY <3>1, Zenon DEF Sound, Slots
    <3> QED
      BY <1>0, <1>4, <1>u, <3>3, <3>4
  <2> QED
    BY <2>1 DEF Slots, Around
<1>9. Copies'
  BY <1>1, <1>u DEF Sound, Copies, Copying
<1> QED
  BY <1>1, <1>2, <1>4, <1>6, <1>7, <1>8, <1>9 DEF Sound

\* The copies are taken under the lock.
LEMMA SnapshotStep == TypeInv /\ Sound /\ Snapshot => Sound'
<1> SUFFICES ASSUME TypeInv, Sound, Snapshot PROVE Sound'
  OBVIOUS
<1>0. NumberFacts
  BY Numbers
<1> USE DEF NumberFacts
<1>u. UNCHANGED <<ring, batching, requests, history>> /\ cpc = "scan" /\ cpc' = "mirror"
  BY DEF Snapshot
<1>1. NT' = NT /\ NC' = NC /\ NC = Len(agreed)
  BY <1>0, <1>u, SMTT(60) DEF NT, NC, Held, history
<1>3. Ordered' /\ Counts' /\ Slots'
  BY <1>1, <1>u DEF Sound, Ordered, Counts, Slots, Around, ring, history
<1>4. Copies'
  <2>1. NC < arrived /\ RingLen \in Nat
    BY <1>0 DEF Sound, Counts, Snapshot
  <2>2. CASE batching
    <3>1. buffer_wrap = 0 /\ arrived - NC = buffer_head - consensus_head
      BY <1>0, <2>2 DEF Sound, Counts
    <3>2. cur'.head = consensus_head /\ cur'.count = buffer_head - consensus_head
      BY <2>2 DEF Snapshot
    <3> QED
      BY <1>0, <1>1, <1>u, <2>1, <3>1, <3>2, SMTT(60) DEF Copies, history
  <2>3. CASE ~batching
    <3>1. cur'.head = consensus_head /\ cur'.count = 1
      BY <2>3 DEF Snapshot
    <3> QED
      BY <1>0, <1>1, <1>u, <2>1, <3>1 DEF Copies, history
  <2> QED
    BY <2>2, <2>3, SMTT(60)
<1>5. Queue'
  BY <1>u DEF Sound, Queue, requests, history
<1> QED
  BY <1>3, <1>4, <1>5 DEF Sound

\* The slots that the copies name hold the next packets of the log.
LEMMA BatchNext ==
  TypeInv /\ Sound /\ cpc = "mirror"
  => Batch = [i \in 1 .. cur.count |-> Len(agreed) + i]
<1> SUFFICES ASSUME TypeInv, Sound, cpc = "mirror"
             PROVE  Batch = [i \in 1 .. cur.count |-> Len(agreed) + i]
  OBVIOUS
<1>0. NumberFacts
  BY Numbers
<1> USE DEF NumberFacts
<1> DEFINE c == cur.count
<1>1. NC = Len(agreed)
  BY <1>0 DEF NC, Held
<1>2. c \in Nat /\ c >= 1 /\ cur.head = consensus_head
      /\ consensus_head + c <= RingLen /\ Len(agreed) + c <= arrived
  BY <1>0, <1>1, SMTT(60) DEF TypeInv, Inside, Sound, Copies, Copying
<1>3. ASSUME NEW i \in 1 .. c
      PROVE  iov_list[cur.head + i - 1] = Len(agreed) + i
  <2> DEFINE k == (NC - NT) + (i - 1)
  <2>1. k \in 0 .. arrived - NT - 1
    BY <1>0, <1>1, <1>2, SMTT(60)
  <2>2. NC - NT = consensus_head - buffer_tail
                  + (IF consensus_wrap = 1 THEN RingLen ELSE 0)
    BY DEF Sound, Counts
  <2>3. Around(buffer_tail + k) = cur.head + i - 1
    BY <1>0, <1>2, <2>2 DEF Around
  <2>4. iov_list[Around(buffer_tail + k)] = NT + k + 1
    BY <2>1 DEF Sound, Slots
  <2> QED
    BY <1>0, <1>1, <2>3, <2>4
<1> QED
  BY <1>3 DEF Batch

\* Their request is the last one of the queue, and the only one with packets.
LEMMA SubmitStep == TypeInv /\ Sound /\ Submit => Sound'
<1> SUFFICES ASSUME TypeInv, Sound, Submit PROVE Sound'
  OBVIOUS
<1>0. NumberFacts
  BY Numbers
<1>u. /\ UNCHANGED <<ring, batching, cur, applied, highest_rec, history>>
      /\ cpc = "mirror" /\ cpc' = "wait" /\ mine' = Len(submitted) + 1
      /\ submitted' = Append(submitted, Batch)
  BY SMTT(60) DEF Submit
<1>1. /\ Len(submitted') = Len(submitted) + 1 /\ Len(submitted) \in Nat
      /\ \A k \in 1 .. Len(submitted) : submitted'[k] = submitted[k]
      /\ submitted'[Len(submitted) + 1] = Batch
  BY <1>u, BatchType, OneMore, SMTT(60) DEF TypeInv, TypeOK
<1>2. applied \in Nat /\ applied <= Len(submitted)
  BY <1>1 DEF TypeInv, TypeOK
<1>3. ~Held /\ ~Held' /\ NT' = NT /\ NC' = NC /\ NC = Len(agreed)
  BY <1>0, <1>u, <1>1, <1>2, SMTT(60) DEF NT, NC, Held, history, NumberFacts
<1>4. Ordered' /\ Counts' /\ Slots'
  BY <1>3, <1>u DEF Sound, Ordered, Counts, Slots, Around, ring, history
<1>5. Copies'
  BY <1>3, <1>u DEF Sound, Copies, Copying, history
<1>6. Queue'
  <2>1. ASSUME NEW k \in applied' + 1 .. Len(submitted')
        PROVE  submitted'[k] = IF cpc' = "wait" /\ k = mine'
                               THEN [i \in 1 .. cur'.count |-> Len(agreed') + i]
                               ELSE <<>>
    <3>1. CASE k = Len(submitted) + 1
      BY <1>u, <1>1, <3>1, BatchNext, Zenon DEF history
    <3>2. CASE k \in applied + 1 .. Len(submitted)
      <4>1. submitted[k] = <<>>
        BY <1>u, <3>2 DEF Sound, Queue
      <4>2. k \in 1 .. Len(submitted) /\ k # mine'
        BY <1>u, <1>1, <1>2, <3>2
      <4> QED
        BY <1>1, <4>1, <4>2
    <3> QED
      BY <1>u, <1>1, <1>2, <3>1, <3>2
  <2>2. highest_rec' <= applied' /\ mine' \in 1 .. Len(submitted')
    BY <1>u, <1>1 DEF Sound, Queue
  <2> QED
    BY <1>u, <2>1, <2>2, ZenonT(60) DEF Queue
<1> QED
  BY <1>4, <1>5, <1>6 DEF Sound

\* The thread returns once its request is applied.
LEMMA ReturnStep == TypeInv /\ Sound /\ (Return \/ Die \/ Notify) => Sound'
<1> SUFFICES ASSUME TypeInv, Sound, Return \/ Die \/ Notify PROVE Sound'
  OBVIOUS
<1>0. NumberFacts
  BY Numbers
<1>u. /\ UNCHANGED <<ring, batching, cur, mine, requests, history>>
      /\ \/ cpc = "wait" /\ cpc' = "advance" /\ mine <= highest_rec
         \/ cpc = "mirror" /\ cpc' = "dead"
         \/ cpc = "notify" /\ cpc' = "scan"
  BY DEF Return, Die, Notify
<1>1. cpc = "wait" => mine <= applied
  <2>1. mine \in Nat /\ highest_rec \in Nat /\ applied \in Nat
    BY DEF TypeInv, TypeOK
  <2>2. highest_rec <= applied
    BY DEF Sound, Queue
  <2> QED
    BY <1>u, <2>1, <2>2
<1>2. (Held' <=> Held) /\ NT' = NT /\ NC' = NC
  BY <1>u, <1>1, SMTT(60) DEF Held, NT, NC, requests, history
<1>3. Ordered' /\ Counts' /\ Slots'
  BY <1>2, <1>u DEF Sound, Ordered, Counts, Slots, Around, ring, history
<1>4. Copies'
  BY <1>2, <1>u DEF Sound, Copies, Copying, history
<1>5. Queue'
  <2>1. ASSUME NEW k \in applied + 1 .. Len(submitted)
        PROVE  submitted[k] = <<>>
    <3>1. ~(cpc = "wait" /\ k = mine)
      BY <1>1 DEF TypeInv, TypeOK
    <3> QED
      BY <3>1, Zenon DEF Sound, Queue
  <2>2. \A k \in applied' + 1 .. Len(submitted') : submitted'[k] = <<>>
    BY <1>u, <2>1 DEF requests
  <2> QED
    BY <1>u, <1>1, <2>2 DEF Sound, Queue, requests
<1> QED
  BY <1>3, <1>4, <1>5 DEF Sound

\* The position follows the log, and the flags follow the position.
LEMMA AdvanceStep == TypeInv /\ Sound /\ Advance => Sound'
<1> SUFFICES ASSUME TypeInv, Sound, Advance PROVE Sound'
  OBVIOUS
<1>0. NumberFacts
  BY Numbers
<1> USE DEF NumberFacts
<1> DEFINE c == cur.count
<1>u. /\ UNCHANGED <<iov_list, buffer_head, buffer_tail, batching, cur, mine, requests,
                     history>>
      /\ cpc = "advance" /\ cpc' = "notify"
  BY DEF Advance
<1>1. NT' = NT /\ NC' = Len(agreed) /\ NC = Len(agreed) - c
  <2>1. Held /\ ~Held'
    BY <1>u DEF Sound, Queue, Held
  <2> QED
    BY <1>0, <1>u, <2>1 DEF NT, NC, history
<1>2. c \in Nat /\ c >= 1 /\ consensus_head + c <= RingLen /\ NC + c <= arrived
  BY <1>0, <1>u DEF TypeInv, Inside, Sound, Copies, Copying
<1>3. /\ consensus_head' = Around(consensus_head + c)
      /\ IF consensus_head + c >= RingLen
         THEN buffer_wrap' = 0 /\ consensus_wrap' = 1
         ELSE buffer_wrap' = buffer_wrap /\ consensus_wrap' = consensus_wrap
  BY DEF Advance
<1> HIDE DEF c
<1>4. Ordered'
  BY <1>u DEF Sound, Ordered, history
<1>5. Counts'
  <2>0. UNCHANGED <<arrived, agreed, buffer_head, buffer_tail, batching>>
    BY <1>u DEF history
  <2>1. /\ arrived - NC = buffer_head - consensus_head
                          + (IF buffer_wrap = 1 THEN RingLen ELSE 0)
        /\ NC - NT = consensus_head - buffer_tail
                     + (IF consensus_wrap = 1 THEN RingLen ELSE 0)
        /\ batching => buffer_wrap = 0
    BY DEF Sound, Counts
  <2>2. CASE consensus_head + c >= RingLen
    <3>1. buffer_wrap = 1
      BY <1>0, <1>2, <2>1, <2>2
    <3>2. consensus_wrap = 0
      BY <1>0, <1>2, <2>1, <2>2
    <3>3. consensus_head' = consensus_head + c - RingLen
          /\ buffer_wrap' = 0 /\ consensus_wrap' = 1
      BY <1>0, <1>2, <1>3, <2>2 DEF Around
    <3>4. /\ arrived - Len(agreed) = buffer_head - consensus_head'
          /\ Len(agreed) - NT = consensus_head' - buffer_tail + RingLen
      BY <1>0, <1>1, <1>2, <2>1, <3>1, <3>2, <3>3
    <3> QED
      BY <1>0, <1>1, <1>2, <2>0, <3>3, <3>4 DEF Counts
  <2>3. CASE consensus_head + c < RingLen
    <3>1. consensus_head' = consensus_head + c
          /\ buffer_wrap' = buffer_wrap /\ consensus_wrap' = consensus_wrap
      BY <1>0, <1>2, <1>3, <2>3, SMTT(30) DEF Around
    <3>2. /\ arrived - Len(agreed) = buffer_head - consensus_head'
                                     + (IF buffer_wrap = 1 THEN RingLen ELSE 0)
          /\ Len(agreed) - NT = consensus_head' - buffer_tail
                                + (IF consensus_wrap = 1 THEN RingLen ELSE 0)
      BY SMTT(60), <1>0, <1>1, <1>2, <2>1, <3>1
    <3> QED
      BY <1>0, <1>1, <2>0, <2>1, <3>1, <3>2 DEF Counts
  <2> QED
    BY <1>0, <1>2, <2>2, <2>3
<1>6. Slots'
  BY <1>1, <1>u DEF Sound, Slots, Around, history
<1>7. Copies'
  BY <1>u DEF Copies, Copying
<1>8. Queue'
  BY <1>u DEF Sound, Queue, requests, history
<1> QED
  BY <1>4, <1>5, <1>6, <1>7, <1>8 DEF Sound

\* A checkpoint request has no packets.
LEMMA CheckpointStep == TypeInv /\ Sound /\ Checkpoint => Sound'
<1> SUFFICES ASSUME TypeInv, Sound, Checkpoint PROVE Sound'
  OBVIOUS
<1>u. /\ UNCHANGED <<ring, batching, cpc, cur, mine, applied, highest_rec, history>>
      /\ submitted' = Append(submitted, <<>>)
  BY DEF Checkpoint
<1>1. /\ Len(submitted') = Len(submitted) + 1 /\ Len(submitted) \in Nat
      /\ \A k \in 1 .. Len(submitted) : submitted'[k] = submitted[k]
      /\ submitted'[Len(submitted) + 1] = <<>>
  <2>1. <<>> \in Seq(Nat) /\ submitted \in Seq(Seq(Nat))
    BY DEF TypeInv, TypeOK
  <2> QED
    BY <1>u, <2>1, OneMore
<1>2. applied \in Nat
  BY DEF TypeInv, TypeOK
<1>3. NT' = NT /\ NC' = NC
  BY <1>u, SMTT(60) DEF NT, NC, Held, history
<1>4. Ordered' /\ Counts' /\ Slots' /\ Copies'
  BY <1>3, <1>u DEF Sound, Ordered, Counts, Slots, Copies, Copying, Around, ring, history
<1>5. Queue'
  <2>0. /\ highest_rec <= applied
        /\ cpc \in {"wait", "advance"} => mine \in 1 .. Len(submitted)
        /\ cpc = "advance" => mine <= applied
    BY DEF Sound, Queue
  <2>1. ASSUME NEW k \in applied + 1 .. Len(submitted) + 1
        PROVE  submitted'[k] = IF cpc = "wait" /\ k = mine
                               THEN [i \in 1 .. cur.count |-> Len(agreed) + i]
                               ELSE <<>>
    <3>1. CASE k = Len(submitted) + 1
      BY <1>1, <2>0, <3>1
    <3>2. CASE k \in applied + 1 .. Len(submitted)
      <4>1. submitted'[k] = submitted[k]
        BY <1>1, <1>2, <3>2
      <4> QED
        BY <3>2, <4>1 DEF Sound, Queue
    <3> QED
      BY <1>1, <1>2, <3>1, <3>2
  <2>2. cpc \in {"wait", "advance"} => mine \in 1 .. Len(submitted')
    BY <1>1, <2>0
  <2> QED
    BY <1>u, <1>1, <2>0, <2>1, <2>2, Zenon DEF Queue, history
<1> QED
  BY <1>4, <1>5 DEF Sound

\* The packets of an own request, if any, are the next ones of the log.
LEMMA ApplyStep ==
  TypeInv /\ Sound /\ ApplyOwn
  => /\ Sound'
     /\ \/ agreed' = agreed
        \/ \E n \in Len(agreed) + 1 .. arrived : agreed' = AQ!FirstPackets(n)
<1> SUFFICES ASSUME TypeInv, Sound, ApplyOwn
             PROVE  /\ Sound'
                    /\ \/ agreed' = agreed
                       \/ \E n \in Len(agreed) + 1 .. arrived :
                            agreed' = AQ!FirstPackets(n)
  OBVIOUS
<1>0. NumberFacts
  BY Numbers
<1> USE DEF NumberFacts
<1>u. /\ UNCHANGED <<ring, batching, cpc, cur, mine, submitted, arrived, delivered>>
      /\ applied' = applied + 1
      /\ agreed' = agreed \o submitted[applied + 1]
      /\ highest_rec' \in {highest_rec, highest_rec + 1}
  BY DEF ApplyOwn
<1>1. /\ applied \in Nat /\ highest_rec \in Nat /\ mine \in Nat /\ Len(submitted) \in Nat
      /\ applied + 1 \in applied + 1 .. Len(submitted)
      /\ agreed \in Seq(Nat)
  <2>1. applied < appended
    BY DEF ApplyOwn
  <2> QED
    BY <2>1, SMTT(60) DEF TypeInv, TypeOK
<1>2. /\ highest_rec <= applied
      /\ cpc \in {"wait", "advance"} => mine \in 1 .. Len(submitted)
      /\ cpc = "advance" => mine <= applied
      /\ \A k \in applied + 1 .. Len(submitted) :
           submitted[k] = IF cpc = "wait" /\ k = mine
                          THEN [i \in 1 .. cur.count |-> Len(agreed) + i]
                          ELSE <<>>
  BY DEF Sound, Queue
<1>3. highest_rec' <= applied'
  BY <1>u, <1>1, <1>2
<1>4. NT' = NT
  BY <1>u DEF NT
<1>5. CASE cpc = "wait" /\ mine = applied + 1
  <2> DEFINE c == cur.count
  <2>1. ~Held /\ Held' /\ NC = Len(agreed)
    BY <1>0, <1>1, <1>5, <1>u DEF Held, NC
  <2>2. c \in Nat /\ c >= 1 /\ Len(agreed) + c <= arrived
    BY <1>0, <1>5, <2>1 DEF Sound, Copies, Copying
  <2>3. submitted[applied + 1] = [i \in 1 .. c |-> Len(agreed) + i]
    BY <1>1, <1>2, <1>5
  <2>4. /\ agreed' \in Seq(Nat)
        /\ Len(agreed') = Len(agreed) + c
        /\ agreed' = AQ!FirstPackets(Len(agreed) + c)
    <3>1. agreed' = agreed \o [i \in 1 .. c |-> Len(agreed) + i]
      BY <1>u, <2>3, Zenon
    <3>2. \A i \in 1 .. Len(agreed) : agreed[i] = i
      BY DEF Sound, Ordered
    <3> QED
      BY <1>1, <2>2, <3>1, <3>2, ConcatNext, Zenon
  <2>5. NC' = NC
    BY <1>0, <1>u, <2>1, <2>2, <2>4, SMTT(60) DEF NC
  <2>6. Ordered'
    <3>1. \A i \in 1 .. Len(agreed') : agreed'[i] = i
      BY <1>0, <2>2, <2>4 DEF AQ!FirstPackets
    <3> QED
      BY <1>u, <3>1 DEF Sound, Ordered
  <2>7. Counts' /\ Slots'
    BY <1>0, <1>4, <1>u, <2>2, <2>4, <2>5 DEF Sound, Counts, Slots, Around, ring
  <2>8. Copies'
    BY <1>u, <2>5 DEF Sound, Copies, Copying
  <2>9. Queue'
    <3>1. ASSUME NEW k \in applied' + 1 .. Len(submitted')
          PROVE  submitted'[k] = <<>> /\ k # mine'
      <4>1. k \in applied + 1 .. Len(submitted) /\ k # mine
        BY <1>u, <1>1, <1>5
      <4> QED
        BY <1>u, <1>2, <4>1, Zenon
    <3>2. cpc' = "wait" /\ mine' \in 1 .. Len(submitted')
      BY <1>2, <1>5, <1>u
    <3> QED
      BY <1>3, <3>1, <3>2 DEF Queue
  <2>10. Len(agreed) + c \in Len(agreed) + 1 .. arrived
    BY <1>0, <2>2
  <2> QED
    BY <2>4, <2>6, <2>7, <2>8, <2>9, <2>10, SMTT(60) DEF Sound
<1>6. CASE ~(cpc = "wait" /\ mine = applied + 1)
  <2>1. submitted[applied + 1] = <<>>
    BY <1>1, <1>2, <1>6, Zenon
  <2>2. agreed' = agreed
    BY <1>u, <1>1, <2>1
  <2>3. (Held' <=> Held) /\ NC' = NC
    <3>1. Held' <=> Held
      BY <1>u, <1>1, <1>2, <1>6, SMTT(60) DEF Held
    <3> QED
      BY <1>u, <2>2, <3>1 DEF NC
  <2>4. Ordered' /\ Counts' /\ Slots' /\ Copies'
    BY <1>u, <1>4, <2>2, <2>3, SMTT(60)
    DEF Sound, Ordered, Counts, Slots, Copies, Copying, Around, ring
  <2>5. Queue'
    <3>1. \A k \in applied' + 1 .. Len(submitted') : k \in applied + 1 .. Len(submitted)
      BY <1>u, <1>1, SMTT(60)
    <3>2. cpc' = "advance" => mine' <= applied'
      BY <1>u, <1>1, <1>2
    <3> QED
      BY <1>u, <1>2, <1>3, <2>2, <3>1, <3>2, ZenonT(60) DEF Queue
  <2> QED
    BY <2>2, <2>4, <2>5 DEF Sound
<1> QED
  BY <1>5, <1>6

\* The other steps leave the ring, the packets and the counted requests alone.
QuietSteps ==
  e1000_receive_iov \/ Bypass \/ ReadPipe \/ TakeLock \/ EndOfLoop \/ AppendRequests
  \/ Refill \/ Elect \/ UNCHANGED vars

\* They keep the invariant.
LEMMA QuietStep == Sound /\ QuietSteps => Sound' /\ UNCHANGED history
<1> SUFFICES ASSUME Sound, QuietSteps PROVE Sound' /\ UNCHANGED history
  BY SMTT(60)
<1>1. /\ UNCHANGED <<ring, batching, cpc, cur, mine, history>>
      /\ UNCHANGED <<submitted, applied, highest_rec>>
  BY ZenonT(60) DEF QuietSteps, e1000_receive_iov, Bypass, ReadPipe, TakeLock, EndOfLoop,
         AppendRequests, Refill, Elect, vars, requests
<1>2. NT' = NT /\ NC' = NC /\ Queue'
  BY <1>1, SameQueue, SMTT(60) DEF Sound, NT, history
<1>3. Ordered' /\ Counts' /\ Slots' /\ Copies'
  BY <1>1, <1>2 DEF Sound, Ordered, Counts, Slots, Copies, Copying, Around, ring, history
<1> QED
  BY <1>1, <1>2, <1>3 DEF Sound

-----------------------------------------------------------------------------
\* Until a limit is met every step keeps the invariant, and is a step of the queue.
LEMMA SoundStep ==
  TypeInv /\ Sound /\ [Next]_vars /\ ~void' => Sound' /\ [AQ!Next]_AQ!avars
<1> SUFFICES ASSUME TypeInv, Sound, [Next]_vars, ~void'
             PROVE  Sound' /\ [AQ!Next]_AQ!avars
  OBVIOUS
<1>1. CASE Store
  <2>1. Sound'
    BY <1>1, StoreStep
  <2>2. AQ!Arrive
    <3>1. void' <=> (\/ void
                     \/ arrived - Len(delivered) >= RingLen
                     \/ batching /\ buffer_head + 1 >= RingLen)
      BY <1>1, ZenonT(60) DEF Store
    <3>2. void \in BOOLEAN /\ void' \in BOOLEAN
      BY TypeStep DEF TypeInv, TypeOK
    <3>3. void = FALSE /\ void' = FALSE
      BY <3>1, <3>2, Zenon
    <3> QED
      BY <1>1, <3>3, Zenon DEF Store, AQ!Arrive
  <2> QED
    BY <2>1, <2>2 DEF AQ!Next
<1>2. CASE SendToGuest
  <2>1. Sound' /\ delivered' = AQ!FirstPackets(NT + 1) /\ NT < NC
    BY <1>2, DeliverStep
  <2>2. Len(delivered) < Len(agreed)
    BY <2>1, Numbers DEF NumberFacts, NT
  <2>3. AQ!Deliver
    BY <1>2, <2>1, <2>2, Zenon DEF SendToGuest, AQ!Deliver, NT
  <2> QED
    BY <2>1, <2>3 DEF AQ!Next
<1>3. CASE ApplyOwn
  <2>1. /\ Sound'
        /\ \/ agreed' = agreed
           \/ \E n \in Len(agreed) + 1 .. arrived : agreed' = AQ!FirstPackets(n)
    BY <1>3, ApplyStep
  <2>2. UNCHANGED <<arrived, delivered, void>>
    BY <1>3 DEF ApplyOwn
  <2>3. UNCHANGED AQ!avars \/ AQ!Agree
    BY <2>1, <2>2, Zenon DEF AQ!avars, AQ!Agree
  <2> QED
    BY <2>1, <2>3 DEF AQ!Next
<1>4. CASE Snapshot \/ Submit \/ Return \/ Die \/ Notify \/ Advance \/ Checkpoint
  <2>1. Sound'
    BY <1>4, SnapshotStep, SubmitStep, ReturnStep, AdvanceStep, CheckpointStep, SMTT(60)
  <2>2. UNCHANGED history
    BY <1>4 DEF Snapshot, Submit, Return, Die, Notify, Advance, Checkpoint
  <2> QED
    BY <2>1, <2>2 DEF history, AQ!avars
<1>5. CASE QuietSteps
  BY <1>5, QuietStep DEF history, AQ!avars
<1>6. ~LoseOwn /\ ~ApplyForeign
  BY DEF LoseOwn, ApplyForeign
<1> QED
  BY <1>1, <1>2, <1>3, <1>4, <1>5, <1>6, Zenon
  DEF Next, MainLoop, MakeConsensus, Server, QuietSteps

\* What a limit breaks stays broken.
LEMMA NeverReset == [Next]_vars /\ void => void'
<1> SUFFICES ASSUME [Next]_vars, void PROVE void'
  OBVIOUS
<1>1. CASE Store
  BY <1>1, Zenon DEF Store
<1>2. CASE LoseOwn \/ ApplyForeign
  BY <1>2, Zenon DEF LoseOwn, ApplyForeign
<1>3. CASE UNCHANGED void
  BY <1>3
<1>4. Store \/ LoseOwn \/ ApplyForeign \/ UNCHANGED void
  BY Zenon DEF Next, MainLoop, MakeConsensus, Server, e1000_receive_iov, Bypass,
     ReadPipe, TakeLock, SendToGuest, EndOfLoop, Snapshot, Submit, Return, Die, Advance,
     Notify, Checkpoint, AppendRequests, ApplyOwn, Refill, Elect, vars, history
<1> QED
  BY <1>1, <1>2, <1>3, <1>4, Zenon

\* The invariant is inductive.
LEMMA RingStep == RingInv /\ [Next]_vars => RingInv'
<1> SUFFICES ASSUME RingInv, [Next]_vars PROVE RingInv'
  OBVIOUS
<1>1. TypeInv'
  BY TypeStep DEF RingInv
<1>2. ~void' => ~void
  BY NeverReset DEF RingInv
<1> QED
  BY <1>1, <1>2, SoundStep DEF RingInv

\* Until a limit of the ring is met, the positions, flags and copies agree with the
\* packets in every reachable state: the consensus thread may use its copies after it
\* has released the lock (e1000.c:1532 to 1592), and its request is counted only when
\* it is applied (proxy.c:144).
THEOREM RingInvariance == Spec => []RingInv
  BY RingInit, RingStep, PTL DEF Spec

\* The type invariant holds for every ring, also after a limit was met: no position
\* leaves iov_list (e1000.c:1115, 1488, 1573 and 1596).
THEOREM RingTypeCorrect == Spec => []TypeOK
<1>1. RingInv => TypeOK
  BY DEF RingInv, TypeInv
<1> QED
  BY <1>1, RingInvariance, PTL

\* The fast path implements the queue until a limit is met, for every length of the
\* ring, whatever the leadership and the other requests of the proxy do: the guest
\* gets the packets that were agreed on, once and in the order of arrival.
THEOREM FastPathRefines == Spec => ImplementsAgreedQueue
<1>1. Init => AQ!Init
  BY DEF Init, AQ!Init
<1>2. RingInv /\ RingInv' /\ [Next]_vars => [AQ!Next]_AQ!avars
  <2> SUFFICES ASSUME RingInv, RingInv', [Next]_vars PROVE [AQ!Next]_AQ!avars
    OBVIOUS
  <2>1. CASE void'
    BY <2>1, Zenon DEF AQ!Next, AQ!Void, RingInv, TypeInv, TypeOK
  <2>2. CASE ~void'
    <3>1. ~void
      BY <2>2, NeverReset
    <3> QED
      BY <2>2, <3>1, SoundStep DEF RingInv
  <2> QED
    BY <2>1, <2>2
<1> QED
  BY <1>1, <1>2, RingInvariance, PTL DEF Spec, ImplementsAgreedQueue, AQ!Spec

\* No wakeup is lost, for every ring and whatever the speed of the two threads, also
\* after a limit was met: the notification is written under the lock that protects
\* the positions.
THEOREM WakeupSafe == Spec => []NoLostWakeup
<1>1. Init => NoLostWakeup
  BY RingAssumption DEF Init, NoLostWakeup, Waiting
<1>2. TypeOK /\ NoLostWakeup /\ [Next]_vars => NoLostWakeup'
  <2> SUFFICES ASSUME TypeOK, NoLostWakeup, [Next]_vars PROVE NoLostWakeup'
    BY SMTT(60)
  <2>1. CASE Advance \/ Notify
    BY <2>1 DEF Advance, Notify, NoLostWakeup, TypeOK
  <2>2. CASE EndOfLoop
    BY <2>2, ZenonT(60) DEF EndOfLoop, NoLostWakeup, Waiting, ring
  <2>3. CASE ReadPipe \/ TakeLock \/ SendToGuest
    BY <2>3 DEF ReadPipe, TakeLock, SendToGuest, NoLostWakeup
  <2>4. CASE /\ UNCHANGED <<consensus_head, buffer_tail, consensus_wrap, pipe, stalled>>
             /\ mpc' \in {"idle", "receive"} => mpc \in {"idle", "receive"}
             /\ cpc = "notify" => cpc' = "notify"
    BY <2>4, SMTT(30) DEF NoLostWakeup, Waiting
  <2>5. \/ Advance \/ Notify \/ EndOfLoop \/ ReadPipe \/ TakeLock \/ SendToGuest
        \/ /\ UNCHANGED <<consensus_head, buffer_tail, consensus_wrap, pipe, stalled>>
           /\ mpc' \in {"idle", "receive"} => mpc \in {"idle", "receive"}
           /\ cpc = "notify" => cpc' = "notify"
    BY Zenon
    DEF Next, MainLoop, MakeConsensus, Server, e1000_receive_iov, Store, Bypass,
        Snapshot, Submit, Die, Return, Checkpoint, AppendRequests, ApplyOwn, LoseOwn,
        ApplyForeign, Refill, Elect, vars, ring
  <2> QED
    BY <2>1, <2>2, <2>3, <2>4, <2>5
<1> QED
  BY <1>1, <1>2, RingTypeCorrect, PTL DEF Spec
=============================================================================
