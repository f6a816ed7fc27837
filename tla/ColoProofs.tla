----------------------------- MODULE ColoProofs -----------------------------
(***************************************************************************)
(* Theorems about COLO checkpoints: the inductive invariant, output commit *)
(* and the consistency of the guest that runs.                             *)
(***************************************************************************)
EXTENDS ColoProtocol, ColoTypes

\* A thread that has nothing posted may go anywhere but to where LOADED or the size
\* is waited for.
LEMMA PlacesMove ==
  ASSUME TypeOK, Places, NEW x \in Side, NEW l,
         pc' = [pc EXCEPT ![x] = l], pc[x] \notin DOMAIN PutMsg, l # "getLoaded",
         x = "S" /\ l \in Ram \cup {"getSize"} => pc["S"] \in Ram,
         UNCHANGED <<posted, rdma_buffer>>
  PROVE Places'
<1>1. pc'[x] = l /\ \A y \in Side : y # x => pc'[y] = pc[y]
  BY DEF TypeOK
<1>2. ~posted[x]
  BY DEF Places
<1>. QED
  BY <1>1, <1>2 DEF Places, Side

\* Every step keeps the relation between a posted send, the place of its thread and
\* its send area: nothing but LOADED replaces the BUFFER that was sent before it, and
\* nothing but SIZE the HASH.
LEMMA PlacesStep ==
  ASSUME TypeOK, Places, [Next]_vars
  PROVE Places'
<1>1. CASE PLoop \/ PWait \/ PReq \/ PStop \/ PCheck \/ PReplication \/ PLive
           \/ PHook \/ PFinish \/ PFlush \/ PBarrier \/ PVmStart \/ PRelease \/ PSem \/ PExit
  <2>1. PICK l : pc' = [pc EXCEPT !["P"] = l] /\ l # "getLoaded"
    BY <1>1, ZenonT(30) DEF PLoop, PWait, PReq, PStop, PCheck, PReplication, PLive, PHook, PFinish,
       PFlush, PBarrier, PVmStart, PRelease, PSem, PExit, Goto
  <2>2. pc["P"] \notin DOMAIN PutMsg
    BY <1>1, Domains, Zenon DEF PLoop, PWait, PReq, PStop, PCheck, PReplication, PLive, PHook,
       PFinish, PFlush, PBarrier, PVmStart, PRelease, PSem, PExit, At
  <2>3. UNCHANGED <<posted, rdma_buffer>>
    BY <1>1, Zenon DEF PLoop, PWait, PReq, PStop, PCheck, PReplication, PLive, PHook, PFinish,
       PFlush, PBarrier, PVmStart, PRelease, PSem, PExit, PrimaryKeeps, ctrl
  <2>. QED
    BY <2>1, <2>2, <2>3, PlacesMove, Zenon DEF Side
<1>2. CASE SLoop \/ SWaitDone \/ SDisable \/ SStop \/ SResume \/ SLoad \/ SReady
           \/ SServe \/ STail \/ SDevice \/ SOut \/ SSem
  <2>1. PICK l : /\ pc' = [pc EXCEPT !["S"] = l] /\ l # "getLoaded"
                 /\ l \in Ram \cup {"getSize"} => pc["S"] \in Ram
    BY <1>2, ZenonT(30) DEF SLoop, SWaitDone, SDisable, SStop, SResume, SLoad, SReady, SServe,
       STail, SDevice, SOut, SSem, Goto, At, Ram
  <2>2. pc["S"] \notin DOMAIN PutMsg
    BY <1>2, Domains, Zenon DEF SLoop, SWaitDone, SDisable, SStop, SResume, SLoad, SReady,
       SServe, STail, SDevice, SOut, SSem, At
  <2>3. UNCHANGED <<posted, rdma_buffer>>
    BY <1>2, Zenon DEF SLoop, SWaitDone, SDisable, SStop, SResume, SLoad, SReady, SServe, STail,
       SDevice, SOut, SSem, SecondaryKeeps, ctrl
  <2>. QED
    BY <2>1, <2>2, <2>3, PlacesMove, Zenon DEF Side
<1>3. CASE SPoll
  <2>1. UNCHANGED <<posted, rdma_buffer>> /\ pc["S"] = "wait"
    BY <1>3 DEF SPoll, SecondaryKeeps, ctrl, At
  <2>2. CASE pc' = pc
    BY <2>1, <2>2 DEF Places
  <2>3. CASE pc' = [pc EXCEPT !["S"] = "disable"]
    BY <2>1, <2>3, PlacesMove, Domains, Zenon DEF Side, Ram
  <2>. QED
    BY <1>3, <2>2, <2>3 DEF SPoll, Goto
<1>4. CASE PPut
  <2>1. posted["P"]
    BY <1>4, PPutFacts, Zenon
  <2>2. pc["P"] = "putBuf" => rdma_buffer["P"] = "BUFFER"
    BY <2>1 DEF Places, PutMsg, Side
  <2>. QED
    BY <1>4, <2>2, PPutFacts, Zenon DEF Places, Side
<1>5. CASE SPut
  <2>1. pc["S"] = "putHash" => rdma_buffer["S"] = "HASH"
    BY <1>5, SPutFacts DEF Places, PutMsg, Side
  <2>2. pc'["S"] \in Ram \cup {"getSize"} => pc["S"] = "putHash"
    BY <1>5, SPutFacts, Zenon DEF Ram
  <2>. QED
    BY <1>5, <2>1, <2>2, SPutFacts DEF Places, Side
<1>6. CASE PGet
  <2>1. rdma_buffer'["S"] = rdma_buffer["S"]
    BY <1>6, Zenon DEF PGet, Got, TypeOK, Side
  <2>. QED
    BY <1>6, <2>1, PGetFacts DEF Places, Side
<1>7. CASE SGet
  <2>1. rdma_buffer'["P"] = rdma_buffer["P"]
    BY <1>7, Zenon DEF SGet, Got, TypeOK, Side
  <2>2. pc'["S"] \notin Ram \cup {"getSize"}
    BY <1>7, SGetFacts, Zenon DEF Ram
  <2>. QED
    BY <1>7, <2>1, <2>2, SGetFacts DEF Places, Side
<1>8. ASSUME NEW x \in Side, Post(x) PROVE Places'
  <2>1. /\ pc' = pc /\ pc[x] \in DOMAIN PutMsg
        /\ rdma_buffer'[x] = PutMsg[pc[x]]
    BY <1>8 DEF Post, threads, TypeOK
  <2>2. \A y \in Side : y # x => posted'[y] = posted[y] /\ rdma_buffer'[y] = rdma_buffer[y]
    BY <1>8 DEF Post, TypeOK
  <2>3. /\ pc["P"] = "getLoaded" => x # "P"
        /\ pc["S"] \in Ram \cup {"getSize"} => x # "S"
    BY <2>1, Domains DEF Ram
  <2>. QED
    BY <2>1, <2>2, <2>3 DEF Places, Side
<1>9. CASE \/ PWrite \/ Apply \/ Join \/ Emit
           \/ \E x \in Side : Adapter(x) \/ Request(x) \/ FailoverBh(x) \/ Crash(x)
           \/ UNCHANGED vars
  <2>1. UNCHANGED <<pc, posted, rdma_buffer>>
    BY <1>9, Zenon DEF PWrite, PrimaryKeeps, Apply, Join, Emit, Adapter, Land, Ack,
       RetriesExceeded, Request, FailoverBh, Crash, vars, threads, ctrl
  <2>. QED
    BY <2>1 DEF Places
<1>. QED
  BY <1>1, <1>2, <1>3, <1>4, <1>5, <1>6, <1>7, <1>8, <1>9
     DEF Next, Primary, Secondary, Side

\* While both sides are alive their counts agree, and no completion is an error.
LEMMA BothAlive ==
  ASSUME Protocol, alive["P"], alive["S"]
  PROVE /\ Channel("P") /\ Channel("S") /\ (InStep(0) \/ InStep(1))
        /\ ~qp_error["P"]
        /\ \A i \in 1 .. Len(cq["P"]) : cq["P"][i] = TRUE
BY DEF Protocol, Doomed, Channel, Peer

\* Where a primary that gets a message is in step, it takes the one that has landed.
LEMMA PGetTakes ==
  ASSUME TypeOK, Places, Protocol, PGet, alive["S"]
  PROVE rbuf["P"] # NoMsg /\ rbuf'["P"] = NoMsg
<1>1. /\ Len(cq["P"]) \in Nat /\ Len(cq["P"]) >= 1 /\ ~posted["P"]
      /\ rbuf'["P"] = IF cq["P"][1] THEN NoMsg ELSE rbuf["P"]
  BY PGetFacts
<1>2. alive["P"]
  BY DEF PGet, Got
<1>3. 1 \in 1 .. Len(cq["P"])
  BY <1>1
<1>4. cq["P"][1] = TRUE /\ Balanced("P")
  BY <1>2, <1>3, BothAlive, Zenon DEF Channel
<1>. QED
  BY <1>1, <1>4 DEF Balanced, One

\* What the primary has received or will receive grows by no step of the primary.
LEMMA PrimaryCount ==
  ASSUME TypeOK, Places, Protocol, Primary, alive["S"]
  PROVE /\ GotP' \in Int
        /\ GotP' + One(sending'["S"]) + One(rbuf'["P"] # NoMsg)
             <= GotP + One(sending["S"]) + One(rbuf["P"] # NoMsg)
<1>0. GotP \in Int /\ epoch \in Nat /\ \A b : One(b) \in Int
  BY CountsAreIntegers DEF One
<1>1. CASE \/ PLoop \/ PWait \/ PReq \/ PStop \/ PCheck \/ PReplication \/ PLive
           \/ PHook \/ PFinish \/ PBarrier \/ PVmStart \/ PRelease \/ PSem \/ PExit
  <2>1. PICK l \in PLabels : PrimaryMove(l)
    BY <1>1, PrimaryMoves
  <2>2. GotP' \in Int /\ GotP' <= GotP
    BY <2>1, PMoveCounts
  <2>3. sending' = sending /\ rbuf' = rbuf
    BY <2>1 DEF PrimaryMove, ctrl
  <2>. QED
    BY <1>0, <2>2, <2>3
<1>2. CASE PWrite \/ Post("P")
  <2>1. sending'["S"] = sending["S"] /\ rbuf' = rbuf /\ pc' = pc /\ epoch' = epoch
    BY <1>2, Zenon DEF PWrite, PrimaryKeeps, ctrl, Post, threads, guest, TypeOK, Side
  <2>2. GotP' = GotP
    BY <2>1 DEF GotP
  <2>. QED
    BY <1>0, <2>1, <2>2
<1>3. CASE PPut
  <2>1. alive["P"]
    BY <1>3 DEF PPut, Polled
  <2>2. 1 \in 1 .. Len(cq["P"])
    BY <1>3, PPutFacts
  <2>3. cq["P"][1] = TRUE
    BY <2>1, <2>2, BothAlive, Zenon
  <2>4. GotP' = GotP
    BY <1>0, <1>3, <2>3, PPutFacts DEF GotP, One, Sending, PGone
  <2>. QED
    BY <1>0, <1>3, <2>4, PPutFacts
<1>4. CASE PGet
  <2>1. rbuf["P"] # NoMsg /\ rbuf'["P"] = NoMsg /\ sending' = sending
    BY <1>4, PGetTakes, PGetFacts
  <2>2. GotP' = GotP + 1
    BY <1>0, <1>4, PGetFacts DEF GotP, One, Sending, PGone
  <2>. QED
    BY <1>0, <2>1, <2>2 DEF One
<1>5. CASE PFlush
  <2>1. /\ pc["P"] = "flush" /\ pc'["P"] \in {"putSize", "sem"} /\ epoch' = epoch + 1
        /\ sending' = sending /\ rbuf' = rbuf
    BY <1>5 DEF PFlush, At, Goto, PrimaryKeeps, ctrl, TypeOK, Side
  <2>2. GotP' = GotP
    BY <1>0, <2>1 DEF GotP, One, Sending, PGone
  <2>. QED
    BY <1>0, <2>1, <2>2
<1>. QED
  BY <1>1, <1>2, <1>3, <1>4, <1>5 DEF Primary

\* A secondary that leaves its loop while its guest runs has sent the messages of
\* the loaded checkpoints, and then sends no more.
LEMMA LeftRunningStep ==
  ASSUME TypeOK, Places, Protocol, Memory, LeftRunning, [Next]_vars
  PROVE LeftRunning'
<1>. SUFFICES ASSUME alive'["P"], alive'["S"], running'["S"], ~taken_over', pc'["S"] \in SGone
              PROVE GotP' + One(sending'["S"]) + One(rbuf'["P"] # NoMsg) <= 3 * loaded'
  BY DEF LeftRunning
<1>0. GotP \in Int /\ epoch \in Nat /\ loaded \in Nat /\ \A b : One(b) \in Int
  BY CountsAreIntegers DEF One
<1>1. CASE Primary
  <2>1. UNCHANGED <<alive, loaded, taken_over>>
    BY <1>1, Zenon DEF Primary, PLoop, PWait, PReq, PStop, PCheck, PReplication, PLive, PPut, PGet,
       PHook, PWrite, PFinish, PFlush, PBarrier, PVmStart, PRelease, PSem, PExit, Post,
       PrimaryKeeps, guest, threads
  <2>2. pc' = pc \/ \E l : pc' = [pc EXCEPT !["P"] = l]
    BY <1>1, Zenon DEF Primary, PLoop, PWait, PReq, PStop, PCheck, PReplication, PLive, PPut, PGet,
       PHook, PWrite, PFinish, PFlush, PBarrier, PVmStart, PRelease, PSem, PExit, Post, Goto,
       threads
  <2>3. pc'["S"] = pc["S"]
    BY <2>2 DEF TypeOK, Side
  <2>4. running' = running \/ \E b : running' = [running EXCEPT !["P"] = b]
    BY <1>1, Zenon DEF Primary, PLoop, PWait, PReq, PStop, PCheck, PReplication, PLive, PPut, PGet,
       PHook, PWrite, PFinish, PFlush, PBarrier, PVmStart, PRelease, PSem, PExit, Post, threads
  <2>5. running["S"]
    BY <2>4 DEF TypeOK, Side
  <2>6. GotP + One(sending["S"]) + One(rbuf["P"] # NoMsg) <= 3 * loaded
    BY <2>1, <2>3, <2>5 DEF LeftRunning
  <2>. QED
    BY <1>0, <1>1, <2>1, <2>6, PrimaryCount
<1>2. CASE SLoop \/ SDisable
  <2>1. /\ UNCHANGED <<alive, ctrl, epoch, loaded>> /\ pc["S"] \in {"loop", "disable"}
        /\ pc'["P"] = pc["P"]
    BY <1>2 DEF SLoop, SDisable, SecondaryKeeps, guest, At, Goto, TypeOK, Side
  <2>2. PICK k \in {0, 1} : InStep(k)
    BY <2>1, BothAlive
  <2>3. ~posted["S"]
    BY <2>1, Domains DEF Places, Side
  <2>4. SentS(k) = 3 * loaded
    BY <1>0, <2>1, <2>2, <2>3 DEF SentS, One, Loading, Ram, SGone
  <2>5. GotP' = GotP /\ sending' = sending /\ rbuf' = rbuf
    BY <2>1 DEF GotP, ctrl
  <2>. QED
    BY <2>1, <2>2, <2>4, <2>5 DEF InStep
<1>3. CASE SOut \/ SSem
  <2>1. /\ UNCHANGED <<alive, running, ctrl, epoch, loaded, taken_over>> /\ pc["S"] \in SGone
        /\ pc'["P"] = pc["P"]
    BY <1>3 DEF SOut, SSem, SecondaryKeeps, guest, At, Goto, TypeOK, Side, SGone
  <2>2. GotP' = GotP /\ sending' = sending /\ rbuf' = rbuf
    BY <2>1 DEF GotP, ctrl
  <2>. QED
    BY <2>1, <2>2 DEF LeftRunning
<1>4. CASE SPoll \/ SWaitDone \/ SStop \/ SResume
  <2>1. pc'["S"] \in {"wait", "disable", "resume", "putBmap"}
    BY <1>4 DEF SPoll, SWaitDone, SStop, SResume, At, Goto, TypeOK, Side
  <2>. QED
    BY <2>1 DEF SGone
<1>5. CASE SGet \/ SLoad \/ SReady \/ SServe \/ STail \/ SDevice
  <2>1. pc["S"] \in SStopped
    BY <1>5, SGetFacts, Zenon DEF SLoad, SReady, SServe, STail, SDevice, At, SStopped, Loading, Ram
  <2>2. running'["S"] => running["S"]
    BY <1>5, Zenon DEF SGet, SLoad, SReady, SServe, STail, SDevice, TypeOK, Side
  <2>. QED
    BY <2>1, <2>2 DEF Memory
<1>6. CASE SPut
  <2>1. pc["S"] \in SStopped
    BY <1>6, SPutFacts, Zenon DEF SStopped
  <2>2. running' = running \/ pc'["S"] = "loop"
    BY <1>6, Zenon DEF SPut, Goto, TypeOK, Side
  <2>. QED
    BY <2>1, <2>2 DEF Memory, SGone
<1>7. CASE Post("S")
  <2>1. pc' = pc /\ pc["S"] \in DOMAIN PutMsg
    BY <1>7 DEF Post, threads
  <2>. QED
    BY <2>1, Domains DEF SGone
<1>8. ASSUME NEW x \in Side, Adapter(x)
      PROVE GotP' + One(sending'["S"]) + One(rbuf'["P"] # NoMsg) <= 3 * loaded'
  <2>1. UNCHANGED <<pc, alive, running, epoch, loaded, taken_over>>
    BY <1>8, Zenon DEF Adapter, Land, Ack, RetriesExceeded, threads, guest
  <2>2. GotP' = GotP /\ GotP + One(sending["S"]) + One(rbuf["P"] # NoMsg) <= 3 * loaded
    BY <2>1 DEF GotP, LeftRunning
  <2>3. ~RetriesExceeded(x)
    BY <2>1 DEF RetriesExceeded, Peer, Side
  <2>4. CASE Ack(x)
    BY <2>1, <2>2, <2>4 DEF Ack
  <2>5. CASE Land(x) /\ x = "P"
    <3>1. sending'["S"] = sending["S"] /\ rbuf'["P"] = rbuf["P"]
      BY <2>5 DEF Land, Peer, TypeOK, Side
    <3>. QED
      BY <2>1, <2>2, <3>1
  <2>6. CASE Land(x) /\ x = "S"
    <3>1. ~sending'["S"] /\ sending["S"] /\ rbuf["P"] = NoMsg
      BY <2>6 DEF Land, Peer, TypeOK, Side
    <3>. QED
      BY <1>0, <2>1, <2>2, <3>1 DEF One
  <2>. QED
    BY <1>8, <2>3, <2>4, <2>5, <2>6 DEF Adapter, Side
<1>9. CASE \/ Apply \/ Emit \/ UNCHANGED vars
           \/ \E x \in Side : Request(x) \/ FailoverBh(x) \/ Crash(x)
  <2>1. UNCHANGED <<pc, ctrl, epoch, loaded, taken_over>>
    BY <1>9, Zenon DEF Apply, Emit, Request, FailoverBh, Crash, vars, threads, guest
  <2>2. alive["P"] /\ alive["S"] /\ running["S"]
    BY <1>9, Zenon DEF Apply, Emit, Request, FailoverBh, Crash, vars, threads, TypeOK, Side
  <2>3. GotP' = GotP /\ sending' = sending /\ rbuf' = rbuf
    BY <2>1 DEF GotP, ctrl
  <2>. QED
    BY <2>1, <2>2, <2>3 DEF LeftRunning
<1>10. CASE Join
  BY <1>10 DEF Join
<1>. QED
  BY <1>1, <1>2, <1>3, <1>4, <1>5, <1>6, <1>7, <1>8, <1>9, <1>10 DEF Next, Secondary

\* Steps of the primary that do not touch the secondary, and the other way round.
LEMMA MemoryMoveP ==
  ASSUME Memory, pc'["S"] = pc["S"], pc'["P"] # "flush", rbuf'["S"] = rbuf["S"],
         alive' = alive, running'["S"] = running["S"],
         UNCHANGED <<epoch, ram, dev, loaded, taken_over>>
  PROVE Memory'
BY DEF Memory, RunsConsistent

\* Steps of the secondary between its operations keep which checkpoint its memory
\* holds.
LEMMA MemoryMoveS ==
  ASSUME Memory, pc'["P"] = pc["P"], pc'["S"] \notin Sized \cup {"putLoaded"},
         rbuf'["S"] = rbuf["S"], alive'["S"] => alive["S"],
         running'["S"] => running["S"] /\ alive'["S"] /\ pc'["S"] \notin SStopped,
         pc["S"] # "done",
         UNCHANGED <<epoch, ram, dev, loaded, taken_over>>
  PROVE Memory'
BY DEF Memory, RunsConsistent

\* While the primary transfers pages to a secondary that is alive, that one has loaded
\* all checkpoints so far and its guest is stopped, unless it was started by a failover.
LEMMA StoppedWhileWritten ==
  ASSUME TypeOK, Places, Protocol, LeftRunning, Memory, alive["P"], alive["S"],
         pc["P"] \in {"write", "writing", "flush"}
  PROVE /\ loaded = epoch /\ pc["S"] # "putLoaded"
        /\ running["S"] => taken_over
<1>0. epoch \in Nat /\ loaded \in Nat /\ \A b : One(b) \in {0, 1}
  BY CountsAreIntegers DEF One
<1>1. loaded = epoch
  BY <1>0, NotAhead DEF Memory
<1>2. GotP = 3 * epoch + 2
  BY <1>0 DEF GotP, One, Sending, PGone
<1>3. PICK k \in {0, 1} : InStep(k)
  BY BothAlive
<1>4. SentS(k) >= 3 * loaded + 2
  BY <1>0, <1>1, <1>2, <1>3, CountsAreIntegers DEF InStep
<1>5. pc["S"] # "putLoaded"
  BY <1>0, <1>4 DEF SentS, One, Loading, Ram, SGone
<1>6. pc["S"] \notin {"loop", "wait", "disable", "stop"}
  <2>1. pc["S"] \in {"loop", "wait", "disable", "stop"} => ~posted["S"]
    BY Domains DEF Places, Side
  <2>. QED
    BY <1>0, <1>4, <2>1 DEF SentS, One, Loading, Ram, SGone
<1>7. running["S"] => taken_over
  <2>. SUFFICES ASSUME running["S"], ~taken_over PROVE FALSE
    OBVIOUS
  <2>1. pc["S"] \in SGone
    BY <1>6 DEF Memory, TypeOK, SLabels, SStopped, Loading, Ram, SGone
  <2>. QED
    BY <1>0, <1>1, <1>2, <2>1 DEF LeftRunning
<1>. QED
  BY <1>1, <1>5, <1>7

\* A size that lands is that of the next checkpoint, and the secondary does not have
\* it yet.
LEMMA SizeLands ==
  ASSUME TypeOK, Places, Protocol, Memory, Land("P"), rdma_buffer["P"] = "SIZE"
  PROVE loaded < epoch /\ pc["S"] \notin Sized
<1>0. epoch \in Nat /\ loaded \in Nat
  BY CountsAreIntegers
<1>1. alive["P"] /\ alive["S"] /\ sending["P"] /\ rbuf["S"] = NoMsg
  BY DEF Land, Peer, Side
<1>2. posted["P"]
  BY <1>1, BothAlive DEF Channel
<1>3. pc["P"] = "putSize"
  BY <1>2, Domains DEF Places, PutMsg, Side
<1>4. SentP = 4 * epoch - 2
  BY <1>0, <1>2, <1>3 DEF SentP, One
<1>5. PICK k \in {0, 1} : InStep(k)
  BY <1>1, BothAlive
<1>6. GotS(k) + 1 <= 4 * epoch - 2
  BY <1>1, <1>4, <1>5, CountsAreIntegers DEF InStep, One
<1>7. GotS(k) >= 4 * loaded /\ (pc["S"] \in Sized => GotS(k) >= 4 * loaded + 2)
  BY <1>0, <1>5 DEF GotS, One, Sized, SGone
<1>8. loaded < epoch
  BY <1>0, <1>6, <1>7, CountsAreIntegers
<1>9. epoch = loaded + 1
  BY <1>1, <1>8 DEF Memory
<1>. QED
  BY <1>0, <1>6, <1>7, <1>8, <1>9, CountsAreIntegers

\* Every step keeps which checkpoint memory and devices of the secondary hold: pages
\* are written and the devices are loaded only while its guest is stopped.
LEMMA MemoryStep ==
  ASSUME TypeOK, Places, Protocol, LeftRunning, Memory, [Next]_vars
  PROVE Memory'
<1>0. epoch \in Nat /\ loaded \in Nat /\ ram \in Int /\ dev \in Int
  BY CountsAreIntegers DEF TypeOK, Torn
<1>1. CASE PLoop \/ PWait \/ PReq \/ PStop \/ PCheck \/ PReplication \/ PLive
           \/ PHook \/ PBarrier \/ PVmStart \/ PRelease \/ PSem \/ PExit
  <2>1. PICK l : pc' = [pc EXCEPT !["P"] = l] /\ l # "flush"
    BY <1>1, ZenonT(30) DEF PLoop, PWait, PReq, PStop, PCheck, PReplication, PLive, PHook,
       PBarrier, PVmStart, PRelease, PSem, PExit, Goto
  <2>2. pc'["P"] # "flush" /\ pc'["S"] = pc["S"]
    BY <2>1 DEF TypeOK, Side
  <2>3. UNCHANGED <<alive, epoch, ram, dev, loaded, taken_over, rbuf>>
    BY <1>1 DEF PLoop, PWait, PReq, PStop, PCheck, PReplication, PLive, PHook,
       PBarrier, PVmStart, PRelease, PSem, PExit, PrimaryKeeps, guest, ctrl
  <2>4. running'["S"] = running["S"]
    BY <1>1 DEF PLoop, PWait, PReq, PStop, PCheck, PReplication, PLive, PHook,
       PBarrier, PVmStart, PRelease, PSem, PExit, TypeOK, Side
  <2>. QED
    BY <2>2, <2>3, <2>4, MemoryMoveP
<1>2. CASE PPut
  BY <1>2, PPutFacts, MemoryMoveP DEF PPut, guest
<1>3. CASE PGet
  BY <1>3, PGetFacts, MemoryMoveP DEF PGet, guest
<1>4. CASE PWrite
  <2>1. alive["P"] /\ alive["S"] /\ pc["P"] = "writing"
    BY <1>4 DEF PWrite, At
  <2>2. UNCHANGED <<pc, alive, running, epoch, dev, loaded, taken_over, rbuf>>
    BY <1>4 DEF PWrite, PrimaryKeeps, ctrl
  <2>3. loaded = epoch /\ pc["S"] # "putLoaded" /\ (running["S"] => taken_over)
    BY <2>1, StoppedWhileWritten
  <2>. QED
    BY <1>0, <2>1, <2>2, <2>3 DEF Memory, RunsConsistent
<1>15. CASE PFinish
  <2>1. /\ pc'["S"] = pc["S"] /\ pc'["P"] = "flush" /\ alive["P"] /\ pc["P"] = "writing"
        /\ alive["S"] => pc["S"] = "serve" /\ ram' = epoch + 1
        /\ ~alive["S"] => ram' = ram
    BY <1>15 DEF PFinish, At, Goto, TypeOK, Side
  <2>2. UNCHANGED <<alive, running, epoch, dev, loaded, taken_over, rbuf>>
    BY <1>15 DEF PFinish, PrimaryKeeps, ctrl
  <2>3. CASE alive["S"]
    <3>1. loaded = epoch /\ ~running["S"]
      BY <2>1, <2>3, StoppedWhileWritten DEF Memory, SStopped, Ram
    <3>. QED
      BY <1>0, <2>1, <2>2, <2>3, <3>1 DEF Memory, RunsConsistent, Sized
  <2>4. CASE ~alive["S"]
    BY <2>1, <2>2, <2>4 DEF Memory, RunsConsistent
  <2>. QED
    BY <2>3, <2>4
<1>5. CASE PFlush
  <2>1. pc'["S"] = pc["S"] /\ pc'["P"] # "flush" /\ alive["P"] /\ pc["P"] = "flush"
    BY <1>5 DEF PFlush, Goto, At, TypeOK, Side
  <2>2. UNCHANGED <<alive, running, ram, dev, loaded, taken_over, rbuf>> /\ epoch' = epoch + 1
    BY <1>5 DEF PFlush, PrimaryKeeps, ctrl
  <2>3. alive["S"] => epoch = loaded /\ ram = epoch + 1
    BY <1>0, <2>1, NotAhead DEF Memory
  <2>. QED
    BY <1>0, <2>1, <2>2, <2>3 DEF Memory, RunsConsistent
<1>6. CASE SLoop \/ SWaitDone \/ SDisable \/ SStop \/ SResume \/ SOut
  <2>1. PICK l \in {"wait", "disable", "stop", "resume", "putBmap", "out", "sem"} :
          /\ pc' = [pc EXCEPT !["S"] = l]
          /\ l = "resume" => ~running'["S"]
          /\ l = "putBmap" => pc["S"] = "resume"
    BY <1>6 DEF SLoop, SWaitDone, SDisable, SStop, SResume, SOut, Goto, At, TypeOK, Side
  <2>2. pc'["P"] = pc["P"] /\ pc'["S"] = l
    BY <2>1 DEF TypeOK, Side
  <2>3. UNCHANGED <<alive, epoch, ram, dev, loaded, taken_over, rbuf>>
    BY <1>6 DEF SLoop, SWaitDone, SDisable, SStop, SResume, SOut, SecondaryKeeps, guest, ctrl
  <2>4. running'["S"] => running["S"] /\ alive["S"]
    BY <1>6 DEF SLoop, SWaitDone, SDisable, SStop, SResume, SOut, TypeOK, Side, At
  <2>5. pc["S"] # "done" /\ (running["S"] => pc["S"] # "resume")
    BY <1>6 DEF SLoop, SWaitDone, SDisable, SStop, SResume, SOut, At, Memory, SStopped
  <2>. QED
    BY <2>1, <2>2, <2>3, <2>4, <2>5, MemoryMoveS, SMTT(20) DEF SStopped, Loading, Ram, Sized
<1>7. CASE SPoll \/ SSem
  <2>1. /\ pc'["P"] = pc["P"] /\ pc'["S"] \in {"wait", "disable", "done"}
        /\ alive["S"] /\ pc["S"] # "done"
    BY <1>7 DEF SPoll, SSem, At, Goto, TypeOK, Side
  <2>2. UNCHANGED <<alive, running, epoch, ram, dev, loaded, taken_over, rbuf>>
    BY <1>7 DEF SPoll, SSem, SecondaryKeeps, guest, ctrl
  <2>3. running["S"] => alive["S"]
    BY DEF Memory
  <2>. QED
    BY <2>1, <2>2, <2>3, MemoryMoveS DEF SStopped, Loading, Ram, Sized
<1>8. CASE SPut
  <2>1. /\ pc'["P"] = pc["P"] /\ alive["S"] /\ alive' = alive
        /\ \/ pc["S"] = "putBmap" /\ pc'["S"] = "getPBmap"
           \/ pc["S"] = "putHash" /\ pc'["S"] = "load"
           \/ pc["S"] = "putLoaded" /\ pc'["S"] \in {"loop", "out"}
    BY <1>8, SPutFacts
  <2>2. UNCHANGED <<epoch, ram, dev, loaded, taken_over, rbuf>>
    BY <1>8, Zenon DEF SPut, Polled, guest
  <2>3. ~running["S"] /\ ~taken_over
    BY <2>1 DEF Memory, SStopped
  <2>4. running'["S"] => pc["S"] = "putLoaded" /\ pc'["S"] = "loop"
    <3>1. CASE pc["S"] = "putLoaded" /\ Head(cq["S"])
      BY <1>8, <3>1, Zenon DEF SPut, Goto, TypeOK, Side
    <3>2. CASE ~(pc["S"] = "putLoaded" /\ Head(cq["S"]))
      <4>1. running' = running
        BY <1>8, <3>2, Zenon DEF SPut
      <4>. QED
        BY <2>3, <4>1
    <3>. QED
      BY <3>1, <3>2, Zenon
  <2>. QED
    BY <2>1, <2>2, <2>3, <2>4 DEF Memory, RunsConsistent, Loading, Ram, Sized, SStopped
<1>9. CASE SGet
  <2>1. /\ pc'["P"] = pc["P"] /\ alive["S"]
        /\ \/ pc["S"] = "getPBmap" /\ pc'["S"] = "putHash"
           \/ pc["S"] = "getSize" /\ pc'["S"] \in {"getValue", "out"}
           \/ pc["S"] = "getValue" /\ pc'["S"] = "getBuf"
           \/ pc["S"] = "getBuf" /\ pc'["S"] \in {"device", "out"}
        /\ rbuf'["S"] \in {NoMsg, rbuf["S"]}
    BY <1>9, SGetFacts
  <2>2. UNCHANGED <<epoch, ram, dev, loaded, taken_over>>
    BY <1>9, Zenon DEF SGet, guest
  <2>3. ~running["S"] /\ ~taken_over
    BY <2>1 DEF Memory, SStopped, Loading
  <2>4. ~running'["S"]
    BY <1>9, <2>3, Zenon DEF SGet, TypeOK, Side
  <2>5. pc["S"] = "getSize" /\ pc'["S"] = "getValue" => rbuf["S"] = "SIZE" /\ rbuf'["S"] = NoMsg
    <3>. SUFFICES ASSUME pc["S"] = "getSize", pc'["S"] = "getValue"
                  PROVE rbuf["S"] = "SIZE" /\ rbuf'["S"] = NoMsg
      OBVIOUS
    <3>1. rdma_buffer'["S"] = "SIZE"
      BY <1>9 DEF SGet, Goto, SAfterGet, TypeOK, Side
    <3>2. rdma_buffer["S"] = "HASH"
      BY DEF Places
    <3>3. Head(cq["S"])
      BY <1>9, <3>1, <3>2 DEF SGet, Got, TypeOK, Side
    <3>. QED
      BY <1>9, <3>1, <3>3 DEF SGet, Got, TypeOK, Side
  <2>6. pc'["S"] \in Sized => loaded < epoch /\ rbuf'["S"] # "SIZE"
    BY <2>1, <2>5 DEF Memory, Sized, NoMsg
  <2>7. rbuf'["S"] = "SIZE" => rbuf["S"] = "SIZE"
    BY <2>1 DEF NoMsg
  <2>. QED
    BY <2>1, <2>2, <2>3, <2>4, <2>6, <2>7 DEF Memory, RunsConsistent
<1>10. CASE SLoad \/ SReady \/ SServe \/ STail
  <2>1. /\ pc'["P"] = pc["P"] /\ alive["S"] /\ pc["S"] \in Ram
        /\ pc'["S"] \in Ram \cup {"getSize", "out"}
    BY <1>10 DEF SLoad, SReady, SServe, STail, At, Goto, TypeOK, Side, Ram
  <2>2. UNCHANGED <<alive, running, epoch, ram, dev, loaded, taken_over, rbuf>>
    BY <1>10 DEF SLoad, SReady, SServe, STail, SecondaryKeeps, guest, ctrl
  <2>3. ~running["S"]
    BY <2>1 DEF Memory, SStopped
  <2>. QED
    BY <2>1, <2>2, <2>3, MemoryMoveS DEF Ram, Sized
<1>11. CASE SDevice
  <2>1. /\ pc'["P"] = pc["P"] /\ alive["S"] /\ pc["S"] = "device"
        /\ \/ dev' = epoch /\ loaded' = epoch /\ pc'["S"] \in {"putLoaded", "out"}
           \/ loaded' = loaded /\ pc'["S"] = "out"
    BY <1>11 DEF SDevice, At, Goto, TypeOK, Side
  <2>2. UNCHANGED <<alive, running, epoch, ram, taken_over, rbuf>>
    BY <1>11 DEF SDevice, ctrl
  <2>3. ~running["S"] /\ ~taken_over /\ ram = epoch /\ rbuf["S"] # "SIZE"
    BY <2>1 DEF Memory, SStopped, Loading, Sized
  <2>. QED
    BY <1>0, <2>1, <2>2, <2>3 DEF Memory, RunsConsistent, Sized, Torn
<1>12. CASE Join
  <2>1. pc["S"] = "done" /\ taken_over' /\ alive["S"]
    BY <1>12 DEF Join
  <2>2. UNCHANGED <<pc, alive, epoch, ram, dev, loaded, rbuf>>
    BY <1>12 DEF Join, ctrl
  <2>. QED
    BY <2>1, <2>2 DEF Memory, RunsConsistent, SStopped, Loading, Ram
<1>13. ASSUME NEW x \in Side, FailoverBh(x) \/ Crash(x) PROVE Memory'
  <2>1. UNCHANGED <<pc, epoch, ram, dev, loaded, taken_over, rbuf>>
    BY <1>13 DEF FailoverBh, Crash, guest, ctrl
  <2>2. running'["S"] => running["S"]
    BY <1>13, Zenon DEF FailoverBh, Crash, TypeOK, Side
  <2>3. CASE FailoverBh(x)
    <3>1. alive' = alive
      BY <2>3 DEF FailoverBh
    <3>. QED
      BY <2>1, <2>2, <3>1 DEF Memory, RunsConsistent
  <2>4. CASE Crash(x)
    <3>1. (alive'["S"] => alive["S"]) /\ (x # "S" => alive'["S"] = alive["S"])
      BY <2>4, Zenon DEF Crash, TypeOK, Side
    <3>2. x = "S" => ~running'["S"]
      BY <2>4 DEF Crash, TypeOK, Side
    <3>. QED
      BY <2>1, <2>2, <3>1, <3>2 DEF Memory, RunsConsistent
  <2>. QED
    BY <1>13, <2>3, <2>4
<1>14. CASE \/ Apply \/ Emit \/ UNCHANGED vars
            \/ \E x \in Side : Post(x) \/ Ack(x) \/ RetriesExceeded(x) \/ Request(x)
  <2>1. UNCHANGED <<pc, alive, running, epoch, ram, dev, loaded, taken_over, rbuf>>
    BY <1>14, Zenon DEF Apply, Emit, Post, Ack, RetriesExceeded, Request, vars, threads, guest, ctrl
  <2>. QED
    BY <2>1 DEF Memory, RunsConsistent
<1>16. ASSUME NEW x \in Side, Land(x) PROVE Memory'
  <2>1. UNCHANGED <<pc, alive, running, epoch, ram, dev, loaded, taken_over>>
    BY <1>16, Zenon DEF Land, threads, guest
  <2>2. rbuf'["S"] = "SIZE" => rbuf["S"] = "SIZE" \/ (loaded < epoch /\ pc["S"] \notin Sized)
    <3>1. CASE x = "S"
      BY <1>16, <3>1 DEF Land, Peer, TypeOK, Side
    <3>2. CASE x = "P"
      <4>1. rbuf'["S"] = rdma_buffer["P"]
        BY <1>16, <3>2 DEF Land, Peer, TypeOK, Side
      <4>. QED
        BY <1>16, <3>2, <4>1, SizeLands
    <3>. QED
      BY <3>1, <3>2 DEF Side
  <2>. QED
    BY <2>1, <2>2 DEF Memory, RunsConsistent
<1>. QED
  BY <1>1, <1>2, <1>3, <1>4, <1>5, <1>6, <1>7, <1>8, <1>9, <1>10, <1>11, <1>12, <1>13,
     <1>14, <1>15, <1>16, SMTT(20) DEF Next, Primary, Secondary, Adapter, Side

\* Steps that leave the plug alone.
LEMMA OutputFrame ==
  ASSUME TypeOK, Output, UNCHANGED <<plug, released, epoch>>,
         loaded' = loaded \/ (loaded' = epoch /\ loaded <= epoch),
         pc'["P"] \in Sending \cup {"barrier"} => pc["P"] \in Sending \cup {"barrier"},
         pc'["P"] = "barrier" => loaded' = epoch,
         running'["P"] => pc'["P"] \notin Stopped
  PROVE Output'
<1>0. epoch \in Nat /\ loaded \in Nat /\ loaded' \in Nat /\ loaded <= loaded'
  BY CountsAreIntegers
<1>1. \A i \in 1 .. Len(plug.queue) : plug.queue[i] \in Nat
  BY SMTT(20) DEF TypeOK
<1>2. plug.last \in Nat /\ plug.cur \in Nat /\ Len(plug.queue) \in Nat
  BY DEF TypeOK
<1>3. plug.last <= Len(plug.queue)
  BY <1>2 DEF Output
<1>4. \A i \in 1 .. plug.last : plug.queue[i] <= loaded'
  <2>. TAKE i \in 1 .. plug.last
  <2>1. i \in 1 .. Len(plug.queue)
    BY <1>2, <1>3
  <2>. QED
    BY <1>0, <1>1, <2>1 DEF Output
<1>5. \A n \in released : n <= loaded'
  <2>. TAKE n \in released
  <2>1. n \in Int
    BY ColoAssumption DEF TypeOK
  <2>. QED
    BY <1>0, <2>1 DEF Output, OutputCommit
<1>. QED
  BY <1>4, <1>5 DEF Output, OutputCommit

\* mc_start_buffer closes an epoch of the plug after the primary has received
\* LOADED: its packets are of loaded checkpoints.
LEMMA PBarrierOutput ==
  ASSUME TypeOK, Output, PBarrier
  PROVE Output'
<1>1. /\ UNCHANGED <<released, epoch, loaded, running>> /\ pc["P"] = "barrier"
      /\ pc'["P"] = "vmStart"
  BY DEF PBarrier, At, Goto, PrimaryKeeps, guest, TypeOK, Side
<1>2. ~running["P"] /\ loaded = epoch /\ \A i \in 1 .. Len(plug.queue) : plug.queue[i] <= epoch
  BY <1>1 DEF Output, Stopped
<1>3. CASE plug' = plug
  BY <1>1, <1>2, <1>3, OutputFrame DEF Sending
<1>4. CASE plug' = [plug EXCEPT !.cur = 0, !.last = plug.cur]
  <2>1. plug'.queue = plug.queue /\ plug'.cur = 0 /\ plug'.last = plug.cur
    BY <1>4 DEF TypeOK
  <2>2. plug'.cur + plug'.last <= Len(plug'.queue)
    BY <2>1, PlugTyped
  <2>3. \A i \in 1 .. plug'.last : plug'.queue[i] <= loaded'
    <3>. TAKE i \in 1 .. plug'.last
    <3>1. i \in 1 .. Len(plug.queue)
      BY <2>1, PlugTyped
    <3>. QED
      BY <1>1, <1>2, <2>1, <3>1
  <2>. QED
    BY <1>1, <1>2, <2>1, <2>2, <2>3 DEF Output, OutputCommit, Sending
<1>. QED
  BY <1>3, <1>4 DEF PBarrier

\* mc_flush_oldest_buffer lets packets of the last epoch go and no others.
LEMMA PReleaseOutput ==
  ASSUME TypeOK, Output, PRelease
  PROVE Output'
<1>1. /\ UNCHANGED <<epoch, loaded, running>> /\ pc'["P"] = "loop"
  BY DEF PRelease, Goto, PrimaryKeeps, guest, TypeOK, Side
<1>2. CASE UNCHANGED output
  BY <1>1, <1>2, OutputFrame DEF output, Sending, Stopped
<1>3. CASE /\ released' = released \cup {plug.queue[i] : i \in 1 .. plug.last}
           /\ plug' = [plug EXCEPT !.queue = SubSeq(@, plug.last + 1, Len(@)), !.last = 0]
  <2>. DEFINE q == SubSeq(plug.queue, plug.last + 1, Len(plug.queue))
  <2>1. plug'.queue = q /\ plug'.cur = plug.cur /\ plug'.last = 0
    BY <1>3, Zenon DEF TypeOK
  <2>2. /\ Len(q) = Len(plug.queue) - plug.last
        /\ \A i \in 1 .. Len(q) : q[i] = plug.queue[plug.last + i]
    <3>1. /\ plug.queue \in Seq(Nat) /\ plug.last + 1 \in 1 .. Len(plug.queue) + 1
          /\ plug.last \in Nat /\ Len(plug.queue) \in Nat
      BY PlugTyped
    <3>2. PICK m \in 1 .. Len(plug.queue) + 1 : m = plug.last + 1
      BY <3>1
    <3>3. /\ Len(q) = Len(plug.queue) - m + 1
          /\ \A i \in 1 .. Len(plug.queue) - m + 1 : q[i] = plug.queue[m + i - 1]
      BY <3>1, <3>2, DropFirst, Zenon
    <3>4. Len(q) = Len(plug.queue) - plug.last
      BY <3>1, <3>2, <3>3
    <3>5. ASSUME NEW i \in 1 .. Len(q) PROVE q[i] = plug.queue[plug.last + i]
      <4>1. i \in 1 .. Len(plug.queue) - m + 1 /\ m + i - 1 = plug.last + i
        BY <3>1, <3>2, <3>4
      <4>. QED
        BY <3>3, <4>1, Zenon
    <3>. QED
      BY <3>4, <3>5, Zenon
  <2>. HIDE DEF q
  <2>3. ASSUME NEW i \in 1 .. Len(q) PROVE plug.last + i \in 1 .. Len(plug.queue)
    <3>1. plug.last \in Nat /\ Len(plug.queue) \in Nat
      BY PlugTyped
    <3>2. Len(q) = Len(plug.queue) - plug.last
      BY <2>2
    <3>3. i \in Nat /\ 1 <= i /\ i <= Len(plug.queue) - plug.last
      BY <3>1, <3>2
    <3>. QED
      BY <3>1, <3>3
  <2>4. plug'.cur + plug'.last <= Len(plug'.queue)
    <3>1. plug.cur + plug.last <= Len(plug.queue)
      BY DEF Output
    <3>. QED
      BY <2>1, <2>2, <3>1, PlugTyped
  <2>5. \A i \in 1 .. Len(plug'.queue) : plug'.queue[i] \in 1 .. epoch' + 1
    BY <1>1, <2>1, <2>2, <2>3, SMTT(20) DEF Output
  <2>6. \A i \in 1 .. plug'.last : plug'.queue[i] <= loaded'
    BY <2>1
  <2>7. \A n \in released' : n <= loaded'
    BY <1>1, <1>3 DEF Output, OutputCommit
  <2>. QED
    BY <1>1, <2>4, <2>5, <2>6, <2>7 DEF Output, OutputCommit, Sending, Stopped
<1>. QED
  BY <1>2, <1>3 DEF PRelease

\* A guest that runs sends a packet of the next checkpoint, behind those in the plug.
LEMMA EmitOutput ==
  ASSUME TypeOK, Output, Emit
  PROVE Output'
<1>1. /\ UNCHANGED <<pc, running, epoch, loaded, released>> /\ running["P"]
      /\ plug' = [plug EXCEPT !.queue = Append(@, epoch + 1), !.cur = @ + 1]
  BY DEF Emit, threads, guest
<1>2. /\ plug'.queue = Append(plug.queue, epoch + 1) /\ plug'.cur = plug.cur + 1
      /\ plug'.last = plug.last
  BY <1>1 DEF TypeOK
<1>3. pc["P"] \notin Stopped
  BY <1>1 DEF Output
<1>4. epoch \in Nat /\ epoch + 1 \in Nat
  BY CountsAreIntegers
<1>5. /\ Len(plug'.queue) = Len(plug.queue) + 1
      /\ \A i \in 1 .. Len(plug.queue) : plug'.queue[i] = plug.queue[i]
      /\ plug'.queue[Len(plug.queue) + 1] = epoch + 1
  BY <1>2, <1>4, PlugTyped, AddLast
<1>6. plug'.cur + plug'.last <= Len(plug'.queue)
  BY <1>2, <1>5, PlugTyped DEF Output
<1>7. \A i \in 1 .. plug'.last : plug'.queue[i] <= loaded'
  <2>. TAKE i \in 1 .. plug'.last
  <2>1. i \in 1 .. Len(plug.queue) /\ i \in 1 .. plug.last
    BY <1>2, PlugTyped
  <2>. QED
    BY <1>1, <1>5, <2>1 DEF Output
<1>8. \A i \in 1 .. Len(plug'.queue) : plug'.queue[i] \in 1 .. epoch' + 1
  <2>. TAKE i \in 1 .. Len(plug'.queue)
  <2>1. i \in 1 .. Len(plug.queue) \/ i = Len(plug.queue) + 1
    BY <1>5, PlugTyped
  <2>2. epoch + 1 \in 1 .. epoch + 1
    BY <1>4
  <2>. QED
    BY <1>1, <1>5, <2>1, <2>2 DEF Output
<1>9. pc'["P"] \notin Sending \cup {"barrier"}
  BY <1>1, <1>3 DEF Sending, Stopped
<1>. QED
  BY <1>1, <1>3, <1>6, <1>7, <1>8, <1>9, Zenon DEF Output, OutputCommit

\* Every step keeps what the plug holds and what has left it.
LEMMA OutputStep ==
  ASSUME TypeOK, Places, Protocol, Memory, Output, [Next]_vars
  PROVE Output'
<1>0. epoch \in Nat /\ loaded \in Nat /\ loaded <= epoch
  BY CountsAreIntegers DEF Memory
<1>1. CASE PLoop \/ PReq \/ PWait \/ PStop
  <2>1. /\ pc'["P"] \in {"sem", "wait", "req", "stop", "check"}
        /\ pc'["P"] = "check" => ~running'["P"]
    BY <1>1 DEF PLoop, PReq, PWait, PStop, Goto, TypeOK, Side
  <2>2. UNCHANGED <<plug, released, epoch, loaded>>
    BY <1>1 DEF PLoop, PReq, PWait, PStop, output, guest
  <2>. QED
    BY <2>1, <2>2, OutputFrame DEF Sending, Stopped
<1>2. CASE PCheck \/ PReplication \/ PLive \/ PHook \/ PWrite \/ PFinish
  <2>1. /\ pc'["P"] \in {"sem", "repl", "live", "getBmap", "writing", "flush"}
        /\ pc["P"] \in {"check", "repl", "live", "write", "writing"}
    BY <1>2 DEF PCheck, PReplication, PLive, PHook, PWrite, PFinish, At, Goto, TypeOK, Side
  <2>2. UNCHANGED <<plug, released, epoch, loaded, running>>
    BY <1>2 DEF PCheck, PReplication, PLive, PHook, PWrite, PFinish, output, guest
  <2>3. ~running["P"]
    BY <2>1 DEF Output, Stopped
  <2>. QED
    BY <2>1, <2>2, <2>3, OutputFrame, SMTT(20) DEF Sending
<1>3. CASE PPut \/ PGet
  <2>1. /\ pc["P"] \in Stopped
        /\ pc'["P"] \in Sending \cup {"barrier"} => pc["P"] \in Sending
    BY <1>3, PPutFacts, PGetFacts, Zenon DEF Stopped, Sending
  <2>2. UNCHANGED <<plug, released, epoch, loaded, running>> /\ alive'["P"]
    BY <1>3, Zenon DEF PPut, PGet, Polled, Got, output, guest
  <2>3. ~running["P"]
    BY <2>1 DEF Output
  <2>4. pc'["P"] = "barrier" => loaded = epoch
    BY <1>3, PPutFacts, CaughtUp
  <2>. QED
    BY <2>1, <2>2, <2>3, <2>4, OutputFrame
<1>4. CASE PFlush
  <2>1. pc["P"] = "flush" /\ pc'["P"] \in {"putSize", "sem"} /\ epoch' = epoch + 1
    BY <1>4 DEF PFlush, At, Goto, TypeOK, Side
  <2>2. UNCHANGED <<plug, released, loaded, running>>
    BY <1>4 DEF PFlush, output
  <2>3. ~running["P"]
    BY <2>1 DEF Output, Stopped
  <2>4. \A i \in 1 .. Len(plug.queue) : plug.queue[i] \in 1 .. epoch + 1
    BY DEF Output
  <2>5. \A i \in 1 .. Len(plug'.queue) : plug'.queue[i] \in 1 .. epoch' + 1 /\ plug'.queue[i] <= epoch'
    BY <1>0, <2>1, <2>2, <2>4
  <2>. QED
    BY <2>1, <2>2, <2>3, <2>5 DEF Output, OutputCommit
<1>5. CASE PBarrier
  BY <1>5, PBarrierOutput
<1>6. CASE PRelease
  BY <1>6, PReleaseOutput
<1>7. CASE Emit
  BY <1>7, EmitOutput
<1>8. CASE PVmStart \/ PSem \/ PExit
  <2>1. pc'["P"] \in {"release", "exit", "done"}
    BY <1>8 DEF PVmStart, PSem, PExit, Goto, TypeOK, Side
  <2>2. UNCHANGED <<plug, released, epoch, loaded>>
    BY <1>8, SMTT(20) DEF PVmStart, PSem, PExit, output, guest
  <2>. QED
    BY <2>1, <2>2, OutputFrame DEF Sending, Stopped
<1>9. CASE SDevice
  <2>1. pc'["P"] = pc["P"] /\ (loaded' = loaded \/ loaded' = epoch)
    BY <1>9 DEF SDevice, Goto, TypeOK, Side
  <2>2. UNCHANGED <<plug, released, epoch, running>>
    BY <1>9, SMTT(20) DEF SDevice, output
  <2>. QED
    BY <1>0, <2>1, <2>2, OutputFrame DEF Output
<1>10. CASE \/ SLoop \/ SPoll \/ SWaitDone \/ SDisable \/ SStop \/ SResume \/ SPut \/ SGet
            \/ SLoad \/ SReady \/ SServe \/ STail \/ SOut \/ SSem \/ Apply \/ Join
            \/ UNCHANGED vars
            \/ \E x \in Side : Post(x) \/ Adapter(x) \/ Request(x) \/ FailoverBh(x) \/ Crash(x)
  <2>1. UNCHANGED <<plug, released, epoch, loaded>>
    BY <1>10, Zenon DEF SLoop, SPoll, SWaitDone, SDisable, SStop, SResume, SPut, SGet, SLoad,
       SReady, SServe, STail, SOut, SSem, Apply, Join, Post, Adapter, Land, Ack, RetriesExceeded, Request,
       FailoverBh, Crash, SecondaryKeeps, guest, output, vars
  <2>2. pc' = pc \/ \E l : pc' = [pc EXCEPT !["S"] = l]
    BY <1>10, Zenon DEF SLoop, SPoll, SWaitDone, SDisable, SStop, SResume, SPut, SGet, SLoad,
       SReady, SServe, STail, SOut, SSem, Apply, Join, Post, Adapter, Land, Ack, RetriesExceeded,
       Request, FailoverBh, Crash, vars, threads, Goto
  <2>3. pc'["P"] = pc["P"]
    BY <2>2 DEF TypeOK, Side
  <2>4. running'["P"] => running["P"]
    <3>1. CASE \E x \in Side : FailoverBh(x) \/ Crash(x)
      BY <3>1, Zenon DEF FailoverBh, Crash, TypeOK, Side
    <3>2. CASE SStop \/ SGet \/ Join
      BY <3>2, Zenon DEF SStop, SGet, Join, TypeOK, Side
    <3>3. CASE SPut
      BY <3>3, Zenon DEF SPut, TypeOK, Side
    <3>4. CASE \/ SLoop \/ SPoll \/ SWaitDone \/ SDisable \/ SResume \/ SLoad \/ SReady
               \/ SServe \/ STail \/ SOut \/ SSem
               \/ Apply \/ UNCHANGED vars \/ \E x \in Side : Post(x) \/ Adapter(x) \/ Request(x)
      <4>1. running' = running
        BY <3>4, Zenon DEF SLoop, SPoll, SWaitDone, SDisable, SResume, SLoad, SReady, SServe,
           STail, SOut, SSem,
           Apply, Post, Adapter, Land, Ack, RetriesExceeded, Request, vars, threads
      <4>. QED
        BY <4>1
    <3>. QED
      BY <1>10, <3>1, <3>2, <3>3, <3>4
  <2>. QED
    BY <2>1, <2>3, <2>4, OutputFrame, Zenon DEF Output
<1>. QED
  BY <1>1, <1>2, <1>3, <1>4, <1>5, <1>6, <1>7, <1>8, <1>9, <1>10
     DEF Next, Primary, Secondary, Side

\* The invariant holds when colo_process_checkpoint and the incoming thread enter
\* their loops.
LEMMA InitIInv ==
  ASSUME Init
  PROVE  IInv
<1>1. TypeOK
  <2>1. ThreadsOK
    <3>1. PcOK
      BY DEF Init, PcOK, PLabels, SLabels, Side
    <3>2. alive \in [Side -> BOOLEAN] /\ running \in [Side -> BOOLEAN]
      BY Zenon DEF Init
    <3>. QED
      BY <3>1, <3>2 DEF Init, ThreadsOK
  <2>2. /\ shut \in [Side -> BOOLEAN] /\ posted \in [Side -> BOOLEAN]
        /\ sending \in [Side -> BOOLEAN] /\ unacked \in [Side -> BOOLEAN]
        /\ qp_error \in [Side -> BOOLEAN]
    BY Zenon DEF Init
  <2>3. /\ rdma_buffer \in [Side -> Messages \cup {NoMsg}]
        /\ rbuf \in [Side -> Messages \cup {NoMsg}]
        /\ cq \in [Side -> Seq(BOOLEAN)]
    BY DEF Init
  <2>4. 0 \in 0 .. MaxEpoch /\ 0 \in Torn .. MaxEpoch
    BY ColoAssumption DEF Torn
  <2>5. ConsensusOK /\ FileOK
    BY <2>2, <2>4, Zenon DEF Init, ConsensusOK, FileOK
  <2>6. CtrlOK /\ GuestOK
    BY <2>2, <2>3, <2>4, Zenon DEF Init, CtrlOK, GuestOK
  <2>7. OutputOK /\ RunOK
    BY ColoAssumption DEF Init, OutputOK, RunOK
  <2>. QED
    BY <2>1, <2>5, <2>6, <2>7, TypeParts
<1>2. Bounds
  BY DEF Init, Bounds, Saving, PGone, One, Side
<1>3. Places
  BY DEF Init, Places, Side, Ram
<1>4. Memory
  <2>1. ~running["S"] /\ pc["S"] = "loop" /\ ~taken_over
    BY Zenon DEF Init, Side
  <2>2. loaded = 0 /\ epoch = 0 /\ pc["P"] = "loop" /\ rbuf["S"] = NoMsg
    BY DEF Init, Side
  <2>. QED
    BY <2>1, <2>2 DEF Memory, RunsConsistent, Sized, NoMsg
<1>5. Output
  BY DEF Init, Output, OutputCommit, Sending, Stopped, Side
<1>6. Protocol
  <2>1. \A x \in Side : Channel(x)
    BY DEF Init, Channel, Balanced, One, Side, NoMsg
  <2>2. InStep(0)
    BY DEF Init, InStep, GotP, SentP, GotS, SentS, One, Sending, PGone, Loading, Ram, SGone, Side, NoMsg
  <2>. QED
    BY <2>1, <2>2 DEF Protocol, Side
<1>7. LeftRunning
  BY Zenon DEF Init, LeftRunning, Side
<1>. QED
  BY <1>1, <1>2, <1>3, <1>4, <1>5, <1>6, <1>7 DEF IInv

\* The invariant is inductive: every step of either process, of the adapters and of
\* the environment keeps it.
LEMMA IInvStep ==
  ASSUME IInv, [Next]_vars
  PROVE  IInv'
BY TypeOKStep, BoundsStep, PlacesStep, ProtocolStep, LeftRunningStep, MemoryStep, OutputStep
   DEF IInv

\* The inductive invariant holds in every reachable state, for any number of
\* checkpoints and faults.
THEOREM Invariance == Spec => []IInv
<1>1. Init => IInv
  BY InitIInv
<1>2. IInv /\ [Next]_vars => IInv'
  BY IInvStep
<1>. QED
  BY <1>1, <1>2, PTL DEF Spec

\* The type invariant: the counters of checkpoints, requests and semaphores stay in
\* their ranges.
THEOREM TypeCorrect == Spec => []TypeOK
BY Invariance, PTL DEF IInv

\* Output commit: a packet of the primary guest leaves the plug (mc_flush_oldest_buffer)
\* only when the secondary has loaded the checkpoint that contains it.
THEOREM OutputIsCommitted == Spec => []OutputCommit
<1>1. IInv => OutputCommit
  BY DEF IInv, Output
<1>. QED
  BY <1>1, Invariance, PTL

\* Until a failover the secondary guest never runs with memory and devices of
\* different checkpoints, nor with memory that is being written.
THEOREM GuestsRunConsistently == Spec => []RunsConsistent
<1>1. IInv => RunsConsistent
  BY DEF IInv, Memory
<1>. QED
  BY <1>1, Invariance, PTL
=============================================================================
