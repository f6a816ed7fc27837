----------------------------- MODULE ColoTypes ------------------------------
(***************************************************************************)
(* Every step of the COLO specification keeps its type invariant, given    *)
(* the other parts of the inductive invariant.                             *)
(***************************************************************************)
EXTENDS ColoChannel

\* The parts of the type invariant, by the groups of variables.
PcOK ==
  /\ pc \in [Side -> PLabels \cup SLabels]
  /\ pc["P"] \in PLabels /\ pc["S"] \in SLabels

ThreadsOK ==
  /\ PcOK
  /\ alive \in [Side -> BOOLEAN]
  /\ lock \in [Side -> {"free", "colo", "main"}]
  /\ running \in [Side -> BOOLEAN]
  /\ state \in [Side -> {"COLO", "COMPLETED"}]
  /\ failover_state \in [Side -> {"NONE", "REQUEST", "COMPLETED", "RELAUNCH"}]
  /\ sem \in [Side -> 0 .. 1]

ConsensusOK ==
  /\ req \in 0 .. MaxEpoch
  /\ checkpoint_req \in {"WAIT", "READY"}
  /\ received \in BOOLEAN
  /\ disable_apply \in BOOLEAN

FileOK ==
  /\ shut \in [Side -> BOOLEAN]
  /\ stream \in {"empty", "HOOK", "EOS"}
  /\ file_error \in BOOLEAN

CtrlOK ==
  /\ rdma_buffer \in [Side -> Messages \cup {NoMsg}]
  /\ rbuf \in [Side -> Messages \cup {NoMsg}]
  /\ posted \in [Side -> BOOLEAN]
  /\ sending \in [Side -> BOOLEAN]
  /\ unacked \in [Side -> BOOLEAN]
  /\ cq \in [Side -> Seq(BOOLEAN)]
  /\ qp_error \in [Side -> BOOLEAN]

GuestOK ==
  /\ epoch \in 0 .. MaxEpoch
  /\ ram \in Torn .. MaxEpoch
  /\ dev \in Torn .. MaxEpoch
  /\ loaded \in 0 .. MaxEpoch
  /\ vmstate_loading \in BOOLEAN
  /\ taken_over \in BOOLEAN

OutputOK ==
  /\ plug \in [queue : Seq(Nat), cur : Nat, last : Nat]
  /\ released \subseteq 1 .. MaxEpoch + 1

RunOK ==
  /\ sync_type \in {"CHECK_IDLE_SYNC", "STATIC_TIME_SYNC"}
  /\ faults \in 0 .. MaxFaults

\* The plug qdisc holds a sequence of packet numbers, at least as many as its last
\* epoch has.
LEMMA PlugTyped ==
  ASSUME TypeOK, Output
  PROVE /\ plug.queue \in Seq(Nat) /\ plug.cur \in Nat /\ plug.last \in Nat
        /\ Len(plug.queue) \in Nat /\ plug.last <= Len(plug.queue)
        /\ plug.cur <= Len(plug.queue)
        /\ \A i \in 1 .. Len(plug.queue) : plug.queue[i] \in Nat
<1>1. plug.queue \in Seq(Nat) /\ plug.cur \in Nat /\ plug.last \in Nat
  BY DEF TypeOK
<1>2. Len(plug.queue) \in Nat /\ \A i \in 1 .. Len(plug.queue) : plug.queue[i] \in Nat
  BY <1>1
<1>3. plug.cur + plug.last <= Len(plug.queue)
  BY DEF Output
<1>. QED
  BY <1>1, <1>2, <1>3

\* Changing the entry of one side keeps the type of a function on sides.
LEMMA Update ==
  ASSUME NEW T, NEW f \in [Side -> T], NEW x \in Side, NEW v \in T
  PROVE  [f EXCEPT ![x] = v] \in [Side -> T]
OBVIOUS

\* A thread that goes to one of its labels keeps the type of pc.
LEMMA Moves ==
  ASSUME PcOK
  PROVE  /\ \A l \in PLabels : pc' = [pc EXCEPT !["P"] = l] => PcOK'
         /\ \A l \in SLabels : pc' = [pc EXCEPT !["S"] = l] => PcOK'
         /\ pc' = pc => PcOK'
BY DEF PcOK, Side

\* The type invariant is the conjunction of its parts.
LEMMA TypeParts ==
  TypeOK <=> ThreadsOK /\ ConsensusOK /\ FileOK /\ CtrlOK /\ GuestOK /\ OutputOK /\ RunOK
BY Zenon DEF TypeOK, PcOK, ThreadsOK, ConsensusOK, FileOK, CtrlOK, GuestOK, OutputOK, RunOK

\* Taking, adding and flushing completions keeps a queue of completions.
LEMMA CompletionsTyped ==
  ASSUME NEW s \in Seq(BOOLEAN)
  PROVE  /\ s # <<>> => Tail(s) \in Seq(BOOLEAN)
         /\ \A b \in BOOLEAN : Append(s, b) \in Seq(BOOLEAN)
         /\ \A t \in Seq(BOOLEAN) : s \o t \in Seq(BOOLEAN)
BY TakeFirst, AddLast, AddFlushed

\* Steps of the primary between its operations keep the bounds.
LEMMA BoundsMoveP ==
  ASSUME TypeOK, Bounds, NEW l,
         pc' = [pc EXCEPT !["P"] = l],
         \/ pc["P"] \in Saving /\ l \in Saving
         \/ pc["P"] \notin Saving \cup PGone /\ l \notin Saving
         \/ l \in PGone,
         UNCHANGED <<epoch, req, failover_state, sem>>
  PROVE Bounds'
<1>1. pc'["P"] = l
  BY DEF TypeOK, Side
<1>2. PGone \cap Saving = {}
  BY DEF PGone, Saving
<1>3. pc'["P"] \in Saving => epoch' < MaxEpoch
  BY <1>1, <1>2 DEF Bounds
<1>4. pc'["P"] \notin PGone => req' <= epoch' + One(pc'["P"] \in Saving)
  BY <1>1, <1>2 DEF Bounds, One
<1>. QED
  BY <1>3, <1>4 DEF Bounds

\* Every step keeps the bounds of checkpoints, requests and semaphores.
LEMMA BoundsStep ==
  ASSUME TypeOK, Places, Bounds, [Next]_vars
  PROVE Bounds'
<1>0. epoch \in Nat /\ req \in Nat /\ MaxEpoch \in Nat
  BY ColoAssumption DEF TypeOK
<1>1. CASE PLoop \/ PReq \/ PStop \/ PCheck \/ PReplication \/ PLive \/ PHook
           \/ PFinish \/ PBarrier \/ PVmStart \/ PRelease \/ PExit
  <2>1. PICK l : /\ pc' = [pc EXCEPT !["P"] = l]
                 /\ \/ pc["P"] \in Saving /\ l \in Saving
                    \/ pc["P"] \notin Saving \cup PGone /\ l \notin Saving
                    \/ l \in PGone
    <3>1. CASE PLoop
      <4>1. CASE pc' = [pc EXCEPT !["P"] = "sem"]
        BY <4>1, Zenon DEF PGone
      <4>2. CASE pc' = [pc EXCEPT !["P"] = "wait"] /\ pc["P"] = "loop"
        <5>1. "wait" \notin Saving /\ "loop" \notin Saving \cup PGone
          BY DEF PGone, Saving
        <5>. QED
          BY <4>2, <5>1, Zenon
      <4>. QED
        BY <3>1, <4>1, <4>2, Zenon DEF PLoop, At, Goto
    <3>2. CASE PReq \/ PLive
      BY <3>2 DEF PReq, PLive, At, Goto, Saving
    <3>4. CASE PStop
      BY <3>4 DEF PStop, At, Goto, Saving, PGone
    <3>5. CASE PCheck
      BY <3>5, Zenon DEF PCheck, At, Goto, Saving, PGone
    <3>6. CASE PReplication
      BY <3>6 DEF PReplication, At, Goto, Saving, PGone
    <3>7. CASE PHook \/ PFinish
      BY <3>7 DEF PHook, PFinish, At, Goto, Saving
    <3>3. CASE PBarrier \/ PVmStart \/ PRelease \/ PExit
      BY <3>3, SMTT(20) DEF PBarrier, PVmStart, PRelease, PExit, At, Goto, Saving, PGone
    <3>. QED
      BY <1>1, <3>1, <3>2, <3>3, <3>4, <3>5, <3>6, <3>7
  <2>2. UNCHANGED <<epoch, req, failover_state, sem>>
    BY <1>1 DEF PLoop, PReq, PStop, PCheck, PReplication, PLive, PHook,
       PFinish, PBarrier, PVmStart, PRelease, PExit, PrimaryKeeps, guest, consensus
  <2>. QED
    BY <2>1, <2>2, BoundsMoveP, Zenon
<1>2. CASE PPut
  <2>1. /\ \/ pc["P"] = "putPBmap" /\ pc'["P"] = "getHash"
           \/ pc["P"] = "putSize" /\ pc'["P"] \in {"putValue", "loop"}
           \/ pc["P"] = "putValue" /\ pc'["P"] \in {"putBuf", "loop"}
           \/ pc["P"] = "putBuf" /\ pc'["P"] \in {"sem", "getLoaded"}
    BY <1>2, PPutFacts
  <2>2. UNCHANGED <<epoch, req, failover_state, sem>>
    BY <1>2 DEF PPut, guest, consensus
  <2>. QED
    BY <2>1, <2>2 DEF Bounds, Saving, PGone, One
<1>3. CASE PGet
  <2>1. /\ \/ pc["P"] = "getBmap" /\ pc'["P"] = "putPBmap"
           \/ pc["P"] = "getHash" /\ pc'["P"] = "write"
           \/ pc["P"] = "getLoaded" /\ pc'["P"] \in {"loop", "barrier"}
    BY <1>3, PGetFacts
  <2>2. UNCHANGED <<epoch, req, failover_state, sem>>
    BY <1>3 DEF PGet, guest, consensus
  <2>. QED
    BY <2>1, <2>2 DEF Bounds, Saving, PGone, One
<1>4. CASE PWait
  <2>1. pc["P"] = "wait" /\ pc'["P"] = "req" /\ epoch < MaxEpoch /\ req' = req + 1
    BY <1>4 DEF PWait, At, Goto, TypeOK, Side
  <2>2. UNCHANGED <<epoch, failover_state, sem>>
    BY <1>4 DEF PWait, PrimaryKeeps, guest
  <2>. QED
    BY <1>0, <2>1, <2>2 DEF Bounds, Saving, PGone, One
<1>5. CASE PFlush
  <2>1. pc["P"] = "flush" /\ pc'["P"] \in {"putSize", "sem"} /\ epoch' = epoch + 1
    BY <1>5 DEF PFlush, At, Goto, TypeOK, Side
  <2>2. UNCHANGED <<req, failover_state, sem>>
    BY <1>5 DEF PFlush, PrimaryKeeps, consensus
  <2>. QED
    BY <1>0, <2>1, <2>2 DEF Bounds, Saving, PGone, One
<1>6. CASE PSem \/ SSem
  <2>1. PICK x \in Side : /\ sem[x] > 0 /\ sem' = [sem EXCEPT ![x] = @ - 1]
    BY <1>6 DEF PSem, SSem, Side
  <2>2. failover_state[x] = "COMPLETED"
    BY <2>1 DEF Bounds
  <2>3. UNCHANGED <<epoch, req, failover_state>>
    BY <1>6 DEF PSem, SSem, PrimaryKeeps, SecondaryKeeps, guest, consensus
  <2>4. \A y \in Side : failover_state'[y] # "COMPLETED" => sem'[y] = 0
    BY <2>1, <2>2, <2>3 DEF Bounds, TypeOK
  <2>5. \/ pc'["P"] = pc["P"]
        \/ pc'["P"] \in PGone
    BY <1>6 DEF PSem, SSem, Goto, TypeOK, Side, PGone
  <2>6. PGone \cap Saving = {}
    BY DEF PGone, Saving
  <2>. QED
    BY <2>3, <2>4, <2>5, <2>6 DEF Bounds, One
<1>7. CASE SDevice
  <2>1. UNCHANGED <<epoch, req, sem>> /\ pc'["P"] = pc["P"]
    BY <1>7 DEF SDevice, Goto, consensus, TypeOK, Side
  <2>2. \A y \in Side : failover_state'[y] = "COMPLETED" <=> failover_state[y] = "COMPLETED"
    BY <1>7 DEF SDevice, TypeOK, Side
  <2>. QED
    BY <2>1, <2>2 DEF Bounds, One
<1>8. CASE Apply
  <2>1. req' = req - 1 /\ UNCHANGED <<pc, epoch, failover_state, sem>>
    BY <1>8 DEF Apply, threads, guest
  <2>. QED
    BY <1>0, <2>1 DEF Bounds, One
<1>9. ASSUME NEW x \in Side, Request(x) \/ FailoverBh(x) PROVE Bounds'
  <2>1. UNCHANGED <<pc, epoch, req>>
    BY <1>9 DEF Request, FailoverBh, guest, consensus
  <2>2. \A y \in Side : failover_state'[y] # "COMPLETED" => sem'[y] = 0
    <3>1. CASE Request(x)
      BY <3>1 DEF Request, Bounds, TypeOK
    <3>2. CASE FailoverBh(x)
      BY <3>2 DEF FailoverBh, Bounds, TypeOK
    <3>. QED
      BY <1>9, <3>1, <3>2
  <2>. QED
    BY <2>1, <2>2 DEF Bounds, One
<1>10. CASE \/ SLoop \/ SPoll \/ SWaitDone \/ SDisable \/ SStop \/ SResume \/ SPut \/ SGet
            \/ SLoad \/ SReady \/ SServe \/ STail \/ SOut \/ PWrite \/ Join \/ Emit
            \/ UNCHANGED vars
            \/ \E x \in Side : Post(x) \/ Adapter(x) \/ Crash(x)
  <2>1. UNCHANGED <<epoch, req, failover_state, sem>>
    BY <1>10, Zenon DEF SLoop, SPoll, SWaitDone, SDisable, SStop, SResume, SPut, SGet, SLoad,
       SReady, SServe, STail, SOut, PWrite, PrimaryKeeps, Join, Emit, Post, Adapter, Land, Ack,
       RetriesExceeded, Crash, SecondaryKeeps, consensus, guest, vars, threads
  <2>2. pc' = pc \/ \E l : pc' = [pc EXCEPT !["S"] = l]
    BY <1>10, Zenon DEF SLoop, SPoll, SWaitDone, SDisable, SStop, SResume, SPut, SGet, SLoad,
       SReady, SServe, STail, SOut, PWrite, Join, Emit, Post, Adapter, Land, Ack,
       RetriesExceeded, Crash, vars, threads, Goto
  <2>3. pc'["P"] = pc["P"]
    BY <2>2 DEF TypeOK, Side
  <2>. QED
    BY <2>1, <2>3 DEF Bounds, One
<1>. QED
  BY <1>1, <1>2, <1>3, <1>4, <1>5, <1>6, <1>7, <1>8, <1>9, <1>10
     DEF Next, Primary, Secondary, Side

\* Every step keeps the types.  The bounds are needed where a number of a checkpoint
\* grows (PFlush, PFinish), where a request is added (PWait) and where the failover
\* posts a semaphore (FailoverBh).
LEMMA TypeOKStep ==
  ASSUME TypeOK, Bounds, Places, Memory, Output, [Next]_vars
  PROVE TypeOK'
<1>0. MaxEpoch \in Nat /\ MaxFaults \in Nat
  BY ColoAssumption
<1>g. ThreadsOK /\ ConsensusOK /\ FileOK /\ CtrlOK /\ GuestOK /\ OutputOK /\ RunOK
  BY TypeParts
<1>p. ThreadsOK' /\ ConsensusOK' /\ FileOK' /\ CtrlOK' /\ GuestOK' /\ OutputOK' /\ RunOK' => TypeOK'
  BY Zenon DEF TypeOK, PcOK, ThreadsOK, ConsensusOK, FileOK, CtrlOK, GuestOK, OutputOK, RunOK
<1>f. /\ threads' = threads => ThreadsOK'
      /\ consensus' = consensus => ConsensusOK'
      /\ file' = file => FileOK'
      /\ ctrl' = ctrl => CtrlOK'
      /\ guest' = guest => GuestOK'
      /\ output' = output => OutputOK'
      /\ sync_type' = sync_type /\ faults' = faults => RunOK'
  <2>1. threads' = threads => ThreadsOK'
    BY <1>g DEF threads, ThreadsOK, PcOK
  <2>2. consensus' = consensus => ConsensusOK'
    BY <1>g DEF consensus, ConsensusOK
  <2>3. file' = file => FileOK'
    BY <1>g DEF file, FileOK
  <2>4. ctrl' = ctrl => CtrlOK'
    BY <1>g DEF ctrl, CtrlOK
  <2>5. guest' = guest => GuestOK'
    BY <1>g DEF guest, GuestOK
  <2>6. output' = output => OutputOK'
    BY <1>g DEF output, OutputOK
  <2>7. sync_type' = sync_type /\ faults' = faults => RunOK'
    BY <1>g DEF RunOK
  <2>. QED
    BY <2>1, <2>2, <2>3, <2>4, <2>5, <2>6, <2>7
<1>1. CASE PLoop
  <2>1. PcOK'
    BY <1>1, <1>g, Moves, Zenon DEF ThreadsOK, PLoop, Goto, PLabels
  <2>2. ThreadsOK'
    BY <1>1, <2>1, <1>g DEF ThreadsOK, PLoop, PrimaryKeeps
  <2>. QED
    BY <1>1, <2>2, <1>f, <1>p DEF PLoop, PrimaryKeeps
<1>2. CASE PWait
  <2>1. ThreadsOK'
    BY <1>2, Moves, <1>g DEF ThreadsOK, PWait, PrimaryKeeps, Goto, PLabels
  <2>2. req' \in 0 .. MaxEpoch
    <3>1. pc["P"] = "wait" /\ epoch < MaxEpoch /\ req' = req + 1
      BY <1>2 DEF PWait, At
    <3>2. req <= epoch
      BY <3>1, <1>g DEF Bounds, PGone, Saving, One, GuestOK
    <3>. QED
      BY <3>1, <3>2, <1>0, <1>g DEF ConsensusOK, GuestOK
  <2>3. ConsensusOK'
    BY <1>2, <2>2, <1>g DEF ConsensusOK, PWait, PrimaryKeeps
  <2>. QED
    BY <1>2, <2>1, <2>3, <1>f, <1>p DEF PWait, PrimaryKeeps
<1>3. CASE PReq
  <2>1. ThreadsOK'
    BY <1>3, Moves, <1>g DEF ThreadsOK, PReq, PrimaryKeeps, Goto, PLabels
  <2>. QED
    BY <1>3, <2>1, <1>f, <1>p DEF PReq, PrimaryKeeps
<1>4. CASE PStop
  <2>1. PcOK'
    BY <1>4, <1>g, Moves DEF ThreadsOK, PStop, Goto, PLabels
  <2>2. running' \in [Side -> BOOLEAN]
    BY <1>4, Update, <1>g, ZenonT(30) DEF ThreadsOK, PStop, Side
  <2>3. ThreadsOK'
    BY <1>4, <2>1, <2>2, <1>g DEF ThreadsOK, PStop, PrimaryKeeps
  <2>. QED
    BY <1>4, <2>3, <1>f, <1>p DEF PStop, PrimaryKeeps
<1>5. CASE PCheck
  <2>1. PcOK'
    BY <1>5, <1>g, Moves, Zenon DEF ThreadsOK, PCheck, Goto, PLabels
  <2>2. ThreadsOK'
    BY <1>5, <2>1, <1>g DEF ThreadsOK, PCheck, PrimaryKeeps
  <2>. QED
    BY <1>5, <2>2, <1>f, <1>p DEF PCheck, PrimaryKeeps
<1>6. CASE PReplication
  <2>1. ThreadsOK'
    BY <1>6, Moves, <1>g DEF ThreadsOK, PReplication, PrimaryKeeps, Goto, PLabels
  <2>2. RunOK'
    BY <1>6, <1>0, <1>g DEF RunOK, PReplication, PrimaryKeeps, Fault
  <2>. QED
    BY <1>6, <2>1, <2>2, <1>f, <1>p DEF PReplication, PrimaryKeeps
<1>7. CASE PLive
  <2>1. ThreadsOK'
    BY <1>7, Moves, Update, <1>g DEF ThreadsOK, PLive, PrimaryKeeps, Goto, PLabels, Side
  <2>. QED
    BY <1>7, <2>1, <1>f, <1>p DEF PLive, PrimaryKeeps
<1>8. CASE PPut
  <2>1. PcOK'
    <3>1. pc' = [pc EXCEPT !["P"] = pc'["P"]]
      BY <1>8, <1>g DEF ThreadsOK, PcOK, PPut, Goto, Side
    <3>2. pc'["P"] \in PLabels
      BY <1>8, PPutFacts DEF PLabels
    <3>. QED
      BY <3>1, <3>2, <1>g, Moves DEF ThreadsOK
  <2>2. ThreadsOK'
    BY <1>8, <2>1, <1>g DEF ThreadsOK, PPut
  <2>3. cq' \in [Side -> Seq(BOOLEAN)]
    <3>1. cq["P"] \in Seq(BOOLEAN) /\ cq["P"] # <<>>
      BY <1>8, <1>g DEF PPut, Polled, CtrlOK, Side
    <3>2. Tail(cq["P"]) \in Seq(BOOLEAN)
      BY <3>1, CompletionsTyped, Zenon
    <3>3. cq' = [cq EXCEPT !["P"] = Tail(cq["P"])]
      BY <1>8 DEF PPut, Polled
    <3>. QED
      BY <3>2, <3>3, <1>g, Update DEF CtrlOK, Side
  <2>4. CtrlOK'
    BY <1>8, <2>3, Update, <1>g DEF CtrlOK, Polled, PPut, Side
  <2>. QED
    BY <1>8, <2>2, <2>4, <1>f, <1>p DEF PPut
<1>9. CASE PGet
  <2>1. PcOK'
    <3>1. pc' = [pc EXCEPT !["P"] = pc'["P"]]
      BY <1>9, <1>g DEF ThreadsOK, PcOK, PGet, Goto, Side
    <3>2. pc'["P"] \in PLabels
      BY <1>9, PGetFacts DEF PLabels
    <3>. QED
      BY <3>1, <3>2, <1>g, Moves DEF ThreadsOK
  <2>2. ThreadsOK'
    BY <1>9, <2>1, <1>g DEF ThreadsOK, PGet
  <2>3. cq' \in [Side -> Seq(BOOLEAN)]
    <3>1. cq["P"] \in Seq(BOOLEAN) /\ cq["P"] # <<>>
      BY <1>9, <1>g, Zenon DEF PGet, Got, CtrlOK, Side
    <3>2. Tail(cq["P"]) \in Seq(BOOLEAN)
      BY <3>1, CompletionsTyped, Zenon
    <3>3. cq' = [cq EXCEPT !["P"] = Tail(cq["P"])]
      BY <1>9, Zenon DEF PGet, Got
    <3>. QED
      BY <3>2, <3>3, <1>g, Update DEF CtrlOK, Side
  <2>4. CtrlOK'
    BY <1>9, <2>3, Update, <1>g, Zenon DEF CtrlOK, Got, PGet, Side
  <2>. QED
    BY <1>9, <2>2, <2>4, <1>f, <1>p DEF PGet
<1>10. CASE PHook
  <2>1. ThreadsOK'
    BY <1>10, Moves, <1>g DEF ThreadsOK, PHook, PrimaryKeeps, Goto, PLabels
  <2>2. FileOK'
    BY <1>10, <1>g, Zenon DEF FileOK, PHook
  <2>. QED
    BY <1>10, <2>1, <2>2, <1>f, <1>p DEF PHook, PrimaryKeeps
<1>11. CASE PWrite
  <2>1. threads' = threads
    BY <1>11 DEF PWrite, PrimaryKeeps, threads
  <2>2. ram' \in Torn .. MaxEpoch
    BY <1>11, <1>0 DEF PWrite, Torn
  <2>3. GuestOK'
    BY <1>11, <2>2, <1>g DEF GuestOK, PWrite
  <2>. QED
    BY <1>11, <2>1, <2>3, <1>f, <1>p DEF PWrite, PrimaryKeeps
<1>12. CASE PFinish
  <2>1. ThreadsOK'
    BY <1>12, Moves, <1>g DEF ThreadsOK, PFinish, PrimaryKeeps, Goto, PLabels
  <2>2. ram' \in Torn .. MaxEpoch
    <3>1. ram' = ram \/ (pc["P"] = "writing" /\ ram' = epoch + 1)
      BY <1>12 DEF PFinish, At
    <3>2. pc["P"] = "writing" => epoch < MaxEpoch
      BY DEF Bounds, Saving
    <3>. QED
      BY <3>1, <3>2, <1>0, <1>g DEF GuestOK, Torn
  <2>3. GuestOK'
    BY <1>12, <2>2, <1>g DEF GuestOK, PFinish, PrimaryKeeps
  <2>4. FileOK'
    BY <1>12, <1>g, Zenon DEF FileOK, PFinish, PrimaryKeeps
  <2>. QED
    BY <1>12, <2>1, <2>3, <2>4, <1>f, <1>p DEF PFinish, PrimaryKeeps
<1>13. CASE PFlush
  <2>1. ThreadsOK'
    BY <1>13, Moves, Update, <1>g DEF ThreadsOK, PFlush, PrimaryKeeps, Goto, PLabels, Side
  <2>2. epoch' \in 0 .. MaxEpoch
    <3>1. pc["P"] = "flush" /\ epoch' = epoch + 1
      BY <1>13 DEF PFlush, At
    <3>2. epoch < MaxEpoch
      BY <3>1 DEF Bounds, Saving
    <3>. QED
      BY <3>1, <3>2, <1>0, <1>g DEF GuestOK
  <2>3. GuestOK'
    BY <1>13, <2>2, <1>g DEF GuestOK, PFlush, PrimaryKeeps
  <2>4. FileOK'
    BY <1>13, <1>g, Zenon DEF FileOK, PFlush, PrimaryKeeps
  <2>5. RunOK'
    BY <1>13, <1>0, <1>g DEF RunOK, PFlush, PrimaryKeeps, Fault
  <2>. QED
    BY <1>13, <2>1, <2>3, <2>4, <2>5, <1>f, <1>p DEF PFlush, PrimaryKeeps
<1>14. CASE PBarrier
  <2>1. ThreadsOK'
    BY <1>14, Moves, <1>g DEF ThreadsOK, PBarrier, PrimaryKeeps, Goto, PLabels
  <2>2. plug' \in [queue : Seq(Nat), cur : Nat, last : Nat]
    <3>1. plug' = plug \/ plug' = [queue |-> plug.queue, cur |-> 0, last |-> plug.cur]
      BY <1>14, <1>g, Zenon DEF OutputOK, PBarrier
    <3>. QED
      BY <3>1, <1>g, PlugTyped DEF OutputOK
  <2>3. OutputOK'
    BY <1>14, <2>2, <1>g DEF OutputOK, PBarrier, PrimaryKeeps
  <2>4. RunOK'
    BY <1>14, <1>0, <1>g DEF RunOK, PBarrier, PrimaryKeeps, Fault
  <2>. QED
    BY <1>14, <2>1, <2>3, <2>4, <1>f, <1>p DEF PBarrier, PrimaryKeeps
<1>15. CASE PVmStart
  <2>1. ThreadsOK'
    BY <1>15, Moves, Update, <1>g DEF ThreadsOK, PVmStart, PrimaryKeeps, Goto, PLabels, Side
  <2>. QED
    BY <1>15, <2>1, <1>f, <1>p DEF PVmStart, PrimaryKeeps
<1>16. CASE PRelease
  <2>1. ThreadsOK'
    BY <1>16, Moves, <1>g DEF ThreadsOK, PRelease, PrimaryKeeps, Goto, PLabels
  <2>2. plug' \in [queue : Seq(Nat), cur : Nat, last : Nat]
    <3>. DEFINE q == SubSeq(plug.queue, plug.last + 1, Len(plug.queue))
    <3>1. plug.queue \in Seq(Nat) /\ plug.last + 1 \in 1 .. Len(plug.queue) + 1
      BY PlugTyped
    <3>2. q \in Seq(Nat)
      BY <3>1, DropFirst
    <3>3. plug' = plug \/ plug' = [queue |-> q, cur |-> plug.cur, last |-> 0]
      <4>1. \/ plug' = plug
            \/ plug' = [plug EXCEPT !.queue = q, !.last = 0]
        BY <1>16, Zenon DEF PRelease, output
      <4>. QED
        BY <4>1, <1>g, Zenon DEF OutputOK
    <3>. HIDE DEF q
    <3>. QED
      BY <3>2, <3>3, <1>g, PlugTyped DEF OutputOK
  <2>3. released' \subseteq 1 .. MaxEpoch + 1
    <3>1. \A i \in 1 .. plug.last : plug.queue[i] \in 1 .. MaxEpoch + 1
      <4>1. ASSUME NEW i \in 1 .. plug.last PROVE plug.queue[i] \in 1 .. MaxEpoch + 1
        <5>1. i \in 1 .. Len(plug.queue)
          BY PlugTyped
        <5>2. plug.queue[i] \in 1 .. epoch + 1
          BY <5>1 DEF Output
        <5>. QED
          BY <5>2, <1>0, <1>g DEF GuestOK
      <4>. QED
        BY <4>1
    <3>2. \/ released' = released
          \/ released' = released \cup {plug.queue[i] : i \in 1 .. plug.last}
      BY <1>16 DEF PRelease, output
    <3>3. {plug.queue[i] : i \in 1 .. plug.last} \subseteq 1 .. MaxEpoch + 1
      BY <3>1, Zenon
    <3>4. released \subseteq 1 .. MaxEpoch + 1
      BY <1>g DEF OutputOK
    <3>. QED
      BY <3>2, <3>3, <3>4, Zenon
  <2>4. OutputOK'
    BY <1>16, <2>2, <2>3, <1>g DEF OutputOK, PRelease, PrimaryKeeps
  <2>5. RunOK'
    BY <1>16, <1>0, <1>g DEF RunOK, PRelease, PrimaryKeeps, Fault
  <2>. QED
    BY <1>16, <2>1, <2>4, <2>5, <1>f, <1>p DEF PRelease, PrimaryKeeps
<1>17. CASE PSem
  <2>1. ThreadsOK'
    BY <1>17, Moves, Update, <1>g DEF ThreadsOK, PSem, PrimaryKeeps, Goto, PLabels, Side
  <2>. QED
    BY <1>17, <2>1, <1>f, <1>p DEF PSem, PrimaryKeeps
<1>18. CASE PExit
  <2>1. ThreadsOK'
    BY <1>18, Moves, Update, <1>g DEF ThreadsOK, PExit, PrimaryKeeps, Goto, PLabels, Side
  <2>. QED
    BY <1>18, <2>1, <1>f, <1>p DEF PExit, PrimaryKeeps
<1>19. CASE SLoop
  <2>1. PcOK'
    BY <1>19, <1>g, Moves, Zenon DEF ThreadsOK, SLoop, Goto, SLabels
  <2>2. ThreadsOK'
    BY <1>19, <2>1, <1>g DEF ThreadsOK, SLoop, SecondaryKeeps
  <2>. QED
    BY <1>19, <2>2, <1>f, <1>p DEF SLoop, SecondaryKeeps
<1>20. CASE SPoll
  <2>1. PcOK'
    <3>1. pc' = pc \/ pc' = [pc EXCEPT !["S"] = "disable"]
      BY <1>20 DEF SPoll, Goto
    <3>. QED
      BY <3>1, <1>g, Moves DEF ThreadsOK, SLabels
  <2>2. ThreadsOK'
    BY <1>20, <2>1, <1>g DEF ThreadsOK, SPoll, SecondaryKeeps
  <2>3. ConsensusOK'
    BY <1>20, <1>0, <1>g, Zenon DEF ConsensusOK, SPoll, SecondaryKeeps
  <2>. QED
    BY <1>20, <2>2, <2>3, <1>f, <1>p DEF SPoll, SecondaryKeeps
<1>21. CASE SWaitDone
  <2>1. ThreadsOK'
    BY <1>21, Moves, <1>g DEF ThreadsOK, SWaitDone, SecondaryKeeps, Goto, SLabels
  <2>2. ConsensusOK'
    BY <1>21, <1>g, Zenon DEF ConsensusOK, SWaitDone, SecondaryKeeps
  <2>. QED
    BY <1>21, <2>1, <2>2, <1>f, <1>p DEF SWaitDone, SecondaryKeeps
<1>22. CASE SDisable
  <2>1. ThreadsOK'
    BY <1>22, Moves, <1>g, Zenon DEF ThreadsOK, SDisable, SecondaryKeeps, Goto, SLabels
  <2>2. ConsensusOK'
    BY <1>22, <1>g DEF ConsensusOK, SDisable, SecondaryKeeps
  <2>. QED
    BY <1>22, <2>1, <2>2, <1>f, <1>p DEF SDisable, SecondaryKeeps
<1>23. CASE SStop
  <2>1. ThreadsOK'
    BY <1>23, Moves, Update, <1>g DEF ThreadsOK, SStop, SecondaryKeeps, Goto, SLabels, Side
  <2>. QED
    BY <1>23, <2>1, <1>f, <1>p DEF SStop, SecondaryKeeps
<1>24. CASE SResume
  <2>1. ThreadsOK'
    BY <1>24, Moves, <1>g DEF ThreadsOK, SResume, SecondaryKeeps, Goto, SLabels
  <2>2. ConsensusOK'
    BY <1>24, <1>g, Zenon DEF ConsensusOK, SResume, SecondaryKeeps
  <2>. QED
    BY <1>24, <2>1, <2>2, <1>f, <1>p DEF SResume, SecondaryKeeps
<1>25. CASE SPut
  <2>1. PcOK'
    <3>1. pc' = [pc EXCEPT !["S"] = pc'["S"]]
      BY <1>25, <1>g, Zenon DEF ThreadsOK, PcOK, SPut, Goto, Side
    <3>2. pc'["S"] \in SLabels
      BY <1>25, SPutFacts DEF SLabels
    <3>. QED
      BY <3>1, <3>2, <1>g, Moves DEF ThreadsOK
  <2>2. running' \in [Side -> BOOLEAN]
    <3>1. running' = running \/ running' = [running EXCEPT !["S"] = TRUE]
      BY <1>25, Zenon DEF SPut
    <3>. QED
      BY <3>1, <1>g, Update, Zenon DEF ThreadsOK, Side
  <2>3. lock' \in [Side -> {"free", "colo", "main"}]
    <3>1. lock' = lock \/ lock' = [lock EXCEPT !["S"] = "free"]
      BY <1>25, Zenon DEF SPut
    <3>. QED
      BY <3>1, <1>g, Update DEF ThreadsOK, Side
  <2>4. ThreadsOK'
    BY <1>25, <2>1, <2>2, <2>3, <1>g, Zenon DEF ThreadsOK, SPut
  <2>5. cq' \in [Side -> Seq(BOOLEAN)]
    <3>1. cq["S"] \in Seq(BOOLEAN) /\ cq["S"] # <<>>
      BY <1>25, <1>g, Zenon DEF SPut, Polled, CtrlOK, Side
    <3>2. Tail(cq["S"]) \in Seq(BOOLEAN)
      BY <3>1, CompletionsTyped, Zenon
    <3>3. cq' = [cq EXCEPT !["S"] = Tail(cq["S"])]
      BY <1>25, Zenon DEF SPut, Polled
    <3>. QED
      BY <3>2, <3>3, <1>g, Update DEF CtrlOK, Side
  <2>6. CtrlOK'
    BY <1>25, <2>5, Update, <1>g, Zenon DEF CtrlOK, Polled, SPut, Side
  <2>. QED
    BY <1>25, <2>4, <2>6, <1>f, <1>p, Zenon DEF SPut
<1>26. CASE SGet
  <2>1. PcOK'
    <3>1. pc' = [pc EXCEPT !["S"] = pc'["S"]]
      BY <1>26, <1>g, Zenon DEF ThreadsOK, PcOK, SGet, Goto, Side
    <3>2. pc'["S"] \in SLabels
      BY <1>26, SGetFacts DEF SLabels
    <3>. QED
      BY <3>1, <3>2, <1>g, Moves DEF ThreadsOK
  <2>2. ThreadsOK'
    BY <1>26, <2>1, Update, <1>g, Zenon DEF ThreadsOK, SGet, Side
  <2>3. cq' \in [Side -> Seq(BOOLEAN)]
    <3>1. cq["S"] \in Seq(BOOLEAN) /\ cq["S"] # <<>>
      BY <1>26, <1>g, Zenon DEF SGet, Got, CtrlOK, Side
    <3>2. Tail(cq["S"]) \in Seq(BOOLEAN)
      BY <3>1, CompletionsTyped, Zenon
    <3>3. cq' = [cq EXCEPT !["S"] = Tail(cq["S"])]
      BY <1>26, Zenon DEF SGet, Got
    <3>. QED
      BY <3>2, <3>3, <1>g, Update DEF CtrlOK, Side
  <2>4. CtrlOK'
    BY <1>26, <2>3, Update, <1>g, Zenon DEF CtrlOK, Got, SGet, Side
  <2>. QED
    BY <1>26, <2>2, <2>4, <1>f, <1>p, Zenon DEF SGet
<1>27. CASE SLoad
  <2>1. ThreadsOK'
    BY <1>27, Moves, <1>g DEF ThreadsOK, SLoad, SecondaryKeeps, Goto, SLabels
  <2>2. FileOK'
    BY <1>27, <1>g, Zenon DEF FileOK, SLoad, SecondaryKeeps
  <2>. QED
    BY <1>27, <2>1, <2>2, <1>f, <1>p DEF SLoad, SecondaryKeeps
<1>28. CASE SReady \/ SServe
  <2>1. PcOK'
    BY <1>28, <1>g, Moves, Zenon DEF ThreadsOK, SReady, SServe, Goto, SLabels
  <2>2. ThreadsOK'
    BY <1>28, <2>1, <1>g DEF ThreadsOK, SReady, SServe, SecondaryKeeps
  <2>. QED
    BY <1>28, <2>2, <1>f, <1>p DEF SReady, SServe, SecondaryKeeps
<1>29. CASE STail
  <2>1. ThreadsOK'
    BY <1>29, Moves, <1>g DEF ThreadsOK, STail, SecondaryKeeps, Goto, SLabels
  <2>2. FileOK'
    BY <1>29, <1>g, Zenon DEF FileOK, STail, SecondaryKeeps
  <2>. QED
    BY <1>29, <2>1, <2>2, <1>f, <1>p DEF STail, SecondaryKeeps
<1>30. CASE SDevice
  <2>1. ThreadsOK'
    BY <1>30, Moves, Update, <1>g DEF ThreadsOK, SDevice, Goto, SLabels, Side
  <2>2. dev' \in Torn .. MaxEpoch
    <3>1. dev' \in {Torn, epoch}
      BY <1>30 DEF SDevice
    <3>. QED
      BY <3>1, <1>0, <1>g DEF GuestOK, Torn
  <2>3. GuestOK'
    BY <1>30, <2>2, <1>0, <1>g, Zenon DEF GuestOK, SDevice
  <2>4. RunOK'
    BY <1>30, <1>0, <1>g DEF RunOK, SDevice, Fault
  <2>. QED
    BY <1>30, <2>1, <2>3, <2>4, <1>f, <1>p DEF SDevice
<1>31. CASE SOut
  <2>1. ThreadsOK'
    BY <1>31, Moves, <1>g DEF ThreadsOK, SOut, SecondaryKeeps, Goto, SLabels
  <2>2. GuestOK'
    BY <1>31, <1>g, Zenon DEF GuestOK, SOut, SecondaryKeeps
  <2>. QED
    BY <1>31, <2>1, <2>2, <1>f, <1>p DEF SOut, SecondaryKeeps
<1>32. CASE SSem
  <2>1. ThreadsOK'
    BY <1>32, Moves, Update, <1>g DEF ThreadsOK, SSem, SecondaryKeeps, Goto, SLabels, Side
  <2>. QED
    BY <1>32, <2>1, <1>f, <1>p DEF SSem, SecondaryKeeps
<1>33. CASE Apply
  <2>1. ConsensusOK'
    BY <1>33, <1>0, <1>g DEF ConsensusOK, Apply
  <2>. QED
    BY <1>33, <2>1, <1>f, <1>p DEF Apply
<1>34. CASE Join
  <2>1. ThreadsOK'
    BY <1>34, Moves, Update, <1>g DEF ThreadsOK, Join, Side
  <2>2. GuestOK'
    BY <1>34, <1>g DEF GuestOK, Join
  <2>. QED
    BY <1>34, <2>1, <2>2, <1>f, <1>p DEF Join
<1>35. CASE Emit
  <2>1. plug' \in [queue : Seq(Nat), cur : Nat, last : Nat]
    <3>1. epoch + 1 \in Nat /\ plug.cur + 1 \in Nat
      BY <1>g, PlugTyped DEF GuestOK
    <3>2. Append(plug.queue, epoch + 1) \in Seq(Nat)
      BY <3>1, PlugTyped, AddLast
    <3>3. plug' = [queue |-> Append(plug.queue, epoch + 1), cur |-> plug.cur + 1,
                   last |-> plug.last]
      BY <1>35, <1>g, Zenon DEF OutputOK, Emit
    <3>. QED
      BY <3>1, <3>2, <3>3, PlugTyped
  <2>2. OutputOK'
    BY <1>35, <2>1, <1>g DEF OutputOK, Emit
  <2>. QED
    BY <1>35, <2>2, <1>f, <1>p DEF Emit
<1>36. ASSUME NEW x \in Side, Post(x) PROVE TypeOK'
  <2>1. rdma_buffer' \in [Side -> Messages \cup {NoMsg}]
    <3>1. PutMsg[pc[x]] \in Messages \cup {NoMsg}
      BY <1>36 DEF Post, Messages
    <3>2. rdma_buffer' = [rdma_buffer EXCEPT ![x] = PutMsg[pc[x]]]
      BY <1>36 DEF Post
    <3>. QED
      BY <3>1, <3>2, <1>g, Update DEF CtrlOK
  <2>2. cq' \in [Side -> Seq(BOOLEAN)]
    <3>1. cq[x] \in Seq(BOOLEAN)
      BY <1>g DEF CtrlOK
    <3>2. Append(cq[x], FALSE) \in Seq(BOOLEAN)
      BY <3>1, CompletionsTyped
    <3>3. cq' = [cq EXCEPT ![x] = IF qp_error[x] THEN Append(cq[x], FALSE) ELSE cq[x]]
      BY <1>36 DEF Post
    <3>. QED
      BY <3>1, <3>2, <3>3, <1>g, Update, Zenon DEF CtrlOK
  <2>3. CtrlOK'
    BY <1>36, <2>1, <2>2, Update, <1>g, Zenon DEF CtrlOK, Post
  <2>. QED
    BY <1>36, <2>3, <1>f, <1>p, SMTT(20) DEF Post
<1>37. ASSUME NEW x \in Side, Land(x) PROVE TypeOK'
  <2>1. cq' \in [Side -> Seq(BOOLEAN)]
    <3>1. Peer(x) \in Side /\ cq[Peer(x)] \in Seq(BOOLEAN)
      BY <1>g DEF CtrlOK, Peer, Side
    <3>2. Append(cq[Peer(x)], TRUE) \in Seq(BOOLEAN)
      BY <3>1, CompletionsTyped
    <3>3. cq' = [cq EXCEPT ![Peer(x)] = Append(cq[Peer(x)], TRUE)]
      BY <1>37 DEF Land
    <3>. QED
      BY <3>1, <3>2, <3>3, <1>g, Update DEF CtrlOK
  <2>2. CtrlOK'
    BY <1>37, <2>1, Update, <1>g, SMTT(20) DEF CtrlOK, Land
  <2>. QED
    BY <1>37, <2>2, <1>f, <1>p DEF Land
<1>38. ASSUME NEW x \in Side, Ack(x) PROVE TypeOK'
  <2>1. cq' \in [Side -> Seq(BOOLEAN)]
    <3>1. Append(cq[x], TRUE) \in Seq(BOOLEAN)
      BY <1>g, CompletionsTyped DEF CtrlOK
    <3>2. cq' = [cq EXCEPT ![x] = Append(cq[x], TRUE)]
      BY <1>38 DEF Ack
    <3>. QED
      BY <3>1, <3>2, <1>g, Update DEF CtrlOK
  <2>2. CtrlOK'
    BY <1>38, <2>1, Update, <1>g DEF CtrlOK, Ack
  <2>. QED
    BY <1>38, <2>2, <1>f, <1>p DEF Ack
<1>39. ASSUME NEW x \in Side, RetriesExceeded(x) PROVE TypeOK'
  <2>1. qp_error' \in [Side -> BOOLEAN]
    BY <1>39, Update, <1>g DEF CtrlOK, RetriesExceeded
  <2>2. cq' \in [Side -> Seq(BOOLEAN)]
    <3>. DEFINE t == IF rbuf[x] = NoMsg THEN <<FALSE>> ELSE <<>>
    <3>1. cq[x] \in Seq(BOOLEAN) /\ <<FALSE>> \in Seq(BOOLEAN) /\ t \in Seq(BOOLEAN)
      <4>1. <<>> \in Seq(BOOLEAN)
        OBVIOUS
      <4>2. <<FALSE>> \in Seq(BOOLEAN)
        OBVIOUS
      <4>. QED
        BY <4>1, <4>2, <1>g, Zenon DEF CtrlOK
    <3>2. cq' = [cq EXCEPT ![x] = cq[x] \o <<FALSE>> \o t]
      BY <1>39 DEF RetriesExceeded
    <3>. HIDE DEF t
    <3>3. cq[x] \o <<FALSE>> \o t \in Seq(BOOLEAN)
      BY <3>1, CompletionsTyped
    <3>. QED
      BY <3>2, <3>3, <1>g, Update DEF CtrlOK
  <2>3. sending' \in [Side -> BOOLEAN]
    BY <1>39, Update, <1>g DEF CtrlOK, RetriesExceeded
  <2>4. unacked' \in [Side -> BOOLEAN]
    BY <1>39, Update, <1>g, SMTT(20) DEF CtrlOK, RetriesExceeded
  <2>5. CtrlOK'
    BY <1>39, <2>1, <2>2, <2>3, <2>4, <1>g, SMTT(20) DEF CtrlOK, RetriesExceeded
  <2>. QED
    BY <1>39, <2>5, <1>f, <1>p DEF RetriesExceeded
<1>40. ASSUME NEW x \in Side, Request(x) PROVE TypeOK'
  <2>1. ThreadsOK'
    BY <1>40, Moves, Update, <1>g, SMTT(20) DEF ThreadsOK, Request
  <2>. QED
    BY <1>40, <2>1, <1>f, <1>p DEF Request
<1>41. ASSUME NEW x \in Side, FailoverBh(x) PROVE TypeOK'
  <2>1. state' \in [Side -> {"COLO", "COMPLETED"}]
    <3>1. state' = state \/ state' = [state EXCEPT ![x] = "COMPLETED"]
      BY <1>41 DEF FailoverBh
    <3>. QED
      BY <3>1, <1>g, Update DEF ThreadsOK
  <2>2. sem' \in [Side -> 0 .. 1]
    <3>1. sem[x] = 0
      BY <1>41 DEF FailoverBh, Bounds
    <3>2. sem' = sem \/ sem' = [sem EXCEPT ![x] = 1]
      BY <1>41, <3>1 DEF FailoverBh
    <3>. QED
      BY <3>2, <1>g, Update DEF ThreadsOK
  <2>3. ThreadsOK'
    BY <1>41, <2>1, <2>2, Moves, Update, <1>g, ZenonT(30) DEF ThreadsOK, FailoverBh
  <2>4. shut' \in [Side -> BOOLEAN]
    <3>1. shut' = shut \/ shut' = [shut EXCEPT ![x] = TRUE]
      BY <1>41 DEF FailoverBh
    <3>. QED
      BY <3>1, <1>g, Update, Zenon DEF FileOK
  <2>5. FileOK'
    BY <1>41, <2>4, <1>g DEF FileOK, FailoverBh
  <2>. QED
    BY <1>41, <2>3, <2>5, <1>f, <1>p DEF FailoverBh
<1>42. ASSUME NEW x \in Side, Crash(x) PROVE TypeOK'
  <2>1. ThreadsOK'
    BY <1>42, Moves, Update, <1>g DEF ThreadsOK, Crash
  <2>2. FileOK'
    BY <1>42, Update, <1>g DEF FileOK, Crash
  <2>3. RunOK'
    BY <1>42, <1>0, <1>g DEF RunOK, Crash, Fault
  <2>. QED
    BY <1>42, <2>1, <2>2, <2>3, <1>f, <1>p, SMTT(20) DEF Crash
<1>43. CASE UNCHANGED vars
  BY <1>43, <1>f, <1>p DEF vars
<1>. QED
  BY <1>1, <1>2, <1>3, <1>4, <1>5, <1>6, <1>7, <1>8, <1>9, <1>10, <1>11, <1>12, <1>13, <1>14,
     <1>15, <1>16, <1>17, <1>18, <1>19, <1>20, <1>21, <1>22, <1>23, <1>24, <1>25, <1>26,
     <1>27, <1>28, <1>29, <1>30, <1>31, <1>32, <1>33, <1>34, <1>35, <1>36, <1>37, <1>38,
     <1>39, <1>40, <1>41, <1>42, <1>43, SMTT(20)
     DEF Next, Primary, Secondary, Adapter, Side
=============================================================================
