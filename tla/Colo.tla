-------------------------------- MODULE Colo --------------------------------
(***************************************************************************)
(* COLO checkpoints and failover (qemu/migration/colo.c, colo-failover.c,  *)
(* the control channel of mc-rdma.c and the plug of output-buffer.c).      *)
(*                                                                         *)
(* Each side is a QEMU process with two threads: the COLO thread, whose    *)
(* control state is pc, and the main loop, which handles QMP commands and  *)
(* runs the failover bottom half, both with the iothread lock.  The sides  *)
(* talk over a QEMUFile (a TCP stream, for the RAM sections) and over an   *)
(* RDMA queue pair for control messages, whose sends and receives share    *)
(* one completion queue.  Pages go by RDMA writes straight into the memory *)
(* of the secondary guest.                                                 *)
(***************************************************************************)
EXTENDS Integers, Sequences, FiniteSets

CONSTANTS SyncTypes,  \* the sync_type values that the configuration may hold
          MaxEpoch,   \* bound: number of checkpoints
          MaxFaults   \* bound: crashes, load errors and netlink errors

ASSUME ColoAssumption ==
  /\ SyncTypes \subseteq {"CHECK_IDLE_SYNC", "STATIC_TIME_SYNC"}
  /\ MaxEpoch \in Nat
  /\ MaxFaults \in Nat

Side == {"P", "S"}
Peer(x) == IF x = "P" THEN "S" ELSE "P"

\* No message; also the state of the posted receive buffer before one lands.
NoMsg == "none"
\* The memory of the secondary between the first and the last page.
Torn == -1

\* What the two threads put on the control channel, by the place in the code.
PutMsg ==
  [putBmap |-> "BITMAP", putHash |-> "HASH", putLoaded |-> "LOADED",
   putPBmap |-> "PRIMARY_BITMAP", putSize |-> "SIZE", putValue |-> "VALUE",
   putBuf |-> "BUFFER"]

\* What a get at this place in the code is meant to receive.
GetMsg ==
  [getBmap |-> "BITMAP", getHash |-> "HASH", getLoaded |-> "LOADED",
   getPBmap |-> "PRIMARY_BITMAP", getSize |-> "SIZE", getValue |-> "VALUE",
   getBuf |-> "BUFFER"]

Messages == {PutMsg[l] : l \in DOMAIN PutMsg}

\* The places in the code of the two threads that another actor can tell apart.
PLabels == {"loop", "wait", "req", "stop", "check", "repl", "live", "getBmap",
            "putPBmap", "getHash", "write", "writing", "flush", "putSize",
            "putValue", "putBuf", "getLoaded", "barrier", "vmStart", "release",
            "sem", "exit", "done"}
SLabels == {"loop", "wait", "disable", "stop", "resume", "putBmap", "getPBmap",
            "putHash", "load", "ready", "serve", "tail", "getSize", "getValue",
            "getBuf", "device", "putLoaded", "out", "sem", "done"}

VARIABLES
  pc,              \* where each COLO thread is
  alive,           \* whether the process runs
  lock,            \* who holds the iothread lock: "free", "colo" or "main"
  running,         \* whether the guest runs
  state,           \* migration state: "COLO" or "COMPLETED"
  failover_state,  \* HANDLING is the state within the bottom half, never seen outside
  sem,             \* colo_sem and colo_incoming_sem
  shut,            \* whether the side has shut down (or lost) its QEMUFiles
  sync_type,       \* chosen by the primary's configuration
  req,             \* CHECKPOINT entries not applied yet by the secondary's server
  checkpoint_req,  \* checkpoint_req_status of the secondary
  received,        \* received_sync_req of wait_guest_finish
  disable_apply,   \* set while the secondary stops its guest
  vmstate_loading,
  stream,          \* what of the RAM sections is in the stream: their HOOK or their end
  file_error,      \* qemu_file_get_error(to_dst_file)
  rdma_buffer,     \* the send area of each side, where get copies to as well
  rbuf,            \* what has landed in the posted receive buffer
  posted,          \* a put that has not polled its completion
  sending,         \* a send that has not landed
  unacked,         \* a send that has landed and has no completion yet
  cq,              \* the completion queue of each side: TRUE is success
  qp_error,        \* the control queue pair is in the error state
  epoch,           \* number of the last checkpoint the primary has saved
  ram, dev,        \* checkpoints that memory and devices of the secondary hold
  loaded,          \* history: the last checkpoint loaded completely
  plug,            \* the plug qdisc: queued packets, sizes of its two epochs
  released,        \* history: the packets that left
  taken_over,      \* the secondary guest was started by a failover
  faults           \* how many faults there were

threads == <<pc, alive, lock, running, state, failover_state, sem>>
consensus == <<req, checkpoint_req, received, disable_apply>>
file == <<shut, stream, file_error>>
ctrl == <<rdma_buffer, rbuf, posted, sending, unacked, cq, qp_error>>
guest == <<epoch, ram, dev, loaded, vmstate_loading, taken_over>>
output == <<plug, released>>
vars == <<threads, consensus, file, ctrl, guest, output, sync_type, faults>>

\* The type invariant.
TypeOK ==
  /\ pc \in [Side -> PLabels \cup SLabels]
  /\ pc["P"] \in PLabels /\ pc["S"] \in SLabels
  /\ alive \in [Side -> BOOLEAN]
  /\ lock \in [Side -> {"free", "colo", "main"}]
  /\ running \in [Side -> BOOLEAN]
  /\ state \in [Side -> {"COLO", "COMPLETED"}]
  /\ failover_state \in [Side -> {"NONE", "REQUEST", "COMPLETED", "RELAUNCH"}]
  /\ sem \in [Side -> 0 .. 1]
  /\ shut \in [Side -> BOOLEAN]
  /\ sync_type \in {"CHECK_IDLE_SYNC", "STATIC_TIME_SYNC"}
  /\ req \in 0 .. MaxEpoch
  /\ checkpoint_req \in {"WAIT", "READY"}
  /\ received \in BOOLEAN /\ disable_apply \in BOOLEAN
  /\ vmstate_loading \in BOOLEAN /\ taken_over \in BOOLEAN
  /\ stream \in {"empty", "HOOK", "EOS"} /\ file_error \in BOOLEAN
  /\ rdma_buffer \in [Side -> Messages \cup {NoMsg}]
  /\ rbuf \in [Side -> Messages \cup {NoMsg}]
  /\ posted \in [Side -> BOOLEAN]
  /\ sending \in [Side -> BOOLEAN] /\ unacked \in [Side -> BOOLEAN]
  /\ cq \in [Side -> Seq(BOOLEAN)]
  /\ qp_error \in [Side -> BOOLEAN]
  /\ epoch \in 0 .. MaxEpoch /\ ram \in Torn .. MaxEpoch /\ dev \in Torn .. MaxEpoch
  /\ loaded \in 0 .. MaxEpoch
  /\ plug \in [queue : Seq(Nat), cur : Nat, last : Nat]
  /\ released \subseteq 1 .. MaxEpoch + 1
  /\ faults \in 0 .. MaxFaults

Active(x) == failover_state[x] # "NONE"
Goto(x, l) == pc' = [pc EXCEPT ![x] = l]
At(x, l) == alive[x] /\ pc[x] = l
Fault == faults < MaxFaults /\ faults' = faults + 1

\* Both threads are at the top of their loops; the primary guest runs, the
\* secondary one starts with the first checkpoint.
Init ==
  /\ pc = [x \in Side |-> "loop"]
  /\ alive = [x \in Side |-> TRUE]
  /\ lock = [x \in Side |-> "free"]
  /\ running = [x \in Side |-> x = "P"]
  /\ state = [x \in Side |-> "COLO"]
  /\ failover_state = [x \in Side |-> "NONE"]
  /\ sem = [x \in Side |-> 0]
  /\ shut = [x \in Side |-> FALSE]
  /\ sync_type \in SyncTypes
  /\ req = 0 /\ checkpoint_req = "WAIT" /\ received = FALSE /\ disable_apply = FALSE
  /\ vmstate_loading = FALSE /\ taken_over = FALSE
  /\ stream = "empty" /\ file_error = FALSE
  /\ rdma_buffer = [x \in Side |-> NoMsg]
  /\ rbuf = [x \in Side |-> NoMsg]
  /\ posted = [x \in Side |-> FALSE]
  /\ sending = [x \in Side |-> FALSE]
  /\ unacked = [x \in Side |-> FALSE]
  /\ cq = [x \in Side |-> <<>>]
  /\ qp_error = [x \in Side |-> FALSE]
  /\ epoch = 0 /\ ram = 0 /\ dev = 0 /\ loaded = 0
  /\ plug = [queue |-> <<>>, cur |-> 0, last |-> 0]
  /\ released = {}
  /\ faults = 0

-----------------------------------------------------------------------------
(* The control channel: mc_rdma_put_colo_ctrl_buffer and its get.           *)

\* ibv_post_send of what the caller has put into the send area.  On a queue
\* pair in error it completes at once.
Post(x) ==
  /\ alive[x] /\ pc[x] \in DOMAIN PutMsg /\ ~posted[x]
  /\ posted' = [posted EXCEPT ![x] = TRUE]
  /\ rdma_buffer' = [rdma_buffer EXCEPT ![x] = PutMsg[pc[x]]]
  /\ sending' = [sending EXCEPT ![x] = ~qp_error[x]]
  /\ cq' = [cq EXCEPT ![x] = IF qp_error[x] THEN Append(@, FALSE) ELSE @]
  /\ UNCHANGED <<threads, consensus, file, guest, output, sync_type, faults,
                 rbuf, unacked, qp_error>>

\* The polling loop of put takes whatever completion is first in the queue.
Polled(x) ==
  /\ alive[x] /\ posted[x] /\ cq[x] # <<>>
  /\ posted' = [posted EXCEPT ![x] = FALSE]
  /\ cq' = [cq EXCEPT ![x] = Tail(@)]
  /\ UNCHANGED <<rdma_buffer, rbuf, sending, unacked, qp_error>>

\* The polling loop of get, the copy to the send area and the next receive;
\* an error returns before the copy.
Got(x) ==
  /\ alive[x] /\ pc[x] \in DOMAIN GetMsg /\ cq[x] # <<>>
  /\ cq' = [cq EXCEPT ![x] = Tail(@)]
  /\ rdma_buffer' = [rdma_buffer EXCEPT ![x] = IF Head(cq[x]) THEN rbuf[x] ELSE @]
  /\ rbuf' = [rbuf EXCEPT ![x] = IF Head(cq[x]) THEN NoMsg ELSE @]
  /\ UNCHANGED <<posted, sending, unacked, qp_error>>

\* The adapter delivers the send area into a posted receive buffer.  Without
\* one it tries again for ever (rnr_retry = 7).
Land(x) ==
  /\ sending[x] /\ \A y \in Side : alive[y] /\ ~qp_error[y]
  /\ rbuf[Peer(x)] = NoMsg
  /\ rbuf' = [rbuf EXCEPT ![Peer(x)] = rdma_buffer[x]]
  /\ cq' = [cq EXCEPT ![Peer(x)] = Append(@, TRUE)]
  /\ sending' = [sending EXCEPT ![x] = FALSE]
  /\ unacked' = [unacked EXCEPT ![x] = TRUE]
  /\ UNCHANGED <<threads, consensus, file, guest, output, sync_type, faults,
                 rdma_buffer, posted, qp_error>>

\* The acknowledgement completes the send.
Ack(x) ==
  /\ unacked[x] /\ \A y \in Side : alive[y]
  /\ unacked' = [unacked EXCEPT ![x] = FALSE]
  /\ cq' = [cq EXCEPT ![x] = Append(@, TRUE)]
  /\ UNCHANGED <<threads, consensus, file, guest, output, sync_type, faults,
                 rdma_buffer, rbuf, posted, sending, qp_error>>

\* The peer is gone: the send fails after its retries, and the posted receive
\* is flushed.  A side that only waits to receive notices nothing.
RetriesExceeded(x) ==
  /\ alive[x] /\ ~alive[Peer(x)] /\ (sending[x] \/ unacked[x])
  /\ qp_error' = [qp_error EXCEPT ![x] = TRUE]
  /\ cq' = [cq EXCEPT ![x] =
                @ \o <<FALSE>> \o (IF rbuf[x] = NoMsg THEN <<FALSE>> ELSE <<>>)]
  /\ sending' = [sending EXCEPT ![x] = FALSE]
  /\ unacked' = [unacked EXCEPT ![x] = FALSE]
  /\ UNCHANGED <<threads, consensus, file, guest, output, sync_type, faults,
                 rdma_buffer, rbuf, posted>>

-----------------------------------------------------------------------------
(* The primary: colo_process_checkpoint, colo_do_checkpoint_transaction.    *)

\* The part of the state that steps of the primary thread between two
\* operations leave alone.
PrimaryKeeps == UNCHANGED <<alive, state, failover_state, sync_type, ctrl>>

\* The head of the loop.
PLoop ==
  /\ At("P", "loop")
  /\ Goto("P", IF state["P"] # "COLO" \/ Active("P") THEN "sem" ELSE "wait")
  /\ PrimaryKeeps
  /\ UNCHANGED <<lock, running, sem, consensus, file, guest, output, faults>>

\* wait_guest_finish or static_timing_sync, then the CHECKPOINT request.
PWait ==
  /\ At("P", "wait") /\ epoch < MaxEpoch
  /\ req' = req + 1
  /\ Goto("P", "req")
  /\ PrimaryKeeps
  /\ UNCHANGED <<lock, running, sem, checkpoint_req, received, disable_apply,
                 file, guest, output, faults>>

\* proxy_on_checkpoint_req returns when the own server has applied the entry.
PReq ==
  /\ At("P", "req")
  /\ Goto("P", "stop")
  /\ PrimaryKeeps
  /\ UNCHANGED <<lock, running, sem, consensus, file, guest, output, faults>>

\* Stops the guest with the iothread lock, unless a failover was requested.
PStop ==
  /\ At("P", "stop") /\ lock["P"] = "free"
  /\ IF Active("P")
     THEN Goto("P", "sem") /\ UNCHANGED running
     ELSE Goto("P", "check") /\ running' = [running EXCEPT !["P"] = FALSE]
  /\ PrimaryKeeps
  /\ UNCHANGED <<lock, sem, consensus, file, guest, output, faults>>

\* The second look at the failover state.
PCheck ==
  /\ At("P", "check")
  /\ Goto("P", IF Active("P") THEN "sem" ELSE "repl")
  /\ PrimaryKeeps
  /\ UNCHANGED <<lock, running, sem, consensus, file, guest, output, faults>>

\* replication_do_checkpoint_all, which may fail.
PReplication ==
  /\ At("P", "repl") /\ lock["P"] = "free"
  /\ \/ Goto("P", "live") /\ UNCHANGED faults
     \/ Goto("P", "sem") /\ Fault
  /\ PrimaryKeeps
  /\ UNCHANGED <<lock, running, sem, consensus, file, guest, output>>

\* qemu_savevm_live_state is called with the lock held.
PLive ==
  /\ At("P", "live") /\ lock["P"] = "free"
  /\ lock' = [lock EXCEPT !["P"] = "colo"]
  /\ Goto("P", "getBmap")
  /\ PrimaryKeeps
  /\ UNCHANGED <<running, sem, consensus, file, guest, output, faults>>

\* Where a put of the primary continues.  The results of the bitmap and of the
\* device state are ignored, but not an error of the QEMUFile.  When the size is
\* not sent, the transaction gives up, but it returns the 0 of
\* qemu_save_device_state: the loop goes on, with the guest stopped.
PAfterPut(l, ok) ==
  CASE l = "putPBmap" -> "getHash"
    [] l = "putSize"  -> IF ok THEN "putValue" ELSE "loop"
    [] l = "putValue" -> IF ok THEN "putBuf" ELSE "loop"
    [] l = "putBuf"   -> IF file_error THEN "sem" ELSE "getLoaded"

PPut ==
  /\ Polled("P")
  /\ Goto("P", PAfterPut(pc["P"], Head(cq["P"])))
  /\ UNCHANGED <<alive, lock, running, state, failover_state, sem, consensus, file,
                 guest, output, sync_type, faults>>

\* Where a get of the primary continues: ram_save_complete ignores the results,
\* mc_receive_check_message looks at the buffer, and another message than LOADED
\* makes the transaction give up with the result 0 as well.
PAfterGet(l) ==
  CASE l = "getBmap"   -> "putPBmap"
    [] l = "getHash"   -> "write"
    [] l = "getLoaded" -> IF rdma_buffer'["P"] = "LOADED" THEN "barrier" ELSE "loop"

PGet ==
  /\ Got("P")
  /\ Goto("P", PAfterGet(pc["P"]))
  /\ UNCHANGED <<alive, lock, running, state, failover_state, sem, consensus, file,
                 guest, output, sync_type, faults>>

\* The stream between the sides works; a side that has shut it down, or that is
\* gone, cuts it.
Connected == alive["S"] /\ \A x \in Side : ~shut[x]
Cut == \E x \in Side : shut[x]

\* mc_rdma_registration_start: the HOOK that makes the secondary serve the
\* transfer is flushed into the stream, or lost.
PHook ==
  /\ At("P", "write")
  /\ stream' = IF Connected THEN "HOOK" ELSE stream
  /\ Goto("P", "writing")
  /\ PrimaryKeeps
  /\ UNCHANGED <<lock, running, sem, consensus, shut, file_error, guest, output, faults>>

\* Pages that differ are written into the memory of the secondary.  It is
\* registered as a whole (pin_all), so the secondary does not take part.
PWrite ==
  /\ At("P", "writing") /\ alive["S"]
  /\ ram' = Torn
  /\ PrimaryKeeps
  /\ UNCHANGED <<pc, lock, running, sem, consensus, file, epoch, dev, loaded,
                 vmstate_loading, taken_over, output, faults>>

\* mc_rdma_registration_stop, after the last page: REGISTER_FINISHED is sent, and
\* has arrived, once the secondary has said READY.  A secondary that is gone gives
\* an error, one that does not answer is waited for.
PFinish ==
  /\ At("P", "writing")
  /\ \/ /\ At("S", "serve")
        /\ ram' = epoch + 1
        /\ UNCHANGED file_error
     \/ /\ ~alive["S"]
        /\ file_error' = TRUE
        /\ UNCHANGED ram
  /\ Goto("P", "flush")
  /\ PrimaryKeeps
  /\ UNCHANGED <<lock, running, sem, consensus, shut, stream, epoch, dev, loaded,
                 vmstate_loading, taken_over, output, faults>>

\* The end of the stream is flushed, the device state is saved, and the lock is
\* released.  A write to a stream that a side has shut down fails at once or is
\* lost; saving the devices may fail.
PFlush ==
  /\ At("P", "flush")
  /\ epoch' = epoch + 1
  /\ IF Connected
     THEN stream' = "EOS" /\ UNCHANGED file_error
     ELSE UNCHANGED stream /\ file_error' \in {file_error \/ shut["P"], TRUE}
  /\ lock' = [lock EXCEPT !["P"] = "free"]
  /\ \/ Goto("P", "putSize") /\ UNCHANGED faults
     \/ Goto("P", "sem") /\ Fault
  /\ PrimaryKeeps
  /\ UNCHANGED <<running, sem, consensus, shut, ram, dev, loaded, vmstate_loading,
                 taken_over, output>>

\* mc_start_buffer: the packets so far become the last epoch of the plug.  Its
\* result is ignored.
PBarrier ==
  /\ At("P", "barrier")
  /\ \/ plug' = [plug EXCEPT !.cur = 0, !.last = plug.cur] /\ UNCHANGED faults
     \/ Fault /\ UNCHANGED plug
  /\ Goto("P", "vmStart")
  /\ PrimaryKeeps
  /\ UNCHANGED <<lock, running, sem, consensus, file, guest, released>>

PVmStart ==
  /\ At("P", "vmStart") /\ lock["P"] = "free"
  /\ running' = [running EXCEPT !["P"] = TRUE]
  /\ Goto("P", "release")
  /\ PrimaryKeeps
  /\ UNCHANGED <<lock, sem, consensus, file, guest, output, faults>>

\* Mutant of PRelease: everything in the plug leaves.
PRelease_All ==
  /\ At("P", "release")
  /\ released' = released \cup {plug.queue[i] : i \in 1 .. Len(plug.queue)}
  /\ plug' = [queue |-> <<>>, cur |-> 0, last |-> 0]
  /\ Goto("P", "loop")
  /\ PrimaryKeeps
  /\ UNCHANGED <<lock, running, sem, consensus, file, guest, faults>>

\* mc_flush_oldest_buffer: as many packets leave as the last epoch has.
PRelease ==
  /\ At("P", "release")
  /\ \/ /\ released' = released \cup {plug.queue[i] : i \in 1 .. plug.last}
        /\ plug' = [plug EXCEPT !.queue = SubSeq(@, plug.last + 1, Len(@)), !.last = 0]
        /\ UNCHANGED faults
     \/ Fault /\ UNCHANGED output
  /\ Goto("P", "loop")
  /\ PrimaryKeeps
  /\ UNCHANGED <<lock, running, sem, consensus, file, guest>>

\* The exit of the COLO thread waits for the failover; the migration thread
\* then starts the guest.
PSem ==
  /\ At("P", "sem") /\ sem["P"] > 0
  /\ sem' = [sem EXCEPT !["P"] = @ - 1]
  /\ Goto("P", "exit")
  /\ PrimaryKeeps
  /\ UNCHANGED <<lock, running, consensus, file, guest, output, faults>>

PExit ==
  /\ At("P", "exit") /\ lock["P"] = "free"
  /\ running' = [running EXCEPT !["P"] = TRUE]
  /\ Goto("P", "done")
  /\ PrimaryKeeps
  /\ UNCHANGED <<lock, sem, consensus, file, guest, output, faults>>

\* The primary guest sends a packet, which waits in the plug.  Its number is
\* that of the checkpoint that will contain it; one packet per checkpoint.
Emit ==
  /\ alive["P"] /\ running["P"]
  /\ epoch + 1 \notin released \cup {plug.queue[i] : i \in 1 .. Len(plug.queue)}
  /\ plug' = [plug EXCEPT !.queue = Append(@, epoch + 1), !.cur = @ + 1]
  /\ UNCHANGED <<threads, consensus, file, ctrl, guest, released, sync_type, faults>>

-----------------------------------------------------------------------------
(* The secondary: colo_process_incoming_thread.                             *)

SecondaryKeeps == UNCHANGED <<alive, state, failover_state, sync_type, ctrl, output>>

SLoop ==
  /\ At("S", "loop")
  /\ Goto("S", IF state["S"] # "COLO" THEN "out" ELSE "wait")
  /\ SecondaryKeeps
  /\ UNCHANGED <<lock, running, sem, consensus, file, guest, faults>>

\* proxy_wait_checkpoint_req, called again and again by wait_guest_finish, and
\* once, with its result ignored, for the other sync types.
SPoll ==
  /\ At("S", "wait")
  /\ checkpoint_req' = "WAIT"
  /\ IF sync_type = "CHECK_IDLE_SYNC"
     THEN /\ checkpoint_req = "READY"
          /\ received' = TRUE
          /\ UNCHANGED pc
     ELSE Goto("S", "disable") /\ UNCHANGED received
  /\ SecondaryKeeps
  /\ UNCHANGED <<lock, running, sem, req, disable_apply, file, guest, faults>>

\* Mutant of SWaitDone: received_sync_req survives the call.
SWaitDone_Keep ==
  /\ At("S", "wait") /\ received
  /\ Goto("S", "disable")
  /\ SecondaryKeeps
  /\ UNCHANGED <<lock, running, sem, consensus, file, guest, faults>>

\* wait_guest_finish returns once it has the request (and its guest is idle).
SWaitDone ==
  /\ At("S", "wait") /\ received
  /\ received' = FALSE
  /\ Goto("S", "disable")
  /\ SecondaryKeeps
  /\ UNCHANGED <<lock, running, sem, req, checkpoint_req, disable_apply, file, guest,
                 faults>>

\* Stop applying entries; a failover request is looked at afterwards.
SDisable ==
  /\ At("S", "disable")
  /\ disable_apply' = TRUE
  /\ Goto("S", IF Active("S") THEN "out" ELSE "stop")
  /\ SecondaryKeeps
  /\ UNCHANGED <<lock, running, sem, req, checkpoint_req, received, file, guest, faults>>

\* Mutant of SStop: the guest goes on while its state is replaced.
SStop_GoesOn ==
  /\ At("S", "stop") /\ lock["S"] = "free"
  /\ Goto("S", "resume")
  /\ SecondaryKeeps
  /\ UNCHANGED <<running, lock, sem, consensus, file, guest, faults>>

SStop ==
  /\ At("S", "stop") /\ lock["S"] = "free"
  /\ running' = [running EXCEPT !["S"] = FALSE]
  /\ Goto("S", "resume")
  /\ SecondaryKeeps
  /\ UNCHANGED <<lock, sem, consensus, file, guest, faults>>

\* Mutant of SResume: entries are not applied any more.
SResume_Forgotten ==
  /\ At("S", "resume")
  /\ Goto("S", "putBmap")
  /\ SecondaryKeeps
  /\ UNCHANGED <<lock, running, sem, consensus, file, guest, faults>>

SResume ==
  /\ At("S", "resume")
  /\ disable_apply' = FALSE
  /\ Goto("S", "putBmap")
  /\ SecondaryKeeps
  /\ UNCHANGED <<lock, running, sem, req, checkpoint_req, received, file, guest, faults>>

\* Mutant of SPut: the lock is kept after the guest has started.
SPut_KeepLock ==
  /\ Polled("S")
  /\ running' = [running EXCEPT !["S"] = @ \/ (pc["S"] = "putLoaded" /\ Head(cq["S"]))]
  /\ Goto("S", CASE pc["S"] = "putBmap" -> "getPBmap"
                 [] pc["S"] = "putHash" -> "load"
                 [] pc["S"] = "putLoaded" -> IF Head(cq["S"]) THEN "loop" ELSE "out")
  /\ UNCHANGED <<alive, lock, state, failover_state, sem, consensus, file, guest,
                 output, sync_type, faults>>

\* Puts of the secondary: backup_prepare_bitmap ignores the results.  LOADED is
\* sent with the iothread lock held, which the guest is started with; an error
\* leaves the loop without releasing it.
SPut ==
  /\ Polled("S")
  /\ IF pc["S"] = "putLoaded" /\ Head(cq["S"])
     THEN /\ running' = [running EXCEPT !["S"] = TRUE]
          /\ lock' = [lock EXCEPT !["S"] = "free"]
          /\ Goto("S", "loop")
     ELSE /\ UNCHANGED <<running, lock>>
          /\ Goto("S", CASE pc["S"] = "putBmap" -> "getPBmap"
                         [] pc["S"] = "putHash" -> "load"
                         [] pc["S"] = "putLoaded" -> "out")
  /\ UNCHANGED <<alive, state, failover_state, sem, consensus, file, guest, output,
                 sync_type, faults>>

\* Mutant of SAfterGet: the value of the size is not received.
SAfterGet_NoValue(l, ok) ==
  CASE l = "getPBmap" -> "putHash"
    [] l = "getSize"  -> IF rdma_buffer'["S"] = "SIZE" THEN "getBuf" ELSE "out"
    [] l = "getBuf"   -> IF ok THEN "device" ELSE "out"

\* Where a get of the secondary continues.
SAfterGet(l, ok) ==
  CASE l = "getPBmap" -> "putHash"
    [] l = "getSize"  -> IF rdma_buffer'["S"] = "SIZE" THEN "getValue" ELSE "out"
    [] l = "getValue" -> "getBuf"
    [] l = "getBuf"   -> IF ok THEN "device" ELSE "out"

\* Gets of the secondary.  backup_prepare_bitmap takes the result for a size: an
\* error, -1, makes the memcpy run over the end of memory.
SGet ==
  /\ Got("S")
  /\ alive' = [alive EXCEPT !["S"] = Head(cq["S"]) \/ pc["S"] # "getPBmap"]
  /\ running' = [running EXCEPT !["S"] = @ /\ alive'["S"]]
  /\ Goto("S", SAfterGet(pc["S"], Head(cq["S"])))
  /\ UNCHANGED <<lock, state, failover_state, sem, consensus, file, guest, output,
                 sync_type, faults>>

\* qemu_loadvm_state_main up to the HOOK.  The byte that a cut stream yields is
\* that of QEMU_VM_EOF, so then the function returns 0 and the loop goes on.
SLoad ==
  /\ At("S", "load")
  /\ \/ stream = "HOOK" /\ stream' = "empty" /\ Goto("S", "ready")
     \/ stream # "HOOK" /\ Cut /\ UNCHANGED stream /\ Goto("S", "getSize")
  /\ SecondaryKeeps
  /\ UNCHANGED <<lock, running, sem, consensus, shut, file_error, guest, faults>>

\* mc_rdma_registration_handle, which does not look at the stream: READY is sent;
\* that fails if the primary is gone.
SReady ==
  /\ At("S", "ready")
  /\ Goto("S", IF alive["P"] THEN "serve" ELSE "out")
  /\ SecondaryKeeps
  /\ UNCHANGED <<lock, running, sem, consensus, file, guest, faults>>

\* It returns when REGISTER_FINISHED has arrived, which is when the primary has left
\* the page transfer.  If the primary dies in it, nothing tells the thread.
SServe ==
  /\ At("S", "serve") /\ pc["P"] # "writing"
  /\ Goto("S", "tail")
  /\ SecondaryKeeps
  /\ UNCHANGED <<lock, running, sem, consensus, file, guest, faults>>

\* The rest of qemu_loadvm_state_main: the flags that a cut stream yields here are
\* no RAM_SAVE_FLAG_EOS, and ram_load fails.
STail ==
  /\ At("S", "tail")
  /\ \/ stream = "EOS" /\ stream' = "empty" /\ Goto("S", "getSize")
     \/ stream # "EOS" /\ Cut /\ UNCHANGED stream /\ Goto("S", "out")
  /\ SecondaryKeeps
  /\ UNCHANGED <<lock, running, sem, consensus, shut, file_error, guest, faults>>

\* From the lock to the message LOADED: reset, device state, block replication.
\* An error releases the lock while vmstate_loading is still set.  A relaunch
\* leaves the loop with the lock held.
SDevice ==
  /\ At("S", "device") /\ lock["S"] = "free"
  /\ \/ /\ dev' = epoch /\ loaded' = epoch
        /\ lock' = [lock EXCEPT !["S"] = "colo"]
        /\ failover_state' = [failover_state EXCEPT !["S"] =
                                IF @ = "RELAUNCH" THEN "REQUEST" ELSE @]
        /\ Goto("S", IF failover_state["S"] = "RELAUNCH" THEN "out" ELSE "putLoaded")
        /\ UNCHANGED <<vmstate_loading, faults>>
     \/ /\ Fault
        /\ dev' \in {Torn, epoch} /\ vmstate_loading' = TRUE
        /\ Goto("S", "out")
        /\ UNCHANGED <<loaded, lock, failover_state>>
  /\ UNCHANGED <<alive, running, state, sem, consensus, file, ctrl, epoch, ram,
                 taken_over, output, sync_type>>

\* The exit: vmstate_loading is cleared, then the thread waits for the failover.
SOut ==
  /\ At("S", "out")
  /\ vmstate_loading' = FALSE
  /\ Goto("S", "sem")
  /\ SecondaryKeeps
  /\ UNCHANGED <<lock, running, sem, consensus, file, epoch, ram, dev, loaded,
                 taken_over, faults>>

SSem ==
  /\ At("S", "sem") /\ sem["S"] > 0
  /\ sem' = [sem EXCEPT !["S"] = @ - 1]
  /\ Goto("S", "done")
  /\ SecondaryKeeps
  /\ UNCHANGED <<lock, running, consensus, file, guest, faults>>

\* The secondary's consensus server applies the CHECKPOINT entry.
Apply ==
  /\ alive["S"] /\ req > 0 /\ ~disable_apply
  /\ req' = req - 1
  /\ checkpoint_req' = "READY"
  /\ UNCHANGED <<threads, received, disable_apply, file, ctrl, guest, output,
                 sync_type, faults>>

-----------------------------------------------------------------------------
(* The main loops and the environment.                                      *)

\* Mutant of Request: the state is set without the compare and exchange.
Request_Again(x) ==
  /\ alive[x] /\ lock[x] = "free"
  /\ failover_state' = [failover_state EXCEPT ![x] = "REQUEST"]
  /\ UNCHANGED <<pc, alive, lock, running, state, sem, consensus, file, ctrl, guest,
                 output, sync_type, faults>>

\* x-colo-lost-heartbeat: failover_request_active schedules the bottom half.
Request(x) ==
  /\ alive[x] /\ lock[x] = "free" /\ failover_state[x] = "NONE"
  /\ failover_state' = [failover_state EXCEPT ![x] = "REQUEST"]
  /\ UNCHANGED <<pc, alive, lock, running, state, sem, consensus, file, ctrl, guest,
                 output, sync_type, faults>>

\* colo_failover_bh.  It gives up while a VM state is being loaded.  That of the
\* secondary goes on in the incoming coroutine, which joins the COLO thread with
\* the lock held.
FailoverBh(x) ==
  /\ alive[x] /\ lock[x] = "free" /\ failover_state[x] = "REQUEST"
  /\ running' = [running EXCEPT ![x] = FALSE]
  /\ IF x = "S" /\ vmstate_loading
     THEN /\ failover_state' = [failover_state EXCEPT ![x] = "RELAUNCH"]
          /\ UNCHANGED <<state, shut, sem, lock>>
     ELSE /\ failover_state' = [failover_state EXCEPT ![x] = "COMPLETED"]
          /\ state' = [state EXCEPT ![x] = "COMPLETED"]
          /\ shut' = [shut EXCEPT ![x] = TRUE]
          /\ sem' = [sem EXCEPT ![x] = @ + 1]
          /\ lock' = [lock EXCEPT ![x] = IF x = "S" THEN "main" ELSE @]
  /\ UNCHANGED <<pc, alive, consensus, stream, file_error, ctrl, guest, output,
                 sync_type, faults>>

\* qemu_thread_join returns, and the guest of the secondary is started.
Join ==
  /\ alive["S"] /\ lock["S"] = "main" /\ pc["S"] = "done"
  /\ lock' = [lock EXCEPT !["S"] = "free"]
  /\ running' = [running EXCEPT !["S"] = TRUE]
  /\ taken_over' = TRUE
  /\ UNCHANGED <<pc, alive, state, failover_state, sem, consensus, file, ctrl, epoch,
                 ram, dev, loaded, vmstate_loading, output, sync_type, faults>>

\* The process ends, and the peer sees the end of the stream, or the host does.
Crash(x) ==
  /\ alive[x] /\ Fault
  /\ alive' = [alive EXCEPT ![x] = FALSE]
  /\ running' = [running EXCEPT ![x] = FALSE]
  /\ \E ended \in BOOLEAN : shut' = [shut EXCEPT ![x] = @ \/ ended]
  /\ UNCHANGED <<pc, lock, state, failover_state, sem, consensus, stream, file_error,
                 ctrl, guest, output, sync_type>>

Primary == \/ PLoop \/ PWait \/ PReq \/ PStop \/ PCheck \/ PReplication \/ PLive
           \/ PPut \/ PGet \/ PHook \/ PWrite \/ PFinish \/ PFlush \/ PBarrier
           \/ PVmStart \/ PRelease \/ PSem \/ PExit \/ Post("P")
Secondary == \/ SLoop \/ SPoll \/ SWaitDone \/ SDisable \/ SStop \/ SResume
             \/ SPut \/ SGet \/ SLoad \/ SReady \/ SServe \/ STail \/ SDevice
             \/ SOut \/ SSem \/ Post("S")
Adapter(x) == Land(x) \/ Ack(x) \/ RetriesExceeded(x)

Next ==
  \/ Primary \/ Secondary \/ Apply \/ Join \/ Emit
  \/ \E x \in Side : Adapter(x) \/ Request(x) \/ FailoverBh(x) \/ Crash(x)

Spec == Init /\ [][Next]_vars

\* The primary is not in wait_guest_finish, which returns only when the guest is
\* idle (wait_guest_finish of the secondary is bounded by BACKUP_END_IDLE).
PrimaryGoesOn == pc["P"] # "wait" /\ Primary

\* Threads that can go on do, mutexes are handed over, the adapter finishes what
\* is posted, and committed entries are applied.  The primary guest need not
\* become idle, nobody has to ask for a failover, and no fault has to happen.
FairSpec ==
  /\ Spec
  /\ WF_vars(PrimaryGoesOn) /\ WF_vars(Secondary) /\ WF_vars(Apply) /\ WF_vars(Join)
  /\ \A x \in Side : WF_vars(Adapter(x)) /\ SF_vars(FailoverBh(x))

-----------------------------------------------------------------------------
(* Properties.                                                              *)

\* What a thread has just received when it is at this place.
Received(l) ==
  CASE l = "putPBmap" -> "BITMAP"
    [] l = "write"    -> "HASH"
    [] l = "barrier"  -> "LOADED"
    [] l = "putHash"  -> "PRIMARY_BITMAP"
    [] l = "getValue" -> "SIZE"
    [] l = "getBuf"   -> "VALUE"
    [] l = "device"   -> "BUFFER"
    [] OTHER          -> NoMsg

\* Sends and receives share a completion queue, so put may poll the completion
\* of a receive and get that of a send (mc-rdma.c:2482 and 2512).  Still every get
\* finds the message it is meant for, and the send area is only written when no
\* send is in flight, unless the peer has crashed.
CtrlInStep ==
  \A x \in Side :
    /\ ~posted[x] => ~sending[x]
    /\ (Received(pc[x]) # NoMsg /\ ~posted[x] /\ ~qp_error[x])
         => rdma_buffer[x] = Received(pc[x])

\* The completion queue is created for one completion (mc-rdma.c:2078).
CompletionBound == \A x \in Side : Len(cq[x]) <= 1

\* Output commit: a packet leaves the plug only when the secondary has loaded the
\* checkpoint that contains it (colo.c:622 to 661), whatever fails.
OutputCommit == \A n \in released : n <= loaded

\* Until a failover, the secondary guest only runs with memory and devices of the
\* same checkpoint: pages are written between vm_stop_force_state and vm_start of
\* the other process (colo.c:1022 and 1163).
RunsConsistent == (running["S"] /\ ~taken_over) => (ram = dev /\ dev # Torn)

\* wait_guest_finish polls the request flag again after it has the request
\* (colo.c:435); it never swallows the request of the next checkpoint.
NoRequestLost ==
  sync_type = "CHECK_IDLE_SYNC" => ~(received /\ checkpoint_req = "READY")

\* "Relaunch the failover process, again" (failover.h:22): a failover that the
\* bottom half has put off because of vmstate_loading is launched again.
RelaunchHappens ==
  failover_state["S"] = "RELAUNCH" ~> (failover_state["S"] # "RELAUNCH" \/ ~alive["S"])

\* Without faults and failovers, every checkpoint that the primary asks for is
\* loaded by the secondary (colo.c:493 to 622), also when the request is applied
\* late or a thread waits for a message with the iothread lock held.
CheckpointsComplete ==
  \A n \in 0 .. MaxEpoch - 1 :
    (pc["P"] = "req" /\ epoch = n)
      ~> (loaded > n \/ faults > 0 \/ \E x \in Side : Active(x))

\* A requested failover is handled by the bottom half, although the COLO thread
\* waits for the peer with the iothread lock held (colo.c:541 and 1090),
\* unless the peer has failed or fails over as well.
FailoverHandled ==
  \A x \in Side :
    (failover_state[x] = "REQUEST")
      ~> (failover_state[x] # "REQUEST" \/ faults > 0 \/ Active(Peer(x)))

\* A failover that is requested after the primary has crashed starts the guest of
\* the secondary: the bottom half shuts the files down so that the COLO thread does
\* not block (colo.c:103).
TakeoverCompletes ==
  (~alive["P"] /\ failover_state["S"] = "REQUEST") ~> (taken_over \/ ~alive["S"])

\* A failover never starts a guest whose state is half loaded (colo.c:78).
TakeoverConsistent == taken_over => (ram = dev /\ dev # Torn)
=============================================================================
