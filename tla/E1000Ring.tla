----------------------------- MODULE E1000Ring -----------------------------
(***************************************************************************)
(* The fast path of the e1000 card on a server (qemu/hw/net/e1000.c), and  *)
(* the requests that it makes (rdma-paxos/src/proxy/proxy.c).  Packets     *)
(* from the network wait in a ring.  The consensus thread submits them to  *)
(* the replicated log and notifies the main loop through a pipe; the main  *)
(* loop then hands them to the guest.  Three positions move around the     *)
(* ring, and two flags tell whether the first has wrapped around before    *)
(* the second, and the second before the third.                            *)
(*                                                                         *)
(* Packets are numbered in the order in which they arrive.  The spinlock   *)
(* list_lock is held by the main loop while it is at "drain" and by the    *)
(* consensus thread while it is at "notify"; every other critical section  *)
(* is one step.                                                            *)
(*                                                                         *)
(* The ring has limits that the code does not check.  The history variable *)
(* void says that one of them was met: a packet was stored in a full ring, *)
(* the first position came around in batches, a request was lost with the  *)
(* leadership, or the entry of another server was counted as an own one.   *)
(* The model goes on from there as the code does.                          *)
(***************************************************************************)
EXTENDS Integers, Sequences

CONSTANTS RingLen,        \* iov_list_maxlen
          RxBufs,         \* receive descriptors of the guest
          ReadMax,        \* notifications that one read takes from the pipe
          PipeMax,        \* notifications that the pipe holds
          BatchMax,       \* packets of a batch that IO_BUF_SIZE holds
          Modes,          \* the values of the batching option
          MaxPackets,     \* bound: packets in a behaviour
          MaxVoid,        \* bound: packets in a behaviour that has met a limit
          MaxCheckpoints, \* bound: requests before the last checkpoint request
          MaxRequests,    \* bound: requests
          MaxForeign      \* bound: requests counted before one of another server

ASSUME RingAssumption ==
  /\ RingLen \in Nat \ {0}
  /\ RxBufs \in Nat \ {0}
  /\ ReadMax \in Nat \ {0}
  /\ PipeMax \in Nat \ {0}
  /\ BatchMax \in Nat
  /\ Modes \subseteq BOOLEAN
  /\ MaxPackets \in Nat /\ MaxVoid \in Nat
  /\ MaxCheckpoints \in Nat /\ MaxRequests \in Nat /\ MaxForeign \in Nat

VARIABLES
  iov_list,        \* the ring: the number of the packet in each slot
  buffer_head, consensus_head, buffer_tail,
  buffer_wrap, consensus_wrap,
  batching,        \* proxy_get_batching()
  leader,          \* is_leader()
  cpc,             \* the consensus thread: "scan", "mirror", "wait", "advance" or
                   \* "notify"; "dead" when the process has crashed
  cur,             \* its copies: the first slot and the number of packets
  mine,            \* its cur_rec: the number of its last request
  mpc,             \* the main loop: "idle", "receive", "read" or "drain"
  pipe,            \* notifications in the pipe
  rxbufs,          \* free receive descriptors of the guest
  submitted,       \* the packets of each request of this server: proxy->cur_rec
                   \* is the number of requests
  appended,        \* how many of them are in the log
  applied,         \* how many of them are applied, or lost
  highest_rec,     \* proxy->highest_rec
  ckpt,            \* the last request of the COLO thread
  stalled,         \* history: the last rhandler stopped for want of descriptors
  arrived, agreed, delivered, void  \* history: see AgreedQueue

ring == <<iov_list, buffer_head, consensus_head, buffer_tail, buffer_wrap,
          consensus_wrap>>
requests == <<submitted, appended, applied, highest_rec, ckpt>>
history == <<arrived, agreed, delivered, void>>
vars == <<ring, batching, leader, cpc, cur, mine, mpc, pipe, rxbufs, requests, stalled,
          history>>

\* The type invariant.
TypeOK ==
  /\ iov_list \in [0 .. RingLen - 1 -> Nat]
  /\ buffer_head \in 0 .. RingLen - 1
  /\ consensus_head \in 0 .. RingLen - 1
  /\ buffer_tail \in 0 .. RingLen - 1
  /\ buffer_wrap \in 0 .. 1 /\ consensus_wrap \in 0 .. 1
  /\ batching \in BOOLEAN /\ leader \in BOOLEAN
  /\ cpc \in {"scan", "mirror", "wait", "advance", "notify", "dead"}
  /\ cur \in [head : Int, count : Int] /\ mine \in Nat
  /\ mpc \in {"idle", "receive", "read", "drain"}
  /\ pipe \in 0 .. PipeMax /\ rxbufs \in 0 .. RxBufs
  /\ submitted \in Seq(Seq(Nat)) /\ appended \in Nat /\ applied \in Nat
  /\ highest_rec \in Nat /\ ckpt \in Nat
  /\ stalled \in BOOLEAN /\ void \in BOOLEAN
  /\ arrived \in Nat /\ agreed \in Seq(Nat) /\ delivered \in Seq(Nat)

Init ==
  /\ iov_list = [i \in 0 .. RingLen - 1 |-> 0]
  /\ buffer_head = 0 /\ consensus_head = 0 /\ buffer_tail = 0
  /\ buffer_wrap = 0 /\ consensus_wrap = 0
  /\ batching \in Modes /\ leader = FALSE
  /\ cpc = "scan" /\ cur = [head |-> 0, count |-> 0] /\ mine = 0
  /\ mpc = "idle" /\ pipe = 0 /\ rxbufs = RxBufs
  /\ submitted = <<>> /\ appended = 0 /\ applied = 0
  /\ highest_rec = 0 /\ ckpt = 0
  /\ stalled = FALSE /\ void = FALSE
  /\ arrived = 0 /\ agreed = <<>> /\ delivered = <<>>

\* Mutant of Around: off by one.
Around_Late(i) == IF i > RingLen THEN i - RingLen ELSE i

\* A position that has moved on comes back to the beginning.
Around(i) == IF i >= RingLen THEN i - RingLen ELSE i

-----------------------------------------------------------------------------
(* The main loop.  It spins for the lock at "receive" and at "read".        *)

\* A packet arrives at the leader and is copied.
e1000_receive_iov ==
  /\ mpc = "idle" /\ leader
  /\ arrived < IF void THEN MaxVoid ELSE MaxPackets
  /\ mpc' = "receive"
  /\ UNCHANGED <<ring, batching, leader, cpc, cur, mine, pipe, rxbufs, requests,
                 stalled, history>>

\* With the lock it is stored in the ring, whether there is room or not.
Store ==
  /\ mpc = "receive" /\ cpc # "notify"
  /\ iov_list' = [iov_list EXCEPT ![buffer_head] = arrived + 1]
  /\ buffer_head' = Around(buffer_head + 1)
  /\ buffer_wrap' = IF buffer_head + 1 >= RingLen THEN 1 ELSE buffer_wrap
  /\ arrived' = arrived + 1
  /\ void' = \/ void
             \/ arrived - Len(delivered) >= RingLen
             \/ batching /\ buffer_head + 1 >= RingLen
  /\ mpc' = "idle"
  /\ UNCHANGED <<consensus_head, buffer_tail, consensus_wrap, batching, leader, cpc,
                 cur, mine, pipe, rxbufs, requests, stalled, agreed, delivered>>

\* On a server that does not lead, a packet goes straight to the guest.
Bypass ==
  /\ mpc = "idle" /\ ~leader /\ rxbufs > 0
  /\ rxbufs' = rxbufs - 1
  /\ UNCHANGED <<ring, batching, leader, cpc, cur, mine, mpc, pipe, requests, stalled,
                 history>>

\* rhandler reads the pipe, and then takes the lock.
ReadPipe ==
  /\ mpc = "idle" /\ pipe > 0
  /\ pipe' = IF pipe > ReadMax THEN pipe - ReadMax ELSE 0
  /\ mpc' = "read"
  /\ UNCHANGED <<ring, batching, leader, cpc, cur, mine, rxbufs, requests, stalled,
                 history>>

TakeLock ==
  /\ mpc = "read" /\ cpc # "notify"
  /\ mpc' = "drain"
  /\ UNCHANGED <<ring, batching, leader, cpc, cur, mine, pipe, rxbufs, requests,
                 stalled, history>>

\* The condition of its loop.
Waiting == consensus_head > buffer_tail \/ consensus_wrap = 1

\* Mutant of SendToGuest: the flag is not cleared at the end of the ring.
SendToGuest_KeepFlag ==
  /\ mpc = "drain" /\ Waiting /\ rxbufs > 0
  /\ delivered' = Append(delivered, iov_list[buffer_tail])
  /\ rxbufs' = rxbufs - 1
  /\ buffer_tail' = Around(buffer_tail + 1)
  /\ UNCHANGED <<iov_list, buffer_head, consensus_head, buffer_wrap, consensus_wrap,
                 batching, leader, cpc, cur, mine, mpc, pipe, requests, stalled,
                 arrived, agreed, void>>

\* Mutant of SendToGuest: rhandler handles one packet per notification read.
SendToGuest_Once ==
  /\ mpc = "drain" /\ Waiting /\ rxbufs > 0
  /\ delivered' = Append(delivered, iov_list[buffer_tail])
  /\ rxbufs' = rxbufs - 1
  /\ buffer_tail' = Around(buffer_tail + 1)
  /\ consensus_wrap' = IF buffer_tail + 1 >= RingLen THEN 0 ELSE consensus_wrap
  /\ mpc' = "idle" /\ stalled' = FALSE
  /\ UNCHANGED <<iov_list, buffer_head, consensus_head, buffer_wrap, batching, leader,
                 cpc, cur, mine, pipe, requests, arrived, agreed, void>>

\* One round of the loop: the guest gets a packet.
SendToGuest ==
  /\ mpc = "drain" /\ Waiting /\ rxbufs > 0
  /\ delivered' = Append(delivered, iov_list[buffer_tail])
  /\ rxbufs' = rxbufs - 1
  /\ buffer_tail' = Around(buffer_tail + 1)
  /\ consensus_wrap' = IF buffer_tail + 1 >= RingLen THEN 0 ELSE consensus_wrap
  /\ UNCHANGED <<iov_list, buffer_head, consensus_head, buffer_wrap, batching, leader,
                 cpc, cur, mine, mpc, pipe, requests, stalled, arrived, agreed, void>>

\* The loop ends: nothing waits, or send_to_guest has failed.
EndOfLoop ==
  /\ mpc = "drain" /\ (~Waiting \/ rxbufs = 0)
  /\ mpc' = "idle"
  /\ stalled' = Waiting
  /\ UNCHANGED <<ring, batching, leader, cpc, cur, mine, pipe, rxbufs, requests,
                 history>>

-----------------------------------------------------------------------------
(* The consensus thread: make_consensus, and leader_handle_submit_req.      *)

\* Mutant of Snapshot: the flag is not looked at.
Snapshot_NoFlag ==
  /\ cpc = "scan" /\ leader /\ mpc # "drain"
  /\ buffer_head > consensus_head
  /\ cur' = [head |-> consensus_head,
             count |-> IF batching THEN buffer_head - consensus_head ELSE 1]
  /\ cpc' = "mirror"
  /\ UNCHANGED <<ring, batching, leader, mine, mpc, pipe, rxbufs, requests, stalled,
                 history>>

\* With the lock it looks for packets and copies the positions.
Snapshot ==
  /\ cpc = "scan" /\ leader /\ mpc # "drain"
  /\ buffer_head > consensus_head \/ buffer_wrap = 1
  /\ cur' = [head |-> consensus_head,
             count |-> IF batching THEN buffer_head - consensus_head ELSE 1]
  /\ cpc' = "mirror"
  /\ UNCHANGED <<ring, batching, leader, mine, mpc, pipe, rxbufs, requests, stalled,
                 history>>

\* The slots that the copies name, read without the lock.
Batch == [i \in 1 .. cur.count |-> iov_list[cur.head + i - 1]]

\* Without the lock the packets become a request, led or not.
Submit ==
  /\ cpc = "mirror" /\ Len(submitted) < MaxRequests
  /\ cur.count \in -1 .. BatchMax \/ ~batching
  /\ submitted' = Append(submitted, Batch)
  /\ mine' = Len(submitted) + 1
  /\ cpc' = "wait"
  /\ UNCHANGED <<ring, batching, leader, cur, mpc, pipe, rxbufs, appended, applied,
                 highest_rec, ckpt, stalled, history>>

\* The size of the header overflows and malloc returns NULL, or the assertion on the
\* size of the request fails.
Die ==
  /\ cpc = "mirror" /\ batching /\ cur.count \notin -1 .. BatchMax
  /\ cpc' = "dead"
  /\ UNCHANGED <<ring, batching, leader, cur, mine, mpc, pipe, rxbufs, requests,
                 stalled, history>>

\* The thread spins until the counter of applied requests has reached its own.
Return ==
  /\ cpc = "wait" /\ mine <= highest_rec
  /\ cpc' = "advance"
  /\ UNCHANGED <<ring, batching, leader, cur, mine, mpc, pipe, rxbufs, requests,
                 stalled, history>>

\* With the lock again it moves its position.
Advance ==
  /\ cpc = "advance" /\ mpc # "drain"
  /\ consensus_head' = Around(consensus_head + cur.count)
  /\ IF consensus_head + cur.count >= RingLen
     THEN buffer_wrap' = 0 /\ consensus_wrap' = 1
     ELSE UNCHANGED <<buffer_wrap, consensus_wrap>>
  /\ cpc' = "notify"
  /\ UNCHANGED <<iov_list, buffer_head, buffer_tail, batching, leader, cur, mine, mpc,
                 pipe, rxbufs, requests, stalled, history>>

\* Still with the lock it writes to the pipe, which blocks when the pipe is full.
Notify ==
  /\ cpc = "notify" /\ pipe < PipeMax
  /\ pipe' = pipe + 1
  /\ cpc' = "scan"
  /\ UNCHANGED <<ring, batching, leader, cur, mine, mpc, rxbufs, requests, stalled,
                 history>>

-----------------------------------------------------------------------------
(* The server thread, the COLO thread, the guest and the election.          *)

\* The COLO thread submits a checkpoint request, once its last one was applied.
Checkpoint ==
  /\ ckpt <= highest_rec /\ Len(submitted) < MaxCheckpoints
  /\ submitted' = Append(submitted, <<>>)
  /\ ckpt' = Len(submitted) + 1
  /\ UNCHANGED <<ring, batching, leader, cpc, cur, mine, mpc, pipe, rxbufs, appended,
                 applied, highest_rec, stalled, history>>

\* get_tailq_message appends the queued requests to the log, led or not.
AppendRequests ==
  /\ appended < Len(submitted)
  /\ appended' = Len(submitted)
  /\ UNCHANGED <<ring, batching, leader, cpc, cur, mine, mpc, pipe, rxbufs, submitted,
                 applied, highest_rec, ckpt, stalled, history>>

\* An own request is applied; only a leader counts it.
ApplyOwn ==
  /\ applied < appended
  /\ applied' = applied + 1
  /\ agreed' = agreed \o submitted[applied + 1]
  /\ highest_rec' = IF leader THEN highest_rec + 1 ELSE highest_rec
  /\ UNCHANGED <<ring, batching, leader, cpc, cur, mine, mpc, pipe, rxbufs, submitted,
                 appended, ckpt, stalled, arrived, delivered, void>>

\* The log of a new leader does not have the own requests.
LoseOwn ==
  /\ ~leader /\ applied < appended
  /\ applied' = appended
  /\ void' = TRUE
  /\ UNCHANGED <<ring, batching, leader, cpc, cur, mine, mpc, pipe, rxbufs, submitted,
                 appended, highest_rec, ckpt, stalled, arrived, agreed, delivered>>

\* A leader applies a request of another server, and counts it too.
ApplyForeign ==
  /\ leader /\ highest_rec <= MaxForeign
  /\ highest_rec' = highest_rec + 1
  /\ void' = TRUE
  /\ UNCHANGED <<ring, batching, leader, cpc, cur, mine, mpc, pipe, rxbufs, submitted,
                 appended, applied, ckpt, stalled, arrived, agreed, delivered>>

\* The guest driver gives a descriptor back.
Refill ==
  /\ rxbufs < RxBufs
  /\ rxbufs' = rxbufs + 1
  /\ UNCHANGED <<ring, batching, leader, cpc, cur, mine, mpc, pipe, requests, stalled,
                 history>>

\* The consensus protocol elects another leader, or this server.
Elect ==
  /\ leader' = ~leader
  /\ UNCHANGED <<ring, batching, cpc, cur, mine, mpc, pipe, rxbufs, requests, stalled,
                 history>>

MainLoop == Store \/ ReadPipe \/ TakeLock \/ SendToGuest \/ EndOfLoop
MakeConsensus == Snapshot \/ Submit \/ Die \/ Return \/ Advance \/ Notify
Server == AppendRequests \/ ApplyOwn

Next ==
  /\ cpc # "dead"
  /\ \/ e1000_receive_iov \/ Bypass \/ MainLoop \/ MakeConsensus
     \/ Checkpoint \/ Server \/ LoseOwn \/ ApplyForeign \/ Refill \/ Elect

Spec == Init /\ [][Next]_vars

\* The main loop and the consensus thread run, and a leader applies what is in its
\* log.
FairSpec ==
  /\ Spec
  /\ WF_vars(cpc # "dead" /\ MainLoop)
  /\ WF_vars(cpc # "dead" /\ MakeConsensus)
  /\ WF_vars(cpc # "dead" /\ leader /\ Server)

-----------------------------------------------------------------------------
(* Properties.                                                              *)

AQ == INSTANCE AgreedQueue

\* Until a limit of the ring is met, the positions and flags, which two threads move,
\* behave as a queue that is agreed on and delivered in the order of arrival, without
\* a loss, a repetition or a packet that was not agreed on: one by one also around
\* the end of the ring (e1000.c:1115, 1488 and 1596), in batches up to its end
\* (e1000.c:1537), and whoever leads meanwhile.
ImplementsAgreedQueue == AQ!Spec

\* No lost wakeup: when the main loop is outside rhandler and an agreed packet is
\* before the consensus position, a notification is in the pipe or on its way, unless
\* the last rhandler stopped because the guest had no descriptor (e1000.c:1478).
NoLostWakeup ==
  (mpc \in {"idle", "receive"} /\ Waiting) => (pipe > 0 \/ cpc = "notify" \/ stalled)

\* The consensus thread writes to a full pipe with the lock that the main loop, which
\* would have to read the pipe, spins for (e1000.c:1615, 1104 and 1469).
Jammed == cpc = "notify" /\ pipe = PipeMax /\ mpc \in {"receive", "read"}

\* Once no more packets arrive, all that have arrived reach the guest, unless the
\* server stops leading, has applied an own request without leading, which is never
\* counted (dare_server.c:1982), the guest runs out of descriptors (e1000.c:1478), the
\* two threads jam, the process dies or a limit of the ring is met.
AllDelivered ==
  []<>(\/ Len(delivered) = arrived
       \/ ~leader \/ highest_rec < applied
       \/ stalled \/ Jammed \/ cpc = "dead" \/ void)
=============================================================================
