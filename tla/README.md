# vm-ft: TLA+ models of the fault tolerance code

vm-ft keeps a virtual machine alive by running it on a primary and a backup
host.  The inputs of the guest (network packets, checkpoint requests) are put in
one order by an RDMA consensus protocol, DARE, and the memory of the two guests
is synchronised by COLO checkpoints inside QEMU.  This directory holds TLA+
modules of the consensus part, of the checkpoints and the failover, and of the
network card's fast path between the two; the TLC configurations that check them
on small instances; and TLAPS proofs about the election, for groups of every size,
about the checkpoints, for any number of them and of faults, and about the fast
path, for rings of every length.  The leader's log and its replication are
model-checked only.

Source paths below are relative to `src/`; `dare/` stands for
`rdma-paxos/src/dare/`.

## The parts of the system

| part | code | state here |
|------|------|------------|
| circular log | `include/dare/dare_log.h` | `DareLog`, `SlidingLog` |
| leader loop: submission queue, apply, pruning | `dare/dare_server.c`, `dare_ibv_ud.c` | `DareLeader` |
| election and access to the logs | `dare/dare_server.c`, `dare_ibv_rc.c` | `DareElection`, proved |
| log replication | `dare/dare_ibv_rc.c` | `DareReplication`, model-checked |
| queue pair states, completion accounting | `dare/dare_ibv_rc.c` | what replication needs: completions, flushing, restart |
| membership: join, downsize, failure detection | `dare/dare_server.c` | only the removal of a slow server |
| replicated vote, SM and log recovery | `dare/dare_ibv_rc.c`, `dare_server.c` | not modelled |
| RC handshake over datagrams, client messages | `dare/dare_ibv_ud.c` | not modelled |
| heartbeat period | `dare/dare_server.c` (`to_adjust_cb`) | not modelled |
| proxy: submit, replay, checkpoint flags | `rdma-paxos/src/proxy/proxy.c` | submissions and `highest_rec` (`E1000Ring`), the bound on waiting submitters (`DareLeader`), the checkpoint flag (`Colo`) |
| COLO checkpoint and failover | `qemu/migration/colo*.c`, `migration.c` | `Colo`, output commit and consistency proved |
| checkpoint transport, output buffer | `qemu/migration/mc-rdma.c`, `ram.c`, `output-buffer.c` | `Colo`: control channel, bitmaps and pages, plug |
| fast path of the network card | `qemu/hw/net/e1000.c` | `E1000Ring`, `AgreedQueue`, safety proved |
| idle detection, page hashes | `qemu/migration/getdelays.c`, `hash.c` | measurements and data |
| packet comparison and filters | `qemu/net/` | not modelled: the checkpoint loop does not ask for their result any more |
| endpoint database, KVS, stable storage, configuration, benchmark | | sequential data structures or I/O |

How they interact.  QEMU calls the proxy for every packet; with the fast path of
the e1000 card a thread of its own does, and the main loop hands the packet to the
guest afterwards.  The proxy puts a
request into a queue and spins until `highest_rec` says that it was applied.  The
consensus thread (libev: one poll callback and a few timers) drains the queue
into the leader's circular log.  It writes the entries into the followers' logs
with RDMA and moves the commit offset.  Every server then applies committed
entries through the proxy's callbacks.  Who may write whose log is decided by the
election: a server opens its LOG queue pair to the server it votes for and resets
the others.  Failures of the leader are noticed by missing heartbeats.
A checkpoint starts with a CHECKPOINT entry in the same log.  Both QEMUs then stop
their guests, exchange the bitmaps of dirty pages and the hashes of these pages,
and the primary writes the pages that differ into the memory of the secondary.
The output of the primary guest waits in a plug until the checkpoint that contains
it is loaded.

PROJECT.json lists every part, the source lines of every definition, the hazards
of the code and the findings.

## The modules

### DareLog and SlidingLog

`DareLog` holds pure operators: offset arithmetic, reading, the tail search,
`log_append_entry` and the apply loop, with the names of the C functions.  The
bytes of the buffer are a function from the offsets where an entry starts to the
entry.  Writing an entry removes every start that it covers.  What a reader finds
at any other offset is a NOOP header (`Garbage`), the content of the zeroed
buffer.  A reader that got there would break `AppliedInOrder` and
`ImplementsSlidingLog`.

`SlidingLog` is the abstract specification: a window over an unbounded sequence
of numbered entries.  Entries enter at the right and keep their content.  The
committed and applied positions only advance.  An entry leaves at the left only
after it was applied.

### DareLeader

State: the log, the group (`on` is `cid.bitmask`), `apply_offsets`, the reads in
flight, `prev_log_entry_head`; two histories, `hist` (the appended entries) and
`applied`.

| action | code |
|--------|------|
| `Polling(lens)` | one iteration of `polling()`: `get_tailq_message`, commit, `apply_committed_entries`, `force_log_pruning` |
| `PruneLog` | `prune_log_cb`, `log_pruning`, `rc_get_remote_apply_offsets` |
| `ReadApplyOffset(f)` | completion of an RDMA read of a follower's apply offset |
| `Reelected` | `hb_receive_cb` forgets the tail, the server wins again (`poll_vote_count`) |

The commit offset moves to the end of any entry: which one is replication's
business.  `force_log_pruning` stores the apply offset of the removed server at
the loop index, which is then the group size (`dare_server.c:2143`); the model
does what the code does, and `log_pruning` repairs the slot of a server outside
the group right after it.

### DareElection

A SID `[TERM|L|IDX]` is a triple ordered like the 64-bit integer.  The memory that
other servers write (`hb`, `vote_req`, `vote_ack`) is a variable per field.
Writes on a CTRL queue pair are a sequence in flight that lands in order or is
lost.  `access[s]` is the set of LOG queue pairs that s has connected; `granted`
is a history of whom s gave access in which term.

| action | code |
|--------|------|
| `HbReceive` | `hb_receive_cb`, with `start_election` and `server_to_follower` |
| `HbSend` | `hb_send_cb` |
| `PollVoteCount` | `poll_vote_count` with a majority |
| `FollowHb`, `DropRequests`, `Vote`, `SelfPromote` | the four exits of `poll_vote_requests` |
| `AckDone`, `AckFail` | the two results of `wait_for_one` after `rc_send_vote_ack` |
| `Deliver`, `Lose` | the RDMA fabric (external) |
| `Replicate` | the effect of replication on the last entry |

`poll_vote_requests` has two loops over the requests in index order.  The first
only looks at servers with a larger index.  The second keeps a best request, which
changes on the way.  `Standing`, `Held` and `Liked` describe the result of these
loops without replaying them.

### DareReplication

One leadership.  All entries have one size, so that ends and commits are numbers
of entries, and `Off` gives the offset that the code compares; the buffer holds
`Lap` entries.  `lr[f]` is the leader's `server_t` for f, `qp[f]` the LOG queue pair.

| action | code |
|--------|------|
| `LogAdjustment`, `UpdateRemoteLogs`, `PostSecondPart`, `FindCommitted`, `UpdateRemoteCommits` | the phases of `rc_write_remote_logs`, in this order |
| `Poll` | `empty_completion_queue` with `handle_lr_work_completion` |
| `GetRemoteApplyOffset` | `rc_get_remote_apply_offsets` on a queue pair in error, which it restarts |
| `AppendEntry`, `VoteAck` | a new entry; the late vote of a server |
| `Execute`, `Fail` | the queue pair (external): requests take effect in order; a failure flushes the rest, and the first one may have taken effect |

The phases are separate steps because every post polls completions; a write around
the end of the buffer is two posts, so that the completion of the first part may be
polled before the second is posted (`rest`).  Within a phase the servers are handled
one by one and independently, so a completion polled inside a phase is the same as
one polled before or after it.

A queue pair that failed is "broken" until the leader polls an error, and then in
"error".  `post_send` restarts it at the next post, and the RESET discards the
completions that are still in the queue (`Posted`).  The state RC_QP_BLOCKED, which
only delays that restart until a tagged completion is polled, is not modelled.

`Init` covers the outcomes of an election: logs that
agree where index and term agree, commits that are on a majority, and any
majority of voters.  No commit is a whole lap behind the leader's end: the buffer has
place for the blank entry, as for every later one (`AppendEntry`).  That the leader
prunes in time is `DareLeader`'s part.

### Colo

Two QEMU processes, P and S, each with a COLO thread (its place in the code is
`pc`) and a main loop, which share the iothread lock.  A place is kept when
another actor can tell it from the next one: where the lock is taken or released,
where a message is sent or awaited, where the failover state is tested.  `epoch`
counts the checkpoints that the primary has saved; `ram` and `dev` say which of
them the memory and the devices of the secondary hold, `Torn` while the pages are
being written.

| actions | code |
|---------|------|
| `PLoop` ... `PRelease` | `colo_process_checkpoint` and `colo_do_checkpoint_transaction`, in the order of the code |
| `PSem`, `PExit` | the exit of the COLO thread and of the migration thread |
| `PHook`, `PWrite`, `PFinish` | `mc_rdma_registration_start`, the RDMA writes of the pages, `mc_rdma_registration_stop` |
| `SLoop` ... `SDevice` | the loop of `colo_process_incoming_thread`, with `wait_guest_finish` and `backup_prepare_bitmap` |
| `SLoad`, `SReady`, `SServe`, `STail` | `qemu_loadvm_state_main`: up to the HOOK section, `mc_rdma_registration_handle`, and the end of the RAM section |
| `SOut`, `SSem` | its exit |
| `Post`, `Polled`, `Got` | `mc_rdma_put_colo_ctrl_buffer` and `mc_rdma_get_colo_ctrl_buffer` |
| `Apply` | the consensus server of the secondary applies the CHECKPOINT entry, unless `disable_apply` is set |
| `Request`, `FailoverBh`, `Join` | `x-colo-lost-heartbeat`, the failover bottom half, the end of the incoming coroutine |
| `Land`, `Ack`, `RetriesExceeded`, `Emit`, `Crash` | the adapter, the guest and the hosts (external) |

The control channel is modelled down to the completion queue, because put and get
share one and take whatever completion comes first.  Errors are those of the code:
a failing `replication_do_checkpoint_all`, device save, device load, netlink call,
or a peer that ends.  Two of them have surprising effects that the model keeps:
after an error in sending the size, or a message other than LOADED, the
transaction returns the 0 of `qemu_save_device_state`, so that the loop goes on
with the guest stopped; and `backup_prepare_bitmap` copies -1 bytes after a failed
get, which ends the process.

A stream that a side has shut down ends for both, and what the secondary reads from
it depends on the place: before the HOOK section it finds the zero byte of
QEMU_VM_EOF and goes on as if the memory had been sent; in `ram_load` it finds flags
that are no end of section and gives up.  The RDMA transfer in between
looks at neither the stream nor the failover state.

### E1000Ring and AgreedQueue

`E1000Ring` has the ring `iov_list` with its three positions and two flags, the
pipe, the receive descriptors of the guest, changes of leadership, and the requests
of this server in the proxy and the log.  Packets are numbered.

| actions | code |
|---------|------|
| `e1000_receive_iov`, `Store`, `Bypass` | the test of the leadership, then the packet is put into the ring, or goes straight to the guest |
| `ReadPipe`, `TakeLock`, `SendToGuest`, `EndOfLoop` | `rhandler` |
| `Snapshot`, `Submit`, `Return`, `Advance`, `Notify` | `make_consensus`: copies with the lock, the request and the wait for it without, the positions and the notification with it again |
| `Die` | a negative count, or a batch that `IO_BUF_SIZE` does not hold: the process ends |
| `Checkpoint` | `proxy_on_checkpoint_req`, another submitter with the same counter |
| `AppendRequests` | `get_tailq_message`, on every server |
| `ApplyOwn`, `ApplyForeign` | `apply_committed_entries` and the increment of `highest_rec`, on the leader |
| `LoseOwn`, `Elect`, `Refill` | the group and the guest (external) |

`AgreedQueue` is what this promises: packets arrive, are agreed on in the order of
arrival in groups, and are delivered in the order of agreement, each once.  It
promises this until the code meets a limit that it does not check, and nothing
afterwards (`void`, the action `Void`):

- a packet is stored in a full ring, which the code only reports;
- in batches, the first position comes around, after which the size of a batch,
  a difference of positions, is zero or negative;
- a request is lost with the leadership, which its submitter does not learn;
- an entry of another server is counted in `highest_rec` as an own one.

The ring has 33,554,432 slots, so the first two take a long time to happen.  The
model goes on after each of them as the code does, to the crash of the process where
it comes to that.

## The runs

All runs allow deadlock (`CHECK_DEADLOCK FALSE`): the bounds on elections, entries,
checkpoints and failures end every behaviour.

| run | instance | distinct states | result |
|-----|----------|-----------------|--------|
| `leader_wrap` | 2 servers, buffer of 97, 17 entries, 2 terms | 120,781 | holds |
| `election_safety` | 3 servers, 2 elections, server 0 lossy | 394,337 | holds |
| `election_two_leaders` | 3 servers, 3 elections | | violation |
| `replication_safety` | 3 servers, old logs of 1 or 2 entries that may conflict, 1 failure | 644,511 | holds |
| `replication_live` | 3 servers, the buffer wraps, 1 failure, fairness | 98,356 | holds |
| `replication_wrap` | uncommitted entries span the end of the buffer | | violation |
| `colo_safety` | 2 checkpoints, both kinds of synchronisation, failovers, 1 fault | 1,104,094 | holds |
| `colo_live` | 2 checkpoints, failovers, no fault, fairness | 19,050 | holds |
| `colo_takeover` | 1 checkpoint, 1 fault, fairness | | violation |
| `colo_torn` | 1 checkpoint, no fault | | violation |
| `colo_relaunch` | 1 checkpoint, 1 fault, fairness | | violation |
| `e1000` | ring of 4, 9 packets, 2 descriptors, both modes, fairness | 688,494 | holds |

What the passing runs show:

- **leader_wrap.**  Entries are applied once and in order across the end of the
  buffer (`AppliedInOrder`).  The end never meets the head (`NeverFull`).  The
  circular log implements the sliding window (`ImplementsSlidingLog`, a refinement
  with `SlidingLog`), also after a re-election that forgets the cached tail.
  Pruning keeps what a member of the group has not applied, although the apply
  offsets it uses are old and a leadership may have ended while they were read
  (`RetainedForFollowers`).
- **election_safety.**  A server opens its log to one server per term
  (`GrantOncePerTerm`), one server per term gets a majority of the logs
  (`OneWriterPerTerm`), a server behind in its term has no access (`Fenced`), SIDs
  never decrease, and a server that knows no leader keeps its candidate
  (`VoteOncePerTerm`).
- **replication_safety.**  Committed entries are on a majority
  (`CommittedOnMajority`), the end that the leader counts with is real
  (`ValidUpToEnd`), commits never pass the own end and agree with the leader
  (`SameCommitted`), and nothing committed is cut (`CommitMonotone`), with requests
  that fail after they took effect and queue pairs that are restarted.
- **replication_live.**  The same view of the remote logs stays right when a write is
  done in two parts around the end of the buffer and one of them fails.  A send flag
  that is up means that nothing is outstanding, so no completion is taken for that of
  another step (`OneStepAtATime`).  Every entry is committed (`EntriesCommitted`).
  That every follower is reached is *not* claimed: see `NeverWaitsInVain` below.
- **colo_safety.**  Every get finds the message it is meant for, although a put may
  have taken its completion (`CtrlInStep`).  No packet leaves before the
  secondary has loaded the checkpoint that contains it, whatever fails
  (`OutputCommit`).  Until a failover the secondary guest only runs on one
  checkpoint (`RunsConsistent`).  The repeated polling of `wait_guest_finish` takes
  no request of a later checkpoint (`NoRequestLost`).
- **colo_live.**  A checkpoint that the primary asks for is loaded
  (`CheckpointsComplete`), and a failover request
  gets the lock although both COLO threads wait for each other with it
  (`FailoverHandled`).  The second holds as long as the peer lives: a side that
  waits to receive has no request that fails when the peer dies.
- **e1000.**  Until a limit is met, the fast path implements the agreed queue, around
  the end of the ring (`ImplementsAgreedQueue`).  No agreed packet waits without a
  notification in the pipe or on its way, limit or not (`NoLostWakeup`).  A server that leads delivers every
  packet (`AllDelivered`), with four excuses that the code has: the guest had no
  descriptor (packets then wait for the next notification, which only another
  packet causes); an own request was applied while another server led, and is never
  counted; a limit was met; and the pipe is full while the main loop
  spins for the lock that the writer of the pipe holds (`Jammed`).

### Bounds

- *Leader.*  The last quarter of the buffer has to hold, beyond the threshold of
  `force_log_pruning`, one more request and a CONFIG entry for every follower it
  may remove.  Real buffers (`LOG_SIZE`) are far larger than that; a scaled-down
  buffer has to respect it too.  97 units with headers of 2 and requests of 8 do, and
  with 17 entries the end goes around, after a pruning that follows the followers or
  one that removes a slow one.  `MaxPrunes` is the number of times that the
  pruning timer fires.
- *Election.*  Two elections are enough for two candidates of one term, a vote, a
  leader, its heartbeat, and a candidate of a second term.  One write in flight
  per queue pair and a third election show the violation below.  A write beyond
  `MaxWire` is lost, as on a queue pair in error.  At most three queue pairs have a
  write in flight at a time (`MaxBusy`, a state constraint).  The proofs have none of
  these bounds.
- *Replication.*  Logs of two entries of two earlier terms give a follower that
  is shorter, equal or in conflict with the leader; only the follower that may fail
  begins without a committed entry (`FirstCommitted`).  `Lap` = 4 in
  `replication_safety` leaves out wrap-arounds; `Lap` = 3 with four entries is where
  they happen.
- *COLO.*  The second checkpoint is where leftovers of the first would show: a
  completion, a message in the buffer, a request, packets in the plug.  One fault
  is a crash of either side or any error of the list above, at any place.  The
  proofs have neither bound.
- *Fast path.*  Nine packets take a ring of four around twice, so that both flags
  are set and cleared again while packets wait.  A pipe of two and descriptors for two
  packets fill up and run out, and batches of two and more are made.  What comes after
  a limit is followed for four packets (`MaxVoid`): there the
  number of states grows fast, and only the type invariant and `NoLostWakeup` say
  anything.  The proofs have no such bound.

### Fairness

`DareReplication!FairSpec` has weak fairness of the leader's loop (libev calls the
poll callback again and again), of the execution of posted requests (a queue pair
finishes or flushes them) and of the vote of a server (`VoteAck`: all servers of the
instance are up).  Completions are polled for certain only while an entry waits for
its commit, when `rc_write_remote_logs` empties the queue in a loop
(`PollForCommit`); otherwise only a post polls, and there may be none.  There is no
fairness for new requests, none for failures and none for the pruning timer.

`Colo!FairSpec` has weak fairness of both COLO threads, of the adapter, of the
secondary's apply loop and of the join.  The exception is `wait_guest_finish` on the
primary, which loops until the guest is idle and may do so for ever
(`PrimaryGoesOn`).  That of the secondary has a bound on its idle rounds, but waits for
a request for ever.  The bottom half has strong fairness: it
needs the iothread lock, which the COLO thread takes and releases again and again,
and a thread that waits for a mutex gets it in the end.

`E1000Ring!FairSpec` has weak fairness of the main loop, of the consensus
thread, and of appending and applying requests on a server that leads; none for
packets, elections, requests of others or the guest's descriptors.

## Findings

Each is a run in which TLC finds a behaviour of the code that contradicts what
a comment of the code says; PROJECT.json quotes the lines.

1. `election_two_leaders`: a vote ACK carries no term.  One of an earlier election
   that lands after `start_election` cleared the votes counts for the new term,
   and two servers lead in one term.  `OneWriterPerTerm` shows the limit of the
   damage: only one of them has the logs of a majority.
2. `replication_wrap`: the commit offset is the middle of offsets sorted as
   numbers.  When uncommitted entries span the end of the buffer, the middle is
   not the one a majority holds.
3. `colo_takeover`: after a crash of the primary the secondary thread may be in
   `wait_guest_finish`, which waits for a checkpoint request and looks at neither the
   files nor the failover state.  The bottom half shuts the files down, so that the
   thread "not block in recv or send", and the incoming coroutine joins it for ever.
4. `colo_torn`: `vmstate_loading` protects the loading of the devices, but the
   pages are written into the guest's memory before it is set.  A failover between
   two pages, or between the last page and the devices, starts a guest with new
   memory and the devices of the checkpoint before.
5. `colo_relaunch`: a thread that cannot load the devices leaves its loop with
   `vmstate_loading` still set.  A bottom half that runs then asks for a relaunch,
   but the only test for it is in the loop, and nobody launches the failover again.

More properties are stated in the modules and do not hold.  They restate no line of
the repository, so no run is about them; to see the
behaviour, add the property to the configuration of the module's run.

- `NotEmptyOnceAppended` (DareLeader, with a buffer that entries fill exactly): an
  entry that ends at `log->len` makes the log look empty (`is_log_empty`).
- `LeaderRenounces` (DareElection): `hb_send_cb` updates its SID with its own SID,
  not with the larger one of the reply.  It stops sending heartbeats and still is
  the leader by its SID.
- `RecentLeaderHasAccess` (DareElection): a candidate that follows the winner of
  its own term does not restore the access to its log.
- `NeverWaitsInVain` (DareReplication): when a queue pair is restarted while the
  completion of a step is still in its queue, the RESET discards the completion, and
  the send flag of the follower stays down.  No entry is written to it any more.
- `CompletionBound` (Colo): the completion queue is created with one entry
  (`mc-rdma.c:2078`), and the completions of a send and of a receive can both wait in
  it.  Whether it overflows depends on how far the driver rounds the size up; the
  model takes it that it does not.

## What is proved

### The election

The theorems are about `DareElection`, for every number of servers, every set of
lossy servers, and any number of elections and writes in flight
(`ElectionAssumption` only gives the constants their types and N > 0).

| theorem | statement |
|---------|-----------|
| `TypeCorrect` | `Spec => []TypeOK` |
| `AccessOncePerTerm` | `Spec => []GrantOncePerTerm` |
| `UniqueWriter` | `Spec => []OneWriterPerTerm` |
| `Fencing` | `Spec => []Fenced` |
| `SidOrder` | `Spec => SidNeverDecreases` |
| `OneVotePerTerm` | `Spec => VoteOncePerTerm` |
| `Invariance` | `Spec => []IInv` |

`GrantOncePerTerm` is not inductive.  A server grants access when it votes, when a
heartbeat with a new term arrives and when it wins.  That it did not do so before
in this term depends on the SIDs it acts on, and these were read from memory that
others wrote at any time, or are still in flight.  The invariant `IInv`
therefore says of **every** SID in the system, whether it is a server's own,
in a slot or on the wire:

- `Backed`: the server named in it has a SID at least as large, and if it is the
  SID of a candidate, that candidate grants nobody else access in that term;
- `From`: it is not above the term of the server that sent it, and if the sender
  supports another candidate, the sender has granted it access.

`GrantOk` adds, for a server, that its grants belong to terms that both sides have
reached, that a candidate has granted nothing in its term, that only a leader
sends heartbeats, and that its open queue pairs are those granted in this term
unless it led.

Facts of this kind survive whenever SIDs grow and new grants are of later terms or
to the server itself (`Grows`, lemma `FromStable`).  So the proof of an action
shows what it does to the SIDs and grants, and the rest follows.
`DareElectionInvariant` has the invariant.  `DareElectionProofs` has the lemmas about
the shared steps and one lemma per action, each of which also shows `Advances`, what
the action properties need, and then draws the conclusions; `UniqueWriter` needs that
two majorities intersect (`MajorityUnique`).

### The fast path

The theorems of `E1000RingProofs` are about `E1000Ring`, for every length of the
ring and of the pipe, any number of packets, descriptors and requests, and
both modes (`RingAssumption`).

| theorem | statement |
|---------|-----------|
| `RingInvariance` | `Spec => []RingInv` |
| `RingTypeCorrect` | `Spec => []TypeOK` |
| `FastPathRefines` | `Spec => ImplementsAgreedQueue` |
| `WakeupSafe` | `Spec => []NoLostWakeup` |

The refinement needs to know which packet a slot holds, and that is lost in the
positions: they are only known up to a lap.  `RingInv` has the types, with the place
of the copies in the ring (`Inside`), and, as long as no limit was met, `Sound`,
which ties the positions to the numbers of packets.

- `Counts`: the distance between two neighbouring positions, one lap more
  when the flag between them is set, is the difference of the numbers of packets.
- `Slots`: the slots between the last and the first position hold the packets in
  order.
- `Copies`: while the consensus thread works without the lock its copies
  still name the next packets to agree on, because only this thread moves that
  position and arrivals only write beyond the first.
- `Queue`: a request is counted after it is applied, and the one that the thread waits
  for holds the next packets after those agreed on.  Between its application and the
  second critical section the position is behind the log (`Held`).

`void` is never reset (`NeverReset`), so `Sound` only has to be preserved by steps that
keep it FALSE (`SoundStep`).  The step that sets it is a `Void` step of the queue, and
after it every step is one.  `RingTypeCorrect` and `WakeupSafe` do not depend on `void`:
the positions stay in the ring and no wakeup is lost after a limit as well.

### The checkpoints

The theorems of `ColoProofs` are about `Colo`, for any number of checkpoints and
of faults and both kinds of synchronisation (`ColoAssumption` only gives the
constants their types).

| theorem | statement |
|---------|-----------|
| `Invariance` | `Spec => []IInv` |
| `TypeCorrect` | `Spec => []TypeOK` |
| `OutputIsCommitted` | `Spec => []OutputCommit` |
| `GuestsRunConsistently` | `Spec => []RunsConsistent` |

The primary releases the output after the message LOADED, so `OutputCommit` needs
that this message is the one of the current checkpoint.  No message says so: it
carries no number, and a get takes whatever completion is first.  The invariant
`IInv` (`ColoInvariant`) counts instead.  In a checkpoint the secondary sends three
messages and the primary four.

- `Protocol`: at each end the completions are those of the posted send and of the
  received message (`Channel`), and what a side has received, together with what
  is on its way, is at most what the other has sent (`InStep`).  A primary past its
  third get therefore knows that the secondary has sent its third message.  A
  secondary that leaves in the middle of a checkpoint may have sent two messages
  more than its `loaded` tells, which is the second form of `InStep`.  After a
  queue pair has gone into error the counts say nothing, but then so few
  completions are left that the primary gets stuck before it could take one for
  that of LOADED (`Doomed`).
- `Places`: what the send area holds while a message is posted.  A failed get
  leaves it alone, so the primary finds its own BUFFER there and not LOADED.
- `Memory`: which checkpoint the memory of the secondary holds at each place, and
  that its guest is stopped where pages or devices change.
- `Output`: the packets of the last epoch in the plug belong to loaded checkpoints.
- `Bounds`: what the type invariant needs about requests and semaphores.
- `LeftRunning`: a secondary that a failover has taken out of its loop while its guest
  runs has sent nothing beyond the loaded checkpoints, so the primary does not get as
  far as to write pages under it.

`ColoChannel` has what a post, a put and a get do to the counts, `ColoProtocol` that
every step keeps `Protocol`, `ColoTypes` the type invariant,
`ColoProofs` the other parts of `IInv` and the theorems.

### Checked by TLC only

- Liveness: `EntriesCommitted`, `CheckpointsComplete`, `FailoverHandled` and
  `AllDelivered`.  Fairness and ENABLED are out of the prover's reach.
- All of `DareLeader`: `AppliedInOrder`, `NeverFull`, `RetainedForFollowers`, its type
  invariant and the refinement of `SlidingLog`.  They rest on the walks of `DareLog`
  over entries of different lengths (`log_append_entry` looks for the tail, the apply
  loop goes from entry to entry), which are recursive, and what a recursive definition
  computes for every log is a proof by induction over data.
- All of `DareReplication`: its type invariant, `CommittedOnMajority`,
  `ValidUpToEnd`, `SameCommitted`, `CommitMonotone` and `OneStepAtATime`.  There is no
  proof of them in this directory.
- Of `Colo`: `CtrlInStep` and `NoRequestLost`.  `IInv` bounds the messages on the way
  from one side only, which is enough for output commit and the consistency of the
  guest, but does not say which message it is.
- That the five findings are real: a violation is a behaviour, not a theorem.

## Not modelled, and where the models stop

- The configuration is stable: no joining server, no extended or transitional
  configuration.
- `to_adjust_cb` and `latest_hb_received` are left out; heartbeats are read from
  the array itself.
- Before the first election the code reads `hb[255]`; the model takes it that
  nothing there looks like a SID of the current term.
- The buffer of uncommitted entries that a voter publishes is taken to be its
  entries after its commit at the time of the read; only this leader writes that
  log in between.
- A server that crashes does not come back; a crash is a server that takes no
  more steps, whose queue pairs fail.
- Of the queue pair state machine, the BLOCKED state, the special signaled request
  and the sequence numbers of waiting calls are left out.
- Terms and indices are unbounded numbers; the code has 64-bit counters, and 55
  bits of the SID are the term.
- COLO starts at the top of the two loops: the handshake before them (ready
  message, block replication, sync type) is Init.  `colo_shutdown` and the
  guest-shutdown message are left out, since nobody receives it any more.
- The pages are one interval of the model, not single writes, and the first round
  (without hashes) is like the others.  After a failover the roles are final: the
  code does not resume replication.
- `wait_guest_finish` may return at any time once it has the request (on the primary:
  at any time, or never); the idle measurements of `getdelays.c` are not modelled.
- The replay of packets on a follower and the transmit side of the card are not
  modelled; what a packet holds does not matter.
- Joining, recovery with the replicated vote, reconfiguration, client reads and
  the datagram handshake of DARE are not modelled.  The deployment starts a fixed
  group from a configuration file; these parts only act when a server is added or
  comes back.
- The endpoint database, the key-value store, stable storage, configuration files,
  the LogGP benchmark and the InfiniBand set-up have no protocol state.
- The repository contains all of QEMU, about 1.2 million lines, of which the fault
  tolerance code is about one per cent.  Upstream QEMU (devices, block layer,
  translation, user interfaces) is outside of this project, so the share of the
  repository's lines that the map names is small by construction.

## Next

In this order; a run gives way where a broader one covers it.

1. **Election and replication composed** over several terms, with the abstract
   specification of one agreed sequence, and entries of earlier terms.
2. **Proofs of the replication**: an inductive invariant over the requests and
   completions of a follower.
3. **Recovery and membership**: replicated vote, join, SM and log recovery, the
   configuration states, `check_failure_count`.
