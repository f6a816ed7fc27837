----------------------------- MODULE DareLeader -----------------------------
(***************************************************************************)
(* The leader's use of its circular log (dare/dare_server.c): one polling  *)
(* iteration drains the submission queue, commits, applies and prunes when *)
(* the log is three quarters full; the pruning timer reads the followers'  *)
(* apply offsets with asynchronous RDMA reads and moves the head to the    *)
(* smallest one.  Which entry a majority holds is replication's business:  *)
(* here any later end may become the commit offset.                        *)
(***************************************************************************)
EXTENDS DareLog, FiniteSets, FiniteSetsExt

CONSTANTS N,            \* servers in the group are 0 .. N-1
          Self,         \* the leader
          CmdLens,      \* cmd.len of the requests
          Submitters,   \* threads in leader_handle_submit_req, one request each
          MaxEntries,   \* bound: entries ever appended
          MaxTerm,      \* bound: elections of this server, the first included
          MaxPrunes     \* bound: expirations of the pruning timer

ASSUME LeaderAssumption ==
  /\ N \in Nat \ {0}
  /\ Self \in 0 .. N - 1
  /\ CmdLens \subseteq Nat
  /\ \A n \in CmdLens : HdrLen + n <= LogLen
  /\ Submitters \in Nat \ {0}
  /\ MaxEntries \in Nat \ {0}
  /\ MaxTerm \in Nat \ {0}
  /\ MaxPrunes \in Nat

Servers == 0 .. N - 1
Followers == Servers \ {Self}

VARIABLES
  srv,      \* the leader's state, see SrvType
  fapply,   \* fapply[f]: entries follower f had applied when last read
  applied   \* indices the leader's apply loop has consumed, in order

vars == <<srv, fapply, applied>>

\* srv.hist[k] is the history of the k-th append: its type and the offset
\* behind the entry.  term and prunes count what the bounds limit.
SrvType ==
  [log : [mem : {srv.log.mem}, head : Offsets, apply : Offsets,
          commit : Offsets, tail : Offsets, end : Offsets],
   prev_log_entry_head : BOOLEAN,
   on : SUBSET Servers,                   \* the servers in cid.bitmask
   apply_offsets : [Servers -> Offsets],
   reading : SUBSET Followers,            \* last_get_read_ssn # 0
   term : 1 .. MaxTerm,
   prunes : 0 .. MaxPrunes,
   hist : Seq([type : Types, end : Offsets])]

-----------------------------------------------------------------------------
(* Steps of the handlers, on the record srv *)

\* log_append_entry with prev_log_entry_head and the history.
AppendEntry(s, type, len) ==
  LET r == log_append_entry(s.log, type, len)
  IN  [s EXCEPT !.log = r.log,
                !.prev_log_entry_head = @ /\ type = "HEAD",
                !.hist = IF r.idx = 0 THEN @
                         ELSE Append(@, [type |-> type, end |-> r.log.end])]

\* Mutant of get_remote_apply_offsets: the leader reads from itself as well.
get_remote_apply_offsets_Self(s) ==
  [s EXCEPT !.apply_offsets = [i \in Servers |-> IF i \notin s.on
                                                 THEN s.log.apply ELSE @[i]],
            !.reading = @ \cup s.on]

\* rc_get_remote_apply_offsets: local values at once, remote ones later.
get_remote_apply_offsets(s) ==
  [s EXCEPT !.apply_offsets = [i \in Servers |-> IF i = Self \/ i \notin s.on
                                                 THEN s.log.apply ELSE @[i]],
            !.reading = @ \cup (s.on \ {Self})]

\* Mutant of Farthest: the comparison is swapped.
Farthest_Swapped(end, offsets) ==
  CHOOSE o \in offsets : \A p \in offsets : ~log_is_offset_larger(end, p, o)

\* The offset of a set that is farthest from the end.
Farthest(end, offsets) ==
  CHOOSE o \in offsets : \A p \in offsets : ~log_is_offset_larger(end, o, p)

\* Mutant of MoveHead: the new head is announced but not set.
MoveHead_Stays(s, min) == AppendEntry(s, "HEAD", 0)

\* The head moves and an entry tells the followers so.
MoveHead(s, min) == AppendEntry([s EXCEPT !.log.head = min], "HEAD", 0)

log_pruning(s) ==
  LET offs == [i \in Servers |-> IF i \in s.on THEN s.apply_offsets[i] ELSE s.log.apply]
      far  == Farthest(s.log.end, {s.log.apply} \cup {offs[i] : i \in Servers})
      min  == IF log_offset_end_distance(s.log.end, far) = 0
              THEN log_get_tail(s.log) ELSE far
      s1   == [s EXCEPT !.apply_offsets = offs]
  IN  get_remote_apply_offsets(
        IF log_is_offset_larger(s.log.end, min, s.log.head) /\ ~s.prev_log_entry_head
        THEN [MoveHead(s1, min) EXCEPT !.prev_log_entry_head = TRUE]
        ELSE s1)

\* log_size < 0.75 * len
BelowThreshold(log) == 4 * log_offset_end_distance(log.end, log.head) < 3 * LogLen

\* A server whose apply offset keeps the log from being pruned is removed.
force_log_pruning(s) ==
  LET far    == Farthest(s.log.end, {s.log.apply} \cup {s.apply_offsets[i] : i \in Servers})
      slow   == {i \in Servers : s.apply_offsets[i] = far}
      target == IF far = s.log.apply THEN Self ELSE Min(slow)
      s1     == [s EXCEPT !.on = @ \ {target}, !.reading = @ \ {target}]
  IN  IF BelowThreshold(s.log) THEN s
      ELSE IF target = Self \/ target \notin s.on THEN log_pruning(s)
      ELSE log_pruning(AppendEntry(s1, "CONFIG", 0))

\* The effect of commit_new_entries: the end of the k-th entry is found on a
\* majority.
CommitUpTo(s, k) ==
  IF k > 0 /\ log_is_offset_larger(s.log.end, s.hist[k].end, s.log.commit)
  THEN [s EXCEPT !.log.commit = s.hist[k].end] ELSE s

ApplyEntries(s) == [s EXCEPT !.log.apply = ApplyLoop(s.log).apply]

-----------------------------------------------------------------------------
(* Actions *)

Init ==
  /\ srv = AppendEntry([log |-> log_new, prev_log_entry_head |-> FALSE,
                        on |-> Servers, apply_offsets |-> [i \in Servers |-> 0],
                        reading |-> {}, term |-> 1, prunes |-> 0, hist |-> << >>], "CONFIG", 0)
  /\ fapply = [f \in Followers |-> 0]
  /\ applied = << >>

\* Requests drained or queued whose submitter still waits for highest_rec.
Outstanding == Cardinality({k \in DOMAIN srv.hist :
                              srv.hist[k].type = "CSM" /\ k > Len(applied)})

\* get_tailq_message: append the queued requests, in order.
Drain(s, lens) ==
  LET drain[k \in 0 .. Len(lens)] ==
        IF k = 0 THEN s ELSE AppendEntry(drain[k - 1], "CSM", lens[k])
  IN  drain[Len(lens)]

Batches == UNION {[1 .. n -> CmdLens] : n \in 0 .. Submitters}

\* One iteration of polling().
Polling(lens) ==
  /\ Len(lens) <= Submitters - Outstanding
  /\ Len(srv.hist) + Len(lens) < MaxEntries
  /\ \E s1 \in {Drain(srv, lens)} :
       \E k \in Len(applied) .. Len(s1.hist) :
         \E s2 \in {CommitUpTo(s1, k)} :
           /\ applied' = applied \o ApplyLoop(s2.log).seq
           /\ srv' = force_log_pruning(ApplyEntries(s2))
  /\ UNCHANGED fapply

\* prune_log_cb
PruneLog ==
  /\ srv.prunes < MaxPrunes
  /\ Len(srv.hist) < MaxEntries
  /\ srv' = [log_pruning(srv) EXCEPT !.prunes = @ + 1]
  /\ UNCHANGED <<fapply, applied>>

\* The RDMA read of a follower's apply offset completes; by then the follower
\* has applied the first k entries, all of them committed.
ReadApplyOffset(f) ==
  /\ f \in srv.reading
  /\ \E k \in fapply[f] .. Len(applied) :
       /\ fapply' = [fapply EXCEPT ![f] = k]
       /\ srv' = [srv EXCEPT !.reading = @ \ {f},
                             !.apply_offsets[f] = IF k = 0 THEN 0 ELSE srv.hist[k].end]
  /\ UNCHANGED applied

\* The leader misses its majority, becomes a follower (hb_receive_cb resets
\* the tail), and wins the next election before another server writes its log.
Reelected ==
  /\ srv.term < MaxTerm
  /\ Len(srv.hist) < MaxEntries
  /\ LET s == AppendEntry([srv EXCEPT !.log.tail = LogLen], "CONFIG", 0)
     IN  srv' = [s EXCEPT !.apply_offsets = [i \in Servers |-> s.log.head],
                          !.reading = {},
                          !.term = @ + 1]
  /\ UNCHANGED <<fapply, applied>>

Next ==
  \/ \E lens \in Batches : Polling(lens)
  \/ PruneLog
  \/ \E f \in Followers : ReadApplyOffset(f)
  \/ Reelected

Spec == Init /\ [][Next]_vars

-----------------------------------------------------------------------------
(* Properties *)

\* Type invariant of the leader's state.
TypeOK ==
  /\ srv \in SrvType
  /\ \A o \in DOMAIN srv.log.mem :
       /\ o \in Offsets
       /\ srv.log.mem[o] \in [idx : Nat, type : Types, len : Nat]
  /\ fapply \in [Followers -> Nat]
  /\ applied \in Seq(Nat)

\* The apply loop of apply_committed_entries consumes every entry exactly
\* once, in the order of the indices, also when the buffer ends between two
\* entries or inside one, and across a re-election.
AppliedInOrder == \A k \in DOMAIN applied : applied[k] = k

\* is_log_full: "the leader should make sure that this never happens".  With
\* the forced pruning of force_log_pruning the end never meets the head, so no
\* drained request is lost and no retained entry overwritten.
NeverFull == ~is_log_full(srv.log)

\* The index of the entry that ends at this offset.
IdxBefore(log, offset) ==
  LET o == log_get_entry(log, offset)
  IN  IF o = NoOffset THEN EntryAt(log, log_get_tail(log)).idx
      ELSE EntryAt(log, o).idx - 1

\* Property P1 of log_pruning, "for any server, leader.h <= server.r": what a
\* server of the group has not applied is still in the leader's log.
RetainedForFollowers ==
  \A f \in Followers \cap srv.on :
    IdxBefore(srv.log, srv.log.head) <= fapply[f]

Abstract == INSTANCE SlidingLog WITH
  window    <- EntriesFrom(srv.log, srv.log.head),
  committed <- IdxBefore(srv.log, srv.log.commit),
  applied   <- IdxBefore(srv.log, srv.log.apply)

\* The circular log implements a window sliding over an unbounded sequence:
\* entries keep index and content until they are pruned, the commit and apply
\* offsets only advance, nothing is pruned before it is applied.
ImplementsSlidingLog == Abstract!Spec

\* is_log_empty: "once the end is modified, it will always return FALSE".
NotEmptyOnceAppended == srv.hist # << >> => ~is_log_empty(srv.log)
=============================================================================
