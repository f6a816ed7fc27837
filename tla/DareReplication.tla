-------------------------- MODULE DareReplication ---------------------------
(***************************************************************************)
(* Log replication during one leadership (dare/dare_ibv_rc.c): the leader  *)
(* adjusts the logs of the servers that voted for it, writes its entries   *)
(* into them with RDMA, and commits what a majority holds.                 *)
(*                                                                         *)
(* All entries have the same size, so that an offset stands for a number   *)
(* of entries: ends, commits and ranges are counts of entries, and Off     *)
(* gives the offset that the code compares.  An entry is its term.         *)
(***************************************************************************)
EXTENDS Integers, Sequences, FiniteSets

CONSTANTS N,           \* the servers are 0 .. N-1
          Leader,      \* the server that leads
          T,           \* its term
          Lap,         \* how many entries fit into the buffer
          OldLogs,     \* the logs that servers may have before the election
          MaxEntries,  \* bound: length of the leader's log
          Faulty,      \* bound: the followers whose LOG queue pairs may fail
          MaxFails     \* bound: how often they fail

ASSUME ReplicationAssumption ==
  /\ N \in Nat \ {0}
  /\ Leader \in 0 .. N - 1
  /\ T \in Nat
  /\ Lap \in Nat \ {0}
  /\ OldLogs \subseteq Seq(0 .. T - 1)
  /\ MaxEntries \in Nat
  /\ Faulty \subseteq 0 .. N - 1
  /\ MaxFails \in Nat

Servers == 0 .. N - 1
Followers == Servers \ {Leader}

Steps == {"GET_WRITE", "GET_NCE_LEN", "GET_NCE", "SET_END", "UPDATE_LOG", "UPDATE_END"}

\* A server_t with its log_offsets_t, vote ACK and the leader's nc_buf for it.
ServerType ==
  [acked : BOOLEAN, step : Steps, send_flag : BOOLEAN, send_count : 0 .. 2,
   cached_end : Nat, end : Nat, commit : Nat, nc_len : Nat, nc : Seq(0 .. T)]

\* Work requests on a LOG queue pair: read the length or the entries of the
\* remote nc_buf, write the remote end or commit, write entries from+1 .. to.
WorkRequest ==
  [op : {"len", "nce", "end", "commit", "log"}, from : Nat, to : Nat]

\* Work completions: of a signaled request, or ("lazy") the error of a request
\* that is not signaled, for whose completion no step waits.
Completion == {"success", "error", "lazy"}

\* A LOG queue pair: the requests that have not taken effect, the completions
\* that nobody has polled, and its state.  A "broken" one is in the error state
\* of the adapter, and in "error" the leader knows (RC_QP_ERROR).
QueuePair ==
  [state : {"active", "broken", "error"}, wq : Seq(WorkRequest), wc : Seq(Completion)]

VARIABLES
  log,     \* log[s]: the entries in the memory of s, those after its end too
  end,     \* end[s]: log->end of s
  commit,  \* commit[s]: log->commit of s
  lr,      \* lr[f]: what the leader keeps for follower f
  qp,      \* qp[f]: the LOG queue pair of f
  rest,    \* rest[f]: the second part of a log write that is still to be posted
  pc,      \* the phase of rc_write_remote_logs that comes next
  fails    \* how many failures there were

memory == <<log, end, commit>>
vars == <<memory, lr, qp, rest, pc, fails>>

\* The type invariant: server_t, log_offsets_t and the queues of the LOG
\* queue pairs.
TypeOK ==
  /\ log \in [Servers -> Seq(0 .. T)]
  /\ end \in [Servers -> Nat]
  /\ commit \in [Servers -> Nat]
  /\ lr \in [Followers -> ServerType]
  /\ qp \in [Followers -> QueuePair]
  /\ rest \in [Followers -> Seq(WorkRequest)]
  /\ pc \in {"adjust", "update", "second", "commit", "notify"}
  /\ fails \in 0 .. MaxFails

-----------------------------------------------------------------------------
(* Offsets *)

\* The offset after n entries.  An entry is 2 bytes, and one byte is left at
\* the end of the buffer.
Off(n) == IF n = 0 THEN 0 ELSE 2 * ((n - 1) % Lap) + 2
LogSize == 2 * Lap + 1

\* log_offset_end_distance in the leader's log.
Distance(o) ==
  LET e == Off(end[Leader]) IN IF e >= o THEN e - o ELSE LogSize - (o - e)

\* log_is_offset_larger in the leader's log: closer to the end.
Larger(m, n) == Distance(Off(m)) < Distance(Off(n))

\* log_find_remote_end_offset: how far the entries of the remote nc_buf, which
\* follow the remote commit, match the leader's.
Matches(r, k) ==
  /\ r.commit + k <= end[Leader]
  /\ log[Leader][r.commit + k] = r.nc[k]

\* Mutant of log_find_remote_end_offset: the last matching entry is cut as well.
log_find_remote_end_offset_OneLess(r) ==
  (CHOOSE e \in r.commit .. r.commit + Len(r.nc) :
     /\ \A k \in 1 .. e - r.commit : Matches(r, k)
     /\ e < r.commit + Len(r.nc) => ~Matches(r, e - r.commit + 1)) - 1

log_find_remote_end_offset(r) ==
  CHOOSE e \in r.commit .. r.commit + Len(r.nc) :
    /\ \A k \in 1 .. e - r.commit : Matches(r, k)
    /\ e < r.commit + Len(r.nc) => ~Matches(r, e - r.commit + 1)

-----------------------------------------------------------------------------

\* Two logs begin with the same n entries.
SameUpTo(a, b, n) ==
  n <= Len(a) /\ n <= Len(b) /\ \A k \in 1 .. n : a[k] = b[k]

\* Entries with the same index and term come with the same history.
LogMatching(a, b) ==
  \A k \in 1 .. Len(a) : k <= Len(b) /\ a[k] = b[k] => SameUpTo(a, b, k)

Majority(S) == 2 * Cardinality(S) > N

\* n entries of the leader are on a majority.
OnMajority(n) ==
  Majority({s \in Servers : end[s] >= n /\ SameUpTo(log[s], log[Leader], n)})

NewServer(acked, c) ==
  [acked |-> acked, step |-> IF acked THEN "GET_NCE_LEN" ELSE "GET_WRITE",
   send_flag |-> TRUE, send_count |-> 0, cached_end |-> 0, end |-> 0,
   commit |-> c, nc_len |-> 0, nc |-> << >>]

\* The leader has just won the election (poll_vote_count): a majority has
\* sent its commit offset with the vote, and the blank entry is appended, for
\* which the buffer has place (see AppendEntry).
Init ==
  \E old \in [Servers -> OldLogs], c \in [Servers -> 0 .. MaxEntries],
     voters \in SUBSET Followers :
    /\ Majority(voters \cup {Leader})
    /\ \A s, i \in Servers : LogMatching(old[s], old[i])
    /\ \A s \in Servers : SameUpTo(old[s], old[Leader], c[s])
    /\ \A s \in Servers : Len(old[Leader]) + 1 - c[s] < Lap
    /\ log = [old EXCEPT ![Leader] = Append(@, T)]
    /\ end = [s \in Servers |-> Len(log[s])]
    /\ commit = c
    /\ \A s \in Servers : OnMajority(c[s])
    /\ lr = [f \in Followers |-> NewServer(f \in voters, c[f])]
    /\ qp = [f \in Followers |-> [state |-> "active", wq |-> << >>, wc |-> << >>]]
    /\ rest = [f \in Followers |-> << >>]
    /\ pc = "adjust"
    /\ fails = 0

\* The vote ACK of a server that follows later lands.
VoteAck(f) ==
  /\ ~lr[f].acked
  /\ lr' = [lr EXCEPT ![f].acked = TRUE]
  /\ UNCHANGED <<memory, qp, rest, pc, fails>>

\* log_append_entry, while the buffer has place for the entry: the head is not
\* beyond what any server has committed.
AppendEntry ==
  /\ pc = "adjust"
  /\ Len(log[Leader]) < MaxEntries
  /\ \A s \in Servers : end[Leader] + 1 - commit[s] < Lap
  /\ log' = [log EXCEPT ![Leader] = Append(@, T)]
  /\ end' = [end EXCEPT ![Leader] = @ + 1]
  /\ UNCHANGED <<commit, lr, qp, rest, pc, fails>>

-----------------------------------------------------------------------------
(* rc_write_remote_logs, in the phases between which completions matter *)

WR(op, from, to) == [op |-> op, from |-> from, to |-> to]

Signaled(w) == w.op # "commit"

\* The completions of requests that are flushed.
Flushed(reqs) ==
  [k \in DOMAIN reqs |-> IF Signaled(reqs[k]) THEN "error" ELSE "lazy"]

\* post_send: a queue pair that is known to be in error is restarted, and the
\* RESET clears the completions that are still in its queue; one that is broken
\* flushes the requests.
Posted(q, reqs) ==
  CASE reqs = << >> -> q
    [] reqs # << >> /\ q.state = "active" -> [q EXCEPT !.wq = @ \o reqs]
    [] reqs # << >> /\ q.state = "broken" -> [q EXCEPT !.wc = @ \o Flushed(reqs)]
    [] reqs # << >> /\ q.state = "error" ->
         [state |-> "active", wq |-> reqs, wc |-> << >>]

\* Post the requests reqs[f] for every follower f.
PostSend(reqs) == qp' = [f \in Followers |-> Posted(qp[f], reqs[f])]

\* Mutant of Behind: the entries that wait for their commit are left out.
Behind_FollowersOnly ==
  \E f \in Followers :
    lr[f].acked /\ (lr[f].step # "UPDATE_LOG" \/ lr[f].end # end[Leader])

\* commit_new_entries calls rc_write_remote_logs.
Behind ==
  \/ Distance(Off(commit[Leader])) # 0
  \/ \E f \in Followers :
       lr[f].acked /\ (lr[f].step # "UPDATE_LOG" \/ lr[f].end # end[Leader])

\* log_adjustment works on f: it has voted, and nothing is outstanding.
Adjusting(f) == lr[f].acked /\ lr[f].send_flag

\* What log_adjustment does with a server.
AdjustServer(r) ==
  CASE r.step \in {"GET_WRITE", "GET_NCE_LEN"} ->
         [r EXCEPT !.step = "GET_NCE_LEN", !.send_flag = FALSE]
    [] r.step = "GET_NCE" /\ r.nc_len = 0 ->
         [r EXCEPT !.step = "UPDATE_LOG", !.end = r.commit]
    [] r.step = "GET_NCE" /\ r.nc_len # 0 ->
         [r EXCEPT !.send_flag = FALSE]
    [] r.step = "SET_END" ->
         [r EXCEPT !.end = log_find_remote_end_offset(r), !.send_flag = FALSE]
    [] OTHER -> r

AdjustRequests(r) ==
  CASE r.step \in {"GET_WRITE", "GET_NCE_LEN"} -> << WR("len", 0, 0) >>
    [] r.step = "GET_NCE" /\ r.nc_len # 0 -> << WR("nce", 0, r.nc_len) >>
    [] r.step = "SET_END" -> << WR("end", 0, log_find_remote_end_offset(r)) >>
    [] OTHER -> << >>

\* The remote commit offsets that log_adjustment compares with the leader's.
RemoteCommits ==
  {lr[f].commit : f \in {g \in Followers : Adjusting(g)
                           /\ lr[g].step \in {"GET_WRITE", "GET_NCE_LEN"}}}

LogAdjustment ==
  /\ pc = "adjust"
  /\ Behind
  /\ \E c \in RemoteCommits \cup {commit[Leader]} :
       /\ \A o \in RemoteCommits \cup {commit[Leader]} : ~Larger(o, c)
       /\ commit' = [commit EXCEPT ![Leader] = c]
  /\ lr' = [f \in Followers |-> IF Adjusting(f) THEN AdjustServer(lr[f]) ELSE lr[f]]
  /\ PostSend([f \in Followers |-> IF Adjusting(f) THEN AdjustRequests(lr[f]) ELSE << >>])
  /\ pc' = "update"
  /\ UNCHANGED <<log, end, rest, fails>>

\* The leader's entries after a are written in one part, or in two around the
\* end of the buffer.
LogWrites(a) ==
  LET e == end[Leader]
      m == ((e - 1) \div Lap) * Lap
  IN IF Off(e) > Off(a) THEN << WR("log", a, e) >>
                        ELSE << WR("log", a, m), WR("log", m, e) >>

\* The first part of update_remote_logs: write entries, then the end offset.
NeedsLog(r) == r.send_flag /\ r.step = "UPDATE_LOG" /\ Distance(Off(r.end)) # 0
NeedsEnd(r) == r.send_flag /\ r.step = "UPDATE_END"

\* Mutant of UpdateServer: the end is advanced when the write is posted.
UpdateServer_NoCache(r) ==
  CASE NeedsLog(r) -> [r EXCEPT !.end = end[Leader], !.cached_end = end[Leader],
                                !.send_flag = FALSE, !.send_count = Len(LogWrites(r.end))]
    [] NeedsEnd(r) -> [r EXCEPT !.end = r.cached_end, !.send_flag = FALSE]
    [] OTHER -> r

UpdateServer(r) ==
  CASE NeedsLog(r) -> [r EXCEPT !.cached_end = end[Leader], !.send_flag = FALSE,
                                !.send_count = Len(LogWrites(r.end))]
    [] NeedsEnd(r) -> [r EXCEPT !.end = r.cached_end, !.send_flag = FALSE]
    [] OTHER -> r

UpdateRequests(r) ==
  CASE NeedsLog(r) -> LogWrites(r.end)
    [] NeedsEnd(r) -> << WR("end", 0, r.cached_end) >>
    [] OTHER -> << >>

FirstPart(reqs) == IF reqs = << >> THEN << >> ELSE << Head(reqs) >>
SecondPart(reqs) == IF reqs = << >> THEN << >> ELSE Tail(reqs)

UpdateRemoteLogs ==
  /\ pc = "update"
  /\ lr' = [f \in Followers |-> UpdateServer(lr[f])]
  /\ PostSend([f \in Followers |-> FirstPart(UpdateRequests(lr[f]))])
  /\ rest' = [f \in Followers |-> SecondPart(UpdateRequests(lr[f]))]
  /\ pc' = IF \E f \in Followers : rest'[f] # << >> THEN "second" ELSE "commit"
  /\ UNCHANGED <<memory, fails>>

\* The second post of a write in two parts; the first one may have polled the
\* completion of the first part.
PostSecondPart ==
  /\ pc = "second"
  /\ PostSend(rest)
  /\ rest' = [f \in Followers |-> << >>]
  /\ pc' = "commit"
  /\ UNCHANGED <<memory, lr, fails>>

\* Mutant of ValidEnd: an end offset counts before it is written.
ValidEnd_AnyStep(s) == IF s = Leader THEN end[Leader] ELSE lr[s].end

\* Up to where the entries of a server count.
ValidEnd(s) ==
  IF s = Leader THEN end[Leader]
  ELSE IF lr[s].step = "UPDATE_LOG" THEN lr[s].end ELSE commit[Leader]

\* The offset in the middle of the sorted offsets[].
MinOffset ==
  LET offsets == {ValidEnd(s) : s \in Servers}
      Below(v) == {s \in Servers : Off(ValidEnd(s)) < Off(v)}
      UpTo(v) == {s \in Servers : Off(ValidEnd(s)) <= Off(v)}
  IN CHOOSE v \in offsets :
       /\ Cardinality(Below(v)) <= (N - 1) \div 2
       /\ Cardinality(UpTo(v)) > (N - 1) \div 2

\* Enough followers have entries that are not committed.
EnoughLarger ==
  Cardinality({f \in Followers : lr[f].step = "UPDATE_LOG"
                                 /\ Larger(lr[f].end, commit[Leader])}) >= N \div 2

\* The second part of update_remote_logs: find the committed entries.
FindCommitted ==
  /\ pc = "commit"
  /\ commit' = IF EnoughLarger /\ Larger(MinOffset, commit[Leader])
               THEN [commit EXCEPT ![Leader] = MinOffset] ELSE commit
  /\ pc' = "notify"
  /\ UNCHANGED <<log, end, lr, qp, rest, fails>>

\* The third part of update_remote_logs: lazily update the commit offsets of
\* the followers, with a request that is not signaled.
Notified(r) ==
  r.step = "UPDATE_LOG" /\ r.commit # r.end /\ r.commit # commit[Leader]

\* Mutant of NewCommit: also beyond the end of the follower.
NewCommit_BeyondEnd(r) == commit[Leader]

NewCommit(r) == IF Larger(commit[Leader], r.end) THEN r.end ELSE commit[Leader]

UpdateRemoteCommits ==
  /\ pc = "notify"
  /\ lr' = [f \in Followers |->
              IF Notified(lr[f]) THEN [lr[f] EXCEPT !.commit = NewCommit(lr[f])]
                                 ELSE lr[f]]
  /\ PostSend([f \in Followers |-> IF Notified(lr[f])
                                   THEN << WR("commit", 0, NewCommit(lr[f])) >>
                                   ELSE << >>])
  /\ pc' = "adjust"
  /\ UNCHANGED <<memory, rest, fails>>

-----------------------------------------------------------------------------
(* The LOG queue pairs: requests take effect in order, or are flushed *)

\* The buffer of not committed entries that f published when it voted.
NcBuf(f) == SubSeq(log[f], commit[f] + 1, end[f])

\* Entries from+1 .. to of the leader overwrite those of a log; what stood in
\* front of them, if the first part of a write is missing, is an old entry.
Overwrite(old, from, to) ==
  [k \in 1 .. (IF to > Len(old) THEN to ELSE Len(old)) |->
     IF k > from /\ k <= to THEN log[Leader][k]
     ELSE IF k <= Len(old) THEN old[k] ELSE 0]

\* Request w for f takes effect, in the memory of f or (reads) of the leader.
TakesEffect(f, w) ==
  /\ lr' = CASE w.op = "len" -> [lr EXCEPT ![f].nc_len = Len(NcBuf(f))]
             [] w.op = "nce" -> [lr EXCEPT ![f].nc = SubSeq(NcBuf(f), 1, w.to)]
             [] OTHER -> lr
  /\ end' = IF w.op = "end" THEN [end EXCEPT ![f] = w.to] ELSE end
  /\ commit' = IF w.op = "commit" THEN [commit EXCEPT ![f] = w.to] ELSE commit
  /\ log' = IF w.op = "log" THEN [log EXCEPT ![f] = Overwrite(@, w.from, w.to)] ELSE log

Execute(f) ==
  LET q == qp[f]
      w == Head(q.wq)
  IN  /\ q.wq # << >>
      /\ TakesEffect(f, w)
      /\ qp' = [qp EXCEPT ![f].wq = Tail(@),
                          ![f].wc = IF Signaled(w) THEN Append(@, "success") ELSE @]
      /\ UNCHANGED <<rest, pc, fails>>

\* The queue pair fails: the requests in it are flushed; the first may have
\* taken effect although its acknowledgement is lost.
Fail(f) ==
  LET q == qp[f]
  IN  /\ f \in Faulty
      /\ q.wq # << >>
      /\ fails < MaxFails
      /\ fails' = fails + 1
      /\ TakesEffect(f, Head(q.wq)) \/ UNCHANGED <<memory, lr>>
      /\ qp' = [qp EXCEPT ![f] = [state |-> "broken", wq |-> << >>,
                                  wc |-> q.wc \o Flushed(q.wq)]]
      /\ UNCHANGED <<rest, pc>>

\* handle_lr_work_completion: the server after a completion.
NextStep(step) ==
  CASE step = "GET_NCE_LEN" -> "GET_NCE"
    [] step = "GET_NCE" -> "SET_END"
    [] step = "SET_END" -> "UPDATE_LOG"
    [] step = "UPDATE_LOG" -> "UPDATE_END"
    [] step = "UPDATE_END" -> "UPDATE_LOG"

\* Mutant of Completed: the first of two completions raises the send flag.
Completed_FirstPart(r, status) ==
  IF status = "lazy" THEN r
  ELSE [r EXCEPT !.send_flag = TRUE,
                 !.step = IF status = "success" THEN NextStep(r.step) ELSE @]

\* Mutant of Completed: the completions of all steps are counted as parts of a
\* log write.
Completed_CountAll(r, status) ==
  IF status = "lazy" THEN r
  ELSE [r EXCEPT !.send_count = @ - 1, !.send_flag = TRUE,
                 !.step = IF status = "success" THEN NextStep(r.step) ELSE @]

Completed(r, status) ==
  CASE status = "lazy" -> r
    [] status # "lazy" /\ r.step = "UPDATE_LOG" /\ r.send_count = 2 ->
         [r EXCEPT !.send_count = IF status = "success" THEN 1 ELSE 0]
    [] status # "lazy" /\ r.step = "UPDATE_LOG" /\ r.send_count = 0 ->
         [r EXCEPT !.send_flag = TRUE]
    [] OTHER ->
         [r EXCEPT !.send_flag = TRUE,
                   !.step = IF status = "success" THEN NextStep(r.step) ELSE @]

\* The leader polls a completion (empty_completion_queue).
Poll(f) ==
  LET q == qp[f]
  IN  /\ q.wc # << >>
      /\ lr' = [lr EXCEPT ![f] = Completed(lr[f], Head(q.wc))]
      /\ qp' = [qp EXCEPT ![f].wc = Tail(@),
                          ![f].state = IF Head(q.wc) = "success" THEN @ ELSE "error"]
      /\ UNCHANGED <<memory, rest, pc, fails>>

\* The pruning timer posts a read of the apply offset, which is not signaled.
\* Here it matters for a queue pair in error, which this post restarts.
GetRemoteApplyOffset(f) ==
  /\ pc = "adjust"
  /\ lr[f].acked
  /\ qp[f].state = "error"
  /\ qp' = [qp EXCEPT ![f] = [state |-> "active", wq |-> << >>, wc |-> << >>]]
  /\ UNCHANGED <<memory, lr, rest, pc, fails>>

-----------------------------------------------------------------------------

WriteRemoteLogs ==
  \/ LogAdjustment \/ UpdateRemoteLogs \/ PostSecondPart
  \/ FindCommitted \/ UpdateRemoteCommits

Next ==
  \/ AppendEntry
  \/ WriteRemoteLogs
  \/ \E f \in Followers :
       VoteAck(f) \/ Execute(f) \/ Fail(f) \/ Poll(f) \/ GetRemoteApplyOffset(f)

Spec == Init /\ [][Next]_vars

\* rc_write_remote_logs empties the completion queue again and again as long
\* as it waits for a commit; otherwise only a post on a LOG queue pair does,
\* and there may be none.
PollForCommit(f) == Distance(Off(commit[Leader])) # 0 /\ Poll(f)

\* The leader's loop goes on (libev's poll callback), requests take effect or
\* fail, completions are polled while an entry waits for its commit, and the
\* servers that are up vote.
FairSpec ==
  /\ Spec
  /\ WF_vars(WriteRemoteLogs)
  /\ \A f \in Followers :
       WF_vars(VoteAck(f)) /\ WF_vars(Execute(f)) /\ WF_vars(PollForCommit(f))

-----------------------------------------------------------------------------
(* Properties *)

\* What a server has committed is, entry for entry, on a majority of the
\* servers: update_remote_logs only commits what enough of them hold, whatever
\* is in flight, fails or is retried.
CommittedOnMajority == \A s \in Servers : OnMajority(commit[s])

\* "Log entries up to the end offset of this server are valid": once the log
\* of a follower is adjusted, it holds the leader's entries up to the end
\* offset that the leader counts with in update_remote_logs.
ValidUpToEnd ==
  \A f \in Followers : lr[f].step = "UPDATE_LOG" =>
    /\ lr[f].end <= end[f]
    /\ SameUpTo(log[f], log[Leader], lr[f].end)

\* The completion that a step of f waits for is still to come.
Outstanding(f) ==
  \/ \E k \in DOMAIN qp[f].wc : qp[f].wc[k] # "lazy"
  \/ \E k \in DOMAIN qp[f].wq : Signaled(qp[f].wq[k])
  \/ rest[f] # << >>

\* "Stop posting sends until a WC is received": while the send flag of a
\* follower is up, none of its signaled requests and none of their completions
\* is outstanding, whatever failed and was restarted.  Then no completion is
\* taken for that of another step.
OneStepAtATime == \A f \in Followers : lr[f].send_flag => ~Outstanding(f)

\* The other direction: the leader only waits for what can still come.
NeverWaitsInVain == \A f \in Followers : ~lr[f].send_flag => Outstanding(f)

\* The lazy update of the commit offsets never makes a follower apply an entry
\* that it does not have or that is not the leader's.
SameCommitted ==
  \A s \in Servers : /\ commit[s] <= end[s]
                     /\ commit[s] <= end[Leader]
                     /\ SameUpTo(log[s], log[Leader], commit[s])

\* Neither a commit offset nor the end of the committed entries moves back:
\* a log adjustment or a late request never takes a committed entry away.
CommitMonotone ==
  [][\A s \in Servers : commit'[s] >= commit[s] /\ end'[s] >= commit[s]]_vars

\* Every entry that the leader appends is committed in the end.
EntriesCommitted ==
  \A n \in 1 .. MaxEntries : end[Leader] >= n ~> commit[Leader] >= n

=============================================================================
