---------------------------- MODULE DareElection ----------------------------
(***************************************************************************)
(* Leader election among the servers of a group (dare/dare_server.c and    *)
(* the RDMA operations of dare/dare_ibv_rc.c that it uses): heartbeats,    *)
(* vote requests and vote acknowledgements written into the memory of the  *)
(* other servers, and the access to the local log that a server revokes    *)
(* and grants by resetting and reconnecting its LOG queue pairs.           *)
(*                                                                         *)
(* A state identifier (SID) [TERM|L|IDX] is a triple.  An RDMA write is in *)
(* flight on the CTRL queue pair of its sender and receiver, in order,     *)
(* until it lands or the queue pair fails.                                 *)
(***************************************************************************)
EXTENDS Integers, Sequences, FiniteSets

CONSTANTS N,            \* the servers of the group are 0 .. N-1
          Lossy,        \* bound: servers whose idle CTRL queue pairs may fail
          MaxElections, \* bound: elections started by all servers together
          MaxWire       \* bound: writes in flight between two servers

ASSUME ElectionAssumption ==
  /\ N \in Nat \ {0}
  /\ Lossy \subseteq 0 .. N - 1
  /\ MaxElections \in Nat
  /\ MaxWire \in Nat \ {0}

Servers == 0 .. N - 1
Others(s) == Servers \ {s}

\* [TERM|L|IDX]; the index N stands for "no server" (0xFF).
Sid == Nat \X {0, 1} \X (0 .. N)
Term(sid) == sid[1]
L(sid) == sid[2]
Idx(sid) == sid[3]

\* SIDs are compared as 64-bit integers.
Less(a, b) ==
  \/ a[1] < b[1]
  \/ a[1] = b[1] /\ a[2] < b[2]
  \/ a[1] = b[1] /\ a[2] = b[2] /\ a[3] < b[3]

SidNull == <<0, 0, N>>    \* ctrl_data->sid before the first election
NoSid == <<0, 0, 0>>      \* an empty heartbeat or vote request slot

\* The last entry of a log, as far as elections compare it.
NoEntry == [term |-> 0, idx |-> 0]
Entry == [term : Nat, idx : Nat]
Worse(a, b) == a.term < b.term \/ (a.term = b.term /\ a.idx < b.idx)

Request == [sid : Sid, last : Entry]
NoRequest == [sid |-> NoSid, last |-> NoEntry]

HbMsg(sid) == [kind |-> "hb", sid |-> sid, last |-> NoEntry]
ReqMsg(sid, last) == [kind |-> "req", sid |-> sid, last |-> last]
AckMsg == [kind |-> "ack", sid |-> NoSid, last |-> NoEntry]
Msg == [kind : {"hb", "req", "ack"}, sid : Sid, last : Entry]

VARIABLES
  sid,        \* ctrl_data->sid
  hb,         \* hb[s][i]: ctrl_data->hb[i] in the memory of s
  vote_req,   \* vote_req[s][i]: ctrl_data->vote_req[i] in the memory of s
  vote_ack,   \* vote_ack[s]: the i with ctrl_data->vote_ack[i] # log->len
  mode,       \* the callback of hb_event: "receive" or "send"
  access,     \* access[s]: the i with log_access set in the endpoint of i
  acking,     \* acking[s]: a vote ACK of s is posted, wait_for_one not over
  last,       \* the last entry of the log of s
  wire,       \* wire[s][i]: writes in flight on the CTRL queue pair s -> i
  elections,  \* how many elections have been started
  granted     \* history: <<term, i>> when s gave i access to its log

vars == <<sid, hb, vote_req, vote_ack, mode, access, acking, last, wire, elections, granted>>

\* The type invariant: what control_data_t, the endpoints of dare_ib_device_t
\* and hb_event hold.  No server has a queue pair, a vote or a log access of
\* its own.
TypeOK ==
  /\ sid \in [Servers -> Sid]
  /\ hb \in [Servers -> [Servers -> Sid]]
  /\ vote_req \in [Servers -> [Servers -> Request]]
  /\ vote_ack \in [Servers -> SUBSET Servers]
  /\ mode \in [Servers -> {"receive", "send"}]
  /\ access \in [Servers -> SUBSET Servers]
  /\ acking \in [Servers -> BOOLEAN]
  /\ last \in [Servers -> Entry]
  /\ wire \in [Servers -> [Servers -> Seq(Msg)]]
  /\ \A s \in Servers : s \notin access[s] /\ s \notin vote_ack[s]
  /\ elections \in 0 .. MaxElections
  /\ granted \in [Servers -> SUBSET (Nat \X Servers)]

Init ==
  /\ sid = [s \in Servers |-> SidNull]
  /\ hb = [s \in Servers |-> [i \in Servers |-> NoSid]]
  /\ vote_req = [s \in Servers |-> [i \in Servers |-> NoRequest]]
  /\ vote_ack = [s \in Servers |-> {}]
  /\ mode = [s \in Servers |-> "receive"]
  /\ access = [s \in Servers |-> {}]
  /\ acking = [s \in Servers |-> FALSE]
  /\ last = [s \in Servers |-> NoEntry]
  /\ wire = [s \in Servers |-> [i \in Servers |-> << >>]]
  /\ elections = 0
  /\ granted = [s \in Servers |-> {}]

IsLeader(s) == sid[s][3] = s /\ sid[s][2] = 1
IsCandidate(s) == sid[s][3] = s /\ sid[s][2] = 0

-----------------------------------------------------------------------------
(* Steps shared by the handlers *)

\* post_send on the CTRL queue pairs from s to the servers in dst.  A write
\* beyond the bound is lost, as with a queue pair in error.
Post(w, s, dst, msg) ==
  [w EXCEPT ![s] = [i \in Servers |->
     IF i \in dst /\ Len(w[s][i]) < MaxWire THEN Append(w[s][i], msg) ELSE w[s][i]]]

\* rc_send_vote_ack to the server in this SID; there is nothing to send when
\* the server is s itself.
PostAck(w, s, id) ==
  [w EXCEPT ![s] = [i \in Servers |->
     IF i = Idx(id) /\ i # s THEN Append(w[s][i], AckMsg) ELSE w[s][i]]]

\* Mutant of Restored: the case of the own SID is left out.
Restored_NoOwnCase(s, id) == {Idx(id)}

\* rc_restore_log_access, after a revocation, for this SID: whom s connects.
Restored(s, id) ==
  IF Idx(id) # s THEN {Idx(id)} ELSE IF L(id) = 1 THEN Others(s) ELSE {}

\* Mutant of Grant: the access is restored without revoking the old one.
Grant_NoRevoke(s, id) ==
  /\ access' = [access EXCEPT ![s] = @ \cup Restored(s, id)]
  /\ granted' = [granted EXCEPT ![s] = @ \cup {<<Term(id), Idx(id)>>}]

Grant(s, id) ==
  /\ access' = [access EXCEPT ![s] = Restored(s, id)]
  /\ granted' = [granted EXCEPT ![s] = @ \cup {<<Term(id), Idx(id)>>}]

\* start_election: the next term, nobody but me, no votes, ask everybody.  The
\* request is built in the own slot of vote_req and written from there.
start_election(s, w) ==
  LET new == <<Term(sid[s]) + 1, 0, s>>
  IN  /\ elections < MaxElections
      /\ elections' = elections + 1
      /\ sid' = [sid EXCEPT ![s] = new]
      /\ access' = [access EXCEPT ![s] = {}]
      /\ vote_ack' = [vote_ack EXCEPT ![s] = {}]
      /\ mode' = [mode EXCEPT ![s] = "receive"]
      /\ acking' = [acking EXCEPT ![s] = FALSE]
      /\ vote_req' = [vote_req EXCEPT ![s][s] = [sid |-> new, last |-> last[s]]]
      /\ wire' = Post(w, s, Others(s), ReqMsg(new, last[s]))
      /\ UNCHANGED <<last, granted>>

\* server_to_follower with this SID: reset the LOG queue pairs, connect the
\* leader's, and tell another leader that the log is accessible.
server_to_follower(s, id, w) ==
  /\ Grant(s, id)
  /\ mode' = [mode EXCEPT ![s] = "receive"]
  /\ wire' = PostAck(w, s, id)
  /\ acking' = [acking EXCEPT ![s] = Idx(id) # s]

-----------------------------------------------------------------------------
(* The heartbeat timer *)

Leaders(s) == {i \in Others(s) : L(hb[s][i]) = 1}

\* No heartbeat that is at least as large as the SID.
Timeout(s) == \A i \in Others(s) : hb[s][i] = NoSid \/ Less(hb[s][i], sid[s])

\* Leaders whose heartbeat is outdated when the loop meets it.
Outdated(s) ==
  {i \in Leaders(s) : \/ Less(hb[s][i], sid[s])
                      \/ \E j \in Leaders(s) : j < i /\ Less(hb[s][i], hb[s][j])}

ClearHb(s, I) ==
  hb' = [hb EXCEPT ![s] = [i \in Servers |-> IF i \in I THEN NoSid ELSE hb[s][i]]]

\* The largest of the SID and the leaders' heartbeats.
BestHb(s, new) ==
  LET all == {sid[s]} \cup {hb[s][i] : i \in Leaders(s)}
  IN  new \in all /\ \A h \in all : ~Less(new, h)

\* hb_receive_cb.  A heartbeat of the same term changes the SID only.
HbReceive(s) ==
  LET w == Post(wire, s, Outdated(s), HbMsg(sid[s]))
  IN  /\ mode[s] = "receive" /\ ~acking[s]
      /\ ClearHb(s, Others(s))
      /\ \/ Timeout(s) /\ start_election(s, w)
         \/ /\ ~Timeout(s)
            /\ \E new \in {sid[s]} \cup {hb[s][i] : i \in Leaders(s)} :
                 /\ BestHb(s, new)
                 /\ sid' = [sid EXCEPT ![s] = new]
                 /\ \/ /\ Term(new) # Term(sid[s])
                       /\ server_to_follower(s, new, w)
                    \/ /\ Term(new) = Term(sid[s])
                       /\ wire' = w
                       /\ UNCHANGED <<mode, access, acking, granted>>
            /\ UNCHANGED <<vote_req, vote_ack, last, elections>>

\* The first server whose heartbeat slot holds at least the leader's own SID.
Replied(s) == {i \in Others(s) : ~Less(hb[s][i], sid[s])}

\* hb_send_cb.  After a reply with a larger SID the leader runs
\* server_to_follower, but with its own SID.
HbSend(s) ==
  /\ mode[s] = "send" /\ ~acking[s]
  /\ \/ /\ Replied(s) = {}
        /\ ClearHb(s, Others(s))
        /\ wire' = Post(wire, s, Others(s), HbMsg(sid[s]))
        /\ UNCHANGED <<mode, access, acking, granted>>
     \/ \E i \in Replied(s) :
          /\ \A j \in Replied(s) : i <= j
          /\ ClearHb(s, {j \in Others(s) : j <= i})
          /\ server_to_follower(s, sid[s], wire)
  /\ UNCHANGED <<sid, vote_req, vote_ack, last, elections>>

-----------------------------------------------------------------------------
(* Polling *)

HasVotes(s) == IsCandidate(s) /\ Cardinality(vote_ack[s] \ {s}) + 1 >= N \div 2 + 1

\* poll_vote_count with enough votes: lead, append the blank CONFIG entry and
\* connect the LOG queue pairs of all servers.
PollVoteCount(s) ==
  LET new == <<Term(sid[s]), 1, s>>
  IN  /\ ~acking[s] /\ HasVotes(s)
      /\ sid' = [sid EXCEPT ![s] = new]
      /\ last' = [last EXCEPT ![s] = [term |-> Term(new), idx |-> @.idx + 1]]
      /\ mode' = [mode EXCEPT ![s] = "send"]
      /\ Grant(s, new)
      /\ UNCHANGED <<hb, vote_req, vote_ack, acking, wire, elections>>

\* poll_vote_requests runs when no leader is known.
Polls(s) == ~acking[s] /\ ~HasVotes(s) /\ L(sid[s]) = 0

\* The server that s supports has sent a heartbeat in the same term.
KnowsLeader(s) ==
  /\ Idx(sid[s]) \in Servers
  /\ hb[s][Idx(sid[s])] # NoSid
  /\ Term(hb[s][Idx(sid[s])]) = Term(sid[s])

FollowHb(s) ==
  /\ Polls(s) /\ KnowsLeader(s)
  /\ sid' = [sid EXCEPT ![s] = hb[s][Idx(sid[s])]]
  /\ UNCHANGED <<hb, vote_req, vote_ack, mode, access, acking, last, wire, elections, granted>>

\* Mutant of OldSid: the L flag is not set.
OldSid_NoFlag(s) == sid[s]

\* The L flag set "to avoid voting twice in the same term".
OldSid(s) == <<Term(sid[s]), 1, Idx(sid[s])>>

\* Mutant of Better: requests are not compared with the own SID.
Better_AnySid(s) == {i \in Servers : i > s /\ vote_req[s][i].sid # NoSid}

\* Only requests of servers with a larger index make s look closer.
Better(s) == {i \in Servers : i > s /\ Less(OldSid(s), vote_req[s][i].sid)}

\* The requests up to s, the others having been dropped, or none at all.
DropRequests(s) ==
  /\ Polls(s) /\ ~KnowsLeader(s) /\ Better(s) = {}
  /\ vote_req' = [vote_req EXCEPT ![s] =
       [i \in Servers |-> IF i > s THEN NoRequest ELSE vote_req[s][i]]]
  /\ UNCHANGED <<sid, hb, vote_ack, mode, access, acking, last, wire, elections, granted>>

\* The requests that the second loop finds: the first has dropped those it
\* saw after a request with a larger SID.
Standing(s) ==
  {i \in Servers : i <= s}
    \cup {i \in Better(s) : \A j \in Better(s) :
            j < i => Less(vote_req[s][j].sid, vote_req[s][i].sid)}

\* best_request when the second loop reaches i, if it has liked the set A.
Held(s, A, i) ==
  LET B == {j \in A : j < i}
  IN  IF B = {} THEN [sid |-> OldSid(s), last |-> last[s]]
      ELSE vote_req[s][CHOOSE j \in B : \A k \in B : k <= j]

\* The SID of request i is good enough (best_request.sid >= OldSid(s)).
GoodSid(s, A, i) ==
  /\ i \in Standing(s)
  /\ ~Less(vote_req[s][i].sid, OldSid(s))
  /\ ~Less(vote_req[s][i].sid, Held(s, A, i).sid)

\* A is the set of requests that the second loop likes.
Liked(s, A) ==
  \A i \in Servers :
    i \in A <=> GoodSid(s, A, i) /\ ~Worse(vote_req[s][i].last, Held(s, A, i).last)

ClearRequests(s) ==
  vote_req' = [vote_req EXCEPT ![s] = [i \in Servers |-> NoRequest]]

\* Vote for the last server that the second loop likes.
Vote(s) ==
  /\ Polls(s) /\ ~KnowsLeader(s) /\ Better(s) # {}
  /\ \E A \in SUBSET Servers : \E c \in A :
       LET new == vote_req[s][c].sid
       IN  /\ Liked(s, A)
           /\ \A i \in A : i <= c
           /\ sid' = [sid EXCEPT ![s] = new]
           /\ Grant(s, new)
           /\ wire' = PostAck(wire, s, new)
           /\ acking' = [acking EXCEPT ![s] = Idx(new) # s]
  /\ ClearRequests(s)
  /\ mode' = [mode EXCEPT ![s] = "receive"]
  /\ UNCHANGED <<hb, vote_ack, last, elections>>

\* "Local log is better than remote logs": take the highest term, vote for
\* nobody.  The votes of an earlier election stay counted.
SelfPromote(s) ==
  LET terms == {Term(vote_req[s][i].sid) : i \in Better(s)
                  \cup {j \in Servers : GoodSid(s, {}, j)}}
  IN  /\ Polls(s) /\ ~KnowsLeader(s) /\ Better(s) # {}
      /\ Liked(s, {})
      /\ \E t \in terms :
           /\ \A u \in terms : u <= t
           /\ sid' = [sid EXCEPT ![s] = <<t, 0, s>>]
      /\ access' = [access EXCEPT ![s] = {}]
      /\ ClearRequests(s)
      /\ UNCHANGED <<hb, vote_ack, mode, acking, last, wire, elections, granted>>

-----------------------------------------------------------------------------
(* RDMA and replication *)

\* The oldest write from s to i lands in the memory of i.
Deliver(s, i) ==
  LET msg == Head(wire[s][i])
  IN  /\ wire[s][i] # << >>
      /\ wire' = [wire EXCEPT ![s][i] = Tail(@)]
      /\ hb' = IF msg.kind = "hb" THEN [hb EXCEPT ![i][s] = msg.sid] ELSE hb
      /\ vote_req' = IF msg.kind = "req"
                     THEN [vote_req EXCEPT ![i][s] = [sid |-> msg.sid, last |-> msg.last]]
                     ELSE vote_req
      /\ vote_ack' = IF msg.kind = "ack" THEN [vote_ack EXCEPT ![i] = @ \cup {s}]
                     ELSE vote_ack
      /\ UNCHANGED <<sid, mode, access, acking, last, elections, granted>>

\* wait_for_one sees the completion of the ACK.
AckDone(s) ==
  /\ acking[s] /\ wire[s][Idx(sid[s])] = << >>
  /\ acking' = [acking EXCEPT ![s] = FALSE]
  /\ UNCHANGED <<sid, hb, vote_req, vote_ack, mode, access, last, wire, elections, granted>>

\* wait_for_one sees the queue pair fail, the ACK landed or not.
AckFail(s) ==
  /\ acking[s]
  /\ start_election(s, [wire EXCEPT ![s][Idx(sid[s])] = << >>])
  /\ UNCHANGED hb

\* A CTRL queue pair fails with writes nobody waits for.
Lose(s, i) ==
  /\ s \in Lossy /\ wire[s][i] # << >> /\ ~(acking[s] /\ Idx(sid[s]) = i)
  /\ wire' = [wire EXCEPT ![s][i] = << >>]
  /\ UNCHANGED <<sid, hb, vote_req, vote_ack, mode, access, acking, last, elections, granted>>

\* A leader brings the log of a server up to date that sent it an ACK and
\* whose LOG queue pair is connected at both ends.
Replicate(s, i) ==
  /\ IsLeader(s) /\ ~acking[s] /\ i \in vote_ack[s]
  /\ i \in access[s] /\ s \in access[i]
  /\ last' = [last EXCEPT ![i] = last[s]]
  /\ UNCHANGED <<sid, hb, vote_req, vote_ack, mode, access, acking, wire, elections, granted>>

Next ==
  \E s \in Servers :
    \/ HbReceive(s) \/ HbSend(s)
    \/ PollVoteCount(s)
    \/ FollowHb(s) \/ DropRequests(s) \/ Vote(s) \/ SelfPromote(s)
    \/ AckDone(s) \/ AckFail(s)
    \/ \E i \in Others(s) : Deliver(s, i) \/ Lose(s, i) \/ Replicate(s, i)

Spec == Init /\ [][Next]_vars

-----------------------------------------------------------------------------
(* Properties *)

\* A server never returns to a smaller SID: server_update_sid is only called
\* with a SID that is at least as large, whatever heartbeat, request or vote
\* arrives late.
SidNeverDecreases == [][\A s \in Servers : ~Less(sid'[s], sid[s])]_vars

\* While no leader is known a server keeps the candidate that it supports for
\* the whole term: poll_vote_requests sets the L flag of old_sid "to avoid
\* voting twice in the same term".
VoteOncePerTerm ==
  [][\A s \in Servers : Term(sid'[s]) = Term(sid[s]) /\ L(sid'[s]) = 0
                          => sid'[s] = sid[s]]_vars

\* In one term a server gives at most one server access to its log, itself
\* included: rc_restore_log_access runs after a vote, a new leader's heartbeat
\* or the own election, and at most one of them happens in a term.
GrantOncePerTerm ==
  \A s \in Servers : \A g1, g2 \in granted[s] : g1[1] = g2[1] => g1 = g2

\* The servers that have given i access to their logs in term t, and the
\* servers that have got it from a majority.
Backers(t, i) == {s \in Servers : <<t, i>> \in granted[s]}
Writers(t) == {i \in Servers : 2 * Cardinality(Backers(t, i)) > N}

\* Only one server gets, over the whole term, access to the logs of a majority,
\* so only one can commit entries of the term, even though two may consider
\* themselves leaders (ElectionSafety): votes alone are not enough to replicate.
OneWriterPerTerm ==
  \A t \in {g[1] : g \in UNION {granted[s] : s \in Servers}} :
    \A i, j \in Writers(t) : i = j

\* Fencing: a server that is behind the term of s cannot write the log of s,
\* because s has revoked the access before its term grew, unless s has led in
\* this term and opened its queue pairs to everybody.
Fenced ==
  \A s \in Servers : \A i \in access[s] :
    <<Term(sid[s]), s>> \notin granted[s] => Term(sid[s]) <= Term(sid[i])

\* Two servers never lead in the same term.  poll_vote_requests avoids "voting
\* twice in the same term" and start_election clears "votes from a previous
\* election", so that a majority elects one leader.
ElectionSafety ==
  \A s, i \in Servers :
    IsLeader(s) /\ IsLeader(i) /\ Term(sid[s]) = Term(sid[i]) => s = i

\* A leader that leaves the sending of heartbeats is a leader no more: "a
\* leader renounces its leadership when it receives an HB reply from a server
\* with a larger term" (poll_vote_requests).
LeaderRenounces ==
  [][\A s \in Servers : mode[s] = "send" /\ mode'[s] = "receive"
                          => ~(L(sid'[s]) = 1 /\ Idx(sid'[s]) = s)]_vars

\* hb_receive_cb skips server_to_follower for a heartbeat of the same term,
\* which is "from the recently elected leader": that leader can write the log
\* already.
RecentLeaderHasAccess ==
  [][\A s \in Servers :
       LET i == Idx(sid'[s])
       IN  sid'[s] # sid[s] /\ Term(sid'[s]) = Term(sid[s]) /\ L(sid'[s]) = 1 /\ i # s
             => i \in access[s]]_vars
=============================================================================
