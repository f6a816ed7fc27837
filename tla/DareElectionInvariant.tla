----------------------- MODULE DareElectionInvariant ------------------------
(***************************************************************************)
(* The inductive invariant of DareElection: where the SIDs in memory and   *)
(* in flight come from, and which accesses were granted in which term.     *)
(***************************************************************************)
EXTENDS DareElection

\* Every SID x found anywhere: the server in it has a SID that is at least x,
\* and if x is the SID of a candidate, the candidate grants access to nobody
\* else in that term.
Backed(S, G, x) ==
  /\ Term(x) = 0 => x \in {SidNull, NoSid}
  /\ Idx(x) = N => x = SidNull
  /\ Idx(x) # N => ~Less(S[Idx(x)], x)
  /\ Term(x) > 0 /\ L(x) = 0
       => \A j \in Servers : <<Term(x), j>> \in G[Idx(x)] => j = Idx(x)

\* x is a SID that server i has had: its term is not above that of i, and
\* if x supports another candidate, i has granted it access.
From(S, G, i, x) ==
  /\ x \in Sid
  /\ Backed(S, G, x)
  /\ Term(x) <= Term(S[i])
  /\ Term(x) > 0 /\ L(x) = 0 /\ Idx(x) # i => <<Term(x), Idx(x)>> \in G[i]

\* A request that server i has sent.
RequestFrom(i, x) == Term(x) > 0 /\ L(x) = 0 /\ Idx(x) = i

\* Every SID in the memory of the servers and in flight comes from the server
\* that the slot or the queue pair belongs to.
SidOk(S, G) == \A s \in Servers : From(S, G, s, S[s]) /\ S[s] # NoSid

HbOk(S, G, h) ==
  \A s, i \in Servers : From(S, G, i, h[s][i]) /\ (s = i => h[s][i] = NoSid)

ReqOk(S, G, q) ==
  \A s, i \in Servers :
    /\ From(S, G, i, q[s][i].sid)
    /\ q[s][i].sid # NoSid => RequestFrom(i, q[s][i].sid)

WireOk(S, G, w) ==
  \A s, i \in Servers :
    /\ s = i => w[s][i] = << >>
    /\ \A k \in 1 .. Len(w[s][i]) :
         /\ From(S, G, s, w[s][i][k].sid)
         /\ w[s][i][k].kind = "req" => RequestFrom(s, w[s][i][k].sid)

\* Grants belong to terms that both servers have reached; a candidate has
\* granted nothing yet; only a leader sends heartbeats; a server that did not
\* lead in its term gives access only to a server it granted it in this term.
GrantOk(s) ==
  /\ \A g \in granted[s] : g[1] <= Term(sid[s]) /\ g[1] <= Term(sid[g[2]])
  /\ IsCandidate(s) => \A j \in Servers : <<Term(sid[s]), j>> \notin granted[s]
  /\ mode[s] = "send" => IsLeader(s) /\ <<Term(sid[s]), s>> \in granted[s]
  /\ <<Term(sid[s]), s>> \notin granted[s]
       => \A i \in access[s] : <<Term(sid[s]), i>> \in granted[s]

\* The inductive invariant: what a server supports, what the others wrote into
\* its heartbeat and request arrays, and what is still in flight, are SIDs that
\* the sender has held; what a server may access follows from the grants.
IInv ==
  /\ TypeOK
  /\ SidOk(sid, granted)
  /\ HbOk(sid, granted, hb)
  /\ ReqOk(sid, granted, vote_req)
  /\ WireOk(sid, granted, wire)
  /\ \A s \in Servers : GrantOk(s)
  /\ GrantOncePerTerm

=============================================================================
