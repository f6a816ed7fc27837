------------------------- MODULE DareElectionProofs -------------------------
(***************************************************************************)
(* Theorems about the elections of DareElection, for every number of       *)
(* servers and every bound: SIDs do not decrease, a server grants access   *)
(* to its log once in a term, one server per term has the logs of a        *)
(* majority, and servers that are behind are fenced off.  They follow from *)
(* the invariant of DareElectionInvariant, which each action preserves:    *)
(* lemmas about the changes that the handlers share, one lemma per action, *)
(* and the theorems at the end.                                            *)
(***************************************************************************)
EXTENDS DareElectionInvariant, FiniteSetTheorems, TLAPS

\* The time that the provers may take for a step.
USE SMTT(30)

-----------------------------------------------------------------------------
(* SIDs and what is known of them *)

\* What a step may do to the SIDs and to the granted accesses.
Grows(S, G, S2, G2) ==
  \A s \in Servers :
    /\ ~Less(S2[s], S[s])
    /\ G[s] \subseteq G2[s]
    /\ \A g \in G2[s] : g \in G[s] \/ g[1] > Term(S[s]) \/ g[2] = s

SidFun == [Servers -> Sid]
GrantFun == [Servers -> SUBSET (Nat \X Servers)]
WireFun == [Servers -> [Servers -> Seq(Msg)]]

\* The comparison of SIDs, that of 64-bit integers, is a strict total order.
LEMMA LessOrder ==
  ASSUME NEW a \in Sid, NEW b \in Sid, NEW c \in Sid
  PROVE  /\ ~Less(a, a)
         /\ Less(a, b) /\ Less(b, c) => Less(a, c)
         /\ Less(a, b) \/ Less(b, a) \/ a = b
         /\ ~Less(a, b) => Term(b) <= Term(a)
BY ElectionAssumption DEF Less, Sid, Term

\* What is known of a SID stays true when SIDs grow and accesses are granted
\* in later terms, or to the granting server itself.
LEMMA FromStable ==
  ASSUME NEW S \in SidFun, NEW S2 \in SidFun, NEW G \in GrantFun, NEW G2 \in GrantFun,
         Grows(S, G, S2, G2), NEW i \in Servers, NEW x, From(S, G, i, x)
  PROVE  From(S2, G2, i, x)
<1>1. x \in Sid BY Zenon DEF From
<1>2. Term(x) <= Term(S2[i])
  BY LessOrder, <1>1 DEF From, Grows, SidFun, Term, Sid, Less
<1>3. Term(x) > 0 /\ L(x) = 0 /\ Idx(x) # i => <<Term(x), Idx(x)>> \in G2[i]
  BY Zenon DEF From, Grows
<1>4. CASE Idx(x) = N
  BY <1>1, <1>2, <1>3, <1>4, ElectionAssumption
     DEF From, Backed, SidNull, Term, Idx, L
<1>5. CASE Idx(x) # N
  <2>1. Idx(x) \in Servers
    BY <1>1, <1>5, ElectionAssumption DEF Sid, Idx, Servers
  <2>2. S[Idx(x)] \in Sid /\ S2[Idx(x)] \in Sid
    BY <2>1, Zenon DEF SidFun
  <2>3. ~Less(S[Idx(x)], x)
    BY <1>5, Zenon DEF From, Backed
  <2>4. ~Less(S2[Idx(x)], x)
    BY <1>1, <2>1, <2>2, <2>3, LessOrder, Zenon DEF Grows
  <2>5. Term(x) <= Term(S[Idx(x)])
    BY <1>1, <2>2, <2>3, LessOrder, Zenon
  <2>6. ASSUME Term(x) > 0, L(x) = 0, NEW j \in Servers, <<Term(x), j>> \in G2[Idx(x)]
        PROVE  j = Idx(x)
    <3>1. Term(x) \in Nat /\ Term(S[Idx(x)]) \in Nat
      BY <1>1, <2>2, Zenon DEF Sid, Term
    <3>2. \/ <<Term(x), j>> \in G[Idx(x)]
          \/ Term(x) > Term(S[Idx(x)])
          \/ j = Idx(x)
      BY <2>1, <2>6, Zenon DEF Grows
    <3> QED
      BY <2>5, <2>6, <3>1, <3>2 DEF From, Backed
  <2> QED
    BY <1>1, <1>2, <1>3, <1>5, <2>4, <2>6, Zenon DEF From, Backed
<1> QED BY <1>4, <1>5, Zenon

\* Only empty slots and servers before their first election have term 0.
LEMMA Positive ==
  ASSUME NEW S, NEW G, NEW i, NEW x, From(S, G, i, x)
  PROVE  /\ Term(x) \in Nat /\ L(x) \in {0, 1} /\ x = <<Term(x), L(x), Idx(x)>>
         /\ Term(x) > 0 => Idx(x) \in Servers /\ Idx(x) # N
         /\ Idx(x) \in Servers /\ x # NoSid => Term(x) > 0
<1>1. /\ Term(x) \in Nat /\ L(x) \in {0, 1} /\ x = <<Term(x), L(x), Idx(x)>>
      /\ Idx(x) \in 0 .. N
  BY DEF From, Sid, Term, L, Idx
<1>2. Idx(x) \in Servers <=> Idx(x) # N
  BY <1>1, ElectionAssumption DEF Servers
<1>3. Term(SidNull) = 0 /\ Idx(SidNull) = N
  BY Zenon DEF SidNull, Term, Idx
<1> QED BY <1>1, <1>2, <1>3 DEF From, Backed

\* An empty slot says nothing about its server.
LEMMA FromNoSid ==
  ASSUME NEW S \in SidFun, NEW G \in GrantFun, NEW i \in Servers
  PROVE  From(S, G, i, NoSid)
<1>1. S[i] \in Sid /\ 0 \in Servers /\ S[0] \in Sid
  BY ElectionAssumption DEF SidFun, Servers
<1> QED
  BY <1>1, ElectionAssumption DEF From, Backed, NoSid, Sid, Term, L, Idx, Less

-----------------------------------------------------------------------------
(* Writes in flight *)

\* post_send adds the write to the queue pairs of its destinations only.
LEMMA PostOk ==
  ASSUME NEW S, NEW G, NEW w \in WireFun, NEW s \in Servers, NEW dst \in SUBSET Others(s),
         NEW msg \in Msg, WireOk(S, G, w), From(S, G, s, msg.sid),
         msg.kind = "req" => RequestFrom(s, msg.sid)
  PROVE  Post(w, s, dst, msg) \in WireFun /\ WireOk(S, G, Post(w, s, dst, msg))
<1> DEFINE p == Post(w, s, dst, msg)
<1>1. ASSUME NEW a \in Servers, NEW b \in Servers
      PROVE  \/ p[a][b] = w[a][b]
             \/ a = s /\ a # b /\ p[a][b] = Append(w[a][b], msg)
  BY <1>1, Zenon DEF Post, WireFun, Others
<1>2. p \in WireFun
  <2>1. p = [a \in Servers |-> [b \in Servers |-> p[a][b]]]
    BY Zenon DEF Post, WireFun
  <2>2. \A a, b \in Servers : p[a][b] \in Seq(Msg)
    <3>1. SUFFICES ASSUME NEW a \in Servers, NEW b \in Servers PROVE p[a][b] \in Seq(Msg)
      BY Zenon
    <3>2. w[a][b] \in Seq(Msg) BY Zenon DEF WireFun
    <3>3. Append(w[a][b], msg) \in Seq(Msg) BY <3>2
    <3> QED BY <1>1, <3>2, <3>3, Zenon
  <2> QED BY <2>1, <2>2, Zenon DEF WireFun
<1>3. ASSUME NEW a \in Servers, NEW b \in Servers
      PROVE  /\ a = b => p[a][b] = << >>
             /\ \A k \in 1 .. Len(p[a][b]) :
                  /\ From(S, G, a, p[a][b][k].sid)
                  /\ p[a][b][k].kind = "req" => RequestFrom(a, p[a][b][k].sid)
  <2>1. CASE p[a][b] = w[a][b] BY <2>1, Zenon DEF WireOk
  <2>2. CASE a = s /\ a # b /\ p[a][b] = Append(w[a][b], msg)
    <3>1. w[a][b] \in Seq(Msg) BY Zenon DEF WireFun
    <3>2. \A k \in 1 .. Len(p[a][b]) : p[a][b][k] = msg \/ (k \in 1 .. Len(w[a][b]) /\ p[a][b][k] = w[a][b][k])
      BY <2>2, <3>1
    <3> QED BY <2>2, <3>2 DEF WireOk
  <2> QED BY <1>1, <2>1, <2>2, Zenon
<1> QED BY <1>2, <1>3, Zenon DEF WireOk

\* rc_send_vote_ack adds one write, to another server.
LEMMA PostAckOk ==
  ASSUME NEW S \in SidFun, NEW G \in GrantFun, NEW w \in WireFun, NEW s \in Servers,
         NEW id \in Sid, WireOk(S, G, w)
  PROVE  PostAck(w, s, id) \in WireFun /\ WireOk(S, G, PostAck(w, s, id))
<1> DEFINE p == PostAck(w, s, id)
<1>1. ASSUME NEW a \in Servers, NEW b \in Servers
      PROVE  \/ p[a][b] = w[a][b]
             \/ a = s /\ a # b /\ p[a][b] = Append(w[a][b], AckMsg)
  BY <1>1, Zenon DEF PostAck, WireFun
<1>2. AckMsg \in Msg /\ AckMsg.sid = NoSid /\ AckMsg.kind # "req"
  <2>1. NoSid \in Sid BY ElectionAssumption DEF NoSid, Sid
  <2> QED BY <2>1, Zenon DEF AckMsg, Msg, NoEntry, Entry
<1>3. p \in WireFun
  <2>1. p = [a \in Servers |-> [b \in Servers |-> p[a][b]]]
    BY Zenon DEF PostAck, WireFun
  <2>2. \A a, b \in Servers : p[a][b] \in Seq(Msg)
    <3>1. SUFFICES ASSUME NEW a \in Servers, NEW b \in Servers PROVE p[a][b] \in Seq(Msg)
      BY Zenon
    <3>2. w[a][b] \in Seq(Msg) BY Zenon DEF WireFun
    <3>3. Append(w[a][b], AckMsg) \in Seq(Msg) BY <3>2, <1>2
    <3> QED BY <1>1, <3>2, <3>3, Zenon
  <2> QED BY <2>1, <2>2, Zenon DEF WireFun
<1>4. ASSUME NEW a \in Servers, NEW b \in Servers
      PROVE  /\ a = b => p[a][b] = << >>
             /\ \A k \in 1 .. Len(p[a][b]) :
                  /\ From(S, G, a, p[a][b][k].sid)
                  /\ p[a][b][k].kind = "req" => RequestFrom(a, p[a][b][k].sid)
  <2>1. CASE p[a][b] = w[a][b] BY <2>1, Zenon DEF WireOk
  <2>2. CASE a = s /\ a # b /\ p[a][b] = Append(w[a][b], AckMsg)
    <3>1. w[a][b] \in Seq(Msg) BY Zenon DEF WireFun
    <3>2. \A k \in 1 .. Len(p[a][b]) : p[a][b][k] = AckMsg \/ (k \in 1 .. Len(w[a][b]) /\ p[a][b][k] = w[a][b][k])
      BY <2>2, <3>1, <1>2
    <3>3. From(S, G, a, NoSid) BY FromNoSid, Zenon
    <3> QED BY <1>2, <2>2, <3>2, <3>3 DEF WireOk
  <2> QED BY <1>1, <2>1, <2>2, Zenon
<1> QED BY <1>3, <1>4, Zenon DEF WireOk

\* A queue pair in error loses its writes.
LEMMA FlushOk ==
  ASSUME NEW S, NEW G, NEW w \in WireFun, NEW s \in Servers, NEW i, WireOk(S, G, w)
  PROVE  [w EXCEPT ![s][i] = << >>] \in WireFun /\ WireOk(S, G, [w EXCEPT ![s][i] = << >>])
<1> DEFINE p == [w EXCEPT ![s][i] = << >>]
<1>1. \A a, b \in Servers : p[a][b] = w[a][b] \/ p[a][b] = << >>
  BY Zenon DEF WireFun
<1>2. p \in WireFun
  <2>1. p = [a \in Servers |-> [b \in Servers |-> p[a][b]]]
    BY Zenon DEF WireFun
  <2>2. \A a, b \in Servers : p[a][b] \in Seq(Msg)
    BY <1>1 DEF WireFun
  <2> QED BY <2>1, <2>2, Zenon DEF WireFun
<1> QED BY <1>1, <1>2 DEF WireOk

\* The writes left in flight when the oldest one has landed.
LEMMA TailElements ==
  ASSUME NEW T, NEW q \in Seq(T), Len(q) > 0
  PROVE  \A k \in 1 .. Len(Tail(q)) : k + 1 \in 1 .. Len(q) /\ Tail(q)[k] = q[k + 1]
OBVIOUS

\* Knowledge about the memory and the writes in flight is kept by a step.
LEMMA Stable ==
  ASSUME NEW S \in SidFun, NEW S2 \in SidFun, NEW G \in GrantFun, NEW G2 \in GrantFun,
         Grows(S, G, S2, G2)
  PROVE  /\ \A h : HbOk(S, G, h) => HbOk(S2, G2, h)
         /\ \A q : ReqOk(S, G, q) => ReqOk(S2, G2, q)
         /\ \A w : WireOk(S, G, w) => WireOk(S2, G2, w)
         /\ \A s \in Servers : From(S, G, s, S[s]) => From(S2, G2, s, S[s])
<1>1. \A i \in Servers : \A x : From(S, G, i, x) => From(S2, G2, i, x)
  BY FromStable, Zenon
<1>2. \A h : HbOk(S, G, h) => HbOk(S2, G2, h) BY <1>1, Zenon DEF HbOk
<1>3. \A q : ReqOk(S, G, q) => ReqOk(S2, G2, q) BY <1>1, Zenon DEF ReqOk
<1>4. \A w : WireOk(S, G, w) => WireOk(S2, G2, w) BY <1>1 DEF WireOk
<1> QED BY <1>1, <1>2, <1>3, <1>4, Zenon

-----------------------------------------------------------------------------
(* How a step changes the SID of one server and what it grants *)

\* A server that still knows no leader in its term has not changed its SID.
KeepsVote ==
  \A u \in Servers : Term(sid'[u]) = Term(sid[u]) /\ L(sid'[u]) = 0 => sid'[u] = sid[u]

Advances == Grows(sid, granted, sid', granted') /\ KeepsVote

\* A step that changes neither SIDs nor grants advances trivially.
LEMMA SameSids ==
  ASSUME IInv, UNCHANGED <<sid, granted>> PROVE Advances
<1>1. \A u \in Servers : ~Less(sid[u], sid[u])
  BY LessOrder, Zenon DEF IInv, TypeOK
<1> QED BY <1>1, Zenon DEF Advances, Grows, KeepsVote

\* A step that changes neither who supports whom nor the grants has only to
\* keep the messages right.
LEMMA SameServers ==
  ASSUME IInv, UNCHANGED <<sid, granted, mode, access>>, TypeOK',
         HbOk(sid, granted, hb'), ReqOk(sid, granted, vote_req'), WireOk(sid, granted, wire')
  PROVE  IInv' /\ Advances
<1>1. Advances BY SameSids, Zenon
<1>2. SidOk(sid, granted) /\ GrantOncePerTerm /\ \A u \in Servers : GrantOk(u)
  BY Zenon DEF IInv
<1>3. \A u \in Servers : GrantOk(u)'
  BY <1>2, ZenonT(40) DEF GrantOk, IsCandidate, IsLeader
<1>4. GrantOncePerTerm' BY <1>2, Zenon DEF GrantOncePerTerm
<1> QED BY <1>1, <1>2, <1>3, <1>4, Zenon DEF IInv

\* A grant is a pair of a term that both servers have reached and a server.
LEMMA GrantedPairs ==
  ASSUME IInv, NEW u \in Servers, NEW g \in granted[u]
  PROVE  /\ g = <<g[1], g[2]>> /\ g[1] \in Nat /\ g[2] \in Servers
         /\ g[1] <= Term(sid[u]) /\ g[1] <= Term(sid[g[2]])
<1>1. granted[u] \subseteq Nat \X Servers BY Zenon DEF IInv, TypeOK
<1>2. g = <<g[1], g[2]>> /\ g[1] \in Nat /\ g[2] \in Servers BY <1>1
<1>3. GrantOk(u) BY Zenon DEF IInv
<1> QED BY <1>2, <1>3, Zenon DEF GrantOk

\* A server that enters a larger term by itself claims the term for itself.
LEMMA NewClaim ==
  ASSUME IInv, NEW s \in Servers, NEW t \in Nat, t > Term(sid[s]),
         sid' = [sid EXCEPT ![s] = <<t, 0, s>>], granted' = granted,
         access' = [access EXCEPT ![s] = {}],
         mode' \in [Servers -> {"receive", "send"}], mode'[s] = "receive",
         \A u \in Servers \ {s} : mode'[u] = mode[u]
  PROVE  /\ sid' \in SidFun /\ granted' \in GrantFun
         /\ Grows(sid, granted, sid', granted')
         /\ KeepsVote
         /\ From(sid', granted', s, <<t, 0, s>>)
         /\ SidOk(sid', granted')
         /\ \A u \in Servers : GrantOk(u)'
         /\ GrantOncePerTerm'
<1> DEFINE new == <<t, 0, s>>
<1>1. sid \in SidFun /\ granted \in GrantFun /\ sid[s] \in Sid
  BY Zenon DEF IInv, TypeOK, SidFun, GrantFun
<1>2. new \in Sid /\ new # NoSid /\ s # N /\ Term(sid[s]) \in Nat
  BY <1>1, ElectionAssumption DEF Sid, Servers, NoSid, Term
<1>3. sid' \in SidFun /\ granted' \in GrantFun
  BY <1>1, <1>2, Zenon DEF SidFun
<1>4. sid'[s] = new /\ \A u \in Servers \ {s} : sid'[u] = sid[u]
  BY <1>1, Zenon DEF SidFun
<1>5. Grows(sid, granted, sid', granted')
  <2>1. ~Less(new, sid[s]) BY <1>1 DEF Less, Term, Sid
  <2>2. \A u \in Servers : ~Less(sid[u], sid[u]) BY <1>1, LessOrder, Zenon DEF SidFun
  <2> QED BY <1>4, <2>1, <2>2, Zenon DEF Grows
<1>6. \A g \in granted[s] : g[1] # t
  <2>1. \A g \in granted[s] : g[1] \in Nat /\ g[1] <= Term(sid[s])
    BY GrantedPairs, Zenon
  <2> QED BY <2>1, <1>2
<1>7. From(sid', granted', s, new)
  <2>1. ~Less(new, new) BY <1>2, LessOrder, Zenon
  <2>2. \A j \in Servers : <<t, j>> \notin granted'[s] BY <1>6, Zenon
  <2> QED BY <1>2, <1>4, <2>1, <2>2 DEF From, Backed, Term, L, Idx
<1>8. SidOk(sid', granted')
  <2>1. \A u \in Servers : From(sid, granted, u, sid[u]) /\ sid[u] # NoSid
    BY Zenon DEF IInv, SidOk
  <2>2. \A u \in Servers : From(sid', granted', u, sid[u])
    BY <1>1, <1>3, <1>5, <2>1, Stable, Zenon
  <2> QED BY <1>2, <1>4, <1>7, <2>1, <2>2, Zenon DEF SidOk
<1>9. ASSUME NEW u \in Servers PROVE GrantOk(u)'
  <2>1. \A v \in Servers : Term(sid[v]) <= Term(sid'[v]) /\ Term(sid[v]) \in Nat /\ Term(sid'[v]) \in Nat
    BY <1>1, <1>3, <1>4, <1>2 DEF SidFun, Sid, Term
  <2>2. \A g \in granted[u] : g[1] \in Nat /\ g[2] \in Servers /\ g[1] <= Term(sid[u]) /\ g[1] <= Term(sid[g[2]])
    BY GrantedPairs, Zenon
  <2>3. \A g \in granted'[u] : g[1] <= Term(sid'[u]) /\ g[1] <= Term(sid'[g[2]])
    BY <2>1, <2>2
  <2>4. CASE u = s
    <3>1. access'[s] = {} BY DEF IInv, TypeOK
    <3>2. \A j \in Servers : <<t, j>> \notin granted'[s] BY <1>6, Zenon
    <3> QED BY <1>4, <2>3, <2>4, <3>1, <3>2 DEF GrantOk, IsCandidate, IsLeader, Term
  <2>5. CASE u # s
    <3>1. access'[u] = access[u] /\ mode'[u] = mode[u] /\ sid'[u] = sid[u]
      BY <1>4, <2>5, Zenon DEF IInv, TypeOK
    <3>2. GrantOk(u) BY Zenon DEF IInv
    <3> QED BY <2>3, <3>1, <3>2, Zenon DEF GrantOk, IsCandidate, IsLeader
  <2> QED BY <2>4, <2>5, Zenon
<1>10. GrantOncePerTerm' BY Zenon DEF IInv, GrantOncePerTerm
<1>11. KeepsVote BY <1>2, <1>4 DEF KeepsVote, Term
<1> QED BY <1>3, <1>5, <1>7, <1>8, <1>9, <1>10, <1>11, Zenon

\* A server that enters a larger term because of a SID from another server
\* grants that SID's server access to its log.
LEMMA NewGrant ==
  ASSUME IInv, NEW s \in Servers, NEW i \in Servers, NEW new,
         From(sid, granted, i, new), Idx(new) # N, Term(new) > Term(sid[s]),
         sid' = [sid EXCEPT ![s] = new], Grant(s, new),
         mode' \in [Servers -> {"receive", "send"}], mode'[s] = "receive",
         \A u \in Servers \ {s} : mode'[u] = mode[u]
  PROVE  /\ sid' \in SidFun /\ granted' \in GrantFun
         /\ access' \in [Servers -> SUBSET Servers]
         /\ \A u \in Servers : u \notin access'[u]
         /\ Grows(sid, granted, sid', granted')
         /\ KeepsVote
         /\ SidOk(sid', granted')
         /\ \A u \in Servers : GrantOk(u)'
         /\ GrantOncePerTerm'
<1> DEFINE t == Term(new)
           c == Idx(new)
<1>1. sid \in SidFun /\ granted \in GrantFun /\ sid[s] \in Sid
  BY Zenon DEF IInv, TypeOK, SidFun, GrantFun
<1>2. new \in Sid /\ t \in Nat /\ c \in Servers /\ Term(sid[s]) \in Nat /\ t > 0
  BY <1>1, ElectionAssumption DEF From, Sid, Servers, Term, Idx
<1>3. ~Less(sid[c], new) /\ new # NoSid /\ sid[c] \in Sid
  BY <1>1, <1>2 DEF From, Backed, NoSid, Term, SidFun
<1>4. t <= Term(sid[c]) /\ Term(sid[c]) \in Nat
  BY <1>2, <1>3, LessOrder, Zenon DEF Sid, Term
<1>5. c # s
  BY <1>2, <1>4
<1>6. /\ sid' \in SidFun
      /\ sid'[s] = new /\ \A u \in Servers \ {s} : sid'[u] = sid[u]
  BY <1>1, <1>2, Zenon DEF SidFun
<1>7. /\ granted' \in GrantFun
      /\ granted'[s] = granted[s] \cup {<<t, c>>}
      /\ \A u \in Servers \ {s} : granted'[u] = granted[u]
  BY <1>1, <1>2 DEF GrantFun, Grant
<1>8. /\ access' \in [Servers -> SUBSET Servers]
      /\ access'[s] = {c} /\ \A u \in Servers \ {s} : access'[u] = access[u]
  BY <1>2, <1>5 DEF IInv, TypeOK, Grant, Restored
<1>9. Grows(sid, granted, sid', granted')
  <2>1. ~Less(new, sid[s]) BY <1>1, <1>2 DEF Less, Term, Sid
  <2>2. \A u \in Servers : ~Less(sid[u], sid[u]) BY <1>1, LessOrder DEF SidFun
  <2>3. \A g \in granted'[s] : g \in granted[s] \/ g[1] > Term(sid[s]) BY <1>7
  <2> QED BY <1>6, <1>7, <2>1, <2>2, <2>3 DEF Grows
<1>10. SidOk(sid', granted')
  <2>1. \A u \in Servers : From(sid, granted, u, sid[u]) /\ sid[u] # NoSid
    BY Zenon DEF IInv, SidOk
  <2>2. \A u \in Servers : From(sid', granted', u, sid[u])
    BY <1>1, <1>6, <1>7, <1>9, <2>1, Stable, ZenonT(40)
  <2>3. From(sid', granted', i, new)
    BY <1>1, <1>6, <1>7, <1>9, FromStable, ZenonT(40)
  <2>4. <<t, c>> \in granted'[s] BY <1>7, Zenon
  <2>5. From(sid', granted', s, new)
    BY <1>2, <1>6, <2>3, <2>4 DEF From
  <2> QED BY <1>3, <1>6, <2>1, <2>2, <2>5, Zenon DEF SidOk
<1>11. ASSUME NEW u \in Servers PROVE GrantOk(u)'
  <2>1. \A v \in Servers : Term(sid[v]) <= Term(sid'[v]) /\ Term(sid[v]) \in Nat /\ Term(sid'[v]) \in Nat
    BY <1>1, <1>2, <1>6 DEF SidFun, Sid, Term
  <2>2. \A g \in granted[u] : g[1] \in Nat /\ g[2] \in Servers /\ g[1] <= Term(sid[u]) /\ g[1] <= Term(sid[g[2]])
    BY GrantedPairs, Zenon
  <2>3. \A g \in granted[u] : g[1] <= Term(sid'[u]) /\ g[1] <= Term(sid'[g[2]])
    BY <2>1, <2>2
  <2>4. CASE u = s
    <3>1. \A g \in granted'[s] : g[1] <= Term(sid'[s]) /\ g[1] <= Term(sid'[g[2]])
      BY <1>2, <1>4, <1>5, <1>6, <1>7, <2>3, <2>4
    <3>2. ~IsCandidate(s)' BY <1>5, <1>6, Zenon DEF IsCandidate, Idx
    <3> QED BY <1>6, <1>7, <1>8, <2>4, <3>1, <3>2, Zenon DEF GrantOk
  <2>5. CASE u # s
    <3>1. access'[u] = access[u] /\ mode'[u] = mode[u] /\ sid'[u] = sid[u] /\ granted'[u] = granted[u]
      BY <1>6, <1>7, <1>8, <2>5, Zenon
    <3>2. GrantOk(u) BY Zenon DEF IInv
    <3> QED BY <2>3, <3>1, <3>2, Zenon DEF GrantOk, IsCandidate, IsLeader
  <2> QED BY <2>4, <2>5, Zenon
<1>12. GrantOncePerTerm'
  <2>1. \A g \in granted[s] : g[1] # t
    <3>1. \A g \in granted[s] : g[1] \in Nat /\ g[1] <= Term(sid[s]) BY GrantedPairs, Zenon
    <3> QED BY <1>2, <3>1
  <2>2. \A g1, g2 \in granted'[s] : g1[1] = g2[1] => g1 = g2
    BY <1>7, <2>1 DEF IInv, GrantOncePerTerm
  <2> QED BY <1>7, <2>2, Zenon DEF IInv, GrantOncePerTerm
<1>13. \A u \in Servers : u \notin access'[u]
  BY <1>5, <1>8, Zenon DEF IInv, TypeOK
<1>14. KeepsVote BY <1>2, <1>6 DEF KeepsVote
<1> QED BY <1>6, <1>7, <1>8, <1>9, <1>10, <1>11, <1>12, <1>13, <1>14, Zenon

\* A server that learns who leads its term changes nothing else.
LEMMA SameTerm ==
  ASSUME IInv, NEW s \in Servers, NEW i \in Servers, NEW new,
         From(sid, granted, i, new), Term(new) = Term(sid[s]), ~Less(new, sid[s]),
         new # NoSid, L(new) = 1 \/ new = sid[s], mode[s] # "send",
         sid' = [sid EXCEPT ![s] = new], UNCHANGED <<granted, access, mode>>
  PROVE  /\ sid' \in SidFun /\ granted' \in GrantFun
         /\ Grows(sid, granted, sid', granted')
         /\ KeepsVote
         /\ SidOk(sid', granted')
         /\ \A u \in Servers : GrantOk(u)'
         /\ GrantOncePerTerm'
<1>1. sid \in SidFun /\ granted \in GrantFun /\ sid[s] \in Sid /\ new \in Sid
  BY Zenon DEF IInv, TypeOK, SidFun, GrantFun, From
<1>2. /\ sid' \in SidFun /\ granted' \in GrantFun
      /\ sid'[s] = new /\ \A u \in Servers \ {s} : sid'[u] = sid[u]
  BY <1>1, Zenon DEF SidFun
<1>3. Grows(sid, granted, sid', granted')
  <2>1. \A u \in Servers : ~Less(sid[u], sid[u]) BY <1>1, LessOrder, Zenon DEF SidFun
  <2> QED BY <1>2, <2>1, Zenon DEF Grows
<1>4. SidOk(sid', granted')
  <2>1. \A u \in Servers : From(sid, granted, u, sid[u]) /\ sid[u] # NoSid
    BY Zenon DEF IInv, SidOk
  <2>2. \A u \in Servers : From(sid', granted', u, sid[u])
    BY <1>1, <1>2, <1>3, <2>1, Stable, ZenonT(40)
  <2>3. From(sid', granted', i, new)
    BY <1>1, <1>2, <1>3, FromStable, Zenon
  <2>4. From(sid', granted', s, new)
    <3>1. CASE new = sid[s] BY <2>2, <3>1, Zenon
    <3>2. CASE L(new) = 1
      <4>1. Term(new) <= Term(sid'[s]) BY <1>1, <1>2 DEF Sid, Term
      <4> QED BY <2>3, <3>2, <4>1 DEF From
    <3> QED BY <3>1, <3>2, Zenon
  <2> QED BY <1>2, <2>1, <2>2, <2>4, Zenon DEF SidOk
<1>5. ASSUME NEW u \in Servers PROVE GrantOk(u)'
  <2>1. \A v \in Servers : Term(sid'[v]) = Term(sid[v])
    BY <1>2, Zenon
  <2>2. \A g \in granted[u] : g[2] \in Servers /\ g[1] <= Term(sid[u]) /\ g[1] <= Term(sid[g[2]])
    BY GrantedPairs, Zenon
  <2>3. \A g \in granted'[u] : g[1] <= Term(sid'[u]) /\ g[1] <= Term(sid'[g[2]])
    BY <2>1, <2>2, Zenon
  <2>4. GrantOk(u) BY Zenon DEF IInv
  <2>5. IsCandidate(u)' => IsCandidate(u)
    BY <1>2 DEF IsCandidate, L
  <2>6. mode'[u] = "send" => IsLeader(u)'
    BY <1>2, <2>4, Zenon DEF GrantOk, IsLeader
  <2> QED BY <2>1, <2>3, <2>4, <2>5, <2>6, Zenon DEF GrantOk
<1>6. GrantOncePerTerm' BY Zenon DEF IInv, GrantOncePerTerm
<1>7. KeepsVote BY <1>2 DEF KeepsVote
<1> QED BY <1>2, <1>3, <1>4, <1>5, <1>6, <1>7, Zenon

\* A server that leads grants itself, and only itself, access in its term.
LEMMA OwnGrant ==
  ASSUME IInv, NEW s \in Servers, NEW t, t = Term(sid[s]), Idx(sid[s]) = s,
         \A g \in granted[s] : g[1] = t => g = <<t, s>>,
         sid' = [sid EXCEPT ![s] = <<t, 1, s>>], Grant(s, <<t, 1, s>>),
         mode' \in [Servers -> {"receive", "send"}],
         \A u \in Servers \ {s} : mode'[u] = mode[u]
  PROVE  /\ sid' \in SidFun /\ granted' \in GrantFun
         /\ access' \in [Servers -> SUBSET Servers]
         /\ \A u \in Servers : u \notin access'[u]
         /\ Grows(sid, granted, sid', granted')
         /\ KeepsVote
         /\ SidOk(sid', granted')
         /\ \A u \in Servers : GrantOk(u)'
         /\ GrantOncePerTerm'
<1> DEFINE new == <<t, 1, s>>
<1>1. sid \in SidFun /\ granted \in GrantFun /\ sid[s] \in Sid
  BY Zenon DEF IInv, TypeOK, SidFun, GrantFun
<1>2. new \in Sid /\ t \in Nat /\ s # N /\ new # NoSid
  BY <1>1, ElectionAssumption DEF Sid, Servers, NoSid, Term
<1>3. t > 0
  <2>1. Backed(sid, granted, sid[s]) /\ sid[s] # NoSid BY Zenon DEF IInv, SidOk, From
  <2> QED BY <1>2, <2>1 DEF Backed, SidNull, Idx
<1>4. ~Less(new, sid[s]) /\ ~Less(new, new)
  BY <1>1, <1>2 DEF Sid, Less, Term, Idx
<1>5. /\ sid' \in SidFun
      /\ sid'[s] = new /\ \A u \in Servers \ {s} : sid'[u] = sid[u]
  BY <1>1, <1>2, Zenon DEF SidFun
<1>6. Idx(new) = s /\ Term(new) = t /\ L(new) = 1
  BY Zenon DEF Idx, Term, L
<1>7. /\ granted' \in GrantFun
      /\ granted'[s] = granted[s] \cup {<<t, s>>}
      /\ \A u \in Servers \ {s} : granted'[u] = granted[u]
  BY <1>1, <1>2, <1>6 DEF GrantFun, Grant
<1>8. /\ access' \in [Servers -> SUBSET Servers]
      /\ access'[s] = Others(s) /\ \A u \in Servers \ {s} : access'[u] = access[u]
  BY <1>6, ZenonT(40) DEF IInv, TypeOK, Grant, Restored, Others
<1>9. Grows(sid, granted, sid', granted')
  <2>1. \A u \in Servers : ~Less(sid[u], sid[u]) BY <1>1, LessOrder, ZenonT(40) DEF SidFun
  <2>2. \A g \in granted'[s] : g \in granted[s] \/ g[2] = s BY <1>7
  <2> QED BY <1>4, <1>5, <1>7, <2>1, <2>2 DEF Grows
<1>10. SidOk(sid', granted')
  <2>1. \A u \in Servers : From(sid, granted, u, sid[u]) /\ sid[u] # NoSid
    BY Zenon DEF IInv, SidOk
  <2>2. \A u \in Servers : From(sid', granted', u, sid[u])
    BY <1>1, <1>5, <1>7, <1>9, <2>1, Stable, ZenonT(40)
  <2>3. From(sid', granted', s, new)
    BY <1>2, <1>3, <1>4, <1>5, <1>6 DEF From, Backed
  <2> QED BY <1>2, <1>5, <2>1, <2>2, <2>3, Zenon DEF SidOk
<1>11. ASSUME NEW u \in Servers PROVE GrantOk(u)'
  <2>1. \A v \in Servers : Term(sid'[v]) = Term(sid[v]) /\ Term(sid[v]) \in Nat
    BY <1>1, <1>5, <1>6, ZenonT(40) DEF SidFun, Sid, Term
  <2>2. \A g \in granted[u] : g[2] \in Servers /\ g[1] <= Term(sid[u]) /\ g[1] <= Term(sid[g[2]])
    BY GrantedPairs, Zenon
  <2>3. \A g \in granted[u] : g[1] <= Term(sid'[u]) /\ g[1] <= Term(sid'[g[2]])
    BY <2>1, <2>2, Zenon
  <2>4. CASE u = s
    <3>1. \A g \in granted'[s] : g[1] <= Term(sid'[s]) /\ g[1] <= Term(sid'[g[2]])
      <4>1. t <= Term(sid'[s]) BY <2>1
      <4>2. \A g \in granted[s] : g[1] <= Term(sid'[s]) /\ g[1] <= Term(sid'[g[2]])
        BY <2>3, <2>4, Zenon
      <4>3. ASSUME NEW g, g = <<t, s>>
            PROVE  g[1] <= Term(sid'[s]) /\ g[1] <= Term(sid'[g[2]])
        <5>1. g[1] = t /\ g[2] = s BY <4>3, Zenon
        <5> QED BY <4>1, <5>1, Zenon
      <4> QED BY <1>7, <4>2, <4>3, Zenon
    <3>2. IsLeader(s)' /\ ~IsCandidate(s)' BY <1>5 DEF IsCandidate, IsLeader
    <3> QED BY <1>5, <1>6, <1>7, <2>4, <3>1, <3>2 DEF GrantOk
  <2>5. CASE u # s
    <3>1. access'[u] = access[u] /\ mode'[u] = mode[u] /\ sid'[u] = sid[u] /\ granted'[u] = granted[u]
      BY <1>5, <1>7, <1>8, <2>5, ZenonT(40)
    <3>2. GrantOk(u) BY Zenon DEF IInv
    <3> QED BY <2>3, <3>1, <3>2, Zenon DEF GrantOk, IsCandidate, IsLeader
  <2> QED BY <2>4, <2>5, Zenon
<1>12. GrantOncePerTerm'
  <2>1. \A g1, g2 \in granted'[s] : g1[1] = g2[1] => g1 = g2
    BY <1>7 DEF IInv, GrantOncePerTerm
  <2> QED BY <1>7, <2>1, ZenonT(40) DEF IInv, GrantOncePerTerm
<1>13. \A u \in Servers : u \notin access'[u]
  BY <1>8, Zenon DEF IInv, TypeOK, Others
<1>14. KeepsVote BY <1>5, <1>6 DEF KeepsVote
<1> QED BY <1>5, <1>7, <1>8, <1>9, <1>10, <1>11, <1>12, <1>13, <1>14, Zenon

-----------------------------------------------------------------------------
(* The steps preserve the invariant *)

\* What a step leaves in the memory and on the wire is still well founded.
LEMMA Slots ==
  ASSUME IInv, sid' \in SidFun, granted' \in GrantFun, Grows(sid, granted, sid', granted')
  PROVE  /\ HbOk(sid', granted', hb)
         /\ ReqOk(sid', granted', vote_req)
         /\ WireOk(sid', granted', wire)
<1>1. sid \in SidFun /\ granted \in GrantFun
  BY Zenon DEF IInv, TypeOK, SidFun, GrantFun
<1> QED BY <1>1, Stable, Zenon DEF IInv

\* Reading heartbeats resets their slots.
LEMMA ClearHbOk ==
  ASSUME IInv, NEW s \in Servers, NEW I, ClearHb(s, I)
  PROVE  hb' \in [Servers -> [Servers -> Sid]] /\ HbOk(sid, granted, hb')
<1>1. sid \in SidFun /\ granted \in GrantFun /\ NoSid \in Sid
  BY ElectionAssumption DEF IInv, TypeOK, SidFun, GrantFun, NoSid, Sid
<1>2. \A i \in Servers : From(sid, granted, i, NoSid) BY <1>1, FromNoSid, Zenon
<1>3. hb' \in [Servers -> [Servers -> Sid]]
  BY <1>1 DEF IInv, TypeOK, ClearHb
<1>4. \A u, i \in Servers : hb'[u][i] = hb[u][i] \/ hb'[u][i] = NoSid
  BY Zenon DEF IInv, TypeOK, ClearHb
<1> QED BY <1>2, <1>3, <1>4, ZenonT(40) DEF IInv, HbOk

\* start_election claims the next term and grants nothing.
LEMMA StartElectionOk ==
  ASSUME IInv, NEW s \in Servers, NEW w \in WireFun, WireOk(sid, granted, w),
         start_election(s, w),
         hb' \in [Servers -> [Servers -> Sid]], HbOk(sid, granted, hb')
  PROVE  IInv' /\ Advances
<1> DEFINE t == Term(sid[s]) + 1
           new == <<t, 0, s>>
<1>1. sid \in SidFun /\ granted \in GrantFun /\ sid[s] \in Sid
  BY Zenon DEF IInv, TypeOK, SidFun, GrantFun
<1>2. t \in Nat /\ t > Term(sid[s]) /\ new \in Sid
  <2>1. Term(sid[s]) \in Nat BY <1>1, Zenon DEF Sid, Term
  <2>2. t \in Nat /\ t > Term(sid[s]) BY <2>1
  <2>3. s \in 0 .. N BY ElectionAssumption DEF Servers
  <2> QED BY <2>2, <2>3, Zenon DEF Sid
<1>3. /\ mode' \in [Servers -> {"receive", "send"}] /\ mode'[s] = "receive"
      /\ \A u \in Servers \ {s} : mode'[u] = mode[u]
  BY ZenonT(40) DEF IInv, TypeOK, start_election
<1>4. /\ sid' \in SidFun /\ granted' \in GrantFun
      /\ Grows(sid, granted, sid', granted')
      /\ KeepsVote
      /\ From(sid', granted', s, new)
      /\ SidOk(sid', granted')
      /\ \A u \in Servers : GrantOk(u)'
      /\ GrantOncePerTerm'
  BY <1>2, <1>3, NewClaim, Zenon DEF start_election
<1>5. HbOk(sid', granted', hb') /\ WireOk(sid', granted', w)
  BY <1>1, <1>4, Stable, ZenonT(40)
<1>6. vote_req' \in [Servers -> [Servers -> Request]] /\ ReqOk(sid', granted', vote_req')
  <2>1. /\ vote_req' = [vote_req EXCEPT ![s][s] = [sid |-> new, last |-> last[s]]]
        /\ vote_req \in [Servers -> [Servers -> Request]]
        /\ [sid |-> new, last |-> last[s]] \in Request
    BY <1>2, Zenon DEF start_election, IInv, TypeOK, Request
  <2>2. vote_req' \in [Servers -> [Servers -> Request]] BY <2>1, Zenon
  <2>3. \A u, i \in Servers : \/ vote_req'[u][i] = vote_req[u][i]
                              \/ i = s /\ vote_req'[u][i].sid = new
    BY <2>1, ZenonT(40)
  <2>4. ReqOk(sid', granted', vote_req) BY <1>4, Slots, ZenonT(40)
  <2>5. RequestFrom(s, new) BY <1>1, <1>2 DEF RequestFrom, Term, L, Idx, Sid
  <2> QED BY <1>4, <2>2, <2>3, <2>4, <2>5, Zenon DEF ReqOk
<1>7. wire' \in WireFun /\ WireOk(sid', granted', wire')
  <2>1. last[s] \in Entry BY Zenon DEF IInv, TypeOK
  <2>2. /\ ReqMsg(new, last[s]) \in Msg
        /\ ReqMsg(new, last[s]).sid = new
    BY <1>2, <2>1, ZenonT(40) DEF ReqMsg, Msg
  <2>3. RequestFrom(s, new) BY <1>1, <1>2 DEF RequestFrom, Term, L, Idx, Sid
  <2>4. wire' = Post(w, s, Others(s), ReqMsg(new, last[s])) BY ZenonT(40) DEF start_election
  <2> QED BY <1>4, <1>5, <2>2, <2>3, <2>4, PostOk, Zenon
<1>8. TypeOK'
  <2>1. /\ last' = last
        /\ vote_ack' = [vote_ack EXCEPT ![s] = {}]
        /\ access' = [access EXCEPT ![s] = {}]
        /\ acking' = [acking EXCEPT ![s] = FALSE]
        /\ elections' \in 0 .. MaxElections
    BY ElectionAssumption DEF IInv, TypeOK, start_election
  <2>2. \A u \in Servers : u \notin access'[u] /\ u \notin vote_ack'[u]
    BY <2>1, ZenonT(40) DEF IInv, TypeOK
  <2> QED BY <1>3, <1>4, <1>6, <1>7, <2>1, <2>2, Zenon DEF IInv, TypeOK, SidFun, GrantFun, WireFun
<1> QED BY <1>4, <1>5, <1>6, <1>7, <1>8, ZenonT(40) DEF IInv, Advances

\* hb_receive_cb.
LEMMA HbReceiveOk == ASSUME IInv, NEW s \in Servers, HbReceive(s) PROVE IInv' /\ Advances
<1> DEFINE w == Post(wire, s, Outdated(s), HbMsg(sid[s]))
<1>1. sid \in SidFun /\ granted \in GrantFun /\ sid[s] \in Sid /\ wire \in WireFun
  BY Zenon DEF IInv, TypeOK, SidFun, GrantFun, WireFun
<1>2. hb' \in [Servers -> [Servers -> Sid]] /\ HbOk(sid, granted, hb')
  BY ClearHbOk, Zenon DEF HbReceive
<1>3. w \in WireFun /\ WireOk(sid, granted, w)
  <2>1. /\ HbMsg(sid[s]) \in Msg /\ HbMsg(sid[s]).sid = sid[s]
        /\ HbMsg(sid[s]).kind = "hb"
    BY <1>1, ZenonT(40) DEF HbMsg, Msg, NoEntry, Entry
  <2>2. Outdated(s) \in SUBSET Others(s) BY Zenon DEF Outdated, Leaders
  <2>3. From(sid, granted, s, sid[s]) BY ZenonT(40) DEF IInv, SidOk
  <2>4. WireOk(sid, granted, wire) BY Zenon DEF IInv
  <2> QED BY <1>1, <2>1, <2>2, <2>3, <2>4, PostOk, ZenonT(40)
<1>4. CASE start_election(s, w)
  BY <1>2, <1>3, <1>4, StartElectionOk, ZenonT(40)
<1>5. ASSUME NEW new \in {sid[s]} \cup {hb[s][i] : i \in Leaders(s)}, BestHb(s, new),
             sid' = [sid EXCEPT ![s] = new],
             \/ Term(new) # Term(sid[s]) /\ server_to_follower(s, new, w)
             \/ /\ Term(new) = Term(sid[s]) /\ wire' = w
                /\ UNCHANGED <<mode, access, acking, granted>>,
             UNCHANGED <<vote_req, vote_ack, last, elections>>
      PROVE  IInv' /\ Advances
  <2>1. PICK i \in Servers : From(sid, granted, i, new) /\ (L(new) = 1 \/ new = sid[s])
    <3>1. CASE new = sid[s] BY <3>1, ZenonT(40) DEF IInv, SidOk
    <3>2. ASSUME NEW i \in Leaders(s), new = hb[s][i]
          PROVE  i \in Servers /\ From(sid, granted, i, new) /\ L(new) = 1
      BY <3>2, ZenonT(40) DEF IInv, HbOk, Leaders, Others
    <3> QED BY <1>5, <3>1, <3>2, ZenonT(40)
  <2>2. new \in Sid /\ ~Less(new, sid[s]) BY <1>5, <2>1, ZenonT(40) DEF BestHb, From
  <2>3. new # NoSid
    <3>1. CASE L(new) = 1 BY <3>1 DEF NoSid, L
    <3>2. CASE new = sid[s] BY <3>2, ZenonT(40) DEF IInv, SidOk
    <3> QED BY <2>1, <3>1, <3>2, Zenon
  <2>4. mode[s] = "receive" BY ZenonT(40) DEF HbReceive
  <2>5. CASE Term(new) # Term(sid[s]) /\ server_to_follower(s, new, w)
    <3>1. Term(new) > Term(sid[s])
      BY <1>1, <2>2, <2>5, LessOrder DEF Sid, Term
    <3>2. Idx(new) # N
      <4>1. new # sid[s] BY <2>5
      <4>2. L(new) = 1 BY <2>1, <4>1, ZenonT(40)
      <4> QED BY <2>1, <4>2 DEF From, Backed, SidNull, L
    <3>3. /\ mode' \in [Servers -> {"receive", "send"}] /\ mode'[s] = "receive"
          /\ \A u \in Servers \ {s} : mode'[u] = mode[u]
      BY <2>5, ZenonT(40) DEF IInv, TypeOK, server_to_follower
    <3>4. /\ sid' \in SidFun /\ granted' \in GrantFun
          /\ access' \in [Servers -> SUBSET Servers]
          /\ \A u \in Servers : u \notin access'[u]
          /\ Grows(sid, granted, sid', granted')
          /\ KeepsVote
          /\ SidOk(sid', granted')
          /\ \A u \in Servers : GrantOk(u)'
          /\ GrantOncePerTerm'
      BY <1>5, <2>1, <2>5, <3>1, <3>2, <3>3, NewGrant, Zenon DEF server_to_follower
    <3>10. /\ \A h : HbOk(sid, granted, h) => HbOk(sid', granted', h)
           /\ \A x : WireOk(sid, granted, x) => WireOk(sid', granted', x)
      BY <1>1, <3>4, Stable, ZenonT(40)
    <3>5. HbOk(sid', granted', hb') /\ WireOk(sid', granted', w)
      BY <1>2, <1>3, <3>10, ZenonT(40)
    <3>6. ReqOk(sid', granted', vote_req') BY <1>5, <3>4, Slots, ZenonT(40)
    <3>7. wire' \in WireFun /\ WireOk(sid', granted', wire')
      BY <1>3, <2>2, <2>5, <3>4, <3>5, PostAckOk, ZenonT(40) DEF server_to_follower
    <3>8. acking' \in [Servers -> BOOLEAN]
      BY <2>5 DEF server_to_follower, IInv, TypeOK
    <3>9. TypeOK'
      BY <1>2, <1>5, <3>3, <3>4, <3>7, <3>8, Zenon DEF IInv, TypeOK, SidFun, GrantFun, WireFun
    <3> QED BY <3>4, <3>5, <3>6, <3>7, <3>9 DEF IInv, Advances
  <2>6. CASE /\ Term(new) = Term(sid[s]) /\ wire' = w
             /\ UNCHANGED <<mode, access, acking, granted>>
    <3>1. /\ sid' \in SidFun /\ granted' \in GrantFun
          /\ Grows(sid, granted, sid', granted')
          /\ KeepsVote
          /\ SidOk(sid', granted')
          /\ \A u \in Servers : GrantOk(u)'
          /\ GrantOncePerTerm'
      BY <1>5, <2>1, <2>2, <2>3, <2>4, <2>6, SameTerm, ZenonT(40)
    <3>5. /\ \A h : HbOk(sid, granted, h) => HbOk(sid', granted', h)
           /\ \A x : WireOk(sid, granted, x) => WireOk(sid', granted', x)
      BY <1>1, <3>1, Stable, ZenonT(40)
    <3>2. HbOk(sid', granted', hb') /\ WireOk(sid', granted', wire')
      BY <1>2, <1>3, <2>6, <3>5, ZenonT(40)
    <3>3. ReqOk(sid', granted', vote_req') BY <1>5, <3>1, Slots, ZenonT(40)
    <3>4. TypeOK'
      BY <1>2, <1>3, <1>5, <2>6, <3>1, Zenon DEF IInv, TypeOK, SidFun, GrantFun, WireFun
    <3> QED BY <3>1, <3>2, <3>3, <3>4, ZenonT(40) DEF IInv, Advances
  <2> QED BY <1>5, <2>5, <2>6, ZenonT(40)
<1> QED BY <1>4, <1>5, ZenonT(40) DEF HbReceive

\* hb_send_cb.
LEMMA HbSendOk == ASSUME IInv, NEW s \in Servers, HbSend(s) PROVE IInv' /\ Advances
<1> DEFINE t == Term(sid[s])
<1>1. sid \in SidFun /\ granted \in GrantFun /\ sid[s] \in Sid /\ wire \in WireFun
  BY Zenon DEF IInv, TypeOK, SidFun, GrantFun, WireFun
<1>2. /\ mode[s] = "send" /\ sid' = sid
      /\ UNCHANGED <<vote_req, vote_ack, last, elections>>
  BY Zenon DEF HbSend
<1>3. GrantOk(s) BY Zenon DEF IInv
<1>4. sid[s] = <<t, 1, s>> /\ <<t, s>> \in granted[s]
  BY <1>1, <1>2, <1>3 DEF GrantOk, IsLeader, Sid, Term
<1>5. WireOk(sid, granted, wire) BY Zenon DEF IInv
<1>6. CASE /\ ClearHb(s, Others(s))
           /\ wire' = Post(wire, s, Others(s), HbMsg(sid[s]))
           /\ UNCHANGED <<mode, access, acking, granted>>
  <2>1. hb' \in [Servers -> [Servers -> Sid]] /\ HbOk(sid, granted, hb')
    BY <1>6, ClearHbOk, ZenonT(40)
  <2>2. /\ HbMsg(sid[s]) \in Msg /\ HbMsg(sid[s]).sid = sid[s]
        /\ HbMsg(sid[s]).kind = "hb"
    BY <1>1, Zenon DEF HbMsg, Msg, NoEntry, Entry
  <2>3. From(sid, granted, s, sid[s]) BY Zenon DEF IInv, SidOk
  <2>4. wire' \in WireFun /\ WireOk(sid, granted, wire')
    BY <1>1, <1>5, <1>6, <2>2, <2>3, PostOk, ZenonT(40)
  <2>5. TypeOK' BY <1>2, <1>6, <2>1, <2>4, ZenonT(40) DEF IInv, TypeOK, WireFun
  <2>6. ReqOk(sid, granted, vote_req') BY <1>2, ZenonT(40) DEF IInv
  <2> QED BY <1>2, <1>6, <2>1, <2>4, <2>5, <2>6, SameServers, ZenonT(40)
<1>7. ASSUME NEW i \in Replied(s), ClearHb(s, {j \in Others(s) : j <= i}),
             server_to_follower(s, sid[s], wire)
      PROVE  IInv' /\ Advances
  <2>1. hb' \in [Servers -> [Servers -> Sid]] /\ HbOk(sid, granted, hb')
    BY <1>7, ClearHbOk, ZenonT(40)
  <2>2. \A g \in granted[s] : g[1] = t => g = <<t, s>>
    BY <1>4, Zenon DEF IInv, GrantOncePerTerm
  <2>3. sid' = [sid EXCEPT ![s] = <<t, 1, s>>] /\ Grant(s, <<t, 1, s>>) /\ Idx(sid[s]) = s
    BY <1>1, <1>2, <1>4, <1>7 DEF SidFun, server_to_follower, Idx
  <2>4. /\ mode' \in [Servers -> {"receive", "send"}]
        /\ \A u \in Servers \ {s} : mode'[u] = mode[u]
    BY <1>7, ZenonT(40) DEF IInv, TypeOK, server_to_follower
  <2>5. /\ sid' \in SidFun /\ granted' \in GrantFun
        /\ access' \in [Servers -> SUBSET Servers]
        /\ \A u \in Servers : u \notin access'[u]
        /\ Grows(sid, granted, sid', granted')
        /\ KeepsVote
        /\ SidOk(sid', granted')
        /\ \A u \in Servers : GrantOk(u)'
        /\ GrantOncePerTerm'
    BY <2>2, <2>3, <2>4, OwnGrant, Zenon
  <2>6. HbOk(sid', granted', hb') BY <1>1, <2>1, <2>5, Stable, ZenonT(40)
  <2>7. ReqOk(sid', granted', vote_req') /\ WireOk(sid', granted', wire)
    BY <1>2, <2>5, Slots, ZenonT(40)
  <2>8. wire' \in WireFun /\ WireOk(sid', granted', wire')
    BY <1>1, <1>7, <2>5, <2>7, PostAckOk, ZenonT(40) DEF server_to_follower
  <2>9. acking' \in [Servers -> BOOLEAN]
    BY <1>7, ZenonT(40) DEF server_to_follower, IInv, TypeOK
  <2>10. TypeOK'
    BY <1>2, <2>1, <2>4, <2>5, <2>8, <2>9, ZenonT(40) DEF IInv, TypeOK, SidFun, GrantFun, WireFun
  <2> QED BY <2>5, <2>6, <2>7, <2>8, <2>10, Zenon DEF IInv, Advances
<1> QED BY <1>6, <1>7, Zenon DEF HbSend

\* poll_vote_count.
LEMMA PollVoteCountOk == ASSUME IInv, NEW s \in Servers, PollVoteCount(s) PROVE IInv' /\ Advances
<1> DEFINE t == Term(sid[s])
<1>1. IsCandidate(s) BY Zenon DEF PollVoteCount, HasVotes
<1>2. \A g \in granted[s] : g[1] = t => g = <<t, s>>
  <2>1. \A j \in Servers : <<t, j>> \notin granted[s]
    BY <1>1, Zenon DEF IInv, GrantOk
  <2>2. \A g \in granted[s] : g = <<g[1], g[2]>> /\ g[2] \in Servers BY GrantedPairs, Zenon
  <2> QED BY <2>1, <2>2
<1>3. /\ sid' = [sid EXCEPT ![s] = <<t, 1, s>>] /\ Grant(s, <<t, 1, s>>) /\ Idx(sid[s]) = s
      /\ UNCHANGED <<hb, vote_req, vote_ack, acking, wire, elections>>
  BY <1>1, Zenon DEF PollVoteCount, IsCandidate, Idx
<1>4. /\ mode' \in [Servers -> {"receive", "send"}]
      /\ \A u \in Servers \ {s} : mode'[u] = mode[u]
  BY ZenonT(40) DEF IInv, TypeOK, PollVoteCount
<1>5. /\ sid' \in SidFun /\ granted' \in GrantFun
      /\ access' \in [Servers -> SUBSET Servers]
      /\ \A u \in Servers : u \notin access'[u]
      /\ Grows(sid, granted, sid', granted')
      /\ KeepsVote
      /\ SidOk(sid', granted')
      /\ \A u \in Servers : GrantOk(u)'
      /\ GrantOncePerTerm'
  BY <1>2, <1>3, <1>4, OwnGrant, Zenon
<1>6. HbOk(sid', granted', hb') /\ ReqOk(sid', granted', vote_req') /\ WireOk(sid', granted', wire')
  BY <1>3, <1>5, Slots, ZenonT(40)
<1>7. last' \in [Servers -> Entry]
  <2>1. last[s].idx + 1 \in Nat BY DEF IInv, TypeOK, Entry
  <2>2. t \in Nat BY Zenon DEF IInv, TypeOK, Sid, Term
  <2>3. last' = [last EXCEPT ![s] = [term |-> t, idx |-> last[s].idx + 1]]
    BY Zenon DEF PollVoteCount, Term
  <2> QED BY <2>1, <2>2, <2>3, ZenonT(40) DEF IInv, TypeOK, Entry
<1>8. TypeOK'
  BY <1>3, <1>4, <1>5, <1>7, ZenonT(40) DEF IInv, TypeOK, SidFun, GrantFun
<1> QED BY <1>5, <1>6, <1>8, ZenonT(40) DEF IInv, Advances

\* poll_vote_requests finds a heartbeat of the server it supports.
LEMMA FollowHbOk ==
  ASSUME IInv, NEW s \in Servers, FollowHb(s)
  PROVE  IInv' /\ Advances
<1> DEFINE i == Idx(sid[s])
           h == hb[s][i]
           t == Term(sid[s])
<1>1. /\ i \in Servers /\ h # NoSid /\ Term(h) = t /\ L(sid[s]) = 0
      /\ sid' = [sid EXCEPT ![s] = h]
      /\ UNCHANGED <<hb, vote_req, vote_ack, mode, access, acking, last, wire, elections, granted>>
  BY DEF FollowHb, KnowsLeader, Polls
<1>2. /\ From(sid, granted, i, h) /\ From(sid, granted, s, sid[s])
      /\ sid[s] # NoSid /\ sid[s] \in Sid /\ h \in Sid
  BY <1>1, ZenonT(40) DEF IInv, HbOk, SidOk, From
<1>3. i # N /\ t \in Nat /\ t > 0
  BY <1>1, <1>2, Positive, ZenonT(40)
<1>4. L(h) = 1 \/ h = sid[s]
  <2>1. SUFFICES ASSUME L(h) = 0 PROVE Idx(h) = i
    BY <1>1, <1>2 DEF Sid, Term, L, Idx
  <2>2. Idx(h) \in Servers
    BY <1>1, <1>2, <1>3, Positive, ZenonT(40)
  <2>3. Idx(h) # i => <<t, Idx(h)>> \in granted[i]
    BY <1>1, <1>2, <1>3, <2>1, ZenonT(40) DEF From
  <2>4. <<t, Idx(h)>> \in granted[i] => Idx(h) = i
    BY <1>1, <1>2, <1>3, <2>2, ZenonT(40) DEF From, Backed
  <2> QED BY <2>3, <2>4, ZenonT(40)
<1>5. ~Less(h, sid[s])
  BY <1>1, <1>2, <1>4, LessOrder DEF Less, Sid, Term, L
<1>6. mode[s] # "send"
  <2>1. GrantOk(s) BY Zenon DEF IInv
  <2> QED BY <1>1, <2>1 DEF GrantOk, IsLeader, L
<1>7. /\ sid' \in SidFun /\ granted' \in GrantFun
      /\ Grows(sid, granted, sid', granted')
      /\ KeepsVote
      /\ SidOk(sid', granted')
      /\ \A u \in Servers : GrantOk(u)'
      /\ GrantOncePerTerm'
  BY <1>1, <1>2, <1>4, <1>5, <1>6, SameTerm, Zenon
<1>8. HbOk(sid', granted', hb') /\ ReqOk(sid', granted', vote_req') /\ WireOk(sid', granted', wire')
  BY <1>1, <1>7, Slots, Zenon
<1>9. TypeOK' BY <1>1, <1>7, ZenonT(40) DEF IInv, TypeOK, SidFun
<1> QED BY <1>7, <1>8, <1>9, ZenonT(40) DEF IInv, Advances

\* poll_vote_requests drops what it does not like.
LEMMA DropRequestsOk == ASSUME IInv, NEW s \in Servers, DropRequests(s) PROVE IInv' /\ Advances
<1>1. /\ UNCHANGED <<sid, hb, vote_ack, mode, access, acking, last, wire, elections, granted>>
      /\ vote_req' = [vote_req EXCEPT ![s] =
           [i \in Servers |-> IF i > s THEN NoRequest ELSE vote_req[s][i]]]
  BY Zenon DEF DropRequests
<1>2. sid \in SidFun /\ granted \in GrantFun /\ NoRequest \in Request /\ NoRequest.sid = NoSid
  <2>1. NoSid \in Sid BY ElectionAssumption DEF NoSid, Sid
  <2> QED BY <2>1, Zenon DEF IInv, TypeOK, SidFun, GrantFun, NoRequest, Request, NoEntry, Entry
<1>3. vote_req' \in [Servers -> [Servers -> Request]]
  BY <1>1, <1>2 DEF IInv, TypeOK
<1>4. \A u, i \in Servers : vote_req'[u][i] = vote_req[u][i] \/ vote_req'[u][i] = NoRequest
  BY <1>1, Zenon DEF IInv, TypeOK
<1>5. \A i \in Servers : From(sid, granted, i, NoSid) BY <1>2, FromNoSid, Zenon
<1>6. TypeOK /\ HbOk(sid, granted, hb) /\ WireOk(sid, granted, wire)
      /\ ReqOk(sid, granted, vote_req)
  BY Zenon DEF IInv
<1>7. ReqOk(sid, granted, vote_req')
  BY <1>2, <1>4, <1>5, <1>6, Zenon DEF ReqOk
<1>8. TypeOK' BY <1>1, <1>3, <1>6, ZenonT(40) DEF TypeOK
<1> QED BY <1>1, <1>6, <1>7, <1>8, SameServers, Zenon

\* After the second loop no request is left.
LEMMA ClearRequestsOk ==
  ASSUME NEW s \in Servers, IInv, ClearRequests(s), sid' \in SidFun, granted' \in GrantFun,
         Grows(sid, granted, sid', granted')
  PROVE  /\ vote_req' \in [Servers -> [Servers -> Request]]
         /\ ReqOk(sid', granted', vote_req')
<1>1. NoRequest \in Request /\ NoRequest.sid = NoSid
  <2>1. NoSid \in Sid BY ElectionAssumption DEF NoSid, Sid
  <2> QED BY <2>1, Zenon DEF NoRequest, Request, NoEntry, Entry
<1>2. vote_req' \in [Servers -> [Servers -> Request]]
  BY <1>1, ZenonT(40) DEF IInv, TypeOK, ClearRequests
<1>3. \A u, i \in Servers : vote_req'[u][i] = vote_req[u][i] \/ vote_req'[u][i] = NoRequest
  BY Zenon DEF IInv, TypeOK, ClearRequests
<1>4. \A i \in Servers : From(sid', granted', i, NoSid) BY FromNoSid, Zenon
<1>5. ReqOk(sid', granted', vote_req) BY Slots, Zenon
<1> QED BY <1>1, <1>2, <1>3, <1>4, <1>5, ZenonT(40) DEF ReqOk

\* A request that the loops find good is for a larger term.
LEMMA GoodRequest ==
  ASSUME IInv, NEW s \in Servers, NEW i \in Servers, L(sid[s]) = 0,
         ~Less(vote_req[s][i].sid, OldSid(s))
  PROVE  /\ From(sid, granted, i, vote_req[s][i].sid)
         /\ RequestFrom(i, vote_req[s][i].sid)
         /\ Term(vote_req[s][i].sid) > Term(sid[s])
<1> DEFINE x == vote_req[s][i].sid
<1>1. From(sid, granted, i, x) /\ (x # NoSid => RequestFrom(i, x))
  BY Zenon DEF IInv, ReqOk
<1>2. sid[s] \in Sid /\ x \in Sid BY <1>1, ZenonT(40) DEF IInv, TypeOK, From
<1>3. Less(NoSid, OldSid(s))
  BY <1>2 DEF Less, NoSid, OldSid, Sid, Term
<1>4. x # NoSid BY <1>3, Zenon
<1>5. L(x) = 0 BY <1>1, <1>4, Zenon DEF RequestFrom
<1>6. Term(x) > Term(sid[s])
  BY <1>2, <1>5 DEF Less, OldSid, Sid, Term, L, Idx
<1> QED BY <1>1, <1>4, <1>6, ZenonT(40)

\* poll_vote_requests votes.
LEMMA VoteOk == ASSUME IInv, NEW s \in Servers, Vote(s) PROVE IInv' /\ Advances
<1>0. PICK A \in SUBSET Servers, c \in Servers :
        /\ c \in A
        /\ Liked(s, A)
        /\ sid' = [sid EXCEPT ![s] = vote_req[s][c].sid]
        /\ Grant(s, vote_req[s][c].sid)
        /\ wire' = PostAck(wire, s, vote_req[s][c].sid)
        /\ acking' = [acking EXCEPT ![s] = Idx(vote_req[s][c].sid) # s]
  BY Zenon DEF Vote
<1>1. PICK new :
        /\ new = vote_req[s][c].sid
        /\ Liked(s, A)
        /\ sid' = [sid EXCEPT ![s] = new]
        /\ Grant(s, new)
        /\ wire' = PostAck(wire, s, new)
        /\ acking' = [acking EXCEPT ![s] = Idx(new) # s]
  BY <1>0, ZenonT(40)
<1>2. /\ L(sid[s]) = 0 /\ ClearRequests(s)
      /\ mode' = [mode EXCEPT ![s] = "receive"]
      /\ UNCHANGED <<hb, vote_ack, last, elections>>
  BY Zenon DEF Vote, Polls
<1>3. ~Less(new, OldSid(s))
  BY <1>0, <1>1, Zenon DEF Liked, GoodSid
<1>4. From(sid, granted, c, new) /\ RequestFrom(c, new) /\ Term(new) > Term(sid[s])
  BY <1>1, <1>2, <1>3, GoodRequest, ZenonT(40)
<1>5. Idx(new) # N /\ new \in Sid
  BY <1>2, <1>4, ElectionAssumption DEF RequestFrom, Servers, From
<1>6. mode[s] = "receive"
  <2>1. GrantOk(s) BY Zenon DEF IInv
  <2> QED BY <1>2, <2>1 DEF GrantOk, IsLeader, L, IInv, TypeOK
<1>7. /\ mode' \in [Servers -> {"receive", "send"}] /\ mode'[s] = "receive"
      /\ \A u \in Servers \ {s} : mode'[u] = mode[u]
  BY <1>2, ZenonT(40) DEF IInv, TypeOK
<1>8. /\ sid' \in SidFun /\ granted' \in GrantFun
      /\ access' \in [Servers -> SUBSET Servers]
      /\ \A u \in Servers : u \notin access'[u]
      /\ Grows(sid, granted, sid', granted')
      /\ KeepsVote
      /\ SidOk(sid', granted')
      /\ \A u \in Servers : GrantOk(u)'
      /\ GrantOncePerTerm'
  BY <1>1, <1>2, <1>4, <1>5, <1>6, <1>7, NewGrant, Zenon
<1>9. /\ vote_req' \in [Servers -> [Servers -> Request]]
      /\ ReqOk(sid', granted', vote_req')
  BY <1>2, <1>8, ClearRequestsOk, ZenonT(40)
<1>10. HbOk(sid', granted', hb') /\ WireOk(sid', granted', wire)
  BY <1>2, <1>8, Slots, ZenonT(40)
<1>11. wire' \in WireFun /\ WireOk(sid', granted', wire')
  <2>1. wire \in WireFun BY Zenon DEF IInv, TypeOK, WireFun
  <2> QED BY <1>1, <1>5, <1>8, <1>10, <2>1, PostAckOk, ZenonT(40)
<1>12. acking' \in [Servers -> BOOLEAN] BY <1>1, ZenonT(40) DEF IInv, TypeOK
<1>13. TypeOK'
  BY <1>2, <1>7, <1>8, <1>9, <1>11, <1>12, Zenon DEF IInv, TypeOK, SidFun, GrantFun, WireFun
<1> QED BY <1>8, <1>9, <1>10, <1>11, <1>13, ZenonT(40) DEF IInv, Advances

\* poll_vote_requests takes the highest term without voting.
LEMMA SelfPromoteOk == ASSUME IInv, NEW s \in Servers, SelfPromote(s) PROVE IInv' /\ Advances
<1>0. PICK i \in Servers :
        /\ i \in Better(s) \/ GoodSid(s, {}, i)
        /\ sid' = [sid EXCEPT ![s] = <<Term(vote_req[s][i].sid), 0, s>>]
  BY Zenon DEF SelfPromote, Better
<1>1. /\ L(sid[s]) = 0 /\ ClearRequests(s)
      /\ access' = [access EXCEPT ![s] = {}]
      /\ UNCHANGED <<hb, vote_ack, mode, acking, last, wire, elections, granted>>
  BY Zenon DEF SelfPromote, Polls
<1>2. PICK t : t = Term(vote_req[s][i].sid) /\ sid' = [sid EXCEPT ![s] = <<t, 0, s>>]
  BY <1>0, Zenon
<1>3. ~Less(vote_req[s][i].sid, OldSid(s))
  <2>1. vote_req[s][i].sid \in Sid BY Zenon DEF IInv, ReqOk, From
  <2>2. OldSid(s) \in Sid BY Zenon DEF IInv, TypeOK, OldSid, Sid, Term, Idx
  <2> QED BY <1>0, <2>1, <2>2, LessOrder, ZenonT(40) DEF Better, GoodSid
<1>4. t > Term(sid[s]) /\ t \in Nat
  <2>1. From(sid, granted, i, vote_req[s][i].sid) /\ Term(vote_req[s][i].sid) > Term(sid[s])
    BY <1>1, <1>3, GoodRequest, Zenon
  <2>2. Term(vote_req[s][i].sid) \in Nat BY <2>1, Positive, ZenonT(40)
  <2> QED BY <1>2, <2>1, <2>2, Zenon
<1>5. mode[s] = "receive"
  <2>1. GrantOk(s) BY Zenon DEF IInv
  <2> QED BY <1>1, <2>1 DEF GrantOk, IsLeader, L, IInv, TypeOK
<1>6. mode' \in [Servers -> {"receive", "send"}] /\ mode' = mode
  BY <1>1, Zenon DEF IInv, TypeOK
<1>7. /\ sid' \in SidFun /\ granted' \in GrantFun
      /\ Grows(sid, granted, sid', granted')
      /\ KeepsVote
      /\ SidOk(sid', granted')
      /\ \A u \in Servers : GrantOk(u)'
      /\ GrantOncePerTerm'
  BY <1>1, <1>2, <1>4, <1>5, <1>6, NewClaim, Zenon
<1>8. /\ vote_req' \in [Servers -> [Servers -> Request]]
      /\ ReqOk(sid', granted', vote_req')
  BY <1>1, <1>7, ClearRequestsOk, Zenon
<1>9. HbOk(sid', granted', hb') /\ WireOk(sid', granted', wire')
  BY <1>1, <1>7, Slots, Zenon
<1>10. TypeOK'
  BY <1>1, <1>6, <1>7, <1>8, Zenon DEF IInv, TypeOK, SidFun, GrantFun
<1> QED BY <1>7, <1>8, <1>9, <1>10, ZenonT(40) DEF IInv, Advances

\* A write lands.
LEMMA DeliverOk ==
  ASSUME IInv, NEW s \in Servers, NEW i \in Others(s), Deliver(s, i) PROVE IInv' /\ Advances
<1> DEFINE q == wire[s][i]
           msg == Head(q)
<1>1. /\ i \in Servers /\ i # s /\ q # << >> /\ wire' = [wire EXCEPT ![s][i] = Tail(q)]
      /\ UNCHANGED <<sid, mode, access, acking, last, elections, granted>>
  BY Zenon DEF Deliver, Others
<1>2. q \in Seq(Msg) /\ Len(q) > 0 /\ Tail(q) \in Seq(Msg) /\ msg \in Msg /\ msg = q[1]
  <2>1. q \in Seq(Msg) BY <1>1 DEF IInv, TypeOK
  <2> QED BY <1>1, <2>1
<1>3. From(sid, granted, s, msg.sid) /\ (msg.kind = "req" => RequestFrom(s, msg.sid))
  BY <1>1, <1>2 DEF IInv, WireOk
<1>4. msg.sid \in Sid /\ msg.last \in Entry BY <1>2, Zenon DEF Msg
<1>5. /\ hb' \in [Servers -> [Servers -> Sid]]
      /\ \A u, v \in Servers : hb'[u][v] = hb[u][v] \/ (u = i /\ v = s /\ hb'[u][v] = msg.sid)
  <2>1. hb \in [Servers -> [Servers -> Sid]] BY Zenon DEF IInv, TypeOK
  <2>2. hb' = hb \/ hb' = [hb EXCEPT ![i][s] = msg.sid] BY Zenon DEF Deliver
  <2>3. CASE hb' = hb BY <2>1, <2>3, Zenon
  <2>4. CASE hb' = [hb EXCEPT ![i][s] = msg.sid] BY <1>1, <1>4, <2>1, <2>4, ZenonT(40)
  <2> QED BY <2>2, <2>3, <2>4, ZenonT(40)
<1>6. HbOk(sid', granted', hb')
  <2>1. HbOk(sid, granted, hb) BY Zenon DEF IInv
  <2> QED BY <1>1, <1>3, <1>5, <2>1 DEF HbOk
<1>7. vote_req' \in [Servers -> [Servers -> Request]] /\ ReqOk(sid', granted', vote_req')
  <2>1. vote_req \in [Servers -> [Servers -> Request]] /\ ReqOk(sid, granted, vote_req)
    BY Zenon DEF IInv, TypeOK
  <2>2. \/ vote_req' = vote_req
        \/ /\ msg.kind = "req"
           /\ vote_req' = [vote_req EXCEPT ![i][s] = [sid |-> msg.sid, last |-> msg.last]]
    BY Zenon DEF Deliver
  <2>3. CASE vote_req' = vote_req BY <1>1, <2>1, <2>3, ZenonT(40)
  <2>4. CASE /\ msg.kind = "req"
             /\ vote_req' = [vote_req EXCEPT ![i][s] = [sid |-> msg.sid, last |-> msg.last]]
    <3>1. [sid |-> msg.sid, last |-> msg.last] \in Request BY <1>4, Zenon DEF Request
    <3>2. vote_req' \in [Servers -> [Servers -> Request]] BY <1>1, <2>1, <2>4, <3>1, ZenonT(40)
    <3>3. \A u, v \in Servers : \/ vote_req'[u][v] = vote_req[u][v]
                                \/ u = i /\ v = s /\ vote_req'[u][v].sid = msg.sid
      BY <1>1, <2>1, <2>4, ZenonT(40)
    <3>4. ASSUME NEW u \in Servers, NEW v \in Servers
          PROVE  /\ From(sid, granted, v, vote_req'[u][v].sid)
                 /\ vote_req'[u][v].sid # NoSid => RequestFrom(v, vote_req'[u][v].sid)
      <4>1. CASE vote_req'[u][v] = vote_req[u][v] BY <2>1, <4>1, ZenonT(40) DEF ReqOk
      <4>2. CASE v = s /\ vote_req'[u][v].sid = msg.sid BY <1>3, <2>4, <4>2, ZenonT(40)
      <4> QED BY <3>3, <4>1, <4>2, ZenonT(40)
    <3>5. ReqOk(sid', granted', vote_req') BY <1>1, <3>4, ZenonT(40) DEF ReqOk, RequestFrom
    <3> QED BY <3>2, <3>5, Zenon
  <2> QED BY <2>2, <2>3, <2>4, Zenon
<1>8. wire' \in WireFun /\ WireOk(sid', granted', wire')
  <2>1. wire \in WireFun /\ WireOk(sid, granted, wire)
    BY Zenon DEF IInv, TypeOK, WireFun
  <2>2. wire' \in WireFun BY <1>1, <1>2, <2>1, ZenonT(40) DEF WireFun
  <2>3. \A u, v \in Servers : wire'[u][v] = wire[u][v] \/ (u = s /\ v = i /\ wire'[u][v] = Tail(q))
    BY <1>1, <2>1, Zenon DEF WireFun
  <2>4. \A k \in 1 .. Len(Tail(q)) : k + 1 \in 1 .. Len(q) /\ Tail(q)[k] = q[k + 1]
    BY <1>2, TailElements, Zenon
  <2>5. \A k \in 1 .. Len(Tail(q)) :
          /\ From(sid, granted, s, Tail(q)[k].sid)
          /\ Tail(q)[k].kind = "req" => RequestFrom(s, Tail(q)[k].sid)
    BY <1>1, <2>1, <2>4 DEF WireOk
  <2> QED BY <1>1, <2>1, <2>2, <2>3, <2>5 DEF WireOk
<1>9. vote_ack' \in [Servers -> SUBSET Servers] /\ \A u \in Servers : u \notin vote_ack'[u]
  <2>1. vote_ack' = vote_ack \/ vote_ack' = [vote_ack EXCEPT ![i] = @ \cup {s}]
    BY Zenon DEF Deliver
  <2>2. vote_ack \in [Servers -> SUBSET Servers] /\ \A u \in Servers : u \notin vote_ack[u]
    BY Zenon DEF IInv, TypeOK
  <2>3. CASE vote_ack' = vote_ack BY <2>2, <2>3, Zenon
  <2>4. CASE vote_ack' = [vote_ack EXCEPT ![i] = @ \cup {s}] BY <1>1, <2>2, <2>4, ZenonT(40)
  <2> QED BY <2>1, <2>3, <2>4, ZenonT(40)
<1>10. TypeOK' BY <1>1, <1>5, <1>7, <1>8, <1>9, ZenonT(40) DEF IInv, TypeOK, WireFun
<1> QED BY <1>1, <1>6, <1>7, <1>8, <1>10, SameServers, ZenonT(40)

\* wait_for_one sees the completion of the ACK.
LEMMA AckDoneOk == ASSUME IInv, NEW s \in Servers, AckDone(s) PROVE IInv' /\ Advances
<1>1. /\ acking' = [acking EXCEPT ![s] = FALSE]
      /\ UNCHANGED <<sid, hb, vote_req, vote_ack, mode, access, last, wire, elections, granted>>
  BY Zenon DEF AckDone
<1>2. TypeOK' BY <1>1, Zenon DEF IInv, TypeOK
<1>3. HbOk(sid, granted, hb) /\ ReqOk(sid, granted, vote_req) /\ WireOk(sid, granted, wire)
  BY Zenon DEF IInv
<1> QED BY <1>1, <1>2, <1>3, SameServers, Zenon

\* wait_for_one sees a failure: start_election.
LEMMA AckFailOk == ASSUME IInv, NEW s \in Servers, AckFail(s) PROVE IInv' /\ Advances
<1> DEFINE w == [wire EXCEPT ![s][Idx(sid[s])] = << >>]
<1>1. w \in WireFun /\ WireOk(sid, granted, w)
  <2>1. wire \in WireFun /\ WireOk(sid, granted, wire)
    BY Zenon DEF IInv, TypeOK, WireFun
  <2> QED BY <2>1, FlushOk, Zenon
<1>2. hb' \in [Servers -> [Servers -> Sid]] /\ HbOk(sid, granted, hb')
  BY Zenon DEF IInv, TypeOK, AckFail
<1> QED BY <1>1, <1>2, StartElectionOk, Zenon DEF AckFail

\* A queue pair fails.
LEMMA LoseOk ==
  ASSUME IInv, NEW s \in Servers, NEW i \in Others(s), Lose(s, i) PROVE IInv' /\ Advances
<1>1. /\ wire' = [wire EXCEPT ![s][i] = << >>]
      /\ UNCHANGED <<sid, hb, vote_req, vote_ack, mode, access, acking, last, elections, granted>>
  BY Zenon DEF Lose
<1>2. wire' \in WireFun /\ WireOk(sid, granted, wire')
  <2>1. wire \in WireFun /\ WireOk(sid, granted, wire)
    BY Zenon DEF IInv, TypeOK, WireFun
  <2> QED BY <1>1, <2>1, FlushOk, Zenon
<1>3. TypeOK' BY <1>1, <1>2, ZenonT(40) DEF IInv, TypeOK, WireFun
<1>4. HbOk(sid, granted, hb) /\ ReqOk(sid, granted, vote_req)
  BY Zenon DEF IInv
<1> QED BY <1>1, <1>2, <1>3, <1>4, SameServers, Zenon

\* Replication changes the last entries only.
LEMMA ReplicateOk ==
  ASSUME IInv, NEW s \in Servers, NEW i \in Others(s), Replicate(s, i) PROVE IInv' /\ Advances
<1>1. /\ last' = [last EXCEPT ![i] = last[s]]
      /\ UNCHANGED <<sid, hb, vote_req, vote_ack, mode, access, acking, wire, elections, granted>>
  BY Zenon DEF Replicate
<1>2. TypeOK' BY <1>1, Zenon DEF IInv, TypeOK
<1>3. HbOk(sid, granted, hb) /\ ReqOk(sid, granted, vote_req) /\ WireOk(sid, granted, wire)
  BY ZenonT(40) DEF IInv
<1> QED BY <1>1, <1>2, <1>3, SameServers, Zenon

-----------------------------------------------------------------------------
(* The theorems *)

\* init_server_data establishes the invariant.
LEMMA InitOk == Init => IInv
<1> SUFFICES ASSUME Init PROVE IInv
  BY Zenon
<1>1. SidNull \in Sid /\ NoSid \in Sid /\ SidNull # NoSid
  BY ElectionAssumption DEF SidNull, NoSid, Sid
<1>2. NoRequest \in Request /\ NoRequest.sid = NoSid
  BY <1>1, Zenon DEF NoRequest, Request, NoEntry, Entry
<1>3. TypeOK
  BY <1>1, <1>2, ElectionAssumption DEF Init, TypeOK, NoEntry, Entry
<1>4. sid \in SidFun /\ granted \in GrantFun BY <1>3, Zenon DEF TypeOK, SidFun, GrantFun
<1>5. \A i \in Servers : From(sid, granted, i, NoSid) BY <1>4, FromNoSid, Zenon
<1>6. \A s \in Servers : sid[s] = SidNull /\ granted[s] = {} /\ access[s] = {} /\ mode[s] = "receive"
  BY Zenon DEF Init
<1>7. \A s \in Servers : From(sid, granted, s, SidNull)
  BY <1>1, <1>6 DEF From, Backed, SidNull, Term, Idx
<1>8. SidOk(sid, granted) BY <1>1, <1>6, <1>7, ZenonT(40) DEF SidOk
<1>9. HbOk(sid, granted, hb) BY <1>5, Zenon DEF HbOk, Init
<1>10. ReqOk(sid, granted, vote_req) BY <1>2, <1>5, Zenon DEF ReqOk, Init
<1>11. WireOk(sid, granted, wire) BY DEF WireOk, Init
<1>12. \A s \in Servers : GrantOk(s) BY <1>6, Zenon DEF GrantOk
<1>13. GrantOncePerTerm BY <1>6, Zenon DEF GrantOncePerTerm
<1> QED BY <1>3, <1>8, <1>9, <1>10, <1>11, <1>12, <1>13, Zenon DEF IInv

\* Every handler and every RDMA write preserves the invariant.
LEMMA NextOk == IInv /\ [Next]_vars => IInv' /\ Advances
<1> SUFFICES ASSUME IInv, [Next]_vars PROVE IInv' /\ Advances
  BY Zenon
<1>1. CASE Next
  <2>1. PICK s \in Servers :
          \/ HbReceive(s) \/ HbSend(s) \/ PollVoteCount(s)
          \/ FollowHb(s) \/ DropRequests(s) \/ Vote(s) \/ SelfPromote(s)
          \/ AckDone(s) \/ AckFail(s)
          \/ \E i \in Others(s) : Deliver(s, i) \/ Lose(s, i) \/ Replicate(s, i)
    BY <1>1, Zenon DEF Next
  <2> QED
    BY <2>1, HbReceiveOk, HbSendOk, PollVoteCountOk, FollowHbOk, DropRequestsOk,
       VoteOk, SelfPromoteOk, AckDoneOk, AckFailOk, DeliverOk, LoseOk, ReplicateOk, ZenonT(40)
<1>2. CASE UNCHANGED vars
  <2>1. /\ UNCHANGED <<sid, hb, vote_req, vote_ack, mode, access, acking, last, wire, elections>>
        /\ granted' = granted
    BY <1>2, Zenon DEF vars
  <2>2. TypeOK' BY <2>1, Zenon DEF IInv, TypeOK
  <2>3. HbOk(sid, granted, hb) /\ ReqOk(sid, granted, vote_req) /\ WireOk(sid, granted, wire)
    BY ZenonT(40) DEF IInv
  <2> QED BY <2>1, <2>2, <2>3, SameServers, Zenon
<1> QED BY <1>1, <1>2, Zenon

\* Every reachable state satisfies the inductive invariant.
THEOREM Invariance == Spec => []IInv
<1>1. IInv /\ [Next]_vars => IInv' BY NextOk, Zenon
<1> QED BY <1>1, InitOk, PTL DEF Spec

-----------------------------------------------------------------------------
(* The theorems *)

\* The memory, the queue pairs and the timers keep their types in every
\* execution of the election handlers.
THEOREM TypeCorrect == Spec => []TypeOK
<1>1. IInv => TypeOK BY Zenon DEF IInv
<1> QED BY <1>1, Invariance, PTL

\* Whatever requests, heartbeats and votes are lost or late, a server grants
\* access to its log to at most one server in a term, for every group size.
THEOREM AccessOncePerTerm == Spec => []GrantOncePerTerm
<1>1. IInv => GrantOncePerTerm BY Zenon DEF IInv
<1> QED BY <1>1, Invariance, PTL

\* Two majorities share a server, which has granted access only once.
LEMMA MajorityUnique ==
  ASSUME GrantOncePerTerm, NEW t, NEW i \in Servers, NEW j \in Servers,
         2 * Cardinality(Backers(t, i)) > N, 2 * Cardinality(Backers(t, j)) > N
  PROVE  i = j
<1>1. N \in Nat \ {0} BY ElectionAssumption, Zenon
<1>2. IsFiniteSet(Servers) /\ Cardinality(Servers) = N
  <2>1. 0 \in Int /\ N - 1 \in Int /\ ~(0 > N - 1) /\ N - 1 - 0 + 1 = N BY <1>1
  <2> QED BY <2>1, FS_Interval, ZenonT(40) DEF Servers
<1>3. Backers(t, i) \subseteq Servers /\ Backers(t, j) \subseteq Servers
  BY Zenon DEF Backers
<1>4. IsFiniteSet(Backers(t, i)) /\ IsFiniteSet(Backers(t, j))
  BY <1>2, <1>3, FS_Subset, ZenonT(40)
<1>5. Cardinality(Backers(t, i)) \in Nat /\ Cardinality(Backers(t, j)) \in Nat
  BY <1>4, FS_CardinalityType, Zenon
<1>6. Cardinality(Backers(t, i)) + Cardinality(Backers(t, j)) > Cardinality(Servers)
  BY <1>1, <1>2, <1>5
<1>7. PICK s \in Servers : s \in Backers(t, i) /\ s \in Backers(t, j)
  <2>1. Backers(t, i) \cap Backers(t, j) # {}
    BY <1>2, <1>3, <1>6, FS_MajoritiesIntersect, ZenonT(40)
  <2> QED BY <1>3, <2>1, Zenon
<1>8. <<t, i>> \in granted[s] /\ <<t, j>> \in granted[s] BY <1>7, Zenon DEF Backers
<1>9. <<t, i>> = <<t, j>> BY <1>8, Zenon DEF GrantOncePerTerm
<1> QED BY <1>9, Zenon

\* In every group, whatever its size, at most one server per term ever gets
\* access to the logs of a majority.
THEOREM UniqueWriter == Spec => []OneWriterPerTerm
<1>1. GrantOncePerTerm => OneWriterPerTerm
  BY MajorityUnique, ZenonT(40) DEF OneWriterPerTerm, Writers
<1> QED BY <1>1, AccessOncePerTerm, PTL

\* A server behind the term of another one has no access to its log.
THEOREM Fencing == Spec => []Fenced
<1>1. IInv => Fenced
  <2> SUFFICES ASSUME IInv, NEW s \in Servers, NEW i \in access[s],
                      <<Term(sid[s]), s>> \notin granted[s]
               PROVE  Term(sid[s]) <= Term(sid[i])
    BY Zenon DEF Fenced
  <2>1. i \in Servers /\ GrantOk(s) BY Zenon DEF IInv, TypeOK
  <2>2. <<Term(sid[s]), i>> \in granted[s] BY <2>1, Zenon DEF GrantOk
  <2> QED BY <2>1, <2>2, Zenon DEF GrantOk
<1> QED BY <1>1, Invariance, PTL

\* No handler of any server ever returns to a smaller SID.
THEOREM SidOrder == Spec => SidNeverDecreases
<1>1. IInv /\ [Next]_vars => [\A s \in Servers : ~Less(sid'[s], sid[s])]_vars
  BY NextOk, Zenon DEF Advances, Grows
<1> QED BY <1>1, Invariance, PTL DEF Spec, SidNeverDecreases

\* While no leader is known a server keeps its candidate for the whole term.
THEOREM OneVotePerTerm == Spec => VoteOncePerTerm
<1>1. IInv /\ [Next]_vars
        => [\A s \in Servers : Term(sid'[s]) = Term(sid[s]) /\ L(sid'[s]) = 0
                                 => sid'[s] = sid[s]]_vars
  BY NextOk, Zenon DEF Advances, KeepsVote
<1> QED BY <1>1, Invariance, PTL DEF Spec, VoteOncePerTerm

=============================================================================
