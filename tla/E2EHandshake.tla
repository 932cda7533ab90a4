---------------------------- MODULE E2EHandshake ----------------------------
(***************************************************************************)
(* The handshake of the IEC 62351-4 end-to-end associations between one    *)
(* client configuration and one server configuration: HandshakeRequest,    *)
(* ProcessHandshakeRequest, HandshakeAccept and ProcessHandshakeAccept of  *)
(* iec62351/e2e/assoc.go, driven by mms/secure.go and mms/server_conn.go,  *)
(* with the allocator of association identifiers and the replay cache that *)
(* the associations of a configuration share (keys.go), and with every way *)
(* an association ends: refusal, abort, release and loss of the transport. *)
(*                                                                         *)
(* A signed PDU is a record; what only the cryptography and the encoding   *)
(* decide about it (signature, certificate, version, attribute certificate *)
(* and so on) is the field flaw, the first check it fails or "none".       *)
(***************************************************************************)
EXTENDS Integers, Sequences, FiniteSets

CONSTANTS Conns,         \* the connections, each used for one association
          IDs,           \* identifier parts (1..999 in the code)
          Offers,        \* what a client may be configured with: [groups, icvs]
          Accepts,       \* what a server may be configured with: [groups, icvs]
          Flaws,         \* flaws a PDU may have, "none" included
          Freshness, Slack,  \* Policy.Freshness, and the minute added to it
          MaxTime        \* bound: ticks of the clock

VARIABLES offer, accept,   \* the two policies
          now,
          usedC, usedS,    \* identifier parts in use: client's, server's
          seenC, seenS,    \* the replay caches
          cl, sv,          \* the associations of each connection
          cend, send,      \* the MMS connection around them
          toS, toC         \* the PDU on its way

vars == <<offer, accept, now, usedC, usedS, seenC, seenS, cl, sv, cend, send, toS, toC>>

ASSUME E2EHandshakeAssumption ==
  /\ IsFiniteSet(IDs) /\ IDs \subseteq Nat \ {0}
  /\ {Freshness, Slack, MaxTime} \subseteq Nat
  /\ "none" \in Flaws

\* NewClient, NewServer: no identifier part held, nothing agreed.
Idle == [state |-> "idle", own |-> 0, asso |-> <<>>, group |-> 0, icv |-> 0]

Init ==
  /\ offer \in Offers
  /\ accept \in Accepts
  /\ now = 0
  /\ usedC = {} /\ usedS = {}
  /\ seenC = {} /\ seenS = {}
  /\ cl = [c \in Conns |-> Idle]
  /\ sv = [c \in Conns |-> Idle]
  /\ cend = [c \in Conns |-> "new"]
  /\ send = [c \in Conns |-> "new"]
  /\ toS = [c \in Conns |-> <<>>]
  /\ toC = [c \in Conns |-> <<>>]

-----------------------------------------------------------------------------
(* The state the associations of a configuration share.                    *)

Fresh(t) == now - t <= Freshness

\* replayCache.seen: the key was recorded and has not expired.
Seen(cache, key) == \E e \in cache : e.key = key /\ now < e.until

Recorded(cache, key) ==
  {e \in cache : e.key # key} \cup {[key |-> key, until |-> now + Freshness + Slack]}

\* Faulty: the identifier part stays with the association that returned it.
ClosedKeeping(s) == [s EXCEPT !.state = "closed"]

\* What every way of closing does to an association.
Closed(s) == [s EXCEPT !.state = "closed", !.own = 0]

\* release: the identifier part goes back to the allocator, once.
FreedC(c) == IF cl[c].own = 0 THEN usedC ELSE usedC \ {cl[c].own}
FreedS(c) == IF sv[c].own = 0 THEN usedS ELSE usedS \ {<<sv[c].asso[1], sv[c].own>>}

CloseClient(c) == cl' = [cl EXCEPT ![c] = Closed(@)] /\ usedC' = FreedC(c)
CloseServer(c) == sv' = [sv EXCEPT ![c] = Closed(@)] /\ usedS' = FreedS(c)

-----------------------------------------------------------------------------
(* The client's request.                                                   *)

\* e2eClientAssociate up to the session CONNECT: an identifier part is taken
\* and the first group is proposed, with every algorithm in order.
HandshakeRequest(c) ==
  /\ cend[c] = "new"
  /\ \/ /\ usedC = IDs
        /\ cend' = [cend EXCEPT ![c] = "failed"]
        /\ UNCHANGED <<usedC, cl, toS, send>>
     \/ \E id \in IDs \ usedC, f \in Flaws :
          /\ usedC' = usedC \cup {id}
          /\ cl' = [cl EXCEPT ![c] = [@ EXCEPT !.state = "requested", !.own = id,
                                               !.asso = <<id>>, !.group = offer.groups[1]]]
          /\ toS' = [toS EXCEPT ![c] = <<[kind |-> "request", id |-> id, time |-> now,
                                           group |-> offer.groups[1], icvs |-> offer.icvs, flaw |-> f]>>]
          /\ cend' = [cend EXCEPT ![c] = "handshake"]
          /\ send' = [send EXCEPT ![c] = "handshake"]
  /\ UNCHANGED <<offer, accept, now, usedS, seenC, seenS, sv, toC>>

-----------------------------------------------------------------------------
(* The server.                                                             *)

\* The first of the client's algorithms that the server knows, 0 for none.
FirstICV(icvs) ==
  LET known == {i \in 1..Len(icvs) : icvs[i] \in accept.icvs}
  IN  IF known = {} THEN 0 ELSE icvs[CHOOSE i \in known : \A j \in known : i <= j]

\* Faulty: any group is taken.
UsableAny(m) == FirstICV(m.icvs) # 0

\* Whether processRequest gets past the checks that come before the replay
\* cache, and past the ones after it.
Credible(m) == m.flaw = "none" /\ Fresh(m.time)
Usable(m) == m.group \in accept.groups /\ FirstICV(m.icvs) # 0

RequestKey(m) == <<m.time, m.id>>

\* ProcessHandshakeRequest: a request that passes is given the server's part
\* of its identifier.
ProcessHandshakeRequest(c) ==
  /\ toS[c] # <<>> /\ toS[c][1].kind = "request"
  /\ send[c] = "handshake" /\ sv[c].state = "idle"
  /\ toS' = [toS EXCEPT ![c] = <<>>]
  /\ LET m == toS[c][1]
         free == {n \in IDs : <<m.id, n>> \notin usedS}
     IN
     /\ seenS' = IF Credible(m) /\ ~Seen(seenS, RequestKey(m))
                 THEN Recorded(seenS, RequestKey(m)) ELSE seenS
     /\ \/ /\ Credible(m) /\ ~Seen(seenS, RequestKey(m)) /\ Usable(m)
           /\ \E own \in free :
                /\ usedS' = usedS \cup {<<m.id, own>>}
                /\ sv' = [sv EXCEPT ![c] = [state |-> "requested", own |-> own, asso |-> <<m.id, own>>,
                                            group |-> m.group, icv |-> FirstICV(m.icvs)]]
           /\ UNCHANGED <<send, toC>>
        \/ \* SecReject
           /\ ~Credible(m) \/ Seen(seenS, RequestKey(m)) \/ ~Usable(m) \/ free = {}
           /\ CloseServer(c)
           /\ send' = [send EXCEPT ![c] = "over"]
           /\ toC' = [toC EXCEPT ![c] = <<[kind |-> "reject"]>>]
  /\ UNCHANGED <<offer, accept, now, usedC, seenC, cl, cend>>

\* acceptE2E once the handshake is verified: the user or the MMS Initiate may
\* still refuse (ApplicationReject); otherwise HandshakeAccept.
Answer(c) ==
  /\ send[c] = "handshake" /\ sv[c].state = "requested"
  /\ \/ /\ CloseServer(c)
        /\ send' = [send EXCEPT ![c] = "refused"]
        /\ toC' = [toC EXCEPT ![c] = <<[kind |-> "reject"]>>]
     \/ \E f \in Flaws :
          /\ sv' = [sv EXCEPT ![c].state = "established"]
          /\ send' = [send EXCEPT ![c] = "up"]
          /\ toC' = [toC EXCEPT ![c] = <<[kind |-> "accept", asso |-> sv[c].asso, time |-> now,
                                          group |-> sv[c].group, icv |-> sv[c].icv, flaw |-> f]>>]
          /\ UNCHANGED usedS
  /\ UNCHANGED <<offer, accept, now, usedC, seenC, seenS, cl, cend, toS>>

\* The deferred Close of acceptE2E after a refusal, which may come when other
\* associations have taken identifiers.
Refused(c) ==
  /\ send[c] = "refused"
  /\ CloseServer(c)
  /\ send' = [send EXCEPT ![c] = "over"]
  /\ UNCHANGED <<offer, accept, now, usedC, seenC, seenS, cl, cend, toS, toC>>

-----------------------------------------------------------------------------
(* The client again.                                                       *)

AcceptKey(m) == <<m.time, m.asso>>

\* The checks of processAccept around the replay cache.
AcceptCredible(m) == m.flaw = "none" /\ Fresh(m.time)
AcceptUsable(c, m) ==
  /\ Len(m.asso) = 2 /\ m.asso[1] = cl[c].own
  /\ m.group = cl[c].group
  /\ \E i \in 1..Len(offer.icvs) : offer.icvs[i] = m.icv

\* ProcessHandshakeAccept.  The connection is handed to the user unless the
\* context of Dial ended while the answer was being checked (handshakeDone),
\* which ends the connection as it is.
ProcessHandshakeAccept(c) ==
  /\ cend[c] = "handshake"
  /\ toC[c] # <<>> /\ toC[c][1].kind = "accept"
  /\ toC' = [toC EXCEPT ![c] = <<>>]
  /\ LET m == toC[c][1] IN
     /\ seenC' = IF AcceptCredible(m) /\ ~Seen(seenC, AcceptKey(m))
                 THEN Recorded(seenC, AcceptKey(m)) ELSE seenC
     /\ \/ /\ AcceptCredible(m) /\ ~Seen(seenC, AcceptKey(m)) /\ AcceptUsable(c, m)
           /\ cl' = [cl EXCEPT ![c] = [@ EXCEPT !.state = "established", !.asso = m.asso, !.icv = m.icv]]
           /\ \E end \in {"up", "over"} : cend' = [cend EXCEPT ![c] = end]
           /\ UNCHANGED <<usedC, toS>>
        \/ \* HandshakeSecAbort
           /\ ~AcceptCredible(m) \/ Seen(seenC, AcceptKey(m)) \/ ~AcceptUsable(c, m)
           /\ CloseClient(c)
           /\ cend' = [cend EXCEPT ![c] = "refused"]
           /\ toS' = [toS EXCEPT ![c] = <<[kind |-> "abort"]>>]
  /\ UNCHANGED <<offer, accept, now, usedS, seenS, sv, send>>

\* ProcessRejection of the server's reject.
ProcessRejection(c) ==
  /\ cend[c] = "handshake"
  /\ toC[c] # <<>> /\ toC[c][1].kind = "reject"
  /\ toC' = [toC EXCEPT ![c] = <<>>]
  /\ CloseClient(c)
  /\ cend' = [cend EXCEPT ![c] = "refused"]
  /\ UNCHANGED <<offer, accept, now, usedS, seenC, seenS, sv, send, toS>>

\* fail of e2eClientAssociate: Close after whatever closed the association, or
\* after the wait for the answer failed or timed out.
Fail(c) ==
  /\ cend[c] \in {"handshake", "refused"}
  /\ cend[c] = "handshake" => send[c] = "over" \/ toC[c] = <<>>
  /\ CloseClient(c)
  /\ cend' = [cend EXCEPT ![c] = "over"]
  /\ UNCHANGED <<offer, accept, now, usedS, seenC, seenS, sv, send, toS, toC>>

-----------------------------------------------------------------------------
(* The end of an association.                                              *)

\* A verified release: the server answers it and closes, then the client.
Release(c) ==
  /\ cend[c] = "up" /\ send[c] = "up" /\ toS[c] = <<>>
  /\ CloseServer(c)
  /\ send' = [send EXCEPT ![c] = "over"]
  /\ toC' = [toC EXCEPT ![c] = <<[kind |-> "released"]>>]
  /\ UNCHANGED <<offer, accept, now, usedC, seenC, seenS, cl, cend, toS>>

\* Abort by one end: it closes and tells the other.
AbortClient(c) ==
  /\ cend[c] = "up"
  /\ CloseClient(c)
  /\ cend' = [cend EXCEPT ![c] = "over"]
  /\ toS' = [toS EXCEPT ![c] = <<[kind |-> "abort"]>>]
  /\ UNCHANGED <<offer, accept, now, usedS, seenC, seenS, sv, send, toC>>

AbortServer(c) ==
  /\ send[c] = "up"
  /\ CloseServer(c)
  /\ send' = [send EXCEPT ![c] = "over"]
  /\ toC' = [toC EXCEPT ![c] = IF cend[c] = "up" THEN <<[kind |-> "abort"]>> ELSE @]
  /\ UNCHANGED <<offer, accept, now, usedC, seenC, seenS, cl, cend, toS>>

\* The reader takes the end of the association from the other end.
ClientTold(c) ==
  /\ cend[c] = "up"
  /\ toC[c] # <<>>
  /\ toC' = [toC EXCEPT ![c] = <<>>]
  /\ CloseClient(c)
  /\ cend' = [cend EXCEPT ![c] = "over"]
  /\ UNCHANGED <<offer, accept, now, usedS, seenC, seenS, sv, send, toS>>

ServerTold(c) ==
  /\ send[c] = "up"
  /\ toS[c] # <<>> /\ toS[c][1].kind = "abort"
  /\ toS' = [toS EXCEPT ![c] = <<>>]
  /\ CloseServer(c)
  /\ send' = [send EXCEPT ![c] = "over"]
  /\ UNCHANGED <<offer, accept, now, usedC, seenC, seenS, cl, cend, toC>>

\* The transport is lost, or closed by an end that is over.  An established
\* association is left as it is (readLoop and Serve just return); the server
\* that has not answered yet fails to (session.Reply) and closes it.
Lost(c) ==
  /\ cend[c] # "new"
  /\ cend[c] \in {"up", "over"} \/ send[c] \in {"up", "over"}
  /\ cend[c] = "up" \/ send[c] \in {"handshake", "up"}
  /\ cend' = [cend EXCEPT ![c] = IF @ = "up" THEN "over" ELSE @]
  /\ toC' = [toC EXCEPT ![c] = <<>>]
  /\ toS' = [toS EXCEPT ![c] = <<>>]
  /\ send' = [send EXCEPT ![c] = IF @ = "new" THEN @ ELSE "over"]
  /\ IF send[c] = "handshake" THEN CloseServer(c) ELSE UNCHANGED <<sv, usedS>>
  /\ UNCHANGED <<offer, accept, now, usedC, seenC, seenS, cl>>

Tick ==
  /\ now < MaxTime
  /\ now' = now + 1
  /\ UNCHANGED <<offer, accept, usedC, usedS, seenC, seenS, cl, sv, cend, send, toS, toC>>

Next ==
  \/ \E c \in Conns :
       \/ HandshakeRequest(c) \/ ProcessHandshakeRequest(c) \/ Answer(c) \/ Refused(c)
       \/ ProcessHandshakeAccept(c) \/ ProcessRejection(c) \/ Fail(c)
       \/ Release(c) \/ AbortClient(c) \/ AbortServer(c)
       \/ ClientTold(c) \/ ServerTold(c) \/ Lost(c)
  \/ Tick

Spec == Init /\ [][Next]_vars

-----------------------------------------------------------------------------
States == {"idle", "requested", "established", "closed"}

TypeOK ==
  /\ usedC \subseteq IDs /\ usedS \subseteq IDs \X IDs
  /\ \A c \in Conns : cl[c].state \in States /\ sv[c].state \in States

Open(s) == s.state \in {"requested", "established"}

\* An identifier names one association: no two that a server has open share
\* theirs, whatever was refused, released, aborted or lost in between, and
\* each stays registered until its own association ends (idAllocator and
\* release).
OneName ==
  \A c \in Conns : Open(sv[c]) =>
    /\ <<sv[c].asso[1], sv[c].own>> \in usedS
    /\ \A d \in Conns \ {c} : Open(sv[d]) => sv[d].asso # sv[c].asso

\* Two ends that have both completed the handshake of a connection agree on
\* the identifier, the group and the algorithm, and both policies allow them.
EndsAgree ==
  \A c \in Conns : cl[c].state = "established" /\ sv[c].state = "established" =>
    /\ cl[c].asso = sv[c].asso /\ cl[c].group = sv[c].group /\ cl[c].icv = sv[c].icv
    /\ cl[c].group \in accept.groups /\ cl[c].icv \in accept.icvs

\* An identifier part is registered only while the association it belongs to
\* has a connection (keys.go: "unique among the live associations of one
\* peer").
HeldByLive ==
  /\ \A id \in usedC : \E c \in Conns : cl[c].own = id /\ cend[c] # "over"
  /\ \A p \in usedS : \E c \in Conns : sv[c].asso = p /\ send[c] # "over"
=============================================================================
