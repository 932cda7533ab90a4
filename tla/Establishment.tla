--------------------------- MODULE Establishment ---------------------------
(***************************************************************************)
(* Setting up an MMS association over the OSI stack: Dial and              *)
(* newClientConn (mms/conn.go) against AcceptConnOpts and acceptConn       *)
(* (mms/server_conn.go), through COTP (internal/osi/cotp), the session,    *)
(* presentation and ACSE layers, the A-profile authentication and the MMS  *)
(* Initiate (mms/pdu.go), and then one data PDU in each direction.         *)
(*                                                                         *)
(* A PDU is a record of what decides its fate.  Lengths are real octet     *)
(* counts, because segmentation and the session length indicators depend   *)
(* on them; contents are not.  cfg is what the two ends are configured     *)
(* with.  The client's contexts are a parameter: a peer numbers its        *)
(* contexts as it likes, this library's own client takes OwnContexts.      *)
(***************************************************************************)
EXTENDS Integers, Sequences, FiniteSets, FiniteSetsExt

CONSTANT Configs  \* the configurations tried, see ConfigOK

VARIABLES cfg,
          cl, sv,       \* the two ends
          toS, toC,     \* the octet streams, a sequence of TPDUs each
          ctx,          \* the dialling context: "live", "due" or "ended"
          after,        \* the AfterFunc on it: "armed", "pending", "ran", "stopped"
          deadline      \* of the client's transport: "none", "ctx" or "past"

vars == <<cfg, cl, sv, toS, toC, ctx, after, deadline>>

MMSmax == 65001
MaxTSDU == 131072
MaxUserData == 512
MaxExtendedUserData == 10240

ConfigOK(c) ==
  /\ c.code \in 0..15 /\ c.ud \in Nat /\ c.rud \in Nat /\ c.data \in 0..MMSmax
  /\ c.contexts \in Seq([id : Nat, abs : {"acse", "mms", "e2e", "other"}, ts : {"ber", "other"}])
  /\ c.app \in {"mms", "acsi", "e2e", "other"}
  /\ c.auth \in {"none", "password", "aprofile", "nomech", "stale"}
  /\ c.ap \in {"off", "optional", "required"}
  /\ c.own \in {"good", "stale", "broken"}
  /\ c.policy \in {"accept", "required", "failure"}
  /\ {c.tls, c.plain, c.e2e, c.timed, c.deadline} \subseteq BOOLEAN
  /\ ~(c.e2e /\ c.app = "e2e")   \* such an association is E2EHandshake's

EstablishmentAssumption == \A c \in Configs : ConfigOK(c)

None == [k |-> "none", d |-> 0]
Said(k, d) == [k |-> k, d |-> d]

\* A connection between two ends configured by c, before either sent.
Opening(c) ==
  /\ cfg = c
  /\ cl = [st |-> "new", size |-> 0, got |-> 0, why |-> None, init |-> <<>>, sent |-> FALSE, rcvd |-> FALSE]
  /\ sv = [st |-> "cr", size |-> 0, got |-> 0, said |-> None, init |-> <<>>, mms |-> 0, acse |-> 0,
           sent |-> FALSE, rcvd |-> FALSE]
  /\ toS = <<>> /\ toC = <<>>
  /\ ctx = "live" /\ after = "armed"
  /\ deadline = IF c.deadline THEN "ctx" ELSE "none"

Init == \E c \in Configs : Opening(c)

-----------------------------------------------------------------------------
(* COTP: the size of a TPDU, segmentation and reassembly.                  *)

ClampSizeCode(code) == Min({Max({code, 7}), 11})

\* The CC's size code, as the caller applies it: it may only lower the size.
Lowered(size, code) == IF code \in 7..11 THEN Min({size, 2^code}) ELSE size

Octets(tsdu, from, to, last) == [t |-> "DT", from |-> from, to |-> to, eot |-> last, tsdu |-> tsdu]

\* Conn.Send: the TPDUs of one TSDU.
Send(size, tsdu) ==
  LET n == size - 3
      count == Max({1, (tsdu.len + n - 1) \div n})
  IN  [k \in 1..count |-> Octets(tsdu, (k - 1) * n, Min({k * n, tsdu.len}), k = count)]

\* Conn.Receive, one TPDU: what is in the read buffer after it, and what the
\* caller gets.  A TSDU that is not all there is garbled.  Neither end sends a
\* TPDU of another type.
Receive(got, tpdu) ==
  LET len == got + tpdu.to - tpdu.from
  IN  IF len > MaxTSDU THEN [got |-> 0, res |-> "error"]
      ELSE IF ~tpdu.eot THEN [got |-> len, res |-> "more"]
      ELSE [got |-> 0, res |-> IF tpdu.from = got /\ len = tpdu.tsdu.len THEN "tsdu" ELSE "error"]

-----------------------------------------------------------------------------
(* The session layer.                                                      *)

\* appendLen with the long form from 256 on.
AppendLenShort(n) == IF n < 256 THEN <<n>> ELSE <<255, (n \div 256) % 256, n % 256>>

AppendLen(n) == IF n < 255 THEN <<n>> ELSE <<255, (n \div 256) % 256, n % 256>>

ReadLen(b) == IF b[1] # 255 THEN b[1] ELSE IF Len(b) < 3 THEN -1 ELSE b[2] * 256 + b[3]

\* writePI: a parameter of n octets with its code and length indicator.
PI(n) == 1 + Len(AppendLen(n)) + n

\* The parameters before the user data: connect/accept item and user
\* requirements of CONNECT and ACCEPT; reason or transport disconnect.
Before(si) == CASE si \in {"CONNECT", "ACCEPT"} -> PI(PI(1) + PI(1)) + PI(2)
                [] si \in {"REFUSE", "ABORT"} -> PI(1)

\* An SPDU with n octets of user data; REFUSE carries them after its reason code.
SPDU(si, n, body) ==
  LET ud == IF si = "REFUSE" THEN n + 1 ELSE n
      params == Before(si) + PI(ud)
  IN  [si |-> si, li |-> AppendLen(params), uli |-> AppendLen(ud), ud |-> n, len |-> PI(params), body |-> body]

\* spduParams and findUserData: the user data comes out whole, or not at all.
Parses(spdu) ==
  LET params == ReadLen(spdu.li)
      ud == ReadLen(spdu.uli)
  IN  /\ params >= 0 /\ 1 + Len(spdu.li) + params <= spdu.len
      /\ ud >= 0 /\ Before(spdu.si) + 1 + Len(spdu.uli) + ud = params

\* SendData, stripDataPrefix: GIVE-TOKENS and DATA-TRANSFER before the data.
Data(n, body) == [si |-> "DATA", ud |-> n, len |-> 4 + n, body |-> body]

-----------------------------------------------------------------------------
(* Presentation contexts, in the proposer's numbering.                     *)

OwnContexts == <<[id |-> 1, abs |-> "acse", ts |-> "ber"], [id |-> 3, abs |-> "mms", ts |-> "ber"]>>

Acceptable(c) == c.abs \in {"acse", "mms"} /\ c.ts = "ber"

\* Negotiate: the identifier of the last acceptable context of a syntax, 0 without.
LastOf(proposed, abs) ==
  LET S == {i \in DOMAIN proposed : proposed[i].abs = abs /\ Acceptable(proposed[i])}
  IN  IF S = {} THEN 0 ELSE proposed[Max(S)].id

\* buildResults of a CPA or CPR.
Results(proposed) ==
  [i \in DOMAIN proposed |->
     IF Acceptable(proposed[i]) THEN "acceptance"
     ELSE IF proposed[i].abs \in {"acse", "mms"} THEN "transfer" ELSE "abstract"]

\* The context a CPA, CPR or ARU wraps its APDU in.
ACSEContext(id) == IF id = 0 THEN 1 ELSE id

-----------------------------------------------------------------------------
(* The MMS Initiate.                                                       *)

Or(a, b) == IF a = 0 THEN b ELSE a

EncodeInitiate(r) ==
  [detail |-> r.detail, calling |-> Or(r.calling, r.out), called |-> Or(r.called, r.out),
   nesting |-> r.nesting, cbb |-> IF r.cbb = <<>> THEN {"str", "vnam", "vlis"} ELSE r.cbb[1]]

ParseInitiate(e) ==
  LET out == IF e.called < e.calling \/ e.calling = 0 THEN e.called ELSE e.calling
  IN  [detail |-> Or(e.detail, MMSmax), out |-> Or(out, 1), calling |-> e.calling, called |-> e.called,
       nesting |-> e.nesting, cbb |-> <<e.cbb>>]

Clamp(ours, theirs) == IF theirs > 0 /\ (ours = 0 \/ ours > theirs) THEN theirs ELSE ours

\* clampInitiate, the called side left as configured.
ClampInitiateCalling(want, proposed) ==
  [detail |-> Clamp(want.detail, proposed.detail), out |-> Clamp(want.out, proposed.out),
   calling |-> Clamp(Or(want.calling, want.out), proposed.calling),
   called |-> Or(want.called, want.out), nesting |-> Clamp(want.nesting, proposed.nesting), cbb |-> want.cbb]

ClampInitiate(want, proposed) ==
  [detail |-> Clamp(want.detail, proposed.detail), out |-> Clamp(want.out, proposed.out),
   calling |-> Clamp(Or(want.calling, want.out), proposed.calling),
   called |-> Clamp(Or(want.called, want.out), proposed.called),
   nesting |-> Clamp(want.nesting, proposed.nesting),
   cbb |-> IF want.cbb = <<>> /\ proposed.cbb # <<>>
           THEN <<{"str", "vnam", "vlis"} \cap proposed.cbb[1]>> ELSE want.cbb]

-----------------------------------------------------------------------------
(* The server.                                                             *)

\* AAREFor: the application context is echoed when it is one that is served.
Echoed(app) == IF app \in {"mms", "acsi"} THEN app ELSE "mms"

SvIdle == UNCHANGED <<cfg, cl, ctx, after, deadline>>

\* cotp.Accept: the CR is answered with the clamped size.
Accept ==
  /\ sv.st = "cr" /\ toS # <<>>
  /\ LET code == ClampSizeCode(Head(toS).code)
     IN  /\ sv' = [sv EXCEPT !.st = "connect", !.size = 2^code]
         /\ toC' = Append(toC, [t |-> "CC", code |-> code])
  /\ toS' = Tail(toS)
  /\ SvIdle

\* The server ends, having sent msg; serveConn closes the transport.
Ends(said, msg) ==
  /\ sv' = [sv EXCEPT !.st = "closed", !.got = 0, !.said = said]
  /\ toC' = toC \o msg

\* refuse: the AARE in a CPR in a REFUSE SPDU.
Refuse(diag) ==
  Ends(Said("rejected", diag),
       Send(sv.size, SPDU("REFUSE", cfg.rud, [aare |-> diag, app |-> Echoed(cfg.app),
                                              results |-> Results(cfg.contexts)])))

\* e2eServerRefuse: the proposed application context, and the E2E context's result.
E2ERefuse(diag) ==
  Ends(Said("rejected", diag),
       Send(sv.size, SPDU("REFUSE", cfg.rud, [aare |-> diag, app |-> cfg.app,
                                              results |-> [i \in DOMAIN cfg.contexts |->
                                                 IF cfg.contexts[i].abs = "e2e"
                                                 THEN IF cfg.contexts[i].ts = "ber" THEN "acceptance" ELSE "transfer"
                                                 ELSE Results(cfg.contexts)[i]]])))

PAbort == Ends(Said("aborted", 0), Send(sv.size, SPDU("ABORT", 0, [aare |-> 0])))

AProfileSent == cfg.auth \in {"aprofile", "nomech", "stale"}
AProfileApplies == cfg.ap # "off" /\ (AProfileSent \/ cfg.ap = "required")

\* acceptAProfile: the diagnostic it refuses with, -1 for a P-ABORT, 0 to go on.
\* A password names a mechanism but carries no A-profile value.
AProfileVerdict ==
  CASE ~AProfileApplies -> 0
    [] AProfileApplies /\ ~cfg.tls /\ ~cfg.plain -> 13
    [] AProfileApplies /\ (cfg.tls \/ cfg.plain) /\ cfg.auth \in {"none", "nomech"} -> 12
    [] AProfileApplies /\ (cfg.tls \/ cfg.plain) /\ cfg.auth = "password" -> 14
    [] AProfileApplies /\ (cfg.tls \/ cfg.plain) /\ (cfg.auth = "stale" \/ cfg.own = "broken") -> -1
    [] OTHER -> 0

AuthenticateVerdict == CASE cfg.policy = "accept" -> 0 [] cfg.policy = "required" -> 14 [] OTHER -> 13

\* The association is accepted: InitiateResponse, AARE, CPA, session ACCEPT.
Reply ==
  LET answer == ClampInitiate(cfg.want, ParseInitiate(EncodeInitiate(cfg.offer)))
      mms == LastOf(cfg.contexts, "mms")
      acse == LastOf(cfg.contexts, "acse")
  IN  /\ sv' = [sv EXCEPT !.st = "open", !.got = 0, !.init = <<answer>>, !.mms = mms, !.acse = acse,
                          !.said = Said("accepted", 0)]
      /\ toC' = toC \o Send(sv.size,
                  SPDU("ACCEPT", cfg.rud, [aare |-> 0, app |-> Echoed(cfg.app), init |-> EncodeInitiate(answer),
                                           wrap |-> ACSEContext(acse), ext |-> mms,
                                           mech |-> IF AProfileApplies THEN cfg.own ELSE "none",
                                           results |-> Results(cfg.contexts)]))

\* acceptConn from the complete CONNECT on.
AcceptConn(spdu) ==
  \/ /\ ~Parses(spdu) \/ spdu.ud > MaxExtendedUserData
     /\ Ends(Said("closed", 0), <<>>)
  \/ /\ Parses(spdu) /\ spdu.ud <= MaxExtendedUserData
     /\ \/ /\ (cfg.app = "e2e") # cfg.e2e     \* native mode not enabled, or required
           /\ E2ERefuse(2)
        \/ /\ ~((cfg.app = "e2e") # cfg.e2e)
           /\ \/ /\ AProfileVerdict > 0
                 /\ Refuse(AProfileVerdict)
              \/ /\ AProfileVerdict < 0
                 /\ PAbort
              \/ /\ AProfileVerdict = 0 /\ AuthenticateVerdict # 0
                 /\ Refuse(AuthenticateVerdict)
              \/ /\ AProfileVerdict = 0 /\ AuthenticateVerdict = 0
                 /\ IF LastOf(cfg.contexts, "mms") = 0 THEN Ends(Said("closed", 0), <<>>) ELSE Reply

\* The server reads one TPDU of the CONNECT.
ServerReads ==
  /\ sv.st = "connect" /\ toS # <<>>
  /\ LET r == Receive(sv.got, Head(toS))
     IN  \/ r.res = "more" /\ sv' = [sv EXCEPT !.got = r.got] /\ UNCHANGED toC
         \/ r.res = "error" /\ Ends(Said("closed", 0), <<>>)
         \/ r.res = "tsdu" /\ AcceptConn(Head(toS).tsdu)
  /\ toS' = Tail(toS)
  /\ SvIdle

\* HandshakeTimeout.
ServerTimesOut ==
  /\ cfg.timed /\ sv.st \in {"cr", "connect"}
  /\ Ends(Said("timeout", 0), <<>>)
  /\ UNCHANGED toS /\ SvIdle

\* The client closed: a read of the server returns EOF.
ServerEOF ==
  /\ sv.st \in {"cr", "connect", "open"} /\ toS = <<>> /\ cl.st \in {"waiting", "failed"}
  /\ sv' = [sv EXCEPT !.st = "closed", !.got = 0]
  /\ UNCHANGED <<toS, toC>> /\ SvIdle

-----------------------------------------------------------------------------
(* The client.                                                             *)

ClIdle == UNCHANGED <<cfg, sv, ctx, after, deadline>>

\* newClientConn returned an error: Dial closes the transport.
Fails(why) == cl' = [cl EXCEPT !.st = "failed", !.got = 0, !.why = why]

\* cotp.Connect sends the CR.
Connect ==
  /\ cl.st = "new"
  /\ LET code == ClampSizeCode(IF cfg.code = 0 THEN 10 ELSE cfg.code)
     IN  /\ cl' = [cl EXCEPT !.st = "cc", !.size = 2^code]
         /\ toS' = Append(toS, [t |-> "CR", code |-> code])
  /\ UNCHANGED toC /\ ClIdle

\* What newClientConn refuses before it sends anything.
Unsendable == (AProfileSent /\ ~cfg.tls /\ ~cfg.plain) \/ cfg.ud > MaxExtendedUserData

\* recvCC, then the CONNECT with CP and AARQ.
RecvCC ==
  /\ cl.st = "cc" /\ toC # <<>>
  /\ LET size == Lowered(cl.size, Head(toC).code)
     IN  IF Unsendable
         THEN Fails(Said("unsendable", 0)) /\ UNCHANGED toS
         ELSE /\ cl' = [cl EXCEPT !.st = "accept", !.size = size]
              /\ toS' = toS \o Send(size, SPDU("CONNECT", cfg.ud, [app |-> cfg.app]))
  /\ toC' = Tail(toC) /\ ClIdle

\* verifyAProfileAARE: a missing mechanism is answered with an ABRT, a value
\* that fails verification with a P-ABORT.
AAREVerified(body) == ~AProfileSent \/ body.mech = "good"

\* The answer to the CONNECT is complete.
Answered(spdu) ==
  \/ /\ spdu.si = "REFUSE"
     /\ Fails(IF Parses(spdu) THEN Said("rejected", spdu.body.aare) ELSE Said("refused", 0))
     /\ UNCHANGED toS
  \/ /\ spdu.si = "ABORT"
     /\ Fails(Said("aborted", 0))
     /\ UNCHANGED toS
  \/ /\ spdu.si = "ACCEPT" /\ ~Parses(spdu)
     /\ Fails(Said("garbled", 0))
     /\ UNCHANGED toS
  \/ /\ spdu.si = "ACCEPT" /\ Parses(spdu) /\ ~AAREVerified(spdu.body)
     /\ Fails(Said("unverified", 0))
     /\ toS' = toS \o Send(cl.size, SPDU("ABORT", 0, [aare |-> 0]))
  \/ /\ spdu.si = "ACCEPT" /\ Parses(spdu) /\ AAREVerified(spdu.body)
     /\ cl' = [cl EXCEPT !.st = "done", !.got = 0, !.init = <<ParseInitiate(spdu.body.init)>>]
     /\ UNCHANGED toS

\* The client reads one TPDU of the answer, the transport deadline permitting.
Interrupted == deadline = "past" \/ (deadline = "ctx" /\ ctx # "live")

ClientReads ==
  /\ cl.st = "accept" /\ toC # <<>> /\ ~Interrupted
  /\ LET r == Receive(cl.got, Head(toC))
     IN  \/ r.res = "more" /\ cl' = [cl EXCEPT !.got = r.got] /\ UNCHANGED toS
         \/ r.res = "error" /\ Fails(Said("garbled", 0)) /\ UNCHANGED toS
         \/ r.res = "tsdu" /\ Answered(Head(toC).tsdu)
  /\ toC' = Tail(toC)
  /\ ClIdle

ClientEOF ==
  /\ cl.st \in {"cc", "accept", "open"} /\ toC = <<>> /\ sv.st = "closed"
  /\ Fails(Said("closed", 0))
  /\ UNCHANGED <<toS, toC>> /\ ClIdle

\* A read or write returned os.ErrDeadlineExceeded: Dial waits for a context
\* with a deadline to report it.
DeadlineExceeded ==
  /\ cl.st \in {"cc", "accept"} /\ Interrupted
  /\ cl' = [cl EXCEPT !.st = "waiting", !.got = 0]
  /\ UNCHANGED <<toS, toC>> /\ ClIdle

\* ctx.Err() is joined to the error.
Waited ==
  /\ cl.st = "waiting" /\ (cfg.deadline => ctx = "ended")
  /\ Fails(IF ctx = "ended" THEN Said("ctx", 0) ELSE Said("deadline", 0))
  /\ UNCHANGED <<toS, toC>> /\ ClIdle

\* handshakeDone without looking at what stop returned.
HandshakeDoneUnchecked ==
  /\ cl.st = "done"
  /\ after' = IF after = "armed" THEN "stopped" ELSE after
  /\ deadline' = "none"
  /\ cl' = [cl EXCEPT !.st = "open"]
  /\ UNCHANGED <<cfg, sv, toS, toC, ctx>>

\* handshakeDone: stop the AfterFunc, fail if it was started, else lift the deadline.
HandshakeDone ==
  /\ cl.st = "done"
  /\ IF after = "armed"
     THEN /\ after' = "stopped" /\ deadline' = "none"
          /\ cl' = [cl EXCEPT !.st = "open"]
     ELSE /\ Fails(Said("ctx", 0))
          /\ UNCHANGED <<after, deadline>>
  /\ UNCHANGED <<cfg, sv, toS, toC, ctx>>

-----------------------------------------------------------------------------
(* The context, and the established association.                           *)

\* The instant of a deadline comes a moment before the context reports it.
Due ==
  /\ cfg.deadline /\ ctx = "live" /\ cl.st \notin {"failed", "open"}
  /\ ctx' = "due"
  /\ UNCHANGED <<cfg, cl, sv, toS, toC, after, deadline>>

\* The context ends, which starts an AfterFunc still armed.
ContextEnds ==
  /\ IF cfg.deadline THEN ctx = "due" ELSE ctx = "live"
  /\ ctx' = "ended"
  /\ after' = IF after = "armed" THEN "pending" ELSE after
  /\ UNCHANGED <<cfg, cl, sv, toS, toC, deadline>>

\* func() { raw.SetDeadline(aLongTimeAgo) } runs, as late as it likes.
AfterFuncRuns ==
  /\ after = "pending"
  /\ after' = "ran" /\ deadline' = "past"
  /\ UNCHANGED <<cfg, cl, sv, toS, toC, ctx>>

\* sendMMS in each direction, once: the server's in the proposer's context.
ServerSends ==
  /\ sv.st = "open" /\ ~sv.sent
  /\ sv' = [sv EXCEPT !.sent = TRUE]
  /\ toC' = toC \o Send(sv.size, Data(cfg.data, [context |-> Or(sv.mms, 3)]))
  /\ UNCHANGED toS /\ SvIdle

ClientSends ==
  /\ cl.st = "open" /\ ~cl.sent
  /\ cl' = [cl EXCEPT !.sent = TRUE]
  /\ toS' = toS \o Send(cl.size, Data(cfg.data, [context |-> 3]))
  /\ UNCHANGED toC /\ ClIdle

\* recvMMS: an ABORT or an error ends this end.
ClientReceives ==
  /\ cl.st = "open" /\ toC # <<>>
  /\ LET r == Receive(cl.got, Head(toC))
     IN  cl' = [cl EXCEPT !.got = r.got, !.rcvd = @ \/ r.res = "tsdu",
                          !.st = IF r.res = "error" THEN "failed" ELSE @,
                          !.why = IF r.res = "error" THEN Said("garbled", 0) ELSE @]
  /\ toC' = Tail(toC) /\ UNCHANGED toS /\ ClIdle

ServerReceives ==
  /\ sv.st = "open" /\ toS # <<>>
  /\ LET r == Receive(sv.got, Head(toS))
         data == r.res = "tsdu" /\ Head(toS).tsdu.si = "DATA"
     IN  sv' = [sv EXCEPT !.got = r.got, !.rcvd = @ \/ data,
                          !.st = IF r.res = "more" \/ data THEN @ ELSE "closed"]
  /\ toS' = Tail(toS) /\ UNCHANGED toC /\ SvIdle

ServerNext == Accept \/ ServerReads \/ ServerEOF \/ ServerSends \/ ServerReceives
ClientNext == \/ Connect \/ RecvCC \/ ClientReads \/ ClientEOF \/ DeadlineExceeded \/ Waited
              \/ HandshakeDone \/ ClientSends \/ ClientReceives

Next == ServerNext \/ ClientNext \/ ServerTimesOut \/ Due \/ ContextEnds \/ AfterFuncRuns

Spec == Init /\ [][Next]_vars

-----------------------------------------------------------------------------
(* Properties.                                                             *)

Names(id, abs) == \E i \in DOMAIN cfg.contexts :
                    /\ cfg.contexts[i].id = id /\ cfg.contexts[i].abs = abs
                    /\ Results(cfg.contexts)[i] = "acceptance"

Within(x, bound) == bound > 0 => x <= bound

\* Two ends that are associated agree on everything they negotiated: on the
\* size of a TPDU, on the Initiate parameters, none above what the client
\* offered or the server wanted, and the server's PDUs name the MMS context by
\* the identifier the client gave it and was told is accepted (clampInitiate,
\* ParseInitiateResponse, Negotiate, buildResults, Accept and recvCC).
EndsAlike ==
  /\ (cl.st = "open" /\ sv.st = "open") =>
       LET c == cl.init[1]  s == EncodeInitiate(sv.init[1])
           offer == ParseInitiate(EncodeInitiate(cfg.offer))  want == EncodeInitiate(cfg.want)
       IN  /\ cl.size = sv.size
           /\ c.detail = sv.init[1].detail /\ c.calling = s.calling /\ c.called = s.called
           /\ Within(c.detail, offer.detail) /\ Within(c.detail, want.detail)
           /\ Within(c.calling, offer.calling) /\ Within(c.called, offer.called)
           /\ Within(c.calling, want.calling) /\ Within(c.called, want.called)
           /\ c.cbb[1] \subseteq offer.cbb[1] \cup (IF cfg.want.cbb = <<>> THEN {} ELSE cfg.want.cbb[1])
  /\ sv.st = "open" =>
       /\ Names(sv.mms, "mms")
       /\ sv.acse # 0 => Names(sv.acse, "acse")

\* The bounds of the handshake never outlive it: an established client has no
\* deadline on its transport and no AfterFunc that could still set one, and a
\* dial whose read hit the deadline fails with the context's error
\* (handshakeDone in newClientConn, and Dial waiting for its context).
BoundsLifted ==
  /\ cl.st = "open" => deadline = "none" /\ after = "stopped"
  /\ cl.st = "failed" => cl.why.k # "deadline"

\* A handshake nobody interrupts ends the way both sides know, when neither has
\* a step left: both are associated and have each other's first PDU, whole, at
\* any length and TPDU size; or the client reports just what the server
\* answered; or it could not send, or verify, what the A-profile asks for.  The
\* server closes without an answer only if no MMS context was usable (acceptConn
\* and newClientConn, over Conn.Send and Receive and the session parameters).
Settled ==
  \/ /\ cl.st = "open" /\ sv.st = "open"
     /\ cl.rcvd /\ sv.rcvd
  \/ cl.st = "failed" /\ cl.why = sv.said /\ sv.said.k \in {"rejected", "aborted"}
  \/ cl.st = "failed" /\ cl.why.k = "closed" /\ LastOf(cfg.contexts, "mms") = 0
  \/ cl.st = "failed" /\ cl.why.k \in {"unsendable", "unverified"} /\ sv.st = "closed"

Concludes ==
  (ctx = "live" /\ sv.said.k # "timeout" /\ ~ENABLED (ServerNext \/ ClientNext)) => Settled

=============================================================================
