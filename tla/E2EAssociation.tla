--------------------------- MODULE E2EAssociation ---------------------------
(***************************************************************************)
(* The data transfer phase of an IEC 62351-4 end-to-end association        *)
(* (iec62351/e2e/assoc.go) as mms/transport.go, mms/conn.go and            *)
(* mms/server_conn.go drive it: every PDU is sealed under the key of its   *)
(* direction with a time and a sequence number, the client changes the     *)
(* keys while PDUs of both directions are under way, and the association   *)
(* ends by a signed release, an abort or the loss of the transport.        *)
(*                                                                         *)
(* A key is the hash chain (salt) it was derived from: the sequence of the *)
(* rekey values absorbed since the handshake.  The transport delivers in   *)
(* order or not at all (TCP).  Time is in ticks of the clocks' comparison; *)
(* clock[r] is the clock of end r.                                         *)
(***************************************************************************)
EXTENDS Integers, Sequences

CONSTANTS Freshness,          \* Policy.Freshness
          RekeyInterval,      \* Policy.RekeyInterval of the client
          RekeyRequest,       \* Policy.RekeyRequest of the server, 0 for never
          MaxMessagesPerKey,  \* Policy.MaxMessagesPerKey
          Overdue,            \* 2 * releaseTimeout, the bound of rekeyLoop
          Skew,               \* how far the server's clock is ahead
          MaxTime,            \* bound: ticks of the clocks
          MaxBack,            \* bound: backward steps of a clock
          MaxSends,           \* bound: requests of the client's user and reports
          MaxAsks             \* bound: calls of RequestRekey

VARIABLES clock, back,  \* the clocks and their backward steps
          a,            \* the Association of each end
          sent,         \* sent[r]: the PDUs on their way to end r
          owed,         \* responses the server has still to send
          up,           \* the transport is open
          closing,      \* how far the client's Close has come
          sends, asks,
          carried,      \* PDUs sealed with reqRekey
          refused       \* why an end refused a PDU

vars == <<clock, back, a, sent, owed, up, closing, sends, asks, carried, refused>>

E2EAssociationAssumption ==
  /\ {Freshness, MaxMessagesPerKey, Overdue, RekeyInterval} \subseteq Nat \ {0}
  /\ {RekeyRequest, Skew, MaxTime, MaxBack, MaxSends, MaxAsks} \subseteq Nat
  /\ Skew <= Freshness

Roles == {"client", "server"}
Other(r) == IF r = "client" THEN "server" ELSE "client"

Sealing(r) == up /\ a[r].state \in {"established", "releasing"}

\* An Association as the handshake leaves it at time t: one key of each
\* direction, no PDU sent or received yet.
Established(t) ==
  [state |-> "established", salt |-> <<>>, epoch |-> 0, epochStart |-> t,
   tx |-> [key |-> <<>>, time |-> 0, seq |-> 0, have |-> FALSE, msgs |-> 0],
   rx |-> [key |-> <<>>, time |-> 0, seq |-> 0, have |-> FALSE],
   rekeyWanted |-> FALSE, rekeyOut |-> FALSE, rekeyOutAt |-> 0,
   pendingKey |-> <<>>, pendingChg |-> FALSE,
   reqRekeySent |-> FALSE, soon |-> FALSE]

\* release: the association drops its keys, and nothing reads the rest of it
\* any more.
Ended == [Established(0) EXCEPT !.state = "closed"]

Init ==
  /\ clock = [r \in Roles |-> IF r = "server" THEN Skew ELSE 0]
  /\ back = 0
  /\ a = [r \in Roles |-> Established(clock[r])]
  /\ sent = [r \in Roles |-> <<>>]
  /\ owed = <<>>
  /\ up = TRUE
  /\ closing = "open"
  /\ sends = 0 /\ asks = 0 /\ carried = 0
  /\ refused = {}

-----------------------------------------------------------------------------
(* Sealing a PDU.                                                          *)

\* Faulty: the clock's time, whatever was sent before.
SealTimeNow(r) == clock[r]

\* The time a PDU carries: never before the one of the PDU before it.
SealTime(r) ==
  IF a[r].tx.have /\ clock[r] < a[r].tx.time THEN a[r].tx.time ELSE clock[r]

SealSeq(r) ==
  IF a[r].tx.have /\ SealTime(r) = a[r].tx.time THEN a[r].tx.seq + 1 ELSE 0

\* The client puts a new public value into this PDU.
Rekeys(r) ==
  /\ r = "client"
  /\ ~a[r].rekeyOut
  /\ \/ a[r].rekeyWanted
     \/ clock[r] - a[r].epochStart >= RekeyInterval
     \/ a[r].tx.msgs >= MaxMessagesPerKey

\* The server says that the next PDU is under the new key.
Changes(r) == r = "server" /\ a[r].pendingChg

\* The server asks the client for new keys.
Asks(r) ==
  /\ r = "server"
  /\ ~a[r].pendingChg
  /\ ~a[r].reqRekeySent
  /\ \/ a[r].soon
     \/ RekeyRequest > 0 /\ clock[r] - a[r].epochStart >= RekeyRequest

\* The value that stands for a new Diffie-Hellman public value and the PDU it
\* is in: no two rekeys of an association share one.
NewValue(r) == Len(a[r].salt) + 1

Token(r, kind) ==
  [kind |-> kind, key |-> a[r].tx.key, time |-> SealTime(r), seq |-> SealSeq(r),
   rekey |-> IF Rekeys(r) THEN NewValue(r) ELSE 0,
   reqRekey |-> Asks(r), changedKey |-> Changes(r)]

\* The association after the PDU is built: the old keys protected it.
Sealed(r) ==
  LET s  == a[r]
      tx == [s.tx EXCEPT !.time = SealTime(r), !.seq = SealSeq(r),
                         !.have = TRUE, !.msgs = @ + 1]
      salt == Append(s.salt, NewValue(r))
  IN  CASE Rekeys(r) ->
             [s EXCEPT !.salt = salt, !.tx = [tx EXCEPT !.key = salt, !.msgs = 0],
                       !.pendingKey = salt, !.rekeyOut = TRUE,
                       !.rekeyOutAt = clock[r], !.rekeyWanted = FALSE]
        [] Changes(r) ->
             [s EXCEPT !.tx = [tx EXCEPT !.key = s.pendingKey, !.msgs = 0],
                       !.pendingKey = <<>>, !.pendingChg = FALSE,
                       !.epoch = @ + 1, !.epochStart = clock[r],
                       !.reqRekeySent = FALSE]
        [] OTHER -> [s EXCEPT !.tx = tx, !.reqRekeySent = @ \/ Asks(r)]

\* sendMMS: the PDU is sealed and written under one lock.
Seal(r, kind) ==
  /\ Sealing(r)
  /\ a' = [a EXCEPT ![r] = Sealed(r)]
  /\ sent' = [sent EXCEPT ![Other(r)] = Append(@, Token(r, kind))]
  /\ carried' = carried + (IF Asks(r) THEN 1 ELSE 0)

\* A request of the client's user.
Request ==
  /\ closing = "open"
  /\ sends < MaxSends
  /\ Seal("client", "request")
  /\ sends' = sends + 1
  /\ UNCHANGED <<clock, back, owed, up, closing, asks, refused>>

\* The server answers what it has received, and reports on its own.
Respond ==
  /\ owed # <<>>
  /\ Seal("server", Head(owed))
  /\ owed' = Tail(owed)
  /\ UNCHANGED <<clock, back, up, closing, sends, asks, refused>>

Report ==
  /\ sends < MaxSends
  /\ Seal("server", "report")
  /\ sends' = sends + 1
  /\ UNCHANGED <<clock, back, owed, up, closing, asks, refused>>

-----------------------------------------------------------------------------
(* Opening a PDU.                                                          *)

Fresh(r, t) == clock[r] - t <= Freshness /\ t - clock[r] <= Freshness

\* What open finds wrong with the PDU m, in the order it looks.
Fault(r, m) ==
  LET rx == a[r].rx IN
  CASE m.key # rx.key -> "icv"
    [] ~Fresh(r, m.time) -> "late"
    [] rx.have /\ m.time < rx.time -> "time"
    [] rx.have /\ m.time = rx.time /\ m.seq # rx.seq + 1 -> "sequence"
    [] rx.have /\ m.time > rx.time /\ m.seq # 0 -> "sequence"
    [] ~rx.have /\ m.seq # 0 -> "sequence"
    [] r = "client" /\ m.rekey # 0 -> "flags"
    [] r = "client" /\ m.changedKey /\ ~a[r].rekeyOut -> "flags"
    [] r = "server" /\ (m.changedKey \/ m.reqRekey) -> "flags"
    [] r = "server" /\ m.rekey # 0 /\ a[r].pendingChg -> "flags"
    [] OTHER -> "none"

\* Faulty: the client takes the server's new key into use with its own rekey's
\* first answer, changedKey or not.
OpenedEarly(r, m) ==
  LET s  == a[r]
      rx == [s.rx EXCEPT !.time = m.time, !.seq = m.seq, !.have = TRUE]
      salt == Append(s.salt, m.rekey)
  IN  CASE m.rekey # 0 ->
             [s EXCEPT !.salt = salt, !.rx = [rx EXCEPT !.key = salt],
                       !.pendingKey = salt, !.pendingChg = TRUE]
        [] r = "client" /\ s.rekeyOut ->
             [s EXCEPT !.rx = [rx EXCEPT !.key = s.pendingKey],
                       !.pendingKey = <<>>, !.rekeyOut = FALSE,
                       !.epoch = @ + 1, !.epochStart = clock[r]]
        [] OTHER -> [s EXCEPT !.rx = rx]

\* The association after an accepted PDU.
Opened(r, m) ==
  LET s  == a[r]
      rx == [s.rx EXCEPT !.time = m.time, !.seq = m.seq, !.have = TRUE]
      salt == Append(s.salt, m.rekey)
  IN  CASE m.rekey # 0 ->
             [s EXCEPT !.salt = salt, !.rx = [rx EXCEPT !.key = salt],
                       !.pendingKey = salt, !.pendingChg = TRUE]
        [] r = "client" /\ m.changedKey ->
             [s EXCEPT !.rx = [rx EXCEPT !.key = s.pendingKey],
                       !.pendingKey = <<>>, !.rekeyOut = FALSE,
                       !.epoch = @ + 1, !.epochStart = clock[r]]
        [] OTHER -> [s EXCEPT !.rx = rx,
                              !.rekeyWanted = @ \/ (r = "client" /\ m.reqRekey)]

\* The reader of end r takes the next PDU of kind data: it hands it on, or
\* answers the error with a signed abort and stops.
Open(r) ==
  /\ up
  /\ sent[r] # <<>>
  /\ Head(sent[r]).kind \notin {"release", "released", "abort"}
  /\ a[r].state \in {"established", "releasing"}
  /\ LET m == Head(sent[r]) IN
     \/ /\ Fault(r, m) = "none"
        /\ a' = [a EXCEPT ![r] = Opened(r, m)]
        /\ sent' = [sent EXCEPT ![r] = Tail(@)]
        /\ owed' = IF m.kind = "request" THEN Append(owed, "response")
                   ELSE IF m.kind = "conclude" THEN Append(owed, "concluded") ELSE owed
        /\ closing' = IF m.kind = "concluded" /\ closing = "concluding" THEN "concluded" ELSE closing
        /\ UNCHANGED refused
     \/ /\ Fault(r, m) # "none"
        /\ a' = [a EXCEPT ![r] = Ended]
        /\ sent' = [sent EXCEPT ![r] = Tail(@), ![Other(r)] = Append(@, [kind |-> "abort"])]
        /\ refused' = refused \cup {Fault(r, m)}
        /\ UNCHANGED <<owed, closing>>
  /\ UNCHANGED <<clock, back, up, sends, asks, carried>>

-----------------------------------------------------------------------------
(* Asking for new keys, and the loop that sees to it.                      *)

RequestRekey(r) ==
  /\ asks < MaxAsks
  /\ up
  /\ a[r].state = "established"
  /\ a' = IF r = "client" THEN [a EXCEPT ![r].rekeyWanted = TRUE]
          ELSE [a EXCEPT ![r].reqRekeySent = FALSE, ![r].epochStart = -RekeyRequest,
                         ![r].soon = @ \/ RekeyRequest = 0]
  /\ asks' = asks + 1
  /\ UNCHANGED <<clock, back, sent, owed, up, closing, sends, carried, refused>>

RekeyOverdue == a["client"].rekeyOut /\ clock["client"] - a["client"].rekeyOutAt > Overdue

\* Faulty: the loop leaves every rekey to the user's requests.
RekeyDueNever == FALSE

RekeyDue ==
  /\ a["client"].state = "established"
  /\ ~a["client"].rekeyOut
  /\ \/ a["client"].rekeyWanted
     \/ clock["client"] - a["client"].epochStart >= RekeyInterval

\* One round of rekeyLoop: it aborts an association whose rekey was never
\* acknowledged, and sends an Identify to carry a rekey that is due.
RekeyLoop ==
  /\ up
  /\ \/ /\ RekeyOverdue
        /\ a["client"].state # "closed"
        /\ a' = [a EXCEPT !["client"] = Ended]
        /\ sent' = [sent EXCEPT !["server"] = Append(@, [kind |-> "abort"])]
        /\ UNCHANGED carried
     \/ /\ ~RekeyOverdue /\ RekeyDue
        /\ closing = "open"
        /\ Seal("client", "request")
  /\ UNCHANGED <<clock, back, owed, up, closing, sends, asks, refused>>

-----------------------------------------------------------------------------
(* The end of the association.                                             *)

\* The client's Close: conclude, then the signed release; each wait is bounded
\* by the release timeout, after which the transport is closed.
Close ==
  /\ closing = "open"
  /\ closing' = "concluding"
  /\ Seal("client", "conclude")
  /\ UNCHANGED <<clock, back, owed, up, sends, asks, refused>>

ReleaseRequest ==
  /\ up
  /\ closing = "concluded"
  /\ a["client"].state = "established"
  /\ closing' = "releasing"
  /\ a' = [a EXCEPT !["client"].state = "releasing"]
  /\ sent' = [sent EXCEPT !["server"] = Append(@, [kind |-> "release", time |-> clock["client"]])]
  /\ UNCHANGED <<clock, back, owed, up, sends, asks, carried, refused>>

\* The reader takes a release PDU: a request is answered and ends the server's
\* association, a response ends the client's; one that does not verify is
\* answered with an abort, or just ends the client's association.
Release(r) ==
  /\ up
  /\ sent[r] # <<>>
  /\ Head(sent[r]).kind \in {"release", "released"}
  /\ a[r].state # "closed"
  /\ a' = [a EXCEPT ![r] = Ended]
  /\ sent' = [sent EXCEPT ![r] = Tail(@),
                ![Other(r)] = IF r = "client" THEN @
                              ELSE Append(@, [kind |-> IF Fresh(r, Head(sent[r]).time) THEN "released" ELSE "abort"])]
  /\ UNCHANGED <<clock, back, owed, up, closing, sends, asks, carried, refused>>

\* Abort on either end, and the reader that receives one.
Abort(r) ==
  /\ Sealing(r)
  /\ a' = [a EXCEPT ![r] = Ended]
  /\ sent' = [sent EXCEPT ![Other(r)] = Append(@, [kind |-> "abort"])]
  /\ UNCHANGED <<clock, back, owed, up, closing, sends, asks, carried, refused>>

Aborted(r) ==
  /\ up
  /\ sent[r] # <<>>
  /\ Head(sent[r]).kind = "abort"
  /\ a' = [a EXCEPT ![r] = Ended]
  /\ sent' = [sent EXCEPT ![r] = Tail(@)]
  /\ UNCHANGED <<clock, back, owed, up, closing, sends, asks, carried, refused>>

\* The transport is closed: by an end whose association has ended, and by
\* Close, at its timeout at the latest.
Down ==
  /\ up
  /\ closing # "open" \/ \E r \in Roles : a[r].state = "closed"
  /\ up' = FALSE
  /\ sent' = [r \in Roles |-> <<>>]
  /\ owed' = <<>>
  /\ UNCHANGED <<clock, back, a, closing, sends, asks, carried, refused>>

\* Both clocks run; one may be set back.
Tick ==
  /\ Sealing("client") /\ Sealing("server")
  /\ clock["client"] < MaxTime
  /\ clock' = [r \in Roles |-> clock[r] + 1]
  /\ UNCHANGED <<back, a, sent, owed, up, closing, sends, asks, carried, refused>>

SetBack(r) ==
  /\ Sealing(r)
  /\ back < MaxBack
  /\ clock[r] > 0
  /\ back' = back + 1
  /\ clock' = [clock EXCEPT ![r] = @ - 1]
  /\ UNCHANGED <<a, sent, owed, up, closing, sends, asks, carried, refused>>

\* The reader of end r takes what comes next.
Reads(r) == Open(r) \/ Release(r) \/ Aborted(r)

Next ==
  \/ Request \/ Respond \/ Report
  \/ \E r \in Roles : Reads(r)
  \/ \E r \in Roles : RequestRekey(r)
  \/ RekeyLoop
  \/ Close \/ ReleaseRequest
  \/ \E r \in Roles : Abort(r)
  \/ Down \/ Tick
  \/ \E r \in Roles : SetBack(r)

Spec == Init /\ [][Next]_vars

\* The readers read, the server answers what it received, and rekeyLoop runs
\* every thirty seconds.
Fairness ==
  /\ \A r \in Roles : WF_vars(Reads(r))
  /\ WF_vars(Respond) /\ WF_vars(RekeyLoop)

FairSpec == Spec /\ Fairness

-----------------------------------------------------------------------------
TypeOK ==
  /\ \A r \in Roles :
       /\ a[r].state \in {"established", "releasing", "closed"}
       /\ a[r].epoch \in Nat
       /\ a[r].tx.key \in Seq(Nat) /\ a[r].rx.key \in Seq(Nat)
  /\ refused \subseteq {"icv", "late", "time", "sequence", "flags"}

\* Whatever the two ends send, ask for and receive while keys change, and
\* whatever their clocks do, no end refuses a PDU of the other for its key, its
\* sequence number or its flags: only one that arrives later than the
\* freshness window allows ends the association (Seal and open of
\* iec62351/e2e/assoc.go).
OnlyLateRefused == refused \subseteq {"late"}

\* A rekey that is wanted is started, and one that is started is acknowledged,
\* unless the association ends first: rekeyLoop carries it when no other PDU
\* does.
RekeyDone ==
  /\ a["client"].rekeyWanted ~> (a["client"].rekeyOut \/ ~Sealing("client") \/ closing # "open")
  /\ a["client"].rekeyOut ~> (~a["client"].rekeyOut \/ ~Sealing("client") \/ ~Sealing("server"))

\* A server that is configured never to ask for new keys (RekeyRequest zero,
\* "zero never requests") asks once for every call of RequestRekey.
AsksWhenCalled == RekeyRequest = 0 => carried <= asks

=============================================================================
