---------------------------- MODULE ReportControl ----------------------------
(***************************************************************************)
(* One report control block of the server, buffered (BRCB) or unbuffered   *)
(* (URCB): server/reporting.go and server/rcb.go.  Every entry point runs  *)
(* under the model's write lock and the block's own mutex, so each is one  *)
(* atomic action here; what interleaves is the clients, the process side   *)
(* and the callbacks (buffer-time timer, reservation timer, integrity      *)
(* ticker), which may run long after the timer behind them was stopped.    *)
(***************************************************************************)
EXTENDS Integers, Sequences, FiniteSets

CONSTANTS
  Conns,        \* client associations (a slot is reused by later ones)
  IPs,          \* client addresses
  AddrOf,       \* connIP: the address a connection came from, NoIP if unknown
  NoConn, NoIP, \* nil
  Buffered,     \* TRUE for a BRCB
  ResvCfgIP,    \* the address the configuration reserves the block for, or NoIP
  MaxBuffer,    \* rcbState.maxBuffer: reports the buffer retains
  SqMod,        \* SqNum wraps at this: 2^16 for a BRCB, 2^8 for a URCB
  Leaves,       \* data attributes
  DataSets,     \* data sets, each a set of leaves (its members)
  BufTms, IntgPds, ResvTmss, TrgOpss,  \* values clients write
  Timers,       \* identities of timers, tickers and their callbacks
  MaxEmitted, MaxUpdates, MaxConfRev   \* bounds on the counters

(* A nil connection or address is no connection or address, and every      *)
(* bound is a number.                                                      *)
ASSUME RCBAssumption ==
  /\ NoConn \notin Conns /\ NoIP \notin IPs
  /\ AddrOf \in [Conns -> IPs \cup {NoIP}]
  /\ Buffered \in BOOLEAN
  /\ ResvCfgIP \in IPs \cup {NoIP}
  /\ MaxBuffer \in Nat \ {0} /\ SqMod \in Nat \ {0}
  /\ DataSets \subseteq (SUBSET Leaves) \ {{}}
  /\ BufTms \subseteq Nat /\ IntgPds \subseteq Nat /\ ResvTmss \subseteq Nat
  /\ TrgOpss \subseteq SUBSET {"dchg", "integrity", "gi"}
  /\ Timers \subseteq Nat \ {0}
  /\ MaxEmitted \in Nat /\ MaxUpdates \in Nat \ {0} /\ MaxConfRev \in Nat

VARIABLES
  rs,      \* the rcbState and its outstanding callbacks, but for
  rv,      \* its reservation, and
  attr,    \* the attributes clients configure
  open,    \* connections being served
  leaf,    \* the current value of each leaf: the number of the update that wrote it
  now      \* updates so far

vars == <<rs, rv, attr, open, leaf, now>>

ResvCfg == ResvCfgIP # NoIP
NoDataSet == {}
NoVals == [l \in Leaves |-> 0]   \* no member included

-----------------------------------------------------------------------------
(* Sending.  A report is accepted by the connection or refused (queue      *)
(* full, connection closed); acc is the set of entries it accepts in this  *)
(* step.  sent is the history of the reports of the current enabling.      *)

(* transmitLocked of entry e, with the sequence number and the overflow    *)
(* flag it carries.  due is the entry the subscriber gets next if it       *)
(* misses none, and missed says this report is not it (history fields).    *)
Transmission(e, sq, ovfl, due, acc) ==
  [id |-> e.id, vals |-> e.vals, conf |-> e.conf, sq |-> sq, ovfl |-> ovfl,
   missed |-> due # e.id, ok |-> e.id \in acc]

(* Faulty variant: the refusal of the last report is forgotten.            *)
TransmitBufferedForgets(r, acc) ==
  LET m == Len(r.buffer) - r.next
  IN IF m = 0 THEN r
     ELSE [r EXCEPT
             !.next = @ + m, !.sqNum = (@ + m) % SqMod, !.bufOverflow = FALSE,
             !.due = IF r.buffer[r.next + m].id \in acc THEN r.emitted + 1 ELSE r.emitted,
             !.sent = @ \o [k \in 1..m |->
                Transmission(r.buffer[r.next + k], (r.sqNum + k - 1) % SqMod,
                             k = 1 /\ r.bufOverflow,
                             IF k = 1 THEN r.due ELSE r.buffer[r.next + k].id, acc)]]

(* transmitBufferedLocked: every entry from next on, each with the next    *)
(* sequence number.  The overflow flag goes out with the first report and  *)
(* is set again by each refused one.                                       *)
TransmitBuffered(r, acc) ==
  LET n == Len(r.buffer)
      m == n - r.next
      refused(k) == r.buffer[k].id \notin acc
      after(k) == IF refused(k) THEN r.buffer[k].id ELSE r.buffer[k].id + 1
  IN IF m = 0 THEN r
     ELSE [r EXCEPT
             !.next = n,
             !.sqNum = (@ + m) % SqMod,
             !.bufOverflow = refused(n),
             !.due = after(n),
             !.sent = @ \o [k \in 1..m |->
                Transmission(r.buffer[r.next + k], (r.sqNum + k - 1) % SqMod,
                             IF k = 1 THEN r.bufOverflow ELSE refused(r.next + k - 1),
                             IF k = 1 THEN r.due ELSE after(r.next + k - 1), acc)]]

(* transmitLocked for an unbuffered block: a refused report is lost.       *)
TransmitOne(r, e, acc) ==
  [r EXCEPT !.sqNum = (@ + 1) % SqMod,
            !.due = e.id + 1,
            !.sent = Append(@, Transmission(e, r.sqNum, FALSE, e.id, acc))]

(* Faulty variant: the index falls below the first entry.                  *)
TrimmedBelowZero(r) ==
  IF Len(r.buffer) <= MaxBuffer THEN r
  ELSE [r EXCEPT !.buffer = Tail(@), !.next = @ - 1, !.bufOverflow = @ \/ r.next = 0]

(* The entry an emit appends past MaxBuffer discards the oldest, which had *)
(* been sent (next > 0) or is lost.                                        *)
Trimmed(r) ==
  IF Len(r.buffer) <= MaxBuffer THEN r
  ELSE [r EXCEPT !.buffer = Tail(@),
                 !.next = IF @ > 0 THEN @ - 1 ELSE @,
                 !.bufOverflow = @ \/ r.next = 0]

(* emitLocked *)
Emit(r, reason, conf, vals, acc) ==
  LET e == [id |-> r.emitted + 1, reason |-> reason, conf |-> conf, vals |-> vals]
      s == [r EXCEPT !.emitted = @ + 1]
      b == Trimmed([s EXCEPT !.buffer = Append(@, e)])
  IN IF Buffered THEN IF r.enabled THEN TransmitBuffered(b, acc) ELSE b
     ELSE IF r.enabled THEN TransmitOne(s, e, acc) ELSE s

(* Faulty variant: the window is reported but not closed.                  *)
FlushPendingKeeps(r, acc) ==
  IF r.pending = 0 \/ r.pendVals = NoVals THEN r
  ELSE Emit([r EXCEPT !.pendVals = NoVals], "event", r.pendConf, r.pendVals, acc)

(* flushPendingLocked; the timer it stops may already be waiting for the   *)
(* lock, so its callback stays outstanding.                                *)
FlushPending(r, acc) ==
  IF r.pending = 0 THEN r
  ELSE LET p == [r EXCEPT !.pending = 0, !.pendVals = NoVals]
       IN IF r.pendVals = NoVals THEN p ELSE Emit(p, "event", r.pendConf, r.pendVals, acc)

(* reportAllLocked: pending events first, then every member.               *)
ReportAll(r, reason, acc) ==
  LET f == FlushPending(r, acc)
  IN IF attr.datSet = NoDataSet THEN f
     ELSE Emit(f, reason, attr.confRev,
               [l \in Leaves |-> IF l \in attr.datSet THEN leaf[l] ELSE 0], acc)

(* merge, for windows that do not overlap                                  *)
Merge(p, e) == [l \in Leaves |-> IF e[l] # 0 THEN e[l] ELSE p[l]]
Overlaps(p, e) == \E l \in Leaves : p[l] # 0 /\ e[l] # 0

Fresh(callbacks) == CHOOSE t \in Timers : t \notin callbacks

(* Faulty variants: a second change joins the window in the place of the   *)
(* first; it overtakes the window instead of closing it.                   *)
EventOverwrites(r, vals, acc) ==
  IF attr.bufTm = 0 THEN Emit(r, "event", attr.confRev, vals, acc)
  ELSE LET t == Fresh(r.pendCbs)
           w == IF r.pending # 0 THEN r
                ELSE [r EXCEPT !.pending = t, !.pendCbs = @ \cup {t}, !.pendConf = attr.confRev]
       IN [w EXCEPT !.pendVals = Merge(@, vals)]
EventOvertakes(r, vals, acc) ==
  IF attr.bufTm = 0 \/ Overlaps(r.pendVals, vals) THEN Emit(r, "event", attr.confRev, vals, acc)
  ELSE EventOverwrites(r, vals, acc)

(* eventLocked: with no buffer time the event is a report of its own;      *)
(* otherwise it joins the open window, closing it first if a member        *)
(* changed again.                                                          *)
Event(r, vals, acc) ==
  IF attr.bufTm = 0 THEN Emit(r, "event", attr.confRev, vals, acc)
  ELSE LET f == IF r.pending # 0 /\ Overlaps(r.pendVals, vals) THEN FlushPending(r, acc) ELSE r
           t == Fresh(r.pendCbs)
           w == IF f.pending # 0 THEN f
                ELSE [f EXCEPT !.pending = t, !.pendCbs = @ \cup {t}, !.pendConf = attr.confRev]
       IN [w EXCEPT !.pendVals = Merge(@, vals)]

-----------------------------------------------------------------------------
(* Reservation.                                                            *)

Held(owner, ip) == IF owner # NoConn THEN AddrOf[owner] ELSE ip

(* syncResvLocked: Resv of a URCB, Owner of a BRCB                         *)
Synced(v) ==
  IF Buffered THEN [v EXCEPT !.ownerAttr = Held(v.owner, v.resvIP)]
  ELSE [v EXCEPT !.resvAttr = (v.owner # NoConn \/ v.resvIP # NoIP)]

(* Faulty variant: the reservation for an absent client is not consulted.  *)
AllowedToAnyone(v, c) == v.owner \in {NoConn, c}

(* allowedLocked *)
Allowed(v, c) ==
  IF v.owner # NoConn THEN v.owner = c
  ELSE v.resvIP = NoIP \/ (AddrOf[c] # NoIP /\ AddrOf[c] = v.resvIP)

(* Faulty variant: taking the block ends a configured reservation too.     *)
TakeClears(v, c) == Synced([v EXCEPT !.owner = c, !.resvTimer = 0, !.resvIP = NoIP])

(* takeLocked *)
Take(v, c) ==
  Synced([v EXCEPT !.owner = c, !.resvTimer = 0, !.resvIP = IF ResvCfg THEN @ ELSE NoIP])

(* releaseLocked: a configured reservation stays, a BRCB with a ResvTms is *)
(* held for its client's address until a timer fires.                      *)
Release(v) ==
  LET ip == IF v.owner = NoConn THEN NoIP ELSE AddrOf[v.owner]
      t == Fresh(v.resvCbs)
      freed == [v EXCEPT !.owner = NoConn, !.resvTimer = 0, !.resvIP = NoIP]
  IN IF ResvCfg THEN Synced([v EXCEPT !.owner = NoConn])
     ELSE IF Buffered /\ attr.resvTms > 0 /\ ip # NoIP
          THEN Synced([freed EXCEPT !.resvIP = ip, !.resvTimer = t, !.resvCbs = @ \cup {t}])
          ELSE Synced(freed)

(* The implicit reservation every accepted write makes.                    *)
Reserved(v, c) == IF v.owner = NoConn THEN Take(v, c) ELSE v

-----------------------------------------------------------------------------
(* Enabling.                                                               *)

BufferIndex(r, id) == {i \in 1..Len(r.buffer) : r.buffer[i].id = id}

(* The resync point of a BRCB: everything for zero, the entry after the    *)
(* named one, or everything and the overflow flag when the named entry is  *)
(* gone.  resyncID is -1 when no EntryID was written.                      *)
Resynced(r) ==
  IF r.resyncID = -1 THEN r
  ELSE LET oldest == r.emitted - Len(r.buffer) + 1
           q == [r EXCEPT !.resyncID = -1]
       IN IF r.resyncID = 0 THEN [q EXCEPT !.next = 0, !.due = oldest]
          ELSE IF BufferIndex(r, r.resyncID) = {}
               THEN [q EXCEPT !.next = 0, !.bufOverflow = TRUE]
               ELSE LET i == CHOOSE i \in BufferIndex(r, r.resyncID) : TRUE
                    IN [q EXCEPT !.next = i, !.due = r.resyncID + 1]

(* Faulty variant: SqNum goes on from the last enabling.                   *)
EnableRenumbers(r, c, acc) ==
  LET e == [r EXCEPT !.enabled = TRUE, !.conn = c, !.intgStop = 0, !.sent = <<>>]
  IN IF Buffered THEN TransmitBuffered(Resynced(e), acc) ELSE e

(* enableLocked: the report state, and the reservation.                    *)
Enable(r, c, acc) ==
  LET e == [r EXCEPT !.enabled = TRUE, !.conn = c, !.sqNum = 0, !.intgStop = 0, !.sent = <<>>]
      b == IF Buffered THEN TransmitBuffered(Resynced(e), acc) ELSE e
      g == Fresh(r.intgLoops)
  IN IF attr.intgPd > 0 /\ "integrity" \in attr.trgOps
     THEN [b EXCEPT !.intgStop = g, !.intgLoops = @ \cup {g}] ELSE b
EnableTakes(v, c) == IF v.owner # c THEN Take(v, c) ELSE v

(* disableLocked: the report state, and the reservation.                   *)
Disable(r, acc) ==
  [FlushPending(r, acc) EXCEPT !.enabled = FALSE, !.conn = NoConn, !.intgStop = 0]
DisableReleases(v) == IF Buffered THEN Release(v) ELSE v

(* purgeLocked *)
Purged(r) ==
  [r EXCEPT !.buffer = <<>>, !.next = 0, !.bufOverflow = FALSE, !.resyncID = -1,
            !.due = r.emitted + 1]

-----------------------------------------------------------------------------
(* materialiseRCBs: a block no client has written yet.  (The ResvTms -1 of *)
(* a configured reservation is 0 here: it only has to be no time.)         *)
Init ==
  /\ rs = [enabled |-> FALSE, conn |-> NoConn, sqNum |-> 0, intgStop |-> 0, intgLoops |-> {},
           pending |-> 0, pendVals |-> NoVals, pendConf |-> 0, pendCbs |-> {},
           buffer |-> <<>>, next |-> 0, resyncID |-> -1, bufOverflow |-> FALSE,
           emitted |-> 0, due |-> 1, sent |-> <<>>]
  /\ rv = [owner |-> NoConn, resvIP |-> ResvCfgIP, resvTimer |-> 0, resvCbs |-> {},
           resvAttr |-> ~Buffered /\ ResvCfg,
           ownerAttr |-> IF Buffered THEN ResvCfgIP ELSE NoIP]
  /\ attr \in [datSet : DataSets \cup {NoDataSet}, confRev : {0}, bufTm : BufTms,
               intgPd : IntgPds, trgOps : TrgOpss, resvTms : {0}]
  /\ open = {}
  /\ leaf = [l \in Leaves |-> 1]
  /\ now = 1

(* Bounds: an action that may emit has room for the two entries it may     *)
(* emit and leaves room for the open window's report; one that may start a *)
(* callback has an identity for it.                                        *)
MayEmit == rs.emitted + 2 < MaxEmitted
MayFlush == rs.pending # 0 => rs.emitted < MaxEmitted
MayStart(callbacks) == callbacks # Timers

(* The entries a connection may accept: of those a step emits, and of      *)
(* those in the buffer when the block is enabled.                          *)
Accepting == IF rs.enabled THEN SUBSET {rs.emitted + 1, rs.emitted + 2} ELSE {{}}
AcceptingBuffered == SUBSET {rs.buffer[i].id : i \in 1..Len(rs.buffer)}

(* checkRCBWrite and onRCBWrite, per attribute.  A refused write changes   *)
(* nothing, so only the accepted ones are actions.                         *)
MayWrite(c) == c \in open /\ Allowed(rv, c)
MayConfigure(c) == MayWrite(c) /\ ~rs.enabled
Rest == UNCHANGED <<open, leaf, now>>

WriteRptEnaTrue(c) ==
  /\ MayWrite(c) /\ ~rs.enabled /\ attr.datSet # NoDataSet
  /\ MayStart(rs.intgLoops)
  /\ \E acc \in AcceptingBuffered : rs' = Enable(rs, c, acc)
  /\ rv' = EnableTakes(Reserved(rv, c), c)
  /\ UNCHANGED attr /\ Rest

WriteRptEnaFalse(c) ==
  /\ MayWrite(c)
  /\ MayFlush /\ MayStart(rv.resvCbs)
  /\ \E acc \in Accepting : rs' = Disable(rs, acc)
  /\ rv' = DisableReleases(Reserved(rv, c))
  /\ UNCHANGED attr /\ Rest

WriteGI(c, on) ==
  /\ MayWrite(c) /\ (on => rs.enabled /\ MayEmit)
  /\ \E acc \in Accepting :
       rs' = IF on /\ "gi" \in attr.trgOps THEN ReportAll(rs, "gi", acc) ELSE rs
  /\ rv' = Reserved(rv, c)
  /\ UNCHANGED attr /\ Rest

WriteResv(c, on) ==
  /\ ~Buffered
  /\ MayWrite(c) /\ (~on => ~ResvCfg /\ ~rs.enabled)
  /\ rv' = IF on THEN Take(rv, c) ELSE Release(rv)
  /\ UNCHANGED <<rs, attr>> /\ Rest

WriteResvTms(c, tms) ==
  /\ Buffered /\ ~ResvCfg
  /\ MayConfigure(c)
  /\ attr' = [attr EXCEPT !.resvTms = tms]
  /\ rv' = [Reserved(rv, c) EXCEPT !.resvTimer = IF tms = 0 THEN 0 ELSE @]
  /\ UNCHANGED rs /\ Rest

WritePurgeBuf(c, on) ==
  /\ Buffered /\ MayConfigure(c)
  /\ rs' = IF on THEN Purged(rs) ELSE rs
  /\ rv' = Reserved(rv, c)
  /\ UNCHANGED attr /\ Rest

WriteEntryID(c, id) ==
  /\ Buffered /\ MayConfigure(c)
  /\ id = 0 \/ BufferIndex(rs, id) # {}
  /\ rs' = [rs EXCEPT !.resyncID = id]
  /\ rv' = Reserved(rv, c)
  /\ UNCHANGED attr /\ Rest

WriteDatSet(c, ds) ==
  /\ MayConfigure(c) /\ attr.confRev < MaxConfRev
  /\ attr' = [attr EXCEPT !.datSet = ds, !.confRev = @ + 1]
  /\ rs' = Purged(rs)
  /\ rv' = Reserved(rv, c)
  /\ Rest

(* BufTm, IntgPd, TrgOps, and RptID and OptFlds, which only reserve.       *)
WriteSettings(c, bt, pd, ops) ==
  /\ MayConfigure(c)
  /\ attr' = [attr EXCEPT !.bufTm = bt, !.intgPd = pd, !.trgOps = ops]
  /\ rv' = Reserved(rv, c)
  /\ UNCHANGED rs /\ Rest

-----------------------------------------------------------------------------
(* Tx.Set for the leaves of S in one Update, or a client write of them,    *)
(* and onUpdate for this block.                                            *)
Update(S) ==
  /\ now < MaxUpdates /\ MayEmit /\ MayStart(rs.pendCbs)
  /\ now' = now + 1
  /\ leaf' = [l \in Leaves |-> IF l \in S THEN now + 1 ELSE leaf[l]]
  /\ LET vals == [l \in Leaves |-> IF l \in S \cap attr.datSet THEN now + 1 ELSE 0]
     IN \E acc \in Accepting :
          rs' = IF (Buffered \/ rs.enabled) /\ "dchg" \in attr.trgOps /\ vals # NoVals
                THEN Event(rs, vals, acc) ELSE rs
  /\ UNCHANGED <<rv, attr, open>>

(* The buffer-time callback of timer t.                                    *)
PendTimer(t) ==
  /\ t \in rs.pendCbs /\ rs.emitted < MaxEmitted
  /\ \E acc \in Accepting :
       rs' = LET r == [rs EXCEPT !.pendCbs = @ \ {t}]
             IN IF rs.pending = t THEN FlushPending(r, acc) ELSE r
  /\ UNCHANGED <<rv, attr>> /\ Rest

(* The reservation callback of timer t.                                    *)
ResvTimer(t) ==
  /\ t \in rv.resvCbs
  /\ rv' = LET v == [rv EXCEPT !.resvCbs = @ \ {t}]
           IN IF rv.resvTimer = t /\ rv.owner = NoConn
              THEN Synced([v EXCEPT !.resvTimer = 0, !.resvIP = NoIP]) ELSE v
  /\ UNCHANGED <<rs, attr>> /\ Rest

(* Faulty variant: a tick looks only whether some loop runs.               *)
IntegrityTickStale(g) ==
  /\ g \in rs.intgLoops /\ MayEmit
  /\ \E acc \in Accepting :
       rs' = [IF rs.intgStop # 0 THEN ReportAll(rs, "integrity", acc) ELSE rs EXCEPT
                !.intgLoops = IF rs.intgStop = g THEN @ ELSE @ \ {g}]
  /\ UNCHANGED <<rv, attr>> /\ Rest

(* A tick of the integrity loop g; once stopped the loop returns, but a    *)
(* tick it had already taken still runs.                                   *)
IntegrityTick(g) ==
  /\ g \in rs.intgLoops /\ MayEmit
  /\ \E acc \in Accepting :
       rs' = IF rs.intgStop = g THEN ReportAll(rs, "integrity", acc)
             ELSE [rs EXCEPT !.intgLoops = @ \ {g}]
  /\ UNCHANGED <<rv, attr>> /\ Rest

Connect(c) ==
  /\ c \notin open
  /\ open' = open \cup {c}
  /\ UNCHANGED <<rs, rv, attr, leaf, now>>

(* Faulty variant: only blocks the connection had enabled are released.    *)
DisconnectEnabledOnly(c) ==
  /\ c \in open /\ MayFlush /\ MayStart(rv.resvCbs)
  /\ open' = open \ {c}
  /\ \E acc \in Accepting : rs' = IF rs.conn = c THEN Disable(rs, acc) ELSE rs
  /\ rv' = IF rs.conn = c THEN DisableReleases(rv) ELSE rv
  /\ UNCHANGED <<attr, leaf, now>>

(* disableConn, as the connection's server goroutine ends.                 *)
Disconnect(c) ==
  /\ c \in open /\ MayFlush /\ MayStart(rv.resvCbs)
  /\ open' = open \ {c}
  /\ \E acc \in Accepting : rs' = IF rs.conn = c THEN Disable(rs, acc) ELSE rs
  /\ rv' = LET v == IF rs.conn = c THEN DisableReleases(rv) ELSE rv
           IN IF v.owner = c THEN Release(v) ELSE v
  /\ UNCHANGED <<attr, leaf, now>>

ClientWrite(c) ==
  \/ WriteRptEnaTrue(c)
  \/ WriteRptEnaFalse(c)
  \/ \E on \in BOOLEAN : WriteGI(c, on) \/ WriteResv(c, on) \/ WritePurgeBuf(c, on)
  \/ \E tms \in ResvTmss : WriteResvTms(c, tms)
  \/ \E id \in 0..rs.emitted : WriteEntryID(c, id)
  \/ \E ds \in DataSets \cup {NoDataSet} : WriteDatSet(c, ds)
  \/ \E bt \in BufTms, pd \in IntgPds, ops \in TrgOpss : WriteSettings(c, bt, pd, ops)

Callback ==
  \E t \in Timers : PendTimer(t) \/ ResvTimer(t) \/ IntegrityTick(t)

Next ==
  \/ \E c \in Conns : ClientWrite(c) \/ Connect(c) \/ Disconnect(c)
  \/ \E S \in (SUBSET Leaves) \ {{}} : Update(S)
  \/ Callback

Spec == Init /\ [][Next]_vars

(* The Go runtime runs the callback of a timer that expires.               *)
Fairness == \A t \in Timers : WF_vars(PendTimer(t)) /\ WF_vars(ResvTimer(t))
FairSpec == Spec /\ Fairness

-----------------------------------------------------------------------------
Entry == [id : 1..MaxEmitted, reason : {"event", "gi", "integrity"},
          conf : 0..MaxConfRev, vals : [Leaves -> 0..MaxUpdates]]
Report == [id : 1..MaxEmitted, vals : [Leaves -> 0..MaxUpdates], conf : 0..MaxConfRev,
           sq : 0..(SqMod - 1), ovfl : BOOLEAN, missed : BOOLEAN, ok : BOOLEAN]

RCBState ==
  [enabled : BOOLEAN, conn : Conns \cup {NoConn}, sqNum : 0..(SqMod - 1),
   intgStop : Timers \cup {0}, intgLoops : SUBSET Timers,
   pending : Timers \cup {0}, pendVals : [Leaves -> 0..MaxUpdates],
   pendConf : 0..MaxConfRev, pendCbs : SUBSET Timers,
   buffer : Seq(Entry), next : Nat, resyncID : -1..MaxEmitted, bufOverflow : BOOLEAN,
   emitted : 0..MaxEmitted, due : 1..(MaxEmitted + 1), sent : Seq(Report)]
Reservation ==
  [owner : Conns \cup {NoConn}, resvIP : IPs \cup {NoIP}, resvTimer : Timers \cup {0},
   resvCbs : SUBSET Timers, resvAttr : BOOLEAN, ownerAttr : IPs \cup {NoIP}]
Attributes ==
  [datSet : SUBSET Leaves, confRev : 0..MaxConfRev, bufTm : BufTms,
   intgPd : IntgPds, trgOps : TrgOpss, resvTms : ResvTmss \cup {0}]

(* Every field of the block has its type (rcb.go:15-63).                   *)
TypeOK ==
  /\ rs \in RCBState /\ rv \in Reservation /\ attr \in Attributes
  /\ open \subseteq Conns
  /\ leaf \in [Leaves -> 1..MaxUpdates]
  /\ now \in 1..MaxUpdates

(* The buffer holds at most MaxBuffer entries, the newest the server       *)
(* emitted, with no hole between them, and next points into it: emitLocked *)
(* trims and moves next together (reporting.go:584-593).                   *)
ContiguousBuffer ==
  /\ rs.next <= Len(rs.buffer) /\ Len(rs.buffer) <= MaxBuffer
  /\ \A i \in 1..Len(rs.buffer) : rs.buffer[i].id = rs.emitted - Len(rs.buffer) + i

(* A block is enabled only for the connected client that holds it, and no  *)
(* block stays held by a connection that is gone (reporting.go:382-395).   *)
SubscriberHolds ==
  /\ rv.owner \in open \cup {NoConn}
  /\ rs.enabled => rs.conn # NoConn /\ rs.conn = rv.owner
  /\ ~rs.enabled => rs.conn = NoConn

(* What a BRCB's subscriber misses it is told of: an accepted report that  *)
(* does not follow on from the last one delivered, across disconnections,  *)
(* resynchronisations, discards and refused sends, carries BufOvfl         *)
(* (reporting.go:587-591, 632-650).                                        *)
NoSilentGap ==
  \A k \in 1..Len(rs.sent) : rs.sent[k].ok /\ rs.sent[k].missed => rs.sent[k].ovfl

(* Within one enabling the reports are numbered from zero without a hole,  *)
(* wrapping at the width of SqNum, and go out in the order their entries   *)
(* were emitted, each once (reporting.go:319, 637-638, 656-664).           *)
NumberedInOrder ==
  \A k \in 1..Len(rs.sent) :
    /\ rs.sent[k].sq = (k - 1) % SqMod
    /\ k > 1 => rs.sent[k].id > rs.sent[k - 1].id

(* The reports recorded so far: the buffer of a BRCB, what an enabled URCB *)
(* sent, and the open window.                                              *)
Recorded == (IF Buffered THEN [i \in 1..Len(rs.buffer) |-> rs.buffer[i].vals]
             ELSE [i \in 1..Len(rs.sent) |-> rs.sent[i].vals]) \o <<rs.pendVals>>

(* The last thing recorded about a member is its current value: a window   *)
(* never holds back an older value past a newer report (reporting.go:      *)
(* 500-529, 418-437).  For a URCB this is claimed while it is enabled.     *)
NewestIsCurrent ==
  Buffered \/ rs.enabled =>
    \A l \in attr.datSet : \A i \in 1..Len(Recorded) :
      Recorded[i][l] # 0 /\ (\A j \in (i + 1)..Len(Recorded) : Recorded[j][l] = 0)
        => Recorded[i][l] = leaf[l]

(* What is sent is numbered without a hole and in the order it was         *)
(* recorded, and the last thing recorded about a member is its current     *)
(* value (reporting.go:319, 500-529, 637-664).                             *)
ReportsCurrent == NewestIsCurrent /\ NumberedInOrder

(* A value waiting in a buffer-time window leaves it only in a report, to  *)
(* the subscriber if the block is enabled and into the buffer otherwise:   *)
(* "A member that changes again inside the window closes it first, so its  *)
(* earlier value is reported rather than overwritten" (reporting.go:502).  *)
NothingOverwritten ==
  [][\A l \in Leaves :
       rs.pendVals[l] \notin {0, rs'.pendVals[l]} =>
         IF rs.enabled THEN \E i \in 1..Len(rs'.sent) : rs'.sent[i].vals[l] = rs.pendVals[l]
         ELSE \E i \in 1..Len(rs'.buffer) : rs'.buffer[i].vals[l] = rs.pendVals[l]]_vars

(* A block held for an absent client has a timer that will free it: no     *)
(* sequence of releases, returns and ResvTms writes leaves it reserved     *)
(* for good (reporting.go:244-265).                                        *)
ReservationTimed ==
  rv.owner = NoConn /\ rv.resvIP # NoIP /\ ~ResvCfg => rv.resvTimer \in rv.resvCbs

(* A reservation the configuration made stands through every take and      *)
(* release, and only a connection from its address ever holds the block: a *)
(* connection of unknown address never does (reporting.go:214-216, 226,    *)
(* 240-243).                                                               *)
ConfiguredStands ==
  ResvCfg => /\ rv.resvIP = ResvCfgIP
             /\ rv.owner # NoConn => AddrOf[rv.owner] = ResvCfgIP

(* Owner of a BRCB and Resv of a URCB show the reservation in force        *)
(* (reporting.go:190-206).                                                 *)
ReservationVisible ==
  IF Buffered THEN rv.ownerAttr = Held(rv.owner, rv.resvIP)
  ELSE rv.resvAttr = (rv.owner # NoConn \/ rv.resvIP # NoIP)

(* A block never passes from one client to another without being released, *)
(* and one held for an absent client goes only to a connection from that   *)
(* client's address (reporting.go:210-219).                                *)
NoTakeover ==
  [][/\ rv.owner # NoConn /\ rv'.owner # NoConn => rv'.owner = rv.owner
     /\ rv.owner = NoConn /\ rv.resvIP # NoIP /\ rv'.owner # NoConn
          => AddrOf[rv'.owner] = rv.resvIP]_vars

(* A reservation for an absent client ends with its return or with the     *)
(* callback of the timer started for it, never with an older timer's       *)
(* (reporting.go:257).  An integrity report is captured only by a tick of  *)
(* the loop of the current enabling, also when the loop of an earlier one  *)
(* still has a tick to run: the last tick of a stopped loop reports        *)
(* nothing (reporting.go:409).                                             *)
NoStaleTimer ==
  [][/\ rv.owner = NoConn /\ rv'.owner = NoConn /\ rv.resvIP # NoIP /\ rv'.resvIP = NoIP
          => rv.resvTimer \in rv.resvCbs \ rv'.resvCbs
     /\ \A i \in 1..Len(rs'.buffer) :
          rs'.buffer[i].id > rs.emitted /\ rs'.buffer[i].reason = "integrity"
            => rs.enabled /\ IntegrityTick(rs.intgStop)
     /\ rs.intgLoops \subseteq rs'.intgLoops \/ rs'.emitted = rs.emitted]_vars

(* An open buffer-time window closes.                                      *)
WindowCloses == \A t \in Timers : rs.pending = t ~> rs.pending # t

(* Every reservation for an absent client ends: by its timer, or by the    *)
(* return of the client (which may leave a new one behind).                *)
ReservationEnds == \A t \in Timers : rv.resvTimer = t ~> rv.resvTimer # t
=============================================================================
