------------------------- MODULE ReportWindowProofs --------------------------
(***************************************************************************)
(* Further theorems about ReportControl, on the invariant that             *)
(* ReportControlProofs establishes: what happens to the values of an open  *)
(* buffer window, to a timer whose time was rewritten while it ran, and    *)
(* to the newest value of a leaf.                                          *)
(***************************************************************************)
EXTENDS ReportControlProofs

-----------------------------------------------------------------------------
(* What emitLocked adds.  Grown: c is b with one element more at its end,  *)
(* and perhaps without its first.                                          *)

Grown(b, c) ==
  /\ Len(c) \in {Len(b), Len(b) + 1} /\ Len(c) > 0
  /\ \A i \in 1..(Len(c) - 1) : c[i] = b[i + Len(b) + 1 - Len(c)]

SameWindow(r, u) ==
  /\ u.pending = r.pending /\ u.pendVals = r.pendVals
  /\ u.intgStop = r.intgStop /\ u.intgLoops = r.intgLoops

(* u is r with one more entry recorded, and sent if the block is enabled.  *)
Adds(r, u, reason, vals) ==
  /\ IF Buffered
     THEN /\ Grown(r.buffer, u.buffer)
          /\ LET e == u.buffer[Len(u.buffer)]
             IN e.id = r.emitted + 1 /\ e.reason = reason /\ e.vals = vals
     ELSE u.buffer = r.buffer
  /\ IF r.enabled
     THEN /\ Len(u.sent) > Len(r.sent) /\ u.sent[Len(u.sent)].vals = vals
          /\ \A i \in 1..Len(r.sent) : u.sent[i] = r.sent[i]
          /\ ~Buffered => Len(u.sent) = Len(r.sent) + 1
     ELSE u.sent = r.sent

(* Trimming the buffer keeps the entry just added.                         *)
LEMMA TrimmedAdds ==
  ASSUME NEW r, Sound(r), Buffered, NEW e \in Entry
  PROVE  LET u == Trimmed([r EXCEPT !.emitted = @ + 1, !.buffer = Append(@, e)])
         IN /\ SameWindow(r, u) /\ u.sent = r.sent /\ u.enabled = r.enabled
            /\ Grown(r.buffer, u.buffer) /\ u.buffer[Len(u.buffer)] = e
            /\ u.next < Len(u.buffer)
<1> DEFINE n == Len(r.buffer)
           b == Append(r.buffer, e)
           k == r.emitted + 1
           a == [r EXCEPT !.emitted = k, !.buffer = b]
           c == Tail(b)
           x == IF r.next > 0 THEN r.next - 1 ELSE r.next
           o == r.bufOverflow \/ r.next = 0
           u == [a EXCEPT !.buffer = c, !.next = x, !.bufOverflow = o]
<1>0. r \in RCBState /\ r.buffer \in Seq(Entry) /\ r.next \in Nat
  BY DEF Sound, RCBState
<1>1. n \in Nat /\ r.next <= n /\ n <= MaxBuffer /\ MaxBuffer \in Nat \ {0}
  BY <1>0, LenProperties, RCBAssumption DEF Sound, Contiguous
<1> HIDE DEF n
<1>2. /\ b \in Seq(Entry) /\ Len(b) = n + 1 /\ b # <<>>
      /\ \A i \in 1..n : b[i] = r.buffer[i]
      /\ b[n + 1] = e
  BY <1>0, AppendProperties DEF n
<1>9. [r EXCEPT !.emitted = @ + 1, !.buffer = Append(@, e)] = a
  BY <1>0 DEF RCBState
<1> HIDE DEF b, k
<1>3. /\ Len(c) = n
      /\ \A i \in 1..n : c[i] = b[i + 1]
  <2>1. /\ c \in Seq(Entry) /\ Len(c) = Len(b) - 1
        /\ \A i \in 1..Len(c) : c[i] = b[i + 1]
    BY <1>2, HeadTailProperties
  <2>2. Len(c) = n
    BY <2>1, <1>1, <1>2
  <2> QED BY <2>1, <2>2
<1>x. x \in Nat /\ x <= r.next /\ (x = r.next => x = 0)
  BY <1>0
<1> HIDE DEF c, x, o
<1>4. /\ a.buffer = b /\ a.next = r.next /\ a.sent = r.sent /\ a.enabled = r.enabled
      /\ SameWindow(r, a)
  BY <1>0 DEF RCBState, SameWindow
<1>5. /\ u.buffer = c /\ u.next = x /\ u.sent = r.sent /\ u.enabled = r.enabled
      /\ SameWindow(r, u)
  BY <1>0 DEF RCBState, SameWindow
<1>6. CASE n + 1 <= MaxBuffer
  <2>1. Trimmed(a) = a
    BY <1>6, <1>2, <1>4 DEF Trimmed
  <2>2. Grown(r.buffer, b) /\ b[Len(b)] = e /\ r.next < Len(b)
    <3>1. \A i \in 1..(Len(b) - 1) : i \in 1..n /\ i + n + 1 - Len(b) = i
      BY <1>1, <1>2
    <3>2. \A i \in 1..(Len(b) - 1) : b[i] = r.buffer[i + n + 1 - Len(b)]
      BY <3>1, <1>2
    <3>3. r.next < n + 1 /\ n + 1 > 0
      BY <1>0, <1>1
    <3> QED BY <3>2, <3>3, <1>2 DEF Grown, n
  <2> QED BY <2>1, <2>2, <1>4, <1>9, Zenon
<1>7. CASE ~(n + 1 <= MaxBuffer)
  <2>1. Trimmed(a) = u
    BY <1>7, <1>2, <1>4 DEF Trimmed, c, x, o
  <2>2. n > 0
    BY <1>1, <1>7
  <2>3. Grown(r.buffer, c) /\ c[Len(c)] = e
    <3>1. \A i \in 1..(Len(c) - 1) : i \in 1..n /\ i + 1 \in 1..n /\ i + n + 1 - Len(c) = i + 1
      BY <1>1, <1>3
    <3>2. \A i \in 1..(Len(c) - 1) : c[i] = r.buffer[i + n + 1 - Len(c)]
      BY <3>1, <1>2, <1>3
    <3>3. c[n] = e
      BY <2>2, <1>1, <1>2, <1>3
    <3> QED BY <2>2, <3>2, <3>3, <1>3 DEF Grown, n
  <2>4. x < Len(c)
    BY <2>2, <1>0, <1>1, <1>3, <1>x
  <2> QED BY <2>1, <2>3, <2>4, <1>5, <1>9, Zenon
<1> QED BY <1>6, <1>7

(* transmitBufferedLocked sends up to the newest entry, and nothing else   *)
(* of the window or the buffer changes.                                    *)
LEMMA TransmitBufferedAdds ==
  ASSUME NEW r, Sound(r), Buffered, NEW acc
  PROVE  LET u == TransmitBuffered(r, acc)
         IN /\ SameWindow(r, u) /\ u.buffer = r.buffer
            /\ \A i \in 1..Len(r.sent) : u.sent[i] = r.sent[i]
            /\ r.next < Len(r.buffer) =>
                 /\ Len(u.sent) > Len(r.sent)
                 /\ u.sent[Len(u.sent)].vals = r.buffer[Len(r.buffer)].vals
<1> DEFINE n == Len(r.buffer)
           m == n - r.next
           refused(k) == r.buffer[k].id \notin acc
           after(k) == IF refused(k) THEN r.buffer[k].id ELSE r.buffer[k].id + 1
           ovfl(k) == IF k = 1 THEN r.bufOverflow ELSE refused(r.next + k - 1)
           due(k) == IF k = 1 THEN r.due ELSE after(r.next + k - 1)
           T(k) == Transmission(r.buffer[r.next + k], (r.sqNum + k - 1) % SqMod,
                                ovfl(k), due(k), acc)
           q == [k \in 1..m |-> T(k)]
           sq == (r.sqNum + m) % SqMod
           s == r.sent \o q
           b == refused(n)
           d == after(n)
           u == [r EXCEPT !.next = n, !.sqNum = sq, !.bufOverflow = b, !.due = d, !.sent = s]
<1>0. /\ r \in RCBState /\ r.sent \in Seq(Report) /\ r.buffer \in Seq(Entry) /\ r.next \in Nat
  BY DEF Sound, RCBState
<1>1. n \in Nat /\ m \in Nat /\ m = n - r.next /\ r.next \in Nat
  BY <1>0, LenProperties DEF Sound, Contiguous
<1> HIDE DEF n, m
<1>2. CASE m = 0
  BY <1>1, <1>2 DEF TransmitBuffered, SameWindow, n, m
<1>3. CASE m # 0
  <2>1. TransmitBuffered(r, acc) = u
    BY <1>3 DEF TransmitBuffered, n, m
  <2>2. \A k \in 1..m : T(k).vals = r.buffer[r.next + k].vals
    BY DEF Transmission
  <2> HIDE DEF T
  <2>3. q \in Seq({T(k) : k \in 1..m}) /\ Len(q) = m
    <3>1. q \in [1..m -> {T(k) : k \in 1..m}]
      OBVIOUS
    <3> HIDE DEF q
    <3> QED BY <3>1, <1>1, FunctionIsSeq, Zenon
  <2>4. q[m].vals = r.buffer[n].vals
    <3>1. m \in 1..m /\ r.next + m = n
      BY <1>1, <1>3
    <3> QED BY <3>1, <2>2
  <2> HIDE DEF q, sq, b, d
  <2>5. /\ Len(s) = Len(r.sent) + m
        /\ \A i \in 1..Len(r.sent) + m :
             s[i] = IF i <= Len(r.sent) THEN r.sent[i] ELSE q[i - Len(r.sent)]
    <3> DEFINE R == Report \cup {T(k) : k \in 1..m}
    <3>1. r.sent \in Seq(R) /\ q \in Seq(R)
      BY <1>0, <2>3
    <3> HIDE DEF R
    <3> QED BY <2>3, <3>1, ConcatProperties, Zenon
  <2>6. Len(r.sent) \in Nat
    BY <1>0, LenProperties
  <2>7. \A i \in 1..Len(r.sent) : s[i] = r.sent[i]
    BY <2>5, <2>6, <1>1
  <2>8. s[Len(s)] = q[m] /\ Len(s) > Len(r.sent)
    <3>1. Len(s) \in 1..Len(r.sent) + m /\ ~(Len(s) <= Len(r.sent)) /\ Len(s) - Len(r.sent) = m
      BY <2>5, <2>6, <1>1, <1>3, SMTT(30)
    <3> QED BY <3>1, <2>5, <2>6
  <2> HIDE DEF s
  <2>9. u.buffer = r.buffer /\ u.sent = s /\ SameWindow(r, u)
    BY <1>0 DEF RCBState, SameWindow
  <2> HIDE DEF u
  <2> QED BY <2>1, <2>4, <2>7, <2>8, <2>9 DEF n
<1> QED BY <1>2, <1>3

(* emitLocked records one entry, newest of the buffer, and sends it to the *)
(* subscriber of an enabled block; the window stays as it is.              *)
LEMMA EmitAdds ==
  ASSUME NEW r, Sound(r), r.emitted < MaxEmitted,
         NEW reason \in Reasons, NEW conf \in 0..MaxConfRev, NEW vals \in Vals, NEW acc
  PROVE  LET u == Emit(r, reason, conf, vals, acc)
         IN SameWindow(r, u) /\ Adds(r, u, reason, vals)
<1> DEFINE e == [id |-> r.emitted + 1, reason |-> reason, conf |-> conf, vals |-> vals]
           n == r.emitted + 1
           s == [r EXCEPT !.emitted = n]
           b == Trimmed([r EXCEPT !.emitted = @ + 1, !.buffer = Append(@, e)])
<1>0. r \in RCBState /\ r.emitted \in 0..MaxEmitted
  BY DEF Sound, RCBState
<1>n. n \in 1..MaxEmitted /\ n \in 0..MaxEmitted
  BY <1>0, RCBAssumption
<1>1. e \in Entry /\ e.id = r.emitted + 1 /\ e.reason = reason /\ e.vals = vals
  BY <1>n DEF Entry, Reasons, Vals
<1> HIDE DEF e
<1>2. CASE Buffered
  <2>1. Sound(b)
    BY <1>1, <1>2, TrimmedSound
  <2>a. /\ SameWindow(r, b) /\ b.sent = r.sent /\ b.enabled = r.enabled
        /\ Grown(r.buffer, b.buffer) /\ b.buffer[Len(b.buffer)] = e /\ b.next < Len(b.buffer)
    BY <1>1, <1>2, TrimmedAdds
  <2>2. Trimmed([[r EXCEPT !.emitted = @ + 1] EXCEPT !.buffer = Append(@, e)]) = b
    BY <1>0 DEF RCBState
  <2>3. Emit(r, reason, conf, vals, acc) = IF r.enabled THEN TransmitBuffered(b, acc) ELSE b
    BY <1>2, <2>2 DEF Emit, e
  <2> HIDE DEF b
  <2> DEFINE u == TransmitBuffered(b, acc)
  <2>4. /\ SameWindow(b, u) /\ u.buffer = b.buffer
        /\ \A i \in 1..Len(b.sent) : u.sent[i] = b.sent[i]
        /\ Len(u.sent) > Len(b.sent)
        /\ u.sent[Len(u.sent)].vals = b.buffer[Len(b.buffer)].vals
    BY <1>2, <2>1, <2>a, TransmitBufferedAdds
  <2>b. Emit(r, reason, conf, vals, acc) = IF r.enabled THEN u ELSE b
    BY <2>3
  <2> HIDE DEF u
  <2>5. CASE r.enabled
    BY <1>1, <1>2, <2>a, <2>b, <2>4, <2>5 DEF SameWindow, Adds
  <2>6. CASE ~r.enabled
    BY <1>1, <1>2, <2>a, <2>b, <2>6 DEF SameWindow, Adds
  <2> QED BY <2>5, <2>6
<1>3. CASE ~Buffered
  <2> DEFINE t == Transmission(e, s.sqNum, FALSE, e.id, acc)
             sq == (s.sqNum + 1) % SqMod
             d == e.id + 1
             z == Append(s.sent, t)
             u == [s EXCEPT !.sqNum = sq, !.due = d, !.sent = z]
  <2>1. s.buffer = r.buffer /\ s.sent = r.sent /\ SameWindow(r, s)
    <3> HIDE DEF n
    <3> QED BY <1>0 DEF RCBState, SameWindow
  <2>2. t.vals = vals
    BY <1>1 DEF Transmission
  <2>3. Emit(r, reason, conf, vals, acc) = IF r.enabled THEN u ELSE s
    BY <1>0, <1>3 DEF Emit, TransmitOne, e, RCBState
  <2> HIDE DEF t, sq, d
  <2>4. /\ Len(z) = Len(r.sent) + 1 /\ z[Len(r.sent) + 1] = t
        /\ \A i \in 1..Len(r.sent) : z[i] = r.sent[i]
    <3>1. r.sent \in Seq(Report \cup {t})
      BY <1>0 DEF RCBState
    <3> QED BY <2>1, <3>1, AppendProperties
  <2> HIDE DEF z
  <2>5. u.buffer = r.buffer /\ u.sent = z /\ SameWindow(r, u)
    <3> HIDE DEF n
    <3> QED BY <1>0 DEF RCBState, SameWindow
  <2> HIDE DEF s, u
  <2>6. Len(r.sent) \in Nat
    BY <1>0, LenProperties DEF RCBState
  <2>7. CASE r.enabled
    BY <1>3, <2>2, <2>3, <2>4, <2>5, <2>6, <2>7 DEF Adds
  <2>8. CASE ~r.enabled
    BY <1>3, <2>1, <2>3, <2>8 DEF Adds
  <2> QED BY <2>7, <2>8
<1> QED BY <1>2, <1>3, RCBAssumption

-----------------------------------------------------------------------------
(* The buffer-time window.  A closed window holds nothing, only an enabled *)
(* block has an integrity loop, and a disabled URCB has no open window.    *)

Window(r) ==
  /\ r.pending = 0 => r.pendVals = NoVals
  /\ r.intgStop # 0 => r.enabled
  /\ ~Buffered /\ ~r.enabled => r.pending = 0

(* u is r with its window closed, and reported if it held anything.        *)
Closes(r, u) ==
  /\ u.pending = 0 /\ u.pendVals = NoVals /\ u.intgStop = r.intgStop /\ u.intgLoops = r.intgLoops
  /\ Sound(u) /\ SameSubscriber(r, u) /\ u.emitted \in {r.emitted, r.emitted + 1}
  /\ IF r.pendVals = NoVals THEN u.buffer = r.buffer /\ u.sent = r.sent
     ELSE Adds(r, u, "event", r.pendVals)

(* flushPendingLocked closes the window.                                   *)
LEMMA FlushCloses ==
  ASSUME NEW r, Sound(r), Window(r), r.pending # 0 => r.emitted < MaxEmitted, NEW acc
  PROVE  Closes(r, FlushPending(r, acc))
<1> DEFINE p == [r EXCEPT !.pending = 0, !.pendVals = NoVals]
           u == FlushPending(r, acc)
<1>0. r \in RCBState /\ r.pendConf \in 0..MaxConfRev /\ r.pendVals \in Vals
  BY DEF Sound, RCBState, Vals
<1>1. NoVals \in Vals
  BY RCBAssumption DEF NoVals, Vals
<1>2. /\ p \in RCBState /\ p.buffer = r.buffer /\ p.next = r.next /\ p.sent = r.sent
      /\ p.sqNum = r.sqNum /\ p.emitted = r.emitted /\ p.due = r.due
      /\ p.bufOverflow = r.bufOverflow /\ p.enabled = r.enabled
      /\ p.pending = 0 /\ p.pendVals = NoVals
      /\ p.intgStop = r.intgStop /\ p.intgLoops = r.intgLoops
  BY <1>0, <1>1, Zenon DEF RCBState, Vals
<1>3. Sound(p)
  BY <1>2, SoundFrame, Zenon
<1>4. FlushPending(r, acc) = IF r.pending = 0 THEN r
                             ELSE IF r.pendVals = NoVals THEN p
                             ELSE Emit(p, "event", r.pendConf, r.pendVals, acc)
  BY DEF FlushPending
<1> HIDE DEF p
<1>5. Sound(u) /\ SameSubscriber(r, u) /\ u.emitted \in {r.emitted, r.emitted + 1}
  BY FlushSound
<1> HIDE DEF u
<1>6. CASE r.pending = 0
  BY <1>4, <1>5, <1>6 DEF Closes, Window, u
<1>7. CASE r.pending # 0 /\ r.pendVals = NoVals
  BY <1>2, <1>4, <1>5, <1>7 DEF Closes, u
<1>8. CASE r.pending # 0 /\ r.pendVals # NoVals
  <2>1. "event" \in Reasons /\ p.emitted < MaxEmitted
    BY <1>2, <1>8 DEF Reasons
  <2>2. u = Emit(p, "event", r.pendConf, r.pendVals, acc)
    BY <1>4, <1>8 DEF u
  <2>3. SameWindow(p, u) /\ Adds(p, u, "event", r.pendVals)
    BY <1>0, <1>3, <2>1, <2>2, EmitAdds
  <2>4. Adds(r, u, "event", r.pendVals)
    BY <1>2, <2>3 DEF Adds
  <2> QED BY <1>2, <1>5, <1>8, <2>3, <2>4 DEF Closes, SameWindow, u
<1> QED BY <1>6, <1>7, <1>8

(* reportAllLocked closes the window, then reports every member.           *)
All == [l \in Leaves |-> IF l \in attr.datSet THEN leaf[l] ELSE 0]

LEMMA ReportAllAdds ==
  ASSUME TypeOK, NEW r, Sound(r), Window(r), r.emitted + 2 < MaxEmitted,
         NEW reason \in Reasons, NEW acc
  PROVE  LET u == ReportAll(r, reason, acc)
         IN \E f : /\ Closes(r, f)
                   /\ u = f \/ (SameWindow(f, u) /\ Adds(f, u, reason, All))
                   /\ attr.datSet = NoDataSet <=> u = f
<1> DEFINE f == FlushPending(r, acc)
           u == Emit(f, reason, attr.confRev, All, acc)
<1>0. r.emitted \in 0..MaxEmitted /\ attr.confRev \in 0..MaxConfRev
  BY DEF Sound, RCBState, TypeOK, Attributes
<1>1. r.emitted < MaxEmitted
  BY <1>0, RCBAssumption
<1>2. Closes(r, f)
  BY <1>1, FlushCloses
<1>3. f.emitted < MaxEmitted /\ Sound(f) /\ f.emitted \in 0..MaxEmitted
  <2>1. Sound(f) /\ f.emitted \in {r.emitted, r.emitted + 1} /\ f.emitted \in 0..MaxEmitted
    BY <1>2, Zenon DEF Closes, Sound, RCBState
  <2> QED BY <2>1, <1>0, RCBAssumption
<1>4. All \in Vals
  BY RCBAssumption DEF All, Vals, TypeOK
<1>5. ReportAll(r, reason, acc) = IF attr.datSet = NoDataSet THEN f ELSE u
  BY DEF ReportAll, All
<1> HIDE DEF f
<1>6. SameWindow(f, u) /\ Adds(f, u, reason, All)
  BY <1>0, <1>3, <1>4, EmitAdds
<1>7. u.emitted = f.emitted + 1
  BY <1>0, <1>3, <1>4, EmitSound
<1>8. u # f
  BY <1>3, <1>7
<1> HIDE DEF u
<1> QED BY <1>2, <1>5, <1>6, <1>8

(* eventLocked reports the event, or puts it in the window after closing   *)
(* one it overlaps.                                                        *)
Joins(r, u, vals) ==
  \E f : /\ \/ f = r /\ \A l \in Leaves : r.pendVals[l] = 0 \/ vals[l] = 0
            \/ Closes(r, f)
         /\ u.buffer = f.buffer /\ u.sent = f.sent
         /\ u.intgStop = f.intgStop /\ u.intgLoops = f.intgLoops
         /\ u.pendVals = Merge(f.pendVals, vals) /\ u.pending # 0

LEMMA EventAdds ==
  ASSUME TypeOK, NEW r, Sound(r), Window(r), r.emitted + 2 < MaxEmitted, r.pendCbs # Timers,
         NEW vals \in Vals, NEW acc
  PROVE  LET u == Event(r, vals, acc)
         IN IF attr.bufTm = 0 THEN SameWindow(r, u) /\ Adds(r, u, "event", vals)
            ELSE Joins(r, u, vals)
<1> DEFINE f == IF r.pending # 0 /\ Overlaps(r.pendVals, vals) THEN FlushPending(r, acc) ELSE r
           t == Fresh(r.pendCbs)
           x == f.pendCbs \cup {t}
           o == [f EXCEPT !.pending = t, !.pendCbs = x, !.pendConf = attr.confRev]
           w == IF f.pending # 0 THEN f ELSE o
           m == Merge(w.pendVals, vals)
           u == [w EXCEPT !.pendVals = m]
<1>0. /\ r.emitted \in 0..MaxEmitted /\ attr.confRev \in 0..MaxConfRev
      /\ r.pendCbs \subseteq Timers
  BY DEF Sound, RCBState, TypeOK, Attributes
<1>1. r.emitted < MaxEmitted
  BY <1>0, RCBAssumption
<1>2. CASE attr.bufTm = 0
  <2>1. "event" \in Reasons
    BY DEF Reasons
  <2>2. LET e == Emit(r, "event", attr.confRev, vals, acc)
        IN SameWindow(r, e) /\ Adds(r, e, "event", vals)
    BY <1>0, <1>1, <2>1, EmitAdds
  <2> QED BY <1>2, <2>2 DEF Event
<1>3. CASE attr.bufTm # 0
  <2>1. Event(r, vals, acc) = u
    BY <1>3 DEF Event
  <2>2. \/ f = r /\ \A l \in Leaves : r.pendVals[l] = 0 \/ vals[l] = 0
        \/ Closes(r, f)
    <3>1. CASE r.pending # 0 /\ Overlaps(r.pendVals, vals)
      BY <1>1, <3>1, FlushCloses
    <3>2. CASE r.pending # 0 /\ ~Overlaps(r.pendVals, vals)
      BY <3>2 DEF Overlaps
    <3>3. CASE r.pending = 0
      BY <3>3 DEF Window, NoVals
    <3> QED BY <3>1, <3>2, <3>3
  <2>3. t \in Timers /\ t # 0
    BY <1>0, RCBAssumption, Zenon DEF Fresh
  <2> HIDE DEF f, t
  <2>4. f \in RCBState
    BY <2>2 DEF Closes, Sound
  <2> HIDE DEF x
  <2>5. /\ o \in [enabled : BOOLEAN, conn : Conns \cup {NoConn}, sqNum : 0..(SqMod - 1),
                  intgStop : Timers \cup {0}, intgLoops : SUBSET Timers,
                  pending : Timers \cup {0}, pendVals : [Leaves -> 0..MaxUpdates],
                  pendConf : 0..MaxConfRev, pendCbs : {x},
                  buffer : Seq(Entry), next : Nat, resyncID : -1..MaxEmitted,
                  bufOverflow : BOOLEAN,
                  emitted : 0..MaxEmitted, due : 1..(MaxEmitted + 1), sent : Seq(Report)]
        /\ o.buffer = f.buffer /\ o.sent = f.sent
        /\ o.intgStop = f.intgStop /\ o.intgLoops = f.intgLoops
        /\ o.pending = t /\ o.pendVals = f.pendVals
    BY <1>0, <2>3, <2>4, Zenon DEF RCBState
  <2>6. /\ w.buffer = f.buffer /\ w.sent = f.sent
        /\ w.intgStop = f.intgStop /\ w.intgLoops = f.intgLoops
        /\ w.pending # 0 /\ w.pendVals = f.pendVals
    BY <2>3, <2>5
  <2>7. /\ u.buffer = w.buffer /\ u.sent = w.sent
        /\ u.intgStop = w.intgStop /\ u.intgLoops = w.intgLoops
        /\ u.pending = w.pending /\ u.pendVals = m
    <3> HIDE DEF m, o
    <3> QED BY <2>4, <2>5 DEF RCBState
  <2> HIDE DEF w, u
  <2>8. Joins(r, u, vals)
    BY <2>2, <2>6, <2>7 DEF Joins
  <2> QED BY <1>3, <2>1, <2>8
<1> QED BY <1>2, <1>3

-----------------------------------------------------------------------------
(* Three consequences.  First: a report adds only entries of its own       *)
(* reason.                                                                 *)
LEMMA GrownIndex ==
  ASSUME NEW x \in Nat, NEW z \in {x, x + 1}, NEW i \in 1..z, i # z
  PROVE  /\ i \in 1..(z - 1) /\ i + x + 1 - z \in 1..x
         /\ x + 1 - z \in {0, 1} /\ i + (x + 1 - z) = i + x + 1 - z
OBVIOUS

LEMMA AddsOnly ==
  ASSUME NEW r, Sound(r), NEW u, NEW reason, NEW vals, NEW reasons, reason \in reasons,
         Adds(r, u, reason, vals), NEW n \in Int, n <= r.emitted,
         \A i \in 1..Len(r.buffer) : r.buffer[i].id > n => r.buffer[i].reason \in reasons
  PROVE  \A i \in 1..Len(u.buffer) : u.buffer[i].id > n => u.buffer[i].reason \in reasons
<1>1. CASE Buffered
  <2> SUFFICES ASSUME NEW i \in 1..Len(u.buffer), u.buffer[i].id > n
               PROVE  u.buffer[i].reason \in reasons
    OBVIOUS
  <2>1. /\ Len(u.buffer) \in {Len(r.buffer), Len(r.buffer) + 1} /\ Len(r.buffer) \in Nat
        /\ u.buffer[Len(u.buffer)].reason = reason
        /\ \A k \in 1..(Len(u.buffer) - 1) :
             u.buffer[k] = r.buffer[k + Len(r.buffer) + 1 - Len(u.buffer)]
    <3>1. r.buffer \in Seq(Entry)
      BY DEF Sound, RCBState
    <3> QED BY <1>1, <3>1, LenProperties, Zenon DEF Adds, Grown
  <2>2. CASE i = Len(u.buffer)
    BY <2>1, <2>2
  <2>3. CASE i # Len(u.buffer)
    <3> DEFINE k == i + Len(r.buffer) + 1 - Len(u.buffer)
    <3>1. i \in 1..(Len(u.buffer) - 1) /\ k \in 1..Len(r.buffer)
      BY <2>1, <2>3, GrownIndex, Zenon
    <3>2. u.buffer[i] = r.buffer[k]
      BY <2>1, <3>1, Zenon
    <3> HIDE DEF k
    <3> QED BY <3>1, <3>2
  <2> QED BY <2>2, <2>3
<1>2. CASE ~Buffered
  BY <1>2 DEF Adds
<1> QED BY <1>1, <1>2

(* What is in the buffer now is no newer than the count.                   *)
LEMMA NothingNewer ==
  ASSUME NEW r, Sound(r)
  PROVE  r.emitted \in Int /\ \A i \in 1..Len(r.buffer) : ~(r.buffer[i].id > r.emitted)
<1>1. r.emitted \in Int /\ Len(r.buffer) \in Nat
  <2>1. r.buffer \in Seq(Entry) /\ r.emitted \in 0..MaxEmitted
    BY DEF Sound, RCBState
  <2> QED BY <2>1, LenProperties
<1>2. \A i \in 1..Len(r.buffer) : r.buffer[i].id = r.emitted - Len(r.buffer) + i
  BY DEF Sound, Contiguous
<1> QED BY <1>1, <1>2

(* Second: what waited in a window that closes is reported, to the         *)
(* subscriber if there is one.                                             *)
Reported(r, u, l) ==
  IF r.enabled THEN \E i \in 1..Len(u.sent) : u.sent[i].vals[l] = r.pendVals[l]
  ELSE \E i \in 1..Len(u.buffer) : u.buffer[i].vals[l] = r.pendVals[l]

LEMMA ClosesReported ==
  ASSUME NEW r, Sound(r), Window(r), NEW u, Closes(r, u), NEW l \in Leaves, r.pendVals[l] # 0
  PROVE  Reported(r, u, l)
<1>1. r.pendVals # NoVals /\ r.pending # 0
  BY DEF NoVals, Window
<1>2. Adds(r, u, "event", r.pendVals) /\ u \in RCBState
  BY <1>1 DEF Closes, Sound
<1>3. Len(u.buffer) \in Nat /\ Len(u.sent) \in Nat /\ Len(r.sent) \in Nat
  <2>1. u.buffer \in Seq(Entry) /\ u.sent \in Seq(Report) /\ r.sent \in Seq(Report)
    BY <1>2 DEF Sound, RCBState
  <2> QED BY <2>1, LenProperties
<1>4. CASE r.enabled
  <2>1. Len(u.sent) \in 1..Len(u.sent) /\ u.sent[Len(u.sent)].vals = r.pendVals
    BY <1>2, <1>3, <1>4 DEF Adds
  <2> QED BY <1>4, <2>1 DEF Reported
<1>5. CASE ~r.enabled
  <2>1. Buffered
    BY <1>1, <1>5 DEF Window
  <2>2. Len(u.buffer) \in 1..Len(u.buffer) /\ u.buffer[Len(u.buffer)].vals = r.pendVals
    BY <1>2, <1>3, <2>1 DEF Adds, Grown
  <2> QED BY <1>5, <2>2 DEF Reported
<1> QED BY <1>4, <1>5

-----------------------------------------------------------------------------
(* Third: the last thing recorded about a member l is y.                   *)
Latest(b, l, y) ==
  \A i \in 1..Len(b) :
    b[i].vals[l] # 0 /\ (\A j \in (i + 1)..Len(b) : b[j].vals[l] = 0) => b[i].vals[l] = y

LEMMA GrownLatest ==
  ASSUME NEW b, NEW c, Grown(b, c), Len(b) \in Nat, NEW l, NEW y,
         LET v == c[Len(c)].vals[l] IN (v # 0 => v = y) /\ (v = 0 => Latest(b, l, y))
  PROVE  Latest(c, l, y)
<1> SUFFICES ASSUME NEW i \in 1..Len(c), c[i].vals[l] # 0,
                    \A j \in (i + 1)..Len(c) : c[j].vals[l] = 0
             PROVE  c[i].vals[l] = y
  BY DEF Latest
<1>1. /\ Len(c) \in {Len(b), Len(b) + 1} /\ Len(c) \in Nat /\ Len(c) > 0
      /\ \A k \in 1..(Len(c) - 1) : c[k] = b[k + Len(b) + 1 - Len(c)]
  BY DEF Grown
<1>2. CASE i = Len(c)
  BY <1>2
<1>3. CASE i # Len(c)
  <2> DEFINE d == Len(b) + 1 - Len(c)
             k == i + d
  <2>1. d \in {0, 1} /\ i \in 1..(Len(c) - 1) /\ k \in 1..Len(b) /\ Len(b) + 1 = Len(c) + d
    <3>1. d \in {0, 1} /\ i \in 1..(Len(c) - 1) /\ k \in 1..Len(b)
      BY <1>1, <1>3, GrownIndex, Zenon
    <3> QED BY <3>1, <1>1
  <2>2. c[Len(c)].vals[l] = 0
    BY <1>1, <2>1
  <2>3. \A h \in 1..(Len(c) - 1) : h + Len(b) + 1 - Len(c) = h + d
    BY <1>1
  <2>4. \A h \in 1..(Len(c) - 1) : c[h] = b[h + d]
    BY <1>1, <2>3
  <2> HIDE DEF d
  <2>5. ASSUME NEW j \in (k + 1)..Len(b) PROVE b[j].vals[l] = 0
    <3>1. j - d \in 1..(Len(c) - 1) /\ (j - d) + d = j /\ j - d \in (i + 1)..Len(c)
      BY <1>1, <2>1
    <3>2. c[j - d] = b[j]
      BY <2>4, <3>1, SMTT(30)
    <3> QED BY <3>1, <3>2
  <2>6. c[i] = b[k]
    BY <2>1, <2>4
  <2> HIDE DEF k
  <2> QED BY <2>1, <2>2, <2>5, <2>6 DEF Latest
<1> QED BY <1>2, <1>3

-----------------------------------------------------------------------------
(* What a step does to the window and to the record of the reports.        *)

Idles == /\ rs'.pending = rs.pending /\ rs'.pendVals = rs.pendVals
         /\ rs'.intgStop = rs.intgStop /\ rs'.enabled = rs.enabled
         /\ rs'.intgLoops = rs.intgLoops \/ rs'.emitted = rs.emitted
         /\ rs'.buffer = rs.buffer /\ rs'.sent = rs.sent
Purges == /\ SameWindow(rs, rs') /\ ~rs.enabled /\ ~rs'.enabled
          /\ rs'.buffer = <<>> /\ rs'.sent = rs.sent
Enables == /\ ~rs.enabled /\ rs'.enabled /\ rs'.buffer = rs.buffer
           /\ rs'.pending = rs.pending /\ rs'.pendVals = rs.pendVals
           /\ rs.intgLoops \subseteq rs'.intgLoops
           /\ ~Buffered => rs'.sent = <<>>
Disables == \E f : /\ Closes(rs, f) /\ rs'.buffer = f.buffer /\ rs'.sent = f.sent
                   /\ rs'.pending = 0 /\ rs'.pendVals = NoVals
                   /\ rs'.intgStop = 0 /\ rs'.intgLoops = f.intgLoops /\ ~rs'.enabled
Reports(reason) ==
  /\ rs.enabled /\ rs'.enabled
  /\ \E f : /\ Closes(rs, f)
            /\ \/ attr.datSet = NoDataSet /\ rs' = f
               \/ SameWindow(f, rs') /\ Adds(f, rs', reason, All)
Changed(S) == [l \in Leaves |-> IF l \in S \cap attr.datSet THEN now + 1 ELSE 0]
Captures(S) ==
  /\ Buffered \/ rs.enabled
  /\ rs'.enabled = rs.enabled
  /\ IF attr.bufTm = 0 THEN SameWindow(rs, rs') /\ Adds(rs, rs', "event", Changed(S))
     ELSE Joins(rs, rs', Changed(S))
Ignores(S) ==
  /\ "dchg" \notin attr.trgOps \/ Changed(S) = NoVals \/ ~(Buffered \/ rs.enabled)
  /\ rs' = rs

Settled == UNCHANGED <<attr, leaf, now>>

Effect ==
  \/ Idles /\ attr'.datSet = attr.datSet /\ UNCHANGED <<leaf, now>>
  \/ Purges /\ UNCHANGED <<leaf, now>>
  \/ Enables /\ Settled
  \/ Disables /\ Settled
  \/ Reports("gi") /\ Settled
  \/ Reports("integrity") /\ IntegrityTick(rs.intgStop) /\ Settled
  \/ Closes(rs, rs') /\ Settled
  \/ \E S \in SUBSET Leaves : Update(S) /\ (Captures(S) \/ Ignores(S))

(* enableLocked leaves the window and the buffer as they are.              *)
LEMMA EnableEffect ==
  ASSUME NEW r, Sound(r), NEW c \in Conns, NEW acc
  PROVE  LET u == Enable(r, c, acc)
         IN /\ u.enabled /\ u.buffer = r.buffer /\ u.pending = r.pending
            /\ u.pendVals = r.pendVals /\ (~Buffered => u.sent = <<>>)
            /\ r.intgLoops \subseteq u.intgLoops
<1> DEFINE e == [r EXCEPT !.enabled = TRUE, !.conn = c, !.sqNum = 0, !.intgStop = 0, !.sent = <<>>]
           q == Resynced(e)
           b == IF Buffered THEN TransmitBuffered(q, acc) ELSE e
           g == Fresh(r.intgLoops)
           x == b.intgLoops \cup {g}
           u == [b EXCEPT !.intgStop = g, !.intgLoops = x]
<1>0. r \in RCBState /\ <<>> \in Seq(Report) /\ 0 \in 0..(SqMod - 1) /\ Len(<<>>) = 0
      /\ 0 % SqMod = 0
  BY RCBAssumption, EmptySeq, SMTT(30) DEF Sound, RCBState
<1>1. /\ e \in RCBState /\ e.buffer = r.buffer /\ e.next = r.next /\ e.sent = <<>>
      /\ e.sqNum = 0 /\ e.emitted = r.emitted /\ e.due = r.due /\ e.bufOverflow = r.bufOverflow
      /\ e.enabled = TRUE /\ e.pending = r.pending /\ e.pendVals = r.pendVals
      /\ e.intgLoops = r.intgLoops
  BY <1>0, Zenon DEF RCBState
<1>E. Enable(r, c, acc) = IF attr.intgPd > 0 /\ "integrity" \in attr.trgOps THEN u ELSE b
  BY DEF Enable
<1> HIDE DEF e
<1>2. Sound(e)
  BY <1>0, <1>1 DEF Sound, Contiguous, Told, Numbered, NextId
<1>3. CASE Buffered
  <2>1. Sound(q) /\ q.enabled = TRUE
    BY <1>1, <1>2, <1>3, ResyncedSound DEF SameSubscriber
  <2>2. /\ q.buffer = e.buffer /\ q.pending = e.pending /\ q.pendVals = e.pendVals
        /\ q.intgLoops = e.intgLoops
    <3> DEFINE z == [[e EXCEPT !.resyncID = -1] EXCEPT !.next = 0,
                                                       !.due = e.emitted - Len(e.buffer) + 1]
               h == [[e EXCEPT !.resyncID = -1] EXCEPT !.next = 0, !.bufOverflow = TRUE]
               i == CHOOSE i \in BufferIndex(e, e.resyncID) : TRUE
               y == [[e EXCEPT !.resyncID = -1] EXCEPT !.next = i, !.due = e.resyncID + 1]
    <3>1. q \in {e, z, h, y}
      BY DEF Resynced
    <3>2. /\ z.buffer = e.buffer /\ z.pending = e.pending /\ z.pendVals = e.pendVals
          /\ z.intgLoops = e.intgLoops
      BY <1>1 DEF RCBState
    <3>3. /\ h.buffer = e.buffer /\ h.pending = e.pending /\ h.pendVals = e.pendVals
          /\ h.intgLoops = e.intgLoops
      BY <1>1 DEF RCBState
    <3>4. /\ y.buffer = e.buffer /\ y.pending = e.pending /\ y.pendVals = e.pendVals
          /\ y.intgLoops = e.intgLoops
      <4> HIDE DEF i
      <4> QED BY <1>1 DEF RCBState
    <3> HIDE DEF q, z, h, y
    <3> QED BY <3>1, <3>2, <3>3, <3>4
  <2> HIDE DEF q
  <2>3. SameWindow(q, b) /\ b.buffer = q.buffer /\ b.enabled = TRUE /\ b \in RCBState
    BY <1>3, <2>1, TransmitBufferedAdds, TransmitBufferedSound DEF SameSubscriber, Sound
  <2> HIDE DEF b
  <2>4. /\ u.buffer = b.buffer /\ u.pending = b.pending
        /\ u.pendVals = b.pendVals /\ u.enabled = b.enabled /\ u.intgLoops = x
    <3> HIDE DEF g, x
    <3> QED BY <2>3 DEF RCBState
  <2> QED BY <1>3, <1>E, <1>1, <2>2, <2>3, <2>4 DEF SameWindow
<1>4. CASE ~Buffered
  <2>1. b = e
    BY <1>4
  <2> HIDE DEF b
  <2>2. /\ u.buffer = b.buffer /\ u.pending = b.pending /\ u.pendVals = b.pendVals
        /\ u.enabled = b.enabled /\ u.sent = b.sent /\ u.intgLoops = x
    <3> HIDE DEF g, x
    <3> QED BY <1>1, <2>1 DEF RCBState
  <2> QED BY <1>4, <1>E, <1>1, <2>1, <2>2
<1> QED BY <1>3, <1>4

(* disableLocked closes the window.                                        *)
LEMMA DisableEffect ==
  ASSUME NEW r, Sound(r), Window(r), r.pending # 0 => r.emitted < MaxEmitted, NEW acc
  PROVE  LET u == Disable(r, acc)
         IN \E f : /\ Closes(r, f) /\ u.buffer = f.buffer /\ u.sent = f.sent
                   /\ u.pending = 0 /\ u.pendVals = NoVals /\ u.intgStop = 0
                   /\ u.intgLoops = f.intgLoops /\ ~u.enabled
<1> DEFINE f == FlushPending(r, acc)
           u == [f EXCEPT !.enabled = FALSE, !.conn = NoConn, !.intgStop = 0]
<1>1. Closes(r, f)
  BY FlushCloses
<1>2. Disable(r, acc) = u
  BY DEF Disable
<1> HIDE DEF f
<1>3. f \in RCBState
  BY <1>1 DEF Closes, Sound
<1>4. /\ u.buffer = f.buffer /\ u.sent = f.sent /\ u.pending = f.pending
      /\ u.pendVals = f.pendVals /\ u.intgStop = 0 /\ u.intgLoops = f.intgLoops /\ u.enabled = FALSE
  BY <1>3 DEF RCBState
<1> HIDE DEF u
<1> QED BY <1>1, <1>2, <1>4 DEF Closes

(* Every step of a client has one of the effects.                          *)
LEMMA WriteEffect ==
  ASSUME IndInv, Window(rs), NEW c \in Conns, ClientWrite(c) PROVE Effect
<1>0. Sound(rs) /\ rs \in RCBState /\ TypeOK
  BY DEF IndInv, Sound
<1>1. CASE WriteRptEnaTrue(c)
  <2>1. Enables
    BY <1>0, <1>1, EnableEffect DEF WriteRptEnaTrue, Enables
  <2> QED BY <1>1, <2>1 DEF WriteRptEnaTrue, Rest, Settled, Effect
<1>2. CASE WriteRptEnaFalse(c)
  <2>1. Disables
    BY <1>0, <1>2, DisableEffect DEF WriteRptEnaFalse, MayFlush, Disables
  <2> QED BY <1>2, <2>1 DEF WriteRptEnaFalse, Rest, Settled, Effect
<1>3. ASSUME NEW on \in BOOLEAN, WriteGI(c, on) PROVE Effect
  <2>1. CASE on /\ "gi" \in attr.trgOps
    <3>1. PICK acc : rs' = ReportAll(rs, "gi", acc)
      BY <1>3, <2>1 DEF WriteGI
    <3>2. "gi" \in Reasons /\ rs.emitted + 2 < MaxEmitted /\ rs.enabled
      BY <1>3, <2>1 DEF WriteGI, MayEmit, Reasons
    <3>3. rs'.enabled = rs.enabled
      BY <1>0, <3>1, <3>2, ReportAllSound, Zenon DEF SameSubscriber
    <3>4. Reports("gi")
      BY <1>0, <3>1, <3>2, <3>3, ReportAllAdds, Zenon DEF Reports
    <3> QED BY <1>3, <3>4 DEF WriteGI, Rest, Settled, Effect
  <2>2. CASE ~(on /\ "gi" \in attr.trgOps)
    BY <1>3, <2>2 DEF WriteGI, Rest, Effect, Idles, SameWindow
  <2> QED BY <2>1, <2>2
<1>4. ASSUME NEW on \in BOOLEAN, WriteResv(c, on) PROVE Effect
  BY <1>4 DEF WriteResv, Rest, Effect, Idles, SameWindow
<1>p. Purged(rs).enabled = rs.enabled /\ Purged(rs).buffer = <<>> /\ Purged(rs).sent = rs.sent
      /\ SameWindow(rs, Purged(rs))
  BY <1>0 DEF Purged, RCBState, SameWindow
<1>5. ASSUME NEW on \in BOOLEAN, WritePurgeBuf(c, on) PROVE Effect
  <2>1. CASE on
    BY <1>p, <1>5, <2>1 DEF WritePurgeBuf, MayConfigure, Rest, Effect, Purges
  <2>2. CASE ~on
    BY <1>5, <2>2 DEF WritePurgeBuf, Rest, Effect, Idles, SameWindow
  <2> QED BY <2>1, <2>2
<1>6. ASSUME NEW tms \in ResvTmss, WriteResvTms(c, tms) PROVE Effect
  <2>1. attr'.datSet = attr.datSet
    BY <1>0, <1>6 DEF WriteResvTms, TypeOK, Attributes
  <2> QED BY <1>6, <2>1 DEF WriteResvTms, Rest, Effect, Idles, SameWindow
<1>7. ASSUME NEW id \in 0..rs.emitted, WriteEntryID(c, id) PROVE Effect
  <2>1. Idles
    BY <1>0, <1>7 DEF WriteEntryID, RCBState, Idles, SameWindow
  <2> QED BY <1>7, <2>1 DEF WriteEntryID, Rest, Effect
<1>8. ASSUME NEW ds \in DataSets \cup {NoDataSet}, WriteDatSet(c, ds) PROVE Effect
  BY <1>p, <1>8 DEF WriteDatSet, MayConfigure, Rest, Effect, Purges
<1>9. ASSUME NEW bt \in BufTms, NEW pd \in IntgPds, NEW ops \in TrgOpss,
             WriteSettings(c, bt, pd, ops)
      PROVE  Effect
  <2>1. attr'.datSet = attr.datSet
    BY <1>0, <1>9 DEF WriteSettings, TypeOK, Attributes
  <2> QED BY <1>9, <2>1 DEF WriteSettings, Rest, Effect, Idles, SameWindow
<1> QED BY <1>1, <1>2, <1>3, <1>4, <1>5, <1>6, <1>7, <1>8, <1>9 DEF ClientWrite

(* So has every update of the process data.                                *)
LEMMA UpdateEffect ==
  ASSUME IndInv, Window(rs), NEW S \in SUBSET Leaves, Update(S) PROVE Effect
<1>1. PICK acc \in Accepting :
        rs' = IF (Buffered \/ rs.enabled) /\ "dchg" \in attr.trgOps /\ Changed(S) # NoVals
              THEN Event(rs, Changed(S), acc) ELSE rs
  BY DEF Update, Changed
<1>2. CASE (Buffered \/ rs.enabled) /\ "dchg" \in attr.trgOps /\ Changed(S) # NoVals
  <2>1. Changed(S) \in Vals
    <3>1. now + 1 \in 0..MaxUpdates /\ 0 \in 0..MaxUpdates
      BY RCBAssumption DEF Update, IndInv, TypeOK
    <3> QED BY <3>1 DEF Changed, Vals
  <2>2. TypeOK /\ Sound(rs) /\ rs.emitted + 2 < MaxEmitted /\ rs.pendCbs # Timers
    BY DEF IndInv, Update, MayEmit, MayStart
  <2>3. rs' = Event(rs, Changed(S), acc)
    BY <1>1, <1>2
  <2>4. rs'.enabled = rs.enabled
    BY <2>1, <2>2, <2>3, EventSound DEF SameSubscriber
  <2>5. IF attr.bufTm = 0 THEN SameWindow(rs, rs') /\ Adds(rs, rs', "event", Changed(S))
        ELSE Joins(rs, rs', Changed(S))
    BY <2>1, <2>2, <2>3, EventAdds
  <2>6. Captures(S)
    BY <1>2, <2>4, <2>5 DEF Captures
  <2> QED BY <2>6 DEF Effect
<1>3. CASE ~((Buffered \/ rs.enabled) /\ "dchg" \in attr.trgOps /\ Changed(S) # NoVals)
  BY <1>1, <1>3 DEF Effect, Ignores
<1> QED BY <1>2, <1>3

(* And every callback, stale or not.                                       *)
LEMMA CallbackEffect ==
  ASSUME IndInv, Window(rs), NEW t \in Timers, PendTimer(t) \/ ResvTimer(t) \/ IntegrityTick(t)
  PROVE  Effect
<1>0. Sound(rs) /\ rs \in RCBState /\ TypeOK
  BY DEF IndInv, Sound
<1>1. CASE PendTimer(t)
  <2> DEFINE x == rs.pendCbs \ {t}
             r == [rs EXCEPT !.pendCbs = x]
  <2>1. PICK acc \in Accepting : rs' = IF rs.pending = t THEN FlushPending(r, acc) ELSE r
    BY <1>1 DEF PendTimer
  <2>2. x \in SUBSET Timers /\ rs.emitted < MaxEmitted
    BY <1>0, <1>1 DEF PendTimer, RCBState
  <2> HIDE DEF x
  <2>3. /\ r \in RCBState /\ SameSubscriber(rs, r)
        /\ r.buffer = rs.buffer /\ r.next = rs.next /\ r.sent = rs.sent
        /\ r.sqNum = rs.sqNum /\ r.emitted = rs.emitted /\ r.due = rs.due
        /\ r.bufOverflow = rs.bufOverflow
        /\ r.pending = rs.pending /\ r.pendVals = rs.pendVals
        /\ r.intgStop = rs.intgStop /\ r.intgLoops = rs.intgLoops
    BY <1>0, <2>2, Zenon DEF RCBState, SameSubscriber
  <2> HIDE DEF r
  <2>4. Sound(r) /\ Window(r)
    BY <1>0, <2>3, SoundFrame DEF Window, SameSubscriber
  <2>5. CASE rs.pending = t
    <3>1. Closes(r, rs')
      BY <2>1, <2>2, <2>3, <2>4, <2>5, FlushCloses
    <3>2. Closes(rs, rs')
      BY <2>3, <3>1 DEF Closes, Adds, SameSubscriber
    <3> QED BY <1>1, <3>2 DEF PendTimer, Rest, Settled, Effect
  <2>6. CASE rs.pending # t
    <3>1. Idles
      BY <2>1, <2>3, <2>6 DEF Idles, SameWindow, SameSubscriber
    <3> QED BY <1>1, <3>1 DEF PendTimer, Rest, Effect
  <2> QED BY <2>5, <2>6
<1>2. CASE ResvTimer(t)
  BY <1>2 DEF ResvTimer, Rest, Effect, Idles, SameWindow
<1>3. CASE IntegrityTick(t)
  <2> DEFINE x == rs.intgLoops \ {t}
             r == [rs EXCEPT !.intgLoops = x]
  <2>1. PICK acc \in Accepting :
          rs' = IF rs.intgStop = t THEN ReportAll(rs, "integrity", acc) ELSE r
    BY <1>3 DEF IntegrityTick
  <2>2. CASE rs.intgStop = t
    <3>1. "integrity" \in Reasons /\ rs.emitted + 2 < MaxEmitted /\ rs.enabled
      BY <1>3, <2>2, RCBAssumption DEF Window, IntegrityTick, MayEmit, Reasons
    <3>2. rs'.enabled = rs.enabled
      BY <1>0, <2>1, <2>2, <3>1, ReportAllSound, Zenon DEF SameSubscriber
    <3>3. Reports("integrity")
      BY <1>0, <2>1, <2>2, <3>1, <3>2, ReportAllAdds, Zenon DEF Reports
    <3>4. IntegrityTick(rs.intgStop)
      BY <1>3, <2>2
    <3> QED BY <1>3, <3>3, <3>4 DEF IntegrityTick, Rest, Settled, Effect
  <2>3. CASE rs.intgStop # t
    <3>1. Idles
      <4> HIDE DEF x
      <4> QED BY <1>0, <2>1, <2>3 DEF RCBState, Idles, SameWindow
    <3> QED BY <1>3, <3>1 DEF IntegrityTick, Rest, Effect
  <2> QED BY <2>2, <2>3
<1> QED BY <1>1, <1>2, <1>3

(* Every step of the block has one of the effects.                         *)
LEMMA StepEffect ==
  ASSUME IndInv, Window(rs), Next PROVE Effect
<1>0. Sound(rs) /\ rs \in RCBState
  BY DEF IndInv, Sound
<1>1. ASSUME NEW c \in Conns, ClientWrite(c) PROVE Effect
  BY <1>1, WriteEffect
<1>2. ASSUME NEW c \in Conns, Connect(c) PROVE Effect
  BY <1>2 DEF Connect, Effect, Idles, SameWindow
<1>3. ASSUME NEW c \in Conns, Disconnect(c) PROVE Effect
  <2>1. CASE rs.conn = c
    <3>1. Disables
      BY <1>0, <1>3, <2>1, DisableEffect DEF Disconnect, MayFlush, Disables
    <3> QED BY <1>3, <3>1 DEF Disconnect, Settled, Effect
  <2>2. CASE rs.conn # c
    BY <1>3, <2>2 DEF Disconnect, Effect, Idles, SameWindow
  <2> QED BY <2>1, <2>2
<1>4. ASSUME NEW S \in SUBSET Leaves, Update(S) PROVE Effect
  BY <1>4, UpdateEffect
<1>5. ASSUME NEW t \in Timers, PendTimer(t) \/ ResvTimer(t) \/ IntegrityTick(t) PROVE Effect
  BY <1>5, CallbackEffect
<1> QED BY <1>1, <1>2, <1>3, <1>4, <1>5 DEF Next, Callback

(* The window stays as Window says.                                        *)
LEMMA WindowNext ==
  IndInv /\ Window(rs) /\ [Next]_vars => Window(rs')
<1> SUFFICES ASSUME IndInv, Window(rs), [Next]_vars PROVE Window(rs')
  OBVIOUS
<1>1. CASE UNCHANGED vars
  BY <1>1 DEF vars
<1>2. CASE Next
  <2>0. Effect
    BY <1>2, StepEffect
  <2>1. CASE Idles \/ Purges \/ Enables
    BY <2>1 DEF Idles, Purges, Enables, Window, SameWindow
  <2>2. CASE Disables
    BY <2>2 DEF Disables, Window
  <2>3. ASSUME NEW reason, Reports(reason) PROVE Window(rs')
    BY <2>3 DEF Reports, Window, SameWindow, Closes
  <2>4. CASE Closes(rs, rs')
    BY <2>4 DEF Closes, SameSubscriber, Window
  <2>5. ASSUME NEW S \in SUBSET Leaves, Captures(S) PROVE Window(rs')
    <3>1. CASE attr.bufTm = 0
      BY <2>5, <3>1 DEF Captures, Window, SameWindow
    <3>2. CASE attr.bufTm # 0
      <4>1. rs'.pending # 0 /\ rs'.intgStop = rs.intgStop
        BY <2>5, <3>2 DEF Captures, Joins, Closes
      <4> QED BY <2>5, <4>1 DEF Captures, Window
    <3> QED BY <3>1, <3>2
  <2>6. ASSUME NEW S \in SUBSET Leaves, Ignores(S) PROVE Window(rs')
    BY <2>6 DEF Ignores
  <2> QED BY <2>0, <2>1, <2>2, <2>3, <2>4, <2>5, <2>6 DEF Effect
<1> QED BY <1>1, <1>2

(* The inductive invariant with the window.                                *)
WindowInv == IndInv /\ Window(rs)

LEMMA WindowInvariant == Spec => []WindowInv
<1>1. Init => WindowInv
  BY InitInv DEF Init, Window, WindowInv
<1>2. WindowInv /\ [Next]_vars => WindowInv'
  BY NextInv, WindowNext DEF WindowInv
<1> QED BY <1>1, <1>2, PTL DEF Spec

-----------------------------------------------------------------------------
(* A value waiting in a buffer-time window leaves it only in a report, to  *)
(* the subscriber of an enabled block, into the buffer of a disabled one   *)
(* (eventLocked, flushPendingLocked, disableLocked).                       *)
THEOREM WindowIsReported == Spec => NothingOverwritten
<1> DEFINE P ==
      \A l \in Leaves :
        rs.pendVals[l] \notin {0, rs'.pendVals[l]} =>
          IF rs.enabled THEN \E i \in 1..Len(rs'.sent) : rs'.sent[i].vals[l] = rs.pendVals[l]
          ELSE \E i \in 1..Len(rs'.buffer) : rs'.buffer[i].vals[l] = rs.pendVals[l]
<1>1. WindowInv /\ WindowInv' /\ [Next]_vars => [P]_vars
  <2> SUFFICES ASSUME WindowInv, WindowInv', Next, NEW l \in Leaves,
                      rs.pendVals[l] # 0, rs.pendVals[l] # rs'.pendVals[l]
               PROVE  Reported(rs, rs', l)
    BY DEF Reported
  <2>0. Sound(rs) /\ Window(rs) /\ Sound(rs')
    BY DEF WindowInv, IndInv
  <2>1. Effect
    BY StepEffect DEF WindowInv
  <2>2. CASE Idles \/ Purges \/ Enables
    BY <2>2 DEF Idles, Purges, Enables, SameWindow
  <2>3. ASSUME NEW f, Closes(rs, f), rs'.buffer = f.buffer, rs'.sent = f.sent
        PROVE  Reported(rs, rs', l)
    <3>1. Reported(rs, f, l)
      BY <2>0, <2>3, ClosesReported
    <3> QED BY <2>3, <3>1 DEF Reported
  <2>4. CASE Disables
    BY <2>3, <2>4 DEF Disables
  <2>5. ASSUME NEW reason, Reports(reason) PROVE Reported(rs, rs', l)
    <3>1. PICK f : /\ Closes(rs, f)
                   /\ rs' = f \/ Adds(f, rs', reason, All)
      BY <2>5 DEF Reports
    <3>2. CASE rs' = f
      BY <2>3, <3>1, <3>2
    <3>3. CASE Adds(f, rs', reason, All)
      <4>1. rs.enabled /\ f.enabled
        BY <2>5, <3>1 DEF Reports, Closes, SameSubscriber
      <4>2. PICK i \in 1..Len(f.sent) : f.sent[i].vals[l] = rs.pendVals[l]
        BY <2>0, <3>1, <4>1, ClosesReported DEF Reported
      <4>3. rs'.sent[i] = f.sent[i] /\ Len(rs'.sent) > Len(f.sent)
        BY <3>3, <4>1 DEF Adds
      <4>4. Len(f.sent) \in Nat /\ Len(rs'.sent) \in Nat
        <5>1. f.sent \in Seq(Report) /\ rs'.sent \in Seq(Report)
          BY <2>0, <3>1 DEF Closes, Sound, RCBState
        <5> QED BY <5>1, LenProperties
      <4>5. i \in 1..Len(rs'.sent)
        BY <4>3, <4>4
      <4> QED BY <4>1, <4>2, <4>3, <4>5 DEF Reported
    <3> QED BY <3>1, <3>2, <3>3
  <2>6. CASE Closes(rs, rs')
    BY <2>3, <2>6
  <2>7. ASSUME NEW S \in SUBSET Leaves, Captures(S) PROVE Reported(rs, rs', l)
    <3>1. CASE attr.bufTm = 0
      BY <2>7, <3>1 DEF Captures, SameWindow
    <3>2. CASE attr.bufTm # 0
      <4>1. PICK f : /\ \/ f = rs /\ \A k \in Leaves : rs.pendVals[k] = 0 \/ Changed(S)[k] = 0
                        \/ Closes(rs, f)
                     /\ rs'.buffer = f.buffer /\ rs'.sent = f.sent
                     /\ rs'.pendVals = Merge(f.pendVals, Changed(S))
        BY <2>7, <3>2 DEF Captures, Joins
      <4>2. CASE f = rs /\ Changed(S)[l] = 0
        BY <4>1, <4>2 DEF Merge
      <4> QED BY <2>3, <4>1, <4>2
    <3> QED BY <3>1, <3>2
  <2>8. ASSUME NEW S \in SUBSET Leaves, Ignores(S) PROVE Reported(rs, rs', l)
    BY <2>8 DEF Ignores
  <2> QED BY <2>1, <2>2, <2>4, <2>5, <2>6, <2>7, <2>8 DEF Effect
<1> QED BY <1>1, WindowInvariant, PTL DEF Spec, NothingOverwritten

-----------------------------------------------------------------------------
(* A reservation for an absent client is a BRCB's, and there is a ResvTms  *)
(* to time it.                                                             *)
TimedInv == rv.owner = NoConn /\ rv.resvIP # NoIP /\ ~ResvCfg => Buffered /\ attr.resvTms > 0

Frees == rv.owner = NoConn /\ rv'.owner = NoConn /\ rv.resvIP # NoIP /\ rv'.resvIP = NoIP

(* What releaseLocked leaves behind.                                       *)
LEMMA ReleaseLeaves ==
  ASSUME TypeOK, NEW v \in Reservation
  PROVE  LET u == Release(v)
         IN /\ u.resvIP # NoIP /\ ~ResvCfg => Buffered /\ attr.resvTms > 0
            /\ ResvCfg => u.resvIP = v.resvIP
            /\ /\ ~ResvCfg /\ Buffered /\ attr.resvTms > 0
               /\ v.owner # NoConn /\ AddrOf[v.owner] # NoIP
               => u.resvIP # NoIP
<1> DEFINE ip == IF v.owner = NoConn THEN NoIP ELSE AddrOf[v.owner]
           t == Fresh(v.resvCbs)
           x == v.resvCbs \cup {t}
           k == [v EXCEPT !.owner = NoConn]
           freed == [v EXCEPT !.owner = NoConn, !.resvTimer = 0, !.resvIP = NoIP]
           h == [freed EXCEPT !.resvIP = ip, !.resvTimer = t, !.resvCbs = x]
<1>1. ip \in IPs \cup {NoIP} /\ v.resvCbs \subseteq Timers
  BY RCBAssumption DEF Reservation
<1>3. Release(v) = IF ResvCfg THEN Synced(k)
                   ELSE IF Buffered /\ attr.resvTms > 0 /\ ip # NoIP THEN Synced(h)
                   ELSE Synced(freed)
  BY <1>1 DEF Release, Reservation
<1>i. (v.owner # NoConn => ip = AddrOf[v.owner])
  OBVIOUS
<1> HIDE DEF ip, t, x
<1>4. k.resvIP = v.resvIP /\ Synced(k).resvIP = k.resvIP
  BY DEF Synced, Reservation
<1>5. h.resvIP = ip /\ Synced(h).resvIP = h.resvIP
  BY DEF Synced, Reservation
<1>6. freed.resvIP = NoIP /\ Synced(freed).resvIP = freed.resvIP
  BY DEF Synced, Reservation
<1> HIDE DEF k, h, freed
<1> QED BY <1>3, <1>4, <1>5, <1>6, <1>i

(* The times of the reservation stay as TimedInv says.                     *)
LEMMA TimedNext ==
  WindowInv /\ TimedInv /\ [Next]_vars => TimedInv'
<1> SUFFICES ASSUME WindowInv, TimedInv, [Next]_vars PROVE TimedInv'
  OBVIOUS
<1>0. TypeOK /\ Firm(rv) /\ rv \in Reservation /\ attr \in Attributes
  BY DEF WindowInv, IndInv, Firm, TypeOK
<1>1. rv' = rv /\ attr'.resvTms = attr.resvTms => TimedInv'
  BY DEF TimedInv
<1>2. rv'.owner # NoConn => TimedInv'
  BY DEF TimedInv
<1>3. ASSUME NEW v \in Reservation, rv' = Release(v), attr' = attr PROVE TimedInv'
  BY <1>0, <1>3, ReleaseLeaves DEF TimedInv
<1>4. ASSUME NEW c \in Conns, ClientWrite(c) PROVE TimedInv'
  <2>1. MayWrite(c) => /\ Firm(Reserved(rv, c)) /\ Reserved(rv, c).owner = c
                      /\ Reserved(rv, c) \in Reservation
    BY <1>0, ReservedFirm DEF MayWrite, Firm
  <2>2. c # NoConn
    BY RCBAssumption
  <2>3. CASE WriteRptEnaTrue(c)
    BY <1>2, <2>1, <2>2, <2>3 DEF WriteRptEnaTrue, EnableTakes
  <2>4. CASE WriteRptEnaFalse(c)
    BY <1>2, <1>3, <2>1, <2>2, <2>4 DEF WriteRptEnaFalse, DisableReleases
  <2>5. ASSUME NEW on \in BOOLEAN, WriteResv(c, on) PROVE TimedInv'
    <3>1. CASE on
      BY <1>0, <1>2, <2>2, <2>5, <3>1, TakeFirm DEF WriteResv, MayWrite
    <3>2. CASE ~on
      BY <1>0, <1>3, <2>5, <3>2 DEF WriteResv
    <3> QED BY <3>1, <3>2
  <2>6. ASSUME NEW tms \in ResvTmss, WriteResvTms(c, tms) PROVE TimedInv'
    <3> DEFINE v == Reserved(rv, c)
               t == IF tms = 0 THEN 0 ELSE v.resvTimer
    <3>1. v.owner = c /\ v \in Reservation
      BY <2>1, <2>6 DEF WriteResvTms, MayConfigure
    <3>2. rv' = [v EXCEPT !.resvTimer = t]
      BY <2>6, <3>1 DEF WriteResvTms, Reservation
    <3> HIDE DEF v, t
    <3>3. rv'.owner = c
      BY <3>1, <3>2 DEF Reservation
    <3> QED BY <1>2, <2>2, <3>3
  <2>7. CASE rv' = Reserved(rv, c) /\ MayWrite(c)
    BY <1>2, <2>1, <2>2, <2>7
  <2> QED BY <1>4, <2>3, <2>4, <2>5, <2>6, <2>7
         DEF ClientWrite, WriteGI, WritePurgeBuf, WriteEntryID, WriteDatSet, WriteSettings,
             MayConfigure
<1>5. ASSUME NEW c \in Conns, Disconnect(c) PROVE TimedInv'
  <2> DEFINE v == IF rs.conn = c THEN DisableReleases(rv) ELSE rv
  <2>1. rv.resvCbs # Timers /\ attr' = attr
    BY <1>5 DEF Disconnect, MayStart
  <2>2. v = rv \/ v = Release(rv)
    BY DEF DisableReleases
  <2>3. rv' = IF v.owner = c THEN Release(v) ELSE v
    BY <1>5 DEF Disconnect
  <2>4. v \in Reservation
    BY <1>0, <2>1, <2>2, ReleaseFirm DEF Firm
  <2> HIDE DEF v
  <2> QED BY <1>0, <1>1, <1>3, <2>1, <2>2, <2>3, <2>4
<1>6. ASSUME NEW t \in Timers, ResvTimer(t) PROVE TimedInv'
  <2> DEFINE x == rv.resvCbs \ {t}
             v == [rv EXCEPT !.resvCbs = x]
             w == [v EXCEPT !.resvTimer = 0, !.resvIP = NoIP]
  <2>1. rv' = IF rv.resvTimer = t /\ rv.owner = NoConn THEN Synced(w) ELSE v
    BY <1>6 DEF ResvTimer
  <2> HIDE DEF x
  <2>2. v.owner = rv.owner /\ v.resvIP = rv.resvIP /\ Synced(w).resvIP = NoIP
    BY <1>0 DEF Synced, Reservation
  <2> HIDE DEF v, w
  <2> QED BY <1>6, <2>1, <2>2 DEF ResvTimer, TimedInv
<1>7. CASE UNCHANGED <<rv, attr>>
  BY <1>7 DEF TimedInv
<1> QED BY <1>4, <1>5, <1>6, <1>7, Zenon
       DEF Next, Callback, Connect, Update, PendTimer, IntegrityTick, vars

LEMMA TimedInvariant == Spec => []TimedInv
<1>1. Init => TimedInv
  BY DEF Init, TimedInv, ResvCfg
<1> QED BY <1>1, TimedNext, WindowInvariant, PTL DEF Spec

(* A step that ends the reservation of an absent client is the callback of *)
(* the timer started for it.                                               *)
LEMMA FreedByTimer ==
  ASSUME WindowInv, TimedInv, Next, Frees PROVE rv.resvTimer \in rv.resvCbs \ rv'.resvCbs
<1>0. TypeOK /\ Firm(rv) /\ rv \in Reservation /\ SubscriberHolds
  BY DEF WindowInv, IndInv, Firm
<1>1. rv' # rv
  BY DEF Frees
<1>2. ASSUME NEW c \in Conns, ClientWrite(c) PROVE FALSE
  <2>1. MayWrite(c) => /\ Firm(Reserved(rv, c)) /\ Reserved(rv, c).owner = c
                      /\ Reserved(rv, c) \in Reservation
    BY <1>0, ReservedFirm DEF MayWrite, Firm
  <2>2. c # NoConn
    BY RCBAssumption
  <2>3. CASE WriteRptEnaTrue(c)
    BY <2>1, <2>2, <2>3 DEF WriteRptEnaTrue, EnableTakes, Frees
  <2>4. CASE WriteRptEnaFalse(c)
    <3> DEFINE v == Reserved(rv, c)
    <3>1. Firm(v) /\ v.owner = c /\ v \in Reservation /\ rv' = DisableReleases(v)
      BY <2>1, <2>4 DEF WriteRptEnaFalse
    <3>2. AddrOf[c] # NoIP
      BY <2>4 DEF WriteRptEnaFalse, MayWrite, Allowed, Frees
    <3> HIDE DEF v
    <3>3. Buffered /\ rv' = Release(v)
      BY <2>2, <3>1 DEF DisableReleases, Frees
    <3>4. CASE ResvCfg
      <4>1. v.resvIP # NoIP
        BY <3>1, <3>4 DEF Firm, ResvCfg
      <4> QED BY <1>0, <3>1, <3>3, <3>4, <4>1, ReleaseLeaves DEF Frees
    <3>5. CASE ~ResvCfg
      <4>1. attr.resvTms > 0
        BY <3>5 DEF TimedInv, Frees
      <4> QED BY <1>0, <2>2, <3>1, <3>2, <3>3, <3>5, <4>1, ReleaseLeaves DEF Frees
    <3> QED BY <3>4, <3>5
  <2>5. ASSUME NEW on \in BOOLEAN, WriteResv(c, on) PROVE FALSE
    <3>1. CASE on
      BY <1>0, <2>2, <2>5, <3>1, TakeFirm DEF WriteResv, MayWrite, Frees
    <3>2. CASE ~on
      BY <2>5, <3>2 DEF WriteResv, TimedInv, Frees
    <3> QED BY <3>1, <3>2
  <2>6. ASSUME NEW tms \in ResvTmss, WriteResvTms(c, tms) PROVE FALSE
    <3> DEFINE v == Reserved(rv, c)
               t == IF tms = 0 THEN 0 ELSE v.resvTimer
    <3>1. v.owner = c /\ v \in Reservation
      BY <2>1, <2>6 DEF WriteResvTms, MayConfigure
    <3>2. rv' = [v EXCEPT !.resvTimer = t]
      BY <2>6, <3>1 DEF WriteResvTms, Reservation
    <3> HIDE DEF v, t
    <3>3. rv'.owner = c
      BY <3>1, <3>2 DEF Reservation
    <3> QED BY <2>2, <3>3 DEF Frees
  <2>7. CASE rv' = Reserved(rv, c) /\ MayWrite(c)
    BY <2>1, <2>2, <2>7 DEF Frees
  <2> QED BY <1>2, <2>3, <2>4, <2>5, <2>6, <2>7
         DEF ClientWrite, WriteGI, WritePurgeBuf, WriteEntryID, WriteDatSet, WriteSettings,
             MayConfigure
<1>3. ASSUME NEW c \in Conns, Disconnect(c) PROVE FALSE
  <2>1. c # NoConn /\ rv.owner = NoConn
    BY RCBAssumption DEF Frees
  <2>2. rs.conn # c
    BY <1>0, <2>1, <1>3 DEF SubscriberHolds
  <2> QED BY <1>1, <1>3, <2>1, <2>2 DEF Disconnect
<1>4. ASSUME NEW t \in Timers, ResvTimer(t) PROVE rv.resvTimer \in rv.resvCbs \ rv'.resvCbs
  <2> DEFINE x == rv.resvCbs \ {t}
             v == [rv EXCEPT !.resvCbs = x]
             w == [v EXCEPT !.resvTimer = 0, !.resvIP = NoIP]
  <2>1. rv' = IF rv.resvTimer = t /\ rv.owner = NoConn THEN Synced(w) ELSE v
    BY <1>4 DEF ResvTimer
  <2>2. t \notin x /\ t \in rv.resvCbs
    BY <1>4 DEF ResvTimer
  <2> HIDE DEF x
  <2>3. v.resvIP = rv.resvIP /\ Synced(w).resvCbs = x
    BY <1>0 DEF Synced, Reservation
  <2> HIDE DEF v, w
  <2> QED BY <2>1, <2>2, <2>3 DEF Frees
<1>5. ~UNCHANGED rv
  BY <1>1
<1> QED BY <1>2, <1>3, <1>4, <1>5, Zenon DEF Next, Callback, Connect, Update, PendTimer, IntegrityTick

(* A step that captures an integrity report is a tick of the loop of the   *)
(* current enabling.                                                       *)
LEMMA CapturedByLoop ==
  ASSUME WindowInv, Next, NEW i \in 1..Len(rs'.buffer),
         rs'.buffer[i].id > rs.emitted, rs'.buffer[i].reason = "integrity"
  PROVE  rs.enabled /\ IntegrityTick(rs.intgStop)
<1>0. Sound(rs) /\ Window(rs) /\ Effect
  BY StepEffect DEF WindowInv, IndInv
<1>n. rs.emitted \in Int /\ \A k \in 1..Len(rs.buffer) : ~(rs.buffer[k].id > rs.emitted)
  BY <1>0, NothingNewer
<1> DEFINE others == {"event", "gi"}
           Only(u) ==
             \A k \in 1..Len(u.buffer) :
               u.buffer[k].id > rs.emitted => u.buffer[k].reason \in others
<1>1. SUFFICES ASSUME ~(Reports("integrity") /\ IntegrityTick(rs.intgStop)) PROVE Only(rs')
  BY DEF Reports
<1>2. ASSUME NEW f, Closes(rs, f) PROVE Only(f) /\ Sound(f) /\ rs.emitted <= f.emitted
  <2>1. Sound(f) /\ rs.emitted <= f.emitted
    BY <1>n, <1>2 DEF Closes
  <2>2. CASE rs.pendVals = NoVals
    BY <1>n, <1>2, <2>1, <2>2 DEF Closes
  <2>3. CASE rs.pendVals # NoVals
    <3>1. Adds(rs, f, "event", rs.pendVals)
      BY <1>2, <2>3, Zenon DEF Closes
    <3>2. "event" \in others /\ rs.emitted <= rs.emitted
      BY <1>n
    <3> HIDE DEF others
    <3> QED BY <1>0, <1>n, <2>1, <3>1, <3>2, AddsOnly, SMTT(30)
  <2> QED BY <2>2, <2>3
<1>3. CASE Idles \/ Purges \/ Enables
  <2>1. rs'.buffer = rs.buffer \/ Len(rs'.buffer) = 0
    BY <1>3, EmptySeq DEF Idles, Purges, Enables
  <2> QED BY <1>n, <2>1
<1>4. CASE Disables
  <2>1. PICK f : Closes(rs, f) /\ rs'.buffer = f.buffer
    BY <1>4 DEF Disables
  <2> QED BY <1>2, <2>1
<1>5. CASE Reports("gi")
  <2>1. PICK f : Closes(rs, f) /\ (rs' = f \/ Adds(f, rs', "gi", All))
    BY <1>5 DEF Reports
  <2>2. Only(f) /\ Sound(f) /\ rs.emitted <= f.emitted /\ "gi" \in others
    BY <1>2, <2>1
  <2> HIDE DEF others
  <2>3. CASE Adds(f, rs', "gi", All)
    BY <1>n, <2>2, <2>3, AddsOnly, SMTT(30)
  <2> QED BY <2>1, <2>2, <2>3
<1>6. CASE Closes(rs, rs')
  BY <1>2, <1>6
<1>7. ASSUME NEW S \in SUBSET Leaves, Captures(S) PROVE Only(rs')
  <2>1. CASE attr.bufTm = 0
    <3>1. Adds(rs, rs', "event", Changed(S))
      BY <1>7, <2>1, Zenon DEF Captures
    <3>2. "event" \in others /\ rs.emitted <= rs.emitted
      BY <1>n
    <3> HIDE DEF others
    <3> QED BY <1>0, <1>n, <3>1, <3>2, AddsOnly, SMTT(30)
  <2>2. CASE attr.bufTm # 0
    <3>1. PICK f : (f = rs \/ Closes(rs, f)) /\ rs'.buffer = f.buffer
      BY <1>7, <2>2 DEF Captures, Joins
    <3>2. Only(f)
      BY <1>2, <1>n, <3>1
    <3> QED BY <3>1, <3>2
  <2> QED BY <2>1, <2>2
<1>8. ASSUME NEW S \in SUBSET Leaves, Ignores(S) PROVE Only(rs')
  BY <1>n, <1>8 DEF Ignores
<1> HIDE DEF Only
<1> QED BY <1>0, <1>1, <1>3, <1>4, <1>5, <1>6, <1>7, <1>8 DEF Effect

(* A loop that returns captures nothing on its way out.                    *)
LEMMA QuietReturn ==
  ASSUME WindowInv, Next PROVE rs.intgLoops \subseteq rs'.intgLoops \/ rs'.emitted = rs.emitted
<1>0. Effect
  BY StepEffect DEF WindowInv
<1>1. CASE Idles \/ Purges \/ Enables
  BY <1>1 DEF Idles, Purges, Enables, SameWindow
<1>2. CASE Disables
  BY <1>2 DEF Disables, Closes
<1>3. ASSUME NEW reason, Reports(reason) PROVE rs.intgLoops \subseteq rs'.intgLoops
  BY <1>3 DEF Reports, Closes, SameWindow
<1>4. CASE Closes(rs, rs')
  BY <1>4 DEF Closes
<1>5. ASSUME NEW S \in SUBSET Leaves, Captures(S) PROVE rs.intgLoops \subseteq rs'.intgLoops
  BY <1>5 DEF Captures, Joins, Closes, SameWindow
<1>6. ASSUME NEW S \in SUBSET Leaves, Ignores(S) PROVE rs.intgLoops \subseteq rs'.intgLoops
  BY <1>6 DEF Ignores
<1> QED BY <1>0, <1>1, <1>2, <1>3, <1>4, <1>5, <1>6 DEF Effect

(* However long a callback waits for the lock, the reservation of an       *)
(* absent client ends by its own timer or its return, and only the loop of *)
(* the current enabling captures integrity reports: the tick of one that   *)
(* was stopped captures nothing, whether or not a newer loop runs          *)
(* (releaseLocked, integrityLoop).                                         *)
THEOREM TimersAreCurrent == Spec => NoStaleTimer
<1> DEFINE P ==
      /\ rv.owner = NoConn /\ rv'.owner = NoConn /\ rv.resvIP # NoIP /\ rv'.resvIP = NoIP
           => rv.resvTimer \in rv.resvCbs \ rv'.resvCbs
      /\ \A i \in 1..Len(rs'.buffer) :
           rs'.buffer[i].id > rs.emitted /\ rs'.buffer[i].reason = "integrity"
             => rs.enabled /\ IntegrityTick(rs.intgStop)
      /\ rs.intgLoops \subseteq rs'.intgLoops \/ rs'.emitted = rs.emitted
<1>1. WindowInv /\ TimedInv /\ [Next]_vars => [P]_vars
  BY FreedByTimer, CapturedByLoop, QuietReturn DEF Frees
<1> QED BY <1>1, WindowInvariant, TimedInvariant, PTL DEF Spec, NoStaleTimer

-----------------------------------------------------------------------------
(* The last thing recorded about a member is its current value, provided   *)
(* data changes trigger reports, and while a window is open the data set   *)
(* stays and BufTm is not cleared: onRCBWrite leaves an open window alone  *)
(* in both cases, and its older value then follows newer reports.          *)

Record(r) == IF Buffered THEN r.buffer ELSE r.sent

Undisturbed == rs.pending # 0 => attr'.datSet = attr.datSet /\ (attr'.bufTm = 0 => attr.bufTm = 0)

Current(r, l, y) == IF r.pendVals[l] # 0 THEN r.pendVals[l] = y ELSE Latest(Record(r), l, y)

CurrentInv ==
  /\ attr.bufTm = 0 => rs.pending = 0
  /\ Buffered \/ rs.enabled => \A l \in attr.datSet : Current(rs, l, leaf[l])

LEMMA EmptyLatest == \A l, y : Latest(<<>>, l, y)
BY EmptySeq DEF Latest

(* A new report brings the record of a member up to date, or leaves it so. *)
LEMMA AddsLatest ==
  ASSUME NEW r, Sound(r), Buffered \/ r.enabled, NEW u, NEW reason, NEW vals,
         Adds(r, u, reason, vals), NEW l, NEW y,
         vals[l] # 0 => vals[l] = y, vals[l] = 0 => Latest(Record(r), l, y)
  PROVE  Latest(Record(u), l, y)
<1>1. Len(r.buffer) \in Nat /\ Len(r.sent) \in Nat
  <2>1. r.buffer \in Seq(Entry) /\ r.sent \in Seq(Report)
    BY DEF Sound, RCBState
  <2> QED BY <2>1, LenProperties
<1>2. CASE Buffered
  <2>1. Grown(r.buffer, u.buffer) /\ u.buffer[Len(u.buffer)].vals = vals
    BY <1>2 DEF Adds
  <2>2. Record(r) = r.buffer /\ Record(u) = u.buffer
    BY <1>2 DEF Record
  <2>3. u.buffer[Len(u.buffer)].vals[l] = vals[l] /\ (vals[l] = 0 => Latest(r.buffer, l, y))
    BY <2>1, <2>2
  <2>4. Latest(u.buffer, l, y)
    BY <1>1, <2>1, <2>3, GrownLatest
  <2> QED BY <2>2, <2>4
<1>3. CASE ~Buffered
  <2>1. /\ Len(u.sent) = Len(r.sent) + 1 /\ u.sent[Len(u.sent)].vals = vals
        /\ \A i \in 1..Len(r.sent) : u.sent[i] = r.sent[i]
    BY <1>3 DEF Adds
  <2>2. Grown(r.sent, u.sent)
    <3>1. \A i \in 1..(Len(u.sent) - 1) :
            i \in 1..Len(r.sent) /\ i + Len(r.sent) + 1 - Len(u.sent) = i
      BY <1>1, <2>1
    <3> QED BY <1>1, <2>1, <3>1 DEF Grown
  <2>3. Record(r) = r.sent /\ Record(u) = u.sent
    BY <1>3 DEF Record
  <2>4. u.sent[Len(u.sent)].vals[l] = vals[l] /\ (vals[l] = 0 => Latest(r.sent, l, y))
    BY <2>1, <2>3
  <2>5. Latest(u.sent, l, y)
    BY <1>1, <2>2, <2>4, GrownLatest
  <2> QED BY <2>3, <2>5
<1> QED BY <1>2, <1>3

LEMMA ClosesLatest ==
  ASSUME NEW r, Sound(r), Buffered \/ r.enabled, NEW u, Closes(r, u), NEW l \in Leaves, NEW y,
         Current(r, l, y)
  PROVE  Latest(Record(u), l, y)
<1>1. CASE r.pendVals = NoVals
  <2>1. r.pendVals[l] = 0 /\ Record(u) = Record(r)
    BY <1>1 DEF NoVals, Closes, Record
  <2> QED BY <2>1 DEF Current
<1>2. CASE r.pendVals # NoVals
  BY <1>2, AddsLatest DEF Closes, Current
<1> QED BY <1>1, <1>2

(* Every step keeps the record current.                                    *)
LEMMA CurrentNext ==
  ASSUME WindowInv, CurrentInv, "dchg" \in attr.trgOps, Next, Undisturbed PROVE CurrentInv'
<1>0. /\ Sound(rs) /\ Window(rs) /\ Effect /\ attr.datSet \subseteq Leaves
      /\ leaf \in [Leaves -> 1..MaxUpdates] /\ now \in 1..MaxUpdates
  BY StepEffect DEF WindowInv, IndInv, TypeOK, Attributes
<1>a. attr'.datSet \subseteq Leaves
  BY NextInv DEF WindowInv, IndInv, TypeOK, Attributes
<1>1. CASE Idles /\ attr'.datSet = attr.datSet /\ UNCHANGED <<leaf, now>>
  <2>1. attr'.bufTm = 0 => rs'.pending = 0
    BY <1>1 DEF Idles, SameWindow, Undisturbed, CurrentInv
  <2>2. Record(rs') = Record(rs) /\ rs'.enabled = rs.enabled /\ rs'.pendVals = rs.pendVals
    BY <1>1 DEF Idles, SameWindow, Record
  <2>3. \A l, y : Current(rs, l, y) <=> Current(rs', l, y)
    BY <2>2 DEF Current
  <2> QED BY <1>1, <2>1, <2>2, <2>3 DEF CurrentInv
<1>2. CASE Purges /\ UNCHANGED <<leaf, now>>
  <2>1. attr'.bufTm = 0 => rs'.pending = 0
    BY <1>2 DEF Purges, SameWindow, Undisturbed, CurrentInv
  <2>2. ASSUME Buffered \/ rs'.enabled, NEW l \in attr'.datSet PROVE Current(rs', l, leaf'[l])
    <3>1. Buffered /\ Record(rs') = <<>> /\ rs'.pendVals = rs.pendVals
      BY <1>2, <2>2 DEF Purges, SameWindow, Record
    <3>2. Latest(Record(rs'), l, leaf'[l])
      BY <3>1, EmptyLatest
    <3>3. CASE rs.pending = 0
      <4>1. rs.pendVals[l] = 0 \/ l \notin Leaves
        BY <1>0, <3>3 DEF Window, NoVals
      <4>2. l \in Leaves
        BY <1>a, <2>2
      <4> QED BY <3>1, <3>2, <4>1, <4>2 DEF Current
    <3>4. CASE rs.pending # 0
      <4>1. l \in attr.datSet /\ leaf' = leaf
        BY <1>2, <2>2, <3>4 DEF Undisturbed
      <4>2. Current(rs, l, leaf[l])
        BY <3>1, <4>1 DEF CurrentInv
      <4> QED BY <3>1, <3>2, <4>1, <4>2 DEF Current
    <3> QED BY <3>3, <3>4
  <2> QED BY <2>1, <2>2 DEF CurrentInv
<1>3. CASE Enables /\ Settled
  <2>1. ASSUME NEW l \in attr.datSet PROVE Current(rs', l, leaf[l])
    <3>1. CASE Buffered
      <4>1. Record(rs') = Record(rs) /\ rs'.pendVals = rs.pendVals
        BY <1>3, <3>1 DEF Enables, Record
      <4> QED BY <2>1, <3>1, <4>1 DEF CurrentInv, Current
    <3>2. CASE ~Buffered
      <4>1. Record(rs') = <<>> /\ rs'.pendVals = NoVals
        BY <1>0, <1>3, <3>2 DEF Enables, Record, Window
      <4> QED BY <1>0, <4>1, EmptyLatest DEF Current, NoVals
    <3> QED BY <3>1, <3>2
  <2> QED BY <1>3, <2>1 DEF Settled, CurrentInv, Enables
<1>c. ASSUME NEW f, Closes(rs, f), Buffered \/ rs.enabled, NEW l \in attr.datSet
      PROVE  Latest(Record(f), l, leaf[l])
  BY <1>0, <1>c, ClosesLatest DEF CurrentInv
<1>z. ASSUME rs'.pendVals = NoVals, UNCHANGED <<attr, leaf>>, rs'.pending = 0,
             Buffered \/ rs'.enabled => \A l \in attr.datSet : Latest(Record(rs'), l, leaf[l])
      PROVE  CurrentInv'
  <2>1. \A l \in attr.datSet : rs'.pendVals[l] = 0
    BY <1>0, <1>z DEF NoVals
  <2> QED BY <1>z, <2>1 DEF CurrentInv, Current
<1>4. CASE Disables /\ Settled
  <2>1. PICK f : /\ Closes(rs, f) /\ rs'.buffer = f.buffer /\ rs'.sent = f.sent
                 /\ rs'.pending = 0 /\ rs'.pendVals = NoVals /\ ~rs'.enabled
    BY <1>4 DEF Disables
  <2>2. Record(rs') = Record(f)
    BY <2>1 DEF Record
  <2> QED BY <1>4, <1>c, <1>z, <2>1, <2>2 DEF Settled
<1>5. ASSUME NEW reason, Reports(reason), Settled PROVE CurrentInv'
  <2>1. PICK f : /\ Closes(rs, f)
                 /\ \/ attr.datSet = NoDataSet /\ rs' = f
                    \/ SameWindow(f, rs') /\ Adds(f, rs', reason, All)
    BY <1>5 DEF Reports
  <2>2. /\ f.pending = 0 /\ f.pendVals = NoVals /\ Sound(f) /\ f.enabled = rs.enabled /\ rs.enabled
    BY <1>5, <2>1 DEF Closes, SameSubscriber, Reports
  <2>3. CASE rs' = f
    BY <1>5, <1>c, <1>z, <2>1, <2>2, <2>3 DEF Settled
  <2>4. CASE SameWindow(f, rs') /\ Adds(f, rs', reason, All)
    <3>1. ASSUME NEW l \in attr.datSet PROVE Latest(Record(rs'), l, leaf[l])
      <4>1. All[l] = leaf[l] /\ All[l] # 0
        BY <1>0 DEF All
      <4> QED BY <2>2, <2>4, <4>1, AddsLatest
    <3> QED BY <1>5, <1>z, <2>2, <2>4, <3>1 DEF Settled, SameWindow
  <2> QED BY <2>1, <2>3, <2>4
<1>6. CASE Closes(rs, rs') /\ Settled
  BY <1>6, <1>c, <1>z DEF Closes, SameSubscriber, Settled
<1>7. ASSUME NEW S \in SUBSET Leaves, Update(S), Captures(S) PROVE CurrentInv'
  <2>0. /\ attr' = attr /\ rs'.enabled = rs.enabled /\ (Buffered \/ rs.enabled)
        /\ leaf' = [l \in Leaves |-> IF l \in S THEN now + 1 ELSE leaf[l]]
        /\ now + 1 # 0
    <3>1. now \in Nat => now + 1 # 0
      OBVIOUS
    <3>2. now \in Nat
      BY <1>0
    <3>3. attr' = attr /\ leaf' = [l \in Leaves |-> IF l \in S THEN now + 1 ELSE leaf[l]]
      BY <1>7 DEF Update
    <3>4. rs'.enabled = rs.enabled /\ (Buffered \/ rs.enabled)
      BY <1>7 DEF Captures
    <3> QED BY <3>1, <3>2, <3>3, <3>4
  <2>1. ASSUME NEW l \in attr.datSet
        PROVE  /\ l \in Leaves
               /\ Changed(S)[l] # 0 => Changed(S)[l] = leaf'[l]
               /\ Changed(S)[l] = 0 => leaf'[l] = leaf[l]
    BY <1>0, <2>0 DEF Changed
  <2>2. CASE attr.bufTm = 0
    <3>1. SameWindow(rs, rs') /\ Adds(rs, rs', "event", Changed(S))
      BY <1>7, <2>2 DEF Captures
    <3>2. rs.pending = 0 /\ rs.pendVals = NoVals
      BY <1>0, <2>2 DEF CurrentInv, Window
    <3>3. ASSUME NEW l \in attr.datSet PROVE Current(rs', l, leaf'[l])
      <4>1. rs.pendVals[l] = 0 /\ rs'.pendVals[l] = 0
        BY <2>1, <3>1, <3>2 DEF SameWindow, NoVals
      <4>2. Latest(Record(rs), l, leaf[l])
        BY <2>0, <4>1 DEF CurrentInv, Current
      <4>3. Latest(Record(rs'), l, leaf'[l])
        <5> DEFINE vals == Changed(S)
                   y == leaf'[l]
        <5>1. (vals[l] # 0 => vals[l] = y) /\ (vals[l] = 0 => Latest(Record(rs), l, y))
          BY <2>1, <4>2
        <5>2. Sound(rs) /\ (Buffered \/ rs.enabled) /\ Adds(rs, rs', "event", vals)
          BY <1>0, <2>0, <3>1
        <5> HIDE DEF vals, y
        <5>3. Latest(Record(rs'), l, y)
          BY <5>1, <5>2, AddsLatest
        <5> QED BY <5>3 DEF y
      <4> QED BY <4>1, <4>3 DEF Current
    <3> QED BY <2>0, <3>1, <3>2, <3>3 DEF CurrentInv, SameWindow
  <2>3. CASE attr.bufTm # 0
    <3>1. PICK f : /\ f = rs \/ Closes(rs, f)
                   /\ rs'.buffer = f.buffer /\ rs'.sent = f.sent
                   /\ rs'.pendVals = Merge(f.pendVals, Changed(S))
      BY <1>7, <2>3 DEF Captures, Joins
    <3>2. Record(rs') = Record(f)
      BY <3>1 DEF Record
    <3>3. ASSUME NEW l \in attr.datSet PROVE Current(rs', l, leaf'[l])
      <4>1. rs'.pendVals[l] = IF Changed(S)[l] # 0 THEN Changed(S)[l] ELSE f.pendVals[l]
        BY <2>1, <3>1 DEF Merge
      <4>2. Current(f, l, leaf[l])
        <5>1. CASE f = rs
          BY <2>0, <5>1 DEF CurrentInv
        <5>2. CASE Closes(rs, f)
          <6>1. f.pendVals[l] = 0
            BY <2>1, <5>2 DEF Closes, NoVals
          <6> QED BY <1>c, <2>0, <5>2, <6>1 DEF Current
        <5> QED BY <3>1, <5>1, <5>2
      <4> QED BY <2>1, <3>2, <4>1, <4>2 DEF Current
    <3> QED BY <2>0, <2>3, <3>3 DEF CurrentInv
  <2> QED BY <2>2, <2>3
<1>8. ASSUME NEW S \in SUBSET Leaves, Update(S), Ignores(S) PROVE CurrentInv'
  <2>1. rs' = rs /\ attr' = attr
    BY <1>8 DEF Update, Ignores
  <2>2. ASSUME Buffered \/ rs.enabled, NEW l \in attr.datSet PROVE Current(rs, l, leaf'[l])
    <3>1. Changed(S) = NoVals /\ now + 1 # 0 /\ l \in Leaves
      BY <1>0, <1>8, <2>2 DEF Ignores
    <3>2. l \notin S
      BY <2>2, <3>1 DEF Changed, NoVals
    <3>3. leaf'[l] = leaf[l]
      BY <1>8, <3>1, <3>2 DEF Update
    <3> QED BY <2>2, <3>3 DEF CurrentInv
  <2> QED BY <2>1, <2>2 DEF CurrentInv
<1> QED BY <1>0, <1>1, <1>2, <1>3, <1>4, <1>5, <1>6, <1>7, <1>8 DEF Effect

(* A current record is what NewestIsCurrent says.                          *)
LEMMA CurrentIsNewest ==
  ASSUME WindowInv, CurrentInv PROVE NewestIsCurrent
<1> SUFFICES ASSUME Buffered \/ rs.enabled, NEW l \in attr.datSet, NEW i \in 1..Len(Recorded),
                    Recorded[i][l] # 0, \A j \in (i + 1)..Len(Recorded) : Recorded[j][l] = 0
             PROVE  Recorded[i][l] = leaf[l]
  BY DEF NewestIsCurrent
<1> DEFINE b == Record(rs)
           v == [k \in 1..Len(b) |-> b[k].vals]
           V == [Leaves -> 0..MaxUpdates]
<1>0. rs \in RCBState /\ rs.pendVals \in V /\ b \in Seq(Entry \cup Report)
  BY SMTT(30) DEF WindowInv, IndInv, TypeOK, RCBState, Record
<1>1. Len(b) \in Nat /\ \A k \in 1..Len(b) : b[k] \in Entry \cup Report
  BY <1>0, LenProperties, ElementOfSeq
<1>2. \A k \in 1..Len(b) : b[k].vals \in V
  BY <1>1 DEF Entry, Report
<1>3. Current(rs, l, leaf[l])
  BY DEF CurrentInv
<1>4. Recorded = v \o <<rs.pendVals>>
  <2>1. CASE Buffered
    BY Zenon, <2>1 DEF Recorded, Record
  <2>2. CASE ~ Buffered
    BY Zenon, <2>2 DEF Recorded, Record
  <2> QED BY Zenon, <2>1, <2>2
<1> HIDE DEF b
<1>5. v \in Seq(V) /\ Len(v) = Len(b)
  <2>1. v \in [1..Len(b) -> V]
    BY <1>2
  <2> HIDE DEF v, V
  <2> QED BY <1>1, <2>1, FunctionIsSeq
<1>6. \A k \in 1..Len(b) : v[k] = b[k].vals
  OBVIOUS
<1> HIDE DEF v, V
<1>7. Recorded = Append(v, rs.pendVals)
  BY <1>0, <1>4, <1>5, AppendIsConcat
<1>8. Len(Recorded) = Len(b) + 1
  BY <1>0, <1>5, <1>7, AppendProperties
<1>9. /\ \A k \in 1..Len(b) : Recorded[k] = b[k].vals
      /\ Recorded[Len(b) + 1] = rs.pendVals
  BY <1>0, <1>5, <1>6, <1>7, AppendProperties
<1>10. CASE i = Len(b) + 1
  BY <1>3, <1>9, <1>10 DEF Current
<1>11. CASE i # Len(b) + 1
  <2>1. i \in 1..Len(b) /\ Len(b) + 1 \in (i + 1)..Len(Recorded)
    BY <1>1, <1>8, <1>11
  <2>2. rs.pendVals[l] = 0
    BY <1>9, <2>1
  <2>3. Latest(b, l, leaf[l])
    BY <1>3, <2>2 DEF Current, b
  <2>4. ASSUME NEW j \in (i + 1)..Len(b) PROVE b[j].vals[l] = 0
    <3>1. j \in (i + 1)..Len(Recorded) /\ j \in 1..Len(b)
      BY <1>1, <1>8, <2>1
    <3> QED BY <1>9, <3>1
  <2> QED BY <1>9, <2>1, <2>3, <2>4 DEF Latest
<1> QED BY <1>10, <1>11

(* As long as data changes trigger reports, and no client changes the data *)
(* set or clears BufTm while a window is open, reports number from zero    *)
(* and the last thing recorded about a member is its current value         *)
(* (eventLocked, flushPendingLocked, reportAllLocked).                     *)
THEOREM RecordIsCurrent ==
  Spec /\ []("dchg" \in attr.trgOps) /\ [][Undisturbed]_vars => []ReportsCurrent
<1>1. Init => CurrentInv
  <2> SUFFICES ASSUME Init PROVE CurrentInv
    OBVIOUS
  <2>1. ASSUME NEW l \in attr.datSet PROVE Current(rs, l, leaf[l])
    <3>1. Record(rs) = <<>> /\ rs.pendVals = NoVals
      BY DEF Init, Record
    <3>2. l \in Leaves
      BY InitInv DEF IndInv, TypeOK, Attributes
    <3> QED BY <3>1, <3>2, EmptyLatest DEF Current, NoVals
  <2> QED BY <2>1, Zenon DEF CurrentInv, Init
<1>2. /\ WindowInv /\ CurrentInv /\ "dchg" \in attr.trgOps
      /\ [Next]_vars /\ [Undisturbed]_vars
      => CurrentInv'
  <2> SUFFICES ASSUME WindowInv, CurrentInv, "dchg" \in attr.trgOps,
                      [Next]_vars, [Undisturbed]_vars
               PROVE  CurrentInv'
    OBVIOUS
  <2>1. CASE UNCHANGED vars
    BY <2>1 DEF vars, CurrentInv, Current, Record
  <2>2. CASE Next /\ Undisturbed
    BY <2>2, CurrentNext
  <2> QED BY <2>1, <2>2
<1>3. WindowInv /\ CurrentInv => NewestIsCurrent
  BY CurrentIsNewest
<1> QED BY <1>1, <1>2, <1>3, WindowInvariant, ReportsNumbered, PTL DEF Spec, ReportsCurrent
=============================================================================
