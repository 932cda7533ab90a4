------------------------- MODULE ReportControlProofs -------------------------
(***************************************************************************)
(* Theorems about ReportControl, for every number of clients, members,     *)
(* timers and updates, every buffer depth and every width of SqNum.        *)
(***************************************************************************)
EXTENDS ReportControl, SequenceTheorems, TLAPS

-----------------------------------------------------------------------------
(* The report buffer.  What the operators of the model preserve is a       *)
(* predicate on the state record: its type, the contiguity of the buffer,  *)
(* and the strengthening of NoSilentGap, that the overflow flag is up      *)
(* whenever the next entry to send is not the one the subscriber expects.  *)

Contiguous(r) ==
  /\ r.next <= Len(r.buffer) /\ Len(r.buffer) <= MaxBuffer
  /\ \A i \in 1..Len(r.buffer) : r.buffer[i].id = r.emitted - Len(r.buffer) + i

NextId(r) == r.emitted - Len(r.buffer) + r.next + 1

Told(r) ==
  /\ Buffered /\ r.due # NextId(r) => r.bufOverflow
  /\ \A k \in 1..Len(r.sent) : r.sent[k].ok /\ r.sent[k].missed => r.sent[k].ovfl

(* The numbering: SqNum counts what the enabling has sent, and everything  *)
(* sent is older than the next entry to send.                              *)
Numbered(r) ==
  /\ r.sqNum = Len(r.sent) % SqMod
  /\ \A k \in 1..Len(r.sent) :
       /\ r.sent[k].sq = (k - 1) % SqMod
       /\ r.sent[k].id < NextId(r)
       /\ k > 1 => r.sent[k].id > r.sent[k - 1].id

Sound(r) ==
  /\ r \in RCBState /\ Contiguous(r) /\ Told(r) /\ Numbered(r)
  /\ ~Buffered => r.buffer = <<>>

(* The fields a report leaves alone, and how many entries it may add.      *)
SameSubscriber(r, u) == u.enabled = r.enabled /\ u.conn = r.conn

(* Arithmetic of the sequence numbers.                                     *)
LEMMA RemainderUnique ==
  ASSUME NEW M \in Nat \ {0}, NEW q \in Int, NEW s \in 0..(M - 1), NEW x \in Int, x = q * M + s
  PROVE  x % M = s
OBVIOUS

LEMMA QuotientRemainder ==
  ASSUME NEW M \in Nat \ {0}, NEW x \in Int
  PROVE  x % M \in 0..(M - 1) /\ x \div M \in Int /\ x = (x \div M) * M + (x % M)
OBVIOUS

(* Reducing before adding makes no difference.                             *)
LEMMA SumRemainder ==
  ASSUME NEW M \in Nat \ {0}, NEW a \in Nat, NEW b \in Nat
  PROVE  ((a % M) + b) % M = (a + b) % M
<1> DEFINE qa == a \div M
           ra == a % M
           qb == (ra + b) \div M
           s == (ra + b) % M
           q == qa + qb
           x == a + b
<1>1. ra \in 0..(M - 1) /\ qa \in Int /\ a = qa * M + ra
  BY QuotientRemainder
<1> HIDE DEF ra, qa
<1>2. ra + b \in Int
  BY <1>1
<1>3. s \in 0..(M - 1) /\ qb \in Int /\ ra + b = qb * M + s
  BY <1>2, QuotientRemainder, Zenon
<1> HIDE DEF qb, s
<1>4. x \in Int /\ q \in Int /\ x = q * M + s
  BY <1>1, <1>3
<1> HIDE DEF x, q
<1>5. x % M = s
  BY <1>3, <1>4, RemainderUnique
<1> QED BY <1>5 DEF s, ra, x

(* A transmitted report is a Report.                                       *)
LEMMA ReportType ==
  ASSUME NEW e \in Entry, NEW sq \in 0..(SqMod - 1), NEW ovfl \in BOOLEAN, NEW due, NEW acc
  PROVE  Transmission(e, sq, ovfl, due, acc) \in Report
<1> DEFINE m == due # e.id
           k == e.id \in acc
<1>1. m \in BOOLEAN /\ k \in BOOLEAN
  OBVIOUS
<1>2. e.id \in 1..MaxEmitted /\ e.vals \in [Leaves -> 0..MaxUpdates] /\ e.conf \in 0..MaxConfRev
  BY DEF Entry
<1>3. Transmission(e, sq, ovfl, due, acc) =
        [id |-> e.id, vals |-> e.vals, conf |-> e.conf, sq |-> sq, ovfl |-> ovfl,
         missed |-> m, ok |-> k]
  BY DEF Transmission
<1> HIDE DEF m, k
<1> QED BY <1>1, <1>2, <1>3 DEF Report

(* transmitLocked of a URCB keeps the record sound.                        *)
LEMMA TransmitOneSound ==
  ASSUME NEW r, Sound(r), ~Buffered, NEW e \in Entry, e.id = r.emitted,
         \A k \in 1..Len(r.sent) : r.sent[k].id < e.id, NEW acc
  PROVE  /\ Sound(TransmitOne(r, e, acc))
         /\ SameSubscriber(r, TransmitOne(r, e, acc))
         /\ TransmitOne(r, e, acc).emitted = r.emitted
<1> DEFINE t == Transmission(e, r.sqNum, FALSE, e.id, acc)
           sq == (r.sqNum + 1) % SqMod
           d == e.id + 1
           s == Append(r.sent, t)
           u == [r EXCEPT !.sqNum = sq, !.due = d, !.sent = s]
<1>0. r \in RCBState /\ r.sent \in Seq(Report) /\ r.sqNum \in 0..(SqMod - 1)
  BY DEF Sound, RCBState
<1>1. t \in Report
  BY <1>0, ReportType, Zenon
<1>m. ~t.missed /\ t.id = e.id /\ t.sq = r.sqNum
  BY Zenon DEF Transmission
<1>l. Len(r.sent) \in Nat /\ r.sqNum = Len(r.sent) % SqMod
  BY <1>0, LenProperties DEF Sound, Numbered
<1>n. sq = (Len(r.sent) + 1) % SqMod
  BY <1>l, SumRemainder, RCBAssumption, Zenon
<1>2. sq \in 0..(SqMod - 1)
  BY <1>0, RCBAssumption
<1>4. d \in 1..(MaxEmitted + 1)
  BY RCBAssumption DEF Entry
<1>5. TransmitOne(r, e, acc) = u
  BY DEF TransmitOne
<1> HIDE DEF t, sq, d
<1>3. /\ s \in Seq(Report)
      /\ Len(s) = Len(r.sent) + 1
      /\ \A i \in 1..Len(r.sent) : s[i] = r.sent[i]
      /\ s[Len(r.sent) + 1] = t
  BY <1>0, <1>1, AppendProperties
<1> HIDE DEF s
<1>6. u \in RCBState
  BY <1>0, <1>2, <1>3, <1>4, Zenon DEF RCBState
<1>7. /\ u.buffer = r.buffer /\ u.next = r.next /\ u.emitted = r.emitted
      /\ u.sent = s /\ u.sqNum = sq /\ SameSubscriber(r, u)
  BY <1>0 DEF RCBState, SameSubscriber
<1>8. Contiguous(u)
  BY <1>7 DEF Sound, Contiguous
<1>9. Told(u)
  <2>1. SUFFICES ASSUME NEW k \in 1..Len(s) PROVE s[k].ok /\ s[k].missed => s[k].ovfl
    BY <1>7 DEF Told
  <2>2. CASE k \in 1..Len(r.sent)
    BY <2>2, <1>3 DEF Sound, Told
  <2>3. CASE k = Len(r.sent) + 1
    BY <2>3, <1>3, <1>m
  <2> QED BY <2>2, <2>3, <1>l, <1>3
<1>10. Numbered(u)
  <2>1. NextId(u) = NextId(r) /\ e.id < NextId(r)
    <3>1. /\ Len(r.buffer) = 0 /\ r.next \in Nat /\ r.emitted \in Nat
      BY <1>0, EmptySeq DEF Sound, RCBState
    <3> QED BY <3>1, <1>7 DEF NextId
  <2>2. ASSUME NEW k \in 1..Len(s)
        PROVE  /\ s[k].sq = (k - 1) % SqMod
               /\ s[k].id < NextId(u)
               /\ k > 1 => s[k].id > s[k - 1].id
    <3>1. CASE k \in 1..Len(r.sent)
      <4>1. s[k] = r.sent[k] /\ (k > 1 => s[k - 1] = r.sent[k - 1])
        BY <3>1, <1>3, <1>l
      <4> QED BY <3>1, <4>1, <2>1 DEF Sound, Numbered
    <3>2. CASE k = Len(r.sent) + 1
      <4>1. s[k] = t /\ k - 1 = Len(r.sent) /\ (k > 1 => s[k - 1] = r.sent[k - 1])
        BY <3>2, <1>3, <1>l
      <4>2. k > 1 => r.sent[k - 1].id < e.id
        BY <3>2, <1>l
      <4>3. k > 1 => r.sent[k - 1].id \in Nat
        <5>1. k > 1 => r.sent[k - 1] \in Report
          BY <3>2, <1>l, <1>0, ElementOfSeq
        <5> QED BY <5>1, SMTT(30) DEF Report
      <4>4. e.id \in Nat
        BY DEF Entry
      <4> QED BY <4>1, <4>2, <4>3, <4>4, <2>1, <1>m, <1>l
    <3> QED BY <3>1, <3>2, <1>3, <1>l
  <2> QED BY <2>2, <1>3, <1>7, <1>n DEF Numbered
<1> QED BY <1>5, <1>6, <1>7, <1>8, <1>9, <1>10 DEF Sound

(* A function on 1..n is a sequence of length n.                           *)
LEMMA FunctionIsSeq ==
  ASSUME NEW S, NEW m \in Nat, NEW q \in [1..m -> S]
  PROVE  q \in Seq(S) /\ Len(q) = m
<1>1. q \in Seq(S)
  BY SeqDef
<1> QED BY <1>1, LenProperties

(* transmitBufferedLocked keeps the record sound: the flag a refusal       *)
(* raises covers the gap it makes.                                         *)
LEMMA TransmitBufferedSound ==
  ASSUME NEW r, Sound(r), Buffered, NEW acc
  PROVE  /\ Sound(TransmitBuffered(r, acc))
         /\ SameSubscriber(r, TransmitBuffered(r, acc))
         /\ TransmitBuffered(r, acc).emitted = r.emitted
<1> DEFINE n == Len(r.buffer)
           m == n - r.next
           refused(k) == r.buffer[k].id \notin acc
           after(k) == IF refused(k) THEN r.buffer[k].id ELSE r.buffer[k].id + 1
           ovfl(k) == IF k = 1 THEN r.bufOverflow ELSE refused(r.next + k - 1)
           due(k) == IF k = 1 THEN r.due ELSE after(r.next + k - 1)
           q == [k \in 1..m |-> Transmission(r.buffer[r.next + k], (r.sqNum + k - 1) % SqMod,
                                             ovfl(k), due(k), acc)]
           sq == (r.sqNum + m) % SqMod
           s == r.sent \o q
           b == refused(n)
           d == after(n)
           u == [r EXCEPT !.next = n, !.sqNum = sq, !.bufOverflow = b, !.due = d, !.sent = s]
<1>0. /\ r \in RCBState /\ r.sent \in Seq(Report) /\ r.sqNum \in 0..(SqMod - 1)
      /\ r.buffer \in Seq(Entry) /\ r.next \in Nat /\ r.bufOverflow \in BOOLEAN
      /\ r.emitted \in 0..MaxEmitted
  BY DEF Sound, RCBState
<1>1. n \in Nat /\ m \in Nat /\ m = n - r.next /\ r.next \in Nat
  BY <1>0, LenProperties DEF Sound, Contiguous
<1>e. \A k \in 1..n : r.buffer[k] \in Entry
  BY <1>0, ElementOfSeq
<1>i. \A k \in 1..n : r.buffer[k].id = r.emitted - n + k
  BY DEF Sound, Contiguous
<1> HIDE DEF n, m
<1>2. CASE m = 0
  BY <1>2 DEF TransmitBuffered, SameSubscriber, n, m
<1>3. CASE m # 0
  <2>1. TransmitBuffered(r, acc) = u
    BY <1>3 DEF TransmitBuffered, n, m
  <2>2. \A k \in 1..m : Transmission(r.buffer[r.next + k], (r.sqNum + k - 1) % SqMod,
                                      ovfl(k), due(k), acc) \in Report
    <3> SUFFICES ASSUME NEW k \in 1..m
                 PROVE  Transmission(r.buffer[r.next + k], (r.sqNum + k - 1) % SqMod,
                                     ovfl(k), due(k), acc) \in Report
      OBVIOUS
    <3>0. r.next + k \in 1..n
      BY <1>1
    <3>1. r.buffer[r.next + k] \in Entry
      BY <3>0, <1>e
    <3>2. (r.sqNum + k - 1) % SqMod \in 0..(SqMod - 1)
      <4>1. r.sqNum + k - 1 \in Nat /\ SqMod \in Nat \ {0}
        BY <1>0, <1>1, RCBAssumption, SMTT(30)
      <4> QED BY <4>1
    <3>3. ovfl(k) \in BOOLEAN
      BY <1>0, Zenon
    <3> HIDE DEF ovfl, due
    <3> QED BY <3>1, <3>2, <3>3, ReportType
  <2>3. q \in Seq(Report) /\ Len(q) = m
    <3>1. q \in [1..m -> Report]
      BY <2>2
    <3> HIDE DEF q
    <3> QED BY <3>1, <1>1, FunctionIsSeq, SMTT(30)
  <2>4. ASSUME NEW k \in 1..m PROVE q[k].missed => q[k].ovfl
    <3>1. q[k].missed = (due(k) # r.buffer[r.next + k].id) /\ q[k].ovfl = ovfl(k)
      BY DEF Transmission
    <3>0. r.next + k \in 1..n /\ r.emitted \in Int
      BY <1>0, <1>1, SMTT(30)
    <3>2. r.buffer[r.next + k].id = r.emitted - n + r.next + k
      BY <3>0, <1>i, <1>1
    <3>3. CASE k = 1
      <4>1. NextId(r) = r.buffer[r.next + k].id
        BY <3>2, <3>3, <1>0, <1>1 DEF NextId, n
      <4> QED BY <3>1, <3>3, <4>1, Zenon DEF Sound, Told
    <3>4. CASE k # 1
      <4>1. r.next + k - 1 \in 1..n
        BY <3>4, <1>1
      <4>2. r.buffer[r.next + k - 1].id = r.emitted - n + (r.next + k - 1)
        BY <4>1, <1>i
      <4>3. r.buffer[r.next + k].id = r.buffer[r.next + k - 1].id + 1
        BY <3>0, <3>2, <4>2, <1>1
      <4>4. ~refused(r.next + k - 1) => due(k) = r.buffer[r.next + k].id
        BY <3>4, <4>3
      <4> QED BY <3>1, <3>4, <4>4
    <3> QED BY <3>3, <3>4
  <2>5. sq \in 0..(SqMod - 1)
    <3>1. r.sqNum + m \in Nat /\ SqMod \in Nat \ {0}
      BY <1>0, <1>1, RCBAssumption, SMTT(30)
    <3> QED BY <3>1
  <2>6. n \in 1..n /\ r.buffer[n].id = r.emitted /\ r.buffer[n].id \in 1..MaxEmitted
    <3>1. n \in 1..n /\ r.emitted \in Int
      BY <1>0, <1>1, <1>3
    <3>2. r.buffer[n].id = r.emitted - n + n /\ r.buffer[n] \in Entry
      BY <3>1, <1>i, <1>e
    <3> QED BY <3>1, <3>2, <1>1 DEF Entry
  <2>7. d \in 1..(MaxEmitted + 1) /\ (d # r.emitted + 1 => b) /\ b \in BOOLEAN
    BY <2>6, <1>0, RCBAssumption, SMTT(30)
  <2> HIDE DEF q, sq, b, d
  <2>8. /\ s \in Seq(Report)
        /\ Len(s) = Len(r.sent) + m
        /\ \A i \in 1..Len(r.sent) + m :
             s[i] = IF i <= Len(r.sent) THEN r.sent[i] ELSE q[i - Len(r.sent)]
    BY <1>0, <2>3, ConcatProperties, Zenon
  <2> HIDE DEF s
  <2>9. u \in RCBState
    BY <1>0, <1>1, <2>5, <2>7, <2>8, Zenon DEF RCBState
  <2>10. /\ u.buffer = r.buffer /\ u.next = n /\ u.emitted = r.emitted
         /\ u.sent = s /\ u.sqNum = sq /\ u.due = d /\ u.bufOverflow = b /\ SameSubscriber(r, u)
    BY <1>0 DEF RCBState, SameSubscriber
  <2>11. Contiguous(u)
    BY <2>10, <1>0, <1>1 DEF Sound, Contiguous, n
  <2>12. Told(u)
    <3>1. ASSUME NEW k \in 1..Len(s) PROVE s[k].ok /\ s[k].missed => s[k].ovfl
      <4>1. Len(r.sent) \in Nat
        BY <1>0, LenProperties
      <4>2. CASE k <= Len(r.sent)
        BY <4>1, <4>2, <2>8, <1>1, SMTT(30) DEF Sound, Told
      <4>3. CASE ~(k <= Len(r.sent))
        <5>1. k - Len(r.sent) \in 1..m /\ k \in 1..Len(r.sent) + m
          BY <4>1, <4>3, <2>8, <1>1, SMTT(30)
        <5>2. s[k] = q[k - Len(r.sent)]
          BY <4>3, <5>1, <2>8
        <5> QED BY <5>1, <5>2, <2>4
      <4> QED BY <4>2, <4>3
    <3>2. NextId(u) = r.emitted + 1
      BY <2>10, <1>0, <1>1 DEF NextId, n
    <3> QED BY <3>1, <3>2, <2>7, <2>10 DEF Told
  <2>13. Numbered(u)
    <3> DEFINE z == Len(r.sent)
    <3>0. z \in Nat /\ r.sqNum = z % SqMod /\ SqMod \in Nat \ {0}
      BY <1>0, LenProperties, RCBAssumption DEF Sound, Numbered
    <3>1. NextId(u) = r.emitted + 1 /\ NextId(r) = r.emitted - n + r.next + 1
      BY <2>10, <1>0, <1>1 DEF NextId, n
    <3>2. NextId(r) \in Int /\ NextId(u) \in Int /\ NextId(r) <= NextId(u)
      BY <3>1, <1>0, <1>1, SMTT(30)
    <3>3. sq = (z + m) % SqMod
      <4> HIDE DEF z
      <4>1. ((z % SqMod) + m) % SqMod = (z + m) % SqMod
        BY <3>0, <1>1, SumRemainder, Zenon
      <4> QED BY <3>0, <4>1 DEF sq
    <3>4. ASSUME NEW j \in 1..m
          PROVE  q[j].id = NextId(r) + j - 1 /\ q[j].sq = (z + j - 1) % SqMod
      <4>1. q[j].id = r.buffer[r.next + j].id /\ q[j].sq = (r.sqNum + j - 1) % SqMod
        BY DEF q, Transmission
      <4>2. r.next + j \in 1..n /\ r.emitted \in Int
        BY <1>0, <1>1
      <4>3. r.buffer[r.next + j].id = r.emitted - n + (r.next + j)
        BY <4>2, <1>i
      <4>4. j - 1 \in Nat
        BY <1>1
      <4>5. (r.sqNum + (j - 1)) % SqMod = (z + (j - 1)) % SqMod
        BY <3>0, <4>4, SumRemainder, Zenon
      <4>6. r.sqNum + (j - 1) = r.sqNum + j - 1 /\ z + (j - 1) = z + j - 1
        BY <1>0, <1>1, <3>0
      <4>7. r.next \in Int /\ n \in Int /\ j \in Int
        BY <1>0, <1>1
      <4>8. q[j].id = NextId(r) + j - 1
        <5>1. q[j].id = r.emitted - n + (r.next + j)
          BY <4>1, <4>3
        <5> HIDE DEF q, n
        <5> QED BY <3>1, <4>2, <4>7, <5>1
      <4>9. q[j].sq = (z + j - 1) % SqMod
        BY <4>1, <4>5, <4>6
      <4> QED BY <4>8, <4>9
    <3> HIDE DEF z
    <3>5. /\ Len(s) = z + m
          /\ \A k \in 1..z : s[k] = r.sent[k] /\ s[k].id \in Int
          /\ \A j \in 1..m : s[z + j] = q[j]
      <4>1. Len(s) = z + m /\ \A k \in 1..z : s[k] = r.sent[k]
        BY <3>0, <1>1, <2>8, SMTT(30) DEF z
      <4>2. \A j \in 1..m : s[z + j] = q[j]
        <5> TAKE j \in 1..m
        <5>1. z + j \in 1..z + m /\ ~(z + j <= z) /\ z + j - z = j
          BY <3>0, <1>1
        <5> QED BY <5>1, <2>8 DEF z
      <4>3. \A k \in 1..z : r.sent[k] \in Report
        BY <1>0, ElementOfSeq DEF z
      <4>4. \A k \in 1..z : r.sent[k].id \in Int
        BY <4>3 DEF Report
      <4> QED BY <4>1, <4>2, <4>4
    <3>6. ASSUME NEW k \in 1..z
          PROVE  /\ s[k].sq = (k - 1) % SqMod
                 /\ s[k].id < NextId(r)
                 /\ k > 1 => s[k].id > s[k - 1].id
      <4>1. s[k] = r.sent[k] /\ (k > 1 => s[k - 1] = r.sent[k - 1])
        BY <3>0, <3>5
      <4> QED BY <4>1 DEF Sound, Numbered, z
    <3>7. ASSUME NEW k \in 1..Len(s)
          PROVE  /\ s[k].sq = (k - 1) % SqMod
                 /\ s[k].id < NextId(u)
                 /\ k > 1 => s[k].id > s[k - 1].id
      <4>1. CASE k \in 1..z
        BY <4>1, <3>2, <3>5, <3>6
      <4>2. CASE k \notin 1..z
        <5> DEFINE j == k - z
        <5>1. j \in 1..m /\ k = z + j /\ z + j - 1 = k - 1
          <6>1. z \in Nat /\ m \in Nat /\ Len(s) = z + m
            BY <3>0, <3>5, <1>1
          <6> HIDE DEF s, m
          <6>2. k \in 1..(z + m) /\ k \notin 1..z
            BY <4>2, <6>1
          <6> QED BY <6>1, <6>2
        <5> HIDE DEF j
        <5>2. s[k].id = NextId(r) + j - 1 /\ s[k].sq = (k - 1) % SqMod
          <6>1. s[k] = q[j]
            BY <5>1, <3>5
          <6>2. q[j].id = NextId(r) + j - 1 /\ q[j].sq = (z + j - 1) % SqMod
            BY <5>1, <3>4
          <6>3. (z + j - 1) % SqMod = (k - 1) % SqMod
            BY <5>1
          <6> DEFINE num == (k - 1) % SqMod
                     id == NextId(r) + j - 1
          <6>4. s[k] = q[j] /\ q[j].id = id /\ q[j].sq = num
            BY <6>1, <6>2, <6>3
          <6> HIDE DEF num, id
          <6>5. s[k].id = id /\ s[k].sq = num
            BY <6>4
          <6> QED BY <6>5 DEF num, id
        <5>3. s[k].id < NextId(u)
          <6> DEFINE x == s[k].id
                     y == NextId(u)
                     w == NextId(r)
                     e == r.emitted
                     p == r.next
          <6>1. x = w + j - 1 /\ y = e + 1 /\ w = e - n + p + 1
            BY <5>2, <3>1
          <6>2. j \in 1..m /\ m \in Nat /\ e \in Int /\ p \in Int /\ n \in Int /\ m = n - p
            BY <5>1, <1>0, <1>1
          <6> HIDE DEF x, y, w, e, p
          <6>3. x < y
            BY <6>1, <6>2
          <6> QED BY <6>3 DEF x, y
        <5>4. CASE j = 1
          <6>1. k > 1 => k - 1 \in 1..z
            BY <5>1, <5>4, <3>0
          <6>2. k > 1 => s[k - 1].id < NextId(r)
            BY <6>1, <3>6
          <6> QED BY <5>2, <5>3, <5>4, <6>1, <6>2, <3>2, <3>5
        <5>5. CASE j # 1
          <6>1. j - 1 \in 1..m /\ k - 1 = z + (j - 1)
            BY <5>1, <5>5, <3>0, <1>1
          <6>2. s[k - 1].id = NextId(r) + (j - 1) - 1
            BY <6>1, <3>4, <3>5
          <6> QED BY <5>1, <5>2, <5>3, <6>2, <3>2
        <5> QED BY <5>4, <5>5
      <4> QED BY <4>1, <4>2
    <3> QED BY <3>3, <3>5, <3>7, <2>10 DEF Numbered
  <2> QED BY <2>1, <2>9, <2>10, <2>11, <2>12, <2>13 DEF Sound
<1> QED BY <1>2, <1>3

(* Discarding the oldest entry past MaxBuffer moves next with it, and      *)
(* raises the flag if the entry was unsent.                                *)
LEMMA TrimmedSound ==
  ASSUME NEW r, Sound(r), Buffered, NEW e \in Entry, e.id = r.emitted + 1,
         r.emitted < MaxEmitted
  PROVE  LET u == Trimmed([r EXCEPT !.emitted = @ + 1, !.buffer = Append(@, e)])
         IN Sound(u) /\ SameSubscriber(r, u) /\ u.emitted = r.emitted + 1
<1> DEFINE n == Len(r.buffer)
           b == Append(r.buffer, e)
           a == [r EXCEPT !.emitted = r.emitted + 1, !.buffer = b]
           c == Tail(b)
           x == IF r.next > 0 THEN r.next - 1 ELSE r.next
           o == r.bufOverflow \/ r.next = 0
           u == [a EXCEPT !.buffer = c, !.next = x, !.bufOverflow = o]
<1>0. /\ r \in RCBState /\ r.buffer \in Seq(Entry) /\ r.next \in Nat
      /\ r.emitted \in 0..MaxEmitted /\ r.bufOverflow \in BOOLEAN
  BY DEF Sound, RCBState
<1>1. n \in Nat /\ r.next <= n /\ n <= MaxBuffer /\ MaxBuffer \in Nat \ {0}
  BY <1>0, LenProperties, RCBAssumption DEF Sound, Contiguous
<1>i. \A i \in 1..n : r.buffer[i].id = r.emitted - n + i
  BY DEF Sound, Contiguous
<1> HIDE DEF n
<1>2. /\ b \in Seq(Entry) /\ Len(b) = n + 1 /\ b # <<>>
      /\ \A i \in 1..n : b[i] = r.buffer[i]
      /\ b[n + 1] = e
  BY <1>0, AppendProperties DEF n
<1> HIDE DEF b
<1>3. \A i \in 1..(n + 1) : b[i].id = r.emitted - n + i
  <2> TAKE i \in 1..(n + 1)
  <2>1. CASE i \in 1..n
    BY <2>1, <1>2, <1>i
  <2>2. CASE i = n + 1
    <3>1. b[i].id = r.emitted + 1
      BY <2>2, <1>2
    <3>2. r.emitted \in Int /\ n \in Int
      BY <1>0, <1>1
    <3> QED BY <3>1, <3>2, <2>2
  <2> QED BY <2>1, <2>2, <1>1
<1>4. /\ c \in Seq(Entry) /\ Len(c) = n
      /\ \A i \in 1..n : c[i] = b[i + 1]
  <2>1. /\ c \in Seq(Entry) /\ Len(c) = Len(b) - 1
        /\ \A i \in 1..Len(c) : c[i] = b[i + 1]
    BY <1>2, HeadTailProperties
  <2>2. Len(c) = n
    BY <2>1, <1>1, <1>2
  <2> QED BY <2>1, <2>2
<1>5. x \in Nat /\ o \in BOOLEAN /\ r.emitted + 1 \in 0..MaxEmitted
  BY <1>0, RCBAssumption
<1> HIDE DEF c, x, o
<1>6. a \in RCBState /\ u \in RCBState
  BY <1>0, <1>2, <1>4, <1>5, Zenon DEF RCBState
<1>7. /\ a.buffer = b /\ a.next = r.next /\ a.emitted = r.emitted + 1 /\ a.sent = r.sent
      /\ a.sqNum = r.sqNum /\ a.due = r.due /\ a.bufOverflow = r.bufOverflow
      /\ SameSubscriber(r, a)
  BY <1>0 DEF RCBState, SameSubscriber
<1>8. /\ u.buffer = c /\ u.next = x /\ u.emitted = r.emitted + 1 /\ u.sent = r.sent
      /\ u.sqNum = r.sqNum /\ u.due = r.due /\ u.bufOverflow = o /\ SameSubscriber(r, u)
  BY <1>0 DEF RCBState, SameSubscriber
<1>9. [r EXCEPT !.emitted = @ + 1, !.buffer = Append(@, e)] = a
  BY <1>0 DEF b, RCBState
<1>10. CASE n + 1 <= MaxBuffer
  <2>1. Trimmed(a) = a
    BY <1>10, <1>2, <1>7 DEF Trimmed
  <2>2. Contiguous(a)
    <3>1. r.next <= n + 1 /\ r.emitted \in Int /\ n \in Int /\ r.next \in Int
      BY <1>0, <1>1
    <3>2. \A i \in 1..(n + 1) : b[i].id = (r.emitted + 1) - (n + 1) + i
      BY <3>1, <1>3
    <3> QED BY <3>1, <3>2, <1>2, <1>7, <1>10 DEF Contiguous
  <2>3. NextId(a) = NextId(r)
    <3>1. r.emitted \in Int /\ n \in Int /\ r.next \in Int
      BY <1>0, <1>1
    <3>2. NextId(a) = (r.emitted + 1) - (n + 1) + r.next + 1
      BY <1>2, <1>7 DEF NextId
    <3>3. NextId(r) = r.emitted - n + r.next + 1
      BY DEF NextId, n
    <3> QED BY <3>1, <3>2, <3>3
  <2> QED BY <2>1, <2>2, <2>3, <1>6, <1>7, <1>9, Zenon DEF Sound, Told, Numbered
<1>11. CASE ~(n + 1 <= MaxBuffer)
  <2>1. Trimmed(a) = u
    BY <1>11, <1>2, <1>7 DEF Trimmed, c, x, o
  <2>2. n = MaxBuffer
    BY <1>1, <1>11
  <2>3. \A i \in 1..n : c[i].id = (r.emitted + 1) - n + i
    <3> TAKE i \in 1..n
    <3>1. i + 1 \in 1..(n + 1) /\ r.emitted \in Int
      BY <1>0, <1>1
    <3>2. c[i].id = r.emitted - n + (i + 1)
      BY <3>1, <1>3, <1>4
    <3> QED BY <3>1, <3>2, <1>1
  <2>4. x <= n
    BY <1>1, <1>0 DEF x
  <2>5. Contiguous(u)
    BY <1>4, <1>8, <2>2, <2>3, <2>4 DEF Contiguous
  <2>6. r.next > 0 => NextId(u) = NextId(r)
    BY <1>0, <1>1, <1>4, <1>8, SMTT(30) DEF NextId, n, x
  <2>7. r.next = 0 => u.bufOverflow
    BY <1>8, Zenon DEF o
  <2>8. r.bufOverflow => u.bufOverflow
    BY <1>8, Zenon DEF o
  <2>9. Told(u)
    BY <1>0, <1>8, <2>6, <2>7, <2>8 DEF Sound, Told
  <2>10. NextId(r) <= NextId(u) /\ NextId(r) \in Int /\ NextId(u) \in Int
    <3>1. NextId(r) = r.emitted - n + r.next + 1
      BY DEF NextId, n
    <3>2. NextId(u) = (r.emitted + 1) - n + x + 1
      BY <1>4, <1>8 DEF NextId
    <3>3. x \in Int /\ x + 1 >= r.next /\ r.next \in Int /\ r.emitted \in Int
      BY <1>0, <1>5 DEF x
    <3> QED BY <3>1, <3>2, <3>3, <1>1
  <2>11. \A k \in 1..Len(r.sent) : r.sent[k].id \in Int
    <3>1. r.sent \in Seq(Report)
      BY <1>0 DEF RCBState
    <3>2. \A k \in 1..Len(r.sent) : r.sent[k] \in Report
      BY <3>1, ElementOfSeq
    <3> QED BY <3>2 DEF Report
  <2>12. \A k \in 1..Len(r.sent) : r.sent[k].id < NextId(u)
    <3> TAKE k \in 1..Len(r.sent)
    <3>1. r.sent[k].id < NextId(r)
      BY DEF Sound, Numbered
    <3> QED BY <3>1, <2>10, <2>11
  <2>13. Numbered(u)
    BY <1>8, <2>12 DEF Sound, Numbered
  <2> QED BY <2>1, <2>5, <2>9, <2>13, <1>6, <1>8, <1>9, Zenon DEF Sound
<1> QED BY <1>10, <1>11

Vals == [Leaves -> 0..MaxUpdates]
Reasons == {"event", "gi", "integrity"}

(* emitLocked keeps the record sound and counts one entry.                 *)
LEMMA EmitSound ==
  ASSUME NEW r, Sound(r), r.emitted < MaxEmitted,
         NEW reason \in Reasons, NEW conf \in 0..MaxConfRev, NEW vals \in Vals, NEW acc
  PROVE  LET u == Emit(r, reason, conf, vals, acc)
         IN Sound(u) /\ SameSubscriber(r, u) /\ u.emitted = r.emitted + 1
<1> DEFINE e == [id |-> r.emitted + 1, reason |-> reason, conf |-> conf, vals |-> vals]
           n == r.emitted + 1
           s == [r EXCEPT !.emitted = n]
           b == Trimmed([r EXCEPT !.emitted = @ + 1, !.buffer = Append(@, e)])
<1>0. r \in RCBState /\ r.emitted \in 0..MaxEmitted
  BY DEF Sound, RCBState
<1>n. n \in 1..MaxEmitted /\ n \in 0..MaxEmitted
  BY <1>0, RCBAssumption
<1>1. e \in Entry /\ e.id = r.emitted + 1
  BY <1>n DEF Entry, Reasons, Vals
<1> HIDE DEF e
<1>2. CASE Buffered
  <2>1. Sound(b) /\ SameSubscriber(r, b) /\ b.emitted = r.emitted + 1
    BY <1>1, <1>2, TrimmedSound
  <2>2. Trimmed([[r EXCEPT !.emitted = @ + 1] EXCEPT !.buffer = Append(@, e)]) = b
    BY <1>0 DEF RCBState
  <2>3. Emit(r, reason, conf, vals, acc) = IF r.enabled THEN TransmitBuffered(b, acc) ELSE b
    BY <1>2, <2>2 DEF Emit, e
  <2> HIDE DEF b
  <2>4. /\ Sound(TransmitBuffered(b, acc))
        /\ SameSubscriber(b, TransmitBuffered(b, acc))
        /\ TransmitBuffered(b, acc).emitted = b.emitted
    BY <1>2, <2>1, TransmitBufferedSound
  <2> QED BY <2>1, <2>3, <2>4 DEF SameSubscriber
<1>3. CASE ~Buffered
  <2>1. /\ s \in RCBState /\ s.buffer = r.buffer /\ s.next = r.next /\ s.sent = r.sent
        /\ s.sqNum = r.sqNum /\ s.emitted = n /\ SameSubscriber(r, s)
    <3> HIDE DEF n
    <3> QED BY <1>0, <1>n, Zenon DEF RCBState, SameSubscriber
  <2>2. r.buffer = <<>> /\ Len(r.buffer) = 0 /\ r.next = 0
    <3>1. r.buffer = <<>> /\ Len(r.buffer) = 0
      BY <1>3, EmptySeq DEF Sound
    <3> QED BY <3>1, <1>0 DEF Sound, Contiguous, RCBState
  <2>a. /\ NextId(r) = r.emitted + 1 /\ NextId(s) = r.emitted + 2
        /\ \A k \in 1..Len(r.sent) : r.sent[k].id \in Int
    <3>1. r.sent \in Seq(Report)
      BY <1>0 DEF RCBState
    <3>2. \A k \in 1..Len(r.sent) : r.sent[k] \in Report
      BY <3>1, ElementOfSeq
    <3>3. NextId(r) = r.emitted + 1 /\ NextId(s) = r.emitted + 2
      BY <1>0, <2>1, <2>2 DEF NextId
    <3> QED BY <3>2, <3>3 DEF Report
  <2>b. \A k \in 1..Len(r.sent) : r.sent[k].id < r.emitted + 1 /\ r.sent[k].id < r.emitted + 2
    <3> TAKE k \in 1..Len(r.sent)
    <3>1. r.sent[k].id < r.emitted + 1
      BY <2>a DEF Sound, Numbered
    <3> QED BY <3>1, <2>a, <1>0, SMTT(30)
  <2>c. Numbered(s)
    BY <2>1, <2>a, <2>b DEF Sound, Numbered
  <2>3. Sound(s)
    BY <1>3, <2>1, <2>2, <2>c DEF Sound, Contiguous, Told
  <2>4. Emit(r, reason, conf, vals, acc) = IF r.enabled THEN TransmitOne(s, e, acc) ELSE s
    BY <1>0, <1>3 DEF Emit, e, RCBState
  <2> HIDE DEF s
  <2>5. /\ Sound(TransmitOne(s, e, acc))
        /\ SameSubscriber(s, TransmitOne(s, e, acc))
        /\ TransmitOne(s, e, acc).emitted = s.emitted
    BY <1>1, <1>3, <2>1, <2>3, <2>b, TransmitOneSound
  <2> QED BY <2>1, <2>3, <2>4, <2>5 DEF SameSubscriber
<1> QED BY <1>2, <1>3, RCBAssumption

(* flushPendingLocked keeps the record sound and emits at most one entry.  *)
LEMMA FlushSound ==
  ASSUME NEW r, Sound(r), r.pending # 0 => r.emitted < MaxEmitted, NEW acc
  PROVE  LET u == FlushPending(r, acc)
         IN Sound(u) /\ SameSubscriber(r, u) /\ u.emitted \in {r.emitted, r.emitted + 1}
<1> DEFINE p == [r EXCEPT !.pending = 0, !.pendVals = NoVals]
<1>0. r \in RCBState /\ r.pendConf \in 0..MaxConfRev /\ r.pendVals \in Vals
  BY DEF Sound, RCBState, Vals
<1>1. NoVals \in Vals
  BY RCBAssumption DEF NoVals, Vals
<1>2. /\ p \in RCBState /\ p.buffer = r.buffer /\ p.next = r.next /\ p.sent = r.sent
      /\ p.sqNum = r.sqNum /\ p.emitted = r.emitted
      /\ p.due = r.due /\ p.bufOverflow = r.bufOverflow
      /\ SameSubscriber(r, p)
  BY <1>0, <1>1, Zenon DEF RCBState, SameSubscriber, Vals
<1>3. Sound(p)
  BY <1>2 DEF Sound, Contiguous, Told, Numbered, NextId
<1>4. FlushPending(r, acc) = IF r.pending = 0 THEN r
                             ELSE IF r.pendVals = NoVals THEN p
                             ELSE Emit(p, "event", r.pendConf, r.pendVals, acc)
  BY DEF FlushPending
<1> HIDE DEF p
<1>5. CASE r.pending = 0
  BY <1>4, <1>5 DEF SameSubscriber
<1>6. CASE r.pending # 0 /\ r.pendVals = NoVals
  BY <1>2, <1>3, <1>4, <1>6
<1>7. CASE r.pending # 0 /\ r.pendVals # NoVals
  <2>1. "event" \in Reasons /\ p.emitted < MaxEmitted
    BY <1>2, <1>7 DEF Reasons
  <2>2. LET u == Emit(p, "event", r.pendConf, r.pendVals, acc)
        IN Sound(u) /\ SameSubscriber(p, u) /\ u.emitted = p.emitted + 1
    BY <1>0, <1>3, <2>1, EmitSound
  <2> QED BY <1>2, <1>4, <1>7, <2>2 DEF SameSubscriber
<1> QED BY <1>5, <1>6, <1>7

(* reportAllLocked keeps the record sound.                                 *)
LEMMA ReportAllSound ==
  ASSUME TypeOK, NEW r, Sound(r), r.emitted + 2 < MaxEmitted,
         NEW reason \in Reasons, NEW acc
  PROVE  Sound(ReportAll(r, reason, acc)) /\ SameSubscriber(r, ReportAll(r, reason, acc))
<1> DEFINE f == FlushPending(r, acc)
           vals == [l \in Leaves |-> IF l \in attr.datSet THEN leaf[l] ELSE 0]
<1>0. r.emitted \in 0..MaxEmitted /\ attr.confRev \in 0..MaxConfRev
  BY DEF Sound, RCBState, TypeOK, Attributes
<1>1. r.emitted < MaxEmitted
  BY <1>0, RCBAssumption
<1>2. Sound(f) /\ SameSubscriber(r, f) /\ f.emitted \in {r.emitted, r.emitted + 1}
  BY <1>1, FlushSound
<1>3. f.emitted < MaxEmitted
  BY <1>0, <1>2, RCBAssumption
<1>4. vals \in Vals
  BY RCBAssumption DEF Vals, TypeOK
<1>5. ReportAll(r, reason, acc) =
        IF attr.datSet = NoDataSet THEN f ELSE Emit(f, reason, attr.confRev, vals, acc)
  BY DEF ReportAll
<1> HIDE DEF f, vals
<1>6. LET u == Emit(f, reason, attr.confRev, vals, acc)
      IN Sound(u) /\ SameSubscriber(f, u)
  BY <1>0, <1>2, <1>3, <1>4, EmitSound
<1> QED BY <1>2, <1>5, <1>6 DEF SameSubscriber

(* eventLocked keeps the record sound.                                     *)
LEMMA EventSound ==
  ASSUME TypeOK, NEW r, Sound(r), r.emitted + 2 < MaxEmitted, r.pendCbs # Timers,
         NEW vals \in Vals, NEW acc
  PROVE  Sound(Event(r, vals, acc)) /\ SameSubscriber(r, Event(r, vals, acc))
<1> DEFINE f == IF r.pending # 0 /\ Overlaps(r.pendVals, vals) THEN FlushPending(r, acc) ELSE r
           t == Fresh(r.pendCbs)
           x == f.pendCbs \cup {t}
           o == [f EXCEPT !.pending = t, !.pendCbs = x, !.pendConf = attr.confRev]
           w == IF f.pending # 0 THEN f ELSE o
           m == Merge(w.pendVals, vals)
           u == [w EXCEPT !.pendVals = m]
<1>0. /\ r.emitted \in 0..MaxEmitted /\ attr.confRev \in 0..MaxConfRev
      /\ r.pendCbs \subseteq Timers
  BY DEF Sound, RCBState, TypeOK, Attributes
<1>1. r.emitted < MaxEmitted
  BY <1>0, RCBAssumption
<1>2. CASE attr.bufTm = 0
  <2>1. "event" \in Reasons
    BY DEF Reasons
  <2>2. LET e == Emit(r, "event", attr.confRev, vals, acc)
        IN Sound(e) /\ SameSubscriber(r, e)
    BY <1>0, <1>1, <2>1, EmitSound
  <2> QED BY <1>2, <2>2 DEF Event
<1>3. CASE attr.bufTm # 0
  <2>1. Event(r, vals, acc) = u
    BY <1>3 DEF Event
  <2>2. Sound(f) /\ SameSubscriber(r, f)
    BY <1>1, FlushSound DEF SameSubscriber
  <2>3. t \in Timers
    BY <1>0 DEF Fresh
  <2> HIDE DEF f, t
  <2>4. f \in RCBState /\ x \subseteq Timers
    BY <2>2, <2>3, Zenon DEF Sound, RCBState
  <2> HIDE DEF x
  <2>5. /\ o \in RCBState /\ o.buffer = f.buffer /\ o.next = f.next /\ o.sent = f.sent
        /\ o.sqNum = f.sqNum /\ o.emitted = f.emitted
        /\ o.due = f.due /\ o.bufOverflow = f.bufOverflow
        /\ SameSubscriber(f, o)
    BY <1>0, <2>3, <2>4, Zenon DEF RCBState, SameSubscriber
  <2>6. Sound(o)
    <3> HIDE DEF o
    <3> QED BY <2>2, <2>5 DEF Sound, Contiguous, Told, Numbered, NextId
  <2>7. Sound(w) /\ SameSubscriber(f, w)
    BY <2>2, <2>5, <2>6 DEF SameSubscriber
  <2> HIDE DEF w
  <2>8. m \in Vals /\ w \in RCBState
    BY <2>7, Zenon DEF Merge, Vals, Sound, RCBState
  <2> HIDE DEF m
  <2>9. /\ u \in RCBState /\ u.buffer = w.buffer /\ u.next = w.next /\ u.sent = w.sent
        /\ u.sqNum = w.sqNum /\ u.emitted = w.emitted
        /\ u.due = w.due /\ u.bufOverflow = w.bufOverflow
        /\ SameSubscriber(w, u)
    BY <2>8, Zenon DEF RCBState, SameSubscriber, Vals
  <2>10. Sound(u)
    <3> HIDE DEF u
    <3> QED BY <2>7, <2>9 DEF Sound, Contiguous, Told, Numbered, NextId
  <2> HIDE DEF u
  <2> QED BY <2>1, <2>2, <2>7, <2>9, <2>10 DEF SameSubscriber
<1> QED BY <1>2, <1>3

(* Each resync point of enableLocked leaves next where due expects it, or  *)
(* the flag up.                                                            *)
LEMMA ResyncedSound ==
  ASSUME NEW r, Sound(r), Buffered, r.sent = <<>>
  PROVE  Sound(Resynced(r)) /\ SameSubscriber(r, Resynced(r))
<1> DEFINE n == Len(r.buffer)
           oldest == r.emitted - n + 1
           q == [r EXCEPT !.resyncID = -1]
           z == [q EXCEPT !.next = 0, !.due = oldest]
           g == [q EXCEPT !.next = 0, !.bufOverflow = TRUE]
           i == CHOOSE i \in BufferIndex(r, r.resyncID) : TRUE
           d == r.resyncID + 1
           h == [q EXCEPT !.next = i, !.due = d]
<1>0. /\ r \in RCBState /\ r.buffer \in Seq(Entry) /\ r.next \in Nat
      /\ r.emitted \in 0..MaxEmitted /\ r.resyncID \in -1..MaxEmitted /\ MaxEmitted \in Nat
  BY RCBAssumption, SMTT(30) DEF Sound, RCBState
<1>1. n \in Nat /\ r.next <= n /\ n <= MaxBuffer
  BY <1>0, LenProperties DEF Sound, Contiguous
<1>i. \A k \in 1..n : r.buffer[k].id = r.emitted - n + k
  BY DEF Sound, Contiguous
<1>e. \A k \in 1..n : r.buffer[k] \in Entry
  BY <1>0, ElementOfSeq
<1>r. Resynced(r) = IF r.resyncID = -1 THEN r
                    ELSE IF r.resyncID = 0 THEN z
                    ELSE IF BufferIndex(r, r.resyncID) = {} THEN g ELSE h
  BY DEF Resynced
<1>m. -1 \in -1..MaxEmitted
  BY <1>0
<1>b. BufferIndex(r, r.resyncID) = {k \in 1..n : r.buffer[k].id = r.resyncID}
  BY DEF BufferIndex
<1>s. ASSUME NEW u, u.sent = r.sent, u.sqNum = r.sqNum PROVE Numbered(u)
  BY <1>s, EmptySeq DEF Sound, Numbered
<1> HIDE DEF n
<1>2. CASE r.resyncID = -1
  BY <1>2, <1>r DEF SameSubscriber
<1>3. CASE r.resyncID = 0
  <2>1. oldest \in 1..(MaxEmitted + 1)
    <3>1. CASE n = 0
      BY <3>1, <1>0
    <3>2. CASE n # 0
      <4>1. 1 \in 1..n
        BY <1>1, <3>2
      <4>2. r.buffer[1].id = oldest /\ r.buffer[1].id \in 1..MaxEmitted
        BY <4>1, <1>i, <1>e DEF Entry
      <4> QED BY <4>2, <1>0
    <3> QED BY <3>1, <3>2
  <2>2. oldest = r.emitted - n + 0 + 1
    BY <1>0, <1>1
  <2> HIDE DEF oldest
  <2>3. /\ z \in RCBState /\ z.buffer = r.buffer /\ z.next = 0 /\ z.sent = r.sent
        /\ z.sqNum = r.sqNum /\ z.emitted = r.emitted /\ z.due = oldest /\ SameSubscriber(r, z)
    BY <2>1, <1>0, <1>m, Zenon DEF RCBState, SameSubscriber
  <2> HIDE DEF z
  <2>4. Contiguous(z)
    BY <2>3, <1>0, <1>1 DEF Sound, Contiguous, n
  <2>5. Told(z)
    BY <2>2, <2>3 DEF Sound, Told, NextId, n
  <2> QED BY <1>3, <1>r, <2>3, <2>4, <2>5, <1>s DEF Sound
<1>4. CASE r.resyncID \notin {-1, 0} /\ BufferIndex(r, r.resyncID) = {}
  <2>1. /\ g \in RCBState /\ g.buffer = r.buffer /\ g.next = 0 /\ g.sent = r.sent
        /\ g.sqNum = r.sqNum /\ g.emitted = r.emitted
        /\ g.bufOverflow = TRUE /\ SameSubscriber(r, g)
    BY <1>0, <1>m, Zenon DEF RCBState, SameSubscriber
  <2> HIDE DEF g
  <2>2. Contiguous(g)
    BY <2>1, <1>0, <1>1 DEF Sound, Contiguous, n
  <2>3. Told(g)
    BY <2>1 DEF Sound, Told
  <2> QED BY <1>4, <1>r, <2>1, <2>2, <2>3, <1>s DEF Sound
<1>5. CASE r.resyncID \notin {-1, 0} /\ BufferIndex(r, r.resyncID) # {}
  <2>1. i \in 1..n /\ r.buffer[i].id = r.resyncID
    BY <1>5, <1>b
  <2> HIDE DEF i
  <2>2. r.resyncID = r.emitted - n + i /\ i \in Nat
    BY <2>1, <1>i, <1>1
  <2>3. d = r.emitted - n + i + 1 /\ d \in 1..(MaxEmitted + 1)
    <3>1. r.resyncID \in 1..MaxEmitted
      BY <2>1, <1>e DEF Entry
    <3>2. d = r.emitted - n + i + 1
      BY <2>2
    <3>3. d \in 1..(MaxEmitted + 1)
      BY <3>1, RCBAssumption
    <3> QED BY <3>2, <3>3
  <2> HIDE DEF d
  <2>4. /\ h \in RCBState /\ h.buffer = r.buffer /\ h.next = i /\ h.sent = r.sent
        /\ h.sqNum = r.sqNum /\ h.emitted = r.emitted /\ h.due = d /\ SameSubscriber(r, h)
    BY <2>2, <2>3, <1>0, <1>m, Zenon DEF RCBState, SameSubscriber
  <2> HIDE DEF h
  <2>5. Contiguous(h)
    BY <2>1, <2>4, <1>0, <1>1 DEF Sound, Contiguous, n
  <2>6. Told(h)
    BY <2>3, <2>4 DEF Sound, Told, NextId, n
  <2> QED BY <1>5, <1>r, <2>4, <2>5, <2>6, <1>s DEF Sound
<1> QED BY <1>2, <1>3, <1>4, <1>5

(* enableLocked keeps the record sound and makes c the subscriber.         *)
LEMMA EnableSound ==
  ASSUME NEW r, Sound(r), NEW c \in Conns, r.intgLoops # Timers, NEW acc
  PROVE  LET u == Enable(r, c, acc) IN Sound(u) /\ u.enabled /\ u.conn = c
<1> DEFINE e == [r EXCEPT !.enabled = TRUE, !.conn = c, !.sqNum = 0, !.intgStop = 0, !.sent = <<>>]
           b == IF Buffered THEN TransmitBuffered(Resynced(e), acc) ELSE e
           g == Fresh(r.intgLoops)
           x == b.intgLoops \cup {g}
           u == [b EXCEPT !.intgStop = g, !.intgLoops = x]
<1>0. r \in RCBState /\ r.intgLoops \subseteq Timers
  BY DEF Sound, RCBState
<1>1. 0 \in 0..(SqMod - 1) /\ <<>> \in Seq(Report) /\ Len(<<>>) = 0 /\ 0 % SqMod = 0
  BY RCBAssumption, EmptySeq
<1>2. /\ e \in RCBState /\ e.buffer = r.buffer /\ e.next = r.next /\ e.sent = <<>>
      /\ e.sqNum = 0 /\ e.emitted = r.emitted /\ e.due = r.due /\ e.bufOverflow = r.bufOverflow
      /\ e.enabled = TRUE /\ e.conn = c
  BY <1>0, <1>1, Zenon DEF RCBState
<1>E. Enable(r, c, acc) = IF attr.intgPd > 0 /\ "integrity" \in attr.trgOps THEN u ELSE b
  BY DEF Enable
<1> HIDE DEF e
<1>3. Sound(e)
  BY <1>1, <1>2 DEF Sound, Contiguous, Told, Numbered, NextId
<1>4. Sound(b) /\ b.enabled = TRUE /\ b.conn = c
  <2>1. CASE Buffered
    <3>1. Sound(Resynced(e)) /\ SameSubscriber(e, Resynced(e))
      BY <1>2, <1>3, <2>1, ResyncedSound
    <3>2. /\ Sound(TransmitBuffered(Resynced(e), acc))
          /\ SameSubscriber(Resynced(e), TransmitBuffered(Resynced(e), acc))
      BY <2>1, <3>1, TransmitBufferedSound
    <3> QED BY <1>2, <2>1, <3>1, <3>2 DEF SameSubscriber
  <2>2. CASE ~Buffered
    BY <1>2, <1>3, <2>2
  <2> QED BY <2>1, <2>2, Zenon
<1> HIDE DEF b
<1>5. g \in Timers
  BY <1>0 DEF Fresh
<1> HIDE DEF g
<1>6. b \in RCBState /\ x \subseteq Timers
  BY <1>4, <1>5, SMTT(30) DEF Sound, RCBState
<1> HIDE DEF x
<1>7. /\ u \in RCBState /\ u.buffer = b.buffer /\ u.next = b.next /\ u.sent = b.sent
      /\ u.sqNum = b.sqNum /\ u.emitted = b.emitted
      /\ u.due = b.due /\ u.bufOverflow = b.bufOverflow
      /\ u.enabled = b.enabled /\ u.conn = b.conn
  BY <1>5, <1>6, Zenon DEF RCBState
<1> HIDE DEF u
<1>8. Sound(u)
  BY <1>4, <1>7 DEF Sound, Contiguous, Told, Numbered, NextId
<1> QED BY <1>E, <1>4, <1>7, <1>8

(* disableLocked keeps the record sound and leaves no subscriber.          *)
LEMMA DisableSound ==
  ASSUME NEW r, Sound(r), r.pending # 0 => r.emitted < MaxEmitted, NEW acc
  PROVE  LET u == Disable(r, acc) IN Sound(u) /\ ~u.enabled /\ u.conn = NoConn
<1> DEFINE f == FlushPending(r, acc)
           u == [f EXCEPT !.enabled = FALSE, !.conn = NoConn, !.intgStop = 0]
<1>1. Sound(f)
  BY FlushSound
<1>2. Disable(r, acc) = u
  BY DEF Disable
<1> HIDE DEF f
<1>3. f \in RCBState
  BY <1>1 DEF Sound
<1>4. /\ u \in RCBState /\ u.buffer = f.buffer /\ u.next = f.next /\ u.sent = f.sent
      /\ u.sqNum = f.sqNum /\ u.emitted = f.emitted
      /\ u.due = f.due /\ u.bufOverflow = f.bufOverflow
      /\ u.enabled = FALSE /\ u.conn = NoConn
  BY <1>3, Zenon DEF RCBState
<1> HIDE DEF u
<1>5. Sound(u)
  BY <1>1, <1>4 DEF Sound, Contiguous, Told, Numbered, NextId
<1> QED BY <1>2, <1>4, <1>5

(* purgeLocked keeps the record sound.                                     *)
LEMMA PurgedSound ==
  ASSUME NEW r, Sound(r)
  PROVE  Sound(Purged(r)) /\ SameSubscriber(r, Purged(r))
<1> DEFINE d == r.emitted + 1
           u == [r EXCEPT !.buffer = <<>>, !.next = 0, !.bufOverflow = FALSE, !.resyncID = -1,
                          !.due = d]
<1>0. r \in RCBState /\ r.emitted \in 0..MaxEmitted /\ -1 \in -1..MaxEmitted
  BY RCBAssumption, SMTT(30) DEF Sound, RCBState
<1>1. d \in 1..(MaxEmitted + 1) /\ d = r.emitted - 0 + 0 + 1 /\ 0 <= MaxBuffer
  BY <1>0, RCBAssumption
<1>2. <<>> \in Seq(Entry) /\ Len(<<>>) = 0
  BY EmptySeq
<1>3. Purged(r) = u
  BY DEF Purged
<1> HIDE DEF d
<1>4. /\ u \in RCBState /\ u.buffer = <<>> /\ u.next = 0 /\ u.sent = r.sent
      /\ u.sqNum = r.sqNum /\ u.emitted = r.emitted /\ u.due = d /\ SameSubscriber(r, u)
  BY <1>0, <1>1, <1>2, Zenon DEF RCBState, SameSubscriber
<1> HIDE DEF u
<1>5. Contiguous(u)
  BY <1>1, <1>2, <1>4 DEF Contiguous
<1>6. Told(u)
  BY <1>1, <1>2, <1>4 DEF Sound, Told, NextId
<1>7. Numbered(u)
  <2>1. NextId(u) = r.emitted + 1 /\ NextId(r) <= r.emitted + 1 /\ NextId(r) \in Int
    <3>1. /\ Len(r.buffer) \in Nat /\ r.next \in Nat /\ r.next <= Len(r.buffer)
      BY <1>0, LenProperties DEF Sound, Contiguous, RCBState
    <3> QED BY <1>0, <1>1, <1>2, <1>4, <3>1, SMTT(30) DEF NextId
  <2>2. r.sent \in Seq(Report)
    BY <1>0 DEF RCBState
  <2>3. \A k \in 1..Len(r.sent) : r.sent[k] \in Report
    BY <2>2, ElementOfSeq
  <2>4. \A k \in 1..Len(r.sent) : r.sent[k].id < NextId(u)
    <3> TAKE k \in 1..Len(r.sent)
    <3>1. r.sent[k].id < NextId(r) /\ r.sent[k].id \in Int
      BY <2>3 DEF Sound, Numbered, Report
    <3> QED BY <3>1, <2>1, <1>0, SMTT(30)
  <2> QED BY <1>4, <2>4 DEF Sound, Numbered
<1> QED BY <1>3, <1>4, <1>5, <1>6, <1>7 DEF Sound

(* A change of fields the buffer does not depend on.                       *)
LEMMA SoundFrame ==
  ASSUME NEW r, Sound(r), NEW u \in RCBState,
         u.buffer = r.buffer, u.next = r.next, u.sent = r.sent, u.sqNum = r.sqNum,
         u.emitted = r.emitted, u.due = r.due, u.bufOverflow = r.bufOverflow
  PROVE  Sound(u)
BY DEF Sound, Contiguous, Told, Numbered, NextId

-----------------------------------------------------------------------------
(* The reservation.  A running reservation timer belongs to a block nobody *)
(* holds; with that, the reservation is timed, visible and, if configured, *)
(* permanent after every take and release.                                 *)

Firm(v) ==
  /\ v \in Reservation
  /\ v.owner = NoConn /\ v.resvIP # NoIP /\ ~ResvCfg => v.resvTimer \in v.resvCbs
  /\ v.resvTimer # 0 => v.owner = NoConn /\ ~ResvCfg
  /\ IF Buffered THEN v.ownerAttr = Held(v.owner, v.resvIP)
     ELSE v.resvAttr = (v.owner # NoConn \/ v.resvIP # NoIP)
  /\ ResvCfg => /\ v.resvIP = ResvCfgIP
                /\ v.owner # NoConn => AddrOf[v.owner] = ResvCfgIP

(* syncResvLocked changes only the attribute that shows the reservation.   *)
LEMMA SyncedFirm ==
  ASSUME NEW v \in Reservation
  PROVE  LET u == Synced(v)
         IN /\ u \in Reservation /\ u.owner = v.owner /\ u.resvIP = v.resvIP
            /\ u.resvTimer = v.resvTimer /\ u.resvCbs = v.resvCbs
            /\ IF Buffered THEN u.ownerAttr = Held(u.owner, u.resvIP)
               ELSE u.resvAttr = (u.owner # NoConn \/ u.resvIP # NoIP)
<1> DEFINE h == Held(v.owner, v.resvIP)
           k == v.owner # NoConn \/ v.resvIP # NoIP
<1>1. h \in IPs \cup {NoIP} /\ k \in BOOLEAN
  BY RCBAssumption DEF Held, Reservation
<1>2. Synced(v) = IF Buffered THEN [v EXCEPT !.ownerAttr = h] ELSE [v EXCEPT !.resvAttr = k]
  BY DEF Synced
<1>3. CASE Buffered
  <2> DEFINE u == [v EXCEPT !.ownerAttr = h]
  <2> HIDE DEF h
  <2>1. /\ u \in Reservation /\ u.owner = v.owner /\ u.resvIP = v.resvIP
        /\ u.resvTimer = v.resvTimer /\ u.resvCbs = v.resvCbs /\ u.ownerAttr = h
    BY <1>1 DEF Reservation
  <2> QED BY <1>2, <1>3, <2>1 DEF h
<1>4. CASE ~Buffered
  <2> DEFINE u == [v EXCEPT !.resvAttr = k]
  <2> HIDE DEF k
  <2>1. /\ u \in Reservation /\ u.owner = v.owner /\ u.resvIP = v.resvIP
        /\ u.resvTimer = v.resvTimer /\ u.resvCbs = v.resvCbs /\ u.resvAttr = k
    BY <1>1 DEF Reservation
  <2> QED BY <1>2, <1>4, <2>1 DEF k
<1> QED BY <1>3, <1>4

(* takeLocked by an allowed client keeps the reservation firm.             *)
LEMMA TakeFirm ==
  ASSUME NEW v, Firm(v), NEW c \in Conns, Allowed(v, c)
  PROVE  Firm(Take(v, c)) /\ Take(v, c).owner = c /\ Take(v, c).resvCbs = v.resvCbs
<1> DEFINE ip == IF ResvCfg THEN v.resvIP ELSE NoIP
           u == [v EXCEPT !.owner = c, !.resvTimer = 0, !.resvIP = ip]
<1>1. v \in Reservation /\ ip \in IPs \cup {NoIP}
  BY DEF Firm, Reservation
<1>2. Take(v, c) = Synced(u)
  BY DEF Take
<1>c. ResvCfg => ip = ResvCfgIP /\ AddrOf[c] = ResvCfgIP
  BY DEF Firm, Allowed, ResvCfg
<1> HIDE DEF ip
<1>3. /\ u \in Reservation /\ u.owner = c /\ u.resvIP = ip
      /\ u.resvTimer = 0 /\ u.resvCbs = v.resvCbs
  BY <1>1, Zenon DEF Reservation
<1>4. c # NoConn
  BY RCBAssumption
<1> HIDE DEF u
<1> QED BY <1>2, <1>3, <1>4, <1>c, SyncedFirm DEF Firm

(* The implicit reservation of a write leaves the writer as the holder.    *)
LEMMA ReservedFirm ==
  ASSUME NEW v, Firm(v), NEW c \in Conns, Allowed(v, c)
  PROVE  /\ Firm(Reserved(v, c)) /\ Reserved(v, c).owner = c
         /\ Reserved(v, c).resvCbs = v.resvCbs
BY TakeFirm DEF Reserved, Allowed

(* releaseLocked keeps the reservation firm and leaves no holder.          *)
LEMMA ReleaseFirm ==
  ASSUME TypeOK, NEW v, Firm(v), Buffered => v.resvCbs # Timers
  PROVE  Firm(Release(v)) /\ Release(v).owner = NoConn
<1> DEFINE ip == IF v.owner = NoConn THEN NoIP ELSE AddrOf[v.owner]
           t == Fresh(v.resvCbs)
           x == v.resvCbs \cup {t}
           k == [v EXCEPT !.owner = NoConn]
           freed == [v EXCEPT !.owner = NoConn, !.resvTimer = 0, !.resvIP = NoIP]
           h == [freed EXCEPT !.resvIP = ip, !.resvTimer = t, !.resvCbs = x]
<1>1. v \in Reservation /\ ip \in IPs \cup {NoIP} /\ v.resvCbs \subseteq Timers
  BY RCBAssumption DEF Firm, Reservation
<1>2. Buffered => t \in Timers /\ t \in x /\ x \subseteq Timers
  BY <1>1 DEF Fresh
<1>3. Release(v) = IF ResvCfg THEN Synced(k)
                   ELSE IF Buffered /\ attr.resvTms > 0 /\ ip # NoIP THEN Synced(h)
                   ELSE Synced(freed)
  BY <1>1 DEF Release, Reservation
<1> HIDE DEF ip, t, x
<1>4. CASE ResvCfg
  <2>1. /\ k \in Reservation /\ k.owner = NoConn /\ k.resvIP = v.resvIP
        /\ k.resvTimer = v.resvTimer /\ k.resvCbs = v.resvCbs
    BY <1>1 DEF Reservation
  <2> HIDE DEF k
  <2> QED BY <1>3, <1>4, <2>1, SyncedFirm DEF Firm
<1>5. CASE ~ResvCfg /\ Buffered /\ attr.resvTms > 0 /\ ip # NoIP
  <2>1. /\ h \in Reservation /\ h.owner = NoConn /\ h.resvIP = ip
        /\ h.resvTimer = t /\ h.resvCbs = x
    BY <1>1, <1>2, <1>5, Zenon DEF Reservation
  <2> HIDE DEF h
  <2> QED BY <1>2, <1>3, <1>5, <2>1, SyncedFirm DEF Firm
<1>6. CASE ~ResvCfg /\ ~(Buffered /\ attr.resvTms > 0 /\ ip # NoIP)
  <2>1. /\ freed \in Reservation /\ freed.owner = NoConn /\ freed.resvIP = NoIP
        /\ freed.resvTimer = 0 /\ freed.resvCbs = v.resvCbs
    BY <1>1, Zenon DEF Reservation
  <2>2. 0 \notin Timers
    BY RCBAssumption
  <2> HIDE DEF freed
  <2> QED BY <1>3, <1>6, <2>1, <2>2, SyncedFirm DEF Firm
<1> QED BY <1>4, <1>5, <1>6

-----------------------------------------------------------------------------
(* The inductive invariant.                                                *)

IndInv == TypeOK /\ Sound(rs) /\ Firm(rv) /\ SubscriberHolds

(* A block as materialiseRCBs makes it satisfies the invariant.            *)
LEMMA InitInv == Init => IndInv
<1> SUFFICES ASSUME Init PROVE IndInv
  OBVIOUS
<1>1. /\ <<>> \in Seq(Entry) /\ <<>> \in Seq(Report) /\ Len(<<>>) = 0
      /\ 0 \in 0..(SqMod - 1) /\ 0 % SqMod = 0 /\ 0 \in 0..MaxEmitted /\ 1 \in 1..(MaxEmitted + 1)
      /\ -1 \in -1..MaxEmitted /\ 0 \in 0..MaxConfRev /\ 1 \in 1..MaxUpdates
      /\ 0 \in 0..MaxUpdates /\ MaxBuffer \in Nat
  BY RCBAssumption, EmptySeq
<1>2. NoVals \in [Leaves -> 0..MaxUpdates] /\ leaf \in [Leaves -> 1..MaxUpdates]
  BY <1>1 DEF Init, NoVals
<1>3. rs \in RCBState
  BY <1>1, <1>2 DEF Init, RCBState
<1>4. Sound(rs)
  <2>1. /\ Len(rs.buffer) = 0 /\ rs.buffer = <<>> /\ Len(rs.sent) = 0
        /\ rs.next = 0 /\ rs.sqNum = 0 /\ rs.emitted = 0 /\ rs.due = 1
    BY <1>1 DEF Init
  <2>2. Contiguous(rs)
    BY <1>1, <2>1 DEF Contiguous
  <2>3. Told(rs)
    BY <2>1 DEF Told, NextId
  <2>4. Numbered(rs)
    BY <1>1, <2>1 DEF Numbered
  <2> QED BY <1>3, <2>1, <2>2, <2>3, <2>4 DEF Sound
<1>5. Firm(rv)
  <2>1. (~Buffered /\ ResvCfg) \in BOOLEAN /\ ResvCfgIP \in IPs \cup {NoIP}
    BY RCBAssumption
  <2>2. rv \in Reservation
    BY <2>1 DEF Init, Reservation
  <2> QED BY <2>2 DEF Init, Firm, Held, ResvCfg
<1>6. attr \in Attributes
  BY <1>1, RCBAssumption DEF Init, Attributes, NoDataSet
<1>7. TypeOK
  BY <1>1, <1>2, <1>3, <1>5, <1>6 DEF Init, TypeOK, Firm
<1>8. SubscriberHolds
  BY DEF Init, SubscriberHolds
<1> QED BY <1>4, <1>5, <1>7, <1>8 DEF IndInv

(* What each action has to show.                                           *)
LEMMA Preserved ==
  ASSUME Sound(rs'), Firm(rv'), attr' \in Attributes, open' \subseteq Conns,
         leaf' \in [Leaves -> 1..MaxUpdates], now' \in 1..MaxUpdates, SubscriberHolds'
  PROVE  IndInv'
BY DEF IndInv, TypeOK, Sound, Firm

(* Enabling preserves the invariant.                                       *)
LEMMA WriteEnaTrueInv ==
  ASSUME IndInv, NEW c \in Conns, WriteRptEnaTrue(c) PROVE IndInv'
<1>1. PICK acc \in AcceptingBuffered : rs' = Enable(rs, c, acc)
  BY DEF WriteRptEnaTrue
<1>2. Sound(rs') /\ rs'.enabled /\ rs'.conn = c
  BY <1>1, EnableSound DEF WriteRptEnaTrue, MayStart, IndInv
<1>3. Firm(Reserved(rv, c)) /\ Reserved(rv, c).owner = c
  BY ReservedFirm DEF WriteRptEnaTrue, MayWrite, IndInv
<1>4. rv' = Reserved(rv, c)
  BY <1>3 DEF WriteRptEnaTrue, EnableTakes
<1>5. SubscriberHolds'
  BY <1>2, <1>3, <1>4, RCBAssumption DEF WriteRptEnaTrue, MayWrite, Rest, SubscriberHolds
<1> QED BY <1>2, <1>3, <1>4, <1>5, Preserved DEF WriteRptEnaTrue, Rest, IndInv, TypeOK

(* Disabling preserves the invariant.                                      *)
LEMMA WriteEnaFalseInv ==
  ASSUME IndInv, NEW c \in Conns, WriteRptEnaFalse(c) PROVE IndInv'
<1>1. PICK acc \in Accepting : rs' = Disable(rs, acc)
  BY DEF WriteRptEnaFalse
<1>2. Sound(rs') /\ ~rs'.enabled /\ rs'.conn = NoConn
  BY <1>1, DisableSound DEF WriteRptEnaFalse, MayFlush, IndInv
<1>3. /\ Firm(Reserved(rv, c)) /\ Reserved(rv, c).owner = c
      /\ Reserved(rv, c).resvCbs # Timers
  BY ReservedFirm DEF WriteRptEnaFalse, MayWrite, MayStart, IndInv
<1>4. Firm(rv') /\ rv'.owner \in {c, NoConn}
  BY <1>3, ReleaseFirm DEF WriteRptEnaFalse, DisableReleases, IndInv
<1>5. SubscriberHolds'
  BY <1>2, <1>4 DEF WriteRptEnaFalse, MayWrite, Rest, SubscriberHolds
<1> QED BY <1>2, <1>4, <1>5, Preserved DEF WriteRptEnaFalse, Rest, IndInv, TypeOK

(* A write that leaves the subscriber alone and reserves the block.        *)
LEMMA ReservingInv ==
  ASSUME IndInv, NEW c \in Conns, MayWrite(c), Sound(rs'), SameSubscriber(rs, rs'),
         rv' = Reserved(rv, c), attr' \in Attributes, Rest
  PROVE  IndInv'
<1>1. Firm(rv') /\ rv'.owner = c
  BY ReservedFirm DEF MayWrite, IndInv
<1>2. rs'.enabled => rs'.conn # NoConn /\ rs'.conn = c
  BY DEF IndInv, SubscriberHolds, SameSubscriber, MayWrite, Allowed
<1>3. SubscriberHolds'
  BY <1>1, <1>2 DEF MayWrite, Rest, SubscriberHolds, SameSubscriber, IndInv
<1> QED BY <1>1, <1>3, Preserved DEF Rest, IndInv, TypeOK

(* A general interrogation preserves the invariant.                        *)
LEMMA WriteGIInv ==
  ASSUME IndInv, NEW c \in Conns, NEW on \in BOOLEAN, WriteGI(c, on) PROVE IndInv'
<1>1. PICK acc \in Accepting :
        rs' = IF on /\ "gi" \in attr.trgOps THEN ReportAll(rs, "gi", acc) ELSE rs
  BY DEF WriteGI
<1>2. CASE on /\ "gi" \in attr.trgOps
  <2>1. "gi" \in Reasons /\ rs.emitted + 2 < MaxEmitted
    BY <1>2 DEF Reasons, WriteGI, MayEmit
  <2>2. Sound(rs') /\ SameSubscriber(rs, rs')
    BY <1>1, <1>2, <2>1, ReportAllSound DEF IndInv
  <2> QED BY <2>2, ReservingInv DEF WriteGI, IndInv, TypeOK
<1>3. CASE ~(on /\ "gi" \in attr.trgOps)
  BY <1>1, <1>3, ReservingInv DEF WriteGI, IndInv, TypeOK, SameSubscriber
<1> QED BY <1>2, <1>3

(* Reserving and freeing a URCB preserves the invariant.                   *)
LEMMA WriteResvInv ==
  ASSUME IndInv, NEW c \in Conns, NEW on \in BOOLEAN, WriteResv(c, on) PROVE IndInv'
<1>1. CASE on
  <2>1. Firm(rv') /\ rv'.owner = c
    BY <1>1, TakeFirm DEF WriteResv, MayWrite, IndInv
  <2>2. SubscriberHolds'
    BY <2>1 DEF WriteResv, MayWrite, Allowed, Rest, IndInv, SubscriberHolds
  <2> QED BY <2>1, <2>2, Preserved DEF WriteResv, Rest, IndInv, TypeOK
<1>2. CASE ~on
  <2>1. Firm(rv') /\ rv'.owner = NoConn
    BY <1>2, ReleaseFirm DEF WriteResv, IndInv
  <2>2. SubscriberHolds'
    BY <1>2, <2>1 DEF WriteResv, Rest, IndInv, SubscriberHolds
  <2> QED BY <2>1, <2>2, Preserved DEF WriteResv, Rest, IndInv, TypeOK
<1> QED BY <1>1, <1>2

(* A write of ResvTms preserves the invariant: it stops only the timer of  *)
(* a block the writer holds.                                               *)
LEMMA WriteResvTmsInv ==
  ASSUME IndInv, NEW c \in Conns, NEW tms \in ResvTmss, WriteResvTms(c, tms) PROVE IndInv'
<1> DEFINE v == Reserved(rv, c)
           t == IF tms = 0 THEN 0 ELSE v.resvTimer
<1>1. Firm(v) /\ v.owner = c
  BY ReservedFirm DEF WriteResvTms, MayConfigure, MayWrite, IndInv
<1>2. rv' = [v EXCEPT !.resvTimer = t]
  <2>1. v \in Reservation
    BY <1>1 DEF Firm
  <2> QED BY <2>1 DEF WriteResvTms, Reservation
<1>3. t \in Timers \cup {0} /\ v \in Reservation
  BY <1>1 DEF Firm, Reservation
<1> HIDE DEF v, t
<1>4. /\ rv' \in Reservation /\ rv'.owner = c /\ rv'.resvIP = v.resvIP
      /\ rv'.resvCbs = v.resvCbs /\ rv'.ownerAttr = v.ownerAttr /\ rv'.resvAttr = v.resvAttr
      /\ rv'.resvTimer = t
  BY <1>1, <1>2, <1>3 DEF Reservation
<1>5. c # NoConn /\ (v.resvTimer # 0 => v.owner = NoConn)
  BY <1>1, RCBAssumption DEF Firm
<1>6. t = 0
  BY <1>1, <1>5 DEF t
<1>7. Firm(rv')
  BY <1>1, <1>4, <1>5, <1>6 DEF Firm
<1>8. attr' \in Attributes
  BY DEF WriteResvTms, IndInv, TypeOK, Attributes
<1>9. SubscriberHolds'
  BY <1>4 DEF WriteResvTms, MayConfigure, MayWrite, Rest, SubscriberHolds, IndInv
<1> QED BY <1>7, <1>8, <1>9, Preserved DEF WriteResvTms, Rest, IndInv, TypeOK

(* Purging preserves the invariant.                                        *)
LEMMA WritePurgeBufInv ==
  ASSUME IndInv, NEW c \in Conns, NEW on \in BOOLEAN, WritePurgeBuf(c, on) PROVE IndInv'
<1>1. Sound(rs') /\ SameSubscriber(rs, rs')
  BY PurgedSound DEF WritePurgeBuf, IndInv, SameSubscriber
<1> QED BY <1>1, ReservingInv DEF WritePurgeBuf, MayConfigure, IndInv, TypeOK

(* Choosing a resync point preserves the invariant.                        *)
LEMMA WriteEntryIDInv ==
  ASSUME IndInv, NEW c \in Conns, NEW id \in 0..rs.emitted, WriteEntryID(c, id) PROVE IndInv'
<1>1. rs \in RCBState /\ rs.emitted \in 0..MaxEmitted
  BY SMTT(30) DEF IndInv, TypeOK, RCBState
<1>2. id \in -1..MaxEmitted
  BY <1>1, RCBAssumption
<1>3. rs' = [rs EXCEPT !.resyncID = id]
  BY DEF WriteEntryID
<1>4. /\ rs' \in RCBState /\ SameSubscriber(rs, rs')
      /\ rs'.buffer = rs.buffer /\ rs'.next = rs.next /\ rs'.sent = rs.sent
      /\ rs'.sqNum = rs.sqNum /\ rs'.emitted = rs.emitted
      /\ rs'.due = rs.due /\ rs'.bufOverflow = rs.bufOverflow
  BY <1>1, <1>2, <1>3, Zenon DEF RCBState, SameSubscriber
<1>5. Sound(rs')
  BY <1>4, SoundFrame DEF IndInv
<1> QED BY <1>4, <1>5, ReservingInv DEF WriteEntryID, MayConfigure, IndInv, TypeOK

(* Changing the data set preserves the invariant.                          *)
LEMMA WriteDatSetInv ==
  ASSUME IndInv, NEW c \in Conns, NEW ds \in DataSets \cup {NoDataSet}, WriteDatSet(c, ds)
  PROVE  IndInv'
<1>1. Sound(rs') /\ SameSubscriber(rs, rs')
  BY PurgedSound DEF WriteDatSet, IndInv
<1>2. ds \in SUBSET Leaves /\ attr.confRev + 1 \in 0..MaxConfRev /\ attr \in Attributes
  BY RCBAssumption DEF WriteDatSet, IndInv, TypeOK, Attributes, NoDataSet
<1>3. attr' \in Attributes
  BY <1>2, Zenon DEF WriteDatSet, Attributes
<1> QED BY <1>1, <1>3, ReservingInv DEF WriteDatSet, MayConfigure

(* Configuring preserves the invariant.                                    *)
LEMMA WriteSettingsInv ==
  ASSUME IndInv, NEW c \in Conns, NEW bt \in BufTms, NEW pd \in IntgPds, NEW ops \in TrgOpss,
         WriteSettings(c, bt, pd, ops)
  PROVE  IndInv'
<1>1. attr' \in Attributes
  BY Zenon DEF WriteSettings, IndInv, TypeOK, Attributes
<1> QED BY <1>1, ReservingInv DEF WriteSettings, MayConfigure, IndInv, SameSubscriber

(* A step of the server itself, which leaves the reservation alone.        *)
LEMMA ServerStepInv ==
  ASSUME IndInv, Sound(rs'), SameSubscriber(rs, rs'), UNCHANGED <<rv, attr, open>>,
         leaf' \in [Leaves -> 1..MaxUpdates], now' \in 1..MaxUpdates
  PROVE  IndInv'
<1>1. SubscriberHolds'
  BY DEF IndInv, SubscriberHolds, SameSubscriber
<1>2. Firm(rv')
  BY DEF IndInv
<1> QED BY <1>1, <1>2, Preserved DEF IndInv, TypeOK

(* onUpdate preserves the invariant.                                       *)
LEMMA UpdateInv ==
  ASSUME IndInv, NEW S \in SUBSET Leaves, Update(S) PROVE IndInv'
<1> DEFINE vals == [l \in Leaves |-> IF l \in S \cap attr.datSet THEN now + 1 ELSE 0]
<1>1. PICK acc \in Accepting :
        rs' = IF (Buffered \/ rs.enabled) /\ "dchg" \in attr.trgOps /\ vals # NoVals
              THEN Event(rs, vals, acc) ELSE rs
  BY DEF Update
<1>2. now \in 1..MaxUpdates /\ now < MaxUpdates /\ leaf \in [Leaves -> 1..MaxUpdates]
  BY DEF Update, IndInv, TypeOK
<1>3. now + 1 \in 1..MaxUpdates /\ now + 1 \in 0..MaxUpdates /\ 0 \in 0..MaxUpdates
  BY <1>2, RCBAssumption
<1>4. vals \in [Leaves -> 0..MaxUpdates]
  BY <1>3
<1>5. now' \in 1..MaxUpdates /\ leaf' \in [Leaves -> 1..MaxUpdates]
  BY <1>2, <1>3 DEF Update
<1> HIDE DEF vals
<1>6. Sound(rs') /\ SameSubscriber(rs, rs')
  BY <1>1, <1>4, EventSound DEF Update, MayEmit, MayStart, IndInv, SameSubscriber, Vals
<1> QED BY <1>5, <1>6, ServerStepInv DEF Update

(* The buffer-time callback preserves the invariant, stale or not.         *)
LEMMA PendTimerInv ==
  ASSUME IndInv, NEW t \in Timers, PendTimer(t) PROVE IndInv'
<1> DEFINE x == rs.pendCbs \ {t}
           r == [rs EXCEPT !.pendCbs = x]
<1>1. PICK acc \in Accepting : rs' = IF rs.pending = t THEN FlushPending(r, acc) ELSE r
  BY DEF PendTimer
<1>2. rs \in RCBState /\ x \in SUBSET Timers /\ rs.emitted < MaxEmitted
  BY SMTT(30) DEF PendTimer, IndInv, TypeOK, RCBState
<1> HIDE DEF x
<1>3. /\ r \in RCBState /\ SameSubscriber(rs, r)
      /\ r.buffer = rs.buffer /\ r.next = rs.next /\ r.sent = rs.sent
      /\ r.sqNum = rs.sqNum /\ r.emitted = rs.emitted
      /\ r.due = rs.due /\ r.bufOverflow = rs.bufOverflow
  BY <1>2, Zenon DEF RCBState, SameSubscriber
<1> HIDE DEF r
<1>4. Sound(r)
  BY <1>3, SoundFrame DEF IndInv
<1>5. LET u == FlushPending(r, acc) IN Sound(u) /\ SameSubscriber(r, u)
  BY <1>2, <1>3, <1>4, FlushSound
<1>6. Sound(rs') /\ SameSubscriber(rs, rs')
  BY <1>1, <1>3, <1>4, <1>5 DEF SameSubscriber
<1> QED BY <1>6, ServerStepInv DEF PendTimer, Rest, IndInv, TypeOK

(* An integrity tick preserves the invariant, stale or not.                *)
LEMMA IntegrityTickInv ==
  ASSUME IndInv, NEW g \in Timers, IntegrityTick(g) PROVE IndInv'
<1> DEFINE x == rs.intgLoops \ {g}
           r == [rs EXCEPT !.intgLoops = x]
<1>1. PICK acc \in Accepting :
        rs' = IF rs.intgStop = g THEN ReportAll(rs, "integrity", acc) ELSE r
  BY DEF IntegrityTick
<1>2. rs \in RCBState /\ x \in SUBSET Timers
  BY DEF IndInv, TypeOK, RCBState
<1> HIDE DEF x
<1>3. /\ r \in RCBState /\ SameSubscriber(rs, r)
      /\ r.buffer = rs.buffer /\ r.next = rs.next /\ r.sent = rs.sent
      /\ r.sqNum = rs.sqNum /\ r.emitted = rs.emitted
      /\ r.due = rs.due /\ r.bufOverflow = rs.bufOverflow
  BY <1>2, Zenon DEF RCBState, SameSubscriber
<1> HIDE DEF r
<1>4. Sound(r)
  BY <1>3, SoundFrame DEF IndInv
<1>5. "integrity" \in Reasons /\ rs.emitted + 2 < MaxEmitted
  BY DEF Reasons, IntegrityTick, MayEmit
<1>6. LET u == ReportAll(rs, "integrity", acc) IN Sound(u) /\ SameSubscriber(rs, u)
  BY <1>5, ReportAllSound DEF IndInv
<1>7. Sound(rs') /\ SameSubscriber(rs, rs')
  BY <1>1, <1>3, <1>4, <1>6
<1> QED BY <1>7, ServerStepInv DEF IntegrityTick, Rest, IndInv, TypeOK

(* The reservation callback preserves the invariant, stale or not.         *)
LEMMA ResvTimerInv ==
  ASSUME IndInv, NEW t \in Timers, ResvTimer(t) PROVE IndInv'
<1> DEFINE x == rv.resvCbs \ {t}
           v == [rv EXCEPT !.resvCbs = x]
           w == [v EXCEPT !.resvTimer = 0, !.resvIP = NoIP]
<1>1. rv' = IF rv.resvTimer = t /\ rv.owner = NoConn THEN Synced(w) ELSE v
  BY DEF ResvTimer
<1>2. rv \in Reservation /\ x \in SUBSET Timers /\ 0 \notin Timers
  BY RCBAssumption DEF IndInv, Firm, Reservation
<1>3. CASE rv.resvTimer = t /\ rv.owner = NoConn
  <2>1. ~ResvCfg
    BY <1>2, <1>3 DEF IndInv, Firm
  <2> HIDE DEF x
  <2>2. /\ w \in Reservation /\ w.owner = NoConn /\ w.resvIP = NoIP
        /\ w.resvTimer = 0 /\ w.resvCbs = x
    BY <1>2, <1>3, Zenon DEF Reservation
  <2> HIDE DEF w
  <2>3. Firm(rv') /\ rv'.owner = NoConn
    BY <1>1, <1>3, <2>1, <2>2, SyncedFirm DEF Firm
  <2> QED BY <1>3, <2>3, Preserved DEF ResvTimer, Rest, IndInv, TypeOK, SubscriberHolds
<1>4. CASE ~(rv.resvTimer = t /\ rv.owner = NoConn)
  <2>1. rv.owner = NoConn /\ rv.resvTimer \in rv.resvCbs => rv.resvTimer \in x
    BY <1>4
  <2> HIDE DEF x
  <2>2. /\ v \in Reservation /\ v.owner = rv.owner /\ v.resvIP = rv.resvIP
        /\ v.resvTimer = rv.resvTimer /\ v.resvCbs = x
        /\ v.resvAttr = rv.resvAttr /\ v.ownerAttr = rv.ownerAttr
    BY <1>2 DEF Reservation
  <2> HIDE DEF v
  <2>3. Firm(rv') /\ rv'.owner = rv.owner
    BY <1>1, <1>4, <2>1, <2>2 DEF Firm, IndInv
  <2> QED BY <2>3, Preserved DEF ResvTimer, Rest, IndInv, TypeOK, SubscriberHolds
<1> QED BY <1>3, <1>4

(* A new connection preserves the invariant.                               *)
LEMMA ConnectInv ==
  ASSUME IndInv, NEW c \in Conns, Connect(c) PROVE IndInv'
<1>1. SubscriberHolds'
  BY DEF IndInv, Connect, SubscriberHolds
<1>2. Sound(rs') /\ Firm(rv')
  BY DEF IndInv, Connect
<1> QED BY <1>1, <1>2, Preserved DEF IndInv, TypeOK, Connect

(* disableConn preserves the invariant.                                    *)
LEMMA DisconnectInv ==
  ASSUME IndInv, NEW c \in Conns, Disconnect(c) PROVE IndInv'
<1> DEFINE v == IF rs.conn = c THEN DisableReleases(rv) ELSE rv
<1>1. PICK acc \in Accepting : rs' = IF rs.conn = c THEN Disable(rs, acc) ELSE rs
  BY DEF Disconnect
<1>2. rv' = IF v.owner = c THEN Release(v) ELSE v
  BY DEF Disconnect
<1>3. rv.resvCbs # Timers /\ c # NoConn /\ TypeOK /\ Firm(rv)
  BY RCBAssumption DEF Disconnect, MayStart, IndInv
<1>4. /\ Firm(v) /\ v.owner \in {rv.owner, NoConn}
      /\ v.owner = c => v = rv
  BY <1>3, ReleaseFirm DEF DisableReleases
<1> HIDE DEF v
<1>5. Firm(rv') /\ rv'.owner \in {rv.owner, NoConn} /\ rv'.owner # c
  BY <1>2, <1>3, <1>4, ReleaseFirm
<1>6. CASE rs.conn = c
  <2>1. Sound(rs') /\ ~rs'.enabled /\ rs'.conn = NoConn
    BY <1>1, <1>6, DisableSound DEF Disconnect, MayFlush, IndInv
  <2>2. SubscriberHolds'
    BY <1>5, <2>1 DEF Disconnect, SubscriberHolds, IndInv
  <2> QED BY <1>5, <2>1, <2>2, Preserved DEF Disconnect, IndInv, TypeOK
<1>7. CASE rs.conn # c
  <2>1. rs' = rs
    BY <1>1, <1>7
  <2>2. rs.enabled => rv.owner = rs.conn /\ rv' = rv
    BY <1>2, <1>4, <1>7 DEF IndInv, SubscriberHolds, v
  <2>3. SubscriberHolds'
    BY <1>5, <2>1, <2>2 DEF Disconnect, SubscriberHolds, IndInv
  <2> QED BY <1>5, <2>1, <2>3, Preserved DEF Disconnect, IndInv, TypeOK
<1> QED BY <1>6, <1>7

(* Every step of the block preserves the inductive invariant.              *)
LEMMA NextInv == IndInv /\ [Next]_vars => IndInv'
<1> SUFFICES ASSUME IndInv, [Next]_vars PROVE IndInv'
  OBVIOUS
<1>1. ASSUME NEW c \in Conns, ClientWrite(c) PROVE IndInv'
  BY <1>1, WriteEnaTrueInv, WriteEnaFalseInv, WriteGIInv, WriteResvInv, WritePurgeBufInv,
     WriteResvTmsInv, WriteEntryIDInv, WriteDatSetInv, WriteSettingsInv DEF ClientWrite
<1>2. ASSUME NEW c \in Conns, Connect(c) \/ Disconnect(c) PROVE IndInv'
  BY <1>2, ConnectInv, DisconnectInv
<1>3. ASSUME NEW S \in SUBSET Leaves, Update(S) PROVE IndInv'
  BY <1>3, UpdateInv
<1>4. ASSUME NEW t \in Timers, PendTimer(t) \/ ResvTimer(t) \/ IntegrityTick(t) PROVE IndInv'
  BY <1>4, PendTimerInv, ResvTimerInv, IntegrityTickInv
<1>5. CASE UNCHANGED vars
  BY <1>5 DEF vars, IndInv, TypeOK, SubscriberHolds
<1> QED BY <1>1, <1>2, <1>3, <1>4, <1>5 DEF Next, Callback

(* The inductive invariant holds of every reachable state of the block.    *)
THEOREM Invariant == Spec => []IndInv
<1> QED BY InitInv, NextInv, PTL DEF Spec

(* Every field keeps its type through every write, callback and loss of a  *)
(* connection.                                                             *)
THEOREM TypeCorrect == Spec => []TypeOK
<1>1. IndInv => TypeOK
  BY DEF IndInv
<1> QED BY <1>1, Invariant, PTL

(* For every depth of the buffer: it never holds more than that, never has *)
(* a hole, and next never leaves it (emitLocked, enableLocked).            *)
THEOREM BufferContiguous == Spec => []ContiguousBuffer
<1>1. IndInv => ContiguousBuffer
  BY DEF IndInv, Sound, Contiguous, ContiguousBuffer
<1> QED BY <1>1, Invariant, PTL

(* Whatever is refused, discarded or skipped, the subscriber of a BRCB     *)
(* never takes a report past a gap without BufOvfl (transmitLocked).       *)
THEOREM GapsAreTold == Spec => []NoSilentGap
<1>1. IndInv => NoSilentGap
  BY DEF IndInv, Sound, Told, NoSilentGap
<1> QED BY <1>1, Invariant, PTL

(* Through refusals, discards and resynchronisations, what one enabling    *)
(* sends is numbered from zero without a hole and goes out once and in the *)
(* order it was emitted, for every width of SqNum (transmitLocked).        *)
THEOREM ReportsNumbered == Spec => []NumberedInOrder
<1>1. IndInv => NumberedInOrder
  BY DEF IndInv, Sound, Numbered, NumberedInOrder
<1> QED BY <1>1, Invariant, PTL

(* A block is enabled exactly for the connected client that holds it, and  *)
(* is held by nobody else (disableConn, checkRCBWrite).                    *)
THEOREM SubscriberIsHolder == Spec => []SubscriberHolds
<1>1. IndInv => SubscriberHolds
  BY DEF IndInv
<1> QED BY <1>1, Invariant, PTL

(* No sequence of releases, returns and ResvTms writes leaves a block      *)
(* reserved for an absent client without a timer (releaseLocked).          *)
THEOREM ReservationIsTimed == Spec => []ReservationTimed
<1>1. IndInv => ReservationTimed
  BY DEF IndInv, Firm, ReservationTimed
<1> QED BY <1>1, Invariant, PTL

(* A configured reservation is never lost, nor the block held from another *)
(* address (allowedLocked, takeLocked, releaseLocked).                     *)
THEOREM ConfiguredReservation == Spec => []ConfiguredStands
<1>1. IndInv => ConfiguredStands
  BY DEF IndInv, Firm, ConfiguredStands
<1> QED BY <1>1, Invariant, PTL

(* The Resv and Owner attributes always show the reservation in force      *)
(* (syncResvLocked).                                                       *)
THEOREM ReservationShown == Spec => []ReservationVisible
<1>1. IndInv => ReservationVisible
  BY DEF IndInv, Firm, ReservationVisible
<1> QED BY <1>1, Invariant, PTL

-----------------------------------------------------------------------------
(* A step either leaves the block with its holder, frees it, or gives it   *)
(* to a client allowedLocked admits.                                       *)
Admits(c) == Allowed(rv, c) /\ rv'.owner = c
Keeps == rv'.owner \in {rv.owner, NoConn}

(* An accepted write leaves the block with its writer, or frees it.        *)
LEMMA WriteAdmits ==
  ASSUME IndInv, NEW c \in Conns, ClientWrite(c) PROVE Admits(c) \/ Keeps
<1>0. MayWrite(c) => Reserved(rv, c).owner = c /\ Firm(Reserved(rv, c))
  BY ReservedFirm DEF MayWrite, IndInv
<1>1. CASE WriteRptEnaTrue(c)
  BY <1>0, <1>1 DEF WriteRptEnaTrue, EnableTakes, MayWrite, Admits
<1>2. CASE WriteRptEnaFalse(c)
  <2>1. Reserved(rv, c).resvCbs # Timers
    BY <1>2, ReservedFirm DEF WriteRptEnaFalse, MayWrite, MayStart, IndInv
  <2> QED BY <1>0, <1>2, <2>1, ReleaseFirm
          DEF WriteRptEnaFalse, DisableReleases, MayWrite, Admits, Keeps, IndInv
<1>3. ASSUME NEW on \in BOOLEAN, WriteResv(c, on) PROVE Admits(c) \/ Keeps
  <2>1. on => Take(rv, c).owner = c
    BY <1>3, TakeFirm DEF WriteResv, MayWrite, IndInv
  <2>2. ~on => Release(rv).owner = NoConn
    BY <1>3, ReleaseFirm DEF WriteResv, IndInv
  <2> QED BY <1>3, <2>1, <2>2 DEF WriteResv, MayWrite, Admits, Keeps
<1>4. ASSUME NEW tms \in ResvTmss, WriteResvTms(c, tms) PROVE Admits(c)
  <2> DEFINE v == Reserved(rv, c)
             t == IF tms = 0 THEN 0 ELSE v.resvTimer
  <2>1. Allowed(rv, c) /\ v.owner = c /\ v \in Reservation
    BY <1>0, <1>4 DEF WriteResvTms, MayConfigure, MayWrite, Firm
  <2>2. rv' = [v EXCEPT !.resvTimer = t]
    BY <1>4, <2>1 DEF WriteResvTms, Reservation
  <2> HIDE DEF v, t
  <2> QED BY <2>1, <2>2 DEF Reservation, Admits
<1>5. CASE rv' = Reserved(rv, c) /\ MayWrite(c)
  BY <1>0, <1>5 DEF MayWrite, Admits
<1> QED BY <1>1, <1>2, <1>3, <1>4, <1>5
       DEF ClientWrite, WriteGI, WritePurgeBuf, WriteEntryID, WriteDatSet, WriteSettings,
           MayConfigure

(* The loss of a connection gives the block to nobody.                     *)
LEMMA DisconnectKeeps ==
  ASSUME IndInv, NEW c \in Conns, Disconnect(c) PROVE Keeps
<1> DEFINE v == IF rs.conn = c THEN DisableReleases(rv) ELSE rv
<1>1. rv.resvCbs # Timers /\ TypeOK /\ Firm(rv) /\ c # NoConn
  BY RCBAssumption DEF Disconnect, MayStart, IndInv
<1>2. v = rv \/ (Firm(v) /\ v.owner = NoConn)
  BY <1>1, ReleaseFirm DEF DisableReleases
<1>3. rv' = IF v.owner = c THEN Release(v) ELSE v
  BY DEF Disconnect
<1> HIDE DEF v
<1> QED BY <1>1, <1>2, <1>3, ReleaseFirm DEF Keeps

(* A reservation callback gives the block to nobody.                       *)
LEMMA ResvTimerKeepsOwner ==
  ASSUME IndInv, NEW t \in Timers, ResvTimer(t) PROVE Keeps
<1> DEFINE x == rv.resvCbs \ {t}
           v == [rv EXCEPT !.resvCbs = x]
           w == [v EXCEPT !.resvTimer = 0, !.resvIP = NoIP]
<1>1. rv' = IF rv.resvTimer = t /\ rv.owner = NoConn THEN Synced(w) ELSE v
  BY DEF ResvTimer
<1>2. rv \in Reservation /\ x \in SUBSET Timers
  BY DEF IndInv, Firm, Reservation
<1> HIDE DEF x
<1>3. v.owner = rv.owner /\ w \in Reservation /\ w.owner = rv.owner
  BY <1>2, Zenon DEF Reservation
<1> HIDE DEF v, w
<1> QED BY <1>1, <1>3, SyncedFirm DEF Keeps

(* A block never passes from one client to another without being released, *)
(* nor to a stranger while it is held for an absent one (allowedLocked).   *)
THEOREM HolderIsSafe == Spec => NoTakeover
<1> DEFINE P == /\ rv.owner # NoConn /\ rv'.owner # NoConn => rv'.owner = rv.owner
                /\ rv.owner = NoConn /\ rv.resvIP # NoIP /\ rv'.owner # NoConn
                     => AddrOf[rv'.owner] = rv.resvIP
<1>1. ASSUME NEW c \in Conns, Admits(c) PROVE P
  BY <1>1 DEF Admits, Allowed
<1>2. Keeps => P
  BY DEF Keeps
<1>3. IndInv /\ [Next]_vars => [P]_vars
  <2> SUFFICES ASSUME IndInv, Next PROVE P
    OBVIOUS
  <2> HIDE DEF P
  <2>1. ASSUME NEW c \in Conns, ClientWrite(c) PROVE P
    BY <1>1, <1>2, <2>1, WriteAdmits
  <2>2. ASSUME NEW c \in Conns, Disconnect(c) PROVE P
    BY <1>2, <2>2, DisconnectKeeps
  <2>3. ASSUME NEW t \in Timers, ResvTimer(t) PROVE P
    BY <1>2, <2>3, ResvTimerKeepsOwner
  <2>4. rv' = rv => P
    BY <1>2 DEF Keeps
  <2> QED BY <2>1, <2>2, <2>3, <2>4, Zenon DEF Next, Callback, Connect, Update, PendTimer, IntegrityTick
<1> QED BY <1>3, Invariant, PTL DEF Spec, NoTakeover
=============================================================================
