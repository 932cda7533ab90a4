-------------------------- MODULE ServerConnProofs --------------------------
(***************************************************************************)
(* Of an association, for any number of requests, identifiers and reports  *)
(* and every capacity of the queue: a request has at most one answer, and  *)
(* reports keep their place around the responses and are not lost.         *)
(***************************************************************************)
EXTENDS ServerConn, SequenceTheorems, TLAPS

(* What is held, queued and pumped is never an answer.                     *)
Unconf == [k : {"lastApplError", "termination", "report", "call", "cancelled", "unknown"}, n : Nat]
Written1 == [k : {"lastApplError", "termination", "report", "call", "cancelled", "unknown"} \cup Answers, n : Nat]

Shape ==
  /\ reqs \in Seq([id : Ids, kind : Kinds]) /\ Len(reqs) <= MaxRequests
  /\ DOMAIN sc = {"phase", "cur", "inReq", "out", "found", "before", "after", "ahead", "behind"}
  /\ sc.cur \in Nat
  /\ sc.before \in Seq(Unconf) /\ sc.after \in Seq(Unconf)
  /\ sc.ahead \in Seq(Unconf) /\ sc.behind \in Seq(Unconf)
  /\ queue \in Seq(Unconf) /\ wire \in Seq(Written1)
  /\ task = [r \in Requests |-> task[r]]
  /\ owed \subseteq Nat /\ term \in Nat /\ report \in Nat /\ made \in Nat

(* The request in hand is the last one received and no goroutine runs for  *)
(* it yet; goroutines run only for requests received.                      *)
InHand(c) == c.phase \in {"handle", "answer"}
Hands ==
  /\ InHand(sc) => sc.cur = Len(reqs) /\ Len(reqs) >= 1 /\ task[Len(reqs)] = "none"
  /\ \A r \in Requests : task[r] # "none" => r <= Len(reqs)

(* Who will still answer a request: Serve, or the request's goroutine.     *)
Unsent == {"run", "call", "called"} \cup Answers
Busy(c, t, r) == (InHand(c) /\ r = c.cur) \/ (r \in Requests /\ t[r] \in Unsent)

(* AnsweredOnce is not inductive: a request that has its answer must have  *)
(* nobody left to answer it.                                               *)
Settled ==
  \A i \in 1..Len(wire) : wire[i].k \in Answers =>
    wire[i].n \in 1..Len(reqs) /\ ~Busy(sc, task, wire[i].n)

IndInv == Shape /\ Hands /\ Settled /\ AnsweredOnce

LEMMA InitSound == ASSUME Init PROVE IndInv
<1>1. Shape
  BY ConnAssumption DEF Init, Shape
<1>2. Hands
  BY DEF Init, Hands, InHand
<1>3. Settled /\ AnsweredOnce
  BY DEF Init, Settled, AnsweredOnce
<1> QED BY <1>1, <1>2, <1>3 DEF IndInv

-----------------------------------------------------------------------------
(* A step that writes no answer and makes nobody busy with an old request. *)
LEMMA QuietStep ==
  ASSUME IndInv, Shape', Hands',
         wire' = wire \/ (\E p \in Unconf : wire' = wire \o <<p>>),
         Len(reqs') >= Len(reqs),
         \A r \in 1..Len(reqs) : Busy(sc', task', r) => Busy(sc, task, r)
  PROVE  IndInv'
<1>1. wire \in Seq(Written1) /\ Len(reqs) \in Nat
  BY DEF IndInv, Shape
<1>5. Len(reqs') \in Nat
  BY DEF Shape
<1>2. \A i \in 1..Len(wire') : wire'[i].k \in Answers => i \in 1..Len(wire) /\ wire'[i] = wire[i]
  <2>1. CASE wire' = wire
    BY <2>1
  <2>2. ASSUME NEW p \in Unconf, wire' = wire \o <<p>>
        PROVE  \A i \in 1..Len(wire') : wire'[i].k \in Answers => i \in 1..Len(wire) /\ wire'[i] = wire[i]
    <3>1. Len(wire') = Len(wire) + 1 /\ wire'[Len(wire) + 1] = p
          /\ \A i \in 1..Len(wire) : wire'[i] = wire[i]
      BY <1>1, <2>2 DEF Written1, Unconf
    <3>2. p.k \notin Answers
      BY DEF Unconf, Answers
    <3> QED BY <1>1, <3>1, <3>2
  <2> QED BY <2>1, <2>2, Zenon
<1>3. Settled'
  <2> SUFFICES ASSUME NEW i \in 1..Len(wire'), wire'[i].k \in Answers
               PROVE  wire'[i].n \in 1..Len(reqs') /\ ~Busy(sc', task', wire'[i].n)
    BY DEF Settled
  <2>1. wire[i].n \in 1..Len(reqs) /\ ~Busy(sc, task, wire[i].n) /\ wire'[i] = wire[i]
    BY <1>2 DEF IndInv, Settled
  <2>2. ~Busy(sc', task', wire[i].n)
    BY <2>1
  <2> QED BY <1>1, <1>5, <2>1, <2>2
<1>4. AnsweredOnce'
  BY <1>2 DEF IndInv, AnsweredOnce
<1> QED BY <1>3, <1>4 DEF IndInv

(* A step that writes the answer of a request somebody was busy with.      *)
LEMMA AnswerStep ==
  ASSUME IndInv, Shape', Hands', NEW r \in 1..Len(reqs), NEW a \in Answers,
         Busy(sc, task, r), reqs' = reqs, wire' = wire \o <<PDU(a, r)>>,
         \A q \in 1..Len(reqs) : Busy(sc', task', q) => Busy(sc, task, q) /\ q # r
  PROVE  IndInv'
<1>1. wire \in Seq(Written1) /\ Len(reqs) \in Nat /\ PDU(a, r) \in Written1
  BY DEF IndInv, Shape, PDU, Written1
<1>2. /\ Len(wire') = Len(wire) + 1 /\ wire'[Len(wire) + 1] = PDU(a, r)
      /\ \A i \in 1..Len(wire) : wire'[i] = wire[i]
  BY <1>1 DEF Written1
<1>3. PDU(a, r).n = r
  BY DEF PDU
<1>4. \A i \in 1..Len(wire) : wire[i].k \in Answers => wire[i].n \in 1..Len(reqs) /\ wire[i].n # r
  BY DEF IndInv, Settled
<1>5. Settled'
  <2> SUFFICES ASSUME NEW i \in 1..Len(wire'), wire'[i].k \in Answers
               PROVE  wire'[i].n \in 1..Len(reqs) /\ ~Busy(sc', task', wire'[i].n)
    BY DEF Settled
  <2>1. CASE i = Len(wire) + 1
    <3>1. wire'[i].n = r /\ ~Busy(sc', task', r)
      BY <1>2, <1>3, <2>1
    <3> QED BY <3>1
  <2>2. CASE i \in 1..Len(wire)
    <3>1. wire'[i] = wire[i] /\ wire[i].n \in 1..Len(reqs) /\ ~Busy(sc, task, wire[i].n)
      BY <1>2, <2>2 DEF IndInv, Settled
    <3>2. ~Busy(sc', task', wire[i].n)
      BY <3>1
    <3> QED BY <3>1, <3>2
  <2> QED BY <1>1, <1>2, <2>1, <2>2
<1>6. AnsweredOnce'
  <2> SUFFICES ASSUME NEW i \in 1..Len(wire'), NEW j \in 1..Len(wire'),
                      wire'[i].k \in Answers, wire'[j].k \in Answers, wire'[i].n = wire'[j].n
               PROVE  i = j
    BY DEF AnsweredOnce
  <2>1. CASE i \in 1..Len(wire) /\ j \in 1..Len(wire)
    BY <1>2, <2>1 DEF IndInv, AnsweredOnce
  <2> QED BY <1>1, <1>2, <1>3, <1>4, <2>1
<1> QED BY <1>5, <1>6 DEF IndInv

(* A step that takes no request in hand and starts no goroutine.           *)
LEMMA SteadyStep ==
  ASSUME IndInv, Shape', reqs' = reqs,
         wire' = wire \/ (\E p \in Unconf : wire' = wire \o <<p>>),
         InHand(sc') => InHand(sc) /\ sc'.cur = sc.cur,
         \A r \in Requests : /\ task'[r] \in Unsent => task[r] \in Unsent
                             /\ task[r] = "none" <=> task'[r] = "none"
  PROVE  IndInv'
<1>1. Len(reqs) \in Nat /\ Len(reqs) <= MaxRequests
  BY DEF IndInv, Shape
<1>2. Hands'
  <2>1. InHand(sc') => sc'.cur = Len(reqs') /\ Len(reqs') >= 1 /\ task'[Len(reqs')] = "none"
    BY <1>1, ConnAssumption DEF IndInv, Hands, Requests
  <2>2. \A r \in Requests : task'[r] # "none" => r <= Len(reqs')
    BY DEF IndInv, Hands
  <2> QED BY <2>1, <2>2 DEF Hands, Requests
<1>3. \A r \in 1..Len(reqs) : Busy(sc', task', r) => Busy(sc, task, r)
  BY DEF Busy
<1>4. Len(reqs') >= Len(reqs)
  BY <1>1
<1> QED BY <1>2, <1>3, <1>4, QuietStep, Zenon

(* What Written leaves of one PDU.                                         *)
LEMMA WrittenOne ==
  ASSUME NEW p, wire' = Written(<<p>>)
  PROVE  wire' = wire \/ wire' = wire \o <<p>>
BY DEF Written

LEMMA WrittenSeq ==
  ASSUME Shape, NEW p \in Written1, wire' = Written(<<p>>)
  PROVE  wire' \in Seq(Written1)
<1>1. ASSUME NEW S, NEW w \in Seq(S), NEW x \in S PROVE w \o <<x>> \in Seq(S)
  OBVIOUS
<1>2. wire \in Seq(Written1)
  BY DEF Shape
<1> QED BY <1>1, <1>2, WrittenOne, SMTT(30)

LEMMA PDUUnconf ==
  ASSUME NEW k \in {"lastApplError", "termination", "report", "call", "cancelled", "unknown"}, NEW n \in Nat
  PROVE  PDU(k, n) \in Unconf
BY DEF PDU, Unconf

LEMMA ReceiveSound ==
  ASSUME IndInv, NEW kind \in Kinds, Receive(kind) PROVE IndInv'
<1> DEFINE q == [id |-> CHOOSE id \in Ids : Usable(id), kind |-> kind]
<1>1. q \in [id : Ids, kind : Kinds]
  BY DEF Receive
<1>2. reqs' = Append(reqs, q) /\ Len(reqs) < MaxRequests
  BY DEF Receive
<1> HIDE DEF q
<1>3. /\ reqs' \in Seq([id : Ids, kind : Kinds]) /\ Len(reqs') = Len(reqs) + 1
      /\ Len(reqs) \in Nat /\ Len(reqs') <= MaxRequests
  BY <1>1, <1>2, ConnAssumption, SMTT(30) DEF IndInv, Shape
<1>4. /\ DOMAIN sc' = DOMAIN sc /\ sc'.phase = "handle" /\ sc'.cur = Len(reqs) + 1
      /\ sc'.before = sc.before /\ sc'.after = sc.after /\ sc'.ahead = sc.ahead /\ sc'.behind = sc.behind
  BY DEF Receive, IndInv, Shape
<1>5. UNCHANGED <<queue, task, owed, term, report, made, wire>>
  BY DEF Receive, deferrals, terms, reporting
<1>6. Shape'
  BY <1>3, <1>4, <1>5 DEF IndInv, Shape
<1>7. Len(reqs) + 1 \in Requests
  BY <1>3, ConnAssumption DEF Requests
<1>8. Hands'
  <2>1. task[Len(reqs) + 1] = "none"
    BY <1>3, <1>7 DEF IndInv, Hands
  <2>2. \A r \in Requests : task[r] # "none" => r <= Len(reqs')
    BY <1>3, ConnAssumption DEF IndInv, Hands, Requests
  <2> QED BY <1>3, <1>4, <1>5, <2>1, <2>2 DEF Hands, Requests
<1>9. \A r \in 1..Len(reqs) : Busy(sc', task', r) => Busy(sc, task, r)
  BY <1>3, <1>4, <1>5 DEF Busy
<1> QED BY <1>3, <1>5, <1>6, <1>8, <1>9, QuietStep

LEMMA RunDeferredSound ==
  ASSUME IndInv, RunDeferred PROVE IndInv'
<1>1. InHand(sc) /\ sc.cur = Len(reqs) /\ Len(reqs) >= 1 /\ Len(reqs) \in Nat /\ Len(reqs) <= MaxRequests
  BY DEF RunDeferred, IndInv, Hands, InHand, Shape
<1>2. sc.cur \in Requests
  BY <1>1, ConnAssumption DEF Requests
<1>3. /\ DOMAIN sc' = DOMAIN sc /\ sc'.phase = "after" /\ sc'.cur = sc.cur
      /\ sc'.before = sc.before /\ sc'.after = sc.after /\ sc'.ahead = sc.ahead /\ sc'.behind = sc.behind
  BY DEF RunDeferred, IndInv, Shape
<1>4. UNCHANGED <<reqs, queue, owed, term, report, made, wire>>
  BY DEF RunDeferred, terms, reporting
<1>5. /\ task' = [r \in Requests |-> task'[r]] /\ task'[sc.cur] = "run"
      /\ \A r \in Requests \ {sc.cur} : task'[r] = task[r]
  BY <1>2, Zenon DEF RunDeferred, IndInv, Shape
<1>6. Shape'
  BY <1>3, <1>4, <1>5 DEF IndInv, Shape
<1>7. Hands'
  <2>1. ~InHand(sc')
    BY <1>3 DEF InHand
  <2>2. \A r \in Requests : task'[r] # "none" => r <= Len(reqs')
    BY <1>1, <1>4, <1>5 DEF IndInv, Hands
  <2> QED BY <2>1, <2>2 DEF Hands, Requests
<1>8. \A r \in 1..Len(reqs) : Busy(sc', task', r) => Busy(sc, task, r)
  BY <1>1, <1>3, <1>5 DEF Busy, InHand
<1> QED BY <1>1, <1>4, <1>6, <1>7, <1>8, QuietStep

LEMMA AnswerSound ==
  ASSUME IndInv, Answer PROVE IndInv'
<1> DEFINE a == IF sc.out \in {"refused", "error", "nil"} THEN "error" ELSE "positive"
<1>1. InHand(sc) /\ sc.cur = Len(reqs) /\ Len(reqs) >= 1 /\ Len(reqs) \in Nat /\ task[Len(reqs)] = "none"
  BY DEF Answer, IndInv, Hands, InHand, Shape
<1>2. /\ DOMAIN sc' = DOMAIN sc /\ sc'.phase \in {"over", "after"} /\ sc'.cur = sc.cur
      /\ sc'.before = sc.before /\ sc'.after = sc.after /\ sc'.ahead = sc.ahead /\ sc'.behind = sc.behind
  BY DEF Answer, IndInv, Shape, Phase
<1>3. UNCHANGED <<reqs, queue, task, owed, term, report, made>>
  BY DEF Answer, deferrals, terms, reporting
<1>4. a \in Answers /\ wire' = Written(<<PDU(a, sc.cur)>>)
  BY DEF Answer, Answers
<1> HIDE DEF a
<1>5. sc.cur \in 1..Len(reqs) /\ PDU(a, sc.cur) \in Written1
  BY <1>1, <1>4 DEF PDU, Written1
<1>6. wire' \in Seq(Written1)
  BY <1>4, <1>5, WrittenSeq DEF IndInv
<1>7. Shape'
  BY <1>2, <1>3, <1>6 DEF IndInv, Shape
<1>8. ~InHand(sc')
  BY <1>2 DEF InHand
<1>9. CASE wire' = wire
  BY <1>3, <1>7, <1>8, <1>9, SteadyStep
<1>10. CASE wire' = wire \o <<PDU(a, sc.cur)>>
  <2>1. Hands'
    BY <1>3, <1>8 DEF IndInv, Hands, Requests
  <2>2. Busy(sc, task, sc.cur)
    BY <1>1 DEF Busy
  <2>3. \A q \in 1..Len(reqs) : Busy(sc', task', q) => Busy(sc, task, q) /\ q # sc.cur
    BY <1>1, <1>3, <1>8 DEF Busy, Unsent, Answers
  <2> QED BY <1>3, <1>4, <1>5, <1>7, <1>10, <2>1, <2>2, <2>3, AnswerStep, SMTT(30)
<1> QED BY <1>4, <1>9, <1>10, WrittenOne

LEMMA TaskSendsSound ==
  ASSUME IndInv, NEW r \in Requests, TaskSends(r) PROVE IndInv'
<1>1. /\ task[r] \in Answers /\ wire' = Written(<<PDU(task[r], r)>>)
      /\ UNCHANGED <<reqs, sc, queue, owed, term, report, made>>
  BY DEF TaskSends, terms, reporting
<1>2. /\ task' = [q \in Requests |-> task'[q]] /\ task'[r] = "sent"
      /\ \A q \in Requests \ {r} : task'[q] = task[q]
  BY Zenon DEF TaskSends, IndInv, Shape
<1>3. task[r] # "none" /\ r \in 1..Len(reqs) /\ Len(reqs) \in Nat
  <2>1. task[r] # "none"
    BY <1>1 DEF Answers
  <2>2. r <= Len(reqs)
    BY <2>1 DEF IndInv, Hands
  <2>3. Len(reqs) \in Nat
    BY DEF IndInv, Shape
  <2>4. r \in Nat /\ r >= 1
    BY ConnAssumption DEF Requests
  <2> QED BY <2>1, <2>2, <2>3, <2>4
<1>4. PDU(task[r], r) \in Written1
  BY <1>1, <1>3 DEF PDU, Written1
<1>5. wire' \in Seq(Written1)
  BY <1>1, <1>4, WrittenSeq DEF IndInv
<1>6. Shape'
  BY <1>1, <1>2, <1>5 DEF IndInv, Shape
<1>7. \A q \in Requests : /\ task'[q] \in Unsent => task[q] \in Unsent /\ q # r
                          /\ task[q] = "none" <=> task'[q] = "none"
  BY <1>2, <1>3 DEF Unsent, Answers
<1>8. CASE wire' = wire
  BY <1>1, <1>6, <1>7, <1>8, SteadyStep
<1>9. CASE wire' = wire \o <<PDU(task[r], r)>>
  <2>1. Hands'
    <3>1. InHand(sc) => task'[Len(reqs)] = "none"
      BY <1>1, <1>2, <1>3, SMTT(30) DEF IndInv, Hands, Shape, Requests
    <3>2. \A q \in Requests : task'[q] # "none" => q <= Len(reqs)
      BY <1>7 DEF IndInv, Hands
    <3> QED BY <1>1, <3>1, <3>2 DEF IndInv, Hands, Requests
  <2>2. Busy(sc, task, r)
    BY <1>1 DEF Busy, Unsent
  <2>3. \A q \in 1..Len(reqs) : Busy(sc', task', q) => Busy(sc, task, q) /\ q # r
    BY <1>1, <1>3, <1>7 DEF Busy, IndInv, Hands
  <2> QED BY <1>1, <1>3, <1>6, <1>9, <2>1, <2>2, <2>3, AnswerStep, SMTT(30)
<1> QED BY <1>1, <1>8, <1>9, WrittenOne

-----------------------------------------------------------------------------
(* Sequences of unconfirmed PDUs stay such.                                *)
LEMMA UnconfSeq ==
  ASSUME NEW q \in Seq(Unconf)
  PROVE  /\ \A p \in Unconf : Append(q, p) \in Seq(Unconf)
         /\ q # <<>> => Head(q) \in Unconf /\ Tail(q) \in Seq(Unconf)
<1>1. ASSUME NEW S, NEW w \in Seq(S) PROVE /\ \A p \in S : Append(w, p) \in Seq(S)
                                         /\ w # <<>> => Head(w) \in S /\ Tail(w) \in Seq(S)
  OBVIOUS
<1> QED BY <1>1

LEMMA UnconfWritten ==
  ASSUME IndInv, NEW p \in Unconf, wire' = Written(<<p>>)
  PROVE  wire' \in Seq(Written1) /\ (wire' = wire \/ (\E x \in Unconf : wire' = wire \o <<x>>))
<1>1. p \in Written1
  BY DEF Unconf, Written1
<1> QED BY <1>1, WrittenSeq, WrittenOne, SMTT(30) DEF IndInv

(* Steps of the Serve goroutine that answer nothing.                       *)
ServeKeeps ==
  /\ DOMAIN sc' = DOMAIN sc /\ sc'.cur \in Nat
  /\ sc'.before \in Seq(Unconf) /\ sc'.after \in Seq(Unconf)
  /\ sc'.ahead \in Seq(Unconf) /\ sc'.behind \in Seq(Unconf)
  /\ InHand(sc') => InHand(sc) /\ sc'.cur = sc.cur

LEMMA ServeStep ==
  ASSUME IndInv, ServeKeeps, UNCHANGED <<reqs, task, report, made>>,
         queue' \in Seq(Unconf), owed' \subseteq Nat, term' \in Nat,
         wire' = wire \/ (\E p \in Unconf : wire' = Written(<<p>>))
  PROVE  IndInv'
<1>1. wire' \in Seq(Written1) /\ (wire' = wire \/ (\E x \in Unconf : wire' = wire \o <<x>>))
  BY UnconfWritten, Zenon DEF IndInv, Shape
<1>2. Shape'
  BY <1>1 DEF IndInv, Shape, ServeKeeps
<1> QED BY <1>1, <1>2, SteadyStep, Zenon DEF ServeKeeps

LEMMA DecideSound ==
  ASSUME IndInv, NEW out, Decide(out) PROVE IndInv'
<1>1. PDU("lastApplError", sc.cur) \in Unconf /\ PDU("termination", sc.cur) \in Unconf
  BY PDUUnconf DEF IndInv, Shape
<1>2. Append(sc.before, PDU("lastApplError", sc.cur)) \in Seq(Unconf)
      /\ Append(sc.after, PDU("termination", sc.cur)) \in Seq(Unconf)
  BY <1>1, UnconfSeq DEF IndInv, Shape
<1>3. /\ DOMAIN sc' = DOMAIN sc /\ sc'.cur = sc.cur /\ sc'.phase = sc.phase
      /\ sc'.before \in {sc.before, Append(sc.before, PDU("lastApplError", sc.cur))}
      /\ sc'.after \in {sc.after, Append(sc.after, PDU("termination", sc.cur))}
      /\ sc'.ahead = sc.ahead /\ sc'.behind = sc.behind
  BY DEF Decide, IndInv, Shape
<1>4. ServeKeeps
  BY <1>2, <1>3, Zenon DEF ServeKeeps, InHand, IndInv, Shape
<1>5. UNCHANGED <<reqs, task, report, made, queue, term, wire>> /\ owed' \subseteq owed \cup {sc.cur}
  BY DEF Decide, deferrals, reporting
<1> QED BY <1>4, <1>5, ServeStep DEF IndInv, Shape

LEMMA EndRequestSound ==
  ASSUME IndInv, EndRequest PROVE IndInv'
<1>1. ServeKeeps
  BY DEF EndRequest, ServeKeeps, InHand, IndInv, Shape
<1>2. UNCHANGED <<reqs, task, report, made, queue, term, owed, wire>>
  BY DEF EndRequest, deferrals, terms, reporting
<1> QED BY <1>1, <1>2, ServeStep, SMTT(30) DEF IndInv, Shape

LEMMA SendBeforeSound ==
  ASSUME IndInv, SendBefore PROVE IndInv'
<1>1. Head(sc.ahead) \in Unconf /\ Tail(sc.ahead) \in Seq(Unconf)
  BY UnconfSeq DEF SendBefore, IndInv, Shape
<1>2. ServeKeeps
  BY <1>1 DEF SendBefore, ServeKeeps, InHand, IndInv, Shape, Phase
<1>3. UNCHANGED <<reqs, task, report, made, queue, term, owed>> /\ wire' = Written(<<Head(sc.ahead)>>)
  BY DEF SendBefore, deferrals, terms, reporting
<1> QED BY <1>1, <1>2, <1>3, ServeStep, Zenon DEF IndInv, Shape

LEMMA QueueAfterSound ==
  ASSUME IndInv, QueueAfter PROVE IndInv'
<1>1. UNCHANGED <<reqs, task, report, made, term, owed, wire>>
  BY DEF QueueAfter, deferrals, terms, reporting
<1>2. CASE sc.behind # <<>>
  <2>1. Head(sc.behind) \in Unconf /\ Tail(sc.behind) \in Seq(Unconf)
    BY <1>2, UnconfSeq DEF IndInv, Shape
  <2>2. queue' \in Seq(Unconf)
    <3>1. queue \in Seq(Unconf) /\ queue' \in {queue, Append(queue, Head(sc.behind))}
      BY <1>2 DEF QueueAfter, IndInv, Shape
    <3> QED BY <2>1, <3>1, UnconfSeq
  <2>3. sc.phase = "after" /\ sc' = [sc EXCEPT !.behind = Tail(sc.behind)]
    BY <1>2 DEF QueueAfter
  <2>4. ServeKeeps
    BY <2>1, <2>3, SMTT(30) DEF ServeKeeps, InHand, IndInv, Shape
  <2> QED BY <1>1, <2>2, <2>4, ServeStep, SMTT(30) DEF IndInv, Shape
<1>3. CASE sc.behind = <<>>
  <2>1. sc' = [sc EXCEPT !.phase = "read", !.cur = 0, !.out = "none"] /\ queue' = queue
    BY <1>3 DEF QueueAfter
  <2>2. ServeKeeps
    BY <2>1 DEF ServeKeeps, InHand, IndInv, Shape
  <2> QED BY <1>1, <2>1, <2>2, ServeStep, SMTT(30) DEF IndInv, Shape
<1> QED BY <1>2, <1>3

LEMMA CancelsSound ==
  ASSUME IndInv, Cancel \/ CancelReply \/ ServeEnds \/ (\E r \in Requests : ReceiveCancel(r))
  PROVE  IndInv'
<1>1. UNCHANGED <<reqs, task, report, made, queue, term, owed>>
  BY DEF Cancel, CancelReply, ServeEnds, ReceiveCancel, deferrals, terms, reporting
<1>2. ServeKeeps
  <2>1. CASE Cancel
    BY <2>1 DEF Cancel, ServeKeeps, InHand, IndInv, Shape
  <2>2. CASE CancelReply
    BY <2>2 DEF CancelReply, ServeKeeps, InHand, IndInv, Shape, Phase
  <2>3. CASE ServeEnds
    BY <2>3 DEF ServeEnds, ServeKeeps, InHand, IndInv, Shape
  <2>4. ASSUME NEW r \in Requests, ReceiveCancel(r) PROVE ServeKeeps
    <3>1. r \in Nat
      BY ConnAssumption DEF Requests
    <3> QED BY <2>4, <3>1 DEF ReceiveCancel, ServeKeeps, InHand, IndInv, Shape
  <2> QED BY <2>1, <2>2, <2>3, <2>4
<1>3. wire' = wire \/ (\E p \in Unconf : wire' = Written(<<p>>))
  <2>1. CASE CancelReply
    <3>1. \A k \in {"cancelled", "unknown"} : PDU(k, sc.cur) \in Unconf
      BY PDUUnconf DEF IndInv, Shape
    <3> QED BY <2>1, <3>1 DEF CancelReply
  <2>2. CASE Cancel \/ ServeEnds \/ (\E r \in Requests : ReceiveCancel(r))
    BY <2>2 DEF Cancel, ServeEnds, ReceiveCancel
  <2> QED BY <2>1, <2>2
<1> QED BY <1>1, <1>2, <1>3, ServeStep, Zenon DEF IndInv, Shape

-----------------------------------------------------------------------------
(* Steps of the goroutines that send what is not an answer.                *)
LEMMA ReportsSound ==
  ASSUME IndInv, ReportHold \/ ReportEnqueue PROVE IndInv'
<1>1. UNCHANGED <<reqs, task, owed, term, wire>>
  BY DEF ReportHold, ReportEnqueue, deferrals, terms
<1>2. PDU("report", made + 1) \in Unconf /\ PDU("report", report) \in Unconf
  <2>1. made + 1 \in Nat /\ report \in Nat
    BY DEF IndInv, Shape
  <2> QED BY <2>1, PDUUnconf
<1>3. queue' \in Seq(Unconf) /\ report' \in Nat /\ made' \in Nat
  <2>1. CASE ReportHold
    BY <2>1, SMTT(30) DEF ReportHold, IndInv, Shape
  <2>2. CASE ReportEnqueue
    BY <1>2, <2>2, UnconfSeq DEF ReportEnqueue, IndInv, Shape
  <2> QED BY <2>1, <2>2
<1>4. Append(sc.after, PDU("report", made + 1)) \in Seq(Unconf)
  BY <1>2, UnconfSeq DEF IndInv, Shape
<1>5. sc' = sc \/ sc' = [sc EXCEPT !.after = Append(sc.after, PDU("report", made + 1))]
  BY DEF ReportHold, ReportEnqueue
<1>6. ServeKeeps
  BY <1>4, <1>5, Zenon DEF ServeKeeps, InHand, IndInv, Shape
<1>7. Shape'
  BY <1>1, <1>3, <1>6 DEF IndInv, Shape, ServeKeeps
<1> QED BY <1>1, <1>6, <1>7, SteadyStep DEF ServeKeeps

LEMMA TermsSound ==
  ASSUME IndInv, TermEnqueue \/ (\E r \in Requests : TermHold(r)) PROVE IndInv'
<1>1. CASE TermEnqueue
  <2>1. PDU("termination", term) \in Unconf
    BY PDUUnconf DEF IndInv, Shape
  <2>2. queue' \in Seq(Unconf) /\ term' \in Nat /\ UNCHANGED <<reqs, sc, task, owed, report, made, wire>>
    BY <1>1, <2>1, UnconfSeq DEF TermEnqueue, IndInv, Shape, deferrals, reporting
  <2>3. ServeKeeps
    BY <2>2 DEF ServeKeeps, InHand, IndInv, Shape
  <2> QED BY <2>2, <2>3, ServeStep, SMTT(30) DEF IndInv, Shape
<1>2. ASSUME NEW r \in Requests, TermHold(r) PROVE IndInv'
  <2>1. r \in Nat
    BY ConnAssumption DEF Requests
  <2>2. Append(sc.after, PDU("termination", r)) \in Seq(Unconf)
    BY <2>1, PDUUnconf, UnconfSeq DEF IndInv, Shape
  <2>3. /\ UNCHANGED <<reqs, task, report, made, queue, wire>> /\ owed' = owed \ {r} /\ term' \in {term, r}
        /\ sc' = sc \/ sc' = [sc EXCEPT !.after = Append(sc.after, PDU("termination", r))]
    BY <1>2 DEF TermHold, deferrals, reporting
  <2>4. ServeKeeps
    BY <2>2, <2>3, Zenon DEF ServeKeeps, InHand, IndInv, Shape
  <2> QED BY <2>1, <2>3, <2>4, ServeStep, SMTT(30) DEF IndInv, Shape
<1> QED BY <1>1, <1>2

LEMMA PumpSound ==
  ASSUME IndInv, Pump PROVE IndInv'
<1>1. UNCHANGED <<reqs, sc, task, owed, term, report, made>>
  BY DEF Pump, deferrals, terms, reporting
<1>2. ServeKeeps
  BY <1>1 DEF ServeKeeps, InHand, IndInv, Shape
<1>3. CASE queue # <<>>
  <2>1. Head(queue) \in Unconf /\ Tail(queue) \in Seq(Unconf)
    BY <1>3, UnconfSeq DEF IndInv, Shape
  <2>2. wire' = Written(<<Head(queue)>>) /\ queue' = Tail(queue)
    BY <1>3 DEF Pump
  <2> QED BY <1>1, <1>2, <2>1, <2>2, ServeStep, Zenon DEF IndInv, Shape
<1>4. CASE queue = <<>>
  BY <1>1, <1>2, <1>4, ServeStep DEF Pump, IndInv, Shape
<1> QED BY <1>3, <1>4

(* The other steps of a request's goroutine, which do not restart it.      *)
LEMMA TaskSound ==
  ASSUME IndInv, NEW r \in Requests,
         \/ CallReturns(r) \/ TaskEnds(r) \/ TaskCalls(r)
         \/ \E result \in {"positive", "error"} : TaskReturns(r, result)
  PROVE  IndInv'
<1>1. UNCHANGED <<reqs, sc, queue, owed, term, report, made>>
  BY DEF CallReturns, TaskEnds, TaskCalls, TaskReturns, terms, reporting
<1>2. /\ task' = [q \in Requests |-> task'[q]]
      /\ \A q \in Requests \ {r} : task'[q] = task[q]
      /\ task[r] # "none" /\ task'[r] # "none" /\ (task'[r] \in Unsent => task[r] \in Unsent)
  BY SMTT(30) DEF CallReturns, TaskEnds, TaskCalls, TaskReturns, IndInv, Shape, Unsent, Answers
<1>3. r \in Nat
  BY ConnAssumption DEF Requests
<1>4. wire' = wire \/ wire' = Written(<<PDU("call", r)>>)
  BY DEF CallReturns, TaskEnds, TaskCalls, TaskReturns
<1>5. wire' \in Seq(Written1) /\ (wire' = wire \/ (\E x \in Unconf : wire' = wire \o <<x>>))
  BY <1>3, <1>4, PDUUnconf, UnconfWritten, Zenon DEF IndInv, Shape
<1>6. Shape'
  BY <1>1, <1>2, <1>5 DEF IndInv, Shape
<1> QED BY <1>1, <1>2, <1>5, <1>6, SteadyStep, Zenon

LEMMA OthersSound ==
  ASSUME IndInv, TransportFails \/ Close \/ CloseTransport \/ UNCHANGED vars PROVE IndInv'
<1>1. UNCHANGED <<reqs, sc, queue, task, owed, term, report, made, wire>>
  BY DEF TransportFails, Close, CloseTransport, vars, deferrals, terms, reporting
<1>2. ServeKeeps
  BY <1>1 DEF ServeKeeps, InHand, IndInv, Shape
<1> QED BY <1>1, <1>2, ServeStep, SMTT(30) DEF IndInv, Shape

LEMMA StepSound == ASSUME IndInv, [Next]_vars PROVE IndInv'
<1>1. CASE Serve
  BY <1>1, ReceiveSound, DecideSound, EndRequestSound, SendBeforeSound, AnswerSound, RunDeferredSound,
     QueueAfterSound, CancelsSound DEF Serve
<1>2. ASSUME NEW r \in Requests, Task(r) \/ TaskCalls(r) PROVE IndInv'
  BY <1>2, TaskSound, TaskSendsSound DEF Task
<1>3. ASSUME NEW r \in Requests, TermHold(r) PROVE IndInv'
  BY <1>3, TermsSound
<1>4. CASE ReportHold \/ ReportEnqueue \/ TermEnqueue \/ Pump
  BY <1>4, ReportsSound, TermsSound, PumpSound
<1>5. CASE TransportFails \/ Close \/ CloseTransport \/ UNCHANGED vars
  BY <1>5, OthersSound
<1> QED BY <1>1, <1>2, <1>3, <1>4, <1>5 DEF Next

(* For any number of requests, in any interleaving of Serve, the pump, the *)
(* deferred goroutines, cancels and the end of the association, a request  *)
(* has at most one answer on the wire (server_conn.go:558-571,             *)
(* server_ext.go:80-98).                                                   *)
THEOREM AnswersAreSingle == Spec => []AnsweredOnce
<1>1. Init => IndInv BY InitSound
<1>2. IndInv /\ [Next]_vars => IndInv' BY StepSound
<1>3. IndInv => AnsweredOnce BY DEF IndInv
<1> QED BY <1>1, <1>2, <1>3, PTL DEF Spec

-----------------------------------------------------------------------------
(* Reports and responses.  What a sequence of PDUs holds.                  *)
Elems(q) == {q[i] : i \in 1..Len(q)}

(* A report that may be written: it was held for no request, or for one    *)
(* that is answered or deferred.                                           *)
Responded(n) == held[n] = 0 \/ reqs[held[n]].kind = "slow" \/ Answered(held[n])

(* What Serve does with the request in hand, from its kind; a request with *)
(* a goroutine of its own is a slow one.                                   *)
Stage ==
  /\ sc.inReq <=> sc.phase = "handle"
  /\ sc.phase \in {"read", "cancel", "reply"} => sc.out = "none"
  /\ sc.phase = "answer" => sc.out # "none"
  /\ InHand(sc) /\ sc.out # "none" =>
       /\ sc.out = "deferred" => Kind = "slow"
       /\ Kind = "oper" => sc.out \in {"refused", "terminated", "operated"}
  /\ \A r \in Requests : task[r] # "none" => reqs[r].kind = "slow"

(* The LastApplError of a refused control is on its way.                   *)
Refusal ==
  InHand(sc) /\ sc.out = "refused" =>
    LET e == PDU("lastApplError", sc.cur)
    IN IF sc.phase = "handle" THEN e \in Elems(sc.before) ELSE e \in Elems(sc.ahead) \cup Elems(wire)

(* Where a report can be, and for which request it is held there.          *)
Places ==
  /\ held \in [Reports -> 0..Len(reqs)] /\ made <= MaxReports
  /\ \A n \in Reports : n > made => held[n] = 0
  /\ report # 0 => report <= made /\ held[report] = 0
  /\ \A p \in Elems(sc.before) \cup Elems(sc.ahead) : p.k # "report"
  /\ sc.after # <<>> => sc.phase = "handle"
  /\ sc.behind # <<>> => sc.phase \in {"answer", "after", "over"}
  /\ \A p \in Elems(sc.after) : p.k = "report" => p.n \in 1..made /\ held[p.n] = sc.cur
  /\ \A p \in Elems(sc.behind) : p.k = "report" =>
       /\ p.n \in 1..made
       /\ sc.phase = "answer" => held[p.n] = sc.cur
       /\ sc.phase = "after" => Responded(p.n)
  /\ \A p \in Elems(queue) : p.k = "report" => p.n \in 1..made /\ Responded(p.n)
  /\ \A p \in Elems(wire) : p.k = "report" => p.n \in 1..made

OrderInv == IndInv /\ Stage /\ Refusal /\ Places /\ AroundResponse /\ Accounted

-----------------------------------------------------------------------------
LEMMA ElemsAppend ==
  ASSUME NEW S, NEW q \in Seq(S), NEW x \in S
  PROVE  Elems(Append(q, x)) = Elems(q) \cup {x} /\ q \o <<x>> = Append(q, x)
<1>0. Len(q) \in Nat /\ \A i \in 1..Len(q) : q[i] \in S
  OBVIOUS
<1>1. /\ Len(Append(q, x)) = Len(q) + 1 /\ Append(q, x)[Len(q) + 1] = x
      /\ \A i \in 1..Len(q) : Append(q, x)[i] = q[i]
  OBVIOUS
<1>2. q \o <<x>> = Append(q, x)
  OBVIOUS
<1>3. 1..(Len(q) + 1) = (1..Len(q)) \cup {Len(q) + 1}
  BY <1>0
<1> DEFINE a == Append(q, x)
<1> HIDE DEF a
<1>4. Elems(a) = Elems(q) \cup {x}
  BY <1>1, <1>3 DEF Elems, a
<1> QED BY <1>2, <1>4 DEF a

LEMMA ElemsHead ==
  ASSUME NEW S, NEW q \in Seq(S), q # <<>>
  PROVE  Elems(q) = {Head(q)} \cup Elems(Tail(q))
<1>0. Len(q) \in Nat /\ \A i \in 1..Len(q) : q[i] \in S
  OBVIOUS
<1>1. /\ Len(Tail(q)) = Len(q) - 1 /\ Head(q) = q[1] /\ Len(q) >= 1
      /\ \A i \in 1..(Len(q) - 1) : Tail(q)[i] = q[i + 1]
  OBVIOUS
<1> DEFINE t == Tail(q)
           h == Head(q)
<1> HIDE DEF t, h
<1>2. Elems(q) \subseteq {h} \cup Elems(t)
  <2> SUFFICES ASSUME NEW i \in 1..Len(q), i # 1 PROVE q[i] \in Elems(t)
    BY <1>1 DEF Elems, h
  <2>1. i - 1 \in 1..Len(t) /\ t[i - 1] = q[i]
    BY <1>0, <1>1 DEF t
  <2> QED BY <2>1 DEF Elems
<1>3. {h} \cup Elems(t) \subseteq Elems(q)
  <2>1. h \in Elems(q)
    BY <1>0, <1>1 DEF Elems, h
  <2>2. ASSUME NEW i \in 1..Len(t) PROVE t[i] \in Elems(q)
    <3>1. i + 1 \in 1..Len(q) /\ t[i] = q[i + 1]
      BY <1>0, <1>1 DEF t
    <3> QED BY <3>1 DEF Elems
  <2> QED BY <2>1, <2>2 DEF Elems
<1> QED BY <1>2, <1>3 DEF t, h

LEMMA InElems == \A q, p : In(q, p) <=> p \in Elems(q)
BY DEF In, Elems

LEMMA NoElems == Elems(<<>>) = {}
BY DEF Elems

LEMMA AnsweredElems ==
  /\ \A r : Answered(r) <=> \E a \in Answers : PDU(a, r) \in Elems(wire)
  /\ \A r : Answered(r)' <=> \E a \in Answers : PDU(a, r) \in Elems(wire')
BY InElems DEF Answered

(* The wire after a write.                                                 *)
LEMMA WireElems ==
  ASSUME Shape, NEW p \in Written1, wire' = wire \o <<p>>
  PROVE  /\ Elems(wire') = Elems(wire) \cup {p} /\ Len(wire') = Len(wire) + 1
         /\ wire'[Len(wire) + 1] = p /\ \A i \in 1..Len(wire) : wire'[i] = wire[i]
<1>1. wire \in Seq(Written1)
  BY DEF Shape
<1>a. wire \o <<p>> = Append(wire, p)
  BY <1>1
<1>b. Elems(Append(wire, p)) = Elems(wire) \cup {p}
  BY <1>1, ElemsAppend
<1>2. wire' = Append(wire, p) /\ Elems(wire') = Elems(wire) \cup {p}
  BY <1>a, <1>b, Zenon
<1>3. /\ Len(Append(wire, p)) = Len(wire) + 1 /\ Append(wire, p)[Len(wire) + 1] = p
      /\ \A i \in 1..Len(wire) : Append(wire, p)[i] = wire[i]
  BY <1>1, AppendProperties
<1> QED BY <1>2, <1>3

-----------------------------------------------------------------------------
(* A PDU that may be written next.                                         *)
Allowed(p) ==
  /\ p.k = "error" /\ reqs[p.n].kind = "oper" => PDU("lastApplError", p.n) \in Elems(wire)
  /\ p.k = "report" => p.n \in 1..made /\ Responded(p.n)

(* What no step undoes.                                                    *)
Extends1 ==
  /\ \A r \in 1..Len(reqs) : reqs'[r] = reqs[r]
  /\ Len(reqs) <= Len(reqs') /\ made \in Nat
  /\ made <= made' /\ \A n \in 1..made : held'[n] = held[n]
  /\ Elems(wire) \subseteq Elems(wire')

LEMMA RespondedStays ==
  ASSUME Places, Extends1, NEW n \in 1..made, Responded(n) PROVE Responded(n)'
<1>1. n \in Reports /\ held'[n] = held[n]
  BY ConnAssumption DEF Places, Extends1, Reports
<1>2. held[n] # 0 => held[n] \in 1..Len(reqs)
  BY <1>1 DEF Places
<1>3. held[n] # 0 => reqs'[held[n]] = reqs[held[n]]
  BY <1>2 DEF Extends1
<1>4. Answered(held[n]) => Answered(held[n])'
  BY <1>1, AnsweredElems DEF Extends1
<1> QED BY <1>1, <1>3, <1>4, AnsweredElems DEF Responded

LEMMA AroundStep ==
  ASSUME IndInv, Places, AroundResponse, Extends1,
         \/ wire' = wire
         \/ UNCHANGED <<reqs, held>> /\ \E p \in Written1 : wire' = wire \o <<p>> /\ Allowed(p)
  PROVE  AroundResponse'
<1> SUFFICES ASSUME NEW i \in 1..Len(wire')
             PROVE  /\ wire'[i].k = "error" /\ reqs'[wire'[i].n].kind = "oper" =>
                         PDU("lastApplError", wire'[i].n) \in {wire'[j] : j \in 1..(i - 1)}
                    /\ wire'[i].k = "report" =>
                         (held'[wire'[i].n] # 0 /\ reqs'[held'[wire'[i].n]].kind # "slow" =>
                            \E a \in Answers : PDU(a, held'[wire'[i].n]) \in {wire'[j] : j \in 1..(i - 1)})
  BY DEF AroundResponse
<1>1. Shape /\ Len(wire) \in Nat /\ Len(reqs) \in Nat
  BY SMTT(30) DEF IndInv, Shape
<1>2. CASE i \in 1..Len(wire)
  <2>1. \A j \in 1..i : wire'[j] = wire[j]
    <3>1. \A j \in 1..i : j \in 1..Len(wire)
      BY <1>1, <1>2
    <3> QED BY <1>1, <3>1, WireElems, Zenon
  <2>2. wire'[i] = wire[i] /\ {wire'[j] : j \in 1..(i - 1)} = {wire[j] : j \in 1..(i - 1)}
    <3>1. i \in 1..i /\ \A j \in 1..(i - 1) : j \in 1..i
      BY <1>2
    <3> QED BY <2>1, <3>1
  <2> DEFINE p == wire[i]
             before == {wire[j] : j \in 1..(i - 1)}
  <2>3. /\ p.k = "error" /\ reqs[p.n].kind = "oper" => PDU("lastApplError", p.n) \in before
        /\ p.k = "report" => (held[p.n] # 0 /\ reqs[held[p.n]].kind # "slow" =>
                                \E a \in Answers : PDU(a, held[p.n]) \in before)
    BY <1>2 DEF AroundResponse
  <2>4. p \in Elems(wire)
    BY <1>2 DEF Elems
  <2>5. p.k = "error" => reqs'[p.n] = reqs[p.n]
    BY <1>2 DEF IndInv, Settled, Answers, Extends1
  <2>6. p.k = "report" => held'[p.n] = held[p.n] /\ (held[p.n] # 0 => reqs'[held[p.n]] = reqs[held[p.n]])
    <3> SUFFICES ASSUME p.k = "report"
                 PROVE  held'[p.n] = held[p.n] /\ (held[p.n] # 0 => reqs'[held[p.n]] = reqs[held[p.n]])
      OBVIOUS
    <3>1. p.n \in 1..made /\ p.n \in Reports
      BY <2>4, ConnAssumption DEF Places, Extends1, Reports
    <3>2. held[p.n] \in 0..Len(reqs)
      BY <3>1 DEF Places
    <3> QED BY <1>1, <3>1, <3>2, SMTT(30) DEF Extends1
  <2> HIDE DEF p, before
  <2>7. wire'[i] = p /\ {wire'[j] : j \in 1..(i - 1)} = before
    BY <2>2, Zenon DEF p, before
  <2> QED BY <2>3, <2>5, <2>6, <2>7
<1>3. CASE i \notin 1..Len(wire)
  <2>0. UNCHANGED <<reqs, held>>
    BY <1>3
  <2>1. PICK p \in Written1 : wire' = wire \o <<p>> /\ Allowed(p)
    BY <1>3, Zenon
  <2>2. i = Len(wire) + 1 /\ wire'[i] = p /\ \A j \in 1..Len(wire) : wire'[j] = wire[j]
    BY <1>1, <1>3, <2>1, WireElems
  <2>3. i - 1 = Len(wire)
    BY <1>1, <2>2
  <2>4. {wire'[j] : j \in 1..(i - 1)} = Elems(wire)
    BY <2>2, <2>3 DEF Elems
  <2> QED BY <2>0, <2>1, <2>2, <2>4, AnsweredElems DEF Allowed, Responded
<1> QED BY <1>2, <1>3

(* A step that makes no report, and what it may do to those there are.     *)
LEMMA OrderStep ==
  ASSUME OrderInv, IndInv', Stage', Refusal',
         UNCHANGED <<made, held>>, refused \subseteq refused', down => down',
         Len(reqs) <= Len(reqs'), \A r \in 1..Len(reqs) : reqs'[r] = reqs[r],
         \/ wire' = wire
         \/ reqs' = reqs /\ \E p \in Written1 : wire' = wire \o <<p>> /\ Allowed(p),
         \/ report' = report
         \/ report' = 0 /\ (PDU("report", report) \in Elems(queue') \/ report \in refused'),
         \A p \in Elems(sc'.before) \cup Elems(sc'.ahead) :
           p \in Elems(sc.before) \cup Elems(sc.ahead) \/ p.k # "report",
         sc'.after # <<>> => sc'.phase = "handle",
         sc'.behind # <<>> => sc'.phase \in {"answer", "after", "over"},
         \A p \in Elems(sc'.after) : p.k = "report" => p \in Elems(sc.after) /\ sc'.cur = sc.cur,
         \A p \in Elems(sc'.behind) : p.k = "report" =>
           \/ p \in Elems(sc.after) /\ sc'.phase = "answer" /\ sc'.cur = sc.cur
           \/ /\ p \in Elems(sc.behind) /\ (sc'.phase = "answer" => sc.phase = "answer" /\ sc'.cur = sc.cur)
              /\ sc'.phase = "after" => sc.phase = "after" \/ Responded(p.n)',
         \A p \in Elems(queue') : p.k = "report" =>
           p \in Elems(queue) \/ (p \in Elems(sc.behind) /\ sc.phase = "after") \/ (p.n = report /\ report # 0),
         \A p \in Elems(queue) : p \in Elems(queue') \/ p \in Elems(wire') \/ down'
  PROVE  OrderInv'
<1>1. /\ Shape /\ Shape' /\ made \in Nat /\ made <= made /\ report \in Nat
      /\ Len(reqs) \in Nat /\ Len(reqs') \in Nat
  <2>1. Shape /\ Shape'
    BY DEF OrderInv, IndInv
  <2>2. reqs \in Seq([id : Ids, kind : Kinds]) /\ reqs' \in Seq([id : Ids, kind : Kinds])
    BY <2>1 DEF Shape
  <2>3. made \in Nat /\ report \in Nat
    BY <2>1 DEF Shape
  <2>4. \A S : \A q \in Seq(S) : Len(q) \in Nat
    OBVIOUS
  <2>5. Len(reqs) \in Nat /\ Len(reqs') \in Nat
    BY <2>2, <2>4
  <2> QED BY <2>1, <2>3, <2>5
<1>w. wire' = wire \/ \E p \in Written1 : Elems(wire') = Elems(wire) \cup {p} /\ Allowed(p)
  <2>1. CASE wire' = wire
    BY <2>1
  <2>2. ASSUME NEW p \in Written1, wire' = wire \o <<p>>, Allowed(p)
        PROVE  Elems(wire') = Elems(wire) \cup {p}
    BY <1>1, <2>2, WireElems, SMTT(30)
  <2> QED BY <2>1, <2>2, Zenon
<1>2. Elems(wire) \subseteq Elems(wire')
  BY <1>w
<1>3. Extends1
  BY <1>1, <1>2 DEF Extends1
<1>4. AroundResponse'
  BY <1>3, AroundStep, Zenon DEF OrderInv
<1>5. ASSUME NEW n \in 1..made, Responded(n) PROVE Responded(n)'
  BY <1>3, <1>5, RespondedStays DEF OrderInv
<1>6. Accounted'
  <2> SUFFICES ASSUME NEW n \in 1..made, held[n] = 0
               PROVE  \/ PDU("report", n) \in Elems(wire') \/ PDU("report", n) \in Elems(queue')
                      \/ report' = n \/ n \in refused' \/ down'
    BY InElems DEF Accounted
  <2>1. \/ PDU("report", n) \in Elems(wire) \/ PDU("report", n) \in Elems(queue)
        \/ report = n \/ n \in refused \/ down
    BY InElems DEF OrderInv, Accounted
  <2> QED BY <1>2, <2>1
<1>7. Places'
  <2>1. /\ held' \in [Reports -> 0..Len(reqs')] /\ made' <= MaxReports
        /\ \A n \in Reports : n > made' => held'[n] = 0
    <3>1. 0..Len(reqs) \subseteq 0..Len(reqs')
      BY <1>1
    <3> QED BY <3>1 DEF OrderInv, Places
  <2>2. report' # 0 => report' <= made' /\ held'[report'] = 0
    BY DEF OrderInv, Places
  <2>3. \A p \in Elems(sc'.before) \cup Elems(sc'.ahead) : p.k # "report"
    BY DEF OrderInv, Places
  <2>4. \A p \in Elems(sc'.after) : p.k = "report" => p.n \in 1..made' /\ held'[p.n] = sc'.cur
    BY DEF OrderInv, Places
  <2>5. ASSUME NEW p \in Elems(sc'.behind), p.k = "report"
        PROVE  /\ p.n \in 1..made'
               /\ sc'.phase = "answer" => held'[p.n] = sc'.cur
               /\ sc'.phase = "after" => Responded(p.n)'
    <3>1. p \in Elems(sc.after) \/ p \in Elems(sc.behind)
      BY <2>5
    <3>2. p.n \in 1..made
      BY <2>5, <3>1 DEF OrderInv, Places
    <3>3. sc'.phase = "answer" => held'[p.n] = sc'.cur
      BY <2>5 DEF OrderInv, Places
    <3>4. sc'.phase = "after" => Responded(p.n)'
      BY <1>5, <2>5, <3>2 DEF OrderInv, Places
    <3> QED BY <3>2, <3>3, <3>4
  <2>6. ASSUME NEW p \in Elems(queue'), p.k = "report" PROVE p.n \in 1..made' /\ Responded(p.n)'
    <3>1. p.n \in 1..made /\ Responded(p.n)
      <4>1. CASE p \in Elems(queue) \/ (p \in Elems(sc.behind) /\ sc.phase = "after")
        BY <2>6, <4>1 DEF OrderInv, Places
      <4>2. CASE p.n = report /\ report # 0
        <5>1. report <= made /\ held[report] = 0
          BY <4>2 DEF OrderInv, Places
        <5>2. report \in 1..made
          <6>1. report \in Nat /\ made \in Nat
            BY <1>1
          <6> QED BY <4>2, <5>1, <6>1
        <5>3. Responded(report)
          BY <5>1 DEF Responded
        <5> QED BY <4>2, <5>2, <5>3
      <4> QED BY <2>6, <4>1, <4>2
    <3> QED BY <1>5, <3>1
  <2>7. ASSUME NEW p \in Elems(wire'), p.k = "report" PROVE p.n \in 1..made'
    <3>1. p \in Elems(wire) \/ Allowed(p)
      BY <1>w, <2>7
    <3> QED BY <2>7, <3>1 DEF OrderInv, Places, Allowed
  <2> QED BY <2>1, <2>2, <2>3, <2>4, <2>5, <2>6, <2>7 DEF Places
<1> QED BY <1>4, <1>6, <1>7 DEF OrderInv

(* A step of the other goroutines that sends no report.                    *)
LEMMA OtherStep ==
  ASSUME OrderInv, IndInv', UNCHANGED <<sc, reqs, made, held>>, refused \subseteq refused',
         down => down',
         \A r \in Requests : task'[r] # "none" => task[r] # "none",
         wire' = wire \/ \E p \in Written1 : wire' = wire \o <<p>> /\ Allowed(p),
         \/ report' = report
         \/ report' = 0 /\ (PDU("report", report) \in Elems(queue') \/ report \in refused'),
         \A p \in Elems(queue') : p.k = "report" => p \in Elems(queue) \/ (p.n = report /\ report # 0),
         \A p \in Elems(queue) : p \in Elems(queue') \/ p \in Elems(wire') \/ down'
  PROVE  OrderInv'
<1>1. Stage'
  BY DEF OrderInv, Stage, InHand, Kind
<1>2. Elems(wire) \subseteq Elems(wire')
  BY WireElems, Zenon DEF OrderInv, IndInv
<1>3. Refusal'
  BY <1>2 DEF OrderInv, Refusal, InHand
<1>4. Len(reqs) <= Len(reqs)
  BY DEF OrderInv, IndInv, Shape
<1> QED BY <1>1, <1>3, <1>4, OrderStep DEF OrderInv, Places

(* What is queued, and what the pump takes; neither is an answer.          *)
LEMMA QueueElems ==
  ASSUME OrderInv
  PROVE  /\ \A p \in Unconf : Elems(Append(queue, p)) = Elems(queue) \cup {p}
         /\ queue # <<>> => /\ Elems(queue) = {Head(queue)} \cup Elems(Tail(queue))
                            /\ Head(queue) \in Unconf
<1>1. queue \in Seq(Unconf)
  BY DEF OrderInv, IndInv, Shape
<1>2. \A p \in Unconf : Elems(Append(queue, p)) = Elems(queue) \cup {p}
  BY <1>1, ElemsAppend
<1>3. queue # <<>> => Elems(queue) = {Head(queue)} \cup Elems(Tail(queue))
  BY <1>1, ElemsHead
<1>4. queue # <<>> => Head(queue) \in Unconf
  BY <1>1, UnconfSeq
<1> QED BY <1>2, <1>3, <1>4

LEMMA UnconfFacts == ASSUME NEW p \in Unconf PROVE p \in Written1 /\ p.k # "error"
BY DEF Unconf, Written1

LEMMA QuietOthers ==
  ASSUME OrderInv, TransportFails \/ Close \/ CloseTransport \/ UNCHANGED vars PROVE OrderInv'
<1>1. IndInv'
  BY OthersSound DEF OrderInv
<1>2. UNCHANGED <<sc, reqs, made, held, refused, task, wire, queue, report>> /\ (down => down')
  BY DEF TransportFails, Close, CloseTransport, vars, deferrals, terms, reporting
<1> QED BY <1>1, <1>2, OtherStep

LEMMA TaskOrder ==
  ASSUME OrderInv, NEW r \in Requests, Task(r) \/ TaskCalls(r) PROVE OrderInv'
<1>1. IndInv'
  BY TaskSound, TaskSendsSound DEF OrderInv, Task
<1>2. UNCHANGED <<sc, reqs, made, held, refused, queue, report, down>>
  BY DEF Task, TaskCalls, CallReturns, TaskSends, TaskEnds, TaskReturns, conn, reporting
<1>3. /\ task[r] # "none" /\ \A q \in Requests \ {r} : task'[q] = task[q]
  BY SMTT(30) DEF Task, TaskCalls, CallReturns, TaskSends, TaskEnds, TaskReturns, Answers, OrderInv, IndInv, Shape
<1>4. \/ wire' = wire \/ wire' = Written(<<PDU("call", r)>>)
      \/ task[r] \in Answers /\ wire' = Written(<<PDU(task[r], r)>>)
  BY DEF Task, TaskCalls, CallReturns, TaskSends, TaskEnds, TaskReturns
<1>5. reqs[r].kind = "slow" /\ r \in Nat
  BY <1>3, ConnAssumption DEF OrderInv, Stage, Requests
<1>6. ASSUME NEW k \in {"call"} \cup Answers PROVE PDU(k, r) \in Written1 /\ Allowed(PDU(k, r))
  BY <1>5 DEF Allowed, PDU, Written1, Answers
<1>7. wire' = wire \/ \E p \in Written1 : wire' = wire \o <<p>> /\ Allowed(p)
  BY <1>4, <1>6, Zenon DEF Written
<1> QED BY <1>1, <1>2, <1>3, <1>7, OtherStep, Zenon

LEMMA PumpOrder == ASSUME OrderInv, Pump PROVE OrderInv'
<1>1. IndInv'
  BY PumpSound DEF OrderInv
<1>2. UNCHANGED <<sc, reqs, made, held, refused, report, down, task>>
  BY DEF Pump, conn, deferrals, reporting
<1>3. CASE queue = <<>>
  <2>1. UNCHANGED <<queue, wire>>
    BY <1>3 DEF Pump
  <2> QED BY <1>1, <1>2, <2>1, OtherStep
<1>4. CASE queue # <<>>
  <2> DEFINE p == Head(queue)
  <2>1. wire' = Written(<<p>>) /\ queue' = Tail(queue)
    BY <1>4 DEF Pump
  <2>2. Elems(queue) = {p} \cup Elems(queue') /\ p \in Unconf /\ p \in Written1
    BY <1>4, <2>1, QueueElems, UnconfFacts
  <2>3. Allowed(p)
    BY <2>2, UnconfFacts DEF OrderInv, Places, Allowed
  <2> HIDE DEF p
  <2>4. (wire' = wire /\ down') \/ (wire' = wire \o <<p>> /\ p \in Elems(wire'))
    BY <1>2, <2>1, <2>2, WireElems DEF Written, OrderInv, IndInv
  <2> QED BY <1>1, <1>2, <2>2, <2>3, <2>4, OtherStep
<1> QED BY <1>3, <1>4

LEMMA EnqueueOrder == ASSUME OrderInv, ReportEnqueue \/ TermEnqueue PROVE OrderInv'
<1>1. IndInv'
  BY ReportsSound, TermsSound DEF OrderInv
<1>2. UNCHANGED <<sc, reqs, made, held, down, task, wire>>
  BY DEF ReportEnqueue, TermEnqueue, conn, deferrals, reporting
<1>3. report \in Nat /\ term \in Nat
  BY DEF OrderInv, IndInv, Shape
<1>4. CASE ReportEnqueue
  <2> DEFINE p == PDU("report", report)
  <2>1. p \in Unconf /\ p.n = report
    BY <1>3, PDUUnconf DEF PDU
  <2>2. /\ report # 0 /\ report' = 0
        /\ \/ queue' = Append(queue, p) /\ refused' = refused
           \/ queue' = queue /\ refused' = refused \cup {report}
    BY <1>4 DEF ReportEnqueue
  <2>3. Elems(Append(queue, p)) = Elems(queue) \cup {p}
    BY <2>1, QueueElems
  <2>4. /\ \A x \in Elems(queue') : x \in Elems(queue) \/ x = p
        /\ \A x \in Elems(queue) : x \in Elems(queue')
        /\ p \in Elems(queue') \/ report \in refused'
        /\ refused \subseteq refused'
    BY <2>2, <2>3, Zenon
  <2> QED BY <1>1, <1>2, <2>1, <2>2, <2>4, OtherStep
<1>5. CASE TermEnqueue
  <2> DEFINE p == PDU("termination", term)
  <2>1. p \in Unconf /\ p.k # "report"
    BY <1>3, PDUUnconf DEF PDU
  <2>2. (queue' = Append(queue, p) \/ queue' = queue) /\ UNCHANGED <<report, refused>>
    BY <1>5 DEF TermEnqueue, reporting
  <2>3. Elems(Append(queue, p)) = Elems(queue) \cup {p}
    BY <2>1, QueueElems
  <2>4. /\ \A x \in Elems(queue') : x \in Elems(queue) \/ x = p
        /\ \A x \in Elems(queue) : x \in Elems(queue')
    BY <2>2, <2>3, Zenon
  <2> QED BY <1>1, <1>2, <2>1, <2>2, <2>4, OtherStep
<1> QED BY <1>4, <1>5

(* A report held for the request in hand, or past hold.                    *)
LEMMA ReportHoldOrder == ASSUME OrderInv, ReportHold PROVE OrderInv'
<1> DEFINE m == made + 1
           p == PDU("report", m)
<1>1. IndInv'
  BY ReportsSound DEF OrderInv
<1>2. /\ UNCHANGED <<reqs, queue, down, task, refused, wire>> /\ report = 0 /\ made' = m
      /\ made \in Nat /\ m \in Reports /\ m \in Nat /\ ~(m \in 1..made) /\ 1..m = 1..made \cup {m}
  <2>1. made \in Nat /\ made < MaxReports
    BY DEF OrderInv, IndInv, Shape, ReportHold
  <2>2. m \in Reports /\ m \in Nat /\ ~(m \in 1..made) /\ 1..m = 1..made \cup {m}
    BY <2>1, ConnAssumption DEF Reports
  <2> QED BY <2>1, <2>2 DEF ReportHold, conn, deferrals
<1>3. p.k = "report" /\ p.n = m /\ p \in Unconf
  BY <1>2, PDUUnconf DEF PDU
<1>4. held \in [Reports -> 0..Len(reqs)] /\ held[m] = 0
  BY <1>2 DEF OrderInv, Places
<1>5. CASE sc.inReq
  <2>1. /\ sc' = [sc EXCEPT !.after = Append(sc.after, p)] /\ report' = 0
        /\ held' = [held EXCEPT ![m] = sc.cur]
    BY <1>2, <1>5 DEF ReportHold
  <2>2. /\ sc'.phase = sc.phase /\ sc'.cur = sc.cur /\ sc'.out = sc.out /\ sc'.inReq = sc.inReq
        /\ sc'.before = sc.before /\ sc'.ahead = sc.ahead /\ sc'.behind = sc.behind
        /\ sc'.after = Append(sc.after, p)
    BY <2>1 DEF OrderInv, IndInv, Shape
  <2>3. sc.phase = "handle" /\ sc.cur \in 1..Len(reqs)
    BY <1>5 DEF OrderInv, Stage, IndInv, Hands, InHand, Shape
  <2>4. /\ held' \in [Reports -> 0..Len(reqs)] /\ held'[m] = sc.cur
        /\ \A n \in Reports \ {m} : held'[n] = held[n]
    BY <1>2, <1>4, <2>1, <2>3
  <2>5. Elems(sc'.after) = Elems(sc.after) \cup {p}
    <3>1. sc.after \in Seq(Unconf)
      BY DEF OrderInv, IndInv, Shape
    <3> QED BY <1>3, <2>2, <3>1, ElemsAppend
  <2>6. Extends1
    <3>1. \A n \in 1..made : n \in Reports \ {m}
      BY <1>2, ConnAssumption DEF Reports
    <3>2. Len(reqs) <= Len(reqs) /\ made <= m
      BY <1>2 DEF OrderInv, IndInv, Shape
    <3> QED BY <1>2, <2>4, <3>1, <3>2 DEF Extends1
  <2>7. Stage'
    BY <1>2, <2>2 DEF OrderInv, Stage, InHand, Kind
  <2>8. Refusal'
    BY <1>2, <2>2 DEF OrderInv, Refusal, InHand
  <2>9. AroundResponse'
    BY <1>2, <2>6, AroundStep DEF OrderInv
  <2>10. Accounted'
    <3> SUFFICES ASSUME NEW n \in 1..m, held'[n] = 0
                 PROVE  \/ In(wire', PDU("report", n)) \/ In(queue', PDU("report", n))
                        \/ report' = n \/ n \in refused' \/ down'
      BY <1>2 DEF Accounted
    <3>1. n \in 1..made /\ held[n] = 0 /\ n # 0
      BY <1>2, <2>3, <2>4, <2>6 DEF Extends1
    <3> QED BY <1>2, <3>1 DEF OrderInv, Accounted
  <2>11. Places'
    <3>1. \A n \in 1..made : n \in 1..made' /\ (Responded(n) => Responded(n)')
      BY <1>2, <2>6, RespondedStays DEF OrderInv
    <3>2. \A n \in Reports : n > made' => held'[n] = 0
      BY <1>2, <2>4, ConnAssumption, SMTT(30) DEF OrderInv, Places, Reports
    <3>3. \A x \in Elems(sc'.after) : x.k = "report" => x.n \in 1..made' /\ held'[x.n] = sc'.cur
      BY <1>2, <1>3, <2>2, <2>4, <2>5, <2>6 DEF OrderInv, Places, Extends1
    <3>4. made' <= MaxReports
      BY <1>2, ConnAssumption DEF Reports
    <3>5. sc'.behind = <<>> /\ (sc'.after # <<>> => sc'.phase = "handle") /\ Elems(sc'.behind) = {}
      BY <2>2, <2>3, NoElems DEF OrderInv, Places
    <3>6. \A x \in Elems(sc'.before) \cup Elems(sc'.ahead) : x.k # "report"
      BY <2>2 DEF OrderInv, Places
    <3>7. /\ \A x \in Elems(queue') : x.k = "report" => x.n \in 1..made' /\ Responded(x.n)'
          /\ \A x \in Elems(wire') : x.k = "report" => x.n \in 1..made'
      BY <1>2, <3>1 DEF OrderInv, Places
    <3> QED BY <1>2, <2>1, <2>4, <3>2, <3>3, <3>4, <3>5, <3>6, <3>7 DEF Places
  <2> QED BY <1>1, <2>7, <2>8, <2>9, <2>10, <2>11 DEF OrderInv
<1>6. CASE ~sc.inReq
  <2>1. sc' = sc /\ report' = m /\ held' = held
    BY <1>2, <1>6 DEF ReportHold
  <2>2. Extends1
    BY <1>2, <2>1 DEF Extends1, OrderInv, IndInv, Shape
  <2>3. Stage' /\ Refusal'
    BY <1>2, <2>1 DEF OrderInv, Stage, Refusal, InHand, Kind
  <2>4. AroundResponse'
    BY <1>2, <2>2, AroundStep DEF OrderInv
  <2>5. Accounted'
    BY <1>2, <2>1 DEF OrderInv, Accounted
  <2>6. Places'
    <3>1. \A n \in 1..made : n \in 1..made' /\ (Responded(n) => Responded(n)')
      BY <1>2, <2>2, RespondedStays DEF OrderInv
    <3>2. /\ \A n \in Reports : n > made' => held'[n] = 0
          /\ made' <= MaxReports /\ report' <= made' /\ held'[report'] = 0
      BY <1>2, <1>4, <2>1, ConnAssumption DEF OrderInv, Places, Reports
    <3>3. /\ \A x \in Elems(sc'.before) \cup Elems(sc'.ahead) : x.k # "report"
          /\ sc'.after # <<>> => sc'.phase = "handle"
          /\ sc'.behind # <<>> => sc'.phase \in {"answer", "after", "over"}
      BY <2>1 DEF OrderInv, Places
    <3>4. \A x \in Elems(sc'.after) : x.k = "report" => x.n \in 1..made' /\ held'[x.n] = sc'.cur
      BY <2>1, <3>1 DEF OrderInv, Places
    <3>5. \A x \in Elems(sc'.behind) : x.k = "report" =>
            /\ x.n \in 1..made'
            /\ sc'.phase = "answer" => held'[x.n] = sc'.cur
            /\ sc'.phase = "after" => Responded(x.n)'
      BY <2>1, <3>1 DEF OrderInv, Places
    <3>6. /\ \A x \in Elems(queue') : x.k = "report" => x.n \in 1..made' /\ Responded(x.n)'
          /\ \A x \in Elems(wire') : x.k = "report" => x.n \in 1..made'
      BY <1>2, <3>1 DEF OrderInv, Places
    <3> QED BY <1>2, <1>4, <2>1, <3>2, <3>3, <3>4, <3>5, <3>6 DEF Places
  <2> QED BY <1>1, <2>3, <2>4, <2>5, <2>6 DEF OrderInv
<1> QED BY <1>5, <1>6

-----------------------------------------------------------------------------
LEMMA HeldElems ==
  ASSUME OrderInv, NEW p \in Unconf
  PROVE  /\ Elems(Append(sc.before, p)) = Elems(sc.before) \cup {p}
         /\ Elems(Append(sc.after, p)) = Elems(sc.after) \cup {p}
<1>1. sc.before \in Seq(Unconf)
  BY DEF OrderInv, IndInv, Shape
<1>2. sc.after \in Seq(Unconf)
  BY DEF OrderInv, IndInv, Shape
<1>3. Elems(Append(sc.before, p)) = Elems(sc.before) \cup {p}
  BY <1>1, ElemsAppend
<1>4. Elems(Append(sc.after, p)) = Elems(sc.after) \cup {p}
  BY <1>2, ElemsAppend
<1> QED BY <1>3, <1>4

(* The Serve goroutine.  A step that leaves the queue and what is held     *)
(* alone, or takes it away.                                                *)
LEMMA ServeKeepsOrder ==
  ASSUME OrderInv, IndInv', Stage', Refusal',
         UNCHANGED <<reqs, queue, made, held, refused, report, down>>,
         wire' = wire \/ \E p \in Written1 : wire' = wire \o <<p>> /\ Allowed(p),
         \/ sc'.before = sc.before \/ sc'.before = <<>>
         \/ \E p \in Unconf : p.k # "report" /\ sc'.before = Append(sc.before, p),
         sc'.ahead = sc.ahead \/ sc'.ahead = sc.before \/ (sc.ahead # <<>> /\ sc'.ahead = Tail(sc.ahead)),
         \/ sc'.after = <<>>
         \/ /\ sc'.cur = sc.cur /\ sc'.phase = sc.phase
            /\ \/ sc'.after = sc.after
               \/ sc.phase = "handle" /\ \E p \in Unconf : p.k # "report" /\ sc'.after = Append(sc.after, p),
         \/ sc'.behind = <<>>
         \/ sc'.behind = sc.after /\ sc'.phase = "answer" /\ sc'.cur = sc.cur
         \/ /\ sc'.behind = sc.behind /\ sc'.phase \in {"answer", "over", sc.phase}
            /\ sc'.phase = "answer" => sc.phase = "answer" /\ sc'.cur = sc.cur
         \/ /\ sc'.behind = sc.behind /\ sc'.phase = "after"
            /\ \A p \in Elems(sc.behind) : p.k = "report" => Responded(p.n)'
  PROVE  OrderInv'
<1>1. sc.before \in Seq(Unconf) /\ sc.after \in Seq(Unconf) /\ sc.ahead \in Seq(Unconf) /\ Len(reqs) <= Len(reqs)
  BY DEF OrderInv, IndInv, Shape
<1>2. \A p \in Unconf : /\ Elems(Append(sc.before, p)) = Elems(sc.before) \cup {p}
                        /\ Elems(Append(sc.after, p)) = Elems(sc.after) \cup {p}
  BY HeldElems
<1>3. sc.ahead # <<>> => Elems(Tail(sc.ahead)) \subseteq Elems(sc.ahead)
  BY <1>1, ElemsHead
<1>4. \A p \in Elems(sc'.before) : p \in Elems(sc.before) \/ p.k # "report"
  BY <1>2, NoElems, Zenon
<1>5. \A p \in Elems(sc'.ahead) : p \in Elems(sc.before) \cup Elems(sc.ahead)
  BY <1>3
<1>6. sc'.after # <<>> => sc'.phase = "handle"
  BY DEF OrderInv, Places
<1>7. sc'.behind # <<>> => sc'.phase \in {"answer", "after", "over"}
  BY DEF OrderInv, Places
<1>8. \A p \in Elems(sc'.after) : p.k = "report" => p \in Elems(sc.after) /\ sc'.cur = sc.cur
  BY <1>2, NoElems, Zenon
<1>9. \A p \in Elems(sc'.behind) : p.k = "report" =>
        \/ p \in Elems(sc.after) /\ sc'.phase = "answer" /\ sc'.cur = sc.cur
        \/ /\ p \in Elems(sc.behind) /\ (sc'.phase = "answer" => sc.phase = "answer" /\ sc'.cur = sc.cur)
           /\ sc'.phase = "after" => sc.phase = "after" \/ Responded(p.n)'
  BY NoElems
<1> QED BY <1>1, <1>4, <1>5, <1>6, <1>7, <1>8, <1>9, OrderStep

LEMMA ReceiveOrder == ASSUME OrderInv, NEW kind \in Kinds, Receive(kind) PROVE OrderInv'
<1>1. IndInv'
  BY ReceiveSound DEF OrderInv
<1>2. UNCHANGED <<queue, made, held, refused, report, down, task, wire>> /\ sc.phase = "read"
  BY DEF Receive, conn, deferrals, reporting
<1>3. PICK q : reqs' = Append(reqs, q)
  BY DEF Receive
<1>4. /\ Len(reqs) \in Nat /\ Len(reqs') = Len(reqs) + 1 /\ \A r \in 1..Len(reqs) : reqs'[r] = reqs[r]
  <2>1. reqs \in Seq([id : Ids, kind : Kinds])
    BY DEF OrderInv, IndInv, Shape
  <2> QED BY <1>3, <2>1
<1>5. Len(reqs) <= Len(reqs')
  BY <1>4
<1>6. /\ sc'.phase = "handle" /\ sc'.inReq /\ sc'.out = sc.out /\ sc'.before = sc.before /\ sc'.ahead = sc.ahead
      /\ sc'.after = sc.after /\ sc'.behind = sc.behind
  BY DEF Receive, OrderInv, IndInv, Shape
<1>7. sc.out = "none" /\ sc.after = <<>> /\ sc.behind = <<>>
  BY <1>2 DEF OrderInv, Stage, Places
<1>8. Stage'
  <2>1. \A r \in Requests : task'[r] # "none" => reqs'[r].kind = "slow"
    <3> SUFFICES ASSUME NEW r \in Requests, task[r] # "none" PROVE reqs'[r].kind = "slow"
      BY <1>2
    <3>1. r \in 1..Len(reqs)
      BY <1>4, ConnAssumption DEF OrderInv, IndInv, Hands, Requests
    <3> QED BY <1>4, <3>1 DEF OrderInv, Stage
  <2> QED BY <1>6, <1>7, <2>1 DEF Stage, Kind
<1>9. Refusal'
  BY <1>6, <1>7 DEF Refusal
<1> QED BY <1>1, <1>2, <1>4, <1>5, <1>6, <1>7, <1>8, <1>9, NoElems, OrderStep

LEMMA DecideOrder == ASSUME OrderInv, NEW out, Decide(out), out # "none" PROVE OrderInv'
<1> DEFINE e == PDU("lastApplError", sc.cur)
           t == PDU("termination", sc.cur)
<1>1. IndInv'
  BY DecideSound DEF OrderInv
<1>2. UNCHANGED <<reqs, queue, made, held, refused, report, down, task, wire>> /\ sc.phase = "handle"
  BY DEF Decide, conn, deferrals, reporting
<1>3. e \in Unconf /\ t \in Unconf /\ e.k # "report" /\ t.k # "report" /\ sc.before \in Seq(Unconf)
  BY PDUUnconf DEF OrderInv, IndInv, Shape, PDU
<1>4. Kind \in Kinds /\ Kind \in {"plain", "oper", "slow"}
  <2>1. sc.cur \in 1..Len(reqs)
    BY <1>2 DEF OrderInv, IndInv, Hands, InHand, Shape
  <2>2. reqs \in Seq([id : Ids, kind : Kinds])
    BY DEF OrderInv, IndInv, Shape
  <2>3. reqs[sc.cur] \in [id : Ids, kind : Kinds]
    BY <2>1, <2>2, ElementOfSeq, Zenon
  <2> QED BY <2>3, ConnAssumption, Zenon DEF Kind
<1>5. /\ Kind = "slow" => out = "deferred"
      /\ Kind = "oper" => out \in {"refused", "terminated", "operated"}
      /\ Kind = "plain" => out \in {"positive", "error", "nil"}
  BY DEF Decide
<1>6. /\ sc'.phase = sc.phase /\ sc'.cur = sc.cur /\ sc'.inReq = sc.inReq /\ sc'.out = out
      /\ sc'.ahead = sc.ahead /\ sc'.behind = sc.behind
      /\ sc'.before = IF out = "refused" THEN Append(sc.before, e) ELSE sc.before
      /\ sc'.after = IF out = "terminated" THEN Append(sc.after, t) ELSE sc.after
  BY DEF Decide, OrderInv, IndInv, Shape
<1> HIDE DEF e, t
<1>7. Stage'
  <2>1. Kind' = Kind
    BY <1>2, <1>6 DEF Kind
  <2>2. out = "deferred" => Kind = "slow"
    BY <1>4, <1>5
  <2> QED BY <1>2, <1>5, <1>6, <2>1, <2>2 DEF OrderInv, Stage, InHand
<1>8. Refusal'
  <2>1. Elems(Append(sc.before, e)) = Elems(sc.before) \cup {e}
    BY <1>3, ElemsAppend
  <2> QED BY <1>2, <1>6, <2>1 DEF Refusal, e
<1>9. sc.behind = <<>>
  BY <1>2 DEF OrderInv, Places
<1> QED BY <1>1, <1>2, <1>3, <1>6, <1>7, <1>8, <1>9, ServeKeepsOrder

LEMMA EndRequestOrder == ASSUME OrderInv, EndRequest PROVE OrderInv'
<1>1. IndInv'
  BY EndRequestSound DEF OrderInv
<1>2. /\ UNCHANGED <<reqs, queue, made, held, refused, report, down, task, wire>>
      /\ sc.phase = "handle" /\ sc.out # "none"
  BY DEF EndRequest, conn, deferrals, reporting
<1>3. /\ sc'.phase = "answer" /\ sc'.cur = sc.cur /\ sc'.inReq = FALSE /\ sc'.out = sc.out
      /\ sc'.ahead = sc.before /\ sc'.behind = sc.after /\ sc'.before = <<>> /\ sc'.after = <<>>
  BY DEF EndRequest, OrderInv, IndInv, Shape
<1>4. Stage'
  BY <1>2, <1>3 DEF OrderInv, Stage, InHand, Kind
<1>5. Refusal'
  BY <1>2, <1>3 DEF OrderInv, Refusal, InHand
<1> QED BY <1>1, <1>2, <1>3, <1>4, <1>5, ServeKeepsOrder

LEMMA SendBeforeOrder == ASSUME OrderInv, SendBefore PROVE OrderInv'
<1> DEFINE p == Head(sc.ahead)
<1>1. IndInv'
  BY SendBeforeSound DEF OrderInv
<1>2. /\ UNCHANGED <<reqs, queue, made, held, refused, report, down, task>>
      /\ sc.phase = "answer" /\ sc.ahead # <<>> /\ wire' = Written(<<p>>)
  BY DEF SendBefore, conn, deferrals, reporting
<1>3. /\ sc'.phase = Phase("answer") /\ sc'.cur = sc.cur /\ sc'.inReq = sc.inReq /\ sc'.out = sc.out
      /\ sc'.ahead = Tail(sc.ahead) /\ sc'.behind = sc.behind
      /\ sc'.before = sc.before /\ sc'.after = sc.after
  BY DEF SendBefore, OrderInv, IndInv, Shape
<1>4. p \in Unconf /\ Elems(sc.ahead) = {p} \cup Elems(Tail(sc.ahead))
  <2>1. sc.ahead \in Seq(Unconf)
    BY DEF OrderInv, IndInv, Shape
  <2>2. p \in Unconf
    BY <1>2, <2>1, UnconfSeq
  <2>3. Elems(sc.ahead) = {p} \cup Elems(Tail(sc.ahead))
    BY <1>2, <2>1, ElemsHead
  <2> QED BY <2>2, <2>3
<1>5. p \in Written1 /\ Allowed(p)
  BY <1>4, UnconfFacts DEF OrderInv, Places, Allowed
<1> HIDE DEF p
<1>6. (wire' = wire /\ down) \/ (wire' = wire \o <<p>> /\ ~down /\ Elems(wire') = Elems(wire) \cup {p})
  BY <1>2, <1>5, WireElems, SMTT(30) DEF Written, OrderInv, IndInv
<1>7. Stage'
  BY <1>2, <1>3 DEF OrderInv, Stage, InHand, Kind, Phase
<1>8. Refusal'
  BY <1>2, <1>3, <1>4, <1>6 DEF OrderInv, Refusal, InHand, Phase
<1>9. sc'.phase \in {"answer", "over"} /\ sc.after = <<>>
  BY <1>2, <1>3 DEF Phase, OrderInv, Places
<1>10. wire' = wire \/ \E x \in Written1 : wire' = wire \o <<x>> /\ Allowed(x)
  BY <1>5, <1>6
<1> QED BY <1>1, <1>2, <1>3, <1>7, <1>8, <1>9, <1>10, ServeKeepsOrder

LEMMA AnswerOrder == ASSUME OrderInv, Answer PROVE OrderInv'
<1> DEFINE a == IF sc.out \in {"refused", "error", "nil"} THEN "error" ELSE "positive"
           p == PDU(a, sc.cur)
<1>1. IndInv'
  BY AnswerSound DEF OrderInv
<1>2. /\ UNCHANGED <<reqs, queue, made, held, refused, report, down, task>>
      /\ sc.phase = "answer" /\ sc.ahead = <<>> /\ wire' = Written(<<p>>)
  BY DEF Answer, conn, deferrals, reporting
<1>3. /\ sc'.phase = Phase("after") /\ sc'.cur = sc.cur /\ sc'.inReq = sc.inReq /\ sc'.out = sc.out
      /\ sc'.ahead = sc.ahead /\ sc'.behind = sc.behind
      /\ sc'.before = sc.before /\ sc'.after = sc.after
  BY DEF Answer, OrderInv, IndInv, Shape
<1>4. a \in Answers /\ p.k = a /\ p.n = sc.cur /\ sc.cur \in Nat /\ p \in Written1
  BY DEF Answers, PDU, Written1, OrderInv, IndInv, Shape
<1>5. Allowed(p)
  <2>1. a = "error" /\ Kind = "oper" => sc.out = "refused"
    BY <1>2 DEF OrderInv, Stage, InHand
  <2>2. sc.out = "refused" => PDU("lastApplError", sc.cur) \in Elems(wire)
    BY <1>2, NoElems DEF OrderInv, Refusal, InHand
  <2>3. p.k # "report"
    BY <1>4 DEF Answers
  <2> QED BY <1>4, <2>1, <2>2, <2>3 DEF Allowed, Kind
<1> HIDE DEF a
<1>6. (wire' = wire /\ down) \/ (wire' = wire \o <<p>> /\ ~down /\ Elems(wire') = Elems(wire) \cup {p})
  <2> HIDE DEF p
  <2> QED BY <1>2, <1>4, WireElems DEF Written, OrderInv, IndInv
<1>7. Stage'
  BY <1>2, <1>3 DEF OrderInv, Stage, InHand, Kind, Phase
<1>8. Refusal'
  BY <1>3 DEF Refusal, InHand, Phase
<1>9. sc'.phase \in {"after", "over"} /\ sc.after = <<>>
  BY <1>2, <1>3 DEF Phase, OrderInv, Places
<1>10. wire' = wire \/ \E x \in Written1 : wire' = wire \o <<x>> /\ Allowed(x)
  BY <1>4, <1>5, <1>6
<1>11. ASSUME NEW x \in Elems(sc.behind), x.k = "report", sc'.phase = "after" PROVE Responded(x.n)'
  <2>1. held'[x.n] = sc.cur
    BY <1>2, <1>11 DEF OrderInv, Places
  <2>2. p \in Elems(wire')
    BY <1>3, <1>6, <1>11 DEF Phase
  <2>3. \E b \in Answers : In(wire', PDU(b, held'[x.n]))
    BY <1>4, <2>1, <2>2, InElems
  <2> QED BY <2>3 DEF Responded, Answered
<1>12. \/ sc'.phase = "over"
       \/ sc'.phase = "after" /\ \A x \in Elems(sc.behind) : x.k = "report" => Responded(x.n)'
  BY <1>9, <1>11
<1> QED BY <1>1, <1>2, <1>3, <1>7, <1>8, <1>9, <1>10, <1>12, ServeKeepsOrder

LEMMA RunDeferredOrder == ASSUME OrderInv, RunDeferred PROVE OrderInv'
<1>1. IndInv'
  BY RunDeferredSound DEF OrderInv
<1>2. /\ UNCHANGED <<reqs, queue, made, held, refused, report, down, wire>>
      /\ sc.phase = "answer" /\ sc.out = "deferred" /\ task' = [task EXCEPT ![sc.cur] = "run"]
  BY DEF RunDeferred, conn, reporting
<1>3. /\ sc'.phase = "after" /\ sc'.cur = sc.cur /\ sc'.inReq = sc.inReq /\ sc'.out = sc.out
      /\ sc'.ahead = sc.ahead /\ sc'.behind = sc.behind
      /\ sc'.before = sc.before /\ sc'.after = sc.after
  BY DEF RunDeferred, OrderInv, IndInv, Shape
<1>4. reqs[sc.cur].kind = "slow" /\ sc.after = <<>>
  BY <1>2 DEF OrderInv, Stage, InHand, Kind, Places
<1>5. Stage'
  <2>1. \A r \in Requests : task'[r] # "none" => reqs[r].kind = "slow"
    BY <1>2, <1>4, SMTT(30) DEF OrderInv, IndInv, Shape, Stage
  <2> QED BY <1>2, <1>3, <2>1 DEF OrderInv, Stage, InHand
<1>6. Refusal'
  BY <1>3 DEF Refusal, InHand
<1>7. \A x \in Elems(sc.behind) : x.k = "report" => Responded(x.n)'
  BY <1>2, <1>4 DEF OrderInv, Places, Responded
<1> QED BY <1>1, <1>2, <1>3, <1>4, <1>5, <1>6, <1>7, ServeKeepsOrder

LEMMA QueueAfterOrder == ASSUME OrderInv, QueueAfter PROVE OrderInv'
<1>1. IndInv'
  BY QueueAfterSound DEF OrderInv
<1>2. UNCHANGED <<reqs, made, held, refused, report, down, task, wire>> /\ sc.phase = "after" /\ sc.after = <<>>
  BY DEF QueueAfter, conn, deferrals, reporting, OrderInv, Places
<1>3. CASE sc.behind # <<>>
  <2> DEFINE p == Head(sc.behind)
  <2>1. sc' = [sc EXCEPT !.behind = Tail(sc.behind)] /\ queue' \in {queue, Append(queue, p)}
    BY <1>3 DEF QueueAfter
  <2>2. /\ sc'.phase = sc.phase /\ sc'.cur = sc.cur /\ sc'.inReq = sc.inReq /\ sc'.out = sc.out
        /\ sc'.ahead = sc.ahead /\ sc'.behind = Tail(sc.behind)
        /\ sc'.before = sc.before /\ sc'.after = sc.after
    BY <2>1 DEF OrderInv, IndInv, Shape
  <2>3. p \in Unconf /\ Elems(sc.behind) = {p} \cup Elems(sc'.behind)
    <3>1. sc.behind \in Seq(Unconf)
      BY DEF OrderInv, IndInv, Shape
    <3>2. p \in Unconf
      BY <1>3, <3>1, UnconfSeq
    <3>3. Elems(sc.behind) = {p} \cup Elems(Tail(sc.behind))
      BY <1>3, <3>1, ElemsHead
    <3> QED BY <2>2, <3>2, <3>3
  <2> HIDE DEF p
  <2>4. Elems(queue') \in {Elems(queue), Elems(queue) \cup {p}}
    BY <2>1, <2>3, QueueElems, Zenon
  <2>5. Stage'
    BY <1>2, <2>2 DEF OrderInv, Stage, InHand, Kind
  <2>6. Refusal'
    BY <1>2, <2>2 DEF Refusal, InHand
  <2>7. Len(reqs) <= Len(reqs') /\ \A r \in 1..Len(reqs) : reqs'[r] = reqs[r]
    BY <1>2 DEF OrderInv, IndInv, Shape
  <2> QED BY <1>1, <1>2, <2>2, <2>3, <2>4, <2>5, <2>6, <2>7, NoElems, OrderStep
<1>4. CASE sc.behind = <<>>
  <2>1. sc' = [sc EXCEPT !.phase = "read", !.cur = 0, !.out = "none"] /\ queue' = queue
    BY <1>4 DEF QueueAfter
  <2>2. /\ sc'.phase = "read" /\ sc'.inReq = sc.inReq /\ sc'.out = "none"
        /\ sc'.ahead = sc.ahead /\ sc'.behind = sc.behind
        /\ sc'.before = sc.before /\ sc'.after = sc.after
    BY <2>1 DEF OrderInv, IndInv, Shape
  <2>3. Stage'
    BY <1>2, <2>2 DEF OrderInv, Stage, InHand, Kind
  <2>4. Refusal'
    BY <2>2 DEF Refusal, InHand
  <2> QED BY <1>1, <1>2, <1>4, <2>1, <2>2, <2>3, <2>4, ServeKeepsOrder
<1> QED BY <1>3, <1>4

LEMMA CancelsOrder ==
  ASSUME OrderInv, Cancel \/ CancelReply \/ ServeEnds \/ (\E r \in Requests : ReceiveCancel(r))
  PROVE  OrderInv'
<1>1. IndInv'
  BY CancelsSound DEF OrderInv
<1>2. /\ UNCHANGED <<reqs, queue, made, held, refused, report, down, task>>
      /\ sc.phase \in {"read", "cancel", "reply"}
  BY DEF Cancel, CancelReply, ServeEnds, ReceiveCancel, conn, deferrals, reporting
<1>3. /\ sc'.phase \in {"read", "cancel", "reply", "over"} /\ sc'.inReq = sc.inReq /\ sc'.out = sc.out
      /\ sc'.ahead = sc.ahead /\ sc'.behind = sc.behind
      /\ sc'.before = sc.before /\ sc'.after = sc.after
  <2>1. CASE Cancel
    BY <2>1 DEF Cancel, OrderInv, IndInv, Shape
  <2>2. CASE CancelReply
    BY <2>2 DEF CancelReply, OrderInv, IndInv, Shape, Phase
  <2>3. CASE ServeEnds
    BY <2>3 DEF ServeEnds, OrderInv, IndInv, Shape
  <2>4. ASSUME NEW r \in Requests, ReceiveCancel(r) PROVE <1>3!:
    BY <2>4 DEF ReceiveCancel, OrderInv, IndInv, Shape
  <2> QED BY <2>1, <2>2, <2>3, <2>4
<1>4. sc.after = <<>> /\ sc.behind = <<>>
  BY <1>2 DEF OrderInv, Places
<1>5. Stage'
  BY <1>2, <1>3 DEF OrderInv, Stage, InHand
<1>6. Refusal'
  BY <1>3 DEF Refusal, InHand
<1>7. wire' = wire \/ \E p \in Written1 : wire' = wire \o <<p>> /\ Allowed(p)
  <2>1. CASE CancelReply
    <3>1. PICK p : wire' = Written(<<p>>) /\ p \in {PDU("cancelled", sc.cur), PDU("unknown", sc.cur)}
      BY <2>1 DEF CancelReply
    <3>2. p \in Unconf /\ p.k \notin {"report", "error"}
      BY <3>1, PDUUnconf DEF OrderInv, IndInv, Shape, PDU
    <3>3. p \in Written1 /\ Allowed(p)
      BY <3>2, UnconfFacts DEF Allowed
    <3> QED BY <3>1, <3>3, WrittenOne
  <2>2. CASE Cancel \/ ServeEnds \/ (\E r \in Requests : ReceiveCancel(r))
    BY <2>2 DEF Cancel, ServeEnds, ReceiveCancel
  <2> QED BY <2>1, <2>2, Zenon
<1> QED BY <1>1, <1>2, <1>3, <1>4, <1>5, <1>6, <1>7, ServeKeepsOrder, Zenon

LEMMA TermHoldOrder == ASSUME OrderInv, NEW r \in Requests, TermHold(r) PROVE OrderInv'
<1> DEFINE p == PDU("termination", r)
<1>1. IndInv'
  BY TermsSound DEF OrderInv
<1>2. UNCHANGED <<reqs, queue, made, held, refused, report, down, task, wire>>
  BY DEF TermHold, conn, deferrals, reporting
<1>3. p \in Unconf /\ p.k # "report"
  BY PDUUnconf, ConnAssumption DEF PDU, Requests
<1>4. CASE sc.inReq
  <2>1. /\ sc'.phase = sc.phase /\ sc'.cur = sc.cur /\ sc'.inReq = sc.inReq /\ sc'.out = sc.out
        /\ sc'.ahead = sc.ahead /\ sc'.behind = sc.behind /\ sc'.before = sc.before
        /\ sc'.after = Append(sc.after, p)
    BY <1>4, Zenon DEF TermHold, OrderInv, IndInv, Shape
  <2> HIDE DEF p
  <2>2. sc.phase = "handle" /\ sc.behind = <<>>
    BY <1>4 DEF OrderInv, Stage, Places
  <2>3. Stage'
    BY <1>2, <2>1 DEF OrderInv, Stage, InHand, Kind
  <2>4. Refusal'
    BY <1>2, <2>1 DEF OrderInv, Refusal, InHand
  <2> QED BY <1>1, <1>2, <1>3, <2>1, <2>2, <2>3, <2>4, ServeKeepsOrder
<1>5. CASE ~sc.inReq
  <2>1. sc' = sc
    BY <1>5 DEF TermHold
  <2> QED BY <1>1, <1>2, <2>1, OtherStep
<1> QED BY <1>4, <1>5

LEMMA InitOrder == ASSUME Init PROVE OrderInv
<1>1. /\ reqs = <<>> /\ wire = <<>> /\ queue = <<>> /\ made = 0 /\ report = 0
      /\ sc.phase = "read" /\ sc.out = "none" /\ sc.inReq = FALSE
      /\ sc.before = <<>> /\ sc.after = <<>> /\ sc.ahead = <<>> /\ sc.behind = <<>>
      /\ task = [r \in Requests |-> "none"] /\ held = [n \in Reports |-> 0]
  BY DEF Init
<1>2. Stage /\ Refusal
  BY <1>1 DEF Stage, Refusal, InHand
<1>3. Places
  BY <1>1, NoElems, ConnAssumption DEF Places
<1>4. AroundResponse /\ Accounted
  BY <1>1 DEF AroundResponse, Accounted
<1> QED BY <1>2, <1>3, <1>4, InitSound DEF OrderInv

LEMMA StepOrder == ASSUME OrderInv, [Next]_vars PROVE OrderInv'
<1>1. CASE Serve
  <2>1. ASSUME NEW out \in {"positive", "error", "nil", "refused", "terminated", "operated", "deferred"},
               Decide(out)
        PROVE  OrderInv'
    BY <2>1, DecideOrder
  <2> QED BY <1>1, <2>1, ReceiveOrder, EndRequestOrder, SendBeforeOrder, AnswerOrder, RunDeferredOrder,
             QueueAfterOrder, CancelsOrder DEF Serve
<1>2. ASSUME NEW r \in Requests, Task(r) \/ TaskCalls(r) PROVE OrderInv'
  BY <1>2, TaskOrder
<1>3. ASSUME NEW r \in Requests, TermHold(r) PROVE OrderInv'
  BY <1>3, TermHoldOrder
<1>4. CASE ReportHold \/ ReportEnqueue \/ TermEnqueue \/ Pump
  BY <1>4, ReportHoldOrder, EnqueueOrder, PumpOrder
<1>5. CASE TransportFails \/ Close \/ CloseTransport \/ UNCHANGED vars
  BY <1>5, QuietOthers
<1> QED BY <1>1, <1>2, <1>3, <1>4, <1>5 DEF Next

(* Nothing joins the queue once it is closed.                              *)
LEMMA NothingAfterClose == ASSUME IndInv, [Next]_vars, closed PROVE Len(queue') <= Len(queue)
<1>1. queue \in Seq(Unconf) /\ Len(queue) <= Len(queue)
  BY DEF IndInv, Shape
<1>2. queue' = queue \/ (queue # <<>> /\ queue' = Tail(queue))
  <2>1. CASE Serve
    BY <2>1 DEF Serve, Receive, ReceiveCancel, Decide, EndRequest, SendBefore, Answer, RunDeferred, QueueAfter,
       Cancel, CancelReply, ServeEnds, Accepts
  <2>2. ASSUME NEW r \in Requests, Task(r) \/ TaskCalls(r) \/ TermHold(r) PROVE <1>2!:
    BY <2>2 DEF Task, CallReturns, TaskSends, TaskEnds, TaskReturns, TaskCalls, TermHold
  <2>3. CASE ReportHold \/ ReportEnqueue \/ TermEnqueue \/ Pump
    BY <2>3 DEF ReportHold, ReportEnqueue, TermEnqueue, Pump, Accepts
  <2>4. CASE TransportFails \/ Close \/ CloseTransport \/ UNCHANGED vars
    BY <2>4, Zenon DEF TransportFails, Close, CloseTransport, vars
  <2> QED BY <2>1, <2>2, <2>3, <2>4 DEF Next
<1>3. queue # <<>> => Len(Tail(queue)) <= Len(queue)
  BY <1>1
<1> QED BY <1>1, <1>2, <1>3

(* For any number of requests and reports, identifiers reused or not, and  *)
(* every capacity of the queue: a LastApplError precedes the error it      *)
(* explains, a report made during a request follows its response, a report *)
(* made outside one is never lost without its sender being told, and       *)
(* nothing is queued after Close (server_conn.go:672-727).                 *)
THEOREM ReportsAreKept == Spec => ReportsKept
<1>1. Init => OrderInv
  BY InitOrder
<1>2. OrderInv /\ [Next]_vars => OrderInv'
  BY StepOrder
<1>3. OrderInv /\ [Next]_vars =>
        [AroundResponse' /\ Accounted' /\ (closed => Len(queue') <= Len(queue))]_vars
  <2> SUFFICES ASSUME OrderInv, [Next]_vars
               PROVE  AroundResponse' /\ Accounted' /\ (closed => Len(queue') <= Len(queue))
    OBVIOUS
  <2>1. AroundResponse' /\ Accounted'
    BY StepOrder DEF OrderInv
  <2>2. closed => Len(queue') <= Len(queue)
    BY NothingAfterClose DEF OrderInv
  <2> QED BY <2>1, <2>2
<1> QED BY <1>1, <1>2, <1>3, PTL DEF Spec, ReportsKept
=============================================================================
