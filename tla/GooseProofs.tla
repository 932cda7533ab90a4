---------------------------- MODULE GooseProofs -----------------------------
(***************************************************************************)
(* Of the GOOSE publisher, for every width of the counters and every       *)
(* number of calls, loops and frames: what State returns is what went out  *)
(* last, and what the subscriber flags is what was lost between them.      *)
(***************************************************************************)
EXTENDS Goose, SequenceTheorems, TLAPS

(* Advertised is not inductive: the loop that runs sends the successor of  *)
(* its own frame, so that frame must be the one State returns and the loop *)
(* the only one of its number, while one that was superseded carries an    *)
(* older number.                                                           *)
IsFrame(f) == DOMAIN f = {"st", "sq", "epoch", "sent"}
Loops ==
  \A f \in pub.loops :
    /\ IsFrame(f) /\ f.epoch \in Nat /\ 1 <= f.epoch /\ f.epoch <= epoch
    /\ f.epoch = epoch => /\ f.st = pub.st /\ f.sq = pub.sq
                          /\ \A g \in pub.loops \ {f} : g.epoch # epoch

Shape ==
  /\ DOMAIN pub = {"st", "sq", "stop", "closed", "loops"}
  /\ epoch \in Nat /\ pub.stop \in {0, epoch}

IndInv == Shape /\ Loops /\ Advertised

LEMMA InitSound == ASSUME Init PROVE IndInv
BY DEF Init, IndInv, Shape, Loops, Advertised

(* A frame sent without its error is the same frame.                       *)
LEMMA SentAs ==
  ASSUME NEW f, IsFrame(f), NEW ok
  PROVE  LET g == [f EXCEPT !.sent = ok]
         IN  IsFrame(g) /\ g.st = f.st /\ g.sq = f.sq /\ g.epoch = f.epoch
BY DEF IsFrame

(* The next state starts a loop of its own number, and supersedes all      *)
(* others (publishLocked).                                                 *)
LEMMA PublishLockedSound ==
  ASSUME IndInv, NEW st, NEW ok \in BOOLEAN, PublishLocked(st, ok) PROVE IndInv'
<1> DEFINE e == epoch + 1
           f == [st |-> st, sq |-> 0, epoch |-> e, sent |-> ok]
           g == [f EXCEPT !.sent = TRUE]
<1>1. epoch \in Nat /\ epoch' = e
  BY DEF PublishLocked, IndInv, Shape
<1>2. IsFrame(f) /\ f.st = st /\ f.sq = 0 /\ f.epoch = e
  BY DEF IsFrame
<1>3. IsFrame(g) /\ g.st = st /\ g.sq = 0 /\ g.epoch = e
  <2> HIDE DEF f
  <2> QED BY <1>2, SentAs
<1>4. pub' = [pub EXCEPT !.st = st, !.sq = 0, !.stop = e, !.loops = @ \cup {g}] /\ last' = g
  BY DEF PublishLocked, Send
<1> HIDE DEF f, g
<1>5. /\ DOMAIN pub' = DOMAIN pub
      /\ pub'.st = st /\ pub'.sq = 0 /\ pub'.stop = e /\ pub'.loops = pub.loops \cup {g}
  BY <1>4 DEF IndInv, Shape
<1>6. Shape'
  BY <1>1, <1>5 DEF IndInv, Shape
<1>7. Loops'
  <2> SUFFICES ASSUME NEW h \in pub'.loops
               PROVE  /\ IsFrame(h) /\ h.epoch \in Nat /\ 1 <= h.epoch /\ h.epoch <= e
                      /\ h.epoch = e => h = g
    BY <1>1, <1>3, <1>5 DEF Loops
  <2>1. CASE h = g
    BY <1>1, <1>3, <2>1
  <2>2. CASE h \in pub.loops
    BY <1>1, <2>2 DEF IndInv, Loops
  <2> QED BY <1>5, <2>1, <2>2
<1>8. Advertised'
  BY <1>1, <1>3, <1>4, <1>5 DEF Advertised
<1> QED BY <1>6, <1>7, <1>8 DEF IndInv

(* Only the loop of the state announced last sends (retransmit).           *)
LEMMA RetransmitSound ==
  ASSUME IndInv, NEW f \in pub.loops, NEW ok \in BOOLEAN, Retransmit(f, ok) PROVE IndInv'
<1> DEFINE g == Retransmission(f, ok)
           h == [g EXCEPT !.sent = TRUE]
<1>1. IsFrame(f) /\ f.epoch = epoch /\ epoch \in Nat /\ 1 <= epoch /\ f.st = pub.st
  BY DEF Retransmit, IndInv, Loops, Shape
<1>2. IsFrame(g) /\ g.st = f.st /\ g.epoch = epoch
  BY <1>1 DEF Retransmission, IsFrame
<1>3. IsFrame(h) /\ h.st = g.st /\ h.sq = g.sq /\ h.epoch = epoch
  <2> HIDE DEF g
  <2> QED BY <1>2, SentAs
<1>4. /\ pub' = [pub EXCEPT !.sq = g.sq, !.loops = (@ \ {f}) \cup (IF ok THEN {g} ELSE {})]
      /\ last' = h /\ epoch' = epoch
  BY DEF Retransmit, Repeat, Send
<1> HIDE DEF g, h
<1>5. /\ DOMAIN pub' = DOMAIN pub
      /\ pub'.st = pub.st /\ pub'.sq = g.sq /\ pub'.stop = pub.stop
      /\ pub'.loops \subseteq (pub.loops \ {f}) \cup {g}
  BY <1>4 DEF IndInv, Shape
<1>6. Shape' /\ Advertised'
  BY <1>1, <1>2, <1>3, <1>4, <1>5 DEF IndInv, Shape, Advertised
<1>7. \A k \in pub'.loops : k = g \/ (k \in pub.loops /\ k.epoch # epoch)
  BY <1>1, <1>5 DEF IndInv, Loops
<1>8. Loops'
  BY <1>1, <1>2, <1>4, <1>5, <1>7 DEF IndInv, Loops
<1> QED BY <1>6, <1>8 DEF IndInv

(* The other steps leave the counters, the frame sent last and the loop    *)
(* that runs as they are.                                                  *)
LEMMA OthersSound ==
  ASSUME IndInv, UNCHANGED <<epoch, last>>, DOMAIN pub' = DOMAIN pub,
         pub'.st = pub.st, pub'.sq = pub.sq, pub'.stop \in {0, pub.stop},
         pub'.loops \subseteq pub.loops
  PROVE  IndInv'
<1>1. Shape' /\ Advertised'
  BY DEF IndInv, Shape, Advertised
<1>2. Loops'
  BY DEF IndInv, Loops
<1> QED BY <1>1, <1>2 DEF IndInv

LEMMA StepSound == ASSUME IndInv, [Next]_vars PROVE IndInv'
<1>1. ASSUME NEW ok \in BOOLEAN, Publish(ok) \/ Refresh(ok) PROVE IndInv'
  BY <1>1, PublishLockedSound DEF Publish, Refresh
<1>2. ASSUME NEW ok \in BOOLEAN, NEW f \in pub.loops, Retransmit(f, ok) PROVE IndInv'
  BY <1>2, RetransmitSound
<1>3. ASSUME NEW f \in pub.loops, LoopEnds(f) PROVE IndInv'
  BY <1>3, OthersSound DEF LoopEnds, IndInv, Shape
<1>4. CASE Close
  BY <1>4, OthersSound DEF Close, IndInv, Shape
<1>5. CASE UNCHANGED <<pub, epoch, last>>
  BY <1>5, OthersSound DEF IndInv, Shape
<1>6. CASE Lose \/ Read \/ Handle \/ Expire \/ Stop \/ UNCHANGED vars
  BY <1>5, <1>6 DEF Lose, Read, Handle, Expire, Stop, Others, vars
<1>7. ASSUME NEW g \in Gens, Check(g) \/ Report(g) PROVE IndInv'
  BY <1>5, <1>7 DEF Check, Report, Others
<1> QED BY <1>1, <1>2, <1>3, <1>4, <1>6, <1>7 DEF Next

(* For every width of the counters and every number of calls, the counters *)
(* that State returns are those of the frame that went out last, and it    *)
(* announces the newest state: a loop that was superseded neither sends    *)
(* nor touches them (publisher.go:269-284).                                *)
THEOREM StateIsAdvertised == Spec => []Advertised
<1>1. Init => IndInv BY InitSound
<1>2. IndInv /\ [Next]_vars => IndInv' BY StepSound
<1>3. IndInv => Advertised BY DEF IndInv
<1> QED BY <1>1, <1>2, <1>3, PTL DEF Spec

-----------------------------------------------------------------------------
(* For AnomalyMeansLoss the stream is followed from the publisher to the   *)
(* subscriber: how far apart two frames of it are is seen from their       *)
(* counters only, as they are all that a frame carries.                    *)
Announced == [st : 1..(W - 1), sq : 0..(W - 1), epoch : Nat, sent : BOOLEAN]

(* The counter n repetitions later; 0 is never reached again.              *)
Later(x, n) == IF x + n <= W - 1 THEN x + n ELSE x + n - (W - 1)

(* Frame h is the n-th after frame o, as far as that can be told.          *)
Ahead(o, h, n) ==
  /\ o.epoch <= h.epoch
  /\ o.epoch = h.epoch => h.st = o.st /\ h.sq = Later(o.sq, n)
  /\ o.epoch < h.epoch /\ n = 1 => h.sq = 0 /\ h.st \in {o.st, Successor(o.st)}

(* Frame g is the next after frame f: a repetition, unless f was one that  *)
(* could not be sent, or the first of a later state.                       *)
Follows(f, g) ==
  \/ g.epoch = f.epoch /\ g.st = f.st /\ g.sq = Successor(f.sq) /\ (f.sent \/ f.sq = 0)
  \/ g.epoch > f.epoch /\ g.sq = 0 /\ g.st \in {f.st, Successor(f.st)}

(* The loop of the state announced last is running.                        *)
Live == \E f \in pub.loops : f.epoch = epoch

Same(f, g) == f.st = g.st /\ f.sq = g.sq /\ f.epoch = g.epoch

(* The frame the reader took last, and the frames lost since.              *)
Heard == sub.known \/ sub.held # NoFrame
Origin == IF sub.held # NoFrame THEN sub.held ELSE sub.frame
Lost == IF sub.held # NoFrame THEN 0 ELSE losses

(* Nothing is in flight: the frame sent last is the n-th after frame o.    *)
Reached(o, n) ==
  /\ o.epoch <= last.epoch
  /\ n = 0 => Same(o, last)
  /\ Live /\ o.epoch = last.epoch => last.st = o.st /\ last.sq = Later(o.sq, n)

Typed ==
  /\ DOMAIN sub = {"held", "known", "frame", "gen", "armed", "started", "calling", "stopped",
                   "told"}
  /\ losses \in 0..MaxLoss /\ net \in Seq(Announced)
  /\ pub.st \in 0..(W - 1) /\ pub.sq \in 0..(W - 1)
  /\ epoch > 0 => last \in Announced /\ pub.st # 0
  /\ sub.held # NoFrame => sub.held \in Announced
  /\ sub.known => sub.frame \in Announced
  /\ Heard \/ net # <<>> => epoch > 0

Stream ==
  /\ \A i \in 1..(Len(net) - 1) : Follows(net[i], net[i + 1])
  /\ net # <<>> => /\ Same(net[Len(net)], last)
                   /\ Live => net[Len(net)].sent \/ net[Len(net)].sq = 0

Received ==
  /\ Heard => IF net = <<>> THEN Reached(Origin, Lost) ELSE Ahead(Origin, net[1], Lost + 1)
  /\ sub.known /\ sub.held # NoFrame => Ahead(sub.frame, sub.held, losses + 1)

StreamInv == Typed /\ Stream /\ Received

(* The counter after its n-th repetition is the successor of the one       *)
(* before, none of them is 0, and only one in W - 1 is the first.          *)
LEMMA LaterStep ==
  ASSUME NEW x \in 0..(W - 1), NEW n \in Nat, n + 1 <= W - 1
  PROVE  /\ Later(x, n) \in 0..(W - 1)
         /\ Later(x, n + 1) = Successor(Later(x, n))
         /\ Later(x, n + 1) # 0
         /\ n > 0 => Later(x, n + 1) # Successor(x)
         /\ Later(x, 1) = Successor(x) /\ Later(x, 0) = x
BY GooseAssumption DEF Later, Successor

LEMMA SuccessorType ==
  ASSUME NEW x \in 0..(W - 1) PROVE Successor(x) \in 1..(W - 1)
BY GooseAssumption DEF Successor

(* What the frame after the n-th after o is to o.                          *)
LEMMA AheadStep ==
  ASSUME NEW o \in Announced, NEW h \in Announced, NEW g \in Announced, NEW n \in Nat \ {0},
         n + 1 <= W - 1, Ahead(o, h, n), Follows(h, g)
  PROVE  Ahead(o, g, n + 1)
<1>1. o.sq \in 0..(W - 1) /\ o.epoch \in Nat /\ h.epoch \in Nat /\ g.epoch \in Nat
  BY DEF Announced
<1>2. Later(o.sq, n + 1) = Successor(Later(o.sq, n))
  BY <1>1, LaterStep
<1> QED BY <1>1, <1>2 DEF Ahead, Follows

(* If that frame could not be sent, it is not of the state of o.           *)
LEMMA AheadUnsent ==
  ASSUME NEW o \in Announced, NEW h \in Announced, NEW g \in Announced, NEW n \in Nat \ {0},
         n + 1 <= W - 1, Ahead(o, h, n + 1), ~h.sent, Follows(h, g)
  PROVE  Ahead(o, g, n + 1)
<1>1. o.sq \in 0..(W - 1) /\ o.epoch \in Nat /\ h.epoch \in Nat /\ g.epoch \in Nat
  BY DEF Announced
<1>2. Later(o.sq, n + 1) # 0
  BY <1>1, LaterStep, SMTT(30)
<1> QED BY <1>1, <1>2 DEF Ahead, Follows

LEMMA FollowsAhead ==
  ASSUME NEW f \in Announced, NEW g \in Announced, Follows(f, g) PROVE Ahead(f, g, 1)
<1>1. f.sq \in 0..(W - 1) /\ f.epoch \in Nat /\ g.epoch \in Nat
  BY DEF Announced
<1>2. Later(f.sq, 1) = Successor(f.sq)
  BY <1>1, LaterStep, GooseAssumption
<1> QED BY <1>1, <1>2 DEF Ahead, Follows

(* What a frame sent is to the one the subscriber took, and to the one     *)
(* sent before it.                                                         *)
LEMMA SendFollows ==
  ASSUME IndInv, StreamInv, NEW g \in Announced, epoch > 0,
         \/ g.epoch = epoch /\ g.st = last.st /\ g.sq = Successor(last.sq) /\ Live
         \/ g.epoch > epoch /\ g.sq = 0 /\ g.st \in {last.st, Successor(last.st)}
  PROVE  /\ net # <<>> => Follows(net[Len(net)], g)
         /\ net = <<>> /\ Heard => Ahead(Origin, g, Lost + 1)
<1>1. last \in Announced /\ last.epoch = epoch /\ epoch \in Nat
  BY DEF StreamInv, Typed, IndInv, Advertised, Shape
<1>2. net # <<>> => Follows(net[Len(net)], g)
  BY <1>1 DEF StreamInv, Stream, Same, Follows
<1>3. ASSUME net = <<>>, Heard PROVE Ahead(Origin, g, Lost + 1)
  <2>1. Reached(Origin, Lost)
    BY <1>3 DEF StreamInv, Received
  <2>2. Origin \in Announced /\ Lost \in 0..MaxLoss
    BY <1>3, GooseAssumption DEF StreamInv, Typed, Heard, Origin, Lost
  <2>3. Origin.sq \in 0..(W - 1) /\ Origin.epoch \in Nat /\ g.epoch \in Nat
    BY <2>2 DEF Announced
  <2>4. Lost \in Nat /\ Lost + 1 <= W - 1 /\ (Lost + 1 = 1 => Lost = 0)
    BY <2>2, GooseAssumption
  <2>5. Later(Origin.sq, Lost + 1) = Successor(Later(Origin.sq, Lost))
    BY <2>3, <2>4, LaterStep
  <2> QED BY <1>1, <2>1, <2>3, <2>4, <2>5 DEF Reached, Ahead, Same
<1> QED BY <1>2, <1>3

LEMMA SendStream ==
  ASSUME StreamInv, NEW g \in Announced, net' = Append(net, g), UNCHANGED <<sub, losses>>,
         last' \in Announced, Same(g, last'), pub'.st \in 1..(W - 1), pub'.sq \in 0..(W - 1),
         epoch' > 0, Live' => g.sent \/ g.sq = 0,
         net # <<>> => Follows(net[Len(net)], g),
         net = <<>> /\ Heard => Ahead(Origin, g, Lost + 1)
  PROVE  StreamInv'
<1>1. net \in Seq(Announced) /\ Len(net) \in Nat
  BY DEF StreamInv, Typed
<1>2. /\ net' \in Seq(Announced) /\ Len(net') = Len(net) + 1 /\ net'[Len(net) + 1] = g
      /\ \A i \in 1..Len(net) : net'[i] = net[i]
  BY <1>1, AppendProperties
<1>3. Typed'
  BY <1>2 DEF StreamInv, Typed, Heard
<1>4. Stream'
  <2>1. ASSUME NEW i \in 1..(Len(net') - 1) PROVE Follows(net'[i], net'[i + 1])
    <3>1. CASE i = Len(net)
      BY <1>1, <1>2, <3>1, EmptySeq
    <3>2. CASE i # Len(net)
      <4>1. i \in 1..(Len(net) - 1) /\ i \in 1..Len(net) /\ i + 1 \in 1..Len(net)
        BY <1>1, <1>2, <3>2
      <4> QED BY <1>2, <4>1 DEF StreamInv, Stream
    <3> QED BY <3>1, <3>2
  <2> QED BY <1>1, <1>2, <2>1 DEF Stream
<1>5. Received'
  <2>1. net' # <<>> /\ net'[1] = IF net = <<>> THEN g ELSE net[1]
    BY <1>1, <1>2, EmptySeq
  <2>2. Heard' = Heard /\ Origin' = Origin /\ Lost' = Lost
    BY DEF Heard, Origin, Lost
  <2>3. Heard => Ahead(Origin, net'[1], Lost + 1)
    BY <2>1 DEF StreamInv, Received
  <2> QED BY <2>1, <2>2, <2>3 DEF StreamInv, Received
<1> QED BY <1>3, <1>4, <1>5 DEF StreamInv

LEMMA PublishStream ==
  ASSUME IndInv, StreamInv, NEW st, NEW ok \in BOOLEAN, PublishLocked(st, ok),
         st \in 1..(W - 1), epoch > 0 => st \in {pub.st, Successor(pub.st)}
  PROVE  StreamInv'
<1> DEFINE e == epoch + 1
           f == [st |-> st, sq |-> 0, epoch |-> e, sent |-> ok]
           g == [f EXCEPT !.sent = TRUE]
<1>1. epoch \in Nat /\ epoch' = e /\ UNCHANGED <<sub, losses>>
  BY DEF PublishLocked, Send, IndInv, Shape
<1>2. f \in Announced /\ f.st = st /\ f.sq = 0 /\ f.epoch = e
  BY <1>1, GooseAssumption DEF Announced
<1>3. g \in Announced /\ Same(f, g)
  <2> HIDE DEF f
  <2> QED BY <1>2, Zenon DEF Announced, Same
<1>4. /\ pub' = [pub EXCEPT !.st = st, !.sq = 0, !.stop = e, !.loops = @ \cup {g}]
      /\ last' = g /\ net' = Append(net, f)
  BY DEF PublishLocked, Send
<1> HIDE DEF f, g
<1>5. pub'.st = st /\ pub'.sq = 0
  BY <1>4 DEF IndInv, Shape
<1>6. epoch > 0 => last.st = pub.st
  BY DEF IndInv, Advertised
<1>7. epoch = 0 => net = <<>> /\ ~Heard
  BY <1>1 DEF StreamInv, Typed
<1>8. /\ net # <<>> => Follows(net[Len(net)], f)
      /\ net = <<>> /\ Heard => Ahead(Origin, f, Lost + 1)
  <2>1. CASE epoch = 0
    BY <1>7, <2>1
  <2>2. CASE epoch > 0
    BY <1>1, <1>2, <1>6, <2>2, SendFollows
  <2> QED BY <1>1, <2>1, <2>2
<1>9. 0 \in 0..(W - 1)
  BY GooseAssumption
<1> QED BY <1>1, <1>2, <1>3, <1>4, <1>5, <1>8, <1>9, SendStream

(* A repetition is a frame of the same state.                              *)
LEMMA RepeatedFrame ==
  ASSUME NEW f, IsFrame(f), NEW q, NEW ok, NEW g, g = [f EXCEPT !.sq = q, !.sent = ok]
  PROVE  g = [st |-> f.st, sq |-> q, epoch |-> f.epoch, sent |-> ok]
BY Zenon DEF IsFrame

LEMMA RetransmitStream ==
  ASSUME IndInv, StreamInv, NEW f \in pub.loops, NEW ok \in BOOLEAN, Retransmit(f, ok)
  PROVE  StreamInv'
<1> DEFINE g == Retransmission(f, ok)
           h == [g EXCEPT !.sent = TRUE]
<1>1. /\ IsFrame(f) /\ f.epoch = epoch /\ epoch \in Nat /\ epoch > 0 /\ Live
      /\ f.st = pub.st /\ f.sq = pub.sq /\ last.st = pub.st /\ last.sq = pub.sq
      /\ \A k \in pub.loops : k.epoch = epoch => k = f
  BY DEF Retransmit, IndInv, Loops, Shape, Live, Advertised
<1>2. pub.st \in 1..(W - 1) /\ pub.sq \in 0..(W - 1) /\ Successor(pub.sq) \in 1..(W - 1)
  <2>1. pub.st \in 0..(W - 1) /\ pub.sq \in 0..(W - 1) /\ pub.st # 0
    BY <1>1 DEF StreamInv, Typed
  <2>2. pub.st \in 1..(W - 1)
    BY <2>1, GooseAssumption
  <2> QED BY <2>1, <2>2, SuccessorType
<1>3. g = [st |-> pub.st, sq |-> Successor(pub.sq), epoch |-> epoch, sent |-> ok]
  <2>1. g = [f EXCEPT !.sq = Successor(f.sq), !.sent = ok]
    BY DEF Retransmission
  <2>2. g = [st |-> f.st, sq |-> Successor(f.sq), epoch |-> f.epoch, sent |-> ok]
    <3> DEFINE q == Successor(f.sq)
    <3> HIDE DEF q, g
    <3> QED BY <1>1, <2>1, RepeatedFrame DEF q
  <2> QED BY <1>1, <2>2
<1>4. /\ pub' = [pub EXCEPT !.sq = g.sq, !.loops = (@ \ {f}) \cup (IF ok THEN {g} ELSE {})]
      /\ last' = h /\ epoch' = epoch /\ net' = Append(net, g) /\ UNCHANGED <<sub, losses>>
  BY DEF Retransmit, Repeat, Send
<1>5. g.st = pub.st /\ g.sq = Successor(pub.sq) /\ g.epoch = epoch /\ g.sent = ok
  BY <1>3
<1> HIDE DEF g
<1>6. g \in Announced
  BY <1>1, <1>2, <1>3 DEF Announced
<1>7. h \in Announced /\ Same(g, h)
  BY <1>6, Zenon DEF Announced, Same
<1> HIDE DEF h
<1>8. /\ pub'.st = pub.st /\ pub'.sq = g.sq
      /\ pub'.loops = (pub.loops \ {f}) \cup (IF ok THEN {g} ELSE {})
  BY <1>4 DEF IndInv, Shape
<1>9. Live' => g.sent \/ g.sq = 0
  BY <1>1, <1>4, <1>5, <1>8 DEF Live
<1>10. /\ net # <<>> => Follows(net[Len(net)], g)
       /\ net = <<>> /\ Heard => Ahead(Origin, g, Lost + 1)
  BY <1>1, <1>5, <1>6, SendFollows
<1>11. pub'.st \in 1..(W - 1) /\ pub'.sq \in 0..(W - 1) /\ epoch' > 0
  BY <1>1, <1>2, <1>4, <1>5, <1>8
<1> QED BY <1>4, <1>6, <1>7, <1>9, <1>10, <1>11, SendStream

(* What is left of the stream when its first frame is taken from it.       *)
LEMMA TakenStream ==
  ASSUME StreamInv, net # <<>>, net' = Tail(net), UNCHANGED <<pub, epoch, last>>
  PROVE  /\ net' \in Seq(Announced) /\ net[1] \in Announced /\ Head(net) = net[1]
         /\ Stream'
         /\ net' = <<>> => /\ Same(net[1], last)
                           /\ Live => net[1].sent \/ net[1].sq = 0
         /\ net' # <<>> => net'[1] \in Announced /\ Follows(net[1], net'[1])
<1>1. net \in Seq(Announced) /\ Len(net) \in Nat \ {0}
  BY EmptySeq DEF StreamInv, Typed
<1>2. /\ net' \in Seq(Announced) /\ Len(net') = Len(net) - 1
      /\ \A i \in 1..Len(net') : net'[i] = net[i + 1]
      /\ Head(net) = net[1]
  BY <1>1, HeadTailProperties
<1>3. net[1] \in Announced /\ (net' = <<>> <=> Len(net) = 1)
  <2>1. 1 \in 1..Len(net)
    BY <1>1
  <2>2. net[1] \in Announced
    BY <1>1, <2>1, ElementOfSeq
  <2>3. net' = <<>> <=> Len(net') = 0
    BY <1>2, EmptySeq, Zenon
  <2> QED BY <1>1, <1>2, <2>2, <2>3
<1>4. Live' = Live
  BY DEF Live
<1>5. ASSUME NEW i \in 1..(Len(net') - 1) PROVE Follows(net'[i], net'[i + 1])
  <2>1. i \in 1..Len(net') /\ i + 1 \in 1..Len(net') /\ i + 1 \in 1..(Len(net) - 1)
    BY <1>1, <1>2
  <2> QED BY <1>2, <2>1 DEF StreamInv, Stream
<1>6. net' # <<>> => net'[Len(net')] = net[Len(net)]
  BY <1>1, <1>2, <1>3
<1>7. Stream'
  BY <1>4, <1>5, <1>6 DEF StreamInv, Stream
<1>8. net' = <<>> => Same(net[1], last) /\ (Live => net[1].sent \/ net[1].sq = 0)
  BY <1>3 DEF StreamInv, Stream
<1>9. net' # <<>> => net'[1] \in Announced /\ Follows(net[1], net'[1])
  <2>1. net' # <<>> => 1 \in 1..(Len(net) - 1) /\ 1 \in 1..Len(net')
    BY <1>1, <1>2, <1>3
  <2> QED BY <1>2, <2>1, ElementOfSeq DEF StreamInv, Stream
<1> QED BY <1>2, <1>3, <1>7, <1>8, <1>9

(* A frame is lost: the next one is one further from the last one heard,   *)
(* unless the one lost could not be sent and so ended its state.           *)
LEMMA LoseStream ==
  ASSUME IndInv, StreamInv, Lose PROVE StreamInv'
<1>1. /\ net # <<>> /\ net' = Tail(net) /\ sub.held = NoFrame
      /\ Head(net).sent => losses < MaxLoss
      /\ losses' = IF losses < MaxLoss THEN losses + 1 ELSE losses
      /\ UNCHANGED <<pub, epoch, last, sub>>
  BY DEF Lose
<1> DEFINE h == net[1]
           g == net'[1]
           o == sub.frame
<1>2. /\ net' \in Seq(Announced) /\ h \in Announced /\ Head(net) = h /\ Stream'
      /\ net' = <<>> => Same(h, last) /\ (Live => h.sent \/ h.sq = 0)
      /\ net' # <<>> => g \in Announced /\ Follows(h, g)
  BY <1>1, TakenStream
<1>3. losses \in 0..MaxLoss /\ losses' \in 0..MaxLoss /\ losses' > 0
  BY <1>1, GooseAssumption DEF StreamInv, Typed
<1>4. Typed'
  BY <1>1, <1>2, <1>3 DEF StreamInv, Typed, Heard
<1>5. Origin = o /\ Origin' = o /\ Lost = losses /\ Lost' = losses' /\ Heard' = Heard
  BY <1>1 DEF Origin, Lost, Heard
<1>6. ASSUME Heard PROVE 
             IF net' = <<>>
             THEN /\ o.epoch <= last.epoch
                  /\ Live /\ o.epoch = last.epoch =>
                       last.st = o.st /\ last.sq = Later(o.sq, losses')
             ELSE Ahead(o, g, losses' + 1)
  <2>1. o \in Announced /\ Ahead(o, h, losses + 1) /\ Live' = Live
    BY <1>1, <1>5, <1>6 DEF StreamInv, Typed, Received, Heard, Live
  <2>2. o.sq \in 0..(W - 1) /\ o.epoch \in Nat /\ h.epoch \in Nat
    BY <1>2, <2>1 DEF Announced
  <2>3. CASE losses < MaxLoss
    <3>1. losses' = losses + 1 /\ losses + 1 \in Nat \ {0} /\ (losses + 1) + 1 <= W - 1
      BY <1>1, <1>3, <2>3, GooseAssumption
    <3>2. CASE net' = <<>>
      BY <1>1, <1>2, <1>3, <2>1, <2>2, <3>1, <3>2 DEF Same, Ahead
    <3>3. CASE net' # <<>>
      <4> HIDE DEF g, h, o
      <4> QED BY <1>2, <2>1, <3>1, <3>3, AheadStep
    <3> QED BY <3>2, <3>3
  <2>4. CASE ~(losses < MaxLoss)
    <3>1. losses' = losses /\ losses \in Nat \ {0} /\ losses + 1 <= W - 1 /\ ~h.sent
      BY <1>1, <1>2, <1>3, <2>4, GooseAssumption
    <3>2. CASE net' = <<>>
      <4>1. Later(o.sq, losses + 1) # 0
        BY <2>2, <3>1, LaterStep, SMTT(30)
      <4> QED BY <1>1, <1>2, <1>3, <2>1, <2>2, <3>1, <3>2, <4>1 DEF Same, Ahead
    <3>3. CASE net' # <<>>
      <4> HIDE DEF g, h, o
      <4> QED BY <1>2, <2>1, <3>1, <3>3, AheadUnsent
    <3> QED BY <3>2, <3>3
  <2> QED BY <2>3, <2>4
<1>7. Received'
  <2>1. Live' = Live
    BY <1>1 DEF Live
  <2> QED BY <1>1, <1>3, <1>5, <1>6, <2>1 DEF Received, Reached
<1> QED BY <1>2, <1>4, <1>7 DEF StreamInv

(* A frame is taken: it is the one that the next are ahead of.             *)
LEMMA ReadStream ==
  ASSUME IndInv, StreamInv, Read PROVE StreamInv'
<1>1. /\ net # <<>> /\ net' = Tail(net) /\ sub.held = NoFrame /\ Head(net).sent
      /\ sub' = [sub EXCEPT !.held = Head(net)] /\ UNCHANGED <<pub, epoch, last, losses>>
  BY DEF Read
<1> DEFINE h == net[1]
           g == net'[1]
<1>2. /\ net' \in Seq(Announced) /\ h \in Announced /\ Head(net) = h /\ Stream'
      /\ net' = <<>> => Same(h, last)
      /\ net' # <<>> => g \in Announced /\ Follows(h, g)
  BY <1>1, TakenStream
<1>3. h # NoFrame /\ epoch > 0
  <2>1. h.st \in 1..(W - 1) /\ NoFrame.st = 0
    BY <1>2 DEF Announced, NoFrame
  <2>2. h.st # 0
    BY <2>1, GooseAssumption
  <2> QED BY <1>1, <2>1, <2>2 DEF StreamInv, Typed
<1> HIDE DEF h, g
<1>4. /\ DOMAIN sub' = DOMAIN sub /\ sub'.held = h /\ sub'.known = sub.known
      /\ sub'.frame = sub.frame
  BY <1>1, <1>2 DEF StreamInv, Typed
<1>5. Typed'
  BY <1>1, <1>2, <1>3, <1>4 DEF StreamInv, Typed
<1>6. Origin' = h /\ Lost' = 0
  BY <1>3, <1>4 DEF Origin, Lost
<1>7. sub.known => Ahead(sub.frame, h, losses + 1)
  BY <1>1 DEF StreamInv, Received, Heard, Origin, Lost, h
<1>8. net' = <<>> => /\ h.epoch <= last.epoch /\ Same(h, last)
                     /\ last.st = h.st /\ last.sq = Later(h.sq, 0)
  <2>1. h.sq \in 0..(W - 1) /\ h.epoch \in Nat
    BY <1>2 DEF Announced
  <2>2. Later(h.sq, 0) = h.sq
    BY <2>1, LaterStep, GooseAssumption
  <2> QED BY <1>2, <2>1, <2>2 DEF Same
<1>9. net' # <<>> => Ahead(h, g, 0 + 1)
  BY <1>2, FollowsAhead
<1>10. Received'
  BY <1>1, <1>4, <1>6, <1>7, <1>8, <1>9 DEF Received, Reached, g
<1> QED BY <1>2, <1>5, <1>10 DEF StreamInv

(* The frame taken is handled: it is the one before the next.              *)
LEMMA HandleStream ==
  ASSUME IndInv, StreamInv, Handle PROVE StreamInv'
<1>1. PICK t \in Gens :
        sub' = [sub EXCEPT !.held = NoFrame, !.known = TRUE, !.frame = sub.held,
                           !.gen = t, !.armed = t, !.told = FALSE]
  BY DEF Handle
<1>2. sub.held # NoFrame /\ losses' = 0 /\ UNCHANGED <<pub, epoch, net, last>>
  BY DEF Handle
<1>3. /\ DOMAIN sub' = DOMAIN sub
      /\ sub'.held = NoFrame /\ sub'.known = TRUE /\ sub'.frame = sub.held
  BY <1>1 DEF StreamInv, Typed
<1>4. Origin' = Origin /\ Lost' = Lost /\ Heard' /\ Heard /\ Live' = Live
  BY <1>2, <1>3 DEF Origin, Lost, Heard, Live
<1>5. Typed'
  BY <1>2, <1>3, <1>4, GooseAssumption DEF StreamInv, Typed
<1>6. Stream'
  BY <1>2, <1>4, SMTT(30) DEF StreamInv, Stream
<1>7. Received'
  BY <1>2, <1>3, <1>4 DEF StreamInv, Received, Reached
<1> QED BY <1>5, <1>6, <1>7 DEF StreamInv

(* The other steps touch neither the stream nor what was heard of it.      *)
LEMMA OthersStream ==
  ASSUME IndInv, StreamInv, UNCHANGED <<epoch, net, last, losses>>,
         pub'.st = pub.st, pub'.sq = pub.sq, pub'.loops \subseteq pub.loops,
         DOMAIN sub' = DOMAIN sub, sub'.held = sub.held, sub'.known = sub.known,
         sub'.frame = sub.frame
  PROVE  StreamInv'
<1>1. Origin' = Origin /\ Lost' = Lost /\ Heard' = Heard /\ (Live' => Live)
  BY DEF Origin, Lost, Heard, Live
<1>2. Typed'
  BY <1>1 DEF StreamInv, Typed
<1>3. Stream'
  BY <1>1 DEF StreamInv, Stream
<1>4. Received'
  BY <1>1 DEF StreamInv, Received, Reached
<1> QED BY <1>2, <1>3, <1>4 DEF StreamInv

LEMMA InitStream == ASSUME Init PROVE StreamInv
<1>1. ~Heard /\ Len(net) = 0 /\ net = <<>>
  BY DEF Init, Heard
<1>2. Typed
  BY <1>1, GooseAssumption, EmptySeq DEF Init, Typed
<1> QED BY <1>1, <1>2 DEF Init, StreamInv, Stream, Received

LEMMA StepStream == ASSUME IndInv, StreamInv, [Next]_vars PROVE StreamInv'
<1>1. ASSUME NEW ok \in BOOLEAN, Publish(ok) \/ Refresh(ok) PROVE StreamInv'
  <2>1. pub.st \in 0..(W - 1) /\ epoch \in Nat /\ (epoch > 0 => pub.st # 0)
    BY DEF StreamInv, Typed, IndInv, Shape
  <2>2. Successor(pub.st) \in 1..(W - 1)
    BY <2>1, SuccessorType
  <2>3. CASE Publish(ok)
    BY <2>2, <2>3, PublishStream DEF Publish
  <2>4. CASE Refresh(ok)
    <3> DEFINE st == IF pub.st = 0 THEN 1 ELSE pub.st
    <3>1. st \in 1..(W - 1) /\ (epoch > 0 => st = pub.st)
      BY <2>1, GooseAssumption
    <3> QED BY <2>4, <3>1, PublishStream DEF Refresh
  <2> QED BY <1>1, <2>3, <2>4
<1>2. ASSUME NEW ok \in BOOLEAN, NEW f \in pub.loops, Retransmit(f, ok) PROVE StreamInv'
  BY <1>2, RetransmitStream
<1>3. ASSUME NEW f \in pub.loops, LoopEnds(f) PROVE StreamInv'
  BY <1>3, OthersStream DEF LoopEnds, IndInv, Shape
<1>4. CASE Close
  BY <1>4, OthersStream DEF Close, IndInv, Shape
<1>5. CASE Lose \/ Read \/ Handle
  BY <1>5, LoseStream, ReadStream, HandleStream
<1>6. CASE Expire \/ Stop \/ UNCHANGED vars
  BY <1>6, OthersStream, Zenon DEF Expire, Stop, Others, vars, StreamInv, Typed
<1>7. ASSUME NEW g \in Gens, Check(g) \/ Report(g) PROVE StreamInv'
  BY <1>7, OthersStream, Zenon DEF Check, Report, Others, StreamInv, Typed
<1> QED BY <1>1, <1>2, <1>3, <1>4, <1>5, <1>6, <1>7 DEF Next

(* What the counters of two frames heard in a row say.                     *)
LEMMA AheadAnomaly ==
  ASSUME NEW s \in Announced, NEW f \in Announced, NEW n \in Nat, n + 1 <= W - 1,
         Ahead(s, f, n + 1)
  PROVE  /\ n = 0 /\ (f.epoch = s.epoch \/ f.st # s.st) => ~Anomaly(s, f)
         /\ n > 0 /\ f.epoch = s.epoch => Anomaly(s, f)
<1>1. /\ s.st \in 1..(W - 1) /\ f.st \in 1..(W - 1) /\ s.sq \in 0..(W - 1)
      /\ s.epoch \in Nat /\ f.epoch \in Nat
  BY DEF Announced
<1>2. /\ n > 0 => Later(s.sq, n + 1) # Successor(s.sq)
      /\ n = 0 => Later(s.sq, n + 1) = Successor(s.sq)
  <2>1. /\ n > 0 => Later(s.sq, n + 1) # Successor(s.sq)
        /\ Later(s.sq, 1) = Successor(s.sq)
    BY <1>1, LaterStep, SMTT(30)
  <2>2. n = 0 => n + 1 = 1
    OBVIOUS
  <2> QED BY <2>1, <2>2
<1>3. CASE f.epoch = s.epoch
  <2>1. f.st = s.st /\ f.sq = Later(s.sq, n + 1)
    BY <1>3 DEF Ahead
  <2>2. Anomaly(s, f) <=> f.sq # Successor(s.sq)
    BY <1>1, <2>1 DEF Anomaly
  <2> QED BY <1>2, <2>1, <2>2
<1>4. ASSUME f.epoch # s.epoch, n = 0, f.st # s.st PROVE ~Anomaly(s, f)
  <2>1. f.sq = 0 /\ f.st = Successor(s.st)
    BY <1>1, <1>4 DEF Ahead
  <2>2. ~(f.st < s.st) \/ (s.st = W - 1 /\ f.st = 1)
    BY <1>1, <2>1, GooseAssumption DEF Successor
  <2> QED BY <1>4, <2>1, <2>2 DEF Anomaly
<1> QED BY <1>1, <1>3, <1>4

(* For every width of the counters, and any number of frames in flight:    *)
(* when nothing was lost nothing is flagged, not on a state change nor     *)
(* when either counter rolls over, and a loss between two frames of one    *)
(* state is flagged as a gap (subscriber.go:157-172, publisher.go:262-284).*)
THEOREM AnomaliesAreLosses == Spec => []AnomalyMeansLoss
<1>1. Init => IndInv /\ StreamInv
  BY InitSound, InitStream
<1>2. IndInv /\ StreamInv /\ [Next]_vars => IndInv' /\ StreamInv'
  BY StepSound, StepStream
<1>3. StreamInv => AnomalyMeansLoss
  <2> DEFINE f == sub.held
             s == sub.frame
  <2> SUFFICES ASSUME StreamInv, f # NoFrame, sub.known
               PROVE  /\ losses = 0 /\ (f.epoch = s.epoch \/ f.st # s.st) => ~Anomaly(s, f)
                      /\ losses > 0 /\ f.epoch = s.epoch => Anomaly(s, f)
    BY DEF AnomalyMeansLoss
  <2>1. s \in Announced /\ f \in Announced /\ Ahead(s, f, losses + 1)
    BY DEF StreamInv, Typed, Received
  <2>2. losses \in Nat /\ losses + 1 <= W - 1
    BY GooseAssumption DEF StreamInv, Typed
  <2> QED BY <2>1, <2>2, AheadAnomaly
<1> QED BY <1>1, <1>2, <1>3, PTL DEF Spec
=============================================================================
