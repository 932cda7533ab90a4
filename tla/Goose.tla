------------------------------- MODULE Goose --------------------------------
(***************************************************************************)
(* A GOOSE publisher (goose/publisher.go), the segment it sends on, which  *)
(* may lose frames, and a supervised subscription (goose/subscriber.go).   *)
(* The publisher's operations hold its lock; its retransmission loops, the *)
(* subscription's reader and its supervision timers run beside them.  No   *)
(* real time: an interval passes, or a timer expires, at any moment.       *)
(***************************************************************************)
EXTENDS Naturals, Sequences, FiniteSets

CONSTANTS
  W,            \* the counters hold 0..W-1 (2^32)
  Gens,         \* identities of supervision timers: a bound on the callbacks outstanding
  MaxEpochs,    \* bound on the calls of Publish and Refresh
  MaxLoops,     \* bound on the loops running, stopped ones included
  MaxNet,       \* bound on the frames in flight
  MaxLoss       \* bound on the frames lost in a row

(* A counter rolls over past 0; at least one lost frame is counted, and    *)
(* more lost in a row than the counters tell apart are not considered.     *)
ASSUME GooseAssumption ==
  /\ W \in Nat \ {0, 1, 2} /\ MaxLoss \in Nat \ {0} /\ MaxLoss < W - 1
  /\ MaxEpochs \in Nat /\ MaxLoops \in Nat /\ MaxNet \in Nat
  /\ IsFiniteSet(Gens) /\ 0 \notin Gens

VARIABLES
  pub,    \* stNum, sqNum, stop (the loop now running, 0 if none), closed, and its loops
  epoch,  \* history: Publish and Refresh calls so far; each starts a loop of that number
  net,    \* frames in flight, those whose sending failed among them
  last,   \* history: the frame sent last
  sub,    \* the subscription: seqState, its timers, and what it told the application
  losses  \* history: frames lost since the last one delivered

vars == <<pub, epoch, net, last, sub, losses>>

(* Both counters roll over to 1: 0 is the start of a state.                *)
Successor(x) == IF x = W - 1 THEN 1 ELSE x + 1

NoFrame == [st |-> 0, sq |-> 0, epoch |-> 0, sent |-> FALSE]

Init ==
  /\ pub = [st |-> 0, sq |-> 0, stop |-> 0, closed |-> FALSE, loops |-> {}]
  /\ epoch = 0 /\ net = <<>> /\ last = NoFrame /\ losses = 0
  /\ sub = [held |-> NoFrame, known |-> FALSE, frame |-> NoFrame, gen |-> 0, armed |-> 0,
            started |-> {}, calling |-> {}, stopped |-> FALSE,
            told |-> FALSE]

(* send: a frame that cannot be sent is as good as lost.                   *)
Send(f) ==
  /\ Len(net) < MaxNet /\ net' = Append(net, f) /\ last' = [f EXCEPT !.sent = TRUE]
  /\ UNCHANGED <<sub, losses>>

(* Faulty variant: no loop is started.                                     *)
PublishLockedGivesUp(st, ok) ==
  /\ ~pub.closed /\ epoch < MaxEpochs /\ Cardinality(pub.loops) < MaxLoops
  /\ LET e == epoch + 1
         f == [st |-> st, sq |-> 0, epoch |-> e, sent |-> ok]
     IN /\ epoch' = e
        /\ pub' = [pub EXCEPT !.st = st, !.sq = 0, !.stop = e]
        /\ Send(f)

(* publishLocked: the state's loop replaces the one running, even if its   *)
(* first frame could not be sent.                                          *)
PublishLocked(st, ok) ==
  /\ ~pub.closed /\ epoch < MaxEpochs /\ Cardinality(pub.loops) < MaxLoops
  /\ LET e == epoch + 1
         f == [st |-> st, sq |-> 0, epoch |-> e, sent |-> ok]
     IN /\ epoch' = e
        /\ pub' = [pub EXCEPT !.st = st, !.sq = 0, !.stop = e,
                              !.loops = @ \cup {[f EXCEPT !.sent = TRUE]}]
        /\ Send(f)

Publish(ok) == PublishLocked(Successor(pub.st), ok)

(* Refresh keeps stNum; before any Publish it is one.                      *)
Refresh(ok) == PublishLocked(IF pub.st = 0 THEN 1 ELSE pub.st, ok)

(* What one turn of a loop sends; a loop whose frame cannot be sent ends.  *)
Retransmission(f, ok) == [f EXCEPT !.sq = Successor(@), !.sent = ok]
Repeat(f, ok) ==
  /\ LET g == Retransmission(f, ok)
     IN /\ pub' = [pub EXCEPT !.sq = g.sq,
                              !.loops = (@ \ {f}) \cup (IF ok THEN {g} ELSE {})]
        /\ Send(g)
  /\ UNCHANGED epoch

(* Faulty variant: a loop that waited for the lock does not look again     *)
(* whether it was stopped.                                                 *)
RetransmitStale(f, ok) == f \in pub.loops /\ Repeat(f, ok)

(* retransmit: a loop's interval has passed, and it holds the lock.        *)
Retransmit(f, ok) == f \in pub.loops /\ pub.stop = f.epoch /\ Repeat(f, ok)

(* A loop that was stopped ends.                                           *)
LoopEnds(f) ==
  /\ f \in pub.loops /\ pub.stop # f.epoch
  /\ pub' = [pub EXCEPT !.loops = @ \ {f}]
  /\ UNCHANGED <<epoch, net, last, sub, losses>>

Close ==
  /\ ~pub.closed /\ pub' = [pub EXCEPT !.closed = TRUE, !.stop = 0]
  /\ UNCHANGED <<epoch, net, last, sub, losses>>

(* The segment loses a frame: one the reader would have taken next.        *)
Lose ==
  /\ net # <<>> /\ sub.held = NoFrame /\ (Head(net).sent => losses < MaxLoss)
  /\ net' = Tail(net) /\ losses' = IF losses < MaxLoss THEN losses + 1 ELSE losses
  /\ UNCHANGED <<pub, epoch, last, sub>>

-----------------------------------------------------------------------------
(* Faulty variant: the rollover is not known.                              *)
AnomalyNoRollover(s, f) == f.st < s.st \/ f.sq # IF f.st = s.st THEN s.sq + 1 ELSE 0

(* StNumRegressed or SqNumGap of a frame f, received after frame s.        *)
Anomaly(s, f) ==
  \/ f.st < s.st /\ ~(s.st = W - 1 /\ f.st = 1)
  \/ f.sq # IF f.st = s.st THEN Successor(s.sq) ELSE 0

(* run takes the next frame, unless the subscription was stopped.          *)
Read ==
  /\ net # <<>> /\ Head(net).sent /\ ~sub.stopped /\ sub.held = NoFrame
  /\ sub' = [sub EXCEPT !.held = Head(net)] /\ net' = Tail(net)
  /\ UNCHANGED <<pub, epoch, last, losses>>

(* Faulty variant: only the first frame starts a timer.                    *)
HandleUntimed ==
  /\ sub.held # NoFrame
  /\ LET first == sub.gen = 0
     IN sub' = [sub EXCEPT !.held = NoFrame, !.known = TRUE, !.frame = sub.held,
                           !.gen = IF first THEN 1 ELSE @,
                           !.armed = IF first THEN 1 ELSE @, !.told = FALSE]
  /\ losses' = 0
  /\ UNCHANGED <<pub, epoch, net, last>>

(* run, with supervise: under the lock, the frame is compared with the one *)
(* before, and its timer replaces the last one, which is stopped unless    *)
(* its callback has started.                                               *)
Handle ==
  /\ sub.held # NoFrame
  /\ \E g \in Gens \ (sub.started \cup sub.calling \cup {sub.gen}) :
       sub' = [sub EXCEPT !.held = NoFrame, !.known = TRUE, !.frame = sub.held,
                          !.gen = g, !.armed = g, !.told = FALSE]
  /\ losses' = 0
  /\ UNCHANGED <<pub, epoch, net, last>>

Others == UNCHANGED <<pub, epoch, net, last, losses>>

(* The timer expires and its callback starts.                              *)
Expire ==
  /\ sub.armed # 0
  /\ sub' = [sub EXCEPT !.armed = 0, !.started = @ \cup {sub.armed}]
  /\ Others

(* The callback holds the lock: a superseded timer's ends there.           *)
Check(g) ==
  /\ g \in sub.started
  /\ sub' = [sub EXCEPT !.started = @ \ {g},
                        !.calling = IF g = sub.gen THEN @ \cup {g} ELSE @]
  /\ Others

(* Having released it, it reports the expiry, unless the subscription was  *)
(* stopped.                                                                *)
Report(g) ==
  /\ g \in sub.calling
  /\ sub' = [sub EXCEPT !.calling = @ \ {g},
                        !.told = @ \/ ~sub.stopped]
  /\ Others

(* The application ends the subscription.                                  *)
Stop ==
  /\ ~sub.stopped /\ sub' = [sub EXCEPT !.stopped = TRUE, !.armed = 0]
  /\ Others

Next ==
  \/ \E ok \in BOOLEAN : Publish(ok) \/ Refresh(ok) \/ \E f \in pub.loops : Retransmit(f, ok)
  \/ \E f \in pub.loops : LoopEnds(f)
  \/ Close \/ Lose \/ Read \/ Handle \/ Expire \/ Stop
  \/ \E g \in Gens : Check(g) \/ Report(g)

Spec == Init /\ [][Next]_vars

(* Goroutines and timers run, and the segment moves its frames.  A         *)
(* goroutine is at one of its steps at a time.                             *)
Fairness ==
  /\ WF_vars(\E f \in pub.loops : Retransmit(f, TRUE))
  /\ WF_vars(Read \/ Handle \/ (Lose /\ ~Head(net).sent))
  /\ WF_vars(Expire)
  /\ \A g \in Gens : WF_vars(Check(g) \/ Report(g))
FairSpec == Spec /\ Fairness

-----------------------------------------------------------------------------
Frame == [st : 0..(W - 1), sq : 0..(W - 1), epoch : 0..MaxEpochs, sent : BOOLEAN]

(* The state has its type; stNum and a repeated sqNum are never 0          *)
(* (publisher.go:132-137, 262-268).                                        *)
TypeOK ==
  /\ pub.st \in 0..(W - 1) /\ pub.sq \in 0..(W - 1) /\ pub.stop \in 0..epoch
  /\ pub.loops \subseteq Frame
  /\ net \in Seq(Frame) /\ Len(net) <= MaxNet
  /\ \A i \in 1..Len(net) : net[i].st # 0
  /\ sub.gen \in Gens \cup {0} /\ sub.armed \in {0, sub.gen}
  /\ sub.started \cup sub.calling \subseteq Gens

(* What State returns is what went out last, of the state announced last:  *)
(* a loop that was superseded neither sends after its successor nor        *)
(* touches the counters (publisher.go:269-284).                            *)
Advertised ==
  epoch > 0 => last.epoch = epoch /\ last.st = pub.st /\ last.sq = pub.sq

(* What the subscriber flags is loss, and loss is what it flags.  Without  *)
(* loss or Refresh it flags nothing: not on a state change, nor when       *)
(* either counter rolls over (subscriber.go:157-172).  A frame lost        *)
(* between two of the same state is flagged as SqNumGap when the next one  *)
(* arrives (subscriber.go:164-169).                                        *)
AnomalyMeansLoss ==
  LET f == sub.held
      s == sub.frame
  IN f # NoFrame /\ sub.known =>
       /\ losses = 0 /\ (f.epoch = s.epoch \/ f.st # s.st) => ~Anomaly(s, f)
       /\ losses > 0 /\ f.epoch = s.epoch => Anomaly(s, f)

(* The state announced last reaches the subscriber, even if its first      *)
(* frame could not be sent and others are lost, unless publisher or        *)
(* subscription end, or the loop does, on a repetition that could not be   *)
(* sent (publisher.go:214-219, 285-287).                                   *)
Reaches ==
  epoch > 0 ~> \/ sub.frame.epoch = epoch \/ pub.closed \/ sub.stopped
               \/ (last.sq # 0 /\ \A f \in pub.loops : f.epoch # epoch)

(* The silence of a publisher that ended is reported (subscriber.go:       *)
(* 65-71).                                                                 *)
SilenceNoticed ==
  pub.closed /\ net = <<>> /\ sub.held = NoFrame /\ sub.known ~> sub.told \/ sub.stopped
=============================================================================
