----------------------------- MODULE Associations -----------------------------
(***************************************************************************)
(* The life of the server's associations (server/server.go): each runs on  *)
(* its own goroutine, from the connection slot through the handshake to    *)
(* the clean-up, while Close may stop the server at any point.  With them, *)
(* a unicast sampled value control block (server/svcb.go), which clients   *)
(* reserve and enable: its changes are queued under the model lock and     *)
(* told to the application by whichever goroutine flushes the queue.       *)
(***************************************************************************)
EXTENDS Naturals, Sequences, FiniteSets

CONSTANTS Conns,      \* connections
          NoConn,     \* no connection
          MaxConns,   \* the configured limit, 0 for none
          MaxChanges  \* bound: changes of the control block

(* What the constants may be.                                              *)
ASSUME AAssumption == MaxConns \in Nat /\ MaxChanges \in Nat /\ NoConn \notin Conns

VARIABLES pc,      \* where each connection's goroutine is
          open,    \* s.open, the slots taken
          conns,   \* s.conns, the established associations
          lost,    \* the associations whose transport is closed
          server,  \* Close: "serving", "stopped" accepting, "closed"
          svcb,    \* the block: SvEna, Resv and the reserving association
          queue,   \* s.svQueue
          flush,   \* flushSV: who holds svDeliver, and the events it took
          told,    \* history: the events the application was told
          made     \* history: the changes made, in their order
asVars == <<pc, open, conns, lost, server, svcb, queue, flush, told, made>>

Event == [ena : BOOLEAN, resv : BOOLEAN, owner : Conns \cup {NoConn}]

(* "refused", "failed" and "gone" are ends of the goroutine.  "written" is *)
(* a write about to flush; "ended", "released" and "freed" are stations of *)
(* the deferred clean-up.                                                  *)
Stations == {"new", "raw", "slot", "accepted", "serving", "written", "ended", "released", "freed",
             "refused", "failed", "gone"}

ConnsTypeOK ==
  /\ pc \in [Conns -> Stations] /\ open \in 0..Cardinality(Conns)
  /\ conns \subseteq Conns /\ lost \subseteq Conns
  /\ server \in {"serving", "stopped", "closed"}
  /\ svcb \in Event
  /\ queue \in Seq(Event) /\ told \in Seq(Event) /\ made \in Seq(Event)
  /\ flush \in [by : Conns \cup {NoConn}, events : Seq(Event)]

Free == [ena |-> FALSE, resv |-> FALSE, owner |-> NoConn]

ConnsInit ==
  /\ pc = [c \in Conns |-> "new"] /\ open = 0 /\ conns = {} /\ lost = {} /\ server = "serving"
  /\ svcb = Free /\ queue = <<>> /\ told = <<>> /\ made = <<>>
  /\ flush = [by |-> NoConn, events |-> <<>>]

At(c, from, to) == pc[c] = from /\ pc' = [pc EXCEPT ![c] = to]
unchangedSV == UNCHANGED <<svcb, queue, flush, told, made>>

----------------------------------------------------------------------------
(* Serve accepts a connection while the listener is open; serveConn takes  *)
(* a slot for it, or refuses it at the limit.                              *)
Accept(c) ==
  /\ server = "serving" /\ At(c, "new", "raw")
  /\ UNCHANGED <<open, conns, lost, server>> /\ unchangedSV

TakeSlot(c) ==
  /\ IF MaxConns > 0 /\ open >= MaxConns
     THEN At(c, "raw", "refused") /\ UNCHANGED open
     ELSE At(c, "raw", "slot") /\ open' = open + 1
  /\ UNCHANGED <<conns, lost, server>> /\ unchangedSV

(* releaseSlot *)
ReleaseSlot == open' = IF open > 0 THEN open - 1 ELSE 0

(* The handshake succeeds, or fails or times out and gives the slot back.  *)
Handshake(c) ==
  /\ \/ At(c, "slot", "accepted") /\ UNCHANGED open
     \/ At(c, "slot", "failed") /\ ReleaseSlot
  /\ UNCHANGED <<conns, lost, server>> /\ unchangedSV

(* Faulty variants: the slot of an association torn down here is kept; an  *)
(* association is entered without a look at Close.                         *)
RegisterLeaks(c) ==
  /\ IF server = "closed"
     THEN At(c, "accepted", "failed") /\ UNCHANGED <<open, conns>>
     ELSE At(c, "accepted", "serving") /\ conns' = conns \cup {c} /\ UNCHANGED open
  /\ UNCHANGED <<lost, server>> /\ unchangedSV

RegisterAnyway(c) ==
  /\ At(c, "accepted", "serving") /\ conns' = conns \cup {c}
  /\ UNCHANGED <<open, lost, server>> /\ unchangedSV

(* The association is entered among the open ones, unless Close has gone   *)
(* through them already: then it is torn down here.                        *)
Register(c) ==
  /\ IF server = "closed"
     THEN At(c, "accepted", "failed") /\ ReleaseSlot /\ UNCHANGED conns
     ELSE At(c, "accepted", "serving") /\ conns' = conns \cup {c} /\ UNCHANGED open
  /\ UNCHANGED <<lost, server>> /\ unchangedSV

(* The client leaves, or its connection is lost.                           *)
Lose(c) ==
  /\ pc[c] \in {"serving", "written"} /\ c \notin lost
  /\ lost' = lost \cup {c}
  /\ UNCHANGED <<pc, open, conns, server>> /\ unchangedSV

(* Close closes the listener, then every open association.                 *)
StopListening ==
  /\ server = "serving" /\ server' = "stopped"
  /\ UNCHANGED <<pc, open, conns, lost>> /\ unchangedSV

CloseAll ==
  /\ server = "stopped" /\ server' = "closed"
  /\ lost' = lost \cup conns
  /\ UNCHANGED <<pc, open, conns>> /\ unchangedSV

----------------------------------------------------------------------------
(* checkWrite of the block: not one that another association reserved.     *)
CheckWrite(c) == svcb.owner \in {NoConn, c}

(* onWrite: reserving makes the writer the owner.                          *)
OnWrite(c, attr, v) ==
  IF attr = "SvEna" THEN [svcb EXCEPT !.ena = v]
  ELSE [svcb EXCEPT !.resv = v, !.owner = IF v THEN c ELSE NoConn]

(* queueSV: a change is queued, with the state it led to.                  *)
QueueSV(b) ==
  /\ svcb' = b
  /\ IF [b EXCEPT !.owner = NoConn] # [svcb EXCEPT !.owner = NoConn]
     THEN queue' = Append(queue, b) /\ made' = Append(made, b)
     ELSE UNCHANGED <<queue, made>>

(* write, of SvEna or Resv: under the model lock; then the queue is        *)
(* flushed.                                                                *)
Write(c, attr, v) ==
  /\ c \notin lost /\ CheckWrite(c) /\ Len(made) < MaxChanges
  /\ At(c, "serving", "written")
  /\ QueueSV(OnWrite(c, attr, v))
  /\ UNCHANGED <<open, conns, lost, server, flush, told>>

(* The deferred clean-up of serveConn, one lock at a time: the association *)
(* leaves the open ones, gives its slot back, and frees the block.         *)
End(c) ==
  /\ c \in lost /\ At(c, "serving", "ended")
  /\ conns' = conns \ {c}
  /\ UNCHANGED <<open, lost, server>> /\ unchangedSV

Release(c) ==
  /\ At(c, "ended", "released") /\ ReleaseSlot
  /\ UNCHANGED <<conns, lost, server>> /\ unchangedSV

(* Faulty variant: only an enabled block is freed.                         *)
ReleaseSVCBsEnabled(c) ==
  /\ At(c, "released", "freed")
  /\ IF svcb.owner = c /\ svcb.ena THEN QueueSV(Free) ELSE UNCHANGED <<svcb, queue, made>>
  /\ UNCHANGED <<open, conns, lost, server, flush, told>>

ReleaseSVCBs(c) ==
  /\ At(c, "released", "freed")
  /\ IF svcb.owner = c THEN QueueSV(Free) ELSE UNCHANGED <<svcb, queue, made>>
  /\ UNCHANGED <<open, conns, lost, server, flush, told>>

(* flushSV: one goroutine at a time takes the queue and tells its events,  *)
(* until it is empty.                                                      *)
FlushBegin(c) ==
  /\ pc[c] \in {"written", "freed"} /\ flush.by = NoConn
  /\ flush' = [flush EXCEPT !.by = c]
  /\ UNCHANGED <<pc, open, conns, lost, server, svcb, queue, told, made>>

(* Faulty variant: the queue is not cleared when it is taken.              *)
FlushTakeKeeps(c) ==
  /\ flush.by = c /\ flush.events = <<>> /\ queue # <<>> /\ Len(told) < 4
  /\ flush' = [flush EXCEPT !.events = queue]
  /\ UNCHANGED <<pc, open, conns, lost, server, svcb, queue, told, made>>

FlushTake(c) ==
  /\ flush.by = c /\ flush.events = <<>> /\ queue # <<>>
  /\ flush' = [flush EXCEPT !.events = queue] /\ queue' = <<>>
  /\ UNCHANGED <<pc, open, conns, lost, server, svcb, told, made>>

Tell(c) ==
  /\ flush.by = c /\ flush.events # <<>>
  /\ told' = Append(told, Head(flush.events))
  /\ flush' = [flush EXCEPT !.events = Tail(@)]
  /\ UNCHANGED <<pc, open, conns, lost, server, svcb, queue, made>>

FlushEnd(c) ==
  /\ flush.by = c /\ flush.events = <<>> /\ queue = <<>>
  /\ flush' = [flush EXCEPT !.by = NoConn]
  /\ At(c, "written", "serving") \/ At(c, "freed", "gone")
  /\ UNCHANGED <<open, conns, lost, server, svcb, queue, told, made>>

(* What a connection's goroutine does by itself.                           *)
Proceed(c) ==
  \/ TakeSlot(c) \/ Handshake(c) \/ Register(c) \/ End(c) \/ Release(c) \/ ReleaseSVCBs(c)
  \/ FlushBegin(c) \/ FlushTake(c) \/ Tell(c) \/ FlushEnd(c)

ConnsNext ==
  \/ \E c \in Conns :
       \/ Accept(c) \/ Lose(c) \/ Proceed(c)
       \/ \E attr \in {"SvEna", "Resv"}, v \in BOOLEAN : Write(c, attr, v)
  \/ StopListening
  \/ CloseAll

ConnsSpec == ConnsInit /\ [][ConnsNext]_asVars

(* The scheduler runs every goroutine: a handshake ends at its timeout, a  *)
(* mutex is granted in turn, and Close goes on once it has begun.          *)
Fairness == WF_asVars(CloseAll) /\ \A c \in Conns : SF_asVars(FlushBegin(c)) /\ WF_asVars(Proceed(c))
FairSpec == ConnsSpec /\ Fairness

----------------------------------------------------------------------------
(* The slot count is the number of connections being set up or served, on  *)
(* every path through serveConn, and never above the limit: a slot is      *)
(* neither leaked nor given back twice.                                    *)
SlotsCounted ==
  /\ open = Cardinality({c \in Conns : pc[c] \in {"slot", "accepted", "serving", "written", "ended"}})
  /\ MaxConns > 0 => open <= MaxConns

(* A reserved block belongs to an association that is served or whose      *)
(* clean-up has yet to free it: none stays reserved by one that is gone.   *)
HolderServed ==
  /\ svcb.resv = (svcb.owner # NoConn)
  /\ svcb.owner # NoConn => pc[svcb.owner] \in {"serving", "written", "ended", "released"}

(* The application is told of the changes of a block one at a time and in  *)
(* the order they were made, whichever goroutine tells them.               *)
ToldInOrder == told \o flush.events \o queue = made

(* Once the server is closed every association ends, also one whose        *)
(* handshake was finishing when Close went through the open ones.          *)
ClosesAll == server = "closed" ~> \A c \in Conns : pc[c] \in {"new", "refused", "failed", "gone"}
=============================================================================
