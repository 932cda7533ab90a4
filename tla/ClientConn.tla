------------------------------ MODULE ClientConn ------------------------------
(***************************************************************************)
(* The client's side of an MMS association (mms/conn.go, client_ext.go):   *)
(* concurrent confirmed requests matched to their responses by invoke      *)
(* identifier, the write lock they share, Cancel, Close and Abort, and the *)
(* reader that delivers what arrives and fails what is left.               *)
(*                                                                         *)
(* One action is one region between two points where a goroutine can be    *)
(* preempted or has to wait: a mutex region, a channel operation, a write. *)
(* Requests are named by their invoke identifier (nextID only grows), a    *)
(* Cancel by its number.  A context may end at any moment or never, so the *)
(* ways out it opens are enabled and not fair.                             *)
(***************************************************************************)
EXTENDS Naturals, Sequences, FiniteSets

CONSTANTS MaxCalls,    \* requests started
          MaxCancels,  \* Cancels called
          Secure       \* the association runs under end-to-end security

ClientConnAssumption == MaxCalls \in Nat \ {0} /\ MaxCancels \in Nat /\ Secure \in BOOLEAN

VARIABLES conn,    \* state and closeErr, and nextID
          call,    \* per request, where its caller is: Start, send, Wait
          told,    \* per request, what its caller was told
          pending, \* the requests registered for a response
          ch,      \* per request, its channel of one result
          canc,    \* per Cancel, where its caller is, and the request
          cch,     \* per Cancel, its channel of one answer
          wlock,   \* who holds the write lock
          raw,     \* the transport: open, or closed at this end
          wire,    \* what is under way to the client
          server,  \* what the server has yet to answer, and whether it is gone
          reader,  \* the read loop: reading, or handing an answer to a Cancel
          closer   \* the Close or Abort that ends the association

vars == <<conn, call, told, pending, ch, canc, cch, wlock, raw, wire, server, reader, closer>>

Ids == 1..MaxCalls
Cancels == 1..MaxCancels
Writers == {<<"call", i>> : i \in Ids} \cup {<<"cancel", k>> : k \in Cancels} \cup {<<"close", 0>>}
Causes == {"closed", "aborted", "lost"}

TypeOK ==
  /\ conn \in [state : {"connected", "closing", "closed"}, cause : Causes \cup {"none"}, next : 1..(MaxCalls + 1)]
  /\ call \in [Ids -> {"none", "lock", "write", "wait", "done"}]
  /\ told \in [Ids -> {"none", "answer", "unsent", "context"} \cup Causes]
  /\ pending \subseteq Ids
  /\ \A i \in Ids : Len(ch[i]) <= 1
  /\ canc \in [Cancels -> [pc : {"none", "lock", "write", "wait", "done"}, of : Ids \cup {0}]]
  /\ \A k \in Cancels : Len(cch[k]) <= 1
  /\ wlock \in Writers \cup {<<"free", 0>>}
  /\ raw \in {"open", "closed"}
  /\ reader.pc \in {"read", "hand", "done"}
  /\ closer.pc \in {"none", "lock", "write", "await", "raw", "join", "done"}

Init ==
  /\ conn = [state |-> "connected", cause |-> "none", next |-> 1]
  /\ call = [i \in Ids |-> "none"] /\ told = [i \in Ids |-> "none"]
  /\ pending = {} /\ ch = [i \in Ids |-> <<>>]
  /\ canc = [k \in Cancels |-> [pc |-> "none", of |-> 0]] /\ cch = [k \in Cancels |-> <<>>]
  /\ wlock = <<"free", 0>> /\ raw = "open" /\ wire = <<>>
  /\ server = [owes |-> {}, cancels |-> <<>>, closing |-> "none", up |-> TRUE]
  /\ reader = [pc |-> "read", for |-> 0]
  /\ closer = [pc |-> "none", kind |-> "none", step |-> "none", got |-> {}]

------------------------------------------------------------------------------
(* Requests.                                                               *)

(* Faulty variant: the request is registered whatever the state.           *)
StartUnchecked ==
  LET id == conn.next
  IN  /\ id <= MaxCalls
      /\ conn' = [conn EXCEPT !.next = id + 1]
      /\ pending' = pending \cup {id}
      /\ call' = [call EXCEPT ![id] = "lock"]
      /\ UNCHANGED <<told, ch, canc, cch, wlock, raw, wire, server, reader, closer>>

(* StartContext registers a channel under a new invoke identifier; on an   *)
(* association that has ended it returns what ended it.                    *)
Start ==
  LET id == conn.next
  IN  /\ id <= MaxCalls /\ conn.state = "connected"
      /\ conn' = [conn EXCEPT !.next = id + 1]
      /\ pending' = pending \cup {id}
      /\ call' = [call EXCEPT ![id] = "lock"]
      /\ UNCHANGED <<told, ch, canc, cch, wlock, raw, wire, server, reader, closer>>

(* send takes the write lock ...                                           *)
CallLock(i) ==
  /\ call[i] = "lock" /\ wlock[1] = "free"
  /\ wlock' = <<"call", i>>
  /\ call' = [call EXCEPT ![i] = "write"]
  /\ UNCHANGED <<conn, told, pending, ch, canc, cch, raw, wire, server, reader, closer>>

(* ... or its context ends while it waits, and StartContext deregisters.   *)
CallUnsent(i, why) ==
  /\ pending' = pending \ {i}
  /\ call' = [call EXCEPT ![i] = "done"]
  /\ told' = [told EXCEPT ![i] = why]
  /\ UNCHANGED <<conn, ch, canc, cch, wire, server, reader, closer>>

CallLockContext(i) == call[i] = "lock" /\ CallUnsent(i, "context") /\ UNCHANGED <<wlock, raw>>

(* The write goes through; it fails on a closed transport; or the context  *)
(* ends while it is blocked, which closes the transport.                   *)
CallWritten(i) ==
  /\ call[i] = "write" /\ raw = "open" /\ server.up
  /\ server' = [server EXCEPT !.owes = @ \cup {i}]
  /\ call' = [call EXCEPT ![i] = "wait"]
  /\ wlock' = <<"free", 0>>
  /\ UNCHANGED <<conn, told, pending, ch, canc, cch, raw, wire, reader, closer>>

CallWriteFails(i) ==
  /\ call[i] = "write" /\ (raw = "closed" \/ ~server.up)
  /\ wlock' = <<"free", 0>>
  /\ CallUnsent(i, "unsent") /\ UNCHANGED raw

CallInterrupted(i) ==
  /\ call[i] = "write"
  /\ raw' = "closed" /\ wlock' = <<"free", 0>>
  /\ CallUnsent(i, "context")

(* Wait: the result, or the end of the context.                            *)
Collect(i) ==
  /\ call[i] = "wait" /\ ch[i] # <<>>
  /\ told' = [told EXCEPT ![i] = Head(ch[i])]
  /\ ch' = [ch EXCEPT ![i] = <<>>]
  /\ call' = [call EXCEPT ![i] = "done"]
  /\ UNCHANGED <<conn, pending, canc, cch, wlock, raw, wire, server, reader, closer>>

CollectContext(i) == call[i] = "wait" /\ CallUnsent(i, "context") /\ UNCHANGED <<wlock, raw>>

------------------------------------------------------------------------------
(* Cancel.  One Cancel of a request is outstanding at a time.              *)

CancelOf(i) == {k \in Cancels : canc[k].of = i /\ canc[k].pc \in {"lock", "write", "wait"}}

CancelStart(k, i) ==
  /\ canc[k].pc = "none" /\ \A j \in 1..(k - 1) : canc[j].pc # "none"
  /\ conn.state = "connected" /\ call[i] = "wait" /\ CancelOf(i) = {}
  /\ canc' = [canc EXCEPT ![k] = [pc |-> "lock", of |-> i]]
  /\ UNCHANGED <<conn, call, told, pending, ch, cch, wlock, raw, wire, server, reader, closer>>

CancelLock(k) ==
  /\ canc[k].pc = "lock" /\ wlock[1] = "free"
  /\ wlock' = <<"cancel", k>>
  /\ canc' = [canc EXCEPT ![k].pc = "write"]
  /\ UNCHANGED <<conn, call, told, pending, ch, cch, raw, wire, server, reader, closer>>

CancelWritten(k) ==
  /\ canc[k].pc = "write" /\ raw = "open" /\ server.up
  /\ server' = [server EXCEPT !.cancels = Append(@, canc[k].of)]
  /\ canc' = [canc EXCEPT ![k].pc = "wait"]
  /\ wlock' = <<"free", 0>>
  /\ UNCHANGED <<conn, call, told, pending, ch, cch, raw, wire, reader, closer>>

(* It returns, and removes itself from c.cancels: with the answer, with    *)
(* the error of its send, or because its context ended.                    *)
CancelReturns(k) ==
  /\ canc' = [canc EXCEPT ![k].pc = "done"]
  /\ wlock' = IF canc[k].pc = "write" THEN <<"free", 0>> ELSE wlock
  /\ UNCHANGED <<conn, call, told, pending, ch, wire, server, reader, closer>>

CancelAnswered(k) ==
  /\ canc[k].pc = "wait" /\ cch[k] # <<>>
  /\ cch' = [cch EXCEPT ![k] = <<>>]
  /\ CancelReturns(k) /\ UNCHANGED raw

CancelUnsent(k) ==
  /\ canc[k].pc = "write" /\ (raw = "closed" \/ ~server.up)
  /\ CancelReturns(k) /\ UNCHANGED <<cch, raw>>

CancelContext(k) ==
  /\ canc[k].pc \in {"lock", "write", "wait"}
  /\ raw' = IF canc[k].pc = "write" THEN "closed" ELSE raw
  /\ CancelReturns(k) /\ UNCHANGED cch

------------------------------------------------------------------------------
(* The server, as the client sees it: it answers each request and each     *)
(* Cancel at most once, in any order, and the connection may be lost.      *)

Answer(i) ==
  /\ server.up /\ i \in server.owes
  /\ server' = [server EXCEPT !.owes = @ \ {i}]
  /\ wire' = Append(wire, <<"response", i>>)
  /\ UNCHANGED <<conn, call, told, pending, ch, canc, cch, wlock, raw, reader, closer>>

AnswerCancel ==
  /\ server.up /\ server.cancels # <<>>
  /\ server' = [server EXCEPT !.cancels = Tail(@)]
  /\ wire' = Append(wire, <<"cancel", Head(server.cancels)>>)
  /\ UNCHANGED <<conn, call, told, pending, ch, canc, cch, wlock, raw, reader, closer>>

AnswerClosing ==
  /\ server.up /\ server.closing # "none"
  /\ server' = [server EXCEPT !.closing = "none"]
  /\ wire' = Append(wire, <<server.closing, 0>>)
  /\ UNCHANGED <<conn, call, told, pending, ch, canc, cch, wlock, raw, reader, closer>>

Lost ==
  /\ server.up
  /\ server' = [server EXCEPT !.up = FALSE]
  /\ UNCHANGED <<conn, call, told, pending, ch, canc, cch, wlock, raw, wire, reader, closer>>

------------------------------------------------------------------------------
(* The reader.                                                             *)

Arrives(kind) == reader.pc = "read" /\ wire # <<>> /\ raw = "open" /\ Head(wire)[1] = kind

(* deliver: a response goes to the request registered, once.               *)
Deliver ==
  /\ Arrives("response")
  /\ LET i == Head(wire)[2]
     IN  /\ ch' = IF i \in pending THEN [ch EXCEPT ![i] = Append(@, "answer")] ELSE ch
         /\ pending' = pending \ {i}
  /\ wire' = Tail(wire)
  /\ UNCHANGED <<conn, call, told, canc, cch, wlock, raw, server, reader, closer>>

(* deliverCancel looks the channel up under the lock, and sends after it.  *)
DeliverCancel ==
  /\ Arrives("cancel")
  /\ LET waiting == CancelOf(Head(wire)[2])
     IN  reader' = IF waiting = {} THEN reader ELSE [pc |-> "hand", for |-> CHOOSE k \in waiting : TRUE]
  /\ wire' = Tail(wire)
  /\ UNCHANGED <<conn, call, told, pending, ch, canc, cch, wlock, raw, server, closer>>

HandCancel ==
  /\ reader.pc = "hand" /\ cch[reader.for] = <<>>
  /\ cch' = [cch EXCEPT ![reader.for] = <<"answer">>]
  /\ reader' = [pc |-> "read", for |-> 0]
  /\ UNCHANGED <<conn, call, told, pending, ch, canc, wlock, raw, wire, server, closer>>

(* A conclude response is noted for closeE2E.                              *)
Concluded ==
  /\ Arrives("conclude")
  /\ closer' = [closer EXCEPT !.got = @ \cup {"conclude"}]
  /\ wire' = Tail(wire)
  /\ UNCHANGED <<conn, call, told, pending, ch, canc, cch, wlock, raw, server, reader>>

(* Faulty variant: what the reader met is recorded over an earlier cause.  *)
FailAllOver(why) ==
  /\ conn' = [conn EXCEPT !.state = "closed", !.cause = why]
  /\ ch' = [i \in Ids |-> IF i \in pending THEN <<why>> ELSE ch[i]]
  /\ pending' = {}
  /\ reader' = [pc |-> "done", for |-> 0]
  /\ UNCHANGED <<call, told, canc, cch, wlock, raw, server>>

(* failAll: the first cause stands, the requests registered fail with it,  *)
(* and the reader is done.                                                 *)
FailAll(why) ==
  LET err == IF conn.state = "connected" THEN why ELSE conn.cause
  IN  /\ conn' = [conn EXCEPT !.state = "closed", !.cause = err]
      /\ ch' = [i \in Ids |-> IF i \in pending THEN <<err>> ELSE ch[i]]
      /\ pending' = {}
      /\ reader' = [pc |-> "done", for |-> 0]
      /\ UNCHANGED <<call, told, canc, cch, wlock, raw, server>>

(* A release response ends the association (handleRelease).                *)
Released ==
  /\ Arrives("release")
  /\ closer' = [closer EXCEPT !.got = @ \cup {"release"}]
  /\ wire' = Tail(wire)
  /\ FailAll("closed")

(* The transport is closed at this end, or at the other once what it sent  *)
(* has been read.                                                          *)
ReadFails ==
  /\ reader.pc = "read"
  /\ raw = "closed" \/ (~server.up /\ wire = <<>>)
  /\ FailAll("lost") /\ UNCHANGED <<wire, closer>>

------------------------------------------------------------------------------
(* Close and Abort: whoever finds the association connected ends it.       *)

CloseStart(kind) ==
  /\ conn.state = "connected"
  /\ conn' = [conn EXCEPT !.state = "closing", !.cause = IF kind = "abort" THEN "aborted" ELSE "closed"]
  /\ closer' = [closer EXCEPT !.pc = "lock", !.kind = kind, !.step = IF kind = "abort" THEN "abort" ELSE "conclude"]
  /\ UNCHANGED <<call, told, pending, ch, canc, cch, wlock, raw, wire, server, reader>>

(* sendClosing: the write lock and the write, both within closeWriteGrace. *)
CloseLock ==
  /\ closer.pc = "lock" /\ wlock[1] = "free"
  /\ wlock' = <<"close", 0>>
  /\ closer' = [closer EXCEPT !.pc = "write"]
  /\ UNCHANGED <<conn, call, told, pending, ch, canc, cch, raw, wire, server, reader>>

(* Under end-to-end security Close waits for the answer before it goes on. *)
CloseWritten ==
  LET waits == Secure /\ closer.kind = "close"
  IN  /\ closer.pc = "write" /\ raw = "open" /\ server.up
      /\ server' = [server EXCEPT !.closing = IF waits THEN closer.step ELSE @]
      /\ closer' = [closer EXCEPT !.pc = IF waits THEN "await" ELSE "raw"]
      /\ wlock' = <<"free", 0>>
      /\ UNCHANGED <<conn, call, told, pending, ch, canc, cch, raw, wire, reader>>

(* The grace is over, or the write failed: an interrupted write has closed *)
(* the transport.                                                          *)
CloseUnsent ==
  /\ closer.pc \in {"lock", "write"}
  /\ raw' = IF closer.pc = "write" THEN "closed" ELSE raw
  /\ wlock' = IF closer.pc = "write" THEN <<"free", 0>> ELSE wlock
  /\ closer' = [closer EXCEPT !.pc = "raw"]
  /\ UNCHANGED <<conn, call, told, pending, ch, canc, cch, wire, server, reader>>

(* closeE2E: the answer to the conclude leads to the release; its answer,  *)
(* the end of the reader and the timer lead to the end.                    *)
CloseAnswered ==
  /\ closer.pc = "await" /\ closer.step \in closer.got
  /\ closer' = IF closer.step = "conclude" THEN [closer EXCEPT !.pc = "lock", !.step = "release"]
               ELSE [closer EXCEPT !.pc = "raw"]
  /\ UNCHANGED <<conn, call, told, pending, ch, canc, cch, wlock, raw, wire, server, reader>>

CloseTimer ==
  /\ closer.pc = "await"
  /\ closer' = [closer EXCEPT !.pc = "raw"]
  /\ UNCHANGED <<conn, call, told, pending, ch, canc, cch, wlock, raw, wire, server, reader>>

RawClose ==
  /\ closer.pc = "raw"
  /\ raw' = "closed"
  /\ closer' = [closer EXCEPT !.pc = "join"]
  /\ UNCHANGED <<conn, call, told, pending, ch, canc, cch, wlock, wire, server, reader>>

Join ==
  /\ closer.pc = "join" /\ reader.pc = "done"
  /\ closer' = [closer EXCEPT !.pc = "done"]
  /\ conn' = [conn EXCEPT !.state = "closed"]
  /\ UNCHANGED <<call, told, pending, ch, canc, cch, wlock, raw, wire, server, reader>>

------------------------------------------------------------------------------
CallStep(i) ==
  CallLock(i) \/ CallLockContext(i) \/ CallWritten(i) \/ CallWriteFails(i) \/ CallInterrupted(i)
  \/ Collect(i) \/ CollectContext(i)

CancelStep(k) == CancelLock(k) \/ CancelWritten(k) \/ CancelAnswered(k) \/ CancelUnsent(k) \/ CancelContext(k)

ReaderStep == Deliver \/ DeliverCancel \/ HandCancel \/ Concluded \/ Released \/ ReadFails

CloserStep == CloseLock \/ CloseWritten \/ CloseUnsent \/ CloseAnswered \/ CloseTimer \/ RawClose \/ Join

Next ==
  \/ Start
  \/ \E i \in Ids : CallStep(i)
  \/ \E k \in Cancels, i \in Ids : CancelStart(k, i)
  \/ \E k \in Cancels : CancelStep(k)
  \/ \E i \in Ids : Answer(i)
  \/ AnswerCancel \/ AnswerClosing \/ Lost
  \/ ReaderStep
  \/ \E kind \in {"close", "abort"} : CloseStart(kind)
  \/ CloserStep

(* Every goroutine runs, a write on a closed transport fails, and the      *)
(* timers of Close fire.  No write to the peer need ever go through, no    *)
(* context need end and the server need not answer.                        *)
CallerRuns(i) == CallLock(i) \/ CallWriteFails(i) \/ Collect(i)
CancelRuns(k) == CancelLock(k) \/ CancelUnsent(k) \/ CancelAnswered(k)
CloserRuns == CloseUnsent \/ CloseTimer \/ RawClose \/ Join

Fairness ==
  /\ \A i \in Ids : WF_vars(CallerRuns(i))
  /\ \A k \in Cancels : WF_vars(CancelRuns(k))
  /\ WF_vars(ReaderStep) /\ WF_vars(CloserRuns)

Spec == Init /\ [][Next]_vars
FairSpec == Spec /\ Fairness

------------------------------------------------------------------------------
(* A response reaches the request it answers or nobody: while the reader   *)
(* runs a request that waits is registered or holds its result, a request  *)
(* unregistered and empty-handed is one whose caller has left; once the    *)
(* reader is done nothing is registered, whatever was being sent at that   *)
(* moment, so no caller waits for a result that cannot come any more; and  *)
(* who holds the write lock is writing (StartContext, deliver, failAll).   *)
NothingOrphaned ==
  /\ \A i \in Ids : call[i] = "wait" => (i \in pending) # (ch[i] # <<>>)
  /\ reader.pc = "done" => conn.state = "closed" /\ conn.cause # "none" /\ pending = {}
  /\ \A i \in Ids : (wlock = <<"call", i>>) <=> (call[i] = "write")

(* The first cause of the end stands: closeErr, once set, is what every    *)
(* later caller is told, however Close, Abort and the reader's failure     *)
(* race (closeErr, failAll).                                               *)
KeepsCause ==
  /\ conn.cause # "none" => conn'.cause = conn.cause
  /\ \A i \in Ids : told'[i] # told[i] /\ told'[i] \in Causes => told'[i] = conn'.cause
FirstCause == [][KeepsCause]_vars

(* Once the association ends, every outstanding request returns and so     *)
(* does the Close or Abort that ended it, whether or not the server        *)
(* answers and however a write is stalled (failAll, Close, Abort, send).   *)
OutstandingFail ==
  conn.state # "connected" ~>
    /\ \A i \in Ids : call[i] \in {"none", "done"}
    /\ closer.pc \in {"none", "done"}
===============================================================================
