-------------------------- MODULE ClientConnProofs --------------------------
(***************************************************************************)
(* Of the client's association, for any number of requests and Cancels: no *)
(* request is orphaned, and the first cause of the end stands.             *)
(***************************************************************************)
EXTENDS ClientConn, TLAPS

Shape ==
  /\ DOMAIN conn = {"state", "cause", "next"} /\ conn.next \in Nat \ {0}
  /\ conn.cause \in Causes \cup {"none"}
  /\ call = [i \in Ids |-> call[i]] /\ ch = [i \in Ids |-> ch[i]] /\ told = [i \in Ids |-> told[i]]
  /\ canc = [k \in Cancels |-> canc[k]] /\ \A k \in Cancels : DOMAIN canc[k] = {"pc", "of"}
  /\ DOMAIN closer = {"pc", "kind", "step", "got"}

(* An identifier not given out yet is unused; a request registered has no  *)
(* result and a caller; one with a caller is registered or has its result. *)
Registered(i) ==
  /\ i \in pending => ch[i] = <<>> /\ call[i] \in {"lock", "write", "wait"}
  /\ call[i] \in {"lock", "write", "wait"} => (i \in pending) # (ch[i] # <<>>)
  /\ conn.next <= i => ch[i] = <<>> /\ i \notin pending
Result(i) == ch[i] \in {<<>>, <<"answer">>} \/ (conn.cause # "none" /\ ch[i] = <<conn.cause>>)
Requests ==
  /\ pending \subseteq Ids
  /\ \A i \in Ids : Registered(i) /\ Result(i)

(* The association has a cause once it is not connected, and nothing is    *)
(* registered once the reader is done.                                     *)
Ended ==
  /\ conn.state = "connected" <=> conn.cause = "none"
  /\ reader.pc = "done" => conn.state = "closed" /\ pending = {}

(* Who holds the write lock is writing.                                    *)
Lock ==
  /\ \A i \in Ids : (wlock = <<"call", i>>) <=> (call[i] = "write")
  /\ \A k \in Cancels : canc[k].pc = "write" => wlock = <<"cancel", k>>
  /\ closer.pc = "write" => wlock = <<"close", 0>>

IndInv == Shape /\ Requests /\ Ended /\ Lock

LEMMA InitSound == ASSUME Init PROVE IndInv
<1>1. Shape
  BY DEF Init, Shape
<1>2. Requests
  BY DEF Init, Requests, Registered, Result
<1>3. Ended /\ Lock
  BY DEF Init, Ended, Lock
<1> QED BY <1>1, <1>2, <1>3 DEF IndInv

-----------------------------------------------------------------------------
(* The write lock is free to whoever takes it.                             *)
LEMMA LockFree ==
  ASSUME IndInv, wlock[1] = "free"
  PROVE  /\ \A i \in Ids : call[i] # "write" /\ wlock # <<"call", i>>
         /\ \A k \in Cancels : canc[k].pc # "write"
         /\ closer.pc # "write"
<1>1. \A x : wlock # <<"call", x>> /\ wlock # <<"cancel", x>> /\ wlock # <<"close", x>>
  OBVIOUS
<1> QED BY <1>1 DEF IndInv, Lock

LEMMA StartSound == ASSUME IndInv, Start PROVE IndInv'
<1> DEFINE id == conn.next
<1>1. id \in Ids /\ id \in Nat /\ conn.state = "connected"
  BY DEF Start, IndInv, Shape, Ids
<1>2. DOMAIN conn' = DOMAIN conn /\ conn'.next = id + 1 /\ conn'.cause = conn.cause /\ conn'.state = conn.state
  BY DEF Start, IndInv, Shape
<1>3. /\ pending' = pending \cup {id} /\ UNCHANGED <<told, ch, canc, wlock, reader, closer>>
      /\ call' = [i \in Ids |-> call'[i]] /\ call'[id] = "lock" /\ \A i \in Ids \ {id} : call'[i] = call[i]
  BY <1>1, SMTT(30) DEF Start, IndInv, Shape
<1>4. Shape'
  BY <1>1, <1>2, <1>3 DEF IndInv, Shape
<1>5. Requests'
  BY <1>1, <1>2, <1>3 DEF IndInv, Requests, Registered, Result, Ids
<1>6. Ended'
  BY <1>1, <1>2, <1>3 DEF IndInv, Ended
<1>7. Lock'
  BY <1>1, <1>2, <1>3 DEF IndInv, Lock, Requests, Registered
<1> QED BY <1>4, <1>5, <1>6, <1>7 DEF IndInv

(* A step of the write lock alone: the requests and the end are as before. *)
LEMMA LockStep ==
  ASSUME IndInv, Lock', UNCHANGED <<conn, pending, ch, told>>,
         reader'.pc = "done" => reader.pc = "done",
         call' = [i \in Ids |-> call'[i]],
         \A i \in Ids : call'[i] \in {"lock", "write", "wait"} <=> call[i] \in {"lock", "write", "wait"},
         canc' = [k \in Cancels |-> canc'[k]], \A k \in Cancels : DOMAIN canc'[k] = {"pc", "of"},
         DOMAIN closer' = DOMAIN closer
  PROVE  IndInv'
<1>1. Shape'
  BY DEF IndInv, Shape
<1>2. Requests'
  BY DEF IndInv, Requests, Registered, Result
<1>3. Ended'
  BY DEF IndInv, Ended
<1> QED BY <1>1, <1>2, <1>3 DEF IndInv

LEMMA CallLockSound == ASSUME IndInv, NEW i \in Ids, CallLock(i) PROVE IndInv'
<1>1. UNCHANGED <<conn, pending, ch, told, reader, canc, closer>> /\ wlock' = <<"call", i>>
  BY DEF CallLock
<1>2. /\ call' = [j \in Ids |-> call'[j]] /\ call[i] = "lock" /\ call'[i] = "write"
      /\ \A j \in Ids \ {i} : call'[j] = call[j]
  BY SMTT(30) DEF CallLock, IndInv, Shape
<1>3. Lock'
  <2>1. /\ \A j \in Ids : call[j] # "write"
        /\ \A k \in Cancels : canc[k].pc # "write"
        /\ closer.pc # "write"
    BY LockFree DEF CallLock
  <2> QED BY <1>1, <1>2, <2>1 DEF Lock
<1> QED BY <1>1, <1>2, <1>3, LockStep DEF IndInv, Shape

LEMMA CallWrittenSound == ASSUME IndInv, NEW i \in Ids, CallWritten(i) PROVE IndInv'
<1>1. UNCHANGED <<conn, pending, ch, told, reader, canc, closer>> /\ wlock' = <<"free", 0>>
  BY DEF CallWritten
<1>2. /\ call' = [j \in Ids |-> call'[j]] /\ call[i] = "write" /\ call'[i] = "wait"
      /\ \A j \in Ids \ {i} : call'[j] = call[j]
  BY Zenon DEF CallWritten, IndInv, Shape
<1>3. wlock = <<"call", i>>
  BY <1>2 DEF IndInv, Lock
<1>4. Lock'
  BY <1>1, <1>2, <1>3 DEF IndInv, Lock
<1> QED BY <1>1, <1>2, <1>4, LockStep DEF IndInv, Shape

(* A caller leaves: its request is not registered any more.                *)
LEMMA CallUnsentSound ==
  ASSUME IndInv, NEW i \in Ids, NEW why, CallUnsent(i, why), call[i] # "write" => wlock' = wlock,
         call[i] = "write" => wlock' = <<"free", 0>>
  PROVE  IndInv'
<1>1. UNCHANGED <<conn, ch, canc, reader, closer>> /\ pending' = pending \ {i}
  BY DEF CallUnsent
<1>2. /\ call' = [j \in Ids |-> call'[j]] /\ call'[i] = "done" /\ \A j \in Ids \ {i} : call'[j] = call[j]
      /\ told' = [j \in Ids |-> told'[j]]
  BY Zenon DEF CallUnsent, IndInv, Shape
<1>3. Shape'
  BY <1>1, <1>2 DEF IndInv, Shape
<1>4. Requests'
  BY <1>1, <1>2 DEF IndInv, Requests, Registered, Result
<1>5. Ended'
  BY <1>1 DEF IndInv, Ended
<1>6. Lock'
  <2>1. CASE call[i] = "write"
    <3>1. wlock = <<"call", i>> /\ wlock' = <<"free", 0>>
      BY <2>1 DEF IndInv, Lock
    <3> QED BY <1>1, <1>2, <3>1 DEF IndInv, Lock
  <2>2. CASE call[i] # "write"
    BY <1>1, <1>2, <2>2 DEF IndInv, Lock
  <2> QED BY <2>1, <2>2
<1> QED BY <1>3, <1>4, <1>5, <1>6 DEF IndInv

LEMMA CollectSound == ASSUME IndInv, NEW i \in Ids, Collect(i) PROVE IndInv'
<1>1. UNCHANGED <<conn, pending, canc, wlock, reader, closer>> /\ call[i] = "wait" /\ ch[i] # <<>>
  BY DEF Collect
<1>2. /\ call' = [j \in Ids |-> call'[j]] /\ call'[i] = "done" /\ \A j \in Ids \ {i} : call'[j] = call[j]
      /\ ch' = [j \in Ids |-> ch'[j]] /\ ch'[i] = <<>> /\ \A j \in Ids \ {i} : ch'[j] = ch[j]
      /\ told' = [j \in Ids |-> told'[j]]
  BY Zenon DEF Collect, IndInv, Shape
<1>3. Shape'
  BY <1>1, <1>2 DEF IndInv, Shape
<1>4. Requests'
  BY <1>1, <1>2 DEF IndInv, Requests, Registered, Result
<1>5. Ended' /\ Lock'
  BY <1>1, <1>2 DEF IndInv, Ended, Lock
<1> QED BY <1>3, <1>4, <1>5 DEF IndInv

LEMMA CallStepSound == ASSUME IndInv, NEW i \in Ids, CallStep(i) PROVE IndInv'
<1>1. CASE CallLock(i) \/ CallWritten(i) \/ Collect(i)
  BY <1>1, CallLockSound, CallWrittenSound, CollectSound
<1>2. CASE CallLockContext(i) \/ CollectContext(i)
  BY <1>2, CallUnsentSound DEF CallLockContext, CollectContext
<1>3. CASE CallWriteFails(i) \/ CallInterrupted(i)
  BY <1>3, CallUnsentSound DEF CallWriteFails, CallInterrupted
<1> QED BY <1>1, <1>2, <1>3 DEF CallStep

-----------------------------------------------------------------------------
LEMMA CancelSound ==
  ASSUME IndInv, NEW k \in Cancels, CancelStep(k) \/ (\E i \in Ids : CancelStart(k, i)) PROVE IndInv'
<1>1. UNCHANGED <<conn, call, told, pending, ch, reader, closer>>
  BY DEF CancelStep, CancelStart, CancelLock, CancelWritten, CancelAnswered, CancelUnsent, CancelContext, CancelReturns
<1>2. /\ canc' = [j \in Cancels |-> canc'[j]] /\ \A j \in Cancels : DOMAIN canc'[j] = {"pc", "of"}
      /\ \A j \in Cancels \ {k} : canc'[j] = canc[j]
  BY Zenon DEF CancelStep, CancelStart, CancelLock, CancelWritten, CancelAnswered, CancelUnsent, CancelContext,
     CancelReturns, IndInv, Shape
<1>3. Lock'
  <2>1. CASE CancelLock(k)
    <3>1. wlock' = <<"cancel", k>>
      BY <2>1 DEF CancelLock
    <3>2. /\ \A j \in Ids : call[j] # "write"
          /\ \A j \in Cancels : canc[j].pc # "write"
          /\ closer.pc # "write"
      BY <2>1, LockFree DEF CancelLock
    <3> QED BY <1>1, <1>2, <3>1, <3>2 DEF Lock
  <2>2. CASE canc'[k].pc # "write" /\ canc[k].pc = "write" /\ wlock' = <<"free", 0>>
    <3>1. wlock = <<"cancel", k>>
      BY <2>2 DEF IndInv, Lock
    <3> QED BY <1>1, <1>2, <2>2, <3>1 DEF IndInv, Lock
  <2>3. CASE canc'[k].pc # "write" /\ wlock' = wlock
    BY <1>1, <1>2, <2>3 DEF IndInv, Lock
  <2>4. ASSUME NEW i \in Ids, CancelStart(k, i) PROVE canc'[k].pc # "write" /\ wlock' = wlock
    BY <2>4 DEF CancelStart, IndInv, Shape
  <2>5. ASSUME CancelWritten(k) PROVE canc'[k].pc # "write" /\ canc[k].pc = "write" /\ wlock' = <<"free", 0>>
    BY <2>5 DEF CancelWritten, IndInv, Shape
  <2>6. ASSUME CancelReturns(k)
        PROVE  canc'[k].pc # "write" /\ (wlock' = wlock \/ (canc[k].pc = "write" /\ wlock' = <<"free", 0>>))
    BY <2>6 DEF CancelReturns, IndInv, Shape
  <2> QED BY <2>1, <2>2, <2>3, <2>4, <2>5, <2>6 DEF CancelStep, CancelAnswered, CancelUnsent, CancelContext
<1> QED BY <1>1, <1>2, <1>3, LockStep DEF IndInv, Shape

-----------------------------------------------------------------------------
LEMMA DeliverSound == ASSUME IndInv, Deliver PROVE IndInv'
<1> DEFINE i == Head(wire)[2]
<1>1. /\ UNCHANGED <<conn, call, told, canc, wlock, reader, closer>>
      /\ ch' = (IF i \in pending THEN [ch EXCEPT ![i] = Append(@, "answer")] ELSE ch)
      /\ pending' = pending \ {i}
  BY DEF Deliver
<1> HIDE DEF i
<1>2. CASE i \notin pending
  BY <1>1, <1>2, LockStep DEF IndInv, Shape, Lock
<1>3. CASE i \in pending
  <2>0. i \in Ids /\ ch[i] = <<>>
    BY <1>3 DEF IndInv, Requests, Registered
  <2>9. Append(<<>>, "answer") = <<"answer">>
    OBVIOUS
  <2>1. i \in Ids /\ ch[i] = <<>> /\ Append(ch[i], "answer") = <<"answer">>
    BY <2>0, <2>9
  <2>2. /\ ch' = [j \in Ids |-> ch'[j]] /\ ch'[i] = <<"answer">>
        /\ \A j \in Ids \ {i} : ch'[j] = ch[j]
    BY <1>1, <1>3, <2>1, SMTT(30) DEF IndInv, Shape
  <2>3. conn.next \in Nat /\ ~(conn.next <= i)
    BY <1>3, <2>1 DEF IndInv, Shape, Requests, Registered
  <2>4. Shape'
    BY <1>1, <2>2 DEF IndInv, Shape
  <2>5. Requests'
    <3>1. <<"answer">> # <<>>
      OBVIOUS
    <3> QED BY <1>1, <1>3, <2>1, <2>2, <2>3, <3>1 DEF IndInv, Requests, Registered, Result
  <2>6. Ended' /\ Lock'
    BY <1>1 DEF IndInv, Ended, Lock
  <2> QED BY <2>4, <2>5, <2>6 DEF IndInv
<1> QED BY <1>2, <1>3

LEMMA FailAllSound ==
  ASSUME IndInv, NEW why \in {"closed", "lost"}, FailAll(why), DOMAIN closer' = DOMAIN closer,
         closer'.pc = closer.pc
  PROVE  IndInv'
<1> DEFINE err == IF conn.state = "connected" THEN why ELSE conn.cause
<1>1. /\ conn' = [conn EXCEPT !.state = "closed", !.cause = err]
      /\ ch' = [i \in Ids |-> IF i \in pending THEN <<err>> ELSE ch[i]]
      /\ pending' = {} /\ UNCHANGED <<call, told, canc, wlock>>
  BY DEF FailAll
<1>2. err \in Causes /\ err # "none" /\ (conn.cause # "none" => err = conn.cause)
  BY DEF IndInv, Ended, Shape, Causes
<1> HIDE DEF err
<1>3. /\ DOMAIN conn' = DOMAIN conn /\ conn'.state = "closed" /\ conn'.cause = err /\ conn'.next = conn.next
  BY <1>1 DEF IndInv, Shape
<1>4. Shape'
  BY <1>1, <1>2, <1>3 DEF IndInv, Shape
<1>5. Requests'
  <2> SUFFICES ASSUME NEW i \in Ids PROVE Registered(i)' /\ Result(i)'
    BY <1>1 DEF Requests, Registered, Result
  <2>1. <<err>> # <<>> /\ ch'[i] = IF i \in pending THEN <<err>> ELSE ch[i]
    BY <1>1
  <2>2. Registered(i)'
    BY <1>1, <1>3, <2>1 DEF IndInv, Requests, Registered
  <2>3. Result(i)'
    BY <1>2, <1>3, <2>1 DEF IndInv, Requests, Result
  <2> QED BY <2>2, <2>3
<1>6. Ended'
  BY <1>1, <1>2, <1>3 DEF Ended
<1>7. Lock'
  BY <1>1 DEF IndInv, Lock
<1> QED BY <1>4, <1>5, <1>6, <1>7 DEF IndInv

LEMMA ReaderStepSound == ASSUME IndInv, ReaderStep PROVE IndInv'
<1>1. CASE Deliver
  BY <1>1, DeliverSound
<1>2. CASE DeliverCancel \/ HandCancel
  <2>1. UNCHANGED <<conn, call, told, pending, ch, canc, wlock, closer>> /\ (reader'.pc = "done" => reader.pc = "done")
    BY <1>2 DEF DeliverCancel, HandCancel
  <2> QED BY <2>1, LockStep DEF IndInv, Shape, Lock
<1>3. CASE Concluded
  <2>1. /\ UNCHANGED <<conn, call, told, pending, ch, canc, wlock, reader>>
        /\ DOMAIN closer' = DOMAIN closer /\ closer'.pc = closer.pc
    BY <1>3 DEF Concluded, IndInv, Shape
  <2> QED BY <2>1, LockStep DEF IndInv, Shape, Lock
<1>4. CASE Released
  BY <1>4, FailAllSound DEF Released, IndInv, Shape
<1>5. CASE ReadFails
  BY <1>5, FailAllSound DEF ReadFails
<1> QED BY <1>1, <1>2, <1>3, <1>4, <1>5 DEF ReaderStep

-----------------------------------------------------------------------------
LEMMA CloseStartSound ==
  ASSUME IndInv, NEW kind \in {"close", "abort"}, CloseStart(kind) PROVE IndInv'
<1>1. /\ DOMAIN conn' = DOMAIN conn /\ conn'.state = "closing" /\ conn'.cause \in {"aborted", "closed"}
      /\ conn'.next = conn.next /\ conn.state = "connected"
  BY DEF CloseStart, IndInv, Shape
<1>2. DOMAIN closer' = DOMAIN closer /\ closer'.pc = "lock"
  BY DEF CloseStart, IndInv, Shape
<1>3. UNCHANGED <<call, told, pending, ch, canc, wlock, reader>>
  BY DEF CloseStart
<1>4. Shape'
  BY <1>1, <1>2, <1>3 DEF IndInv, Shape, Causes
<1>5. Requests'
  BY <1>1, <1>3 DEF IndInv, Requests, Registered, Result, Ended
<1>6. Ended' /\ Lock'
  BY <1>1, <1>2, <1>3 DEF IndInv, Ended, Lock
<1> QED BY <1>4, <1>5, <1>6 DEF IndInv

LEMMA CloserStepSound == ASSUME IndInv, CloserStep PROVE IndInv'
<1>1. /\ UNCHANGED <<call, told, pending, ch, canc, reader>>
      /\ DOMAIN closer' = DOMAIN closer
  BY Zenon DEF CloserStep, CloseLock, CloseWritten, CloseUnsent, CloseAnswered, CloseTimer, RawClose, Join, IndInv, Shape
<1>2. CASE CloseLock
  <2>1. wlock' = <<"close", 0>> /\ conn' = conn
    BY <1>2 DEF CloseLock
  <2>2. /\ \A j \in Ids : call[j] # "write"
        /\ \A k \in Cancels : canc[k].pc # "write"
    BY <1>2, LockFree DEF CloseLock
  <2>3. Lock'
    BY <1>1, <2>1, <2>2 DEF Lock
  <2> QED BY <1>1, <2>1, <2>3, LockStep DEF IndInv, Shape
<1>3. CASE CloseWritten \/ CloseUnsent
  <2>1. /\ conn' = conn /\ closer'.pc # "write"
        /\ wlock' = wlock \/ (closer.pc = "write" /\ wlock' = <<"free", 0>>)
    BY <1>3 DEF CloseWritten, CloseUnsent, IndInv, Shape
  <2>2. CASE wlock' = wlock
    BY <1>1, <2>1, <2>2, LockStep DEF IndInv, Shape, Lock
  <2>3. CASE closer.pc = "write" /\ wlock' = <<"free", 0>>
    <3>1. wlock = <<"close", 0>>
      BY <2>3 DEF IndInv, Lock
    <3>2. Lock'
      BY <1>1, <2>1, <2>3, <3>1 DEF IndInv, Lock
    <3> QED BY <1>1, <2>1, <3>2, LockStep DEF IndInv, Shape
  <2> QED BY <2>1, <2>2, <2>3
<1>4. CASE CloseAnswered \/ CloseTimer \/ RawClose
  <2>1. UNCHANGED <<conn, wlock>> /\ closer'.pc # "write"
    BY <1>4, Zenon DEF CloseAnswered, CloseTimer, RawClose, IndInv, Shape
  <2> QED BY <1>1, <2>1, LockStep DEF IndInv, Shape, Lock
<1>5. CASE Join
  <2>1. /\ DOMAIN conn' = DOMAIN conn /\ conn'.state = "closed" /\ conn'.cause = conn.cause /\ conn'.next = conn.next
        /\ conn.state = "closed" /\ wlock' = wlock /\ closer'.pc = "done"
    BY <1>5 DEF Join, IndInv, Shape, Ended
  <2>2. Shape'
    BY <1>1, <2>1 DEF IndInv, Shape
  <2>3. Requests'
    BY <1>1, <2>1 DEF IndInv, Requests, Registered, Result
  <2>4. Ended' /\ Lock'
    BY <1>1, <2>1 DEF IndInv, Ended, Lock
  <2> QED BY <2>2, <2>3, <2>4 DEF IndInv
<1> QED BY <1>2, <1>3, <1>4, <1>5 DEF CloserStep

LEMMA StepSound == ASSUME IndInv, [Next]_vars PROVE IndInv'
<1>1. CASE (\E i \in Ids : Answer(i)) \/ AnswerCancel \/ AnswerClosing \/ Lost \/ UNCHANGED vars
  <2>1. UNCHANGED <<conn, call, told, pending, ch, canc, wlock, reader, closer>>
    BY <1>1 DEF Answer, AnswerCancel, AnswerClosing, Lost, vars
  <2> QED BY <2>1, LockStep DEF IndInv, Shape, Lock
<1> QED BY <1>1, StartSound, CallStepSound, CancelSound, ReaderStepSound, CloseStartSound, CloserStepSound DEF Next

LEMMA Sound == Spec => []IndInv
<1>1. Init => IndInv BY InitSound
<1>2. IndInv /\ [Next]_vars => IndInv' BY StepSound
<1> QED BY <1>1, <1>2, PTL DEF Spec

(* For any number of requests and Cancels, a request that waits is         *)
(* registered or has its result, nothing is registered once the reader is  *)
(* done, and who holds the write lock is writing (StartContext, deliver,   *)
(* failAll of mms/conn.go).                                                *)
THEOREM NoOrphans == Spec => []NothingOrphaned
<1>1. IndInv => NothingOrphaned
  BY DEF IndInv, Requests, Registered, Ended, Lock, NothingOrphaned
<1> QED BY <1>1, Sound, PTL

LEMMA StepKeepsCause == ASSUME IndInv, [Next]_vars PROVE KeepsCause
<1>1. ASSUME UNCHANGED <<conn, told>> PROVE KeepsCause
  BY <1>1 DEF KeepsCause
<1>2. CASE Start
  BY <1>2 DEF Start, KeepsCause, IndInv, Shape
<1>3. ASSUME NEW i \in Ids, CallStep(i) PROVE KeepsCause
  <2>1. ASSUME NEW why \in {"unsent", "context"}, CallUnsent(i, why) PROVE KeepsCause
    BY <2>1 DEF CallUnsent, KeepsCause, Causes, IndInv, Shape
  <2>2. CASE Collect(i)
    <3>1. conn' = conn /\ told'[i] = Head(ch[i]) /\ \A j \in Ids \ {i} : told'[j] = told[j]
      BY <2>2 DEF Collect, IndInv, Shape
    <3>2. ch[i] \in {<<"answer">>, <<conn.cause>>}
      BY <2>2, Zenon DEF Collect, IndInv, Requests, Result
    <3>3. Head(<<"answer">>) = "answer" /\ Head(<<conn.cause>>) = conn.cause
      OBVIOUS
    <3>4. Head(ch[i]) \in {"answer", conn.cause}
      BY <3>2, <3>3
    <3> QED BY <3>1, <3>4 DEF KeepsCause, Causes
  <2>3. CASE CallLock(i) \/ CallWritten(i)
    BY <1>1, <2>3 DEF CallLock, CallWritten
  <2> QED BY <1>3, <2>1, <2>2, <2>3 DEF CallStep, CallLockContext, CallWriteFails, CallInterrupted, CollectContext
<1>4. CASE \/ \E k \in Cancels, i \in Ids : CancelStart(k, i)
           \/ \E k \in Cancels : CancelStep(k)
  BY <1>1, <1>4 DEF CancelStart, CancelStep, CancelLock, CancelWritten, CancelAnswered, CancelUnsent,
                   CancelContext, CancelReturns
<1>5. CASE (\E i \in Ids : Answer(i)) \/ AnswerCancel \/ AnswerClosing \/ Lost
  BY <1>1, <1>5 DEF Answer, AnswerCancel, AnswerClosing, Lost
<1>6. CASE ReaderStep
  <2>1. ASSUME NEW why, FailAll(why) PROVE KeepsCause
    BY <2>1 DEF FailAll, KeepsCause, IndInv, Shape, Ended
  <2>2. CASE Deliver \/ DeliverCancel \/ HandCancel \/ Concluded
    <3>1. UNCHANGED <<conn, told>>
      BY <2>2 DEF Deliver, DeliverCancel, HandCancel, Concluded
    <3> QED BY <1>1, <3>1
  <2>3. CASE Released
    BY <2>1, <2>3 DEF Released
  <2>4. CASE ReadFails
    BY <2>1, <2>4 DEF ReadFails
  <2> QED BY <1>6, <2>2, <2>3, <2>4 DEF ReaderStep
<1>7. ASSUME NEW kind \in {"close", "abort"}, CloseStart(kind) PROVE KeepsCause
  BY <1>7 DEF CloseStart, KeepsCause, IndInv, Shape, Ended
<1>8. CASE CloserStep
  BY <1>1, <1>8 DEF CloserStep, CloseLock, CloseWritten, CloseUnsent, CloseAnswered, CloseTimer, RawClose,
                   Join, KeepsCause, IndInv, Shape
<1>9. CASE UNCHANGED vars
  BY <1>1, <1>9 DEF vars
<1> QED BY <1>2, <1>3, <1>4, <1>5, <1>6, <1>7, <1>8, <1>9 DEF Next

(* For any number of requests, the cause recorded first is the one every   *)
(* later caller is told (closeErr, failAll of mms/conn.go).                *)
THEOREM CauseStands == Spec => FirstCause
<1>1. ASSUME IndInv, [Next]_vars PROVE [KeepsCause]_vars
  BY <1>1, StepKeepsCause
<1>2. Spec => [][Next]_vars
  BY PTL DEF Spec
<1> QED BY <1>1, <1>2, Sound, PTL DEF FirstCause
=============================================================================
