-------------------------- MODULE AssociationProofs --------------------------
(***************************************************************************)
(* What ends with an association, for every number of clients, control     *)
(* numbers, operates, requests and Cancels and every control model: the    *)
(* control service implements select-before-operate, each operate and each *)
(* selection ends once, and the first cause of an end stands.              *)
(***************************************************************************)
EXTENDS MCAssociation, SequenceTheorems, FiniteSetTheorems, TLAPS

-----------------------------------------------------------------------------
(* The control service: server/select.go and server/control.go.            *)

Op == [conn : Conns, num : Nums, accept : BOOLEAN, deferred : BOOLEAN,
       done : BOOLEAN, timer : BOOLEAN, sent : {0, 1}]

(* Where an operate and its termination can be: whoever is to send it, the *)
(* server, the application or the timer, still can, or has, and nobody can *)
(* once it was refused.                                                    *)
Terminating(op, inHand, enhanced) ==
  /\ op.sent = 1 <=> op.done /\ op.accept
  /\ ~op.accept /\ ~inHand => op.done
  /\ op.sent = 1 \/ op.deferred => enhanced
  /\ op.timer => op.deferred /\ op.accept
  /\ enhanced /\ op.accept /\ ~op.deferred => IF inHand THEN ~op.done ELSE op.sent = 1

(* An operate in hand was granted to the holder of the selection, who      *)
(* cannot leave before its handler returns; an object that is operated     *)
(* directly is never selected.                                             *)
ControlInv ==
  /\ CO!TypeOK /\ CO!HolderIsOpen
  /\ \A k \in 1..Len(ops) : Terminating(ops[k], k = busy, CO!Enhanced)
  /\ ctlModel \notin {"undeclared", "sbo", "sboEnh"} => sel.conn = NoConn
  /\ CO!RequiresSelection /\ busy # 0 => sel.conn = ops[busy].conn

LEMMA ControlTypes ==
  ASSUME ControlInv
  PROVE  /\ ops \in Seq(Op) /\ Len(ops) \in Nat /\ busy \in 0..Len(ops) /\ stVal \in 0..Len(ops)
         /\ sel \in [conn : Conns \cup {NoConn}, num : Nums \cup {NoNum}, live : BOOLEAN]
         /\ ctlModel \in CtlModels /\ served \subseteq Conns /\ new \subseteq Conns
         /\ NoConn \notin Conns /\ NoNum \notin Nums /\ OperTimeout \in BOOLEAN
         /\ CO!NoSel \in [conn : Conns \cup {NoConn}, num : Nums \cup {NoNum}, live : BOOLEAN]
         /\ CO!NoSel.conn = NoConn /\ CO!NoSel.live = FALSE
BY Assumptions DEF ControlInv, CO!TypeOK, CO!ControlAssumption, Op, CO!NoSel

LEMMA ControlInit == ASSUME CO!Init PROVE ControlInv
<1>1. CO!TypeOK
  BY Assumptions, EmptySeq DEF CO!Init, CO!TypeOK, CO!NoSel, CO!ControlAssumption
<1> QED BY <1>1 DEF ControlInv, CO!Init, CO!HolderIsOpen, CO!NoSel

(* finish sends what was not sent.                                         *)
LEMMA FinishedOp ==
  ASSUME NEW op \in Op, NEW inHand \in BOOLEAN, Terminating(op, inHand, TRUE), op.accept,
         op.deferred \/ inHand
  PROVE  LET e == CO!Finished(op)
         IN  /\ e \in Op /\ Terminating(e, FALSE, TRUE) /\ e.conn = op.conn /\ e.num = op.num
             /\ e.accept = op.accept /\ e.deferred = op.deferred /\ e.timer = op.timer
             /\ op.deferred => Terminating(e, TRUE, TRUE)
<1> DEFINE e == CO!Finished(op)
<1>1. op.sent = 1 <=> op.done
  BY DEF Terminating
<1>2. /\ e \in Op /\ e.sent = 1 /\ e.done /\ e.conn = op.conn /\ e.num = op.num
      /\ e.accept = op.accept /\ e.deferred = op.deferred /\ e.timer = op.timer
  <2>1. CASE op.done
    BY <1>1, <2>1, Zenon DEF CO!Finished, Op
  <2>2. CASE ~op.done
    <3>1. op.sent = 0 /\ op.sent + 1 = 1
      BY <1>1, <2>2 DEF Op
    <3>2. e = [op EXCEPT !.done = TRUE, !.sent = 1]
      BY <2>2, <3>1 DEF CO!Finished
    <3> HIDE DEF e
    <3> QED BY <3>2, Zenon DEF Op
  <2> QED BY <2>1, <2>2, Zenon
<1> HIDE DEF e
<1> QED BY <1>2 DEF Terminating, e

(* A step that replaces the record of one operate.                         *)
LEMMA ReplacedOp ==
  ASSUME ControlInv, NEW i \in 1..Len(ops), NEW e \in Op, ops' = [ops EXCEPT ![i] = e],
         UNCHANGED <<ctlModel, served, new>>, CO!HolderIsOpen',
         sel' \in [conn : Conns \cup {NoConn}, num : Nums \cup {NoNum}, live : BOOLEAN],
         e.conn = ops[i].conn, Terminating(e, i = busy', CO!Enhanced),
         busy' = busy \/ (busy = i /\ busy' = 0),
         stVal' \in {stVal, busy}, sel' = sel \/ (busy' = 0 /\ sel' = CO!NoSel)
  PROVE  ControlInv'
<1>1. ops \in Seq(Op) /\ busy \in 0..Len(ops) /\ stVal \in 0..Len(ops) /\ Len(ops) \in Nat
  BY ControlTypes
<1>2. /\ ops' \in Seq(Op) /\ Len(ops') = Len(ops)
      /\ \A j \in 1..Len(ops) : ops'[j] = IF j = i THEN e ELSE ops[j]
  BY <1>1, ExceptSeq
<1>3. busy' \in 0..Len(ops) /\ stVal' \in 0..Len(ops)
  BY <1>1
<1>4. CO!TypeOK'
  BY <1>2, <1>3 DEF ControlInv, CO!TypeOK, Op
<1>5. ASSUME NEW k \in 1..Len(ops') PROVE Terminating(ops'[k], k = busy', CO!Enhanced')
  <2>1. k \in 1..Len(ops) /\ Terminating(ops[k], k = busy, CO!Enhanced) /\ CO!Enhanced' = CO!Enhanced
    BY <1>2 DEF ControlInv, CO!Enhanced
  <2>2. k # i => (k = busy') = (k = busy)
    BY <1>1, <2>1
  <2>3. CASE k = i
    BY <1>2, <2>1, <2>3
  <2>4. CASE k # i
    BY <1>2, <2>1, <2>2, <2>4
  <2> QED BY <2>3, <2>4
<1>6. CO!RequiresSelection' /\ busy' # 0 => sel'.conn = ops'[busy'].conn
  <2>1. busy' # 0 => busy' = busy /\ sel' = sel /\ busy \in 1..Len(ops)
    BY <1>1
  <2> QED BY <1>2, <2>1 DEF ControlInv, CO!RequiresSelection
<1>7. ctlModel' \notin {"undeclared", "sbo", "sboEnh"} => sel'.conn = NoConn
  BY ControlTypes, Zenon DEF ControlInv
<1> QED BY <1>4, <1>5, <1>6, <1>7 DEF ControlInv

(* A step that leaves the operates alone.                                  *)
LEMMA SameOps ==
  ASSUME ControlInv, UNCHANGED <<ctlModel, ops, busy, stVal>>, served' \subseteq Conns,
         new' \subseteq Conns, CO!HolderIsOpen',
         sel' \in [conn : Conns \cup {NoConn}, num : Nums \cup {NoNum}, live : BOOLEAN],
         \/ sel'.conn = sel.conn
         \/ busy = 0 /\ (sel'.conn = NoConn \/ ctlModel \in {"undeclared", "sbo", "sboEnh"})
         \/ sel'.conn = NoConn /\ (busy # 0 => sel.conn # ops[busy].conn)
  PROVE  ControlInv'
<1>1. CO!TypeOK'
  BY DEF ControlInv, CO!TypeOK
<1>2. CO!Enhanced' = CO!Enhanced /\ CO!RequiresSelection' = CO!RequiresSelection
  BY DEF CO!Enhanced, CO!RequiresSelection
<1> QED BY <1>1, <1>2 DEF ControlInv

LEMMA OperateSound ==
  ASSUME ControlInv, NEW c \in Conns, NEW n \in Nums, NEW accept \in BOOLEAN,
         NEW deferred \in BOOLEAN, CO!Operate(c, n, accept, deferred)
  PROVE  ControlInv'
<1> DEFINE e == [conn |-> c, num |-> n, accept |-> accept, deferred |-> deferred,
                 done |-> FALSE, timer |-> FALSE, sent |-> 0]
<1>1. /\ busy = 0 /\ busy' = Len(ops) + 1 /\ ops' = Append(ops, e) /\ (deferred => CO!Enhanced)
      /\ CO!RequiresSelection => sel.conn = c
      /\ UNCHANGED <<ctlModel, sel, served, new, stVal>>
  BY DEF CO!Operate, CO!MayControl, CO!CheckSelection
<1>2. ops \in Seq(Op) /\ Len(ops) \in Nat /\ stVal \in 0..Len(ops)
  BY ControlTypes
<1>3. e \in Op /\ Terminating(e, TRUE, CO!Enhanced) /\ e.conn = c
  BY <1>1 DEF Op, Terminating
<1> HIDE DEF e
<1>4. /\ ops' \in Seq(Op) /\ Len(ops') = Len(ops) + 1 /\ ops'[Len(ops) + 1] = e
      /\ \A j \in 1..Len(ops) : ops'[j] = ops[j]
  BY <1>1, <1>2, <1>3, AppendProperties
<1>5. CO!TypeOK'
  <2>1. busy' \in 0..Len(ops') /\ stVal' \in 0..Len(ops')
    BY <1>1, <1>2, <1>4
  <2> QED BY <1>1, <1>4, <2>1 DEF ControlInv, CO!TypeOK, Op
<1>6. CO!Enhanced' = CO!Enhanced /\ CO!RequiresSelection' = CO!RequiresSelection
  BY <1>1 DEF CO!Enhanced, CO!RequiresSelection
<1>7. ASSUME NEW k \in 1..Len(ops') PROVE Terminating(ops'[k], k = busy', CO!Enhanced)
  <2>1. CASE k = Len(ops) + 1
    BY <1>1, <1>3, <1>4, <2>1, Zenon
  <2>2. CASE k # Len(ops) + 1
    <3>1. k \in 1..Len(ops) /\ (k = busy') = (k = busy)
      BY <1>1, <1>2, <1>4, <2>2
    <3> QED BY <1>4, <3>1 DEF ControlInv
  <2> QED BY <2>1, <2>2
<1>8. CO!HolderIsOpen'
  BY <1>1 DEF ControlInv, CO!HolderIsOpen
<1>9. CO!RequiresSelection /\ busy' # 0 => sel'.conn = ops'[busy'].conn
  BY <1>1, <1>3, <1>4
<1> QED BY <1>1, <1>5, <1>6, <1>7, <1>8, <1>9 DEF ControlInv

LEMMA HandlerSound == ASSUME ControlInv, CO!HandlerReturns PROVE ControlInv'
<1> DEFINE op == ops[busy]
<1>1. busy # 0 /\ busy' = 0 /\ UNCHANGED <<ctlModel, served, new>>
  BY DEF CO!HandlerReturns
<1>2. busy \in 1..Len(ops) /\ op \in Op /\ Terminating(op, TRUE, CO!Enhanced)
  <2>1. busy \in 1..Len(ops) /\ op \in Op
    BY <1>1, ControlTypes, ElementOfSeq
  <2>2. Terminating(op, busy = busy, CO!Enhanced)
    BY <2>1 DEF ControlInv
  <2> QED BY <2>1, <2>2, Zenon
<1>3. CASE op.accept
  <2> DEFINE e == IF op.deferred THEN [op EXCEPT !.timer = OperTimeout]
                  ELSE IF CO!Enhanced THEN CO!Finished(op) ELSE op
  <2>1. stVal' = busy /\ sel' = CO!NoSel /\ ops' = [ops EXCEPT ![busy] = e]
    BY <1>3 DEF CO!HandlerReturns
  <2>2. e \in Op /\ Terminating(e, FALSE, CO!Enhanced) /\ e.conn = op.conn
    <3>1. CASE op.deferred
      <4>1. OperTimeout \in BOOLEAN
        BY ControlTypes
      <4>2. e = [op EXCEPT !.timer = OperTimeout]
        BY <3>1
      <4> HIDE DEF e, op
      <4>3. /\ e \in Op /\ e.conn = op.conn /\ e.accept = op.accept /\ e.deferred = op.deferred
            /\ e.done = op.done /\ e.sent = op.sent
        BY <1>2, <4>1, <4>2 DEF Op
      <4> QED BY <1>2, <1>3, <3>1, <4>3 DEF Terminating
    <3>2. CASE ~op.deferred /\ CO!Enhanced
      <4>1. e = CO!Finished(op) /\ Terminating(op, TRUE, TRUE)
        BY <1>2, <3>2 DEF Terminating
      <4> HIDE DEF e, op
      <4> QED BY <1>2, <1>3, <3>2, <4>1, FinishedOp, Zenon DEF Terminating
    <3>3. CASE ~op.deferred /\ ~CO!Enhanced
      BY <1>2, <1>3, <3>3 DEF Terminating
    <3> QED BY <3>1, <3>2, <3>3, Zenon
  <2> HIDE DEF e
  <2>3. CO!HolderIsOpen'
    BY <2>1, ControlTypes DEF CO!HolderIsOpen
  <2>4. (busy = busy') = FALSE
    BY <1>1
  <2> QED BY <1>1, <1>2, <2>1, <2>2, <2>3, <2>4, ControlTypes, ReplacedOp, Zenon
<1>4. CASE ~op.accept
  <2> DEFINE e == [op EXCEPT !.done = TRUE]
  <2>1. stVal' = stVal /\ sel' = sel /\ ops' = [ops EXCEPT ![busy] = e]
    <3>1. ops' = [ops EXCEPT ![busy].done = TRUE] /\ UNCHANGED <<sel, stVal>>
      BY <1>4 DEF CO!HandlerReturns
    <3> QED BY <3>1
  <2>2. e \in Op /\ Terminating(e, FALSE, CO!Enhanced) /\ e.conn = op.conn
    <3> HIDE DEF op
    <3>1. /\ e \in Op /\ e.conn = op.conn /\ e.accept = op.accept /\ e.deferred = op.deferred
          /\ e.timer = op.timer /\ e.sent = op.sent
      BY <1>2, Zenon DEF Op
    <3> QED BY <1>2, <1>4, <3>1 DEF Terminating
  <2> HIDE DEF e
  <2>3. CO!HolderIsOpen'
    BY <1>1, <2>1 DEF CO!HolderIsOpen, ControlInv
  <2>4. (busy = busy') = FALSE
    BY <1>1
  <2> QED BY <1>1, <1>2, <2>1, <2>2, <2>3, <2>4, ControlTypes, ReplacedOp, Zenon
<1> QED BY <1>3, <1>4

(* Whoever else ends a deferred operate, the application or the timer.     *)
LEMMA FinishSound ==
  ASSUME ControlInv, NEW k \in 1..Len(ops), CO!AppFinishes(k) \/ CO!OperTimer(k)
  PROVE  /\ ControlInv'
         /\ Len(ops') = Len(ops) /\ UNCHANGED <<ctlModel, sel, busy>>
         /\ \A j \in 1..Len(ops) : /\ ops'[j].conn = ops[j].conn /\ ops'[j].num = ops[j].num
                                   /\ ops'[j].accept = ops[j].accept
<1> DEFINE op == ops[k]
<1>1. UNCHANGED <<ctlModel, sel, served, new, busy, stVal>>
  BY DEF CO!AppFinishes, CO!OperTimer
<1>2. op \in Op /\ Terminating(op, k = busy, CO!Enhanced) /\ op.deferred /\ (op.accept \/ op.done)
  <2>1. op \in Op /\ Terminating(op, k = busy, CO!Enhanced)
    BY ControlTypes, ElementOfSeq, Zenon DEF ControlInv
  <2>2. op.deferred /\ (op.accept \/ op.done)
    BY <2>1 DEF CO!AppFinishes, CO!OperTimer, Terminating
  <2> QED BY <2>1, <2>2
<1>3. CO!Enhanced /\ Terminating(op, k = busy, TRUE)
  BY <1>2 DEF Terminating
<1> DEFINE d == CO!Finished(op)
<1>4. /\ d \in Op /\ Terminating(d, k = busy, TRUE)
      /\ d.conn = op.conn /\ d.num = op.num /\ d.accept = op.accept /\ d.deferred = op.deferred
      /\ d.timer = op.timer
  <2> HIDE DEF op
  <2>1. CASE op.accept
    <3>1. /\ d \in Op /\ Terminating(d, FALSE, TRUE) /\ Terminating(d, TRUE, TRUE)
          /\ d.conn = op.conn /\ d.num = op.num /\ d.accept = op.accept /\ d.deferred = op.deferred
          /\ d.timer = op.timer
      BY <1>2, <1>3, <2>1, FinishedOp, Zenon
    <3> QED BY <3>1, Zenon
  <2>2. CASE ~op.accept
    <3>1. d = op
      BY <1>2, <2>2 DEF CO!Finished
    <3> QED BY <1>2, <1>3, <3>1
  <2> QED BY <2>1, <2>2
<1>5. PICK e \in Op : /\ ops' = [ops EXCEPT ![k] = e] /\ Terminating(e, k = busy, TRUE)
                      /\ e.conn = op.conn /\ e.num = op.num /\ e.accept = op.accept
  <2>1. CASE CO!AppFinishes(k)
    <3>1. ops' = [ops EXCEPT ![k] = d]
      BY <2>1 DEF CO!AppFinishes
    <3> HIDE DEF d, op
    <3> QED BY <1>4, <3>1, Zenon
  <2>2. CASE CO!OperTimer(k)
    <3> DEFINE e == [d EXCEPT !.timer = FALSE]
    <3>1. ops' = [ops EXCEPT ![k] = e]
      BY <2>2 DEF CO!OperTimer
    <3> HIDE DEF d, op
    <3>2. /\ e \in Op /\ e.conn = op.conn /\ e.num = op.num /\ e.accept = op.accept
          /\ e.deferred = d.deferred /\ e.done = d.done /\ e.sent = d.sent /\ e.timer = FALSE
      BY <1>4, Zenon DEF Op
    <3>3. Terminating(e, k = busy, TRUE)
      BY <1>4, <3>2 DEF Terminating
    <3> HIDE DEF e
    <3> QED BY <3>1, <3>2, <3>3, Zenon
  <2> QED BY <2>1, <2>2, Zenon
<1>6. /\ Len(ops') = Len(ops)
      /\ \A j \in 1..Len(ops) : ops'[j] = IF j = k THEN e ELSE ops[j]
  BY <1>5, ControlTypes, ExceptSeq
<1>7. CO!HolderIsOpen' /\ Terminating(e, k = busy', CO!Enhanced)
  BY <1>1, <1>3, <1>5, Zenon DEF ControlInv, CO!HolderIsOpen
<1>8. ControlInv'
  BY <1>1, <1>5, <1>7, ControlTypes, ReplacedOp, Zenon
<1> QED BY <1>1, <1>5, <1>6, <1>8

LEMMA ReserveSound ==
  ASSUME ControlInv, NEW c \in Conns, NEW n \in Nums \cup {NoNum}, c \in served, busy = 0,
         CO!Reserve(c, n), ctlModel \in {"undeclared", "sbo", "sboEnh"},
         UNCHANGED <<ctlModel, served, new, ops, busy, stVal>>
  PROVE  ControlInv'
<1>1. /\ sel' \in [conn : Conns \cup {NoConn}, num : Nums \cup {NoNum}, live : BOOLEAN]
      /\ sel'.conn = c
  BY DEF CO!Reserve
<1>2. CO!HolderIsOpen'
  BY <1>1 DEF CO!HolderIsOpen
<1> QED BY <1>1, <1>2, ControlTypes, SameOps

LEMMA ClientSound == ASSUME ControlInv, NEW c \in Conns, CO!Client(c) PROVE ControlInv'
<1>1. CASE CO!ReadSBO(c)
  BY <1>1, ReserveSound DEF CO!ReadSBO, CO!MayControl
<1>2. ASSUME NEW n \in Nums, CO!SelectWithValue(c, n) PROVE ControlInv'
  BY <1>2, ReserveSound DEF CO!SelectWithValue, CO!MayControl
<1>3. ASSUME NEW n \in Nums, CO!CancelControl(c, n) PROVE ControlInv'
  <2>1. busy = 0 /\ sel' = CO!NoSel /\ UNCHANGED <<ctlModel, served, new, ops, busy, stVal>>
    BY <1>3 DEF CO!CancelControl, CO!MayControl
  <2>2. CO!HolderIsOpen'
    BY <2>1, ControlTypes DEF CO!HolderIsOpen
  <2> QED BY <2>1, <2>2, ControlTypes, SameOps
<1>4. ASSUME NEW n \in Nums, NEW accept \in BOOLEAN, NEW deferred \in BOOLEAN,
             CO!Operate(c, n, accept, deferred)
      PROVE  ControlInv'
  BY <1>4, OperateSound
<1>5. CASE CO!Connect(c)
  <2>1. /\ UNCHANGED <<ctlModel, sel, ops, busy, stVal>> /\ served' = served \cup {c}
        /\ new' \subseteq new
    BY <1>5 DEF CO!Connect
  <2>2. CO!HolderIsOpen'
    BY <2>1 DEF ControlInv, CO!HolderIsOpen
  <2> QED BY <2>1, <2>2, ControlTypes, SameOps
<1>6. CASE CO!Disconnect(c)
  <2>1. /\ UNCHANGED <<ctlModel, new, ops, busy, stVal>> /\ served' = served \ {c}
        /\ sel' = IF sel.conn = c THEN CO!NoSel ELSE sel
        /\ busy # 0 => ops[busy].conn # c
    BY <1>6 DEF CO!Disconnect
  <2>2. CO!HolderIsOpen'
    BY <2>1, ControlTypes, Zenon DEF ControlInv, CO!HolderIsOpen
  <2> QED BY <2>1, <2>2, ControlTypes, SameOps
<1> QED BY <1>1, <1>2, <1>3, <1>4, <1>5, <1>6 DEF CO!Client

LEMMA ControlSound == ASSUME ControlInv, CO!Next PROVE ControlInv'
<1>1. CASE CO!Expire
  <2>1. /\ sel' = [sel EXCEPT !.live = FALSE] /\ UNCHANGED <<ctlModel, served, new, ops, busy, stVal>>
    BY <1>1 DEF CO!Expire
  <2>2. /\ sel' \in [conn : Conns \cup {NoConn}, num : Nums \cup {NoNum}, live : BOOLEAN]
        /\ sel'.conn = sel.conn
    BY <2>1, ControlTypes, Zenon
  <2>3. CO!HolderIsOpen'
    BY <2>1, <2>2 DEF ControlInv, CO!HolderIsOpen
  <2> QED BY <2>1, <2>2, <2>3, ControlTypes, SameOps
<1> QED BY <1>1, ClientSound, HandlerSound, FinishSound DEF CO!Next

(* Only the client that holds it, or time, ends a selection.               *)
LEMMA ControlKeeps == ASSUME ControlInv, CO!Next PROVE CO!NotStolen
<1> SUFFICES ASSUME ctlModel # "undeclared", sel.conn # NoConn, sel.live
             PROVE  sel'.conn = sel.conn \/ actor' = sel.conn
  BY DEF CO!NotStolen
<1>1. CO!RequiresSelection
  BY DEF ControlInv, CO!RequiresSelection
<1>2. ASSUME NEW c \in Conns, CO!Client(c) PROVE sel'.conn = sel.conn \/ actor' = sel.conn
  BY <1>2 DEF CO!Client, CO!ReadSBO, CO!SelectWithValue, CO!CancelControl, CO!Operate, CO!Connect,
              CO!Disconnect, CO!MayControl, CO!Reserve, CO!CheckCancel
<1>3. CASE CO!HandlerReturns
  BY <1>1, <1>3 DEF ControlInv, CO!HandlerReturns
<1>4. CASE CO!Expire
  BY <1>4, ControlTypes DEF CO!Expire
<1>5. ASSUME NEW k \in 1..Len(ops), CO!AppFinishes(k) \/ CO!OperTimer(k) PROVE sel' = sel
  BY <1>5 DEF CO!AppFinishes, CO!OperTimer
<1> QED BY <1>2, <1>3, <1>4, <1>5 DEF CO!Next

LEMMA ControlEnds == ASSUME ControlInv PROVE CO!HolderIsOpen /\ CO!TerminatedOnce
<1>1. ASSUME NEW k \in 1..Len(ops)
      PROVE  /\ ops[k].sent <= 1
             /\ ~CO!Enhanced \/ ~ops[k].accept => ops[k].sent = 0
             /\ CO!Enhanced /\ ops[k].accept /\ ~ops[k].deferred /\ busy # k => ops[k].sent = 1
  <2>1. ops[k] \in Op /\ Terminating(ops[k], k = busy, CO!Enhanced)
    BY ControlTypes, ElementOfSeq, Zenon DEF ControlInv
  <2>2. ops[k].sent \in {0, 1}
    BY <2>1 DEF Op
  <2>3. (k = busy) = (busy = k)
    OBVIOUS
  <2> QED BY <2>1, <2>2, <2>3 DEF Terminating
<1> QED BY <1>1 DEF ControlInv, CO!TerminatedOnce

(* The state of SelectBeforeOperate that Control's stands for.             *)
Holder == IF CO!Stands THEN sel.conn ELSE NoConn
Number == IF CO!Stands THEN sel.num ELSE NoNum
Granted == IF busy = 0 \/ ~CO!RequiresSelection THEN <<NoConn, NoNum>>
           ELSE <<ops[busy].conn, ops[busy].num>>
Accepted == {k \in 1..Len(ops) : ops[k].accept /\ k # busy}
Executed == IF CO!RequiresSelection THEN CO!Cardinality(Accepted) ELSE 0

LEMMA CountsAs == ASSUME NEW S PROVE CO!Cardinality(S) = Cardinality(S)
BY DEF CO!Cardinality, Cardinality

LEMMA SBOInit == ASSUME CO!Init PROVE CO!SBO!Init
<1>1. Accepted = {} /\ ~CO!Stands /\ busy = 0
  BY DEF CO!Init, Accepted, CO!Stands, CO!NoSel
<1>2. Executed = 0
  BY <1>1, CountsAs, FS_EmptySet DEF Executed
<1> QED BY <1>1, <1>2 DEF CO!SBO!Init, CO!SBO!Nobody, Executed, Accepted

(* Without a step of the abstract state there is nothing to show.          *)
LEMMA SBOStutters ==
  ASSUME Holder' = Holder, Number' = Number, Granted' = Granted, Executed' = Executed
  PROVE  UNCHANGED CO!SBO!vars
BY DEF CO!SBO!vars, Holder, Number, Granted, Executed, Accepted

LEMMA SBOSelects ==
  ASSUME NEW c \in Conns, NEW n \in Nums \cup {NoNum}, Granted = <<NoConn, NoNum>>,
         Holder \in {NoConn, c}, Holder' = c, Number' = n, Granted' = Granted, Executed' = Executed
  PROVE  CO!SBO!Next
<1>1. CO!SBO!Select(c, n)
  BY DEF CO!SBO!Select, CO!SBO!Nobody, Holder, Number, Granted, Executed, Accepted
<1> QED BY <1>1 DEF CO!SBO!Next

LEMMA SBOGrants ==
  ASSUME NEW c \in Conns, NEW n \in Nums, Granted = <<NoConn, NoNum>>, Holder = c,
         Number \in {NoNum, n}, Granted' = <<c, n>>, Holder' = Holder, Number' = Number,
         Executed' = Executed
  PROVE  CO!SBO!Next
<1>1. CO!SBO!Grant(c, n)
  BY DEF CO!SBO!Grant, CO!SBO!Nobody, Holder, Number, Granted, Executed, Accepted
<1> QED BY <1>1 DEF CO!SBO!Next

LEMMA SBOExecutes ==
  ASSUME Granted # <<NoConn, NoNum>>, Holder \in {NoConn, Granted[1]},
         Granted' = <<NoConn, NoNum>>, Executed' = Executed + 1, Holder' = NoConn, Number' = NoNum
  PROVE  CO!SBO!Next
<1>1. CO!SBO!Execute
  BY DEF CO!SBO!Execute, CO!SBO!Nobody, Holder, Number, Granted, Executed, Accepted
<1> QED BY <1>1 DEF CO!SBO!Next

LEMMA SBORefuses ==
  ASSUME Granted # <<NoConn, NoNum>>, Granted' = <<NoConn, NoNum>>, Holder' = Holder,
         Number' = Number, Executed' = Executed
  PROVE  CO!SBO!Next
<1>1. CO!SBO!Refuse
  BY DEF CO!SBO!Refuse, CO!SBO!Nobody, Holder, Number, Granted, Executed, Accepted
<1> QED BY <1>1 DEF CO!SBO!Next

LEMMA SBOEnds ==
  ASSUME Holder # NoConn, Holder' = NoConn, Number' = NoNum, Granted' = Granted,
         Executed' = Executed
  PROVE  CO!SBO!Next
<1>1. CO!SBO!End
  BY DEF CO!SBO!End, Holder, Number, Granted, Executed, Accepted
<1> QED BY <1>1 DEF CO!SBO!Next

(* A step that leaves the operates alone executes nothing.                 *)
LEMMA ExecutesNothing ==
  ASSUME UNCHANGED <<ctlModel, ops, busy>>
  PROVE  /\ Granted' = Granted /\ Executed' = Executed
         /\ CO!RequiresSelection' = CO!RequiresSelection
BY DEF Granted, Executed, Accepted, CO!RequiresSelection

LEMMA SBOReserve ==
  ASSUME ControlInv, NEW c \in Conns, NEW n \in Nums \cup {NoNum}, busy = 0, CO!Reserve(c, n),
         UNCHANGED <<ctlModel, ops, busy>>, CO!RequiresSelection
  PROVE  CO!SBO!Next
<1>1. /\ Granted' = Granted /\ Executed' = Executed /\ CO!RequiresSelection'
      /\ Granted = <<NoConn, NoNum>>
  BY ExecutesNothing DEF Granted
<1>2. sel'.conn = c /\ sel'.num = n /\ sel'.live /\ c # NoConn
  BY ControlTypes DEF CO!Reserve
<1>3. Holder' = c /\ Number' = n
  BY <1>1, <1>2 DEF Holder, Number, CO!Stands
<1>4. Holder \in {NoConn, c}
  BY DEF Holder, CO!Stands, CO!Reserve
<1> QED BY <1>1, <1>3, <1>4, SBOSelects

(* The selection is gone, whoever ended it.                                *)
LEMMA SBOGone ==
  ASSUME ControlInv, UNCHANGED <<ctlModel, ops, busy>>, sel'.conn = NoConn \/ ~sel'.live
  PROVE  [CO!SBO!Next]_(CO!SBO!vars)
<1>1. Granted' = Granted /\ Executed' = Executed
  BY ExecutesNothing
<1>2. Holder' = NoConn /\ Number' = NoNum
  BY DEF Holder, Number, CO!Stands
<1>3. CASE CO!Stands
  <2>1. Holder # NoConn
    BY <1>3 DEF Holder, CO!Stands
  <2> QED BY <1>1, <1>2, <2>1, SBOEnds
<1>4. CASE ~CO!Stands
  <2>1. Holder = NoConn /\ Number = NoNum
    BY <1>4 DEF Holder, Number
  <2> QED BY <1>1, <1>2, <2>1, SBOStutters
<1> QED BY <1>3, <1>4

LEMMA SBOOperate ==
  ASSUME ControlInv, NEW c \in Conns, NEW n \in Nums, NEW accept \in BOOLEAN,
         NEW deferred \in BOOLEAN, CO!Operate(c, n, accept, deferred), CO!RequiresSelection
  PROVE  CO!SBO!Next
<1> DEFINE e == [conn |-> c, num |-> n, accept |-> accept, deferred |-> deferred,
                 done |-> FALSE, timer |-> FALSE, sent |-> 0]
<1>1. /\ busy = 0 /\ busy' = Len(ops) + 1 /\ ops' = Append(ops, e) /\ UNCHANGED <<ctlModel, sel>>
      /\ sel.conn = c /\ sel.live /\ sel.num \in {NoNum, n}
  BY DEF CO!Operate, CO!MayControl, CO!CheckSelection
<1>2. ops \in Seq(Op) /\ Len(ops) \in Nat /\ c # NoConn
  BY ControlTypes
<1>3. e \in Op /\ e.conn = c /\ e.num = n
  BY DEF Op
<1> HIDE DEF e
<1>4. /\ Len(ops') = Len(ops) + 1 /\ ops'[Len(ops) + 1] = e
      /\ \A j \in 1..Len(ops) : ops'[j] = ops[j]
  BY <1>1, <1>2, <1>3, AppendProperties
<1>5. Accepted' = Accepted
  <2>1. ASSUME NEW k PROVE k \in Accepted' <=> k \in Accepted
    <3>1. k \in 1..Len(ops') /\ k # busy' <=> k \in 1..Len(ops)
      BY <1>1, <1>2, <1>4
    <3>2. k \in 1..Len(ops) => ops'[k].accept = ops[k].accept /\ k # busy
      BY <1>1, <1>2, <1>4
    <3> QED BY <3>1, <3>2 DEF Accepted
  <2> QED BY <2>1, Zenon
<1>6. CO!RequiresSelection' /\ Executed' = Executed
  BY <1>1, <1>5 DEF CO!RequiresSelection, Executed
<1>7. Granted = <<NoConn, NoNum>> /\ Granted' = <<c, n>>
  BY <1>1, <1>2, <1>3, <1>4, <1>6 DEF Granted
<1>8. Holder = c /\ Number = sel.num /\ Holder' = Holder /\ Number' = Number
  BY <1>1, <1>2, <1>6 DEF Holder, Number, CO!Stands
<1> QED BY <1>1, <1>6, <1>7, <1>8, SBOGrants

LEMMA AcceptedFinite ==
  ASSUME ControlInv PROVE IsFiniteSet(Accepted) /\ Cardinality(Accepted) \in Nat
<1>1. IsFiniteSet(1..Len(ops)) /\ Accepted \subseteq 1..Len(ops)
  BY ControlTypes, FS_Interval DEF Accepted
<1> QED BY <1>1, FS_Subset, FS_CardinalityType, Zenon

LEMMA SBOHandler ==
  ASSUME ControlInv, CO!HandlerReturns, CO!RequiresSelection PROVE CO!SBO!Next
<1> DEFINE op == ops[busy]
<1>1. busy # 0 /\ busy' = 0 /\ ctlModel' = ctlModel
  BY DEF CO!HandlerReturns
<1>2. busy \in 1..Len(ops) /\ op \in Op /\ ops \in Seq(Op) /\ Len(ops) \in Nat
  BY <1>1, ControlTypes, ElementOfSeq
<1>3. PICK e : /\ ops' = [ops EXCEPT ![busy] = e] /\ e \in Op /\ e.accept = op.accept
               /\ IF op.accept THEN sel' = CO!NoSel ELSE sel' = sel
  <2>1. CASE op.accept
    <3> DEFINE e == IF op.deferred THEN [op EXCEPT !.timer = OperTimeout]
                    ELSE IF CO!Enhanced THEN CO!Finished(op) ELSE op
    <3>1. sel' = CO!NoSel /\ ops' = [ops EXCEPT ![busy] = e]
      BY <2>1 DEF CO!HandlerReturns
    <3>2. CASE op.deferred
      <4>1. e = [op EXCEPT !.timer = OperTimeout] /\ OperTimeout \in BOOLEAN
        BY <3>2, ControlTypes
      <4> HIDE DEF e, op
      <4>2. e \in Op /\ e.accept = op.accept
        BY <1>2, <4>1 DEF Op
      <4> QED BY <2>1, <3>1, <4>2, Zenon
    <3>3. CASE ~op.deferred /\ CO!Enhanced
      <4>1. e = CO!Finished(op) /\ Terminating(op, TRUE, TRUE)
        <5>1. Terminating(op, busy = busy, CO!Enhanced)
          BY <1>2 DEF ControlInv
        <5> QED BY <3>3, <5>1 DEF Terminating
      <4> HIDE DEF e, op
      <4>2. e \in Op /\ e.accept = op.accept
        BY <1>2, <2>1, <4>1, FinishedOp, Zenon
      <4> QED BY <2>1, <3>1, <4>2
    <3>4. CASE ~op.deferred /\ ~CO!Enhanced
      BY <1>2, <2>1, <3>1, <3>4, Zenon
    <3> QED BY <3>2, <3>3, <3>4
  <2>2. CASE ~op.accept
    <3> DEFINE e == [op EXCEPT !.done = TRUE]
    <3>1. ops' = [ops EXCEPT ![busy] = e] /\ sel' = sel
      <4>1. ops' = [ops EXCEPT ![busy].done = TRUE] /\ UNCHANGED <<sel, stVal>>
        BY <2>2 DEF CO!HandlerReturns
      <4> QED BY <4>1
    <3> HIDE DEF op
    <3>2. e \in Op /\ e.accept = op.accept
      BY <1>2, Zenon DEF Op
    <3> QED BY <2>2, <3>1, <3>2, Zenon
  <2> QED BY <2>1, <2>2
<1>4. /\ Len(ops') = Len(ops)
      /\ \A j \in 1..Len(ops) : ops'[j] = IF j = busy THEN e ELSE ops[j]
  BY <1>2, <1>3, ExceptSeq
<1>5. CO!RequiresSelection' /\ Granted' = <<NoConn, NoNum>>
  BY <1>1 DEF CO!RequiresSelection, Granted
<1>6. Granted = <<op.conn, op.num>> /\ op.conn # NoConn /\ sel.conn = op.conn
  <2>1. op.conn \in Conns
    BY <1>2 DEF Op
  <2> QED BY <1>1, <2>1, ControlTypes, Zenon DEF Granted, ControlInv
<1>7. Granted # <<NoConn, NoNum>> /\ Granted[1] = op.conn /\ Holder \in {NoConn, Granted[1]}
  <2> HIDE DEF op
  <2> QED BY <1>6 DEF Holder
<1>8. busy \notin Accepted /\ Accepted' = IF op.accept THEN Accepted \cup {busy} ELSE Accepted
  BY <1>1, <1>2, <1>3, <1>4 DEF Accepted
<1>9. CASE op.accept
  <2>1. Executed' = Executed + 1
    <3>1. Cardinality(Accepted \cup {busy}) = Cardinality(Accepted) + 1
      BY <1>8, AcceptedFinite, FS_AddElement, Zenon
    <3> QED BY <1>5, <1>8, <1>9, <3>1, CountsAs DEF Executed
  <2>2. Holder' = NoConn /\ Number' = NoNum
    BY <1>3, <1>9, ControlTypes DEF Holder, Number, CO!Stands
  <2> QED BY <1>5, <1>7, <2>1, <2>2, SBOExecutes
<1>10. CASE ~op.accept
  <2>1. Executed' = Executed /\ Holder' = Holder /\ Number' = Number
    BY <1>3, <1>5, <1>8, <1>10 DEF Executed, Holder, Number, CO!Stands
  <2> QED BY <1>5, <1>7, <2>1, SBORefuses
<1> QED BY <1>9, <1>10

LEMMA SBOStep ==
  ASSUME ControlInv, CO!Next PROVE [CO!SBO!Next]_(CO!SBO!vars)
<1>0. ctlModel' = ctlModel
  BY Zenon DEF CO!Next, CO!Client, CO!ReadSBO, CO!SelectWithValue, CO!CancelControl, CO!Operate,
         CO!Connect, CO!Disconnect, CO!HandlerReturns, CO!Expire, CO!AppFinishes, CO!OperTimer
<1>1. CASE ~CO!RequiresSelection
  <2>1. ~CO!RequiresSelection'
    BY <1>0, <1>1 DEF CO!RequiresSelection
  <2>2. Holder' = Holder /\ Number' = Number /\ Granted' = Granted /\ Executed' = Executed
    BY <1>1, <2>1 DEF Holder, Number, Granted, Executed, CO!Stands
  <2> QED BY <2>2, SBOStutters
<1>2. CASE CO!RequiresSelection
  <2>1. ASSUME NEW c \in Conns, CO!ReadSBO(c) PROVE CO!SBO!Next
    BY <1>2, <2>1, SBOReserve DEF CO!ReadSBO, CO!MayControl
  <2>2. ASSUME NEW c \in Conns, NEW n \in Nums, CO!SelectWithValue(c, n) PROVE CO!SBO!Next
    BY <1>2, <2>2, SBOReserve DEF CO!SelectWithValue, CO!MayControl
  <2>3. ASSUME NEW c \in Conns, NEW n \in Nums, CO!CancelControl(c, n)
        PROVE  [CO!SBO!Next]_(CO!SBO!vars)
    BY <2>3, SBOGone, ControlTypes DEF CO!CancelControl
  <2>4. ASSUME NEW c \in Conns, NEW n \in Nums, NEW accept \in BOOLEAN, NEW deferred \in BOOLEAN,
               CO!Operate(c, n, accept, deferred)
        PROVE  CO!SBO!Next
    BY <1>2, <2>4, SBOOperate
  <2>5. ASSUME UNCHANGED <<ctlModel, ops, busy, sel>> PROVE UNCHANGED CO!SBO!vars
    BY <2>5, SBOStutters, ExecutesNothing DEF Holder, Number, CO!Stands
  <2>6. ASSUME NEW c \in Conns, CO!Connect(c) PROVE UNCHANGED CO!SBO!vars
    BY <2>5, <2>6 DEF CO!Connect
  <2>7. ASSUME NEW c \in Conns, CO!Disconnect(c) PROVE [CO!SBO!Next]_(CO!SBO!vars)
    BY <2>5, <2>7, SBOGone, ControlTypes DEF CO!Disconnect
  <2>8. CASE CO!HandlerReturns
    BY <1>2, <2>8, SBOHandler
  <2>9. CASE CO!Expire
    BY <2>9, SBOGone, ControlTypes DEF CO!Expire
  <2>10. ASSUME NEW k \in 1..Len(ops), CO!AppFinishes(k) \/ CO!OperTimer(k)
         PROVE  UNCHANGED CO!SBO!vars
    <3>1. /\ Len(ops') = Len(ops) /\ UNCHANGED <<ctlModel, sel, busy>>
          /\ \A j \in 1..Len(ops) : /\ ops'[j].conn = ops[j].conn /\ ops'[j].num = ops[j].num
                                    /\ ops'[j].accept = ops[j].accept
      BY <2>10, FinishSound
    <3>2. busy # 0 => busy \in 1..Len(ops)
      BY ControlTypes
    <3>3. Accepted' = Accepted
      BY <3>1 DEF Accepted
    <3>4. Granted' = Granted /\ Executed' = Executed /\ Holder' = Holder /\ Number' = Number
      BY <3>1, <3>2, <3>3 DEF Granted, Executed, Holder, Number, CO!Stands, CO!RequiresSelection
    <3> QED BY <3>4, SBOStutters
  <2> QED BY <2>1, <2>2, <2>3, <2>4, <2>6, <2>7, <2>8, <2>9, <2>10 DEF CO!Next, CO!Client
<1> QED BY <1>1, <1>2

-----------------------------------------------------------------------------
(* The run's composition.                                                  *)

LEMMA CompositionStep ==
  ASSUME ControlInv, [MCNext]_mcVars
  PROVE  CO!Next \/ UNCHANGED coVars
BY DEF MCNext, Part, COPart, CCPart, EAPart, mcVars

LEMMA ControlStep ==
  ASSUME ControlInv, [MCNext]_mcVars
  PROVE  ControlInv' /\ CO!NotStolen
<1>1. CASE CO!Next
  BY <1>1, ControlSound, ControlKeeps
<1>2. CASE UNCHANGED coVars
  BY <1>2 DEF coVars, ControlInv, CO!TypeOK, CO!HolderIsOpen, CO!Enhanced, CO!RequiresSelection,
              CO!NotStolen
<1> QED BY <1>1, <1>2, CompositionStep

(* For any number of clients, control numbers and operates, and every      *)
(* control model: the control service implements select-before-operate     *)
(* (select.go:87-103, control.go:173-182, 214-227).                        *)
THEOREM ControlImplementsSBO == MCFairSpec => ImplementsSBO
<1>1. MCInit => ControlInv /\ CO!SBO!Init
  BY ControlInit, SBOInit DEF MCInit
<1>2. ControlInv /\ [MCNext]_mcVars => ControlInv'
  BY ControlStep
<1>3. ControlInv /\ [MCNext]_mcVars => [CO!SBO!Next]_(CO!SBO!vars)
  <2> SUFFICES ASSUME ControlInv, [MCNext]_mcVars PROVE [CO!SBO!Next]_(CO!SBO!vars)
    OBVIOUS
  <2>1. CASE CO!Next
    BY <2>1, SBOStep
  <2>2. CASE UNCHANGED coVars
    <3>1. Holder' = Holder /\ Number' = Number /\ Granted' = Granted /\ Executed' = Executed
      BY <2>2 DEF coVars, Holder, Number, Granted, Executed, Accepted, CO!Stands,
                  CO!RequiresSelection
    <3> QED BY <3>1, SBOStutters
  <2> QED BY <2>1, <2>2, CompositionStep
<1> QED BY <1>1, <1>2, <1>3, PTL DEF MCFairSpec, ImplementsSBO, CO!ImplementsSBO, CO!SBO!Spec

-----------------------------------------------------------------------------
(* The client's association is the one ClientConnProofs is about.          *)

CP == INSTANCE ClientConnProofs

LEMMA SameAssociation ==
  (CC!Init <=> CP!Init) /\ (CC!Next <=> CP!Next) /\ (CC!KeepsCause <=> CP!KeepsCause)
<1>1. CC!Init <=> CP!Init
  BY DEF CC!Init, CP!Init, CC!Ids, CP!Ids, CC!Cancels, CP!Cancels
<1>2. CC!KeepsCause <=> CP!KeepsCause
  BY DEF CC!KeepsCause, CP!KeepsCause, CC!Ids, CP!Ids, CC!Causes, CP!Causes
<1>3. CC!Next <=> CP!Next
  BY DEF CC!Answer, CP!Answer, CC!AnswerCancel, CP!AnswerCancel, CC!AnswerClosing,
         CP!AnswerClosing, CC!Arrives, CP!Arrives, CC!CallInterrupted, CP!CallInterrupted, CC!CallLock,
         CP!CallLock, CC!CallLockContext, CP!CallLockContext, CC!CallStep, CP!CallStep, CC!CallUnsent,
         CP!CallUnsent, CC!CallWriteFails, CP!CallWriteFails, CC!CallWritten, CP!CallWritten,
         CC!CancelAnswered, CP!CancelAnswered, CC!CancelContext, CP!CancelContext, CC!CancelLock,
         CP!CancelLock, CC!CancelOf, CP!CancelOf, CC!CancelReturns, CP!CancelReturns, CC!CancelStart,
         CP!CancelStart, CC!CancelStep, CP!CancelStep, CC!CancelUnsent, CP!CancelUnsent,
         CC!CancelWritten, CP!CancelWritten, CC!Cancels, CP!Cancels, CC!Causes, CP!Causes,
         CC!CloseAnswered, CP!CloseAnswered, CC!CloseLock, CP!CloseLock, CC!CloseStart, CP!CloseStart,
         CC!CloseTimer, CP!CloseTimer, CC!CloseUnsent, CP!CloseUnsent, CC!CloseWritten, CP!CloseWritten,
         CC!CloserStep, CP!CloserStep, CC!Collect, CP!Collect, CC!CollectContext, CP!CollectContext,
         CC!Concluded, CP!Concluded, CC!Deliver, CP!Deliver, CC!DeliverCancel, CP!DeliverCancel,
         CC!FailAll, CP!FailAll, CC!HandCancel, CP!HandCancel, CC!Ids, CP!Ids, CC!Join, CP!Join,
         CC!Lost, CP!Lost, CC!Next, CP!Next, CC!RawClose, CP!RawClose, CC!ReadFails, CP!ReadFails,
         CC!ReaderStep, CP!ReaderStep, CC!Released, CP!Released, CC!Start, CP!Start
<1> QED BY <1>1, <1>2, <1>3

(* What a step of the composition does to the client's association.        *)
LEMMA AssociationStep ==
  ASSUME CP!IndInv, [MCNext]_mcVars
  PROVE  CP!IndInv' /\ CC!KeepsCause
<1>1. CC!Next \/ UNCHANGED ccVars
  BY DEF MCNext, Part, COPart, CCPart, EAPart, mcVars
<1>2. [CP!Next]_(CP!vars)
  BY <1>1, SameAssociation DEF ccVars, CP!vars
<1> QED BY <1>2, CP!StepSound, CP!StepKeepsCause, SameAssociation

(* For any number of clients, operates, requests and Cancels: a selection  *)
(* is held by a connected client and ended by nobody else, an operate is   *)
(* terminated once if it is to be and never otherwise, and what fails with *)
(* an association is told the first cause of its end (control.go:282-355,  *)
(* select.go:105-141, failAll of mms/conn.go).                             *)
THEOREM EndsAreSingle == MCFairSpec => EndsOnce
<1>1. MCInit => ControlInv /\ CP!IndInv
  BY ControlInit, CP!InitSound, SameAssociation DEF MCInit
<1>2. ControlInv /\ [MCNext]_mcVars => ControlInv' /\ CO!NotStolen
  BY ControlStep
<1>3. ControlInv => CO!HolderIsOpen /\ CO!TerminatedOnce
  BY ControlEnds
<1>4. CP!IndInv /\ [MCNext]_mcVars => CP!IndInv' /\ CC!KeepsCause
  BY AssociationStep
<1> QED BY <1>1, <1>2, <1>3, <1>4, PTL DEF MCFairSpec, EndsOnce
==============================================================================
