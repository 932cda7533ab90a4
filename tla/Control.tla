------------------------------ MODULE Control -------------------------------
(***************************************************************************)
(* One controllable object of the server: its selection (server/select.go) *)
(* and the control service (server/control.go).  A control write holds the *)
(* model's write lock from its checks through the application's handler to *)
(* its end; what runs meanwhile is time, the loss of other connections,    *)
(* and the goroutines that end deferred operates.  Refused requests change *)
(* nothing and are not actions.                                            *)
(***************************************************************************)
EXTENDS Naturals, Sequences, FiniteSets

CONSTANTS
  Conns,         \* associations, each opened once
  Nums,          \* control numbers
  NoConn, NoNum, \* nil, and the number of a select that carries none
  CtlModels,     \* control models the object may have, "undeclared" among them
  OperTimeout,   \* whether it has an operTimeout
  MaxOps         \* bound on the operates

(* Nil is no connection and no number; the control models are those of     *)
(* IEC 61850-7-2.                                                          *)
ControlAssumption ==
  /\ NoConn \notin Conns /\ NoNum \notin Nums
  /\ CtlModels \subseteq {"undeclared", "status", "direct", "sbo", "directEnh", "sboEnh"}
  /\ OperTimeout \in BOOLEAN /\ MaxOps \in Nat

VARIABLES
  ctlModel,  \* the object's control model, as configured
  sel,     \* selections[ref]: conn (NoConn when there is none), num, live (not expired)
  open,    \* connections being served
  new,     \* associations not yet made
  ops,     \* the operates that reached the handler, each with its termination
  busy,    \* the operate whose handler has not returned, or 0
  stVal,   \* the operate that set the status last, or 0
  actor    \* history: the client whose request or departure was the last step, or NoConn

vars == <<ctlModel, sel, open, new, ops, busy, stVal, actor>>

NoSel == [conn |-> NoConn, num |-> NoNum, live |-> FALSE]
Enhanced == ctlModel \in {"directEnh", "sboEnh"}
RequiresSelection == ctlModel \in {"sbo", "sboEnh"}

Init ==
  /\ ctlModel \in CtlModels /\ sel = NoSel /\ open = {} /\ new = Conns
  /\ ops = <<>> /\ busy = 0 /\ stVal = 0 /\ actor = NoConn

(* reserve: refused while another client's selection lives.                *)
Reserve(c, n) ==
  /\ sel.conn \in {NoConn, c} \/ ~sel.live
  /\ sel' = [conn |-> c, num |-> n, live |-> TRUE]

(* A control write, or a read of SBO, of a connection being served while   *)
(* no other control write is in progress.                                  *)
MayControl(c) == c \in open /\ busy = 0 /\ actor' = c

(* selectSBO, by reading SBO.                                              *)
ReadSBO(c) ==
  /\ MayControl(c) /\ ctlModel \in {"undeclared", "sbo"}
  /\ Reserve(c, NoNum)
  /\ UNCHANGED <<ctlModel, open, new, ops, busy, stVal>>

(* controlWrite of SBOw, accepted by the handler.                          *)
SelectWithValue(c, n) ==
  /\ MayControl(c) /\ ctlModel \in {"undeclared", "sboEnh"}
  /\ Reserve(c, n)
  /\ UNCHANGED <<ctlModel, open, new, ops, busy, stVal>>

(* Faulty variant: the selection is not looked at for its sequence.        *)
CheckSelectionAnyNum(c, n) == sel.conn = c /\ sel.live

(* checkSelection: live, of this client, and of this sequence.             *)
CheckSelection(c, n) == sel.conn = c /\ sel.live /\ sel.num \in {NoNum, n}

(* controlWrite of Oper, up to the handler: accept is what that will       *)
(* return, deferred whether it takes the termination over.                 *)
Operate(c, n, accept, deferred) ==
  /\ MayControl(c) /\ ctlModel # "status" /\ Len(ops) < MaxOps
  /\ RequiresSelection => CheckSelection(c, n)
  /\ deferred => Enhanced
  /\ ops' = Append(ops, [conn |-> c, num |-> n, accept |-> accept,
                         deferred |-> deferred, done |-> FALSE, timer |-> FALSE, sent |-> 0])
  /\ busy' = Len(ops) + 1
  /\ UNCHANGED <<ctlModel, sel, open, new, stVal>>

(* termination.finish, once.                                               *)
Finished(op) == IF op.done THEN op ELSE [op EXCEPT !.done = TRUE, !.sent = @ + 1]

(* Faulty variants: a refused operate keeps its termination; a deferred    *)
(* one is not supervised.                                                  *)
HandlerReturnsKeeping ==
  /\ busy # 0 /\ busy' = 0 /\ actor' = ops[busy].conn
  /\ LET op == ops[busy]
     IN /\ ops' = [ops EXCEPT ![busy] = IF op.deferred THEN [op EXCEPT !.timer = OperTimeout]
                                        ELSE IF Enhanced THEN Finished(op) ELSE op]
        /\ stVal' = IF op.accept THEN busy ELSE stVal
        /\ sel' = IF op.accept THEN NoSel ELSE sel
  /\ UNCHANGED <<ctlModel, open, new>>
HandlerReturnsUnsupervised ==
  /\ busy # 0 /\ busy' = 0 /\ actor' = ops[busy].conn
  /\ LET op == ops[busy]
     IN IF op.accept
        THEN /\ stVal' = busy /\ sel' = NoSel
             /\ ops' = [ops EXCEPT ![busy] = IF Enhanced /\ ~op.deferred THEN Finished(op) ELSE op]
        ELSE /\ ops' = [ops EXCEPT ![busy].done = TRUE]
             /\ UNCHANGED <<ctlModel, sel, stVal>>
  /\ UNCHANGED <<ctlModel, open, new>>

(* The handler returns: a refused operate's termination is discarded; an   *)
(* accepted one is applied, the selection cleared, and its termination     *)
(* sent, or supervised if deferred.                                        *)
HandlerReturns ==
  /\ busy # 0 /\ busy' = 0 /\ actor' = ops[busy].conn
  /\ LET op == ops[busy]
     IN IF op.accept
        THEN /\ stVal' = busy /\ sel' = NoSel
             /\ ops' = [ops EXCEPT ![busy] = IF op.deferred THEN [op EXCEPT !.timer = OperTimeout]
                                             ELSE IF Enhanced THEN Finished(op) ELSE op]
        ELSE /\ ops' = [ops EXCEPT ![busy].done = TRUE]
             /\ UNCHANGED <<ctlModel, sel, stVal>>
  /\ UNCHANGED <<ctlModel, open, new>>

(* The application ends a deferred operate, maybe more than once: one it   *)
(* accepts maybe before its handler returned, one it has refused in vain.  *)
AppFinishes(k) ==
  /\ ops[k].deferred /\ (ops[k].accept \/ busy # k)
  /\ ops' = [ops EXCEPT ![k] = Finished(@)]
  /\ actor' = NoConn /\ UNCHANGED <<ctlModel, sel, open, new, busy, stVal>>

(* The callback of supervise's timer, which finish may stop too late.      *)
OperTimer(k) ==
  /\ ops[k].timer
  /\ ops' = [ops EXCEPT ![k] = [Finished(@) EXCEPT !.timer = FALSE]]
  /\ actor' = NoConn /\ UNCHANGED <<ctlModel, sel, open, new, busy, stVal>>

(* Faulty variant: another client's selection does not protect it.         *)
CheckCancelAnyone(c, n) == sel.live => sel.num \in {NoNum, n}

(* checkCancel: with no live selection there is nothing to protect.        *)
CheckCancel(c, n) == sel.conn # NoConn /\ sel.live => sel.conn = c /\ sel.num \in {NoNum, n}

(* controlWrite of Cancel.                                                 *)
CancelControl(c, n) ==
  /\ MayControl(c) /\ ctlModel # "status"
  /\ CheckCancel(c, n)
  /\ sel' = NoSel
  /\ UNCHANGED <<ctlModel, open, new, ops, busy, stVal>>

(* sboTimeout passes.                                                      *)
Expire ==
  /\ sel.live /\ sel' = [sel EXCEPT !.live = FALSE]
  /\ actor' = NoConn /\ UNCHANGED <<ctlModel, open, new, ops, busy, stVal>>

Connect(c) ==
  /\ c \in new /\ new' = new \ {c} /\ open' = open \cup {c} /\ actor' = c
  /\ UNCHANGED <<ctlModel, sel, ops, busy, stVal>>

(* Faulty variant: the selection is not released.                          *)
DisconnectKeeps(c) ==
  /\ c \in open /\ (busy # 0 => ops[busy].conn # c)
  /\ open' = open \ {c} /\ actor' = c
  /\ UNCHANGED <<ctlModel, sel, new, ops, busy, stVal>>

(* serveConn ends, which is not while it handles a request:                *)
(* releaseSelections.                                                      *)
Disconnect(c) ==
  /\ c \in open /\ (busy # 0 => ops[busy].conn # c)
  /\ open' = open \ {c} /\ actor' = c
  /\ sel' = IF sel.conn = c THEN NoSel ELSE sel
  /\ UNCHANGED <<ctlModel, new, ops, busy, stVal>>

Client(c) ==
  \/ ReadSBO(c) \/ Connect(c) \/ Disconnect(c)
  \/ \E n \in Nums :
       \/ SelectWithValue(c, n) \/ CancelControl(c, n)
       \/ \E accept, deferred \in BOOLEAN : Operate(c, n, accept, deferred)

Next ==
  \/ \E c \in Conns : Client(c)
  \/ HandlerReturns \/ Expire
  \/ \E k \in 1..Len(ops) : AppFinishes(k) \/ OperTimer(k)

Spec == Init /\ [][Next]_vars

(* Handlers return, and timers that expire run their callbacks.  Nothing   *)
(* is assumed of the application's ending a deferred operate.              *)
Fairness ==
  /\ WF_vars(HandlerReturns)
  /\ \A k \in 1..MaxOps : WF_vars(k <= Len(ops) /\ OperTimer(k))
FairSpec == Spec /\ Fairness

-----------------------------------------------------------------------------
(* Every field has its type (select.go:37-45, control.go:285-293).         *)
TypeOK ==
  /\ ctlModel \in CtlModels
  /\ sel \in [conn : Conns \cup {NoConn}, num : Nums \cup {NoNum}, live : BOOLEAN]
  /\ open \subseteq Conns /\ new \subseteq Conns
  /\ ops \in Seq([conn : Conns, num : Nums, accept : BOOLEAN, deferred : BOOLEAN,
                  done : BOOLEAN, timer : BOOLEAN, sent : {0, 1}])
  /\ busy \in 0..Len(ops) /\ stVal \in 0..Len(ops)

(* Reservations are held by connected clients only: one that is gone holds *)
(* nothing, and so blocks nobody (select.go:132-141).                      *)
HolderIsOpen == sel.conn \in open \cup {NoConn}

(* The CommandTermination of an enhanced-security operate "is sent exactly *)
(* once" (control.go:282-284), never for a refused one (control.go:        *)
(* 336-337), and none is sent for normal security: with the application,   *)
(* the operate timeout and the server all about to send it.                *)
TerminatedOnce ==
  \A k \in 1..Len(ops) :
    /\ ops[k].sent <= 1
    /\ ~Enhanced \/ ~ops[k].accept => ops[k].sent = 0
    /\ Enhanced /\ ops[k].accept /\ ~ops[k].deferred /\ busy # k => ops[k].sent = 1

(* With an operTimeout every accepted enhanced-security operate is         *)
(* terminated, whatever the application does (control.go:346-355).         *)
Terminates ==
  \A k \in 1..MaxOps :
    k <= Len(ops) /\ ops[k].accept /\ Enhanced ~>
      k <= Len(ops) /\ ops[k].sent = 1

(* A live selection ends only by its own client's operate, cancel or       *)
(* departure, or by expiring; nobody else's request ends or takes it       *)
(* (select.go:75, 105-118).  An object that declares no control model is   *)
(* operated without a selection, and such an operate clears one.           *)
NotStolen ==
  ctlModel # "undeclared" /\ sel.conn # NoConn /\ sel.live =>
    sel'.conn = sel.conn \/ actor' = sel.conn

(* The object as a client of select-before-operate sees it: an expired     *)
(* selection is none.                                                      *)
Stands == RequiresSelection /\ sel.conn # NoConn /\ sel.live
SBO == INSTANCE SelectBeforeOperate WITH
  holder <- IF Stands THEN sel.conn ELSE NoConn,
  num <- IF Stands THEN sel.num ELSE NoNum,
  granted <- IF busy = 0 \/ ~RequiresSelection THEN <<NoConn, NoNum>>
             ELSE <<ops[busy].conn, ops[busy].num>>,
  executed <- IF RequiresSelection
              THEN Cardinality({k \in 1..Len(ops) : ops[k].accept /\ k # busy}) ELSE 0

(* The control service of an SBO object implements select-before-operate   *)
(* (select.go:87-103, control.go:173-182, 214-227); of others nothing is   *)
(* said.                                                                   *)
ImplementsSBO == SBO!Spec
=============================================================================
