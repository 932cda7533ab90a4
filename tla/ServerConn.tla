----------------------------- MODULE ServerConn -----------------------------
(***************************************************************************)
(* One accepted MMS association (mms/server_conn.go, mms/server_ext.go):   *)
(* the Serve goroutine that answers confirmed requests one at a time, the  *)
(* pump goroutine that writes the queue of unconfirmed PDUs, the           *)
(* goroutines of deferred requests, and the other goroutines of the server *)
(* that send reports and command terminations on the association.          *)
(***************************************************************************)
EXTENDS Naturals, Sequences, FiniteSets

CONSTANTS
  Ids,         \* invoke identifiers the client uses
  Reuse,       \* whether it uses one again once it has its answer
  Cancels,     \* whether it cancels requests
  Kinds,       \* of request: "plain", "oper" (a control), "slow" (deferred)
  QueueCap,    \* capacity of the queue of unconfirmed PDUs (512)
  MaxRequests, MaxReports   \* bounds: requests and reports

(* The bounds are numbers and the kinds known.                             *)
ASSUME ConnAssumption ==
  /\ Reuse \in BOOLEAN /\ Cancels \in BOOLEAN
  /\ Kinds \subseteq {"plain", "oper", "slow"}
  /\ QueueCap \in Nat \ {0} /\ MaxRequests \in Nat /\ MaxReports \in Nat

VARIABLES
  reqs,     \* the requests received, in order: identifier and kind
  sc,       \* the Serve goroutine and what it shares: see Init
  queue,    \* unconf: PDUs waiting for the pump
  closed,   \* unconfClosed, and the connection's context ended
  down,     \* the transport is gone: sends and receives fail
  pump,     \* the pump goroutine runs
  running,  \* running[id]: the deferred request whose cancel function it is, or 0
  task,     \* the goroutine of each deferred request
  cut,      \* deferred requests whose context the client cancelled
  owed,     \* operates whose termination the application still has to send
  term,     \* the operate whose termination is past hold, or 0
  report,   \* the report past hold, or 0; reports are sent one at a time
  made,     \* reports so far
  refused,  \* reports whose sender was told they were not sent
  held,     \* for each report, the request it was held for, or 0
  wire      \* what was written, in order

vars == <<reqs, sc, queue, closed, down, pump, running, task, cut, owed, term, report, made,
          refused, held, wire>>

Requests == 1..MaxRequests
Reports == 1..MaxReports
Kind == reqs[sc.cur].kind

PDU(k, n) == [k |-> k, n |-> n]
Answers == {"positive", "error", "preempt"}
In(q, pdu) == \E i \in 1..Len(q) : q[i] = pdu
Answered(r) == \E a \in Answers : In(wire, PDU(a, r))

(* send: nothing is written on a transport that is gone.                   *)
Written(pdus) == IF down THEN wire ELSE wire \o pdus

-----------------------------------------------------------------------------
(* AcceptConn: the association is open and the pump started.               *)
Init ==
  /\ reqs = <<>>
  /\ sc = [phase |-> "read", cur |-> 0, inReq |-> FALSE, out |-> "none", found |-> 0,
           before |-> <<>>, after |-> <<>>,   \* held for the request in progress
           ahead |-> <<>>, behind |-> <<>>]   \* endRequest's copies
  /\ queue = <<>> /\ closed = FALSE /\ down = FALSE /\ pump = TRUE
  /\ running = [i \in Ids |-> 0]
  /\ task = [r \in Requests |-> "none"]
  /\ cut = {} /\ owed = {} /\ term = 0
  /\ report = 0 /\ made = 0 /\ refused = {} /\ held = [n \in Reports |-> 0]
  /\ wire = <<>>

conn == <<closed, down>>
deferrals == <<running, task, cut>>
terms == <<owed, term>>
reporting == <<report, made, refused, held>>

(* A request the client may send: its identifier is not that of a request  *)
(* it still waits for.                                                     *)
Usable(id) ==
  \A r \in 1..Len(reqs) : reqs[r].id = id => Reuse /\ Answered(r)

(* Serve and handlePDU receive a confirmed request: beginRequest.  Which   *)
(* of the identifiers it may use the client takes makes no difference.     *)
Receive(kind) ==
  /\ sc.phase = "read" /\ ~down /\ Len(reqs) < MaxRequests
  /\ \E id \in Ids : Usable(id)
  /\ reqs' = Append(reqs, [id |-> CHOOSE id \in Ids : Usable(id), kind |-> kind])
  /\ sc' = [sc EXCEPT !.phase = "handle", !.cur = Len(reqs) + 1, !.inReq = TRUE]
  /\ UNCHANGED <<queue, conn, pump, deferrals, terms, reporting, wire>>

(* What the handler does with the request: a refused control sends a       *)
(* LastApplError first, an operate sends its CommandTermination or defers  *)
(* it; a slow service defers its response.  "nil" is a handler that        *)
(* returns neither response nor error.                                     *)
Decide(out) ==
  /\ sc.phase = "handle" /\ sc.out = "none"
  /\ out \in CASE Kind = "plain" -> {"positive", "error", "nil"}
               [] Kind = "oper" -> {"refused", "terminated", "operated"}
               [] Kind = "slow" -> {"deferred"}
  /\ sc' = [sc EXCEPT
              !.out = out,
              !.before = IF out = "refused" THEN Append(@, PDU("lastApplError", sc.cur)) ELSE @,
              !.after = IF out = "terminated" THEN Append(@, PDU("termination", sc.cur)) ELSE @]
  /\ owed' = IF out = "operated" THEN owed \cup {sc.cur} ELSE owed
  /\ UNCHANGED <<reqs, queue, conn, pump, deferrals, term, reporting, wire>>

(* Faulty variant: all that is held goes ahead of the response.            *)
EndRequestAllAhead ==
  /\ sc.phase = "handle" /\ sc.out # "none"
  /\ sc' = [sc EXCEPT !.phase = "answer", !.inReq = FALSE, !.before = <<>>, !.after = <<>>,
                      !.ahead = sc.before \o sc.after, !.behind = <<>>]
  /\ UNCHANGED <<reqs, queue, conn, pump, deferrals, terms, reporting, wire>>

(* endRequest *)
EndRequest ==
  /\ sc.phase = "handle" /\ sc.out # "none"
  /\ sc' = [sc EXCEPT !.phase = "answer", !.inReq = FALSE, !.before = <<>>, !.after = <<>>,
                      !.ahead = sc.before, !.behind = sc.after]
  /\ UNCHANGED <<reqs, queue, conn, pump, deferrals, terms, reporting, wire>>

(* What ends the association for Serve: a send that failed.                *)
Phase(next) == IF down THEN "over" ELSE next

(* Sends what precedes the response, one PDU at a time.                    *)
SendBefore ==
  /\ sc.phase = "answer" /\ sc.ahead # <<>>
  /\ wire' = Written(<<Head(sc.ahead)>>)
  /\ sc' = [sc EXCEPT !.ahead = Tail(@), !.phase = Phase(@)]
  /\ UNCHANGED <<reqs, queue, conn, pump, deferrals, terms, reporting>>

(* Faulty variant: the deferred request is answered at once too.           *)
AnswerAlways ==
  /\ sc.phase = "answer" /\ sc.ahead = <<>>
  /\ wire' = Written(<<PDU("positive", sc.cur)>>)
  /\ sc' = [sc EXCEPT !.phase = Phase("after")]
  /\ UNCHANGED <<reqs, queue, conn, pump, terms, reporting, cut>>
  /\ task' = IF sc.out = "deferred" THEN [task EXCEPT ![sc.cur] = "run"] ELSE task
  /\ running' = IF sc.out = "deferred" THEN [running EXCEPT ![reqs[sc.cur].id] = sc.cur]
                ELSE running

(* The response or error of a request answered at once (sendResponse,      *)
(* sendError).                                                             *)
Answer ==
  /\ sc.phase = "answer" /\ sc.ahead = <<>> /\ sc.out # "deferred"
  /\ wire' = Written(<<PDU(IF sc.out \in {"refused", "error", "nil"} THEN "error"
                           ELSE "positive", sc.cur)>>)
  /\ sc' = [sc EXCEPT !.phase = Phase("after")]
  /\ UNCHANGED <<reqs, queue, conn, pump, deferrals, terms, reporting>>

(* runDeferred, on the Serve goroutine.                                    *)
RunDeferred ==
  /\ sc.phase = "answer" /\ sc.ahead = <<>> /\ sc.out = "deferred"
  /\ running' = [running EXCEPT ![reqs[sc.cur].id] = sc.cur]
  /\ task' = [task EXCEPT ![sc.cur] = "run"]
  /\ sc' = [sc EXCEPT !.phase = "after"]
  /\ UNCHANGED <<reqs, queue, conn, pump, cut, terms, reporting, wire>>

(* enqueue: the PDU joins the queue unless that is closed or full.         *)
Accepts == ~closed /\ Len(queue) < QueueCap

(* Queues what follows the response, one PDU at a time; a refusal is       *)
(* ignored.  Then Serve reads on.                                          *)
QueueAfter ==
  /\ sc.phase = "after"
  /\ IF sc.behind # <<>>
     THEN /\ queue' = IF Accepts THEN Append(queue, Head(sc.behind)) ELSE queue
          /\ sc' = [sc EXCEPT !.behind = Tail(@)]
     ELSE /\ sc' = [sc EXCEPT !.phase = "read", !.cur = 0, !.out = "none"]
          /\ UNCHANGED queue
  /\ UNCHANGED <<reqs, conn, pump, deferrals, terms, reporting, wire>>

-----------------------------------------------------------------------------
(* Unconfirmed PDUs of other goroutines: SendUnconfirmed is hold, then     *)
(* enqueue, and a request may begin or end between the two.  Reports of a  *)
(* block are sent under its mutex, one at a time.                          *)

ReportHold ==
  /\ report = 0 /\ made < MaxReports
  /\ made' = made + 1
  /\ IF sc.inReq
     THEN /\ sc' = [sc EXCEPT !.after = Append(@, PDU("report", made + 1))]
          /\ held' = [held EXCEPT ![made + 1] = sc.cur]
          /\ UNCHANGED report
     ELSE /\ report' = made + 1
          /\ UNCHANGED <<sc, held>>
  /\ UNCHANGED <<reqs, queue, conn, pump, deferrals, terms, refused, wire>>

(* Faulty variants: a full queue is not reported to the sender; the queue  *)
(* is not looked at for being closed.                                      *)
ReportEnqueueSilent ==
  /\ report # 0
  /\ queue' = IF Accepts THEN Append(queue, PDU("report", report)) ELSE queue
  /\ report' = 0
  /\ UNCHANGED <<reqs, sc, conn, pump, deferrals, terms, made, refused, held, wire>>
ReportEnqueueUnchecked ==
  /\ report # 0
  /\ queue' = IF Len(queue) < QueueCap THEN Append(queue, PDU("report", report)) ELSE queue
  /\ refused' = IF Len(queue) < QueueCap THEN refused ELSE refused \cup {report}
  /\ report' = 0
  /\ UNCHANGED <<reqs, sc, conn, pump, deferrals, terms, made, held, wire>>

ReportEnqueue ==
  /\ report # 0
  /\ queue' = IF Accepts THEN Append(queue, PDU("report", report)) ELSE queue
  /\ refused' = IF Accepts THEN refused ELSE refused \cup {report}
  /\ report' = 0
  /\ UNCHANGED <<reqs, sc, conn, pump, deferrals, terms, made, held, wire>>

(* The application, or the operate timeout, ends a deferred operate:       *)
(* termination.finish sends once.                                          *)
TermHold(r) ==
  /\ r \in owed /\ term = 0
  /\ owed' = owed \ {r}
  /\ IF sc.inReq
     THEN sc' = [sc EXCEPT !.after = Append(@, PDU("termination", r))] /\ UNCHANGED term
     ELSE term' = r /\ UNCHANGED sc
  /\ UNCHANGED <<reqs, queue, conn, pump, deferrals, reporting, wire>>

TermEnqueue ==
  /\ term # 0
  /\ queue' = IF Accepts THEN Append(queue, PDU("termination", term)) ELSE queue
  /\ term' = 0
  /\ UNCHANGED <<reqs, sc, conn, pump, deferrals, owed, reporting, wire>>

(* Faulty variant: the pump ends with the first empty queue.               *)
PumpImpatient ==
  /\ pump
  /\ IF queue # <<>>
     THEN wire' = Written(<<Head(queue)>>) /\ queue' = Tail(queue) /\ pump' = ~down
     ELSE pump' = FALSE /\ UNCHANGED <<queue, wire>>
  /\ UNCHANGED <<reqs, sc, conn, deferrals, terms, reporting>>

(* pumpUnconfirmed: writes in order; ends with a failed write, or with the *)
(* closed queue drained.                                                   *)
Pump ==
  /\ pump
  /\ IF queue # <<>>
     THEN wire' = Written(<<Head(queue)>>) /\ queue' = Tail(queue) /\ pump' = ~down
     ELSE closed /\ pump' = FALSE /\ UNCHANGED <<queue, wire>>
  /\ UNCHANGED <<reqs, sc, conn, deferrals, terms, reporting>>

-----------------------------------------------------------------------------
(* Deferred requests.  Each runs on its own goroutine and may make a Call  *)
(* of its own to the client, whose answer arrives through Serve.           *)

TaskCalls(r) ==
  /\ task[r] = "run" /\ ~down
  /\ task' = [task EXCEPT ![r] = "call"]
  /\ wire' = Written(<<PDU("call", r)>>)
  /\ UNCHANGED <<reqs, sc, queue, conn, pump, running, cut, terms, reporting>>

(* Call returns: with the client's answer, delivered by Serve (deliverCall *)
(* takes no step of Serve's own), or because its context ended.            *)
CallReturns(r) ==
  /\ task[r] = "call"
  /\ (sc.phase = "read" /\ ~down) \/ r \in cut \/ closed
  /\ task' = [task EXCEPT ![r] = "called"]
  /\ UNCHANGED <<reqs, sc, queue, conn, pump, running, cut, terms, reporting, wire>>

(* fn returns, and its goroutine looks whether the client cancelled it.    *)
TaskReturns(r, result) ==
  /\ task[r] \in {"run", "called"}
  /\ task' = [task EXCEPT ![r] = IF r \in cut /\ ~closed THEN "preempt" ELSE result]
  /\ UNCHANGED <<reqs, sc, queue, conn, pump, running, cut, terms, reporting, wire>>

(* Faulty variant: a cancelled request is not answered.                    *)
TaskSendsNoPreempt(r) ==
  /\ task[r] \in Answers
  /\ wire' = IF task[r] = "preempt" THEN wire ELSE Written(<<PDU(task[r], r)>>)
  /\ task' = [task EXCEPT ![r] = "sent"]
  /\ UNCHANGED <<reqs, sc, queue, conn, pump, running, cut, terms, reporting>>

TaskSends(r) ==
  /\ task[r] \in Answers
  /\ wire' = Written(<<PDU(task[r], r)>>)
  /\ task' = [task EXCEPT ![r] = "sent"]
  /\ UNCHANGED <<reqs, sc, queue, conn, pump, running, cut, terms, reporting>>

(* The goroutine's deferred function: whatever running names by this       *)
(* identifier now is deleted.                                              *)
TaskEnds(r) ==
  /\ task[r] = "sent"
  /\ running' = [running EXCEPT ![reqs[r].id] = 0]
  /\ task' = [task EXCEPT ![r] = "ended"]
  /\ UNCHANGED <<reqs, sc, queue, conn, pump, cut, terms, reporting, wire>>

(* handleCancel, in its three steps: it looks the request up, cancels it,  *)
(* and answers.  r is the request the client means.                        *)
Cancellable(r) ==
  /\ Cancels
  /\ \A q \in 1..Len(reqs) : reqs[q].id = reqs[r].id => q <= r
  /\ ~In(wire, PDU("cancelled", r)) /\ ~In(wire, PDU("unknown", r))

ReceiveCancel(r) ==
  /\ sc.phase = "read" /\ ~down /\ r \in 1..Len(reqs) /\ Cancellable(r)
  /\ sc' = [sc EXCEPT !.phase = "cancel", !.cur = r, !.found = running[reqs[r].id]]
  /\ UNCHANGED <<reqs, queue, conn, pump, deferrals, terms, reporting, wire>>

Cancel ==
  /\ sc.phase = "cancel"
  /\ cut' = cut \cup ({sc.found} \ {0})
  /\ sc' = [sc EXCEPT !.phase = "reply"]
  /\ UNCHANGED <<reqs, queue, conn, pump, running, task, terms, reporting, wire>>

CancelReply ==
  /\ sc.phase = "reply"
  /\ wire' = Written(<<PDU(IF sc.found # 0 THEN "cancelled" ELSE "unknown", sc.cur)>>)
  /\ sc' = [sc EXCEPT !.phase = Phase("read"), !.cur = 0, !.found = 0]
  /\ UNCHANGED <<reqs, queue, conn, pump, deferrals, terms, reporting>>

-----------------------------------------------------------------------------
(* The peer concludes or aborts, or the transport fails: Serve returns.    *)
ServeEnds ==
  /\ sc.phase = "read"
  /\ sc' = [sc EXCEPT !.phase = "over"]
  /\ UNCHANGED <<reqs, queue, conn, pump, deferrals, terms, reporting, wire>>

TransportFails ==
  /\ ~down /\ down' = TRUE
  /\ UNCHANGED <<reqs, sc, queue, closed, pump, deferrals, terms, reporting, wire>>

(* Close: serveConn calls it once Serve returned, Server.Close and Abort   *)
(* at any time.  The queue is closed and the context ended, then the       *)
(* transport closed.                                                       *)
Close ==
  /\ ~closed /\ closed' = TRUE
  /\ UNCHANGED <<reqs, sc, queue, down, pump, deferrals, terms, reporting, wire>>

CloseTransport ==
  /\ closed /\ ~down /\ down' = TRUE
  /\ UNCHANGED <<reqs, sc, queue, closed, pump, deferrals, terms, reporting, wire>>

Serve ==
  \/ \E kind \in Kinds : Receive(kind)
  \/ \E r \in Requests : ReceiveCancel(r)
  \/ \E out \in {"positive", "error", "nil", "refused", "terminated", "operated", "deferred"} :
       Decide(out)
  \/ EndRequest \/ SendBefore \/ Answer \/ RunDeferred \/ QueueAfter
  \/ Cancel \/ CancelReply \/ ServeEnds

Task(r) ==
  \/ CallReturns(r) \/ TaskSends(r) \/ TaskEnds(r)
  \/ \E result \in {"positive", "error"} : TaskReturns(r, result)

Next ==
  \/ Serve
  \/ \E r \in Requests : Task(r) \/ TaskCalls(r) \/ TermHold(r)
  \/ ReportHold \/ ReportEnqueue \/ TermEnqueue \/ Pump
  \/ TransportFails \/ Close \/ CloseTransport

Spec == Init /\ [][Next]_vars

(* Goroutines that can take a step do: Serve finishes the request in hand, *)
(* handlers and deferred functions return, the pump writes, a sender past  *)
(* hold goes on.  Nothing is assumed of the client.                        *)
Fairness ==
  /\ WF_vars(sc.phase # "read" /\ Serve)
  /\ \A r \in Requests : WF_vars(Task(r))
  /\ WF_vars(ReportEnqueue) /\ WF_vars(TermEnqueue) /\ WF_vars(Pump)
  /\ WF_vars((sc.phase = "over" /\ Close) \/ CloseTransport)
FairSpec == Spec /\ Fairness

-----------------------------------------------------------------------------
PDUs == [k : {"lastApplError", "termination", "report", "call", "cancelled", "unknown"} \cup Answers,
         n : 1..(MaxRequests + MaxReports)]
Conn ==
  [phase : {"read", "handle", "answer", "after", "cancel", "reply", "over"},
   cur : 0..MaxRequests, inReq : BOOLEAN, found : 0..MaxRequests,
   out : {"none", "positive", "error", "nil", "refused", "terminated", "operated", "deferred"},
   before : Seq(PDUs), after : Seq(PDUs), ahead : Seq(PDUs), behind : Seq(PDUs)]

(* Every field has its type, the queue its capacity (server_conn.go:30-70, *)
(* server_ext.go:214-222).                                                 *)
TypeOK ==
  /\ reqs \in Seq([id : Ids, kind : Kinds]) /\ Len(reqs) <= MaxRequests
  /\ sc \in Conn
  /\ queue \in Seq(PDUs) /\ Len(queue) <= QueueCap
  /\ closed \in BOOLEAN /\ down \in BOOLEAN /\ pump \in BOOLEAN
  /\ running \in [Ids -> 0..MaxRequests]
  /\ task \in [Requests -> {"none", "run", "call", "called", "sent", "ended"} \cup Answers]
  /\ cut \subseteq Requests /\ owed \subseteq Requests /\ term \in 0..MaxRequests
  /\ report \in 0..MaxReports /\ made \in 0..MaxReports /\ refused \subseteq Reports
  /\ held \in [Reports -> 0..MaxRequests]
  /\ wire \in Seq(PDUs)

(* A request has at most one answer on the wire, whether it is answered at *)
(* once, deferred, cancelled, or its connection closes under it            *)
(* (server_conn.go:558-571, server_ext.go:80-98).                          *)
AnsweredOnce ==
  \A i, j \in 1..Len(wire) :
    wire[i].k \in Answers /\ wire[j].k \in Answers /\ wire[i].n = wire[j].n => i = j

(* What goes before a response and what goes after it.  The LastApplError  *)
(* of a refused control is on the wire before its negative response        *)
(* (server_conn.go:685-695), and a report made while a request is in hand  *)
(* follows that request's response (server_conn.go:672-676); a deferred    *)
(* response follows its own time.                                          *)
AroundResponse ==
  \A i \in 1..Len(wire) :
    LET before == {wire[j] : j \in 1..(i - 1)}
    IN  /\ wire[i].k = "error" /\ reqs[wire[i].n].kind = "oper" =>
             PDU("lastApplError", wire[i].n) \in before
        /\ wire[i].k = "report" =>
             LET r == held[wire[i].n]
             IN r # 0 /\ reqs[r].kind # "slow" => \E a \in Answers : PDU(a, r) \in before

(* A report made outside any request is written, waiting, or was refused   *)
(* to its sender, who can raise BufOvfl: none disappears while the         *)
(* association lives (server_conn.go:697-713).                             *)
Accounted ==
  \A n \in 1..made :
    held[n] = 0 => \/ In(wire, PDU("report", n)) \/ In(queue, PDU("report", n))
                   \/ report = n \/ n \in refused \/ down

(* No step of any goroutine sends a report before the response it follows, *)
(* or drops one that was made outside a request, and enqueue and Close     *)
(* exclude each other: nothing is sent on the closed queue, which would    *)
(* panic (server_conn.go:672-727).                                         *)
ReportsKept == [][AroundResponse' /\ Accounted' /\ (closed => Len(queue') <= Len(queue))]_vars

(* "Queued behind the response, in order with any earlier reports"         *)
(* (server_conn.go:572): reports go out in the order they were made.       *)
ReportsInOrder ==
  \A i, j \in 1..Len(wire) :
    i < j /\ wire[i].k = "report" /\ wire[j].k = "report" => wire[i].n < wire[j].n

(* Every request received is answered in the end, unless the association   *)
(* ends or its deferred function waits for the client (server_conn.go:     *)
(* 558-571, server_ext.go:80-98).                                          *)
Served ==
  reqs # <<>> ~> down \/ \A r \in 1..Len(reqs) : Answered(r) \/ task[r] = "call"

(* Every queued report is written, unless the association ends.            *)
Delivered ==
  \A n \in Reports : In(queue, PDU("report", n)) ~> In(wire, PDU("report", n)) \/ down
=============================================================================
