---------------------------- MODULE MCAssociation ----------------------------
(***************************************************************************)
(* What lives and ends with an association, model checked side by side:    *)
(* the reservation of a report control block (ReportControl, extended),    *)
(* the selection of a control object (Control), the requests of a client   *)
(* (ClientConn) and the keys of the end-to-end security (E2EAssociation),  *)
(* instantiated.  The first state chooses the part that runs and the       *)
(* others stay in an initial state of theirs.                              *)
(***************************************************************************)
EXTENDS MCReportControl

CONSTANTS
  Nums, NoNum, CtlModels, OperTimeout, MaxOps,    \* of Control
  MaxCalls, MaxCancels, Secure                    \* of ClientConn

VARIABLES part,
          ctlModel, sel, served, new, ops, busy, stVal, actor,
          conn, call, told, pending, ch, canc, cch, wlock, raw, wire, server, reader, closer,
          clock, back, a, sent, owed, up, closing, sends, asks, carried, refused

AllModels == {"undeclared", "status", "direct", "sbo", "directEnh", "sboEnh"}

CO == INSTANCE Control WITH open <- served
CC == INSTANCE ClientConn
EA == INSTANCE E2EAssociation WITH
        Freshness <- 1, RekeyInterval <- 2, RekeyRequest <- 1, MaxMessagesPerKey <- 1,
        Overdue <- 1, Skew <- 1, MaxTime <- 1, MaxBack <- 0, MaxSends <- 1, MaxAsks <- 1

ASSUME Assumptions == CO!ControlAssumption /\ CC!ClientConnAssumption /\ EA!E2EAssociationAssumption

coVars == <<ctlModel, sel, served, new, ops, busy, stVal, actor>>
ccVars == <<conn, call, told, pending, ch, canc, cch, wlock, raw, wire, server, reader, closer>>
eaVars == <<clock, back, a, sent, owed, up, closing, sends, asks, carried, refused>>
mcVars == <<part, vars, coVars, ccVars, eaVars>>

MCInit ==
  /\ part \in {"ReportControl", "Control", "ClientConn", "E2EAssociation"}
  /\ Init /\ (part # "ReportControl" => attr.datSet = NoDataSet /\ attr.intgPd = 0)
  /\ CC!Init /\ EA!Init
  /\ CO!Init /\ (part # "Control" => ctlModel = "direct")

Part(A) == part = "ReportControl" /\ A /\ UNCHANGED <<part, coVars, ccVars, eaVars>>
COPart(A) == part = "Control" /\ A /\ UNCHANGED <<part, vars, ccVars, eaVars>>
CCPart(A) == part = "ClientConn" /\ A /\ UNCHANGED <<part, vars, coVars, eaVars>>
EAPart(A) == part = "E2EAssociation" /\ A /\ UNCHANGED <<part, vars, coVars, ccVars>>

MCNext == Part(Next) \/ COPart(CO!Next) \/ CCPart(CC!Next) \/ EAPart(EA!Next)

(* The fairness of the part that runs: timers expire and goroutines that   *)
(* can take a step do.  The parts never run together, so fairness of a     *)
(* disjunction of steps of different parts is fairness of each of them.    *)
MCFairSpec ==
  /\ MCInit /\ [][MCNext]_mcVars
  /\ WF_mcVars(\/ Part(ResvTimer(1)) \/ COPart(1 <= Len(ops) /\ CO!OperTimer(1))
               \/ CCPart(CC!CallerRuns(1)) \/ EAPart(EA!Reads("client")))
  /\ WF_mcVars(\/ Part(ResvTimer(2)) \/ COPart(2 <= Len(ops) /\ CO!OperTimer(2))
               \/ CCPart(CC!CancelRuns(1)) \/ EAPart(EA!Reads("server")))
  /\ WF_mcVars(COPart(CO!HandlerReturns) \/ CCPart(CC!ReaderStep) \/ EAPart(EA!Respond))
  /\ WF_mcVars(CCPart(CC!CloserRuns) \/ EAPart(EA!RekeyLoop))

------------------------------------------------------------------------------
(* The properties of the parts, each explained in full where it is         *)
(* defined; SubscriberHolds, NoTakeover and NoStaleTimer are those of      *)
(* ReportControl.                                                          *)

(* The control service implements select-before-operate (select.go,        *)
(* control.go).                                                            *)
ImplementsSBO == CO!ImplementsSBO

(* Selections are held by connected clients only and ended by nobody else, *)
(* and an operate is terminated once if it was accepted with enhanced      *)
(* security and never otherwise (control.go:282-355, select.go:105-141);   *)
(* what fails with an association is told the first cause of its end       *)
(* (mms/conn.go, failAll).                                                 *)
EndsOnce ==
  [][/\ part = "Control" => CO!HolderIsOpen' /\ CO!TerminatedOnce' /\ CO!NotStolen
     /\ part = "ClientConn" => CC!KeepsCause]_mcVars

(* What is waited for comes, in each of the parts: the reservation of an   *)
(* absent client ends (ReservationEnds); an accepted operate of enhanced   *)
(* security is terminated (Terminates); once an association has ended its  *)
(* outstanding requests return and so does Close (OutstandingFail); a      *)
(* rekey that is wanted is started and one started is acknowledged, unless *)
(* the association ends (RekeyDone).                                       *)
Awaited(t) ==
  CASE part = "ReportControl" -> rv.resvTimer = t
    [] part = "Control"       -> t <= Len(ops) /\ ops[t].accept /\ CO!Enhanced
    [] part = "ClientConn"    -> t = 1 /\ conn.state # "connected"
    [] OTHER                  -> IF t = 1 THEN a["client"].rekeyWanted ELSE a["client"].rekeyOut
Comes(t) ==
  CASE part = "ReportControl" -> rv.resvTimer # t
    [] part = "Control"       -> t <= Len(ops) /\ ops[t].sent = 1
    [] part = "ClientConn"    -> call[1] \in {"none", "done"} /\ closer.pc \in {"none", "done"}
    [] OTHER                  -> \/ ~EA!Sealing("client")
                                 \/ t = 1 /\ (a["client"].rekeyOut \/ closing # "open")
                                 \/ t = 2 /\ (~a["client"].rekeyOut \/ ~EA!Sealing("server"))
WaitsEnd == \A t \in {1, 2} : Awaited(t) ~> Comes(t)
==============================================================================
