---------------------------- MODULE ClientReports ----------------------------
(***************************************************************************)
(* Subscribing to a report control block (client/report.go): the writes    *)
(* EnableReporting and Disable make one after the other, the handler they  *)
(* register, and the reports that reach the callback, over associations    *)
(* that carry responses and reports in order (mms/report.go).              *)
(*                                                                         *)
(* The block is the one of server/reporting.go with what decides a write:  *)
(* who holds it and whether it is enabled.  Several clients run the same   *)
(* code on the same block.  A caller's context may end at any moment: the  *)
(* server still performs a write that is outstanding, and nothing more is  *)
(* sent under that context (Conn.send).                                    *)
(***************************************************************************)
EXTENDS Naturals, Sequences, FiniteSets

CONSTANTS Clients,   \* associations, each with a client that subscribes
          Nobody,    \* no client
          Buffered,  \* the block is a BRCB
          MaxReports,\* reports the server sends
          MaxEnables \* EnableReporting calls made

ClientReportsAssumption ==
  Nobody \notin Clients /\ Buffered \in BOOLEAN /\ MaxReports \in Nat /\ MaxEnables \in Nat

VARIABLES cl,    \* per client: pc, the writes still to make, its handler, what the callback got
          rcb,   \* the server's block: owner, enabled
          to,    \* per client, requests under way to the server
          from,  \* per client, responses and reports under way to the client
          sent,  \* per client, reports sent to it since the block was enabled for it
          count  \* reports sent and enables made so far

vars == <<cl, rcb, to, from, sent, count>>

TypeOK ==
  /\ \A c \in Clients : cl[c].pc \in {"idle", "enabling", "releasing", "live", "disabling"} /\ cl[c].left \in {"", "held", "on"}
  /\ rcb.owner \in Clients \cup {Nobody} /\ rcb.enabled \in BOOLEAN

Init ==
  /\ cl = [c \in Clients |-> [pc |-> "idle", todo |-> <<>>, handler |-> FALSE, got |-> <<>>, id |-> 0, res |-> "", left |-> ""]]
  /\ rcb = [owner |-> Nobody, enabled |-> FALSE]
  /\ to = [c \in Clients |-> <<>>] /\ from = [c \in Clients |-> <<>>]
  /\ sent = [c \in Clients |-> <<>>]
  /\ count = [reports |-> 0, enables |-> 0]

(* The writes of EnableReporting: an unbuffered block is reserved first;   *)
(* Settings stands for BufTm, OptFlds, TrgOps and IntgPd, a buffered block *)
(* may be resynchronised, and the handler is registered before RptEna.     *)
EnableWrites == IF Buffered THEN <<"Settings", "EntryID", "RptEna+">> ELSE <<"Resv+", "Settings", "RptEna+">>
DisableWrites == IF Buffered THEN <<"RptEna-">> ELSE <<"RptEna-", "Resv-">>

(* History: what a call that ended early may have left behind on the       *)
(* server, the block reserved ("held") or enabled ("on"), and what the     *)
(* write w, once it is made, takes back of it.                             *)
Undone(left, w) ==
  CASE w = "RptEna-" /\ left = "on" -> "held"
    [] w = "Resv-" /\ left = "held" -> ""
    [] OTHER -> left
Reserved(left) == IF left = "on" THEN "on" ELSE "held"

(* writeRCB: one write, and the wait for its result, told by invoke        *)
(* identifier from the result of a write its caller has left.              *)
WriteNext(c, pc, writes, handler) ==
  /\ cl' = [cl EXCEPT ![c].pc = pc, ![c].todo = writes, ![c].handler = handler, ![c].id = @ + 1, ![c].res = "",
                      ![c].left = Undone(@, Head(writes))]
  /\ to' = [to EXCEPT ![c] = Append(@, <<Head(writes), cl[c].id + 1>>)]

EnableReporting(c) ==
  /\ cl[c].pc = "idle" /\ count.enables < MaxEnables
  /\ count' = [count EXCEPT !.enables = @ + 1]
  /\ cl' = [cl EXCEPT ![c].pc = "enabling", ![c].todo = EnableWrites, ![c].got = <<>>, ![c].id = @ + 1]
  /\ to' = [to EXCEPT ![c] = Append(@, <<Head(EnableWrites), cl[c].id + 1>>)]
  /\ UNCHANGED <<rcb, from, sent>>

Return(c, left) ==
  cl' = [cl EXCEPT ![c].pc = "idle", ![c].todo = <<>>, ![c].handler = FALSE, ![c].res = "", ![c].left = left]

(* Disable takes the handler away first; under a context that has ended    *)
(* it writes nothing.                                                      *)
Disable(c) ==
  /\ cl[c].pc = "live"
  /\ \/ WriteNext(c, "disabling", DisableWrites, FALSE)
     \/ Return(c, "on") /\ UNCHANGED to
  /\ UNCHANGED <<rcb, from, sent, count>>

------------------------------------------------------------------------------
(* The server performs the writes of an association in order               *)
(* (checkRCBWrite, onRCBWrite); it may refuse a value, or to enable a      *)
(* block whose data set it does not find.                                  *)

Allowed(c, w) ==
  /\ rcb.owner \in {c, Nobody}
  /\ w \in {"RptEna+", "Settings", "EntryID", "Resv-"} => ~rcb.enabled

Effect(c, w) ==
  CASE w = "Resv-"   -> [rcb EXCEPT !.owner = Nobody]
    [] w = "RptEna+" -> [owner |-> c, enabled |-> TRUE]
    [] w = "RptEna-" -> [owner |-> c, enabled |-> FALSE]
    [] OTHER         -> [rcb EXCEPT !.owner = c]

ServeWrite(c) ==
  /\ to[c] # <<>>
  /\ to' = [to EXCEPT ![c] = Tail(@)]
  /\ \E fits \in BOOLEAN :
     LET w  == Head(to[c])[1]
         ok == Allowed(c, w) /\ fits
     IN  /\ fits \/ w \in {"Settings", "EntryID", "RptEna+"}
         /\ rcb' = IF ok THEN Effect(c, w) ELSE rcb
         /\ from' = [from EXCEPT ![c] = Append(@, <<IF ok THEN "ok" ELSE "refused", Head(to[c])[2]>>)]
         /\ sent' = IF ok /\ w = "RptEna+" THEN [sent EXCEPT ![c] = <<>>] ELSE sent
  /\ UNCHANGED <<cl, count>>

(* The block reports to the client that enabled it.                        *)
SendReport ==
  /\ rcb.enabled /\ count.reports < MaxReports
  /\ LET c == rcb.owner
         n == count.reports + 1
     IN  /\ count' = [count EXCEPT !.reports = n]
         /\ sent' = [sent EXCEPT ![c] = Append(@, n)]
         /\ from' = [from EXCEPT ![c] = Append(@, <<"report", n>>)]
  /\ UNCHANGED <<cl, rcb, to>>

------------------------------------------------------------------------------
(* The client's reader.                                                    *)

(* handleUnconfirmed: the handlers registered at that moment get it.       *)
HandleReport(c) ==
  /\ from[c] # <<>> /\ Head(from[c])[1] = "report"
  /\ from' = [from EXCEPT ![c] = Tail(@)]
  /\ cl' = IF cl[c].handler THEN [cl EXCEPT ![c].got = Append(@, Head(from[c])[2])] ELSE cl
  /\ UNCHANGED <<rcb, to, sent, count>>

(* A result reaches the channel of the write it answers; one whose caller  *)
(* has left is discarded.                                                  *)
Deliver(c) ==
  /\ from[c] # <<>> /\ Head(from[c])[1] # "report"
  /\ from' = [from EXCEPT ![c] = Tail(@)]
  /\ cl' = IF cl[c].todo # <<>> /\ Head(from[c])[2] = cl[c].id THEN [cl EXCEPT ![c].res = Head(from[c])[1]] ELSE cl
  /\ UNCHANGED <<rcb, to, sent, count>>

------------------------------------------------------------------------------
(* The caller of EnableReporting or Disable, when its write has a result.  *)
Result(c, r) == cl[c].res = r /\ UNCHANGED <<from, rcb, sent, count>>

(* Faulty variant: the handler is registered once the block is enabled.    *)
EnabledNextLate(c) ==
  /\ cl[c].pc = "enabling" /\ Len(cl[c].todo) > 1
  /\ Result(c, "ok")
  /\ WriteNext(c, "enabling", Tail(cl[c].todo), FALSE)

(* The next write of EnableReporting, the handler before the last.         *)
EnabledNext(c) ==
  /\ cl[c].pc = "enabling" /\ Len(cl[c].todo) > 1
  /\ Result(c, "ok")
  /\ WriteNext(c, "enabling", Tail(cl[c].todo), Tail(cl[c].todo) = <<"RptEna+">>)

Enabled(c) ==
  /\ cl[c].pc = "enabling" /\ Len(cl[c].todo) = 1
  /\ Result(c, "ok")
  /\ cl' = [cl EXCEPT ![c].pc = "live", ![c].todo = <<>>, ![c].handler = TRUE, ![c].res = ""]
  /\ UNCHANGED to

(* EnableReporting ends at the write at, which failed: without its         *)
(* handler, and giving the reservation up if it had been made (releaseRCB, *)
(* which has a context of its own).                                        *)
Fail(c, at, left) ==
  IF ~Buffered /\ at # "Resv+"
  THEN /\ cl' = [cl EXCEPT ![c].pc = "releasing", ![c].todo = <<"Resv-">>, ![c].handler = FALSE,
                           ![c].id = @ + 1, ![c].res = "", ![c].left = Undone(left, "Resv-")]
       /\ to' = [to EXCEPT ![c] = Append(@, <<"Resv-", cl[c].id + 1>>)]
  ELSE Return(c, left) /\ UNCHANGED to

EnableRefused(c) ==
  cl[c].pc = "enabling" /\ Result(c, "refused") /\ Fail(c, Head(cl[c].todo), cl[c].left)

(* The context ends while a write is outstanding, or between two writes:   *)
(* the second is then not sent.                                            *)
EnableLeft(c) ==
  /\ cl[c].pc = "enabling"
  /\ LET at == Head(cl[c].todo)
         l  == cl[c].left
     IN  \/ Fail(c, at, CASE at = "Resv+" -> Reserved(l) [] at = "RptEna+" -> "on" [] OTHER -> l)
         \/ cl[c].res = "ok" /\ Len(cl[c].todo) > 1 /\ Fail(c, cl[c].todo[2], l)
  /\ UNCHANGED <<rcb, from, sent, count>>

(* Disable and releaseRCB go on whatever a write returns.                  *)
Finish(c) ==
  /\ cl[c].pc \in {"disabling", "releasing"}
  /\ Result(c, "ok") \/ Result(c, "refused")
  /\ IF Len(cl[c].todo) > 1 THEN WriteNext(c, cl[c].pc, Tail(cl[c].todo), FALSE)
     ELSE Return(c, cl[c].left) /\ UNCHANGED to

(* Their context ends: the writes still to make are not sent.              *)
FinishLeft(c) ==
  /\ cl[c].pc \in {"disabling", "releasing"}
  /\ Return(c, IF Len(cl[c].todo) > 1 THEN Reserved(cl[c].left) ELSE cl[c].left)
  /\ UNCHANGED <<rcb, to, from, sent, count>>

Next ==
  \/ \E c \in Clients :
       \/ EnableReporting(c) \/ Disable(c) \/ ServeWrite(c) \/ HandleReport(c)
       \/ EnabledNext(c) \/ Enabled(c) \/ EnableRefused(c) \/ EnableLeft(c) \/ Finish(c) \/ FinishLeft(c) \/ Deliver(c)
  \/ SendReport

Spec == Init /\ [][Next]_vars

------------------------------------------------------------------------------
Quiet(c) == cl[c].pc = "idle" /\ to[c] = <<>> /\ from[c] = <<>>
Reports(c) == SelectSeq(from[c], LAMBDA m : m[1] = "report")

(* A live subscription has got, in order, every report sent since it was   *)
(* enabled, but for those still under way, the ones sent before            *)
(* EnableReporting returned included.  And once its client's calls have    *)
(* ended and are answered, a block is enabled for it only if the context   *)
(* of an EnableReporting ended while RptEna was outstanding or that of a   *)
(* Disable before it was written, and an unbuffered one is reserved by it  *)
(* only if it is enabled so, or the context of an EnableReporting ended    *)
(* while Resv was outstanding, or that of a Disable before Resv was        *)
(* written; until a later call of the client makes those writes            *)
(* (EnableReporting, Disable, releaseRCB).                                 *)
SubscriptionWhole ==
  \A c \in Clients :
    /\ cl[c].pc = "live" => sent[c] = cl[c].got \o [i \in 1..Len(Reports(c)) |-> Reports(c)[i][2]]
    /\ Quiet(c) /\ rcb.owner = c =>
         /\ rcb.enabled => cl[c].left = "on"
         /\ ~Buffered => cl[c].left # ""

(* What client/report.go says instead, and the cases above refute: "if     *)
(* enabling then fails, the reservation is released again" (141-142), and  *)
(* Disable "releases the reservation EnableReporting took" (221-222).      *)
ReleasedAgain == ~Buffered => \A c \in Clients : Quiet(c) => rcb.owner # c
==============================================================================
