------------------------------- MODULE MCClient -------------------------------
(***************************************************************************)
(* What a client and a server tell each other, model checked side by side: *)
(* an unbuffered block configured for one client (ReportControl, which is  *)
(* extended), and, instantiated, a client's subscription and its requests, *)
(* its commands, the model it retrieves, the encoding of what is sent, and *)
(* the tracking of services.  The first state chooses the part that runs   *)
(* and the others stay in an initial state of theirs, so the state spaces  *)
(* add up instead of multiplying.                                          *)
(***************************************************************************)
EXTENDS MCReportControl, MmsValue, SequencesExt

VARIABLES part,
          cl, rcb, to, from, sent, count,
          conn, call, told, pending, ch, canc, cch, wlock, raw, wire, server, reader, closer,
          hd, waiters, tch, last, asked, queue, sel, runs, verdict, heard, next, seq,
          ld, names, seen, tree, dir, probe,
          item, pc, octets, whole, out,
          tracker, blk, trk, mu, items, held, changes, cmds, terms, owed, tracked, reported

-------------------------------------------------------------------------------
(* Logical devices: a data object of up to two attributes and two          *)
(* sub-objects, beside one of two constraints and the control blocks; the  *)
(* type of an attribute may be one the library does not know.              *)
FCorder == <<"ST", "CF", "RP", "SP">>
Leaf(n, fc, k) == [name |-> n, fc |-> fc, known |-> k, kids |-> <<>>]
Branch(n, fc, k) == [Leaf(n, fc, TRUE) EXCEPT !.kids = <<Leaf("x", fc, TRUE), Leaf("y", fc, k)>>]
Attrs(n, ks) == {<<f>> : f \in {Leaf(n, fc, k) : fc \in {"ST", "CF"}, k \in ks}
                             \cup {Branch(n, "ST", k) : k \in ks}}
Object(n, attrs, subs) == [name |-> n, attrs |-> attrs, subs |-> subs]
Subs(n) == {<<Object(n, f, <<>>)>> : f \in Attrs("c", BOOLEAN)}
Objects ==
  {Object("Pos", f \o g, s \o t) : f \in {<<>>} \cup Attrs("a", BOOLEAN), g \in {<<>>} \cup Attrs("b", {TRUE}),
                                   s \in {<<>>} \cup Subs("s"), t \in {<<>>} \cup Subs("t")}
LogicalDevices ==
  {<<[name |-> "GGIO1", objs |-> <<Object("Beh", <<Leaf("stVal", "ST", TRUE), Leaf("d", "SP", TRUE)>>, <<>>), o>>],
     [name |-> "LLN0", objs |-> <<Object("urcb01", <<Leaf("RptID", "RP", TRUE), Leaf("RptEna", "RP", TRUE)>>, <<>>),
                                  Object("SGCB", <<Leaf("ActSG", "SP", TRUE)>>, <<>>)>>]>> :
     o \in {x \in Objects : x.attrs # <<>> \/ x.subs # <<>>}}

(* Values at the boundaries of the lengths and of the integer sizes, and   *)
(* some that nest.                                                         *)
Zero(n) == [i \in 1..n |-> 0]
Ints == {0, 1, 127, 128, 255, 256, 32767, 32768, 65535, 8388607, 8388608, 16777216, 2147483647}
Negatives == {-1, -128, -129, -32768, -32769, -8388609, -2147483647}
Plain ==
  {NewNum("integer", n) : n \in Ints \cup Negatives}
  \cup {NewNum("unsigned", n) : n \in Ints} \cup {NewNum("data-access-error", n) : n \in {0, 2, 11, 127, 128, 255}}
  \cup {NewNum("boolean", b) : b \in {0, 1}}
  \cup {NewBitStringBits(<<165, 255>>, n) : n \in {0, 1, 7, 8, 9, 13, 16, 17}}
  \cup {NewBytes("octet-string", Zero(n)) : n \in {0, 1, 127, 128, 255, 256}}
  \cup {NewBytes(t, b) : t \in {"visible-string", "mms-string", "generalized-time"}, b \in {<<>>, <<65>>}}
  \cup {NewBytes("float32", <<64, 73, 15, 219>>), NewBytes("float64", <<64, 9, 33, 251, 84, 68, 45, 24>>),
        NewBytes("binary-time", <<0, 1, 2, 3>>), NewBytes("binary-time", <<0, 1, 2, 3, 0, 9>>),
        NewBytes("utc-time", <<1, 2, 3, 4, 5, 6, 7, 138>>)}
Small == {NewNum("integer", -129), NewNum("unsigned", 128), NewNum("data-access-error", 2),
          NewBitStringBits(<<160>>, 3), NewBytes("octet-string", Zero(124)), NewKids("structure", <<>>)}
Inner == {NewKids(t, <<v>>) : t \in {"array", "structure"}, v \in Small}
MCValues ==
  Plain \cup {NewKids("structure", <<v, w>>) : v \in Small \cup Inner, w \in Small}
  \cup {NewKids("array", <<v, v>>) : v \in Inner}
  \cup {NewKids("structure", <<NewKids("array", <<NewKids("structure", <<NewNum("boolean", 1)>>)>>)>>)}

T(k, s) == TypeSpec(k, s, 0, <<>>)
Named(n, t) == [name |-> n, spec |-> t]
Arr(n, t) == TypeSpec("array", 0, n, <<Named(<<>>, t)>>)
Rec(comps) == TypeSpec("structure", 0, 0, comps)
PlainTypes ==
  {T("boolean", 0), T("bit-string", -13), T("bit-string", 2), T("integer", 32), T("integer", 128), T("unsigned", 8),
   T("float32", 0), T("float64", 0), T("octet-string", -64), T("visible-string", -129), T("visible-string", 255),
   T("generalized-time", 0), T("binary-time", 0), T("mms-string", -255), T("utc-time", 0)}
MCTypes ==
  PlainTypes
  \cup {Rec(<<Named(<<97>>, t), Named(<<98, 99>>, u)>>) : t \in PlainTypes, u \in {T("boolean", 0), T("bit-string", -13)}}
  \cup {Arr(n, t) : n \in 0..5, t \in {T("float32", 0), Rec(<<>>), Arr(2, T("boolean", 0)), Arr(3, T("boolean", 0)),
                                       Rec(<<Named(<<97>>, T("boolean", 0)), Named(<<98>>, T("utc-time", 0))>>)}}
  \cup {Rec(<<Named(<<97>>, Arr(2, T("integer", 16))), Named(<<98>>, Arr(3, Arr(1, T("boolean", 0))))>>)}
Steps == [component : {<<97>>, <<99, 86>>}, index : {0}] \cup [component : {<<>>}, index : {0, 9, 128, 256}]
MCAccesses == [1..1 -> Steps] \cup [1..2 -> Steps] \cup [1..3 -> Steps]
MCIdentifiers == {<<1, 0, 9506, 2, 3>>, <<2, 1, 1>>, <<1, 3, 9999, 1, 1>>, <<0, 39>>, <<1, 39>>,
                  <<2, 999, 127, 128, 16383, 16384>>, <<1, 2, 2097151, 2097152, 268435455, 268435456>>}
(* Tags at the boundaries of the tag forms, contents at those of the       *)
(* length forms.                                                           *)
TagNums == {0, 30, 31, 72, 127, 128, 16383, 16384, 2097151, 2097152, 268435455, 268435456}
OfTag(c, n, l) == [tag |-> [class |-> c, cons |-> FALSE, num |-> n], content |-> Zero(l)]
MCElements ==
  {OfTag(c, n, l) : c \in 1..2, n \in TagNums, l \in {0, 1, 127, 128}} \cup {OfTag(2, 9, l) : l \in {65535, 65536}}

(* Two logical devices of which the second tracks with the first's LTRK    *)
(* what its own does not hold.                                             *)
MCDevices ==
  <<[name |-> "A", trks |-> <<[kind |-> "UrcbTrk", has |-> {"rptEna", "owner"}],
                              [kind |-> "SpcTrk", has |-> {"ctlVal", "respAddCause"}]>>],
    [name |-> "B", trks |-> <<[kind |-> "ApcIntTrk", has |-> {"ctlVal"}]>>]>>
MCControls == {[ld |-> "B", cdc |-> "SPC", enhanced |-> TRUE], [ld |-> "A", cdc |-> "SPC", enhanced |-> FALSE]}

-------------------------------------------------------------------------------
CR == INSTANCE ClientReports WITH Clients <- {1, 2}, Nobody <- 0, Buffered <- FALSE, MaxReports <- 2, MaxEnables <- 3
CC == INSTANCE ClientConn WITH MaxCalls <- 2, MaxCancels <- 1, Secure <- FALSE
CL == INSTANCE ClientControl WITH
        Handles <- {1, 2}, ObjectOf <- <<1, 2>>, Enhanced <- {1}, HasSelect <- {1, 2}, MaxCommands <- 3, CtlNums <- 2,
        told <- heard
DM == INSTANCE DataModel WITH Models <- LogicalDevices, FCs <- FCorder, BlockFCs <- {"RP", "BR"}
MD == INSTANCE MmsData WITH
        MaxDepth <- 16, MaxValueDepth <- 3, MaxArrayElements <- 5, MaxBitStringBits <- 64, MaxDefaultValues <- 12,
        Values <- MCValues, Types <- MCTypes, Accesses <- MCAccesses, Identifiers <- MCIdentifiers,
        Elements <- MCElements, MaxCut <- 300, wire <- octets
ST == INSTANCE ServiceTracking WITH
        Devices <- MCDevices, Controls <- MCControls, Blocks <- {[ld |-> "B", fc |-> "RP"]},
        Clients <- {"c1", "c2"}, MaxItems <- 2, MaxServices <- 2

ASSUME Assumptions ==
  /\ CR!ClientReportsAssumption /\ CC!ClientConnAssumption /\ CL!ClientControlAssumption
  /\ ST!ServiceTrackingAssumption

crVars == <<cl, rcb, to, from, sent, count>>
ccVars == <<conn, call, told, pending, ch, canc, cch, wlock, raw, wire, server, reader, closer>>
clVars == <<hd, waiters, tch, last, asked, queue, sel, runs, verdict, heard, next, seq>>
dmVars == <<ld, names, seen, tree, dir, probe>>
mdVars == <<item, pc, octets, whole, out>>
stVars == <<tracker, blk, trk, mu, items, held, changes, cmds, terms, owed, tracked, reported>>
mcVars == <<part, vars, crVars, ccVars, clVars, dmVars, mdVars, stVars>>

DMRests == ld = <<>> /\ names = <<>> /\ seen = {} /\ tree = {} /\ dir = {} /\ probe = <<>>
MDRests == item = <<>> /\ pc = "built" /\ octets = <<>> /\ whole = TRUE /\ out = <<>>

MCInit ==
  /\ part \in {"ReportControl", "Reports", "Requests", "Commands", "Model", "Data", "Tracking"}
  /\ Init /\ (part # "ReportControl" => attr.datSet = NoDataSet /\ attr.bufTm = 0)
  /\ CR!Init /\ CC!Init /\ CL!Init /\ ST!Init
  /\ IF part = "Model" THEN DM!Init ELSE DMRests
  /\ IF part = "Data" THEN MD!Init ELSE MDRests

MCNext ==
  \/ part = "ReportControl" /\ Next /\ UNCHANGED <<part, crVars, ccVars, clVars, dmVars, mdVars, stVars>>
  \/ part = "Reports" /\ CR!Next /\ UNCHANGED <<part, vars, ccVars, clVars, dmVars, mdVars, stVars>>
  \/ part = "Requests" /\ CC!Next /\ UNCHANGED <<part, vars, crVars, clVars, dmVars, mdVars, stVars>>
  \/ part = "Commands" /\ CL!Next /\ UNCHANGED <<part, vars, crVars, ccVars, dmVars, mdVars, stVars>>
  \/ part = "Model" /\ DM!Next /\ UNCHANGED <<part, vars, crVars, ccVars, clVars, mdVars, stVars>>
  \/ part = "Data" /\ MD!Next /\ UNCHANGED <<part, vars, crVars, ccVars, clVars, dmVars, stVars>>
  \/ part = "Tracking" /\ ST!Next /\ UNCHANGED <<part, vars, crVars, ccVars, clVars, dmVars, mdVars>>

MCSpec == MCInit /\ [][MCNext]_mcVars

-------------------------------------------------------------------------------
(* The properties of the parts, each explained in full where it is         *)
(* defined; ConfiguredStands is ReportControl's own.                       *)

(* A client's subscription gets the reports of its enabling, in order      *)
(* (client/report.go).                                                     *)
SubscriptionWhole == part = "Reports" => CR!SubscriptionWhole

(* A response reaches the request it answers or nobody (mms/conn.go).      *)
NothingOrphaned == part = "Requests" => CC!NothingOrphaned

(* A command is told its own outcome (client/control.go,                   *)
(* client/controlreports.go).                                              *)
OwnVerdict == part = "Commands" => CL!OwnVerdict

(* The model a client retrieves is the server's, and what it reads has the *)
(* shape it was described with (client/model.go, server/access.go).        *)
ModelMirrored == part = "Model" => DM!RetrievedIsModel /\ DM!ReadsAlign

(* What is encoded is decoded, whole or not at all, and sizes given ahead  *)
(* are true (asn1, mms/value_codec.go, mms/typespec.go).                   *)
DecodesAsSent == part = "Data" => MD!DecodesAsSent /\ MD!SizesTrue

(* A tracking object shows the service it recorded last, as it ran         *)
(* (server/tracking.go).                                                   *)
TrackedAsRun == part = "Tracking" => ST!TrackedAsRun
===============================================================================
