----------------------------- MODULE ReportFormat -----------------------------
(***************************************************************************)
(* A report on the wire: what the server lays out (server/reporting.go,    *)
(* reportPDUs and reportElement), segmented to the association's PDU size, *)
(* and what the client reads back by position alone, led by the OptFlds in *)
(* the report itself (client/report.go, decodeReport).                     *)
(*                                                                         *)
(* A field is a pair of its kind and its value; the decoder never looks at *)
(* the kind, so a field read at the wrong place shows.  Sizes are counted  *)
(* in units: one for a field, and Weight[m] for member m's value.          *)
(***************************************************************************)
EXTENDS Naturals, Sequences, FiniteSets, SequencesExt

CONSTANTS Members,  \* the number of data set members
          Weight,   \* the size of each member's value
          MaxPDUs,  \* maximum PDU sizes, 0 for no limit
          OptFlds   \* the optional-field requests a client may write

ReportFormatAssumption == Members \in Nat \ {0} /\ Weight \in Seq(Nat) /\ Len(Weight) = Members /\ MaxPDUs \subseteq Nat

VARIABLES job,  \* the report to send: requested OptFlds, block, included members, PDU size
          wire, \* the PDUs under way
          got   \* the reports decoded

vars == <<job, wire, got>>

AllOptFlds == {"SeqNum", "TimeOfEntry", "ReasonCode", "DataSetName", "DataRef", "BufOvfl", "EntryID", "ConfRev", "Segmentation"}

Init ==
  /\ job \in [opt : OptFlds, buffered : BOOLEAN, members : (SUBSET (1..Members)) \ {{}}, max : MaxPDUs]
  /\ wire = <<>> /\ got = <<>>

(* Faulty variant: the flags are echoed as the client asked for them.      *)
EffectiveOptFldsAsked(opt, buffered) == opt

(* The fields the report will really carry: segmentation is the server's   *)
(* to set, and an overflow flag and EntryID belong to buffered blocks.     *)
EffectiveOptFlds(opt, buffered) ==
  (opt \ {"Segmentation"}) \ (IF buffered THEN {} ELSE {"BufOvfl", "EntryID"})

When(cond, fields) == IF cond THEN fields ELSE <<>>

(* The included members, in data set order.                                *)
Included(j) == SetToSortSeq(j.members, LAMBDA a, b : a < b)

(* reportElement: the fields of members from+1 to to, as segment sub.      *)
ReportElement(j, from, to, segmented, sub, more) ==
  LET eff == EffectiveOptFlds(j.opt, j.buffered)
      opt == IF segmented THEN eff \cup {"Segmentation"} ELSE eff
      mem == SubSeq(Included(j), from + 1, to)
      Each(kind) == [k \in 1..Len(mem) |-> <<kind, mem[k]>>]
      known == SelectSeq(Each("Ref"), LAMBDA f : f[2] <= Members)
  IN  <<<<"RptID", 0>>, <<"OptFlds", opt>>>>
      \o When("SeqNum" \in opt, <<<<"SeqNum", 0>>>>)
      \o When("TimeOfEntry" \in opt, <<<<"TimeOfEntry", 0>>>>)
      \o When("DataSetName" \in opt, <<<<"DataSetName", 0>>>>)
      \o When("BufOvfl" \in opt, <<<<"BufOvfl", 0>>>>)
      \o When("EntryID" \in opt, <<<<"EntryID", 0>>>>)
      \o When("ConfRev" \in opt, <<<<"ConfRev", 0>>>>)
      \o When(segmented, <<<<"SubSeqNum", sub>>, <<"MoreFollows", more>>>>)
      \o <<<<"Inclusion", {mem[k] : k \in 1..Len(mem)}>>>>
      \o When("DataRef" \in opt, known)
      \o Each("Value")
      \o When("ReasonCode" \in opt, Each("Reason"))

Size(fields) ==
  FoldSeq(LAMBDA f, n : n + (IF f[1] = "Value" THEN Weight[f[2]] ELSE 1), 0, fields)

Fits(j, fields) == j.max = 0 \/ Size(fields) <= j.max

(* The longest run of members from on that fits, and one at least.         *)
RunEnd(j, from, sub) ==
  LET n == Cardinality(j.members)
      ends == {to \in (from + 1)..n :
                 \A t \in (from + 2)..to : Fits(j, ReportElement(j, from, t, TRUE, sub, TRUE))}
  IN  CHOOSE to \in ends : \A t \in ends : t <= to

RECURSIVE Segments(_, _, _)
Segments(j, from, sub) ==
  LET n  == Cardinality(j.members)
      to == RunEnd(j, from, sub)
  IN  IF from >= n THEN <<>>
      ELSE <<ReportElement(j, from, to, TRUE, sub, to < n)>> \o Segments(j, to, sub + 1)

(* reportPDUs: whole when it fits, in segments otherwise.                  *)
ReportPDUs(j) ==
  LET whole == ReportElement(j, 0, Cardinality(j.members), FALSE, 0, FALSE)
  IN  IF Fits(j, whole) THEN <<whole>> ELSE Segments(j, 0, 0)

(* decodeReport: each optional field the flags announce is the next value. *)
DecodeReport(v) ==
  LET opt == v[2][2]
      order == SelectSeq(<<"SeqNum", "TimeOfEntry", "DataSetName", "BufOvfl", "EntryID", "ConfRev">>, LAMBDA f : f \in opt)
      seg  == "Segmentation" \in opt
      at   == 2 + Len(order) + (IF seg THEN 2 ELSE 0) + 1
      Nth(n) == IF n <= Len(v) THEN v[n] ELSE <<"nil", 0>>
      idx  == SetToSortSeq(IF Nth(at)[1] = "Inclusion" THEN Nth(at)[2] ELSE {}, LAMBDA a, b : a < b)
      refs == at + (IF "DataRef" \in opt THEN Len(idx) ELSE 0)
  IN  [fields  |-> [k \in 1..Len(order) |-> <<order[k], Nth(2 + k)[1]>>],
       sub     |-> IF seg THEN Nth(at - 2) ELSE <<"SubSeqNum", 0>>,
       more    |-> IF seg THEN Nth(at - 1) ELSE <<"MoreFollows", FALSE>>,
       entries |-> [k \in 1..Len(idx) |->
                      [index |-> idx[k], value |-> Nth(refs + k),
                       reason |-> IF "ReasonCode" \in opt THEN Nth(refs + Len(idx) + k) ELSE <<"Reason", idx[k]>>]]]

(* transmitLocked sends them in order; the reader decodes each as it comes.*)
Transmit ==
  /\ wire = <<>> /\ got = <<>>
  /\ wire' = ReportPDUs(job)
  /\ UNCHANGED <<job, got>>

Decode ==
  /\ wire # <<>>
  /\ got' = Append(got, DecodeReport(Head(wire)))
  /\ wire' = Tail(wire)
  /\ UNCHANGED job

Next == Transmit \/ Decode
Spec == Init /\ [][Next]_vars

(* What the client decodes is what the server reported: every optional     *)
(* field is read where it was put, each included member has its own value  *)
(* and reason, and the segments of one report are numbered from zero, say  *)
(* which is the last and cover the members once and in order, whatever     *)
(* fields were asked for and however small the PDU (reportPDUs,            *)
(* decodeReport).                                                          *)
ReportsDecode ==
  /\ \A i \in 1..Len(got) :
       /\ \A k \in 1..Len(got[i].fields) : got[i].fields[k][1] = got[i].fields[k][2]
       /\ \A k \in 1..Len(got[i].entries) :
            LET e == got[i].entries[k] IN e.value = <<"Value", e.index>> /\ e.reason = <<"Reason", e.index>>
       /\ got[i].sub = <<"SubSeqNum", i - 1>>
       /\ got[i].more = <<"MoreFollows", wire # <<>> \/ i < Len(got)>>
  /\ (got # <<>> /\ wire = <<>>) =>
       LET all == FlattenSeq([i \in 1..Len(got) |-> [k \in 1..Len(got[i].entries) |-> got[i].entries[k].index]])
       IN  all = Included(job)
===============================================================================
