----------------------------- MODULE MCReporting -----------------------------
(***************************************************************************)
(* What a server keeps of its process and its settings and how a client    *)
(* gets it back, model checked side by side: the buffer of a report        *)
(* control block (ReportControl, extended), a report on the wire           *)
(* (ReportFormat), the log (Journal) and the setting groups                *)
(* (SettingGroups), instantiated.  The first state chooses the part that   *)
(* runs, one of Parts, and the others stay in an initial state of theirs.  *)
(***************************************************************************)
EXTENDS MCReportControl

CONSTANTS Parts,        \* the parts that run
          lcb1, lcb2,   \* the log control blocks, which are alike
          v1, v2        \* the values of a setting, which are alike

VARIABLES part,
          job, wire, got,
          entries, times, last, clock, range, lcb, read,
          sgm, applied, cb, data, reported, edited

RF == INSTANCE ReportFormat WITH
        Members <- 3, Weight <- <<1, 3, 2>>, MaxPDUs <- {0, 6, 9},
        OptFlds <- SUBSET {"SeqNum", "TimeOfEntry", "ReasonCode", "DataSetName", "DataRef", "BufOvfl", "EntryID",
                           "ConfRev", "Segmentation"}
JO == INSTANCE Journal WITH
        Blocks <- {lcb1, lcb2}, TrgOpss <- {{"dchg", "integrity"}}, Capacity <- 2, MaxEntries <- 3, MaxTime <- 1,
        MaxLoops <- 2
SG == INSTANCE SettingGroups WITH
        NumOfSG <- 2, Settings <- {"s1", "s2"}, Editable <- {"s1"}, Vals <- {v1, v2},
        Declared <- {0, 2, 3}, MaxItems <- 2, leaf <- data

Alike == Permutations({lcb1, lcb2}) \cup Permutations({v1, v2})

ASSUME Assumptions == RF!ReportFormatAssumption /\ SG!SGAssumption

rfVars == <<job, wire, got>>
joVars == <<entries, times, last, clock, range, lcb, read>>
sgVars == <<sgm, applied, cb, data, reported, edited>>
mcVars == <<part, vars, rfVars, joVars, sgVars>>

RFRests == job = <<>> /\ wire = <<>> /\ got = <<>>
SGRests ==
  LET same == [s \in {"s1", "s2"} |-> v1]
  IN  /\ sgm = [actSG |-> 2, editSG |-> 0, sg |-> same, groups |-> <<same, same>>,
                se |-> [s \in {"s1"} |-> v1]]
      /\ applied = TRUE /\ cb = [ActSG |-> 1, EditSG |-> 0] /\ data = v1 /\ reported = {} /\ edited = {}

MCInit ==
  /\ part \in Parts
  /\ Init /\ (part # "ReportControl" => attr.datSet = NoDataSet)
  /\ IF part = "ReportFormat" THEN RF!Init ELSE RFRests
  /\ JO!Init
  /\ IF part = "SettingGroups" THEN SG!Init ELSE SGRests

MCNext ==
  \/ part = "ReportControl" /\ Next /\ UNCHANGED <<part, rfVars, joVars, sgVars>>
  \/ part = "ReportFormat" /\ RF!Next /\ UNCHANGED <<part, vars, joVars, sgVars>>
  \/ part = "Journal" /\ JO!Next /\ UNCHANGED <<part, vars, rfVars, sgVars>>
  \/ part = "SettingGroups" /\ SG!Next /\ UNCHANGED <<part, vars, rfVars, joVars>>

MCSpec == MCInit /\ [][MCNext]_mcVars

\* Where ReportControl is the only part, its callbacks run when they are due.
MCFairSpec == MCSpec /\ Fairness

------------------------------------------------------------------------------
(* The properties of the parts, each explained in full where it is         *)
(* defined; NoSilentGap is ReportControl's own.                            *)

(* A report is read as it was laid out, whatever fields were asked for and *)
(* however it was cut into segments (server/reporting.go, client/report.go).*)
ReportsDecode == part = "ReportFormat" => RF!ReportsDecode

(* The log's range is the log's, a paged read of it is complete, and only  *)
(* an enabled block logs (server/journal.go, readJournalAll of             *)
(* mms/services_journal.go).                                               *)
LogRead ==
  [][part = "Journal" => JO!RangeDescribes' /\ JO!ReadComplete' /\ JO!LoggedEnabled]_mcVars

(* The active view and the edit view of the settings show the values       *)
(* stored for their groups, and what a write request stored is reported,   *)
(* even if the request failed (settinggroup.go:197-239,                    *)
(* handler.go:300-416).                                                    *)
SettingsServed ==
  [][part = "SettingGroups" => SG!ActiveServed' /\ SG!EditedFrom' /\ SG!ChangeReported]_mcVars
==============================================================================
