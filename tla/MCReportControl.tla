-------------------------- MODULE MCReportControl --------------------------
(* Instances of ReportControl for TLC. *)
EXTENDS ReportControl, TLC

CONSTANTS c1, c2, ip1, ip2, l1, l2

MCConns1 == {c1}
MCConns2 == {c1, c2}
MCIPs == {ip1, ip2}
MCAddrOf1 == (c1 :> ip1)
MCAddrOf2 == (c1 :> ip1) @@ (c2 :> ip2)
MCAddrOfUnknown == (c1 :> ip1) @@ (c2 :> NoIP)
AllTriggers == {{"dchg", "integrity", "gi"}}
OneSet == {{l1}}
WholeSet == {{l1, l2}}
=============================================================================
