------------------------ MODULE SelectBeforeOperate -------------------------
(***************************************************************************)
(* What select-before-operate promises of one control object (IEC 61850-7-2*)
(* as server/select.go states it): a client selects the object when nobody *)
(* else has, an operate is granted only to the client whose selection      *)
(* stands, under the control number it selected with, and each selection   *)
(* is good for one execution.                                              *)
(***************************************************************************)
EXTENDS Naturals

CONSTANTS Conns, Nums, NoConn, NoNum

VARIABLES
  holder,    \* the client whose selection stands, or NoConn
  num,       \* the control number it selected with, or NoNum
  granted,   \* client and number of the operate being executed, or Nobody
  executed   \* operates executed

vars == <<holder, num, granted, executed>>

Nobody == <<NoConn, NoNum>>

Init == holder = NoConn /\ num = NoNum /\ granted = Nobody /\ executed = 0

Select(c, n) ==
  /\ granted = Nobody /\ holder \in {NoConn, c}
  /\ holder' = c /\ num' = n
  /\ UNCHANGED <<granted, executed>>

(* An operate with number n is granted.                                    *)
Grant(c, n) ==
  /\ granted = Nobody /\ holder = c /\ num \in {NoNum, n}
  /\ granted' = <<c, n>>
  /\ UNCHANGED <<holder, num, executed>>

(* Its execution uses the selection up, if that has not ended meanwhile.   *)
Execute ==
  /\ granted # Nobody /\ holder \in {NoConn, granted[1]}
  /\ granted' = Nobody /\ executed' = executed + 1
  /\ holder' = NoConn /\ num' = NoNum

Refuse ==
  /\ granted # Nobody /\ granted' = Nobody
  /\ UNCHANGED <<holder, num, executed>>

(* The selection is cancelled, expires, or its client is gone.             *)
End ==
  /\ holder # NoConn /\ holder' = NoConn /\ num' = NoNum
  /\ UNCHANGED <<granted, executed>>

Next ==
  \/ \E c \in Conns, n \in Nums \cup {NoNum} : Select(c, n)
  \/ \E c \in Conns, n \in Nums : Grant(c, n)
  \/ Execute \/ Refuse \/ End

Spec == Init /\ [][Next]_vars
=============================================================================
