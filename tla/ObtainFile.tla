------------------------------ MODULE ObtainFile ------------------------------
(***************************************************************************)
(* SetFile from both ends: the client's ObtainFile, which serves one       *)
(* source file while its request is outstanding (mms/client_ext.go), and   *)
(* the server's fetchFile, a deferred request that reads it with fileOpen, *)
(* fileRead and fileClose requests of its own (server/services_ext.go).    *)
(* Transfers are numbered in the order the client asks for them; a piece   *)
(* is named by its file and place, so that what is stored tells where each *)
(* part of it came from.  The source files have different names, so an     *)
(* open is never answered for another transfer.                            *)
(***************************************************************************)
EXTENDS Naturals, Sequences

CONSTANTS MaxTransfers,  \* ObtainFile calls made on the association
          Pieces         \* fileRead responses a source file takes

ASSUME ObtainFileAssumption == MaxTransfers \in Nat \ {0} /\ Pieces \in Nat \ {0}

VARIABLES call,   \* the client's ObtainFile: none, out, ok, error or left
          files,  \* c.files: the transfer being served, or 0
          fsrv,   \* per transfer, its fileServer: next, and open frsm -> place
          fetch   \* per transfer, fetchFile: pc, frsm and the pieces written

ofVars == <<call, files, fsrv, fetch>>

T == 1..MaxTransfers

ObtainTypeOK ==
  /\ call \in [T -> {"none", "out", "ok", "error", "left"}]
  /\ files \in T \cup {0}
  /\ \A t \in T : fetch[t].pc \in {"none", "open", "read", "close", "done"}

ObtainInit ==
  /\ call = [t \in T |-> "none"] /\ files = 0
  /\ fsrv = [t \in T |-> [next |-> 0, open |-> <<>>]]
  /\ fetch = [t \in T |-> [pc |-> "none", frsm |-> 0, got |-> <<>>, ok |-> FALSE]]

(* One ObtainFile at a time (obtainMu), each with a fileServer of its own, *)
(* whose frsm identifiers start from one.                                  *)
Obtain(t) ==
  /\ call[t] = "none" /\ \A u \in 1..(t - 1) : call[u] \notin {"none", "out"}
  /\ call' = [call EXCEPT ![t] = "out"]
  /\ files' = t
  /\ fetch' = [fetch EXCEPT ![t].pc = "open"]
  /\ UNCHANGED fsrv

(* ObtainFile returns: nothing is served any more, and what it had open is *)
(* closed (closeAll).                                                      *)
Return(t, how) ==
  /\ call' = [call EXCEPT ![t] = how]
  /\ files' = 0
  /\ fsrv' = [fsrv EXCEPT ![t].open = <<>>]

(* Its context ends: the server goes on reading until it notices.          *)
Leave(t) == call[t] = "out" /\ Return(t, "left") /\ UNCHANGED fetch

(* handle, fileOpen: of the file being served, under the next identifier.  *)
SourceOpen(t) ==
  /\ fetch[t].pc = "open"
  /\ IF files = t
     THEN LET frsm == fsrv[t].next + 1
          IN  /\ fsrv' = [fsrv EXCEPT ![t].next = frsm,
                                      ![t].open = [f \in DOMAIN @ \cup {frsm} |-> IF f = frsm THEN 0 ELSE @[f]]]
              /\ fetch' = [fetch EXCEPT ![t].pc = "read", ![t].frsm = frsm]
     ELSE fetch' = [fetch EXCEPT ![t].pc = "done"] /\ UNCHANGED fsrv
  /\ UNCHANGED <<call, files>>

(* Faulty variant: moreFollows is false one piece early.                   *)
FileReadShort(t) ==
  LET f == fetch[t].frsm
  IN  /\ fetch[t].pc = "read"
      /\ IF files # 0 /\ f \in DOMAIN fsrv[files].open
         THEN LET at == fsrv[files].open[f] + 1
              IN  /\ fsrv' = [fsrv EXCEPT ![files].open[f] = at]
                  /\ fetch' = [fetch EXCEPT ![t].got = Append(@, <<files, at>>),
                                            ![t].pc = IF at + 1 < Pieces THEN "read" ELSE "close",
                                            ![t].ok = at + 1 >= Pieces]
         ELSE fetch' = [fetch EXCEPT ![t].pc = "close"] /\ UNCHANGED fsrv
      /\ UNCHANGED <<call, files>>

(* handle, fileRead: the next piece of what the identifier names in the    *)
(* fileServer of the transfer being served, moreFollows until the last;    *)
(* fetchFile writes it.  An identifier not open fails the transfer.        *)
SourceRead(t) ==
  LET f == fetch[t].frsm
  IN  /\ fetch[t].pc = "read"
      /\ IF files # 0 /\ f \in DOMAIN fsrv[files].open
         THEN LET at == fsrv[files].open[f] + 1
              IN  /\ fsrv' = [fsrv EXCEPT ![files].open[f] = IF at > Pieces THEN @ ELSE at]
                  /\ fetch' = [fetch EXCEPT ![t].got = IF at > Pieces THEN @ ELSE Append(@, <<files, at>>),
                                            ![t].pc = IF at < Pieces THEN "read" ELSE "close",
                                            ![t].ok = at >= Pieces]
         ELSE fetch' = [fetch EXCEPT ![t].pc = "close"] /\ UNCHANGED fsrv
      /\ UNCHANGED <<call, files>>

(* fileClose forgets what the identifier names in the fileServer of the    *)
(* transfer being served; a failed transfer removes what it wrote.         *)
SourceClose(t) ==
  /\ fetch[t].pc = "close"
  /\ fsrv' = [u \in T |-> IF u = files THEN [fsrv[u] EXCEPT !.open = [f \in (DOMAIN @) \ {fetch[t].frsm} |-> @[f]]]
                          ELSE fsrv[u]]
  /\ fetch' = [fetch EXCEPT ![t].pc = "done", ![t].got = IF fetch[t].ok THEN @ ELSE <<>>]
  /\ UNCHANGED <<call, files>>

(* obtainTimeout, or the client's Cancel.                                  *)
Abandon(t) ==
  /\ fetch[t].pc \in {"open", "read"}
  /\ fetch' = [fetch EXCEPT ![t].pc = "done", ![t].got = <<>>]
  /\ UNCHANGED <<call, files, fsrv>>

Answered(t) ==
  /\ call[t] = "out" /\ fetch[t].pc = "done"
  /\ Return(t, IF fetch[t].ok THEN "ok" ELSE "error")
  /\ UNCHANGED fetch

ObtainNext == \E t \in T : Obtain(t) \/ Leave(t) \/ SourceOpen(t) \/ SourceRead(t) \/ SourceClose(t) \/ Abandon(t) \/ Answered(t)

ObtainSpec == ObtainInit /\ [][ObtainNext]_ofVars

(* What a SetFile that succeeded has stored is the source file, whole and  *)
(* in order (ObtainFile: "has the server fetch sourceFile from this end    *)
(* and store it as destinationFile"; it "serves sourceFile and nothing     *)
(* else").                                                                 *)
StoredIsSource ==
  \A t \in T : call[t] = "ok" => fetch[t].got = [n \in 1..Pieces |-> <<t, n>>]

(* The same of a SetFile before which none was left by its caller: the     *)
(* server's late reads of one that was find the next one's identifiers.    *)
StoredWhole ==
  \A t \in T : call[t] = "ok" /\ (\A u \in 1..(t - 1) : call[u] # "left") =>
    fetch[t].got = [n \in 1..Pieces |-> <<t, n>>]
===============================================================================
