----------------------------- MODULE FileTransfer -----------------------------
(***************************************************************************)
(* What a file transfer moves, in both directions.  A download reads a     *)
(* file of the server, which another SetFile may still be writing, chunk   *)
(* by chunk (server/file.go, client/file.go).  A SetFile makes the server  *)
(* read a file of the client chunk by chunk (mms/client_ext.go, fetchFile  *)
(* in server/services_ext.go).  The content is abstracted to its length.   *)
(***************************************************************************)
EXTENDS Naturals

CONSTANTS MaxLen,     \* how long a file gets
          Chunk,      \* how much a fileRead of the server returns
          SendChunk,  \* how much one of the client returns (fileChunk)
          MaxObtained \* how much a SetFile may write (maxObtainedFile)

ASSUME FTAssumption ==
  MaxLen \in Nat /\ Chunk \in Nat \ {0} /\ SendChunk \in Nat \ {0} /\ MaxObtained \in Nat

VARIABLES len,   \* how long the server's file is
          get,   \* the download: state, size announced, position
          put    \* the SetFile: state, size of the client's file, position, written
vars == <<len, get, put>>

TypeOK ==
  /\ len \in 0..MaxLen
  /\ get \in [st : {"idle", "open", "done"}, size : 0..MaxLen, pos : 0..MaxLen]
  /\ put \in [st : {"open", "stored", "failed"}, size : 0..MaxLen, pos : 0..MaxLen, written : 0..MaxLen]

Init ==
  /\ len \in 0..MaxLen
  /\ get = [st |-> "idle", size |-> 0, pos |-> 0]
  /\ \E n \in 0..MaxLen : put = [st |-> "open", size |-> n, pos |-> 0, written |-> 0]

(* io.ReadFull: a whole chunk, or what is left.                            *)
ReadFull(left, chunk) == IF left < chunk THEN left ELSE chunk

(* open_: from a position within the file, whose size is announced.        *)
FileOpen(pos) ==
  /\ get.st # "open" /\ pos <= len
  /\ get' = [st |-> "open", size |-> len, pos |-> pos]
  /\ UNCHANGED <<len, put>>

(* Faulty variant: moreFollows only if a whole chunk follows.              *)
FileReadWhole ==
  LET n == ReadFull(len - get.pos, Chunk)
  IN  /\ get.st = "open"
      /\ get' = [get EXCEPT !.pos = @ + n, !.st = IF n = Chunk /\ get.pos + n + Chunk <= get.size THEN "open" ELSE "done"]
      /\ UNCHANGED <<len, put>>

(* read: moreFollows is set after a whole chunk that does not reach the    *)
(* announced size, and the client asks again while it is.                  *)
FileRead ==
  LET n    == ReadFull(len - get.pos, Chunk)
      more == n = Chunk /\ get.pos + n < get.size
  IN  /\ get.st = "open"
      /\ get' = [get EXCEPT !.pos = @ + n, !.st = IF more THEN "open" ELSE "done"]
      /\ UNCHANGED <<len, put>>

(* The file is still being written.                                        *)
Grow ==
  /\ len < MaxLen
  /\ len' = len + 1
  /\ UNCHANGED <<get, put>>

(* fileServer.handle: moreFollows is set after a whole chunk, so a file of *)
(* whole chunks ends with an empty one; fetchFile writes what it is given  *)
(* up to its limit and stops when nothing follows.                         *)
FetchRead ==
  LET n    == ReadFull(put.size - put.pos, SendChunk)
      more == n = SendChunk
  IN  /\ put.st = "open"
      /\ put' = IF put.written + n > MaxObtained THEN [put EXCEPT !.st = "failed"]
                ELSE [put EXCEPT !.pos = @ + n, !.written = @ + n,
                                 !.st = IF more THEN "open" ELSE "stored"]
      /\ UNCHANGED <<len, get>>

Next ==
  \/ \E pos \in 0..MaxLen : FileOpen(pos)
  \/ FileRead
  \/ Grow
  \/ FetchRead

Spec == Init /\ [][Next]_vars

(* A transfer that ends well is whole.  A download has reached the size    *)
(* announced when it was opened, also if that is a multiple of the chunk   *)
(* or the file has grown; a SetFile has stored the client's file, and      *)
(* fails exactly when that exceeds the limit.                              *)
TransferWhole ==
  /\ get.st = "done" => get.pos >= get.size
  /\ put.st = "stored" => put.written = put.size
  /\ put.st = "failed" => put.size > MaxObtained
=============================================================================
