----------------------------- MODULE MCServerData -----------------------------
(***************************************************************************)
(* The parts of the server that share nothing but the associations, model  *)
(* checked side by side: the first state chooses the part that runs, and   *)
(* the others stay in an initial state of theirs, so the state spaces add  *)
(* up instead of multiplying.                                              *)
(***************************************************************************)
EXTENDS FileTransfer, DataSets, FileStore, Associations, ObtainFile

VARIABLE part  \* the part that runs
mcVars == <<part, dsVars, fsVars, vars, asVars, ofVars>>

(* While another part runs, a part rests in one of its initial states.     *)
MCInit ==
  /\ part \in {"DataSets", "FileStore", "FileTransfer", "Associations", "ObtainFile"}
  /\ SetsInit /\ (part # "DataSets" => blocks = [b \in Blocks |-> [datSet |-> NoName, ena |-> FALSE]])
  /\ StoreInit /\ (part # "FileStore" => \A n \in FileNames : dir[n] = 0)
  /\ Init /\ (part # "FileTransfer" => len = 0 /\ put.size = 0)
  /\ ConnsInit /\ ObtainInit

MCNext ==
  \/ part = "DataSets" /\ SetsNext /\ UNCHANGED <<part, fsVars, vars, asVars, ofVars>>
  \/ part = "FileStore" /\ StoreNext /\ UNCHANGED <<part, dsVars, vars, asVars, ofVars>>
  \/ part = "FileTransfer" /\ Next /\ UNCHANGED <<part, dsVars, fsVars, asVars, ofVars>>
  \/ part = "Associations" /\ ConnsNext /\ UNCHANGED <<part, dsVars, fsVars, vars, ofVars>>
  \/ part = "ObtainFile" /\ ObtainNext /\ UNCHANGED <<part, dsVars, fsVars, vars, asVars>>

Running(A) == part = "Associations" /\ A /\ UNCHANGED <<part, dsVars, fsVars, vars, ofVars>>

(* The fairness of Associations, while it is the part that runs.           *)
MCFairSpec ==
  /\ MCInit /\ [][MCNext]_mcVars
  /\ WF_mcVars(Running(CloseAll))
  /\ \A c \in Conns : SF_mcVars(Running(FlushBegin(c))) /\ WF_mcVars(Running(Proceed(c)))

----------------------------------------------------------------------------
(* The properties of the parts, each explained in full where it is         *)
(* defined.  TransferWhole, RemovesItsOwn and ClosesAll are FileTransfer's,*)
(* FileStore's and Associations' own.                                      *)

(* No step leaves an enabled control block without its data set, unless    *)
(* the configuration enabled it so, and a listing of the data sets by      *)
(* pages misses no name that was there throughout                          *)
(* (services_ext.go:439-471, handler.go:119-181).                          *)
DataSetsServed == [][part = "DataSets" => KeepsDataSet /\ ListedAll']_mcVars

(* No file is ever replaced by another, a listing of the files by pages    *)
(* misses none that was there throughout, and what SetFile stored is the   *)
(* client's source file (services_ext.go:104-121, 287-348,                 *)
(* file.go:277-327).                                                       *)
FilesServed ==
  [][/\ part = "FileStore" => DirectoryListed' /\ Kept
     /\ part = "ObtainFile" => StoredWhole']_mcVars

(* Connection slots are neither leaked nor freed twice, no sampled value   *)
(* control block stays reserved by an association that is gone, and        *)
(* changes of a block are told once and in their order                     *)
(* (server.go:511-530, svcb.go:166-211).                                   *)
AssociationsCounted == part = "Associations" => SlotsCounted /\ HolderServed /\ ToldInOrder
=============================================================================
