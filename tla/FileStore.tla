------------------------------ MODULE FileStore ------------------------------
(***************************************************************************)
(* The file services of the server (server/file.go, services_ext.go) over  *)
(* a directory: SetFile, in which the server fetches a file from the       *)
(* client in the background (obtainFile, fetchFile), delete and rename,    *)
(* and a client that lists the directory page by page.  No lock covers the *)
(* store: a request is as many steps as it makes calls of the file system. *)
(* What the files hold is FileTransfer's subject.                          *)
(***************************************************************************)
EXTENDS Naturals, FiniteSets

CONSTANTS FileNames,  \* file names, in their order: natural numbers above 0
          Clients,    \* associations
          Files,      \* the files there can be at a time: natural numbers above 0
          FilePage    \* how many entries fit a fileDirectory response

(* What the constants may be.                                              *)
ASSUME FSAssumption ==
  /\ FileNames \subseteq Nat \ {0} /\ Files \subseteq Nat \ {0} /\ FilePage \in Nat \ {0}

VARIABLES dir,   \* the file each name stands for, 0 for none
          set,   \* a SetFile of each client: state, destination, the file it writes
          ren,   \* a rename of each client between its two calls
          ls     \* a listing: state, continuation, and the history of the
                 \* names there all along and not returned yet (due)
fsVars == <<dir, set, ren, ls>>

NoSet == [st |-> "idle", dst |-> 0, file |-> 0]
NoRen == [st |-> "idle", old |-> 0]
NoLs  == [st |-> "idle", after |-> 0, due |-> {}]

StoreTypeOK ==
  /\ dir \in [FileNames -> Files \cup {0}]
  /\ set \in [Clients -> [st : {"idle", "checked", "writing", "failed"},
                          dst : FileNames \cup {0}, file : Files \cup {0}]]
  /\ ren \in [Clients -> [st : {"idle", "linked"}, old : FileNames \cup {0}]]
  /\ ls \in [st : {"idle", "going", "done"}, after : FileNames \cup {0}, due : SUBSET FileNames]

There == {n \in FileNames : dir[n] # 0}

Min(S) == CHOOSE x \in S : \A y \in S : x <= y
Max(S) == CHOOSE x \in S : \A y \in S : x >= y

(* The store may hold files already.                                       *)
StoreInit ==
  /\ \E n \in FileNames \cup {0} : dir = [m \in FileNames |-> IF m = n THEN Min(Files) ELSE 0]
  /\ set = [c \in Clients |-> NoSet] /\ ren = [c \in Clients |-> NoRen]
  /\ ls = NoLs

(* The directory changes: a name that goes is no longer there all along.   *)
Store(d) == dir' = d /\ ls' = [ls EXCEPT !.due = {n \in @ : d[n] # 0}]
----------------------------------------------------------------------------
(* obtainFile: a destination that exists is refused; the rest is deferred. *)
ObtainFile(c, n) ==
  /\ set[c].st = "idle" /\ ren[c].st = "idle"
  /\ n \notin There
  /\ set' = [set EXCEPT ![c] = [NoSet EXCEPT !.st = "checked", !.dst = n]]
  /\ UNCHANGED <<dir, ren, ls>>

(* Faulty variant: the destination is opened without O_EXCL.               *)
CreateReplaces(c) ==
  /\ set[c].st = "checked"
  /\ LET f == Min(Files \ ({dir[n] : n \in FileNames} \cup {set[d].file : d \in Clients}))
     IN  /\ set' = [set EXCEPT ![c].st = "writing", ![c].file = f]
         /\ Store([dir EXCEPT ![set[c].dst] = f])
  /\ UNCHANGED ren

(* fetchFile, once the client has opened the source: it creates the        *)
(* destination, which fails if that exists by now ...                      *)
Create(c) ==
  /\ set[c].st = "checked"
  /\ LET f == Min(Files \ ({dir[n] : n \in FileNames} \cup {set[d].file : d \in Clients}))
     IN  IF set[c].dst \in There
         THEN set' = [set EXCEPT ![c].st = "failed"] /\ UNCHANGED <<dir, ls>>
         ELSE /\ set' = [set EXCEPT ![c].st = "writing", ![c].file = f]
              /\ Store([dir EXCEPT ![set[c].dst] = f])
  /\ UNCHANGED ren

(* ... and writes what the client returns, until nothing follows.          *)
FetchDone(c) ==
  /\ set[c].st = "writing"
  /\ set' = [set EXCEPT ![c] = NoSet]
  /\ UNCHANGED <<dir, ren, ls>>

(* A refusal of the client, a full store, the timeout, a cancel or the end *)
(* of the association fails it at any point.                               *)
FetchFails(c) ==
  /\ set[c].st \in {"checked", "writing"}
  /\ set' = [set EXCEPT ![c].st = "failed"]
  /\ UNCHANGED <<dir, ren, ls>>

(* A SetFile that failed removes its destination, whoever created it.      *)
Discard(c) ==
  /\ set[c].st = "failed"
  /\ Store([dir EXCEPT ![set[c].dst] = 0])
  /\ set' = [set EXCEPT ![c] = NoSet]
  /\ UNCHANGED ren

(* fileDelete *)
FileDelete(c, n) ==
  /\ ren[c].st = "idle" /\ n \in There
  /\ Store([dir EXCEPT ![n] = 0])
  /\ UNCHANGED <<set, ren>>

(* fileRename: Rename links the file under its new name, which fails if    *)
(* that is taken, and then removes the old one.                            *)
Link(c, old, new) ==
  /\ ren[c].st = "idle" /\ old \in There /\ new \notin There
  /\ Store([dir EXCEPT ![new] = dir[old]])
  /\ ren' = [ren EXCEPT ![c] = [st |-> "linked", old |-> old]]
  /\ UNCHANGED set

Unlink(c) ==
  /\ ren[c].st = "linked"
  /\ Store([dir EXCEPT ![ren[c].old] = 0])
  /\ ren' = [ren EXCEPT ![c] = NoRen]
  /\ UNCHANGED set

----------------------------------------------------------------------------
(* FileDirectory of the client asks page after page ...                    *)
ListFiles ==
  /\ ls.st # "going"
  /\ ls' = [NoLs EXCEPT !.st = "going", !.due = There]
  /\ UNCHANGED <<dir, set, ren>>

(* ... and fileDirectory answers with the entries whose names follow.      *)
FileDirectory ==
  LET rest  == {n \in There : n > ls.after}
      batch == {n \in rest : Cardinality({m \in rest : m < n}) < FilePage}
  IN  /\ ls.st = "going"
      /\ ls' = IF batch = rest THEN [ls EXCEPT !.due = @ \ batch, !.st = "done"]
               ELSE [ls EXCEPT !.due = @ \ batch, !.after = Max(batch)]
      /\ UNCHANGED <<dir, set, ren>>

StoreNext ==
  \/ \E c \in Clients :
       \/ Create(c) \/ FetchDone(c) \/ FetchFails(c) \/ Discard(c) \/ Unlink(c)
       \/ \E n \in FileNames : ObtainFile(c, n) \/ FileDelete(c, n) \/ \E m \in FileNames : Link(c, n, m)
  \/ ListFiles
  \/ FileDirectory

StoreSpec == StoreInit /\ [][StoreNext]_fsVars

----------------------------------------------------------------------------
(* A name that stands for a file never comes to stand for another while it *)
(* exists: neither a SetFile that checked the name long before, nor a      *)
(* rename, replaces a file.                                                *)
Kept == \A n \in FileNames : dir[n] # 0 /\ dir'[n] # 0 => dir'[n] = dir[n]
NeverReplaced == [][Kept]_fsVars

(* A listing that ends holds every name that was there all along, although *)
(* files come and go between its pages, the one it continues after among   *)
(* them.                                                                   *)
DirectoryListed == ls.st = "done" => ls.due = {}

(* A SetFile that fails removes no file but its own.                       *)
OwnRemoved ==
  \A c \in Clients : set[c].st = "failed" /\ set'[c].st = "idle" => dir[set[c].dst] \in {0, set[c].file}
RemovesItsOwn == [][OwnRemoved]_fsVars
=============================================================================
