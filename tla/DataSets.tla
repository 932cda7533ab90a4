------------------------------- MODULE DataSets -------------------------------
(***************************************************************************)
(* The data sets of a logical node (server/handler.go, services_ext.go):   *)
(* configured ones and those clients define and delete, the report and log *)
(* control blocks that refer to them, and a client that lists their names  *)
(* page by page (mms/services.go) while others change them.  Every handler *)
(* holds the model lock, so each request is one step; a listing is a       *)
(* sequence of requests.                                                   *)
(***************************************************************************)
EXTENDS Naturals, Sequences, FiniteSets

CONSTANTS SetNames,    \* the names a data set may have
          NoName,      \* no name
          Configured,  \* the data sets of the configuration
          Fixed,       \* the ones GOOSE and sampled value control blocks name
          Blocks,      \* report and log control blocks
          Logs,        \* the log control blocks among them
          MaxDynamic,  \* maxDynamicDataSets
          SetPage      \* how many names fit a response

(* What the constants may be.                                              *)
ASSUME DSAssumption ==
  /\ Configured \subseteq SetNames /\ IsFiniteSet(Configured) /\ Fixed \subseteq SetNames /\ NoName \notin SetNames
  /\ Logs \subseteq Blocks
  /\ MaxDynamic \in Nat /\ SetPage \in Nat \ {0}

VARIABLES sets,    \* ln.DataSets: a sequence of name and Deletable
          blocks,  \* DatSet and RptEna or LogEna of each block
          list     \* the listing: state, continuation, and the history of the
                   \* names there all along and not returned yet (due) and of
                   \* whether the continuation name was defined anew (moved)
dsVars == <<sets, blocks, list>>

DataSet == [name : SetNames, deletable : BOOLEAN]
NamesOf(s) == {s[i].name : i \in DOMAIN s}
Dynamic == {i \in DOMAIN sets : sets[i].deletable}

Idle == [st |-> "idle", after |-> NoName, due |-> {}, moved |-> FALSE]

SetsTypeOK ==
  /\ sets \in Seq(DataSet)
  /\ \A i, j \in DOMAIN sets : sets[i].name = sets[j].name => i = j
  /\ Cardinality(Dynamic) <= MaxDynamic
  /\ blocks \in [Blocks -> [datSet : SetNames \cup {NoName}, ena : BOOLEAN]]
  /\ list \in [st : {"idle", "going", "done", "failed"}, after : SetNames \cup {NoName},
               due : SUBSET SetNames, moved : BOOLEAN]

(* A block's configured DatSet may name a data set that does not exist;    *)
(* the configuration enables log control blocks, and whatever it names.    *)
SetsInit ==
  /\ sets \in {s \in [1..Cardinality(Configured) -> [name : Configured, deletable : {FALSE}]] :
                 NamesOf(s) = Configured}
  /\ blocks \in {f \in [Blocks -> [datSet : SetNames \cup {NoName}, ena : BOOLEAN]] :
                   \A b \in Blocks : f[b].ena => b \in Logs}
  /\ list = Idle

----------------------------------------------------------------------------
(* defineNVL: refused at the limit and for a name that exists.             *)
DefineNVL(n) ==
  /\ Cardinality(Dynamic) < MaxDynamic
  /\ n \notin NamesOf(sets)
  /\ sets' = Append(sets, [name |-> n, deletable |-> TRUE])
  /\ list' = [list EXCEPT !.moved = @ \/ (list.st = "going" /\ list.after = n)]
  /\ UNCHANGED blocks

(* Faulty variant: only the configured references count.                   *)
DataSetInUseFixed(n) == n \in Fixed

(* dataSetInUse: a report or log control block by its current DatSet, a    *)
(* GOOSE or sampled value control block by its configured one.             *)
DataSetInUse(n) == n \in Fixed \/ \E b \in Blocks : blocks[b].datSet = n

(* deleteDataset: neither a configured data set nor one in use goes; the   *)
(* places of those that stay.                                              *)
DeleteDataset(ns) ==
  {i \in DOMAIN sets : ~(sets[i].name \in ns /\ sets[i].deletable /\ ~DataSetInUse(sets[i].name))}

(* deleteNVL: of the names in the request, those that may be deleted; the  *)
(* others keep their order.                                                *)
DeleteNVL(ns) ==
  LET stay == DeleteDataset(ns)
  IN  \E f \in [1..Cardinality(stay) -> stay] :
        /\ {f[i] : i \in DOMAIN f} = stay /\ \A i, j \in DOMAIN f : i < j => f[i] < f[j]
        /\ sets' = [i \in DOMAIN f |-> sets[f[i]]]
        /\ list' = [list EXCEPT !.due = @ \cap NamesOf(sets')]
        /\ UNCHANGED blocks

(* resolveDataSet *)
ResolveDataSet(n) == n \in NamesOf(sets)

(* checkRCBWrite and checkLCBWrite of DatSet: only while the block is      *)
(* disabled, and only a data set that exists, or none.                     *)
WriteDatSet(b, n) ==
  /\ ~blocks[b].ena
  /\ n = NoName \/ ResolveDataSet(n)
  /\ blocks' = [blocks EXCEPT ![b].datSet = n]
  /\ UNCHANGED <<sets, list>>

(* ... and of RptEna or LogEna: enabling needs a data set; a log control   *)
(* block may be enabled again.                                             *)
WriteEna(b, on) ==
  /\ on => (~blocks[b].ena \/ b \in Logs) /\ ResolveDataSet(blocks[b].datSet)
  /\ blocks' = [blocks EXCEPT ![b].ena = on]
  /\ UNCHANGED <<sets, list>>

----------------------------------------------------------------------------
(* GetNameList of the client: begin, then ask page after page.             *)
ListSets ==
  /\ list.st # "going"
  /\ list' = [Idle EXCEPT !.st = "going", !.due = NamesOf(sets)]
  /\ UNCHANGED <<sets, blocks>>

(* Faulty variant: nothing follows a name that is not there.               *)
FollowingKnown(after) ==
  LET at == {i \in DOMAIN sets : sets[i].name = after}
  IN  IF after = NoName THEN sets
      ELSE IF at = {} THEN <<>> ELSE SubSeq(sets, (CHOOSE i \in at : TRUE) + 1, Len(sets))

(* getNameList: what follows the continuation name, or everything when it  *)
(* is not there.                                                           *)
Following(after) ==
  LET at == {i \in DOMAIN sets : sets[i].name = after}
  IN  IF at = {} THEN sets ELSE SubSeq(sets, (CHOOSE i \in at : TRUE) + 1, Len(sets))

(* One page of the server and what the client makes of it: the list is     *)
(* complete when nothing follows, and the client gives up when it is told  *)
(* to continue where it already did.                                       *)
NextPage ==
  LET rest  == Following(list.after)
      batch == SubSeq(rest, 1, IF Len(rest) < SetPage THEN Len(rest) ELSE SetPage)
      more  == Len(rest) > SetPage
      due   == list.due \ NamesOf(batch)
  IN  /\ list.st = "going"
      /\ list' = IF ~more \/ batch = <<>> THEN [list EXCEPT !.st = "done", !.due = due]
                 ELSE IF batch[Len(batch)].name = list.after THEN [list EXCEPT !.st = "failed"]
                 ELSE [list EXCEPT !.due = due, !.after = batch[Len(batch)].name]
      /\ UNCHANGED <<sets, blocks>>

SetsNext ==
  \/ \E n \in SetNames : DefineNVL(n)
  \/ \E ns \in SUBSET SetNames \ {{}} : DeleteNVL(ns)
  \/ \E b \in Blocks : \/ \E n \in SetNames \cup {NoName} : WriteDatSet(b, n)
                       \/ \E on \in BOOLEAN : WriteEna(b, on)
  \/ ListSets
  \/ NextPage

SetsSpec == SetsInit /\ [][SetsNext]_dsVars

----------------------------------------------------------------------------
(* An enabled control block has its data set: whatever clients define,     *)
(* delete and write, a report or log entry finds its members.  The         *)
(* exception is a log control block the configuration enabled without one; *)
(* it stays as it is until it is disabled or the data set is defined, and  *)
(* from then on it is as the others.                                       *)
Resolves(b, s, d) == d[b].ena => d[b].datSet \in NamesOf(s)
KeepsDataSet ==
  \A b \in Blocks : Resolves(b, sets', blocks') \/ (~Resolves(b, sets, blocks) /\ blocks'[b] = blocks[b])

(* It does not hold from the start, when a log control block is configured *)
(* enabled and its DatSet names nothing: LogEna is TRUE, and enabling the  *)
(* same block by a write is refused (server/journal.go:109-111, 374-381).  *)
EnabledResolves == \A b \in Blocks : Resolves(b, sets, blocks)

(* A complete list holds every name that was there from its first page to  *)
(* its last, although data sets were defined and deleted between two       *)
(* pages, the continuation name among them; the exception is a             *)
(* continuation name deleted and defined anew, which moves to the end.     *)
ListedAll == list.st = "done" /\ ~list.moved => list.due = {}
=============================================================================
