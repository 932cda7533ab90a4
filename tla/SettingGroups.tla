---------------------------- MODULE SettingGroups ----------------------------
(***************************************************************************)
(* The setting groups of one logical device (server/settinggroup.go) and   *)
(* the write service that reaches them (server/handler.go).  Every setting *)
(* has an active view (FC SG), some an edit view (FC SE), and one stored   *)
(* value per group.  Clients write the setting group control block, the    *)
(* edit view and ordinary data; a request holds several items and is       *)
(* applied under the model lock, so it is one step.  The process updates   *)
(* its own data under the same lock.                                       *)
(***************************************************************************)
EXTENDS Integers, Sequences

CONSTANTS NumOfSG,   \* how many groups the device has
          Settings,  \* the setting attributes (FC SG)
          Editable,  \* the settings with an FC SE attribute
          Vals,      \* the values of a setting and of the data attribute
          Declared,  \* the active groups an SCL document may declare: 0 for none, or any number
          MaxItems   \* how many items a write request holds

(* What the constants may be.                                              *)
SGAssumption ==
  /\ NumOfSG \in 1..255 /\ Declared \subseteq Nat /\ MaxItems \in Nat \ {0}
  /\ Editable \subseteq Settings

VARIABLES sgm,       \* the manager: actSG, editSG, groups, and the views sg and se
          applied,   \* history: actSG is a group that was applied to the active view
          cb,        \* the served SGCB attributes ActSG and EditSG
          leaf,      \* an FC SP data attribute
          reported,  \* the attributes handed to the report and log engines last
          edited     \* history: the settings written since the group was opened
vars == <<sgm, applied, cb, leaf, reported, edited>>

Groups == 1..NumOfSG

(* The items of a write request.  "refused" is an item that the name       *)
(* resolution, the write policy, the type check or the application's       *)
(* OnWrite handler turns away; "undecodable" one whose data cannot be      *)
(* decoded.                                                                *)
Item == [kind : {"ActSG", "EditSG"}, g : 0..(NumOfSG + 1)]
          \cup [kind : {"CnfEdit"}, confirm : BOOLEAN]
          \cup [kind : {"SE"}, s : Editable, v : Vals]
          \cup [kind : {"SP"}, v : Vals]
          \cup [kind : {"refused", "undecodable"}]

Request == UNION {[1..n -> Item] : n \in 1..MaxItems}

TypeOK ==
  /\ sgm \in [actSG : 0..255, editSG : 0..NumOfSG, groups : [Groups -> [Settings -> Vals]],
              sg : [Settings -> Vals], se : [Editable -> Vals]]
  /\ applied \in BOOLEAN
  /\ cb \in [ActSG : Groups, EditSG : 0..NumOfSG]
  /\ leaf \in Vals
  /\ reported \subseteq Editable \cup {"leaf"}
  /\ edited \subseteq Editable

(* applyActiveGroup: the attributes hold their own values, or those the    *)
(* document gives for the group it declares active.                        *)
Served(own, doc, d) == [s \in Settings |-> IF d > 0 /\ <<d, s>> \in DOMAIN doc THEN doc[<<d, s>>] ELSE own[s]]

(* buildSettingGroups: the document gives some settings of some groups a   *)
(* value; the others start with what is served.  The manager starts in     *)
(* the declared group, whether there is such a group or not, and in group  *)
(* 1 if none is declared, whose values nobody has applied; the control     *)
(* block that buildSGCB materialises shows group 1 whatever is declared.   *)
Init ==
  /\ \E d \in Declared, own \in [Settings -> Vals], given \in SUBSET ((Groups \cup Declared) \X Settings) :
     \E doc \in [given -> Vals] :
       LET served == Served(own, doc, d)
       IN  /\ sgm = [actSG |-> IF d > 0 THEN d % 256 ELSE 1, editSG |-> 0, sg |-> served,
                     groups |-> [g \in Groups |-> [s \in Settings |->
                                   IF <<g, s>> \in given THEN doc[<<g, s>>] ELSE served[s]]],
                     se |-> [s \in Editable |-> served[s]]]
           /\ applied = (d \in Groups)
  /\ cb = [ActSG |-> 1, EditSG |-> 0]
  /\ leaf \in Vals /\ reported = {} /\ edited = {}
----------------------------------------------------------------------------
(* A request's working state: the variables and whether it has failed.     *)
Start == [m |-> sgm, applied |-> applied, cb |-> cb, leaf |-> leaf, changed |-> {}, edited |-> edited, failed |-> FALSE]

(* checkWrite: the group numbers a write may name, and a confirmation only *)
(* of an edit that is open.                                                *)
CheckWrite(r, it) ==
  CASE it.kind = "ActSG"   -> it.g \in Groups
    [] it.kind = "EditSG"  -> it.g \in 0..NumOfSG
    [] it.kind = "CnfEdit" -> it.confirm => r.m.editSG \in Groups

(* onSGCBWrite: selecting the active group copies it to the active view,   *)
(* opening a group copies it to the edit view, and a confirmation stores   *)
(* the edit view in the open group and, if that is active, in its view.    *)
SelectActive(r, g) ==
  [r EXCEPT !.m.actSG = g, !.m.sg = r.m.groups[g], !.cb.ActSG = g, !.applied = TRUE]

SelectEdit(r, g) ==
  [r EXCEPT !.m.editSG = g, !.cb.EditSG = g, !.edited = {},
            !.m.se = IF g \in Groups THEN [s \in Editable |-> r.m.groups[g][s]] ELSE @]

(* Faulty variant: the active view keeps its values.                       *)
ConfirmEditStale(r) ==
  [r EXCEPT !.m.groups[r.m.editSG] = [s \in Settings |-> IF s \in Editable THEN r.m.se[s] ELSE @[s]],
            !.m.editSG = 0, !.cb.EditSG = 0, !.edited = {}]

ConfirmEdit(r) ==
  LET stored(view) == [s \in Settings |-> IF s \in Editable THEN r.m.se[s] ELSE view[s]]
  IN  [r EXCEPT !.m.groups[r.m.editSG] = stored(@),
                !.m.sg = IF r.m.editSG = r.m.actSG THEN stored(@) ELSE @,
                !.m.editSG = 0, !.cb.EditSG = 0, !.edited = {}]

OnSGCBWrite(r, it) ==
  CASE it.kind = "ActSG"   -> SelectActive(r, it.g)
    [] it.kind = "EditSG"  -> SelectEdit(r, it.g)
    [] it.kind = "CnfEdit" -> IF it.confirm THEN ConfirmEdit(r) ELSE r

(* writeOne: an edit value only while a group is open; a stored value is   *)
(* recorded as changed.                                                    *)
WriteOne(r, it) ==
  CASE it.kind = "SE" /\ r.m.editSG \in Groups ->
         [r EXCEPT !.m.se[it.s] = it.v, !.edited = @ \cup {it.s}, !.changed = @ \cup {it.s}]
    [] it.kind = "SP" -> [r EXCEPT !.leaf = it.v, !.changed = @ \cup {"leaf"}]
    [] OTHER -> r

(* One item: nothing after an undecodable one is looked at.                *)
Apply(r, it) ==
  CASE r.failed \/ it.kind = "refused" -> r
    [] it.kind = "undecodable" -> [r EXCEPT !.failed = TRUE]
    [] it.kind \in {"ActSG", "EditSG", "CnfEdit"} -> IF CheckWrite(r, it) THEN OnSGCBWrite(r, it) ELSE r
    [] OTHER -> WriteOne(r, it)

(* Faulty variant: a failed request reports nothing.                       *)
ReportedIfWhole(r) == IF r.failed THEN {} ELSE r.changed

(* Also on a failed request, the deferred call reports what was stored.    *)
Reported(r) == r.changed

(* write: the items in order.                                              *)
Write(req) ==
  LET after[n \in 0..Len(req)] == IF n = 0 THEN Start ELSE Apply(after[n - 1], req[n])
      r == after[Len(req)]
  IN  /\ sgm' = r.m /\ applied' = r.applied /\ cb' = r.cb /\ leaf' = r.leaf /\ edited' = r.edited
      /\ reported' = Reported(r)

(* Server.Update: the process writes its attribute.                        *)
Update(v) == leaf' = v /\ reported' = {"leaf"} /\ UNCHANGED <<sgm, applied, cb, edited>>

Next ==
  \/ \E req \in Request : Write(req)
  \/ \E v \in Vals : Update(v)

Spec == Init /\ [][Next]_vars

----------------------------------------------------------------------------
(* The values a client reads under FC SG are those stored for the active   *)
(* group, whatever was selected, edited and confirmed, from the moment     *)
(* that group was applied: at the start, if the document declares it       *)
(* active, or when it is selected (settinggroup.go:197-239).               *)
ActiveServed == applied => sgm.sg = sgm.groups[sgm.actSG]

(* They are so from the start.  Not so: a device that declares no active   *)
(* group, or one it does not have, serves the attributes' own values until *)
(* a group is selected (server.go:278-280, against settinggroup.go:        *)
(* 127-131, "keeps the attribute's own value, which is the active          *)
(* group's").                                                              *)
ServedFromStart == sgm.actSG \in Groups /\ sgm.sg = sgm.groups[sgm.actSG]

(* While a group is open for editing, the edit view holds its stored       *)
(* values except where a client has written since it was opened: a         *)
(* confirmation never carries values over from another group.              *)
EditedFrom ==
  sgm.editSG \in Groups =>
    \A s \in Editable \ edited : sgm.se[s] = sgm.groups[sgm.editSG][s]

(* What a request changes is handed to the report and log engines, also    *)
(* when a later item cannot be decoded and the client is told it failed.   *)
ChangeReported ==
  /\ leaf' # leaf => "leaf" \in reported'
  /\ \A s \in Editable : s \in edited' \ edited => s \in reported'
ChangesReported == [][ChangeReported]_vars
=============================================================================
