------------------------------ MODULE DataModel ------------------------------
(***************************************************************************)
(* The server's data model as MMS clients see it (server/access.go and     *)
(* handler.go): the flat name list, the type description and the value of  *)
(* each name, three walks over the same tree that have to agree, and the   *)
(* client that rebuilds the tree from the first two (client/directory.go,  *)
(* client/model.go).                                                       *)
(*                                                                         *)
(* A data attribute is [name, fc, known, kids], a data object [name,       *)
(* attrs, subs], a logical node [name, objs]; an item ID is its sequence   *)
(* of parts.  A value is its shape: "leaf" or the sequence of its members. *)
(* known is FALSE for a leaf of a basic type the library does not know.    *)
(***************************************************************************)
EXTENDS Naturals, Sequences, FiniteSets, SequencesExt

CONSTANTS Models,     \* the logical devices the server may be given
          FCs,        \* functional constraints, in canonical order
          BlockFCs    \* those that carry control blocks

VARIABLES ld,     \* the server's logical device
          names,  \* what GetNameList returned, still to be looked at
          seen,   \* the LN$FC$DO the client has introspected
          tree,   \* the leaves of the model the client has rebuilt
          dir,    \* the objects LogicalNodeDirectory has found, by class
          probe   \* the name looked at, if it was read: its description and its value

vars == <<ld, names, seen, tree, dir, probe>>

------------------------------------------------------------------------------
(* The tree.                                                               *)

RECURSIVE FCsOf(_)
FCsOf(do) == {do.attrs[i].fc : i \in DOMAIN do.attrs} \cup UNION {FCsOf(do.subs[i]) : i \in DOMAIN do.subs}

HasFC(do, fc) == fc \in FCsOf(do)

Pick(s, name) == {i \in DOMAIN s : s[i].name = name}
First(s, is) == s[CHOOSE i \in is : \A j \in is : i <= j]

------------------------------------------------------------------------------
(* GetNameList.                                                            *)

RECURSIVE AttrNames(_, _, _)
AttrNames(prefix, a, fc) ==
  IF a.fc # fc THEN <<>>
  ELSE <<Append(prefix, a.name)>>
       \o FlattenSeq([i \in DOMAIN a.kids |-> AttrNames(Append(prefix, a.name), a.kids[i], fc)])

RECURSIVE SubDONames(_, _, _)
SubDONames(prefix, do, fc) ==
  IF ~HasFC(do, fc) THEN <<>>
  ELSE LET p == Append(prefix, do.name)
       IN  <<p>> \o FlattenSeq([i \in DOMAIN do.attrs |-> AttrNames(p, do.attrs[i], fc)])
                 \o FlattenSeq([i \in DOMAIN do.subs |-> SubDONames(p, do.subs[i], fc)])

(* namesForDomain: the node, each constraint it has, and what is under it. *)
NamesForDomain ==
  LET Under(ln, fc) ==
        IF \E i \in DOMAIN ln.objs : HasFC(ln.objs[i], fc)
        THEN <<<<ln.name, fc>>>> \o FlattenSeq([i \in DOMAIN ln.objs |-> SubDONames(<<ln.name, fc>>, ln.objs[i], fc)])
        ELSE <<>>
      Of(ln) == <<<<ln.name>>>> \o FlattenSeq([k \in DOMAIN FCs |-> Under(ln, FCs[k])])
  IN  FlattenSeq([i \in DOMAIN ld |-> Of(ld[i])])

------------------------------------------------------------------------------
(* Values.  A value that cannot be produced is "none".                     *)

RECURSIVE DaValue(_)
DaValue(da) ==
  IF da.kids = <<>> THEN (IF da.known THEN <<"leaf">> ELSE <<"none">>)
  ELSE LET vs == [i \in DOMAIN da.kids |-> DaValue(da.kids[i])]
       IN  IF \E i \in DOMAIN vs : vs[i] = <<"none">> THEN <<"none">> ELSE <<"structure", vs>>

(* Faulty variant: a member that has no value is left out.                 *)
RECURSIVE DoValueShort(_, _)
DoValueShort(do, fc) ==
  LET as == SelectSeq(do.attrs, LAMBDA a : a.fc = fc /\ DaValue(a) # <<"none">>)
      av == [i \in DOMAIN as |-> DaValue(as[i])]
      sv == SelectSeq([i \in DOMAIN do.subs |-> DoValueShort(do.subs[i], fc)], LAMBDA v : v # <<"none">>)
  IN  IF av \o sv = <<>> THEN <<"none">> ELSE <<"structure", av \o sv>>

(* doValue: none if one of its own attributes has none, but a sub-object   *)
(* that has none is left out.                                              *)
RECURSIVE DoValue(_, _)
DoValue(do, fc) ==
  LET as == SelectSeq(do.attrs, LAMBDA a : a.fc = fc)
      av == [i \in DOMAIN as |-> DaValue(as[i])]
      sv == SelectSeq([i \in DOMAIN do.subs |-> DoValue(do.subs[i], fc)], LAMBDA v : v # <<"none">>)
  IN  IF (\E i \in DOMAIN av : av[i] = <<"none">>) \/ av \o sv = <<>> THEN <<"none">>
      ELSE <<"structure", av \o sv>>

(* Descend a data object by the parts that name sub-objects, then an       *)
(* attribute of the constraint by the rest: what is found, or <<>>.        *)
RECURSIVE FindAttr(_, _)
FindAttr(da, rest) ==
  IF rest = <<>> THEN <<"attr", da>>
  ELSE LET k == Pick(da.kids, Head(rest)) IN IF k = {} THEN <<"nothing">> ELSE FindAttr(First(da.kids, k), Tail(rest))

RECURSIVE FindIn(_, _, _)
FindIn(do, rest, fc) ==
  IF rest = <<>> THEN <<"object", do>>
  ELSE LET s == Pick(do.subs, Head(rest))
           a == {i \in Pick(do.attrs, Head(rest)) : do.attrs[i].fc = fc}
       IN  IF s # {} THEN FindIn(First(do.subs, s), Tail(rest), fc)
           ELSE IF a # {} THEN FindAttr(First(do.attrs, a), Tail(rest)) ELSE <<"nothing">>

Node(name) == First(ld, Pick(ld, name))

(* resolveRead of an item of a node the device has.                        *)
ResolveRead(item) ==
  LET ln == Node(item[1])
      vs == SelectSeq([i \in DOMAIN ln.objs |-> DoValue(ln.objs[i], item[2])], LAMBDA v : v # <<"none">>)
      o  == Pick(ln.objs, item[3])
      f  == FindIn(First(ln.objs, o), SubSeq(item, 4, Len(item)), item[2])
  IN  CASE Len(item) = 1 -> <<"none">>
        [] Len(item) = 2 -> <<"structure", vs>>
        [] Len(item) > 2 /\ o = {} -> <<"none">>
        [] Len(item) > 2 /\ o # {} -> CASE f[1] = "object" -> DoValue(f[2], item[2])
                                        [] f[1] = "attr" -> DaValue(f[2])
                                        [] f[1] = "nothing" -> <<"none">>

------------------------------------------------------------------------------
(* Type descriptions: "leaf", or the named members of a structure.         *)

RECURSIVE DaTypeSpec(_)
DaTypeSpec(da) ==
  IF da.kids = <<>> THEN <<"leaf">>
  ELSE <<"structure", [i \in DOMAIN da.kids |-> [name |-> da.kids[i].name, spec |-> DaTypeSpec(da.kids[i])]]>>

RECURSIVE DoTypeSpec(_, _)
DoTypeSpec(do, fc) ==
  LET as == SelectSeq(do.attrs, LAMBDA a : a.fc = fc)
      ss == SelectSeq(do.subs, LAMBDA s : HasFC(s, fc))
  IN  <<"structure", [i \in DOMAIN as |-> [name |-> as[i].name, spec |-> DaTypeSpec(as[i])]]
                     \o [i \in DOMAIN ss |-> [name |-> ss[i].name, spec |-> DoTypeSpec(ss[i], fc)]]>>

FcTypeSpec(ln, fc) ==
  LET os == SelectSeq(ln.objs, LAMBDA o : HasFC(o, fc))
  IN  <<"structure", [i \in DOMAIN os |-> [name |-> os[i].name, spec |-> DoTypeSpec(os[i], fc)]]>>

LnTypeSpec(ln) ==
  LET fs == SelectSeq(FCs, LAMBDA fc : \E i \in DOMAIN ln.objs : HasFC(ln.objs[i], fc))
  IN  <<"structure", [i \in DOMAIN fs |-> [name |-> fs[i], spec |-> FcTypeSpec(ln, fs[i])]]>>

TypeSpecFor(item) ==
  LET ln == Node(item[1])
      f  == FindIn(First(ln.objs, Pick(ln.objs, item[3])), SubSeq(item, 4, Len(item)), item[2])
  IN  CASE Len(item) = 1 -> LnTypeSpec(ln)
        [] Len(item) = 2 -> FcTypeSpec(ln, item[2])
        [] Len(item) > 2 -> CASE f[1] = "object" -> DoTypeSpec(f[2], item[2])
                              [] f[1] = "attr" -> DaTypeSpec(f[2])
                              [] f[1] = "nothing" -> <<"none">>

------------------------------------------------------------------------------
(* The client.                                                             *)

Init ==
  /\ ld \in Models
  /\ names = <<>> /\ seen = {} /\ tree = {} /\ dir = {} /\ probe = <<>>

(* classHolds: a control block is told by its constraint, the setting      *)
(* group control block by its name, and the rest is data.                  *)
ClassOf(fc, name) ==
  IF fc \in BlockFCs THEN fc ELSE IF fc = "SP" /\ name = "SGCB" THEN "SGCB" ELSE "DATA"

(* GetNameList, and objectsOfClass and Browse over it: an object is named  *)
(* by the third part, its members name it again.                           *)
GetNames ==
  /\ names = <<>> /\ dir = {}
  /\ names' = NamesForDomain
  /\ dir' = {<<n[1], n[3], ClassOf(n[2], n[3])>> : n \in {m \in Range(NamesForDomain) : Len(m) >= 3}}
  /\ UNCHANGED <<ld, seen, tree, probe>>

(* The leaves of a description grafted onto a data object under fc         *)
(* (expandTypeSpec, attrFromSpec).                                         *)
RECURSIVE LeavesOf(_, _)
LeavesOf(path, ts) ==
  IF ts[1] = "leaf" THEN {path}
  ELSE UNION {LeavesOf(Append(path, ts[2][i].name), ts[2][i].spec) : i \in DOMAIN ts[2]}

(* Faulty variant: an object is introspected under its first constraint    *)
(* only.                                                                   *)
IntrospectOnce ==
  /\ names # <<>>
  /\ LET n == Head(names)
         k == IF Len(n) >= 3 THEN <<n[1], n[3]>> ELSE <<>>
     IN  IF Len(n) < 3 \/ k \in seen THEN UNCHANGED <<seen, tree>>
         ELSE /\ seen' = seen \cup {k}
              /\ tree' = tree \cup {<<n[2], p>> : p \in LeavesOf(<<n[1], n[3]>>, TypeSpecFor(SubSeq(n, 1, 3)))}
  /\ names' = Tail(names) /\ probe' = <<>>
  /\ UNCHANGED <<ld, dir>>

(* retrieveDevice: each LN$FC$DO is introspected once.                     *)
Introspect ==
  /\ names # <<>>
  /\ LET n == Head(names)
         k == SubSeq(n, 1, 3)
     IN  IF Len(n) < 3 \/ k \in seen THEN UNCHANGED <<seen, tree>>
         ELSE /\ seen' = seen \cup {k}
              /\ tree' = tree \cup {<<n[2], p>> : p \in LeavesOf(<<n[1], n[3]>>, TypeSpecFor(k))}
  /\ names' = Tail(names) /\ probe' = <<>>
  /\ UNCHANGED <<ld, dir>>

(* Any name the server lists may be read.                                  *)
ReadName ==
  /\ names # <<>> /\ Len(Head(names)) > 1
  /\ probe' = [item |-> Head(names), spec |-> TypeSpecFor(Head(names)), value |-> ResolveRead(Head(names))]
  /\ UNCHANGED <<ld, names, seen, tree, dir>>

Next == GetNames \/ Introspect \/ ReadName
Spec == Init /\ [][Next]_vars

------------------------------------------------------------------------------
(* The leaves the server holds: constraint, and path from the node.        *)
RECURSIVE Held(_, _)
Held(path, do) ==
  LET RECURSIVE Under(_, _)
      Under(p, a) == IF a.kids = <<>> THEN {p} ELSE UNION {Under(Append(p, a.kids[i].name), a.kids[i]) : i \in DOMAIN a.kids}
  IN  UNION {{<<do.attrs[i].fc, p>> : p \in Under(Append(path, do.attrs[i].name), do.attrs[i])} : i \in DOMAIN do.attrs}
      \cup UNION {Held(Append(path, do.subs[i].name), do.subs[i]) : i \in DOMAIN do.subs}

HeldLeaves ==
  UNION {UNION {Held(<<ld[n].name, ld[n].objs[i].name>>, ld[n].objs[i]) : i \in DOMAIN ld[n].objs} : n \in DOMAIN ld}

(* A client that has walked the whole name list has rebuilt the server's   *)
(* model: every leaf, under its constraint, and no other; and its          *)
(* directory names every object by the class its constraint gives it       *)
(* (RetrieveModel, LogicalNodeDirectory against namesForDomain).           *)
RetrievedIsModel ==
  names = <<>> /\ dir # {} =>
    /\ tree = HeldLeaves
    /\ dir = UNION {UNION {{<<ld[n].name, ld[n].objs[i].name, ClassOf(fc, ld[n].objs[i].name)>> : fc \in FCsOf(ld[n].objs[i])}
                           : i \in DOMAIN ld[n].objs} : n \in DOMAIN ld}

(* What an item names: a data object or an attribute.                      *)
IsObject(item) ==
  Len(item) >= 3 /\ FindIn(First(Node(item[1]).objs, Pick(Node(item[1]).objs, item[3])), SubSeq(item, 4, Len(item)), item[2])[1] = "object"

(* The value v of an item has the members its description ts names, in     *)
(* their order and of their kinds, but for the data objects that cannot be *)
(* read on their own either.                                               *)
RECURSIVE Describes(_, _, _)
Describes(item, ts, v) ==
  \/ ts = <<"leaf">> /\ v = <<"leaf">>
  \/ LET Of(m) == Append(item, m.name)
         read == SelectSeq(ts[2], LAMBDA m : ResolveRead(Of(m)) # <<"none">>)
     IN  /\ ts[1] = "structure" /\ v[1] = "structure" /\ Len(read) = Len(v[2])
         /\ \A i \in DOMAIN ts[2] : ts[2][i] \in Range(read) \/ IsObject(Of(ts[2][i]))
         /\ \A i \in DOMAIN read : Describes(Of(read[i]), read[i].spec, v[2][i])

(* A read fails or returns the members the item's description names, in    *)
(* order: none is exchanged for another, and none is missing but a data    *)
(* object that has no value under the constraint, whose own read fails     *)
(* too.  An attribute is never left out (resolveRead, doValue against      *)
(* typeSpecFor, doTypeSpec, fcTypeSpec).                                   *)
ReadsAlign == probe # <<>> => probe.value = <<"none">> \/ Describes(probe.item, probe.spec, probe.value)

(* What access.go:197-202 asks for is more, and does not hold where a      *)
(* sub-object, or an object of an LN$FC read, has an attribute of a type   *)
(* the library does not know: "a structure with fewer components than the  *)
(* type specification declares" is returned (206-210, 124-129).            *)
RECURSIVE Whole(_, _)
Whole(ts, v) ==
  \/ ts = <<"leaf">> /\ v = <<"leaf">>
  \/ /\ ts[1] = "structure" /\ v[1] = "structure" /\ Len(ts[2]) = Len(v[2])
     /\ \A i \in DOMAIN ts[2] : Whole(ts[2][i].spec, v[2][i])
NeverShort == probe # <<>> => probe.value = <<"none">> \/ Whole(probe.spec, probe.value)
==============================================================================
