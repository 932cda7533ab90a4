------------------------------ MODULE MmsData ------------------------------
(***************************************************************************)
(* What MMS puts in BER: the Data CHOICE (mms/value_codec.go), the type    *)
(* specifications from which a client rebuilds a model (typespec.go), the  *)
(* alternate access of a data set member (altaccess.go), the object        *)
(* identifiers of the association (asn1/oid.go), and elements of any tag,  *)
(* such as the services above 30.  An item is encoded, may be re-encoded   *)
(* with indefinite lengths or cut short on its way, and is decoded by the  *)
(* other side.  Integers have up to four octets, TLC's own.                *)
(***************************************************************************)
EXTENDS Ber, MmsValue

CONSTANTS Values,             \* the MMS values sent
          Types,              \* the type specifications sent
          Accesses,           \* the alternate accesses sent
          Identifiers,        \* the object identifiers sent
          Elements,           \* the primitive elements sent: [tag, content]
          MaxCut,             \* where an item may be cut short, but for its last octet
          MaxValueDepth,      \* maxValueDepth
          MaxArrayElements,   \* maxArrayElements
          MaxBitStringBits,   \* maxBitStringBits
          MaxDefaultValues    \* maxDefaultValues

VARIABLES item,   \* what is sent: [what, v]
          pc,     \* "built", "sent" or "read"
          wire,   \* its octets
          whole,  \* whether all of them arrived
          out     \* what was decoded

vars == <<item, pc, wire, whole, out>>

-----------------------------------------------------------------------------
(* The Data CHOICE.                                                        *)

TagData ==
  [array |-> 1, structure |-> 2, boolean |-> 3] @@ ("bit-string" :> 4) @@ [integer |-> 5, unsigned |-> 6, float32 |-> 7, float64 |-> 7]
  @@ ("octet-string" :> 9) @@ ("visible-string" :> 10) @@ ("generalized-time" :> 11) @@ ("binary-time" :> 12)
  @@ ("mms-string" :> 16) @@ ("utc-time" :> 17) @@ ("data-access-error" :> 0)

Content(v) ==
  CASE v.typ = "boolean" -> AppendBool(v.num # 0)
    [] v.typ = "bit-string" -> AppendBitString(v.bytes, v.bitLen)
    [] v.typ = "integer" -> AppendInt(v.num)
    [] v.typ \in {"unsigned", "data-access-error"} -> AppendUint(v.num)
    [] v.typ \in {"float32", "float64"} -> AppendFloat(v.bytes)
    [] OTHER -> v.bytes

RECURSIVE DataElement(_)
DataElement(v) ==
  IF v.typ \in {"array", "structure"}
  THEN Constructed(ContextConstructed(TagData[v.typ]), [i \in DOMAIN v.kids |-> DataElement(v.kids[i])])
  ELSE Prim(ContextPrimitive(TagData[v.typ]), Content(v))

\* A primitive alternative by its tag number; an access error is an octet.
Text == [n \in {9, 10, 11, 16} |-> CASE n = 9 -> "octet-string" [] n = 10 -> "visible-string"
                                     [] n = 11 -> "generalized-time" [] n = 16 -> "mms-string"]

DecodePrimitive(tag, c) ==
  LET is(v) == [ok |-> TRUE, v |-> v]
  IN  CASE tag.num = 3 -> Then(DecodeBool(c), LAMBDA b : is(NewNum("boolean", IF b.v THEN 1 ELSE 0)))
        [] tag.num = 4 -> Then(DecodeBitString(c), LAMBDA b : is(NewBitStringBits(b.bits, b.length)))
        [] tag.num = 5 -> Then(DecodeInt(c), LAMBDA n : is(NewNum("integer", n.v)))
        [] tag.num = 6 -> Then(DecodeUint(c), LAMBDA n : is(NewNum("unsigned", n.v)))
        [] tag.num = 7 -> Then(DecodeFloat(c), LAMBDA f : is(NewBytes(IF Len(c) = 5 THEN "float32" ELSE "float64", f.v)))
        [] tag.num \in DOMAIN Text -> is(NewBytes(Text[tag.num], c))
        [] tag.num = 12 -> IF Len(c) \in {4, 6} THEN is(NewBytes("binary-time", c)) ELSE Bad
        [] tag.num = 17 -> IF Len(c) = 8 THEN is(NewBytes("utc-time", c)) ELSE Bad
        [] tag.num = 0 /\ ~tag.cons -> Then(DecodeUint(c), LAMBDA n : is(NewNum("data-access-error", n.v % 256)))
        [] OTHER -> Bad

\* decodeData; Members decodes the members of a structure or array in turn.
RECURSIVE DecodeData(_, _, _), Members(_, _, _)
Members(c, off, depth) ==
  IF off >= Len(c) THEN [ok |-> TRUE, v |-> <<>>]
  ELSE Then(DecodeData(c, off, depth), LAMBDA e :
       Then(Members(c, e.off, depth), LAMBDA rest : [ok |-> TRUE, v |-> <<e.v>> \o rest.v]))

DecodeData(d, off, depth) ==
  IF depth > MaxValueDepth THEN Bad
  ELSE Then(ReadTLV(d, off, 0), LAMBDA e :
         CASE e.tag.class # 2 -> Bad
           [] e.tag.class = 2 /\ e.tag.num \in {1, 2} ->
                Then(Members(e.content, 0, depth + 1), LAMBDA l :
                  [ok |-> TRUE, v |-> NewKids(IF e.tag.num = 1 THEN "array" ELSE "structure", l.v), off |-> e.off])
           [] OTHER -> Then(DecodePrimitive(e.tag, e.content), LAMBDA p : [ok |-> TRUE, v |-> p.v, off |-> e.off]))

-----------------------------------------------------------------------------
(* Type specifications.                                                    *)

Sized == {"bit-string", "octet-string", "visible-string", "mms-string"}

RECURSIVE TypeBER(_)
TypeBER(ts) ==
  LET tag == TagData[ts.kind]
      spec(c) == TypeBER(c.spec)
  IN  CASE ts.kind = "array" ->
             Constructed(ContextConstructed(1), <<Prim(ContextPrimitive(1), AppendUint(ts.elements)),
                                                  Constructed(ContextConstructed(2), <<spec(ts.comps[1])>>)>>)
        [] ts.kind = "structure" ->
             Constructed(ContextConstructed(2), <<Constructed(ContextConstructed(1), [i \in DOMAIN ts.comps |->
               Constructed(TagSequence, <<Prim(ContextPrimitive(0), ts.comps[i].name),
                                          Constructed(ContextConstructed(1), <<spec(ts.comps[i])>>)>>)])>>)
        [] ts.kind \in Sized -> Prim(ContextPrimitive(tag), AppendInt(ts.size))
        [] ts.kind \in {"integer", "unsigned"} -> Prim(ContextPrimitive(tag), AppendUint(ts.size))
        [] ts.kind \in {"float32", "float64"} ->
             Constructed(ContextConstructed(7), <<Prim(TagInteger, AppendInt(IF ts.kind = "float32" THEN 32 ELSE 64)),
                                                  Prim(TagInteger, AppendInt(IF ts.kind = "float32" THEN 8 ELSE 11))>>)
        [] ts.kind = "binary-time" -> Prim(ContextPrimitive(tag), AppendBool(TRUE))
        [] OTHER -> Prim(ContextPrimitive(tag), <<>>)

\* A product that goes on growing where it has to stop.
RECURSIVE ValueCountLoose(_)
ValueCountLoose(ts) ==
  IF ts.kind = "array" THEN 1 + ts.elements
  ELSE FoldLeft(LAMBDA n, c : n + ValueCountLoose(c.spec), 1, ts.comps)

\* valueCount saturates one past the limit.
RECURSIVE ValueCount(_)
ValueCount(ts) ==
  LET ceiling == MaxDefaultValues + 1
      most(n) == IF n >= ceiling THEN ceiling ELSE n
      per == ValueCount(ts.comps[1].spec)
  IN  CASE ts.kind = "array" ->
             IF per = 0 \/ ts.elements <= 0 THEN 1 ELSE IF ts.elements >= ceiling \div per THEN ceiling ELSE 1 + ts.elements * per
        [] ts.kind = "structure" -> FoldLeft(LAMBDA n, c : most(n + ValueCount(c.spec)), 1, ts.comps)
        [] OTHER -> 1

\* decodeTypeSpec; Components decodes the components of a structure.
RECURSIVE DecodeType(_, _, _), Components(_, _, _)
Components(c, off, depth) ==
  IF off >= Len(c) THEN [ok |-> TRUE, v |-> <<>>]
  ELSE Then(Expect(c, off, TagSequence), LAMBDA seq :
       Then(Optional(seq.content, 0, ContextPrimitive(0)), LAMBDA name :
       Then(Expect(seq.content, name.off, ContextConstructed(1)), LAMBDA spec :
       Then(DecodeType(spec.content, 0, depth), LAMBDA ts :
       Then(Components(c, seq.off, depth), LAMBDA rest :
         [ok |-> TRUE, v |-> <<[name |-> IF name.has THEN name.content ELSE <<>>, spec |-> ts.v]>> \o rest.v])))))

DecodeArray(c, depth) ==
  Then(Optional(c, 0, ContextPrimitive(0)), LAMBDA packed :
  Then(Expect(c, packed.off, ContextPrimitive(1)), LAMBDA nc :
  Then(DecodeUint(nc.content), LAMBDA n :
  Then(Expect(c, nc.off, ContextConstructed(2)), LAMBDA ec :
    IF n.v > MaxArrayElements THEN Bad
    ELSE Then(DecodeType(ec.content, 0, depth), LAMBDA e :
           [ok |-> TRUE, v |-> TypeSpec("array", 0, n.v, <<[name |-> <<>>, spec |-> e.v]>>)])))))

DecodeStructure(c, depth) ==
  Then(Optional(c, 0, ContextPrimitive(0)), LAMBDA packed :
  Then(Expect(c, packed.off, ContextConstructed(1)), LAMBDA comps :
  Then(Components(comps.content, 0, depth), LAMBDA l : [ok |-> TRUE, v |-> TypeSpec("structure", 0, 0, l.v)])))

DecodeLeaf(tag, c) ==
  LET kind == CHOOSE k \in DOMAIN TagData \ {"float32", "float64"} : TagData[k] = tag.num
  IN  CASE tag.num = 7 ->
             Then(Expect(c, 0, TagInteger), LAMBDA w :
             Then(DecodeInt(w.content), LAMBDA n :
               [ok |-> TRUE, v |-> TypeSpec(IF n.v > 32 THEN "float64" ELSE "float32", 0, 0, <<>>)]))
        [] tag.num # 7 /\ tag.num \notin {TagData[k] : k \in DOMAIN TagData \ {"data-access-error"}} -> Bad
        [] tag.num \in {4, 5, 6, 9, 10, 16} ->
             Then(IF kind \in Sized THEN DecodeInt(c) ELSE DecodeUint(c), LAMBDA n :
               IF kind = "bit-string" /\ n.v \notin (-MaxBitStringBits)..MaxBitStringBits THEN Bad
               ELSE [ok |-> TRUE, v |-> TypeSpec(kind, n.v, 0, <<>>)])
        [] OTHER -> [ok |-> TRUE, v |-> TypeSpec(kind, 0, 0, <<>>)]

DecodeType(d, off, depth) ==
  IF depth > MaxValueDepth THEN Bad
  ELSE Then(ReadTLV(d, off, 0), LAMBDA e :
         CASE e.tag.class # 2 -> Bad
           [] e.tag.class = 2 /\ e.tag.num = 1 -> DecodeArray(e.content, depth + 1)
           [] e.tag.class = 2 /\ e.tag.num = 2 -> DecodeStructure(e.content, depth + 1)
           [] OTHER -> DecodeLeaf(e.tag, e.content))

DecodeTypeSpec(d) ==
  Then(DecodeType(d, 0, 0), LAMBDA ts : IF ValueCount(ts.v) > MaxDefaultValues THEN Bad ELSE ts)

\* DefaultValue, with a string or time of its fixed length zeroed.
Zeros(n) == [i \in 1..n |-> 0]

RECURSIVE DefaultValue(_)
DefaultValue(ts) ==
  CASE ts.kind = "array" -> NewKids("array", [i \in 1..ts.elements |-> DefaultValue(ts.comps[1].spec)])
    [] ts.kind = "structure" -> NewKids("structure", [i \in DOMAIN ts.comps |-> DefaultValue(ts.comps[i].spec)])
    [] ts.kind = "bit-string" -> NewBitStringBits(<<>>, IF ts.size < 0 THEN -ts.size ELSE ts.size)
    [] ts.kind = "float32" -> NewBytes("float32", Zeros(4))
    [] ts.kind = "float64" -> NewBytes("float64", Zeros(8))
    [] ts.kind = "binary-time" -> NewBytes(ts.kind, Zeros(6))
    [] ts.kind = "utc-time" -> NewBytes(ts.kind, Zeros(8))
    [] OTHER -> NewNum(ts.kind, 0)

-----------------------------------------------------------------------------
(* Alternate access: a chain of steps [component, index], the index taken  *)
(* where there is no component, every step but the last a                  *)
(* selectAlternateAccess.                                                  *)

Selection(s, offset) ==
  IF s.component # <<>> THEN Prim(ContextPrimitive(offset), s.component)
  ELSE Prim(ContextPrimitive(offset + 1), AppendUint(s.index))

RECURSIVE AlternateAccessElement(_)
AlternateAccessElement(steps) ==
  IF Len(steps) = 1 THEN Selection(steps[1], 1)
  ELSE Constructed(ContextConstructed(0), <<Selection(steps[1], 0), Constructed(TagSequence, <<AlternateAccessElement(Tail(steps))>>)>>)

\* selection: its numbers sit one higher in selectAccess, which offset absorbs; a
\* component path may be written whole, in parts separated by a dollar sign (36).
DecodeSelection(tag, c, offset) ==
  LET split == FoldLeft(LAMBDA ps, o : IF o = 36 THEN Append(ps, <<>>) ELSE [ps EXCEPT ![Len(ps)] = Append(@, o)], <<<<>>>>, c)
  IN  CASE tag.num - offset = 0 ->
             IF tag.cons THEN Bad ELSE [ok |-> TRUE, v |-> [i \in DOMAIN split |-> [component |-> split[i], index |-> 0]]]
        [] tag.num - offset = 1 ->
             Then(DecodeUint(c), LAMBDA n : [ok |-> TRUE, v |-> <<[component |-> <<>>, index |-> n.v]>>])
        [] OTHER -> Bad

RECURSIVE ParseAlternateAccess(_)
ParseAlternateAccess(d) ==
  IF d = <<>> THEN [ok |-> TRUE, v |-> <<>>]
  ELSE Then(ReadTLV(d, 0, 0), LAMBDA e :
         CASE e.off < Len(d) -> Bad
           [] e.off >= Len(d) /\ e.tag = ContextConstructed(0) ->
                Then(ReadTLV(e.content, 0, 0), LAMBDA sel :
                Then(DecodeSelection(sel.tag, sel.content, 0), LAMBDA step :
                Then(Expect(e.content, sel.off, TagSequence), LAMBDA rest :
                Then(ParseAlternateAccess(rest.content), LAMBDA more : [ok |-> TRUE, v |-> step.v \o more.v]))))
           [] e.off >= Len(d) /\ e.tag.class = 2 /\ e.tag.num \in 1..4 -> DecodeSelection(e.tag, e.content, 1)
           [] OTHER -> Bad)

-----------------------------------------------------------------------------

Sent == item.v

Element ==
  CASE item.what = "value" -> DataElement(Sent) [] item.what = "type" -> TypeBER(Sent)
    [] item.what = "access" -> AlternateAccessElement(Sent) [] item.what = "oid" -> Prim([TagInteger EXCEPT !.num = 6], AppendOID(Sent))
    [] item.what = "element" -> Prim(Sent.tag, Sent.content)

Decoded(d) ==
  CASE item.what = "value" -> DecodeData(d, 0, 0) [] item.what = "type" -> DecodeTypeSpec(d)
    [] item.what = "access" -> ParseAlternateAccess(d)
    [] item.what = "oid" -> Then(Expect(d, 0, [TagInteger EXCEPT !.num = 6]), LAMBDA e : DecodeOID(e.content))
    [] item.what = "element" -> Then(ReadTLV(d, 0, 0), LAMBDA e : [ok |-> TRUE, v |-> [tag |-> e.tag, content |-> e.content]])

Init ==
  /\ \/ \E v \in Values : item = [what |-> "value", v |-> v]
     \/ \E t \in Types : item = [what |-> "type", v |-> t]
     \/ \E a \in Accesses : item = [what |-> "access", v |-> a]
     \/ \E o \in Identifiers : item = [what |-> "oid", v |-> o]
     \/ \E e \in Elements : item = [what |-> "element", v |-> e]
  /\ pc = "built" /\ wire = <<>> /\ whole = TRUE /\ out = Bad

Send == pc = "built" /\ pc' = "sent" /\ wire' = Encode(Element) /\ UNCHANGED <<item, whole, out>>

\* A peer's encoder may use the indefinite length.
SendIndefinite == pc = "built" /\ pc' = "sent" /\ wire' = EncodeIndefinite(Element) /\ UNCHANGED <<item, whole, out>>

\* A PDU that ends early.
Truncate ==
  /\ pc = "sent" /\ whole
  /\ \E n \in 1..(Len(wire) - 1) : (n <= MaxCut \/ n = Len(wire) - 1) /\ wire' = SubSeq(wire, 1, n)
  /\ whole' = FALSE /\ UNCHANGED <<item, pc, out>>

Receive == pc = "sent" /\ pc' = "read" /\ out' = Decoded(wire) /\ UNCHANGED <<item, wire, whole>>

Next == Send \/ SendIndefinite \/ Truncate \/ Receive

Spec == Init /\ [][Next]_vars

-----------------------------------------------------------------------------
(* Properties.                                                             *)

\* The number of values a type describes, counted without a limit.
RECURSIVE Materialised(_)
Materialised(v) == 1 + FoldLeft(LAMBDA n, c : n + Materialised(c), 0, v.kids)

\* The other side reads what was sent, whole and nothing else: an MMS value, a
\* type specification, an alternate access, an object identifier or an element
\* of any tag decodes to what was encoded, in definite and indefinite lengths,
\* at the boundaries of the tag forms (31 and the powers of 128), of the length
\* forms up to 65536 and of the integer forms up to four octets; one that ends
\* early is refused rather than read as something shorter (DecodeData,
\* DecodeTypeSpec, ParseAlternateAccess, DecodeOID, ReadTLV against their
\* encoders).  A type may only be refused for its size.
DecodesAsSent ==
  pc = "read" =>
    IF ~whole THEN ~out.ok
    ELSE \/ out.ok /\ out.v = Sent
         \/ item.what = "type" /\ ~out.ok /\ Materialised(DefaultValue(Sent)) > MaxDefaultValues \div 2

\* The size an element is given ahead is the octets it takes, at every boundary
\* of the tag and length forms, on which segmentation and the PDU limit depend
\* (Element.Size against Element.Append), but for tag numbers from 2^28 on, which
\* take an octet more than TagSize says (asn1/ber.go:138-139); the octets of an element read to be
\* signed are the ones it came in (ReadSpan); and a type accepted from a peer never
\* materialises more values than the limit (valueCount against DefaultValue).
SizesTrue ==
  /\ pc = "built" /\ Element.tag.num < 2^28 => Size(Element) = Len(Encode(Element))
  /\ pc = "read" /\ whole => ReadSpan(wire, 0).ok /\ ReadSpan(wire, 0).full = wire
  /\ (pc = "read" /\ out.ok /\ item.what = "type") => Materialised(DefaultValue(out.v)) <= MaxDefaultValues

=============================================================================
