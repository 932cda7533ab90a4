-------------------------------- MODULE Ber --------------------------------
(***************************************************************************)
(* The BER runtime (package asn1): tags, lengths, element trees and their  *)
(* sizes, the bounds-checked decoder with its scan for the end of an       *)
(* indefinite-length element, and the primitive contents.  An octet is a   *)
(* number 0..255.  Operators only; MmsData checks them on what MMS sends.  *)
(*                                                                         *)
(* A decoding result is [ok |-> FALSE] or [ok |-> TRUE, ...] with the      *)
(* offset reached.                                                         *)
(***************************************************************************)
EXTENDS Integers, Sequences, SequencesExt

CONSTANT MaxDepth   \* the nesting limit

Bad == [ok |-> FALSE]

\* What follows a step of a decoder, unless the step failed.
Then(r, K(_)) == IF r.ok THEN K(r) ELSE Bad

ContextPrimitive(n) == [class |-> 2, cons |-> FALSE, num |-> n]
ContextConstructed(n) == [class |-> 2, cons |-> TRUE, num |-> n]
TagSequence == [class |-> 0, cons |-> TRUE, num |-> 16]
TagInteger == [class |-> 0, cons |-> FALSE, num |-> 2]

\* The digits of a number in base r, most significant first.
RECURSIVE Digits(_, _)
Digits(v, r) == IF v < r THEN <<v>> ELSE Append(Digits(v \div r, r), v % r)

Number(ds, r) == FoldLeft(LAMBDA v, d : v * r + d, 0, ds)

AppendBase128(v) == LET d == Digits(v, 128) IN [i \in DOMAIN d |-> d[i] + (IF i < Len(d) THEN 128 ELSE 0)]

AppendTag(t) ==
  LET b == t.class * 64 + (IF t.cons THEN 32 ELSE 0)
  IN  IF t.num < 31 THEN <<b + t.num>> ELSE <<b + 31>> \o AppendBase128(t.num)

AppendLength(n) == IF n < 128 THEN <<n>> ELSE <<128 + Len(Digits(n, 256))>> \o Digits(n, 256)

TagSize(t) ==
  CASE t.num < 31 -> 1 [] t.num \in 31..(2^7 - 1) -> 2 [] t.num \in (2^7)..(2^14 - 1) -> 3
    [] t.num \in (2^14)..(2^21 - 1) -> 4 [] OTHER -> 5

\* One octet too few at the top of the short form.
LengthSizeShort(n) ==
  CASE n <= 128 -> 1 [] n \in 129..255 -> 2 [] n \in 256..65535 -> 3 [] n \in 65536..16777215 -> 4 [] OTHER -> 5

LengthSize(n) ==
  CASE n < 128 -> 1 [] n \in 128..255 -> 2 [] n \in 256..65535 -> 3 [] n \in 65536..16777215 -> 4 [] OTHER -> 5

-----------------------------------------------------------------------------
(* Element trees.                                                          *)

Prim(t, value) == [tag |-> t, value |-> value, kids |-> <<>>]
Constructed(t, kids) == [tag |-> [t EXCEPT !.cons = TRUE], value |-> <<>>, kids |-> kids]

RECURSIVE ContentSize(_)
ContentSize(el) ==
  IF el.tag.cons
  THEN FoldLeft(LAMBDA n, c : n + TagSize(c.tag) + LengthSize(ContentSize(c)) + ContentSize(c), 0, el.kids)
  ELSE Len(el.value)

Size(el) == TagSize(el.tag) + LengthSize(ContentSize(el)) + ContentSize(el)

\* Element.Append: the length is the size computed, not the octets then written.
RECURSIVE Encode(_)
Encode(el) ==
  AppendTag(el.tag) \o AppendLength(ContentSize(el))
    \o (IF el.tag.cons THEN FlattenSeq([i \in DOMAIN el.kids |-> Encode(el.kids[i])]) ELSE el.value)

\* The same element as a peer that uses the indefinite length would send it.
RECURSIVE EncodeIndefinite(_)
EncodeIndefinite(el) ==
  IF el.tag.cons
  THEN AppendTag(el.tag) \o <<128>> \o FlattenSeq([i \in DOMAIN el.kids |-> EncodeIndefinite(el.kids[i])]) \o <<0, 0>>
  ELSE Encode(el)

-----------------------------------------------------------------------------
(* The decoder: off octets of d are consumed.                              *)

\* The digits of a base-128 number that fits 32 bits: at most five, and the fifth
\* only where the first four leave room for it.
Fits32(ds) == Len(ds) < 5 \/ (Len(ds) = 5 /\ Number(Front(ds), 128) <= 2^25 - 1)

ReadTag(d, off) ==
  IF off >= Len(d) THEN Bad
  ELSE LET b == d[off + 1]
           low == [class |-> b \div 64, cons |-> (b \div 32) % 2 = 1, num |-> b % 32]
           last == {i \in (off + 2)..Len(d) : d[i] < 128 /\ \A j \in (off + 2)..(i - 1) : d[j] >= 128}
       IN  IF low.num # 31 THEN [ok |-> TRUE, tag |-> low, off |-> off + 1]
           ELSE IF last = {} THEN Bad
           ELSE LET i == CHOOSE i \in last : TRUE
                    ds == [j \in 1..(i - off - 1) |-> d[off + 1 + j] % 128]
                IN  IF Fits32(ds) THEN [ok |-> TRUE, off |-> i, tag |-> [low EXCEPT !.num = Number(ds, 128)]] ELSE Bad

ReadLength(d, off) ==
  IF off >= Len(d) THEN Bad
  ELSE LET b == d[off + 1]
           n == b % 128
       IN  CASE b < 128 -> [ok |-> TRUE, n |-> b, indef |-> FALSE, off |-> off + 1]
             [] b = 128 -> [ok |-> TRUE, n |-> 0, indef |-> TRUE, off |-> off + 1]
             [] b > 128 /\ (n > 4 \/ off + 1 + n > Len(d)) -> Bad
             [] OTHER -> [ok |-> TRUE, n |-> Number(SubSeq(d, off + 2, off + 1 + n), 256), indef |-> FALSE, off |-> off + 1 + n]

TLV(t, d, from, to, next) == [ok |-> TRUE, tag |-> t, content |-> SubSeq(d, from + 1, to), off |-> next]

\* The content is cut off where the input ends.
ReadTLVShort(d, off, depth) ==
  IF depth > MaxDepth THEN Bad
  ELSE Then(ReadTag(d, off), LAMBDA t :
       Then(ReadLength(d, t.off), LAMBDA l :
         IF l.indef THEN Bad
         ELSE IF l.n > Len(d) - l.off THEN TLV(t.tag, d, l.off, Len(d), Len(d))
         ELSE TLV(t.tag, d, l.off, l.off + l.n, l.off + l.n)))

\* readTLV; Scan looks for the end-of-contents octets, element by element.
RECURSIVE ReadTLV(_, _, _), Scan(_, _, _)
Scan(d, off, depth) ==
  IF off + 2 <= Len(d) /\ d[off + 1] = 0 /\ d[off + 2] = 0 THEN [ok |-> TRUE, off |-> off]
  ELSE Then(ReadTLV(d, off, depth + 1), LAMBDA e : Scan(d, e.off, depth))

ReadTLV(d, off, depth) ==
  IF depth > MaxDepth THEN Bad
  ELSE Then(ReadTag(d, off), LAMBDA t :
       Then(ReadLength(d, t.off), LAMBDA l :
         CASE ~l.indef -> IF l.n > Len(d) - l.off THEN Bad ELSE TLV(t.tag, d, l.off, l.off + l.n, l.off + l.n)
           [] l.indef /\ ~t.tag.cons -> Bad
           [] OTHER -> Then(Scan(d, l.off, depth), LAMBDA e : TLV(t.tag, d, l.off, e.off, e.off + 2))))

\* ReadSpan: the element with its octets, and its content with the end-of-contents.
ReadSpan(d, off) ==
  Then(ReadTLV(d, off, 0), LAMBDA e :
    [ok |-> TRUE, full |-> SubSeq(d, off + 1, e.off), content |-> e.content, off |-> e.off,
     contentEOC |-> SubSeq(d, ReadLength(d, ReadTag(d, off).off).off + 1, e.off)])

\* Expect, and Optional: [ok, has, content, off].
Expect(d, off, t) == Then(ReadTLV(d, off, 0), LAMBDA e : IF e.tag = t THEN e ELSE Bad)

Optional(d, off, t) ==
  IF off >= Len(d) THEN [ok |-> TRUE, has |-> FALSE, off |-> off]
  ELSE Then(ReadTag(d, off), LAMBDA g :
         IF g.tag # t THEN [ok |-> TRUE, has |-> FALSE, off |-> off]
         ELSE Then(ReadTLV(d, off, 0), LAMBDA e : [ok |-> TRUE, has |-> TRUE, content |-> e.content, off |-> e.off]))

-----------------------------------------------------------------------------
(* Primitive contents.                                                     *)

RECURSIVE IntSize(_)
IntSize(v) == IF v > 127 \/ v < -128 THEN 1 + IntSize(v \div 256) ELSE 1

AppendInt(v) == LET n == IntSize(v) IN [i \in 1..n |-> (v \div (256 ^ (n - i))) % 256]

DecodeInt(c) ==
  IF Len(c) \notin 1..8 THEN Bad
  ELSE [ok |-> TRUE, v |-> FoldLeft(LAMBDA v, b : v * 256 + b, IF c[1] > 127 THEN c[1] - 256 ELSE c[1], Tail(c))]

RECURSIVE UintSize(_)
UintSize(v) == IF v > 127 THEN 1 + UintSize(v \div 256) ELSE 1

AppendUint(v) == LET n == UintSize(v) IN [i \in 1..n |-> (v \div (256 ^ (n - i))) % 256]

DecodeUint(c) ==
  IF Len(c) = 0 \/ Len(c) > 9 \/ (Len(c) = 9 /\ c[1] # 0) THEN Bad ELSE [ok |-> TRUE, v |-> Number(c, 256)]

AppendBool(b) == IF b THEN <<255>> ELSE <<0>>

DecodeBool(c) == IF Len(c) # 1 THEN Bad ELSE [ok |-> TRUE, v |-> c[1] # 0]

\* The octets are cut or extended to what the length needs.
Fit(bits, need) == [i \in 1..need |-> IF i <= Len(bits) THEN bits[i] ELSE 0]

AppendBitString(bits, length) == LET need == (length + 7) \div 8 IN <<need * 8 - length>> \o Fit(bits, need)

DecodeBitString(c) ==
  IF Len(c) = 0 THEN Bad
  ELSE IF c[1] > 7 \/ (Len(c) = 1 /\ c[1] # 0) THEN Bad
  ELSE [ok |-> TRUE, bits |-> Tail(c), length |-> (Len(c) - 1) * 8 - c[1]]

\* A 32-bit or 64-bit value by its octets, after the width of its exponent.
AppendFloat(octets) == <<IF Len(octets) = 4 THEN 8 ELSE 11>> \o octets

DecodeFloat(c) ==
  IF (Len(c) = 5 /\ c[1] = 8) \/ (Len(c) = 9 /\ c[1] = 11) THEN [ok |-> TRUE, v |-> Tail(c)] ELSE Bad

\* Object identifiers: the first two arcs make one number.
AppendOID(o) ==
  IF Len(o) < 2 THEN <<>> ELSE FlattenSeq(<<AppendBase128(o[1] * 40 + o[2])>> \o [i \in 1..(Len(o) - 2) |-> AppendBase128(o[i + 2])])

\* The digits of the arcs, each up to an octet that ends it.
RECURSIVE Arcs(_)
Arcs(c) ==
  IF c = <<>> THEN <<>>
  ELSE LET i == CHOOSE i \in DOMAIN c : c[i] < 128 /\ \A j \in 1..(i - 1) : c[j] >= 128
       IN  <<[j \in 1..i |-> c[j] % 128]>> \o Arcs(SubSeq(c, i + 1, Len(c)))

DecodeOID(c) ==
  IF c = <<>> THEN Bad
  ELSE IF Last(c) >= 128 THEN Bad
  ELSE IF \E ds \in Range(Arcs(c)) : ~Fits32(ds) THEN Bad
  ELSE LET a == [i \in DOMAIN Arcs(c) |-> Number(Arcs(c)[i], 128)]
           first == IF Head(a) \div 40 > 2 THEN 2 ELSE Head(a) \div 40
       IN  [ok |-> TRUE, v |-> <<first, Head(a) - first * 40>> \o Tail(a)]

=============================================================================
