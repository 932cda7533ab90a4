------------------------------ MODULE MmsValue ------------------------------
(* MMS values and type specifications (mms/value.go, mms/typespec.go) as   *)
(* records, and how they are made.                                         *)
EXTENDS Integers, Sequences

(* A value is [typ, num, bytes, bitLen, kids], with what its type does not *)
(* use empty; a float is held by its octets.                               *)
Value(typ, num, bytes, bitLen, kids) == [typ |-> typ, num |-> num, bytes |-> bytes, bitLen |-> bitLen, kids |-> kids]
NewNum(typ, n) == Value(typ, n, <<>>, 0, <<>>)
NewBytes(typ, b) == Value(typ, 0, b, 0, <<>>)
NewKids(typ, kids) == Value(typ, 0, <<>>, 0, kids)

\* The octets are cut or extended to what the length needs.
NewBitStringBits(bits, length) ==
  Value("bit-string", 0, [i \in 1..((length + 7) \div 8) |-> IF i <= Len(bits) THEN bits[i] ELSE 0], length, <<>>)

(* A type specification; an array's element is its one component, without  *)
(* a name.                                                                 *)
TypeSpec(kind, size, elements, comps) == [kind |-> kind, size |-> size, elements |-> elements, comps |-> comps]
=============================================================================
