--------------------------- MODULE ServerDataProofs ---------------------------
(***************************************************************************)
(* The parts of the server that MCServerData runs side by side, for any    *)
(* number of data sets, control blocks, files, clients, connections and    *)
(* pieces, pages of any size, and files and chunks of any length.  Every   *)
(* part has an inductive invariant of its own; a step of one part leaves   *)
(* the state of the others alone.                                          *)
(***************************************************************************)
EXTENDS MCServerData, Integers, TLAPS

----------------------------------------------------------------------------
(* What the proofs use of finite sets and of numbers.  The lemmas that     *)
(* count take it as a hypothesis, and FiniteSetsCount discharges it from   *)
(* the library before the theorems.                                        *)
Counted == \A S : IsFiniteSet(S) => Cardinality(S) \in Nat
NoneCounted == IsFiniteSet({}) /\ Cardinality({}) = 0 /\ \A S : IsFiniteSet(S) => (Cardinality(S) = 0 <=> S = {})
OnlyOne == \A x : IsFiniteSet({x}) /\ Cardinality({x}) = 1
OneMore == \A S, x : IsFiniteSet(S) => /\ IsFiniteSet(S \cup {x})
                                       /\ Cardinality(S \cup {x}) = IF x \in S THEN Cardinality(S) ELSE Cardinality(S) + 1
OneLess == \A S, x : IsFiniteSet(S) => /\ IsFiniteSet(S \ {x})
                                       /\ Cardinality(S \ {x}) = IF x \in S THEN Cardinality(S) - 1 ELSE Cardinality(S)
PartsFinite == \A S : \A P \in SUBSET S :
                 IsFiniteSet(S) => /\ IsFiniteSet(P) /\ Cardinality(P) <= Cardinality(S)
                                   /\ Cardinality(S) = Cardinality(P) => S = P
IntervalCounted == \A n \in Nat : IsFiniteSet(1..n) /\ Cardinality(1..n) = n
OntoIsOneToOne ==
  \A S, P : \A f \in [S -> P] :
    IsFiniteSet(S) /\ Cardinality(S) = Cardinality(P) /\ (\A y \in P : \E x \in S : f[x] = y)
      => \A x, y \in S : f[x] = f[y] => x = y
HasLeast == \A S \in SUBSET Nat : S # {} => \E x \in S : \A y \in S : x <= y

FiniteFacts ==
  /\ Counted /\ NoneCounted /\ OnlyOne /\ OneMore /\ OneLess /\ PartsFinite
  /\ IntervalCounted /\ OntoIsOneToOne /\ HasLeast

----------------------------------------------------------------------------
(* File transfers.                                                         *)
(* What a transfer keeps while it goes on: a download has not passed the   *)
(* end of the file, which only grows past the size announced; a SetFile    *)
(* has written what it has read.                                           *)
InProgress ==
  /\ get.pos <= len /\ get.size <= len
  /\ put.written = put.pos /\ put.pos <= put.size

TransferInv == TypeOK /\ InProgress /\ TransferWhole

(* io.ReadFull returns no more than is left and than was asked for, and    *)
(* less than a chunk only at the end.                                      *)
LEMMA ReadFullBounds ==
  ASSUME NEW left \in Nat, NEW chunk \in Nat \ {0}
  PROVE  /\ ReadFull(left, chunk) \in Nat
         /\ ReadFull(left, chunk) <= left /\ ReadFull(left, chunk) <= chunk
         /\ ReadFull(left, chunk) # chunk => ReadFull(left, chunk) = left
BY DEF ReadFull

LEMMA TransferInit == ASSUME Init PROVE TransferInv
BY FTAssumption DEF Init, TransferInv, TypeOK, InProgress, TransferWhole

LEMMA FileOpenSound == ASSUME TransferInv, NEW pos \in 0..MaxLen, FileOpen(pos) PROVE TransferInv'
BY FTAssumption DEF FileOpen, TransferInv, TypeOK, InProgress, TransferWhole

LEMMA FileReadSound == ASSUME TransferInv, FileRead PROVE TransferInv'
<1> DEFINE n == ReadFull(len - get.pos, Chunk)
           more == n = Chunk /\ get.pos + n < get.size
<1>1. /\ n \in Nat /\ n <= len - get.pos
      /\ n # Chunk => n = len - get.pos
  <2>1. len - get.pos \in Nat
    BY FTAssumption DEF TransferInv, TypeOK, InProgress
  <2> QED BY <2>1, ReadFullBounds, FTAssumption
<1>2. get' = [get EXCEPT !.pos = get.pos + n, !.st = IF more THEN "open" ELSE "done"]
      /\ len' = len /\ put' = put
  BY DEF FileRead
<1> HIDE DEF n
<1>3. get.pos + n \in 0..MaxLen /\ get.pos + n <= len
  BY <1>1, FTAssumption DEF TransferInv, TypeOK, InProgress
<1>4. ~more => get.pos + n >= get.size
  BY <1>1, FTAssumption DEF TransferInv, TypeOK, InProgress
<1> QED BY <1>2, <1>3, <1>4, FTAssumption DEF TransferInv, TypeOK, InProgress, TransferWhole

LEMMA GrowSound == ASSUME TransferInv, Grow PROVE TransferInv'
BY FTAssumption DEF Grow, TransferInv, TypeOK, InProgress, TransferWhole

LEMMA FetchReadSound == ASSUME TransferInv, FetchRead PROVE TransferInv'
<1> DEFINE n == ReadFull(put.size - put.pos, SendChunk)
<1>1. /\ n \in Nat /\ n <= put.size - put.pos
      /\ n # SendChunk => n = put.size - put.pos
  <2>1. put.size - put.pos \in Nat
    BY FTAssumption DEF TransferInv, TypeOK, InProgress
  <2> QED BY <2>1, ReadFullBounds, FTAssumption
<1>2. /\ put' = IF put.written + n > MaxObtained THEN [put EXCEPT !.st = "failed"]
                ELSE [put EXCEPT !.pos = put.pos + n, !.written = put.written + n,
                                 !.st = IF n = SendChunk THEN "open" ELSE "stored"]
      /\ len' = len /\ get' = get /\ put.st = "open"
  BY DEF FetchRead
<1> HIDE DEF n
<1>3. CASE put.written + n > MaxObtained
  BY <1>1, <1>2, <1>3, FTAssumption DEF TransferInv, TypeOK, InProgress, TransferWhole
<1>4. CASE ~(put.written + n > MaxObtained)
  <2>1. put' = [put EXCEPT !.pos = put.pos + n, !.written = put.written + n,
                           !.st = IF n = SendChunk THEN "open" ELSE "stored"]
    BY <1>2, <1>4
  <2>2. put.pos + n \in 0..MaxLen /\ put.written + n \in 0..MaxLen
        /\ put.written + n = put.pos + n /\ put.pos + n <= put.size
    BY <1>1, FTAssumption DEF TransferInv, TypeOK, InProgress
  <2>3. n # SendChunk => put.written + n = put.size
    BY <1>1, FTAssumption DEF TransferInv, TypeOK, InProgress
  <2>4. TypeOK'
    BY <1>2, <2>1, <2>2 DEF TransferInv, TypeOK
  <2>5. InProgress'
    BY <1>2, <2>1, <2>2 DEF TransferInv, TypeOK, InProgress
  <2>6. TransferWhole'
    BY <1>2, <2>1, <2>3 DEF TransferInv, TypeOK, TransferWhole
  <2> QED BY <2>4, <2>5, <2>6 DEF TransferInv
<1> QED BY <1>3, <1>4

LEMMA TransferStep == TransferInv /\ [Next]_vars => TransferInv'
<1> SUFFICES ASSUME TransferInv, [Next]_vars PROVE TransferInv'
  OBVIOUS
<1>1. CASE \E pos \in 0..MaxLen : FileOpen(pos)
  BY <1>1, FileOpenSound
<1>2. CASE FileRead
  BY <1>2, FileReadSound
<1>3. CASE Grow
  BY <1>3, GrowSound
<1>4. CASE FetchRead
  BY <1>4, FetchReadSound
<1>5. CASE UNCHANGED vars
  BY <1>5 DEF vars, TransferInv, TypeOK, InProgress, TransferWhole
<1> QED BY <1>1, <1>2, <1>3, <1>4, <1>5 DEF Next

----------------------------------------------------------------------------
(* Sequences of one length that agree at every place are the same, and a  *)
(* sequence over a set is one over any larger set.                        *)
LEMMA SameSeq ==
  ASSUME NEW S, NEW s \in Seq(S), NEW z \in Seq(S), Len(s) = Len(z), \A i \in 1..Len(s) : s[i] = z[i]
  PROVE  s = z
OBVIOUS

LEMMA WiderSeq == ASSUME NEW S, NEW P, S \subseteq P, NEW s \in Seq(S) PROVE s \in Seq(P)
OBVIOUS

(* SetFile.  Calls are made in turn, and one that the server answered has  *)
(* its fetch behind it.  A call after which none was left is alone with    *)
(* its fileServer, which has served what the server has written.           *)
Fetched(t, k) == [n \in 1..k |-> <<t, n>>]
NoneLeft(t) == \A u \in 1..(t - 1) : call[u] # "left"

(* The open files of a fileServer are places by identifier.                *)
Map == UNION {[D -> Nat] : D \in SUBSET Nat}
FetchState == [pc : {"none", "open", "read", "close", "done"}, frsm : Nat,
               got : Seq(T \X Nat), ok : BOOLEAN]

ObtainTypes ==
  /\ call \in [T -> {"none", "out", "ok", "error", "left"}]
  /\ files \in T \cup {0}
  /\ fsrv \in [T -> [next : Nat, open : Map]]
  /\ fetch \in [T -> FetchState]

InTurn ==
  /\ \A t \in T : call[t] # "none" => \A u \in 1..(t - 1) : call[u] \notin {"none", "out"}
  /\ \A t \in T : call[t] = "out" <=> files = t
  /\ \A t \in T : call[t] = "none" => fetch[t].pc = "none" /\ fetch[t].got = <<>> /\ ~fetch[t].ok
  /\ \A t \in T : call[t] \in {"ok", "error"} => fetch[t].pc = "done"

Serving(t) ==
  /\ fetch[t].pc # "none"
  /\ fetch[t].pc = "open" => fetch[t].got = <<>> /\ ~fetch[t].ok
  /\ fetch[t].pc = "read" =>
       /\ ~fetch[t].ok
       /\ fetch[t].frsm \in DOMAIN fsrv[t].open
       /\ fsrv[t].open[fetch[t].frsm] < Pieces
       /\ fetch[t].got = Fetched(t, fsrv[t].open[fetch[t].frsm])
  /\ fetch[t].pc \in {"close", "done"} /\ fetch[t].ok => fetch[t].got = Fetched(t, Pieces)

ObtainInv ==
  /\ ObtainTypes /\ InTurn /\ StoredWhole
  /\ \A t \in T : call[t] = "out" /\ NoneLeft(t) => Serving(t)


LEMMA IsMap == ASSUME NEW D \in SUBSET Nat, NEW g \in [D -> Nat] PROVE g \in Map
BY DEF Map

LEMMA MapIs == ASSUME NEW o \in Map PROVE DOMAIN o \in SUBSET Nat /\ o \in [DOMAIN o -> Nat]
BY DEF Map

LEMMA Ordered ==
  \A x \in Nat, y \in Nat \ {0} : (x <= y => ~(x > y)) /\ (x <= y /\ ~(x < y) => x = y)
OBVIOUS

(* What has been fetched, one piece at a time.                             *)
LEMMA FetchedNone == ASSUME NEW t PROVE Fetched(t, 0) = <<>>
BY DEF Fetched

LEMMA FetchedMore ==
  ASSUME NEW t \in Nat, NEW k \in Nat
  PROVE  Append(Fetched(t, k), <<t, k + 1>>) = Fetched(t, k + 1)
<1> DEFINE s == Fetched(t, k)
           x == <<t, k + 1>>
<1>1. s \in Seq(Nat \X Nat) /\ Len(s) = k
  BY DEF Fetched
<1>2. x \in Nat \X Nat
  OBVIOUS
<1> HIDE DEF x
<1>3. /\ Append(s, x) \in Seq(Nat \X Nat) /\ Len(Append(s, x)) = k + 1
      /\ \A n \in 1..k : Append(s, x)[n] = s[n]
      /\ Append(s, x)[k + 1] = x
  <2> HIDE DEF s
  <2> QED BY <1>1, <1>2
<1>4. Fetched(t, k + 1) \in Seq(Nat \X Nat) /\ Len(Fetched(t, k + 1)) = k + 1
  BY DEF Fetched
<1>5. ASSUME NEW n \in 1..(k + 1) PROVE Append(s, x)[n] = Fetched(t, k + 1)[n]
  <2>1. CASE n \in 1..k
    BY <1>3, <2>1 DEF Fetched
  <2>2. CASE n \notin 1..k
    <3>1. n = k + 1
      BY <2>2
    <3> QED BY <1>3, <3>1 DEF Fetched, x
  <2> QED BY <2>1, <2>2
<1> HIDE DEF s
<1> QED BY <1>3, <1>4, <1>5, SameSeq DEF s, x

(* A fetch at work is of a transfer whose call is out or was left, and     *)
(* once no earlier call was left, of the call that is out.                 *)
LEMMA AtWork ==
  ASSUME ObtainInv, NEW t \in T, fetch[t].pc \notin {"none", "done"}
  PROVE  call[t] \in {"out", "left"}
BY DEF ObtainInv, ObtainTypes, InTurn

LEMMA Alone ==
  ASSUME ObtainInv, NEW t \in T, fetch[t].pc \notin {"none", "done"},
         NEW v \in T, call[v] = "out", NoneLeft(v)
  PROVE  t = v
<1>1. call[t] \in {"out", "left"}
  BY AtWork
<1>2. MaxTransfers \in Nat /\ t \in Nat /\ v \in Nat /\ 1 <= t /\ 1 <= v
  BY ObtainFileAssumption DEF T
<1>3. t \in 1..(v - 1) => call[t] # "left" /\ call[t] # "out"
  BY DEF NoneLeft, ObtainInv, InTurn
<1>4. v \in 1..(t - 1) => call[v] # "out"
  BY <1>1 DEF ObtainInv, InTurn
<1>5. t \notin 1..(v - 1) /\ v \notin 1..(t - 1)
  BY <1>1, <1>3, <1>4
<1> QED BY <1>2, <1>5

LEMMA FetchTypes ==
  ASSUME ObtainTypes, NEW t \in T, DOMAIN fetch' = DOMAIN fetch,
         fetch'[t] \in FetchState, \A v \in T : v # t => fetch'[v] = fetch[v],
         fetch' = [u \in DOMAIN fetch' |-> fetch'[u]]
  PROVE  fetch' \in [T -> FetchState]
BY DEF ObtainTypes

(* A step of a fetch at work.                                              *)
LEMMA FetchStep ==
  ASSUME ObtainInv, NEW t \in T, fetch[t].pc \notin {"none", "done"},
         call' = call, files' = files, ObtainTypes',
         \A v \in T : v # t => fetch'[v] = fetch[v],
         call[t] = "out" /\ NoneLeft(t) => Serving(t)'
  PROVE  ObtainInv'
<1>1. call[t] \in {"out", "left"}
  BY AtWork
<1>2. \A v \in T : call[v] \in {"none", "ok", "error"} => fetch'[v] = fetch[v]
  BY <1>1
<1>3. InTurn'
  BY <1>2 DEF ObtainInv, InTurn
<1>4. StoredWhole'
  BY <1>2 DEF ObtainInv, StoredWhole
<1>5. ASSUME NEW v \in T, call'[v] = "out", NoneLeft(v)' PROVE Serving(v)'
  <2>1. call[v] = "out" /\ NoneLeft(v)
    BY <1>5 DEF NoneLeft
  <2>2. t = v
    BY <2>1, Alone
  <2> QED BY <2>1, <2>2
<1> QED BY <1>3, <1>4, <1>5 DEF ObtainInv

(* A call returns.                                                         *)
LEMMA ReturnStep ==
  ASSUME ObtainInv, NEW t \in T, NEW how \in {"ok", "error", "left"},
         call[t] = "out", Return(t, how), fetch' = fetch,
         how # "left" => fetch[t].pc = "done",
         how = "ok" /\ NoneLeft(t) => fetch[t].got = Fetched(t, Pieces)
  PROVE  ObtainInv'
<1>1. /\ call' = [call EXCEPT ![t] = how] /\ files' = 0
      /\ fsrv' = [fsrv EXCEPT ![t].open = <<>>]
  BY DEF Return
<1>2. files = t /\ 0 \notin T
  BY ObtainFileAssumption DEF ObtainInv, InTurn, T
<1>3. call'[t] = how /\ \A v \in T : v # t => call'[v] = call[v] /\ call[v] # "out"
  BY <1>1, <1>2 DEF ObtainInv, ObtainTypes, InTurn
<1>4. ObtainTypes'
  <2>1. <<>> \in Map
    <3>1. <<>> \in [{} -> Nat]
      OBVIOUS
    <3> QED BY <3>1, IsMap
  <2>2. fsrv \in [T -> [next : Nat, open : Map]]
    BY DEF ObtainInv, ObtainTypes
  <2>3. fsrv' \in [T -> [next : Nat, open : Map]]
    BY <1>1, <2>1, <2>2
  <2>4. call' \in [T -> {"none", "out", "ok", "error", "left"}]
    BY <1>1 DEF ObtainInv, ObtainTypes
  <2> QED BY <1>1, <2>3, <2>4 DEF ObtainInv, ObtainTypes
<1>5. \A v \in T : \A u \in 1..(v - 1) : u \in T
  BY ObtainFileAssumption DEF T
<1>6. InTurn'
  <2>1. ASSUME NEW v \in T, call'[v] # "none", NEW u \in 1..(v - 1)
        PROVE  call'[u] \notin {"none", "out"}
    <3>1. call[v] # "none"
      BY <1>3, <2>1
    <3>2. call[u] \notin {"none", "out"}
      BY <2>1, <3>1 DEF ObtainInv, InTurn
    <3> QED BY <1>3, <1>5, <2>1, <3>2
  <2>2. \A v \in T : call'[v] = "out" <=> files' = v
    BY <1>1, <1>2, <1>3
  <2>3. \A v \in T : call'[v] = "none" =>
          fetch'[v].pc = "none" /\ fetch'[v].got = <<>> /\ ~fetch'[v].ok
    BY <1>3 DEF ObtainInv, InTurn
  <2>4. \A v \in T : call'[v] \in {"ok", "error"} => fetch'[v].pc = "done"
    BY <1>3 DEF ObtainInv, InTurn
  <2> QED BY <2>1, <2>2, <2>3, <2>4 DEF InTurn
<1>7. ASSUME NEW v \in T, call'[v] = "ok", NoneLeft(v)' PROVE fetch'[v].got = Fetched(v, Pieces)
  <2>1. NoneLeft(v)
    BY <1>3, <1>5, <1>7 DEF NoneLeft
  <2>2. CASE v = t
    BY <1>3, <1>7, <2>1, <2>2
  <2>3. CASE v # t
    BY <1>3, <1>7, <2>1, <2>3 DEF ObtainInv, StoredWhole, NoneLeft, Fetched
  <2> QED BY <2>2, <2>3
<1>8. StoredWhole'
  BY <1>7 DEF StoredWhole, NoneLeft, Fetched
<1>9. \A v \in T : call'[v] # "out"
  BY <1>3
<1> QED BY <1>4, <1>6, <1>8, <1>9 DEF ObtainInv

LEMMA AnsweredKeeps == ASSUME ObtainInv, NEW t \in T, Answered(t) PROVE ObtainInv'
<1> DEFINE how == IF fetch[t].ok THEN "ok" ELSE "error"
<1>1. call[t] = "out" /\ fetch[t].pc = "done" /\ Return(t, how) /\ fetch' = fetch
  BY DEF Answered
<1>2. how \in {"ok", "error", "left"} /\ how # "left" /\ (how = "ok" => fetch[t].ok)
  OBVIOUS
<1>3. how = "ok" /\ NoneLeft(t) => fetch[t].got = Fetched(t, Pieces)
  BY <1>1, <1>2 DEF ObtainInv, Serving
<1> HIDE DEF how
<1> QED BY <1>1, <1>2, <1>3, ReturnStep

LEMMA LeaveKeeps == ASSUME ObtainInv, NEW t \in T, Leave(t) PROVE ObtainInv'
BY ReturnStep DEF Leave

LEMMA ObtainKeeps == ASSUME ObtainInv, NEW t \in T, Obtain(t) PROVE ObtainInv'
<1>1. /\ call[t] = "none" /\ \A u \in 1..(t - 1) : call[u] \notin {"none", "out"}
      /\ call' = [call EXCEPT ![t] = "out"] /\ files' = t /\ fsrv' = fsrv
      /\ fetch' = [fetch EXCEPT ![t].pc = "open"]
  BY DEF Obtain
<1>2. \A v \in T : v \in Nat /\ 1 <= v /\ \A u \in 1..(v - 1) : u \in T
  BY ObtainFileAssumption DEF T
<1>3. \A v \in T : v # t => v \in 1..(t - 1) \/ t \in 1..(v - 1)
  BY <1>2
<1>4. /\ call'[t] = "out" /\ fetch'[t] = [fetch[t] EXCEPT !.pc = "open"]
      /\ \A v \in T : v # t => call'[v] = call[v] /\ fetch'[v] = fetch[v]
  BY <1>1 DEF ObtainInv, ObtainTypes
<1>5. ObtainTypes'
  <2>1. call' \in [T -> {"none", "out", "ok", "error", "left"}]
    BY <1>1 DEF ObtainInv, ObtainTypes
  <2>2. fetch' \in [T -> FetchState]
    BY <1>1 DEF ObtainInv, ObtainTypes, FetchState
  <2> QED BY <1>1, <2>1, <2>2 DEF ObtainInv, ObtainTypes
<1>6. \A v \in T : v # t => call[v] # "out"
  BY <1>1, <1>3 DEF ObtainInv, InTurn
<1>7. InTurn'
  <2>1. ASSUME NEW v \in T, call'[v] # "none", NEW u \in 1..(v - 1)
        PROVE  call'[u] \notin {"none", "out"}
    <3>1. CASE v = t
      <4>1. u # t /\ u \in T
        BY <1>2, <2>1, <3>1
      <4> QED BY <1>1, <1>4, <2>1, <3>1, <4>1
    <3>2. CASE v # t
      <4>1. call[v] # "none"
        BY <1>4, <2>1, <3>2
      <4>2. call[u] \notin {"none", "out"} /\ u \in T
        BY <1>2, <2>1, <4>1 DEF ObtainInv, InTurn
      <4> QED BY <1>1, <1>4, <4>2
    <3> QED BY <3>1, <3>2
  <2>2. \A v \in T : call'[v] = "out" <=> files' = v
    BY <1>1, <1>4, <1>6
  <2>3. \A v \in T : call'[v] = "none" =>
          fetch'[v].pc = "none" /\ fetch'[v].got = <<>> /\ ~fetch'[v].ok
    BY <1>4 DEF ObtainInv, InTurn
  <2>4. \A v \in T : call'[v] \in {"ok", "error"} => fetch'[v].pc = "done"
    BY <1>4 DEF ObtainInv, InTurn
  <2> QED BY <2>1, <2>2, <2>3, <2>4 DEF InTurn
<1>8. ASSUME NEW v \in T, call'[v] = "ok", NoneLeft(v)' PROVE fetch'[v].got = Fetched(v, Pieces)
  <2>1. v # t /\ call[v] = "ok" /\ fetch'[v] = fetch[v]
    BY <1>4, <1>8
  <2>2. NoneLeft(v)
    BY <1>1, <1>2, <1>4, <1>8 DEF NoneLeft
  <2> QED BY <2>1, <2>2 DEF ObtainInv, StoredWhole, NoneLeft, Fetched
<1>9. StoredWhole'
  BY <1>8, SMTT(30) DEF StoredWhole, NoneLeft, Fetched
<1>10. Serving(t)'
  <2>1. fetch'[t].pc = "open" /\ fetch'[t].got = <<>> /\ ~fetch'[t].ok
    BY <1>1, <1>4 DEF ObtainInv, ObtainTypes, FetchState, InTurn
  <2> QED BY <2>1 DEF Serving
<1>11. \A v \in T : call'[v] = "out" => v = t
  BY <1>4, <1>6
<1> QED BY <1>5, <1>7, <1>9, <1>10, <1>11 DEF ObtainInv

LEMMA AbandonKeeps == ASSUME ObtainInv, NEW t \in T, Abandon(t) PROVE ObtainInv'
<1>1. /\ fetch[t].pc \in {"open", "read"} /\ call' = call /\ files' = files /\ fsrv' = fsrv
      /\ fetch' = [fetch EXCEPT ![t].pc = "done", ![t].got = <<>>]
  BY DEF Abandon
<1>2. /\ fetch'[t] = [fetch[t] EXCEPT !.pc = "done", !.got = <<>>]
      /\ \A v \in T : v # t => fetch'[v] = fetch[v]
  BY <1>1 DEF ObtainInv, ObtainTypes
<1>3. ObtainTypes'
  <2>1. <<>> \in Seq(T \X Nat)
    OBVIOUS
  <2>2. fetch' \in [T -> FetchState]
    <3>1. fetch'[t] \in FetchState
      BY <1>2, <2>1 DEF ObtainInv, ObtainTypes, FetchState
    <3> QED BY <1>1, <1>2, <3>1, FetchTypes DEF ObtainInv
  <2> QED BY <1>1, <2>2 DEF ObtainInv, ObtainTypes
<1>4. call[t] = "out" /\ NoneLeft(t) => Serving(t)'
  <2> SUFFICES ASSUME call[t] = "out", NoneLeft(t) PROVE Serving(t)'
    OBVIOUS
  <2>1. ~fetch[t].ok
    BY <1>1 DEF ObtainInv, Serving
  <2>2. fetch'[t].pc = "done" /\ ~fetch'[t].ok
    BY <1>2, <2>1 DEF ObtainInv, ObtainTypes, FetchState
  <2> QED BY <2>2 DEF Serving
<1> QED BY <1>1, <1>2, <1>3, <1>4, FetchStep

LEMMA FileOpenKeeps == ASSUME ObtainInv, NEW t \in T, SourceOpen(t) PROVE ObtainInv'
<1>1. fetch[t].pc = "open" /\ call' = call /\ files' = files
  BY DEF SourceOpen
<1>2. fsrv[t] \in [next : Nat, open : Map] /\ fetch[t] \in FetchState
  BY DEF ObtainInv, ObtainTypes
<1>3. CASE files = t
  <2> DEFINE frsm == fsrv[t].next + 1
             now == [f \in DOMAIN fsrv[t].open \cup {frsm} |-> IF f = frsm THEN 0 ELSE fsrv[t].open[f]]
  <2>1. /\ fsrv' = [fsrv EXCEPT ![t].next = frsm, ![t].open = now]
        /\ fetch' = [fetch EXCEPT ![t].pc = "read", ![t].frsm = frsm]
    BY <1>3 DEF SourceOpen, ObtainInv, ObtainTypes
  <2>2. frsm \in Nat /\ now \in Map
    <3>1. DOMAIN fsrv[t].open \in SUBSET Nat /\ fsrv[t].open \in [DOMAIN fsrv[t].open -> Nat]
      BY <1>2, MapIs
    <3>2. frsm \in Nat
      BY <1>2
    <3> HIDE DEF frsm
    <3>3. now \in [DOMAIN fsrv[t].open \cup {frsm} -> Nat]
      BY <3>1
    <3> HIDE DEF now
    <3>4. DOMAIN fsrv[t].open \cup {frsm} \in SUBSET Nat
      BY <3>1, <3>2
    <3> QED BY <3>2, <3>3, <3>4, IsMap
  <2>3. frsm \in DOMAIN now /\ now[frsm] = 0
    OBVIOUS
  <2> HIDE DEF frsm, now
  <2>4. fsrv' \in [T -> [next : Nat, open : Map]] /\ fsrv'[t].open = now
    BY <2>1, <2>2 DEF ObtainInv, ObtainTypes
  <2>5. /\ fetch'[t] = [fetch[t] EXCEPT !.pc = "read", !.frsm = frsm]
        /\ \A v \in T : v # t => fetch'[v] = fetch[v]
    BY <2>1 DEF ObtainInv, ObtainTypes
  <2>6. fetch'[t] \in FetchState /\ fetch'[t].pc = "read" /\ fetch'[t].frsm = frsm
        /\ fetch'[t].got = fetch[t].got /\ fetch'[t].ok = fetch[t].ok
    BY <1>2, <2>2, <2>5 DEF FetchState
  <2>7. ObtainTypes'
    <3>1. fetch' \in [T -> FetchState]
      BY <2>1, <2>5, <2>6, FetchTypes DEF ObtainInv
    <3> QED BY <1>1, <2>4, <3>1 DEF ObtainInv, ObtainTypes
  <2>8. call[t] = "out" /\ NoneLeft(t) => Serving(t)'
    <3> SUFFICES ASSUME call[t] = "out", NoneLeft(t) PROVE Serving(t)'
      OBVIOUS
    <3>1. fetch[t].got = <<>> /\ ~fetch[t].ok
      BY <1>1 DEF ObtainInv, Serving
    <3>2. fetch'[t].got = Fetched(t, 0)
      BY <2>6, <3>1, FetchedNone
    <3>3. 0 < Pieces
      BY ObtainFileAssumption
    <3> QED BY <2>3, <2>4, <2>6, <3>1, <3>2, <3>3 DEF Serving
  <2> QED BY <1>1, <2>5, <2>7, <2>8, FetchStep
<1>4. CASE files # t
  <2>1. fsrv' = fsrv /\ fetch' = [fetch EXCEPT ![t].pc = "done"]
    BY <1>4 DEF SourceOpen
  <2>2. /\ fetch'[t] = [fetch[t] EXCEPT !.pc = "done"]
        /\ \A v \in T : v # t => fetch'[v] = fetch[v]
    BY <2>1 DEF ObtainInv, ObtainTypes
  <2>3. ObtainTypes'
    <3>1. fetch'[t] \in FetchState
      BY <1>2, <2>2, SMTT(30) DEF FetchState
    <3>2. fetch' \in [T -> FetchState]
      BY <2>1, <2>2, <3>1, FetchTypes DEF ObtainInv
    <3> QED BY <1>1, <2>1, <3>2 DEF ObtainInv, ObtainTypes
  <2>4. call[t] # "out"
    BY <1>4 DEF ObtainInv, InTurn
  <2> QED BY <1>1, <2>2, <2>3, <2>4, FetchStep
<1> QED BY <1>3, <1>4

LEMMA FileReadKeeps == ASSUME ObtainInv, NEW t \in T, SourceRead(t) PROVE ObtainInv'
<1> DEFINE f == fetch[t].frsm
<1>1. fetch[t].pc = "read" /\ call' = call /\ files' = files
  BY DEF SourceRead
<1>2. fetch[t] \in FetchState /\ files \in T \cup {0}
  BY DEF ObtainInv, ObtainTypes
<1>3. CASE files # 0 /\ f \in DOMAIN fsrv[files].open
  <2> DEFINE o == fsrv[files].open
             at == o[f] + 1
             place == IF at > Pieces THEN o[f] ELSE at
             got == IF at > Pieces THEN fetch[t].got ELSE Append(fetch[t].got, <<files, at>>)
             station == IF at < Pieces THEN "read" ELSE "close"
             ok == at >= Pieces
  <2>1. /\ fsrv' = [fsrv EXCEPT ![files].open = [o EXCEPT ![f] = place]]
        /\ fetch' = [fetch EXCEPT ![t].got = got, ![t].pc = station, ![t].ok = ok]
    BY <1>2, <1>3 DEF SourceRead, ObtainInv, ObtainTypes
  <2>2. files \in T /\ fsrv[files] \in [next : Nat, open : Map]
    BY <1>2, <1>3 DEF ObtainInv, ObtainTypes
  <2>3. DOMAIN o \in SUBSET Nat /\ o \in [DOMAIN o -> Nat]
    BY <2>2, MapIs
  <2>4. Pieces \in Nat \ {0} /\ o[f] \in Nat /\ at \in Nat /\ place \in Nat
    BY <1>3, <2>3, ObtainFileAssumption
  <2>5. got \in Seq(T \X Nat) /\ station \in {"read", "close"} /\ ok \in BOOLEAN
    <3>1. <<files, at>> \in T \X Nat
      BY <2>2, <2>4
    <3>2. fetch[t].got \in Seq(T \X Nat)
      BY <1>2 DEF FetchState
    <3> HIDE DEF at
    <3>3. Append(fetch[t].got, <<files, at>>) \in Seq(T \X Nat)
      BY <3>1, <3>2
    <3> QED BY <3>2, <3>3
  <2>6. [o EXCEPT ![f] = place] \in Map
    <3> HIDE DEF place, o, f
    <3>1. [o EXCEPT ![f] = place] \in [DOMAIN o -> Nat]
      BY <2>3, <2>4
    <3> QED BY <2>3, <3>1, IsMap
  <2>7. call[t] = "out" /\ NoneLeft(t) =>
          /\ files = t /\ at <= Pieces /\ got = Fetched(t, at) /\ (at < Pieces => ~ok)
    <3> SUFFICES ASSUME call[t] = "out", NoneLeft(t)
                 PROVE  files = t /\ at <= Pieces /\ got = Fetched(t, at) /\ (at < Pieces => ~ok)
      OBVIOUS
    <3>1. files = t
      BY DEF ObtainInv, InTurn
    <3>2. o[f] < Pieces /\ fetch[t].got = Fetched(t, o[f])
      BY <1>1, <3>1 DEF ObtainInv, Serving
    <3>3. t \in Nat
      BY ObtainFileAssumption DEF T
    <3> HIDE DEF o, f
    <3>4. at <= Pieces /\ ~(at > Pieces) /\ (at < Pieces => ~(at >= Pieces))
      BY <2>4, <3>2
    <3>5. got = Append(Fetched(t, o[f]), <<t, o[f] + 1>>)
      BY <3>1, <3>2, <3>4
    <3> QED BY <2>4, <3>1, <3>3, <3>4, <3>5, FetchedMore
  <2>8. (~(at < Pieces) => station = "close") /\ (at < Pieces => station = "read")
    OBVIOUS
  <2> DEFINE oo == [o EXCEPT ![f] = place]
  <2>9. oo[f] = place /\ f \in DOMAIN oo /\ (at <= Pieces => place = at)
    <3>1. oo[f] = place /\ f \in DOMAIN oo
      BY <1>3
    <3>2. at <= Pieces => ~(at > Pieces)
      <4> HIDE DEF at
      <4> QED BY Zenon, <2>4, Ordered
    <3> QED BY <3>1, <3>2
  <2> HIDE DEF at, place, got, station, ok, oo, o
  <2>10. fsrv' \in [T -> [next : Nat, open : Map]] /\ fsrv'[files].open = oo
    BY <2>1, <2>2, <2>6 DEF ObtainInv, ObtainTypes, oo
  <2>11. /\ fetch'[t] = [fetch[t] EXCEPT !.got = got, !.pc = station, !.ok = ok]
         /\ \A v \in T : v # t => fetch'[v] = fetch[v]
    BY <2>1 DEF ObtainInv, ObtainTypes
  <2>12. fetch'[t] \in FetchState /\ fetch'[t].pc = station /\ fetch'[t].frsm = f
         /\ fetch'[t].got = got /\ fetch'[t].ok = ok
    BY <1>2, <2>5, <2>11 DEF FetchState
  <2>13. ObtainTypes'
    <3>1. fetch' = [u \in DOMAIN fetch' |-> fetch'[u]] /\ DOMAIN fetch' = DOMAIN fetch
      BY <2>1
    <3>2. fetch' \in [T -> FetchState]
      BY <2>11, <2>12, <3>1, FetchTypes DEF ObtainInv
    <3> QED BY <1>1, <2>10, <3>2 DEF ObtainInv, ObtainTypes
  <2>14. call[t] = "out" /\ NoneLeft(t) => Serving(t)'
    <3> SUFFICES ASSUME call[t] = "out", NoneLeft(t) PROVE Serving(t)'
      OBVIOUS
    <3>1. files = t /\ at <= Pieces /\ got = Fetched(t, at) /\ (at < Pieces => ~ok)
      BY <2>7
    <3>2. CASE at < Pieces
      <4>1. fsrv'[t].open[f] = at /\ f \in DOMAIN fsrv'[t].open
        BY <2>9, <2>10, <3>1
      <4> QED BY <2>8, <2>12, <3>1, <3>2, <4>1 DEF Serving
    <3>3. CASE ~(at < Pieces)
      <4>1. at = Pieces
        BY Zenon, <2>4, <3>1, <3>3, Ordered
      <4> QED BY <2>8, <2>12, <3>1, <3>3, <4>1 DEF Serving
    <3> QED BY <3>2, <3>3
  <2> QED BY <1>1, <2>11, <2>13, <2>14, FetchStep
<1>4. CASE ~(files # 0 /\ f \in DOMAIN fsrv[files].open)
  <2>1. fsrv' = fsrv /\ fetch' = [fetch EXCEPT ![t].pc = "close"]
    BY <1>4 DEF SourceRead
  <2>2. /\ fetch'[t] = [fetch[t] EXCEPT !.pc = "close"]
        /\ \A v \in T : v # t => fetch'[v] = fetch[v]
    BY <2>1 DEF ObtainInv, ObtainTypes
  <2>3. ObtainTypes'
    <3>1. fetch'[t] \in FetchState
      BY <1>2, <2>2, SMTT(30) DEF FetchState
    <3>2. fetch' \in [T -> FetchState]
      BY <2>1, <2>2, <3>1, FetchTypes DEF ObtainInv
    <3> QED BY <1>1, <2>1, <3>2 DEF ObtainInv, ObtainTypes
  <2>4. ~(call[t] = "out" /\ NoneLeft(t))
    <3> SUFFICES ASSUME call[t] = "out", NoneLeft(t) PROVE FALSE
      OBVIOUS
    <3>1. files = t /\ t # 0
      BY ObtainFileAssumption DEF ObtainInv, InTurn, T
    <3>2. f \in DOMAIN fsrv[t].open
      BY <1>1 DEF ObtainInv, Serving
    <3> QED BY <1>4, <3>1, <3>2
  <2> QED BY <1>1, <2>2, <2>3, <2>4, FetchStep
<1> QED BY <1>3, <1>4

LEMMA FileCloseKeeps == ASSUME ObtainInv, NEW t \in T, SourceClose(t) PROVE ObtainInv'
<1> DEFINE Rest(u) == [f \in (DOMAIN fsrv[u].open) \ {fetch[t].frsm} |-> fsrv[u].open[f]]
           got == IF fetch[t].ok THEN fetch[t].got ELSE <<>>
<1>1. /\ fetch[t].pc = "close" /\ call' = call /\ files' = files
      /\ fsrv' = [u \in T |-> IF u = files THEN [fsrv[u] EXCEPT !.open = Rest(u)] ELSE fsrv[u]]
      /\ fetch' = [fetch EXCEPT ![t].pc = "done", ![t].got = got]
  BY DEF SourceClose, ObtainInv, ObtainTypes
<1>2. fetch[t] \in FetchState
  BY DEF ObtainInv, ObtainTypes
<1>3. fsrv' \in [T -> [next : Nat, open : Map]]
  <2>1. ASSUME NEW u \in T PROVE fsrv[u] \in [next : Nat, open : Map] /\ Rest(u) \in Map
    <3>1. fsrv[u] \in [next : Nat, open : Map]
      BY DEF ObtainInv, ObtainTypes
    <3>2. DOMAIN fsrv[u].open \in SUBSET Nat /\ fsrv[u].open \in [DOMAIN fsrv[u].open -> Nat]
      BY <3>1, MapIs
    <3>3. Rest(u) \in [(DOMAIN fsrv[u].open) \ {fetch[t].frsm} -> Nat]
      BY <3>2
    <3>4. (DOMAIN fsrv[u].open) \ {fetch[t].frsm} \in SUBSET Nat
      BY <3>2
    <3> HIDE DEF Rest
    <3> QED BY <3>1, <3>3, <3>4, IsMap
  <2> HIDE DEF Rest
  <2> QED BY <1>1, <2>1
<1>4. got \in Seq(T \X Nat)
  BY <1>2 DEF FetchState
<1>5. fetch[t].ok => got = fetch[t].got
  OBVIOUS
<1> HIDE DEF got, Rest
<1>6. /\ fetch'[t] = [fetch[t] EXCEPT !.pc = "done", !.got = got]
      /\ \A v \in T : v # t => fetch'[v] = fetch[v]
  BY <1>1 DEF ObtainInv, ObtainTypes
<1>7. fetch'[t] \in FetchState /\ fetch'[t].pc = "done" /\ fetch'[t].got = got
      /\ fetch'[t].ok = fetch[t].ok
  BY <1>2, <1>4, <1>6 DEF FetchState
<1>8. ObtainTypes'
  <2>1. fetch' = [u \in DOMAIN fetch' |-> fetch'[u]] /\ DOMAIN fetch' = DOMAIN fetch
    BY <1>1
  <2>2. fetch' \in [T -> FetchState]
    BY <1>6, <1>7, <2>1, FetchTypes DEF ObtainInv
  <2> QED BY <1>1, <1>3, <2>2 DEF ObtainInv, ObtainTypes
<1>9. call[t] = "out" /\ NoneLeft(t) => Serving(t)'
  <2> SUFFICES ASSUME call[t] = "out", NoneLeft(t) PROVE Serving(t)'
    OBVIOUS
  <2>1. fetch[t].ok => fetch[t].got = Fetched(t, Pieces)
    BY <1>1 DEF ObtainInv, Serving
  <2> QED BY <1>5, <1>7, <2>1 DEF Serving
<1> QED BY <1>1, <1>6, <1>8, <1>9, FetchStep

LEMMA ObtainInitially == ObtainInit => ObtainInv
<1> SUFFICES ASSUME ObtainInit PROVE ObtainInv
  OBVIOUS
<1>1. <<>> \in Seq(T \X Nat) /\ <<>> \in Map
  <2>1. <<>> \in [{} -> Nat]
    OBVIOUS
  <2>2. <<>> \in Map
    BY <2>1, IsMap
  <2>3. <<>> \in Seq(T \X Nat)
    OBVIOUS
  <2> QED BY <2>2, <2>3
<1>2. 0 \notin T
  BY ObtainFileAssumption DEF T
<1>3. ObtainTypes
  BY <1>1 DEF ObtainInit, ObtainTypes, FetchState
<1>4. \A t \in T : /\ call[t] = "none" /\ fetch[t].pc = "none"
                       /\ fetch[t].got = <<>> /\ ~fetch[t].ok
  BY DEF ObtainInit
<1>5. files = 0
  BY DEF ObtainInit
<1> QED BY <1>2, <1>3, <1>4, <1>5 DEF ObtainInv, InTurn, StoredWhole

(* Every step of SetFile keeps its invariant.                              *)
LEMMA ObtainStep == ObtainInv /\ [ObtainNext]_ofVars => ObtainInv'
<1> SUFFICES ASSUME ObtainInv, [ObtainNext]_ofVars PROVE ObtainInv'
  OBVIOUS
<1>1. CASE UNCHANGED ofVars
  BY <1>1 DEF ofVars, ObtainInv, ObtainTypes, InTurn, Serving, NoneLeft, StoredWhole
<1> QED BY <1>1, ObtainKeeps, LeaveKeeps, FileOpenKeeps, FileReadKeeps, FileCloseKeeps,
           AbandonKeeps, AnsweredKeeps DEF ObtainNext

----------------------------------------------------------------------------
(* Associations.  The connections that hold a slot are finitely many: they *)
(* start as none and change by one at a time.                              *)
Slotted == {"slot", "accepted", "serving", "written", "ended"}
Holding == {c \in Conns : pc[c] \in Slotted}

AssociationTypes ==
  /\ pc \in [Conns -> Stations]
  /\ svcb \in Event
  /\ queue \in Seq(Event) /\ told \in Seq(Event) /\ made \in Seq(Event)
  /\ flush \in [by : Conns \cup {NoConn}, events : Seq(Event)]

SlotInv ==
  /\ IsFiniteSet(Holding) /\ open = Cardinality(Holding)
  /\ MaxConns > 0 => open <= MaxConns

AssociationInv == AssociationTypes /\ SlotInv /\ HolderServed /\ ToldInOrder

LEMMA EventFields ==
  ASSUME NEW b \in Event
  PROVE  b.ena \in BOOLEAN /\ b.resv \in BOOLEAN /\ b.owner \in Conns \cup {NoConn}
BY DEF Event

LEMMA FreeEvent == Free \in Event
BY DEF Free, Event

(* A connection goes from one station to another: what becomes of the set  *)
(* of slot holders.                                                        *)
LEMMA StationTypes ==
  ASSUME AssociationTypes, NEW c \in Conns, NEW from, NEW to \in Stations, At(c, from, to)
  PROVE  pc' \in [Conns -> Stations]
BY DEF AssociationTypes, At

LEMMA StationKeeps ==
  ASSUME AssociationTypes, NEW c \in Conns, NEW from, NEW to, At(c, from, to),
         from \in Slotted <=> to \in Slotted
  PROVE  Holding' = Holding
BY DEF AssociationTypes, At, Holding

LEMMA StationTakes ==
  ASSUME AssociationTypes, NEW c \in Conns, NEW from, NEW to, At(c, from, to),
         from \notin Slotted, to \in Slotted
  PROVE  Holding' = Holding \cup {c} /\ c \notin Holding
BY DEF AssociationTypes, At, Holding

LEMMA StationGives ==
  ASSUME AssociationTypes, NEW c \in Conns, NEW from, NEW to, At(c, from, to),
         from \in Slotted, to \notin Slotted
  PROVE  Holding' = Holding \ {c} /\ c \in Holding
BY DEF AssociationTypes, At, Holding

(* Whoever holds no slot takes one, whoever holds one gives it back.       *)
LEMMA SlotsKept ==
  ASSUME SlotInv, Holding' = Holding, open' = open
  PROVE  SlotInv'
BY DEF SlotInv

(* A step of a connection that leaves the block and its events alone keeps *)
(* the block's holder served unless it takes the holder out of service.    *)
Holders == {"serving", "written", "ended", "released"}

LEMMA StationHolder ==
  ASSUME AssociationInv, NEW c \in Conns, NEW from, NEW to, At(c, from, to),
         from \in Holders => to \in Holders, svcb' = svcb
  PROVE  HolderServed'
BY AAssumption DEF AssociationInv, AssociationTypes, At, HolderServed, Event, Holders

(* A step of the connection's goroutine that does not touch the block.     *)
LEMMA QuietStation ==
  ASSUME AssociationInv, NEW c \in Conns, NEW from, NEW to \in Stations, At(c, from, to),
         unchangedSV, from \in Holders => to \in Holders
  PROVE  AssociationTypes' /\ HolderServed' /\ ToldInOrder'
<1>1. AssociationTypes'
  BY StationTypes DEF AssociationInv, AssociationTypes, unchangedSV
<1>2. HolderServed'
  BY StationHolder DEF unchangedSV
<1>3. ToldInOrder'
  BY DEF AssociationInv, ToldInOrder, unchangedSV
<1> QED BY <1>1, <1>2, <1>3

LEMMA QuietElsewhere ==
  ASSUME AssociationInv, pc' = pc, open' = open, unchangedSV
  PROVE  AssociationInv'
BY DEF AssociationInv, AssociationTypes, SlotInv, Holding, HolderServed, ToldInOrder, unchangedSV

LEMMA AcceptKeeps == ASSUME AssociationInv, NEW c \in Conns, Accept(c) PROVE AssociationInv'
<1>1. At(c, "new", "raw") /\ unchangedSV /\ open' = open
  BY DEF Accept
<1>2. SlotInv'
  BY <1>1, StationKeeps, SlotsKept DEF AssociationInv, Slotted
<1>3. AssociationTypes' /\ HolderServed' /\ ToldInOrder'
  BY <1>1, QuietStation DEF Stations, Holders
<1> QED BY <1>2, <1>3 DEF AssociationInv

LEMMA EndKeeps == ASSUME AssociationInv, NEW c \in Conns, End(c) PROVE AssociationInv'
<1>1. At(c, "serving", "ended") /\ unchangedSV /\ open' = open
  BY DEF End
<1>2. SlotInv'
  BY <1>1, StationKeeps, SlotsKept DEF AssociationInv, Slotted
<1>3. AssociationTypes' /\ HolderServed' /\ ToldInOrder'
  BY <1>1, QuietStation DEF Stations, Holders
<1> QED BY <1>2, <1>3 DEF AssociationInv

(* The events told, taken and queued are the changes made, in their order: *)
(* a change is queued, the queue taken, an event told.                     *)
LEMMA QueuedInOrder ==
  ASSUME NEW S, NEW t \in Seq(S), NEW e \in Seq(S), NEW q \in Seq(S), NEW b \in S
  PROVE  t \o e \o Append(q, b) = Append(t \o e \o q, b)
<1>1. t \o e \in Seq(S)
  OBVIOUS
<1> QED BY <1>1, SMTT(30)

LEMMA TakenInOrder ==
  ASSUME NEW S, NEW t \in Seq(S), NEW q \in Seq(S)
  PROVE  t \o <<>> \o q = t \o q \o <<>>
OBVIOUS

LEMMA ToldNext ==
  ASSUME NEW S, NEW t \in Seq(S), NEW e \in Seq(S), e # <<>>
  PROVE  Append(t, Head(e)) \o Tail(e) = t \o e
<1>1. /\ Head(e) \in S /\ Tail(e) \in Seq(S) /\ Len(Tail(e)) = Len(e) - 1
      /\ Len(e) \in Nat /\ Len(e) # 0 /\ Len(t) \in Nat
  OBVIOUS
<1>2. Append(t, Head(e)) \in Seq(S)
  BY <1>1
<1> DEFINE l == Append(t, Head(e)) \o Tail(e)
           r == t \o e
<1>3. l \in Seq(S) /\ Len(l) = Len(t) + Len(e)
  BY <1>1, <1>2
<1>4. r \in Seq(S) /\ Len(r) = Len(t) + Len(e)
  OBVIOUS
<1>5. ASSUME NEW i \in 1..Len(l) PROVE l[i] = r[i]
  BY <1>1, <1>2, <1>3, <1>5, SMTT(30)
<1> HIDE DEF l, r
<1>6. l = r
  BY <1>3, <1>4, <1>5
<1> QED BY <1>6 DEF l, r

(* QueueSV keeps the types and the order of the events.                    *)
LEMMA QueueSVKeeps ==
  ASSUME AssociationTypes, ToldInOrder, NEW b \in Event, QueueSV(b), flush' = flush, told' = told
  PROVE  /\ svcb' \in Event /\ queue' \in Seq(Event) /\ made' \in Seq(Event)
         /\ ToldInOrder'
<1>1. CASE queue' = Append(queue, b) /\ made' = Append(made, b)
  <2>1. told \o flush.events \o Append(queue, b) = Append(told \o flush.events \o queue, b)
    <3>1. flush.events \in Seq(Event)
      BY DEF AssociationTypes
    <3>2. told \in Seq(Event) /\ queue \in Seq(Event)
      BY DEF AssociationTypes
    <3> DEFINE e == flush.events
    <3>3. e \in Seq(Event)
      BY <3>1
    <3> HIDE DEF e
    <3>4. told \o e \o Append(queue, b) = Append(told \o e \o queue, b)
      BY <3>2, <3>3, QueuedInOrder, SMTT(30)
    <3> QED BY Zenon, <3>4 DEF e
  <2>2. ToldInOrder'
    BY <1>1, <2>1 DEF ToldInOrder
  <2> QED BY <1>1, <2>2 DEF AssociationTypes, QueueSV
<1>2. CASE queue' = queue /\ made' = made
  BY <1>2 DEF QueueSV, AssociationTypes, ToldInOrder
<1> QED BY <1>1, <1>2 DEF QueueSV

LEMMA WriteKeeps ==
  ASSUME AssociationInv, NEW c \in Conns, NEW attr \in {"SvEna", "Resv"}, NEW v \in BOOLEAN,
         Write(c, attr, v)
  PROVE  AssociationInv'
<1> DEFINE b == OnWrite(c, attr, v)
<1>1. At(c, "serving", "written") /\ QueueSV(b) /\ CheckWrite(c)
      /\ open' = open /\ flush' = flush /\ told' = told
  BY DEF Write
<1>2. svcb \in Event
  BY DEF AssociationInv, AssociationTypes
<1>3. b \in Event
  BY <1>2, EventFields DEF OnWrite, Event
<1>4. /\ b.owner \in {svcb.owner, c, NoConn}
      /\ b.resv = (b.owner # NoConn)
  <2>1. svcb.resv = (svcb.owner # NoConn) /\ c # NoConn
    BY AAssumption DEF AssociationInv, HolderServed
  <2>2. CASE attr = "SvEna"
    <3>1. b.owner = svcb.owner /\ b.resv = svcb.resv
      BY <1>2, <2>2 DEF OnWrite, Event
    <3> QED BY <2>1, <3>1
  <2>3. CASE attr # "SvEna"
    <3>1. b.resv = v /\ b.owner = IF v THEN c ELSE NoConn
      BY <1>2, <2>3 DEF OnWrite, Event
    <3> QED BY <2>1, <3>1
  <2> QED BY <2>2, <2>3
<1> HIDE DEF b
<1>5. svcb' = b
  BY <1>1 DEF QueueSV
<1>6. /\ svcb' \in Event /\ queue' \in Seq(Event) /\ made' \in Seq(Event)
      /\ ToldInOrder'
  BY <1>1, <1>3, QueueSVKeeps DEF AssociationInv
<1>7. pc' \in [Conns -> Stations]
  BY <1>1, StationTypes DEF AssociationInv, Stations
<1>8. AssociationTypes'
  BY <1>1, <1>6, <1>7 DEF AssociationInv, AssociationTypes
<1>9. SlotInv'
  BY <1>1, StationKeeps, SlotsKept DEF AssociationInv, Slotted
<1>10. HolderServed'
  <2>1. pc'[c] = "written" /\ \A d \in Conns : d # c => pc'[d] = pc[d]
    BY <1>1 DEF AssociationInv, AssociationTypes, At
  <2>2. svcb.owner \in Conns \cup {NoConn}
    BY <1>2, EventFields
  <2>3. b.owner # NoConn => pc'[b.owner] \in {"serving", "written", "ended", "released"}
    BY <1>4, <2>1, <2>2 DEF AssociationInv, HolderServed
  <2> QED BY <1>4, <1>5, <2>3 DEF HolderServed
<1> QED BY <1>6, <1>8, <1>9, <1>10 DEF AssociationInv

LEMMA ReleaseSVCBsKeeps ==
  ASSUME AssociationInv, NEW c \in Conns, ReleaseSVCBs(c)
  PROVE  AssociationInv'
<1>1. At(c, "released", "freed") /\ open' = open /\ flush' = flush /\ told' = told
  BY DEF ReleaseSVCBs
<1>2. SlotInv'
  BY <1>1, StationKeeps, SlotsKept DEF AssociationInv, Slotted
<1>3. pc' \in [Conns -> Stations]
  BY <1>1, StationTypes DEF AssociationInv, Stations
<1>4. CASE svcb.owner = c
  <2>1. QueueSV(Free)
    BY <1>4 DEF ReleaseSVCBs
  <2>2. /\ svcb' \in Event /\ queue' \in Seq(Event) /\ made' \in Seq(Event)
        /\ ToldInOrder'
    BY <1>1, <2>1, FreeEvent, QueueSVKeeps DEF AssociationInv
  <2>3. HolderServed'
    BY <2>1 DEF QueueSV, Free, HolderServed
  <2> QED BY <1>1, <1>2, <1>3, <2>2, <2>3 DEF AssociationInv, AssociationTypes
<1>5. CASE svcb.owner # c
  <2>1. svcb' = svcb /\ queue' = queue /\ made' = made
    BY <1>5 DEF ReleaseSVCBs
  <2>2. HolderServed'
    <3>1. svcb.owner \in Conns \cup {NoConn}
      BY EventFields DEF AssociationInv, AssociationTypes
    <3>2. svcb.owner # NoConn => pc'[svcb.owner] = pc[svcb.owner]
      BY <1>1, <1>5, <3>1 DEF AssociationInv, AssociationTypes, At
    <3> QED BY <2>1, <3>2 DEF AssociationInv, HolderServed
  <2> QED BY <1>1, <1>2, <1>3, <2>1, <2>2 DEF AssociationInv, AssociationTypes, ToldInOrder
<1> QED BY <1>4, <1>5

(* The steps of flushSV.                                                   *)
LEMMA FlushFields ==
  ASSUME AssociationInv
  PROVE  /\ flush \in [by : Conns \cup {NoConn}, events : Seq(Event)]
         /\ flush.events \in Seq(Event)
BY DEF AssociationInv, AssociationTypes

LEMMA FlushBeginKeeps == ASSUME AssociationInv, NEW c \in Conns, FlushBegin(c) PROVE AssociationInv'
BY FlushFields
   DEF FlushBegin, AssociationInv, AssociationTypes, SlotInv, Holding, HolderServed, ToldInOrder

LEMMA FlushTakeHolds == ASSUME AssociationInv, NEW c \in Conns, FlushTake(c) PROVE AssociationInv'
<1>1. /\ flush' = [flush EXCEPT !.events = queue] /\ queue' = <<>> /\ flush.events = <<>>
      /\ pc' = pc /\ open' = open /\ svcb' = svcb /\ told' = told /\ made' = made
  BY DEF FlushTake
<1>2. flush' \in [by : Conns \cup {NoConn}, events : Seq(Event)] /\ flush'.events = queue
  BY <1>1, FlushFields DEF AssociationInv, AssociationTypes
<1>3. AssociationTypes'
  BY <1>1, <1>2 DEF AssociationInv, AssociationTypes
<1>4. ToldInOrder'
  <2>1. told \o <<>> \o queue = told \o queue \o <<>>
    BY TakenInOrder DEF AssociationInv, AssociationTypes
  <2> QED BY <1>1, <1>2, <2>1 DEF AssociationInv, ToldInOrder
<1> QED BY <1>1, <1>3, <1>4 DEF AssociationInv, SlotInv, Holding, HolderServed

LEMMA TellKeeps == ASSUME AssociationInv, NEW c \in Conns, Tell(c) PROVE AssociationInv'
<1>1. /\ flush' = [flush EXCEPT !.events = Tail(flush.events)] /\ flush.events # <<>>
      /\ told' = Append(told, Head(flush.events))
      /\ pc' = pc /\ open' = open /\ svcb' = svcb /\ queue' = queue /\ made' = made
  BY DEF Tell
<1>2. Head(flush.events) \in Event /\ Tail(flush.events) \in Seq(Event)
  BY <1>1, FlushFields
<1>3. /\ flush' \in [by : Conns \cup {NoConn}, events : Seq(Event)]
      /\ flush'.events = Tail(flush.events)
  BY <1>1, <1>2, FlushFields
<1>4. AssociationTypes'
  BY <1>1, <1>2, <1>3 DEF AssociationInv, AssociationTypes
<1>5. ToldInOrder'
  <2>1. Append(told, Head(flush.events)) \o Tail(flush.events) = told \o flush.events
    BY <1>1, FlushFields, ToldNext DEF AssociationInv, AssociationTypes
  <2> QED BY <1>1, <1>3, <2>1, SMTT(30) DEF AssociationInv, ToldInOrder
<1> QED BY <1>1, <1>4, <1>5 DEF AssociationInv, SlotInv, Holding, HolderServed

LEMMA FlushEndKeeps == ASSUME AssociationInv, NEW c \in Conns, FlushEnd(c) PROVE AssociationInv'
<1>1. /\ flush' = [flush EXCEPT !.by = NoConn] /\ open' = open
      /\ svcb' = svcb /\ queue' = queue /\ told' = told /\ made' = made
  BY DEF FlushEnd
<1>2. flush' \in [by : Conns \cup {NoConn}, events : Seq(Event)] /\ flush'.events = flush.events
  BY <1>1, FlushFields
<1>3. PICK from, to : /\ <<from, to>> \in {<<"written", "serving">>, <<"freed", "gone">>}
                      /\ At(c, from, to)
  BY DEF FlushEnd
<1>4. pc' \in [Conns -> Stations]
  BY <1>3, StationTypes DEF AssociationInv, Stations
<1>5. SlotInv'
  BY <1>1, <1>3, StationKeeps, SlotsKept DEF AssociationInv, Slotted
<1>6. HolderServed'
  BY <1>1, <1>3, StationHolder DEF Holders
<1> QED BY <1>1, <1>2, <1>4, <1>5, <1>6 DEF AssociationInv, AssociationTypes, ToldInOrder

----------------------------------------------------------------------------
(* Data sets.  No two have the same name; what a listing still owes is     *)
(* there, and comes after the name it continues from.                      *)
DataSetTypes ==
  /\ sets \in Seq(DataSet)
  /\ \A i, j \in DOMAIN sets : sets[i].name = sets[j].name => i = j
  /\ blocks \in [Blocks -> [datSet : SetNames \cup {NoName}, ena : BOOLEAN]]
  /\ list \in [st : {"idle", "going", "done", "failed"}, after : SetNames \cup {NoName},
               due : SUBSET SetNames, moved : BOOLEAN]

DueAhead ==
  /\ list.due \subseteq NamesOf(sets)
  /\ list.st = "going" /\ ~list.moved =>
       \A i, j \in DOMAIN sets : sets[j].name = list.after /\ sets[i].name \in list.due => j < i

DataSetInv == DataSetTypes /\ DueAhead /\ ListedAll

LEMMA TupleIsSeq ==
  ASSUME NEW S, NEW n \in Nat, NEW f \in [1..n -> S]
  PROVE  f \in Seq(S)
OBVIOUS

LEMMA SetsShape ==
  ASSUME DataSetTypes
  PROVE  /\ Len(sets) \in Nat /\ DOMAIN sets = 1..Len(sets)
         /\ \A i \in 1..Len(sets) : /\ sets[i] \in DataSet /\ sets[i].name \in SetNames
                                    /\ sets[i].name # NoName
<1>1. Len(sets) \in Nat /\ DOMAIN sets = 1..Len(sets) /\ \A i \in 1..Len(sets) : sets[i] \in DataSet
  BY DEF DataSetTypes
<1>2. \A i \in 1..Len(sets) : sets[i].name \in SetNames
  BY <1>1 DEF DataSet
<1>3. NoName \notin SetNames
  BY DSAssumption
<1> QED BY <1>1, <1>2, <1>3

LEMMA ListFields ==
  ASSUME DataSetTypes
  PROVE  /\ list.st \in {"idle", "going", "done", "failed"} /\ list.after \in SetNames \cup {NoName}
         /\ list.due \in SUBSET SetNames /\ list.moved \in BOOLEAN
         /\ list = [st |-> list.st, after |-> list.after, due |-> list.due, moved |-> list.moved]
BY DEF DataSetTypes

----------------------------------------------------------------------------
LEMMA DefineNVLKeeps ==
  ASSUME DataSetInv, NEW n \in SetNames, DefineNVL(n)
  PROVE  DataSetInv' /\ KeepsDataSet
<1> DEFINE d == [name |-> n, deletable |-> TRUE]
           k == Len(sets) + 1
<1>1. /\ n \notin NamesOf(sets) /\ sets' = Append(sets, d) /\ blocks' = blocks
      /\ list' = [list EXCEPT !.moved = list.moved \/ (list.st = "going" /\ list.after = n)]
  BY DEF DefineNVL
<1>2. d \in DataSet /\ d.name = n
  BY DEF DataSet
<1> HIDE DEF d
<1>3. sets \in Seq(DataSet) /\ Len(sets) \in Nat /\ DOMAIN sets = 1..Len(sets)
  BY SetsShape DEF DataSetInv, DataSetTypes
<1>4. /\ sets' \in Seq(DataSet) /\ DOMAIN sets' = 1..k
      /\ \A i \in 1..Len(sets) : sets'[i] = sets[i]
      /\ sets'[k] = d
  BY <1>1, <1>2, <1>3
<1>5. \A i \in 1..Len(sets) : sets[i].name # n
  BY <1>1, <1>3 DEF NamesOf
<1>6. \A i \in 1..k : i # k => i \in 1..Len(sets)
  BY <1>3
<1> HIDE DEF k
<1>7. \A i, j \in DOMAIN sets' : sets'[i].name = sets'[j].name => i = j
  BY <1>2, <1>3, <1>4, <1>5, <1>6 DEF DataSetInv, DataSetTypes
<1>8. /\ list'.st = list.st /\ list'.after = list.after /\ list'.due = list.due
      /\ list'.moved = (list.moved \/ (list.st = "going" /\ list.after = n))
      /\ list' \in [st : {"idle", "going", "done", "failed"}, after : SetNames \cup {NoName},
                    due : SUBSET SetNames, moved : BOOLEAN]
  BY <1>1 DEF DataSetInv, DataSetTypes
<1>9. DataSetTypes'
  BY <1>1, <1>4, <1>7, <1>8 DEF DataSetInv, DataSetTypes
<1>10. NamesOf(sets)' = NamesOf(sets) \cup {n}
  <2>1. DOMAIN sets' = DOMAIN sets \cup {k}
    BY <1>3, <1>4 DEF k
  <2>2. sets'[k].name = n /\ \A i \in DOMAIN sets : sets'[i].name = sets[i].name
    BY <1>2, <1>3, <1>4
  <2>3. NamesOf(sets)' = {sets'[i].name : i \in DOMAIN sets \cup {k}}
    BY <2>1 DEF NamesOf
  <2>4. {sets'[i].name : i \in DOMAIN sets \cup {k}} = {sets[i].name : i \in DOMAIN sets} \cup {n}
    BY <2>2, Zenon
  <2> QED BY <2>3, <2>4 DEF NamesOf
<1>11. DueAhead'
  <2>1. list'.due \subseteq NamesOf(sets)'
    BY <1>8, <1>10 DEF DataSetInv, DueAhead
  <2>2. ASSUME list'.st = "going", ~list'.moved, NEW i \in DOMAIN sets', NEW j \in DOMAIN sets',
               sets'[j].name = list'.after, sets'[i].name \in list'.due
        PROVE  j < i
    <3>1. list.st = "going" /\ ~list.moved /\ list.after # n
      BY <1>8, <2>2
    <3>2. j # k /\ i # k
      BY <1>1, <1>2, <1>4, <1>8, <2>2, <3>1 DEF DataSetInv, DueAhead
    <3> QED BY <1>3, <1>4, <1>6, <1>8, <2>2, <3>1, <3>2 DEF DataSetInv, DueAhead
  <2> QED BY <2>1, <2>2 DEF DueAhead
<1>12. ListedAll'
  BY <1>8 DEF DataSetInv, ListedAll
<1>13. KeepsDataSet
  BY <1>1, <1>10 DEF KeepsDataSet, Resolves, NamesOf
<1> QED BY <1>9, <1>11, <1>12, <1>13 DEF DataSetInv

(* Writes of a control block.                                              *)
LEMMA BlockWritten ==
  ASSUME DataSetInv, sets' = sets, list' = list,
         blocks' \in [Blocks -> [datSet : SetNames \cup {NoName}, ena : BOOLEAN]],
         NEW b \in Blocks, blocks'[b].ena => blocks'[b].datSet \in NamesOf(sets),
         \A d \in Blocks \ {b} : blocks'[d] = blocks[d]
  PROVE  DataSetInv' /\ KeepsDataSet
<1>1. DataSetInv'
  BY DEF DataSetInv, DataSetTypes, DueAhead, ListedAll, NamesOf
<1>2. KeepsDataSet
  BY DEF KeepsDataSet, Resolves, NamesOf
<1> QED BY <1>1, <1>2

LEMMA WriteDatSetKeeps ==
  ASSUME DataSetInv, NEW b \in Blocks, NEW n \in SetNames \cup {NoName}, WriteDatSet(b, n)
  PROVE  DataSetInv' /\ KeepsDataSet
<1>1. ~blocks[b].ena /\ blocks' = [blocks EXCEPT ![b].datSet = n] /\ sets' = sets /\ list' = list
  BY DEF WriteDatSet
<1>2. /\ blocks' \in [Blocks -> [datSet : SetNames \cup {NoName}, ena : BOOLEAN]]
      /\ ~blocks'[b].ena /\ \A d \in Blocks \ {b} : blocks'[d] = blocks[d]
  BY <1>1 DEF DataSetInv, DataSetTypes
<1> QED BY <1>1, <1>2, BlockWritten

LEMMA WriteEnaKeeps ==
  ASSUME DataSetInv, NEW b \in Blocks, NEW on \in BOOLEAN, WriteEna(b, on)
  PROVE  DataSetInv' /\ KeepsDataSet
<1>1. /\ on => blocks[b].datSet \in NamesOf(sets)
      /\ blocks' = [blocks EXCEPT ![b].ena = on] /\ sets' = sets /\ list' = list
  BY DEF WriteEna, ResolveDataSet
<1>2. /\ blocks' \in [Blocks -> [datSet : SetNames \cup {NoName}, ena : BOOLEAN]]
      /\ blocks'[b].ena = on /\ blocks'[b].datSet = blocks[b].datSet
      /\ \A d \in Blocks \ {b} : blocks'[d] = blocks[d]
  BY <1>1 DEF DataSetInv, DataSetTypes
<1> QED BY <1>1, <1>2, BlockWritten

----------------------------------------------------------------------------
(* A listing changes nothing but itself.                                   *)
LEMMA ListOnly ==
  ASSUME DataSetInv, sets' = sets, blocks' = blocks,
         list' \in [st : {"idle", "going", "done", "failed"}, after : SetNames \cup {NoName},
                    due : SUBSET SetNames, moved : BOOLEAN],
         list'.due \subseteq NamesOf(sets),
         list'.st = "going" /\ ~list'.moved =>
           \A i, j \in DOMAIN sets : sets[j].name = list'.after /\ sets[i].name \in list'.due => j < i,
         list'.st = "done" /\ ~list'.moved => list'.due = {}
  PROVE  DataSetInv' /\ KeepsDataSet
<1>1. DataSetInv'
  BY DEF DataSetInv, DataSetTypes, DueAhead, ListedAll, NamesOf
<1>2. KeepsDataSet
  BY DEF KeepsDataSet, Resolves, NamesOf
<1> QED BY <1>1, <1>2

LEMMA StartListKeeps == ASSUME DataSetInv, ListSets PROVE DataSetInv' /\ KeepsDataSet
<1>1. /\ list' = [st |-> "going", after |-> NoName, due |-> NamesOf(sets), moved |-> FALSE]
      /\ sets' = sets /\ blocks' = blocks
  BY DEF ListSets, Idle
<1>2. NamesOf(sets) \subseteq SetNames
  BY SetsShape DEF NamesOf, DataSetInv
<1>3. \A j \in DOMAIN sets : sets[j].name # NoName
  BY SetsShape DEF DataSetInv
<1> QED BY <1>1, <1>2, <1>3, ListOnly

(* What follows the continuation name are the places after some k, and     *)
(* every name the listing still owes is at one of them.                    *)
LEMMA FollowingAt ==
  ASSUME DataSetInv, list.st = "going"
  PROVE  \E k \in Nat :
           /\ k <= Len(sets) /\ Following(list.after) = SubSeq(sets, k + 1, Len(sets))
           /\ ~list.moved => \A i \in 1..Len(sets) : sets[i].name \in list.due => k < i
<1> DEFINE at == {i \in DOMAIN sets : sets[i].name = list.after}
<1>1. sets \in Seq(DataSet) /\ Len(sets) \in Nat /\ DOMAIN sets = 1..Len(sets)
  BY SetsShape DEF DataSetInv, DataSetTypes
<1>2. CASE at = {}
  <2>1. Following(list.after) = sets
    BY <1>2 DEF Following
  <2>2. sets = SubSeq(sets, 0 + 1, Len(sets))
    <3>1. SubSeq(sets, 1, Len(sets)) = sets
      BY <1>1
    <3> QED BY <3>1
  <2>3. 0 \in Nat /\ 0 <= Len(sets) /\ \A i \in 1..Len(sets) : 0 < i
    BY <1>1
  <2> QED BY <2>1, <2>2, <2>3
<1>3. CASE at # {}
  <2> DEFINE k == CHOOSE i \in at : TRUE
  <2>1. k \in at
    BY <1>3
  <2>2. Following(list.after) = SubSeq(sets, k + 1, Len(sets))
    BY <1>3 DEF Following
  <2> HIDE DEF k
  <2>3. k \in Nat /\ k <= Len(sets) /\ k \in DOMAIN sets /\ sets[k].name = list.after
    BY <1>1, <2>1
  <2>4. ~list.moved => \A i \in 1..Len(sets) : sets[i].name \in list.due => k < i
    BY <1>1, <2>3 DEF DataSetInv, DueAhead
  <2> QED BY <2>2, <2>3, <2>4
<1> QED BY <1>2, <1>3

(* A page is the m places after k.                                         *)
PageLen(rest, p) == IF Len(rest) < p THEN Len(rest) ELSE p
PageOf(rest, p) == SubSeq(rest, 1, PageLen(rest, p))

LEMMA FollowingLen ==
  ASSUME NEW S, NEW s \in Seq(S), NEW k \in Nat, k <= Len(s)
  PROVE  /\ SubSeq(s, k + 1, Len(s)) \in Seq(S)
         /\ Len(SubSeq(s, k + 1, Len(s))) = Len(s) - k
         /\ \A i \in 1..(Len(s) - k) : SubSeq(s, k + 1, Len(s))[i] = s[k + i]
<1> DEFINE a == k + 1
           z == Len(s)
           rest == SubSeq(s, a, z)
<1>1. Len(s) \in Nat /\ k \in Nat /\ k <= Len(s)
  OBVIOUS
<1>2. /\ rest \in Seq(S) /\ Len(rest) = IF a <= z THEN z - a + 1 ELSE 0
      /\ \A i \in 1..(z - a + 1) : rest[i] = s[a + i - 1]
  <2>1. a \in Int /\ z \in Int /\ \A i \in a..z : s[i] \in S
    BY <1>1
  <2> HIDE DEF a, z
  <2> QED BY <2>1
<1> HIDE DEF rest
<1>3. Len(rest) = Len(s) - k
  BY <1>1, <1>2
<1>4. \A i \in 1..(Len(s) - k) : rest[i] = s[k + i]
  <2> SUFFICES ASSUME NEW i \in 1..(Len(s) - k) PROVE rest[i] = s[k + i]
    OBVIOUS
  <2>1. i \in 1..(z - a + 1) /\ a + i - 1 = k + i
    BY <1>1
  <2> QED BY <1>2, <2>1
<1> QED BY <1>2, <1>3, <1>4 DEF rest

LEMMA AddBack ==
  \A n, k, m, r \in Nat : r = n - k /\ m <= r =>
    k + m <= n /\ (m = r => k + m = n) /\ \A i \in 1..m : i \in 1..(n - k)
OBVIOUS

LEMMA BatchOf ==
  ASSUME NEW S, NEW rest \in Seq(S), NEW p \in Nat \ {0}
  PROVE  /\ PageLen(rest, p) \in Nat /\ PageLen(rest, p) <= Len(rest)
         /\ Len(rest) <= p => PageLen(rest, p) = Len(rest)
         /\ Len(rest) > p => PageLen(rest, p) = p
         /\ Len(PageOf(rest, p)) = PageLen(rest, p)
         /\ DOMAIN PageOf(rest, p) = 1..PageLen(rest, p)
         /\ \A i \in 1..PageLen(rest, p) : PageOf(rest, p)[i] = rest[i]
<1> DEFINE m == PageLen(rest, p)
           batch == SubSeq(rest, 1, m)
<1>1. Len(rest) \in Nat
  OBVIOUS
<1>2. m \in Nat /\ m <= Len(rest) /\ (Len(rest) <= p => m = Len(rest)) /\ (Len(rest) > p => m = p)
  BY <1>1 DEF PageLen
<1> HIDE DEF m
<1>3. batch = [i \in 1..m |-> rest[i]]
  BY <1>1, <1>2 DEF Map
<1> HIDE DEF batch
<1>4. batch \in [1..m -> S]
  <2>1. \A i \in 1..m : rest[i] \in S
    BY <1>1, <1>2
  <2> QED BY <1>3, <2>1
<1>5. DOMAIN batch = 1..m /\ Len(batch) = m
  BY <1>2, <1>4
<1>6. \A i \in 1..m : batch[i] = rest[i]
  BY <1>3
<1> QED BY <1>2, <1>5, <1>6 DEF batch, m, PageOf

LEMMA NextPageKeeps == ASSUME DataSetInv, NextPage PROVE DataSetInv' /\ KeepsDataSet
<1> DEFINE rest  == Following(list.after)
           m     == PageLen(rest, SetPage)
           batch == PageOf(rest, SetPage)
           more  == Len(rest) > SetPage
           due   == list.due \ NamesOf(batch)
<1>1. /\ list.st = "going" /\ sets' = sets /\ blocks' = blocks
      /\ list' = IF ~more \/ batch = <<>> THEN [list EXCEPT !.st = "done", !.due = due]
                 ELSE IF batch[Len(batch)].name = list.after THEN [list EXCEPT !.st = "failed"]
                 ELSE [list EXCEPT !.due = due, !.after = batch[Len(batch)].name]
  BY DEF NextPage, PageLen, PageOf
<1>2. PICK k \in Nat :
        /\ k <= Len(sets) /\ rest = SubSeq(sets, k + 1, Len(sets))
        /\ ~list.moved => \A i \in 1..Len(sets) : sets[i].name \in list.due => k < i
  BY <1>1, FollowingAt
<1>3. SetPage \in Nat \ {0}
  BY DSAssumption
<1>4. sets \in Seq(DataSet) /\ Len(sets) \in Nat /\ DOMAIN sets = 1..Len(sets)
  BY SetsShape DEF DataSetInv, DataSetTypes
<1>k. k \in Nat /\ k <= Len(sets)
  BY <1>2
<1>5. /\ m \in Nat /\ k + m <= Len(sets) /\ Len(batch) = m /\ DOMAIN batch = 1..m
      /\ \A i \in 1..m : batch[i] = sets[k + i]
      /\ ~more => k + m = Len(sets)
      /\ more => m = SetPage
  <2> HIDE DEF rest
  <2>1. rest \in Seq(DataSet) /\ Len(rest) = Len(sets) - k
    <3>1. sets \in Seq(DataSet) /\ rest = SubSeq(sets, k + 1, Len(sets))
      BY <1>2, <1>4
    <3> QED BY <1>k, <3>1, FollowingLen, Zenon
  <2>2. \A i \in 1..(Len(sets) - k) : rest[i] = sets[k + i]
    BY <1>2, <1>4, FollowingLen
  <2>3. /\ m \in Nat /\ m <= Len(rest) /\ Len(batch) = m /\ DOMAIN batch = 1..m
        /\ Len(rest) <= SetPage => m = Len(rest)
        /\ more => m = SetPage
    BY <1>3, <2>1, BatchOf, Zenon
  <2>4. \A i \in 1..m : batch[i] = rest[i]
    BY <1>3, <2>1, BatchOf, Zenon
  <2>5. Len(rest) \in Nat /\ (~more => Len(rest) <= SetPage)
    <3>1. Len(rest) \in Nat
      BY <2>1
    <3> QED BY <1>3, <3>1
  <2> HIDE DEF m, batch, more
  <2>6. k + m <= Len(sets) /\ (~more => k + m = Len(sets))
    <3>1. k + m <= Len(sets) /\ (m = Len(rest) => k + m = Len(sets))
      <4>1. Len(rest) = Len(sets) - k /\ m <= Len(rest) /\ Len(rest) \in Nat /\ m \in Nat
        BY <2>1, <2>3, <2>5
      <4>2. Len(sets) \in Nat
        BY <1>4
      <4> QED BY <4>1, <4>2
    <3>2. ~more => m = Len(rest)
      BY <2>3, <2>5, Zenon
    <3> QED BY <3>1, <3>2, Zenon
  <2>7. \A i \in 1..m : batch[i] = sets[k + i]
    <3> SUFFICES ASSUME NEW i \in 1..m PROVE batch[i] = sets[k + i]
      OBVIOUS
    <3>1. i \in 1..(Len(sets) - k)
      BY <1>4, <1>k, <2>1, <2>3, <2>5, AddBack, Zenon
    <3> QED BY <2>2, <2>4, <3>1
  <2> QED BY <2>3, <2>6, <2>7
<1>6. more => batch # <<>>
  BY <1>3, <1>5
<1> HIDE DEF batch, more, m, rest
<1>7. \A i \in 1..Len(sets) : sets[i].name \in due => sets[i].name \in list.due /\ ~(k < i /\ i <= k + m)
  <2> SUFFICES ASSUME NEW i \in 1..Len(sets), sets[i].name \in due, k < i, i <= k + m PROVE FALSE
    OBVIOUS
  <2>i. i \in Nat
    OBVIOUS
  <2>1. i - k \in 1..m /\ k + (i - k) = i
    <3>1. m \in Nat /\ k \in Nat /\ i \in Nat
      BY <1>5, <1>k, <2>i, Zenon
    <3> QED BY <3>1
  <2>2. batch[i - k].name = sets[i].name
    BY <1>5, <2>1
  <2> QED BY <1>5, <2>1, <2>2 DEF NamesOf
<1>8. due \subseteq NamesOf(sets) /\ due \in SUBSET SetNames
  BY ListFields DEF DataSetInv, DueAhead
<1> HIDE DEF due
<1>9. ~list.moved => \A i \in 1..Len(sets) : sets[i].name \in due => k + m < i
  <2> SUFFICES ASSUME ~list.moved, NEW i \in 1..Len(sets), sets[i].name \in due PROVE k + m < i
    OBVIOUS
  <2>i. i \in Nat
    OBVIOUS
  <2>1. m \in Nat /\ k \in Nat /\ i \in Nat
    BY <1>5, <1>k, <2>i, Zenon
  <2>2. k < i /\ ~(k < i /\ i <= k + m)
    <3>1. sets[i].name \in list.due /\ ~(k < i /\ i <= k + m)
      BY <1>7
    <3> QED BY <1>2, <3>1
  <2> QED BY <2>1, <2>2
<1>10. CASE ~more \/ batch = <<>>
  <2>1. list' = [list EXCEPT !.st = "done", !.due = due] /\ k + m = Len(sets)
    BY <1>1, <1>5, <1>6, <1>10
  <2>2. /\ list' \in [st : {"idle", "going", "done", "failed"}, after : SetNames \cup {NoName},
                       due : SUBSET SetNames, moved : BOOLEAN]
        /\ list'.st = "done" /\ list'.due = due /\ list'.moved = list.moved
    BY <1>8, <2>1 DEF DataSetInv, DataSetTypes
  <2>3. ~list.moved => due = {}
    <3> SUFFICES ASSUME ~list.moved, NEW n \in due PROVE FALSE
      OBVIOUS
    <3>1. PICK i \in 1..Len(sets) : sets[i].name = n
      BY <1>4, <1>8 DEF NamesOf
    <3>2. k + m < i
      BY <1>9, <3>1
    <3> QED BY <1>4, <2>1, <3>2
  <2> QED BY <1>1, <1>8, <2>2, <2>3, ListOnly
<1>11. CASE more /\ batch[Len(batch)].name = list.after
  <2>1. list' = [list EXCEPT !.st = "failed"]
    BY <1>1, <1>6, <1>11
  <2>2. /\ list' \in [st : {"idle", "going", "done", "failed"}, after : SetNames \cup {NoName},
                       due : SUBSET SetNames, moved : BOOLEAN]
        /\ list'.st = "failed" /\ list'.due = list.due
    BY <2>1 DEF DataSetInv, DataSetTypes
  <2> QED BY <1>1, <2>2, ListOnly DEF DataSetInv, DueAhead
<1>12. CASE more /\ batch[Len(batch)].name # list.after
  <2>1. list' = [list EXCEPT !.due = due, !.after = batch[Len(batch)].name]
    BY <1>1, <1>6, <1>12
  <2>2. m \in 1..m /\ k + m \in 1..Len(sets)
    BY <1>3, <1>4, <1>5, <1>12
  <2>3. batch[Len(batch)].name = sets[k + m].name
    BY <1>5, <2>2
  <2>4. sets[k + m].name \in SetNames
    BY <2>2, SetsShape DEF DataSetInv
  <2>5. /\ list' \in [st : {"idle", "going", "done", "failed"}, after : SetNames \cup {NoName},
                       due : SUBSET SetNames, moved : BOOLEAN]
        /\ list'.st = "going" /\ list'.due = due /\ list'.moved = list.moved
        /\ list'.after = sets[k + m].name
    BY <1>1, <1>8, <2>1, <2>3, <2>4 DEF DataSetInv, DataSetTypes
  <2>6. ASSUME ~list.moved, NEW i \in DOMAIN sets, NEW j \in DOMAIN sets,
               sets[j].name = list'.after, sets[i].name \in list'.due
        PROVE  j < i
    <3>1. j = k + m
      BY <1>4, <2>2, <2>5, <2>6 DEF DataSetInv, DataSetTypes
    <3> QED BY <1>4, <1>9, <2>5, <2>6, <3>1
  <2> QED BY <1>1, <1>8, <2>5, <2>6, ListOnly
<1> QED BY <1>10, <1>11, <1>12

----------------------------------------------------------------------------
(* From here on, what takes counting: the slots of the connections, the    *)
(* names of the data sets, the pages of a directory.                       *)
LEMMA AssociationInit ==
  ASSUME FiniteFacts
  PROVE  ConnsInit => AssociationInv
<1> SUFFICES ASSUME ConnsInit PROVE AssociationInv
  OBVIOUS
<1>1. AssociationTypes
  <2>1. pc \in [Conns -> Stations]
    BY DEF ConnsInit, Stations
  <2>2. svcb \in Event
    BY FreeEvent DEF ConnsInit
  <2>3. queue \in Seq(Event) /\ told \in Seq(Event) /\ made \in Seq(Event)
    BY DEF ConnsInit
  <2>4. flush \in [by : Conns \cup {NoConn}, events : Seq(Event)]
    BY DEF ConnsInit
  <2> QED BY <2>1, <2>2, <2>3, <2>4 DEF AssociationTypes
<1>2. Holding = {}
  BY DEF ConnsInit, Holding, Slotted
<1>3. SlotInv
  <2>1. IsFiniteSet(Holding) /\ Cardinality(Holding) = 0
    BY Zenon, <1>2 DEF FiniteFacts, NoneCounted
  <2>2. open = 0 /\ MaxConns \in Nat
    BY AAssumption DEF ConnsInit
  <2> QED BY <2>1, <2>2 DEF SlotInv
<1>4. HolderServed
  BY DEF ConnsInit, HolderServed, Free
<1>5. ToldInOrder
  BY DEF ConnsInit, ToldInOrder
<1> QED BY <1>1, <1>3, <1>4, <1>5 DEF AssociationInv

LEMMA SlotTaken ==
  ASSUME FiniteFacts, SlotInv, NEW c, c \notin Holding, Holding' = Holding \cup {c}, open' = open + 1,
         ~(MaxConns > 0 /\ open >= MaxConns)
  PROVE  SlotInv'
<1>1. IsFiniteSet(Holding \cup {c}) /\ Cardinality(Holding \cup {c}) = Cardinality(Holding) + 1
  BY DEF FiniteFacts, OneMore, SlotInv
<1>2. open \in Nat /\ MaxConns \in Nat
  BY AAssumption DEF FiniteFacts, Counted, SlotInv
<1>3. MaxConns > 0 => open + 1 <= MaxConns
  BY <1>2
<1> QED BY <1>1, <1>3 DEF SlotInv

LEMMA SlotGiven ==
  ASSUME FiniteFacts, SlotInv, NEW c, c \in Holding, Holding' = Holding \ {c}, ReleaseSlot
  PROVE  SlotInv'
<1>1. IsFiniteSet(Holding \ {c}) /\ Cardinality(Holding \ {c}) = Cardinality(Holding) - 1
  BY DEF FiniteFacts, OneLess, SlotInv
<1>2. open \in Nat /\ MaxConns \in Nat
  BY AAssumption DEF FiniteFacts, Counted, SlotInv
<1>3. Cardinality(Holding) # 0
  BY DEF FiniteFacts, NoneCounted, SlotInv
<1>4. open' = open - 1
  BY <1>2, <1>3 DEF SlotInv, ReleaseSlot
<1> QED BY <1>1, <1>2, <1>4 DEF SlotInv

LEMMA TakeSlotKeeps == ASSUME FiniteFacts, AssociationInv, NEW c \in Conns, TakeSlot(c) PROVE AssociationInv'
<1>1. CASE MaxConns > 0 /\ open >= MaxConns
  <2>1. At(c, "raw", "refused") /\ unchangedSV /\ open' = open
    BY <1>1 DEF TakeSlot
  <2>2. SlotInv'
    BY <2>1, StationKeeps, SlotsKept DEF AssociationInv, Slotted
  <2>3. AssociationTypes' /\ HolderServed' /\ ToldInOrder'
    BY <2>1, QuietStation DEF Stations, Holders
  <2> QED BY <2>2, <2>3 DEF AssociationInv
<1>2. CASE ~(MaxConns > 0 /\ open >= MaxConns)
  <2>1. At(c, "raw", "slot") /\ unchangedSV /\ open' = open + 1
    BY <1>2 DEF TakeSlot
  <2>2. SlotInv'
    BY <1>2, <2>1, StationTakes, SlotTaken DEF AssociationInv, Slotted
  <2>3. AssociationTypes' /\ HolderServed' /\ ToldInOrder'
    BY <2>1, QuietStation DEF Stations, Holders
  <2> QED BY <2>2, <2>3 DEF AssociationInv
<1> QED BY <1>1, <1>2

LEMMA HandshakeKeeps == ASSUME FiniteFacts, AssociationInv, NEW c \in Conns, Handshake(c) PROVE AssociationInv'
<1>1. CASE At(c, "slot", "accepted") /\ open' = open
  <2>1. SlotInv'
    BY <1>1, StationKeeps, SlotsKept DEF AssociationInv, Slotted
  <2>2. AssociationTypes' /\ HolderServed' /\ ToldInOrder'
    BY <1>1, QuietStation DEF Stations, Holders, Handshake
  <2> QED BY <2>1, <2>2 DEF AssociationInv
<1>2. CASE At(c, "slot", "failed") /\ ReleaseSlot
  <2>1. SlotInv'
    BY <1>2, StationGives, SlotGiven DEF AssociationInv, Slotted
  <2>2. AssociationTypes' /\ HolderServed' /\ ToldInOrder'
    BY <1>2, QuietStation DEF Stations, Holders, Handshake
  <2> QED BY <2>1, <2>2 DEF AssociationInv
<1> QED BY <1>1, <1>2 DEF Handshake

LEMMA RegisterKeeps == ASSUME FiniteFacts, AssociationInv, NEW c \in Conns, Register(c) PROVE AssociationInv'
<1>1. CASE server = "closed"
  <2>1. At(c, "accepted", "failed") /\ ReleaseSlot /\ unchangedSV
    BY <1>1 DEF Register
  <2>2. SlotInv'
    BY <2>1, StationGives, SlotGiven DEF AssociationInv, Slotted
  <2>3. AssociationTypes' /\ HolderServed' /\ ToldInOrder'
    BY <2>1, QuietStation DEF Stations, Holders
  <2> QED BY <2>2, <2>3 DEF AssociationInv
<1>2. CASE server # "closed"
  <2>1. At(c, "accepted", "serving") /\ open' = open /\ unchangedSV
    BY <1>2 DEF Register
  <2>2. SlotInv'
    BY <2>1, StationKeeps, SlotsKept DEF AssociationInv, Slotted
  <2>3. AssociationTypes' /\ HolderServed' /\ ToldInOrder'
    BY <2>1, QuietStation DEF Stations, Holders
  <2> QED BY <2>2, <2>3 DEF AssociationInv
<1> QED BY <1>1, <1>2

LEMMA ReleaseKeeps == ASSUME FiniteFacts, AssociationInv, NEW c \in Conns, Release(c) PROVE AssociationInv'
<1>1. At(c, "ended", "released") /\ unchangedSV /\ ReleaseSlot
  BY DEF Release
<1>2. SlotInv'
  BY <1>1, StationGives, SlotGiven DEF AssociationInv, Slotted
<1>3. AssociationTypes' /\ HolderServed' /\ ToldInOrder'
  BY <1>1, QuietStation DEF Stations, Holders
<1> QED BY <1>2, <1>3 DEF AssociationInv

(* Every step of the associations keeps their invariant.                   *)
LEMMA AssociationStep ==
  ASSUME FiniteFacts
  PROVE  AssociationInv /\ [ConnsNext]_asVars => AssociationInv'
<1> SUFFICES ASSUME AssociationInv, [ConnsNext]_asVars PROVE AssociationInv'
  OBVIOUS
<1>1. ASSUME NEW c \in Conns, Proceed(c) PROVE AssociationInv'
  BY <1>1, TakeSlotKeeps, HandshakeKeeps, RegisterKeeps, EndKeeps, ReleaseKeeps, ReleaseSVCBsKeeps,
     FlushBeginKeeps, FlushTakeHolds, TellKeeps, FlushEndKeeps DEF Proceed
<1>2. ASSUME NEW c \in Conns, Lose(c) PROVE AssociationInv'
  BY <1>2, QuietElsewhere DEF Lose
<1>3. CASE StopListening \/ CloseAll
  BY <1>3, QuietElsewhere DEF StopListening, CloseAll
<1>4. CASE UNCHANGED asVars
  BY <1>4, QuietElsewhere DEF asVars, unchangedSV
<1> QED BY <1>1, <1>2, <1>3, <1>4, AcceptKeeps, WriteKeeps DEF ConnsNext

LEMMA AssociationInvCounts == AssociationInv => SlotsCounted /\ HolderServed /\ ToldInOrder
BY DEF AssociationInv, SlotInv, SlotsCounted, Holding, Slotted

(* Between finite sets of one size, a function onto the other is one-one.  *)
LEMMA OntoOnce ==
  ASSUME FiniteFacts, NEW S, NEW P, NEW f \in [S -> P], IsFiniteSet(S), Cardinality(S) = Cardinality(P),
         \A y \in P : \E x \in S : f[x] = y
  PROVE  \A x, y \in S : f[x] = f[y] => x = y
BY DEF FiniteFacts, OntoIsOneToOne

(* The configuration names every data set once.                            *)
LEMMA ConfiguredOnce ==
  ASSUME FiniteFacts, NEW s \in [1..Cardinality(Configured) -> [name : Configured, deletable : {FALSE}]],
         NamesOf(s) = Configured
  PROVE  \A i, j \in DOMAIN s : s[i].name = s[j].name => i = j
<1> DEFINE n == Cardinality(Configured)
           f == [i \in 1..n |-> s[i].name]
<1>1. IsFiniteSet(Configured) /\ n \in Nat
  <2>1. IsFiniteSet(Configured)
    BY DSAssumption
  <2> QED BY <2>1 DEF FiniteFacts, Counted
<1>2. IsFiniteSet(1..n) /\ Cardinality(1..n) = n
  BY <1>1 DEF FiniteFacts, IntervalCounted
<1>3. f \in [1..n -> Configured] /\ \A y \in Configured : \E i \in 1..n : f[i] = y
  <2>1. f \in [1..n -> Configured]
    OBVIOUS
  <2>2. \A y \in Configured : \E i \in 1..n : f[i] = y
    BY DEF NamesOf
  <2> QED BY <2>1, <2>2
<1>4. \A i, j \in 1..n : f[i] = f[j] => i = j
  <2>0. n = Cardinality(Configured)
    OBVIOUS
  <2> HIDE DEF f, n
  <2> DEFINE D == 1..n
  <2>1. IsFiniteSet(D) /\ Cardinality(D) = Cardinality(Configured)
    BY <1>2, <2>0
  <2>2. f \in [D -> Configured] /\ \A y \in Configured : \E i \in D : f[i] = y
    BY <1>3
  <2> HIDE DEF D
  <2>3. \A i, j \in D : f[i] = f[j] => i = j
    BY <2>1, <2>2, OntoOnce
  <2> QED BY <2>3 DEF D
<1> QED BY <1>4

LEMMA DataSetInit ==
  ASSUME FiniteFacts
  PROVE  SetsInit => DataSetInv
<1> SUFFICES ASSUME SetsInit PROVE DataSetInv
  OBVIOUS
<1>1. /\ sets \in [1..Cardinality(Configured) -> [name : Configured, deletable : {FALSE}]]
      /\ NamesOf(sets) = Configured
  BY DEF SetsInit
<1>2. \A i, j \in DOMAIN sets : sets[i].name = sets[j].name => i = j
  BY <1>1, ConfiguredOnce
<1>3. Cardinality(Configured) \in Nat
  <2>1. IsFiniteSet(Configured)
    BY DSAssumption
  <2> QED BY <2>1 DEF FiniteFacts, Counted
<1>4. sets \in Seq([name : Configured, deletable : {FALSE}])
  BY <1>1, <1>3, TupleIsSeq
<1>5. sets \in Seq(DataSet)
  <2>1. [name : Configured, deletable : {FALSE}] \subseteq DataSet
    BY DSAssumption DEF DataSet
  <2> DEFINE R == [name : Configured, deletable : {FALSE}]
  <2>2. R \subseteq DataSet /\ sets \in Seq(R)
    BY <1>4, <2>1
  <2> HIDE DEF R
  <2> QED BY <2>2, WiderSeq
<1>6. blocks \in [Blocks -> [datSet : SetNames \cup {NoName}, ena : BOOLEAN]] /\ list = Idle
  BY DEF SetsInit
<1>7. DataSetTypes
  BY <1>2, <1>5, <1>6 DEF DataSetTypes, Idle
<1>8. DueAhead /\ ListedAll
  BY <1>6 DEF Idle, DueAhead, ListedAll
<1> QED BY <1>7, <1>8 DEF DataSetInv

(* What a deletion keeps, it keeps in its order.                           *)
LEMMA DeleteNVLKeeps ==
  ASSUME FiniteFacts, DataSetInv, NEW ns, DeleteNVL(ns)
  PROVE  DataSetInv' /\ KeepsDataSet
<1> DEFINE stay == DeleteDataset(ns)
<1>1. stay \subseteq DOMAIN sets
  BY DEF DeleteDataset
<1>2. sets \in Seq(DataSet) /\ Len(sets) \in Nat /\ DOMAIN sets = 1..Len(sets)
  BY SetsShape DEF DataSetInv, DataSetTypes
<1>3. IsFiniteSet(stay) /\ Cardinality(stay) \in Nat
  <2> HIDE DEF stay
  <2>1. IsFiniteSet(1..Len(sets))
    BY <1>2 DEF FiniteFacts, IntervalCounted
  <2>2. IsFiniteSet(stay)
    BY <1>1, <1>2, <2>1 DEF FiniteFacts, PartsFinite
  <2> QED BY <2>2 DEF FiniteFacts, Counted
<1>4. PICK f \in [1..Cardinality(stay) -> stay] :
        /\ {f[i] : i \in DOMAIN f} = stay /\ \A i, j \in DOMAIN f : i < j => f[i] < f[j]
        /\ sets' = [i \in DOMAIN f |-> sets[f[i]]]
        /\ list' = [list EXCEPT !.due = list.due \cap NamesOf(sets')]
        /\ blocks' = blocks
  BY DEF DeleteNVL
<1> DEFINE n == Cardinality(stay)
<1>5. DOMAIN sets' = 1..n /\ n \in Nat /\ \A i \in 1..n : f[i] \in stay /\ f[i] \in DOMAIN sets /\ sets'[i] = sets[f[i]]
  BY <1>1, <1>3, <1>4
<1>6. \A x \in stay : \E i \in 1..n : f[i] = x
  BY <1>4
<1>7. \A i, j \in 1..n : i < j => f[i] < f[j]
  BY <1>4
<1>8. \A x \in DOMAIN sets : x \notin stay => ~DataSetInUse(sets[x].name)
  BY DEF DeleteDataset
<1> HIDE DEF n, stay
<1>9. sets' \in Seq(DataSet)
  <2>1. \A i \in 1..n : sets'[i] \in DataSet
    BY <1>2, <1>5
  <2>2. sets' \in [1..n -> DataSet]
    BY <1>4, <1>5, <2>1
  <2> QED BY <1>5, <2>2
<1>10. \A i, j \in 1..n : f[i] < f[j] => i < j
  BY <1>2, <1>5, <1>7
<1>11. \A i, j \in DOMAIN sets' : sets'[i].name = sets'[j].name => i = j
  <2> SUFFICES ASSUME NEW i \in 1..n, NEW j \in 1..n, sets'[i].name = sets'[j].name PROVE i = j
    BY <1>5
  <2>1. f[i] = f[j]
    BY <1>5 DEF DataSetInv, DataSetTypes
  <2>2. f[i] \in Int /\ f[j] \in Int /\ i \in Int /\ j \in Int
    BY <1>2, <1>5
  <2>3. ~(f[i] < f[j]) /\ ~(f[j] < f[i])
    BY <2>1, <2>2
  <2> QED BY <1>7, <2>2, <2>3
<1>12. /\ list'.st = list.st /\ list'.after = list.after /\ list'.moved = list.moved
       /\ list'.due = list.due \cap NamesOf(sets')
       /\ list' \in [st : {"idle", "going", "done", "failed"}, after : SetNames \cup {NoName},
                     due : SUBSET SetNames, moved : BOOLEAN]
  BY <1>4 DEF DataSetInv, DataSetTypes
<1>13. DataSetTypes'
  BY <1>4, <1>9, <1>11, <1>12 DEF DataSetInv, DataSetTypes
<1>14. DueAhead'
  <2>1. list'.due \subseteq NamesOf(sets)'
    BY <1>12 DEF NamesOf
  <2>2. ASSUME list'.st = "going", ~list'.moved, NEW i \in DOMAIN sets', NEW j \in DOMAIN sets',
               sets'[j].name = list'.after, sets'[i].name \in list'.due
        PROVE  j < i
    <3>1. i \in 1..n /\ j \in 1..n /\ f[i] \in DOMAIN sets /\ f[j] \in DOMAIN sets
      BY <1>5
    <3>2. list.st = "going" /\ ~list.moved /\ sets[f[j]].name = list.after /\ sets[f[i]].name \in list.due
      BY <1>5, <1>12, <2>2, <3>1
    <3>3. f[j] < f[i]
      BY <3>1, <3>2 DEF DataSetInv, DueAhead
    <3> QED BY <1>10, <3>1, <3>3
  <2> QED BY <2>1, <2>2 DEF DueAhead
<1>15. ListedAll'
  BY <1>12 DEF DataSetInv, ListedAll
<1>16. KeepsDataSet
  <2> SUFFICES ASSUME NEW b \in Blocks, blocks[b].datSet \in NamesOf(sets)
               PROVE  blocks[b].datSet \in NamesOf(sets)'
    BY <1>4 DEF KeepsDataSet, Resolves, NamesOf
  <2>1. PICK x \in DOMAIN sets : sets[x].name = blocks[b].datSet
    BY DEF NamesOf
  <2>2. x \in stay
    BY <1>8, <2>1 DEF DataSetInUse
  <2>3. PICK i \in 1..n : f[i] = x
    BY <1>6, <2>2
  <2>4. sets'[i].name = blocks[b].datSet
    BY <1>5, <2>1, <2>3
  <2> QED BY <1>5, <2>4 DEF NamesOf
<1> QED BY <1>13, <1>14, <1>15, <1>16 DEF DataSetInv

(* Every step on the data sets keeps their invariant, and takes no data    *)
(* set from an enabled block.                                              *)
LEMMA DataSetStep ==
  ASSUME FiniteFacts
  PROVE  DataSetInv /\ [SetsNext]_dsVars => DataSetInv' /\ KeepsDataSet
<1> SUFFICES ASSUME DataSetInv, [SetsNext]_dsVars PROVE DataSetInv' /\ KeepsDataSet
  OBVIOUS
<1>1. CASE UNCHANGED dsVars
  <2>1. UNCHANGED <<sets, blocks, list>>
    BY <1>1 DEF dsVars
  <2>2. DataSetTypes'
    BY <2>1 DEF DataSetInv, DataSetTypes
  <2>3. DueAhead'
    BY <2>1 DEF DataSetInv, DueAhead, NamesOf
  <2>4. ListedAll' /\ KeepsDataSet
    BY <2>1 DEF DataSetInv, KeepsDataSet, Resolves, ListedAll, NamesOf
  <2> QED BY <2>2, <2>3, <2>4 DEF DataSetInv
<1> QED BY <1>1, DefineNVLKeeps, DeleteNVLKeeps, WriteDatSetKeeps, WriteEnaKeeps, StartListKeeps,
           NextPageKeeps DEF SetsNext

----------------------------------------------------------------------------
(* Files.  What a listing still owes is there, and comes after the name it *)
(* continues from.                                                         *)
FileStoreInv ==
  /\ DOMAIN dir = FileNames /\ IsFiniteSet(There)
  /\ ls \in [st : {"idle", "going", "done"}, after : Nat, due : SUBSET Nat]
  /\ ls.due \subseteq There
  /\ ls.st = "going" => \A n \in ls.due : n > ls.after
  /\ DirectoryListed

(* A finite set of numbers has a greatest: the one with the fewest above.  *)
LEMMA GreatestNumber ==
  ASSUME FiniteFacts, NEW S \in SUBSET Nat, S # {}, IsFiniteSet(S)
  PROVE  \E x \in S : \A y \in S : x >= y
<1> DEFINE Above(x) == {y \in S : y > x}
           Counts == {Cardinality(Above(x)) : x \in S}
<1>1. \A x \in S : IsFiniteSet(Above(x)) /\ Cardinality(Above(x)) \in Nat
  <2> SUFFICES ASSUME NEW x \in S PROVE IsFiniteSet(Above(x)) /\ Cardinality(Above(x)) \in Nat
    OBVIOUS
  <2>1. Above(x) \in SUBSET S
    OBVIOUS
  <2>2. IsFiniteSet(Above(x))
    BY <2>1 DEF FiniteFacts, PartsFinite
  <2> QED BY <2>2 DEF FiniteFacts, Counted
<1>2. Counts \in SUBSET Nat /\ Counts # {}
  BY <1>1
<1>3. PICK c \in Counts : \A d \in Counts : c <= d
  BY <1>2 DEF FiniteFacts, HasLeast
<1>4. PICK x \in S : c = Cardinality(Above(x))
  OBVIOUS
<1>5. ASSUME NEW y \in S, ~(x >= y) PROVE FALSE
  <2>1. y > x
    BY <1>5
  <2>2. Above(y) \in SUBSET Above(x) /\ Above(y) # Above(x)
    <3>1. y \in Above(x) /\ y \notin Above(y)
      BY <2>1
    <3>2. ASSUME NEW z \in Above(y) PROVE z \in Above(x)
      BY <2>1
    <3> QED BY <3>1, <3>2
  <2>3. Cardinality(Above(y)) < Cardinality(Above(x))
    <3> HIDE DEF Above
    <3> QED BY <1>1, <2>2 DEF FiniteFacts, PartsFinite
  <2>4. Cardinality(Above(y)) \in Nat /\ Cardinality(Above(x)) \in Nat
    BY <1>1
  <2>5. c <= Cardinality(Above(y))
    BY <1>3
  <2> HIDE DEF Above
  <2> QED BY <1>4, <2>3, <2>4, <2>5
<1> QED BY <1>5

(* The directory changes at one name, which is not a file's already or     *)
(* goes: no file is replaced, and the listing owes no name that went.      *)
LEMMA StoreKeeps ==
  ASSUME FiniteFacts, FileStoreInv, NEW n, NEW f, Store([dir EXCEPT ![n] = f]),
         f = 0 \/ n \notin There
  PROVE  FileStoreInv' /\ Kept
<1>1. /\ dir' = [dir EXCEPT ![n] = f] /\ DOMAIN dir' = FileNames
      /\ ls' = [ls EXCEPT !.due = {m \in @ : dir'[m] # 0}]
  BY DEF Store, FileStoreInv
<1>2. \A m \in FileNames : m # n => dir'[m] = dir[m]
  BY <1>1 DEF FileStoreInv
<1>3. IsFiniteSet(There')
  <2>1. There' \subseteq There \cup {n}
    BY <1>2 DEF There
  <2>2. IsFiniteSet(There \cup {n})
    BY DEF FiniteFacts, OneMore, FileStoreInv
  <2> QED BY <2>1, <2>2 DEF FiniteFacts, PartsFinite
<1>4. /\ ls' \in [st : {"idle", "going", "done"}, after : Nat, due : SUBSET Nat]
      /\ ls'.st = ls.st /\ ls'.after = ls.after /\ ls'.due = {m \in ls.due : dir'[m] # 0}
  BY <1>1 DEF FileStoreInv
<1>5. ls'.due \subseteq There'
  BY <1>4 DEF FileStoreInv, There
<1>6. Kept
  <2> SUFFICES ASSUME NEW m \in FileNames, dir[m] # 0, dir'[m] # 0 PROVE dir'[m] = dir[m]
    BY DEF Kept
  <2>1. CASE m = n
    BY <1>1, <2>1 DEF FileStoreInv, There
  <2> QED BY <1>2, <2>1
<1> QED BY <1>1, <1>3, <1>4, <1>5, <1>6 DEF FileStoreInv, DirectoryListed

LEMMA StandStill ==
  ASSUME FileStoreInv, UNCHANGED dir, UNCHANGED ls PROVE FileStoreInv' /\ Kept
BY DEF FileStoreInv, There, DirectoryListed, Kept

LEMMA CreateKeeps ==
  ASSUME FiniteFacts, FileStoreInv, NEW c \in Clients, Create(c) PROVE FileStoreInv' /\ Kept
<1>1. CASE set[c].dst \in There
  BY <1>1, StandStill DEF Create
<1>2. CASE set[c].dst \notin There
  <2>1. PICK f : Store([dir EXCEPT ![set[c].dst] = f])
    BY <1>2 DEF Create
  <2> QED BY <1>2, <2>1, StoreKeeps
<1> QED BY <1>1, <1>2

LEMMA StartListFiles == ASSUME FileStoreInv, ListFiles PROVE FileStoreInv' /\ Kept
<1>1. dir' = dir /\ ls' = [st |-> "going", after |-> 0, due |-> There]
  BY DEF ListFiles, NoLs
<1>2. \A n \in There : n \in Nat /\ n > 0
  BY FSAssumption DEF There
<1>3. There' = There
  BY <1>1 DEF There
<1>4. ls' \in [st : {"idle", "going", "done"}, after : Nat, due : SUBSET Nat]
  BY <1>1, <1>2
<1> QED BY <1>1, <1>2, <1>3, <1>4 DEF FileStoreInv, DirectoryListed, Kept

(* A page short of the rest holds the least of the rest, and everything    *)
(* owed beyond it comes after its last entry.                              *)
LEMMA FileDirectoryKeeps == ASSUME FiniteFacts, FileStoreInv, FileDirectory PROVE FileStoreInv' /\ Kept
<1> DEFINE rest  == {n \in There : n > ls.after}
           Before(n) == {m \in rest : m < n}
           batch == {n \in rest : Cardinality(Before(n)) < FilePage}
<1>1. /\ ls.st = "going" /\ dir' = dir
      /\ ls' = IF batch = rest THEN [ls EXCEPT !.due = @ \ batch, !.st = "done"]
               ELSE [ls EXCEPT !.due = @ \ batch, !.after = Max(batch)]
  BY Zenon DEF FileDirectory
<1>2. rest \in SUBSET Nat /\ IsFiniteSet(rest) /\ ls.due \subseteq rest /\ batch \subseteq rest
  <2>1. rest \subseteq There /\ IsFiniteSet(There)
    BY DEF FileStoreInv
  <2>2. There \subseteq Nat
    BY FSAssumption DEF There
  <2>3. ls.due \subseteq rest
    BY <1>1 DEF FileStoreInv
  <2> QED BY <2>1, <2>2, <2>3 DEF FiniteFacts, PartsFinite
<1>3. \A n : IsFiniteSet(Before(n)) /\ Cardinality(Before(n)) \in Nat
  <2> SUFFICES ASSUME NEW n PROVE IsFiniteSet(Before(n)) /\ Cardinality(Before(n)) \in Nat
    BY Zenon
  <2>1. Before(n) \in SUBSET rest
    OBVIOUS
  <2> HIDE DEF rest, Before
  <2>2. IsFiniteSet(Before(n))
    BY <1>2, <2>1 DEF FiniteFacts, PartsFinite
  <2> QED BY <2>2 DEF FiniteFacts, Counted
<1>4. There' = There
  BY <1>1 DEF There
<1>5. FilePage \in Nat \ {0}
  BY FSAssumption
<1> HIDE DEF rest
<1>6. CASE batch = rest
  <2>1. ls' = [ls EXCEPT !.due = {}, !.st = "done"]
    <3>1. ls.due \ batch = {}
      BY <1>2, <1>6
    <3> QED BY <1>1, <1>6, <3>1
  <2>2. /\ ls' \in [st : {"idle", "going", "done"}, after : Nat, due : SUBSET Nat]
        /\ ls'.st = "done" /\ ls'.due = {}
    BY <2>1 DEF FileStoreInv
  <2> QED BY <1>1, <1>4, <2>2 DEF FileStoreInv, DirectoryListed, Kept
<1>7. CASE batch # rest
  <2> DEFINE b == Max(batch)
  <2>1. batch # {}
    <3>1. rest # {}
      BY <1>2, <1>7
    <3>2. PICK x \in rest : \A y \in rest : x <= y
      BY <1>2, <3>1 DEF FiniteFacts, HasLeast
    <3>3. Before(x) = {}
      <4>1. rest \subseteq Nat
        BY <1>2
      <4> HIDE DEF batch
      <4>2. \A y \in rest : ~(y < x)
        BY <3>2, <4>1
      <4> QED BY <4>2, Zenon
    <3>4. Cardinality(Before(x)) < FilePage
      BY <1>5, <3>3 DEF FiniteFacts, NoneCounted
    <3> QED BY <3>4
  <2>2. batch \in SUBSET Nat /\ IsFiniteSet(batch)
    <3> HIDE DEF batch
    <3> QED BY <1>2 DEF FiniteFacts, PartsFinite
  <2>3. b \in batch /\ \A y \in batch : b >= y
    <3> HIDE DEF batch
    <3>1. \E x \in batch : \A y \in batch : x >= y
      BY <2>1, <2>2, GreatestNumber
    <3> QED BY <3>1 DEF Max
  <2>4. b \in Nat /\ Cardinality(Before(b)) < FilePage
    BY <2>2, <2>3
  <2> DEFINE due == ls.due \ batch
  <2>5. ls' = [ls EXCEPT !.due = due, !.after = b]
    BY <1>1, <1>7
  <2> HIDE DEF b
  <2>6. ASSUME NEW n \in due PROVE n > b
    <3>1. n \in rest /\ ~(Cardinality(Before(n)) < FilePage)
      BY <1>2
    <3>2. n \in Nat
      BY <1>2, <3>1
    <3>3. ASSUME n <= b PROVE FALSE
      <4>1. Before(n) \in SUBSET Before(b)
        <5>1. rest \subseteq Nat /\ b \in Nat
          BY <1>2, <2>4
        <5> HIDE DEF due, batch
        <5>2. \A m \in rest : m < n => m < b
          BY <3>2, <3>3, <5>1
        <5> QED BY <5>2, Zenon
      <4> HIDE DEF Before
      <4>2. Cardinality(Before(n)) <= Cardinality(Before(b))
        BY <1>3, <4>1 DEF FiniteFacts, PartsFinite
      <4> QED BY <1>3, <1>5, <2>4, <3>1, <4>2
    <3> QED BY <2>4, <3>2, <3>3
  <2> HIDE DEF batch
  <2>7. /\ ls' \in [st : {"idle", "going", "done"}, after : Nat, due : SUBSET Nat]
        /\ ls'.st = "going" /\ ls'.due = due /\ ls'.after = b
    BY <1>1, <2>4, <2>5 DEF FileStoreInv
  <2> QED BY <1>1, <1>4, <2>6, <2>7 DEF FileStoreInv, DirectoryListed, Kept
<1> QED BY <1>6, <1>7

LEMMA FileStoreInit ==
  ASSUME FiniteFacts
  PROVE  StoreInit => FileStoreInv
<1> SUFFICES ASSUME StoreInit PROVE FileStoreInv
  OBVIOUS
<1>1. PICK n \in FileNames \cup {0} : dir = [m \in FileNames |-> IF m = n THEN Min(Files) ELSE 0]
  BY DEF StoreInit
<1>2. IsFiniteSet(There)
  <2>1. There \subseteq {n}
    BY <1>1 DEF There
  <2> QED BY <2>1 DEF FiniteFacts, OnlyOne, PartsFinite
<1> QED BY <1>1, <1>2 DEF StoreInit, NoLs, FileStoreInv, DirectoryListed

(* Every step on the files keeps their invariant and replaces no file.     *)
LEMMA FileStoreStep ==
  ASSUME FiniteFacts
  PROVE  FileStoreInv /\ [StoreNext]_fsVars => FileStoreInv' /\ Kept
<1> SUFFICES ASSUME FileStoreInv, [StoreNext]_fsVars PROVE FileStoreInv' /\ Kept
  OBVIOUS
<1>1. CASE UNCHANGED fsVars
  BY <1>1, StandStill DEF fsVars
<1>2. ASSUME NEW c \in Clients, FetchDone(c) \/ FetchFails(c) PROVE FileStoreInv' /\ Kept
  BY <1>2, StandStill DEF FetchDone, FetchFails
<1>3. ASSUME NEW c \in Clients, Discard(c) \/ Unlink(c) PROVE FileStoreInv' /\ Kept
  BY <1>3, StoreKeeps DEF Discard, Unlink
<1>4. ASSUME NEW c \in Clients, NEW n \in FileNames, ObtainFile(c, n) PROVE FileStoreInv' /\ Kept
  BY <1>4, StandStill DEF ObtainFile
<1>5. ASSUME NEW c \in Clients, NEW n \in FileNames, FileDelete(c, n) PROVE FileStoreInv' /\ Kept
  BY <1>5, StoreKeeps DEF FileDelete
<1>6. ASSUME NEW c \in Clients, NEW n \in FileNames, NEW m \in FileNames, Link(c, n, m)
      PROVE  FileStoreInv' /\ Kept
  BY <1>6, StoreKeeps DEF Link
<1> QED BY <1>1, <1>2, <1>3, <1>4, <1>5, <1>6, CreateKeeps, StartListFiles, FileDirectoryKeeps
        DEF StoreNext

----------------------------------------------------------------------------
(* The parts side by side.                                                 *)
ServerInv == DataSetInv /\ FileStoreInv /\ TransferInv /\ AssociationInv /\ ObtainInv

LEMMA ServerInit ==
  ASSUME FiniteFacts
  PROVE  MCInit => ServerInv
<1> SUFFICES ASSUME MCInit PROVE ServerInv
  OBVIOUS
<1>1. SetsInit /\ StoreInit /\ Init /\ ConnsInit /\ ObtainInit
  BY DEF MCInit
<1> QED BY <1>1, DataSetInit, FileStoreInit, TransferInit, AssociationInit, ObtainInitially DEF ServerInv

(* A step is one of the part that runs and leaves the others alone; none   *)
(* replaces a file or takes the data set of an enabled block.              *)
LEMMA ServerStep ==
  ASSUME FiniteFacts
  PROVE  ServerInv /\ [MCNext]_mcVars => ServerInv' /\ Kept /\ KeepsDataSet
<1> SUFFICES ASSUME ServerInv, [MCNext]_mcVars PROVE ServerInv' /\ Kept /\ KeepsDataSet
  OBVIOUS
<1>1. /\ [SetsNext]_dsVars /\ [StoreNext]_fsVars /\ [Next]_vars
      /\ [ConnsNext]_asVars /\ [ObtainNext]_ofVars
  BY Zenon DEF MCNext, mcVars
<1> QED BY <1>1, DataSetStep, FileStoreStep, TransferStep, AssociationStep, ObtainStep, Zenon
        DEF ServerInv

----------------------------------------------------------------------------
INSTANCE FiniteSetTheorems

LEMMA FiniteSetsCount == FiniteFacts
<1>1. Counted /\ NoneCounted /\ OnlyOne
  BY FS_CardinalityType, FS_EmptySet, FS_Singleton DEF Counted, NoneCounted, OnlyOne
<1>2. OneMore /\ OneLess
  BY FS_AddElement, FS_RemoveElement DEF OneMore, OneLess
<1>3. PartsFinite
  BY FS_Subset DEF PartsFinite
<1>4. IntervalCounted
  <2> SUFFICES ASSUME NEW n \in Nat PROVE IsFiniteSet(1..n) /\ Cardinality(1..n) = n
    BY DEF IntervalCounted
  <2>1. IsFiniteSet(1..n) /\ Cardinality(1..n) = IF 1 > n THEN 0 ELSE n - 1 + 1
    BY FS_Interval
  <2> QED BY <2>1
<1>5. OntoIsOneToOne
  <2> SUFFICES ASSUME NEW S, NEW P, NEW f \in [S -> P], IsFiniteSet(S), Cardinality(S) = Cardinality(P),
                      \A y \in P : \E x \in S : f[x] = y
               PROVE  \A x, y \in S : f[x] = f[y] => x = y
    BY DEF OntoIsOneToOne
  <2>1. f \in Surjection(S, P)
    BY DEF Surjection
  <2>2. f \in Injection(S, P)
    BY <2>1, FS_SurjSameCardinalityImpliesInj
  <2> QED BY <2>2 DEF Injection, IsInjective
<1>6. HasLeast
  <2> SUFFICES ASSUME NEW S \in SUBSET Nat, S # {} PROVE \E x \in S : \A y \in S : x <= y
    BY DEF HasLeast
  <2>1. PICK x \in S : \A y \in S : ~(<<y, x>> \in OpToRel(<, Nat))
    BY NatLessThanWellFounded, WFMin
  <2>2. \A y \in S : ~(y < x)
    BY <2>1 DEF OpToRel
  <2> QED BY <2>2
<1> QED BY <1>1, <1>2, <1>3, <1>4, <1>5, <1>6 DEF FiniteFacts

LEMMA ServerSafe == MCFairSpec => []ServerInv /\ [][MCNext]_mcVars
<1>1. MCInit => ServerInv
  BY ServerInit, FiniteSetsCount
<1>2. ServerInv /\ [MCNext]_mcVars => ServerInv'
  BY ServerStep, FiniteSetsCount
<1> QED BY <1>1, <1>2, PTL DEF MCFairSpec

(* Slots, reservations and the order of what the application is told, for  *)
(* any number of connections, any limit and any number of changes          *)
(* (server.go:511-530, svcb.go:166-211).                                   *)
THEOREM AssociationsAreCounted == MCFairSpec => []AssociationsCounted
<1>1. ServerInv => AssociationsCounted
  BY AssociationInvCounts, Zenon DEF ServerInv, AssociationsCounted
<1> QED BY <1>1, ServerSafe, PTL

(* No step leaves an enabled control block without its data set, unless    *)
(* the configuration enabled it so and it is unchanged, and no listing by  *)
(* pages misses a name that was there throughout, for any data sets,       *)
(* blocks and page size (services_ext.go:439-471, handler.go:119-181).     *)
THEOREM DataSetsAreServed == MCFairSpec => DataSetsServed
<1>1. ServerInv /\ [MCNext]_mcVars => [part = "DataSets" => KeepsDataSet /\ ListedAll']_mcVars
  <2> SUFFICES ASSUME ServerInv, [MCNext]_mcVars
               PROVE  KeepsDataSet /\ ListedAll'
    OBVIOUS
  <2>1. ServerInv' /\ KeepsDataSet
    BY ServerStep, FiniteSetsCount
  <2> QED BY <2>1, Zenon DEF ServerInv, DataSetInv
<1> QED BY <1>1, ServerSafe, PTL DEF DataSetsServed

(* Whatever the sizes, no sequence of reads ends a download before the     *)
(* size announced, stores less or more of a file than the client has, or   *)
(* fails for the limit without need (file.go:132-150, services_ext.go:     *)
(* 313-348, client_ext.go:482-561).                                        *)
THEOREM TransfersAreWhole == MCFairSpec => []TransferWhole
<1>1. ServerInv => TransferWhole
  BY Zenon DEF ServerInv, TransferInv
<1> QED BY <1>1, ServerSafe, PTL

(* No file is replaced, no listing by pages misses a file that was there   *)
(* throughout, and a SetFile before which none was left stores its source  *)
(* file whole, for any files, clients, pages and number of pieces          *)
(* (services_ext.go:104-121, 287-348, file.go:277-327).                    *)
THEOREM FilesAreServed == MCFairSpec => FilesServed
<1>1. ServerInv /\ [MCNext]_mcVars =>
        [/\ part = "FileStore" => DirectoryListed' /\ Kept
         /\ part = "ObtainFile" => StoredWhole']_mcVars
  <2> SUFFICES ASSUME ServerInv, [MCNext]_mcVars
               PROVE  DirectoryListed' /\ Kept /\ StoredWhole'
    OBVIOUS
  <2>1. ServerInv' /\ Kept
    BY ServerStep, FiniteSetsCount
  <2> QED BY <2>1, Zenon DEF ServerInv, FileStoreInv, ObtainInv
<1> QED BY <1>1, ServerSafe, PTL DEF FilesServed
=============================================================================
