------------------------- MODULE E2EHandshakeProofs -------------------------
(***************************************************************************)
(* Of the handshake, for any number of connections, identifiers and        *)
(* policies: an identifier names one association of a server, and two ends *)
(* that completed a handshake agree on what both policies allow.           *)
(***************************************************************************)
EXTENDS E2EHandshake, WellFoundedInduction, TLAPS

\* The two functions of associations, and their records, keep their shape.
Record(s) == DOMAIN s = {"state", "own", "asso", "group", "icv"}
Shape ==
  /\ cl = [c \in Conns |-> cl[c]] /\ sv = [c \in Conns |-> sv[c]] /\ toC = [c \in Conns |-> toC[c]]
  /\ \A c \in Conns : Record(cl[c]) /\ Record(sv[c])

\* The identifier part a server association holds, and what it promises.
Name(s) == <<s.asso[1], s.own>>
Named(s) ==
  /\ s.own # 0 => Name(s) \in usedS
  /\ s.own # 0 <=> Open(s)
  /\ Open(s) => s.asso = Name(s) /\ s.group \in accept.groups /\ s.icv \in accept.icvs
Names ==
  /\ \A c \in Conns : sv[c].state \in States /\ Named(sv[c])
  /\ \A c, d \in Conns : c # d /\ sv[c].own # 0 /\ sv[d].own # 0 => Name(sv[c]) # Name(sv[d])

\* An accept on its way, and a client that took one, carry what the server
\* settled on, which does not change any more.
Settled(s) == s.state \in {"established", "closed"}
Same(m, s) == m.asso = s.asso /\ m.group = s.group /\ m.icv = s.icv
Accepting(q) == q # <<>> /\ q[1].kind = "accept"
Wires ==
  \A c \in Conns :
    /\ Accepting(toC[c]) => Settled(sv[c]) /\ Same(toC[c][1], sv[c])
    /\ cl[c].state = "established" => Settled(sv[c]) /\ Same(cl[c], sv[c])

IndInv == Shape /\ Names /\ Wires

-----------------------------------------------------------------------------
\* The algorithm chosen is one the server knows (FirstICV).
LEMMA FirstICVKnown ==
  ASSUME NEW icvs, FirstICV(icvs) # 0
  PROVE  FirstICV(icvs) \in accept.icvs
<1> DEFINE known == {i \in 1..Len(icvs) : icvs[i] \in accept.icvs}
<1>1. known # {} /\ known \subseteq Nat
  BY DEF FirstICV
<1> DEFINE Below == {ss \in Nat \X Nat : ss[1] < ss[2]}
<1>2. IsWellFoundedOn(Below, Nat)
  BY NatLessThanWellFounded, Zenon DEF OpToRel
<1>3. PICK i \in known : \A j \in known : ~(<<j, i>> \in Below)
  <2> HIDE DEF known, Below
  <2> QED BY <1>1, <1>2, WFMin, Zenon
<1>4. \A j \in known : i <= j
  <2>1. ASSUME NEW j \in Nat, NEW k \in Nat, j < k PROVE <<j, k>> \in Below
    BY <2>1
  <2> HIDE DEF known, Below
  <2> SUFFICES ASSUME NEW j \in known PROVE i <= j
    OBVIOUS
  <2>2. i \in Nat /\ j \in Nat /\ ~(<<j, i>> \in Below)
    BY <1>1, <1>3
  <2>3. ~(j < i)
    BY <2>1, <2>2
  <2> QED BY <2>2, <2>3
<1> QED BY <1>1, <1>4, Zenon DEF FirstICV

\* What a step that settles nothing anew leaves of Wires: settled
\* associations stay as they are, and no accept or taker of one is added.
LEMMA WiresKept ==
  ASSUME Wires,
         \A d \in Conns : Settled(sv[d]) => Settled(sv'[d]) /\ Same(sv[d], sv'[d]),
         \A d \in Conns : cl'[d].state = "established" => cl'[d] = cl[d],
         \A d \in Conns : Accepting(toC'[d]) => toC'[d] = toC[d]
  PROVE  Wires'
BY DEF Wires, Settled, Same, Accepting

\* What closing does to an association's record.
LEMMA ClosedRecord ==
  ASSUME NEW s, Record(s)
  PROVE  /\ Record(Closed(s)) /\ Closed(s).state = "closed" /\ Closed(s).own = 0
         /\ Same(Closed(s), s)
BY DEF Closed, Record, Same

\* Closing a server association returns its own name and no other
\* (closeLocked, release).
LEMMA CloseServerSound ==
  ASSUME IndInv, NEW c \in Conns, CloseServer(c), accept' = accept
  PROVE  /\ sv' = [d \in Conns |-> sv'[d]] /\ \A d \in Conns : Record(sv'[d])
         /\ Names'
         /\ \A d \in Conns : Settled(sv[d]) => Settled(sv'[d]) /\ Same(sv[d], sv'[d])
<1>1. sv' = [d \in Conns |-> IF d = c THEN Closed(sv[c]) ELSE sv[d]]
  BY DEF CloseServer, IndInv, Shape
<1>2. /\ Record(Closed(sv[c])) /\ Closed(sv[c]).state = "closed" /\ Closed(sv[c]).own = 0
      /\ Same(Closed(sv[c]), sv[c])
  BY ClosedRecord DEF IndInv, Shape
<1>3. \A d \in Conns \ {c} : sv'[d] = sv[d]
  BY <1>1
<1>4. sv'[c] = Closed(sv[c])
  BY <1>1
<1>5. \A d \in Conns \ {c} : sv[d].own # 0 => Name(sv[d]) \in usedS'
  BY DEF CloseServer, FreedS, IndInv, Names, Named, Name
<1>6. Names'
  <2>1. \A d \in Conns : sv'[d].state \in States /\ Named(sv[d])'
    BY <1>2, <1>3, <1>4, <1>5 DEF IndInv, Names, Named, Open, Name, States
  <2>2. \A d, e \in Conns : d # e /\ sv'[d].own # 0 /\ sv'[e].own # 0 => Name(sv'[d]) # Name(sv'[e])
    BY <1>2, <1>3, <1>4 DEF IndInv, Names
  <2> QED BY <2>1, <2>2 DEF Names, Named
<1>7. \A d \in Conns : Record(sv'[d])
  BY <1>2, <1>3, <1>4 DEF IndInv, Shape, Record
<1>8. \A d \in Conns : Settled(sv[d]) => Settled(sv'[d]) /\ Same(sv[d], sv'[d])
  BY <1>2, <1>3, <1>4 DEF Settled, Same
<1> QED BY <1>1, <1>6, <1>7, <1>8

\* Closing a client association keeps the records' shape and establishes
\* nothing.
LEMMA CloseClientSound ==
  ASSUME IndInv, NEW c \in Conns, CloseClient(c)
  PROVE  /\ cl' = [d \in Conns |-> cl'[d]] /\ \A d \in Conns : Record(cl'[d])
         /\ \A d \in Conns : cl'[d].state = "established" => cl'[d] = cl[d]
<1>1. cl' = [d \in Conns |-> IF d = c THEN Closed(cl[c]) ELSE cl[d]]
  BY DEF CloseClient, IndInv, Shape
<1>2. /\ Record(Closed(cl[c])) /\ Closed(cl[c]).state = "closed" /\ Closed(cl[c]).own = 0
      /\ Same(Closed(cl[c]), cl[c])
  BY ClosedRecord DEF IndInv, Shape
<1> QED BY <1>1, <1>2 DEF IndInv, Shape, Record

-----------------------------------------------------------------------------
LEMMA InitSound == ASSUME Init PROVE IndInv
<1>1. \A c \in Conns : cl[c] = Idle /\ sv[c] = Idle /\ toC[c] = <<>>
  BY DEF Init
<1>2. Shape
  BY <1>1 DEF Init, Shape, Record, Idle
<1>3. Names
  BY <1>1 DEF Names, Named, Open, Idle, States
<1>4. Wires
  BY <1>1 DEF Wires, Accepting, Idle
<1> QED BY <1>2, <1>3, <1>4 DEF IndInv

\* A step of the client alone: it takes no accept.
LEMMA ClientOnly ==
  ASSUME IndInv, UNCHANGED <<sv, usedS, accept>>,
         cl' = [d \in Conns |-> cl'[d]], \A d \in Conns : Record(cl'[d]),
         toC' = [d \in Conns |-> toC'[d]],
         \A d \in Conns : cl'[d].state = "established" => cl'[d] = cl[d],
         \A d \in Conns : Accepting(toC'[d]) => toC'[d] = toC[d]
  PROVE  IndInv'
<1>1. Shape'
  BY DEF IndInv, Shape
<1>2. Names'
  BY DEF IndInv, Names, Named, Open, Name
<1>3. Wires'
  BY WiresKept DEF IndInv, Same
<1> QED BY <1>1, <1>2, <1>3 DEF IndInv

\* A step that closes a server association and leaves the client alone.
LEMMA ServerCloses ==
  ASSUME IndInv, NEW c \in Conns, CloseServer(c), UNCHANGED <<cl, accept>>,
         toC' = [d \in Conns |-> toC'[d]],
         \A d \in Conns : Accepting(toC'[d]) => toC'[d] = toC[d]
  PROVE  IndInv'
<1>1. Shape' /\ Names'
  BY CloseServerSound DEF IndInv, Shape
<1>2. Wires'
  BY CloseServerSound, WiresKept DEF IndInv
<1> QED BY <1>1, <1>2 DEF IndInv

LEMMA HandshakeRequestSound ==
  ASSUME IndInv, NEW c \in Conns, HandshakeRequest(c) PROVE IndInv'
<1>1. CASE cl' = cl
  BY <1>1, ClientOnly DEF HandshakeRequest, IndInv, Shape
<1>2. CASE cl' # cl
  <2>1. PICK id \in IDs \ usedC :
          cl' = [cl EXCEPT ![c] = [@ EXCEPT !.state = "requested", !.own = id, !.asso = <<id>>,
                                            !.group = offer.groups[1]]]
    BY <1>2 DEF HandshakeRequest
  <2>2. cl' = [d \in Conns |-> cl'[d]] /\ \A d \in Conns \ {c} : cl'[d] = cl[d]
    BY <2>1 DEF IndInv, Shape
  <2>3. Record(cl'[c]) /\ cl'[c].state = "requested"
    BY <2>1, Zenon DEF IndInv, Shape, Record
  <2>4. UNCHANGED <<sv, usedS, accept, toC>>
    BY DEF HandshakeRequest
  <2> QED BY <2>2, <2>3, <2>4, ClientOnly DEF IndInv, Shape
<1> QED BY <1>1, <1>2

LEMMA ProcessHandshakeRequestSound ==
  ASSUME IndInv, NEW c \in Conns, ProcessHandshakeRequest(c) PROVE IndInv'
<1> DEFINE m == toS[c][1]
<1>1. CASE CloseServer(c) /\ toC' = [toC EXCEPT ![c] = <<[kind |-> "reject"]>>]
  <2>1. toC' = [d \in Conns |-> toC'[d]] /\ \A d \in Conns : Accepting(toC'[d]) => toC'[d] = toC[d]
    BY <1>1, SMTT(30) DEF IndInv, Shape, Accepting
  <2> QED BY <1>1, <2>1, ServerCloses, Zenon DEF ProcessHandshakeRequest
<1>2. CASE Usable(m) /\ toC' = toC /\ \E own \in {n \in IDs : <<m.id, n>> \notin usedS} :
             /\ usedS' = usedS \cup {<<m.id, own>>}
             /\ sv' = [sv EXCEPT ![c] = [state |-> "requested", own |-> own, asso |-> <<m.id, own>>,
                                         group |-> m.group, icv |-> FirstICV(m.icvs)]]
  <2>1. PICK own \in IDs :
          /\ <<m.id, own>> \notin usedS
          /\ usedS' = usedS \cup {<<m.id, own>>}
          /\ sv' = [sv EXCEPT ![c] = [state |-> "requested", own |-> own, asso |-> <<m.id, own>>,
                                      group |-> m.group, icv |-> FirstICV(m.icvs)]]
    BY <1>2, Zenon
  <2>2. sv' = [d \in Conns |-> sv'[d]] /\ \A d \in Conns \ {c} : sv'[d] = sv[d]
    BY <2>1 DEF IndInv, Shape
  <2>3. sv'[c] = [state |-> "requested", own |-> own, asso |-> <<m.id, own>>,
                  group |-> m.group, icv |-> FirstICV(m.icvs)]
    BY <2>1 DEF IndInv, Shape
  <2>4. own # 0 /\ m.group \in accept.groups /\ FirstICV(m.icvs) \in accept.icvs
    BY <1>2, FirstICVKnown, E2EHandshakeAssumption DEF Usable
  <2>5. sv[c].state = "idle" /\ UNCHANGED <<cl, toC, accept>>
    BY <1>2 DEF ProcessHandshakeRequest
  <2>6. Shape'
    BY <2>2, <2>3, <2>5 DEF IndInv, Shape, Record
  <2>7. \A d \in Conns : sv'[d].state \in States /\ Named(sv[d])'
    <3> HIDE DEF m
    <3>1. ASSUME NEW d \in Conns \ {c} PROVE sv'[d].state \in States /\ Named(sv[d])'
      BY <2>1, <2>2, <2>5 DEF IndInv, Names, Named, Open, Name
    <3>2. sv'[c].state \in States /\ Named(sv[c])'
      BY <2>1, <2>3, <2>4, <2>5 DEF Named, Open, Name, States
    <3> QED BY <3>1, <3>2
  <2>8. \A d, e \in Conns : d # e /\ sv'[d].own # 0 /\ sv'[e].own # 0 => Name(sv'[d]) # Name(sv'[e])
    <3> HIDE DEF m
    <3>1. Name(sv'[c]) = <<m.id, own>>
      BY <2>3 DEF Name
    <3>2. \A d \in Conns \ {c} : sv[d].own # 0 => Name(sv[d]) # <<m.id, own>>
      BY <2>1 DEF IndInv, Names, Named
    <3> QED BY <2>2, <3>1, <3>2 DEF IndInv, Names
  <2>9. Names'
    BY <2>7, <2>8 DEF Names, Named
  <2>10. Wires'
    <3>1. \A d \in Conns : Settled(sv[d]) => Settled(sv'[d]) /\ Same(sv[d], sv'[d])
      BY <2>2, <2>5 DEF Settled, Same
    <3> QED BY <2>5, <3>1, WiresKept DEF IndInv
  <2> QED BY <2>6, <2>9, <2>10 DEF IndInv
<1> QED BY <1>1, <1>2, Zenon DEF ProcessHandshakeRequest

LEMMA AnswerSound ==
  ASSUME IndInv, NEW c \in Conns, Answer(c) PROVE IndInv'
<1>1. CASE CloseServer(c) /\ toC' = [toC EXCEPT ![c] = <<[kind |-> "reject"]>>]
  <2>1. toC' = [d \in Conns |-> toC'[d]] /\ \A d \in Conns : Accepting(toC'[d]) => toC'[d] = toC[d]
    BY <1>1 DEF IndInv, Shape, Accepting
  <2> QED BY <1>1, <2>1, ServerCloses, Zenon DEF Answer
<1>2. CASE \E f \in Flaws :
             /\ sv' = [sv EXCEPT ![c].state = "established"] /\ usedS' = usedS
             /\ toC' = [toC EXCEPT ![c] = <<[kind |-> "accept", asso |-> sv[c].asso, time |-> now,
                                             group |-> sv[c].group, icv |-> sv[c].icv, flaw |-> f]>>]
  <2>1. PICK f \in Flaws :
          /\ sv' = [sv EXCEPT ![c].state = "established"] /\ usedS' = usedS
          /\ toC' = [toC EXCEPT ![c] = <<[kind |-> "accept", asso |-> sv[c].asso, time |-> now,
                                          group |-> sv[c].group, icv |-> sv[c].icv, flaw |-> f]>>]
    BY <1>2, Zenon
  <2>2. /\ sv' = [d \in Conns |-> sv'[d]] /\ \A d \in Conns \ {c} : sv'[d] = sv[d]
        /\ toC' = [d \in Conns |-> toC'[d]] /\ \A d \in Conns \ {c} : toC'[d] = toC[d]
    BY <2>1, Zenon DEF IndInv, Shape
  <2>3. /\ Record(sv'[c]) /\ sv'[c].state = "established" /\ sv'[c].own = sv[c].own
        /\ Same(sv'[c], sv[c])
    BY <2>1 DEF IndInv, Shape, Record, Same
  <2>4. Same(toC'[c][1], sv[c])
    BY <2>1 DEF IndInv, Shape, Same
  <2>5. sv[c].state = "requested" /\ UNCHANGED <<cl, accept, usedS>>
    BY <2>1 DEF Answer
  <2>6. Shape'
    BY <2>2, <2>3, <2>5 DEF IndInv, Shape
  <2>7. Names'
    <3>1. \A d \in Conns : sv'[d].own = sv[d].own /\ Name(sv'[d]) = Name(sv[d])
      BY <2>2, <2>3 DEF Name, Same
    <3>2. \A d \in Conns : sv'[d].state \in States /\ Named(sv[d])'
      BY <2>2, <2>3, <2>5, <3>1 DEF IndInv, Names, Named, Open, Name, Same, States
    <3> QED BY <3>1, <3>2 DEF IndInv, Names, Named
  <2>8. Wires'
    BY <2>2, <2>3, <2>4, <2>5 DEF IndInv, Wires, Settled, Same, Accepting
  <2> QED BY <2>6, <2>7, <2>8 DEF IndInv
<1> QED BY <1>1, <1>2 DEF Answer

LEMMA ProcessHandshakeAcceptSound ==
  ASSUME IndInv, NEW c \in Conns, ProcessHandshakeAccept(c) PROVE IndInv'
<1> DEFINE m == toC[c][1]
<1>1. toC' = [d \in Conns |-> toC'[d]] /\ \A d \in Conns : Accepting(toC'[d]) => toC'[d] = toC[d]
  BY Zenon DEF ProcessHandshakeAccept, IndInv, Shape, Accepting
<1>2. UNCHANGED <<sv, usedS, accept>>
  BY DEF ProcessHandshakeAccept
<1>3. CASE CloseClient(c)
  BY <1>1, <1>2, <1>3, CloseClientSound, ClientOnly
<1>4. CASE /\ AcceptUsable(c, m)
           /\ cl' = [cl EXCEPT ![c] = [@ EXCEPT !.state = "established", !.asso = m.asso, !.icv = m.icv]]
  <2>1. cl' = [d \in Conns |-> cl'[d]] /\ \A d \in Conns \ {c} : cl'[d] = cl[d]
    BY <1>4 DEF IndInv, Shape
  <2>2. Record(cl'[c]) /\ Same(cl'[c], m)
    BY <1>4, Zenon DEF IndInv, Shape, Record, Same, AcceptUsable
  <2>3. Settled(sv[c]) /\ Same(m, sv[c])
    BY DEF ProcessHandshakeAccept, IndInv, Wires, Accepting
  <2>4. Shape'
    BY <1>1, <1>2, <2>1, <2>2 DEF IndInv, Shape
  <2>5. Names'
    BY <1>2 DEF IndInv, Names, Named, Open, Name
  <2>6. Wires'
    BY <1>1, <1>2, <2>1, <2>2, <2>3 DEF IndInv, Wires, Settled, Same, Accepting
  <2> QED BY <2>4, <2>5, <2>6 DEF IndInv
<1> QED BY <1>3, <1>4 DEF ProcessHandshakeAccept

\* The steps that close the client's association and take what was on its way.
LEMMA ClientClosesSound ==
  ASSUME IndInv, NEW c \in Conns,
         ProcessRejection(c) \/ Fail(c) \/ AbortClient(c) \/ ClientTold(c)
  PROVE  IndInv'
<1>1. CloseClient(c) /\ UNCHANGED <<sv, usedS, accept>>
  BY DEF ProcessRejection, Fail, AbortClient, ClientTold
<1>2. toC' = toC \/ toC' = [toC EXCEPT ![c] = <<>>]
  BY DEF ProcessRejection, Fail, AbortClient, ClientTold
<1>3. toC' = [d \in Conns |-> toC'[d]] /\ \A d \in Conns : Accepting(toC'[d]) => toC'[d] = toC[d]
  BY <1>2 DEF IndInv, Shape, Accepting
<1> QED BY <1>1, <1>3, CloseClientSound, ClientOnly

\* The steps that close the server's association.
LEMMA ServerClosesSound ==
  ASSUME IndInv, NEW c \in Conns,
         Refused(c) \/ Release(c) \/ AbortServer(c) \/ ServerTold(c)
  PROVE  IndInv'
<1>1. CloseServer(c) /\ UNCHANGED <<cl, accept>>
  BY DEF Refused, Release, AbortServer, ServerTold
<1>2. \/ toC' = toC \/ toC' = [toC EXCEPT ![c] = toC[c]]
      \/ \E k \in {"released", "abort"} : toC' = [toC EXCEPT ![c] = <<[kind |-> k]>>]
  BY DEF Refused, Release, AbortServer, ServerTold
<1>3. toC' = [d \in Conns |-> toC'[d]] /\ \A d \in Conns : Accepting(toC'[d]) => toC'[d] = toC[d]
  BY <1>2 DEF IndInv, Shape, Accepting
<1> QED BY <1>1, <1>3, ServerCloses

LEMMA LostSound ==
  ASSUME IndInv, NEW c \in Conns, Lost(c) PROVE IndInv'
<1>1. toC' = [d \in Conns |-> toC'[d]] /\ \A d \in Conns : Accepting(toC'[d]) => toC'[d] = toC[d]
  BY SMTT(30) DEF Lost, IndInv, Shape, Accepting
<1>2. CASE CloseServer(c)
  BY <1>1, <1>2, ServerCloses, Zenon DEF Lost
<1>3. CASE UNCHANGED <<sv, usedS>>
  BY <1>1, <1>3, ClientOnly DEF Lost, IndInv, Shape
<1> QED BY <1>2, <1>3 DEF Lost

LEMMA StepSound == ASSUME IndInv, [Next]_vars PROVE IndInv'
<1>1. CASE Tick \/ UNCHANGED vars
  <2>1. UNCHANGED <<sv, usedS, accept, cl, toC>>
    BY <1>1 DEF Tick, vars
  <2> QED BY <2>1, ClientOnly DEF IndInv, Shape
<1>2. ASSUME NEW c \in Conns,
             \/ HandshakeRequest(c) \/ ProcessHandshakeRequest(c) \/ Answer(c) \/ Refused(c)
             \/ ProcessHandshakeAccept(c) \/ ProcessRejection(c) \/ Fail(c)
             \/ Release(c) \/ AbortClient(c) \/ AbortServer(c)
             \/ ClientTold(c) \/ ServerTold(c) \/ Lost(c)
      PROVE  IndInv'
  BY <1>2, HandshakeRequestSound, ProcessHandshakeRequestSound, AnswerSound,
     ProcessHandshakeAcceptSound, ClientClosesSound, ServerClosesSound, LostSound
<1> QED BY <1>1, <1>2 DEF Next

LEMMA Sound == Spec => []IndInv
<1>1. Init => IndInv BY InitSound
<1>2. IndInv /\ [Next]_vars => IndInv' BY StepSound
<1> QED BY <1>1, <1>2, PTL DEF Spec

\* For every number of connections and identifiers, an identifier names one
\* open association of a server and stays registered until that association
\* ends (idAllocator and release, keys.go; closeLocked, assoc.go).
THEOREM NamesAreUnique == Spec => []OneName
<1>1. IndInv => OneName
  <2> SUFFICES ASSUME IndInv, NEW c \in Conns, Open(sv[c])
               PROVE  /\ Name(sv[c]) \in usedS
                      /\ \A d \in Conns \ {c} : Open(sv[d]) => sv[d].asso # sv[c].asso
    BY DEF OneName, Name
  <2>1. \A d \in Conns : Open(sv[d]) => sv[d].own # 0 /\ sv[d].asso = Name(sv[d]) /\ Name(sv[d]) \in usedS
    BY DEF IndInv, Names, Named
  <2> QED BY <2>1 DEF IndInv, Names
<1> QED BY <1>1, Sound, PTL

\* For all policies, two ends that both completed a handshake agree on the
\* identifier, the group and the algorithm, which the server's policy allows
\* (processRequest, processAccept of assoc.go).
THEOREM AgreementOfEnds == Spec => []EndsAgree
<1>1. IndInv => EndsAgree
  BY DEF IndInv, Names, Named, Wires, Same, Open, EndsAgree
<1> QED BY <1>1, Sound, PTL
=============================================================================
