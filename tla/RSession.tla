------------------------------- MODULE RSession -------------------------------
(***************************************************************************)
(* A session of the IEC 61850-90-5 protocol (package rsession) between one *)
(* publisher and one receiver over UDP: the key stores, the numbering and  *)
(* protection of SPDUs, the receiver's checks with its replay window, and  *)
(* the frames that several readers take from the SPDUs accepted.           *)
(*                                                                         *)
(* An SPDU is its header with the number of its payload elements; serial   *)
(* is the number it would have if numbers never wrapped, kept only to tell *)
(* SPDUs apart.  Numbers are counted modulo Mod (2^32 in the code) and the *)
(* replay bitmap has Bits bits (64 in the code).                           *)
(***************************************************************************)
EXTENDS Integers, Sequences, FiniteSets, Bags

CONSTANTS Keys,            \* key identifiers, positive
          Encrypts,        \* those that encrypt rather than sign
          Version,         \* protocol version sent
          AllowUnsecured,  \* receiver's policy
          HasStore,        \* whether the publisher has a key store
          Mod, Bits, Window,
          Senders, Readers,
          Elems,           \* how many payload elements an SPDU may carry
          Starts,          \* SPDUs the publisher may have sent before the receiver opened
          MaxSends,        \* bound on SPDUs sent since
          MaxChanges,      \* bound on changes of the key stores
          MaxCopies,       \* bound on datagrams that arrive
          MaxQuiet,        \* bound on silences longer than ReplayReset
          QueueLen         \* capacity of the receive channel, 64 in the code

RSessionAssumption ==
  /\ Keys \subseteq Nat \ {0} /\ Encrypts \subseteq Keys /\ Version \in {1, 2}
  /\ AllowUnsecured \in BOOLEAN /\ HasStore \in BOOLEAN
  /\ Mod \in Nat /\ Mod >= 2 * Bits /\ Window \in 1..Bits
  /\ Elems \subseteq 0..2 /\ Starts \subseteq Nat /\ 2 * MaxSends < Mod
  /\ MaxSends \in Nat /\ MaxChanges \in Nat /\ MaxCopies \in Nat /\ MaxQuiet \in Nat /\ QueueLen \in Nat \ {0}

VARIABLES start,       \* SPDUs sent before the receiver opened
          tx, rx,      \* the publisher's and the receiver's key stores
          changes,     \* changes of the key stores so far
          sending,     \* the key each Send in progress has read
          serial,      \* SPDUs sent; the number sent is serial % Mod
          wire,        \* the SPDUs sent, each of which may arrive any number of times
          copies,      \* datagrams that have arrived
          inq,         \* the channel from the socket to Receive
          win,         \* the replay window of each key
          quiets,      \* silences so far
          reader,      \* each ReadFrame in progress
          pending,     \* frames of an SPDU not yet read
          accepted,    \* the bag of SPDUs accepted
          handed,      \* the bag of frames handed out
          open

vars == <<start, tx, rx, changes, sending, serial, wire, copies, inq, win, quiets, reader, pending, accepted, handed, open>>
keyVars == <<start, tx, rx, changes>>
recvVars == <<inq, win, accepted>>
frameVars == <<reader, pending, handed>>

NoKey == 0
Idle == -1
Frames(spdu) == [i \in 1..spdu.elems |-> <<spdu.serial, i>>]

------------------------------------------------------------------------------
(* Key stores.                                                             *)

EmptyWindow == [primed |-> FALSE, top |-> 0, seen |-> {}, quiet |-> FALSE]

(* NewKeyStore: the first key is active.                                   *)
NewKeyStore(first) == [keys |-> Keys, active |-> first]

Init ==
  /\ \E k \in Keys : tx = NewKeyStore(k) /\ rx = NewKeyStore(k)
  /\ changes = 0
  /\ sending = [s \in Senders |-> Idle]
  /\ start \in Starts /\ serial = start /\ wire = {} /\ copies = 0 /\ inq = <<>> /\ quiets = 0
  /\ win = [k \in Keys |-> EmptyWindow]
  /\ pending = <<>> /\ accepted = EmptyBag /\ handed = EmptyBag
  /\ reader = [r \in Readers |-> [pc |-> "check", frames |-> <<>>]]
  /\ open = TRUE

Added(store, k) == [store EXCEPT !.keys = @ \cup {k}]
Removed(store, k) == [keys |-> store.keys \ {k}, active |-> IF store.active = k THEN NoKey ELSE store.active]

(* A key change: added everywhere, made active at the publisher, removed.  *)
AddKey(k) ==
  /\ changes < MaxChanges /\ changes' = changes + 1
  /\ tx' = Added(tx, k) /\ rx' = Added(rx, k)
  /\ tx' # tx
  /\ UNCHANGED <<start, sending, serial, wire, copies, quiets, open, recvVars, frameVars>>

SetActive(k) ==
  /\ changes < MaxChanges /\ changes' = changes + 1
  /\ k \in tx.keys /\ tx.active # k
  /\ tx' = [tx EXCEPT !.active = k]
  /\ UNCHANGED <<start, rx, sending, serial, wire, copies, quiets, open, recvVars, frameVars>>

RemoveKey(k) ==
  /\ changes < MaxChanges /\ changes' = changes + 1
  /\ k \in tx.keys
  /\ tx' = Removed(tx, k) /\ rx' = Removed(rx, k)
  /\ UNCHANGED <<start, sending, serial, wire, copies, quiets, open, recvVars, frameVars>>

------------------------------------------------------------------------------
(* The publisher.                                                          *)

(* Send reads the active key before it takes the lock, and sends nothing   *)
(* without one when there is a store.                                      *)
SendKey(s) ==
  /\ open /\ sending[s] = Idle
  /\ HasStore => tx.active # NoKey
  /\ sending' = [sending EXCEPT ![s] = IF HasStore THEN tx.active ELSE NoKey]
  /\ UNCHANGED <<keyVars, serial, wire, copies, quiets, open, recvVars, frameVars>>

(* Under the lock: marshal, number, write.  Version 1 carries no           *)
(* encryption: Marshal fails and no number is used.                        *)
Marshalled(k, n, elems) ==
  [number |-> n % Mod, serial |-> n, key |-> k, elems |-> elems,
   sec |-> k \in Encrypts, sig |-> k # NoKey /\ k \notin Encrypts, version |-> Version]

SendWrite(s) ==
  /\ sending[s] # Idle
  /\ sending' = [sending EXCEPT ![s] = Idle]
  /\ IF Version = 1 /\ sending[s] \in Encrypts
     THEN UNCHANGED <<serial, wire>>
     ELSE /\ serial - start < MaxSends
          /\ \E e \in Elems : wire' = wire \cup {Marshalled(sending[s], serial, e)}
          /\ serial' = serial + 1
  /\ UNCHANGED <<keyVars, copies, quiets, open, recvVars, frameVars>>

------------------------------------------------------------------------------
(* The network and the socket goroutine.  A datagram may arrive out of     *)
(* order, more than once, damaged, or not at all.                          *)

Arrive(p, damaged) ==
  /\ open /\ copies < MaxCopies /\ Len(inq) < QueueLen
  /\ copies' = copies + 1
  /\ inq' = Append(inq, [spdu |-> p, damaged |-> damaged])
  /\ UNCHANGED <<keyVars, sending, serial, wire, quiets, win, accepted, open, frameVars>>

(* Nothing accepted for longer than ReplayReset.                           *)
Quiet ==
  /\ quiets < MaxQuiet
  /\ quiets' = quiets + 1
  /\ win' = [k \in Keys |-> [win[k] EXCEPT !.quiet = TRUE]]
  /\ UNCHANGED <<keyVars, sending, serial, wire, copies, inq, accepted, open, frameVars>>

------------------------------------------------------------------------------
(* The receiver.                                                           *)

(* Unmarshal: the error a datagram fails with, in the order of the checks. *)
Unmarshal(p, damaged) ==
  IF p.key = NoKey THEN "ok"
  ELSE IF p.key \notin rx.keys THEN "unknownKey"
  ELSE IF p.version = 1 /\ (p.sec # (p.key \in Encrypts) \/ p.sig = (p.key \in Encrypts)) THEN "algorithm"
  ELSE IF damaged THEN "unauthentic" ELSE "ok"

(* The signed difference of two numbers.                                   *)
Diff(n, top) == LET d == (n - top + Mod) % Mod IN IF d >= Mod \div 2 THEN d - Mod ELSE d

(* Faulty variant: the window's lower edge is off by one.                  *)
AcceptBelow(w, n) ==
  LET d == Diff(n, w.top)
  IN  IF ~w.primed \/ w.quiet THEN <<TRUE, [primed |-> TRUE, top |-> n, seen |-> {0}, quiet |-> FALSE]>>
      ELSE IF d > 0
           THEN <<TRUE, [w EXCEPT !.top = n, !.seen = {i \in {j + d : j \in @} : i < Bits} \cup {0}, !.quiet = FALSE]>>
      ELSE IF -d > Window \/ -d \in w.seen THEN <<FALSE, w>>
      ELSE <<TRUE, [w EXCEPT !.seen = @ \cup {-d}, !.quiet = FALSE]>>

(* replayWindow.accept: the window after it, and whether n was fresh.      *)
Accept(w, n) ==
  LET d == Diff(n, w.top)
  IN  IF ~w.primed \/ w.quiet THEN <<TRUE, [primed |-> TRUE, top |-> n, seen |-> {0}, quiet |-> FALSE]>>
      ELSE IF d > 0
           THEN <<TRUE, [w EXCEPT !.top = n, !.seen = {i \in {j + d : j \in @} : i < Bits} \cup {0}, !.quiet = FALSE]>>
      ELSE IF -d >= Window \/ -d \in w.seen THEN <<FALSE, w>>
      ELSE <<TRUE, [w EXCEPT !.seen = @ \cup {-d}, !.quiet = FALSE]>>

(* check, then fresh: the verdict on a datagram and the windows after it.  *)
Checked(d) ==
  LET p == d.spdu
      u == Unmarshal(p, d.damaged)
      a == Accept(win[p.key], p.number)
  IN  IF u # "ok" THEN <<u, win>>
      ELSE IF p.key = NoKey THEN <<IF AllowUnsecured THEN "accepted" ELSE "unsecured", win>>
      ELSE IF a[1] THEN <<"accepted", [win EXCEPT ![p.key] = a[2]]>>
      ELSE <<"replayed", win>>

------------------------------------------------------------------------------
(* ReadFrame, by several readers.                                          *)

(* A frame left over from an SPDU is taken first.                          *)
ReadPending(r) ==
  /\ reader[r].pc = "check"
  /\ IF pending # <<>>
     THEN handed' = handed (+) SetToBag({Head(pending)}) /\ pending' = Tail(pending) /\ UNCHANGED reader
     ELSE reader' = [reader EXCEPT ![r].pc = "wait"] /\ UNCHANGED <<pending, handed>>
  /\ UNCHANGED <<keyVars, sending, serial, wire, copies, quiets, open, recvVars>>

(* Receive: a datagram refused is passed over; an accepted SPDU without a  *)
(* frame sends ReadFrame round again.                                      *)
Receive(r) ==
  /\ reader[r].pc = "wait" /\ inq # <<>>
  /\ inq' = Tail(inq)
  /\ LET d == Head(inq)
         c == Checked(d)
         f == Frames(d.spdu)
     IN  /\ win' = c[2]
         /\ accepted' = IF c[1] = "accepted" THEN accepted (+) SetToBag({d.spdu}) ELSE accepted
         /\ reader' = IF c[1] # "accepted" THEN reader
                      ELSE [reader EXCEPT ![r] = [pc |-> IF f = <<>> THEN "check" ELSE "post", frames |-> f]]
  /\ UNCHANGED <<keyVars, sending, serial, wire, copies, quiets, pending, handed, open>>

(* The first frame is returned, the others are left for later calls.       *)
(* Faulty variant: the others replace what is pending.                     *)
PostOver(r) ==
  /\ reader[r].pc = "post"
  /\ handed' = handed (+) SetToBag({Head(reader[r].frames)})
  /\ pending' = Tail(reader[r].frames)
  /\ reader' = [reader EXCEPT ![r] = [pc |-> "check", frames |-> <<>>]]
  /\ UNCHANGED <<keyVars, sending, serial, wire, copies, quiets, open, recvVars>>

Post(r) ==
  /\ reader[r].pc = "post"
  /\ handed' = handed (+) SetToBag({Head(reader[r].frames)})
  /\ pending' = pending \o Tail(reader[r].frames)
  /\ reader' = [reader EXCEPT ![r] = [pc |-> "check", frames |-> <<>>]]
  /\ UNCHANGED <<keyVars, sending, serial, wire, copies, quiets, open, recvVars>>

(* Close; Receive then returns net.ErrClosed, whatever is still queued.    *)
Close ==
  /\ open /\ open' = FALSE
  /\ UNCHANGED <<keyVars, sending, serial, wire, copies, quiets, recvVars, frameVars>>

ReceiveClosed(r) ==
  /\ ~open /\ reader[r].pc = "wait"
  /\ reader' = [reader EXCEPT ![r].pc = "closed"]
  /\ UNCHANGED <<keyVars, sending, serial, wire, copies, quiets, open, recvVars, pending, handed>>

Next ==
  \/ \E k \in Keys : AddKey(k) \/ SetActive(k) \/ RemoveKey(k)
  \/ \E s \in Senders : SendKey(s) \/ SendWrite(s)
  \/ \E p \in wire, damaged \in BOOLEAN : Arrive(p, damaged)
  \/ Quiet \/ Close
  \/ \E r \in Readers : ReadPending(r) \/ Receive(r) \/ Post(r) \/ ReceiveClosed(r)

Spec == Init /\ [][Next]_vars

------------------------------------------------------------------------------
(* A secured SPDU is accepted once, however often and however late its     *)
(* copies arrive and however numbers wrap, and once more for each silence  *)
(* longer than ReplayReset (Receive, check, replayWindow.accept).          *)
NoReplay == \A p \in BagToSet(accepted) : p.key # NoKey => CopiesIn(p, accepted) <= 1 + quiets

(* The replay window refuses no SPDU it should take: one not accepted      *)
(* before, less than Window behind the highest number accepted under its   *)
(* key, is never called replayed (replayWindow.accept with serial number   *)
(* arithmetic).                                                            *)
RefusesReplays ==
  Len(inq') < Len(inq) /\ Checked(Head(inq))[1] = "replayed" =>
    LET p == Head(inq).spdu
    IN  \/ BagIn(p, accepted)
        \/ \E q \in BagToSet(accepted) : q.key = p.key /\ q.serial >= p.serial + Window
NoFalseReplay == [][RefusesReplays]_vars

(* Every frame of every SPDU accepted is handed to one reader, once:       *)
(* handed out, pending, or in the hands of the reader that is about to     *)
(* post it, whatever the order the readers run in (ReadFrame).             *)
FramesHandedOnce ==
  \A p \in BagToSet(accepted) : \A i \in DOMAIN Frames(p) :
    LET f == Frames(p)[i]
    IN  CopiesIn(f, handed) + Cardinality({j \in DOMAIN pending : pending[j] = f})
        + Cardinality({r \in Readers : \E j \in DOMAIN reader[r].frames : reader[r].frames[j] = f})
        = CopiesIn(p, accepted)
==============================================================================
