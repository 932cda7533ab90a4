-------------------------- MODULE ServiceTracking --------------------------
(***************************************************************************)
(* Service tracking (server/tracking.go): the LTRK objects in which the    *)
(* server records each tracked service, as the write and read handlers     *)
(* (handler.go, control.go) and a deferred CommandTermination drive it,    *)
(* and the change sets (tx.go) from which reports are made.                *)
(*                                                                         *)
(* The model lock is the variable mu.  A service is numbered when it is    *)
(* tracked; an attribute of a command holds the number of its command.     *)
(***************************************************************************)
EXTENDS Integers, Sequences, FiniteSets, TLC, SequencesExt

CONSTANTS Devices,      \* the logical devices, in model order: [name, trks], trks the
                        \* data objects of its LTRK in order: [kind, has]
          Controls,     \* the controllable objects: [ld, cdc, enhanced]
          Blocks,       \* the report control blocks written: [ld, fc]
          Clients,
          MaxItems,     \* bound: writes in a request
          MaxServices   \* bound: no request begins once as many services are tracked, or commands taken

VARIABLES tracker,  \* buildTracker: per logical device and kind, the tracking object
          blk,      \* per control block, RptEna and who owns it: [ena, owner]
          trk,      \* per tracking object, its attributes
          mu,       \* the client whose request holds the model lock, or "free"
          items,    \* how many writes its request has still to do
          held,     \* the operate whose handler deferred, until it is answered
          changes,  \* the tracking objects in the change set of the request under way
          cmds,     \* the commands taken so far, which number them
          terms,    \* deferred terminations: [cmd, obj, float, pc, cause]
          owed,     \* per client, readTracking: the selects it owes
          tracked,  \* history: per tracking object, the services tracked (n) and the
                    \* last of them, and the commands whose Operate and
                    \* CommandTermination are tracked
          reported  \* history: per tracking object, how often it was reported

vars == <<tracker, blk, trk, mu, items, held, changes, cmds, terms, owed, tracked, reported>>

ServiceTrackingAssumption == MaxItems \in Nat \ {0} /\ MaxServices \in Nat \ {0}

-----------------------------------------------------------------------------
(* Finding the tracking object.                                            *)

Trackers == UNION {{<<d, o>> : o \in DOMAIN Devices[d].trks} : d \in DOMAIN Devices}

\* buildTracker: the first object of a kind, in a device and in the server.
ByLD(ld, kind) ==
  {<<d, o>> \in (DOMAIN Devices) \X (1..9) :
     /\ Devices[d].name = ld /\ o \in DOMAIN Devices[d].trks
     /\ Devices[d].trks[o].kind = kind
     /\ \A p \in 1..(o - 1) : Devices[d].trks[p].kind # kind}

First(kind) ==
  LET in == {d \in DOMAIN Devices : ByLD(Devices[d].name, kind) # {}}
  IN  UNION {ByLD(Devices[d].name, kind) : d \in {e \in in : \A f \in in : e <= f}}

Kinds == {Devices[o[1]].trks[o[2]].kind : o \in Trackers}

Built == [ld \in {Devices[d].name : d \in DOMAIN Devices}, kind \in Kinds |->
            IF ByLD(ld, kind) # {} THEN ByLD(ld, kind) ELSE First(kind)]

Lookup(ld, kind) == IF <<ld, kind>> \in DOMAIN tracker THEN tracker[ld, kind] ELSE {}

Has(o) == Devices[o[1]].trks[o[2]].has

\* controlTrackingKind, the APC's by the type of its value.
ControlTrackingKind(cdc, float) ==
  CASE cdc = "SPC" -> "SpcTrk" [] cdc = "DPC" -> "DpcTrk" [] cdc = "INC" -> "IncTrk"
    [] cdc = "ENC" -> "EncTrk" [] cdc = "BSC" -> "BscTrk" [] cdc = "ISC" -> "IscTrk" [] cdc = "BAC" -> "BacTrk"
    [] cdc = "APC" -> IF float THEN "ApcFTrk" ELSE "ApcIntTrk"
    [] OTHER -> ""

\* The kind and the service of a write to a control block attribute.
BlockTracking(fc, attr) ==
  CASE fc = "BR" -> <<"BrcbTrk", "SetBRCBValues">> [] fc = "RP" -> <<"UrcbTrk", "SetURCBValues">>
    [] fc = "LG" -> <<"LocbTrk", "SetLCBValues">> [] fc = "GO" -> <<"GocbTrk", "SetGoCBValues">>
    [] fc = "MS" -> <<"MsvcbTrk", "SetMSVCBValues">> [] fc = "US" -> <<"UsvcbTrk", "SetUSVCBValues">>
    [] fc = "SP" -> <<"SgcbTrk", CASE attr = "ActSG" -> "SelectActiveSG" [] attr = "EditSG" -> "SelectEditSG"
                                   [] attr = "CnfEdit" -> "ConfirmEditSGValues">>

\* serviceErrorOf.
ServiceErrorOf(code) ==
  CASE code = "success" -> "none" [] code = "temporarilyUnavailable" -> "lockedByOtherClient"
    [] code = "accessDenied" -> "accessViolation" [] code = "valueInvalid" -> "valueInappropriate"
    [] code \in {"typeInconsistent", "attributeInconsistent"} -> "valueInconsistent"
    [] code = "nonExistent" -> "notAvailable" [] OTHER -> "serverConstraint"

-----------------------------------------------------------------------------

\* A block nobody holds; a control has none whose state is copied.
NoBlock == [ena |-> FALSE, owner |-> "none"]

Blank == [objRef |-> {}, svc |-> "", err |-> "", cmd |-> 0, cause |-> "", ena |-> FALSE, owner |-> "none"]

Init ==
  /\ tracker = Built
  /\ blk = [b \in Blocks |-> [ena |-> FALSE, owner |-> "none"]]
  /\ trk = [o \in Trackers |-> Blank]
  /\ mu = "free" /\ items = 0 /\ held = {} /\ changes = {}
  /\ cmds = 0 /\ terms = {} /\ owed = [c \in Clients |-> <<>>]
  /\ tracked = [n |-> [o \in Trackers |-> 0], last |-> [o \in Trackers |-> <<>>], operated |-> {}, ended |-> {}]
  /\ reported = [o \in Trackers |-> 0]

\* setTracked: what the object lacks, or what does not fit it, stays as it is.
SetTracked(o, a, v, old) == IF a \in Has(o) THEN v ELSE old

\* copyTracked: the block's state, and over it the attribute asked for.
CopyTracked(o, rec, b) ==
  [ena   |-> SetTracked(o, "rptEna", IF rec.asked # <<>> THEN rec.asked[1] ELSE b.ena, trk[o].ena),
   owner |-> SetTracked(o, "owner", b.owner, trk[o].owner)]

\* track: the block's state or the command, then the common attributes.  The
\* cause that stands for none is no value, and is recorded as unknown.
Record(o, rec, b) ==
  LET state == IF rec.src THEN CopyTracked(o, rec, b) ELSE [ena |-> trk[o].ena, owner |-> trk[o].owner]
      cause == IF rec.cause = "none" THEN "unknown" ELSE rec.cause
  IN  [objRef |-> {rec.obj}, svc |-> rec.svc, err |-> rec.err, ena |-> state.ena, owner |-> state.owner,
       cmd   |-> IF rec.cmd = 0 THEN trk[o].cmd ELSE SetTracked(o, "ctlVal", rec.cmd, trk[o].cmd),
       cause |-> IF rec.cmd = 0 THEN trk[o].cause ELSE SetTracked(o, "respAddCause", cause, trk[o].cause)]

\* The records tracked one after the other, b being the block's state.
Track(recs, b) ==
  LET mine == [o \in DOMAIN trk |-> SelectSeq(recs, LAMBDA r : Lookup(r.ld, r.kind) = {o})]
      cmdsOf(svc) == {r.cmd : r \in {x \in Range(recs) : x.svc = svc}}
  IN  /\ trk' = [o \in DOMAIN trk |-> IF mine[o] = <<>> THEN trk[o] ELSE Record(o, Last(mine[o]), b)]
      /\ tracked' = [n |-> [o \in DOMAIN trk |-> tracked.n[o] + Len(mine[o])],
                     last |-> [o \in DOMAIN trk |-> IF mine[o] = <<>> THEN tracked.last[o] ELSE <<Last(mine[o])>>],
                     operated |-> tracked.operated \cup cmdsOf("Operate"),
                     ended |-> tracked.ended \cup cmdsOf("CommandTermination")]

Touched(recs) == UNION {Lookup(r.ld, r.kind) : r \in Range(recs)}

\* reportManager.onUpdate: objRef raises data-update, so each tracking object in
\* the change set is reported as it then stands.
OnUpdate(objs) == reported' = [o \in DOMAIN trk |-> reported[o] + (IF o \in objs THEN 1 ELSE 0)]

-----------------------------------------------------------------------------
(* A write request: its writes in turn under the lock, one report.         *)

Svc == [Oper |-> "Operate", SBOw |-> "SelectWithValue", Cancel |-> "Cancel"]

\* A write of a control structure, with the code Control answers it with; only an
\* accepted operate of an enhanced object may be deferred.
ControlItems ==
  {w \in [obj : Controls, phase : DOMAIN Svc, code : {"success", "accessDenied", "typeInconsistent"},
          deferred : BOOLEAN, float : BOOLEAN] :
     /\ w.deferred => w.phase = "Oper" /\ w.obj.enhanced /\ w.code = "success"
     /\ w.phase = "Cancel" => w.code # "typeInconsistent"
     /\ w.float => w.obj.cdc = "APC"}

Served == MapThenSumSet(LAMBDA o : tracked.n[o], DOMAIN trk)

WriteBegins(c) ==
  /\ mu = "free" /\ owed[c] = <<>> /\ Served < MaxServices /\ cmds < MaxServices
  /\ \E n \in 1..MaxItems : items' = n
  /\ mu' = c /\ changes' = {}
  /\ UNCHANGED <<cmds, blk, trk, held, terms, owed, tracked, reported>>

ControlRec(x, float, svc, err, cmd, cause) ==
  [ld |-> x.ld, kind |-> ControlTrackingKind(x.cdc, float), obj |-> x, svc |-> svc, err |-> err,
   cmd |-> cmd, cause |-> cause, src |-> FALSE, asked |-> <<>>, left |-> NoBlock]

\* The handler of an operate runs under the lock; it may take the termination
\* over, and finish it from another goroutine at any moment from here.
HandlerDefers(c, w) ==
  /\ mu = c /\ items > 0 /\ held = {} /\ w.deferred
  /\ cmds' = cmds + 1 /\ held' = {w}
  /\ terms' = terms \cup {[cmd |-> cmds', obj |-> w.obj, float |-> w.float, pc |-> "open", cause |-> "none"]}
  /\ UNCHANGED <<blk, trk, mu, items, changes, owed, tracked, reported>>

\* controlWrite, with what Control decides left to the code.  An enhanced
\* operate not deferred is terminated at once, which is tracked as one more
\* service.
ControlWrite(c, w) ==
  LET cmd == IF w.deferred THEN cmds ELSE cmds + 1
      cause == CASE w.code = "success" -> "none" [] w.code = "typeInconsistent" -> "unknown" [] OTHER -> "refused"
      ends == w.phase = "Oper" /\ w.obj.enhanced /\ w.code = "success" /\ ~w.deferred
      recs == <<ControlRec(w.obj, w.float, Svc[w.phase], ServiceErrorOf(w.code), cmd, cause)>>
              \o (IF ends THEN <<ControlRec(w.obj, w.float, "CommandTermination", "none", cmd, "none")>> ELSE <<>>)
  IN  /\ mu = c /\ items > 0 /\ held = (IF w.deferred THEN {w} ELSE {})
      /\ Track(recs, NoBlock)
      /\ changes' = changes \cup Touched(recs)
      /\ items' = items - 1 /\ held' = {} /\ cmds' = cmd
      /\ UNCHANGED <<blk, mu, terms, owed, reported>>

\* The writes of RptEna and Resv, as [attr, v].
BlockWrites == [attr : {"RptEna"}, v : BOOLEAN] \cup [attr : {"Resv"}, v : {FALSE}]

\* checkRCBWrite: another client's block is not this one's to write, and an
\* enabled one is neither enabled again nor given up.
BlockCode(c, b, w) ==
  IF blk[b].owner \in {"none", c} /\ (blk[b].ena => w = [attr |-> "RptEna", v |-> FALSE])
  THEN "success" ELSE "temporarilyUnavailable"

\* writeOne, then onRCBWrite: a write takes the block, Resv gives it up.
BlockAfter(c, b, w) ==
  IF BlockCode(c, b, w) # "success" THEN blk[b]
  ELSE IF w.attr = "Resv" THEN NoBlock ELSE [ena |-> w.v, owner |-> c]

\* trackCBWrite: the block's Set...Values service, with the value asked for.
BlockRec(c, b, w) ==
  LET t == BlockTracking(b.fc, w.attr)
  IN  [ld |-> b.ld, kind |-> t[1], obj |-> b, svc |-> t[2], err |-> ServiceErrorOf(BlockCode(c, b, w)),
       cmd |-> 0, cause |-> "", src |-> TRUE, left |-> BlockAfter(c, b, w),
       asked |-> IF b.fc \in {"BR", "RP"} /\ w.attr = "RptEna" THEN <<w.v>> ELSE <<>>]

\* The service tracked before it took effect.
BlockWriteEarly(c, b, w) ==
  /\ mu = c /\ items > 0 /\ held = {}
  /\ blk' = [blk EXCEPT ![b] = BlockAfter(c, b, w)]
  /\ Track(<<BlockRec(c, b, w)>>, blk[b])
  /\ changes' = changes \cup Touched(<<BlockRec(c, b, w)>>)
  /\ items' = items - 1
  /\ UNCHANGED <<cmds, mu, held, terms, owed, reported>>

BlockWrite(c, b, w) ==
  /\ mu = c /\ items > 0 /\ held = {}
  /\ blk' = [blk EXCEPT ![b] = BlockAfter(c, b, w)]
  /\ Track(<<BlockRec(c, b, w)>>, blk'[b])
  /\ changes' = changes \cup Touched(<<BlockRec(c, b, w)>>)
  /\ items' = items - 1
  /\ UNCHANGED <<cmds, mu, held, terms, owed, reported>>

WriteEnds(c) ==
  /\ mu = c /\ items = 0
  /\ OnUpdate(changes)
  /\ mu' = "free" /\ changes' = {}
  /\ UNCHANGED <<cmds, blk, trk, items, held, terms, owed, tracked>>

-----------------------------------------------------------------------------
(* A select by reading SBO, and the termination of a deferred operate.     *)

\* readOne under the read lock queues what it owes.
ReadSBO(c, x) ==
  /\ mu = "free" /\ owed[c] = <<>> /\ Served < MaxServices /\ cmds < MaxServices
  /\ \E err \in {"none", "instanceInUse", "accessViolation"} :
       owed' = [owed EXCEPT ![c] = <<ControlRec(x, TRUE, "Select", err, 0, "none")>>]
  /\ UNCHANGED <<cmds, blk, trk, mu, items, held, changes, terms, tracked, reported>>

FlushReadTracking(c) ==
  /\ mu = "free" /\ owed[c] # <<>>
  /\ Track(owed[c], NoBlock)
  /\ OnUpdate(Touched(owed[c]))
  /\ owed' = [owed EXCEPT ![c] = <<>>]
  /\ UNCHANGED <<cmds, blk, mu, items, held, changes, terms>>

\* termination.finish in another goroutine, once.
Finish(t, cause) ==
  /\ t.pc = "open"
  /\ terms' = (terms \ {t}) \cup {[t EXCEPT !.pc = "sent", !.cause = cause]}
  /\ UNCHANGED <<cmds, blk, trk, mu, items, held, changes, owed, tracked, reported>>

TerminationRec(t) ==
  ControlRec(t.obj, t.float, "CommandTermination", IF t.cause = "none" THEN "none" ELSE "serverConstraint", t.cmd, t.cause)

\* The termination recorded where it is sent.
TrackAsyncUnlocked(t) ==
  /\ t.pc = "sent"
  /\ Track(<<TerminationRec(t)>>, NoBlock)
  /\ OnUpdate(Touched(<<TerminationRec(t)>>))
  /\ terms' = (terms \ {t}) \cup {[t EXCEPT !.pc = "done"]}
  /\ UNCHANGED <<cmds, blk, mu, items, held, changes, owed>>

\* trackAsync waits for the model lock.
TrackAsync(t) ==
  /\ t.pc = "sent" /\ mu = "free"
  /\ Track(<<TerminationRec(t)>>, NoBlock)
  /\ OnUpdate(Touched(<<TerminationRec(t)>>))
  /\ terms' = (terms \ {t}) \cup {[t EXCEPT !.pc = "done"]}
  /\ UNCHANGED <<cmds, blk, mu, items, held, changes, owed>>

Next ==
  /\ UNCHANGED tracker
  /\ \/ \E c \in Clients : WriteBegins(c) \/ WriteEnds(c) \/ FlushReadTracking(c)
     \/ \E c \in Clients : mu = c /\ items > 0 /\ \E w \in ControlItems : HandlerDefers(c, w) \/ ControlWrite(c, w)
     \/ \E c \in Clients, b \in Blocks, w \in BlockWrites : BlockWrite(c, b, w)
     \/ \E c \in Clients, x \in Controls : ReadSBO(c, x)
     \/ \E t \in terms : TrackAsync(t) \/ \E cause \in {"none", "timeLimitOver"} : Finish(t, cause)

Spec == Init /\ [][Next]_vars

-----------------------------------------------------------------------------
(* Properties.                                                             *)

\* What a tracking object reports is one service, whole: its object, service,
\* outcome and command are those of the last service tracked there, and for a
\* control block the state is the one the service left, with the value asked for
\* recorded over it; and the CommandTermination of a command, sent at once or by
\* the handler that deferred it, is recorded after its Operate (track,
\* trackCBWrite, trackAsync: "it lands after what that caller records").
TrackedAsRun ==
  /\ \A o \in DOMAIN trk :
       tracked.n[o] > 0 =>
         LET r == tracked.last[o][1]
         IN  /\ trk[o].objRef = {r.obj} /\ trk[o].svc = r.svc /\ trk[o].err = r.err
             /\ r.cmd # 0 /\ "ctlVal" \in Has(o) => trk[o].cmd = r.cmd
             /\ r.src /\ "owner" \in Has(o) => trk[o].owner = r.left.owner
  /\ tracked.ended \subseteq tracked.operated

\* A data set holding a tracking object reports every service (tracking.go's
\* opening comment): as many reports of a tracking object as services tracked.
EveryServiceReported == mu = "free" => reported = tracked.n

=============================================================================
