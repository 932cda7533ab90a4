--------------------------- MODULE SampledValues ---------------------------
(***************************************************************************)
(* Sampled values (package sv): LEPublisher.Run with its sample clock,     *)
(* buffer of NoASDU samples and grandmaster identity, the savPdu codec, a  *)
(* network that may lose frames, and the goroutine of SubscribeLE with its *)
(* stop function.  NewLEPublisherFromModel (sv/scl.go) decides what a      *)
(* control block's publisher is configured with.                           *)
(*                                                                         *)
(* Sample k is the one of the k-th fill; its measurements are that number. *)
(***************************************************************************)
EXTENDS Integers, Sequences, SequencesExt

CONSTANTS Blocks,       \* SVControl blocks: [mode, rate, noASDU, opts, sv, unicast, group, rsv]
          Hz,           \* nominalHz
          CntMod,       \* 2^16, the range of smpCnt
          Identities,   \* grandmaster identities
          Wanted,       \* the Filter's SvID, "" for any
          MaxFills, MaxIdentities,  \* bounds: samples taken, SetGmIdentity calls
          MaxQueue      \* bound: frames on the wire

VARIABLES block,
          tick,         \* the ticker's channel holds a tick
          fills, smpCnt, samples,   \* Run's variables: fills so far, smpCnt, the first n samples
          gmID, changes,
          asdus,        \* the ASDUs emit has built so far, <<>> outside emit
          pub,          \* Run: "refused", "select", "emit" or "ended"
          wire, lost,
          sub,          \* the subscriber goroutine: "read", "check", "deliver" or "gone"
          frame,        \* what it read: [asdus, late]
          stopped,      \* stop returned
          told          \* the samples given to the callback

vars == <<block, tick, fills, smpCnt, samples, gmID, changes, asdus, pub, wire, lost, sub, frame, stopped, told>>

SampledValuesAssumption == {Hz, CntMod, MaxFills, MaxIdentities, MaxQueue} \subseteq Nat \ {0}

-----------------------------------------------------------------------------
(* The configuration.                                                      *)

SamplesPerCycle(b) == LET n == IF b.mode = "perSec" THEN b.rate \div Hz ELSE b.rate IN IF n <= 0 THEN 80 ELSE n

NoASDU(b) == IF b.noASDU <= 0 THEN 1 ELSE b.noASDU

Rate(b) == SamplesPerCycle(b) * Hz

\* smpRate in the unit of the sample mode.
SmpRate(b) == IF b.mode = "perSec" THEN Rate(b) ELSE SamplesPerCycle(b)

\* NewLEPublisher: what it takes.
Publishable(b) == b.mode # "secPerSmp" /\ Rate(b) <= CntMod /\ SmpRate(b) < CntMod /\ NoASDU(b) <= Rate(b)

\* NewLEPublisherFromModel: what it refuses of a block before that.
Honoured(b) ==
  /\ ~(b.unicast /\ ~b.rsv /\ b.group)
  /\ "security" \notin b.opts
  /\ b.mode = "perSec" => b.rate # 0 /\ b.rate % Hz = 0

Init ==
  /\ block \in Blocks
  /\ tick = FALSE /\ fills = 0 /\ smpCnt = 0 /\ samples = <<>>
  /\ gmID \in Identities /\ changes = 0
  /\ asdus = <<>>
  /\ pub = IF Honoured(block) /\ Publishable(block) THEN "select" ELSE "refused"
  /\ wire = <<>> /\ lost = FALSE
  /\ sub = "read" /\ frame = <<>> /\ stopped = FALSE /\ told = <<>>

-----------------------------------------------------------------------------
(* The codec: an ASDU's elements in order, and reading them back.          *)

Field(present, tag, val) == IF present THEN <<[tag |-> tag, val |-> val]>> ELSE <<>>

\* ASDU.element.
Element(a) ==
  Field(TRUE, 0, a.svID) \o Field(a.datSet # "", 1, a.datSet) \o Field(TRUE, 2, a.smpCnt)
    \o Field(TRUE, 3, a.confRev) \o Field(a.refrTm # 0, 4, a.refrTm) \o Field(TRUE, 5, a.smpSynch)
    \o Field(a.smpRate # 0, 6, a.smpRate) \o Field(TRUE, 7, a.sample) \o Field(a.hasSmpMod, 8, a.smpMod)
    \o Field(a.hasGm, 9, a.gm)

\* Decoder.Expect and Optional, one after the other: where each tag of the
\* ASDU is read, 0 when the decoder is not at it.
At(e) ==
  LET pos[t \in -1..9] == IF t = -1 THEN [next |-> 1, at |-> 0]
                          ELSE LET p == pos[t - 1].next
                               IN  IF p <= Len(e) /\ e[p].tag = t THEN [next |-> p + 1, at |-> p]
                                   ELSE [next |-> p, at |-> 0]
  IN  [t \in 0..9 |-> pos[t].at]

\* parseASDU: svID, smpCnt, confRev and the sample are mandatory.
ParseASDU(e) ==
  LET at == At(e)
      val(t, absent) == IF at[t] = 0 THEN absent ELSE e[at[t]].val
  IN  IF \E t \in {0, 2, 3, 7} : at[t] = 0 THEN <<>>
      ELSE <<[svID |-> val(0, ""), datSet |-> val(1, ""), smpCnt |-> val(2, 0), confRev |-> val(3, 0),
              refrTm |-> val(4, 0), smpSynch |-> val(5, 0), smpRate |-> val(6, 0), sample |-> val(7, 0),
              smpMod |-> val(8, "perPeriod"), hasSmpMod |-> at[8] # 0, gm |-> val(9, 0), hasGm |-> at[9] # 0]>>

\* PDU.Marshal and Parse: one ASDU that does not decode loses the APDU.
Marshal(as) == [i \in DOMAIN as |-> Element(as[i])]

Parse(es) ==
  LET as == [i \in DOMAIN es |-> ParseASDU(es[i])]
  IN  IF \E i \in DOMAIN as : as[i] = <<>> THEN <<>> ELSE [i \in DOMAIN as |-> as[i][1]]

\* LEPublisher.asdu.  SmvOpts sampleRate asks for smpMod as well.
Asdu(s) ==
  [svID |-> block.sv, datSet |-> IF "dataSet" \in block.opts THEN "PhsMeas1" ELSE "",
   smpCnt |-> s.smpCnt, confRev |-> 1, refrTm |-> IF "refreshTime" \in block.opts THEN 1 ELSE 0,
   smpSynch |-> 2, smpRate |-> IF "sampleRate" \in block.opts THEN SmpRate(block) ELSE 0,
   sample |-> s.val, smpMod |-> IF "sampleRate" \in block.opts THEN block.mode ELSE "perPeriod",
   hasSmpMod |-> "sampleRate" \in block.opts,
   gm |-> IF "synchSourceId" \in block.opts THEN gmID ELSE 0, hasGm |-> "synchSourceId" \in block.opts]

-----------------------------------------------------------------------------
(* The publisher.                                                          *)

Others == UNCHANGED <<block, sub, frame, stopped, told>>

\* The ticker drops a tick that finds its channel full.
Tick ==
  /\ pub \in {"select", "emit"} /\ ~tick
  /\ tick' = TRUE
  /\ UNCHANGED <<fills, smpCnt, samples, gmID, changes, asdus, pub, wire, lost>> /\ Others

\* smpCnt++ in 16 bits, then the wrap at the rate.
NextCnt == LET c == (smpCnt + 1) % CntMod IN IF c >= Rate(block) THEN 0 ELSE c

\* A tick is taken: fill one sample, and emit when NoASDU are there.
Sample ==
  /\ pub = "select" /\ tick /\ fills < MaxFills
  /\ tick' = FALSE
  /\ fills' = fills + 1
  /\ samples' = Append(samples, [smpCnt |-> smpCnt, val |-> fills])
  /\ IF Len(samples') = NoASDU(block)
     THEN pub' = "emit" /\ UNCHANGED smpCnt
     ELSE smpCnt' = NextCnt /\ UNCHANGED pub
  /\ UNCHANGED <<gmID, changes, asdus, wire, lost>> /\ Others

\* emit builds one ASDU, loading the identity for it.
BuildASDU ==
  /\ pub = "emit" /\ Len(asdus) < Len(samples)
  /\ asdus' = Append(asdus, Asdu(samples[Len(asdus) + 1]))
  /\ UNCHANGED <<tick, fills, smpCnt, samples, gmID, changes, pub, wire, lost>> /\ Others

\* WriteFrame, and Run goes on.  A frame may be lost on its way.
WriteFrame ==
  /\ pub = "emit" /\ Len(asdus) = Len(samples) /\ Len(wire) < MaxQueue
  /\ \/ wire' = Append(wire, Marshal(asdus)) /\ UNCHANGED lost
     \/ lost' = TRUE /\ UNCHANGED wire
  /\ pub' = "select" /\ samples' = <<>> /\ asdus' = <<>> /\ smpCnt' = NextCnt
  /\ UNCHANGED <<tick, fills, gmID, changes>> /\ Others

\* ctx is cancelled, or WriteFrame fails: what is in the buffer is not sent.
RunEnds ==
  /\ \/ pub = "select"
     \/ pub = "emit" /\ Len(asdus) = Len(samples)
  /\ pub' = "ended" /\ tick' = FALSE /\ samples' = <<>> /\ asdus' = <<>>
  /\ UNCHANGED <<fills, smpCnt, gmID, changes, wire, lost>> /\ Others

SetGmIdentity ==
  /\ changes < MaxIdentities
  /\ gmID' \in Identities \ {gmID}
  /\ changes' = changes + 1
  /\ UNCHANGED <<tick, fills, smpCnt, samples, asdus, pub, wire, lost>> /\ Others

-----------------------------------------------------------------------------
(* The subscriber.                                                         *)

Publisher == UNCHANGED <<block, tick, fills, smpCnt, samples, gmID, changes, asdus, pub, lost>>

\* The stopped flag looked at before the read it should govern.
ReadFrameStale ==
  /\ sub = "read" /\ wire # <<>>
  /\ frame' = [asdus |-> Parse(Head(wire)), late |-> stopped]
  /\ wire' = Tail(wire)
  /\ sub' = "deliver"
  /\ UNCHANGED <<stopped, told>> /\ Publisher

ReadFrame ==
  /\ sub = "read" /\ wire # <<>>
  /\ frame' = [asdus |-> Parse(Head(wire)), late |-> stopped]
  /\ wire' = Tail(wire)
  /\ sub' = "check"
  /\ UNCHANGED <<stopped, told>> /\ Publisher

\* stopped.Load() ends the goroutine; an APDU that does not parse is skipped.
CheckStopped ==
  /\ sub = "check"
  /\ sub' = IF stopped THEN "gone" ELSE IF frame.asdus = <<>> THEN "read" ELSE "deliver"
  /\ UNCHANGED <<wire, frame, stopped, told>> /\ Publisher

\* Filter.match.
Match(a) == Wanted = "" \/ a.svID = Wanted

\* The loop over the ASDUs, with decodeLEInto and the callback.
Deliver ==
  /\ sub = "deliver"
  /\ LET got == SelectSeq(frame.asdus, Match)
     IN  told' = told \o [i \in DOMAIN got |-> [a |-> got[i], late |-> frame.late]]
  /\ sub' = "read" /\ frame' = <<>>
  /\ UNCHANGED <<wire, stopped>> /\ Publisher

Stop ==
  /\ ~stopped
  /\ stopped' = TRUE
  /\ UNCHANGED <<wire, sub, frame, told>> /\ Publisher

Next == \/ Tick \/ Sample \/ BuildASDU \/ WriteFrame \/ RunEnds \/ SetGmIdentity
        \/ ReadFrame \/ CheckStopped \/ Deliver \/ Stop

Spec == Init /\ [][Next]_vars

-----------------------------------------------------------------------------
(* Properties.                                                             *)

\* A subscriber's samples are the publisher's, in order and as it took them:
\* each keeps the count of its fill modulo the rate, through the 16-bit smpCnt,
\* the sample buffer and the codec with any optional fields; none is repeated,
\* none is missing unless a frame was lost, and after the stop function returned
\* no frame read since is delivered (LEPublisher.Run, ASDU.element, parseASDU,
\* SubscribeLE).
StreamIntact ==
  /\ (pub = "select" /\ sub = "read" /\ wire = <<>> /\ ~lost /\ ~stopped /\ Wanted \in {"", block.sv})
       => Len(told) = fills - Len(samples)
  /\ \A i \in DOMAIN told :
       LET a == told[i].a
       IN  /\ a.smpCnt = a.sample % Rate(block)
           /\ a.smpRate \in {0, SmpRate(block)}
           /\ a.hasSmpMod => a.smpMod = block.mode
           /\ ("sampleRate" \in block.opts) => a.hasSmpMod /\ a.smpRate # 0
           /\ ("synchSourceId" \in block.opts) => a.hasGm
           /\ i > 1 => a.sample > told[i - 1].a.sample
           /\ ~lost => a.sample = i - 1
           /\ ~told[i].late

\* The samples of one frame declare one grandmaster: a new identity takes effect
\* with the next frame (SetGmIdentity's comment; asdu loads it for each sample).
OneIdentityPerFrame ==
  \A f \in Range(wire) : \A i, j \in DOMAIN f : Parse(f)[i].gm = Parse(f)[j].gm

=============================================================================
