------------------------------- MODULE MCSecure -------------------------------
(***************************************************************************)
(* The security protocols, model checked side by side: the end-to-end      *)
(* associations of IEC 62351-4 (the handshake, and the association it      *)
(* leaves), the session protocol of R-GOOSE and R-SV, the distribution of  *)
(* its keys, and the establishment of an MMS association with its          *)
(* authentication; with them the sampled values the session carries.  The  *)
(* first state chooses the part that runs and the others stay in an        *)
(* initial state of theirs, so the state spaces add up instead of          *)
(* multiplying.  E2EHandshake is extended, the others are instantiated.    *)
(***************************************************************************)
EXTENDS E2EHandshake

VARIABLES part,
          clock, back, a, sent, owed, up, closing, sends, asks, carried, refused,
          start, tx, rx, changes, sending, serial, wire, copies, inq, win, quiets,
          reader, pending, accepted, handed, open,
          time, group, used, known, store, timers, reg, failures,
          teks, net, mem, peers, recent, cookies, told,
          cfg, client, server, toServer, toClient, ctx, after, deadline,
          block, tick, fills, smpCnt, samples, gmID, gmChanges, asdus, pub, frames, lost, sub, frame, stopped, samplesTold

(* One policy that takes the client's second choices, one that takes all.  *)
MCOffers == {[groups |-> <<1, 2>>, icvs |-> <<3, 2, 1>>]}
MCAccepts == {[groups |-> {1, 2}, icvs |-> {1, 2}], [groups |-> {2}, icvs |-> {2}]}

(* What associations are tried: lengths around the limits of the encoding, *)
(* TPDU sizes, proposed contexts, Initiate parameters, authentication.     *)
Ctx(id, abs, ts) == [id |-> id, abs |-> abs, ts |-> ts]
Par(d, o, ci, ce, b) == [detail |-> d, out |-> o, calling |-> ci, called |-> ce, nesting |-> 5, cbb |-> b]
Base ==
  [code |-> 0, ud |-> 180, rud |-> 160, data |-> 40, app |-> "mms", auth |-> "none", ap |-> "off",
   contexts |-> <<Ctx(1, "acse", "ber"), Ctx(3, "mms", "ber")>>,
   own |-> "good", policy |-> "accept", tls |-> FALSE, plain |-> FALSE, e2e |-> FALSE, timed |-> TRUE,
   deadline |-> FALSE, offer |-> Par(65001, 10, 0, 0, <<>>), want |-> Par(65001, 10, 0, 0, <<>>)]
Lengths ==
  {[Base EXCEPT !.code = c, !.ud = n, !.rud = m, !.data = d] :
     c \in {0, 7}, n \in {241, 255, 600}, m \in {110, 255}, d \in {0, 121, 1017}}
  \cup {[Base EXCEPT !.code = 15, !.data = 65001], [Base EXCEPT !.ud = 10241]}
Proposals ==
  LET some == {Ctx(1, "acse", "ber"), Ctx(3, "mms", "ber"), Ctx(5, "mms", "ber"),
               Ctx(3, "acse", "other"), Ctx(7, "mms", "other"), Ctx(9, "e2e", "ber")}
  IN  {[Base EXCEPT !.contexts = s] : s \in [1..1 -> some] \cup [1..2 -> some]}
Params == {Par(d, o, ci, ce, b) : d \in {0, 1000}, o \in {0, 5}, ci \in {0, 2}, ce \in {0, 8},
                                  b \in {<<>>, <<{"str", "vnam"}>>}}
Wants == {Par(0, 0, 0, 0, <<>>), Par(1000, 0, 2, 0, <<{"str", "vnam"}>>), Par(0, 5, 0, 8, <<{"str", "vnam"}>>),
          Par(1000, 5, 2, 8, <<>>)}
Initiates == {[Base EXCEPT !.offer = o, !.want = w, !.timed = FALSE] : o \in Params, w \in Wants}
Authentications ==
  {[Base EXCEPT !.auth = x, !.ap = ap, !.own = o, !.tls = t, !.deadline = (x = "none")] :
     x \in {"none", "password", "aprofile", "nomech", "stale"}, ap \in {"off", "optional", "required"},
     o \in {"good", "stale", "broken"}, t \in BOOLEAN}
  \cup {[Base EXCEPT !.policy = po, !.e2e = e, !.deadline = TRUE] :
          po \in {"accept", "required", "failure"}, e \in BOOLEAN}
  \cup {[Base EXCEPT !.app = x, !.deadline = TRUE] : x \in {"acsi", "e2e", "other"}}
MCConfigs == {Base} \cup Lengths \cup Proposals \cup Initiates \cup Authentications

(* Sampled value control blocks of every sample mode, with rates that fit  *)
(* the count and rates that do not, and blocks that are refused.           *)
B(mode, r, n, o) ==
  [mode |-> mode, rate |-> r, noASDU |-> n, opts |-> o, sv |-> "MU01", unicast |-> FALSE, group |-> TRUE, rsv |-> FALSE]
MCBlocks ==
  {B("perPeriod", r, n, {}) : r \in {1, 2, 3}, n \in {0, 2}}
  \cup {B("perPeriod", 2, n, {"sampleRate", "synchSourceId"}) : n \in {1, 2}}
  \cup {B("perSec", 4, 2, {"sampleRate", "refreshTime", "dataSet"}), B("perSec", 3, 1, {}), B("secPerSmp", 1, 1, {}),
        B("perPeriod", 1, 1, {"security"}), [B("perPeriod", 1, 1, {}) EXCEPT !.unicast = TRUE]}

(* The handshake when the identifier parts run out.                        *)
Crowded == INSTANCE E2EHandshake WITH IDs <- {1}
ES == INSTANCE Establishment WITH
        Configs <- MCConfigs, cl <- client, sv <- server, toS <- toServer, toC <- toClient
EA == INSTANCE E2EAssociation WITH
        Freshness <- 1, RekeyInterval <- 2, RekeyRequest <- 1, MaxMessagesPerKey <- 1,
        Overdue <- 1, Skew <- 1, MaxTime <- 2, MaxBack <- 1, MaxSends <- 1, MaxAsks <- 1
RS == INSTANCE RSession WITH
        Keys <- {1, 2}, Encrypts <- {2}, Version <- 2, AllowUnsecured <- FALSE, HasStore <- TRUE,
        Mod <- 8, Bits <- 2, Window <- 2, Senders <- {1}, Readers <- {1, 2}, Elems <- {2},
        Starts <- {7}, MaxSends <- 2, MaxChanges <- 1, MaxCopies <- 3, MaxQuiet <- 1, QueueLen <- 1
(* The session with one reader, and SPDUs that overrun the replay window.  *)
RW == INSTANCE RSession WITH
        Keys <- {1, 2}, Encrypts <- {2}, Version <- 2, AllowUnsecured <- FALSE, HasStore <- TRUE,
        Mod <- 8, Bits <- 2, Window <- 2, Senders <- {1}, Readers <- {1}, Elems <- {0},
        Starts <- {6}, MaxSends <- 3, MaxChanges <- 1, MaxCopies <- 4, MaxQuiet <- 1, QueueLen <- 1
GK == INSTANCE GroupKeys WITH
        Members <- {1}, SPIs <- {1, 2}, Unsupported <- {}, Policies <- {<<0, 5>>, <<3, 8>>},
        Second <- 2, Refresh <- 4, Latency <- 1, MaxTime <- 10, MaxFailures <- 1, now <- time
KP == INSTANCE KeyPull WITH
        Regs <- 1..3, Attempts <- 1, MaxPeers <- 1, MaxCookies <- 3, SPIs <- {1, 2},
        Offered <- {1, 2}, Genuine <- {1, 2}, Authorized <- {1, 2}, group <- teks
SV == INSTANCE SampledValues WITH
        Blocks <- MCBlocks, Hz <- 2, CntMod <- 4, Identities <- {11, 12}, Wanted <- "MU01",
        MaxFills <- 5, MaxIdentities <- 1, MaxQueue <- 2,
        changes <- gmChanges, wire <- frames, told <- samplesTold

ASSUME Assumptions ==
  /\ EA!E2EAssociationAssumption /\ RS!RSessionAssumption /\ RW!RSessionAssumption
  /\ GK!GroupKeysAssumption /\ KP!KeyPullAssumption /\ ES!EstablishmentAssumption
  /\ SV!SampledValuesAssumption

eaVars == <<clock, back, a, sent, owed, up, closing, sends, asks, carried, refused>>
rsVars == <<start, tx, rx, changes, sending, serial, wire, copies, inq, win, quiets,
            reader, pending, accepted, handed, open>>
gkVars == <<time, group, used, known, store, timers, reg, failures>>
kpVars == <<teks, net, mem, peers, recent, cookies, told>>
esVars == <<cfg, client, server, toServer, toClient, ctx, after, deadline>>
svVars == <<block, tick, fills, smpCnt, samples, gmID, gmChanges, asdus, pub, frames, lost, sub, frame, stopped, samplesTold>>
mcVars == <<part, vars, eaVars, rsVars, gkVars, kpVars, esVars, svVars>>

MCInit ==
  /\ part \in {"Handshake", "Crowded", "Association", "Session", "Window", "Keys", "Pull", "Establishment", "Samples"}
  /\ Init /\ (part \notin {"Handshake", "Crowded"} => accept.groups = {2})
  /\ EA!Init
  /\ (IF part = "Window" THEN RW!Init ELSE RS!Init) /\ (part \notin {"Session", "Window"} => tx.active = 1)
  /\ GK!Init
  /\ KP!Init /\ (part # "Pull" => teks = {})
  /\ IF part = "Establishment" THEN ES!Init ELSE ES!Opening(Base)
  /\ SV!Init /\ (part # "Samples" => block = B("secPerSmp", 1, 1, {}) /\ gmID = 11)

MCNext ==
  \/ part = "Handshake" /\ Next /\ UNCHANGED <<part, eaVars, rsVars, gkVars, kpVars, esVars, svVars>>
  \/ part = "Crowded" /\ Crowded!Next /\ UNCHANGED <<part, eaVars, rsVars, gkVars, kpVars, esVars, svVars>>
  \/ part = "Association" /\ EA!Next /\ UNCHANGED <<part, vars, rsVars, gkVars, kpVars, esVars, svVars>>
  \/ part = "Session" /\ RS!Next /\ UNCHANGED <<part, vars, eaVars, gkVars, kpVars, esVars, svVars>>
  \/ part = "Window" /\ RW!Next /\ UNCHANGED <<part, vars, eaVars, gkVars, kpVars, esVars, svVars>>
  \/ part = "Keys" /\ GK!Next /\ UNCHANGED <<part, vars, eaVars, rsVars, kpVars, esVars, svVars>>
  \/ part = "Pull" /\ KP!Next /\ UNCHANGED <<part, vars, eaVars, rsVars, gkVars, esVars, svVars>>
  \/ part = "Establishment" /\ ES!Next /\ UNCHANGED <<part, vars, eaVars, rsVars, gkVars, kpVars, svVars>>
  \/ part = "Samples" /\ SV!Next /\ UNCHANGED <<part, vars, eaVars, rsVars, gkVars, kpVars, esVars>>

MCSpec == MCInit /\ [][MCNext]_mcVars

-------------------------------------------------------------------------------
(* The properties of the parts, each explained in full where it is         *)
(* defined; OneName is E2EHandshake's own.                                 *)

(* Only a PDU that is late ends an association, whatever the keys do       *)
(* (Seal and open of iec62351/e2e/assoc.go).                               *)
OnlyLateRefused == part = "Association" => EA!OnlyLateRefused

(* No SPDU is accepted twice under a key, each frame of one accepted goes  *)
(* to one reader, and one in the window that was not accepted before is    *)
(* never called replayed, across the wrap of its number                    *)
(* (rsession/replay.go:23-46, session.go).                                 *)
AcceptedOnce ==
  [][/\ part = "Session" => RS!NoReplay' /\ RS!FramesHandedOnce' /\ RS!RefusesReplays
     /\ part = "Window" => RW!NoReplay' /\ RW!RefusesReplays]_mcVars

(* What a member registered is what the server recorded for it, once; its  *)
(* key store follows its keys, and no key outlives its lifetime            *)
(* (gdoi/server.go, gdoi/member.go, gdoi/keeper.go).                       *)
KeysCurrent ==
  /\ part = "Keys" => GK!StoreFollows /\ GK!EndIsTimed
  /\ part = "Pull" => KP!RegistrationAgrees

(* Two ends that are associated agree on what they negotiated, the bounds  *)
(* of the handshake do not outlive it, and a handshake nobody interrupts   *)
(* ends the way both sides know (mms/conn.go, mms/server_conn.go).         *)
AssociatedAlike == part = "Establishment" => ES!EndsAlike /\ ES!BoundsLifted /\ ES!Concludes

(* A subscriber's samples are the publisher's, in order and complete       *)
(* unless a frame was lost, and none read after stop is delivered          *)
(* (sv/publisher.go, sv/sv.go, sv/subscriber.go).                          *)
StreamIntact == part = "Samples" => SV!StreamIntact
===============================================================================
