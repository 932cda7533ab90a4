------------------------------- MODULE KeyPull -------------------------------
(***************************************************************************)
(* Registrations with the GDOI key server (gdoi/member.go, server.go): a   *)
(* main mode phase 1 and a GROUPKEY-PULL over UDP, both ends with their    *)
(* retransmission.  The network keeps every message sent: it may deliver   *)
(* one late, again, or never.                                              *)
(*                                                                         *)
(* A message is its kind, the registration it is of (the initiator cookie, *)
(* and the socket it is sent from) and the responder cookie rc (0 before   *)
(* there is one); keys and nonces of an exchange are those of its pair of  *)
(* cookies.  A group is the set of SPIs it holds.                          *)
(***************************************************************************)
EXTENDS Naturals, FiniteSets, Sequences

CONSTANTS Regs,        \* registrations, 1..n, made one after the other
          Attempts,    \* how often a request is sent
          MaxPeers,    \* phase 1 states kept, 4096 in the code
          MaxCookies,  \* bound on responder states created
          SPIs,
          Offered,     \* registrations that offer a suite the server accepts
          Genuine,     \* registrations whose credentials verify
          Authorized   \* registrations the server authorises for the group

KeyPullAssumption ==
  /\ Regs = 1..Cardinality(Regs) /\ Offered \subseteq Regs /\ Genuine \subseteq Regs /\ Authorized \subseteq Regs
  /\ Attempts \in Nat \ {0} /\ MaxPeers \in Nat \ {0} /\ MaxCookies \in Nat

VARIABLES group,     \* the SPIs of the group
          net,       \* every message sent
          mem,       \* each registration's initiator: [pc, tries, rc, policy, teks]
          peers,     \* the responders, by registration: [rc, state, last, pull]
          recent,    \* the registrations with a responder, least recently active first
          cookies,   \* responder cookies drawn
          told       \* OnRegister: <<registration, TEKs>>, in order

vars == <<group, net, mem, peers, recent, cookies, told>>

NoPull == [st |-> "none", teks |-> {}, req |-> <<>>, resp |-> <<>>]

Init ==
  /\ group \in SUBSET SPIs /\ net = {} /\ peers = [r \in {} |-> 0] /\ recent = <<>> /\ cookies = 0 /\ told = <<>>
  /\ mem = [r \in Regs |-> [pc |-> "idle", tries |-> 0, rc |-> 0, policy |-> {}, teks |-> {}]]

(* Group.Add and Group.Remove.                                             *)
Rotate ==
  /\ \E s \in SPIs : group' = IF s \in group THEN group \ {s} ELSE group \cup {s}
  /\ UNCHANGED <<net, mem, peers, recent, cookies, told>>

------------------------------------------------------------------------------
(* Messages.  A request is numbered by its step in the exchange.           *)

Request(reg, pc, rc) == [to |-> "server", k |-> pc, reg |-> reg, rc |-> rc, teks |-> {}]
Reply(reg, k, rc, teks) == [to |-> "member", k |-> k, reg |-> reg, rc |-> rc, teks |-> teks]

(* The member's requests in turn: SA, key exchange, authentication, pull,  *)
(* proof of the server's nonce.                                            *)
After == [sa |-> "ke", ke |-> "auth", auth |-> "pull", pull |-> "proof"]
Waiting == {"sa", "ke", "auth", "pull", "proof"}

------------------------------------------------------------------------------
(* The member.                                                             *)

Over(r) == mem[r].pc \in {"done", "failed"}

(* Register: the first request, with a cookie of its own.                  *)
Register(r) ==
  /\ mem[r].pc = "idle" /\ \A q \in 1..(r - 1) : Over(q)
  /\ mem' = [mem EXCEPT ![r].pc = "sa", ![r].tries = 1]
  /\ net' = net \cup {Request(r, "sa", 0)}
  /\ UNCHANGED <<group, peers, recent, cookies, told>>

(* No reply the match accepts within Retransmit: the request goes again,   *)
(* Attempts times in all; or the context ends.                             *)
Timeout(r) ==
  /\ mem[r].pc \in Waiting
  /\ mem' = [mem EXCEPT ![r] = IF @.tries < Attempts THEN [@ EXCEPT !.tries = @ + 1] ELSE [@ EXCEPT !.pc = "failed"]]
  /\ UNCHANGED <<group, net, peers, recent, cookies, told>>

(* The match of each round trip.  A pull's two replies are told apart only *)
(* by what they decrypt to.                                                *)
Matches(m, i) ==
  CASE i.pc = "sa"    -> m.k = "sa" /\ m.rc # 0
    [] i.pc = "ke"    -> m.k = "ke" /\ m.rc = i.rc
    [] i.pc = "auth"  -> m.k = "auth" /\ m.rc = i.rc
    [] i.pc = "pull"  -> m.k \in {"pull", "proof"} /\ m.rc = i.rc
    [] i.pc = "proof" -> m.k \in {"pull", "proof"} /\ m.rc = i.rc

(* phase1: the reply to one request leads to the next.                     *)
Phase1Takes(i, m) == [i EXCEPT !.pc = After[i.pc], !.tries = 1, !.rc = m.rc]

(* pull: the policy, which must name a key, then the keys it names.  The   *)
(* reply to the pull's other request does not decrypt.                     *)
PullTakes(i, m) ==
  IF m.k # i.pc \/ (m.k = "pull" /\ m.teks = {}) THEN [i EXCEPT !.pc = "failed"]
  ELSE IF m.k = "pull" THEN [i EXCEPT !.pc = "proof", !.tries = 1, !.policy = m.teks]
  ELSE IF i.policy \subseteq m.teks THEN [i EXCEPT !.pc = "done", !.teks = i.policy]
  ELSE [i EXCEPT !.pc = "failed"]

(* What the member makes of a reply: a notification ends the exchange; one *)
(* that does not match is passed over; one that does is taken, and the     *)
(* next request sent.                                                      *)
MemberTakes(m) ==
  LET r == m.reg
      i == mem[r]
      n == IF m.k = "info" THEN [i EXCEPT !.pc = "failed"]
           ELSE IF i.pc \in {"pull", "proof"} THEN PullTakes(i, m) ELSE Phase1Takes(i, m)
  IN  /\ m.to = "member" /\ i.pc \in Waiting
      /\ m.k = "info" \/ Matches(m, i)
      /\ mem' = [mem EXCEPT ![r] = n]
      /\ net' = IF n.pc \in Waiting THEN net \cup {Request(r, n.pc, n.rc)} ELSE net
      /\ UNCHANGED <<group, peers, recent, cookies, told>>

------------------------------------------------------------------------------
(* The key server.                                                         *)

Without(s, r) == SelectSeq(s, LAMBDA x : x # r)
Touch(s, r) == Append(Without(s, r), r)

(* The reply a request is answered with, its responder after it, and       *)
(* whether the registration is complete.  An answer <<>> is none; keep is  *)
(* FALSE when the exchange is over and its state goes.                     *)
Answer(p, msg, keep, done) == [p |-> p, msg |-> msg, keep |-> keep, done |-> done]

(* mainSA, mainKE, mainAuth.                                               *)
MainMode(p, m) ==
  CASE m.k = "sa" /\ p.state = "SA" /\ m.rc = 0 ->
         IF m.reg \in Offered THEN Answer(p, <<Reply(m.reg, "sa", p.rc, {})>>, TRUE, FALSE)
         ELSE Answer(p, <<Reply(m.reg, "info", p.rc, {})>>, FALSE, FALSE)
    [] m.k = "ke" /\ p.state = "SA" ->
         Answer([p EXCEPT !.state = "KE"], <<Reply(m.reg, "ke", p.rc, {})>>, TRUE, FALSE)
    [] m.k = "auth" /\ p.state = "KE" ->
         IF m.reg \in Genuine THEN Answer([p EXCEPT !.state = "Established"], <<Reply(m.reg, "auth", p.rc, {})>>, TRUE, FALSE)
         ELSE Answer(p, <<Reply(m.reg, "info", p.rc, {})>>, FALSE, FALSE)
    [] OTHER -> Answer(p, <<>>, p.state = "Established", FALSE)

(* pull: the policy to the first message, the keys of the same snapshot to *)
(* the second; a message of a pull already completed gets the reply it had *)
(* if it is the last one again, and nothing otherwise.                     *)
(* Faulty variant: the keys are those the group has by then.               *)
PullLater(p, m) ==
  LET u == p.pull
  IN  IF u.st # "none" /\ m = u.req THEN Answer(p, <<u.resp>>, TRUE, FALSE)
      ELSE IF u.st = "done" THEN Answer(p, <<>>, TRUE, FALSE)
      ELSE IF m.k = "pull" /\ u.st = "none" THEN
        (IF m.reg \notin Authorized \/ group = {} THEN Answer(p, <<Reply(m.reg, "info", p.rc, {})>>, TRUE, FALSE)
         ELSE LET resp == Reply(m.reg, "pull", p.rc, group)
              IN  Answer([p EXCEPT !.pull = [st |-> "sent", teks |-> group, req |-> m, resp |-> resp]], <<resp>>, TRUE, FALSE))
      ELSE IF m.k = "proof" /\ u.st = "sent" THEN
        (LET resp == Reply(m.reg, "proof", p.rc, group)
         IN  Answer([p EXCEPT !.pull = [u EXCEPT !.st = "done", !.teks = group, !.req = m, !.resp = resp]], <<resp>>, TRUE, TRUE))
      ELSE Answer(p, <<>>, TRUE, FALSE)

Pull(p, m) ==
  LET u == p.pull
  IN  IF u.st # "none" /\ m = u.req THEN Answer(p, <<u.resp>>, TRUE, FALSE)
      ELSE IF u.st = "done" THEN Answer(p, <<>>, TRUE, FALSE)
      ELSE IF m.k = "pull" /\ u.st = "none" THEN
        (IF m.reg \notin Authorized \/ group = {} THEN Answer(p, <<Reply(m.reg, "info", p.rc, {})>>, TRUE, FALSE)
         ELSE LET resp == Reply(m.reg, "pull", p.rc, group)
              IN  Answer([p EXCEPT !.pull = [st |-> "sent", teks |-> group, req |-> m, resp |-> resp]], <<resp>>, TRUE, FALSE))
      ELSE IF m.k = "proof" /\ u.st = "sent" THEN
        (LET resp == Reply(m.reg, "proof", p.rc, u.teks)
         IN  Answer([p EXCEPT !.pull = [u EXCEPT !.st = "done", !.req = m, !.resp = resp]], <<resp>>, TRUE, TRUE))
      ELSE Answer(p, <<>>, TRUE, FALSE)

Step(p, m) == IF m.k \in {"sa", "ke", "auth"} THEN MainMode(p, m)
              ELSE IF p.state = "Established" THEN Pull(p, m)
              ELSE Answer(p, <<>>, FALSE, FALSE)

(* handle, for a responder that is there or was just made: the table ps    *)
(* and the order rs are those after expire.                                *)
Serve(ps, rs, p, m) ==
  LET a == Step(p, m)
      q == [a.p EXCEPT !.last = <<m>> \o a.msg]
      accepted == \A i \in DOMAIN a.msg : a.msg[i].k # "info"
      kept == IF a.msg # <<>> /\ accepted THEN q ELSE a.p
  IN  /\ net' = net \cup {a.msg[i] : i \in DOMAIN a.msg}
      /\ peers' = IF a.keep THEN [x \in DOMAIN ps \cup {m.reg} |-> IF x = m.reg THEN kept ELSE ps[x]]
                  ELSE [x \in DOMAIN ps \ {m.reg} |-> ps[x]]
      /\ recent' = IF a.keep THEN Touch(rs, m.reg) ELSE Without(rs, m.reg)
      /\ told' = IF a.done THEN Append(told, <<m.reg, a.p.pull.teks>>) ELSE told

(* A first message from a member without a state makes one, dropping the   *)
(* least recently active when there are too many.                          *)
ServerNew(m) ==
  /\ m.to = "server" /\ m.reg \notin DOMAIN peers
  /\ m.k = "sa" /\ cookies < MaxCookies
  /\ cookies' = cookies + 1
  /\ LET full == Cardinality(DOMAIN peers) >= MaxPeers
         ps == IF full THEN [x \in DOMAIN peers \ {Head(recent)} |-> peers[x]] ELSE peers
         rs == IF full THEN Tail(recent) ELSE recent
     IN  Serve(ps, rs, [rc |-> cookies + 1, state |-> "SA", last |-> <<>>, pull |-> NoPull], m)
  /\ UNCHANGED <<group, mem>>

(* The last request again gets the reply it had; another must carry the    *)
(* responder's cookie.                                                     *)
ServerAgain(m) ==
  /\ m.to = "server" /\ m.reg \in DOMAIN peers /\ SubSeq(peers[m.reg].last, 1, 1) = <<m>>
  /\ net' = net \cup {peers[m.reg].last[2]}
  /\ recent' = Touch(recent, m.reg)
  /\ UNCHANGED <<group, mem, peers, cookies, told>>

ServerStep(m) ==
  /\ m.to = "server" /\ m.reg \in DOMAIN peers
  /\ SubSeq(peers[m.reg].last, 1, 1) # <<m>>
  /\ m.rc = peers[m.reg].rc
  /\ Serve(peers, recent, peers[m.reg], m)
  /\ UNCHANGED <<group, mem, cookies>>

(* peerTTL: a state idle for two minutes is dropped.                       *)
Forget(r) ==
  /\ r \in DOMAIN peers /\ Over(r)
  /\ peers' = [x \in DOMAIN peers \ {r} |-> peers[x]]
  /\ recent' = Without(recent, r)
  /\ UNCHANGED <<group, net, mem, cookies, told>>

Next ==
  \/ Rotate
  \/ \E r \in Regs : Register(r) \/ Timeout(r) \/ Forget(r)
  \/ \E m \in net : MemberTakes(m) \/ ServerNew(m) \/ ServerAgain(m) \/ ServerStep(m)

Spec == Init /\ [][Next]_vars

------------------------------------------------------------------------------
(* Whatever is lost, late or repeated, and however the group changes       *)
(* meanwhile: a member that registers has the keys the server recorded     *)
(* for it, a registration is recorded once, and only for a member whose    *)
(* credentials verified, that is authorised, and that had the policy       *)
(* before it proved so; and the server keeps no more phase 1 states than   *)
(* its bound (handle, pull, OnRegister).                                   *)
RegistrationAgrees ==
  /\ \A r \in Regs : mem[r].pc = "done" => \E i \in DOMAIN told : told[i] = <<r, mem[r].teks>>
  /\ \A i, j \in DOMAIN told : told[i][1] = told[j][1] => i = j
  /\ \A i \in DOMAIN told : LET r == told[i][1] IN r \in Genuine \cap Authorized /\ mem[r].policy = told[i][2]
  /\ Cardinality(DOMAIN peers) <= MaxPeers
==============================================================================
