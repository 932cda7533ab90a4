------------------------------ MODULE GroupKeys ------------------------------
(***************************************************************************)
(* Group keys over time: the key server's Group (gdoi/server.go) with its  *)
(* TEKs, and Members (gdoi/keeper.go) that register, install each TEK when *)
(* its activation delay has passed, choose the one sent with, and remove   *)
(* keys that expire or are no longer listed.  The exchange that carries a  *)
(* registration is in KeyPull; here it is a snapshot that arrives later,   *)
(* or a failure.                                                           *)
(*                                                                         *)
(* Time is counted in ticks, Second of them to a second; durations go on   *)
(* the wire in whole seconds, rounded up.  A timer fires when it is due    *)
(* and its callback then waits for the member's lock, so it may run after  *)
(* whatever else holds the lock at that tick, and can no longer be         *)
(* stopped.                                                                *)
(***************************************************************************)
EXTENDS Integers, FiniteSets

CONSTANTS Members,
          SPIs,          \* key identifiers
          Unsupported,   \* those whose algorithms the session layer lacks
          Policies,      \* <<activation delay, lifetime>> pairs in ticks; lifetime 0 never expires
          Second,
          Refresh,       \* longest time between registrations, in ticks
          Latency,       \* ticks from the snapshot to the end of a registration
          MaxTime,       \* bound on the clock
          MaxFailures    \* bound on failed registrations

GroupKeysAssumption ==
  /\ Unsupported \subseteq SPIs /\ 0 \notin SPIs
  /\ Second \in Nat \ {0} /\ Refresh \in Nat \ {0} /\ Latency \in Nat /\ MaxTime \in Nat /\ MaxFailures \in Nat
  /\ Policies \subseteq Nat \X Nat

VARIABLES now,
          group,     \* the TEKs of the group: SPI -> [activates, expires]
          used,      \* SPIs ever added: NewTEK draws a fresh one
          known,     \* each member's keys: SPI -> [activates, expires, added, active]
          store,     \* each member's rsession.KeyStore: [keys, active]
          timers,    \* armed or fired timers: [m, spi, does, at, fired]
          reg,       \* where each member's Run is: [pc, at, backoff, teks]
          failures

vars == <<now, group, used, known, store, timers, reg, failures>>

Never == -1
Least(a, b) == IF a < b THEN a ELSE b
Most(a, b) == IF a > b THEN a ELSE b
Without(f, x) == [y \in DOMAIN f \ {x} |-> f[y]]
With(f, x, v) == [y \in DOMAIN f \cup {x} |-> IF y = x THEN v ELSE f[y]]
Empty == [x \in {} |-> 0]

Init ==
  /\ now = 0 /\ group = Empty /\ used = {} /\ timers = {} /\ failures = 0
  /\ known = [m \in Members |-> Empty]
  /\ store = [m \in Members |-> [keys |-> {}, active |-> 0]]
  /\ reg = [m \in Members |-> [pc |-> "due", at |-> 0, backoff |-> Second, teks |-> Empty]]

------------------------------------------------------------------------------
(* The key server.                                                         *)

(* Group.Add: the delay and the lifetime count from now.                   *)
Add(spi, delay, life) ==
  /\ spi \notin used
  /\ used' = used \cup {spi}
  /\ group' = With(group, spi, [activates |-> now + delay, expires |-> IF life > 0 THEN now + life ELSE Never])
  /\ UNCHANGED <<now, known, store, timers, reg, failures>>

Remove(spi) ==
  /\ spi \in DOMAIN group
  /\ group' = Without(group, spi)
  /\ UNCHANGED <<now, used, known, store, timers, reg, failures>>

(* seconds: a duration as it goes on the wire.                             *)
Seconds(d) == IF d <= 0 THEN 0 ELSE ((d + Second - 1) \div Second) * Second

(* Group.snapshot: the TEKs still valid, with what is left of their delay  *)
(* and lifetime; a lifetime of 0 does not expire.                          *)
Valid(g) == {s \in DOMAIN g : g[s].expires = Never \/ now < g[s].expires}
Snapshot ==
  [s \in Valid(group) |->
    [delay |-> Most(0, group[s].activates - now),
     life  |-> IF group[s].expires = Never THEN 0 ELSE group[s].expires - now]]

(* satBody, parseSAT: the policy as the member reads it.                   *)
Sent(teks) == [s \in DOMAIN teks |-> [delay |-> Seconds(teks[s].delay), life |-> Seconds(teks[s].life)]]

------------------------------------------------------------------------------
(* The member's lock: what runs under it.                                  *)

(* chooseActiveLocked: the most recently activated of the keys added, the  *)
(* longest-lived on a tie; the map's order settles what is left.           *)
LaterExpiry(a, b) == IF a = Never THEN b # Never ELSE b # Never /\ a > b
Better(k, a, b) ==
  k[a].activates > k[b].activates \/ (k[a].activates = k[b].activates /\ LaterExpiry(k[a].expires, k[b].expires))
Best(k) == {s \in DOMAIN k : k[s].added /\ \A t \in DOMAIN k : k[t].added => ~Better(k, t, s)}

(* The pairs of keys and store that choosing may leave.                    *)
Chosen(k, st) ==
  IF Best(k) = {} THEN {<<[s \in DOMAIN k |-> [k[s] EXCEPT !.active = FALSE]], st>>}
  ELSE {<<[s \in DOMAIN k |-> [k[s] EXCEPT !.active = (s = b)]],
          IF b \in st.keys THEN [st EXCEPT !.active = b] ELSE st>> : b \in Best(k)}

(* removeLocked: keys, store and timers without spi.  A timer that has     *)
(* fired is not stopped.                                                   *)
StoreWithout(st, spi) == [keys |-> st.keys \ {spi}, active |-> IF st.active = spi THEN 0 ELSE st.active]
Stopped(ts, m, spi) == {t \in ts : ~(t.m = m /\ t.spi = spi /\ ~t.fired)}

(* Faulty variant: the key is dropped from the member but the store keeps  *)
(* it when it is not the active one.                                       *)
RemovalsKeeping(k, st, spi) ==
  IF spi \notin DOMAIN k THEN {<<k, st>>}
  ELSE IF k[spi].added /\ k[spi].active THEN Chosen(Without(k, spi), StoreWithout(st, spi))
  ELSE {<<Without(k, spi), st>>}

Removals(k, st, spi) ==
  IF spi \notin DOMAIN k THEN {<<k, st>>}
  ELSE IF k[spi].added /\ k[spi].active THEN Chosen(Without(k, spi), StoreWithout(st, spi))
  ELSE IF k[spi].added THEN {<<Without(k, spi), StoreWithout(st, spi)>>}
  ELSE {<<Without(k, spi), st>>}

(* activate, the callback of an activation timer.                          *)
Activations(k, st, spi) ==
  IF spi \notin DOMAIN k \/ (spi \in DOMAIN k /\ k[spi].added) THEN {<<k, st>>}
  ELSE Chosen([k EXCEPT ![spi].added = TRUE], [st EXCEPT !.keys = @ \cup {spi}])

------------------------------------------------------------------------------
(* Timers.                                                                 *)

Fire(t) ==
  /\ t \in timers /\ ~t.fired /\ t.at <= now
  /\ timers' = (timers \ {t}) \cup {[t EXCEPT !.fired = TRUE]}
  /\ UNCHANGED <<now, group, used, known, store, reg, failures>>

Callback(t) ==
  /\ t \in timers /\ t.fired
  /\ \E r \in IF t.does = "activate" THEN Activations(known[t.m], store[t.m], t.spi)
                                     ELSE Removals(known[t.m], store[t.m], t.spi) :
       known' = [known EXCEPT ![t.m] = r[1]] /\ store' = [store EXCEPT ![t.m] = r[2]]
  /\ timers' = LET ts == timers \ {t} IN IF t.does = "remove" THEN Stopped(ts, t.m, t.spi) ELSE ts
  /\ UNCHANGED <<now, group, used, reg, failures>>

------------------------------------------------------------------------------
(* Run.                                                                    *)

(* A registration that reaches the key server: the group's keys are those  *)
(* of the pull's first message.                                            *)
Ask(m) ==
  /\ reg[m].pc = "due" /\ reg[m].at <= now /\ Valid(group) # {}
  /\ reg' = [reg EXCEPT ![m] = [@ EXCEPT !.pc = "asked", !.at = now + Latency, !.teks = Sent(Snapshot)]]
  /\ group' = [s \in Valid(group) |-> group[s]]
  /\ UNCHANGED <<now, used, known, store, timers, failures>>

(* It fails: no answer, a refusal, or a group without keys.  The keys stay *)
(* and the member tries again, later each time.                            *)
RegisterFails(m) ==
  /\ reg[m].pc \in {"due", "asked"} /\ (reg[m].pc = "due" => reg[m].at <= now)
  /\ failures < MaxFailures /\ failures' = failures + 1
  /\ reg' = [reg EXCEPT ![m] = [pc |-> "due", at |-> now + @.backoff, teks |-> Empty,
                                backoff |-> Least(2 * @.backoff, Least(Refresh, 60 * Second))]]
  /\ UNCHANGED <<now, group, used, known, store, timers>>

(* nextRegistration: after Refresh, or once a TEK has a tenth of its       *)
(* lifetime left.                                                          *)
NextRegistration(teks) ==
  LET waits == {Refresh} \cup {Most(Second, (teks[s].life * 9) \div 10) : s \in {x \in DOMAIN teks : teks[x].life > 0}}
  IN  CHOOSE w \in waits : \A x \in waits : w <= x

(* Install: new keys are known from now on and given an activation timer;  *)
(* every key listed has its expiry set anew; the keys no longer listed     *)
(* are removed.                                                            *)
Listed(m) == DOMAIN reg[m].teks \ Unsupported
InstalledKeys(m) ==
  [s \in DOMAIN known[m] \cup Listed(m) |->
    LET t == reg[m].teks[s]
        e == IF t.life > 0 THEN now + t.life ELSE Never
    IN  IF s \notin Listed(m) THEN known[m][s]
        ELSE IF s \in DOMAIN known[m] THEN [known[m][s] EXCEPT !.expires = e]
        ELSE [activates |-> now + t.delay, expires |-> e, added |-> FALSE, active |-> FALSE]]

InstalledTimers(m) ==
  {t \in timers : ~(t.m = m /\ t.spi \in Listed(m) /\ t.does = "remove" /\ ~t.fired)}
  \cup {[m |-> m, spi |-> s, does |-> "activate", at |-> now + reg[m].teks[s].delay, fired |-> FALSE]
          : s \in Listed(m) \ DOMAIN known[m]}
  \cup {[m |-> m, spi |-> s, does |-> "remove", at |-> now + reg[m].teks[s].life, fired |-> FALSE]
          : s \in {x \in Listed(m) : reg[m].teks[x].life > 0}}

(* Several removals in turn, in the map's order: the result is that of     *)
(* dropping the keys and choosing again if the active one was among them.  *)
Dropped(k, st, gone) ==
  LET k2 == [s \in DOMAIN k \ gone |-> k[s]]
      s2 == [keys |-> st.keys \ {s \in gone : k[s].added}, active |-> IF st.active \in gone THEN 0 ELSE st.active]
  IN  IF \E s \in gone \cap DOMAIN k : k[s].active THEN Chosen(k2, s2) ELSE {<<k2, s2>>}

(* Faulty variant: the expiry of a key already known is left as it was,    *)
(* and its timer is stopped all the same.                                  *)
InstallUntimed(m) ==
  /\ reg[m].pc = "asked" /\ reg[m].at <= now
  /\ LET unlisted == DOMAIN known[m] \ DOMAIN reg[m].teks
         ts == {t \in InstalledTimers(m) : t.m = m /\ t.does = "remove" /\ t.spi \in DOMAIN known[m] => t \in timers /\ t.fired}
     IN  /\ \E r \in Dropped(InstalledKeys(m), store[m], unlisted) :
              known' = [known EXCEPT ![m] = r[1]] /\ store' = [store EXCEPT ![m] = r[2]]
         /\ timers' = {t \in ts : ~(t.m = m /\ t.spi \in unlisted /\ ~t.fired)}
  /\ reg' = [reg EXCEPT ![m] = [pc |-> "due", at |-> now + NextRegistration(@.teks), backoff |-> Second, teks |-> Empty]]
  /\ UNCHANGED <<now, group, used, failures>>

Install(m) ==
  /\ reg[m].pc = "asked" /\ reg[m].at <= now
  /\ LET unlisted == DOMAIN known[m] \ DOMAIN reg[m].teks
     IN  /\ \E r \in Dropped(InstalledKeys(m), store[m], unlisted) :
              known' = [known EXCEPT ![m] = r[1]] /\ store' = [store EXCEPT ![m] = r[2]]
         /\ timers' = {t \in InstalledTimers(m) : ~(t.m = m /\ t.spi \in unlisted /\ ~t.fired)}
  /\ reg' = [reg EXCEPT ![m] = [pc |-> "due", at |-> now + NextRegistration(@.teks), backoff |-> Second, teks |-> Empty]]
  /\ UNCHANGED <<now, group, used, failures>>

(* The context ends: Run returns and removes every key it installed.       *)
RunEnds(m) ==
  /\ reg[m].pc # "ended"
  /\ reg' = [reg EXCEPT ![m] = [pc |-> "ended", at |-> 0, backoff |-> Second, teks |-> Empty]]
  /\ \E r \in Dropped(known[m], store[m], DOMAIN known[m]) :
       known' = [known EXCEPT ![m] = r[1]] /\ store' = [store EXCEPT ![m] = r[2]]
  /\ timers' = {t \in timers : t.m # m \/ t.fired}
  /\ UNCHANGED <<now, group, used, failures>>

(* Time passes; nothing that is due is put off.                            *)
Tick ==
  /\ now < MaxTime
  /\ \A t \in timers : ~t.fired /\ t.at > now
  /\ \A m \in Members : reg[m].pc = "ended" \/ reg[m].at > now \/ (reg[m].pc = "due" /\ Valid(group) = {} /\ failures = MaxFailures)
  /\ now' = now + 1
  /\ UNCHANGED <<group, used, known, store, timers, reg, failures>>

Next ==
  \/ \E s \in SPIs, p \in Policies : Add(s, p[1], p[2])
  \/ \E s \in SPIs : Remove(s)
  \/ \E t \in timers : Fire(t) \/ Callback(t)
  \/ \E m \in Members : Ask(m) \/ RegisterFails(m) \/ Install(m) \/ RunEnds(m)
  \/ Tick

Spec == Init /\ [][Next]_vars

------------------------------------------------------------------------------
(* The member's keys and its key store agree: the store holds the keys     *)
(* the member has added and no others, the key sent with is one of them    *)
(* and the most recently activated, there is one as soon as there is a     *)
(* key, and after Run has returned there is none, whatever callbacks were  *)
(* still waiting for the lock (Member, activate, remove, removeAll).       *)
StoreFollows ==
  \A m \in Members :
    LET added == {s \in DOMAIN known[m] : known[m][s].added}
    IN  /\ store[m].keys = added
        /\ store[m].active \in IF added = {} THEN {0} ELSE Best(known[m])
        /\ reg[m].pc = "ended" => added = {}

(* No key outlives its lifetime: one with an expiry has a timer that will  *)
(* remove it then, through every re-registration, and it is in the store   *)
(* past its expiry only while its removal waits for the lock (Install,     *)
(* which stops a timer and arms another).                                  *)
EndIsTimed ==
  \A m \in Members : \A s \in DOMAIN known[m] : known[m][s].expires # Never =>
    \E t \in timers : t.m = m /\ t.spi = s /\ t.does = "remove" /\ (t.fired \/ t.at = known[m][s].expires)

(* A key a publisher sends with is held by every member that has it from   *)
(* the key server, once no timer is due: a key change adds the new key     *)
(* everywhere, makes it active at the publisher, then removes the old one  *)
(* (rsession/doc.go).                                                      *)
ReceiversHold ==
  (\A t \in timers : ~t.fired /\ t.at > now) =>
    \A p, m \in Members :
      store[p].active # 0 /\ store[p].active \in DOMAIN known[m] => store[p].active \in store[m].keys
==============================================================================
