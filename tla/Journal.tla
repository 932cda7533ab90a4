------------------------------ MODULE Journal -------------------------------
(***************************************************************************)
(* One log of the server, the log control blocks that write it             *)
(* (server/journal.go, initializeJournal of server/services_ext.go), and a *)
(* client that reads it page by page (mms/services_journal.go).  Each      *)
(* server operation runs under the model's lock and is one action; what    *)
(* interleaves with a read is everything that happens to the log between   *)
(* two of its pages.                                                       *)
(***************************************************************************)
EXTENDS Naturals, Sequences, SequencesExt, FiniteSets

CONSTANTS
  Blocks,      \* log control blocks that name the log
  Capacity,    \* entries the log retains
  TrgOpss,     \* values of TrgOps clients write: sets of "dchg" and "integrity"
  MaxEntries,  \* bound on the entries logged
  MaxTime,     \* bound on the clock
  MaxLoops     \* bound on the integrity loops of a block, stopped ones included

VARIABLES
  entries,  \* identifiers of the log's entries, oldest first
  times,    \* the time of every entry logged so far (history), by identifier
  last,     \* the entries this step logged: by which block, why (history)
  clock,    \* milliseconds
  range,    \* OldEnt and NewEnt of the blocks, 0 for none
  lcb,      \* of each block: LogEna, TrgOps, intgStop, and the loops that run
  read      \* the client's paging read

vars == <<entries, times, last, clock, range, lcb, read>>

None == 0
NoRead == [state |-> "idle", after |-> None, from |-> 0, to |-> 0,
           all |-> <<>>, present |-> {}, lost |-> {}]

Init ==
  /\ entries = <<>> /\ times = <<>> /\ last = <<>> /\ clock = 0
  /\ range = <<None, None>>
  /\ lcb = [b \in Blocks |-> [ena |-> FALSE, trg |-> {}, stop |-> None, loops |-> {}]]
  /\ read = NoRead

(* syncLocked: an empty log leaves the range as it was.                    *)
Sync(log) == range' = IF log = <<>> THEN range ELSE <<Head(log), Last(log)>>

(* The oldest past the capacity are discarded.                             *)
Trimmed(log) == IF Len(log) > Capacity
                THEN SubSeq(log, Len(log) - Capacity + 1, Len(log)) ELSE log

(* appendLocked, of an entry for each block of bs.                         *)
Append_(bs, reason) ==
  LET n == Len(times)
      log == Trimmed(entries \o [i \in 1..Len(bs) |-> n + i])
  IN /\ n + Len(bs) <= MaxEntries
     /\ entries' = log /\ Sync(log)
     /\ times' = times \o [i \in 1..Len(bs) |-> clock]
     /\ last' = [i \in 1..Len(bs) |-> <<bs[i], reason>>]

(* onUpdate: every enabled block that wants the change logs it, the blocks *)
(* in any order.                                                           *)
Update ==
  LET bs == {b \in Blocks : lcb[b].ena /\ "dchg" \in lcb[b].trg}
  IN /\ bs # {}
     /\ \E s \in SetToSeqs(bs) : Append_(s, "dchg")
     /\ UNCHANGED <<clock, lcb, read>>

(* Faulty variant: a tick of any loop logs.                                *)
IntegrityTickStale(b, t) ==
  /\ t \in lcb[b].loops
  /\ Append_(<<b>>, "integrity")
  /\ UNCHANGED <<clock, lcb, read>>

(* integrityLoop: a tick, which only the loop the block runs now logs.     *)
IntegrityTick(b, t) ==
  /\ t \in lcb[b].loops /\ lcb[b].stop = t
  /\ Append_(<<b>>, "integrity")
  /\ UNCHANGED <<clock, lcb, read>>

(* A stopped loop ends, sooner or later.                                   *)
LoopEnds(b, t) ==
  /\ t \in lcb[b].loops /\ lcb[b].stop # t
  /\ lcb' = [lcb EXCEPT ![b].loops = @ \ {t}]
  /\ last' = <<>> /\ UNCHANGED <<entries, times, clock, range, read>>

(* A write of LogEna: startLocked, which stops a running loop first, or    *)
(* stopLocked.                                                             *)
WriteLogEna(b, on) ==
  LET l == lcb[b]
      new == CHOOSE t \in 1..MaxLoops : t \notin l.loops
      start == on /\ "integrity" \in l.trg
  IN /\ start => l.loops # 1..MaxLoops
     /\ lcb' = [lcb EXCEPT ![b] =
          [l EXCEPT !.ena = on,
                    !.stop = IF start THEN new ELSE None,
                    !.loops = IF start THEN @ \cup {new} ELSE @]]
     /\ last' = <<>> /\ UNCHANGED <<entries, times, clock, range, read>>

(* A write of TrgOps, while logging is off (IntgPd is not zero).           *)
WriteConfig(b, trg) ==
  /\ ~lcb[b].ena
  /\ lcb' = [lcb EXCEPT ![b].trg = trg]
  /\ last' = <<>> /\ UNCHANGED <<entries, times, clock, range, read>>

(* What initializeJournal leaves of the log: the entries up to time t are  *)
(* deleted, no further than entry id if the log still holds that one.      *)
(* Times grow along the log, so the entries up to t are its first.         *)
Remaining(t, id) ==
  LET upTo == Len(SelectSeq(entries, LAMBDA e : times[e] <= t))
      stop == {i \in 1..upTo : entries[i] = id}
      n == IF stop = {} THEN upTo ELSE CHOOSE i \in stop : TRUE
  IN SubSeq(entries, n + 1, Len(entries))

(* Faulty variant: the blocks are not told.                                *)
InitializeJournalUntold(t, id) ==
  /\ entries' = Remaining(t, id)
  /\ last' = <<>> /\ UNCHANGED <<times, clock, range, lcb, read>>

InitializeJournal(t, id) ==
  /\ entries' = Remaining(t, id) /\ Sync(Remaining(t, id))
  /\ last' = <<>> /\ UNCHANGED <<times, clock, lcb, read>>

Clock ==
  /\ clock < MaxTime /\ clock' = clock + 1
  /\ last' = <<>> /\ UNCHANGED <<entries, times, range, lcb, read>>

-----------------------------------------------------------------------------
(* Faulty variant: the continuation ends when the log no longer holds its  *)
(* place.                                                                  *)
SelectEntriesFound(q) ==
  LET from ==
        IF q.after = None THEN SelectSeq(entries, LAMBDA e : times[e] >= q.from)
        ELSE IF q.after \in ToSet(entries) THEN SelectSeq(entries, LAMBDA e : e > q.after)
        ELSE <<>>
  IN SelectSeq(from, LAMBDA e : times[e] <= q.to)

(* selectEntries: after the entry the client has, or after its time if the *)
(* log no longer holds it; from a starting time otherwise.                 *)
SelectEntries(q) ==
  LET from ==
        IF q.after = None THEN SelectSeq(entries, LAMBDA e : times[e] >= q.from)
        ELSE IF q.after \in ToSet(entries) THEN SelectSeq(entries, LAMBDA e : e > q.after)
        ELSE SelectSeq(entries, LAMBDA e : times[e] > times[q.after])
  IN SelectSeq(from, LAMBDA e : times[e] <= q.to)

(* ReadJournalByTime, and ReadJournalAfter an entry the client once read.  *)
(* present is what the log holds of the range as the read starts.          *)
ReadByTime(from, to) ==
  /\ read.state = "idle"
  /\ read' = [NoRead EXCEPT !.state = "reading", !.from = from, !.to = to,
       !.present = {e \in ToSet(entries) : times[e] \in from..to}]
  /\ last' = <<>> /\ UNCHANGED <<entries, times, clock, range, lcb>>

ReadAfter(id) ==
  /\ read.state = "idle" /\ id \in 1..Len(times)
  /\ read' = [NoRead EXCEPT !.state = "reading", !.after = id, !.to = MaxTime,
       !.present = {e \in ToSet(entries) : e > id}]
  /\ last' = <<>> /\ UNCHANGED <<entries, times, clock, range, lcb>>

(* readJournal: the first k of the selected entries fit the PDU, at least  *)
(* one always does.                                                        *)
Fits(k, sel) == k <= Len(sel) /\ (k = 0 => sel = <<>>)

(* One round of readJournalAll: the client continues after the last entry  *)
(* of the answer if there are more.                                        *)
Page(k) ==
  LET sel == SelectEntries(read)
      got == SubSeq(sel, 1, k)
      more == k < Len(sel)
  IN /\ read.state = "reading" /\ Fits(k, sel)
     /\ read' = [read EXCEPT !.state = IF more THEN "reading" ELSE "done",
          !.after = IF more THEN Last(got) ELSE @,
          !.all = @ \o got,
          !.lost = IF read.after \in {None} \cup ToSet(entries) THEN @
                   ELSE @ \cup {read.after}]
     /\ last' = <<>> /\ UNCHANGED <<entries, times, clock, range, lcb>>

Next ==
  \/ Update \/ Clock
  \/ \E b \in Blocks :
       \/ \E t \in 1..MaxLoops : IntegrityTick(b, t) \/ LoopEnds(b, t)
       \/ \E on \in BOOLEAN : WriteLogEna(b, on)
       \/ \E trg \in TrgOpss : WriteConfig(b, trg)
  \/ \E t \in 0..MaxTime, id \in 0..Len(times) : InitializeJournal(t, id)
  \/ \E to \in 0..MaxTime : \E from \in 0..to : ReadByTime(from, to)
  \/ \E id \in 1..Len(times) : ReadAfter(id)
  \/ \E k \in 0..Capacity : Page(k)

Spec == Init /\ [][Next]_vars

-----------------------------------------------------------------------------
Increasing(s) == \A i, j \in 1..Len(s) : i < j => s[i] < s[j]

(* Every variable has its type; the log never outgrows its capacity        *)
(* (journal.go:37-48, 264-277).                                            *)
TypeOK ==
  /\ entries \in Seq(1..Len(times)) /\ Len(entries) <= Capacity
  /\ times \in Seq(0..clock) /\ clock \in 0..MaxTime
  /\ range \in (0..Len(times)) \X (0..Len(times))
  /\ \A b \in Blocks : lcb[b].stop \in lcb[b].loops \cup {None}
  /\ read.state \in {"idle", "reading", "done"} /\ read.after \in 0..Len(times)

(* The log's control blocks describe what a log that is not empty holds:   *)
(* OldEnt and NewEnt are its first and last entry (journal.go:21-24,       *)
(* 279-296), whatever was appended, discarded or deleted.                  *)
RangeDescribes == entries # <<>> => range = <<Head(entries), Last(entries)>>

(* Only an enabled block logs: a tick of an integrity loop that was        *)
(* stopped, even one waiting for the lock as it was, logs nothing          *)
(* (journal.go:321-336, 399-409).                                          *)
LoggedEnabled ==
  times' # times => \A i \in 1..Len(last') :
    LET l == lcb[last'[i][1]]
    IN l.ena /\ last'[i][2] \in l.trg

(* A paged read returns each entry once and in order, however the log      *)
(* changes between its pages, and when it ends has every entry of its      *)
(* range that the log held from its start to its end, but for those of the *)
(* same millisecond as an entry it had to continue after and the log no    *)
(* longer held (journal.go:518-569, services_journal.go:70-93).            *)
ReadComplete ==
  /\ Increasing(read.all)
  /\ read.state = "done" =>
       \A e \in read.present \cap ToSet(entries) :
         e \in ToSet(read.all) \/ \E g \in read.lost : times[e] = times[g]
=============================================================================
