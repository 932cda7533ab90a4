---------------------------- MODULE ClientControl ----------------------------
(***************************************************************************)
(* The client's side of the control model (client/control.go,              *)
(* controlreports.go): the control number a sequence of select, operate    *)
(* and cancel shares, the LastApplError a server reports ahead of a        *)
(* refusal, and the CommandTermination that concludes an enhanced operate, *)
(* matched to the caller by the Oper variable and the number alone.        *)
(*                                                                         *)
(* Commands are numbered in the order they are given.  The cause a server  *)
(* gives is the command it is about, so that what a caller is told shows   *)
(* whose diagnosis it was.  The server is external: it serves requests in  *)
(* order, may refuse with or without a diagnosis, and concludes what it    *)
(* executes at any later moment or never.                                  *)
(***************************************************************************)
EXTENDS Naturals, Sequences, FiniteSets

CONSTANTS Handles,     \* ControlObject handles
          ObjectOf,    \* the object each is a handle of
          Enhanced,    \* the handles whose model has enhanced security
          HasSelect,   \* the handles whose model selects first
          MaxCommands, \* commands given
          CtlNums      \* the values of ctlNum (256 in the code)

ClientControlAssumption ==
  /\ Enhanced \subseteq Handles /\ HasSelect \subseteq Handles
  /\ MaxCommands \in Nat \ {0} /\ CtlNums \in Nat \ {0, 1}

VARIABLES hd,      \* per handle: its sequences so far, inSeq, the command under way and where it is
          waiters, \* await: Oper variable and number -> the command waiting
          tch,     \* per command, its channel of one termination
          last,    \* per object and phase: the last diagnosis, its number and cause
          asked,   \* requests under way to the server
          queue,   \* responses and reports under way to the client
          sel,     \* external: per object, the number it was selected with
          runs,    \* external: the commands the server is executing
          verdict, \* external: per command, how it was concluded
          told,    \* per command, what its caller was told
          next,    \* the next command
          seq      \* history: the handle and the sequence each command belongs to

vars == <<hd, waiters, tch, last, asked, queue, sel, runs, verdict, told, next, seq>>

Commands == 1..MaxCommands
Objects == {ObjectOf[h] : h \in Handles}
Phases == {"SBOw", "Oper", "Cancel"}
Nums == 0..(CtlNums - 1)
None == 0

TypeOK ==
  /\ hd \in [Handles -> [num : 0..MaxCommands, inSeq : BOOLEAN, cmd : Commands \cup {None},
                         at : {"idle", "SBOw", "selected", "Oper", "Cancel", "termination"}]]
  /\ waiters \in [Objects \X Nums -> Commands \cup {None}]
  /\ \A c \in Commands : Len(tch[c]) <= 1
  /\ runs \subseteq [cmd : Commands, obj : Objects, num : Nums]

Init ==
  /\ hd = [h \in Handles |-> [num |-> 0, inSeq |-> FALSE, cmd |-> None, at |-> "idle"]]
  /\ waiters = [k \in Objects \X Nums |-> None]
  /\ tch = [c \in Commands |-> <<>>]
  /\ last = [k \in Objects \X Phases |-> [num |-> 0, cause |-> None]]
  /\ asked = <<>> /\ queue = <<>>
  /\ sel = [o \in Objects |-> [num |-> 0, cmd |-> None]]
  /\ runs = {} /\ verdict = [c \in Commands |-> "none"]
  /\ told = [c \in Commands |-> <<"none", None>>] /\ next = 1
  /\ seq = [c \in Commands |-> [h |-> None, num |-> 0]]

(* Faulty variant: every request takes a number of its own.                *)
BeginSequenceFresh(d) == d.num + 1

(* beginSequence: the first request of a sequence takes the next number,   *)
(* the following ones repeat it.  Sequences are counted without end;       *)
(* ctlNum is the count as it wraps.                                        *)
BeginSequence(d) == IF d.inSeq THEN d.num ELSE d.num + 1
CtlNum(num) == num % CtlNums

(* A request of handle h, in the phase given: begin the sequence, register *)
(* for the termination before an enhanced operate is sent, and send.       *)
Request(h, c, phase) ==
  LET q == BeginSequence(hd[h])
      n == CtlNum(q)
  IN  /\ hd' = [hd EXCEPT ![h] = [num |-> q, inSeq |-> TRUE, cmd |-> c, at |-> phase]]
      /\ seq' = [seq EXCEPT ![c] = [h |-> h, num |-> q]]
      /\ waiters' = IF phase = "Oper" /\ h \in Enhanced
                    THEN [waiters EXCEPT ![<<ObjectOf[h], n>>] = c] ELSE waiters
      /\ asked' = Append(asked, [h |-> h, cmd |-> c, phase |-> phase, num |-> n])
      /\ UNCHANGED <<tch, last, queue, sel, runs, verdict>>

(* Operate on an idle handle: models with a select start with it.          *)
Operate(h) ==
  /\ hd[h].at = "idle" /\ next <= MaxCommands
  /\ next' = next + 1
  /\ Request(h, next, IF h \in HasSelect THEN "SBOw" ELSE "Oper")
  /\ UNCHANGED told

(* Cancel of the sequence under way or, after it, as one of its own.       *)
CancelCommand(h) ==
  /\ hd[h].at = "idle" /\ next <= MaxCommands
  /\ next' = next + 1
  /\ Request(h, next, "Cancel")
  /\ UNCHANGED told

(* The request is over: the sequence ends, the registration is released.   *)
EndSequence(h, what) ==
  LET c == hd[h].cmd
  IN  /\ hd' = [hd EXCEPT ![h].inSeq = FALSE, ![h].at = "idle", ![h].cmd = None]
      /\ waiters' = [k \in DOMAIN waiters |-> IF waiters[k] = c THEN None ELSE waiters[k]]
      /\ told' = [told EXCEPT ![c] = what]

(* lastApplErrorFor: the last diagnosis of this variable, if it carries    *)
(* this number.                                                            *)
LastApplErrorFor(obj, phase, num) ==
  IF last[<<obj, phase>>].num = num THEN last[<<obj, phase>>].cause ELSE None

------------------------------------------------------------------------------
(* The reader: reports and responses in the order the server sent them.    *)

Arrives(kind) == queue # <<>> /\ Head(queue).kind = kind

(* handle: a LastApplError alone is recorded.                              *)
HandleDiagnosis ==
  /\ Arrives("diagnosis")
  /\ LET m == Head(queue) IN last' = [last EXCEPT ![<<m.obj, m.phase>>] = [num |-> m.num, cause |-> m.cmd]]
  /\ queue' = Tail(queue)
  /\ UNCHANGED <<hd, waiters, tch, asked, sel, runs, verdict, told, next, seq>>

(* Faulty variant: whoever waits on the object is told.                    *)
WaiterOfAny(m) ==
  LET on == {k \in DOMAIN waiters : k[1] = m.obj /\ waiters[k] # None}
  IN  IF on = {} THEN None ELSE waiters[CHOOSE k \in on : TRUE]

(* terminationKey: the Oper variable and the number.                       *)
WaiterOf(m) == waiters[<<m.obj, m.num>>]

(* handle: a termination goes to the command waiting for it, if the        *)
(* channel has room; a negative one is also recorded.                      *)
HandleTermination ==
  /\ Arrives("termination")
  /\ LET m == Head(queue)
         w == WaiterOf(m)
     IN  /\ last' = IF m.how = "minus" THEN [last EXCEPT ![<<m.obj, "Oper">>] = [num |-> m.num, cause |-> m.cmd]]
                    ELSE last
         /\ tch' = IF w # None /\ tch[w] = <<>> THEN [tch EXCEPT ![w] = <<[how |-> m.how, cmd |-> m.cmd]>>] ELSE tch
  /\ queue' = Tail(queue)
  /\ UNCHANGED <<hd, waiters, asked, sel, runs, verdict, told, next, seq>>

(* A response reaches the command that still waits for it: a select leads  *)
(* to its operate, an enhanced operate waits on, a refusal is explained.   *)
HandleResponse ==
  /\ Arrives("response")
  /\ queue' = Tail(queue)
  /\ LET m == Head(queue)
         h == m.h
     IN  \/ /\ hd[h].cmd = m.cmd /\ hd[h].at = m.phase /\ ~m.ok
            /\ EndSequence(h, <<"refused", LastApplErrorFor(ObjectOf[h], m.phase, CtlNum(hd[h].num))>>)
            /\ UNCHANGED <<tch, last, asked, sel, runs, verdict, next, seq>>
         \/ /\ hd[h].cmd = m.cmd /\ hd[h].at = m.phase /\ m.ok /\ m.phase = "Oper" /\ h \in Enhanced
            /\ hd' = [hd EXCEPT ![h].at = "termination"]
            /\ UNCHANGED <<waiters, tch, last, asked, sel, runs, verdict, told, next, seq>>
         \/ /\ hd[h].cmd = m.cmd /\ hd[h].at = m.phase /\ m.ok
            /\ m.phase = "Cancel" \/ (m.phase = "Oper" /\ h \notin Enhanced)
            /\ EndSequence(h, <<"ok", None>>)
            /\ UNCHANGED <<tch, last, asked, sel, runs, verdict, next, seq>>
         \/ /\ hd[h].cmd # m.cmd \/ hd[h].at # m.phase
            /\ UNCHANGED <<hd, waiters, tch, last, asked, sel, runs, verdict, told, next, seq>>
         \/ /\ hd[h].cmd = m.cmd /\ hd[h].at = m.phase /\ m.ok /\ m.phase = "SBOw"
            /\ hd' = [hd EXCEPT ![h].at = "selected"]
            /\ UNCHANGED <<waiters, tch, last, asked, sel, runs, verdict, told, next, seq>>

(* doOperate of a command whose select succeeded; or the caller keeps the  *)
(* selection, and its next request belongs to the same sequence.           *)
OperateSelected(h) ==
  /\ hd[h].at = "selected"
  /\ Request(h, hd[h].cmd, "Oper")
  /\ UNCHANGED <<told, next>>

KeepSelected(h) ==
  /\ hd[h].at = "selected"
  /\ told' = [told EXCEPT ![hd[h].cmd] = <<"ok", None>>]
  /\ hd' = [hd EXCEPT ![h].at = "idle", ![h].cmd = None]
  /\ UNCHANGED <<waiters, tch, last, asked, queue, sel, runs, verdict, next, seq>>

(* The termination arrived.                                                *)
Terminated(h) ==
  /\ hd[h].at = "termination" /\ tch[hd[h].cmd] # <<>>
  /\ LET t == Head(tch[hd[h].cmd]) IN EndSequence(h, <<t.how, t.cmd>>)
  /\ UNCHANGED <<tch, last, asked, queue, sel, runs, verdict, next, seq>>

(* The context ends, or TerminationTimeout passes.                         *)
TimeOut(h) ==
  /\ hd[h].at \notin {"idle", "selected"}
  /\ EndSequence(h, <<"context", None>>)
  /\ UNCHANGED <<tch, last, asked, queue, sel, runs, verdict, next, seq>>

------------------------------------------------------------------------------
(* The server.                                                             *)

Response(r, ok) == [kind |-> "response", h |-> r.h, cmd |-> r.cmd, phase |-> r.phase, num |-> r.num, ok |-> ok]

Accept ==
  LET r == Head(asked)
      o == ObjectOf[r.h]
  IN  /\ asked # <<>>
      /\ asked' = Tail(asked)
      /\ queue' = Append(queue, Response(r, TRUE))
      /\ sel' = IF r.phase = "SBOw" THEN [sel EXCEPT ![o] = [num |-> r.num, cmd |-> r.cmd]] ELSE sel
      /\ runs' = IF r.phase = "Oper" /\ r.h \in Enhanced THEN runs \cup {[cmd |-> r.cmd, obj |-> o, num |-> r.num]}
                 ELSE runs
      /\ UNCHANGED <<hd, waiters, tch, last, verdict, told, next, seq>>

Refuse(explained) ==
  LET r == Head(asked)
  IN  /\ asked # <<>>
      /\ asked' = Tail(asked)
      /\ queue' = queue
           \o (IF explained THEN <<[kind |-> "diagnosis", obj |-> ObjectOf[r.h], phase |-> r.phase, num |-> r.num, cmd |-> r.cmd]>>
               ELSE <<>>)
           \o <<Response(r, FALSE)>>
      /\ UNCHANGED <<hd, waiters, tch, last, sel, runs, verdict, told, next, seq>>

Conclude(x, how) ==
  /\ runs' = runs \ {x}
  /\ verdict' = [verdict EXCEPT ![x.cmd] = how]
  /\ queue' = Append(queue, [kind |-> "termination", obj |-> x.obj, num |-> x.num, cmd |-> x.cmd, how |-> how])
  /\ UNCHANGED <<hd, waiters, tch, last, asked, sel, told, next, seq>>

Next ==
  \/ \E h \in Handles : Operate(h) \/ CancelCommand(h) \/ OperateSelected(h) \/ KeepSelected(h) \/ Terminated(h) \/ TimeOut(h)
  \/ HandleDiagnosis \/ HandleTermination \/ HandleResponse
  \/ Accept
  \/ \E explained \in BOOLEAN : Refuse(explained)
  \/ \E x \in runs, how \in {"plus", "minus"} : Conclude(x, how)

Spec == Init /\ [][Next]_vars

------------------------------------------------------------------------------
(* A whole turn of ctlNum, or several, lies between an earlier command of  *)
(* the handle and this one.                                                *)
TurnsApart(c, d) ==
  /\ seq[d].h = seq[c].h /\ seq[d].num < seq[c].num
  /\ CtlNum(seq[d].num) = CtlNum(seq[c].num)

(* What a caller is told of a command is about that command: a positive or *)
(* negative termination is the one the server sent for it, a cause is its  *)
(* own or unknown, although a late termination or diagnosis of an earlier  *)
(* command, whose caller has left, may arrive while it waits; and an       *)
(* operate carries the number its select was made with (terminationKey,    *)
(* lastApplErrorFor, beginSequence).  The exception is a command of the    *)
(* same handle whole turns of ctlNum earlier, which nothing tells apart:   *)
(* a late termination of it is taken, and its diagnosis, which is never    *)
(* cleared, explains a refusal that comes without one.                     *)
OwnVerdict ==
  /\ \A c \in Commands :
       LET about == told[c][2]
       IN  /\ told[c][1] \in {"plus", "minus"} =>
                (about = c \/ TurnsApart(c, about)) /\ verdict[about] = told[c][1]
           /\ told[c][1] = "refused" => about \in {None, c} \/ TurnsApart(c, about)
  /\ \A i \in 1..Len(asked) :
       LET r == asked[i]
           s == sel[ObjectOf[r.h]]
       IN  r.phase = "Oper" /\ s.cmd = r.cmd => s.num = r.num
==============================================================================
