# A TLA+ model of go-iec61850

This directory models the parts of the library where several goroutines, timers,
clients or messages meet, and the conversions between the two ends of a protocol. TLC
checks the models on small instances; TLAPS proves the central results for every instance.
Every definition is taken from the code; `PROJECT.json` maps it to the lines it stands for.

## 1. The system

| Part | State | Operations | What makes it hard | Modelled by |
|---|---|---|---|---|
| Report control blocks (`server/reporting.go`, `rcb.go`) | attributes, subscriber, reservation, buffer and send index, open window, SqNum, timers | writes of each attribute, updates, integrity ticks, timer callbacks, connect, disconnect | stale callbacks, buffer at its limit, reservations across disconnections, refused sends | `ReportControl` |
| Reports on the wire (`server/reporting.go`, `client/report.go`) | segments under way | lay out, segment, decode | a decoder led by position alone | `ReportFormat` |
| Server association (`mms/server_conn.go`, `server_ext.go`) | request in hand, held PDUs, queue, deferred requests | receive, handle, respond, hold, enqueue, pump, defer, call, cancel, close | order of response, LastApplError, reports and terminations; queue full; cancel against answer | `ServerConn` |
| Client association (`mms/conn.go`, `client_ext.go`) | pending requests, write lock, reader, closer | start, write, wait, cancel, deliver, close, abort, fail | failure against registration, contexts against responses | `ClientConn` |
| Association set-up (`mms/conn.go`, `server_conn.go`, `pdu.go`, `internal/osi`) | the two ends' progress, PDUs, deadline | COTP, session, presentation, ACSE, initiate, first data | length forms, segments, chosen context numbers, time limits against completion | `Establishment` |
| Control service (`server/control.go`, `select.go`) | selection, running operate, its termination | select, operate, cancel, finish, expiry, disconnect | expiry against operate, racing terminations | `Control`, `SelectBeforeOperate` |
| Client control (`client/control.go`, `controlreports.go`) | sequence number, waiters, last diagnosis | select, operate, cancel, wait | diagnoses and terminations of an earlier command | `ClientControl` |
| Client reporting (`client/report.go`, `mms/report.go`) | progress of a subscription, handlers | enable, disable, deliver | reports before the enabling returns, another client between two writes | `ClientReports` |
| Logs (`server/journal.go`, `mms/services_journal.go`) | entries, blocks and their loops | log, integrity tick, delete, paged read | log changes between pages, stale loops | `Journal` |
| Setting groups (`server/settinggroup.go`, `handler.go`) | groups, edit buffer, active group | select, edit, confirm, multi-item write | an edit buffer without an owner, partial writes | `SettingGroups` |
| Data sets and names (`server/handler.go`, `services_ext.go`) | data sets, blocks that use them | define, delete, list by pages | deletion of what is in use, names that go while listed | `DataSets` |
| Data model (`server/access.go`, `client/directory.go`, `client/model.go`) | tree, names, types | list, describe, read, retrieve | three walks over one tree have to agree | `DataModel` |
| Files (`server/file.go`, `services_ext.go`, `mms/services_file.go`, `client_ext.go`) | directory, running SetFiles, positions | SetFile, delete, rename, list; open, read | existence checked before a deferred transfer; pages and chunks while files change; a transfer its caller left | `FileStore`, `FileTransfer`, `ObtainFile` |
| Life of associations, sampled-value control blocks (`server/server.go`, `svcb.go`) | connections, slots, owner, changes to tell | accept, serve, write, release, flush, close | close against handshake, several goroutines telling the application | `Associations` |
| Service tracking (`server/tracking.go`) | tracking objects, the lock | record, copy, report | a termination recorded by a goroutine of its own | `ServiceTracking` |
| GOOSE (`goose/`) | counters, running loops; sequence state, timers | publish, refresh, retransmit, close; receive, expire, stop | loss, rollover, superseded loops and timers | `Goose` |
| Sampled values (`sv/`) | count, samples of a frame, identity | tick, emit, receive, stop | wrap of the count, stop against a frame being read | `SampledValues` |
| Routable sessions (`rsession/`) | keys, numbers, replay windows, readers | send, receive, change keys | edges of the window, keys that change between choice and use | `RSession` |
| Group keys (`gdoi/`) | exchanges, keys and their timers | register, retransmit, install, expire | loss and duplication, timers against failing registrations | `KeyPull`, `GroupKeys` |
| End-to-end security (`iec62351/e2e`, `mms/secure.go`, `transport.go`) | states, identifiers, keys, times | handshake, seal, open, rekey, release, abort | identifiers shared by associations, rekeying by both ends | `E2EHandshake`, `E2EAssociation` |
| Codecs (`asn1`, `mms/value*.go`, `typespec.go`, `altaccess.go`) | none | encode, decode, size | lengths, widths and limits | `Ber`, `MmsValue`, `MmsData` |
| SCL, TLS, certificates, A-profile files, commands, examples | none of their own | | | not modelled (section 7) |

`PROJECT.json` lists the same parts with their files, and the hazards of the code at the
lines where they bite, with the properties that would catch them.

## 2. The modules

One action is what the code does between two points where another goroutine can step in: a
lock region, a channel operation, a write to the transport. Names of definitions are the code's.

### The server

**ReportControl.** One report control block, buffered or not (`Buffered`), its clients and the
leaves of its data set. `rs` holds the fields of `rcbState` that reporting uses (enabled, conn, sqNum,
buffer, next, bufOverflow, the pending window and its timer, integrity loops), `rv` the reservation
(owner, resvIP, the timer field, callbacks that may still run, the attributes that show it),
`attr` the attributes a client writes. There is one action for each attribute write, with
`checkRCBWrite` as its guard and the whole of `onRCBWrite` as its effect, one for an update of the
model, one for each callback, and `Connect` and `Disconnect`. A timer that was stopped after it fired
still runs its function later, which is what the `...Cbs` sets and the running loops are for. A
transmission is accepted or refused, which `\E acc` chooses, since the queue belongs to `ServerConn`. Two
history fields, `sent` and `due`, record what was transmitted and what was due next.

**ReportFormat.** A report as `reportPDUs` lays it out and cuts it, and as `decodeReport` reads it. A
field is a pair of its kind and its value, and the decoder looks at values only, so a field read
at the wrong place shows. Sizes are units per field and member.

**ServerConn.** The goroutines of one association: the serving loop (receive, handle,
`endRequest`, PDUs before the response, response, queueing of the held PDUs), the goroutines of deferred
requests, senders of reports and terminations, the pump of the queue, and `Close`. `wire` is what the
client receives. The handler's decision, the application and the client are free choices. A client
uses an invoke identifier again only after it has the answer (`Reuse`).

**SelectBeforeOperate, Control.** The first says what IEC 61850-7-2 promises: an object has at most
one holder, and an operate is granted to the holder that repeats the number of its select, executes once,
and ends the selection. `Control` is the code: `reserve`, `checkSelection`, `checkCancel`, the
operate from its checks to the handler's return, deferred terminations, `operTimeout`, expiry at any
moment, clients that connect and leave. `ImplementsSBO` is the refinement: the holder is the connection
whose selection has not expired, and the operates granted and executed are read off `ops` and `busy`.
An operate that the handler deferred and then refused may still be finished by the application, in vain. Only
a finish before its own handler refuses is left out, which `control.go:336-338` asks the application not to do.

**Journal.** One log that several control blocks write, its capacity, `InitializeJournal`, the
integrity loops, and a client that reads page by page (`readJournalAll`). Entries may share a
millisecond, which is the precision the protocol has.

**SettingGroups.** The setting groups and the write service. A request is a sequence of items
applied under the model lock, so it is one step, but its items succeed and fail one by one: a
refused one is skipped, an undecodable one ends the request and fails it, and what was stored before
stays and is reported. The document may declare an active group, none, or one the device does not have, and
give any of the groups values (`Declared`, `Served`); `applied` says whether the active group's values are the served ones yet.

**DataSets, FileStore, FileTransfer, ObtainFile.** Data sets, the report and log control blocks that refer to them
(the latter may be enabled by the configuration, whatever they name) and a listing by pages; a file store without a lock, as the code has none, in which SetFile checks, creates
and on failure removes its destination; the positions of a download of a file that may grow and of a SetFile
up to the limit; and SetFile from both ends, in which the client serves its source while the
server's deferred request reads it and the caller may leave.

**Associations.** Each connection's goroutine from `Accept` over the slot, the handshake and the
entry among the open associations to the deferred clean-up, with `Close` in its two parts. A unicast
sampled-value control block is reserved, enabled and freed by them; its changes are queued under the model
lock and told by whichever goroutine holds `svDeliver`.

**ServiceTracking.** The tracking objects `buildTracker` finds, and the records that writes of control
blocks, control services, reads of SBO and terminations leave in them. `mu` is the model lock: a
request holds it over its items, a deferred termination takes it by itself. `blk` is what decides whether a
write of RptEna or Resv is allowed: the holder of the block and whether it is enabled.

**DataModel.** The three walks of `access.go` over a logical device (names, types, values) and the client
that rebuilds the device from the first two. `Models` is a set of small devices; each is an initial state. An
attribute may have a type the library does not know, which is described and has no value.

### The client and the connection

**ClientConn.** Requests with `StartContext`, the write lock, the wait for a result, `Cancel`, `Close`
and `Abort`, and the reader with `deliver`, `deliverCancel` and `failAll`. A context may end at any
moment or never. The server is external: it answers what it has received, in any order, or is lost.

**ClientControl.** `Operate`, `Select` and `Cancel` with the shared control number, `handle` for what
arrives, and waiters found by object and number. The cause a server gives is the command it is about,
so that what a caller is told shows whose diagnosis it was. A handle counts its sequences, and the number on the
wire is the count modulo `CtlNums` (256 in the code), so that it comes round again.

**ClientReports.** `EnableReporting` and `Disable` as the sequence of writes they are, against the
block's rules, for two clients on one block, with reports arriving between responses. The context of a call
may end during each write, which the server still performs, and between two, when the second is not sent;
`left` is the history of what such a call may have left behind.

**Establishment.** `Dial` against `AcceptConnOpts` from COTP to the initiate response and one data PDU
each way. `Configs` is a set of configurations; each is an initial state. Lengths are octet counts,
because segments and length indicators depend on them. The dialling context, its `AfterFunc` and
the transport's deadline are variables, so that a limit can expire at every point.

**E2EHandshake, E2EAssociation.** The handshake of several connections that share identifiers and
replay caches, through every way an association ends; and one association's sealed PDUs with clocks that
differ, keys that change on either side's request, release and abort. Cryptography is a field: a PDU
has the first flaw its checks would find, a key is the chain of values it was derived from.

**Ber, MmsValue, MmsData.** The codecs as operators on octets, checked on what MMS sends: an item is
encoded, perhaps re-encoded with indefinite lengths or cut short, and decoded. Integers have up to four octets and
lengths up to three, which is what TLC's own integers hold. They use recursion and are only model-checked.

### Publishers, subscribers and keys

**Goose.** A publisher, its retransmission loops, a segment that may lose frames, and a supervised
subscription. A state announced has an `epoch`, which is also its loop's identity. A frame that could
not be sent is in `net` marked so, and can only be lost. A supervision timer is armed, its callback
started (`Expire`), checked under the lock (`Check`) and run (`Report`), with messages handled between.

**SampledValues.** `Run` with its ticker, sample buffer and counter, `emit` one ASDU at a time with the
identity read for each, the codec with its optional fields, a wire that loses frames, and the
subscriber's goroutine from reading a frame to the callback.

**RSession.** A publisher's and a receiver's key stores, senders that read the active key before they
take the send lock, datagrams that are lost, repeated, late or damaged, the replay window per key, and readers
that share the frames of one SPDU.

**KeyPull, GroupKeys.** Registrations as messages over a network that keeps every one of them, with the
server's tables; and the life of keys at a member, where a registration is a snapshot that arrives
later or fails, and every timer's callback waits for the lock.

### MC modules

`MCReportControl`, `MCServerConn` and `MCGoose` give one module its sets. `MCReporting`, `MCAssociation`,
`MCClient`, `MCServerData` and `MCSecure` compose several side by side: the first state chooses which
part runs and the others rest, since they share no state that the properties see, so one run checks them
all and the state spaces add up. `MCServerData` extends its parts; the others instantiate some of theirs, and
state the assumptions on the constants of those. The constants of
`MCAssociation` and `MCServerData` are those of the parts, so that what is proved of them holds for every value of them. A weak
fairness condition on a disjunction of actions of different parts is fairness of the one that belongs to
the running part.

Operators that the comments call faulty variants are what a plausible mistake in the code would be;
replacing the definition by its variant makes a run fail, which shows that the property can.

## 3. The runs

| Run | Checks | Bounds and why they suffice |
|---|---|---|
| `reporting` | `TypeOK`, `NoSilentGap`, `ReportsDecode`, `LogRead`, `SettingsServed` | A buffer of 2 and up to 6 reports: every entry is discarded sent and unsent; one client that leaves and returns. All combinations of the nine optional fields of a report of three members that differ in size, with PDUs that hold one, two or all. Two blocks and a log of 2 with 3 entries, read in single-entry pages. Two groups, one editable and one fixed setting, requests of two items; no group declared active, the second, and one there is not. |
| `brcb_window` | `ReportsCurrent`, `WindowCloses`, `NothingOverwritten` | Two members, 3 updates, 2 timer identities: a window meets a change of the same and of another member, and a stale callback. A buffer of 2 and up to 4 reports, so that it is full; SqNum has two values, so that the third report of an enabling wraps it. |
| `association` | `SubscriberHolds`, `NoTakeover`, `NoStaleTimer`, `ImplementsSBO`, `EndsOnce`, `WaitsEnd` | Two clients of two addresses and ResvTms 0 and 1: a callback of the first timer runs during the second reservation. Integrity loops on and off with 3 reports: a loop ticks late while the block is disabled and while a newer loop runs. Two clients, two control numbers, two operates, each control model. One request and one Cancel under end-to-end security, with Close or Abort. A rekey asked for by either end. |
| `client` | `ConfiguredStands`, `SubscriptionWhole`, `NothingOrphaned`, `OwnVerdict`, `ModelMirrored`, `DecodesAsSent`, `TrackedAsRun` | An unbuffered block reserved by configuration for one of two clients, the other of unknown address. Two clients and three enablings of one unbuffered block. Two requests and a Cancel. Two control objects, one with enhanced security, three commands, control numbers modulo 2, so that the third may carry the number of the first. Every device of two logical nodes whose object has up to two attributes and two sub-objects. Integers, lengths, tags and types on both sides of each change of form, lengths up to 65,536, cut short within the first 300 octets and before the last. Two clients, two devices with tracking objects that the other one lacks. |
| `conn_order` | `ReportsKept`, `Delivered` | Two requests, two reports, a queue of one, so that it is full. |
| `conn_deferred` | `AnsweredOnce`, `Served` | Two requests of any kind, one of which may take the other's identifier, with cancels and calls. |
| `server_data` | `DataSetsServed`, `TransferWhole`, `AssociationsCounted`, `FilesServed`, `ClosesAll` | Four data set names with pages of one, two dynamic ones at most, a report and a log control block; two file names and two clients, each with a SetFile and a rename; files of up to 5 in chunks of 2 with a limit of 4, so that whole, partial and empty last chunks occur; two SetFiles of two pieces from both ends; three connections for two slots and two changes of a block by different clients. |
| `goose` | `Advertised`, `AnomalyMeansLoss`, `HeardOrMissed` | Counters of 3 values, so that both roll over; 3 announcements, 2 loops, a frame in flight and one in hand, single losses. `GooseAssumption` excludes losing more frames in a row than the counters tell apart (`MaxLoss < W - 1`). |
| `secure` | `OneName`, `EndsAgree`, `OnlyLateRefused`, `KeysCurrent`, `AssociatedAlike`, `StreamIntact`, `AcceptedOnce` | Two connections with two identifiers, and with one, so that they run out; two policies; PDUs with and without a flaw. An association whose clocks differ by one and step back once. A replay window of 2 in numbers modulo 8 that wrap, two keys, two readers, three deliveries; and with one reader three sends and four deliveries, which overrun the window. Two keys that start and end within ten ticks, one failing registration. Three registrations with a table of one. Some three hundred configurations of an association: lengths on both sides of each form, contexts, initiate parameters, authentications, time limits. Blocks of each sample mode, counts modulo 4, frames of up to two samples, five samples. |
| `conn_reorder` | `ReportsInOrder` is violated | see Findings |
| `setfile_removes` | `RemovesItsOwn` is violated | see Findings |
| `cancel_blocks` | `OutstandingFail` is violated | see Findings. With one Cancel at most it holds, as part of `WaitsEnd`. |

Deadlock is checked where the system runs for ever, for the report control block alone
(`brcb_window`). The other systems may stop: an association that is down, an object without clients, a
journal at its bounds, a publisher and a subscription that ended, a transfer that is complete, a server
that is closed.

**Fairness.** A timer that was started expires and its callback runs; a goroutine that can run does; a
write on a closed transport fails; the timers of `Close` fire; `rekeyLoop` looks every thirty seconds; the
segment loses only so many frames in a row. These are the guarantees of the Go runtime and of the timers
the code starts. `svDeliver` is taken by strong fairness, since Go's mutexes do not starve a
waiter. Clients, servers at the other end, contexts and applications are under no fairness: nobody has
to write, answer, give up, connect or leave. Only the `FairSpec`s and `MCFairSpec`s state fairness,
and only the liveness properties (`WindowCloses`, `WaitsEnd`, `Delivered`, `Served`, `ClosesAll`,
`HeardOrMissed`, `OutstandingFail`) need it.

## 4. The proofs

Eight modules hold proofs, each for every value of the constants that its assumption admits.

| Module | Theorem | Says |
|---|---|---|
| `ReportControlProofs` | `TypeCorrect` | every field keeps its type |
| | `BufferContiguous` | the buffer keeps within its depth, has no hole, and the send index is in it |
| | `GapsAreTold` | a BRCB's subscriber never accepts a report past a gap without BufOvfl |
| | `SubscriberIsHolder` | an enabled block belongs to the connected client that holds it |
| | `ReservationIsTimed` | a block held for an absent client has its timer |
| | `ConfiguredReservation` | a configured reservation is never lost nor used from another address |
| | `ReservationShown` | Owner and Resv show the reservation in force |
| | `ReportsNumbered` | what an enabling sends is numbered without a hole and goes out once, in order |
| | `HolderIsSafe` | no step passes a block from one client to another |
| `ReportWindowProofs` | `WindowIsReported` | a value waiting in a window leaves it only in a report |
| | `TimersAreCurrent` | no older timer frees a block, only the loop of the current enabling captures integrity reports |
| | `RecordIsCurrent` | the last thing recorded about a member is its current value, under the conditions below |
| `ServerDataProofs` | `AssociationsAreCounted` | connection slots are neither leaked nor freed twice, who holds a block is served, changes are told once and in order |
| | `DataSetsAreServed` | no step leaves an enabled block without its data set, and a listing by pages misses no name that stayed |
| | `TransfersAreWhole` | a transfer that ends well is whole, for files, chunks and limits of any size |
| | `FilesAreServed` | no file is replaced, a listing of files misses none that stayed, what SetFile stored is its source |
| `E2EHandshakeProofs` | `NamesAreUnique` | no two open associations of a server share an identifier |
| | `AgreementOfEnds` | two ends that completed a handshake agree on what both policies allow |
| `GooseProofs` | `StateIsAdvertised` | what State returns is what went out last |
| | `AnomaliesAreLosses` | a subscriber flags what was lost between two frames of a state and nothing else |
| `ServerConnProofs` | `AnswersAreSingle` | a request has at most one answer |
| | `ReportsAreKept` | reports keep their place around responses, none is lost untold, none sent on the closed queue |
| `AssociationProofs` | `ControlImplementsSBO` | the control service implements `SelectBeforeOperate` |
| | `EndsAreSingle` | selections and operates end once and by those entitled; the first cause of an end is told |
| `ClientConnProofs` | `NoOrphans` | no request waits for a response that cannot come |
| | `CauseStands` | the first cause of an association's end stands |

None of these is inductive alone.

*Report control blocks*, from `RCBAssumption`: `IndInv == TypeOK /\ Sound(rs) /\ Firm(rv) /\ SubscriberHolds`.
`Sound` relates buffer, index, numbering and history: the entries of the buffer are consecutive and end
with the last one emitted; what is next to go out is what is due, unless the overflow flag is up; every
accepted report past a gap carries the flag. Without the middle part, a discard or a resynchronisation
followed by a send could not be shown to raise it. `Firm` relates owner, reservation, timer and the shown
attributes; it has to say that a timer field is set only for a callback that has not run. Each
helper of the code (`Emit`, `Trimmed`, `TransmitBuffered`, `FlushPending`, `Take`, `Release`, ...) has a lemma that
it keeps `Sound` or `Firm`; each action has one built from those.

*Windows and timers* (`ReportWindowProofs`), from the same assumption. `WindowInv` adds to `IndInv` that a closed
window holds nothing, that only an enabled block has an integrity loop in force (`intgStop`), and that a disabled
unbuffered block has no window; with it `NothingOverwritten` and `NoStaleTimer` are read off each action. `CurrentInv` says of
every member that the newest record of it, in the buffer, among what was sent or in the window, is its
value. That is no invariant of the code as it stands, so `RecordIsCurrent` has two hypotheses, and both
exclude only what the code really does otherwise: a block whose TrgOps lacks data-change records nothing
when a member changes; and BufTm cleared, or the data set changed, over an open window leaves values in the window
that a later report outruns (`reporting.go:370`, `505-510`; see section 5). The run `brcb_window` keeps to both.

*Server data* (`ServerDataProofs`), about the composed `MCFairSpec`. Each part has an inductive invariant, and
a step of one part leaves the state of the others alone. *Associations*: the connections that hold a slot
are finitely many and `open` counts them, so that a connection that takes or gives back a slot changes both by
one; what was told, the flush in hand and the queue are, one after the other, what was made. *Data sets*:
names are unique, what a listing still owes is there and lies behind its continuation name (`DueAhead`), which
deletions preserve because the sets that stay keep their order. That an enabled block has its data set is no
invariant, since the configuration may enable a log control block without one; `KeepsDataSet` says of every
step that it does not lose what there was, which needs little more than the guards. *Files*: what a listing owes
is there and comes after the name it continues from. *SetFile*: calls are made in turn, and the transfer that the
server answered has written exactly what its calls have read. *Transfers*: a download is within a file that never shrinks below
the size announced, and a SetFile has written what it has read. The facts about finite sets that these
arguments count with are gathered in `FiniteFacts`: the lemmas take it as a hypothesis, and `FiniteSetsCount`
proves it from the library before the theorems use them, which therefore have no hypothesis.

*Handshakes*, from `E2EHandshakeAssumption`: `Shape /\ Names /\ Wires`. `Names` says that an association
holds its part of the identifier exactly while it is open, that what it holds is registered, and that no two
hold the same; `Wires` that an accept under way, and a client that took one, carry what the server
settled on, which no later step changes. That the algorithm chosen is one the server knows (`FirstICV`, a
least index) rests on the well-foundedness of the naturals.

*GOOSE*, from `GooseAssumption`: `Shape /\ Loops /\ Advertised`. A loop sends the successor of its own
frame, so the frame of the loop that runs must be the one State returns, no other loop may have its
number, and superseded loops carry older ones. For the subscriber `StreamInv` follows the frames in
flight: each is the next after the one before it (`Follows`), the last of them is the one sent last, and the first is as
many ahead of the frame heard last as were lost since (`Ahead`). As fewer are lost than the counters
tell apart, a number that is not the successor means a loss, and a loss within a state shows.

*Server association*, from `ConnAssumption`: `Shape /\ Hands /\ Settled /\ AnsweredOnce`. `Settled` says
that a request with an answer has nobody left to answer it, neither the serving loop nor its
goroutine; `Hands` that the request in hand is the last received and has no goroutine yet. `OrderInv` adds where a
report and a LastApplError can be: what is held ahead of a response holds no report (`Places`), a report behind
it was held for the request in hand and may be queued only once that is answered or deferred, a refused
control has its LastApplError on the way or written (`Refusal`), and what Serve answers follows from the kind of the request
(`Stage`). From these every write is one that `AroundResponse` allows.

*Client association*: `Shape /\ Requests /\ Ended /\ Lock`. A registered request has a caller and no
result; one with a caller is registered or has its result; an identifier not given out is unused;
an association that is not connected has a cause, which is what a result of its end says; who writes
holds the write lock.

*Control service* (`AssociationProofs`), about the composed `MCFairSpec`: `ControlInv` says
that who holds a selection is connected, that an operate in hand on an object that requires selection is the
holder's, that an object operated directly is never selected, and of every operate that its termination was sent or that
whoever is to send it, the server, the application or the timer, still can; one that was refused is done, which is what
makes a later finish of it idle (`Terminating`). The refinement maps each
action to one step of `SelectBeforeOperate` or to none. `EndsOnce` joins its three parts with `KeepsCause` of the
client association, which `ClientConnProofs` proves.

Only model-checked: liveness, which is out of the prover's reach (`WindowCloses`, `WaitsEnd`, `Delivered`,
`Served`, `ClosesAll`, `HeardOrMissed`); what recursive definitions compute, since that takes an induction over
data (`ReportsDecode`, `DecodesAsSent`, `ModelMirrored`, `AssociatedAlike`); and the properties of the modules
without proofs (`LogRead`, `SettingsServed`, `TrackedAsRun`, `OwnVerdict`, `SubscriptionWhole`, `OnlyLateRefused`,
`KeysCurrent`, `StreamIntact`, `AcceptedOnce`).

## 5. Findings

- `conn_reorder`: a report made between the end of a request and the queueing of the reports held
  during it overtakes them (`server_conn.go:573`, against the comment at 572).
- `setfile_removes`: a SetFile that fails removes its destination even if another one created it in the
  meantime (`services_ext.go:273`, against the comment at 76-77).
- `cancel_blocks`: a Cancel that is repeated after its caller left can have two answers for a channel of
  one place; if the second caller leaves too, the reader blocks on it, and neither outstanding requests nor
  `Close` or `Abort` return (`client_ext.go:246`, against the comment at 83-84).

Other disagreements, met while modelling, that no run states:

- A buffer-time window left open over a DatSet write is reported afterwards (`reporting.go:370`, against
  the comment at 181-182).
- A continued log read may skip an entry of the same millisecond as a place the log no longer holds
  (`journal.go:537`, against `client/log.go:22-23`; `ReadComplete` makes the exception).
- A device that declares no active group, or one it does not have, serves the attributes' own values until a
  group is selected, while group 1 is active and may have other values (`SettingGroups`, `ServedFromStart`;
  `server.go:278-280`, against `settinggroup.go:127-131`; `ActiveServed` makes the exception).
- A log control block that the configuration enables without its data set is enabled without one (`DataSets`,
  `EnabledResolves`; `journal.go:110-112`, while a client's write is refused, `journal.go:373`).
- The setting group control block serves ActSG 1 until the first selection whatever group is declared
  active (`settinggroup.go:117`, against `server.go:254-255`).
- The late reads of a SetFile whose caller left are answered from the next one's file (`ObtainFile`,
  `StoredIsSource`, against `client_ext.go`: "serves sourceFile and nothing else"; `StoredWhole` makes the exception).
- An enabling whose context ends during the first write keeps the block reserved, one whose context ends during
  the last keeps it enabled, as the release that follows is refused; a Disable under a context that has ended, or
  ends before its second write, takes back nothing or not the reservation (`ClientReports`, `ReleasedAgain`, against
  `client/report.go:141-142` and 221-222; `SubscriptionWhole` makes these exceptions and no other).
- A control number comes round after 256 sequences of a handle (`client/control.go:260` "wraps at 255 by design"). A
  termination that late is taken for the newer command's, and the last diagnosis under a number is never cleared
  (`controlreports.go:133-145`), so a refusal without one is explained by the old one. `OwnVerdict` makes the exception.
- A read of an object whose sub-object, or of a constraint one of whose objects, has no value leaves that member
  out and is shorter than its description (`DataModel`, `NeverShort`; `access.go:206-210` and 124-129, against the
  comment at 197-202; `ReadsAlign` allows such members to be missing and nothing else).
- `TagSize` is one octet short for tag numbers from 2^28 on (`asn1/ber.go:138-139`; no service of MMS has one;
  `SizesTrue` makes the exception), and a data access error is decoded modulo 256 (`MmsData`).
- A server configured never to ask for new keys keeps asking once `RequestRekey` was called, since the call
  replaces the zero policy (`E2EAssociation`, `AsksWhenCalled`; `assoc.go:1010-1012`, against
  `config.go:144-145` "zero never requests").
- A lost transport leaves an association's identifier part taken (`E2EHandshake`, `HeldByLive`, against
  `keys.go:91-92` "unique among the live associations of one peer").
- A member that joins late may send under a key that another member has yet to activate (`GroupKeys`,
  `ReceiversHold`, against `rsession/doc.go:30-34`).
- An identity set while a frame is built appears in some of its ASDUs only (`SampledValues`,
  `OneIdentityPerFrame`, against `sv/publisher.go:127-130`).
- Two services tracked in one object by one request are one report (`ServiceTracking`,
  `EveryServiceReported`, against `tracking.go:18-20` "reports every service").
- Two handles of one control object share its waiters, so a termination may reach the other handle's
  command (`client/controlreports.go:145-162`); `OwnVerdict` is checked with one handle per object.

## 6. What is abstracted

A timer expires at any moment after it was started, a selection at any moment after it was made, except
in `GroupKeys`, `E2EHandshake` and `E2EAssociation`, where clocks are counted in ticks. Values are numbers
that tell old from new. PDUs are records of what decides their fate. Logging is left out. In
`ReportControl` the segments of one report are one transmission. Signatures, certificates and encryption are
their outcome. Most bounds named in the CONSTANTS limit how often something happens. Some instances also leave
out what may happen, to stay within reach, and another run or the proof has it: `reporting` has no buffer time, no
integrity period and no ResvTms, which `brcb_window` and `association` have; `brcb_window` keeps to one BufTm
(section 4); `association` has one member and no buffer time; the client's subscriptions are checked on an
unbuffered block, whose writes include those of a buffered one but for EntryID.

## 7. Not modelled

- **SCL** (`scl/`) and the constructors and class tables of `model/`: read or built once, before a server
  starts; a model of them would restate tables.
- **TLS, certificates, A-profile files, Diffie-Hellman, algorithm tables** (`iec62351/tls.go`, `ossltls`, `pki`,
  `aprofile`, `e2e/alg.go`, `internal/cryptox`): configuration of libraries and cryptography.
- **Octets of single PDUs**: the services of `mms/services*.go`, `e2e/pdu.go`, `e2e/osi`, `gdoi/isakmp.go` and
  `exchange.go`, `goose/message.go`, presentation and ACSE. The codec they are built on is modelled (`Ber`, `MmsData`), and
  so is what decides their fate at the receiver.
- **Client wrappers** (`client/settinggroup.go`, `svcb.go`, `log.go`, `file.go`, `async.go`): one
  request each on the association of `ClientConn`.
- **Times** (`asn1/gentime.go`, UTC and binary time of `mms/value.go`): digits and fractions, formatting that no
  property is about.
- **Ethernet sockets, multicast groups, TPKT**: system calls; the segment and the transport are external
  parts of the models.
- **Commands and examples**: command lines and a terminal interface over the packages above.
