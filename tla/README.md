# Harbormaster in TLA+

This directory holds a formal model of Harbormaster: the service that receives
clients' files, classifies them, pairs the two sides of a reconciliation and
assigns the pair to a berth. The modules are translated from the code in
`src/`; `PROJECT.json` maps every definition to the lines it models.

## 1. The system

Four long-running programs share a Postgres database, an object store and a
Kafka-compatible bus.

```
landing dir -> Portwatch -> hm.arrivals.raw -> Inspector -> hm.arrivals.classified
                                                                   |
   Reconciliation stub  <- hm.berth.assigned, hm.berth.superseded <- Berthmaster
   Control plane        <- all of the above, hm.alerts.missing <------+
```

| Component | State it keeps | Operations | Hard behaviour | What makes it correct |
|---|---|---|---|---|
| **Portwatch** (`go/internal/arrival`, `go/cmd/portwatch`) | map of observed files, channel of candidates, `arrival` table, object store | scan, store, dedupe check, record, publish, audit, forget | several instances on one directory; crash between any two calls; a handler error; clients still writing, writing again, leaving sentinels behind | a finished file is published, once, whole, and only after it is stored and recorded |
| **Inspector** (`python/src/inspector`) | canonical objects, `template_mapping` (the cache of layouts) | sniff, parse, attribute, resolve value dates, split, map fields, score, route, write, publish | replay, also after midnight; several value dates in a file; names and contents that disagree; a model tier that may be absent, fail or answer anything; workers sharing the cache | what is dispatched matches its object and rests on evidence that agrees; each row reaches the slot of its own date; no field has two sources; every arrival is answered |
| **Berthmaster** (`go/internal/slot`, `go/cmd/berthmaster`) | `slot` table, consumer offsets | apply an arrival, void, assign, record, audit; sweep overdue slots, alert | batch replay; consumer and sweep goroutines (and one-shot sweeps) sharing rows without a transaction; crash between publish and record; clock moving during replay | at most one live assignment per slot, void before replacement, both sides from their own slot, overdue slots alerted once |
| **Decision log** (`go/internal/audit`) | `audit_record`, a hash chain per arrival | append, read, verify | appends by several processes; clocks that differ; rows changed or lost | an untouched chain verifies; damage is reported at the first damaged record |
| **Registry and calendar** (`go/internal/registry`, `python/src/inspector/registry.py`) | clients, expectations, holidays | load and validate; business-day arithmetic | closed days at the window's edges; search cap | late window and deadline agree |
| **Bus** (`go/internal/bus`) | topics, committed offsets | publish, poll, commit | at-least-once delivery; no order between topics | nothing is passed over |
| **Control plane** (`go/cmd/controlplane`, `go/internal/web`) | read models, reviews, event hub | project each topic, acknowledge, review, stream | replays; skipped messages; topics without an order between them; concurrent reviewers; a decision recorded and not published | every assignment is shown; held arrivals are queued until decided; decisions published are the recorded ones |
| **Reconciliation stub** (`python/src/reconstub`) | the voids seen (in memory), one report per slot | reconcile an assignment, honour a void | void and assignment on different topics; replay after a restart that forgot the voids; missing, zero and textual amounts | the report is of the latest assignment, and clean only if the files agree |
| **Store** (`go/internal/store`) | schema, objects | migrate, roll back, put | concurrent migration; crash during a put | each migration once; an object is whole or absent |
| **Queue ingress** (`go/internal/ingress`) | staged payloads | stage, hand to Portwatch's processor | not started by any command at this commit | as Portwatch |

Behaviours the components share: every consumer is at-least-once and replays from
its last commit, no topic is ordered against another, and every handler makes
several writes (database, object store, bus) that nothing makes atomic.

## 2. Modules

| Module | Models | State and actions |
|---|---|---|
| `Berthmaster` | `slot.go`, `cmd/berthmaster/main.go`, `franz.go`'s consumer | `rows` is the slot table; `classified`, `assigned`, `superseded`, `alerts` are topics; `committed`, `pos`, `batchEnd` the consumer group; `h` the handler's locals; `sweeps` each sweeper's locals; `trail` the audit entries. Every database call and every publish is its own action, because nothing in the code makes two of them atomic. `Apply` is `ApplyRead` (window check, `Get`, decision) and `ApplyUpsert`; `assign` is `PublishVoid`, `PublishAssigned`, `RecordGet`, `RecordPut`, `AuditAssigned`; `sweep` is `SweepRead`, `SweepMark`, `SweepAlert`. `Merge` is Upsert's `COALESCE`. |
| `SlotLedger` | what `Berthmaster` promises the readers of `hm.berth.assigned` and `hm.berth.superseded` | `issued` and `voids` are the two topics; `Issue` and `Void` say what may be appended. `Berthmaster!Ledger` instantiates it with the topics of the detailed model: an id is an assignment's place in its topic, a void's `by` the arrival that caused it. |
| `Portwatch` | `scanner.go`, `dedupe.go`, `processor.go`, `cmd/portwatch/main.go`, the `arrival` constraint | `landing` and `done` are the directory and its sentinels, `seen` the observation map, `queue` the channel together with the candidates a blocked pass still holds, `h` the handler's locals, `arrivals`, `objects`, `raw`, `trail` what is durable. |
| `ArrivalLedger` | what `Portwatch` promises the readers of the object store, the `arrival` table and `hm.arrivals.raw` | `stored`, `recorded` and `announced` are the three; `StoreBytes`, `RecordRow` and `Announce` say what may be added. `Portwatch!Intake` instantiates it. |
| `AuditChain` | `audit.go` | `log` is one arrival's chain; `Append` is `ReadPrevious` and `Commit`, the latter possible only if no append committed since the snapshot, which is what Postgres' serializable level gives these two statements; `Verify` is the walk. A hash is the tuple it is computed from. `Change` alters any column of a row but its id, its date as long as the row stays where it stands in `Read`'s order, and `Lose` takes a row away; `changed` and `orphans` remember damage, for the property only. |
| `Calendar` | the calendar of `registry.py` and `registry.go`, `Accepts` and `deadlineFor` of `slot.go` | days are integers; `closed` is the calendar, `today` the clock. |
| `Parsers` | `inspector/parsers/`, `Inspector.sniff` | no state: the bids of six parsers and, for each, the way from a document to a table: delimiter, header row, summary rows, repeated headers, sheet, merged cells, record array or element, e-mail lines. |
| `ValueDate` | `valuedate.py` | no state: date formats, the column that names the day, the evidence ladder, the roll and the split, on an instance of `Calendar` per client. |
| `Inspector` | `main.py`, `attribution.py`, `confidence.py`, `emit.py` over `Parsers` and `ValueDate` | `raw` and `position` are the topic and its offset, `job` the sub-batches in hand, `objects` the canonical store, `published` both outgoing topics, `today` the clock. `Classify` is the pure part of the handler; `WriteCanonical` and `Publish` alternate over the sub-batches as the loop does; `Reject` is the `ParseError` branch. `Raise` is any other exception, which nothing catches: the process ends with the arrival unacknowledged, and after `Restart` it is the next one again; the model has `csv.Error` (delimited.py:127), other errors that leave the handler take the same way. |
| `Mapping` | `mapping/` | `cache` is `template_mapping`, `job` each worker's table and place in `resolve`, `bound` the adjudicator of the deployment, `calls` and `fruitless` count for the property. Tier 1 is `MapTable`; `LookUp`, `MatchColumn`, `Escalate`, `AskFake`, `AskModel`, `Store` are the accesses to something shared, slow or failing. `Raise` is an exception that leaves `adjudicate`: a reply whose `fields` cannot be iterated (tier3_llm.py:215), or, in `AskWithoutKey`, a live model without its key; the process ends with the table's file unacknowledged. `main.py` gives `Inspector` neither adjudicator nor cache at this commit, so tier 3 is modelled as `resolver.py` and `build_adjudicator` offer it. |
| `ReconStub` | `reconstub/main.py` | `voided` is the set in memory, `stubAt` and `stubDone` the positions in the two topics, `reports` the report files. `RaiseOnLoad` is a handler that raises, and with `StubCrash` ends in `StubRestart`. |
| `ControlPlane` | `cmd/controlplane/main.go`, `projector.go`, `readmodel.go`, the posting handlers of `server.go` | `shown`, `dispositions`, `alertRows`, `reviews` are the tables, `boardAt` and `boardDone` the positions in five topics, `requests` the reviews between their INSERT and their publish, `decisions` the outgoing topic. Any arrival can be reviewed, classified or not. `projecting` says whether the consumer runs: `ProjectorStops` is a failed fetch or commit, which ends its goroutine while the handlers go on serving, until the process is started again (`BoardCrash`). |
| `Delivery` | the composition | extends `ReconStub` and `ControlPlane`, which both extend `SlotLedger`: producers do whatever `SlotLedger` and the other topics' contracts allow, readers share nothing but the topics. `quota` bounds a behaviour: how much of each topic, which reader is up, which arrivals people decide on. |
| `MC*` | | the instances TLC checks |
| `BerthmasterProofs`, `ConsumerProofs` | | theorems about `Berthmaster`: rows, topics and orphans; then, extending it, commits, alerts and where a caught-up consumer ends |
| `PortwatchProofs`, `AuditChainProofs`, `CalendarProofs`, `MappingProofs`, `InspectorProofs` | | theorems about the module each is named for |
| `DeliveryProofs` | | theorems about `ReconStub` and `ControlPlane`, inside their composition |

How they fit. `Inspector` and `Berthmaster` are checked apart, each against
everything the other may send: `Berthmaster`'s messages are any dispatched and
undispatched ones, and `Inspector` starts from any file. `Berthmaster` implements
`SlotLedger`, and `Delivery` checks the readers against `SlotLedger` instead of
against `Berthmaster`, so what holds there holds whatever interleaving of
handler, sweeps and crashes produced the topics. `ValueDate` uses `Calendar`, and
`Calendar!RollStaysInWindow` is the fact that lets the Inspector roll a date that
Berthmaster then holds against its window.

Abstractions. Files, arrivals and slots are model values. `Berthmaster` gives a
slot a first and a last accepted day instead of a calendar;
`Calendar!WindowIsAnInterval` shows that the code's two computations do make
the accepted days such an interval, ending on the deadline's day. The clock of
`Berthmaster` counts half days: `2d` is day `d` until 23:59, `2d + 1` its last
minute, when a file is still accepted and the slot is already overdue. One
partition is modelled; slots of other partitions share nothing with it but the
process, whose deaths are modelled. Quiet time is counted in scans, as the code
counts it. Each write of a client changes size or mtime. In `Parsers` a document
is already cut into cells, each with the kind its syntax gives it (number, date,
account, total, text), and a nested record into the pairs `flatten` makes of it. In
`Mapping` what a header's spelling decides is a constant function of the header.
In `Inspector` the outcome of mapping is a confidence per field, chosen freely.
`Inspector`'s `truth` is the table a person sees in a file; no action reads it.

Definitions whose comment starts with `Mutant:` are altered versions of the
definition that follows; they are not used by the specifications.

## 3. Runs

Passing:

| Run | Shows | Bounds |
|---|---|---|
| `berth_crash` | offsets and types, that the topics are a behaviour of `SlotLedger`, that no void is forgotten (an assignment of its slot follows, or the message behind it has yet to be handled), and that a caught-up consumer leaves each row with the latest files and a live assignment for exactly them | one slot, two arrivals on either side, three messages, two crashes: enough for complete, correct, and crash inside each |
| `berth_sweep` | rows keep their sides and ids, MISSING rows are alerted, every live assignment beyond the first is owed to a mark of its row | two slots with different deadlines, three messages, the loop and a one-shot sweep, one failed sweep |
| `berth_replay_live` | every message is committed unless one that can never be applied stands before it, nothing dispatched is committed unaudited, every void is replaced while the window is open | one crash; skipped, refused and failing messages among good ones |
| `port_pair` | types, and that object store, table and topic are a behaviour of `ArrivalLedger`: stored before recorded, recorded before announced, one row and one announcement per content and name | two instances on one name, written, removed and written again with either content; one crash or error |
| `port_live` | every finished file is published, whole, and once whatever its name; what the scanner will not emit again is in hand or published; suppression names a published arrival | one instance, two names, two contents, quiet window of two scans, up to three writes to a file, channel of one |
| `audit` | interleaved appends leave a chain that verifies; the verifier names the first damaged record | two writers, one decision, four records, six instants, two losses or changes of any column but the id |
| `calendar` | moves count open days; window and deadline agree | every calendar on nine days with gaps shorter than the search, windows of one to three days |
| `mapping` | no field has two sources, configuration reaches the record, what is cached can be applied, calls are bounded, nothing settled is reopened, every table is finished or raises | two workers, two files, one crash, either adjudicator, none, or one without its key; seven tables in which override, dictionary, price rules, cache and tiers compete; six replies: unreadable, not iterable, and free, repeated, invented and retracted fields |
| `inspector` | what is dispatched matches its object and its evidence, rows keep their date, tables are read as a person reads them, no arrival is passed over half answered, every arrival is answered unless it waits at or behind one whose parser raises | several hundred files: accounts and dates of two clients in every combination over two rows and a third beyond the scan limit, and each format with banners, totals, repeated headers, covers, merged cells, envelopes, repeated leaves, and one whose lines end in a carriage return alone; two arrivals in a row, one crash, one midnight; a year of two months of three days, in which every slashed date of those days is ambiguous |
| `delivery` | reports are the latest and true; decisions are published as recorded; held arrivals are queued; what the projector has passed is on the board with its marks, through every replay; every assignment is shown if the projector does not stop for good | three assignments and a void for the stub, two of each for the board, two messages about an arrival, two alerts; one crash of each reader, one skipped message, a projector that may stop, two reviewers. The readers share only the topics, so most behaviours run one of them |

Arrivals, instances, names and contents are symmetric in the safety runs that
say so; liveness runs use no symmetry. `CHECK_DEADLOCK FALSE` is set because the
bounds end every behaviour and because all these programs may rest when there
is no work. Larger bounds repeat the cases above: what a crash, a sweep or a
second worker can disturb is one operation at a time, and each bound lets every
operation be disturbed at every step.

**Refinement.** `Berthmaster!ImplementsLedger` (run `berth_crash`, theorem
`LedgerIsImplemented`) says that every step of Berthmaster is a step of
`SlotLedger` or leaves the two topics alone. The abstract specification is weak
on purpose: it allows a repeated void and a second live assignment, because the
code does (`berth_v_crash_live`), and it is all the readers may rely on. In the same
way `Portwatch!ImplementsIntake` (run `port_pair`, theorem `IntakeIsImplemented`) makes
`Portwatch` an implementation of `ArrivalLedger`, which lets stored bytes stay without
a row and a row stay unannounced, because a suppressed duplicate and a crash between
Record and Publish leave them so (`port_v_crash_lost`), and never lets a row come before
its bytes, change, disappear or be announced twice. Both are safety: neither ledger
says that anything must be published. What follows from a ledger alone no run asks
again: `SupersessionOrder` follows from `SlotLedger`, `FilePublishedOnce` and
`PublishedIsDurable` from `ArrivalLedger`; all three are theorems of their own.

**The race on the scanner's map.** `Forget` deletes from the map while `Scan` may be
reading it, without a lock. When the Go runtime notices, it ends the process, which is
`Crash(p)`, possible at every step of the handler and so also at `forget`. When it does
not, the deletion concerns one name and falls before or after `Scan`'s look at that
name (it works on a pointer, so an update after the deletion is lost with its
observation): the two orders of the actions.

**Fairness.** `Berthmaster!FairSpec` asks weak fairness of the consumer loop
(`Consume \/ Handle`: a loop that does nothing else) and of the sweep loop (a
ticker). Nothing is asked of clients, the clock, one-shot sweeps or failures;
`Restart` is part of the death of a process because the deployment has no
restart policy and an operator is assumed to start it again. `Portwatch!FairSpec`
asks weak fairness of each instance's scan ticker and handler loop, and of a
client that has begun a file to finish it. `WritersKeepMoving` is the timing
assumption the quiet window itself rests on: a client that is not done writes
again before the window has passed. `Inspector!FairSpec` and `Mapping!FairSpec` ask
it of the consumer loop and of a worker with a file in hand, which contain no
wait but the calls that are allowed to fail; `Inspector`'s also of `Raise` and of the
`Restart` that follows it, so that a file that raises is met again and again, as it is
in the system. `Delivery!Spec` asks it of the projection of assignments by a board that
is up, which is disabled once the projector has stopped: nothing makes the code start it
again, no fairness is asked of `BoardCrash`, and `EveryAssignmentShown` has `[]<>projecting`
as its hypothesis. Crashes are bounded, as every liveness property of a replaying
consumer needs.

## 4. Where the code and its own documentation disagree

Two violation runs are part of the project's list (`PROJECT.json`, "findings"):

| Run | Disagreement |
|---|---|
| `berth_v_crash_live` | a crash between publishing and recording an assignment leaves two live |
| `port_v_crash_lost` | a crash between Record and Publish: the file is then its own duplicate |

Further configurations in this directory, to be run by hand, each end in the
violation of the one property they check:

| Configuration | Disagreement |
|---|---|
| `MCBerthmaster_v_alert_lost` | an error after marking rows MISSING and before publishing loses the alert (FR-35) |
| `MCPortwatch_v_correction_missed` | a correction under the same name is not seen (processor.go:145-146) |
| `MCInspector_v_rows_lost` | rows without a readable value date are in no sub-batch when a file is split; `docs/tasks/T-036-multi-date-split.md:16` wants the counts to sum to the source |
| `MCInspector_v_extension` | the extension decides between parsers for a short e-mail and for a trade capture fragment; FR-17 and `Inspector.sniff` say "by content, never by extension" |
| `MCInspector_v_october` | `%d%b%Y` dates of October in capitals lose what follows the T of OCT and are not read |
| `MCInspector_v_raised` | a file whose lines end in a carriage return alone makes `csv.reader` raise `csv.Error`, which the handler does not catch; it is delivered again for ever, and what arrived after it waits. main.py:406-407: "the arrival is recorded as rejected rather than being redelivered forever" (`NothingRedeliveredForever`) |
| `MCMapping_v_raised` | a reply whose `fields` is null, or a missing key, raises out of `adjudicate`, whose docstring says "Resolve the unresolved headers, or decline cleanly" (tier3_llm.py:121) and whose handler of failures "degrades to an unresolved column rather than crashing the arrival" (`DeclinesCleanly`) |
| `MCMapping_v_override` | an override of a price field can be outranked by a price column found by name or by its values, since `_resolve_prices` does not look at what overrides claimed (tier1.py:141-143) |
| `MCDelivery_v_void_lost` | a void that is projected before its assignment updates no row, and the withdrawn assignment is then shown as standing |
| `MCDelivery_v_stopped` | a failed fetch or commit ends the projector for good while the server goes on; controlplane/main.go:128-131 skips a failed projection because "blocking the whole consumer on one bad message would cost the board entirely" and expects "a stale board row until the next replay" (`BoardIsNotBlocked`) |
| `MCDelivery_v_unnamed` | Berthmaster's `SideRef` never carries the canonical URI the proto and `docs/design/03-lld.md:157` name, so the stub raises on every assignment |

Three more, also run by hand, pass: `MCCalendar_distance` (`BusinessDaysBetween` undoes
a move, and `RollStaysInWindow`), `MCBerthmaster_close` (`VoidIsOwed` where the window
closes while the messages are handled and a process dies, with `SupersessionOrder`,
`AssignmentsTraceable` and `StateMatchesSides`, which are theorems) and
`MCBerthmaster_orphans` (`OrphansAccounted` where a death, the sweep loop
and a one-shot sweep meet: one file of each side, four messages, three million
states).

The passing runs stay clear of the following behaviours of the code by their
constants; giving the constants other values shows them.

- A sweep that read a row before its second side came turns the dispatched slot
  MISSING, and the next correction voids nothing: `AtMostOneLive` with
  `MaxNow > 0` and no fault at all. `OrphansAccounted` is what remains true: each
  live assignment beyond the first has a mark of its row or a death to answer for
  it. A death answers for two, because it may strand an assignment that was
  published and not recorded, and it may also take the sweep loop between its mark
  and its alert.
- A sweep cut short after its mark, by a death or by an error, leaves a MISSING row
  without an alert (`MCBerthmaster_v_alert_lost`); `MissingIsAlerted` is about the
  system before the first such event.
- The row of a slot whose deadline has passed need not hold the last file
  delivered, because late files are refused; `ConvergesToLatest` is about slots that
  are still open.
- A crash after the void, with the window closing before the replay, leaves a
  void without replacement: `VoidedIsReplaced` with `MaxNow > 0`. That this is the
  only way a void stays without one is `VoidIsOwed`.
- A message Berthmaster can never apply (no expectation for its client) stops the
  consumer for good; `EveryMessageHandled` is about the messages before it.
- After a handler error the path stays emitted, so the next scan does not offer
  it again: `LandedIsPublished` with the fault "error".
- Two instances can publish one content under two names, since the constraint
  includes the name: `ContentPublishedOnce` with two instances.
- A file written over between its scan and its handling is published half
  written: `PublishedIsWhole` with the habit "overwrite".
- With clocks that differ, an untouched chain may fail verification:
  `ChainVerifies` with a negative `Skew`.

Read from the code while modelling, and visible in the definitions:

- `to_proto` (main.py:330) marks every arrival as the external client's side, so
  at this commit nothing produces the ledger's side of a slot (`Inspector!ToProto`).
- A file that is not UTF-8, or whose first 64 KiB end inside a character, is not
  recognised by the delimited parser, whose `parse` would read it as Latin-1
  (`DelimitedSniff`).
- A header row `Price, Price, Price__1` makes `_dedupe` repeat a name, and the file
  is refused (`Dedupe`).
- More banner lines than records make a banner the header (`FindHeaderRow`).
- Split dates that roll back to the same day leave two sub-batches for one slot, of
  which the later supersedes the earlier (`Classifications`).
- An arrival dated by the clock is slotted anew when it is replayed after
  midnight; it scores too low to be dispatched (`Resolve`, `Route`).
- A file of domain UNKNOWN needs no field and can be dispatched (`Missing`).
- An unreadable arrival is logged and gets no disposition, although the comment
  beside it says it is recorded as rejected (`Reject`, main.py:406).
- An arrival can be reviewed before it is classified, or after it was dispatched
  (`RecordReview`): nothing asks whether it is held.
- Accounts of another client beyond the first 500 rows are not seen
  (`FindAccountIds`); an account two clients list belongs to the later one, while
  `account_owner` names the earlier (`Owner`).
- The column of the settlement price by structure is the most varying of those
  that vary little (`ResolvePrices`).
- The adjudication of a layout that two workers meet at once, or that taught
  nothing, is paid for again; NFR-8's "zero" holds for the rest (`CallsBounded`).
- Of rows that repeat a join key the stub compares only the last (`ByKey`).
- The board keeps one disposition per arrival, the last projected one of its parts,
  so `HeldIsQueued` speaks of arrivals whose parts agree.
- A decision whose publish failed is never published later, and nothing consumes
  `hm.review.decisions` (`PublishFails`): an approved arrival reaches no slot.

## 5. Proofs

TLAPS checks the following for every value of the constants: any number of slots,
files, messages, sweepers, instances, workers, reviewers, crashes and failures. The
assumptions are the named `ASSUME`s of the modules, which give constants their types
and, where something is counted, make them finite; TLC evaluates them on every run.
Eight theorems have a further hypothesis, named below with the behaviour that breaks
the property without it.

| Property | Theorem | Module | Hypothesis |
|---|---|---|---|
| `TypeOK` (Berthmaster) | `TypeCorrect` | `BerthmasterProofs` | |
| `SupersessionOrder` | `SupersessionIsOrdered` | | |
| `AssignmentsTraceable` | `AssignmentsAreTraceable` | | |
| `StateMatchesSides` | `StatesMatchSides` | | |
| `NothingForgotten` (action) | `NothingIsForgotten` | | |
| `ImplementsLedger` (refinement) | `LedgerIsImplemented` | | |
| `OrphansAccounted` | `OrphansAreAccounted` | | |
| `CommittedIsAudited` | `CommittedMessagesAreAudited` | `ConsumerProofs` | |
| `MissingIsAlerted` | `MissingSlotsAreAlerted` | | |
| `ConvergesToLatest` | `OpenSlotsConverge` | | |
| `VoidIsOwed` | `VoidsAreOwed` | | |
| `AtMostOneLive`, before the first death and deadline | `OneAssignmentLive` | | |
| `TypeOK` (Portwatch) | `TypeCorrect` | `PortwatchProofs` | |
| `FilePublishedOnce` | `FilesPublishedOnce` | | |
| `PublishedIsDurable` | `PublishedFilesAreDurable` | | |
| `ContentPublishedOnce` | `ContentsPublishedOnce` | | `OneInstance` |
| `SuppressedWasPublished` | `SuppressedFilesWerePublished` | | no faults |
| `PublishedIsWhole` | `PublishedFilesAreWhole` | | no habits |
| `EmittedIsKept` | `EmittedFilesAreKept` | | no faults, no habits |
| `ImplementsIntake` (refinement) | `IntakeIsImplemented` | | |
| `ChainVerifies` | `AppendedChainsVerify` | `AuditChainProofs` | `OneClockOnly` |
| `BreakIsFirstDamage` | `FirstDamageIsNamed` | | `OneClockOnly` |
| `MovesCountBusinessDays` | `MovesCountOpenDays` | `CalendarProofs` | |
| `WindowIsAnInterval` | `WindowsAreIntervals` | | |
| `RollStaysInWindow` | `RollingStaysInWindow` | | |
| `FieldHasOneSource` | `FieldsHaveOneSource` | `MappingProofs` | |
| `OverrideReachesRecord` | `OverridesReachRecords` | | |
| `LearnedIsSound` | `LessonsAreSound` | | |
| `SettledStaysSettled` (action) | `EscalationIsOneWay` | | |
| `CallsBounded` | `CallsAreBounded` | | |
| `RowInItsOwnSlot` | `RowsInTheirOwnSlot` | `InspectorProofs` | |
| `DispatchedOnEvidence` | `DispatchesOnEvidence` | | `Strict` |
| `DispatchedMatchesObject` | `DispatchesMatchObjects` | | `Strict` |
| `HandledIsAnswered` | `HandledArrivalsAreAnswered` | | |
| `LatestIsReported` | `LatestAssignmentIsReported` | `DeliveryProofs` | |
| `CleanReportMeansAgreement` | `CleanReportsMeanAgreement` | | |
| `PublishedIsRecorded` | `PublishedDecisionsAreRecorded` | | |
| `HeldIsQueued` | `HeldArrivalsAreQueued` | | |
| `BoardFollowsTopics` | `BoardFollows` | | |
| `MarksStay` (action) | `MarksAreKept` | | |

**Berthmaster.** None of its invariants is inductive by itself, because the handler
and the sweepers write back copies of rows that other processes have changed
since. The strengthening `IInv` says why such copies do no harm:

- `GoodRow`: a row, and every copy of a row, holds only arrivals delivered for
  that slot and side, and an id issued for that slot; topics only grow, so a
  good copy stays good;
- `Covers`: a row never loses a side, so what a copy knows to be present is
  still present when it is written back;
- `HandlerInv`: what the handler's step says about its copy, the row and the
  topics (at `assign` with something to supersede, its void is published);
- `SweepInv`: a sweeper's copies were incomplete when read.

`Invariance` proves `IInv`. For `LedgerIsImplemented`, `PublishIsIssue` and
`PublishIsVoid` show that the two publishing actions are `SlotLedger`'s, the first
because `HandlerInv` puts the void of what it supersedes on the topic, the second
because `GoodRow` makes the id in the row one that was issued for its slot; every
other action leaves the topics alone.

`OrphansAreAccounted` counts. `Known(s)` is the one assignment the owner of slot `s`
is about to void or to record: the row's when it reads ASSIGNED, the handler's
while it works on the slot. `OthersExcused` says that the live assignments other than
`Known(s)` are no more than `Excused(s)`: a step that gives up `Known(s)` is a mark or
a death, each of which adds to the right side. Three facts go with it: a sweep marks a
row once (`MarkedOnce`), a slot whose row lacks a side has no assignment to lose
(`Unpaired`), and what is recorded is the id just published (`Stamped`). The first version of the property
let a death answer for one assignment; the proof failed on a death that finds the
handler between publish and record and the loop between mark and alert, TLC found
that behaviour, and the property now counts a death twice.

`CommittedMessagesAreAudited` rests on `AuditInv`: the handler works on the message at
after the position (`HandlesIncoming`), every dispatched message up to the position
has its entry (`HandledIsAudited`), and no void or assignment is published before it
(`AuditedFirst`). `MissingIsAlerted` is inductive together with
`IInv`: a sweeper holds what it marked until it has published it, and the loop's
`sweepFails` or `crashes` count what it may drop.

`OpenSlotsConverge` follows from `ConvergenceInv`. A sweeper only holds slots whose
deadline has passed (`SweptIsOverdue`), so it cannot write to an open one; the
handler's copy is the row with the message applied, and what it publishes is what
the row then holds (`HandlerHolds`); and a row that does not hold the last file of a
side, or an assignment for its pair, has a message for it beyond the position
(`Settled`), be it new or replayed. `OneAssignmentLive` adds `LiveInv`. Both of its
conditions are needed: `berth_v_crash_live` breaks it with a death, and a sweep over the
handler's row after a deadline.

`VoidsAreOwed` is about the debt a void leaves: the process may die after it, and the
replay compares a later clock with the window. `DebtInv` says of every slot with a void
that its row keeps both sides, since the void went out for a complete one and no
write, stale or not, loses a side (`VoidedRows`); so a replay that is accepted finds
the slot complete and goes on to assign, and one that is refused has found the window
closed, which it stays (`HandlerOwes`). What is paid stays paid, and a message is passed
only when its handler is done (`DebtPaid`).

**Portwatch.** The order of the handler's writes, one invariant per write: an id is
fresh until it is recorded (`IdsAreFresh`), stored before recorded (`StoredFirst`),
recorded before published (`RecordedSecond`), published at most once
(`PublishedThird`), and the constraint keeps rows unique (`RowsAreUnique`). The
hypotheses are those of the code: two instances do publish a content twice under
two names, so `ContentPublishedOnce` has `OneInstance`; `port_v_crash_lost` is the
fault that breaks `SuppressedWasPublished`, and a file written over after its scan
breaks `PublishedIsWhole`. The last one rests on `QuietIsPause`: the quiet time a
scanner has counted on an unfinished file is less than its writer has paused.

`EmittedFilesAreKept` is the safety half of `LandedIsPublished`: the `emitted` flag is the
scanner's promise never to offer a file again, so the file has to be on its way. An
emitted file does not change (`FilesStay`), the handler therefore works on the bytes
the scanner saw (`HandsInv`), whoever ends with a file leaves a row with its hash
(`ChannelInv`), and without faults every row is published (`ReachInv`). With an error or
a crash the first fails at `HandleError` and the last at Record, as the runs and the
findings show, so the hypotheses are those of the property. `IntakeIsImplemented` needs
none: `PInv` gives a recorded row its bytes, a fresh id and a file without a row, and an
announced one its row; `ObjectsAreDated`, that no object has an id not yet handed out,
makes the id of stored bytes new.

**Decision log.** A record is linked to the one before it unless it lost that one, and
then to an id no surviving record has (`Chained`: `Kept`, or `Cut` for the orphans); a
record's hash is its own, and that of its contents unless it was changed (`Rows`); an
append that can still commit has read the end of the chain and would write a record
younger than all of it (`TxCurrent`). The verifier's first break is then the first
damaged record. What an altered record itself is linked to nobody asks (`Chained` speaks
of unchanged ones); it keeps its id and its place, and no longer has the hash of its
contents (`AlteredIs`). `OneClockOnly` is needed: without it a record may sort before the
one it was linked to. Outside this are an altered id, and a date moved past a
neighbour's: `Read` orders by both, so the records change places, and which of them is
then the damaged one is a matter of convention. An appended chain verifies as the case without damage.

**Calendar.** `CalendarAssumption` makes the days that may close finite, and
`Calendars` keeps closed runs shorter than the search, as the code's cap of 30
requires. The walks are recursive functions. Their defining equations are proved
(a function on the naturals exists because each value needs only the one before),
and what they come to is shown by the least number of steps at which it could first
be wrong, which is what `LeastOfNats` is for. Window and deadline agree because the
walk forward and the walk back are adjoint (`WalksAgree`: `n` open days back from `a` is
at or before `b` exactly when `a` is at or before `n` open days on from `b`).

**Mapping.** Tier 1 starts a mapping in which only configuration can name a field twice
and the last configured column wins (`OneSource`, `ConfiguredLast`); whatever later
fills a column (the cache, similarity, an adjudicator) is a `Filled` step, which
touches open columns only and gives each a field of its own. `JobInv` says what the
worker knows at each place of `resolve` about the entries a model taught it, so that
what it stores satisfies `LearnedIsSound` and what it takes from the cache is
`Filled` again: a model is asked for fields no column of the table has, so what it adds
is none that configuration gives to a column of that layout, nor one the dictionary gives
to a column that is not configured. The prices are the exception: the dictionary only
nominates candidates for them, and structure decides. `CallsInv` counts the calls paid for as pairs of a worker and an
attempt that have come to nothing yet; those pairs are finitely many.

**Inspector.** Three arguments meet. The first is arithmetic: what was earned is at most
what there is to earn (`CoverageBound`, by comparing partial sums), so a dispatched
sub-batch has at least 1541 thousandths of confidence in client and day together
(`DispatchNeeds`). Contradicting accounts or names leave 450, and a day is worth 970 at
most; a name alone gives 800, and a day that no row states 700; the clock gives 550, and
a client 990 at most: none of these pairs reaches 1541 (`AttributionIs`,
`DayNeedsEvidence`). That is why the day of what is dispatched cannot depend on when it
was classified (`DispatchedSurely`). `Strict` says that the threshold is above 0.8390;
the code's default is 0.85, but `HM_CONF_DISPATCH` can lower it, and with exactly
0.8390 TLC finds a dispatched file whose object a replay after midnight has dated
anew. The second is about the split: a group, or a table that was not split, carries
one date (`GroupsHaveOneDay`, where `RankExists` shows that the k-th group exists),
and the most common of one date is that date (`DayOfOneDate`). The third is the
consumer: everything in hand or published is a sub-batch of its arrival as some day
saw it (`ConsumerInv`), and what is published has its object, also between the object of
the next sub-batch and its message (`ObjectsInv`); a replay writes under the same name
only the same sub-batch (`SameNameSameObject`).

`HandledArrivalsAreAnswered` has a fourth. An arrival replayed on another day is
classified anew, with other dates and with whatever the mapping then says, and its
messages from both times are on the topic together. That they still count the same
sub-batches rests on the number of a file's parts being a function of the file
(`Parts`: the split goes by the days rows state, which no clock decides), so a message
of the first attempt and one of the second stand in for each other. `AnswersInv` keeps
the sub-batches before the one in hand published (`ProgressInv`), hence all of them when
the consumer moves on (`SentInv`), and the log of unreadable files exact (`LogInv`).

**Readers.** `DeliveryProofs` assumes nothing of the producers but `SlotLedger`. For the
stub, `StubInv` says that the voids in memory are on the topic (`VoidedOnTopic`), that
an assignment it has handled is reported unless a later one of its slot or its own
void is on the topic (`HandledIsSettled`), and that a report's breaks are those of its
assignment (`ReportsAreOwn`); a restart, which forgets the voids, disturbs none of
them. For the board, a request in flight holds the review its row records
(`RequestsHoldReviews`), and a handled arrival has one of its own notices as its
disposition (`DispositionsAreNotices`, `HandledHasDisposition`). A projector that stops
changes no table and no offset. The tables of the board
change by an insert that leaves a present row alone and by a stamp that leaves a marked
one alone (`TablesStep`), so what is shown is kept (`TablesKept`), replays change nothing,
and what was handled before a crash is still there when the offset goes back
(`FollowInv`).

Only model-checked:

- Liveness (`EveryMessageHandled`, `VoidedIsReplaced`, `LandedIsPublished`,
  `EveryTableIsMapped`, `EveryArrivalAnswered`, `EveryAssignmentShown`): fairness and
  ENABLED are out of the prover's reach. Of five of them the safety half, that nothing is
  passed over on the way, is proved: `CommittedIsAudited`, `VoidIsOwed`, `EmittedIsKept`,
  `HandledIsAnswered`, `BoardFollowsTopics`.
- The Inspector's `ReadsTheRecords`: it compares with `truth`, the table a person
  sees in a file, which is a constant of the instance, so it is a check of the
  listed files and no theorem could be more.
- `DistanceUndoesMove`, and the properties the code violates.

## 6. Not modelled

- The queue ingress: no command starts it.
- The migration runner and object store beyond one put: temp file, rename and
  advisory lock act inside single steps of the modules above.
- Decoding of bytes, cell syntax, the flattening of nested elements, the FIX tags:
  text to values, without control.
- Similarities, prompts, `cross_check_amount` (a note for the reviewer) and
  `promotable` (called by nothing).
- Masking, logging, page rendering, the event hub (which only drops notifications
  of slow browsers), generated code.
- The corpus generator, benchmarks, metrics and task scripts: tooling that is no
  part of the running system.

## 7. Plan

1. *Done:* `Berthmaster` with its refinement of `SlotLedger`, `Portwatch` with its
   refinement of `ArrivalLedger`, `AuditChain` with its proof, `Calendar`, `Parsers`, `ValueDate`,
   `Inspector`, `Mapping`, `ReconStub`, `ControlPlane`, `Delivery`.
2. *Done:* the theorems of section 5, for every stateful component, and two
   refinements. *Left:* that the day the Inspector rolls to stays in Berthmaster's
   window, across `InspectorProofs` and `CalendarProofs`: each half is proved, but
   `ValueDate` has one calendar per client, and the prover cannot use a theorem of a
   module through an instance with such a parameter.
3. A migration and object-store module, if either gains a second writer.
