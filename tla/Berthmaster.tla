---------------------------- MODULE Berthmaster ----------------------------
(***************************************************************************)
(* Berthmaster: the slot state machine (go/internal/slot/slot.go) and the  *)
(* service around it (go/cmd/berthmaster/main.go).                         *)
(*                                                                         *)
(* One consumer goroutine applies ArrivalClassified messages to rows of    *)
(* the slot table and publishes assignments and voids; a timer goroutine   *)
(* (and any `berthmaster -sweep-once` process started beside it) marks     *)
(* overdue rows MISSING and publishes alerts.  They share the table and    *)
(* nothing else: no transaction spans a Get and the Upsert that follows    *)
(* it, so every database call and every publish is an action of its own.   *)
(*                                                                         *)
(* The bus is at-least-once: offsets are committed a polled batch at a     *)
(* time, after every message of the batch was handled, and a process that  *)
(* dies starts again from the last commit.                                 *)
(***************************************************************************)
EXTENDS Integers, Sequences, FiniteSets

CONSTANTS
  Slots,            \* slot keys: client, domain and value date
  Arrivals,         \* arrival ids
  NoArrival,        \* the empty arrival id
  HasClient,        \* slots whose client the registry knows
  HasExpectation,   \* slots whose client expects their domain
  FirstDay,         \* per slot, the first day it is accepted (Accepts)
  LastDay,          \* per slot, the last day it is accepted, and its deadline's day
  Messages,         \* the ArrivalClassified messages the Inspector may publish
  OneShots          \* concurrent `-sweep-once` processes

CONSTANTS           \* bounds of a model, not of the program
  MaxMsgs,          \* messages on hm.arrivals.classified
  MaxNow,           \* the last instant of the clock
  MaxCrashes,       \* process deaths
  MaxSweepFails     \* sweeps cut short by a database or bus error

(* The sides of a reconciliation, and the value sideName gives anything else. *)
Sides == {"INTERNAL_GL", "EXTERNAL_CLIENT"}
Unspecified == "UNSPECIFIED"

Message == [arrival : Arrivals, slot : Slots, side : Sides \cup {Unspecified},
            disposition : {"DISPATCHED", "QUARANTINED", "REJECTED"}]

ASSUME ConstantsAssumption ==
  /\ NoArrival \notin Arrivals
  /\ HasExpectation \subseteq HasClient
  /\ FirstDay \in [Slots -> Nat]
  /\ LastDay \in [Slots -> Nat]
  /\ Messages \subseteq Message
  /\ MaxMsgs \in Nat /\ MaxNow \in Nat /\ MaxCrashes \in Nat /\ MaxSweepFails \in Nat

(* Sweeps are processes somebody started. *)
ASSUME OneShotsAreFinite == IsFiniteSet(OneShots)

VARIABLES
  now,          \* the clock, in half days: 2d is day d up to 23:59, 2d + 1 its last minute
  classified,   \* hm.arrivals.classified, one partition
  committed,    \* the consumer group's committed offset
  pos,          \* messages handled, counted from the start of the topic
  batchEnd,     \* end of the polled batch
  h,            \* the consumer goroutine's locals
  sweeps,       \* each sweeper's locals
  rows,         \* the slot table
  assigned,     \* hm.berth.assigned; an assignment's id is its place in it
  superseded,   \* hm.berth.superseded
  alerts,       \* hm.alerts.missing
  trail,        \* Berthmaster's audit entries
  crashes,      \* process deaths so far
  sweepFails    \* sweeps cut short so far

consumerVars == <<committed, pos, batchEnd, h>>
topicVars == <<assigned, superseded, alerts>>
faultVars == <<crashes, sweepFails>>
vars == <<now, classified, consumerVars, sweeps, rows, topicVars, trail, faultVars>>

----------------------------------------------------------------------------
(* Slots *)

NoAssignment == 0
States == {"ABSENT", "PARTIAL", "ASSIGNED", "MISSING"}
Row == [state : States, side : [Sides -> Arrivals \cup {NoArrival}], aid : Nat]
NoRow == [state |-> "ABSENT", side |-> [d \in Sides |-> NoArrival], aid |-> NoAssignment]

Complete(s) == \A d \in Sides : s.side[d] # NoArrival

(* deadlineFor: 23:59 of the last accepted day; DueBefore compares with <. *)
DeadlinePassed(s) == now > 2 * LastDay[s]

Accepts(s) == FirstDay[s] <= now \div 2 /\ now \div 2 <= LastDay[s]

(* MissingSide names the internal side first. *)
MissingSide(s) ==
  IF s.side["INTERNAL_GL"] = NoArrival THEN "INTERNAL_GL"
  ELSE IF s.side["EXTERNAL_CLIENT"] = NoArrival THEN "EXTERNAL_CLIENT"
  ELSE Unspecified

(* What Apply makes of the row it read. *)
ApplySide(s, m) ==
  LET t == [s EXCEPT !.side[m.side] = m.arrival]
  IN  [t EXCEPT !.state = IF Complete(t) THEN "ASSIGNED" ELSE "PARTIAL"]

(* Mutant: a correction forgets what it replaces. *)
SupersedesNothing(s, m) == NoAssignment

(* The assignment the outcome supersedes: only a row that reads ASSIGNED is replaced. *)
Supersedes(s, m) ==
  IF s.state = "ASSIGNED" /\ Complete(ApplySide(s, m)) THEN s.aid ELSE NoAssignment

(* Mutant: a plain overwrite, no COALESCE. *)
MergeOverwrite(stored, s) == s

(* Mutant: COALESCE with its arguments swapped. *)
MergeKeepsStored(stored, s) ==
  [state |-> s.state,
   side  |-> [d \in Sides |-> IF stored.side[d] # NoArrival THEN stored.side[d] ELSE s.side[d]],
   aid   |-> IF s.aid # NoAssignment THEN s.aid ELSE stored.aid]

(* Upsert: the state is overwritten, empty sides and ids keep the stored ones. *)
Merge(stored, s) ==
  [state |-> s.state,
   side  |-> [d \in Sides |-> IF s.side[d] # NoArrival THEN s.side[d] ELSE stored.side[d]],
   aid   |-> IF s.aid # NoAssignment THEN s.aid ELSE stored.aid]

(* Apply returns an error other than ErrOutsideWindow: no calendar or client,   *)
(* or, for an accepted date, no expectation or an unknown side.                 *)
ApplyFails(m) ==
  \/ m.slot \notin HasClient
  \/ Accepts(m.slot) /\ (m.slot \notin HasExpectation \/ m.side \notin Sides)

----------------------------------------------------------------------------
(* The processes *)

HandlerSteps == {"idle", "reject", "upsert", "updated", "void", "assign",
                 "recordGet", "recordPut", "recorded"}
HandlerLocals == [step : HandlerSteps, arrival : Arrivals \cup {NoArrival},
                  slot : Slots \cup {NoArrival}, copy : Row, supersedes : Nat, id : Nat]
Idle == [step |-> "idle", arrival |-> NoArrival, slot |-> NoArrival, copy |-> NoRow,
         supersedes |-> NoAssignment, id |-> NoAssignment]

(* A sweep: rows read and not yet marked, rows marked and not yet alerted, and  *)
(* the copies DueBefore returned.                                               *)
SweepLocals == [todo : SUBSET Slots, marked : SUBSET Slots, copy : [Slots -> Row]]
NoSweep == [todo |-> {}, marked |-> {}, copy |-> [s \in Slots |-> NoRow]]
Loop == "loop"
Sweepers == {Loop} \cup OneShots

Init ==
  /\ now = 0
  /\ classified = <<>>
  /\ committed = 0 /\ pos = 0 /\ batchEnd = 0
  /\ h = Idle
  /\ sweeps = [w \in Sweepers |-> NoSweep]
  /\ rows = [s \in Slots |-> NoRow]
  /\ assigned = <<>> /\ superseded = <<>> /\ alerts = <<>>
  /\ trail = <<>>
  /\ crashes = 0 /\ sweepFails = 0

Audit(type, id) ==
  trail' = Append(trail, [type |-> type, arrival |-> h.arrival, slot |-> h.slot, id |-> id])

(* Returning nil from the handler. *)
Handled == h' = Idle /\ pos' = pos + 1 /\ UNCHANGED <<committed, batchEnd>>
Goto(step) == h' = [h EXCEPT !.step = step] /\ UNCHANGED <<committed, pos, batchEnd>>

----------------------------------------------------------------------------
(* The environment *)

(* The Inspector publishes a classification; it may publish the same one twice. *)
Classify ==
  /\ Len(classified) < MaxMsgs
  /\ \E m \in Messages : classified' = Append(classified, m)
  /\ UNCHANGED <<now, consumerVars, sweeps, rows, topicVars, trail, faultVars>>

Tick ==
  /\ now < MaxNow
  /\ now' = now + 1
  /\ UNCHANGED <<classified, consumerVars, sweeps, rows, topicVars, trail, faultVars>>

----------------------------------------------------------------------------
(* The consumer: franzConsumer.Consume *)

Poll ==
  /\ h.step = "idle" /\ pos = batchEnd /\ committed = pos
  /\ \E e \in pos + 1 .. Len(classified) : batchEnd' = e
  /\ UNCHANGED <<now, classified, committed, pos, h, sweeps, rows, topicVars, trail, faultVars>>

(* Mutant: the last message of the batch is left uncommitted. *)
CommitBatchShort ==
  /\ h.step = "idle" /\ pos = batchEnd /\ committed # pos
  /\ committed' = pos - 1
  /\ UNCHANGED <<now, classified, pos, batchEnd, h, sweeps, rows, topicVars, trail, faultVars>>

CommitBatch ==
  /\ h.step = "idle" /\ pos = batchEnd /\ committed # pos
  /\ committed' = pos
  /\ UNCHANGED <<now, classified, pos, batchEnd, h, sweeps, rows, topicVars, trail, faultVars>>

(* Mutant: the position survives the process. *)
RestartKeepsPosition ==
  /\ pos' = pos /\ batchEnd' = committed /\ h' = Idle
  /\ sweeps' = [sweeps EXCEPT ![Loop] = NoSweep]
  /\ UNCHANGED <<now, classified, committed, rows, topicVars, trail>>

(* The process ends and is started again: locals are lost, the batch comes back. *)
Restart ==
  /\ pos' = committed /\ batchEnd' = committed /\ h' = Idle
  /\ sweeps' = [sweeps EXCEPT ![Loop] = NoSweep]
  /\ UNCHANGED <<now, classified, committed, rows, topicVars, trail>>

Crash ==
  /\ crashes < MaxCrashes
  /\ crashes' = crashes + 1
  /\ Restart
  /\ UNCHANGED sweepFails

----------------------------------------------------------------------------
(* service.handle *)

Incoming == classified[pos + 1]
Receiving == h.step = "idle" /\ pos < batchEnd

SkipUndispatched ==
  /\ Receiving /\ Incoming.disposition # "DISPATCHED"
  /\ Handled
  /\ UNCHANGED <<now, classified, sweeps, rows, topicVars, trail, faultVars>>

(* Mutant: the error is swallowed and the offset moves on. *)
FailApplySwallowed ==
  /\ Receiving /\ Incoming.disposition = "DISPATCHED" /\ ApplyFails(Incoming)
  /\ Handled
  /\ UNCHANGED <<now, classified, sweeps, rows, topicVars, trail, faultVars>>

(* The handler's error ends Consume, run and the process, which starts again with *)
(* the same batch, for ever; MaxCrashes bounds how often.                         *)
FailApply ==
  /\ Receiving /\ Incoming.disposition = "DISPATCHED" /\ ApplyFails(Incoming)
  /\ crashes < MaxCrashes
  /\ crashes' = crashes + 1
  /\ Restart
  /\ UNCHANGED sweepFails

RefuseLate ==
  /\ Receiving /\ Incoming.disposition = "DISPATCHED"
  /\ ~ApplyFails(Incoming) /\ ~Accepts(Incoming.slot)
  /\ h' = [Idle EXCEPT !.step = "reject", !.arrival = Incoming.arrival, !.slot = Incoming.slot]
  /\ UNCHANGED <<now, classified, committed, pos, batchEnd, sweeps, rows, topicVars, trail, faultVars>>

AuditRejected ==
  /\ h.step = "reject"
  /\ Audit("SLOT_REJECTED", NoAssignment)
  /\ Handled
  /\ UNCHANGED <<now, classified, sweeps, rows, topicVars, faultVars>>

(* Apply up to its Upsert: the clock is checked and the row read here. *)
ApplyRead ==
  /\ Receiving /\ Incoming.disposition = "DISPATCHED"
  /\ ~ApplyFails(Incoming) /\ Accepts(Incoming.slot)
  /\ h' = [step |-> "upsert", arrival |-> Incoming.arrival, slot |-> Incoming.slot,
           copy |-> ApplySide(rows[Incoming.slot], Incoming),
           supersedes |-> Supersedes(rows[Incoming.slot], Incoming), id |-> NoAssignment]
  /\ UNCHANGED <<now, classified, committed, pos, batchEnd, sweeps, rows, topicVars, trail, faultVars>>

ApplyUpsert ==
  /\ h.step = "upsert"
  /\ rows' = [rows EXCEPT ![h.slot] = Merge(@, h.copy)]
  /\ Goto("updated")
  /\ UNCHANGED <<now, classified, sweeps, topicVars, trail, faultVars>>

AuditUpdated ==
  /\ h.step = "updated"
  /\ Audit("SLOT_UPDATED", NoAssignment)
  /\ \/ ~Complete(h.copy) /\ Handled
     \/ Complete(h.copy) /\ h.supersedes # NoAssignment /\ Goto("void")
     \/ Complete(h.copy) /\ h.supersedes = NoAssignment /\ Goto("assign")
  /\ UNCHANGED <<now, classified, sweeps, rows, topicVars, faultVars>>

(* Mutant: the void is forgotten. *)
PublishVoidDropped ==
  /\ h.step = "void"
  /\ Goto("assign")
  /\ UNCHANGED <<now, classified, sweeps, rows, topicVars, trail, faultVars>>

(* Mutant: the void goes out and the replacement does not. *)
PublishVoidOnly ==
  /\ h.step = "void"
  /\ superseded' = Append(superseded, [slot |-> h.slot, id |-> h.supersedes, by |-> h.arrival])
  /\ Handled
  /\ UNCHANGED <<now, classified, sweeps, rows, assigned, alerts, trail, faultVars>>

(* service.assign *)
PublishVoid ==
  /\ h.step = "void"
  /\ superseded' = Append(superseded, [slot |-> h.slot, id |-> h.supersedes, by |-> h.arrival])
  /\ Goto("assign")
  /\ UNCHANGED <<now, classified, sweeps, rows, assigned, alerts, trail, faultVars>>

PublishAssigned ==
  /\ h.step = "assign"
  /\ assigned' = Append(assigned, [slot |-> h.slot, side |-> h.copy.side,
                                   supersedes |-> h.supersedes])
  /\ h' = [h EXCEPT !.step = "recordGet", !.id = Len(assigned) + 1]
  /\ UNCHANGED <<now, classified, committed, pos, batchEnd, sweeps, rows, superseded, alerts,
                 trail, faultVars>>

(* RecordAssignment: a second Get and Upsert of the same row. *)
RecordGet ==
  /\ h.step = "recordGet"
  /\ h' = [h EXCEPT !.step = "recordPut",
                    !.copy = [rows[h.slot] EXCEPT !.aid = h.id, !.state = "ASSIGNED"]]
  /\ UNCHANGED <<now, classified, committed, pos, batchEnd, sweeps, rows, topicVars, trail, faultVars>>

RecordPut ==
  /\ h.step = "recordPut"
  /\ rows' = [rows EXCEPT ![h.slot] = Merge(@, h.copy)]
  /\ Goto("recorded")
  /\ UNCHANGED <<now, classified, sweeps, topicVars, trail, faultVars>>

AuditAssigned ==
  /\ h.step = "recorded"
  /\ Audit("BERTH_ASSIGNED", h.id)
  /\ Handled
  /\ UNCHANGED <<now, classified, sweeps, rows, topicVars, faultVars>>

----------------------------------------------------------------------------
(* service.sweep: Overdue, then one alert per row it marked *)

(* Mutant: DueBefore returns dispatched slots too. *)
DueAssigned == {s \in Slots : rows[s].state \notin {"ABSENT", "MISSING"} /\ DeadlinePassed(s)}

Due == {s \in Slots : rows[s].state \notin {"ABSENT", "ASSIGNED", "MISSING"} /\ DeadlinePassed(s)}

SweepRead(w) ==
  /\ sweeps[w] = NoSweep
  /\ Due # {}
  /\ sweeps' = [sweeps EXCEPT ![w] = [todo |-> Due, marked |-> {},
                  copy |-> [s \in Slots |-> IF s \in Due THEN rows[s] ELSE NoRow]]]
  /\ UNCHANGED <<now, classified, consumerVars, rows, topicVars, trail, faultVars>>

SweepMark(w) ==
  /\ \E s \in sweeps[w].todo :
       /\ rows' = [rows EXCEPT ![s] = Merge(@, [sweeps[w].copy[s] EXCEPT !.state = "MISSING"])]
       /\ sweeps' = [sweeps EXCEPT ![w].todo = @ \ {s}, ![w].marked = @ \cup {s}]
  /\ UNCHANGED <<now, classified, consumerVars, topicVars, trail, faultVars>>

(* The sweep moves on to the next marked row, or ends. *)
Alerted(sw, s) == IF sw.marked = {s} THEN NoSweep ELSE [sw EXCEPT !.marked = @ \ {s}]

(* Mutant: the loop over the overdue rows ends after the first alert. *)
SweepAlertFirst(w) ==
  /\ sweeps[w].todo = {}
  /\ \E s \in sweeps[w].marked :
       /\ alerts' = Append(alerts, [slot |-> s, missing |-> MissingSide(sweeps[w].copy[s])])
       /\ sweeps' = [sweeps EXCEPT ![w] = NoSweep]
  /\ UNCHANGED <<now, classified, consumerVars, rows, assigned, superseded, trail, faultVars>>

SweepAlert(w) ==
  /\ sweeps[w].todo = {}
  /\ \E s \in sweeps[w].marked :
       /\ alerts' = Append(alerts, [slot |-> s, missing |-> MissingSide(sweeps[w].copy[s])])
       /\ sweeps' = [sweeps EXCEPT ![w] = Alerted(@, s)]
  /\ UNCHANGED <<now, classified, consumerVars, rows, assigned, superseded, trail, faultVars>>

(* An Upsert or a Publish fails: sweep returns, and what it had marked is dropped. *)
SweepFail(w) ==
  /\ sweepFails < MaxSweepFails
  /\ sweeps[w] # NoSweep
  /\ sweepFails' = sweepFails + 1
  /\ sweeps' = [sweeps EXCEPT ![w] = NoSweep]
  /\ UNCHANGED <<now, classified, consumerVars, rows, topicVars, trail, crashes>>

----------------------------------------------------------------------------
Consume == Poll \/ CommitBatch
Handle ==
  \/ SkipUndispatched \/ FailApply \/ RefuseLate \/ AuditRejected
  \/ ApplyRead \/ ApplyUpsert \/ AuditUpdated
  \/ PublishVoid \/ PublishAssigned \/ RecordGet \/ RecordPut \/ AuditAssigned
Sweep(w) == SweepRead(w) \/ SweepMark(w) \/ SweepAlert(w)

Next ==
  \/ Classify \/ Tick \/ Crash
  \/ Consume \/ Handle
  \/ \E w \in Sweepers : Sweep(w) \/ SweepFail(w)

Spec == Init /\ [][Next]_vars

(* The consumer loop and the sweep timer keep running; arrivals, the clock,     *)
(* failures and one-shot sweeps are under no obligation.                        *)
FairSpec == Spec /\ WF_vars(Consume \/ Handle) /\ WF_vars(Sweep(Loop))

----------------------------------------------------------------------------
(* Properties *)

(* Types of every variable; the offsets are ordered, and a step that works on a  *)
(* slot knows which one.                                                        *)
TypeOK ==
  /\ now \in Nat
  /\ classified \in Seq(Messages)
  /\ committed \in Nat /\ pos \in Nat /\ batchEnd \in Nat
  /\ committed <= pos /\ pos <= batchEnd /\ batchEnd <= Len(classified)
  /\ h \in HandlerLocals
  /\ h.step # "idle" => h.slot \in Slots /\ h.arrival \in Arrivals /\ pos < batchEnd
  /\ sweeps \in [Sweepers -> SweepLocals]
  /\ rows \in [Slots -> Row]
  /\ assigned \in Seq([slot : Slots, side : [Sides -> Arrivals \cup {NoArrival}],
                        supersedes : Nat])
  /\ superseded \in Seq([slot : Slots, id : Nat, by : Arrivals])
  /\ alerts \in Seq([slot : Slots, missing : Sides \cup {Unspecified}])
  /\ trail \in Seq([type : {"SLOT_REJECTED", "SLOT_UPDATED", "BERTH_ASSIGNED"},
                     arrival : Arrivals, slot : Slots, id : Nat])
  /\ crashes \in Nat /\ sweepFails \in Nat

(* Voids name published assignments of their own slot, and an assignment that    *)
(* supersedes another is published after that one and after its void, whatever   *)
(* crashes, replays and sweeps happen in between (service.assign).               *)
SupersessionOrder ==
  /\ \A j \in DOMAIN superseded :
       /\ superseded[j].id \in DOMAIN assigned
       /\ assigned[superseded[j].id].slot = superseded[j].slot
  /\ \A i \in DOMAIN assigned :
       assigned[i].supersedes # NoAssignment =>
         /\ assigned[i].supersedes < i
         /\ \E j \in DOMAIN superseded : /\ superseded[j].id = assigned[i].supersedes
                                         /\ superseded[j].slot = assigned[i].slot

(* Arrival a was delivered, dispatched, for side d of slot s. *)
Delivered(a, s, d) ==
  \E k \in DOMAIN classified :
    /\ classified[k].arrival = a /\ classified[k].slot = s /\ classified[k].side = d
    /\ classified[k].disposition = "DISPATCHED"

(* Every assignment names, on each side, an arrival that was delivered for that  *)
(* very slot and side: no crash, stale sweep copy or merge pairs files of two    *)
(* reconciliations or leaves a side empty (Complete, Upsert's COALESCE, NFR-10). *)
AssignmentsTraceable ==
  \A i \in DOMAIN assigned : \A d \in Sides : Delivered(assigned[i].side[d], assigned[i].slot, d)

(* A PARTIAL row lacks a side and an ASSIGNED row lacks none, although the       *)
(* handler and the sweepers write stale copies over each other's rows.           *)
StateMatchesSides ==
  \A s \in Slots : /\ rows[s].state = "PARTIAL" => ~Complete(rows[s])
                   /\ rows[s].state = "ASSIGNED" => Complete(rows[s])

(* Every alert names the side that is owed (FR-35): sweep never publishes one    *)
(* with MissingSide's empty answer.                                             *)
AlertsNameASide == \A k \in DOMAIN alerts : alerts[k].missing \in Sides

(* A side that has arrived is never forgotten, and an issued assignment id never *)
(* erased, by any writer of the slot table (Upsert's COALESCE).                  *)
NothingForgotten ==
  [][\A s \in Slots :
       /\ \A d \in Sides : rows[s].side[d] # NoArrival => rows'[s].side[d] # NoArrival
       /\ rows[s].aid # NoAssignment => rows'[s].aid # NoAssignment]_rows

(* The assignments of a slot that no void has named. *)
Voided == {superseded[j].id : j \in DOMAIN superseded}
Live(s) == {i \in DOMAIN assigned : assigned[i].slot = s} \ Voided

(* At most one assignment of a slot is live at any moment: a correction, or a    *)
(* replay, voids what it replaces first (FR-9, FR-40).                           *)
AtMostOneLive == \A s \in Slots : Cardinality(Live(s)) <= 1

(* What can leave an assignment of slot s live that its row no longer says to    *)
(* void: a process death, which may strand one published assignment and forget   *)
(* one mark of the loop's sweep; a sweep cut short after its mark; a mark that   *)
(* has been alerted or is about to be.                                          *)
AlertsOf(s) == {k \in DOMAIN alerts : alerts[k].slot = s}
Marking(s) == {w \in Sweepers : s \in sweeps[w].marked}
Excused(s) == 2 * crashes + sweepFails + Cardinality(AlertsOf(s)) + Cardinality(Marking(s))

(* Every live assignment beyond the first is owed to a process death or to a     *)
(* sweep that overwrote the row (RecordAssignment, Overdue): replays, duplicates *)
(* and corrections alone never leave two.                                       *)
OrphansAccounted == \A s \in Slots : Cardinality(Live(s)) <= 1 + Excused(s)

(* The last delivery for side d of slot s, in the order of the topic. *)
LastDelivery(s, d) ==
  LET ks == {k \in DOMAIN classified : /\ classified[k].slot = s /\ classified[k].side = d
                                       /\ classified[k].disposition = "DISPATCHED"}
  IN  IF ks = {} THEN NoArrival
      ELSE classified[CHOOSE k \in ks : \A j \in ks : j <= k].arrival

CaughtUp == h.step = "idle" /\ committed = Len(classified)

(* Slot s has taken files from the first day on and its deadline has not passed.  *)
Open(s) == FirstDay[s] = 0 /\ ~DeadlinePassed(s)

(* Once the consumer has caught up, the row of every open slot holds the last    *)
(* file delivered for each side and its recorded assignment is live and pairs    *)
(* exactly those files, however often batches were replayed (Apply,              *)
(* RecordAssignment, Consume).                                                  *)
ConvergesToLatest ==
  CaughtUp => \A s \in Slots : Open(s) =>
    /\ \A d \in Sides : rows[s].side[d] = LastDelivery(s, d)
    /\ Complete(rows[s]) => /\ rows[s].aid \in Live(s)
                            /\ assigned[rows[s].aid].side = rows[s].side

(* Unless a sweep or its process was cut short, a row marked MISSING has been     *)
(* alerted, or its sweep is about to (Overdue marks before sweep publishes;      *)
(* FR-35).                                                                      *)
MissingIsAlerted ==
  crashes = 0 /\ sweepFails = 0 => \A s \in Slots : rows[s].state = "MISSING" =>
    \/ \E k \in DOMAIN alerts : alerts[k].slot = s
    \/ \E w \in Sweepers : s \in sweeps[w].marked

(* No dispatched message is passed over: what the group has committed left an    *)
(* entry in the audit trail, applied or refused, across deaths and replays       *)
(* ("offsets are committed only after the handler returns nil", bus.go).         *)
CommittedIsAudited ==
  \A n \in 1 .. committed : classified[n].disposition = "DISPATCHED" =>
    \E k \in DOMAIN trail : /\ trail[k].arrival = classified[n].arrival
                            /\ trail[k].slot = classified[n].slot

(* Across crashes, replays, corrections and duplicates, the two topics carry what  *)
(* SlotLedger promises their consumers: voids of issued assignments only, and a    *)
(* replacement only after the void of what it replaces (service.assign, ADR-005).  *)
Ledger == INSTANCE SlotLedger WITH issued <- assigned, voids <- superseded
ImplementsLedger == Ledger!LedgerSpec

(* Every message on the topic is handled and committed in the end (Consume),       *)
(* unless one message can never be applied: that one blocks its batch and all      *)
(* that follows.                                                                    *)
EveryMessageHandled ==
  \A n \in 1 .. MaxMsgs : Len(classified) >= n ~>
    \/ committed >= n
    \/ \E k \in DOMAIN classified : classified[k].disposition = "DISPATCHED" /\ ApplyFails(classified[k])

(* A void is followed by an assignment of the same slot that takes the place of  *)
(* the voided one (FR-9).                                                       *)
VoidedIsReplaced ==
  \A s \in Slots : \A i \in 1 .. MaxMsgs * (MaxCrashes + 1) :
    (\E j \in DOMAIN superseded : superseded[j].slot = s /\ superseded[j].id = i)
      ~> (\E k \in DOMAIN assigned : k > i /\ assigned[k].slot = s)

(* No death leaves a reconciliation voided and forgotten: an assignment of the   *)
(* same slot follows the void, or the message behind it has yet to be handled    *)
(* again, or the window has closed and its replay is refused (service.assign     *)
(* publishes the void first; Apply refuses by the clock of the replay; FR-9).    *)
VoidIsOwed ==
  \A j \in DOMAIN superseded :
    \/ \E k \in DOMAIN assigned : k > superseded[j].id /\ assigned[k].slot = superseded[j].slot
    \/ \E n \in pos + 1 .. Len(classified) :
         /\ classified[n].disposition = "DISPATCHED"
         /\ classified[n].arrival = superseded[j].by /\ classified[n].slot = superseded[j].slot
    \/ LastDay[superseded[j].slot] < now \div 2

(* A slot still waiting for a side when its deadline passes is alerted, unless   *)
(* the side comes after all (sweep, FR-35).                                     *)
OverdueIsAlerted ==
  \A s \in Slots :
    (rows[s].state = "PARTIAL" /\ DeadlinePassed(s))
      ~> (rows[s].state = "ASSIGNED" \/ \E k \in DOMAIN alerts : alerts[k].slot = s)
=============================================================================
