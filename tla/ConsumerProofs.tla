--------------------------- MODULE ConsumerProofs ---------------------------
(***************************************************************************)
(* More proofs about Berthmaster, for all values of its constants: what    *)
(* the consumer's offsets, the sweepers' marks and the recorded ids        *)
(* guarantee (bus.go's Consume; slot.go's Apply, RecordAssignment, Overdue; *)
(* berthmaster's handle, assign and sweep), and where a consumer that has  *)
(* caught up leaves the rows.                                              *)
(***************************************************************************)
EXTENDS BerthmasterProofs, FiniteSetTheorems

(* The audit trail has an entry for arrival a and slot s. *)
OnTrail(a, s) == \E k \in DOMAIN trail : trail[k].arrival = a /\ trail[k].slot = s

(* Message n was dispatched for slot s; for side d of it. *)
Concerns(n, s) == classified[n].slot = s /\ classified[n].disposition = "DISPATCHED"
Delivers(n, s, d) == Concerns(n, s) /\ classified[n].side = d

----------------------------------------------------------------------------
(* What steps do to the consumer. *)

(* Messages stay on the topic, and a new one is beyond what is being handled. *)
LEMMA MessagesStay ==
  ASSUME TypeOK, [Next]_vars
  PROVE  /\ \A n \in DOMAIN classified : n \in DOMAIN classified' /\ classified'[n] = classified[n]
         /\ \A n \in DOMAIN classified : n \in Nat /\ classified[n] \in Message
         /\ \A n \in DOMAIN classified' : n \in DOMAIN classified \/ n = Len(classified) + 1
         /\ classified' # classified => Classify
         /\ h.step # "idle" => pos + 1 \in DOMAIN classified
<1>1. classified \in Seq(Messages) /\ Messages \subseteq Message
  BY ConstantsAssumption DEF TypeOK
<1>2. \A n \in DOMAIN classified : n \in Nat /\ classified[n] \in Message
  BY <1>1
<1>3. h.step # "idle" => pos + 1 \in DOMAIN classified
  BY <1>1 DEF TypeOK
<1>4. classified' # classified => Classify
  BY DEF Next, vars, consumerVars, Tick, Crash, Restart, Consume,
         Poll, CommitBatch, Handle, SkipUndispatched, FailApply, RefuseLate, AuditRejected,
         ApplyRead, ApplyUpsert, AuditUpdated, PublishVoid, PublishAssigned, RecordGet, RecordPut,
         AuditAssigned, Sweep, SweepRead, SweepMark, SweepAlert, SweepFail
<1>5. ASSUME NEW m \in Messages, classified' = Append(classified, m)
      PROVE  /\ \A n \in DOMAIN classified : n \in DOMAIN classified' /\ classified'[n] = classified[n]
             /\ \A n \in DOMAIN classified' : n \in DOMAIN classified \/ n = Len(classified) + 1
  BY <1>1, <1>5, AppendFacts
<1>6. QED
  BY <1>2, <1>3, <1>4, <1>5, TopicsAppend

(* Entries stay on the audit trail, and Audit adds the handler's. *)
LEMMA TrailGrows ==
  ASSUME TypeOK, [Next]_vars
  PROVE  /\ \A k \in DOMAIN trail : k \in DOMAIN trail' /\ trail'[k] = trail[k]
         /\ h.step # "idle" /\ trail' # trail =>
              \E k \in DOMAIN trail' : trail'[k].arrival = h.arrival /\ trail'[k].slot = h.slot
<1> DEFINE T == [type : {"SLOT_REJECTED", "SLOT_UPDATED", "BERTH_ASSIGNED"},
                 arrival : Arrivals, slot : Slots, id : Nat]
<1>1. CASE trail' = trail
  BY <1>1 DEF OnTrail
<1>2. ASSUME NEW type \in {"SLOT_REJECTED", "SLOT_UPDATED", "BERTH_ASSIGNED"}, NEW id \in Nat,
             Audit(type, id), h.step # "idle"
      PROVE  /\ \A k \in DOMAIN trail : k \in DOMAIN trail' /\ trail'[k] = trail[k]
             /\ \E k \in DOMAIN trail' : trail'[k].arrival = h.arrival /\ trail'[k].slot = h.slot
  <2> DEFINE e == [type |-> type, arrival |-> h.arrival, slot |-> h.slot, id |-> id]
  <2>1. e \in T /\ trail \in Seq(T) /\ trail' = Append(trail, e)
    BY <1>2 DEF Audit, TypeOK
  <2>2. e.arrival = h.arrival /\ e.slot = h.slot
    OBVIOUS
  <2> HIDE DEF T, e
  <2>3. QED
    BY <2>1, <2>2, AppendFacts
<1>3. \/ trail' = trail
      \/ /\ h.step # "idle"
         /\ Audit("SLOT_REJECTED", NoAssignment) \/ Audit("SLOT_UPDATED", NoAssignment)
            \/ (Audit("BERTH_ASSIGNED", h.id) /\ h.id \in Nat)
  BY DEF Next, vars, consumerVars, Classify, Tick, Crash, Restart, Consume,
         Poll, CommitBatch, Handle, SkipUndispatched, FailApply, RefuseLate, AuditRejected,
         ApplyRead, ApplyUpsert, AuditUpdated, PublishVoid, PublishAssigned, RecordGet, RecordPut,
         AuditAssigned, Sweep, SweepRead, SweepMark, SweepAlert, SweepFail, TypeOK, HandlerLocals
<1>4. QED
  BY <1>1, <1>2, <1>3 DEF OnTrail, NoAssignment

(* A step leaves the handler alone, puts the consumer back to its last commit,   *)
(* finishes a message, takes one up, or goes on with it.                         *)
LEMMA HandlerMoves ==
  ASSUME TypeOK, [Next]_vars
  PROVE  \/ h' = h /\ pos' = pos
         \/ Crash \/ FailApply
         \/ SkipUndispatched \/ RefuseLate \/ AuditRejected \/ ApplyRead \/ AuditUpdated
         \/ AuditAssigned
         \/ /\ ApplyUpsert \/ PublishVoid \/ PublishAssigned \/ RecordGet \/ RecordPut
            /\ pos' = pos /\ h'.slot = h.slot /\ h'.arrival = h.arrival
            /\ classified' = classified /\ h.step \notin {"idle", "reject"}
            /\ h'.step # "reject"
<1>1. CASE ApplyUpsert \/ PublishVoid \/ PublishAssigned \/ RecordGet \/ RecordPut
  <2>1. h \in HandlerLocals
    BY DEF TypeOK
  <2>2. QED
    BY <1>1, <2>1 DEF ApplyUpsert, PublishVoid, PublishAssigned, RecordGet, RecordPut, Goto, HandlerLocals
<1>2. QED
  BY <1>1 DEF Next, vars, consumerVars, Classify, Tick, Consume, Poll, CommitBatch, Handle,
              Sweep, SweepRead, SweepMark, SweepAlert, SweepFail

----------------------------------------------------------------------------
(* Offsets and the audit trail. *)

(* The handler works on the message after the last one handled. *)
HandlesIncoming ==
  h.step # "idle" =>
    /\ Concerns(pos + 1, h.slot)
    /\ classified[pos + 1].arrival = h.arrival
    /\ h.step # "reject" => classified[pos + 1].side \in Sides

(* Every dispatched message before the position is on the trail. *)
HandledIsAudited ==
  \A n \in 1 .. pos : classified[n].disposition = "DISPATCHED" =>
    OnTrail(classified[n].arrival, classified[n].slot)

(* An assignment is published after its slot's update was recorded. *)
AuditedFirst ==
  h.step \in {"void", "assign", "recordGet", "recordPut", "recorded"} => OnTrail(h.arrival, h.slot)

AuditInv == HandlesIncoming /\ HandledIsAudited /\ AuditedFirst

(* Nothing is handled at first. *)
LEMMA AuditInit == Init => AuditInv
BY LocalsType DEF Init, AuditInv, HandlesIncoming, HandledIsAudited, AuditedFirst

(* The handler stays on its message. *)
LEMMA HandlesIncomingStep ==
  ASSUME TypeOK, AuditInv, [Next]_vars
  PROVE  HandlesIncoming'
<1>1. CASE h'.step = "idle"
  BY <1>1 DEF HandlesIncoming
<1>2. CASE RefuseLate \/ ApplyRead
  <2>1. /\ classified' = classified /\ pos' = pos /\ h'.slot = Incoming.slot /\ h'.arrival = Incoming.arrival
        /\ Incoming.disposition = "DISPATCHED" /\ (h'.step = "reject" \/ Incoming.side \in Sides)
    <3>1. CASE RefuseLate
      BY <3>1 DEF RefuseLate, Idle
    <3>2. CASE ApplyRead
      BY <3>2 DEF ApplyRead, ApplyFails
    <3>3. QED
      BY <1>2, <3>1, <3>2
  <2>2. QED
    BY <2>1 DEF HandlesIncoming, Concerns, Incoming
<1>3. CASE /\ pos' = pos /\ h'.slot = h.slot /\ h'.arrival = h.arrival
           /\ h.step # "idle" /\ (h.step = "reject" => h'.step = "reject")
  <2>1. pos + 1 \in DOMAIN classified
    BY <1>3, MessagesStay
  <2>2. classified'[pos + 1] = classified[pos + 1]
    BY <2>1, MessagesStay
  <2>3. QED
    BY <1>3, <2>2 DEF AuditInv, HandlesIncoming, Concerns
<1>4. CASE AuditUpdated /\ h'.step # "idle"
  BY <1>3, <1>4, LocalsType DEF AuditUpdated, Handled, Goto, TypeOK, HandlerLocals
<1>5. CASE Crash \/ FailApply \/ SkipUndispatched \/ AuditRejected \/ AuditAssigned
  BY <1>1, <1>5, LocalsType DEF Crash, FailApply, Restart, SkipUndispatched, AuditRejected, AuditAssigned, Handled
<1>6. QED
  BY <1>1, <1>2, <1>3, <1>4, <1>5, HandlerMoves

(* The position passes a dispatched message only after an audit entry for it. *)
LEMMA HandledIsAuditedStep ==
  ASSUME TypeOK, AuditInv, [Next]_vars
  PROVE  HandledIsAudited'
<1>1. \A n \in 1 .. pos : n \in DOMAIN classified /\ classified'[n] = classified[n]
  <2>1. \A n \in 1 .. pos : n \in DOMAIN classified
    BY DEF TypeOK
  <2>2. QED
    BY <2>1, MessagesStay
<1>2. \A n \in 1 .. pos : classified'[n].disposition = "DISPATCHED" =>
        OnTrail(classified[n].arrival, classified[n].slot)
  BY <1>1 DEF AuditInv, HandledIsAudited
<1>3. \A n \in 1 .. pos : classified'[n].disposition = "DISPATCHED" =>
        \E k \in DOMAIN trail' : trail'[k].arrival = classified'[n].arrival
                                 /\ trail'[k].slot = classified'[n].slot
  <2> TAKE n \in 1 .. pos
  <2> HAVE classified'[n].disposition = "DISPATCHED"
  <2>1. OnTrail(classified[n].arrival, classified[n].slot)
    BY <1>2
  <2>2. PICK k \in DOMAIN trail : trail[k].arrival = classified[n].arrival
                                  /\ trail[k].slot = classified[n].slot
    BY <2>1 DEF OnTrail
  <2>3. k \in DOMAIN trail' /\ trail'[k] = trail[k]
    BY <2>2, TrailGrows
  <2>4. QED
    BY <1>1, <2>2, <2>3
<1>4. CASE pos' <= pos
  <2>1. \A n \in 1 .. pos' : n \in 1 .. pos
    <3>1. pos \in Nat /\ pos' \in Nat
      BY TypeStep DEF TypeOK
    <3>2. QED
      BY <1>4, <3>1
  <2>2. QED
    BY <1>3, <2>1 DEF HandledIsAudited, OnTrail
<1>5. ASSUME pos' = pos + 1,
             classified'[pos + 1].disposition = "DISPATCHED" =>
               \E k \in DOMAIN trail' : trail'[k].arrival = classified'[pos + 1].arrival
                                        /\ trail'[k].slot = classified'[pos + 1].slot
      PROVE  HandledIsAudited'
  <2>1. \A n \in 1 .. pos' : n \in 1 .. pos \/ n = pos + 1
    BY <1>5 DEF TypeOK
  <2>2. QED
    BY <1>3, <1>5, <2>1 DEF HandledIsAudited, OnTrail
<1>6. CASE SkipUndispatched
  <2>1. pos' = pos + 1 /\ classified'[pos + 1].disposition # "DISPATCHED"
    BY <1>6 DEF SkipUndispatched, Handled, Incoming
  <2>2. QED
    BY <1>5, <2>1
<1>7. CASE (AuditRejected \/ AuditUpdated \/ AuditAssigned) /\ pos' = pos + 1
  <2>1. h.step # "idle" /\ classified' = classified
    BY <1>7 DEF AuditRejected, AuditUpdated, AuditAssigned
  <2>2. classified[pos + 1].arrival = h.arrival /\ classified[pos + 1].slot = h.slot
    BY <2>1 DEF AuditInv, HandlesIncoming, Concerns
  <2>3. \E k \in DOMAIN trail' : trail'[k].arrival = h.arrival /\ trail'[k].slot = h.slot
    <3>1. CASE trail' # trail
      BY <2>1, <3>1, TrailGrows
    <3>2. PICK type \in {"SLOT_REJECTED", "SLOT_UPDATED", "BERTH_ASSIGNED"}, id \in Nat : Audit(type, id)
      BY <1>7 DEF AuditRejected, AuditUpdated, AuditAssigned, TypeOK, HandlerLocals, NoAssignment
    <3>3. trail' # trail
      BY <3>2 DEF Audit, TypeOK
    <3>4. QED
      BY <3>1, <3>3
  <2>4. QED
    BY <1>5, <1>7, <2>1, <2>2, <2>3
<1>8. pos' <= pos \/ pos' = pos + 1
  BY DEF Next, vars, consumerVars, Classify, Tick, Crash, Restart, Consume,
         Poll, CommitBatch, Handle, SkipUndispatched, FailApply, RefuseLate, AuditRejected,
         ApplyRead, ApplyUpsert, AuditUpdated, PublishVoid, PublishAssigned, RecordGet, RecordPut,
         AuditAssigned, Sweep, SweepRead, SweepMark, SweepAlert, SweepFail, Handled, Goto, TypeOK
<1>9. pos' = pos + 1 => SkipUndispatched \/ AuditRejected \/ AuditUpdated \/ AuditAssigned
  BY HandlerMoves DEF Crash, FailApply, Restart, RefuseLate, ApplyRead, TypeOK
<1>10. QED
  BY <1>4, <1>6, <1>7, <1>8, <1>9

(* Voids and assignments go out after the audit entry of the update. *)
LEMMA AuditedFirstStep ==
  ASSUME TypeOK, AuditInv, [Next]_vars
  PROVE  AuditedFirst'
<1> DEFINE Late == {"void", "assign", "recordGet", "recordPut", "recorded"}
<1>1. CASE h'.step \notin Late
  BY <1>1 DEF AuditedFirst
<1>2. CASE h.step \in Late /\ h'.slot = h.slot /\ h'.arrival = h.arrival
  <2>1. OnTrail(h.arrival, h.slot)
    BY <1>2 DEF AuditInv, AuditedFirst
  <2>2. \E k \in DOMAIN trail' : trail'[k].arrival = h.arrival /\ trail'[k].slot = h.slot
    <3>1. PICK k \in DOMAIN trail : trail[k].arrival = h.arrival /\ trail[k].slot = h.slot
      BY <2>1 DEF OnTrail
    <3>2. k \in DOMAIN trail' /\ trail'[k] = trail[k]
      BY <3>1, TrailGrows
    <3>3. QED
      BY <3>1, <3>2
  <2>3. QED
    BY <1>2, <2>2 DEF AuditedFirst, OnTrail
<1>3. CASE AuditUpdated /\ h'.step \in Late
  <2>1. h'.slot = h.slot /\ h'.arrival = h.arrival
    BY <1>3, LocalsType DEF AuditUpdated, Handled, Goto, TypeOK, HandlerLocals
  <2>2. h.step # "idle" /\ trail' # trail
    BY <1>3 DEF AuditUpdated, Audit, TypeOK
  <2>3. QED
    BY <2>1, <2>2, TrailGrows DEF AuditedFirst, OnTrail
<1>4. CASE ApplyUpsert
  <2>1. h'.step = "updated"
    BY <1>4 DEF ApplyUpsert, Goto, TypeOK, HandlerLocals
  <2>2. QED
    BY <1>1, <2>1
<1>5. CASE Crash \/ FailApply \/ SkipUndispatched \/ RefuseLate \/ AuditRejected \/ ApplyRead \/ AuditAssigned
  <2>1. CASE RefuseLate
    BY <2>1 DEF RefuseLate, Idle, AuditedFirst
  <2>2. CASE ApplyRead
    BY <2>2 DEF ApplyRead, AuditedFirst
  <2>3. CASE Crash \/ FailApply \/ SkipUndispatched \/ AuditRejected \/ AuditAssigned
    BY <1>1, <2>3, LocalsType DEF Crash, FailApply, Restart, SkipUndispatched, AuditRejected, AuditAssigned, Handled
  <2>4. QED
    BY <1>5, <2>1, <2>2, <2>3
<1>6. CASE (PublishVoid \/ PublishAssigned \/ RecordGet \/ RecordPut)
           /\ h'.slot = h.slot /\ h'.arrival = h.arrival
  BY <1>2, <1>6 DEF PublishVoid, PublishAssigned, RecordGet, RecordPut
<1>7. QED
  BY <1>1, <1>2, <1>3, <1>4, <1>5, <1>6, HandlerMoves

(* The invariant behind the committed offsets. *)
LEMMA AuditInvariant == Spec => []AuditInv
<1>1. TypeOK /\ AuditInv /\ [Next]_vars => AuditInv'
  BY HandlesIncomingStep, HandledIsAuditedStep, AuditedFirstStep DEF AuditInv
<1>2. QED
  BY <1>1, AuditInit, TypeCorrect, PTL DEF Spec

(* No crash, replay or refused batch makes the group's offset pass a dispatched   *)
(* message that left no audit entry: Consume commits only what handle finished.   *)
THEOREM CommittedMessagesAreAudited == Spec => []CommittedIsAudited
<1>1. TypeOK /\ AuditInv => CommittedIsAudited
  <2> SUFFICES ASSUME TypeOK, AuditInv PROVE CommittedIsAudited
    OBVIOUS
  <2>1. \A n \in 1 .. committed : n \in 1 .. pos
    BY DEF TypeOK
  <2>2. QED
    BY <2>1 DEF AuditInv, HandledIsAudited, OnTrail, CommittedIsAudited
<1>2. QED
  BY <1>1, AuditInvariant, TypeCorrect, PTL

----------------------------------------------------------------------------
(* Marks and alerts. *)

(* An alert went out for slot s, or the sweep that marked it has yet to send it. *)
AlertDue(s) == (\E k \in DOMAIN alerts : alerts[k].slot = s) \/ (\E w \in Sweepers : s \in sweeps[w].marked)

(* Only a sweep turns a row MISSING, and it marks the row in the same step. *)
LEMMA MissingIsMarked ==
  ASSUME IInv, [Next]_vars, NEW s \in Slots, rows'[s].state = "MISSING", rows[s].state # "MISSING"
  PROVE  \E w \in Sweepers : s \in sweeps'[w].marked
<1>1. CASE ApplyUpsert \/ RecordPut
  <2>1. h.slot \in Slots /\ h.copy \in Row /\ rows[h.slot] \in Row /\ h.copy.state # "MISSING"
    BY <1>1 DEF ApplyUpsert, RecordPut, IInv, TypeOK, HandlerLocals, HandlerInv
  <2>2. rows' = [rows EXCEPT ![h.slot] = Merge(rows[h.slot], h.copy)]
    BY <1>1 DEF ApplyUpsert, RecordPut
  <2>3. Merge(rows[h.slot], h.copy).state # "MISSING"
    BY <2>1, MergeType
  <2>4. QED
    BY <2>1, <2>2, <2>3 DEF IInv, TypeOK
<1>2. ASSUME NEW w \in Sweepers, SweepMark(w) PROVE s \in sweeps'[w].marked
  <2>1. PICK t \in sweeps[w].todo :
          /\ rows' = [rows EXCEPT ![t] = Merge(@, [sweeps[w].copy[t] EXCEPT !.state = "MISSING"])]
          /\ sweeps' = [sweeps EXCEPT ![w].todo = @ \ {t}, ![w].marked = @ \cup {t}]
    BY <1>2 DEF SweepMark
  <2>2. t = s
    BY <2>1 DEF IInv, TypeOK
  <2>3. sweeps[w] \in SweepLocals /\ sweeps \in [Sweepers -> SweepLocals]
    BY DEF IInv, TypeOK
  <2>4. sweeps'[w].marked = sweeps[w].marked \cup {t}
    BY <2>1, <2>3 DEF SweepLocals
  <2>5. QED
    BY <2>2, <2>4
<1>3. QED
  BY <1>1, <1>2, TopicsAppend DEF IInv

(* Unless a sweeper dies or fails, a mark goes only when its alert is published. *)
LEMMA AlertStaysDue ==
  ASSUME IInv, [Next]_vars, NEW s \in Slots, AlertDue(s), crashes' = 0, sweepFails' = 0
  PROVE  \/ \E k \in DOMAIN alerts' : alerts'[k].slot = s
         \/ \E w \in Sweepers : s \in sweeps'[w].marked
<1> DEFINE A == [slot : Slots, missing : Sides \cup {Unspecified}]
<1>1. CASE sweeps' = sweeps /\ alerts' = alerts
  BY <1>1 DEF AlertDue
<1>2. ASSUME NEW v \in Sweepers, SweepRead(v) PROVE \/ \E k \in DOMAIN alerts' : alerts'[k].slot = s
                                                    \/ \E w \in Sweepers : s \in sweeps'[w].marked
  <2>1. sweeps[v].marked = {} /\ alerts' = alerts /\ \A w \in Sweepers : w # v => sweeps'[w] = sweeps[w]
    BY <1>2 DEF SweepRead, NoSweep, topicVars, IInv, TypeOK
  <2>2. QED
    BY <2>1 DEF AlertDue
<1>3. ASSUME NEW v \in Sweepers, SweepMark(v) PROVE \/ \E k \in DOMAIN alerts' : alerts'[k].slot = s
                                                    \/ \E w \in Sweepers : s \in sweeps'[w].marked
  <2>1. PICK t \in sweeps[v].todo :
          sweeps' = [sweeps EXCEPT ![v].todo = @ \ {t}, ![v].marked = @ \cup {t}]
    BY <1>3 DEF SweepMark
  <2>2. sweeps[v] \in SweepLocals /\ sweeps \in [Sweepers -> SweepLocals]
    BY DEF IInv, TypeOK
  <2>3. sweeps'[v].marked = sweeps[v].marked \cup {t} /\ \A w \in Sweepers : w # v => sweeps'[w] = sweeps[w]
    BY <2>1, <2>2 DEF SweepLocals
  <2>4. alerts' = alerts
    BY <1>3 DEF SweepMark, topicVars
  <2>5. QED
    BY <2>3, <2>4 DEF AlertDue
<1>4. ASSUME NEW v \in Sweepers, SweepAlert(v) PROVE \/ \E k \in DOMAIN alerts' : alerts'[k].slot = s
                                                     \/ \E w \in Sweepers : s \in sweeps'[w].marked
  <2>1. PICK t \in sweeps[v].marked :
          /\ alerts' = Append(alerts, [slot |-> t, missing |-> MissingSide(sweeps[v].copy[t])])
          /\ sweeps' = [sweeps EXCEPT ![v] = Alerted(@, t)]
    BY <1>4 DEF SweepAlert
  <2> DEFINE a == [slot |-> t, missing |-> MissingSide(sweeps[v].copy[t])]
  <2>2. sweeps[v] \in SweepLocals /\ sweeps \in [Sweepers -> SweepLocals] /\ t \in Slots
    BY <2>1 DEF IInv, TypeOK, SweepLocals
  <2>3. a \in A /\ a.slot = t /\ alerts \in Seq(A) /\ alerts' = Append(alerts, a)
    <3>1. MissingSide(sweeps[v].copy[t]) \in Sides \cup {Unspecified}
      BY DEF MissingSide, Sides
    <3>2. QED
      BY <2>1, <2>2, <3>1 DEF IInv, TypeOK
  <2> HIDE DEF A, a
  <2>4. /\ \A k \in DOMAIN alerts : k \in DOMAIN alerts' /\ alerts'[k] = alerts[k]
        /\ \E k \in DOMAIN alerts' : alerts'[k].slot = t
    BY <2>3, AppendFacts
  <2>5. /\ sweeps'[v] = Alerted(sweeps[v], t)
        /\ \A w \in Sweepers : w # v => sweeps'[w] = sweeps[w]
    BY <2>1, <2>2
  <2>6. s \in sweeps[v].marked => s = t \/ s \in Alerted(sweeps[v], t).marked
    BY <2>2 DEF Alerted, SweepLocals
  <2>7. QED
    BY <2>4, <2>5, <2>6 DEF AlertDue
<1>5. ~Crash /\ ~FailApply /\ \A w \in Sweepers : ~SweepFail(w)
  BY DEF Crash, FailApply, SweepFail, IInv, TypeOK
<1>6. \/ sweeps' = sweeps /\ alerts' = alerts
      \/ \E w \in Sweepers : SweepRead(w) \/ SweepMark(w) \/ SweepAlert(w)
  BY <1>5 DEF Next, vars, consumerVars, topicVars, Classify, Tick, Consume, Poll, CommitBatch, Handle,
         SkipUndispatched, RefuseLate, AuditRejected, ApplyRead, ApplyUpsert, AuditUpdated,
         PublishVoid, PublishAssigned, RecordGet, RecordPut, AuditAssigned, Sweep
<1>7. QED
  BY <1>1, <1>2, <1>3, <1>4, <1>6

(* The number of deaths and of failed sweeps only grows. *)
LEMMA FaultsCount ==
  ASSUME TypeOK, [Next]_vars
  PROVE  /\ crashes' = crashes \/ crashes' = crashes + 1
         /\ sweepFails' = sweepFails \/ sweepFails' = sweepFails + 1
BY DEF Next, vars, faultVars, consumerVars, topicVars, Classify, Tick, Crash, Restart, Consume, Poll,
       CommitBatch, Handle, SkipUndispatched, FailApply, RefuseLate, AuditRejected, ApplyRead,
       ApplyUpsert, AuditUpdated, PublishVoid, PublishAssigned, RecordGet, RecordPut,
       AuditAssigned, Sweep, SweepRead, SweepMark, SweepAlert, SweepFail

(* A process that has not died owes no alert it has forgotten: sweep publishes    *)
(* one for every row Overdue marked, however the consumer and the sweepers        *)
(* interleave.  A death between mark and alert loses the alert for good: the row  *)
(* then reads MISSING and is not due again.                                       *)
THEOREM MissingSlotsAreAlerted == Spec => []MissingIsAlerted
<1>1. Init => MissingIsAlerted
  BY DEF Init, MissingIsAlerted, NoRow
<1>2. IInv /\ MissingIsAlerted /\ [Next]_vars => MissingIsAlerted'
  <2> SUFFICES ASSUME IInv, MissingIsAlerted, [Next]_vars, crashes' = 0, sweepFails' = 0,
                      NEW s \in Slots, rows'[s].state = "MISSING"
               PROVE  \/ \E k \in DOMAIN alerts' : alerts'[k].slot = s
                      \/ \E w \in Sweepers : s \in sweeps'[w].marked
    BY DEF MissingIsAlerted
  <2>1. crashes = 0 /\ sweepFails = 0
    BY FaultsCount DEF IInv, TypeOK
  <2>2. CASE rows[s].state = "MISSING"
    <3>1. AlertDue(s)
      BY <2>1, <2>2 DEF MissingIsAlerted, AlertDue
    <3>2. QED
      BY <3>1, AlertStaysDue
  <2>3. CASE rows[s].state # "MISSING"
    BY <2>3, MissingIsMarked
  <2>4. QED
    BY <2>2, <2>3
<1>3. QED
  BY <1>1, <1>2, Invariance, PTL DEF Spec

----------------------------------------------------------------------------
(* Convergence.  A window that closes brings in sweepers, whose stale copies may  *)
(* undo either, and late refusals, so both theorems below are about open slots    *)
(* (Apply, RecordAssignment, Overdue, service.assign, Consume).                   *)

(* Steps after the row was written, and after its new assignment was published. *)
Written == h.step \in {"updated", "void", "assign", "recordGet", "recordPut", "recorded"}
Numbered == h.step \in {"recordGet", "recordPut", "recorded"}

(* Sweepers hold rows of slots whose deadline passed. *)
SweptIsOverdue == \A w \in Sweepers : \A s \in sweeps[w].todo \cup sweeps[w].marked : DeadlinePassed(s)

(* On an open slot the handler is the only writer: its copy is the row, with the *)
(* message applied, and what it publishes is what the row holds.                 *)
HandlerHolds ==
  /\ h.step = "reject" => ~Open(h.slot)
  /\ Numbered => h.id \in Live(h.slot)
  /\ h.step # "idle" /\ Open(h.slot) =>
       LET row == rows[h.slot]
           side == classified[pos + 1].side
       IN  /\ h.step = "upsert" => h.copy.side = [row.side EXCEPT ![side] = h.arrival]
           /\ Written => row.side[side] = h.arrival /\ h.copy.side = row.side
           /\ Numbered => Complete(row) /\ assigned[h.id].side = row.side
           /\ h.step = "recordPut" => h.copy.aid = h.id
           /\ h.step = "recorded" => row.aid = h.id

(* The base: what the other modules proved. *)
Base == IInv /\ AuditInv /\ SweptIsOverdue

----------------------------------------------------------------------------
(* An open slot has been open, and accepts. *)
LEMMA OpenBefore ==
  ASSUME TypeOK, [Next]_vars, NEW s \in Slots
  PROVE  /\ DeadlinePassed(s) => DeadlinePassed(s)'
         /\ Open(s)' => Open(s)
         /\ Open(s) => Accepts(s)
<1>1. now \in Nat /\ now' \in Nat /\ now <= now'
  <2>1. now \in Nat /\ now' \in Nat
    BY TypeStep DEF TypeOK
  <2>2. now' = now \/ now' = now + 1
    BY DEF Next, vars, consumerVars, Classify, Tick, Crash, Restart, Consume, Poll,
         CommitBatch, Handle, SkipUndispatched, FailApply, RefuseLate, AuditRejected, ApplyRead,
         ApplyUpsert, AuditUpdated, PublishVoid, PublishAssigned, RecordGet, RecordPut,
         AuditAssigned, Sweep, SweepRead, SweepMark, SweepAlert, SweepFail
  <2>3. QED
    BY <2>1, <2>2
<1>2. LastDay[s] \in Nat /\ FirstDay[s] \in Nat
  BY ConstantsAssumption
<1>3. DeadlinePassed(s) => DeadlinePassed(s)'
  BY <1>1, <1>2 DEF DeadlinePassed
<1>4. Open(s) => Accepts(s)
  <2>1. \A n, l \in Nat : n <= 2 * l => n \div 2 <= l /\ 0 <= n \div 2
    OBVIOUS
  <2>2. QED
    BY <1>1, <1>2, <2>1 DEF Open, Accepts, DeadlinePassed
<1>5. QED
  BY <1>3, <1>4 DEF Open

(* Sweepers read overdue rows only. *)
LEMMA SweptStep ==
  ASSUME TypeOK, SweptIsOverdue, [Next]_vars
  PROVE  SweptIsOverdue'
<1> SUFFICES ASSUME NEW w \in Sweepers, NEW s \in sweeps'[w].todo \cup sweeps'[w].marked
             PROVE  DeadlinePassed(s)'
  BY DEF SweptIsOverdue
<1>1. s \in Slots
  BY TypeStep DEF TypeOK, SweepLocals
<1>2. CASE SweepRead(w)
  <2>1. sweeps'[w].todo = Due /\ sweeps'[w].marked = {}
    BY <1>2 DEF SweepRead, TypeOK
  <2>2. DeadlinePassed(s)
    BY <2>1 DEF Due
  <2>3. QED
    BY <1>1, <2>2, OpenBefore
<1>3. CASE s \in sweeps[w].todo \cup sweeps[w].marked
  BY <1>1, <1>3, OpenBefore DEF SweptIsOverdue
<1>4. QED
  BY <1>2, <1>3, SweepMoves DEF NoSweep

(* Only the handler writes the row of an open slot. *)
LEMMA OpenRow ==
  ASSUME Base, [Next]_vars, NEW s \in Slots, Open(s)
  PROVE  \/ rows'[s] = rows[s]
         \/ h.slot = s /\ (ApplyUpsert \/ RecordPut) /\ rows'[s] = Merge(rows[s], h.copy)
<1>1. CASE ApplyUpsert \/ RecordPut
  BY <1>1 DEF ApplyUpsert, RecordPut, Base, IInv, TypeOK
<1>2. ASSUME NEW w \in Sweepers, SweepMark(w) PROVE rows'[s] = rows[s]
  <2>1. PICK t \in sweeps[w].todo :
          rows' = [rows EXCEPT ![t] = Merge(@, [sweeps[w].copy[t] EXCEPT !.state = "MISSING"])]
    BY <1>2 DEF SweepMark
  <2>2. t # s
    BY <2>1 DEF Base, SweptIsOverdue, Open
  <2>3. QED
    BY <2>1, <2>2 DEF Base, IInv, TypeOK
<1>3. QED
  BY <1>1, <1>2, TopicsAppend DEF Base, IInv

(* A live assignment of a slot stays live unless the handler voids one of that slot. *)
LEMMA LiveStays ==
  ASSUME Base, [Next]_vars, NEW s \in Slots, NEW id \in Live(s), h.step # "void" \/ h.slot # s
  PROVE  id \in Live(s)' /\ assigned'[id] = assigned[id]
<1>1. id \in DOMAIN assigned' /\ assigned'[id] = assigned[id] /\ assigned[id].slot = s
  BY AssignedStays DEF Live, Base, IInv
<1>2. ASSUME NEW j \in DOMAIN superseded' PROVE superseded'[j].id # id
  <2>1. CASE j \in DOMAIN superseded
    <3>1. superseded'[j] = superseded[j]
      BY <2>1, VoidsStay DEF Base, IInv
    <3>2. QED
      BY <2>1, <3>1 DEF Live, Voided
  <2>2. CASE PublishVoid /\ j \notin DOMAIN superseded
    <3> DEFINE V == [slot : Slots, id : Nat, by : Arrivals]
               v == [slot |-> h.slot, id |-> h.supersedes, by |-> h.arrival]
    <3>1. v \in V /\ superseded \in Seq(V) /\ superseded' = Append(superseded, v)
      BY <2>2 DEF PublishVoid, Base, IInv, TypeOK, HandlerLocals
    <3>2. v.id = h.supersedes
      OBVIOUS
    <3> HIDE DEF V, v
    <3>3. superseded'[j] = v
      BY <2>2, <3>1, AppendFacts
    <3>4. h.step = "void" /\ assigned[h.supersedes].slot = h.slot
      BY <2>2 DEF PublishVoid, Base, IInv, HandlerInv, Issued
    <3>5. QED
      BY <1>1, <3>2, <3>3, <3>4
  <2>3. QED
    BY <2>1, <2>2, TopicsAppend DEF Base, IInv
<1>3. QED
  BY <1>1, <1>2 DEF Live, Voided

(* What assign publishes is live. *)
LEMMA PublishedIsLive ==
  ASSUME Base, PublishAssigned
  PROVE  /\ assigned'[h'.id].side = h.copy.side
         /\ \A s : s = h.slot => h'.id \in Live(s)'
         /\ \A s : Live(s)' \subseteq IF s = h.slot THEN Live(s) \cup {h'.id} ELSE Live(s)
<1> DEFINE A == [slot : Slots, side : [Sides -> Arrivals \cup {NoArrival}], supersedes : Nat]
           a == [slot |-> h.slot, side |-> h.copy.side, supersedes |-> h.supersedes]
<1>1. a \in A /\ assigned \in Seq(A) /\ assigned' = Append(assigned, a)
  BY RowFields DEF PublishAssigned, Base, IInv, TypeOK, HandlerLocals
<1>2. a.slot = h.slot /\ a.side = h.copy.side
  OBVIOUS
<1>3. h'.id = Len(assigned) + 1 /\ superseded' = superseded
  BY DEF PublishAssigned, Base, IInv, TypeOK, HandlerLocals
<1> HIDE DEF A, a
<1>4. /\ h'.id \in DOMAIN assigned' /\ assigned'[h'.id] = a /\ h'.id \notin DOMAIN assigned
      /\ \A i \in DOMAIN assigned' : i = h'.id \/ (i \in DOMAIN assigned /\ assigned'[i] = assigned[i])
  BY <1>1, <1>3, AppendFacts
<1>5. \A j \in DOMAIN superseded : superseded[j].id # h'.id
  BY <1>4 DEF Base, IInv, SupersessionOrder
<1>6. QED
  BY <1>2, <1>3, <1>4, <1>5 DEF Live, Voided

----------------------------------------------------------------------------
(* The handler on an open slot. *)

(* Taking up a message. *)
LEMMA HoldsWhenTaken ==
  ASSUME Base, [Next]_vars, RefuseLate \/ ApplyRead
  PROVE  HandlerHolds'
<1>1. Incoming \in Message /\ Incoming.slot \in Slots
  BY IncomingType DEF RefuseLate, ApplyRead, Base, IInv
<1>2. CASE RefuseLate
  <2>1. h'.step = "reject" /\ h'.slot = Incoming.slot
    BY <1>2 DEF RefuseLate, Idle
  <2>2. \A s \in Slots : s = Incoming.slot => ~Open(s)'
    BY <1>2, OpenBefore DEF RefuseLate, Base, IInv
  <2>3. ~Open(h.slot)'
    BY <1>1, <2>1, <2>2 DEF Open, DeadlinePassed
  <2>4. QED
    BY <2>1, <2>3 DEF HandlerHolds, Written, Numbered
<1>3. CASE ApplyRead
  <2>1. Incoming.side \in Sides /\ rows[Incoming.slot] \in Row
    BY <1>1, <1>3 DEF ApplyRead, ApplyFails, Base, IInv, TypeOK
  <2>2. /\ h'.step = "upsert" /\ h'.slot = Incoming.slot /\ h'.arrival = Incoming.arrival
        /\ h'.copy = ApplySide(rows[Incoming.slot], Incoming)
        /\ rows' = rows /\ pos' = pos /\ classified' = classified
    BY <1>3 DEF ApplyRead
  <2>3. h'.copy.side = [rows[Incoming.slot].side EXCEPT ![Incoming.side] = Incoming.arrival]
    BY <1>1, <2>1, <2>2, ApplySideType
  <2>4. QED
    BY <2>2, <2>3 DEF HandlerHolds, Written, Numbered, Incoming
<1>4. QED
  BY <1>2, <1>3

(* Going on with a message: the slot, the arrival and the message stay. *)
LEMMA HoldsWhenContinued ==
  ASSUME Base, HandlerHolds, [Next]_vars,
         pos' = pos, h'.slot = h.slot, h'.arrival = h.arrival, h.step # "idle", h'.step # "idle",
         \/ h' = h
         \/ h'.step # "reject" /\ (ApplyUpsert \/ AuditUpdated \/ PublishVoid \/ PublishAssigned
                                   \/ RecordGet \/ RecordPut)
  PROVE  HandlerHolds'
<1> DEFINE s == h.slot
           side == classified[pos + 1].side
<1>1. /\ s \in Slots /\ h \in HandlerLocals /\ rows[s] \in Row /\ h.copy \in Row
      /\ h.arrival \in Arrivals /\ h.arrival # NoArrival
      /\ rows[s].side \in [Sides -> Arrivals \cup {NoArrival}]
  BY ConstantsAssumption, RowFields DEF Base, IInv, TypeOK, HandlerLocals
<1>2. classified'[pos' + 1].side = side
  BY MessagesStay DEF Base, IInv
<1>3. Open(s)' => Open(s)
  BY <1>1, OpenBefore DEF Base, IInv
<1>4. h.step = "reject" => ~Open(s)
  BY DEF HandlerHolds
<1>5. h.step # "reject" => side \in Sides
  BY DEF Base, AuditInv, HandlesIncoming
<1> HIDE DEF s, side
<1>6. SUFFICES /\ h'.step = "reject" => ~Open(s)'
               /\ Numbered' => h'.id \in Live(s)'
               /\ Open(s)' =>
                    /\ h'.step = "upsert" => h'.copy.side = [rows'[s].side EXCEPT ![side] = h.arrival]
                    /\ Written' => rows'[s].side[side] = h.arrival /\ h'.copy.side = rows'[s].side
                    /\ Numbered' => Complete(rows'[s]) /\ assigned'[h'.id].side = rows'[s].side
                    /\ h'.step = "recordPut" => h'.copy.aid = h'.id
                    /\ h'.step = "recorded" => rows'[s].aid = h'.id
  BY <1>1, <1>2 DEF HandlerHolds, Written, Numbered, Open, DeadlinePassed, Live, Voided, Complete, s
<1>7. Open(s) =>
        /\ h.step = "upsert" => h.copy.side = [rows[s].side EXCEPT ![side] = h.arrival]
        /\ Written => rows[s].side[side] = h.arrival /\ h.copy.side = rows[s].side
        /\ Numbered => Complete(rows[s]) /\ assigned[h.id].side = rows[s].side
        /\ h.step = "recordPut" => h.copy.aid = h.id
        /\ h.step = "recorded" => rows[s].aid = h.id
  BY DEF HandlerHolds, s, side
<1>8. /\ Numbered => h.id \in Live(s)
      /\ h.step # "void" => \A id \in Live(s) : id \in Live(s)' /\ assigned'[id] = assigned[id]
  BY <1>1, LiveStays DEF HandlerHolds, s
<1>9. Open(s) => rows'[s] = rows[s] \/ ((ApplyUpsert \/ RecordPut) /\ rows'[s] = Merge(rows[s], h.copy))
  BY <1>1, OpenRow DEF s
<1>10. CASE h' = h
  <2>1. ~ApplyUpsert /\ ~RecordPut
    BY <1>1, <1>10 DEF ApplyUpsert, RecordPut, Goto, HandlerLocals
  <2>2. Open(s) => rows'[s] = rows[s]
    BY <1>9, <2>1
  <2>3. Numbered' <=> Numbered
    BY <1>10 DEF Numbered
  <2>4. Written' <=> Written
    BY <1>10 DEF Written
  <2>5. Numbered => h.step # "void"
    BY DEF Numbered
  <2>6. QED
    BY <1>3, <1>4, <1>7, <1>8, <1>10, <2>2, <2>3, <2>4, <2>5
<1>11. CASE ApplyUpsert
  <2>1. h.step = "upsert" /\ h'.step = "updated" /\ h'.copy = h.copy
    BY <1>1, <1>11 DEF ApplyUpsert, Goto, HandlerLocals
  <2>2. rows'[s] = Merge(rows[s], h.copy) /\ rows'[s] \in Row
    BY <1>1, <1>11, MergeType DEF ApplyUpsert, Base, IInv, TypeOK, s
  <2>3. \A d \in Sides : rows'[s].side[d] = IF h.copy.side[d] # NoArrival THEN h.copy.side[d]
                                                                        ELSE rows[s].side[d]
    BY <1>1, <2>2, MergeType
  <2>4. ASSUME Open(s) PROVE rows'[s].side = h.copy.side /\ h.copy.side[side] = h.arrival
    <3>1. h.copy.side = [rows[s].side EXCEPT ![side] = h.arrival]
      BY <1>7, <2>1, <2>4
    <3>2. \A d \in Sides : h.copy.side[d] = IF d = side THEN h.arrival ELSE rows[s].side[d]
      BY <1>1, <3>1
    <3>3. \A d \in Sides : rows'[s].side[d] = h.copy.side[d]
      BY <1>1, <2>3, <3>2
    <3>4. /\ rows'[s].side \in [Sides -> Arrivals \cup {NoArrival}]
          /\ h.copy.side \in [Sides -> Arrivals \cup {NoArrival}]
      BY <1>1, <2>2, RowFields
    <3>5. QED
      BY <1>5, <2>1, <3>2, <3>3, <3>4
  <2>5. QED
    BY <1>3, <2>1, <2>4 DEF Numbered
<1>12. CASE AuditUpdated \/ PublishVoid
  <2>1. h.step \in {"updated", "void"} /\ h'.step \in {"void", "assign"} /\ h'.copy = h.copy /\ rows' = rows
    BY <1>1, <1>12, LocalsType DEF AuditUpdated, PublishVoid, Goto, Handled, HandlerLocals
  <2>2. Written /\ ~Numbered'
    BY <2>1 DEF Written, Numbered
  <2>3. QED
    BY <1>3, <1>7, <2>1, <2>2
<1>13. CASE PublishAssigned
  <2>1. h.step = "assign" /\ h'.step = "recordGet" /\ h'.copy = h.copy /\ rows' = rows
    BY <1>1, <1>13 DEF PublishAssigned, HandlerLocals
  <2>2. h'.id \in Live(s)' /\ assigned'[h'.id].side = h.copy.side
    BY <1>13, PublishedIsLive DEF s
  <2>3. Complete(rows[s]) /\ Written
    BY <2>1 DEF Base, IInv, HandlerInv, Written, s
  <2>4. QED
    BY <1>3, <1>7, <2>1, <2>2, <2>3
<1>14. CASE RecordGet
  <2>1. h.step = "recordGet" /\ h.id \in Nat
    BY <1>1, <1>14 DEF RecordGet, HandlerLocals
  <2> DEFINE c == [rows[s] EXCEPT !.aid = h.id, !.state = "ASSIGNED"]
  <2>2. h'.step = "recordPut" /\ h'.copy = c /\ h'.id = h.id /\ rows' = rows
    BY <1>1, <1>14 DEF RecordGet, HandlerLocals, s
  <2>3. c.side = rows[s].side /\ c.aid = h.id
    BY <1>1, <2>1, StampType
  <2> HIDE DEF c
  <2>4. Written /\ Numbered
    BY <2>1 DEF Written, Numbered
  <2>5. QED
    BY <1>3, <1>7, <1>8, <2>1, <2>2, <2>3, <2>4
<1>15. CASE RecordPut
  <2>1. h.step = "recordPut" /\ h'.step = "recorded" /\ h'.copy = h.copy /\ h'.id = h.id
    BY <1>1, <1>15 DEF RecordPut, Goto, HandlerLocals
  <2>2. rows'[s] = Merge(rows[s], h.copy) /\ rows'[s] \in Row
    BY <1>1, <1>15, MergeType DEF RecordPut, Base, IInv, TypeOK, s
  <2>3. /\ \A d \in Sides : rows'[s].side[d] = IF h.copy.side[d] # NoArrival THEN h.copy.side[d]
                                                                           ELSE rows[s].side[d]
        /\ rows'[s].aid = IF h.copy.aid # NoAssignment THEN h.copy.aid ELSE rows[s].aid
    BY <1>1, <2>2, MergeType
  <2>4. Written /\ Numbered /\ h.id \in Live(s)
    BY <1>8, <2>1 DEF Written, Numbered
  <2>5. h.id # NoAssignment
    BY <2>4 DEF Live, NoAssignment, Base, IInv, TypeOK
  <2>6. ASSUME Open(s) PROVE rows'[s].side = rows[s].side /\ rows'[s].aid = h.id
    <3>1. h.copy.side = rows[s].side /\ h.copy.aid = h.id
      BY <1>7, <2>1, <2>4, <2>6
    <3>2. \A d \in Sides : rows'[s].side[d] = rows[s].side[d]
      BY <2>3, <3>1
    <3>3. rows'[s].side \in [Sides -> Arrivals \cup {NoArrival}]
      BY <2>2, RowFields
    <3>4. QED
      BY <1>1, <2>3, <2>5, <3>1, <3>2, <3>3
  <2>7. Open(s) => Complete(rows'[s])
    BY <1>7, <2>4, <2>6 DEF Complete
  <2>8. QED
    BY <1>3, <1>7, <1>8, <2>1, <2>4, <2>6, <2>7
<1>16. QED
  BY <1>10, <1>11, <1>12, <1>13, <1>14, <1>15

(* Every step keeps what the handler knows of an open slot. *)
LEMMA HandlerHoldsStep ==
  ASSUME Base, HandlerHolds, [Next]_vars
  PROVE  HandlerHolds'
<1>1. CASE h'.step = "idle"
  BY <1>1 DEF HandlerHolds, Written, Numbered
<1>2. CASE Crash \/ FailApply \/ SkipUndispatched \/ AuditRejected \/ AuditAssigned
  BY <1>1, <1>2, LocalsType DEF Crash, FailApply, Restart, SkipUndispatched, AuditRejected, AuditAssigned, Handled
<1>3. CASE AuditUpdated /\ h'.step # "idle"
  <2>1. /\ pos' = pos /\ h'.slot = h.slot /\ h'.arrival = h.arrival /\ h.step # "idle"
        /\ h'.step # "reject"
    BY <1>3, LocalsType DEF AuditUpdated, Handled, Goto, Base, IInv, TypeOK, HandlerLocals
  <2>2. QED
    BY <1>3, <2>1, HoldsWhenContinued
<1>4. QED
  BY <1>1, <1>2, <1>3, HandlerMoves, HoldsWhenTaken, HoldsWhenContinued DEF Base, IInv

----------------------------------------------------------------------------
(* Convergence: what a row lacks is still to come. *)

(* A later message delivers side d, or the row holds the last file delivered. *)
SideSettled(s, d) ==
  \/ \E n \in DOMAIN classified : n > pos /\ Delivers(n, s, d)
  \/ \E n \in DOMAIN classified :
       /\ Delivers(n, s, d) /\ rows[s].side[d] = classified[n].arrival
       /\ \A j \in DOMAIN classified : Delivers(j, s, d) => j <= n
  \/ /\ \A n \in DOMAIN classified : ~Delivers(n, s, d)
     /\ rows[s].side[d] = NoArrival

(* Assignment id is live and pairs the files of the row. *)
Answers(s, id) == id \in Live(s) /\ assigned[id].side = rows[s].side

(* A later message concerns the slot, or its row is incomplete or answered. *)
AssignmentSettled(s) ==
  \/ \E n \in DOMAIN classified : n > pos /\ Concerns(n, s)
  \/ ~Complete(rows[s])
  \/ Answers(s, rows[s].aid)

Settled == \A s \in Slots : Open(s) => AssignmentSettled(s) /\ \A d \in Sides : SideSettled(s, d)

(* Where the position goes: forward by a finished message, or not. *)
LEMMA PositionMoves ==
  ASSUME Base, [Next]_vars
  PROVE  /\ pos \in Nat /\ pos' \in Nat
         /\ \/ Classify /\ pos' = pos
            \/ classified' = classified /\ pos' <= pos
            \/ /\ classified' = classified /\ pos' = pos + 1 /\ rows' = rows
               /\ assigned' = assigned /\ superseded' = superseded
               /\ \/ SkipUndispatched
                  \/ AuditRejected
                  \/ AuditUpdated /\ ~Complete(h.copy)
                  \/ AuditAssigned
<1>1. pos \in Nat /\ pos' \in Nat
  BY TypeStep DEF Base, IInv, TypeOK
<1>2. QED
  BY <1>1 DEF Next, vars, consumerVars, topicVars, Classify, Tick, Crash, Restart, Consume,
         Poll, CommitBatch, Handle, SkipUndispatched, FailApply, RefuseLate, AuditRejected,
         ApplyRead, ApplyUpsert, AuditUpdated, PublishVoid, PublishAssigned, RecordGet, RecordPut,
         AuditAssigned, Sweep, SweepRead, SweepMark, SweepAlert, SweepFail, Handled, Goto, Base, IInv, TypeOK

(* Sides of an open slot change only to what the message in hand delivers. *)
LEMMA SideWritten ==
  ASSUME Base, HandlerHolds, [Next]_vars, NEW s \in Slots, Open(s), NEW d \in Sides,
         rows'[s].side[d] # rows[s].side[d]
  PROVE  pos + 1 \in DOMAIN classified /\ Delivers(pos + 1, s, d)
<1>1. /\ h.slot = s /\ (ApplyUpsert \/ RecordPut) /\ rows'[s] = Merge(rows[s], h.copy)
  BY OpenRow
<1>2. h.copy \in Row /\ rows[s] \in Row /\ h.step \in {"upsert", "recordPut"}
  BY <1>1 DEF ApplyUpsert, RecordPut, Base, IInv, TypeOK, HandlerLocals
<1>3. /\ pos + 1 \in DOMAIN classified /\ Concerns(pos + 1, s) /\ classified[pos + 1].side \in Sides
  BY <1>1, <1>2, MessagesStay DEF Base, IInv, AuditInv, HandlesIncoming
<1>4. h.copy.side[d] # rows[s].side[d]
  BY <1>1, <1>2, MergeType
<1>5. h.copy.side = [rows[s].side EXCEPT ![classified[pos + 1].side] = h.arrival]
  BY <1>1, <1>2, <1>4 DEF HandlerHolds, Written
<1>6. d = classified[pos + 1].side
  BY <1>2, <1>4, <1>5, RowFields
<1>7. QED
  BY <1>3, <1>6 DEF Delivers

(* Every step keeps every side of an open slot settled. *)
LEMMA SideSettledStep ==
  ASSUME Base, HandlerHolds, [Next]_vars, NEW s \in Slots, Open(s), NEW d \in Sides, SideSettled(s, d)
  PROVE  SideSettled(s, d)'
<1> USE DEF Concerns, Delivers
<1>1. /\ \A n \in DOMAIN classified : n \in Nat /\ n \in DOMAIN classified' /\ classified'[n] = classified[n]
      /\ pos \in Nat /\ pos' \in Nat
  BY MessagesStay, PositionMoves DEF Base, IInv
<1>2. CASE Classify /\ pos' = pos
  <2>1. PICK m \in Messages : classified' = Append(classified, m)
    BY <1>2 DEF Classify
  <2>2. rows' = rows /\ classified \in Seq(Messages)
    BY <1>2 DEF Classify, Base, IInv, TypeOK
  <2>3. /\ DOMAIN classified' = DOMAIN classified \cup {Len(classified) + 1}
        /\ Len(classified) + 1 > pos
    BY <2>1, <2>2, AppendFacts DEF Base, IInv, TypeOK
  <2>4. CASE /\ classified'[Len(classified) + 1].slot = s /\ classified'[Len(classified) + 1].side = d
             /\ classified'[Len(classified) + 1].disposition = "DISPATCHED"
    BY <1>2, <2>3, <2>4 DEF SideSettled
  <2>5. CASE ~(/\ classified'[Len(classified) + 1].slot = s /\ classified'[Len(classified) + 1].side = d
               /\ classified'[Len(classified) + 1].disposition = "DISPATCHED")
    <3>1. CASE \E n \in DOMAIN classified : n > pos /\ Delivers(n, s, d)
      BY <1>1, <1>2, <3>1 DEF SideSettled
    <3>2. CASE \E n \in DOMAIN classified :
                 /\ Delivers(n, s, d) /\ rows[s].side[d] = classified[n].arrival
                 /\ \A j \in DOMAIN classified : Delivers(j, s, d) => j <= n
      BY <1>1, <2>2, <2>3, <2>5, <3>2 DEF SideSettled
    <3>3. CASE (\A n \in DOMAIN classified : ~Delivers(n, s, d)) /\ rows[s].side[d] = NoArrival
      BY <1>1, <2>2, <2>3, <2>5, <3>3 DEF SideSettled
    <3>4. QED
      BY <3>1, <3>2, <3>3 DEF SideSettled
  <2>6. QED
    BY <2>4, <2>5
<1>3. CASE classified' = classified /\ pos' <= pos
  <2>1. CASE \E n \in DOMAIN classified : n > pos /\ Delivers(n, s, d)
    BY <1>1, <1>3, <2>1 DEF SideSettled
  <2>2. CASE rows'[s].side[d] = rows[s].side[d] /\ ~\E n \in DOMAIN classified : n > pos /\ Delivers(n, s, d)
    BY <1>3, <2>2 DEF SideSettled
  <2>3. CASE rows'[s].side[d] # rows[s].side[d]
    BY <1>1, <2>1, <2>3, SideWritten
  <2>4. QED
    BY <2>1, <2>2, <2>3
<1>4. CASE /\ classified' = classified /\ pos' = pos + 1 /\ rows' = rows
           /\ SkipUndispatched \/ AuditRejected \/ AuditUpdated \/ AuditAssigned
  <2>1. CASE \E n \in DOMAIN classified : n > pos + 1 /\ Delivers(n, s, d)
    BY <1>4, <2>1 DEF SideSettled
  <2>2. CASE /\ ~\E n \in DOMAIN classified : n > pos + 1 /\ Delivers(n, s, d)
             /\ pos + 1 \in DOMAIN classified /\ Delivers(pos + 1, s, d)
    <3>1. ~SkipUndispatched
      BY <2>2 DEF SkipUndispatched, Incoming
    <3>2. h.step # "idle" /\ h.slot = s
      BY <1>4, <2>2, <3>1 DEF AuditRejected, AuditUpdated, AuditAssigned, Base, AuditInv, HandlesIncoming
    <3>3. Written
      BY <1>4, <3>1, <3>2 DEF AuditRejected, AuditUpdated, AuditAssigned, HandlerHolds, Written
    <3>4. rows[s].side[d] = classified[pos + 1].arrival
      BY <2>2, <3>2, <3>3 DEF HandlerHolds, Base, AuditInv, HandlesIncoming
    <3>5. \A j \in DOMAIN classified : Delivers(j, s, d) => j <= pos + 1
      BY <1>1, <2>2
    <3>6. QED
      BY <1>4, <2>2, <3>4, <3>5 DEF SideSettled
  <2>3. CASE /\ ~\E n \in DOMAIN classified : n > pos + 1 /\ Delivers(n, s, d)
             /\ ~(pos + 1 \in DOMAIN classified /\ Delivers(pos + 1, s, d))
    <3>1. ~\E n \in DOMAIN classified : n > pos /\ Delivers(n, s, d)
      BY <1>1, <2>3
    <3>2. QED
      BY <1>4, <3>1 DEF SideSettled
  <2>4. QED
    BY <2>1, <2>2, <2>3
<1>5. QED
  BY <1>2, <1>3, <1>4, PositionMoves

(* An answered row of a slot the handler is not busy with stays answered. *)
LEMMA AnswerStays ==
  ASSUME Base, [Next]_vars, NEW s \in Slots, Open(s), h.step = "idle" \/ h.slot # s
  PROVE  /\ rows'[s] = rows[s]
         /\ Answers(s, rows[s].aid) => Answers(s, rows[s].aid)'
<1>1. rows'[s] = rows[s]
  BY OpenRow DEF ApplyUpsert, RecordPut
<1>2. \A id \in Live(s) : id \in Live(s)' /\ assigned'[id] = assigned[id]
  BY LiveStays
<1>3. QED
  BY <1>1, <1>2 DEF Answers

(* Every step keeps the assignment of an open slot settled. *)
LEMMA AssignmentSettledStep ==
  ASSUME Base, HandlerHolds, [Next]_vars, NEW s \in Slots, Open(s), AssignmentSettled(s)
  PROVE  AssignmentSettled(s)'
<1> USE DEF Concerns
<1>1. /\ \A n \in DOMAIN classified : n \in Nat /\ n \in DOMAIN classified' /\ classified'[n] = classified[n]
      /\ pos \in Nat /\ pos' \in Nat
  BY MessagesStay, PositionMoves DEF Base, IInv
<1>2. CASE pos' <= pos /\ \E n \in DOMAIN classified : n > pos /\ Concerns(n, s)
  BY <1>1, <1>2 DEF AssignmentSettled
<1>3. CASE ~(\E n \in DOMAIN classified : n > pos /\ Concerns(n, s))
  <2>1. h.step = "idle" \/ h.slot # s
    BY <1>1, <1>3, MessagesStay DEF Base, IInv, AuditInv, HandlesIncoming
  <2>2. CASE ~Complete(rows[s])
    BY <2>1, <2>2, AnswerStays DEF AssignmentSettled, Complete
  <2>3. CASE Answers(s, rows[s].aid)
    BY <2>1, <2>3, AnswerStays DEF AssignmentSettled, Answers
  <2>4. QED
    BY <1>3, <2>2, <2>3 DEF AssignmentSettled
<1>4. CASE /\ classified' = classified /\ pos' = pos + 1 /\ rows' = rows
           /\ assigned' = assigned /\ superseded' = superseded
           /\ SkipUndispatched \/ AuditRejected \/ (AuditUpdated /\ ~Complete(h.copy)) \/ AuditAssigned
           /\ \E n \in DOMAIN classified : n > pos /\ Concerns(n, s)
  <2>1. CASE \E n \in DOMAIN classified : n > pos + 1 /\ Concerns(n, s)
    BY <1>4, <2>1 DEF AssignmentSettled
  <2>2. CASE pos + 1 \in DOMAIN classified /\ Concerns(pos + 1, s)
    <3>1. ~SkipUndispatched
      BY <2>2 DEF SkipUndispatched, Incoming
    <3>2. h.step # "idle" /\ h.slot = s
      BY <1>4, <2>2, <3>1 DEF AuditRejected, AuditUpdated, AuditAssigned, Base, AuditInv, HandlesIncoming
    <3>3. ~AuditRejected
      BY <3>2 DEF AuditRejected, HandlerHolds
    <3>4. CASE AuditUpdated /\ ~Complete(h.copy)
      <4>1. h.copy.side = rows[s].side
        BY <3>2, <3>4 DEF AuditUpdated, HandlerHolds, Written
      <4>2. ~Complete(rows[s])
        BY <3>4, <4>1 DEF Complete
      <4>3. QED
        BY <1>4, <4>2 DEF AssignmentSettled, Complete
    <3>5. CASE AuditAssigned
      <4>1. rows[s].aid = h.id /\ h.id \in Live(s) /\ assigned[h.id].side = rows[s].side
        BY <3>2, <3>5 DEF AuditAssigned, HandlerHolds, Numbered
      <4>2. rows'[s].aid \in Live(s)'
        BY <1>4, <4>1 DEF Live, Voided
      <4>3. QED
        BY <1>4, <4>1, <4>2 DEF AssignmentSettled, Answers
    <3>6. QED
      BY <1>4, <3>1, <3>3, <3>4, <3>5
  <2>3. QED
    BY <1>1, <1>4, <2>1, <2>2
<1>5. Classify => pos' <= pos
  BY <1>1 DEF Classify, consumerVars
<1>6. QED
  BY <1>1, <1>2, <1>3, <1>4, <1>5, PositionMoves

(* The invariant behind convergence. *)
ConvergenceInv == SweptIsOverdue /\ HandlerHolds /\ Settled

(* No sweep runs and nothing is delivered at first. *)
LEMMA ConvergenceInit == Init => ConvergenceInv
<1> SUFFICES ASSUME Init PROVE ConvergenceInv
  OBVIOUS
<1>1. SweptIsOverdue
  BY DEF Init, SweptIsOverdue, NoSweep
<1>2. HandlerHolds
  BY LocalsType DEF Init, HandlerHolds, Written, Numbered
<1>3. Settled
  BY DEF Init, Settled, AssignmentSettled, SideSettled, NoRow, Complete, Sides
<1>4. QED
  BY <1>1, <1>2, <1>3 DEF ConvergenceInv

(* Every step keeps open slots converging. *)
LEMMA ConvergenceStep == IInv /\ AuditInv /\ ConvergenceInv /\ [Next]_vars => ConvergenceInv'
<1> SUFFICES ASSUME IInv, AuditInv, ConvergenceInv, [Next]_vars PROVE ConvergenceInv'
  OBVIOUS
<1>1. Base /\ HandlerHolds /\ Settled /\ TypeOK
  BY DEF Base, ConvergenceInv, IInv
<1>2. SweptIsOverdue'
  BY <1>1, SweptStep DEF Base
<1>3. HandlerHolds'
  BY <1>1, HandlerHoldsStep
<1>4. ASSUME NEW s \in Slots, Open(s)'
      PROVE  AssignmentSettled(s)' /\ \A d \in Sides : SideSettled(s, d)'
  <2>1. Open(s) /\ AssignmentSettled(s) /\ \A d \in Sides : SideSettled(s, d)
    BY <1>1, <1>4, OpenBefore DEF Settled
  <2>2. QED
    BY <1>1, <2>1, AssignmentSettledStep, SideSettledStep
<1>5. QED
  BY <1>2, <1>3, <1>4 DEF ConvergenceInv, Settled

(* Sweepers hold overdue rows only, the handler's copy of an open slot is true,   *)
(* and what an open slot's row lacks is still on the topic.                       *)
THEOREM ConvergenceInvariant == Spec => []ConvergenceInv
BY ConvergenceInit, ConvergenceStep, Invariance, AuditInvariant, PTL DEF Spec

(* The greatest place of a delivery is the place LastDelivery chooses. *)
LEMMA LastDeliveryIs ==
  ASSUME TypeOK, NEW s, NEW d, NEW n \in DOMAIN classified, Delivers(n, s, d),
         \A j \in DOMAIN classified : Delivers(j, s, d) => j <= n
  PROVE  LastDelivery(s, d) = classified[n].arrival
<1> DEFINE ks == {k \in DOMAIN classified : /\ classified[k].slot = s /\ classified[k].side = d
                                            /\ classified[k].disposition = "DISPATCHED"}
<1>1. n \in ks /\ \A j \in ks : j <= n
  BY DEF Delivers, Concerns
<1>2. \A j \in ks : j \in Nat
  BY DEF TypeOK
<1>3. \A c \in ks : (\A j \in ks : j <= c) => c = n
  BY <1>1, <1>2
<1>4. (CHOOSE k \in ks : \A j \in ks : j <= k) = n
  <2> HIDE DEF ks
  <2>1. \E k \in ks : \A j \in ks : j <= k
    BY <1>1
  <2>2. QED
    BY <1>3, <2>1
<1>5. LastDelivery(s, d) = IF ks = {} THEN NoArrival
                           ELSE classified[CHOOSE k \in ks : \A j \in ks : j <= k].arrival
  BY DEF LastDelivery
<1> HIDE DEF ks
<1>6. QED
  BY <1>1, <1>4, <1>5

(* However often the process dies and its batches come back, once the consumer    *)
(* has caught up each row holds the last file delivered for each side and its     *)
(* recorded assignment is live and pairs them, as long as no deadline has passed: *)
(* a correction is not undone by the replay of what it corrects, and a voided     *)
(* assignment is never what a row ends up with (Apply, RecordAssignment, Consume). *)
THEOREM OpenSlotsConverge == Spec => []ConvergesToLatest
<1>1. IInv /\ ConvergenceInv => ConvergesToLatest
  <2> SUFFICES ASSUME IInv, ConvergenceInv, CaughtUp, NEW s \in Slots, Open(s)
               PROVE  /\ \A d \in Sides : rows[s].side[d] = LastDelivery(s, d)
                      /\ Complete(rows[s]) => /\ rows[s].aid \in Live(s)
                                              /\ assigned[rows[s].aid].side = rows[s].side
    BY DEF ConvergesToLatest
  <2>1. AssignmentSettled(s) /\ \A d \in Sides : SideSettled(s, d)
    BY DEF ConvergenceInv, Settled
  <2>2. \A n \in DOMAIN classified : ~(n > pos)
    BY DEF CaughtUp, IInv, TypeOK
  <2>3. ASSUME NEW d \in Sides PROVE rows[s].side[d] = LastDelivery(s, d)
    <3>1. CASE \E n \in DOMAIN classified :
                 /\ Delivers(n, s, d) /\ rows[s].side[d] = classified[n].arrival
                 /\ \A j \in DOMAIN classified : Delivers(j, s, d) => j <= n
      BY <3>1, LastDeliveryIs DEF IInv
    <3>2. CASE (\A n \in DOMAIN classified : ~Delivers(n, s, d)) /\ rows[s].side[d] = NoArrival
      BY <3>2 DEF LastDelivery, Delivers, Concerns
    <3>3. QED
      BY <2>1, <2>2, <3>1, <3>2 DEF SideSettled
  <2>4. QED
    BY <2>1, <2>2, <2>3 DEF AssignmentSettled, Answers
<1>2. QED
  BY <1>1, ConvergenceInvariant, Invariance, PTL

----------------------------------------------------------------------------
(* One live assignment. *)

(* While the handler is busy with a slot, what it is about to supersede, or has   *)
(* just published, is the only assignment live; otherwise the recorded one is.    *)
OneLive(s) ==
  IF h.slot = s /\ h.step \notin {"idle", "reject"}
  THEN /\ h.step \in {"upsert", "updated", "void"} =>
            Live(s) \subseteq IF Complete(h.copy) THEN {h.supersedes} ELSE {}
       /\ h.step = "assign" => Live(s) = {}
       /\ Numbered => Live(s) \subseteq {h.id}
  ELSE Live(s) \subseteq IF Complete(rows[s]) THEN {rows[s].aid} ELSE {}

(* A complete row reads ASSIGNED, so the next correction supersedes its id. *)
CompleteIsAssigned(s) == Complete(rows[s]) => rows[s].state = "ASSIGNED"

LiveInv == \A s \in Slots : Open(s) => CompleteIsAssigned(s) /\ (crashes = 0 => OneLive(s))

(* Nothing but assign's publish makes an assignment live. *)
LEMMA LiveShrinks ==
  ASSUME Base, [Next]_vars, NEW s \in Slots, ~(PublishAssigned /\ h.slot = s)
  PROVE  /\ Live(s)' \subseteq Live(s)
         /\ PublishVoid => h.supersedes \notin Live(s)'
         /\ NoAssignment \notin Live(s)
<1>1. \A j \in DOMAIN superseded : j \in DOMAIN superseded' /\ superseded'[j] = superseded[j]
  BY VoidsStay DEF Base, IInv
<1>2. ASSUME assigned' = assigned PROVE Live(s)' \subseteq Live(s)
  <2> SUFFICES ASSUME NEW id, id \in Live(s)' PROVE id \in Live(s)
    OBVIOUS
  <2>1. id \in DOMAIN assigned /\ assigned[id].slot = s /\ \A j \in DOMAIN superseded' : superseded'[j].id # id
    BY <1>2 DEF Live, Voided
  <2>2. \A j \in DOMAIN superseded : superseded[j].id # id
    BY <1>1, <2>1
  <2>3. QED
    BY <2>1, <2>2 DEF Live, Voided
<1>3. ASSUME PublishAssigned PROVE Live(s)' \subseteq Live(s)
  <2>1. h.slot # s
    BY <1>3
  <2>2. \A t : Live(t)' \subseteq IF t = h.slot THEN Live(t) \cup {h'.id} ELSE Live(t)
    BY <1>3, PublishedIsLive
  <2>3. Live(s)' \subseteq IF s = h.slot THEN Live(s) \cup {h'.id} ELSE Live(s)
    BY <2>2
  <2>4. QED
    BY <2>1, <2>3
<1>4. Live(s)' \subseteq Live(s)
  BY <1>2, <1>3, TopicsAppend DEF Base, IInv
<1>5. ASSUME PublishVoid PROVE h.supersedes \notin Live(s)'
  <2> DEFINE V == [slot : Slots, id : Nat, by : Arrivals]
             v == [slot |-> h.slot, id |-> h.supersedes, by |-> h.arrival]
  <2>1. v \in V /\ superseded \in Seq(V) /\ superseded' = Append(superseded, v)
    BY <1>5 DEF PublishVoid, Base, IInv, TypeOK, HandlerLocals
  <2>2. v.id = h.supersedes
    OBVIOUS
  <2> HIDE DEF V, v
  <2>3. \E j \in DOMAIN superseded' : superseded'[j].id = h.supersedes
    BY <2>1, <2>2, AppendFacts
  <2>4. ASSUME NEW id, id = h.supersedes PROVE id \notin Live(s)'
    BY <2>3, <2>4 DEF Live, Voided
  <2>5. QED
    BY <2>4
<1>6. NoAssignment \notin Live(s)
  BY DEF Live, NoAssignment, Base, IInv, TypeOK
<1>7. QED
  BY <1>4, <1>5, <1>6

(* The handler writes back a complete row only as ASSIGNED. *)
LEMMA CompleteIsAssignedStep ==
  ASSUME Base, [Next]_vars, NEW s \in Slots, Open(s), CompleteIsAssigned(s)
  PROVE  CompleteIsAssigned(s)'
<1>1. CASE rows'[s] = rows[s]
  BY <1>1 DEF CompleteIsAssigned, Complete
<1>2. CASE h.slot = s /\ (ApplyUpsert \/ RecordPut) /\ rows'[s] = Merge(rows[s], h.copy)
  <2>1. h.copy \in Row /\ rows[s] \in Row
    BY <1>2 DEF ApplyUpsert, RecordPut, Base, IInv, TypeOK, HandlerLocals
  <2>2. /\ rows'[s].state = h.copy.state
        /\ \A d \in Sides : rows'[s].side[d] = IF h.copy.side[d] # NoArrival THEN h.copy.side[d]
                                                                          ELSE rows[s].side[d]
    BY <1>2, <2>1, MergeType
  <2>3. CASE ApplyUpsert
    <3>1. /\ Covers(h.copy, rows[s])
          /\ h.copy.state = IF Complete(h.copy) THEN "ASSIGNED" ELSE "PARTIAL"
      BY <1>2, <2>3 DEF ApplyUpsert, Base, IInv, HandlerInv
    <3>2. Complete(rows'[s]) => Complete(h.copy)
      BY <2>2, <3>1 DEF Complete, Covers
    <3>3. QED
      BY <2>2, <3>1, <3>2 DEF CompleteIsAssigned, Complete
  <2>4. CASE RecordPut
    BY <2>2, <2>4 DEF RecordPut, Base, IInv, HandlerInv, CompleteIsAssigned
  <2>5. QED
    BY <1>2, <2>3, <2>4
<1>3. QED
  BY <1>1, <1>2, OpenRow

(* Taking up a message: what it will supersede is what is live. *)
LEMMA OneLiveWhenTaken ==
  ASSUME Base, [Next]_vars, NEW s \in Slots, OneLive(s), CompleteIsAssigned(s), ApplyRead
  PROVE  OneLive(s)'
<1>1. Incoming \in Message /\ Incoming.slot \in Slots /\ Incoming.side \in Sides /\ h.step = "idle"
  BY IncomingType DEF ApplyRead, ApplyFails, Receiving, Base, IInv
<1>2. /\ h'.step = "upsert" /\ h'.slot = Incoming.slot
      /\ h'.copy = ApplySide(rows[Incoming.slot], Incoming)
      /\ h'.supersedes = Supersedes(rows[Incoming.slot], Incoming)
      /\ rows' = rows
  BY DEF ApplyRead
<1>3. Live(s)' \subseteq Live(s)
  BY LiveShrinks DEF ApplyRead, PublishAssigned, Receiving
<1>4. Live(s) \subseteq IF Complete(rows[s]) THEN {rows[s].aid} ELSE {}
  BY <1>1 DEF OneLive
<1>5. CASE Incoming.slot # s
  BY <1>2, <1>3, <1>4, <1>5 DEF OneLive, Complete
<1>6. CASE Incoming.slot = s
  <2>1. rows[s] \in Row
    BY DEF Base, IInv, TypeOK
  <2>2. h'.copy.side = [rows[s].side EXCEPT ![Incoming.side] = Incoming.arrival]
    BY <1>1, <1>2, <1>6, <2>1, ApplySideType
  <2>3. \A d \in Sides : h'.copy.side[d] = IF d = Incoming.side THEN Incoming.arrival ELSE rows[s].side[d]
    BY <2>1, <2>2, RowFields
  <2>4. Complete(rows[s]) => Complete(h'.copy)
    BY <1>1, <2>3, ConstantsAssumption DEF Complete, Message
  <2>5. Complete(rows[s]) => h'.supersedes = rows[s].aid
    BY <1>2, <1>6, <2>4 DEF CompleteIsAssigned, Supersedes
  <2>6. Live(s)' \subseteq IF Complete(h'.copy) THEN {h'.supersedes} ELSE {}
    BY <1>3, <1>4, <2>4, <2>5
  <2>7. QED
    BY <1>2, <1>6, <2>6 DEF OneLive, Numbered, Complete
<1>7. QED
  BY <1>5, <1>6

(* Going on with a message of the slot: the void comes before the replacement. *)
LEMMA OneLiveWhenContinued ==
  ASSUME Base, HandlerHolds, [Next]_vars, NEW s \in Slots, OneLive(s), h.slot = s,
         ApplyUpsert \/ AuditUpdated \/ PublishVoid \/ PublishAssigned \/ RecordGet \/ RecordPut,
         h'.slot = s, h'.step \notin {"idle", "reject"}
  PROVE  OneLive(s)'
<1>1. h \in HandlerLocals /\ h.step \notin {"idle", "reject"}
  BY DEF ApplyUpsert, AuditUpdated, PublishVoid, PublishAssigned, RecordGet, RecordPut, Base, IInv, TypeOK
<1>2. /\ h.step \in {"upsert", "updated", "void"} =>
           Live(s) \subseteq IF Complete(h.copy) THEN {h.supersedes} ELSE {}
      /\ h.step = "assign" => Live(s) = {}
      /\ Numbered => Live(s) \subseteq {h.id}
  BY <1>1 DEF OneLive
<1>3. SUFFICES /\ h'.step \in {"upsert", "updated", "void"} =>
                    Live(s)' \subseteq IF Complete(h'.copy) THEN {h'.supersedes} ELSE {}
               /\ h'.step = "assign" => Live(s)' = {}
               /\ h'.step \in {"recordGet", "recordPut", "recorded"} => Live(s)' \subseteq {h'.id}
  BY DEF OneLive, Numbered, Complete
<1>4. ASSUME ~PublishAssigned
      PROVE  /\ Live(s)' \subseteq Live(s)
             /\ PublishVoid => h.supersedes \notin Live(s)'
             /\ NoAssignment \notin Live(s)
  BY <1>4, LiveShrinks
<1>5. CASE ApplyUpsert
  <2>1. h.step = "upsert" /\ h'.step = "updated" /\ h'.copy = h.copy /\ h'.supersedes = h.supersedes
    BY <1>1, <1>5 DEF ApplyUpsert, Goto, HandlerLocals
  <2>2. ~PublishAssigned
    BY <2>1 DEF PublishAssigned
  <2>3. QED
    BY <1>2, <1>4, <2>1, <2>2
<1>6. CASE AuditUpdated
  <2>1. /\ h.step = "updated" /\ h'.copy = h.copy /\ h'.supersedes = h.supersedes /\ Complete(h.copy)
        /\ \/ h'.step = "void"
           \/ h'.step = "assign" /\ h.supersedes = NoAssignment
    BY <1>1, <1>6, LocalsType DEF AuditUpdated, Goto, Handled, HandlerLocals
  <2>2. ~PublishAssigned
    BY <2>1 DEF PublishAssigned
  <2>3. Live(s)' \subseteq {h.supersedes} /\ NoAssignment \notin Live(s)'
    BY <1>2, <1>4, <2>1, <2>2
  <2>4. QED
    BY <2>1, <2>3
<1>7. CASE PublishVoid
  <2>1. h.step = "void" /\ h'.step = "assign" /\ ~PublishAssigned
    BY <1>1, <1>7 DEF PublishVoid, PublishAssigned, Goto, HandlerLocals
  <2>2. Live(s)' \subseteq {h.supersedes} /\ h.supersedes \notin Live(s)'
    BY <1>2, <1>4, <1>7, <2>1
  <2>3. QED
    BY <2>1, <2>2
<1>8. CASE PublishAssigned
  <2>1. h.step = "assign" /\ h'.step = "recordGet"
    BY <1>1, <1>8 DEF PublishAssigned, HandlerLocals
  <2>2. \A t : Live(t)' \subseteq IF t = h.slot THEN Live(t) \cup {h'.id} ELSE Live(t)
    BY <1>8, PublishedIsLive
  <2>3. Live(s)' \subseteq Live(s) \cup {h'.id}
    BY <2>2
  <2>4. QED
    BY <1>2, <2>1, <2>3
<1>9. CASE RecordGet \/ RecordPut
  <2>1. /\ h.step \in {"recordGet", "recordPut"} /\ h'.step \in {"recordPut", "recorded"} /\ h'.id = h.id
    BY <1>1, <1>9 DEF RecordGet, RecordPut, Goto, HandlerLocals
  <2>2. ~PublishAssigned /\ Numbered
    BY <2>1 DEF PublishAssigned, Numbered
  <2>3. QED
    BY <1>2, <1>4, <2>1, <2>2
<1>10. QED
  BY <1>5, <1>6, <1>7, <1>8, <1>9

(* Finishing a message, refusing one, or working elsewhere. *)
LEMMA OneLiveWhenIdle ==
  ASSUME Base, HandlerHolds, [Next]_vars, NEW s \in Slots, Open(s), OneLive(s),
         ~PublishAssigned \/ h.slot # s, ~ApplyRead,
         h'.slot # s \/ h'.step \in {"idle", "reject"},
         h.step \in {"idle", "reject"} \/ h.slot # s \/ AuditAssigned \/ (AuditUpdated /\ ~Complete(h.copy))
  PROVE  OneLive(s)'
<1>1. Live(s)' \subseteq Live(s)
  BY LiveShrinks
<1>2. rows'[s] = rows[s]
  BY OpenRow DEF AuditAssigned, AuditUpdated, ApplyUpsert, RecordPut
<1>3. Live(s) \subseteq IF Complete(rows[s]) THEN {rows[s].aid} ELSE {}
  <2>1. CASE h.step \in {"idle", "reject"} \/ h.slot # s
    BY <2>1 DEF OneLive
  <2>2. CASE AuditAssigned /\ h.slot = s
    <3>1. Complete(rows[s]) /\ rows[s].aid = h.id
      BY <2>2 DEF AuditAssigned, HandlerHolds, Numbered
    <3>2. Live(s) \subseteq {h.id}
      BY <2>2 DEF AuditAssigned, OneLive, Numbered
    <3>3. QED
      BY <3>1, <3>2
  <2>3. CASE AuditUpdated /\ ~Complete(h.copy) /\ h.slot = s
    BY <2>3 DEF AuditUpdated, OneLive
  <2>4. QED
    BY <2>1, <2>2, <2>3
<1>4. QED
  BY <1>1, <1>2, <1>3 DEF OneLive, Complete

(* Every step of a process that does not die keeps one assignment live. *)
LEMMA OneLiveStep ==
  ASSUME Base, HandlerHolds, [Next]_vars, NEW s \in Slots, Open(s), OneLive(s), CompleteIsAssigned(s),
         ~Crash, ~FailApply
  PROVE  OneLive(s)'
<1>1. CASE ApplyRead
  BY <1>1, OneLiveWhenTaken
<1>2. CASE h' = h /\ pos' = pos
  <2>1. ~PublishAssigned /\ ~ApplyRead /\ ~ApplyUpsert /\ ~RecordPut
    <3>1. h \in HandlerLocals
      BY DEF Base, IInv, TypeOK
    <3>2. ~PublishAssigned
      BY <1>2, <3>1 DEF PublishAssigned, HandlerLocals
    <3>3. ~ApplyRead
      BY <1>2, <3>1 DEF ApplyRead, Receiving
    <3>4. ~ApplyUpsert /\ ~RecordPut
      BY <1>2, <3>1 DEF ApplyUpsert, RecordPut, Goto, HandlerLocals
    <3>5. QED
      BY <3>2, <3>3, <3>4
  <2>2. Live(s)' \subseteq Live(s) /\ rows'[s] = rows[s]
    BY <2>1, LiveShrinks, OpenRow
  <2>3. QED
    BY <1>2, <2>2 DEF OneLive, Numbered, Complete
<1>3. CASE SkipUndispatched \/ RefuseLate \/ AuditRejected
  <2>1. h.step \in {"idle", "reject"} /\ h'.step \in {"idle", "reject"} /\ ~PublishAssigned /\ ~ApplyRead
    <3>1. CASE RefuseLate
      BY <3>1 DEF RefuseLate, Receiving, Idle, PublishAssigned, ApplyRead
    <3>2. CASE SkipUndispatched \/ AuditRejected
      BY <3>2, LocalsType DEF SkipUndispatched, AuditRejected, Receiving, Handled, PublishAssigned, ApplyRead
    <3>3. QED
      BY <1>3, <3>1, <3>2
  <2>2. QED
    BY <2>1, OneLiveWhenIdle
<1>4. CASE AuditAssigned \/ (AuditUpdated /\ (~Complete(h.copy) \/ h.slot # s))
  <2>1. ~PublishAssigned /\ ~ApplyRead
    BY <1>4 DEF AuditAssigned, AuditUpdated, PublishAssigned, ApplyRead, Receiving
  <2>2. h'.step = "idle" \/ h'.slot = h.slot
    BY <1>4, LocalsType DEF AuditAssigned, AuditUpdated, Handled, Goto, Base, IInv, TypeOK, HandlerLocals
  <2>3. ~Complete(h.copy) \/ AuditAssigned => h'.step = "idle"
    BY <1>4, LocalsType DEF AuditAssigned, AuditUpdated, Handled
  <2>4. QED
    BY <1>4, <2>1, <2>2, <2>3, OneLiveWhenIdle
<1>5. CASE AuditUpdated /\ Complete(h.copy) /\ h.slot = s
  <2>1. h'.slot = s /\ h'.step \in {"void", "assign"}
    BY <1>5 DEF AuditUpdated, Handled, Goto, Base, IInv, TypeOK, HandlerLocals
  <2>2. QED
    BY <1>5, <2>1, OneLiveWhenContinued
<1>6. CASE /\ ApplyUpsert \/ PublishVoid \/ PublishAssigned \/ RecordGet \/ RecordPut
           /\ h'.slot = h.slot
  <2>1. h'.step \notin {"idle", "reject"} /\ ~ApplyRead
    BY <1>6 DEF ApplyUpsert, PublishVoid, PublishAssigned, RecordGet, RecordPut, ApplyRead, Receiving, Goto,
                Base, IInv, TypeOK, HandlerLocals
  <2>2. CASE h.slot = s
    BY <1>6, <2>1, <2>2, OneLiveWhenContinued
  <2>3. CASE h.slot # s
    BY <1>6, <2>1, <2>3, OneLiveWhenIdle
  <2>4. QED
    BY <2>2, <2>3
<1>7. QED
  BY <1>1, <1>2, <1>3, <1>4, <1>5, <1>6, HandlerMoves DEF Base, IInv

(* As long as the process has not died and no deadline has passed, at most one    *)
(* assignment of a slot is live (FR-9, FR-40): assign's void goes out before its  *)
(* replacement, and what it voids is what is live, because RecordAssignment has   *)
(* stored the id before the next message is taken up.  A death between publishing *)
(* and RecordAssignment breaks it.                                                *)
THEOREM OneAssignmentLive ==
  Spec => [](crashes = 0 /\ (\A s \in Slots : Open(s)) => AtMostOneLive)
<1>1. Init => LiveInv
  BY LocalsType DEF Init, LiveInv, OneLive, CompleteIsAssigned, Complete, NoRow, Sides, Live
<1>2. IInv /\ AuditInv /\ ConvergenceInv /\ LiveInv /\ [Next]_vars => LiveInv'
  <2> SUFFICES ASSUME IInv, AuditInv, ConvergenceInv, LiveInv, [Next]_vars, NEW s \in Slots, Open(s)'
               PROVE  CompleteIsAssigned(s)' /\ (crashes' = 0 => OneLive(s)')
    BY DEF LiveInv
  <2>1. Base /\ HandlerHolds /\ TypeOK
    BY DEF Base, ConvergenceInv, IInv
  <2>2. Open(s) /\ CompleteIsAssigned(s) /\ (crashes = 0 => OneLive(s))
    BY <2>1, OpenBefore DEF LiveInv
  <2>3. ASSUME crashes' = 0 PROVE OneLive(s)'
    <3>1. crashes = 0 /\ ~Crash /\ ~FailApply
      BY <2>1, <2>3, FaultsCount DEF TypeOK, Crash, FailApply
    <3>2. QED
      BY <2>1, <2>2, <3>1, OneLiveStep
  <2>4. QED
    BY <2>1, <2>2, <2>3, CompleteIsAssignedStep
<1>3. TypeOK /\ LiveInv => (crashes = 0 /\ (\A s \in Slots : Open(s)) => AtMostOneLive)
  <2> SUFFICES ASSUME TypeOK, LiveInv, crashes = 0, \A s \in Slots : Open(s), NEW s \in Slots
               PROVE  Cardinality(Live(s)) <= 1
    BY DEF AtMostOneLive
  <2>1. OneLive(s) /\ h.step \in HandlerSteps
    BY DEF LiveInv, TypeOK, HandlerLocals
  <2>2. \/ Live(s) = {} \/ Live(s) \subseteq {h.supersedes} \/ Live(s) \subseteq {h.id}
        \/ Live(s) \subseteq {rows[s].aid}
    BY <2>1 DEF OneLive, Numbered, HandlerSteps
  <2>3. PICK i : Live(s) = {} \/ Live(s) = {i}
    BY <2>2
  <2>4. QED
    BY <2>3, FS_EmptySet, FS_Singleton
<1>4. QED
  BY <1>1, <1>2, <1>3, ConvergenceInvariant, AuditInvariant, Invariance, TypeCorrect, PTL DEF Spec

----------------------------------------------------------------------------
(* What a void owes its slot: the inductive form of VoidIsOwed.                  *)

Closed(s) == LastDay[s] < now \div 2
SomeVoid(s) == \E j \in DOMAIN superseded : superseded[j].slot = s
Replaced(j) == \E k \in DOMAIN assigned : k > superseded[j].id /\ assigned[k].slot = superseded[j].slot
ToCome(j) == \E n \in pos + 1 .. Len(classified) :
               Concerns(n, superseded[j].slot) /\ classified[n].arrival = superseded[j].by

(* A slot with a void was complete, and its window had opened. *)
VoidedRows == \A j \in DOMAIN superseded : /\ Complete(rows[superseded[j].slot])
                                           /\ FirstDay[superseded[j].slot] <= now \div 2

(* What the handler knows of the voids of its slot: a refusal means the window has *)
(* closed, an update will lead to an assignment, and a recorded one came after     *)
(* them all.                                                                      *)
HandlerOwes ==
  /\ h.step = "reject" /\ SomeVoid(h.slot) => Closed(h.slot)
  /\ h.step \notin {"idle", "reject"} => FirstDay[h.slot] <= now \div 2
  /\ h.step \in {"upsert", "updated"} /\ SomeVoid(h.slot) => Complete(h.copy)
  /\ h.step \in {"recordGet", "recordPut", "recorded"} =>
       \A j \in DOMAIN superseded : superseded[j].slot = h.slot => Replaced(j)

DebtPaid == \A j \in DOMAIN superseded : Replaced(j) \/ ToCome(j) \/ Closed(superseded[j].slot)

DebtInv == VoidedRows /\ HandlerOwes /\ DebtPaid

(* What steps do not take back. *)
LEMMA DebtsStay ==
  ASSUME Base, [Next]_vars
  PROVE  /\ \A s \in Slots : Closed(s) => LastDay[s] < now' \div 2
         /\ \A s \in Slots : FirstDay[s] <= now \div 2 => FirstDay[s] <= now' \div 2
         /\ \A s \in Slots : Complete(rows[s]) => Complete(rows'[s])
         /\ \A j \in DOMAIN superseded : /\ j \in DOMAIN superseded' /\ superseded'[j] = superseded[j]
                                         /\ superseded[j].slot \in Slots
         /\ \A j \in DOMAIN superseded : Replaced(j) =>
              \E k \in DOMAIN assigned' : k > superseded[j].id /\ assigned'[k].slot = superseded[j].slot
         /\ superseded' = superseded
            \/ /\ PublishVoid
               /\ \A j \in DOMAIN superseded' : j \in DOMAIN superseded
                    \/ (superseded'[j].slot = h.slot /\ superseded'[j].by = h.arrival)
<1>1. now \in Nat /\ (now' = now \/ now' = now + 1)
  BY DEF Base, IInv, TypeOK, Next, vars, consumerVars, Classify, Tick, Crash, Restart, Consume,
         Poll, CommitBatch, Handle, SkipUndispatched, FailApply, RefuseLate, AuditRejected,
         ApplyRead, ApplyUpsert, AuditUpdated, PublishVoid, PublishAssigned, RecordGet, RecordPut,
         AuditAssigned, Sweep, SweepRead, SweepMark, SweepAlert, SweepFail
<1>2. now \div 2 <= now' \div 2 /\ now \div 2 \in Nat /\ now' \div 2 \in Nat
  BY <1>1
<1>3. \A s \in Slots : Closed(s) => LastDay[s] < now' \div 2
  <2>1. \A s \in Slots : LastDay[s] \in Nat
    BY ConstantsAssumption
  <2> DEFINE d == now \div 2
             e == now' \div 2
  <2>2. d \in Nat /\ e \in Nat /\ d <= e
    BY <1>2
  <2> HIDE DEF d, e
  <2>3. \A s \in Slots : LastDay[s] < d => LastDay[s] < e
    BY <2>1, <2>2
  <2>4. QED
    BY <2>3 DEF Closed, d, e
<1>4. \A s \in Slots : FirstDay[s] <= now \div 2 => FirstDay[s] <= now' \div 2
  <2>1. \A s \in Slots : FirstDay[s] \in Nat
    BY ConstantsAssumption
  <2> DEFINE d == now \div 2
             e == now' \div 2
  <2>2. d \in Nat /\ e \in Nat /\ d <= e
    BY <1>2
  <2> HIDE DEF d, e
  <2>3. \A s \in Slots : FirstDay[s] <= d => FirstDay[s] <= e
    BY <2>1, <2>2
  <2>4. QED
    BY <2>3 DEF d, e
<1>5. \A s \in Slots : Complete(rows[s]) => Complete(rows'[s])
  BY RowsStep DEF Base, Covers, Complete
<1>6. \A j \in DOMAIN superseded : /\ j \in DOMAIN superseded' /\ superseded'[j] = superseded[j]
                                   /\ superseded[j].slot \in Slots
  <2> DEFINE V == [slot : Slots, id : Nat, by : Arrivals]
  <2>1. superseded \in Seq(V) /\ \A v \in V : v.slot \in Slots
    BY DEF Base, IInv, TypeOK
  <2> HIDE DEF V
  <2>2. \A j \in DOMAIN superseded : superseded[j] \in V
    BY <2>1
  <2>3. QED
    BY <2>1, <2>2, VoidsStay DEF Base, IInv
<1>7. \A j \in DOMAIN superseded : Replaced(j) =>
        \E k \in DOMAIN assigned' : k > superseded[j].id /\ assigned'[k].slot = superseded[j].slot
  BY AssignedStays DEF Base, IInv, Replaced
<1>8. superseded' = superseded
      \/ /\ PublishVoid
         /\ \A j \in DOMAIN superseded' : j \in DOMAIN superseded
              \/ (superseded'[j].slot = h.slot /\ superseded'[j].by = h.arrival)
  <2>1. CASE PublishVoid
    <3> DEFINE V == [slot : Slots, id : Nat, by : Arrivals]
               v == [slot |-> h.slot, id |-> h.supersedes, by |-> h.arrival]
    <3>1. v \in V /\ superseded \in Seq(V) /\ superseded' = Append(superseded, v)
          /\ v.slot = h.slot /\ v.by = h.arrival
      BY <2>1 DEF PublishVoid, Base, IInv, TypeOK, HandlerLocals
    <3> HIDE DEF V, v
    <3>2. \A j \in DOMAIN superseded' : j \in DOMAIN superseded \/ superseded'[j] = v
      BY <3>1, AppendFacts
    <3>3. QED
      BY <2>1, <3>1, <3>2
  <2>2. QED
    BY <2>1, TopicsAppend DEF Base, IInv
<1>9. QED
  BY <1>3, <1>4, <1>5, <1>6, <1>7, <1>8

(* No row of a slot with a void loses a side, and a void goes out for a slot that  *)
(* is complete and open.                                                          *)
LEMMA VoidedRowsStep ==
  ASSUME Base, DebtInv, [Next]_vars
  PROVE  VoidedRows'
<1> SUFFICES ASSUME NEW j \in DOMAIN superseded'
             PROVE  /\ Complete(rows'[superseded'[j].slot])
                    /\ FirstDay[superseded'[j].slot] <= now' \div 2
  BY DEF VoidedRows, Complete
<1>1. CASE j \in DOMAIN superseded
  BY <1>1, DebtsStay DEF DebtInv, VoidedRows
<1>2. CASE PublishVoid /\ superseded'[j].slot = h.slot
  <2>1. h.slot \in Slots /\ Complete(rows[h.slot]) /\ FirstDay[h.slot] <= now \div 2
    BY <1>2 DEF PublishVoid, Base, IInv, TypeOK, HandlerInv, DebtInv, HandlerOwes
  <2>2. QED
    BY <1>2, <2>1, DebtsStay
<1>3. QED
  BY <1>1, <1>2, DebtsStay

(* The handler's knowledge after a step. *)
LEMMA HandlerOwesStep ==
  ASSUME Base, DebtInv, [Next]_vars
  PROVE  HandlerOwes'
<1>1. CASE h'.step = "idle"
  BY <1>1 DEF HandlerOwes
<1>2. CASE RefuseLate
  <2>1. /\ h'.step = "reject" /\ h'.slot = Incoming.slot /\ Incoming.slot \in Slots /\ ~Accepts(Incoming.slot)
        /\ superseded' = superseded /\ now' = now
    BY <1>2, IncomingType DEF RefuseLate, Idle, topicVars, Base, IInv, Message
  <2>2. SomeVoid(Incoming.slot) => FirstDay[Incoming.slot] <= now \div 2
    BY DEF DebtInv, VoidedRows, SomeVoid
  <2>3. SomeVoid(Incoming.slot) => LastDay[Incoming.slot] < now \div 2
    <3>1. LastDay[Incoming.slot] \in Nat /\ now \div 2 \in Nat
      BY <2>1, ConstantsAssumption DEF Base, IInv, TypeOK
    <3> DEFINE l == LastDay[Incoming.slot]
               d == now \div 2
    <3>2. l \in Nat /\ d \in Nat
      BY <3>1
    <3>3. SomeVoid(Incoming.slot) => ~ (d <= l)
      BY <2>1, <2>2 DEF Accepts
    <3> HIDE DEF l, d
    <3>4. SomeVoid(Incoming.slot) => l < d
      BY <3>2, <3>3
    <3>5. QED
      BY <3>4 DEF l, d
  <2>4. QED
    BY <2>1, <2>3 DEF HandlerOwes, SomeVoid, Closed
<1>3. CASE ApplyRead
  <2> DEFINE s == Incoming.slot
  <2>1. /\ h'.step = "upsert" /\ h'.slot = s /\ h'.copy = ApplySide(rows[s], Incoming)
        /\ s \in Slots /\ Incoming.side \in Sides /\ Incoming.arrival # NoArrival
        /\ FirstDay[s] <= now \div 2 /\ superseded' = superseded /\ now' = now
    BY <1>3, IncomingType, ConstantsAssumption
       DEF ApplyRead, Accepts, ApplyFails, topicVars, Base, IInv, Message
  <2>2. rows[s] \in Row
    BY <2>1 DEF Base, IInv, TypeOK
  <2>3. Complete(rows[s]) => Complete(ApplySide(rows[s], Incoming))
    BY <2>1, <2>2 DEF Row, ApplySide, Complete
  <2>4. SomeVoid(s) => Complete(ApplySide(rows[s], Incoming))
    BY <2>3 DEF DebtInv, VoidedRows, SomeVoid
  <2> HIDE DEF s
  <2>5. QED
    BY <2>1, <2>4 DEF HandlerOwes, SomeVoid, Complete
<1>4. CASE h' = h
  <2>1. superseded' = superseded
    BY <1>4, DebtsStay DEF PublishVoid, Goto, Base, IInv, TypeOK, HandlerLocals
  <2>2. h.step # "idle" => h.slot \in Slots
    BY DEF Base, IInv, TypeOK
  <2>3. h.step = "reject" /\ SomeVoid(h.slot) => LastDay[h.slot] < now' \div 2
    BY <2>2, DebtsStay DEF DebtInv, HandlerOwes
  <2>4. h.step \notin {"idle", "reject"} => FirstDay[h.slot] <= now' \div 2
    BY <2>2, DebtsStay DEF DebtInv, HandlerOwes
  <2>5. h.step \in {"recordGet", "recordPut", "recorded"} =>
          \A j \in DOMAIN superseded : superseded[j].slot = h.slot =>
            \E k \in DOMAIN assigned' : k > superseded[j].id /\ assigned'[k].slot = superseded[j].slot
    BY DebtsStay DEF DebtInv, HandlerOwes
  <2>6. QED
    BY <1>4, <2>1, <2>3, <2>4, <2>5 DEF DebtInv, HandlerOwes, SomeVoid, Closed, Replaced, Complete
<1>5. CASE ApplyUpsert \/ (AuditUpdated /\ h'.step # "idle") \/ PublishVoid \/ RecordGet \/ RecordPut
  <2>1. /\ h.step \notin {"idle", "reject"} /\ h'.step \notin {"idle", "reject"}
        /\ h'.slot = h.slot /\ h.slot \in Slots /\ now' = now /\ assigned' = assigned
    BY <1>5, LocalsType DEF ApplyUpsert, AuditUpdated, PublishVoid, RecordGet, RecordPut, Handled, Goto,
       topicVars, Base, IInv, TypeOK, HandlerLocals
  <2>2. FirstDay[h'.slot] <= now' \div 2
    BY <2>1 DEF DebtInv, HandlerOwes
  <2>3. CASE ApplyUpsert
    <3>1. h.step = "upsert" /\ h'.step = "updated" /\ h'.copy = h.copy /\ superseded' = superseded
      BY <2>3 DEF ApplyUpsert, Goto, topicVars, Base, IInv, TypeOK, HandlerLocals
    <3>2. QED
      BY <2>1, <2>2, <3>1 DEF DebtInv, HandlerOwes, SomeVoid, Complete
  <2>4. CASE h'.step \in {"void", "assign"}
    BY <2>2, <2>4 DEF HandlerOwes
  <2>5. CASE RecordGet \/ RecordPut
    <3>1. h.step \in {"recordGet", "recordPut"} /\ h'.step \in {"recordPut", "recorded"} /\ superseded' = superseded
      BY <2>5 DEF RecordGet, RecordPut, Goto, topicVars, Base, IInv, TypeOK, HandlerLocals
    <3>2. QED
      BY <2>1, <2>2, <3>1 DEF DebtInv, HandlerOwes, Replaced
  <2>6. AuditUpdated \/ PublishVoid => h'.step \in {"idle", "void", "assign"}
    BY LocalsType DEF AuditUpdated, PublishVoid, Handled, Goto, Base, IInv, TypeOK, HandlerLocals
  <2>7. QED
    BY <1>1, <1>5, <2>3, <2>4, <2>5, <2>6
<1>6. CASE PublishAssigned
  <2> DEFINE A == [slot : Slots, side : [Sides -> Arrivals \cup {NoArrival}], supersedes : Nat]
             a == [slot |-> h.slot, side |-> h.copy.side, supersedes |-> h.supersedes]
  <2>1. a \in A /\ a.slot = h.slot
    BY <1>6, RowFields DEF PublishAssigned, Base, IInv, TypeOK, HandlerLocals
  <2>2. assigned \in Seq(A) /\ assigned' = Append(assigned, a) /\ superseded' = superseded
        /\ h'.step = "recordGet" /\ h'.slot = h.slot /\ now' = now /\ h.step = "assign"
    BY <1>6 DEF PublishAssigned, Base, IInv, TypeOK, HandlerLocals
  <2> HIDE DEF A, a
  <2>3. \A j \in DOMAIN superseded : superseded[j].slot = h.slot =>
          \E k \in DOMAIN assigned' : k > superseded[j].id /\ assigned'[k].slot = superseded[j].slot
    <3> TAKE j \in DOMAIN superseded
    <3> HAVE superseded[j].slot = h.slot
    <3>1. superseded[j].id \in DOMAIN assigned
      BY DEF Base, IInv, SupersessionOrder
    <3>2. /\ superseded[j].id < Len(assigned) + 1 /\ Len(assigned) + 1 \in DOMAIN assigned'
          /\ assigned'[Len(assigned) + 1].slot = h.slot
          /\ superseded[j].id \in Nat /\ Len(assigned) + 1 \in Nat
      BY <2>1, <2>2, <3>1, AppendFacts
    <3> DEFINE k == Len(assigned) + 1
               i == superseded[j].id
    <3>3. i \in Nat /\ k \in Nat /\ i < k
      BY <3>2
    <3>4. k > i
      <4> HIDE DEF i, k
      <4>1. QED
        BY <3>3
    <3>5. QED
      BY <3>2, <3>4
  <2>4. FirstDay[h.slot] <= now \div 2
    BY <2>2 DEF DebtInv, HandlerOwes
  <2>5. QED
    BY <2>2, <2>3, <2>4 DEF HandlerOwes, Replaced
<1>7. CASE Crash \/ FailApply \/ SkipUndispatched \/ AuditRejected \/ AuditAssigned
  BY <1>1, <1>7, LocalsType DEF Crash, FailApply, Restart, SkipUndispatched, AuditRejected, AuditAssigned, Handled
<1>8. QED
  BY <1>1, <1>2, <1>3, <1>4, <1>5, <1>6, <1>7, HandlerMoves DEF Base, IInv

(* A void that no assignment has answered still has its message to come. *)
LEMMA DebtPaidStep ==
  ASSUME Base, DebtInv, [Next]_vars
  PROVE  DebtPaid'
<1> SUFFICES ASSUME NEW j \in DOMAIN superseded' PROVE (Replaced(j) \/ ToCome(j) \/ Closed(superseded[j].slot))'
  BY DEF DebtPaid
<1>1. /\ \A n \in DOMAIN classified : n \in DOMAIN classified' /\ classified'[n] = classified[n]
      /\ pos \in Nat /\ pos' \in Nat
      /\ DOMAIN classified = 1 .. Len(classified) /\ DOMAIN classified' = 1 .. Len(classified')
      /\ Len(classified) \in Nat /\ Len(classified') \in Nat
  <2>1. classified \in Seq(Messages) /\ classified' \in Seq(Messages)
    BY TypeStep DEF Base, IInv, TypeOK
  <2>2. QED
    BY <2>1, MessagesStay, PositionMoves DEF Base, IInv
<1>2. ASSUME NEW n \in DOMAIN classified, n > pos', Concerns(n, superseded'[j].slot),
             classified[n].arrival = superseded'[j].by
      PROVE  ToCome(j)'
  <2>1. n \in pos' + 1 .. Len(classified')
    BY <1>1, <1>2
  <2>2. QED
    BY <1>1, <1>2, <2>1 DEF ToCome, Concerns
<1>3. CASE PublishVoid /\ superseded'[j].slot = h.slot /\ superseded'[j].by = h.arrival
  <2>1. /\ Concerns(pos + 1, h.slot) /\ classified[pos + 1].arrival = h.arrival
        /\ pos + 1 \in DOMAIN classified /\ pos' = pos
    BY <1>3, MessagesStay DEF PublishVoid, Goto, Base, IInv, AuditInv, HandlesIncoming
  <2>2. pos + 1 > pos'
    BY <1>1, <2>1
  <2>3. QED
    BY <1>2, <1>3, <2>1, <2>2
<1>4. CASE j \in DOMAIN superseded
  <2>1. superseded'[j] = superseded[j] /\ superseded[j].slot \in Slots
    BY <1>4, DebtsStay
  <2>2. Replaced(j) => Replaced(j)'
    <3>1. Replaced(j) => \E k \in DOMAIN assigned' : k > superseded[j].id /\ assigned'[k].slot = superseded[j].slot
      BY <1>4, DebtsStay
    <3>2. QED
      BY <2>1, <3>1 DEF Replaced
  <2>3. Closed(superseded[j].slot) => Closed(superseded[j].slot)'
    <3>1. Closed(superseded[j].slot) => LastDay[superseded[j].slot] < now' \div 2
      BY <2>1, DebtsStay
    <3>2. QED
      BY <2>1, <3>1 DEF Closed
  <2>4. ASSUME ToCome(j), ~Replaced(j), ~Closed(superseded[j].slot) PROVE ToCome(j)'
    <3>1. PICK n \in pos + 1 .. Len(classified) :
            Concerns(n, superseded[j].slot) /\ classified[n].arrival = superseded[j].by
      BY <2>4 DEF ToCome
    <3>2. n \in DOMAIN classified /\ n > pos /\ n \in Nat
      BY <1>1, <3>1
    <3>3. CASE n > pos'
      BY <1>2, <2>1, <3>1, <3>2, <3>3
    <3>4. ASSUME n <= pos' PROVE FALSE
      <4>1. n = pos + 1 /\ pos' = pos + 1
        BY <1>1, <3>2, <3>4, PositionMoves
      <4>2. /\ classified' = classified
            /\ \/ SkipUndispatched
               \/ AuditRejected
               \/ AuditUpdated /\ ~Complete(h.copy)
               \/ AuditAssigned
        <5>1. pos' # pos /\ ~(pos' <= pos)
          BY <1>1, <4>1
        <5>2. QED
          BY <5>1, PositionMoves
      <4>3. ~SkipUndispatched
        BY <3>1, <4>1 DEF SkipUndispatched, Incoming, Concerns
      <4>4. h.step # "idle" /\ h.slot = superseded[j].slot
        BY <3>1, <4>1, <4>2, <4>3 DEF AuditRejected, AuditUpdated, AuditAssigned, Base, AuditInv,
           HandlesIncoming, Concerns
      <4>5. SomeVoid(h.slot)
        BY <1>4, <4>4 DEF SomeVoid
      <4>6. ~AuditRejected
        BY <2>4, <4>4, <4>5 DEF AuditRejected, DebtInv, HandlerOwes
      <4>7. ~(AuditUpdated /\ ~Complete(h.copy))
        BY <4>5 DEF AuditUpdated, DebtInv, HandlerOwes
      <4>8. ~AuditAssigned
        BY <1>4, <2>4, <4>4 DEF AuditAssigned, DebtInv, HandlerOwes
      <4>9. QED
        BY <4>2, <4>3, <4>6, <4>7, <4>8
    <3>5. QED
      BY <1>1, <3>2, <3>3, <3>4
  <2>5. QED
    BY <1>4, <2>2, <2>3, <2>4 DEF DebtInv, DebtPaid
<1>5. QED
  BY <1>3, <1>4, DebtsStay

(* No void has been published at first. *)
LEMMA DebtInit == Init => DebtInv
BY LocalsType DEF Init, DebtInv, VoidedRows, HandlerOwes, DebtPaid

(* The invariant behind what voids owe. *)
LEMMA DebtInvariant == Spec => []DebtInv
<1>1. Base /\ DebtInv /\ [Next]_vars => DebtInv'
  BY VoidedRowsStep, HandlerOwesStep, DebtPaidStep DEF DebtInv
<1>2. Spec => []Base
  BY Invariance, AuditInvariant, ConvergenceInvariant, PTL DEF Base, ConvergenceInv
<1>3. QED
  BY <1>1, <1>2, DebtInit, PTL DEF Spec

(* However often the process dies, a slot whose assignment was voided has a newer  *)
(* one, or its correction is handled again, or the window has closed: the void     *)
(* that service.assign publishes first is never the last word.                    *)
THEOREM VoidsAreOwed == Spec => []VoidIsOwed
<1>1. Base /\ DebtInv => VoidIsOwed
  BY DEF DebtInv, DebtPaid, Replaced, ToCome, Concerns, Closed, VoidIsOwed
<1>2. Spec => []Base
  BY Invariance, AuditInvariant, ConvergenceInvariant, PTL DEF Base, ConvergenceInv
<1>3. QED
  BY <1>1, <1>2, DebtInvariant, PTL

=============================================================================
