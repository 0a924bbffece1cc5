------------------------- MODULE BerthmasterProofs -------------------------
(***************************************************************************)
(* Proofs about Berthmaster for every set of slots, arrivals, messages and *)
(* sweepers, every clock and any number of crashes and failed sweeps.      *)
(***************************************************************************)
EXTENDS Berthmaster, FiniteSetTheorems, TLAPS

(* The rows Apply, Upsert and the sweep build are rows. *)
LEMMA RowFields ==
  ASSUME NEW r \in Row
  PROVE  /\ r.state \in States /\ r.aid \in Nat
         /\ r.side \in [Sides -> Arrivals \cup {NoArrival}]
BY DEF Row

(* The absent row is a row. *)
LEMMA NoRowType == NoRow \in Row
BY DEF NoRow, Row, States, NoAssignment

(* Apply turns a row into a row whose state says whether it is complete. *)
LEMMA ApplySideType ==
  ASSUME NEW r \in Row, NEW m \in Message, m.side \in Sides
  PROVE  /\ ApplySide(r, m) \in Row
         /\ ApplySide(r, m).side = [r.side EXCEPT ![m.side] = m.arrival]
         /\ ApplySide(r, m).aid = r.aid
         /\ ApplySide(r, m).state = IF Complete(ApplySide(r, m)) THEN "ASSIGNED" ELSE "PARTIAL"
BY DEF ApplySide, Row, States, Message, Complete

(* Upsert stores a row; its state is the new one and its id the newer non-empty one. *)
LEMMA MergeType ==
  ASSUME NEW r \in Row, NEW c \in Row
  PROVE  /\ Merge(r, c) \in Row
         /\ Merge(r, c).state = c.state
         /\ \A d \in Sides : Merge(r, c).side[d] = IF c.side[d] # NoArrival THEN c.side[d] ELSE r.side[d]
         /\ Merge(r, c).aid = IF c.aid # NoAssignment THEN c.aid ELSE r.aid
BY DEF Merge, Row

(* Marking a row MISSING changes its state alone. *)
LEMMA MarkType ==
  ASSUME NEW r \in Row
  PROVE  /\ [r EXCEPT !.state = "MISSING"] \in Row
         /\ [r EXCEPT !.state = "MISSING"].side = r.side
         /\ [r EXCEPT !.state = "MISSING"].aid = r.aid
         /\ [r EXCEPT !.state = "MISSING"].state = "MISSING"
BY DEF Row, States

(* RecordAssignment changes the id and the state of the row alone. *)
LEMMA StampType ==
  ASSUME NEW r \in Row, NEW i \in Nat
  PROVE  LET c == [r EXCEPT !.aid = i, !.state = "ASSIGNED"]
         IN  c \in Row /\ c.side = r.side /\ c.aid = i /\ c.state = "ASSIGNED"
BY DEF Row, States

(* What an outcome supersedes is an assignment id or nothing. *)
LEMMA SupersedesType ==
  ASSUME NEW r \in Row, NEW m
  PROVE  Supersedes(r, m) \in Nat /\ Supersedes(r, m) \in {NoAssignment, r.aid}
BY DEF Supersedes, Row, NoAssignment

----------------------------------------------------------------------------
(* Type correctness. *)

(* The idle locals of both goroutines are well typed. *)
LEMMA LocalsType ==
  /\ Idle \in HandlerLocals /\ Idle.step = "idle"
  /\ NoSweep \in SweepLocals
BY NoRowType DEF Idle, NoSweep, HandlerLocals, SweepLocals, HandlerSteps, NoAssignment

(* The initial state is well typed. *)
LEMMA TypeInit == Init => TypeOK
<1> SUFFICES ASSUME Init PROVE TypeOK
  OBVIOUS
<1>1. rows \in [Slots -> Row]
  BY NoRowType DEF Init
<1>2. sweeps \in [Sweepers -> SweepLocals]
  BY LocalsType DEF Init
<1>3. QED
  BY <1>1, <1>2, LocalsType DEF Init, TypeOK

(* What the handler's common steps leave well typed. *)
LEMMA HandledType ==
  ASSUME TypeOK, Handled, pos < batchEnd, classified' = classified
  PROVE  /\ committed' \in Nat /\ pos' \in Nat /\ batchEnd' \in Nat
         /\ committed' <= pos' /\ pos' <= batchEnd' /\ batchEnd' <= Len(classified')
         /\ h' \in HandlerLocals /\ h'.step = "idle"
BY LocalsType DEF Handled, TypeOK

(* Moving the handler to another step keeps its slot and its place in the batch. *)
LEMMA GotoType ==
  ASSUME TypeOK, NEW step \in HandlerSteps, Goto(step), h.step # "idle", classified' = classified
  PROVE  /\ committed' \in Nat /\ pos' \in Nat /\ batchEnd' \in Nat
         /\ committed' <= pos' /\ pos' <= batchEnd' /\ batchEnd' <= Len(classified')
         /\ h' \in HandlerLocals
         /\ h'.slot \in Slots /\ h'.arrival \in Arrivals /\ pos' < batchEnd'
BY DEF Goto, TypeOK, HandlerLocals

(* An audit entry is appended well typed. *)
LEMMA AuditType ==
  ASSUME TypeOK, h.step # "idle", NEW id \in Nat,
         NEW type \in {"SLOT_REJECTED", "SLOT_UPDATED", "BERTH_ASSIGNED"}, Audit(type, id)
  PROVE  trail' \in Seq([type : {"SLOT_REJECTED", "SLOT_UPDATED", "BERTH_ASSIGNED"},
                         arrival : Arrivals, slot : Slots, id : Nat])
BY DEF Audit, TypeOK

(* A restart goes back to the committed offset and loses the locals. *)
LEMMA RestartType ==
  ASSUME TypeOK, Restart
  PROVE  /\ committed' \in Nat /\ pos' \in Nat /\ batchEnd' \in Nat
         /\ committed' <= pos' /\ pos' <= batchEnd' /\ batchEnd' <= Len(classified')
         /\ h' \in HandlerLocals /\ h'.step = "idle"
         /\ sweeps' \in [Sweepers -> SweepLocals]
<1>1. sweeps' \in [Sweepers -> SweepLocals]
  BY LocalsType DEF Restart, TypeOK
<1>2. h' \in HandlerLocals /\ h'.step = "idle"
  BY LocalsType DEF Restart
<1>3. QED
  BY <1>1, <1>2 DEF Restart, TypeOK

(* The message being handled is a message. *)
LEMMA IncomingType ==
  ASSUME TypeOK, Receiving
  PROVE  /\ Incoming \in Message /\ Incoming.slot \in Slots /\ Incoming.arrival \in Arrivals
         /\ pos + 1 \in DOMAIN classified /\ pos < batchEnd
<1>1. pos + 1 \in 1 .. Len(classified) /\ pos < batchEnd
  BY DEF Receiving, TypeOK
<1>2. Incoming \in Messages
  BY <1>1 DEF Incoming, TypeOK
<1>3. QED
  BY <1>1, <1>2, ConstantsAssumption DEF Message, TypeOK

(* Every handler step preserves the types. *)
LEMMA HandleType == TypeOK /\ Handle => TypeOK'
<1> SUFFICES ASSUME TypeOK, Handle PROVE TypeOK'
  OBVIOUS
<1> USE DEF topicVars, faultVars
<1>1. CASE SkipUndispatched
  BY <1>1, IncomingType, HandledType DEF SkipUndispatched, TypeOK
<1>2. CASE FailApply
  BY <1>2, RestartType DEF FailApply, Restart, TypeOK
<1>3. CASE RefuseLate
  <2>1. h' \in HandlerLocals /\ h'.slot \in Slots /\ h'.arrival \in Arrivals
    BY <1>3, IncomingType, NoRowType DEF RefuseLate, Idle, HandlerLocals, HandlerSteps, NoAssignment
  <2>2. QED
    BY <1>3, <2>1, IncomingType DEF RefuseLate, TypeOK
<1>4. CASE AuditRejected
  <2>1. classified' = classified /\ h.step # "idle" /\ pos < batchEnd
    BY <1>4 DEF AuditRejected, TypeOK
  <2>2. QED
    BY <1>4, <2>1, HandledType, AuditType DEF AuditRejected, TypeOK, NoAssignment
<1>5. CASE ApplyRead
  <2>1. /\ Incoming \in Message /\ Incoming.slot \in Slots /\ Incoming.arrival \in Arrivals
        /\ Incoming.side \in Sides /\ pos < batchEnd
    BY <1>5, IncomingType DEF ApplyRead, ApplyFails
  <2>2. rows[Incoming.slot] \in Row
    BY <2>1 DEF TypeOK
  <2>3. /\ ApplySide(rows[Incoming.slot], Incoming) \in Row
        /\ Supersedes(rows[Incoming.slot], Incoming) \in Nat
    BY <2>1, <2>2, ApplySideType, SupersedesType
  <2>4. h' \in HandlerLocals /\ h'.slot \in Slots /\ h'.arrival \in Arrivals
    BY <1>5, <2>1, <2>3 DEF ApplyRead, HandlerLocals, HandlerSteps, NoAssignment
  <2>5. QED
    BY <1>5, <2>1, <2>4 DEF ApplyRead, TypeOK
<1>6. CASE ApplyUpsert \/ RecordPut
  <2>1. /\ h.step # "idle" /\ h.slot \in Slots /\ h.copy \in Row /\ rows[h.slot] \in Row
        /\ classified' = classified
    BY <1>6 DEF ApplyUpsert, RecordPut, TypeOK, HandlerLocals
  <2>2. Merge(rows[h.slot], h.copy) \in Row
    BY <2>1, MergeType
  <2>3. rows' \in [Slots -> Row]
    BY <1>6, <2>1, <2>2 DEF ApplyUpsert, RecordPut, TypeOK
  <2>4. Goto("updated") \/ Goto("recorded")
    BY <1>6 DEF ApplyUpsert, RecordPut
  <2>5. "updated" \in HandlerSteps /\ "recorded" \in HandlerSteps
    BY DEF HandlerSteps
  <2>6. QED
    BY <1>6, <2>1, <2>3, <2>4, <2>5, GotoType DEF ApplyUpsert, RecordPut, TypeOK
<1>7. CASE AuditUpdated
  <2>1. h.step # "idle" /\ classified' = classified /\ pos < batchEnd
    BY <1>7 DEF AuditUpdated, TypeOK
  <2>2. "void" \in HandlerSteps /\ "assign" \in HandlerSteps
    BY DEF HandlerSteps
  <2>3. trail' \in Seq([type : {"SLOT_REJECTED", "SLOT_UPDATED", "BERTH_ASSIGNED"},
                        arrival : Arrivals, slot : Slots, id : Nat])
    BY <1>7, <2>1, AuditType DEF AuditUpdated, NoAssignment
  <2>4. CASE Handled
    BY <1>7, <2>1, <2>3, <2>4, HandledType DEF AuditUpdated, TypeOK
  <2>5. CASE Goto("void") \/ Goto("assign")
    BY <1>7, <2>1, <2>2, <2>3, <2>5, GotoType DEF AuditUpdated, TypeOK
  <2>6. QED
    BY <1>7, <2>4, <2>5 DEF AuditUpdated
<1>8. CASE PublishVoid
  <2>1. /\ h.step # "idle" /\ classified' = classified /\ "assign" \in HandlerSteps
        /\ h.slot \in Slots /\ h.supersedes \in Nat /\ h.arrival \in Arrivals
    BY <1>8 DEF PublishVoid, HandlerSteps, TypeOK, HandlerLocals
  <2>2. superseded' \in Seq([slot : Slots, id : Nat, by : Arrivals])
    BY <1>8, <2>1 DEF PublishVoid, TypeOK
  <2>3. QED
    BY <1>8, <2>1, <2>2, GotoType DEF PublishVoid, TypeOK
<1>9. CASE PublishAssigned
  <2>1. /\ h.step # "idle" /\ h.slot \in Slots /\ h.supersedes \in Nat
        /\ h.copy.side \in [Sides -> Arrivals \cup {NoArrival}]
    BY <1>9, RowFields DEF PublishAssigned, TypeOK, HandlerLocals
  <2>2. assigned' \in Seq([slot : Slots, side : [Sides -> Arrivals \cup {NoArrival}], supersedes : Nat])
    BY <1>9, <2>1 DEF PublishAssigned, TypeOK
  <2>3. Len(assigned) + 1 \in Nat
    BY DEF TypeOK
  <2>4. /\ h' \in HandlerLocals /\ h'.slot = h.slot /\ h'.arrival = h.arrival
    BY <1>9, <2>3 DEF PublishAssigned, TypeOK, HandlerLocals, HandlerSteps
  <2>5. QED
    BY <1>9, <2>1, <2>2, <2>4 DEF PublishAssigned, TypeOK
<1>10. CASE RecordGet
  <2>1. h.step # "idle" /\ h.slot \in Slots /\ rows[h.slot] \in Row /\ h.id \in Nat
    BY <1>10 DEF RecordGet, TypeOK, HandlerLocals
  <2>2. [rows[h.slot] EXCEPT !.aid = h.id, !.state = "ASSIGNED"] \in Row
    BY <2>1, StampType
  <2>3. /\ h' \in HandlerLocals /\ h'.slot = h.slot /\ h'.arrival = h.arrival
    BY <1>10, <2>2 DEF RecordGet, TypeOK, HandlerLocals, HandlerSteps
  <2>4. QED
    BY <1>10, <2>1, <2>3 DEF RecordGet, TypeOK
<1>11. CASE AuditAssigned
  <2>1. h.step # "idle" /\ classified' = classified /\ pos < batchEnd /\ h.id \in Nat
    BY <1>11 DEF AuditAssigned, TypeOK, HandlerLocals
  <2>2. QED
    BY <1>11, <2>1, HandledType, AuditType DEF AuditAssigned, TypeOK
<1>12. QED
  BY <1>1, <1>2, <1>3, <1>4, <1>5, <1>6, <1>7, <1>8, <1>9, <1>10, <1>11 DEF Handle

(* Every sweep step preserves the types. *)
LEMMA SweepType == ASSUME TypeOK, NEW w \in Sweepers, Sweep(w) \/ SweepFail(w) PROVE TypeOK'
<1> USE DEF consumerVars, topicVars, faultVars
<1>1. sweeps[w] \in SweepLocals
  BY DEF TypeOK
<1>2. ASSUME NEW s \in Slots PROVE rows[s] \in Row /\ sweeps[w].copy[s] \in Row
  BY <1>1 DEF TypeOK, SweepLocals
<1>3. CASE SweepRead(w)
  <2>1. Due \subseteq Slots
    BY DEF Due
  <2>2. [s \in Slots |-> IF s \in Due THEN rows[s] ELSE NoRow] \in [Slots -> Row]
    BY <1>2, NoRowType
  <2>3. sweeps' \in [Sweepers -> SweepLocals]
    BY <1>3, <2>1, <2>2 DEF SweepRead, TypeOK, SweepLocals
  <2>4. QED
    BY <1>3, <2>3 DEF SweepRead, TypeOK
<1>4. CASE SweepMark(w)
  <2>1. PICK s \in sweeps[w].todo :
          /\ rows' = [rows EXCEPT ![s] = Merge(@, [sweeps[w].copy[s] EXCEPT !.state = "MISSING"])]
          /\ sweeps' = [sweeps EXCEPT ![w].todo = @ \ {s}, ![w].marked = @ \cup {s}]
    BY <1>4 DEF SweepMark
  <2>2. s \in Slots
    BY <1>1, <2>1 DEF SweepLocals
  <2>3. rows' \in [Slots -> Row]
    BY <1>2, <2>1, <2>2, MarkType, MergeType DEF TypeOK
  <2>4. sweeps' \in [Sweepers -> SweepLocals]
    BY <1>1, <2>1, <2>2 DEF TypeOK, SweepLocals
  <2>5. QED
    BY <1>4, <2>3, <2>4 DEF SweepMark, TypeOK
<1>5. CASE SweepAlert(w)
  <2>1. PICK s \in sweeps[w].marked :
          /\ alerts' = Append(alerts, [slot |-> s, missing |-> MissingSide(sweeps[w].copy[s])])
          /\ sweeps' = [sweeps EXCEPT ![w] = Alerted(@, s)]
    BY <1>5 DEF SweepAlert
  <2>2. s \in Slots
    BY <1>1, <2>1 DEF SweepLocals
  <2>3. MissingSide(sweeps[w].copy[s]) \in Sides \cup {Unspecified}
    BY DEF MissingSide, Sides
  <2>4. alerts' \in Seq([slot : Slots, missing : Sides \cup {Unspecified}])
    BY <2>1, <2>2, <2>3 DEF TypeOK
  <2>5. Alerted(sweeps[w], s) \in SweepLocals
    BY <1>1, LocalsType DEF SweepLocals, Alerted
  <2>6. sweeps' \in [Sweepers -> SweepLocals]
    BY <2>1, <2>5 DEF TypeOK
  <2>7. QED
    BY <1>5, <2>4, <2>6 DEF SweepAlert, TypeOK
<1>6. CASE SweepFail(w)
  <2>1. sweeps' \in [Sweepers -> SweepLocals]
    BY <1>6, LocalsType DEF SweepFail, TypeOK
  <2>2. QED
    BY <1>6, <2>1 DEF SweepFail, TypeOK
<1>7. QED
  BY <1>3, <1>4, <1>5, <1>6 DEF Sweep

(* Every step preserves the types. *)
LEMMA TypeStep == TypeOK /\ [Next]_vars => TypeOK'
<1> SUFFICES ASSUME TypeOK, [Next]_vars PROVE TypeOK'
  OBVIOUS
<1> USE DEF consumerVars, topicVars, faultVars
<1>1. CASE Classify
  <2>1. PICK m \in Messages : classified' = Append(classified, m)
    BY <1>1 DEF Classify
  <2>2. classified' \in Seq(Messages) /\ Len(classified') = Len(classified) + 1
    BY <2>1 DEF TypeOK
  <2>3. QED
    BY <1>1, <2>2 DEF Classify, TypeOK
<1>2. CASE Tick
  BY <1>2 DEF Tick, TypeOK
<1>3. CASE Crash
  BY <1>3, RestartType DEF Crash, Restart, TypeOK
<1>4. CASE Poll
  BY <1>4 DEF Poll, TypeOK
<1>5. CASE CommitBatch
  BY <1>5 DEF CommitBatch, TypeOK
<1>6. CASE Handle
  BY <1>6, HandleType
<1>7. CASE \E w \in Sweepers : Sweep(w) \/ SweepFail(w)
  BY <1>7, SweepType
<1>8. CASE UNCHANGED vars
  BY <1>8 DEF vars, TypeOK
<1>9. QED
  BY <1>1, <1>2, <1>3, <1>4, <1>5, <1>6, <1>7, <1>8 DEF Next, Consume

(* Every reachable state is well typed: the committed offset never passes the    *)
(* handled one, nor that the polled batch, and the handler works on a slot       *)
(* only inside a batch (Consume, service.handle).                               *)
THEOREM TypeCorrect == Spec => []TypeOK
BY TypeInit, TypeStep, PTL DEF Spec

----------------------------------------------------------------------------
(* The inductive invariant.  Handler and sweepers hold copies of rows across     *)
(* other processes' writes; what keeps those copies harmless is that a row's     *)
(* sides only ever fill up (Covers), that every copy was built from delivered    *)
(* files and issued ids (GoodRow), and how far the handler has got.              *)

(* r has every side that c has. *)
Covers(r, c) == \A d \in Sides : c.side[d] # NoArrival => r.side[d] # NoArrival

Issued(id, s) == id = NoAssignment \/ (id \in DOMAIN assigned /\ assigned[id].slot = s)

GoodRow(r, s) ==
  /\ \A d \in Sides : r.side[d] # NoArrival => Delivered(r.side[d], s, d)
  /\ Issued(r.aid, s)

VoidPublished(id, s) == \E j \in DOMAIN superseded : superseded[j].id = id /\ superseded[j].slot = s

RowsInv == \A s \in Slots : GoodRow(rows[s], s)

HandlerInv ==
  h.step # "idle" =>
    /\ GoodRow(h.copy, h.slot)
    /\ Issued(h.supersedes, h.slot) /\ Issued(h.id, h.slot)
    /\ h.step = "upsert" =>
         /\ Covers(h.copy, rows[h.slot])
         /\ h.copy.state = IF Complete(h.copy) THEN "ASSIGNED" ELSE "PARTIAL"
    /\ h.step = "updated" /\ Complete(h.copy) => Complete(rows[h.slot])
    /\ h.step \in {"void", "assign", "recordGet"} => Complete(h.copy) /\ Complete(rows[h.slot])
    /\ h.step = "void" => h.supersedes # NoAssignment
    /\ h.step = "assign" /\ h.supersedes # NoAssignment => VoidPublished(h.supersedes, h.slot)
    /\ h.step = "recordPut" => Complete(h.copy) /\ h.copy.state = "ASSIGNED"

SweepInv ==
  \A w \in Sweepers : \A s \in Slots :
    /\ GoodRow(sweeps[w].copy[s], s)
    /\ Covers(rows[s], sweeps[w].copy[s])
    /\ s \in sweeps[w].todo \cup sweeps[w].marked => ~Complete(sweeps[w].copy[s])

IInv ==
  /\ TypeOK
  /\ RowsInv /\ HandlerInv /\ SweepInv
  /\ SupersessionOrder /\ AssignmentsTraceable /\ StateMatchesSides /\ AlertsNameASide

----------------------------------------------------------------------------
(* What has been published stays published. *)

(* Appending keeps the old elements at their places. *)
LEMMA AppendFacts ==
  ASSUME NEW S, NEW q \in Seq(S), NEW x \in S
  PROVE  /\ Append(q, x) \in Seq(S)
         /\ Len(Append(q, x)) = Len(q) + 1
         /\ DOMAIN Append(q, x) = DOMAIN q \cup {Len(q) + 1}
         /\ \A k \in DOMAIN q : Append(q, x)[k] = q[k]
         /\ Append(q, x)[Len(q) + 1] = x
         /\ Len(q) + 1 \in Nat /\ Len(q) + 1 \notin DOMAIN q
         /\ \A k \in DOMAIN q : k \in Nat /\ k < Len(q) + 1
OBVIOUS

(* No step removes or rewrites a published message. *)
LEMMA TopicsAppend ==
  ASSUME TypeOK, [Next]_vars
  PROVE  /\ classified' = classified \/ \E m \in Messages : classified' = Append(classified, m)
         /\ assigned' = assigned \/ PublishAssigned
         /\ superseded' = superseded \/ PublishVoid
         /\ rows' = rows \/ ApplyUpsert \/ RecordPut \/ \E w \in Sweepers : SweepMark(w)
BY DEF Next, vars, consumerVars, topicVars, faultVars, Classify, Tick, Crash, Restart, Consume,
       Poll, CommitBatch, Handle, SkipUndispatched, FailApply, RefuseLate, AuditRejected,
       ApplyRead, ApplyUpsert, AuditUpdated, PublishVoid, PublishAssigned, RecordGet, RecordPut,
       AuditAssigned, Sweep, SweepRead, SweepMark, SweepAlert, SweepFail

(* A delivered arrival stays delivered. *)
LEMMA DeliveredStays ==
  ASSUME TypeOK, [Next]_vars
  PROVE  \A a, s, d : Delivered(a, s, d) => Delivered(a, s, d)'
<1>1. \A k \in DOMAIN classified : k \in DOMAIN classified' /\ classified'[k] = classified[k]
  <2>1. CASE classified' = classified
    BY <2>1
  <2>2. ASSUME NEW m \in Messages, classified' = Append(classified, m)
        PROVE  \A k \in DOMAIN classified : k \in DOMAIN classified' /\ classified'[k] = classified[k]
    <3>1. classified \in Seq(Messages)
      BY DEF TypeOK
    <3>2. QED
      BY <2>2, <3>1, AppendFacts
  <2>3. QED
    BY <2>1, <2>2, TopicsAppend
<1>2. QED
  BY <1>1 DEF Delivered

(* A published assignment stays as it is. *)
LEMMA AssignedStays ==
  ASSUME TypeOK, [Next]_vars
  PROVE  \A k \in DOMAIN assigned : k \in DOMAIN assigned' /\ assigned'[k] = assigned[k]
<1>1. CASE assigned' = assigned
  BY <1>1
<1>2. CASE PublishAssigned
  <2> DEFINE A == [slot : Slots, side : [Sides -> Arrivals \cup {NoArrival}], supersedes : Nat]
             a == [slot |-> h.slot, side |-> h.copy.side, supersedes |-> h.supersedes]
  <2>1. a \in A
    BY <1>2, RowFields DEF PublishAssigned, TypeOK, HandlerLocals
  <2>2. assigned \in Seq(A) /\ assigned' = Append(assigned, a)
    BY <1>2 DEF PublishAssigned, TypeOK
  <2> HIDE DEF A, a
  <2>3. QED
    BY <2>1, <2>2, AppendFacts
<1>3. QED
  BY <1>1, <1>2, TopicsAppend

(* An issued id stays issued. *)
LEMMA IssuedStays ==
  ASSUME TypeOK, [Next]_vars
  PROVE  \A id, s : Issued(id, s) => Issued(id, s)'
BY AssignedStays DEF Issued

(* A published void stays published. *)
LEMMA VoidsStay ==
  ASSUME TypeOK, [Next]_vars
  PROVE  /\ \A k \in DOMAIN superseded : k \in DOMAIN superseded' /\ superseded'[k] = superseded[k]
         /\ \A id, s : VoidPublished(id, s) => VoidPublished(id, s)'
<1>1. \A k \in DOMAIN superseded : k \in DOMAIN superseded' /\ superseded'[k] = superseded[k]
  <2>1. CASE superseded' = superseded
    BY <2>1
  <2>2. CASE PublishVoid
    <3>1. [slot |-> h.slot, id |-> h.supersedes, by |-> h.arrival]
            \in [slot : Slots, id : Nat, by : Arrivals]
      BY <2>2 DEF PublishVoid, TypeOK, HandlerLocals
    <3>2. QED
      BY <2>2, <3>1, AppendFacts DEF PublishVoid, TypeOK
  <2>3. QED
    BY <2>1, <2>2, TopicsAppend
<1>2. QED
  BY <1>1 DEF VoidPublished

(* A row that is good stays good while topics grow. *)
LEMMA GoodRowStays ==
  ASSUME TypeOK, [Next]_vars
  PROVE  \A r, s : GoodRow(r, s) => GoodRow(r, s)'
BY DeliveredStays, IssuedStays DEF GoodRow

----------------------------------------------------------------------------
(* The slot table: every write merges a good copy, whoever makes it. *)

(* Upsert of a good copy over a good row gives a good row. *)
LEMMA MergeGood ==
  ASSUME NEW s \in Slots, NEW r \in Row, NEW c \in Row, GoodRow(r, s), GoodRow(c, s)
  PROVE  /\ GoodRow(Merge(r, c), s)
         /\ Covers(Merge(r, c), r) /\ Covers(Merge(r, c), c)
         /\ r.aid # NoAssignment => Merge(r, c).aid # NoAssignment
<1>1. \A d \in Sides : Merge(r, c).side[d] = IF c.side[d] # NoArrival THEN c.side[d] ELSE r.side[d]
  BY MergeType
<1>2. Merge(r, c).aid = IF c.aid # NoAssignment THEN c.aid ELSE r.aid
  BY MergeType
<1>3. QED
  BY <1>1, <1>2 DEF GoodRow, Covers

(* Each write of a row, by the handler or a sweeper, keeps every row good. *)
LEMMA RowWrites ==
  ASSUME IInv, [Next]_vars
  PROVE  \/ rows' = rows
         \/ \E s \in Slots, c \in Row :
              /\ rows' = [rows EXCEPT ![s] = Merge(rows[s], c)]
              /\ GoodRow(c, s)
              /\ c.state = "PARTIAL" => ~Complete(c) /\ Covers(c, rows[s])
              /\ c.state = "ASSIGNED" => Complete(c)
<1>1. CASE rows' = rows
  BY <1>1
<1>2. CASE ApplyUpsert \/ RecordPut
  <2>1. /\ h.slot \in Slots /\ h.copy \in Row /\ GoodRow(h.copy, h.slot)
        /\ rows' = [rows EXCEPT ![h.slot] = Merge(rows[h.slot], h.copy)]
    BY <1>2 DEF ApplyUpsert, RecordPut, IInv, TypeOK, HandlerLocals, HandlerInv
  <2>2. /\ h.copy.state = "PARTIAL" => ~Complete(h.copy) /\ Covers(h.copy, rows[h.slot])
        /\ h.copy.state = "ASSIGNED" => Complete(h.copy)
    BY <1>2 DEF ApplyUpsert, RecordPut, IInv, HandlerInv
  <2>3. QED
    BY <2>1, <2>2
<1>3. ASSUME NEW w \in Sweepers, SweepMark(w)
      PROVE  \E s \in Slots, c \in Row :
               /\ rows' = [rows EXCEPT ![s] = Merge(rows[s], c)]
               /\ GoodRow(c, s) /\ c.state = "MISSING"
  <2>1. PICK s \in sweeps[w].todo :
          rows' = [rows EXCEPT ![s] = Merge(rows[s], [sweeps[w].copy[s] EXCEPT !.state = "MISSING"])]
    BY <1>3 DEF SweepMark
  <2>2. s \in Slots /\ sweeps[w].copy[s] \in Row
    BY <2>1 DEF IInv, TypeOK, SweepLocals
  <2> DEFINE c == [sweeps[w].copy[s] EXCEPT !.state = "MISSING"]
  <2>3. /\ c \in Row /\ c.side = sweeps[w].copy[s].side /\ c.aid = sweeps[w].copy[s].aid
        /\ c.state = "MISSING"
    BY <2>2, MarkType
  <2>4. GoodRow(sweeps[w].copy[s], s)
    BY <2>2 DEF IInv, SweepInv
  <2>5. GoodRow(c, s)
    BY <2>3, <2>4 DEF GoodRow
  <2>6. QED
    BY <2>1, <2>2, <2>3, <2>5
<1>4. QED
  BY <1>1, <1>2, <1>3, TopicsAppend DEF IInv

(* No step forgets a side or an id, and a row is good, and in the state its      *)
(* sides call for, after every step.                                            *)
LEMMA RowsStep ==
  ASSUME IInv, [Next]_vars
  PROVE  /\ \A s \in Slots : Covers(rows'[s], rows[s])
         /\ \A s \in Slots : rows[s].aid # NoAssignment => rows'[s].aid # NoAssignment
         /\ RowsInv'
         /\ StateMatchesSides'
<1>1. \A s \in Slots : rows[s] \in Row /\ GoodRow(rows[s], s)
  BY DEF IInv, TypeOK, RowsInv
<1>2. \A r, s : GoodRow(r, s) => GoodRow(r, s)'
  BY GoodRowStays DEF IInv
<1>3. CASE rows' = rows
  <2>1. RowsInv'
    BY <1>1, <1>2, <1>3 DEF RowsInv, GoodRow
  <2>2. StateMatchesSides'
    BY <1>3 DEF StateMatchesSides, IInv, Complete
  <2>3. QED
    BY <1>3, <2>1, <2>2 DEF Covers
<1>4. ASSUME NEW s \in Slots, NEW c \in Row,
             rows' = [rows EXCEPT ![s] = Merge(rows[s], c)],
             GoodRow(c, s),
             c.state = "PARTIAL" => ~Complete(c) /\ Covers(c, rows[s]),
             c.state = "ASSIGNED" => Complete(c)
      PROVE  /\ \A t \in Slots : Covers(rows'[t], rows[t])
             /\ \A t \in Slots : rows[t].aid # NoAssignment => rows'[t].aid # NoAssignment
             /\ RowsInv'
             /\ StateMatchesSides'
  <2> DEFINE r == Merge(rows[s], c)
  <2>1. /\ GoodRow(r, s) /\ Covers(r, rows[s]) /\ Covers(r, c)
        /\ rows[s].aid # NoAssignment => r.aid # NoAssignment
    BY <1>1, <1>4, MergeGood
  <2>2. \A t \in Slots : rows'[t] = IF t = s THEN r ELSE rows[t]
    BY <1>4 DEF IInv, TypeOK
  <2>3. /\ r.state = c.state
        /\ \A d \in Sides : r.side[d] = IF c.side[d] # NoArrival THEN c.side[d] ELSE rows[s].side[d]
    BY <1>1, MergeType
  <2>4. /\ r.state = "PARTIAL" => ~Complete(r)
        /\ r.state = "ASSIGNED" => Complete(r)
    BY <1>4, <2>3 DEF Complete, Covers
  <2> HIDE DEF r
  <2>5. \A t \in Slots : Covers(rows'[t], rows[t])
    BY <2>1, <2>2 DEF Covers
  <2>6. \A t \in Slots : rows[t].aid # NoAssignment => rows'[t].aid # NoAssignment
    BY <2>1, <2>2
  <2>7. \A t \in Slots : GoodRow(rows'[t], t)
    BY <1>1, <2>1, <2>2
  <2>8. RowsInv'
    BY <1>2, <2>7 DEF RowsInv, GoodRow
  <2>9. StateMatchesSides'
    BY <2>2, <2>4 DEF StateMatchesSides, IInv, Complete
  <2>10. QED
    BY <2>5, <2>6, <2>8, <2>9
<1>5. QED
  BY <1>3, <1>4, RowWrites

----------------------------------------------------------------------------
(* The sweepers' copies *)

(* An idle sweeper owes nothing. *)
LEMMA EmptySweep ==
  ASSUME NEW s \in Slots
  PROVE  /\ NoSweep.copy[s] = NoRow /\ NoSweep.todo = {} /\ NoSweep.marked = {}
         /\ GoodRow(NoRow, s) /\ \A r : Covers(r, NoRow)
BY DEF NoSweep, NoRow, GoodRow, Issued, Covers

(* A sweep reads, ends, or keeps its copies and works through them. *)
LEMMA SweepMoves ==
  ASSUME TypeOK, [Next]_vars, NEW w \in Sweepers
  PROVE  \/ SweepRead(w)
         \/ sweeps'[w] = NoSweep
         \/ /\ sweeps'[w].copy = sweeps[w].copy
            /\ sweeps'[w].todo \cup sweeps'[w].marked \subseteq sweeps[w].todo \cup sweeps[w].marked
<1> USE DEF TypeOK, SweepLocals
<1>1. CASE sweeps' = sweeps
  BY <1>1
<1>2. CASE Restart
  BY <1>2 DEF Restart
<1>3. ASSUME NEW v \in Sweepers, SweepRead(v)
      PROVE  SweepRead(w) \/ sweeps'[w] = sweeps[w]
  BY <1>3 DEF SweepRead
<1>4. ASSUME NEW v \in Sweepers, SweepMark(v)
      PROVE  /\ sweeps'[w].copy = sweeps[w].copy
             /\ sweeps'[w].todo \cup sweeps'[w].marked \subseteq sweeps[w].todo \cup sweeps[w].marked
  <2>1. PICK s \in sweeps[v].todo :
          sweeps' = [sweeps EXCEPT ![v].todo = @ \ {s}, ![v].marked = @ \cup {s}]
    BY <1>4 DEF SweepMark
  <2>2. QED
    BY <2>1
<1>5. ASSUME NEW v \in Sweepers, SweepAlert(v)
      PROVE  \/ sweeps'[w] = NoSweep
             \/ /\ sweeps'[w].copy = sweeps[w].copy
                /\ sweeps'[w].todo \cup sweeps'[w].marked \subseteq sweeps[w].todo \cup sweeps[w].marked
  <2>1. PICK s \in sweeps[v].marked : sweeps' = [sweeps EXCEPT ![v] = Alerted(@, s)]
    BY <1>5 DEF SweepAlert
  <2>2. \/ Alerted(sweeps[v], s) = NoSweep
        \/ /\ Alerted(sweeps[v], s).copy = sweeps[v].copy
           /\ Alerted(sweeps[v], s).todo = sweeps[v].todo
           /\ Alerted(sweeps[v], s).marked = sweeps[v].marked \ {s}
    BY DEF Alerted
  <2>3. sweeps'[w] = IF w = v THEN Alerted(sweeps[v], s) ELSE sweeps[w]
    BY <2>1
  <2>4. QED
    BY <2>2, <2>3
<1>6. ASSUME NEW v \in Sweepers, SweepFail(v)
      PROVE  sweeps'[w] = NoSweep \/ sweeps'[w] = sweeps[w]
  BY <1>6 DEF SweepFail
<1>7. \/ sweeps' = sweeps \/ Restart
      \/ \E v \in Sweepers : SweepRead(v) \/ SweepMark(v) \/ SweepAlert(v) \/ SweepFail(v)
  BY DEF Next, vars, consumerVars, Classify, Tick, Crash, Consume, Poll, CommitBatch, Handle,
         SkipUndispatched, FailApply, RefuseLate, AuditRejected, ApplyRead, ApplyUpsert,
         AuditUpdated, PublishVoid, PublishAssigned, RecordGet, RecordPut, AuditAssigned, Sweep
<1>8. QED
  BY <1>1, <1>2, <1>3, <1>4, <1>5, <1>6, <1>7

(* Every step keeps what a sweeper in progress relies on. *)
LEMMA SweepStep ==
  ASSUME IInv, [Next]_vars
  PROVE  SweepInv'
<1>1. \A r, s : GoodRow(r, s) => GoodRow(r, s)'
  BY GoodRowStays DEF IInv
<1>2. SUFFICES ASSUME NEW w \in Sweepers, NEW s \in Slots
               PROVE  /\ GoodRow(sweeps'[w].copy[s], s)
                      /\ Covers(rows'[s], sweeps'[w].copy[s])
                      /\ s \in sweeps'[w].todo \cup sweeps'[w].marked
                           => ~Complete(sweeps'[w].copy[s])
  BY <1>1 DEF SweepInv, GoodRow, Covers, Complete
<1>3. /\ GoodRow(sweeps[w].copy[s], s)
      /\ Covers(rows[s], sweeps[w].copy[s])
      /\ s \in sweeps[w].todo \cup sweeps[w].marked => ~Complete(sweeps[w].copy[s])
  BY DEF IInv, SweepInv
<1>4. Covers(rows'[s], rows[s])
  BY RowsStep
<1>5. CASE SweepRead(w)
  <2>1. /\ sweeps'[w].copy[s] = IF s \in Due THEN rows[s] ELSE NoRow
        /\ sweeps'[w].todo = Due /\ sweeps'[w].marked = {}
    BY <1>5 DEF SweepRead, IInv, TypeOK
  <2>2. s \in Due => ~Complete(rows[s])
    BY DEF Due, IInv, StateMatchesSides, TypeOK, Row, States
  <2>3. GoodRow(rows[s], s)
    BY DEF IInv, RowsInv
  <2>4. QED
    BY <1>4, <2>1, <2>2, <2>3, EmptySweep
<1>6. CASE sweeps'[w] = NoSweep
  BY <1>6, EmptySweep
<1>7. CASE /\ sweeps'[w].copy = sweeps[w].copy
           /\ sweeps'[w].todo \cup sweeps'[w].marked \subseteq sweeps[w].todo \cup sweeps[w].marked
  <2>1. Covers(rows'[s], sweeps[w].copy[s])
    BY <1>3, <1>4 DEF Covers
  <2>2. QED
    BY <1>3, <1>7, <2>1
<1>8. QED
  BY <1>5, <1>6, <1>7, SweepMoves DEF IInv

----------------------------------------------------------------------------
(* The handler's copy *)

(* A sweep writes back sides the row still has: it adds none. *)
LEMMA SweepAddsNoSide ==
  ASSUME IInv, NEW w \in Sweepers, SweepMark(w), NEW t \in Slots
  PROVE  Covers(rows[t], rows'[t])
<1>1. PICK s \in sweeps[w].todo :
        rows' = [rows EXCEPT ![s] = Merge(rows[s], [sweeps[w].copy[s] EXCEPT !.state = "MISSING"])]
  BY DEF SweepMark
<1>2. s \in Slots /\ sweeps[w].copy[s] \in Row /\ rows[s] \in Row
  BY <1>1 DEF IInv, TypeOK, SweepLocals
<1>3. Covers(rows[s], sweeps[w].copy[s])
  BY <1>2 DEF IInv, SweepInv
<1> DEFINE c == [sweeps[w].copy[s] EXCEPT !.state = "MISSING"]
<1>4. c \in Row /\ c.side = sweeps[w].copy[s].side
  BY <1>2, MarkType
<1>5. rows'[t] = IF t = s THEN Merge(rows[s], c) ELSE rows[t]
  BY <1>1, <1>2 DEF IInv, TypeOK
<1> HIDE DEF c
<1>6. \A d \in Sides : Merge(rows[s], c).side[d] = IF c.side[d] # NoArrival THEN c.side[d]
                                                                         ELSE rows[s].side[d]
  BY <1>2, <1>4, MergeType
<1>7. QED
  BY <1>3, <1>4, <1>5, <1>6 DEF Covers

(* Every step keeps what the handler in progress relies on. *)
LEMMA HandlerStep ==
  ASSUME IInv, [Next]_vars
  PROVE  HandlerInv'
<1>1. GoodRow(h'.copy, h'.slot) => GoodRow(h.copy, h.slot)'
  <2>1. \A r, s : GoodRow(r, s) => GoodRow(r, s)'
    BY GoodRowStays DEF IInv
  <2>2. QED
    BY <2>1 DEF GoodRow, Delivered, Issued
<1>2. /\ Issued(h'.supersedes, h'.slot) => Issued(h.supersedes, h.slot)'
      /\ Issued(h'.id, h'.slot) => Issued(h.id, h.slot)'
  <2>1. \A id, s : Issued(id, s) => Issued(id, s)'
    BY IssuedStays DEF IInv
  <2>2. QED
    BY <2>1 DEF Issued
<1>3. VoidPublished(h'.supersedes, h'.slot) => VoidPublished(h.supersedes, h.slot)'
  <2>1. \A id, s : VoidPublished(id, s) => VoidPublished(id, s)'
    BY VoidsStay DEF IInv
  <2>2. QED
    BY <2>1 DEF VoidPublished
<1>4. SUFFICES ASSUME h'.step # "idle"
      PROVE  /\ GoodRow(h'.copy, h'.slot)
             /\ Issued(h'.supersedes, h'.slot)
             /\ \/ Issued(h'.id, h'.slot)
                \/ h'.id \in DOMAIN assigned' /\ assigned'[h'.id].slot = h'.slot
             /\ h'.step = "upsert" =>
                  /\ Covers(h'.copy, rows'[h'.slot])
                  /\ h'.copy.state = IF Complete(h'.copy) THEN "ASSIGNED" ELSE "PARTIAL"
             /\ h'.step = "updated" /\ Complete(h'.copy) => Complete(rows'[h'.slot])
             /\ h'.step \in {"void", "assign", "recordGet"} =>
                  Complete(h'.copy) /\ Complete(rows'[h'.slot])
             /\ h'.step = "void" => h'.supersedes # NoAssignment
             /\ h'.step = "assign" /\ h'.supersedes # NoAssignment =>
                  \/ VoidPublished(h'.supersedes, h'.slot)
                  \/ \E j \in DOMAIN superseded' : superseded'[j].id = h'.supersedes
                                                  /\ superseded'[j].slot = h'.slot
             /\ h'.step = "recordPut" => Complete(h'.copy) /\ h'.copy.state = "ASSIGNED"
  BY <1>1, <1>2, <1>3 DEF HandlerInv, Issued, VoidPublished, Covers, Complete
<1>5. /\ h \in HandlerLocals
      /\ h.step # "idle" => h.slot \in Slots /\ h.arrival \in Arrivals
      /\ \A s \in Slots : Covers(rows'[s], rows[s])
      /\ \A s \in Slots : rows[s] \in Row /\ GoodRow(rows[s], s)
  BY RowsStep DEF IInv, TypeOK, RowsInv
<1>6. CASE h' = h /\ (rows' = rows \/ \E w \in Sweepers : SweepMark(w))
  <2>1. h.slot \in Slots /\ HandlerInv
    BY <1>4, <1>5, <1>6 DEF IInv
  <2>2. Covers(rows[h.slot], rows'[h.slot])
    BY <1>6, <2>1, SweepAddsNoSide DEF Covers
  <2>3. Covers(rows'[h.slot], rows[h.slot])
    BY <1>5, <2>1
  <2>4. Complete(rows[h.slot]) => Complete(rows'[h.slot])
    BY <2>3 DEF Covers, Complete
  <2>5. Covers(h.copy, rows[h.slot]) => Covers(h.copy, rows'[h.slot])
    BY <2>2 DEF Covers
  <2>6. QED
    BY <1>4, <1>6, <2>1, <2>4, <2>5 DEF HandlerInv
<1>7. CASE RefuseLate
  <2>1. /\ h'.step = "reject" /\ h'.copy = NoRow
        /\ h'.supersedes = NoAssignment /\ h'.id = NoAssignment
    BY <1>7 DEF RefuseLate, Idle
  <2>2. QED
    BY <2>1 DEF GoodRow, NoRow, Issued
<1>8. CASE ApplyRead
  <2> DEFINE m == Incoming
             r == rows[m.slot]
  <2>1. m \in Message /\ m.slot \in Slots /\ m.arrival \in Arrivals /\ m.side \in Sides
    BY <1>8, IncomingType DEF ApplyRead, ApplyFails, IInv
  <2>2. r \in Row /\ GoodRow(r, m.slot)
    BY <1>5, <2>1
  <2>3. Delivered(m.arrival, m.slot, m.side)
    <3>1. pos + 1 \in DOMAIN classified /\ m = classified[pos + 1] /\ m.disposition = "DISPATCHED"
      BY <1>8, IncomingType DEF ApplyRead, IInv, Incoming
    <3>2. QED
      BY <3>1 DEF Delivered
  <2>4. /\ h'.step = "upsert" /\ h'.slot = m.slot /\ h'.copy = ApplySide(r, m)
        /\ h'.supersedes = Supersedes(r, m) /\ h'.id = NoAssignment /\ rows' = rows
    BY <1>8 DEF ApplyRead
  <2> HIDE DEF m
  <2>5. /\ h'.copy \in Row
        /\ h'.copy.side = [r.side EXCEPT ![m.side] = m.arrival] /\ h'.copy.aid = r.aid
        /\ h'.copy.state = IF Complete(h'.copy) THEN "ASSIGNED" ELSE "PARTIAL"
    BY <2>1, <2>2, <2>4, ApplySideType
  <2>6. \A d \in Sides : h'.copy.side[d] = IF d = m.side THEN m.arrival ELSE r.side[d]
    BY <2>2, <2>5, RowFields
  <2>7. GoodRow(h'.copy, h'.slot)
    BY <2>2, <2>3, <2>4, <2>5, <2>6 DEF GoodRow
  <2>8. Covers(h'.copy, rows'[h'.slot])
    BY <2>1, <2>4, <2>6, ConstantsAssumption DEF Covers
  <2>9. Issued(h'.supersedes, h'.slot) /\ Issued(h'.id, h'.slot)
    BY <2>2, <2>4, SupersedesType DEF GoodRow, Issued
  <2>10. QED
    BY <2>4, <2>5, <2>7, <2>8, <2>9
<1>9. ASSUME NEW step \in HandlerSteps, Goto(step), h.step # "idle"
      PROVE  /\ h'.step = step /\ h'.slot = h.slot /\ h'.copy = h.copy
             /\ h'.supersedes = h.supersedes /\ h'.id = h.id
             /\ GoodRow(h.copy, h.slot) /\ Issued(h.supersedes, h.slot) /\ Issued(h.id, h.slot)
  BY <1>5, <1>9 DEF Goto, HandlerLocals, IInv, HandlerInv
<1>10. CASE ApplyUpsert
  <2>1. /\ h'.step = "updated" /\ h'.slot = h.slot /\ h'.copy = h.copy
        /\ h'.supersedes = h.supersedes /\ h'.id = h.id
        /\ GoodRow(h.copy, h.slot) /\ Issued(h.supersedes, h.slot) /\ Issued(h.id, h.slot)
    BY <1>9, <1>10 DEF ApplyUpsert, HandlerSteps
  <2>2. h.slot \in Slots /\ h.copy \in Row
    BY <1>5, <1>10 DEF ApplyUpsert, HandlerLocals
  <2>3. rows'[h.slot] = Merge(rows[h.slot], h.copy)
    BY <1>10, <2>2 DEF ApplyUpsert, IInv, TypeOK
  <2>4. Covers(rows'[h.slot], h.copy)
    BY <1>5, <2>1, <2>2, <2>3, MergeGood
  <2>5. QED
    BY <2>1, <2>4 DEF Covers, Complete
<1>11. CASE AuditUpdated
  <2>1. \/ Goto("void") /\ Complete(h.copy) /\ h.supersedes # NoAssignment
        \/ Goto("assign") /\ Complete(h.copy) /\ h.supersedes = NoAssignment
    BY <1>4, <1>11, LocalsType DEF AuditUpdated, Handled
  <2>2. /\ h'.step \in {"void", "assign"} /\ h'.slot = h.slot /\ h'.copy = h.copy
        /\ h'.supersedes = h.supersedes /\ h'.id = h.id
        /\ GoodRow(h.copy, h.slot) /\ Issued(h.supersedes, h.slot) /\ Issued(h.id, h.slot)
        /\ h'.step = "void" => h.supersedes # NoAssignment
        /\ h'.step = "assign" => h.supersedes = NoAssignment
    BY <1>9, <1>11, <2>1 DEF AuditUpdated, HandlerSteps
  <2>3. Complete(rows'[h.slot])
    BY <1>11, <2>1 DEF AuditUpdated, IInv, HandlerInv
  <2>4. QED
    BY <2>1, <2>2, <2>3
<1>12. CASE PublishVoid
  <2>1. /\ h'.step = "assign" /\ h'.slot = h.slot /\ h'.copy = h.copy
        /\ h'.supersedes = h.supersedes /\ h'.id = h.id
        /\ GoodRow(h.copy, h.slot) /\ Issued(h.supersedes, h.slot) /\ Issued(h.id, h.slot)
    BY <1>9, <1>12 DEF PublishVoid, HandlerSteps
  <2>2. Complete(h.copy) /\ Complete(rows'[h.slot])
    BY <1>12 DEF PublishVoid, IInv, HandlerInv
  <2> DEFINE V == [slot : Slots, id : Nat, by : Arrivals]
             v == [slot |-> h.slot, id |-> h.supersedes, by |-> h.arrival]
  <2>3. v \in V /\ superseded \in Seq(V) /\ superseded' = Append(superseded, v)
    BY <1>5, <1>12 DEF PublishVoid, IInv, TypeOK, HandlerLocals
  <2>4. v.id = h.supersedes /\ v.slot = h.slot
    OBVIOUS
  <2> HIDE DEF V, v
  <2>5. Len(superseded) + 1 \in DOMAIN superseded' /\ superseded'[Len(superseded) + 1] = v
    BY <2>3, AppendFacts
  <2>6. QED
    BY <2>1, <2>2, <2>4, <2>5
<1>13. CASE PublishAssigned
  <2>1. /\ h'.step = "recordGet" /\ h'.slot = h.slot /\ h'.copy = h.copy
        /\ h'.supersedes = h.supersedes /\ h'.id = Len(assigned) + 1
    BY <1>5, <1>13 DEF PublishAssigned, HandlerLocals
  <2>2. /\ GoodRow(h.copy, h.slot) /\ Issued(h.supersedes, h.slot)
        /\ Complete(h.copy) /\ Complete(rows'[h.slot])
    BY <1>13 DEF PublishAssigned, IInv, HandlerInv
  <2> DEFINE A == [slot : Slots, side : [Sides -> Arrivals \cup {NoArrival}], supersedes : Nat]
             a == [slot |-> h.slot, side |-> h.copy.side, supersedes |-> h.supersedes]
  <2>3. a \in A /\ assigned \in Seq(A) /\ assigned' = Append(assigned, a)
    BY <1>5, <1>13, RowFields DEF PublishAssigned, IInv, TypeOK, HandlerLocals
  <2>4. a.slot = h.slot
    OBVIOUS
  <2> HIDE DEF A, a
  <2>5. Len(assigned) + 1 \in DOMAIN assigned' /\ assigned'[Len(assigned) + 1] = a
    BY <2>3, AppendFacts
  <2>6. QED
    BY <2>1, <2>2, <2>4, <2>5
<1>14. CASE RecordGet
  <2>1. h.slot \in Slots /\ h.id \in Nat /\ Issued(h.id, h.slot) /\ Issued(h.supersedes, h.slot)
        /\ Complete(rows[h.slot])
    BY <1>5, <1>14 DEF RecordGet, HandlerLocals, IInv, HandlerInv
  <2> DEFINE c == [rows[h.slot] EXCEPT !.aid = h.id, !.state = "ASSIGNED"]
  <2>2. /\ h'.step = "recordPut" /\ h'.slot = h.slot /\ h'.copy = c
        /\ h'.supersedes = h.supersedes /\ h'.id = h.id
    BY <1>5, <1>14 DEF RecordGet, HandlerLocals
  <2>3. c.side = rows[h.slot].side /\ c.aid = h.id /\ c.state = "ASSIGNED"
    BY <1>5, <2>1, StampType
  <2> HIDE DEF c
  <2>4. GoodRow(c, h.slot) /\ Complete(c)
    BY <1>5, <2>1, <2>3 DEF GoodRow, Complete
  <2>5. QED
    BY <2>1, <2>2, <2>3, <2>4
<1>15. CASE RecordPut
  <2>1. /\ h'.step = "recorded" /\ h'.slot = h.slot /\ h'.copy = h.copy
        /\ h'.supersedes = h.supersedes /\ h'.id = h.id
        /\ GoodRow(h.copy, h.slot) /\ Issued(h.supersedes, h.slot) /\ Issued(h.id, h.slot)
    BY <1>9, <1>15 DEF RecordPut, HandlerSteps
  <2>2. QED
    BY <2>1
<1>16. \/ h' = h /\ (rows' = rows \/ \E w \in Sweepers : SweepMark(w))
       \/ h' = Idle
       \/ RefuseLate \/ ApplyRead \/ ApplyUpsert \/ AuditUpdated \/ PublishVoid
       \/ PublishAssigned \/ RecordGet \/ RecordPut
  BY DEF Next, vars, consumerVars, Classify, Tick, Crash, Restart, Consume, Poll, CommitBatch,
         Handle, SkipUndispatched, FailApply, AuditRejected, AuditAssigned, Handled,
         Sweep, SweepRead, SweepAlert, SweepFail, SweepMark
<1>17. QED
  BY <1>4, <1>6, <1>7, <1>8, <1>10, <1>11, <1>12, <1>13, <1>14, <1>15, <1>16, LocalsType

----------------------------------------------------------------------------
(* The topics *)

(* Every step keeps assignments traceable to deliveries. *)
LEMMA TraceableStep ==
  ASSUME IInv, [Next]_vars
  PROVE  AssignmentsTraceable'
<1>1. \A a, s, d : Delivered(a, s, d) => Delivered(a, s, d)'
  BY DeliveredStays DEF IInv
<1>2. SUFFICES ASSUME NEW i \in DOMAIN assigned', NEW d \in Sides
               PROVE  Delivered(assigned'[i].side[d], assigned'[i].slot, d)
  BY <1>1 DEF AssignmentsTraceable, Delivered
<1>3. CASE i \in DOMAIN assigned
  <2>1. assigned'[i] = assigned[i]
    BY <1>3, AssignedStays DEF IInv
  <2>2. QED
    BY <1>3, <2>1 DEF IInv, AssignmentsTraceable
<1>4. CASE PublishAssigned /\ i \notin DOMAIN assigned
  <2> DEFINE A == [slot : Slots, side : [Sides -> Arrivals \cup {NoArrival}], supersedes : Nat]
             a == [slot |-> h.slot, side |-> h.copy.side, supersedes |-> h.supersedes]
  <2>1. a \in A /\ assigned \in Seq(A) /\ assigned' = Append(assigned, a)
    BY <1>4, RowFields DEF PublishAssigned, IInv, TypeOK, HandlerLocals
  <2>2. a.slot = h.slot /\ a.side = h.copy.side
    OBVIOUS
  <2> HIDE DEF A, a
  <2>3. assigned'[i] = a
    BY <1>4, <2>1, AppendFacts
  <2>4. GoodRow(h.copy, h.slot) /\ Complete(h.copy)
    BY <1>4 DEF PublishAssigned, IInv, HandlerInv
  <2>5. QED
    BY <2>2, <2>3, <2>4 DEF GoodRow, Complete
<1>5. QED
  BY <1>3, <1>4, TopicsAppend DEF IInv

(* Every step keeps voids and replacements in order. *)
LEMMA SupersessionStep ==
  ASSUME IInv, [Next]_vars
  PROVE  SupersessionOrder'
<1>1. \A id, s : VoidPublished(id, s) => VoidPublished(id, s)'
  BY VoidsStay DEF IInv
<1>2. \A i \in DOMAIN assigned : i \in DOMAIN assigned' /\ assigned'[i] = assigned[i]
  BY AssignedStays DEF IInv
<1>3. \A j \in DOMAIN superseded : j \in DOMAIN superseded' /\ superseded'[j] = superseded[j]
  BY VoidsStay DEF IInv
<1>4. ASSUME NEW j \in DOMAIN superseded'
      PROVE  /\ superseded'[j].id \in DOMAIN assigned'
             /\ assigned'[superseded'[j].id].slot = superseded'[j].slot
  <2>1. CASE j \in DOMAIN superseded
    BY <1>2, <1>3, <2>1 DEF IInv, SupersessionOrder
  <2>2. CASE PublishVoid /\ j \notin DOMAIN superseded
    <3> DEFINE V == [slot : Slots, id : Nat, by : Arrivals]
               v == [slot |-> h.slot, id |-> h.supersedes, by |-> h.arrival]
    <3>1. v \in V /\ superseded \in Seq(V) /\ superseded' = Append(superseded, v)
      BY <2>2 DEF PublishVoid, IInv, TypeOK, HandlerLocals
    <3>2. v.id = h.supersedes /\ v.slot = h.slot
      OBVIOUS
    <3> HIDE DEF V, v
    <3>3. superseded'[j] = v
      BY <2>2, <3>1, AppendFacts
    <3>4. h.supersedes \in DOMAIN assigned /\ assigned[h.supersedes].slot = h.slot
      BY <2>2 DEF PublishVoid, IInv, HandlerInv, Issued
    <3>5. QED
      BY <1>2, <3>2, <3>3, <3>4
  <2>3. QED
    BY <2>1, <2>2, TopicsAppend DEF IInv
<1>5. ASSUME NEW i \in DOMAIN assigned', assigned'[i].supersedes # NoAssignment
      PROVE  /\ assigned'[i].supersedes < i
             /\ VoidPublished(assigned'[i].supersedes, assigned'[i].slot)
  <2>1. CASE i \in DOMAIN assigned
    BY <1>2, <1>5, <2>1 DEF IInv, SupersessionOrder, VoidPublished
  <2>2. CASE PublishAssigned /\ i \notin DOMAIN assigned
    <3> DEFINE A == [slot : Slots, side : [Sides -> Arrivals \cup {NoArrival}], supersedes : Nat]
               a == [slot |-> h.slot, side |-> h.copy.side, supersedes |-> h.supersedes]
    <3>1. a \in A /\ assigned \in Seq(A) /\ assigned' = Append(assigned, a)
      BY <2>2, RowFields DEF PublishAssigned, IInv, TypeOK, HandlerLocals
    <3>2. a.slot = h.slot /\ a.supersedes = h.supersedes
      OBVIOUS
    <3> HIDE DEF A, a
    <3>3. assigned'[i] = a /\ i = Len(assigned) + 1
      BY <2>2, <3>1, AppendFacts
    <3>4. h.supersedes \in DOMAIN assigned /\ VoidPublished(h.supersedes, h.slot)
      BY <1>5, <2>2, <3>2, <3>3 DEF PublishAssigned, IInv, HandlerInv, Issued
    <3>5. h.supersedes < Len(assigned) + 1
      BY <3>1, <3>4, AppendFacts
    <3>6. QED
      BY <3>2, <3>3, <3>4, <3>5
  <2>3. QED
    BY <2>1, <2>2, TopicsAppend DEF IInv
<1>6. ASSUME NEW i \in DOMAIN assigned', assigned'[i].supersedes # NoAssignment
      PROVE  \E j \in DOMAIN superseded' : /\ superseded'[j].id = assigned'[i].supersedes
                                          /\ superseded'[j].slot = assigned'[i].slot
  BY <1>3, <1>5, <1>6 DEF VoidPublished
<1>7. QED
  BY <1>4, <1>5, <1>6 DEF SupersessionOrder

(* Every step keeps alerts naming a side. *)
LEMMA AlertsStep ==
  ASSUME IInv, [Next]_vars
  PROVE  AlertsNameASide'
<1>1. CASE alerts' = alerts
  BY <1>1 DEF IInv, AlertsNameASide
<1>2. ASSUME NEW w \in Sweepers, SweepAlert(w) PROVE AlertsNameASide'
  <2>1. PICK s \in sweeps[w].marked :
          alerts' = Append(alerts, [slot |-> s, missing |-> MissingSide(sweeps[w].copy[s])])
    BY <1>2 DEF SweepAlert
  <2>2. s \in Slots /\ ~Complete(sweeps[w].copy[s])
    BY <2>1 DEF IInv, TypeOK, SweepLocals, SweepInv
  <2>3. MissingSide(sweeps[w].copy[s]) \in Sides
    BY <2>2 DEF MissingSide, Complete, Sides
  <2> DEFINE A == [slot : Slots, missing : Sides \cup {Unspecified}]
             a == [slot |-> s, missing |-> MissingSide(sweeps[w].copy[s])]
  <2>4. a \in A /\ a.missing \in Sides /\ alerts \in Seq(A) /\ alerts' = Append(alerts, a)
    BY <2>1, <2>2, <2>3 DEF IInv, TypeOK
  <2> HIDE DEF A, a
  <2>5. \A k \in DOMAIN alerts' : alerts'[k] = a \/ (k \in DOMAIN alerts /\ alerts'[k] = alerts[k])
    BY <2>4, AppendFacts
  <2>6. QED
    BY <2>4, <2>5 DEF AlertsNameASide, IInv
<1>3. alerts' = alerts \/ \E w \in Sweepers : SweepAlert(w)
  BY DEF Next, vars, topicVars, Classify, Tick, Crash, Restart, Consume, Poll, CommitBatch, Handle,
         SkipUndispatched, FailApply, RefuseLate, AuditRejected, ApplyRead, ApplyUpsert,
         AuditUpdated, PublishVoid, PublishAssigned, RecordGet, RecordPut, AuditAssigned,
         Sweep, SweepRead, SweepMark, SweepFail
<1>4. QED
  BY <1>1, <1>2, <1>3

----------------------------------------------------------------------------
(* The inductive invariant holds initially. *)
LEMMA IInvInit == Init => IInv
<1> SUFFICES ASSUME Init PROVE IInv
  OBVIOUS
<1>1. TypeOK
  BY TypeInit
<1>2. RowsInv
  BY EmptySweep DEF Init, RowsInv
<1>3. HandlerInv
  BY LocalsType DEF Init, HandlerInv
<1>4. SweepInv
  BY EmptySweep DEF Init, SweepInv
<1>5. SupersessionOrder /\ AssignmentsTraceable /\ AlertsNameASide
  BY DEF Init, SupersessionOrder, AssignmentsTraceable, AlertsNameASide
<1>6. StateMatchesSides
  BY DEF Init, StateMatchesSides, NoRow
<1>7. QED
  BY <1>1, <1>2, <1>3, <1>4, <1>5, <1>6 DEF IInv

(* Every step preserves the inductive invariant. *)
LEMMA IInvStep == IInv /\ [Next]_vars => IInv'
<1> SUFFICES ASSUME IInv, [Next]_vars PROVE IInv'
  OBVIOUS
<1>1. TypeOK'
  BY TypeStep DEF IInv
<1>2. QED
  BY <1>1, RowsStep, HandlerStep, SweepStep, SupersessionStep, TraceableStep, AlertsStep DEF IInv

(* The inductive invariant holds in every reachable state: rows, handler locals and *)
(* sweep copies hold only delivered arrivals and issued ids (Apply, Upsert, Overdue, *)
(* service.assign). *)
THEOREM Invariance == Spec => []IInv
BY IInvInit, IInvStep, PTL DEF Spec

(* A void is published before the replacement that cites it, and both concern    *)
(* the slot they are keyed on: service.assign keeps this across every crash,     *)
(* replay and concurrent sweep.                                                 *)
THEOREM SupersessionIsOrdered == Spec => []SupersessionOrder
<1>1. IInv => SupersessionOrder
  BY DEF IInv
<1>2. QED
  BY <1>1, Invariance, PTL

(* No assignment pairs a file with a slot or side it was not delivered for, and  *)
(* none is published with a side empty.                                         *)
THEOREM AssignmentsAreTraceable == Spec => []AssignmentsTraceable
<1>1. IInv => AssignmentsTraceable
  BY DEF IInv
<1>2. QED
  BY <1>1, Invariance, PTL

(* Stale writes by handler and sweepers never leave a row PARTIAL with both      *)
(* sides or ASSIGNED without one.                                               *)
THEOREM StatesMatchSides == Spec => []StateMatchesSides
<1>1. IInv => StateMatchesSides
  BY DEF IInv
<1>2. QED
  BY <1>1, Invariance, PTL

(* Every missing-file alert names a side. *)
THEOREM AlertsAreNamed == Spec => []AlertsNameASide
<1>1. IInv => AlertsNameASide
  BY DEF IInv
<1>2. QED
  BY <1>1, Invariance, PTL

(* No write to the slot table loses a side or an assignment id. *)
THEOREM NothingIsForgotten == Spec => NothingForgotten
<1>1. IInv /\ [Next]_vars =>
        [\A s \in Slots :
           /\ \A d \in Sides : rows[s].side[d] # NoArrival => rows'[s].side[d] # NoArrival
           /\ rows[s].aid # NoAssignment => rows'[s].aid # NoAssignment]_rows
  BY RowsStep DEF Covers
<1>2. QED
  BY <1>1, Invariance, PTL DEF Spec, NothingForgotten

----------------------------------------------------------------------------
(* Refinement: Berthmaster implements the ledger its consumers rely on. *)

(* What assign publishes pairs two real arrivals. *)
LEMMA PublishIsIssue ==
  ASSUME IInv, PublishAssigned
  PROVE  Ledger!LedgerNext
<1>1. h \in HandlerLocals /\ h.slot \in Slots /\ assigned' = Append(assigned, [slot |-> h.slot, side |-> h.copy.side, supersedes |-> h.supersedes])
  BY DEF PublishAssigned, IInv, TypeOK
<1>2. superseded' = superseded
  BY DEF PublishAssigned
<1>3. Complete(h.copy) /\ Issued(h.supersedes, h.slot)
      /\ (h.supersedes # NoAssignment => VoidPublished(h.supersedes, h.slot))
  BY DEF PublishAssigned, IInv, HandlerInv
<1>4. h.copy.side \in [Sides -> Arrivals]
  BY <1>1, <1>3, RowFields DEF Complete, HandlerLocals
<1>5. h.supersedes \in DOMAIN assigned \cup {NoAssignment}
  BY <1>3 DEF Issued
<1>6. Ledger!Issue(h.slot, h.copy.side, h.supersedes)
  BY <1>1, <1>2, <1>3 DEF Ledger!Issue, VoidPublished
<1>7. QED
  BY <1>1, <1>4, <1>5, <1>6 DEF Ledger!LedgerNext

(* What assign voids was issued for the slot. *)
LEMMA PublishIsVoid ==
  ASSUME IInv, PublishVoid
  PROVE  Ledger!LedgerNext
<1>1. h.slot \in Slots /\ h.arrival \in Arrivals
  BY DEF PublishVoid, IInv, TypeOK
<1>2. h.supersedes \in DOMAIN assigned /\ assigned[h.supersedes].slot = h.slot
  BY DEF PublishVoid, IInv, HandlerInv, Issued
<1>3. Ledger!Void(h.slot, h.supersedes, h.arrival)
  BY <1>2 DEF PublishVoid, Ledger!Void
<1>4. QED
  BY <1>1, <1>2, <1>3 DEF Ledger!LedgerNext

(* Whatever the handler, the sweepers, crashes and replays do, the two berth      *)
(* topics are a slot ledger: service.assign publishes only assignments with both  *)
(* sides, voids of issued ones, and replacements after their voids.               *)
THEOREM LedgerIsImplemented == Spec => ImplementsLedger
<1>1. Init => Ledger!LedgerInit
  BY DEF Init, Ledger!LedgerInit
<1>2. IInv /\ [Next]_vars => [Ledger!LedgerNext]_Ledger!ledgerVars
  <2> SUFFICES ASSUME IInv, [Next]_vars
               PROVE  Ledger!LedgerNext \/ (assigned' = assigned /\ superseded' = superseded)
    BY DEF Ledger!ledgerVars
  <2>1. CASE PublishAssigned
    BY <2>1, PublishIsIssue
  <2>2. CASE PublishVoid
    BY <2>2, PublishIsVoid
  <2>3. QED
    BY <2>1, <2>2, TopicsAppend DEF IInv
<1>3. QED
  BY <1>1, <1>2, Invariance, PTL DEF Spec, ImplementsLedger, Ledger!LedgerSpec

----------------------------------------------------------------------------
(* Live assignments.  The assignments of a slot are voided by whoever replaces   *)
(* them, which is the row while nobody works on the slot and the handler while   *)
(* it does.  Known(s) is the one assignment that owner will void or record; the  *)
(* others are excused by a death or a mark.                                     *)
Known(s) ==
  IF h.slot # s \/ h.step \in {"idle", "reject", "recorded"}
  THEN IF rows[s].state = "ASSIGNED" THEN rows[s].aid ELSE NoAssignment
  ELSE CASE h.step \in {"upsert", "updated"} -> IF Complete(h.copy) THEN h.supersedes ELSE NoAssignment
         [] h.step = "void" -> h.supersedes
         [] h.step = "assign" -> NoAssignment
         [] OTHER -> h.id

OthersExcused == \A s \in Slots : Cardinality(Live(s) \ {Known(s)}) <= Excused(s)

(* Only a complete row has been assigned. *)
Unpaired == \A s \in Slots : ~Complete(rows[s]) => \A i \in DOMAIN assigned : assigned[i].slot # s

(* What RecordAssignment stores is the id just published. *)
Stamped ==
  /\ h.step \in {"recordGet", "recordPut"} => h.id # NoAssignment
  /\ h.step = "recordPut" => h.copy.aid = h.id

(* A sweep marks a row once. *)
MarkedOnce == \A w \in Sweepers : sweeps[w].todo \cap sweeps[w].marked = {}

OrphansInv == OthersExcused /\ Unpaired /\ Stamped /\ MarkedOnce

(* Finitely many things are counted. *)
Counted ==
  \A s \in Slots :
    /\ IsFiniteSet(Live(s)) /\ Cardinality(Live(s)) \in Nat /\ NoAssignment \notin Live(s)
    /\ IsFiniteSet(AlertsOf(s)) /\ Cardinality(AlertsOf(s)) \in Nat
    /\ IsFiniteSet(Marking(s)) /\ Cardinality(Marking(s)) \in Nat
    /\ Excused(s) \in Nat

(* A well typed state counts finitely many live assignments, alerts and marks. *)
LEMMA CountsAreNumbers == TypeOK => Counted
<1> SUFFICES ASSUME TypeOK, NEW s \in Slots
             PROVE  /\ IsFiniteSet(Live(s)) /\ Cardinality(Live(s)) \in Nat /\ NoAssignment \notin Live(s)
                    /\ IsFiniteSet(AlertsOf(s)) /\ Cardinality(AlertsOf(s)) \in Nat
                    /\ IsFiniteSet(Marking(s)) /\ Cardinality(Marking(s)) \in Nat
                    /\ Excused(s) \in Nat
  BY DEF Counted
<1>1. Len(assigned) \in Nat /\ Len(alerts) \in Nat
  BY DEF TypeOK
<1>2. Live(s) \in SUBSET (1 .. Len(assigned)) /\ AlertsOf(s) \in SUBSET (1 .. Len(alerts))
  BY DEF Live, AlertsOf, TypeOK
<1>3. IsFiniteSet(1 .. Len(assigned)) /\ IsFiniteSet(1 .. Len(alerts))
  BY <1>1, FS_Interval
<1>4. IsFiniteSet(OneShots \cup {Loop})
  BY OneShotsAreFinite, FS_AddElement
<1>5. Marking(s) \in SUBSET (OneShots \cup {Loop})
  BY DEF Marking, Sweepers
<1>6. IsFiniteSet(Live(s)) /\ IsFiniteSet(AlertsOf(s)) /\ IsFiniteSet(Marking(s))
  BY <1>2, <1>3, <1>4, <1>5, FS_Subset
<1>7. /\ Cardinality(Live(s)) \in Nat /\ Cardinality(AlertsOf(s)) \in Nat
      /\ Cardinality(Marking(s)) \in Nat
  BY <1>6, FS_CardinalityType
<1>8. NoAssignment \notin Live(s)
  BY <1>1, <1>2 DEF NoAssignment
<1>9. Excused(s) \in Nat
  BY <1>7 DEF Excused, TypeOK
<1>10. QED
  BY <1>6, <1>7, <1>8, <1>9

(* Removing one element removes at most one. *)
LEMMA OneLess ==
  ASSUME NEW L, IsFiniteSet(L), NEW i
  PROVE  /\ IsFiniteSet(L \ {i}) /\ Cardinality(L \ {i}) \in Nat /\ Cardinality(L) \in Nat
         /\ Cardinality(L) <= Cardinality(L \ {i}) + 1
         /\ i \in L => Cardinality(L) = Cardinality(L \ {i}) + 1
<1>1. IsFiniteSet(L \ {i}) /\ Cardinality(L \ {i}) = IF i \in L THEN Cardinality(L) - 1 ELSE Cardinality(L)
  BY FS_RemoveElement
<1>2. Cardinality(L \ {i}) \in Nat /\ Cardinality(L) \in Nat
  BY <1>1, FS_CardinalityType
<1>3. QED
  BY <1>1, <1>2

(* A smaller set has no more elements. *)
LEMMA NoMore ==
  ASSUME NEW L, IsFiniteSet(L), NEW M \in SUBSET L
  PROVE  Cardinality(M) <= Cardinality(L) /\ IsFiniteSet(M) /\ Cardinality(M) \in Nat
BY FS_Subset, FS_CardinalityType

(* A death forgets at most one mark and is counted twice; a mark and an alert    *)
(* count one each; so what is excused never shrinks, and a death or a mark of    *)
(* the slot's row excuses one more.                                             *)
LEMMA ExcusedRises ==
  ASSUME TypeOK, TypeOK', MarkedOnce, [Next]_vars, NEW s \in Slots
  PROVE  /\ Excused(s) <= Excused(s)'
         /\ Crash \/ FailApply => Excused(s) + 1 <= Excused(s)'
         /\ rows'[s] # rows[s] /\ (\E w \in Sweepers : SweepMark(w)) => Excused(s) + 1 <= Excused(s)'
<1>1. /\ IsFiniteSet(AlertsOf(s)) /\ Cardinality(AlertsOf(s)) \in Nat
      /\ IsFiniteSet(Marking(s)) /\ Cardinality(Marking(s)) \in Nat
      /\ crashes \in Nat /\ sweepFails \in Nat
  BY CountsAreNumbers DEF TypeOK, Counted
<1>2. /\ IsFiniteSet(AlertsOf(s)') /\ Cardinality(AlertsOf(s)') \in Nat
      /\ IsFiniteSet(Marking(s)') /\ Cardinality(Marking(s)') \in Nat
  <2>1. TypeOK' => Counted'
    BY CountsAreNumbers, PTL
  <2>2. QED
    BY <2>1 DEF Counted
<1>3. /\ Excused(s) = 2 * crashes + sweepFails + Cardinality(AlertsOf(s)) + Cardinality(Marking(s))
      /\ Excused(s)' = 2 * crashes' + sweepFails' + Cardinality(AlertsOf(s)') + Cardinality(Marking(s)')
  BY DEF Excused
<1>4. CASE sweeps' = sweeps /\ alerts' = alerts /\ crashes' = crashes /\ sweepFails' = sweepFails
           /\ ~(Crash \/ FailApply) /\ ~ \E w \in Sweepers : SweepMark(w)
  <2>1. AlertsOf(s)' = AlertsOf(s) /\ Marking(s)' = Marking(s)
    BY <1>4 DEF AlertsOf, Marking
  <2>2. QED
    BY <1>1, <1>3, <1>4, <2>1
<1>5. CASE Crash \/ FailApply
  <2>1. /\ alerts' = alerts /\ crashes' = crashes + 1 /\ sweepFails' = sweepFails
        /\ sweeps' = [sweeps EXCEPT ![Loop] = NoSweep]
    BY <1>5 DEF Crash, FailApply, Restart, topicVars
  <2>2. AlertsOf(s)' = AlertsOf(s)
    BY <2>1 DEF AlertsOf
  <2>3. Marking(s)' = Marking(s) \ {Loop}
    BY <2>1 DEF Marking, TypeOK, NoSweep
  <2>4. Cardinality(Marking(s)) <= Cardinality(Marking(s)') + 1
    BY <1>1, <2>3, OneLess
  <2>5. QED
    BY <1>1, <1>2, <1>3, <2>1, <2>2, <2>4
<1>6. ASSUME NEW w \in Sweepers, SweepMark(w)
      PROVE  /\ Excused(s) <= Excused(s)'
             /\ rows'[s] # rows[s] => Excused(s) + 1 <= Excused(s)'
  <2>1. PICK t \in sweeps[w].todo :
          /\ rows' = [rows EXCEPT ![t] = Merge(@, [sweeps[w].copy[t] EXCEPT !.state = "MISSING"])]
          /\ sweeps' = [sweeps EXCEPT ![w].todo = @ \ {t}, ![w].marked = @ \cup {t}]
    BY <1>6 DEF SweepMark
  <2>2. t \in Slots /\ t \notin sweeps[w].marked
    BY <2>1 DEF TypeOK, SweepLocals, MarkedOnce
  <2>3. /\ alerts' = alerts /\ crashes' = crashes /\ sweepFails' = sweepFails
        /\ rows'[s] # rows[s] => s = t
    BY <1>6, <2>1, <2>2 DEF SweepMark, topicVars, faultVars, TypeOK
  <2>4. AlertsOf(s)' = AlertsOf(s)
    BY <2>3 DEF AlertsOf
  <2>5. \A v \in Sweepers : sweeps'[v].marked = IF v = w THEN sweeps[v].marked \cup {t} ELSE sweeps[v].marked
    <3>1. sweeps[w] \in SweepLocals /\ sweeps \in [Sweepers -> SweepLocals]
      BY DEF TypeOK
    <3>2. \A v \in Sweepers : v # w => sweeps'[v] = sweeps[v]
      BY <2>1, <3>1
    <3>3. sweeps'[w] = [sweeps[w] EXCEPT !.todo = @ \ {t}, !.marked = @ \cup {t}]
      BY <2>1, <3>1
    <3>4. sweeps'[w].marked = sweeps[w].marked \cup {t}
      BY <3>1, <3>3 DEF SweepLocals
    <3>5. QED
      BY <3>2, <3>4
  <2>6. CASE s = t
    <3>1. Marking(s)' = Marking(s) \cup {w} /\ w \notin Marking(s)
      BY <2>2, <2>5, <2>6 DEF Marking
    <3>2. Cardinality(Marking(s)') = Cardinality(Marking(s)) + 1
      BY <1>1, <3>1, FS_AddElement
    <3>3. QED
      BY <1>1, <1>3, <2>3, <2>4, <3>2
  <2>7. CASE s # t
    <3>1. Marking(s)' = Marking(s)
      BY <2>5, <2>7 DEF Marking
    <3>2. QED
      BY <1>1, <1>3, <2>3, <2>4, <2>7, <3>1
  <2>8. QED
    BY <2>6, <2>7
<1>7. ASSUME NEW w \in Sweepers, SweepRead(w) PROVE Excused(s) = Excused(s)'
  <2>1. /\ alerts' = alerts /\ crashes' = crashes /\ sweepFails' = sweepFails
        /\ sweeps[w].marked = {}
        /\ \A v \in Sweepers : sweeps'[v].marked = sweeps[v].marked
    <3>1. sweeps \in [Sweepers -> SweepLocals] /\ sweeps[w].marked = {}
      BY <1>7 DEF SweepRead, TypeOK, NoSweep
    <3>2. /\ alerts' = alerts /\ crashes' = crashes /\ sweepFails' = sweepFails
          /\ \A v \in Sweepers : v # w => sweeps'[v] = sweeps[v]
          /\ sweeps'[w].marked = {}
      BY <1>7, <3>1 DEF SweepRead, topicVars, faultVars
    <3>3. QED
      BY <3>1, <3>2
  <2>2. AlertsOf(s)' = AlertsOf(s) /\ Marking(s)' = Marking(s)
    BY <2>1 DEF AlertsOf, Marking
  <2>3. QED
    BY <1>3, <2>1, <2>2
<1>8. ASSUME NEW w \in Sweepers, SweepAlert(w) PROVE Excused(s) = Excused(s)'
  <2>1. PICK t \in sweeps[w].marked :
          /\ alerts' = Append(alerts, [slot |-> t, missing |-> MissingSide(sweeps[w].copy[t])])
          /\ sweeps' = [sweeps EXCEPT ![w] = Alerted(@, t)]
    BY <1>8 DEF SweepAlert
  <2> DEFINE A == [slot : Slots, missing : Sides \cup {Unspecified}]
             a == [slot |-> t, missing |-> MissingSide(sweeps[w].copy[t])]
  <2>2. a \in A /\ a.slot = t /\ alerts \in Seq(A)
    BY <2>1 DEF TypeOK, SweepLocals, MissingSide, Sides
  <2> HIDE DEF A
  <2>3. /\ DOMAIN alerts' = DOMAIN alerts \cup {Len(alerts) + 1} /\ alerts'[Len(alerts) + 1] = a
        /\ \A k \in DOMAIN alerts : alerts'[k] = alerts[k]
        /\ Len(alerts) + 1 \notin DOMAIN alerts
    BY <2>1, <2>2, AppendFacts
  <2> HIDE DEF a
  <2>4. /\ Alerted(sweeps[w], t).marked = sweeps[w].marked \ {t}
        /\ crashes' = crashes /\ sweepFails' = sweepFails
    BY <1>8, <2>1 DEF SweepAlert, Alerted, NoSweep, TypeOK, SweepLocals, faultVars
  <2>5. \A v \in Sweepers : sweeps'[v].marked = IF v = w THEN sweeps[v].marked \ {t} ELSE sweeps[v].marked
    BY <2>1, <2>4 DEF TypeOK
  <2>6. CASE s = t
    <3>1. AlertsOf(s)' = AlertsOf(s) \cup {Len(alerts) + 1} /\ Len(alerts) + 1 \notin AlertsOf(s)
      BY <2>2, <2>3, <2>6 DEF AlertsOf
    <3>2. Marking(s)' = Marking(s) \ {w} /\ w \in Marking(s)
      <4>1. t \in sweeps[w].marked
        BY <2>1
      <4>2. QED
        BY <2>5, <2>6, <4>1 DEF Marking
    <3>3. Cardinality(AlertsOf(s)') = Cardinality(AlertsOf(s)) + 1
      BY <1>1, <3>1, FS_AddElement
    <3>4. Cardinality(Marking(s)) = Cardinality(Marking(s)') + 1
      BY <1>1, <3>2, OneLess
    <3>5. QED
      BY <1>1, <1>2, <1>3, <2>4, <3>3, <3>4
  <2>7. CASE s # t
    <3>1. AlertsOf(s)' = AlertsOf(s)
      BY <2>2, <2>3, <2>7 DEF AlertsOf
    <3>2. Marking(s)' = Marking(s)
      BY <2>5, <2>7 DEF Marking
    <3>3. QED
      BY <1>3, <2>4, <3>1, <3>2
  <2>8. QED
    BY <2>6, <2>7
<1>9. ASSUME NEW w \in Sweepers, SweepFail(w) PROVE Excused(s) <= Excused(s)'
  <2>1. /\ alerts' = alerts /\ crashes' = crashes /\ sweepFails' = sweepFails + 1
        /\ sweeps' = [sweeps EXCEPT ![w] = NoSweep]
    BY <1>9 DEF SweepFail, topicVars
  <2>2. AlertsOf(s)' = AlertsOf(s)
    BY <2>1 DEF AlertsOf
  <2>3. Marking(s)' = Marking(s) \ {w}
    BY <2>1 DEF Marking, TypeOK, NoSweep
  <2>4. Cardinality(Marking(s)) <= Cardinality(Marking(s)') + 1
    BY <1>1, <2>3, OneLess
  <2>5. QED
    BY <1>1, <1>2, <1>3, <2>1, <2>2, <2>4
<1>10. \/ Crash \/ FailApply
       \/ \E w \in Sweepers : SweepRead(w) \/ SweepMark(w) \/ SweepAlert(w) \/ SweepFail(w)
       \/ sweeps' = sweeps /\ alerts' = alerts /\ crashes' = crashes /\ sweepFails' = sweepFails
  BY DEF Next, vars, consumerVars, topicVars, faultVars, Classify, Tick, Consume, Poll, CommitBatch,
         Handle, SkipUndispatched, RefuseLate, AuditRejected, ApplyRead, ApplyUpsert,
         AuditUpdated, PublishVoid, PublishAssigned, RecordGet, RecordPut, AuditAssigned, Sweep
<1>11. ASSUME NEW w \in Sweepers, SweepRead(w) \/ SweepAlert(w) \/ SweepFail(w) PROVE rows' = rows
  BY <1>11 DEF SweepRead, SweepAlert, SweepFail
<1>12. Crash \/ FailApply => rows' = rows
  BY DEF Crash, FailApply, Restart
<1>13. \A w \in Sweepers : SweepRead(w) \/ SweepAlert(w) \/ SweepFail(w) \/ SweepMark(w) => crashes' = crashes
  BY DEF SweepRead, SweepAlert, SweepFail, SweepMark, faultVars
<1>14. Crash \/ FailApply => crashes' # crashes
  BY <1>1 DEF Crash, FailApply
<1>15. Excused(s) \in Nat /\ Excused(s)' \in Nat
  <2>1. TypeOK' => Counted'
    BY CountsAreNumbers, PTL
  <2>2. QED
    BY <2>1, CountsAreNumbers DEF Counted
<1>16. QED
  BY <1>4, <1>5, <1>6, <1>7, <1>8, <1>9, <1>10, <1>11, <1>12, <1>13, <1>14, <1>15

(* Only assign adds to the live assignments of a slot, and only of its own; a     *)
(* void takes the named one away.                                               *)
LEMMA LiveMoves ==
  ASSUME TypeOK, [Next]_vars, NEW s \in Slots
  PROVE  /\ ~(PublishAssigned /\ h.slot = s) => Live(s)' \subseteq Live(s)
         /\ PublishAssigned => Live(s)' \subseteq Live(s) \cup {Len(assigned) + 1}
         /\ PublishVoid /\ h.slot = s => Live(s)' \subseteq Live(s) \ {h.supersedes}
<1>1. \A k \in DOMAIN superseded : k \in DOMAIN superseded' /\ superseded'[k] = superseded[k]
  BY VoidsStay
<1>2. Voided \subseteq Voided'
  BY <1>1 DEF Voided
<1>3. \A k \in DOMAIN assigned : k \in DOMAIN assigned' /\ assigned'[k] = assigned[k]
  BY AssignedStays
<1>4. CASE assigned' = assigned
  <2>1. Live(s)' \subseteq Live(s)
    BY <1>2, <1>4 DEF Live
  <2>2. ASSUME PublishVoid, h.slot = s PROVE h.supersedes \in Voided'
    <3> DEFINE V == [slot : Slots, id : Nat, by : Arrivals]
               v == [slot |-> h.slot, id |-> h.supersedes, by |-> h.arrival]
    <3>1. v \in V /\ superseded \in Seq(V) /\ superseded' = Append(superseded, v)
      BY <2>2 DEF PublishVoid, TypeOK, HandlerLocals
    <3>2. v.id = h.supersedes
      OBVIOUS
    <3> HIDE DEF V, v
    <3>3. Len(superseded) + 1 \in DOMAIN superseded' /\ superseded'[Len(superseded) + 1] = v
      BY <3>1, AppendFacts
    <3>4. QED
      BY <3>2, <3>3 DEF Voided
  <2>3. ~PublishAssigned
    <3> DEFINE A == [slot : Slots, side : [Sides -> Arrivals \cup {NoArrival}], supersedes : Nat]
               a == [slot |-> h.slot, side |-> h.copy.side, supersedes |-> h.supersedes]
    <3>1. SUFFICES ASSUME PublishAssigned PROVE FALSE
      OBVIOUS
    <3>2. a \in A /\ assigned \in Seq(A) /\ assigned' = Append(assigned, a)
      BY <3>1, RowFields DEF PublishAssigned, TypeOK, HandlerLocals
    <3> HIDE DEF A, a
    <3>3. QED
      BY <1>4, <3>2, AppendFacts
  <2>4. PublishVoid /\ h.slot = s => Live(s)' \subseteq Live(s) \ {h.supersedes}
    BY <2>1, <2>2 DEF Live
  <2>5. QED
    BY <2>1, <2>3, <2>4
<1>5. CASE PublishAssigned
  <2> DEFINE A == [slot : Slots, side : [Sides -> Arrivals \cup {NoArrival}], supersedes : Nat]
             a == [slot |-> h.slot, side |-> h.copy.side, supersedes |-> h.supersedes]
  <2>1. a \in A /\ assigned \in Seq(A) /\ assigned' = Append(assigned, a) /\ ~PublishVoid
    BY <1>5, RowFields DEF PublishAssigned, PublishVoid, TypeOK, HandlerLocals
  <2>2. a.slot = h.slot
    OBVIOUS
  <2> HIDE DEF A, a
  <2>3. DOMAIN assigned' = DOMAIN assigned \cup {Len(assigned) + 1} /\ assigned'[Len(assigned) + 1] = a
    BY <2>1, AppendFacts
  <2>4. Live(s)' \subseteq Live(s) \cup {Len(assigned) + 1}
    BY <1>2, <1>3, <2>3 DEF Live
  <2>5. h.slot # s => Live(s)' \subseteq Live(s)
    BY <1>2, <1>3, <2>2, <2>3 DEF Live
  <2>6. QED
    BY <1>5, <2>1, <2>4, <2>5
<1>6. QED
  BY <1>4, <1>5, TopicsAppend

(* Every step keeps complete rows the only ones assigned. *)
LEMMA UnpairedStep ==
  ASSUME IInv, OrphansInv, [Next]_vars
  PROVE  Unpaired'
<1>1. SUFFICES ASSUME NEW s \in Slots, NEW i \in DOMAIN assigned', assigned'[i].slot = s
               PROVE  Complete(rows'[s])
  BY DEF Unpaired, Complete
<1>2. Complete(rows[s]) => Complete(rows'[s])
  BY RowsStep DEF Covers, Complete
<1>3. \A k \in DOMAIN assigned : assigned'[k] = assigned[k]
  BY AssignedStays DEF IInv
<1>4. CASE i \in DOMAIN assigned
  BY <1>1, <1>2, <1>3, <1>4 DEF OrphansInv, Unpaired
<1>5. CASE PublishAssigned /\ i \notin DOMAIN assigned
  <2> DEFINE A == [slot : Slots, side : [Sides -> Arrivals \cup {NoArrival}], supersedes : Nat]
             a == [slot |-> h.slot, side |-> h.copy.side, supersedes |-> h.supersedes]
  <2>1. a \in A /\ assigned \in Seq(A) /\ assigned' = Append(assigned, a)
    BY <1>5, RowFields DEF PublishAssigned, IInv, TypeOK, HandlerLocals
  <2>2. a.slot = h.slot
    OBVIOUS
  <2> HIDE DEF A, a
  <2>3. assigned'[i] = a
    BY <1>5, <2>1, AppendFacts
  <2>4. Complete(rows[h.slot])
    BY <1>5 DEF PublishAssigned, IInv, HandlerInv
  <2>5. QED
    BY <1>1, <1>2, <2>2, <2>3, <2>4
<1>6. QED
  BY <1>4, <1>5, TopicsAppend DEF IInv

(* Every step keeps what the sweepers have yet to mark apart from what they have. *)
LEMMA MarkedOnceStep ==
  ASSUME TypeOK, MarkedOnce, [Next]_vars
  PROVE  MarkedOnce'
<1>1. SUFFICES ASSUME NEW w \in Sweepers PROVE sweeps'[w].todo \cap sweeps'[w].marked = {}
  BY DEF MarkedOnce
<1>2. sweeps[w] \in SweepLocals /\ sweeps[w].todo \cap sweeps[w].marked = {}
  BY DEF TypeOK, MarkedOnce
<1>3. sweeps'[w] = sweeps[w] \/ sweeps'[w] = NoSweep => sweeps'[w].todo \cap sweeps'[w].marked = {}
  BY <1>2 DEF NoSweep
<1>4. ASSUME NEW v \in Sweepers, SweepRead(v) \/ SweepMark(v) \/ SweepAlert(v) \/ SweepFail(v)
      PROVE  sweeps'[w].todo \cap sweeps'[w].marked = {}
  <2>1. CASE v # w
    BY <1>3, <1>4, <2>1 DEF SweepRead, SweepMark, SweepAlert, SweepFail, TypeOK
  <2>2. CASE v = w /\ SweepRead(w)
    BY <2>2 DEF SweepRead, TypeOK
  <2>3. CASE v = w /\ SweepMark(w)
    <3>1. PICK t \in sweeps[w].todo :
            sweeps' = [sweeps EXCEPT ![w].todo = @ \ {t}, ![w].marked = @ \cup {t}]
      BY <2>3 DEF SweepMark
    <3>2. sweeps'[w] = [sweeps[w] EXCEPT !.todo = @ \ {t}, !.marked = @ \cup {t}]
      BY <3>1 DEF TypeOK
    <3>3. sweeps'[w].todo = sweeps[w].todo \ {t} /\ sweeps'[w].marked = sweeps[w].marked \cup {t}
      BY <1>2, <3>2 DEF SweepLocals
    <3>4. QED
      BY <1>2, <3>3
  <2>4. CASE v = w /\ SweepAlert(w)
    <3>1. PICK t \in sweeps[w].marked : sweeps' = [sweeps EXCEPT ![w] = Alerted(@, t)]
      BY <2>4 DEF SweepAlert
    <3>2. sweeps'[w] = Alerted(sweeps[w], t)
      BY <3>1 DEF TypeOK
    <3>3. \/ sweeps'[w] = NoSweep
          \/ sweeps'[w].todo = sweeps[w].todo /\ sweeps'[w].marked = sweeps[w].marked \ {t}
      BY <1>2, <3>2 DEF Alerted, SweepLocals
    <3>4. QED
      BY <1>2, <1>3, <3>3
  <2>5. CASE v = w /\ SweepFail(w)
    BY <1>3, <2>5 DEF SweepFail, TypeOK
  <2>6. QED
    BY <1>4, <2>1, <2>2, <2>3, <2>4, <2>5
<1>5. CASE Restart
  BY <1>3, <1>5 DEF Restart, TypeOK
<1>6. \/ sweeps' = sweeps \/ Restart
      \/ \E v \in Sweepers : SweepRead(v) \/ SweepMark(v) \/ SweepAlert(v) \/ SweepFail(v)
  BY DEF Next, vars, consumerVars, Classify, Tick, Crash, Consume, Poll, CommitBatch, Handle,
         SkipUndispatched, FailApply, RefuseLate, AuditRejected, ApplyRead, ApplyUpsert,
         AuditUpdated, PublishVoid, PublishAssigned, RecordGet, RecordPut, AuditAssigned, Sweep
<1>7. QED
  BY <1>3, <1>4, <1>5, <1>6

(* Every step keeps the id RecordAssignment holds the one just published. *)
LEMMA StampedStep ==
  ASSUME IInv, Stamped, [Next]_vars
  PROVE  Stamped'
<1>1. h \in HandlerLocals /\ Len(assigned) \in Nat
      /\ (h.step # "idle" => h.slot \in Slots)
  BY DEF IInv, TypeOK
<1>2. CASE h' = h
  BY <1>2 DEF Stamped
<1>3. CASE h'.step \notin {"recordGet", "recordPut"}
  BY <1>3 DEF Stamped
<1>4. CASE PublishAssigned
  <2>1. h'.step = "recordGet" /\ h'.id = Len(assigned) + 1
    BY <1>1, <1>4 DEF PublishAssigned, HandlerLocals
  <2>2. QED
    BY <1>1, <2>1 DEF Stamped, NoAssignment
<1>5. CASE RecordGet
  <2>1. h.slot \in Slots /\ h.id \in Nat /\ rows[h.slot] \in Row /\ h.id # NoAssignment
    BY <1>1, <1>5 DEF RecordGet, HandlerLocals, Stamped, IInv, TypeOK
  <2> DEFINE c == [rows[h.slot] EXCEPT !.aid = h.id, !.state = "ASSIGNED"]
  <2>2. h'.step = "recordPut" /\ h'.id = h.id /\ h'.copy = c
    BY <1>1, <1>5 DEF RecordGet, HandlerLocals
  <2>3. c.aid = h.id
    BY <2>1, StampType
  <2> HIDE DEF c
  <2>4. QED
    BY <2>1, <2>2, <2>3 DEF Stamped
<1>6. \/ h' = h \/ PublishAssigned \/ RecordGet \/ h'.step \notin {"recordGet", "recordPut"}
  <2>1. \A step \in HandlerSteps : Goto(step) => h'.step = step
    BY <1>1 DEF Goto, HandlerLocals
  <2>2. CASE AuditUpdated \/ PublishVoid \/ ApplyUpsert \/ RecordPut
    <3>1. \/ h' = Idle
          \/ Goto("void") \/ Goto("assign") \/ Goto("updated") \/ Goto("recorded")
      BY <2>2 DEF AuditUpdated, PublishVoid, ApplyUpsert, RecordPut, Handled
    <3>2. {"void", "assign", "updated", "recorded"} \subseteq HandlerSteps
      BY DEF HandlerSteps
    <3>3. h'.step \in {"idle", "void", "assign", "updated", "recorded"}
      BY <2>1, <3>1, <3>2, LocalsType
    <3>4. QED
      BY <3>3
  <2>3. CASE RefuseLate \/ ApplyRead
    <3>1. CASE RefuseLate
      <4>1. h'.step = "reject"
        BY <3>1 DEF RefuseLate, Idle
      <4>2. QED
        BY <4>1
    <3>2. CASE ApplyRead
      <4>1. h'.step = "upsert"
        BY <3>2 DEF ApplyRead
      <4>2. QED
        BY <4>1
    <3>3. QED
      BY <2>3, <3>1, <3>2
  <2>4. \/ h' = h \/ h' = Idle \/ PublishAssigned \/ RecordGet \/ RefuseLate \/ ApplyRead
        \/ AuditUpdated \/ PublishVoid \/ ApplyUpsert \/ RecordPut
    BY DEF Next, vars, consumerVars, Classify, Tick, Crash, Restart, Consume, Poll, CommitBatch,
           Handle, SkipUndispatched, FailApply, AuditRejected, AuditAssigned, Handled,
           Sweep, SweepRead, SweepAlert, SweepFail, SweepMark
  <2>5. QED
    BY <2>2, <2>3, <2>4, LocalsType
<1>7. QED
  BY <1>2, <1>3, <1>4, <1>5, <1>6

(* A step that does not work on a slot's row, or works on it without publishing,  *)
(* leaves its owner knowing the same assignment, and the others excused.         *)
LEMMA OthersStep ==
  ASSUME IInv, IInv', OrphansInv, [Next]_vars
  PROVE  OthersExcused'
<1>1. SUFFICES ASSUME NEW s \in Slots
               PROVE  Cardinality(Live(s)' \ {Known(s)'}) <= Excused(s)'
  BY DEF OthersExcused
<1>2. /\ IsFiniteSet(Live(s)) /\ IsFiniteSet(Live(s)') /\ NoAssignment \notin Live(s)
      /\ NoAssignment \notin Live(s)' /\ Excused(s) \in Nat /\ Excused(s)' \in Nat
  <2>1. TypeOK' => Counted'
    BY CountsAreNumbers, PTL
  <2>2. QED
    BY <2>1, CountsAreNumbers DEF Counted, IInv
<1>3. /\ Cardinality(Live(s) \ {Known(s)}) <= Excused(s)
      /\ Excused(s) <= Excused(s)'
      /\ Crash \/ FailApply => Excused(s) + 1 <= Excused(s)'
      /\ rows'[s] # rows[s] /\ (\E w \in Sweepers : SweepMark(w)) => Excused(s) + 1 <= Excused(s)'
  BY ExcusedRises DEF OrphansInv, OthersExcused, IInv
<1>4. /\ h \in HandlerLocals /\ (h.step # "idle" => h.slot \in Slots)
      /\ h.step = "idle" \/ h.step \in HandlerSteps
      /\ rows \in [Slots -> Row] /\ rows[s] \in Row
  BY DEF IInv, TypeOK, HandlerLocals
<1>5. /\ ~(PublishAssigned /\ h.slot = s) => Live(s)' \subseteq Live(s)
      /\ PublishAssigned => Live(s)' \subseteq Live(s) \cup {Len(assigned) + 1}
      /\ PublishVoid /\ h.slot = s => Live(s)' \subseteq Live(s) \ {h.supersedes}
  BY LiveMoves DEF IInv
<1>6. /\ Cardinality(Live(s)) <= Cardinality(Live(s) \ {Known(s)}) + 1
      /\ Cardinality(Live(s)) \in Nat /\ Cardinality(Live(s) \ {Known(s)}) \in Nat
      /\ IsFiniteSet(Live(s) \ {Known(s)})
  BY <1>2, OneLess
<1>7. ASSUME Excused(s) + 1 <= Excused(s)', Live(s)' \subseteq Live(s)
      PROVE  Cardinality(Live(s)' \ {Known(s)'}) <= Excused(s)'
  <2>1. Live(s)' \ {Known(s)'} \in SUBSET Live(s)
    BY <1>7
  <2>2. Cardinality(Live(s)' \ {Known(s)'}) <= Cardinality(Live(s)) /\ Cardinality(Live(s)' \ {Known(s)'}) \in Nat
    BY <1>2, <2>1, NoMore
  <2>3. QED
    BY <1>2, <1>3, <1>6, <1>7, <2>2
<1>8. ASSUME Live(s)' \ {Known(s)'} \subseteq Live(s) \ {Known(s)}
      PROVE  Cardinality(Live(s)' \ {Known(s)'}) <= Excused(s)'
  <2>1. /\ Cardinality(Live(s)' \ {Known(s)'}) <= Cardinality(Live(s) \ {Known(s)})
        /\ Cardinality(Live(s)' \ {Known(s)'}) \in Nat
    BY <1>6, <1>8, NoMore
  <2>2. QED
    BY <1>2, <1>3, <1>6, <2>1
<1>9. CASE Crash \/ FailApply
  <2>1. ~PublishAssigned
    BY <1>4, <1>9 DEF Crash, FailApply, Restart, Receiving, PublishAssigned, IInv, TypeOK
  <2>2. QED
    BY <1>3, <1>5, <1>7, <1>9, <2>1
<1>10. CASE \E w \in Sweepers : SweepMark(w)
  <2>1. h' = h /\ assigned' = assigned /\ superseded' = superseded
    BY <1>10 DEF SweepMark, consumerVars, topicVars
  <2>2. Live(s)' = Live(s)
    BY <2>1 DEF Live, Voided
  <2>3. CASE rows'[s] = rows[s]
    <3>1. Known(s)' = Known(s)
      BY <2>1, <2>3 DEF Known, Complete
    <3>2. QED
      BY <1>8, <2>2, <3>1
  <2>4. QED
    BY <1>3, <1>7, <1>10, <2>2, <2>3
<1>11. CASE h' = h /\ rows' = rows /\ assigned' = assigned /\ superseded' = superseded
  <2>1. Known(s)' = Known(s) /\ Live(s)' = Live(s)
    BY <1>11 DEF Known, Complete, Live, Voided
  <2>2. QED
    BY <1>8, <2>1
<1>12. CASE SkipUndispatched \/ RefuseLate \/ AuditRejected \/ AuditAssigned
  <2>1. /\ rows' = rows /\ assigned' = assigned /\ superseded' = superseded
        /\ h.step \in {"idle", "reject", "recorded"} /\ h'.step \in {"idle", "reject", "recorded"}
    BY <1>12, LocalsType DEF SkipUndispatched, RefuseLate, AuditRejected, AuditAssigned, Receiving,
                             Handled, Idle, topicVars
  <2>2. Known(s)' = Known(s) /\ Live(s)' = Live(s)
    BY <2>1 DEF Known, Live, Voided
  <2>3. QED
    BY <1>8, <2>2
<1>13. CASE ApplyRead
  <2> DEFINE m == Incoming
             r == rows[m.slot]
  <2>1. /\ h.step = "idle" /\ rows' = rows /\ assigned' = assigned /\ superseded' = superseded
        /\ h'.step = "upsert" /\ h'.slot = m.slot /\ h'.copy = ApplySide(r, m)
        /\ h'.supersedes = Supersedes(r, m)
    BY <1>13 DEF ApplyRead, Receiving, topicVars
  <2>2. m \in Message /\ m.side \in Sides /\ m.slot \in Slots /\ m.arrival \in Arrivals
    BY <1>13, IncomingType DEF ApplyRead, ApplyFails, IInv
  <2>3. Live(s)' = Live(s)
    BY <2>1 DEF Live, Voided
  <2> HIDE DEF m
  <2>4. CASE s # m.slot
    <3>1. Known(s)' = Known(s)
      BY <2>1, <2>4 DEF Known
    <3>2. QED
      BY <1>8, <2>3, <3>1
  <2>5. CASE s = m.slot
    <3>1. Known(s) = IF rows[s].state = "ASSIGNED" THEN rows[s].aid ELSE NoAssignment
      BY <2>1 DEF Known
    <3>2. CASE Complete(ApplySide(r, m))
      <4>1. Known(s)' = Supersedes(r, m)
        BY <2>1, <2>5, <3>2 DEF Known, Complete
      <4>2. Known(s)' = Known(s)
        BY <2>5, <3>1, <3>2, <4>1 DEF Supersedes
      <4>3. QED
        BY <1>8, <2>3, <4>2
    <3>3. CASE ~Complete(ApplySide(r, m))
      <4>1. ApplySide(r, m).side = [r.side EXCEPT ![m.side] = m.arrival]
        BY <1>4, <2>2, <2>5, ApplySideType
      <4>2. r.side \in [Sides -> Arrivals \cup {NoArrival}]
        BY <1>4, <2>5, RowFields
      <4>3. ~Complete(r)
        BY <2>2, <3>3, <4>1, <4>2, ConstantsAssumption DEF Complete
      <4>4. Live(s) = {}
        BY <2>5, <4>3 DEF OrphansInv, Unpaired, Live
      <4>5. QED
        BY <1>8, <2>3, <4>4
    <3>4. QED
      BY <3>2, <3>3
  <2>6. QED
    BY <2>4, <2>5
<1>14. ASSUME NEW step \in HandlerSteps, Goto(step), h.step # "idle"
       PROVE  /\ h'.step = step /\ h'.slot = h.slot /\ h'.copy = h.copy
              /\ h'.supersedes = h.supersedes /\ h'.id = h.id
  BY <1>4, <1>14 DEF Goto, HandlerLocals
<1>15. CASE ApplyUpsert
  <2>1. /\ h.step = "upsert" /\ h'.step = "updated" /\ h'.slot = h.slot /\ h'.copy = h.copy
        /\ h'.supersedes = h.supersedes /\ h'.id = h.id
        /\ assigned' = assigned /\ superseded' = superseded
        /\ rows' = [rows EXCEPT ![h.slot] = Merge(@, h.copy)]
    BY <1>14, <1>15 DEF ApplyUpsert, HandlerSteps, topicVars
  <2>2. h.slot # s => rows'[s] = rows[s]
    BY <1>4, <2>1
  <2>3. Known(s)' = Known(s)
    BY <2>1, <2>2 DEF Known, Complete
  <2>4. Live(s)' = Live(s)
    BY <2>1 DEF Live, Voided
  <2>5. QED
    BY <1>8, <2>3, <2>4
<1>16. CASE AuditUpdated
  <2>1. /\ h.step = "updated" /\ rows' = rows /\ assigned' = assigned /\ superseded' = superseded
        /\ \/ ~Complete(h.copy) /\ h' = Idle
           \/ /\ h'.slot = h.slot /\ h'.supersedes = h.supersedes /\ Complete(h.copy)
              /\ \/ h'.step = "void"
                 \/ h'.step = "assign" /\ h.supersedes = NoAssignment
    BY <1>14, <1>16 DEF AuditUpdated, HandlerSteps, Handled, topicVars
  <2>2. Live(s)' = Live(s)
    BY <2>1 DEF Live, Voided
  <2>3. Known(s)' = Known(s) \/ Known(s) = NoAssignment
    BY <2>1, LocalsType DEF Known
  <2>4. QED
    BY <1>2, <1>8, <2>2, <2>3
<1>17. CASE PublishVoid
  <2>1. /\ h.step = "void" /\ h'.step = "assign" /\ h'.slot = h.slot /\ rows' = rows
    BY <1>14, <1>17 DEF PublishVoid, HandlerSteps
  <2>2. ~PublishAssigned
    BY <2>1 DEF PublishAssigned
  <2>3. CASE h.slot # s
    <3>1. Known(s)' = Known(s)
      BY <2>1, <2>3 DEF Known
    <3>2. QED
      BY <1>5, <1>8, <2>2, <3>1
  <2>4. CASE h.slot = s
    <3>1. Known(s) = h.supersedes
      BY <2>1, <2>4 DEF Known
    <3>2. QED
      BY <1>5, <1>8, <1>17, <2>4, <3>1
  <2>5. QED
    BY <2>3, <2>4
<1>18. CASE PublishAssigned
  <2>1. /\ h.step = "assign" /\ h'.step = "recordGet" /\ h'.slot = h.slot /\ rows' = rows
        /\ h'.id = Len(assigned) + 1
    BY <1>4, <1>18 DEF PublishAssigned, HandlerLocals
  <2>2. CASE h.slot # s
    <3>1. Known(s)' = Known(s)
      BY <2>1, <2>2 DEF Known
    <3>2. QED
      BY <1>5, <1>8, <2>2, <3>1
  <2>3. CASE h.slot = s
    <3>1. Known(s) = NoAssignment /\ Known(s)' = Len(assigned) + 1
      BY <2>1, <2>3 DEF Known
    <3>2. QED
      BY <1>2, <1>5, <1>8, <1>18, <3>1
  <2>4. QED
    BY <2>2, <2>3
<1>19. CASE RecordGet
  <2>1. /\ h.step = "recordGet" /\ h'.step = "recordPut" /\ h'.slot = h.slot /\ rows' = rows
        /\ h'.id = h.id /\ assigned' = assigned /\ superseded' = superseded
    BY <1>4, <1>19 DEF RecordGet, HandlerLocals, topicVars
  <2>2. Known(s)' = Known(s) /\ Live(s)' = Live(s)
    BY <2>1 DEF Known, Live, Voided
  <2>3. QED
    BY <1>8, <2>2
<1>20. CASE RecordPut
  <2>1. /\ h.step = "recordPut" /\ h'.step = "recorded" /\ h'.slot = h.slot
        /\ assigned' = assigned /\ superseded' = superseded
        /\ rows' = [rows EXCEPT ![h.slot] = Merge(rows[h.slot], h.copy)]
        /\ h.slot \in Slots /\ h.copy \in Row
    BY <1>4, <1>14, <1>20 DEF RecordPut, HandlerSteps, topicVars, HandlerLocals
  <2>2. Live(s)' = Live(s)
    BY <2>1 DEF Live, Voided
  <2>3. CASE h.slot # s
    <3>1. Known(s)' = Known(s)
      BY <1>4, <2>1, <2>3 DEF Known
    <3>2. QED
      BY <1>8, <2>2, <3>1
  <2>4. CASE h.slot = s
    <3>1. h.copy.aid = h.id /\ h.id # NoAssignment /\ h.copy.state = "ASSIGNED"
      BY <2>1 DEF OrphansInv, Stamped, IInv, HandlerInv
    <3>2. rows'[s] = Merge(rows[s], h.copy)
      BY <1>4, <2>1, <2>4
    <3>3. rows'[s].state = "ASSIGNED" /\ rows'[s].aid = h.id
      BY <1>4, <2>1, <3>1, <3>2, MergeType
    <3>4. Known(s)' = Known(s)
      BY <2>1, <2>4, <3>3 DEF Known
    <3>5. QED
      BY <1>8, <2>2, <3>4
  <2>5. QED
    BY <2>3, <2>4
<1>21. \/ Crash \/ FailApply \/ \E w \in Sweepers : SweepMark(w)
       \/ h' = h /\ rows' = rows /\ assigned' = assigned /\ superseded' = superseded
       \/ SkipUndispatched \/ RefuseLate \/ AuditRejected \/ AuditAssigned
       \/ ApplyRead \/ ApplyUpsert \/ AuditUpdated \/ PublishVoid \/ PublishAssigned
       \/ RecordGet \/ RecordPut
  BY DEF Next, vars, consumerVars, topicVars, Classify, Tick, Consume, Poll, CommitBatch,
         Handle, Sweep, SweepRead, SweepAlert, SweepFail
<1>22. QED
  BY <1>9, <1>10, <1>11, <1>12, <1>13, <1>15, <1>16, <1>17, <1>18, <1>19, <1>20, <1>21

(* The initial state has nothing to account for. *)
LEMMA OrphansInit == Init => OrphansInv
<1> SUFFICES ASSUME Init PROVE OrphansInv
  OBVIOUS
<1>1. \A s \in Slots : Live(s) = {}
  BY DEF Init, Live
<1>2. \A s \in Slots : Excused(s) \in Nat
  BY TypeInit, CountsAreNumbers DEF Counted
<1>3. OthersExcused
  <2>1. SUFFICES ASSUME NEW s \in Slots PROVE Cardinality(Live(s) \ {Known(s)}) <= Excused(s)
    BY DEF OthersExcused
  <2>2. Live(s) \ {Known(s)} = {}
    BY <1>1
  <2>3. Cardinality(Live(s) \ {Known(s)}) = 0
    BY <2>2, FS_EmptySet
  <2>4. QED
    BY <1>2, <2>3
<1>4. Unpaired /\ Stamped
  BY DEF Init, Unpaired, Stamped, Idle
<1>5. MarkedOnce
  BY DEF Init, MarkedOnce, NoSweep
<1>6. QED
  BY <1>3, <1>4, <1>5 DEF OrphansInv

(* Every live assignment beyond the first is owed to a death of the process or to *)
(* a mark of its row (RecordAssignment, Overdue), whatever is delivered, however  *)
(* often and to however many sweepers.                                          *)
THEOREM OrphansAreAccounted == Spec => []OrphansAccounted
<1>1. IInv /\ IInv' /\ OrphansInv /\ [Next]_vars => OrphansInv'
  BY OthersStep, UnpairedStep, StampedStep, MarkedOnceStep DEF OrphansInv, IInv
<1>2. IInv /\ OrphansInv => OrphansAccounted
  <2>1. SUFFICES ASSUME IInv, OrphansInv, NEW s \in Slots
                 PROVE  Cardinality(Live(s)) <= 1 + Excused(s)
    BY DEF OrphansAccounted
  <2>2. IsFiniteSet(Live(s)) /\ Excused(s) \in Nat /\ Cardinality(Live(s) \ {Known(s)}) <= Excused(s)
    <3>1. TypeOK /\ OthersExcused
      BY <2>1 DEF IInv, OrphansInv
    <3>2. Counted
      BY <3>1, CountsAreNumbers
    <3>3. QED
      BY <2>1, <3>1, <3>2 DEF Counted, OthersExcused
  <2>3. /\ Cardinality(Live(s)) <= Cardinality(Live(s) \ {Known(s)}) + 1
        /\ Cardinality(Live(s)) \in Nat /\ Cardinality(Live(s) \ {Known(s)}) \in Nat
    BY <2>2, OneLess
  <2>4. QED
    BY <2>2, <2>3
<1>3. QED
  BY <1>1, <1>2, OrphansInit, Invariance, PTL DEF Spec

=============================================================================
