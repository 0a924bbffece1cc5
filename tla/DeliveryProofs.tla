--------------------------- MODULE DeliveryProofs ---------------------------
(***************************************************************************)
(* Proofs about the two readers of the topics, for any number of slots,    *)
(* arrivals and reviewers, any canonical files, and any number of          *)
(* messages, restarts and failed projections.                              *)
(***************************************************************************)
EXTENDS Delivery, TLAPS

----------------------------------------------------------------------------
(* The topics *)

Assignment == [slot : Slots, side : [Sides -> Arrivals], supersedes : Nat \cup {NoAssignment}]
VoidMessage == [slot : Slots, id : Nat, by : Arrivals]
Dispositions == Held \cup {"DISPATCHED"}
Notice == [arrival : Arrivals, disposition : Dispositions]

TopicTypes ==
  /\ issued \in Seq(Assignment) /\ voids \in Seq(VoidMessage)
  /\ notices \in [ArrivalTopics -> Seq(Notice)]
  /\ alerts \in Seq([slot : Slots, side : Sides])

(* r is q with something appended. *)
Extends(q, r) == Len(q) <= Len(r) /\ \A k \in DOMAIN q : k \in DOMAIN r /\ r[k] = q[k]

(* Appending keeps the old elements at their places. *)
LEMMA AppendFacts ==
  ASSUME NEW S, NEW q \in Seq(S)
  PROVE  /\ Extends(q, q) /\ Len(q) \in Nat /\ DOMAIN q = 1 .. Len(q)
         /\ \A k \in DOMAIN q : q[k] \in S
         /\ \A x \in S : /\ Append(q, x) \in Seq(S) /\ Extends(q, Append(q, x))
                        /\ Len(Append(q, x)) = Len(q) + 1 /\ Append(q, x)[Len(q) + 1] = x
BY DEF Extends

(* The producers only append, and what they append is well typed. *)
LEMMA TopicsStep ==
  ASSUME TopicTypes, [Next]_deliveryVars
  PROVE  /\ TopicTypes'
         /\ Extends(issued, issued') /\ Extends(voids, voids')
         /\ \A t \in ArrivalTopics : Extends(notices[t], notices'[t])
<1> USE DEF TopicTypes, ledgerVars, feedVars
<1>0. /\ issued \in Seq(Assignment) /\ voids \in Seq(VoidMessage)
      /\ \A t \in ArrivalTopics : notices[t] \in Seq(Notice)
      /\ Extends(issued, issued) /\ Extends(voids, voids)
      /\ \A t \in ArrivalTopics : Extends(notices[t], notices[t])
  BY DEF Extends
<1>1. CASE UNCHANGED <<ledgerVars, feedVars>>
  BY <1>0, <1>1
<1>2. CASE Dispatch
  <2>1. UNCHANGED feedVars
    BY <1>2 DEF Dispatch
  <2>2. ASSUME NEW s \in Slots, NEW side \in Pairings, NEW supersedes \in DOMAIN issued \cup {NoAssignment},
               Issue(s, side, supersedes)
        PROVE  \E a \in Assignment : issued' = Append(issued, a) /\ voids' = voids
    <3>1. supersedes \in Nat \cup {NoAssignment}
      BY <1>0, <2>2
    <3>2. [slot |-> s, side |-> side, supersedes |-> supersedes] \in Assignment
      BY <3>1, DeliveryConstants DEF Assignment
    <3>3. QED
      BY <2>2, <3>2 DEF Issue
  <2>3. ASSUME NEW s \in Slots, NEW id \in DOMAIN issued, NEW by \in Mentioned, Void(s, id, by)
        PROVE  \E v \in VoidMessage : voids' = Append(voids, v) /\ issued' = issued
    <3>1. id \in Nat
      BY <1>0, <2>3
    <3>2. [slot |-> s, id |-> id, by |-> by] \in VoidMessage
      BY <3>1, DeliveryConstants DEF VoidMessage
    <3>3. QED
      BY <2>3, <3>2 DEF Void
  <2>4. \/ \E a \in Assignment : issued' = Append(issued, a) /\ voids' = voids
        \/ \E v \in VoidMessage : voids' = Append(voids, v) /\ issued' = issued
    BY <1>2, <2>2, <2>3 DEF Dispatch
  <2>5. /\ issued' \in Seq(Assignment) /\ voids' \in Seq(VoidMessage)
        /\ Extends(issued, issued') /\ Extends(voids, voids')
    <3>1. /\ \A a \in Assignment : Append(issued, a) \in Seq(Assignment) /\ Extends(issued, Append(issued, a))
          /\ \A v \in VoidMessage : Append(voids, v) \in Seq(VoidMessage) /\ Extends(voids, Append(voids, v))
      BY <1>0, AppendFacts
    <3>2. QED
      BY <1>0, <2>4, <3>1
  <2>6. QED
    BY <1>0, <2>1, <2>5
<1>3. ASSUME NEW s \in Slots, NEW d \in Sides, RaiseAlert(s, d)
      PROVE  alerts' \in Seq([slot : Slots, side : Sides]) /\ UNCHANGED <<ledgerVars, notices>>
  BY <1>3 DEF RaiseAlert
<1>4. ASSUME NEW a \in Mentioned, NEW disposition \in Held \cup {"DISPATCHED"}, Notify(a, disposition)
      PROVE  /\ notices' \in [ArrivalTopics -> Seq(Notice)]
             /\ \A t \in ArrivalTopics : Extends(notices[t], notices'[t])
             /\ UNCHANGED <<ledgerVars, alerts>>
  <2>1. PICK t \in ArrivalTopics :
          notices' = [notices EXCEPT ![t] = Append(@, [arrival |-> a, disposition |-> disposition])]
    <3>1. {"classified", "quarantined"} \subseteq ArrivalTopics
      BY DEF ArrivalTopics
    <3>2. QED
      BY <1>4, <3>1 DEF Notify
  <2>2. [arrival |-> a, disposition |-> disposition] \in Notice
    BY DeliveryConstants DEF Notice, Dispositions
  <2>3. PICK n \in Notice : notices' = [notices EXCEPT ![t] = Append(@, n)]
    BY <2>1, <2>2
  <2>4. UNCHANGED <<ledgerVars, alerts>>
    BY <1>4 DEF Notify
  <2>5. Append(notices[t], n) \in Seq(Notice) /\ Extends(notices[t], Append(notices[t], n))
    BY <1>0, AppendFacts
  <2>6. QED
    BY <1>0, <2>3, <2>4, <2>5
<1>5. QED
  BY <1>0, <1>1, <1>2, <1>3, <1>4 DEF Next, deliveryVars

(* The topics start empty and stay typed. *)
LEMMA TopicsTyped == Spec => []TopicTypes
<1>1. Init => TopicTypes
  BY DEF Init, LedgerInit, TopicTypes
<1>2. TopicTypes /\ [Next]_deliveryVars => TopicTypes'
  BY TopicsStep
<1>3. QED
  BY <1>1, <1>2, PTL DEF Spec

----------------------------------------------------------------------------
(* The reconciliation stub.  A restart takes its position back and empties its    *)
(* set of voids, but leaves the reports; what survives every replay is that each  *)
(* assignment handled so far, as the position counts it, is settled.             *)

StubTypes ==
  /\ stubAt \in [StubTopics -> Nat] /\ stubDone \in [StubTopics -> Nat]
  /\ DOMAIN reports = Slots

StubOffsets ==
  /\ \A t \in StubTopics : stubDone[t] <= stubAt[t]
  /\ stubAt["assigned"] <= Len(issued) /\ stubAt["superseded"] <= Len(voids)

VoidedOnTopic == \A id \in voided : \E j \in DOMAIN voids : voids[j].id = id

(* A later assignment of its slot is on the topic, or its void is, or the slot's  *)
(* report is its own.                                                            *)
Settled(id) ==
  \/ \E later \in DOMAIN issued : later > id /\ issued[later].slot = issued[id].slot
  \/ \E j \in DOMAIN voids : voids[j].id = id
  \/ reports[issued[id].slot] # NoReport /\ reports[issued[id].slot].id = id

HandledIsSettled == \A id \in DOMAIN issued : id <= stubAt["assigned"] => Settled(id)

(* The breaks RunAssignment finds for an assignment. *)
BreaksOf(a) == Reconcile(Content[a.side["INTERNAL_GL"]], Content[a.side["EXTERNAL_CLIENT"]])

ReportsAreOwn ==
  \A s \in Slots : reports[s] # NoReport =>
    reports[s].id \in DOMAIN issued /\ reports[s].breaks = BreaksOf(issued[reports[s].id])

StubInv == StubTypes /\ StubOffsets /\ VoidedOnTopic /\ HandledIsSettled /\ ReportsAreOwn

(* Every assignment is of a slot. *)
LEMMA AssignmentsHaveSlots ==
  ASSUME TopicTypes, NEW id \in DOMAIN issued
  PROVE  issued[id].slot \in Slots /\ issued[id].side \in [Sides -> Arrivals]
<1>1. issued[id] \in Assignment
  BY AppendFacts DEF TopicTypes
<1>2. QED
  BY <1>1 DEF Assignment

(* A settled assignment stays settled while its slot's report stands. *)
LEMMA SettledStays ==
  ASSUME TopicTypes, TopicTypes', Extends(issued, issued'), Extends(voids, voids'),
         NEW id \in DOMAIN issued, Settled(id), UNCHANGED reports
  PROVE  Settled(id)'
BY DEF Settled, Extends, TopicTypes

(* Steps of the producers and of the control plane leave the stub's invariant. *)
LEMMA StubFrame ==
  ASSUME TopicTypes, TopicTypes', Extends(issued, issued'), Extends(voids, voids'), StubInv, UNCHANGED stubVars
  PROVE  StubInv'
<1> USE DEF StubInv, stubVars
<1>1. /\ issued \in Seq(Assignment) /\ voids \in Seq(VoidMessage)
      /\ issued' \in Seq(Assignment) /\ voids' \in Seq(VoidMessage)
  BY DEF TopicTypes
<1>2. StubTypes'
  BY DEF StubTypes
<1>3. StubOffsets'
  BY <1>1 DEF StubOffsets, StubTypes, StubTopics, Extends
<1>4. VoidedOnTopic'
  BY DEF VoidedOnTopic, Extends
<1>5. HandledIsSettled'
  <2> SUFFICES ASSUME NEW id \in DOMAIN issued', id <= stubAt["assigned"] PROVE Settled(id)'
    BY DEF HandledIsSettled
  <2>1. id \in DOMAIN issued
    BY <1>1 DEF StubOffsets, StubTypes, StubTopics
  <2>2. QED
    BY <2>1, SettledStays DEF HandledIsSettled
<1>6. ReportsAreOwn'
  BY DEF ReportsAreOwn, Extends, BreaksOf
<1>7. QED
  BY <1>2, <1>3, <1>4, <1>5, <1>6

(* Every step of the stub keeps it. *)
LEMMA StubStep ==
  ASSUME TopicTypes, StubInv, StubNext, UNCHANGED ledgerVars
  PROVE  StubInv'
<1> USE DEF StubInv, ledgerVars
<1>0. /\ issued \in Seq(Assignment) /\ voids \in Seq(VoidMessage)
      /\ stubAt \in [StubTopics -> Nat] /\ stubDone \in [StubTopics -> Nat]
      /\ stubAt["assigned"] \in Nat /\ stubAt["superseded"] \in Nat
      /\ Len(issued) \in Nat /\ DOMAIN issued = 1 .. Len(issued)
      /\ Len(voids) \in Nat /\ DOMAIN voids = 1 .. Len(voids)
      /\ "assigned" \in StubTopics /\ "superseded" \in StubTopics
  BY DEF TopicTypes, StubTypes, StubTopics
<1>1. CASE HandleVoid
  <2>1. /\ stubAt' = [stubAt EXCEPT !["superseded"] = @ + 1] /\ UNCHANGED <<stubDone, reports>>
        /\ stubAt["superseded"] + 1 \in DOMAIN voids
        /\ voided' = voided \cup {voids[stubAt["superseded"] + 1].id}
    BY <1>0, <1>1 DEF HandleVoid
  <2>2. StubTypes' /\ StubOffsets'
    BY <1>0, <2>1 DEF StubTypes, StubOffsets, StubTopics
  <2>3. VoidedOnTopic'
    BY <2>1 DEF VoidedOnTopic
  <2>4. HandledIsSettled'
    BY <1>0, <2>1 DEF HandledIsSettled, Settled
  <2>5. QED
    BY <2>1, <2>2, <2>3, <2>4 DEF ReportsAreOwn, BreaksOf
<1>2. CASE SkipVoided
  <2>1. /\ stubAt' = [stubAt EXCEPT !["assigned"] = @ + 1] /\ UNCHANGED <<voided, stubDone, reports>>
        /\ NextId \in DOMAIN issued /\ NextId \in voided
    BY <1>2 DEF SkipVoided
  <2>2. StubTypes' /\ StubOffsets'
    BY <1>0, <2>1 DEF StubTypes, StubOffsets, StubTopics, NextId
  <2>3. Settled(NextId)
    BY <2>1 DEF VoidedOnTopic, Settled
  <2>4. \A id \in DOMAIN issued : id <= stubAt'["assigned"] => id <= stubAt["assigned"] \/ id = NextId
    BY <1>0, <2>1 DEF NextId
  <2>5. HandledIsSettled'
    BY <2>1, <2>3, <2>4 DEF HandledIsSettled, Settled
  <2>6. QED
    BY <2>1, <2>2, <2>5 DEF VoidedOnTopic, ReportsAreOwn, BreaksOf
<1>3. CASE RunAssignment
  <2> DEFINE id == NextId
             s == issued[id].slot
             r == [id |-> id, breaks |-> BreaksOf(issued[id])]
  <2>1. /\ stubAt' = [stubAt EXCEPT !["assigned"] = @ + 1] /\ UNCHANGED <<voided, stubDone>>
        /\ reports' = [reports EXCEPT ![s] = r] /\ id \in DOMAIN issued
    BY <1>3 DEF RunAssignment, BreaksOf
  <2>2. r.id = id /\ r.breaks = BreaksOf(issued[id])
    OBVIOUS
  <2>3. r # NoReport
    <3>1. id \in Nat \ {0}
      BY <1>0, <2>1
    <3>2. NoReport.id = NoAssignment
      BY DEF NoReport
    <3>3. QED
      BY <2>2, <3>1, <3>2, StubConstants
  <2>4. s \in Slots
    BY <2>1, AssignmentsHaveSlots
  <2> HIDE DEF id, s, r
  <2>5. reports'[s] = r /\ \A k \in Slots \ {s} : reports'[k] = reports[k]
    BY <2>1, <2>4 DEF StubTypes
  <2>6. StubTypes' /\ StubOffsets'
    BY <1>0, <2>1 DEF StubTypes, StubOffsets, StubTopics, NextId, id
  <2>7. id \in Nat /\ \A k \in DOMAIN issued : k <= stubAt'["assigned"] => k = id \/ (k < id /\ k <= stubAt["assigned"])
    BY <1>0, <2>1 DEF NextId, id
  <2>8. ASSUME NEW k \in DOMAIN issued, k <= stubAt'["assigned"] PROVE Settled(k)'
    <3>1. CASE k = id
      BY <2>2, <2>3, <2>5, <3>1 DEF Settled, s
    <3>2. CASE k < id /\ issued[k].slot = s
      BY <2>1, <3>2 DEF Settled, s
    <3>3. CASE k < id /\ k <= stubAt["assigned"] /\ issued[k].slot # s
      <4>1. Settled(k)
        BY <3>3 DEF HandledIsSettled
      <4>2. reports'[issued[k].slot] = reports[issued[k].slot]
        BY <2>5, <3>3, AssignmentsHaveSlots
      <4>3. QED
        BY <4>1, <4>2 DEF Settled
    <3>4. QED
      BY <2>7, <2>8, <3>1, <3>2, <3>3
  <2>9. ReportsAreOwn'
    <3> SUFFICES ASSUME NEW k \in Slots, reports'[k] # NoReport
                 PROVE  reports'[k].id \in DOMAIN issued /\ reports'[k].breaks = BreaksOf(issued[reports'[k].id])
      BY DEF ReportsAreOwn, BreaksOf
    <3>1. CASE k = s
      BY <2>1, <2>2, <2>5, <3>1
    <3>2. CASE k # s
      BY <2>5, <3>2 DEF ReportsAreOwn
    <3>3. QED
      BY <3>1, <3>2
  <2>10. QED
    BY <2>1, <2>6, <2>8, <2>9 DEF VoidedOnTopic, HandledIsSettled
<1>4. CASE RaiseOnLoad \/ StubCrash
  <2>1. stubAt' = stubDone /\ voided' = {} /\ UNCHANGED <<stubDone, reports>>
    BY <1>4 DEF RaiseOnLoad, StubCrash, StubRestart
  <2>2. stubDone["assigned"] \in Nat /\ stubDone["superseded"] \in Nat
    BY <1>0
  <2>3. StubTypes' /\ StubOffsets'
    BY <1>0, <2>1, <2>2 DEF StubTypes, StubOffsets
  <2>4. HandledIsSettled'
    BY <1>0, <2>1, <2>2 DEF HandledIsSettled, Settled, StubOffsets
  <2>5. QED
    BY <2>1, <2>3, <2>4 DEF VoidedOnTopic, ReportsAreOwn, BreaksOf
<1>5. CASE StubCommit
  BY <1>0, <1>5 DEF StubCommit, StubTypes, StubOffsets, VoidedOnTopic, HandledIsSettled, Settled,
                    ReportsAreOwn, BreaksOf
<1>6. QED
  BY <1>1, <1>2, <1>3, <1>4, <1>5 DEF StubNext

(* StubInv is an invariant. *)
LEMMA StubInvariant == Spec => []StubInv
<1>1. Init => StubInv
  BY DEF Init, LedgerInit, StubInit, StubInv, StubTypes, StubOffsets, StubTopics, VoidedOnTopic,
         HandledIsSettled, ReportsAreOwn
<1>2. TopicTypes /\ StubInv /\ [Next]_deliveryVars => StubInv'
  <2> SUFFICES ASSUME TopicTypes, StubInv, [Next]_deliveryVars PROVE StubInv'
    OBVIOUS
  <2>1. UNCHANGED stubVars \/ (StubNext /\ UNCHANGED ledgerVars)
    BY DEF Next, deliveryVars, Dispatch, RaiseAlert, Notify
  <2>2. QED
    BY <2>1, TopicsStep, StubFrame, StubStep
<1>3. QED
  BY <1>1, <1>2, TopicsTyped, PTL DEF Spec

(* Whatever the order of the two topics, the restarts and the replays, when the   *)
(* stub has handled all there is, the last assignment of a slot is the reported   *)
(* one unless it is voided (handle, ADR-005).                                    *)
THEOREM LatestAssignmentIsReported == Spec => []LatestIsReported
<1>1. TopicTypes /\ StubInv => LatestIsReported
  <2> SUFFICES ASSUME TopicTypes, StubInv, stubAt["assigned"] = Len(issued), NEW id \in DOMAIN issued
               PROVE  Settled(id)
    BY DEF LatestIsReported, Settled
  <2>1. id <= Len(issued)
    BY DEF TopicTypes
  <2>2. QED
    BY <2>1 DEF StubInv, HandledIsSettled
<1>2. QED
  BY <1>1, TopicsTyped, StubInvariant, PTL

(* In rows without a repeated key, ByKey answers every row with its values. *)
LEMMA ByKeyFinds ==
  ASSUME NEW rows, DOMAIN rows \subseteq Nat, UniqueKeys(rows)
  PROVE  /\ DOMAIN ByKey(rows) = {rows[i].key : i \in DOMAIN rows}
         /\ \A i \in DOMAIN rows : ByKey(rows)[rows[i].key] = rows[i].value
<1>1. ASSUME NEW i \in DOMAIN rows
      PROVE  ByKey(rows)[rows[i].key] = rows[i].value
  <2> DEFINE Last(j) == rows[j].key = rows[i].key /\ \A l \in DOMAIN rows : rows[l].key = rows[i].key => l <= j
             c == CHOOSE j \in DOMAIN rows : Last(j)
  <2>1. Last(i)
    BY DEF UniqueKeys
  <2> HIDE DEF Last
  <2>2. c \in DOMAIN rows /\ Last(c)
    BY <2>1
  <2>3. c = i
    BY <2>2 DEF UniqueKeys, Last
  <2> HIDE DEF c
  <2>4. ByKey(rows)[rows[i].key] = rows[c].value
    BY DEF ByKey, c, Last
  <2>5. QED
    BY <2>3, <2>4
<1>2. QED
  BY <1>1 DEF ByKey

(* Differs is the negation of Close. *)
LEMMA DiffersMeans ==
  ASSUME NEW v, NEW w, v \in Texts \cup {Null} \/ v \in Int, w \in Texts \cup {Null} \/ w \in Int
  PROVE  ~Differs(v, w) <=> Close(v, w)
<1>1. CASE IsDecimal(v) /\ IsDecimal(w)
  <2>1. v \in Int /\ w \in Int /\ v # Null
    BY <1>1 DEF IsDecimal
  <2>2. ~Differs(v, w) <=> v - w \in -2 .. 2
    BY <1>1, <2>1 DEF Differs, Tolerance
  <2>3. QED
    BY <1>1, <2>2 DEF Close, IsDecimal
<1>2. CASE ~(IsDecimal(v) /\ IsDecimal(w))
  BY <1>2 DEF Differs, Close, IsDecimal, Text
<1>3. QED
  BY <1>1, <1>2

(* reconcile finds no breaks in two files without repeated keys exactly if every  *)
(* row of one is answered in the other.                                          *)
LEMMA ReconcileMeans ==
  ASSUME NEW a \in Arrivals, NEW b \in Arrivals, UniqueKeys(Content[a]), UniqueKeys(Content[b])
  PROVE  Reconcile(Content[a], Content[b]) = {}
           <=> Answered(Content[a], Content[b]) /\ Answered(Content[b], Content[a])
<1> DEFINE x == Content[a]
           y == Content[b]
           left == ByKey(x)
           right == ByKey(y)
<1>1. /\ DOMAIN left = {x[i].key : i \in DOMAIN x} /\ \A i \in DOMAIN x : left[x[i].key] = x[i].value
      /\ DOMAIN right = {y[i].key : i \in DOMAIN y} /\ \A i \in DOMAIN y : right[y[i].key] = y[i].value
  BY ByKeyFinds, StubConstants
<1>2. \A i \in DOMAIN x, j \in DOMAIN y, f \in Fields :
        /\ ~Differs(x[i].value[f], y[j].value[f]) <=> Close(x[i].value[f], y[j].value[f])
        /\ Close(x[i].value[f], y[j].value[f]) <=> Close(y[j].value[f], x[i].value[f])
  <2> SUFFICES ASSUME NEW i \in DOMAIN x, NEW j \in DOMAIN y, NEW f \in Fields
               PROVE  /\ ~Differs(x[i].value[f], y[j].value[f]) <=> Close(x[i].value[f], y[j].value[f])
                      /\ Close(x[i].value[f], y[j].value[f]) <=> Close(y[j].value[f], x[i].value[f])
    OBVIOUS
  <2> DEFINE v == x[i].value[f]
             w == y[j].value[f]
  <2>1. (v \in Texts \cup {Null} \/ v \in Int) /\ (w \in Texts \cup {Null} \/ w \in Int)
    BY StubConstants
  <2> HIDE DEF v, w
  <2>2. ~Differs(v, w) <=> Close(v, w)
    BY <2>1, DiffersMeans
  <2>3. Close(v, w) <=> Close(w, v)
    BY <2>1 DEF Close
  <2>4. QED
    BY <2>2, <2>3 DEF v, w
<1>3. Reconcile(x, y) = {} <=>
        /\ DOMAIN left = DOMAIN right
        /\ \A k \in DOMAIN left \cap DOMAIN right, f \in Fields : ~Differs(left[k][f], right[k][f])
  <2> HIDE DEF left, right
  <2>1. ASSUME NEW k \in DOMAIN left \cap DOMAIN right, NEW f \in Fields, Differs(left[k][f], right[k][f])
        PROVE  <<"VALUE_MISMATCH", k, f>> \in Reconcile(x, y)
    BY <2>1 DEF Reconcile, left, right
  <2>2. ASSUME NEW k \in DOMAIN left \ DOMAIN right PROVE <<"MISSING_SIDE_2", k>> \in Reconcile(x, y)
    BY <2>2 DEF Reconcile, left, right
  <2>3. ASSUME NEW k \in DOMAIN right \ DOMAIN left PROVE <<"MISSING_SIDE_1", k>> \in Reconcile(x, y)
    BY <2>3 DEF Reconcile, left, right
  <2>4. ASSUME NEW e \in Reconcile(x, y)
        PROVE  \/ DOMAIN left # DOMAIN right
               \/ \E k \in DOMAIN left \cap DOMAIN right, f \in Fields : Differs(left[k][f], right[k][f])
    BY <2>4 DEF Reconcile, left, right
  <2>5. QED
    BY <2>1, <2>2, <2>3, <2>4
<1> HIDE DEF left, right
<1>4. ASSUME Reconcile(x, y) = {} PROVE Answered(x, y) /\ Answered(y, x)
  <2>1. /\ DOMAIN left = DOMAIN right
        /\ \A k \in DOMAIN left, f \in Fields : ~Differs(left[k][f], right[k][f])
    BY <1>3, <1>4
  <2>2. Answered(x, y)
    <3> SUFFICES ASSUME NEW i \in DOMAIN x
                 PROVE  \E j \in DOMAIN y : x[i].key = y[j].key /\ \A f \in Fields : Close(x[i].value[f], y[j].value[f])
      BY DEF Answered
    <3>1. PICK j \in DOMAIN y : x[i].key = y[j].key
      BY <1>1, <2>1
    <3>2. left[x[i].key] = x[i].value /\ right[x[i].key] = y[j].value /\ x[i].key \in DOMAIN left
      BY <1>1, <3>1
    <3>3. QED
      BY <1>2, <2>1, <3>1, <3>2
  <2>3. Answered(y, x)
    <3> SUFFICES ASSUME NEW j \in DOMAIN y
                 PROVE  \E i \in DOMAIN x : y[j].key = x[i].key /\ \A f \in Fields : Close(y[j].value[f], x[i].value[f])
      BY DEF Answered
    <3>1. PICK i \in DOMAIN x : x[i].key = y[j].key
      BY <1>1, <2>1
    <3>2. left[x[i].key] = x[i].value /\ right[x[i].key] = y[j].value /\ x[i].key \in DOMAIN left
      BY <1>1, <3>1
    <3>3. QED
      BY <1>2, <2>1, <3>1, <3>2
  <2>4. QED
    BY <2>2, <2>3
<1>5. ASSUME Answered(x, y), Answered(y, x) PROVE Reconcile(x, y) = {}
  <2>1. DOMAIN left = DOMAIN right
    BY <1>1, <1>5 DEF Answered
  <2>2. ASSUME NEW k \in DOMAIN left \cap DOMAIN right, NEW f \in Fields PROVE ~Differs(left[k][f], right[k][f])
    <3>1. PICK i \in DOMAIN x : x[i].key = k /\ left[k] = x[i].value
      BY <1>1, <2>2
    <3>2. PICK j \in DOMAIN y : y[j].key = k /\ Close(x[i].value[f], y[j].value[f])
      BY <1>5, <3>1 DEF Answered
    <3>3. right[k] = y[j].value
      BY <1>1, <3>2
    <3>4. QED
      BY <1>2, <3>1, <3>2, <3>3
  <2>3. QED
    BY <1>3, <2>1, <2>2
<1>6. QED
  BY <1>4, <1>5

(* A report without breaks means the two files agree, and one with breaks that   *)
(* they do not (reconcile).                                                      *)
THEOREM CleanReportsMeanAgreement == Spec => []CleanReportMeansAgreement
<1>1. TopicTypes /\ StubInv => CleanReportMeansAgreement
  <2> SUFFICES ASSUME TopicTypes, StubInv, NEW s \in Slots, reports[s] # NoReport,
                      UniqueKeys(Content[issued[reports[s].id].side["INTERNAL_GL"]]),
                      UniqueKeys(Content[issued[reports[s].id].side["EXTERNAL_CLIENT"]])
               PROVE  LET a == issued[reports[s].id]
                          x == Content[a.side["INTERNAL_GL"]]
                          y == Content[a.side["EXTERNAL_CLIENT"]]
                      IN  reports[s].breaks = {} <=> Answered(x, y) /\ Answered(y, x)
    BY DEF CleanReportMeansAgreement
  <2>1. reports[s].id \in DOMAIN issued /\ reports[s].breaks = BreaksOf(issued[reports[s].id])
    BY DEF StubInv, ReportsAreOwn
  <2>2. issued[reports[s].id].side \in [Sides -> Arrivals]
    BY <2>1, AssignmentsHaveSlots
  <2>3. /\ issued[reports[s].id].side["INTERNAL_GL"] \in Arrivals
        /\ issued[reports[s].id].side["EXTERNAL_CLIENT"] \in Arrivals
    BY <2>2, StubConstants
  <2>4. QED
    BY <2>1, <2>3, ReconcileMeans DEF BreaksOf
<1>2. QED
  BY <1>1, TopicsTyped, StubInvariant, PTL

----------------------------------------------------------------------------
(* The control plane.  Until a projection is skipped, a handled notice has left a *)
(* disposition, and every disposition comes from a notice.                       *)

Review == [reviewer : Reviewers, decision : {"APPROVE", "REJECT"}]
Decision == [arrival : Arrivals, reviewer : Reviewers, decision : {"APPROVE", "REJECT"}]
ReviewRequest == [arrival : Arrivals, decision : {"APPROVE", "REJECT"}]

BoardTypes ==
  /\ boardAt \in [BoardTopics -> Nat] /\ boardDone \in [BoardTopics -> Nat]
  /\ \A t \in BoardTopics : boardDone[t] <= boardAt[t]
  /\ dispositions \in [Arrivals -> Dispositions \cup {Nobody}]
  /\ reviews \in [Arrivals -> Review \cup {Nobody}]
  /\ requests \in [Reviewers -> ReviewRequest \cup {Nobody}]
  /\ decisions \in Seq(Decision)

(* A request under way holds the review of its arrival, which nobody published.  *)
RequestsHoldReviews ==
  \A r \in Reviewers : requests[r] # Nobody =>
    /\ reviews[requests[r].arrival] = [reviewer |-> r, decision |-> requests[r].decision]
    /\ \A i \in DOMAIN decisions : decisions[i].arrival # requests[r].arrival

ReviewInv == RequestsHoldReviews /\ PublishedIsRecorded

DispositionsAreNotices ==
  \A a \in Arrivals : dispositions[a] = Nobody \/ dispositions[a] \in NoticesOf(a)

HandledHasDisposition ==
  skipped = {} =>
    \A t \in ArrivalTopics : \A k \in DOMAIN notices[t] :
      k <= boardAt[t] => dispositions[notices[t][k].arrival] # Nobody

HandledAreThere == \A t \in ArrivalTopics : boardAt[t] <= Len(notices[t])

QueueInv == DispositionsAreNotices /\ HandledHasDisposition /\ HandledAreThere

(* What a step of the board does to the tables, in one of its three parts. *)
LEMMA BoardParts ==
  ASSUME [Next]_deliveryVars
  PROVE  \/ UNCHANGED boardVars
         \/ BoardNext(quota.underReview) /\ UNCHANGED <<ledgerVars, feedVars>>
BY DEF Next, deliveryVars, Dispatch, RaiseAlert, Notify

(* The next notice is a notice. *)
LEMMA NextNotice ==
  ASSUME TopicTypes, BoardTypes, NEW t \in ArrivalTopics, boardAt[t] < Len(Topic(t))
  PROVE  /\ NextMessage(t) \in Notice /\ Topic(t) = notices[t] /\ NextMessage(t) = notices[t][boardAt[t] + 1]
         /\ boardAt[t] + 1 \in DOMAIN notices[t]
<1>1. Topic(t) = notices[t] /\ t \in BoardTopics
  BY DEF Topic, ArrivalTopics, BoardTopics
<1>2. notices[t] \in Seq(Notice) /\ boardAt[t] \in Nat
  BY <1>1 DEF TopicTypes, BoardTypes
<1>3. QED
  BY <1>1, <1>2 DEF NextMessage

(* The types of the board's tables. *)
LEMMA BoardTyped ==
  ASSUME TopicTypes, BoardTypes, [Next]_deliveryVars
  PROVE  BoardTypes'
<1> USE DEF boardVars, projectionVars, consumerVars, reviewVars, feedVars, ledgerVars
<1>0. /\ "assigned" \in BoardTopics /\ "superseded" \in BoardTopics /\ "alerts" \in BoardTopics
      /\ ArrivalTopics \subseteq BoardTopics
  BY DEF BoardTopics
<1>1. CASE UNCHANGED boardVars
  BY <1>1 DEF BoardTypes
<1>2. ASSUME NEW t \in BoardTopics, boardAt' = [boardAt EXCEPT ![t] = @ + 1], UNCHANGED <<boardDone, reviewVars>>,
             dispositions' \in [Arrivals -> Dispositions \cup {Nobody}]
      PROVE  BoardTypes'
  BY <1>2 DEF BoardTypes
<1>3. CASE Project
  <2>1. CASE ProjectAssignment \/ ProjectSuperseded \/ ProjectAlert
    <3>1. PICK t \in BoardTopics : boardAt' = [boardAt EXCEPT ![t] = @ + 1] /\ UNCHANGED <<boardDone, reviewVars, dispositions>>
      BY <1>0, <2>1 DEF ProjectAssignment, ProjectSuperseded, ProjectAlert, Handled
    <3>2. QED
      BY <1>2, <3>1 DEF BoardTypes
  <2>2. ASSUME NEW t \in ArrivalTopics, ProjectClassified(t) PROVE BoardTypes'
    <3>1. boardAt' = [boardAt EXCEPT ![t] = @ + 1] /\ UNCHANGED <<boardDone, reviewVars>>
      BY <2>2 DEF ProjectClassified, Handled
    <3>2. \E n \in Notice : dispositions' = [dispositions EXCEPT ![n.arrival] = n.disposition]
      BY <2>2, NextNotice DEF ProjectClassified, Handled
    <3>3. dispositions' \in [Arrivals -> Dispositions \cup {Nobody}]
      BY <3>2 DEF Notice, BoardTypes
    <3>4. QED
      BY <1>0, <1>2, <3>1, <3>3
  <2>3. QED
    BY <1>3, <2>1, <2>2 DEF Project
<1>4. ASSUME NEW t \in BoardTopics, Skip(t) PROVE BoardTypes'
  BY <1>2, <1>4 DEF Skip, BoardTypes
<1>5. CASE BoardCommit
  BY <1>5 DEF BoardCommit, BoardTypes
<1>6. CASE BoardCrash
  BY <1>6 DEF BoardCrash, BoardTypes
<1>7. CASE ProjectorStops
  BY <1>7 DEF ProjectorStops, BoardTypes
<1>8. CASE Request(quota.underReview)
  <2>1. UNCHANGED <<boardAt, boardDone, dispositions>>
    BY <1>8 DEF Request, RecordReview, PublishDecision, PublishFails, AcknowledgeAlert
  <2>2. ASSUME NEW r \in Reviewers, NEW a \in Arrivals, NEW d \in {"APPROVE", "REJECT"}, RecordReview(r, a, d)
        PROVE  BoardTypes'
    <3>1. [reviewer |-> r, decision |-> d] \in Review /\ [arrival |-> a, decision |-> d] \in ReviewRequest
      BY DEF Review, ReviewRequest
    <3>2. QED
      BY <2>1, <2>2, <3>1 DEF RecordReview, BoardTypes
  <2>3. ASSUME NEW r \in Reviewers, PublishDecision(r) PROVE BoardTypes'
    <3>1. requests[r] \in ReviewRequest
      BY <2>3 DEF PublishDecision, BoardTypes
    <3>2. [arrival |-> requests[r].arrival, reviewer |-> r, decision |-> requests[r].decision]
            \in Decision
      BY <3>1 DEF ReviewRequest, Decision
    <3>3. QED
      BY <2>1, <2>3, <3>2 DEF PublishDecision, BoardTypes
  <2>4. ASSUME NEW r \in Reviewers, PublishFails(r) PROVE BoardTypes'
    BY <2>1, <2>4 DEF PublishFails, BoardTypes
  <2>5. ASSUME NEW r \in Reviewers, NEW id, AcknowledgeAlert(r, id) PROVE BoardTypes'
    BY <2>1, <2>5 DEF AcknowledgeAlert, BoardTypes
  <2>6. QED
    BY <1>8, <2>2, <2>3, <2>4, <2>5 DEF Request
<1>9. QED
  BY <1>1, <1>3, <1>4, <1>5, <1>6, <1>7, <1>8, BoardParts DEF BoardNext

(* A decision is published for a review that is there, and for no other. *)
LEMMA ReviewStep ==
  ASSUME BoardTypes, ReviewInv, [Next]_deliveryVars
  PROVE  ReviewInv'
<1> USE DEF boardVars, projectionVars, consumerVars, reviewVars, ReviewInv
<1>0. /\ reviews \in [Arrivals -> Review \cup {Nobody}]
      /\ requests \in [Reviewers -> ReviewRequest \cup {Nobody}]
      /\ Nobody \notin Review /\ Nobody \notin ReviewRequest
      /\ \A q \in ReviewRequest : q.arrival \in Arrivals
  BY BoardConstants DEF BoardTypes, Review, ReviewRequest
<1>1. CASE UNCHANGED reviewVars
  BY <1>1 DEF RequestsHoldReviews, PublishedIsRecorded
<1>2. CASE BoardCrash
  BY <1>0, <1>2 DEF BoardCrash, RequestsHoldReviews, PublishedIsRecorded
<1>3. ASSUME NEW r \in Reviewers, NEW a \in Arrivals, NEW d \in {"APPROVE", "REJECT"}, RecordReview(r, a, d)
      PROVE  ReviewInv'
  <2> DEFINE q == [arrival |-> a, decision |-> d]
             v == [reviewer |-> r, decision |-> d]
  <2>1. /\ requests[r] = Nobody /\ reviews[a] = Nobody /\ decisions' = decisions
        /\ reviews' = [reviews EXCEPT ![a] = v] /\ requests' = [requests EXCEPT ![r] = q]
    BY <1>3 DEF RecordReview
  <2>2. \A i \in DOMAIN decisions : decisions[i].arrival # a
    <3> SUFFICES ASSUME NEW i \in DOMAIN decisions, decisions[i].arrival = a PROVE FALSE
      OBVIOUS
    <3>1. decisions[i] \in Decision
      BY AppendFacts DEF BoardTypes
    <3>2. [reviewer |-> decisions[i].reviewer, decision |-> decisions[i].decision] \in Review
      BY <3>1 DEF Decision, Review
    <3>3. QED
      BY <1>0, <2>1, <3>2 DEF PublishedIsRecorded
  <2>3. q.arrival = a /\ q.decision = d
    OBVIOUS
  <2>4. \A i \in DOMAIN decisions : reviews'[decisions[i].arrival] = reviews[decisions[i].arrival]
    BY <1>0, <2>1, <2>2
  <2>5. PublishedIsRecorded'
    BY <2>1, <2>4 DEF PublishedIsRecorded
  <2>6. ASSUME NEW p \in Reviewers, requests'[p] # Nobody
        PROVE  /\ reviews'[requests'[p].arrival] = [reviewer |-> p, decision |-> requests'[p].decision]
               /\ \A i \in DOMAIN decisions : decisions[i].arrival # requests'[p].arrival
    <3>1. CASE p = r
      BY <1>0, <2>1, <2>2, <2>3, <3>1
    <3>2. CASE p # r
      <4>1. requests'[p] = requests[p] /\ requests[p] # Nobody /\ requests[p].arrival \in Arrivals
        BY <1>0, <2>1, <2>6, <3>2
      <4>2. reviews[requests[p].arrival] = [reviewer |-> p, decision |-> requests[p].decision]
        BY <4>1 DEF RequestsHoldReviews
      <4>3. [reviewer |-> p, decision |-> requests[p].decision] \in Review
        BY <1>0, <4>1 DEF ReviewRequest, Review
      <4>4. requests[p].arrival # a
        BY <1>0, <2>1, <4>2, <4>3
      <4>5. QED
        BY <1>0, <2>1, <4>1, <4>2, <4>4 DEF RequestsHoldReviews
    <3>3. QED
      BY <3>1, <3>2
  <2> HIDE DEF q, v
  <2>7. RequestsHoldReviews'
    BY <2>1, <2>6 DEF RequestsHoldReviews
  <2>8. QED
    BY <2>5, <2>7
<1>4. ASSUME NEW r \in Reviewers, PublishDecision(r) PROVE ReviewInv'
  <2> DEFINE e == [arrival |-> requests[r].arrival, reviewer |-> r, decision |-> requests[r].decision]
  <2>1. /\ requests[r] # Nobody /\ requests[r] \in ReviewRequest /\ reviews' = reviews
        /\ decisions' = Append(decisions, e) /\ requests' = [requests EXCEPT ![r] = Nobody]
    BY <1>0, <1>4 DEF PublishDecision
  <2>2. e \in Decision /\ e.arrival = requests[r].arrival /\ e.reviewer = r /\ e.decision = requests[r].decision
    BY <2>1 DEF ReviewRequest, Decision
  <2>3. decisions \in Seq(Decision)
    BY DEF BoardTypes
  <2> HIDE DEF e
  <2>4. /\ \A i \in DOMAIN decisions' : i \in DOMAIN decisions \/ i = Len(decisions) + 1
        /\ \A i \in DOMAIN decisions : decisions'[i] = decisions[i]
        /\ decisions'[Len(decisions) + 1] = e
    BY <2>1, <2>2, <2>3
  <2>5. PublishedIsRecorded'
    <3>1. /\ reviews[e.arrival] = [reviewer |-> e.reviewer, decision |-> e.decision]
          /\ \A i \in DOMAIN decisions : decisions[i].arrival # e.arrival
      BY <2>1, <2>2 DEF RequestsHoldReviews
    <3>2. ASSUME NEW i \in DOMAIN decisions'
          PROVE  reviews[decisions'[i].arrival] = [reviewer |-> decisions'[i].reviewer, decision |-> decisions'[i].decision]
      BY <2>4, <3>1 DEF PublishedIsRecorded
    <3>3. ASSUME NEW i \in DOMAIN decisions', NEW j \in DOMAIN decisions', decisions'[i].arrival = decisions'[j].arrival
          PROVE  i = j
      BY <2>4, <3>1, <3>3 DEF PublishedIsRecorded
    <3>4. QED
      BY <2>1, <3>2, <3>3 DEF PublishedIsRecorded
  <2>6. ASSUME NEW p \in Reviewers, requests'[p] # Nobody
        PROVE  requests'[p] = requests[p] /\ requests[p].arrival # requests[r].arrival
    <3>1. p # r /\ requests'[p] = requests[p]
      BY <1>0, <2>1, <2>6
    <3>2. /\ reviews[requests[p].arrival] = [reviewer |-> p, decision |-> requests[p].decision]
          /\ reviews[requests[r].arrival] = [reviewer |-> r, decision |-> requests[r].decision]
      BY <2>1, <2>6, <3>1 DEF RequestsHoldReviews
    <3>3. [reviewer |-> p, decision |-> requests[p].decision] # [reviewer |-> r, decision |-> requests[r].decision]
      BY <3>1
    <3>4. QED
      BY <3>1, <3>2, <3>3
  <2>7. RequestsHoldReviews'
    BY <2>1, <2>2, <2>4, <2>6 DEF RequestsHoldReviews
  <2>8. QED
    BY <2>5, <2>7
<1>5. ASSUME NEW r \in Reviewers, PublishFails(r) PROVE ReviewInv'
  BY <1>0, <1>5 DEF PublishFails, RequestsHoldReviews, PublishedIsRecorded
<1>6. UNCHANGED reviewVars \/ BoardCrash \/ \E r \in Reviewers : \/ PublishDecision(r) \/ PublishFails(r)
        \/ \E a \in Arrivals, d \in {"APPROVE", "REJECT"} : RecordReview(r, a, d)
  BY BoardParts DEF BoardNext, Project, ProjectAssignment, ProjectSuperseded, ProjectAlert, ProjectClassified,
     Handled, Skip, BoardCommit, ProjectorStops, Request, AcknowledgeAlert
<1>7. QED
  BY <1>1, <1>2, <1>3, <1>4, <1>5, <1>6

(* The board's tables are typed, and its reviews sound. *)
LEMMA BoardInvariant == Spec => [](BoardTypes /\ ReviewInv)
<1>1. Init => BoardTypes /\ ReviewInv
  <2> SUFFICES ASSUME Init PROVE BoardTypes /\ ReviewInv
    OBVIOUS
  <2>1. decisions = <<>> /\ (\A r \in Reviewers : requests[r] = Nobody) /\ BoardTypes
    BY DEF Init, BoardInit, BoardTypes
  <2>2. QED
    BY <2>1 DEF ReviewInv, RequestsHoldReviews, PublishedIsRecorded
<1>2. TopicTypes /\ BoardTypes /\ ReviewInv /\ [Next]_deliveryVars => (BoardTypes /\ ReviewInv)'
  BY BoardTyped, ReviewStep
<1>3. QED
  BY <1>1, <1>2, TopicsTyped, PTL DEF Spec

(* Two reviewers, a crash or a failing bus never put a decision on the bus that   *)
(* the database does not hold, nor two for one arrival (postDecision, FR-32).    *)
THEOREM PublishedDecisionsAreRecorded == Spec => []PublishedIsRecorded
<1>1. ReviewInv => PublishedIsRecorded
  BY DEF ReviewInv
<1>2. QED
  BY <1>1, BoardInvariant, PTL

(* A notice that was published is one of NoticesOf. *)
LEMMA NoticesMean ==
  ASSUME NEW a, NEW d
  PROVE  /\ d \in NoticesOf(a) <=> \E t \in ArrivalTopics : \E k \in DOMAIN notices[t] :
                                  notices[t][k].arrival = a /\ notices[t][k].disposition = d
         /\ d \in NoticesOf(a)' <=> \E t \in ArrivalTopics : \E k \in DOMAIN notices'[t] :
                                  notices'[t][k].arrival = a /\ notices'[t][k].disposition = d
BY DEF NoticesOf

(* The dispositions come from the notices, and no handled notice is lost. *)
LEMMA QueueStep ==
  ASSUME TopicTypes, BoardTypes, QueueInv, [Next]_deliveryVars
  PROVE  QueueInv'
<1> USE DEF QueueInv, boardVars, projectionVars, consumerVars, reviewVars, feedVars, ledgerVars
<1>0. /\ boardAt \in [BoardTopics -> Nat] /\ boardDone \in [BoardTopics -> Nat]
      /\ \A t \in ArrivalTopics : t \in BoardTopics /\ boardAt[t] \in Nat /\ boardDone[t] \in Nat
      /\ \A t \in ArrivalTopics : boardDone[t] <= boardAt[t]
      /\ dispositions \in [Arrivals -> Dispositions \cup {Nobody}] /\ Nobody \notin Dispositions
  BY BoardConstants DEF BoardTypes, BoardTopics, Dispositions, Held
<1>1. \A t \in ArrivalTopics :
        /\ notices[t] \in Seq(Notice) /\ notices'[t] \in Seq(Notice)
        /\ Len(notices[t]) \in Nat /\ Len(notices'[t]) \in Nat /\ Len(notices[t]) <= Len(notices'[t])
        /\ DOMAIN notices[t] = 1 .. Len(notices[t]) /\ DOMAIN notices'[t] = 1 .. Len(notices'[t])
        /\ \A k \in DOMAIN notices[t] : k \in DOMAIN notices'[t] /\ notices'[t][k] = notices[t][k]
  BY TopicsStep DEF TopicTypes, Extends
<1>2. \A a \in Arrivals : \A d \in NoticesOf(a) : d \in NoticesOf(a)'
  BY <1>1, NoticesMean
<1>3. ASSUME UNCHANGED <<dispositions, skipped>>, \A t \in ArrivalTopics : boardAt'[t] <= boardAt[t] /\ boardAt'[t] \in Nat
      PROVE  QueueInv'
  <2>1. DispositionsAreNotices'
    BY <1>2, <1>3 DEF DispositionsAreNotices
  <2>2. HandledAreThere'
    BY <1>0, <1>1, <1>3 DEF HandledAreThere
  <2>3. ASSUME skipped = {}, NEW t \in ArrivalTopics, NEW k \in DOMAIN notices'[t], k <= boardAt'[t]
        PROVE  dispositions[notices'[t][k].arrival] # Nobody
    <3>1. k \in DOMAIN notices[t] /\ k <= boardAt[t]
      BY <1>0, <1>1, <1>3, <2>3 DEF HandledAreThere
    <3>2. QED
      BY <1>1, <2>3, <3>1 DEF HandledHasDisposition
  <2>4. QED
    BY <1>3, <2>1, <2>2, <2>3 DEF HandledHasDisposition
<1>4. ASSUME NEW t \in ArrivalTopics, ProjectClassified(t) PROVE QueueInv'
  <2> DEFINE k0 == boardAt[t] + 1
             m == notices[t][k0]
  <2>1. /\ boardAt[t] < Len(Topic(t)) /\ boardAt' = [boardAt EXCEPT ![t] = @ + 1] /\ skipped' = skipped
        /\ dispositions' = [dispositions EXCEPT ![NextMessage(t).arrival] = NextMessage(t).disposition]
    BY <1>4 DEF ProjectClassified, Handled
  <2>2. /\ k0 \in DOMAIN notices[t] /\ m \in Notice
        /\ dispositions' = [dispositions EXCEPT ![m.arrival] = m.disposition]
    BY <2>1, NextNotice
  <2>3. m.arrival \in Arrivals /\ m.disposition # Nobody /\ m.disposition \in NoticesOf(m.arrival)
    BY <1>0, <2>2, NoticesMean DEF Notice
  <2>4. notices' = notices
    <3>1. boardAt' # boardAt
      BY <1>0, <2>1
    <3>2. UNCHANGED boardVars => boardAt' = boardAt
      OBVIOUS
    <3>3. UNCHANGED <<ledgerVars, feedVars>> => notices' = notices
      OBVIOUS
    <3>4. QED
      BY <3>1, <3>2, <3>3, BoardParts
  <2>5. \A k \in DOMAIN notices[t] : k <= boardAt'[t] => k <= boardAt[t] \/ k = k0
    <3>1. boardAt'[t] = k0 /\ boardAt[t] \in Nat
      BY <1>0, <2>1
    <3>2. \A k \in DOMAIN notices[t] : k \in Nat
      BY <1>1
    <3>3. \A k, b \in Nat : k <= b + 1 => k <= b \/ k = b + 1
      OBVIOUS
    <3>4. QED
      BY <3>1, <3>2, <3>3
  <2>6. \A u \in ArrivalTopics : u # t => boardAt'[u] = boardAt[u]
    BY <1>0, <2>1
  <2> HIDE DEF m, k0
  <2>7. /\ dispositions'[m.arrival] = m.disposition
        /\ \A a \in Arrivals : dispositions'[a] = dispositions[a] \/ dispositions'[a] = m.disposition
        /\ \A a \in Arrivals : a # m.arrival => dispositions'[a] = dispositions[a]
    BY <1>0, <2>2, <2>3
  <2>8. DispositionsAreNotices'
    BY <1>2, <2>3, <2>7 DEF DispositionsAreNotices
  <2>9. HandledAreThere'
    BY <1>0, <1>1, <2>1, <2>2, <2>4, <2>6 DEF HandledAreThere, k0
  <2>10. ASSUME skipped = {}, NEW u \in ArrivalTopics, NEW k \in DOMAIN notices[u], k <= boardAt'[u]
         PROVE  dispositions'[notices[u][k].arrival] # Nobody
    <3>1. notices[u][k].arrival \in Arrivals
      <4>1. notices[u][k] \in Notice
        BY <1>1
      <4>2. QED
        BY <4>1 DEF Notice
    <3>2. CASE u = t /\ k = k0
      BY <2>3, <2>7, <3>2 DEF m
    <3>3. CASE k <= boardAt[u]
      BY <2>3, <2>7, <2>10, <3>1, <3>3 DEF HandledHasDisposition
    <3>4. QED
      BY <2>5, <2>6, <2>10, <3>2, <3>3
  <2>11. HandledHasDisposition'
    BY <2>1, <2>4, <2>10 DEF HandledHasDisposition
  <2>12. QED
    BY <2>8, <2>9, <2>11
<1>5. ASSUME NEW t \in BoardTopics, Skip(t) PROVE QueueInv'
  <2>1. skipped' # {} /\ dispositions' = dispositions /\ boardAt' = [boardAt EXCEPT ![t] = @ + 1]
        /\ boardAt[t] < Len(Topic(t))
    BY <1>5 DEF Skip
  <2>2. HandledAreThere'
    <3>1. t \in ArrivalTopics => boardAt[t] < Len(notices[t])
      BY <2>1 DEF Topic, ArrivalTopics
    <3>2. QED
      BY <1>0, <1>1, <2>1, <3>1 DEF HandledAreThere
  <2>3. QED
    BY <1>2, <2>1, <2>2 DEF DispositionsAreNotices, HandledHasDisposition
<1>6. CASE UNCHANGED boardVars \/ BoardCommit \/ ProjectorStops \/ BoardCrash \/ Request(quota.underReview)
      \/ ProjectAssignment \/ ProjectSuperseded \/ ProjectAlert
  <2>1. UNCHANGED <<dispositions, skipped>>
    BY <1>6 DEF BoardCommit, ProjectorStops, BoardCrash, Request, RecordReview, PublishDecision, PublishFails, AcknowledgeAlert,
       ProjectAssignment, ProjectSuperseded, ProjectAlert, Handled
  <2>2. \A t \in ArrivalTopics : boardAt'[t] = boardAt[t] \/ boardAt'[t] = boardDone[t]
    BY <1>0, <1>6 DEF BoardCommit, ProjectorStops, BoardCrash, Request, RecordReview, PublishDecision, PublishFails, AcknowledgeAlert,
       ProjectAssignment, ProjectSuperseded, ProjectAlert, Handled, ArrivalTopics
  <2>3. QED
    BY <1>0, <1>3, <2>1, <2>2
<1>7. QED
  BY <1>4, <1>5, <1>6, BoardParts DEF BoardNext, Project

(* The queue and the topics agree once the projector has caught up: an arrival    *)
(* held in every part waits for a decision, one dispatched in every part does    *)
(* not, whatever was replayed (Quarantine, FR-31).                               *)
THEOREM HeldArrivalsAreQueued == Spec => []HeldIsQueued
<1>1. Init => QueueInv
  BY DEF Init, BoardInit, QueueInv, DispositionsAreNotices, HandledHasDisposition, HandledAreThere, ArrivalTopics,
         BoardTopics
<1>2. TopicTypes /\ BoardTypes /\ QueueInv /\ [Next]_deliveryVars => QueueInv'
  BY QueueStep
<1>3. TopicTypes /\ BoardTypes /\ QueueInv => HeldIsQueued
  <2> SUFFICES ASSUME TopicTypes, BoardTypes, QueueInv, AtRest, skipped = {}, NEW a \in Arrivals
               PROVE  /\ NoticesOf(a) # {} /\ NoticesOf(a) \subseteq Held /\ reviews[a] = Nobody => a \in Quarantine
                      /\ NoticesOf(a) \subseteq {"DISPATCHED"} => a \notin Quarantine
    BY DEF HeldIsQueued
  <2>1. dispositions[a] = Nobody \/ dispositions[a] \in NoticesOf(a)
    BY DEF QueueInv, DispositionsAreNotices
  <2>2. ASSUME NoticesOf(a) # {} PROVE dispositions[a] # Nobody
    <3>1. PICK t \in ArrivalTopics : \E k \in DOMAIN notices[t] : notices[t][k].arrival = a
      BY <2>2, NoticesMean
    <3>2. boardAt[t] = Len(notices[t]) /\ \A k \in DOMAIN notices[t] : k <= Len(notices[t])
      BY DEF AtRest, Topic, ArrivalTopics, BoardTopics, TopicTypes
    <3>3. QED
      BY <3>1, <3>2 DEF QueueInv, HandledHasDisposition
  <2>3. QED
    BY <2>1, <2>2, BoardConstants DEF Quarantine, Held
<1>4. QED
  BY <1>1, <1>2, <1>3, TopicsTyped, BoardInvariant, PTL DEF Spec


----------------------------------------------------------------------------
(* The board against the topics.  Every row stays with its mark, so a replay that *)
(* inserts or stamps again changes nothing that was shown.                       *)

HandledAreSent == boardAt["assigned"] <= Len(issued) /\ boardAt["alerts"] <= Len(alerts)

FollowInv == BoardFollowsTopics /\ HandledAreSent

(* The rows of old are in new, with the marks they have. *)
RowsKept(old, new) == \A id \in DOMAIN old : id \in DOMAIN new /\ (old[id] # Nobody => new[id] = old[id])

(* An insert keeps every row, and its key is then there. *)
LEMMA InsertKeeps ==
  ASSUME NEW table, NEW key
  PROVE  RowsKept(table, table) /\ RowsKept(table, Insert(table, key)) /\ key \in DOMAIN Insert(table, key)
BY DEF Insert, RowsKept

(* A stamp keeps every row. *)
LEMMA StampKeeps ==
  ASSUME NEW table, NEW key, NEW by
  PROVE  RowsKept(table, Stamp(table, key, by))
BY DEF Stamp, RowsKept

(* Whoever steps, the alerts only grow. *)
LEMMA AlertsGrow ==
  ASSUME TopicTypes, [Next]_deliveryVars
  PROVE  Extends(alerts, alerts')
<1>1. alerts \in Seq([slot : Slots, side : Sides])
  BY DEF TopicTypes
<1>2. Extends(alerts, alerts)
  BY <1>1 DEF Extends
<1>3. ASSUME NEW s \in Slots, NEW d \in Sides, RaiseAlert(s, d) PROVE Extends(alerts, alerts')
  <2>1. [slot |-> s, side |-> d] \in [slot : Slots, side : Sides]
    OBVIOUS
  <2>2. QED
    BY <1>1, <1>3, <2>1, AppendFacts DEF RaiseAlert
<1>4. alerts' = alerts \/ \E s \in Slots, d \in Sides : RaiseAlert(s, d)
  BY DEF Next, deliveryVars, Dispatch, Notify, feedVars
<1>5. QED
  BY <1>2, <1>3, <1>4

(* The tables change by an insert or a stamp, if at all. *)
LEMMA TablesStep ==
  ASSUME [Next]_deliveryVars
  PROVE  /\ \/ UNCHANGED shown
            \/ ProjectAssignment /\ shown' = Insert(shown, boardAt["assigned"] + 1)
            \/ ProjectSuperseded /\ \E v : v = NextMessage("superseded") /\ shown' = Stamp(shown, v.id, v.by)
         /\ \/ UNCHANGED alertRows
            \/ ProjectAlert /\ \E m : m = NextMessage("alerts") /\ alertRows' = Insert(alertRows, <<m.slot, m.side>>)
            \/ \E r \in Reviewers, id \in DOMAIN alertRows : alertRows' = Stamp(alertRows, id, r)
<1> USE DEF boardVars, projectionVars
<1>1. CASE UNCHANGED boardVars
  BY <1>1
<1>2. CASE Project
  BY <1>2 DEF Project, ProjectAssignment, ProjectSuperseded, ProjectAlert, ProjectClassified
<1>3. CASE (\E t \in BoardTopics : Skip(t)) \/ BoardCommit \/ ProjectorStops \/ BoardCrash
  BY <1>3 DEF Skip, BoardCommit, ProjectorStops, BoardCrash
<1>4. CASE Request(quota.underReview)
  BY <1>4 DEF Request, RecordReview, PublishDecision, PublishFails, AcknowledgeAlert
<1>5. QED
  BY <1>1, <1>2, <1>3, <1>4, BoardParts DEF BoardNext

(* So they keep what they show. *)
LEMMA TablesKept ==
  ASSUME [Next]_deliveryVars
  PROVE  RowsKept(shown, shown') /\ RowsKept(alertRows, alertRows')
<1>1. /\ UNCHANGED shown \/ (\E k : shown' = Insert(shown, k)) \/ (\E k, by : shown' = Stamp(shown, k, by))
      /\ \/ UNCHANGED alertRows
         \/ \E k : alertRows' = Insert(alertRows, k)
         \/ \E k, by : alertRows' = Stamp(alertRows, k, by)
  BY TablesStep
<1>2. QED
  BY <1>1, InsertKeeps, StampKeeps

(* What an auditor is shown stays: rows are not taken off the board, nor marks    *)
(* altered, by replays and by requests (ProjectAssignment, AcknowledgeAlert).    *)
THEOREM MarksAreKept == Spec => MarksStay
<1> DEFINE Kept == /\ \A id \in DOMAIN shown : id \in DOMAIN shown' /\ (shown[id] # Nobody => shown'[id] = shown[id])
                   /\ \A id \in DOMAIN alertRows :
                        id \in DOMAIN alertRows' /\ (alertRows[id] # Nobody => alertRows'[id] = alertRows[id])
<1>1. [Next]_deliveryVars => [Kept]_projectionVars
  BY TablesKept DEF RowsKept
<1>2. QED
  BY <1>1, PTL DEF Spec, MarksStay

(* What was handled is on the board, whoever steps. *)
LEMMA FollowStep ==
  ASSUME TopicTypes, BoardTypes, FollowInv, [Next]_deliveryVars
  PROVE  FollowInv'
<1> USE DEF FollowInv
<1>0. /\ TopicTypes' /\ Extends(issued, issued') /\ Extends(voids, voids') /\ Extends(alerts, alerts')
      /\ issued \in Seq(Assignment) /\ voids \in Seq(VoidMessage) /\ alerts \in Seq([slot : Slots, side : Sides])
      /\ issued' \in Seq(Assignment) /\ voids' \in Seq(VoidMessage) /\ alerts' \in Seq([slot : Slots, side : Sides])
  BY TopicsStep, AlertsGrow DEF TopicTypes
<1>1. /\ boardAt \in [BoardTopics -> Nat] /\ boardDone \in [BoardTopics -> Nat]
      /\ {"assigned", "superseded", "alerts"} \subseteq BoardTopics
      /\ \A t \in BoardTopics : boardAt[t] \in Nat /\ boardDone[t] \in Nat /\ boardDone[t] <= boardAt[t]
  BY DEF BoardTypes, BoardTopics
<1>2. /\ DOMAIN shown \subseteq DOMAIN shown' /\ DOMAIN alertRows \subseteq DOMAIN alertRows'
      /\ skipped \subseteq skipped'
  <2>1. skipped \subseteq skipped'
    BY BoardParts DEF boardVars, consumerVars, reviewVars, BoardNext, Project, ProjectAssignment, ProjectSuperseded,
       ProjectAlert, ProjectClassified, Handled, Skip, BoardCommit, ProjectorStops, BoardCrash, Request, RecordReview,
       PublishDecision, PublishFails, AcknowledgeAlert
  <2>2. QED
    BY <2>1, TablesKept DEF RowsKept
<1>3. \A id \in DOMAIN shown' :
        shown'[id] # Nobody => \E j \in DOMAIN voids' : voids'[j].id = id /\ voids'[j].by = shown'[id]
  <2>1. ASSUME NEW id \in DOMAIN shown, shown'[id] = shown[id], shown'[id] # Nobody
        PROVE  \E j \in DOMAIN voids' : voids'[j].id = id /\ voids'[j].by = shown'[id]
    BY <1>0, <2>1 DEF BoardFollowsTopics, Extends
  <2>2. CASE UNCHANGED shown \/ (ProjectAssignment /\ shown' = Insert(shown, boardAt["assigned"] + 1))
    BY <2>1, <2>2 DEF Insert
  <2>3. CASE ProjectSuperseded /\ \E v : v = NextMessage("superseded") /\ shown' = Stamp(shown, v.id, v.by)
    <3>1. boardAt["superseded"] + 1 \in DOMAIN voids
      BY <1>0, <1>1, <2>3 DEF ProjectSuperseded, Handled, Topic
    <3>2. NextMessage("superseded") = voids[boardAt["superseded"] + 1]
      BY DEF NextMessage, Topic
    <3>3. PICK j \in DOMAIN voids' : shown' = Stamp(shown, voids'[j].id, voids'[j].by)
      BY <1>0, <2>3, <3>1, <3>2 DEF Extends
    <3>4. QED
      BY <2>1, <3>3 DEF Stamp
  <2>4. \/ UNCHANGED shown
        \/ ProjectAssignment /\ shown' = Insert(shown, boardAt["assigned"] + 1)
        \/ ProjectSuperseded /\ \E v : v = NextMessage("superseded") /\ shown' = Stamp(shown, v.id, v.by)
    BY TablesStep
  <2>5. QED
    BY <2>2, <2>3, <2>4
<1>4. \/ boardAt' = boardAt \/ boardAt' = boardDone \/ ProjectAssignment \/ ProjectAlert
      \/ \E t \in BoardTopics : Skip(t)
      \/ \E t \in BoardTopics \ {"assigned", "alerts"} : boardAt' = [boardAt EXCEPT ![t] = @ + 1]
  BY BoardParts DEF boardVars, consumerVars, reviewVars, BoardNext, Project, ProjectSuperseded, ProjectClassified,
     Handled, BoardCommit, ProjectorStops, BoardCrash, Request, RecordReview, PublishDecision, PublishFails, AcknowledgeAlert,
     BoardTopics, ArrivalTopics
<1> DEFINE old == boardAt["assigned"]
           new == boardAt'["assigned"]
           oldAlert == boardAt["alerts"]
           newAlert == boardAt'["alerts"]
<1>5. /\ new \in Nat
      /\ \/ new <= old
         \/ new = old + 1 /\ old < Len(issued) /\ (new \in DOMAIN shown' \/ <<"assigned", new>> \in skipped')
  <2>1. CASE ProjectAssignment
    <3>1. new = old + 1 /\ old < Len(issued) /\ shown' = Insert(shown, new)
      BY <1>1, <2>1 DEF ProjectAssignment, Handled, Topic
    <3>2. QED
      BY <1>1, <3>1, InsertKeeps
  <2>2. ASSUME NEW t \in BoardTopics, Skip(t)
        PROVE  new = old \/ (new = old + 1 /\ old < Len(issued) /\ <<"assigned", new>> \in skipped')
    <3>1. CASE t = "assigned"
      BY <1>1, <2>2, <3>1 DEF Skip, Topic
    <3>2. CASE t # "assigned"
      <4>1. boardAt' = [boardAt EXCEPT ![t] = @ + 1]
        BY <2>2 DEF Skip
      <4>2. boardAt'["assigned"] = boardAt["assigned"]
        BY <1>1, <3>2, <4>1
      <4>3. QED
        BY <4>2
    <3>3. QED
      BY <3>1, <3>2
  <2>3. CASE \E t \in BoardTopics \ {"assigned", "alerts"} : boardAt' = [boardAt EXCEPT ![t] = @ + 1]
    BY <1>1, <2>3
  <2>4. CASE ProjectAlert
    BY <1>1, <2>4 DEF ProjectAlert, Handled
  <2>5. CASE boardAt' = boardAt \/ boardAt' = boardDone
    BY <1>1, <2>5
  <2> HIDE DEF old, new
  <2>6. old \in Nat
    BY <1>1 DEF old
  <2>7. CASE \E t \in BoardTopics : Skip(t)
    BY <2>2, <2>6, <2>7
  <2>8. QED
    BY <1>4, <2>1, <2>3, <2>4, <2>5, <2>7
<1>6. /\ newAlert \in Nat
      /\ \/ newAlert <= oldAlert
         \/ /\ newAlert = oldAlert + 1 /\ oldAlert < Len(alerts)
            /\ <<alerts[newAlert].slot, alerts[newAlert].side>> \in DOMAIN alertRows' \/ <<"alerts", newAlert>> \in skipped'
  <2>1. CASE ProjectAlert
    <3>1. newAlert = oldAlert + 1 /\ oldAlert < Len(alerts)
      BY <1>1, <2>1 DEF ProjectAlert, Handled, Topic
    <3>2. alertRows' = Insert(alertRows, <<alerts[oldAlert + 1].slot, alerts[oldAlert + 1].side>>)
      BY <2>1 DEF ProjectAlert, NextMessage, Topic
    <3>3. QED
      BY <1>1, <3>1, <3>2, InsertKeeps
  <2>2. ASSUME NEW t \in BoardTopics, Skip(t)
        PROVE  newAlert = oldAlert \/ (newAlert = oldAlert + 1 /\ oldAlert < Len(alerts) /\ <<"alerts", newAlert>> \in skipped')
    <3>1. CASE t = "alerts"
      BY <1>1, <2>2, <3>1 DEF Skip, Topic
    <3>2. CASE t # "alerts"
      <4>1. boardAt' = [boardAt EXCEPT ![t] = @ + 1]
        BY <2>2 DEF Skip
      <4>2. boardAt'["alerts"] = boardAt["alerts"]
        BY <1>1, <3>2, <4>1
      <4>3. QED
        BY <4>2
    <3>3. QED
      BY <3>1, <3>2
  <2>3. CASE \E t \in BoardTopics \ {"assigned", "alerts"} : boardAt' = [boardAt EXCEPT ![t] = @ + 1]
    BY <1>1, <2>3
  <2>4. CASE ProjectAssignment
    BY <1>1, <2>4 DEF ProjectAssignment, Handled
  <2>5. CASE boardAt' = boardAt \/ boardAt' = boardDone
    BY <1>1, <2>5
  <2> HIDE DEF oldAlert, newAlert
  <2>6. oldAlert \in Nat
    BY <1>1 DEF oldAlert
  <2>7. CASE \E t \in BoardTopics : Skip(t)
    BY <2>2, <2>6, <2>7
  <2>8. QED
    BY <1>4, <2>1, <2>3, <2>4, <2>5, <2>7
<1>7. old \in Nat /\ oldAlert \in Nat /\ old <= Len(issued) /\ oldAlert <= Len(alerts)
  BY <1>1 DEF HandledAreSent
<1>8. \A id \in DOMAIN issued : id <= old => id \in DOMAIN shown \/ <<"assigned", id>> \in skipped
  BY DEF BoardFollowsTopics
<1>9. \A k \in DOMAIN alerts :
        k <= oldAlert => <<alerts[k].slot, alerts[k].side>> \in DOMAIN alertRows \/ <<"alerts", k>> \in skipped
  BY DEF BoardFollowsTopics
<1>10. /\ DOMAIN issued = 1 .. Len(issued) /\ DOMAIN issued' = 1 .. Len(issued') /\ Len(issued) <= Len(issued')
       /\ DOMAIN alerts = 1 .. Len(alerts) /\ DOMAIN alerts' = 1 .. Len(alerts') /\ Len(alerts) <= Len(alerts')
       /\ Len(issued) \in Nat /\ Len(issued') \in Nat /\ Len(alerts) \in Nat /\ Len(alerts') \in Nat
       /\ \A k \in DOMAIN alerts : alerts'[k] = alerts[k]
  BY <1>0 DEF Extends
<1>11. HandledAreSent' <=> new <= Len(issued') /\ newAlert <= Len(alerts')
  BY DEF HandledAreSent
<1>12. BoardFollowsTopics' <=>
         /\ \A id \in DOMAIN issued' : id <= new => id \in DOMAIN shown' \/ <<"assigned", id>> \in skipped'
         /\ \A k \in DOMAIN alerts' :
              k <= newAlert => <<alerts'[k].slot, alerts'[k].side>> \in DOMAIN alertRows' \/ <<"alerts", k>> \in skipped'
  BY <1>3 DEF BoardFollowsTopics
<1> HIDE DEF old, new, oldAlert, newAlert
<1>13. ASSUME NEW id \in DOMAIN issued', id <= new
       PROVE  id \in DOMAIN shown' \/ <<"assigned", id>> \in skipped'
  <2>1. id \in Nat \ {0} /\ (id <= old => id \in DOMAIN issued)
    BY <1>7, <1>10
  <2>2. id <= old \/ (id = new /\ new > old)
    BY <1>5, <1>7, <1>13, <2>1
  <2>3. CASE id <= old
    BY <1>2, <1>8, <2>1, <2>3
  <2>4. CASE id = new /\ new > old
    BY <1>5, <1>7, <2>4
  <2>5. QED
    BY <2>2, <2>3, <2>4
<1>14. ASSUME NEW k \in DOMAIN alerts', k <= newAlert
       PROVE  <<alerts'[k].slot, alerts'[k].side>> \in DOMAIN alertRows' \/ <<"alerts", k>> \in skipped'
  <2>1. k \in Nat \ {0} /\ (k <= oldAlert => k \in DOMAIN alerts)
    BY <1>7, <1>10
  <2>2. k <= oldAlert \/ (k = newAlert /\ newAlert > oldAlert)
    BY <1>6, <1>7, <1>14, <2>1
  <2>3. CASE k <= oldAlert
    BY <1>2, <1>9, <1>10, <2>1, <2>3
  <2>4. CASE k = newAlert /\ newAlert > oldAlert
    <3>1. newAlert = oldAlert + 1 /\ oldAlert < Len(alerts)
      BY <1>6, <1>7, <2>4
    <3>2. k \in DOMAIN alerts
      BY <1>7, <1>10, <2>4, <3>1
    <3>3. QED
      BY <1>6, <1>7, <1>10, <2>4, <3>2
  <2>5. QED
    BY <2>2, <2>3, <2>4
<1>15. HandledAreSent'
  BY <1>5, <1>6, <1>7, <1>10, <1>11
<1>16. QED
  BY <1>12, <1>13, <1>14, <1>15

(* Commits, crashes and replays leave no handled assignment or alert off the      *)
(* board that its own projection did not lose, and no withdrawal on it that did   *)
(* not happen (Consume, Projector).                                              *)
THEOREM BoardFollows == Spec => []BoardFollowsTopics
<1>1. Init => FollowInv
  BY DEF Init, LedgerInit, BoardInit, FollowInv, HandledAreSent, BoardFollowsTopics, BoardTopics
<1>2. TopicTypes /\ BoardTypes /\ FollowInv /\ [Next]_deliveryVars => FollowInv'
  BY FollowStep
<1>3. FollowInv => BoardFollowsTopics
  BY DEF FollowInv
<1>4. QED
  BY <1>1, <1>2, <1>3, TopicsTyped, BoardInvariant, PTL DEF Spec

=============================================================================
