----------------------------- MODULE ReconStub -----------------------------
(***************************************************************************)
(* The reconciliation stub (python/src/reconstub/main.py): it consumes the *)
(* two topics of SlotLedger, compares the canonical files an assignment    *)
(* names and writes one report per slot over the last one.  The voids it   *)
(* has seen are kept in memory only.  The broker, as python/src/inspector  *)
(* /bus.py describes it, orders each topic and neither against the other,  *)
(* and commits offsets only after a handler returned.                      *)
(***************************************************************************)
EXTENDS SlotLedger, Integers, FiniteSets

CONSTANTS
  Content,      \* per arrival, the rows of its canonical file
  Named,        \* arrivals whose SideRef carries the canonical_uri of an existing file
  Fields,       \* COMPARED_FIELDS
  Null,         \* None
  Texts,        \* values that are no decimal
  Blank,        \* the empty text
  MaxStubCrashes

(* Ids count from 1; a compared value is an amount, a text or None. *)
ASSUME StubConstants ==
  /\ {"INTERNAL_GL", "EXTERNAL_CLIENT"} \subseteq Sides
  /\ NoAssignment \notin Nat \ {0}
  /\ \A a \in Arrivals :
       /\ DOMAIN Content[a] \subseteq Nat
       /\ \A i \in DOMAIN Content[a], f \in Fields :
            Content[a][i].value[f] \in Texts \cup {Null} \/ Content[a][i].value[f] \in Int

VARIABLES
  voided,       \* ids of the voids handled since the process started
  stubAt,       \* messages handled, per topic
  stubDone,     \* committed offsets, per topic
  reports,      \* per slot, the report file
  stubCrashes

stubVars == <<voided, stubAt, stubDone, reports, stubCrashes>>

StubTopics == {"assigned", "superseded"}

(* The slot has no report file. *)
NoReport == [id |-> NoAssignment, breaks |-> {}]

----------------------------------------------------------------------------
(* reconcile.  A row is [key, value], value a function from Fields; amounts *)
(* count half cents, so TOLERANCE is 2, and anything else is a text.         *)

Tolerance == 2

(* dict comprehension: the last row of a key is the one kept. *)
ByKey(rows) ==
  [k \in {rows[i].key : i \in DOMAIN rows} |->
     rows[CHOOSE i \in DOMAIN rows : rows[i].key = k /\ \A j \in DOMAIN rows : rows[j].key = k => j <= i].value]

IsDecimal(v) == v \notin Texts \cup {Null}
Text(v) == IF v = Null THEN Blank ELSE v

(* Mutant: a missing amount counts as zero. *)
DiffersZero(a, b) ==
  LET z(v) == IF v = Null THEN 0 ELSE v
      d == z(a) - z(b)
  IN  IF IsDecimal(z(a)) /\ IsDecimal(z(b)) THEN d > Tolerance \/ -d > Tolerance ELSE z(a) # z(b)

Differs(a, b) ==
  IF a = Null /\ b = Null THEN FALSE
  ELSE IF IsDecimal(a) /\ IsDecimal(b) THEN a - b > Tolerance \/ b - a > Tolerance
  ELSE IF IsDecimal(a) \/ IsDecimal(b) THEN TRUE   \* a number's text is no other value's
  ELSE Text(a) # Text(b)

Reconcile(side1, side2) ==
  LET left == ByKey(side1)
      right == ByKey(side2)
  IN  {<<"MISSING_SIDE_2", k>> : k \in DOMAIN left \ DOMAIN right}
      \cup {<<"MISSING_SIDE_1", k>> : k \in DOMAIN right \ DOMAIN left}
      \cup {b \in {"VALUE_MISMATCH"} \X (DOMAIN left \cap DOMAIN right) \X Fields :
              Differs(left[b[2]][b[3]], right[b[2]][b[3]])}

----------------------------------------------------------------------------
(* The process *)

StubInit ==
  /\ voided = {}
  /\ stubAt = [t \in StubTopics |-> 0]
  /\ stubDone = [t \in StubTopics |-> 0]
  /\ reports = [s \in Slots |-> NoReport]
  /\ stubCrashes = 0

HandleVoid ==
  /\ stubAt["superseded"] < Len(voids)
  /\ voided' = voided \cup {voids[stubAt["superseded"] + 1].id}
  /\ stubAt' = [stubAt EXCEPT !["superseded"] = @ + 1]
  /\ UNCHANGED <<stubDone, reports, stubCrashes>>

(* The next assignment, and whether load_canonical finds both of its files. *)
NextId == stubAt["assigned"] + 1
Loads(a) == \A d \in Sides : a.side[d] \in Named

SkipVoided ==
  /\ NextId \in DOMAIN issued /\ NextId \in voided
  /\ stubAt' = [stubAt EXCEPT !["assigned"] = @ + 1]
  /\ UNCHANGED <<voided, stubDone, reports, stubCrashes>>

RunAssignment ==
  /\ NextId \in DOMAIN issued /\ NextId \notin voided /\ Loads(issued[NextId])
  /\ LET a == issued[NextId]
     IN  reports' = [reports EXCEPT ![a.slot] =
                      [id |-> NextId, breaks |-> Reconcile(Content[a.side["INTERNAL_GL"]],
                                                           Content[a.side["EXTERNAL_CLIENT"]])]]
  /\ stubAt' = [stubAt EXCEPT !["assigned"] = @ + 1]
  /\ UNCHANGED <<voided, stubDone, stubCrashes>>

(* A new process starts from the committed offsets and an empty set. *)
StubRestart ==
  /\ stubAt' = stubDone
  /\ voided' = {}
  /\ UNCHANGED <<stubDone, reports>>

(* handle raises, on a SideRef without canonicalUri or a file that is not there. *)
RaiseOnLoad ==
  /\ NextId \in DOMAIN issued /\ NextId \notin voided /\ ~Loads(issued[NextId])
  /\ StubRestart
  /\ UNCHANGED stubCrashes

StubCrash ==
  /\ stubCrashes < MaxStubCrashes
  /\ StubRestart
  /\ stubCrashes' = stubCrashes + 1

(* Mutant: offsets are committed when a batch is fetched. *)
StubCommitAhead ==
  /\ stubDone' = [stubAt EXCEPT !["assigned"] = Len(issued)]
  /\ stubDone' # stubDone
  /\ UNCHANGED <<voided, stubAt, reports, stubCrashes>>

StubCommit ==
  /\ stubDone # stubAt
  /\ stubDone' = stubAt
  /\ UNCHANGED <<voided, stubAt, reports, stubCrashes>>

StubNext == HandleVoid \/ SkipVoided \/ RunAssignment \/ RaiseOnLoad \/ StubCrash \/ StubCommit

----------------------------------------------------------------------------
(* Properties *)

(* When the stub has handled all there is, crashes, replays and the order of its   *)
(* two topics notwithstanding, the report of a slot is that of its last            *)
(* assignment, unless that one was voided in turn (handle, ADR-005).               *)
LatestIsReported ==
  stubAt["assigned"] = Len(issued) /\ stubAt["superseded"] = Len(voids) =>
    \A id \in DOMAIN issued :
      \/ \E later \in DOMAIN issued : later > id /\ issued[later].slot = issued[id].slot
      \/ \E j \in DOMAIN voids : voids[j].id = id
      \/ reports[issued[id].slot] # NoReport /\ reports[issued[id].slot].id = id

UniqueKeys(rows) == \A i, j \in DOMAIN rows : rows[i].key = rows[j].key => i = j

(* Two values are equal up to one cent, or are the same text. *)
Close(v, w) ==
  \/ {v, w} \subseteq Texts \cup {Null} /\ Text(v) = Text(w)
  \/ {v, w} \cap (Texts \cup {Null}) = {} /\ v - w \in -2 .. 2

(* Every row of p has a counterpart in q. *)
Answered(p, q) ==
  \A i \in DOMAIN p : \E j \in DOMAIN q :
    p[i].key = q[j].key /\ \A f \in Fields : Close(p[i].value[f], q[j].value[f])

(* A report without breaks means that the two files agree: every row of one has a *)
(* counterpart in the other, present where it is present and equal up to one cent *)
(* in every compared field (reconcile).  Files that repeat a join key are outside *)
(* this: only the last such row is compared.                                      *)
CleanReportMeansAgreement ==
  \A s \in Slots : reports[s] # NoReport =>
    LET a == issued[reports[s].id]
        x == Content[a.side["INTERNAL_GL"]]
        y == Content[a.side["EXTERNAL_CLIENT"]]
    IN  UniqueKeys(x) /\ UniqueKeys(y) =>
          (reports[s].breaks = {} <=> Answered(x, y) /\ Answered(y, x))
=============================================================================
