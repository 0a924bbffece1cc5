---------------------------- MODULE ControlPlane ----------------------------
(***************************************************************************)
(* The control plane (go/cmd/controlplane/main.go, go/internal/web): one   *)
(* consumer projects five topics into the tables behind the operations     *)
(* board, and HTTP handlers record reviews and acknowledgements.           *)
(*                                                                         *)
(* The consumer polls a batch over all topics, handles it message by       *)
(* message and then commits; topics are not ordered against each other.  A *)
(* projection that fails is logged and passed over; a fetch or a commit    *)
(* that fails ends the consumer, while the handlers go on serving.         *)
(***************************************************************************)
EXTENDS SlotLedger, FiniteSets

CONSTANTS
  Reviewers,       \* people with a request under way
  Nobody,          \* a NULL column
  MaxBoardCrashes,
  MaxSkips         \* projections that fail

(* NULL is no value of its column. *)
ASSUME BoardConstants ==
  /\ Nobody \notin {"DISPATCHED", "QUARANTINED", "REJECTED"}
  /\ Nobody \notin [reviewer : Reviewers, decision : {"APPROVE", "REJECT"}]
  /\ Nobody \notin [arrival : Arrivals, decision : {"APPROVE", "REJECT"}]

VARIABLES
  notices,     \* hm.arrivals.classified and hm.arrivals.quarantined: [arrival, disposition]
  alerts,      \* hm.alerts.missing: [slot, side]
  boardAt,     \* messages handled, per topic
  boardDone,   \* committed offsets, per topic
  shown,       \* table assignment: voided_by of each id on the board
  dispositions,\* table arrival, projected column disposition
  alertRows,   \* table alert: acknowledged_by of each slot and side
  reviews,     \* table review: [reviewer, decision] of an arrival
  requests,    \* postDecision, between the review's INSERT and its publish
  decisions,   \* hm.review.decisions
  skipped,     \* the messages whose projection failed
  projecting,  \* the consumer runs
  boardCrashes

feedVars == <<notices, alerts>>
projectionVars == <<shown, dispositions, alertRows>>
consumerVars == <<boardAt, boardDone, skipped, projecting, boardCrashes>>
reviewVars == <<reviews, requests, decisions>>
boardVars == <<projectionVars, consumerVars, reviewVars>>

Held == {"QUARANTINED", "REJECTED"}
ArrivalTopics == {"classified", "quarantined"}
BoardTopics == ArrivalTopics \cup {"assigned", "superseded", "alerts"}

Topic(t) == CASE t = "assigned" -> issued
              [] t = "superseded" -> voids
              [] t = "alerts" -> alerts
              [] OTHER -> notices[t]

NextMessage(t) == Topic(t)[boardAt[t] + 1]

BoardInit ==
  /\ boardAt = [t \in BoardTopics |-> 0]
  /\ boardDone = [t \in BoardTopics |-> 0]
  /\ shown = <<>>
  /\ dispositions = [a \in Arrivals |-> Nobody]
  /\ alertRows = <<>>
  /\ reviews = [a \in Arrivals |-> Nobody]
  /\ requests = [r \in Reviewers |-> Nobody]
  /\ decisions = <<>>
  /\ skipped = {}
  /\ projecting = TRUE
  /\ boardCrashes = 0

----------------------------------------------------------------------------
(* The projector.  handle also saves the offset in a table that nothing reads *)
(* (projection_offset); the group resumes from the broker's committed offset. *)

Handled(t) ==
  /\ projecting /\ boardAt[t] < Len(Topic(t))
  /\ boardAt' = [boardAt EXCEPT ![t] = @ + 1]
  /\ UNCHANGED <<boardDone, skipped, projecting, boardCrashes, reviewVars>>

(* Mutant: ON CONFLICT DO UPDATE, with the columns of the new row. *)
InsertOver(table, key) == [k \in DOMAIN table \cup {key} |-> IF k = key THEN Nobody ELSE table[k]]

(* INSERT ... ON CONFLICT DO NOTHING *)
Insert(table, key) ==
  IF key \in DOMAIN table THEN table
  ELSE [k \in DOMAIN table \cup {key} |-> IF k = key THEN Nobody ELSE table[k]]

(* UPDATE ... WHERE the column IS NULL *)
Stamp(table, key, by) ==
  IF key \in DOMAIN table /\ table[key] = Nobody THEN [table EXCEPT ![key] = by] ELSE table

ProjectAssignment ==
  /\ Handled("assigned")
  /\ shown' = Insert(shown, boardAt["assigned"] + 1)
  /\ UNCHANGED <<dispositions, alertRows>>

ProjectSuperseded ==
  /\ Handled("superseded")
  /\ LET v == NextMessage("superseded") IN shown' = Stamp(shown, v.id, v.by)
  /\ UNCHANGED <<dispositions, alertRows>>

ProjectAlert ==
  /\ Handled("alerts")
  /\ LET m == NextMessage("alerts") IN alertRows' = Insert(alertRows, <<m.slot, m.side>>)
  /\ UNCHANGED <<shown, dispositions>>

(* Mutant: only hm.arrivals.classified is projected. *)
ProjectClassifiedOnly(t) ==
  /\ Handled(t)
  /\ LET m == NextMessage(t)
     IN  dispositions' = IF t = "classified" THEN [dispositions EXCEPT ![m.arrival] = m.disposition] ELSE dispositions
  /\ UNCHANGED <<shown, alertRows>>

(* Portwatch records the arrival before it publishes it, so the row is there. *)
ProjectClassified(t) ==
  /\ Handled(t)
  /\ LET m == NextMessage(t) IN dispositions' = [dispositions EXCEPT ![m.arrival] = m.disposition]
  /\ UNCHANGED <<shown, alertRows>>

(* A decode or database error: handle returns nil all the same. *)
Skip(t) ==
  /\ projecting /\ boardAt[t] < Len(Topic(t)) /\ Cardinality(skipped) < MaxSkips
  /\ boardAt' = [boardAt EXCEPT ![t] = @ + 1]
  /\ skipped' = skipped \cup {<<t, boardAt[t] + 1>>}
  /\ UNCHANGED <<boardDone, projecting, boardCrashes, reviewVars, projectionVars>>

(* Mutant: the commit covers what was fetched, handled or not. *)
BoardCommitAhead ==
  /\ projecting
  /\ boardDone' = [t \in BoardTopics |-> Len(Topic(t))]
  /\ boardDone' # boardDone
  /\ UNCHANGED <<boardAt, skipped, projecting, boardCrashes, reviewVars, projectionVars>>

(* The batch ends, wherever the poll cut it. *)
BoardCommit ==
  /\ projecting /\ boardDone # boardAt
  /\ boardDone' = boardAt
  /\ UNCHANGED <<boardAt, skipped, projecting, boardCrashes, reviewVars, projectionVars>>

(* A fetch or a commit fails: Consume returns, run logs it and its goroutine ends; *)
(* the server goes on, and nothing but a restart of the process starts it again.   *)
ProjectorStops ==
  /\ projecting
  /\ projecting' = FALSE
  /\ UNCHANGED <<boardAt, boardDone, skipped, boardCrashes, reviewVars, projectionVars>>

(* The process dies with its requests; the group resumes from its commit. *)
BoardCrash ==
  /\ boardCrashes < MaxBoardCrashes
  /\ boardCrashes' = boardCrashes + 1
  /\ boardAt' = boardDone
  /\ projecting' = TRUE
  /\ requests' = [r \in Reviewers |-> Nobody]
  /\ UNCHANGED <<boardDone, skipped, reviews, decisions, projectionVars>>

----------------------------------------------------------------------------
(* Requests *)

(* Mutant: ON CONFLICT DO UPDATE. *)
RecordReviewOver(r, a, d) ==
  /\ requests[r] = Nobody
  /\ reviews' = [reviews EXCEPT ![a] = [reviewer |-> r, decision |-> d]]
  /\ requests' = [requests EXCEPT ![r] = [arrival |-> a, decision |-> d]]
  /\ UNCHANGED <<decisions, projectionVars, consumerVars>>

(* RecordReview, for any arrival Portwatch recorded, whether it waits in the      *)
(* queue, is not classified yet or was dispatched; with a conflict the request    *)
(* ends there (409) and nothing changes.                                          *)
(* CORRECT, the third decision, differs from APPROVE in what it carries.         *)
RecordReview(r, a, d) ==
  /\ requests[r] = Nobody
  /\ reviews[a] = Nobody
  /\ reviews' = [reviews EXCEPT ![a] = [reviewer |-> r, decision |-> d]]
  /\ requests' = [requests EXCEPT ![r] = [arrival |-> a, decision |-> d]]
  /\ UNCHANGED <<decisions, projectionVars, consumerVars>>

PublishDecision(r) ==
  /\ requests[r] # Nobody
  /\ decisions' = Append(decisions, [arrival |-> requests[r].arrival, reviewer |-> r,
                                     decision |-> requests[r].decision])
  /\ requests' = [requests EXCEPT ![r] = Nobody]
  /\ UNCHANGED <<reviews, projectionVars, consumerVars>>

(* 202: saved but not published; nothing publishes it later. *)
PublishFails(r) ==
  /\ requests[r] # Nobody
  /\ requests' = [requests EXCEPT ![r] = Nobody]
  /\ UNCHANGED <<reviews, decisions, projectionVars, consumerVars>>

AcknowledgeAlert(r, id) ==
  /\ id \in DOMAIN alertRows /\ alertRows[id] = Nobody
  /\ alertRows' = Stamp(alertRows, id, r)
  /\ UNCHANGED <<shown, dispositions, consumerVars, reviewVars>>

(* The review queue: held arrivals that nobody has decided. *)
Quarantine == {a \in Arrivals : dispositions[a] \in Held /\ reviews[a] = Nobody}

Project == ProjectAssignment \/ ProjectSuperseded \/ ProjectAlert \/ \E t \in ArrivalTopics : ProjectClassified(t)

(* Bound: the arrivals that people decide on. *)
Request(underReview) ==
  \E r \in Reviewers :
    \/ \E a \in Arrivals, d \in {"APPROVE", "REJECT"} : a \in underReview /\ RecordReview(r, a, d)
    \/ PublishDecision(r) \/ PublishFails(r)
    \/ \E id \in DOMAIN alertRows : AcknowledgeAlert(r, id)

BoardNext(underReview) ==
  Project \/ (\E t \in BoardTopics : Skip(t)) \/ BoardCommit \/ ProjectorStops \/ BoardCrash \/ Request(underReview)

----------------------------------------------------------------------------
(* Properties *)

AtRest == \A t \in BoardTopics : boardAt[t] = Len(Topic(t))

(* The decisions on the bus are the recorded ones, at most one per arrival,       *)
(* whatever two reviewers and a failing bus do (postDecision, FR-32).             *)
PublishedIsRecorded ==
  /\ \A i \in DOMAIN decisions :
       reviews[decisions[i].arrival] = [reviewer |-> decisions[i].reviewer, decision |-> decisions[i].decision]
  /\ \A i, j \in DOMAIN decisions : decisions[i].arrival = decisions[j].arrival => i = j

NoticesOf(a) == UNION {{notices[t][i].disposition : i \in {j \in DOMAIN notices[t] : notices[t][j].arrival = a}} : t \in ArrivalTopics}

(* When the projector has caught up and skipped nothing, an arrival held in every *)
(* part waits in the review queue until it is decided, and one dispatched in      *)
(* every part does not (Quarantine, FR-31).                                       *)
HeldIsQueued ==
  AtRest /\ skipped = {} =>
    \A a \in Arrivals :
      /\ NoticesOf(a) # {} /\ NoticesOf(a) \subseteq Held /\ reviews[a] = Nobody => a \in Quarantine
      /\ NoticesOf(a) \subseteq {"DISPATCHED"} => a \notin Quarantine

(* Through commits, crashes and replays every assignment and alert the projector  *)
(* has passed is on the board unless its projection failed, and what the board    *)
(* shows as withdrawn was withdrawn by that very arrival (Consume, Projector).    *)
BoardFollowsTopics ==
  /\ \A id \in DOMAIN issued :
       id <= boardAt["assigned"] => id \in DOMAIN shown \/ <<"assigned", id>> \in skipped
  /\ \A k \in DOMAIN alerts :
       k <= boardAt["alerts"] => <<alerts[k].slot, alerts[k].side>> \in DOMAIN alertRows \/ <<"alerts", k>> \in skipped
  /\ \A id \in DOMAIN shown :
       shown[id] # Nobody => \E j \in DOMAIN voids : voids[j].id = id /\ voids[j].by = shown[id]

(* No step, be it a replay of the assignment or alert that the mark is on or a    *)
(* second operator's, takes a row off the board or alters the mark of a           *)
(* withdrawal or of an acknowledgement (ProjectAssignment, AcknowledgeAlert).     *)
MarksStay ==
  [][/\ \A id \in DOMAIN shown : id \in DOMAIN shown' /\ (shown[id] # Nobody => shown'[id] = shown[id])
     /\ \A id \in DOMAIN alertRows :
          id \in DOMAIN alertRows' /\ (alertRows[id] # Nobody => alertRows'[id] = alertRows[id])]_projectionVars

(* Once the projector has caught up and skipped nothing, every withdrawn          *)
(* assignment is shown as withdrawn: "a fact an auditor will ask about"           *)
(* (ProjectSuperseded).                                                           *)
VoidIsShown ==
  AtRest /\ skipped = {} => \A j \in DOMAIN voids : shown[voids[j].id] # Nobody
=============================================================================
