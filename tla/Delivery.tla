------------------------------ MODULE Delivery ------------------------------
(***************************************************************************)
(* What becomes of Berthmaster's and the Inspector's messages: the ledger  *)
(* of assignments and voids is read by the reconciliation stub and, with   *)
(* the classified arrivals and the alerts, by the control plane.  The      *)
(* producers do what SlotLedger and the topics' contracts allow; `quota`   *)
(* says how much of it a behaviour contains, which of the two readers, that *)
(* share nothing but the topics, are up, and what is under review.         *)
(***************************************************************************)
EXTENDS ReconStub, ControlPlane, FiniteSetsExt

CONSTANTS
  Pairings,   \* the sides an assignment may pair
  Mentioned,  \* the arrivals that voids and the Inspector's messages are about
  Quotas      \* bounds: [issued, voids, notices, alerts, readers, underReview]

ASSUME DeliveryConstants == Pairings \subseteq [Sides -> Arrivals] /\ Mentioned \subseteq Arrivals

VARIABLE quota

deliveryVars == <<ledgerVars, feedVars, quota, stubVars, boardVars>>

Init ==
  /\ LedgerInit /\ StubInit /\ BoardInit
  /\ notices = [t \in ArrivalTopics |-> <<>>]
  /\ alerts = <<>>
  /\ quota \in Quotas

(* Berthmaster *)
Dispatch ==
  /\ \/ \E s \in Slots, side \in Pairings, supersedes \in DOMAIN issued \cup {NoAssignment} :
          Len(issued) < quota.issued /\ Issue(s, side, supersedes)
     \/ \E s \in Slots, id \in DOMAIN issued, by \in Mentioned :
          Len(voids) < quota.voids /\ Void(s, id, by)
  /\ UNCHANGED <<feedVars, quota, stubVars, boardVars>>

RaiseAlert(s, d) ==
  /\ Len(alerts) < quota.alerts
  /\ alerts' = Append(alerts, [slot |-> s, side |-> d])
  /\ UNCHANGED <<ledgerVars, notices, quota, stubVars, boardVars>>

(* The Inspector: topic_for sends what is not dispatched to quarantine. *)
Notify(a, disposition) ==
  /\ Len(notices["classified"]) + Len(notices["quarantined"]) < quota.notices
  /\ LET t == IF disposition = "DISPATCHED" THEN "classified" ELSE "quarantined"
     IN  notices' = [notices EXCEPT ![t] = Append(@, [arrival |-> a, disposition |-> disposition])]
  /\ UNCHANGED <<ledgerVars, alerts, quota, stubVars, boardVars>>

StubUp == "stub" \in quota.readers
BoardUp == "board" \in quota.readers

Next ==
  \/ Dispatch
  \/ \E s \in Slots, d \in Sides : RaiseAlert(s, d)
  \/ \E a \in Mentioned, disposition \in Held \cup {"DISPATCHED"} : Notify(a, disposition)
  \/ StubUp /\ StubNext /\ UNCHANGED <<ledgerVars, feedVars, quota, boardVars>>
  \/ BoardUp /\ BoardNext(quota.underReview) /\ UNCHANGED <<ledgerVars, feedVars, quota, stubVars>>

(* A reader that is up keeps polling and handling, unless its consumer ended. *)
Spec == Init /\ [][Next]_deliveryVars /\ WF_boardVars(BoardUp /\ ProjectAssignment)
StubSpec == /\ Init /\ [][Next]_deliveryVars
            /\ WF_stubVars(StubUp /\ HandleVoid)
            /\ WF_stubVars(StubUp /\ (SkipVoided \/ RunAssignment))
            /\ WF_stubVars(StubUp /\ StubCommit)

----------------------------------------------------------------------------
(* Properties of the readers over time *)

Ids == 1 .. Max({q.issued : q \in Quotas})

(* If the projector does not stop for good, every assignment reaches the board     *)
(* across crashes, stops and replays, unless its projection was skipped           *)
(* (projector.run; Consume returns when a fetch or a commit fails).               *)
EveryAssignmentShown ==
  []<>projecting =>
    \A id \in Ids : BoardUp /\ id \in DOMAIN issued ~> id \in DOMAIN shown \/ <<"assigned", id>> \in skipped

(* controlplane/main.go, run: "a missed projection costs a stale board row until   *)
(* the next replay; blocking the whole consumer on one bad message would cost the *)
(* board entirely"; what is not skipped is shown.                                 *)
BoardIsNotBlocked ==
  \A id \in Ids : BoardUp /\ id \in DOMAIN issued ~> id \in DOMAIN shown \/ <<"assigned", id>> \in skipped

(* Every assignment that is not withdrawn or followed by another is reconciled in *)
(* the end (run_assignment).                                                      *)
EveryAssignmentReconciled ==
  \A id \in Ids : StubUp /\ id \in DOMAIN issued ~>
    \/ \E s \in Slots : reports[s] # NoReport /\ reports[s].id >= id
    \/ \E j \in DOMAIN voids : voids[j].id = id
=============================================================================
