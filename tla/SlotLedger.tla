----------------------------- MODULE SlotLedger -----------------------------
(***************************************************************************)
(* What Berthmaster promises the consumers of hm.berth.assigned and        *)
(* hm.berth.superseded (go/internal/slot/slot.go, Berthmaster.assign), and *)
(* all they may rely on: an assignment names both sides of its slot; a     *)
(* void names an assignment of its slot that was issued; and an assignment *)
(* that replaces another is issued after the other's void.  A void may be  *)
(* published twice, and an assignment may be issued again without          *)
(* replacing anything when a crash forgot the first.                       *)
(***************************************************************************)
EXTENDS Naturals, Sequences

CONSTANTS Slots, Sides, Arrivals, NoAssignment

VARIABLES
  issued,   \* assignments [slot, side, supersedes]; an id is a place in it
  voids     \* voids [slot, id, by]

ledgerVars == <<issued, voids>>

LedgerInit == issued = <<>> /\ voids = <<>>

Issue(s, side, supersedes) ==
  /\ \/ supersedes = NoAssignment
     \/ \E j \in DOMAIN voids : voids[j].id = supersedes /\ voids[j].slot = s
  /\ issued' = Append(issued, [slot |-> s, side |-> side, supersedes |-> supersedes])
  /\ UNCHANGED voids

Void(s, id, by) ==
  /\ id \in DOMAIN issued /\ issued[id].slot = s
  /\ voids' = Append(voids, [slot |-> s, id |-> id, by |-> by])
  /\ UNCHANGED issued

LedgerNext ==
  \E s \in Slots :
    \/ \E side \in [Sides -> Arrivals], supersedes \in DOMAIN issued \cup {NoAssignment} : Issue(s, side, supersedes)
    \/ \E id \in DOMAIN issued, by \in Arrivals : Void(s, id, by)

LedgerSpec == LedgerInit /\ [][LedgerNext]_ledgerVars
=============================================================================
