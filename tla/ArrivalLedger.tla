--------------------------- MODULE ArrivalLedger ---------------------------
(***************************************************************************)
(* What Portwatch promises those who read hm.arrivals.raw, the arrival     *)
(* table and the object store (go/internal/arrival/processor.go,           *)
(* dedupe.go): bytes are stored before there is a row for them; a row is   *)
(* written once, under a new id and for a file, by content and name, that  *)
(* has none; neither is ever changed or removed; and only rows are         *)
(* announced, each at most once.  A row whose process died may stay        *)
(* unannounced, and stored bytes may stay without a row.                   *)
(***************************************************************************)
EXTENDS Naturals, Sequences

VARIABLES
  stored,      \* the object store: [id, sha]
  recorded,    \* the arrival table: [id, sha, name]
  announced    \* hm.arrivals.raw

intakeVars == <<stored, recorded, announced>>

IntakeInit == stored = {} /\ recorded = {} /\ announced = <<>>

StoreBytes ==
  /\ \E object \in stored' :
       /\ \A o \in stored : o.id # object.id
       /\ stored' = stored \cup {object}
  /\ UNCHANGED <<recorded, announced>>

RecordRow ==
  /\ \E row \in recorded' :
       /\ [id |-> row.id, sha |-> row.sha] \in stored
       /\ \A r \in recorded : r.id # row.id /\ (r.sha # row.sha \/ r.name # row.name)
       /\ recorded' = recorded \cup {row}
  /\ UNCHANGED <<stored, announced>>

Announce ==
  /\ \E row \in recorded :
       /\ \A i \in DOMAIN announced : announced[i] # row
       /\ announced' = Append(announced, row)
  /\ UNCHANGED <<stored, recorded>>

IntakeNext == StoreBytes \/ RecordRow \/ Announce

IntakeSpec == IntakeInit /\ [][IntakeNext]_intakeVars
=============================================================================
