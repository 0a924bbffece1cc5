---------------------------- MODULE MCAuditChain ----------------------------
(* Instances of AuditChain for TLC. *)
EXTENDS AuditChain

CONSTANTS portwatch, berthmaster

(* Writers on one host share its clock. *)
OneClock == [w \in Writers |-> 0]
=============================================================================
