--------------------------- MODULE MCBerthmaster ---------------------------
(* Instances of Berthmaster for TLC. *)
EXTENDS Berthmaster, TLC

CONSTANTS a1, a2, a3, s1, s2, ghost, o1

(* s1 closes on day 0, s2 on day 1; ghost belongs to no client. *)
MCFirstDay == [s \in Slots |-> 0]
MCLastDay == [s \in Slots |-> IF s = s2 THEN 1 ELSE 0]

Dispatched(as, ss) ==
  [arrival : as, slot : ss, side : Sides, disposition : {"DISPATCHED"}]

(* Corrections and duplicates for one slot. *)
OneSlotMessages == Dispatched(Arrivals, {s1})

(* One file per side of one slot, classified as often as the topic has room. *)
OneFileMessages ==
  [arrival : {a1}, slot : {s1}, side : Sides, disposition : {"DISPATCHED"}]

(* One file per side and one correction, for two slots. *)
TwoSlotMessages ==
  [arrival : {a1}, slot : {s1, s2}, side : Sides, disposition : {"DISPATCHED"}]
  \cup [arrival : {a2}, slot : {s1}, side : {"EXTERNAL_CLIENT"}, disposition : {"DISPATCHED"}]

(* The same, with a file for review and one for a client nobody knows. *)
OddMessages == OneSlotMessages
  \cup [arrival : {a1}, slot : {s1}, side : {"EXTERNAL_CLIENT"}, disposition : {"QUARANTINED"}]
  \cup [arrival : {a1}, slot : {ghost}, side : {"EXTERNAL_CLIENT"}, disposition : {"DISPATCHED"}]

(* Arrival ids are interchangeable. *)
ArrivalSymmetry == Permutations(Arrivals)
=============================================================================
