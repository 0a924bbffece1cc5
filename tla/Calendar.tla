------------------------------ MODULE Calendar ------------------------------
(***************************************************************************)
(* Business-day arithmetic (go/internal/registry/registry.go, and the same *)
(* algorithm in python/src/inspector/registry.py) and what the slot        *)
(* machine decides with it: the late-arrival window and the deadline of a  *)
(* value date (go/internal/slot/slot.go).                                  *)
(*                                                                         *)
(* Days are integers.  Berthmaster.tla gives each slot a first and a last  *)
(* accepted day; WindowIsAnInterval is what entitles it to.                *)
(***************************************************************************)
EXTENDS Integers, FiniteSets, FiniteSetsExt

CONSTANTS
  Days,        \* the days a calendar may close; every other day is open
  MaxSteps,    \* how far Next- and PreviousBusinessDay look: 30 in the code
  Windows      \* late windows in use, in business days

ASSUME CalendarAssumption ==
  /\ Days \subseteq Int /\ Days # {} /\ IsFiniteSet(Days)
  /\ MaxSteps \in Nat \ {0}
  /\ Windows \subseteq Nat \ {0}

VARIABLES
  closed,      \* weekends and holidays
  today        \* the day the clock shows

vars == <<closed, today>>

----------------------------------------------------------------------------
IsBusinessDay(d) == d \notin closed

(* Mutant: a business day is its own successor. *)
NextBusinessDaySelf(d) ==
  LET steps == {i \in 0 .. MaxSteps : IsBusinessDay(d + i)}
  IN  IF steps = {} THEN d + MaxSteps ELSE d + Min(steps)

(* Strictly after d; after MaxSteps closed days, the last day looked at. *)
NextBusinessDay(d) ==
  LET steps == {i \in 1 .. MaxSteps : IsBusinessDay(d + i)}
  IN  IF steps = {} THEN d + MaxSteps ELSE d + Min(steps)

PreviousBusinessDay(d) ==
  LET steps == {i \in 1 .. MaxSteps : IsBusinessDay(d - i)}
  IN  IF steps = {} THEN d - MaxSteps ELSE d - Min(steps)

(* The days a walk from d comes to after 0, 1, 2, ... steps. *)
Forward(d) ==
  LET walk[k \in Nat] == IF k = 0 THEN d ELSE NextBusinessDay(walk[k - 1]) IN walk
Back(d) ==
  LET walk[k \in Nat] == IF k = 0 THEN d ELSE PreviousBusinessDay(walk[k - 1]) IN walk

AddBusinessDays(d, n) == IF n >= 0 THEN Forward(d)[n] ELSE Back(d)[-n]

(* Mutant: the walk passes b before it stops. *)
BusinessDaysBetweenPast(a, b) ==
  IF a = b THEN 0
  ELSE IF a < b
  THEN Min({n \in 1 .. b - a + 1 : AddBusinessDays(a, n) > b})
  ELSE -Min({n \in 1 .. a - b + 1 : AddBusinessDays(a, -n) < b})

(* The walk stops at the first step that reaches or passes b; it takes at least  *)
(* one.  The code's cap of 400 steps is beyond every distance considered here.   *)
BusinessDaysBetween(a, b) ==
  IF a = b THEN 0
  ELSE IF a < b
  THEN Min({n \in 1 .. b - a : AddBusinessDays(a, n) >= b})
  ELSE -Min({n \in 1 .. a - b : AddBusinessDays(a, -n) <= b})

(* roll, PRECEDING: what the Inspector does with a date the market was shut. *)
Roll(d) == IF IsBusinessDay(d) THEN d ELSE PreviousBusinessDay(d)

(* Machine.Accepts for value date vd on day t. *)
Accepts(vd, t, w) == AddBusinessDays(t, -w) <= vd /\ vd <= AddBusinessDays(t, w)

(* Mutant: the slot closes a day before its window does. *)
DeadlineDayEarly(vd, w) == AddBusinessDays(vd, w - 1)

(* The day of deadlineFor, at whose 23:59 the slot becomes overdue. *)
DeadlineDay(vd, w) == AddBusinessDays(vd, w)

----------------------------------------------------------------------------
(* The registry is read once, at start; only the clock moves. *)

(* Calendars on which no run of closed days is as long as the search. *)
Calendars == {c \in SUBSET Days : \A d \in Days : \E i \in 0 .. MaxSteps - 1 : d + i \notin c}

Init ==
  /\ closed \in Calendars
  /\ today = Min(Days)

Tick ==
  /\ today < Max(Days)
  /\ today' = today + 1
  /\ UNCHANGED closed

Next == Tick
Spec == Init /\ [][Next]_vars

----------------------------------------------------------------------------
(* Properties *)

BusinessDaysAfter(d, e) == Cardinality({x \in d + 1 .. e : IsBusinessDay(x)})
BusinessDaysBefore(e, d) == Cardinality({x \in e .. d - 1 : IsBusinessDay(x)})

(* Moving n business days lands on an open day with exactly n open days on the   *)
(* way, in either direction and from open and closed days alike.                *)
MovesCountBusinessDays ==
  \A n \in Windows :
    LET e == AddBusinessDays(today, n)
        b == AddBusinessDays(today, -n)
    IN  /\ IsBusinessDay(e) /\ e > today /\ BusinessDaysAfter(today, e) = n
        /\ IsBusinessDay(b) /\ b < today /\ BusinessDaysBefore(b, today) = n

(* A value date is accepted on exactly the days from w business days before it   *)
(* to w business days after it: there is no gap, no file is refused while its    *)
(* slot is still open, and none is accepted once the deadline's day is over      *)
(* (Accepts counts back from the clock, deadlineFor forward from the date).      *)
WindowIsAnInterval ==
  \A w \in Windows : \A vd \in Days :
    Accepts(vd, today, w) <=> AddBusinessDays(vd, -w) <= today /\ today <= DeadlineDay(vd, w)

(* The distance between two days undoes a move, forwards and backwards. *)
DistanceUndoesMove ==
  \A n \in Windows : /\ BusinessDaysBetween(today, AddBusinessDays(today, n)) = n
                     /\ BusinessDaysBetween(today, AddBusinessDays(today, -n)) = -n

(* Rolling a date back to the day the market was last open never takes a file   *)
(* out of the window that its own date was in (the Inspector rolls, Berthmaster  *)
(* refuses).                                                                    *)
RollStaysInWindow ==
  \A w \in Windows : \A vd \in Days : Accepts(vd, today, w) => Accepts(Roll(vd), today, w)
=============================================================================
