----------------------------- MODULE MCCalendar -----------------------------
(* An instance of Calendar for TLC: nine days that may be open or closed. *)
EXTENDS Calendar

MCDays == 1 .. 9
=============================================================================
