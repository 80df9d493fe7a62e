-------------------------- MODULE MCBusinessCalendar --------------------------
(***************************************************************************)
(* Days of five ticks, two of them working hours; weeks of four days, two  *)
(* of them working days; holidays that make the longest free stretch six   *)
(* days.  Calls start anywhere in the first six days.                      *)
(***************************************************************************)
EXTENDS BusinessCalendar

MCDatetimes == 0..29
MCAmounts   == {-1} \cup 0..7
=============================================================================
