--------------------------- MODULE MCEventSeries ---------------------------
(* The life of a series, and the dates its recurrence gives it.  EventSeries  *)
(* keeps to a fixed step and a calendar of a few days; Recurrence has the     *)
(* other cadences and the real calendar: January 2023 (276) to December 2025  *)
(* (311), with first days at the turn of 2023, in the leap February of 2024   *)
(* and on the 31st of months of which the next has 30 days.  A behaviour is   *)
(* the life of a series, or one recurrence, or one RRULE.                     *)
EXTENDS EventSeries, Recurrence

OneRule  == asked = [start |-> 8766, rule |-> Periodic("weekly"), count |-> 1]
OneRRule == read = RRule("DAILY", 1, {}, 0, 0)

MCInit == Init /\ (OneRule \/ OneRRule) /\ RecurrenceInit
MCNext == Next /\ OneRule /\ OneRRule /\ UNCHANGED recurrence
MCSpec == MCInit /\ [][MCNext]_<<vars, recurrence>>
MCFairSpec == MCSpec /\ Fairness
=============================================================================
