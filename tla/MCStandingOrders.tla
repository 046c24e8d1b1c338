-------------------------- MODULE MCStandingOrders --------------------------
(* One schedule, two processes, as in MCSchedules; or the dates of one.    *)
EXTENDS MCSchedules, Calendar

VARIABLE part   \* which of the two modules this behaviour is of

MCInit == part \in {"orders", "dates"} /\ Init /\ CalendarInit

MCNext ==
  \/ part = "orders" /\ Next /\ UNCHANGED <<part, calendarVars>>
  \/ part = "dates" /\ CalendarNext /\ UNCHANGED <<part, vars>>

MCSpec == MCInit /\ [][MCNext]_<<part, vars, calendarVars>>
=============================================================================
