------------------------------ MODULE MCLimits ------------------------------
(* What stands between a caller and a payment: the limits of a sender, as in *)
(* MCSendLimits, or the PIN, with four requests of one user at once. The two *)
(* share no state, so each behaviour is one of either.                       *)
EXTENDS MCSendLimits, Pin

CONSTANTS a1, a2, a3, a4

VARIABLE part   \* which of the two modules this behaviour is of

MCInit ==
  /\ part \in {"limits", "pin"}
  /\ Init /\ (part = "pin" => policy = [i \in Instance |-> OnePerTwoTicks])
  /\ PinInit

MCNext ==
  \/ part = "limits" /\ Next /\ UNCHANGED <<part, pinVars>>
  \/ part = "pin" /\ PinNext /\ UNCHANGED <<part, vars>>

MCSpec == MCInit /\ [][MCNext]_<<part, vars, pinVars>>
=============================================================================
