--------------------------- MODULE MCPeriodClosing ---------------------------
(* Four periods.  The malformed one ends first and a dispute may hold the   *)
(* second; the configurations differ in the rider who may leave.            *)
EXTENDS PeriodClosing, TLC

CONSTANTS first, second, third, last

Ending == first :> 0 @@ second :> 1 @@ third :> 1 @@ last :> 2
Ids == first :> 1 @@ second :> 2 @@ third :> 3 @@ last :> 4
==============================================================================
