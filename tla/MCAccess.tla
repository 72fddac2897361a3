------------------------------ MODULE MCAccess ------------------------------
(* Who may sign in and operate, what operators refund, and the run that     *)
(* closes ended periods: parts that share no modelled row, one at a time by *)
(* the choice of focus in the initial state.                                *)
EXTENDS PhoneCodes, EmailAccess, OperatorAccess, RefundIntents, MCPeriodClosing

VARIABLE focus

accountVars == <<phoneVars, emailVars, operatorVars>>
moneyVars == <<refundVars, closingVars>>

AccessInit ==
  /\ focus \in 1 .. 5
  /\ PhonesInit /\ EmailInit /\ OperatorsInit /\ RefundsInit /\ ClosingInit

AccessNext ==
  /\ UNCHANGED focus
  /\ \/ focus = 1 /\ PhonesNext /\ UNCHANGED <<emailVars, operatorVars, moneyVars>>
     \/ focus = 2 /\ EmailNext /\ UNCHANGED <<phoneVars, operatorVars, moneyVars>>
     \/ focus = 3 /\ OperatorsNext /\ UNCHANGED <<phoneVars, emailVars, moneyVars>>
     \/ focus = 4 /\ RefundsNext /\ UNCHANGED <<accountVars, closingVars>>
     \/ focus = 5 /\ ClosingNext /\ UNCHANGED <<accountVars, refundVars>>

AccessSpec ==
  /\ AccessInit /\ [][AccessNext]_<<accountVars, moneyVars, focus>>
  /\ \A c \in Closers : WF_closingVars(focus = 5 /\ CloserStep(c))
==============================================================================
