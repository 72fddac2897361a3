----------------------------- MODULE MCServices -----------------------------
(***************************************************************************)
(* The parts of the system that share no state with each other, or only    *)
(* state that no modelled step of the other one changes, in one run: a     *)
(* behaviour picks the part it follows, and the others rest.               *)
(***************************************************************************)
EXTENDS Sessions, ErasureRecovery, Standby, CommuteChanges, Delivery, Scheduler,
        TripPositions

VARIABLE focus
parts == <<sessionVars, erasureVars, standbyVars, commuteVars, deliveryVars,
           schedulerVars, positionVars>>

MCInit ==
  /\ focus \in 1 .. 7
  /\ SessionsInit /\ ErasureInit /\ StandbyInit /\ CommuteInit /\ DeliveryInit
  /\ SchedulerInit /\ PositionsInit

MCNext ==
  /\ UNCHANGED focus
  /\ \/ /\ focus = 1 /\ SessionsNext
        /\ UNCHANGED <<erasureVars, standbyVars, commuteVars>>
        /\ UNCHANGED <<deliveryVars, schedulerVars, positionVars>>
     \/ /\ focus = 2 /\ ErasureNext
        /\ UNCHANGED <<sessionVars, standbyVars, commuteVars>>
        /\ UNCHANGED <<deliveryVars, schedulerVars, positionVars>>
     \/ /\ focus = 3 /\ StandbyNext
        /\ UNCHANGED <<sessionVars, erasureVars, commuteVars>>
        /\ UNCHANGED <<deliveryVars, schedulerVars, positionVars>>
     \/ /\ focus = 4 /\ CommuteNext
        /\ UNCHANGED <<sessionVars, erasureVars, standbyVars>>
        /\ UNCHANGED <<deliveryVars, schedulerVars, positionVars>>
     \/ /\ focus = 5 /\ DeliveryNext
        /\ UNCHANGED <<sessionVars, erasureVars, standbyVars>>
        /\ UNCHANGED <<commuteVars, schedulerVars, positionVars>>
     \/ /\ focus = 6 /\ SchedulerNext
        /\ UNCHANGED <<sessionVars, erasureVars, standbyVars>>
        /\ UNCHANGED <<commuteVars, deliveryVars, positionVars>>
     \/ /\ focus = 7 /\ PositionsNext
        /\ UNCHANGED <<sessionVars, erasureVars, standbyVars>>
        /\ UNCHANGED <<commuteVars, deliveryVars, schedulerVars>>
(* what rests need not be told apart                                      *)
MCView == <<focus, parts[focus]>>

MCSpec == MCInit /\ [][MCNext]_<<focus, parts>>
=============================================================================
