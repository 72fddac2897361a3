---------------------------- MODULE PaymentPromise ----------------------------
(***************************************************************************)
(* What TROTXI promises a rider about each purchase, whatever happens to   *)
(* webhooks, offers, pauses and refunds.                                   *)
(*                                                                         *)
(*   none -> asked -> served -> ended                                      *)
(*             |        |         |                                        *)
(*             |        +---------+-> unwound   (all cash went back)       *)
(*             +-> dropped -> claimed           (collected, never served)  *)
(*             +------------> claimed                                      *)
(***************************************************************************)
CONSTANT Purchases
VARIABLE stage

Stages == {"none", "asked", "served", "ended", "unwound", "dropped", "claimed"}

In(s) == {p \in Purchases : stage[p] = s}
Move(S, s) == [p \in Purchases |-> IF p \in S THEN s ELSE stage[p]]

Init == stage = [p \in Purchases |-> "none"]

(* A new purchase replaces every one that still waited, and the coverage   *)
(* that has ended by then is settled with it.                              *)
Ask(p) ==
  /\ p \in In("none")
  /\ \E over \in SUBSET In("served") :
       stage' = [q \in Purchases |->
         CASE q = p -> "asked"
           [] q \in In("asked") -> "dropped"
           [] q \in over -> "ended"
           [] OTHER -> stage[q]]

Serve(p) == p \in In("asked") /\ stage' = Move({p}, "served")
Drop(S) == S \subseteq In("asked") /\ stage' = Move(S, "dropped")
Claim(p) == p \in In("asked") \cup In("dropped") /\ stage' = Move({p}, "claimed")
End(p) == p \in In("served") /\ stage' = Move({p}, "ended")
Unwind(p) == p \in In("served") \cup In("ended") /\ stage' = Move({p}, "unwound")

Next ==
  \/ \E p \in Purchases : Ask(p) \/ Serve(p) \/ Claim(p) \/ End(p) \/ Unwind(p)
  \/ \E S \in SUBSET Purchases : Drop(S)

Spec == Init /\ [][Next]_stage
===============================================================================
