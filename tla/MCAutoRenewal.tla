---------------------------- MODULE MCAutoRenewal ----------------------------
(* One or two runs, two attempts, a period that ends two days from now.     *)
EXTENDS AutoRenewal
==============================================================================
