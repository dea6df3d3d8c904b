------------------------------ MODULE MCDisagg ------------------------------
(* Instances of module Disagg for TLC. *)
EXTENDS Disagg, TLC

Pages == <<2, 1>>

Scenario(faults_, info_, order_) ==
  [faults |-> faults_, budget |-> 1, info |-> info_, order |-> order_]

All ==
  {Scenario({"crash"}, TRUE, <<1, 2>>),
   Scenario({"timeout", "send"}, TRUE, <<2, 1>>),
   Scenario({"abort_prefill"}, TRUE, <<1, 2>>),
   Scenario({"crash"}, FALSE, <<1, 2>>),
   Scenario({"abort_decode", "fetch"}, FALSE, <<1, 2>>)}
=============================================================================
