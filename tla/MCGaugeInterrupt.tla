-------------------------- MODULE MCGaugeInterrupt --------------------------
(* call_queue holds two, so that it is full at times once main is done. *)
EXTENDS GaugeInterrupt

AfterBoot == {"run"}
=============================================================================
