---------------------------- MODULE MCBenchRun ----------------------------
(* A plan of two episodes of two turns, staged one at a time or not at all,  *)
(* in three invocations that may each fail or be killed.                     *)
EXTENDS BenchRun

MCStops == {1, Unlimited}
=============================================================================
