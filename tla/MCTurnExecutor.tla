-------------------------- MODULE MCTurnExecutor --------------------------
(* Two sizes of request that cost the same to reserve and differ in tokens,  *)
(* and a third that costs more; two turns of up to three attempts.           *)
EXTENDS TurnExecutor

MCSizes == {"small", "wide", "large"}
MCReservation == [small |-> 1, wide |-> 1, large |-> 2]
MCExposure == [small |-> 1, wide |-> 2, large |-> 2]
=============================================================================
