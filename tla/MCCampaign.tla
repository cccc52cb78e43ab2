----------------------------- MODULE MCCampaign -----------------------------
(* Three trials behind the gate on two threads: t1 and t3 share a model, t1  *)
(* makes up to two requests, the cap holds three at their largest, and t2 is *)
(* billed more than a request may cost.                                      *)
EXTENDS Campaign, TLC

CONSTANTS t1, t2, t3, m1, m2

MCTrials == {t1, t2, t3}
MCOrder == <<t1, t2, t3>>
MCModel == (t1 :> m1) @@ (t2 :> m2) @@ (t3 :> m1)
MCTurns == (t1 :> 2) @@ (t2 :> 1) @@ (t3 :> 1)
MCBills == (t1 :> {2}) @@ (t2 :> {3}) @@ (t3 :> {2})
=============================================================================
