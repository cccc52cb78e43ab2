------------------------- MODULE MCProviderEpisode -------------------------
(* Two calls of one attempt each, of one size or two, under a cap that two    *)
(* large requests reach and an overrun passes.                                *)
EXTENDS ProviderEpisode

MCSizes == {"small", "large"}
MCReservation == [small |-> 1, large |-> 2]
MCExposure == [small |-> 1, large |-> 2]
=============================================================================
