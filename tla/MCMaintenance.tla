---------------------------- MODULE MCMaintenance ----------------------------
(* Maintenance with two permits: one second below, one inside, one above the *)
(* range a lifetime is clamped to.                                           *)
EXTENDS Maintenance

AskedTtls == {0, 2, 5}
=============================================================================
