---------------------------- MODULE MCStateFile ----------------------------
(* Enough saves and faults to use the last quarantine name twice.            *)
EXTENDS StateFile
=============================================================================
