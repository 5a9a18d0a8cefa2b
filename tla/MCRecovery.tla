----------------------------- MODULE MCRecovery -----------------------------
(* Recovery on a small machine: every fault of a file operation at any step, *)
(* except writes that reach the disk in part.                                *)
EXTENDS Recovery

WholeRecords == AllFaults \ {"tear"}
=============================================================================
