----------------------------- MODULE MCNetwork -----------------------------
(* The network worker on a coarse clock: half a check interval is one unit. *)
EXTENDS Network

\* Immediately, and then ever later.
Schedule == <<0, 1, 3, 5>>
=============================================================================
