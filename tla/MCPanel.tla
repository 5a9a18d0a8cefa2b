------------------------------ MODULE MCPanel ------------------------------
(* One copy the user starts, and the two that consents or the user start.    *)
EXTENDS Panel, TLC

CONSTANTS p1, p2, p3

SomeCopies == {p1, p2, p3}
=============================================================================
