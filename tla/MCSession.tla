----------------------------- MODULE MCSession -----------------------------
(* The helper, and a caller that may connect and say nothing.                *)
EXTENDS Session

CONSTANTS quiet, helper

SomeCallers == {quiet}
SomeAsks == {"get_status", "enter_maintenance"}
SomeModes == {"NORMAL", "WORKING"}
=============================================================================
