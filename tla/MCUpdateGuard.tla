--------------------------- MODULE MCUpdateGuard ---------------------------
(* Two values of the core and a deadline.                                    *)
EXTENDS UpdateGuard

CONSTANTS noAutoUpdate, noReboot, deadline

SomeOrder == <<noAutoUpdate, noReboot, deadline>>
SomeDeadlines == {deadline}

\* Access is denied to nothing, to a value of the core or to the deadline.
SomeDenials == {{}, {noReboot}, {deadline}}
=============================================================================
