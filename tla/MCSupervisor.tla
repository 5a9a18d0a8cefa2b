---------------------------- MODULE MCSupervisor ----------------------------
(* The control worker, and two workers that differ in their bodies: the      *)
(* update worker's takes a mutex, marks itself running and polls the         *)
(* supervisor's flag; the IPC worker's does none of these.                   *)
EXTENDS Supervisor

CONSTANTS control, update, ipc

AllWorkers == {control, update, ipc}
MarkingWorkers == {control, update}
LockingWorkers == {update}
HostWorkers == {ipc}

\* To keep the space small the control worker does not fail here, and the IPC
\* worker once; the update worker can fail as often as it is restarted.
FewFaults == [w \in Workers |->
    IF w = control THEN 0 ELSE IF w = ipc THEN 1 ELSE MaxRestarts]
=============================================================================
