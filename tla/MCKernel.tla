------------------------------- MODULE MCKernel -------------------------------
(***************************************************************************)
(* Small instances of the kernel core.  Tasks are numbered as TASK_FS and  *)
(* TASK_SH are in mail.h: 1 serves mail.                                     *)
(***************************************************************************)
EXTENDS Kernel

CONSTANTS m1, m2

MCPrio == [t \in Task |-> IF t = Idle THEN 1 ELSE 2]
MCMsg == {m1, m2}

\* The console is read by a task that also pauses and that 2 may send mail to.
ClientReader == [t \in Task |-> IF t = 2 THEN {1, 3} ELSE {}]
ShReader == {3}

\* Two clients of one server.
TwoClients == [t \in Task |-> IF t \in {2, 3} THEN {1} ELSE {}]
=============================================================================
