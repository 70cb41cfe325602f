------------------------------- MODULE MCQueue -------------------------------
(***************************************************************************)
(* One server that also pauses and reads the console, and its clients.     *)
(* Each client has one text: client 2 the one that all buffers start with, *)
(* the others another.                                                     *)
(***************************************************************************)
EXTENDS Callers

CONSTANTS m1, m2

\* The server has the longer time slice.
MCPrio == [t \in Task |-> IF t = 1 THEN 2 ELSE 1]
MCMsg == {m1, m2}
Clients == 2..LastPid
OneServer == [t \in Task |-> IF t \in Clients THEN {1} ELSE {}]
TheServer == {1}

OwnText == [t \in Task |-> IF t = 2 THEN m1 ELSE m2]

MCInit == CallersInit /\ text[1] = m1

MCNext ==
  /\ CallersNext
  /\ \A t \in Task : mailto'[t] \notin {None, mailto[t]} => text'[t] = OwnText[t]

MCSpec == MCInit /\ [][MCNext]_callersVars
=============================================================================
