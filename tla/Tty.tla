--------------------------------- MODULE Tty ---------------------------------
(***************************************************************************)
(* The console input of kernel/drv/chr/tty.c: the UART interrupt fills     *)
(* chs_buf, the SYS_GETCHS call empties it and sleeps while it is empty.   *)
(***************************************************************************)
EXTENDS Sched, Sequences

CONSTANTS
  ChsBufSize,  \* CHS_BUF_SIZE
  MaxTyped,    \* bound: nobody types while chs_buf holds this many characters
  Reader       \* the tasks whose program calls getchs()

ASSUME TtyAssumption ==
  /\ ChsBufSize \in Nat \ {0}
  /\ MaxTyped \in Nat
  /\ Reader \subseteq Task \ {Idle}

VARIABLES
  chs,        \* chs_buf[0..chs_cnt-1]
  sleep_pid   \* the task to wake, 0 when there is none

ttyVars == <<chs, sleep_pid>>

(***************************************************************************)
(* What uart_recv tells apart: a printable character, carriage return,     *)
(* backspace and escape.  A carriage return is stored as "nl".             *)
(***************************************************************************)
Typed == {"ch", "cr", "bs", "esc"}
Stored == {"ch", "nl"}

TtyInit == chs = <<>> /\ sleep_pid = 0

-----------------------------------------------------------------------------
(***************************************************************************)
(* The line ends at a carriage return and when the buffer is full; only    *)
(* then is the sleeper woken.                                              *)
(***************************************************************************)
EndsLine(c) == c = "cr" \/ Len(chs) >= ChsBufSize

\* Mutant: the sleeper is forgotten before it is woken.
WakeSleeperForgotten ==
  /\ sleep_pid' = 0
  /\ UNCHANGED schedVars

WakeSleeper ==
  IF sleep_pid # 0 \/ state[sleep_pid] = "TS_HANG"
  THEN WakeTask(sleep_pid) /\ sleep_pid' = 0
  ELSE UNCHANGED <<schedVars, sleep_pid>>

Stores(c) ==
  CASE EndsLine(c) -> Append(chs, "nl")
    [] c = "bs" /\ ~EndsLine(c) -> IF chs = <<>> THEN chs ELSE SubSeq(chs, 1, Len(chs) - 1)
    [] c = "esc" /\ ~EndsLine(c) -> chs
    [] c = "ch" /\ ~EndsLine(c) -> Append(chs, c)

(***************************************************************************)
(* uart_recv(): past the end of chs_buf the code keeps storing and         *)
(* counting, and so does the model up to MaxTyped.                         *)
(***************************************************************************)
UartRecv(c) ==
  /\ Len(chs) < MaxTyped
  /\ IF EndsLine(c) THEN WakeSleeper ELSE UNCHANGED <<schedVars, sleep_pid>>
  /\ chs' = Stores(c)
  /\ UNCHANGED swi

-----------------------------------------------------------------------------
(***************************************************************************)
(* sys_getchs() by a task in user code or one that repeats the SWI.  An    *)
(* empty buffer puts the caller to sleep; otherwise the caller takes what  *)
(* there is and the buffer is emptied, whatever the length asked for.      *)
(***************************************************************************)
SysGetchsWait(t) ==
  /\ t \in Reader /\ current_p = t /\ swi[t] \in {"none", "getchs"}
  /\ chs = <<>>
  /\ sleep_pid' = t
  /\ swi' = [swi EXCEPT ![t] = "getchs"]
  /\ Schedule([state EXCEPT ![t] = "TS_HANG"], tick)
  /\ UNCHANGED chs

SysGetchsTake(t) ==
  /\ t \in Reader /\ current_p = t /\ swi[t] \in {"none", "getchs"}
  /\ chs # <<>>
  /\ chs' = <<>>
  /\ swi' = [swi EXCEPT ![t] = "none"]
  /\ UNCHANGED <<schedVars, sleep_pid>>

-----------------------------------------------------------------------------
TtyTypeOK ==
  /\ chs \in Seq(Stored)
  /\ sleep_pid \in Task
=============================================================================
