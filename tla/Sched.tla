-------------------------------- MODULE Sched --------------------------------
(***************************************************************************)
(* The task table and the scheduler of the microkernel: kernel/sched.c and *)
(* the fields of the PCB (include/ecasey/pcb.h) it works on.               *)
(*                                                                         *)
(* The kernel runs with interrupts off and on one processor, so that each  *)
(* interrupt handler and each software interrupt (SWI) is one step.  A     *)
(* handler that calls schedule() or switch_to() after changing other       *)
(* fields passes the changed fields to the actions Schedule and SwitchTo.  *)
(***************************************************************************)
EXTENDS Integers, FiniteSets

CONSTANTS
  LastPid,   \* pids 0..LastPid are in use; pid 0 is the idle task
  Prio,      \* Prio[t]: prio % PL_MAX, the ticks of t's time slice
  Pauser     \* the tasks whose program calls pause()

Idle == 0
Task == 0..LastPid
PL_MAX == 5

(***************************************************************************)
(* init_task gives the idle task prio 1; createp reduces modulo PL_MAX.    *)
(***************************************************************************)
ASSUME PrioAssumption ==
  /\ LastPid \in Nat
  /\ Prio \in [Task -> 0..(PL_MAX - 1)]
  /\ Prio[Idle] = 1
  /\ Pauser \subseteq Task \ {Idle}

VARIABLES
  current_p,  \* the pid of the running task
  state,      \* state[t]: the task state TS_*
  tick,       \* tick[t]: the ticks left of t's slice
  swi         \* swi[t]: the system call t is inside of, "none" in user code

schedVars == <<current_p, state, tick>>

-----------------------------------------------------------------------------
(***************************************************************************)
(* The kernel's own states.  TS_PND (1) is never assigned.                 *)
(***************************************************************************)
TaskState == {"TS_RUN", "TS_SEND", "TS_RECV", "TS_HANG"}

(***************************************************************************)
(* A blocked task resumes inside a call: "sendm" and "pause" return, while *)
(* "recvm" and "getchs" moved the saved pc back and execute the SWI again. *)
(***************************************************************************)
Swi == {"none", "sendm", "recvm", "getchs", "pause"}

-----------------------------------------------------------------------------
(***************************************************************************)
(* The scan of schedule(): it starts from task 0 whatever its state and    *)
(* moves to every later runnable task that has at least as many ticks.     *)
(***************************************************************************)
Candidates(st) == {Idle} \cup {i \in Task : st[i] = "TS_RUN"}

Best(st, tk) ==
  CHOOSE i \in Candidates(st) :
    \A j \in Candidates(st) : tk[j] < tk[i] \/ (tk[j] = tk[i] /\ j =< i)

\* Mutant: the processor is handed to a task that stays blocked.
SwitchToAsleep(st, t) ==
  /\ current_p' = t
  /\ state' = st

(***************************************************************************)
(* switch_to(): the target becomes runnable whatever it was blocked on.    *)
(***************************************************************************)
SwitchTo(st, t) ==
  /\ current_p' = t
  /\ state' = IF t = current_p THEN st ELSE [st EXCEPT ![t] = "TS_RUN"]

\* Mutant: when every runnable task is out of ticks, they are not refilled.
ScheduleNoRefill(st, tk) ==
  /\ tick' = tk
  /\ SwitchTo(st, IF tk[Best(st, tk)] = 0 THEN Idle ELSE Best(st, tk))

(***************************************************************************)
(* schedule(): when the best task has no tick left, every task gets a new  *)
(* slice and the idle task runs until the next interrupt.                  *)
(***************************************************************************)
Schedule(st, tk) ==
  LET spent == tk[Best(st, tk)] = 0
  IN  /\ tick' = IF spent THEN Prio ELSE tk
      /\ SwitchTo(st, IF spent THEN Idle ELSE Best(st, tk))

-----------------------------------------------------------------------------
(***************************************************************************)
(* kernel_start(): the idle task has the processor, the others start TS_RUN.*)
(***************************************************************************)
SchedInit ==
  /\ current_p = Idle
  /\ state = [t \in Task |-> "TS_RUN"]
  /\ tick = Prio
  /\ swi = [t \in Task |-> "none"]

(***************************************************************************)
(* A task in user code, the only place where it issues a SWI.              *)
(***************************************************************************)
InUser(t) == current_p = t /\ swi[t] = "none"

\* Mutant: a task without ticks is charged as well.
ChargedAlways == [tick EXCEPT ![current_p] = @ - 1]

(***************************************************************************)
(* __do_timer0(): charge the running task, then schedule.                  *)
(***************************************************************************)
Charged == IF tick[current_p] > 0
           THEN [tick EXCEPT ![current_p] = @ - 1] ELSE tick

DoTimer0 ==
  /\ Schedule(state, Charged)
  /\ UNCHANGED swi

(***************************************************************************)
(* sys_pause(): sleep_task(current_p).  The idle task never pauses, so the *)
(* caller is TS_RUN and the early return of sleep_task does not happen.    *)
(***************************************************************************)
SysPause(t) ==
  /\ InUser(t) /\ t \in Pauser
  /\ swi' = [swi EXCEPT ![t] = "pause"]
  /\ Schedule([state EXCEPT ![t] = "TS_HANG"], tick)

(***************************************************************************)
(* A task that was blocked in a call whose SWI is not repeated is back in  *)
(* user code as soon as it has the processor.                              *)
(***************************************************************************)
Return(t, call) ==
  /\ current_p = t /\ swi[t] = call
  /\ swi' = [swi EXCEPT ![t] = "none"]
  /\ UNCHANGED schedVars

(***************************************************************************)
(* wake_task(): only a task that is not TS_RUN is woken, and it competes   *)
(* for the processor at once.                                              *)
(***************************************************************************)
WakeTask(t) ==
  IF state[t] = "TS_RUN"
  THEN UNCHANGED schedVars
  ELSE Schedule([state EXCEPT ![t] = "TS_RUN"], tick)

-----------------------------------------------------------------------------
SchedTypeOK ==
  /\ current_p \in Task
  /\ state \in [Task -> TaskState]
  /\ tick \in [Task -> 0..(PL_MAX - 1)]
  /\ swi \in [Task -> Swi]
=============================================================================
