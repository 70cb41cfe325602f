----------------------------- MODULE KernelProofs -----------------------------
(***************************************************************************)
(* Theorems about the kernel core for any number of tasks, any priorities, *)
(* any buffer size and, where OneClientEach is assumed, any such           *)
(* assignment of clients to servers; then about servers with any number of *)
(* clients: the queue threaded through the PCBs is the sequence of the     *)
(* calls, and is served in order.                                          *)
(***************************************************************************)
EXTENDS Callers, FiniteSetTheorems, SequenceTheorems, WellFoundedInduction, TLAPS

-----------------------------------------------------------------------------
(***************************************************************************)
(* The scan of schedule() finds a task: the candidates are finitely many,  *)
(* and one whose set of better candidates is minimal has none better.      *)
(***************************************************************************)
Beats(tk, j, i) == tk[i] < tk[j] \/ (tk[i] = tk[j] /\ i < j)

Better(st, tk, i) == {j \in Candidates(st) : Beats(tk, j, i)}

LEMMA IdleIsTask == Idle \in Task /\ Task \subseteq Nat /\ IsFiniteSet(Task)
<1>1. Idle \in Task /\ Task \subseteq Nat
  BY PrioAssumption DEF Idle, Task
<1>2. IsFiniteSet(0..LastPid)
  BY PrioAssumption, FS_Interval
<1> QED
  BY <1>1, <1>2 DEF Task

LEMMA NoneIsNoTask == None \notin Task
BY PrioAssumption DEF None, Task

LEMMA BestExists ==
  ASSUME NEW st, NEW tk \in [Task -> Nat]
  PROVE  \E i \in Candidates(st) :
           \A j \in Candidates(st) : tk[j] < tk[i] \/ (tk[j] = tk[i] /\ j =< i)
<1> DEFINE C == Candidates(st)
<1> DEFINE F == {Better(st, tk, i) : i \in C}
<1>1. C \subseteq Task /\ C # {} /\ IsFiniteSet(C)
  <2>1. C \subseteq Task /\ C # {}
    BY IdleIsTask DEF Candidates
  <2> QED
    BY <2>1, IdleIsTask, FS_Subset
<1>2. F \subseteq FiniteSubsetsOf(C) /\ F # {}
  <2>1. \A i \in C : Better(st, tk, i) \in SUBSET C
    BY DEF Better
  <2>2. \A T \in SUBSET C : IsFiniteSet(T)
    BY <1>1, FS_Subset
  <2> QED
    BY <2>1, <2>2, <1>1 DEF FiniteSubsetsOf
<1>3. PICK T \in F : \A U \in F : <<U, T>> \notin StrictSubsetOrdering(C)
  BY <1>2, FS_StrictSubsetOrderingWellFounded, WFMin
<1>4. PICK i \in C : T = Better(st, tk, i)
  OBVIOUS
<1>n. \A a \in C : a \in Nat /\ tk[a] \in Nat
  BY <1>1, IdleIsTask
<1>5. ASSUME NEW a \in C, NEW b \in C, NEW c \in C,
             Beats(tk, a, b), Beats(tk, b, c)
      PROVE  Beats(tk, a, c)
  <2>1. /\ a \in Nat /\ b \in Nat /\ c \in Nat
        /\ tk[a] \in Nat /\ tk[b] \in Nat /\ tk[c] \in Nat
    BY <1>n
  <2> QED
    BY <2>1, <1>5 DEF Beats
<1>6. ASSUME NEW a \in C PROVE ~Beats(tk, a, a)
  BY <1>n DEF Beats
<1>7. Better(st, tk, i) = {}
  <2> SUFFICES ASSUME NEW j \in Better(st, tk, i) PROVE FALSE
    OBVIOUS
  <2>1. j \in C /\ Beats(tk, j, i)
    BY DEF Better
  <2>2. Better(st, tk, j) \subseteq Better(st, tk, i) /\ j \notin Better(st, tk, j)
    BY <2>1, <1>5, <1>6 DEF Better
  <2>3. <<Better(st, tk, j), Better(st, tk, i)>> \in StrictSubsetOrdering(C)
    BY <2>2, <1>4 DEF StrictSubsetOrdering, Better
  <2>4. Better(st, tk, j) \in F
    BY <2>1
  <2> QED
    BY <2>3, <2>4, <1>3, <1>4
<1>8. \A j \in C : ~Beats(tk, j, i)
  BY <1>7 DEF Better
<1>9. \A j \in C : tk[j] < tk[i] \/ (tk[j] = tk[i] /\ j =< i)
  BY <1>8, <1>n DEF Beats
<1> QED
  BY <1>9

LEMMA BestIsCandidate ==
  ASSUME NEW st, NEW tk \in [Task -> Nat]
  PROVE  Best(st, tk) \in Candidates(st)
BY BestExists DEF Best

(***************************************************************************)
(* schedule() hands the processor to a task that is runnable already.      *)
(***************************************************************************)
LEMMA ScheduleStep ==
  ASSUME NEW st \in [Task -> TaskState], st[Idle] = "TS_RUN",
         NEW tk \in [Task -> 0..(PL_MAX - 1)],
         Schedule(st, tk)
  PROVE  /\ state' = st
         /\ current_p' \in Task /\ st[current_p'] = "TS_RUN"
         /\ tick' \in [Task -> 0..(PL_MAX - 1)]
<1>1. tk \in [Task -> Nat]
  BY DEF PL_MAX
<1>2. Best(st, tk) \in Task /\ st[Best(st, tk)] = "TS_RUN"
  BY <1>1, BestIsCandidate, IdleIsTask DEF Candidates
<1>3. tick' \in [Task -> 0..(PL_MAX - 1)]
  BY PrioAssumption DEF Schedule
<1>4. \E t \in Task : st[t] = "TS_RUN" /\ SwitchTo(st, t)
  BY <1>2, IdleIsTask DEF Schedule
<1>5. PICK t \in Task : st[t] = "TS_RUN" /\ SwitchTo(st, t)
  BY <1>4
<1>6. [st EXCEPT ![t] = "TS_RUN"] = st
  BY <1>5
<1> QED
  BY <1>3, <1>5, <1>6 DEF SwitchTo

-----------------------------------------------------------------------------
(***************************************************************************)
(* The inductive invariant.                                                *)
(***************************************************************************)
LEMMA ServersSendNothing ==
  ASSUME ServersSendNoMail, CallInv, NEW d \in Server
  PROVE  d \in Task /\ mailto[d] = None /\ ~EndlessWalk(d) /\ d # Idle
<1>1. d \in Task /\ d # Idle
  BY KmailAssumption DEF Server
<1>2. mailto[d] = None
  BY <1>1 DEF CallInv, CallsWait, Waits, ServersSendNoMail
<1> QED
  BY <1>1, <1>2, NoneIsNoTask DEF EndlessWalk

LEMMA InitCallInv == Init => CallInv
<1> SUFFICES ASSUME Init PROVE CallInv
  OBVIOUS
<1>1. TypeOK
  <2>1. SchedTypeOK
    BY PrioAssumption, IdleIsTask
    DEF Init, SchedInit, SchedTypeOK, TaskState, Swi
  <2>2. KmailTypeOK
    <3>1. PICK m \in Msg : text = [t \in Task |-> m] /\ inbox = text
      BY DEF Init, KmailInit
    <3>2. text \in [Task -> Text] /\ inbox \in [Task -> Text]
      BY <3>1 DEF Text
    <3> QED
      BY <3>2 DEF Init, KmailInit, KmailTypeOK, Link
  <2>3. TtyTypeOK
    BY IdleIsTask DEF Init, TtyInit, TtyTypeOK, Idle
  <2> QED
    BY <2>1, <2>2, <2>3 DEF TypeOK
<1> QED
  BY <1>1, IdleIsTask
  DEF Init, SchedInit, KmailInit, TtyInit, CallInv, RunnersRun, CallsWait,
      SendersCall, QueuesAreCalls, QueueEnds, Received, SleeperSleeps

LEMMA InitIInv == Init => IInv
BY InitCallInv DEF Init, KmailInit, IInv, CallersAlone

(***************************************************************************)
(* A step in which nobody enters or leaves sendm keeps the part of the     *)
(* invariant that is about the callers.                                    *)
(***************************************************************************)
Quiet ==
  /\ UNCHANGED <<queueVars, text, hung>>
  /\ \A c \in Task : state'[c] = "TS_SEND" <=> state[c] = "TS_SEND"
  /\ \A c \in Task : state[c] = "TS_SEND" => swi'[c] = swi[c]

LEMMA QuietKeepsCalls ==
  ASSUME CallInv, Quiet
  PROVE  CallsWait' /\ SendersCall' /\ QueuesAreCalls' /\ QueueEnds' /\ ~hung'
<1>1. CallsWait'
  BY DEF CallInv, Quiet, queueVars, CallsWait, Waits
<1>2. SendersCall' /\ QueuesAreCalls' /\ QueueEnds' /\ ~hung'
  BY DEF CallInv, Quiet, queueVars, SendersCall, QueuesAreCalls, QueueEnds
<1> QED
  BY <1>1, <1>2

(***************************************************************************)
(* A task that has the processor waits for nothing: it is not in sendm and *)
(* is not a client asleep.                                                 *)
(***************************************************************************)
LEMMA RunnerIsFree ==
  ASSUME CallInv, NEW t \in Task, current_p = t
  PROVE  /\ mailto[t] = None
         /\ state[t] = "TS_RUN"
         /\ sleep_pid = t => t = Idle \/ Dest[t] = {}
BY DEF CallInv, RunnersRun, CallsWait, Waits, SleeperSleeps, Idle

(***************************************************************************)
(* The calls and interrupts that leave the queues alone.                   *)
(***************************************************************************)
LEMMA TimerStep == ASSUME CallInv, Timer PROVE CallInv' /\ Quiet
<1>1. Charged \in [Task -> 0..(PL_MAX - 1)]
  BY DEF CallInv, TypeOK, SchedTypeOK, Charged, PL_MAX
<1>2. Schedule(state, Charged) /\ UNCHANGED <<swi, kmailVars, ttyVars>>
  BY DEF Timer, DoTimer0
<1>3. /\ state' = state /\ current_p' \in Task /\ state[current_p'] = "TS_RUN"
      /\ tick' \in [Task -> 0..(PL_MAX - 1)]
  BY <1>1, <1>2, ScheduleStep DEF CallInv, TypeOK, SchedTypeOK, RunnersRun
<1>4. TypeOK' /\ RunnersRun' /\ Received' /\ SleeperSleeps'
  BY <1>2, <1>3
  DEF CallInv, TypeOK, SchedTypeOK, KmailTypeOK, TtyTypeOK, RunnersRun, Received,
      SleeperSleeps, kmailVars, queueVars, bufferVars, ttyVars
<1>5. Quiet
  BY <1>2, <1>3 DEF Quiet, kmailVars, bufferVars
<1> QED
  BY <1>4, <1>5, QuietKeepsCalls DEF CallInv

LEMMA ReturnStep ==
  ASSUME CallInv, NEW t \in Task, PauseReturn(t) \/ SendmReturn(t)
  PROVE  CallInv' /\ Quiet
<1>1. /\ current_p = t /\ swi' = [swi EXCEPT ![t] = "none"]
      /\ UNCHANGED <<schedVars, kmailVars, ttyVars>>
  BY DEF PauseReturn, SendmReturn, Return
<1>2. state[t] = "TS_RUN"
  BY <1>1, RunnerIsFree
<1>3. TypeOK' /\ RunnersRun' /\ Received' /\ SleeperSleeps'
  BY <1>1
  DEF CallInv, TypeOK, SchedTypeOK, KmailTypeOK, TtyTypeOK, RunnersRun, Received,
      SleeperSleeps, schedVars, kmailVars, queueVars, bufferVars, ttyVars, Swi
<1>4. Quiet
  BY <1>1, <1>2
  DEF Quiet, CallInv, TypeOK, SchedTypeOK, schedVars, kmailVars, bufferVars
<1> QED
  BY <1>3, <1>4, QuietKeepsCalls DEF CallInv

(***************************************************************************)
(* A task other than the idle task blocks, for another reason than sendm.  *)
(***************************************************************************)
Blocks(t, ts, call) ==
  /\ current_p = t
  /\ swi' = [swi EXCEPT ![t] = call]
  /\ Schedule([state EXCEPT ![t] = ts], tick)

LEMMA BlockStep ==
  ASSUME CallInv, NEW t \in Task, t # Idle, NEW ts \in {"TS_RECV", "TS_HANG"},
         NEW call \in Swi, Blocks(t, ts, call)
  PROVE  /\ SchedTypeOK' /\ RunnersRun'
         /\ state' = [state EXCEPT ![t] = ts]
         /\ \A c \in Task : state'[c] = "TS_SEND" <=> state[c] = "TS_SEND"
         /\ \A c \in Task : state[c] = "TS_SEND" => swi'[c] = swi[c]
<1> DEFINE st == [state EXCEPT ![t] = ts]
<1>1. st \in [Task -> TaskState] /\ st[Idle] = "TS_RUN"
  BY IdleIsTask DEF CallInv, TypeOK, SchedTypeOK, RunnersRun, TaskState
<1>2. Schedule(st, tick)
  BY DEF Blocks
<1>3. /\ state' = st /\ current_p' \in Task /\ st[current_p'] = "TS_RUN"
      /\ tick' \in [Task -> 0..(PL_MAX - 1)]
  BY <1>1, <1>2, ScheduleStep DEF CallInv, TypeOK, SchedTypeOK
<1>4. state[t] = "TS_RUN"
  BY RunnerIsFree DEF Blocks
<1> QED
  BY <1>1, <1>3, <1>4
  DEF Blocks, CallInv, TypeOK, SchedTypeOK, RunnersRun

LEMMA PauseStep == ASSUME CallInv, NEW t \in Task, Pause(t) PROVE CallInv' /\ Quiet
<1>1. Blocks(t, "TS_HANG", "pause") /\ t # Idle /\ UNCHANGED <<kmailVars, ttyVars>>
  BY PrioAssumption DEF Pause, SysPause, InUser, Blocks
<1>2. /\ SchedTypeOK' /\ RunnersRun' /\ state' = [state EXCEPT ![t] = "TS_HANG"]
      /\ Quiet
  BY <1>1, BlockStep DEF Swi, Quiet, kmailVars, bufferVars
<1>3. TypeOK' /\ Received' /\ SleeperSleeps'
  BY <1>1, <1>2
  DEF CallInv, TypeOK, SchedTypeOK, KmailTypeOK, TtyTypeOK, Received, SleeperSleeps,
      kmailVars, queueVars, bufferVars, ttyVars
<1> QED
  BY <1>2, <1>3, QuietKeepsCalls DEF CallInv

LEMMA RecvmStep == ASSUME CallInv, NEW t \in Task, Recvm(t) PROVE CallInv' /\ Quiet
<1>1. CASE SysRecvmWait(t)
  <2>1. /\ Blocks(t, "TS_RECV", "recvm") /\ t # Idle
        /\ UNCHANGED <<kmailVars, ttyVars>>
    BY <1>1, KmailAssumption
    DEF Recvm, SysRecvmWait, MayReceive, Server, Blocks
  <2>2. /\ SchedTypeOK' /\ RunnersRun' /\ Quiet
        /\ state' = [state EXCEPT ![t] = "TS_RECV"]
    BY <2>1, BlockStep DEF Swi, Quiet, kmailVars, bufferVars
  <2>3. TypeOK' /\ Received'
    BY <2>1, <2>2
    DEF CallInv, TypeOK, KmailTypeOK, TtyTypeOK, Received, kmailVars, queueVars,
        bufferVars, ttyVars
  <2>4. state[t] = "TS_RUN" /\ (sleep_pid = t => Dest[t] = {})
    BY <2>1, RunnerIsFree DEF Blocks
  <2>5. SleeperSleeps'
    BY <2>1, <2>2, <2>4
    DEF CallInv, TypeOK, SchedTypeOK, SleeperSleeps, ttyVars
  <2> QED
    BY <2>2, <2>3, <2>5, QuietKeepsCalls DEF CallInv
<1>2. CASE SysRecvmTake(t)
  <2>1. /\ current_p = t /\ head[t] # None
        /\ inbox' = [inbox EXCEPT ![t] = text[head[t]]]
        /\ sender' = [sender EXCEPT ![t] = head[t]]
        /\ swi' = [swi EXCEPT ![t] = "none"]
        /\ UNCHANGED <<schedVars, queueVars, text, hung, ttyVars>>
    BY <1>2 DEF Recvm, SysRecvmTake, MayReceive
  <2>2. head[t] \in Task
    BY <2>1 DEF CallInv, TypeOK, KmailTypeOK, Link
  <2>3. TypeOK'
    <3>1. SchedTypeOK' /\ TtyTypeOK'
      BY <2>1 DEF CallInv, TypeOK, SchedTypeOK, TtyTypeOK, schedVars, ttyVars, Swi
    <3>2. KmailTypeOK'
      BY <2>1, <2>2 DEF CallInv, TypeOK, KmailTypeOK, queueVars, Link
    <3> QED
      BY <3>1, <3>2 DEF TypeOK
  <2>4. Received'
    BY <2>1 DEF CallInv, TypeOK, KmailTypeOK, Received, queueVars, Link
  <2>5. RunnersRun' /\ SleeperSleeps'
    BY <2>1 DEF CallInv, RunnersRun, SleeperSleeps, schedVars, ttyVars
  <2>6. state[t] = "TS_RUN"
    BY <2>1, RunnerIsFree
  <2>7. Quiet
    BY <2>1, <2>6 DEF Quiet, CallInv, TypeOK, SchedTypeOK, schedVars
  <2> QED
    BY <2>3, <2>4, <2>5, <2>7, QuietKeepsCalls DEF CallInv
<1> QED
  BY <1>1, <1>2 DEF Recvm

LEMMA GetchsStep == ASSUME CallInv, NEW t \in Task, Getchs(t) PROVE CallInv' /\ Quiet
<1>1. CASE SysGetchsWait(t)
  <2>1. /\ Blocks(t, "TS_HANG", "getchs") /\ t # Idle
        /\ sleep_pid' = t /\ UNCHANGED <<kmailVars, chs>>
    BY <1>1, TtyAssumption DEF Getchs, SysGetchsWait, Blocks
  <2>2. /\ SchedTypeOK' /\ RunnersRun' /\ Quiet
        /\ state' = [state EXCEPT ![t] = "TS_HANG"]
    BY <2>1, BlockStep DEF Swi, Quiet, kmailVars, bufferVars
  <2>3. TypeOK' /\ Received' /\ SleeperSleeps'
    BY <2>1, <2>2
    DEF CallInv, TypeOK, SchedTypeOK, KmailTypeOK, TtyTypeOK, Received,
        SleeperSleeps, kmailVars, queueVars, bufferVars
  <2> QED
    BY <2>2, <2>3, QuietKeepsCalls DEF CallInv
<1>2. CASE SysGetchsTake(t)
  <2>1. /\ current_p = t /\ chs' = <<>> /\ swi' = [swi EXCEPT ![t] = "none"]
        /\ UNCHANGED <<schedVars, sleep_pid, kmailVars>>
    BY <1>2 DEF Getchs, SysGetchsTake
  <2>2. TypeOK' /\ RunnersRun' /\ Received' /\ SleeperSleeps'
    BY <2>1
    DEF CallInv, TypeOK, SchedTypeOK, KmailTypeOK, TtyTypeOK, RunnersRun, Received,
        SleeperSleeps, schedVars, kmailVars, queueVars, bufferVars, Swi
  <2>3. state[t] = "TS_RUN"
    BY <2>1, RunnerIsFree
  <2>4. Quiet
    BY <2>1, <2>3
    DEF Quiet, CallInv, TypeOK, SchedTypeOK, schedVars, kmailVars, bufferVars
  <2> QED
    BY <2>2, <2>4, QuietKeepsCalls DEF CallInv
<1> QED
  BY <1>1, <1>2 DEF Getchs

(***************************************************************************)
(* A character keeps the buffer well typed.                                *)
(***************************************************************************)
LEMMA StoresType ==
  ASSUME TtyTypeOK, NEW c \in Typed PROVE Stores(c) \in Seq(Stored)
<1>1. CASE EndsLine(c)
  <2>1. Stores(c) = Append(chs, "nl")
    BY <1>1 DEF Stores
  <2> QED
    BY <2>1 DEF TtyTypeOK, Stored
<1>2. CASE ~EndsLine(c)
  <2>1. c # "cr"
    BY <1>2 DEF EndsLine
  <2>2. CASE c = "bs"
    <3>1. Stores(c) = IF chs = <<>> THEN chs ELSE SubSeq(chs, 1, Len(chs) - 1)
      BY <1>2, <2>2 DEF Stores
    <3> QED
      BY <3>1 DEF TtyTypeOK
  <2>3. CASE c = "esc"
    BY <1>2, <2>3 DEF Stores, TtyTypeOK
  <2>4. CASE c = "ch"
    <3>1. Stores(c) = Append(chs, c)
      BY <1>2, <2>4 DEF Stores
    <3> QED
      BY <3>1, <2>4 DEF TtyTypeOK, Stored
  <2> QED
    BY <2>1, <2>2, <2>3, <2>4 DEF Typed
<1> QED
  BY <1>1, <1>2

(***************************************************************************)
(* The interrupt wakes nobody out of sendm, and leaves no client marked as *)
(* the sleeper that it has woken.                                          *)
(***************************************************************************)
LEMMA SleeperNotSending ==
  ASSUME CallInv, sleep_pid # 0 \/ state[sleep_pid] = "TS_HANG"
  PROVE  sleep_pid \in Task /\ state[sleep_pid] # "TS_SEND"
BY DEF CallInv, TypeOK, TtyTypeOK, CallsWait, Waits, SendersCall, SleeperSleeps

LEMMA UartStep == ASSUME CallInv, NEW c \in Typed, Uart(c) PROVE CallInv' /\ Quiet
<1>1. /\ chs' = Stores(c) /\ UNCHANGED <<swi, kmailVars>>
      /\ \/ WakeSleeper
         \/ UNCHANGED <<schedVars, sleep_pid>>
  BY DEF Uart, UartRecv
<1>2. chs' \in Seq(Stored)
  BY <1>1, StoresType DEF CallInv, TypeOK
<1>3. SchedTypeOK' /\ RunnersRun' /\ SleeperSleeps' /\ Quiet /\ sleep_pid' \in Task
  <2>1. CASE UNCHANGED <<schedVars, sleep_pid>>
    BY <1>1, <2>1
    DEF CallInv, TypeOK, SchedTypeOK, TtyTypeOK, RunnersRun, SleeperSleeps, Quiet,
        schedVars, kmailVars, bufferVars
  <2>2. CASE /\ sleep_pid # 0 \/ state[sleep_pid] = "TS_HANG"
             /\ WakeTask(sleep_pid) /\ sleep_pid' = 0
    <3> DEFINE st == [state EXCEPT ![sleep_pid] = "TS_RUN"]
    <3>1. sleep_pid \in Task /\ state[sleep_pid] # "TS_SEND"
      BY <2>2, SleeperNotSending
    <3>2. st \in [Task -> TaskState] /\ st[Idle] = "TS_RUN"
      BY <3>1, IdleIsTask DEF CallInv, TypeOK, SchedTypeOK, RunnersRun, TaskState
    <3>3. /\ state' = st /\ current_p' \in Task /\ state'[current_p'] = "TS_RUN"
          /\ tick' \in [Task -> 0..(PL_MAX - 1)]
      <4>1. CASE state[sleep_pid] = "TS_RUN"
        <5>1. st = state
          BY <4>1, <3>1 DEF CallInv, TypeOK, SchedTypeOK
        <5> QED
          BY <4>1, <5>1, <2>2
          DEF WakeTask, schedVars, CallInv, TypeOK, SchedTypeOK, RunnersRun
      <4>2. CASE state[sleep_pid] # "TS_RUN"
        <5>1. Schedule(st, tick)
          BY <4>2, <2>2 DEF WakeTask
        <5> QED
          BY <5>1, <3>2, ScheduleStep DEF CallInv, TypeOK, SchedTypeOK
      <4> QED
        BY <4>1, <4>2
    <3>4. SchedTypeOK' /\ RunnersRun'
      BY <1>1, <3>2, <3>3 DEF CallInv, TypeOK, SchedTypeOK, RunnersRun
    <3>5. SleeperSleeps' /\ sleep_pid' \in Task
      BY <2>2, IdleIsTask DEF SleeperSleeps, Idle
    <3>6. Quiet
      BY <1>1, <3>1, <3>3
      DEF Quiet, kmailVars, bufferVars, CallInv, TypeOK, SchedTypeOK
    <3> QED
      BY <3>4, <3>5, <3>6
  <2> QED
    BY <1>1, <2>1, <2>2 DEF WakeSleeper
<1>4. TypeOK' /\ Received'
  BY <1>1, <1>2, <1>3
  DEF CallInv, TypeOK, KmailTypeOK, TtyTypeOK, Received, kmailVars, queueVars,
      bufferVars
<1> QED
  BY <1>3, <1>4, QuietKeepsCalls DEF CallInv

(***************************************************************************)
(* Everything but sendm() and replym().                                    *)
(***************************************************************************)
QuietNext ==
  \/ Timer
  \/ \E c \in Typed : Uart(c)
  \/ \E t \in Task :
       PauseReturn(t) \/ SendmReturn(t) \/ Recvm(t) \/ Getchs(t) \/ Pause(t)

LEMMA QuietNextStep == ASSUME CallInv, QuietNext PROVE CallInv' /\ Quiet
BY TimerStep, UartStep, ReturnStep, RecvmStep, GetchsStep, PauseStep
DEF QuietNext

LEMMA StutterStep == ASSUME CallInv, UNCHANGED vars PROVE CallInv' /\ Quiet
<1>1. UNCHANGED <<schedVars, swi, kmailVars, ttyVars>>
  BY DEF vars
<1>2. TypeOK' /\ RunnersRun' /\ Received' /\ SleeperSleeps' /\ Quiet
  BY <1>1
  DEF CallInv, TypeOK, SchedTypeOK, KmailTypeOK, TtyTypeOK, RunnersRun, Received,
      SleeperSleeps, Quiet, schedVars, kmailVars, queueVars, bufferVars, ttyVars
<1> QED
  BY <1>2, QuietKeepsCalls DEF CallInv

LEMMA NextIsQuietOrMail ==
  Next <=> QuietNext \/ \E t \in Task : Sendm(t) \/ Replym(t)
BY DEF Next, QuietNext, GoOn, Choose

(***************************************************************************)
(* The calls that move mail.  SysSendm puts the caller behind the last     *)
(* sender and hands over the processor, whoever else waits there.          *)
(***************************************************************************)
LEMMA QueueOfServer ==
  ASSUME CallInv, NEW s \in Task, head[s] # None
  PROVE  head[s] \in Task /\ mailto[head[s]] = s /\ Waits(head[s], s)
<1>1. head[s] \in Task /\ mailto[head[s]] = s
  BY DEF CallInv, TypeOK, KmailTypeOK, Link, QueuesAreCalls
<1> QED
  BY <1>1, NoneIsNoTask DEF CallInv, CallsWait

LEMMA SendmEffect ==
  ASSUME ServersSendNoMail, CallInv, NEW t \in Task, Sendm(t)
  PROVE  \E d \in Dest[t], m \in Msg :
           /\ d \in Task /\ d # t /\ d # Idle /\ t # Idle /\ mailto[d] = None
           /\ d \in Server
           /\ current_p = t /\ swi[t] = "none" /\ mailto[t] = None
           /\ Enqueue(d, t)
           /\ mailto' = [mailto EXCEPT ![t] = d]
           /\ text' = [text EXCEPT ![t] = m]
           /\ swi' = [swi EXCEPT ![t] = "sendm"]
           /\ current_p' = d
           /\ state' = [state EXCEPT ![t] = "TS_SEND", ![d] = "TS_RUN"]
           /\ UNCHANGED <<tick, hung, inbox, sender, chs, sleep_pid>>
<1>1. PICK d \in Dest[t], m \in Msg : SysSendm(t, d, m) /\ UNCHANGED ttyVars
  BY DEF Sendm
<1>2. d \in Server /\ d # t /\ t # Idle
  BY KmailAssumption DEF Server
<1>3. d \in Task /\ d # Idle /\ mailto[d] = None /\ ~EndlessWalk(d)
  BY <1>2, ServersSendNothing
<1>4. current_p = t /\ swi[t] = "none" /\ mailto[t] = None
  BY <1>1, RunnerIsFree DEF SysSendm, InUser
<1>5. SwitchTo([state EXCEPT ![t] = "TS_SEND"], d)
  BY <1>1, <1>3 DEF SysSendm
<1>6. current_p' = d /\ state' = [state EXCEPT ![t] = "TS_SEND", ![d] = "TS_RUN"]
  BY <1>5, <1>2, <1>4 DEF SwitchTo
<1>7. /\ mailto' = [mailto EXCEPT ![t] = d] /\ Enqueue(d, t)
      /\ text' = [text EXCEPT ![t] = m] /\ swi' = [swi EXCEPT ![t] = "sendm"]
      /\ UNCHANGED <<tick, hung, inbox, sender>>
  BY <1>1, <1>3 DEF SysSendm
<1> QED
  BY <1>1, <1>2, <1>3, <1>4, <1>6, <1>7 DEF ttyVars

LEMMA SendmKeepsCalls ==
  ASSUME ServersSendNoMail, CallInv, NEW t \in Task, Sendm(t) PROVE CallInv'
<1>2. PICK d \in Dest[t], m \in Msg :
        /\ d \in Task /\ d # t /\ d # Idle /\ t # Idle /\ mailto[d] = None
        /\ d \in Server
        /\ current_p = t /\ swi[t] = "none" /\ mailto[t] = None
        /\ Enqueue(d, t)
        /\ mailto' = [mailto EXCEPT ![t] = d]
        /\ text' = [text EXCEPT ![t] = m]
        /\ swi' = [swi EXCEPT ![t] = "sendm"]
        /\ current_p' = d
        /\ state' = [state EXCEPT ![t] = "TS_SEND", ![d] = "TS_RUN"]
        /\ UNCHANGED <<tick, hung, inbox, sender, chs, sleep_pid>>
  BY SendmEffect
<1>t. TypeOK
  BY DEF CallInv
<1>3. /\ head' \in Link /\ tail' \in Link /\ next' \in Link
      /\ head'[d] = IF head[d] = None THEN t ELSE head[d]
      /\ tail'[d] = t
      /\ \A s \in Task \ {d} : head'[s] = head[s] /\ tail'[s] = tail[s]
  BY <1>2, <1>t DEF Enqueue, TypeOK, KmailTypeOK, Link
<1>4. TypeOK'
  <2>1. SchedTypeOK'
    BY <1>2, <1>t DEF TypeOK, SchedTypeOK, TaskState, Swi
  <2>2. mailto' \in Link
    BY <1>2, <1>t DEF TypeOK, KmailTypeOK, Link
  <2>3. text' \in [Task -> Text]
    BY <1>2, <1>t DEF TypeOK, KmailTypeOK, Text
  <2> QED
    BY <2>1, <2>2, <2>3, <1>2, <1>3, <1>t DEF TypeOK, KmailTypeOK, TtyTypeOK
<1>5. RunnersRun'
  BY <1>2, <1>t, IdleIsTask DEF CallInv, TypeOK, SchedTypeOK, RunnersRun
<1>6. CallsWait'
  <2> SUFFICES ASSUME NEW c \in Task, mailto'[c] # None
               PROVE  Waits(c, mailto[c])'
    BY DEF CallsWait
  <2>1. CASE c = t
    BY <2>1, <1>2, <1>t DEF Waits, TypeOK, SchedTypeOK, KmailTypeOK, Link
  <2>2. CASE c # t
    <3>1. mailto'[c] = mailto[c] /\ Waits(c, mailto[c]) /\ c # d
      BY <2>2, <1>2, <1>t DEF CallInv, CallsWait, TypeOK, KmailTypeOK, Link
    <3> QED
      BY <3>1, <2>2, <1>2, <1>t
      DEF Waits, TypeOK, SchedTypeOK, KmailTypeOK, Link
  <2> QED
    BY <2>1, <2>2
<1>7. SendersCall'
  BY <1>2, <1>t, IdleIsTask
  DEF CallInv, SendersCall, TypeOK, SchedTypeOK, KmailTypeOK, Link, None
<1>8. \A s \in Task : head[s] # None =>
        /\ head[s] \in Task /\ mailto[head[s]] = s /\ head[s] # t
        /\ head'[s] = head[s]
  <2> SUFFICES ASSUME NEW s \in Task, head[s] # None
               PROVE  /\ head[s] \in Task /\ mailto[head[s]] = s
                      /\ head[s] # t /\ head'[s] = head[s]
    OBVIOUS
  <2>1. head[s] \in Task /\ mailto[head[s]] = s /\ s # None
    BY QueueOfServer, NoneIsNoTask
  <2> QED
    BY <2>1, <1>2, <1>3
<1>9. QueuesAreCalls'
  <2> SUFFICES ASSUME NEW s \in Task, head'[s] # None
               PROVE  mailto'[head'[s]] = s
    BY DEF QueuesAreCalls
  <2>1. CASE head[s] # None
    BY <2>1, <1>8, <1>2, <1>t DEF TypeOK, KmailTypeOK, Link
  <2>2. CASE head[s] = None
    <3>1. s = d /\ head'[s] = t
      BY <2>2, <1>3
    <3> QED
      BY <3>1, <1>2, <1>t DEF TypeOK, KmailTypeOK, Link
  <2> QED
    BY <2>1, <2>2
<1>10. QueueEnds'
  <2>1. t # None
    BY NoneIsNoTask
  <2> QED
    BY <2>1, <1>3 DEF CallInv, QueueEnds
<1>11. Received'
  <2> SUFFICES ASSUME NEW s \in Task, sender[s] # None
               PROVE  sender[s] = head'[s] /\ inbox[s] = text'[head'[s]]
    BY <1>2 DEF Received
  <2>1. sender[s] = head[s] /\ inbox[s] = text[head[s]] /\ head[s] # None
    BY DEF CallInv, Received
  <2> QED
    BY <2>1, <1>2, <1>8, <1>t DEF TypeOK, KmailTypeOK, Link
<1>12. SleeperSleeps'
  BY <1>2, <1>t, RunnerIsFree
  DEF CallInv, SleeperSleeps, TypeOK, SchedTypeOK, TtyTypeOK, ServersSendNoMail, Idle
<1> QED
  BY <1>2, <1>4, <1>5, <1>6, <1>7, <1>9, <1>10, <1>11, <1>12 DEF CallInv

LEMMA ReplymEffect ==
  ASSUME CallInv, NEW t \in Task, Replym(t)
  PROVE  /\ current_p = t /\ head[t] \in Task /\ head[t] # t
         /\ Waits(head[t], t) /\ mailto[head[t]] = t /\ mailto[t] = None
         /\ inbox[t] \in Msg /\ inbox[t] = text[head[t]]
         /\ text' = [text EXCEPT ![head[t]] = Rpc!Answer(t, inbox[t])]
         /\ state' = [state EXCEPT ![head[t]] = "TS_RUN"]
         /\ mailto' = [mailto EXCEPT ![head[t]] = None]
         /\ Dequeue(t, head[t])
         /\ sender' = [sender EXCEPT ![t] = None]
         /\ UNCHANGED <<current_p, tick, swi, inbox, hung, chs, sleep_pid>>
<1>1. current_p = t /\ sender[t] # None /\ head[t] # None
  BY DEF Replym, SysReplym, InUser
<1>2. head[t] \in Task /\ mailto[head[t]] = t /\ Waits(head[t], t)
  BY <1>1, QueueOfServer
<1>3. head[t] # t /\ inbox[t] = text[head[t]] /\ inbox[t] \in Msg
  BY <1>1, <1>2, KmailAssumption DEF CallInv, Received, Waits
<1>4. mailto[t] = None
  BY <1>1, RunnerIsFree
<1> QED
  BY <1>1, <1>2, <1>3, <1>4 DEF Replym, SysReplym, ttyVars

(***************************************************************************)
(* The reply keeps the invariant if the link of the head, where it is set, *)
(* leads to another sender to the same server.                             *)
(***************************************************************************)
LinkIsSender(t) ==
  next[head[t]] # None =>
    next[head[t]] # head[t] /\ mailto[next[head[t]]] = t

LEMMA ReplymKeepsCalls ==
  ASSUME CallInv, NEW t \in Task, Replym(t), LinkIsSender(t) PROVE CallInv'
<1> DEFINE p == head[t]
<1>2. /\ current_p = t /\ p \in Task /\ p # t
      /\ Waits(p, t) /\ mailto[p] = t /\ mailto[t] = None
      /\ inbox[t] \in Msg /\ inbox[t] = text[p]
      /\ text' = [text EXCEPT ![p] = Rpc!Answer(t, inbox[t])]
      /\ state' = [state EXCEPT ![p] = "TS_RUN"]
      /\ mailto' = [mailto EXCEPT ![p] = None]
      /\ Dequeue(t, p)
      /\ sender' = [sender EXCEPT ![t] = None]
      /\ UNCHANGED <<current_p, tick, swi, inbox, hung, chs, sleep_pid>>
  BY ReplymEffect
<1>l. next[p] # None => next[p] # p /\ mailto[next[p]] = t
  BY DEF LinkIsSender
<1>p. p = head[t]
  OBVIOUS
<1> HIDE DEF p
<1>t. TypeOK
  BY DEF CallInv
<1>3. /\ head' \in Link /\ tail' \in Link /\ next' \in Link
      /\ head'[t] = next[p]
      /\ tail'[t] = IF next[p] = None THEN None ELSE tail[t]
      /\ \A s \in Task \ {t} : head'[s] = head[s] /\ tail'[s] = tail[s]
  BY <1>2, <1>t DEF Dequeue, TypeOK, KmailTypeOK, Link
<1>4. TypeOK'
  <2>1. SchedTypeOK'
    BY <1>2, <1>t DEF TypeOK, SchedTypeOK, TaskState, Swi
  <2>2. mailto' \in Link /\ sender' \in Link
    BY <1>2, <1>t DEF TypeOK, KmailTypeOK, Link
  <2>3. text' \in [Task -> Text]
    BY <1>2, <1>t DEF TypeOK, KmailTypeOK, Text
  <2> QED
    BY <2>1, <2>2, <2>3, <1>2, <1>3, <1>t DEF TypeOK, KmailTypeOK, TtyTypeOK
<1>5. RunnersRun'
  BY <1>2, <1>t, IdleIsTask DEF CallInv, TypeOK, SchedTypeOK, RunnersRun
<1>7. CallsWait'
  <2> SUFFICES ASSUME NEW c \in Task, mailto'[c] # None
               PROVE  Waits(c, mailto[c])'
    BY DEF CallsWait
  <2>1. c # p /\ mailto'[c] = mailto[c]
    BY <1>2, <1>t DEF TypeOK, KmailTypeOK, Link
  <2>2. Waits(c, mailto[c])
    BY <2>1 DEF CallInv, CallsWait
  <2> QED
    BY <2>1, <2>2, <1>2, <1>t
    DEF Waits, TypeOK, SchedTypeOK, KmailTypeOK, Link
<1>8. SendersCall'
  BY <1>2, <1>t DEF CallInv, SendersCall, TypeOK, SchedTypeOK, KmailTypeOK, Link
<1>9. QueuesAreCalls'
  <2> SUFFICES ASSUME NEW s \in Task, head'[s] # None
               PROVE  mailto'[head'[s]] = s
    BY DEF QueuesAreCalls
  <2>1. CASE s = t
    <3>1. head'[s] = next[p] /\ next[p] # p /\ mailto[next[p]] = t
      BY <2>1, <1>3, <1>l
    <3>2. next[p] \in Task
      BY <3>1, <1>2, <1>t DEF TypeOK, KmailTypeOK, Link
    <3> QED
      BY <3>1, <3>2, <2>1, <1>2, <1>t DEF TypeOK, KmailTypeOK, Link
  <2>2. CASE s # t
    <3>1. head'[s] = head[s] /\ head[s] # None
      BY <2>2, <1>3
    <3>2. head[s] \in Task /\ mailto[head[s]] = s
      BY <3>1, QueueOfServer
    <3> QED
      BY <3>1, <3>2, <2>2, <1>2, <1>t DEF TypeOK, KmailTypeOK, Link
  <2> QED
    BY <2>1, <2>2
<1>10. QueueEnds'
  <2>1. p # None
    BY <1>2, NoneIsNoTask
  <2> QED
    BY <2>1, <1>3, <1>p DEF CallInv, QueueEnds
<1>11. Received'
  <2> SUFFICES ASSUME NEW s \in Task, sender'[s] # None
               PROVE  sender'[s] = head'[s] /\ inbox[s] = text'[head'[s]]
    BY <1>2 DEF Received
  <2>1. s # t /\ sender'[s] = sender[s] /\ head'[s] = head[s]
    BY <1>2, <1>3, <1>t DEF TypeOK, KmailTypeOK, Link
  <2>2. sender[s] = head[s] /\ inbox[s] = text[head[s]] /\ head[s] # None
    BY <2>1 DEF CallInv, Received
  <2>3. head[s] # p
    BY <2>1, <2>2, <1>2, QueueOfServer
  <2> QED
    BY <2>1, <2>2, <2>3, <1>2, <1>t DEF TypeOK, KmailTypeOK
<1>12. SleeperSleeps'
  BY <1>2, <1>t DEF CallInv, SleeperSleeps, Waits, TypeOK, SchedTypeOK, TtyTypeOK
<1> QED
  BY <1>2, <1>4, <1>5, <1>7, <1>8, <1>9, <1>10, <1>11, <1>12 DEF CallInv

-----------------------------------------------------------------------------
(***************************************************************************)
(* One client each: the client finds the queue of its server empty, for    *)
(* nobody else may be in it, and the reply leaves it empty again.          *)
(***************************************************************************)
LEMMA ClientFindsEmptyQueue ==
  ASSUME OneClientEach, IInv, NEW t \in Task, NEW d \in Dest[t], d \in Task,
         swi[t] = "none"
  PROVE  head[d] = None /\ tail[d] = None
<1>1. head[d] = None
  <2> SUFFICES ASSUME head[d] # None PROVE FALSE
    OBVIOUS
  <2>1. head[d] \in Task /\ d \in Dest[head[d]] /\ swi[head[d]] = "sendm"
    BY QueueOfServer DEF IInv, Waits
  <2>2. head[d] = t
    BY <2>1 DEF OneClientEach
  <2> QED
    BY <2>1, <2>2
<1> QED
  BY <1>1 DEF IInv, CallInv, QueueEnds

LEMMA SendmStep ==
  ASSUME OneClientEach, IInv, NEW t \in Task, Sendm(t) PROVE IInv'
<1>1. CallInv' /\ CallInv
  BY SendmKeepsCalls DEF IInv, OneClientEach
<1>2. PICK d \in Dest[t] :
        /\ d \in Task /\ swi[t] = "none" /\ mailto[t] = None
        /\ Enqueue(d, t) /\ mailto' = [mailto EXCEPT ![t] = d]
  BY <1>1, SendmEffect DEF OneClientEach
<1>3. head[d] = None
  BY <1>2, ClientFindsEmptyQueue
<1>4. /\ head' = [head EXCEPT ![d] = t] /\ tail' = [tail EXCEPT ![d] = t]
      /\ next' = [next EXCEPT ![t] = None]
  BY <1>2, <1>3 DEF Enqueue
<1>t. head \in Link /\ tail \in Link /\ next \in Link /\ mailto \in Link
  BY <1>1 DEF CallInv, TypeOK, KmailTypeOK
<1>5. CallersAlone'
  <2> SUFFICES ASSUME NEW c \in Task, mailto'[c] # None
               PROVE  Alone(c, mailto[c])'
    BY DEF CallersAlone
  <2>1. CASE c = t
    BY <2>1, <1>2, <1>4, <1>t DEF Alone, Link
  <2>2. CASE c # t
    <3>1. mailto'[c] = mailto[c] /\ Alone(c, mailto[c]) /\ mailto[c] \in Task
      BY <2>2, <1>2, <1>t DEF IInv, CallersAlone, Link
    <3>2. mailto[c] # d
      BY <3>1, <1>3, NoneIsNoTask DEF Alone
    <3> QED
      BY <3>1, <3>2, <2>2, <1>4, <1>t DEF Alone, Link
  <2> QED
    BY <2>1, <2>2
<1> QED
  BY <1>1, <1>5 DEF IInv

LEMMA ReplymStep == ASSUME IInv, NEW t \in Task, Replym(t) PROVE IInv'
<1> DEFINE p == head[t]
<1>1. /\ p \in Task /\ p # t /\ mailto[p] = t /\ mailto[t] = None
      /\ mailto' = [mailto EXCEPT ![p] = None] /\ Dequeue(t, p)
  BY ReplymEffect DEF IInv
<1>2. next[p] = None
  BY <1>1, NoneIsNoTask DEF IInv, CallersAlone, Alone
<1>3. CallInv' /\ CallInv
  BY <1>2, ReplymKeepsCalls DEF LinkIsSender, IInv
<1> HIDE DEF p
<1>4. /\ head' = [head EXCEPT ![t] = None] /\ tail' = [tail EXCEPT ![t] = None]
      /\ next' = [next EXCEPT ![t] = None]
  BY <1>1, <1>2 DEF Dequeue
<1>t. head \in Link /\ tail \in Link /\ next \in Link /\ mailto \in Link
  BY <1>3 DEF CallInv, TypeOK, KmailTypeOK
<1>5. CallersAlone'
  <2> SUFFICES ASSUME NEW c \in Task, mailto'[c] # None
               PROVE  Alone(c, mailto[c])'
    BY DEF CallersAlone
  <2>1. c # p /\ mailto'[c] = mailto[c] /\ mailto[c] \in Task /\ c # t
    BY <1>1, <1>t DEF Link
  <2>2. Alone(c, mailto[c]) /\ Alone(p, t)
    BY <2>1, <1>1, NoneIsNoTask DEF IInv, CallersAlone
  <2>3. mailto[c] # t
    BY <2>1, <2>2 DEF Alone
  <2> QED
    BY <2>1, <2>2, <2>3, <1>4, <1>t DEF Alone, Link
<1> QED
  BY <1>3, <1>5 DEF IInv

LEMMA IInvInductive ==
  ASSUME OneClientEach PROVE IInv /\ [Next]_vars => IInv'
<1> SUFFICES ASSUME IInv, [Next]_vars PROVE IInv'
  OBVIOUS
<1>1. CASE QuietNext \/ UNCHANGED vars
  <2>1. CallInv' /\ Quiet
    BY <1>1, QuietNextStep, StutterStep DEF IInv
  <2> QED
    BY <2>1 DEF IInv, Quiet, queueVars, CallersAlone, Alone
<1>2. CASE \E t \in Task : Sendm(t) \/ Replym(t)
  BY <1>2, SendmStep, ReplymStep
<1> QED
  BY <1>1, <1>2, NextIsQuietOrMail

(***************************************************************************)
(* The inductive invariant holds of every run in which each server has one *)
(* client and sends no mail itself (kmail.c:41-69, 117-179).               *)
(***************************************************************************)
THEOREM Invariant == ASSUME OneClientEach PROVE Spec => []IInv
<1>1. IInv /\ [Next]_vars => IInv'
  BY IInvInductive
<1> QED
  BY <1>1, InitIInv, PTL DEF Spec

(***************************************************************************)
(* Every field keeps its type: no pid outside the task table is ever put   *)
(* into a queue, no count of ticks leaves its range (sched.c:18-78).       *)
(***************************************************************************)
THEOREM TypeCorrect == ASSUME OneClientEach PROVE Spec => []TypeOK
<1>1. IInv => TypeOK
  BY DEF IInv, CallInv
<1> QED
  BY <1>1, Invariant, PTL

(***************************************************************************)
(* The kernel never walks for ever along mail.to (kmail.c:17-25).          *)
(***************************************************************************)
THEOREM NeverHangs == ASSUME OneClientEach PROVE Spec => []LoopMailDenied
<1>1. IInv => LoopMailDenied
  BY DEF IInv, CallInv, LoopMailDenied
<1> QED
  BY <1>1, Invariant, PTL

(***************************************************************************)
(* The queue of a server holds the waiting senders, and nobody else        *)
(* (kmail.c:56-66, 166-176).                                               *)
(***************************************************************************)
THEOREM QueuesHoldSenders ==
  ASSUME OneClientEach PROVE Spec => []QueueHoldsSenders
<1>1. ASSUME IInv PROVE QueueHoldsSenders
  <2> SUFFICES ASSUME NEW s \in Task
               PROVE  /\ (head[s] = None) <=> (Senders(s) = {})
                      /\ head[s] # None =>
                           /\ head[s] \in Senders(s) /\ tail[s] \in Senders(s)
                           /\ next[tail[s]] = None
                           /\ \A t \in Senders(s) \ {tail[s]} :
                                next[t] \in Senders(s)
    BY DEF QueueHoldsSenders
  <2>1. \A t \in Senders(s) : t \in Task /\ head[s] = t /\ tail[s] = t
    BY <1>1, NoneIsNoTask DEF Senders, IInv, CallersAlone, Alone
  <2>2. ASSUME head[s] # None
        PROVE  /\ head[s] \in Senders(s)
               /\ tail[s] = head[s] /\ next[tail[s]] = None
    BY <1>1, <2>2, QueueOfServer, NoneIsNoTask
    DEF Senders, Waits, IInv, CallersAlone, Alone
  <2> QED
    BY <2>1, <2>2, NoneIsNoTask
<1> QED
  BY <1>1, Invariant, PTL

-----------------------------------------------------------------------------
(***************************************************************************)
(* Under OneClientEach the message passing of the kernel, seen from the    *)
(* programs, is a remote procedure call.                                   *)
(***************************************************************************)
LEMMA InitIsRpcInit == Init => Rpc!Init
BY DEF Init, SchedInit, KmailInit, Rpc!Init, Phase

(***************************************************************************)
(* A step that leaves the mail alone and in which nobody enters or leaves  *)
(* sendm is not visible.                                                   *)
(***************************************************************************)
LEMMA HiddenStep ==
  ASSUME UNCHANGED <<mailto, text>>,
         \A c \in Task : /\ swi[c] = "sendm" <=> swi'[c] = "sendm"
                         /\ swi[c] = "sendm" =>
                              (state[c] = "TS_SEND" <=> state'[c] = "TS_SEND")
  PROVE  UNCHANGED Rpc!vars
BY DEF Rpc!vars, Phase

LEMMA TimerHidden == ASSUME CallInv, Timer PROVE UNCHANGED Rpc!vars
<1>1. Charged \in [Task -> 0..(PL_MAX - 1)]
  BY DEF CallInv, TypeOK, SchedTypeOK, Charged, PL_MAX
<1>2. Schedule(state, Charged) /\ UNCHANGED <<swi, kmailVars>>
  BY DEF Timer, DoTimer0
<1>3. state' = state
  BY <1>1, <1>2, ScheduleStep DEF CallInv, TypeOK, SchedTypeOK, RunnersRun
<1> QED
  BY <1>2, <1>3, HiddenStep DEF kmailVars, queueVars, bufferVars

LEMMA UartHidden == ASSUME CallInv, NEW c \in Typed, Uart(c) PROVE UNCHANGED Rpc!vars
<1>1. UNCHANGED <<swi, mailto, text>>
  BY DEF Uart, UartRecv, kmailVars, queueVars, bufferVars
<1>2. \A t \in Task : state[t] = "TS_SEND" <=> state'[t] = "TS_SEND"
  <2>1. CASE UNCHANGED schedVars
    BY <2>1 DEF schedVars
  <2>2. CASE ~UNCHANGED schedVars
    <3> DEFINE st == [state EXCEPT ![sleep_pid] = "TS_RUN"]
    <3>1. sleep_pid # 0 \/ state[sleep_pid] = "TS_HANG"
      BY <2>2 DEF Uart, UartRecv, WakeSleeper
    <3>2. Schedule(st, tick)
      BY <2>2 DEF Uart, UartRecv, WakeSleeper, WakeTask
    <3>3. sleep_pid \in Task /\ state[sleep_pid] # "TS_SEND"
      BY <3>1, SleeperNotSending
    <3>4. st \in [Task -> TaskState] /\ st[Idle] = "TS_RUN"
      BY <3>3, IdleIsTask DEF CallInv, TypeOK, SchedTypeOK, RunnersRun, TaskState
    <3>5. state' = st
      BY <3>2, <3>4, ScheduleStep DEF CallInv, TypeOK, SchedTypeOK
    <3> QED
      BY <3>3, <3>5 DEF CallInv, TypeOK, SchedTypeOK
  <2> QED
    BY <2>1, <2>2
<1> QED
  BY <1>1, <1>2, HiddenStep

(***************************************************************************)
(* A task that blocks for another reason than sendm was in user code or in *)
(* another call.                                                           *)
(***************************************************************************)
LEMMA BlockHidden ==
  ASSUME CallInv, NEW t \in Task, t # Idle, NEW ts \in {"TS_RECV", "TS_HANG"},
         NEW call \in Swi \ {"sendm"}, Blocks(t, ts, call), swi[t] # "sendm",
         UNCHANGED kmailVars
  PROVE  UNCHANGED Rpc!vars
<1>1. state' = [state EXCEPT ![t] = ts] /\ swi' = [swi EXCEPT ![t] = call]
  BY BlockStep DEF Blocks
<1> QED
  BY <1>1, HiddenStep
  DEF CallInv, TypeOK, SchedTypeOK, kmailVars, queueVars, bufferVars

(***************************************************************************)
(* So does a task that comes back from another call.                       *)
(***************************************************************************)
LEMMA BackHidden ==
  ASSUME CallInv, NEW t \in Task, swi[t] # "sendm",
         swi' = [swi EXCEPT ![t] = "none"], UNCHANGED <<state, mailto, text>>
  PROVE  UNCHANGED Rpc!vars
BY HiddenStep DEF CallInv, TypeOK, SchedTypeOK

LEMMA GoOnStep ==
  ASSUME CallInv, NEW t \in Task, GoOn(t), ~SendmReturn(t), ~Replym(t)
  PROVE  UNCHANGED Rpc!vars
<1>1. CASE PauseReturn(t)
  BY <1>1, BackHidden
  DEF PauseReturn, Return, schedVars, kmailVars, queueVars, bufferVars
<1>2. CASE Recvm(t) /\ SysRecvmWait(t)
  <2>1. Blocks(t, "TS_RECV", "recvm") /\ t # Idle /\ UNCHANGED kmailVars
        /\ swi[t] # "sendm"
    BY <1>2, KmailAssumption DEF SysRecvmWait, MayReceive, Server, Blocks
  <2> QED
    BY <2>1, BlockHidden DEF Swi
<1>3. CASE Recvm(t) /\ SysRecvmTake(t)
  BY <1>3, BackHidden DEF SysRecvmTake, MayReceive, schedVars, queueVars
<1>4. CASE Getchs(t) /\ SysGetchsWait(t)
  <2>1. Blocks(t, "TS_HANG", "getchs") /\ t # Idle /\ UNCHANGED kmailVars
        /\ swi[t] # "sendm"
    BY <1>4, TtyAssumption DEF Getchs, SysGetchsWait, Blocks
  <2> QED
    BY <2>1, BlockHidden DEF Swi
<1>5. CASE Getchs(t) /\ SysGetchsTake(t)
  BY <1>5, BackHidden
  DEF Getchs, SysGetchsTake, schedVars, kmailVars, queueVars, bufferVars
<1> QED
  BY <1>1, <1>2, <1>3, <1>4, <1>5 DEF GoOn, Recvm, Getchs

LEMMA SendmIsCall ==
  ASSUME ServersSendNoMail, CallInv, NEW t \in Task, Sendm(t) PROVE Rpc!Next
<1>2. PICK d \in Dest[t], m \in Msg :
        /\ d \in Task /\ d # t /\ mailto[d] = None /\ swi[t] = "none"
        /\ mailto' = [mailto EXCEPT ![t] = d]
        /\ text' = [text EXCEPT ![t] = m]
        /\ swi' = [swi EXCEPT ![t] = "sendm"]
        /\ state' = [state EXCEPT ![t] = "TS_SEND", ![d] = "TS_RUN"]
  BY SendmEffect
<1>3. state[d] # "TS_SEND"
  BY <1>2 DEF CallInv, SendersCall
<1>4. Phase[t] = "idle" /\ Phase' = [Phase EXCEPT ![t] = "asked"]
  BY <1>2, <1>3 DEF CallInv, TypeOK, SchedTypeOK, Phase
<1>5. Rpc!Call(t, d, m)
  BY <1>2, <1>4 DEF Rpc!Call
<1> QED
  BY <1>5 DEF Rpc!Next

LEMMA ReplymIsReply == ASSUME CallInv, NEW t \in Task, Replym(t) PROVE Rpc!Next
<1> DEFINE p == head[t]
<1>1. /\ p \in Task /\ Waits(p, t) /\ mailto[p] = t /\ inbox[t] = text[p]
      /\ text' = [text EXCEPT ![p] = Rpc!Answer(t, inbox[t])]
      /\ state' = [state EXCEPT ![p] = "TS_RUN"]
      /\ mailto' = [mailto EXCEPT ![p] = None]
      /\ swi' = swi
  BY ReplymEffect
<1> HIDE DEF p
<1>2. Phase[p] = "asked" /\ Phase' = [Phase EXCEPT ![p] = "answered"]
  BY <1>1 DEF CallInv, TypeOK, SchedTypeOK, Waits, Phase
<1>3. text' = [text EXCEPT ![p] = Rpc!Answer(mailto[p], @)]
  BY <1>1
<1>4. Rpc!Reply(p)
  BY <1>1, <1>2, <1>3 DEF Rpc!Reply
<1> QED
  BY <1>1, <1>4 DEF Rpc!Next

LEMMA SendmReturnIsReturn ==
  ASSUME CallInv, NEW t \in Task, SendmReturn(t) PROVE Rpc!Next
<1>1. /\ current_p = t /\ swi[t] = "sendm" /\ swi' = [swi EXCEPT ![t] = "none"]
      /\ UNCHANGED <<state, mailto, text>>
  BY DEF SendmReturn, Return, schedVars, kmailVars, queueVars, bufferVars
<1>2. state[t] = "TS_RUN"
  BY <1>1, RunnerIsFree
<1>3. Phase[t] = "answered" /\ Phase' = [Phase EXCEPT ![t] = "idle"]
  BY <1>1, <1>2 DEF CallInv, TypeOK, SchedTypeOK, Phase
<1>4. Rpc!Return(t)
  BY <1>1, <1>3 DEF Rpc!Return
<1> QED
  BY <1>4 DEF Rpc!Next

LEMMA StepIsRpcStep ==
  ASSUME ServersSendNoMail, CallInv, [Next]_vars
  PROVE  [Rpc!Next]_(Rpc!vars)
<1> SUFFICES Rpc!Next \/ UNCHANGED Rpc!vars
  OBVIOUS
<1>1. CASE Timer
  BY <1>1, TimerHidden
<1>2. CASE \E c \in Typed : Uart(c)
  BY <1>2, UartHidden
<1>3. ASSUME NEW t \in Task, GoOn(t) PROVE Rpc!Next \/ UNCHANGED Rpc!vars
  BY <1>3, GoOnStep, ReplymIsReply, SendmReturnIsReturn
<1>4. ASSUME NEW t \in Task, Choose(t) PROVE Rpc!Next \/ UNCHANGED Rpc!vars
  <2>1. CASE Sendm(t)
    BY <2>1, SendmIsCall
  <2>2. CASE Pause(t)
    <3>1. Blocks(t, "TS_HANG", "pause") /\ t # Idle /\ UNCHANGED kmailVars
          /\ swi[t] # "sendm"
      BY <2>2, PrioAssumption DEF Pause, SysPause, InUser, Blocks
    <3> QED
      BY <3>1, BlockHidden DEF Swi
  <2> QED
    BY <1>4, <2>1, <2>2 DEF Choose
<1>5. CASE UNCHANGED vars
  BY <1>5, HiddenStep
  DEF vars, schedVars, kmailVars, queueVars, bufferVars
<1> QED
  BY <1>1, <1>2, <1>3, <1>4, <1>5 DEF Next

(***************************************************************************)
(* sendm() returns only with the answer of the task it was sent to, for    *)
(* any number of clients and servers (kmail.c:41-179, lib/mail.c:5-8).     *)
(***************************************************************************)
THEOREM KmailImplementsRpc == ASSUME OneClientEach PROVE Spec => RpcSpec
<1>1. IInv /\ [Next]_vars => [Rpc!Next]_(Rpc!vars)
  BY StepIsRpcStep DEF IInv, OneClientEach
<1> QED
  BY <1>1, InitIsRpcInit, Invariant, PTL DEF Spec, RpcSpec, Rpc!Spec

-----------------------------------------------------------------------------
(***************************************************************************)
(* Sleepers.  The interrupt only ever makes tasks runnable, and the end of *)
(* a line always does so to the sleeper.                                   *)
(***************************************************************************)
LEMMA TimerState == ASSUME CallInv, Timer PROVE state' = state
<1>1. Charged \in [Task -> 0..(PL_MAX - 1)]
  BY DEF CallInv, TypeOK, SchedTypeOK, Charged, PL_MAX
<1> QED
  BY <1>1, ScheduleStep DEF Timer, DoTimer0, CallInv, TypeOK, SchedTypeOK, RunnersRun

LEMMA UartState ==
  ASSUME CallInv, NEW c \in Typed, Uart(c)
  PROVE  /\ \A t \in Task : state'[t] \in {state[t], "TS_RUN"}
         /\ EndsLine(c) /\ state[sleep_pid] = "TS_HANG" => state'[sleep_pid] = "TS_RUN"
         /\ ~EndsLine(c) => UNCHANGED sleep_pid
<1> DEFINE st == [state EXCEPT ![sleep_pid] = "TS_RUN"]
<1>1. CASE EndsLine(c) /\ (sleep_pid # 0 \/ state[sleep_pid] = "TS_HANG")
           /\ state[sleep_pid] # "TS_RUN"
  <2>1. Schedule(st, tick)
    BY <1>1 DEF Uart, UartRecv, WakeSleeper, WakeTask
  <2>2. sleep_pid \in Task
    BY DEF CallInv, TypeOK, TtyTypeOK
  <2>3. st \in [Task -> TaskState] /\ st[Idle] = "TS_RUN"
    BY <2>2, IdleIsTask DEF CallInv, TypeOK, SchedTypeOK, RunnersRun, TaskState
  <2>4. state' = st
    BY <2>1, <2>3, ScheduleStep DEF CallInv, TypeOK, SchedTypeOK
  <2> QED
    BY <1>1, <2>2, <2>4 DEF CallInv, TypeOK, SchedTypeOK
<1>2. CASE EndsLine(c) /\ state[sleep_pid] = "TS_RUN"
  BY <1>2 DEF Uart, UartRecv, WakeSleeper, WakeTask, schedVars
<1>3. CASE EndsLine(c) /\ sleep_pid = 0 /\ state[sleep_pid] # "TS_HANG"
  BY <1>3 DEF Uart, UartRecv, WakeSleeper, schedVars
<1>4. CASE ~EndsLine(c)
  BY <1>4 DEF Uart, UartRecv, schedVars
<1> QED
  BY <1>1, <1>2, <1>3, <1>4

(***************************************************************************)
(* What a call does to the task states, for the calls that put a task to   *)
(* sleep or wake one.                                                      *)
(***************************************************************************)
LEMMA BlockState ==
  ASSUME CallInv, NEW t \in Task
  PROVE  /\ Pause(t) => /\ state' = [state EXCEPT ![t] = "TS_HANG"]
                        /\ swi' = [swi EXCEPT ![t] = "pause"]
         /\ SysRecvmWait(t) => state' = [state EXCEPT ![t] = "TS_RECV"]
         /\ SysGetchsWait(t) => state' = [state EXCEPT ![t] = "TS_HANG"]
<1>1. Pause(t) => /\ Blocks(t, "TS_HANG", "pause") /\ t # Idle
                  /\ swi' = [swi EXCEPT ![t] = "pause"]
  BY PrioAssumption DEF Pause, SysPause, InUser, Blocks
<1>2. SysRecvmWait(t) => Blocks(t, "TS_RECV", "recvm") /\ t # Idle
  BY KmailAssumption DEF SysRecvmWait, MayReceive, Server, Blocks
<1>3. SysGetchsWait(t) => Blocks(t, "TS_HANG", "getchs") /\ t # Idle
  BY TtyAssumption DEF SysGetchsWait, Blocks
<1> QED
  BY <1>1, <1>2, <1>3, BlockStep DEF Swi

LEMMA NoSleepOnMailStep ==
  ASSUME ServersSendNoMail, CallInv, NoSleepOnMail, [Next]_vars
  PROVE  NoSleepOnMail'
<1> SUFFICES ASSUME NEW u \in Task, state'[u] = "TS_RECV"
             PROVE  head'[u] = None
  BY DEF NoSleepOnMail
<1>t. TypeOK
  BY DEF CallInv
<1>1. CASE UNCHANGED head /\ state'[u] \in {state[u], "TS_RUN"}
  BY <1>1 DEF NoSleepOnMail
<1>2. CASE Timer
  BY <1>1, <1>2, TimerState DEF Timer, kmailVars, queueVars
<1>3. CASE \E c \in Typed : Uart(c)
  BY <1>1, <1>3, UartState DEF Uart, kmailVars, queueVars
<1>4. ASSUME NEW t \in Task, GoOn(t) PROVE head'[u] = None
  <2>1. CASE PauseReturn(t) \/ SendmReturn(t)
    BY <1>1, <2>1
    DEF PauseReturn, SendmReturn, Return, schedVars, kmailVars, queueVars
  <2>2. CASE SysRecvmWait(t)
    BY <2>2, BlockState, <1>1, <1>t
    DEF SysRecvmWait, TypeOK, SchedTypeOK, kmailVars, queueVars
  <2>3. CASE SysRecvmTake(t)
    BY <2>3, <1>1 DEF SysRecvmTake, schedVars, queueVars
  <2>4. CASE Replym(t)
    <3>1. /\ head[t] \in Task /\ Dequeue(t, head[t]) /\ state[t] = "TS_RUN"
          /\ state' = [state EXCEPT ![head[t]] = "TS_RUN"]
      BY <2>4, ReplymEffect, RunnerIsFree
    <3>2. u # t /\ state[u] = "TS_RECV"
      BY <3>1, <1>t DEF TypeOK, SchedTypeOK
    <3> QED
      BY <3>1, <3>2, <1>t DEF Dequeue, NoSleepOnMail, TypeOK, KmailTypeOK, Link
  <2>5. CASE Getchs(t) /\ SysGetchsWait(t)
    BY <2>5, BlockState, <1>1, <1>t
    DEF Getchs, TypeOK, SchedTypeOK, kmailVars, queueVars
  <2>6. CASE Getchs(t) /\ SysGetchsTake(t)
    BY <2>6, <1>1 DEF Getchs, SysGetchsTake, schedVars, kmailVars, queueVars
  <2> QED
    BY <1>4, <2>1, <2>2, <2>3, <2>4, <2>5, <2>6 DEF GoOn, Recvm, Getchs
<1>5. ASSUME NEW t \in Task, Choose(t) PROVE head'[u] = None
  <2>1. CASE Sendm(t)
    <3>1. PICK d \in Dest[t] :
            /\ d \in Task /\ d # t /\ Enqueue(d, t)
            /\ state' = [state EXCEPT ![t] = "TS_SEND", ![d] = "TS_RUN"]
      BY <2>1, SendmEffect
    <3>2. u # d /\ state[u] = "TS_RECV"
      BY <3>1, <1>t DEF TypeOK, SchedTypeOK
    <3> QED
      BY <3>1, <3>2, <1>t DEF Enqueue, NoSleepOnMail, TypeOK, KmailTypeOK, Link
  <2>2. CASE Pause(t)
    BY <2>2, BlockState, <1>1, <1>t
    DEF Pause, TypeOK, SchedTypeOK, kmailVars, queueVars
  <2> QED
    BY <1>5, <2>1, <2>2 DEF Choose
<1>6. CASE UNCHANGED vars
  BY <1>1, <1>6 DEF vars, schedVars, kmailVars, queueVars
<1> QED
  BY <1>2, <1>3, <1>4, <1>5, <1>6 DEF Next

(***************************************************************************)
(* No task sleeps in recvm() while a sender waits for it (kmail.c:56-66,   *)
(* 122-128).                                                               *)
(***************************************************************************)
THEOREM ReceiversAwake == ASSUME OneClientEach PROVE Spec => []NoSleepOnMail
<1>1. Init => NoSleepOnMail
  BY DEF Init, KmailInit, NoSleepOnMail
<1>2. IInv /\ NoSleepOnMail /\ [Next]_vars => NoSleepOnMail'
  BY NoSleepOnMailStep DEF IInv, OneClientEach
<1> QED
  BY <1>1, <1>2, Invariant, PTL DEF Spec

-----------------------------------------------------------------------------
(***************************************************************************)
(* A second reader would overwrite sleep_pid (tty.c:68): with one reader   *)
(* the sleeper is known.                                                   *)
(***************************************************************************)
ReadersRead == \A t \in Task : swi[t] = "getchs" => t \in Reader

ConsoleInv == ReadersRead /\ NoLostWakeup

LEMMA StoresLine ==
  ASSUME TtyTypeOK, NEW c \in Typed, ~EndsLine(c), ~LineWaits, chs' = Stores(c)
  PROVE  ~LineWaits'
<1>1. c # "cr"
  BY DEF EndsLine
<1>2. CASE c = "bs"
  <2>1. Stores(c) = IF chs = <<>> THEN chs ELSE SubSeq(chs, 1, Len(chs) - 1)
    BY <1>2 DEF Stores
  <2> QED
    BY <2>1 DEF LineWaits, TtyTypeOK
<1>3. CASE c = "esc"
  <2>1. Stores(c) = chs
    BY <1>3 DEF Stores
  <2> QED
    BY <2>1 DEF LineWaits
<1>4. CASE c = "ch"
  <2>1. Stores(c) = Append(chs, "ch")
    BY <1>4 DEF Stores
  <2> QED
    BY <2>1 DEF LineWaits, TtyTypeOK, Stored
<1> QED
  BY <1>1, <1>2, <1>3, <1>4 DEF Typed

LEMMA ConsoleInvStep ==
  ASSUME ServersSendNoMail, OneReader, CallInv, ConsoleInv, [Next]_vars
  PROVE  ConsoleInv'
<1>t. TypeOK
  BY DEF CallInv
<1>k. ASSUME UNCHANGED <<sleep_pid, chs>>,
             \A u \in Task : state'[u] = "TS_HANG" /\ swi'[u] = "getchs" =>
                               state[u] = "TS_HANG" /\ swi[u] = "getchs"
      PROVE  NoLostWakeup'
  BY <1>k DEF ConsoleInv, NoLostWakeup, LineWaits
<1>1. CASE Timer
  BY <1>1, <1>k, TimerState
  DEF Timer, DoTimer0, ttyVars, ConsoleInv, ReadersRead
<1>2. ASSUME NEW c \in Typed, Uart(c) PROVE ConsoleInv'
  <2>1. chs' = Stores(c) /\ UNCHANGED swi
    BY <1>2 DEF Uart, UartRecv
  <2> SUFFICES ASSUME NEW u \in Task, state'[u] = "TS_HANG", swi[u] = "getchs"
               PROVE  sleep_pid' = u /\ ~LineWaits'
    BY <2>1 DEF ConsoleInv, ReadersRead, NoLostWakeup
  <2>2. state[u] = "TS_HANG" /\ sleep_pid = u /\ ~LineWaits
    BY <1>2, UartState DEF ConsoleInv, NoLostWakeup
  <2>3. ~EndsLine(c) /\ UNCHANGED sleep_pid
    BY <1>2, <2>2, UartState
  <2> QED
    BY <2>1, <2>2, <2>3, <1>t, StoresLine DEF TypeOK
<1>3. ASSUME NEW t \in Task, GoOn(t) PROVE ConsoleInv'
  <2>1. CASE PauseReturn(t) \/ SendmReturn(t)
    BY <2>1, <1>k, <1>t
    DEF PauseReturn, SendmReturn, Return, schedVars, ttyVars, ConsoleInv,
        ReadersRead, TypeOK, SchedTypeOK
  <2>2. CASE Recvm(t) /\ SysRecvmWait(t)
    BY <2>2, <1>k, <1>t, BlockState
    DEF Recvm, SysRecvmWait, ttyVars, ConsoleInv, ReadersRead, TypeOK, SchedTypeOK
  <2>3. CASE Recvm(t) /\ SysRecvmTake(t)
    BY <2>3, <1>k, <1>t
    DEF Recvm, SysRecvmTake, schedVars, ttyVars, ConsoleInv, ReadersRead, TypeOK,
        SchedTypeOK
  <2>4. CASE Replym(t)
    BY <2>4, <1>k, <1>t, ReplymEffect
    DEF ConsoleInv, ReadersRead, TypeOK, SchedTypeOK
  <2>5. CASE Getchs(t) /\ SysGetchsWait(t)
    <3>1. /\ t \in Reader /\ t \in Task /\ chs' = <<>> /\ sleep_pid' = t
          /\ swi' = [swi EXCEPT ![t] = "getchs"]
      BY <2>5 DEF SysGetchsWait
    <3>2. ReadersRead'
      BY <3>1, <1>t DEF ConsoleInv, ReadersRead, TypeOK, SchedTypeOK
    <3>3. \A u \in Task : swi'[u] = "getchs" => u = t
      BY <3>1, <3>2 DEF ReadersRead, OneReader
    <3> QED
      BY <3>1, <3>2, <3>3 DEF ConsoleInv, NoLostWakeup, LineWaits
  <2>6. CASE Getchs(t) /\ SysGetchsTake(t)
    <3>1. /\ t \in Reader /\ swi' = [swi EXCEPT ![t] = "none"]
      BY <2>6 DEF SysGetchsTake
    <3>2. ReadersRead'
      BY <3>1, <1>t DEF ConsoleInv, ReadersRead, TypeOK, SchedTypeOK
    <3>3. \A u \in Task : swi'[u] # "getchs"
      BY <3>1, <3>2, <1>t DEF ReadersRead, OneReader, TypeOK, SchedTypeOK
    <3> QED
      BY <3>2, <3>3 DEF ConsoleInv, NoLostWakeup
  <2> QED
    BY <1>3, <2>1, <2>2, <2>3, <2>4, <2>5, <2>6 DEF GoOn, Recvm, Getchs
<1>4. ASSUME NEW t \in Task, Choose(t) PROVE ConsoleInv'
  <2>1. CASE Sendm(t)
    <3>1. PICK d \in Dest[t] :
            /\ d \in Task /\ swi' = [swi EXCEPT ![t] = "sendm"]
            /\ state' = [state EXCEPT ![t] = "TS_SEND", ![d] = "TS_RUN"]
            /\ UNCHANGED <<chs, sleep_pid>>
      BY <2>1, SendmEffect
    <3> QED
      BY <3>1, <1>k, <1>t DEF ConsoleInv, ReadersRead, TypeOK, SchedTypeOK
  <2>2. CASE Pause(t)
    BY <2>2, <1>k, <1>t, BlockState
    DEF Pause, ttyVars, ConsoleInv, ReadersRead, TypeOK, SchedTypeOK
  <2> QED
    BY <1>4, <2>1, <2>2 DEF Choose
<1>5. CASE UNCHANGED vars
  BY <1>5, <1>k DEF vars, schedVars, ttyVars, ConsoleInv, ReadersRead
<1> QED
  BY <1>1, <1>2, <1>3, <1>4, <1>5 DEF Next

(***************************************************************************)
(* No line is lost on a sleeping reader: a task asleep in getchs is the    *)
(* one the UART interrupt will wake, and no line waits (tty.c:37-43,       *)
(* 65-71).                                                                 *)
(***************************************************************************)
THEOREM ReaderIsWoken ==
  ASSUME OneClientEach, OneReader PROVE Spec => []NoLostWakeup
<1>1. Init => ConsoleInv
  BY DEF Init, SchedInit, ConsoleInv, ReadersRead, NoLostWakeup
<1>2. IInv /\ ConsoleInv /\ [Next]_vars => ConsoleInv'
  BY ConsoleInvStep DEF IInv, OneClientEach
<1>3. ConsoleInv => NoLostWakeup
  BY DEF ConsoleInv
<1> QED
  BY <1>1, <1>2, <1>3, Invariant, PTL DEF Spec

-----------------------------------------------------------------------------
LEMMA CallersNextIsNext ==
  /\ CallersNext => Next
  /\ [CallersNext]_callersVars => [Next]_vars
BY NextIsQuietOrMail
DEF CallersNext, callersVars, QuietNext, Calls, Replies

(***************************************************************************)
(* What the order says of one queue.                                       *)
(***************************************************************************)
LEMMA OrderOf ==
  ASSUME OrderInv, NEW s \in Task
  PROVE  LET q == arrivals[s] IN
         /\ q \in Seq(Task) /\ Len(q) \in Nat
         /\ \A i \in 1..Len(q) : q[i] \in Task /\ mailto[q[i]] = s
         /\ \A i, j \in 1..Len(q) : q[i] = q[j] => i = j
         /\ head[s] = None <=> q = <<>>
         /\ q # <<>> =>
              /\ Len(q) >= 1 /\ head[s] = q[1] /\ tail[s] = q[Len(q)]
              /\ \A i \in 1..(Len(q) - 1) : next[q[i]] = q[i + 1]
              /\ next[q[Len(q)]] = None
<1> DEFINE q == arrivals[s]
<1>1. q \in Seq(Task) /\ Len(q) \in Nat
  BY DEF OrderInv
<1>2. \A i \in 1..Len(q) : q[i] \in Task /\ mailto[q[i]] = s
  BY <1>1 DEF OrderInv, ArrivedCall
<1>3. \A i, j \in 1..Len(q) : q[i] = q[j] => i = j
  BY DEF OrderInv, ArrivedOnce
<1>4. q # <<>> => Len(q) >= 1
  BY <1>1
<1>5. IF q = <<>> THEN head[s] = None /\ tail[s] = None
      ELSE /\ head[s] = q[1] /\ tail[s] = q[Len(q)]
           /\ \A i \in 1..(Len(q) - 1) : next[q[i]] = q[i + 1]
           /\ next[q[Len(q)]] = None
  BY DEF OrderInv, QueueInOrder
<1>6. q # <<>> => head[s] # None
  BY <1>1, <1>2, <1>4, <1>5, NoneIsNoTask
<1> QED
  BY <1>1, <1>2, <1>3, <1>4, <1>5, <1>6

LEMMA OrderInvInit == CallersInit => OrderInv
<1> SUFFICES ASSUME CallersInit PROVE OrderInv
  OBVIOUS
<1>1. Init /\ arrivals = [t \in Task |-> <<>>]
  BY DEF CallersInit
<1>2. CallInv
  BY <1>1, InitCallInv
<1>3. \A s \in Task : arrivals[s] = <<>> /\ mailto[s] = None
                      /\ head[s] = None /\ tail[s] = None
  BY <1>1 DEF Init, KmailInit
<1> QED
  BY <1>1, <1>2, <1>3
  DEF OrderInv, ArrivedCall, CallersArrived, ArrivedOnce, QueueInOrder

LEMMA QuietKeepsOrder ==
  ASSUME OrderInv, CallInv', Quiet, UNCHANGED arrivals PROVE OrderInv'
<1>1. UNCHANGED <<head, tail, next, mailto, arrivals>>
  BY DEF Quiet, queueVars
<1> QED
  BY <1>1
  DEF OrderInv, ArrivedCall, CallersArrived, ArrivedOnce, QueueInOrder

(***************************************************************************)
(* A call appends the caller, which is in no queue and whose link is clear *)
(* or is cleared.                                                          *)
(***************************************************************************)
LEMMA CallsKeepsOrder ==
  ASSUME ServersSendNoMail, OrderInv, NEW t \in Task, Calls(t) PROVE OrderInv'
<1>c. CallInv /\ CallInv' /\ Sendm(t)
  BY SendmKeepsCalls DEF OrderInv, Calls
<1>t. /\ head \in Link /\ tail \in Link /\ next \in Link /\ mailto \in Link
      /\ arrivals \in [Task -> Seq(Task)]
  BY DEF OrderInv, CallInv, TypeOK, KmailTypeOK
<1>1. PICK d \in Dest[t] :
        /\ d \in Task /\ d # t /\ mailto[t] = None
        /\ Enqueue(d, t) /\ mailto' = [mailto EXCEPT ![t] = d]
  BY <1>c, SendmEffect
<1> DEFINE q == arrivals[d]
<1>2. /\ next[t] = None \/ head[d] = None
      /\ arrivals' = [arrivals EXCEPT ![d] = Append(q, t)]
  <2>1. PICK e \in Dest[t] : Arrive(t, e)
    BY DEF Calls
  <2>2. e = d
    BY <1>1, <1>t, <2>1 DEF Arrive, Link
  <2> QED
    BY <2>1, <2>2 DEF Arrive
<1>3. /\ q \in Seq(Task) /\ Len(q) \in Nat
      /\ arrivals'[d] = Append(q, t) /\ Len(Append(q, t)) = Len(q) + 1
      /\ Append(q, t)[Len(q) + 1] = t
      /\ \A i \in 1..Len(q) : Append(q, t)[i] = q[i]
      /\ \A s \in Task \ {d} : arrivals'[s] = arrivals[s]
  BY <1>1, <1>2, <1>t
<1>4. \A s \in Task : \A i \in 1..Len(arrivals[s]) :
        arrivals[s][i] \in Task /\ mailto[arrivals[s][i]] = s
        /\ arrivals[s][i] # t
  BY <1>1, OrderOf, NoneIsNoTask
<1>5. arrivals' \in [Task -> Seq(Task)]
  BY <1>2, <1>t, <1>1
<1>6. ArrivedCall'
  <2> SUFFICES ASSUME NEW s \in Task, NEW i \in 1..Len(arrivals'[s])
               PROVE  mailto'[arrivals'[s][i]] = s
    BY DEF ArrivedCall
  <2>1. CASE s = d
    <3>1. CASE i = Len(q) + 1
      BY <3>1, <2>1, <1>1, <1>3, <1>t DEF Link
    <3>2. CASE i # Len(q) + 1
      <4>1. i \in 1..Len(q)
        BY <3>2, <2>1, <1>3
      <4> QED
        BY <4>1, <2>1, <1>1, <1>3, <1>4, <1>t DEF Link
    <3> QED
      BY <3>1, <3>2
  <2>2. CASE s # d
    <3>1. arrivals'[s] = arrivals[s]
      BY <2>2, <1>3
    <3> QED
      BY <3>1, <1>1, <1>4, <1>t DEF Link
  <2> QED
    BY <2>1, <2>2
<1>7. CallersArrived'
  <2> SUFFICES ASSUME NEW c \in Task, mailto'[c] # None
               PROVE  \E i \in 1..Len(arrivals'[mailto'[c]]) :
                        arrivals'[mailto'[c]][i] = c
    BY DEF CallersArrived
  <2>1. CASE c = t
    <3>1. mailto'[c] = d
      BY <2>1, <1>1, <1>t DEF Link
    <3>2. Len(q) + 1 \in 1..Len(arrivals'[d]) /\ arrivals'[d][Len(q) + 1] = c
      BY <2>1, <1>3
    <3> QED
      BY <3>1, <3>2
  <2>2. CASE c # t
    <3>1. mailto'[c] = mailto[c] /\ mailto[c] # None /\ mailto[c] \in Task
      BY <2>2, <1>1, <1>t DEF Link
    <3>2. PICK i \in 1..Len(arrivals[mailto[c]]) : arrivals[mailto[c]][i] = c
      BY <3>1 DEF OrderInv, CallersArrived
    <3>3. i \in 1..Len(arrivals'[mailto[c]]) /\ arrivals'[mailto[c]][i] = c
      BY <3>1, <3>2, <1>3
    <3> QED
      BY <3>1, <3>3
  <2> QED
    BY <2>1, <2>2
<1>8. ArrivedOnce'
  <2> SUFFICES ASSUME NEW s \in Task,
                      NEW i \in 1..Len(arrivals'[s]), NEW j \in 1..Len(arrivals'[s]),
                      arrivals'[s][i] = arrivals'[s][j]
               PROVE  i = j
    BY DEF ArrivedOnce
  <2>1. CASE s = d
    <3>1. \A k \in 1..Len(arrivals'[s]) :
            \/ k = Len(q) + 1 /\ arrivals'[s][k] = t
            \/ k \in 1..Len(q) /\ arrivals'[s][k] = q[k] /\ q[k] # t
      BY <2>1, <1>1, <1>3, <1>4
    <3>2. \A k, l \in 1..Len(q) : q[k] = q[l] => k = l
      BY <1>1, OrderOf
    <3> QED
      BY <3>1, <3>2
  <2>2. CASE s # d
    BY <2>2, <1>3, OrderOf
  <2> QED
    BY <2>1, <2>2
<1>9. QueueInOrder'
  <2> SUFFICES ASSUME NEW s \in Task
               PROVE  LET p == arrivals'[s] IN
                      IF p = <<>> THEN head'[s] = None /\ tail'[s] = None
                      ELSE /\ head'[s] = p[1] /\ tail'[s] = p[Len(p)]
                           /\ \A i \in 1..(Len(p) - 1) : next'[p[i]] = p[i + 1]
                           /\ next'[p[Len(p)]] = None
    BY DEF QueueInOrder
  <2>1. CASE s # d
    <3>1. arrivals'[s] = arrivals[s] /\ head'[s] = head[s] /\ tail'[s] = tail[s]
      BY <2>1, <1>1, <1>3, <1>t DEF Enqueue, Link
    <3>2. \A i \in 1..Len(arrivals[s]) : next'[arrivals[s][i]] = next[arrivals[s][i]]
      <4>1. q # <<>> => tail[d] \in Task /\ mailto[tail[d]] = d
        BY <1>1, OrderOf
      <4>2. head[d] = None <=> q = <<>>
        BY <1>1, OrderOf
      <4> QED
        BY <4>1, <4>2, <2>1, <1>1, <1>4, <1>t DEF Enqueue, Link
    <3> DEFINE p == arrivals[s]
    <3>3. IF p = <<>> THEN head[s] = None /\ tail[s] = None
          ELSE /\ head[s] = p[1] /\ tail[s] = p[Len(p)]
               /\ \A i \in 1..(Len(p) - 1) : next[p[i]] = p[i + 1]
               /\ next[p[Len(p)]] = None
      BY DEF OrderInv, QueueInOrder
    <3>4. Len(p) \in Nat /\ (p # <<>> => Len(p) >= 1)
      BY OrderOf
    <3> HIDE DEF p
    <3>5. p # <<>> => Len(p) \in 1..Len(p)
      BY <3>4
    <3>6. \A i \in 1..(Len(p) - 1) : i \in 1..Len(p)
      BY <3>4
    <3> QED
      BY <3>1, <3>2, <3>3, <3>5, <3>6 DEF p
  <2>2. CASE s = d /\ q = <<>>
    <3>1. /\ head'[d] = t /\ tail'[d] = t /\ next'[t] = None
      BY <2>2, <1>1, <1>t, OrderOf DEF Enqueue, Link
    <3>2. arrivals'[d] = <<t>>
      BY <2>2, <1>3
    <3>3. arrivals'[d] # <<>> /\ Len(<<t>>) = 1 /\ <<t>>[1] = t
      BY <3>2
    <3> QED
      BY <2>2, <3>1, <3>2, <3>3
  <2>3. CASE s = d /\ q # <<>>
    <3>1. /\ Len(q) >= 1 /\ head[d] = q[1] /\ tail[d] = q[Len(q)] /\ head[d] # None
          /\ \A i \in 1..(Len(q) - 1) : next[q[i]] = q[i + 1]
          /\ \A i, j \in 1..Len(q) : q[i] = q[j] => i = j
      BY <2>3, <1>1, OrderOf
    <3>2. /\ head'[d] = q[1] /\ tail'[d] = t
          /\ next' = [next EXCEPT ![q[Len(q)]] = t] /\ next[t] = None
      BY <3>1, <1>1, <1>2, <1>t DEF Enqueue, Link
    <3>3. /\ next'[q[Len(q)]] = t /\ next'[t] = None
          /\ \A i \in 1..(Len(q) - 1) : next'[q[i]] = q[i + 1]
      BY <3>1, <3>2, <1>1, <1>4, <1>t DEF Link
    <3>4. \A i \in 1..Len(q) : next'[Append(q, t)[i]] = Append(q, t)[i + 1]
      <4> TAKE i \in 1..Len(q)
      <4>1. CASE i = Len(q)
        BY <4>1, <3>1, <3>3, <1>3
      <4>2. CASE i # Len(q)
        <5>1. i \in 1..(Len(q) - 1) /\ i + 1 \in 1..Len(q)
          BY <4>2, <1>3
        <5> QED
          BY <5>1, <3>3, <1>3
      <4> QED
        BY <4>1, <4>2
    <3> QED
      BY <2>3, <3>1, <3>2, <3>3, <3>4, <1>3
  <2> QED
    BY <2>1, <2>2, <2>3
<1> QED
  BY <1>c, <1>5, <1>6, <1>7, <1>8, <1>9 DEF OrderInv

-----------------------------------------------------------------------------
(***************************************************************************)
(* A reply takes the first caller out of the order and moves the head to   *)
(* the second one; the link of the last caller is clear.                   *)
(***************************************************************************)
LEMMA RemoveFirstIsTail ==
  ASSUME NEW q \in Seq(Task), q # <<>>
  PROVE  /\ RemoveAt(q, 1) \in Seq(Task)
         /\ Len(RemoveAt(q, 1)) = Len(q) - 1
         /\ \A i \in 1..(Len(q) - 1) : RemoveAt(q, 1)[i] = q[i + 1]
<1>1. SubSeq(q, 1, 1 - 1) = <<>>
  BY SubSeqEmpty
<1>2. /\ SubSeq(q, 1 + 1, Len(q)) \in Seq(Task)
      /\ Len(SubSeq(q, 1 + 1, Len(q))) = Len(q) - 1
      /\ \A i \in 1..(Len(q) - 1) : SubSeq(q, 1 + 1, Len(q))[i] = q[i + 1]
  <2>1. Len(q) \in Nat /\ Len(q) >= 1 /\ \A i \in 2..Len(q) : q[i] \in Task
    OBVIOUS
  <2>2. /\ SubSeq(q, 2, Len(q)) \in Seq(Task)
        /\ Len(SubSeq(q, 2, Len(q))) = IF 2 <= Len(q) THEN Len(q) - 2 + 1 ELSE 0
        /\ \A i \in 1..(Len(q) - 2 + 1) :
             SubSeq(q, 2, Len(q))[i] = q[2 + i - 1]
    BY <2>1, SubSeqProperties
  <2>3. 1 + 1 = 2 /\ Len(q) - 2 + 1 = Len(q) - 1
    BY <2>1
  <2>4. \A i \in 1..(Len(q) - 1) : 2 + i - 1 = i + 1
    BY <2>1
  <2> QED
    BY <2>1, <2>2, <2>3, <2>4
<1>3. RemoveAt(q, 1) = SubSeq(q, 1 + 1, Len(q))
  BY <1>1, <1>2, ConcatEmptySeq DEF RemoveAt
<1> QED
  BY <1>2, <1>3

LEMMA FirstGoesOn ==
  ASSUME OrderInv, NEW t \in Task, Replym(t)
  PROVE  /\ arrivals[t] # <<>> /\ head[t] = arrivals[t][1]
         /\ GoingOn(t) = {1} /\ LinkIsSender(t)
<1> DEFINE q == arrivals[t]
<1>1. /\ CallInv /\ head[t] \in Task
      /\ state' = [state EXCEPT ![head[t]] = "TS_RUN"]
  BY ReplymEffect DEF OrderInv
<1>2. /\ q # <<>> /\ head[t] = q[1] /\ Len(q) \in Nat /\ Len(q) >= 1
      /\ \A i \in 1..Len(q) : q[i] \in Task /\ mailto[q[i]] = t
      /\ \A i, j \in 1..Len(q) : q[i] = q[j] => i = j
      /\ \A i \in 1..(Len(q) - 1) : next[q[i]] = q[i + 1]
      /\ next[q[Len(q)]] = None
  BY <1>1, OrderOf, NoneIsNoTask
<1>3. \A i \in 1..Len(q) : state[q[i]] = "TS_SEND"
  BY <1>1, <1>2, NoneIsNoTask DEF CallInv, CallsWait, Waits
<1>4. state \in [Task -> TaskState]
  BY <1>1 DEF CallInv, TypeOK, SchedTypeOK
<1>5. \A i \in 1..Len(q) : state'[q[i]] = IF i = 1 THEN "TS_RUN" ELSE "TS_SEND"
  <2> TAKE i \in 1..Len(q)
  <2>1. i # 1 => q[i] # q[1]
    BY <1>2
  <2> QED
    BY <2>1, <1>1, <1>2, <1>3, <1>4
<1>6. GoingOn(t) = {1}
  BY <1>2, <1>5 DEF GoingOn
<1>7. LinkIsSender(t)
  <2> SUFFICES ASSUME next[q[1]] # None
               PROVE  next[q[1]] # q[1] /\ mailto[next[q[1]]] = t
    BY <1>2 DEF LinkIsSender
  <2>1. Len(q) >= 2
    BY <1>2
  <2>2. next[q[1]] = q[2] /\ 2 \in 1..Len(q) /\ 1 \in 1..Len(q)
    BY <2>1, <1>2
  <2> QED
    BY <2>2, <1>2
<1> QED
  BY <1>2, <1>6, <1>7

LEMMA RepliesKeepsOrder ==
  ASSUME OrderInv, NEW t \in Task, Replies(t) PROVE OrderInv'
<1> DEFINE q == arrivals[t]
           r == RemoveAt(q, 1)
<1>c. CallInv /\ CallInv' /\ Replym(t)
  BY FirstGoesOn, ReplymKeepsCalls DEF OrderInv, Replies
<1>t. /\ head \in Link /\ tail \in Link /\ next \in Link /\ mailto \in Link
      /\ arrivals \in [Task -> Seq(Task)]
  BY DEF OrderInv, CallInv, TypeOK, KmailTypeOK
<1>1. /\ mailto[t] = None /\ head[t] # t
      /\ mailto' = [mailto EXCEPT ![head[t]] = None] /\ Dequeue(t, head[t])
  BY <1>c, ReplymEffect
<1>2. /\ q # <<>> /\ head[t] = q[1] /\ q \in Seq(Task)
      /\ Len(q) \in Nat /\ Len(q) >= 1 /\ tail[t] = q[Len(q)]
      /\ \A i \in 1..Len(q) : q[i] \in Task /\ mailto[q[i]] = t
      /\ \A i, j \in 1..Len(q) : q[i] = q[j] => i = j
      /\ \A i \in 1..(Len(q) - 1) : next[q[i]] = q[i + 1]
      /\ next[q[Len(q)]] = None
  BY <1>c, FirstGoesOn, OrderOf
<1>3. arrivals' = [arrivals EXCEPT ![t] = r]
  BY <1>c, <1>t, FirstGoesOn DEF Replies
<1>4. /\ r \in Seq(Task) /\ Len(r) = Len(q) - 1
      /\ \A i \in 1..Len(r) : r[i] = q[i + 1] /\ i + 1 \in 1..Len(q)
      /\ arrivals'[t] = r
      /\ \A s \in Task \ {t} : arrivals'[s] = arrivals[s]
  <2>1. /\ r \in Seq(Task) /\ Len(r) = Len(q) - 1
        /\ \A i \in 1..(Len(q) - 1) : r[i] = q[i + 1]
    BY <1>2, RemoveFirstIsTail
  <2> HIDE DEF r
  <2> QED
    BY <2>1, <1>2, <1>3, <1>t
<1> HIDE DEF r
<1>5. \A s \in Task : \A i \in 1..Len(arrivals'[s]) :
        /\ arrivals'[s][i] \in Task /\ mailto[arrivals'[s][i]] = s
        /\ arrivals'[s][i] # q[1] /\ arrivals'[s][i] # t
  <2> TAKE s \in Task
  <2> TAKE i \in 1..Len(arrivals'[s])
  <2>1. CASE s = t
    <3>1. arrivals'[s][i] = q[i + 1] /\ i + 1 \in 1..Len(q) /\ 1 \in 1..Len(q)
          /\ i + 1 # 1
      BY <2>1, <1>4, <1>2
    <3>2. q[i + 1] # q[1] /\ q[i + 1] \in Task /\ mailto[q[i + 1]] = t
      BY <3>1, <1>2
    <3> QED
      BY <3>1, <3>2, <2>1, <1>1, NoneIsNoTask
  <2>2. CASE s # t
    <3>1. arrivals'[s][i] \in Task /\ mailto[arrivals'[s][i]] = s
      <4>1. arrivals'[s] = arrivals[s]
        BY <2>2, <1>4
      <4> QED
        BY <4>1, OrderOf
    <3>2. mailto[q[1]] = t /\ s # None
      BY <1>2, NoneIsNoTask
    <3> QED
      BY <3>1, <3>2, <2>2, <1>1
  <2> QED
    BY <2>1, <2>2
<1>6. arrivals' \in [Task -> Seq(Task)]
  BY <1>3, <1>4, <1>t
<1>7. ArrivedCall'
  <2> SUFFICES ASSUME NEW s \in Task, NEW i \in 1..Len(arrivals'[s])
               PROVE  mailto'[arrivals'[s][i]] = s
    BY DEF ArrivedCall
  <2> QED
    BY <1>1, <1>2, <1>5, <1>t DEF Link
<1>8. CallersArrived'
  <2> SUFFICES ASSUME NEW c \in Task, mailto'[c] # None
               PROVE  \E i \in 1..Len(arrivals'[mailto'[c]]) :
                        arrivals'[mailto'[c]][i] = c
    BY DEF CallersArrived
  <2>1. /\ c # q[1] /\ mailto'[c] = mailto[c] /\ mailto[c] # None
        /\ mailto[c] \in Task
    BY <1>1, <1>2, <1>t DEF Link
  <2>2. PICK i \in 1..Len(arrivals[mailto[c]]) : arrivals[mailto[c]][i] = c
    BY <2>1 DEF OrderInv, CallersArrived
  <2>3. CASE mailto[c] = t
    <3>1. i \in 1..Len(q) /\ i # 1 /\ q[i] = c
      BY <2>1, <2>2, <2>3
    <3>2. i - 1 \in 1..Len(r) /\ (i - 1) + 1 = i
      BY <3>1, <1>2, <1>4
    <3>3. r[i - 1] = c
      BY <3>1, <3>2, <1>4
    <3> QED
      BY <3>2, <3>3, <2>1, <2>3, <1>4
  <2>4. CASE mailto[c] # t
    BY <2>1, <2>2, <2>4, <1>4
  <2> QED
    BY <2>3, <2>4
<1>9. ArrivedOnce'
  <2> SUFFICES ASSUME NEW s \in Task,
                      NEW i \in 1..Len(arrivals'[s]), NEW j \in 1..Len(arrivals'[s]),
                      arrivals'[s][i] = arrivals'[s][j]
               PROVE  i = j
    BY DEF ArrivedOnce
  <2>1. CASE s = t
    <3>1. /\ q[i + 1] = q[j + 1] /\ i + 1 \in 1..Len(q) /\ j + 1 \in 1..Len(q)
      BY <2>1, <1>4
    <3>2. i + 1 = j + 1
      BY <3>1, <1>2
    <3> QED
      BY <3>2, <1>4, <2>1
  <2>2. CASE s # t
    BY <2>2, <1>4, OrderOf
  <2> QED
    BY <2>1, <2>2
<1>10. QueueInOrder'
  <2> SUFFICES ASSUME NEW s \in Task
               PROVE  LET p == arrivals'[s] IN
                      IF p = <<>> THEN head'[s] = None /\ tail'[s] = None
                      ELSE /\ head'[s] = p[1] /\ tail'[s] = p[Len(p)]
                           /\ \A i \in 1..(Len(p) - 1) : next'[p[i]] = p[i + 1]
                           /\ next'[p[Len(p)]] = None
    BY DEF QueueInOrder
  <2> DEFINE p == arrivals'[s]
  <2>1. \A i \in 1..Len(p) : next'[p[i]] = next[p[i]]
    BY <1>1, <1>5, <1>t DEF Dequeue, Link
  <2>2. CASE s # t
    <3>1. p = arrivals[s] /\ head'[s] = head[s] /\ tail'[s] = tail[s]
      BY <2>2, <1>1, <1>4, <1>t DEF Dequeue, Link
    <3>3. IF p = <<>> THEN head[s] = None /\ tail[s] = None
          ELSE /\ head[s] = p[1] /\ tail[s] = p[Len(p)]
               /\ \A i \in 1..(Len(p) - 1) : next[p[i]] = p[i + 1]
               /\ next[p[Len(p)]] = None
      BY <3>1 DEF OrderInv, QueueInOrder
    <3>4. Len(p) \in Nat /\ (p # <<>> => Len(p) >= 1)
      BY <3>1, OrderOf
    <3> HIDE DEF p
    <3>5. p # <<>> => Len(p) \in 1..Len(p)
      BY <3>4
    <3>6. \A i \in 1..(Len(p) - 1) : i \in 1..Len(p)
      BY <3>4
    <3> QED
      BY <3>1, <3>3, <3>5, <3>6, <2>1 DEF p
  <2>3. CASE s = t /\ Len(q) = 1
    <3>1. next[q[1]] = None
      BY <2>3, <1>2
    <3>2. head'[t] = None /\ tail'[t] = None
      BY <3>1, <1>1, <1>2, <1>t DEF Dequeue, Link
    <3>3. p = <<>>
      BY <2>3, <1>4
    <3> QED
      BY <2>3, <3>2, <3>3
  <2>4. CASE s = t /\ Len(q) # 1
    <3>1. Len(q) >= 2 /\ next[q[1]] = q[2] /\ q[2] \in Task
      <4> DEFINE n == Len(q)
      <4>0. n \in Nat /\ n >= 1 /\ n # 1
        BY <1>2, <2>4
      <4> HIDE DEF n
      <4>1. n >= 2 /\ 1 \in 1..(n - 1) /\ 2 \in 1..n
        BY <4>0
      <4> USE DEF n
      <4>2. next[q[1]] = q[1 + 1] /\ q[2] \in Task
        BY <4>1, <1>2
      <4>3. 1 + 1 = 2
        OBVIOUS
      <4> QED
        BY <4>1, <4>2, <4>3
    <3>2. head'[t] = q[2] /\ tail'[t] = q[Len(q)]
      BY <3>1, <1>1, <1>2, <1>t, NoneIsNoTask DEF Dequeue, Link
    <3>3. p = r /\ Len(p) >= 1 /\ Len(p) = Len(q) - 1
      BY <2>4, <3>1, <1>4
    <3>4. p # <<>> /\ p[1] = q[2] /\ p[Len(p)] = q[Len(q)]
      BY <3>1, <3>3, <1>4
    <3>5. next'[p[Len(p)]] = None
      BY <2>1, <3>3, <3>4, <1>2
    <3>6. \A i \in 1..(Len(p) - 1) : next'[p[i]] = p[i + 1]
      <4> TAKE i \in 1..(Len(p) - 1)
      <4>1. /\ i \in 1..Len(p) /\ i + 1 \in 1..Len(p)
            /\ i + 1 \in 1..(Len(q) - 1)
        BY <3>3, <1>2
      <4>2. p[i] = q[i + 1] /\ p[i + 1] = q[(i + 1) + 1]
        BY <4>1, <3>3, <1>4
      <4>3. next[q[i + 1]] = q[(i + 1) + 1]
        BY <4>1, <1>2
      <4> QED
        BY <4>1, <4>2, <4>3, <2>1
    <3> QED
      BY <2>4, <3>2, <3>4, <3>5, <3>6
  <2> QED
    BY <2>2, <2>3, <2>4
<1> QED
  BY <1>c, <1>6, <1>7, <1>8, <1>9, <1>10 DEF OrderInv

-----------------------------------------------------------------------------
LEMMA OrderInvInductive ==
  ASSUME ServersSendNoMail
  PROVE  OrderInv /\ [CallersNext]_callersVars => OrderInv'
<1> SUFFICES ASSUME OrderInv, [CallersNext]_callersVars PROVE OrderInv'
  OBVIOUS
<1>1. CASE QuietNext /\ UNCHANGED arrivals
  BY <1>1, QuietNextStep, QuietKeepsOrder DEF OrderInv
<1>2. CASE \E t \in Task : Calls(t) \/ Replies(t)
  BY <1>2, CallsKeepsOrder, RepliesKeepsOrder
<1>3. CASE UNCHANGED callersVars
  BY <1>3, StutterStep, QuietKeepsOrder DEF OrderInv, callersVars
<1> QED
  BY <1>1, <1>2, <1>3 DEF CallersNext, QuietNext

(***************************************************************************)
(* The invariant holds of every run in which servers send no mail and a    *)
(* client whose link is left over calls only when the queue is empty       *)
(* (kmail.c:41-69, 117-179).                                               *)
(***************************************************************************)
THEOREM CallersInvariant ==
  ASSUME ServersSendNoMail PROVE CallersSpec => []OrderInv
<1>1. OrderInv /\ [CallersNext]_callersVars => OrderInv'
  BY OrderInvInductive
<1> QED
  BY <1>1, OrderInvInit, PTL DEF CallersSpec

(***************************************************************************)
(* Every field keeps its type, with any number of clients (sched.c:18-78,  *)
(* kmail.c:41-179).                                                        *)
(***************************************************************************)
THEOREM CallersTypeCorrect ==
  ASSUME ServersSendNoMail PROVE CallersSpec => []TypeOK
<1>1. OrderInv => TypeOK
  BY DEF OrderInv, CallInv
<1> QED
  BY <1>1, CallersInvariant, PTL

(***************************************************************************)
(* The links from head to tail are the waiting senders in the order of     *)
(* their calls (kmail.c:56-64, 166-176).                                   *)
(***************************************************************************)
THEOREM QueuesKeepOrder ==
  ASSUME ServersSendNoMail PROVE CallersSpec => []QueueInOrder
<1>1. OrderInv => QueueInOrder
  BY DEF OrderInv
<1> QED
  BY <1>1, CallersInvariant, PTL

(***************************************************************************)
(* The queue of a server holds its waiting senders and nobody else, however*)
(* many they are (kmail.c:56-66, 166-176).                                 *)
(***************************************************************************)
THEOREM QueuesHoldCallers ==
  ASSUME ServersSendNoMail PROVE CallersSpec => []QueueHoldsSenders
<1>1. ASSUME OrderInv PROVE QueueHoldsSenders
  <2> SUFFICES ASSUME NEW s \in Task
               PROVE  /\ (head[s] = None) <=> (Senders(s) = {})
                      /\ head[s] # None =>
                           /\ head[s] \in Senders(s) /\ tail[s] \in Senders(s)
                           /\ next[tail[s]] = None
                           /\ \A t \in Senders(s) \ {tail[s]} :
                                next[t] \in Senders(s)
    BY DEF QueueHoldsSenders
  <2> DEFINE q == arrivals[s]
  <2>1. /\ Len(q) \in Nat /\ (head[s] = None <=> q = <<>>)
        /\ \A i \in 1..Len(q) : q[i] \in Task /\ mailto[q[i]] = s
        /\ q # <<>> =>
             /\ Len(q) >= 1 /\ head[s] = q[1] /\ tail[s] = q[Len(q)]
             /\ \A i \in 1..(Len(q) - 1) : next[q[i]] = q[i + 1]
             /\ next[q[Len(q)]] = None
    BY <1>1, OrderOf
  <2>2. \A i \in 1..Len(q) : q[i] \in Senders(s)
    BY <1>1, <2>1, NoneIsNoTask
    DEF OrderInv, CallInv, CallsWait, Waits, Senders
  <2>3. \A t \in Senders(s) : \E i \in 1..Len(q) : q[i] = t
    BY <1>1, NoneIsNoTask DEF Senders, OrderInv, CallersArrived
  <2>4. q = <<>> => Senders(s) = {}
    <3>1. q = <<>> => 1..Len(q) = {}
      OBVIOUS
    <3> QED
      BY <3>1, <2>3
  <2>5. ASSUME q # <<>>
        PROVE  /\ head[s] \in Senders(s) /\ tail[s] \in Senders(s)
               /\ next[tail[s]] = None
               /\ \A t \in Senders(s) \ {tail[s]} : next[t] \in Senders(s)
    <3>1. 1 \in 1..Len(q) /\ Len(q) \in 1..Len(q)
      BY <2>1, <2>5
    <3>2. ASSUME NEW t \in Senders(s) \ {tail[s]} PROVE next[t] \in Senders(s)
      <4>1. PICK i \in 1..Len(q) : q[i] = t
        BY <2>3
      <4>2. i # Len(q)
        BY <4>1, <2>1, <2>5
      <4>3. i \in 1..(Len(q) - 1) /\ i + 1 \in 1..Len(q)
        BY <4>2, <2>1
      <4> QED
        BY <4>1, <4>3, <2>1, <2>2, <2>5
    <3> QED
      BY <3>1, <3>2, <2>1, <2>2, <2>5
  <2> QED
    BY <2>1, <2>4, <2>5
<1> QED
  BY <1>1, CallersInvariant, PTL

(***************************************************************************)
(* The kernel never walks for ever along mail.to (kmail.c:17-25).          *)
(***************************************************************************)
THEOREM CallersNeverHang ==
  ASSUME ServersSendNoMail PROVE CallersSpec => []LoopMailDenied
<1>1. OrderInv => LoopMailDenied
  BY DEF OrderInv, CallInv, LoopMailDenied
<1> QED
  BY <1>1, CallersInvariant, PTL

(***************************************************************************)
(* Nobody else goes on before the first caller: quiet steps and calls leave*)
(* all waiting senders blocked, and a reply wakes the first one.           *)
(***************************************************************************)
LEMMA FirstComeFirstServedStep ==
  ASSUME ServersSendNoMail, OrderInv, [CallersNext]_callersVars,
         NEW s \in Task, NEW i \in 2..Len(arrivals[s])
  PROVE  state'[arrivals[s][i]] = "TS_SEND"
<1> DEFINE c == arrivals[s][i]
<1>1. CallInv /\ state \in [Task -> TaskState]
  BY DEF OrderInv, CallInv, TypeOK, SchedTypeOK
<1>2. /\ i \in 1..Len(arrivals[s]) /\ 1 \in 1..Len(arrivals[s])
      /\ c # arrivals[s][1] /\ c \in Task /\ mailto[c] = s
  <2>1. Len(arrivals[s]) \in Nat
    BY OrderOf
  <2>2. i \in 1..Len(arrivals[s]) /\ 1 \in 1..Len(arrivals[s]) /\ i # 1
    BY <2>1
  <2> QED
    BY <2>2, OrderOf
<1> HIDE DEF c
<1>3. state[c] = "TS_SEND"
  BY <1>1, <1>2, NoneIsNoTask DEF CallInv, CallsWait, Waits
<1>4. ASSUME QuietNext \/ UNCHANGED callersVars PROVE state'[c] = "TS_SEND"
  <2>1. Quiet
    BY <1>1, <1>4, QuietNextStep, StutterStep DEF callersVars
  <2> QED
    BY <2>1, <1>2, <1>3 DEF Quiet
<1>5. ASSUME NEW t \in Task, Calls(t) PROVE state'[c] = "TS_SEND"
  <2>1. PICK d \in Dest[t] :
          /\ d \in Task /\ mailto[d] = None /\ mailto[t] = None
          /\ state' = [state EXCEPT ![t] = "TS_SEND", ![d] = "TS_RUN"]
    BY <1>1, <1>5, SendmEffect DEF Calls
  <2>2. c # d /\ c # t
    BY <2>1, <1>2, NoneIsNoTask
  <2> QED
    BY <2>1, <2>2, <1>1, <1>2, <1>3
<1>6. ASSUME NEW t \in Task, Replies(t) PROVE state'[c] = "TS_SEND"
  <2>1. /\ head[t] \in Task /\ mailto[head[t]] = t /\ head[t] = arrivals[t][1]
        /\ state' = [state EXCEPT ![head[t]] = "TS_RUN"]
    BY <1>1, <1>6, ReplymEffect, FirstGoesOn DEF Replies
  <2>2. c # head[t]
    BY <2>1, <1>2
  <2> QED
    BY <2>1, <2>2, <1>1, <1>2, <1>3
<1> QED
  BY <1>4, <1>5, <1>6 DEF CallersNext, QuietNext, callersVars, c

(***************************************************************************)
(* Calls are answered in the order they were made (kmail.c:58-64, 153-176).*)
(***************************************************************************)
THEOREM ServedInOrder ==
  ASSUME ServersSendNoMail PROVE CallersSpec => FirstComeFirstServed
<1>1. OrderInv /\ [CallersNext]_callersVars =>
        [\A s \in Task : \A i \in 2..Len(arrivals[s]) :
           state'[arrivals[s][i]] = "TS_SEND"]_callersVars
  BY FirstComeFirstServedStep
<1> QED
  BY <1>1, CallersInvariant, PTL DEF CallersSpec, FirstComeFirstServed

(***************************************************************************)
(* No task sleeps in recvm() while a sender waits for it, and no line is   *)
(* lost on a sleeping reader (kmail.c:56-66, 122-128, tty.c:37-43, 65-71). *)
(***************************************************************************)
THEOREM CallersReceiversAwake ==
  ASSUME ServersSendNoMail PROVE CallersSpec => []NoSleepOnMail
<1>1. CallersInit => NoSleepOnMail
  BY DEF CallersInit, Init, KmailInit, NoSleepOnMail
<1>2. OrderInv /\ NoSleepOnMail /\ [CallersNext]_callersVars => NoSleepOnMail'
  BY NoSleepOnMailStep, CallersNextIsNext DEF OrderInv
<1> QED
  BY <1>1, <1>2, CallersInvariant, PTL DEF CallersSpec

THEOREM CallersReaderIsWoken ==
  ASSUME ServersSendNoMail, OneReader PROVE CallersSpec => []NoLostWakeup
<1>1. CallersInit => ConsoleInv
  BY DEF CallersInit, Init, SchedInit, ConsoleInv, ReadersRead, NoLostWakeup
<1>2. OrderInv /\ ConsoleInv /\ [CallersNext]_callersVars => ConsoleInv'
  BY ConsoleInvStep, CallersNextIsNext DEF OrderInv
<1>3. ConsoleInv => NoLostWakeup
  BY DEF ConsoleInv
<1> QED
  BY <1>1, <1>2, <1>3, CallersInvariant, PTL DEF CallersSpec

(***************************************************************************)
(* sendm() returns only with the answer of the task it was sent to, for any*)
(* number of clients of each server (kmail.c:41-179, lib/mail.c:5-8).      *)
(***************************************************************************)
THEOREM CallersImplementRpc ==
  ASSUME ServersSendNoMail PROVE CallersSpec => RpcSpec
<1>1. CallersInit => Rpc!Init
  BY InitIsRpcInit DEF CallersInit
<1>2. OrderInv /\ [CallersNext]_callersVars => [Rpc!Next]_(Rpc!vars)
  BY StepIsRpcStep, CallersNextIsNext DEF OrderInv
<1> QED
  BY <1>1, <1>2, CallersInvariant, PTL DEF CallersSpec, RpcSpec, Rpc!Spec
=============================================================================
