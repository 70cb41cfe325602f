-------------------------------- MODULE Kernel --------------------------------
(***************************************************************************)
(* The kernel core: the tasks of the system, whose programs compute, pause,*)
(* exchange mail and read the console, interleaved with the timer and UART *)
(* interrupts.                                                             *)
(***************************************************************************)
EXTENDS Kmail, Tty

vars == <<schedVars, swi, kmailVars, ttyVars>>

Init == SchedInit /\ KmailInit /\ TtyInit

-----------------------------------------------------------------------------
Timer == ~hung /\ DoTimer0 /\ UNCHANGED <<kmailVars, ttyVars>>

Uart(c) == ~hung /\ UartRecv(c) /\ UNCHANGED kmailVars

Pause(t) == ~hung /\ SysPause(t) /\ UNCHANGED <<kmailVars, ttyVars>>

PauseReturn(t) ==
  ~hung /\ Return(t, "pause") /\ UNCHANGED <<kmailVars, ttyVars>>

Sendm(t) ==
  ~hung /\ \E d \in Dest[t], m \in Msg : SysSendm(t, d, m) /\ UNCHANGED ttyVars

SendmReturn(t) ==
  ~hung /\ Return(t, "sendm") /\ UNCHANGED <<kmailVars, ttyVars>>

Recvm(t) ==
  /\ ~hung
  /\ SysRecvmWait(t) \/ SysRecvmTake(t)
  /\ UNCHANGED ttyVars

Replym(t) == ~hung /\ SysReplym(t) /\ UNCHANGED ttyVars

Getchs(t) ==
  /\ ~hung
  /\ SysGetchsWait(t) \/ SysGetchsTake(t)
  /\ UNCHANGED kmailVars

(***************************************************************************)
(* What t's program goes on to do by itself, and what it may choose to do. *)
(***************************************************************************)
GoOn(t) ==
  PauseReturn(t) \/ SendmReturn(t) \/ Recvm(t) \/ Replym(t) \/ Getchs(t)

Choose(t) == Sendm(t) \/ Pause(t)

Next ==
  \/ Timer
  \/ \E c \in Typed : Uart(c)
  \/ \E t \in Task : GoOn(t) \/ Choose(t)

Spec == Init /\ [][Next]_vars

(***************************************************************************)
(* The timer interrupts again and again.  A time slice is 10 ms of         *)
(* instructions, so that a program that gets the processor infinitely      *)
(* often makes progress; a server keeps calling recvm() and replym() (to   *)
(* receive the same message again changes nothing, and is no progress).    *)
(* Nothing is assumed of the typist, nor that anyone ever sends or pauses. *)
(***************************************************************************)
Fairness ==
  /\ WF_vars(Timer)
  /\ \A t \in Task \ {Idle} : SF_vars(GoOn(t))

FairSpec == Spec /\ Fairness

-----------------------------------------------------------------------------
(***************************************************************************)
(* What the programs must keep to: every server has one client, and a      *)
(* server sends no mail.  The tasks the kernel creates (fs and sh) do.     *)
(***************************************************************************)
ServersSendNoMail == \A t \in Server : Dest[t] = {}

OneClientEach ==
  /\ \A t, u \in Task : Dest[t] \cap Dest[u] # {} => t = u
  /\ ServersSendNoMail

(***************************************************************************)
(* One task reads the console.                                             *)
(***************************************************************************)
OneReader == \A t, u \in Reader : t = u

TypeOK == SchedTypeOK /\ KmailTypeOK /\ TtyTypeOK

(***************************************************************************)
(* A task never waits for mail while mail waits for it: every sendm makes  *)
(* its receiver runnable, and a receiver blocks only on an empty queue     *)
(* (kmail.c:56-66, 122-128).                                               *)
(***************************************************************************)
NoSleepOnMail == \A t \in Task : state[t] = "TS_RECV" => head[t] = None

LineWaits == \E i \in 1..Len(chs) : chs[i] = "nl"

(***************************************************************************)
(* A task asleep in getchs is the one the next carriage return wakes, and  *)
(* no complete line is waiting in the buffer (tty.c:37-43, 65-71).         *)
(***************************************************************************)
NoLostWakeup ==
  \A t \in Task : state[t] = "TS_HANG" /\ swi[t] = "getchs" =>
    sleep_pid = t /\ ~LineWaits

(***************************************************************************)
(* The queue of s, walked from its head, holds exactly the tasks that wait *)
(* in sendm() for s, and ends at its tail.                                 *)
(***************************************************************************)
Senders(s) == {t \in Task : state[t] = "TS_SEND" /\ mailto[t] = s}

QueueHoldsSenders ==
  \A s \in Task :
    /\ (head[s] = None) <=> (Senders(s) = {})
    /\ head[s] # None =>
         /\ head[s] \in Senders(s) /\ tail[s] \in Senders(s)
         /\ next[tail[s]] = None
         /\ \A t \in Senders(s) \ {tail[s]} : next[t] \in Senders(s)

(***************************************************************************)
(* sendm() returns only with the answer of the task it was sent to         *)
(* (lib/mail.c:5-8), for each of the tasks at once.                        *)
(***************************************************************************)
RpcSpec == Rpc!Spec

(***************************************************************************)
(* A send that closes a loop of senders is denied (kmail.c:50-51) instead  *)
(* of blocking the kernel.                                                 *)
(***************************************************************************)
LoopMailDenied == ~hung

-----------------------------------------------------------------------------
(***************************************************************************)
(* The part of the inductive invariant that holds however many clients a   *)
(* server has, as long as the queues are in order.                         *)
(***************************************************************************)
RunnersRun == state[current_p] = "TS_RUN" /\ state[Idle] = "TS_RUN"

\* A task that has sent mail is blocked in sendm.
Waits(c, s) ==
  /\ s \in Dest[c]
  /\ swi[c] = "sendm" /\ state[c] = "TS_SEND"
  /\ text[c] \in Msg

CallsWait == \A c \in Task : mailto[c] # None => Waits(c, mailto[c])

SendersCall == \A c \in Task : state[c] = "TS_SEND" => mailto[c] # None

\* The head of a queue has called.
QueuesAreCalls ==
  \A s \in Task : head[s] # None => mailto[head[s]] = s

QueueEnds == \A s \in Task : head[s] = None <=> tail[s] = None

\* A server that has received and not yet replied holds the text of its head.
Received ==
  \A s \in Task :
    sender[s] # None => sender[s] = head[s] /\ inbox[s] = text[head[s]]

\* A carriage return never wakes a client out of sendm.
SleeperSleeps ==
  sleep_pid # 0 /\ Dest[sleep_pid] # {} => state[sleep_pid] = "TS_HANG"

CallInv ==
  /\ TypeOK /\ RunnersRun /\ CallsWait /\ SendersCall /\ QueuesAreCalls
  /\ QueueEnds /\ Received /\ SleeperSleeps /\ ~hung

(***************************************************************************)
(* The inductive invariant behind the safety properties under              *)
(* OneClientEach: a caller is alone in its server's queue.                 *)
(***************************************************************************)
Alone(c, s) == head[s] = c /\ tail[s] = c /\ next[c] = None

CallersAlone == \A c \in Task : mailto[c] # None => Alone(c, mailto[c])

IInv == CallInv /\ CallersAlone

-----------------------------------------------------------------------------
(***************************************************************************)
(* A call to a server that keeps serving returns, and does not pause with  *)
(* the call in its queue or wait for the console (kmail.c:41-69, 149-179). *)
(***************************************************************************)
CallReturns ==
  \A t \in Task :
    swi[t] = "sendm" /\ mailto[t] \notin Reader \cup Pauser ~> swi[t] = "none"

(***************************************************************************)
(* switch_to() gives the receiver the processor without regard to its      *)
(* ticks, and a receiver that has none left is not charged by the timer:   *)
(* two tasks that exchange mail for ever can keep a third from running.    *)
(* The next two properties are about runs in which the mail stops.         *)
(***************************************************************************)
MailGoesOn == []<><<\E t \in Task : Sendm(t)>>_vars

(***************************************************************************)
(* A runnable task with a priority gets the processor (sched.c:30-52).     *)
(***************************************************************************)
RunnableRuns ==
  \/ MailGoesOn
  \/ \A t \in {u \in Task : Prio[u] > 0} :
       state[t] = "TS_RUN" ~> (current_p = t \/ state[t] # "TS_RUN")

(***************************************************************************)
(* A reader waiting in getchs gets the line that has been completed, unless*)
(* it is deleted again (tty.c:37-43, 65-71).                               *)
(***************************************************************************)
ReaderGetsLine ==
  \/ MailGoesOn
  \/ \A t \in Reader :
       swi[t] = "getchs" /\ LineWaits ~> (swi[t] = "none" \/ ~LineWaits)
=============================================================================
