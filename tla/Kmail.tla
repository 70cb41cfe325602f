-------------------------------- MODULE Kmail --------------------------------
(***************************************************************************)
(* Message passing between tasks: kernel/ipc/kmail.c and the wrappers of   *)
(* lib/mail.c.  sendm() puts the sender into the queue of the receiver and *)
(* gives it the processor; recvm() reads the message at the head of the    *)
(* queue without removing it; replym() overwrites the text of the sender   *)
(* at the head, makes that sender runnable and removes it.                 *)
(*                                                                         *)
(* The queue is threaded through the PCBs: head and tail belong to the     *)
(* receiver, the single link next to the sender.                           *)
(***************************************************************************)
EXTENDS Sched

CONSTANTS
  Dest,  \* Dest[t]: the tasks t's program sends mail to
  Msg    \* the texts a program sends

None == -1    \* a null pointer, and NO_TASK in mail.to

Server == UNION {Dest[t] : t \in Task}

(***************************************************************************)
(* sys_sendm refuses mail of the idle task and of a task to itself, and    *)
(* serves mail to task 0 as a system call.                                 *)
(***************************************************************************)
ASSUME KmailAssumption ==
  /\ Dest \in [Task -> SUBSET (Task \ {Idle})]
  /\ Dest[Idle] = {}
  /\ \A t \in Task : t \notin Dest[t]
  /\ Msg # {}

VARIABLES
  head, tail,  \* head[s], tail[s]: the ends of s's queue of senders
  next,        \* next[t]: t's link in the queue it waits in
  mailto,      \* mailto[t]: mail.to of t's PCB
  text,        \* text[t]: the text in t's send buffer
  inbox,       \* inbox[s]: the text s received last
  sender,      \* sender[s]: the task recvm() named, until s replies
  hung         \* the kernel loops with interrupts off

queueVars == <<head, tail, next, mailto>>
bufferVars == <<text, inbox, sender>>
kmailVars == <<queueVars, bufferVars, hung>>

(***************************************************************************)
(* How far t's call has come, seen from outside (module Rpc).              *)
(***************************************************************************)
Phase == [t \in Task |-> IF swi[t] # "sendm" THEN "idle"
                         ELSE IF state[t] = "TS_SEND" THEN "asked"
                         ELSE "answered"]

Rpc == INSTANCE Rpc WITH phase <- Phase, asked <- mailto

KmailInit ==
  /\ head = [t \in Task |-> None]
  /\ tail = [t \in Task |-> None]
  /\ next = [t \in Task |-> None]
  /\ mailto = [t \in Task |-> None]
  /\ \E m \in Msg : text = [t \in Task |-> m]
  /\ inbox = text
  /\ sender = [t \in Task |-> None]
  /\ hung = FALSE

-----------------------------------------------------------------------------
(***************************************************************************)
(* try_to_send() follows mail.to from the receiver on and stops only at a  *)
(* task that has sent nothing: it compares the caller's own structure with *)
(* those of the PCBs, which are never the same.  The walk does not end     *)
(* when the receiver lies in a set of tasks closed under mail.to.          *)
(***************************************************************************)
EndlessWalk(d) ==
  \E S \in SUBSET Task : d \in S /\ \A x \in S : mailto[x] \in S

\* Mutant: the sender is put in front of the queue.
EnqueuePush(d, t) ==
  IF head[d] = None
  THEN /\ head' = [head EXCEPT ![d] = t]
       /\ tail' = [tail EXCEPT ![d] = t]
       /\ next' = [next EXCEPT ![t] = None]
  ELSE /\ next' = [next EXCEPT ![t] = head[d]]
       /\ head' = [head EXCEPT ![d] = t]
       /\ UNCHANGED tail

(***************************************************************************)
(* The link of a sender is cleared only when it enters an empty queue.     *)
(***************************************************************************)
Enqueue(d, t) ==
  IF head[d] = None
  THEN /\ head' = [head EXCEPT ![d] = t]
       /\ tail' = [tail EXCEPT ![d] = t]
       /\ next' = [next EXCEPT ![t] = None]
  ELSE /\ next' = [next EXCEPT ![tail[d]] = t]
       /\ tail' = [tail EXCEPT ![d] = t]
       /\ UNCHANGED head

(***************************************************************************)
(* sys_sendm() to another task.  When the walk of try_to_send() does not   *)
(* end nothing happens any more; otherwise the caller queues up, and the   *)
(* receiver is made runnable whatever it was blocked on and runs next.     *)
(***************************************************************************)
SysSendm(t, d, m) ==
  /\ InUser(t) /\ d \in Dest[t]
  /\ IF EndlessWalk(d)
     THEN /\ hung' = TRUE
          /\ UNCHANGED <<schedVars, swi, queueVars, text>>
     ELSE /\ mailto' = [mailto EXCEPT ![t] = d]
          /\ Enqueue(d, t)
          /\ text' = [text EXCEPT ![t] = m]
          /\ swi' = [swi EXCEPT ![t] = "sendm"]
          /\ SwitchTo([state EXCEPT ![t] = "TS_SEND"], d)
          /\ UNCHANGED <<tick, hung>>
  /\ UNCHANGED <<inbox, sender>>

-----------------------------------------------------------------------------
(***************************************************************************)
(* sys_recvm(TASK_ANY) by a task in user code or one that repeats the SWI. *)
(***************************************************************************)
MayReceive(t) ==
  t \in Server /\ current_p = t /\ swi[t] \in {"none", "recvm"}

SysRecvmWait(t) ==
  /\ MayReceive(t)
  /\ head[t] = None
  /\ swi' = [swi EXCEPT ![t] = "recvm"]
  /\ Schedule([state EXCEPT ![t] = "TS_RECV"], tick)
  /\ UNCHANGED kmailVars

SysRecvmTake(t) ==
  /\ MayReceive(t)
  /\ head[t] # None
  /\ inbox' = [inbox EXCEPT ![t] = text[head[t]]]
  /\ sender' = [sender EXCEPT ![t] = head[t]]
  /\ swi' = [swi EXCEPT ![t] = "none"]
  /\ UNCHANGED <<schedVars, queueVars, text, hung>>

-----------------------------------------------------------------------------
\* Mutant: the sender is not unlinked when others wait behind it.
DequeueKeeps(t, p) ==
  /\ head' = head
  /\ tail' = tail
  /\ next' = [next EXCEPT ![t] = None]

(***************************************************************************)
(* The queue of t after its head p is taken off.  With the last sender,    *)
(* t's own link is cleared and not p's.                                    *)
(***************************************************************************)
Dequeue(t, p) ==
  IF next[p] = None
  THEN /\ head' = [head EXCEPT ![t] = None]
       /\ tail' = [tail EXCEPT ![t] = None]
       /\ next' = [next EXCEPT ![t] = None]
  ELSE /\ head' = [head EXCEPT ![t] = next[p]]
       /\ UNCHANGED <<tail, next>>

(***************************************************************************)
(* sys_replym().  A program replies to the sender that recvm() gave it;    *)
(* the call answers the head of the queue whomever it is told to answer,   *)
(* and changes nothing when the queue is empty.                            *)
(***************************************************************************)
SysReplym(t) ==
  /\ InUser(t) /\ sender[t] # None
  /\ head[t] # None
  /\ LET p == head[t] IN
       /\ text' = [text EXCEPT ![p] = Rpc!Answer(t, inbox[t])]
       /\ state' = [state EXCEPT ![p] = "TS_RUN"]
       /\ mailto' = [mailto EXCEPT ![p] = None]
       /\ Dequeue(t, p)
  /\ sender' = [sender EXCEPT ![t] = None]
  /\ UNCHANGED <<current_p, tick, swi, inbox, hung>>

-----------------------------------------------------------------------------
Link == [Task -> Task \cup {None}]
Text == Msg \cup {Rpc!Answer(s, m) : s \in Task, m \in Msg}

KmailTypeOK ==
  /\ head \in Link /\ tail \in Link /\ next \in Link /\ mailto \in Link
  /\ text \in [Task -> Text]
  /\ inbox \in [Task -> Text]
  /\ sender \in Link
  /\ hung \in BOOLEAN
=============================================================================
