------------------------------- MODULE Callers -------------------------------
(***************************************************************************)
(* Servers with any number of clients that call them again and again.  A   *)
(* client whose link is left from an earlier call only calls when the      *)
(* queue is empty, where the link is cleared: run kernel_queue of module   *)
(* MCKernel shows what happens otherwise.  The history variable arrivals   *)
(* keeps the order of the calls.                                           *)
(***************************************************************************)
EXTENDS Kernel, SequencesExt

VARIABLE arrivals  \* arrivals[s]: who waits for s, in the order of the calls

callersVars == <<vars, arrivals>>

CallersInit == Init /\ arrivals = [t \in Task |-> <<>>]

-----------------------------------------------------------------------------
Arrive(t, d) ==
  /\ next[t] = None \/ head[d] = None
  /\ mailto'[t] = d
  /\ arrivals' = [arrivals EXCEPT ![d] = Append(@, t)]

Calls(t) == Sendm(t) /\ \E d \in Dest[t] : Arrive(t, d)

(***************************************************************************)
(* A reply of s takes the sender that goes on out of the order.            *)
(***************************************************************************)
GoingOn(s) == {i \in 1..Len(arrivals[s]) : state'[arrivals[s][i]] # "TS_SEND"}

Replies(s) ==
  /\ Replym(s)
  /\ arrivals' = [arrivals EXCEPT ![s] =
                    IF GoingOn(s) = {} THEN @
                    ELSE RemoveAt(@, CHOOSE i \in GoingOn(s) : TRUE)]

CallersNext ==
  \/ /\ \/ Timer
        \/ \E c \in Typed : Uart(c)
        \/ \E t \in Task :
             PauseReturn(t) \/ SendmReturn(t) \/ Recvm(t) \/ Getchs(t) \/ Pause(t)
     /\ UNCHANGED arrivals
  \/ \E t \in Task : Calls(t) \/ Replies(t)

CallersSpec == CallersInit /\ [][CallersNext]_callersVars

-----------------------------------------------------------------------------
(***************************************************************************)
(* The links of the waiting senders, from head to tail, are the senders in *)
(* the order of their calls (kmail.c:56-64, 166-176).                      *)
(***************************************************************************)
QueueInOrder ==
  \A s \in Task : LET q == arrivals[s] IN
    IF q = <<>> THEN head[s] = None /\ tail[s] = None
    ELSE /\ head[s] = q[1] /\ tail[s] = q[Len(q)]
         /\ \A i \in 1..(Len(q) - 1) : next[q[i]] = q[i + 1]
         /\ next[q[Len(q)]] = None

(***************************************************************************)
(* Calls are answered in the order they were made: no step lets a sender   *)
(* go on that another one is still before (kmail.c:58-64, 153-176).        *)
(***************************************************************************)
FirstComeFirstServed ==
  [][\A s \in Task : \A i \in 2..Len(arrivals[s]) :
       state'[arrivals[s][i]] = "TS_SEND"]_callersVars

-----------------------------------------------------------------------------
(***************************************************************************)
(* The inductive invariant behind the safety properties under              *)
(* ServersSendNoMail: the order holds exactly the callers, each once.      *)
(***************************************************************************)
ArrivedCall ==
  \A s \in Task : \A i \in 1..Len(arrivals[s]) : mailto[arrivals[s][i]] = s

CallersArrived ==
  \A c \in Task : mailto[c] # None =>
    \E i \in 1..Len(arrivals[mailto[c]]) : arrivals[mailto[c]][i] = c

ArrivedOnce ==
  \A s \in Task : \A i, j \in 1..Len(arrivals[s]) :
    arrivals[s][i] = arrivals[s][j] => i = j

OrderInv ==
  /\ CallInv
  /\ arrivals \in [Task -> Seq(Task)]
  /\ ArrivedCall /\ CallersArrived /\ ArrivedOnce /\ QueueInOrder
=============================================================================
