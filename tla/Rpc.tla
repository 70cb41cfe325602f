--------------------------------- MODULE Rpc ---------------------------------
(***************************************************************************)
(* What the mail calls promise to a program (lib/mail.c:5-10): sendm()     *)
(* hands a text to another task and returns only when the text in the send *)
(* buffer is that task's answer to it.                                     *)
(***************************************************************************)
CONSTANTS Task, Dest, Msg, None

VARIABLES
  phase,  \* phase[c]: what c's call is waiting for
  asked,  \* asked[c]: the task an unanswered call of c was sent to, or None
  text    \* text[c]: the contents of c's send buffer

vars == <<phase, asked, text>>

(***************************************************************************)
(* The answer of task s to the request m.                                  *)
(***************************************************************************)
Answer(s, m) == <<s, m>>

(***************************************************************************)
(* A buffer holds one of the messages before the first call.               *)
(***************************************************************************)
Init ==
  /\ phase = [c \in Task |-> "idle"]
  /\ asked = [c \in Task |-> None]
  /\ text \in [Task -> Msg]

Call(c, s, m) ==
  /\ phase[c] = "idle"
  /\ s \in Dest[c]
  /\ phase' = [phase EXCEPT ![c] = "asked"]
  /\ asked' = [asked EXCEPT ![c] = s]
  /\ text' = [text EXCEPT ![c] = m]

Reply(c) ==
  /\ phase[c] = "asked"
  /\ phase' = [phase EXCEPT ![c] = "answered"]
  /\ text' = [text EXCEPT ![c] = Answer(asked[c], @)]
  /\ asked' = [asked EXCEPT ![c] = None]

Return(c) ==
  /\ phase[c] = "answered"
  /\ phase' = [phase EXCEPT ![c] = "idle"]
  /\ UNCHANGED <<asked, text>>

Next ==
  \E c \in Task :
    \/ \E s \in Dest[c], m \in Msg : Call(c, s, m)
    \/ Reply(c)
    \/ Return(c)

Spec == Init /\ [][Next]_vars
=============================================================================
