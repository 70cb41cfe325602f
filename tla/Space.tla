-------------------------------- MODULE Space --------------------------------
(***************************************************************************)
(* What virtual memory promises to the programs.  Each has a memory of its *)
(* own, whose pages are there when the program is created or appear as it  *)
(* touches them.  A page that is there belongs to its program: it changes  *)
(* by a store of that program and by a copy of mail, to what was stored or *)
(* copied.  There are two exceptions.  The first touch of a page turns     *)
(* others into holes, which never become pages and promise nothing.  And   *)
(* on the page of the message, a call leaves its result with the program   *)
(* that goes on.                                                           *)
(***************************************************************************)
CONSTANTS
  Program,    \* the tasks that have a memory
  Touched,    \* the pages of it that they use
  Val, Zero,  \* what a page can hold, and holds at first
  Fresh, Hole,  \* a page not touched yet, a page that never will be there
  MsgPage,    \* the page of the stack that the message of a call is on
  Result      \* what such a page holds when a result was stored

VARIABLES
  run,   \* the program that runs, or a task without memory
  mem    \* mem[t][v]: what page v of the memory of t holds

Contents == Val \cup {Fresh, Hole}

Create(t, pages) ==
  /\ run \notin Program
  /\ \A v \in Touched : mem[t][v] = Fresh
  /\ mem' = [mem EXCEPT ![t] = pages]

Touch(v, others) ==
  /\ \A u \in others \cup {v} : mem[run][u] = Fresh
  /\ mem' = [mem EXCEPT ![run] =
       [u \in Touched |-> IF u = v THEN Zero ELSE IF u \in others THEN Hole ELSE @[u]]]

Store(v, x) == mem[run][v] \in Val /\ mem' = [mem EXCEPT ![run][v] = x]

Copy(from, a, to, b, x) ==
  /\ from # to /\ run \in {from, to}
  /\ mem[from][a] \in {x, Hole} /\ mem[to][b] \in Val
  /\ mem' = [mem EXCEPT ![to][b] = x]

Answered(to) ==
  /\ to # run /\ run' = to /\ MsgPage \in Touched
  /\ mem' = [mem EXCEPT ![to][MsgPage] = Result]

Next ==
  \/ UNCHANGED mem
  \/ \E t \in Program, pages \in [Touched -> Contents] : Create(t, pages)
  \/ /\ run \in Program
     /\ \E v \in Touched :
          \/ \E others \in SUBSET (Touched \ {v}) : Touch(v, others)
          \/ \E x \in Val : Store(v, x)
  \/ \E from, to \in Program, a, b \in Touched, x \in Val : Copy(from, a, to, b, x)
  \/ \E to \in Program : Answered(to)

Spec == mem = [t \in Program |-> [v \in Touched |-> Fresh]] /\ [][Next]_<<run, mem>>
=============================================================================
