-------------------------------- MODULE Store --------------------------------
(***************************************************************************)
(* What the buffer cache promises to the rest of the file system: every    *)
(* block reads as it was written last, whatever is cached; the device may  *)
(* catch up with any blocks at any time.  A block that is thrown away      *)
(* reads as the device has it until it is written again.                   *)
(***************************************************************************)
CONSTANTS Block, Data

VARIABLES
  view,   \* view[b]: what the file system reads in block b
  device  \* device[b]: what the device has

vars == <<view, device>>

Init == view \in [Block -> Data] /\ device = view

CatchUp ==
  \E S \in SUBSET Block :
    device' = [b \in Block |-> IF b \in S THEN view[b] ELSE device[b]]

Write(b, d) == view' = [view EXCEPT ![b] = d]

Discard(b) == view' = [view EXCEPT ![b] = device'[b]]

Next ==
  /\ CatchUp
  /\ \/ UNCHANGED view
     \/ \E b \in Block : Discard(b) \/ \E d \in Data : Write(b, d)

Spec == Init /\ [][Next]_vars
=============================================================================
