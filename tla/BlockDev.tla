------------------------------- MODULE BlockDev -------------------------------
(***************************************************************************)
(* What the NAND driver promises to the file system: an array of blocks    *)
(* that is read and written cell by cell, made durable by sync_tl(), and   *)
(* goes back to what is durable when the power fails.  The promise ends    *)
(* where the hardware fails: a block that cannot be read is lost until the *)
(* next restart; after a block has worn out nothing is promised of the     *)
(* restart; and a start that could not read the table of blocks promises   *)
(* nothing but that requests leave the medium alone: its syncs, and a      *)
(* power failure in one of them, may ruin it.                              *)
(***************************************************************************)
EXTENDS Integers

CONSTANTS Block, Cell, Data, Junk

VARIABLES
  disk,    \* disk[b]: what a read of b returns
  stable,  \* stable[b]: what is on the medium
  worn,    \* a block has worn out
  mapped,  \* the driver knows which block is which
  answer   \* the block and the result of the last operation

vars == <<disk, stable, worn, mapped, answer>>

Reply(b, v) == [block |-> b, value |-> v]
None == -1  \* the block of an operation that is about no block

Content == [Cell -> Data \cup {Junk}]
Lost == [c \in Cell |-> Junk]

Init ==
  /\ stable \in [Block -> Content]
  /\ mapped \in BOOLEAN /\ (mapped => disk = stable)
  /\ worn = FALSE
  /\ answer = Reply(None, "none")

Read(b, c) == answer' = Reply(b, disk[b][c]) /\ UNCHANGED <<disk, stable, worn>>

Write(b, c, d) ==
  /\ disk' = [disk EXCEPT ![b][c] = d]
  /\ answer' = Reply(b, "done")
  /\ UNCHANGED <<stable, worn>>

\* The block cannot be read; its contents are gone from the view.
Unreadable(b) ==
  /\ disk' = [disk EXCEPT ![b] = Lost]
  /\ answer' = Reply(b, "failed")
  /\ UNCHANGED <<stable, worn>>

(***************************************************************************)
(* A request outside the device does no harm; its answer means nothing.    *)
(* The device gets smaller when a block has worn out.                      *)
(***************************************************************************)
Outside(b) ==
  /\ b \notin Block \/ worn
  /\ answer' \in {Reply(b, v) : v \in {"failed", "done", Junk}}
  /\ UNCHANGED <<disk, stable, worn>>

(***************************************************************************)
(* The blocks of S become durable.  A block that could not be read has     *)
(* nothing to write: the medium keeps what it has.                         *)
(***************************************************************************)
Saved(S, x) ==
  IF x \notin S THEN {stable[x]}
  ELSE IF disk[x] = Lost THEN {disk[x], stable[x]} ELSE {disk[x]}

Sync ==
  /\ DOMAIN stable' = Block
  /\ \A x \in Block : stable'[x] \in Saved(Block, x)
  /\ answer' = Reply(None, "done")
  /\ UNCHANGED <<disk, worn>>

\* Some blocks are durable, one is worn out, the rest is as it was.
SyncFails ==
  /\ DOMAIN stable' = Block
  /\ \E S \in SUBSET Block, b \in Block :
       /\ \A x \in Block \ {b} : stable'[x] \in Saved(S, x)
       /\ stable'[b] \in {stable[b], Lost}
  /\ worn' = TRUE
  /\ answer' = Reply(None, "failed")
  /\ UNCHANGED disk

(***************************************************************************)
(* The driver does not know which block is which: what it answers means    *)
(* nothing, and a sync may write anything anywhere.  A request does not    *)
(* touch the medium.                                                       *)
(***************************************************************************)
Astray ==
  /\ stable' = stable \/ answer'.block = None
  /\ worn => worn'

(***************************************************************************)
(* The power fails, possibly in the middle of sync_tl(): then some blocks  *)
(* are durable and one may have been erased but not written.  The next     *)
(* start shows the medium, unless it cannot read its table; even then the  *)
(* start itself loses nothing.                                             *)
(***************************************************************************)
Restart ==
  /\ mapped' => disk' = stable'
  /\ answer' = Reply(None, "none")
  /\ UNCHANGED worn
  /\ worn \/ ~mapped
     \/ /\ DOMAIN stable' = Block
        /\ \E S \in SUBSET Block, b \in Block :
             /\ \A x \in Block \ {b} : stable'[x] \in Saved(S, x)
             /\ stable'[b] \in Saved(S, b) \cup {Lost}

Served ==
  \/ \E b \in Block : \/ \E c \in Cell : Read(b, c) \/ \E d \in Data : Write(b, c, d)
                      \/ Unreadable(b)
  \/ Outside(answer'.block) \/ Sync \/ SyncFails

Next ==
  \/ mapped /\ mapped' /\ Served
  \/ ~mapped /\ ~mapped' /\ Astray
  \/ Restart

Spec == Init /\ [][Next]_vars
=============================================================================
