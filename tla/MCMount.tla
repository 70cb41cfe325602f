-------------------------------- MODULE MCMount -------------------------------
(***************************************************************************)
(* The root device and the RAM disk.  Both can be mounted: the root device *)
(* on a directory of the RAM disk or of its own.                           *)
(***************************************************************************)
EXTENDS Mount

CONSTANTS nand, ram, other

Abs(steps) == [abs |-> TRUE, steps |-> steps]
Rel(steps) == [abs |-> FALSE, steps |-> steps]

\* nand has the directories /, /1 and /2 and no inode left, the RAM disk its root.
MCTree ==
  [d \in Dev |-> [i \in Ind |-> IF i = 0 \/ d = nand THEN 0 ELSE None]]

MCGiven ==
  [c \in CommandName |->
     CASE c = "mount"  -> {Abs(<<1>>), Abs(<<1, 1>>), Rel(<<2>>)}
       [] c = "umount" -> {Abs(<<1>>), Rel(<<>>)}
       [] c = "mkdir"  -> {Abs(<<1, 1>>), Rel(<<1>>), Rel(<<Up, 1>>)}
       [] c = "rmdir"  -> {Abs(<<1>>), Abs(<<1, 1>>), Rel(<<1>>)}
       [] c = "cd"     -> {Abs(<<>>), Rel(<<1>>), Rel(<<2>>), Rel(<<Up>>)}
       [] c = "chroot" -> {Abs(<<1>>)}
       [] c = "ls"     -> {Rel(<<>>), Rel(<<1, Up, 1>>)}]
=============================================================================
