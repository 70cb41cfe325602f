------------------------------- MODULE MCNamei --------------------------------
(***************************************************************************)
(* A small file system, on which the inodes, the zones and the entries of  *)
(* a zone run out.                                                         *)
(***************************************************************************)
EXTENDS Namei

Abs(dirs, base) == [abs |-> TRUE, dirs |-> dirs, base |-> base]
Rel(dirs, base) == [abs |-> FALSE, dirs |-> dirs, base |-> base]

A == Abs(<<>>, "a")
D == Abs(<<>>, "d")
DA == Abs(<<"d">>, "a")
DD == Abs(<<"d">>, "d")
Here == Rel(<<>>, "a")
Up == Rel(<<>>, "..")

(***************************************************************************)
(* The directories that have more than one zone, the root and what chroot  *)
(* makes one, are not those that rmdir is given.                           *)
(***************************************************************************)
MCGiven ==
  [c \in CommandName |->
     CASE c = "mkdir"                 -> {D, Here}
       [] c = "rmdir"                 -> {D, Up}
       [] c \in {"mknod", "chroot"}   -> {A}
       [] c = "cd"                    -> {D}
       [] c \in {"ln", "cp", "mv"}    -> {A, DA}
       [] c \in {"rm", "ls", "write"} -> {Here}]

(***************************************************************************)
(* A directory that gets a second zone is removed.                         *)
(***************************************************************************)
MCGivenRmdir ==
  [c \in CommandName |->
     CASE c = "mkdir" -> {D, DD}
       [] c = "rmdir" -> {D, DD}
       [] c = "write" -> {DA}
       [] OTHER       -> {}]
=============================================================================
