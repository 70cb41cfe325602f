--------------------------------- MODULE MCVm ---------------------------------
(***************************************************************************)
(* A small machine with the layout of ports.h: four pages in a megabyte,   *)
(* 20 megabytes of RAM from page 64 on, and 48 megabytes of addresses.     *)
(***************************************************************************)
EXTENDS Vm

\* The page of the message and two of the heap, whose tables are on one page.
MCTouched == {MsgPage, 64, 65}
MCLow == [i \in 0..3 |-> i # 1]
=============================================================================
