------------------------------- MODULE MCBuffer -------------------------------
(***************************************************************************)
(* Small instances of the buffer cache: four blocks, two on each of two     *)
(* devices, in one hash row.                                               *)
(***************************************************************************)
EXTENDS Buffer

CONSTANT LastBlock

MCBlock == 0..LastBlock
MCDev == [b \in MCBlock |-> b \div 2]
MCRow == [b \in MCBlock |-> 0]
=============================================================================
