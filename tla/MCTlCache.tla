------------------------------ MODULE MCTlCache ------------------------------
(***************************************************************************)
(* Small instances of the NAND driver.  A cell holds the datum d1 or what  *)
(* was there before anything was written.                                  *)
(***************************************************************************)
EXTENDS TlCache, TLC

CONSTANTS d1, c1, c2

MCData == {d1}
MCCell == {c1, c2}
Symmetry == Permutations(MCCell)

\* Where nothing is evicted it does not matter which slot is the oldest.
FirstIsOldest == oldest = 0
=============================================================================
