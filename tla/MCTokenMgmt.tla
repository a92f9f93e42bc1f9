---------------------------- MODULE MCTokenMgmt ----------------------------
(* Processes are interchangeable: nothing in TokenMgmt names one.           *)
EXTENDS TokenMgmt, TLC
Symmetry == Permutations(Proc)
=============================================================================
