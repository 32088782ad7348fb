------------------------------ MODULE MCFileIO ------------------------------
(***************************************************************************)
(* Model checking of FileIO. The handles are interchangeable.              *)
(***************************************************************************)
EXTENDS FileIO, TLC

HandleSymmetry == Permutations(Handle)
=============================================================================
