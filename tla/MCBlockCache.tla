---------------------------- MODULE MCBlockCache ----------------------------
(***************************************************************************)
(* Model checking of BlockCache. Block contents are interchangeable: no    *)
(* action and no property tells one value from another.                    *)
(***************************************************************************)
EXTENDS BlockCache, TLC

ValueSymmetry == Permutations(Value)
=============================================================================
