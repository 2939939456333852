------------------------------ MODULE MCDynAlloc ------------------------------
(***************************************************************************)
(* Symmetry for model-checking DynAlloc: the tensors are interchangeable.  *)
(***************************************************************************)
EXTENDS DynAlloc, TLC

Symmetry == Permutations(Tensors)
=============================================================================
