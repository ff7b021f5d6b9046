--------------------------- MODULE MCWrappedObject ---------------------------
(* Instances of WrappedObject for TLC: objects and blocks are              *)
(* interchangeable.                                                        *)
EXTENDS WrappedObject, TLC

SymmetricNames == Permutations(Objects) \cup Permutations(Blocks)
=============================================================================
