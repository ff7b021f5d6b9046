---------------------------- MODULE MCBoundCall ----------------------------
(* An instance of BoundCall for TLC: a class and its base, a smart pointer *)
(* to each, and numbers.  A call that fits no signature is made on every   *)
(* call stack within bounds.                                               *)
EXTENDS BoundCall

CONSTANTS num, der, ptr, B, D, PB, PD

MCBase == [t \in {B, D, PB, PD} |-> CASE t = D -> B [] t = PD -> PB [] OTHER -> None]
MCPointee == [p \in {PB, PD} |-> IF p = PB THEN B ELSE D]
MCWraps == [v \in {num, der, ptr} |-> CASE v = num -> Number [] v = der -> D [] v = ptr -> PD]
MCAccepts == [p \in Params |-> {v \in Values : CheckType(v, p)}]
=============================================================================
