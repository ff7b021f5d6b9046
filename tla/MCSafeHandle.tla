---------------------------- MODULE MCSafeHandle ----------------------------
(* Instances of SafeHandle for TLC.                                        *)
EXTENDS SafeHandle

CONSTANTS l1, l2, m1, m2, a1, a2, a3

\* Two local handles, one member handle in the objects at a1 and at a2.
MCOwner == [s \in {l1, l2, m1, m2} |-> CASE s = m1 -> a1 [] s = m2 -> a2 [] OTHER -> None]
=============================================================================
