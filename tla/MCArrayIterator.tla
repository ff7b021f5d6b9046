-------------------------- MODULE MCArrayIterator ---------------------------
(* An instance of ArrayElements for TLC: values that each integer type of  *)
(* Duktape lacks, and fractions.                                           *)
EXTENDS ArrayElements

Int64(n) == [type |-> [signed |-> TRUE, size |-> 64], value |-> n]
UInt64(n) == [type |-> [signed |-> FALSE, size |-> 64], value |-> n]
UInt(n) == [type |-> [signed |-> FALSE, size |-> 16], value |-> n]
Double(halves) == [type |-> Floating, value |-> halves]

MCElements ==
  [p \in 0 .. 6 |->
     <<Int64(-20), Int64(9), UInt64(40), UInt(12), Double(-5), Double(27), Int64(-2)>>[p + 1]]
=============================================================================
