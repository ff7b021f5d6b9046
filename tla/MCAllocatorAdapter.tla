------------------------- MODULE MCAllocatorAdapter -------------------------
(* Instances of AllocatorAdapter for TLC.  The byte is no size a block can *)
(* have, so that a header that was overwritten shows.                      *)
EXTENDS AllocatorAdapter

SomeByte == {MaxSize + 1}
=============================================================================
