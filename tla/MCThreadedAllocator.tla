------------------------- MODULE MCThreadedAllocator -------------------------
(* Small instances of ThreadedAllocator.                                    *)
EXTENDS ThreadedAllocator

=============================================================================
