--------------------------- MODULE MCMemoryManager ---------------------------
(* An instance of the memory manager for TLC. *)
EXTENDS MemoryManager

\* The host has room for one load, the accelerator for two; one load more is exactly
\* the hard threshold of either.
TierBytes == [host |-> 40, gpu |-> 60]
\* Nobody else in memory, or others up to the hard threshold on the accelerator or on both.
TelemetrySamples == {TierBytes, [host |-> 6, gpu |-> 9], [host |-> 40, gpu |-> 9]}
=============================================================================
