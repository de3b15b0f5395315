--------------------------- MODULE MCDeviceStreams ---------------------------
(* Instances of DeviceStreams for TLC. *)
EXTENDS DeviceStreams

MCReqs == 1 .. 3
MCGen == <<3, 1, 3>>

\* The room of a request, and the memory of a result, is any that is free.
Interchangeable == Permutations(Leases) \cup Permutations(Blocks)
=============================================================================
