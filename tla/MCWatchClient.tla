--------------------------- MODULE MCWatchClient ---------------------------
(* Instances of WatchClient for TLC.                                       *)
EXTENDS WatchClient, TLC

\* Streams are interchangeable names; only for runs without liveness.
StreamSymmetry == Permutations(Stream) \cup Permutations(Thread)
=============================================================================
