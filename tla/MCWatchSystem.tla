--------------------------- MODULE MCWatchSystem ---------------------------
(* Instances of WatchSystem for TLC.                                       *)
EXTENDS WatchSystem, TLC
=============================================================================
