--------------------------- MODULE MCWatchServer ---------------------------
(* Instances of WatchServer for TLC.                                       *)
EXTENDS WatchServer, TLC

CONSTANT Leaver  \* the calls whose clients may leave, the others only read or do not

CallSymmetry == Permutations(Call)

\* Bounds of the liveness run.  One create for each call: run() of the client
\* writes a second one only if it reconnects before it has taken Watch's request.
OneCreate == \A c \in Call : recv[c].pc = "offer" => sws[c].watchID = NONE

\* A call that stays keeps its context, and asks for no cancel.
Steady == \A c \in Call \ Leaver : sctx[c] = "live" /\ recv[c].pc \notin {"lock", "done"}

MCServerSpec ==
  /\ ServerInit /\ [][ServerNext /\ (OneCreate /\ Steady)']_serverVars
  /\ StoreFairness /\ \A c \in Leaver : CallFairness(c)
=============================================================================
