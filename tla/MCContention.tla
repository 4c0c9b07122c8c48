---------------------------- MODULE MCContention ----------------------------
(***************************************************************************)
(* Contention with two clients.  Those of a Mutex have three leases, so    *)
(* that one may wait for two keys; those of an Election two, and one put   *)
(* less and no ResumeElection while they are observed.                     *)
(***************************************************************************)
EXTENDS Contention

Bounded ==
  /\ api = "election" => lease[MaxLease] = "none"
  /\ obs.pc # "closed" => now < MaxRev /\ \A c \in Client : pc[c] # "resumed"

MCSpec == Init /\ [][Next /\ Bounded']_vars /\ Fairness

=============================================================================
