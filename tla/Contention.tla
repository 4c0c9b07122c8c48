----------------------------- MODULE Contention -----------------------------
(***************************************************************************)
(* Clients, each with a session, in contention for one prefix, which they  *)
(* use for a Mutex or for an Election.                                     *)
(***************************************************************************)
EXTENDS Mutex, Election

VARIABLE api  \* "mutex" or "election"

vars == <<sessionVars, waitVars, electionVars, api>>

ContentionTypeOK ==
  SessionTypeOK /\ WaitTypeOK /\ ElectionTypeOK /\ api \in {"mutex", "election"}

NoRev == IF api = "mutex" THEN -1 ELSE 0

Init ==
  /\ SessionInit
  /\ api \in {"mutex", "election"}
  /\ pc = [c \in Client |-> "idle"]
  /\ key = [c \in Client |-> NONE]
  /\ rev = [c \in Client |-> NoRev]
  /\ watch = [c \in Client |-> NONE]
  /\ ses = [c \in Client |-> FALSE]
  /\ obs = [pc |-> IF api = "election" THEN "get" ELSE "closed", seen |-> Nothing]

\* The process dies, or drops its session and what it had made on it; the
\* lease is left.  A new Mutex or Election starts as Init has it.
Restart(c) ==
  /\ id[c] # NONE
  /\ id' = [id EXCEPT ![c] = NONE]
  /\ Goto(c, "idle")
  /\ key' = [key EXCEPT ![c] = NONE]
  /\ rev' = [rev EXCEPT ![c] = NoRev]
  /\ watch' = [watch EXCEPT ![c] = NONE]
  /\ SetSession(c, FALSE)
  /\ SetLease(id[c], IF lease[id[c]] = "gone" THEN "gone" ELSE "left")
  /\ UNCHANGED <<store, now, wch, obs, api>>

Mutually(A)  == api = "mutex" /\ A /\ UNCHANGED <<electionVars, api>>
Elections(A) == api = "election" /\ A /\ UNCHANGED api

Next ==
  \/ SessionStep /\ UNCHANGED <<waitVars, electionVars, api>>
  \/ \E c \in Client : Mutually(MutexStep(c)) \/ Elections(CampaignStep(c)) \/ Restart(c)
  \/ Elections(ObserveStep)

\* A call goes on once it is made, a lease nobody keeps expires, the posts are
\* read, and an owner gives up what it has in the end.
Fairness ==
  /\ \A c \in Client :
       /\ WF_vars((WaitGet(c) \/ WaitDelete(c)) /\ UNCHANGED <<electionVars, api>>)
       /\ WF_vars(Mutually(Release(c)))
       /\ WF_vars(Elections(CampaignProclaim(c)))
       /\ WF_vars(Elections(pc[c] = "resign" /\ Resign(c)))
       /\ SF_vars(Mutually(pc[c] = "owner" /\ Unlock(c)))
       /\ SF_vars(Elections(pc[c] \in Won /\ Resign(c)))
  /\ \A l \in Lease :
       WF_vars(lease[l] = "left" /\ Expire(l) /\ UNCHANGED <<waitVars, electionVars, api>>)
  /\ WF_vars(Elections(ObserveNext))

Spec == Init /\ [][Next]_vars

-----------------------------------------------------------------------------

\* Whoever has the lock or the lead, and passes the comparison of IsOwner, has a
\* key older than every other: there is one owner at a time.  Without IsOwner it
\* would not hold: Lock and Campaign return nil after waiting without a look at
\* their own key, whose lease may have expired by then (mutex.go:80-90).
OwnerIsOldest ==
  \A c \in Client : pc[c] \in Won /\ IsOwner(c) =>
    \A l \in Keys \ {key[c]} : store[l].create > rev[c]

\* A value is announced by the leader alone: a put on a key that exists is on
\* the oldest one, unless it is that of a Campaign on its own candidacy.
OnlyTheLeaderProclaims ==
  [][\A c \in Client : Proclaim(c) => store' = store \/ IsFirst(key[c])]_vars

\* Every value the observer posts is later than the last one, of the same leader
\* or of one elected after it.
Later(new, old) ==
  new.create > old.create \/ (new.create = old.create /\ new.mod > old.mod)

ObservedInOrder ==
  [][obs'.pc = "post" => Later(obs'.seen.kv, obs.seen.kv)]_obs

\* An older key that nobody will delete for now: a session refreshes its lease,
\* and the client of that session is in no call and does not hold the lock.
LeftBehind(c) ==
  \E l \in Older(MaxCreateRev(c)) :
    /\ lease[l] = "kept"
    /\ \A d \in Client : id[d] = l => pc[d] \in {"idle", "over"}

\* A wait ends, with the lock or not, unless a key is left behind: by the
\* Unlock after a failed wait that fails too (mutex.go:85), a Campaign that failed
\* with its context live (election.go:104), a Resign that failed (election.go:144)
\* or a first transaction that failed with its effect done (mutex.go:58,
\* election.go:78).  It blocks only as long as that session lives and its client
\* makes no call.
WaitsEnd == \A c \in Client : []<>(pc[c] \in Waiting => LeftBehind(c))

\* Observe always posts the most recent value of the leader.
ObserverCatchesUp ==
  []<>(\/ obs.pc = "closed" \/ Keys = {}
       \/ \E l \in Lease :
            IsFirst(l) /\ obs = [pc |-> "watch", seen |-> [key |-> l, kv |-> store[l]]])

=============================================================================
