------------------------------ MODULE Election ------------------------------
(***************************************************************************)
(* Leader election (grpclient/concurrency/election.go), and one observer.  *)
(***************************************************************************)
EXTENDS WaitDeletes

VARIABLES
  ses,    \* is leaderSession set?
  obs     \* the goroutine of Observe, and the last key and value it has for its channel

electionVars == <<ses, obs>>

Seen == [key : Lease \cup {NONE}, kv : KV]

ElectionTypeOK ==
  /\ ses \in [Client -> BOOLEAN]
  /\ obs \in [pc : {"get", "prefix", "post", "watch", "closed"}, seen : Seen]

Nothing == [key |-> NONE, kv |-> Absent]

SetSession(c, set) == ses' = [ses EXCEPT ![c] = set]

\* An Election has one caller at a time, and a session.  One that was resumed
\* has another prefix, and is used for Proclaim and Resign alone.
CanCampaign(c) == id[c] # NONE /\ pc[c] \in {"idle", "owner"}
CanCall(c)     == id[c] # NONE /\ pc[c] \in {"idle", "owner", "resumed"}

\* A key that is found has the value of the Campaign, or another one.
CampaignTxn(c) ==
  LET l == id[c]  found == l \in Keys IN
  /\ CanCampaign(c)
  /\ IF found THEN UNCHANGED <<store, now, wch>> ELSE Put(l)
  /\ key' = [key EXCEPT ![c] = l]
  /\ rev' = [rev EXCEPT ![c] = IF found THEN store[l].create ELSE now + 1]
  /\ SetSession(c, TRUE)
  /\ Goto(c, "get") \/ (found /\ Goto(c, "proclaim"))
  /\ UNCHANGED <<lease, id, watch, obs>>

\* Its error does not tell whether the key was put.
CampaignTxnFails(c) ==
  /\ CanCampaign(c)
  /\ (id[c] \notin Keys /\ Put(id[c])) \/ UNCHANGED <<store, now, wch>>
  /\ Goto(c, "idle")
  /\ UNCHANGED <<lease, id, key, rev, watch, electionVars>>

\* The put of Proclaim, made or refused by its comparison; next is where the
\* caller is after nil and failed where it is after an error.
ProclaimTxn(c, next, failed) ==
  \/ IsOwner(c) /\ Put(key[c]) /\ Goto(c, next) /\ UNCHANGED key
  \/ IsOwner(c) /\ Put(key[c]) /\ Goto(c, failed) /\ UNCHANGED key
  \/ Goto(c, failed) /\ UNCHANGED <<store, now, wch, key>>
  \/ /\ ~IsOwner(c) /\ Goto(c, failed)
     /\ key' = [key EXCEPT ![c] = NONE] /\ UNCHANGED <<store, now, wch>>

\* The Proclaim of a Campaign that found its key with another value.
CampaignProclaim(c) ==
  /\ pc[c] = "proclaim"
  /\ ProclaimTxn(c, "get", "resign")
  /\ UNCHANGED <<lease, id, rev, watch, ses, obs>>

Proclaim(c) ==
  /\ CanCall(c) /\ ses[c]
  /\ ProclaimTxn(c, pc[c], pc[c])
  /\ UNCHANGED <<lease, id, rev, watch, electionVars>>

\* A Resign is over whatever its transaction did.
Resign(c) ==
  /\ (CanCall(c) /\ ses[c]) \/ pc[c] = "resign"
  /\ (IsOwner(c) /\ Delete(key[c])) \/ UNCHANGED <<store, now, wch>>
  /\ key' = [key EXCEPT ![c] = NONE]
  /\ SetSession(c, FALSE)
  /\ Goto(c, IF pc[c] = "resumed" THEN "over" ELSE "idle")
  /\ UNCHANGED <<lease, id, rev, watch, obs>>

\* Mutant: a Campaign that failed to wait keeps its session.
StaysLeader(c) ==
  WaitFails(c, "idle") /\ UNCHANGED electionVars

\* A Campaign whose context is live only forgets its session.
CampaignFails(c) ==
  WaitFails(c, "idle") /\ SetSession(c, FALSE) /\ UNCHANGED obs

\* One whose context is done resigns.
CampaignDone(c) ==
  WaitFails(c, "resign") /\ UNCHANGED electionVars

\* A process that was elected with this lease goes on with the revision it
\* recorded: that of its key, or one that its key no longer has, as 1.
ResumeElection(c) ==
  /\ id[c] # NONE /\ pc[c] = "idle" /\ key[c] = NONE
  /\ \/ rev' = [rev EXCEPT ![c] = 1]
     \/ IsFirst(id[c]) /\ rev' = [rev EXCEPT ![c] = store[id[c]].create]
  /\ key' = [key EXCEPT ![c] = id[c]]
  /\ SetSession(c, TRUE)
  /\ Goto(c, "resumed")
  /\ UNCHANGED <<sessionVars, watch, obs>>

CampaignStep(c) ==
  \/ CampaignTxn(c) \/ CampaignTxnFails(c) \/ Proclaim(c)
  \/ CampaignProclaim(c) \/ CampaignFails(c) \/ CampaignDone(c)
  \/ Resign(c) \/ ResumeElection(c)
  \/ (WaitGet(c) \/ WaitDelete(c)) /\ UNCHANGED electionVars

-----------------------------------------------------------------------------

Post(l, kv) == [pc |-> "post", seen |-> [key |-> l, kv |-> kv]]

Watch(ls) == wch' = [keys |-> ls, events |-> <<>>]

observeFrame == <<store, now, lease, id, waitVars, ses>>

\* What was read is what a watch from the next revision goes on from.
ObserveGet ==
  /\ obs.pc = "get"
  /\ \/ Keys = {} /\ obs' = [obs EXCEPT !.pc = "prefix"] /\ Watch(Lease)
     \/ \E l \in Lease : IsFirst(l) /\ obs' = Post(l, store[l]) /\ Watch({l})
  /\ UNCHANGED observeFrame

\* Mutants: the watch of the key repeats the put, or starts after the revision
\* of the response that has it.
FromThePut(events)       == events
AfterTheResponse(events) == <<>>

AfterThePut(events) == Tail(events)

\* The prefix was empty: the first put makes a leader.  Its key is watched from
\* the revision of the put, not from that of the response that has more.
ObservePrefix ==
  /\ obs.pc = "prefix" /\ wch.events # <<>>
  /\ LET e == Head(wch.events) IN
     \/ /\ e.kv = Absent /\ UNCHANGED obs
        /\ wch' = [wch EXCEPT !.events = Tail(@)]
     \/ /\ e.kv # Absent /\ obs' = Post(e.key, e.kv)
        /\ wch' = [keys |-> {e.key}, events |-> AfterThePut(wch.events)]
  /\ UNCHANGED observeFrame

ObservePost ==
  /\ obs.pc = "post"
  /\ obs' = [obs EXCEPT !.pc = "watch"]
  /\ UNCHANGED <<observeFrame, wch>>

\* A put on the key of the leader is posted; after its deletion Get is next.
\* What was left of the prefix for other keys is not for this watch.
ObserveWatch ==
  /\ obs.pc = "watch" /\ wch.events # <<>>
  /\ LET e == Head(wch.events)  mine == e.key = obs.seen.key IN
     \/ mine /\ e.kv = Absent /\ obs' = [obs EXCEPT !.pc = "get"] /\ Watch({})
     \/ /\ mine => e.kv # Absent
        /\ IF mine THEN obs' = Post(e.key, e.kv) ELSE UNCHANGED obs
        /\ wch' = [wch EXCEPT !.events = Tail(@)]
  /\ UNCHANGED observeFrame

\* Get fails, the watch closes or the context is done: the channel is closed.
ObserveEnds ==
  /\ obs.pc # "closed"
  /\ obs' = [pc |-> "closed", seen |-> Nothing]
  /\ Watch({})
  /\ UNCHANGED observeFrame

ObserveNext == ObserveGet \/ ObservePrefix \/ ObservePost \/ ObserveWatch
ObserveStep == ObserveNext \/ ObserveEnds

=============================================================================
