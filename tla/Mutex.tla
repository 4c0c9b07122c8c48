------------------------------- MODULE Mutex -------------------------------
(***************************************************************************)
(* The distributed lock (grpclient/concurrency/mutex.go).                  *)
(***************************************************************************)
EXTENDS WaitDeletes

\* A Mutex has one caller at a time: Lock from "idle" or, again, from "owner".
Ready(c) == id[c] # NONE /\ pc[c] \in {"idle", "owner"}

\* The transaction of Lock creates the key or finds it, and reads the oldest.
LockTxn(c) ==
  LET l == id[c]  found == l \in Keys IN
  /\ Ready(c)
  /\ IF found THEN UNCHANGED <<store, now, wch>> ELSE Put(l)
  /\ key' = [key EXCEPT ![c] = l]
  /\ rev' = [rev EXCEPT ![c] = IF found THEN store[l].create ELSE now + 1]
  /\ Goto(c, IF \A m \in Keys : store[m].create >= rev'[c] THEN "owner" ELSE "get")
  /\ UNCHANGED <<lease, id, watch>>

\* Its error does not tell whether the key was put.
LockTxnFails(c) ==
  /\ Ready(c)
  /\ (id[c] \notin Keys /\ Put(id[c])) \/ UNCHANGED <<store, now, wch>>
  /\ key' = [key EXCEPT ![c] = id[c]]
  /\ Goto(c, "idle")
  /\ UNCHANGED <<lease, id, rev, watch>>

Unlocked(c) ==
  /\ key' = [key EXCEPT ![c] = NONE]
  /\ rev' = [rev EXCEPT ![c] = -1]

Unlock(c) ==
  /\ Ready(c) /\ key[c] # NONE
  /\ Delete(key[c]) /\ Unlocked(c) /\ Goto(c, "idle")
  /\ UNCHANGED <<lease, id, watch>>

\* Unlock answers with an error, and the key is deleted all the same or not.
UnlockFails(c) ==
  /\ Ready(c) /\ key[c] # NONE
  /\ Delete(key[c])
  /\ UNCHANGED <<lease, id, waitVars>>

\* The Unlock of a Lock that failed to wait, whose error Lock ignores.
Release(c) ==
  /\ pc[c] = "release" /\ Goto(c, "idle")
  /\ \/ Delete(key[c]) /\ Unlocked(c)
     \/ (Delete(key[c]) \/ UNCHANGED <<store, now, wch>>) /\ UNCHANGED <<key, rev>>
  /\ UNCHANGED <<lease, id, watch>>

MutexStep(c) ==
  \/ LockTxn(c) \/ LockTxnFails(c) \/ Unlock(c) \/ UnlockFails(c)
  \/ WaitGet(c) \/ WaitDelete(c) \/ WaitFails(c, "release") \/ Release(c)

=============================================================================
