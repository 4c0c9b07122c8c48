------------------------------ MODULE Session ------------------------------
(***************************************************************************)
(* Sessions (grpclient/concurrency/session.go), over what the package uses *)
(* of etcd: a store in which every write is a revision, and leases that    *)
(* take their keys with them.  Under its prefix a Mutex or an Election has *)
(* one key for each lease, so a key is known by its lease, and a value by  *)
(* the revision that put it.                                               *)
(***************************************************************************)
EXTENDS Integers, Sequences, FiniteSets

CONSTANTS
  Client,    \* processes: each has a session, and a Mutex or an Election on it
  MaxLease,  \* leases etcd has to grant: bounds the model
  MaxRev,    \* revisions: bounds the model
  NONE

ASSUME SessionAssumption ==
  /\ MaxLease \in Nat /\ MaxRev \in Nat
  /\ NONE \notin Int /\ NONE \notin [key : Int, create : Int]

VARIABLES
  store,  \* etcd: the keys
  now,    \* etcd: the revision of its last put
  lease,  \* etcd: its leases, kept alive by a session, left to expire or gone
  wch,    \* etcd: the keys watched for the observer, and the events not yet read
  id      \* the lease of the client's session; donec is closed once nobody keeps it

etcdVars    == <<store, now, lease, wch>>
sessionVars == <<etcdVars, id>>

Lease  == 1 .. MaxLease
Absent == [create |-> 0, mod |-> 0]
KV     == [create : Nat, mod : Nat]
Event  == [key : Lease, kv : KV]  \* a deletion when kv is Absent

SessionTypeOK ==
  /\ store \in [Lease -> KV]
  /\ now \in Nat
  /\ lease \in [Lease -> {"none", "kept", "left", "gone"}]
  /\ wch \in [keys : SUBSET Lease, events : Seq(Event)]
  /\ id \in [Client -> Lease \cup {NONE}]

Keys == {l \in Lease : store[l].create # 0}

\* The key with the oldest create revision (WithFirstCreate).
IsFirst(l) == l \in Keys /\ \A m \in Keys : store[l].create <= store[m].create

Alive(l) == lease[l] \in {"kept", "left"}

Write(l, kv) ==
  /\ store' = [store EXCEPT ![l] = kv]
  /\ wch' = IF l \in wch.keys
            THEN [wch EXCEPT !.events = Append(@, [key |-> l, kv |-> kv])] ELSE wch

Put(l) ==
  /\ Alive(l) /\ now < MaxRev
  /\ now' = now + 1
  /\ Write(l, [create |-> IF l \in Keys THEN store[l].create ELSE now + 1,
               mod |-> now + 1])

\* Nobody reads the revision of a deletion, which now does not count.
Delete(l) ==
  /\ IF l \in Keys THEN Write(l, Absent) ELSE UNCHANGED <<store, wch>>
  /\ UNCHANGED now

SetLease(l, state) == lease' = [lease EXCEPT ![l] = state]

\* The end of a lease deletes its key.
End(l) == SetLease(l, "gone") /\ Delete(l)

SessionInit ==
  /\ store = [l \in Lease |-> Absent]
  /\ now = 1
  /\ lease = [l \in Lease |-> "none"]
  /\ wch = [keys |-> {}, events |-> <<>>]
  /\ id = [c \in Client |-> NONE]

\* etcd grants a lease that was not granted before.
Fresh(l) == lease[l] = "none" /\ \A m \in 1 .. l - 1 : lease[m] # "none"

\* The lease is granted, or given (WithLease) by a process that had it; that
\* one may be gone by now.
NewSession(c) ==
  /\ id[c] = NONE
  /\ \E l \in Lease :
       /\ Fresh(l) \/ (lease[l] # "none" /\ \A d \in Client : id[d] # l)
       /\ SetLease(l, IF lease[l] = "gone" THEN "gone" ELSE "kept")
       /\ id' = [id EXCEPT ![c] = l]
  /\ UNCHANGED <<store, now, wch>>

\* KeepAlive fails: NewSession returns its error, and the lease is left.
NewSessionFails(c) ==
  /\ id[c] = NONE
  /\ \E l \in Lease : Fresh(l) /\ SetLease(l, "left")
  /\ UNCHANGED <<store, now, wch, id>>

\* The lease is not kept alive any more: Orphan, or the client of etcd gave up.
Orphan(c) ==
  /\ id[c] # NONE /\ lease[id[c]] = "kept"
  /\ SetLease(id[c], "left")
  /\ UNCHANGED <<store, now, wch, id>>

\* The rest of Close, after its Orphan; when Revoke fails the lease is left.
Close(c) ==
  /\ id[c] # NONE /\ lease[id[c]] = "left"
  /\ End(id[c])
  /\ UNCHANGED id

\* etcd ends a lease it was not asked in time to keep alive.
Expire(l) ==
  /\ Alive(l)
  /\ End(l)
  /\ UNCHANGED id

SessionStep ==
  \/ \E c \in Client : NewSession(c) \/ NewSessionFails(c) \/ Orphan(c) \/ Close(c)
  \/ \E l \in Lease : Expire(l)

=============================================================================
