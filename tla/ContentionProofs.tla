-------------------------- MODULE ContentionProofs --------------------------
(***************************************************************************)
(* The safety of Mutex and Election, for any number of clients, leases and *)
(* revisions.                                                              *)
(*                                                                         *)
(* A key that is put where there was none is younger than everything: so   *)
(* once no key is older than a client's, none is ever again, whatever      *)
(* becomes of the others and of its own.                                   *)
(***************************************************************************)
EXTENDS Contention, TLAPS

WatchObject == [keys : SUBSET Lease, events : Seq(Event)]
Watched     == [key : Lease, create : Nat]
ObsObject   == [pc : {"get", "prefix", "post", "watch", "closed"}, seen : Seen]

\* No two keys were created at one revision, and none after now.
StoreOK ==
  /\ now >= 1
  /\ \A l \in Lease : store[l].create <= now
  /\ \A l, m \in Keys : store[l].create = store[m].create => l = m

NoneOlder(r) == \A l \in Keys : store[l].create >= r

ClientOK(c) ==
  /\ rev[c] <= now
  /\ pc[c] \in Won => NoneOlder(rev[c])

IInv == ContentionTypeOK /\ StoreOK /\ \A c \in Client : ClientOK(c)

(***************************************************************************)
(* The store.                                                              *)
(***************************************************************************)
\* A write keeps the create revision of a key, makes it 0, or makes it the
\* next revision.
Written(l) ==
  /\ now' \in {now, now + 1}
  /\ store' \in [Lease -> KV]
  /\ \A m \in Lease \ {l} : store'[m] = store[m]
  /\ store'[l].create \in {0, store[l].create} \/ (store'[l].create = now' /\ now' = now + 1)

\* NONE is no lease, no revision and nothing a watch may be for.
LEMMA Constants == NONE \notin Lease /\ NONE \notin Int /\ NONE \notin Watched
<1>1. NONE \notin Int /\ Lease \subseteq Int
  BY SessionAssumption DEF SessionAssumption, Lease
<1>2. ASSUME NONE \in Watched
      PROVE  FALSE
  <2>1. NONE = [key |-> NONE.key, create |-> NONE.create] /\ NONE.key \in Lease /\ NONE.create \in Nat
    BY <1>2 DEF Watched
  <2>2. [key |-> NONE.key, create |-> NONE.create] \in [key : Int, create : Int]
    BY <1>1, <2>1
  <2> QED
    BY <2>1, <2>2, SessionAssumption DEF SessionAssumption
<1> QED
  BY <1>1, <1>2, SessionAssumption DEF SessionAssumption

\* Write (a put or a deletion in etcd) gives its key the new value and leaves the other keys
\* alone.
LEMMA WriteTypes ==
  ASSUME SessionTypeOK, NEW l \in Lease, NEW kv \in KV, Write(l, kv)
  PROVE  /\ store' \in [Lease -> KV] /\ wch' \in WatchObject
         /\ store'[l] = kv /\ \A m \in Lease \ {l} : store'[m] = store[m]
<1>1. store' = [store EXCEPT ![l] = kv] /\ store \in [Lease -> KV]
  BY DEF Write, SessionTypeOK
<1> DEFINE e == [key |-> l, kv |-> kv]
<1>2. e \in Event
  BY DEF Event
<1>3. wch \in WatchObject
  BY DEF SessionTypeOK, WatchObject
<1>4. wch' = wch \/ wch' = [wch EXCEPT !.events = Append(wch.events, e)]
  BY DEF Write
<1> HIDE DEF e
<1>5. wch.events \in Seq(Event)
  BY <1>3 DEF WatchObject
<1>6. Append(wch.events, e) \in Seq(Event)
  BY ONLY <1>2, <1>5
<1>7. wch' \in WatchObject
  BY ONLY <1>3, <1>4, <1>6, Zenon DEF WatchObject
<1> QED
  BY ONLY <1>1, <1>7

\* Put keeps the create revision of a key that is there; a key that is new is created at the next
\* revision.
LEMMA PutWrites ==
  ASSUME SessionTypeOK, NEW l \in Lease, Put(l)
  PROVE  /\ Written(l) /\ wch' \in WatchObject /\ now' = now + 1
         /\ l \in Keys => store'[l].create = store[l].create
         /\ l \notin Keys => store'[l].create = now + 1
<1> DEFINE r  == IF l \in Keys THEN store[l].create ELSE now + 1
           kv == [create |-> r, mod |-> now + 1]
<1>1. store[l] \in KV /\ now \in Nat
  BY DEF SessionTypeOK
<1>2. store[l].create \in Nat
  BY <1>1 DEF KV
<1>3. r \in Nat
  BY <1>1, <1>2
<1>4. now' = now + 1 /\ Write(l, kv)
  BY DEF Put
<1> HIDE DEF r
<1>5. kv \in KV /\ kv.create = r
  BY ONLY <1>1, <1>3 DEF KV
<1> HIDE DEF kv
<1>6. /\ store' \in [Lease -> KV] /\ wch' \in WatchObject
      /\ store'[l] = kv /\ \A m \in Lease \ {l} : store'[m] = store[m]
  BY <1>4, <1>5, WriteTypes
<1> QED
  BY ONLY <1>1, <1>4, <1>5, <1>6 DEF Written, r

\* Delete takes a key away or finds none; it creates nothing.
LEMMA DeleteWrites ==
  ASSUME SessionTypeOK, NEW l \in Lease, Delete(l)
  PROVE  Written(l) /\ wch' \in WatchObject
<1>1. now' = now /\ store \in [Lease -> KV] /\ wch \in WatchObject
  BY DEF Delete, SessionTypeOK, WatchObject
<1>2. Absent \in KV /\ Absent.create = 0
  BY DEF Absent, KV
<1>3. CASE l \in Keys
  <2>1. Write(l, Absent)
    BY <1>3 DEF Delete
  <2>2. /\ store' \in [Lease -> KV] /\ wch' \in WatchObject
        /\ store'[l] = Absent /\ \A m \in Lease \ {l} : store'[m] = store[m]
    BY <1>2, <2>1, WriteTypes
  <2> QED
    BY <1>1, <1>2, <2>2 DEF Written
<1>4. CASE l \notin Keys
  BY <1>1, <1>4 DEF Delete, Written
<1> QED
  BY <1>3, <1>4

StoreStep == (store' = store /\ now' = now) \/ \E l \in Lease : Written(l)

\* What every step does to the store leaves no key older than one revision if
\* there was none.
LEMMA StoreStepKeeps ==
  ASSUME SessionTypeOK, StoreOK, StoreStep
  PROVE  /\ StoreOK' /\ now \in Nat /\ now' \in Nat /\ now <= now'
         /\ \A r \in Int : r <= now /\ NoneOlder(r) => NoneOlder(r)'
<1>1. /\ now \in Nat
      /\ \A l \in Lease : store[l].create \in Nat
  BY DEF SessionTypeOK, KV
<1>2. CASE store' = store /\ now' = now
  BY <1>1, <1>2 DEF StoreOK, NoneOlder, Keys
<1>3. ASSUME NEW l \in Lease, Written(l)
      PROVE  /\ StoreOK' /\ now' \in Nat /\ now <= now'
             /\ \A r \in Int : r <= now /\ NoneOlder(r) => NoneOlder(r)'
  <2>1. /\ now' \in {now, now + 1}
        /\ \A m \in Lease \ {l} : store'[m] = store[m]
        /\ store'[l].create \in {0, store[l].create} \/ (store'[l].create = now' /\ now' = now + 1)
    BY <1>3 DEF Written
  <2>2. \A m \in Lease : store'[m].create <= now'
    BY <1>1, <2>1 DEF StoreOK
  <2>3. \A m, n \in Keys' : store'[m].create = store'[n].create => m = n
    BY <1>1, <2>1 DEF StoreOK, Keys
  <2>4. \A r \in Int : r <= now /\ NoneOlder(r) => NoneOlder(r)'
    BY <1>1, <2>1 DEF NoneOlder, Keys
  <2> QED
    BY <1>1, <2>1, <2>2, <2>3, <2>4 DEF StoreOK
<1> QED
  BY <1>1, <1>2, <1>3 DEF StoreStep

(***************************************************************************)
(* The clients.                                                            *)
(***************************************************************************)
\* The other clients stay where they are.
Others(c) == \A d \in Client \ {c} : pc'[d] = pc[d] /\ rev'[d] = rev[d]

\* What the steps of c have to show.
StepOK(c) ==
  SessionTypeOK' /\ WaitTypeOK' /\ StoreStep /\ Others(c) /\ ClientOK(c)'

\* The call of c goes to state, with the key k and the revision r.
LEMMA WaitStep ==
  ASSUME WaitTypeOK, NEW c \in Client, NEW state \in CallPC \ {"watch"}, Goto(c, state),
         key' = key \/ (\E k \in Lease \cup {NONE} : key' = [key EXCEPT ![c] = k]),
         rev' = rev \/ (\E r \in Nat \cup {-1} : rev' = [rev EXCEPT ![c] = r]),
         watch' = [watch EXCEPT ![c] = NONE] \/ (watch' = watch /\ pc[c] # "watch")
  PROVE  WaitTypeOK' /\ Others(c) /\ pc'[c] = state
<1>1. pc' \in [Client -> CallPC] /\ pc'[c] = state /\ \A d \in Client \ {c} : pc'[d] = pc[d]
  BY DEF WaitTypeOK, Goto
<1>2. key' \in [Client -> Lease \cup {NONE}]
  BY DEF WaitTypeOK
<1>3. rev' \in [Client -> Nat \cup {-1}] /\ \A d \in Client \ {c} : rev'[d] = rev[d]
  BY DEF WaitTypeOK
<1>4. /\ watch' \in [Client -> Watched \cup {NONE}]
      /\ watch'[c] = NONE /\ \A d \in Client \ {c} : watch'[d] = watch[d]
  BY DEF WaitTypeOK, Watched
<1> QED
  BY <1>1, <1>2, <1>3, <1>4 DEF WaitTypeOK, Watched, Others

\* A step of c is right when it is for the store, the types and c itself.
LEMMA StepIsOK ==
  ASSUME NEW c \in Client, SessionTypeOK', WaitTypeOK', StoreStep, Others(c), ClientOK(c)'
  PROVE  StepOK(c)
BY DEF StepOK

\* A call that does not end with the lock asks for little.
LEMMA NotWon ==
  ASSUME NEW c \in Client, pc'[c] \notin Won, rev'[c] <= now'
  PROVE  ClientOK(c)'
BY DEF ClientOK

\* A step of a session or of a lease keeps the types of etcd and moves the store forward.
LEMMA SessionStepOK ==
  ASSUME IInv, SessionStep
  PROVE  SessionTypeOK' /\ StoreStep
<1>1. SessionTypeOK
  BY DEF IInv, ContentionTypeOK
<1>2. ASSUME NEW l \in Lease, End(l), UNCHANGED id
      PROVE  SessionTypeOK' /\ StoreStep
  <2>1. Written(l) /\ wch' \in WatchObject
    BY <1>1, <1>2, DeleteWrites DEF End
  <2>2. lease' \in [Lease -> {"none", "kept", "left", "gone"}]
    BY <1>1, <1>2 DEF End, SetLease, SessionTypeOK
  <2>3. now' \in Nat
    BY <1>1, <2>1 DEF Written, SessionTypeOK
  <2> QED
    BY <1>1, <1>2, <2>1, <2>2, <2>3 DEF Written, StoreStep, WatchObject, SessionTypeOK
<1>3. ASSUME NEW c \in Client, NewSession(c)
      PROVE  SessionTypeOK' /\ StoreStep
  BY <1>1, <1>3 DEF NewSession, SetLease, StoreStep, SessionTypeOK
<1>4. ASSUME NEW c \in Client, NewSessionFails(c)
      PROVE  SessionTypeOK' /\ StoreStep
  BY <1>1, <1>4 DEF NewSessionFails, SetLease, StoreStep, SessionTypeOK
<1>5. ASSUME NEW c \in Client, Orphan(c)
      PROVE  SessionTypeOK' /\ StoreStep
  BY <1>1, <1>5 DEF Orphan, SetLease, StoreStep, SessionTypeOK
<1>6. ASSUME NEW c \in Client, Close(c)
      PROVE  SessionTypeOK' /\ StoreStep
  <2>1. id[c] \in Lease /\ End(id[c]) /\ UNCHANGED id
    BY <1>1, <1>6 DEF Close, SessionTypeOK
  <2> QED
    BY <1>2, <2>1
<1>7. ASSUME NEW l \in Lease, Expire(l)
      PROVE  SessionTypeOK' /\ StoreStep
  BY <1>2, <1>7 DEF Expire
<1> QED
  BY <1>3, <1>4, <1>5, <1>6, <1>7 DEF SessionStep

\* What the store has become, when lease and id are as they were.
LEMMA KeptStore ==
  ASSUME SessionTypeOK, UNCHANGED <<store, now, wch, lease, id>>
  PROVE  SessionTypeOK' /\ StoreStep
BY DEF SessionTypeOK, StoreStep

\* Whatever writes one key moves the store forward ...
LEMMA WrittenStore ==
  ASSUME SessionTypeOK, NEW l \in Lease, Written(l), wch' \in WatchObject, UNCHANGED <<lease, id>>
  PROVE  SessionTypeOK' /\ StoreStep
BY DEF SessionTypeOK, StoreStep, Written, WatchObject

\* ... a deletion among it ...
LEMMA DeletedStore ==
  ASSUME SessionTypeOK, NEW l \in Lease, Delete(l), UNCHANGED <<lease, id>>
  PROVE  SessionTypeOK' /\ StoreStep
BY DeleteWrites, WrittenStore

\* ... and a put, which also takes a new revision.
LEMMA PutStore ==
  ASSUME SessionTypeOK, NEW l \in Lease, Put(l), UNCHANGED <<lease, id>>
  PROVE  SessionTypeOK' /\ StoreStep /\ now' = now + 1
BY PutWrites, WrittenStore

\* A client that keeps its place and its revision, or forgets them.
LEMMA SameClient ==
  ASSUME SessionTypeOK, WaitTypeOK, StoreOK, StoreStep, NEW c \in Client, ClientOK(c),
         pc'[c] = pc[c] \/ pc'[c] \notin Won,
         rev'[c] \in {rev[c], -1, 0}, rev'[c] = rev[c] \/ pc'[c] \notin Won
  PROVE  ClientOK(c)'
<1>1. /\ now \in Nat /\ now' \in Nat /\ now <= now'
      /\ \A r \in Int : r <= now /\ NoneOlder(r) => NoneOlder(r)'
  BY StoreStepKeeps
<1>2. rev[c] \in Int /\ rev[c] <= now
  BY DEF WaitTypeOK, ClientOK
<1>3. rev'[c] <= now'
  BY <1>1, <1>2 DEF StoreOK
<1>4. CASE pc'[c] \notin Won
  BY <1>3, <1>4, NotWon
<1>5. CASE pc'[c] \in Won
  <2>1. rev'[c] = rev[c] /\ pc[c] \in Won
    BY <1>5
  <2>2. NoneOlder(rev[c])'
    BY <1>1, <1>2, <2>1 DEF ClientOK
  <2> QED
    BY <1>3, <2>1, <2>2 DEF ClientOK, NoneOlder
<1> QED
  BY <1>4, <1>5

\* What the steps of a client start from.
LEMMA Start ==
  ASSUME IInv, NEW c \in Client
  PROVE  /\ SessionTypeOK /\ WaitTypeOK /\ StoreOK /\ ClientOK(c)
         /\ pc[c] \in CallPC /\ rev[c] \in Int /\ now \in Nat
         /\ key[c] # NONE => key[c] \in Lease
         /\ id[c] # NONE => id[c] \in Lease
BY DEF IInv, ContentionTypeOK, SessionTypeOK, WaitTypeOK

\* waitDeletes' Get: the wait is over if nothing is older than the client's own key.
LEMMA WaitGetOK ==
  ASSUME IInv, NEW c \in Client, WaitGet(c)
  PROVE  StepOK(c)
<1> DEFINE older == Older(MaxCreateRev(c))
<1>1. /\ SessionTypeOK /\ WaitTypeOK /\ StoreOK /\ ClientOK(c)
      /\ pc[c] = "get" /\ rev[c] \in Int
  BY Start DEF WaitGet
<1>2. UNCHANGED <<store, now, wch, lease, id, key, rev>>
  BY DEF WaitGet, sessionVars, etcdVars
<1>3. SessionTypeOK' /\ StoreStep
  BY <1>1, <1>2, KeptStore
<1>4. CASE older = {} /\ Goto(c, "owner") /\ UNCHANGED watch
  <2>1. WaitTypeOK' /\ Others(c) /\ pc'[c] = "owner"
    BY <1>1, <1>2, <1>4, WaitStep DEF CallPC, Won
  <2>2. NoneOlder(rev[c])
    BY <1>1, <1>4 DEF Older, MaxCreateRev, NoneOlder, SessionTypeOK, KV, Keys
  <2>3. ClientOK(c)'
    BY <1>1, <1>2, <2>1, <2>2 DEF ClientOK, NoneOlder, Keys
  <2> QED
    BY <1>3, <2>1, <2>3, StepIsOK
<1>5. ASSUME NEW l \in Lease, Goto(c, "watch"),
             watch' = [watch EXCEPT ![c] = [key |-> l, create |-> store[l].create]]
      PROVE  StepOK(c)
  <2>1. [key |-> l, create |-> store[l].create] \in Watched
    BY <1>1 DEF SessionTypeOK, KV, Watched
  <2>2. [key |-> l, create |-> store[l].create] # NONE
    BY <2>1, Constants
  <2>3. /\ pc' \in [Client -> CallPC] /\ pc'[c] = "watch"
        /\ \A d \in Client \ {c} : pc'[d] = pc[d]
    BY <1>1, <1>5 DEF WaitTypeOK, Goto, CallPC, Waiting
  <2>4. /\ watch' \in [Client -> Watched \cup {NONE}] /\ watch'[c] # NONE
        /\ \A d \in Client \ {c} : watch'[d] = watch[d]
    BY <1>1, <1>5, <2>1, <2>2 DEF WaitTypeOK, Watched
  <2>5. WaitTypeOK' /\ Others(c)
    BY <1>1, <1>2, <2>3, <2>4 DEF WaitTypeOK, Watched, Others
  <2>6. ClientOK(c)'
    BY <1>1, <1>2, <2>3 DEF ClientOK, Won
  <2> QED
    BY <1>3, <2>5, <2>6, StepIsOK
<1> QED
  BY <1>4, <1>5 DEF WaitGet

\* waitDelete returns when the key it watches is gone, and waitDeletes reads again.
LEMMA WaitDeleteOK ==
  ASSUME IInv, NEW c \in Client, WaitDelete(c)
  PROVE  StepOK(c)
<1>1. SessionTypeOK /\ WaitTypeOK /\ StoreOK /\ ClientOK(c)
  BY Start
<1>2. /\ UNCHANGED <<store, now, wch, lease, id, key, rev>>
      /\ Goto(c, "get") /\ watch' = [watch EXCEPT ![c] = NONE]
  BY DEF WaitDelete, sessionVars, etcdVars
<1>3. SessionTypeOK' /\ StoreStep
  BY <1>1, <1>2, KeptStore
<1>4. WaitTypeOK' /\ Others(c) /\ pc'[c] = "get"
  BY <1>1, <1>2, WaitStep DEF CallPC, Waiting
<1>5. ClientOK(c)'
  BY <1>1, <1>2, <1>3, <1>4, SameClient DEF Won
<1> QED
  BY <1>3, <1>4, <1>5, StepIsOK

\* A wait that fails wins nothing.
LEMMA WaitFailsOK ==
  ASSUME IInv, NEW c \in Client, NEW next \in {"idle", "release", "resign"}, WaitFails(c, next)
  PROVE  StepOK(c)
<1>1. SessionTypeOK /\ WaitTypeOK /\ StoreOK /\ ClientOK(c)
  BY Start
<1>2. /\ UNCHANGED <<store, now, wch, lease, id, key, rev>>
      /\ Goto(c, next) /\ watch' = [watch EXCEPT ![c] = NONE]
  BY DEF WaitFails, sessionVars, etcdVars
<1>3. SessionTypeOK' /\ StoreStep
  BY <1>1, <1>2, KeptStore
<1>4. WaitTypeOK' /\ Others(c) /\ pc'[c] = next
  BY <1>1, <1>2, WaitStep DEF CallPC
<1>5. ClientOK(c)'
  BY <1>1, <1>2, <1>3, <1>4, SameClient DEF Won
<1> QED
  BY <1>3, <1>4, <1>5, StepIsOK

(***************************************************************************)
(* Mutex.                                                                  *)
(***************************************************************************)

\* The transaction of Lock, and of Campaign: its key is found or is new.
LEMMA FoundOrPut ==
  ASSUME IInv, NEW c \in Client, id[c] # NONE, UNCHANGED <<lease, id>>,
         IF id[c] \in Keys THEN UNCHANGED <<store, now, wch>> ELSE Put(id[c]),
         rev' = [rev EXCEPT ![c] = IF id[c] \in Keys THEN store[id[c]].create ELSE now + 1]
  PROVE  /\ SessionTypeOK' /\ StoreStep
         /\ rev'[c] \in Nat /\ rev' = [rev EXCEPT ![c] = rev'[c]]
         /\ rev'[c] <= now' /\ id[c] \in Lease
         /\ (\A m \in Keys : store[m].create >= rev'[c]) =>
              \A m \in Keys' : store'[m].create >= rev'[c]
<1>1. /\ SessionTypeOK /\ WaitTypeOK /\ StoreOK /\ now \in Nat /\ id[c] \in Lease
  BY Start
<1>2. \A l \in Lease : store[l].create \in Nat
  BY <1>1 DEF SessionTypeOK, KV
<1>3. /\ rev'[c] = IF id[c] \in Keys THEN store[id[c]].create ELSE now + 1
      /\ rev' = [rev EXCEPT ![c] = rev'[c]]
  BY <1>1 DEF WaitTypeOK
<1>4. CASE id[c] \in Keys
  <2>1. UNCHANGED <<store, now, wch>> /\ rev'[c] = store[id[c]].create
    BY <1>3, <1>4
  <2>2. SessionTypeOK' /\ StoreStep
    BY <1>1, <2>1, KeptStore
  <2>3. rev'[c] \in Nat /\ rev'[c] <= now'
    BY <1>1, <1>2, <2>1 DEF StoreOK
  <2>4. (\A m \in Keys : store[m].create >= rev'[c]) =>
          \A m \in Keys' : store'[m].create >= rev'[c]
    BY <2>1 DEF Keys
  <2> QED
    BY <1>1, <1>3, <2>2, <2>3, <2>4 
<1>5. CASE id[c] \notin Keys
  <2>1. Put(id[c]) /\ rev'[c] = now + 1
    BY <1>3, <1>5
  <2>2. /\ Written(id[c]) /\ now' = now + 1
        /\ store'[id[c]].create = now + 1
    BY <1>1, <1>5, <2>1, PutWrites
  <2>3. SessionTypeOK' /\ StoreStep
    BY <1>1, <2>1, PutStore
  <2>4. (\A m \in Keys : store[m].create >= rev'[c]) =>
          \A m \in Keys' : store'[m].create >= rev'[c]
    BY <1>1, <2>1, <2>2 DEF Keys, Written
  <2> QED
    BY <1>1, <1>3, <2>1, <2>2, <2>3, <2>4
<1> QED
  BY <1>4, <1>5

\* Lock's transaction: an owner at once if no key is older than the one just put or found.
LEMMA LockTxnOK ==
  ASSUME IInv, NEW c \in Client, LockTxn(c)
  PROVE  StepOK(c)
<1> DEFINE state == IF \A m \in Keys : store[m].create >= rev'[c] THEN "owner" ELSE "get"
<1>1. /\ WaitTypeOK /\ pc[c] \in {"idle", "owner"} /\ id[c] # NONE
      /\ UNCHANGED <<lease, id, watch>>
      /\ key' = [key EXCEPT ![c] = id[c]] /\ Goto(c, state)
  BY Start DEF LockTxn, Ready
<1>2. /\ SessionTypeOK' /\ StoreStep
      /\ rev'[c] \in Nat /\ rev' = [rev EXCEPT ![c] = rev'[c]]
      /\ rev'[c] <= now' /\ id[c] \in Lease
      /\ (\A m \in Keys : store[m].create >= rev'[c]) =>
              \A m \in Keys' : store'[m].create >= rev'[c]
  BY <1>1, FoundOrPut DEF LockTxn
<1>3. state \in CallPC \ {"watch"}
  BY DEF CallPC, Waiting, Won
<1>4. (state = "owner" => \A m \in Keys' : store'[m].create >= rev'[c]) /\ state # "resumed"
  BY <1>2
<1> HIDE DEF state
<1>5. WaitTypeOK' /\ Others(c) /\ pc'[c] = state
  BY <1>1, <1>2, <1>3, WaitStep
<1>6. ClientOK(c)'
  BY <1>2, <1>4, <1>5 DEF ClientOK, Won, NoneOlder
<1> QED
  BY <1>2, <1>5, <1>6, StepIsOK

\* Lock's transaction fails, with its effect or without.
LEMMA LockTxnFailsOK ==
  ASSUME IInv, NEW c \in Client, LockTxnFails(c)
  PROVE  StepOK(c)
<1>1. /\ SessionTypeOK /\ WaitTypeOK /\ StoreOK /\ ClientOK(c)
      /\ pc[c] \in {"idle", "owner"} /\ id[c] \in Lease
      /\ UNCHANGED <<lease, id, rev, watch>>
      /\ key' = [key EXCEPT ![c] = id[c]] /\ Goto(c, "idle")
      /\ Put(id[c]) \/ UNCHANGED <<store, now, wch>>
  BY Start DEF LockTxnFails, Ready
<1>2. SessionTypeOK' /\ StoreStep
  BY <1>1, PutStore, KeptStore
<1>3. WaitTypeOK' /\ Others(c) /\ pc'[c] = "idle"
  BY <1>1, WaitStep DEF CallPC
<1>4. ClientOK(c)'
  BY <1>1, <1>2, <1>3, SameClient DEF Won
<1> QED
  BY <1>2, <1>3, <1>4, StepIsOK

\* Unlock deletes the key and forgets it.
LEMMA UnlockOK ==
  ASSUME IInv, NEW c \in Client, Unlock(c)
  PROVE  StepOK(c)
<1>1. /\ SessionTypeOK /\ WaitTypeOK /\ StoreOK /\ ClientOK(c)
      /\ pc[c] \in {"idle", "owner"} /\ key[c] \in Lease
      /\ UNCHANGED <<lease, id, watch>>
      /\ Delete(key[c]) /\ Unlocked(c) /\ Goto(c, "idle")
  BY Start DEF Unlock, Ready
<1>2. SessionTypeOK' /\ StoreStep
  BY <1>1, DeletedStore
<1>3. key' = [key EXCEPT ![c] = NONE] /\ rev' = [rev EXCEPT ![c] = -1]
  BY <1>1 DEF Unlocked
<1>4. WaitTypeOK' /\ Others(c) /\ pc'[c] = "idle"
  BY <1>1, <1>3, WaitStep DEF CallPC
<1>5. rev'[c] = -1
  BY <1>1, <1>3 DEF WaitTypeOK
<1>6. ClientOK(c)'
  BY <1>1, <1>2, <1>4, <1>5, SameClient DEF Won
<1> QED
  BY <1>2, <1>4, <1>6, StepIsOK

\* An Unlock that fails may have deleted the key; the Mutex still names it.
LEMMA UnlockFailsOK ==
  ASSUME IInv, NEW c \in Client, UnlockFails(c)
  PROVE  StepOK(c)
<1>1. /\ SessionTypeOK /\ WaitTypeOK /\ StoreOK /\ ClientOK(c)
      /\ key[c] \in Lease /\ Delete(key[c]) /\ UNCHANGED <<lease, id, pc, key, rev, watch>>
  BY Start DEF UnlockFails, Ready, waitVars
<1>2. SessionTypeOK' /\ StoreStep
  BY <1>1, DeletedStore
<1>3. WaitTypeOK' /\ Others(c)
  BY <1>1 DEF WaitTypeOK, Others
<1>4. ClientOK(c)'
  BY <1>1, <1>2, SameClient
<1> QED
  BY <1>2, <1>3, <1>4, StepIsOK

\* The Unlock of a Lock whose wait has failed.
LEMMA ReleaseOK ==
  ASSUME IInv, NEW c \in Client, Release(c)
  PROVE  StepOK(c)
<1>1. /\ SessionTypeOK /\ WaitTypeOK /\ StoreOK /\ ClientOK(c)
      /\ pc[c] = "release" /\ UNCHANGED <<lease, id, watch>> /\ Goto(c, "idle")
      /\ Delete(key[c]) \/ UNCHANGED <<store, now, wch>>
      /\ Unlocked(c) \/ UNCHANGED <<key, rev>>
  BY Start DEF Release
<1>2. SessionTypeOK' /\ StoreStep
  <2>1. CASE UNCHANGED <<store, now, wch>>
    BY <1>1, <2>1, KeptStore
  <2>2. CASE Delete(key[c]) /\ key[c] \in Lease
    BY <1>1, <2>2, DeletedStore
  <2>3. CASE Delete(key[c]) /\ key[c] \notin Lease
    BY <1>1, <2>3, KeptStore DEF Delete, Keys
  <2> QED
    BY <1>1, <2>1, <2>2, <2>3
<1>3. CASE Unlocked(c)
  <2>1. key' = [key EXCEPT ![c] = NONE] /\ rev' = [rev EXCEPT ![c] = -1]
    BY <1>3 DEF Unlocked
  <2>2. WaitTypeOK' /\ Others(c) /\ pc'[c] = "idle"
    BY <1>1, <2>1, WaitStep DEF CallPC
  <2>3. rev'[c] = -1
    BY <1>1, <2>1 DEF WaitTypeOK
  <2>4. ClientOK(c)'
    BY <1>1, <1>2, <2>2, <2>3, SameClient DEF Won
  <2> QED
    BY <1>2, <2>2, <2>4, StepIsOK
<1>4. CASE UNCHANGED <<key, rev>>
  <2>1. WaitTypeOK' /\ Others(c) /\ pc'[c] = "idle"
    BY <1>1, <1>4, WaitStep DEF CallPC
  <2>2. ClientOK(c)'
    BY <1>1, <1>2, <1>4, <2>1, SameClient DEF Won
  <2> QED
    BY <1>2, <2>1, <2>2, StepIsOK
<1> QED
  BY <1>1, <1>3, <1>4

\* Every step of a Mutex's client is of the allowed kind.
LEMMA MutexStepOK ==
  ASSUME IInv, NEW c \in Client, MutexStep(c)
  PROVE  StepOK(c)
BY WaitGetOK, WaitDeleteOK, WaitFailsOK, LockTxnOK, LockTxnFailsOK, UnlockOK, UnlockFailsOK,
   ReleaseOK DEF MutexStep

(***************************************************************************)
(* Election.                                                               *)
(***************************************************************************)
LEMMA SetSessionType ==
  ASSUME ElectionTypeOK, NEW c \in Client, NEW set \in BOOLEAN, SetSession(c, set), UNCHANGED obs
  PROVE  ElectionTypeOK'
BY DEF ElectionTypeOK, SetSession

\* A step that leaves the election's variables alone keeps their types.
LEMMA SameElection ==
  ASSUME ElectionTypeOK, UNCHANGED electionVars
  PROVE  ElectionTypeOK'
BY DEF ElectionTypeOK, electionVars

\* Campaign's transaction: the key is put, or found and perhaps to be proclaimed again.
LEMMA CampaignTxnOK ==
  ASSUME IInv, NEW c \in Client, CampaignTxn(c)
  PROVE  StepOK(c) /\ ElectionTypeOK'
<1>1. /\ WaitTypeOK /\ ElectionTypeOK
      /\ pc[c] \in {"idle", "owner"} /\ id[c] # NONE
      /\ UNCHANGED <<lease, id, watch, obs>> /\ SetSession(c, TRUE)
      /\ key' = [key EXCEPT ![c] = id[c]]
      /\ Goto(c, "get") \/ Goto(c, "proclaim")
  BY DEF CampaignTxn, CanCampaign, IInv, ContentionTypeOK
<1>2. /\ SessionTypeOK' /\ StoreStep
      /\ rev'[c] \in Nat /\ rev' = [rev EXCEPT ![c] = rev'[c]]
      /\ rev'[c] <= now' /\ id[c] \in Lease
  BY <1>1, FoundOrPut DEF CampaignTxn
<1>3. WaitTypeOK' /\ Others(c) /\ pc'[c] \in {"get", "proclaim"}
  <2>1. CASE Goto(c, "get")
    BY <1>1, <1>2, <2>1, WaitStep DEF CallPC, Waiting
  <2>2. CASE Goto(c, "proclaim")
    BY <1>1, <1>2, <2>2, WaitStep DEF CallPC
  <2> QED
    BY <1>1, <2>1, <2>2
<1>4. ClientOK(c)'
  BY <1>2, <1>3, NotWon DEF Won
<1> QED
  BY <1>1, <1>2, <1>3, <1>4, StepIsOK, SetSessionType

\* Campaign's transaction fails, with its effect or without.
LEMMA CampaignTxnFailsOK ==
  ASSUME IInv, NEW c \in Client, CampaignTxnFails(c)
  PROVE  StepOK(c)
<1>1. /\ SessionTypeOK /\ WaitTypeOK /\ StoreOK /\ ClientOK(c)
      /\ pc[c] \in {"idle", "owner"} /\ id[c] \in Lease
      /\ UNCHANGED <<lease, id, key, rev, watch>> /\ Goto(c, "idle")
      /\ Put(id[c]) \/ UNCHANGED <<store, now, wch>>
  BY Start DEF CampaignTxnFails, CanCampaign
<1>2. SessionTypeOK' /\ StoreStep
  BY <1>1, PutStore, KeptStore
<1>3. WaitTypeOK' /\ Others(c) /\ pc'[c] = "idle"
  BY <1>1, WaitStep DEF CallPC
<1>4. ClientOK(c)'
  BY <1>1, <1>2, <1>3, SameClient DEF Won
<1> QED
  BY <1>2, <1>3, <1>4, StepIsOK

\* A Proclaim leaves the caller in state, with its key or none.
LEMMA ProclaimTxnOK ==
  ASSUME IInv, NEW c \in Client, UNCHANGED <<lease, id, rev, watch>>, pc[c] # "watch",
         NEW next \in CallPC \ {"watch"}, NEW failed \in CallPC \ {"watch"},
         next \in {pc[c], "get"}, failed \in {pc[c], "resign"},
         ProclaimTxn(c, next, failed)
  PROVE  StepOK(c)
<1>1. /\ SessionTypeOK /\ WaitTypeOK /\ StoreOK /\ ClientOK(c)
  BY Start
<1>2. ASSUME NEW state \in {next, failed}, Goto(c, state),
             UNCHANGED key \/ key' = [key EXCEPT ![c] = NONE],
             (key[c] # NONE /\ Put(key[c])) \/ UNCHANGED <<store, now, wch>>
      PROVE  StepOK(c)
  <2>1. SessionTypeOK' /\ StoreStep
    BY <1>1, <1>2, Start, PutStore, KeptStore
  <2>2. WaitTypeOK' /\ Others(c) /\ pc'[c] = state
    BY <1>1, <1>2, WaitStep
  <2>3. pc'[c] = pc[c] \/ pc'[c] \notin Won
    BY <1>2, <2>2 DEF Won
  <2>4. ClientOK(c)'
    BY <1>1, <2>1, <2>3, SameClient
  <2> QED
    BY <2>1, <2>2, <2>4, StepIsOK
<1>3. CASE IsOwner(c) /\ Put(key[c]) /\ Goto(c, next) /\ UNCHANGED key
  BY <1>2, <1>3 DEF IsOwner
<1>4. CASE IsOwner(c) /\ Put(key[c]) /\ Goto(c, failed) /\ UNCHANGED key
  BY <1>2, <1>4 DEF IsOwner
<1>5. CASE Goto(c, failed) /\ UNCHANGED <<store, now, wch, key>>
  BY <1>2, <1>5
<1>6. CASE Goto(c, failed) /\ key' = [key EXCEPT ![c] = NONE] /\ UNCHANGED <<store, now, wch>>
  BY <1>2, <1>6
<1> QED
  BY <1>3, <1>4, <1>5, <1>6 DEF ProclaimTxn

\* The Proclaim inside Campaign goes on to the wait, or to Resign.
LEMMA CampaignProclaimOK ==
  ASSUME IInv, NEW c \in Client, CampaignProclaim(c)
  PROVE  StepOK(c) /\ ElectionTypeOK'
<1>1. /\ pc[c] = "proclaim" /\ ProclaimTxn(c, "get", "resign")
      /\ UNCHANGED <<lease, id, rev, watch>> /\ UNCHANGED electionVars
  BY DEF CampaignProclaim, electionVars
<1>2. "get" \in CallPC \ {"watch"} /\ "resign" \in CallPC \ {"watch"}
  BY DEF CallPC, Waiting
<1>3. StepOK(c)
  BY <1>1, <1>2, ProclaimTxnOK
<1> QED
  BY <1>1, <1>3, SameElection DEF IInv, ContentionTypeOK

\* A call of Proclaim leaves the client where it is.
LEMMA ProclaimOK ==
  ASSUME IInv, NEW c \in Client, Proclaim(c)
  PROVE  StepOK(c) /\ ElectionTypeOK'
<1>1. /\ pc[c] \in {"idle", "owner", "resumed"} /\ ProclaimTxn(c, pc[c], pc[c])
      /\ UNCHANGED <<lease, id, rev, watch>> /\ UNCHANGED electionVars
  BY DEF Proclaim, CanCall
<1>2. pc[c] \in CallPC \ {"watch"}
  BY <1>1 DEF CallPC, Won
<1>3. StepOK(c)
  BY <1>1, <1>2, ProclaimTxnOK
<1> QED
  BY <1>1, <1>3, SameElection DEF IInv, ContentionTypeOK

\* Resign deletes the key, whatever it answers, and the election has no session any more.
LEMMA ResignOK ==
  ASSUME IInv, NEW c \in Client, Resign(c)
  PROVE  StepOK(c) /\ ElectionTypeOK'
<1> DEFINE state == IF pc[c] = "resumed" THEN "over" ELSE "idle"
<1>1. /\ SessionTypeOK /\ WaitTypeOK /\ StoreOK /\ ClientOK(c) /\ ElectionTypeOK
      /\ key[c] # NONE => key[c] \in Lease
  BY Start DEF IInv, ContentionTypeOK
<1>2. /\ pc[c] \in {"idle", "owner", "resumed", "resign"}
      /\ UNCHANGED <<lease, id, rev, watch, obs>> /\ SetSession(c, FALSE) /\ Goto(c, state)
      /\ key' = [key EXCEPT ![c] = NONE]
      /\ (key[c] # NONE /\ Delete(key[c])) \/ UNCHANGED <<store, now, wch>>
  BY DEF Resign, CanCall, IsOwner
<1>3. state \in CallPC \ {"watch"} /\ state \notin Won
  BY DEF CallPC, Won
<1> HIDE DEF state
<1>4. SessionTypeOK' /\ StoreStep
  BY <1>1, <1>2, DeletedStore, KeptStore
<1>5. WaitTypeOK' /\ Others(c) /\ pc'[c] = state
  BY <1>1, <1>2, <1>3, WaitStep
<1>6. ClientOK(c)'
  BY <1>1, <1>2, <1>3, <1>4, <1>5, SameClient
<1> QED
  BY <1>1, <1>2, <1>4, <1>5, <1>6, StepIsOK, SetSessionType

\* ResumeElection takes over a key without a wait; it does not make an owner.
LEMMA ResumeElectionOK ==
  ASSUME IInv, NEW c \in Client, ResumeElection(c)
  PROVE  StepOK(c) /\ ElectionTypeOK'
<1>1. /\ SessionTypeOK /\ WaitTypeOK /\ StoreOK /\ ElectionTypeOK /\ now \in Nat
      /\ pc[c] = "idle" /\ id[c] \in Lease
      /\ UNCHANGED <<store, now, wch, lease, id, watch, obs>>
      /\ SetSession(c, TRUE) /\ Goto(c, "resumed") /\ key' = [key EXCEPT ![c] = id[c]]
  BY Start DEF ResumeElection, sessionVars, etcdVars, IInv, ContentionTypeOK
<1>2. SessionTypeOK' /\ StoreStep
  BY <1>1, KeptStore
<1>3. \A l \in Lease : store[l].create \in Nat
  BY <1>1 DEF SessionTypeOK, KV
<1>4. PICK r \in Nat : rev' = [rev EXCEPT ![c] = r] /\ r <= now /\ NoneOlder(r)
  <2>1. CASE rev' = [rev EXCEPT ![c] = 1]
    <3>1. NoneOlder(1) /\ 1 <= now
      BY <1>1, <1>3 DEF NoneOlder, Keys, StoreOK
    <3> QED
      BY <2>1, <3>1
  <2>2. CASE IsFirst(id[c]) /\ rev' = [rev EXCEPT ![c] = store[id[c]].create]
    <3>1. NoneOlder(store[id[c]].create) /\ store[id[c]].create <= now
      BY <1>1, <1>3, <2>2 DEF NoneOlder, IsFirst, StoreOK
    <3> QED
      BY <1>1, <1>3, <2>2, <3>1
  <2> QED
    BY <2>1, <2>2 DEF ResumeElection
<1>5. WaitTypeOK' /\ Others(c) /\ pc'[c] = "resumed"
  BY <1>1, <1>4, WaitStep DEF CallPC, Won
<1>6. rev'[c] = r
  BY <1>1, <1>4 DEF WaitTypeOK
<1>7. ClientOK(c)'
  BY <1>1, <1>4, <1>6 DEF ClientOK, NoneOlder, Keys
<1> QED
  BY <1>1, <1>2, <1>5, <1>7, StepIsOK, SetSessionType

\* Every step of an Election's client is of the allowed kind.
LEMMA CampaignStepOK ==
  ASSUME IInv, NEW c \in Client, CampaignStep(c)
  PROVE  StepOK(c) /\ ElectionTypeOK'
<1>1. ElectionTypeOK
  BY DEF IInv, ContentionTypeOK
<1>2. CASE CampaignTxn(c)
  BY <1>2, CampaignTxnOK
<1>3. CASE CampaignTxnFails(c)
  BY <1>1, <1>3, CampaignTxnFailsOK, SameElection DEF CampaignTxnFails
<1>4. CASE Proclaim(c)
  BY <1>4, ProclaimOK
<1>5. CASE CampaignProclaim(c)
  BY <1>5, CampaignProclaimOK
<1>6. CASE CampaignFails(c)
  BY <1>1, <1>6, WaitFailsOK, SetSessionType DEF CampaignFails
<1>7. CASE CampaignDone(c)
  BY <1>1, <1>7, WaitFailsOK, SameElection DEF CampaignDone
<1>8. CASE Resign(c)
  BY <1>8, ResignOK
<1>9. CASE ResumeElection(c)
  BY <1>9, ResumeElectionOK
<1>10. CASE (WaitGet(c) \/ WaitDelete(c)) /\ UNCHANGED electionVars
  BY <1>1, <1>10, WaitGetOK, WaitDeleteOK, SameElection
<1> QED
  BY <1>2, <1>3, <1>4, <1>5, <1>6, <1>7, <1>8, <1>9, <1>10 DEF CampaignStep

\* A client that starts again has no session, no key and no call.
LEMMA RestartOK ==
  ASSUME IInv, NEW c \in Client, Restart(c)
  PROVE  StepOK(c) /\ ElectionTypeOK'
<1>1. /\ SessionTypeOK /\ WaitTypeOK /\ StoreOK /\ ClientOK(c) /\ ElectionTypeOK
      /\ id[c] \in Lease
      /\ UNCHANGED <<store, now, wch, obs>> /\ id' = [id EXCEPT ![c] = NONE]
      /\ SetSession(c, FALSE) /\ Goto(c, "idle") /\ watch' = [watch EXCEPT ![c] = NONE]
      /\ key' = [key EXCEPT ![c] = NONE] /\ rev' = [rev EXCEPT ![c] = NoRev]
  BY Start DEF Restart, IInv, ContentionTypeOK
<1>2. NoRev \in {0, -1}
  BY DEF NoRev
<1>3. lease' \in [Lease -> {"none", "kept", "left", "gone"}]
  BY <1>1 DEF Restart, SetLease, SessionTypeOK
<1>4. SessionTypeOK' /\ StoreStep
  BY <1>1, <1>3 DEF SessionTypeOK, StoreStep
<1> HIDE DEF NoRev
<1>5. WaitTypeOK' /\ Others(c) /\ pc'[c] = "idle"
  BY <1>1, <1>2, WaitStep DEF CallPC
<1>6. rev'[c] \in {0, -1}
  BY <1>1, <1>2 DEF WaitTypeOK
<1>7. ClientOK(c)'
  BY <1>1, <1>4, <1>5, <1>6, SameClient DEF Won
<1> QED
  BY <1>1, <1>4, <1>5, <1>7, StepIsOK, SetSessionType

\* A value that is posted was read from the store or from its events.
LEMMA PostType ==
  ASSUME NEW l \in Lease, NEW kv \in KV
  PROVE  Post(l, kv) \in ObsObject
BY DEF Post, ObsObject, Seen

\* The observer may move to any of its places and stay an observer ...
LEMMA PCType ==
  ASSUME NEW o \in ObsObject, NEW p \in {"get", "prefix", "watch"}
  PROVE  [o EXCEPT !.pc = p] \in ObsObject
BY DEF ObsObject

\* ... a new watch has no events yet ...
LEMMA WatchType ==
  ASSUME NEW ls \in SUBSET Lease, Watch(ls)
  PROVE  wch' \in WatchObject
<1>1. <<>> \in Seq(Event)
  OBVIOUS
<1> QED
  BY <1>1, Zenon DEF Watch, WatchObject

\* The events of the observer's watch.
LEMMA EventsType ==
  ASSUME SessionTypeOK, wch.events # <<>>
  PROVE  /\ Head(wch.events).key \in Lease /\ Head(wch.events).kv \in KV
         /\ Tail(wch.events) \in Seq(Event)
<1>1. wch.events \in Seq(Event)
  BY DEF SessionTypeOK
<1>2. Head(wch.events) \in Event /\ Tail(wch.events) \in Seq(Event)
  BY ONLY <1>1, wch.events # <<>>
<1> QED
  BY ONLY <1>2 DEF Event

\* ... a watch may hold any events ...
LEMMA WatchedType ==
  ASSUME NEW ks \in SUBSET Lease, NEW evs \in Seq(Event)
  PROVE  [keys |-> ks, events |-> evs] \in WatchObject
BY Zenon DEF WatchObject

\* ... and lose those that were read.
LEMMA ReadType ==
  ASSUME NEW w \in WatchObject, NEW evs \in Seq(Event)
  PROVE  [w EXCEPT !.events = evs] \in WatchObject
BY Zenon DEF WatchObject

\* A step of the observer changes nothing but obs and wch.
ObserveOK ==
  /\ UNCHANGED <<store, now, lease, id, waitVars, ses>>
  /\ wch' \in WatchObject /\ obs' \in ObsObject

\* Observe's Get keeps the types of the observer and changes nothing else.
LEMMA ObserveGetOK ==
  ASSUME IInv, ObserveGet
  PROVE  ObserveOK
<1>1. SessionTypeOK /\ obs \in ObsObject
  BY DEF IInv, ContentionTypeOK, ElectionTypeOK, ObsObject
<1>2. UNCHANGED <<store, now, lease, id, waitVars, ses>>
  BY DEF ObserveGet, observeFrame
<1>3. CASE obs' = [obs EXCEPT !.pc = "prefix"] /\ Watch(Lease)
  BY <1>1, <1>2, <1>3, PCType, WatchType DEF ObserveOK
<1>4. ASSUME NEW l \in Lease, obs' = Post(l, store[l]), Watch({l})
      PROVE  ObserveOK
  <2>1. store[l] \in KV
    BY <1>1 DEF SessionTypeOK
  <2> QED
    BY <1>2, <1>4, <2>1, PostType, WatchType DEF ObserveOK
<1> QED
  BY <1>3, <1>4 DEF ObserveGet

\* So does an event of the empty prefix ...
LEMMA ObservePrefixOK ==
  ASSUME IInv, ObservePrefix
  PROVE  ObserveOK
<1> DEFINE e == Head(wch.events)  rest == Tail(wch.events)
<1>1. /\ SessionTypeOK /\ obs \in ObsObject /\ wch \in WatchObject
      /\ wch.events # <<>>
  BY DEF IInv, ContentionTypeOK, SessionTypeOK, ElectionTypeOK, ObsObject, WatchObject,
         ObservePrefix
<1>2. e.key \in Lease /\ e.kv \in KV /\ rest \in Seq(Event)
  BY <1>1, EventsType
<1>3. UNCHANGED <<store, now, lease, id, waitVars, ses>>
  BY DEF ObservePrefix, observeFrame
<1>4. \/ obs' = obs /\ wch' = [wch EXCEPT !.events = rest]
      \/ obs' = Post(e.key, e.kv) /\ wch' = [keys |-> {e.key}, events |-> rest]
  BY DEF ObservePrefix, AfterThePut
<1> HIDE DEF e, rest
<1>5. obs' \in ObsObject
  BY <1>1, <1>2, <1>4, PostType
<1>6. {e.key} \in SUBSET Lease
  BY <1>2
<1>7. CASE wch' = [wch EXCEPT !.events = rest]
  BY <1>1, <1>2, <1>3, <1>5, <1>7, ReadType DEF ObserveOK
<1>8. CASE wch' = [keys |-> {e.key}, events |-> rest]
  BY <1>2, <1>3, <1>5, <1>6, <1>8, WatchedType DEF ObserveOK
<1> QED
  BY <1>4, <1>7, <1>8

\* ... an event of the leader's key ...
LEMMA ObserveWatchOK ==
  ASSUME IInv, ObserveWatch
  PROVE  ObserveOK
<1> DEFINE e == Head(wch.events)  rest == Tail(wch.events)
<1>1. /\ SessionTypeOK /\ obs \in ObsObject /\ wch \in WatchObject
      /\ wch.events # <<>>
  BY DEF IInv, ContentionTypeOK, SessionTypeOK, ElectionTypeOK, ObsObject, WatchObject,
         ObserveWatch
<1>2. e.key \in Lease /\ e.kv \in KV /\ rest \in Seq(Event)
  BY <1>1, EventsType
<1>3. UNCHANGED <<store, now, lease, id, waitVars, ses>>
  BY DEF ObserveWatch, observeFrame
<1>4. \/ obs' = [obs EXCEPT !.pc = "get"] /\ Watch({})
      \/ /\ obs' \in {Post(e.key, e.kv), obs}
         /\ wch' = [wch EXCEPT !.events = rest]
  BY DEF ObserveWatch
<1> HIDE DEF e, rest
<1>5. CASE obs' = [obs EXCEPT !.pc = "get"] /\ Watch({})
  BY <1>1, <1>3, <1>5, PCType, WatchType DEF ObserveOK
<1>6. CASE obs' \in {Post(e.key, e.kv), obs} /\ wch' = [wch EXCEPT !.events = rest]
  <2>1. obs' \in ObsObject
    BY <1>1, <1>2, <1>6, PostType
  <2>2. wch' \in WatchObject
    BY <1>1, <1>2, <1>6, ReadType
  <2> QED
    BY <1>3, <2>1, <2>2 DEF ObserveOK
<1> QED
  BY <1>4, <1>5, <1>6

\* ... and every other step of Observe.
LEMMA ObserveStepOK ==
  ASSUME IInv, ObserveStep
  PROVE  ObserveOK
<1>1. CASE ObserveGet
  BY <1>1, ObserveGetOK
<1>2. CASE ObservePrefix
  BY <1>2, ObservePrefixOK
<1>3. CASE ObservePost
  <2>1. obs \in ObsObject /\ wch \in WatchObject
    BY DEF IInv, ContentionTypeOK, SessionTypeOK, ElectionTypeOK, ObsObject, WatchObject
  <2>2. UNCHANGED <<store, now, lease, id, waitVars, ses, wch>>
    BY <1>3 DEF ObservePost, observeFrame
  <2>3. obs' = [obs EXCEPT !.pc = "watch"]
    BY <1>3 DEF ObservePost
  <2> QED
    BY <2>1, <2>2, <2>3, PCType DEF ObserveOK
<1>4. CASE ObserveWatch
  BY <1>4, ObserveWatchOK
<1>5. CASE ObserveEnds
  <2>1. UNCHANGED <<store, now, lease, id, waitVars, ses>> /\ Watch({})
    BY <1>5 DEF ObserveEnds, observeFrame
  <2>2. obs' \in ObsObject
    BY <1>5 DEF ObserveEnds, ObsObject, Seen, Nothing, Absent, KV
  <2> QED
    BY <2>1, <2>2, WatchType DEF ObserveOK
<1> QED
  BY <1>1, <1>2, <1>3, <1>4, <1>5 DEF ObserveStep, ObserveNext

(***************************************************************************)
(* The invariant.                                                          *)
(***************************************************************************)
LEMMA InitOK == Init => IInv
<1> SUFFICES ASSUME Init
             PROVE  IInv
  OBVIOUS
<1>1. Absent \in KV /\ Absent.create = 0 /\ Nothing \in Seen
  BY DEF Absent, KV, Nothing, Seen
<1>2. /\ store = [l \in Lease |-> Absent] /\ now = 1 /\ lease = [l \in Lease |-> "none"]
      /\ wch = [keys |-> {}, events |-> <<>>] /\ id = [c \in Client |-> NONE]
  BY DEF Init, SessionInit
<1>3. wch \in WatchObject
  <2>1. <<>> \in Seq(Event)
    OBVIOUS
  <2> QED
    BY <1>2, <2>1, Zenon DEF WatchObject
<1>4. SessionTypeOK
  BY <1>1, <1>2, <1>3 DEF SessionTypeOK, WatchObject
<1>5. \A l \in Lease : store[l].create = 0
  BY <1>1, <1>2
<1>6. Keys = {} /\ StoreOK
  BY <1>2, <1>5 DEF Keys, StoreOK
<1>7. NoRev \in {0, -1}
  BY DEF NoRev
<1>8. WaitTypeOK
  <2>1. /\ pc = [c \in Client |-> "idle"] /\ key = [c \in Client |-> NONE]
        /\ rev = [c \in Client |-> NoRev] /\ watch = [c \in Client |-> NONE]
    BY DEF Init
  <2> HIDE DEF NoRev
  <2> QED
    BY <1>7, <2>1 DEF WaitTypeOK, CallPC
<1>9. ElectionTypeOK /\ api \in {"mutex", "election"}
  BY <1>1 DEF Init, ElectionTypeOK
<1>10. ASSUME NEW c \in Client
       PROVE  ClientOK(c)
  <2>1. rev[c] = NoRev /\ pc[c] = "idle"
    BY DEF Init
  <2> HIDE DEF NoRev
  <2> QED
    BY <1>2, <1>7, <2>1 DEF ClientOK, Won
<1> QED
  BY <1>4, <1>6, <1>8, <1>9, <1>10 DEF IInv, ContentionTypeOK

\* What a step does to the client that takes it is left to the lemmas above; the
\* others have it by what became of the store.
LEMMA ClientStep ==
  ASSUME IInv, NEW c \in Client, StepOK(c), ElectionTypeOK', api' = api
  PROVE  IInv'
<1>1. /\ SessionTypeOK' /\ WaitTypeOK' /\ StoreStep /\ Others(c) /\ ClientOK(c)'
  BY DEF StepOK
<1>2. StoreOK'
  BY <1>1, StoreStepKeeps DEF IInv, ContentionTypeOK
<1>3. ASSUME NEW d \in Client
      PROVE  ClientOK(d)'
  <2>1. CASE d = c
    BY <1>1, <2>1
  <2>2. CASE d # c
    BY <1>1, <2>2, SameClient DEF IInv, ContentionTypeOK, Others
  <2> QED
    BY <2>1, <2>2
<1>4. api' \in {"mutex", "election"}
  BY DEF IInv, ContentionTypeOK
<1> QED
  BY <1>1, <1>2, <1>3, <1>4 DEF IInv, ContentionTypeOK

\* Every step keeps the inductive invariant.
LEMMA InvariantStep == IInv /\ [Next]_vars => IInv'
<1> SUFFICES ASSUME IInv, [Next]_vars
             PROVE  IInv'
  OBVIOUS
<1>1. CASE SessionStep /\ UNCHANGED <<waitVars, electionVars, api>>
  <2>1. SessionTypeOK' /\ StoreStep
    BY <1>1, SessionStepOK
  <2>2. UNCHANGED <<pc, key, rev, watch, ses, obs, api>>
    BY <1>1 DEF waitVars, electionVars
  <2>3. WaitTypeOK' /\ ElectionTypeOK'
    BY <2>2 DEF IInv, ContentionTypeOK, WaitTypeOK, ElectionTypeOK
  <2>4. StoreOK'
    BY <2>1, StoreStepKeeps DEF IInv, ContentionTypeOK
  <2>5. \A c \in Client : ClientOK(c)'
    BY <2>1, <2>2, SameClient DEF IInv, ContentionTypeOK
  <2> QED
    BY <2>1, <2>2, <2>3, <2>4, <2>5 DEF IInv, ContentionTypeOK
<1>2. ASSUME NEW c \in Client, Mutually(MutexStep(c))
      PROVE  IInv'
  <2>1. MutexStep(c) /\ UNCHANGED <<electionVars, api>>
    BY <1>2 DEF Mutually
  <2>2. StepOK(c) /\ ElectionTypeOK'
    BY <2>1, MutexStepOK, SameElection DEF IInv, ContentionTypeOK
  <2> QED
    BY <2>1, <2>2, ClientStep
<1>3. ASSUME NEW c \in Client, Elections(CampaignStep(c))
      PROVE  IInv'
  BY <1>3, CampaignStepOK, ClientStep DEF Elections
<1>4. ASSUME NEW c \in Client, Restart(c)
      PROVE  IInv'
  BY <1>4, RestartOK, ClientStep DEF Restart
<1>5. CASE Elections(ObserveStep)
  <2>1. ObserveOK /\ api' = api
    BY <1>5, ObserveStepOK DEF Elections
  <2>2. UNCHANGED <<store, now, lease, id, pc, key, rev, watch, ses>>
    BY <2>1 DEF ObserveOK, waitVars
  <2>3. SessionTypeOK'
    BY <2>1, <2>2 DEF ObserveOK, WatchObject, IInv, ContentionTypeOK, SessionTypeOK
  <2>4. WaitTypeOK'
    BY <2>2 DEF IInv, ContentionTypeOK, WaitTypeOK
  <2>5. ElectionTypeOK'
    BY <2>1, <2>2 DEF ObserveOK, ObsObject, IInv, ContentionTypeOK, ElectionTypeOK
  <2>6. StoreOK' /\ \A c \in Client : ClientOK(c)'
    BY <2>2 DEF IInv, StoreOK, ClientOK, NoneOlder, Keys
  <2> QED
    BY <2>1, <2>3, <2>4, <2>5, <2>6 DEF IInv, ContentionTypeOK
<1>6. CASE UNCHANGED vars
  <2>1. UNCHANGED <<store, now, lease, wch, id, pc, key, rev, watch, ses, obs, api>>
    BY <1>6 DEF vars, sessionVars, etcdVars, waitVars, electionVars
  <2>2. SessionTypeOK' /\ WaitTypeOK' /\ ElectionTypeOK'
    BY <2>1 DEF IInv, ContentionTypeOK, SessionTypeOK, WaitTypeOK, ElectionTypeOK
  <2>3. StoreOK' /\ \A c \in Client : ClientOK(c)'
    BY <2>1 DEF IInv, StoreOK, ClientOK, NoneOlder, Keys
  <2> QED
    BY <2>1, <2>2, <2>3 DEF IInv, ContentionTypeOK
<1> QED
  BY <1>1, <1>2, <1>3, <1>4, <1>5, <1>6 DEF Next

\* It holds in every behaviour of the clients.
LEMMA InvariantHolds == Spec => []IInv
<1> QED
  BY InitOK, InvariantStep, PTL DEF Spec

(***************************************************************************)
(* The leader.  leaderSession is set in calls that are not won, too; but   *)
(* between two calls it says that the client has won.                      *)
(***************************************************************************)
LeadOK(c) ==
  ses[c] => /\ api = "election" /\ rev[c] >= 1
            /\ pc[c] = "idle" => NoneOlder(rev[c])

LeadInv == IInv /\ \A c \in Client : LeadOK(c)

\* How a call of c may come back to leaderSession being set.
LeadStep(c) ==
  /\ \A d \in Client \ {c} : ses'[d] = ses[d]
  /\ \/ ~ses'[c]
     \/ /\ ses'[c] = ses[c] /\ rev'[c] = rev[c]
        /\ pc'[c] = "idle" => pc[c] \in Won \cup {"idle"}
     \/ rev'[c] >= 1 /\ pc'[c] # "idle"

\* A step that leaves leaderSession and the revision alone, and ends no call that waits.
LEMMA SameLead ==
  ASSUME NEW c \in Client, UNCHANGED <<ses, rev>>, pc'[c] = "idle" => pc[c] \in Won \cup {"idle"}
  PROVE  LeadStep(c)
BY DEF LeadStep

\* One that forgets leaderSession ...
LEMMA NoLead ==
  ASSUME ElectionTypeOK, NEW c \in Client, SetSession(c, FALSE)
  PROVE  LeadStep(c)
BY DEF LeadStep, SetSession, ElectionTypeOK

\* ... and one that sets it and stays in its call.
LEMMA NewLead ==
  ASSUME ElectionTypeOK, NEW c \in Client, SetSession(c, TRUE), rev'[c] >= 1, pc'[c] # "idle"
  PROVE  LeadStep(c)
BY DEF LeadStep, SetSession, ElectionTypeOK

\* Campaign's transaction sets leaderSession before the wait, so the call goes on.
LEMMA CampaignTxnLeads ==
  ASSUME IInv, NEW c \in Client, CampaignTxn(c)
  PROVE  LeadStep(c)
<1>1. /\ SessionTypeOK /\ WaitTypeOK /\ ElectionTypeOK /\ now \in Nat /\ id[c] \in Lease
  BY Start DEF IInv, ContentionTypeOK, CampaignTxn, CanCampaign
<1>2. SetSession(c, TRUE) /\ pc'[c] \in {"get", "proclaim"}
  BY <1>1 DEF CampaignTxn, Goto, WaitTypeOK
<1>3. rev'[c] = IF id[c] \in Keys THEN store[id[c]].create ELSE now + 1
  BY <1>1 DEF CampaignTxn, WaitTypeOK
<1>4. id[c] \in Keys => store[id[c]].create \in Nat \ {0}
  BY <1>1 DEF Keys, SessionTypeOK, KV
<1>5. rev'[c] >= 1
  BY <1>1, <1>3, <1>4
<1> QED
  BY <1>1, <1>2, <1>5, NewLead

\* ResumeElection sets leaderSession, but to no client that is between two calls.
LEMMA ResumeElectionLeads ==
  ASSUME IInv, NEW c \in Client, ResumeElection(c)
  PROVE  LeadStep(c)
<1>1. /\ SessionTypeOK /\ WaitTypeOK /\ ElectionTypeOK
  BY DEF IInv, ContentionTypeOK
<1>2. SetSession(c, TRUE) /\ pc'[c] = "resumed"
  BY <1>1 DEF ResumeElection, Goto, WaitTypeOK
<1>3. rev'[c] = 1 \/ (id[c] \in Keys /\ rev'[c] = store[id[c]].create)
  BY <1>1 DEF ResumeElection, WaitTypeOK, IsFirst
<1>4. id[c] \in Keys => store[id[c]].create \in Nat \ {0}
  BY <1>1 DEF Keys, SessionTypeOK, KV
<1>5. rev'[c] >= 1
  BY <1>3, <1>4
<1> QED
  BY <1>1, <1>2, <1>5, NewLead

\* Whatever an Election's client does, it has leaderSession afterwards only in those ways.
LEMMA CampaignStepLeads ==
  ASSUME IInv, NEW c \in Client, CampaignStep(c)
  PROVE  LeadStep(c)
<1>1. WaitTypeOK /\ ElectionTypeOK
  BY DEF IInv, ContentionTypeOK
<1>2. CASE CampaignTxn(c)
  BY <1>2, CampaignTxnLeads
<1>3. CASE CampaignTxnFails(c)
  BY <1>3, SameLead DEF CampaignTxnFails, CanCampaign, electionVars, Won
<1>4. CASE Proclaim(c)
  <2>1. UNCHANGED <<ses, rev>> /\ pc[c] \in Won \cup {"idle"}
    BY <1>4 DEF Proclaim, CanCall, electionVars, Won
  <2> QED
    BY <2>1, SameLead
<1>5. CASE CampaignProclaim(c)
  <2>1. UNCHANGED <<ses, rev>>
    BY <1>5 DEF CampaignProclaim
  <2>2. Goto(c, "get") \/ Goto(c, "resign")
    BY <1>5 DEF CampaignProclaim, ProclaimTxn
  <2>3. pc'[c] # "idle"
    BY <1>1, <2>2 DEF Goto, WaitTypeOK
  <2> QED
    BY <2>1, <2>3, SameLead
<1>6. CASE CampaignFails(c)
  BY <1>1, <1>6, NoLead DEF CampaignFails
<1>7. CASE CampaignDone(c)
  <2>1. UNCHANGED <<ses, rev>> /\ Goto(c, "resign")
    BY <1>7 DEF CampaignDone, WaitFails, electionVars
  <2>2. pc'[c] # "idle"
    BY <1>1, <2>1 DEF Goto, WaitTypeOK
  <2> QED
    BY <2>1, <2>2, SameLead
<1>8. CASE Resign(c)
  BY <1>1, <1>8, NoLead DEF Resign
<1>9. CASE ResumeElection(c)
  BY <1>9, ResumeElectionLeads
<1>10. CASE (WaitGet(c) \/ WaitDelete(c)) /\ UNCHANGED electionVars
  <2>1. UNCHANGED <<ses, rev>>
    BY <1>10 DEF WaitGet, WaitDelete, electionVars
  <2>2. \E state \in {"owner", "watch", "get"} : Goto(c, state)
    BY <1>10 DEF WaitGet, WaitDelete
  <2>3. pc'[c] # "idle"
    BY <1>1, <2>2 DEF Goto, WaitTypeOK
  <2> QED
    BY <2>1, <2>3, SameLead
<1> QED
  BY <1>2, <1>3, <1>4, <1>5, <1>6, <1>7, <1>8, <1>9, <1>10 DEF CampaignStep

\* What the store has become leaves the other clients' lead as it is.
LEMMA LeadKept ==
  ASSUME LeadInv, StoreStep, NEW d \in Client, ses'[d] = ses[d], rev'[d] = rev[d], api' = api,
         pc'[d] = "idle" => pc[d] \in Won \cup {"idle"}
  PROVE  LeadOK(d)'
<1>1. /\ SessionTypeOK /\ StoreOK /\ rev[d] \in Int /\ rev[d] <= now
      /\ pc[d] \in Won => NoneOlder(rev[d])
  BY DEF LeadInv, IInv, ContentionTypeOK, WaitTypeOK, ClientOK
<1>2. \A r \in Int : r <= now /\ NoneOlder(r) => NoneOlder(r)'
  BY <1>1, StoreStepKeeps
<1>3. ASSUME ses[d]
      PROVE  /\ api = "election" /\ rev[d] >= 1
             /\ pc'[d] = "idle" => NoneOlder(rev[d])
  BY <1>1, <1>3 DEF LeadInv, LeadOK
<1>4. ses[d] /\ pc'[d] = "idle" => \A l \in Keys' : store'[l].create >= rev'[d]
  BY <1>1, <1>2, <1>3 DEF NoneOlder
<1> QED
  BY <1>3, <1>4 DEF LeadOK, NoneOlder

\* A client's step therefore keeps that nobody is before an idle client with a leaderSession.
LEMMA LeadClientStep ==
  ASSUME LeadInv, NEW c \in Client, StepOK(c), LeadStep(c), api' = api, api = "election"
  PROVE  \A d \in Client : LeadOK(d)'
<1> SUFFICES ASSUME NEW d \in Client
             PROVE  LeadOK(d)'
  OBVIOUS
<1>1. StoreStep /\ Others(c)
  BY DEF StepOK
<1>2. CASE d # c
  BY <1>1, <1>2, LeadKept DEF Others, LeadStep
<1>3. CASE d = c
  <2>1. CASE ~ses'[c]
    BY <1>3, <2>1 DEF LeadOK
  <2>2. CASE /\ ses'[c] = ses[c] /\ rev'[c] = rev[c]
             /\ pc'[c] = "idle" => pc[c] \in Won \cup {"idle"}
    BY <1>1, <1>3, <2>2, LeadKept
  <2>3. CASE rev'[c] >= 1 /\ pc'[c] # "idle"
    BY <1>3, <2>3 DEF LeadOK
  <2> QED
    BY <2>1, <2>2, <2>3 DEF LeadStep
<1> QED
  BY <1>2, <1>3

\* Every step keeps the invariant of an election.
LEMMA LeadInvStep == LeadInv /\ [Next]_vars => LeadInv'
<1> SUFFICES ASSUME LeadInv, [Next]_vars
             PROVE  \A d \in Client : LeadOK(d)'
  BY InvariantStep DEF LeadInv
<1>1. IInv /\ WaitTypeOK /\ ElectionTypeOK /\ SessionTypeOK
  BY DEF LeadInv, IInv, ContentionTypeOK
<1>2. CASE StoreStep /\ UNCHANGED <<pc, rev, ses, api>>
  BY <1>2, LeadKept
<1>3. CASE SessionStep /\ UNCHANGED <<waitVars, electionVars, api>>
  BY <1>1, <1>2, <1>3, SessionStepOK DEF waitVars, electionVars
<1>4. ASSUME NEW c \in Client, Mutually(MutexStep(c))
      PROVE  \A d \in Client : LeadOK(d)'
  <2>1. \A d \in Client : ~ses[d] /\ ses'[d] = ses[d]
    BY <1>4 DEF Mutually, electionVars, LeadInv, LeadOK
  <2> QED
    BY <2>1 DEF LeadOK
<1>5. ASSUME NEW c \in Client, Elections(CampaignStep(c))
      PROVE  \A d \in Client : LeadOK(d)'
  BY <1>1, <1>5, CampaignStepOK, CampaignStepLeads, LeadClientStep DEF Elections
<1>6. ASSUME NEW c \in Client, Restart(c)
      PROVE  \A d \in Client : LeadOK(d)'
  <2>1. StepOK(c) /\ LeadStep(c) /\ api' = api
    BY <1>1, <1>6, RestartOK, NoLead DEF Restart
  <2>2. CASE api = "election"
    BY <2>1, <2>2, LeadClientStep
  <2>3. CASE api # "election"
    <3>1. \A d \in Client : ~ses[d]
      BY <2>3 DEF LeadInv, LeadOK
    <3>2. \A d \in Client : ~ses'[d]
      BY <1>1, <1>6, <3>1 DEF Restart, SetSession, ElectionTypeOK
    <3> QED
      BY <3>2 DEF LeadOK
  <2> QED
    BY <2>2, <2>3
<1>7. CASE Elections(ObserveStep)
  BY <1>1, <1>2, <1>7, ObserveStepOK DEF Elections, ObserveOK, StoreStep, waitVars
<1>8. CASE UNCHANGED vars
  BY <1>2, <1>8 DEF vars, sessionVars, etcdVars, waitVars, electionVars, StoreStep
<1> QED
  BY <1>3, <1>4, <1>5, <1>6, <1>7, <1>8 DEF Next

\* It holds in every behaviour of the clients.
LEMMA LeadInvHolds == Spec => []LeadInv
<1>1. Init => LeadInv
  BY InitOK DEF LeadInv, LeadOK, Init
<1> QED
  BY <1>1, LeadInvStep, PTL DEF Spec

(***************************************************************************)
(* The theorems.                                                           *)
(***************************************************************************)
\* The store, the sessions, the calls and the observer keep to their types, and
\* waitDelete watches a key exactly while it waits for it.
THEOREM ContentionTypeCorrect == Spec => []ContentionTypeOK
<1>1. IInv => ContentionTypeOK
  BY DEF IInv
<1> QED
  BY <1>1, InvariantHolds, PTL

\* Of all the clients of a lock or an election, one at a time is the owner and
\* passes IsOwner, whatever leases expire and whatever calls fail: its key is
\* older than every other.
THEOREM OwnersAreOldest == Spec => []OwnerIsOldest
<1>1. IInv => OwnerIsOldest
  <2> SUFFICES ASSUME IInv, NEW c \in Client, pc[c] \in Won, IsOwner(c),
                      NEW l \in Keys \ {key[c]}
               PROVE  store[l].create > rev[c]
    BY DEF OwnerIsOldest
  <2>1. /\ SessionTypeOK /\ WaitTypeOK /\ StoreOK /\ NoneOlder(rev[c])
    BY DEF IInv, ContentionTypeOK, ClientOK
  <2>2. key[c] \in Lease /\ rev[c] \in Int /\ \A m \in Lease : store[m].create \in Nat
    BY <2>1 DEF SessionTypeOK, WaitTypeOK, IsOwner, KV
  <2>3. store[key[c]].create = rev[c] /\ l \in Keys /\ l \in Lease
    BY DEF IsOwner, Keys
  <2>4. store[l].create >= rev[c]
    BY <2>1, <2>3 DEF NoneOlder
  <2>5. CASE rev[c] = 0
    BY <2>2, <2>3, <2>4, <2>5 DEF Keys
  <2>6. CASE rev[c] # 0
    <3>1. key[c] \in Keys
      BY <2>2, <2>3, <2>6 DEF Keys
    <3>2. store[l].create # rev[c]
      BY <2>1, <2>3, <3>1 DEF StoreOK
    <3> QED
      BY <2>2, <2>3, <2>4, <3>2
  <2> QED
    BY <2>5, <2>6
<1> QED
  BY <1>1, InvariantHolds, PTL

\* Proclaim puts a value on no key but the oldest one, that of the leader, even
\* after a Campaign that has failed (election.go:98-104) and leases that expired.
THEOREM LeadersProclaim == Spec => OnlyTheLeaderProclaims
<1>1. LeadInv => \A c \in Client : Proclaim(c) => store' = store \/ IsFirst(key[c])
  <2> SUFFICES ASSUME LeadInv, NEW c \in Client, Proclaim(c), store' # store
               PROVE  IsFirst(key[c])
    OBVIOUS
  <2>1. /\ SessionTypeOK /\ ses[c] /\ rev[c] >= 1 /\ rev[c] \in Int
        /\ pc[c] \in Won \cup {"idle"}
    BY DEF LeadInv, LeadOK, IInv, ContentionTypeOK, WaitTypeOK, Proclaim, CanCall, Won
  <2>2. NoneOlder(rev[c])
    BY <2>1 DEF LeadInv, LeadOK, IInv, ClientOK
  <2>3. IsOwner(c)
    BY DEF Proclaim, ProclaimTxn
  <2>4. key[c] \in Lease /\ store[key[c]].create = rev[c]
    BY <2>3 DEF IsOwner, LeadInv, IInv, ContentionTypeOK, WaitTypeOK
  <2>5. key[c] \in Keys
    BY <2>1, <2>4 DEF Keys
  <2>6. \A l \in Keys : store[l].create \in Nat
    BY <2>1 DEF Keys, SessionTypeOK, KV
  <2> QED
    BY <2>1, <2>2, <2>4, <2>5, <2>6 DEF IsFirst, NoneOlder
<1> QED
  BY <1>1, LeadInvHolds, PTL DEF OnlyTheLeaderProclaims

=============================================================================
