--------------------------- MODULE ObserverProofs ---------------------------
(***************************************************************************)
(* Observe of an Election posts the values of the leaders in order, for    *)
(* any number of clients, leases and revisions: whatever is put, deleted   *)
(* and put again while it reads, posts and watches.                        *)
(***************************************************************************)
EXTENDS ContentionProofs

\* The deletion of l is among the events; what comes after it is not read.
Ended(l, events) == \E i \in DOMAIN events : events[i].key = l /\ events[i].kv = Absent

\* The i-th event is a put on l, before any deletion of l.
Due(l, events, i) ==
  /\ i \in DOMAIN events /\ events[i].key = l /\ events[i].kv # Absent
  /\ \A j \in DOMAIN events : j < i => ~ (events[j].key = l /\ events[j].kv = Absent)

\* The events follow kv, which was the value of the leader's key l: its puts, up
\* to its deletion, in order and to what l has now.  Other keys are younger.
Follows(l, kv, events) ==
  /\ kv.create <= now
  /\ \A i \in DOMAIN events : Due(l, events, i) =>
       /\ events[i].kv.create = kv.create /\ events[i].kv.mod > kv.mod
       /\ \A j \in DOMAIN events : j < i /\ Due(l, events, j) => events[j].kv.mod < events[i].kv.mod
       /\ ~Ended(l, events) => events[i].kv.mod <= store[l].mod
  /\ ~Ended(l, events) => l \in Keys /\ store[l].create = kv.create /\ store[l].mod >= kv.mod
  /\ \A m \in Keys : m # l \/ Ended(l, events) => store[m].create > kv.create

AllYounger(kv) == \A m \in Keys : store[m].create > kv.create

\* The first event of a prefix that was empty is the put of a leader.
FromEmpty(kv, events) ==
  IF events = <<>> THEN Keys = {}
  ELSE LET e == Head(events) IN
       /\ e.kv # Absent /\ e.kv.create > kv.create
       /\ Follows(e.key, e.kv, Tail(events))

ObsOK ==
  /\ \A l \in Keys : store[l].mod <= now
  /\ obs.pc \in {"get", "prefix"} => obs.seen.kv.create <= now
  /\ obs.pc = "get" => AllYounger(obs.seen.kv)
  /\ obs.pc = "prefix" => wch.keys = Lease /\ FromEmpty(obs.seen.kv, wch.events)
  /\ obs.pc \in {"post", "watch"} =>
       /\ obs.seen.key \in Lease /\ wch.keys = {obs.seen.key}
       /\ Follows(obs.seen.key, obs.seen.kv, wch.events)

ObsInv == IInv /\ ObsOK

(***************************************************************************)
(* The events of a watch.                                                  *)
(***************************************************************************)
\* An event that comes last.
LEMMA EventAppended ==
  ASSUME NEW ev \in Seq(Event), NEW x \in Event, NEW l
  PROVE  LET e == Append(ev, x)  n == Len(ev) + 1 IN
         /\ n \in Nat /\ DOMAIN ev = 1 .. n - 1 /\ DOMAIN e = 1 .. n
         /\ e[n] = x /\ \A i \in 1 .. n - 1 : e[i] = ev[i]
         /\ Ended(l, e) <=> Ended(l, ev) \/ (x.key = l /\ x.kv = Absent)
         /\ \A i : Due(l, e, i) <=>
              Due(l, ev, i) \/ (i = n /\ x.key = l /\ x.kv # Absent /\ ~Ended(l, ev))
<1>0. PICK n, e : n = Len(ev) + 1 /\ e = Append(ev, x)
  OBVIOUS
<1>1. /\ n \in Nat /\ DOMAIN ev = 1 .. n - 1 /\ DOMAIN e = 1 .. n
      /\ e[n] = x /\ \A i \in 1 .. n - 1 : e[i] = ev[i]
  BY <1>0
<1>2. /\ n \in 1 .. n /\ n \notin 1 .. n - 1 /\ ~ n < n
      /\ \A i \in 1 .. n : i \in 1 .. n - 1 \/ i = n
      /\ \A i \in 1 .. n - 1 : i \in 1 .. n /\ i < n /\ ~ n < i
  <2>1. n \in Nat \ {0}
    BY <1>0
  <2> QED
    BY <2>1
<1>3. Ended(l, e) <=> Ended(l, ev) \/ (x.key = l /\ x.kv = Absent)
  BY <1>1, <1>2 DEF Ended
<1>4. ASSUME NEW i
      PROVE  Due(l, e, i) <=>
               Due(l, ev, i) \/ (i = n /\ x.key = l /\ x.kv # Absent /\ ~Ended(l, ev))
  <2>1. CASE i = n
    BY <1>1, <1>2, <2>1 DEF Due, Ended
  <2>2. CASE i # n
    BY <1>1, <1>2, <2>2 DEF Due
  <2> QED
    BY <2>1, <2>2
<1> QED
  BY <1>0, <1>1, <1>3, <1>4

\* An event that comes first, and is not the deletion of l.
LEMMA EventRead ==
  ASSUME NEW ev \in Seq(Event), ev # <<>>, NEW l, ~ (Head(ev).key = l /\ Head(ev).kv = Absent)
  PROVE  LET n == Len(ev) - 1 IN
         /\ n \in Nat /\ DOMAIN ev = 1 .. n + 1 /\ DOMAIN Tail(ev) = 1 .. n /\ Tail(ev) \in Seq(Event)
         /\ \A i \in 1 .. n : Tail(ev)[i] = ev[i + 1] /\ i + 1 \in 1 .. n + 1
         /\ Ended(l, Tail(ev)) <=> Ended(l, ev)
         /\ \A i \in 1 .. n : Due(l, Tail(ev), i) <=> Due(l, ev, i + 1)
<1>0. PICK n, e : n = Len(ev) - 1 /\ e = Tail(ev)
  OBVIOUS
<1>1. /\ n \in Nat /\ DOMAIN ev = 1 .. n + 1 /\ DOMAIN e = 1 .. n /\ e \in Seq(Event)
      /\ \A i \in 1 .. n : e[i] = ev[i + 1] /\ i + 1 \in 1 .. n + 1
      /\ ev[1] = Head(ev)
  BY <1>0
<1>2. /\ \A i \in 1 .. n + 1 : i = 1 \/ (i - 1 \in 1 .. n /\ i = (i - 1) + 1)
      /\ \A i, j \in 1 .. n : j < i <=> j + 1 < i + 1
  BY <1>1
<1> DEFINE Del(y) == y.key = l /\ y.kv = Absent
<1>3. ~Del(ev[1])
  BY <1>1
<1>4. Ended(l, e) <=> Ended(l, ev)
  <2>1. ASSUME NEW i \in 1 .. n, Del(e[i])
        PROVE  i + 1 \in 1 .. n + 1 /\ Del(ev[i + 1])
    BY <1>1, <2>1
  <2>2. ASSUME NEW i \in 1 .. n + 1, Del(ev[i])
        PROVE  i - 1 \in 1 .. n /\ Del(e[i - 1])
    <3>1. i - 1 \in 1 .. n /\ i = (i - 1) + 1
      BY <1>1, <1>3, <2>2
    <3> HIDE DEF Del
    <3> QED
      BY <1>1, <2>2, <3>1
  <2>3. Ended(l, e) <=> \E i \in 1 .. n : Del(e[i])
    BY <1>1 DEF Ended
  <2>4. Ended(l, ev) <=> \E i \in 1 .. n + 1 : Del(ev[i])
    BY <1>1 DEF Ended
  <2> HIDE DEF Del
  <2> QED
    BY <2>1, <2>2, <2>3, <2>4
<1>5. ASSUME NEW i \in 1 .. n
      PROVE  Due(l, e, i) <=> Due(l, ev, i + 1)
  <2>1. ASSUME NEW j \in 1 .. n, j < i
        PROVE  j + 1 \in 1 .. n + 1 /\ j + 1 < i + 1 /\ e[j] = ev[j + 1]
    BY <1>1, <2>1
  <2>2. ASSUME NEW j \in 1 .. n + 1, j < i + 1, j # 1
        PROVE  j - 1 \in 1 .. n /\ j - 1 < i /\ e[j - 1] = ev[j]
    <3>1. j - 1 \in 1 .. n /\ j - 1 < i /\ (j - 1) + 1 = j
      BY <1>1, <2>2
    <3> QED
      BY <1>1, <3>1
  <2>3. e[i] = ev[i + 1] /\ i + 1 \in 1 .. n + 1
    BY <1>1
  <2>4. Due(l, e, i) <=> /\ e[i].key = l /\ e[i].kv # Absent
                         /\ \A j \in 1 .. n : j < i => ~Del(e[j])
    BY <1>1 DEF Due
  <2>5. Due(l, ev, i + 1) <=> /\ ev[i + 1].key = l /\ ev[i + 1].kv # Absent
                              /\ \A j \in 1 .. n + 1 : j < i + 1 => ~Del(ev[j])
    BY <1>1, <2>3 DEF Due
  <2> HIDE DEF Del
  <2>6. (\A j \in 1 .. n : j < i => ~Del(e[j])) <=> (\A j \in 1 .. n + 1 : j < i + 1 => ~Del(ev[j]))
    BY <1>3, <2>1, <2>2
  <2> QED
    BY <2>3, <2>4, <2>5, <2>6
<1> QED
  BY <1>0, <1>1, <1>4, <1>5


(***************************************************************************)
(* The store.                                                              *)
(***************************************************************************)
\* The put or the deletion of one key.
WriteOf(m) ==
  /\ store' \in [Lease -> KV] /\ \A l \in Lease \ {m} : store'[l] = store[l]
  /\ \/ now' = now /\ m \in Keys /\ store'[m] = Absent
     \/ /\ now' = now + 1 /\ store'[m].mod = now + 1
        /\ store'[m].create = IF m \in Keys THEN store[m].create ELSE now + 1
  /\ wch'.keys = wch.keys
  /\ wch'.events = IF m \in wch.keys THEN Append(wch.events, [key |-> m, kv |-> store'[m]])
                   ELSE wch.events

\* Every step of a client and of a lease, as the observer sees it.
Writes == UNCHANGED <<store, now, wch>> \/ \E m \in Lease : WriteOf(m)

\* Write, as the one watch sees it: an event is appended if the key is one that is watched.
LEMMA WriteIs ==
  ASSUME SessionTypeOK, NEW m \in Lease, NEW kv \in KV, Write(m, kv)
  PROVE  /\ store' \in [Lease -> KV] /\ store'[m] = kv /\ \A l \in Lease \ {m} : store'[l] = store[l]
         /\ wch'.keys = wch.keys
         /\ wch'.events = IF m \in wch.keys THEN Append(wch.events, [key |-> m, kv |-> kv])
                          ELSE wch.events
<1>1. /\ store' \in [Lease -> KV] /\ store'[m] = kv /\ \A l \in Lease \ {m} : store'[l] = store[l]
  BY WriteTypes
<1>2. wch \in WatchObject
  BY DEF SessionTypeOK, WatchObject
<1> DEFINE e == [key |-> m, kv |-> kv]
<1>3. wch' = IF m \in wch.keys THEN [wch EXCEPT !.events = Append(wch.events, e)] ELSE wch
  BY DEF Write
<1> HIDE DEF e
<1>4. wch'.keys = wch.keys /\ wch'.events = IF m \in wch.keys THEN Append(wch.events, e) ELSE wch.events
  BY ONLY <1>2, <1>3 DEF WatchObject
<1> QED
  BY <1>1, <1>4 DEF e

\* Put is a write of one key at the next revision.
LEMMA PutIs ==
  ASSUME SessionTypeOK, NEW m \in Lease, Put(m)
  PROVE  WriteOf(m)
<1>1. now \in Nat /\ store[m].create \in Nat
  BY DEF SessionTypeOK, KV
<1>2. PICK r \in Nat : r = IF m \in Keys THEN store[m].create ELSE now + 1
  BY <1>1
<1>3. PICK kv \in KV : kv = [create |-> r, mod |-> now + 1]
  <2>1. [create |-> r, mod |-> now + 1] \in KV
    BY <1>1 DEF KV
  <2> QED
    BY <2>1
<1>4. kv.create = r /\ kv.mod = now + 1
  BY <1>3
<1>5. now' = now + 1 /\ Write(m, kv)
  BY <1>2, <1>3 DEF Put
<1> QED
  BY <1>2, <1>4, <1>5, WriteIs DEF WriteOf

\* Delete is a write of one key, or changes nothing.
LEMMA DeleteIs ==
  ASSUME SessionTypeOK, NEW l, Delete(l)
  PROVE  Writes
<1>1. CASE l \in Keys
  <2>1. l \in Lease /\ Absent \in KV /\ Write(l, Absent) /\ now' = now
    BY <1>1 DEF Keys, Absent, KV, Delete
  <2>2. PICK kv \in KV : kv = Absent
    BY <2>1
  <2> QED
    BY <1>1, <2>1, <2>2, WriteIs DEF WriteOf, Writes
<1>2. CASE l \notin Keys
  BY <1>2 DEF Delete, Writes
<1> QED
  BY <1>1, <1>2

(***************************************************************************)
(* A write keeps what the observer relies on.                              *)
(***************************************************************************)
LEMMA FollowsKept ==
  ASSUME SessionTypeOK, \A q \in Keys : store[q].mod <= now,
         NEW l \in Lease, NEW kv \in KV, NEW ev \in Seq(Event), Follows(l, kv, ev),
         NEW m \in Lease, WriteOf(m), NEW ev2,
         (m # l /\ ev2 = ev) \/ ev2 = Append(ev, [key |-> m, kv |-> store'[m]])
  PROVE  Follows(l, kv, ev2)'
<1>1. /\ now \in Nat /\ store \in [Lease -> KV] /\ store' \in [Lease -> KV]
      /\ \A q \in Lease : store[q].create \in Nat /\ store[q].mod \in Nat
      /\ \A q \in Lease : store'[q].create \in Nat /\ store'[q].mod \in Nat
      /\ kv.create \in Nat /\ kv.mod \in Nat
      /\ \A i \in DOMAIN ev : ev[i].kv.create \in Nat /\ ev[i].kv.mod \in Nat
  <2>1. store' \in [Lease -> KV]
    BY DEF WriteOf
  <2>2. \A x \in KV : x.create \in Nat /\ x.mod \in Nat
    BY DEF KV
  <2>3. \A i \in DOMAIN ev : ev[i] \in Event
    OBVIOUS
  <2>4. \A i \in DOMAIN ev : ev[i].kv \in KV
    BY <2>3 DEF Event
  <2>5. now \in Nat /\ store \in [Lease -> KV]
    BY DEF SessionTypeOK
  <2> QED
    BY <2>1, <2>2, <2>4, <2>5
<1>2. /\ now' \in {now, now + 1} /\ \A q \in Lease \ {m} : store'[q] = store[q]
      /\ \/ now' = now /\ m \in Keys /\ store'[m] = Absent
         \/ /\ now' = now + 1 /\ store'[m].mod = now + 1
            /\ store'[m].create = IF m \in Keys THEN store[m].create ELSE now + 1
  BY DEF WriteOf
<1>3. Absent.create = 0
  BY DEF Absent
<1>4. /\ \A i \in DOMAIN ev : i \in DOMAIN ev2 /\ ev2[i] = ev[i]
      /\ \A i, j \in DOMAIN ev2 : j < i => j \in DOMAIN ev
      /\ Ended(l, ev2) <=> Ended(l, ev) \/ (m = l /\ store'[l] = Absent)
      /\ \A i \in DOMAIN ev2 : Due(l, ev2, i) =>
           \/ Due(l, ev, i)
           \/ m = l /\ ev2[i].kv = store'[l] /\ store'[l] # Absent /\ ~Ended(l, ev) /\ i \notin DOMAIN ev
  <2>1. CASE m # l /\ ev2 = ev
    BY <2>1
  <2>2. CASE ev2 = Append(ev, [key |-> m, kv |-> store'[m]])
    <3>1. PICK x \in Event : x = [key |-> m, kv |-> store'[m]]
      <4>1. [key |-> m, kv |-> store'[m]] \in Event
        BY <1>1 DEF Event
      <4> QED
        BY <4>1
    <3>2. ev2 = Append(ev, x) /\ x.key = m /\ x.kv = store'[m]
      BY <2>2, <3>1
    <3>3. PICK n : n = Len(ev) + 1
      OBVIOUS
    <3>4. /\ n \in Nat /\ DOMAIN ev = 1 .. n - 1 /\ DOMAIN ev2 = 1 .. n
          /\ ev2[n] = x /\ \A i \in 1 .. n - 1 : ev2[i] = ev[i]
          /\ Ended(l, ev2) <=> Ended(l, ev) \/ (x.key = l /\ x.kv = Absent)
          /\ \A i : Due(l, ev2, i) <=>
               Due(l, ev, i) \/ (i = n /\ x.key = l /\ x.kv # Absent /\ ~Ended(l, ev))
      <4>1. LET e == Append(ev, x)  k == Len(ev) + 1 IN
            /\ k \in Nat /\ DOMAIN ev = 1 .. k - 1 /\ DOMAIN e = 1 .. k
            /\ e[k] = x /\ \A i \in 1 .. k - 1 : e[i] = ev[i]
            /\ Ended(l, e) <=> Ended(l, ev) \/ (x.key = l /\ x.kv = Absent)
            /\ \A i : Due(l, e, i) <=>
                 Due(l, ev, i) \/ (i = k /\ x.key = l /\ x.kv # Absent /\ ~Ended(l, ev))
        BY ONLY EventAppended, x \in Event, ev \in Seq(Event)
      <4> QED
        BY ONLY <4>1, <3>2, <3>3
    <3>5. /\ \A i \in 1 .. n - 1 : i \in 1 .. n
          /\ \A i, j \in 1 .. n : j < i => j \in 1 .. n - 1
          /\ n \notin 1 .. n - 1
      BY <3>4
    <3> QED
      BY <3>2, <3>4, <3>5
  <2> QED
    BY <2>1, <2>2
<1>5. \A i \in DOMAIN ev : Due(l, ev, i) =>
        /\ ev[i].kv.create = kv.create /\ ev[i].kv.mod > kv.mod
        /\ \A j \in DOMAIN ev : j < i /\ Due(l, ev, j) => ev[j].kv.mod < ev[i].kv.mod
        /\ ~Ended(l, ev) => ev[i].kv.mod <= store[l].mod
  BY DEF Follows
<1>6. /\ kv.create <= now
      /\ ~Ended(l, ev) => l \in Keys /\ store[l].create = kv.create /\ store[l].mod >= kv.mod
                          /\ store[l].mod <= now
      /\ \A q \in Keys : q # l \/ Ended(l, ev) => store[q].create > kv.create
  BY DEF Follows
<1>7. /\ \A q \in Lease : q \in Keys <=> store[q].create # 0
      /\ \A q \in Lease : q \in Keys' <=> store'[q].create # 0
      /\ \A q \in Keys' : q \in Lease
  BY DEF Keys
<1>8. \A q \in Lease : store'[q].create # 0 /\ (q # l \/ Ended(l, ev2)) => store'[q].create > kv.create
  BY <1>1, <1>2, <1>3, <1>4, <1>6, <1>7
<1>9. ~Ended(l, ev2) => /\ store'[l].create # 0 /\ store'[l].create = kv.create
                        /\ store'[l].mod >= store[l].mod /\ store'[l].mod >= kv.mod
                        /\ m = l => store'[l].mod = now + 1
  BY <1>1, <1>2, <1>4, <1>6, <1>7
<1>10. ASSUME NEW i \in DOMAIN ev2, Due(l, ev2, i)
       PROVE  /\ ev2[i].kv.create = kv.create /\ ev2[i].kv.mod > kv.mod
              /\ \A j \in DOMAIN ev2 : j < i /\ Due(l, ev2, j) => ev2[j].kv.mod < ev2[i].kv.mod
              /\ ~Ended(l, ev2) => ev2[i].kv.mod <= store'[l].mod
  <2>1. ASSUME NEW j \in DOMAIN ev2, j < i, Due(l, ev2, j)
        PROVE  j \in DOMAIN ev /\ Due(l, ev, j) /\ ev2[j] = ev[j]
    BY <1>4, <1>10, <2>1
  <2>2. CASE Due(l, ev, i)
    <3>1. i \in DOMAIN ev /\ ev2[i] = ev[i]
      BY <1>4, <2>2 DEF Due
    <3>2. ~Ended(l, ev2) => ev[i].kv.mod <= store'[l].mod
      BY <1>1, <1>4, <1>5, <1>9, <2>2, <3>1
    <3> QED
      BY <1>5, <2>1, <2>2, <3>1, <3>2
  <2>3. CASE m = l /\ ev2[i].kv = store'[l] /\ store'[l] # Absent /\ ~Ended(l, ev)
    <3>1. ~Ended(l, ev2)
      BY <1>4, <2>3
    <3>2. store'[l].create = kv.create /\ store'[l].mod = now + 1 /\ kv.mod <= now
      BY <1>1, <1>6, <1>9, <2>3, <3>1
    <3>3. \A j \in DOMAIN ev : Due(l, ev, j) => ev[j].kv.mod < now + 1
      BY <1>1, <1>5, <1>6, <2>3
    <3> QED
      BY <1>1, <2>1, <2>3, <3>2, <3>3
  <2> QED
    BY <1>4, <1>10, <2>2, <2>3
<1>11. kv.create <= now'
  BY <1>1, <1>2, <1>6
<1> QED
  BY <1>7, <1>8, <1>9, <1>10, <1>11 DEF Follows


\* Once every key is younger than a value, the keys put later are younger as well.
LEMMA AllYoungerKept ==
  ASSUME SessionTypeOK, NEW kv \in KV, kv.create <= now, AllYounger(kv), NEW m \in Lease, WriteOf(m)
  PROVE  AllYounger(kv)' /\ kv.create <= now'
<1>1. /\ now \in Nat /\ kv.create \in Nat /\ \A q \in Lease : store[q].create \in Nat
  BY DEF SessionTypeOK, KV
<1>2. /\ now' \in {now, now + 1} /\ \A q \in Lease \ {m} : store'[q] = store[q]
      /\ store'[m].create = 0 \/ (m \in Keys /\ store'[m].create = store[m].create)
         \/ store'[m].create = now + 1
  BY DEF WriteOf, Absent
<1> QED
  BY <1>1, <1>2 DEF AllYounger, Keys

\* The first put of a prefix that was empty makes a leader; what is written after
\* that is for the watch of its key.
LEMMA FromEmptyKept ==
  ASSUME SessionTypeOK, \A q \in Keys : store[q].mod <= now,
         NEW kv \in KV, kv.create <= now, NEW ev \in Seq(Event), FromEmpty(kv, ev),
         NEW m \in Lease, WriteOf(m), NEW ev2, ev2 = Append(ev, [key |-> m, kv |-> store'[m]])
  PROVE  FromEmpty(kv, ev2)'
<1>0. PICK e : e = [key |-> m, kv |-> store'[m]]
  OBVIOUS
<1>1. /\ e \in Event /\ e.key = m /\ e.kv = store'[m] /\ store'[m] \in KV /\ now \in Nat
      /\ kv.create \in Nat
  BY <1>0 DEF Event, WriteOf, SessionTypeOK, KV
<1>2. ev2 = Append(ev, e) /\ ev2 # <<>>
  BY <1>0, <1>1
<1>3. CASE ev = <<>>
  <2>1. Head(ev2) = e /\ Tail(ev2) = <<>>
    BY <1>1, <1>2, <1>3
  <2>2. Keys = {}
    BY <1>3 DEF FromEmpty
  <2>3. /\ now' = now + 1 /\ store'[m].create = now + 1
        /\ \A q \in Lease \ {m} : store'[q].create = 0
    BY <2>2 DEF WriteOf, Keys
  <2>4. ~Ended(m, <<>>) /\ \A i : ~Due(m, <<>>, i)
    BY DEF Ended, Due
  <2>5. Follows(m, e.kv, <<>>)'
    <3>1. m \in Keys' /\ \A q \in Keys' : q = m
      BY <1>1, <2>3 DEF Keys
    <3> QED
      BY <1>1, <2>3, <2>4, <3>1 DEF Follows, KV
  <2>6. e.kv # Absent /\ e.kv.create > kv.create
    BY <1>1, <2>3 DEF Absent
  <2> QED
    BY <1>1, <1>2, <2>1, <2>5, <2>6 DEF FromEmpty
<1>4. CASE ev # <<>>
  <2>1. PICK h, t : h = Head(ev) /\ t = Tail(ev)
    OBVIOUS
  <2>2. h \in Event /\ h.key \in Lease /\ h.kv \in KV /\ t \in Seq(Event)
    <3>1. h \in Event /\ t \in Seq(Event)
      BY <1>4, <2>1
    <3> QED
      BY <3>1 DEF Event
  <2>3. h.kv # Absent /\ h.kv.create > kv.create /\ Follows(h.key, h.kv, t)
    BY <1>4, <2>1 DEF FromEmpty
  <2>4. Head(ev2) = h /\ Tail(ev2) = Append(t, e)
    BY <1>1, <1>2, <1>4, <2>1
  <2>5. PICK t2 : t2 = Append(t, e)
    OBVIOUS
  <2>6. t2 = Append(t, [key |-> m, kv |-> store'[m]])
    BY <1>0, <2>5
  <2>7. Follows(h.key, h.kv, t2)'
    BY <2>2, <2>3, <2>6, FollowsKept
  <2> QED
    BY <1>2, <2>3, <2>4, <2>5, <2>7 DEF FromEmpty
<1> QED
  BY <1>3, <1>4

\* What the clients and the leases do.
LEMMA WritesKeep ==
  ASSUME ObsInv, ElectionTypeOK', Writes, UNCHANGED obs
  PROVE  ObsOK'
<1>1. SessionTypeOK /\ ElectionTypeOK
  BY DEF ObsInv, IInv, ContentionTypeOK
<1>2. CASE UNCHANGED <<store, now, wch>>
  BY <1>2 DEF ObsInv, ObsOK, Keys, AllYounger, FromEmpty, Follows
<1>3. ASSUME NEW m \in Lease, WriteOf(m)
      PROVE  ObsOK'
  <2>1. PICK l, kv, ev, ev2, x :
          /\ l = obs.seen.key /\ kv = obs.seen.kv /\ ev = wch.events /\ ev2 = wch'.events
          /\ x = [key |-> m, kv |-> store'[m]]
    OBVIOUS
  <2>2. /\ kv \in KV /\ l \in Lease \cup {NONE} /\ ev \in Seq(Event)
        /\ now \in Nat /\ \A q \in Lease : store[q].mod \in Nat
    BY <1>1, <2>1 DEF SessionTypeOK, ElectionTypeOK, Seen, KV
  <2>3. /\ now' \in {now, now + 1} /\ \A q \in Lease \ {m} : store'[q] = store[q]
        /\ store'[m] = Absent \/ (store'[m].mod = now + 1 /\ now' = now + 1)
        /\ wch'.keys = wch.keys /\ ev2 = IF m \in wch.keys THEN Append(ev, x) ELSE ev
    BY <1>3, <2>1 DEF WriteOf
  <2>4. \A q \in Keys : store[q].mod <= now
    BY DEF ObsInv, ObsOK
  <2>5. \A q \in Keys' : store'[q].mod <= now'
    BY <2>2, <2>3, <2>4 DEF Keys, Absent
  <2>6. obs.pc \in {"get", "prefix"} => kv.create <= now /\ kv.create <= now'
    BY <2>1, <2>2, <2>3 DEF ObsInv, ObsOK, KV
  <2>7. obs.pc = "get" => AllYounger(kv)'
    <3>1. obs.pc = "get" => AllYounger(kv)
      BY <2>1 DEF ObsInv, ObsOK
    <3> QED
      BY <1>1, <1>3, <2>2, <2>6, <3>1, AllYoungerKept
  <2>8. obs.pc = "prefix" => wch'.keys = Lease /\ FromEmpty(kv, ev2)'
    <3>1. obs.pc = "prefix" => wch.keys = Lease /\ FromEmpty(kv, ev)
      BY <2>1 DEF ObsInv, ObsOK
    <3>2. wch.keys = Lease => ev2 = Append(ev, [key |-> m, kv |-> store'[m]])
      BY <2>1, <2>3
    <3> QED
      BY <1>1, <1>3, <2>2, <2>3, <2>4, <2>6, <3>1, <3>2, FromEmptyKept
  <2>9. obs.pc \in {"post", "watch"} => l \in Lease /\ wch'.keys = {l} /\ Follows(l, kv, ev2)'
    <3>1. SUFFICES ASSUME obs.pc \in {"post", "watch"}
                   PROVE  l \in Lease /\ wch'.keys = {l} /\ Follows(l, kv, ev2)'
      OBVIOUS
    <3>2. l \in Lease /\ wch.keys = {l} /\ Follows(l, kv, ev)
      BY <2>1, <3>1 DEF ObsInv, ObsOK
    <3>3. (m # l /\ ev2 = ev) \/ ev2 = Append(ev, [key |-> m, kv |-> store'[m]])
      BY <2>1, <2>3, <3>2
    <3> QED
      BY <1>1, <1>3, <2>2, <2>3, <2>4, <3>2, <3>3, FollowsKept
  <2>10. /\ obs.pc = "get" => AllYounger(obs.seen.kv)'
         /\ obs.pc = "prefix" => FromEmpty(obs.seen.kv, wch.events)'
         /\ obs.pc \in {"post", "watch"} => Follows(obs.seen.key, obs.seen.kv, wch.events)'
    BY <2>1, <2>7, <2>8, <2>9 DEF AllYounger, FromEmpty, Follows
  <2> QED
    BY <2>1, <2>5, <2>6, <2>8, <2>9, <2>10 DEF ObsOK
<1> QED
  BY <1>2, <1>3 DEF Writes


(***************************************************************************)
(* The steps of the observer.                                              *)
(***************************************************************************)
\* What is posted is new, and what is left to read goes on from it.
InOrder == obs'.pc = "post" /\ obs' # obs => Later(obs'.seen.kv, obs.seen.kv)

\* To post the value kv of l and go on with events.
LEMMA PostKeeps ==
  ASSUME ObsOK, UNCHANGED <<store, now>>,
         NEW l \in Lease, NEW kv \in KV, NEW events, Follows(l, kv, events), obs' = Post(l, kv),
         wch'.keys = {l}, wch'.events = events, Later(kv, obs.seen.kv)
  PROVE  ObsOK' /\ InOrder
<1>1. obs'.pc = "post" /\ obs'.seen.key = l /\ obs'.seen.kv = kv
  BY DEF Post
<1>2. Follows(obs.seen.key, obs.seen.kv, wch.events)'
  BY <1>1 DEF Follows, Keys
<1>3. \A m \in Keys' : store'[m].mod <= now'
  BY DEF ObsOK, Keys
<1> QED
  BY <1>1, <1>2, <1>3 DEF ObsOK, InOrder

\* Observe's Get: the oldest key is no older than what was seen, and a watch starts at it or at
\* the empty prefix.
LEMMA ObserveGetKeeps ==
  ASSUME ObsInv, ObserveGet
  PROVE  ObsOK' /\ InOrder
<1>1. /\ ObsOK /\ StoreOK /\ obs \in ObsObject /\ obs.pc = "get" /\ UNCHANGED <<store, now>>
      /\ store \in [Lease -> KV] /\ now \in Nat /\ obs.seen.kv \in KV
  BY DEF ObsInv, IInv, ContentionTypeOK, SessionTypeOK, ElectionTypeOK, ObsObject, Seen,
         ObserveGet, observeFrame
<1>2. obs.seen.kv.create <= now /\ AllYounger(obs.seen.kv) /\ \A m \in Keys : store[m].mod <= now
  BY <1>1 DEF ObsOK
<1>3. CASE Keys = {} /\ obs' = [obs EXCEPT !.pc = "prefix"] /\ Watch(Lease)
  <2>1. obs'.pc = "prefix" /\ obs'.seen = obs.seen
    BY <1>1, <1>3 DEF ObsObject
  <2>2. wch'.keys = Lease /\ wch'.events = <<>> /\ Keys' = {}
    BY <1>1, <1>3 DEF Watch, Keys
  <2> QED
    BY <1>1, <1>2, <2>1, <2>2 DEF ObsOK, InOrder, FromEmpty
<1>4. ASSUME NEW l \in Lease, IsFirst(l), obs' = Post(l, store[l]), Watch({l})
      PROVE  ObsOK' /\ InOrder
  <2>1. PICK kv \in KV : kv = store[l]
    BY <1>1
  <2>2. ~Ended(l, <<>>) /\ \A i : ~Due(l, <<>>, i)
    BY DEF Ended, Due
  <2>3. /\ l \in Keys /\ \A m \in Keys : m # l => store[m].create > kv.create
        /\ kv.create <= now /\ \A m \in Lease : store[m].create \in Nat
    BY <1>1, <1>4, <2>1 DEF IsFirst, StoreOK, Keys, KV
  <2>4. Follows(l, kv, <<>>)
    BY <2>1, <2>2, <2>3 DEF Follows, KV
  <2>5. Later(kv, obs.seen.kv)
    BY <1>2, <2>1, <2>3 DEF AllYounger, Later
  <2> QED
    BY <1>1, <1>4, <2>1, <2>4, <2>5, PostKeeps DEF Watch
<1> QED
  BY <1>3, <1>4 DEF ObserveGet

\* The watch of the empty prefix: the first put it reports is of a key younger than what was
\* seen.
LEMMA ObservePrefixKeeps ==
  ASSUME ObsInv, ObservePrefix
  PROVE  ObsOK' /\ InOrder
<1>1. PICK e, rest : e = Head(wch.events) /\ rest = Tail(wch.events)
  OBVIOUS
<1>2. /\ ObsOK /\ SessionTypeOK /\ obs.pc = "prefix" /\ wch.events # <<>>
      /\ UNCHANGED <<store, now>>
  BY DEF ObsInv, IInv, ContentionTypeOK, ObservePrefix, observeFrame
<1>3. /\ e.kv # Absent /\ e.kv.create > obs.seen.kv.create
      /\ Follows(e.key, e.kv, rest)
  BY <1>1, <1>2 DEF ObsOK, FromEmpty
<1>4. obs' = Post(e.key, e.kv) /\ wch' = [keys |-> {e.key}, events |-> rest]
  BY <1>1, <1>3 DEF ObservePrefix, AfterThePut
<1>5. e.key \in Lease /\ e.kv \in KV /\ Later(e.kv, obs.seen.kv)
  BY <1>1, <1>2, <1>3, EventsType DEF Later
<1> QED
  BY <1>2, <1>3, <1>4, <1>5, PostKeeps

\* Reading an event that does not end the watch of l.
LEMMA FollowsRest ==
  ASSUME NEW l, NEW kv \in KV, NEW ev \in Seq(Event), ev # <<>>, Follows(l, kv, ev),
         NEW e, e = Head(ev), ~ (e.key = l /\ e.kv = Absent)
  PROVE  IF e.key = l
         THEN Follows(l, e.kv, Tail(ev)) /\ Later(e.kv, kv)
         ELSE Follows(l, kv, Tail(ev))
<1>1. PICK n, t : n = Len(ev) - 1 /\ t = Tail(ev)
  OBVIOUS
<1>2. /\ n \in Nat /\ DOMAIN ev = 1 .. n + 1 /\ DOMAIN t = 1 .. n /\ t \in Seq(Event)
      /\ \A i \in 1 .. n : t[i] = ev[i + 1] /\ i + 1 \in 1 .. n + 1
      /\ Ended(l, t) <=> Ended(l, ev)
      /\ \A i \in 1 .. n : Due(l, t, i) <=> Due(l, ev, i + 1)
  BY <1>1, EventRead
<1>3. \A i \in 1 .. n + 1 : Due(l, ev, i) =>
        /\ ev[i].kv.create = kv.create /\ ev[i].kv.mod > kv.mod
        /\ \A j \in 1 .. n + 1 : j < i /\ Due(l, ev, j) => ev[j].kv.mod < ev[i].kv.mod
        /\ ~Ended(l, ev) => ev[i].kv.mod <= store[l].mod
  BY <1>2 DEF Follows
<1>4. ASSUME NEW i \in 1 .. n, Due(l, t, i)
      PROVE  /\ t[i].kv.create = kv.create /\ t[i].kv.mod > kv.mod
             /\ \A j \in 1 .. n : j < i /\ Due(l, t, j) => t[j].kv.mod < t[i].kv.mod
             /\ ~Ended(l, t) => t[i].kv.mod <= store[l].mod
             /\ Due(l, ev, i + 1)
  <2>1. i + 1 \in 1 .. n + 1 /\ Due(l, ev, i + 1) /\ t[i] = ev[i + 1]
    BY <1>2, <1>4
  <2>2. ASSUME NEW j \in 1 .. n, j < i, Due(l, t, j)
        PROVE  t[j].kv.mod < t[i].kv.mod
    <3>1. j + 1 \in 1 .. n + 1 /\ j + 1 < i + 1 /\ Due(l, ev, j + 1) /\ t[j] = ev[j + 1]
      BY <1>2, <2>2
    <3> QED
      BY <1>3, <2>1, <3>1
  <2> QED
    BY <1>2, <1>3, <2>1, <2>2
<1>5. CASE e.key # l
  BY <1>1, <1>2, <1>4, <1>5 DEF Follows
<1>6. CASE e.key = l
  <2>1. 1 \in 1 .. n + 1 /\ ev[1] = e /\ \A j \in 1 .. n + 1 : ~ j < 1
    BY <1>2
  <2>2. Due(l, ev, 1)
    BY <1>2, <1>6, <2>1 DEF Due
  <2>3. /\ e.kv.create = kv.create /\ e.kv.mod > kv.mod
        /\ ~Ended(l, ev) => e.kv.mod <= store[l].mod
    BY <1>3, <2>1, <2>2
  <2>4. ASSUME NEW i \in 1 .. n, Due(l, t, i)
        PROVE  t[i].kv.create = e.kv.create /\ t[i].kv.mod > e.kv.mod
    <3>1. i + 1 \in 1 .. n + 1 /\ 1 < i + 1 /\ Due(l, ev, i + 1) /\ t[i] = ev[i + 1]
      BY <1>2, <2>4
    <3>2. ev[1].kv.mod < ev[i + 1].kv.mod /\ ev[i + 1].kv.create = kv.create
      BY <1>3, <2>1, <2>2, <3>1
    <3>3. e \in Event
      BY <1>2, <2>1
    <3>4. ev[i + 1] \in Event
      BY <1>2, <3>1
    <3> QED
      BY <2>1, <2>3, <3>1, <3>2, <3>3, <3>4 DEF Event, KV
  <2>5. /\ kv.create <= now
        /\ ~Ended(l, ev) => l \in Keys /\ store[l].create = kv.create
        /\ \A m \in Keys : m # l \/ Ended(l, ev) => store[m].create > kv.create
    BY DEF Follows
  <2>6. e \in Event
    BY <1>2, <2>1
  <2>7. ~Ended(l, ev) => store[l].mod >= e.kv.mod
    BY <2>3
  <2>8. Follows(l, e.kv, t)
    BY <1>2, <1>4, <2>3, <2>4, <2>5, <2>7 DEF Follows
  <2> QED
    BY <1>1, <1>6, <2>3, <2>8 DEF Later
<1> QED
  BY <1>5, <1>6


\* The watch of the leader's key: each event is the next value of the key, or its deletion.
LEMMA ObserveWatchKeeps ==
  ASSUME ObsInv, ObserveWatch
  PROVE  ObsOK' /\ InOrder
<1>1. PICK e, rest, l, kv, ev :
        /\ e = Head(wch.events) /\ rest = Tail(wch.events)
        /\ l = obs.seen.key /\ kv = obs.seen.kv /\ ev = wch.events
  OBVIOUS
<1>2. /\ ObsOK /\ SessionTypeOK /\ obs.pc = "watch" /\ ev # <<>> /\ UNCHANGED <<store, now>>
      /\ obs \in ObsObject /\ wch \in WatchObject /\ kv \in KV /\ ev \in Seq(Event)
  BY <1>1 DEF ObsInv, IInv, ContentionTypeOK, SessionTypeOK, ElectionTypeOK, ObsObject, Seen,
              WatchObject, ObserveWatch, observeFrame
<1>3. l \in Lease /\ wch.keys = {l} /\ Follows(l, kv, ev) /\ \A m \in Keys : store[m].mod <= now
  BY <1>1, <1>2 DEF ObsOK
<1>4. e = Head(ev) /\ rest = Tail(ev) /\ e.kv \in KV
  BY <1>1, <1>2, EventsType
<1>5. CASE e.key = l /\ e.kv = Absent /\ obs' = [obs EXCEPT !.pc = "get"] /\ Watch({})
  <2>1. e = ev[1] /\ 1 \in DOMAIN ev
    BY <1>2, <1>4
  <2>2. Ended(l, ev)
    BY <1>5, <2>1 DEF Ended
  <2>3. AllYounger(kv) /\ kv.create <= now
    BY <1>3, <2>2 DEF Follows, AllYounger
  <2>4. obs'.pc = "get" /\ obs'.seen = obs.seen
    BY <1>2, <1>5 DEF ObsObject
  <2> QED
    BY <1>1, <1>2, <1>3, <2>3, <2>4 DEF ObsOK, InOrder, AllYounger, Keys
<1>6. CASE e.key = l /\ e.kv # Absent /\ obs' = Post(e.key, e.kv) /\ wch' = [wch EXCEPT !.events = rest]
  <2>1. Follows(l, e.kv, rest) /\ Later(e.kv, kv)
    BY <1>2, <1>3, <1>4, <1>6, FollowsRest
  <2>2. wch'.keys = {l} /\ wch'.events = rest
    BY <1>2, <1>3, <1>6 DEF WatchObject
  <2> QED
    BY <1>1, <1>2, <1>3, <1>4, <1>6, <2>1, <2>2, PostKeeps
<1>7. CASE e.key # l /\ UNCHANGED obs /\ wch' = [wch EXCEPT !.events = rest]
  <2>1. Follows(l, kv, rest)
    BY <1>2, <1>3, <1>4, <1>7, FollowsRest
  <2>2. wch'.keys = {l} /\ wch'.events = rest
    BY <1>2, <1>3, <1>7 DEF WatchObject
  <2>3. Follows(obs.seen.key, obs.seen.kv, wch.events)'
    BY <1>1, <1>2, <1>7, <2>1, <2>2 DEF Follows, Keys
  <2> QED
    BY <1>1, <1>2, <1>3, <1>7, <2>2, <2>3 DEF ObsOK, InOrder, Keys
<1> QED
  BY <1>1, <1>5, <1>6, <1>7 DEF ObserveWatch

\* Every step of Observe keeps its part of the invariant and goes forward.
LEMMA ObserveKeeps ==
  ASSUME ObsInv, ObserveStep
  PROVE  ObsOK' /\ InOrder
<1>1. CASE ObservePost
  <2>1. obs.pc = "post" /\ obs' = [obs EXCEPT !.pc = "watch"] /\ UNCHANGED <<store, now, wch>>
    BY <1>1 DEF ObservePost, observeFrame
  <2>2. obs \in ObsObject /\ ObsOK
    BY DEF ObsInv, IInv, ContentionTypeOK, ElectionTypeOK, ObsObject
  <2>3. obs'.pc = "watch" /\ obs'.seen = obs.seen
    BY <2>1, <2>2 DEF ObsObject
  <2> QED
    BY <2>1, <2>2, <2>3 DEF ObsOK, InOrder, Follows, Keys
<1>2. CASE ObserveEnds
  <2>1. obs'.pc = "closed" /\ UNCHANGED <<store, now>> /\ ObsOK
    BY <1>2 DEF ObserveEnds, observeFrame, ObsInv
  <2> QED
    BY <2>1 DEF ObsOK, InOrder, Keys
<1> QED
  BY <1>1, <1>2, ObserveGetKeeps, ObservePrefixKeeps, ObserveWatchKeeps DEF ObserveStep, ObserveNext

(***************************************************************************)
(* The steps of the others.                                                *)
(***************************************************************************)
LEMMA SessionWrites ==
  ASSUME SessionTypeOK, SessionStep
  PROVE  Writes
<1>1. \A l \in Lease : Delete(l) => Writes
  BY DeleteIs
<1>2. ASSUME NEW c \in Client, id[c] # NONE
      PROVE  id[c] \in Lease
  BY <1>2 DEF SessionTypeOK
<1> QED
  BY <1>1, <1>2 DEF SessionStep, NewSession, NewSessionFails, Orphan, Close, Expire, End, Writes

\* A step that puts or deletes at most the client's own key is a write, as the observer sees it.
LEMMA CallWrites ==
  ASSUME SessionTypeOK, WaitTypeOK, NEW c \in Client,
         \/ UNCHANGED <<store, now, wch>>
         \/ id[c] # NONE /\ Put(id[c])
         \/ key[c] # NONE /\ Put(key[c])
         \/ Delete(key[c])
  PROVE  Writes
<1>1. CASE id[c] # NONE /\ Put(id[c])
  <2>1. id[c] \in Lease
    BY <1>1 DEF SessionTypeOK
  <2> QED
    BY <1>1, <2>1, PutIs DEF Writes
<1>2. CASE key[c] # NONE /\ Put(key[c])
  <2>1. key[c] \in Lease
    BY <1>2 DEF WaitTypeOK
  <2> QED
    BY <1>2, <2>1, PutIs DEF Writes
<1>3. CASE Delete(key[c])
  BY <1>3, DeleteIs
<1> QED
  BY <1>1, <1>2, <1>3 DEF Writes

\* Every step of a Mutex's client is at most a write.
LEMMA MutexWrites ==
  ASSUME SessionTypeOK, WaitTypeOK, NEW c \in Client, MutexStep(c)
  PROVE  Writes
<1>1. CASE LockTxn(c) \/ LockTxnFails(c)
  BY <1>1, CallWrites DEF LockTxn, LockTxnFails, Ready
<1>2. CASE Unlock(c) \/ UnlockFails(c) \/ Release(c)
  BY <1>2, CallWrites DEF Unlock, UnlockFails, Release
<1>3. CASE WaitGet(c) \/ WaitDelete(c) \/ WaitFails(c, "release")
  BY <1>3 DEF WaitGet, WaitDelete, WaitFails, sessionVars, etcdVars, Writes
<1> QED
  BY <1>1, <1>2, <1>3 DEF MutexStep

\* Every step of an Election's client is at most a write, and none is a step of the observer.
LEMMA CampaignWrites ==
  ASSUME SessionTypeOK, WaitTypeOK, NEW c \in Client, CampaignStep(c)
  PROVE  Writes /\ UNCHANGED obs
<1>1. CASE CampaignTxn(c) \/ CampaignTxnFails(c)
  BY <1>1, CallWrites DEF CampaignTxn, CampaignTxnFails, CanCampaign, electionVars
<1>2. CASE Proclaim(c) \/ CampaignProclaim(c)
  BY <1>2, CallWrites DEF Proclaim, CampaignProclaim, ProclaimTxn, IsOwner, electionVars
<1>3. CASE Resign(c)
  BY <1>3, CallWrites DEF Resign
<1>4. CASE CampaignFails(c) \/ CampaignDone(c) \/ ResumeElection(c)
           \/ ((WaitGet(c) \/ WaitDelete(c)) /\ UNCHANGED electionVars)
  BY <1>4 DEF CampaignFails, CampaignDone, ResumeElection, WaitFails, WaitGet, WaitDelete,
              sessionVars, etcdVars, electionVars, Writes
<1> QED
  BY <1>1, <1>2, <1>3, <1>4 DEF CampaignStep

\* Every step keeps the invariant, and tells the observer nothing older than it has seen.
LEMMA ObsStep ==
  ASSUME ObsInv, [Next]_vars
  PROVE  ObsInv' /\ InOrder
<1>1. /\ SessionTypeOK /\ WaitTypeOK /\ IInv
  BY DEF ObsInv, IInv, ContentionTypeOK
<1>2. IInv' /\ ElectionTypeOK'
  BY <1>1, InvariantStep DEF IInv, ContentionTypeOK
<1>3. ASSUME Writes, UNCHANGED obs
      PROVE  ObsInv' /\ InOrder
  BY <1>2, <1>3, WritesKeep DEF ObsInv, InOrder
<1>4. CASE SessionStep /\ UNCHANGED <<waitVars, electionVars, api>>
  BY <1>1, <1>3, <1>4, SessionWrites DEF electionVars
<1>5. ASSUME NEW c \in Client, Mutually(MutexStep(c))
      PROVE  Writes /\ UNCHANGED obs
  BY <1>1, <1>5, MutexWrites DEF Mutually, electionVars
<1>6. ASSUME NEW c \in Client, Elections(CampaignStep(c))
      PROVE  Writes /\ UNCHANGED obs
  BY <1>1, <1>6, CampaignWrites DEF Elections
<1>7. ASSUME NEW c \in Client, Restart(c)
      PROVE  Writes /\ UNCHANGED obs
  BY <1>7 DEF Restart, Writes
<1>8. CASE Elections(ObserveStep)
  BY <1>2, <1>8, ObserveKeeps DEF Elections, ObsInv
<1>9. CASE UNCHANGED vars
  BY <1>3, <1>9 DEF vars, sessionVars, etcdVars, electionVars, Writes
<1> QED
  BY <1>3, <1>4, <1>5, <1>6, <1>7, <1>8, <1>9 DEF Next

\* At the start nothing was seen, and everything is younger than nothing.
LEMMA ObsInit == Init => ObsInv
<1> SUFFICES ASSUME Init
             PROVE  ObsOK
  BY InitOK DEF ObsInv
<1>1. obs.pc \in {"get", "closed"} /\ obs.seen = Nothing /\ now = 1
  BY DEF Init, SessionInit
<1>2. Keys = {}
  BY DEF Init, SessionInit, Keys, Absent
<1> QED
  BY <1>1, <1>2 DEF ObsOK, AllYounger, Nothing, Absent

\* The observer reads, posts and watches in step with the store.
THEOREM ObserverInvariant == Spec => []ObsInv
<1> QED
  BY ObsInit, ObsStep, PTL DEF Spec

\* Observe posts a value only if it is later than the one before, of the same
\* leader or of one elected after it (election.go:180-258).
THEOREM ObserverInOrder == Spec => ObservedInOrder
<1>1. ObsInv /\ [Next]_vars => [obs'.pc = "post" => Later(obs'.seen.kv, obs.seen.kv)]_obs
  BY ObsStep DEF InOrder
<1> QED
  BY <1>1, ObserverInvariant, PTL DEF Spec, ObservedInOrder

=============================================================================
