----------------------------- MODULE STMProofs -----------------------------
(***************************************************************************)
(* The safety properties of STM, for any number of transactions, keys and  *)
(* revisions.                                                              *)
(*                                                                         *)
(* The invariant has a part for the store and one for each transaction.    *)
(* The store only grows, so a step of one transaction, or of another       *)
(* client, leaves the parts of the others as they are.                     *)
(***************************************************************************)
EXTENDS STM, TLAPS

\* No revision holds data of a later one.
StoreOK == \A r \in 1 .. Now, k \in Key : db[r][k] \in 0 .. r

\* Nor does a response that is kept.
Past(f) ==
  /\ f \in [Key -> Response \cup {NONE}]
  /\ \A k \in Key : f[k] # NONE => f[k].rev \in 1 .. Now /\ f[k].mod \in 0 .. Now

\* What apply was given for a key is what the read set holds.
SeenOK(c) ==
  \A k \in Key : \A m \in seen[c][k] : rset[c][k] # NONE /\ rset[c][k].mod = m

\* A prefetched response never replaces one that was read: the key was read in
\* spite of it by Rev alone, so it is written, and Get does not come to it.
AheadOK(c) ==
  \A k \in Key : rset[c][k] # NONE /\ prefetch[c][k] # NONE => wset[c][k] # "none"

\* The responses of one Else have one revision, and its data; no later Get is
\* pinned to an older one.
PrefetchOK(c) ==
  \A k \in Key :
    prefetch[c][k] # NONE =>
      /\ prefetch[c][k].mod = db[prefetch[c][k].rev][k]
      /\ \A j \in Key : prefetch[c][j] # NONE => prefetch[c][j].rev = prefetch[c][k].rev
      /\ getRev[c] # 0 => prefetch[c][k].rev <= getRev[c]

\* The reads of a pinned attempt that are not older than the pin.
PinnedOK(c) ==
  \A k \in Key :
    getRev[c] # 0 /\ rset[c][k] # NONE /\ rset[c][k].rev >= getRev[c] =>
      rset[c][k].mod = db[getRev[c]][k]

\* The oldest read is no younger than the attempt.
BeganOK(c) ==
  began[c] # 0 => \E j \in Key : rset[c][j] # NONE /\ rset[c][j].rev <= began[c]

\* Only stmSerializable prefetches and pins, and pins by a read.
LevelOK(c) ==
  /\ ~Serial(c) => prefetch[c] = Unread /\ getRev[c] = 0
  /\ rset[c] = Unread => getRev[c] = 0

TxnOK(c) ==
  /\ Past(rset[c]) /\ Past(prefetch[c])
  /\ SeenOK(c)
  /\ AheadOK(c)
  /\ PrefetchOK(c)
  /\ PinnedOK(c)
  /\ BeganOK(c)
  /\ LevelOK(c)

IInv ==
  /\ STMTypeOK
  /\ StoreOK
  /\ \A c \in Txn : TxnOK(c)

-----------------------------------------------------------------------------
(***************************************************************************)
(* The store.                                                              *)
(***************************************************************************)
\* A step of the store: it stays, or one revision is added.
Grows ==
  /\ db' \in Seq([Key -> Nat]) /\ db' # <<>>
  /\ Now <= Now'
  /\ \A r \in 1 .. Now : db'[r] = db[r]

\* What etcd makes of a set of writes keeps the revisions there are, and the
\* data of the new one is no younger than it (Written).
LEMMA WrittenGrows ==
  ASSUME STMTypeOK, StoreOK, NEW w \in [Key -> Write], db' = Written(w)
  PROVE  Grows /\ StoreOK'
<1> DEFINE new == [k \in Key |-> CASE w[k] = "put"  -> Now + 1
                                   [] w[k] = "del"  -> 0
                                   [] w[k] = "none" -> db[Now][k]]
<1>1. Now \in Nat /\ Now > 0 /\ db \in Seq([Key -> Nat]) /\ db # <<>>
  BY DEF STMTypeOK, Now
<1>2. CASE ~Changes(w)
  <2>1. db' = db
    BY <1>2 DEF Written
  <2>2. Now' = Now
    BY <2>1 DEF Now
  <2> QED
    BY <1>1, <2>1, <2>2 DEF Grows, StoreOK
<1>3. CASE Changes(w)
  <2>1. db' = Append(db, new)
    BY <1>3 DEF Written
  <2>2. db[Now] \in [Key -> Nat]
    BY <1>1 DEF Now
  <2>3. new \in [Key -> Nat]
    BY <1>1, <2>2 DEF Write
  <2> HIDE DEF new
  <2>4. /\ db' \in Seq([Key -> Nat]) /\ db' # <<>>
        /\ Now' = Now + 1
        /\ \A r \in 1 .. Now : db'[r] = db[r]
        /\ db'[Now + 1] = new
    <3>1. Append(db, new) \in Seq([Key -> Nat]) /\ Len(Append(db, new)) = Len(db) + 1
      BY <1>1, <2>3
    <3>2. \A r \in 1 .. Len(db) : Append(db, new)[r] = db[r]
      BY <1>1, <2>3
    <3>3. Append(db, new)[Len(db) + 1] = new
      BY <1>1, <2>3
    <3>4. db' # <<>>
      BY <1>1, <2>1, <3>1 DEF Now
    <3> QED
      BY <2>1, <3>1, <3>2, <3>3, <3>4 DEF Now
  <2>5. \A k \in Key : new[k] \in 0 .. Now + 1
    <3> SUFFICES ASSUME NEW k \in Key PROVE new[k] \in 0 .. Now + 1
      OBVIOUS
    <3>1. db[Now][k] \in 0 .. Now
      BY <1>1 DEF StoreOK
    <3>2. w[k] = "put" \/ w[k] = "del" \/ w[k] = "none"
      BY DEF Write
    <3> QED
      BY <1>1, <3>1, <3>2 DEF new
  <2>6. StoreOK'
    <3> SUFFICES ASSUME NEW r \in 1 .. Now', NEW k \in Key PROVE db'[r][k] \in 0 .. r
      BY DEF StoreOK
    <3>1. CASE r = Now + 1
      BY <1>1, <2>4, <2>5, <3>1
    <3>2. CASE r \in 1 .. Now
      BY <2>4, <3>2 DEF StoreOK
    <3> QED
      BY <1>1, <2>4, <3>1, <3>2
  <2> QED
    BY <1>1, <2>4, <2>6 DEF Grows
<1> QED
  BY <1>2, <1>3

\* A step that leaves the store alone is one of those.
LEMMA SameGrows ==
  ASSUME STMTypeOK, StoreOK, db' = db
  PROVE  Grows /\ StoreOK'
<1>1. Now' = Now
  BY DEF Now
<1> QED
  BY <1>1 DEF Grows, StoreOK, STMTypeOK, Now

\* A transaction that takes no part in a step keeps its part of the invariant.
LEMMA Untouched ==
  ASSUME STMTypeOK, Grows, NEW c \in Txn, TxnOK(c),
         rset'[c] = rset[c], wset'[c] = wset[c], getRev'[c] = getRev[c],
         prefetch'[c] = prefetch[c], seen'[c] = seen[c], began'[c] = began[c],
         iso'[c] = iso[c]
  PROVE  TxnOK(c)'
<1>1. Now \in Nat /\ Now' \in Nat /\ getRev[c] \in 0 .. Now
  BY DEF Grows, STMTypeOK, Now
<1>2. Past(rset[c])' /\ Past(prefetch[c])'
  BY SMTT(30), <1>1 DEF TxnOK, Past, Grows
<1>3. SeenOK(c)' /\ AheadOK(c)' /\ BeganOK(c)' /\ LevelOK(c)'
  BY DEF TxnOK, SeenOK, AheadOK, BeganOK, LevelOK, Serial, Unread
<1>4. PrefetchOK(c)'
  BY DEF TxnOK, PrefetchOK, Past, Grows
<1>5. PinnedOK(c)'
  BY <1>1 DEF TxnOK, PinnedOK, Grows
<1> QED
  BY <1>2, <1>3, <1>4, <1>5 DEF TxnOK

\* One that has returned has nothing left to keep.
LEMMA Released ==
  ASSUME STMTypeOK, NEW c \in Txn, NEW s, Return(c, s)
  PROVE  TxnOK(c)'
<1>1. /\ rset'[c] = Unread /\ wset'[c] = Unwritten /\ prefetch'[c] = Unread
      /\ getRev'[c] = 0 /\ seen'[c] = [k \in Key |-> {}] /\ began'[c] = 0
  BY DEF Return, Reset, STMTypeOK
<1> QED
  BY <1>1 DEF TxnOK, Past, SeenOK, AheadOK, PrefetchOK, PinnedOK, BeganOK, LevelOK, Unread

-----------------------------------------------------------------------------
(***************************************************************************)
(* Reads.                                                                  *)
(***************************************************************************)
\* What etcd answers under getOpts (Answers).
LEMMA AnswersFacts ==
  ASSUME STMTypeOK, NEW c \in Txn, NEW a \in Answers(c)
  PROVE  /\ a.at \in 1 .. Now /\ a.rev \in a.at .. Now
         /\ ~Serial(c) => a.at = a.rev
         /\ Serial(c) /\ getRev[c] = 0 => a.at = Now /\ a.rev = Now
         /\ Serial(c) /\ getRev[c] # 0 => a.at = getRev[c]
<1>1. Now \in Nat /\ Now > 0 /\ getRev[c] \in 0 .. Now
  BY DEF STMTypeOK, Now
<1>2. CASE ~Serial(c)
  BY <1>1, <1>2 DEF Answers
<1>3. CASE Serial(c) /\ getRev[c] = 0
  BY <1>1, <1>3 DEF Answers
<1>4. CASE Serial(c) /\ getRev[c] # 0
  BY <1>1, <1>4 DEF Answers
<1> QED
  BY <1>2, <1>3, <1>4

\* stm.fetch never replaces a response, touches no other key, and leaves one for
\* some key it was asked for: an old one, or else new ones for all (Fetched).
LEMMA FetchedFacts ==
  ASSUME STMTypeOK, StoreOK, NEW c \in Txn, NEW keys \in SUBSET Key, keys # {},
         NEW old, Past(old), NEW new \in Fetched(c, keys, old)
  PROVE  /\ Past(new)
         /\ \A k \in Key : old[k] # NONE \/ k \notin keys => new[k] = old[k]
         /\ \E k \in keys : new[k] # NONE
         /\ \/ new = old
            \/ \E a \in Answers(c) : \A k \in keys :
                 old[k] = NONE /\ new[k].mod = db[a.at][k] /\ new[k].rev = a.rev
<1>1. CASE \E k \in keys : old[k] # NONE
  BY <1>1 DEF Fetched
<1>2. CASE \A k \in keys : old[k] = NONE
  <2>1. PICK a \in Answers(c) :
          new = [k \in Key |-> IF k \in keys THEN [mod |-> db[a.at][k], rev |-> a.rev] ELSE old[k]]
    BY <1>2 DEF Fetched
  <2>2. Now \in Nat /\ a.at \in 1 .. Now /\ a.rev \in 1 .. Now
    BY AnswersFacts DEF STMTypeOK, Now
  <2>3. \A k \in Key : db[a.at][k] \in 0 .. Now
    BY <2>2 DEF StoreOK
  <2>4. \A k \in keys : /\ new[k] = [mod |-> db[a.at][k], rev |-> a.rev]
                        /\ new[k] \in Response /\ new[k] # NONE
    BY <2>1, <2>2, <2>3, STMAssumption DEF Response
  <2>5. \A k \in Key \ keys : new[k] = old[k]
    BY <2>1
  <2>6. \A k \in keys : new[k].mod = db[a.at][k] /\ new[k].rev = a.rev
    <3> SUFFICES ASSUME NEW k \in keys PROVE new[k].mod = db[a.at][k] /\ new[k].rev = a.rev
      OBVIOUS
    <3>1. new[k] = [mod |-> db[a.at][k], rev |-> a.rev]
      BY <2>4
    <3> QED
      BY ONLY <3>1
  <2>7. Past(new)
    <3>1. \A k \in Key : new[k] \in Response \cup {NONE}
      BY <2>4, <2>5 DEF Past
    <3>2. \A k \in Key : new[k] # NONE => new[k].rev \in 1 .. Now /\ new[k].mod \in 0 .. Now
      BY <2>2, <2>3, <2>5, <2>6 DEF Past
    <3> QED
      BY <2>1, <3>1, <3>2 DEF Past
  <2> QED
    BY <1>2, <2>4, <2>5, <2>6, <2>7
<1> QED
  BY <1>1, <1>2

\* A read by Get or Rev: old is the read set it fetches into, with the
\* prefetched responses it has taken.
ReadOf(c, keys, old, new) ==
  /\ Past(old)
  /\ \A k \in Key :
       \/ old[k] = rset[c][k]
       \/ Serial(c) /\ rset[c][k] = NONE /\ k \in keys /\ old[k] = prefetch[c][k]
  /\ new \in Fetched(c, keys, old)
  /\ rset' = [rset EXCEPT ![c] = new]
  /\ See(c, keys, new)
  /\ \/ getRev' = getRev
     \/ /\ Serial(c) /\ rset[c] = Unread
        /\ \E k \in keys : new[k] # NONE /\ getRev' = [getRev EXCEPT ![c] = new[k].rev]
  /\ prefetch' \in [Txn -> [Key -> Response \cup {NONE}]]
  /\ \A k \in Key : prefetch'[c][k] = prefetch[c][k] \/ prefetch'[c][k] = NONE
  /\ \A k \in keys : prefetch'[c][k] = NONE \/ wset[c][k] # "none"
  /\ UNCHANGED <<db, pc, iso, wset>>

\* The pin of a read is one of its responses, and no response that is left over
\* is younger (stmSerializable.Get: getOpts).
LEMMA ReadPins ==
  ASSUME STMTypeOK, StoreOK, NEW c \in Txn, TxnOK(c), NEW keys \in SUBSET Key, keys # {},
         NEW old, NEW new, ReadOf(c, keys, old, new)
  PROVE  PrefetchOK(c)' /\ PinnedOK(c)'
<1>1. /\ Now \in Nat /\ getRev[c] \in 0 .. Now /\ db' = db
      /\ rset'[c] = new
      /\ Past(rset[c]) /\ Past(prefetch[c]) /\ Past(old)
  BY DEF STMTypeOK, TxnOK, ReadOf, Now
<1>2. /\ Past(new)
      /\ \A k \in Key : old[k] # NONE \/ k \notin keys => new[k] = old[k]
      /\ \/ new = old
         \/ \E a \in Answers(c) : \A k \in keys :
              old[k] = NONE /\ new[k].mod = db[a.at][k] /\ new[k].rev = a.rev
  <2>1. Past(old) /\ new \in Fetched(c, keys, old)
    BY DEF ReadOf
  <2> QED
    BY SMTT(30), <2>1, FetchedFacts
<1>3. \A k \in Key :
        \/ old[k] = rset[c][k]
        \/ Serial(c) /\ rset[c][k] = NONE /\ k \in keys /\ old[k] = prefetch[c][k]
  BY DEF ReadOf
<1>4. CASE getRev' = getRev
  <2>1. PrefetchOK(c)'
    <3>1. PrefetchOK(c) /\ \A k \in Key : prefetch'[c][k] = prefetch[c][k] \/ prefetch'[c][k] = NONE
      BY DEF TxnOK, ReadOf
    <3> QED
      BY <1>1, <1>4, <3>1 DEF PrefetchOK
  <2>2. PinnedOK(c)'
    <3> SUFFICES ASSUME NEW k \in Key, getRev[c] # 0, new[k] # NONE, new[k].rev >= getRev[c]
                 PROVE  new[k].mod = db[getRev[c]][k]
      BY <1>1, <1>4 DEF PinnedOK
    <3>1. CASE new[k] = old[k]
      <4>1. CASE old[k] = rset[c][k]
        BY <3>1, <4>1 DEF TxnOK, PinnedOK
      <4>2. CASE old[k] = prefetch[c][k]
        <5>1. prefetch[c][k].rev <= getRev[c] /\ prefetch[c][k].mod = db[prefetch[c][k].rev][k]
          BY <3>1, <4>2 DEF TxnOK, PrefetchOK
        <5>2. prefetch[c][k].rev \in 1 .. Now
          BY <1>1, <3>1, <4>2 DEF Past
        <5> QED
          BY <1>1, <3>1, <4>2, <5>1, <5>2
      <4> QED
        BY <1>3, <4>1, <4>2
    <3>2. CASE k \in keys /\ new # old
      <4>1. Serial(c)
        BY DEF TxnOK, LevelOK
      <4>2. PICK a \in Answers(c) : new[k].mod = db[a.at][k]
        BY <1>2, <3>2
      <4> QED
        BY <4>1, <4>2, AnswersFacts
    <3> QED
      BY <1>2, <3>1, <3>2
  <2> QED
    BY <2>1, <2>2
<1>5. ASSUME NEW p \in keys, new[p] # NONE, getRev'[c] = new[p].rev, Serial(c), rset[c] = Unread
      PROVE  PrefetchOK(c)' /\ PinnedOK(c)'
  <2>1. \A k \in Key : rset[c][k] = NONE
    BY <1>5 DEF Unread
  <2>2. getRev[c] = 0 /\ new[p].rev \in 1 .. Now
    BY <1>2, <1>5 DEF TxnOK, LevelOK, Past
  <2>3. \A k \in Key : prefetch[c][k] # NONE => prefetch[c][k].rev <= new[p].rev
    <3> SUFFICES ASSUME NEW k \in Key, prefetch[c][k] # NONE PROVE prefetch[c][k].rev <= new[p].rev
      OBVIOUS
    <3>1. prefetch[c][k].rev \in 1 .. Now
      BY <1>1 DEF Past
    <3>2. CASE new = old
      <4>1. new[p] = prefetch[c][p]
        BY <1>3, <1>5, <2>1, <3>2
      <4>2. prefetch[c][k].rev = prefetch[c][p].rev
        BY <1>5, <4>1 DEF TxnOK, PrefetchOK
      <4> QED
        BY <3>1, <4>1, <4>2
    <3>3. CASE new # old
      <4>1. new[p].rev = Now
        BY <1>2, <1>5, <2>2, <3>3, AnswersFacts
      <4> QED
        BY <1>1, <3>1, <4>1
    <3> QED
      BY <3>2, <3>3
  <2>4. PrefetchOK(c)'
    <3>1. PrefetchOK(c) /\ \A k \in Key : prefetch'[c][k] = prefetch[c][k] \/ prefetch'[c][k] = NONE
      BY DEF TxnOK, ReadOf
    <3> QED
      BY <1>1, <1>5, <2>3, <3>1 DEF PrefetchOK
  <2>5. PinnedOK(c)'
    <3> SUFFICES ASSUME NEW k \in Key, new[k] # NONE, new[k].rev >= new[p].rev
                 PROVE  new[k].mod = db[new[p].rev][k]
      BY <1>1, <1>5 DEF PinnedOK
    <3>1. CASE new = old
      <4>1. new[p] = prefetch[c][p] /\ new[k] = prefetch[c][k]
        BY <1>3, <1>5, <2>1, <3>1
      <4>2. prefetch[c][p].rev = prefetch[c][k].rev /\ prefetch[c][k].mod = db[prefetch[c][k].rev][k]
        BY <1>5, <4>1 DEF TxnOK, PrefetchOK
      <4> QED
        BY <4>1, <4>2
    <3>2. CASE new # old
      <4>1. PICK a \in Answers(c) : \A j \in keys :
              old[j] = NONE /\ new[j].mod = db[a.at][j] /\ new[j].rev = a.rev
        BY <1>2, <3>2
      <4>2. a.at = Now /\ a.rev = Now
        BY <1>5, <2>2, AnswersFacts
      <4>3. k \in keys
        BY <1>2, <1>3, <2>1
      <4> QED
        BY <1>5, <4>1, <4>2, <4>3
    <3> QED
      BY <3>1, <3>2
  <2> QED
    BY <2>4, <2>5
<1> QED
  BY <1>4, <1>5 DEF ReadOf, STMTypeOK

\* Types, in a step of any kind: the bounds grow with the store.
LEMMA TypeStays ==
  ASSUME STMTypeOK, Grows, iso' = iso,
         pc' \in [Txn -> {"apply", "done", "failed"}],
         rset' \in [Txn -> [Key -> Response \cup {NONE}]],
         wset' \in [Txn -> [Key -> Write]],
         getRev' \in [Txn -> 0 .. Now],
         prefetch' \in [Txn -> [Key -> Response \cup {NONE}]],
         seen' \in [Txn -> [Key -> SUBSET (0 .. Now)]],
         began' \in [Txn -> 0 .. Now]
  PROVE  STMTypeOK'
<1>1. Now \in Nat /\ Now' \in Nat /\ Now <= Now' /\ Now = Len(db) /\ Now' = Len(db')
  BY DEF STMTypeOK, Grows, Now
<1>2. 0 .. Now \subseteq 0 .. Now'
  BY <1>1
<1>3. getRev' \in [Txn -> 0 .. Now'] /\ began' \in [Txn -> 0 .. Now']
  BY <1>2
<1>4. seen' \in [Txn -> [Key -> SUBSET (0 .. Now')]]
  BY <1>2
<1> QED
  BY <1>1, <1>3, <1>4 DEF STMTypeOK, Grows

\* Get is a read: what it takes from prefetch was not in the read set.
LEMMA GetReads ==
  ASSUME STMTypeOK, NEW c \in Txn, TxnOK(c), NEW keys \in SUBSET Key, Get(c, keys)
  PROVE  \E old, new : ReadOf(c, keys, old, new)
<1> DEFINE ahead(k) == k \in keys /\ prefetch[c][k] # NONE
           old == [k \in Key |-> IF ahead(k) THEN prefetch[c][k] ELSE rset[c][k]]
<1>1. PICK new \in Fetched(c, keys, old) :
        /\ rset' = [rset EXCEPT ![c] = new]
        /\ See(c, keys, new)
        /\ IF Serial(c) /\ rset[c] = Unread
           THEN \E k \in keys : new[k] # NONE /\ getRev' = [getRev EXCEPT ![c] = new[k].rev]
           ELSE UNCHANGED getRev
  BY DEF Get
<1>2. Past(old)
  BY DEF TxnOK, Past
<1>3. \A k \in Key : ahead(k) => Serial(c) /\ rset[c][k] = NONE
  <2> SUFFICES ASSUME NEW k \in Key, ahead(k) PROVE Serial(c) /\ rset[c][k] = NONE
    OBVIOUS
  <2>1. Serial(c)
    BY DEF TxnOK, LevelOK, Unread
  <2>2. wset[c][k] = "none"
    BY DEF Get
  <2> QED
    BY <2>1, <2>2 DEF TxnOK, AheadOK
<1>4. prefetch' = [prefetch EXCEPT ![c] = [k \in Key |-> IF ahead(k) THEN NONE ELSE @[k]]]
  BY DEF Get
<1>5. /\ prefetch' \in [Txn -> [Key -> Response \cup {NONE}]]
      /\ \A k \in Key : prefetch'[c][k] = prefetch[c][k] \/ prefetch'[c][k] = NONE
      /\ \A k \in keys : prefetch'[c][k] = NONE
  BY <1>4 DEF STMTypeOK
<1>6. \A k \in Key : \/ old[k] = rset[c][k]
                     \/ Serial(c) /\ rset[c][k] = NONE /\ k \in keys /\ old[k] = prefetch[c][k]
  BY <1>3
<1>7. db' = db /\ pc' = pc /\ iso' = iso /\ wset' = wset
  BY DEF Get
<1> HIDE DEF old
<1> QED
  BY <1>1, <1>2, <1>5, <1>6, <1>7 DEF ReadOf

\* Rev of a key that is written is one, too, and takes nothing from prefetch.
LEMMA RevReads ==
  ASSUME STMTypeOK, NEW c \in Txn, TxnOK(c), NEW key \in Key, Rev(c, key)
  PROVE  \E new : ReadOf(c, {key}, rset[c], new)
  BY DEF Rev, ReadOf, TxnOK, STMTypeOK

\* A read keeps the invariant.
LEMMA ReadKeeps ==
  ASSUME STMTypeOK, StoreOK, NEW c \in Txn, TxnOK(c), NEW keys \in SUBSET Key, keys # {},
         NEW old, NEW new, ReadOf(c, keys, old, new)
  PROVE  STMTypeOK' /\ TxnOK(c)'
<1>1. /\ Now \in Nat /\ Now > 0 /\ db' = db /\ Now' = Now
      /\ rset' = [rset EXCEPT ![c] = new] /\ rset'[c] = new
      /\ Past(rset[c]) /\ Past(prefetch[c]) /\ Past(old)
  <2>1. Now \in Nat /\ Now > 0
    BY DEF STMTypeOK, Now
  <2>2. db' = db /\ Now' = Now /\ rset' = [rset EXCEPT ![c] = new]
    BY DEF ReadOf, Now
  <2>3. rset'[c] = new
    BY <2>2 DEF STMTypeOK
  <2>4. Past(rset[c]) /\ Past(prefetch[c]) /\ Past(old)
    BY DEF TxnOK, ReadOf
  <2> QED
    BY <2>1, <2>2, <2>3, <2>4
<1>2. /\ Past(new)
      /\ \A k \in Key : old[k] # NONE \/ k \notin keys => new[k] = old[k]
      /\ \E k \in keys : new[k] # NONE
  BY SMTT(30), FetchedFacts DEF ReadOf
<1>3. \A k \in Key : rset[c][k] # NONE => new[k] = rset[c][k]
  BY <1>2 DEF ReadOf
<1>4. /\ seen' = [seen EXCEPT ![c] =
           [k \in Key |-> IF keys = {k} THEN @[k] \cup {new[k].mod} ELSE @[k]]]
      /\ began' = [began EXCEPT ![c] = IF @ = 0 THEN Now ELSE @]
  BY DEF ReadOf, See
<1>5. \A k \in Key : keys = {k} => new[k] # NONE /\ new[k].mod \in 0 .. Now
  BY <1>2 DEF Past
<1>6. STMTypeOK'
  <2>1. rset' \in [Txn -> [Key -> Response \cup {NONE}]]
    BY <1>1, <1>2 DEF STMTypeOK, Past
  <2>2. seen' \in [Txn -> [Key -> SUBSET (0 .. Now)]]
    BY <1>4, <1>5 DEF STMTypeOK, Now
  <2>3. began' \in [Txn -> 0 .. Now]
    BY <1>1, <1>4 DEF STMTypeOK, Now
  <2>4. getRev' \in [Txn -> 0 .. Now]
    <3>1. \A k \in keys : new[k] # NONE => new[k].rev \in 0 .. Now
      BY <1>1, <1>2 DEF Past
    <3>2. getRev \in [Txn -> 0 .. Now]
      BY DEF STMTypeOK, Now
    <3> QED
      BY <3>1, <3>2 DEF ReadOf
  <2>5. Grows
    BY <1>1, SameGrows
  <2> QED
    BY <2>1, <2>2, <2>3, <2>4, <2>5, TypeStays DEF ReadOf, STMTypeOK
<1>7. Past(rset[c])' /\ Past(prefetch[c])'
  <2>1. Past(new)'
    BY <1>1, <1>2 DEF Past
  <2>2. Past(prefetch[c])'
    BY <1>1 DEF Past, ReadOf
  <2> QED
    BY <1>1, <2>1, <2>2
<1>8. SeenOK(c)'
  <2> SUFFICES ASSUME NEW k \in Key, NEW m \in seen'[c][k]
               PROVE  new[k] # NONE /\ new[k].mod = m
    BY <1>1 DEF SeenOK
  <2>1. m \in seen[c][k] \/ (keys = {k} /\ m = new[k].mod)
    BY <1>4 DEF STMTypeOK
  <2>2. CASE m \in seen[c][k]
    BY <1>3, <2>2 DEF TxnOK, SeenOK
  <2> QED
    BY <1>5, <2>1, <2>2
<1>9. AheadOK(c)'
  <2> SUFFICES ASSUME NEW k \in Key, new[k] # NONE, prefetch'[c][k] # NONE
               PROVE  wset[c][k] # "none"
    BY <1>1 DEF AheadOK, ReadOf
  <2>1. CASE k \in keys
    BY <2>1 DEF ReadOf
  <2>2. CASE k \notin keys
    <3>1. rset[c][k] # NONE /\ prefetch[c][k] # NONE
      BY <1>2, <2>2 DEF ReadOf
    <3> QED
      BY <3>1 DEF TxnOK, AheadOK
  <2> QED
    BY <2>1, <2>2
<1>10. PrefetchOK(c)' /\ PinnedOK(c)'
  BY ReadPins
<1>11. BeganOK(c)'
  <2>1. CASE began[c] = 0
    <3>1. began'[c] = Now
      BY <1>4, <2>1 DEF STMTypeOK
    <3> QED
      BY <1>1, <1>2, <3>1 DEF BeganOK, Past
  <2>2. CASE began[c] # 0
    <3>1. began'[c] = began[c]
      BY <1>4, <2>2 DEF STMTypeOK
    <3>2. PICK j \in Key : rset[c][j] # NONE /\ rset[c][j].rev <= began[c]
      BY <2>2 DEF TxnOK, BeganOK
    <3> QED
      BY <1>1, <1>3, <3>1, <3>2 DEF BeganOK
  <2> QED
    BY <2>1, <2>2
<1>12. LevelOK(c)'
  <2>1. new # Unread
    BY <1>2 DEF Unread
  <2>2. ASSUME ~Serial(c) PROVE prefetch'[c] = Unread /\ getRev'[c] = 0
    <3>1. prefetch[c] = Unread /\ getRev[c] = 0
      BY <2>2 DEF TxnOK, LevelOK
    <3>2. \A k \in Key : prefetch'[c][k] = NONE
      BY <3>1 DEF ReadOf, Unread
    <3>3. prefetch'[c] \in [Key -> Response \cup {NONE}]
      BY DEF ReadOf
    <3>4. prefetch'[c] = Unread
      BY <3>2, <3>3 DEF Unread
    <3> QED
      BY <2>2, <3>1, <3>4 DEF ReadOf
  <2> QED
    BY <1>1, <2>1, <2>2 DEF LevelOK, Serial, ReadOf
<1> QED
  BY <1>6, <1>7, <1>8, <1>9, <1>10, <1>11, <1>12 DEF TxnOK

-----------------------------------------------------------------------------
(***************************************************************************)
(* Writes, and what ends an attempt.                                       *)
(***************************************************************************)
\* Put and Del only add to the write set.
LEMMA WriteKeeps ==
  ASSUME STMTypeOK, StoreOK, NEW c \in Txn, TxnOK(c), NEW key \in Key,
         Put(c, key) \/ Del(c, key)
  PROVE  STMTypeOK' /\ StoreOK' /\ TxnOK(c)'
<1>1. PICK w \in {"put", "del"} : wset' = [wset EXCEPT ![c][key] = w]
  BY DEF Put, Del
<1>2. /\ db' = db /\ pc' = pc /\ iso' = iso /\ rset' = rset /\ getRev' = getRev
      /\ prefetch' = prefetch /\ seen' = seen /\ began' = began
  BY DEF Put, Del
<1>3. wset' \in [Txn -> [Key -> Write]]
  BY <1>1 DEF STMTypeOK, Write
<1>4. STMTypeOK' /\ StoreOK'
  BY <1>2, <1>3 DEF STMTypeOK, StoreOK, Now
<1>5. \A k \in Key : wset[c][k] # "none" => wset'[c][k] # "none"
  BY <1>1 DEF STMTypeOK
<1>6. AheadOK(c)'
  BY <1>2, <1>5 DEF TxnOK, AheadOK
<1>7. /\ Past(rset[c])' /\ Past(prefetch[c])' /\ SeenOK(c)' /\ PrefetchOK(c)'
      /\ PinnedOK(c)' /\ BeganOK(c)' /\ LevelOK(c)'
  BY <1>2 DEF TxnOK, Past, SeenOK, PrefetchOK, PinnedOK, BeganOK, LevelOK, Serial, Now
<1> QED
  BY <1>4, <1>6, <1>7 DEF TxnOK

\* A conflict: what is left are responses that etcd has given just now.
LEMMA ConflictKeeps ==
  ASSUME STMTypeOK, StoreOK, NEW c \in Txn, TxnOK(c), Conflict(c)
  PROVE  STMTypeOK' /\ StoreOK' /\ TxnOK(c)'
<1> DEFINE loaded == [k \in Key |-> IF rset[c][k] = NONE THEN NONE
                                    ELSE [mod |-> db[Now][k], rev |-> Now]]
<1>1. /\ Now \in Nat /\ Now > 0 /\ db' = db /\ Now' = Now /\ pc' = pc /\ iso' = iso
  BY DEF STMTypeOK, Conflict, Now
<1>2. /\ rset' = [rset EXCEPT ![c] = Unread] /\ wset' = [wset EXCEPT ![c] = Unwritten]
      /\ seen' = [seen EXCEPT ![c] = [k \in Key |-> {}]] /\ began' = [began EXCEPT ![c] = 0]
  BY DEF Conflict, Reset
<1>3. IF Serial(c) THEN /\ prefetch' = [prefetch EXCEPT ![c] = loaded]
                        /\ getRev' = [getRev EXCEPT ![c] = 0]
                   ELSE prefetch' = prefetch /\ getRev' = getRev
  BY DEF Conflict
<1>4. \A k \in Key : loaded[k] # NONE =>
        loaded[k] \in Response /\ loaded[k].rev = Now
          /\ loaded[k].mod = db[Now][k] /\ loaded[k].mod \in 0 .. Now
  <2> SUFFICES ASSUME NEW k \in Key, loaded[k] # NONE
               PROVE  loaded[k] \in Response /\ loaded[k].rev = Now
                        /\ loaded[k].mod = db[Now][k] /\ loaded[k].mod \in 0 .. Now
    OBVIOUS
  <2>1. loaded[k] = [mod |-> db[Now][k], rev |-> Now]
    OBVIOUS
  <2>2. db[Now][k] \in 0 .. Now
    BY <1>1 DEF StoreOK
  <2>3. loaded[k].rev = Now /\ loaded[k].mod = db[Now][k]
    BY ONLY <2>1
  <2> HIDE DEF loaded
  <2> QED
    BY <1>1, <2>1, <2>2, <2>3 DEF Response
<1>5. loaded \in [Key -> Response \cup {NONE}]
  BY <1>4
<1> HIDE DEF loaded
<1>6. /\ prefetch' \in [Txn -> [Key -> Response \cup {NONE}]]
      /\ getRev' \in [Txn -> 0 .. Now] /\ getRev'[c] = 0
      /\ prefetch'[c] = IF Serial(c) THEN loaded ELSE Unread
  <2>1. /\ prefetch \in [Txn -> [Key -> Response \cup {NONE}]]
        /\ getRev \in [Txn -> 0 .. Now]
    BY DEF STMTypeOK, Now
  <2>2. CASE Serial(c)
    BY <1>1, <1>3, <1>5, <2>1, <2>2
  <2>3. CASE ~Serial(c)
    <3>1. prefetch[c] = Unread /\ getRev[c] = 0
      BY <2>3 DEF TxnOK, LevelOK
    <3> QED
      BY <1>3, <2>1, <2>3, <3>1
  <2> QED
    BY <2>2, <2>3
<1>7. /\ rset'[c] = Unread /\ seen'[c] = [k \in Key |-> {}] /\ began'[c] = 0
  BY <1>2 DEF STMTypeOK
<1>8. STMTypeOK' /\ StoreOK'
  <2>1. /\ rset' \in [Txn -> [Key -> Response \cup {NONE}]]
        /\ wset' \in [Txn -> [Key -> Write]]
        /\ seen' \in [Txn -> [Key -> SUBSET (0 .. Now)]]
        /\ began' \in [Txn -> 0 .. Now]
    BY <1>1, <1>2 DEF STMTypeOK, Unread, Unwritten, Write, Now
  <2> QED
    BY <1>1, <1>6, <2>1 DEF STMTypeOK, StoreOK, Now
<1>9. Past(rset[c])' /\ Past(prefetch[c])'
  <2>1. Past(rset[c])'
    BY <1>7 DEF Past, Unread
  <2>2. CASE Serial(c)
    BY <1>1, <1>4, <1>5, <1>6, <2>1, <2>2 DEF Past
  <2>3. CASE ~Serial(c)
    BY <1>6, <2>1, <2>3 DEF Past, Unread
  <2> QED
    BY <2>2, <2>3
<1>10. PrefetchOK(c)'
  BY <1>1, <1>4, <1>6 DEF PrefetchOK, Unread
<1>11. SeenOK(c)' /\ AheadOK(c)' /\ PinnedOK(c)' /\ BeganOK(c)' /\ LevelOK(c)'
  BY <1>1, <1>6, <1>7 DEF SeenOK, AheadOK, PinnedOK, BeganOK, LevelOK, Unread, Serial
<1> QED
  BY <1>8, <1>9, <1>10, <1>11 DEF TxnOK

\* A call that returns, with its writes in the store or without them.
LEMMA ReturnKeeps ==
  ASSUME STMTypeOK, StoreOK, NEW c \in Txn, NEW s \in {"done", "failed"},
         Return(c, s), iso' = iso, db' = db \/ db' = Written(wset[c])
  PROVE  STMTypeOK' /\ StoreOK' /\ Grows /\ TxnOK(c)'
<1>1. Grows /\ StoreOK'
  BY SameGrows, WrittenGrows DEF STMTypeOK
<1>2. /\ rset' \in [Txn -> [Key -> Response \cup {NONE}]]
      /\ wset' \in [Txn -> [Key -> Write]]
      /\ prefetch' \in [Txn -> [Key -> Response \cup {NONE}]]
      /\ pc' \in [Txn -> {"apply", "done", "failed"}]
  BY DEF STMTypeOK, Return, Reset, Unread, Unwritten, Write
<1>3. /\ seen' \in [Txn -> [Key -> SUBSET (0 .. Now)]]
      /\ began' \in [Txn -> 0 .. Now] /\ getRev' \in [Txn -> 0 .. Now]
  BY DEF STMTypeOK, Return, Reset, Now
<1>4. STMTypeOK'
  BY <1>1, <1>2, <1>3, TypeStays
<1> QED
  BY <1>1, <1>4, Released

-----------------------------------------------------------------------------
(***************************************************************************)
(* The invariant.                                                          *)
(***************************************************************************)
\* A step of one transaction keeps the invariant.
LEMMA StepKeeps ==
  ASSUME IInv, NEW c \in Txn, TxnStep(c)
  PROVE  IInv'
<1>1. STMTypeOK /\ StoreOK /\ TxnOK(c)
  BY DEF IInv
<1>2. STMTypeOK' /\ StoreOK' /\ Grows /\ TxnOK(c)'
  <2>1. ASSUME NEW keys \in SUBSET Key, keys # {}, NEW old, NEW new, ReadOf(c, keys, old, new)
        PROVE  STMTypeOK' /\ StoreOK' /\ Grows /\ TxnOK(c)'
    <3>1. db' = db
      BY <2>1 DEF ReadOf
    <3> QED
      BY <1>1, <2>1, <3>1, ReadKeeps, SameGrows
  <2>2. ASSUME NEW keys \in (SUBSET Key) \ {{}}, Get(c, keys)
        PROVE  STMTypeOK' /\ StoreOK' /\ Grows /\ TxnOK(c)'
    BY <1>1, <2>1, <2>2, GetReads
  <2>3. ASSUME NEW key \in Key, Rev(c, key)
        PROVE  STMTypeOK' /\ StoreOK' /\ Grows /\ TxnOK(c)'
    BY <1>1, <2>1, <2>3, RevReads
  <2>4. ASSUME NEW key \in Key, Put(c, key) \/ Del(c, key)
        PROVE  STMTypeOK' /\ StoreOK' /\ Grows /\ TxnOK(c)'
    <3>1. db' = db
      BY <2>4 DEF Put, Del
    <3> QED
      BY <1>1, <2>4, <3>1, WriteKeeps, SameGrows
  <2>5. CASE Commit(c)
    <3>1. Return(c, "done") /\ iso' = iso /\ db' = Written(wset[c])
      BY <2>5 DEF Commit
    <3> QED
      BY <1>1, <3>1, ReturnKeeps
  <2>6. CASE Conflict(c)
    <3>1. db' = db
      BY <2>6 DEF Conflict
    <3> QED
      BY <1>1, <2>6, <3>1, ConflictKeeps, SameGrows
  <2>7. CASE Fail(c)
    <3>1. Return(c, "failed") /\ iso' = iso /\ (db' = db \/ db' = Written(wset[c]))
      BY <2>7 DEF Fail
    <3> QED
      BY <1>1, <3>1, ReturnKeeps
  <2> QED
    BY <2>2, <2>3, <2>4, <2>5, <2>6, <2>7 DEF TxnStep
<1>3. ASSUME NEW d \in Txn, d # c PROVE TxnOK(d)'
  <2>1. /\ rset'[d] = rset[d] /\ wset'[d] = wset[d] /\ getRev'[d] = getRev[d]
        /\ prefetch'[d] = prefetch[d] /\ seen'[d] = seen[d] /\ began'[d] = began[d]
        /\ iso'[d] = iso[d]
    <3>1. /\ rset \in [Txn -> [Key -> Response \cup {NONE}]] /\ wset \in [Txn -> [Key -> Write]]
          /\ getRev \in [Txn -> 0 .. Len(db)] /\ seen \in [Txn -> [Key -> SUBSET (0 .. Len(db))]]
          /\ prefetch \in [Txn -> [Key -> Response \cup {NONE}]] /\ began \in [Txn -> 0 .. Len(db)]
      BY <1>1 DEF STMTypeOK
    <3>2. CASE \E keys \in (SUBSET Key) \ {{}} : Get(c, keys)
      BY <3>1, <3>2, <1>3 DEF Get, See
    <3>3. CASE \E key \in Key : Rev(c, key)
      BY <3>1, <3>3, <1>3 DEF Rev, See
    <3>4. CASE \E key \in Key : Put(c, key) \/ Del(c, key)
      BY <3>1, <3>4, <1>3 DEF Put, Del
    <3>5. CASE Commit(c) \/ Fail(c)
      BY <3>1, <3>5, <1>3 DEF Commit, Fail, Return, Reset
    <3>6. CASE Conflict(c)
      BY <3>1, <3>6, <1>3 DEF Conflict, Reset
    <3> QED
      BY <1>1, <3>2, <3>3, <3>4, <3>5, <3>6 DEF TxnStep
  <2> QED
    BY <1>1, <1>2, <2>1, Untouched DEF IInv
<1> QED
  BY <1>2, <1>3 DEF IInv

\* The invariant holds at the start.
LEMMA InitHolds == Init => IInv
<1> SUFFICES ASSUME Init PROVE IInv
  OBVIOUS
<1>1. /\ db \in Seq([Key -> Nat]) /\ Now = 1 /\ db[1] \in [Key -> {0, 1}]
  BY DEF Init, Now
<1>2. STMTypeOK
  <2>1. db # <<>>
    BY DEF Init
  <2>2. 0 \in 0 .. Len(db)
    BY <1>1 DEF Now
  <2> QED
    BY <1>1, <2>1, <2>2 DEF Init, STMTypeOK, Unread, Unwritten, Write
<1>3. StoreOK
  <2> SUFFICES ASSUME NEW k \in Key PROVE db[1][k] \in 0 .. 1
    BY <1>1 DEF StoreOK
  <2> QED
    BY <1>1
<1>4. ASSUME NEW c \in Txn PROVE TxnOK(c)
  BY DEF Init, TxnOK, Past, SeenOK, AheadOK, PrefetchOK, PinnedOK, BeganOK, LevelOK, Unread
<1> QED
  BY <1>2, <1>3, <1>4 DEF IInv

\* Every step keeps it.
LEMMA NextKeeps == IInv /\ [Next]_vars => IInv'
<1> SUFFICES ASSUME IInv, [Next]_vars PROVE IInv'
  OBVIOUS
<1>1. ASSUME NEW c \in Txn, TxnStep(c) PROVE IInv'
  BY <1>1, StepKeeps
<1>2. ASSUME NEW w \in [Key -> Write], Other(w) PROVE IInv'
  <2>1. Grows /\ StoreOK'
    BY <1>2, WrittenGrows DEF Other, IInv
  <2>2. STMTypeOK'
    <3>1. STMTypeOK
      BY DEF IInv
    <3> QED
      BY <1>2, <2>1, <3>1, TypeStays DEF Other, STMTypeOK, Now
  <2>3. \A c \in Txn : TxnOK(c)'
    BY <1>2, <2>1, Untouched DEF Other, IInv
  <2> QED
    BY <2>1, <2>2, <2>3 DEF IInv
<1>3. CASE UNCHANGED vars
  <2>1. \A c \in Txn : TxnOK(c)'
    BY <1>3, SameGrows, Untouched DEF vars, IInv
  <2> QED
    BY <1>3, <2>1 DEF vars, IInv, STMTypeOK, StoreOK, Now
<1> QED
  BY <1>1, <1>2, <1>3 DEF Next

\* The inductive invariant (IInv) holds in every reachable state.
THEOREM Invariant == Spec => []IInv
  BY InitHolds, NextKeeps, PTL DEF Spec

-----------------------------------------------------------------------------
(***************************************************************************)
(* What follows for every reachable state and every step.                  *)
(***************************************************************************)
\* Type correctness, of the read and write sets, getOpts and prefetch.
THEOREM STMTypeCorrect == Spec => []STMTypeOK
<1>1. IInv => STMTypeOK
  BY DEF IInv
<1> QED
  BY <1>1, Invariant, PTL

\* An attempt is given the same data for a key each time (RepeatableRead).
THEOREM ReadsRepeat == Spec => []RepeatableRead
<1>1. IInv => RepeatableRead
  BY DEF IInv, TxnOK, SeenOK, RepeatableRead
<1> QED
  BY <1>1, Invariant, PTL

\* Pinned reads are of the revision getOpts names (OneSnapshot).
THEOREM PinnedReadsOneSnapshot == Spec => []OneSnapshot
<1>1. IInv => OneSnapshot
  <2> SUFFICES ASSUME IInv, NEW c \in Txn, NEW k \in Key,
                      getRev[c] # 0, rset[c][k] # NONE, rset[c][k].rev >= getRev[c]
               PROVE  seen[c][k] \subseteq {db[getRev[c]][k]}
    BY DEF OneSnapshot
  <2>1. rset[c][k].mod = db[getRev[c]][k]
    BY DEF IInv, TxnOK, PinnedOK
  <2>2. \A m \in seen[c][k] : rset[c][k].mod = m
    BY DEF IInv, TxnOK, SeenOK
  <2> QED
    BY <2>1, <2>2
<1> QED
  BY <1>1, Invariant, PTL

\* The only steps in which a call returns are its own Commit and Fail, and one
\* that changes the store has found no conflict in its last revision.
LEMMA ReturnsByCommit ==
  ASSUME IInv, Next, NEW c \in Txn, pc'[c] # pc[c]
  PROVE  /\ pc'[c] = "done" \/ pc'[c] = "failed"
         /\ db' # db \/ (Serial(c) /\ pc'[c] = "done") => NoConflict(c, Now)
<1>1. pc \in [Txn -> {"apply", "done", "failed"}]
  BY DEF IInv, STMTypeOK
<1>2. Commit(c) \/ Fail(c)
  <2>1. ASSUME NEW w \in [Key -> Write], Other(w) PROVE FALSE
    BY <2>1 DEF Other
  <2>2. ASSUME NEW d \in Txn, TxnStep(d) PROVE Commit(c) \/ Fail(c)
    <3>1. CASE \E keys \in (SUBSET Key) \ {{}} : Get(d, keys)
      BY <3>1 DEF Get
    <3>2. CASE \E key \in Key : Rev(d, key) \/ Put(d, key) \/ Del(d, key)
      BY <3>2 DEF Rev, Put, Del
    <3>3. CASE Conflict(d)
      BY <3>3 DEF Conflict
    <3>4. CASE Commit(d)
      BY <1>1, <3>4 DEF Commit, Return
    <3>5. CASE Fail(d)
      BY <1>1, <3>5 DEF Fail, Return
    <3> QED
      BY <2>2, <3>1, <3>2, <3>3, <3>4, <3>5 DEF TxnStep
  <2> QED
    BY <2>1, <2>2 DEF Next
<1>3. CASE Commit(c)
  <2>1. pc'[c] = "done"
    BY <1>1, <1>3 DEF Commit, Return
  <2>2. ASSUME db' # db PROVE wset[c] # Unwritten
    <3>1. Changes(wset[c])
      BY <1>3, <2>2 DEF Commit, Written
    <3> QED
      BY <3>1 DEF Changes, Unwritten
  <2>3. db' # db \/ Serial(c) => CommitAt(c) = {Now}
    BY <2>2 DEF CommitAt
  <2> QED
    BY <1>3, <2>1, <2>3 DEF Commit
<1>4. CASE Fail(c)
  <2>1. pc'[c] = "failed"
    BY <1>1, <1>4 DEF Fail, Return
  <2> QED
    BY <1>4, <2>1 DEF Fail
<1> QED
  BY <1>2, <1>3, <1>4

\* Serializability (CommitReadsCurrent): a commit that takes effect has compared
\* every key apply was given, present or absent, with the last revision.
THEOREM CommitsReadCurrent == Spec => CommitReadsCurrent
<1>1. ASSUME IInv, Next, NEW c \in Txn,
             pc[c] = "apply", pc'[c] # "apply", iso[c] # "committed",
             db' # db \/ (Serial(c) /\ pc'[c] = "done"),
             NEW k \in Key
      PROVE  seen[c][k] \subseteq {db[Now][k]}
  <2>1. NoConflict(c, Now)
    BY <1>1, ReturnsByCommit
  <2>2. iso[c] \in Isolation
    BY <1>1 DEF IInv, STMTypeOK
  <2>3. ReadsCurrent(c, Now)
    <3>1. CASE iso[c] = "snapshot"
      BY <2>1, <3>1 DEF NoConflict
    <3>2. CASE iso[c] \in {"serializable", "repeatable"}
      BY <2>1, <3>2 DEF NoConflict
    <3> QED
      BY <1>1, <2>2, <3>1, <3>2 DEF Isolation
  <2>4. SeenOK(c)
    BY <1>1 DEF IInv, TxnOK
  <2> QED
    BY <2>3, <2>4 DEF ReadsCurrent, SeenOK
<1>2. IInv /\ [Next]_vars =>
        [\A c \in Txn :
           /\ pc[c] = "apply" /\ pc'[c] # "apply" /\ iso[c] # "committed"
           /\ db' # db \/ (Serial(c) /\ pc'[c] = "done")
           => \A k \in Key : seen[c][k] \subseteq {db[Now][k]}]_vars
  BY <1>1
<1> QED
  BY <1>2, Invariant, PTL DEF Spec, CommitReadsCurrent

\* The write check of SerializableSnapshot (NewerIsKept): first() is no younger
\* than the attempt, so nothing younger is overwritten.
THEOREM SnapshotKeepsNewer == Spec => NewerIsKept
<1>1. ASSUME IInv, Next, NEW c \in Txn,
             iso[c] = "snapshot", pc'[c] # pc[c], db' # db, began[c] # 0,
             NEW k \in Key, wset[c][k] # "none"
      PROVE  db[Now][k] <= began[c]
  <2>1. NoConflict(c, Now)
    BY <1>1, ReturnsByCommit
  <2>2. WritesCurrent(c, Now)
    BY <1>1, <2>1 DEF NoConflict
  <2>3. PICK j \in Key : rset[c][j] # NONE /\ rset[c][j].rev <= began[c]
    BY <1>1 DEF IInv, TxnOK, BeganOK
  <2>4. db[Now][k] <= rset[c][j].rev
    BY <1>1, <2>2, <2>3 DEF WritesCurrent
  <2>5. /\ Now \in Nat /\ Now > 0 /\ began[c] \in Nat
        /\ rset[c][j].rev \in Nat
    BY <1>1, <2>3 DEF IInv, STMTypeOK, TxnOK, Past, Now
  <2>6. db[Now][k] \in Nat
    BY <1>1, <2>5 DEF IInv, StoreOK
  <2> QED
    BY <2>3, <2>4, <2>5, <2>6
<1>2. IInv /\ [Next]_vars =>
        [\A c \in Txn :
           iso[c] = "snapshot" /\ pc'[c] # pc[c] /\ db' # db /\ began[c] # 0
           => \A k \in Key : wset[c][k] # "none" => db[Now][k] <= began[c]]_vars
  BY <1>1
<1> QED
  BY <1>2, Invariant, PTL DEF Spec, NewerIsKept

=============================================================================
