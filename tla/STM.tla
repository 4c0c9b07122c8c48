-------------------------------- MODULE STM --------------------------------
(***************************************************************************)
(* Software transactional memory over etcd (grpclient/concurrency/stm.go). *)
(* Every NewSTM runs apply in attempts: reads fill a read set, writes a    *)
(* write set, and commit is one etcd transaction that compares what was    *)
(* read with what is there.  A conflict starts the next attempt.  What     *)
(* apply does is the application's choice, in each attempt anew.           *)
(*                                                                         *)
(* A value is told from another by the revision that wrote it.  etcd, from *)
(* how the code uses it, is the sequence of its revisions; a request it    *)
(* serves without consensus may be answered by a member that lags behind.  *)
(***************************************************************************)
EXTENDS Naturals, Sequences

CONSTANTS
  Txn,     \* the calls of NewSTM
  Key,
  Old,     \* the keys that are there at the start
  MaxRev,  \* the revisions other clients may make: bounds the model
  NONE

ASSUME STMAssumption ==
  /\ Old \subseteq Key
  /\ MaxRev \in Nat
  /\ NONE \notin [mod : Nat, rev : Nat]

VARIABLES
  db,        \* etcd: for each revision, the mod revision of each key, 0 if absent
  pc,        \* where each call is
  iso,       \* its isolation level
  rset,      \* readSet: the response for a key
  wset,      \* writeSet
  getRev,    \* the revision in getOpts, 0 for none
  prefetch,  \* the responses a failed commit has left
  seen,      \* history: the mod revisions apply was given for a key, this attempt
  began      \* history: the last revision when the attempt first read, or 0

vars == <<db, pc, iso, rset, wset, getRev, prefetch, seen, began>>

Response  == [mod : Nat, rev : Nat]  \* rev is Header.Revision
Isolation == {"snapshot", "serializable", "repeatable", "committed"}
Write     == {"none", "put", "del"}

STMTypeOK ==
  /\ db \in Seq([Key -> Nat]) /\ db # <<>>
  /\ pc \in [Txn -> {"apply", "done", "failed"}]
  /\ iso \in [Txn -> Isolation]
  /\ rset \in [Txn -> [Key -> Response \cup {NONE}]]
  /\ wset \in [Txn -> [Key -> Write]]
  /\ getRev \in [Txn -> 0 .. Len(db)]
  /\ prefetch \in [Txn -> [Key -> Response \cup {NONE}]]
  /\ seen \in [Txn -> [Key -> SUBSET (0 .. Len(db))]]
  /\ began \in [Txn -> 0 .. Len(db)]

Now       == Len(db)
Serial(c) == iso[c] \in {"snapshot", "serializable"}  \* an stmSerializable
Unread    == [k \in Key |-> NONE]
Unwritten == [k \in Key |-> "none"]

Init ==
  /\ db = <<[k \in Key |-> IF k \in Old THEN 1 ELSE 0]>>
  /\ pc = [c \in Txn |-> "apply"]
  /\ iso \in [Txn -> Isolation]
  /\ rset = [c \in Txn |-> Unread]
  /\ wset = [c \in Txn |-> Unwritten]
  /\ getRev = [c \in Txn |-> 0]
  /\ prefetch = [c \in Txn |-> Unread]
  /\ seen = [c \in Txn |-> [k \in Key |-> {}]]
  /\ began = [c \in Txn |-> 0]

(***************************************************************************)
(* Reads.                                                                  *)
(***************************************************************************)
\* Mutant: the first read does not set the revision of the next ones.
Unpinned(c) ==
  IF Serial(c) THEN {[at |-> Now, rev |-> Now]} ELSE {[at |-> r, rev |-> r] : r \in 1 .. Now}

\* The revision etcd reads at and the one it puts in the header, under getOpts.
Answers(c) ==
  IF ~Serial(c) THEN {[at |-> r, rev |-> r] : r \in 1 .. Now}
  ELSE IF getRev[c] = 0 THEN {[at |-> Now, rev |-> Now]}
  ELSE {[at |-> getRev[c], rev |-> r] : r \in getRev[c] .. Now}

\* Mutant: the header is one revision ahead of what was read.
OneAhead(c, keys, old) ==
  IF \E k \in keys : old[k] # NONE THEN {old}
  ELSE {[k \in Key |-> IF k \in keys THEN [mod |-> db[a.at][k], rev |-> a.rev + 1] ELSE old[k]] :
          a \in Answers(c)}

\* Mutant: fetch does not look into the read set.
FetchAgain(c, keys, old) ==
  {[k \in Key |-> IF k \in keys THEN [mod |-> db[a.at][k], rev |-> a.rev] ELSE old[k]] :
     a \in Answers(c)}

\* The read sets stm.fetch can make of a read set: a key that is in it answers
\* for all, otherwise one etcd transaction reads them all.
Fetched(c, keys, old) ==
  IF \E k \in keys : old[k] # NONE THEN {old}
  ELSE {[k \in Key |-> IF k \in keys THEN [mod |-> db[a.at][k], rev |-> a.rev] ELSE old[k]] :
          a \in Answers(c)}

\* What apply learns from one key's response.  Of several keys it is given one
\* response and not told whose: such a Get only fetches ahead.
See(c, keys, new) ==
  /\ seen' = [seen EXCEPT ![c] =
       [k \in Key |-> IF keys = {k} THEN @[k] \cup {new[k].mod} ELSE @[k]]]
  /\ began' = [began EXCEPT ![c] = IF @ = 0 THEN Now ELSE @]

\* Get of keys that are not in the write set (else it returns what is there).
\* stmSerializable takes what it has prefetched first.
Get(c, keys) ==
  LET ahead(k) == k \in keys /\ prefetch[c][k] # NONE
      old == [k \in Key |-> IF ahead(k) THEN prefetch[c][k] ELSE rset[c][k]]
  IN
  /\ pc[c] = "apply"
  /\ \A k \in keys : wset[c][k] = "none"
  /\ \E new \in Fetched(c, keys, old) :
       /\ rset' = [rset EXCEPT ![c] = new]
       /\ See(c, keys, new)
       /\ IF Serial(c) /\ rset[c] = Unread
          THEN \E k \in keys : new[k] # NONE /\ getRev' = [getRev EXCEPT ![c] = new[k].rev]
          ELSE UNCHANGED getRev
  /\ prefetch' = [prefetch EXCEPT ![c] = [k \in Key |-> IF ahead(k) THEN NONE ELSE @[k]]]
  /\ UNCHANGED <<db, pc, iso, wset>>

\* Rev fetches a key that is in the write set, too: then stmSerializable's Get
\* has returned at once, and neither prefetch nor getOpts is looked after.  For
\* any other key Rev is Get.
Rev(c, key) ==
  /\ pc[c] = "apply"
  /\ wset[c][key] # "none"
  /\ \E new \in Fetched(c, {key}, rset[c]) :
       rset' = [rset EXCEPT ![c] = new] /\ See(c, {key}, new)
  /\ UNCHANGED <<db, pc, iso, wset, getRev, prefetch>>

Put(c, key) ==
  /\ pc[c] = "apply"
  /\ wset' = [wset EXCEPT ![c][key] = "put"]
  /\ UNCHANGED <<db, pc, iso, rset, getRev, prefetch, seen, began>>

Del(c, key) ==
  /\ pc[c] = "apply"
  /\ wset' = [wset EXCEPT ![c][key] = "del"]
  /\ UNCHANGED <<db, pc, iso, rset, getRev, prefetch, seen, began>>

(***************************************************************************)
(* commit.                                                                 *)
(***************************************************************************)
\* Mutant: a read of an absent key is not compared (isKeyCurrent).
AbsentIgnored(c, r) ==
  \A k \in Key : rset[c][k] # NONE /\ rset[c][k].mod # 0 => db[r][k] = rset[c][k].mod

\* rset.cmps
ReadsCurrent(c, r) ==
  \A k \in Key : rset[c][k] # NONE => db[r][k] = rset[c][k].mod

\* Mutant: the write set is not compared.
WritesUnchecked(c, r) == TRUE

\* wset.cmps(rset.first() + 1): nothing it writes is younger than its oldest
\* read; without a read, first() is as large as a revision gets.
WritesCurrent(c, r) ==
  \A k, j \in Key :
    wset[c][k] # "none" /\ rset[c][j] # NONE => db[r][k] <= rset[c][j].rev

\* conflicts, for each isolation level: none of the comparisons fails.
NoConflict(c, r) ==
  CASE iso[c] = "snapshot" -> ReadsCurrent(c, r) /\ WritesCurrent(c, r)
    [] iso[c] \in {"serializable", "repeatable"} -> ReadsCurrent(c, r)
    [] OTHER -> TRUE

\* What etcd makes of a set of writes: a new revision, unless nothing changes.
Changes(w) == \E k \in Key : w[k] = "put" \/ (w[k] = "del" /\ db[Now][k] # 0)

Written(w) ==
  IF ~Changes(w) THEN db
  ELSE Append(db, [k \in Key |-> CASE w[k] = "put"  -> Now + 1
                                   [] w[k] = "del"  -> 0
                                   [] w[k] = "none" -> db[Now][k]])

\* A commit that writes, or whose Else reads, needs consensus; one of nothing
\* but comparisons may be answered by a member that lags behind.
CommitAt(c) == IF Serial(c) \/ wset[c] # Unwritten THEN {Now} ELSE 1 .. Now

\* reset, and with it what apply has seen.
Reset(c) ==
  /\ rset' = [rset EXCEPT ![c] = Unread]
  /\ wset' = [wset EXCEPT ![c] = Unwritten]
  /\ seen' = [seen EXCEPT ![c] = [k \in Key |-> {}]]
  /\ began' = [began EXCEPT ![c] = 0]

\* The call returns, and its STM is gone.
Return(c, state) ==
  /\ pc' = [pc EXCEPT ![c] = state]
  /\ Reset(c)
  /\ getRev' = [getRev EXCEPT ![c] = 0]
  /\ prefetch' = [prefetch EXCEPT ![c] = Unread]

Commit(c) ==
  /\ pc[c] = "apply"
  /\ \E r \in CommitAt(c) : NoConflict(c, r)
  /\ db' = Written(wset[c])
  /\ Return(c, "done")
  /\ UNCHANGED iso

\* Mutant: the responses of Else are not loaded.
KeepOld(c) ==
  /\ pc[c] = "apply"
  /\ \E r \in CommitAt(c) : ~NoConflict(c, r)
  /\ IF Serial(c)
     THEN /\ prefetch' = [prefetch EXCEPT ![c] = rset[c]]
          /\ getRev' = [getRev EXCEPT ![c] = 0]
     ELSE UNCHANGED <<prefetch, getRev>>
  /\ Reset(c)
  /\ UNCHANGED <<db, pc, iso>>

\* A conflict: stmSerializable keeps what Else has read; reset.
Conflict(c) ==
  /\ pc[c] = "apply"
  /\ \E r \in CommitAt(c) : ~NoConflict(c, r)
  /\ IF Serial(c)
     THEN /\ prefetch' = [prefetch EXCEPT ![c] =
               [k \in Key |-> IF rset[c][k] = NONE THEN NONE
                              ELSE [mod |-> db[Now][k], rev |-> Now]]]
          /\ getRev' = [getRev EXCEPT ![c] = 0]
     ELSE UNCHANGED <<prefetch, getRev>>
  /\ Reset(c)
  /\ UNCHANGED <<db, pc, iso>>

\* apply or a request fails; of a commit the answer may be all that is lost.
Fail(c) ==
  /\ pc[c] = "apply"
  /\ \/ UNCHANGED db
     \/ NoConflict(c, Now) /\ db' = Written(wset[c])
  /\ Return(c, "failed")
  /\ UNCHANGED iso

\* Another client of etcd writes.
Other(w) ==
  /\ Now < MaxRev /\ Changes(w)
  /\ db' = Written(w)
  /\ UNCHANGED <<pc, iso, rset, wset, getRev, prefetch, seen, began>>

-----------------------------------------------------------------------------
TxnStep(c) ==
  \/ \E keys \in (SUBSET Key) \ {{}} : Get(c, keys)
  \/ \E key \in Key : Rev(c, key) \/ Put(c, key) \/ Del(c, key)
  \/ Commit(c) \/ Conflict(c) \/ Fail(c)

Next ==
  \/ \E c \in Txn : TxnStep(c)
  \/ \E w \in [Key -> Write] : Other(w)

Spec == Init /\ [][Next]_vars

\* An attempt is committed at some time: apply returns.
Fairness == \A c \in Txn : WF_vars(Commit(c) \/ Conflict(c))
FairSpec == Spec /\ Fairness

-----------------------------------------------------------------------------
(***************************************************************************)
(* Safety.                                                                 *)
(***************************************************************************)

\* stm.go:52-53: in one attempt a key always gives the same data, whether the
\* response was fetched, prefetched or there already, by Get or by Rev.
RepeatableRead ==
  \A c \in Txn, k \in Key : \A m1, m2 \in seen[c][k] : m1 = m2

\* Serializability: in the step in which a transaction takes effect, all that
\* its apply was given for this attempt is what the store holds, so it could
\* have run in that instant.  Only ReadCommitted does not promise it, nor
\* a RepeatableReads transaction that writes nothing.
CommitReadsCurrent ==
  [][\A c \in Txn :
       /\ pc[c] = "apply" /\ pc'[c] # "apply" /\ iso[c] # "committed"
       /\ db' # db \/ (Serial(c) /\ pc'[c] = "done")
       => \A k \in Key : seen[c][k] \subseteq {db[Now][k]}]_vars

\* SerializableSnapshot also checks for write conflicts (stm.go:46-47): no
\* value that was put after the attempt's first read is overwritten, read or
\* not.  (One that was deleted is not noticed: an absent key has revision 0.)
NewerIsKept ==
  [][\A c \in Txn :
       iso[c] = "snapshot" /\ pc'[c] # pc[c] /\ db' # db /\ began[c] # 0
       => \A k \in Key : wset[c][k] # "none" => db[Now][k] <= began[c]]_vars

\* Serializable reads give the data of one revision, that of the first Get,
\* except what an older attempt has prefetched.
OneSnapshot ==
  \A c \in Txn, k \in Key :
    LET r == getRev[c] IN
    r # 0 /\ rset[c][k] # NONE /\ rset[c][k].rev >= r => seen[c][k] \subseteq {db[r][k]}

(***************************************************************************)
(* Liveness.                                                               *)
(***************************************************************************)

\* A conflict is somebody else's commit, and the next attempt starts from what
\* etcd holds (stm.go:357-360): once the others are quiet, an stmSerializable
\* does not retry for ever on old data.
RetriesEnd ==
  \A c \in Txn : Serial(c) ~> pc[c] # "apply"

(***************************************************************************)
(* What a comment says and the code does not do.                           *)
(***************************************************************************)

\* stm.go:49-50 says that the reads of one attempt of a Serializable return data
\* from the revision of the first read: there is one revision that has them all.
ReadsOfOneRevision ==
  \A c \in Txn :
    pc[c] = "apply" /\ iso[c] = "serializable" =>
      \E r \in 1 .. Now : \A k \in Key : seen[c][k] \subseteq {db[r][k]}

=============================================================================
