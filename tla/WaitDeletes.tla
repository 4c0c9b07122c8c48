---------------------------- MODULE WaitDeletes ----------------------------
(***************************************************************************)
(* waitDeletes and waitDelete (grpclient/concurrency/key.go), by which a   *)
(* Mutex and an Election wait for the keys created before their own.       *)
(***************************************************************************)
EXTENDS Session

VARIABLES
  pc,    \* the client's call; "owner" once Lock or Campaign has returned nil
  key,   \* myKey or leaderKey; NONE is "" or "\x00", a key nobody has
  rev,   \* myRev or leaderRev
  watch  \* the key waitDelete watches, as Get has read it

waitVars == <<pc, key, rev, watch>>

Waiting == {"get", "watch"}
Won     == {"owner", "resumed"}
CallPC  == Waiting \cup Won \cup {"idle", "release", "proclaim", "resign", "over"}

WaitTypeOK ==
  /\ pc \in [Client -> CallPC]
  /\ key \in [Client -> Lease \cup {NONE}]
  /\ rev \in [Client -> Nat \cup {-1}]
  /\ watch \in [Client -> [key : Lease, create : Nat] \cup {NONE}]
  /\ \A c \in Client : pc[c] = "watch" <=> watch[c] # NONE

Goto(c, state) == pc' = [pc EXCEPT ![c] = state]

\* The comparison of IsOwner, Proclaim and Resign.
IsOwner(c) == key[c] # NONE /\ store[key[c]].create = rev[c]

\* The keys WithMaxCreateRev, and which is the youngest (WithLastCreate).
Older(max)    == {l \in Keys : store[l].create <= max}
IsLast(l, ks) == l \in ks /\ \A m \in ks : store[m].create <= store[l].create

\* Mutants: the own key is among those waited for; the last one is not.
UpToOwn(c)    == rev[c]
AllButLast(c) == rev[c] - 2

MaxCreateRev(c) == rev[c] - 1

WaitGet(c) ==
  LET older == Older(MaxCreateRev(c)) IN
  /\ pc[c] = "get"
  /\ \/ older = {} /\ Goto(c, "owner") /\ UNCHANGED watch
     \/ \E l \in Lease :
          /\ IsLast(l, older) /\ Goto(c, "watch")
          /\ watch' = [watch EXCEPT ![c] = [key |-> l, create |-> store[l].create]]
  /\ UNCHANGED <<sessionVars, key, rev>>

\* The watch starts at the revision of Get: the key was deleted since, even if
\* it has been created again.
WaitDelete(c) ==
  /\ pc[c] = "watch" /\ store[watch[c].key].create # watch[c].create
  /\ Goto(c, "get")
  /\ watch' = [watch EXCEPT ![c] = NONE]
  /\ UNCHANGED <<sessionVars, key, rev>>

\* Mutant: the watch is not cancelled.
StaysWatched(c, next) ==
  /\ pc[c] \in Waiting
  /\ Goto(c, next)
  /\ UNCHANGED <<sessionVars, key, rev, watch>>

\* Get fails, the watch closes or the context of the call is done.
WaitFails(c, next) ==
  /\ pc[c] \in Waiting
  /\ Goto(c, next)
  /\ watch' = [watch EXCEPT ![c] = NONE]
  /\ UNCHANGED <<sessionVars, key, rev>>

=============================================================================
