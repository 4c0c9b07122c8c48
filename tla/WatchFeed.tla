----------------------------- MODULE WatchFeed -----------------------------
(***************************************************************************)
(* What the watch service promises the application.  An id has at most one *)
(* holder, a subscription that was never used before.  The first response  *)
(* of a feed is Created, unless it ends at once; a feed that has ended     *)
(* stays so; after Close no subscription is made and none is held.         *)
(***************************************************************************)
CONSTANTS ID, Stream, NONE

VARIABLES
  holder,  \* the subscription that holds each id, or NONE
  used,    \* the subscriptions made so far
  shut,    \* the watcher was closed
  feed     \* what the reader of each subscription has seen

feedVars == <<holder, used, shut, feed>>

FeedInit ==
  /\ holder = [id \in ID |-> NONE]
  /\ used = {}
  /\ shut = FALSE
  /\ feed = [s \in Stream |-> "none"]

Subscribe(s, id) ==
  /\ ~shut /\ holder[id] = NONE /\ s \notin used
  /\ holder' = [holder EXCEPT ![id] = s]
  /\ used' = used \cup {s}
  /\ UNCHANGED <<shut, feed>>

\* The application gets the channel and reads it.
Open(s) ==
  /\ s \in used /\ feed[s] = "none"
  /\ feed' = [feed EXCEPT ![s] = "fresh"]
  /\ UNCHANGED <<holder, used, shut>>

Created(s) ==
  /\ feed[s] = "fresh"
  /\ feed' = [feed EXCEPT ![s] = "created"]
  /\ UNCHANGED <<holder, used, shut>>

Canceled(s) ==
  /\ feed[s] \in {"fresh", "created"}
  /\ feed' = [feed EXCEPT ![s] = "stopped"]
  /\ UNCHANGED <<holder, used, shut>>

Release(id) ==
  /\ holder[id] # NONE
  /\ holder' = [holder EXCEPT ![id] = NONE]
  /\ UNCHANGED <<used, shut, feed>>

Shut ==
  /\ shut' = TRUE
  /\ holder' = [id \in ID |-> NONE]
  /\ UNCHANGED <<used, feed>>

FeedNext ==
  \/ \E s \in Stream : Open(s) \/ Created(s) \/ Canceled(s) \/ \E id \in ID : Subscribe(s, id)
  \/ \E id \in ID : Release(id)
  \/ Shut

FeedSpec == FeedInit /\ [][FeedNext]_feedVars
=============================================================================
