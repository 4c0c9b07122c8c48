------------------------------ MODULE Balancer ------------------------------
(***************************************************************************)
(* The client-side balancer (grpclient/balancer): baseBalancer, the        *)
(* connectivity recorder and the round-robin picker.                       *)
(*                                                                         *)
(* gRPC calls the two handlers, each of which runs under bb.mu from its    *)
(* first line to its last.  gRPC's side, from how the code uses it: a      *)
(* SubConn has a state of its own and reports its changes in order, so the *)
(* balancer works with states that may be out of date.                     *)
(***************************************************************************)
EXTENDS Integers, Sequences, FiniteSets

CONSTANTS
  Addr,
  SubConn,    \* the pool gRPC takes new ones from: bounds the model
  Modulus,    \* the range of the recorder's counters, 2^64 in the code
  MaxReport,  \* reports of one SubConn on their way: bounds the model
  MaxPick,    \* picks of one SubConn from one picker: bounds the model
  NONE

ASSUME BalancerAssumption ==
  /\ Modulus \in Nat \ {0}
  /\ IsFiniteSet(SubConn) /\ Cardinality(SubConn) < Modulus
  /\ MaxReport \in Nat /\ MaxPick \in Nat
  /\ NONE \notin SubConn /\ NONE \notin {"idle", "connecting", "ready", "failure"}

VARIABLES
  addrToSc,
  scToSt,
  cur,      \* the recorder's aggregated state
  count,    \* its counters numReady, numConnecting and numTransientFailure
  picker,
  actual,   \* gRPC: the state of a SubConn; one that is not in use is shut down
  reports,  \* gRPC: the changes it has not yet told of
  uses      \* history: how often the picker has given a SubConn

balancerVars == <<addrToSc, scToSt, cur, count, picker, actual, reports, uses>>

Counted == {"ready", "connecting", "failure"}
State   == Counted \cup {"idle", "shutdown"}
Picker  == [kind : {"noconn", "failure", "roundrobin"}, scs : Seq(SubConn), next : Nat]

BalancerTypeOK ==
  /\ addrToSc \in [Addr -> SubConn \cup {NONE}]
  /\ scToSt \in [SubConn -> (State \ {"shutdown"}) \cup {NONE}]
  /\ cur \in State \ {"shutdown"}
  /\ count \in [Counted -> 0 .. Modulus - 1]
  /\ picker \in Picker /\ (picker.scs # <<>> => picker.next < Len(picker.scs))
  /\ actual \in [SubConn -> State]
  /\ reports \in [SubConn -> Seq(State)]
  /\ uses \in [SubConn -> 0 .. MaxPick]

Elems(seq) == {seq[i] : i \in DOMAIN seq}
NewErr(e)  == [kind |-> e, scs |-> <<>>, next |-> 0]
Resolved   == {addr \in Addr : addrToSc[addr] # NONE}
Removed(sc) == \A addr \in Addr : addrToSc[addr] # sc
Pickable   == Elems(picker.scs)

BalancerInit ==
  /\ addrToSc = [addr \in Addr |-> NONE]
  /\ scToSt = [sc \in SubConn |-> NONE]
  /\ cur = "idle"
  /\ count = [s \in Counted |-> 0]
  /\ picker = NewErr("noconn")
  /\ actual = [sc \in SubConn |-> "shutdown"]
  /\ reports = [sc \in SubConn |-> <<>>]
  /\ uses = [sc \in SubConn |-> 0]

(***************************************************************************)
(* HandleResolvedAddrs                                                     *)
(***************************************************************************)
\* The SubConns gRPC can make: nobody refers to them any more.
Free == {sc \in SubConn : /\ actual[sc] = "shutdown" /\ reports[sc] = <<>>
                          /\ scToSt[sc] = NONE /\ Removed(sc) /\ sc \notin Pickable}

Injective(f) == \A a, b \in DOMAIN f : f[a] = f[b] => a = b

\* What a call for addrs does: made is the SubConn of each new address, less
\* those for which NewSubConn fails, gone the SubConns that are removed.
Resolve(addrs, made, gone) ==
  /\ addrToSc' = [addr \in Addr |-> IF addr \in DOMAIN made THEN made[addr]
                                    ELSE IF addr \in addrs THEN addrToSc[addr] ELSE NONE]
  /\ scToSt' = [sc \in SubConn |-> IF sc \in Elems(made) THEN "idle" ELSE scToSt[sc]]
  /\ actual' = [sc \in SubConn |-> IF sc \in Elems(made) THEN "connecting"
                                   ELSE IF sc \in gone THEN "shutdown" ELSE actual[sc]]
  /\ reports' = [sc \in SubConn |->
       IF sc \in Elems(made) THEN <<"connecting">>
       ELSE IF sc \in gone /\ actual[sc] # "shutdown" THEN Append(reports[sc], "shutdown")
       ELSE reports[sc]]
  /\ UNCHANGED <<cur, count, picker, uses>>

\* Mutant: an address that has a SubConn is given another.
AlwaysNew(addrs) ==
  \E new \in SUBSET addrs :
    \E made \in [new -> Free] :
      Injective(made) /\ Resolve(addrs, made, {addrToSc[a] : a \in Resolved \ addrs})

\* Mutant: a SubConn that is no longer resolved is not removed.
NotRemoved(addrs) ==
  \E new \in SUBSET (addrs \ Resolved) :
    \E made \in [new -> Free] : Injective(made) /\ Resolve(addrs, made, {})

HandleResolvedAddrs(addrs) ==
  \E new \in SUBSET (addrs \ Resolved) :
    \E made \in [new -> Free] :
      Injective(made) /\ Resolve(addrs, made, {addrToSc[a] : a \in Resolved \ addrs})

(***************************************************************************)
(* HandleSubConnStateChange                                                *)
(***************************************************************************)
\* Mutant: the old state is not taken off its counter.
OnlyAdded(old, new) ==
  [s \in Counted |-> (count[s] + IF s = new THEN 1 ELSE 0) % Modulus]

\* RecordTransition: uint64 addition of 1 and of the wrapped -1.
Transition(old, new) ==
  [s \in Counted |->
     (count[s] + (IF s = old THEN Modulus - 1 ELSE 0) + (IF s = new THEN 1 ELSE 0)) % Modulus]

Aggregate(n) ==
  CASE n["ready"] > 0 -> "ready"
    [] n["ready"] = 0 /\ n["connecting"] > 0 -> "connecting"
    [] OTHER -> "failure"

\* Mutant: the picker is made before the new state is stored.
StaleStates(st, agg) ==
  LET ready == {sc \in SubConn : ~Removed(sc) /\ scToSt[sc] = "ready"}
      n == Cardinality(ready)
  IN  IF agg = "failure" THEN {NewErr("failure")}
      ELSE {[kind |-> "roundrobin", scs |-> seq, next |-> 0] :
              seq \in {q \in [1 .. n -> ready] : Elems(q) = ready}}

\* The pickers updatePicker can make, in the order a map is ranged over.
NewPickers(st, agg) ==
  LET ready == {sc \in SubConn : ~Removed(sc) /\ st[sc] = "ready"}
      n == Cardinality(ready)
  IN  IF agg = "failure" THEN {NewErr("failure")}
      ELSE {[kind |-> "roundrobin", scs |-> seq, next |-> 0] :
              seq \in {q \in [1 .. n -> ready] : Elems(q) = ready}}

\* Mutant: the picker is updated only when the aggregated state moves.
ByAggregate(old, s, agg) == (agg = "failure") # (cur = "failure")

MustUpdate(old, s, agg) ==
  (s = "ready") # (old = "ready") \/ (agg = "failure") # (cur = "failure")

\* Connect starts an idle SubConn, and does nothing to another.
Connects(sc, rest) ==
  IF actual[sc] = "idle"
  THEN /\ actual' = [actual EXCEPT ![sc] = "connecting"]
       /\ reports' = [reports EXCEPT ![sc] = Append(rest, "connecting")]
  ELSE /\ UNCHANGED actual
       /\ reports' = [reports EXCEPT ![sc] = rest]

\* Mutant: an idle SubConn is left alone.
StaysIdle(sc, s, rest) ==
  /\ UNCHANGED actual
  /\ reports' = [reports EXCEPT ![sc] = rest]

Answer(sc, s, rest) ==
  IF s = "idle" THEN Connects(sc, rest)
  ELSE /\ UNCHANGED actual
       /\ reports' = [reports EXCEPT ![sc] = rest]

\* The balancer is told the oldest change of sc.  One of a SubConn it does not
\* know would be ignored, but gRPC has nothing to report after Shutdown.
HandleSubConnStateChange(sc) ==
  LET s   == Head(reports[sc])
      old == scToSt[sc]
      st  == [scToSt EXCEPT ![sc] = IF s = "shutdown" THEN NONE ELSE s]
      n   == Transition(old, s)
      agg == Aggregate(n)
  IN
  /\ reports[sc] # <<>>
  /\ old # NONE
  /\ Answer(sc, s, Tail(reports[sc]))
  /\ scToSt' = st
  /\ count' = n
  /\ cur' = agg
  /\ IF MustUpdate(old, s, agg)
     THEN picker' \in NewPickers(st, agg) /\ uses' = [c \in SubConn |-> 0]
     ELSE UNCHANGED <<picker, uses>>
  /\ UNCHANGED addrToSc

(***************************************************************************)
(* Pick, and gRPC's own steps.                                             *)
(***************************************************************************)
\* Mutant: next is not taken modulo the length.
RunsOn(next, n) == next + 1

\* Mutant: the last of the list is never reached.
SkipLast(next, n) == IF n < 2 THEN 0 ELSE (next + 1) % (n - 1)

Following(next, n) == (next + 1) % n

Pick ==
  LET sc == picker.scs[picker.next + 1] IN
  /\ picker.scs # <<>>
  /\ uses[sc] < MaxPick
  /\ uses' = [uses EXCEPT ![sc] = @ + 1]
  /\ picker' = [picker EXCEPT !.next = Following(@, Len(picker.scs))]
  /\ UNCHANGED <<addrToSc, scToSt, cur, count, actual, reports>>

\* A connection is made, fails or is lost; an idle one waits for Connect.
ConnChange(sc, s) ==
  /\ actual[sc] \notin {"idle", "shutdown", s}
  /\ Len(reports[sc]) < MaxReport
  /\ actual' = [actual EXCEPT ![sc] = s]
  /\ reports' = [reports EXCEPT ![sc] = Append(@, s)]
  /\ UNCHANGED <<addrToSc, scToSt, cur, count, picker, uses>>

\* What goes on in a connection that is open, whatever addresses it is told.
BalancerStep ==
  \/ \E sc \in SubConn : HandleSubConnStateChange(sc)
  \/ Pick
  \/ \E sc \in SubConn, s \in State \ {"shutdown"} : ConnChange(sc, s)

-----------------------------------------------------------------------------
(***************************************************************************)
(* Safety.                                                                 *)
(***************************************************************************)

\* The recorder counts the SubConns in each state, removed ones included, and
\* no counter wraps (connectivity.go:53-64).
CountersExact ==
  \A s \in Counted : count[s] = Cardinality({sc \in SubConn : scToSt[sc] = s})

\* The picker has every resolved SubConn that is ready, and nothing that has
\* been reported otherwise; it fails RPCs exactly while the aggregated state is
\* TransientFailure (balancer.go:178-204).
PickerIsCurrent ==
  /\ \A sc \in Pickable : scToSt[sc] = "ready"
  /\ \A addr \in Resolved : scToSt[addrToSc[addr]] = "ready" => addrToSc[addr] \in Pickable
  /\ picker.kind = "failure" <=> cur = "failure"

\* Reported as ready with nobody to pick, the balancer waits for no more than
\* the report of a SubConn that has been removed.
ReadyMeansPickable ==
  cur = "ready" /\ Pickable = {} =>
    \E sc \in SubConn : Removed(sc) /\ scToSt[sc] = "ready" /\ reports[sc] # <<>>

\* Every SubConn that lives belongs to one address, so it can be removed.
NoStraySubConn ==
  \A sc \in SubConn :
    actual[sc] # "shutdown" => Cardinality({addr \in Addr : addrToSc[addr] = sc}) = 1

\* The picker gives its SubConns in turn.
RoundRobin == \A a, b \in Pickable : uses[a] <= uses[b] + 1

=============================================================================
