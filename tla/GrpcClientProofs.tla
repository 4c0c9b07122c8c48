-------------------------- MODULE GrpcClientProofs --------------------------
(***************************************************************************)
(* Proofs about GrpcClient and Balancer, for any set of addresses, any     *)
(* number of SubConns that a counter can hold and any number of picks.     *)
(* IInv, below, is inductive.                                              *)
(***************************************************************************)
EXTENDS GrpcClient, FiniteSetTheorems, TLAPS

\* No two addresses share a SubConn.
OneAddr ==
  \A a, b \in Resolved : addrToSc[a] = addrToSc[b] => a = b

\* A SubConn without an address is shut down, and the recorder will hear of it
\* before anything can come after that.
RemovedOK ==
  \A sc \in SubConn : Removed(sc) =>
    /\ actual[sc] = "shutdown"
    /\ scToSt[sc] # NONE => reports[sc] # <<>> /\ reports[sc][Len(reports[sc])] = "shutdown"

\* The SubConns of an open connection live as long as they have an address.
Alive == \A addr \in Resolved : actual[addrToSc[addr]] # "shutdown"

\* The aggregated state is ready for a reason.
CurOK == cur = "ready" => count["ready"] > 0

\* In the round of the picker that is under way, the first SubConns of the list
\* have been given once more than the others.
TurnOK ==
  /\ Injective(picker.scs)
  /\ \E k \in Nat : \A i \in DOMAIN picker.scs :
       uses[picker.scs[i]] = IF i <= picker.next THEN k + 1 ELSE k

\* What the balancer is told, and has been told, are the endpoints.
ListedOK ==
  /\ phase = "report" => addrs = endpoints
  /\ phase \in {"dial", "open"} => Resolved \subseteq endpoints

BalancerInv ==
  /\ BalancerTypeOK
  /\ CountersExact
  /\ PickerIsCurrent
  /\ OneAddr
  /\ RemovedOK
  /\ CurOK
  /\ TurnOK

IInv ==
  /\ ClientTypeOK
  /\ BalancerInv
  /\ phase \notin {"failed", "closed"} => Alive
  /\ ListedOK

(***************************************************************************)
(* Lemmas about the operators.                                             *)
(***************************************************************************)
\* Addition of 1 and of -1 modulo the range of a counter.
LEMMA ModSmall ==
  ASSUME NEW n \in Nat, n < Modulus
  PROVE  n % Modulus = n
BY BalancerAssumption

\* Adding the modulus changes no counter: the recorder's `+ ^uint64(0)` is an exact minus one.
LEMMA ModWrap ==
  ASSUME NEW n \in Nat, n < Modulus
  PROVE  (n + Modulus) % Modulus = n
BY BalancerAssumption

\* What is last in a list is last in the rest of it.
LEMMA TailLast ==
  \A seq \in Seq(State) : Len(seq) > 1 =>
    Tail(seq) # <<>> /\ Tail(seq)[Len(Tail(seq))] = seq[Len(seq)]
<1> SUFFICES ASSUME NEW seq \in Seq(State), Len(seq) > 1
             PROVE  Tail(seq) # <<>> /\ Tail(seq)[Len(Tail(seq))] = seq[Len(seq)]
  OBVIOUS
<1> DEFINE n == Len(seq) - 1
<1>1. n \in 1 .. n /\ n + 1 = Len(seq) /\ Len(Tail(seq)) = n
  OBVIOUS
<1>2. Tail(seq)[n] = seq[n + 1]
  BY <1>1
<1>3. Tail(seq) # <<>>
  BY <1>1
<1> HIDE DEF n
<1> QED
  BY <1>1, <1>2, <1>3

\* What is appended to the reports of a sub-connection is the last of them.
LEMMA AppendLast ==
  \A seq \in Seq(State), s \in State :
    Append(seq, s) # <<>> /\ Append(seq, s)[Len(Append(seq, s))] = s
<1> SUFFICES ASSUME NEW seq \in Seq(State), NEW s \in State
             PROVE  Append(seq, s) # <<>> /\ Append(seq, s)[Len(Append(seq, s))] = s
  OBVIOUS
<1>1. Len(Append(seq, s)) = Len(seq) + 1 /\ Append(seq, s)[Len(seq) + 1] = s /\ Len(seq) + 1 # 0
  OBVIOUS
<1>2. Append(seq, s) # <<>>
  BY <1>1
<1> QED
  BY <1>1, <1>2

\* A picker with every SubConn of a set once, in any order.
LEMMA Listing ==
  ASSUME NEW S \in SUBSET SubConn, NEW q \in [1 .. Cardinality(S) -> S], Elems(q) = S
  PROVE  /\ Cardinality(S) \in Nat
         /\ q \in Seq(SubConn)
         /\ Len(q) = Cardinality(S)
         /\ Injective(q)
         /\ S # {} => q # <<>>
<1>1. IsFiniteSet(S) /\ Cardinality(S) \in Nat
  BY FS_Subset, FS_CardinalityType, BalancerAssumption
<1>2. q \in Seq(SubConn) /\ Len(q) = Cardinality(S)
  BY <1>1
<1>3. IsFiniteSet(1 .. Cardinality(S)) /\ Cardinality(1 .. Cardinality(S)) = Cardinality(S)
  BY <1>1, FS_Interval
<1>4. q \in Surjection(1 .. Cardinality(S), S)
  BY DEF Elems, Surjection
<1>5. q \in Injection(1 .. Cardinality(S), S)
  BY <1>1, <1>3, <1>4, FS_SurjSameCardinalityImpliesInj
<1>6. Injective(q)
  BY <1>5 DEF Injection, IsInjective, Injective
<1>7. S # {} => Len(q) # 0
  BY <1>1, <1>2, FS_EmptySet
<1> QED
  BY <1>1, <1>2, <1>6, <1>7


(***************************************************************************)
(* HandleSubConnStateChange.                                               *)
(***************************************************************************)
\* What the handler makes of the oldest report s of sc.
LEMMA ReportEffect ==
  ASSUME BalancerTypeOK, NEW sc \in SubConn, HandleSubConnStateChange(sc),
         NEW s, s = Head(reports[sc])
  PROVE  /\ s \in State
         /\ reports[sc] # <<>> /\ Tail(reports[sc]) \in Seq(State) /\ scToSt[sc] # NONE
         /\ scToSt' \in [SubConn -> (State \ {"shutdown"}) \cup {NONE}]
         /\ scToSt'[sc] = IF s = "shutdown" THEN NONE ELSE s
         /\ \A c \in SubConn : c # sc => scToSt'[c] = scToSt[c]
         /\ \A t \in Counted : count'[t] =
              (count[t] + (IF t = scToSt[sc] THEN Modulus - 1 ELSE 0) + (IF t = s THEN 1 ELSE 0)) % Modulus
         /\ cur' = Aggregate(count')
<1>1. reports[sc] \in Seq(State) /\ reports[sc] # <<>>
  BY DEF BalancerTypeOK, HandleSubConnStateChange
<1>2. s \in State /\ Tail(reports[sc]) \in Seq(State)
  BY <1>1
<1>3. scToSt' = [scToSt EXCEPT ![sc] = IF s = "shutdown" THEN NONE ELSE s] /\ scToSt[sc] # NONE
  BY DEF HandleSubConnStateChange
<1>4. scToSt \in [SubConn -> (State \ {"shutdown"}) \cup {NONE}]
  BY DEF BalancerTypeOK
<1>5. count' = Transition(scToSt[sc], s) /\ cur' = Aggregate(count')
  BY DEF HandleSubConnStateChange
<1>6. \A t \in Counted : count'[t] =
        (count[t] + (IF t = scToSt[sc] THEN Modulus - 1 ELSE 0) + (IF t = s THEN 1 ELSE 0)) % Modulus
  BY <1>5 DEF Transition
<1> QED
  BY <1>1, <1>2, <1>3, <1>4, <1>5, <1>6

\* The counter of t moves with the number of SubConns whose state is t.
LEMMA ReportCounts ==
  ASSUME BalancerTypeOK, CountersExact, NEW sc \in SubConn, HandleSubConnStateChange(sc)
  PROVE  CountersExact'
<1>0. PICK s : s = Head(reports[sc])
  OBVIOUS
<1> SUFFICES ASSUME NEW t \in Counted
             PROVE  count'[t] = Cardinality({c \in SubConn : scToSt'[c] = t})
  BY DEF CountersExact
<1> DEFINE old == scToSt[sc]
           S == {c \in SubConn : scToSt[c] = t}
           T == {c \in SubConn : scToSt'[c] = t}
<1>1. /\ count[t] \in Nat /\ count[t] = Cardinality(S) /\ count[t] < Modulus
      /\ count'[t] = (count[t] + (IF t = old THEN Modulus - 1 ELSE 0) + (IF t = s THEN 1 ELSE 0)) % Modulus
  BY <1>0, ReportEffect, BalancerAssumption DEF BalancerTypeOK, CountersExact
<1>2. /\ IsFiniteSet(S) /\ IsFiniteSet(T) /\ IsFiniteSet(SubConn)
      /\ Cardinality(S) \in Nat /\ Cardinality(T) \in Nat /\ Cardinality(T) < Modulus
  <2>1. S \in SUBSET SubConn /\ T \in SUBSET SubConn
    OBVIOUS
  <2>2. Cardinality(SubConn) \in Nat /\ Cardinality(T) <= Cardinality(SubConn)
    BY <2>1, FS_Subset, FS_CardinalityType, BalancerAssumption
  <2> QED
    BY <2>1, <2>2, FS_Subset, FS_CardinalityType, BalancerAssumption
<1>3. /\ t # "shutdown" /\ t # NONE
      /\ sc \in T <=> s = t
      /\ \A c \in SubConn : c # sc => (c \in T <=> c \in S)
  BY <1>0, ReportEffect, BalancerAssumption DEF Counted
<1> HIDE DEF S, T
<1>4. S \subseteq SubConn /\ T \subseteq SubConn
  BY DEF S, T
<1>5. sc \in S <=> old = t
  BY DEF S
<1>6. CASE old = t /\ s = t
  <2>1. T = S
    BY <1>3, <1>4, <1>5, <1>6
  <2>2. count'[t] = (count[t] + Modulus) % Modulus
    BY <1>1, <1>6, BalancerAssumption
  <2> QED
    BY <1>1, <2>1, <2>2, ModWrap DEF S, T
<1>7. CASE old = t /\ s # t
  <2>1. T = S \ {sc} /\ sc \in S
    BY <1>3, <1>4, <1>5, <1>7
  <2>2. Cardinality(T) = count[t] - 1
    BY <1>1, <1>2, <2>1, FS_RemoveElement
  <2>3. count'[t] = (Cardinality(T) + Modulus) % Modulus
    BY <1>1, <1>7, <2>2, BalancerAssumption
  <2> QED
    BY <1>2, <2>3, ModWrap DEF T
<1>8. CASE old # t /\ s = t
  <2>1. T = S \cup {sc} /\ sc \notin S
    BY <1>3, <1>4, <1>5, <1>8
  <2>2. Cardinality(T) = count[t] + 1
    BY <1>1, <1>2, <2>1, FS_AddElement
  <2>3. count'[t] = Cardinality(T) % Modulus
    BY <1>1, <1>8, <2>2
  <2> QED
    BY <1>2, <2>3, ModSmall DEF T
<1>9. CASE old # t /\ s # t
  <2>1. T = S
    BY <1>3, <1>4, <1>5, <1>9
  <2>2. count'[t] = count[t] % Modulus
    BY <1>1, <1>9
  <2> QED
    BY <1>1, <2>1, <2>2, ModSmall DEF S, T
<1> QED
  BY <1>6, <1>7, <1>8, <1>9


\* The picker and its uses after a report that updates them.
LEMMA NewPicker ==
  ASSUME BalancerTypeOK, NEW st, st \in [SubConn -> (State \ {"shutdown"}) \cup {NONE}],
         NEW agg, NEW p \in NewPickers(st, agg)
  PROVE  /\ p \in Picker /\ p.next = 0 /\ Injective(p.scs)
         /\ p.scs # <<>> => 0 < Len(p.scs)
         /\ p.kind = "failure" <=> agg = "failure"
         /\ Elems(p.scs) = IF agg = "failure" THEN {}
                           ELSE {c \in SubConn : ~Removed(c) /\ st[c] = "ready"}
<1> DEFINE ready == {c \in SubConn : ~Removed(c) /\ st[c] = "ready"}
<1>1. CASE agg = "failure"
  <2>1. p = [kind |-> "failure", scs |-> <<>>, next |-> 0]
    BY <1>1 DEF NewPickers, NewErr
  <2>2. p.kind = "failure" /\ p.scs = <<>> /\ p.next = 0 /\ p \in Picker
    BY <2>1 DEF Picker
  <2>3. Elems(<<>>) = {} /\ Injective(<<>>)
    BY DEF Elems, Injective
  <2> QED
    BY <1>1, <2>2, <2>3
<1>2. CASE agg # "failure"
  <2>1. PICK q \in [1 .. Cardinality(ready) -> ready] :
          Elems(q) = ready /\ p = [kind |-> "roundrobin", scs |-> q, next |-> 0]
    BY <1>2 DEF NewPickers
  <2>2. p.kind = "roundrobin" /\ p.scs = q /\ p.next = 0
    BY <2>1
  <2>3. ready \in SUBSET SubConn
    OBVIOUS
  <2> HIDE DEF ready
  <2>4. q \in Seq(SubConn) /\ Len(q) = Cardinality(ready) /\ Injective(q) /\ Len(q) \in Nat
    BY <2>1, <2>3, Listing
  <2>5. p \in Picker
    BY <2>1, <2>4 DEF Picker
  <2>6. q # <<>> => 0 < Len(q)
    BY <2>4
  <2> QED
    BY <1>2, <2>1, <2>2, <2>4, <2>5, <2>6 DEF ready
<1> QED
  BY <1>1, <1>2

\* A SubConn is ready if and only if the counter of ready is not zero.
LEMMA ReadyCount ==
  \A st : Cardinality({c \in SubConn : st[c] = "ready"}) = 0 <=> \A c \in SubConn : st[c] # "ready"
<1> SUFFICES ASSUME NEW st
             PROVE  Cardinality({c \in SubConn : st[c] = "ready"}) = 0
                      <=> \A c \in SubConn : st[c] # "ready"
  OBVIOUS
<1> DEFINE S == {c \in SubConn : st[c] = "ready"}
<1>1. IsFiniteSet(S)
  BY FS_Subset, BalancerAssumption
<1>2. Cardinality(S) = 0 <=> S = {}
  BY <1>1, FS_EmptySet
<1> QED
  BY <1>2

\* HandleSubConnStateChange: updatePicker makes a picker of exactly the ready sub-connections, in
\* its first turn.
LEMMA ReportPicker ==
  ASSUME BalancerTypeOK, CountersExact, CountersExact', PickerIsCurrent, TurnOK,
         count' \in [Counted -> 0 .. Modulus - 1],
         NEW sc \in SubConn, HandleSubConnStateChange(sc)
  PROVE  PickerIsCurrent' /\ TurnOK' /\ CurOK' /\ cur' \in State \ {"shutdown"}
         /\ picker' \in Picker /\ (picker'.scs # <<>> => picker'.next < Len(picker'.scs))
         /\ uses' \in [SubConn -> 0 .. MaxPick]
<1>0. PICK s : s = Head(reports[sc])
  OBVIOUS
<1>1. /\ s \in State /\ scToSt[sc] # NONE
      /\ scToSt' \in [SubConn -> (State \ {"shutdown"}) \cup {NONE}]
      /\ scToSt'[sc] = IF s = "shutdown" THEN NONE ELSE s
      /\ \A c \in SubConn : c # sc => scToSt'[c] = scToSt[c]
      /\ cur' = Aggregate(count')
  BY <1>0, ReportEffect
<1>2. addrToSc' = addrToSc
  BY DEF HandleSubConnStateChange
<1>3. /\ cur' \in State \ {"shutdown"} /\ (cur' = "ready" => count'["ready"] > 0)
      /\ cur' = "failure" => count'["ready"] = 0
  BY <1>1 DEF Aggregate, State, Counted
<1>4. cur' = "failure" => \A c \in SubConn : scToSt'[c] # "ready"
  <2>1. count'["ready"] = Cardinality({c \in SubConn : scToSt'[c] = "ready"})
    BY DEF CountersExact, Counted
  <2> QED
    BY <1>3, <2>1, ReadyCount
<1>5. scToSt'[sc] = "ready" <=> s = "ready"
  BY <1>1, BalancerAssumption
<1>6. \A addr \in Resolved : addrToSc[addr] \in SubConn /\ ~Removed(addrToSc[addr])
  BY DEF BalancerTypeOK, Resolved, Removed
<1>7. CASE MustUpdate(scToSt[sc], s, cur')
  <2>1. picker' \in NewPickers(scToSt', cur') /\ uses' = [c \in SubConn |-> 0]
    BY <1>0, <1>1, <1>7 DEF HandleSubConnStateChange
  <2>2. /\ picker' \in Picker /\ picker'.next = 0 /\ Injective(picker'.scs)
        /\ picker'.scs # <<>> => 0 < Len(picker'.scs)
        /\ picker'.kind = "failure" <=> cur' = "failure"
        /\ Elems(picker'.scs) = IF cur' = "failure" THEN {}
                                ELSE {c \in SubConn : ~Removed(c) /\ scToSt'[c] = "ready"}
    <3>1. PICK st, agg, p : st = scToSt' /\ agg = cur' /\ p = picker'
      OBVIOUS
    <3>2. st \in [SubConn -> (State \ {"shutdown"}) \cup {NONE}] /\ p \in NewPickers(st, agg)
      BY <1>1, <2>1, <3>1
    <3>3. /\ p \in Picker /\ p.next = 0 /\ Injective(p.scs)
          /\ p.scs # <<>> => 0 < Len(p.scs)
          /\ p.kind = "failure" <=> agg = "failure"
          /\ Elems(p.scs) = IF agg = "failure" THEN {}
                            ELSE {c \in SubConn : ~Removed(c) /\ st[c] = "ready"}
      BY <3>2, NewPicker
    <3> QED
      BY <3>1, <3>3
  <2>3. PickerIsCurrent'
    BY <1>2, <1>4, <1>6, <2>2 DEF PickerIsCurrent, Pickable, Resolved
  <2>4. \A i \in DOMAIN picker'.scs : picker'.scs[i] \in SubConn /\ i > 0
    BY <2>2 DEF Picker
  <2>5. TurnOK'
    BY <2>1, <2>2, <2>4 DEF TurnOK
  <2>6. uses' \in [SubConn -> 0 .. MaxPick]
    BY <2>1, BalancerAssumption
  <2> QED
    BY <1>3, <2>2, <2>3, <2>5, <2>6 DEF CurOK
<1>8. CASE ~ MustUpdate(scToSt[sc], s, cur')
  <2>1. UNCHANGED <<picker, uses>>
    BY <1>0, <1>1, <1>8 DEF HandleSubConnStateChange
  <2>2. (s = "ready" <=> scToSt[sc] = "ready") /\ (cur' = "failure" <=> cur = "failure")
    BY <1>8 DEF MustUpdate
  <2>3. \A c \in SubConn : scToSt'[c] = "ready" <=> scToSt[c] = "ready"
    BY <1>1, <1>5, <2>2
  <2>4. Pickable \subseteq SubConn
    BY DEF BalancerTypeOK, Pickable, Elems, Picker
  <2>5. PickerIsCurrent'
    BY <1>2, <1>6, <2>1, <2>2, <2>3, <2>4 DEF PickerIsCurrent, Pickable, Resolved
  <2>6. TurnOK'
    BY <2>1 DEF TurnOK
  <2> QED
    BY <1>3, <2>1, <2>5, <2>6 DEF CurOK, BalancerTypeOK
<1> QED
  BY <1>7, <1>8

\* What a report does to the state of a SubConn and to the reports that follow.
LEMMA ReportAnswer ==
  ASSUME BalancerTypeOK, NEW sc \in SubConn, HandleSubConnStateChange(sc)
  PROVE  /\ actual' \in [SubConn -> State] /\ reports' \in [SubConn -> Seq(State)]
         /\ \A c \in SubConn : actual'[c] = "shutdown" <=> actual[c] = "shutdown"
         /\ \A c \in SubConn : c # sc => reports'[c] = reports[c]
         /\ actual[sc] = "shutdown" => reports'[sc] = Tail(reports[sc])
<1>1. Tail(reports[sc]) \in Seq(State)
  <2>1. PICK s : s = Head(reports[sc])
    OBVIOUS
  <2> QED
    BY <2>1, ReportEffect
<1>2. actual \in [SubConn -> State] /\ reports \in [SubConn -> Seq(State)]
  BY DEF BalancerTypeOK
<1>3. "connecting" \in State /\ Append(Tail(reports[sc]), "connecting") \in Seq(State)
  BY <1>1 DEF State, Counted
<1>4. \/ /\ actual' = actual /\ reports' = [reports EXCEPT ![sc] = Tail(reports[sc])]
      \/ /\ actual[sc] = "idle" /\ actual' = [actual EXCEPT ![sc] = "connecting"]
         /\ reports' = [reports EXCEPT ![sc] = Append(Tail(reports[sc]), "connecting")]
  BY DEF HandleSubConnStateChange, Answer, Connects
<1> QED
  BY <1>1, <1>2, <1>3, <1>4

\* HandleSubConnStateChange keeps every part of the balancer's invariant.
LEMMA ReportKeeps ==
  ASSUME BalancerInv, NEW sc \in SubConn, HandleSubConnStateChange(sc)
  PROVE  BalancerInv' /\ (Alive => Alive')
<1>0. PICK s : s = Head(reports[sc])
  OBVIOUS
<1> USE DEF BalancerInv
<1>1. /\ s \in State /\ reports[sc] # <<>> /\ reports[sc] \in Seq(State)
      /\ scToSt' \in [SubConn -> (State \ {"shutdown"}) \cup {NONE}]
      /\ scToSt'[sc] = IF s = "shutdown" THEN NONE ELSE s
      /\ \A c \in SubConn : c # sc => scToSt'[c] = scToSt[c]
      /\ scToSt[sc] # NONE
  BY <1>0, ReportEffect DEF BalancerTypeOK
<1>2. addrToSc' = addrToSc
  BY DEF HandleSubConnStateChange
<1>3. /\ actual' \in [SubConn -> State] /\ reports' \in [SubConn -> Seq(State)]
      /\ \A c \in SubConn : actual'[c] = "shutdown" <=> actual[c] = "shutdown"
      /\ \A c \in SubConn : c # sc => reports'[c] = reports[c]
      /\ actual[sc] = "shutdown" => reports'[sc] = Tail(reports[sc])
  BY ReportAnswer
<1>4. count' \in [Counted -> 0 .. Modulus - 1]
  <2>1. \A n \in Int : n % Modulus \in 0 .. Modulus - 1
    BY BalancerAssumption
  <2>2. count \in [Counted -> Nat]
    BY BalancerAssumption DEF BalancerTypeOK
  <2>3. count' = Transition(scToSt[sc], s)
    BY <1>0 DEF HandleSubConnStateChange
  <2> DEFINE sum(t) == count[t] + (IF t = scToSt[sc] THEN Modulus - 1 ELSE 0) + (IF t = s THEN 1 ELSE 0)
  <2>4. \A t \in Counted : sum(t) \in Int
    BY <2>2, BalancerAssumption
  <2>5. count' = [t \in Counted |-> sum(t) % Modulus]
    BY <2>3 DEF Transition
  <2> HIDE DEF sum
  <2> QED
    BY <2>1, <2>4, <2>5
<1>5. CountersExact'
  BY ReportCounts
<1>6. /\ PickerIsCurrent' /\ TurnOK' /\ CurOK' /\ cur' \in State \ {"shutdown"}
      /\ picker' \in Picker /\ (picker'.scs # <<>> => picker'.next < Len(picker'.scs))
      /\ uses' \in [SubConn -> 0 .. MaxPick]
  BY <1>4, <1>5, ReportPicker
<1>7. BalancerTypeOK'
  BY <1>1, <1>2, <1>3, <1>4, <1>6 DEF BalancerTypeOK
<1>8. OneAddr' /\ (Alive => Alive')
  BY <1>2, <1>3 DEF OneAddr, Alive, Resolved, BalancerTypeOK
<1>9. RemovedOK'
  <2> SUFFICES ASSUME NEW c \in SubConn, Removed(c)
               PROVE  /\ actual'[c] = "shutdown"
                      /\ scToSt'[c] # NONE =>
                           reports'[c] # <<>> /\ reports'[c][Len(reports'[c])] = "shutdown"
    BY <1>2 DEF RemovedOK, Removed
  <2>1. actual[c] = "shutdown" /\ actual'[c] = "shutdown"
    BY <1>3 DEF RemovedOK
  <2>2. CASE c # sc
    BY <1>1, <1>3, <2>1, <2>2 DEF RemovedOK
  <2>3. CASE c = sc
    <3>1. reports[sc][Len(reports[sc])] = "shutdown"
      BY <1>1, <2>3 DEF RemovedOK
    <3>2. ASSUME scToSt'[sc] # NONE
          PROVE  Tail(reports[sc]) # <<>> /\ Tail(reports[sc])[Len(Tail(reports[sc]))] = "shutdown"
      <4>1. reports[sc][1] # "shutdown"
        BY <1>0, <1>1, <3>2
      <4>2. Len(reports[sc]) > 1 /\ Len(Tail(reports[sc])) = Len(reports[sc]) - 1
        BY <1>1, <3>1, <4>1
      <4> QED
        BY <1>1, <3>1, <4>2, TailLast
    <3> QED
      BY <1>3, <2>1, <2>3, <3>2
  <2> QED
    BY <2>2, <2>3
<1> QED
  BY <1>5, <1>6, <1>7, <1>8, <1>9

(***************************************************************************)
(* The other steps of an open connection.                                  *)
(***************************************************************************)
LEMMA ConnKeeps ==
  ASSUME BalancerInv, NEW sc \in SubConn, NEW s \in State \ {"shutdown"}, ConnChange(sc, s)
  PROVE  BalancerInv' /\ (Alive => Alive')
<1> USE DEF BalancerInv
<1>1. /\ actual \in [SubConn -> State] /\ reports \in [SubConn -> Seq(State)]
      /\ Append(reports[sc], s) \in Seq(State) /\ actual[sc] # "shutdown"
  BY DEF BalancerTypeOK, ConnChange
<1>2. /\ actual' \in [SubConn -> State] /\ reports' \in [SubConn -> Seq(State)]
      /\ \A c \in SubConn : actual'[c] = "shutdown" <=> actual[c] = "shutdown"
      /\ \A c \in SubConn : c # sc => reports'[c] = reports[c]
  BY <1>1 DEF ConnChange
<1>3. UNCHANGED <<addrToSc, scToSt, cur, count, picker, uses>>
  BY DEF ConnChange
<1>4. BalancerTypeOK'
  BY <1>2, <1>3 DEF BalancerTypeOK
<1>5. CountersExact' /\ PickerIsCurrent' /\ CurOK' /\ TurnOK'
  BY <1>3 DEF CountersExact, PickerIsCurrent, Pickable, Resolved, CurOK, TurnOK
<1>6. OneAddr' /\ (Alive => Alive')
  BY <1>2, <1>3 DEF OneAddr, Alive, Resolved, BalancerTypeOK
<1>7. RemovedOK'
  BY <1>1, <1>2, <1>3 DEF RemovedOK, Removed
<1> QED
  BY <1>4, <1>5, <1>6, <1>7


\* The place that follows, counted from zero.
LEMMA NextPlace ==
  \A n \in Nat \ {0} : \A p \in 0 .. n - 1 :
    Following(p, n) = IF p + 1 = n THEN 0 ELSE p + 1
BY DEF Following

\* Pick takes the next sub-connection of the list, so no two of them are ever more than one turn
\* apart.
LEMMA PickKeeps ==
  ASSUME BalancerInv, Pick
  PROVE  BalancerInv' /\ (Alive => Alive')
<1> USE DEF BalancerInv
<1>0. PICK scs, n, p : scs = picker.scs /\ n = Len(picker.scs) /\ p = picker.next
  OBVIOUS
<1>1. /\ picker \in Picker /\ scs \in Seq(SubConn) /\ scs # <<>>
      /\ uses \in [SubConn -> 0 .. MaxPick] /\ p \in Nat /\ p < n
  BY <1>0 DEF BalancerTypeOK, Picker, Pick
<1>2. n \in Nat \ {0} /\ p \in 0 .. n - 1 /\ DOMAIN scs = 1 .. n
  BY <1>0, <1>1
<1>3. PICK k \in Nat : \A i \in 1 .. n : uses[scs[i]] = IF i <= p THEN k + 1 ELSE k
  BY <1>0, <1>2 DEF TurnOK
<1>4. PICK j \in 1 .. n : j = p + 1
  BY <1>2
<1>5. /\ uses' = [uses EXCEPT ![scs[j]] = uses[scs[j]] + 1] /\ uses[scs[j]] < MaxPick
      /\ picker' = [picker EXCEPT !.next = Following(p, n)]
      /\ UNCHANGED <<addrToSc, scToSt, cur, count, actual, reports>>
  BY <1>0, <1>4 DEF Pick
<1>6. Following(p, n) \in Nat /\ Following(p, n) = IF j = n THEN 0 ELSE j
  BY <1>2, <1>4, NextPlace
<1>7. picker' \in Picker /\ picker'.scs = scs /\ picker'.kind = picker.kind
      /\ picker'.next = IF j = n THEN 0 ELSE j
  BY <1>0, <1>1, <1>5, <1>6 DEF Picker
<1>8. \A i \in 1 .. n : scs[i] \in SubConn /\ (scs[i] = scs[j] => i = j)
  <2>1. Injective(scs)
    BY <1>0 DEF TurnOK
  <2> QED
    BY <1>1, <1>2, <2>1 DEF Injective
<1>9. /\ uses' \in [SubConn -> 0 .. MaxPick]
      /\ \A i \in 1 .. n : uses'[scs[i]] = IF i = j THEN uses[scs[i]] + 1 ELSE uses[scs[i]]
  <2>1. scs[j] \in SubConn /\ uses[scs[j]] + 1 \in 0 .. MaxPick
    BY <1>1, <1>5, <1>8, BalancerAssumption
  <2>2. \A c \in SubConn : uses'[c] = IF c = scs[j] THEN uses[scs[j]] + 1 ELSE uses[c]
    BY <1>1, <1>5
  <2>3. uses' \in [SubConn -> 0 .. MaxPick]
    BY <1>1, <1>5, <2>1
  <2> QED
    BY <1>8, <2>2, <2>3
<1>10. BalancerTypeOK'
  <2>1. picker'.next < Len(picker'.scs)
    BY <1>0, <1>2, <1>7
  <2> QED
    BY <1>5, <1>7, <1>9, <2>1 DEF BalancerTypeOK
<1>11. CountersExact' /\ OneAddr' /\ RemovedOK' /\ CurOK' /\ (Alive => Alive')
  BY <1>5 DEF CountersExact, OneAddr, RemovedOK, Removed, CurOK, Alive, Resolved
<1>12. PickerIsCurrent'
  BY <1>0, <1>5, <1>7 DEF PickerIsCurrent, Pickable, Resolved
<1>13. TurnOK'
  <2>1. Injective(scs)
    BY <1>0 DEF TurnOK
  <2>2. \A i \in 1 .. n : uses'[scs[i]] = IF i <= j THEN k + 1 ELSE k
    BY <1>2, <1>3, <1>4, <1>9
  <2>3. PICK m \in Nat : \A i \in 1 .. n : uses'[scs[i]] = IF i <= picker'.next THEN m + 1 ELSE m
    <3>1. CASE j = n
      <4>1. picker'.next = 0 /\ k + 1 \in Nat
        BY <1>7, <3>1
      <4>2. \A i \in 1 .. n : i <= j /\ ~ i <= 0
        BY <1>2, <3>1
      <4> QED
        BY <2>2, <4>1, <4>2
    <3>2. CASE j # n
      BY <1>7, <2>2, <3>2
    <3> QED
      BY <3>1, <3>2
  <2> QED
    BY <1>2, <1>7, <2>1, <2>3 DEF TurnOK
<1> QED
  BY <1>10, <1>11, <1>12, <1>13

(***************************************************************************)
(* HandleResolvedAddrs.                                                    *)
(***************************************************************************)
LEMMA ResolveKeeps ==
  ASSUME BalancerInv, Alive, NEW A \in SUBSET Addr, HandleResolvedAddrs(A)
  PROVE  BalancerInv' /\ Alive' /\ Resolved' \subseteq A
<1> USE DEF BalancerInv
<1>0. PICK new \in SUBSET (A \ Resolved) : \E made \in [new -> Free] :
        Injective(made) /\ Resolve(A, made, {addrToSc[a] : a \in Resolved \ A})
  BY DEF HandleResolvedAddrs
<1>1. PICK made \in [new -> Free] :
        Injective(made) /\ Resolve(A, made, {addrToSc[a] : a \in Resolved \ A})
  BY <1>0
<1> DEFINE gone == {addrToSc[a] : a \in Resolved \ A}
           fresh == Elems(made)
<1>2. /\ addrToSc \in [Addr -> SubConn \cup {NONE}] /\ Resolved \subseteq Addr /\ new \subseteq Addr
      /\ scToSt \in [SubConn -> (State \ {"shutdown"}) \cup {NONE}]
      /\ actual \in [SubConn -> State] /\ reports \in [SubConn -> Seq(State)]
      /\ \A addr \in Resolved : addrToSc[addr] \in SubConn /\ addrToSc[addr] # NONE
      /\ NONE \notin SubConn
  BY BalancerAssumption DEF BalancerTypeOK, Resolved
<1>3. \A c \in fresh : /\ c \in SubConn /\ actual[c] = "shutdown" /\ reports[c] = <<>>
                       /\ scToSt[c] = NONE /\ c \notin Pickable
                       /\ \A addr \in Addr : addrToSc[addr] # c
  BY DEF Elems, Free, Removed
<1>4. \A addr \in new : made[addr] \in fresh
  BY DEF Elems
<1>5. \A c \in fresh : \E addr \in new : made[addr] = c
  BY DEF Elems
<1>6. /\ addrToSc' = [addr \in Addr |-> IF addr \in new THEN made[addr]
                                        ELSE IF addr \in A THEN addrToSc[addr] ELSE NONE]
      /\ scToSt' = [c \in SubConn |-> IF c \in fresh THEN "idle" ELSE scToSt[c]]
      /\ actual' = [c \in SubConn |-> IF c \in fresh THEN "connecting"
                                      ELSE IF c \in gone THEN "shutdown" ELSE actual[c]]
      /\ reports' = [c \in SubConn |->
           IF c \in fresh THEN <<"connecting">>
           ELSE IF c \in gone /\ actual[c] # "shutdown" THEN Append(reports[c], "shutdown")
           ELSE reports[c]]
      /\ UNCHANGED <<cur, count, picker, uses>>
  BY <1>1 DEF Resolve
<1>7. \A c \in gone : \E a \in Resolved \ A : addrToSc[a] = c
  OBVIOUS
<1>8. \A a \in Resolved \ A : addrToSc[a] \in gone
  OBVIOUS
<1> HIDE DEF gone, fresh
<1>9. Resolved' \subseteq A /\ \A addr \in Resolved' : addr \in Addr /\
        \/ addr \in new /\ addrToSc'[addr] = made[addr] /\ addrToSc'[addr] \in fresh
        \/ addr \in Resolved /\ addrToSc'[addr] = addrToSc[addr] /\ addrToSc[addr] \notin fresh
  <2>1. \A addr \in Resolved' : addr \in Addr /\ addrToSc'[addr] # NONE
    BY DEF Resolved
  <2>2. \A addr \in Addr : addrToSc'[addr] = IF addr \in new THEN made[addr]
                                             ELSE IF addr \in A THEN addrToSc[addr] ELSE NONE
    BY <1>6
  <2>3. \A addr \in Addr : addrToSc[addr] # NONE => addr \in Resolved
    BY DEF Resolved
  <2> QED
    BY <1>3, <1>4, <2>1, <2>2, <2>3
<1>10. BalancerTypeOK'
  <2>1. addrToSc' \in [Addr -> SubConn \cup {NONE}]
    BY <1>2, <1>3, <1>4, <1>6
  <2>2. /\ "idle" \in State \ {"shutdown"} /\ "connecting" \in State /\ "shutdown" \in State
    BY DEF State, Counted
  <2>3. /\ scToSt' \in [SubConn -> (State \ {"shutdown"}) \cup {NONE}]
        /\ actual' \in [SubConn -> State]
    BY <1>2, <1>6, <2>2
  <2>4. reports' \in [SubConn -> Seq(State)]
    <3>1. \A c \in SubConn : Append(reports[c], "shutdown") \in Seq(State) /\ <<"connecting">> \in Seq(State)
      BY <1>2, <2>2
    <3> QED
      BY <1>2, <1>6, <3>1
  <2> QED
    BY <1>6, <2>1, <2>3, <2>4 DEF BalancerTypeOK
<1>11. \A c \in SubConn, t \in Counted : scToSt'[c] = t <=> scToSt[c] = t
  BY <1>3, <1>6, BalancerAssumption DEF Counted
<1>12. CountersExact'
  <2>1. \A t \in Counted : {c \in SubConn : scToSt'[c] = t} = {c \in SubConn : scToSt[c] = t}
    BY <1>11
  <2> QED
    BY <1>6, <2>1 DEF CountersExact
<1>13. PickerIsCurrent'
  <2>1. Pickable' = Pickable /\ Pickable \subseteq SubConn /\ "ready" \in Counted
    BY <1>6 DEF BalancerTypeOK, Pickable, Elems, Picker, Counted
  <2>2. \A c \in SubConn : scToSt'[c] = "ready" => c \notin fresh
    BY <1>6
  <2>3. \A c \in Pickable : scToSt'[c] = "ready"
    BY <1>11, <2>1 DEF PickerIsCurrent
  <2>4. \A addr \in Resolved' : scToSt'[addrToSc'[addr]] = "ready" => addrToSc'[addr] \in Pickable
    BY <1>2, <1>3, <1>9, <1>11, <2>1, <2>2 DEF PickerIsCurrent
  <2>5. picker'.kind = "failure" <=> cur' = "failure"
    BY <1>6 DEF PickerIsCurrent
  <2> QED
    BY <2>1, <2>3, <2>4, <2>5 DEF PickerIsCurrent
<1>14. OneAddr'
  BY <1>2, <1>9, <1>1 DEF OneAddr, Injective
<1>15. Alive'
  <2> SUFFICES ASSUME NEW addr \in Resolved'
               PROVE  actual'[addrToSc'[addr]] # "shutdown"
    BY DEF Alive
  <2>1. CASE addrToSc'[addr] \in fresh
    BY <1>3, <1>6, <2>1
  <2>2. CASE addr \in Resolved /\ addrToSc'[addr] = addrToSc[addr] /\ addrToSc[addr] \notin fresh
    <3>1. addrToSc[addr] \notin gone
      BY <1>7, <1>9, <2>2 DEF OneAddr
    <3> QED
      BY <1>2, <1>6, <2>2, <3>1 DEF Alive
  <2> QED
    BY <1>9, <2>1, <2>2
<1>16. RemovedOK'
  <2> SUFFICES ASSUME NEW c \in SubConn, \A addr \in Addr : addrToSc'[addr] # c
               PROVE  /\ actual'[c] = "shutdown"
                      /\ scToSt'[c] # NONE =>
                           reports'[c] # <<>> /\ reports'[c][Len(reports'[c])] = "shutdown"
    BY DEF RemovedOK, Removed
  <2>1. c \notin fresh
    BY <1>2, <1>4, <1>5, <1>6
  <2>2. CASE c \in gone
    <3>1. actual[c] # "shutdown"
      BY <1>7, <2>2 DEF Alive
    <3>2. actual'[c] = "shutdown" /\ reports'[c] = Append(reports[c], "shutdown")
      BY <1>6, <2>1, <2>2, <3>1
    <3>3. Append(reports[c], "shutdown") # <<>>
          /\ Append(reports[c], "shutdown")[Len(Append(reports[c], "shutdown"))] = "shutdown"
      BY <1>2, AppendLast DEF State
    <3> QED
      BY <3>2, <3>3
  <2>3. CASE c \notin gone
    <3>1. Removed(c)
      <4> SUFFICES ASSUME NEW addr \in Addr, addrToSc[addr] = c
                   PROVE  FALSE
        BY DEF Removed
      <4>1. addr \in Resolved /\ addr \notin new
        BY <1>2 DEF Resolved
      <4> QED
        BY <1>6, <1>8, <2>3, <4>1
    <3> QED
      BY <1>6, <2>1, <2>3, <3>1 DEF RemovedOK
  <2> QED
    BY <2>2, <2>3
<1>17. CurOK' /\ TurnOK'
  BY <1>6 DEF CurOK, TurnOK
<1> QED
  BY <1>9, <1>10, <1>12, <1>13, <1>14, <1>15, <1>16, <1>17


(***************************************************************************)
(* The client.                                                             *)
(***************************************************************************)
LEMMA InitOK == Init => IInv
<1> SUFFICES ASSUME Init PROVE IInv
  OBVIOUS
<1> USE DEF Init, BalancerInit
<1>1. Resolved = {} /\ Elems(<<>>) = {} /\ Injective(<<>>)
  BY DEF Resolved, Elems, Injective
<1>2. picker = [kind |-> "noconn", scs |-> <<>>, next |-> 0] /\ picker \in Picker
  BY DEF NewErr, Picker
<1>3. BalancerTypeOK
  BY <1>2, BalancerAssumption DEF BalancerTypeOK, State, Counted
<1>4. CountersExact
  <2>1. \A t \in Counted : {c \in SubConn : scToSt[c] = t} = {}
    BY BalancerAssumption DEF Counted
  <2> QED
    BY <2>1, FS_EmptySet DEF CountersExact
<1>5. PickerIsCurrent /\ OneAddr /\ RemovedOK /\ CurOK
  BY <1>1, <1>2 DEF PickerIsCurrent, Pickable, OneAddr, RemovedOK, CurOK
<1>6. TurnOK
  BY <1>1, <1>2 DEF TurnOK
<1> QED
  BY <1>1, <1>3, <1>4, <1>5, <1>6 DEF IInv, BalancerInv, ClientTypeOK, Alive, ListedOK

\* Closing the connection shuts down what has an address too.
LEMMA CloseKeeps ==
  ASSUME BalancerInv, CloseConn
  PROVE  BalancerInv'
<1> USE DEF BalancerInv, CloseConn
<1>1. BalancerTypeOK'
  BY DEF BalancerTypeOK, State
<1>2. RemovedOK'
  BY DEF RemovedOK, Removed
<1>3. CountersExact' /\ PickerIsCurrent' /\ OneAddr' /\ CurOK' /\ TurnOK'
  BY DEF CountersExact, PickerIsCurrent, Pickable, OneAddr, Resolved, CurOK, TurnOK
<1> QED
  BY <1>1, <1>2, <1>3

\* A step of the client or the resolver alone changes nothing the balancer's invariant is about.
LEMMA BalancerStutters ==
  ASSUME BalancerInv, UNCHANGED balancerVars
  PROVE  BalancerInv' /\ (Alive => Alive') /\ Resolved' = Resolved
<1> USE DEF BalancerInv, balancerVars
<1>1. BalancerTypeOK' /\ CountersExact' /\ RemovedOK' /\ Resolved' = Resolved
  BY DEF BalancerTypeOK, CountersExact, RemovedOK, Removed, Resolved
<1>2. PickerIsCurrent' /\ OneAddr' /\ CurOK' /\ TurnOK' /\ (Alive => Alive')
  BY DEF PickerIsCurrent, Pickable, OneAddr, Resolved, CurOK, TurnOK, Alive
<1> QED
  BY <1>1, <1>2

\* A step of the client, its resolver or its balancer keeps the inductive invariant.
LEMMA StepIInv ==
  ASSUME IInv, [Next]_vars
  PROVE  IInv'
<1> DEFINE Open == phase \notin {"failed", "closed"}
<1>0. BalancerInv /\ (Open => Alive) /\ ListedOK
      /\ endpoints \in SUBSET Addr /\ addrs \in SUBSET Addr
      /\ phase \in {"build", "report", "dial", "open", "failed", "closed"}
  BY DEF IInv, ClientTypeOK
<1> SUFFICES /\ BalancerInv' /\ (Open' => Alive') /\ ListedOK'
             /\ endpoints' \in SUBSET Addr /\ addrs' \in SUBSET Addr
             /\ phase' \in {"build", "report", "dial", "open", "failed", "closed"}
  BY DEF IInv, ClientTypeOK, BalancerInv
<1>1. CASE Build
  BY <1>0, <1>1, BalancerStutters DEF Build, ListedOK
<1>2. CASE Report
  <2>1. BalancerInv' /\ Alive' /\ Resolved' \subseteq addrs
    BY <1>0, <1>2, ResolveKeeps DEF Report
  <2> QED
    BY <1>0, <1>2, <2>1 DEF Report, ListedOK
<1>3. CASE Dialled
  BY <1>0, <1>3, BalancerStutters DEF Dialled, ListedOK
<1>4. CASE DialFails \/ Close
  <2>1. BalancerInv'
    BY <1>0, <1>4, CloseKeeps DEF DialFails, Close
  <2> QED
    BY <1>0, <1>4, <2>1 DEF DialFails, Close, CloseConn, ListedOK
<1>5. ASSUME NEW eps \in SUBSET Addr, SetEndpoints(eps)
      PROVE  /\ BalancerInv' /\ (Open' => Alive') /\ ListedOK'
             /\ endpoints' \in SUBSET Addr /\ addrs' \in SUBSET Addr
             /\ phase' \in {"build", "report", "dial", "open", "failed", "closed"}
  <2>1. CASE phase = "closed"
    BY <1>0, <1>5, <2>1, BalancerStutters DEF SetEndpoints, ListedOK
  <2>2. CASE phase = "open"
    <3>1. BalancerInv' /\ Alive' /\ Resolved' \subseteq eps
      BY <1>0, <1>5, <2>2, ResolveKeeps DEF SetEndpoints
    <3> QED
      BY <1>0, <1>5, <2>2, <3>1 DEF SetEndpoints, ListedOK
  <2> QED
    BY <1>5, <2>1, <2>2 DEF SetEndpoints, Returned
<1>6. CASE Connected /\ BalancerStep /\ UNCHANGED clientVars
  <2>1. UNCHANGED clientVars /\ Resolved' = Resolved
    BY <1>6 DEF BalancerStep, HandleSubConnStateChange, Pick, ConnChange, Resolved
  <2>2. BalancerInv' /\ (Alive => Alive')
    BY <1>0, <1>6, ReportKeeps, PickKeeps, ConnKeeps DEF BalancerStep
  <2> QED
    BY <1>0, <2>1, <2>2 DEF clientVars, ListedOK
<1>7. CASE UNCHANGED vars
  BY <1>0, <1>7, BalancerStutters DEF vars, clientVars, ListedOK
<1> QED
  BY <1>1, <1>2, <1>3, <1>4, <1>5, <1>6, <1>7 DEF Next

\* The invariant holds in every state the client and its balancer reach.
THEOREM Invariance == Spec => []IInv
<1> QED
  BY InitOK, StepIInv, PTL DEF Spec

-----------------------------------------------------------------------------
\* The variables keep their types: the counters stay within their range and the
\* index of the picker within its list (roundrobin.go:44-51).
THEOREM ClientTypeCorrect == Spec => []ClientTypeOK
<1>1. IInv => ClientTypeOK
  BY DEF IInv
<1> QED
  BY <1>1, Invariance, PTL

\* The recorder's counters are the numbers of SubConns in each state, and do not
\* wrap, although the code lowers them by adding -1 (connectivity.go:53-64).
THEOREM RecorderCounts == Spec => []CountersExact
<1>1. IInv => CountersExact
  BY DEF IInv, BalancerInv
<1> QED
  BY <1>1, Invariance, PTL

\* The picker holds the resolved SubConns that are ready, although it is made
\* anew only by some of the reports and by no change of the addresses.
THEOREM PickerFollows == Spec => []PickerIsCurrent
<1>1. IInv => PickerIsCurrent
  BY DEF IInv, BalancerInv
<1> QED
  BY <1>1, Invariance, PTL

\* When the balancer reports ready and has nobody to pick, a SubConn that was
\* removed has yet to report its shutdown.
THEOREM ReadyOrShuttingDown == Spec => []ReadyMeansPickable
<1>1. IInv => ReadyMeansPickable
  <2> SUFFICES ASSUME IInv, cur = "ready", Pickable = {}
               PROVE  \E sc \in SubConn : Removed(sc) /\ scToSt[sc] = "ready" /\ reports[sc] # <<>>
    BY DEF ReadyMeansPickable
  <2>1. PICK sc \in SubConn : scToSt[sc] = "ready"
    <3>1. Cardinality({c \in SubConn : scToSt[c] = "ready"}) # 0
      BY DEF IInv, BalancerInv, CurOK, CountersExact, Counted
    <3> QED
      BY <3>1, ReadyCount
  <2>2. Removed(sc)
    BY <2>1, BalancerAssumption DEF IInv, BalancerInv, PickerIsCurrent, Resolved, Removed
  <2> QED
    BY <2>1, <2>2, BalancerAssumption DEF IInv, BalancerInv, RemovedOK
<1> QED
  BY <1>1, Invariance, PTL

\* Every SubConn that lives has one address, whatever addresses come and go.
THEOREM SubConnsAreOwned == Spec => []NoStraySubConn
<1>1. IInv => NoStraySubConn
  <2> SUFFICES ASSUME IInv, NEW sc \in SubConn, actual[sc] # "shutdown"
               PROVE  Cardinality({addr \in Addr : addrToSc[addr] = sc}) = 1
    BY DEF NoStraySubConn
  <2>1. PICK addr \in Addr : addrToSc[addr] = sc
    BY DEF IInv, BalancerInv, RemovedOK, Removed
  <2>2. \A a \in Addr : addrToSc[a] = sc => a = addr
    BY <2>1, BalancerAssumption DEF IInv, BalancerInv, OneAddr, Resolved
  <2>3. {a \in Addr : addrToSc[a] = sc} = {addr}
    BY <2>1, <2>2
  <2> QED
    BY <2>3, FS_Singleton
<1> QED
  BY <1>1, Invariance, PTL

\* Of two SubConns in its list, the picker has given neither two times more.
THEOREM PicksInTurn == Spec => []RoundRobin
<1>1. IInv => RoundRobin
  <2> SUFFICES ASSUME IInv, NEW a \in Pickable, NEW b \in Pickable
               PROVE  uses[a] <= uses[b] + 1
    BY DEF RoundRobin
  <2>1. PICK k \in Nat : \A i \in DOMAIN picker.scs :
          uses[picker.scs[i]] = IF i <= picker.next THEN k + 1 ELSE k
    BY DEF IInv, BalancerInv, TurnOK
  <2>2. uses[a] \in {k, k + 1} /\ uses[b] \in {k, k + 1}
    BY <2>1 DEF Pickable, Elems
  <2> QED
    BY <2>2
<1> QED
  BY <1>1, Invariance, PTL

\* The balancer uses no address that the client does not list.
THEOREM ListedAddressesOnly == Spec => []OnlyListed
<1>1. IInv => OnlyListed
  BY DEF IInv, ListedOK, OnlyListed
<1> QED
  BY <1>1, Invariance, PTL

=============================================================================
