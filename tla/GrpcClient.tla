------------------------------ MODULE GrpcClient ------------------------------
(***************************************************************************)
(* GrpcClient (grpclient/client.go) with its resolver group and resolver   *)
(* (grpclient/balancer/resolver), which tell the balancer its addresses.   *)
(* The id of the group is a fresh UUID: it has one resolver, that of the   *)
(* connection NewGRPCClient dials.                                         *)
(***************************************************************************)
EXTENDS Balancer

VARIABLES
  endpoints,  \* cfg.Endpoints of the client and endpoints of its group
  phase,      \* of the client and its connection
  addrs       \* what addResolver has read and not yet reported

clientVars == <<endpoints, phase, addrs>>
vars       == <<balancerVars, clientVars>>

ClientTypeOK ==
  /\ BalancerTypeOK
  /\ endpoints \in SUBSET Addr
  /\ phase \in {"build", "report", "dial", "open", "failed", "closed"}
  /\ addrs \in SUBSET Addr

Connected == phase \in {"dial", "open"}

\* Mutant: the client is handed out before its connection has been dialled.
GivenAway == phase \in {"report", "open", "closed"}

\* The application has the client.
Returned == phase \in {"open", "closed"}

\* NewGRPCClient as far as DialContext: the group is made and told.
Init ==
  /\ BalancerInit
  /\ endpoints \in SUBSET Addr \ {{}}
  /\ phase = "build"
  /\ addrs = {}

\* Build registers the resolver and reads the endpoints under the group's lock.
Build ==
  /\ phase = "build" /\ phase' = "report"
  /\ addrs' = endpoints
  /\ UNCHANGED <<balancerVars, endpoints>>

\* It reports them after that.
Report ==
  /\ phase = "report" /\ phase' = "dial"
  /\ HandleResolvedAddrs(addrs)
  /\ addrs' = {}
  /\ UNCHANGED endpoints

\* The dial returns at once, or when a connection is ready.
Dialled ==
  /\ phase = "dial" /\ phase' = "open"
  /\ UNCHANGED <<balancerVars, endpoints, addrs>>

\* ClientConn.Close shuts its SubConns down; nothing is reported any more.
CloseConn ==
  /\ actual' = [sc \in SubConn |-> "shutdown"]
  /\ UNCHANGED <<addrToSc, scToSt, cur, count, picker, reports, uses, endpoints, addrs>>

DialFails == phase = "dial" /\ phase' = "failed" /\ CloseConn

\* The group has gone by the time the resolver is closed, which therefore stays
\* in the group; what it is told later goes to a closed connection.
Close == phase = "open" /\ phase' = "closed" /\ CloseConn

SetEndpoints(eps) ==
  /\ Returned
  /\ endpoints' = eps
  /\ IF phase = "closed" THEN UNCHANGED balancerVars ELSE HandleResolvedAddrs(eps)
  /\ UNCHANGED <<phase, addrs>>

Next ==
  \/ Build \/ Report \/ Dialled \/ DialFails \/ Close
  \/ \E eps \in SUBSET Addr : SetEndpoints(eps)
  \/ Connected /\ BalancerStep /\ UNCHANGED clientVars

Spec == Init /\ [][Next]_vars

\* gRPC reports every change in the end.
FairSpec ==
  Spec /\ \A sc \in SubConn :
            WF_vars(Connected /\ HandleSubConnStateChange(sc) /\ UNCHANGED clientVars)

-----------------------------------------------------------------------------

\* The balancer works with no address but those that Endpoints() lists: what
\* addResolver reports outside the group's lock (resolver.go:54) is not out of
\* date, since nobody can set other endpoints until the dial has returned.
OnlyListed == phase = "open" => Resolved \subseteq endpoints

\* An idle SubConn is connected again (balancer.go:164-165): none stays idle.
IdleConnects == \A sc \in SubConn : []<>(actual[sc] # "idle")

\* A SubConn does not stay in the picker once its endpoint is no longer listed.
UnlistedLeaves ==
  \A sc \in SubConn :
    []<>(Connected /\ sc \in Pickable => \E ep \in endpoints : addrToSc[ep] = sc)

=============================================================================
