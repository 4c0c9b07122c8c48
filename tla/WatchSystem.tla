---------------------------- MODULE WatchSystem ----------------------------
(***************************************************************************)
(* The watch client and the watch server, joined by the network: the n-th  *)
(* gRPC stream of the client's stream object s is the call <<s, n>> of the *)
(* server.  Requests and responses of one gRPC stream arrive in order.  A  *)
(* connection may break; each side learns of it at a time of its own, so   *)
(* the server may still serve a call the client has replaced.              *)
(***************************************************************************)
EXTENDS WatchClient, FiniteSets

CONSTANTS
  Cap,     \* the capacity of the server's response channels
  MaxLost  \* the calls the client may leave or lose: bounds the model

ASSUME SystemAssumption ==
  /\ Cap \in Nat \ {0}
  /\ MaxLost \in Nat
  /\ NONE \notin Stream \X Conn

VARIABLES
  watchers, ticking, rlocked, handler, victim, recv, rerr, sws, chan, sendl,
  sctx, told, crashed,  \* the server's, see WatchServer
  taken,                \* how many of the requests sent the server has read
  broken                \* the calls whose connection has failed

Call == Stream \X Conn

Server == INSTANCE WatchServer

serverVars == <<watchers, ticking, rlocked, handler, victim, recv, rerr, sws, chan,
                sendl, sctx, told, crashed>>
netVars    == <<taken, broken>>
systemVars == <<vars, serverVars, netVars>>

SystemInit ==
  /\ Init
  /\ Server!ServerInit
  /\ taken = [c \in Call |-> 0]
  /\ broken = {}

ClientOnly == UNCHANGED <<serverVars, netVars>>
ServerOnly == UNCHANGED <<vars, netVars>>

\* The gRPC stream c was opened, and not given up by either side.
Opened(c)  == c[2] <= stream[c[1]].wc
Severed(c) == c \in broken \/ stream[c[1]].ctx = "cancelled"

\* The calls that are lost, or will be when the CloseStream under way is over.
Closing(s) == \E t \in Thread : op[t] \in {"reqc", "cancel"} /\ arg[t] = s
Lost == {c \in Call : Opened(c) /\ (Severed(c) \/ Closing(c[1]))}

(***************************************************************************)
(* The steps of both sides.                                                *)
(***************************************************************************)
AcceptCall(c) ==
  /\ Opened(c) /\ c \notin broken
  /\ Server!Accept(c)
  /\ ServerOnly

\* recvLoop reads the next request the client wrote.
Request_(c) ==
  LET i == taken[c] + 1  req == sent[c[1]][c[2]] IN
  /\ i \in DOMAIN req
  /\ \/ req[i] = "create" /\ Server!RecvCreate(c, stream[c[1]].id)
     \/ req[i] = "cancel" /\ Server!RecvCancel(c, stream[c[1]].id)
  /\ taken' = [taken EXCEPT ![c] = i]
  /\ UNCHANGED <<vars, broken>>

\* The client leaves: the call's context is done, then its Recv fails.
CallCancelled(c) ==
  /\ Severed(c)
  /\ Server!ContextDone(c)
  /\ ServerOnly

RequestFails(c) ==
  /\ sctx[c] = "done"
  /\ Server!RecvFails(c)
  /\ ServerOnly

\* The client's Recv takes what the server's Send writes: responses in flight
\* would only add to those waiting in the server's channel.  What is written
\* to a gRPC stream the client no longer receives from is lost.
Response_(c) ==
  /\ Server!SendOk(c)
  /\ RecvResp(c[1], c[2], sendl[c].msg.kind)
  /\ UNCHANGED netVars

ResponseLost(c) ==
  /\ serve[c[1]][c[2]].pc \in {"err", "exited"}
  /\ Server!SendOk(c)
  /\ ServerOnly

\* Recv of the client fails once its context is done, its connection has
\* broken or the call is over.
ResponseFails(c) ==
  /\ \/ stream[c[1]].ctx = "cancelled" /\ RecvErr(c[1], c[2], "halt")
     \/ c \in broken /\ RecvErr(c[1], c[2], "retry")
     \/ handler[c] = "done" /\ \E err \in Error : RecvErr(c[1], c[2], err)
  /\ ClientOnly

\* The connections that break are bounded.
Break(c) ==
  /\ Opened(c) /\ c \notin broken
  /\ c[2] < MaxConn /\ Cardinality(Lost) < MaxLost
  /\ broken' = broken \cup {c}
  /\ UNCHANGED <<vars, serverVars, taken>>

-----------------------------------------------------------------------------
\* The application is that of test/client/client.go: it watches and closes
\* streams, under a context nobody cancels.
ClientNext ==
  /\ \/ \E t \in Thread, id \in ID :
          \/ Watch(t, id)
          \/ CloseStream(t, id) /\ Cardinality(Lost) + stream[streams[id]].wc <= MaxLost
     \/ \E t \in Thread : CallStep(t)
     \/ \E s \in Stream : RunStep(s) \/ Dial(s)
     \/ \E c \in Call : ServeStep(c[1], c[2])
  /\ ClientOnly

ServerNext ==
  /\ \/ Server!Tick
     \/ Server!MockStep
     \/ \E c \in Call : Server!ServerStep(c)
  /\ ServerOnly

Network(c) ==
  \/ AcceptCall(c) \/ Request_(c) \/ CallCancelled(c) \/ RequestFails(c)
  \/ Response_(c) \/ ResponseLost(c) \/ ResponseFails(c) \/ Break(c)

\* The run ends with either process.
SystemNext ==
  /\ panicked = "no" /\ crashed = "no"
  /\ ClientNext \/ ServerNext \/ \E c \in Call : Network(c)

SystemSpec == SystemInit /\ [][SystemNext]_systemVars

(***************************************************************************)
(* Fairness: as in the two modules, but only what a first response needs:  *)
(* run(), serveWatchClient, recvLoop outside the lock and sendLoop run     *)
(* when they can, and the network delivers what is written to a connection *)
(* that holds and reports one that has broken.  Nothing is assumed of the  *)
(* store's lock, of the handlers or of mockWatch.                          *)
(***************************************************************************)
Up(A) == panicked = "no" /\ crashed = "no" /\ A

SystemFairness ==
  /\ \A s \in Stream :
       /\ WF_systemVars(Up(RunStep(s) /\ ClientOnly))
       /\ SF_systemVars(Up((DialOk(s) \/ DialHalt(s)) /\ ClientOnly))
  /\ \A c \in Call :
       /\ WF_systemVars(Up(ServeStep(c[1], c[2]) /\ ClientOnly))
       /\ WF_systemVars(Up(Server!WorkStep(c) /\ ServerOnly))
       /\ WF_systemVars(Up(Server!SendStep(c) /\ ServerOnly))
       /\ WF_systemVars(Up(AcceptCall(c) \/ Request_(c)))
       /\ WF_systemVars(Up(Response_(c) \/ ResponseFails(c)))

FairSystemSpec == SystemSpec /\ SystemFairness

-----------------------------------------------------------------------------
\* The system keeps the promise of WatchFeed: in particular the reader's
\* "server created failed" (client.go:64-69) never comes true, whatever the
\* reconnects, the other calls' cancelWatch and the ticks do.
Feed == INSTANCE WatchFeed WITH
  holder <- streams, shut <- nilled, feed <- reader,
  used <- {s \in Stream : stream[s].id # NONE}

FeedSpec == Feed!FeedSpec

\* run() wrote two create requests to the call: its connection was not the
\* first, and Watch's own request was only taken after initReq.
Recreated(c) ==
  \E i, j \in DOMAIN sent[c[1]][c[2]] :
    i < j /\ sent[c[1]][c[2]][i] = "create" /\ sent[c[1]][c[2]][j] = "create"

\* A Canceled is the last response of its gRPC stream: the reader returns at
\* it (client.go:59-62), and serveWatchClient would wait with anything later
\* for a reader that is gone, and report no error to run() any more.  The
\* cancelWatch of another call, a tick and the call's own createWatch meet in
\* the store; a call that is created twice is the exception.
CanceledIsLast ==
  \A c \in Call :
    [](sendl[c].pc = "send" /\ sendl[c].msg.kind = "canceled" =>
         [](\/ chan[c].buf = <<>> /\ (sendl[c].pc = "send" => sendl[c].msg.kind = "canceled")
            \/ Recreated(c)))

\* A reader that waits for its first response gets one, however often the
\* connection breaks first and whatever the server's lock does: createWatch
\* offers Created before it asks for the lock.
FirstResponse ==
  \A s \in Stream :
    reader[s] = "fresh" ~>
      \/ reader[s] # "fresh"
      \/ stream[s].ctx = "cancelled"
      \/ panicked # "no" \/ crashed # "no"

\* watchpb.proto:66 says that Canceled is the server's answer to the client's
\* request to cancel.
CanceledWasAsked ==
  \A c \in Call :
    serve[c[1]][c[2]].hand = "canceled" =>
      \E n \in Conn : \E i \in DOMAIN sent[c[1]][n] : sent[c[1]][n][i] = "cancel"

=============================================================================
