------------------------- MODULE WatchSystemProofs -------------------------
(***************************************************************************)
(* Proofs about WatchSystem, for any sets of threads, ids and streams, any *)
(* number of reconnects and any capacity of the server's channels: each    *)
(* step of the system is a step of the client and one of the server, so    *)
(* what is proved of either holds here, and the system implements          *)
(* WatchFeed.  SystemInv, below, is what the two invariants lack for that: *)
(* how the reader of a stream and the calls that serve it are tied.        *)
(***************************************************************************)
EXTENDS WatchSystem, WatchClientProofs

ServerProofs == INSTANCE WatchServerProofs

\* The reader of s has had its first response.
Started(s) == reader[s] \notin {"none", "fresh"}

\* One call of Watch waits for a stream's run(), and starts its reader.
WaitOK ==
  \A t \in Thread : op[t] = "watch" =>
    /\ reader[arg[t]] = "none"
    /\ \A u \in Thread : op[u] = "watch" /\ arg[u] = arg[t] => u = t

\* Nobody reads a stream that does not exist yet, and nothing was sent on it.
UnusedOK ==
  \A s \in Stream :
    stream[s].id = NONE => reader[s] = "none" /\ \A n \in Conn : sent[s][n] = <<>>

\* The server serves no call the client has not opened.
CallOK ==
  \A c \in Call :
    /\ handler[c] # "none" => Opened(c)
    /\ told[c] # {} => handler[c] # "none"

\* Once a Created was sent on a gRPC stream, the client receives again only
\* after the reader has had a response; what it takes before is that Created.
HeardOK ==
  \A s \in Stream, n \in Conn :
    /\ serve[s][n].pc = "recv" /\ told[<<s, n>>] # {} => Started(s)
    /\ serve[s][n].pc = "resp" /\ serve[s][n].hand # "created" => Started(s)

NeverFails == \A s \in Stream : reader[s] # "failed"

Entries(c)  == ServerProofs!Entries(c)
Creating(c) == ServerProofs!Creating(c)

\* recvLoop of c has read a create request.
HasRead(c) ==
  \E i \in DOMAIN sent[c[1]][c[2]] : i <= taken[c] /\ sent[c[1]][c[2]][i] = "create"

\* No entry of the store is of c, and none will be before another create.
Still(c) == Entries(c) = {} /\ ~Creating(c)

\* A call that is created once has nothing before that, one entry at most after
\* it, and neither an entry nor anything to send behind a Canceled.
OneLife(c) ==
  /\ ~HasRead(c) => Still(c) /\ chan[c].buf = <<>> /\ sendl[c].pc # "send"
  /\ Creating(c) => Entries(c) = {}
  /\ \A i, j \in Entries(c) : i = j
  /\ \A i \in DOMAIN chan[c].buf :
       chan[c].buf[i].kind = "canceled" => Still(c) /\ i = Len(chan[c].buf)
  /\ sendl[c].pc = "send" /\ sendl[c].msg.kind = "canceled" => Still(c) /\ chan[c].buf = <<>>

LastOK ==
  /\ taken \in [Call -> Nat]
  /\ \A c \in Call : Recreated(c) \/ OneLife(c)

SystemInv ==
  /\ IInv
  /\ ServerProofs!IInv
  /\ WaitOK
  /\ UnusedOK
  /\ CallOK
  /\ HeardOK
  /\ NeverFails
  /\ LastOK

(***************************************************************************)
(* The steps of the client, sorted by what they do to the map, the readers *)
(* and the goroutines that serve them.                                     *)
(***************************************************************************)
SameObjects == \A x \in Stream : stream'[x].id = stream[x].id /\ stream'[x].wc = stream[x].wc

\* Watch makes s, and the thread t waits for its run().
Subscribes(t, id, s) ==
  /\ ~nilled /\ streams[id] = NONE /\ stream[s].id = NONE
  /\ streams' = [streams EXCEPT ![id] = s]
  /\ stream'[s].id = id /\ stream'[s].wc = stream[s].wc
  /\ \A x \in Stream : x # s => stream'[x] = stream[x]
  /\ op' = [op EXCEPT ![t] = "watch"] /\ arg' = [arg EXCEPT ![t] = s]
  /\ UNCHANGED <<nilled, serve, sent, reader>>

\* The application starts to read s.
Starts(t, s) ==
  /\ op[t] = "watch" /\ arg[t] = s
  /\ SameObjects
  /\ reader' = [reader EXCEPT ![s] = "fresh"]
  /\ op' = [op EXCEPT ![t] = "idle"]
  /\ UNCHANGED <<nilled, streams, arg, serve, sent>>

\* run() has a new gRPC stream.
Connects(s) ==
  LET n == stream[s].wc + 1 IN
  /\ n \in Conn
  /\ \A x \in Stream : stream'[x].id = stream[x].id
  /\ stream'[s].wc = n
  /\ \A x \in Stream : x # s => stream'[x].wc = stream[x].wc
  /\ serve' = [serve EXCEPT ![s][n].pc = "recv"]
  /\ UNCHANGED <<nilled, streams, op, arg, sent, reader>>

Writes(s) ==
  /\ stream[s].id # NONE
  /\ SameObjects
  /\ \A x \in Stream : x # s => sent'[x] = sent[x]
  /\ UNCHANGED <<nilled, streams, op, arg, serve, reader>>

\* The reader of s gets a response; or run() tells it that the stream ends.
Reads(s, n) ==
  /\ PutResp(s, n)
  /\ UNCHANGED <<nilled, streams, op, arg, stream, sent>>

Stops(s) ==
  /\ reader[s] \in {"fresh", "created"}
  /\ reader' = [reader EXCEPT ![s] = "stopped"]
  /\ SameObjects
  /\ UNCHANGED <<nilled, streams, op, arg, serve, sent>>

\* An entry of the map goes.
Forgets ==
  /\ \E id \in ID : streams[id] # NONE /\ streams' = [streams EXCEPT ![id] = NONE]
  /\ SameObjects
  /\ \A t \in Thread : op'[t] = "watch" => op[t] = "watch" /\ arg'[t] = arg[t]
  /\ UNCHANGED <<nilled, serve, sent, reader>>

\* Nothing of this; at most a serve goroutine goes on to its error or ends.
Stirs ==
  /\ SameObjects
  /\ \A t \in Thread : op'[t] = "watch" => op[t] = "watch" /\ arg'[t] = arg[t]
  /\ \A s \in Stream, n \in Conn : serve'[s][n] = serve[s][n] \/ serve'[s][n].pc \in {"err", "exited"}
  /\ UNCHANGED <<nilled, streams, sent, reader>>

Kinds ==
  \/ \E t \in Thread, id \in ID, s \in Stream : Subscribes(t, id, s)
  \/ \E t \in Thread, s \in Stream : Starts(t, s)
  \/ \E s \in Stream : Connects(s) \/ Writes(s) \/ Stops(s)
  \/ \E s \in Stream, n \in Conn : Reads(s, n)
  \/ Forgets
  \/ Stirs

\* Every step of the client, and every failure of its Recv, is of one of these
\* kinds.
LEMMA SortedSteps ==
  ASSUME IInv,
         \/ ClientNext
         \/ \E s \in Stream, n \in Conn, err \in Error : RecvErr(s, n, err)
         \/ UNCHANGED vars
  PROVE  Kinds
<1>1. TypeOK /\ FreshOK /\ ArgOK /\ MapOK /\ MuOK
  BY DEF IInv
<1>2. /\ stream \in [Stream -> StreamObject]
      /\ streams \in [ID -> Stream \cup {NONE}]
      /\ arg \in [Thread -> Stream \cup {NONE}]
      /\ op \in [Thread -> CallState]
      /\ serve \in [Stream -> [Conn -> [pc : ServeState, hand : Response \cup Error \cup {NONE}]]]
      /\ sent \in [Stream -> [Conn -> Seq(Request)]]
  BY <1>1 DEF TypeOK
<1>3. stream' = stream => SameObjects
  BY DEF SameObjects
<1>4. serve' = serve =>
        \A s \in Stream, n \in Conn : serve'[s][n] = serve[s][n] \/ serve'[s][n].pc \in {"err", "exited"}
  OBVIOUS
<1> DEFINE Calls == \A t \in Thread : op'[t] = "watch" => op[t] = "watch" /\ arg'[t] = arg[t]
<1>5. op' = op /\ arg' = arg => Calls
  OBVIOUS
<1>6. \A t \in Thread, pc \in CallState : pc # "watch" /\ op' = [op EXCEPT ![t] = pc]
        /\ (arg' = arg \/ \E s : arg' = [arg EXCEPT ![t] = s]) => Calls
  BY <1>2
<1>7. ASSUME NEW t \in Thread, NEW id, WatchRefused(t, id) PROVE Stirs
  <2>1. Calls
    BY <1>7, <1>6 DEF WatchRefused, Goto, CallState
  <2> QED
    BY <1>7, <2>1, <1>3, <1>4 DEF WatchRefused, Stirs
<1>8. ASSUME NEW t \in Thread, NEW id \in ID, NEW parent \in {"live", "cancelled"},
             NewWatcherGrpcStream(t, id, parent)
      PROVE  \E s \in Stream : Subscribes(t, id, s)
  <2>1. PICK s \in Stream : NewObject(s, t, id)
    BY <1>8, <1>1, NewStream
  <2> QED
    BY <1>8, <2>1 DEF NewWatcherGrpcStream, NewObject, Goto, Subscribes
<1>9. ASSUME NEW t \in Thread, NEW id \in ID, CloseStream(t, id) PROVE Stirs
  <2>1. Calls
    BY <1>9, <1>6 DEF CloseStream, Goto, CallState
  <2> QED
    BY <1>9, <2>1, <1>3, <1>4 DEF CloseStream, Stirs
<1>10. ASSUME NEW t \in Thread, WatchSent(t) PROVE \E s \in Stream : Starts(t, s)
  <2>1. arg[t] \in Stream
    BY <1>10, <1>1 DEF WatchSent, ArgOK
  <2>2. SameObjects
    BY <1>10, <1>2, <2>1 DEF WatchSent, SameObjects, StreamObject
  <2> QED
    BY <1>10, <2>1, <2>2 DEF WatchSent, Starts, Goto, watcherVars
<1>11. ASSUME NEW t \in Thread, WatchCtxDone(t) \/ WatchDonec(t) \/ CloseRange(t) PROVE Stirs
  <2>1. Calls
    BY <1>11, <1>6 DEF WatchCtxDone, WatchDonec, CloseRange, Goto, CallState
  <2> QED
    BY <1>11, <2>1, <1>3, <1>4 DEF WatchCtxDone, WatchDonec, CloseRange, Stirs, watcherVars
<1>12. ASSUME NEW t \in Thread, CancelSent(t) \/ CloseCancel(t) PROVE Stirs
  <2>1. Calls
    BY <1>12, <1>6 DEF CancelSent, CloseCancel, Goto, CallState
  <2>2. arg[t] \in Stream
    BY <1>12, <1>1 DEF CancelSent, CloseCancel, ArgOK
  <2>3. SameObjects
    <3>1. CASE CancelSent(t)
      BY <3>1, <1>2, <2>2 DEF CancelSent, SameObjects, StreamObject
    <3>2. CASE CloseCancel(t)
      BY <3>2, <1>2, <2>2 DEF CloseCancel, SameObjects, StreamObject
    <3> QED
      BY <1>12, <3>1, <3>2
  <2> QED
    BY <1>12, <2>1, <2>3, <1>4 DEF CancelSent, CloseCancel, Stirs, watcherVars
<1>13. ASSUME NEW t \in Thread, CloseDonec(t) PROVE Stirs \/ Forgets
  <2>1. arg[t] \in Stream /\ stream[arg[t]].id \in ID
    BY <1>13, <1>1 DEF CloseDonec, ArgOK
  <2>2. stream' = stream \/ stream' = [stream EXCEPT ![arg[t]].donec = "closed"]
    BY <1>13 DEF CloseDonec
  <2>3. SameObjects
    <3>1. CASE stream' = [stream EXCEPT ![arg[t]].donec = "closed"]
      BY <3>1, <1>2, <2>1 DEF SameObjects, StreamObject
    <3> QED
      BY <1>3, <2>2, <3>1
  <2>4. Calls
    BY <1>13, <1>5, <1>6 DEF CloseDonec, Goto, CallState
  <2>5. serve' = serve /\ sent' = sent /\ reader' = reader
    BY <1>13 DEF CloseDonec
  <2>6. CASE streams' = streams /\ nilled' = nilled
    BY <2>3, <2>4, <2>5, <2>6, <1>4 DEF Stirs
  <2>7. CASE mu = t /\ streams' = [streams EXCEPT ![stream[arg[t]].id] = NONE] /\ nilled' = nilled
    <3>1. streams[stream[arg[t]].id] # NONE
      BY <1>13, <1>1, <2>1, <2>7, ClientAssumption DEF CloseDonec, MuOK
    <3> QED
      BY <2>1, <2>3, <2>4, <2>5, <2>7, <3>1 DEF Forgets
  <2> QED
    BY <1>13, <2>6, <2>7 DEF CloseDonec, watcherVars
<1>14. ASSUME NEW s \in Stream,
              BackoffOver(s) \/ RunErr(s) \/ RunDone(s) \/ DialUnavailable(s) \/ DialHalt(s)
       PROVE  Stirs
  <2>1. SameObjects
    <3>1. CASE BackoffOver(s)
      BY <3>1, <1>2 DEF BackoffOver, SameObjects, StreamObject
    <3>2. CASE RunErr(s)
      BY <3>2, <1>2 DEF RunErr, SameObjects, StreamObject
    <3>3. CASE RunDone(s)
      BY <3>3, <1>2 DEF RunDone, SameObjects, StreamObject
    <3>4. CASE DialUnavailable(s)
      BY <3>4, <1>2 DEF DialUnavailable, SameObjects, StreamObject
    <3>5. CASE DialHalt(s)
      BY <3>5, <1>2 DEF DialHalt, SameObjects, StreamObject
    <3> QED
      BY <1>14, <3>1, <3>2, <3>3, <3>4, <3>5
  <2> QED
    BY <1>14, <2>1, <1>4, <1>5 DEF BackoffOver, RunErr, RunDone, DialUnavailable, DialHalt, Stirs,
       watcherVars, callVars
<1>15. ASSUME NEW s \in Stream, Send(s) PROVE Writes(s)
  <2>1. SameObjects
    BY <1>15, <1>2 DEF Send, SameObjects, StreamObject
  <2>2. stream[s].id # NONE
    BY <1>15, <1>1 DEF Send, FreshOK
  <2>3. \A x \in Stream : x # s => sent'[x] = sent[x]
    BY <1>15, <1>2 DEF Send
  <2> QED
    BY <1>15, <2>1, <2>2, <2>3 DEF Send, Writes, watcherVars, callVars
<1>16. ASSUME NEW s \in Stream, Tell(s) PROVE Stops(s)
  <2>1. SameObjects
    BY <1>16, <1>2 DEF Tell, SameObjects, StreamObject
  <2> QED
    BY <1>16, <2>1 DEF Tell, Stops, Reading, watcherVars, callVars
<1>17. ASSUME NEW s \in Stream, Leave(s) PROVE Stirs \/ Forgets
  <2>1. SameObjects
    <3>1. CASE stream' = stream
      BY <3>1, <1>3
    <3>2. CASE stream' = [stream EXCEPT ![s].donec = "closed", ![s].ctx = "cancelled", ![s].run = "exited"]
      BY <3>2, <1>2 DEF SameObjects, StreamObject
    <3> QED
      BY <1>17, <3>1, <3>2 DEF Leave
  <2>2. /\ nilled' = nilled /\ serve' = serve /\ sent' = sent /\ reader' = reader
        /\ op' = op /\ arg' = arg
    BY <1>17 DEF Leave, callVars
  <2>3. CASE streams' = streams
    BY <2>1, <2>2, <2>3, <1>4, <1>5 DEF Stirs
  <2>4. CASE streams' # streams
    <3>1. ~nilled /\ stream[s].donec = "open" /\ streams' = [streams EXCEPT ![stream[s].id] = NONE]
      BY <1>17, <2>4 DEF Leave
    <3>2. stream[s].id # NONE /\ stream[s].id \in ID
      BY <1>17, <1>1, <1>2 DEF Leave, FreshOK, StreamObject
    <3>3. streams[stream[s].id] = s
      BY <1>1, <3>1, <3>2 DEF MapOK, LiveIsMapped, Live
    <3>4. s # NONE
      BY ClientAssumption
    <3> QED
      BY <2>1, <2>2, <3>1, <3>2, <3>3, <3>4, <1>5 DEF Forgets
  <2> QED
    BY <2>3, <2>4
<1>18. ASSUME NEW s \in Stream, DialOk(s) PROVE Connects(s)
  <2>1. PICK n \in Conn : n = stream[s].wc + 1
    BY <1>18 DEF DialOk
  <2>2. PICK x : x = [stream[s] EXCEPT !.wc = n, !.run = IF n = 1 THEN "select" ELSE "send",
                                       !.req = IF n = 1 THEN NONE ELSE "create"]
    OBVIOUS
  <2>3. stream' = [stream EXCEPT ![s] = x]
    BY <1>18, <1>2, <2>1, <2>2 DEF DialOk
  <2>4. x.id = stream[s].id /\ x.wc = n
    BY <1>2, <2>2 DEF StreamObject
  <2>5. /\ \A y \in Stream : stream'[y].id = stream[y].id
        /\ stream'[s].wc = n
        /\ \A y \in Stream : y # s => stream'[y].wc = stream[y].wc
    BY <1>2, <2>3, <2>4
  <2> QED
    BY <1>18, <2>1, <2>5 DEF DialOk, Connects, watcherVars, callVars
<1>19. ASSUME NEW s \in Stream, NEW n \in Conn, PutResp(s, n) PROVE Reads(s, n)
  BY <1>19 DEF PutResp, Reads, watcherVars, callVars
<1>20. ASSUME NEW s \in Stream, NEW n \in Conn,
              PutErr(s, n) \/ ServeDonec(s, n) \/ \E err \in Error : RecvErr(s, n, err)
       PROVE  Stirs
  <2> DEFINE Ends == \A y \in Stream, m \in Conn :
                 serve'[y][m] = serve[y][m] \/ serve'[y][m].pc \in {"err", "exited"}
  <2>1. ASSUME NEW err, RecvErr(s, n, err) PROVE Ends
    <3>1. serve' = [serve EXCEPT ![s][n] = [pc |-> "err", hand |-> err]]
      BY <2>1 DEF RecvErr
    <3> QED
      BY <1>2, <3>1
  <2>2. ASSUME PutErr(s, n) \/ ServeDonec(s, n) PROVE Ends
    <3>1. serve' = [serve EXCEPT ![s][n] = [pc |-> "exited", hand |-> NONE]]
      BY <2>2 DEF PutErr, ServeDonec
    <3> QED
      BY <1>2, <3>1
  <2>3. SameObjects
    <3>1. CASE PutErr(s, n)
      BY <3>1, <1>2 DEF PutErr, SameObjects, StreamObject
    <3> QED
      BY <1>20, <3>1, <1>3 DEF ServeDonec, RecvErr
  <2> QED
    BY <1>20, <2>1, <2>2, <2>3, <1>5 DEF PutErr, ServeDonec, RecvErr, Stirs, watcherVars, callVars
<1>21. CASE UNCHANGED vars
  BY <1>21, <1>3, <1>4, <1>5 DEF vars, Stirs, Kinds
<1>22. ASSUME NEW t \in Thread, WatchAgain(t) \/ \E id \in ID : Watch(t, id) PROVE Kinds
  <2>1. \E id \in ID :
          \/ WatchRefused(t, id)
          \/ \E parent \in {"live", "cancelled"} : NewWatcherGrpcStream(t, id, parent)
    BY <1>22, <1>1, WatchCases
  <2> QED
    BY <2>1, <1>7, <1>8 DEF Kinds
<1>23. ASSUME NEW t \in Thread, NEW id \in ID, CloseStream(t, id) PROVE Kinds
  BY <1>23, <1>9 DEF Kinds
<1>24. ASSUME NEW t \in Thread, CallStep(t) PROVE Kinds
  BY <1>24, <1>10, <1>11, <1>12, <1>13, <1>22 DEF CallStep, Kinds
<1>25. ASSUME NEW s \in Stream, RunStep(s) \/ Dial(s) PROVE Kinds
  BY <1>25, <1>14, <1>15, <1>16, <1>17, <1>18 DEF RunStep, Dial, Kinds
<1>26. ASSUME NEW s \in Stream, NEW n \in Conn,
              ServeStep(s, n) \/ \E err \in Error : RecvErr(s, n, err)
       PROVE  Kinds
  BY <1>26, <1>19, <1>20 DEF ServeStep, Kinds
<1>27. \A c \in Call : c[1] \in Stream /\ c[2] \in Conn
  BY DEF Call
<1> QED
  BY <1>21, <1>22, <1>23, <1>24, <1>25, <1>26, <1>27 DEF ClientNext

(***************************************************************************)
(* The steps of the system are steps of the client and of the server.      *)
(***************************************************************************)

\* What WatchServer assumes of its constants.
LEMMA ServerAssumed == ServerProofs!ServerAssumption
  BY SystemAssumption, ClientAssumption DEF ServerProofs!ServerAssumption, Call

\* What the client receives is a response, and its requests are about an id.
LEMMA Messages ==
  ASSUME SystemInv, NEW c \in Call
  PROVE  /\ c[1] \in Stream /\ c[2] \in Conn /\ c = <<c[1], c[2]>>
         /\ sendl[c].pc = "send" =>
              sendl[c].msg.kind \in Response /\ sendl[c].msg \in ServerProofs!ResponseOf
         /\ DOMAIN sent[c[1]][c[2]] # {} => stream[c[1]].id \in ID
<1>1. c[1] \in Stream /\ c[2] \in Conn /\ c = <<c[1], c[2]>>
  BY DEF Call
<1>2. ASSUME sendl[c].pc = "send"
      PROVE  sendl[c].msg.kind \in Response /\ sendl[c].msg \in ServerProofs!ResponseOf
  <2>1. sendl[c].msg \in ServerProofs!ResponseOf
    BY <1>2 DEF SystemInv, ServerProofs!IInv, ServerProofs!BusyOK
  <2> QED
    BY <2>1 DEF ServerProofs!ResponseOf, Response
<1>3. ASSUME DOMAIN sent[c[1]][c[2]] # {} PROVE stream[c[1]].id \in ID
  <2>1. stream[c[1]].id \in ID \cup {NONE}
    BY <1>1 DEF SystemInv, IInv, TypeOK, StreamObject
  <2>2. stream[c[1]].id # NONE
    BY <1>1, <1>3 DEF SystemInv, UnusedOK
  <2> QED
    BY <2>1, <2>2
<1> QED
  BY <1>1, <1>2, <1>3

\* A step of the system is a step of the client, or leaves it alone.
LEMMA ClientSteps == SystemInv /\ [SystemNext]_systemVars => [Next]_vars
<1> SUFFICES ASSUME SystemInv, [SystemNext]_systemVars PROVE [Next]_vars
  OBVIOUS
<1>1. ASSUME ClientNext, panicked = "no" PROVE Next
  <2>1. \A c \in Call : c[1] \in Stream /\ c[2] \in Conn
    BY DEF Call
  <2> QED
    BY <1>1, <2>1 DEF ClientNext, Next, Application
<1>2. ASSUME NEW c \in Call, Network(c), panicked = "no" PROVE [Next]_vars
  <2>1. CASE Response_(c)
    <3>1. sendl[c].pc = "send"
      BY <2>1 DEF Response_, Server!SendOk
    <3> QED
      BY <1>2, <2>1, <3>1, Messages DEF Response_, Next, Recv
  <2>2. CASE ResponseFails(c)
    BY <1>2, <2>2, Messages DEF ResponseFails, Next, Recv, Error
  <2> QED
    BY <1>2, <2>1, <2>2 DEF Network, AcceptCall, Request_, CallCancelled, RequestFails, ResponseLost,
       Break, ServerOnly
<1> QED
  BY <1>1, <1>2 DEF SystemNext, ServerNext, ServerOnly, systemVars

\* And so for the server.
LEMMA ServerSteps == SystemInv /\ [SystemNext]_systemVars => [Server!ServerNext]_(Server!serverVars)
<1> SUFFICES ASSUME SystemInv, [SystemNext]_systemVars PROVE [Server!ServerNext]_(Server!serverVars)
  OBVIOUS
<1>1. UNCHANGED serverVars => UNCHANGED Server!serverVars
  BY DEF serverVars, Server!serverVars
<1>2. ASSUME ServerNext, crashed = "no" PROVE Server!ServerNext
  BY <1>2 DEF ServerNext, Server!ServerNext
<1>3. ASSUME NEW c \in Call, Network(c), crashed = "no" PROVE [Server!ServerNext]_(Server!serverVars)
  <2>1. CASE Request_(c)
    <3>1. DOMAIN sent[c[1]][c[2]] # {}
      BY <2>1 DEF Request_
    <3> QED
      BY <1>3, <2>1, <3>1, Messages DEF Request_, Server!ServerNext, Server!Client
  <2>2. CASE AcceptCall(c) \/ CallCancelled(c) \/ RequestFails(c) \/ Response_(c) \/ ResponseLost(c)
    BY <1>3, <2>2 DEF AcceptCall, CallCancelled, RequestFails, Response_, ResponseLost,
       Server!ServerNext, Server!Client
  <2>3. CASE ResponseFails(c) \/ Break(c)
    BY <2>3, <1>1 DEF ResponseFails, Break, ClientOnly
  <2> QED
    BY <1>3, <2>1, <2>2, <2>3 DEF Network
<1> QED
  BY <1>1, <1>2, <1>3 DEF SystemNext, ClientNext, ClientOnly, systemVars

\* WatchServerProofs is about the same server.
LEMMA SameServer ==
  /\ Server!ServerInit => ServerProofs!ServerInit
  /\ [Server!ServerNext]_(Server!serverVars) => [ServerProofs!ServerNext]_(ServerProofs!serverVars)
<1>1. Server!ServerInit => ServerProofs!ServerInit
  BY DEF Server!ServerInit, ServerProofs!ServerInit
<1>2. UNCHANGED Server!serverVars => UNCHANGED ServerProofs!serverVars
  BY DEF Server!serverVars, ServerProofs!serverVars
<1>3. Server!ServerNext => ServerProofs!ServerNext
  BY DEF Server!ServerNext, Server!Tick, Server!MockStep, Server!TickSend, Server!TickOver,
     Server!ServerStep, Server!HandlerStep, Server!WorkStep, Server!LockStep, Server!SendStep,
     Server!Client, Server!HandlerErr, Server!HandlerDone, Server!HandlerCancel,
     Server!HandlerClose, Server!HandlerReturn, Server!CreateOffer, Server!AssignWatchID,
     Server!CancelAnswer, Server!HandlerLock, Server!CreateRegister, Server!CancelLock,
     Server!SendTake, Server!SendClosec, Server!SendFails, Server!Accept, Server!ContextDone,
     Server!SendOk, Server!RecvCreate, Server!RecvCancel, Server!RecvEnd, Server!RecvFails,
     Server!Locked, Server!CanLock, Server!Put, Server!PutPanics, Server!CancelEntry,
     Server!CancelEntryPanics, Server!callVars, Server!storeVars, Server!serverVars,
     ServerProofs!ServerNext, ServerProofs!Tick, ServerProofs!MockStep, ServerProofs!TickSend,
     ServerProofs!TickOver, ServerProofs!ServerStep, ServerProofs!HandlerStep,
     ServerProofs!WorkStep, ServerProofs!LockStep, ServerProofs!SendStep, ServerProofs!Client,
     ServerProofs!HandlerErr, ServerProofs!HandlerDone, ServerProofs!HandlerCancel,
     ServerProofs!HandlerClose, ServerProofs!HandlerReturn, ServerProofs!CreateOffer,
     ServerProofs!AssignWatchID, ServerProofs!CancelAnswer, ServerProofs!HandlerLock,
     ServerProofs!CreateRegister, ServerProofs!CancelLock, ServerProofs!SendTake,
     ServerProofs!SendClosec, ServerProofs!SendFails, ServerProofs!Accept,
     ServerProofs!ContextDone, ServerProofs!SendOk, ServerProofs!RecvCreate,
     ServerProofs!RecvCancel, ServerProofs!RecvEnd, ServerProofs!RecvFails, ServerProofs!Locked,
     ServerProofs!CanLock, ServerProofs!Put, ServerProofs!PutPanics, ServerProofs!CancelEntry,
     ServerProofs!CancelEntryPanics, ServerProofs!callVars, ServerProofs!storeVars,
     ServerProofs!serverVars
<1> QED
  BY <1>1, <1>2, <1>3

(***************************************************************************)
(* The invariant.                                                          *)
(***************************************************************************)

\* A step concerns the client, with nothing written to a call, or a response.
LEMMA SystemCases ==
  ASSUME SystemInv, [SystemNext]_systemVars
  PROVE  (Kinds /\ told' = told) \/ \E c \in Call : Response_(c) \/ ResponseLost(c)
<1>1. IInv
  BY DEF SystemInv
<1>2. ASSUME ClientNext PROVE Kinds /\ told' = told
  BY <1>1, <1>2, SortedSteps DEF ClientNext, ClientOnly, serverVars
<1>3. ASSUME ServerNext PROVE Kinds /\ told' = told
  <2>1. UNCHANGED vars
    BY <1>3 DEF ServerNext, ServerOnly
  <2>2. ASSUME Server!Tick \/ Server!MockStep PROVE told' = told
    BY <2>2 DEF Server!Tick, Server!MockStep, Server!TickSend, Server!TickOver, Server!callVars
  <2>3. ASSUME NEW c \in Call, Server!ServerStep(c) PROVE told' = told
    BY <2>3 DEF Server!ServerStep, Server!HandlerStep, Server!WorkStep, Server!LockStep,
       Server!SendStep, Server!HandlerErr, Server!HandlerDone, Server!HandlerCancel,
       Server!HandlerClose, Server!HandlerReturn, Server!CreateOffer, Server!AssignWatchID,
       Server!CancelAnswer, Server!HandlerLock, Server!CreateRegister, Server!CancelLock,
       Server!SendTake, Server!SendClosec, Server!SendFails
  <2> QED
    BY <1>1, <1>3, <2>1, <2>2, <2>3, SortedSteps DEF ServerNext
<1>4. ASSUME NEW c \in Call, Network(c), ~Response_(c), ~ResponseLost(c)
      PROVE  Kinds /\ told' = told
  <2>1. CASE ResponseFails(c)
    <3>1. \E s \in Stream, n \in Conn, err \in Error : RecvErr(s, n, err)
      BY <2>1, Messages DEF ResponseFails, Error
    <3> QED
      BY <1>1, <2>1, <3>1, SortedSteps DEF ResponseFails, ClientOnly, serverVars
  <2>2. CASE ~ResponseFails(c)
    <3>1. UNCHANGED vars
      BY <1>4, <2>2 DEF Network, AcceptCall, Request_, CallCancelled, RequestFails, Break, ServerOnly
    <3>2. told' = told
      BY <1>4, <2>2 DEF Network, AcceptCall, Request_, CallCancelled, RequestFails, Break, serverVars,
         Server!Accept, Server!RecvCreate, Server!RecvCancel, Server!ContextDone, Server!RecvFails
    <3> QED
      BY <1>1, <3>1, <3>2, SortedSteps
  <2> QED
    BY <2>1, <2>2
<1>5. CASE UNCHANGED systemVars
  BY <1>1, <1>5, SortedSteps DEF systemVars, serverVars
<1> QED
  BY <1>2, <1>3, <1>4, <1>5 DEF SystemNext

\* What the steps that concern a response do.
LEMMA ResponseEffect ==
  ASSUME SystemInv, NEW c \in Call, Response_(c) \/ ResponseLost(c)
  PROVE  /\ UNCHANGED <<nilled, streams, op, arg, stream, sent, reader>>
         /\ sendl[c].pc = "send"
         /\ \A d \in Call : d # c => told'[d] = told[d]
         /\ \/ /\ serve[c[1]][c[2]].pc \in {"err", "exited"} /\ serve' = serve
            \/ /\ serve[c[1]][c[2]].pc = "recv"
               /\ serve' = [serve EXCEPT ![c[1]][c[2]] = [pc |-> "resp", hand |-> sendl[c].msg.kind]]
<1>1. UNCHANGED <<nilled, streams, op, arg, stream, sent, reader>>
  BY DEF Response_, ResponseLost, RecvResp, ServerOnly, vars, watcherVars, callVars
<1>2. sendl[c].pc = "send" /\ \A d \in Call : d # c => told'[d] = told[d]
  <2>1. told \in [Call -> SUBSET ID]
    BY DEF SystemInv, ServerProofs!IInv, ServerProofs!ServerTypeOK
  <2>2. Server!SendOk(c)
    BY DEF Response_, ResponseLost
  <2> QED
    BY <2>1, <2>2 DEF Server!SendOk
<1> QED
  BY <1>1, <1>2 DEF Response_, ResponseLost, RecvResp, ServerOnly, vars

\* What the reader has seen when it takes a response.
LEMMA ReaderSees ==
  ASSUME SystemInv, NEW s \in Stream, NEW n \in Conn, Reads(s, n)
  PROVE  /\ reader[s] \in {"fresh", "created"}
         /\ reader'[s] \in {"created", "stopped"}
         /\ \A x \in Stream : x # s => reader'[x] = reader[x]
         /\ serve' = [serve EXCEPT ![s][n] = [pc |-> "recv", hand |-> NONE]]
<1>1. serve[s][n].pc = "resp" /\ reader[s] \in {"fresh", "created"}
  BY DEF Reads, PutResp, Reading
<1>2. reader \in [Stream -> ReaderState]
  BY DEF SystemInv, IInv, TypeOK
<1>3. reader' = [reader EXCEPT ![s] = ReaderAfter(reader[s], serve[s][n].hand)]
  BY <1>2 DEF Reads, PutResp
<1>4. serve[s][n].hand = "update" => reader[s] # "fresh"
  BY <1>1 DEF SystemInv, HeardOK, Started
<1>5. ReaderAfter(reader[s], serve[s][n].hand) \in {"created", "stopped"}
  BY <1>4 DEF ReaderAfter
<1> QED
  BY <1>1, <1>2, <1>3, <1>5 DEF Reads, PutResp

\* A reader starts once: Watch makes a new object, and its run() takes the
\* request of the one call that waits for it.
LEMMA WaitStep == SystemInv /\ [SystemNext]_systemVars => WaitOK'
<1> SUFFICES ASSUME SystemInv, [SystemNext]_systemVars PROVE WaitOK'
  OBVIOUS
<1>1. /\ op \in [Thread -> CallState] /\ arg \in [Thread -> Stream \cup {NONE}]
      /\ reader \in [Stream -> ReaderState]
  BY DEF SystemInv, IInv, TypeOK
<1>2. \A t \in Thread : op[t] = "watch" =>
        /\ arg[t] \in Stream /\ stream[arg[t]].id # NONE /\ reader[arg[t]] = "none"
        /\ \A u \in Thread : op[u] = "watch" /\ arg[u] = arg[t] => u = t
  BY ClientAssumption DEF SystemInv, IInv, ArgOK, WaitOK
<1>3. ASSUME NEW t \in Thread, NEW id \in ID, NEW s \in Stream, Subscribes(t, id, s) PROVE WaitOK'
  <2>1. reader[s] = "none" /\ reader' = reader
    BY <1>3 DEF Subscribes, SystemInv, UnusedOK
  <2>2. \A u \in Thread : op'[u] = "watch" => u = t \/ (op[u] = "watch" /\ arg'[u] = arg[u] /\ arg[u] # s)
    BY <1>1, <1>2, <1>3 DEF Subscribes
  <2>3. arg'[t] = s
    BY <1>1, <1>3 DEF Subscribes
  <2> QED
    BY <1>2, <2>1, <2>2, <2>3 DEF WaitOK
<1>4. ASSUME \A t \in Thread : op'[t] = "watch" =>
               op[t] = "watch" /\ arg'[t] = arg[t] /\ reader'[arg[t]] = reader[arg[t]]
      PROVE  WaitOK'
  BY <1>2, <1>4 DEF WaitOK
<1>5. ASSUME NEW t \in Thread, NEW s \in Stream, Starts(t, s) PROVE WaitOK'
  <2>1. ASSUME NEW u \in Thread, op'[u] = "watch"
        PROVE  op[u] = "watch" /\ arg'[u] = arg[u] /\ reader'[arg[u]] = reader[arg[u]]
    <3>1. u # t /\ op[u] = "watch"
      BY <1>1, <1>5, <2>1 DEF Starts
    <3>2. arg[u] # s /\ arg[u] \in Stream
      BY <1>2, <1>5, <3>1 DEF Starts
    <3> QED
      BY <1>1, <1>5, <3>1, <3>2 DEF Starts
  <2> QED
    BY <1>4, <2>1
<1>6. ASSUME NEW s \in Stream, NEW n \in Conn, Reads(s, n) PROVE WaitOK'
  <2>1. \A t \in Thread : op[t] = "watch" => reader'[arg[t]] = reader[arg[t]]
    BY <1>2, <1>6, ReaderSees
  <2> QED
    BY <1>4, <1>6, <2>1 DEF Reads
<1>7. ASSUME NEW s \in Stream, Stops(s) PROVE WaitOK'
  <2>1. \A t \in Thread : op[t] = "watch" => arg[t] # s /\ arg[t] \in Stream
    BY <1>2, <1>7 DEF Stops
  <2> QED
    BY <1>1, <1>4, <1>7, <2>1 DEF Stops
<1>8. ASSUME NEW s \in Stream, Connects(s) \/ Writes(s) PROVE WaitOK'
  BY <1>4, <1>8 DEF Connects, Writes
<1>9. ASSUME Forgets \/ Stirs PROVE WaitOK'
  BY <1>4, <1>9 DEF Forgets, Stirs
<1>10. ASSUME NEW c \in Call, Response_(c) \/ ResponseLost(c) PROVE WaitOK'
  BY <1>4, <1>10, ResponseEffect
<1> QED
  BY <1>3, <1>5, <1>6, <1>7, <1>8, <1>9, <1>10, SystemCases DEF Kinds

\* What is read or written belongs to an object Watch has made.
LEMMA UnusedStep == SystemInv /\ [SystemNext]_systemVars => UnusedOK'
<1> SUFFICES ASSUME SystemInv, [SystemNext]_systemVars PROVE UnusedOK'
  OBVIOUS
<1>1. UnusedOK /\ reader \in [Stream -> ReaderState]
  BY DEF SystemInv, IInv, TypeOK
<1>2. ASSUME \A s \in Stream : stream'[s].id = NONE =>
               stream[s].id = NONE /\ reader'[s] = reader[s] /\ sent'[s] = sent[s]
      PROVE  UnusedOK'
  BY <1>1, <1>2 DEF UnusedOK
<1>3. ASSUME NEW t \in Thread, NEW id \in ID, NEW s \in Stream, Subscribes(t, id, s) PROVE UnusedOK'
  BY <1>2, <1>3, ClientAssumption DEF Subscribes
<1>4. ASSUME NEW t \in Thread, NEW s \in Stream, Starts(t, s) PROVE UnusedOK'
  <2>1. stream[s].id # NONE
    BY <1>4, ClientAssumption DEF Starts, SystemInv, IInv, ArgOK
  <2> QED
    BY <1>1, <1>2, <1>4, <2>1 DEF Starts, SameObjects
<1>5. ASSUME NEW s \in Stream, NEW n \in Conn, Reads(s, n) PROVE UnusedOK'
  <2>1. stream[s].id # NONE
    BY <1>1, <1>5, ReaderSees DEF UnusedOK
  <2> QED
    BY <1>2, <1>5, <2>1, ReaderSees DEF Reads
<1>6. ASSUME NEW s \in Stream, Stops(s) PROVE UnusedOK'
  <2>1. stream[s].id # NONE
    BY <1>1, <1>6 DEF UnusedOK, Stops
  <2> QED
    BY <1>1, <1>2, <1>6, <2>1 DEF Stops, SameObjects
<1>7. ASSUME NEW s \in Stream, Connects(s) \/ Writes(s) PROVE UnusedOK'
  BY <1>2, <1>7 DEF Connects, Writes, SameObjects
<1>8. ASSUME Forgets \/ Stirs PROVE UnusedOK'
  BY <1>2, <1>8 DEF Forgets, Stirs, SameObjects
<1>9. ASSUME NEW c \in Call, Response_(c) \/ ResponseLost(c) PROVE UnusedOK'
  BY <1>2, <1>9, ResponseEffect
<1> QED
  BY <1>3, <1>4, <1>5, <1>6, <1>7, <1>8, <1>9, SystemCases DEF Kinds

\* run() never goes back to an earlier gRPC stream.
LEMMA ConnGrows ==
  ASSUME SystemInv, [SystemNext]_systemVars, NEW c \in Call, Opened(c)
  PROVE  Opened(c)'
<1>1. \A s \in Stream : stream[s].wc \in Nat
  BY ClientAssumption DEF SystemInv, IInv, TypeOK, StreamObject, Conn
<1>2. c[1] \in Stream /\ c[2] \in Nat
  BY ClientAssumption DEF Call, Conn
<1>3. \A s \in Stream : stream'[s].wc = stream[s].wc \/ stream'[s].wc = stream[s].wc + 1
  <2>1. ASSUME NEW t \in Thread, NEW id \in ID, NEW s \in Stream, Subscribes(t, id, s)
        PROVE  \A x \in Stream : stream'[x].wc = stream[x].wc
    BY <2>1 DEF Subscribes
  <2>2. ASSUME NEW s \in Stream, Connects(s)
        PROVE  \A x \in Stream : stream'[x].wc = stream[x].wc \/ stream'[x].wc = stream[x].wc + 1
    BY <2>2 DEF Connects
  <2>3. ASSUME NEW c2 \in Call, Response_(c2) \/ ResponseLost(c2) PROVE stream' = stream
    BY <2>3, ResponseEffect
  <2> QED
    BY <2>1, <2>2, <2>3, SystemCases DEF Kinds, Starts, Writes, Stops, Reads, Forgets, Stirs, SameObjects
<1> QED
  BY <1>1, <1>2, <1>3 DEF Opened

\* A handler starts with the call, which the client has opened.
LEMMA HandlerStarts ==
  ASSUME SystemInv, [SystemNext]_systemVars, NEW c \in Call
  PROVE  /\ handler[c] # "none" => handler'[c] # "none"
         /\ handler'[c] # "none" => handler[c] # "none" \/ Opened(c)
<1> DEFINE P == /\ handler[c] # "none" => handler'[c] # "none"
                /\ handler'[c] # "none" => handler[c] # "none" \/ Opened(c)
<1>1. handler \in [Call -> ServerProofs!HandlerState]
  BY DEF SystemInv, ServerProofs!IInv, ServerProofs!ServerTypeOK
<1>2. handler' = handler => P
  OBVIOUS
<1>3. ASSUME NEW d \in Call, Server!ServerStep(d) PROVE P
  <2>1. CASE Server!HandlerStep(d) \/ Server!HandlerLock(d)
    <3>1. handler' = handler \/ \E h \in {"lock", "locked", "close", "wait", "done"} :
                                  handler[d] # "none" /\ handler' = [handler EXCEPT ![d] = h]
      BY <2>1 DEF Server!HandlerStep, Server!HandlerErr, Server!HandlerDone, Server!HandlerCancel,
         Server!HandlerClose, Server!HandlerReturn, Server!HandlerLock
    <3> QED
      BY <1>1, <1>2, <3>1
  <2>2. CASE ~(Server!HandlerStep(d) \/ Server!HandlerLock(d))
    BY <1>2, <1>3, <2>2 DEF Server!ServerStep, Server!WorkStep, Server!LockStep, Server!SendStep,
       Server!CreateOffer, Server!AssignWatchID, Server!CancelAnswer, Server!CreateRegister,
       Server!CancelLock, Server!SendTake, Server!SendClosec, Server!SendFails
  <2> QED
    BY <2>1, <2>2
<1>4. ASSUME Server!Tick \/ Server!MockStep PROVE P
  BY <1>2, <1>4 DEF Server!Tick, Server!MockStep, Server!TickSend, Server!TickOver, Server!callVars
<1>5. ASSUME NEW d \in Call, Network(d) PROVE P
  <2>1. CASE AcceptCall(d)
    BY <1>1, <2>1 DEF AcceptCall, Server!Accept
  <2>2. CASE ~AcceptCall(d)
    BY <1>2, <1>5, <2>2 DEF Network, Request_, CallCancelled, RequestFails, Response_, ResponseLost,
       ResponseFails, Break, ClientOnly, serverVars, Server!RecvCreate, Server!RecvCancel,
       Server!ContextDone, Server!RecvFails, Server!SendOk
  <2> QED
    BY <2>1, <2>2
<1> QED
  BY <1>2, <1>3, <1>4, <1>5 DEF SystemNext, ClientNext, ClientOnly, ServerNext, serverVars, systemVars

\* A call is served, and told, only after the client has opened it.
LEMMA CallOKStep == SystemInv /\ [SystemNext]_systemVars => CallOK'
<1> SUFFICES ASSUME SystemInv, [SystemNext]_systemVars, NEW c \in Call
             PROVE  /\ handler'[c] # "none" => Opened(c)'
                    /\ told'[c] # {} => handler'[c] # "none"
  BY DEF CallOK
<1>1. CallOK /\ ServerProofs!EndOK
  BY DEF SystemInv, ServerProofs!IInv
<1>2. told'[c] = told[c] \/ sendl[c].pc = "send"
  BY SystemCases, ResponseEffect
<1>3. sendl[c].pc = "send" => handler[c] # "none"
  BY <1>1 DEF ServerProofs!EndOK
<1> QED
  BY <1>1, <1>2, <1>3, HandlerStarts, ConnGrows DEF CallOK

\* A Created is written to a call before anything else, so it is the first
\* response the client takes from each gRPC stream, and it takes the second only
\* when the reader has had the first.
LEMMA HeardStep == SystemInv /\ [SystemNext]_systemVars => HeardOK'
<1> DEFINE Good(s, n) ==
             /\ serve[s][n].pc = "recv" /\ told[<<s, n>>] # {} => Started(s)
             /\ serve[s][n].pc = "resp" /\ serve[s][n].hand # "created" => Started(s)
<1> SUFFICES ASSUME SystemInv, [SystemNext]_systemVars, NEW s \in Stream, NEW n \in Conn
             PROVE  Good(s, n)'
  BY DEF HeardOK
<1>1. /\ serve \in [Stream -> [Conn -> [pc : ServeState, hand : Response \cup Error \cup {NONE}]]]
      /\ reader \in [Stream -> ReaderState]
  BY DEF SystemInv, IInv, TypeOK
<1>2. Good(s, n) /\ <<s, n>> \in Call
  BY DEF SystemInv, HeardOK, Call
<1>3. ASSUME told' = told, Started(s) => Started(s)',
             serve'[s][n] = serve[s][n] \/ serve'[s][n].pc \in {"err", "exited"}
      PROVE  Good(s, n)'
  BY <1>2, <1>3
<1>4. reader'[s] = reader[s] => (Started(s) => Started(s)')
  BY DEF Started
<1>5. ASSUME told' = told, NEW x \in Stream, Connects(x) PROVE Good(s, n)'
  <2>1. CASE x = s /\ n = stream[s].wc + 1
    <3>1. ~Opened(<<s, n>>)
      <4>1. stream[s].wc \in Nat
        BY ClientAssumption DEF SystemInv, IInv, TypeOK, StreamObject, Conn
      <4> QED
        BY <2>1, <4>1 DEF Opened
    <3>2. told[<<s, n>>] = {}
      BY <1>2, <3>1 DEF SystemInv, CallOK
    <3>3. serve'[s][n].pc = "recv"
      BY <1>1, <1>5, <2>1 DEF Connects
    <3> QED
      BY <1>5, <3>2, <3>3
  <2>2. CASE ~(x = s /\ n = stream[s].wc + 1)
    <3>1. serve'[s][n] = serve[s][n] /\ reader' = reader
      BY <1>1, <1>5, <2>2 DEF Connects
    <3> QED
      BY <1>3, <1>4, <1>5, <3>1
  <2> QED
    BY <2>1, <2>2
<1>6. ASSUME told' = told, NEW x \in Stream, NEW m \in Conn, Reads(x, m) PROVE Good(s, n)'
  <2>1. /\ reader'[x] \in {"created", "stopped"}
        /\ \A y \in Stream : y # x => reader'[y] = reader[y]
        /\ serve' = [serve EXCEPT ![x][m] = [pc |-> "recv", hand |-> NONE]]
    BY <1>6, ReaderSees
  <2>2. CASE x = s
    BY <2>1, <2>2 DEF Started
  <2>3. CASE x # s
    <3>1. serve'[s][n] = serve[s][n] /\ reader'[s] = reader[s]
      BY <1>1, <2>1, <2>3
    <3> QED
      BY <1>3, <1>4, <1>6, <3>1
  <2> QED
    BY <2>2, <2>3
<1>7. ASSUME told' = told, NEW t \in Thread, NEW x \in Stream, Starts(t, x) PROVE Good(s, n)'
  <2>1. serve' = serve /\ (Started(s) => Started(s)')
    <3>1. reader[x] = "none" /\ serve' = serve /\ reader' = [reader EXCEPT ![x] = "fresh"]
      BY <1>7 DEF Starts, SystemInv, WaitOK
    <3>2. CASE x = s
      BY <3>1, <3>2 DEF Started
    <3>3. CASE x # s
      BY <1>1, <1>4, <3>1, <3>3
    <3> QED
      BY <3>1, <3>2, <3>3
  <2> QED
    BY <1>3, <1>7, <2>1
<1>8. ASSUME told' = told, NEW x \in Stream, Stops(x) PROVE Good(s, n)'
  <2>1. serve' = serve /\ (Started(s) => Started(s)')
    BY <1>1, <1>8 DEF Stops, Started
  <2> QED
    BY <1>3, <1>8, <2>1
<1>9. ASSUME told' = told, Kinds PROVE Good(s, n)'
  <2>1. ASSUME NEW t \in Thread, NEW id \in ID, NEW x \in Stream, Subscribes(t, id, x)
        PROVE  Good(s, n)'
    BY <1>3, <1>4, <1>9, <2>1 DEF Subscribes
  <2>2. ASSUME NEW x \in Stream, Writes(x) PROVE Good(s, n)'
    BY <1>3, <1>4, <1>9, <2>2 DEF Writes
  <2>3. ASSUME Forgets PROVE Good(s, n)'
    BY <1>3, <1>4, <1>9, <2>3 DEF Forgets
  <2>4. ASSUME Stirs PROVE Good(s, n)'
    BY <1>3, <1>4, <1>9, <2>4 DEF Stirs
  <2> QED
    BY <1>5, <1>6, <1>7, <1>8, <1>9, <2>1, <2>2, <2>3, <2>4 DEF Kinds
<1>10. ASSUME NEW c \in Call, Response_(c) \/ ResponseLost(c) PROVE Good(s, n)'
  <2>1. /\ c = <<c[1], c[2]>> /\ c[1] \in Stream /\ c[2] \in Conn
        /\ sendl[c].msg \in ServerProofs!ResponseOf
    BY <1>10, Messages, ResponseEffect
  <2>2. reader' = reader /\ \A d \in Call : d # c => told'[d] = told[d]
    BY <1>10, ResponseEffect
  <2>3. CASE c # <<s, n>>
    <3>1. told'[<<s, n>>] = told[<<s, n>>] /\ serve'[s][n] = serve[s][n]
      <4>1. told'[<<s, n>>] = told[<<s, n>>]
        BY <1>2, <2>2, <2>3
      <4>2. c[1] # s \/ c[2] # n
        BY <2>1, <2>3
      <4>3. ASSUME serve' = [serve EXCEPT ![c[1]][c[2]] = [pc |-> "resp", hand |-> sendl[c].msg.kind]]
            PROVE  serve'[s][n] = serve[s][n]
        BY <1>1, <2>1, <4>2, <4>3
      <4> QED
        BY <1>10, <4>1, <4>3, ResponseEffect
    <3> QED
      BY <1>2, <2>2, <3>1 DEF Started
  <2>4. CASE c = <<s, n>>
    <3>1. c[1] = s /\ c[2] = n
      BY <2>4
    <3>2. \/ serve[s][n].pc \in {"err", "exited"} /\ serve' = serve
          \/ /\ serve[s][n].pc = "recv"
             /\ serve' = [serve EXCEPT ![s][n] = [pc |-> "resp", hand |-> sendl[c].msg.kind]]
      BY <1>10, <3>1, ResponseEffect
    <3>3. CASE serve[s][n].pc \in {"err", "exited"} /\ serve' = serve
      BY <3>3
    <3>4. CASE /\ serve[s][n].pc = "recv"
               /\ serve' = [serve EXCEPT ![s][n] = [pc |-> "resp", hand |-> sendl[c].msg.kind]]
      <4>1. serve'[s][n].pc = "resp" /\ serve'[s][n].hand = sendl[c].msg.kind
        BY <1>1, <3>4
      <4>2. sendl[c].msg.kind # "created" => told[c] # {}
        BY <1>10, ResponseEffect DEF SystemInv, ServerProofs!IInv, ServerProofs!CreatedFirst
      <4> QED
        BY <1>2, <2>2, <2>4, <3>4, <4>1, <4>2 DEF Started
    <3> QED
      BY <3>2, <3>3, <3>4
  <2> QED
    BY <2>3, <2>4
<1> QED
  BY <1>9, <1>10, SystemCases

\* The reader never finds that its create failed.
LEMMA FailStep == SystemInv /\ [SystemNext]_systemVars => NeverFails'
<1> SUFFICES ASSUME SystemInv, [SystemNext]_systemVars, NEW s \in Stream PROVE reader'[s] # "failed"
  BY DEF NeverFails
<1>1. reader \in [Stream -> ReaderState] /\ reader[s] # "failed"
  BY DEF SystemInv, IInv, TypeOK, NeverFails
<1>2. ASSUME NEW x \in Stream, NEW n \in Conn, Reads(x, n) PROVE reader'[s] # "failed"
  BY <1>1, <1>2, ReaderSees
<1>3. ASSUME NEW t \in Thread, NEW x \in Stream, Starts(t, x) PROVE reader'[s] # "failed"
  BY <1>1, <1>3 DEF Starts
<1>4. ASSUME NEW x \in Stream, Stops(x) PROVE reader'[s] # "failed"
  BY <1>1, <1>4 DEF Stops
<1>5. ASSUME NEW c \in Call, Response_(c) \/ ResponseLost(c) PROVE reader'[s] # "failed"
  BY <1>1, <1>5, ResponseEffect
<1> QED
  BY <1>1, <1>2, <1>3, <1>4, <1>5, SystemCases DEF Kinds, Subscribes, Connects, Writes, Forgets, Stirs

(***************************************************************************)
(* Nothing is sent behind a Canceled.                                      *)
(***************************************************************************)

\* What run() has written and recvLoop has read is not taken back, and a create
\* begins with a request for it.
LEMMA RequestsGrow ==
  ASSUME SystemInv, [SystemNext]_systemVars, NEW c \in Call
  PROVE  /\ \A i \in DOMAIN sent[c[1]][c[2]] :
              i \in DOMAIN sent'[c[1]][c[2]] /\ sent'[c[1]][c[2]][i] = sent[c[1]][c[2]][i]
         /\ taken' \in [Call -> Nat] /\ taken[c] <= taken'[c]
         /\ recv[c].pc # "offer" /\ recv'[c].pc = "offer" =>
              \E i \in DOMAIN sent[c[1]][c[2]] :
                /\ i = taken[c] + 1 /\ taken'[c] = i
                /\ sent[c[1]][c[2]][i] = "create" /\ sent' = sent
<1>1. /\ taken \in [Call -> Nat]
      /\ sent \in [Stream -> [Conn -> Seq(Request)]]
      /\ recv \in [Call -> [pc : ServerProofs!RecvState, id : ID \cup {NONE}]]
      /\ c[1] \in Stream /\ c[2] \in Conn
  BY DEF SystemInv, LastOK, IInv, TypeOK, ServerProofs!IInv, ServerProofs!ServerTypeOK, Call
<1> DEFINE Kept == \A i \in DOMAIN sent[c[1]][c[2]] :
                     i \in DOMAIN sent'[c[1]][c[2]] /\ sent'[c[1]][c[2]][i] = sent[c[1]][c[2]][i]
           Grows == taken' \in [Call -> Nat] /\ taken[c] <= taken'[c]
           Offers == recv[c].pc # "offer" /\ recv'[c].pc = "offer"
<1>2. sent' = sent => Kept
  OBVIOUS
<1>3. taken' = taken => Grows
  BY <1>1
<1>4. recv' = recv => ~Offers
  OBVIOUS
<1>5. ASSUME ClientNext PROVE Kept /\ Grows /\ ~Offers
  <2>1. taken' = taken /\ recv' = recv
    BY <1>5 DEF ClientNext, ClientOnly, serverVars, netVars
  <2>2. sent' = sent \/ \E s \in Stream : Send(s)
    <3>0. ASSUME NEW t, NEW id, NEW parent, WatchRefused(t, id) \/ NewWatcherGrpcStream(t, id, parent)
          PROVE  sent' = sent
      BY <3>0, Zenon DEF WatchRefused, NewWatcherGrpcStream
    <3>1. ASSUME NEW t \in Thread, CallStep(t) \/ \E id \in ID : Watch(t, id) \/ CloseStream(t, id)
          PROVE  sent' = sent
      <4>1. CASE WatchAgain(t) \/ \E id \in ID : Watch(t, id)
        BY <3>0, <4>1, Zenon DEF Watch, WatchAgain
      <4>2. ASSUME NEW id \in ID, CloseStream(t, id) PROVE sent' = sent
        BY <4>2 DEF CloseStream
      <4>3. CASE WatchSent(t) \/ WatchCtxDone(t) \/ WatchDonec(t) \/ CloseRange(t)
        BY <4>3 DEF WatchSent, WatchCtxDone, WatchDonec, CloseRange
      <4>4. CASE CancelSent(t) \/ CloseCancel(t) \/ CloseDonec(t)
        BY <4>4 DEF CancelSent, CloseCancel, CloseDonec
      <4> QED
        BY <3>1, <4>1, <4>2, <4>3, <4>4 DEF CallStep
    <3>2. ASSUME NEW s \in Stream, RunStep(s) \/ Dial(s) PROVE sent' = sent \/ Send(s)
      BY <3>2 DEF RunStep, BackoffOver, RunErr, RunDone, Tell, Leave, Dial, DialOk, DialUnavailable,
         DialHalt
    <3>3. ASSUME NEW s, NEW n, ServeStep(s, n) PROVE sent' = sent
      BY <3>3 DEF ServeStep, PutResp, PutErr, ServeDonec
    <3> QED
      BY <1>5, <3>1, <3>2, <3>3 DEF ClientNext
  <2>3. ASSUME NEW s \in Stream, Send(s) PROVE Kept
    <3>1. stream[s].wc \in Conn \cup {0} /\ stream[s].req \in Request \cup {NONE}
      BY DEF SystemInv, IInv, TypeOK, StreamObject
    <3> DEFINE n == stream[s].wc
    <3>2. sent' = [sent EXCEPT ![s] = [sent[s] EXCEPT ![n] = Append(sent[s][n], stream[s].req)]]
      BY <1>1, <2>3 DEF Send
    <3>3. CASE c[1] = s /\ c[2] = n
      <4>1. sent'[c[1]][c[2]] = Append(sent[c[1]][c[2]], stream[s].req)
        BY <1>1, <3>2, <3>3
      <4>2. sent[c[1]][c[2]] \in Seq(Request)
        BY <1>1
      <4> DEFINE q == sent[c[1]][c[2]]
      <4>3. \A i \in DOMAIN q : i \in 1 .. Len(q) /\ Append(q, stream[s].req)[i] = q[i]
        BY <4>2
      <4>4. DOMAIN Append(q, stream[s].req) = 1 .. Len(q) + 1
        BY <4>2
      <4>5. \A i \in DOMAIN q : i \in DOMAIN Append(q, stream[s].req)
        BY <4>2, <4>3, <4>4
      <4> QED
        BY <4>1, <4>3, <4>5
    <3>4. CASE c[1] # s \/ c[2] # n
      <4>1. sent'[c[1]][c[2]] = sent[c[1]][c[2]]
        BY <1>1, <3>2, <3>4
      <4> QED
        BY <4>1
    <3> QED
      BY <3>3, <3>4
  <2> QED
    BY <1>2, <1>3, <1>4, <2>1, <2>2, <2>3
<1>6. ASSUME ServerNext PROVE Kept /\ Grows /\ ~Offers
  <2>1. sent' = sent /\ taken' = taken
    BY <1>6 DEF ServerNext, ServerOnly, vars, netVars
  <2>2. ASSUME Server!Tick \/ Server!MockStep PROVE recv' = recv
    BY <2>2 DEF Server!Tick, Server!MockStep, Server!TickSend, Server!TickOver, Server!callVars
  <2>3. ASSUME NEW d \in Call, Server!ServerStep(d) PROVE ~Offers
    <3>1. CASE Server!WorkStep(d) \/ Server!CreateRegister(d) \/ Server!CancelLock(d)
      BY <1>1, <3>1 DEF Server!WorkStep, Server!CreateOffer, Server!AssignWatchID, Server!CancelAnswer,
         Server!CreateRegister, Server!CancelLock
    <3>2. CASE Server!HandlerStep(d) \/ Server!HandlerLock(d) \/ Server!SendStep(d)
      <4>1. recv' = recv
        BY <3>2 DEF Server!HandlerStep, Server!HandlerLock, Server!SendStep, Server!HandlerErr,
           Server!HandlerDone, Server!HandlerCancel, Server!HandlerClose, Server!HandlerReturn,
           Server!SendTake, Server!SendClosec, Server!SendFails
      <4> QED
        BY <4>1
    <3> QED
      BY <2>3, <3>1, <3>2 DEF Server!ServerStep, Server!LockStep
  <2> QED
    BY <1>2, <1>3, <1>4, <1>6, <2>1, <2>2, <2>3 DEF ServerNext
<1>7. ASSUME NEW d \in Call, Network(d), ~Request_(d) PROVE Kept /\ Grows /\ ~Offers
  <2>1. sent' = sent /\ taken' = taken
    BY <1>7 DEF Network, AcceptCall, CallCancelled, RequestFails, Response_, ResponseLost, ResponseFails,
       Break, RecvResp, RecvErr, ServerOnly, ClientOnly, vars, netVars
  <2>2. ~Offers
    BY <1>1, <1>7 DEF Network, AcceptCall, CallCancelled, RequestFails, Response_, ResponseLost,
       ResponseFails, Break, ClientOnly, serverVars, Server!Accept, Server!ContextDone,
       Server!RecvFails, Server!SendOk
  <2> QED
    BY <1>2, <1>3, <2>1, <2>2
<1>8. ASSUME NEW d \in Call, Request_(d)
      PROVE  /\ Kept /\ Grows
             /\ Offers => \E i \in DOMAIN sent[c[1]][c[2]] :
                            /\ i = taken[c] + 1 /\ taken'[c] = i
                            /\ sent[c[1]][c[2]][i] = "create" /\ sent' = sent
  <2>1. sent' = sent /\ taken' = [taken EXCEPT ![d] = taken[d] + 1]
    BY <1>8 DEF Request_, vars
  <2>2. Kept /\ Grows
    BY <1>1, <1>2, <2>1
  <2>3. ASSUME Offers
        PROVE  taken[c] + 1 \in DOMAIN sent[c[1]][c[2]] /\ sent[c[1]][c[2]][taken[c] + 1] = "create"
               /\ taken'[c] = taken[c] + 1
    <3>1. c = d
      BY <1>1, <1>8, <2>3 DEF Request_, Server!RecvCreate, Server!RecvCancel
    <3>2. recv'[c].pc = "offer" => ~Server!RecvCancel(c, stream[c[1]].id)
      BY <1>1 DEF Server!RecvCancel
    <3>3. taken'[c] = taken[c] + 1
      BY <1>1, <2>1, <3>1
    <3> QED
      BY <1>8, <2>3, <3>1, <3>2, <3>3 DEF Request_
  <2> QED
    BY <2>1, <2>2, <2>3
<1>9. CASE UNCHANGED systemVars
  BY <1>2, <1>3, <1>4, <1>9 DEF systemVars, vars, serverVars, netVars
<1> QED
  BY <1>5, <1>6, <1>7, <1>8, <1>9 DEF SystemNext

\* A call is created twice for good, and has read what it has read.
LEMMA RequestsStay ==
  ASSUME SystemInv, [SystemNext]_systemVars, NEW c \in Call
  PROVE  /\ Recreated(c) => Recreated(c)'
         /\ HasRead(c) => HasRead(c)'
         /\ ~Recreated(c)' /\ recv[c].pc # "offer" /\ recv'[c].pc = "offer" =>
              ~HasRead(c) /\ HasRead(c)'
<1> DEFINE q == sent[c[1]][c[2]]
<1>1. /\ \A i \in DOMAIN q : i \in DOMAIN q' /\ q'[i] = q[i]
      /\ taken[c] <= taken'[c]
      /\ recv[c].pc # "offer" /\ recv'[c].pc = "offer" =>
           \E i \in DOMAIN q : i = taken[c] + 1 /\ taken'[c] = i /\ q[i] = "create" /\ q' = q
  BY RequestsGrow
<1>2. DOMAIN q \subseteq Nat /\ taken[c] \in Nat /\ taken'[c] \in Nat
  <2>1. c[1] \in Stream /\ c[2] \in Conn
    BY DEF Call
  <2>2. q \in Seq(Request)
    BY <2>1 DEF SystemInv, IInv, TypeOK
  <2> QED
    BY <2>2, RequestsGrow DEF SystemInv, LastOK
<1>3. Recreated(c) => Recreated(c)'
  BY <1>1 DEF Recreated
<1>4. HasRead(c) => HasRead(c)'
  BY <1>1, <1>2 DEF HasRead
<1>5. ASSUME ~Recreated(c)', recv[c].pc # "offer", recv'[c].pc = "offer"
      PROVE  ~HasRead(c) /\ HasRead(c)'
  <2>1. PICK i \in DOMAIN q : i = taken[c] + 1 /\ taken'[c] = i /\ q[i] = "create" /\ q' = q
    BY <1>1, <1>5
  <2>2. HasRead(c)'
    BY <1>2, <2>1 DEF HasRead
  <2>3. ASSUME NEW j \in DOMAIN q, j <= taken[c], q[j] = "create" PROVE FALSE
    <3>1. j < i
      BY <1>2, <2>1, <2>3
    <3> QED
      BY <1>5, <2>1, <2>3, <3>1 DEF Recreated
  <2> QED
    BY <2>2, <2>3 DEF HasRead
<1> QED
  BY <1>3, <1>4, <1>5

\* What a step of the system does to one call.
LEMMA SystemCallSteps ==
  ASSUME SystemInv, [SystemNext]_systemVars, NEW c \in Call
  PROVE  /\ ServerProofs!CallKinds(c)
         /\ chan[c].buf \in Seq(ServerProofs!ResponseOf)
<1>1. ServerProofs!IInv /\ [ServerProofs!ServerNext]_(ServerProofs!serverVars)
  BY ServerSteps, SameServer DEF SystemInv
<1>2. ServerProofs!CallKinds(c)
  BY <1>1, ServerAssumed, ServerProofs!CallSteps
<1>3. chan \in [Call -> [buf : Seq(ServerProofs!ResponseOf), closed : BOOLEAN]]
  BY <1>1 DEF ServerProofs!IInv, ServerProofs!ServerTypeOK
<1> QED
  BY <1>2, <1>3

\* What is appended comes last, behind what was there.
LEMMA AppendedLast ==
  ASSUME NEW S, NEW q \in Seq(S), NEW r \in S
  PROVE  /\ Append(q, r) # <<>>
         /\ \A i \in DOMAIN Append(q, r) :
              \/ i \in DOMAIN q /\ i # Len(q) + 1 /\ Append(q, r)[i] = q[i]
              \/ i = Len(Append(q, r)) /\ Append(q, r)[i] = r
<1>1. DOMAIN Append(q, r) = 1 .. Len(q) + 1 /\ Len(Append(q, r)) = Len(q) + 1 /\ DOMAIN q = 1 .. Len(q)
  OBVIOUS
<1>2. \A i \in 1 .. Len(q) : Append(q, r)[i] = q[i]
  OBVIOUS
<1>3. Append(q, r)[Len(q) + 1] = r
  OBVIOUS
<1> QED
  BY <1>1, <1>2, <1>3

\* For the provers, which do not see it under a Seq of an open set.
LEMMA EmptyIsNothing ==
  ASSUME NEW S, NEW q \in Seq(S), Len(q) = 0
  PROVE  q = <<>>
OBVIOUS

\* What is left of a queue moves up by one, and its last element stays last.
LEMMA RestOfTail ==
  ASSUME NEW S, NEW q \in Seq(S), q # <<>>
  PROVE  /\ \A i \in DOMAIN Tail(q) : i + 1 \in DOMAIN q /\ Tail(q)[i] = q[i + 1]
         /\ \A i \in DOMAIN Tail(q) : i + 1 = Len(q) => i = Len(Tail(q))
         /\ 1 \in DOMAIN q /\ (1 = Len(q) => Tail(q) = <<>>)
<1>1. Len(q) \in Nat /\ Len(q) # 0 /\ DOMAIN q = 1 .. Len(q)
  OBVIOUS
<1>2. Tail(q) \in Seq(S) /\ Len(Tail(q)) = Len(q) - 1 /\ DOMAIN Tail(q) = 1 .. Len(q) - 1
  BY <1>1
<1>3. \A i \in 1 .. Len(q) - 1 : Tail(q)[i] = q[i + 1]
  BY <1>1
<1>4. ASSUME 1 = Len(q) PROVE Tail(q) = <<>>
  <2>1. Len(Tail(q)) = 1 - 1
    BY <1>2, <1>4, Zenon
  <2>2. 1 - 1 = 0
    OBVIOUS
  <2> QED
    BY <1>2, <2>1, <2>2, EmptyIsNothing, Zenon
<1> QED
  BY <1>1, <1>2, <1>3, <1>4

\* A call has one life: it is created, it is served, it is cancelled.
LEMMA OneLifeStep ==
  ASSUME SystemInv, [SystemNext]_systemVars, NEW c \in Call, ~Recreated(c)'
  PROVE  OneLife(c)'
<1> DEFINE q == chan[c].buf
           Cancelling == sendl[c].pc = "send" /\ sendl[c].msg.kind = "canceled"
<1>1. /\ ~HasRead(c) => Still(c) /\ q = <<>> /\ sendl[c].pc # "send"
      /\ Creating(c) => Entries(c) = {}
      /\ \A i, j \in Entries(c) : i = j
      /\ \A i \in DOMAIN q : q[i].kind = "canceled" => Still(c) /\ i = Len(q)
      /\ Cancelling => Still(c) /\ q = <<>>
  BY RequestsStay DEF SystemInv, LastOK, OneLife
<1>2. ~HasRead(c)' => ~HasRead(c)
  BY RequestsStay
<1>3. q \in Seq(ServerProofs!ResponseOf) /\ ServerProofs!CallKinds(c)
  BY SystemCallSteps
<1>e. DOMAIN <<>> = {}
  OBVIOUS
<1> USE DEF Still, Entries, Creating
<1>4. CASE ServerProofs!Rests(c)
  <2>1. Still(c) => Still(c)'
    BY <1>4 DEF ServerProofs!Rests
  <2> QED
    BY <1>1, <1>2, <1>4, <2>1 DEF ServerProofs!Rests, OneLife
<1>5. CASE ServerProofs!Takes(c)
  <2>1. q # <<>> /\ q' = Tail(q) /\ sendl'[c].msg = q[1] /\ UNCHANGED <<watchers, recv>>
    BY <1>5 DEF ServerProofs!Takes
  <2>2. Entries(c)' = Entries(c) /\ Creating(c)' = Creating(c) /\ HasRead(c)'
    BY <1>1, <1>2, <2>1 DEF ServerProofs!Entries, ServerProofs!Creating
  <2>3. /\ \A i \in DOMAIN Tail(q) : i + 1 \in DOMAIN q /\ Tail(q)[i] = q[i + 1]
        /\ \A i \in DOMAIN Tail(q) : i + 1 = Len(q) => i = Len(Tail(q))
        /\ 1 \in DOMAIN q /\ (1 = Len(q) => Tail(q) = <<>>)
    BY <1>3, <2>1, RestOfTail
  <2>4. \A i \in DOMAIN q' : q'[i].kind = "canceled" => Still(c)' /\ i = Len(q')
    BY <1>1, <2>1, <2>2, <2>3
  <2>5. Cancelling' => Still(c)' /\ q' = <<>>
    BY <1>1, <2>1, <2>2, <2>3
  <2> QED
    BY <1>1, <2>2, <2>4, <2>5 DEF OneLife
<1>6. ASSUME NEW r \in ServerProofs!ResponseOf, q' = Append(q, r), Entries(c) # {} \/ Creating(c),
             r.kind = "canceled" => Still(c)',
             Creating(c)' => Creating(c), Entries(c)' \subseteq Entries(c), sendl' = sendl
      PROVE  OneLife(c)'
  <2>1. HasRead(c)' /\ ~Cancelling
    BY <1>1, <1>2, <1>6
  <2>2. \A i \in DOMAIN q : q[i].kind # "canceled"
    BY <1>1, <1>6
  <2>3. \A i \in DOMAIN q' : q'[i].kind = "canceled" => Still(c)' /\ i = Len(q')
    BY <1>3, <1>6, <2>2, AppendedLast
  <2> QED
    BY <1>1, <1>6, <2>1, <2>3 DEF OneLife
<1>7. CASE ServerProofs!Updates(c)
  <2>1. Entries(c)' = Entries(c) /\ Creating(c)' = Creating(c)
    BY <1>7 DEF ServerProofs!Updates, ServerProofs!Entries, ServerProofs!Creating
  <2> QED
    BY <1>6, <1>7, <2>1 DEF ServerProofs!Updates, ServerProofs!Appends
<1>8. ASSUME NEW id \in ID, ServerProofs!Cancels(c, id) PROVE OneLife(c)'
  <2>1. Entries(c)' = {} /\ ~Creating(c)'
    BY <1>1, <1>8 DEF ServerProofs!Cancels
  <2>2. id \in Entries(c)
    BY <1>8 DEF ServerProofs!Cancels
  <2> QED
    BY <1>6, <1>8, <2>1, <2>2 DEF ServerProofs!Cancels, ServerProofs!Appends
<1>9. CASE ServerProofs!Offers(c)
  <2>1. Entries(c)' = Entries(c) /\ Creating(c)
    BY <1>9 DEF ServerProofs!Offers, ServerProofs!Entries
  <2> QED
    BY <1>6, <1>9, <2>1 DEF ServerProofs!Offers, ServerProofs!Appends
<1>10. CASE ServerProofs!Asks(c)
  <2>1. ~HasRead(c) /\ HasRead(c)'
    BY <1>10, RequestsStay DEF ServerProofs!Asks
  <2>2. q' = <<>> /\ sendl'[c].pc # "send" /\ Entries(c)' = {}
    BY <1>1, <1>10, <2>1 DEF ServerProofs!Asks, ServerProofs!Entries
  <2> QED
    BY <1>e, <2>1, <2>2 DEF OneLife
<1>11. CASE ServerProofs!Registers(c)
  <2>1. PICK id \in ID : Entries(c)' \subseteq Entries(c) \cup {id}
    BY <1>11 DEF ServerProofs!Registers
  <2>2. Creating(c) /\ ~Creating(c)' /\ q' = q /\ sendl' = sendl
    BY <1>11 DEF ServerProofs!Registers
  <2>3. HasRead(c)' /\ ~Cancelling /\ Entries(c) = {} /\ \A i \in DOMAIN q : q[i].kind # "canceled"
    BY <1>1, <1>2, <2>2
  <2> QED
    BY <2>1, <2>2, <2>3 DEF OneLife
<1> QED
  BY <1>3, <1>4, <1>5, <1>7, <1>8, <1>9, <1>10, <1>11 DEF ServerProofs!CallKinds

\* A step keeps what relates the store's entries to what the calls were told.
LEMMA LastStep == SystemInv /\ [SystemNext]_systemVars => LastOK'
<1> SUFFICES ASSUME SystemInv, [SystemNext]_systemVars PROVE LastOK'
  OBVIOUS
<1>1. taken' \in [Call -> Nat]
  <2>1. taken' = taken \/ \E d \in Call : taken' = [taken EXCEPT ![d] = taken[d] + 1]
    <3>1. ASSUME NEW d \in Call, Network(d)
          PROVE  taken' = taken \/ taken' = [taken EXCEPT ![d] = taken[d] + 1]
      BY <3>1 DEF Network, Request_, AcceptCall, CallCancelled, RequestFails, Response_, ResponseLost,
         ResponseFails, Break, ServerOnly, ClientOnly, netVars
    <3> QED
      BY <3>1 DEF SystemNext, ClientNext, ServerNext, ClientOnly, ServerOnly, systemVars, netVars
  <2> QED
    BY <2>1 DEF SystemInv, LastOK
<1>2. \A c \in Call : Recreated(c)' \/ OneLife(c)'
  BY OneLifeStep
<1> QED
  BY <1>1, <1>2 DEF LastOK

\* Nothing is left to send on the gRPC stream of c, unless it was created twice.
Over(c) ==
  \/ /\ HasRead(c) /\ Still(c) /\ chan[c].buf = <<>>
     /\ sendl[c].pc = "send" => sendl[c].msg.kind = "canceled"
  \/ Recreated(c)

\* Nothing more is put into the channel of a call that was told Canceled.
LEMMA OverStays ==
  ASSUME SystemInv, [SystemNext]_systemVars, NEW c \in Call, Over(c)
  PROVE  Over(c)'
<1> SUFFICES ASSUME ~Recreated(c)' PROVE Over(c)'
  BY DEF Over
<1>1. /\ HasRead(c) /\ HasRead(c)' /\ chan[c].buf = <<>>
      /\ Entries(c) = {} /\ ~Creating(c)
      /\ sendl[c].pc = "send" => sendl[c].msg.kind = "canceled"
  BY RequestsStay DEF Over, Still
<1>2. ~ServerProofs!Asks(c)
  BY <1>1, RequestsStay DEF ServerProofs!Asks
<1>3. ServerProofs!Rests(c)
  BY <1>1, <1>2, SystemCallSteps DEF ServerProofs!CallKinds, ServerProofs!Takes, ServerProofs!Updates,
     ServerProofs!Cancels, ServerProofs!Offers, ServerProofs!Registers, Entries, Creating
<1> QED
  BY <1>1, <1>3 DEF ServerProofs!Rests, Over, Still, Entries, Creating

\* It holds at first.
LEMMA SystemInitInv == SystemInit => SystemInv
<1> SUFFICES ASSUME SystemInit PROVE SystemInv
  OBVIOUS
<1>1. IInv
  BY InitIInv DEF SystemInit
<1>2. ServerProofs!IInv
  BY SameServer, ServerAssumed, ServerProofs!InitOK DEF SystemInit
<1>3. WaitOK /\ UnusedOK /\ NeverFails
  BY DEF SystemInit, Init, WaitOK, UnusedOK, NeverFails
<1>4. CallOK /\ HeardOK
  BY DEF SystemInit, Init, Server!ServerInit, CallOK, HeardOK
<1>5. LastOK
  <2>1. ASSUME NEW c \in Call
        PROVE  Entries(c) = {} /\ ~Creating(c) /\ chan[c].buf = <<>> /\ sendl[c].pc # "send"
    BY <2>1, SystemAssumption DEF SystemInit, Server!ServerInit, Entries, Creating,
       ServerProofs!Entries, ServerProofs!Creating, Call
  <2>2. DOMAIN <<>> = {}
    OBVIOUS
  <2>3. \A c \in Call : OneLife(c)
    BY <2>1, <2>2 DEF OneLife, Still
  <2> QED
    BY <2>3 DEF SystemInit, LastOK
<1> QED
  BY <1>1, <1>2, <1>3, <1>4, <1>5 DEF SystemInv

\* The invariant of the system is inductive.
LEMMA SystemStepInv == SystemInv /\ [SystemNext]_systemVars => SystemInv'
<1>1. SystemInv /\ [SystemNext]_systemVars => IInv'
  BY ClientSteps, StepIInv DEF SystemInv
<1>2. SystemInv /\ [SystemNext]_systemVars => ServerProofs!IInv'
  BY ServerSteps, SameServer, ServerAssumed, ServerProofs!StepIInv DEF SystemInv
<1> QED
  BY <1>1, <1>2, WaitStep, UnusedStep, CallOKStep, HeardStep, FailStep, LastStep DEF SystemInv

\* What ties client, server and readers together holds in every reachable
\* state of the system.
THEOREM SystemInvariance == SystemSpec => []SystemInv
<1>1. SystemInit => SystemInv
  BY SystemInitInv
<1>2. SystemInv /\ [SystemNext]_systemVars => SystemInv'
  BY SystemStepInv
<1> QED
  BY <1>1, <1>2, PTL DEF SystemSpec

-----------------------------------------------------------------------------
\* The system runs the client of WatchClient: whatever is proved of it there
\* holds in the system.
THEOREM SystemRunsClient == SystemSpec => Spec
<1>1. SystemInit => Init
  BY DEF SystemInit
<1>2. SystemInv /\ [SystemNext]_systemVars => [Next]_vars
  BY ClientSteps
<1> QED
  BY <1>1, <1>2, SystemInvariance, PTL DEF SystemSpec, Spec

\* It runs the server of WatchServer too: the network gives it no call, request
\* or end that it does not allow for.
THEOREM SystemRunsServer == SystemSpec => Server!ServerSpec
<1>1. SystemInit => Server!ServerInit
  BY DEF SystemInit
<1>2. SystemInv /\ [SystemNext]_systemVars => [Server!ServerNext]_(Server!serverVars)
  BY ServerSteps
<1> QED
  BY <1>1, <1>2, SystemInvariance, PTL DEF SystemSpec, Server!ServerSpec

\* At first nobody holds an id and nobody reads.
LEMMA FeedStarts == SystemInit => Feed!FeedInit
  BY DEF SystemInit, Init, Feed!FeedInit

\* Each kind of step of the client is a step of the feed, or none.
LEMMA FeedSteps == SystemInv /\ [SystemNext]_systemVars => [Feed!FeedNext]_(Feed!feedVars)
<1> SUFFICES ASSUME SystemInv, [SystemNext]_systemVars
             PROVE  [Feed!FeedNext]_(Feed!feedVars)
  OBVIOUS
<1>1. reader \in [Stream -> ReaderState]
  BY DEF SystemInv, IInv, TypeOK
<1> DEFINE used == {s \in Stream : stream[s].id # NONE}
<1>2. SameObjects => used' = used
  BY DEF SameObjects
<1>3. UNCHANGED <<streams, nilled, reader>> /\ used' = used => UNCHANGED Feed!feedVars
  BY DEF Feed!feedVars
<1>4. ASSUME NEW t \in Thread, NEW id \in ID, NEW s \in Stream, Subscribes(t, id, s)
      PROVE  Feed!Subscribe(s, id)
  <2>1. used' = used \cup {s}
    BY <1>4, ClientAssumption DEF Subscribes
  <2> QED
    BY <1>4, <2>1 DEF Subscribes, Feed!Subscribe
<1>5. ASSUME NEW t \in Thread, NEW s \in Stream, Starts(t, s) PROVE Feed!Open(s)
  <2>1. stream[s].id # NONE /\ reader[s] = "none"
    BY <1>5, ClientAssumption DEF Starts, SystemInv, IInv, ArgOK, WaitOK
  <2>2. used' = used
    BY <1>2, <1>5 DEF Starts
  <2> QED
    BY <1>5, <2>1, <2>2 DEF Starts, Feed!Open
<1>6. ASSUME NEW s \in Stream, Stops(s) PROVE Feed!Canceled(s)
  <2>1. used' = used
    BY <1>2, <1>6 DEF Stops
  <2> QED
    BY <1>6, <2>1 DEF Stops, Feed!Canceled
<1>7. ASSUME NEW s \in Stream, NEW n \in Conn, Reads(s, n)
      PROVE  Feed!Created(s) \/ Feed!Canceled(s) \/ UNCHANGED Feed!feedVars
  <2>1. /\ reader[s] \in {"fresh", "created"} /\ reader'[s] \in {"created", "stopped"}
        /\ \A x \in Stream : x # s => reader'[x] = reader[x]
    BY <1>7, ReaderSees
  <2>2. reader' = [reader EXCEPT ![s] = reader'[s]]
    BY <1>1, <1>7, <2>1 DEF Reads, PutResp
  <2>3. UNCHANGED <<streams, nilled>> /\ used' = used
    BY <1>7 DEF Reads
  <2>4. CASE reader'[s] = "stopped"
    BY <2>1, <2>2, <2>3, <2>4 DEF Feed!Canceled
  <2>5. CASE reader'[s] = "created" /\ reader[s] = "fresh"
    BY <2>1, <2>2, <2>3, <2>5 DEF Feed!Created
  <2>6. CASE reader'[s] = "created" /\ reader[s] = "created"
    <3>1. reader' = reader
      BY <1>1, <2>2, <2>6
    <3> QED
      BY <1>3, <2>3, <3>1
  <2> QED
    BY <2>1, <2>4, <2>5, <2>6
<1>8. ASSUME Forgets PROVE \E id \in ID : Feed!Release(id)
  <2>1. used' = used
    BY <1>2, <1>8 DEF Forgets
  <2> QED
    BY <1>8, <2>1 DEF Forgets, Feed!Release
<1>9. ASSUME Stirs \/ \E s \in Stream : Connects(s) \/ Writes(s) PROVE UNCHANGED Feed!feedVars
  <2>1. used' = used
    BY <1>2, <1>9 DEF Stirs, Connects, Writes
  <2> QED
    BY <1>3, <1>9, <2>1 DEF Stirs, Connects, Writes
<1>10. ASSUME NEW c \in Call, Response_(c) \/ ResponseLost(c) PROVE UNCHANGED Feed!feedVars
  <2>1. UNCHANGED <<streams, nilled, reader, stream>>
    BY <1>10, ResponseEffect
  <2> QED
    BY <1>3, <2>1
<1> QED
  BY <1>4, <1>5, <1>6, <1>7, <1>8, <1>9, <1>10, SystemCases DEF Kinds, Feed!FeedNext

\* The watch service keeps the promise of WatchFeed, whatever reconnects, other
\* calls and ticks do: an id has one holder, a subscription is never used
\* again, a feed starts with Created, and what has ended stays so.
THEOREM SystemImplementsFeed == SystemSpec => FeedSpec
<1>1. SystemInit => Feed!FeedInit
  BY FeedStarts
<1>2. SystemInv /\ [SystemNext]_systemVars => [Feed!FeedNext]_(Feed!feedVars)
  BY FeedSteps
<1> QED
  BY <1>1, <1>2, SystemInvariance, PTL DEF SystemSpec, FeedSpec, Feed!FeedSpec

\* After a Canceled the server sends nothing more on a gRPC stream on which the
\* client wrote one create, whichever calls share the id: cancelWatch tells the
\* channel and deletes the entry under the lock of ticks and registrations.
THEOREM NothingAfterCanceled == SystemSpec => CanceledIsLast
<1> SUFFICES ASSUME NEW c \in Call
             PROVE  SystemSpec =>
               [](sendl[c].pc = "send" /\ sendl[c].msg.kind = "canceled" =>
                    [](\/ chan[c].buf = <<>> /\ (sendl[c].pc = "send" => sendl[c].msg.kind = "canceled")
                       \/ Recreated(c)))
  BY DEF CanceledIsLast
<1>1. SystemInv /\ sendl[c].pc = "send" /\ sendl[c].msg.kind = "canceled" => Over(c)
  BY DEF SystemInv, LastOK, OneLife, Over
<1>2. SystemInv /\ [SystemNext]_systemVars /\ Over(c) => Over(c)'
  BY OverStays
<1>3. Over(c) => \/ chan[c].buf = <<>> /\ (sendl[c].pc = "send" => sendl[c].msg.kind = "canceled")
                 \/ Recreated(c)
  BY DEF Over
<1> QED
  BY <1>1, <1>2, <1>3, SystemInvariance, PTL DEF SystemSpec

=============================================================================
