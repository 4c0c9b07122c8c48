------------------------- MODULE WatchClientProofs -------------------------
(***************************************************************************)
(* Proofs about WatchClient, for any sets of threads, ids and streams and  *)
(* any number of reconnects.  IInv, below, is inductive; the safety        *)
(* properties of WatchClient follow from it.                               *)
(***************************************************************************)
EXTENDS WatchClient, TLAPS

\* The stream object a call works on, or will close, has been created.
ArgOK ==
  \A t \in Thread :
    /\ op[t] \in {"watch", "rewatch", "reqc", "cancel", "donec"} =>
         arg[t] \in Stream /\ stream[arg[t]].id \in ID
    /\ \A s \in rest[t] : stream[s].id \in ID

\* An object nobody has created yet does nothing.
FreshOK ==
  \A s \in Stream : stream[s].id = NONE => stream[s].run = "none" /\ stream[s].donec = "open"

\* While run() dials, the gRPC stream it had is gone with its error; when it
\* sends, it has a request and a gRPC stream to send it on.
Dialling(s) == stream[s].run \in {"none", "dial", "backoff"}

RunOK ==
  \A s \in Stream :
    /\ stream[s].run = "send" => stream[s].req \in Request
    /\ Dialling(s) => stream[s].errc = "empty"
    /\ stream[s].wc = 0 => stream[s].run \notin {"select", "send"} /\ reader[s] = "none"

\* A gRPC stream that is served is the last one, and its error is not yet in
\* errc, so run() is not dialling the next.
ServeOK ==
  \A s \in Stream, n \in Conn :
    /\ serve[s][n].pc = "err" => serve[s][n].hand \in Error
    /\ Serving(s, n) => n = stream[s].wc /\ stream[s].errc = "empty" /\ ~Dialling(s)

\* The map holds the open streams, all of them until Close takes it.
MapOK ==
  /\ OneLiveStreamPerID
  /\ LiveIsMapped
  /\ \A id \in ID :
       streams[id] # NONE =>
         stream[streams[id]].id = id /\ stream[streams[id]].donec = "open"
  /\ nilled => \A id \in ID : streams[id] = NONE

\* Who holds mu closes the stream the map has for its id; who closes streams
\* without mu is Close, after it has taken the map.
MuOK ==
  /\ mu # NONE => op[mu] \in {"reqc", "cancel", "donec"}
  /\ \A t \in Thread :
       op[t] \in {"range", "reqc", "cancel", "donec"} =>
         IF mu = t THEN streams[stream[arg[t]].id] = arg[t] ELSE nilled

HasCreate(s) ==
  \E i \in DOMAIN sent[s][stream[s].wc] : sent[s][stream[s].wc][i] = "create"

\* Before it goes back to its select, run() sends the create that is missing.
SubscribeOK ==
  \A s \in Stream :
    reader[s] # "none" =>
      /\ stream[s].run = "select" => HasCreate(s)
      /\ stream[s].run = "send" => stream[s].req = "create" \/ HasCreate(s)

IInv ==
  /\ TypeOK
  /\ ArgOK
  /\ FreshOK
  /\ RunOK
  /\ ServeOK
  /\ MapOK
  /\ MuOK
  /\ SubscribeOK
  /\ CloseStreamNeverPanics

\* The two ways into Watch's critical section: a new call, and Watch calling
\* itself.
LEMMA WatchCases ==
  ASSUME TypeOK, ArgOK, NEW t \in Thread
  PROVE  /\ \A id \in ID : Watch(t, id) =>
              /\ op[t] \in {"idle", "rewatch"} /\ mu = NONE
              /\ WatchRefused(t, id) \/ \E parent \in {"live", "cancelled"} : NewWatcherGrpcStream(t, id, parent)
         /\ WatchAgain(t) => \E id \in ID :
              /\ op[t] \in {"idle", "rewatch"} /\ mu = NONE
              /\ WatchRefused(t, id) \/ \E parent \in {"live", "cancelled"} : NewWatcherGrpcStream(t, id, parent)
<1>1. ASSUME NEW id \in ID, Watch(t, id)
      PROVE  /\ op[t] \in {"idle", "rewatch"} /\ mu = NONE
             /\ WatchRefused(t, id) \/ \E parent \in {"live", "cancelled"} : NewWatcherGrpcStream(t, id, parent)
  BY <1>1 DEF Watch
<1>2. ASSUME WatchAgain(t)
      PROVE  \E id \in ID :
               /\ op[t] \in {"idle", "rewatch"} /\ mu = NONE
               /\ WatchRefused(t, id) \/ \E parent \in {"live", "cancelled"} : NewWatcherGrpcStream(t, id, parent)
  <2>1. stream[arg[t]].id \in ID /\ stream[arg[t]].inctx \in {"live", "cancelled"}
    BY <1>2 DEF WatchAgain, ArgOK, TypeOK, StreamObject
  <2> QED
    BY <1>2, <2>1 DEF WatchAgain
<1> QED
  BY <1>1, <1>2

\* What the critical section of Watch does, field by field: s is the new object.
NewObject(s, t, id) ==
  /\ stream[s].id = NONE /\ stream[s].run = "none"
  /\ stream'[s].id = id /\ stream'[s].run = "dial" /\ stream'[s].donec = "open"
  /\ stream'[s].errc = stream[s].errc /\ stream'[s].wc = stream[s].wc
  /\ \A x \in Stream : x # s => stream'[x] = stream[x]
  /\ streams' = [streams EXCEPT ![id] = s] /\ arg' = [arg EXCEPT ![t] = s]

\* The critical section creates such an object.
LEMMA NewStream ==
  ASSUME TypeOK, FreshOK, NEW t \in Thread, NEW id \in ID, NEW parent \in {"live", "cancelled"},
         NewWatcherGrpcStream(t, id, parent)
  PROVE  \E s \in Stream : NewObject(s, t, id)
<1>1. PICK s \in Stream :
        /\ stream[s].id = NONE
        /\ stream' = [stream EXCEPT ![s].id = id, ![s].inctx = parent, ![s].ctx = parent, ![s].run = "dial"]
        /\ streams' = [streams EXCEPT ![id] = s] /\ arg' = [arg EXCEPT ![t] = s]
  BY DEF NewWatcherGrpcStream, Fresh
<1>2. stream \in [Stream -> StreamObject]
  BY DEF TypeOK
<1>3. stream[s].run = "none" /\ stream[s].donec = "open"
  BY <1>1 DEF FreshOK
<1>4. stream' = [stream EXCEPT ![s] = [stream[s] EXCEPT !.id = id, !.inctx = parent, !.ctx = parent, !.run = "dial"]]
  BY <1>1, <1>2
<1>5. stream'[s] = [stream[s] EXCEPT !.id = id, !.inctx = parent, !.ctx = parent, !.run = "dial"]
  BY <1>2, <1>4
<1>6. /\ stream'[s].id = id /\ stream'[s].run = "dial" /\ stream'[s].donec = "open"
      /\ stream'[s].errc = stream[s].errc /\ stream'[s].wc = stream[s].wc
  BY <1>2, <1>3, <1>5 DEF StreamObject
<1>7. \A x \in Stream : x # s => stream'[x] = stream[x]
  BY <1>2, <1>4
<1> QED
  BY <1>1, <1>3, <1>6, <1>7 DEF NewObject

\* What the critical section of Watch writes in a stream object keeps it one.
LEMMA NewStreamObject ==
  ASSUME NEW x \in StreamObject, NEW id \in ID, NEW parent \in {"live", "cancelled"}
  PROVE  [x EXCEPT !.id = id, !.inctx = parent, !.ctx = parent, !.run = "dial"] \in StreamObject
<1>1. id \in ID \cup {NONE} /\ "dial" \in RunState
  BY DEF RunState
<1> QED
  BY <1>1, Zenon DEF StreamObject

\* And what the end of the application's context writes in it.
LEMMA CancelledStreamObject ==
  ASSUME NEW x \in StreamObject
  PROVE  [x EXCEPT !.inctx = "cancelled", !.ctx = "cancelled"] \in StreamObject
  BY Zenon DEF StreamObject

\* And what run() writes in it when it has sent a request.
LEMMA SentStreamObject ==
  ASSUME NEW x \in StreamObject
  PROVE  [x EXCEPT !.run = "select", !.req = NONE] \in StreamObject
<1>1. "select" \in RunState
  BY DEF RunState
<1> QED
  BY <1>1, Zenon DEF StreamObject

\* A new stream object is a stream object.
LEMMA NewStreamTyped ==
  ASSUME NEW t, NEW id \in ID, NEW parent \in {"live", "cancelled"},
         stream \in [Stream -> StreamObject], NewWatcherGrpcStream(t, id, parent)
  PROVE  stream' \in [Stream -> StreamObject]
<1>1. PICK s \in Stream :
        stream' = [stream EXCEPT ![s].id = id, ![s].inctx = parent, ![s].ctx = parent, ![s].run = "dial"]
  BY DEF NewWatcherGrpcStream, Fresh
<1>2. stream' = [stream EXCEPT ![s] = [stream[s] EXCEPT !.id = id, !.inctx = parent, !.ctx = parent, !.run = "dial"]]
  BY <1>1
<1>3. [stream[s] EXCEPT !.id = id, !.inctx = parent, !.ctx = parent, !.run = "dial"] \in StreamObject
  <2>1. stream[s] \in StreamObject
    OBVIOUS
  <2> QED
    BY <2>1, NewStreamObject
<1> QED
  BY <1>2, <1>3

\* Every step leaves stream objects that are stream objects: what run(), the
\* calls and the serve goroutines write in them.
LEMMA StreamTyped == IInv /\ [Next]_vars => stream' \in [Stream -> StreamObject]
<1> SUFFICES ASSUME IInv, [Next]_vars PROVE stream' \in [Stream -> StreamObject]
  OBVIOUS
<1>1. stream \in [Stream -> StreamObject]
  BY DEF IInv, TypeOK
<1>2. ArgOK
  BY DEF IInv, ArgOK
<1>3. ServeOK
  BY DEF IInv, ServeOK
<1>4. ASSUME NEW t \in Thread, NEW id,
             op[t] \in {"idle", "rewatch"}, mu = NONE,
             WatchRefused(t, id)
      PROVE  stream' \in [Stream -> StreamObject]
  BY <1>4, <1>1, <1>2, <1>3 DEF WatchRefused, ArgOK, ServeOK, StreamObject, Conn, Request,
     Response, Error, RunState, Goto
<1>5. ASSUME NEW t \in Thread, NEW id \in ID, NEW parent \in {"live", "cancelled"},
             op[t] \in {"idle", "rewatch"}, mu = NONE,
             NewWatcherGrpcStream(t, id, parent)
      PROVE  stream' \in [Stream -> StreamObject]
  BY <1>5, <1>1, NewStreamTyped
<1>6. ASSUME NEW t \in Thread, NEW id \in ID,
             CloseStream(t, id)
      PROVE  stream' \in [Stream -> StreamObject]
  BY <1>6, <1>1, <1>2, <1>3 DEF CloseStream, ArgOK, ServeOK, StreamObject, Conn, Request,
     Response, Error, RunState, Goto
<1>7. ASSUME NEW t \in Thread,
             Close(t) \/ WatchSent(t) \/ WatchCtxDone(t) \/ WatchDonec(t) \/ CloseRange(t) \/
             CancelSent(t) \/ CloseCancel(t) \/ CloseDonec(t)
      PROVE  stream' \in [Stream -> StreamObject]
  <2>1. CASE Close(t)
    BY <2>1, <1>1, <1>2, <1>3 DEF Close, ArgOK, ServeOK, StreamObject, Conn, Request, Response,
       Error, RunState, watcherVars, Goto
  <2>2. CASE WatchSent(t)
    BY <2>2, <1>1, <1>2, <1>3 DEF WatchSent, ArgOK, ServeOK, StreamObject, Conn, Request,
       Response, Error, RunState, watcherVars, Goto
  <2>3. CASE WatchCtxDone(t)
    BY <2>3, <1>1, <1>2, <1>3 DEF WatchCtxDone, ArgOK, ServeOK, StreamObject, Conn, Request,
       Response, Error, RunState, watcherVars, Goto
  <2>4. CASE WatchDonec(t)
    BY <2>4, <1>1, <1>2, <1>3 DEF WatchDonec, ArgOK, ServeOK, StreamObject, Conn, Request,
       Response, Error, RunState, watcherVars, Goto
  <2>5. CASE CloseRange(t)
    BY <2>5, <1>1, <1>2, <1>3 DEF CloseRange, ArgOK, ServeOK, StreamObject, Conn, Request,
       Response, Error, RunState, watcherVars, Goto
  <2>6. CASE CancelSent(t)
    BY <2>6, <1>1, <1>2, <1>3 DEF CancelSent, ArgOK, ServeOK, StreamObject, Conn, Request,
       Response, Error, RunState, watcherVars, Goto
  <2>7. CASE CloseCancel(t)
    BY <2>7, <1>1, <1>2, <1>3 DEF CloseCancel, ArgOK, ServeOK, StreamObject, Conn, Request,
       Response, Error, RunState, watcherVars, Goto
  <2>8. CASE CloseDonec(t)
    BY SMTT(30), <2>8, <1>1, <1>2, <1>3 DEF CloseDonec, ArgOK, ServeOK, StreamObject, Conn, Request,
       Response, Error, RunState, watcherVars, Goto
  <2> QED
    BY <1>7, <2>1, <2>2, <2>3, <2>4, <2>5, <2>6, <2>7, <2>8
<1>8. ASSUME NEW s \in Stream, CancelContext(s) PROVE stream' \in [Stream -> StreamObject]
  <2>1. stream' = [stream EXCEPT ![s] = [stream[s] EXCEPT !.inctx = "cancelled", !.ctx = "cancelled"]]
    BY <1>8, <1>1 DEF CancelContext
  <2>2. stream[s] \in StreamObject
    BY <1>1
  <2>3. [stream[s] EXCEPT !.inctx = "cancelled", !.ctx = "cancelled"] \in StreamObject
    BY <2>2, CancelledStreamObject
  <2> QED
    BY <2>1, <2>3, <1>1
<1>9. ASSUME NEW s \in Stream,
             BackoffOver(s) \/ RunErr(s) \/ RunDone(s) \/ Tell(s) \/ Leave(s) \/ DialOk(s) \/
             DialUnavailable(s) \/ DialHalt(s)
      PROVE  stream' \in [Stream -> StreamObject]
  <2>1. CASE BackoffOver(s)
    BY <2>1, <1>1, <1>2, <1>3 DEF BackoffOver, ArgOK, ServeOK, StreamObject, Conn, Request,
       Response, Error, RunState, watcherVars, callVars, Reading
  <2>2. CASE RunErr(s)
    BY <2>2, <1>1, <1>2, <1>3 DEF RunErr, ArgOK, ServeOK, StreamObject, Conn, Request, Response,
       Error, RunState, watcherVars, callVars, Reading
  <2>3. CASE RunDone(s)
    BY <2>3, <1>1, <1>2, <1>3 DEF RunDone, ArgOK, ServeOK, StreamObject, Conn, Request,
       Response, Error, RunState, watcherVars, callVars, Reading
  <2>4. CASE Tell(s)
    BY <2>4, <1>1, <1>2, <1>3 DEF Tell, ArgOK, ServeOK, StreamObject, Conn, Request, Response,
       Error, RunState, watcherVars, callVars, Reading
  <2>5. CASE Leave(s)
    BY <2>5, <1>1, <1>2, <1>3 DEF Leave, ArgOK, ServeOK, StreamObject, Conn, Request, Response,
       Error, RunState, watcherVars, callVars, Reading
  <2>6. CASE DialOk(s)
    BY <2>6, <1>1, <1>2, <1>3 DEF DialOk, ArgOK, ServeOK, StreamObject, Conn, Request, Response,
       Error, RunState, watcherVars, callVars, Reading
  <2>7. CASE DialUnavailable(s)
    BY <2>7, <1>1, <1>2, <1>3 DEF DialUnavailable, ArgOK, ServeOK, StreamObject, Conn, Request,
       Response, Error, RunState, watcherVars, callVars, Reading
  <2>8. CASE DialHalt(s)
    BY <2>8, <1>1, <1>2, <1>3 DEF DialHalt, ArgOK, ServeOK, StreamObject, Conn, Request,
       Response, Error, RunState, watcherVars, callVars, Reading
  <2> QED
    BY <1>9, <2>1, <2>2, <2>3, <2>4, <2>5, <2>6, <2>7, <2>8
<1>10. ASSUME NEW s \in Stream, Send(s) PROVE stream' \in [Stream -> StreamObject]
  <2>1. stream' = [stream EXCEPT ![s] = [stream[s] EXCEPT !.run = "select", !.req = NONE]]
    BY <1>10, <1>1 DEF Send
  <2>2. stream[s] \in StreamObject
    BY <1>1
  <2>3. [stream[s] EXCEPT !.run = "select", !.req = NONE] \in StreamObject
    BY <2>2, SentStreamObject
  <2> QED
    BY <2>1, <2>3, <1>1
<1>11. ASSUME NEW s \in Stream, NEW n \in Conn,
              PutResp(s, n) \/ PutErr(s, n) \/ ServeDonec(s, n) \/ Recv(s, n)
       PROVE  stream' \in [Stream -> StreamObject]
  <2>1. CASE PutResp(s, n)
    BY <2>1, <1>1, <1>2, <1>3 DEF PutResp, ArgOK, ServeOK, StreamObject, Conn, Request,
       Response, Error, RunState, watcherVars, callVars, Reading, ReaderAfter
  <2>2. CASE PutErr(s, n)
    BY <2>2, <1>1, <1>2, <1>3 DEF PutErr, ArgOK, ServeOK, StreamObject, Conn, Request, Response,
       Error, RunState, watcherVars, callVars, Reading, ReaderAfter
  <2>3. CASE ServeDonec(s, n)
    BY <2>3, <1>1, <1>2, <1>3 DEF ServeDonec, ArgOK, ServeOK, StreamObject, Conn, Request,
       Response, Error, RunState, watcherVars, callVars, Reading, ReaderAfter
  <2>4. CASE Recv(s, n)
    BY <2>4, <1>1, <1>2, <1>3 DEF Recv, RecvResp, RecvErr, ArgOK, ServeOK, StreamObject, Conn,
       Request, Response, Error, RunState, watcherVars, callVars, Reading, ReaderAfter
  <2> QED
    BY <1>11, <2>1, <2>2, <2>3, <2>4
<1>12. CASE UNCHANGED vars
  BY <1>12, <1>1, <1>2, <1>3 DEF ArgOK, ServeOK, StreamObject, Conn, Request, Response, Error,
     RunState, vars
<1> QED
  BY <1>4, <1>5, <1>6, <1>7, <1>8, <1>9, <1>10, <1>11, <1>12, WatchCases DEF IInv, Next,
     Application, CallStep, RunStep, ServeStep, Dial

\* It enters the map, and the call works on it.
LEMMA NewStreamMapped ==
  ASSUME NEW t \in Thread, NEW id \in ID, NEW parent, TypeOK, NewWatcherGrpcStream(t, id, parent)
  PROVE  /\ streams' \in [ID -> Stream \cup {NONE}]
         /\ arg' \in [Thread -> Stream \cup {NONE}]
<1>1. PICK s \in Stream : streams' = [streams EXCEPT ![id] = s] /\ arg' = [arg EXCEPT ![t] = s]
  BY DEF NewWatcherGrpcStream, Fresh
<1> QED
  BY <1>1 DEF TypeOK

\* Every step of the client keeps the types: its maps, its channels and where
\* its goroutines are.
LEMMA TypeStep == IInv /\ [Next]_vars => TypeOK'
<1> SUFFICES ASSUME IInv, [Next]_vars PROVE TypeOK'
  OBVIOUS
<1>1. TypeOK /\ ArgOK /\ ServeOK
  BY DEF IInv, TypeOK
<1>2. RunOK
  BY DEF IInv, RunOK
<1>3. stream' \in [Stream -> StreamObject]
  BY StreamTyped
<1>4. ASSUME NEW t \in Thread, NEW id,
             op[t] \in {"idle", "rewatch"}, mu = NONE,
             WatchRefused(t, id)
      PROVE  TypeOK'
  BY <1>4, <1>1, <1>2, <1>3 DEF WatchRefused, TypeOK, ArgOK, ServeOK, RunOK, Conn, Request,
     Response, Error, CallState, ServeState, ReaderState, Goto
<1>5. ASSUME NEW t \in Thread, NEW id \in ID, NEW parent \in {"live", "cancelled"},
             op[t] \in {"idle", "rewatch"}, mu = NONE,
             NewWatcherGrpcStream(t, id, parent)
      PROVE  TypeOK'
  <2>1. streams' \in [ID -> Stream \cup {NONE}] /\ arg' \in [Thread -> Stream \cup {NONE}]
    BY <1>5, <1>1, NewStreamMapped
  <2>2. op' \in [Thread -> CallState]
    BY <1>5, <1>1 DEF NewWatcherGrpcStream, TypeOK, CallState, Goto
  <2>3. UNCHANGED <<mu, nilled, rest, serve, sent, reader, panicked>>
    BY <1>5 DEF NewWatcherGrpcStream
  <2> QED
    BY <1>1, <1>3, <2>1, <2>2, <2>3 DEF TypeOK
<1>6. ASSUME NEW t \in Thread, NEW id \in ID, CloseStream(t, id) PROVE TypeOK'
  BY <1>6, <1>1, <1>2, <1>3 DEF CloseStream, TypeOK, ArgOK, ServeOK, RunOK, Conn, Request,
     Response, Error, CallState, ServeState, ReaderState, Goto
<1>7. ASSUME NEW t \in Thread, Close(t) PROVE TypeOK'
  BY <1>7, <1>1, <1>2, <1>3 DEF Close, TypeOK, ArgOK, ServeOK, RunOK, Conn, Request, Response,
     Error, CallState, ServeState, ReaderState, Goto
<1>8. ASSUME NEW s \in Stream,
             CancelContext(s) \/ BackoffOver(s) \/ RunErr(s) \/ RunDone(s) \/ Tell(s) \/ Leave(s)
             \/ DialUnavailable(s) \/ DialHalt(s)
      PROVE  TypeOK'
  <2>1. CASE CancelContext(s)
    BY <2>1, <1>1, <1>2, <1>3 DEF CancelContext, TypeOK, ArgOK, ServeOK, RunOK, Conn, Request,
       Response, Error, CallState, ServeState, ReaderState, watcherVars, callVars, Reading
  <2>2. CASE BackoffOver(s)
    BY <2>2, <1>1, <1>2, <1>3 DEF BackoffOver, TypeOK, ArgOK, ServeOK, RunOK, Conn, Request,
       Response, Error, CallState, ServeState, ReaderState, watcherVars, callVars, Reading
  <2>3. CASE RunErr(s)
    BY <2>3, <1>1, <1>2, <1>3 DEF RunErr, TypeOK, ArgOK, ServeOK, RunOK, Conn, Request,
       Response, Error, CallState, ServeState, ReaderState, watcherVars, callVars, Reading
  <2>4. CASE RunDone(s)
    BY <2>4, <1>1, <1>2, <1>3 DEF RunDone, TypeOK, ArgOK, ServeOK, RunOK, Conn, Request,
       Response, Error, CallState, ServeState, ReaderState, watcherVars, callVars, Reading
  <2>5. CASE Tell(s)
    <3>1. UNCHANGED <<mu, nilled, streams, op, arg, rest, serve, sent, panicked>>
      BY <2>5 DEF Tell, watcherVars, callVars
    <3>2. reader' \in [Stream -> ReaderState]
      BY <2>5, <1>1 DEF Tell, TypeOK, ReaderState
    <3> QED
      BY <1>1, <1>3, <3>1, <3>2 DEF TypeOK
  <2>6. CASE Leave(s)
    BY SMTT(30), <2>6, <1>1, <1>2, <1>3 DEF Leave, TypeOK, ArgOK, ServeOK, RunOK, Conn, Request, Response,
       Error, CallState, ServeState, ReaderState, watcherVars, callVars, Reading
  <2>7. CASE DialUnavailable(s)
    BY <2>7, <1>1, <1>2, <1>3 DEF DialUnavailable, TypeOK, ArgOK, ServeOK, RunOK, Conn, Request,
       Response, Error, CallState, ServeState, ReaderState, watcherVars, callVars, Reading
  <2>8. CASE DialHalt(s)
    BY <2>8, <1>1, <1>2, <1>3 DEF DialHalt, TypeOK, ArgOK, ServeOK, RunOK, Conn, Request,
       Response, Error, CallState, ServeState, ReaderState, watcherVars, callVars, Reading
  <2> QED
    BY <1>8, <2>1, <2>2, <2>3, <2>4, <2>5, <2>6, <2>7, <2>8
<1>9. ASSUME NEW t \in Thread, WatchSent(t) PROVE TypeOK'
  BY <1>9, <1>1, <1>2, <1>3 DEF WatchSent, TypeOK, ArgOK, ServeOK, RunOK, Conn, Request,
     Response, Error, CallState, ServeState, ReaderState, watcherVars, Goto
<1>10. ASSUME NEW t \in Thread,
              WatchCtxDone(t) \/ WatchDonec(t) \/ CancelSent(t) \/ CloseCancel(t)
       PROVE  TypeOK'
  <2>1. CASE WatchCtxDone(t)
    BY <2>1, <1>1, <1>2, <1>3 DEF WatchCtxDone, TypeOK, ArgOK, ServeOK, RunOK, Conn, Request,
       Response, Error, CallState, ServeState, ReaderState, watcherVars, Goto
  <2>2. CASE WatchDonec(t)
    BY <2>2, <1>1, <1>2, <1>3 DEF WatchDonec, TypeOK, ArgOK, ServeOK, RunOK, Conn, Request,
       Response, Error, CallState, ServeState, ReaderState, watcherVars, Goto
  <2>3. CASE CancelSent(t)
    BY <2>3, <1>1, <1>2, <1>3 DEF CancelSent, TypeOK, ArgOK, ServeOK, RunOK, Conn, Request,
       Response, Error, CallState, ServeState, ReaderState, watcherVars, Goto
  <2>4. CASE CloseCancel(t)
    BY <2>4, <1>1, <1>2, <1>3 DEF CloseCancel, TypeOK, ArgOK, ServeOK, RunOK, Conn, Request,
       Response, Error, CallState, ServeState, ReaderState, watcherVars, Goto
  <2> QED
    BY <1>10, <2>1, <2>2, <2>3, <2>4
<1>11. ASSUME NEW t \in Thread, CloseRange(t) PROVE TypeOK'
  <2>1. arg' \in [Thread -> Stream \cup {NONE}] /\ rest' \in [Thread -> SUBSET Stream]
    <3>1. CASE \E s \in rest[t] : /\ arg' = [arg EXCEPT ![t] = s]
                                  /\ rest' = [rest EXCEPT ![t] = @ \ {s}]
      <4>1. PICK s \in rest[t] : /\ arg' = [arg EXCEPT ![t] = s]
                                /\ rest' = [rest EXCEPT ![t] = rest[t] \ {s}]
        BY <3>1
      <4>2. arg \in [Thread -> Stream \cup {NONE}] /\ rest \in [Thread -> SUBSET Stream]
        BY <1>1 DEF TypeOK
      <4>3. s \in Stream \cup {NONE} /\ rest[t] \ {s} \in SUBSET Stream
        BY <4>2
      <4> QED
        BY ONLY <4>1, <4>2, <4>3
    <3>2. CASE UNCHANGED <<arg, rest>>
      BY <3>2, <1>1 DEF TypeOK
    <3> QED
      BY <1>11, <3>1, <3>2 DEF CloseRange
  <2>2. op' \in [Thread -> CallState]
    BY <1>11, <1>1 DEF CloseRange, TypeOK, CallState, Goto
  <2>3. UNCHANGED <<mu, nilled, streams, stream, serve, sent, reader, panicked>>
    BY <1>11 DEF CloseRange, watcherVars
  <2> QED
    BY <1>1, <1>3, <2>1, <2>2, <2>3 DEF TypeOK
<1>12. ASSUME NEW t \in Thread, CloseDonec(t) PROVE TypeOK'
  BY ZenonT(60), <1>12, <1>1, <1>2, <1>3 DEF CloseDonec, TypeOK, ArgOK, ServeOK, RunOK, Conn, Request,
     Response, Error, CallState, ServeState, ReaderState, watcherVars, Goto
<1>13. ASSUME NEW s \in Stream, Send(s) PROVE TypeOK'
  <2> DEFINE n == stream[s].wc
  <2>1. stream[s].req \in Request /\ n \in Conn
    BY <1>13, <1>1, <1>2 DEF Send, RunOK, TypeOK, StreamObject
  <2>2. Append(sent[s][n], stream[s].req) \in Seq(Request)
    BY <1>1, <2>1 DEF TypeOK
  <2>3. sent' \in [Stream -> [Conn -> Seq(Request)]]
    BY <1>13, <1>1, <2>1, <2>2 DEF Send, TypeOK
  <2> QED
    BY <1>13, <1>1, <1>3, <2>3 DEF Send, TypeOK, watcherVars, callVars
<1>14. ASSUME NEW s \in Stream, DialOk(s) PROVE TypeOK'
  <2> DEFINE n == stream[s].wc + 1
  <2>1. [serve[s][n] EXCEPT !.pc = "recv"] \in [pc : ServeState, hand : Response \cup Error \cup {NONE}]
    <3>1. serve[s][n] \in [pc : ServeState, hand : Response \cup Error \cup {NONE}]
      BY <1>14, <1>1 DEF DialOk, TypeOK
    <3> QED
      BY <3>1 DEF ServeState
  <2>2. serve' \in [Stream -> [Conn -> [pc : ServeState, hand : Response \cup Error \cup {NONE}]]]
    BY <1>14, <1>1, <2>1 DEF DialOk, TypeOK
  <2> QED
    BY <1>14, <1>1, <1>3, <2>2 DEF DialOk, TypeOK, watcherVars, callVars
<1>15. ASSUME NEW s \in Stream, NEW n \in Conn, PutResp(s, n) PROVE TypeOK'
  BY <1>15, <1>1, <1>2, <1>3 DEF PutResp, TypeOK, ArgOK, ServeOK, RunOK, Conn, Request,
     Response, Error, CallState, ServeState, ReaderState, watcherVars, callVars, Reading,
     ReaderAfter
<1>16. ASSUME NEW s \in Stream, NEW n \in Conn, PutErr(s, n) PROVE TypeOK'
  BY <1>16, <1>1, <1>2, <1>3 DEF PutErr, TypeOK, ArgOK, ServeOK, RunOK, Conn, Request,
     Response, Error, CallState, ServeState, ReaderState, watcherVars, callVars
<1>17. ASSUME NEW s \in Stream, NEW n \in Conn, ServeDonec(s, n) PROVE TypeOK'
  BY <1>17, <1>1, <1>2, <1>3 DEF ServeDonec, TypeOK, ArgOK, ServeOK, RunOK, Conn, Request,
     Response, Error, CallState, ServeState, ReaderState, watcherVars, callVars
<1>18. ASSUME NEW s \in Stream, NEW n \in Conn, Recv(s, n) PROVE TypeOK'
  <2>1. ASSUME NEW resp \in Response, RecvResp(s, n, resp) PROVE TypeOK'
    BY <2>1, <1>1, <1>3 DEF RecvResp, TypeOK, ServeState, watcherVars, callVars
  <2>2. ASSUME NEW err \in Error, RecvErr(s, n, err) PROVE TypeOK'
    BY <2>2, <1>1, <1>3 DEF RecvErr, TypeOK, ServeState, watcherVars, callVars
  <2> QED
    BY <1>18, <2>1, <2>2 DEF Recv
<1>19. CASE UNCHANGED vars
  BY <1>19, <1>1, <1>2, <1>3 DEF TypeOK, ArgOK, ServeOK, RunOK, Conn, Request, Response,
     Error, CallState, ServeState, ReaderState, vars
<1> QED
  BY <1>4, <1>5, <1>6, <1>7, <1>8, <1>9, <1>10, <1>11, <1>12, <1>13, <1>14, <1>15, <1>16,
     <1>17, <1>18, <1>19, WatchCases DEF IInv, Next, Application, CallStep, RunStep,
     ServeStep, Dial

\* The calls keep working on objects that Watch created.
LEMMA ArgStep == IInv /\ [Next]_vars => ArgOK'
<1> SUFFICES ASSUME IInv, [Next]_vars PROVE ArgOK'
  OBVIOUS
<1>1. TypeOK /\ FreshOK
  BY DEF IInv
<1>2. /\ rest \in [Thread -> SUBSET Stream]
      /\ streams \in [ID -> Stream \cup {NONE}]
      /\ stream \in [Stream -> StreamObject]
      /\ arg \in [Thread -> Stream \cup {NONE}]
      /\ op \in [Thread -> CallState]
  BY DEF IInv, TypeOK
<1>3. ArgOK
  BY DEF IInv
<1>4. \A id \in ID : streams[id] # NONE => stream[streams[id]].id = id /\ stream[streams[id]].donec = "open"
  BY DEF IInv, MapOK
<1> DEFINE Quiet == /\ UNCHANGED <<op, arg, rest>>
                    /\ \A x \in Stream : stream'[x].id = stream[x].id
<1>5. Quiet => ArgOK'
  BY <1>2, <1>3, ClientAssumption DEF ArgOK
<1>6. ASSUME NEW t \in Thread, NEW id,
             op[t] \in {"idle", "rewatch"}, mu = NONE,
             WatchRefused(t, id)
      PROVE  ArgOK'
  BY <1>6, <1>1, <1>2, <1>3, <1>4, ClientAssumption DEF WatchRefused, ArgOK, StreamObject,
     Goto
<1>7. ASSUME NEW t \in Thread, NEW id \in ID, NEW parent \in {"live", "cancelled"},
             op[t] \in {"idle", "rewatch"}, mu = NONE,
             NewWatcherGrpcStream(t, id, parent)
      PROVE  ArgOK'
  <2>1. PICK s \in Stream : NewObject(s, t, id)
    BY <1>7, <1>1, NewStream
  <2> QED
    BY <1>7, <2>1, <1>2, <1>3, <1>4, ClientAssumption DEF NewWatcherGrpcStream, NewObject, Goto,
       ArgOK, StreamObject
<1>8. ASSUME NEW t \in Thread, NEW id \in ID, CloseStream(t, id) PROVE ArgOK'
  BY <1>8, <1>1, <1>2, <1>3, <1>4, ClientAssumption DEF CloseStream, ArgOK, StreamObject, Goto
<1>9. ASSUME NEW t \in Thread,
             Close(t) \/ WatchSent(t) \/ WatchCtxDone(t) \/ WatchDonec(t) \/ CloseRange(t) \/
             CancelSent(t) \/ CloseCancel(t) \/ CloseDonec(t)
      PROVE  ArgOK'
  BY SMTT(30), <1>9, <1>1, <1>2, <1>3, <1>4, ClientAssumption DEF Close, WatchSent, WatchCtxDone,
     WatchDonec, CloseRange, CancelSent, CloseCancel, CloseDonec, ArgOK, StreamObject,
     watcherVars, Goto
<1>10. ASSUME NEW s \in Stream,
              CancelContext(s) \/ BackoffOver(s) \/ Send(s) \/ RunErr(s) \/ RunDone(s) \/ Tell(s)
              \/ Leave(s) \/ DialOk(s) \/ DialUnavailable(s) \/ DialHalt(s)
       PROVE  Quiet
  BY <1>10, <1>2 DEF CancelContext, BackoffOver, Send, RunErr, RunDone, Tell, Leave, DialOk,
     DialUnavailable, DialHalt, StreamObject, watcherVars, callVars, Reading
<1>11. ASSUME NEW s \in Stream, NEW n \in Conn,
              PutResp(s, n) \/ PutErr(s, n) \/ ServeDonec(s, n) \/ Recv(s, n)
       PROVE  Quiet
  BY <1>11, <1>2 DEF PutResp, PutErr, ServeDonec, Recv, RecvResp, RecvErr, StreamObject,
     watcherVars, callVars, Reading, ReaderAfter
<1>12. CASE UNCHANGED vars
  BY <1>12, <1>1, <1>2, <1>3, <1>4, ClientAssumption DEF ArgOK, StreamObject, vars
<1> QED
  BY <1>5, <1>6, <1>7, <1>8, <1>9, <1>10, <1>11, <1>12, WatchCases DEF IInv, Next,
     Application, CallStep, RunStep, ServeStep, Dial

\* Only the critical section of Watch sets an object going.
LEMMA FreshStep == IInv /\ [Next]_vars => FreshOK'
<1> SUFFICES ASSUME IInv, [Next]_vars PROVE FreshOK'
  OBVIOUS
<1>1. TypeOK /\ FreshOK
  BY DEF IInv
<1>2. /\ rest \in [Thread -> SUBSET Stream]
      /\ streams \in [ID -> Stream \cup {NONE}]
      /\ stream \in [Stream -> StreamObject]
      /\ arg \in [Thread -> Stream \cup {NONE}]
      /\ op \in [Thread -> CallState]
  BY DEF IInv, TypeOK
<1>3. ArgOK
  BY DEF IInv
<1>4. FreshOK
  BY DEF IInv
<1>5. ASSUME NEW t \in Thread, NEW id,
             op[t] \in {"idle", "rewatch"}, mu = NONE,
             WatchRefused(t, id)
      PROVE  FreshOK'
  BY <1>5, <1>1, <1>2, <1>3, <1>4, ClientAssumption DEF WatchRefused, ArgOK, FreshOK,
     StreamObject, Goto
<1>6. ASSUME NEW t \in Thread, NEW id \in ID, NEW parent \in {"live", "cancelled"},
             op[t] \in {"idle", "rewatch"}, mu = NONE,
             NewWatcherGrpcStream(t, id, parent)
      PROVE  FreshOK'
  <2>1. PICK s \in Stream : NewObject(s, t, id)
    BY <1>6, <1>1, NewStream
  <2> QED
    BY <1>6, <2>1, <1>2, <1>3, <1>4, ClientAssumption DEF NewWatcherGrpcStream, NewObject, Goto,
       ArgOK, FreshOK, StreamObject
<1>7. ASSUME NEW t \in Thread, NEW id \in ID, CloseStream(t, id) PROVE FreshOK'
  BY <1>7, <1>1, <1>2, <1>3, <1>4, ClientAssumption DEF CloseStream, ArgOK, FreshOK,
     StreamObject, Goto
<1>8. ASSUME NEW t \in Thread,
             Close(t) \/ WatchSent(t) \/ WatchCtxDone(t) \/ WatchDonec(t) \/ CloseRange(t) \/
             CancelSent(t) \/ CloseCancel(t)
      PROVE  FreshOK'
  <2>1. CASE Close(t)
    BY <2>1, <1>1, <1>2, <1>3, <1>4, ClientAssumption DEF Close, ArgOK, FreshOK, StreamObject,
       watcherVars, Goto
  <2>2. CASE WatchSent(t)
    BY <2>2, <1>1, <1>2, <1>3, <1>4, ClientAssumption DEF WatchSent, ArgOK, FreshOK,
       StreamObject, watcherVars, Goto
  <2>3. CASE WatchCtxDone(t)
    BY <2>3, <1>1, <1>2, <1>3, <1>4, ClientAssumption DEF WatchCtxDone, ArgOK, FreshOK,
       StreamObject, watcherVars, Goto
  <2>4. CASE WatchDonec(t)
    BY <2>4, <1>1, <1>2, <1>3, <1>4, ClientAssumption DEF WatchDonec, ArgOK, FreshOK,
       StreamObject, watcherVars, Goto
  <2>5. CASE CloseRange(t)
    BY <2>5, <1>1, <1>2, <1>3, <1>4, ClientAssumption DEF CloseRange, ArgOK, FreshOK,
       StreamObject, watcherVars, Goto
  <2>6. CASE CancelSent(t)
    BY <2>6, <1>1, <1>2, <1>3, <1>4, ClientAssumption DEF CancelSent, ArgOK, FreshOK,
       StreamObject, watcherVars, Goto
  <2>7. CASE CloseCancel(t)
    BY <2>7, <1>1, <1>2, <1>3, <1>4, ClientAssumption DEF CloseCancel, ArgOK, FreshOK,
       StreamObject, watcherVars, Goto
  <2> QED
    BY <1>8, <2>1, <2>2, <2>3, <2>4, <2>5, <2>6, <2>7
<1>9. ASSUME NEW s \in Stream,
             CancelContext(s) \/ BackoffOver(s) \/ Send(s) \/ RunErr(s) \/ RunDone(s) \/ Tell(s)
             \/ Leave(s) \/ DialOk(s) \/ DialUnavailable(s) \/ DialHalt(s)
      PROVE  FreshOK'
  <2>1. CASE CancelContext(s)
    BY <2>1, <1>1, <1>2, <1>3, <1>4, ClientAssumption DEF CancelContext, ArgOK, FreshOK,
       StreamObject, watcherVars, callVars, Reading
  <2>2. CASE BackoffOver(s)
    BY <2>2, <1>1, <1>2, <1>3, <1>4, ClientAssumption DEF BackoffOver, ArgOK, FreshOK,
       StreamObject, watcherVars, callVars, Reading
  <2>3. CASE Send(s)
    BY <2>3, <1>1, <1>2, <1>3, <1>4, ClientAssumption DEF Send, ArgOK, FreshOK, StreamObject,
       watcherVars, callVars, Reading
  <2>4. CASE RunErr(s)
    BY <2>4, <1>1, <1>2, <1>3, <1>4, ClientAssumption DEF RunErr, ArgOK, FreshOK, StreamObject,
       watcherVars, callVars, Reading
  <2>5. CASE RunDone(s)
    BY <2>5, <1>1, <1>2, <1>3, <1>4, ClientAssumption DEF RunDone, ArgOK, FreshOK, StreamObject,
       watcherVars, callVars, Reading
  <2>6. CASE Tell(s)
    BY <2>6, <1>1, <1>2, <1>3, <1>4, ClientAssumption DEF Tell, ArgOK, FreshOK, StreamObject,
       watcherVars, callVars, Reading
  <2>7. CASE Leave(s)
    BY <2>7, <1>1, <1>2, <1>3, <1>4, ClientAssumption DEF Leave, ArgOK, FreshOK, StreamObject,
       watcherVars, callVars, Reading
  <2>8. CASE DialOk(s)
    BY <2>8, <1>1, <1>2, <1>3, <1>4, ClientAssumption DEF DialOk, ArgOK, FreshOK, StreamObject,
       watcherVars, callVars, Reading
  <2>9. CASE DialUnavailable(s)
    BY <2>9, <1>1, <1>2, <1>3, <1>4, ClientAssumption DEF DialUnavailable, ArgOK, FreshOK,
       StreamObject, watcherVars, callVars, Reading
  <2>10. CASE DialHalt(s)
    BY <2>10, <1>1, <1>2, <1>3, <1>4, ClientAssumption DEF DialHalt, ArgOK, FreshOK,
       StreamObject, watcherVars, callVars, Reading
  <2> QED
    BY <1>9, <2>1, <2>2, <2>3, <2>4, <2>5, <2>6, <2>7, <2>8, <2>9, <2>10
<1>10. ASSUME NEW t \in Thread, CloseDonec(t) PROVE FreshOK'
  <2>1. arg[t] \in Stream /\ stream[arg[t]].id # NONE
    BY <1>10, <1>3, ClientAssumption DEF CloseDonec, ArgOK
  <2>2. \A x \in Stream : /\ stream'[x].id = stream[x].id /\ stream'[x].run = stream[x].run
                          /\ x # arg[t] => stream'[x].donec = stream[x].donec
    BY <1>10, <1>2, <2>1 DEF CloseDonec, StreamObject
  <2> QED
    BY <1>4, <2>1, <2>2 DEF FreshOK
<1>11. ASSUME NEW s \in Stream, NEW n \in Conn,
              PutResp(s, n) \/ PutErr(s, n) \/ ServeDonec(s, n) \/ Recv(s, n)
       PROVE  FreshOK'
  <2>1. CASE PutResp(s, n)
    BY <2>1, <1>1, <1>2, <1>3, <1>4, ClientAssumption DEF PutResp, ArgOK, FreshOK, StreamObject,
       watcherVars, callVars, Reading, ReaderAfter
  <2>2. CASE PutErr(s, n)
    BY <2>2, <1>1, <1>2, <1>3, <1>4, ClientAssumption DEF PutErr, ArgOK, FreshOK, StreamObject,
       watcherVars, callVars, Reading, ReaderAfter
  <2>3. CASE ServeDonec(s, n)
    BY <2>3, <1>1, <1>2, <1>3, <1>4, ClientAssumption DEF ServeDonec, ArgOK, FreshOK,
       StreamObject, watcherVars, callVars, Reading, ReaderAfter
  <2>4. CASE Recv(s, n)
    BY <2>4, <1>1, <1>2, <1>3, <1>4, ClientAssumption DEF Recv, RecvResp, RecvErr, ArgOK,
       FreshOK, StreamObject, watcherVars, callVars, Reading, ReaderAfter
  <2> QED
    BY <1>11, <2>1, <2>2, <2>3, <2>4
<1>12. CASE UNCHANGED vars
  BY <1>12, <1>1, <1>2, <1>3, <1>4, ClientAssumption DEF ArgOK, FreshOK, StreamObject, vars
<1> QED
  BY <1>5, <1>6, <1>7, <1>8, <1>9, <1>10, <1>11, <1>12, WatchCases DEF IInv, Next,
     Application, CallStep, RunStep, ServeStep, Dial

\* run() keeps its request and its gRPC stream in order: it dials only when it
\* has taken the error of the last gRPC stream.
LEMMA RunOKStep == IInv /\ [Next]_vars => RunOK'
<1> SUFFICES ASSUME IInv, [Next]_vars PROVE RunOK'
  OBVIOUS
<1>1. TypeOK /\ FreshOK
  BY DEF IInv
<1>2. /\ rest \in [Thread -> SUBSET Stream]
      /\ streams \in [ID -> Stream \cup {NONE}]
      /\ stream \in [Stream -> StreamObject]
      /\ arg \in [Thread -> Stream \cup {NONE}]
      /\ op \in [Thread -> CallState]
  BY DEF IInv, TypeOK
<1>3. RunOK
  BY DEF IInv
<1>4. ServeOK
  BY DEF IInv
<1> DEFINE Quiet == /\ reader' = reader
                    /\ \A x \in Stream : /\ stream'[x].run = stream[x].run /\ stream'[x].req = stream[x].req
                                         /\ stream'[x].errc = stream[x].errc /\ stream'[x].wc = stream[x].wc
<1>5. Quiet => RunOK'
  BY <1>3 DEF RunOK, Dialling
<1>6. ASSUME NEW t \in Thread, NEW id,
             op[t] \in {"idle", "rewatch"}, mu = NONE,
             WatchRefused(t, id)
      PROVE  Quiet
  BY <1>6, <1>2 DEF WatchRefused, StreamObject, Goto
<1>7. ASSUME NEW t \in Thread, NEW id \in ID, NEW parent \in {"live", "cancelled"},
             op[t] \in {"idle", "rewatch"}, mu = NONE,
             NewWatcherGrpcStream(t, id, parent)
      PROVE  RunOK'
  <2>1. PICK s \in Stream : NewObject(s, t, id)
    BY <1>7, <1>1, NewStream
  <2> QED
    BY <1>7, <2>1, <1>2, <1>3, <1>4, ClientAssumption DEF NewWatcherGrpcStream, NewObject, Goto,
       RunOK, Dialling, ServeOK, StreamObject, Conn, Error, Serving, Request
<1>8. ASSUME NEW t \in Thread, NEW id \in ID, CloseStream(t, id) PROVE Quiet
  BY <1>8, <1>2 DEF CloseStream, StreamObject, Goto
<1>9. ASSUME NEW t \in Thread,
             Close(t) \/ WatchCtxDone(t) \/ WatchDonec(t) \/ CloseRange(t) \/ CloseCancel(t) \/
             CloseDonec(t)
      PROVE  Quiet
  BY <1>9, <1>2 DEF Close, WatchCtxDone, WatchDonec, CloseRange, CloseCancel, CloseDonec,
     StreamObject, watcherVars, Goto
<1>10. ASSUME NEW s \in Stream,
              CancelContext(s) \/ BackoffOver(s) \/ Send(s) \/ RunErr(s) \/ RunDone(s) \/ Leave(s)
              \/ DialOk(s) \/ DialUnavailable(s) \/ DialHalt(s)
       PROVE  RunOK'
  <2>1. CASE CancelContext(s)
    BY <2>1, <1>1, <1>2, <1>3, <1>4, ClientAssumption DEF CancelContext, RunOK, Dialling,
       ServeOK, StreamObject, Conn, Error, Serving, Request, watcherVars, callVars
  <2>2. CASE BackoffOver(s)
    BY <2>2, <1>1, <1>2, <1>3, <1>4, ClientAssumption DEF BackoffOver, RunOK, Dialling, ServeOK,
       StreamObject, Conn, Error, Serving, Request, watcherVars, callVars
  <2>3. CASE Send(s)
    BY <2>3, <1>1, <1>2, <1>3, <1>4, ClientAssumption DEF Send, RunOK, Dialling, ServeOK,
       StreamObject, Conn, Error, Serving, Request, watcherVars, callVars
  <2>4. CASE RunErr(s)
    BY <2>4, <1>1, <1>2, <1>3, <1>4, ClientAssumption DEF RunErr, RunOK, Dialling, ServeOK,
       StreamObject, Conn, Error, Serving, Request, watcherVars, callVars
  <2>5. CASE RunDone(s)
    BY <2>5, <1>1, <1>2, <1>3, <1>4, ClientAssumption DEF RunDone, RunOK, Dialling, ServeOK,
       StreamObject, Conn, Error, Serving, Request, watcherVars, callVars
  <2>6. CASE Leave(s)
    BY <2>6, <1>1, <1>2, <1>3, <1>4, ClientAssumption DEF Leave, RunOK, Dialling, ServeOK,
       StreamObject, Conn, Error, Serving, Request, watcherVars, callVars
  <2>7. CASE DialOk(s)
    BY <2>7, <1>1, <1>2, <1>3, <1>4, ClientAssumption DEF DialOk, RunOK, Dialling, ServeOK,
       StreamObject, Conn, Error, Serving, Request, watcherVars, callVars
  <2>8. CASE DialUnavailable(s)
    BY <2>8, <1>1, <1>2, <1>3, <1>4, ClientAssumption DEF DialUnavailable, RunOK, Dialling,
       ServeOK, StreamObject, Conn, Error, Serving, Request, watcherVars, callVars
  <2>9. CASE DialHalt(s)
    BY <2>9, <1>1, <1>2, <1>3, <1>4, ClientAssumption DEF DialHalt, RunOK, Dialling, ServeOK,
       StreamObject, Conn, Error, Serving, Request, watcherVars, callVars
  <2> QED
    BY <1>10, <2>1, <2>2, <2>3, <2>4, <2>5, <2>6, <2>7, <2>8, <2>9
<1>11. ASSUME NEW t \in Thread, WatchSent(t) PROVE RunOK'
  BY <1>11, <1>1, <1>2, <1>3, <1>4, ClientAssumption DEF WatchSent, RunOK, Dialling, ServeOK,
     StreamObject, Conn, Error, Serving, Request, watcherVars, Goto
<1>12. ASSUME NEW t \in Thread, CancelSent(t) PROVE RunOK'
  BY <1>12, <1>1, <1>2, <1>3, <1>4, ClientAssumption DEF CancelSent, RunOK, Dialling, ServeOK,
     StreamObject, Conn, Error, Serving, Request, watcherVars, Goto
<1>13. ASSUME NEW s \in Stream, Tell(s) PROVE RunOK'
  <2>1. /\ stream'[s].run = "leave" /\ stream'[s].wc = stream[s].wc /\ reader' = [reader EXCEPT ![s] = "stopped"]
        /\ \A x \in Stream : x # s => stream'[x] = stream[x]
    BY <1>13, <1>2 DEF Tell, StreamObject
  <2>2. stream[s].wc # 0
    BY <1>13, <1>3 DEF Tell, RunOK, Reading
  <2> QED
    BY <1>2, <1>3, <2>1, <2>2 DEF RunOK, Dialling
<1>14. ASSUME NEW s \in Stream, NEW n \in Conn, PutResp(s, n) PROVE RunOK'
  BY <1>14, <1>1, <1>2, <1>3, <1>4, ClientAssumption DEF PutResp, RunOK, Dialling, ServeOK,
     StreamObject, Conn, Error, Serving, Request, watcherVars, callVars, Reading, ReaderAfter
<1>15. ASSUME NEW s \in Stream, NEW n \in Conn, PutErr(s, n) PROVE RunOK'
  BY <1>15, <1>1, <1>2, <1>3, <1>4, ClientAssumption DEF PutErr, RunOK, Dialling, ServeOK,
     StreamObject, Conn, Error, Serving, Request, watcherVars, callVars
<1>16. ASSUME NEW s \in Stream, NEW n \in Conn,
              ServeDonec(s, n) \/ Recv(s, n)
       PROVE  Quiet
  BY <1>16, <1>2 DEF ServeDonec, Recv, RecvResp, RecvErr, StreamObject, watcherVars, callVars
<1>17. CASE UNCHANGED vars
  BY <1>17, <1>1, <1>2, <1>3, <1>4, ClientAssumption DEF RunOK, Dialling, ServeOK,
     StreamObject, Conn, Error, Serving, Request, vars
<1> QED
  BY <1>5, <1>6, <1>7, <1>8, <1>9, <1>10, <1>11, <1>12, <1>13, <1>14, <1>15, <1>16, <1>17,
     WatchCases DEF IInv, Next, Application, CallStep, RunStep, ServeStep, Dial

\* Every step keeps at most one gRPC stream served per object, the last one:
\* run() opens the next only after it took the error of the one before.
LEMMA ServeStepOK == IInv /\ [Next]_vars => ServeOK'
<1> SUFFICES ASSUME IInv, [Next]_vars PROVE ServeOK'
  OBVIOUS
<1>1. TypeOK /\ FreshOK
  BY DEF IInv
<1>2. /\ rest \in [Thread -> SUBSET Stream]
      /\ streams \in [ID -> Stream \cup {NONE}]
      /\ stream \in [Stream -> StreamObject]
      /\ arg \in [Thread -> Stream \cup {NONE}]
      /\ op \in [Thread -> CallState]
  BY DEF IInv, TypeOK
<1>3. ServeOK
  BY DEF IInv
<1>4. RunOK
  BY DEF IInv
<1>5. serve \in [Stream -> [Conn -> [pc : ServeState, hand : Response \cup Error \cup {NONE}]]]
  BY DEF IInv, TypeOK
<1> DEFINE Quiet == /\ serve' = serve
                    /\ \A x \in Stream : /\ stream'[x].wc = stream[x].wc /\ stream'[x].errc = stream[x].errc
                                         /\ Dialling(x)' => Dialling(x)
<1>6. Quiet => ServeOK'
  BY <1>3 DEF ServeOK, Serving, Dialling
<1>7. ASSUME NEW t \in Thread, NEW id,
             op[t] \in {"idle", "rewatch"}, mu = NONE,
             WatchRefused(t, id)
      PROVE  Quiet
  BY <1>7, <1>2 DEF WatchRefused, StreamObject, Dialling, Goto
<1>8. ASSUME NEW t \in Thread, NEW id \in ID, NEW parent \in {"live", "cancelled"},
             op[t] \in {"idle", "rewatch"}, mu = NONE,
             NewWatcherGrpcStream(t, id, parent)
      PROVE  ServeOK'
  <2>1. PICK s \in Stream : NewObject(s, t, id)
    BY <1>8, <1>1, NewStream
  <2> QED
    BY <1>8, <2>1, <1>2, <1>3, <1>4, <1>5, ClientAssumption DEF NewWatcherGrpcStream, NewObject,
       Goto, ServeOK, RunOK, Serving, Dialling, StreamObject, Conn
<1>9. ASSUME NEW t \in Thread, NEW id \in ID, CloseStream(t, id) PROVE Quiet
  BY <1>9, <1>2 DEF CloseStream, StreamObject, Dialling, Goto
<1>10. ASSUME NEW t \in Thread,
              Close(t) \/ WatchSent(t) \/ WatchCtxDone(t) \/ WatchDonec(t) \/ CloseRange(t) \/
              CancelSent(t) \/ CloseCancel(t) \/ CloseDonec(t)
       PROVE  Quiet
  BY SMTT(30), <1>10, <1>2 DEF Close, WatchSent, WatchCtxDone, WatchDonec, CloseRange, CancelSent,
     CloseCancel, CloseDonec, StreamObject, Dialling, watcherVars, Goto
<1>11. ASSUME NEW s \in Stream,
              CancelContext(s) \/ BackoffOver(s) \/ Send(s) \/ RunDone(s) \/ Tell(s) \/ Leave(s)
              \/ DialUnavailable(s) \/ DialHalt(s)
       PROVE  Quiet
  BY <1>11, <1>2 DEF CancelContext, BackoffOver, Send, RunDone, Tell, Leave, DialUnavailable,
     DialHalt, StreamObject, Dialling, watcherVars, callVars, Reading
<1>12. ASSUME NEW s \in Stream, RunErr(s) PROVE ServeOK'
  BY <1>12, <1>1, <1>2, <1>3, <1>4, <1>5, ClientAssumption DEF RunErr, ServeOK, RunOK,
     Serving, Dialling, StreamObject, Conn, watcherVars, callVars
<1>13. ASSUME NEW s \in Stream, DialOk(s) PROVE ServeOK'
  BY <1>13, <1>1, <1>2, <1>3, <1>4, <1>5, ClientAssumption DEF DialOk, ServeOK, RunOK,
     Serving, Dialling, StreamObject, Conn, watcherVars, callVars
<1>14. ASSUME NEW s \in Stream, NEW n \in Conn, PutResp(s, n) PROVE ServeOK'
  BY <1>14, <1>1, <1>2, <1>3, <1>4, <1>5, ClientAssumption DEF PutResp, ServeOK, RunOK,
     Serving, Dialling, StreamObject, Conn, watcherVars, callVars, Reading, ReaderAfter
<1>15. ASSUME NEW s \in Stream, NEW n \in Conn, PutErr(s, n) PROVE ServeOK'
  BY <1>15, <1>1, <1>2, <1>3, <1>4, <1>5, ClientAssumption DEF PutErr, ServeOK, RunOK,
     Serving, Dialling, StreamObject, Conn, watcherVars, callVars
<1>16. ASSUME NEW s \in Stream, NEW n \in Conn, ServeDonec(s, n) PROVE ServeOK'
  BY <1>16, <1>1, <1>2, <1>3, <1>4, <1>5, ClientAssumption DEF ServeDonec, ServeOK, RunOK,
     Serving, Dialling, StreamObject, Conn, watcherVars, callVars
<1>17. ASSUME NEW s \in Stream, NEW n \in Conn, Recv(s, n) PROVE ServeOK'
  <2>1. ASSUME NEW resp \in Response, RecvResp(s, n, resp) PROVE ServeOK'
    BY <2>1, <1>2, <1>3, <1>5 DEF RecvResp, ServeOK, Serving, Dialling, watcherVars, callVars
  <2>2. ASSUME NEW err \in Error, RecvErr(s, n, err) PROVE ServeOK'
    BY <2>2, <1>2, <1>3, <1>5 DEF RecvErr, ServeOK, Serving, Dialling, watcherVars, callVars
  <2> QED
    BY <1>17, <2>1, <2>2 DEF Recv
<1>18. CASE UNCHANGED vars
  BY <1>18, <1>1, <1>2, <1>3, <1>4, <1>5, ClientAssumption DEF ServeOK, RunOK, Serving,
     Dialling, StreamObject, Conn, vars
<1> QED
  BY <1>6, <1>7, <1>8, <1>9, <1>10, <1>11, <1>12, <1>13, <1>14, <1>15, <1>16, <1>17, <1>18,
     WatchCases DEF IInv, Next, Application, CallStep, RunStep, ServeStep, Dial

\* Every step keeps the map and the open donecs together: Watch enters, and
\* closeStream, CloseStream and Close remove what they close.
LEMMA MapStep == IInv /\ [Next]_vars => MapOK'
<1> SUFFICES ASSUME IInv, [Next]_vars PROVE MapOK'
  OBVIOUS
<1>1. TypeOK /\ FreshOK
  BY DEF IInv
<1>2. /\ rest \in [Thread -> SUBSET Stream]
      /\ streams \in [ID -> Stream \cup {NONE}]
      /\ stream \in [Stream -> StreamObject]
      /\ arg \in [Thread -> Stream \cup {NONE}]
      /\ op \in [Thread -> CallState]
  BY DEF IInv, TypeOK
<1>3. MapOK
  BY DEF IInv
<1>4. ArgOK
  BY DEF IInv
<1>5. MuOK
  BY DEF IInv
<1> DEFINE Quiet == /\ UNCHANGED <<nilled, streams>>
                    /\ \A x \in Stream : stream'[x].id = stream[x].id /\ stream'[x].donec = stream[x].donec
<1>6. Quiet => MapOK'
  BY SMTT(30), <1>2, <1>3 DEF MapOK, OneLiveStreamPerID, LiveIsMapped, Live
<1>7. ASSUME NEW t \in Thread, NEW id,
             op[t] \in {"idle", "rewatch"}, mu = NONE,
             WatchRefused(t, id)
      PROVE  Quiet
  BY <1>7, <1>2 DEF WatchRefused, StreamObject, Goto
<1>8. ASSUME NEW t \in Thread, NEW id \in ID, NEW parent \in {"live", "cancelled"},
             op[t] \in {"idle", "rewatch"}, mu = NONE,
             NewWatcherGrpcStream(t, id, parent)
      PROVE  MapOK'
  <2>1. PICK s \in Stream : NewObject(s, t, id)
    BY <1>8, <1>1, NewStream
  <2> QED
    <3>1. ~nilled /\ ~nilled' /\ streams[id] = NONE
      BY <1>8 DEF NewWatcherGrpcStream
    <3>2. /\ streams'[id] = s /\ \A i \in ID : i # id => streams'[i] = streams[i]
          /\ stream[s].id = NONE /\ stream'[s].id = id /\ stream'[s].donec = "open"
          /\ \A x \in Stream : x # s => stream'[x] = stream[x]
      BY <1>2, <2>1 DEF NewObject
    <3>3. \A x \in Live' : x # s => x \in Live /\ streams[stream[x].id] = x /\ stream[x].id \in ID
      BY <1>2, <1>3, <3>1, <3>2 DEF Live, MapOK, LiveIsMapped, StreamObject
    <3>4. LiveIsMapped' /\ OneLiveStreamPerID'
      BY <3>1, <3>2, <3>3, ClientAssumption DEF Live, LiveIsMapped, OneLiveStreamPerID
    <3>5. \A i \in ID : streams'[i] # NONE =>
             stream'[streams'[i]].id = i /\ stream'[streams'[i]].donec = "open"
      BY <1>2, <1>3, <3>2, ClientAssumption DEF MapOK
    <3> QED
      BY <3>1, <3>4, <3>5 DEF MapOK
<1>9. ASSUME NEW t \in Thread, NEW id \in ID, CloseStream(t, id) PROVE Quiet
  BY <1>9, <1>2 DEF CloseStream, StreamObject, Goto
<1>10. ASSUME NEW t \in Thread, Close(t) PROVE MapOK'
  BY <1>10, <1>1, <1>2, <1>3, <1>4, <1>5, ClientAssumption DEF Close, MapOK,
     OneLiveStreamPerID, LiveIsMapped, Live, ArgOK, MuOK, StreamObject, Goto
<1>11. ASSUME NEW s \in Stream, CancelContext(s) PROVE Quiet
  BY <1>11, <1>2 DEF CancelContext, StreamObject, watcherVars, callVars
<1>12. ASSUME NEW t \in Thread,
              WatchSent(t) \/ WatchCtxDone(t) \/ WatchDonec(t) \/ CloseRange(t) \/ CancelSent(t)
              \/ CloseCancel(t)
       PROVE  Quiet
  BY <1>12, <1>2 DEF WatchSent, WatchCtxDone, WatchDonec, CloseRange, CancelSent, CloseCancel,
     StreamObject, watcherVars, Goto
<1>13. ASSUME NEW t \in Thread, CloseDonec(t) PROVE MapOK'
  <2> DEFINE u == arg[t]
  <2>1. /\ u \in Stream /\ stream[u].id \in ID
        /\ IF mu = t THEN streams[stream[u].id] = u ELSE nilled
    BY <1>13, <1>4, <1>5 DEF CloseDonec, ArgOK, MuOK
  <2>2. CASE stream[u].donec = "closed"
    BY <1>13, <2>2, <1>3 DEF CloseDonec, MapOK, OneLiveStreamPerID, LiveIsMapped, Live, watcherVars
  <2>3. CASE stream[u].donec = "open"
    <3>1. /\ stream'[u].donec = "closed" /\ nilled' = nilled
          /\ \A x \in Stream : stream'[x].id = stream[x].id
          /\ \A x \in Stream : x # u => stream'[x] = stream[x]
      BY <1>13, <1>2, <2>1, <2>3 DEF CloseDonec, StreamObject
    <3>2. CASE mu = t
      <4>1. streams' = [streams EXCEPT ![stream[u].id] = NONE]
        BY <1>13, <2>3, <3>2 DEF CloseDonec
      <4>2. \A id \in ID : streams'[id] = IF id = stream[u].id THEN NONE ELSE streams[id]
        BY <4>1, <1>2
      <4>3. \A id \in ID : streams'[id] # NONE => streams[id] # u
        BY <4>2, <1>3, <2>1, ClientAssumption DEF MapOK
      <4>4. \A x \in Live' : x \in Live /\ x # u /\ stream'[x].id = stream[x].id
        BY <3>1 DEF Live
      <4>5. OneLiveStreamPerID'
        BY <1>3, <4>4 DEF MapOK, OneLiveStreamPerID
      <4>6. LiveIsMapped'
        <5> SUFFICES ASSUME NEW x \in Live', ~nilled PROVE streams'[stream[x].id] = x
          BY <3>1, <4>4 DEF LiveIsMapped
        <5>1. x \in Live /\ x # u /\ stream[x].id \in ID
          BY <1>2, <4>4 DEF Live, StreamObject
        <5>2. streams[stream[x].id] = x
          BY <1>3, <5>1 DEF MapOK, LiveIsMapped
        <5> QED
          BY <2>1, <3>2, <4>2, <5>1, <5>2
      <4>7. \A id \in ID : streams'[id] # NONE =>
              stream'[streams'[id]].id = id /\ stream'[streams'[id]].donec = "open"
        BY <1>2, <1>3, <3>1, <4>2, <4>3 DEF MapOK
      <4> QED
        BY <1>3, <3>1, <4>2, <4>5, <4>6, <4>7 DEF MapOK
    <3>3. CASE mu # t
      <4>1. streams' = streams
        BY <1>13, <2>3, <3>3 DEF CloseDonec
      <4> QED
        BY <1>3, <2>1, <3>1, <3>3, <4>1 DEF MapOK, OneLiveStreamPerID, LiveIsMapped, Live
    <3> QED
      BY <3>2, <3>3
  <2> QED
    BY <1>2, <2>1, <2>2, <2>3 DEF StreamObject
<1>14. ASSUME NEW s \in Stream,
              BackoffOver(s) \/ RunDone(s) \/ Tell(s) \/ DialUnavailable(s) \/ DialHalt(s)
       PROVE  Quiet
  BY <1>14, <1>2 DEF BackoffOver, RunDone, Tell, DialUnavailable, DialHalt, StreamObject,
     watcherVars, callVars, Reading
<1>15. ASSUME NEW s \in Stream, Send(s) PROVE Quiet
  BY <1>15, <1>2 DEF Send, StreamObject, watcherVars, callVars
<1>16. ASSUME NEW s \in Stream, RunErr(s) PROVE Quiet
  BY <1>16, <1>2 DEF RunErr, StreamObject, watcherVars, callVars
<1>17. ASSUME NEW s \in Stream, Leave(s) PROVE MapOK'
  BY <1>17, <1>1, <1>2, <1>3, <1>4, <1>5, ClientAssumption DEF Leave, MapOK,
     OneLiveStreamPerID, LiveIsMapped, Live, ArgOK, MuOK, StreamObject, callVars
<1>18. ASSUME NEW s \in Stream, DialOk(s) PROVE Quiet
  BY <1>18, <1>2 DEF DialOk, StreamObject, watcherVars, callVars
<1>19. ASSUME NEW s \in Stream, NEW n \in Conn,
              PutResp(s, n) \/ PutErr(s, n) \/ ServeDonec(s, n) \/ Recv(s, n)
       PROVE  Quiet
  BY <1>19, <1>2 DEF PutResp, PutErr, ServeDonec, Recv, RecvResp, RecvErr, StreamObject,
     watcherVars, callVars, Reading, ReaderAfter
<1>20. CASE UNCHANGED vars
  BY <1>20, <1>1, <1>2, <1>3, <1>4, <1>5, ClientAssumption DEF MapOK, OneLiveStreamPerID,
     LiveIsMapped, Live, ArgOK, MuOK, StreamObject, vars
<1> QED
  BY <1>6, <1>7, <1>8, <1>9, <1>10, <1>11, <1>12, <1>13, <1>14, <1>15, <1>16, <1>17, <1>18,
     <1>19, <1>20, WatchCases DEF IInv, Next, Application, CallStep, RunStep, ServeStep, Dial

\* Every step keeps mu with the call that closes what the map holds.
LEMMA MuStep == IInv /\ [Next]_vars => MuOK'
<1> SUFFICES ASSUME IInv, [Next]_vars PROVE MuOK'
  OBVIOUS
<1>1. TypeOK /\ FreshOK
  BY DEF IInv
<1>2. /\ rest \in [Thread -> SUBSET Stream]
      /\ streams \in [ID -> Stream \cup {NONE}]
      /\ stream \in [Stream -> StreamObject]
      /\ arg \in [Thread -> Stream \cup {NONE}]
      /\ op \in [Thread -> CallState]
  BY DEF IInv, TypeOK
<1>3. MuOK
  BY DEF IInv
<1>4. ArgOK
  BY DEF IInv
<1>5. MapOK
  BY DEF IInv
<1>6. mu \in Thread \cup {NONE}
  BY DEF IInv, TypeOK
<1>7. ASSUME NEW t \in Thread, NEW id,
             op[t] \in {"idle", "rewatch"}, mu = NONE,
             WatchRefused(t, id)
      PROVE  MuOK'
  BY <1>7, <1>1, <1>2, <1>3, <1>4, <1>5, <1>6, ClientAssumption DEF WatchRefused, MuOK, ArgOK,
     MapOK, StreamObject, CallState, Goto
<1>8. ASSUME NEW t \in Thread, NEW id \in ID, NEW parent \in {"live", "cancelled"},
             op[t] \in {"idle", "rewatch"}, mu = NONE,
             NewWatcherGrpcStream(t, id, parent)
      PROVE  MuOK'
  <2>1. PICK s \in Stream : NewObject(s, t, id)
    BY <1>8, <1>1, NewStream
  <2> QED
    BY <1>8, <2>1, <1>2, <1>3, <1>4, <1>5, <1>6, ClientAssumption DEF NewWatcherGrpcStream,
       NewObject, Goto, MuOK, ArgOK, MapOK, StreamObject, CallState
<1>9. ASSUME NEW t \in Thread, NEW id \in ID, CloseStream(t, id) PROVE MuOK'
  BY <1>9, <1>1, <1>2, <1>3, <1>4, <1>5, <1>6, ClientAssumption DEF CloseStream, MuOK, ArgOK,
     MapOK, StreamObject, CallState, Goto
<1>10. ASSUME NEW t \in Thread,
              Close(t) \/ WatchSent(t) \/ WatchCtxDone(t) \/ WatchDonec(t) \/ CloseRange(t) \/
              CancelSent(t) \/ CloseCancel(t) \/ CloseDonec(t)
       PROVE  MuOK'
  <2>1. CASE Close(t)
    BY <2>1, <1>1, <1>2, <1>3, <1>4, <1>5, <1>6, ClientAssumption DEF Close, MuOK, ArgOK, MapOK,
       StreamObject, CallState, watcherVars, Goto
  <2>2. CASE WatchSent(t)
    BY <2>2, <1>1, <1>2, <1>3, <1>4, <1>5, <1>6, ClientAssumption DEF WatchSent, MuOK, ArgOK,
       MapOK, StreamObject, CallState, watcherVars, Goto
  <2>3. CASE WatchCtxDone(t)
    BY <2>3, <1>1, <1>2, <1>3, <1>4, <1>5, <1>6, ClientAssumption DEF WatchCtxDone, MuOK, ArgOK,
       MapOK, StreamObject, CallState, watcherVars, Goto
  <2>4. CASE WatchDonec(t)
    BY <2>4, <1>1, <1>2, <1>3, <1>4, <1>5, <1>6, ClientAssumption DEF WatchDonec, MuOK, ArgOK,
       MapOK, StreamObject, CallState, watcherVars, Goto
  <2>5. CASE CloseRange(t)
    BY <2>5, <1>1, <1>2, <1>3, <1>4, <1>5, <1>6, ClientAssumption DEF CloseRange, MuOK, ArgOK,
       MapOK, StreamObject, CallState, watcherVars, Goto
  <2>6. CASE CancelSent(t)
    BY <2>6, <1>1, <1>2, <1>3, <1>4, <1>5, <1>6, ClientAssumption DEF CancelSent, MuOK, ArgOK,
       MapOK, StreamObject, CallState, watcherVars, Goto
  <2>7. CASE CloseCancel(t)
    BY <2>7, <1>1, <1>2, <1>3, <1>4, <1>5, <1>6, ClientAssumption DEF CloseCancel, MuOK, ArgOK,
       MapOK, StreamObject, CallState, watcherVars, Goto
  <2>8. CASE CloseDonec(t)
    BY <2>8, <1>1, <1>2, <1>3, <1>4, <1>5, <1>6, ClientAssumption DEF CloseDonec, MuOK, ArgOK,
       MapOK, StreamObject, CallState, watcherVars, Goto
  <2> QED
    BY <1>10, <2>1, <2>2, <2>3, <2>4, <2>5, <2>6, <2>7, <2>8
<1>11. ASSUME NEW s \in Stream,
              CancelContext(s) \/ BackoffOver(s) \/ Send(s) \/ RunErr(s) \/ RunDone(s) \/ Tell(s)
              \/ Leave(s) \/ DialOk(s) \/ DialUnavailable(s) \/ DialHalt(s)
       PROVE  MuOK'
  <2>1. CASE CancelContext(s)
    BY <2>1, <1>1, <1>2, <1>3, <1>4, <1>5, <1>6, ClientAssumption DEF CancelContext, MuOK,
       ArgOK, MapOK, StreamObject, CallState, watcherVars, callVars, Reading
  <2>2. CASE BackoffOver(s)
    BY <2>2, <1>1, <1>2, <1>3, <1>4, <1>5, <1>6, ClientAssumption DEF BackoffOver, MuOK, ArgOK,
       MapOK, StreamObject, CallState, watcherVars, callVars, Reading
  <2>3. CASE Send(s)
    BY <2>3, <1>1, <1>2, <1>3, <1>4, <1>5, <1>6, ClientAssumption DEF Send, MuOK, ArgOK, MapOK,
       StreamObject, CallState, watcherVars, callVars, Reading
  <2>4. CASE RunErr(s)
    BY <2>4, <1>1, <1>2, <1>3, <1>4, <1>5, <1>6, ClientAssumption DEF RunErr, MuOK, ArgOK,
       MapOK, StreamObject, CallState, watcherVars, callVars, Reading
  <2>5. CASE RunDone(s)
    BY <2>5, <1>1, <1>2, <1>3, <1>4, <1>5, <1>6, ClientAssumption DEF RunDone, MuOK, ArgOK,
       MapOK, StreamObject, CallState, watcherVars, callVars, Reading
  <2>6. CASE Tell(s)
    BY <2>6, <1>1, <1>2, <1>3, <1>4, <1>5, <1>6, ClientAssumption DEF Tell, MuOK, ArgOK, MapOK,
       StreamObject, CallState, watcherVars, callVars, Reading
  <2>7. CASE Leave(s)
    BY <2>7, <1>1, <1>2, <1>3, <1>4, <1>5, <1>6, ClientAssumption DEF Leave, MuOK, ArgOK, MapOK,
       StreamObject, CallState, watcherVars, callVars, Reading
  <2>8. CASE DialOk(s)
    BY <2>8, <1>1, <1>2, <1>3, <1>4, <1>5, <1>6, ClientAssumption DEF DialOk, MuOK, ArgOK,
       MapOK, StreamObject, CallState, watcherVars, callVars, Reading
  <2>9. CASE DialUnavailable(s)
    BY <2>9, <1>1, <1>2, <1>3, <1>4, <1>5, <1>6, ClientAssumption DEF DialUnavailable, MuOK,
       ArgOK, MapOK, StreamObject, CallState, watcherVars, callVars, Reading
  <2>10. CASE DialHalt(s)
    BY <2>10, <1>1, <1>2, <1>3, <1>4, <1>5, <1>6, ClientAssumption DEF DialHalt, MuOK, ArgOK,
       MapOK, StreamObject, CallState, watcherVars, callVars, Reading
  <2> QED
    BY <1>11, <2>1, <2>2, <2>3, <2>4, <2>5, <2>6, <2>7, <2>8, <2>9, <2>10
<1>12. ASSUME NEW s \in Stream, NEW n \in Conn,
              PutResp(s, n) \/ PutErr(s, n) \/ ServeDonec(s, n) \/ Recv(s, n)
       PROVE  MuOK'
  BY <1>12, <1>1, <1>2, <1>3, <1>4, <1>5, <1>6, ClientAssumption DEF PutResp, PutErr,
     ServeDonec, Recv, RecvResp, RecvErr, MuOK, ArgOK, MapOK, StreamObject, CallState,
     watcherVars, callVars, Reading, ReaderAfter
<1>13. CASE UNCHANGED vars
  BY <1>13, <1>1, <1>2, <1>3, <1>4, <1>5, <1>6, ClientAssumption DEF MuOK, ArgOK, MapOK,
     StreamObject, CallState, vars
<1> QED
  BY <1>7, <1>8, <1>9, <1>10, <1>11, <1>12, <1>13, WatchCases DEF IInv, Next, Application,
     CallStep, RunStep, ServeStep, Dial

\* What Append does to the requests written to a gRPC stream: the new one is
\* last, the others stay where they are.
LEMMA AppendFacts ==
  ASSUME NEW S, NEW sq \in Seq(S), NEW e \in S
  PROVE  /\ Len(Append(sq, e)) \in DOMAIN Append(sq, e) /\ Append(sq, e)[Len(Append(sq, e))] = e
         /\ \A i \in DOMAIN sq : i \in DOMAIN Append(sq, e) /\ Append(sq, e)[i] = sq[i]
<1>1. Len(Append(sq, e)) = Len(sq) + 1 /\ DOMAIN Append(sq, e) = 1 .. Len(sq) + 1
  OBVIOUS
<1>2. Append(sq, e)[Len(sq) + 1] = e
  OBVIOUS
<1> QED
  BY <1>1, <1>2

\* A step that writes no request and opens no gRPC stream loses no create.
LEMMA HasCreateStays ==
  ASSUME NEW s \in Stream, sent' = sent, stream'[s].wc = stream[s].wc
  PROVE  HasCreate(s)' <=> HasCreate(s)
  BY DEF HasCreate

\* Every step keeps the create request on the gRPC stream that run() serves:
\* a reconnect sends it before it goes back to its select.
LEMMA SubscribeStep == IInv /\ [Next]_vars => SubscribeOK'
<1> SUFFICES ASSUME IInv, [Next]_vars PROVE SubscribeOK'
  OBVIOUS
<1>1. TypeOK /\ FreshOK
  BY DEF IInv
<1>2. /\ rest \in [Thread -> SUBSET Stream]
      /\ streams \in [ID -> Stream \cup {NONE}]
      /\ stream \in [Stream -> StreamObject]
      /\ arg \in [Thread -> Stream \cup {NONE}]
      /\ op \in [Thread -> CallState]
  BY DEF IInv, TypeOK
<1>3. SubscribeOK
  BY DEF IInv
<1>4. RunOK
  BY DEF IInv
<1>a. ArgOK
  BY DEF IInv
<1>5. sent \in [Stream -> [Conn -> Seq(Request)]] /\ reader \in [Stream -> ReaderState]
  BY DEF IInv, TypeOK
<1> DEFINE Quiet == /\ sent' = sent
                    /\ \A x \in Stream :
                         /\ stream'[x].wc = stream[x].wc
                         /\ \/ stream'[x].run = stream[x].run /\ stream'[x].req = stream[x].req
                            \/ stream'[x].run \notin {"select", "send"}
                         /\ reader[x] = "none" => reader'[x] = "none"
<1>6. Quiet => SubscribeOK'
  BY <1>3, HasCreateStays DEF SubscribeOK
<1>7. ASSUME NEW t \in Thread, NEW id,
             op[t] \in {"idle", "rewatch"}, mu = NONE,
             WatchRefused(t, id)
      PROVE  Quiet
  BY <1>7, <1>2, <1>5 DEF WatchRefused, StreamObject, Reading, Goto
<1>8. ASSUME NEW t \in Thread, NEW id \in ID, NEW parent \in {"live", "cancelled"},
             op[t] \in {"idle", "rewatch"}, mu = NONE,
             NewWatcherGrpcStream(t, id, parent)
      PROVE  SubscribeOK'
  <2>1. PICK s \in Stream :
          stream'[s].run = "dial" /\ \A x \in Stream : x # s => stream'[x] = stream[x]
    BY <1>8, <1>1, NewStream DEF NewObject
  <2>2. sent' = sent /\ reader' = reader
    BY <1>8 DEF NewWatcherGrpcStream
  <2>3. \A x \in Stream : x # s => (HasCreate(x)' <=> HasCreate(x))
    BY <2>1, <2>2, HasCreateStays
  <2> QED
    BY <1>3, <2>1, <2>2, <2>3 DEF SubscribeOK
<1>9. ASSUME NEW t \in Thread, NEW id \in ID, CloseStream(t, id) PROVE Quiet
  BY <1>9, <1>2, <1>5 DEF CloseStream, StreamObject, Reading, Goto
<1>10. ASSUME NEW t \in Thread, Close(t) PROVE Quiet
  BY <1>10, <1>2, <1>5 DEF Close, StreamObject, Reading, Goto
<1>11. ASSUME NEW s \in Stream, CancelContext(s) PROVE Quiet
  BY SMTT(30), <1>11, <1>2, <1>5 DEF CancelContext, StreamObject, Reading, watcherVars, callVars
<1>12. ASSUME NEW t \in Thread, WatchSent(t) PROVE SubscribeOK'
  <2> DEFINE s == arg[t]
  <2>1. s \in Stream /\ sent' = sent /\ reader' = [reader EXCEPT ![s] = "fresh"]
        /\ stream' = [stream EXCEPT ![s].run = "send", ![s].req = "create"]
    BY <1>12, <1>a DEF WatchSent, ArgOK
  <2>2. /\ stream'[s].run = "send" /\ stream'[s].req = "create"
        /\ \A x \in Stream : x # s => stream'[x] = stream[x] /\ reader'[x] = reader[x]
    BY <1>2, <1>5, <2>1 DEF StreamObject
  <2>3. \A x \in Stream : x # s => (HasCreate(x)' <=> HasCreate(x))
    BY <2>1, <2>2, HasCreateStays
  <2> QED
    BY <1>3, <2>2, <2>3 DEF SubscribeOK
<1>13. ASSUME NEW t \in Thread,
              WatchCtxDone(t) \/ WatchDonec(t) \/ CloseRange(t)
       PROVE  Quiet
  BY <1>13, <1>2, <1>5 DEF WatchCtxDone, WatchDonec, CloseRange, StreamObject, Reading,
     watcherVars, Goto
<1>14. ASSUME NEW t \in Thread, CancelSent(t) PROVE SubscribeOK'
  <2> DEFINE s == arg[t]
  <2>1. s \in Stream /\ stream[s].run = "select" /\ sent' = sent /\ reader' = reader
        /\ stream' = [stream EXCEPT ![s].run = "send", ![s].req = "cancel"]
    BY <1>14, <1>a DEF CancelSent, ArgOK
  <2>2. /\ stream'[s].run = "send" /\ stream'[s].wc = stream[s].wc
        /\ \A x \in Stream : x # s => stream'[x] = stream[x]
    BY <1>2, <2>1 DEF StreamObject
  <2>3. \A x \in Stream : HasCreate(x)' <=> HasCreate(x)
    BY <2>1, <2>2, HasCreateStays
  <2> QED
    BY <1>3, <2>1, <2>2, <2>3 DEF SubscribeOK
<1>15. ASSUME NEW t \in Thread, CloseCancel(t) PROVE Quiet
  BY <1>15, <1>2, <1>5 DEF CloseCancel, StreamObject, Reading, watcherVars, Goto
<1>16. ASSUME NEW t \in Thread, CloseDonec(t) PROVE Quiet
  <2>1. stream' = stream \/ stream' = [stream EXCEPT ![arg[t]].donec = "closed"]
    BY <1>16 DEF CloseDonec
  <2>2. \A x \in Stream : /\ stream'[x].wc = stream[x].wc /\ stream'[x].run = stream[x].run
                          /\ stream'[x].req = stream[x].req
    BY <1>2, <2>1 DEF StreamObject
  <2> QED
    BY <1>16, <2>2 DEF CloseDonec
<1>17. ASSUME NEW s \in Stream, BackoffOver(s) PROVE Quiet
  BY <1>17, <1>2, <1>5 DEF BackoffOver, StreamObject, Reading, watcherVars, callVars
<1>18. ASSUME NEW s \in Stream, Send(s) PROVE SubscribeOK'
  <2> DEFINE n == stream[s].wc
             q == Append(sent[s][n], stream[s].req)
  <2>1. n \in Conn /\ stream[s].req \in Request
    BY <1>18, <1>2, <1>4 DEF Send, RunOK, StreamObject
  <2>2. /\ reader' = reader /\ stream'[s].run = "select" /\ stream'[s].wc = n
        /\ \A x \in Stream : x # s => stream'[x] = stream[x] /\ sent'[x] = sent[x]
        /\ sent'[s][n] = q
    BY SMTT(30), <1>18, <1>2, <1>5, <2>1 DEF Send, StreamObject
  <2>3. \A x \in Stream : x # s => (HasCreate(x)' <=> HasCreate(x))
    BY <2>2 DEF HasCreate
  <2>4. ASSUME reader[s] # "none" PROVE HasCreate(s)'
    <3>1. sent[s][n] \in Seq(Request) /\ q = Append(sent[s][n], stream[s].req)
      BY SMTT(30), <1>5, <2>1
    <3>2. CASE stream[s].req = "create"
      <4>1. Len(q) \in DOMAIN q /\ q[Len(q)] = "create"
        BY SMTT(30), <3>1, <3>2, <2>1, AppendFacts
      <4> QED
        BY <4>1, <2>2 DEF HasCreate
    <3>3. CASE HasCreate(s)
      <4>1. PICK i \in DOMAIN sent[s][n] : sent[s][n][i] = "create"
        BY <3>3 DEF HasCreate
      <4>2. i \in DOMAIN q /\ q[i] = "create"
        BY <3>1, <2>1, <4>1, AppendFacts
      <4> QED
        BY <4>2, <2>2 DEF HasCreate
    <3> QED
      BY <1>18, <1>3, <2>4, <3>2, <3>3 DEF Send, SubscribeOK
  <2> QED
    BY <1>3, <2>2, <2>3, <2>4 DEF SubscribeOK
<1>19. ASSUME NEW s \in Stream, RunErr(s) PROVE Quiet
  BY <1>19, <1>2, <1>5 DEF RunErr, StreamObject, Reading, watcherVars, callVars
<1>20. ASSUME NEW s \in Stream, RunDone(s) PROVE Quiet
  BY <1>20, <1>2, <1>5 DEF RunDone, StreamObject, Reading, watcherVars, callVars
<1>21. ASSUME NEW s \in Stream, Tell(s) PROVE Quiet
  BY <1>21, <1>2, <1>5 DEF Tell, StreamObject, Reading, watcherVars, callVars, Reading
<1>22. ASSUME NEW s \in Stream, Leave(s) PROVE Quiet
  <2>1. CASE stream' = stream
    BY <1>22, <2>1 DEF Leave
  <2>2. CASE stream[s].donec = "open"
    <3>1. stream' = [stream EXCEPT ![s] = [stream[s] EXCEPT !.donec = "closed", !.ctx = "cancelled",
                                                            !.run = "exited"]]
      BY <1>22, <1>2, <2>2 DEF Leave
    <3>2. stream'[s] = [stream[s] EXCEPT !.donec = "closed", !.ctx = "cancelled", !.run = "exited"]
      BY <1>2, <3>1
    <3>3. stream'[s].wc = stream[s].wc /\ stream'[s].run = "exited"
      BY <1>2, <3>2 DEF StreamObject
    <3>4. \A x \in Stream : x # s => stream'[x] = stream[x]
      BY <1>2, <3>1
    <3> QED
      BY <1>22, <3>3, <3>4 DEF Leave
  <2> QED
    BY <1>22, <2>1, <2>2 DEF Leave
<1>23. ASSUME NEW s \in Stream, DialOk(s) PROVE SubscribeOK'
  <2> DEFINE n == stream[s].wc + 1
  <2>1. /\ stream[s].run = "dial" /\ sent' = sent /\ reader' = reader
        /\ stream' = [stream EXCEPT ![s].wc = n, ![s].run = IF n = 1 THEN "select" ELSE "send",
                                    ![s].req = IF n = 1 THEN NONE ELSE "create"]
    BY <1>23 DEF DialOk, callVars
  <2>2. /\ stream'[s].run = IF n = 1 THEN "select" ELSE "send"
        /\ n # 1 => stream'[s].req = "create"
        /\ \A x \in Stream : x # s => stream'[x] = stream[x]
    BY <1>2, <2>1 DEF StreamObject
  <2>3. n = 1 => reader[s] = "none"
    <3>1. stream[s].wc = 0 => reader[s] = "none"
      BY <1>4 DEF RunOK
    <3>2. stream[s].wc \in Nat
      BY <1>2, ClientAssumption DEF StreamObject, Conn
    <3> QED
      BY <3>1, <3>2
  <2>4. \A x \in Stream : x # s => (HasCreate(x)' <=> HasCreate(x))
    BY <2>1, <2>2, HasCreateStays
  <2>5. reader' = reader
    BY <2>1
  <2>6. ASSUME reader'[s] # "none"
        PROVE  stream'[s].run = "send" /\ stream'[s].req = "create"
    <3>1. n # 1
      BY <2>3, <2>5, <2>6
    <3> QED
      BY ONLY <2>2, <3>1
  <2>7. ASSUME NEW x \in Stream, x # s, reader'[x] # "none"
        PROVE  /\ stream'[x].run = "select" => HasCreate(x)'
               /\ stream'[x].run = "send" => stream'[x].req = "create" \/ HasCreate(x)'
    BY <1>3, <2>2, <2>4, <2>5, <2>7 DEF SubscribeOK
  <2> QED
    BY <2>6, <2>7 DEF SubscribeOK
<1>24. ASSUME NEW s \in Stream, DialUnavailable(s) PROVE Quiet
  BY <1>24, <1>2, <1>5 DEF DialUnavailable, StreamObject, Reading, watcherVars, callVars
<1>25. ASSUME NEW s \in Stream, DialHalt(s) PROVE Quiet
  BY <1>25, <1>2, <1>5 DEF DialHalt, StreamObject, Reading, watcherVars, callVars
<1>26. ASSUME NEW s \in Stream, NEW n \in Conn, PutResp(s, n) PROVE Quiet
  BY <1>26, <1>2, <1>5 DEF PutResp, StreamObject, Reading, watcherVars, callVars, Reading,
     ReaderAfter
<1>27. ASSUME NEW s \in Stream, NEW n \in Conn, PutErr(s, n) PROVE Quiet
  BY <1>27, <1>2, <1>5 DEF PutErr, StreamObject, Reading, watcherVars, callVars
<1>28. ASSUME NEW s \in Stream, NEW n \in Conn, ServeDonec(s, n) PROVE Quiet
  BY <1>28, <1>2, <1>5 DEF ServeDonec, StreamObject, Reading, watcherVars, callVars
<1>29. ASSUME NEW s \in Stream, NEW n \in Conn, Recv(s, n) PROVE Quiet
  BY <1>29, <1>2, <1>5 DEF Recv, RecvResp, RecvErr, StreamObject, Reading, watcherVars,
     callVars
<1>30. CASE UNCHANGED vars
  <2>1. stream' = stream /\ sent' = sent /\ reader' = reader
    BY <1>30 DEF vars
  <2> QED
    BY <1>3, <2>1 DEF SubscribeOK, HasCreate
<1> QED
  BY <1>6, <1>7, <1>8, <1>9, <1>10, <1>11, <1>12, <1>13, <1>14, <1>15, <1>16, <1>17, <1>18,
     <1>19, <1>20, <1>21, <1>22, <1>23, <1>24, <1>25, <1>26, <1>27, <1>28, <1>29, <1>30,
     WatchCases DEF IInv, Next, Application, CallStep, RunStep, ServeStep, Dial

\* No step closes a closed donec in CloseStream: its stream is still mapped,
\* and what is mapped is open.
LEMMA PanicStep == IInv /\ [Next]_vars => CloseStreamNeverPanics'
<1> SUFFICES ASSUME IInv, [Next]_vars PROVE CloseStreamNeverPanics'
  OBVIOUS
<1>1. TypeOK /\ FreshOK
  BY DEF IInv
<1>2. /\ rest \in [Thread -> SUBSET Stream]
      /\ streams \in [ID -> Stream \cup {NONE}]
      /\ stream \in [Stream -> StreamObject]
      /\ arg \in [Thread -> Stream \cup {NONE}]
      /\ op \in [Thread -> CallState]
  BY DEF IInv, TypeOK
<1>3. CloseStreamNeverPanics
  BY DEF IInv
<1>4. MuOK
  BY DEF IInv
<1>5. MapOK
  BY DEF IInv
<1>6. ArgOK
  BY DEF IInv
<1>7. ASSUME NEW t \in Thread, NEW id,
             op[t] \in {"idle", "rewatch"}, mu = NONE,
             WatchRefused(t, id)
      PROVE  CloseStreamNeverPanics'
  BY <1>7, <1>1, <1>2, <1>3, <1>4, <1>5, <1>6, ClientAssumption DEF WatchRefused,
     CloseStreamNeverPanics, MuOK, MapOK, ArgOK, StreamObject, Goto
<1>8. ASSUME NEW t \in Thread, NEW id \in ID, NEW parent \in {"live", "cancelled"},
             op[t] \in {"idle", "rewatch"}, mu = NONE,
             NewWatcherGrpcStream(t, id, parent)
      PROVE  CloseStreamNeverPanics'
  <2>1. PICK s \in Stream : NewObject(s, t, id)
    BY <1>8, <1>1, NewStream
  <2> QED
    BY <1>8, <2>1, <1>2, <1>3, <1>4, <1>5, <1>6, ClientAssumption DEF NewWatcherGrpcStream,
       NewObject, Goto, CloseStreamNeverPanics, MuOK, MapOK, ArgOK, StreamObject
<1>9. ASSUME NEW t \in Thread, NEW id \in ID, CloseStream(t, id) PROVE CloseStreamNeverPanics'
  BY <1>9, <1>1, <1>2, <1>3, <1>4, <1>5, <1>6, ClientAssumption DEF CloseStream,
     CloseStreamNeverPanics, MuOK, MapOK, ArgOK, StreamObject, Goto
<1>10. ASSUME NEW t \in Thread,
              Close(t) \/ WatchSent(t) \/ WatchCtxDone(t) \/ WatchDonec(t) \/ CloseRange(t) \/
              CancelSent(t) \/ CloseCancel(t) \/ CloseDonec(t)
       PROVE  CloseStreamNeverPanics'
  BY SMTT(30), <1>10, <1>1, <1>2, <1>3, <1>4, <1>5, <1>6, ClientAssumption DEF Close, WatchSent,
     WatchCtxDone, WatchDonec, CloseRange, CancelSent, CloseCancel, CloseDonec,
     CloseStreamNeverPanics, MuOK, MapOK, ArgOK, StreamObject, watcherVars, Goto
<1>11. ASSUME NEW s \in Stream,
              CancelContext(s) \/ BackoffOver(s) \/ Send(s) \/ RunErr(s) \/ RunDone(s) \/ Tell(s)
              \/ Leave(s) \/ DialOk(s) \/ DialUnavailable(s) \/ DialHalt(s)
       PROVE  CloseStreamNeverPanics'
  BY <1>11, <1>1, <1>2, <1>3, <1>4, <1>5, <1>6, ClientAssumption DEF CancelContext,
     BackoffOver, Send, RunErr, RunDone, Tell, Leave, DialOk, DialUnavailable, DialHalt,
     CloseStreamNeverPanics, MuOK, MapOK, ArgOK, StreamObject, watcherVars, callVars, Reading
<1>12. ASSUME NEW s \in Stream, NEW n \in Conn,
              PutResp(s, n) \/ PutErr(s, n) \/ ServeDonec(s, n) \/ Recv(s, n)
       PROVE  CloseStreamNeverPanics'
  BY <1>12, <1>1, <1>2, <1>3, <1>4, <1>5, <1>6, ClientAssumption DEF PutResp, PutErr,
     ServeDonec, Recv, RecvResp, RecvErr, CloseStreamNeverPanics, MuOK, MapOK, ArgOK,
     StreamObject, watcherVars, callVars, Reading, ReaderAfter
<1>13. CASE UNCHANGED vars
  BY <1>13, <1>1, <1>2, <1>3, <1>4, <1>5, <1>6, ClientAssumption DEF CloseStreamNeverPanics,
     MuOK, MapOK, ArgOK, StreamObject, vars
<1> QED
  BY <1>7, <1>8, <1>9, <1>10, <1>11, <1>12, <1>13, WatchCases DEF IInv, Next, Application,
     CallStep, RunStep, ServeStep, Dial

\* Every initial state, a Watcher nobody has called, satisfies the invariant.
LEMMA InitIInv == Init => IInv
<1> SUFFICES ASSUME Init PROVE IInv
  OBVIOUS
<1>1. TypeOK
  <2>1. \A s \in Stream : stream[s] \in StreamObject
    BY ClientAssumption DEF Init, StreamObject, RunState
  <2>2. stream \in [Stream -> StreamObject]
    BY <2>1 DEF Init
  <2>3. /\ serve \in [Stream -> [Conn -> [pc : ServeState, hand : Response \cup Error \cup {NONE}]]]
        /\ sent \in [Stream -> [Conn -> Seq(Request)]]
    BY DEF Init, ServeState
  <2> QED
    BY <2>2, <2>3 DEF Init, TypeOK, CallState, ReaderState
<1>2. ArgOK /\ FreshOK /\ RunOK /\ ServeOK
  BY DEF Init, ArgOK, FreshOK, RunOK, ServeOK, Dialling, Serving, Conn
<1>3. MapOK /\ MuOK
  BY DEF Init, MapOK, MuOK, OneLiveStreamPerID, LiveIsMapped, Live
<1>4. SubscribeOK /\ CloseStreamNeverPanics
  BY DEF Init, SubscribeOK, CloseStreamNeverPanics
<1> QED
  BY <1>1, <1>2, <1>3, <1>4 DEF IInv

\* The invariant is inductive: no step of the application, of run(), of a
\* serve goroutine or of the network leaves it.
LEMMA StepIInv == IInv /\ [Next]_vars => IInv'
  BY TypeStep, ArgStep, FreshStep, RunOKStep, ServeStepOK, MapStep, MuStep, SubscribeStep,
     PanicStep DEF IInv

\* IInv holds in every reachable state of the watch client.
THEOREM Invariance == Spec => []IInv
<1>1. Init => IInv
  BY InitIInv
<1>2. IInv /\ [Next]_vars => IInv'
  BY StepIInv
<1> QED
  BY <1>1, <1>2, PTL DEF Spec

-----------------------------------------------------------------------------
\* Every goroutine, channel and map of the client keeps its type.
THEOREM TypeCorrect == Spec => []TypeOK
<1>1. IInv => TypeOK
  BY DEF IInv
<1> QED
  BY <1>1, Invariance, PTL

\* No two stream objects of one id are open at once ("No watching twice",
\* watcher.go:129), for any number of threads, ids, streams and reconnects.
THEOREM NoTwoStreams == Spec => []OneLiveStreamPerID
<1>1. IInv => OneLiveStreamPerID
  BY DEF IInv, MapOK
<1> QED
  BY <1>1, Invariance, PTL

\* Until Close takes the map, an open stream object is the one Watcher.streams
\* holds for its id, so CloseStream can reach it.
THEOREM NoStrayStream == Spec => []LiveIsMapped
<1>1. IInv => LiveIsMapped
  BY DEF IInv, MapOK
<1> QED
  BY <1>1, Invariance, PTL

\* CloseStream never closes a donec that run() closed before it (what
\* client.go:76-77 says of it): it holds mu from its lookup to its close.
THEOREM CloseStreamSafe == Spec => []CloseStreamNeverPanics
<1>1. IInv => CloseStreamNeverPanics
  BY DEF IInv
<1> QED
  BY <1>1, Invariance, PTL

\* Reconnects do not overlap: only the last gRPC stream run() opened has a
\* serve goroutine that still receives or delivers.
THEOREM NoOldStreamServes == Spec => []OnlyCurrentConnServes
<1>1. IInv => OnlyCurrentConnServes
  BY DEF IInv, ServeOK, OnlyCurrentConnServes
<1> QED
  BY <1>1, Invariance, PTL

\* Whenever run() waits in its select with a reader on respc, a create request
\* has been written to the gRPC stream it holds, after every reconnect too.
THEOREM ReaderIsSubscribed == Spec => []SubscribedWhileReading
<1>1. IInv => SubscribedWhileReading
  BY DEF IInv, SubscribeOK, HasCreate, SubscribedWhileReading
<1> QED
  BY <1>1, Invariance, PTL

\* An entry leaves Watcher.streams only with the close of the donec it names,
\* or when Close takes the whole map.
THEOREM EntriesLeaveClosed == Spec => EntryLeavesWithItsStream
<1> DEFINE A == \A id \in ID :
             streams[id] # NONE /\ streams'[id] # streams[id] =>
               nilled' \/ stream'[streams[id]].donec = "closed"
<1>1. ASSUME IInv, [Next]_vars PROVE A
  <2>1. TypeOK /\ ArgOK /\ FreshOK /\ MapOK /\ MuOK
    BY <1>1 DEF IInv
  <2>2. /\ stream \in [Stream -> StreamObject] /\ arg \in [Thread -> Stream \cup {NONE}]
        /\ streams \in [ID -> Stream \cup {NONE}]
    BY <2>1 DEF TypeOK
  <2>3. streams' = streams => A
    OBVIOUS
  <2>4. ASSUME NEW t \in Thread, NEW id \in ID, NEW parent, NewWatcherGrpcStream(t, id, parent)
        PROVE  A
    BY <2>4, <2>2 DEF NewWatcherGrpcStream
  <2>5. ASSUME NEW t \in Thread, Close(t) PROVE A
    BY <2>5 DEF Close
  <2>6. ASSUME NEW t \in Thread, CloseDonec(t) PROVE A
    <3>1. arg[t] \in Stream
      BY <2>6, <2>1 DEF CloseDonec, ArgOK
    <3>2. CASE mu = t /\ stream[arg[t]].donec = "open"
      <4>1. /\ streams' = [streams EXCEPT ![stream[arg[t]].id] = NONE]
            /\ stream'[arg[t]].donec = "closed"
        BY <2>6, <2>2, <3>1, <3>2 DEF CloseDonec, StreamObject
      <4>2. streams[stream[arg[t]].id] = arg[t]
        BY <2>6, <2>1, <3>2 DEF CloseDonec, MuOK
      <4> QED
        BY <2>2, <4>1, <4>2
    <3>3. CASE ~(mu = t /\ stream[arg[t]].donec = "open")
      BY <2>6, <2>3, <3>3 DEF CloseDonec, watcherVars
    <3> QED
      BY <3>2, <3>3
  <2>7. ASSUME NEW s \in Stream, Leave(s) PROVE A
    <3>1. CASE streams' = streams
      BY <2>3, <3>1
    <3>2. CASE streams' # streams
      <4>1. ~nilled /\ stream[s].donec = "open" /\ streams' = [streams EXCEPT ![stream[s].id] = NONE]
        BY <2>7, <3>2 DEF Leave
      <4>2. stream[s].id # NONE /\ stream[s].id \in ID
        BY <2>7, <2>1, <2>2 DEF Leave, FreshOK, StreamObject
      <4>3. streams[stream[s].id] = s
        BY <2>1, <4>1, <4>2 DEF MapOK, LiveIsMapped, Live
      <4>4. stream'[s].donec = "closed"
        BY <2>7, <2>2, <4>1 DEF Leave, StreamObject
      <4> QED
        BY <2>2, <4>1, <4>3, <4>4
    <3> QED
      BY <3>1, <3>2
  <2>8. CASE UNCHANGED vars
    BY <2>3, <2>8 DEF vars
  <2>9. ASSUME NEW t \in Thread, CallStep(t), ~CloseDonec(t), ~WatchAgain(t) PROVE streams' = streams
    BY SMTT(30), <2>9 DEF CallStep, WatchSent, WatchCtxDone, WatchDonec, CloseRange, CancelSent,
       CloseCancel, watcherVars
  <2>10. ASSUME NEW s \in Stream, RunStep(s) \/ Dial(s) \/ CancelContext(s), ~Leave(s)
         PROVE  streams' = streams
    BY <2>10 DEF RunStep, Dial, CancelContext, BackoffOver, Send, RunErr, RunDone, Tell, DialOk,
       DialUnavailable, DialHalt, watcherVars
  <2>11. ASSUME NEW s \in Stream, NEW n \in Conn, ServeStep(s, n) \/ Recv(s, n)
         PROVE  streams' = streams
    BY <2>11 DEF ServeStep, Recv, PutResp, PutErr, ServeDonec, RecvResp, RecvErr, watcherVars
  <2>12. ASSUME NEW t \in Thread, NEW id \in ID, CloseStream(t, id) \/ WatchRefused(t, id)
         PROVE  streams' = streams
    BY <2>12 DEF CloseStream, WatchRefused
  <2>13. ASSUME NEW t \in Thread, WatchAgain(t) \/ \E id \in ID : Watch(t, id) PROVE A
    <3>1. \/ streams' = streams
          \/ \E id \in ID, parent \in {"live", "cancelled"} : NewWatcherGrpcStream(t, id, parent)
      BY <2>13, <2>1, WatchCases DEF WatchRefused
    <3> QED
      BY <3>1, <2>3, <2>4
  <2> QED
    BY <1>1, <2>3, <2>5, <2>6, <2>7, <2>8, <2>9, <2>10, <2>11, <2>12, <2>13
       DEF Next, Application, CallStep, RunStep
<1>2. IInv /\ [Next]_vars => [A]_vars
  BY <1>1
<1> QED
  BY <1>2, Invariance, PTL DEF Spec, EntryLeavesWithItsStream

=============================================================================
