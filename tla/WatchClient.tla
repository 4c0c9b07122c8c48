---------------------------- MODULE WatchClient ----------------------------
(***************************************************************************)
(* The watch client (src/watchclient): a Watcher keeps one watchGrpcStream *)
(* per watch id.  Each stream object has a goroutine run(), and one        *)
(* serveWatchClient goroutine for every gRPC stream run() has opened.  The *)
(* application's goroutines call Watch, CloseStream and Close, cancel the  *)
(* contexts they passed to Watch, and read the response channel the way    *)
(* src/test/client/client.go does.                                         *)
(*                                                                         *)
(* A send on an unbuffered Go channel (reqc, respc) is one step of both    *)
(* parties: the sender is blocked until the receiver is in its select.     *)
(* A critical section of Watcher.mu in which nothing blocks is one step;   *)
(* CloseStream blocks while it holds mu, so mu is a variable.              *)
(***************************************************************************)
EXTENDS Naturals, Sequences

CONSTANTS
  Thread,   \* goroutines of the application that call the Watcher
  ID,       \* watch ids
  Stream,   \* the watchGrpcStream objects Watch may create: bounds the model
  MaxConn,  \* the gRPC streams one object may open: bounds the reconnects
  NONE

ASSUME ClientAssumption ==
  /\ MaxConn \in Nat \ {0}
  /\ NONE \notin Thread \cup ID \cup Stream

VARIABLES
  mu,       \* Watcher.mu: the thread that blocks while it holds it, or NONE
  nilled,   \* Watcher.streams == nil, after Close
  streams,  \* Watcher.streams
  op,       \* where each application thread is in its call
  arg,      \* the stream object its call works on
  rest,     \* the streams a call of Close has still to close
  stream,   \* the watchGrpcStream objects and the state of their run()
  serve,    \* the serveWatchClient goroutine of each gRPC stream
  sent,     \* the requests run() has written to each gRPC stream
  reader,   \* the application's goroutine that reads a stream's respc
  panicked  \* the function whose close(donec) met a closed donec, or "no"

watcherVars == <<mu, nilled, streams>>
callVars    == <<op, arg, rest>>
vars == <<mu, nilled, streams, op, arg, rest, stream, serve, sent, reader, panicked>>

Conn     == 1 .. MaxConn
Request  == {"create", "cancel"}
Response == {"created", "update", "canceled"}
\* What isHaltErr makes of an error of Recv: give up, or reconnect.
Error    == {"halt", "retry"}

CallState   == {"idle", "watch", "rewatch", "reqc", "cancel", "donec", "range"}
RunState    == {"none", "dial", "backoff", "select", "send", "tell", "leave", "exited"}
ServeState  == {"none", "recv", "resp", "err", "exited"}
ReaderState == {"none", "fresh", "created", "stopped", "failed"}

StreamObject ==
  [id    : ID \cup {NONE},           \* watchID; NONE before Watch creates the object
   inctx : {"live", "cancelled"},    \* the context the application passed to Watch
   ctx   : {"live", "cancelled"},    \* its child, cancelled with it or by close()
   donec : {"open", "closed"},
   errc  : Error \cup {"empty"},     \* a channel of capacity 1
   run   : RunState,                 \* where run() is
   req   : Request \cup {NONE},      \* the request run() is about to send
   wc    : Conn \cup {0}]            \* the gRPC stream run() holds, the last opened

TypeOK ==
  /\ mu \in Thread \cup {NONE}
  /\ nilled \in BOOLEAN
  /\ streams \in [ID -> Stream \cup {NONE}]
  /\ op \in [Thread -> CallState]
  /\ arg \in [Thread -> Stream \cup {NONE}]
  /\ rest \in [Thread -> SUBSET Stream]
  /\ stream \in [Stream -> StreamObject]
  /\ serve \in [Stream -> [Conn -> [pc : ServeState, hand : Response \cup Error \cup {NONE}]]]
  /\ sent \in [Stream -> [Conn -> Seq(Request)]]
  /\ reader \in [Stream -> ReaderState]
  /\ panicked \in {"no", "Close", "CloseStream", "closeStream"}

Fresh == {s \in Stream : stream[s].id = NONE}
Live  == {s \in Stream : stream[s].id # NONE /\ stream[s].donec = "open"}

Init ==
  /\ mu = NONE
  /\ nilled = FALSE
  /\ streams = [id \in ID |-> NONE]
  /\ op = [t \in Thread |-> "idle"]
  /\ arg = [t \in Thread |-> NONE]
  /\ rest = [t \in Thread |-> {}]
  /\ stream = [s \in Stream |->
       [id |-> NONE, inctx |-> "live", ctx |-> "live", donec |-> "open",
        errc |-> "empty", run |-> "none", req |-> NONE, wc |-> 0]]
  /\ serve = [s \in Stream |-> [n \in Conn |-> [pc |-> "none", hand |-> NONE]]]
  /\ sent = [s \in Stream |-> [n \in Conn |-> <<>>]]
  /\ reader = [s \in Stream |-> "none"]
  /\ panicked = "no"

Goto(t, pc) == op' = [op EXCEPT ![t] = pc]

(***************************************************************************)
(* Watch.  The critical section refuses a closed Watcher and an id that is *)
(* being watched (the caller gets a closed channel); otherwise it creates  *)
(* the stream object, starts run() and enters it in the map.  parent is    *)
(* the state of the context the caller passed.                             *)
(***************************************************************************)
WatchRefused(t, id) ==
  /\ nilled \/ streams[id] # NONE
  /\ Goto(t, "idle")
  /\ UNCHANGED <<mu, nilled, streams, arg, rest, stream, serve, sent, reader, panicked>>

\* Mutant: Watch does not look for the id in the map.
NoLookup(t, id, parent) ==
  /\ ~nilled
  /\ \E s \in Fresh :
       /\ stream' = [stream EXCEPT ![s].id = id, ![s].inctx = parent,
                                   ![s].ctx = parent, ![s].run = "dial"]
       /\ streams' = [streams EXCEPT ![id] = s]
       /\ arg' = [arg EXCEPT ![t] = s]
  /\ Goto(t, "watch")
  /\ UNCHANGED <<mu, nilled, rest, serve, sent, reader, panicked>>

NewWatcherGrpcStream(t, id, parent) ==
  /\ ~nilled /\ streams[id] = NONE
  /\ \E s \in Fresh :
       /\ stream' = [stream EXCEPT ![s].id = id, ![s].inctx = parent,
                                   ![s].ctx = parent, ![s].run = "dial"]
       /\ streams' = [streams EXCEPT ![id] = s]
       /\ arg' = [arg EXCEPT ![t] = s]
  /\ Goto(t, "watch")
  /\ UNCHANGED <<mu, nilled, rest, serve, sent, reader, panicked>>

Watch(t, id) ==
  /\ op[t] = "idle" /\ mu = NONE
  /\ WatchRefused(t, id) \/ NewWatcherGrpcStream(t, id, "live")

\* The select of Watch: run() takes the create request and the caller, who
\* now has respc, starts to read it.
WatchSent(t) ==
  LET s == arg[t] IN
  /\ op[t] = "watch" /\ stream[s].run = "select"
  /\ stream' = [stream EXCEPT ![s].run = "send", ![s].req = "create"]
  /\ reader' = [reader EXCEPT ![s] = "fresh"]
  /\ Goto(t, "idle")
  /\ UNCHANGED <<watcherVars, arg, rest, serve, sent, panicked>>

\* The select of Watch: the caller's context is done, it gets a closed channel.
WatchCtxDone(t) ==
  /\ op[t] = "watch" /\ stream[arg[t]].inctx = "cancelled"
  /\ Goto(t, "idle")
  /\ UNCHANGED <<watcherVars, arg, rest, stream, serve, sent, reader, panicked>>

\* The select of Watch: the stream was closed, so Watch calls itself.
WatchDonec(t) ==
  /\ op[t] = "watch" /\ stream[arg[t]].donec = "closed"
  /\ Goto(t, "rewatch")
  /\ UNCHANGED <<watcherVars, arg, rest, stream, serve, sent, reader, panicked>>

WatchAgain(t) ==
  LET id == stream[arg[t]].id  parent == stream[arg[t]].inctx IN
  /\ op[t] = "rewatch" /\ mu = NONE
  /\ WatchRefused(t, id) \/ NewWatcherGrpcStream(t, id, parent)

(***************************************************************************)
(* CloseStream holds mu from its lookup to its return.  Close takes the    *)
(* whole map under mu and closes its streams, in any order, without it.    *)
(* Both send a cancel request to run() and then call close(): cancel the   *)
(* context and close donec.                                                *)
(***************************************************************************)
CloseStream(t, id) ==
  /\ op[t] = "idle" /\ mu = NONE
  /\ streams[id] # NONE
  /\ mu' = t
  /\ arg' = [arg EXCEPT ![t] = streams[id]]
  /\ Goto(t, "reqc")
  /\ UNCHANGED <<nilled, streams, rest, stream, serve, sent, reader, panicked>>

Close(t) ==
  /\ op[t] = "idle" /\ mu = NONE
  /\ rest' = [rest EXCEPT ![t] = {streams[id] : id \in ID} \ {NONE}]
  /\ streams' = [id \in ID |-> NONE]
  /\ nilled' = TRUE
  /\ Goto(t, "range")
  /\ UNCHANGED <<mu, arg, stream, serve, sent, reader, panicked>>

CloseRange(t) ==
  /\ op[t] = "range"
  /\ \/ \E s \in rest[t] :
          /\ arg' = [arg EXCEPT ![t] = s]
          /\ rest' = [rest EXCEPT ![t] = @ \ {s}]
          /\ Goto(t, "reqc")
     \/ rest[t] = {} /\ Goto(t, "idle") /\ UNCHANGED <<arg, rest>>
  /\ UNCHANGED <<watcherVars, stream, serve, sent, reader, panicked>>

CancelSent(t) ==
  LET s == arg[t] IN
  /\ op[t] = "reqc" /\ stream[s].run = "select"
  /\ stream' = [stream EXCEPT ![s].run = "send", ![s].req = "cancel"]
  /\ Goto(t, "cancel")
  /\ UNCHANGED <<watcherVars, arg, rest, serve, sent, reader, panicked>>

CloseCancel(t) ==
  /\ op[t] = "cancel"
  /\ stream' = [stream EXCEPT ![arg[t]].ctx = "cancelled"]
  /\ Goto(t, "donec")
  /\ UNCHANGED <<watcherVars, arg, rest, serve, sent, reader, panicked>>

\* Mutant: CloseStream returns without its Unlock.
NoUnlock(t) ==
  /\ op[t] = "donec" /\ stream[arg[t]].donec = "open"
  /\ stream' = [stream EXCEPT ![arg[t]].donec = "closed"]
  /\ streams' = [streams EXCEPT ![stream[arg[t]].id] = NONE]
  /\ Goto(t, IF mu = t THEN "idle" ELSE "range")
  /\ UNCHANGED <<mu, nilled, arg, rest, serve, sent, reader, panicked>>

\* close(donec) panics when donec is closed.  Then CloseStream deletes the
\* entry and unlocks, and Close goes on with its next stream.
CloseDonec(t) ==
  LET s == arg[t] IN
  /\ op[t] = "donec"
  /\ \/ /\ stream[s].donec = "closed"
        /\ panicked' = IF mu = t THEN "CloseStream" ELSE "Close"
        /\ UNCHANGED <<watcherVars, op, stream>>
     \/ /\ stream[s].donec = "open"
        /\ stream' = [stream EXCEPT ![s].donec = "closed"]
        /\ \/ /\ mu = t
              /\ streams' = [streams EXCEPT ![stream[s].id] = NONE]
              /\ mu' = NONE
              /\ Goto(t, "idle")
           \/ /\ mu # t
              /\ Goto(t, "range")
              /\ UNCHANGED <<mu, streams>>
        /\ UNCHANGED <<nilled, panicked>>
  /\ UNCHANGED <<arg, rest, serve, sent, reader>>

\* The application cancels the context it passed to Watch.
CancelContext(s) ==
  /\ stream[s].id # NONE /\ stream[s].inctx = "live"
  /\ stream' = [stream EXCEPT ![s].inctx = "cancelled", ![s].ctx = "cancelled"]
  /\ UNCHANGED <<watcherVars, callVars, serve, sent, reader, panicked>>

(***************************************************************************)
(* run().  openWatchClient tries until it gets a gRPC stream (DialOk), an  *)
(* error that halts (DialHalt: the context is done or the code is not      *)
(* retryable) or sleeps after Unavailable; it tries again at once after    *)
(* Internal, which changes nothing here.  A reconnect sends initReq.       *)
(***************************************************************************)
\* Mutant: a reconnect does not send initReq again.
NoResend(s) ==
  LET n == stream[s].wc + 1 IN
  /\ stream[s].run = "dial" /\ stream[s].ctx = "live"
  /\ n \in Conn
  /\ serve' = [serve EXCEPT ![s][n].pc = "recv"]
  /\ stream' = [stream EXCEPT ![s].wc = n, ![s].run = "select"]
  /\ UNCHANGED <<watcherVars, callVars, sent, reader, panicked>>

DialOk(s) ==
  LET n == stream[s].wc + 1 IN
  /\ stream[s].run = "dial" /\ stream[s].ctx = "live"
  /\ n \in Conn
  /\ serve' = [serve EXCEPT ![s][n].pc = "recv"]
  /\ stream' = [stream EXCEPT ![s].wc = n,
                              ![s].run = IF n = 1 THEN "select" ELSE "send",
                              ![s].req = IF n = 1 THEN NONE ELSE "create"]
  /\ UNCHANGED <<watcherVars, callVars, sent, reader, panicked>>

DialUnavailable(s) ==
  /\ stream[s].run = "dial" /\ stream[s].ctx = "live"
  /\ stream' = [stream EXCEPT ![s].run = "backoff"]
  /\ UNCHANGED <<watcherVars, callVars, serve, sent, reader, panicked>>

BackoffOver(s) ==
  /\ stream[s].run = "backoff"
  /\ stream' = [stream EXCEPT ![s].run = "dial"]
  /\ UNCHANGED <<watcherVars, callVars, serve, sent, reader, panicked>>

DialHalt(s) ==
  /\ stream[s].run = "dial"
  /\ stream' = [stream EXCEPT ![s].run = "tell"]
  /\ UNCHANGED <<watcherVars, callVars, serve, sent, reader, panicked>>

\* An error of Send is only logged: the request counts as written here, and
\* whether it arrives is the network's business.
Send(s) ==
  LET n == stream[s].wc IN
  /\ stream[s].run = "send"
  /\ sent' = [sent EXCEPT ![s][n] = Append(@, stream[s].req)]
  /\ stream' = [stream EXCEPT ![s].run = "select", ![s].req = NONE]
  /\ UNCHANGED <<watcherVars, callVars, serve, reader, panicked>>

\* Mutant: run() takes a retryable error and goes on with the old stream.
NoReconnect(s) ==
  /\ stream[s].run = "select" /\ stream[s].errc # "empty"
  /\ stream' = [stream EXCEPT
       ![s].errc = "empty",
       ![s].run = IF stream[s].ctx = "cancelled" \/ stream[s].errc = "halt"
                  THEN "tell" ELSE "select"]
  /\ UNCHANGED <<watcherVars, callVars, serve, sent, reader, panicked>>

RunErr(s) ==
  /\ stream[s].run = "select" /\ stream[s].errc # "empty"
  /\ stream' = [stream EXCEPT
       ![s].errc = "empty",
       ![s].run = IF stream[s].ctx = "cancelled" \/ stream[s].errc = "halt"
                  THEN "tell" ELSE "dial"]
  /\ UNCHANGED <<watcherVars, callVars, serve, sent, reader, panicked>>

RunDone(s) ==
  /\ stream[s].run = "select"
  /\ stream[s].ctx = "cancelled" \/ stream[s].donec = "closed"
  /\ stream' = [stream EXCEPT ![s].run = "exited"]
  /\ UNCHANGED <<watcherVars, callVars, serve, sent, reader, panicked>>

Reading(s) == reader[s] \in {"fresh", "created"}

\* The deferred function of run() when closeErr is set: hand the application
\* a Canceled response, then have the Watcher forget the stream.
Tell(s) ==
  /\ stream[s].run = "tell" /\ Reading(s)
  /\ reader' = [reader EXCEPT ![s] = "stopped"]
  /\ stream' = [stream EXCEPT ![s].run = "leave"]
  /\ UNCHANGED <<watcherVars, callVars, serve, sent, panicked>>

\* Mutant: closeStream does not take mu.
LeaveUnlocked(s) ==
  /\ stream[s].run = "leave" /\ stream[s].donec = "open"
  /\ stream' = [stream EXCEPT ![s].donec = "closed", ![s].ctx = "cancelled", ![s].run = "exited"]
  /\ streams' = IF nilled THEN streams ELSE [streams EXCEPT ![stream[s].id] = NONE]
  /\ UNCHANGED <<mu, nilled, callVars, serve, sent, reader, panicked>>

\* Mutant: closeStream cancels and deletes, and forgets donec.
LeaveOpen(s) ==
  /\ stream[s].run = "leave" /\ mu = NONE
  /\ stream' = [stream EXCEPT ![s].ctx = "cancelled", ![s].run = "exited"]
  /\ streams' = IF nilled THEN streams ELSE [streams EXCEPT ![stream[s].id] = NONE]
  /\ UNCHANGED <<mu, nilled, callVars, serve, sent, reader, panicked>>

\* Mutant: closeStream closes donec only once, and deletes the id regardless.
LeaveOnce(s) ==
  /\ stream[s].run = "leave" /\ mu = NONE
  /\ stream' = [stream EXCEPT ![s].donec = "closed", ![s].ctx = "cancelled", ![s].run = "exited"]
  /\ streams' = IF nilled THEN streams ELSE [streams EXCEPT ![stream[s].id] = NONE]
  /\ UNCHANGED <<mu, nilled, callVars, serve, sent, reader, panicked>>

\* Watcher.closeStream.
Leave(s) ==
  /\ stream[s].run = "leave" /\ mu = NONE
  /\ \/ /\ stream[s].donec = "closed"
        /\ panicked' = "closeStream"
        /\ UNCHANGED <<streams, stream>>
     \/ /\ stream[s].donec = "open"
        /\ stream' = [stream EXCEPT ![s].donec = "closed", ![s].ctx = "cancelled",
                                    ![s].run = "exited"]
        /\ streams' = IF nilled THEN streams
                      ELSE [streams EXCEPT ![stream[s].id] = NONE]
        /\ UNCHANGED panicked
  /\ UNCHANGED <<mu, nilled, callVars, serve, sent, reader>>

(***************************************************************************)
(* serveWatchClient, for the n-th gRPC stream of s.  What Recv returns is  *)
(* the network's choice; the number of retryable failures is bounded.      *)
(***************************************************************************)
RecvResp(s, n, resp) ==
  /\ serve[s][n].pc = "recv"
  /\ serve' = [serve EXCEPT ![s][n] = [pc |-> "resp", hand |-> resp]]
  /\ UNCHANGED <<watcherVars, callVars, stream, sent, reader, panicked>>

RecvErr(s, n, err) ==
  /\ serve[s][n].pc = "recv"
  /\ err = "retry" => n < MaxConn
  /\ serve' = [serve EXCEPT ![s][n] = [pc |-> "err", hand |-> err]]
  /\ UNCHANGED <<watcherVars, callVars, stream, sent, reader, panicked>>

\* What the reader of client.go does with a response: it returns at Canceled,
\* and reports a failed create when its first response is not Created.
ReaderAfter(state, resp) ==
  CASE resp = "canceled" -> "stopped"
    [] resp = "update" /\ state = "fresh" -> "failed"
    [] OTHER -> "created"

PutResp(s, n) ==
  /\ serve[s][n].pc = "resp" /\ Reading(s)
  /\ reader' = [reader EXCEPT ![s] = ReaderAfter(@, serve[s][n].hand)]
  /\ serve' = [serve EXCEPT ![s][n] = [pc |-> "recv", hand |-> NONE]]
  /\ UNCHANGED <<watcherVars, callVars, stream, sent, panicked>>

\* Mutant: the error is dropped, and errc receives nothing in its place.
PutNil(s, n) ==
  /\ serve[s][n].pc = "err" /\ stream[s].errc = "empty"
  /\ stream' = [stream EXCEPT ![s].errc = NONE]
  /\ serve' = [serve EXCEPT ![s][n] = [pc |-> "exited", hand |-> NONE]]
  /\ UNCHANGED <<watcherVars, callVars, sent, reader, panicked>>

\* Mutant: serveWatchClient does not return after its error.
NoReturn(s, n) ==
  /\ serve[s][n].pc = "err" /\ stream[s].errc = "empty"
  /\ stream' = [stream EXCEPT ![s].errc = serve[s][n].hand]
  /\ serve' = [serve EXCEPT ![s][n] = [pc |-> "recv", hand |-> NONE]]
  /\ UNCHANGED <<watcherVars, callVars, sent, reader, panicked>>

PutErr(s, n) ==
  /\ serve[s][n].pc = "err" /\ stream[s].errc = "empty"
  /\ stream' = [stream EXCEPT ![s].errc = serve[s][n].hand]
  /\ serve' = [serve EXCEPT ![s][n] = [pc |-> "exited", hand |-> NONE]]
  /\ UNCHANGED <<watcherVars, callVars, sent, reader, panicked>>

\* Mutant: handing over a response does not look at donec.
NoDonec(s, n) ==
  /\ serve[s][n].pc = "err" /\ stream[s].donec = "closed"
  /\ serve' = [serve EXCEPT ![s][n] = [pc |-> "exited", hand |-> NONE]]
  /\ UNCHANGED <<watcherVars, callVars, stream, sent, reader, panicked>>

ServeDonec(s, n) ==
  /\ serve[s][n].pc \in {"resp", "err"} /\ stream[s].donec = "closed"
  /\ serve' = [serve EXCEPT ![s][n] = [pc |-> "exited", hand |-> NONE]]
  /\ UNCHANGED <<watcherVars, callVars, stream, sent, reader, panicked>>

-----------------------------------------------------------------------------
\* What the client does on its own, network aside.
CallStep(t) ==
  \/ WatchSent(t) \/ WatchCtxDone(t) \/ WatchDonec(t) \/ WatchAgain(t)
  \/ CloseRange(t) \/ CancelSent(t) \/ CloseCancel(t) \/ CloseDonec(t)

RunStep(s) ==
  BackoffOver(s) \/ Send(s) \/ RunErr(s) \/ RunDone(s) \/ Tell(s) \/ Leave(s)

ServeStep(s, n) == PutResp(s, n) \/ PutErr(s, n) \/ ServeDonec(s, n)

Application ==
  \/ \E t \in Thread, id \in ID : Watch(t, id) \/ CloseStream(t, id)
  \/ \E t \in Thread : Close(t)
  \/ \E s \in Stream : CancelContext(s)

Dial(s) == DialOk(s) \/ DialUnavailable(s) \/ DialHalt(s)

Recv(s, n) ==
  \/ \E resp \in Response : RecvResp(s, n, resp)
  \/ \E err \in Error : RecvErr(s, n, err)

\* A panic ends the process, and with it every step.
Next ==
  /\ panicked = "no"
  /\ \/ Application
     \/ \E t \in Thread : CallStep(t)
     \/ \E s \in Stream : RunStep(s) \/ Dial(s)
     \/ \E s \in Stream, n \in Conn : ServeStep(s, n) \/ Recv(s, n)

Spec == Init /\ [][Next]_vars

(***************************************************************************)
(* Fairness: goroutines that can run do run.  The network owes an answer   *)
(* only to a Recv whose context is done: gRPC hands out what it has        *)
(* buffered and then fails, so a Recv repeated for ever does fail.  A      *)
(* server that is dialled again and again is reached or answers with an    *)
(* error that halts.  The application's calls and cancellations are never  *)
(* owed.                                                                   *)
(***************************************************************************)
Running(A) == panicked = "no" /\ A

Fairness ==
  /\ \A t \in Thread : WF_vars(Running(CallStep(t)))
  /\ \A s \in Stream :
       /\ WF_vars(Running(RunStep(s)))
       /\ SF_vars(Running(DialOk(s) \/ DialHalt(s)))
  /\ \A s \in Stream, n \in Conn :
       /\ WF_vars(Running(ServeStep(s, n)))
       /\ SF_vars(Running(stream[s].ctx = "cancelled" /\ RecvErr(s, n, "halt")))

FairSpec == Spec /\ Fairness

-----------------------------------------------------------------------------
(***************************************************************************)
(* Safety.                                                                 *)
(***************************************************************************)

\* "No watching twice" (watcher.go:129): however Watch, CloseStream, Close
\* and run()'s own closeStream interleave, no two stream objects of one id
\* are open at once, and an open one is what the map holds for its id.
OneLiveStreamPerID ==
  \A s1, s2 \in Live : stream[s1].id = stream[s2].id => s1 = s2

LiveIsMapped ==
  \A s \in Live : nilled \/ streams[stream[s].id] = s

\* Reconnects do not overlap (watch_grpc_stream.go:86-102): only the gRPC
\* stream run() opened last has a serve goroutine that can still deliver a
\* response or an error, so nothing old is delivered after something new.
Serving(s, n) == serve[s][n].pc \in {"recv", "resp", "err"}

OnlyCurrentConnServes ==
  \A s \in Stream, n \in Conn : Serving(s, n) => n = stream[s].wc

\* The application never waits on a channel nobody subscribed: when run() is
\* back in its select, the create request went out on the gRPC stream it
\* holds, the first one and every reconnect alike.
SubscribedWhileReading ==
  \A s \in Stream :
    reader[s] # "none" /\ stream[s].run = "select" =>
      \E i \in DOMAIN sent[s][stream[s].wc] : sent[s][stream[s].wc][i] = "create"

\* CloseStream's lookup protects its own close(donec) (client.go:76-77): it
\* never finds a stream that run() has closed, and nobody closes the stream
\* under it.
CloseStreamNeverPanics == panicked # "CloseStream"

\* When an entry leaves the map the stream it names is closed with it, unless
\* Close takes the whole map: no late closeStream removes the entry of a newer
\* stream of the same id, which is open and would be out of reach.
EntryLeavesWithItsStream ==
  [][\A id \in ID :
       streams[id] # NONE /\ streams'[id] # streams[id] =>
         nilled' \/ stream'[streams[id]].donec = "closed"]_vars

(***************************************************************************)
(* Liveness.                                                               *)
(***************************************************************************)

\* A retryable failure is followed by a new gRPC stream with a create request
\* on it, unless the context ends or the server refuses for good (readme.md:
\* reconnect).
Reconnects ==
  \A s \in Stream, n \in Conn :
    stream[s].errc = "retry" /\ stream[s].wc = n ~>
      \/ stream[s].wc > n /\ stream[s].run = "select" /\ sent[s][stream[s].wc] # <<>>
      \/ stream[s].ctx = "cancelled"
      \/ stream[s].run = "tell"
      \/ panicked # "no"

\* Closing donec ends every serve goroutine of the stream.
ServeGoroutinesEnd ==
  \A s \in Stream :
    stream[s].donec = "closed" ~>
      panicked # "no" \/ \A n \in Conn : ~Serving(s, n)

\* CloseStream sends its request while it holds mu, so the whole Watcher waits
\* with it: it comes back, unless run() has left its loop and will never take
\* the request.  Closing a stream that dials or reconnects is late, not lost.
CloseStreamReturns ==
  \A t \in Thread :
    mu = t ~>
      \/ mu # t
      \/ op[t] = "reqc" /\ stream[arg[t]].run \in {"tell", "leave", "exited"}
      \/ panicked # "no"

(***************************************************************************)
(* What the code's comments say and the code does not do.                  *)
(***************************************************************************)

\* client.go:76-77 says that the lookup in CloseStream rules out a panic from
\* closing donec twice.  Close is left out: the claim is about CloseStream.
NoDoubleClose == panicked # "no" => nilled

\* watcher.go:144 says that Watch blocks until the connection is made and
\* keeps retrying unless the caller gives up.
WatchKeepsRetrying ==
  \A t \in Thread :
    op[t] = "watch" /\ stream[arg[t]].inctx = "live" /\ stream[arg[t]].ctx = "live" =>
      stream[arg[t]].run \notin {"tell", "leave", "exited"}

=============================================================================
