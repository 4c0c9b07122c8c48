---------------------------- MODULE WatchServer ----------------------------
(***************************************************************************)
(* The watch server (src/watchserver).  Every call of the Watch RPC has    *)
(* three goroutines: the handler, recvLoop and sendLoop.  All calls share  *)
(* one watcherStore, a map from watch ids to response channels under a     *)
(* RWMutex, and its mockWatch goroutine, which sends an update to every    *)
(* registered channel at each tick of a timer.                             *)
(*                                                                         *)
(* The channels are bounded, and cancelWatch and mockWatch send to them    *)
(* while they hold the lock, so a lock is a state of its holder.           *)
(***************************************************************************)
EXTENDS Naturals, Sequences

CONSTANTS
  Call,  \* the calls of the Watch RPC the server may see
  ID,    \* watch ids
  Cap,   \* the capacity of a response channel (16, watchserver.go:48)
  NONE

ASSUME ServerAssumption ==
  /\ Cap \in Nat \ {0}
  /\ NONE \notin Call \cup ID

VARIABLES
  watchers, \* watcherStore.watchers: whose channel is registered for an id
  ticking,  \* the ids mockWatch has still to send to, while it holds RLock
  rlocked,  \* mockWatch holds RLock
  handler,  \* where each call's Watch is
  victim,   \* the id its cancelWatch is about
  recv,     \* recvLoop: where it is, and the id of the request it handles
  rerr,     \* the error recvLoop put into errc
  sws,      \* the serverWatchStream: its watchID, and whether closec is closed
  chan,     \* sws.watchStream
  sendl,    \* sendLoop: where it is, and the response it is sending
  sctx,     \* the context of the call
  told,     \* the ids whose Created was written to the gRPC stream
  crashed   \* the operation that ended the process, or "no"

callVars  == <<handler, victim, recv, rerr, sws, chan, sendl, sctx, told>>
storeVars == <<watchers, ticking, rlocked>>
serverVars == <<watchers, ticking, rlocked, handler, victim, recv, rerr, sws, chan,
                sendl, sctx, told, crashed>>

\* A response carries the watched app; here the id stands for it.
ResponseOf == [kind : {"created", "update", "canceled"}, id : ID]

HandlerState == {"none", "select", "lock", "locked", "close", "wait", "done"}
RecvState    == {"none", "recv", "offer", "register", "assign", "lock", "locked", "done"}
SendState    == {"none", "select", "send", "done"}

ServerTypeOK ==
  /\ watchers \in [ID -> Call \cup {NONE}]
  /\ ticking \in SUBSET ID
  /\ rlocked \in BOOLEAN
  /\ handler \in [Call -> HandlerState]
  /\ victim \in [Call -> ID \cup {NONE}]
  /\ recv \in [Call -> [pc : RecvState, id : ID \cup {NONE}]]
  /\ rerr \in [Call -> {"none", "client", "request"}]
  /\ sws \in [Call -> [watchID : ID \cup {NONE}, closec : BOOLEAN]]
  /\ chan \in [Call -> [buf : Seq(ResponseOf), closed : BOOLEAN]]
  /\ \A c \in Call : Len(chan[c].buf) <= Cap
  /\ sendl \in [Call -> [pc : SendState, msg : ResponseOf \cup {NONE}]]
  /\ sctx \in [Call -> {"live", "done"}]
  /\ told \in [Call -> SUBSET ID]
  /\ crashed \in {"no", "createWatch", "cancelWatch", "mockWatch", "watchID"}

ServerInit ==
  /\ watchers = [id \in ID |-> NONE]
  /\ ticking = {}
  /\ rlocked = FALSE
  /\ handler = [c \in Call |-> "none"]
  /\ victim = [c \in Call |-> NONE]
  /\ recv = [c \in Call |-> [pc |-> "none", id |-> NONE]]
  /\ rerr = [c \in Call |-> "none"]
  /\ sws = [c \in Call |-> [watchID |-> NONE, closec |-> FALSE]]
  /\ chan = [c \in Call |-> [buf |-> <<>>, closed |-> FALSE]]
  /\ sendl = [c \in Call |-> [pc |-> "none", msg |-> NONE]]
  /\ sctx = [c \in Call |-> "live"]
  /\ told = [c \in Call |-> {}]
  /\ crashed = "no"

Locked  == \E c \in Call : handler[c] = "locked" \/ recv[c].pc = "locked"
CanLock == ~Locked /\ ~rlocked

(***************************************************************************)
(* A send on a response channel: it waits for room, and panics when the    *)
(* channel is closed.                                                      *)
(***************************************************************************)
\* Mutant: the channel is one longer than it is meant to be.
PutOneMore(d, kind, id) ==
  /\ ~chan[d].closed /\ Len(chan[d].buf) <= Cap
  /\ chan' = [chan EXCEPT ![d].buf = Append(@, [kind |-> kind, id |-> id])]
  /\ UNCHANGED crashed

Put(d, kind, id) ==
  /\ ~chan[d].closed /\ Len(chan[d].buf) < Cap
  /\ chan' = [chan EXCEPT ![d].buf = Append(@, [kind |-> kind, id |-> id])]
  /\ UNCHANGED crashed

PutPanics(d, by) ==
  /\ chan[d].closed
  /\ crashed' = by
  /\ UNCHANGED chan

(***************************************************************************)
(* cancelWatch(id), once it has the lock: tell the registered channel, if  *)
(* there is one, then delete the entry.                                    *)
(***************************************************************************)
\* Mutant: cancelWatch keeps the entry.
CancelStays(id) ==
  /\ \/ watchers[id] = NONE /\ UNCHANGED <<chan, crashed>>
     \/ watchers[id] # NONE /\ Put(watchers[id], "canceled", id)
  /\ UNCHANGED watchers

CancelEntry(id) ==
  \/ /\ watchers[id] = NONE
     /\ UNCHANGED <<watchers, chan, crashed>>
  \/ /\ watchers[id] # NONE
     /\ Put(watchers[id], "canceled", id)
     /\ watchers' = [watchers EXCEPT ![id] = NONE]

CancelEntryPanics(id) ==
  /\ watchers[id] # NONE
  /\ PutPanics(watchers[id], "cancelWatch")
  /\ UNCHANGED watchers

(***************************************************************************)
(* WatchRpcServer.Watch, the handler.                                      *)
(***************************************************************************)
Accept(c) ==
  /\ handler[c] = "none"
  /\ handler' = [handler EXCEPT ![c] = "select"]
  /\ recv' = [recv EXCEPT ![c].pc = "recv"]
  /\ sendl' = [sendl EXCEPT ![c].pc = "select"]
  /\ UNCHANGED <<storeVars, victim, rerr, sws, chan, sctx, told, crashed>>

\* The error of recvLoop: the handler closes the response channel.  recvLoop
\* wrote watchID before it sent the error, so the read of it is ordered.
HandlerErr(c) ==
  /\ handler[c] = "select" /\ rerr[c] # "none"
  /\ chan' = [chan EXCEPT ![c].closed = TRUE]
  /\ victim' = [victim EXCEPT ![c] = sws[c].watchID]
  /\ handler' = [handler EXCEPT ![c] = "lock"]
  /\ UNCHANGED <<storeVars, recv, rerr, sws, sendl, sctx, told, crashed>>

\* Mutant: the response channel is closed on both ways out of the select.
CloseBoth(c) ==
  /\ handler[c] = "select" /\ sctx[c] = "done"
  /\ chan' = [chan EXCEPT ![c].closed = TRUE]
  /\ victim' = [victim EXCEPT ![c] = sws[c].watchID]
  /\ handler' = [handler EXCEPT ![c] = "lock"]
  /\ UNCHANGED <<storeVars, recv, rerr, sws, sendl, sctx, told, crashed>>

\* The context is done: nothing orders the read of watchID with recvLoop's
\* write.  A read during the write sees the old id, the new one, or the
\* length of one with the bytes of the other: a string nobody registered, or,
\* when it has a length and no bytes yet, one that ends the process.
HandlerDone(c) ==
  /\ handler[c] = "select" /\ sctx[c] = "done"
  /\ \/ /\ \E id \in {sws[c].watchID} \cup
                     (IF recv[c].pc = "assign" THEN {recv[c].id, NONE} ELSE {}) :
             victim' = [victim EXCEPT ![c] = id]
        /\ handler' = [handler EXCEPT ![c] = "lock"]
        /\ UNCHANGED crashed
     \/ /\ recv[c].pc = "assign" /\ sws[c].watchID = NONE
        /\ crashed' = "watchID"
        /\ UNCHANGED <<handler, victim>>
  /\ UNCHANGED <<storeVars, recv, rerr, sws, chan, sendl, sctx, told>>

HandlerLock(c) ==
  /\ handler[c] = "lock" /\ CanLock
  /\ handler' = [handler EXCEPT ![c] = "locked"]
  /\ UNCHANGED <<storeVars, victim, recv, rerr, sws, chan, sendl, sctx, told, crashed>>

\* No request ever registers the empty id a call starts with.
HandlerCancel(c) ==
  /\ handler[c] = "locked"
  /\ \/ /\ \/ victim[c] = NONE /\ UNCHANGED <<watchers, chan, crashed>>
           \/ victim[c] # NONE /\ CancelEntry(victim[c])
        /\ handler' = [handler EXCEPT ![c] = "close"]
        /\ victim' = [victim EXCEPT ![c] = NONE]
     \/ /\ victim[c] # NONE /\ CancelEntryPanics(victim[c])
        /\ UNCHANGED <<handler, victim>>
  /\ UNCHANGED <<ticking, rlocked, recv, rerr, sws, sendl, sctx, told>>

\* Mutant: close does not close closec.
NoClosec(c) ==
  /\ handler[c] = "close"
  /\ handler' = [handler EXCEPT ![c] = "wait"]
  /\ UNCHANGED <<storeVars, victim, recv, rerr, sws, chan, sendl, sctx, told, crashed>>

\* sws.close: tell sendLoop to stop, and wait for it.
HandlerClose(c) ==
  /\ handler[c] = "close"
  /\ sws' = [sws EXCEPT ![c].closec = TRUE]
  /\ handler' = [handler EXCEPT ![c] = "wait"]
  /\ UNCHANGED <<storeVars, victim, recv, rerr, chan, sendl, sctx, told, crashed>>

\* The return of the handler ends the call, and its context.
HandlerReturn(c) ==
  /\ handler[c] = "wait" /\ sendl[c].pc = "done"
  /\ handler' = [handler EXCEPT ![c] = "done"]
  /\ sctx' = [sctx EXCEPT ![c] = "done"]
  /\ UNCHANGED <<storeVars, victim, recv, rerr, sws, chan, sendl, told, crashed>>

(***************************************************************************)
(* recvLoop.  Recv may hand out a buffered request after the context is    *)
(* done.  A Recv can fail while the context is live: a request that cannot *)
(* be decoded.  RecvEnd is the end of the client's requests, or a request  *)
(* recvLoop does not accept.                                               *)
(***************************************************************************)
\* Mutant: createWatch registers the channel before it offers Created.
RegisterFirst(c, id) ==
  /\ recv[c].pc = "recv" /\ CanLock
  /\ watchers' = [watchers EXCEPT ![id] = c]
  /\ recv' = [recv EXCEPT ![c] = [pc |-> "offer", id |-> id]]
  /\ UNCHANGED <<ticking, rlocked, handler, victim, rerr, sws, chan, sendl, sctx, told, crashed>>

RecvCreate(c, id) ==
  /\ recv[c].pc = "recv"
  /\ recv' = [recv EXCEPT ![c] = [pc |-> "offer", id |-> id]]
  /\ UNCHANGED <<storeVars, handler, victim, rerr, sws, chan, sendl, sctx, told, crashed>>

RecvCancel(c, id) ==
  /\ recv[c].pc = "recv"
  /\ recv' = [recv EXCEPT ![c] = [pc |-> "lock", id |-> id]]
  /\ UNCHANGED <<storeVars, handler, victim, rerr, sws, chan, sendl, sctx, told, crashed>>

RecvEnd(c) ==
  /\ recv[c].pc = "recv"
  /\ recv' = [recv EXCEPT ![c].pc = "done"]
  /\ UNCHANGED <<storeVars, handler, victim, rerr, sws, chan, sendl, sctx, told, crashed>>

RecvFails(c) ==
  /\ recv[c].pc = "recv"
  /\ recv' = [recv EXCEPT ![c].pc = "done"]
  /\ rerr' = [rerr EXCEPT ![c] = IF sctx[c] = "done" THEN "client" ELSE "request"]
  /\ UNCHANGED <<storeVars, handler, victim, sws, chan, sendl, sctx, told, crashed>>

\* createWatch: the Created response first, without the lock, then the entry.
CreateOffer(c) ==
  /\ recv[c].pc = "offer"
  /\ \/ Put(c, "created", recv[c].id) /\ recv' = [recv EXCEPT ![c].pc = "register"]
     \/ PutPanics(c, "createWatch") /\ UNCHANGED recv
  /\ UNCHANGED <<storeVars, handler, victim, rerr, sws, sendl, sctx, told>>

\* Mutant: createWatch writes the map without the lock.
RegisterUnlocked(c) ==
  /\ recv[c].pc = "register"
  /\ watchers' = [watchers EXCEPT ![recv[c].id] = c]
  /\ recv' = [recv EXCEPT ![c].pc = "assign"]
  /\ UNCHANGED <<ticking, rlocked, handler, victim, rerr, sws, chan, sendl, sctx, told, crashed>>

CreateRegister(c) ==
  /\ recv[c].pc = "register" /\ CanLock
  /\ watchers' = [watchers EXCEPT ![recv[c].id] = c]
  /\ recv' = [recv EXCEPT ![c].pc = "assign"]
  /\ UNCHANGED <<ticking, rlocked, handler, victim, rerr, sws, chan, sendl, sctx, told, crashed>>

AssignWatchID(c) ==
  /\ recv[c].pc = "assign"
  /\ sws' = [sws EXCEPT ![c].watchID = recv[c].id]
  /\ recv' = [recv EXCEPT ![c] = [pc |-> "recv", id |-> NONE]]
  /\ UNCHANGED <<storeVars, handler, victim, rerr, chan, sendl, sctx, told, crashed>>

CancelLock(c) ==
  /\ recv[c].pc = "lock" /\ CanLock
  /\ recv' = [recv EXCEPT ![c].pc = "locked"]
  /\ UNCHANGED <<storeVars, handler, victim, rerr, sws, chan, sendl, sctx, told, crashed>>

\* The answer to a cancel request; recvLoop ends, without an error.
CancelAnswer(c) ==
  /\ recv[c].pc = "locked"
  /\ \/ CancelEntry(recv[c].id) /\ recv' = [recv EXCEPT ![c] = [pc |-> "done", id |-> NONE]]
     \/ CancelEntryPanics(recv[c].id) /\ UNCHANGED recv
  /\ UNCHANGED <<ticking, rlocked, handler, victim, rerr, sws, sendl, sctx, told>>

(***************************************************************************)
(* sendLoop.  From a closed and drained channel it takes a nil response,   *)
(* which Send refuses; an error of Send ends the loop.                     *)
(***************************************************************************)
SendTake(c) ==
  /\ sendl[c].pc = "select"
  /\ \/ /\ chan[c].buf # <<>>
        /\ sendl' = [sendl EXCEPT ![c] = [pc |-> "send", msg |-> Head(chan[c].buf)]]
        /\ chan' = [chan EXCEPT ![c].buf = Tail(@)]
     \/ /\ chan[c].buf = <<>> /\ chan[c].closed
        /\ sendl' = [sendl EXCEPT ![c].pc = "done"]
        /\ UNCHANGED chan
  /\ UNCHANGED <<storeVars, handler, victim, recv, rerr, sws, sctx, told, crashed>>

SendClosec(c) ==
  /\ sendl[c].pc = "select" /\ sws[c].closec
  /\ sendl' = [sendl EXCEPT ![c].pc = "done"]
  /\ UNCHANGED <<storeVars, handler, victim, recv, rerr, sws, chan, sctx, told, crashed>>

SendOk(c) ==
  /\ sendl[c].pc = "send" /\ sctx[c] = "live"
  /\ told' = IF sendl[c].msg.kind = "created"
             THEN [told EXCEPT ![c] = @ \cup {sendl[c].msg.id}] ELSE told
  /\ sendl' = [sendl EXCEPT ![c] = [pc |-> "select", msg |-> NONE]]
  /\ UNCHANGED <<storeVars, handler, victim, recv, rerr, sws, chan, sctx, crashed>>

SendFails(c) ==
  /\ sendl[c].pc = "send" /\ sctx[c] = "done"
  /\ sendl' = [sendl EXCEPT ![c] = [pc |-> "done", msg |-> NONE]]
  /\ UNCHANGED <<storeVars, handler, victim, recv, rerr, sws, chan, sctx, told, crashed>>

(***************************************************************************)
(* mockWatch.  The loop over the map holds RLock while it sends.           *)
(***************************************************************************)
Tick ==
  /\ ~rlocked /\ ~Locked
  /\ rlocked' = TRUE
  /\ ticking' = {id \in ID : watchers[id] # NONE}
  /\ UNCHANGED <<watchers, callVars, crashed>>

TickSend(id) ==
  /\ id \in ticking
  /\ \/ Put(watchers[id], "update", id) /\ ticking' = ticking \ {id}
     \/ PutPanics(watchers[id], "mockWatch") /\ UNCHANGED ticking
  /\ UNCHANGED <<watchers, rlocked, handler, victim, recv, rerr, sws, sendl, sctx, told>>


TickOver ==
  /\ rlocked /\ ticking = {}
  /\ rlocked' = FALSE
  /\ UNCHANGED <<watchers, ticking, callVars, crashed>>

\* The client goes away, cancels the call, or the connection breaks.
ContextDone(c) ==
  /\ handler[c] \notin {"none", "done"} /\ sctx[c] = "live"
  /\ sctx' = [sctx EXCEPT ![c] = "done"]
  /\ UNCHANGED <<storeVars, handler, victim, recv, rerr, sws, chan, sendl, told, crashed>>

-----------------------------------------------------------------------------
HandlerStep(c) ==
  \/ HandlerErr(c) \/ HandlerDone(c) \/ HandlerCancel(c) \/ HandlerClose(c) \/ HandlerReturn(c)
WorkStep(c)  == CreateOffer(c) \/ AssignWatchID(c) \/ CancelAnswer(c)
LockStep(c)  == HandlerLock(c) \/ CreateRegister(c) \/ CancelLock(c)
SendStep(c)  == SendTake(c) \/ SendClosec(c) \/ SendFails(c)
MockStep     == (\E id \in ID : TickSend(id)) \/ TickOver
ServerStep(c) == HandlerStep(c) \/ WorkStep(c) \/ LockStep(c) \/ SendStep(c)

Client(c) ==
  \/ Accept(c) \/ ContextDone(c) \/ SendOk(c)
  \/ \E id \in ID : RecvCreate(c, id) \/ RecvCancel(c, id)
  \/ RecvEnd(c) \/ RecvFails(c)

ServerNext ==
  /\ crashed = "no"
  /\ Tick \/ MockStep \/ \E c \in Call : ServerStep(c) \/ Client(c)

ServerSpec == ServerInit /\ [][ServerNext]_serverVars

(***************************************************************************)
(* Fairness: goroutines that can run do run, and a RWMutex starves nobody: *)
(* a lock that is free again and again is obtained.  A channel hands its   *)
(* room to the sends that wait for it first come, first served, so a send  *)
(* under the lock that can proceed again and again does.  A Recv whose     *)
(* context is done hands out what it has buffered and then fails.  Clients *)
(* owe nothing, not even to read what they are sent.                       *)
(***************************************************************************)
Alive(A) == crashed = "no" /\ A

\* The sends of the goroutine that has the store's lock.
HeldSend ==
  (\E id \in ID : TickSend(id)) \/ \E c \in Call : HandlerCancel(c) \/ CancelAnswer(c)

StoreFairness ==
  /\ WF_serverVars(Alive(MockStep))
  /\ SF_serverVars(Alive(HeldSend))
  /\ \A c \in Call : WF_serverVars(Alive(SendStep(c)))

CallFairness(c) ==
  /\ WF_serverVars(Alive(HandlerStep(c)))
  /\ WF_serverVars(Alive(WorkStep(c)))
  /\ SF_serverVars(Alive(HandlerLock(c)))
  /\ SF_serverVars(Alive(CreateRegister(c) \/ CancelLock(c)))
  /\ SF_serverVars(Alive(sctx[c] = "done" /\ RecvFails(c)))

ServerFairness == StoreFairness /\ \A c \in Call : CallFairness(c)

FairServerSpec == ServerSpec /\ ServerFairness

-----------------------------------------------------------------------------
(***************************************************************************)
(* Safety.                                                                 *)
(***************************************************************************)

\* A subscriber's first response is Created (client.go:64-71 gives up if it
\* is not): nothing about an id goes out on a stream, from mockWatch or from
\* another call's cancelWatch, before the Created of that stream's own create.
CreatedFirst ==
  \A c \in Call :
    sendl[c].pc = "send" /\ sendl[c].msg.kind # "created" => sendl[c].msg.id \in told[c]

\* The handler closes the response channel only when its own recvLoop is
\* past its last send, so a create is never the send that panics.
CreateNeverPanics == crashed # "createWatch"

\* While mockWatch ranges over the map, nobody changes it.
MapStableInRange ==
  [][rlocked /\ rlocked' => watchers' = watchers]_serverVars

(***************************************************************************)
(* Liveness.                                                               *)
(***************************************************************************)

\* The goroutine that has the store's lock has still to send about id.
Sending(id) ==
  \/ id \in ticking
  \/ \E c \in Call : \/ handler[c] = "locked" /\ victim[c] = id
                     \/ recv[c].pc = "locked" /\ recv[c].id = id

\* It sends to a full channel whose sendLoop does not take from it, because it
\* has ended or waits for its client to read.
Clogged(c) ==
  /\ Len(chan[c].buf) = Cap /\ sendl[c].pc # "select"
  /\ \E id \in ID : watchers[id] = c /\ Sending(id)

\* What the store does not survive: a panic, or a channel clogged for good.
Halted == crashed # "no" \/ \E c \in Call : []Clogged(c)


\* The handler of a dead call returns, although the lock it needs may be held
\* over sends to the channels of other calls, whose clients read late.
HandlerEnds ==
  \A c \in Call :
    handler[c] # "none" /\ sctx[c] = "done" ~> handler[c] = "done" \/ Halted

=============================================================================
