------------------------- MODULE WatchServerProofs -------------------------
(***************************************************************************)
(* Proofs about WatchServer, for any sets of calls and ids and any         *)
(* capacity of the response channels.  IInv, below, is inductive; the      *)
(* safety properties of WatchServer follow from it.                        *)
(***************************************************************************)
EXTENDS WatchServer, Integers, TLAPS

CreatedFor(id) == [kind |-> "created", id |-> id]

\* The subscriber of the call c has been told of id, is being told of it, or
\* will not be told of anything any more.
Heard(c, id) ==
  \/ id \in told[c]
  \/ sendl[c].pc = "send" /\ sendl[c].msg = CreatedFor(id)
  \/ sendl[c].pc = "done"

\* It has heard of id before it gets the i-th response of its channel.
HeardBefore(c, id, i) ==
  Heard(c, id) \/ \E j \in DOMAIN chan[c].buf : j < i /\ chan[c].buf[j] = CreatedFor(id)

\* It has heard of id, or the Created is in its channel.
Announced(c, id) == HeardBefore(c, id, Len(chan[c].buf) + 1)

\* A goroutine that handles a request has its id, and sendLoop a response to send.
BusyOK ==
  \A c \in Call :
    /\ recv[c].pc \in {"offer", "register", "assign", "lock", "locked"} => recv[c].id \in ID
    /\ sendl[c].pc = "send" => sendl[c].msg \in ResponseOf

\* The channel is closed once recvLoop has failed, and recvLoop fails but once.
EndOK ==
  \A c \in Call :
    /\ handler[c] = "none" => recv[c].pc = "none" /\ sendl[c].pc = "none"
    /\ rerr[c] # "none" \/ chan[c].closed => recv[c].pc = "done"

\* mockWatch sends to entries that are there, and nobody else has the lock.
LockOK ==
  /\ rlocked => ~Locked
  /\ ticking # {} => rlocked
  /\ \A id \in ticking : watchers[id] # NONE

\* An entry is announced before it is made, and nothing is sent before.
EntryOK ==
  /\ \A c \in Call : recv[c].pc = "register" => Announced(c, recv[c].id)
  /\ \A id \in ID : watchers[id] # NONE => Announced(watchers[id], id)

QueueOK ==
  \A c \in Call : \A i \in DOMAIN chan[c].buf :
    chan[c].buf[i].kind # "created" => HeardBefore(c, chan[c].buf[i].id, i)

IInv ==
  /\ ServerTypeOK
  /\ BusyOK
  /\ EndOK
  /\ LockOK
  /\ EntryOK
  /\ QueueOK
  /\ CreatedFirst
  /\ CreateNeverPanics

(***************************************************************************)
(* Types.                                                                  *)
(***************************************************************************)
RecvObject == [pc : RecvState, id : ID \cup {NONE}]
SendObject == [pc : SendState, msg : ResponseOf \cup {NONE}]
ChanObject == [buf : Seq(ResponseOf), closed : BOOLEAN]

\* A send on a response channel that has room appends to its buffer alone.
LEMMA PutType ==
  ASSUME ServerTypeOK, NEW d \in Call, NEW id \in ID,
         NEW kind \in {"created", "update", "canceled"}, Put(d, kind, id)
  PROVE  /\ chan' \in [Call -> ChanObject] /\ \A c \in Call : Len(chan'[c].buf) <= Cap
         /\ chan'[d].buf = Append(chan[d].buf, [kind |-> kind, id |-> id])
         /\ chan'[d].closed = chan[d].closed
         /\ \A c \in Call : c # d => chan'[c] = chan[c]
         /\ crashed' = crashed
<1> DEFINE r == [kind |-> kind, id |-> id]
<1>1. chan \in [Call -> ChanObject] /\ r \in ResponseOf
  BY DEF ServerTypeOK, ChanObject, ResponseOf
<1>2. chan[d] \in ChanObject /\ chan[d].buf \in Seq(ResponseOf)
  BY <1>1 DEF ChanObject
<1>3. chan' = [chan EXCEPT ![d] = [chan[d] EXCEPT !.buf = Append(chan[d].buf, r)]]
  BY <1>1 DEF Put
<1>4. Append(chan[d].buf, r) \in Seq(ResponseOf) /\ Len(Append(chan[d].buf, r)) = Len(chan[d].buf) + 1
  BY <1>1, <1>2
<1>5. [chan[d] EXCEPT !.buf = Append(chan[d].buf, r)] \in ChanObject
  BY <1>2, <1>4 DEF ChanObject
<1>6. chan' \in [Call -> ChanObject]
  BY <1>1, <1>3, <1>5
<1>7. chan'[d] = [chan[d] EXCEPT !.buf = Append(chan[d].buf, r)]
  BY <1>1, <1>3
<1>8. chan'[d].buf = Append(chan[d].buf, r) /\ chan'[d].closed = chan[d].closed
  BY <1>2, <1>7 DEF ChanObject
<1>9. \A c \in Call : c # d => chan'[c] = chan[c]
  BY <1>1, <1>3
<1>10. Len(chan'[d].buf) <= Cap /\ crashed' = crashed
  BY <1>2, <1>4, <1>8, ServerAssumption DEF Put
<1> QED
  BY <1>6, <1>8, <1>9, <1>10 DEF ServerTypeOK

\* recvLoop moves on with the id it has ...
LEMMA RecvGoes ==
  ASSUME ServerTypeOK, NEW c \in Call, NEW pc \in RecvState, recv' = [recv EXCEPT ![c].pc = pc]
  PROVE  /\ recv' \in [Call -> RecvObject]
         /\ recv'[c].pc = pc /\ recv'[c].id = recv[c].id
         /\ \A d \in Call : d # c => recv'[d] = recv[d]
<1>1. recv \in [Call -> RecvObject]
  BY DEF ServerTypeOK, RecvObject
<1>2. recv' = [recv EXCEPT ![c] = [recv[c] EXCEPT !.pc = pc]]
  BY <1>1
<1>3. /\ [recv[c] EXCEPT !.pc = pc] \in RecvObject
      /\ [recv[c] EXCEPT !.pc = pc].pc = pc /\ [recv[c] EXCEPT !.pc = pc].id = recv[c].id
  BY <1>1 DEF RecvObject
<1> HIDE DEF RecvObject
<1> QED
  BY <1>1, <1>2, <1>3

\* ... or takes a new one.
LEMMA RecvIs ==
  ASSUME ServerTypeOK, NEW c \in Call, NEW pc \in RecvState, NEW id \in ID \cup {NONE},
         recv' = [recv EXCEPT ![c] = [pc |-> pc, id |-> id]]
  PROVE  /\ recv' \in [Call -> RecvObject]
         /\ recv'[c].pc = pc /\ recv'[c].id = id
         /\ \A d \in Call : d # c => recv'[d] = recv[d]
<1>1. recv \in [Call -> RecvObject] /\ [pc |-> pc, id |-> id] \in RecvObject
  BY DEF ServerTypeOK, RecvObject
<1> QED
  BY <1>1

\* sendLoop moves on with the message it has ...
LEMMA SendGoes ==
  ASSUME ServerTypeOK, NEW c \in Call, NEW pc \in SendState, sendl' = [sendl EXCEPT ![c].pc = pc]
  PROVE  /\ sendl' \in [Call -> SendObject]
         /\ sendl'[c].pc = pc /\ sendl'[c].msg = sendl[c].msg
         /\ \A d \in Call : d # c => sendl'[d] = sendl[d]
<1>1. sendl \in [Call -> SendObject]
  BY DEF ServerTypeOK, SendObject
<1>2. sendl' = [sendl EXCEPT ![c] = [sendl[c] EXCEPT !.pc = pc]]
  BY <1>1
<1>3. /\ [sendl[c] EXCEPT !.pc = pc] \in SendObject
      /\ [sendl[c] EXCEPT !.pc = pc].pc = pc /\ [sendl[c] EXCEPT !.pc = pc].msg = sendl[c].msg
  BY <1>1 DEF SendObject
<1> QED
  BY <1>1, <1>2, <1>3

\* ... or takes a new one.
LEMMA SendIs ==
  ASSUME ServerTypeOK, NEW c \in Call, NEW pc \in SendState, NEW msg \in ResponseOf \cup {NONE},
         sendl' = [sendl EXCEPT ![c] = [pc |-> pc, msg |-> msg]]
  PROVE  /\ sendl' \in [Call -> SendObject]
         /\ sendl'[c].pc = pc /\ sendl'[c].msg = msg
         /\ \A d \in Call : d # c => sendl'[d] = sendl[d]
<1>1. sendl \in [Call -> SendObject] /\ [pc |-> pc, msg |-> msg] \in SendObject
  BY DEF ServerTypeOK, SendObject
<1> QED
  BY <1>1

SwsObject == [watchID : ID \cup {NONE}, closec : BOOLEAN]

\* An assignment to watchID or the closing of closec concerns one call.
LEMMA SwsType ==
  ASSUME ServerTypeOK, NEW c \in Call,
         \/ \E id \in ID : sws' = [sws EXCEPT ![c].watchID = id]
         \/ sws' = [sws EXCEPT ![c].closec = TRUE]
  PROVE  sws' \in [Call -> SwsObject]
<1>1. sws \in [Call -> SwsObject]
  BY DEF ServerTypeOK, SwsObject
<1>2. \/ \E id \in ID : sws' = [sws EXCEPT ![c] = [sws[c] EXCEPT !.watchID = id]]
      \/ sws' = [sws EXCEPT ![c] = [sws[c] EXCEPT !.closec = TRUE]]
  BY <1>1
<1>3. /\ \A id \in ID : [sws[c] EXCEPT !.watchID = id] \in SwsObject
      /\ [sws[c] EXCEPT !.closec = TRUE] \in SwsObject
  BY <1>1 DEF SwsObject
<1> QED
  BY <1>1, <1>2, <1>3

\* close(watchStream) keeps what is buffered and concerns one call.
LEMMA CloseType ==
  ASSUME ServerTypeOK, NEW c \in Call, chan' = [chan EXCEPT ![c].closed = TRUE]
  PROVE  /\ chan' \in [Call -> ChanObject]
         /\ \A d \in Call : chan'[d].buf = chan[d].buf
         /\ \A d \in Call : d # c => chan'[d] = chan[d]
<1>1. chan \in [Call -> ChanObject]
  BY DEF ServerTypeOK, ChanObject
<1>2. chan' = [chan EXCEPT ![c] = [chan[c] EXCEPT !.closed = TRUE]]
  BY <1>1
<1>3. /\ [chan[c] EXCEPT !.closed = TRUE] \in ChanObject
      /\ [chan[c] EXCEPT !.closed = TRUE].buf = chan[c].buf
  BY <1>1 DEF ChanObject
<1> QED
  BY <1>1, <1>2, <1>3

\* What sendLoop takes is the head of the channel.
LEMMA TakeType ==
  ASSUME ServerTypeOK, NEW c \in Call, chan[c].buf # <<>>, chan' = [chan EXCEPT ![c].buf = Tail(@)]
  PROVE  /\ chan' \in [Call -> ChanObject] /\ \A d \in Call : Len(chan'[d].buf) <= Cap
         /\ chan'[c].buf = Tail(chan[c].buf) /\ chan'[c].closed = chan[c].closed
         /\ Head(chan[c].buf) = chan[c].buf[1] /\ chan[c].buf[1] \in ResponseOf
         /\ \A d \in Call : d # c => chan'[d] = chan[d]
<1>1. chan \in [Call -> ChanObject] /\ \A d \in Call : Len(chan[d].buf) <= Cap
  BY DEF ServerTypeOK, ChanObject
<1>2. chan[c].buf \in Seq(ResponseOf)
  BY <1>1 DEF ChanObject
<1>3. /\ Tail(chan[c].buf) \in Seq(ResponseOf) /\ Len(Tail(chan[c].buf)) <= Len(chan[c].buf)
      /\ Head(chan[c].buf) = chan[c].buf[1] /\ chan[c].buf[1] \in ResponseOf
  BY <1>2
<1>4. chan' = [chan EXCEPT ![c] = [chan[c] EXCEPT !.buf = Tail(chan[c].buf)]]
  BY <1>1
<1> DEFINE x == [chan[c] EXCEPT !.buf = Tail(chan[c].buf)]
<1>5. x \in ChanObject /\ x.buf = Tail(chan[c].buf) /\ x.closed = chan[c].closed
  BY <1>1, <1>3 DEF ChanObject
<1>6. Len(x.buf) <= Cap
  BY <1>1, <1>2, <1>3, <1>5, ServerAssumption
<1> HIDE DEF x
<1>7. /\ chan' \in [Call -> ChanObject] /\ chan'[c] = x
      /\ \A d \in Call : d # c => chan'[d] = chan[d]
  BY <1>1, <1>4, <1>5 DEF x
<1>8. \A d \in Call : Len(chan'[d].buf) <= Cap
  BY <1>1, <1>6, <1>7
<1> QED
  BY <1>3, <1>5, <1>7, <1>8

\* Every step of the server keeps the types.
LEMMA TypeStep == IInv /\ ServerNext => ServerTypeOK'
<1> SUFFICES ASSUME IInv, ServerNext
             PROVE  ServerTypeOK'
  OBVIOUS
<1>0. ServerTypeOK /\ BusyOK /\ LockOK
  BY DEF IInv
<1>t. /\ recv \in [Call -> RecvObject] /\ sendl \in [Call -> SendObject] /\ chan \in [Call -> ChanObject]
      /\ watchers \in [ID -> Call \cup {NONE}] /\ ticking \in SUBSET ID /\ rlocked \in BOOLEAN
  BY <1>0 DEF ServerTypeOK, RecvObject, SendObject, ChanObject
<1> USE DEF storeVars, callVars
<1>1. ASSUME NEW c \in Call, Accept(c) PROVE ServerTypeOK'
  <2>1. recv' \in [Call -> RecvObject] /\ sendl' \in [Call -> SendObject]
    BY <1>0, <1>1, RecvGoes, SendGoes DEF Accept, RecvState, SendState
  <2> QED
    BY <1>0, <1>1, <2>1 DEF Accept, ServerTypeOK, RecvObject, SendObject, ChanObject, HandlerState
<1>2. ASSUME NEW c \in Call, HandlerErr(c) PROVE ServerTypeOK'
  <2>1. chan' \in [Call -> ChanObject] /\ \A d \in Call : chan'[d].buf = chan[d].buf
    BY <1>0, <1>2, CloseType DEF HandlerErr
  <2>2. victim' \in [Call -> ID \cup {NONE}]
    BY <1>0, <1>2 DEF HandlerErr, ServerTypeOK
  <2> QED
    BY <1>0, <1>2, <2>1, <2>2 DEF HandlerErr, ServerTypeOK, RecvObject, SendObject, ChanObject, HandlerState
<1>3. ASSUME NEW c \in Call, HandlerDone(c) PROVE ServerTypeOK'
  <2>1. victim' \in [Call -> ID \cup {NONE}]
    <3>1. sws[c].watchID \in ID \cup {NONE} /\ recv[c].id \in ID \cup {NONE} /\ victim \in [Call -> ID \cup {NONE}]
      BY <1>0, <1>t DEF ServerTypeOK, RecvObject
    <3> QED
      BY <1>3, <3>1 DEF HandlerDone
  <2>2. handler' \in [Call -> HandlerState] /\ crashed' \in {crashed, "watchID"}
    BY <1>0, <1>3 DEF HandlerDone, ServerTypeOK, HandlerState
  <2> QED
    BY <1>0, <1>3, <2>1, <2>2 DEF HandlerDone, ServerTypeOK
<1>4. ASSUME NEW c \in Call, HandlerLock(c) PROVE ServerTypeOK'
  BY <1>0, <1>4 DEF HandlerLock, ServerTypeOK, HandlerState
<1>5. ASSUME NEW c \in Call, HandlerClose(c) PROVE ServerTypeOK'
  <2>1. sws' \in [Call -> SwsObject]
    BY <1>0, <1>5, SwsType DEF HandlerClose
  <2> QED
    BY <1>0, <1>5, <2>1 DEF HandlerClose, ServerTypeOK, SwsObject, HandlerState
<1>6. ASSUME NEW c \in Call, HandlerReturn(c) PROVE ServerTypeOK'
  BY <1>0, <1>6 DEF HandlerReturn, ServerTypeOK, HandlerState
<1>7. ASSUME NEW c \in Call, NEW id \in ID, RecvCreate(c, id) PROVE ServerTypeOK'
  <2>1. recv' \in [Call -> RecvObject]
    BY <1>0, <1>7, RecvIs DEF RecvCreate, RecvState
  <2> QED
    BY <1>0, <1>7, <2>1 DEF RecvCreate, ServerTypeOK, RecvObject, SendObject, ChanObject
<1>8. ASSUME NEW c \in Call, NEW id \in ID, RecvCancel(c, id) PROVE ServerTypeOK'
  <2>1. recv' \in [Call -> RecvObject]
    BY <1>0, <1>8, RecvIs DEF RecvCancel, RecvState
  <2> QED
    BY <1>0, <1>8, <2>1 DEF RecvCancel, ServerTypeOK, RecvObject, SendObject, ChanObject
<1>9. ASSUME NEW c \in Call, RecvEnd(c) PROVE ServerTypeOK'
  <2>1. recv' \in [Call -> RecvObject]
    BY <1>0, <1>9, RecvGoes DEF RecvEnd, RecvState
  <2> QED
    BY <1>0, <1>9, <2>1 DEF RecvEnd, ServerTypeOK, RecvObject, SendObject, ChanObject
<1>10. ASSUME NEW c \in Call, RecvFails(c) PROVE ServerTypeOK'
  <2>1. recv' \in [Call -> RecvObject]
    BY <1>0, <1>10, RecvGoes DEF RecvFails, RecvState
  <2> QED
    BY <1>0, <1>10, <2>1 DEF RecvFails, ServerTypeOK, RecvObject, SendObject, ChanObject
<1>11. ASSUME NEW c \in Call, CreateRegister(c) PROVE ServerTypeOK'
  <2>1. recv' \in [Call -> RecvObject]
    BY <1>0, <1>11, RecvGoes DEF CreateRegister, RecvState
  <2> QED
    BY <1>0, <1>11, <2>1 DEF CreateRegister, ServerTypeOK, RecvObject, SendObject, ChanObject
<1>12. ASSUME NEW c \in Call, AssignWatchID(c) PROVE ServerTypeOK'
  <2>1. recv[c].id \in ID /\ recv' \in [Call -> RecvObject]
    BY <1>0, <1>12, RecvIs DEF AssignWatchID, RecvState, BusyOK
  <2>2. sws' \in [Call -> SwsObject]
    BY <1>0, <1>12, <2>1, SwsType DEF AssignWatchID
  <2> QED
    BY <1>0, <1>12, <2>1, <2>2 DEF AssignWatchID, ServerTypeOK, RecvObject, SwsObject
<1>13. ASSUME NEW c \in Call, CancelLock(c) PROVE ServerTypeOK'
  <2>1. recv' \in [Call -> RecvObject]
    BY <1>0, <1>13, RecvGoes DEF CancelLock, RecvState
  <2> QED
    BY <1>0, <1>13, <2>1 DEF CancelLock, ServerTypeOK, RecvObject, SendObject, ChanObject
<1>14. ASSUME NEW c \in Call, SendTake(c) PROVE ServerTypeOK'
  <2>1. CASE chan[c].buf # <<>> /\ sendl' = [sendl EXCEPT ![c] = [pc |-> "send", msg |-> Head(chan[c].buf)]]
                       /\ chan' = [chan EXCEPT ![c].buf = Tail(@)]
    <3>1. chan' \in [Call -> ChanObject] /\ (\A d \in Call : Len(chan'[d].buf) <= Cap) /\ Head(chan[c].buf) \in ResponseOf
      BY <1>0, <2>1, TakeType
    <3>2. sendl' \in [Call -> SendObject]
      BY <1>0, <2>1, <3>1, SendIs DEF SendState
    <3> QED
      BY <1>0, <1>14, <3>1, <3>2 DEF SendTake, ServerTypeOK, RecvObject, SendObject, ChanObject
  <2>2. CASE sendl' = [sendl EXCEPT ![c].pc = "done"] /\ UNCHANGED chan
    <3>1. sendl' \in [Call -> SendObject]
      BY <1>0, <2>2, SendGoes DEF SendState
    <3> QED
      BY <1>0, <1>14, <2>2, <3>1 DEF SendTake, ServerTypeOK, RecvObject, SendObject, ChanObject
  <2> QED
    BY <1>14, <2>1, <2>2 DEF SendTake
<1>15. ASSUME NEW c \in Call, SendClosec(c) PROVE ServerTypeOK'
  <2>1. sendl' \in [Call -> SendObject]
    BY <1>0, <1>15, SendGoes DEF SendClosec, SendState
  <2> QED
    BY <1>0, <1>15, <2>1 DEF SendClosec, ServerTypeOK, RecvObject, SendObject, ChanObject
<1>16. ASSUME NEW c \in Call, SendOk(c) PROVE ServerTypeOK'
  <2>1. sendl' \in [Call -> SendObject]
    BY <1>0, <1>16, SendIs DEF SendOk, SendState
  <2>2. told' \in [Call -> SUBSET ID]
    <3>1. sendl[c].msg \in ResponseOf
      BY <1>0, <1>t, <1>16 DEF SendOk, BusyOK, SendObject
    <3>2. sendl[c].msg.id \in ID /\ told \in [Call -> SUBSET ID]
      BY <1>0, <3>1 DEF ResponseOf, ServerTypeOK
    <3> QED
      BY <1>16, <3>2 DEF SendOk
  <2> QED
    BY <1>0, <1>16, <2>1, <2>2 DEF SendOk, ServerTypeOK, RecvObject, SendObject, ChanObject
<1>17. ASSUME NEW c \in Call, SendFails(c) PROVE ServerTypeOK'
  <2>1. sendl' \in [Call -> SendObject]
    BY <1>0, <1>17, SendIs DEF SendFails, SendState
  <2> QED
    BY <1>0, <1>17, <2>1 DEF SendFails, ServerTypeOK, RecvObject, SendObject, ChanObject
<1>18. ASSUME Tick PROVE ServerTypeOK'
  BY <1>0, <1>18 DEF Tick, ServerTypeOK
<1>19. ASSUME TickOver PROVE ServerTypeOK'
  BY <1>0, <1>19 DEF TickOver, ServerTypeOK
<1>20. ASSUME NEW c \in Call, ContextDone(c) PROVE ServerTypeOK'
  BY <1>0, <1>20 DEF ContextDone, ServerTypeOK
<1>21. ASSUME NEW c \in Call, HandlerCancel(c) PROVE ServerTypeOK'
  <2>1. CASE UNCHANGED <<watchers, chan, crashed>>
    BY <1>0, <1>21, <2>1 DEF HandlerCancel, ServerTypeOK, HandlerState
  <2>2. CASE victim[c] # NONE /\ watchers[victim[c]] # NONE /\ Put(watchers[victim[c]], "canceled", victim[c])
             /\ watchers' = [watchers EXCEPT ![victim[c]] = NONE]
    <3>1. victim[c] \in ID /\ watchers[victim[c]] \in Call
      BY <1>0, <1>t, <2>2 DEF ServerTypeOK
    <3>2. chan' \in [Call -> ChanObject] /\ (\A d \in Call : Len(chan'[d].buf) <= Cap) /\ crashed' = crashed
      BY <1>0, <2>2, <3>1, PutType
    <3>3. watchers' \in [ID -> Call \cup {NONE}]
      BY <1>t, <2>2
    <3> QED
      BY <1>0, <1>21, <3>2, <3>3 DEF HandlerCancel, ServerTypeOK, HandlerState, ChanObject
  <2>3. CASE crashed' = "cancelWatch" /\ UNCHANGED <<chan, watchers>>
    BY <1>0, <1>21, <2>3 DEF HandlerCancel, ServerTypeOK, HandlerState
  <2> QED
    BY <1>21, <2>1, <2>2, <2>3 DEF HandlerCancel, CancelEntry, CancelEntryPanics, PutPanics
<1>22. ASSUME NEW c \in Call, CreateOffer(c) PROVE ServerTypeOK'
  <2>1. CASE Put(c, "created", recv[c].id) /\ recv' = [recv EXCEPT ![c].pc = "register"]
    <3>1. recv[c].id \in ID
      BY <1>0, <1>22 DEF CreateOffer, BusyOK
    <3>2. chan' \in [Call -> ChanObject] /\ (\A d \in Call : Len(chan'[d].buf) <= Cap) /\ crashed' = crashed
      BY <1>0, <2>1, <3>1, PutType
    <3>3. recv' \in [Call -> RecvObject]
      BY <1>0, <2>1, RecvGoes DEF RecvState
    <3> QED
      BY <1>0, <1>22, <3>2, <3>3 DEF CreateOffer, ServerTypeOK, ChanObject, RecvObject
  <2>2. CASE PutPanics(c, "createWatch") /\ UNCHANGED recv
    BY <1>0, <1>22, <2>2 DEF CreateOffer, PutPanics, ServerTypeOK
  <2> QED
    BY <1>22, <2>1, <2>2 DEF CreateOffer
<1>23. ASSUME NEW c \in Call, CancelAnswer(c) PROVE ServerTypeOK'
  <2>0. recv[c].id \in ID
    BY <1>0, <1>23 DEF CancelAnswer, BusyOK
  <2>1. CASE CancelEntry(recv[c].id) /\ recv' = [recv EXCEPT ![c] = [pc |-> "done", id |-> NONE]]
    <3>1. recv' \in [Call -> RecvObject]
      BY <1>0, <2>1, RecvIs DEF RecvState
    <3>2. CASE UNCHANGED <<watchers, chan, crashed>>
      BY <1>0, <1>23, <3>1, <3>2 DEF CancelAnswer, ServerTypeOK, RecvObject
    <3>3. CASE watchers[recv[c].id] # NONE /\ Put(watchers[recv[c].id], "canceled", recv[c].id)
               /\ watchers' = [watchers EXCEPT ![recv[c].id] = NONE]
      <4>1. watchers[recv[c].id] \in Call
        BY <1>t, <2>0, <3>3
      <4>2. chan' \in [Call -> ChanObject] /\ (\A d \in Call : Len(chan'[d].buf) <= Cap) /\ crashed' = crashed
        BY <1>0, <2>0, <3>3, <4>1, PutType
      <4>3. watchers' \in [ID -> Call \cup {NONE}]
        BY <1>t, <3>3
      <4> QED
        BY <1>0, <1>23, <3>1, <4>2, <4>3 DEF CancelAnswer, ServerTypeOK, RecvObject, ChanObject
    <3> QED
      BY <2>1, <3>2, <3>3 DEF CancelEntry
  <2>2. CASE CancelEntryPanics(recv[c].id) /\ UNCHANGED recv
    BY <1>0, <1>23, <2>2 DEF CancelAnswer, CancelEntryPanics, PutPanics, ServerTypeOK
  <2> QED
    BY <1>23, <2>1, <2>2 DEF CancelAnswer
<1>24. ASSUME NEW id \in ID, TickSend(id) PROVE ServerTypeOK'
  <2>1. watchers[id] \in Call
    BY <1>0, <1>t, <1>24 DEF TickSend, LockOK
  <2>2. CASE Put(watchers[id], "update", id) /\ ticking' = ticking \ {id}
    <3>1. chan' \in [Call -> ChanObject] /\ (\A d \in Call : Len(chan'[d].buf) <= Cap) /\ crashed' = crashed
      BY <1>0, <2>1, <2>2, PutType
    <3> QED
      BY <1>0, <1>24, <2>2, <3>1 DEF TickSend, ServerTypeOK, ChanObject
  <2>3. CASE PutPanics(watchers[id], "mockWatch") /\ UNCHANGED ticking
    BY <1>0, <1>24, <2>3 DEF TickSend, PutPanics, ServerTypeOK
  <2> QED
    BY <1>24, <2>2, <2>3 DEF TickSend
<1> QED
  BY <1>1, <1>2, <1>3, <1>4, <1>5, <1>6, <1>7, <1>8, <1>9, <1>10, <1>11, <1>12, <1>13, <1>14, <1>15, <1>16, <1>17, <1>18, <1>19, <1>20, <1>21, <1>22, <1>23, <1>24
     DEF ServerNext, MockStep, ServerStep, HandlerStep, WorkStep, LockStep, SendStep, Client

(***************************************************************************)
(* The goroutines of a call.                                               *)
(***************************************************************************)
LEMMA BusyStep == IInv /\ ServerNext => BusyOK'
<1> SUFFICES ASSUME IInv, ServerNext
             PROVE  BusyOK'
  OBVIOUS
<1> USE DEF storeVars, callVars
<1>0. ServerTypeOK /\ BusyOK
  BY DEF IInv
<1>1. ASSUME NEW c \in Call, NEW id \in ID, RecvCreate(c, id) PROVE BusyOK'
  BY <1>0, <1>1, RecvIs DEF RecvCreate, RecvState, BusyOK
<1>2. ASSUME NEW c \in Call, NEW id \in ID, RecvCancel(c, id) PROVE BusyOK'
  BY <1>0, <1>2, RecvIs DEF RecvCancel, RecvState, BusyOK
<1>3. ASSUME NEW c \in Call, RecvEnd(c) PROVE BusyOK'
  BY <1>0, <1>3, RecvGoes DEF RecvEnd, RecvState, BusyOK
<1>4. ASSUME NEW c \in Call, RecvFails(c) PROVE BusyOK'
  BY <1>0, <1>4, RecvGoes DEF RecvFails, RecvState, BusyOK
<1>5. ASSUME NEW c \in Call, CreateRegister(c) PROVE BusyOK'
  BY <1>0, <1>5, RecvGoes DEF CreateRegister, RecvState, BusyOK
<1>6. ASSUME NEW c \in Call, CancelLock(c) PROVE BusyOK'
  BY <1>0, <1>6, RecvGoes DEF CancelLock, RecvState, BusyOK
<1>7. ASSUME NEW c \in Call, CreateOffer(c) PROVE BusyOK'
  BY <1>0, <1>7, RecvGoes DEF CreateOffer, RecvState, BusyOK
<1>8. ASSUME NEW c \in Call, AssignWatchID(c) PROVE BusyOK'
  BY <1>0, <1>8, RecvIs DEF AssignWatchID, RecvState, BusyOK
<1>9. ASSUME NEW c \in Call, CancelAnswer(c) PROVE BusyOK'
  BY <1>0, <1>9, RecvIs DEF CancelAnswer, RecvState, BusyOK
<1>10. ASSUME NEW c \in Call, Accept(c) PROVE BusyOK'
  <2>1. \A d \in Call : recv'[d].pc \in {"recv", recv[d].pc} /\ recv'[d].id = recv[d].id
    BY <1>0, <1>10, RecvGoes DEF Accept, RecvState
  <2>2. \A d \in Call : sendl'[d].pc \in {"select", sendl[d].pc} /\ sendl'[d].msg = sendl[d].msg
    BY <1>0, <1>10, SendGoes DEF Accept, SendState
  <2> QED
    BY <1>0, <2>1, <2>2 DEF BusyOK
<1>11. ASSUME NEW c \in Call, SendTake(c) PROVE BusyOK'
  <2>1. CASE chan[c].buf # <<>> /\ sendl' = [sendl EXCEPT ![c] = [pc |-> "send", msg |-> Head(chan[c].buf)]]
                       /\ chan' = [chan EXCEPT ![c].buf = Tail(@)]
    <3>1. Head(chan[c].buf) \in ResponseOf
      BY <1>0, <2>1, TakeType
    <3>2. sendl'[c].msg \in ResponseOf /\ \A d \in Call : d # c => sendl'[d] = sendl[d]
      BY <1>0, <2>1, <3>1, SendIs DEF SendState
    <3> QED
      BY <1>0, <1>11, <3>2 DEF SendTake, BusyOK
  <2>2. CASE sendl' = [sendl EXCEPT ![c].pc = "done"]
    BY <1>0, <1>11, <2>2, SendGoes DEF SendTake, BusyOK, SendState
  <2> QED
    BY <1>11, <2>1, <2>2 DEF SendTake
<1>12. ASSUME NEW c \in Call, SendClosec(c) PROVE BusyOK'
  BY <1>0, <1>12, SendGoes DEF SendClosec, BusyOK, SendState
<1>13. ASSUME NEW c \in Call, SendOk(c) PROVE BusyOK'
  BY <1>0, <1>13, SendIs DEF SendOk, BusyOK, SendState
<1>14. ASSUME NEW c \in Call, SendFails(c) PROVE BusyOK'
  BY <1>0, <1>14, SendIs DEF SendFails, BusyOK, SendState
<1>15. CASE UNCHANGED <<recv, sendl>>
  BY <1>0, <1>15 DEF BusyOK
<1>16. ASSUME NEW c \in Call,
         HandlerErr(c) \/ HandlerDone(c) \/ HandlerLock(c) \/ HandlerClose(c) \/ HandlerReturn(c) \/ ContextDone(c) \/ HandlerCancel(c)
      PROVE  UNCHANGED <<recv, sendl>>
  BY <1>16 DEF HandlerErr, HandlerDone, HandlerLock, HandlerClose, HandlerReturn, ContextDone, HandlerCancel
<1>17. ASSUME Tick \/ TickOver \/ \E id \in ID : TickSend(id)
      PROVE  UNCHANGED <<recv, sendl>>
  BY <1>17 DEF Tick, TickOver, TickSend
<1> QED
  BY <1>1, <1>2, <1>3, <1>4, <1>5, <1>6, <1>7, <1>8, <1>9, <1>10, <1>11, <1>12, <1>13, <1>14, <1>16, <1>17, <1>15
     DEF ServerNext, MockStep, ServerStep, HandlerStep, WorkStep, LockStep, SendStep, Client

\* The handler closes the channel after recvLoop has ended, and that stays so.
LEMMA EndStep == IInv /\ ServerNext => EndOK'
<1> SUFFICES ASSUME IInv, ServerNext
             PROVE  EndOK'
  OBVIOUS
<1> USE DEF storeVars, callVars
<1>0. ServerTypeOK /\ BusyOK /\ EndOK
  BY DEF IInv
<1>t. handler \in [Call -> HandlerState] /\ rerr \in [Call -> {"none", "client", "request"}]
  BY <1>0 DEF ServerTypeOK
<1>1. ASSUME NEW c \in Call, Accept(c) PROVE EndOK'
  <2>1. \A d \in Call : d # c => recv'[d] = recv[d] /\ sendl'[d] = sendl[d]
    BY <1>0, <1>1, RecvGoes, SendGoes DEF Accept, RecvState, SendState
  <2>2. rerr[c] = "none" /\ ~chan[c].closed
    BY <1>0, <1>1 DEF Accept, EndOK
  <2>3. /\ handler'[c] = "select" /\ UNCHANGED <<rerr, chan>>
        /\ \A d \in Call : d # c => handler'[d] = handler[d]
    BY <1>t, <1>1 DEF Accept
  <2> QED
    BY <1>0, <2>1, <2>2, <2>3 DEF EndOK
<1>2. ASSUME NEW c \in Call, HandlerErr(c) PROVE EndOK'
  <2>1. \A d \in Call : d # c => chan'[d] = chan[d]
    BY <1>0, <1>2, CloseType DEF HandlerErr
  <2>2. handler'[c] = "lock" /\ \A d \in Call : d # c => handler'[d] = handler[d]
    BY <1>t, <1>2 DEF HandlerErr
  <2>3. recv[c].pc = "done" /\ UNCHANGED <<rerr, recv, sendl>>
    BY <1>0, <1>2 DEF HandlerErr, EndOK
  <2> QED
    BY <1>0, <2>1, <2>2, <2>3 DEF EndOK
<1>3. ASSUME NEW c \in Call, HandlerDone(c) PROVE EndOK'
  BY <1>0, <1>t, <1>3 DEF HandlerDone, EndOK
<1>4. ASSUME NEW c \in Call, HandlerLock(c) PROVE EndOK'
  BY <1>0, <1>t, <1>4 DEF HandlerLock, EndOK
<1>5. ASSUME NEW c \in Call, HandlerClose(c) PROVE EndOK'
  BY <1>0, <1>t, <1>5 DEF HandlerClose, EndOK
<1>6. ASSUME NEW c \in Call, HandlerReturn(c) PROVE EndOK'
  BY <1>0, <1>t, <1>6 DEF HandlerReturn, EndOK
<1>7. ASSUME NEW c \in Call, NEW id \in ID, RecvCreate(c, id) PROVE EndOK'
  BY <1>0, <1>7, RecvIs DEF RecvCreate, RecvState, BusyOK, EndOK
<1>8. ASSUME NEW c \in Call, NEW id \in ID, RecvCancel(c, id) PROVE EndOK'
  BY <1>0, <1>8, RecvIs DEF RecvCancel, RecvState, BusyOK, EndOK
<1>9. ASSUME NEW c \in Call, AssignWatchID(c) PROVE EndOK'
  BY <1>0, <1>9, RecvIs DEF AssignWatchID, RecvState, BusyOK, EndOK
<1>10. ASSUME NEW c \in Call, RecvEnd(c) PROVE EndOK'
  BY <1>0, <1>10, RecvGoes DEF RecvEnd, RecvState, EndOK
<1>11. ASSUME NEW c \in Call, CreateRegister(c) PROVE EndOK'
  BY <1>0, <1>11, RecvGoes DEF CreateRegister, RecvState, EndOK
<1>12. ASSUME NEW c \in Call, CancelLock(c) PROVE EndOK'
  BY <1>0, <1>12, RecvGoes DEF CancelLock, RecvState, EndOK
<1>13. ASSUME NEW c \in Call, RecvFails(c) PROVE EndOK'
  <2>1. recv'[c].pc = "done" /\ \A d \in Call : d # c => recv'[d] = recv[d]
    BY <1>0, <1>13, RecvGoes DEF RecvFails, RecvState
  <2>2. (\A d \in Call : d # c => rerr'[d] = rerr[d]) /\ UNCHANGED <<handler, chan, sendl>> /\ handler[c] # "none"
    BY <1>0, <1>t, <1>13 DEF RecvFails, EndOK
  <2> QED
    BY <1>0, <2>1, <2>2 DEF EndOK
<1>14. ASSUME NEW c \in Call, CreateOffer(c) PROVE EndOK'
  <2>1. CASE Put(c, "created", recv[c].id) /\ recv' = [recv EXCEPT ![c].pc = "register"]
    <3>1. recv[c].id \in ID /\ ~chan[c].closed /\ rerr[c] = "none" /\ handler[c] # "none"
      BY <1>0, <1>14, <2>1 DEF CreateOffer, BusyOK, EndOK
    <3>2. \A d \in Call : chan'[d].closed = chan[d].closed
      BY <1>0, <2>1, <3>1, PutType
    <3>3. \A d \in Call : d # c => recv'[d] = recv[d]
      BY <1>0, <2>1, RecvGoes DEF RecvState
    <3> QED
      BY <1>0, <1>14, <3>1, <3>2, <3>3 DEF CreateOffer, EndOK
  <2>2. CASE PutPanics(c, "createWatch") /\ UNCHANGED recv
    BY <1>0, <1>14, <2>2 DEF CreateOffer, PutPanics, EndOK
  <2> QED
    BY <1>14, <2>1, <2>2 DEF CreateOffer
<1>15. ASSUME NEW c \in Call, HandlerCancel(c) PROVE EndOK'
  <2>1. \A d \in Call : chan'[d].closed = chan[d].closed
    <3>1. ASSUME NEW id \in ID, watchers[id] # NONE, Put(watchers[id], "canceled", id)
          PROVE  \A d \in Call : chan'[d].closed = chan[d].closed
      BY <1>0, <3>1, PutType DEF ServerTypeOK
    <3> QED
      BY <1>0, <1>15, <3>1 DEF HandlerCancel, CancelEntry, CancelEntryPanics, PutPanics, ServerTypeOK
  <2> QED
    BY <1>0, <1>t, <1>15, <2>1 DEF HandlerCancel, EndOK
<1>16. ASSUME NEW c \in Call, CancelAnswer(c) PROVE EndOK'
  <2>0. recv[c].id \in ID /\ handler[c] # "none"
    BY <1>0, <1>16 DEF CancelAnswer, BusyOK, EndOK
  <2>1. \A d \in Call : chan'[d].closed = chan[d].closed
    <3>1. ASSUME NEW id \in ID, watchers[id] # NONE, Put(watchers[id], "canceled", id)
          PROVE  \A d \in Call : chan'[d].closed = chan[d].closed
      BY <1>0, <3>1, PutType DEF ServerTypeOK
    <3> QED
      BY <1>0, <1>16, <2>0, <3>1 DEF CancelAnswer, CancelEntry, CancelEntryPanics, PutPanics
  <2>2. recv'[c].pc \in {"done", recv[c].pc} /\ \A d \in Call : d # c => recv'[d] = recv[d]
    BY <1>0, <1>16, RecvIs DEF CancelAnswer, RecvState
  <2> QED
    BY <1>0, <1>16, <2>0, <2>1, <2>2 DEF CancelAnswer, EndOK
<1>17. ASSUME NEW id \in ID, TickSend(id) PROVE EndOK'
  <2>1. watchers[id] \in Call
    BY <1>17 DEF TickSend, IInv, LockOK, ServerTypeOK
  <2>2. \A d \in Call : chan'[d].closed = chan[d].closed
    BY <1>0, <1>17, <2>1, PutType DEF TickSend, PutPanics
  <2> QED
    BY <1>0, <1>17, <2>2 DEF TickSend, EndOK
<1>18. ASSUME NEW c \in Call, SendTake(c) PROVE EndOK'
  <2>1. \A d \in Call : chan'[d].closed = chan[d].closed
    BY <1>0, <1>18, TakeType DEF SendTake
  <2>2. \A d \in Call : d # c => sendl'[d] = sendl[d]
    BY <1>0, <1>18 DEF SendTake, ServerTypeOK
  <2>3. handler[c] # "none" /\ UNCHANGED <<handler, recv, rerr>>
    BY <1>0, <1>18 DEF SendTake, EndOK
  <2> QED
    BY <1>0, <2>1, <2>2, <2>3 DEF EndOK
<1>19. ASSUME NEW c \in Call, SendClosec(c) PROVE EndOK'
  <2>1. \A d \in Call : d # c => sendl'[d] = sendl[d]
    BY <1>0, <1>19 DEF SendClosec, ServerTypeOK
  <2>2. handler[c] # "none" /\ UNCHANGED <<handler, recv, rerr, chan>>
    BY <1>0, <1>19 DEF SendClosec, EndOK
  <2> QED
    BY <1>0, <2>1, <2>2 DEF EndOK
<1>20. ASSUME NEW c \in Call, SendOk(c) PROVE EndOK'
  <2>1. \A d \in Call : d # c => sendl'[d] = sendl[d]
    BY <1>0, <1>20 DEF SendOk, ServerTypeOK
  <2>2. handler[c] # "none" /\ UNCHANGED <<handler, recv, rerr, chan>>
    BY <1>0, <1>20 DEF SendOk, EndOK
  <2> QED
    BY <1>0, <2>1, <2>2 DEF EndOK
<1>21. ASSUME NEW c \in Call, SendFails(c) PROVE EndOK'
  <2>1. \A d \in Call : d # c => sendl'[d] = sendl[d]
    BY <1>0, <1>21 DEF SendFails, ServerTypeOK
  <2>2. handler[c] # "none" /\ UNCHANGED <<handler, recv, rerr, chan>>
    BY <1>0, <1>21 DEF SendFails, EndOK
  <2> QED
    BY <1>0, <2>1, <2>2 DEF EndOK
<1>22. CASE UNCHANGED <<handler, recv, rerr, sendl, chan>>
  BY <1>0, <1>22 DEF EndOK
<1>23. ASSUME NEW c \in Call, ContextDone(c)
      PROVE  UNCHANGED <<handler, recv, rerr, sendl, chan>>
  BY <1>23 DEF ContextDone
<1>24. ASSUME Tick \/ TickOver
      PROVE  UNCHANGED <<handler, recv, rerr, sendl, chan>>
  BY <1>24 DEF Tick, TickOver
<1> QED
  BY <1>1, <1>2, <1>3, <1>4, <1>5, <1>6, <1>7, <1>8, <1>9, <1>10, <1>11, <1>12, <1>13, <1>14, <1>15, <1>16, <1>17, <1>18, <1>19, <1>20, <1>21, <1>23, <1>24, <1>22
     DEF ServerNext, MockStep, ServerStep, HandlerStep, WorkStep, LockStep, SendStep, Client

(***************************************************************************)
(* The lock of the store.                                                   *)
(***************************************************************************)
\* A step that leaves the store alone and does not take its lock.
LEMMA LockKept ==
  ASSUME LockOK, UNCHANGED <<watchers, ticking, rlocked>>, Locked' => Locked
  PROVE  LockOK'
BY DEF LockOK

\* While mockWatch ranges over the map nobody changes it, nor has the lock.
LEMMA LockStepKeeps == IInv /\ ServerNext => LockOK' /\ (rlocked => watchers' = watchers)
<1> SUFFICES ASSUME IInv, ServerNext
             PROVE  LockOK' /\ (rlocked => watchers' = watchers)
  OBVIOUS
<1> USE DEF storeVars, callVars
<1>0. ServerTypeOK /\ BusyOK /\ LockOK
  BY DEF IInv
<1>t. handler \in [Call -> HandlerState] /\ recv \in [Call -> RecvObject]
  BY <1>0 DEF ServerTypeOK, RecvObject
<1> DEFINE P == LockOK' /\ (rlocked => watchers' = watchers)
<1>1. CASE UNCHANGED <<watchers, ticking, rlocked>> /\ (Locked' => Locked)
  BY <1>0, <1>1, LockKept
<1>2. ASSUME UNCHANGED <<watchers, ticking, rlocked, handler, recv>>
      PROVE  P
  BY <1>1, <1>2 DEF Locked
<1>3. ASSUME NEW c \in Call,
             Accept(c) \/ HandlerErr(c) \/ HandlerDone(c) \/ HandlerClose(c) \/ HandlerReturn(c)
      PROVE  P
  <2>1. UNCHANGED <<watchers, ticking, rlocked>>
    BY <1>3 DEF Accept, HandlerErr, HandlerDone, HandlerClose, HandlerReturn
  <2>2. \A d \in Call : handler'[d] = "locked" => handler[d] = "locked"
    BY <1>t, <1>3 DEF Accept, HandlerErr, HandlerDone, HandlerClose, HandlerReturn
  <2>3. \A d \in Call : recv'[d].pc = "locked" => recv[d].pc = "locked"
    <3>1. CASE Accept(c)
      BY <1>0, <3>1, RecvGoes DEF Accept, RecvState
    <3> QED
      BY <1>3, <3>1 DEF HandlerErr, HandlerDone, HandlerClose, HandlerReturn
  <2> QED
    BY <1>1, <2>1, <2>2, <2>3 DEF Locked
<1>4. ASSUME NEW c \in Call, NEW id \in ID, RecvCreate(c, id) \/ RecvCancel(c, id)
      PROVE  P
  <2>1. UNCHANGED <<watchers, ticking, rlocked, handler>>
    BY <1>4 DEF RecvCreate, RecvCancel
  <2>2. \A d \in Call : recv'[d].pc = "locked" => recv[d].pc = "locked"
    BY <1>0, <1>4, RecvIs DEF RecvCreate, RecvCancel, RecvState
  <2> QED
    BY <1>1, <2>1, <2>2 DEF Locked
<1>5. ASSUME NEW c \in Call, RecvEnd(c) \/ RecvFails(c) \/ CreateOffer(c) \/ AssignWatchID(c)
      PROVE  P
  <2>1. UNCHANGED <<watchers, ticking, rlocked, handler>>
    BY <1>5 DEF RecvEnd, RecvFails, CreateOffer, AssignWatchID
  <2>2. \A d \in Call : recv'[d].pc = "locked" => recv[d].pc = "locked"
    BY <1>0, <1>5, RecvIs, RecvGoes DEF RecvEnd, RecvFails, CreateOffer, AssignWatchID, RecvState
  <2> QED
    BY <1>1, <2>1, <2>2 DEF Locked
<1>6. ASSUME NEW c \in Call, HandlerLock(c) \/ CancelLock(c) PROVE P
  BY <1>0, <1>6 DEF HandlerLock, CancelLock, CanLock, LockOK
<1>7. ASSUME NEW c \in Call, HandlerCancel(c) \/ CancelAnswer(c) \/ CreateRegister(c) PROVE P
  <2>1. ~rlocked
    BY <1>0, <1>7 DEF HandlerCancel, CancelAnswer, CreateRegister, CanLock, LockOK, Locked
  <2>2. UNCHANGED <<ticking, rlocked>>
    BY <1>7 DEF HandlerCancel, CancelAnswer, CreateRegister
  <2> QED
    BY <1>0, <2>1, <2>2 DEF LockOK
<1>8. CASE Tick
  <2>1. ~Locked'
    BY <1>8 DEF Tick, Locked
  <2> QED
    BY <1>8, <2>1 DEF Tick, LockOK
<1>9. CASE TickOver
  BY <1>0, <1>9 DEF TickOver, LockOK
<1>10. ASSUME NEW id \in ID, TickSend(id) PROVE P
  <2>1. ~Locked' /\ rlocked
    BY <1>0, <1>10 DEF TickSend, LockOK, Locked
  <2> QED
    BY <1>0, <1>10, <2>1 DEF TickSend, LockOK
<1>11. ASSUME NEW c \in Call,
              SendTake(c) \/ SendClosec(c) \/ SendOk(c) \/ SendFails(c) \/ ContextDone(c)
       PROVE  P
  BY <1>2, <1>11 DEF SendTake, SendClosec, SendOk, SendFails, ContextDone
<1> QED
  BY <1>3, <1>4, <1>5, <1>6, <1>7, <1>8, <1>9, <1>10, <1>11
     DEF ServerNext, MockStep, ServerStep, HandlerStep, WorkStep, LockStep, SendStep, Client

\* A create's own send meets an open channel.
LEMMA PanicStep == IInv /\ ServerNext => CreateNeverPanics'
<1> SUFFICES ASSUME IInv, ServerNext
             PROVE  CreateNeverPanics'
  OBVIOUS
<1> USE DEF storeVars, callVars, CreateNeverPanics
<1>1. ASSUME NEW c \in Call, CreateOffer(c) PROVE crashed' = crashed
  BY <1>1 DEF CreateOffer, Put, PutPanics, IInv, EndOK
<1>2. ASSUME NEW c \in Call, HandlerDone(c) \/ HandlerCancel(c) \/ CancelAnswer(c)
      PROVE  crashed' # "createWatch"
  BY <1>2 DEF HandlerDone, HandlerCancel, CancelAnswer, CancelEntry, CancelEntryPanics, Put, PutPanics, IInv
<1>3. ASSUME NEW id \in ID, TickSend(id) PROVE crashed' # "createWatch"
  BY <1>3 DEF TickSend, Put, PutPanics, IInv
<1>4. CASE UNCHANGED crashed
  BY <1>4 DEF IInv
<1>5. ASSUME NEW c \in Call,
             \/ Accept(c) \/ HandlerErr(c) \/ HandlerLock(c) \/ HandlerClose(c) \/ HandlerReturn(c)
             \/ RecvEnd(c) \/ RecvFails(c) \/ CreateRegister(c) \/ AssignWatchID(c) \/ CancelLock(c)
             \/ SendTake(c) \/ SendClosec(c) \/ SendOk(c) \/ SendFails(c) \/ ContextDone(c)
             \/ \E id \in ID : RecvCreate(c, id) \/ RecvCancel(c, id)
      PROVE  UNCHANGED crashed
  BY <1>5 DEF Accept, HandlerErr, HandlerLock, HandlerClose, HandlerReturn, RecvEnd, RecvFails,
     CreateRegister, AssignWatchID, CancelLock, SendTake, SendClosec, SendOk, SendFails,
     ContextDone, RecvCreate, RecvCancel
<1>6. CASE Tick \/ TickOver
  BY <1>4, <1>6 DEF Tick, TickOver
<1> QED
  BY <1>1, <1>2, <1>3, <1>4, <1>5, <1>6
     DEF ServerNext, MockStep, ServerStep, HandlerStep, WorkStep, LockStep, SendStep, Client

(***************************************************************************)
(* What the subscriber has heard.                                          *)
(***************************************************************************)
AnnouncedKept == \A c \in Call, id \in ID : Announced(c, id) => Announced(c, id)'

QueueKept == QueueOK' /\ AnnouncedKept

HeardKept == \A c \in Call, id \in ID : Heard(c, id) => Heard(c, id)'

\* Whoever has heard of Created still has if nothing was taken from a channel.
LEMMA SameHeard ==
  ASSUME UNCHANGED <<told, sendl>>
  PROVE  HeardKept
BY DEF HeardKept, Heard

\* The messages of a channel are responses with an id.
LEMMA MessageType ==
  ASSUME ServerTypeOK
  PROVE  \A c \in Call : \A i \in DOMAIN chan[c].buf :
           /\ chan[c].buf[i] \in ResponseOf /\ chan[c].buf[i].id \in ID
           /\ DOMAIN chan[c].buf = 1 .. Len(chan[c].buf) /\ Len(chan[c].buf) \in Nat
<1> SUFFICES ASSUME NEW c \in Call, NEW i \in DOMAIN chan[c].buf
             PROVE  /\ chan[c].buf[i] \in ResponseOf /\ chan[c].buf[i].id \in ID
                    /\ DOMAIN chan[c].buf = 1 .. Len(chan[c].buf) /\ Len(chan[c].buf) \in Nat
  OBVIOUS
<1>1. chan[c].buf \in Seq(ResponseOf)
  BY DEF ServerTypeOK
<1>2. chan[c].buf[i] \in ResponseOf
  BY <1>1
<1> QED
  BY <1>1, <1>2 DEF ResponseOf

\* A step that sends nothing and takes nothing.
LEMMA QuietQueue ==
  ASSUME ServerTypeOK, QueueOK, HeardKept, \A c \in Call : chan'[c].buf = chan[c].buf
  PROVE  QueueKept
<1>1. ASSUME NEW c \in Call, NEW id \in ID, NEW i, HeardBefore(c, id, i)
      PROVE  HeardBefore(c, id, i)'
  BY <1>1 DEF HeardKept, HeardBefore
<1>2. QueueOK'
  BY <1>1, MessageType DEF QueueOK
<1>3. AnnouncedKept
  BY <1>1 DEF AnnouncedKept, Announced
<1> QED
  BY <1>2, <1>3 DEF QueueKept

\* A response that is a Created, or is about an id that was announced, may be
\* put at the end of a channel.
LEMMA PutQueue ==
  ASSUME ServerTypeOK, QueueOK, UNCHANGED <<told, sendl>>,
         NEW d \in Call, NEW id \in ID, NEW kind \in {"created", "update", "canceled"},
         Put(d, kind, id), kind # "created" => Announced(d, id)
  PROVE  QueueKept /\ (kind = "created" => Announced(d, id)')
<1> DEFINE b == chan[d].buf  m == [kind |-> kind, id |-> id]  n == Len(chan[d].buf) + 1
<1>1. /\ chan'[d].buf = Append(b, m)
      /\ \A c \in Call : c # d => chan'[c] = chan[c]
  BY PutType
<1>2. b \in Seq(ResponseOf) /\ m \in ResponseOf
  BY DEF ServerTypeOK, ResponseOf
<1>3. /\ DOMAIN b = 1 .. Len(b) /\ DOMAIN chan'[d].buf = 1 .. n /\ Len(chan'[d].buf) = n /\ n \in Nat
      /\ chan'[d].buf[n] = m /\ \A i \in 1 .. Len(b) : chan'[d].buf[i] = b[i]
  BY <1>1, <1>2
<1>4. HeardKept
  BY SameHeard
<1>5. ASSUME NEW c \in Call, NEW x \in ID, NEW i, HeardBefore(c, x, i)
      PROVE  HeardBefore(c, x, i)'
  <2>1. ASSUME NEW j \in DOMAIN chan[c].buf
        PROVE  j \in DOMAIN chan'[c].buf /\ chan'[c].buf[j] = chan[c].buf[j]
    <3>1. ASSUME c # d PROVE chan'[c] = chan[c]
      BY <1>1, <3>1
    <3>2. ASSUME c = d PROVE j \in 1 .. n /\ chan'[d].buf[j] = b[j]
      <4>1. DOMAIN b = 1 .. Len(b) /\ Len(b) \in Nat
        BY <1>2
      <4>2. j \in DOMAIN b
        BY <3>2
      <4>3. j \in 1 .. Len(b)
        BY <4>1, <4>2
      <4> HIDE DEF b
      <4>4. j \in 1 .. Len(b) + 1
        BY <4>1, <4>3
      <4> USE DEF b
      <4> QED
        BY <1>3, <4>3, <4>4
    <3> QED
      BY <1>3, <3>1, <3>2
  <2> QED
    BY <1>4, <1>5, <2>1 DEF HeardKept, HeardBefore
<1>6. ASSUME NEW c \in Call, NEW x \in ID, Announced(c, x)
      PROVE  Announced(c, x)'
  <2>2. CASE c # d
    BY <1>1, <1>4, <1>6, <2>2 DEF Announced, HeardBefore, HeardKept
  <2>3. CASE c = d
    <3>1. ASSUME NEW j \in DOMAIN b, b[j] = CreatedFor(x)
          PROVE  j < n + 1 /\ j \in DOMAIN chan'[d].buf /\ chan'[d].buf[j] = CreatedFor(x)
      BY <1>3, <3>1
    <3> QED
      BY <1>3, <1>4, <1>6, <2>3, <3>1 DEF Announced, HeardBefore, HeardKept
  <2> QED
    BY <2>2, <2>3
<1>7. kind = "created" => Announced(d, id)'
  <2>1. SUFFICES ASSUME kind = "created" PROVE Announced(d, id)'
    OBVIOUS
  <2>2. n \in DOMAIN chan'[d].buf /\ n < Len(chan'[d].buf) + 1 /\ chan'[d].buf[n] = CreatedFor(id)
    BY <1>3, <2>1 DEF CreatedFor
  <2> QED
    BY <2>2 DEF Announced, HeardBefore
<1>8. ASSUME NEW c \in Call, NEW i \in DOMAIN chan'[c].buf, chan'[c].buf[i].kind # "created"
      PROVE  HeardBefore(c, chan[c].buf[i].id, i)'
  <2>1. CASE c # d \/ i # n
    <3> DEFINE Same == i \in DOMAIN chan[c].buf /\ chan'[c].buf[i] = chan[c].buf[i]
    <3>0. ASSUME c # d PROVE Same
      BY <1>1, <3>0
    <3>a. ASSUME c = d PROVE Same
      <4>1. i \in 1 .. n /\ i # n
        BY <1>3, <2>1, <3>a
      <4>2. i \in 1 .. Len(b)
        BY <1>3, <4>1
      <4> QED
        BY <1>3, <3>a, <4>2
    <3>1. i \in DOMAIN chan[c].buf /\ chan'[c].buf[i] = chan[c].buf[i]
      BY <3>0, <3>a
    <3>2. chan[c].buf[i].id \in ID /\ HeardBefore(c, chan[c].buf[i].id, i)
      BY <1>8, <3>1, MessageType DEF QueueOK
    <3> QED
      BY <1>5, <3>1, <3>2
  <2>2. CASE c = d /\ i = n
    <3>1. m.kind = kind /\ m.id = id
      OBVIOUS
    <3>2. HeardBefore(d, id, n)
      BY <1>3, <1>8, <2>2, <3>1 DEF Announced
    <3> QED
      BY <1>3, <1>5, <2>2, <3>1, <3>2
  <2> QED
    BY <2>1, <2>2
<1> QED
  BY <1>6, <1>7, <1>8 DEF QueueKept, QueueOK, AnnouncedKept

\* sendLoop takes the first response, about which nobody was to be told before.
LEMMA TakeQueue ==
  ASSUME IInv, NEW c \in Call, SendTake(c)
  PROVE  QueueKept /\ CreatedFirst'
<1>0. ServerTypeOK /\ QueueOK /\ CreatedFirst /\ sendl[c].pc = "select" /\ UNCHANGED told
  BY DEF IInv, SendTake
<1>1. CASE sendl' = [sendl EXCEPT ![c].pc = "done"] /\ UNCHANGED chan
  <2>1. sendl'[c].pc = "done" /\ \A d \in Call : d # c => sendl'[d] = sendl[d]
    BY <1>0, <1>1, SendGoes DEF SendState
  <2>2. HeardKept
    BY <1>0, <2>1 DEF HeardKept, Heard
  <2>3. CreatedFirst'
    BY <1>0, <2>1 DEF CreatedFirst
  <2> QED
    BY <1>0, <1>1, <2>2, <2>3, QuietQueue
<1>2. CASE /\ chan[c].buf # <<>>
           /\ sendl' = [sendl EXCEPT ![c] = [pc |-> "send", msg |-> Head(chan[c].buf)]]
           /\ chan' = [chan EXCEPT ![c].buf = Tail(@)]
  <2> DEFINE b == chan[c].buf
  <2>1. /\ chan'[c].buf = Tail(b) /\ Head(b) = b[1] /\ b[1] \in ResponseOf
        /\ \A d \in Call : d # c => chan'[d] = chan[d]
    BY <1>0, <1>2, TakeType
  <2>2. b \in Seq(ResponseOf) /\ b # <<>>
    BY <1>0, <1>2 DEF ServerTypeOK
  <2>3. /\ DOMAIN b = 1 .. Len(b) /\ Len(b) \in Nat \ {0} /\ Len(chan'[c].buf) = Len(b) - 1
        /\ DOMAIN chan'[c].buf = 1 .. Len(b) - 1
        /\ \A i \in 1 .. Len(b) - 1 : chan'[c].buf[i] = b[i + 1]
    BY <2>1, <2>2
  <2>4. /\ sendl'[c].pc = "send" /\ sendl'[c].msg = b[1]
        /\ \A d \in Call : d # c => sendl'[d] = sendl[d]
    BY <1>0, <1>2, <2>1, SendIs DEF SendState
  <2>5. HeardKept
    BY <1>0, <2>4 DEF HeardKept, Heard
  <2>6. ASSUME NEW x \in ID, NEW i \in 1 .. Len(b), HeardBefore(c, x, i + 1)
        PROVE  HeardBefore(c, x, i)'
    <3>1. CASE Heard(c, x)
      BY <2>5, <3>1 DEF HeardBefore, HeardKept
    <3>2. CASE \E j \in DOMAIN b : j < i + 1 /\ b[j] = CreatedFor(x)
      <4>1. PICK j \in DOMAIN b : j < i + 1 /\ b[j] = CreatedFor(x)
        BY <3>2
      <4>2. CASE j = 1
        BY <2>4, <4>1, <4>2 DEF Heard, HeardBefore
      <4>3. CASE j # 1
        <5>a. j \in 1 .. Len(b) /\ Len(b) \in Nat /\ i \in Int
          BY <2>3
        <5>b. j - 1 \in 1 .. Len(b) - 1 /\ (j - 1) + 1 = j /\ j - 1 < i
          BY <4>1, <4>3, <5>a
        <5>1. j - 1 \in DOMAIN chan'[c].buf /\ j - 1 < i /\ chan'[c].buf[j - 1] = CreatedFor(x)
          BY <2>3, <4>1, <5>b
        <5> QED
          BY <5>1 DEF HeardBefore
      <4> QED
        BY <4>2, <4>3
    <3> QED
      BY <2>6, <3>1, <3>2 DEF HeardBefore
  <2>7. ASSUME NEW d \in Call, d # c, NEW x \in ID, NEW i, HeardBefore(d, x, i)
        PROVE  HeardBefore(d, x, i)'
    BY <2>1, <2>5, <2>7 DEF HeardKept, HeardBefore
  <2>8. AnnouncedKept
    <3> SUFFICES ASSUME NEW d \in Call, NEW x \in ID, Announced(d, x)
                 PROVE  Announced(d, x)'
      BY DEF AnnouncedKept
    <3>1. CASE d = c
      <4>0. PICK k \in 1 .. Len(b) : k = Len(b)
        BY <2>3
      <4>1. HeardBefore(c, x, k + 1)
        BY <3>1, <4>0 DEF Announced
      <4>2. HeardBefore(c, x, k)'
        BY <2>6, <4>1
      <4>3. Len(chan'[c].buf) + 1 = k
        BY <2>3, <4>0
      <4> QED
        BY <3>1, <4>2, <4>3 DEF Announced, HeardBefore
    <3>2. CASE d # c
      BY <2>1, <2>7, <3>2 DEF Announced
    <3> QED
      BY <3>1, <3>2
  <2>9. QueueOK'
    <3> SUFFICES ASSUME NEW d \in Call, NEW i \in DOMAIN chan'[d].buf, chan'[d].buf[i].kind # "created"
                 PROVE  HeardBefore(d, chan[d].buf[i].id, i)'
      BY DEF QueueOK
    <3>1. CASE d = c
      <4>0. i \in 1 .. Len(b) - 1 /\ Len(b) \in Nat
        BY <2>3, <3>1
      <4>a. i \in 1 .. Len(b) /\ i + 1 \in 1 .. Len(b)
        BY <4>0
      <4>1. i \in 1 .. Len(b) /\ i + 1 \in DOMAIN b /\ chan'[c].buf[i] = b[i + 1]
        BY <2>3, <4>0, <4>a
      <4>2. b[i + 1].id \in ID /\ HeardBefore(c, b[i + 1].id, i + 1)
        BY <1>0, <3>1, <4>1, MessageType DEF QueueOK
      <4> QED
        BY <2>6, <3>1, <4>1, <4>2
    <3>2. CASE d # c
      <4>1. chan'[d] = chan[d]
        BY <2>1, <3>2
      <4>2. chan[d].buf[i].id \in ID /\ HeardBefore(d, chan[d].buf[i].id, i)
        BY <1>0, <4>1, MessageType DEF QueueOK
      <4> QED
        BY <2>7, <3>2, <4>1, <4>2
    <3> QED
      BY <3>1, <3>2
  <2>10. CreatedFirst'
    <3>1. b[1].kind # "created" => b[1].id \in told[c]
      <4> SUFFICES ASSUME b[1].kind # "created" PROVE b[1].id \in told[c]
        OBVIOUS
      <4>1. 1 \in DOMAIN b
        BY <2>3
      <4>2. HeardBefore(c, b[1].id, 1)
        BY <1>0, <4>1 DEF QueueOK
      <4>3. ~ \E j \in DOMAIN b : j < 1
        BY <2>3
      <4> QED
        BY <1>0, <4>2, <4>3 DEF HeardBefore, Heard
    <3> QED
      BY <1>0, <2>4, <3>1 DEF CreatedFirst
  <2> QED
    BY <2>8, <2>9, <2>10 DEF QueueKept
<1> QED
  BY <1>1, <1>2 DEF SendTake

(***************************************************************************)
(* Steps of the queue, and the theorems.                                   *)
(***************************************************************************)
LEMMA CancelQueue ==
  ASSUME IInv, NEW id \in ID, UNCHANGED <<told, sendl>>,
         CancelEntry(id) \/ CancelEntryPanics(id)
  PROVE  QueueKept
<1>0. ServerTypeOK /\ QueueOK /\ EntryOK /\ HeardKept
  BY SameHeard DEF IInv
<1>1. CASE UNCHANGED chan
  BY <1>0, <1>1, QuietQueue
<1>2. CASE watchers[id] # NONE /\ Put(watchers[id], "canceled", id)
  <2>1. watchers[id] \in Call /\ Announced(watchers[id], id)
    BY <1>0, <1>2 DEF ServerTypeOK, EntryOK
  <2> QED
    BY <1>0, <1>2, <2>1, PutQueue
<1> QED
  BY <1>1, <1>2 DEF CancelEntry, CancelEntryPanics, PutPanics

\* Every step keeps the order of every channel and forgets no announcement.
LEMMA QueueStep == IInv /\ ServerNext => QueueKept /\ CreatedFirst'
<1> SUFFICES ASSUME IInv, ServerNext
             PROVE  QueueKept /\ CreatedFirst'
  OBVIOUS
<1> USE DEF storeVars, callVars
<1>0. ServerTypeOK /\ BusyOK /\ EndOK /\ LockOK /\ QueueOK /\ EntryOK /\ CreatedFirst
  BY DEF IInv
<1>q. UNCHANGED <<told, sendl>> => HeardKept /\ CreatedFirst'
  BY <1>0, SameHeard DEF CreatedFirst
<1>1. ASSUME UNCHANGED <<chan, told, sendl>> PROVE QueueKept /\ CreatedFirst'
  BY <1>0, <1>1, <1>q, QuietQueue
<1>2. ASSUME NEW c \in Call,
             \/ HandlerDone(c) \/ HandlerLock(c) \/ HandlerClose(c) \/ HandlerReturn(c)
             \/ RecvEnd(c) \/ RecvFails(c) \/ CreateRegister(c) \/ AssignWatchID(c) \/ CancelLock(c)
             \/ ContextDone(c) \/ \E id \in ID : RecvCreate(c, id) \/ RecvCancel(c, id)
      PROVE  UNCHANGED <<chan, told, sendl>>
  BY <1>2 DEF HandlerDone, HandlerLock, HandlerClose, HandlerReturn, RecvEnd, RecvFails,
     CreateRegister, AssignWatchID, CancelLock, ContextDone, RecvCreate, RecvCancel
<1>3. CASE Tick \/ TickOver
  BY <1>1, <1>3 DEF Tick, TickOver
<1>4. ASSUME NEW c \in Call, HandlerErr(c) PROVE QueueKept /\ CreatedFirst'
  <2>1. (\A d \in Call : chan'[d].buf = chan[d].buf) /\ UNCHANGED <<told, sendl>>
    BY <1>0, <1>4, CloseType DEF HandlerErr
  <2> QED
    BY <1>0, <1>q, <2>1, QuietQueue
<1>5. ASSUME NEW c \in Call, Accept(c) \/ SendClosec(c) \/ SendFails(c) PROVE QueueKept /\ CreatedFirst'
  <2>1. /\ UNCHANGED <<chan, told>> /\ \A d \in Call : d # c => sendl'[d] = sendl[d]
        /\ sendl'[c].pc # "send" /\ (sendl'[c].pc = "done" \/ sendl[c].pc = "none")
    <3>1. CASE Accept(c) \/ SendClosec(c)
      BY <1>0, <3>1, SendGoes DEF Accept, SendClosec, SendState, EndOK
    <3>2. CASE SendFails(c)
      BY <1>0, <3>2, SendIs DEF SendFails, SendState
    <3> QED
      BY <1>5, <3>1, <3>2
  <2>2. HeardKept /\ CreatedFirst'
    BY <1>0, <2>1 DEF HeardKept, Heard, CreatedFirst
  <2> QED
    BY <1>0, <2>1, <2>2, QuietQueue
<1>6. ASSUME NEW c \in Call, SendOk(c) PROVE QueueKept /\ CreatedFirst'
  <2>1. /\ UNCHANGED chan /\ sendl[c].pc = "send" /\ sendl'[c].pc = "select"
        /\ \A d \in Call : d # c => sendl'[d] = sendl[d]
    BY <1>0, <1>6, SendIs DEF SendOk, SendState
  <2>2. told \in [Call -> SUBSET ID] /\ sendl[c].msg \in ResponseOf
    BY <1>0, <2>1 DEF ServerTypeOK, BusyOK
  <2>3. /\ \A d \in Call : told[d] \subseteq told'[d]
        /\ \A id \in ID : sendl[c].msg = CreatedFor(id) => id \in told'[c]
    BY <1>6, <2>2 DEF SendOk, CreatedFor
  <2>4. HeardKept /\ CreatedFirst'
    BY <1>0, <2>1, <2>3 DEF HeardKept, Heard, CreatedFirst
  <2> QED
    BY <1>0, <2>1, <2>4, QuietQueue
<1>7. ASSUME NEW c \in Call, HandlerCancel(c) PROVE QueueKept /\ CreatedFirst'
  <2>1. UNCHANGED <<told, sendl>> /\ (victim[c] # NONE => victim[c] \in ID)
    BY <1>0, <1>7 DEF HandlerCancel, ServerTypeOK
  <2> QED
    BY <1>0, <1>1, <1>7, <1>q, <2>1, CancelQueue DEF HandlerCancel
<1>8. ASSUME NEW c \in Call, CancelAnswer(c) PROVE QueueKept /\ CreatedFirst'
  <2>1. UNCHANGED <<told, sendl>> /\ recv[c].id \in ID
    BY <1>0, <1>8 DEF CancelAnswer, BusyOK
  <2> QED
    BY <1>0, <1>8, <1>q, <2>1, CancelQueue DEF CancelAnswer
<1>9. ASSUME NEW c \in Call, CreateOffer(c) PROVE QueueKept /\ CreatedFirst'
  <2>1. UNCHANGED <<told, sendl>> /\ recv[c].id \in ID
    BY <1>0, <1>9 DEF CreateOffer, BusyOK
  <2>2. CASE Put(c, "created", recv[c].id)
    BY <1>0, <1>q, <2>1, <2>2, PutQueue
  <2>3. CASE PutPanics(c, "createWatch")
    BY <1>1, <2>1, <2>3 DEF PutPanics
  <2> QED
    BY <1>9, <2>2, <2>3 DEF CreateOffer
<1>10. ASSUME NEW id \in ID, TickSend(id) PROVE QueueKept /\ CreatedFirst'
  <2>1. UNCHANGED <<told, sendl>> /\ watchers[id] \in Call /\ Announced(watchers[id], id)
    BY <1>0, <1>10 DEF TickSend, LockOK, EntryOK, ServerTypeOK
  <2>2. CASE Put(watchers[id], "update", id)
    BY <1>0, <1>q, <2>1, <2>2, PutQueue
  <2>3. CASE PutPanics(watchers[id], "mockWatch")
    BY <1>1, <2>1, <2>3 DEF PutPanics
  <2> QED
    BY <1>10, <2>2, <2>3 DEF TickSend
<1>11. ASSUME NEW c \in Call, SendTake(c) PROVE QueueKept /\ CreatedFirst'
  BY <1>11, TakeQueue
<1> QED
  BY <1>1, <1>2, <1>3, <1>4, <1>5, <1>6, <1>7, <1>8, <1>9, <1>10, <1>11
     DEF ServerNext, MockStep, ServerStep, HandlerStep, WorkStep, LockStep, SendStep, Client

\* An entry is made after its Created was offered.
LEMMA EntryStep == IInv /\ ServerNext => EntryOK'
<1> SUFFICES ASSUME IInv, ServerNext
             PROVE  EntryOK'
  OBVIOUS
<1> USE DEF storeVars, callVars
<1>0. ServerTypeOK /\ BusyOK /\ EntryOK /\ EndOK
  BY DEF IInv
<1>t. recv \in [Call -> RecvObject] /\ watchers \in [ID -> Call \cup {NONE}]
  BY <1>0 DEF ServerTypeOK, RecvObject
<1>a. \A c \in Call, id \in ID : Announced(c, id) => Announced(c, id)'
  BY QueueStep DEF QueueKept, AnnouncedKept
<1>k. ASSUME /\ \A c \in Call : recv'[c].pc = "register" => recv[c].pc = "register" /\ recv'[c].id = recv[c].id
             /\ \A id \in ID : watchers'[id] \in {watchers[id], NONE}
      PROVE  EntryOK'
  <2>1. ASSUME NEW c \in Call, recv'[c].pc = "register" PROVE Announced(c, recv[c].id)'
    <3>1. recv[c].id \in ID /\ Announced(c, recv[c].id) /\ recv'[c].id = recv[c].id
      BY <1>0, <1>k, <2>1 DEF EntryOK, BusyOK
    <3> QED
      BY <1>a, <3>1
  <2>2. ASSUME NEW id \in ID, watchers'[id] # NONE PROVE Announced(watchers[id], id)'
    <3>1. watchers[id] \in Call /\ Announced(watchers[id], id) /\ watchers'[id] = watchers[id]
      BY <1>0, <1>k, <1>t, <2>2 DEF EntryOK
    <3> QED
      BY <1>a, <3>1
  <2> QED
    BY <2>1, <2>2 DEF EntryOK
<1>1. ASSUME UNCHANGED <<recv, watchers>> PROVE EntryOK'
  BY <1>1, <1>k
<1>2. ASSUME NEW c \in Call,
             \/ HandlerErr(c) \/ HandlerDone(c) \/ HandlerLock(c) \/ HandlerClose(c) \/ HandlerReturn(c)
             \/ SendTake(c) \/ SendClosec(c) \/ SendOk(c) \/ SendFails(c) \/ ContextDone(c)
      PROVE  EntryOK'
  BY <1>1, <1>2 DEF HandlerErr, HandlerDone, HandlerLock, HandlerClose, HandlerReturn, SendTake,
     SendClosec, SendOk, SendFails, ContextDone
<1>3. CASE Tick \/ TickOver \/ \E id \in ID : TickSend(id)
  BY <1>1, <1>3 DEF Tick, TickOver, TickSend
<1>4. ASSUME NEW c \in Call, Accept(c) \/ RecvEnd(c) \/ RecvFails(c) \/ CancelLock(c) PROVE EntryOK'
  <2>1. UNCHANGED watchers /\ \A d \in Call : recv'[d] = recv[d] \/ recv'[d].pc # "register"
    BY <1>0, <1>4, RecvGoes DEF Accept, RecvEnd, RecvFails, CancelLock, RecvState
  <2> QED
    BY <1>k, <2>1
<1>5. ASSUME NEW c \in Call, NEW id \in ID, RecvCreate(c, id) \/ RecvCancel(c, id) PROVE EntryOK'
  <2>1. UNCHANGED watchers /\ \A d \in Call : recv'[d] = recv[d] \/ recv'[d].pc # "register"
    BY <1>0, <1>5, RecvIs DEF RecvCreate, RecvCancel, RecvState
  <2> QED
    BY <1>k, <2>1
<1>6. ASSUME NEW c \in Call, AssignWatchID(c) \/ CancelAnswer(c) PROVE EntryOK'
  <2>1. \A d \in Call : recv'[d] = recv[d] \/ recv'[d].pc # "register"
    BY <1>0, <1>6, RecvIs DEF AssignWatchID, CancelAnswer, RecvState
  <2>2. \A id \in ID : watchers'[id] \in {watchers[id], NONE}
    BY <1>t, <1>6 DEF AssignWatchID, CancelAnswer, CancelEntry, CancelEntryPanics
  <2> QED
    BY <1>k, <2>1, <2>2
<1>7. ASSUME NEW c \in Call, HandlerCancel(c) PROVE EntryOK'
  <2>1. UNCHANGED recv /\ \A id \in ID : watchers'[id] \in {watchers[id], NONE}
    BY <1>t, <1>7 DEF HandlerCancel, CancelEntry, CancelEntryPanics
  <2> QED
    BY <1>k, <2>1
<1>8. ASSUME NEW c \in Call, CreateRegister(c) PROVE EntryOK'
  <2>1. recv[c].id \in ID /\ Announced(c, recv[c].id)
    BY <1>0, <1>8 DEF CreateRegister, BusyOK, EntryOK
  <2>2. \A d \in Call : recv'[d] = recv[d] \/ recv'[d].pc # "register"
    BY <1>0, <1>8, RecvGoes DEF CreateRegister, RecvState
  <2>3. ASSUME NEW d \in Call, recv'[d].pc = "register" PROVE Announced(d, recv[d].id)'
    <3>1. recv[d].id \in ID /\ Announced(d, recv[d].id) /\ recv'[d].id = recv[d].id
      BY <1>0, <2>2, <2>3 DEF EntryOK, BusyOK
    <3> QED
      BY <1>a, <3>1
  <2>4. ASSUME NEW id \in ID, watchers'[id] # NONE PROVE Announced(watchers[id], id)'
    <3>1. CASE id = recv[c].id
      <4>1. watchers'[id] = c
        BY <1>t, <1>8, <2>1, <3>1 DEF CreateRegister
      <4>2. Announced(c, id)'
        BY <1>a, <2>1, <3>1
      <4> QED
        BY <4>1, <4>2
    <3>2. CASE id # recv[c].id
      <4>1. watchers'[id] = watchers[id] /\ watchers[id] \in Call /\ Announced(watchers[id], id)
        BY <1>0, <1>t, <1>8, <2>4, <3>2 DEF CreateRegister, EntryOK
      <4> QED
        BY <1>a, <4>1
    <3> QED
      BY <3>1, <3>2
  <2> QED
    BY <2>3, <2>4 DEF EntryOK
<1>9. ASSUME NEW c \in Call, CreateOffer(c) PROVE EntryOK'
  <2>0. recv[c].id \in ID
    BY <1>0, <1>9 DEF CreateOffer, BusyOK
  <2>1. CASE PutPanics(c, "createWatch") /\ UNCHANGED recv
    BY <1>1, <1>9, <2>1 DEF CreateOffer
  <2>2. CASE Put(c, "created", recv[c].id) /\ recv' = [recv EXCEPT ![c].pc = "register"]
    <3>1. Announced(c, recv[c].id)'
      <4>0. PICK id \in ID : id = recv[c].id
        BY <2>0
      <4>1. Put(c, "created", id) /\ UNCHANGED <<told, sendl>>
        BY <1>9, <2>2, <4>0 DEF CreateOffer
      <4>2. Announced(c, id)'
        BY <1>0, <4>1, PutQueue DEF IInv
      <4>3. recv'[c].id = id
        BY <1>0, <2>2, <4>0, RecvGoes DEF RecvState
      <4> QED
        BY <4>2, <4>3
    <3>2. \A d \in Call : d # c => recv'[d] = recv[d]
      BY <1>0, <2>2, RecvGoes DEF RecvState
    <3>3. ASSUME NEW d \in Call, d # c, recv'[d].pc = "register" PROVE Announced(d, recv[d].id)'
      <4>1. recv[d].id \in ID /\ Announced(d, recv[d].id) /\ recv'[d].id = recv[d].id
        BY <1>0, <3>2, <3>3 DEF EntryOK, BusyOK
      <4> QED
        BY <1>a, <4>1
    <3>4. ASSUME NEW id \in ID, watchers'[id] # NONE PROVE Announced(watchers[id], id)'
      <4>1. watchers[id] \in Call /\ Announced(watchers[id], id) /\ watchers'[id] = watchers[id]
        BY <1>0, <1>t, <1>9, <3>4 DEF CreateOffer, EntryOK
      <4> QED
        BY <1>a, <4>1
    <3> QED
      BY <3>1, <3>3, <3>4 DEF EntryOK
  <2> QED
    BY <1>9, <2>1, <2>2 DEF CreateOffer
<1> QED
  BY <1>2, <1>3, <1>4, <1>5, <1>6, <1>7, <1>8, <1>9
     DEF ServerNext, MockStep, ServerStep, HandlerStep, WorkStep, LockStep, SendStep, Client

\* Nothing is registered, buffered or running at the start.
LEMMA InitOK == ServerInit => IInv
<1> SUFFICES ASSUME ServerInit
             PROVE  IInv
  OBVIOUS
<1>1. \A c \in Call : chan[c].buf = <<>> /\ ~chan[c].closed /\ recv[c].pc = "none" /\ sendl[c].pc = "none"
                       /\ handler[c] = "none" /\ rerr[c] = "none"
  BY DEF ServerInit
<1>2. ServerTypeOK
  <2>1. /\ recv \in [Call -> RecvObject] /\ sendl \in [Call -> SendObject]
        /\ chan \in [Call -> ChanObject] /\ \A c \in Call : Len(chan[c].buf) <= Cap
    <3>1. <<>> \in Seq(ResponseOf) /\ Len(<<>>) = 0 /\ 0 <= Cap
      BY ServerAssumption
    <3>2. /\ [buf |-> <<>>, closed |-> FALSE] \in ChanObject
          /\ [pc |-> "none", id |-> NONE] \in RecvObject
          /\ [pc |-> "none", msg |-> NONE] \in SendObject
      BY <3>1 DEF ChanObject, RecvObject, SendObject, RecvState, SendState
    <3> QED
      BY <1>1, <3>1, <3>2 DEF ServerInit
  <2> QED
    BY <2>1 DEF ServerInit, ServerTypeOK, RecvObject, SendObject, ChanObject, HandlerState
<1>3. BusyOK /\ EndOK /\ CreatedFirst
  BY <1>1 DEF BusyOK, EndOK, CreatedFirst
<1>4. LockOK /\ CreateNeverPanics
  BY DEF ServerInit, LockOK, CreateNeverPanics
<1>5. EntryOK
  BY <1>1 DEF ServerInit, EntryOK
<1>6. QueueOK
  <2>0. DOMAIN <<>> = {}
    OBVIOUS
  <2>1. \A c \in Call : DOMAIN chan[c].buf = {}
    BY <1>1, <2>0
  <2> QED
    BY <2>1 DEF QueueOK
<1> QED
  BY <1>2, <1>3, <1>4, <1>5, <1>6 DEF IInv

\* Every step of the server keeps the inductive invariant.
LEMMA StepIInv == IInv /\ [ServerNext]_serverVars => IInv'
<1>1. IInv /\ ServerNext => IInv'
  BY TypeStep, BusyStep, EndStep, LockStepKeeps, EntryStep, QueueStep, PanicStep DEF IInv, QueueKept
<1>2. IInv /\ UNCHANGED serverVars => IInv'
  BY DEF IInv, serverVars, ServerTypeOK, BusyOK, EndOK, LockOK, EntryOK, QueueOK, CreatedFirst,
     CreateNeverPanics, Announced, HeardBefore, Heard, Locked
<1> QED
  BY <1>1, <1>2

\* The inductive invariant holds in every behaviour of the server.
LEMMA Invariance == ServerSpec => []IInv
<1> QED
  BY InitOK, StepIInv, PTL DEF ServerSpec

(***************************************************************************)
(* What a step does to the entries, the channel and the sendLoop of c.     *)
(***************************************************************************)
Entries(c)  == {id \in ID : watchers[id] = c}
Creating(c) == recv[c].pc \in {"offer", "register"}

Appends(c, kind) ==
  \E r \in ResponseOf : r.kind = kind /\ chan'[c].buf = Append(chan[c].buf, r)

\* Nothing new: at most an entry goes, a create or a send ends.
Rests(c) ==
  /\ Entries(c)' \subseteq Entries(c)
  /\ Creating(c)' => Creating(c)
  /\ chan'[c].buf = chan[c].buf
  /\ sendl'[c] = sendl[c] \/ sendl'[c].pc # "send"

\* sendLoop takes a response.
Takes(c) ==
  /\ chan[c].buf # <<>> /\ chan'[c].buf = Tail(chan[c].buf)
  /\ sendl'[c].msg = chan[c].buf[1]
  /\ UNCHANGED <<watchers, recv>>

\* mockWatch, or a cancelWatch, sends to an entry of c.
Updates(c) ==
  /\ Entries(c) # {} /\ Appends(c, "update")
  /\ UNCHANGED <<watchers, recv, sendl>>

Cancels(c, id) ==
  /\ id \in Entries(c) /\ Appends(c, "canceled")
  /\ Entries(c)' = Entries(c) \ {id}
  /\ Creating(c)' => Creating(c)
  /\ UNCHANGED sendl

\* The two steps of createWatch, and the request before them.
Asks(c) ==
  /\ recv[c].pc = "recv" /\ recv'[c].pc = "offer"
  /\ UNCHANGED <<watchers, chan, sendl>>

Offers(c) ==
  /\ Creating(c) /\ Appends(c, "created")
  /\ UNCHANGED <<watchers, sendl>>

Registers(c) ==
  /\ Creating(c) /\ ~Creating(c)'
  /\ \E id \in ID : Entries(c)' \subseteq Entries(c) \cup {id}
  /\ UNCHANGED <<chan, sendl>>

CallKinds(c) ==
  \/ Rests(c) \/ Takes(c) \/ Updates(c) \/ (\E id \in ID : Cancels(c, id))
  \/ Asks(c) \/ Offers(c) \/ Registers(c)

\* cancelWatch concerns the call that is registered for the id.
LEMMA CancelKind ==
  ASSUME IInv, NEW c \in Call, NEW id \in ID, CancelEntry(id) \/ CancelEntryPanics(id),
         UNCHANGED sendl, Creating(c)' => Creating(c)
  PROVE  CallKinds(c)
<1>0. ServerTypeOK /\ watchers \in [ID -> Call \cup {NONE}]
  BY DEF IInv, ServerTypeOK
<1>1. CASE UNCHANGED <<watchers, chan>>
  BY <1>1 DEF CallKinds, Rests, Entries
<1>2. CASE /\ watchers[id] # NONE /\ Put(watchers[id], "canceled", id)
           /\ watchers' = [watchers EXCEPT ![id] = NONE]
  <2>1. PICK d \in Call : d = watchers[id]
    BY <1>0, <1>2
  <2>2. /\ chan'[d].buf = Append(chan[d].buf, [kind |-> "canceled", id |-> id])
        /\ \A x \in Call : x # d => chan'[x] = chan[x]
    BY <1>0, <1>2, <2>1, PutType
  <2>3. \A x \in ID : watchers'[x] = IF x = id THEN NONE ELSE watchers[x]
    BY <1>0, <1>2
  <2>4. c # NONE
    BY ServerAssumption
  <2>5. CASE c = d
    <3>1. id \in Entries(c) /\ Entries(c)' = Entries(c) \ {id}
      BY <2>1, <2>3, <2>4, <2>5 DEF Entries
    <3>2. Appends(c, "canceled")
      BY <2>2, <2>5 DEF Appends, ResponseOf
    <3> QED
      BY <3>1, <3>2 DEF CallKinds, Cancels
  <2>6. CASE c # d
    BY <2>1, <2>2, <2>3, <2>4, <2>6 DEF CallKinds, Rests, Entries
  <2> QED
    BY <2>5, <2>6
<1> QED
  BY <1>1, <1>2 DEF CancelEntry, CancelEntryPanics, PutPanics

\* Every step is of one of these kinds for every call.
LEMMA CallSteps ==
  ASSUME IInv, [ServerNext]_serverVars, NEW c \in Call
  PROVE  CallKinds(c)
<1> USE DEF storeVars, callVars
<1>0. ServerTypeOK /\ BusyOK /\ LockOK
  BY DEF IInv
<1>t. watchers \in [ID -> Call \cup {NONE}] /\ c # NONE
  BY <1>0, ServerAssumption DEF ServerTypeOK
<1>1. ASSUME UNCHANGED watchers, Creating(c)' => Creating(c), chan'[c].buf = chan[c].buf,
             sendl'[c] = sendl[c] \/ sendl'[c].pc # "send"
      PROVE  CallKinds(c)
  BY <1>1 DEF CallKinds, Rests, Entries
<1>2. recv' = recv => (Creating(c)' => Creating(c))
  BY DEF Creating
<1>3. ASSUME NEW d \in Call,
             \/ HandlerDone(d) \/ HandlerLock(d) \/ HandlerClose(d) \/ HandlerReturn(d) \/ ContextDone(d)
      PROVE  CallKinds(c)
  BY <1>1, <1>2, <1>3 DEF HandlerDone, HandlerLock, HandlerClose, HandlerReturn, ContextDone
<1>4. CASE Tick \/ TickOver \/ UNCHANGED serverVars
  BY <1>1, <1>2, <1>4 DEF Tick, TickOver, serverVars
<1>5. ASSUME NEW d \in Call, HandlerErr(d) PROVE CallKinds(c)
  <2>1. chan'[c].buf = chan[c].buf
    BY <1>0, <1>5, CloseType DEF HandlerErr
  <2> QED
    BY <1>1, <1>2, <1>5, <2>1 DEF HandlerErr
<1>6. ASSUME NEW d \in Call, Accept(d) PROVE CallKinds(c)
  <2>1. (Creating(c)' => Creating(c)) /\ (sendl'[c] = sendl[c] \/ sendl'[c].pc # "send")
    BY <1>0, <1>6, RecvGoes, SendGoes DEF Accept, RecvState, SendState, Creating
  <2> QED
    BY <1>1, <1>6, <2>1 DEF Accept
<1>7. ASSUME NEW d \in Call, RecvEnd(d) \/ RecvFails(d) \/ CancelLock(d) PROVE CallKinds(c)
  <2>1. Creating(c)' => Creating(c)
    BY <1>0, <1>7, RecvGoes DEF RecvEnd, RecvFails, CancelLock, RecvState, Creating
  <2> QED
    BY <1>1, <1>7, <2>1 DEF RecvEnd, RecvFails, CancelLock
<1>8. ASSUME NEW d \in Call, NEW id \in ID, RecvCreate(d, id) PROVE CallKinds(c)
  <2>1. recv'[d].pc = "offer" /\ \A x \in Call : x # d => recv'[x] = recv[x]
    BY <1>0, <1>8, RecvIs DEF RecvCreate, RecvState
  <2>2. CASE c = d
    BY <1>8, <2>1, <2>2 DEF RecvCreate, CallKinds, Asks
  <2>3. CASE c # d
    BY <1>1, <1>8, <2>1, <2>3 DEF RecvCreate, Creating
  <2> QED
    BY <2>2, <2>3
<1>9. ASSUME NEW d \in Call, AssignWatchID(d) \/ \E id \in ID : RecvCancel(d, id) PROVE CallKinds(c)
  <2>1. Creating(c)' => Creating(c)
    BY <1>0, <1>9, RecvIs DEF AssignWatchID, RecvCancel, RecvState, Creating
  <2> QED
    BY <1>1, <1>9, <2>1 DEF AssignWatchID, RecvCancel
<1>10. ASSUME NEW d \in Call, CreateOffer(d) PROVE CallKinds(c)
  <2>1. CASE PutPanics(d, "createWatch") /\ UNCHANGED recv
    BY <1>1, <1>2, <1>10, <2>1 DEF CreateOffer, PutPanics
  <2>2. CASE Put(d, "created", recv[d].id) /\ recv' = [recv EXCEPT ![d].pc = "register"]
    <3>1. PICK id \in ID : id = recv[d].id
      BY <1>0, <1>10 DEF CreateOffer, BusyOK
    <3>2. /\ chan'[d].buf = Append(chan[d].buf, [kind |-> "created", id |-> id])
          /\ \A x \in Call : x # d => chan'[x] = chan[x]
      BY <1>0, <2>2, <3>1, PutType
    <3>3. \A x \in Call : x # d => recv'[x] = recv[x]
      BY <1>0, <2>2, RecvGoes DEF RecvState
    <3>4. CASE c = d
      <4>1. Appends(c, "created")
        BY <3>2, <3>4 DEF Appends, ResponseOf
      <4> QED
        BY <1>10, <3>4, <4>1 DEF CreateOffer, Creating, CallKinds, Offers
    <3>5. CASE c # d
      BY <1>1, <1>10, <3>2, <3>3, <3>5 DEF CreateOffer, Creating
    <3> QED
      BY <3>4, <3>5
  <2> QED
    BY <1>10, <2>1, <2>2 DEF CreateOffer
<1>11. ASSUME NEW d \in Call, CreateRegister(d) PROVE CallKinds(c)
  <2>1. recv[d].id \in ID
    BY <1>0, <1>11 DEF CreateRegister, BusyOK
  <2>2. \A x \in ID : watchers'[x] = IF x = recv[d].id THEN d ELSE watchers[x]
    BY <1>t, <1>11 DEF CreateRegister
  <2>3. recv'[d].pc = "assign" /\ \A x \in Call : x # d => recv'[x] = recv[x]
    BY <1>0, <1>11, RecvGoes DEF CreateRegister, RecvState
  <2>4. CASE c = d
    <3>1. Entries(c)' \subseteq Entries(c) \cup {recv[d].id}
      BY <2>2 DEF Entries
    <3> QED
      BY <1>11, <2>1, <2>3, <2>4, <3>1 DEF CreateRegister, Creating, CallKinds, Registers
  <2>5. CASE c # d
    <3>1. Entries(c)' \subseteq Entries(c)
      BY <2>2, <2>5 DEF Entries
    <3> QED
      BY <1>11, <2>3, <2>5, <3>1 DEF CreateRegister, Creating, CallKinds, Rests
  <2> QED
    BY <2>4, <2>5
<1>12. ASSUME NEW d \in Call, CancelAnswer(d) PROVE CallKinds(c)
  <2>1. Creating(c)' => Creating(c)
    BY <1>0, <1>12, RecvIs DEF CancelAnswer, RecvState, Creating
  <2>2. recv[d].id \in ID
    BY <1>0, <1>12 DEF CancelAnswer, BusyOK
  <2> QED
    BY <1>12, <2>1, <2>2, CancelKind DEF CancelAnswer
<1>13. ASSUME NEW d \in Call, HandlerCancel(d) PROVE CallKinds(c)
  <2>1. victim[d] # NONE => victim[d] \in ID
    BY <1>0 DEF ServerTypeOK
  <2> QED
    BY <1>1, <1>2, <1>13, <2>1, CancelKind DEF HandlerCancel
<1>14. ASSUME NEW id \in ID, TickSend(id) PROVE CallKinds(c)
  <2>1. CASE PutPanics(watchers[id], "mockWatch")
    BY <1>1, <1>2, <1>14, <2>1 DEF TickSend, PutPanics
  <2>2. CASE Put(watchers[id], "update", id)
    <3>1. PICK d \in Call : d = watchers[id]
      BY <1>0, <1>t, <1>14 DEF TickSend, LockOK
    <3>2. /\ chan'[d].buf = Append(chan[d].buf, [kind |-> "update", id |-> id])
          /\ \A x \in Call : x # d => chan'[x] = chan[x]
      BY <1>0, <2>2, <3>1, PutType
    <3>3. CASE c = d
      <4>1. Appends(c, "update") /\ id \in Entries(c)
        BY <3>1, <3>2, <3>3 DEF Appends, ResponseOf, Entries
      <4> QED
        BY <1>14, <4>1 DEF TickSend, CallKinds, Updates
    <3>4. CASE c # d
      BY <1>1, <1>2, <1>14, <3>2, <3>4 DEF TickSend
    <3> QED
      BY <3>3, <3>4
  <2> QED
    BY <1>14, <2>1, <2>2 DEF TickSend
<1>15. ASSUME NEW d \in Call, SendTake(d) PROVE CallKinds(c)
  <2>1. CASE /\ chan[d].buf # <<>> /\ chan' = [chan EXCEPT ![d].buf = Tail(@)]
             /\ sendl' = [sendl EXCEPT ![d] = [pc |-> "send", msg |-> Head(chan[d].buf)]]
    <3>1. /\ chan'[d].buf = Tail(chan[d].buf) /\ Head(chan[d].buf) = chan[d].buf[1]
          /\ Head(chan[d].buf) \in ResponseOf
          /\ \A x \in Call : x # d => chan'[x] = chan[x]
      BY <1>0, <2>1, TakeType
    <3>2. sendl'[d].msg = chan[d].buf[1] /\ \A x \in Call : x # d => sendl'[x] = sendl[x]
      BY <1>0, <2>1, <3>1, SendIs DEF SendState
    <3>3. CASE c = d
      BY <1>15, <2>1, <3>1, <3>2, <3>3 DEF SendTake, CallKinds, Takes
    <3>4. CASE c # d
      BY <1>1, <1>2, <1>15, <3>1, <3>2, <3>4 DEF SendTake
    <3> QED
      BY <3>3, <3>4
  <2>2. CASE sendl' = [sendl EXCEPT ![d].pc = "done"] /\ UNCHANGED chan
    <3>1. sendl'[c] = sendl[c] \/ sendl'[c].pc # "send"
      BY <1>0, <2>2, SendGoes DEF SendState
    <3> QED
      BY <1>1, <1>2, <1>15, <2>2, <3>1 DEF SendTake
  <2> QED
    BY <1>15, <2>1, <2>2 DEF SendTake
<1>16. ASSUME NEW d \in Call, SendClosec(d) \/ SendOk(d) \/ SendFails(d) PROVE CallKinds(c)
  <2>1. sendl'[c] = sendl[c] \/ sendl'[c].pc # "send"
    BY <1>0, <1>16, SendGoes, SendIs DEF SendClosec, SendOk, SendFails, SendState
  <2> QED
    BY <1>1, <1>2, <1>16, <2>1 DEF SendClosec, SendOk, SendFails
<1> QED
  BY <1>3, <1>4, <1>5, <1>6, <1>7, <1>8, <1>9, <1>10, <1>11, <1>12, <1>13, <1>14, <1>15, <1>16
     DEF ServerNext, MockStep, ServerStep, HandlerStep, WorkStep, LockStep, SendStep, Client

-----------------------------------------------------------------------------
\* The variables keep their types: in particular no response channel ever
\* holds more than its capacity (watchserver.go:48).
THEOREM ServerTypeCorrect == ServerSpec => []ServerTypeOK
<1>1. IInv => ServerTypeOK
  BY DEF IInv
<1> QED
  BY <1>1, Invariance, PTL

\* Nothing about an id is sent to a subscriber before the Created of its own
\* create, although mockWatch and the cancelWatch of any call may send to it.
THEOREM SubscriberHearsCreatedFirst == ServerSpec => []CreatedFirst
<1>1. IInv => CreatedFirst
  BY DEF IInv
<1> QED
  BY <1>1, Invariance, PTL

\* createWatch never sends on a closed channel.
THEOREM CreateIsSafe == ServerSpec => []CreateNeverPanics
<1>1. IInv => CreateNeverPanics
  BY DEF IInv
<1> QED
  BY <1>1, Invariance, PTL

\* The map does not change while mockWatch ranges over it.
THEOREM RangeIsStable == ServerSpec => MapStableInRange
<1>1. IInv /\ [ServerNext]_serverVars => [rlocked /\ rlocked' => watchers' = watchers]_serverVars
  BY LockStepKeeps
<1> QED
  BY <1>1, Invariance, PTL DEF ServerSpec, MapStableInRange

=============================================================================
