--------------------------------- MODULE Ws ---------------------------------
(***************************************************************************)
(* The WebSocket adapter: the Channel of a connection (ws/adapter.go), its *)
(* NATS subscription (ws/nats/publisher.go) and the goroutines that        *)
(* handshake starts (ws/api/transport.go): broadcast reads the socket,     *)
(* listen writes to it, a third one ends the subscription.  The callback   *)
(* of the subscription and broadcast meet in Channel's mutex.              *)
(*                                                                         *)
(* Connections share nothing but the broker.                               *)
(***************************************************************************)
EXTENDS Naturals

CONSTANTS Conns,      \* WebSocket connections
          NatsFails,  \* may the connection to NATS be closed?
          ReadFails   \* may a read fail with an error that is no close frame?

ASSUME WsAssumption == NatsFails \in BOOLEAN /\ ReadFails \in BOOLEAN

VARIABLES reader,    \* goroutine broadcast (and the handshake before it)
          listener,  \* goroutine listen: "none", "wait", "write", "done"
          ender,     \* goroutine of Subscribe: "none", "wait", "unsub", "done"
          callback,  \* NATS callback: "idle", "lock", "send"
          mutex,     \* who holds Channel.mutex: "free", "reader", "callback"
          closed,    \* Channel.closed
          messages,  \* is channel Messages open?
          sub,       \* is the NATS subscription active?
          how        \* how the reader ended: "none", "close", "error", "nats"

vars == <<reader, listener, ender, callback, mutex, closed, messages, sub, how>>

Readers == {"new", "failed", "reading", "publish", "lock", "mark", "signal",
            "close", "abort", "done"}

Init ==
  /\ reader = [w \in Conns |-> "new"] /\ listener = [w \in Conns |-> "none"]
  /\ ender = [w \in Conns |-> "none"] /\ callback = [w \in Conns |-> "idle"]
  /\ mutex = [w \in Conns |-> "free"] /\ closed = [w \in Conns |-> FALSE]
  /\ messages = [w \in Conns |-> TRUE] /\ sub = [w \in Conns |-> FALSE]
  /\ how = [w \in Conns |-> "none"]

Move(f, w, a, b) == f[w] = a /\ f' = [f EXCEPT ![w] = b]
Set(f, w, v) == f' = [f EXCEPT ![w] = v]
-----------------------------------------------------------------------------
\* An authorized handshake: Subscribe, whose goroutine starts whatever NATS
\* answers, then listen and broadcast.
Handshake(w) ==
  /\ Set(ender, w, "wait")
  /\ \/ /\ Move(reader, w, "new", "reading")
        /\ Set(sub, w, TRUE) /\ Set(listener, w, "wait")
     \/ /\ NatsFails /\ Move(reader, w, "new", "failed")
        /\ UNCHANGED <<sub, listener>>
  /\ UNCHANGED <<callback, mutex, closed, messages, how>>

(* broadcast *)

\* A message to publish.
ReadMessage(w) ==
  /\ Move(reader, w, "reading", "publish")
  /\ UNCHANGED <<listener, ender, callback, mutex, closed, messages, sub, how>>

\* A close frame, or the end of the stream: Channel.Close.
ReadClose(w) ==
  /\ Move(reader, w, "reading", "lock") /\ Set(how, w, "close")
  /\ UNCHANGED <<listener, ender, callback, mutex, closed, messages, sub>>

\* Any other error: the goroutine returns.
ReadError(w) ==
  /\ ReadFails /\ Move(reader, w, "reading", "done") /\ Set(how, w, "error")
  /\ UNCHANGED <<listener, ender, callback, mutex, closed, messages, sub>>

\* Publish: only ErrFailedConnection ends the loop.
Publish(w) ==
  /\ \/ Move(reader, w, "publish", "reading") /\ UNCHANGED how
     \/ NatsFails /\ Move(reader, w, "publish", "abort") /\ Set(how, w, "nats")
  /\ UNCHANGED <<listener, ender, callback, mutex, closed, messages, sub>>

\* conn.Close, then Closed <- true, which the third goroutine receives.
Abort(w) ==
  /\ Move(reader, w, "abort", "done") /\ Move(ender, w, "wait", "unsub")
  /\ UNCHANGED <<listener, callback, mutex, closed, messages, sub, how>>

(* Channel.Close *)

\* Mutant of CloseLock: Close does not take the mutex.
CloseLockNot(w) ==
  /\ Move(reader, w, "lock", "mark")
  /\ UNCHANGED <<listener, ender, callback, mutex, closed, messages, sub, how>>

CloseLock(w) ==
  /\ Move(reader, w, "lock", "mark") /\ Move(mutex, w, "free", "reader")
  /\ UNCHANGED <<listener, ender, callback, closed, messages, sub, how>>

CloseMark(w) ==
  /\ Move(reader, w, "mark", "signal") /\ Set(closed, w, TRUE)
  /\ UNCHANGED <<listener, ender, callback, mutex, messages, sub, how>>

\* Mutant of CloseSignal: nobody tells the third goroutine.
CloseSignalNot(w) ==
  /\ Move(reader, w, "signal", "close")
  /\ UNCHANGED <<listener, ender, callback, mutex, closed, messages, sub, how>>

CloseSignal(w) ==
  /\ Move(reader, w, "signal", "close") /\ Move(ender, w, "wait", "unsub")
  /\ UNCHANGED <<listener, callback, mutex, closed, messages, sub, how>>

CloseChannels(w) ==
  /\ Move(reader, w, "close", "done")
  /\ Set(messages, w, FALSE) /\ Set(mutex, w, "free")
  /\ UNCHANGED <<listener, ender, callback, closed, sub, how>>

(* The NATS callback: Channel.Send. *)

NatsMessage(w) ==
  /\ sub[w] /\ Move(callback, w, "idle", "lock")
  /\ UNCHANGED <<reader, listener, ender, mutex, closed, messages, sub, how>>

\* Mutant of SendLock: Send does not look at the flag.
SendLockUnchecked(w) ==
  /\ mutex[w] = "free" /\ Move(callback, w, "lock", "send") /\ Set(mutex, w, "callback")
  /\ UNCHANGED <<reader, listener, ender, closed, messages, sub, how>>

SendLock(w) ==
  /\ mutex[w] = "free"
  /\ \/ closed[w] /\ Move(callback, w, "lock", "idle") /\ UNCHANGED mutex
     \/ ~closed[w] /\ Move(callback, w, "lock", "send") /\ Set(mutex, w, "callback")
  /\ UNCHANGED <<reader, listener, ender, closed, messages, sub, how>>

\* The unbuffered send meets the receive of listen.
Send(w) ==
  /\ messages[w] /\ Move(callback, w, "send", "idle") /\ Move(listener, w, "wait", "write")
  /\ Set(mutex, w, "free")
  /\ UNCHANGED <<reader, ender, closed, messages, sub, how>>

(* listen *)

Write(w) ==
  /\ Move(listener, w, "write", "wait")
  /\ UNCHANGED <<reader, ender, callback, mutex, closed, messages, sub, how>>

ListenEnds(w) ==
  /\ ~messages[w] /\ Move(listener, w, "wait", "done")
  /\ UNCHANGED <<reader, ender, callback, mutex, closed, messages, sub, how>>

(* The goroutine of Subscribe. *)

Unsubscribe(w) ==
  /\ Move(ender, w, "unsub", "done") /\ Set(sub, w, FALSE)
  /\ UNCHANGED <<reader, listener, callback, mutex, closed, messages, how>>
-----------------------------------------------------------------------------
Reading(w) == ReadMessage(w) \/ ReadClose(w) \/ ReadError(w)
Closing(w) == CloseLock(w) \/ CloseMark(w) \/ CloseSignal(w) \/ CloseChannels(w)
Broadcast(w) == Publish(w) \/ Abort(w) \/ Closing(w)
Callback(w) == SendLock(w) \/ Send(w)
Listen(w) == Write(w) \/ ListenEnds(w)

Next == \E w \in Conns :
  Handshake(w) \/ Reading(w) \/ Broadcast(w) \/ NatsMessage(w) \/ Callback(w)
    \/ Listen(w) \/ Unsubscribe(w)

Spec == Init /\ [][Next]_vars

\* Goroutines are scheduled, and a writer in the mutex's queue gets its turn;
\* nothing is assumed of the client and of NATS, except that a write ends.
FairSpec ==
  /\ Spec
  /\ \A w \in Conns : /\ WF_vars(Broadcast(w)) /\ SF_vars(CloseLock(w))
                      /\ WF_vars(Callback(w)) /\ WF_vars(Listen(w)) /\ WF_vars(Unsubscribe(w))
-----------------------------------------------------------------------------
\* Types, and the mutex is held exactly between Lock and Unlock.
TypeOK ==
  /\ reader \in [Conns -> Readers]
  /\ listener \in [Conns -> {"none", "wait", "write", "done"}]
  /\ ender \in [Conns -> {"none", "wait", "unsub", "done"}]
  /\ callback \in [Conns -> {"idle", "lock", "send"}]
  /\ mutex \in [Conns -> {"free", "reader", "callback"}]
  /\ closed \in [Conns -> BOOLEAN] /\ messages \in [Conns -> BOOLEAN]
  /\ sub \in [Conns -> BOOLEAN]
  /\ how \in [Conns -> {"none", "close", "error", "nats"}]
  /\ \A w \in Conns : /\ mutex[w] = "reader" <=> reader[w] \in {"mark", "signal", "close"}
                      /\ mutex[w] = "callback" <=> callback[w] = "send"

\* A message never meets a closed channel (a send on it would panic and end the
\* adapter with all its connections), however the callback and Close interleave.
NoSendOnClosed == \A w \in Conns : callback[w] = "send" => messages[w]

\* A client's close ends everything: the subscription and the three goroutines.
\* Close waits for a callback that waits for listen, so that the order in which
\* they stop matters.
CloseEndsAll ==
  \A w \in Conns : how[w] = "close" ~>
    reader[w] = "done" /\ listener[w] = "done" /\ ender[w] = "done" /\ ~sub[w]
=============================================================================
