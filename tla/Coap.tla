-------------------------------- MODULE Coap --------------------------------
(***************************************************************************)
(* Observers of the CoAP adapter: the map of observers (coap/adapter.go),  *)
(* the NATS subscription of each one (coap/nats) and the goroutines that   *)
(* serve it (coap/api/transport.go): one delivers messages, one pings the  *)
(* client, one closes the message channel, one ends the subscription.      *)
(*                                                                         *)
(* A step is a section between two locks, channel operations or sleeps.    *)
(* A Go panic ends the process; it comes up again without observers.       *)
(***************************************************************************)
EXTENDS Naturals, FiniteSets

CONSTANTS Obs,           \* Observer objects that may be allocated
          ObsIds,        \* observer ids: <token>-<thing>-<channel>
          None,          \* no observer
          MaxRetransmit, \* pings before a client counts as gone (4 in the code)
          Silent         \* observers whose clients never acknowledge a ping

ASSUME CoapAssumption ==
  MaxRetransmit \in Nat \ {0} /\ None \notin Obs \cup ObsIds /\ Silent \subseteq Obs

VARIABLES obs,      \* adapterService.obs: id -> observer or None
          idOf,     \* the id an observer was made for
          handler,  \* the request that makes it: "new", "put", "spawn", "done"
          cancelled, closed,  \* are channels Cancel and Messages closed?
          expired,  \* flag Observer.expired
          sub,      \* is the NATS subscription active?
          sending,  \* is its callback at "observer.Messages <- m"?
          deliver,  \* goroutine handleMessage: "none", "wait", "transmit", "done"
          ping,     \* goroutine ping: "none", "select", "sleep", "check", "unsub", "done"
          tries,    \* its transmissions since the last tick
          closer,   \* goroutine cancel: "none", "wait", "store", "done"
          unsub,    \* goroutine of natsPublisher.Subscribe: "none", "wait", "done"
          acked     \* observer that listenResponses holds between get and store

mapVars  == <<obs, idOf, handler>>
chanVars == <<cancelled, closed, expired, acked>>
natsVars == <<sub, sending, unsub>>
goVars   == <<deliver, ping, tries, closer>>
vars     == <<mapVars, chanVars, natsVars, goVars>>

Init ==
  /\ obs = [i \in ObsIds |-> None] /\ idOf = [o \in Obs |-> None]
  /\ handler = [o \in Obs |-> "new"]
  /\ cancelled = [o \in Obs |-> FALSE] /\ closed = [o \in Obs |-> FALSE]
  /\ expired = [o \in Obs |-> FALSE] /\ acked = None
  /\ sub = [o \in Obs |-> FALSE] /\ sending = [o \in Obs |-> FALSE]
  /\ deliver = [o \in Obs |-> "none"] /\ ping = [o \in Obs |-> "none"]
  /\ tries = [o \in Obs |-> 0]
  /\ closer = [o \in Obs |-> "none"] /\ unsub = [o \in Obs |-> "none"]

Set(f, o, v) == [f EXCEPT ![o] = v]
-----------------------------------------------------------------------------
(* The map, under obsLock. *)

\* close(val.Cancel) of the observer under id i, if there is one.
CloseCancel(i) ==
  IF obs[i] = None THEN cancelled ELSE Set(cancelled, obs[i], TRUE)

\* Mutant of Drop: the observer is cancelled and stays in the map.
DropKeeps(i) == cancelled' = CloseCancel(i) /\ UNCHANGED obs

\* remove.
Drop(i) == cancelled' = CloseCancel(i) /\ obs' = Set(obs, i, None)

\* A request with Observe 1, or a Reset.
Unsubscribe(i) ==
  /\ Drop(i)
  /\ UNCHANGED <<idOf, handler, closed, expired, acked, natsVars, goVars>>

(* A request with Observe 0: Subscribe to NATS, put, start the goroutines. *)

SubscribeNats(o, i) ==
  /\ handler[o] = "new"
  /\ handler' = Set(handler, o, "put") /\ idOf' = Set(idOf, o, i)
  /\ sub' = Set(sub, o, TRUE) /\ unsub' = Set(unsub, o, "wait")
  /\ UNCHANGED <<obs, chanVars, sending, goVars>>

Put(o) ==
  /\ handler[o] = "put" /\ handler' = Set(handler, o, "spawn")
  /\ cancelled' = CloseCancel(idOf[o]) /\ obs' = Set(obs, idOf[o], o)
  /\ UNCHANGED <<idOf, closed, expired, acked, natsVars, goVars>>

Spawn(o) ==
  /\ handler[o] = "spawn" /\ handler' = Set(handler, o, "done")
  /\ deliver' = Set(deliver, o, "wait") /\ ping' = Set(ping, o, "select")
  /\ closer' = Set(closer, o, "wait")
  /\ UNCHANGED <<obs, idOf, chanVars, natsVars, tries>>
-----------------------------------------------------------------------------
(* Messages from NATS. *)

\* A message arrives; the callback is about to send it on the channel.
NatsMessage(o) ==
  /\ sub[o] /\ ~sending[o] /\ sending' = Set(sending, o, TRUE)
  /\ UNCHANGED <<mapVars, chanVars, sub, unsub, goVars>>

\* The unbuffered send meets the receive of handleMessage.
Send(o) ==
  /\ sending[o] /\ ~closed[o] /\ deliver[o] = "wait"
  /\ sending' = Set(sending, o, FALSE) /\ deliver' = Set(deliver, o, "transmit")
  /\ UNCHANGED <<mapVars, chanVars, sub, unsub, ping, tries, closer>>

Transmit(o) ==
  /\ deliver[o] = "transmit" /\ deliver' = Set(deliver, o, "wait")
  /\ UNCHANGED <<mapVars, chanVars, natsVars, ping, tries, closer>>

DeliverEnds(o) ==
  /\ deliver[o] = "wait" /\ closed[o] /\ deliver' = Set(deliver, o, "done")
  /\ UNCHANGED <<mapVars, chanVars, natsVars, ping, tries, closer>>

\* A send on a closed channel panics: the process and all it holds is gone.
Panic(o) ==
  /\ sending[o] /\ closed[o]
  /\ obs' = [i \in ObsIds |-> None] /\ UNCHANGED idOf
  /\ handler' = [x \in Obs |-> IF handler[x] = "new" THEN "new" ELSE "done"]
  /\ cancelled' = [x \in Obs |-> handler[x] # "new"]
  /\ closed' = cancelled' /\ expired' = cancelled' /\ acked' = None
  /\ sub' = [x \in Obs |-> FALSE] /\ sending' = sub'
  /\ tries' = [x \in Obs |-> 0]
  /\ deliver' = [x \in Obs |-> IF handler[x] = "new" THEN "none" ELSE "done"]
  /\ ping' = deliver' /\ closer' = deliver' /\ unsub' = deliver'
-----------------------------------------------------------------------------
(* Cancellation. *)

\* cancel: close(Messages), then StoreExpired(true).
CloserCloses(o) ==
  /\ closer[o] = "wait" /\ cancelled[o]
  /\ closed' = Set(closed, o, TRUE) /\ closer' = Set(closer, o, "store")
  /\ UNCHANGED <<mapVars, cancelled, expired, acked, natsVars, deliver, ping, tries>>

CloserStores(o) ==
  /\ closer[o] = "store"
  /\ expired' = Set(expired, o, TRUE) /\ closer' = Set(closer, o, "done")
  /\ UNCHANGED <<mapVars, cancelled, closed, acked, natsVars, deliver, ping, tries>>

\* Mutant of UnsubNats: the subscription is left alone.
UnsubNatsNot(o) ==
  /\ unsub[o] = "wait" /\ cancelled[o] /\ unsub' = Set(unsub, o, "done")
  /\ UNCHANGED <<mapVars, chanVars, sub, sending, goVars>>

UnsubNats(o) ==
  /\ unsub[o] = "wait" /\ cancelled[o]
  /\ unsub' = Set(unsub, o, "done") /\ sub' = Set(sub, o, FALSE)
  /\ UNCHANGED <<mapVars, chanVars, sending, goVars>>
-----------------------------------------------------------------------------
(* ping. *)

PingTo(o, l) == ping' = Set(ping, o, l)

\* The ticker fires: a flag that is set ends the goroutine.
PingTick(o) ==
  /\ ping[o] = "select"
  /\ \/ expired[o] /\ PingTo(o, "done") /\ UNCHANGED <<expired, tries>>
     \/ /\ ~expired[o] /\ PingTo(o, "sleep")
        /\ expired' = Set(expired, o, TRUE) /\ tries' = Set(tries, o, 1)
  /\ UNCHANGED <<mapVars, cancelled, closed, acked, natsVars, deliver, closer>>

PingCancelled(o) ==
  /\ ping[o] = "select" /\ cancelled[o] /\ PingTo(o, "done")
  /\ UNCHANGED <<mapVars, chanVars, natsVars, deliver, tries, closer>>

\* Mutant of PingWakes: one transmission more.
PingWakesOneMore(o) ==
  /\ ping[o] = "sleep"
  /\ IF expired[o] /\ tries[o] <= MaxRetransmit
       THEN tries' = Set(tries, o, tries[o] + 1) /\ UNCHANGED ping
       ELSE tries' = Set(tries, o, 0) /\ PingTo(o, "check")
  /\ UNCHANGED <<mapVars, chanVars, natsVars, deliver, closer>>

\* After the sleep: break, transmit again or give up.
PingWakes(o) ==
  /\ ping[o] = "sleep"
  /\ IF expired[o] /\ tries[o] < MaxRetransmit
       THEN tries' = Set(tries, o, tries[o] + 1) /\ UNCHANGED ping
       ELSE tries' = Set(tries, o, 0) /\ PingTo(o, "check")
  /\ UNCHANGED <<mapVars, chanVars, natsVars, deliver, closer>>

\* Mutant of PingCheck: the goroutine ends and leaves the observer.
PingCheckLeaves(o) ==
  /\ ping[o] = "check" /\ PingTo(o, IF expired[o] THEN "done" ELSE "select")
  /\ UNCHANGED <<mapVars, chanVars, natsVars, deliver, tries, closer>>

\* Mutant of PingCheck: the client gets one more period, and one more.
PingCheckTrusts(o) ==
  /\ ping[o] = "check" /\ PingTo(o, "select") /\ expired' = Set(expired, o, FALSE)
  /\ UNCHANGED <<mapVars, cancelled, closed, acked, natsVars, deliver, tries, closer>>

PingCheck(o) ==
  /\ ping[o] = "check" /\ PingTo(o, IF expired[o] THEN "unsub" ELSE "select")
  /\ UNCHANGED <<mapVars, chanVars, natsVars, deliver, tries, closer>>

PingUnsubscribes(o) ==
  /\ ping[o] = "unsub" /\ PingTo(o, "done")
  /\ Drop(idOf[o])
  /\ UNCHANGED <<idOf, handler, closed, expired, acked, natsVars, deliver, tries, closer>>

(* listenResponses: get, then StoreExpired(false). *)

Ack(i) ==
  /\ acked = None /\ obs[i] \notin Silent \cup {None} /\ acked' = obs[i]
  /\ UNCHANGED <<mapVars, cancelled, closed, expired, natsVars, goVars>>

AckStores ==
  /\ acked # None /\ acked' = None
  /\ expired' = Set(expired, acked, FALSE)
  /\ UNCHANGED <<mapVars, cancelled, closed, natsVars, goVars>>
-----------------------------------------------------------------------------
Handler(o) == Put(o) \/ Spawn(o)
Messages(o) == Send(o) \/ Transmit(o) \/ DeliverEnds(o) \/ Panic(o)
Pinging(o) == PingTick(o) \/ PingCancelled(o) \/ PingWakes(o) \/ PingCheck(o) \/ PingUnsubscribes(o)
Closing(o) == CloserCloses(o) \/ CloserStores(o)

Next ==
  \/ \E i \in ObsIds : Unsubscribe(i) \/ Ack(i) \/ \E o \in Obs : SubscribeNats(o, i)
  \/ AckStores
  \/ \E o \in Obs : \/ Handler(o) \/ NatsMessage(o) \/ Messages(o)
                    \/ Closing(o) \/ UnsubNats(o) \/ Pinging(o)

Spec == Init /\ [][Next]_vars

\* Every goroutine is scheduled, tickers fire, sleeps end; clients and NATS
\* messages come as they like.
FairSpec ==
  /\ Spec /\ WF_vars(AckStores)
  /\ \A o \in Obs : /\ WF_vars(Handler(o)) /\ WF_vars(Messages(o))
                    /\ WF_vars(Closing(o)) /\ WF_vars(UnsubNats(o)) /\ WF_vars(Pinging(o))
-----------------------------------------------------------------------------
\* Types, and the number of pings sent without an answer keeps its bound.
TypeOK ==
  /\ obs \in [ObsIds -> Obs \cup {None}] /\ idOf \in [Obs -> ObsIds \cup {None}]
  /\ handler \in [Obs -> {"new", "put", "spawn", "done"}]
  /\ cancelled \in [Obs -> BOOLEAN] /\ closed \in [Obs -> BOOLEAN]
  /\ expired \in [Obs -> BOOLEAN] /\ acked \in Obs \cup {None}
  /\ sub \in [Obs -> BOOLEAN] /\ sending \in [Obs -> BOOLEAN]
  /\ deliver \in [Obs -> {"none", "wait", "transmit", "done"}]
  /\ ping \in [Obs -> {"none", "select", "sleep", "check", "unsub", "done"}]
  /\ tries \in [Obs -> 0..MaxRetransmit]
  /\ closer \in [Obs -> {"none", "wait", "store", "done"}]
  /\ unsub \in [Obs -> {"none", "wait", "done"}]

\* The Cancel channel of an observer in the map is open, so that put and remove,
\* which close it, never close one twice (which would panic), whoever calls
\* them: requests, and ping goroutines of this and of earlier observers.
MapHoldsLive == \A i \in ObsIds : obs[i] # None => ~cancelled[obs[i]]

\* An observer in the map is watched: its ping goroutine has not ended, so that
\* a client that went away without a word cannot stay for ever.  The goroutine
\* may end because of a flag that another goroutine has set.
EveryObserverPinged ==
  \A i \in ObsIds : obs[i] # None =>
    IF handler[obs[i]] = "spawn" THEN ping[obs[i]] = "none"
    ELSE ping[obs[i]] \in {"select", "sleep", "check", "unsub"}

\* Once cancelled, an observer's goroutines and its subscription all end.
CancelledEnds ==
  \A o \in Obs : cancelled[o] ~>
    /\ ~sub[o] /\ unsub[o] = "done" /\ deliver[o] = "done"
    /\ closer[o] = "done" /\ ping[o] = "done"

\* A client that answers no ping is dropped.
SilentIsDropped == \A o \in Silent : handler[o] = "spawn" ~> \A i \in ObsIds : obs[i] # o
=============================================================================
