----------------------------- MODULE CoapProofs -----------------------------
(***************************************************************************)
(* The CoAP adapter closes no Cancel channel twice and leaves no observer  *)
(* without its ping goroutine, for any number of observers and ids.        *)
(*                                                                         *)
(* The invariant says that an observer sits in the map only under its own  *)
(* id and only after put (InMap), what has not happened yet to one that is *)
(* being made (Fresh), and that its flag, read outside a ping, can only    *)
(* have been set by its cancellation (FlagsOK).                            *)
(***************************************************************************)
EXTENDS Coap, TLAPS

InMap ==
  \A i \in ObsIds : obs[i] # None =>
    /\ idOf[obs[i]] = i
    /\ handler[obs[i]] \in {"spawn", "done"}
    /\ ~cancelled[obs[i]]

Fresh ==
  \A o \in Obs :
    /\ handler[o] # "new" => idOf[o] \in ObsIds
    /\ handler[o] \in {"new", "put"} => ~cancelled[o]
    /\ handler[o] # "done" => ping[o] = "none" /\ closer[o] = "none"

FlagsOK ==
  \A o \in Obs :
    /\ ping[o] \in {"none", "select"} /\ expired[o] => cancelled[o]
    /\ closer[o] = "store" => cancelled[o]

\* The inductive invariant.
IInv == TypeOK /\ InMap /\ Fresh /\ FlagsOK /\ EveryObserverPinged

\* The invariant holds in an adapter without observers.
LEMMA InitInv ==
  Init => IInv
BY CoapAssumption
DEF Init, IInv, TypeOK, InMap, Fresh, FlagsOK, EveryObserverPinged

\* Steps that touch neither the map, the flags and the pinging, nor cancel.
LEMMA QuietInv ==
  ASSUME IInv, NEW o \in Obs,
         NatsMessage(o) \/ Send(o) \/ Transmit(o) \/ DeliverEnds(o) \/ UnsubNats(o)
  PROVE  IInv'
<1>1. UNCHANGED <<mapVars, chanVars, ping, tries, closer>>
  BY DEF NatsMessage, Send, Transmit, DeliverEnds, UnsubNats, goVars
<1>2. /\ sub' \in [Obs -> BOOLEAN] /\ sending' \in [Obs -> BOOLEAN]
      /\ deliver' \in [Obs -> {"none", "wait", "transmit", "done"}]
      /\ unsub' \in [Obs -> {"none", "wait", "done"}]
  BY DEF NatsMessage, Send, Transmit, DeliverEnds, UnsubNats, Set, goVars, natsVars, IInv,
         TypeOK
<1>3. UNCHANGED <<obs, idOf, handler, cancelled, closed, expired, acked, ping, tries, closer>>
  BY <1>1 DEF mapVars, chanVars
<1>4. TypeOK'
  BY <1>2, <1>3 DEF IInv, TypeOK
<1>5. InMap' /\ Fresh' /\ FlagsOK' /\ EveryObserverPinged'
  BY <1>3 DEF IInv, InMap, Fresh, FlagsOK, EveryObserverPinged
<1>. QED
  BY <1>4, <1>5 DEF IInv

\* remove: the observer under the id, if any, is cancelled and gone.
LEMMA DropInv ==
  ASSUME IInv, NEW i \in ObsIds, Drop(i), UNCHANGED <<idOf, handler>>
  PROVE  /\ obs' \in [ObsIds -> Obs \cup {None}] /\ cancelled' \in [Obs -> BOOLEAN]
         /\ obs'[i] = None /\ \A j \in ObsIds : j # i => obs'[j] = obs[j]
         /\ \A o \in Obs : cancelled[o] => cancelled'[o]
         /\ \A o \in Obs : cancelled'[o] /\ ~cancelled[o] => o = obs[i]
         /\ InMap'
<1>1. /\ obs' \in [ObsIds -> Obs \cup {None}] /\ cancelled' \in [Obs -> BOOLEAN]
      /\ obs'[i] = None /\ \A j \in ObsIds : j # i => obs'[j] = obs[j]
      /\ \A o \in Obs : cancelled[o] => cancelled'[o]
      /\ \A o \in Obs : cancelled'[o] /\ ~cancelled[o] => o = obs[i]
  BY CoapAssumption DEF Drop, CloseCancel, Set, IInv, TypeOK
<1>2. \A j \in ObsIds : obs'[j] # None => ~cancelled'[obs'[j]]
  BY <1>1 DEF IInv, InMap, TypeOK
<1>. QED
  BY <1>1, <1>2 DEF IInv, InMap

\* A request that cancels the observer of an id takes it from the map.
LEMMA UnsubscribeInv ==
  ASSUME IInv, NEW i \in ObsIds, Unsubscribe(i)
  PROVE  IInv'
<1>1. UNCHANGED <<idOf, handler, closed, expired, acked, natsVars, goVars>> /\ Drop(i)
  BY DEF Unsubscribe
<1>2. TypeOK' /\ InMap'
  BY <1>1, DropInv DEF IInv, TypeOK, natsVars, goVars
<1>3. Fresh'
  <2>1. \A o \in Obs : cancelled'[o] /\ ~cancelled[o] => handler[o] \in {"spawn", "done"}
    BY <1>1, DropInv, CoapAssumption DEF IInv, InMap
  <2>. QED
    BY <1>1, <1>2, <2>1 DEF IInv, TypeOK, Fresh, goVars
<1>4. FlagsOK' /\ EveryObserverPinged'
  BY <1>1, DropInv DEF IInv, TypeOK, FlagsOK, EveryObserverPinged, goVars
<1>. QED
  BY <1>2, <1>3, <1>4 DEF IInv

\* The subscription to NATS comes before put: the observer is in no map yet.
LEMMA SubscribeInv ==
  ASSUME IInv, NEW o \in Obs, NEW i \in ObsIds, SubscribeNats(o, i)
  PROVE  IInv'
<1>1. /\ handler[o] = "new" /\ handler' = [handler EXCEPT ![o] = "put"]
      /\ idOf' = [idOf EXCEPT ![o] = i]
      /\ sub' = [sub EXCEPT ![o] = TRUE] /\ unsub' = [unsub EXCEPT ![o] = "wait"]
      /\ UNCHANGED <<obs, cancelled, closed, expired, acked, sending, deliver, ping, tries, closer>>
  BY DEF SubscribeNats, Set, chanVars, goVars
<1>2. TypeOK'
  BY <1>1 DEF IInv, TypeOK
<1>3. InMap'
  BY <1>1, <1>2 DEF IInv, TypeOK, InMap
<1>4. Fresh' /\ FlagsOK'
  BY <1>1 DEF IInv, TypeOK, Fresh, FlagsOK
<1>5. EveryObserverPinged'
  BY <1>1 DEF IInv, TypeOK, InMap, EveryObserverPinged
<1>. QED
  BY <1>2, <1>3, <1>4, <1>5 DEF IInv

\* put: the observer it replaces is another one, and not cancelled before.
LEMMA PutInv ==
  ASSUME IInv, NEW o \in Obs, Put(o)
  PROVE  IInv'
<1>. DEFINE i == idOf[o]
<1>1. /\ handler[o] = "put" /\ i \in ObsIds /\ ~cancelled[o] /\ ping[o] = "none"
      /\ handler' = [handler EXCEPT ![o] = "spawn"] /\ obs' = [obs EXCEPT ![i] = o]
      /\ cancelled' = CloseCancel(i)
      /\ UNCHANGED <<idOf, closed, expired, acked, natsVars, goVars>>
  BY DEF Put, Set, IInv, Fresh
<1>2. \A j \in ObsIds : obs[j] # o
  BY <1>1, CoapAssumption DEF IInv, InMap
<1>3. /\ cancelled' \in [Obs -> BOOLEAN]
      /\ \A x \in Obs : cancelled[x] => cancelled'[x]
      /\ \A x \in Obs : cancelled'[x] /\ ~cancelled[x] => x = obs[i]
  BY <1>1, CoapAssumption DEF CloseCancel, Set, IInv, TypeOK
<1>4. TypeOK'
  BY <1>1, <1>3 DEF IInv, TypeOK, natsVars, goVars
<1>5. InMap'
  <2>. SUFFICES ASSUME NEW j \in ObsIds, obs'[j] # None
                PROVE  /\ idOf'[obs'[j]] = j /\ handler'[obs'[j]] \in {"spawn", "done"}
                       /\ ~cancelled'[obs'[j]]
    BY DEF InMap
  <2>1. CASE j = i
    <3>1. obs'[j] = o
      BY <1>1, <2>1 DEF IInv, TypeOK
    <3>. QED
      BY <1>1, <1>2, <1>3, <2>1, <3>1 DEF IInv, TypeOK
  <2>2. CASE j # i
    <3>1. obs'[j] = obs[j] /\ obs[j] # o /\ obs[j] \in Obs
      BY <1>1, <1>2, <2>2 DEF IInv, TypeOK
    <3>2. obs[j] # obs[i]
      BY <1>1, <2>2, <3>1 DEF IInv, InMap
    <3>. QED
      BY <1>1, <1>3, <3>1, <3>2 DEF IInv, TypeOK, InMap
  <2>. QED
    BY <2>1, <2>2
<1>6. Fresh'
  <2>1. \A x \in Obs : cancelled'[x] /\ ~cancelled[x] => handler[x] \in {"spawn", "done"}
    BY <1>1, <1>3, CoapAssumption DEF IInv, InMap
  <2>. QED
    BY <1>1, <1>3, <2>1 DEF IInv, TypeOK, Fresh, goVars
<1>7. FlagsOK'
  BY <1>1, <1>3 DEF IInv, TypeOK, FlagsOK, goVars
<1>8. EveryObserverPinged'
  BY <1>1, <1>2 DEF IInv, TypeOK, EveryObserverPinged, goVars
<1>. QED
  BY <1>4, <1>5, <1>6, <1>7, <1>8 DEF IInv

\* The goroutines of a new observer start with its flag clear.
LEMMA SpawnInv ==
  ASSUME IInv, NEW o \in Obs, Spawn(o)
  PROVE  IInv'
<1>1. /\ handler[o] = "spawn" /\ handler' = [handler EXCEPT ![o] = "done"]
      /\ deliver' = [deliver EXCEPT ![o] = "wait"] /\ ping' = [ping EXCEPT ![o] = "select"]
      /\ closer' = [closer EXCEPT ![o] = "wait"]
      /\ UNCHANGED <<obs, idOf, cancelled, closed, expired, acked, sub, sending, unsub, tries>>
  BY DEF Spawn, Set, chanVars, natsVars
<1>2. TypeOK'
  BY <1>1 DEF IInv, TypeOK
<1>3. InMap'
  BY <1>1 DEF IInv, TypeOK, InMap
<1>4. Fresh'
  BY <1>1 DEF IInv, TypeOK, Fresh
<1>5. FlagsOK'
  BY <1>1 DEF IInv, TypeOK, Fresh, FlagsOK
<1>6. EveryObserverPinged'
  BY <1>1 DEF IInv, TypeOK, EveryObserverPinged
<1>. QED
  BY <1>2, <1>3, <1>4, <1>5, <1>6 DEF IInv

\* A panic leaves an adapter without observers.
LEMMA PanicInv ==
  ASSUME IInv, NEW o \in Obs, Panic(o)
  PROVE  IInv'
<1>1. /\ obs' = [i \in ObsIds |-> None] /\ UNCHANGED idOf
      /\ handler' = [x \in Obs |-> IF handler[x] = "new" THEN "new" ELSE "done"]
      /\ cancelled' = [x \in Obs |-> handler[x] # "new"]
      /\ closed' = cancelled' /\ expired' = cancelled' /\ acked' = None
      /\ sub' = [x \in Obs |-> FALSE] /\ sending' = sub' /\ tries' = [x \in Obs |-> 0]
      /\ deliver' = [x \in Obs |-> IF handler[x] = "new" THEN "none" ELSE "done"]
      /\ ping' = deliver' /\ closer' = deliver' /\ unsub' = deliver'
  BY DEF Panic
<1>2. TypeOK'
  BY <1>1, CoapAssumption DEF IInv, TypeOK
<1>3. InMap' /\ EveryObserverPinged'
  BY <1>1 DEF InMap, EveryObserverPinged
<1>4. Fresh' /\ FlagsOK'
  BY <1>1 DEF IInv, TypeOK, Fresh, FlagsOK
<1>. QED
  BY <1>2, <1>3, <1>4 DEF IInv

\* cancel: only once the Cancel channel is closed.
LEMMA ClosingInv ==
  ASSUME IInv, NEW o \in Obs, Closing(o)
  PROVE  IInv'
<1>1. CASE CloserCloses(o)
  <2>1. /\ closer[o] = "wait" /\ cancelled[o]
        /\ closed' = [closed EXCEPT ![o] = TRUE] /\ closer' = [closer EXCEPT ![o] = "store"]
        /\ UNCHANGED <<obs, idOf, handler, cancelled, expired, acked, sub, sending, unsub,
                       deliver, ping, tries>>
    BY <1>1 DEF CloserCloses, Set, mapVars, natsVars
  <2>. QED
    BY <2>1 DEF IInv, TypeOK, InMap, Fresh, FlagsOK, EveryObserverPinged
<1>2. CASE CloserStores(o)
  <2>1. /\ closer[o] = "store"
        /\ expired' = [expired EXCEPT ![o] = TRUE] /\ closer' = [closer EXCEPT ![o] = "done"]
        /\ UNCHANGED <<obs, idOf, handler, cancelled, closed, acked, sub, sending, unsub,
                       deliver, ping, tries>>
    BY <1>2 DEF CloserStores, Set, mapVars, natsVars
  <2>. QED
    BY <2>1 DEF IInv, TypeOK, InMap, Fresh, FlagsOK, EveryObserverPinged
<1>. QED
  BY <1>1, <1>2 DEF Closing
-----------------------------------------------------------------------------
(* ping and listenResponses. *)

\* A step of ping to label l that leaves the map and the flags alone: it may end
\* only if the observer is cancelled, and select again only with the flag down.
LEMMA PingStep ==
  ASSUME IInv, NEW o \in Obs, NEW l \in {"select", "sleep", "check", "unsub", "done"},
         handler[o] = "done", ping' = [ping EXCEPT ![o] = l],
         l = "done" => cancelled[o], l = "select" => ~expired[o],
         tries' \in [Obs -> 0..MaxRetransmit],
         UNCHANGED <<obs, idOf, handler, cancelled, closed, expired, acked, sub, sending,
                     unsub, deliver, closer>>
  PROVE  IInv'
<1>1. TypeOK'
  BY DEF IInv, TypeOK
<1>2. InMap'
  BY DEF IInv, InMap
<1>3. Fresh' /\ FlagsOK'
  BY DEF IInv, TypeOK, Fresh, FlagsOK
<1>4. EveryObserverPinged'
  BY DEF IInv, TypeOK, InMap, EveryObserverPinged
<1>. QED
  BY <1>1, <1>2, <1>3, <1>4 DEF IInv

\* The ping goroutine ends only when its observer leaves the map or has left it.
LEMMA PingingInv ==
  ASSUME IInv, NEW o \in Obs, Pinging(o)
  PROVE  IInv'
<1>1. handler[o] = "done" /\ idOf[o] \in ObsIds /\ tries[o] \in Nat /\ expired[o] \in BOOLEAN
  <2>1. ping[o] # "none"
    BY DEF Pinging, PingTick, PingCancelled, PingWakes, PingCheck, PingUnsubscribes
  <2>2. handler[o] = "done" /\ idOf[o] \in ObsIds
    BY <2>1 DEF IInv, Fresh
  <2>. QED
    BY <2>2, CoapAssumption DEF IInv, TypeOK
<1>2. CASE PingTick(o)
  <2>1. CASE expired[o]
    <3>1. cancelled[o]
      BY <1>2, <2>1 DEF PingTick, IInv, FlagsOK
    <3>. QED
      BY <1>1, <1>2, <2>1, <3>1, PingStep
      DEF PingTick, PingTo, Set, mapVars, natsVars, IInv, TypeOK
  <2>2. CASE ~expired[o]
    <3>1. /\ ping' = [ping EXCEPT ![o] = "sleep"]
          /\ expired' = [expired EXCEPT ![o] = TRUE] /\ tries' = [tries EXCEPT ![o] = 1]
          /\ UNCHANGED <<obs, idOf, handler, cancelled, closed, acked, sub, sending, unsub,
                         deliver, closer>>
      BY <1>2, <2>2 DEF PingTick, PingTo, Set, mapVars, natsVars
    <3>2. TypeOK'
      <4>1. 1 \in 0..MaxRetransmit
        BY CoapAssumption
      <4>. QED
        BY <3>1, <4>1 DEF IInv, TypeOK
    <3>3. InMap' /\ Fresh' /\ FlagsOK'
      BY <1>1, <3>1 DEF IInv, TypeOK, InMap, Fresh, FlagsOK
    <3>4. EveryObserverPinged'
      BY <1>1, <3>1 DEF IInv, TypeOK, EveryObserverPinged
    <3>. QED
      BY <3>2, <3>3, <3>4 DEF IInv
  <2>. QED
    BY <2>1, <2>2
<1>3. CASE PingCancelled(o)
  BY <1>1, <1>3, PingStep
  DEF PingCancelled, PingTo, Set, mapVars, chanVars, natsVars, IInv, TypeOK
<1>4. CASE PingWakes(o)
  <2>1. CASE expired[o] /\ tries[o] < MaxRetransmit
    <3>1. tries[o] + 1 \in 0..MaxRetransmit
      BY <1>1, <2>1, CoapAssumption
    <3>2. tries' \in [Obs -> 0..MaxRetransmit] /\ ping' = [ping EXCEPT ![o] = "sleep"]
      BY <1>4, <2>1, <3>1 DEF PingWakes, Set, IInv, TypeOK
    <3>. QED
      BY <1>1, <1>4, <3>2, PingStep DEF PingWakes, mapVars, chanVars, natsVars
  <2>2. CASE ~(expired[o] /\ tries[o] < MaxRetransmit)
    <3>1. 0 \in 0..MaxRetransmit
      BY CoapAssumption
    <3>2. tries' \in [Obs -> 0..MaxRetransmit] /\ ping' = [ping EXCEPT ![o] = "check"]
      BY <1>4, <2>2, <3>1 DEF PingWakes, PingTo, Set, IInv, TypeOK
    <3>. QED
      BY <1>1, <1>4, <3>2, PingStep DEF PingWakes, mapVars, chanVars, natsVars
  <2>. QED
    BY <2>1, <2>2
<1>5. CASE PingCheck(o)
  <2>1. tries' \in [Obs -> 0..MaxRetransmit]
    BY <1>5 DEF PingCheck, IInv, TypeOK
  <2>2. CASE expired[o]
    BY <1>1, <1>5, <2>1, <2>2, PingStep DEF PingCheck, PingTo, Set, mapVars, chanVars, natsVars
  <2>3. CASE ~expired[o]
    BY <1>1, <1>5, <2>1, <2>3, PingStep DEF PingCheck, PingTo, Set, mapVars, chanVars, natsVars
  <2>. QED
    BY <2>2, <2>3
<1>6. CASE PingUnsubscribes(o)
  <2>. DEFINE i == idOf[o]
  <2>1. /\ Drop(i) /\ ping' = [ping EXCEPT ![o] = "done"]
        /\ UNCHANGED <<idOf, handler, closed, expired, acked, sub, sending, unsub, deliver,
                       tries, closer>>
    BY <1>6 DEF PingUnsubscribes, PingTo, Set, natsVars
  <2>2. TypeOK' /\ InMap'
    BY <1>1, <2>1, DropInv DEF IInv, TypeOK
  <2>3. Fresh'
    <3>1. \A x \in Obs : cancelled'[x] /\ ~cancelled[x] => handler[x] \in {"spawn", "done"}
      BY <1>1, <2>1, DropInv, CoapAssumption DEF IInv, InMap
    <3>. QED
      BY <1>1, <2>1, <2>2, <3>1 DEF IInv, TypeOK, Fresh
  <2>4. FlagsOK'
    <3>1. \A x \in Obs : cancelled[x] => cancelled'[x]
      BY <1>1, <2>1, DropInv
    <3>. QED
      BY <2>1, <3>1 DEF IInv, TypeOK, FlagsOK
  <2>5. EveryObserverPinged'
    <3>1. obs'[i] = None /\ \A j \in ObsIds : j # i => obs'[j] = obs[j]
      BY <1>1, <2>1, DropInv
    <3>2. \A j \in ObsIds : j # i => obs[j] # o
      BY CoapAssumption DEF IInv, InMap
    <3>. QED
      BY <2>1, <3>1, <3>2 DEF IInv, TypeOK, EveryObserverPinged
  <2>. QED
    BY <2>2, <2>3, <2>4, <2>5 DEF IInv
<1>. QED
  BY <1>2, <1>3, <1>4, <1>5, <1>6 DEF Pinging

\* An acknowledgement only takes the flag down.
LEMMA AckInv ==
  ASSUME IInv, AckStores \/ \E i \in ObsIds : Ack(i)
  PROVE  IInv'
<1>1. /\ acked' \in Obs \cup {None} /\ expired' \in [Obs -> BOOLEAN]
      /\ \A o \in Obs : expired'[o] => expired[o]
      /\ UNCHANGED <<obs, idOf, handler, cancelled, closed, sub, sending, unsub, deliver,
                     ping, tries, closer>>
  BY DEF AckStores, Ack, Set, mapVars, natsVars, goVars, IInv, TypeOK
<1>2. TypeOK'
  BY <1>1 DEF IInv, TypeOK
<1>3. InMap' /\ Fresh' /\ EveryObserverPinged'
  BY <1>1 DEF IInv, InMap, Fresh, EveryObserverPinged
<1>4. FlagsOK'
  BY <1>1 DEF IInv, FlagsOK
<1>. QED
  BY <1>2, <1>3, <1>4 DEF IInv
-----------------------------------------------------------------------------
\* The invariant holds in every state.
THEOREM Inductive == Spec => []IInv
<1>1. Init => IInv
  BY InitInv
<1>2. ASSUME IInv, [Next]_vars PROVE IInv'
  <2>1. CASE Next
    BY <1>2, <2>1, QuietInv, UnsubscribeInv, SubscribeInv, PutInv, SpawnInv, PanicInv,
       ClosingInv, PingingInv, AckInv
    DEF Next, Handler, Messages
  <2>2. CASE UNCHANGED vars
    <3>1. UNCHANGED <<obs, idOf, handler, cancelled, closed, expired, acked, sub, sending,
                      unsub, deliver, ping, tries, closer>>
      BY <2>2 DEF vars, mapVars, chanVars, natsVars, goVars
    <3>2. TypeOK'
      BY <1>2, <3>1 DEF IInv, TypeOK
    <3>3. InMap' /\ Fresh' /\ FlagsOK' /\ EveryObserverPinged'
      BY <1>2, <3>1 DEF IInv, InMap, Fresh, FlagsOK, EveryObserverPinged
    <3>. QED
      BY <3>2, <3>3 DEF IInv
  <2>. QED
    BY <1>2, <2>1, <2>2
<1>. QED
  BY <1>1, <1>2, PTL DEF Spec

\* Observers and goroutines keep their types; no ping is transmitted more than
\* MaxRetransmit times for one tick.
THEOREM TypeCorrect == Spec => []TypeOK
<1>1. IInv => TypeOK
  BY DEF IInv
<1>. QED
  BY <1>1, Inductive, PTL

\* put and remove (coap/adapter.go) never close a Cancel channel twice.
THEOREM NoDoubleClose == Spec => []MapHoldsLive
<1>1. IInv => MapHoldsLive
  BY DEF IInv, InMap, MapHoldsLive
<1>. QED
  BY <1>1, Inductive, PTL

\* An observer in the map has a ping goroutine that has not ended
\* (coap/api/transport.go), whatever other goroutines did to its flag.
THEOREM AllPinged == Spec => []EveryObserverPinged
<1>1. IInv => EveryObserverPinged
  BY DEF IInv
<1>. QED
  BY <1>1, Inductive, PTL
=============================================================================
