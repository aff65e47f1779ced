---------------------------- MODULE ThingsEvents ----------------------------
(***************************************************************************)
(* The event sourcing middleware of the things service                     *)
(* (things/redis/streams.go): once a request has changed the tables, the   *)
(* goroutine that serves it adds its events to the Redis stream            *)
(* mainflux.things, one XADD each.  The result of XADD is ignored, so that *)
(* an event can be lost; a crash between the statement and the XADD has    *)
(* the same effect.  The caches of the service play no part here (Things). *)
(***************************************************************************)
EXTENDS ThingsDB, Sequences

CONSTANTS Callers,    \* goroutines of the things service, named by who called
          StreamLen,  \* entries the stream keeps (MAXLEN, 1000 in the code)
          EsFaults    \* may an XADD be lost?

ASSUME StreamLenAssumption == StreamLen \in Nat \ {0}
ASSUME EsFaultsAssumption == EsFaults \in BOOLEAN

VARIABLES stream,  \* entries not yet delivered to the consumer group
          out,     \* events that each goroutine still has to add
          lost     \* history: an event was lost before it was handled

esVars == <<stream, out>>

Ops == {"thing.create", "thing.update", "thing.remove", "thing.connect",
        "thing.disconnect", "channel.create", "channel.update", "channel.remove"}

Events == [op : Ops, ch : ChanIds \cup {None}, th : ThingIds \cup {None}]

ThingEvent(o, t)   == [op |-> o, ch |-> None, th |-> t]
ChanEvent(o, c)    == [op |-> o, ch |-> c, th |-> None]
ConnEvent(o, c, t) == [op |-> o, ch |-> c, th |-> t]

EsInit == stream = <<>> /\ out = [p \in Callers |-> <<>>] /\ lost = FALSE

EsTypeOK ==
  /\ stream \in Seq(Events) /\ Len(stream) <= StreamLen
  /\ out \in [Callers -> Seq(Events)]
  /\ lost \in BOOLEAN

\* The goroutine of p has answered its last request.
Answered(p) == out[p] = <<>>

Publish(p, evs) ==
  Answered(p) /\ out' = [out EXCEPT ![p] = evs] /\ UNCHANGED <<stream, lost>>

ToSet(s) == {s[i] : i \in DOMAIN s}

\* ts lists the new things in the order of the request.
EsCreateThings(p, u, ts, ks, m) ==
  /\ ToSet(ts) = DOMAIN ks
  /\ SaveThings(u, ks, m)
  /\ Publish(p, [i \in DOMAIN ts |-> ThingEvent("thing.create", ts[i])])

EsUpdateThing(p, u, t, m) ==
  UpdateThingRow(u, t, m) /\ Publish(p, <<ThingEvent("thing.update", t)>>)

\* No event: the key must not be sent over the stream.
EsUpdateKey(p, u, t, k) ==
  UpdateKeyRow(u, t, k) /\ Publish(p, <<>>)

\* The repository returns nil even when there was nothing to remove, so the
\* event is published for every caller.
EsRemoveThing(p, u, t) ==
  RemoveThingRow(u, t) /\ Publish(p, <<ThingEvent("thing.remove", t)>>)

EsCreateChannels(p, u, cs, m) ==
  /\ SaveChannels(u, ToSet(cs), m)
  /\ Publish(p, [i \in DOMAIN cs |-> ChanEvent("channel.create", cs[i])])

EsUpdateChannel(p, u, c, m) ==
  UpdateChannelRow(u, c, m) /\ Publish(p, <<ChanEvent("channel.update", c)>>)

EsRemoveChannel(p, u, c) ==
  RemoveChannelRow(u, c) /\ Publish(p, <<ChanEvent("channel.remove", c)>>)

\* Events in the order of the two nested loops over channels and things.
ConnectEvents(cs, ts) ==
  [i \in 1..(Len(cs) * Len(ts)) |->
     ConnEvent("thing.connect", cs[((i - 1) \div Len(ts)) + 1], ts[((i - 1) % Len(ts)) + 1])]

EsConnect(p, u, cs, ts) ==
  ConnectRows(u, ToSet(cs), ToSet(ts)) /\ Publish(p, ConnectEvents(cs, ts))

EsDisconnect(p, u, c, t) ==
  /\ OwnConn(u, c, t) /\ DisconnectRow(c, t)
  /\ Publish(p, <<ConnEvent("thing.disconnect", c, t)>>)

\* Mutant of Trimmed: no MAXLEN.
Untrimmed(s) == s

\* XADD with MAXLEN: the oldest undelivered entry of a full stream is gone.
Trimmed(s) == IF Len(s) > StreamLen THEN Tail(s) ELSE s

Emit(p) ==
  /\ out[p] # <<>>
  /\ out' = [out EXCEPT ![p] = Tail(@)]
  /\ \/ /\ stream' = Trimmed(Append(stream, Head(out[p])))
        /\ lost' = (lost \/ Len(stream) = StreamLen)
     \/ EsFaults /\ UNCHANGED stream /\ lost' = TRUE
  /\ UNCHANGED dbVars
=============================================================================
