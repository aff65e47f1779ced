-------------------------------- MODULE Mqtt --------------------------------
(***************************************************************************)
(* The MQTT adapter (mqtt/aedes/mqtt.js): a cluster of instances behind    *)
(* nginx, each a Node process around the broker aedes.  The instances      *)
(* share an emitter over Redis, a NATS queue group and an event stream.    *)
(*                                                                         *)
(* A callback of Node runs to its end, so that a handler is one step; the  *)
(* calls to the things service are in flight meanwhile and are answered in *)
(* any order.  Things may refuse any of them (it may be unreachable), and  *)
(* grants what AccessLog allows.                                           *)
(***************************************************************************)
EXTENDS MqttTopic, AccessLog, FiniteSets

CONSTANTS Instances,   \* processes of the adapter
          Clients,     \* MQTT connections, over TCP or WebSocket
          MsgIds,      \* bound: messages published by anyone
          Topics,      \* topics that clients publish to
          Filters,     \* topic filters that clients subscribe to
          Subtopics, Types,  \* of messages of the other adapters
          None         \* no password, no thing, no client

\* Channel ids are UUIDs.
ASSUME MqttAssumption ==
  /\ None \notin Keys /\ ChanIds \subseteq STRING \ {"+"} /\ Marks \subseteq STRING
  /\ Topics \cup Filters \cup Subtopics \subseteq Seq(Seq(STRING)) /\ Types \subseteq Seq(STRING)

VARIABLES state,   \* of a connection: "new", "identify", "left" (closed while
                   \* identify is under way), "accepted", "up", "closed"
                   \* (after "up"), "gone" (never up, or dead)
          inst,    \* its instance
          cred,    \* the password of its CONNECT packet
          client,  \* what the handlers keep in the client object
          subs,    \* its subscriptions
          calls,   \* CanAccessByKey requests in flight, with their captures
          bus,     \* NATS messages on their way to the queue group
          outbox,  \* packets that aedes has accepted, by instance
          got,     \* packets each connection has received
          stream,  \* mainflux.mqtt: the number of events of each thing and type
          used,    \* messages there have been
          out,     \* history: what the adapters published to NATS
          dups,    \* history: <<connection, message>> received again
          lost,    \* history: messages lost in a crash
          unsent   \* history: has adding an event failed?

connVars == <<state, inst, cred, client, subs>>
msgVars == <<bus, outbox, got, used, out, dups, lost>>
vars == <<logVars, connVars, calls, msgVars, stream, unsent>>

Nobody == [thingId |-> None, password |-> None]

Init ==
  /\ LogInit
  /\ state = [x \in Clients |-> "new"]
  /\ inst = [x \in Clients |-> None] /\ cred = [x \in Clients |-> None]
  /\ client = [x \in Clients |-> Nobody] /\ subs = [x \in Clients |-> {}]
  /\ calls = {} /\ bus = {} /\ outbox = {} /\ got = [x \in Clients |-> {}]
  /\ stream = [t \in ThingIds |-> [connect |-> 0, disconnect |-> 0]]
  /\ used = {} /\ out = {} /\ dups = {} /\ lost = {} /\ unsent = FALSE

Set(f, x, v) == f' = [f EXCEPT ![x] = v]
-----------------------------------------------------------------------------
\* A connection reaches an instance and sends CONNECT with password k, None if
\* it has none: aedes.handle, then authenticate.
Connect(x, i, k) ==
  /\ state[x] = "new"
  /\ Set(state, x, "identify") /\ Set(inst, x, i) /\ Set(cred, x, k)
  /\ UNCHANGED <<logVars, client, subs, calls, msgVars, stream, unsent>>

\* XADD, whose error is only logged.
publishConnEvent(t, type) ==
  \/ stream' = [stream EXCEPT ![t][type] = @ + 1] /\ UNCHANGED unsent
  \/ unsent' = TRUE /\ UNCHANGED stream

\* Mutant of onIdentify: no event.
onIdentifySilent(x, t) ==
  /\ state[x] \in {"identify", "left"} /\ MayIdentify(cred[x], t)
  /\ Set(client, x, [thingId |-> t, password |-> cred[x]])
  /\ Set(state, x, IF state[x] = "left" THEN "gone" ELSE "accepted")
  /\ UNCHANGED <<stream, unsent, logVars, inst, cred, subs, calls, msgVars>>

\* The key was identified.  The event does not depend on the client being there.
onIdentify(x, t) ==
  /\ state[x] \in {"identify", "left"} /\ MayIdentify(cred[x], t)
  /\ Set(client, x, [thingId |-> t, password |-> cred[x]])
  /\ Set(state, x, IF state[x] = "left" THEN "gone" ELSE "accepted")
  /\ publishConnEvent(t, "connect")
  /\ UNCHANGED <<logVars, inst, cred, subs, calls, msgVars>>

\* It was not: acknowledge(err, false), and aedes closes the connection.
onIdentifyError(x) ==
  /\ state[x] \in {"identify", "left"} /\ Set(state, x, "gone")
  /\ UNCHANGED <<logVars, inst, cred, client, subs, calls, msgVars, stream, unsent>>

\* aedes registers the client and acknowledges the connection.
Register(x) ==
  /\ state[x] = "accepted" /\ Set(state, x, "up")
  /\ UNCHANGED <<logVars, inst, cred, client, subs, calls, msgVars, stream, unsent>>

\* The connection ends before that: nobody is told.
Leave(x) ==
  /\ \/ state[x] = "identify" /\ Set(state, x, "left")
     \/ state[x] = "accepted" /\ Set(state, x, "gone")
  /\ UNCHANGED <<logVars, inst, cred, client, subs, calls, msgVars, stream, unsent>>
-----------------------------------------------------------------------------
\* A CanAccessByKey request and what its callback has captured.  The token is
\* read from the client object when the request is made.
Request(x, kind, m, L) ==
  [kind |-> kind, from |-> x, id |-> m, token |-> client[x].password,
   chan |-> parseTopic(L), topic |-> L, live |-> state[x] = "up"]

PublishCall(x, m, L) ==
  IF parseTopic(L) = NoChannel \/ InvalidSubtopic(L)
    THEN {}                              \* 'unknown topic', 'invalid subtopic'
    ELSE {Request(x, "publish", m, L)}

\* A PUBLISH packet.  aedes handles the packets of one read together, also
\* those after the one that ends the connection.
authorizePublish(x, m, L) ==
  /\ state[x] \in {"up", "closed"}
  /\ m \notin used /\ used' = used \cup {m}
  /\ calls' = calls \cup PublishCall(x, m, L)
  /\ UNCHANGED <<logVars, connVars, bus, outbox, got, out, dups, lost, stream, unsent>>

\* A SUBSCRIBE packet.
authorizeSubscribe(x, F) ==
  /\ state[x] = "up" /\ parseTopic(F) # NoChannel
  /\ calls' = calls \cup {Request(x, "subscribe", None, F)}
  /\ UNCHANGED <<logVars, connVars, msgVars, stream, unsent>>

\* Mutant of Message: the match of the expression instead of its group.
MessageOfMatch(r) ==
  LET es == Elements(r.topic)
  IN  [id |-> r.id, protocol |-> "mqtt", publisher |-> client[r.from].thingId,
       channel |-> r.topic, topic |-> r.topic[3], subtopic |-> Subtopic(es),
       contentType |-> ContentType(es), by |-> r.from, live |-> r.live]

\* The message that onAuthorize encodes.
Message(r) ==
  LET es == Elements(r.topic)
  IN  [id |-> r.id, protocol |-> "mqtt", publisher |-> client[r.from].thingId,
       channel |-> r.chan[1][1], topic |-> r.topic[3], subtopic |-> Subtopic(es),
       contentType |-> ContentType(es), by |-> r.from, live |-> r.live]

\* Does things grant the request?
Granted(r) == \E t \in ThingIds, c \in ChanIds :
  r.chan = << <<c>> >> /\ MayAccess(r.token, c, t)

\* onAuthorize of a publish: to NATS, then publish(null), and aedes has it.
onPublishGranted(r) ==
  /\ r.kind = "publish" /\ Granted(r) /\ calls' = calls \ {r}
  /\ out' = out \cup {Message(r)} /\ bus' = bus \cup {Message(r)}
  /\ outbox' = outbox \cup {[inst |-> inst[r.from], id |-> r.id, topic |-> r.topic]}
  /\ UNCHANGED <<logVars, connVars, got, used, dups, lost, stream, unsent>>

Subscribed(r) ==
  IF state[r.from] = "up" THEN Set(subs, r.from, subs[r.from] \cup {r.topic})
                          ELSE UNCHANGED subs

\* Mutant of onSubscribeGranted: the answer is not looked at.
onSubscribeAnyway(r) ==
  /\ r.kind = "subscribe" /\ calls' = calls \ {r} /\ Subscribed(r)
  /\ UNCHANGED <<logVars, state, inst, cred, client, msgVars, stream, unsent>>

\* onAuthorize of a subscribe; aedes drops it when the connection has ended.
onSubscribeGranted(r) ==
  /\ r.kind = "subscribe" /\ Granted(r) /\ calls' = calls \ {r} /\ Subscribed(r)
  /\ UNCHANGED <<logVars, state, inst, cred, client, msgVars, stream, unsent>>

\* onAuthorize with an error: publish(err) or subscribe(err, null).
onRefused(r) ==
  /\ calls' = calls \ {r}
  /\ UNCHANGED <<logVars, connVars, msgVars, stream, unsent>>

\* UNSUBSCRIBE, which the adapter has no handler for.
Unsubscribe(x, F) ==
  /\ state[x] = "up" /\ F \in subs[x] /\ Set(subs, x, subs[x] \ {F})
  /\ UNCHANGED <<logVars, state, inst, cred, client, calls, msgVars, stream, unsent>>

\* Mutant of clientDisconnect: the password stays in the client object.
clientDisconnectKeepsKey(x) ==
  /\ state[x] = "up" /\ Set(state, x, "closed")
  /\ UNCHANGED client /\ Set(subs, x, {})
  /\ publishConnEvent(client[x].thingId, "disconnect")
  /\ UNCHANGED <<logVars, inst, cred, calls, msgVars>>

\* The end of a registered client.
clientDisconnect(x) ==
  /\ state[x] = "up" /\ Set(state, x, "closed")
  /\ Set(client, x, [client[x] EXCEPT !.password = None]) /\ Set(subs, x, {})
  /\ publishConnEvent(client[x].thingId, "disconnect")
  /\ UNCHANGED <<logVars, inst, cred>>

Disconnect(x) == clientDisconnect(x) /\ UNCHANGED <<calls, msgVars>>

\* Without a DISCONNECT packet, aedes submits the will before.
DisconnectWithWill(x, m, L) ==
  /\ clientDisconnect(x) /\ m \notin used /\ used' = used \cup {m}
  /\ calls' = calls \cup PublishCall(x, m, L)
  /\ UNCHANGED <<bus, outbox, got, out, dups, lost>>
-----------------------------------------------------------------------------
\* Another adapter publishes to NATS.
OtherPublish(m, c, st, ct) ==
  /\ m \notin used /\ used' = used \cup {m}
  /\ bus' = bus \cup {[id |-> m, protocol |-> "other", publisher |-> None,
                       channel |-> c, topic |-> <<"messages">>, subtopic |-> st,
                       contentType |-> ct, by |-> None, live |-> FALSE]}
  /\ UNCHANGED <<logVars, connVars, calls, outbox, got, out, dups, lost, stream, unsent>>

Packet(i, b) == [inst |-> i, id |-> b.id,
                 topic |-> TopicOf(b.channel, b.subtopic, b.contentType)]

\* Mutant of Forwarded: what came over MQTT comes back.
ForwardedAll(i, b) == {Packet(i, b)}

\* Mutant of Forwarded: only messages without a subtopic are passed on.
ForwardedPlain(i, b) ==
  IF b.protocol # "mqtt" /\ b.subtopic = <<>> THEN {Packet(i, b)} ELSE {}

Forwarded(i, b) == IF b.protocol # "mqtt" THEN {Packet(i, b)} ELSE {}

\* The subscription of the queue group: one instance gets the message.
natsMessage(i, b) ==
  /\ bus' = bus \ {b} /\ outbox' = outbox \cup Forwarded(i, b)
  /\ UNCHANGED <<logVars, connVars, calls, got, used, out, dups, lost, stream, unsent>>

Listening(x, L) == state[x] = "up" /\ \E F \in subs[x] : Matches(F, L)
Ids(packets) == {p.id : p \in packets}

\* aedes hands a packet to the emitter, and every instance to its subscribers.
Emit(p) ==
  LET to == {x \in Clients : Listening(x, p.topic)}
  IN  /\ outbox' = outbox \ {p}
      /\ got' = [x \in Clients |-> IF x \in to THEN got[x] \cup {p} ELSE got[x]]
      /\ dups' = dups \cup {<<x, p.id>> : x \in {y \in to : p.id \in Ids(got[y])}}
      /\ UNCHANGED <<logVars, connVars, calls, bus, used, out, lost, stream, unsent>>

\* An instance dies, with its connections, its requests, the packets it has
\* accepted and the NATS messages on their way to it.
Crash(i) ==
  LET hit == {x \in Clients : inst[x] = i}
      mine == {p \in outbox : p.inst = i}
  IN  \E sent \in SUBSET bus :
        /\ state' = [x \in Clients |-> IF x \in hit THEN "gone" ELSE state[x]]
        /\ client' = [x \in Clients |-> IF x \in hit THEN Nobody ELSE client[x]]
        /\ subs' = [x \in Clients |-> IF x \in hit THEN {} ELSE subs[x]]
        /\ calls' = {r \in calls : r.from \notin hit}
        /\ outbox' = outbox \ mine /\ bus' = bus \ sent
        /\ lost' = lost \cup Ids(mine) \cup Ids(sent)
        /\ UNCHANGED <<logVars, inst, cred, got, used, out, dups, stream, unsent>>

\* A request of an owner to the things service: it may add rows; those it removes
\* stay in the histories.
Grow == LearnKeys /\ LearnConns /\ UNCHANGED <<connVars, calls, msgVars, stream, unsent>>
-----------------------------------------------------------------------------
Connecting(x) ==
  \/ \E i \in Instances, k \in Keys \cup {None} : Connect(x, i, k)
  \/ \E t \in ThingIds : onIdentify(x, t)
  \/ onIdentifyError(x) \/ Register(x) \/ Leave(x)

Using(x) ==
  \/ \E m \in MsgIds, L \in Topics : authorizePublish(x, m, L) \/ DisconnectWithWill(x, m, L)
  \/ \E F \in Filters : authorizeSubscribe(x, F) \/ Unsubscribe(x, F)
  \/ Disconnect(x)

Answered(r) == onPublishGranted(r) \/ onSubscribeGranted(r) \/ onRefused(r)

Other == \E m \in MsgIds, c \in ChanIds, st \in Subtopics, ct \in Types : OtherPublish(m, c, st, ct)

Handle == \E i \in Instances, b \in bus : natsMessage(i, b)

Next ==
  \/ \E x \in Clients : Connecting(x) \/ Using(x)
  \/ \E r \in calls : Answered(r)
  \/ Other \/ Handle
  \/ \E p \in outbox : Emit(p)
  \/ \E i \in Instances : Crash(i)
  \/ Grow

Spec == Init /\ [][Next]_vars

\* NATS hands a message to some member of the queue group, and aedes goes on with
\* what it has accepted; nothing is assumed of the clients and of things.
FairSpec ==
  /\ Spec
  /\ WF_vars(\E i \in Instances, b \in bus : natsMessage(i, b))
  /\ WF_vars(\E p \in outbox : Emit(p))
-----------------------------------------------------------------------------
States == {"new", "identify", "left", "accepted", "up", "closed", "gone"}

Requests == [kind : {"publish", "subscribe"}, from : Clients, id : MsgIds \cup {None},
             token : Keys \cup {None}, chan : Seq(Seq(STRING)),
             topic : Topics \cup Filters, live : BOOLEAN]

Messages == [id : MsgIds, protocol : {"mqtt", "other"}, publisher : ThingIds \cup {None},
             channel : ChanIds, topic : Seq(STRING), subtopic : Seq(Seq(STRING)),
             contentType : Seq(STRING), by : Clients \cup {None}, live : BOOLEAN]

Packets == [inst : Instances, id : MsgIds, topic : Seq(Seq(STRING))]

\* Types of the state of the adapters.
TypeOK ==
  /\ wasKey \subseteq Keys \X ThingIds /\ wasConn \subseteq ChanIds \X ThingIds
  /\ state \in [Clients -> States] /\ inst \in [Clients -> Instances \cup {None}]
  /\ cred \in [Clients -> Keys \cup {None}]
  /\ client \in [Clients -> [thingId : ThingIds \cup {None}, password : Keys \cup {None}]]
  /\ subs \in [Clients -> SUBSET Filters] /\ calls \subseteq Requests
  /\ bus \subseteq Messages /\ out \subseteq Messages
  /\ outbox \subseteq Packets /\ got \in [Clients -> SUBSET Packets]
  /\ stream \in [ThingIds -> [connect : Nat, disconnect : Nat]]
  /\ used \subseteq MsgIds /\ lost \subseteq MsgIds /\ dups \subseteq Clients \X MsgIds
  /\ unsent \in BOOLEAN

\* A connection receives only packets of channels that its key had access to,
\* whatever the filters it asked for and the order of the answers: the channel
\* that authorizeSubscribe asks things about is the only one a filter matches.
DeliveryWasAuthorised ==
  \A x \in Clients : \A p \in got[x] :
    \E c \in ChanIds, t \in ThingIds : p.topic[2] = <<c>> /\ MayAccess(cred[x], c, t)

\* What an adapter publishes to NATS was asked for while the client was
\* connected, names as publisher a thing the client's key belonged to, and goes
\* to a channel the key had access to: onAuthorize runs after the client may
\* have gone, and takes the publisher from the connection, not from the answer.
PublishedWasAuthorised ==
  \A b \in out :
    /\ b.live /\ MayIdentify(cred[b.by], b.publisher)
    /\ \E t \in ThingIds : MayAccess(cred[b.by], b.channel, t)

\* No connection receives a message twice, over all instances, NATS and the
\* emitter together: what came over MQTT does not come back from NATS.
DeliveredOnce == dups = {}

Present(t) == {x \in Clients : state[x] \in {"accepted", "up"} /\ client[x].thingId = t}

\* A reader of the event stream who counts connects and disconnects never takes
\* a connected thing for a disconnected one, as long as no event was dropped,
\* also when the thing has several connections, to several instances.
StreamKnowsConnected ==
  ~unsent => \A t \in ThingIds :
    stream[t].connect >= stream[t].disconnect + Cardinality(Present(t))

\* The topic of a message from another adapter, with all its elements or only
\* the first ones, with or without its type, stands for the same channel,
\* subtopic and content type when a client publishes to it.  This is so only for
\* plain subtopics and types: parseTopic reads another channel from a subtopic
\* with an element that begins with `control'; a type with `_' or `-', or with a
\* second `/' or `+', comes back changed; one with a dot is taken apart; and
\* elements with `*' or `>' may be refused.
TopicReadsBack ==
  \A b \in bus : b.protocol # "mqtt" /\ PlainSubtopic(b.subtopic) /\ PlainType(b.contentType) =>
    \A n \in 0..Len(b.subtopic), ct \in {b.contentType, <<>>} :
      LET st == SubSeq(b.subtopic, 1, n)
          L == TopicOf(b.channel, st, ct)
      IN  /\ parseTopic(L) = << <<b.channel>> >> /\ ~InvalidSubtopic(L)
          /\ Subtopic(Elements(L)) = st /\ ContentType(Elements(L)) = ct

\* A message of another adapter reaches every subscriber that stays, unless a
\* crash takes it.
OtherDelivered ==
  \A x \in Clients, m \in MsgIds :
    (\E b \in bus : b.id = m /\ b.protocol # "mqtt" /\ Listening(x, Packet(inst[x], b).topic))
      ~> (m \in Ids(got[x]) \/ state[x] # "up" \/ subs[x] = {} \/ m \in lost)
=============================================================================
