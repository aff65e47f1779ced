# TLA+ models of the ADO/Mainflux backend

The repository is a fork of Mainflux, an IoT platform: Go services around
PostgreSQL, Redis and NATS, protocol adapters, storage writers and readers, and
a few scripts of the fork (`user-control`, `dns`). This directory holds
models of the parts that keep state and run concurrently, the configurations
that check them with TLC, and proofs of their main invariants for TLAPS.
Paths below are relative to the root of the repository.

    tlc -workers 2 -config things_race.cfg MCThings    # a run
    tlapm ThingsProofs.tla                             # the proofs of a module

`PROJECT.json` has, for each definition, the source lines it models; for each
run, its properties; the hazards the properties are for; and the findings.

## 1. Inventory

| part | state | operations | talks to |
|---|---|---|---|
| things (`things/`) | PostgreSQL tables things, channels, connections; Redis thing cache (two keys per thing) and channel cache (a set per channel) | create, update, remove things and channels, connect, disconnect, update key; CanAccessByKey, CanAccessByID, Identify | every adapter asks it over gRPC; authn identifies its callers |
| event sourcing (`things/redis/streams.go`) | Redis stream `mainflux.things`, about 1000 entries | one XADD per change, after the change | consumers in bootstrap, lora, opcua |
| bootstrap (`bootstrap/`) | tables configs, channels, connections, unknown_configs | Add, Update, UpdateCert, UpdateConnections, Remove, Bootstrap, ChangeState, event handlers | calls things through the SDK, consumes its stream |
| authn (`authn/`) | table keys; signed tokens in clients' hands; the clock | Issue, Revoke, Retrieve, Identify | called by all services |
| users (`users/`) | table users | Register, Login, UserInfo, UpdateUser, GenerateResetToken, ResetPassword, ChangePassword | authn, SMTP |
| CoAP adapter (`coap/`) | map of observers, their channels, flags and goroutines, NATS subscriptions | observe, cancel, ping, acknowledge, publish | things, NATS |
| WebSocket adapter (`ws/`) | a Channel per connection, its mutex, three goroutines, a NATS subscription | handshake, read, write, close | things, NATS |
| LoRa adapter (`lora/`) | route maps in Redis, the delivered batch of events | event handlers, Publish | things' stream, LoRa server over MQTT, NATS |
| OPC-UA adapter (`opcua/`) | route maps, connection map, server subscriptions | as LoRa, and connect, disconnect, Subscribe, Browse | things' stream, OPC-UA servers, NATS |
| HTTP adapter (`http/`) | none | publish | things, NATS |
| MQTT adapter (`mqtt/aedes`) | per instance: client objects of the broker, subscriptions, calls in flight | authenticate, authorize publish and subscribe, forward both ways, events of connections | things, NATS queue group, emitter and event stream in Redis |
| MQTT adapter (`mqtt/verne`) | the broker's | hooks with the same duties | things, NATS, Redis stream |
| TLS gate (`docker/ssl/authorization.js`) | one global per session | read the CONNECT packet and the certificate's subject, choose the Authorization header | nginx before MQTT, HTTP and WebSocket |
| writers, transformer (`writers/`, `transformers/senml`) | the message stores | decode, normalise and store a message | NATS, four databases |
| readers (`readers/`) | none | paged queries | the stores, things |
| user-control (`user-control/`) | Grafana's organisations, users, data sources, dashboards; the admin's current organisation | bootstrap of an organisation, update of dashboards, alarms | Mainflux and Grafana over HTTP |
| Grafana branding (`docker/grafana/branding`) | none | constant markup | |
| dns, cli, tools, sdk, cmd, docker, k8s | none of their own | scripts, wrappers, wiring | |

What is hard in it:

- **things**: a request is several SQL statements and Redis commands without a
  transaction around them; errors of Redis are ignored; cache entries have no
  expiry. Correct means: tables consistent, keys unique, no access across
  tenants, no access that was never given, and caches that follow the tables.
- **bootstrap**: it mirrors state of things that it changes by calls that can
  fail half-way and learns about by events that can be lost, late or reordered.
  Correct means: rows consistent, active configs really connected, configs of
  removed things gone.
- **authn, users**: keys are revoked and expire while calls with them are under
  way; a check and the write it authorises are different statements.
- **coap, ws**: several goroutines per client end each other over channels,
  flags and a mutex; a send on a closed channel or a second close panics and
  ends the process for all clients; a goroutine that does not end leaks.
- **lora, opcua**: route maps written key by key from batches of events, and
  read meanwhile by messages.
- **mqtt/aedes**: authorization is asynchronous, so that answers come back in
  any order and after the client has gone; a message goes through NATS and an
  emitter that all instances share, and must arrive once and only where the
  subscriber's key had access.
- **TLS gate**: a hand-written parser of lengths and flags decides from the
  first chunk of a connection. Correct means: nobody passes without the
  certificate for the password, and nobody who has it is turned away. The code
  achieves this for the lengths it reads right, and not for the others.
- **user-control**: worker processes act on the admin's current organisation,
  which is one value in Grafana, find organisations by a part of their name, do
  not look at most answers, and read a dashboard, change it and write it back.

`PROJECT.json` lists 40 hazards at their lines, with the properties for each.

## 2. Modules

| module | models | state and actions |
|---|---|---|
| `ThingsDB` | `things/postgres` | Tables as sets and functions. One operator per statement or transaction; its guard is what the constraints and the WHERE clause demand. |
| `AccessLog` | what adapters may rely on | The relations key–thing and channel–thing as far as they ever held. |
| `Access` | the things service as adapters see it | Abstract specification: a granted answer rests on the relations, and stays until it is taken or lost. `Things` implements it, with its granted requests as the answers. |
| `Things` | `things/service.go`, `things/redis` caches | `keyId`, `idKey`, `chanSet` are the Redis keys. A request `p` goes from label to label (`pc`, `req`), one SQL statement or Redis command per step. `Crash` drops the requests under way. `wasKey`, `wasConn` are history variables. |
| `ThingsEvents` | `things/redis/streams.go` | `out[p]`: events a request still has to add. `Emit` is an XADD: it may be lost, and trims the stream. |
| `Bootstrap` | `bootstrap/service.go`, `bootstrap/postgres`, `bootstrap/redis`, the SDK calls | Composes with `ThingsEvents`: an SDK call is a request to the things service, which may fail before or after its effect. The consumer handles a batch; `cleaning` is the time between the two statements of a handler. `lost` and `left` are histories: whether an event was lost, and the channels that a failed or missing cleanup left. |
| `Authn` | `authn/` | `tokens` are the JWTs handed out, `rows` the table. Identify of an API key is a read and, on expiry, a delete. |
| `Accounts` | `users/` | Composes with `Authn`: Identify takes the steps it has there. |
| `MqttTopic` | the topic conversions of `mqtt/aedes/mqtt.js` | Topics as sequences of levels: channel of a topic, subtopic and content type, and the way back. |
| `Mqtt` | `mqtt/aedes/mqtt.js` | Over `AccessLog`, in several instances. One action per handler; `calls` are the requests to things in flight with what their callbacks captured; `bus`, `outbox` are NATS and the emitter. `got`, `out`, `dups`, `lost` are histories. |
| `ConnectPacket` | `calcLen`, `parsePackage`, `parseCert` | The parser over bytes, beside MQTT's own layout of the packet. |
| `Gate` | `authenticate`, `setKey` of `docker/ssl/authorization.js` | A session is an MQTT connection, of which a first chunk arrives, or an HTTP request. |
| `UserControl` | `user-control/` | A worker goes from call to call of Grafana's API; `cur` is the shared current organisation. Grafana may refuse a call whose answer the code only prints. `clean` and `exposed` are histories: whether a request was disturbed, and which organisations it may have been mistaken for. |
| `Coap` | `coap/` observers | A variable per goroutine of an observer, one for the callback at its send. A step is what lies between two locks, channel operations or sleeps. |
| `Ws` | `ws/` | The three goroutines, the callback and the mutex of a connection. |
| `EventLoop` | the `Subscribe` loop of `lora/redis` (and of `opcua/redis`) | Stream, batch, read, acknowledge, break. |
| `Lora` | `lora/` | Extends `EventLoop`. `declared` is the entities' metadata, `named` and `spoilt` are histories; `mfx`, `ext` are the Redis keys; Save is two steps; Publish is three. |
| `MC*` | | Symmetry sets, for bootstrap an initial registry, for MQTT and the gate the topics and packets. |
| `*Proofs` | | Inductive invariants and theorems. |

Conventions. A request whose guard fails returns an error and changes nothing,
so the model leaves it out, unless the error itself changes state (an undo, a
broken batch). Definitions that begin "Mutant of" are faulty variants, used only
to see that a property notices them.

### Abstractions

- Names, metadata and payloads are single model values; UUIDs are never reused
  (`owner` is kept after a row is gone, and an id is generated once).
- Bootstrap: `Update` and `UpdateCert` write columns nothing else reads and are
  left out. RetrieveByID makes its two SELECTs in one step. The key column of
  configs is a copy of the thing's key that is returned to the device; of it
  only its UNIQUE constraint matters, by which Save may fail once there is
  another config (`KeyMayClash`). The encryption of the answer is left out.
- Authn: time is in whole seconds, for tokens as for rows; the code compares
  rows by microseconds. A signature holds exactly for tokens handed out.
- Users: a password stands for its hash.
- MQTT: aedes is modelled from its use and its documented behaviour: it submits
  the will before `clientDisconnect`, it hands a packet to the subscribers of
  all instances in one step, and it drops a subscription whose client has gone.
  Retained messages and sessions that outlive a connection are left out. The
  event stream is the number of connects and disconnects of each thing.
- Topics: a level is a sequence of words and of the separators the code looks
  for; `controls` is the word `control` followed by `s`, as the expressions
  match a prefix.
- Gate: fields are strings of any bytes; keys are strings of `KeyLen` bytes. The
  decision is made on the first chunk, as in the code. nginx passes on only
  verified certificates to `setKey`.
- UserControl: an organisation, its user and its datasource have one name. The
  code compares names by substring and takes the first that Grafana lists; the
  relation `Contains` says which names contain which, and any of them may be the
  one found. Lists of members are compared for equality, as in the code.
  Notification channels and preferences, which nothing reads, are left out, as
  are pages that make a single call.
- CoAP: the message exchange of an observer, not publishing over CoAP.
- Lora: the read and the delete of `Remove` are one step, since the consumer is
  the only writer. Events reach the stream in the order of the changes; the
  other order is in `Bootstrap`.
- The consumer groups start at the beginning of the models; entries that were
  pending before are never read again, as the loops ask only for `>`.

## 3. Runs

Passing runs:

| run | shows |
|---|---|
| `things_race` | Two requests, two tenants, two things that share a channel or a key in turn, Redis failures, crashes. Tables stay consistent (`ReferentialIntegrity`), neither a cache nor an answer joins two tenants (`TenantIsolation`), a granted access was authorised by rows that existed at some moment (`GrantWasAuthorised`), and the service implements `Access` (`ImplementsAccess`). |
| `things_seq` | Without overlap and with a healthy Redis the channel cache follows the table (`ChanCacheCoherent`), for batches of two and keys that change as well. |
| `boot_race` | Two bootstrap requests, a direct caller of the things service and the consumer at every interleaving, with lost events, a full stream, failing statements, commits and cleanups, crashes and the recursion of `UpdateChannelHandler`: `ConfigIntegrity` in spite of stale reads, and `NoDanglingChannels`: a channel that no config uses is left only by a cleanup that failed or never ran. |
| `boot_seq` | Requests that start in a quiet system, direct calls between them, SDK calls that fail before or after their effect, over two channels, with a stream that may overflow: `NoDanglingChannels`, `ActiveIsConnected`, and under fairness `RemovedThingLosesConfig`, the latter two unless an event was lost. |
| `accounts` | Two requests to the users service, of two users, with the Identify calls they make, against issue, revocation and removal of keys by authn's other clients and time: `RevokedStaysOut`, `ExpiredNotAccepted`, `OnlyOwnerRevokes`. |
| `coap` | Two observers on one id, one with a client that never acknowledges: `MapHoldsLive` (no second close), `EveryObserverPinged`, and under fairness `CancelledEnds` and `SilentIsDropped`. |
| `ws` | `NoSendOnClosed`, and a close frame ends all goroutines and the subscription (`CloseEndsAll`). |
| `lora` | Takeovers of ids, stray events, broken batches, crashes, messages in between: `ForwardedWasDeclared`, `LiveIsRouted`. |
| `mqtt` | Two connections, on one or two instances, with keys, filters and topics of every form, wills, answers out of order, crashes: a client receives and publishes only what its key had access to (`DeliveryWasAuthorised`, `PublishedWasAuthorised`), nothing twice (`DeliveredOnce`), the event stream never takes a connected thing for a disconnected one (`StreamKnowsConnected`), the topics of plain subtopics and types convert back (`TopicReadsBack`, with others among the messages), and under fairness other adapters' messages arrive (`OtherDelivered`). |
| `gate` | CONNECT packets at the boundaries of every length, with keys in the other fields too, cut anywhere, and HTTP requests with all combinations of credentials: for the lengths the parser gets right `AllowedIsCertified` and `HolderIsAdmitted`, for HTTP `UpstreamKeyIsCertified`. |
| `uc` | Two workers, two organisations of which one has the other's name in its own, three requests that abort anywhere, one refused call that is passed over: `SuccessIsProvisioned`, `DatasourcesAreOwn`, `AlarmsAreKept`. |

One run ends in a counterexample, to a sentence of the code's own comments:

| run | what happens |
|---|---|
| `gate_password` | "This method extracts Password field": for a field of 256 bytes and more whose low length byte is 2 to 15, `calcLen` loses a digit, and a remaining length with a byte of just the continuation bit ends the loop too early. parsePackage then returns other bytes of the packet, and what authenticate compares with the certificate is not the password that the broker will read. Its decision then says nothing of that password: `AllowedIsCertified` and `HolderIsAdmitted` hold of the other packets only, which is what `WellSized` in them says. |

Other behaviour that the models have, as the code does, and that a reader of the
code may not expect. It is the reason for provisos in the properties:

- `things`: UpdateKey leaves the old key in the cache, and thingCache.Remove
  deletes only the key cached last. Disconnect clears the cache first, so a
  CanAccessByKey that has read the row fills it again. Hence the `was` in
  `GrantWasAuthorised`, and one request at a time in `ChanCacheCoherent`.
- `things`: RemoveThing leaves the thing in the channel sets, so that
  CanAccessByID still says yes; `Access` promises only what there was.
- `things`: RemoveThing of another user's thing deletes nothing and still
  publishes `thing.remove`; consumers believe it (`spoilt` in `Lora`).
- `bootstrap`: `thing()` at `bootstrap/service.go:369` deletes a thing that the
  request named when it cannot be fetched, and keeps one that Add has just
  created: the test on the id is the reverse of the one in Add.
- `bootstrap`: the UPDATE of DisconnectThing (`bootstrap/postgres/configs.go:459`)
  has no condition on the thing and makes every config Inactive, where
  `bootstrap/configs.go:106` speaks of the config of the thing.
  `ActiveIsConnected` does not notice, as it asks only that no config is Active
  wrongly.
- `bootstrap`: a cleanupQuery that fails is only warned about, and the channels
  stay until the next one (`left`); a commit of Save or UpdateConnections that
  fails is answered like a success.
- `bootstrap`: SaveUnknown of a device whose config is saved between its two
  statements (`bootstrap/service.go:266`) leaves a configured device in the list
  of unknown ones. No property is stated of that list.
- `bootstrap`: UpdateConnections with no channels succeeds and keeps the old
  ones (`bootstrap/postgres/configs.go:547`).
- `bootstrap`: `UpdateChannelHandler` of `bootstrap/redis/producer/streams.go:163`
  calls itself; the process ends with the batch in hand. `boot_seq` leaves
  updates of channels out of `ClientOps`, since a remove event in that batch is
  lost with it, and the config then stays.
- `authn`: a key issued without a duration has the zero time as expiry, which
  Expired takes for past: it is removed at its first use, where
  `authn/README.md:11` says "If no time is set, the key will never expire".
  `OnlyOwnerRevokes` names this case (`NoTime`) beside the key whose time has
  passed (`TimePassed`).
- `users`: ChangePassword checks the old password and writes the new one in
  different statements (`users/service.go:199`), so it overwrites a password that
  a reset has set in between.
- `users`: authn parses the e-mail that GenerateResetToken sends as a token, so
  no mail is sent for a user whose address is no token.
- `coap`: cancelling closes Messages while the NATS callback may be sending on
  it, which ends the process; and the ping goroutine of a replaced observer
  unsubscribes by id and so removes its successor.
- `ws`: after a read error that is no close frame the subscription and two
  goroutines stay. `CloseEndsAll` speaks of close frames.
- `mqtt`: the expression with `control` is tried first and its group is lazy, so
  that in a topic whose subtopic begins with `control` the level `messages`
  becomes a part of the channel id (`mqtt/aedes/mqtt.js:165`); things knows no
  such channel and refuses. A type with a second `+` or `/`, or with an
  underscore or hyphen of its own, does not convert back: only the first
  occurrence is replaced. `TopicReadsBack` speaks of the others.
- `mqtt`: a client that leaves while it is identified has a connect event and no
  disconnect event; hence the inequality in `StreamKnowsConnected`.
- `gate`: a first chunk that ends inside a longer password may end where a key
  does, and passes; the broker then reads a password that is no key.
  `AllowedIsCertified` speaks of passwords that are keys, or none.
- `gate`: of packets that are not `WellSized` nothing is claimed, see the run
  `gate_password`.
- `gate`: data that does not begin with a CONNECT packet is let through;
  `AllowedIsCertified` speaks of sessions that sent one.
- `user-control`: when requests overlap, or a call is refused and its answer not
  looked at, the dashboards and datasource of one organisation may land in
  another; hence `clean` and `exposed`.
- `user-control`: an organisation whose name is a part of another's is taken for
  it (`user-control/grafana_interactions.py:30`, `:58`): it is not created, and
  its parts go to the other one, also when requests come one by one. Hence
  `OnlyMatch` and `Contains` in the properties.
- `lora`: an event that fails drops the rest of its batch (`spoilt` again), and
  the key of an EUI a thing had before an update survives its removal.

### Bounds

| bound | value | why it is enough |
|---|---|---|
| requests at a time (`Procs`, `BProcs`) | 2 | The races are between one that reads and one that writes. The proofs need no bound. |
| things, channels, keys, users | 1 or 2 | Two of a kind let one be taken for the other: two tenants, two things for a key. `things_race` has one key, which passes from thing to thing; `things_seq` has two, between which UpdateKey changes. |
| `MaxBatch` | 2 in `things_seq` | A batch fails as a whole on its second member. |
| `StreamLen`, `BatchSize`, `MaxStream` | 1 or 2 (1000 and 100 in the code) | One entry over the limit; an entry behind one that fails. |
| `MaxTime`, durations | 3, {0, 1} | Before, at and after expiry; 0 is "not given". |
| `MaxTokens` | 3, logins of the users service included | A login and the API key it made, and a login of another user. |
| `Users`, `Passwords`, `Metas` in `accounts` | 2, 1, 1 | A user with a token and the other one's key. Passwords and metadata decide no property. |
| `MsgIds`, `Keys`, `ThingIds`, `ChanIds` in `mqtt` | 1 | The message may be anyone's, and a connection without a key is the one that must not receive it; access is learnt step by step, so that refused requests occur. Messages for another channel are what `DeliversOnlyAuthorised` is proved for. |
| `MCPackets`, `MCChunks` | see `MCGate` | Lengths on both sides of each boundary in the parser: 128, 256 and 16384 bytes, low bytes 0, 1, 2, 15 and 16. The proofs need no bound. |
| `NumDash`, `MaxRequests`, `MaxRefusals` | 2 (5 in the code), 3, 1 | One dashboard with alarms and one without; a request may follow two that overlapped, were cut off or passed over a refusal. |
| `MaxRetransmit` | 2 (4 in the code) | A first and a last ping. |
| `ClientOps` | the calls a run is about | All of them occur in some run. |
| `Serial` | TRUE in `boot_seq` | Separates what holds only when requests do not overlap from what always holds. |

`RedisFaults`, `EsFaults`, `SdkFaults`, `DbFaults`, `Crashes`, `NatsFails`,
`ReadFails` switch failures on.

Symmetry is used only in runs without liveness properties.

### Fairness

- `Bootstrap`: weak fairness of an accepted request's steps, of the XADDs of a
  things request and of the consumer: goroutines without a blocking partner.
  The arrival of requests is not fair.
- `Coap`: weak fairness of each goroutine: tickers fire and sleeps end. Clients
  and NATS owe nothing, and a client in `Silent` never acknowledges.
- `Mqtt`: weak fairness of the queue group and of the broker: NATS hands a
  message to some live member, and a callback that is due runs. Clients, things
  and crashes owe nothing.
- `Ws`: weak fairness of goroutines, strong fairness of Lock in Close, since Go's
  mutex hands over to a waiter that has waited for a millisecond. It also
  assumes that a write to the socket ends; the code sets no deadline, and a
  client that reads nothing holds up its own connection.

The runs `ws`, `mqtt`, `gate` and `uc` do not check for deadlock: all connections
and sessions may have ended, or all requests within the bound been served.

## 4. Proofs

Everything below holds for all values of the constants that meet the ASSUMEs of
the modules, so for any number of users, things, requests, observers and
connections.

**`ThingsProofs`** proves `TypeOK`, `ReferentialIntegrity`,
`TenantIsolation` and `GrantWasAuthorised`. Tenant isolation is not inductive:
the channel cache is filled from what a request read some steps ago, when the
row may be gone. The invariant goes through the histories: rows are remembered
(`HistInv`), caches hold only remembered pairs (`CacheInv`), a request past its
read knows a remembered pair (`ReqInv`), and a remembered pair is of one
tenant, because an owner never changes and Connect's foreign keys held when
the row was made. One lemma says that what a request knows survives the steps
of others, then there is one step per action. `Implements` is the refinement
`Spec => ImplementsAccess`: under the invariant, a step that grants a request is
a `Grant` of `Access`, an answer a `Take`, a crash a `Restart`, a write of the
tables a `Grow`, and every other step stutters.

`CacheCoherent` is `ChanCacheCoherent` under `OneAtATime`: at most one request
and a healthy Redis, as in `things_seq`. Its invariant adds what the only
request may rely on (`LoneOK`): a connection it has read is still there when it
fills the cache, and the entry of a row it is about to delete is gone already.

**`AccountsProofs`** proves first, of `Authn` alone, `AuthnTypeOK`,
`RevokedStaysOut`, `ExpiredNotAccepted` and the action property
`OnlyOwnerRevokes`: a key goes by a login of its issuer, or by the Identify call
of a holder when its time has passed or it has none. The invariant adds that a
token's row has the token's expiry (`KeysMatch`) and that the keys gone when a
call arrived are gone still (`CallsOK`), which rests on `Onward`: no step gives
a row to an id that was handed out before.

It then proves of the composition of users and authn `TypeOK` and `UsesAuthn`:
every step of `Accounts` is a step of `Authn` or leaves it alone, so
`Spec => AuthnSpec`. The properties of authn carry over without a second proof
(`KeysStaySafe`). The invariant adds to that of `Authn` what a request knows at
each label (`JobOK`).

**`CoapProofs`** proves `TypeOK`, `MapHoldsLive` and `EveryObserverPinged`. The
latter needs the flag's meaning: outside a ping, `expired` is set only by a
cancellation (`FlagsOK`), so that a ping goroutine which ends without
unsubscribing belongs to an observer that has left the map (`InMap`).

**`EdgeProofs`** is about `Gate` and `Ws`, the two parts a connection meets
first. (It extends both, which is why Gate's names begin with `Gate`.)

For the gate it proves `AllowedIsCertified`, `HolderIsAdmitted` and
`UpstreamKeyIsCertified`, for every CONNECT packet that MQTT allows, with any
contents of its fields, and every place where the first chunk may end; the first
two speak of the packets that are `WellSized`. Both follow the parser: for such
a packet the offset after each turn of the loop is where the field begins, or
the data has run out (`Stands`), and in a chunk that ends inside the password
what is left of it is shorter than a key. The lengths are needed: nothing is
assumed of the bytes in the fields, so that where the parser reads a length wrong
nothing follows. The invariant (`GateInv`) says of a decided session that its
state is what the parser's result demands.

For WebSocket connections it proves `TypeOK`, with who holds the mutex, and
`NoSendOnClosed`. The mutex alone does not give it: Close returns it with the
channel closed, and `CloseOrder` says that the flag is then set.

**`BootstrapProofs`** proves `TypeOK`, `ConfigIntegrity` and
`NoDanglingChannels` for every kind of failure and any overlap of requests.
Owners never change (`OwnersKept`), so what a request has
learnt of the owners of its thing and of the channels it fetched still holds
when it writes (`JobOK`). What it has read of bootstrap's own tables may be
stale; the UNIQUE and foreign key constraints (`ChannelsFit`, `SaveOK`) make up
for it, which is where the proof uses them. Channels left behind are only those
whose cleanup is still to come, in a request or in the consumer, or did not come
about (`left`); that Save connects every channel it inserts rests on `JobOK`
again.

`ActiveConfigsAreConnected` is `ActiveIsConnected` when bootstrap requests do not
overlap (`Serial`); the code does not see to that, and when they overlap an
UpdateConnections that has read an inactive config may write a channel that the
ChangeState which activates it does not connect. Everything
else may happen: calls, statements and commits that fail, crashes, a full stream.
A connection that is gone while its config is still active must have an
event under way that will settle it, in what a things request still has to
send, in the stream or in the batch (`ActiveInv`, `Settles`, `Pending`), or the
request that is about to make it (`Connecting`), or an event was `lost`.

`Init` allows any owner and
any registry of things and channels; the runs start from one of these states.

**`LoraProofs`** proves `ForwardedWasDeclared` and `LiveIsRouted`. Stream and
batch together are one queue. Whatever is in the queue, in the Redis keys or in
a message under way was named by some entity's metadata (`Known`,
`RoutesNamed`); that gives the first. For the second, the last entry of an
entity in the queue is the one that sets its route, and without an entry the
route is set (`Routed`). Nobody else can touch it, because nobody else named its
EUI or application.

**`MqttProofs`** proves `PublishedWasAuthorised`, `DeliveryWasAuthorised`,
`DeliveredOnce`, `StreamKnowsConnected`, `TypeOK` and `TopicReadsBack`. A call
to things can be answered after its connection has closed. The invariant
therefore says what a client object holds in each state of its connection
(`ConnOK`) and that a call whose token grants anything was made while the
connection was up (`CallsOK`). That a filter delivers only the channel that was
asked for needs a lemma on the conversions: a filter from which a channel id is
read, and a topic that it matches, agree on that id. It uses `MqttAssumption`: a
channel id is a UUID, so no wildcard. `DeliveredOnce` follows a message through
the places it can be in: with things, in NATS, in the broker, delivered
(`OnceOK`).

`TypeOK` and `TopicReadsBack` need to know what splitting a topic returns, for
topics of any length. `Split` and `Elements` are recursive functions on numbers.
The library's induction theorems cannot be instantiated, but its theorem that a
set of numbers has a minimal element can: a set that holds 0 and with each
number the next holds all (`Counting`), so a function given by a start and a
step exists (`Iteration`), and what it computes follows by `Counting` again: a
level without a dot is one element (`SplitPlain`), levels without dots are the
elements (`ElementsPlain`). `TopicReadsBack` speaks of messages that are
`PlainSubtopic` and `PlainType`. These leave out what the code does not carry
over: an element that begins with `control`, which the expression with `control`
takes for the branch; the element `ct` before another one, which is taken for
the prefix of a type; dots, slashes and wildcards in an element; and in a type
`_` or `-`, which are decoded to `/` and `+`, or a second `/` or `+`, which is
not encoded. The run `mqtt` has messages of both kinds. `Marks` is in
`MqttAssumption` only because the prover does not know that literals are in
`STRING`.

**`UserControlProofs`** proves `SuccessIsProvisioned`, `DatasourcesAreOwn` and
the action property `AlarmsAreKept`, for any relation `Contains` between names
and any number of refused calls. The invariant lists what a bootstrap has
achieved at each of its calls (`Progress`), as long as it is undisturbed and no
name leads it astray (`Sound`). Two requests under way know of each other
(`AloneOK`), so the admin's current organisation is the one such a request has
set, and at its datasource any request is in an organisation that its name finds
or that it is exposed to (`PlaceOK`). For alarms it says that a copy whose version
is current has the alarms that are stored (`FreshOK`).

Assumptions on constants: `None` is no proper value (`NoneAssumption`,
`ExtKeysAssumption`, `MqttAssumption`), ids of things and channels differ, bounds
are positive numbers. They are ASSUMEs of the modules, which TLC evaluates too.
The restrictions in `CacheCoherent` and `ActiveConfigsAreConnected` are
hypotheses of the theorems; `things_seq` and `boot_seq` are instances that meet
them.

Every invariant and every action property of the runs is proved, some under the
restrictions above. Only model-checked are the liveness properties, as fairness
and ENABLED are out of the prover's reach.

## 5. Not modelled

- OPC-UA adapter: the consumer loop it shares with LoRa is `EventLoop`, its
  connections and subscriptions are not modelled.
- HTTP adapter and publishing over CoAP: one authorization call and one publish,
  without state; `Access` is what they rely on.
- VerneMQ plugin: Erlang hooks inside a broker with its own pool and cache.
- Writers, transformer, readers: storage of one message and queries over it.
- The pages of user-control that make a single call, dns, Grafana branding
  (constant markup), cli, SDK wrappers other than those bootstrap uses, tools,
  load tests, deployment files, vendored code.
- Everywhere: reading operations without state, HTTP and gRPC encoding, logging
  and metrics middleware, migrations other than the constraints they define,
  mail formatting.
- The pool of database connections: the transaction that UpdateConnections
  of `bootstrap/postgres/configs.go:297` leaves open when it returns ErrNotFound
  has no effect here, while in the code its locks stay until the connection is
  closed; and the write deadline that `ws` does not set (see Fairness).

## 6. Plan

Done, in this order: `ThingsDB`, `Things` and their proofs; `ThingsEvents`,
`Bootstrap`; `Authn` and its proofs, `Accounts`; `Coap`, `Ws` and their proofs;
`EventLoop`, `Lora`; `Access` and the refinement; `Mqtt`, `Gate`, `UserControl`;
the proofs of `Accounts`, `Lora`, `Mqtt`, `UserControl` and `Bootstrap`, of the
channel cache in `Things`, of `Gate`, of the events of `Bootstrap` and of the
topics of `Mqtt`.

To model next: `Opcua` on `EventLoop`; `Writers` with the senml
transformer as operators checked against a definition of base-value resolution,
and what is stored when one record of a message fails.
