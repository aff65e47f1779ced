-------------------------- MODULE BootstrapProofs ---------------------------
(***************************************************************************)
(* The bootstrap service keeps its tables consistent for any number of     *)
(* requests, direct calls, things, channels and users, with lost events,   *)
(* failing SDK calls, statements and commits, and crashes.  It leaves no   *)
(* channel behind but where a cleanup fails or the process dies before it. *)
(* When its requests do not overlap and no event is lost, the channels of  *)
(* an active config are connected.                                         *)
(*                                                                         *)
(* Owners stay (OwnersKept), so that what a request has read of them, of   *)
(* its thing and of the channels it fetched, is still true when it writes  *)
(* (JobOK); what it has read of the bootstrap tables may be stale, which   *)
(* the constraints of the tables make up for.                              *)
(***************************************************************************)
EXTENDS Bootstrap, SequenceTheorems, TLAPS

\* Events that are sent: an update of a channel only if someone asks for it.
Sent == {e \in Events : e.op = "channel.update" => "updateChannel" \in ClientOps}

EsOK ==
  /\ stream \in Seq(Sent) /\ Len(stream) <= StreamLen
  /\ out \in [Callers -> Seq(Sent)]

\* The bootstrap tables; a config has the credentials of its device.
TablesOK ==
  /\ cfgs \subseteq ThingIds
  /\ state \in [ThingIds -> States]
  /\ ext \in [ThingIds -> (ExtIds \X ExtKeys) \cup {None}]
  /\ \A t \in cfgs : ext[t] \in ExtIds \X ExtKeys
  /\ bchans \subseteq ChanIds
  /\ bconns \subseteq ThingIds \X ChanIds
  /\ unknown \in [ExtIds -> ExtKeys \cup {None}]
  /\ \A cn \in bconns : owner[cn[1]] # None
  /\ ConfigIntegrity

\* What a request at label l with job j has checked; own are the owners.
JobOK(l, j, own) ==
  /\ l \notin {"idle", "cleanup", "saveUnknown"} => j.user \in Users
  /\ l \in {"list", "channels"} => j.op \in {"add", "conns"}
  /\ l \in {"create", "fetch", "save", "undo"} => j.op = "add"
  /\ l = "writeConns" => j.op = "conns"
  /\ j.op = "add" \/ l = "saveUnknown" => j.ext \in ExtIds \X ExtKeys
  /\ j.op = "conns" \/ l = "save" => j.th \in ThingIds /\ own[j.th] = j.user /\ j.user # None
  /\ j.get \subseteq j.miss /\ j.miss \subseteq j.want
  /\ \A c \in j.miss \ j.get : own[c] = j.user /\ j.user # None
  /\ l \notin {"list", "channels"} => j.get = {}

JobsOK ==
  /\ pc \in [BProcs -> Labels] /\ job \in [BProcs -> Jobs]
  /\ \A p \in BProcs : JobOK(pc[p], job[p], owner)

ConsumerOK == batch \in Seq(Sent) /\ cleaning \in BOOLEAN

\* The inductive invariant.
IInv == DBTypeOK /\ EsOK /\ TablesOK /\ JobsOK /\ ConsumerOK

\* An owner, once there, never changes: ids are not reused.
OwnersKept == \A x \in Ids : owner[x] # None => owner'[x] = owner[x]
-----------------------------------------------------------------------------
(* Calls of the things service. *)

\* The statements of the things tables keep their types and the owners.
LEMMA Statements ==
  ASSUME DBTypeOK, NEW u \in Users,
         \/ \E t \in ThingIds, k \in Keys, m \in Metas : SaveThings(u, [x \in {t} |-> k], m)
         \/ \E t \in ThingIds, m \in Metas : UpdateThingRow(u, t, m)
         \/ \E t \in ThingIds : RemoveThingRow(u, t)
         \/ \E t \in ThingIds, k \in Keys : UpdateKeyRow(u, t, k)
         \/ \E c \in ChanIds, m \in Metas : SaveChannels(u, {c}, m) \/ UpdateChannelRow(u, c, m)
         \/ \E c \in ChanIds : RemoveChannelRow(u, c)
         \/ \E c \in ChanIds, t \in ThingIds : ConnectRows(u, {c}, {t}) \/ DisconnectRow(c, t)
  PROVE  DBTypeOK' /\ OwnersKept
<1>1. ASSUME NEW t \in ThingIds, NEW k \in Keys, NEW m \in Metas, SaveThings(u, [x \in {t} |-> k], m)
      PROVE  DBTypeOK' /\ OwnersKept
  BY <1>1 DEF SaveThings, DBTypeOK, OwnersKept, Ids
<1>2. ASSUME NEW t \in ThingIds, NEW m \in Metas, UpdateThingRow(u, t, m)
      PROVE  DBTypeOK' /\ OwnersKept
  BY <1>2 DEF UpdateThingRow, DBTypeOK, OwnersKept, Ids
<1>3. ASSUME NEW t \in ThingIds, RemoveThingRow(u, t)
      PROVE  DBTypeOK' /\ OwnersKept
  BY <1>3 DEF RemoveThingRow, Cascade, dbVars, DBTypeOK, OwnersKept, Ids
<1>4. ASSUME NEW t \in ThingIds, NEW k \in Keys, UpdateKeyRow(u, t, k)
      PROVE  DBTypeOK' /\ OwnersKept
  BY <1>4 DEF UpdateKeyRow, DBTypeOK, OwnersKept, Ids
<1>5. ASSUME NEW c \in ChanIds, NEW m \in Metas, SaveChannels(u, {c}, m)
      PROVE  DBTypeOK' /\ OwnersKept
  BY <1>5 DEF SaveChannels, DBTypeOK, OwnersKept, Ids
<1>6. ASSUME NEW c \in ChanIds, NEW m \in Metas, UpdateChannelRow(u, c, m)
      PROVE  DBTypeOK' /\ OwnersKept
  BY <1>6 DEF UpdateChannelRow, DBTypeOK, OwnersKept, Ids
<1>7. ASSUME NEW c \in ChanIds, RemoveChannelRow(u, c)
      PROVE  DBTypeOK' /\ OwnersKept
  BY <1>7 DEF RemoveChannelRow, Cascade, dbVars, DBTypeOK, OwnersKept, Ids
<1>8. ASSUME NEW c \in ChanIds, NEW t \in ThingIds, ConnectRows(u, {c}, {t}) \/ DisconnectRow(c, t)
      PROVE  DBTypeOK' /\ OwnersKept
  BY <1>8 DEF ConnectRows, DisconnectRow, DBTypeOK, OwnersKept
<1>. QED
  BY <1>1, <1>2, <1>3, <1>4, <1>5, <1>6, <1>7, <1>8

\* The events of a request wait with its goroutine.
LEMMA PublishOK ==
  ASSUME EsOK, NEW p \in Callers, NEW evs \in Seq(Sent), Publish(p, evs)
  PROVE  EsOK'
BY DEF EsOK, Publish

\* The only pair of a request makes the only event.
LEMMA ConnectEventsOne ==
  ASSUME NEW c \in ChanIds, NEW t \in ThingIds
  PROVE  ConnectEvents(<<c>>, <<t>>) = <<ConnEvent("thing.connect", c, t)>>
<1>1. Len(<<c>>) = 1 /\ Len(<<t>>) = 1 /\ 1..(1 * 1) = {1}
  OBVIOUS
<1>2. (1 - 1) \div 1 = 0 /\ (1 - 1) % 1 = 0
  OBVIOUS
<1>. QED
  BY <1>1, <1>2 DEF ConnectEvents

\* Sequences with one element, and events made of them.
LEMMA One ==
  ASSUME NEW x
  PROVE  /\ ToSet(<<x>>) = {x} /\ DOMAIN <<x>> = 1..1 /\ <<x>>[1] = x
         /\ x \in Sent => <<x>> \in Seq(Sent)
BY DEF ToSet

\* A function with domain 1..1 is a sequence.
LEMMA OneEvent ==
  ASSUME NEW f, f \in [1..1 -> Sent]
  PROVE  f \in Seq(Sent)
BY SeqDef

\* The events of the things service can be sent, an update of a channel only
\* when someone asks for it.
LEMMA EventsSent ==
  /\ \A t \in ThingIds \cup {None} :
       /\ ThingEvent("thing.create", t) \in Sent /\ ThingEvent("thing.update", t) \in Sent
       /\ ThingEvent("thing.remove", t) \in Sent
  /\ \A c \in ChanIds :
       /\ ChanEvent("channel.create", c) \in Sent /\ ChanEvent("channel.remove", c) \in Sent
       /\ "updateChannel" \in ClientOps => ChanEvent("channel.update", c) \in Sent
       /\ \A t \in ThingIds : /\ ConnEvent("thing.connect", c, t) \in Sent
                              /\ ConnEvent("thing.disconnect", c, t) \in Sent
BY DEF Sent, Events, ThingEvent, ChanEvent, ConnEvent, Ops

\* A request that publishes one event.
LEMMA PublishOne ==
  ASSUME EsOK, NEW p \in Callers, NEW e \in Sent, Publish(p, <<e>>)
  PROVE  EsOK'
<1>1. <<e>> \in Seq(Sent)
  BY One, Zenon
<1>. QED
  BY <1>1, PublishOK

\* What an SDK call, or a direct call, may ask the things service for.
LEMMA CallOK ==
  ASSUME DBTypeOK, EsOK, NEW p \in Callers, NEW u \in Users,
         \/ \E t \in ThingIds, k \in Keys, m \in Metas : EsCreateThings(p, u, <<t>>, [x \in {t} |-> k], m)
         \/ \E t \in ThingIds, m \in Metas : EsUpdateThing(p, u, t, m)
         \/ \E t \in ThingIds \cup {None} : EsRemoveThing(p, u, t)
         \/ \E t \in ThingIds, k \in Keys : EsUpdateKey(p, u, t, k)
         \/ \E c \in ChanIds : EsRemoveChannel(p, u, c)
         \/ \E c \in ChanIds, m \in Metas : EsCreateChannels(p, u, <<c>>, m)
         \/ \E c \in ChanIds, m \in Metas : "updateChannel" \in ClientOps /\ EsUpdateChannel(p, u, c, m)
         \/ \E c \in ChanIds, t \in ThingIds : EsConnect(p, u, <<c>>, <<t>>) \/ EsDisconnect(p, u, c, t)
  PROVE  DBTypeOK' /\ EsOK' /\ OwnersKept
<1>1. ASSUME NEW t \in ThingIds, NEW k \in Keys, NEW m \in Metas, EsCreateThings(p, u, <<t>>, [x \in {t} |-> k], m)
      PROVE  DBTypeOK' /\ EsOK' /\ OwnersKept
  <2> DEFINE evs == [i \in DOMAIN <<t>> |-> ThingEvent("thing.create", <<t>>[i])]
  <2>1. DOMAIN <<t>> = 1..1 /\ <<t>>[1] = t
    OBVIOUS
  <2>2. \A i \in 1..1 : <<t>>[i] = t
    OBVIOUS
  <2>3. evs \in [1..1 -> Sent]
    BY <2>1, <2>2, EventsSent
  <2>4. evs \in Seq(Sent)
    BY <2>3, OneEvent, Zenon
  <2>5. EsOK'
    BY <1>1, <2>4, PublishOK DEF EsCreateThings
  <2>6. DBTypeOK' /\ OwnersKept
    BY <1>1, Statements DEF EsCreateThings
  <2>. QED
    BY <2>5, <2>6
<1>2. ASSUME NEW t \in ThingIds, NEW m \in Metas, EsUpdateThing(p, u, t, m)
      PROVE  DBTypeOK' /\ EsOK' /\ OwnersKept
  <2>1. EsOK'
    BY <1>2, PublishOne, EventsSent DEF EsUpdateThing
  <2>2. DBTypeOK' /\ OwnersKept
    BY <1>2, Statements DEF EsUpdateThing
  <2>. QED
    BY <2>1, <2>2
<1>3. ASSUME NEW t \in ThingIds \cup {None}, EsRemoveThing(p, u, t)
      PROVE  DBTypeOK' /\ EsOK' /\ OwnersKept
  <2>1. EsOK'
    BY <1>3, PublishOne, EventsSent DEF EsRemoveThing
  <2>2. CASE t \in ThingIds
    <3>1. DBTypeOK' /\ OwnersKept
      BY <1>3, <2>2, Statements DEF EsRemoveThing
    <3>. QED
      BY <2>1, <3>1
  <2>3. CASE t = None
    <3>1. UNCHANGED dbVars
      BY <1>3, <2>3, NoneAssumption DEF EsRemoveThing, RemoveThingRow, DBTypeOK, Ids
    <3>2. DBTypeOK' /\ OwnersKept
      BY <3>1 DEF DBTypeOK, OwnersKept, dbVars
    <3>. QED
      BY <2>1, <3>2
  <2>. QED
    BY <2>2, <2>3
<1>4. ASSUME NEW t \in ThingIds, NEW k \in Keys, EsUpdateKey(p, u, t, k)
      PROVE  DBTypeOK' /\ EsOK' /\ OwnersKept
  BY <1>4, EmptySeq, PublishOK, Statements DEF EsUpdateKey
<1>5. ASSUME NEW c \in ChanIds, NEW m \in Metas, EsCreateChannels(p, u, <<c>>, m)
      PROVE  DBTypeOK' /\ EsOK' /\ OwnersKept
  <2> DEFINE evs == [i \in DOMAIN <<c>> |-> ChanEvent("channel.create", <<c>>[i])]
  <2>1. DOMAIN <<c>> = 1..1 /\ ToSet(<<c>>) = {c}
    BY One
  <2>2. \A i \in 1..1 : <<c>>[i] = c
    OBVIOUS
  <2>3. evs \in [1..1 -> Sent]
    BY <2>1, <2>2, EventsSent
  <2>4. evs \in Seq(Sent)
    BY <2>3, OneEvent, Zenon
  <2>5. EsOK'
    BY <1>5, <2>4, PublishOK DEF EsCreateChannels
  <2>6. DBTypeOK' /\ OwnersKept
    BY <1>5, <2>1, Statements DEF EsCreateChannels
  <2>. QED
    BY <2>5, <2>6
<1>6. ASSUME NEW c \in ChanIds, EsRemoveChannel(p, u, c)
      PROVE  DBTypeOK' /\ EsOK' /\ OwnersKept
  <2>1. EsOK'
    BY <1>6, PublishOne, EventsSent DEF EsRemoveChannel
  <2>2. DBTypeOK' /\ OwnersKept
    BY <1>6, Statements DEF EsRemoveChannel
  <2>. QED
    BY <2>1, <2>2
<1>7. ASSUME NEW c \in ChanIds, NEW m \in Metas, "updateChannel" \in ClientOps, EsUpdateChannel(p, u, c, m)
      PROVE  DBTypeOK' /\ EsOK' /\ OwnersKept
  <2>1. EsOK'
    BY <1>7, PublishOne, EventsSent DEF EsUpdateChannel
  <2>2. DBTypeOK' /\ OwnersKept
    BY <1>7, Statements DEF EsUpdateChannel
  <2>. QED
    BY <2>1, <2>2
<1>8. ASSUME NEW c \in ChanIds, NEW t \in ThingIds, EsConnect(p, u, <<c>>, <<t>>)
      PROVE  DBTypeOK' /\ EsOK' /\ OwnersKept
  <2>1. ToSet(<<c>>) = {c} /\ ToSet(<<t>>) = {t}
    BY One
  <2>2. Publish(p, <<ConnEvent("thing.connect", c, t)>>)
    BY <1>8, ConnectEventsOne, Zenon DEF EsConnect
  <2>3. EsOK'
    BY <2>2, PublishOne, EventsSent
  <2>4. DBTypeOK' /\ OwnersKept
    BY <1>8, <2>1, Statements DEF EsConnect
  <2>. QED
    BY <2>3, <2>4
<1>9. ASSUME NEW c \in ChanIds, NEW t \in ThingIds, EsDisconnect(p, u, c, t)
      PROVE  DBTypeOK' /\ EsOK' /\ OwnersKept
  <2>1. EsOK'
    BY <1>9, PublishOne, EventsSent DEF EsDisconnect
  <2>2. DBTypeOK' /\ OwnersKept
    BY <1>9, Statements DEF EsDisconnect
  <2>. QED
    BY <2>1, <2>2
<1>. QED
  BY <1>1, <1>2, <1>3, <1>4, <1>5, <1>6, <1>7, <1>8, <1>9

\* XADD with MAXLEN keeps the stream within its bound.
LEMMA EmitOK ==
  ASSUME EsOK, NEW p \in Callers, Emit(p)
  PROVE  EsOK'
<1>1. Head(out[p]) \in Sent /\ Tail(out[p]) \in Seq(Sent)
  BY HeadTailProperties DEF EsOK, Emit
<1>2. out' \in [Callers -> Seq(Sent)]
  BY <1>1 DEF EsOK, Emit
<1> DEFINE s == Append(stream, Head(out[p]))
<1>3. s \in Seq(Sent) /\ s # <<>> /\ Len(s) = Len(stream) + 1
  BY <1>1, AppendProperties DEF EsOK
<1>4. Tail(s) \in Seq(Sent) /\ Len(Tail(s)) = Len(s) - 1
  BY <1>3, HeadTailProperties
<1>5. Len(stream) \in Nat
  BY DEF EsOK
<1>6. Trimmed(s) \in Seq(Sent) /\ Len(Trimmed(s)) <= StreamLen
  BY <1>3, <1>4, <1>5, StreamLenAssumption DEF EsOK, Trimmed
<1>. QED
  BY <1>2, <1>6 DEF EsOK, Emit
-----------------------------------------------------------------------------
(* What a step leaves alone. *)

\* The bootstrap tables stay consistent while the things service works.
LEMMA TablesKept ==
  ASSUME DBTypeOK, TablesOK, OwnersKept, UNCHANGED bdbVars
  PROVE  TablesOK'
<1>1. \A cn \in bconns : cn[1] \in Ids /\ cn[2] \in Ids
  BY DEF TablesOK, Ids
<1>2. \A cn \in bconns : owner'[cn[1]] = owner[cn[1]] /\ owner'[cn[2]] = owner[cn[2]]
  BY <1>1 DEF OwnersKept, TablesOK, ConfigIntegrity
<1>. QED
  BY <1>2 DEF TablesOK, ConfigIntegrity, bdbVars

\* What a request has checked stays true.
LEMMA JobKept ==
  ASSUME OwnersKept, NEW l, NEW j \in Jobs, JobOK(l, j, owner)
  PROVE  JobOK(l, j, owner')
<1>1. ASSUME j.th \in ThingIds, owner[j.th] = j.user, j.user # None
      PROVE  owner'[j.th] = j.user
  BY <1>1 DEF OwnersKept, Ids
<1>2. ASSUME NEW c \in j.miss \ j.get, owner[c] = j.user, j.user # None
      PROVE  owner'[c] = j.user
  BY <1>2 DEF OwnersKept, Ids, Jobs
<1>. QED
  BY <1>1, <1>2 DEF JobOK

\* The same of all requests, when none of them moves.
LEMMA JobsKept ==
  ASSUME JobsOK, OwnersKept, UNCHANGED procVars
  PROVE  JobsOK'
BY JobKept DEF JobsOK, procVars

\* A request that goes on, with what it has checked by then.
LEMMA GotoOK ==
  ASSUME JobsOK, OwnersKept, NEW p \in BProcs, NEW l \in Labels, NEW j \in Jobs,
         Goto(p, l, j), JobOK(l, j, owner')
  PROVE  JobsOK'
<1>1. pc' \in [BProcs -> Labels] /\ job' \in [BProcs -> Jobs]
  BY DEF JobsOK, Goto
<1>2. ASSUME NEW q \in BProcs
      PROVE  JobOK(pc'[q], job'[q], owner')
  <2>1. CASE q = p
    BY <2>1 DEF Goto, JobsOK
  <2>2. CASE q # p
    <3>1. pc'[q] = pc[q] /\ job'[q] = job[q] /\ job[q] \in Jobs /\ JobOK(pc[q], job[q], owner)
      BY <2>2 DEF Goto, JobsOK
    <3>. QED
      BY <3>1, JobKept
  <2>. QED
    BY <2>1, <2>2
<1>. QED
  BY <1>1, <1>2 DEF JobsOK

\* No request at all.
LEMMA NoJobOK ==
  ASSUME NEW own
  PROVE  NoJob \in Jobs /\ \A l \in {"idle", "cleanup"} : l \in Labels /\ JobOK(l, NoJob, own)
BY DEF NoJob, Jobs, JobOK, Labels, States

\* A request that ends.
LEMMA DoneOK ==
  ASSUME JobsOK, OwnersKept, NEW p \in BProcs, Done(p)
  PROVE  JobsOK'
BY NoJobOK, GotoOK DEF Done

\* The stored tables of the things service are not touched.
LEMMA ThingsKept ==
  ASSUME DBTypeOK, EsOK, UNCHANGED thingsVars
  PROVE  DBTypeOK' /\ EsOK' /\ OwnersKept /\ owner' = owner
BY DEF thingsVars, dbVars, esVars, DBTypeOK, EsOK, OwnersKept

\* The same, whether an event was lost or not.
LEMMA FeedKept ==
  ASSUME DBTypeOK, EsOK, UNCHANGED <<dbVars, esVars>>
  PROVE  DBTypeOK' /\ EsOK' /\ OwnersKept /\ owner' = owner
BY DEF dbVars, esVars, DBTypeOK, EsOK, OwnersKept

\* A step of a request that leaves the bootstrap tables alone.
LEMMA RequestMoves ==
  ASSUME IInv, DBTypeOK', EsOK', OwnersKept, JobsOK', UNCHANGED <<bdbVars, consVars>>
  PROVE  IInv'
<1>1. TablesOK'
  BY TablesKept DEF IInv
<1>2. ConsumerOK'
  BY DEF IInv, ConsumerOK, consVars
<1>. QED
  BY <1>1, <1>2 DEF IInv
-----------------------------------------------------------------------------
(* Requests that start. *)

\* Add starts with a job that names its user and its external id and key.
LEMMA AddInv ==
  ASSUME IInv, NEW p \in BProcs, NEW u \in Users, NEW t \in ThingIds \cup {None},
         NEW e \in ExtIds \X ExtKeys, NEW cs \in SUBSET ChanIds, Add(p, u, t, e, cs)
  PROVE  IInv'
<1> DEFINE j == [NoJob EXCEPT !.op = "add", !.user = u, !.th = t,
                              !.made = (t = None), !.ext = e, !.want = cs]
<1>1. j \in Jobs /\ "list" \in Labels
  BY DEF NoJob, Jobs, States, Labels
<1>2. JobOK("list", j, owner')
  BY DEF NoJob, JobOK
<1>3. DBTypeOK' /\ EsOK' /\ OwnersKept /\ UNCHANGED <<bdbVars, consVars>> /\ Goto(p, "list", j)
  BY ThingsKept DEF IInv, Add
<1>4. JobsOK'
  BY <1>1, <1>2, <1>3, GotoOK DEF IInv
<1>. QED
  BY <1>3, <1>4, RequestMoves

\* UpdateConnections starts for a config of the caller's own.
LEMMA UpdateConnectionsInv ==
  ASSUME IInv, NEW p \in BProcs, NEW u \in Users, NEW t \in ThingIds,
         NEW cs \in SUBSET ChanIds, UpdateConnections(p, u, t, cs)
  PROVE  IInv'
<1> DEFINE active == state[t] = "Active"
           con == IF active THEN cs \ ChansOf(t) ELSE {}
           dis == IF active THEN ChansOf(t) \ cs ELSE {}
           j == [NoJob EXCEPT !.op = "conns", !.user = u, !.th = t, !.want = cs,
                              !.con = con, !.dis = dis]
<1>1. DBTypeOK' /\ EsOK' /\ OwnersKept /\ owner' = owner /\ UNCHANGED <<bdbVars, consVars>>
      /\ Goto(p, "list", j) /\ owner[t] = u
  BY ThingsKept DEF IInv, UpdateConnections, HasConfig
<1>2. con \in SUBSET ChanIds /\ dis \in SUBSET ChanIds
  BY DEF ChansOf
<1>3. j \in Jobs /\ "list" \in Labels
  <2> HIDE DEF con, dis
  <2>. QED
    BY <1>2 DEF NoJob, Jobs, States, Labels
<1>4. JobOK("list", j, owner')
  <2> HIDE DEF con, dis
  <2>. QED
    BY <1>1, NoneAssumption DEF NoJob, JobOK
<1>5. JobsOK'
  <2> HIDE DEF j
  <2>. QED
    BY <1>1, <1>3, <1>4, GotoOK DEF IInv
<1>. QED
  BY <1>1, <1>5, RequestMoves

\* ChangeState starts with the channels of the config, to connect or to disconnect.
LEMMA ChangeStateInv ==
  ASSUME IInv, NEW p \in BProcs, NEW u \in Users, NEW t \in ThingIds, NEW st \in States,
         ChangeState(p, u, t, st)
  PROVE  IInv'
<1> DEFINE con == IF st = "Active" THEN ChansOf(t) ELSE {}
           dis == IF st = "Inactive" THEN ChansOf(t) ELSE {}
           j == [NoJob EXCEPT !.op = "state", !.user = u, !.th = t, !.to = st,
                              !.con = con, !.dis = dis]
<1>1. DBTypeOK' /\ EsOK' /\ OwnersKept /\ UNCHANGED <<bdbVars, consVars>>
      /\ Goto(p, "disconnect", j)
  BY ThingsKept DEF IInv, ChangeState
<1>2. con \in SUBSET ChanIds /\ dis \in SUBSET ChanIds
  BY DEF ChansOf
<1>3. j \in Jobs /\ "disconnect" \in Labels /\ JobOK("disconnect", j, owner')
  <2> HIDE DEF con, dis
  <2>. QED
    BY <1>2 DEF NoJob, Jobs, JobOK, Labels
<1>4. JobsOK'
  <2> HIDE DEF j
  <2>. QED
    BY <1>1, <1>3, GotoOK DEF IInv
<1>. QED
  BY <1>1, <1>4, RequestMoves

\* A device without config starts the request that lists it as unknown.
LEMMA BootstrapDeviceInv ==
  ASSUME IInv, NEW p \in BProcs, NEW e \in ExtIds, NEW k \in ExtKeys, BootstrapDevice(p, e, k)
  PROVE  IInv'
<1> DEFINE j == [NoJob EXCEPT !.ext = <<e, k>>]
<1>1. j \in Jobs /\ "saveUnknown" \in Labels /\ JobOK("saveUnknown", j, owner')
  BY DEF NoJob, Jobs, States, Labels, JobOK
<1>2. DBTypeOK' /\ EsOK' /\ OwnersKept /\ UNCHANGED <<bdbVars, consVars>> /\ Goto(p, "saveUnknown", j)
  BY ThingsKept DEF IInv, BootstrapDevice
<1>3. JobsOK'
  BY <1>1, <1>2, GotoOK DEF IInv
<1>. QED
  BY <1>2, <1>3, RequestMoves
-----------------------------------------------------------------------------
(* Steps of a request that only read, or call the things service. *)

\* ListExisting notes the wanted channels that are not stored for the caller.
LEMMA ListExistingInv ==
  ASSUME IInv, NEW p \in BProcs, ListExisting(p)
  PROVE  IInv'
<1> DEFINE miss == {c \in job[p].want : ~(c \in bchans /\ owner[c] = job[p].user)}
           j == [job[p] EXCEPT !.miss = miss, !.get = miss]
<1>1. job[p] \in Jobs /\ JobOK("list", job[p], owner)
  BY DEF IInv, JobsOK, ListExisting, At
<1>2. miss \in SUBSET job[p].want
  OBVIOUS
<1>3. DBTypeOK' /\ EsOK' /\ OwnersKept /\ owner' = owner /\ UNCHANGED <<bdbVars, consVars>>
  BY ThingsKept DEF IInv, ListExisting
<1>4. j \in Jobs /\ "channels" \in Labels
  <2> HIDE DEF miss
  <2>. QED
    BY <1>1, <1>2 DEF Jobs, Labels
<1>5. JobOK("channels", j, owner')
  <2> HIDE DEF miss
  <2>. QED
    BY <1>1, <1>2, <1>3 DEF Jobs, JobOK
<1>6. CASE Goto(p, "channels", j)
  <2> HIDE DEF j
  <2>1. JobsOK'
    BY <1>3, <1>4, <1>5, <1>6, GotoOK DEF IInv
  <2>. QED
    BY <1>3, <2>1, RequestMoves
<1>7. CASE Done(p)
  <2>1. JobsOK'
    BY <1>3, <1>7, DoneOK DEF IInv
  <2>. QED
    BY <1>3, <2>1, RequestMoves
<1>. QED
  BY <1>6, <1>7 DEF ListExisting

\* sdk.Channel confirms, one by one, that the missing channels are the caller's.
LEMMA ConnectionChannelsInv ==
  ASSUME IInv, NEW p \in BProcs, ConnectionChannels(p)
  PROVE  IInv'
<1>1. job[p] \in Jobs /\ JobOK("channels", job[p], owner)
  BY DEF IInv, JobsOK, ConnectionChannels, At
<1>2. DBTypeOK' /\ EsOK' /\ OwnersKept /\ owner' = owner /\ UNCHANGED <<bdbVars, consVars>>
  BY ThingsKept DEF IInv, ConnectionChannels
<1>3. CASE job[p].get = {} /\ Goto(p, AfterChannels(job[p]), job[p])
  <2>1. AfterChannels(job[p]) \in Labels /\ JobOK(AfterChannels(job[p]), job[p], owner')
    BY <1>1, <1>2, <1>3 DEF AfterChannels, Labels, JobOK, Jobs
  <2>2. JobsOK'
    BY <1>1, <1>2, <1>3, <2>1, GotoOK DEF IInv
  <2>. QED
    BY <1>2, <2>2, RequestMoves
<1>4. ASSUME NEW c \in job[p].get, c \in chans, owner[c] = job[p].user,
             Goto(p, "channels", [job[p] EXCEPT !.get = @ \ {c}])
      PROVE  IInv'
  <2> DEFINE j == [job[p] EXCEPT !.get = @ \ {c}]
  <2>1. j \in Jobs /\ "channels" \in Labels
    BY <1>1 DEF Jobs, Labels
  <2>2. job[p].user # None
    BY <1>1, NoneAssumption DEF JobOK
  <2>3. JobOK("channels", j, owner')
    BY <1>1, <1>2, <1>4, <2>2 DEF Jobs, JobOK
  <2>4. JobsOK'
    <3> HIDE DEF j
    <3>. QED
      BY <1>2, <1>4, <2>1, <2>3, GotoOK DEF IInv, j
  <2>. QED
    BY <1>2, <2>4, RequestMoves
<1>5. CASE Done(p)
  BY <1>2, <1>5, DoneOK, RequestMoves DEF IInv
<1>. QED
  BY <1>3, <1>4, <1>5 DEF ConnectionChannels

\* sdk.CreateThing, whether its answer arrives or not.
LEMMA CreateThingInv ==
  ASSUME IInv, NEW p \in BProcs, CreateThing(p)
  PROVE  IInv'
<1>1. job[p] \in Jobs /\ JobOK("create", job[p], owner) /\ p \in Callers
  BY CallersAssumption DEF IInv, JobsOK, CreateThing, At
<1>2. job[p].user \in Users
  BY <1>1 DEF JobOK
<1>3. ASSUME NEW t \in ThingIds, NEW k \in Keys, NEW m \in Metas,
             EsCreateThings(p, job[p].user, <<t>>, [x \in {t} |-> k], m),
             Goto(p, "fetch", [job[p] EXCEPT !.th = t]) \/ Done(p)
      PROVE  IInv'
  <2> DEFINE j == [job[p] EXCEPT !.th = t]
  <2>1. DBTypeOK' /\ EsOK' /\ OwnersKept
    BY <1>1, <1>2, <1>3, CallOK DEF IInv
  <2>2. JobOK("create", job[p], owner')
    BY <1>1, <2>1, JobKept
  <2>3. j \in Jobs /\ "fetch" \in Labels
    BY <1>1 DEF Jobs, Labels
  <2>4. JobOK("fetch", j, owner')
    BY <1>1, <2>2 DEF JobOK, Jobs
  <2>5. JobsOK'
    <3>1. CASE Done(p)
      BY <2>1, <3>1, DoneOK DEF IInv
    <3>2. CASE Goto(p, "fetch", j)
      <4> HIDE DEF j
      <4>. QED
        BY <2>1, <2>3, <2>4, <3>2, GotoOK DEF IInv
    <3>. QED
      BY <1>3, <3>1, <3>2
  <2>. QED
    BY <2>1, <2>5, RequestMoves DEF CreateThing
<1>4. ASSUME Done(p), UNCHANGED thingsVars
      PROVE  IInv'
  BY <1>4, ThingsKept, DoneOK, RequestMoves DEF IInv, CreateThing
<1>. QED
  BY <1>3, <1>4 DEF CreateThing

\* sdk.Thing: the request goes on to Save only with a thing of the caller's.
LEMMA FetchThingInv ==
  ASSUME IInv, NEW p \in BProcs, FetchThing(p)
  PROVE  IInv'
<1>1. job[p] \in Jobs /\ JobOK("fetch", job[p], owner)
  BY DEF IInv, JobsOK, FetchThing, At
<1>2. DBTypeOK' /\ EsOK' /\ OwnersKept /\ owner' = owner /\ UNCHANGED <<bdbVars, consVars>>
  BY ThingsKept DEF IInv, FetchThing
<1>3. CASE job[p].th \in things /\ owner[job[p].th] = job[p].user /\ Goto(p, "save", job[p])
  <2>1. "save" \in Labels /\ JobOK("save", job[p], owner')
    BY <1>1, <1>2, <1>3, NoneAssumption DEF Labels, JobOK, IInv, DBTypeOK
  <2>2. JobsOK'
    BY <1>1, <1>2, <1>3, <2>1, GotoOK DEF IInv
  <2>. QED
    BY <1>2, <2>2, RequestMoves
<1>4. CASE Done(p)
  BY <1>2, <1>4, DoneOK, RequestMoves DEF IInv
<1>5. CASE ~job[p].made /\ Goto(p, "undo", job[p])
  <2>1. "undo" \in Labels /\ JobOK("undo", job[p], owner')
    BY <1>1, <1>2 DEF Labels, JobOK
  <2>2. JobsOK'
    BY <1>1, <1>2, <1>5, <2>1, GotoOK DEF IInv
  <2>. QED
    BY <1>2, <2>2, RequestMoves
<1>. QED
  BY <1>3, <1>4, <1>5 DEF FetchThing, AfterFetchError, Done

\* sdk.DeleteThing, called for a thing whose config was not saved.
LEMMA DeleteThingInv ==
  ASSUME IInv, NEW p \in BProcs, DeleteThing(p)
  PROVE  IInv'
<1>1. job[p] \in Jobs /\ JobOK("undo", job[p], owner) /\ p \in Callers
  BY CallersAssumption DEF IInv, JobsOK, DeleteThing, At
<1>2. job[p].user \in Users /\ job[p].th \in ThingIds \cup {None}
  BY <1>1 DEF JobOK, Jobs
<1>3. DBTypeOK' /\ EsOK' /\ OwnersKept
  <2>1. CASE EsRemoveThing(p, job[p].user, job[p].th)
    BY <1>1, <1>2, <2>1, CallOK DEF IInv
  <2>2. CASE UNCHANGED thingsVars
    BY <2>2, ThingsKept DEF IInv
  <2>. QED
    BY <2>1, <2>2 DEF DeleteThing
<1>. QED
  BY <1>3, DoneOK, RequestMoves DEF IInv, DeleteThing

\* sdk.DisconnectThing, channel by channel.
LEMMA DisconnectThingsInv ==
  ASSUME IInv, NEW p \in BProcs, DisconnectThings(p)
  PROVE  IInv'
<1>1. job[p] \in Jobs /\ JobOK("disconnect", job[p], owner) /\ p \in Callers
  BY CallersAssumption DEF IInv, JobsOK, DisconnectThings, At
<1>2. job[p].user \in Users
  BY <1>1 DEF JobOK
<1>3. DBTypeOK' /\ EsOK' /\ OwnersKept
  <2>1. ASSUME NEW c \in job[p].dis, EsDisconnect(p, job[p].user, c, job[p].th)
        PROVE  DBTypeOK' /\ EsOK' /\ OwnersKept
    <3>1. c \in ChanIds /\ job[p].th \in ThingIds
      BY <2>1 DEF EsDisconnect, OwnConn, IInv, DBTypeOK
    <3>. QED
      BY <1>1, <1>2, <2>1, <3>1, CallOK DEF IInv
  <2>2. CASE UNCHANGED thingsVars
    BY <2>2, ThingsKept DEF IInv
  <2>. QED
    BY <2>1, <2>2 DEF DisconnectThings
<1>4. JobOK("disconnect", job[p], owner')
  BY <1>1, <1>3, JobKept
<1>5. JobsOK'
  <2>1. CASE Goto(p, "connect", job[p])
    <3>1. "connect" \in Labels /\ JobOK("connect", job[p], owner')
      BY <1>4 DEF Labels, JobOK
    <3>. QED
      BY <1>1, <1>3, <2>1, <3>1, GotoOK DEF IInv
  <2>2. ASSUME NEW c \in job[p].dis, Goto(p, "disconnect", [job[p] EXCEPT !.dis = @ \ {c}])
        PROVE  JobsOK'
    <3> DEFINE j == [job[p] EXCEPT !.dis = @ \ {c}]
    <3>1. j \in Jobs /\ "disconnect" \in Labels /\ JobOK("disconnect", j, owner')
      BY <1>1, <1>4 DEF Jobs, Labels, JobOK
    <3>2. Goto(p, "disconnect", j)
      BY <2>2
    <3> HIDE DEF j
    <3>. QED
      BY <1>3, <3>1, <3>2, GotoOK DEF IInv
  <2>3. CASE Done(p)
    BY <1>3, <2>3, DoneOK DEF IInv
  <2>. QED
    BY <2>1, <2>2, <2>3 DEF DisconnectThings
<1>. QED
  BY <1>3, <1>5, RequestMoves DEF DisconnectThings

\* sdk.ConnectThing, channel by channel.
LEMMA ConnectThingsInv ==
  ASSUME IInv, NEW p \in BProcs, ConnectThings(p)
  PROVE  IInv'
<1>1. job[p] \in Jobs /\ JobOK("connect", job[p], owner) /\ p \in Callers
  BY CallersAssumption DEF IInv, JobsOK, ConnectThings, At
<1>2. job[p].user \in Users
  BY <1>1 DEF JobOK
<1>3. DBTypeOK' /\ EsOK' /\ OwnersKept
  <2>1. ASSUME NEW c \in job[p].con, EsConnect(p, job[p].user, <<c>>, <<job[p].th>>)
        PROVE  DBTypeOK' /\ EsOK' /\ OwnersKept
    <3>1. ToSet(<<c>>) = {c} /\ ToSet(<<job[p].th>>) = {job[p].th}
      BY One
    <3>2. ForeignKeys(job[p].user, c, job[p].th)
      BY <2>1, <3>1 DEF EsConnect, ConnectRows
    <3>3. c \in ChanIds /\ job[p].th \in ThingIds
      BY <3>2 DEF ForeignKeys, IInv, DBTypeOK
    <3>. QED
      BY <1>1, <1>2, <2>1, <3>3, CallOK DEF IInv
  <2>2. CASE UNCHANGED thingsVars
    BY <2>2, ThingsKept DEF IInv
  <2>. QED
    BY <2>1, <2>2 DEF ConnectThings
<1>4. JobOK("connect", job[p], owner')
  BY <1>1, <1>3, JobKept
<1>5. JobsOK'
  <2>1. ASSUME NEW l \in {"writeConns", "writeState"}, l = "writeConns" => job[p].op = "conns",
               Goto(p, l, job[p])
        PROVE  JobsOK'
    <3>1. l \in Labels /\ JobOK(l, job[p], owner')
      BY <1>4, <2>1 DEF Labels, JobOK
    <3>. QED
      BY <1>1, <1>3, <2>1, <3>1, GotoOK DEF IInv
  <2>2. ASSUME NEW c \in job[p].con, Goto(p, "connect", [job[p] EXCEPT !.con = @ \ {c}])
        PROVE  JobsOK'
    <3> DEFINE j == [job[p] EXCEPT !.con = @ \ {c}]
    <3>1. j \in Jobs /\ "connect" \in Labels /\ JobOK("connect", j, owner')
      BY <1>1, <1>4 DEF Jobs, Labels, JobOK
    <3>2. Goto(p, "connect", j)
      BY <2>2
    <3> HIDE DEF j
    <3>. QED
      BY <1>3, <3>1, <3>2, GotoOK DEF IInv
  <2>3. CASE Done(p)
    BY <1>3, <2>3, DoneOK DEF IInv
  <2>. QED
    BY <2>1, <2>2, <2>3 DEF ConnectThings
<1>. QED
  BY <1>3, <1>5, RequestMoves DEF ConnectThings
-----------------------------------------------------------------------------
(* Steps of a request that write the bootstrap tables. *)

\* A row of configs goes with its connections.
LEMMA DropConfigOK ==
  ASSUME TablesOK, NEW t \in ThingIds \cup {None}, owner' = owner, DropConfig(t),
         UNCHANGED <<bchans, unknown>>
  PROVE  TablesOK'
<1>1. /\ cfgs' \subseteq ThingIds /\ state' \in [ThingIds -> States]
      /\ ext' \in [ThingIds -> (ExtIds \X ExtKeys) \cup {None}]
      /\ \A x \in cfgs' : ext'[x] \in ExtIds \X ExtKeys
  BY DEF TablesOK, DropConfig, States
<1>2. /\ bconns' \subseteq ThingIds \X ChanIds
      /\ \A cn \in bconns' : cn \in bconns /\ cn[1] # t
  BY DEF TablesOK, DropConfig
<1>3. ConfigIntegrity' /\ \A cn \in bconns' : owner'[cn[1]] # None
  BY <1>2 DEF TablesOK, DropConfig, ConfigIntegrity
<1>. QED
  BY <1>1, <1>2, <1>3 DEF TablesOK

\* The cleanup removes channels that no connection needs.
LEMMA DanglingOK ==
  ASSUME TablesOK, owner' = owner, CleanChannels, UNCHANGED <<cfgs, state, ext, bconns, unknown>>
  PROVE  TablesOK'
<1>1. ASSUME NEW cn \in bconns
      PROVE  cn[2] \notin Dangling(bconns)
  <2>1. cn[1] \in ThingIds /\ cn = <<cn[1], cn[2]>>
    BY <1>1 DEF TablesOK
  <2>. QED
    BY <1>1, <2>1 DEF Dangling
<1>2. bchans' \subseteq bchans /\ \A cn \in bconns : cn[2] \in bchans'
  BY <1>1 DEF TablesOK, ConfigIntegrity, CleanChannels
<1>. QED
  BY <1>2 DEF TablesOK, ConfigIntegrity

\* Save: the foreign keys make up for a stale list of existing channels.
LEMMA SaveConfigOK ==
  ASSUME DBTypeOK, TablesOK, NEW j \in Jobs, JobOK("save", j, owner),
         SaveOK(j), SaveConfig(j), owner' = owner
  PROVE  TablesOK'
<1>1. /\ j.th \in ThingIds /\ owner[j.th] = j.user /\ j.user # None
      /\ j.ext \in ExtIds \X ExtKeys /\ j.get = {} /\ j.want \subseteq ChanIds /\ j.miss \subseteq ChanIds
      /\ \A c \in j.miss : owner[c] = j.user
  BY DEF JobOK, Jobs
<1>2. /\ cfgs' \subseteq ThingIds /\ state' \in [ThingIds -> States]
      /\ ext' \in [ThingIds -> (ExtIds \X ExtKeys) \cup {None}]
      /\ \A x \in cfgs' : ext'[x] \in ExtIds \X ExtKeys
  BY <1>1 DEF TablesOK, SaveConfig, States
<1>3. j.ext[1] \in ExtIds
  BY <1>1
<1>4. unknown' \in [ExtIds -> ExtKeys \cup {None}]
  BY <1>3 DEF TablesOK, SaveConfig, Forgotten
<1>5. bchans' \subseteq ChanIds /\ bconns' \subseteq ThingIds \X ChanIds
  BY <1>1 DEF TablesOK, SaveConfig
<1>6. ASSUME NEW cn \in bconns'
      PROVE  cn[1] \in cfgs' /\ cn[2] \in bchans' /\ owner[cn[1]] = owner[cn[2]] /\ owner[cn[1]] # None
  <2>1. CASE cn \in bconns
    BY <2>1 DEF TablesOK, ConfigIntegrity, SaveConfig
  <2>2. CASE cn \in {j.th} \X j.want
    <3>1. cn[1] = j.th /\ cn[2] \in j.want
      BY <2>2
    <3>. QED
      BY <1>1, <3>1 DEF SaveConfig, SaveOK, ChannelsFit
  <2>. QED
    BY <1>6, <2>1, <2>2 DEF SaveConfig
<1>. QED
  BY <1>2, <1>4, <1>5, <1>6 DEF TablesOK, ConfigIntegrity

\* Save writes the config or, when a constraint refuses it, goes on to undo.
LEMMA SaveInv ==
  ASSUME IInv, NEW p \in BProcs, Save(p)
  PROVE  IInv'
<1>1. job[p] \in Jobs /\ JobOK("save", job[p], owner)
  BY DEF IInv, JobsOK, Save, At
<1>2. DBTypeOK' /\ EsOK' /\ OwnersKept /\ owner' = owner
  BY ThingsKept DEF IInv, Save
<1>3. ConsumerOK'
  BY DEF IInv, ConsumerOK, Save, consVars
<1>4. CASE SaveOK(job[p]) /\ SaveConfig(job[p]) /\ Done(p)
  <2>1. TablesOK'
    BY <1>1, <1>2, <1>4, SaveConfigOK DEF IInv
  <2>2. JobsOK'
    BY <1>2, <1>4, DoneOK DEF IInv
  <2>. QED
    BY <1>2, <1>3, <2>1, <2>2 DEF IInv
<1>5. CASE (Goto(p, "undo", job[p]) \/ Done(p)) /\ UNCHANGED bdbVars
  <2>1. "undo" \in Labels /\ JobOK("undo", job[p], owner')
    BY <1>1, <1>2 DEF Labels, JobOK
  <2>2. JobsOK'
    BY <1>1, <1>2, <1>5, <2>1, GotoOK, DoneOK DEF IInv
  <2>3. TablesOK'
    BY <1>2, <1>5, TablesKept DEF IInv
  <2>. QED
    BY <1>2, <1>3, <2>2, <2>3 DEF IInv
<1>. QED
  BY <1>4, <1>5 DEF Save

\* UpdateConnections: the rows of the config are replaced, then cleaned up.
LEMMA WriteConnsOK ==
  ASSUME DBTypeOK, TablesOK, NEW j \in Jobs, JobOK("writeConns", j, owner), j.want # {},
         UpdateOK(j), UpdateConfigConns(j), owner' = owner, UNCHANGED <<cfgs, state, ext, unknown>>
  PROVE  TablesOK'
<1>1. /\ j.th \in ThingIds /\ owner[j.th] = j.user /\ j.user # None
      /\ j.get = {} /\ j.want \subseteq ChanIds /\ j.miss \subseteq ChanIds
      /\ \A c \in j.miss : owner[c] = j.user
  BY DEF JobOK, Jobs
<1>2. j.th \in cfgs /\ ChannelsFit(j)
  BY DEF UpdateOK
<1>3. bconns' = Replaced(j)
  BY DEF UpdateConfigConns
<1>4. bchans' \subseteq ChanIds /\ bconns' \subseteq ThingIds \X ChanIds
  BY <1>1, <1>3 DEF TablesOK, UpdateConfigConns, Replaced, Dangling
<1>5. ASSUME NEW cn \in bconns'
      PROVE  cn[1] \in cfgs /\ cn[2] \in bchans \cup j.miss /\ owner[cn[1]] = owner[cn[2]] /\ owner[cn[1]] # None
  <2>1. CASE cn \in bconns
    BY <2>1 DEF TablesOK, ConfigIntegrity
  <2>2. CASE cn \in {j.th} \X j.want
    <3>1. cn[1] = j.th /\ cn[2] \in j.want
      BY <2>2
    <3>. QED
      BY <1>1, <1>2, <3>1 DEF ChannelsFit
  <2>. QED
    BY <1>3, <1>5, <2>1, <2>2 DEF Replaced
<1>6. ASSUME NEW cn \in bconns'
      PROVE  cn[2] \notin Dangling(bconns')
  <2>1. cn[1] \in ThingIds /\ cn = <<cn[1], cn[2]>>
    BY <1>4
  <2>. QED
    BY <1>6, <2>1 DEF Dangling
<1>7. \A cn \in bconns' : cn[2] \in bchans'
  BY <1>3, <1>5, <1>6 DEF UpdateConfigConns
<1>. QED
  BY <1>4, <1>5, <1>7 DEF TablesOK, ConfigIntegrity

\* UpdateConnections writes the connections or leaves the tables alone.
LEMMA WriteConnsInv ==
  ASSUME IInv, NEW p \in BProcs, WriteConns(p)
  PROVE  IInv'
<1>1. job[p] \in Jobs /\ JobOK("writeConns", job[p], owner)
  BY DEF IInv, JobsOK, WriteConns, At
<1>2. DBTypeOK' /\ EsOK' /\ OwnersKept /\ owner' = owner
  BY ThingsKept DEF IInv, WriteConns
<1>3. ConsumerOK' /\ JobsOK'
  BY <1>2, DoneOK DEF IInv, ConsumerOK, WriteConns, consVars
<1>4. TablesOK'
  <2>1. CASE UpdateOK(job[p]) /\ job[p].want # {} /\ UpdateConfigConns(job[p])
    BY <1>1, <1>2, <2>1, WriteConnsOK DEF IInv, WriteConns
  <2>2. CASE ~(UpdateOK(job[p]) /\ job[p].want # {} /\ UpdateConfigConns(job[p]))
    <3>1. UNCHANGED bdbVars
      BY <2>2 DEF WriteConns, UpdateConfigConns, bdbVars
    <3>. QED
      BY <1>2, <3>1, TablesKept DEF IInv
  <2>. QED
    BY <2>1, <2>2
<1>. QED
  BY <1>2, <1>3, <1>4 DEF IInv

\* ChangeState writes the state of a config that is still there.
LEMMA WriteStateInv ==
  ASSUME IInv, NEW p \in BProcs, WriteState(p)
  PROVE  IInv'
<1>1. job[p] \in Jobs
  BY DEF IInv, JobsOK
<1>2. DBTypeOK' /\ EsOK' /\ OwnersKept /\ owner' = owner
  BY ThingsKept DEF IInv, WriteState
<1>3. ConsumerOK' /\ JobsOK'
  BY <1>2, DoneOK DEF IInv, ConsumerOK, WriteState, consVars
<1>4. job[p].to \in States
  BY <1>1 DEF Jobs
<1>5. state' \in [ThingIds -> States]
  BY <1>4 DEF IInv, TablesOK, WriteState
<1>6. TablesOK'
  BY <1>2, <1>5 DEF IInv, TablesOK, WriteState, ConfigIntegrity
<1>. QED
  BY <1>2, <1>3, <1>6 DEF IInv

\* Remove deletes the config of the caller, if there is one.
LEMMA RemoveInv ==
  ASSUME IInv, NEW p \in BProcs, NEW u \in Users, NEW t \in ThingIds, Remove(p, u, t)
  PROVE  IInv'
<1>1. DBTypeOK' /\ EsOK' /\ OwnersKept /\ owner' = owner
  BY ThingsKept DEF IInv, Remove
<1>2. ConsumerOK'
  BY DEF IInv, ConsumerOK, Remove, consVars
<1>3. JobsOK'
  BY <1>1, NoJobOK, GotoOK DEF IInv, Remove
<1>4. TablesOK'
  <2>1. CASE HasConfig(u, t)
    BY <1>1, <2>1, DropConfigOK DEF IInv, Remove
  <2>2. CASE ~HasConfig(u, t)
    BY <1>1, <2>2, TablesKept DEF IInv, Remove, bdbVars
  <2>. QED
    BY <2>1, <2>2
<1>. QED
  BY <1>1, <1>2, <1>3, <1>4 DEF IInv

\* The cleanup of Remove, in a transaction of its own.
LEMMA CleanupInv ==
  ASSUME IInv, NEW p \in BProcs, Cleanup(p)
  PROVE  IInv'
<1>1. DBTypeOK' /\ EsOK' /\ OwnersKept /\ owner' = owner
  BY ThingsKept DEF IInv, Cleanup
<1>2. ConsumerOK' /\ JobsOK'
  BY <1>1, DoneOK DEF IInv, ConsumerOK, Cleanup, consVars
<1>3. TablesOK'
  BY <1>1, DanglingOK DEF IInv, Cleanup
<1>. QED
  BY <1>1, <1>2, <1>3 DEF IInv

\* SaveUnknown inserts the credentials unless the id is listed already.
LEMMA SaveUnknownInv ==
  ASSUME IInv, NEW p \in BProcs, SaveUnknown(p)
  PROVE  IInv'
<1>1. job[p] \in Jobs /\ JobOK("saveUnknown", job[p], owner)
  BY DEF IInv, JobsOK, SaveUnknown, At
<1>2. DBTypeOK' /\ EsOK' /\ OwnersKept /\ owner' = owner
  BY ThingsKept DEF IInv, SaveUnknown
<1>3. ConsumerOK' /\ JobsOK'
  BY <1>2, DoneOK DEF IInv, ConsumerOK, SaveUnknown, consVars
<1>4. job[p].ext \in ExtIds \X ExtKeys
  BY <1>1 DEF JobOK
<1>5. job[p].ext[1] \in ExtIds /\ job[p].ext[2] \in ExtKeys
  BY <1>4
<1>6. unknown' \in [ExtIds -> ExtKeys \cup {None}]
  BY <1>5 DEF IInv, TablesOK, SaveUnknown
<1>7. TablesOK'
  BY <1>2, <1>6 DEF IInv, TablesOK, SaveUnknown, ConfigIntegrity
<1>. QED
  BY <1>2, <1>3, <1>7 DEF IInv
-----------------------------------------------------------------------------
(* The consumer, the direct calls, and a crash. *)

\* XREADGROUP moves the oldest entries of the stream to the batch.
LEMMA ReadGroupInv ==
  ASSUME IInv, ReadGroup
  PROVE  IInv'
<1> DEFINE n == IF Len(stream) < BatchSize THEN Len(stream) ELSE BatchSize
<1>1. stream \in Seq(Sent) /\ Len(stream) \in Nat /\ Len(stream) <= StreamLen
  BY DEF IInv, EsOK
<1>2. n \in Nat /\ n <= Len(stream)
  BY <1>1, BootstrapBounds
<1>3. \A i \in 1..Len(stream) : stream[i] \in Sent
  BY <1>1, ElementOfSeq
<1>4. batch' = SubSeq(stream, 1, n) /\ stream' = SubSeq(stream, n + 1, Len(stream))
  BY DEF ReadGroup
<1>5. batch' \in Seq(Sent)
  <2> HIDE DEF n
  <2>1. \A i \in 1..n : stream[i] \in Sent
    BY <1>1, <1>2, <1>3
  <2>. QED
    BY <1>2, <1>4, <2>1, SubSeqProperties
<1>6. stream' \in Seq(Sent) /\ Len(stream') <= StreamLen
  <2> HIDE DEF n
  <2>1. \A i \in (n + 1)..Len(stream) : stream[i] \in Sent
    BY <1>1, <1>2, <1>3
  <2>2. /\ SubSeq(stream, n + 1, Len(stream)) \in Seq(Sent)
        /\ Len(SubSeq(stream, n + 1, Len(stream))) =
             IF n + 1 <= Len(stream) THEN Len(stream) - (n + 1) + 1 ELSE 0
    BY <1>1, <1>2, <2>1, SubSeqProperties
  <2>. QED
    BY <1>1, <1>2, <1>4, <2>2, StreamLenAssumption
<1>7. DBTypeOK' /\ OwnersKept /\ UNCHANGED <<bdbVars, procVars>>
  BY DEF IInv, DBTypeOK, OwnersKept, ReadGroup, dbVars
<1>8. EsOK' /\ ConsumerOK'
  BY <1>5, <1>6 DEF IInv, EsOK, ConsumerOK, ReadGroup
<1>. QED
  BY <1>7, <1>8, TablesKept, JobsKept DEF IInv

\* The event that is handled, and the rest of the batch.
LEMMA HandlingOK ==
  ASSUME IInv, NEW o, Handling(o)
  PROVE  /\ Head(batch) \in Sent /\ Tail(batch) \in Seq(Sent)
         /\ Head(batch).th \in ThingIds \cup {None} /\ Head(batch).ch \in ChanIds \cup {None}
<1>1. Head(batch) \in Sent /\ Tail(batch) \in Seq(Sent)
  BY HeadTailProperties DEF IInv, ConsumerOK, Handling
<1>. QED
  BY <1>1 DEF Sent, Events

\* A step of the consumer that leaves the things service and requests alone.
LEMMA HandlerMoves ==
  ASSUME IInv, UNCHANGED <<dbVars, esVars, procVars>>, TablesOK', ConsumerOK'
  PROVE  IInv'
<1>1. DBTypeOK' /\ EsOK' /\ OwnersKept
  BY FeedKept DEF IInv
<1>2. JobsOK'
  BY <1>1, JobsKept DEF IInv
<1>. QED
  BY <1>1, <1>2 DEF IInv

\* A handler that fails leaves the rest of its batch.
LEMMA HandlerFailsOK ==
  ASSUME IInv, HandlerFails, UNCHANGED <<dbVars, esVars>>, cleaning' \in BOOLEAN
  PROVE  TablesOK' /\ ConsumerOK'
<1>1. TablesOK'
  BY FeedKept, TablesKept DEF IInv, HandlerFails
<1>2. ConsumerOK'
  BY EmptySeq DEF HandlerFails, ConsumerOK
<1>. QED
  BY <1>1, <1>2

\* A crash loses requests and the batch, never a row.
LEMMA DieInv ==
  ASSUME IInv, Die
  PROVE  IInv'
<1>0. DBTypeOK' /\ EsOK' /\ OwnersKept /\ owner' = owner
  BY FeedKept DEF IInv, Die
<1>1. TablesOK'
  BY <1>0 DEF IInv, TablesOK, ConfigIntegrity, Die
<1>2. JobsOK'
  BY NoJobOK DEF JobsOK, Die
<1>3. ConsumerOK'
  BY EmptySeq DEF ConsumerOK, Die
<1>. QED
  BY <1>0, <1>1, <1>2, <1>3 DEF IInv

\* The handlers of the consumer, and the cleanup after RemoveConfigHandler.
LEMMA HandleInv ==
  ASSUME IInv, Handle
  PROVE  IInv'
<1>1. CASE HandleRemoveThing
  <2>1. Tail(batch) \in Seq(Sent) /\ Head(batch).th \in ThingIds \cup {None}
    BY <1>1, HandlingOK DEF HandleRemoveThing
  <2>2. CASE DropConfig(Head(batch).th) /\ Acked /\ UNCHANGED <<bchans, unknown, left>>
    <3>1. TablesOK'
      BY <1>1, <2>1, <2>2, FeedKept, DropConfigOK DEF IInv, HandleRemoveThing
    <3>2. ConsumerOK'
      BY <1>1, <2>1, <2>2 DEF ConsumerOK, HandleRemoveThing, Acked
    <3>. QED
      BY <1>1, <3>1, <3>2, HandlerMoves DEF HandleRemoveThing
  <2>3. CASE HandlerFails
    BY <1>1, <2>3, HandlerFailsOK, HandlerMoves DEF HandleRemoveThing
  <2>. QED
    BY <1>1, <2>2, <2>3 DEF HandleRemoveThing
<1>2. CASE HandlerCleanup
  <2>1. TablesOK'
    BY <1>2, FeedKept, DanglingOK DEF IInv, HandlerCleanup
  <2>2. ConsumerOK'
    BY <1>2 DEF IInv, ConsumerOK, HandlerCleanup
  <2>. QED
    BY <1>2, <2>1, <2>2, HandlerMoves DEF HandlerCleanup
<1>3. CASE HandleDisconnectThing
  <2>1. Tail(batch) \in Seq(Sent) /\ owner' = owner
    BY <1>3, HandlingOK, FeedKept DEF IInv, HandleDisconnectThing
  <2>2. CASE /\ state' = Deactivated(Head(batch).ch, Head(batch).th)
             /\ Acked
             /\ UNCHANGED <<cfgs, ext, bchans, bconns, unknown, left>>
    <3>1. state' \in [ThingIds -> States]
      BY <2>2 DEF Deactivated, IInv, TablesOK, States
    <3>2. TablesOK'
      BY <2>1, <2>2, <3>1 DEF IInv, TablesOK, ConfigIntegrity
    <3>3. ConsumerOK'
      BY <1>3, <2>1, <2>2 DEF IInv, ConsumerOK, HandleDisconnectThing, Acked
    <3>. QED
      BY <1>3, <3>2, <3>3, HandlerMoves DEF HandleDisconnectThing
  <2>3. CASE HandlerFails
    BY <1>3, <2>3, HandlerFailsOK, HandlerMoves DEF HandleDisconnectThing, IInv, ConsumerOK
  <2>. QED
    BY <1>3, <2>2, <2>3 DEF HandleDisconnectThing
<1>4. CASE HandleRemoveChannel
  <2>1. Tail(batch) \in Seq(Sent) /\ owner' = owner
    BY <1>4, HandlingOK, FeedKept DEF IInv, HandleRemoveChannel
  <2>2. CASE /\ DropChannel(Head(batch).ch)
             /\ Acked
             /\ UNCHANGED <<cfgs, state, ext, unknown, left>>
    <3>1. \A cn \in bconns' : cn \in bconns /\ cn[2] # Head(batch).ch
      BY <2>2 DEF DropChannel
    <3>2. ConfigIntegrity' /\ \A cn \in bconns' : owner'[cn[1]] # None
      BY <2>1, <2>2, <3>1 DEF IInv, TablesOK, ConfigIntegrity, DropChannel
    <3>3. bchans' \subseteq ChanIds /\ bconns' \subseteq ThingIds \X ChanIds
      BY <2>2 DEF DropChannel, IInv, TablesOK
    <3>4. TablesOK'
      BY <2>2, <3>2, <3>3 DEF IInv, TablesOK
    <3>5. ConsumerOK'
      BY <1>4, <2>1, <2>2 DEF IInv, ConsumerOK, HandleRemoveChannel, Acked
    <3>. QED
      BY <1>4, <3>4, <3>5, HandlerMoves DEF HandleRemoveChannel
  <2>3. CASE HandlerFails
    BY <1>4, <2>3, HandlerFailsOK, HandlerMoves DEF HandleRemoveChannel, IInv, ConsumerOK
  <2>. QED
    BY <1>4, <2>2, <2>3 DEF HandleRemoveChannel
<1>5. CASE HandleOther
  <2>1. Tail(batch) \in Seq(Sent)
    BY <1>5, HandlingOK DEF HandleOther
  <2>2. TablesOK'
    BY <1>5, FeedKept, TablesKept DEF IInv, HandleOther
  <2>3. ConsumerOK'
    BY <1>5, <2>1 DEF IInv, ConsumerOK, HandleOther, Acked
  <2>. QED
    BY <1>5, <2>2, <2>3, HandlerMoves DEF HandleOther
<1>6. CASE HandleUpdateChannel
  <2>1. Die
    BY <1>6 DEF HandleUpdateChannel
  <2>. QED
    BY <2>1, DieInv
<1>. QED
  BY <1>1, <1>2, <1>3, <1>4, <1>5, <1>6 DEF Handle

\* Direct calls to the things service keep what requests have checked.
LEMMA ClientRequestInv ==
  ASSUME IInv, NEW p \in Clients, NEW u \in Users, ClientRequest(p, u)
  PROVE  IInv'
<1>1. DBTypeOK' /\ EsOK' /\ OwnersKept
  <2>1. p \in Callers
    BY CallersAssumption
  <2>2. ASSUME NEW c \in ChanIds, NEW t \in ThingIds, EsConnect(p, u, <<c>>, <<t>>) \/ EsDisconnect(p, u, c, t)
        PROVE  DBTypeOK' /\ EsOK' /\ OwnersKept
    BY <2>1, <2>2, CallOK DEF IInv
  <2>3. ASSUME NEW t \in ThingIds \cup {None}, EsRemoveThing(p, u, t)
        PROVE  DBTypeOK' /\ EsOK' /\ OwnersKept
    BY <2>1, <2>3, CallOK DEF IInv
  <2>4. ASSUME NEW c \in ChanIds, EsRemoveChannel(p, u, c)
        PROVE  DBTypeOK' /\ EsOK' /\ OwnersKept
    BY <2>1, <2>4, CallOK DEF IInv
  <2>5. ASSUME NEW c \in ChanIds, NEW m \in Metas, "updateChannel" \in ClientOps, EsUpdateChannel(p, u, c, m)
        PROVE  DBTypeOK' /\ EsOK' /\ OwnersKept
    BY <2>1, <2>5, CallOK DEF IInv
  <2>6. ASSUME NEW t \in ThingIds, NEW m \in Metas, EsUpdateThing(p, u, t, m)
        PROVE  DBTypeOK' /\ EsOK' /\ OwnersKept
    BY <2>1, <2>6, CallOK DEF IInv
  <2>7. ASSUME NEW t \in ThingIds, NEW k \in Keys, EsUpdateKey(p, u, t, k)
        PROVE  DBTypeOK' /\ EsOK' /\ OwnersKept
    BY <2>1, <2>7, CallOK DEF IInv
  <2>8. ASSUME NEW c \in ChanIds, NEW m \in Metas, EsCreateChannels(p, u, <<c>>, m)
        PROVE  DBTypeOK' /\ EsOK' /\ OwnersKept
    BY <2>1, <2>8, CallOK DEF IInv
  <2>. QED
    BY <2>2, <2>3, <2>4, <2>5, <2>6, <2>7, <2>8 DEF ClientRequest
<1>2. JobsOK'
  BY <1>1, JobsKept DEF IInv, ClientRequest
<1>. QED
  BY <1>1, <1>2, RequestMoves DEF ClientRequest

\* An XADD of the things service touches nothing but the stream.
LEMMA EmitInv ==
  ASSUME IInv, NEW p \in Callers, EmitStep(p)
  PROVE  IInv'
<1>1. DBTypeOK' /\ OwnersKept
  BY DEF IInv, EmitStep, Emit, dbVars, DBTypeOK, OwnersKept
<1>2. EsOK'
  BY EmitOK DEF IInv, EmitStep
<1>3. JobsOK'
  BY <1>1, JobsKept DEF IInv, EmitStep
<1>. QED
  BY <1>1, <1>2, <1>3, RequestMoves DEF EmitStep
-----------------------------------------------------------------------------
(* The invariant. *)

\* The invariant holds before the first request.
LEMMA InitInv == Init => IInv
<1> SUFFICES ASSUME NEW u \in Users, NEW ts \in SUBSET ThingIds, NEW cs \in SUBSET ChanIds,
                    InitFrom(u, ts, cs)
             PROVE  IInv
  BY DEF Init
<1>1. DBTypeOK
  BY DEF InitFrom, DBTypeOK, Ids
<1>2. EsOK
  <2>1. <<>> \in Seq(Sent) /\ Len(<<>>) = 0
    BY EmptySeq
  <2>. QED
    BY <2>1, StreamLenAssumption DEF InitFrom, EsInit, EsOK
<1>3. TablesOK
  BY DEF InitFrom, TablesOK, States, ConfigIntegrity
<1>4. JobsOK
  BY NoJobOK DEF InitFrom, JobsOK
<1>5. ConsumerOK
  BY EmptySeq DEF InitFrom, ConsumerOK
<1>. QED
  BY <1>1, <1>2, <1>3, <1>4, <1>5 DEF IInv

\* Every request that starts keeps the invariant.
LEMMA RequestInv ==
  ASSUME IInv, NEW p \in BProcs, Request(p)
  PROVE  IInv'
BY AddInv, UpdateConnectionsInv, ChangeStateInv, RemoveInv, BootstrapDeviceInv DEF Request

\* Every step of a request under way keeps the invariant.
LEMMA WorkInv ==
  ASSUME IInv, NEW p \in BProcs, Work(p)
  PROVE  IInv'
BY ListExistingInv, ConnectionChannelsInv, CreateThingInv, FetchThingInv, SaveInv, DeleteThingInv,
   DisconnectThingsInv, ConnectThingsInv, WriteConnsInv, WriteStateInv, CleanupInv, SaveUnknownInv
   DEF Work

\* So does a step in which nothing happens.
LEMMA StutterInv ==
  ASSUME IInv, UNCHANGED vars
  PROVE  IInv'
<1>1. DBTypeOK' /\ EsOK' /\ OwnersKept
  BY ThingsKept DEF IInv, vars, thingsVars
<1>2. JobsOK'
  BY <1>1, JobsKept DEF IInv, vars
<1>. QED
  BY <1>1, <1>2, RequestMoves DEF vars

\* The invariant is inductive.
LEMMA NextInv == IInv /\ [Next]_vars => IInv'
<1> SUFFICES ASSUME IInv, [Next]_vars
             PROVE  IInv'
  OBVIOUS
<1>1. CASE Crash
  BY <1>1, DieInv DEF Crash
<1>. QED
  BY <1>1, RequestInv, WorkInv, ClientRequestInv, EmitInv, ReadGroupInv, HandleInv, StutterInv DEF Next

\* The tables of the bootstrap service, the stream of the things service and
\* what each request has checked stay consistent (bootstrap/service.go,
\* bootstrap/postgres, bootstrap/redis/consumer).
THEOREM Inductive == Spec => []IInv
BY InitInv, NextInv, PTL DEF Spec

\* The histories: an event that is lost stays lost.
HistoryOK == lost \in BOOLEAN /\ left \subseteq ChanIds

\* What is left behind are channels, and an event that is lost stays lost.
LEMMA HistoryNext ==
  ASSUME IInv, HistoryOK, [Next]_vars
  PROVE  HistoryOK' /\ (lost => lost')
<1>1. Dangling(bconns) \subseteq ChanIds
  BY DEF IInv, TablesOK, Dangling
<1>2. ASSUME UNCHANGED <<lost, left>>
      PROVE  HistoryOK' /\ (lost => lost')
  BY <1>2 DEF HistoryOK
<1>3. ASSUME NEW p \in BProcs, Request(p)
      PROVE  HistoryOK' /\ (lost => lost')
  BY <1>2, <1>3 DEF Request, Add, UpdateConnections, ChangeState, Remove, BootstrapDevice,
                    thingsVars, bdbVars
<1>4. ASSUME NEW p \in BProcs, Work(p)
      PROVE  HistoryOK' /\ (lost => lost')
  <2>1. lost' = lost
    BY <1>4 DEF Work, ListExisting, ConnectionChannels, CreateThing, FetchThing, Save, DeleteThing,
                DisconnectThings, ConnectThings, WriteConns, WriteState, Cleanup, SaveUnknown,
                thingsVars, EsCreateThings, EsRemoveThing, EsDisconnect, EsConnect, Publish
  <2>2. left' \subseteq ChanIds
    <3>1. CASE UNCHANGED bdbVars \/ WriteState(p) \/ SaveUnknown(p)
      BY <3>1 DEF HistoryOK, bdbVars, WriteState, SaveUnknown
    <3>2. CASE Save(p)
      BY <3>2 DEF HistoryOK, Save, SaveConfig, bdbVars
    <3>3. CASE WriteConns(p)
      BY <3>3 DEF HistoryOK, WriteConns, UpdateConfigConns
    <3>4. CASE Cleanup(p)
      BY <1>1, <3>4 DEF HistoryOK, Cleanup, CleanChannels
    <3>. QED
      BY <1>4, <3>1, <3>2, <3>3, <3>4 DEF Work, ListExisting, ConnectionChannels, CreateThing,
         FetchThing, DeleteThing, DisconnectThings, ConnectThings
  <2>. QED
    BY <2>1, <2>2 DEF HistoryOK
<1>5. ASSUME NEW p, NEW u, ClientRequest(p, u)
      PROVE  HistoryOK' /\ (lost => lost')
  BY <1>2, <1>5 DEF ClientRequest, EsConnect, EsDisconnect, EsRemoveThing, EsRemoveChannel,
     EsUpdateChannel, EsUpdateThing, EsUpdateKey, EsCreateChannels, Publish, bdbVars
<1>6. ASSUME NEW p, EmitStep(p)
      PROVE  HistoryOK' /\ (lost => lost')
  BY <1>6 DEF EmitStep, Emit, HistoryOK, bdbVars
<1>7. CASE ReadGroup \/ UNCHANGED vars
  BY <1>2, <1>7 DEF ReadGroup, vars, bdbVars
<1>8. CASE Die
  BY <1>1, <1>8 DEF Die, HistoryOK
<1>9. CASE Handle
  <2>1. CASE HandlerCleanup
    BY <1>1, <2>1 DEF HandlerCleanup, CleanChannels, HistoryOK
  <2>2. CASE HandleUpdateChannel
    BY <1>8, <2>2 DEF HandleUpdateChannel
  <2>. QED
    BY <1>9, <2>1, <2>2 DEF Handle, HandleRemoveThing, HandleDisconnectThing, HandleRemoveChannel,
       HandleOther, HandlerFails, Acked, HistoryOK, bdbVars
<1>. QED
  BY <1>3, <1>4, <1>5, <1>6, <1>7, <1>8, <1>9 DEF Next, Crash

\* The histories are as they should be.
THEOREM Histories == Spec => []HistoryOK
<1>1. Init => HistoryOK
  BY DEF Init, InitFrom, EsInit, HistoryOK
<1>2. IInv /\ HistoryOK /\ [Next]_vars => HistoryOK'
  BY HistoryNext
<1>. QED
  BY <1>1, <1>2, Inductive, PTL DEF Spec

\* Types, and the bound of the stream, hold for any number of goroutines,
\* things, channels, users and devices.
THEOREM TypeCorrect == Spec => []TypeOK
<1>1. IInv /\ HistoryOK => TypeOK
  <2> SUFFICES ASSUME IInv, HistoryOK PROVE TypeOK
    OBVIOUS
  <2>1. Sent \subseteq Events
    BY DEF Sent
  <2>2. stream \in Seq(Events) /\ batch \in Seq(Events)
    BY <2>1, SeqMonotonic DEF IInv, EsOK, ConsumerOK
  <2>3. \A p \in Callers : out[p] \in Seq(Events)
    BY <2>1, SeqMonotonic DEF IInv, EsOK
  <2>4. out \in [Callers -> Seq(Events)]
    BY <2>3 DEF IInv, EsOK
  <2>. QED
    BY <2>2, <2>4 DEF IInv, EsOK, TablesOK, JobsOK, ConsumerOK, TypeOK, EsTypeOK, HistoryOK
<1>. QED
  BY <1>1, Inductive, Histories, PTL

\* A stored connection joins a stored config to a stored channel of the same
\* owner, whatever requests, events, failures and crashes interleave: Save and
\* UpdateConnections write with what ListExisting and the SDK calls have read
\* earlier (bootstrap/postgres/configs.go).
THEOREM ConfigsAreConsistent == Spec => []ConfigIntegrity
<1>1. IInv => ConfigIntegrity
  BY DEF IInv, TablesOK
<1>. QED
  BY <1>1, Inductive, PTL
-----------------------------------------------------------------------------
(* How requests move. *)

\* A step of a request that is under way; only Cleanup leaves its label.
LEMMA WorkMoves ==
  ASSUME NEW p \in BProcs, Work(p)
  PROVE  /\ pc[p] # "idle" /\ (pc[p] = "cleanup" => Cleanup(p))
         /\ \E l \in Labels \ {"cleanup", "saveUnknown"} : \E j : Goto(p, l, j)
<1>1. CASE ListExisting(p)
  BY <1>1 DEF ListExisting, Done, At, Labels
<1>2. CASE ConnectionChannels(p)
  BY <1>2 DEF ConnectionChannels, AfterChannels, Done, At, Labels
<1>3. CASE CreateThing(p)
  BY <1>3 DEF CreateThing, Done, At, Labels
<1>4. CASE FetchThing(p)
  BY <1>4 DEF FetchThing, AfterFetchError, Done, At, Labels
<1>5. CASE Save(p)
  BY <1>5 DEF Save, Done, At, Labels
<1>6. CASE DeleteThing(p)
  BY <1>6 DEF DeleteThing, Done, At, Labels
<1>7. CASE DisconnectThings(p)
  BY <1>7 DEF DisconnectThings, Done, At, Labels
<1>8. CASE ConnectThings(p)
  BY <1>8 DEF ConnectThings, Done, At, Labels
<1>9. CASE WriteConns(p) \/ WriteState(p) \/ Cleanup(p) \/ SaveUnknown(p)
  BY <1>9 DEF WriteConns, WriteState, Cleanup, SaveUnknown, Done, At, Labels
<1>. QED
  BY <1>1, <1>2, <1>3, <1>4, <1>5, <1>6, <1>7, <1>8, <1>9 DEF Work

\* The steps of requests that write, or do not write, the bootstrap tables.
LEMMA WorkWrites ==
  ASSUME NEW p \in BProcs, Work(p)
  PROVE  \/ UNCHANGED <<bdbVars, consVars>> \/ Save(p) \/ WriteConns(p) \/ WriteState(p)
         \/ Cleanup(p) \/ SaveUnknown(p)
BY DEF Work, ListExisting, ConnectionChannels, CreateThing, FetchThing, DeleteThing,
       DisconnectThings, ConnectThings
-----------------------------------------------------------------------------
(* No channel is left behind. *)

\* A channel is left behind only where it was before, or a cleanup is due.
LEMMA DanglingKept ==
  ASSUME NoDanglingChannels, \A c \in (Dangling(bconns))' : c \in Dangling(bconns) /\ (c \in left => c \in left'),
         cleaning' \/ ~cleaning, \A p \in BProcs : pc[p] = "cleanup" => pc'[p] = "cleanup"
  PROVE  NoDanglingChannels'
BY DEF NoDanglingChannels, CleanupDue

\* A request that moves to or from another step keeps the cleanups to come.
LEMMA CleanupsKept ==
  ASSUME JobsOK, NEW p \in BProcs, pc[p] # "cleanup", NEW l, NEW j, Goto(p, l, j)
  PROVE  \A q \in BProcs : pc[q] = "cleanup" => pc'[q] = "cleanup"
BY DEF JobsOK, Goto

\* A cleanup removes what dangles or, when it fails, leaves it behind.
LEMMA CleanupLeaves ==
  ASSUME CleanChannels, bconns' = bconns
  PROVE  (Dangling(bconns))' \subseteq left'
BY DEF CleanChannels, Dangling

\* Save connects what it inserts, UpdateConnections cleans up what it replaces.
LEMMA DanglingWork ==
  ASSUME IInv, NoDanglingChannels, NEW p \in BProcs, Work(p)
  PROVE  NoDanglingChannels'
<1>1. CASE Cleanup(p)
  <2>1. (Dangling(bconns))' \subseteq left'
    BY <1>1, CleanupLeaves DEF Cleanup
  <2>. QED
    BY <2>1 DEF NoDanglingChannels
<1>2. ASSUME ~Cleanup(p), \A c \in (Dangling(bconns))' : c \in Dangling(bconns) /\ (c \in left => c \in left')
      PROVE  NoDanglingChannels'
  <2>1. \A q \in BProcs : pc[q] = "cleanup" => pc'[q] = "cleanup"
    BY <1>2, WorkMoves, CleanupsKept DEF IInv
  <2>2. cleaning' = cleaning
    BY <1>2, WorkWrites DEF consVars, Save, WriteConns, WriteState, SaveUnknown
  <2>. QED
    BY <1>2, <2>1, <2>2, DanglingKept
<1>3. CASE ~Cleanup(p) /\ UNCHANGED <<bchans, bconns, left>>
  BY <1>2, <1>3 DEF Dangling
<1>4. CASE ~Cleanup(p) /\ Save(p)
  <2>1. CASE UNCHANGED bdbVars
    BY <1>3, <1>4, <2>1 DEF bdbVars
  <2>2. CASE SaveConfig(job[p])
    <3>1. job[p].th \in ThingIds /\ job[p].miss \subseteq job[p].want
      BY <1>4 DEF IInv, JobsOK, JobOK, Save, At
    <3>2. \A c \in job[p].want : <<job[p].th, c>> \in bconns'
      BY <2>2, <3>1 DEF SaveConfig
    <3>3. \A c \in (Dangling(bconns))' : c \in Dangling(bconns) /\ c \notin job[p].want
      BY <2>2, <3>1, <3>2 DEF SaveConfig, Dangling
    <3>4. left' = left \ job[p].want
      BY <2>2 DEF SaveConfig
    <3>. QED
      BY <1>2, <1>4, <3>3, <3>4
  <2>. QED
    BY <1>4, <2>1, <2>2 DEF Save
<1>5. CASE ~Cleanup(p) /\ WriteConns(p)
  <2>1. CASE UpdateOK(job[p]) /\ job[p].want # {} /\ UpdateConfigConns(job[p])
    <3>1. job[p].th \in ThingIds /\ job[p].miss \subseteq job[p].want
      BY <1>5 DEF IInv, JobsOK, JobOK, WriteConns, At
    <3>2. bconns' = Replaced(job[p])
      BY <2>1 DEF UpdateConfigConns
    <3>3. \A c \in job[p].want : <<job[p].th, c>> \in bconns'
      BY <3>1, <3>2 DEF Replaced
    <3>4. CASE ChansOf(job[p].th) = {}
      <4>1. \A cn \in bconns : cn[1] # job[p].th
        BY <3>4 DEF ChansOf, IInv, TablesOK
      <4>2. bconns \subseteq bconns' /\ bchans' = bchans \cup job[p].miss /\ left' = left \ job[p].want
        BY <2>1, <3>2, <3>4, <4>1 DEF Replaced, UpdateConfigConns
      <4>3. \A c \in (Dangling(bconns))' : c \in Dangling(bconns) /\ c \notin job[p].want
        BY <3>1, <3>3, <4>2 DEF Dangling
      <4>. QED
        BY <1>2, <1>5, <4>2, <4>3
    <3>5. CASE ChansOf(job[p].th) # {}
      <4>1. bchans' = (bchans \cup job[p].miss) \ Dangling(bconns')
        BY <2>1, <3>2, <3>5 DEF UpdateConfigConns
      <4>2. (Dangling(bconns))' = {}
        BY <3>1, <3>3, <4>1 DEF Dangling
      <4>. QED
        BY <4>2 DEF NoDanglingChannels
    <3>. QED
      BY <3>4, <3>5
  <2>2. CASE UNCHANGED <<bchans, bconns, left>>
    BY <1>3, <1>5, <2>2
  <2>. QED
    BY <1>5, <2>1, <2>2 DEF WriteConns, UpdateConfigConns
<1>6. CASE ~Cleanup(p) /\ (WriteState(p) \/ SaveUnknown(p) \/ UNCHANGED bdbVars)
  BY <1>3, <1>6 DEF WriteState, SaveUnknown, bdbVars
<1>. QED
  BY <1>1, <1>4, <1>5, <1>6, WorkWrites

\* A process that dies leaves behind what it still had to clean up.
LEMMA DanglingDie ==
  ASSUME NoDanglingChannels, Die
  PROVE  NoDanglingChannels'
<1>1. (Dangling(bconns))' = Dangling(bconns)
  BY DEF Die, Dangling
<1>2. Dangling(bconns) \subseteq left'
  BY DEF Die, NoDanglingChannels
<1>. QED
  BY <1>1, <1>2 DEF NoDanglingChannels

\* RemoveConfigHandler leaves its cleanup to come; the other handlers drop a
\* channel with its connections or touch none.
LEMMA DanglingHandle ==
  ASSUME IInv, NoDanglingChannels, Handle
  PROVE  NoDanglingChannels'
<1>1. CASE HandleRemoveThing
  BY <1>1 DEF HandleRemoveThing, NoDanglingChannels, CleanupDue
<1>2. CASE HandlerCleanup
  <2>1. (Dangling(bconns))' \subseteq left'
    BY <1>2, CleanupLeaves DEF HandlerCleanup
  <2>. QED
    BY <2>1 DEF NoDanglingChannels
<1>3. ASSUME (Dangling(bconns))' \subseteq Dangling(bconns), UNCHANGED <<left, cleaning, procVars>>
      PROVE  NoDanglingChannels'
  BY <1>3, DanglingKept DEF procVars
<1>4. CASE HandleDisconnectThing \/ HandleOther
  BY <1>3, <1>4 DEF HandleDisconnectThing, HandleOther, HandlerFails, bdbVars, Dangling
<1>5. CASE HandleRemoveChannel
  <2>1. (Dangling(bconns))' \subseteq Dangling(bconns) /\ left' = left
    BY <1>5 DEF HandleRemoveChannel, HandlerFails, bdbVars, DropChannel, Dangling
  <2>. QED
    BY <1>3, <1>5, <2>1 DEF HandleRemoveChannel
<1>6. CASE HandleUpdateChannel
  BY <1>6, DanglingDie DEF HandleUpdateChannel
<1>. QED
  BY <1>1, <1>2, <1>4, <1>5, <1>6 DEF Handle

\* Remove leaves its cleanup to come; the other requests start without a write.
LEMMA DanglingRequest ==
  ASSUME IInv, NoDanglingChannels, NEW p \in BProcs, Request(p)
  PROVE  NoDanglingChannels'
<1>1. ASSUME NEW u, NEW t, Remove(p, u, t)
      PROVE  NoDanglingChannels'
  <2>1. pc'[p] = "cleanup"
    BY <1>1 DEF Remove, Goto, IInv, JobsOK
  <2>. QED
    BY <2>1 DEF NoDanglingChannels, CleanupDue
<1>2. ASSUME NEW l, NEW j, Goto(p, l, j), pc[p] = "idle", UNCHANGED <<bdbVars, consVars>>
      PROVE  NoDanglingChannels'
  <2>1. \A q \in BProcs : pc[q] = "cleanup" => pc'[q] = "cleanup"
    BY <1>2, CleanupsKept DEF IInv
  <2>. QED
    BY <1>2, <2>1, DanglingKept DEF bdbVars, consVars, Dangling
<1>. QED
  BY <1>1, <1>2 DEF Request, Add, UpdateConnections, ChangeState, BootstrapDevice, Start, At

\* No step leaves a channel behind unnoticed.
LEMMA DanglingNext ==
  ASSUME IInv, NoDanglingChannels, [Next]_vars
  PROVE  NoDanglingChannels'
<1>1. ASSUME UNCHANGED <<bdbVars, procVars, cleaning>>
      PROVE  NoDanglingChannels'
  BY <1>1, DanglingKept DEF bdbVars, procVars, Dangling
<1>2. ASSUME NEW p, NEW u, ClientRequest(p, u)
      PROVE  NoDanglingChannels'
  BY <1>1, <1>2 DEF ClientRequest, consVars
<1>3. ASSUME NEW p, EmitStep(p)
      PROVE  NoDanglingChannels'
  BY <1>1, <1>3 DEF EmitStep, consVars
<1>4. CASE ReadGroup
  BY <1>1, <1>4 DEF ReadGroup
<1>5. CASE UNCHANGED vars
  BY <1>1, <1>5 DEF vars, consVars
<1>. QED
  BY <1>2, <1>3, <1>4, <1>5, DanglingRequest, DanglingWork, DanglingHandle, DanglingDie DEF Next, Crash

\* No channel stays behind without a config that uses it, except between a
\* DELETE and the cleanupQuery that follows it (Remove, RemoveConfigHandler),
\* and except for what a failed cleanupQuery or a process that died before its
\* cleanup left, until the next cleanup; with any number of overlapping
\* requests, failing SDK calls, statements and commits, lost events and crashes.
THEOREM NoChannelLeftBehind == Spec => []NoDanglingChannels
<1>1. Init => NoDanglingChannels
  BY DEF Init, InitFrom, NoDanglingChannels, Dangling
<1>2. IInv /\ NoDanglingChannels /\ [Next]_vars => NoDanglingChannels'
  BY DanglingNext
<1>. QED
  BY <1>1, <1>2, Inductive, PTL DEF Spec
-----------------------------------------------------------------------------
(* One request at a time. *)

SerialOK == \A p, q \in BProcs : pc[p] # "idle" /\ pc[q] # "idle" => p = q

\* Where requests start in a quiet system, one is under way at a time.
LEMMA SerialNext ==
  ASSUME Serial, IInv, SerialOK, [Next]_vars
  PROVE  SerialOK'
<1>1. CASE UNCHANGED procVars
  BY <1>1 DEF SerialOK, procVars
<1>2. ASSUME NEW p \in BProcs, NEW l, NEW j, Goto(p, l, j), pc[p] # "idle" \/ \A q \in BProcs : pc[q] = "idle"
      PROVE  SerialOK'
  <2>1. \A q \in BProcs \ {p} : pc'[q] = pc[q]
    BY <1>2 DEF IInv, JobsOK, Goto
  <2>. QED
    BY <1>2, <2>1 DEF SerialOK
<1>3. ASSUME NEW p \in BProcs, Request(p)
      PROVE  SerialOK'
  <2>1. \A q \in BProcs : pc[q] = "idle"
    BY <1>3 DEF Request, Add, UpdateConnections, ChangeState, Remove, BootstrapDevice, Start, MayStart, Quiet
  <2>2. \E l, j : Goto(p, l, j)
    BY <1>3 DEF Request, Add, UpdateConnections, ChangeState, Remove, BootstrapDevice
  <2>. QED
    BY <1>2, <2>1, <2>2
<1>4. ASSUME NEW p \in BProcs, Work(p)
      PROVE  SerialOK'
  BY <1>2, <1>4, WorkMoves
<1>5. CASE Die
  BY <1>5 DEF Die, SerialOK
<1>6. CASE Handle
  BY <1>1, <1>5, <1>6 DEF Handle, HandleRemoveThing, HandlerCleanup, HandleDisconnectThing,
     HandleRemoveChannel, HandleOther, HandleUpdateChannel
<1>7. ASSUME NEW p, NEW u, ClientRequest(p, u) \/ EmitStep(p)
      PROVE  SerialOK'
  BY <1>1, <1>7 DEF ClientRequest, EmitStep
<1>8. CASE ReadGroup \/ UNCHANGED vars
  BY <1>1, <1>8 DEF ReadGroup, vars
<1>. QED
  BY <1>3, <1>4, <1>5, <1>6, <1>7, <1>8 DEF Next, Crash
-----------------------------------------------------------------------------
(* An active config is connected. *)

\* Events that the consumer has not handled yet.
Underway == ToSet(batch) \cup ToSet(stream) \cup UNION {ToSet(out[p]) : p \in Callers}

\* The handler of event e ends the pair of channel c and thing t: it drops the
\* config or the channel, or deactivates the config.
Settles(e, c, t) ==
  \/ e.op = "thing.disconnect" /\ e.ch = c /\ e.th = t
  \/ e.op = "thing.remove" /\ e.th = t
  \/ e.op = "channel.remove" /\ e.ch = c

Pending(c, t) == \E e \in Underway : Settles(e, c, t)

\* A channel of an active config is connected, or an event is on its way.
ActiveOK ==
  \A t \in cfgs : state[t] = "Active" =>
    \A c \in ChansOf(t) : <<c, t>> \in conns \/ Pending(c, t)

\* What a request at label l with job j still has to connect before its config
\* may be active; cn, st and bc are conns, state and bconns.
Connecting(l, j, cn, st, bc) ==
  /\ j.op = "state" /\ j.to = "Active" =>
       j.dis = {} /\ \A c \in ChanIds : <<j.th, c>> \in bc => c \in j.con \/ <<c, j.th>> \in cn
  /\ j.op = "conns" /\ st[j.th] = "Active" =>
       j.dis \cap j.want = {} /\ \A c \in j.want : c \in j.con \/ <<c, j.th>> \in cn
  /\ l \in {"writeState", "writeConns"} => j.con = {}
  /\ l \in {"disconnect", "connect"} => j.op \in {"conns", "state"}
  /\ l = "writeState" => j.op = "state"
  /\ l = "idle" => j.op = "none"

ActiveInv ==
  /\ ActiveOK
  /\ \A p \in BProcs : Connecting(pc[p], job[p], conns, state, bconns)

\* An element of a sequence is its head or in its tail.
LEMMA HeadOrTail ==
  ASSUME NEW S, NEW s \in Seq(S), s # <<>>
  PROVE  ToSet(s) = {Head(s)} \cup ToSet(Tail(s))
<1>1. Len(s) \in Nat \ {0} /\ DOMAIN s = 1..Len(s)
  BY EmptySeq, LenProperties
<1>2. /\ Len(Tail(s)) = Len(s) - 1 /\ Tail(s) \in Seq(S)
      /\ \A i \in 1..Len(Tail(s)) : Tail(s)[i] = s[i + 1]
  BY HeadTailProperties
<1>3. DOMAIN Tail(s) = 1..(Len(s) - 1)
  BY <1>2, LenProperties
<1>4. Head(s) = s[1]
  BY HeadTailProperties
<1>5. ASSUME NEW i \in DOMAIN s PROVE s[i] \in {Head(s)} \cup ToSet(Tail(s))
  <2>1. CASE i = 1
    BY <2>1, <1>4
  <2>2. CASE i # 1
    <3>1. i - 1 \in 1..(Len(s) - 1) /\ (i - 1) + 1 = i
      BY <1>1, <1>5, <2>2
    <3>2. Tail(s)[i - 1] = s[i]
      BY <1>2, <3>1
    <3>. QED
      BY <1>3, <3>1, <3>2 DEF ToSet
  <2>. QED
    BY <2>1, <2>2
<1>6. ASSUME NEW i \in DOMAIN Tail(s) PROVE Tail(s)[i] \in ToSet(s)
  <2>1. i + 1 \in DOMAIN s /\ Tail(s)[i] = s[i + 1]
    BY <1>1, <1>2, <1>3, <1>6
  <2>. QED
    BY <2>1 DEF ToSet
<1>7. Head(s) \in ToSet(s)
  BY <1>1, <1>4 DEF ToSet
<1>. QED
  BY <1>5, <1>6, <1>7 DEF ToSet

\* An appended element, and the ones before it.
LEMMA InAppend ==
  ASSUME NEW S, NEW s \in Seq(S), NEW e \in S
  PROVE  ToSet(s) \cup {e} \subseteq ToSet(Append(s, e))
<1>1. /\ Len(s) \in Nat /\ DOMAIN s = 1..Len(s) /\ Len(Append(s, e)) = Len(s) + 1
      /\ \A i \in 1..Len(s) : Append(s, e)[i] = s[i]
      /\ Append(s, e)[Len(s) + 1] = e
      /\ Append(s, e) \in Seq(S)
  BY AppendProperties, LenProperties
<1>2. DOMAIN Append(s, e) = 1..(Len(s) + 1)
  BY <1>1, LenProperties
<1>3. \A i \in DOMAIN s : i \in DOMAIN Append(s, e) /\ Append(s, e)[i] = s[i]
  BY <1>1, <1>2
<1>4. Len(s) + 1 \in DOMAIN Append(s, e)
  BY <1>1, <1>2
<1>. QED
  BY <1>1, <1>3, <1>4 DEF ToSet

\* The parts of a sequence that is cut hold all its elements.
LEMMA InParts ==
  ASSUME NEW S, NEW s \in Seq(S), NEW n \in 0..Len(s)
  PROVE  ToSet(s) \subseteq ToSet(SubSeq(s, 1, n)) \cup ToSet(SubSeq(s, n + 1, Len(s)))
<1>1. Len(s) \in Nat /\ DOMAIN s = 1..Len(s) /\ n \in Nat /\ n =< Len(s)
  BY LenProperties
<1>2. ASSUME NEW i \in 1..Len(s), i =< n PROVE s[i] \in ToSet(SubSeq(s, 1, n))
  <2>1. SubSeq(s, 1, n) = [k \in 1..n |-> s[k]]
    BY <1>1
  <2>2. i \in 1..n
    BY <1>1, <1>2
  <2>. QED
    BY <2>1, <2>2 DEF ToSet
<1>3. ASSUME NEW i \in 1..Len(s), i > n PROVE s[i] \in ToSet(SubSeq(s, n + 1, Len(s)))
  <2>1. SubSeq(s, n + 1, Len(s)) = [k \in 1..(Len(s) - n) |-> s[k + n]]
    BY <1>1, SMT
  <2>2. i - n \in 1..(Len(s) - n) /\ (i - n) + n = i
    BY <1>1, <1>3
  <2>. QED
    BY <2>1, <2>2 DEF ToSet
<1>. QED
  BY <1>1, <1>2, <1>3 DEF ToSet

\* Nothing is on its way in a quiet system.
LEMMA QuietIsSettled ==
  ASSUME Quiet
  PROVE  Underway = {}
<1>1. ToSet(<<>>) = {}
  BY DEF ToSet
<1>2. batch = <<>> /\ stream = <<>> /\ \A p \in Callers : out[p] = <<>>
  BY DEF Quiet, Answered
<1>3. \A p \in Callers : ToSet(out[p]) = {}
  BY <1>1, <1>2
<1>. QED
  BY <1>1, <1>2, <1>3 DEF Underway

\* A request adds its events to the ones on their way.
LEMMA PublishAdds ==
  ASSUME EsOK, NEW p \in Callers, NEW evs, Publish(p, evs), batch' = batch
  PROVE  Underway \subseteq Underway' /\ ToSet(evs) \subseteq Underway'
<1>1. out'[p] = evs /\ out[p] = <<>> /\ stream' = stream /\ \A q \in Callers \ {p} : out'[q] = out[q]
  BY DEF Publish, Answered, EsOK
<1>2. ToSet(out[p]) = {}
  BY <1>1 DEF ToSet
<1>3. \A q \in Callers : ToSet(out[q]) \subseteq ToSet(out'[q])
  BY <1>1, <1>2
<1>4. ToSet(evs) = ToSet(out'[p])
  BY <1>1
<1>. QED
  BY <1>1, <1>3, <1>4 DEF Underway

\* The same of a single event.
LEMMA PublishesEvent ==
  ASSUME EsOK, NEW p \in Callers, NEW e, Publish(p, <<e>>), batch' = batch
  PROVE  Underway \subseteq Underway' /\ e \in Underway'
<1>1. ToSet(<<e>>) = {e}
  BY One
<1>. QED
  BY <1>1, PublishAdds

\* Every pair that a call disconnects has an event of that call.
Covers ==
  /\ Underway \subseteq Underway'
  /\ \A c \in ChanIds, t \in ThingIds : <<c, t>> \in conns =>
       <<c, t>> \in conns' \/ \E e \in Underway' : Settles(e, c, t)

\* Calls that disconnect nothing.
LEMMA CallConnects ==
  ASSUME EsOK, NEW p \in Callers, NEW evs, Publish(p, evs), batch' = batch, conns \subseteq conns'
  PROVE  Covers
BY PublishAdds DEF Covers

\* Disconnect, and the cascades of the two Remove.
LEMMA CallDisconnects ==
  ASSUME EsOK, NEW p \in Callers, NEW u, batch' = batch,
         \/ \E t \in ThingIds \cup {None} : EsRemoveThing(p, u, t)
         \/ \E c \in ChanIds : EsRemoveChannel(p, u, c)
         \/ \E c \in ChanIds, t \in ThingIds : EsDisconnect(p, u, c, t)
  PROVE  Covers
<1>1. ASSUME NEW t \in ThingIds \cup {None}, EsRemoveThing(p, u, t)
      PROVE  Covers
  <2> DEFINE e == ThingEvent("thing.remove", t)
  <2>1. Underway \subseteq Underway' /\ e \in Underway'
    BY <1>1, PublishesEvent DEF EsRemoveThing
  <2>2. \A c \in ChanIds : Settles(e, c, t)
    BY DEF Settles, ThingEvent
  <2>3. \A c \in ChanIds, x \in ThingIds : <<c, x>> \in conns /\ x # t => <<c, x>> \in conns'
    BY <1>1, IdsAssumption, NoneAssumption DEF EsRemoveThing, RemoveThingRow, Cascade, dbVars, Ids
  <2>. QED
    BY <2>1, <2>2, <2>3 DEF Covers
<1>2. ASSUME NEW c \in ChanIds, EsRemoveChannel(p, u, c)
      PROVE  Covers
  <2> DEFINE e == ChanEvent("channel.remove", c)
  <2>1. Underway \subseteq Underway' /\ e \in Underway'
    BY <1>2, PublishesEvent DEF EsRemoveChannel
  <2>2. \A t \in ThingIds : Settles(e, c, t)
    BY DEF Settles, ChanEvent
  <2>3. \A x \in ChanIds, t \in ThingIds : <<x, t>> \in conns /\ x # c => <<x, t>> \in conns'
    BY <1>2, IdsAssumption DEF EsRemoveChannel, RemoveChannelRow, Cascade, dbVars
  <2>. QED
    BY <2>1, <2>2, <2>3 DEF Covers
<1>3. ASSUME NEW c \in ChanIds, NEW t \in ThingIds, EsDisconnect(p, u, c, t)
      PROVE  Covers
  <2> DEFINE e == ConnEvent("thing.disconnect", c, t)
  <2>1. Underway \subseteq Underway' /\ e \in Underway'
    BY <1>3, PublishesEvent DEF EsDisconnect
  <2>2. Settles(e, c, t)
    BY DEF Settles, ConnEvent
  <2>3. \A cn \in conns : cn # <<c, t>> => cn \in conns'
    BY <1>3 DEF EsDisconnect, DisconnectRow
  <2>. QED
    BY <2>1, <2>2, <2>3 DEF Covers
<1>. QED
  BY <1>1, <1>2, <1>3

\* A step of the things service, or one that does not touch it.
LEMMA ActiveCovered ==
  ASSUME TablesOK, ActiveOK, Covers, UNCHANGED bdbVars
  PROVE  ActiveOK'
<1> SUFFICES ASSUME NEW t \in cfgs', state'[t] = "Active", NEW c \in ChanIds, <<t, c>> \in bconns'
             PROVE  <<c, t>> \in conns' \/ \E e \in Underway' : Settles(e, c, t)
  BY DEF ActiveOK, ChansOf, Pending
<1>1. t \in cfgs /\ t \in ThingIds /\ state[t] = "Active" /\ c \in ChansOf(t)
  BY DEF bdbVars, ChansOf, TablesOK
<1>2. <<c, t>> \in conns \/ \E e \in Underway : Settles(e, c, t)
  BY <1>1 DEF ActiveOK, Pending
<1>. QED
  BY <1>1, <1>2 DEF Covers

\* The things service and the events stay as they are.
LEMMA ThingsCover ==
  ASSUME UNCHANGED <<thingsVars, batch>>
  PROVE  Covers
<1>1. UNCHANGED <<conns, stream, out, batch>>
  BY DEF thingsVars, dbVars, esVars
<1>2. Underway' = Underway
  BY <1>1 DEF Underway
<1>. QED
  BY <1>1, <1>2 DEF Covers

\* An XADD that trims nothing.
LEMMA EmitCovers ==
  ASSUME EsOK, ~lost', NEW p \in Callers, Emit(p), batch' = batch
  PROVE  Covers
<1> DEFINE e == Head(out[p])
<1>0. Len(stream) # StreamLen
  BY DEF Emit
<1>1. out[p] \in Seq(Sent) /\ out[p] # <<>> /\ stream \in Seq(Sent) /\ Len(stream) < StreamLen
  BY <1>0, LenProperties, StreamLenAssumption DEF EsOK, Emit
<1>2. e \in Sent /\ ToSet(out[p]) = {e} \cup ToSet(Tail(out[p]))
  BY <1>1, HeadOrTail, HeadTailProperties
<1>3. Len(Append(stream, e)) = Len(stream) + 1 /\ Len(stream) \in Nat
  BY <1>1, <1>2, AppendProperties, LenProperties
<1>4. Trimmed(Append(stream, e)) = Append(stream, e)
  BY <1>1, <1>3, StreamLenAssumption DEF Trimmed
<1>5. stream' = Append(stream, e)
  BY <1>4 DEF Emit
<1>6. ToSet(stream) \subseteq ToSet(stream') /\ e \in ToSet(stream')
  BY <1>1, <1>2, <1>5, InAppend
<1>7. out'[p] = Tail(out[p]) /\ \A q \in Callers \ {p} : out'[q] = out[q]
  BY DEF Emit, EsOK
<1>8. \A q \in Callers : ToSet(out[q]) \subseteq ToSet(out'[q]) \cup {e}
  BY <1>2, <1>7
<1>9. Underway \subseteq Underway'
  BY <1>6, <1>8 DEF Underway
<1>. QED
  BY <1>9 DEF Covers, Emit, dbVars

\* XREADGROUP moves events from the stream to the batch.
LEMMA ReadCovers ==
  ASSUME EsOK, ReadGroup
  PROVE  Covers
<1> DEFINE n == IF Len(stream) < BatchSize THEN Len(stream) ELSE BatchSize
<1>1. Len(stream) \in Nat /\ stream \in Seq(Sent)
  BY LenProperties DEF EsOK
<1>2. n \in 0..Len(stream)
  BY <1>1, BootstrapBounds
<1>3. batch' = SubSeq(stream, 1, n) /\ stream' = SubSeq(stream, n + 1, Len(stream))
  BY DEF ReadGroup
<1>4. ToSet(stream) \subseteq ToSet(SubSeq(stream, 1, n)) \cup ToSet(SubSeq(stream, n + 1, Len(stream)))
  BY <1>1, <1>2, InParts, Zenon
<1>5. ToSet(stream) \subseteq ToSet(batch') \cup ToSet(stream')
  BY <1>3, <1>4, Zenon
<1>6. ToSet(batch) = {} /\ out' = out /\ conns' = conns
  BY DEF ReadGroup, ToSet, dbVars
<1>. QED
  BY <1>5, <1>6 DEF Covers, Underway

\* The requests but p are idle, and nothing holds them to a connection.
LEMMA ConnectingMoves ==
  ASSUME JobsOK, ActiveInv, NEW p \in BProcs, \A q \in BProcs \ {p} : pc[q] = "idle",
         NEW l, NEW j, Goto(p, l, j), Connecting(l, j, conns', state', bconns')
  PROVE  \A q \in BProcs : Connecting(pc'[q], job'[q], conns', state', bconns')
<1>1. pc'[p] = l /\ job'[p] = j /\ \A q \in BProcs \ {p} : pc'[q] = pc[q] /\ job'[q] = job[q]
  BY DEF JobsOK, Goto
<1>2. ASSUME NEW q \in BProcs \ {p}
      PROVE  Connecting(pc'[q], job'[q], conns', state', bconns')
  <2>1. pc'[q] = "idle" /\ job'[q].op = "none"
    BY <1>1 DEF ActiveInv, Connecting
  <2>. QED
    BY <2>1 DEF Connecting
<1>. QED
  BY <1>1, <1>2

\* A request without a config to connect.
LEMMA ConnectingOther ==
  ASSUME NEW l, NEW j, l \notin {"writeState", "writeConns", "disconnect", "connect"},
         j.op = "none" \/ (j.op = "add" /\ l # "idle")
  PROVE  Connecting(l, j, conns', state', bconns')
BY DEF Connecting

\* A request that is done.
LEMMA ConnectingDone ==
  ASSUME JobsOK, ActiveInv, NEW p \in BProcs, \A q \in BProcs \ {p} : pc[q] = "idle", Done(p)
  PROVE  \A q \in BProcs : Connecting(pc'[q], job'[q], conns', state', bconns')
<1>1. NoJob.op = "none"
  BY DEF NoJob
<1>2. Connecting("idle", NoJob, conns', state', bconns')
  BY <1>1, ConnectingOther
<1>. QED
  BY <1>2, ConnectingMoves DEF Done

\* What a request still has to connect stays so while no pair is disconnected,
\* no config is activated and no channel is added to a config.
LEMMA ConnectingKept ==
  ASSUME NEW l, NEW j, Connecting(l, j, conns, state, bconns), conns \subseteq conns',
         bconns' \subseteq bconns, state'[j.th] = "Active" => state[j.th] = "Active"
  PROVE  Connecting(l, j, conns', state', bconns')
BY DEF Connecting

\* The same of all requests; only a config is asked for its state.
LEMMA ConnectingStays ==
  ASSUME JobsOK, ActiveInv, UNCHANGED procVars, conns \subseteq conns', bconns' \subseteq bconns,
         \A t \in ThingIds : state'[t] = "Active" => state[t] = "Active"
  PROVE  \A p \in BProcs : Connecting(pc'[p], job'[p], conns', state', bconns')
<1> SUFFICES ASSUME NEW p \in BProcs
             PROVE  Connecting(pc[p], job[p], conns', state', bconns')
  BY DEF procVars
<1>1. Connecting(pc[p], job[p], conns, state, bconns)
  BY DEF ActiveInv
<1>2. job[p].op = "conns" => job[p].th \in ThingIds
  BY DEF JobsOK, JobOK
<1>. QED
  BY <1>1, <1>2 DEF Connecting
-----------------------------------------------------------------------------
(* The consumer. *)

\* The event that is handled leaves the batch.
LEMMA HandledHead ==
  ASSUME ConsumerOK, batch # <<>>, batch' = Tail(batch), UNCHANGED <<dbVars, esVars>>
  PROVE  /\ conns' = conns
         /\ \A e \in Underway : e = Head(batch) \/ e \in Underway'
<1>1. ToSet(batch) = {Head(batch)} \cup ToSet(batch')
  BY HeadOrTail DEF ConsumerOK
<1>2. stream' = stream /\ out' = out /\ conns' = conns
  BY DEF esVars, dbVars
<1>. QED
  BY <1>1, <1>2 DEF Underway

\* A handler keeps ActiveOK if it ends the pairs that its event settles.
LEMMA HandlerSettles ==
  ASSUME TablesOK, ConsumerOK, ActiveOK, batch # <<>>, batch' = Tail(batch), UNCHANGED <<dbVars, esVars>>,
         cfgs' \subseteq cfgs, bconns' \subseteq bconns,
         \A t \in ThingIds : state'[t] = "Active" => state[t] = "Active",
         \A t \in cfgs', c \in ChanIds : Settles(Head(batch), c, t) /\ <<t, c>> \in bconns' =>
           state'[t] # "Active"
  PROVE  ActiveOK'
<1> SUFFICES ASSUME NEW t \in cfgs', state'[t] = "Active", NEW c \in ChanIds, <<t, c>> \in bconns'
             PROVE  <<c, t>> \in conns' \/ \E e \in Underway' : Settles(e, c, t)
  BY DEF ActiveOK, ChansOf, Pending
<1>1. t \in cfgs /\ t \in ThingIds /\ state[t] = "Active" /\ c \in ChansOf(t)
  BY DEF ChansOf, TablesOK
<1>2. <<c, t>> \in conns \/ \E e \in Underway : Settles(e, c, t)
  BY <1>1 DEF ActiveOK, Pending
<1>3. ~Settles(Head(batch), c, t)
  OBVIOUS
<1>. QED
  BY <1>2, <1>3, HandledHead

\* Each handler ends what its event settles: RemoveConfigHandler the config,
\* RemoveChannelHandler the channel, DisconnectThingHandler every active state.
LEMMA ActiveHandle ==
  ASSUME IInv, ActiveInv, ~lost', Handle
  PROVE  ActiveInv'
<1>1. ASSUME UNCHANGED <<dbVars, esVars, procVars>>, bconns' \subseteq bconns, ActiveOK',
             \A t \in ThingIds : state'[t] = "Active" => state[t] = "Active"
      PROVE  ActiveInv'
  <2>1. conns' = conns
    BY <1>1 DEF dbVars
  <2>2. \A p \in BProcs : Connecting(pc'[p], job'[p], conns', state', bconns')
    BY <1>1, <2>1, ConnectingStays DEF IInv
  <2>. QED
    BY <1>1, <2>2 DEF ActiveInv
<1>2. CASE HandleRemoveThing
  <2> DEFINE t == Head(batch).th
  <2>1. /\ DropConfig(t) /\ batch' = Tail(batch) /\ UNCHANGED <<dbVars, esVars, procVars>>
        /\ batch # <<>> /\ Head(batch).op = "thing.remove"
    BY <1>2 DEF HandleRemoveThing, HandlerFails, Handling, Acked
  <2>2. cfgs' = cfgs \ {t} /\ bconns' \subseteq bconns
    BY <2>1 DEF DropConfig
  <2>3. \A x \in ThingIds : state'[x] = "Active" => state[x] = "Active"
    BY <2>1 DEF DropConfig, IInv, TablesOK, States
  <2>4. \A x \in cfgs', c \in ChanIds : ~Settles(Head(batch), c, x)
    BY <2>1, <2>2 DEF Settles
  <2>5. ActiveOK'
    BY <2>1, <2>2, <2>3, <2>4, HandlerSettles DEF IInv, ActiveInv
  <2>. QED
    BY <1>1, <2>1, <2>2, <2>3, <2>5
<1>3. CASE HandleRemoveChannel
  <2> DEFINE c == Head(batch).ch
  <2>1. /\ DropChannel(c) /\ batch' = Tail(batch) /\ UNCHANGED <<dbVars, esVars, procVars, cfgs, state>>
        /\ batch # <<>> /\ Head(batch).op = "channel.remove"
    BY <1>3 DEF HandleRemoveChannel, HandlerFails, Handling, Acked
  <2>2. bconns' \subseteq bconns /\ \A x \in cfgs : <<x, c>> \notin bconns'
    BY <2>1 DEF DropChannel
  <2>3. \A x \in cfgs', y \in ChanIds : Settles(Head(batch), y, x) => <<x, y>> \notin bconns'
    BY <2>1, <2>2 DEF Settles
  <2>4. ActiveOK'
    BY <2>1, <2>2, <2>3, HandlerSettles DEF IInv, ActiveInv
  <2>. QED
    BY <1>1, <2>1, <2>2, <2>4
<1>4. CASE HandleDisconnectThing
  <2> DEFINE c == Head(batch).ch
             t == Head(batch).th
  <2>1. /\ state' = Deactivated(c, t) /\ batch' = Tail(batch)
        /\ UNCHANGED <<dbVars, esVars, procVars, cfgs, bconns>>
        /\ batch # <<>> /\ Head(batch).op = "thing.disconnect"
    BY <1>4 DEF HandleDisconnectThing, HandlerFails, Handling, Acked
  <2>2. \A x \in ThingIds : state'[x] = "Active" => state[x] = "Active"
    BY <2>1 DEF Deactivated
  <2>3. \A x \in cfgs', y \in ChanIds : Settles(Head(batch), y, x) /\ <<x, y>> \in bconns' =>
          state'[x] # "Active"
    BY <2>1 DEF Settles, Deactivated, IInv, TablesOK
  <2>4. ActiveOK'
    BY <2>1, <2>2, <2>3, HandlerSettles DEF IInv, ActiveInv
  <2>. QED
    BY <1>1, <2>1, <2>2, <2>4
<1>5. CASE HandleOther
  <2>1. /\ batch' = Tail(batch) /\ UNCHANGED <<dbVars, esVars, procVars, cfgs, state, bconns>>
        /\ batch # <<>>
        /\ Head(batch).op \notin {"thing.remove", "thing.disconnect", "channel.remove"}
    BY <1>5 DEF HandleOther, Handling, Acked, bdbVars
  <2>2. \A x \in cfgs', c \in ChanIds : ~Settles(Head(batch), c, x)
    BY <2>1 DEF Settles
  <2>3. ActiveOK'
    BY <2>1, <2>2, HandlerSettles DEF IInv, ActiveInv
  <2>. QED
    BY <1>1, <2>1, <2>3
<1>6. CASE HandlerCleanup
  <2>1. UNCHANGED <<dbVars, esVars, procVars, batch, cfgs, state, bconns>>
    BY <1>6 DEF HandlerCleanup
  <2>2. Underway' = Underway /\ conns' = conns
    BY <2>1 DEF Underway, esVars, dbVars
  <2>3. ActiveOK'
    BY <2>1, <2>2 DEF ActiveInv, ActiveOK, ChansOf, Pending
  <2>. QED
    BY <1>1, <2>1, <2>3
<1>7. CASE HandleUpdateChannel
  BY <1>7 DEF HandleUpdateChannel, Handling, Die
<1>. QED
  BY <1>2, <1>3, <1>4, <1>5, <1>6, <1>7 DEF Handle
-----------------------------------------------------------------------------
(* Requests. *)

\* A request starts in a quiet system, where the channels of an active config
\* are connected.
LEMMA ActiveRequest ==
  ASSUME Serial, IInv, ActiveInv, NEW p \in BProcs, Request(p)
  PROVE  ActiveInv'
<1>1. Quiet /\ \A q \in BProcs \ {p} : pc[q] = "idle"
  BY DEF Request, Add, UpdateConnections, ChangeState, Remove, BootstrapDevice, Start, MayStart, Quiet
<1>2. \A t \in cfgs : state[t] = "Active" => \A c \in ChansOf(t) : <<c, t>> \in conns
  BY <1>1, QuietIsSettled DEF ActiveInv, ActiveOK, Pending
<1>3. ASSUME NEW l, NEW j, Goto(p, l, j), UNCHANGED <<thingsVars, bdbVars, consVars>>,
             Connecting(l, j, conns, state, bconns)
      PROVE  ActiveInv'
  <2>1. UNCHANGED <<conns, state, bconns>>
    BY <1>3 DEF thingsVars, dbVars, bdbVars
  <2>2. Connecting(l, j, conns', state', bconns')
    BY <1>3, <2>1
  <2>3. \A q \in BProcs : Connecting(pc'[q], job'[q], conns', state', bconns')
    BY <1>1, <1>3, <2>2, ConnectingMoves DEF IInv
  <2>4. ActiveOK'
    BY <1>3, ThingsCover, ActiveCovered DEF consVars, IInv, ActiveInv
  <2>. QED
    BY <2>3, <2>4 DEF ActiveInv
<1>4. ASSUME NEW u, NEW t, NEW e, NEW cs, Add(p, u, t, e, cs)
      PROVE  ActiveInv'
  <2> DEFINE j == [NoJob EXCEPT !.op = "add", !.user = u, !.th = t,
                       !.made = (t = None), !.ext = e, !.want = cs]
  <2>1. j.op = "add"
    BY DEF NoJob
  <2>2. Connecting("list", j, conns, state, bconns)
    BY <2>1 DEF Connecting
  <2>. QED
    BY <1>3, <1>4, <2>2 DEF Add
<1>5. ASSUME NEW u, NEW t \in ThingIds, NEW cs \in SUBSET ChanIds, UpdateConnections(p, u, t, cs)
      PROVE  ActiveInv'
  <2> DEFINE active == state[t] = "Active"
             j == [NoJob EXCEPT !.op = "conns", !.user = u, !.th = t, !.want = cs,
                         !.con = IF active THEN cs \ ChansOf(t) ELSE {},
                         !.dis = IF active THEN ChansOf(t) \ cs ELSE {}]
  <2>1. /\ j.op = "conns" /\ j.th = t /\ j.want = cs
        /\ j.con = (IF active THEN cs \ ChansOf(t) ELSE {})
        /\ j.dis = (IF active THEN ChansOf(t) \ cs ELSE {})
    BY DEF NoJob
  <2>2. t \in cfgs /\ Goto(p, "list", j) /\ UNCHANGED <<thingsVars, bdbVars, consVars>>
    BY <1>5 DEF UpdateConnections, HasConfig
  <2>3. active => \A c \in cs : c \in cs \ ChansOf(t) \/ <<c, t>> \in conns
    BY <1>2, <2>2
  <2> HIDE DEF j
  <2>4. Connecting("list", j, conns, state, bconns)
    BY <2>1, <2>3 DEF Connecting
  <2>. QED
    BY <1>3, <2>2, <2>4
<1>6. ASSUME NEW u, NEW t \in ThingIds, NEW st \in States, ChangeState(p, u, t, st)
      PROVE  ActiveInv'
  <2> DEFINE j == [NoJob EXCEPT !.op = "state", !.user = u, !.th = t, !.to = st,
                        !.con = IF st = "Active" THEN ChansOf(t) ELSE {},
                        !.dis = IF st = "Inactive" THEN ChansOf(t) ELSE {}]
  <2>1. /\ j.op = "state" /\ j.th = t /\ j.to = st
        /\ j.con = (IF st = "Active" THEN ChansOf(t) ELSE {})
        /\ j.dis = (IF st = "Inactive" THEN ChansOf(t) ELSE {})
    BY DEF NoJob
  <2>2. Goto(p, "disconnect", j) /\ UNCHANGED <<thingsVars, bdbVars, consVars>>
    BY <1>6 DEF ChangeState
  <2> HIDE DEF j
  <2>3. Connecting("disconnect", j, conns, state, bconns)
    BY <2>1 DEF Connecting, ChansOf
  <2>. QED
    BY <1>3, <2>2, <2>3
<1>7. ASSUME NEW e, NEW k, BootstrapDevice(p, e, k)
      PROVE  ActiveInv'
  <2> DEFINE j == [NoJob EXCEPT !.ext = <<e, k>>]
  <2>1. j.op = "none"
    BY DEF NoJob
  <2>2. Connecting("saveUnknown", j, conns, state, bconns)
    BY <2>1 DEF Connecting
  <2>. QED
    BY <1>3, <1>7, <2>2 DEF BootstrapDevice
<1>8. ASSUME NEW u, NEW t \in ThingIds, Remove(p, u, t)
      PROVE  ActiveInv'
  <2>1. NoJob.op = "none"
    BY DEF NoJob
  <2>2. Connecting("cleanup", NoJob, conns', state', bconns')
    BY <2>1, ConnectingOther
  <2>3. \A q \in BProcs : Connecting(pc'[q], job'[q], conns', state', bconns')
    BY <1>1, <1>8, <2>2, ConnectingMoves DEF IInv, Remove
  <2>4. /\ cfgs' \subseteq cfgs /\ bconns' \subseteq bconns
        /\ \A x \in cfgs' : state'[x] = "Active" => state[x] = "Active"
    BY <1>8 DEF Remove, DropConfig, IInv, TablesOK
  <2>5. conns' = conns
    BY <1>8 DEF Remove, thingsVars, dbVars
  <2>6. ActiveOK'
    BY <1>2, <2>4, <2>5 DEF ActiveOK, ChansOf
  <2>. QED
    BY <2>3, <2>6 DEF ActiveInv
<1>. QED
  BY <1>4, <1>5, <1>6, <1>7, <1>8 DEF Request

\* A request that takes a step is the only one.
LEMMA Alone ==
  ASSUME SerialOK, NEW p \in BProcs, pc[p] # "idle"
  PROVE  \A q \in BProcs \ {p} : pc[q] = "idle"
BY DEF SerialOK

\* A step of a request that writes no bootstrap table.
LEMMA ActiveMoves ==
  ASSUME IInv, SerialOK, ActiveInv, NEW p \in BProcs, pc[p] # "idle", Covers, UNCHANGED bdbVars,
         NEW l, NEW j, Goto(p, l, j), Connecting(l, j, conns', state', bconns')
  PROVE  ActiveInv'
<1>1. ActiveOK'
  BY ActiveCovered DEF IInv, ActiveInv
<1>2. \A q \in BProcs : Connecting(pc'[q], job'[q], conns', state', bconns')
  BY Alone, ConnectingMoves DEF IInv
<1>. QED
  BY <1>1, <1>2 DEF ActiveInv

\* The same when the request is done.
LEMMA ActiveDone ==
  ASSUME IInv, SerialOK, ActiveInv, NEW p \in BProcs, pc[p] # "idle", Covers, UNCHANGED bdbVars, Done(p)
  PROVE  ActiveInv'
<1>1. ActiveOK'
  BY ActiveCovered DEF IInv, ActiveInv
<1>2. \A q \in BProcs : Connecting(pc'[q], job'[q], conns', state', bconns')
  BY Alone, ConnectingDone DEF IInv
<1>. QED
  BY <1>1, <1>2 DEF ActiveInv

\* Reading the tables and fetching channels changes neither what is connected
\* nor what is to be.
LEMMA ActiveReads ==
  ASSUME IInv, SerialOK, ActiveInv, NEW p \in BProcs, ListExisting(p) \/ ConnectionChannels(p)
  PROVE  ActiveInv'
<1>1. /\ UNCHANGED <<bdbVars, conns, state, bconns>> /\ pc[p] \in {"list", "channels"} /\ job[p] \in Jobs
      /\ JobOK(pc[p], job[p], owner) /\ Connecting(pc[p], job[p], conns, state, bconns)
  BY DEF ListExisting, ConnectionChannels, At, bdbVars, thingsVars, dbVars, IInv, JobsOK, ActiveInv
<1>2. Covers
  BY ThingsCover DEF ListExisting, ConnectionChannels, consVars
<1>3. job[p].op \in {"add", "conns"}
  BY <1>1 DEF JobOK
<1>4. ASSUME NEW l \in {"channels", "disconnect", "create", "fetch"}, l = "disconnect" => job[p].op = "conns",
             NEW j, j.op = job[p].op, j.th = job[p].th, j.want = job[p].want, j.con = job[p].con,
             j.dis = job[p].dis, Goto(p, l, j)
      PROVE  ActiveInv'
  <2>1. Connecting(l, j, conns', state', bconns')
    BY <1>1, <1>3, <1>4 DEF Connecting
  <2>. QED
    BY <1>1, <1>2, <1>4, <2>1, ActiveMoves
<1>5. CASE ListExisting(p)
  <2> DEFINE miss == {c \in job[p].want : ~(c \in bchans /\ owner[c] = job[p].user)}
             j == [job[p] EXCEPT !.miss = miss, !.get = miss]
  <2>0. CASE Done(p)
    BY <1>1, <1>2, <2>0, ActiveDone
  <2>1. Goto(p, "channels", j) \/ Done(p)
    BY <1>5 DEF ListExisting
  <2>2. /\ j.op = job[p].op /\ j.th = job[p].th /\ j.want = job[p].want /\ j.con = job[p].con
        /\ j.dis = job[p].dis
    BY <1>1 DEF Jobs
  <2> HIDE DEF j
  <2>. QED
    BY <1>4, <2>0, <2>1, <2>2
<1>6. CASE ConnectionChannels(p)
  <2>1. CASE Done(p)
    BY <1>1, <1>2, <2>1, ActiveDone
  <2>2. CASE Goto(p, AfterChannels(job[p]), job[p])
    <3>1. /\ AfterChannels(job[p]) \in {"disconnect", "create", "fetch"}
          /\ AfterChannels(job[p]) = "disconnect" => job[p].op = "conns"
      BY DEF AfterChannels
    <3>. QED
      BY <1>4, <2>2, <3>1
  <2>3. ASSUME NEW c, Goto(p, "channels", [job[p] EXCEPT !.get = @ \ {c}])
        PROVE  ActiveInv'
    <3> DEFINE j == [job[p] EXCEPT !.get = @ \ {c}]
    <3>1. /\ j.op = job[p].op /\ j.th = job[p].th /\ j.want = job[p].want /\ j.con = job[p].con
          /\ j.dis = job[p].dis
      BY <1>1 DEF Jobs
    <3>2. Goto(p, "channels", j)
      BY <2>3
    <3> HIDE DEF j
    <3>. QED
      BY <1>4, <3>1, <3>2
  <2>. QED
    BY <1>6, <2>1, <2>2, <2>3 DEF ConnectionChannels
<1>. QED
  BY <1>5, <1>6

\* The steps of Add up to Save.
LEMMA ActiveAdd ==
  ASSUME IInv, SerialOK, ActiveInv, NEW p \in BProcs, CreateThing(p) \/ FetchThing(p) \/ DeleteThing(p)
  PROVE  ActiveInv'
<1>1. /\ UNCHANGED bdbVars /\ batch' = batch /\ pc[p] \in {"create", "fetch", "undo"} /\ p \in Callers
      /\ JobOK(pc[p], job[p], owner) /\ job[p] \in Jobs /\ EsOK
  BY CallersAssumption DEF CreateThing, FetchThing, DeleteThing, At, consVars, IInv, JobsOK
<1>2. job[p].op = "add" /\ job[p].user \in Users /\ job[p].th \in ThingIds \cup {None}
  BY <1>1 DEF JobOK, Jobs
<1>3. Covers
  <2>1. CASE UNCHANGED thingsVars
    BY <1>1, <2>1, ThingsCover
  <2>2. ASSUME NEW t \in ThingIds, NEW k \in Keys, NEW m \in Metas,
               EsCreateThings(p, job[p].user, <<t>>, [x \in {t} |-> k], m)
        PROVE  Covers
    BY <1>1, <2>2, CallConnects DEF EsCreateThings, SaveThings
  <2>3. CASE EsRemoveThing(p, job[p].user, job[p].th)
    BY <1>1, <1>2, <2>3, CallDisconnects
  <2>. QED
    BY <2>1, <2>2, <2>3 DEF CreateThing, FetchThing, DeleteThing
<1>4. CASE Done(p)
  BY <1>1, <1>3, <1>4, ActiveDone
<1>5. ASSUME NEW l \in {"fetch", "save", "undo"}, NEW j, j.op = "add", Goto(p, l, j)
      PROVE  ActiveInv'
  <2>1. Connecting(l, j, conns', state', bconns')
    BY <1>5 DEF Connecting
  <2>. QED
    BY <1>1, <1>3, <1>5, <2>1, ActiveMoves
<1>6. ASSUME NEW t, Goto(p, "fetch", [job[p] EXCEPT !.th = t])
      PROVE  ActiveInv'
  <2> DEFINE j == [job[p] EXCEPT !.th = t]
  <2>1. j.op = "add" /\ Goto(p, "fetch", j)
    BY <1>1, <1>2, <1>6 DEF Jobs
  <2> HIDE DEF j
  <2>. QED
    BY <1>5, <2>1
<1>7. CASE FetchThing(p)
  <2>1. CASE Goto(p, "save", job[p])
    BY <1>2, <1>5, <2>1
  <2>2. CASE Goto(p, AfterFetchError(job[p]), IF job[p].made THEN NoJob ELSE job[p])
    <3>1. Done(p) \/ Goto(p, "undo", job[p])
      BY <2>2 DEF AfterFetchError, Done
    <3>. QED
      BY <1>2, <1>4, <1>5, <3>1
  <2>. QED
    BY <1>4, <1>7, <2>1, <2>2 DEF FetchThing
<1>. QED
  BY <1>4, <1>6, <1>7 DEF CreateThing, DeleteThing

\* Save stores an inactive config.
LEMMA ActiveSave ==
  ASSUME IInv, SerialOK, ActiveInv, NEW p \in BProcs, Save(p)
  PROVE  ActiveInv'
<1>1. /\ pc[p] = "save" /\ JobOK(pc[p], job[p], owner) /\ job[p] \in Jobs
      /\ UNCHANGED <<thingsVars, consVars>>
  BY DEF Save, At, IInv, JobsOK
<1>2. job[p].op = "add" /\ job[p].th \in ThingIds
  BY <1>1 DEF JobOK
<1>3. Covers /\ conns' = conns /\ Underway' = Underway
  BY <1>1, ThingsCover DEF consVars, thingsVars, dbVars, esVars, Underway
<1>4. CASE UNCHANGED bdbVars
  <2>1. CASE Done(p)
    BY <1>1, <1>3, <1>4, <2>1, ActiveDone
  <2>2. CASE Goto(p, "undo", job[p])
    <3>1. Connecting("undo", job[p], conns', state', bconns')
      BY <1>2 DEF Connecting
    <3>. QED
      BY <1>1, <1>3, <1>4, <2>2, <3>1, ActiveMoves
  <2>. QED
    BY <1>4, <2>1, <2>2 DEF Save, SaveConfig
<1>5. CASE SaveConfig(job[p]) /\ Done(p)
  <2>1. \A q \in BProcs : Connecting(pc'[q], job'[q], conns', state', bconns')
    BY <1>1, <1>5, Alone, ConnectingDone DEF IInv
  <2>2. /\ cfgs' = cfgs \cup {job[p].th} /\ state'[job[p].th] = "Inactive"
        /\ \A t \in ThingIds \ {job[p].th} : state'[t] = state[t]
        /\ bconns' = bconns \cup ({job[p].th} \X job[p].want)
    BY <1>2, <1>5 DEF SaveConfig, IInv, TablesOK
  <2>3. \A t \in cfgs', c \in ChanIds : state'[t] = "Active" /\ <<t, c>> \in bconns' =>
          t \in cfgs /\ state[t] = "Active" /\ <<t, c>> \in bconns
    BY <2>2 DEF IInv, TablesOK
  <2>4. ActiveOK'
    BY <1>3, <2>3 DEF ActiveInv, ActiveOK, Pending, ChansOf
  <2>. QED
    BY <2>1, <2>4 DEF ActiveInv
<1>. QED
  BY <1>4, <1>5 DEF Save

\* A disconnect is of a channel that the config is about to lose, or comes with
\* an event that deactivates the config.
LEMMA ActiveDisconnect ==
  ASSUME IInv, SerialOK, ActiveInv, NEW p \in BProcs, DisconnectThings(p)
  PROVE  ActiveInv'
<1> DEFINE j == job[p]
<1>1. /\ UNCHANGED bdbVars /\ batch' = batch /\ pc[p] = "disconnect" /\ p \in Callers
      /\ JobOK(pc[p], j, owner) /\ j \in Jobs /\ EsOK
      /\ Connecting("disconnect", j, conns, state, bconns)
  BY CallersAssumption DEF DisconnectThings, At, consVars, IInv, JobsOK, ActiveInv
<1>2. j.dis \subseteq ChanIds /\ state' = state /\ bconns' = bconns
  BY <1>1 DEF Jobs, bdbVars
<1>3. ASSUME UNCHANGED thingsVars
      PROVE  Covers /\ conns' = conns
  BY <1>1, <1>3, ThingsCover DEF thingsVars, dbVars
<1>4. CASE j.dis = {} /\ Goto(p, "connect", j) /\ UNCHANGED thingsVars
  <2>1. Connecting("connect", j, conns', state', bconns')
    BY <1>1, <1>2, <1>3, <1>4 DEF Connecting
  <2>. QED
    BY <1>1, <1>3, <1>4, <2>1, ActiveMoves
<1>5. CASE Done(p) /\ UNCHANGED thingsVars
  BY <1>1, <1>3, <1>5, ActiveDone
<1>6. ASSUME NEW c \in j.dis, Goto(p, "disconnect", [j EXCEPT !.dis = @ \ {c}]), Covers,
             \A cn \in conns : cn # <<c, j.th>> => cn \in conns'
      PROVE  ActiveInv'
  <2> DEFINE k == [j EXCEPT !.dis = @ \ {c}]
  <2>1. /\ k.op = j.op /\ k.to = j.to /\ k.th = j.th /\ k.want = j.want /\ k.con = j.con
        /\ k.dis = j.dis \ {c}
    BY <1>1 DEF Jobs
  <2>2. Goto(p, "disconnect", k)
    BY <1>6
  <2> HIDE DEF k, j
  <2>3. Connecting("disconnect", k, conns', state', bconns')
    BY <1>1, <1>2, <1>6, <2>1 DEF Connecting
  <2>. QED
    BY <1>1, <1>6, <2>2, <2>3, ActiveMoves
<1>7. ASSUME NEW c \in j.dis, EsDisconnect(p, j.user, c, j.th)
      PROVE  Covers /\ \A cn \in conns : cn # <<c, j.th>> => cn \in conns'
  <2>1. Publish(p, <<ConnEvent("thing.disconnect", c, j.th)>>) /\ conns' = conns \ {<<c, j.th>>}
    BY <1>7 DEF EsDisconnect, DisconnectRow
  <2>2. Underway \subseteq Underway' /\ ConnEvent("thing.disconnect", c, j.th) \in Underway'
    BY <1>1, <2>1, PublishesEvent
  <2>3. Settles(ConnEvent("thing.disconnect", c, j.th), c, j.th)
    BY DEF Settles, ConnEvent
  <2>. QED
    BY <2>1, <2>2, <2>3 DEF Covers
<1>8. ASSUME NEW c \in j.dis, EsDisconnect(p, j.user, c, j.th), Done(p)
      PROVE  ActiveInv'
  BY <1>1, <1>7, <1>8, ActiveDone
<1>9. ASSUME NEW c \in j.dis, Goto(p, "disconnect", [j EXCEPT !.dis = @ \ {c}]),
             EsDisconnect(p, j.user, c, j.th) \/ UNCHANGED thingsVars
      PROVE  ActiveInv'
  <2>1. Covers /\ \A cn \in conns : cn # <<c, j.th>> => cn \in conns'
    BY <1>3, <1>7, <1>9
  <2>. QED
    BY <1>6, <1>9, <2>1
<1>. QED
  BY <1>4, <1>5, <1>8, <1>9 DEF DisconnectThings

\* Every channel that is connected is one less to connect.
LEMMA ActiveConnect ==
  ASSUME IInv, SerialOK, ActiveInv, NEW p \in BProcs, ConnectThings(p)
  PROVE  ActiveInv'
<1> DEFINE j == job[p]
<1>1. /\ UNCHANGED bdbVars /\ batch' = batch /\ pc[p] = "connect" /\ p \in Callers
      /\ JobOK(pc[p], j, owner) /\ j \in Jobs /\ EsOK
      /\ Connecting("connect", j, conns, state, bconns)
  BY CallersAssumption DEF ConnectThings, At, consVars, IInv, JobsOK, ActiveInv
<1>2. j.con \subseteq ChanIds /\ state' = state /\ bconns' = bconns
  BY <1>1 DEF Jobs, bdbVars
<1>3. ASSUME UNCHANGED thingsVars
      PROVE  Covers /\ conns' = conns
  BY <1>1, <1>3, ThingsCover DEF thingsVars, dbVars
<1>4. CASE /\ j.con = {} /\ Goto(p, IF j.op = "conns" THEN "writeConns" ELSE "writeState", j)
           /\ UNCHANGED thingsVars
  <2> DEFINE l == IF j.op = "conns" THEN "writeConns" ELSE "writeState"
  <2>1. Connecting(l, j, conns', state', bconns')
    BY <1>1, <1>2, <1>3, <1>4 DEF Connecting
  <2>2. Goto(p, l, j)
    BY <1>4
  <2> HIDE DEF l
  <2>. QED
    BY <1>1, <1>3, <1>4, <2>1, <2>2, ActiveMoves
<1>5. CASE Done(p) /\ UNCHANGED thingsVars
  BY <1>1, <1>3, <1>5, ActiveDone
<1>6. ASSUME NEW c \in j.con, EsConnect(p, j.user, <<c>>, <<j.th>>)
      PROVE  Covers /\ conns \subseteq conns' /\ <<c, j.th>> \in conns'
  <2>1. ToSet(<<c>>) = {c} /\ ToSet(<<j.th>>) = {j.th}
    BY One
  <2>2. conns' = conns \cup ({c} \X {j.th})
    BY <1>6, <2>1 DEF EsConnect, ConnectRows
  <2>3. Covers
    BY <1>1, <1>6, <2>2, CallConnects DEF EsConnect
  <2>. QED
    BY <2>2, <2>3
<1>7. ASSUME NEW c \in j.con, EsConnect(p, j.user, <<c>>, <<j.th>>), Done(p)
      PROVE  ActiveInv'
  BY <1>1, <1>6, <1>7, ActiveDone
<1>8. ASSUME NEW c \in j.con, EsConnect(p, j.user, <<c>>, <<j.th>>),
             Goto(p, "connect", [j EXCEPT !.con = @ \ {c}])
      PROVE  ActiveInv'
  <2> DEFINE k == [j EXCEPT !.con = @ \ {c}]
  <2>1. /\ k.op = j.op /\ k.to = j.to /\ k.th = j.th /\ k.want = j.want /\ k.dis = j.dis
        /\ k.con = j.con \ {c}
    BY <1>1 DEF Jobs
  <2>2. Goto(p, "connect", k)
    BY <1>8
  <2>3. Covers /\ conns \subseteq conns' /\ <<c, j.th>> \in conns'
    BY <1>6, <1>8
  <2> HIDE DEF k, j
  <2>4. Connecting("connect", k, conns', state', bconns')
    BY <1>1, <1>2, <2>1, <2>3 DEF Connecting
  <2>. QED
    BY <1>1, <2>2, <2>3, <2>4, ActiveMoves
<1>. QED
  BY <1>4, <1>5, <1>7, <1>8 DEF ConnectThings

\* The request is done and has written the bootstrap tables.
LEMMA ActiveWritten ==
  ASSUME IInv, SerialOK, ActiveInv, NEW p \in BProcs, pc[p] # "idle", Done(p),
         UNCHANGED <<thingsVars, consVars>>, cfgs' = cfgs,
         \A t \in cfgs, c \in ChanIds : state'[t] = "Active" /\ <<t, c>> \in bconns' =>
           \/ state[t] = "Active" /\ <<t, c>> \in bconns
           \/ <<c, t>> \in conns
  PROVE  ActiveInv'
<1>1. conns' = conns /\ Underway' = Underway
  BY DEF consVars, thingsVars, dbVars, esVars, Underway
<1>2. ActiveOK'
  <2> SUFFICES ASSUME NEW t \in cfgs, state'[t] = "Active", NEW c \in ChanIds, <<t, c>> \in bconns'
               PROVE  <<c, t>> \in conns \/ \E e \in Underway : Settles(e, c, t)
    BY <1>1 DEF ActiveOK, ChansOf, Pending
  <2>. QED
    BY DEF ActiveInv, ActiveOK, ChansOf, Pending
<1>3. \A q \in BProcs : Connecting(pc'[q], job'[q], conns', state', bconns')
  BY Alone, ConnectingDone DEF IInv
<1>. QED
  BY <1>2, <1>3 DEF ActiveInv

\* The last step of a request: UpdateConnections stores channels, and
\* ChangeState the state, once everything is connected.
LEMMA ActiveWrites ==
  ASSUME IInv, SerialOK, ActiveInv, NEW p \in BProcs,
         WriteConns(p) \/ WriteState(p) \/ Cleanup(p) \/ SaveUnknown(p)
  PROVE  ActiveInv'
<1> DEFINE j == job[p]
<1>1. /\ pc[p] # "idle" /\ Done(p) /\ UNCHANGED <<thingsVars, consVars>> /\ cfgs' = cfgs
      /\ j \in Jobs /\ JobOK(pc[p], j, owner) /\ Connecting(pc[p], j, conns, state, bconns)
  BY DEF WriteConns, WriteState, Cleanup, SaveUnknown, At, IInv, JobsOK, ActiveInv
<1>2. CASE WriteConns(p)
  <2>1. state' = state /\ j.op = "conns" /\ j.con = {} /\ j.th \in ThingIds
    BY <1>1, <1>2 DEF WriteConns, At, JobOK, Connecting
  <2>2. bconns' = bconns \/ bconns' = Replaced(j)
    BY <1>2 DEF WriteConns, UpdateConfigConns
  <2>3. \A t \in cfgs, c \in ChanIds : state'[t] = "Active" /\ <<t, c>> \in bconns' =>
          \/ state[t] = "Active" /\ <<t, c>> \in bconns
          \/ <<c, t>> \in conns
    BY <1>1, <2>1, <2>2 DEF Replaced, Connecting
  <2>. QED
    BY <1>1, <2>3, ActiveWritten
<1>3. CASE WriteState(p)
  <2>1. bconns' = bconns /\ j.op = "state" /\ j.con = {} /\ j.to \in States
    BY <1>1, <1>3 DEF WriteState, At, Connecting, Jobs
  <2>2. \A t \in cfgs : state'[t] = state[t] \/ (t = j.th /\ state'[t] = j.to)
    <3>1. state \in [ThingIds -> States] /\ cfgs \subseteq ThingIds
      BY DEF IInv, TablesOK
    <3>2. state' = state \/ state' = [state EXCEPT ![j.th] = j.to]
      BY <1>3 DEF WriteState
    <3>. QED
      BY <3>1, <3>2
  <2>3. \A t \in cfgs, c \in ChanIds : state'[t] = "Active" /\ <<t, c>> \in bconns' =>
          \/ state[t] = "Active" /\ <<t, c>> \in bconns
          \/ <<c, t>> \in conns
    BY <1>1, <2>1, <2>2 DEF Connecting
  <2>. QED
    BY <1>1, <2>3, ActiveWritten
<1>4. CASE Cleanup(p) \/ SaveUnknown(p)
  <2>1. state' = state /\ bconns' = bconns
    BY <1>4 DEF Cleanup, SaveUnknown
  <2>. QED
    BY <1>1, <2>1, ActiveWritten
<1>. QED
  BY <1>2, <1>3, <1>4

\* A direct call finds no request under way.
LEMMA ActiveClient ==
  ASSUME Serial, IInv, ActiveInv, NEW p \in Clients, NEW u \in Users, ClientRequest(p, u)
  PROVE  ActiveInv'
<1>1. /\ UNCHANGED <<bdbVars, procVars>> /\ batch' = batch /\ p \in Callers /\ EsOK
      /\ \A q \in BProcs : pc[q] = "idle"
  BY CallersAssumption DEF ClientRequest, consVars, MayCall, IInv
<1>2. Covers
  <2>1. ASSUME NEW c \in ChanIds, NEW t \in ThingIds, EsConnect(p, u, <<c>>, <<t>>)
        PROVE  Covers
    BY <1>1, <2>1, CallConnects DEF EsConnect, ConnectRows
  <2>2. ASSUME NEW t \in ThingIds, NEW m \in Metas, EsUpdateThing(p, u, t, m)
        PROVE  Covers
    BY <1>1, <2>2, CallConnects DEF EsUpdateThing, UpdateThingRow
  <2>3. ASSUME NEW t \in ThingIds, NEW k \in Keys, EsUpdateKey(p, u, t, k)
        PROVE  Covers
    BY <1>1, <2>3, CallConnects DEF EsUpdateKey, UpdateKeyRow
  <2>4. ASSUME NEW c \in ChanIds, NEW m \in Metas, EsCreateChannels(p, u, <<c>>, m)
        PROVE  Covers
    BY <1>1, <2>4, CallConnects DEF EsCreateChannels, SaveChannels
  <2>5. ASSUME NEW c \in ChanIds, NEW m \in Metas, EsUpdateChannel(p, u, c, m)
        PROVE  Covers
    BY <1>1, <2>5, CallConnects DEF EsUpdateChannel, UpdateChannelRow
  <2>6. ASSUME NEW c \in ChanIds, NEW t \in ThingIds, EsDisconnect(p, u, c, t)
        PROVE  Covers
    BY <1>1, <2>6, CallDisconnects
  <2>7. ASSUME NEW t \in ThingIds, EsRemoveThing(p, u, t)
        PROVE  Covers
    BY <1>1, <2>7, CallDisconnects
  <2>8. ASSUME NEW c \in ChanIds, EsRemoveChannel(p, u, c)
        PROVE  Covers
    BY <1>1, <2>8, CallDisconnects
  <2>. QED
    BY <2>1, <2>2, <2>3, <2>4, <2>5, <2>6, <2>7, <2>8 DEF ClientRequest
<1>3. ActiveOK'
  BY <1>1, <1>2, ActiveCovered DEF IInv, ActiveInv
<1>4. ASSUME NEW q \in BProcs
      PROVE  Connecting(pc'[q], job'[q], conns', state', bconns')
  <2>1. pc'[q] = "idle" /\ job'[q].op = "none"
    BY <1>1 DEF ActiveInv, Connecting, procVars
  <2>. QED
    BY <2>1 DEF Connecting
<1>. QED
  BY <1>3, <1>4 DEF ActiveInv

\* XADDs and the consumer's read move events, and nothing else.
LEMMA ActiveStays ==
  ASSUME IInv, ActiveInv, Covers, UNCHANGED <<bdbVars, procVars, conns>>
  PROVE  ActiveInv'
<1>1. ActiveOK'
  BY ActiveCovered DEF IInv, ActiveInv
<1>2. \A p \in BProcs : Connecting(pc'[p], job'[p], conns', state', bconns')
  BY DEF ActiveInv, bdbVars, procVars
<1>. QED
  BY <1>1, <1>2 DEF ActiveInv

\* A process that dies with an empty batch loses no event.
LEMMA ActiveDie ==
  ASSUME ActiveInv, ~lost', Die
  PROVE  ActiveInv'
<1>1. batch' = batch /\ UNCHANGED <<dbVars, esVars, cfgs, state, bconns>>
  BY DEF Die
<1>2. Underway' = Underway /\ conns' = conns
  BY <1>1 DEF Underway, esVars, dbVars
<1>3. ActiveOK'
  BY <1>1, <1>2 DEF ActiveInv, ActiveOK, ChansOf, Pending
<1>4. NoJob.op = "none"
  BY DEF NoJob
<1>5. ASSUME NEW p \in BProcs
      PROVE  Connecting(pc'[p], job'[p], conns', state', bconns')
  <2>1. pc'[p] = "idle" /\ job'[p] = NoJob
    BY DEF Die
  <2>. QED
    BY <1>4, <2>1 DEF Connecting
<1>. QED
  BY <1>3, <1>5 DEF ActiveInv

\* The strengthened property is inductive when requests do not overlap and no
\* event is lost.
LEMMA ActiveNext ==
  ASSUME Serial, IInv, SerialOK, ActiveInv, ~lost', [Next]_vars
  PROVE  ActiveInv'
<1>1. ASSUME NEW p \in BProcs, Work(p)
      PROVE  ActiveInv'
  BY <1>1, ActiveReads, ActiveAdd, ActiveSave, ActiveDisconnect, ActiveConnect, ActiveWrites DEF Work
<1>2. ASSUME NEW p \in Callers, EmitStep(p)
      PROVE  ActiveInv'
  <2>1. Covers
    BY <1>2, EmitCovers DEF EmitStep, consVars, IInv
  <2>. QED
    BY <1>2, <2>1, ActiveStays DEF EmitStep, Emit, dbVars
<1>3. CASE ReadGroup
  BY <1>3, ReadCovers, ActiveStays DEF ReadGroup, IInv, dbVars
<1>4. CASE UNCHANGED vars
  <2>1. Covers
    BY <1>4, ThingsCover DEF vars, thingsVars, consVars
  <2>. QED
    BY <1>4, <2>1, ActiveStays DEF vars, dbVars
<1>. QED
  BY <1>1, <1>2, <1>3, <1>4, ActiveRequest, ActiveClient, ActiveHandle, ActiveDie DEF Next, Crash

\* Unless an event is lost before its handler is done, every channel of an
\* active config is connected once the events are consumed: for any number of
\* direct calls between bootstrap requests that do not overlap, whatever SDK
\* calls of UpdateConnections and ChangeState fail before or after their
\* effect, whatever of their statements and commits fails, and wherever the
\* process dies (bootstrap/service.go, bootstrap/redis/consumer).
THEOREM ActiveConfigsAreConnected ==
  ASSUME Serial
  PROVE  Spec => []ActiveIsConnected
<1>1. Init => ActiveInv
  <2> SUFFICES ASSUME NEW u, NEW ts, NEW cs, InitFrom(u, ts, cs)
               PROVE  ActiveInv
    BY DEF Init
  <2>1. NoJob.op = "none"
    BY DEF NoJob
  <2>2. Connecting("idle", NoJob, conns, state, bconns)
    BY <2>1 DEF Connecting
  <2>. QED
    BY <2>2 DEF InitFrom, ActiveInv, ActiveOK
<1>2. Init => SerialOK
  BY DEF Init, InitFrom, SerialOK
<1>3. IInv /\ SerialOK /\ [Next]_vars => SerialOK'
  BY SerialNext
<1>4. IInv /\ HistoryOK /\ [Next]_vars => (lost => lost')
  BY HistoryNext
<1>5. IInv /\ SerialOK /\ ActiveInv /\ [Next]_vars => (lost' \/ ActiveInv')
  BY ActiveNext
<1>6. lost \/ ActiveInv => ActiveIsConnected
  BY QuietIsSettled DEF ActiveInv, ActiveOK, ActiveIsConnected, Pending
<1>. QED
  BY <1>1, <1>2, <1>3, <1>4, <1>5, <1>6, Inductive, Histories, PTL DEF Spec
=============================================================================
