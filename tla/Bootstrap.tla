----------------------------- MODULE Bootstrap ------------------------------
(***************************************************************************)
(* The bootstrap service (bootstrap/service.go) with its PostgreSQL tables *)
(* (bootstrap/postgres), the things service it calls through the SDK       *)
(* (sdk/go) and the consumer of the things event stream                    *)
(* (bootstrap/redis/consumer).                                             *)
(*                                                                         *)
(* A request takes one step per transaction and per SDK call.  An SDK call *)
(* is a request to the things service: it returns once the events of that  *)
(* request are out.  A config belongs to the owner of its thing and stores *)
(* channels of that owner only, because both are fetched with the caller's *)
(* token, so the owner columns are those of the things service.            *)
(***************************************************************************)
EXTENDS ThingsEvents

CONSTANTS BProcs,     \* goroutines of the bootstrap service
          Clients,    \* users that call the things service directly
          ClientOps,  \* bound: which direct calls they make
          ExtIds,     \* external ids of devices
          ExtKeys,    \* external keys of devices
          BatchSize,  \* XREADGROUP COUNT (100 in the code)
          SdkFaults,  \* may an SDK call fail, before or after its effect?
          DbFaults,   \* may a statement or a commit fail?
          Crashes,    \* may the bootstrap process die?
          Serial      \* does a bootstrap request start only once the system is
                      \* quiet, and run without direct calls in between?

ASSUME CallersAssumption == Callers = BProcs \cup Clients
ASSUME BootstrapBounds == BatchSize \in Nat \ {0} /\ Clients \cap BProcs = {}
ASSUME ExtKeysAssumption == None \notin ExtKeys

VARIABLES cfgs,     \* things with a row in configs
          state,    \* column state: "Inactive" or "Active"
          ext,      \* columns external_id, external_key: <<id, key>>
          bchans,   \* rows of the bootstrap service's channels table
          bconns,   \* rows of its connections table: <<thing, channel>>
          unknown,  \* unknown_configs: external id -> external key or None
          left,     \* history: channels that a cleanup should have removed and
                    \* did not, because it failed or the process died before it
          pc,       \* next step of each bootstrap request
          job,      \* its arguments and what it has read
          batch,    \* events delivered to the consumer, not yet handled
          cleaning  \* the consumer still has to run cleanupQuery

bdbVars == <<cfgs, state, ext, bchans, bconns, unknown, left>>
procVars == <<pc, job>>
consVars == <<batch, cleaning>>
thingsVars == <<dbVars, esVars, lost>>
vars == <<dbVars, esVars, lost, bdbVars, procVars, consVars>>

States == {"Inactive", "Active"}

NoJob == [op |-> "none", user |-> None, th |-> None, made |-> FALSE,
          ext |-> None, want |-> {}, miss |-> {}, get |-> {}, con |-> {},
          dis |-> {}, to |-> "Inactive"]

Labels == {"idle", "list", "channels", "create", "fetch", "save", "undo", "disconnect",
           "connect", "writeConns", "writeState", "cleanup", "saveUnknown"}

\* A registry of things and channels, with no config yet: u owns everything
\* but the ids that are still to be generated.
InitFrom(u, ts, cs) ==
  /\ things = ts /\ chans = cs /\ conns = {}
  /\ owner = [x \in Ids |-> IF x \in ts \cup cs THEN u ELSE None]
  /\ \E f \in [ts -> Keys] :
       /\ \A t, x \in ts : f[t] = f[x] => t = x
       /\ key = [t \in ThingIds |-> IF t \in ts THEN f[t] ELSE None]
  /\ \E m \in Metas : meta = [x \in Ids |-> IF x \in ts \cup cs THEN m ELSE None]
  /\ EsInit
  /\ cfgs = {} /\ bchans = {} /\ bconns = {} /\ left = {}
  /\ state = [t \in ThingIds |-> "Inactive"]
  /\ ext = [t \in ThingIds |-> None]
  /\ unknown = [e \in ExtIds |-> None]
  /\ pc = [p \in BProcs |-> "idle"]
  /\ job = [p \in BProcs |-> NoJob]
  /\ batch = <<>> /\ cleaning = FALSE

Init ==
  \E u \in Users, ts \in SUBSET ThingIds, cs \in SUBSET ChanIds : InitFrom(u, ts, cs)

Quiet ==
  /\ \A p \in Callers : Answered(p)
  /\ \A p \in BProcs : pc[p] = "idle"
  /\ stream = <<>> /\ batch = <<>> /\ ~cleaning

\* A bootstrap request, or a direct call to the things service, may start now.
MayStart == Serial => Quiet
MayCall == Serial => \A p \in BProcs : pc[p] = "idle" /\ Answered(p)

Goto(p, l, j) ==
  /\ pc' = [pc EXCEPT ![p] = l]
  /\ job' = [job EXCEPT ![p] = j]

Done(p) == Goto(p, "idle", NoJob)

\* p is at label l and its last SDK call has returned.
At(p, l) == pc[p] = l /\ Answered(p)

Start(p) == At(p, "idle") /\ MayStart
-----------------------------------------------------------------------------
(* Statements of the bootstrap tables. *)

ChansOf(t) == {c \in ChanIds : <<t, c>> \in bconns}

\* cleanupQuery: channels without a connection.
Dangling(cn) == {c \in bchans : \A t \in ThingIds : <<t, c>> \notin cn}

\* The cleanupQuery that follows a DELETE; where it fails the code only warns.
CleanChannels ==
  \/ bchans' = bchans \ Dangling(bconns) /\ left' = {}
  \/ DbFaults /\ UNCHANGED bchans /\ left' = left \cup Dangling(bconns)

\* A row of configs goes, its connections by cascade.
DropConfig(t) ==
  /\ cfgs' = cfgs \ {t}
  /\ state' = [state EXCEPT ![t] = "Inactive"]
  /\ ext' = [ext EXCEPT ![t] = None]
  /\ bconns' = {cn \in bconns : cn[1] # t}

\* DELETE FROM channels, with the connections of the channel.
DropChannel(c) ==
  /\ bchans' = bchans \ {c}
  /\ bconns' = {cn \in bconns : cn[2] # c}

\* Mutant of ChannelsFit: insertion without the foreign key.
ChannelsFitNoFK(j) == j.miss \cap bchans = {}

\* The missing channels may be inserted (UNIQUE) and every wanted one may be
\* connected (foreign key on channel and owner).
ChannelsFit(j) ==
  /\ j.miss \cap bchans = {}
  /\ \A c \in j.want \ j.miss : c \in bchans /\ owner[c] = j.user

\* Save: config, channels, connections and unknown_configs in one transaction;
\* the constraints that the columns kept here decide.
SaveOK(j) ==
  /\ j.th \notin cfgs
  /\ \A t \in cfgs : ext[t][1] # j.ext[1]
  /\ ChannelsFit(j)

\* UNIQUE(mainflux_key): a config keeps the key that its thing had when it was
\* added, which another thing may have by now; the column is not kept here.
KeyMayClash(j) == cfgs \ {j.th} # {}

\* DELETE FROM unknown_configs WHERE external_id AND external_key.
Forgotten(j) == [unknown EXCEPT ![j.ext[1]] = IF @ = j.ext[2] THEN None ELSE @]

SaveConfig(j) ==
  /\ cfgs' = cfgs \cup {j.th}
  /\ state' = [state EXCEPT ![j.th] = "Inactive"]
  /\ ext' = [ext EXCEPT ![j.th] = j.ext]
  /\ bchans' = bchans \cup j.miss
  /\ bconns' = bconns \cup ({j.th} \X j.want)
  /\ unknown' = Forgotten(j)
  /\ left' = left \ j.want

\* UpdateConnections: an empty list of connections changes nothing; otherwise
\* the rows of the config are replaced ("NOT IN ($3)" compares with the text of
\* the whole array, so every row of the config goes) and, if there were any,
\* the channels table is cleaned up.
UpdateOK(j) ==
  \/ j.want = {}
  \/ j.th \in cfgs /\ ChannelsFit(j)

Replaced(j) == {cn \in bconns : cn[1] # j.th} \cup ({j.th} \X j.want)

\* Mutant of UpdateConfigConns: no cleanup of the channels table.
UpdateConfigConnsNoCleanup(j) ==
  IF j.want = {} THEN UNCHANGED <<bchans, bconns, left>>
  ELSE bconns' = Replaced(j) /\ bchans' = bchans \cup j.miss /\ UNCHANGED left

UpdateConfigConns(j) ==
  IF j.want = {} THEN UNCHANGED <<bchans, bconns, left>>
  ELSE LET cn == Replaced(j)
       IN /\ bconns' = cn
          /\ IF ChansOf(j.th) = {}
               THEN bchans' = bchans \cup j.miss /\ left' = left \ j.want
               ELSE bchans' = (bchans \cup j.miss) \ Dangling(cn) /\ left' = {}
-----------------------------------------------------------------------------
(* Add: the channels that are not stored yet are fetched, the thing is     *)
(* fetched, after being created when the request names none, and the       *)
(* config is saved.                                                        *)

Add(p, u, t, e, cs) ==
  /\ Start(p)
  /\ Goto(p, "list", [NoJob EXCEPT !.op = "add", !.user = u, !.th = t,
                       !.made = (t = None), !.ext = e, !.want = cs])
  /\ UNCHANGED <<thingsVars, bdbVars, consVars>>

\* configs.ListExisting, of Add and of UpdateConnections.
ListExisting(p) ==
  /\ At(p, "list")
  /\ \/ LET miss == {c \in job[p].want : ~(c \in bchans /\ owner[c] = job[p].user)}
        IN Goto(p, "channels", [job[p] EXCEPT !.miss = miss, !.get = miss])
     \/ DbFaults /\ Done(p)
  /\ UNCHANGED <<thingsVars, bdbVars, consVars>>

\* Where a request goes once its missing channels are fetched.
AfterChannels(j) ==
  IF j.op = "conns" THEN "disconnect" ELSE IF j.made THEN "create" ELSE "fetch"

\* connectionChannels: sdk.Channel for each missing channel, in any order; the
\* first failure is ErrMalformedEntity.
ConnectionChannels(p) ==
  /\ At(p, "channels")
  /\ \/ job[p].get = {} /\ Goto(p, AfterChannels(job[p]), job[p])
     \/ \E c \in job[p].get :
          \/ /\ c \in chans /\ owner[c] = job[p].user
             /\ Goto(p, "channels", [job[p] EXCEPT !.get = @ \ {c}])
          \/ /\ c \notin chans \/ owner[c] # job[p].user \/ SdkFaults
             /\ Done(p)
  /\ UNCHANGED <<thingsVars, bdbVars, consVars>>

\* sdk.CreateThing, with a generated key; it also fails when the bound ThingIds
\* is used up.
CreateThing(p) ==
  /\ At(p, "create")
  /\ \/ /\ \E t \in ThingIds, k \in Keys, m \in Metas :
             /\ EsCreateThings(p, job[p].user, <<t>>, [x \in {t} |-> k], m)
             /\ \/ Goto(p, "fetch", [job[p] EXCEPT !.th = t])
                \/ SdkFaults /\ Done(p)
     \/ /\ SdkFaults \/ \A t \in ThingIds : owner[t] # None
        /\ Done(p) /\ UNCHANGED thingsVars
  /\ UNCHANGED <<bdbVars, consVars>>

\* sdk.Thing.  On an error other than ErrNotFound, thing() calls DeleteThing
\* if the request did name a thing.
AfterFetchError(j) == IF j.made THEN "idle" ELSE "undo"

FetchThing(p) ==
  /\ At(p, "fetch")
  /\ LET j == job[p]
         found == j.th \in things /\ owner[j.th] = j.user
     IN \/ found /\ Goto(p, "save", j)
        \/ ~found /\ Done(p)                                    \* ErrNotFound
        \/ /\ SdkFaults                                         \* ErrThings
           /\ Goto(p, AfterFetchError(j), IF j.made THEN NoJob ELSE j)
  /\ UNCHANGED <<thingsVars, bdbVars, consVars>>

\* A statement that fails ends in an error, and a thing that was made for the
\* request is deleted again; a commit that fails is answered like a success.
Save(p) ==
  /\ At(p, "save")
  /\ \/ SaveOK(job[p]) /\ SaveConfig(job[p]) /\ Done(p)
     \/ /\ ~SaveOK(job[p]) \/ KeyMayClash(job[p]) \/ DbFaults
        /\ IF job[p].made THEN Goto(p, "undo", job[p]) ELSE Done(p)
        /\ UNCHANGED bdbVars
     \/ DbFaults /\ SaveOK(job[p]) /\ Done(p) /\ UNCHANGED bdbVars
  /\ UNCHANGED <<thingsVars, consVars>>

\* sdk.DeleteThing; its result is ignored.
DeleteThing(p) ==
  /\ At(p, "undo")
  /\ \/ EsRemoveThing(p, job[p].user, job[p].th)
     \/ SdkFaults /\ UNCHANGED thingsVars
  /\ Done(p)
  /\ UNCHANGED <<bdbVars, consVars>>
-----------------------------------------------------------------------------
(* UpdateConnections and ChangeState: the config is read, the things       *)
(* service is told channel by channel, then the config is written.         *)

HasConfig(u, t) == t \in cfgs /\ owner[t] = u

\* RetrieveByID and updateList: nothing to tell for an inactive config.
UpdateConnections(p, u, t, cs) ==
  /\ Start(p) /\ HasConfig(u, t)
  /\ LET active == state[t] = "Active"
     IN Goto(p, "list", [NoJob EXCEPT !.op = "conns", !.user = u, !.th = t, !.want = cs,
                         !.con = IF active THEN cs \ ChansOf(t) ELSE {},
                         !.dis = IF active THEN ChansOf(t) \ cs ELSE {}])
  /\ UNCHANGED <<thingsVars, bdbVars, consVars>>

ChangeState(p, u, t, st) ==
  /\ Start(p) /\ HasConfig(u, t) /\ state[t] # st
  /\ Goto(p, "disconnect",
          [NoJob EXCEPT !.op = "state", !.user = u, !.th = t, !.to = st,
                        !.con = IF st = "Active" THEN ChansOf(t) ELSE {},
                        !.dis = IF st = "Inactive" THEN ChansOf(t) ELSE {}])
  /\ UNCHANGED <<thingsVars, bdbVars, consVars>>

\* sdk.DisconnectThing: ErrNotFound is fine, any other error ends the request.
DisconnectThings(p) ==
  /\ At(p, "disconnect")
  /\ LET j == job[p] IN
     \/ j.dis = {} /\ Goto(p, "connect", j) /\ UNCHANGED thingsVars
     \/ \E c \in j.dis :
          \/ /\ EsDisconnect(p, j.user, c, j.th)
             /\ \/ Goto(p, "disconnect", [j EXCEPT !.dis = @ \ {c}])
                \/ SdkFaults /\ Done(p)
          \/ /\ ~OwnConn(j.user, c, j.th)
             /\ Goto(p, "disconnect", [j EXCEPT !.dis = @ \ {c}])
             /\ UNCHANGED thingsVars
          \/ SdkFaults /\ Done(p) /\ UNCHANGED thingsVars
  /\ UNCHANGED <<bdbVars, consVars>>

\* sdk.ConnectThing: every error ends the request, also the conflict of a pair
\* that is connected already.
ConnectThings(p) ==
  /\ At(p, "connect")
  /\ LET j == job[p] IN
     \/ /\ j.con = {}
        /\ Goto(p, IF j.op = "conns" THEN "writeConns" ELSE "writeState", j)
        /\ UNCHANGED thingsVars
     \/ \E c \in j.con :
          \/ /\ EsConnect(p, j.user, <<c>>, <<j.th>>)
             /\ \/ Goto(p, "connect", [j EXCEPT !.con = @ \ {c}])
                \/ SdkFaults /\ Done(p)
          \/ /\ ~ForeignKeys(j.user, c, j.th) \/ <<c, j.th>> \in conns \/ SdkFaults
             /\ Done(p) /\ UNCHANGED thingsVars
  /\ UNCHANGED <<bdbVars, consVars>>

WriteConns(p) ==
  /\ At(p, "writeConns")
  /\ \/ UpdateOK(job[p]) /\ UpdateConfigConns(job[p])
     \/ ~UpdateOK(job[p]) /\ UNCHANGED <<bchans, bconns, left>>
     \/ DbFaults /\ UNCHANGED <<bchans, bconns, left>>
  /\ Done(p)
  /\ UNCHANGED <<thingsVars, cfgs, state, ext, unknown, consVars>>

WriteState(p) ==
  /\ At(p, "writeState")
  /\ \/ state' = IF HasConfig(job[p].user, job[p].th)
                   THEN [state EXCEPT ![job[p].th] = job[p].to] ELSE state
     \/ DbFaults /\ UNCHANGED state
  /\ Done(p)
  /\ UNCHANGED <<thingsVars, cfgs, ext, bchans, bconns, unknown, left, consVars>>
-----------------------------------------------------------------------------
(* Remove, and the call of the device itself. *)


\* A DELETE that fails ends the request and changes nothing.
Remove(p, u, t) ==
  /\ Start(p)
  /\ IF HasConfig(u, t) THEN DropConfig(t) ELSE UNCHANGED <<cfgs, state, ext, bconns>>
  /\ Goto(p, "cleanup", NoJob)
  /\ UNCHANGED <<thingsVars, bchans, unknown, left, consVars>>

Cleanup(p) ==
  /\ At(p, "cleanup")
  /\ CleanChannels
  /\ Done(p)
  /\ UNCHANGED <<thingsVars, cfgs, state, ext, bconns, unknown, consVars>>

\* RetrieveByExternalID: a device without config is remembered as unknown.
BootstrapDevice(p, e, k) ==
  /\ Start(p)
  /\ \A t \in cfgs : ext[t][1] # e
  /\ Goto(p, "saveUnknown", [NoJob EXCEPT !.ext = <<e, k>>])
  /\ UNCHANGED <<thingsVars, bdbVars, consVars>>

SaveUnknown(p) ==
  /\ At(p, "saveUnknown")
  /\ \/ unknown' = [unknown EXCEPT ![job[p].ext[1]] = IF @ = None THEN job[p].ext[2] ELSE @]
     \/ DbFaults /\ UNCHANGED unknown
  /\ Done(p)
  /\ UNCHANGED <<thingsVars, cfgs, state, ext, bchans, bconns, left, consVars>>
-----------------------------------------------------------------------------
(* The consumer.  XREADGROUP ">" delivers each entry once; what is not     *)
(* acknowledged stays pending in Redis and is never read again.            *)

ReadGroup ==
  /\ batch = <<>> /\ ~cleaning /\ stream # <<>>
  /\ LET n == IF Len(stream) < BatchSize THEN Len(stream) ELSE BatchSize
     IN /\ batch' = SubSeq(stream, 1, n)
        /\ stream' = SubSeq(stream, n + 1, Len(stream))
  /\ UNCHANGED <<dbVars, out, lost, bdbVars, procVars, cleaning>>

Handling(o) == batch # <<>> /\ ~cleaning /\ Head(batch).op = o

\* The event is acknowledged.
Acked == batch' = Tail(batch) /\ UNCHANGED lost

\* A handler that fails: break leaves the rest of the batch.
HandlerFails == DbFaults /\ batch' = <<>> /\ lost' = TRUE /\ UNCHANGED bdbVars

\* Mutant of HandleRemoveThing: the event is acknowledged, the row stays.
HandleRemoveThingIgnored ==
  /\ Handling("thing.remove")
  /\ Acked /\ cleaning' = TRUE
  /\ UNCHANGED <<dbVars, esVars, procVars, bdbVars>>

HandleRemoveThing ==
  /\ Handling("thing.remove")
  /\ \/ DropConfig(Head(batch).th) /\ Acked /\ UNCHANGED <<bchans, unknown, left>>
     \/ HandlerFails
  /\ cleaning' = TRUE
  /\ UNCHANGED <<dbVars, esVars, procVars>>

HandlerCleanup ==
  /\ cleaning /\ cleaning' = FALSE
  /\ CleanChannels
  /\ UNCHANGED <<dbVars, esVars, lost, procVars, batch, cfgs, state, ext, bconns, unknown>>

\* Mutant of Deactivated: the state stays as it is.
DeactivatedNone(c, t) == state

\* configs.DisconnectThing: the EXISTS subquery does not refer to the row that
\* is updated, so that it selects every config or none.
Deactivated(c, t) ==
  IF <<t, c>> \in bconns THEN [x \in ThingIds |-> "Inactive"] ELSE state

HandleDisconnectThing ==
  /\ Handling("thing.disconnect")
  /\ \/ /\ state' = Deactivated(Head(batch).ch, Head(batch).th)
        /\ Acked
        /\ UNCHANGED <<cfgs, ext, bchans, bconns, unknown, left>>
     \/ HandlerFails
  /\ UNCHANGED <<dbVars, esVars, procVars, cleaning>>

HandleRemoveChannel ==
  /\ Handling("channel.remove")
  /\ \/ /\ DropChannel(Head(batch).ch)
        /\ Acked
        /\ UNCHANGED <<cfgs, state, ext, unknown, left>>
     \/ HandlerFails
  /\ UNCHANGED <<dbVars, esVars, procVars, cleaning>>

\* The other operations are acknowledged and ignored.
HandleOther ==
  /\ \E o \in Ops \ {"thing.remove", "thing.disconnect", "channel.remove", "channel.update"} :
       Handling(o)
  /\ Acked
  /\ UNCHANGED <<dbVars, esVars, bdbVars, procVars, cleaning>>

\* A request or the consumer is between its DELETE and its cleanupQuery.
CleanupDue == cleaning \/ \E p \in BProcs : pc[p] = "cleanup"

\* The process dies: requests under way and the delivered batch are gone.
Die ==
  /\ pc' = [p \in BProcs |-> "idle"]
  /\ job' = [p \in BProcs |-> NoJob]
  /\ batch' = <<>> /\ cleaning' = FALSE
  /\ lost' = (lost \/ batch # <<>>)
  /\ left' = IF CleanupDue THEN left \cup Dangling(bconns) ELSE left
  /\ UNCHANGED <<dbVars, esVars, cfgs, state, ext, bchans, bconns, unknown>>

\* UpdateChannelHandler of the producer middleware calls itself, not the
\* service it wraps: the stack overflows, which ends the process.
HandleUpdateChannel == Handling("channel.update") /\ Die

Crash == Crashes /\ Die
-----------------------------------------------------------------------------
(* Direct calls to the things service. *)

ClientRequest(p, u) ==
  /\ Answered(p) /\ MayCall
  /\ \/ /\ "connect" \in ClientOps
        /\ \E c \in ChanIds, t \in ThingIds : EsConnect(p, u, <<c>>, <<t>>)
     \/ /\ "disconnect" \in ClientOps
        /\ \E c \in ChanIds, t \in ThingIds : EsDisconnect(p, u, c, t)
     \/ /\ "removeThing" \in ClientOps
        /\ \E t \in ThingIds : owner[t] # None /\ EsRemoveThing(p, u, t)
     \/ /\ "removeChannel" \in ClientOps
        /\ \E c \in ChanIds : EsRemoveChannel(p, u, c)
     \/ /\ "updateChannel" \in ClientOps
        /\ \E c \in ChanIds, m \in Metas : EsUpdateChannel(p, u, c, m)
     \/ /\ "updateThing" \in ClientOps
        /\ \E t \in ThingIds, m \in Metas : EsUpdateThing(p, u, t, m)
     \/ /\ "updateKey" \in ClientOps
        /\ \E t \in ThingIds, k \in Keys : EsUpdateKey(p, u, t, k)
     \/ /\ "createChannels" \in ClientOps
        /\ \E c \in ChanIds, m \in Metas : EsCreateChannels(p, u, <<c>>, m)
  /\ UNCHANGED <<bdbVars, procVars, consVars>>

EmitStep(p) == Emit(p) /\ UNCHANGED <<bdbVars, procVars, consVars>>

Request(p) ==
  \/ \E u \in Users :
       \/ \E t \in ThingIds \cup {None}, e \in ExtIds \X ExtKeys, cs \in SUBSET ChanIds :
            Add(p, u, t, e, cs)
       \/ \E t \in ThingIds :
            \/ \E cs \in SUBSET ChanIds : UpdateConnections(p, u, t, cs)
            \/ \E st \in States : ChangeState(p, u, t, st)
            \/ Remove(p, u, t)
  \/ \E e \in ExtIds, k \in ExtKeys : BootstrapDevice(p, e, k)

Work(p) ==
  \/ ListExisting(p) \/ ConnectionChannels(p) \/ CreateThing(p) \/ FetchThing(p)
  \/ Save(p) \/ DeleteThing(p) \/ DisconnectThings(p) \/ ConnectThings(p)
  \/ WriteConns(p) \/ WriteState(p) \/ Cleanup(p) \/ SaveUnknown(p)

Handle ==
  \/ HandleRemoveThing \/ HandlerCleanup \/ HandleDisconnectThing
  \/ HandleRemoveChannel \/ HandleUpdateChannel \/ HandleOther

Next ==
  \/ \E p \in BProcs : Request(p) \/ Work(p)
  \/ \E p \in Clients, u \in Users : ClientRequest(p, u)
  \/ \E p \in Callers : EmitStep(p)
  \/ ReadGroup \/ Handle \/ Crash

Spec == Init /\ [][Next]_vars

\* Requests arrive as they like; a request that was accepted, the XADDs of the
\* things service and the consumer's loop are goroutines that keep running.
Fairness ==
  /\ \A p \in BProcs : WF_vars(Work(p))
  /\ \A p \in Callers : WF_vars(EmitStep(p))
  /\ WF_vars(ReadGroup) /\ WF_vars(Handle)
-----------------------------------------------------------------------------
Jobs == [op : {"none", "add", "conns", "state"}, user : Users \cup {None},
         th : ThingIds \cup {None}, made : BOOLEAN,
         ext : (ExtIds \X ExtKeys) \cup {None}, want : SUBSET ChanIds,
         miss : SUBSET ChanIds, get : SUBSET ChanIds, con : SUBSET ChanIds,
         dis : SUBSET ChanIds, to : States]

\* Types; the stream keeps its bound.
TypeOK ==
  /\ DBTypeOK /\ EsTypeOK
  /\ cfgs \subseteq ThingIds
  /\ state \in [ThingIds -> States]
  /\ ext \in [ThingIds -> (ExtIds \X ExtKeys) \cup {None}]
  /\ bchans \subseteq ChanIds
  /\ bconns \subseteq ThingIds \X ChanIds
  /\ unknown \in [ExtIds -> ExtKeys \cup {None}]
  /\ left \subseteq ChanIds
  /\ pc \in [BProcs -> Labels]
  /\ job \in [BProcs -> Jobs]
  /\ batch \in Seq(Events)
  /\ cleaning \in BOOLEAN

\* A stored connection joins a stored config to a stored channel of the same
\* owner, whatever requests, events and crashes interleave: the reads that Add
\* and UpdateConnections make before their SDK calls may be stale by the time
\* they write (ListExisting, RetrieveByID).
ConfigIntegrity ==
  \A cn \in bconns : cn[1] \in cfgs /\ cn[2] \in bchans /\ owner[cn[1]] = owner[cn[2]]

\* No channel is left behind without a config that uses it, but for those that
\* a failed cleanupQuery left (the code only warns) or a process that died
\* before its cleanup: where no request and no handler is between its DELETE
\* and its cleanup, all others are gone, however Add, UpdateConnections, Remove
\* and the two remove events overlap.
NoDanglingChannels == ~CleanupDue => Dangling(bconns) \subseteq left

\* An active config is connected: once the events are consumed, every channel
\* of an active config is one its thing is connected to (state.go: "Thing is
\* able to communicate"), unless an event was lost before its handler was done.
\* Partial failures of UpdateConnections and ChangeState are repaired by the
\* disconnect events they cause.
ActiveIsConnected ==
  Quiet /\ ~lost =>
    \A t \in cfgs : state[t] = "Active" => \A c \in ChansOf(t) : <<c, t>> \in conns

\* Once a thing is gone, its config goes: the remove event reaches the
\* consumer and RemoveConfigHandler deletes it, unless an event is lost.
RemovedThingLosesConfig ==
  \A t \in ThingIds :
    (t \in cfgs /\ t \notin things) ~> (t \notin cfgs \/ lost)
=============================================================================
