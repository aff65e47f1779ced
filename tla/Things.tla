------------------------------- MODULE Things -------------------------------
(***************************************************************************)
(* The things service (things/service.go) over its PostgreSQL repositories *)
(* (ThingsDB) and its two Redis caches (things/redis).                     *)
(*                                                                         *)
(* A request is a goroutine of an HTTP or gRPC server.  It takes one step  *)
(* per SQL statement and per Redis command, so that requests interleave    *)
(* between them; a request of a single statement is one step.  The errors  *)
(* of the cache commands are ignored by the service, and a cache read that *)
(* fails counts as a miss.                                                 *)
(***************************************************************************)
EXTENDS ThingsDB

CONSTANTS Procs,       \* goroutines that serve requests at the same time
          RedisFaults, \* may a Redis command fail?
          MaxBatch     \* bound: entities in one create or connect request

ASSUME FaultsAssumption == RedisFaults \in BOOLEAN

VARIABLES keyId,     \* thing cache, thing_key:<key> -> id (None: no entry)
          idKey,     \* thing cache, thing:<id> -> key
          chanSet,   \* channel cache, channel:<id> -> set of things
          pc,        \* next command of each request
          req,       \* its arguments and the values it has read
          wasKey,    \* history: every <<key, thing>> there ever was a row for
          wasConn    \* history: every <<channel, thing>> ever connected

cacheVars == <<keyId, idKey, chanSet>>
vars == <<dbVars, cacheVars, pc, req, wasKey, wasConn>>

NoReq == [user |-> None, th |-> None, ch |-> None, key |-> None]

Reqs == [user : Users \cup {None}, th : ThingIds \cup {None},
         ch : ChanIds \cup {None}, key : Keys \cup {None}]

Labels == {"idle", "thingDel", "thingRow", "chanRow", "connRow", "member",
           "selectKey", "selectConn", "setKey", "setId", "sadd", "granted"}

Init ==
  /\ DBInit
  /\ keyId = [k \in Keys |-> None]
  /\ idKey = [t \in ThingIds |-> None]
  /\ chanSet = [c \in ChanIds |-> {}]
  /\ pc = [p \in Procs |-> "idle"]
  /\ req = [p \in Procs |-> NoReq]
  /\ wasKey = {} /\ wasConn = {}

\* Request p goes on at label l with arguments r.
Goto(p, l, r) ==
  /\ pc' = [pc EXCEPT ![p] = l]
  /\ req' = [req EXCEPT ![p] = r]

Done(p) == Goto(p, "idle", NoReq)
Idle(p) == pc[p] = "idle"

\* The history variables follow the tables.
Remember ==
  /\ wasKey' = wasKey \cup {<<key'[t], t>> : t \in things'}
  /\ wasConn' = wasConn \cup conns'

NoRemember == UNCHANGED <<wasKey, wasConn>>
-----------------------------------------------------------------------------
(* Requests of one statement: the caller's token has been identified as u. *)

CreateThings(p, u, ks, m) ==
  /\ Idle(p) /\ SaveThings(u, ks, m)
  /\ Remember /\ UNCHANGED <<cacheVars, pc, req>>

UpdateThing(p, u, t, m) ==
  /\ Idle(p) /\ UpdateThingRow(u, t, m)
  /\ Remember /\ UNCHANGED <<cacheVars, pc, req>>

\* UpdateKey leaves the thing cache alone.
UpdateKey(p, u, t, k) ==
  /\ Idle(p) /\ UpdateKeyRow(u, t, k)
  /\ Remember /\ UNCHANGED <<cacheVars, pc, req>>

CreateChannels(p, u, cs, m) ==
  /\ Idle(p) /\ SaveChannels(u, cs, m)
  /\ Remember /\ UNCHANGED <<cacheVars, pc, req>>

UpdateChannel(p, u, c, m) ==
  /\ Idle(p) /\ UpdateChannelRow(u, c, m)
  /\ Remember /\ UNCHANGED <<cacheVars, pc, req>>

Connect(p, u, cs, ts) ==
  /\ Idle(p) /\ ConnectRows(u, cs, ts)
  /\ Remember /\ UNCHANGED <<cacheVars, pc, req>>
-----------------------------------------------------------------------------
(* RemoveThing: thingCache.Remove (GET thing:<id>, then DEL of both        *)
(* entries), then the row.  The channel sets keep the thing.               *)

RemoveThing(p, u, t) ==
  /\ Idle(p)
  /\ \/ /\ idKey[t] # None
        /\ Goto(p, "thingDel", [NoReq EXCEPT !.user = u, !.th = t, !.key = idKey[t]])
     \/ /\ idKey[t] = None \/ RedisFaults
        /\ Goto(p, "thingRow", [NoReq EXCEPT !.user = u, !.th = t])
  /\ NoRemember /\ UNCHANGED <<dbVars, cacheVars>>

RemoveThingDel(p) ==
  /\ pc[p] = "thingDel"
  /\ \/ /\ keyId' = [keyId EXCEPT ![req[p].key] = None]
        /\ idKey' = [idKey EXCEPT ![req[p].th] = None]
     \/ RedisFaults /\ UNCHANGED <<keyId, idKey>>
  /\ Goto(p, "thingRow", req[p])
  /\ NoRemember /\ UNCHANGED <<dbVars, chanSet>>

RemoveThingDB(p) ==
  /\ pc[p] = "thingRow"
  /\ RemoveThingRow(req[p].user, req[p].th)
  /\ Done(p) /\ Remember /\ UNCHANGED cacheVars

(* RemoveChannel and Disconnect: the channel cache first, then the row. *)

\* A Redis write to the channel cache, or its failure.
ChanCacheWrite(c, s) ==
  \/ chanSet' = [chanSet EXCEPT ![c] = s]
  \/ RedisFaults /\ UNCHANGED chanSet

RemoveChannel(p, u, c) ==
  /\ Idle(p)
  /\ ChanCacheWrite(c, {})
  /\ Goto(p, "chanRow", [NoReq EXCEPT !.user = u, !.ch = c])
  /\ NoRemember /\ UNCHANGED <<dbVars, keyId, idKey>>

RemoveChannelDB(p) ==
  /\ pc[p] = "chanRow"
  /\ RemoveChannelRow(req[p].user, req[p].ch)
  /\ Done(p) /\ Remember /\ UNCHANGED cacheVars

\* Mutant of Disconnect: the thing stays in the cache.
DisconnectUncached(p, u, c, t) ==
  /\ Idle(p)
  /\ Goto(p, "connRow", [user |-> u, th |-> t, ch |-> c, key |-> None])
  /\ NoRemember /\ UNCHANGED <<dbVars, cacheVars>>

Disconnect(p, u, c, t) ==
  /\ Idle(p)
  /\ ChanCacheWrite(c, chanSet[c] \ {t})
  /\ Goto(p, "connRow", [user |-> u, th |-> t, ch |-> c, key |-> None])
  /\ NoRemember /\ UNCHANGED <<dbVars, keyId, idKey>>

DisconnectDB(p) ==
  /\ pc[p] = "connRow"
  /\ IF OwnConn(req[p].user, req[p].ch, req[p].th)
       THEN DisconnectRow(req[p].ch, req[p].th)
       ELSE UNCHANGED dbVars                       \* ErrNotFound
  /\ Done(p) /\ Remember /\ UNCHANGED cacheVars
-----------------------------------------------------------------------------
(* The three authorization calls.  An Identify request has no channel, a   *)
(* CanAccessByID request no key.  The first command reads a cache.         *)

CanAccessByKey(p, c, k) ==
  /\ Idle(p)
  /\ \/ /\ keyId[k] # None
        /\ Goto(p, "member", [NoReq EXCEPT !.ch = c, !.key = k, !.th = keyId[k]])
     \/ /\ keyId[k] = None \/ RedisFaults
        /\ Goto(p, "selectKey", [NoReq EXCEPT !.ch = c, !.key = k])
  /\ NoRemember /\ UNCHANGED <<dbVars, cacheVars>>

Identify(p, k) ==
  /\ Idle(p)
  /\ \/ /\ keyId[k] # None
        /\ Goto(p, "granted", [NoReq EXCEPT !.key = k, !.th = keyId[k]])
     \/ /\ keyId[k] = None \/ RedisFaults
        /\ Goto(p, "selectKey", [NoReq EXCEPT !.key = k])
  /\ NoRemember /\ UNCHANGED <<dbVars, cacheVars>>

CanAccessByID(p, c, t) ==
  /\ Idle(p)
  /\ Goto(p, "member", [NoReq EXCEPT !.ch = c, !.th = t])
  /\ NoRemember /\ UNCHANGED <<dbVars, cacheVars>>

\* channelCache.HasThing; a miss falls back to the database: to HasThing, which
\* looks the key up again, or to HasThingByID.
HasThingCached(p) ==
  /\ pc[p] = "member"
  /\ \/ /\ req[p].th \in chanSet[req[p].ch]
        /\ Goto(p, "granted", req[p])
     \/ /\ req[p].th \notin chanSet[req[p].ch] \/ RedisFaults
        /\ \/ req[p].key # None /\ Goto(p, "selectKey", [req[p] EXCEPT !.th = None])
           \/ req[p].key = None /\ Goto(p, "selectConn", req[p])
  /\ NoRemember /\ UNCHANGED <<dbVars, cacheVars>>

\* Mutant of SelectKey: the id is scanned into a variable that the requests
\* for the same key share.
SelectKeyShared(p) ==
  /\ pc[p] = "selectKey"
  /\ \/ WithKey(req[p].key) = {} /\ Done(p)
     \/ \E t \in WithKey(req[p].key) :
          /\ pc' = [pc EXCEPT ![p] = IF req[p].ch = None THEN "setKey" ELSE "selectConn"]
          /\ req' = [q \in Procs |-> IF req[q].key = req[p].key
                                       THEN [req[q] EXCEPT !.th = t] ELSE req[q]]
  /\ NoRemember /\ UNCHANGED <<dbVars, cacheVars>>

\* SELECT id FROM things WHERE key = $1 (RetrieveByKey, HasThing).
SelectKey(p) ==
  /\ pc[p] = "selectKey"
  /\ \/ WithKey(req[p].key) = {} /\ Done(p)        \* ErrUnauthorizedAccess
     \/ \E t \in WithKey(req[p].key) :
          Goto(p, IF req[p].ch = None THEN "setKey" ELSE "selectConn",
               [req[p] EXCEPT !.th = t])
  /\ NoRemember /\ UNCHANGED <<dbVars, cacheVars>>

\* Mutant of Connected: the lookup compares owners instead of the thing.
ConnectedSameOwner(c, t) == c \in chans /\ owner[c] = owner[t]

\* SELECT EXISTS (... FROM connections WHERE channel_id AND thing_id).
Connected(c, t) == <<c, t>> \in conns

SelectConn(p) ==
  /\ pc[p] = "selectConn"
  /\ \/ ~Connected(req[p].ch, req[p].th) /\ Done(p)  \* ErrUnauthorizedAccess
     \/ /\ Connected(req[p].ch, req[p].th)
        /\ Goto(p, IF req[p].key = None THEN "sadd" ELSE "setKey", req[p])
  /\ NoRemember /\ UNCHANGED <<dbVars, cacheVars>>

\* Where a request goes after thingCache.Save.
AfterSave(p) == IF req[p].ch = None THEN "granted" ELSE "sadd"

\* thingCache.Save: SET thing_key:<key>, and unless that failed, SET thing:<id>.
CacheSetKey(p) ==
  /\ pc[p] = "setKey"
  /\ \/ /\ keyId' = [keyId EXCEPT ![req[p].key] = req[p].th]
        /\ Goto(p, "setId", req[p])
     \/ RedisFaults /\ Goto(p, AfterSave(p), req[p]) /\ UNCHANGED keyId
  /\ NoRemember /\ UNCHANGED <<dbVars, idKey, chanSet>>

CacheSetId(p) ==
  /\ pc[p] = "setId"
  /\ \/ idKey' = [idKey EXCEPT ![req[p].th] = req[p].key]
     \/ RedisFaults /\ UNCHANGED idKey
  /\ Goto(p, AfterSave(p), req[p])
  /\ NoRemember /\ UNCHANGED <<dbVars, keyId, chanSet>>

\* Mutant of CacheConnect: the key, a string like the id, is added instead.
CacheConnectKey(p) ==
  /\ pc[p] = "sadd"
  /\ ChanCacheWrite(req[p].ch, chanSet[req[p].ch] \cup {req[p].key})
  /\ Goto(p, "granted", req[p])
  /\ NoRemember /\ UNCHANGED <<dbVars, keyId, idKey>>

\* channelCache.Connect.
CacheConnect(p) ==
  /\ pc[p] = "sadd"
  /\ ChanCacheWrite(req[p].ch, chanSet[req[p].ch] \cup {req[p].th})
  /\ Goto(p, "granted", req[p])
  /\ NoRemember /\ UNCHANGED <<dbVars, keyId, idKey>>

\* The answer (the thing's id) leaves the service.
Reply(p) ==
  /\ pc[p] = "granted"
  /\ Done(p) /\ NoRemember /\ UNCHANGED <<dbVars, cacheVars>>

\* The service process dies and restarts; PostgreSQL and Redis live on.
Crash ==
  /\ pc' = [p \in Procs |-> "idle"]
  /\ req' = [p \in Procs |-> NoReq]
  /\ NoRemember /\ UNCHANGED <<dbVars, cacheVars>>
-----------------------------------------------------------------------------
\* The batches of a request: at most MaxBatch elements.
Batches(S) == {B \in SUBSET S : B # {} /\ Cardinality(B) <= MaxBatch}

OwnerRequest(p, u) ==
  \/ \E ts \in Batches(ThingIds), m \in Metas : \E ks \in [ts -> Keys] :
       CreateThings(p, u, ks, m)
  \/ \E t \in ThingIds, m \in Metas : UpdateThing(p, u, t, m)
  \/ \E t \in ThingIds, k \in Keys : UpdateKey(p, u, t, k)
  \/ \E t \in ThingIds : RemoveThing(p, u, t)
  \/ \E cs \in Batches(ChanIds), m \in Metas : CreateChannels(p, u, cs, m)
  \/ \E c \in ChanIds, m \in Metas : UpdateChannel(p, u, c, m)
  \/ \E c \in ChanIds : RemoveChannel(p, u, c)
  \/ \E cs \in Batches(ChanIds), ts \in Batches(ThingIds) : Connect(p, u, cs, ts)
  \/ \E c \in ChanIds, t \in ThingIds : Disconnect(p, u, c, t)

AccessRequest(p) ==
  \/ \E c \in ChanIds, k \in Keys : CanAccessByKey(p, c, k)
  \/ \E c \in ChanIds, t \in ThingIds : CanAccessByID(p, c, t)
  \/ \E k \in Keys : Identify(p, k)

Step(p) ==
  \/ RemoveThingDel(p) \/ RemoveThingDB(p)
  \/ RemoveChannelDB(p) \/ DisconnectDB(p)
  \/ HasThingCached(p) \/ SelectKey(p) \/ SelectConn(p)
  \/ CacheSetKey(p) \/ CacheSetId(p) \/ CacheConnect(p) \/ Reply(p)

Next ==
  \/ \E p \in Procs : \/ \E u \in Users : OwnerRequest(p, u)
                      \/ AccessRequest(p)
                      \/ Step(p)
  \/ Crash

Spec == Init /\ [][Next]_vars
-----------------------------------------------------------------------------
\* Types of the tables, the caches and the requests under way.
TypeOK ==
  /\ DBTypeOK
  /\ keyId \in [Keys -> ThingIds \cup {None}]
  /\ idKey \in [ThingIds -> Keys \cup {None}]
  /\ chanSet \in [ChanIds -> SUBSET ThingIds]
  /\ pc \in [Procs -> Labels]
  /\ req \in [Procs -> Reqs]
  /\ wasKey \subseteq Keys \X ThingIds
  /\ wasConn \subseteq ChanIds \X ThingIds

\* However requests, cache failures and crashes interleave, the channel cache
\* and the answers of CanAccessByKey and CanAccessByID never join a thing of
\* one user to a channel of another (Connect's foreign keys are the only
\* check of ownership; the cache is filled without one).
TenantIsolation ==
  /\ \A c \in ChanIds : \A t \in chanSet[c] :
       owner[t] # None /\ owner[c] = owner[t]
  /\ \A p \in Procs : pc[p] = "granted" /\ req[p].ch # None =>
       owner[req[p].th] # None /\ owner[req[p].ch] = owner[req[p].th]

\* What the authorization calls answer was true at some moment: the key was
\* the thing's key and the thing was connected to the channel.  The two may be
\* stale, even of different moments, but they are never invented.
GrantWasAuthorised ==
  \A p \in Procs : pc[p] = "granted" =>
    /\ req[p].key # None => <<req[p].key, req[p].th>> \in wasKey
    /\ req[p].ch # None => <<req[p].ch, req[p].th>> \in wasConn

\* While a thing exists, the channel cache lists it only for channels it is
\* connected to: RemoveChannel and Disconnect clear the cache before the row,
\* so that a crash in between cannot leave a stale entry.  It holds when
\* requests do not overlap and Redis does not fail.
ChanCacheCoherent ==
  \A c \in ChanIds : \A t \in chanSet[c] \cap things : <<c, t>> \in conns

-----------------------------------------------------------------------------
(* The service implements Access: the histories are the ones there, and a  *)
(* request that is granted has an answer.                                  *)

granted == [p \in Procs |-> IF pc[p] = "granted"
                              THEN [th |-> req[p].th, ch |-> req[p].ch, key |-> req[p].key]
                              ELSE None]

Acc == INSTANCE Access WITH answer <- granted

\* Whatever requests, caches and crashes do, all an adapter can see of the
\* service is what Access allows: an answer appears for a request that has none
\* and rests on rows there were at that moment, it stays as it is until it is
\* taken or lost, and the rows that once existed are never forgotten.
ImplementsAccess == Acc!Spec
=============================================================================
