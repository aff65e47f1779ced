---------------------------- MODULE ThingsProofs ----------------------------
(***************************************************************************)
(* Things keeps its tables consistent, never joins two tenants and never   *)
(* invents a grant, for any number of users, things, channels, keys and    *)
(* concurrent requests, with Redis failures and crashes.                   *)
(*                                                                         *)
(* The inductive invariant has three layers: the tables (DBInv), what the  *)
(* caches and histories know (HistInv), and what each request under way    *)
(* has read (ReqInv).                                                      *)
(***************************************************************************)
EXTENDS Things, TLAPS

\* A row has an owner and, for a thing, a key.
RowsOwned ==
  /\ \A t \in things : owner[t] # None /\ key[t] # None
  /\ \A c \in chans : owner[c] # None

DBInv == DBTypeOK /\ ReferentialIntegrity /\ KeysIdentify /\ RowsOwned

\* The rows are remembered, the caches hold remembered facts only, and
\* remembered connections are of one tenant.
HistInv ==
  /\ wasKey \subseteq Keys \X ThingIds
  /\ wasConn \subseteq ChanIds \X ThingIds
  /\ \A t \in things : <<key[t], t>> \in wasKey
  /\ conns \subseteq wasConn
  /\ \A cn \in wasConn : owner[cn[2]] # None /\ owner[cn[1]] = owner[cn[2]]

CacheInv ==
  /\ keyId \in [Keys -> ThingIds \cup {None}]
  /\ idKey \in [ThingIds -> Keys \cup {None}]
  /\ chanSet \in [ChanIds -> SUBSET ThingIds]
  /\ \A k \in Keys : keyId[k] # None => <<k, keyId[k]>> \in wasKey
  /\ \A c \in ChanIds : \A t \in chanSet[c] : <<c, t>> \in wasConn

\* Labels at which req[p].th was read for req[p].key, and at which the
\* connection to req[p].ch was read.
KeyRead  == {"member", "selectConn", "setKey", "setId", "sadd", "granted"}
ConnRead == {"setKey", "setId", "sadd", "granted"}

\* What a request at label l with arguments r knows; wk and wc are the keys
\* and the connections there ever were.
ReqOK(l, r, wk, wc) ==
  /\ l \in KeyRead /\ r.key # None => <<r.key, r.th>> \in wk
  /\ l \in ConnRead /\ r.ch # None => <<r.ch, r.th>> \in wc
  /\ l \in {"setKey", "setId"} => r.key # None
  /\ l \in {"member", "selectConn", "sadd"} => r.ch # None
  /\ l = "granted" => r.key # None \/ r.ch # None

ReqInv ==
  /\ pc \in [Procs -> Labels]
  /\ req \in [Procs -> Reqs]
  /\ \A p \in Procs : ReqOK(pc[p], req[p], wasKey, wasConn)

\* The inductive invariant.
IInv == DBInv /\ HistInv /\ CacheInv /\ ReqInv

\* An owner, once there, never changes: ids are not reused.
OwnersKept == \A x \in Ids : owner[x] # None => owner'[x] = owner[x]

Recalled == wasKey \subseteq wasKey' /\ wasConn \subseteq wasConn'
-----------------------------------------------------------------------------
(* One lemma per statement: it keeps the tables consistent. *)

\* INSERT of a batch of things keeps the tables consistent.
LEMMA SaveThingsInv ==
  ASSUME DBInv, NEW u \in Users, NEW ts \in SUBSET ThingIds,
         NEW ks \in [ts -> Keys], NEW m \in Metas, SaveThings(u, ks, m)
  PROVE  DBInv' /\ OwnersKept
<1>1. DOMAIN ks = ts
  OBVIOUS
<1>2. DBTypeOK'
  BY <1>1 DEF DBInv, DBTypeOK, SaveThings, Ids
<1>3. OwnersKept
  BY <1>1 DEF DBInv, DBTypeOK, SaveThings, OwnersKept
<1>4. ReferentialIntegrity'
  BY <1>1, NoneAssumption DEF DBInv, DBTypeOK, SaveThings, ReferentialIntegrity, RowsOwned, Ids
<1>5. KeysIdentify'
  BY <1>1, NoneAssumption DEF DBInv, DBTypeOK, SaveThings, KeysIdentify, KeyFree, RowsOwned
<1>6. RowsOwned'
  BY <1>1, NoneAssumption, IdsAssumption DEF DBInv, DBTypeOK, SaveThings, RowsOwned, Ids
<1>. QED
  BY <1>2, <1>3, <1>4, <1>5, <1>6 DEF DBInv

\* UPDATE of a name or metadata keeps the tables consistent.
LEMMA UpdateRowInv ==
  ASSUME DBInv, NEW u \in Users, NEW x \in Ids, NEW m \in Metas,
         UpdateThingRow(u, x, m) \/ UpdateChannelRow(u, x, m)
  PROVE  DBInv' /\ OwnersKept
<1>1. UNCHANGED <<owner, things, chans, key, conns>>
  BY DEF UpdateThingRow, UpdateChannelRow
<1>2. meta' \in [Ids -> Metas \cup {None}]
  BY DEF UpdateThingRow, UpdateChannelRow, DBInv, DBTypeOK
<1>. QED
  BY <1>1, <1>2 DEF DBInv, DBTypeOK, ReferentialIntegrity, KeysIdentify, RowsOwned, OwnersKept

\* UPDATE of a key keeps the tables consistent: the key is unique.
LEMMA UpdateKeyInv ==
  ASSUME DBInv, NEW u \in Users, NEW t \in ThingIds, NEW k \in Keys,
         UpdateKeyRow(u, t, k)
  PROVE  DBInv' /\ OwnersKept
<1>1. DBTypeOK' /\ OwnersKept /\ ReferentialIntegrity'
  BY DEF UpdateKeyRow, DBInv, DBTypeOK, ReferentialIntegrity, OwnersKept
<1>2. KeysIdentify'
  BY DEF UpdateKeyRow, DBInv, DBTypeOK, KeysIdentify, KeyFree
<1>3. RowsOwned'
  BY NoneAssumption DEF UpdateKeyRow, DBInv, DBTypeOK, RowsOwned
<1>. QED
  BY <1>1, <1>2, <1>3 DEF DBInv

\* DELETE of a thing takes its connections along.
LEMMA RemoveThingRowInv ==
  ASSUME DBInv, NEW u \in Users \cup {None}, NEW t \in ThingIds \cup {None},
         RemoveThingRow(u, t)
  PROVE  DBInv' /\ OwnersKept
<1>1. CASE UNCHANGED dbVars
  BY <1>1 DEF dbVars, DBInv, DBTypeOK, ReferentialIntegrity, KeysIdentify, RowsOwned, OwnersKept
<1>2. CASE /\ t \in things
           /\ things' = things \ {t}
           /\ key'   = [key EXCEPT ![t] = None]
           /\ meta'  = [meta EXCEPT ![t] = None]
           /\ conns' = Cascade({t})
           /\ UNCHANGED <<owner, chans>>
  <2>1. DBTypeOK' /\ OwnersKept
    BY <1>2 DEF DBInv, DBTypeOK, OwnersKept, Cascade
  <2>2. ReferentialIntegrity'
    BY <1>2 DEF DBInv, DBTypeOK, ReferentialIntegrity, Cascade
  <2>3. KeysIdentify' /\ RowsOwned'
    BY <1>2 DEF DBInv, DBTypeOK, KeysIdentify, RowsOwned
  <2>. QED
    BY <2>1, <2>2, <2>3 DEF DBInv
<1>. QED
  BY <1>1, <1>2 DEF RemoveThingRow

\* INSERT of a batch of channels keeps the tables consistent.
LEMMA SaveChannelsInv ==
  ASSUME DBInv, NEW u \in Users, NEW cs \in SUBSET ChanIds, NEW m \in Metas,
         SaveChannels(u, cs, m)
  PROVE  DBInv' /\ OwnersKept
<1>1. DBTypeOK' /\ OwnersKept
  BY DEF DBInv, DBTypeOK, SaveChannels, Ids, OwnersKept
<1>2. ReferentialIntegrity'
  BY NoneAssumption DEF DBInv, DBTypeOK, SaveChannels, ReferentialIntegrity, RowsOwned, Ids
<1>3. KeysIdentify' /\ RowsOwned'
  BY NoneAssumption, IdsAssumption DEF DBInv, DBTypeOK, SaveChannels, KeysIdentify, RowsOwned, Ids
<1>. QED
  BY <1>1, <1>2, <1>3 DEF DBInv

\* DELETE of a channel takes its connections along.
LEMMA RemoveChannelRowInv ==
  ASSUME DBInv, NEW u \in Users \cup {None}, NEW c \in ChanIds \cup {None},
         RemoveChannelRow(u, c)
  PROVE  DBInv' /\ OwnersKept
<1>1. CASE UNCHANGED dbVars
  BY <1>1 DEF dbVars, DBInv, DBTypeOK, ReferentialIntegrity, KeysIdentify, RowsOwned, OwnersKept
<1>2. CASE /\ c \in chans
           /\ chans' = chans \ {c}
           /\ meta'  = [meta EXCEPT ![c] = None]
           /\ conns' = Cascade({c})
           /\ UNCHANGED <<owner, things, key>>
  <2>1. DBTypeOK' /\ OwnersKept
    BY <1>2 DEF DBInv, DBTypeOK, OwnersKept, Cascade
  <2>2. ReferentialIntegrity'
    BY <1>2 DEF DBInv, DBTypeOK, ReferentialIntegrity, Cascade
  <2>3. KeysIdentify' /\ RowsOwned'
    BY <1>2 DEF DBInv, DBTypeOK, KeysIdentify, RowsOwned
  <2>. QED
    BY <2>1, <2>2, <2>3 DEF DBInv
<1>. QED
  BY <1>1, <1>2 DEF RemoveChannelRow

\* INSERT of connections joins rows of the caller only.
LEMMA ConnectRowsInv ==
  ASSUME DBInv, NEW u \in Users, NEW cs \in SUBSET ChanIds,
         NEW ts \in SUBSET ThingIds, ConnectRows(u, cs, ts)
  PROVE  DBInv' /\ OwnersKept
<1>1. DBTypeOK' /\ OwnersKept /\ KeysIdentify' /\ RowsOwned'
  BY DEF ConnectRows, DBInv, DBTypeOK, KeysIdentify, RowsOwned, OwnersKept
<1>2. ReferentialIntegrity'
  BY NoneAssumption DEF ConnectRows, ForeignKeys, DBInv, DBTypeOK, ReferentialIntegrity
<1>. QED
  BY <1>1, <1>2 DEF DBInv

\* DELETE of a connection keeps the tables consistent.
LEMMA DisconnectRowInv ==
  ASSUME DBInv, NEW c, NEW t, DisconnectRow(c, t)
  PROVE  DBInv' /\ OwnersKept
BY DEF DisconnectRow, DBInv, DBTypeOK, ReferentialIntegrity, KeysIdentify, RowsOwned, OwnersKept

\* A step that runs no statement keeps the tables consistent.
LEMMA UnchangedDBInv ==
  ASSUME DBInv, UNCHANGED dbVars
  PROVE  DBInv' /\ OwnersKept
BY DEF dbVars, DBInv, DBTypeOK, ReferentialIntegrity, KeysIdentify, RowsOwned, OwnersKept
-----------------------------------------------------------------------------
(* Histories, caches and requests under a step that leaves them alone or    *)
(* moves one request.                                                       *)

\* The histories follow a statement, and stay within one tenant.
LEMMA RememberInv ==
  ASSUME HistInv, DBInv', OwnersKept, Remember
  PROVE  HistInv' /\ Recalled
<1>1. Recalled
  BY DEF Recalled, Remember
<1>2. \A t \in things' : key'[t] \in Keys /\ t \in ThingIds
  BY DEF DBInv, DBTypeOK, RowsOwned
<1>3. wasKey' \subseteq Keys \X ThingIds /\ \A t \in things' : <<key'[t], t>> \in wasKey'
  BY <1>2 DEF Remember, HistInv
<1>4. wasConn' \subseteq ChanIds \X ThingIds /\ conns' \subseteq wasConn'
  BY DEF Remember, HistInv, DBInv, DBTypeOK
<1>5. \A cn \in wasConn' : owner'[cn[2]] # None /\ owner'[cn[1]] = owner'[cn[2]]
  <2>1. \A cn \in conns' : owner'[cn[2]] # None /\ owner'[cn[1]] = owner'[cn[2]]
    BY DEF DBInv, ReferentialIntegrity
  <2>2. \A cn \in wasConn : owner'[cn[2]] # None /\ owner'[cn[1]] = owner'[cn[2]]
    BY DEF HistInv, OwnersKept, Ids
  <2>. QED
    BY <2>1, <2>2 DEF Remember
<1>. QED
  BY <1>1, <1>3, <1>4, <1>5 DEF HistInv

\* A step that runs no statement leaves the histories as they are.
LEMMA NoRememberInv ==
  ASSUME HistInv, UNCHANGED dbVars, NoRemember
  PROVE  HistInv' /\ Recalled
BY DEF HistInv, dbVars, NoRemember, Recalled

\* Caches that do not change hold remembered facts still.
LEMMA CacheKept ==
  ASSUME CacheInv, Recalled, UNCHANGED cacheVars
  PROVE  CacheInv'
BY DEF CacheInv, Recalled, cacheVars

\* Requests that do not change know remembered facts still.
LEMMA ReqKept ==
  ASSUME ReqInv, Recalled, UNCHANGED <<pc, req>>
  PROVE  ReqInv'
<1>. SUFFICES ASSUME NEW q \in Procs
              PROVE  ReqOK(pc[q], req[q], wasKey', wasConn')
  BY DEF ReqInv
<1>. QED
  BY DEF ReqInv, ReqOK, Recalled

\* A request that goes to its next label knows what ReqOK asks there.
LEMMA GotoInv ==
  ASSUME ReqInv, Recalled, NEW p \in Procs, NEW l \in Labels, NEW r \in Reqs,
         Goto(p, l, r), ReqOK(l, r, wasKey', wasConn')
  PROVE  ReqInv'
<1>1. pc' \in [Procs -> Labels] /\ req' \in [Procs -> Reqs]
  BY DEF Goto, ReqInv
<1>2. ASSUME NEW q \in Procs
      PROVE  ReqOK(pc'[q], req'[q], wasKey', wasConn')
  <2>1. CASE q = p
    BY <2>1 DEF Goto, ReqInv
  <2>2. CASE q # p
    <3>1. pc'[q] = pc[q] /\ req'[q] = req[q]
      BY <2>2 DEF Goto, ReqInv
    <3>. QED
      BY <3>1 DEF ReqInv, ReqOK, Recalled
  <2>. QED
    BY <2>1, <2>2
<1>. QED
  BY <1>1, <1>2 DEF ReqInv

\* The arguments of an idle goroutine have their type.
LEMMA NoReqType == NoReq \in Reqs
BY DEF NoReq, Reqs

\* A request that is answered knows nothing any more.
LEMMA DoneInv ==
  ASSUME ReqInv, Recalled, NEW p \in Procs, Done(p)
  PROVE  ReqInv'
<1>1. ReqOK("idle", NoReq, wasKey', wasConn')
  BY DEF ReqOK, KeyRead, ConnRead
<1>. QED
  BY <1>1, NoReqType, GotoInv DEF Done, Labels
-----------------------------------------------------------------------------
(* One lemma per request or step. *)

\* A request of one statement keeps the invariant when the tables stay consistent.
LEMMA StatementInv ==
  ASSUME IInv, DBInv', OwnersKept, Remember, UNCHANGED <<cacheVars, pc, req>>
  PROVE  IInv'
<1>1. HistInv' /\ Recalled
  BY RememberInv DEF IInv
<1>2. CacheInv' /\ ReqInv'
  BY <1>1, CacheKept, ReqKept DEF IInv
<1>. QED
  BY <1>1, <1>2 DEF IInv

\* A step that ends a request with a statement.
LEMMA LastStatementInv ==
  ASSUME IInv, DBInv', OwnersKept, Remember, UNCHANGED cacheVars,
         NEW p \in Procs, Done(p)
  PROVE  IInv'
<1>1. HistInv' /\ Recalled
  BY RememberInv DEF IInv
<1>2. CacheInv' /\ ReqInv'
  BY <1>1, CacheKept, DoneInv DEF IInv
<1>. QED
  BY <1>1, <1>2 DEF IInv

\* A step that reads, or writes a cache.
LEMMA CommandInv ==
  ASSUME IInv, UNCHANGED dbVars, NoRemember, CacheInv', ReqInv'
  PROVE  IInv'
BY UnchangedDBInv, NoRememberInv DEF IInv

\* A batch is a set of ids.
LEMMA BatchesSubset ==
  ASSUME NEW S, NEW B \in Batches(S)
  PROVE  B \in SUBSET S
BY DEF Batches

\* A write to a channel set of remembered connections keeps the cache sound.
LEMMA ChanCacheWriteInv ==
  ASSUME CacheInv, Recalled, UNCHANGED <<keyId, idKey>>,
         NEW c \in ChanIds, NEW s \in SUBSET ThingIds,
         \A t \in s : <<c, t>> \in wasConn,
         ChanCacheWrite(c, s)
  PROVE  CacheInv'
BY DEF CacheInv, Recalled, ChanCacheWrite

\* The first command of RemoveThing keeps the invariant.
LEMMA RemoveThingInv ==
  ASSUME IInv, NEW p \in Procs, NEW u \in Users, NEW t \in ThingIds,
         RemoveThing(p, u, t)
  PROVE  IInv'
<1>1. Recalled /\ CacheInv'
  BY CacheKept DEF RemoveThing, NoRemember, Recalled, IInv
<1>2. ReqInv'
  <2>1. ASSUME NEW k \in Keys \cup {None}
        PROVE  [NoReq EXCEPT !.user = u, !.th = t, !.key = k] \in Reqs
    BY DEF NoReq, Reqs
  <2>2. [NoReq EXCEPT !.user = u, !.th = t] \in Reqs
    BY DEF NoReq, Reqs
  <2>3. idKey[t] \in Keys \cup {None}
    BY DEF IInv, CacheInv
  <2>4. ASSUME NEW r
        PROVE  /\ ReqOK("thingDel", r, wasKey', wasConn')
               /\ ReqOK("thingRow", r, wasKey', wasConn')
    BY DEF ReqOK, KeyRead, ConnRead
  <2>5. "thingDel" \in Labels /\ "thingRow" \in Labels
    BY DEF Labels
  <2>. QED
    BY <1>1, <2>1, <2>2, <2>3, <2>4, <2>5, GotoInv DEF RemoveThing, IInv
<1>. QED
  BY <1>1, <1>2, CommandInv DEF RemoveThing

\* The first command of RemoveChannel keeps the invariant.
LEMMA RemoveChannelInv ==
  ASSUME IInv, NEW p \in Procs, NEW u \in Users, NEW c \in ChanIds,
         RemoveChannel(p, u, c)
  PROVE  IInv'
<1>1. Recalled
  BY DEF RemoveChannel, NoRemember, Recalled
<1>2. CacheInv'
  BY <1>1, ChanCacheWriteInv DEF RemoveChannel, IInv
<1>3. [NoReq EXCEPT !.user = u, !.ch = c] \in Reqs /\ "chanRow" \in Labels
  BY DEF NoReq, Reqs, Labels
<1>4. ASSUME NEW r PROVE ReqOK("chanRow", r, wasKey', wasConn')
  BY DEF ReqOK, KeyRead, ConnRead
<1>5. ReqInv'
  BY <1>1, <1>3, <1>4, GotoInv DEF RemoveChannel, IInv
<1>. QED
  BY <1>2, <1>5, CommandInv DEF RemoveChannel

\* The first command of Disconnect keeps the invariant.
LEMMA DisconnectInv ==
  ASSUME IInv, NEW p \in Procs, NEW u \in Users, NEW c \in ChanIds,
         NEW t \in ThingIds, Disconnect(p, u, c, t)
  PROVE  IInv'
<1>1. Recalled
  BY DEF Disconnect, NoRemember, Recalled
<1>2. chanSet[c] \ {t} \in SUBSET ThingIds /\ \A x \in chanSet[c] \ {t} : <<c, x>> \in wasConn
  BY DEF IInv, CacheInv
<1>3. CacheInv'
  BY <1>1, <1>2, ChanCacheWriteInv DEF Disconnect, IInv
<1>4. [user |-> u, th |-> t, ch |-> c, key |-> None] \in Reqs /\ "connRow" \in Labels
  BY DEF Reqs, Labels
<1>5. ASSUME NEW r PROVE ReqOK("connRow", r, wasKey', wasConn')
  BY DEF ReqOK, KeyRead, ConnRead
<1>6. ReqInv'
  BY <1>1, <1>4, <1>5, GotoInv DEF Disconnect, IInv
<1>. QED
  BY <1>3, <1>6, CommandInv DEF Disconnect

\* Every request of an owner keeps the invariant.
LEMMA OwnerRequestInv ==
  ASSUME IInv, NEW p \in Procs, NEW u \in Users, OwnerRequest(p, u)
  PROVE  IInv'
<1>. DBInv
  BY DEF IInv
<1>1. CASE \E ts \in Batches(ThingIds), m \in Metas : \E ks \in [ts -> Keys] :
             CreateThings(p, u, ks, m)
  BY <1>1, SaveThingsInv, StatementInv, BatchesSubset DEF CreateThings
<1>2. CASE \E t \in ThingIds, m \in Metas : UpdateThing(p, u, t, m)
  BY <1>2, UpdateRowInv, StatementInv DEF UpdateThing, Ids
<1>3. CASE \E t \in ThingIds, k \in Keys : UpdateKey(p, u, t, k)
  BY <1>3, UpdateKeyInv, StatementInv DEF UpdateKey
<1>4. CASE \E t \in ThingIds : RemoveThing(p, u, t)
  BY <1>4, RemoveThingInv
<1>5. CASE \E cs \in Batches(ChanIds), m \in Metas : CreateChannels(p, u, cs, m)
  BY <1>5, SaveChannelsInv, StatementInv, BatchesSubset DEF CreateChannels
<1>6. CASE \E c \in ChanIds, m \in Metas : UpdateChannel(p, u, c, m)
  BY <1>6, UpdateRowInv, StatementInv DEF UpdateChannel, Ids
<1>7. CASE \E c \in ChanIds : RemoveChannel(p, u, c)
  BY <1>7, RemoveChannelInv
<1>8. CASE \E cs \in Batches(ChanIds), ts \in Batches(ThingIds) : Connect(p, u, cs, ts)
  BY <1>8, ConnectRowsInv, StatementInv, BatchesSubset DEF Connect
<1>9. CASE \E c \in ChanIds, t \in ThingIds : Disconnect(p, u, c, t)
  BY <1>9, DisconnectInv
<1>. QED
  BY <1>1, <1>2, <1>3, <1>4, <1>5, <1>6, <1>7, <1>8, <1>9 DEF OwnerRequest
-----------------------------------------------------------------------------
\* A read: the tables, the histories and the caches stay as they are.
LEMMA ReadInv ==
  ASSUME IInv, NEW p \in Procs, NEW l \in Labels, NEW r \in Reqs,
         Goto(p, l, r), ReqOK(l, r, wasKey, wasConn),
         NoRemember, UNCHANGED <<dbVars, cacheVars>>
  PROVE  IInv'
<1>1. Recalled /\ wasKey' = wasKey /\ wasConn' = wasConn
  BY DEF NoRemember, Recalled
<1>2. CacheInv' /\ ReqInv'
  BY <1>1, CacheKept, GotoInv DEF IInv
<1>. QED
  BY <1>2, CommandInv

\* The first command of CanAccessByKey, CanAccessByID and Identify keeps the invariant.
LEMMA AccessRequestInv ==
  ASSUME IInv, NEW p \in Procs, AccessRequest(p)
  PROVE  IInv'
<1>0. {"member", "selectKey", "granted"} \subseteq Labels
  BY DEF Labels
<1>1. ASSUME NEW c \in ChanIds, NEW k \in Keys, CanAccessByKey(p, c, k)
      PROVE  IInv'
  <2>1. CASE keyId[k] # None /\ Goto(p, "member", [NoReq EXCEPT !.ch = c, !.key = k, !.th = keyId[k]])
    <3>1. [NoReq EXCEPT !.ch = c, !.key = k, !.th = keyId[k]] \in Reqs
      BY DEF NoReq, Reqs, IInv, CacheInv
    <3>2. ReqOK("member", [NoReq EXCEPT !.ch = c, !.key = k, !.th = keyId[k]], wasKey, wasConn)
      BY <2>1, NoneAssumption DEF ReqOK, ConnRead, NoReq, IInv, CacheInv, Ids
    <3>. QED
      BY <1>0, <1>1, <2>1, <3>1, <3>2, ReadInv DEF CanAccessByKey
  <2>2. CASE Goto(p, "selectKey", [NoReq EXCEPT !.ch = c, !.key = k])
    <3>1. [NoReq EXCEPT !.ch = c, !.key = k] \in Reqs
      BY DEF NoReq, Reqs
    <3>2. ReqOK("selectKey", [NoReq EXCEPT !.ch = c, !.key = k], wasKey, wasConn)
      BY DEF ReqOK, KeyRead, ConnRead
    <3>. QED
      BY <1>0, <1>1, <2>2, <3>1, <3>2, ReadInv DEF CanAccessByKey
  <2>. QED
    BY <1>1, <2>1, <2>2 DEF CanAccessByKey
<1>2. ASSUME NEW c \in ChanIds, NEW t \in ThingIds, CanAccessByID(p, c, t)
      PROVE  IInv'
  <2>1. [NoReq EXCEPT !.ch = c, !.th = t] \in Reqs
    BY DEF NoReq, Reqs
  <2>2. ReqOK("member", [NoReq EXCEPT !.ch = c, !.th = t], wasKey, wasConn)
    BY NoneAssumption DEF ReqOK, ConnRead, NoReq, Ids
  <2>. QED
    BY <1>0, <1>2, <2>1, <2>2, ReadInv DEF CanAccessByID
<1>3. ASSUME NEW k \in Keys, Identify(p, k)
      PROVE  IInv'
  <2>1. CASE keyId[k] # None /\ Goto(p, "granted", [NoReq EXCEPT !.key = k, !.th = keyId[k]])
    <3>1. [NoReq EXCEPT !.key = k, !.th = keyId[k]] \in Reqs
      BY DEF NoReq, Reqs, IInv, CacheInv
    <3>2. ReqOK("granted", [NoReq EXCEPT !.key = k, !.th = keyId[k]], wasKey, wasConn)
      BY <2>1, NoneAssumption DEF ReqOK, NoReq, IInv, CacheInv, Ids
    <3>. QED
      BY <1>0, <1>3, <2>1, <3>1, <3>2, ReadInv DEF Identify
  <2>2. CASE Goto(p, "selectKey", [NoReq EXCEPT !.key = k])
    <3>1. [NoReq EXCEPT !.key = k] \in Reqs
      BY DEF NoReq, Reqs
    <3>2. ReqOK("selectKey", [NoReq EXCEPT !.key = k], wasKey, wasConn)
      BY DEF ReqOK, KeyRead, ConnRead
    <3>. QED
      BY <1>0, <1>3, <2>2, <3>1, <3>2, ReadInv DEF Identify
  <2>. QED
    BY <1>3, <2>1, <2>2 DEF Identify
<1>. QED
  BY <1>1, <1>2, <1>3 DEF AccessRequest

\* The later commands of the removing requests keep the invariant.
LEMMA RemoveStepsInv ==
  ASSUME IInv, NEW p \in Procs,
         \/ RemoveThingDel(p) \/ RemoveThingDB(p)
         \/ RemoveChannelDB(p) \/ DisconnectDB(p)
  PROVE  IInv'
<1>0. req[p] \in Reqs
  BY DEF IInv, ReqInv
<1>1. CASE RemoveThingDel(p)
  <2>1. Recalled
    BY <1>1 DEF RemoveThingDel, NoRemember, Recalled
  <2>2. CacheInv'
    BY <1>1, <2>1, <1>0 DEF RemoveThingDel, IInv, CacheInv, Recalled, Reqs
  <2>3. ReqOK("thingRow", req[p], wasKey', wasConn') /\ "thingRow" \in Labels
    BY DEF ReqOK, KeyRead, ConnRead, Labels
  <2>4. ReqInv'
    BY <1>1, <1>0, <2>1, <2>3, GotoInv DEF RemoveThingDel, IInv
  <2>. QED
    BY <1>1, <2>2, <2>4, CommandInv DEF RemoveThingDel
<1>2. CASE RemoveThingDB(p)
  <2>1. DBInv' /\ OwnersKept
    BY <1>0, <1>2, RemoveThingRowInv DEF RemoveThingDB, Reqs, IInv
  <2>. QED
    BY <1>2, <2>1, LastStatementInv DEF RemoveThingDB
<1>3. CASE RemoveChannelDB(p)
  <2>1. DBInv' /\ OwnersKept
    BY <1>0, <1>3, RemoveChannelRowInv DEF RemoveChannelDB, Reqs, IInv
  <2>. QED
    BY <1>3, <2>1, LastStatementInv DEF RemoveChannelDB
<1>4. CASE DisconnectDB(p)
  <2>1. DBInv' /\ OwnersKept
    BY <1>4, DisconnectRowInv, UnchangedDBInv DEF DisconnectDB, IInv
  <2>. QED
    BY <1>4, <2>1, LastStatementInv DEF DisconnectDB
<1>. QED
  BY <1>1, <1>2, <1>3, <1>4

\* The queries of the authorization calls keep the invariant.
LEMMA LookupStepsInv ==
  ASSUME IInv, NEW p \in Procs, HasThingCached(p) \/ SelectKey(p) \/ SelectConn(p)
  PROVE  IInv'
<1>0. req[p] \in Reqs /\ ReqOK(pc[p], req[p], wasKey, wasConn)
  BY DEF IInv, ReqInv
<1>a. {"granted", "selectKey", "selectConn", "setKey", "sadd", "idle"} \subseteq Labels
  BY DEF Labels
<1>b. ReqOK("idle", NoReq, wasKey, wasConn)
  BY DEF ReqOK, KeyRead, ConnRead
<1>1. CASE HasThingCached(p)
  <2>1. CASE req[p].th \in chanSet[req[p].ch] /\ Goto(p, "granted", req[p])
    <3>1. req[p].ch \in ChanIds /\ <<req[p].ch, req[p].th>> \in wasConn
      BY <1>0, <1>1, <2>1 DEF ReqOK, HasThingCached, Reqs, IInv, CacheInv
    <3>2. ReqOK("granted", req[p], wasKey, wasConn)
      BY <1>0, <1>1, <3>1 DEF ReqOK, HasThingCached, KeyRead
    <3>. QED
      BY <1>0, <1>a, <1>1, <2>1, <3>2, ReadInv DEF HasThingCached
  <2>2. CASE Goto(p, "selectKey", [req[p] EXCEPT !.th = None])
    <3>1. [req[p] EXCEPT !.th = None] \in Reqs
      BY <1>0 DEF Reqs
    <3>2. ReqOK("selectKey", [req[p] EXCEPT !.th = None], wasKey, wasConn)
      BY DEF ReqOK, KeyRead, ConnRead
    <3>. QED
      BY <1>a, <1>1, <2>2, <3>1, <3>2, ReadInv DEF HasThingCached
  <2>3. CASE req[p].key = None /\ Goto(p, "selectConn", req[p])
    <3>1. ReqOK("selectConn", req[p], wasKey, wasConn)
      BY <1>0, <1>1, <2>3 DEF ReqOK, HasThingCached, ConnRead
    <3>. QED
      BY <1>0, <1>a, <1>1, <2>3, <3>1, ReadInv DEF HasThingCached
  <2>. QED
    BY <1>1, <2>1, <2>2, <2>3 DEF HasThingCached
<1>2. CASE SelectKey(p)
  <2>1. CASE Done(p)
    BY <1>a, <1>b, <1>2, <2>1, NoReqType, ReadInv DEF SelectKey, Done
  <2>2. ASSUME NEW t \in WithKey(req[p].key),
               Goto(p, IF req[p].ch = None THEN "setKey" ELSE "selectConn",
                    [req[p] EXCEPT !.th = t])
        PROVE  IInv'
    <3>1. t \in ThingIds /\ <<req[p].key, t>> \in wasKey /\ req[p].key # None
      BY DEF WithKey, IInv, DBInv, DBTypeOK, RowsOwned, HistInv
    <3>2. [req[p] EXCEPT !.th = t] \in Reqs
      BY <1>0, <3>1 DEF Reqs
    <3>3. /\ [req[p] EXCEPT !.th = t].key = req[p].key
          /\ [req[p] EXCEPT !.th = t].ch = req[p].ch
          /\ [req[p] EXCEPT !.th = t].th = t
      BY <1>0 DEF Reqs
    <3>4. CASE req[p].ch = None
      <4>1. ReqOK("setKey", [req[p] EXCEPT !.th = t], wasKey, wasConn)
        BY <3>1, <3>3, <3>4 DEF ReqOK
      <4>. QED
        BY <1>a, <1>2, <2>2, <3>2, <3>4, <4>1, ReadInv DEF SelectKey
    <3>5. CASE req[p].ch # None
      <4>1. ReqOK("selectConn", [req[p] EXCEPT !.th = t], wasKey, wasConn)
        BY <3>1, <3>3, <3>5 DEF ReqOK, ConnRead
      <4>. QED
        BY <1>a, <1>2, <2>2, <3>2, <3>5, <4>1, ReadInv DEF SelectKey
    <3>. QED
      BY <3>4, <3>5
  <2>. QED
    BY <1>2, <2>1, <2>2 DEF SelectKey
<1>3. CASE SelectConn(p)
  <2>1. CASE Done(p)
    BY <1>a, <1>b, <1>3, <2>1, NoReqType, ReadInv DEF SelectConn, Done
  <2>2. CASE /\ Connected(req[p].ch, req[p].th)
             /\ Goto(p, IF req[p].key = None THEN "sadd" ELSE "setKey", req[p])
    <3>1. <<req[p].ch, req[p].th>> \in wasConn /\ req[p].ch # None
      BY <1>0, <1>3, <2>2 DEF Connected, IInv, HistInv, ReqOK, SelectConn
    <3>2. req[p].key # None => <<req[p].key, req[p].th>> \in wasKey
      BY <1>0, <1>3 DEF ReqOK, SelectConn, KeyRead
    <3>3. CASE req[p].key = None
      <4>1. ReqOK("sadd", req[p], wasKey, wasConn)
        BY <3>1, <3>3 DEF ReqOK
      <4>. QED
        BY <1>0, <1>a, <1>3, <2>2, <3>3, <4>1, ReadInv DEF SelectConn
    <3>4. CASE req[p].key # None
      <4>1. ReqOK("setKey", req[p], wasKey, wasConn)
        BY <3>1, <3>2, <3>4 DEF ReqOK
      <4>. QED
        BY <1>0, <1>a, <1>3, <2>2, <3>4, <4>1, ReadInv DEF SelectConn
    <3>. QED
      BY <3>3, <3>4
  <2>. QED
    BY <1>3, <2>1, <2>2 DEF SelectConn
<1>. QED
  BY <1>1, <1>2, <1>3

\* The commands that fill the caches add remembered facts only.
LEMMA FillStepsInv ==
  ASSUME IInv, NEW p \in Procs, CacheSetKey(p) \/ CacheSetId(p) \/ CacheConnect(p)
  PROVE  IInv'
<1>0. req[p] \in Reqs /\ ReqOK(pc[p], req[p], wasKey, wasConn)
  BY DEF IInv, ReqInv
<1>1. Recalled /\ wasKey' = wasKey /\ wasConn' = wasConn /\ UNCHANGED dbVars /\ NoRemember
  BY DEF CacheSetKey, CacheSetId, CacheConnect, NoRemember, Recalled
<1>2. pc[p] \in {"setKey", "setId", "sadd"}
  BY DEF CacheSetKey, CacheSetId, CacheConnect
<1>3. /\ req[p].key # None => <<req[p].key, req[p].th>> \in wasKey
      /\ req[p].ch # None => <<req[p].ch, req[p].th>> \in wasConn
  BY <1>0, <1>2 DEF ReqOK, KeyRead, ConnRead
<1>4. /\ pc[p] \in {"setKey", "setId"} => req[p].key # None
      /\ pc[p] = "sadd" => req[p].ch # None
  BY <1>0 DEF ReqOK
<1>5. /\ ReqOK("granted", req[p], wasKey', wasConn')
      /\ req[p].ch # None => ReqOK("sadd", req[p], wasKey', wasConn')
      /\ req[p].key # None => ReqOK("setId", req[p], wasKey', wasConn')
  BY <1>1, <1>2, <1>3, <1>4 DEF ReqOK
<1>6. ReqOK(AfterSave(p), req[p], wasKey', wasConn')
  BY <1>5 DEF AfterSave
<1>7. {"granted", "setId", "sadd"} \subseteq Labels /\ AfterSave(p) \in Labels
  BY DEF Labels, AfterSave
<1>8. ReqInv'
  <2>1. ASSUME NEW l \in Labels, Goto(p, l, req[p]), ReqOK(l, req[p], wasKey', wasConn')
        PROVE  ReqInv'
    BY <1>0, <1>1, <2>1, GotoInv DEF IInv
  <2>. QED
    BY <1>4, <1>5, <1>6, <1>7, <2>1 DEF CacheSetKey, CacheSetId, CacheConnect
<1>9. CacheInv'
  <2>1. CASE CacheSetKey(p)
    BY <1>0, <1>1, <1>3, <1>4, <2>1 DEF CacheSetKey, IInv, CacheInv, HistInv, Reqs
  <2>2. CASE CacheSetId(p)
    BY <1>0, <1>1, <2>2 DEF CacheSetId, IInv, CacheInv, Reqs
  <2>3. CASE CacheConnect(p)
    <3>1. <<req[p].ch, req[p].th>> \in wasConn /\ req[p].ch \in ChanIds
      BY <1>0, <1>3, <1>4, <2>3 DEF CacheConnect, Reqs
    <3>2. req[p].th \in ThingIds
      BY <3>1 DEF IInv, HistInv
    <3>3. /\ chanSet[req[p].ch] \cup {req[p].th} \in SUBSET ThingIds
          /\ \A t \in chanSet[req[p].ch] \cup {req[p].th} : <<req[p].ch, t>> \in wasConn
      BY <3>1, <3>2 DEF IInv, CacheInv
    <3>. QED
      BY <1>1, <2>3, <3>1, <3>3, ChanCacheWriteInv DEF CacheConnect, IInv
  <2>. QED
    BY <2>1, <2>2, <2>3
<1>. QED
  BY <1>1, <1>8, <1>9, CommandInv

\* A granted call that returns keeps the invariant.
LEMMA ReplyInv ==
  ASSUME IInv, NEW p \in Procs, Reply(p)
  PROVE  IInv'
<1>1. ReqOK("idle", NoReq, wasKey, wasConn) /\ "idle" \in Labels
  BY DEF ReqOK, KeyRead, ConnRead, Labels
<1>. QED
  BY <1>1, NoReqType, ReadInv DEF Reply, Done

\* A crash forgets the requests under way and nothing else.
LEMMA CrashInv ==
  ASSUME IInv, Crash
  PROVE  IInv'
<1>1. Recalled /\ CacheInv'
  BY CacheKept DEF Crash, NoRemember, Recalled, IInv
<1>2. ReqInv'
  <2>1. \A p \in Procs : ReqOK("idle", NoReq, wasKey', wasConn')
    BY DEF ReqOK, KeyRead, ConnRead
  <2>. QED
    BY <2>1, NoReqType DEF Crash, ReqInv, Labels
<1>. QED
  BY <1>1, <1>2, CommandInv DEF Crash
-----------------------------------------------------------------------------
\* The inductive invariant: initially true and kept by every step.
THEOREM Inductive == Spec => []IInv
<1>1. Init => IInv
  <2>. SUFFICES ASSUME Init PROVE IInv
    OBVIOUS
  <2>1. DBInv
    BY DEF Init, DBInit, DBInv, DBTypeOK, ReferentialIntegrity, KeysIdentify, RowsOwned
  <2>2. HistInv /\ CacheInv
    BY DEF Init, DBInit, HistInv, CacheInv
  <2>3. ReqInv
    BY NoReqType DEF Init, ReqInv, ReqOK, KeyRead, ConnRead, Labels
  <2>. QED
    BY <2>1, <2>2, <2>3 DEF IInv
<1>2. IInv /\ [Next]_vars => IInv'
  <2>. SUFFICES ASSUME IInv, [Next]_vars PROVE IInv'
    OBVIOUS
  <2>1. CASE UNCHANGED vars
    BY <2>1, UnchangedDBInv, NoRememberInv, CacheKept, ReqKept, CommandInv
       DEF vars, IInv, NoRemember
  <2>2. CASE Next
    BY <2>2, OwnerRequestInv, AccessRequestInv, RemoveStepsInv, LookupStepsInv,
       FillStepsInv, ReplyInv, CrashInv DEF Next, Step
  <2>. QED
    BY <2>1, <2>2
<1>. QED
  BY <1>1, <1>2, PTL DEF Spec

\* Every variable of the service keeps its type.
THEOREM TypeCorrect == Spec => []TypeOK
<1>1. IInv => TypeOK
  BY DEF IInv, DBInv, HistInv, CacheInv, ReqInv, TypeOK
<1>. QED
  BY <1>1, Inductive, PTL

\* The tables stay consistent: connections join existing rows of one owner.
THEOREM TablesConsistent == Spec => []ReferentialIntegrity
<1>1. IInv => ReferentialIntegrity
  BY DEF IInv, DBInv
<1>. QED
  BY <1>1, Inductive, PTL

\* A key names at most one existing thing.
THEOREM KeyNamesOneThing == Spec => []KeysIdentify
<1>1. IInv => KeysIdentify
  BY DEF IInv, DBInv
<1>. QED
  BY <1>1, Inductive, PTL

\* No cache entry and no answer of CanAccessByKey or CanAccessByID joins a
\* thing of one user to a channel of another.
THEOREM NoCrossTenantAccess == Spec => []TenantIsolation
<1>1. IInv => TenantIsolation
  <2>. SUFFICES ASSUME IInv PROVE TenantIsolation
    OBVIOUS
  <2>1. \A cn \in wasConn : owner[cn[2]] # None /\ owner[cn[1]] = owner[cn[2]]
    BY DEF IInv, HistInv
  <2>2. \A c \in ChanIds : \A t \in chanSet[c] : <<c, t>> \in wasConn
    BY DEF IInv, CacheInv
  <2>3. \A p \in Procs : pc[p] = "granted" /\ req[p].ch # None =>
                          <<req[p].ch, req[p].th>> \in wasConn
    BY DEF IInv, ReqInv, ReqOK, ConnRead
  <2>. QED
    BY <2>1, <2>2, <2>3 DEF TenantIsolation
<1>. QED
  BY <1>1, Inductive, PTL

\* An answer of the authorization calls was true at some moment.
THEOREM NoInventedGrant == Spec => []GrantWasAuthorised
<1>1. IInv => GrantWasAuthorised
  BY DEF IInv, ReqInv, ReqOK, KeyRead, ConnRead, GrantWasAuthorised
<1>. QED
  BY <1>1, Inductive, PTL
-----------------------------------------------------------------------------
(* Things implements Access: every step leaves the answers alone, gives    *)
(* one, takes one or loses them all.                                       *)

\* A step that changes no answer is one that may have added rows.
LEMMA QuietStep ==
  ASSUME IInv', Recalled, granted' = granted
  PROVE  Acc!Grow
<1>1. wasKey' \in SUBSET (Keys \X ThingIds) /\ wasConn' \in SUBSET (ChanIds \X ThingIds)
  BY DEF IInv, HistInv
<1>2. wasKey' = wasKey \cup wasKey' /\ wasConn' = wasConn \cup wasConn'
  BY DEF Recalled
<1>3. Acc!LearnKeys /\ Acc!LearnConns
  BY <1>1, <1>2 DEF Acc!LearnKeys, Acc!LearnConns
<1>. QED
  BY <1>3 DEF Acc!Grow

\* A request that goes from one label to another, neither "granted", changes no
\* answer.
LEMMA MoveStep ==
  ASSUME IInv, NEW p \in Procs, NEW l, NEW r, Goto(p, l, r), pc[p] # "granted", l # "granted"
  PROVE  granted' = granted
<1>. SUFFICES ASSUME NEW q \in Procs
              PROVE  /\ pc'[q] = "granted" <=> pc[q] = "granted"
                     /\ pc[q] = "granted" => req'[q] = req[q]
  BY DEF granted
<1>. QED
  BY DEF Goto, IInv, ReqInv

\* An answer rests on rows there were when it is given.
LEMMA GrantStep ==
  ASSUME IInv, IInv', NEW p \in Procs, NEW r, Goto(p, "granted", r), pc[p] # "granted", NoRemember
  PROVE  Acc!Grant(p)
<1>. DEFINE a == [th |-> r.th, ch |-> r.ch, key |-> r.key]
<1>1. pc'[p] = "granted" /\ req'[p] = r
  BY DEF Goto, IInv, ReqInv
<1>2. r \in Reqs /\ ReqOK("granted", r, wasKey', wasConn')
  BY <1>1 DEF IInv, ReqInv
<1>3. wasKey' = wasKey /\ wasConn' = wasConn
  BY DEF NoRemember
<1>4. /\ r.key # None => <<r.key, r.th>> \in wasKey
      /\ r.ch # None => <<r.ch, r.th>> \in wasConn
      /\ r.key # None \/ r.ch # None
  BY <1>2, <1>3 DEF ReqOK, KeyRead, ConnRead
<1>5. r.th \in ThingIds
  BY <1>4 DEF IInv, HistInv
<1>6. a \in Acc!Answers
  BY <1>2, <1>5 DEF Reqs, Acc!Answers
<1>7. Acc!Justified(a)
  BY <1>4 DEF Acc!Justified, Acc!MayIdentify
<1>8. granted[p] = None
  BY DEF granted
<1>9. granted' = [granted EXCEPT ![p] = a]
  <2>. SUFFICES ASSUME NEW q \in Procs
                PROVE  granted'[q] = [granted EXCEPT ![p] = a][q]
    BY DEF granted
  <2>1. CASE q = p
    BY <1>1, <2>1 DEF granted
  <2>2. CASE q # p
    <3>1. pc'[q] = pc[q] /\ req'[q] = req[q]
      BY <2>2 DEF Goto, IInv, ReqInv
    <3>. QED
      BY <2>2, <3>1 DEF granted
  <2>. QED
    BY <2>1, <2>2
<1>. QED
  BY <1>3, <1>6, <1>7, <1>8, <1>9 DEF Acc!Grant, Acc!logVars

\* A reply takes the answer.
LEMMA TakeStep ==
  ASSUME IInv, NEW p \in Procs, Reply(p)
  PROVE  Acc!Take(p)
<1>1. pc' = [pc EXCEPT ![p] = "idle"] /\ req' = [req EXCEPT ![p] = NoReq]
  BY DEF Reply, Done, Goto
<1>2. granted' = [granted EXCEPT ![p] = None]
  <2>. SUFFICES ASSUME NEW q \in Procs
                PROVE  granted'[q] = [granted EXCEPT ![p] = None][q]
    BY DEF granted
  <2>1. CASE q = p
    BY <1>1, <2>1 DEF granted, IInv, ReqInv
  <2>2. CASE q # p
    <3>1. pc'[q] = pc[q] /\ req'[q] = req[q]
      BY <1>1, <2>2 DEF IInv, ReqInv
    <3>. QED
      BY <2>2, <3>1 DEF granted
  <2>. QED
    BY <2>1, <2>2
<1>. QED
  BY <1>2 DEF Reply, NoRemember, Acc!Take, Acc!logVars

\* A statement, or the last step of a request that has no answer.
LEMMA StatementStep ==
  ASSUME IInv, IInv', Remember, NEW p \in Procs, pc[p] # "granted",
         UNCHANGED <<pc, req>> \/ Done(p)
  PROVE  Acc!Grow
<1>1. Recalled
  BY DEF Recalled, Remember
<1>2. CASE UNCHANGED <<pc, req>>
  BY <1>1, <1>2, QuietStep DEF granted
<1>3. CASE Done(p)
  BY <1>1, <1>3, QuietStep, MoveStep DEF Done
<1>. QED
  BY <1>2, <1>3

\* A command after which the request has no answer yet.
LEMMA CommandStep ==
  ASSUME IInv, IInv', NoRemember, NEW p \in Procs, pc[p] # "granted",
         NEW l, NEW r, Goto(p, l, r), l # "granted"
  PROVE  Acc!Grow
BY QuietStep, MoveStep DEF Recalled, NoRemember

\* The steps of owners' requests give no answer.
LEMMA OwnerStep ==
  ASSUME IInv, IInv', NEW p \in Procs, NEW u \in Users, OwnerRequest(p, u)
  PROVE  Acc!Grow
<1>1. CASE UNCHANGED <<pc, req>> /\ Remember /\ Idle(p)
  BY <1>1, StatementStep DEF Idle
<1>2. ASSUME NEW l, NEW r, Goto(p, l, r), l # "granted", NoRemember, Idle(p)
      PROVE  Acc!Grow
  BY <1>2, CommandStep DEF Idle
<1>. QED
  BY <1>1, <1>2 DEF OwnerRequest, CreateThings, UpdateThing, UpdateKey, CreateChannels,
     UpdateChannel, Connect, RemoveThing, RemoveChannel, Disconnect

\* The later steps of the removing requests give none either.
LEMMA RemoveStep ==
  ASSUME IInv, IInv', NEW p \in Procs,
         RemoveThingDel(p) \/ RemoveThingDB(p) \/ RemoveChannelDB(p) \/ DisconnectDB(p)
  PROVE  Acc!Grow
<1>1. CASE RemoveThingDel(p)
  BY <1>1, CommandStep DEF RemoveThingDel
<1>2. CASE RemoveThingDB(p) \/ RemoveChannelDB(p) \/ DisconnectDB(p)
  BY <1>2, StatementStep DEF RemoveThingDB, RemoveChannelDB, DisconnectDB
<1>. QED
  BY <1>1, <1>2

\* Every command of an authorization call before the reply leaves the answers
\* alone or gives the call its answer.
LEMMA AccessStep ==
  ASSUME IInv, IInv', NEW p \in Procs,
         \/ AccessRequest(p) \/ HasThingCached(p) \/ SelectKey(p) \/ SelectConn(p)
         \/ CacheSetKey(p) \/ CacheSetId(p) \/ CacheConnect(p)
  PROVE  Acc!Grow \/ Acc!Grant(p)
<1>1. NoRemember /\ pc[p] # "granted"
  BY DEF AccessRequest, CanAccessByKey, CanAccessByID, Identify, Idle, HasThingCached, SelectKey,
     SelectConn, CacheSetKey, CacheSetId, CacheConnect
<1>2. ASSUME NEW l, NEW r, Goto(p, l, r)
      PROVE  Acc!Grow \/ Acc!Grant(p)
  BY <1>1, <1>2, CommandStep, GrantStep
<1>3. \E l, r : Goto(p, l, r)
  BY DEF AccessRequest, CanAccessByKey, CanAccessByID, Identify, HasThingCached, SelectKey,
     SelectConn, CacheSetKey, CacheSetId, CacheConnect, Done
<1>. QED
  BY <1>2, <1>3

\* A crash loses every answer.
LEMMA RestartStep ==
  ASSUME Crash
  PROVE  Acc!Restart
BY DEF Crash, NoRemember, granted, Acc!Restart, Acc!logVars

\* The things service implements Access: initial states are initial states
\* there, and every step is a step there or changes nothing an adapter sees.
THEOREM Implements == Spec => ImplementsAccess
<1>1. Init => Acc!Init
  BY DEF Init, granted, Acc!Init, Acc!LogInit
<1>2. IInv /\ IInv' /\ [Next]_vars => [Acc!Next]_(Acc!accessVars)
  <2>. SUFFICES ASSUME IInv, IInv', [Next]_vars
                PROVE  [Acc!Next]_(Acc!accessVars)
    OBVIOUS
  <2>1. CASE UNCHANGED vars
    BY <2>1 DEF vars, granted, Acc!accessVars, Acc!logVars
  <2>2. CASE Next
    <3>1. ASSUME NEW p \in Procs, NEW u \in Users, OwnerRequest(p, u)
          PROVE  Acc!Next
      BY <3>1, OwnerStep DEF Acc!Next
    <3>2. ASSUME NEW p \in Procs, AccessRequest(p) \/ Step(p)
          PROVE  Acc!Next
      BY <3>2, RemoveStep, AccessStep, TakeStep DEF Step, Acc!Next
    <3>3. ASSUME Crash
          PROVE  Acc!Next
      BY <3>3, RestartStep DEF Acc!Next
    <3>. QED
      BY <2>2, <3>1, <3>2, <3>3 DEF Next
  <2>. QED
    BY <2>1, <2>2
<1>. QED
  BY <1>1, <1>2, Inductive, PTL DEF Spec, ImplementsAccess, Acc!Spec
-----------------------------------------------------------------------------
(* The channel cache, when requests do not overlap and Redis does not fail. *)

OneAtATime == ~RedisFaults /\ \A p, q \in Procs : p = q

\* What the only request, at label l with arguments r, can rely on: a connection
\* it has read is still there, and what it is about to delete is not cached.
LoneOK(l, r) ==
  /\ l \in {"setKey", "setId", "sadd"} /\ r.ch # None => <<r.ch, r.th>> \in conns
  /\ l = "chanRow" => chanSet[r.ch] = {}
  /\ l = "connRow" => r.th \notin chanSet[r.ch]

CoherentInv == ChanCacheCoherent /\ \A p \in Procs : LoneOK(pc[p], req[p])

\* A step of the only request.
LEMMA LoneGoto ==
  ASSUME OneAtATime, IInv, NEW p \in Procs, NEW l, NEW r, Goto(p, l, r),
         ChanCacheCoherent', LoneOK(l, r)'
  PROVE  CoherentInv'
<1>1. pc'[p] = l /\ req'[p] = r
  BY DEF Goto, IInv, ReqInv
<1>2. \A q \in Procs : q = p
  BY DEF OneAtATime
<1>3. LoneOK(pc[p], req[p])'
  BY <1>1 DEF LoneOK
<1>. QED
  BY <1>2, <1>3 DEF CoherentInv

\* A request of one statement that leaves the cached connections alone: a thing
\* in the cache is not new, for its id was given out before.
LEMMA LoneStatement ==
  ASSUME OneAtATime, IInv, CoherentInv, NEW p \in Procs, Idle(p), UNCHANGED <<cacheVars, pc, req>>,
         \A t \in things' \ things : owner[t] = None, conns \subseteq conns'
  PROVE  CoherentInv'
<1>1. \A q \in Procs : q = p
  BY DEF OneAtATime
<1>2. LoneOK(pc[p], req[p])'
  BY DEF LoneOK, Idle
<1>3. ChanCacheCoherent'
  <2>. SUFFICES ASSUME NEW c \in ChanIds, NEW t \in chanSet[c], t \in things'
                PROVE  <<c, t>> \in conns'
    BY DEF ChanCacheCoherent, cacheVars
  <2>1. owner[t] # None
    BY DEF IInv, CacheInv, HistInv
  <2>. QED
    BY <2>1 DEF CoherentInv, ChanCacheCoherent
<1>. QED
  BY <1>1, <1>2, <1>3 DEF CoherentInv

\* Owners' requests: the cache is cleared before the row goes.
LEMMA LoneOwner ==
  ASSUME OneAtATime, IInv, CoherentInv, NEW p \in Procs, NEW u \in Users, OwnerRequest(p, u)
  PROVE  CoherentInv'
<1>1. ASSUME NEW ts \in Batches(ThingIds), NEW m \in Metas, NEW ks \in [ts -> Keys], CreateThings(p, u, ks, m)
      PROVE  CoherentInv'
  BY <1>1, LoneStatement DEF CreateThings, SaveThings
<1>2. ASSUME NEW x, NEW m, UpdateThing(p, u, x, m) \/ UpdateKey(p, u, x, m) \/ UpdateChannel(p, u, x, m)
      PROVE  CoherentInv'
  BY <1>2, LoneStatement
  DEF UpdateThing, UpdateKey, UpdateChannel, UpdateThingRow, UpdateKeyRow, UpdateChannelRow
<1>3. ASSUME NEW cs, NEW m, CreateChannels(p, u, cs, m)
      PROVE  CoherentInv'
  BY <1>3, LoneStatement DEF CreateChannels, SaveChannels
<1>4. ASSUME NEW cs, NEW ts, Connect(p, u, cs, ts)
      PROVE  CoherentInv'
  BY <1>4, LoneStatement DEF Connect, ConnectRows
<1>5. ASSUME NEW t \in ThingIds, RemoveThing(p, u, t)
      PROVE  CoherentInv'
  <2>1. ChanCacheCoherent'
    BY <1>5 DEF RemoveThing, dbVars, cacheVars, CoherentInv, ChanCacheCoherent
  <2>2. PICK l \in {"thingDel", "thingRow"} : \E r : Goto(p, l, r)
    BY <1>5 DEF RemoveThing
  <2>. QED
    BY <2>1, <2>2, LoneGoto DEF LoneOK
<1>6. ASSUME NEW c \in ChanIds, RemoveChannel(p, u, c)
      PROVE  CoherentInv'
  <2>1. chanSet' = [chanSet EXCEPT ![c] = {}] /\ UNCHANGED <<things, conns>>
    BY <1>6 DEF RemoveChannel, ChanCacheWrite, OneAtATime, dbVars
  <2>2. ChanCacheCoherent' /\ chanSet'[c] = {}
    BY <2>1 DEF IInv, CacheInv, CoherentInv, ChanCacheCoherent
  <2>3. PICK r : Goto(p, "chanRow", r) /\ r.ch = c
    <3>1. [NoReq EXCEPT !.user = u, !.ch = c].ch = c
      BY DEF NoReq
    <3>. QED
      BY <1>6, <3>1 DEF RemoveChannel
  <2>. QED
    BY <2>2, <2>3, LoneGoto DEF LoneOK
<1>7. ASSUME NEW c \in ChanIds, NEW t \in ThingIds, Disconnect(p, u, c, t)
      PROVE  CoherentInv'
  <2>1. chanSet' = [chanSet EXCEPT ![c] = chanSet[c] \ {t}] /\ UNCHANGED <<things, conns>>
    BY <1>7 DEF Disconnect, ChanCacheWrite, OneAtATime, dbVars
  <2>2. ChanCacheCoherent' /\ t \notin chanSet'[c]
    BY <2>1 DEF IInv, CacheInv, CoherentInv, ChanCacheCoherent
  <2>3. PICK r : Goto(p, "connRow", r) /\ r.ch = c /\ r.th = t
    BY <1>7 DEF Disconnect
  <2>. QED
    BY <2>2, <2>3, LoneGoto DEF LoneOK
<1>. QED
  BY <1>1, <1>2, <1>3, <1>4, <1>5, <1>6, <1>7 DEF OwnerRequest

\* The statements that delete rows: what they delete is not in the cache.
LEMMA LoneRemove ==
  ASSUME OneAtATime, IInv, CoherentInv, NEW p \in Procs,
         RemoveThingDel(p) \/ RemoveThingDB(p) \/ RemoveChannelDB(p) \/ DisconnectDB(p)
  PROVE  CoherentInv'
<1>. /\ chanSet \in [ChanIds -> SUBSET ThingIds] /\ things \subseteq ThingIds /\ chans \subseteq ChanIds
     /\ conns \subseteq ChanIds \X ThingIds
  BY DEF IInv, CacheInv, DBInv, DBTypeOK
<1>1. CASE RemoveThingDel(p)
  <2>1. ChanCacheCoherent'
    BY <1>1 DEF RemoveThingDel, dbVars, CoherentInv, ChanCacheCoherent
  <2>. QED
    BY <1>1, <2>1, LoneGoto DEF RemoveThingDel, LoneOK
<1>2. CASE RemoveThingDB(p)
  <2>1. ChanCacheCoherent'
    <3>. SUFFICES ASSUME NEW c \in ChanIds, NEW t \in chanSet[c], t \in things'
                  PROVE  <<c, t>> \in conns'
      BY <1>2 DEF RemoveThingDB, cacheVars, ChanCacheCoherent
    <3>. QED
      BY <1>2, IdsAssumption DEF RemoveThingDB, RemoveThingRow, Cascade, dbVars, CoherentInv, ChanCacheCoherent
  <2>. QED
    BY <1>2, <2>1, LoneGoto DEF RemoveThingDB, Done, LoneOK
<1>3. CASE RemoveChannelDB(p)
  <2>1. pc[p] = "chanRow" /\ chanSet[req[p].ch] = {}
    BY <1>3 DEF RemoveChannelDB, CoherentInv, LoneOK
  <2>2. ChanCacheCoherent'
    <3>. SUFFICES ASSUME NEW c \in ChanIds, NEW t \in chanSet[c], t \in things'
                  PROVE  <<c, t>> \in conns'
      BY <1>3 DEF RemoveChannelDB, cacheVars, ChanCacheCoherent
    <3>. QED
      BY <1>3, <2>1, IdsAssumption
      DEF RemoveChannelDB, RemoveChannelRow, Cascade, dbVars, CoherentInv, ChanCacheCoherent
  <2>. QED
    BY <1>3, <2>2, LoneGoto DEF RemoveChannelDB, Done, LoneOK
<1>4. CASE DisconnectDB(p)
  <2>1. pc[p] = "connRow" /\ req[p].th \notin chanSet[req[p].ch]
    BY <1>4 DEF DisconnectDB, CoherentInv, LoneOK
  <2>2. ChanCacheCoherent'
    <3>. SUFFICES ASSUME NEW c \in ChanIds, NEW t \in chanSet[c], t \in things'
                  PROVE  <<c, t>> \in conns'
      BY <1>4 DEF DisconnectDB, cacheVars, ChanCacheCoherent
    <3>. QED
      BY <1>4, <2>1 DEF DisconnectDB, DisconnectRow, dbVars, CoherentInv, ChanCacheCoherent
  <2>. QED
    BY <1>4, <2>2, LoneGoto DEF DisconnectDB, Done, LoneOK
<1>. QED
  BY <1>1, <1>2, <1>3, <1>4

\* The authorization calls fill the cache with connections that are there.
LEMMA LoneAccess ==
  ASSUME OneAtATime, IInv, CoherentInv, NEW p \in Procs,
         \/ AccessRequest(p) \/ HasThingCached(p) \/ SelectKey(p) \/ SelectConn(p)
         \/ CacheSetKey(p) \/ CacheSetId(p) \/ CacheConnect(p) \/ Reply(p)
  PROVE  CoherentInv'
<1>1. UNCHANGED <<things, conns>>
  BY DEF AccessRequest, CanAccessByKey, CanAccessByID, Identify, HasThingCached, SelectKey, SelectConn,
     CacheSetKey, CacheSetId, CacheConnect, Reply, dbVars
<1>2. CASE CacheConnect(p)
  <2>1. pc[p] = "sadd" /\ req[p].ch \in ChanIds /\ <<req[p].ch, req[p].th>> \in conns
    BY <1>2 DEF CacheConnect, CoherentInv, LoneOK, IInv, ReqInv, ReqOK, Reqs
  <2>2. chanSet' = [chanSet EXCEPT ![req[p].ch] = chanSet[req[p].ch] \cup {req[p].th}]
    BY <1>2 DEF CacheConnect, ChanCacheWrite, OneAtATime
  <2>3. ChanCacheCoherent'
    BY <1>1, <2>1, <2>2 DEF IInv, CacheInv, CoherentInv, ChanCacheCoherent
  <2>. QED
    BY <1>2, <2>3, LoneGoto DEF CacheConnect, LoneOK
<1>3. CASE ~CacheConnect(p)
  <2>1. UNCHANGED chanSet
    BY <1>3 DEF AccessRequest, CanAccessByKey, CanAccessByID, Identify, HasThingCached, SelectKey, SelectConn,
       CacheSetKey, CacheSetId, Reply, cacheVars
  <2>2. ChanCacheCoherent'
    BY <1>1, <2>1 DEF CoherentInv, ChanCacheCoherent
  <2>3. LoneOK(pc[p], req[p])
    BY DEF CoherentInv
  <2>4. CASE \E l \in {"idle", "member", "selectKey", "selectConn", "granted"} : \E r : Goto(p, l, r)
    BY <2>2, <2>4, LoneGoto DEF LoneOK
  <2>5. CASE AccessRequest(p) \/ HasThingCached(p) \/ Reply(p)
    BY <2>4, <2>5 DEF AccessRequest, CanAccessByKey, CanAccessByID, Identify, HasThingCached, Reply, Done
  <2>6. CASE SelectKey(p)
    <3>1. CASE WithKey(req[p].key) = {} /\ Done(p)
      BY <2>4, <3>1 DEF Done
    <3>2. ASSUME NEW t, Goto(p, IF req[p].ch = None THEN "setKey" ELSE "selectConn", [req[p] EXCEPT !.th = t])
          PROVE  CoherentInv'
      <4>1. CASE req[p].ch = None
        <5>1. Goto(p, "setKey", [req[p] EXCEPT !.th = t]) /\ [req[p] EXCEPT !.th = t].ch = None
          BY <3>2, <4>1 DEF IInv, ReqInv, Reqs
        <5>. QED
          BY <2>2, <5>1, LoneGoto DEF LoneOK
      <4>2. CASE req[p].ch # None
        BY <2>4, <3>2, <4>2
      <4>. QED
        BY <4>1, <4>2
    <3>. QED
      BY <2>6, <3>1, <3>2 DEF SelectKey
  <2>7. CASE SelectConn(p)
    <3>1. CASE Done(p)
      BY <2>4, <3>1 DEF Done
    <3>2. CASE <<req[p].ch, req[p].th>> \in conns /\ \E l \in {"sadd", "setKey"} : Goto(p, l, req[p])
      BY <1>1, <2>2, <3>2, LoneGoto DEF LoneOK
    <3>. QED
      BY <2>7, <3>1, <3>2 DEF SelectConn, Connected
  <2>8. CASE CacheSetKey(p) \/ CacheSetId(p)
    <3>1. \E l \in {"setId", "sadd", "granted"} : Goto(p, l, req[p])
      BY <2>8 DEF CacheSetKey, CacheSetId, AfterSave
    <3>2. pc[p] \in {"setKey", "setId"}
      BY <2>8 DEF CacheSetKey, CacheSetId
    <3>. QED
      BY <1>1, <2>2, <2>3, <3>1, <3>2, LoneGoto DEF LoneOK
  <2>. QED
    BY <1>3, <2>5, <2>6, <2>7, <2>8
<1>. QED
  BY <1>2, <1>3

\* When requests do not overlap and Redis does not fail, the channel cache lists a
\* thing that exists only where it is connected, also after crashes between the
\* cache and the row (RemoveChannel, Disconnect).
THEOREM CacheCoherent ==
  ASSUME OneAtATime
  PROVE  Spec => []ChanCacheCoherent
<1>1. Init => CoherentInv
  BY DEF Init, DBInit, CoherentInv, ChanCacheCoherent, LoneOK
<1>2. IInv /\ CoherentInv /\ [Next]_vars => CoherentInv'
  <2>. SUFFICES ASSUME IInv, CoherentInv, [Next]_vars
                PROVE  CoherentInv'
    OBVIOUS
  <2>1. CASE UNCHANGED vars
    BY <2>1 DEF vars, dbVars, cacheVars, CoherentInv, ChanCacheCoherent, LoneOK
  <2>2. ASSUME NEW p \in Procs, Step(p) \/ AccessRequest(p)
        PROVE  CoherentInv'
    BY <2>2, LoneRemove, LoneAccess DEF Step
  <2>3. CASE Crash
    BY <2>3 DEF Crash, dbVars, cacheVars, CoherentInv, ChanCacheCoherent, LoneOK
  <2>. QED
    BY <2>1, <2>2, <2>3, LoneOwner DEF Next
<1>3. CoherentInv => ChanCacheCoherent
  BY DEF CoherentInv
<1>. QED
  BY <1>1, <1>2, <1>3, Inductive, PTL DEF Spec
=============================================================================
