------------------------------ MODULE ThingsDB ------------------------------
(***************************************************************************)
(* The PostgreSQL tables of the things service and the statements its      *)
(* repositories run on them (things/postgres).  Every operator below is    *)
(* one SQL statement or one transaction, hence one atomic step.  A         *)
(* statement whose guard fails returns ErrNotFound or ErrConflict to the   *)
(* caller and rolls back: it changes nothing.                              *)
(***************************************************************************)
EXTENDS Naturals, FiniteSets

CONSTANTS Users,     \* e-mails that authn returns for a valid token
          ThingIds,  \* UUIDs the identity provider hands out for things
          ChanIds,   \* UUIDs the identity provider hands out for channels
          Keys,      \* access keys of things
          Metas,     \* name and metadata of a thing or a channel, as one value
          None       \* absent value ("" or SQL no row)

Ids == ThingIds \cup ChanIds

ASSUME NoneAssumption == None \notin Users \cup Ids \cup Keys \cup Metas
ASSUME IdsAssumption  == ThingIds \cap ChanIds = {}

VARIABLES owner,   \* owner column by id; kept after a row is deleted, because
                   \* UUIDs are never reused; None = not generated yet
          things,  \* ids with a row in table things
          chans,   \* ids with a row in table channels
          key,     \* key column of things (None without a row)
          meta,    \* name, metadata columns (None without a row)
          conns    \* table connections: <<channel, thing>>

dbVars == <<owner, things, chans, key, meta, conns>>

DBInit ==
  /\ owner  = [x \in Ids |-> None]
  /\ things = {} /\ chans = {} /\ conns = {}
  /\ key    = [t \in ThingIds |-> None]
  /\ meta   = [x \in Ids |-> None]

DBTypeOK ==
  /\ owner \in [Ids -> Users \cup {None}]
  /\ things \subseteq ThingIds
  /\ chans \subseteq ChanIds
  /\ key \in [ThingIds -> Keys \cup {None}]
  /\ meta \in [Ids -> Metas \cup {None}]
  /\ conns \subseteq ChanIds \X ThingIds
-----------------------------------------------------------------------------
(* thingRepository *)

\* UNIQUE (key): no other row holds k.
KeyFree(t, k) == \A x \in things \ {t} : key[x] # k

\* Save: one transaction; ks gives the key of each new thing of the batch.
\* One duplicate key rolls the whole batch back.
SaveThings(u, ks, m) ==
  /\ \A t \in DOMAIN ks : owner[t] = None
  /\ \A t \in DOMAIN ks : KeyFree(t, ks[t])
  /\ \A t, x \in DOMAIN ks : ks[t] = ks[x] => t = x
  /\ things' = things \cup DOMAIN ks
  /\ owner' = [x \in Ids |-> IF x \in DOMAIN ks THEN u ELSE owner[x]]
  /\ meta'  = [x \in Ids |-> IF x \in DOMAIN ks THEN m ELSE meta[x]]
  /\ key'   = [t \in ThingIds |-> IF t \in DOMAIN ks THEN ks[t] ELSE key[t]]
  /\ UNCHANGED <<chans, conns>>

\* Update: UPDATE things SET name, metadata WHERE owner AND id.
UpdateThingRow(u, t, m) ==
  /\ t \in things /\ owner[t] = u
  /\ meta' = [meta EXCEPT ![t] = m]
  /\ UNCHANGED <<owner, things, chans, key, conns>>

\* UpdateKey: UPDATE things SET key WHERE owner AND id.
UpdateKeyRow(u, t, k) ==
  /\ t \in things /\ owner[t] = u
  /\ KeyFree(t, k)
  /\ key' = [key EXCEPT ![t] = k]
  /\ UNCHANGED <<owner, things, chans, meta, conns>>

\* Mutant of Cascade: ON DELETE CASCADE is missing on channel_id.
CascadeThings(gone) == {cn \in conns : cn[2] \notin gone}

\* The connections that ON DELETE CASCADE leaves when the rows in gone go.
Cascade(gone) == {cn \in conns : cn[1] \notin gone /\ cn[2] \notin gone}

\* Mutant of RemoveThingRow: the id may be given out again.
RemoveThingRowReuse(u, t) ==
  IF t \in things /\ owner[t] = u
    THEN /\ things' = things \ {t}
         /\ key'   = [key EXCEPT ![t] = None]
         /\ meta'  = [meta EXCEPT ![t] = None]
         /\ owner' = [owner EXCEPT ![t] = None]
         /\ conns' = Cascade({t})
         /\ UNCHANGED chans
    ELSE UNCHANGED dbVars

\* Remove: DELETE ... WHERE id AND owner.  The result is ignored and nil is
\* returned, whether or not a row was there.
RemoveThingRow(u, t) ==
  IF t \in things /\ owner[t] = u
    THEN /\ things' = things \ {t}
         /\ key'   = [key EXCEPT ![t] = None]
         /\ meta'  = [meta EXCEPT ![t] = None]
         /\ conns' = Cascade({t})
         /\ UNCHANGED <<owner, chans>>
    ELSE UNCHANGED dbVars

\* RetrieveByKey, and the first query of HasThing: ids of the rows with key k.
WithKey(k) == {t \in things : key[t] = k}
-----------------------------------------------------------------------------
(* channelRepository *)

\* Save: one transaction for the batch.
SaveChannels(u, cs, m) ==
  /\ \A c \in cs : owner[c] = None
  /\ chans' = chans \cup cs
  /\ owner' = [x \in Ids |-> IF x \in cs THEN u ELSE owner[x]]
  /\ meta'  = [x \in Ids |-> IF x \in cs THEN m ELSE meta[x]]
  /\ UNCHANGED <<things, key, conns>>

UpdateChannelRow(u, c, m) ==
  /\ c \in chans /\ owner[c] = u
  /\ meta' = [meta EXCEPT ![c] = m]
  /\ UNCHANGED <<owner, things, chans, key, conns>>

RemoveChannelRow(u, c) ==
  IF c \in chans /\ owner[c] = u
    THEN /\ chans' = chans \ {c}
         /\ meta'  = [meta EXCEPT ![c] = None]
         /\ conns' = Cascade({c})
         /\ UNCHANGED <<owner, things, key>>
    ELSE UNCHANGED dbVars

\* The foreign keys (channel_id, channel_owner) and (thing_id, thing_owner)
\* of a connection that user u inserts: both rows exist and both are u's.
ForeignKeys(u, c, t) ==
  /\ c \in chans /\ owner[c] = u
  /\ t \in things /\ owner[t] = u

\* Connect: every pair of the request in one transaction; a foreign key or a
\* primary key violation of one pair rolls all of them back.
ConnectRows(u, cs, ts) ==
  /\ \A c \in cs, t \in ts : ForeignKeys(u, c, t)
  /\ (cs \X ts) \cap conns = {}
  /\ conns' = conns \cup (cs \X ts)
  /\ UNCHANGED <<owner, things, chans, key, meta>>

\* The row that Disconnect deletes, if any.
OwnConn(u, c, t) == <<c, t>> \in conns /\ owner[c] = u /\ owner[t] = u

\* Disconnect: zero rows deleted is ErrNotFound.
DisconnectRow(c, t) ==
  /\ conns' = conns \ {<<c, t>>}
  /\ UNCHANGED <<owner, things, chans, key, meta>>
-----------------------------------------------------------------------------
\* A connection always joins an existing thing to an existing channel, both of
\* one owner: Connect, the two Remove statements and their cascades keep the
\* three tables consistent (things/postgres/init.go, FOREIGN KEY clauses).
ReferentialIntegrity ==
  \A cn \in conns : /\ cn[1] \in chans /\ cn[2] \in things
                    /\ owner[cn[1]] = owner[cn[2]]
                    /\ owner[cn[1]] # None

\* A key names at most one thing, so that Identify and HasThing, which take the
\* first row they find, have no choice (key VARCHAR UNIQUE NOT NULL).
KeysIdentify ==
  \A t, x \in things : key[t] = key[x] => t = x
=============================================================================
