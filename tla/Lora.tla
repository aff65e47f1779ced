-------------------------------- MODULE Lora --------------------------------
(***************************************************************************)
(* The LoRa adapter: it keeps, in Redis, a route map between device EUIs   *)
(* and things and one between application ids and channels, written from   *)
(* the events of the things service (lora/redis), and forwards messages of *)
(* the LoRa server under the ids they map to (lora/service.go).            *)
(*                                                                         *)
(* Each Redis command is a step; Get and DEL of Remove are one, as nobody  *)
(* else writes the maps.  The two maps have prefixes of their own, here    *)
(* disjoint sets of ids.                                                   *)
(***************************************************************************)
EXTENDS EventLoop, FiniteSets

CONSTANTS Things, Chans,  \* Mainflux ids
          Euis, Apps,     \* device EUIs and application ids
          None            \* no key

Ids  == Things \cup Chans
Exts == Euis \cup Apps
Flags == {"unborn", "plain", "malformed", "removed"}

ASSUME LoraAssumption ==
  /\ Things \cap Chans = {} /\ Euis \cap Apps = {} /\ Ids \cap Exts = {}
  /\ None \notin Ids \cup Exts \cup Flags /\ (Ids \cup Exts) \cap Flags = {}

VARIABLES declared,  \* what the metadata of an entity says of LoRa
          named,     \* history: every <<entity, EUI or application>> declared
          spoilt,    \* history: entities with an event that was lost in a batch,
                     \* or that a remove event was published of while they stay
          mfx, ext,  \* the keys mfx:lora:<id> and lora:mfx:<EUI or application>
          half,      \* has Save set the first of its two keys?
          msg        \* the message that Publish has in hand

loraVars == <<declared, named, spoilt, mfx, ext, half, msg>>
vars == <<loopVars, loraVars>>

NoMsg == [eui |-> None, app |-> None, thing |-> None, chan |-> None]

Init ==
  /\ LoopInit
  /\ declared = [i \in Ids |-> "unborn"] /\ named = {} /\ spoilt = {}
  /\ mfx = [i \in Ids |-> None] /\ ext = [x \in Exts |-> None]
  /\ half = FALSE /\ msg = NoMsg

ExtsOf(i) == IF i \in Things THEN Euis ELSE Apps
Live(i) == declared[i] \notin {"unborn", "removed"}
-----------------------------------------------------------------------------
(* Events of the things service. *)

\* A value of the metadata: no field "lora", one that does not decode, or an id.
Metas(i) == {"plain", "malformed"} \cup ExtsOf(i)

Declare(i, mt) ==
  /\ declared' = [declared EXCEPT ![i] = mt]
  /\ named' = IF mt \in Exts THEN named \cup {<<i, mt>>} ELSE named
  /\ Add([op |-> "save", id |-> i, meta |-> mt])
  /\ UNCHANGED <<spoilt, mfx, ext, half, msg>>

\* thing.create and channel.create.
Create(i) == declared[i] = "unborn" /\ \E mt \in Metas(i) : Declare(i, mt)

\* thing.update and channel.update.
Update(i) == Live(i) /\ \E mt \in Metas(i) : Declare(i, mt)

\* thing.remove and channel.remove, published also when nothing was removed,
\* as when the caller is not the owner.
Remove(i) ==
  /\ \/ Live(i) /\ declared' = [declared EXCEPT ![i] = "removed"] /\ UNCHANGED spoilt
     \/ spoilt' = spoilt \cup {i} /\ UNCHANGED declared
  /\ Add([op |-> "remove", id |-> i, meta |-> "plain"])
  /\ UNCHANGED <<named, mfx, ext, half, msg>>
-----------------------------------------------------------------------------
(* The consumer. *)

ReadEvents == Read /\ UNCHANGED loraVars

Event == Head(batch)
\* The loop over the batch ends early.
Lose == Break /\ spoilt' = spoilt \cup {batch[n].id : n \in DOMAIN batch}
Handling(op) == batch # <<>> /\ Event.op = op

\* decodeCreateThing, decodeCreateChannel: errMetadataType is no failure.
Ignore ==
  /\ Handling("save") /\ Event.meta = "plain"
  /\ Ack /\ UNCHANGED loraVars

BadMetadata ==
  /\ Handling("save") /\ Event.meta = "malformed"
  /\ Lose /\ UNCHANGED <<declared, named, mfx, ext, half, msg>>

\* Save: SET of the key of the Mainflux id, then of the LoRa id.
SaveMfx ==
  /\ Handling("save") /\ Event.meta \in Exts /\ ~half
  /\ mfx' = [mfx EXCEPT ![Event.id] = Event.meta] /\ half' = TRUE
  /\ UNCHANGED <<loopVars, declared, named, spoilt, ext, msg>>

SaveExt ==
  /\ Handling("save") /\ half
  /\ ext' = [ext EXCEPT ![Event.meta] = Event.id] /\ half' = FALSE
  /\ Ack /\ UNCHANGED <<declared, named, spoilt, mfx, msg>>

\* Remove: both keys, as the first one has them.
RemoveRoute ==
  /\ Handling("remove") /\ mfx[Event.id] # None
  /\ mfx' = [mfx EXCEPT ![Event.id] = None]
  /\ ext' = [ext EXCEPT ![mfx[Event.id]] = None]
  /\ Ack /\ UNCHANGED <<declared, named, spoilt, half, msg>>

\* There is no key: redis.Nil is an error like any other.
RemoveUnknown ==
  /\ Handling("remove") /\ mfx[Event.id] = None
  /\ Lose /\ UNCHANGED <<declared, named, mfx, ext, half, msg>>

\* A failed command breaks the loop, a crash forgets the batch.
Fail ==
  /\ batch # <<>>
  /\ Lose /\ half' = FALSE /\ UNCHANGED <<declared, named, mfx, ext, msg>>

Consume ==
  ReadEvents \/ Ignore \/ BadMetadata \/ SaveMfx \/ SaveExt \/ RemoveRoute \/ RemoveUnknown \/ Fail
-----------------------------------------------------------------------------
(* Publish. *)

Receive(e, a) ==
  /\ msg = NoMsg /\ msg' = [NoMsg EXCEPT !.eui = e, !.app = a]
  /\ UNCHANGED <<loopVars, declared, named, spoilt, mfx, ext, half>>

\* Get of the device; ErrNotFoundDev.
GetThing ==
  /\ msg.eui # None /\ msg.thing = None
  /\ msg' = IF ext[msg.eui] = None THEN NoMsg ELSE [msg EXCEPT !.thing = ext[msg.eui]]
  /\ UNCHANGED <<loopVars, declared, named, spoilt, mfx, ext, half>>

\* Mutant of GetChannel: the device's id again.
GetChannelOfDevice ==
  /\ msg.thing # None /\ msg.chan = None
  /\ msg' = IF ext[msg.eui] = None THEN NoMsg ELSE [msg EXCEPT !.chan = ext[msg.eui]]
  /\ UNCHANGED <<loopVars, declared, named, spoilt, mfx, ext, half>>

\* Get of the application; ErrNotFoundApp.
GetChannel ==
  /\ msg.thing # None /\ msg.chan = None
  /\ msg' = IF ext[msg.app] = None THEN NoMsg ELSE [msg EXCEPT !.chan = ext[msg.app]]
  /\ UNCHANGED <<loopVars, declared, named, spoilt, mfx, ext, half>>

\* publisher.Publish.
Forward ==
  /\ msg.chan # None /\ msg' = NoMsg
  /\ UNCHANGED <<loopVars, declared, named, spoilt, mfx, ext, half>>

Publish == (\E e \in Euis, a \in Apps : Receive(e, a)) \/ GetThing \/ GetChannel \/ Forward
-----------------------------------------------------------------------------
Next ==
  \/ \E i \in Ids : Create(i) \/ Update(i) \/ Remove(i)
  \/ Consume \/ Publish

Spec == Init /\ [][Next]_vars
-----------------------------------------------------------------------------
\* A message is forwarded under ids whose metadata has named its device and its
\* application, whatever was declared, removed, lost and taken over since.
ForwardedWasDeclared ==
  msg.chan # None => <<msg.thing, msg.eui>> \in named /\ <<msg.chan, msg.app>> \in named

\* Once the stream is consumed, an entity that alone has named its EUI or
\* application is the one messages are forwarded under, unless one of its own
\* events was lost or a remove of it was published while it stays: no failure,
\* update or removal that concerns others takes its route away.
LiveIsRouted ==
  Quiet => \A i \in Ids \ spoilt :
    declared[i] \in Exts /\ (\A j \in Ids : <<j, declared[i]>> \in named => j = i)
      => ext[declared[i]] = i
=============================================================================
