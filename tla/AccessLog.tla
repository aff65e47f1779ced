----------------------------- MODULE AccessLog ------------------------------
(***************************************************************************)
(* What the things service knew at any time, as far as the adapters can    *)
(* rely on it: which key belonged to which thing and which thing was       *)
(* connected to which channel.  Both relations only grow.                  *)
(***************************************************************************)
CONSTANTS Keys, ThingIds, ChanIds

VARIABLES wasKey,    \* history: every <<key, thing>> there ever was a row for
          wasConn    \* history: every <<channel, thing>> ever connected

logVars == <<wasKey, wasConn>>

LogInit == wasKey = {} /\ wasConn = {}

\* An owner creates things or changes the key of one.
LearnKeys == \E K \in SUBSET (Keys \X ThingIds) : wasKey' = wasKey \cup K

\* An owner connects things to channels.
LearnConns == \E C \in SUBSET (ChanIds \X ThingIds) : wasConn' = wasConn \cup C

\* May Identify answer t for key k?
MayIdentify(k, t) == <<k, t>> \in wasKey

\* May CanAccessByKey answer t for key k and channel c?
MayAccess(k, c, t) == <<k, t>> \in wasKey /\ <<c, t>> \in wasConn
=============================================================================
