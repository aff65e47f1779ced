------------------------------ MODULE EventLoop ------------------------------
(***************************************************************************)
(* The loop in which an adapter consumes the stream mainflux.things: the   *)
(* eventStore.Subscribe of lora/redis and opcua/redis.  XREADGROUP returns *)
(* what is there, up to Count entries; they are handled in order, and each *)
(* is acknowledged once handled.  An error breaks the loop over the batch; *)
(* its other entries stay pending, and as the loop only asks for ">" they  *)
(* are never read again.                                                   *)
(***************************************************************************)
EXTENDS Naturals, Sequences

CONSTANTS BatchSize,  \* Count of XREADGROUP (100 in the code)
          MaxStream   \* bound on the entries in the stream and the batch

ASSUME EventLoopAssumption ==
  BatchSize \in Nat \ {0} /\ MaxStream \in Nat \ {0}

VARIABLES stream,  \* entries that were not delivered yet
          batch    \* entries delivered and not handled

loopVars == <<stream, batch>>

LoopInit == stream = <<>> /\ batch = <<>>

Quiet == stream = <<>> /\ batch = <<>>

\* XADD by the things service.
Add(e) ==
  /\ Len(stream) + Len(batch) < MaxStream
  /\ stream' = Append(stream, e) /\ UNCHANGED batch

\* Mutant of Read: of the entries that XREADGROUP returns, only the first is
\* looked at.
ReadFirst == batch = <<>> /\ stream # <<>> /\ batch' = <<Head(stream)>> /\ stream' = <<>>

Read ==
  /\ batch = <<>> /\ stream # <<>>
  /\ LET n == IF Len(stream) < BatchSize THEN Len(stream) ELSE BatchSize IN
       /\ batch' = SubSeq(stream, 1, n)
       /\ stream' = SubSeq(stream, n + 1, Len(stream))

\* XACK of the first entry.
Ack == batch' = Tail(batch) /\ UNCHANGED stream

\* The break: also what a crash and a restart leave of the batch.
Break == batch' = <<>> /\ UNCHANGED stream
=============================================================================
