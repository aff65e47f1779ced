----------------------------- MODULE LoraProofs -----------------------------
(***************************************************************************)
(* The LoRa adapter forwards a message only under ids whose metadata named *)
(* its device and application, and an entity that alone named its EUI or   *)
(* application is reached once the stream is consumed, for any number of   *)
(* things, channels and ids and batches of any size.                       *)
(*                                                                         *)
(* The invariant follows an entry through stream and batch, which together *)
(* are one queue: the last entry of an entity is the one that sets its     *)
(* route, and without an entry the route is set (Routed).  That nobody     *)
(* else touches the route rests on the history of what was named: every    *)
(* entry and every key of Redis was (TypeInv, RoutesNamed).                *)
(***************************************************************************)
EXTENDS Lora, SequenceTheorems, TLAPS

Entries == [op : {"save", "remove"}, id : Ids, meta : Exts \cup {"plain", "malformed"}]

\* Entries of the stream: what one of them saves was named.
Known == {e \in Entries : e.op = "save" /\ e.meta \in Exts => <<e.id, e.meta>> \in named}

Messages == [eui : Euis \cup {None}, app : Apps \cup {None},
             thing : Ids \cup {None}, chan : Ids \cup {None}]

TypeInv ==
  /\ stream \in Seq(Known) /\ batch \in Seq(Known)
  /\ declared \in [Ids -> Exts \cup Flags]
  /\ named \subseteq Ids \X Exts /\ spoilt \subseteq Ids
  /\ mfx \in [Ids -> Exts \cup {None}] /\ ext \in [Exts -> Ids \cup {None}]
  /\ half \in BOOLEAN /\ msg \in Messages

\* The keys of Redis, and what Publish has read from them, were named.
RoutesNamed ==
  /\ \A i \in Ids : mfx[i] # None => <<i, mfx[i]>> \in named
  /\ \A x \in Exts : ext[x] # None => <<ext[x], x>> \in named
  /\ msg.thing # None => msg.eui \in Euis /\ msg.app \in Apps /\ <<msg.thing, msg.eui>> \in named
  /\ msg.eui # None => msg.app # None
  /\ msg.chan # None => msg.thing # None /\ <<msg.chan, msg.app>> \in named

\* Save is between its two keys only at an entry it saves.
HalfSaved ==
  half => batch # <<>> /\ Head(batch).op = "save" /\ Head(batch).meta \in Exts

\* The entries that are not handled, in their order.
Queue == batch \o stream

\* The last entry of i in queue q is the n-th.
LastOf(q, i, n) ==
  /\ n \in 1..Len(q) /\ q[n].id = i
  /\ \A m \in 1..Len(q) : n < m => q[m].id # i

Absent(q, i) == \A n \in 1..Len(q) : q[n].id # i

\* An entity of which LiveIsRouted speaks.
Lone(i) ==
  /\ i \notin spoilt /\ declared[i] \in Exts
  /\ \A j \in Ids : <<j, declared[i]>> \in named => j = i

RoutedIn(q, i) ==
  /\ \A n \in 1..Len(q) : LastOf(q, i, n) => q[n].op = "save" /\ q[n].meta = declared[i]
  /\ Absent(q, i) => ext[declared[i]] = i

Routed == \A i \in Ids : Lone(i) => RoutedIn(Queue, i)

\* The inductive invariant.
IInv == TypeInv /\ RoutesNamed /\ HalfSaved /\ Routed
-----------------------------------------------------------------------------
(* The queue. *)

\* The queue consists of named entries, those of the batch first.
LEMMA QueueProperties ==
  ASSUME TypeInv
  PROVE  /\ Queue \in Seq(Known) /\ Len(Queue) = Len(batch) + Len(stream)
         /\ Len(batch) \in Nat /\ Len(stream) \in Nat
         /\ \A n \in 1..Len(batch) : Queue[n] = batch[n]
         /\ \A n \in 1..Len(stream) : Queue[Len(batch) + n] = stream[n]
<1>1. batch \in Seq(Known) /\ stream \in Seq(Known)
  BY DEF TypeInv
<1>2. Len(batch) \in Nat /\ Len(stream) \in Nat
  BY <1>1, LenProperties
<1>3. /\ batch \o stream \in Seq(Known) /\ Len(batch \o stream) = Len(batch) + Len(stream)
      /\ \A i \in 1 .. Len(batch) + Len(stream) : (batch \o stream)[i] =
            IF i <= Len(batch) THEN batch[i] ELSE stream[i - Len(batch)]
  BY <1>1, ConcatProperties
<1>. QED
  BY <1>2, <1>3, SMT DEF Queue

\* XREADGROUP moves entries from the stream to the batch.
LEMMA ReadQueue ==
  ASSUME TypeInv, Read
  PROVE  Queue' = Queue /\ batch' \in Seq(Known) /\ stream' \in Seq(Known) /\ batch' # <<>>
<1>. DEFINE n == IF Len(stream) < BatchSize THEN Len(stream) ELSE BatchSize
<1>1. stream \in Seq(Known) /\ batch = <<>> /\ stream # <<>>
  BY DEF TypeInv, Read
<1>2. Len(stream) \in Nat \ {0}
  BY <1>1, EmptySeq
<1>3. n \in 1..Len(stream)
  BY <1>2, EventLoopAssumption
<1>4. batch' = SubSeq(stream, 1, n) /\ stream' = SubSeq(stream, n + 1, Len(stream))
  BY DEF Read
<1>5. SubSeq(stream, 1, n) \o SubSeq(stream, n + 1, Len(stream)) = SubSeq(stream, 1, Len(stream))
  <2>. HIDE DEF n
  <2>1. 1 \in 1..Len(stream) + 1 /\ n \in 1 - 1 .. Len(stream) /\ Len(stream) \in n .. Len(stream)
    BY <1>2, <1>3
  <2>. QED
    BY <1>1, <2>1, ConcatAdjacentSubSeq
<1>6. Queue = stream
  BY <1>1, ConcatEmptySeq DEF Queue
<1>7. Queue' = Queue
  BY <1>1, <1>4, <1>5, <1>6, SubSeqFull DEF Queue
<1>8. \A i \in 1..Len(stream) : stream[i] \in Known
  BY <1>1, ElementOfSeq
<1>9. batch' \in Seq(Known) /\ stream' \in Seq(Known) /\ Len(batch') = n
  <2>. HIDE DEF n
  <2>1. n \in Int /\ 1 \in Int /\ n + 1 \in Int /\ Len(stream) \in Int /\ 1 <= n /\ n <= Len(stream)
    BY <1>2, <1>3
  <2>2. (\A i \in 1..n : stream[i] \in Known) /\ \A i \in n + 1 .. Len(stream) : stream[i] \in Known
    BY <1>8, <2>1
  <2>3. SubSeq(stream, 1, n) \in Seq(Known) /\ Len(SubSeq(stream, 1, n)) = n - 1 + 1
    BY <2>1, <2>2, SubSeqProperties
  <2>4. SubSeq(stream, n + 1, Len(stream)) \in Seq(Known)
    BY <2>1, <2>2, SubSeqProperties
  <2>. QED
    BY <1>4, <2>1, <2>3, <2>4
<1>. QED
  BY <1>3, <1>7, <1>9, EmptySeq

\* XACK drops the first entry of the queue.
LEMMA AckQueue ==
  ASSUME TypeInv, batch # <<>>, Ack
  PROVE  /\ batch' \in Seq(Known) /\ stream' \in Seq(Known)
         /\ Event \in Known /\ Queue[1] = Event /\ Len(Queue) \in Nat \ {0}
         /\ Len(Queue') = Len(Queue) - 1
         /\ \A n \in 1..Len(Queue') : Queue'[n] = Queue[n + 1]
<1>1. batch \in Seq(Known) /\ stream \in Seq(Known) /\ batch' = Tail(batch) /\ stream' = stream
  BY DEF TypeInv, Ack
<1>2. Len(batch) \in Nat \ {0} /\ Len(stream) \in Nat
  BY <1>1, EmptySeq, LenProperties
<1>3. /\ Head(batch) \in Known /\ Tail(batch) \in Seq(Known) /\ Len(Tail(batch)) = Len(batch) - 1
      /\ \A i \in 1 .. Len(Tail(batch)) : Tail(batch)[i] = batch[i + 1]
  BY <1>1, HeadTailProperties
<1>4. Head(batch) = batch[1]
  OBVIOUS
<1>5. /\ Len(batch \o stream) = Len(batch) + Len(stream)
      /\ \A i \in 1 .. Len(batch) + Len(stream) : (batch \o stream)[i] =
            IF i <= Len(batch) THEN batch[i] ELSE stream[i - Len(batch)]
  BY <1>1, ConcatProperties
<1>6. /\ Len(Tail(batch) \o stream) = Len(Tail(batch)) + Len(stream)
      /\ \A i \in 1 .. Len(Tail(batch)) + Len(stream) : (Tail(batch) \o stream)[i] =
            IF i <= Len(Tail(batch)) THEN Tail(batch)[i] ELSE stream[i - Len(Tail(batch))]
  BY <1>1, <1>3, ConcatProperties
<1>7. Len(Queue) = Len(batch) + Len(stream) /\ Queue[1] = Event
  BY <1>2, <1>4, <1>5 DEF Queue, Event
<1>8. Queue' = Tail(batch) \o stream
  BY <1>1 DEF Queue
<1>9. Len(Queue') = Len(Queue) - 1
  BY <1>2, <1>3, <1>6, <1>7, <1>8
<1>10. ASSUME NEW n \in 1..Len(Queue')
       PROVE  Queue'[n] = Queue[n + 1]
  <2>1. n \in 1..Len(Tail(batch)) + Len(stream) /\ n + 1 \in 1..Len(batch) + Len(stream)
    BY <1>2, <1>3, <1>7, <1>9
  <2>2. Queue'[n] = IF n <= Len(batch) - 1 THEN batch[n + 1] ELSE stream[n - (Len(batch) - 1)]
    BY <1>2, <1>3, <1>6, <1>8, <2>1
  <2>3. Queue[n + 1] = IF n + 1 <= Len(batch) THEN batch[n + 1] ELSE stream[n + 1 - Len(batch)]
    BY <1>5, <2>1 DEF Queue
  <2>. QED
    BY <1>2, <2>1, <2>2, <2>3
<1>. QED
  BY <1>1, <1>2, <1>3, <1>7, <1>9, <1>10 DEF Event

\* XADD appends to the queue; what was named stays named.
LEMMA AddQueue ==
  ASSUME TypeInv, NEW e \in Known', Add(e), named \subseteq named'
  PROVE  /\ batch' \in Seq(Known') /\ stream' \in Seq(Known')
         /\ Len(Queue) \in Nat /\ Len(Queue') = Len(Queue) + 1
         /\ \A n \in 1..Len(Queue) : Queue'[n] = Queue[n]
         /\ Queue'[Len(Queue) + 1] = e
<1>1. batch \in Seq(Known) /\ stream \in Seq(Known) /\ batch' = batch /\ stream' = Append(stream, e)
  BY DEF TypeInv, Add
<1>2. Known \subseteq Known'
  BY DEF Known
<1>3. batch \in Seq(Known') /\ stream \in Seq(Known')
  BY <1>1, <1>2, SeqMonotonic
<1>4. Len(batch) \in Nat /\ Len(stream) \in Nat
  BY <1>1, LenProperties
<1>5. /\ Append(stream, e) \in Seq(Known') /\ Len(Append(stream, e)) = Len(stream) + 1
      /\ \A i \in 1..Len(stream) : Append(stream, e)[i] = stream[i]
      /\ Append(stream, e)[Len(stream) + 1] = e
  BY <1>3, AppendProperties
<1>6. /\ Len(batch \o stream) = Len(batch) + Len(stream)
      /\ \A i \in 1 .. Len(batch) + Len(stream) : (batch \o stream)[i] =
            IF i <= Len(batch) THEN batch[i] ELSE stream[i - Len(batch)]
  BY <1>1, ConcatProperties
<1>7. /\ Len(batch \o stream') = Len(batch) + Len(stream')
      /\ \A i \in 1 .. Len(batch) + Len(stream') : (batch \o stream')[i] =
            IF i <= Len(batch) THEN batch[i] ELSE stream'[i - Len(batch)]
  BY <1>1, <1>3, <1>5, ConcatProperties
<1>8. Queue' = batch \o stream' /\ Len(Queue) = Len(batch) + Len(stream)
      /\ Len(Queue') = Len(Queue) + 1
  BY <1>1, <1>4, <1>5, <1>6, <1>7 DEF Queue
<1>9. ASSUME NEW n \in 1..Len(Queue)
      PROVE  Queue'[n] = Queue[n]
  <2>1. n \in 1..Len(batch) + Len(stream) /\ n \in 1..Len(batch) + Len(stream')
    BY <1>1, <1>4, <1>5, <1>8
  <2>2. Queue'[n] = IF n <= Len(batch) THEN batch[n] ELSE stream'[n - Len(batch)]
    BY <1>7, <1>8, <2>1
  <2>3. Queue[n] = IF n <= Len(batch) THEN batch[n] ELSE stream[n - Len(batch)]
    BY <1>6, <2>1 DEF Queue
  <2>4. n > Len(batch) => n - Len(batch) \in 1..Len(stream)
    BY <1>4, <2>1
  <2>. QED
    BY <1>1, <1>4, <1>5, <2>1, <2>2, <2>3, <2>4
<1>10. Queue'[Len(Queue) + 1] = e
  <2>1. Len(Queue) + 1 \in 1..Len(batch) + Len(stream') /\ Len(Queue) + 1 > Len(batch)
        /\ (Len(Queue) + 1) - Len(batch) = Len(stream) + 1
    BY <1>1, <1>4, <1>5, <1>8
  <2>. QED
    BY <1>1, <1>4, <1>5, <1>7, <1>8, <2>1
<1>. QED
  BY <1>1, <1>3, <1>4, <1>5, <1>8, <1>9, <1>10

\* A break leaves the stream, whose entries come last in the queue.
LEMMA BreakQueue ==
  ASSUME TypeInv, Break
  PROVE  Queue' = stream /\ batch' \in Seq(Known) /\ stream' = stream
<1>1. stream \in Seq(Known) /\ batch' = <<>> /\ stream' = stream
  BY DEF TypeInv, Break
<1>. QED
  BY <1>1, ConcatEmptySeq, EmptySeq DEF Queue
-----------------------------------------------------------------------------
(* What happens to the route of an entity. *)

\* An entity that is alone and keeps its metadata was alone before.
LEMMA LoneBefore ==
  ASSUME NEW i \in Ids, Lone(i)', declared'[i] = declared[i],
         named \subseteq named', spoilt \subseteq spoilt'
  PROVE  Lone(i)
BY DEF Lone

\* Steps that leave queue, keys and metadata alone.
LEMMA RoutedKept ==
  ASSUME Routed, Queue' = Queue, UNCHANGED <<declared, named, spoilt, ext>>
  PROVE  Routed'
<1>. SUFFICES ASSUME NEW i \in Ids, Lone(i)' PROVE RoutedIn(Queue, i)'
  BY DEF Routed
<1>1. Lone(i)
  BY DEF Lone
<1>2. RoutedIn(Queue, i)
  BY <1>1 DEF Routed
<1>. QED
  BY <1>2 DEF RoutedIn, LastOf, Absent

\* A new entry of k: the route of the others stays as it is, and that of k is
\* what the entry saves.
LEMMA RoutedAfterAdd ==
  ASSUME IInv, NEW e \in Known', Add(e), named \subseteq named', spoilt \subseteq spoilt',
         ext' = ext, \A i \in Ids : i # e.id => declared'[i] = declared[i],
         Lone(e.id)' => e.op = "save" /\ e.meta = declared'[e.id]
  PROVE  Routed'
<1>. SUFFICES ASSUME NEW i \in Ids, Lone(i)' PROVE RoutedIn(Queue, i)'
  BY DEF Routed
<1>1. /\ Len(Queue) \in Nat /\ Len(Queue') = Len(Queue) + 1
      /\ \A n \in 1..Len(Queue) : Queue'[n] = Queue[n]
      /\ Queue'[Len(Queue) + 1] = e
  BY AddQueue DEF IInv
<1>2. CASE i = e.id
  <2>1. ASSUME NEW n \in 1..Len(Queue'), LastOf(Queue', i, n)
        PROVE  n = Len(Queue) + 1
    BY <1>1, <1>2, <2>1 DEF LastOf
  <2>2. ~Absent(Queue', i)
    BY <1>1, <1>2 DEF Absent
  <2>. QED
    BY <1>1, <1>2, <2>1, <2>2 DEF RoutedIn
<1>3. CASE i # e.id
  <2>1. Lone(i)
    BY <1>3, LoneBefore
  <2>2. RoutedIn(Queue, i)
    BY <2>1 DEF IInv, Routed
  <2>3. ASSUME NEW n \in 1..Len(Queue'), LastOf(Queue', i, n)
        PROVE  n \in 1..Len(Queue) /\ LastOf(Queue, i, n)
    BY <1>1, <1>3, <2>3 DEF LastOf
  <2>4. Absent(Queue', i) => Absent(Queue, i)
    BY <1>1 DEF Absent
  <2>. QED
    BY <1>1, <1>3, <2>2, <2>3, <2>4 DEF RoutedIn
<1>. QED
  BY <1>2, <1>3

\* The first entry is handled.  If it is the last one of an entity, the step sets
\* the route of the entity, and it does not take the route of another.
LEMMA RoutedAfterAck ==
  ASSUME IInv, batch # <<>>, Ack, UNCHANGED <<declared, named, spoilt>>,
         \A i \in Ids : Lone(i) =>
           /\ Event.id = i /\ Event.op = "save" /\ Event.meta = declared[i] =>
                ext'[declared[i]] = i
           /\ Event.id # i /\ ext[declared[i]] = i => ext'[declared[i]] = i
  PROVE  Routed'
<1>. SUFFICES ASSUME NEW i \in Ids, Lone(i)' PROVE RoutedIn(Queue, i)'
  BY DEF Routed
<1>1. /\ Queue[1] = Event /\ Len(Queue) \in Nat \ {0} /\ Len(Queue') = Len(Queue) - 1
      /\ \A n \in 1..Len(Queue') : Queue'[n] = Queue[n + 1]
  BY AckQueue DEF IInv
<1>2. Lone(i)
  BY LoneBefore
<1>3. RoutedIn(Queue, i)
  BY <1>2 DEF IInv, Routed
<1>4. ASSUME NEW n \in 1..Len(Queue'), LastOf(Queue', i, n)
      PROVE  Queue'[n].op = "save" /\ Queue'[n].meta = declared'[i]
  <2>1. n + 1 \in 1..Len(Queue) /\ Queue'[n] = Queue[n + 1]
    BY <1>1
  <2>2. ASSUME NEW m \in 1..Len(Queue), n + 1 < m
        PROVE  Queue[m].id # i
    <3>1. m - 1 \in 1..Len(Queue') /\ n < m - 1
      BY <1>1, <2>2
    <3>2. Queue'[m - 1] = Queue[m]
      BY <1>1, <3>1
    <3>. QED
      BY <1>4, <3>1, <3>2 DEF LastOf
  <2>3. LastOf(Queue, i, n + 1)
    BY <1>4, <2>1, <2>2 DEF LastOf
  <2>. QED
    BY <1>3, <2>1, <2>3 DEF RoutedIn
<1>5. ASSUME Absent(Queue', i)
      PROVE  ext'[declared'[i]] = i
  <2>1. ASSUME NEW m \in 1..Len(Queue), m # 1
        PROVE  Queue[m].id # i
    <3>1. m - 1 \in 1..Len(Queue')
      BY <1>1, <2>1
    <3>2. Queue'[m - 1] = Queue[m]
      BY <1>1, <3>1
    <3>. QED
      BY <1>5, <3>1, <3>2 DEF Absent
  <2>2. CASE Event.id = i
    <3>1. 1 \in 1..Len(Queue) /\ \A m \in 1..Len(Queue) : 1 < m => Queue[m].id # i
      BY <1>1, <2>1
    <3>2. LastOf(Queue, i, 1)
      BY <1>1, <2>2, <3>1 DEF LastOf
    <3>. QED
      BY <1>1, <1>2, <1>3, <2>2, <3>1, <3>2 DEF RoutedIn
  <2>3. CASE Event.id # i
    <3>1. Absent(Queue, i)
      BY <1>1, <2>1, <2>3 DEF Absent
    <3>. QED
      BY <1>2, <1>3, <2>3, <3>1 DEF RoutedIn
  <2>. QED
    BY <2>2, <2>3
<1>. QED
  BY <1>4, <1>5 DEF RoutedIn

\* The batch is lost: its entities are spoilt, and the others have no entry in it.
LEMMA RoutedAfterLose ==
  ASSUME IInv, Lose, UNCHANGED <<declared, named, ext>>
  PROVE  Routed'
<1>. SUFFICES ASSUME NEW i \in Ids, Lone(i)' PROVE RoutedIn(Queue, i)'
  BY DEF Routed
<1>1. /\ Len(Queue) = Len(batch) + Len(stream) /\ Len(batch) \in Nat /\ Len(stream) \in Nat
      /\ \A n \in 1..Len(batch) : Queue[n] = batch[n]
      /\ \A n \in 1..Len(stream) : Queue[Len(batch) + n] = stream[n]
  BY QueueProperties DEF IInv
<1>2. Queue' = stream
  BY BreakQueue DEF Lose, IInv
<1>3. Lone(i)
  BY LoneBefore DEF Lose
<1>4. RoutedIn(Queue, i)
  BY <1>3 DEF IInv, Routed
<1>5. ASSUME NEW n \in 1..Len(batch)
      PROVE  Queue[n].id # i
  <2>1. DOMAIN batch = 1..Len(batch)
    BY LenProperties DEF IInv, TypeInv
  <2>. QED
    BY <1>1, <2>1 DEF Lose, Lone
<1>6. ASSUME NEW n \in 1..Len(Queue), n \notin 1..Len(batch)
      PROVE  n - Len(batch) \in 1..Len(stream) /\ Queue[n] = stream[n - Len(batch)]
  <2>1. n - Len(batch) \in 1..Len(stream) /\ Len(batch) + (n - Len(batch)) = n
    BY <1>1, <1>6
  <2>. QED
    BY <1>1, <2>1
<1>7. ASSUME NEW n \in 1..Len(stream), LastOf(stream, i, n)
      PROVE  stream[n].op = "save" /\ stream[n].meta = declared[i]
  <2>1. Len(batch) + n \in 1..Len(Queue) /\ Queue[Len(batch) + n] = stream[n]
    BY <1>1
  <2>2. ASSUME NEW m \in 1..Len(Queue), Len(batch) + n < m
        PROVE  Queue[m].id # i
    <3>1. m \notin 1..Len(batch) /\ n < m - Len(batch)
      BY <1>1, <2>2
    <3>. QED
      BY <1>6, <1>7, <3>1 DEF LastOf
  <2>3. LastOf(Queue, i, Len(batch) + n)
    BY <1>7, <2>1, <2>2 DEF LastOf
  <2>. QED
    BY <1>4, <2>1, <2>3 DEF RoutedIn
<1>8. Absent(stream, i) => Absent(Queue, i)
  BY <1>5, <1>6 DEF Absent
<1>. QED
  BY <1>2, <1>4, <1>7, <1>8 DEF RoutedIn
-----------------------------------------------------------------------------
(* Every step keeps the invariant. *)

\* The invariant holds in an adapter without routes.
LEMMA InitInv ==
  Init => IInv
<1>. SUFFICES ASSUME Init PROVE IInv
  OBVIOUS
<1>1. TypeInv
  BY LoraAssumption, EmptySeq DEF Init, LoopInit, TypeInv, NoMsg, Messages, Flags
<1>2. RoutesNamed /\ HalfSaved
  BY DEF Init, RoutesNamed, HalfSaved, NoMsg
<1>3. Routed
  BY LoraAssumption DEF Init, Routed, Lone, Flags
<1>. QED
  BY <1>1, <1>2, <1>3 DEF IInv

\* Create and Update of an entity.
LEMMA DeclareInv ==
  ASSUME IInv, NEW i \in Ids, NEW mt \in Metas(i), Declare(i, mt)
  PROVE  IInv'
<1>. DEFINE e == [op |-> "save", id |-> i, meta |-> mt]
<1>1. mt \in Exts \cup {"plain", "malformed"} /\ mt \in Exts \cup Flags
  BY DEF Metas, ExtsOf, Exts, Flags
<1>2. /\ declared' = [declared EXCEPT ![i] = mt] /\ Add(e)
      /\ named' = IF mt \in Exts THEN named \cup {<<i, mt>>} ELSE named
      /\ UNCHANGED <<spoilt, mfx, ext, half, msg, batch>>
  BY DEF Declare, Add
<1>3. named \subseteq named' /\ named' \subseteq Ids \X Exts /\ e \in Known'
  BY <1>1, <1>2 DEF Known, Entries, IInv, TypeInv
<1>4. stream' \in Seq(Known') /\ batch' \in Seq(Known')
  <2>. HIDE DEF e
  <2>. QED
    BY <1>2, <1>3, AddQueue DEF IInv
<1>5. TypeInv'
  BY <1>1, <1>2, <1>3, <1>4 DEF IInv, TypeInv
<1>6. RoutesNamed'
  BY <1>2, <1>3 DEF IInv, RoutesNamed
<1>7. HalfSaved'
  BY <1>2 DEF IInv, HalfSaved
<1>8. Routed'
  <2>1. declared'[i] = mt /\ \A j \in Ids : j # i => declared'[j] = declared[j]
    BY <1>2 DEF IInv, TypeInv
  <2>2. e.id = i /\ e.op = "save" /\ e.meta = mt
    OBVIOUS
  <2>. HIDE DEF e
  <2>. QED
    BY <1>2, <1>3, <2>1, <2>2, RoutedAfterAdd
<1>. QED
  BY <1>5, <1>6, <1>7, <1>8 DEF IInv

\* A remove event, of an entity that goes or of one that stays.
LEMMA RemoveInv ==
  ASSUME IInv, NEW i \in Ids, Remove(i)
  PROVE  IInv'
<1>. DEFINE e == [op |-> "remove", id |-> i, meta |-> "plain"]
<1>1. /\ Add(e) /\ UNCHANGED <<named, mfx, ext, half, msg, batch>>
      /\ \/ declared' = [declared EXCEPT ![i] = "removed"] /\ spoilt' = spoilt
         \/ spoilt' = spoilt \cup {i} /\ declared' = declared
  BY DEF Remove, Add
<1>2. e \in Known'
  BY DEF Known, Entries
<1>3. stream' \in Seq(Known') /\ batch' \in Seq(Known')
  <2>. HIDE DEF e
  <2>. QED
    BY <1>1, <1>2, AddQueue DEF IInv
<1>4. TypeInv'
  BY <1>1, <1>3 DEF IInv, TypeInv, Flags
<1>5. RoutesNamed' /\ HalfSaved'
  BY <1>1 DEF IInv, RoutesNamed, HalfSaved
<1>6. Routed'
  <2>1. spoilt \subseteq spoilt' /\ \A j \in Ids : j # i => declared'[j] = declared[j]
    BY <1>1 DEF IInv, TypeInv
  <2>2. ~Lone(i)'
    BY <1>1, LoraAssumption DEF IInv, TypeInv, Lone, Flags
  <2>3. e.id = i
    OBVIOUS
  <2>. HIDE DEF e
  <2>. QED
    BY <1>1, <1>2, <2>1, <2>2, <2>3, RoutedAfterAdd
<1>. QED
  BY <1>4, <1>5, <1>6 DEF IInv

\* The entries of the batch are those that were named.
LEMMA EventKnown ==
  ASSUME TypeInv, batch # <<>>
  PROVE  /\ Event \in Entries
         /\ Event.op = "save" /\ Event.meta \in Exts => <<Event.id, Event.meta>> \in named
<1>1. Event \in Known
  BY HeadTailProperties DEF TypeInv, Event
<1>. QED
  BY <1>1 DEF Known

\* XREADGROUP changes the queue in nothing.
LEMMA ReadInv ==
  ASSUME IInv, ReadEvents
  PROVE  IInv'
<1>1. /\ Queue' = Queue /\ batch' \in Seq(Known) /\ stream' \in Seq(Known)
      /\ batch = <<>> /\ UNCHANGED <<declared, named, spoilt, mfx, ext, half, msg>>
  BY ReadQueue DEF IInv, ReadEvents, Read, loraVars
<1>2. TypeInv'
  BY <1>1 DEF IInv, TypeInv, Known
<1>3. RoutesNamed' /\ HalfSaved'
  BY <1>1 DEF IInv, RoutesNamed, HalfSaved
<1>4. Routed'
  BY <1>1, RoutedKept DEF IInv
<1>. QED
  BY <1>2, <1>3, <1>4 DEF IInv

\* An entry without LoRa metadata is not the last one of an entity that is alone.
LEMMA IgnoreInv ==
  ASSUME IInv, Ignore
  PROVE  IInv'
<1>1. /\ batch # <<>> /\ Event.meta = "plain" /\ Ack
      /\ UNCHANGED <<declared, named, spoilt, mfx, ext, half, msg>>
  BY DEF Ignore, Handling, loraVars
<1>2. "plain" \notin Exts
  BY LoraAssumption DEF Flags
<1>3. TypeInv'
  BY <1>1, AckQueue DEF IInv, TypeInv, Known
<1>4. RoutesNamed' /\ HalfSaved'
  BY <1>1, <1>2 DEF IInv, RoutesNamed, HalfSaved, Event
<1>5. Routed'
  BY <1>1, <1>2, RoutedAfterAck DEF Lone
<1>. QED
  BY <1>3, <1>4, <1>5 DEF IInv

\* The loop over the batch ends early, with or without a reset of half.
LEMMA LoseInv ==
  ASSUME IInv, batch # <<>>, Lose, UNCHANGED <<declared, named, mfx, ext, msg>>,
         ~half' /\ half' \in BOOLEAN
  PROVE  IInv'
<1>1. batch' \in Seq(Known) /\ stream' = stream
  BY BreakQueue DEF IInv, Lose
<1>2. spoilt' \subseteq Ids
  <2>1. \A n \in DOMAIN batch : batch[n] \in Known
    BY LenProperties, ElementOfSeq DEF IInv, TypeInv
  <2>. QED
    BY <2>1 DEF IInv, TypeInv, Lose, Known, Entries
<1>3. TypeInv'
  BY <1>1, <1>2 DEF IInv, TypeInv, Known
<1>4. RoutesNamed' /\ HalfSaved'
  BY DEF IInv, RoutesNamed, HalfSaved
<1>5. Routed'
  BY RoutedAfterLose
<1>. QED
  BY <1>3, <1>4, <1>5 DEF IInv

\* The three ways in which a batch is lost.
LEMMA BrokenBatchInv ==
  ASSUME IInv, BadMetadata \/ RemoveUnknown \/ Fail
  PROVE  IInv'
<1>1. CASE BadMetadata
  <2>1. ~half
    BY <1>1, LoraAssumption DEF BadMetadata, Handling, IInv, HalfSaved, Event, Flags
  <2>. QED
    BY <1>1, <2>1, LoseInv DEF BadMetadata, Handling, IInv, TypeInv
<1>2. CASE RemoveUnknown
  <2>1. ~half
    BY <1>2 DEF RemoveUnknown, Handling, IInv, HalfSaved, Event
  <2>. QED
    BY <1>2, <2>1, LoseInv DEF RemoveUnknown, Handling, IInv, TypeInv
<1>3. CASE Fail
  BY <1>3, LoseInv DEF Fail
<1>. QED
  BY <1>1, <1>2, <1>3

\* The first SET of Save.
LEMMA SaveMfxInv ==
  ASSUME IInv, SaveMfx
  PROVE  IInv'
<1>1. /\ batch # <<>> /\ Event.op = "save" /\ Event.meta \in Exts
      /\ mfx' = [mfx EXCEPT ![Event.id] = Event.meta] /\ half' = TRUE
      /\ UNCHANGED <<stream, batch, declared, named, spoilt, ext, msg>>
  BY DEF SaveMfx, Handling, loopVars
<1>2. Event.id \in Ids /\ <<Event.id, Event.meta>> \in named
  BY <1>1, EventKnown DEF IInv, Entries
<1>3. TypeInv'
  BY <1>1, <1>2 DEF IInv, TypeInv, Known
<1>4. RoutesNamed'
  BY <1>1, <1>2 DEF IInv, RoutesNamed, TypeInv
<1>5. HalfSaved'
  BY <1>1 DEF HalfSaved, Event
<1>6. Routed'
  BY <1>1, RoutedKept DEF IInv, Queue
<1>. QED
  BY <1>3, <1>4, <1>5, <1>6 DEF IInv

\* The second SET of Save: the entity has its route.
LEMMA SaveExtInv ==
  ASSUME IInv, SaveExt
  PROVE  IInv'
<1>1. /\ batch # <<>> /\ Event.op = "save" /\ half /\ Ack
      /\ ext' = [ext EXCEPT ![Event.meta] = Event.id] /\ half' = FALSE
      /\ UNCHANGED <<declared, named, spoilt, mfx, msg>>
  BY DEF SaveExt, Handling
<1>2. Event.meta \in Exts
  BY <1>1 DEF IInv, HalfSaved, Event
<1>3. Event.id \in Ids /\ <<Event.id, Event.meta>> \in named
  BY <1>1, <1>2, EventKnown DEF IInv, Entries
<1>4. TypeInv'
  BY <1>1, <1>3, AckQueue DEF IInv, TypeInv, Known
<1>5. RoutesNamed' /\ HalfSaved'
  BY <1>1, <1>2, <1>3 DEF IInv, RoutesNamed, TypeInv, HalfSaved
<1>6. \A i \in Ids : Lone(i) =>
        /\ Event.id = i /\ Event.meta = declared[i] => ext'[declared[i]] = i
        /\ Event.id # i /\ ext[declared[i]] = i => ext'[declared[i]] = i
  BY <1>1, <1>2, <1>3 DEF Lone, IInv, TypeInv
<1>7. Routed'
  BY <1>1, <1>6, RoutedAfterAck
<1>. QED
  BY <1>4, <1>5, <1>7 DEF IInv

\* The DELs of Remove: the key that goes was named by the entity that goes.
LEMMA RemoveRouteInv ==
  ASSUME IInv, RemoveRoute
  PROVE  IInv'
<1>. DEFINE x == mfx[Event.id]
<1>1. /\ batch # <<>> /\ Event.op = "remove" /\ x # None /\ Ack
      /\ mfx' = [mfx EXCEPT ![Event.id] = None] /\ ext' = [ext EXCEPT ![x] = None]
      /\ UNCHANGED <<declared, named, spoilt, half, msg>>
  BY DEF RemoveRoute, Handling
<1>2. Event.id \in Ids /\ x \in Exts /\ <<Event.id, x>> \in named
  BY <1>1, EventKnown DEF IInv, Entries, TypeInv, RoutesNamed
<1>. HIDE DEF x
<1>3. TypeInv'
  BY <1>1, <1>2, AckQueue DEF IInv, TypeInv, Known
<1>4. RoutesNamed'
  BY <1>1, <1>2 DEF IInv, RoutesNamed, TypeInv
<1>5. HalfSaved'
  BY <1>1 DEF IInv, HalfSaved, Event
<1>6. \A i \in Ids : Lone(i) =>
        (Event.id # i /\ ext[declared[i]] = i => ext'[declared[i]] = i)
  BY <1>1, <1>2 DEF Lone, IInv, TypeInv
<1>7. Routed'
  BY <1>1, <1>6, RoutedAfterAck
<1>. QED
  BY <1>3, <1>4, <1>5, <1>7 DEF IInv

\* Publish only reads the keys.
LEMMA PublishInv ==
  ASSUME IInv, Publish
  PROVE  IInv'
<1>1. UNCHANGED <<stream, batch, declared, named, spoilt, mfx, ext, half>>
  BY DEF Publish, Receive, GetThing, GetChannel, Forward, loopVars
<1>2. msg' \in Messages /\ RoutesNamed'
  <2>1. ASSUME NEW e \in Euis, NEW a \in Apps, Receive(e, a)
        PROVE  msg' \in Messages /\ RoutesNamed'
    BY <1>1, <2>1, LoraAssumption DEF Receive, NoMsg, Messages, RoutesNamed, IInv, Exts
  <2>2. CASE GetThing
    BY <1>1, <2>2, LoraAssumption
    DEF GetThing, NoMsg, Messages, RoutesNamed, IInv, TypeInv, Exts
  <2>3. CASE GetChannel
    BY <1>1, <2>3, LoraAssumption
    DEF GetChannel, NoMsg, Messages, RoutesNamed, IInv, TypeInv, Exts
  <2>4. CASE Forward
    BY <1>1, <2>4 DEF Forward, NoMsg, Messages, RoutesNamed, IInv
  <2>. QED
    BY <2>1, <2>2, <2>3, <2>4 DEF Publish
<1>3. TypeInv'
  BY <1>1, <1>2 DEF IInv, TypeInv, Known
<1>4. HalfSaved' /\ Queue' = Queue
  BY <1>1 DEF IInv, HalfSaved, Queue
<1>5. Routed'
  BY <1>1, <1>4, RoutedKept DEF IInv
<1>. QED
  BY <1>2, <1>3, <1>4, <1>5 DEF IInv

\* Stuttering.
LEMMA StutterInv ==
  ASSUME IInv, UNCHANGED vars
  PROVE  IInv'
BY DEF IInv, TypeInv, RoutesNamed, HalfSaved, Routed, RoutedIn, Lone, LastOf, Absent, Queue,
       Known, vars, loopVars, loraVars
-----------------------------------------------------------------------------
\* The invariant of the adapter and its route maps is inductive.
THEOREM Inductive == Spec => []IInv
<1>1. IInv /\ [Next]_vars => IInv'
  <2>. SUFFICES ASSUME IInv, [Next]_vars PROVE IInv'
    OBVIOUS
  <2>1. ASSUME NEW i \in Ids, Create(i) \/ Update(i) PROVE IInv'
    BY <2>1, DeclareInv DEF Create, Update
  <2>2. ASSUME NEW i \in Ids, Remove(i) PROVE IInv'
    BY <2>2, RemoveInv
  <2>3. CASE Consume
    BY <2>3, ReadInv, IgnoreInv, BrokenBatchInv, SaveMfxInv, SaveExtInv, RemoveRouteInv
    DEF Consume
  <2>4. CASE Publish
    BY <2>4, PublishInv
  <2>5. CASE UNCHANGED vars
    BY <2>5, StutterInv
  <2>. QED
    BY <2>1, <2>2, <2>3, <2>4, <2>5 DEF Next
<1>. QED
  BY <1>1, InitInv, PTL DEF Spec

\* Publish forwards a message only under ids whose metadata has named its device
\* and its application, whatever happened to the route maps between its steps.
THEOREM OnlyDeclaredRoutes == Spec => []ForwardedWasDeclared
<1>1. IInv => ForwardedWasDeclared
  BY DEF IInv, RoutesNamed, ForwardedWasDeclared
<1>. QED
  BY <1>1, Inductive, PTL

\* Once the stream is consumed, the route of an entity that alone named its id
\* is there, whatever failures, updates and removals concerned others.
THEOREM LiveEntitiesRouted == Spec => []LiveIsRouted
<1>1. IInv => LiveIsRouted
  <2>. SUFFICES ASSUME IInv, Quiet, NEW i \in Ids, Lone(i) PROVE ext[declared[i]] = i
    BY DEF LiveIsRouted, Lone
  <2>1. Len(Queue) = 0
    BY QueueProperties, EmptySeq DEF IInv, Quiet
  <2>2. Absent(Queue, i)
    BY <2>1 DEF Absent
  <2>. QED
    BY <2>2 DEF IInv, Routed, RoutedIn
<1>. QED
  BY <1>1, Inductive, PTL
=============================================================================
