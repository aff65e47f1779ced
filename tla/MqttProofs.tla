----------------------------- MODULE MqttProofs -----------------------------
(***************************************************************************)
(* A client of the MQTT adapter publishes and receives only where its key  *)
(* had access, receives nothing twice, and is never taken for disconnected *)
(* by a reader of the event stream, for any number of instances,           *)
(* connections, keys, channels and messages, whatever the topics and       *)
(* filters, the order of the answers and the crashes.                      *)
(*                                                                         *)
(* The invariant says what the client object of a connection holds in each *)
(* state (ConnOK), that a request whose token grants anything was made     *)
(* while its connection was up (CallsOK), that connections in the          *)
(* histories have sent their CONNECT, so that their key stays (HistOK),    *)
(* and that a message is in one place at a time: with things, in NATS or   *)
(* in the broker, or it has been delivered (OnceOK).                       *)
(*                                                                         *)
(* Topics are split by recursive functions.  That such functions exist,    *)
(* and what they compute, is proved by induction, which in turn rests on   *)
(* the fact that a set of numbers has a smallest element.                  *)
(***************************************************************************)
EXTENDS Mqtt, SequenceTheorems, FiniteSetTheorems, WellFoundedInduction, TLAPS

\* The relations and the client objects have their types.
ShapeOK ==
  /\ wasKey \subseteq Keys \X ThingIds /\ wasConn \subseteq ChanIds \X ThingIds
  /\ state \in [Clients -> States]
  /\ cred \in [Clients -> Keys \cup {None}]
  /\ client \in [Clients -> [thingId : ThingIds \cup {None}, password : Keys \cup {None}]]
  /\ subs \in [Clients -> SUBSET Filters]

\* The channel that parseTopic reads from a filter was open to key k.
FilterGranted(k, F) ==
  \E c \in ChanIds, t \in ThingIds : parseTopic(F) = << <<c>> >> /\ MayAccess(k, c, t)

ConnOK ==
  \A x \in Clients :
    /\ state[x] \in {"accepted", "up", "closed"} =>
         client[x].thingId \in ThingIds /\ MayIdentify(cred[x], client[x].thingId)
    /\ state[x] \in {"accepted", "up"} => client[x].password = cred[x]
    /\ state[x] = "closed" => client[x].password = None
    /\ state[x] # "up" => subs[x] = {}
    /\ \A F \in subs[x] : FilterGranted(cred[x], F)

CallOK(r) ==
  /\ r.from \in Clients /\ state[r.from] \in {"up", "closed"}
  /\ r.token # None => r.token = cred[r.from] /\ r.live
  /\ r.chan = parseTopic(r.topic)
  /\ r.kind = "subscribe" => r.topic \in Filters

CallsOK == \A r \in calls : CallOK(r)

HistOK ==
  /\ \A b \in out : b.by \in Clients /\ state[b.by] # "new"
  /\ \A x \in Clients : state[x] = "new" => got[x] = {}
  /\ PublishedWasAuthorised /\ DeliveryWasAuthorised

Foreign == {b \in bus : b.protocol # "mqtt"}
Pending == {r \in calls : r.kind = "publish"}

OnceOK ==
  /\ DeliveredOnce
  /\ \A e \in Pending \cup Foreign \cup outbox : e.id \in used
  /\ \A d, e \in Pending : d.id = e.id => d = e
  /\ \A d, e \in Foreign : d.id = e.id => d = e
  /\ \A d, e \in outbox : d.id = e.id => d = e
  /\ \A d \in Pending, e \in Foreign \cup outbox : d.id # e.id
  /\ \A d \in Foreign, e \in outbox : d.id # e.id
  /\ \A x \in Clients : \A g \in got[x] :
       g.id \in used /\ \A e \in Pending \cup Foreign \cup outbox : g.id # e.id

StreamOK ==
  /\ IsFiniteSet({x \in Clients : state[x] \in {"accepted", "up"}})
  /\ stream \in [ThingIds -> [connect : Nat, disconnect : Nat]]
  /\ StreamKnowsConnected

\* The inductive invariant.
IInv == ShapeOK /\ ConnOK /\ CallsOK /\ HistOK /\ OnceOK /\ StreamOK
-----------------------------------------------------------------------------
(* Numbers, and functions defined by recursion on them. *)

\* A set of numbers has a smallest one.
LEMMA SmallestOfNats ==
  ASSUME NEW S, S \subseteq Nat, S # {}
  PROVE  \E x \in S : \A y \in S : x =< y
<1>1. IsWellFoundedOn(OpToRel(<, Nat), Nat)
  BY NatLessThanWellFounded
<1>2. \E x \in S : \A y \in S : ~(<<y, x>> \in OpToRel(<, Nat))
  BY <1>1, WFMin
<1>3. \A x, y \in Nat : y < x => <<y, x>> \in OpToRel(<, Nat)
  BY DEF OpToRel
<1>4. PICK x \in S : \A y \in S : ~(<<y, x>> \in OpToRel(<, Nat))
  BY <1>2
<1>5. \A y \in S : ~(y < x)
  BY <1>3, <1>4
<1>. QED
  BY <1>5

\* It is what Min returns.
LEMMA MinOfNats ==
  ASSUME NEW S, S \subseteq Nat, S # {}
  PROVE  Min(S) \in S /\ \A y \in S : Min(S) =< y
BY SmallestOfNats DEF Min

\* Induction, for a set of numbers.
LEMMA Counting ==
  ASSUME NEW S, 0 \in S, \A n \in Nat : n \in S => n + 1 \in S
  PROVE  \A n \in Nat : n \in S
<1>. SUFFICES ASSUME Nat \ S # {} PROVE FALSE
  OBVIOUS
<1>1. PICK m \in Nat \ S : \A y \in Nat \ S : m =< y
  BY SmallestOfNats
<1>2. m # 0 /\ m - 1 \in Nat /\ (m - 1) + 1 = m /\ ~(m =< m - 1)
  BY <1>1
<1>. QED
  BY <1>1, <1>2

\* f starts with a, and h gives each value from the one before.
Iterates(f, h, a, n) == f[0] = a /\ \A i \in 1..n : f[i] = h[<<i, f[i - 1]>>]

\* There is such a function on 0..n.
LEMMA Iteration ==
  ASSUME NEW S, NEW a \in S, NEW n \in Nat, NEW h \in [(1..n) \X S -> S]
  PROVE  \E f \in [0..n -> S] : Iterates(f, h, a, n)
<1>. DEFINE P(k, f) == Iterates(f, h, a, k)
            K == {k \in Nat : k =< n => \E f \in [0..k -> S] : P(k, f)}
<1>1. 0 \in K
  <2>1. [i \in 0..0 |-> a] \in [0..0 -> S] /\ P(0, [i \in 0..0 |-> a])
    BY DEF Iterates
  <2>. QED
    BY <2>1
<1>2. ASSUME NEW k \in Nat, k \in K, k + 1 =< n PROVE \E f \in [0..k + 1 -> S] : P(k + 1, f)
  <2>1. PICK g \in [0..k -> S] : P(k, g)
    BY <1>2
  <2>. DEFINE v == h[<<k + 1, g[k]>>]
              f == [i \in 0..k + 1 |-> IF i = k + 1 THEN v ELSE g[i]]
  <2>2. v \in S
    <3>1. k + 1 \in 1..n /\ k \in 0..k
      BY <1>2
    <3>2. <<k + 1, g[k]>> \in (1..n) \X S
      BY <3>1
    <3>. QED
      BY <3>2
  <2>. HIDE DEF v
  <2>3. \A i \in 0..k + 1 : i = k + 1 \/ i \in 0..k
    OBVIOUS
  <2>4. f \in [0..k + 1 -> S] /\ f[k + 1] = v /\ \A i \in 0..k : f[i] = g[i]
    BY <2>2, <2>3
  <2>. HIDE DEF f
  <2>5. ASSUME NEW i \in 1..k + 1 PROVE f[i] = h[<<i, f[i - 1]>>]
    <3>1. i - 1 \in 0..k /\ (i = k + 1 \/ (i \in 1..k /\ i \in 0..k)) /\ (k + 1) - 1 = k
      OBVIOUS
    <3>2. f[i - 1] = g[i - 1]
      BY <2>4, <3>1
    <3>3. CASE i = k + 1
      BY <2>4, <3>1, <3>2, <3>3 DEF v
    <3>4. CASE i \in 1..k /\ i \in 0..k
      BY <2>1, <2>4, <3>2, <3>4 DEF Iterates
    <3>. QED
      BY <3>1, <3>3, <3>4
  <2>6. f[0] = a
    BY <2>1, <2>4 DEF Iterates
  <2>. QED
    BY <2>4, <2>5, <2>6 DEF Iterates
<1>3. \A k \in Nat : k \in K => k + 1 \in K
  BY <1>2
<1>. HIDE DEF P
<1>4. n \in K
  <2>. HIDE DEF K
  <2>. QED
    BY <1>1, <1>3, Counting
<1>. QED
  BY <1>4 DEF P
-----------------------------------------------------------------------------
(* Levels and their elements. *)

Scan == [done : Seq(Seq(STRING)), cur : Seq(STRING)]

\* One token more.
LEMMA ReadType ==
  ASSUME NEW r \in Scan, NEW tok \in STRING
  PROVE  Read(r, tok) \in Scan /\ Close(r) \in Seq(Seq(STRING))
<1>1. r.done \in Seq(Seq(STRING)) /\ r.cur \in Seq(STRING)
  BY DEF Scan
<1>2. Close(r) \in Seq(Seq(STRING))
  <2>1. \A S : \A s \in Seq(S), x \in S : Append(s, x) \in Seq(S)
    OBVIOUS
  <2>2. Append(r.done, r.cur) \in Seq(Seq(STRING))
    BY <1>1, <2>1, Zenon
  <2>. QED
    BY <1>1, <2>2 DEF Close
<1>3. Append(r.cur, tok) \in Seq(STRING) /\ <<>> \in Seq(STRING)
  BY <1>1
<1>. QED
  BY <1>1, <1>2, <1>3 DEF Read, Scan

\* Split reads a level token by token.
LEMMA SplitScans ==
  ASSUME NEW e \in Seq(STRING)
  PROVE  \E f \in [0..Len(e) -> Scan] :
           /\ f[0] = Nothing /\ \A i \in 1..Len(e) : f[i] = Read(f[i - 1], e[i])
           /\ Split(e) = Close(f[Len(e)])
<1>. DEFINE n == Len(e)
            G(h) == [i \in 0..n |-> IF i = 0 THEN Nothing ELSE Read(h[i - 1], e[i])]
            f == CHOOSE h : h = G(h)
            s == [p \in (1..n) \X Scan |-> Read(p[2], e[p[1]])]
<1>1. Split(e) = Close(f[n])
  BY DEF Split
<1>2. n \in Nat /\ \A i \in 1..n : e[i] \in STRING
  BY LenProperties, ElementOfSeq
<1>3. Nothing \in Scan
  BY DEF Nothing, Scan
<1>. HIDE DEF n
<1>4. s \in [(1..n) \X Scan -> Scan]
  BY <1>2, ReadType
<1>5. \A i \in 1..n, r \in Scan : s[<<i, r>>] = Read(r, e[i])
  OBVIOUS
<1>. HIDE DEF s
<1>6. PICK g \in [0..n -> Scan] : Iterates(g, s, Nothing, n)
  BY <1>2, <1>3, <1>4, Iteration
<1>7. \A i \in 1..n : g[i] = Read(g[i - 1], e[i])
  <2>. TAKE i \in 1..n
  <2>1. i - 1 \in 0..n
    BY <1>2
  <2>2. g[i - 1] \in Scan
    BY <1>6, <2>1
  <2>. QED
    BY <1>5, <1>6, <2>2 DEF Iterates
<1>8. g = G(g)
  <2>1. \A i \in 0..n : g[i] = IF i = 0 THEN Nothing ELSE Read(g[i - 1], e[i])
    <3>1. \A i \in 0..n : i = 0 \/ i \in 1..n
      BY <1>2
    <3>. QED
      BY <1>6, <1>7, <3>1 DEF Iterates
  <2>. QED
    BY <1>6, <2>1
<1>9. f = G(f)
  BY <1>8
<1>. HIDE DEF f
<1>10. f[0] = Nothing /\ \A i \in 1..n : f[i] = Read(f[i - 1], e[i])
  BY <1>2, <1>9
<1>11. \A i \in 0..n : f[i] \in Scan
  <2>. DEFINE K == {k \in Nat : k =< n => f[k] \in Scan}
  <2>1. 0 \in K
    BY <1>3, <1>10
  <2>2. ASSUME NEW k \in Nat, k \in K, k + 1 =< n PROVE f[k + 1] \in Scan
    <3>1. k + 1 \in 1..n /\ (k + 1) - 1 = k /\ f[k] \in Scan
      BY <1>2, <2>2
    <3>. QED
      BY <1>2, <1>10, <3>1, ReadType
  <2>3. \A k \in Nat : k \in K => k + 1 \in K
    BY <2>2
  <2>4. \A k \in Nat : k \in K
    <3>. HIDE DEF K
    <3>. QED
      BY <2>1, <2>3, Counting
  <2>. QED
    BY <1>2, <2>4
<1>12. f \in [0..n -> Scan]
  BY <1>9, <1>11
<1>. QED
  BY <1>1, <1>10, <1>12 DEF n

\* Splitting gives levels without dots.
LEMMA SplitType ==
  ASSUME NEW e \in Seq(STRING)
  PROVE  Split(e) \in Seq(Seq(STRING))
<1>1. Len(e) \in Nat
  BY LenProperties
<1>. QED
  BY <1>1, SplitScans, ReadType

\* The elements of a topic are those of its levels behind the third.
LEMMA ElementsJoin ==
  ASSUME NEW L \in Seq(Seq(STRING))
  PROVE  \E f \in [0..Len(L) -> Seq(Seq(STRING))] :
           /\ \A i \in 0..Len(L) : f[i] = IF i <= 3 THEN <<>> ELSE f[i - 1] \o Split(L[i])
           /\ Elements(L) = f[Len(L)]
<1>. DEFINE n == Len(L)
            S == Seq(Seq(STRING))
            G(h) == [i \in 0..n |-> IF i <= 3 THEN <<>> ELSE h[i - 1] \o Split(L[i])]
            f == CHOOSE h : h = G(h)
            s == [p \in (1..n) \X S |-> IF p[1] <= 3 THEN <<>> ELSE p[2] \o Split(L[p[1]])]
<1>1. Elements(L) = f[n]
  BY DEF Elements
<1>2. n \in Nat /\ \A i \in 1..n : Split(L[i]) \in S
  <2>1. n \in Nat /\ \A i \in 1..n : L[i] \in Seq(STRING)
    BY LenProperties, ElementOfSeq
  <2>. QED
    BY <2>1, SplitType
<1>3. <<>> \in S /\ \A a, b \in S : a \o b \in S
  BY EmptySeq, ConcatProperties
<1>. HIDE DEF n, S
<1>4. s \in [(1..n) \X S -> S]
  BY <1>2, <1>3
<1>5. \A i \in 1..n, v \in S : s[<<i, v>>] = IF i <= 3 THEN <<>> ELSE v \o Split(L[i])
  OBVIOUS
<1>. HIDE DEF s
<1>6. PICK g \in [0..n -> S] : Iterates(g, s, <<>>, n)
  BY <1>2, <1>3, <1>4, Iteration
<1>7. \A i \in 1..n : g[i] = IF i <= 3 THEN <<>> ELSE g[i - 1] \o Split(L[i])
  <2>. TAKE i \in 1..n
  <2>1. i - 1 \in 0..n
    BY <1>2
  <2>2. g[i - 1] \in S
    BY <1>6, <2>1
  <2>. QED
    BY <1>5, <1>6, <2>2 DEF Iterates
<1>8. g = G(g)
  <2>1. \A i \in 0..n : g[i] = IF i <= 3 THEN <<>> ELSE g[i - 1] \o Split(L[i])
    <3>1. \A i \in 0..n : (i = 0 /\ i <= 3) \/ i \in 1..n
      BY <1>2
    <3>. QED
      BY <1>6, <1>7, <3>1 DEF Iterates
  <2>. QED
    BY <1>6, <2>1
<1>9. f = G(f)
  BY <1>8
<1>. HIDE DEF f
<1>10. \A i \in 0..n : f[i] = IF i <= 3 THEN <<>> ELSE f[i - 1] \o Split(L[i])
  BY <1>9
<1>11. \A i \in 0..n : f[i] \in S
  <2>. DEFINE K == {k \in Nat : k =< n => f[k] \in S}
  <2>1. 0 \in K
    BY <1>2, <1>3, <1>10
  <2>2. ASSUME NEW k \in Nat, k \in K, k + 1 =< n PROVE f[k + 1] \in S
    <3>1. k + 1 \in 0..n /\ k + 1 \in 1..n /\ (k + 1) - 1 = k /\ f[k] \in S
      BY <1>2, <2>2
    <3>2. f[k + 1] = <<>> \/ f[k + 1] = f[k] \o Split(L[k + 1])
      BY <1>10, <3>1
    <3>. QED
      BY <1>2, <1>3, <3>1, <3>2
  <2>3. \A k \in Nat : k \in K => k + 1 \in K
    BY <2>2
  <2>4. \A k \in Nat : k \in K
    <3>. HIDE DEF K
    <3>. QED
      BY <2>1, <2>3, Counting
  <2>. QED
    BY <1>2, <2>4
<1>12. f \in [0..n -> S]
  BY <1>9, <1>11
<1>. QED
  BY <1>1, <1>10, <1>12 DEF n, S

\* Elements, subtopic and content type of a topic.
LEMMA ElementsType ==
  ASSUME NEW L \in Seq(Seq(STRING))
  PROVE  Elements(L) \in Seq(Seq(STRING))
<1>1. Len(L) \in 0..Len(L)
  BY LenProperties
<1>. QED
  BY <1>1, ElementsJoin

\* r is s with b in the place of the first a, if there is one.
Replaced(T, s, r, a, b) ==
  /\ r \in Seq(T) /\ Len(r) = Len(s)
  /\ \/ r = s /\ \A j \in 1..Len(s) : s[j] # a
     \/ \E i \in 1..Len(s) :
          /\ s[i] = a /\ \A j \in 1..Len(s) : j < i => s[j] # a
          /\ \A j \in 1..Len(s) : r[j] = IF j = i THEN b ELSE s[j]

\* String.replace does just that.
LEMMA ReplaceFirst ==
  ASSUME NEW T, NEW s \in Seq(T), NEW a \in T, NEW b \in T
  PROVE  Replaced(T, s, Replace(s, a, b), a, b)
<1>. DEFINE I == {i \in 1..Len(s) : s[i] = a}
            k == SelectInSeq(s, LAMBDA tok : tok = a)
<1>0. Len(s) \in Nat
  BY LenProperties
<1>1. k = IF I # {} THEN Min(I) ELSE 0
  BY DEF SelectInSeq
<1>2. Replace(s, a, b) = IF k = 0 THEN s ELSE [s EXCEPT ![k] = b]
  BY DEF Replace, ReplaceAt
<1>. HIDE DEF k
<1>3. CASE I = {}
  <2>1. Replace(s, a, b) = s
    BY <1>1, <1>2, <1>3
  <2>. QED
    BY <1>3, <2>1 DEF Replaced
<1>4. CASE I # {}
  <2>1. I \subseteq Nat
    BY <1>0
  <2>2. Min(I) \in I /\ \A y \in I : Min(I) =< y
    BY <1>4, <2>1, MinOfNats
  <2>3. k \in 1..Len(s) /\ s[k] = a /\ \A y \in I : k =< y
    BY <1>1, <1>4, <2>2
  <2>4. \A j \in 1..Len(s) : j < k => s[j] # a
    BY <1>0, <2>3
  <2>5. Replace(s, a, b) = [s EXCEPT ![k] = b]
    BY <1>0, <1>2, <2>3
  <2>6. /\ [s EXCEPT ![k] = b] \in Seq(T) /\ Len([s EXCEPT ![k] = b]) = Len(s)
        /\ \A j \in 1..Len(s) : [s EXCEPT ![k] = b][j] = IF j = k THEN b ELSE s[j]
    BY <2>3, ExceptSeq
  <2>. QED
    BY <2>3, <2>4, <2>5, <2>6 DEF Replaced
<1>. QED
  BY <1>3, <1>4

\* Encoding and decoding a content type.
LEMMA CodeType ==
  ASSUME NEW ct \in Seq(STRING)
  PROVE  Encode(ct) \in Seq(STRING) /\ Decode(ct) \in Seq(STRING)
<1>1. "/" \in STRING /\ "_" \in STRING /\ "+" \in STRING /\ "-" \in STRING
  BY MqttAssumption DEF Marks
<1>2. \A s \in Seq(STRING) : \A a, b \in STRING : Replace(s, a, b) \in Seq(STRING)
  BY ReplaceFirst, Zenon DEF Replaced
<1>. QED
  BY <1>1, <1>2, Zenon DEF Encode, Decode

\* A level of one token.
LEMMA OneToken ==
  ASSUME NEW T, NEW a \in T
  PROVE  <<a>> \in Seq(T)
OBVIOUS

\* The content type that a client's topic names.
LEMMA ContentTypeType ==
  ASSUME NEW es \in Seq(Seq(STRING))
  PROVE  Subtopic(es) \in Seq(Seq(STRING)) /\ ContentType(es) \in Seq(STRING)
<1>1. Len(es) \in Nat /\ \A i \in 1..Len(es) : es[i] \in Seq(STRING)
  BY LenProperties, ElementOfSeq
<1>2. Subtopic(es) \in Seq(Seq(STRING))
  <2>1. \A i \in 1..Len(es) - 2 : es[i] \in Seq(STRING)
    BY <1>1
  <2>2. SubSeq(es, 1, Len(es) - 2) \in Seq(Seq(STRING))
    BY <1>1, <2>1, SubSeqProperties
  <2>. QED
    BY <2>2 DEF Subtopic
<1>3. ContentType(es) \in Seq(STRING)
  <2>1. CASE HasType(es)
    <3>1. Last(es) \in Seq(STRING)
      BY <1>1, <2>1 DEF HasType, Last
    <3>3. Decode(Last(es)) \in Seq(STRING)
      BY <3>1, CodeType
    <3>. QED
      BY <2>1, <3>3 DEF ContentType
  <2>2. CASE ~HasType(es)
    BY <2>2 DEF ContentType
  <2>. QED
    BY <2>1, <2>2
<1>. QED
  BY <1>2, <1>3

\* The channel of a topic is made of its levels.
LEMMA parseTopicType ==
  ASSUME NEW L \in Seq(Seq(STRING))
  PROVE  parseTopic(L) \in Seq(Seq(STRING))
<1>1. Len(L) \in Nat /\ \A i \in 1..Len(L) : L[i] \in Seq(STRING)
  BY LenProperties, ElementOfSeq
<1>2. \A w : Ends(L, w) \subseteq 3..Len(L)
  BY DEF Ends
<1>3. parseTopic(L) = <<>> \/ \E S : S # {} /\ S \subseteq 3..Len(L) /\ parseTopic(L) = SubSeq(L, 2, Min(S) - 1)
  <2>1. CASE Ends(L, "control") # {}
    BY <1>2, <2>1 DEF parseTopic, NoChannel
  <2>2. CASE Ends(L, "control") = {}
    BY <1>2, <2>2 DEF parseTopic, NoChannel
  <2>. QED
    BY <2>1, <2>2
<1>4. ASSUME NEW S, S # {}, S \subseteq 3..Len(L) PROVE SubSeq(L, 2, Min(S) - 1) \in Seq(Seq(STRING))
  <2>1. S \subseteq Nat
    BY <1>1, <1>4
  <2>2. Min(S) \in 3..Len(L)
    BY <1>4, <2>1, MinOfNats
  <2>3. Min(S) - 1 \in Int /\ \A i \in 2..Min(S) - 1 : L[i] \in Seq(STRING)
    BY <1>1, <2>2
  <2>. QED
    BY <2>3, SubSeqProperties
<1>. QED
  BY <1>3, <1>4, EmptySeq

\* The topic of a message from NATS, level by level.
LEMMA TopicOfType ==
  ASSUME NEW c \in STRING, NEW st \in Seq(Seq(STRING)), NEW ct \in Seq(STRING)
  PROVE  TopicOf(c, st, ct) \in Seq(Seq(STRING))
<1>1. Encode(ct) \in Seq(STRING)
  BY CodeType
<1>. DEFINE base == << <<"channels">>, <<c>>, <<"messages">> >>
            tail == IF ct = <<>> THEN <<>> ELSE << <<"ct">>, Encode(ct) >>
<1>0. /\ <<"channels">> \in Seq(STRING) /\ <<c>> \in Seq(STRING)
      /\ <<"messages">> \in Seq(STRING) /\ <<"ct">> \in Seq(STRING)
  <2>1. "channels" \in STRING /\ "messages" \in STRING /\ "ct" \in STRING
    BY MqttAssumption DEF Marks
  <2>. QED
    BY <2>1, OneToken, Zenon
<1>5. \A T : \A u, v, w \in T : <<u, v, w>> \in Seq(T) /\ <<u, v>> \in Seq(T) /\ <<>> \in Seq(T)
  OBVIOUS
<1>2. base \in Seq(Seq(STRING))
  BY <1>0, <1>5, Zenon
<1>3. tail \in Seq(Seq(STRING))
  <2>1. << <<"ct">>, Encode(ct) >> \in Seq(Seq(STRING)) /\ <<>> \in Seq(Seq(STRING))
    BY <1>0, <1>1, <1>5, Zenon
  <2>. QED
    BY <2>1, Zenon
<1>4. TopicOf(c, st, ct) = (base \o st) \o tail
  BY DEF TopicOf
<1>. HIDE DEF base, tail
<1>. QED
  BY <1>2, <1>3, <1>4, ConcatProperties
-----------------------------------------------------------------------------
(* Topics of messages from other adapters. *)

\* What Append does, element by element.
LEMMA AppendOne ==
  ASSUME NEW T, NEW s \in Seq(T), NEW a \in T
  PROVE  /\ Len(Append(s, a)) = Len(s) + 1
         /\ \A j \in 1..Len(s) + 1 : Append(s, a)[j] = IF j = Len(s) + 1 THEN a ELSE s[j]
OBVIOUS

\* A level without a dot is one element.
LEMMA SplitPlain ==
  ASSUME NEW e \in Seq(STRING), e # <<>>, \A i \in 1..Len(e) : e[i] # "."
  PROVE  Split(e) = <<e>>
<1>1. PICK f \in [0..Len(e) -> Scan] :
           /\ f[0] = Nothing /\ \A i \in 1..Len(e) : f[i] = Read(f[i - 1], e[i])
           /\ Split(e) = Close(f[Len(e)])
  BY SplitScans
<1>. DEFINE n == Len(e)
            Same(k) == /\ f[k].done = <<>> /\ Len(f[k].cur) = k
                       /\ \A j \in 1..k : f[k].cur[j] = e[j]
            K == {k \in Nat : k =< n => Same(k)}
<1>2. n \in Nat /\ n # 0
  BY LenProperties, EmptySeq
<1>3. 0 \in K
  BY <1>1 DEF Nothing
<1>4. ASSUME NEW k \in Nat, k \in K, k + 1 =< n PROVE Same(k + 1)
  <2>1. k + 1 \in 1..n /\ (k + 1) - 1 = k /\ k \in 0..n /\ k =< n
    BY <1>2, <1>4
  <2>2. f[k] \in Scan /\ Same(k) /\ f[k + 1] = Read(f[k], e[k + 1]) /\ e[k + 1] # "."
    BY <1>1, <1>4, <2>1
  <2>3. f[k + 1] = [f[k] EXCEPT !.cur = Append(@, e[k + 1])]
    BY <2>2 DEF Read
  <2>4. f[k + 1].done = f[k].done /\ f[k + 1].cur = Append(f[k].cur, e[k + 1])
    BY <2>2, <2>3 DEF Scan
  <2>5. f[k].cur \in Seq(STRING) /\ e[k + 1] \in STRING
    BY <2>1, <2>2, ElementOfSeq DEF Scan
  <2>6. /\ Len(Append(f[k].cur, e[k + 1])) = Len(f[k].cur) + 1
        /\ \A j \in 1..Len(f[k].cur) + 1 :
             Append(f[k].cur, e[k + 1])[j] = IF j = Len(f[k].cur) + 1 THEN e[k + 1] ELSE f[k].cur[j]
    BY <2>5, AppendOne
  <2>. QED
    BY <2>2, <2>4, <2>6
<1>5. \A k \in Nat : k \in K => k + 1 \in K
  BY <1>4
<1>6. n \in K
  <2>. HIDE DEF K, n
  <2>. QED
    BY <1>2, <1>3, <1>5, Counting
<1>7. f[n].cur \in Seq(STRING)
  BY <1>1, <1>2 DEF Scan
<1>8. f[n].cur = e
  BY <1>2, <1>6, <1>7, SeqEqual
<1>9. f[n].done = <<>>
  BY <1>2, <1>6
<1>. QED
  BY <1>1, <1>8, <1>9 DEF Close

\* When no level has a dot, the elements are the levels.
LEMMA ElementsPlain ==
  ASSUME NEW L \in Seq(Seq(STRING)), Len(L) >= 3,
         \A i \in 4..Len(L) : L[i] # <<>> /\ \A j \in 1..Len(L[i]) : L[i][j] # "."
  PROVE  /\ Elements(L) \in Seq(Seq(STRING)) /\ Len(Elements(L)) = Len(L) - 3
         /\ \A i \in 1..Len(L) - 3 : Elements(L)[i] = L[i + 3]
<1>1. PICK f \in [0..Len(L) -> Seq(Seq(STRING))] :
           /\ \A i \in 0..Len(L) : f[i] = IF i <= 3 THEN <<>> ELSE f[i - 1] \o Split(L[i])
           /\ Elements(L) = f[Len(L)]
  BY ElementsJoin
<1>. DEFINE n == Len(L)
            Same(k) == Len(f[k]) = k - 3 /\ \A j \in 1..k - 3 : f[k][j] = L[j + 3]
            K == {k \in Nat : k \in 3..n => Same(k)}
<1>2. n \in Nat /\ \A i \in 1..n : L[i] \in Seq(STRING)
  BY LenProperties, ElementOfSeq
<1>3. 0 \in K
  OBVIOUS
<1>4. ASSUME NEW k \in Nat, k \in K, k + 1 \in 3..n PROVE Same(k + 1)
  <2>1. CASE k = 2
    <3>1. k + 1 = 3 /\ 3 \in 0..n /\ 3 - 3 = 0
      BY <1>2, <1>4, <2>1
    <3>2. f[3] = <<>>
      <4>1. \A i \in 0..n : i <= 3 => f[i] = <<>>
        BY <1>1
      <4>. QED
        BY <3>1, <4>1
    <3>3. Len(f[3]) = 0 /\ 1..0 = {}
      BY <3>2
    <3>. QED
      BY <3>1, <3>3
  <2>2. CASE k # 2
    <3>. DEFINE m == k + 1
    <3>1. k \in 3..n /\ m \in 4..n /\ m \in 0..n /\ m \in 1..n /\ ~(m <= 3) /\ m - 1 = k /\ k \in 0..n
            /\ m - 3 = (k - 3) + 1 /\ k - 3 \in Nat /\ m \in Nat
      BY <1>2, <1>4, <2>2
    <3>. HIDE DEF m
    <3>2. f[m] = f[k] \o Split(L[m])
      BY <1>1, <3>1
    <3>3. Split(L[m]) = <<L[m]>> /\ L[m] \in Seq(STRING)
      BY <1>2, <3>1, SplitPlain
    <3>4. Same(k) /\ f[k] \in Seq(Seq(STRING))
      BY <1>1, <1>4, <3>1
    <3>. DEFINE g == f[k]  l == L[m]  o == k - 3
    <3>5. f[m] = g \o <<l>> /\ g \in Seq(Seq(STRING)) /\ <<l>> \in Seq(Seq(STRING)) /\ Len(<<l>>) = 1 /\ <<l>>[1] = l
      BY <3>2, <3>3, <3>4, OneToken
    <3>6. Len(g) = o /\ (\A j \in 1..o : g[j] = L[j + 3]) /\ o \in Nat /\ m = o + 4 /\ m - 3 = o + 1
      BY <3>1, <3>4
    <3>. HIDE DEF g, o, l
    <3>7. /\ Len(g \o <<l>>) = o + 1
          /\ \A j \in 1..o + 1 : (g \o <<l>>)[j] = IF j <= o THEN g[j] ELSE <<l>>[j - o]
      <4>1. /\ Len(g \o <<l>>) = Len(g) + Len(<<l>>)
            /\ \A j \in 1..Len(g) + Len(<<l>>) :
                 (g \o <<l>>)[j] = IF j <= Len(g) THEN g[j] ELSE <<l>>[j - Len(g)]
        BY <3>5, ConcatProperties
      <4>. QED
        BY <3>5, <3>6, <4>1
    <3>8. ASSUME NEW j \in 1..o + 1 PROVE (g \o <<l>>)[j] = L[j + 3]
      <4>1. CASE j <= o
        <5>1. j \in 1..o
          BY <3>6, <4>1
        <5>. QED
          BY <3>6, <3>7, <4>1, <5>1
      <4>2. CASE ~(j <= o)
        <5>1. j - o = 1 /\ j + 3 = m
          BY <3>6, <4>2
        <5>2. (g \o <<l>>)[j] = <<l>>[j - o]
          BY <3>7, <4>2
        <5>3. (g \o <<l>>)[j] = l
          BY <3>5, <5>1, <5>2
        <5>. QED
          BY <5>1, <5>3 DEF l
      <4>. QED
        BY <4>1, <4>2
    <3>9. Len(f[m]) = m - 3 /\ \A j \in 1..m - 3 : f[m][j] = L[j + 3]
      BY <3>5, <3>6, <3>7, <3>8
    <3>. QED
      BY <3>9 DEF m
  <2>. QED
    BY <2>1, <2>2
<1>5. \A k \in Nat : k \in K => k + 1 \in K
  <2>. HIDE DEF Same
  <2>. QED
    BY <1>4
<1>6. n \in K
  <2>. HIDE DEF K, n
  <2>. QED
    BY <1>2, <1>3, <1>5, Counting
<1>7. Same(n)
  BY <1>2, <1>6
<1>8. f[n] \in Seq(Seq(STRING))
  <2>1. n \in 0..n
    BY <1>2
  <2>. QED
    BY <1>1, <2>1
<1>. QED
  BY <1>1, <1>7, <1>8

\* A content type is encoded token by token.
LEMMA Encoded ==
  ASSUME NEW ct \in Seq(STRING)
  PROVE  \E u : Replaced(STRING, ct, u, "/", "_") /\ Replaced(STRING, u, Encode(ct), "+", "-")
<1>1. "/" \in STRING /\ "_" \in STRING /\ "+" \in STRING /\ "-" \in STRING
  BY MqttAssumption DEF Marks
<1>2. \A s \in Seq(STRING) : \A a, b \in STRING : Replaced(STRING, s, Replace(s, a, b), a, b)
  BY ReplaceFirst, Zenon
<1>3. \A s, r, a, b : Replaced(STRING, s, r, a, b) => r \in Seq(STRING)
  BY DEF Replaced
<1>. QED
  BY <1>1, <1>2, <1>3, Zenon DEF Encode

\* And so it is decoded.
LEMMA Decoded ==
  ASSUME NEW e \in Seq(STRING)
  PROVE  \E w : Replaced(STRING, e, w, "_", "/") /\ Replaced(STRING, w, Decode(e), "-", "+")
<1>1. "/" \in STRING /\ "_" \in STRING /\ "+" \in STRING /\ "-" \in STRING
  BY MqttAssumption DEF Marks
<1>2. \A s \in Seq(STRING) : \A a, b \in STRING : Replaced(STRING, s, Replace(s, a, b), a, b)
  BY ReplaceFirst, Zenon
<1>3. \A s, r, a, b : Replaced(STRING, s, r, a, b) => r \in Seq(STRING)
  BY DEF Replaced
<1>. QED
  BY <1>1, <1>2, <1>3, Zenon DEF Decode

\* What encoding does to a type without the characters it makes.
LEMMA EncodePlain ==
  ASSUME NEW ct \in Seq(STRING), \A i \in 1..Len(ct) : ct[i] \notin {"_", "-"}
  PROVE  /\ Encode(ct) \in Seq(STRING) /\ Len(Encode(ct)) = Len(ct)
         /\ \A i \in 1..Len(ct) : Encode(ct)[i] \in {ct[i], "_", "-"}
         /\ Decode(Encode(ct)) = ct
<1>. DEFINE n == Len(ct)  v == Encode(ct)  x == Decode(v)
<1>0. n \in Nat
  BY LenProperties
<1>1. PICK u : Replaced(STRING, ct, u, "/", "_") /\ Replaced(STRING, u, v, "+", "-")
  BY Encoded
<1>2. u \in Seq(STRING) /\ v \in Seq(STRING) /\ Len(u) = n /\ Len(v) = n
  BY <1>1 DEF Replaced
<1>3. PICK w : Replaced(STRING, v, w, "_", "/") /\ Replaced(STRING, w, x, "-", "+")
  BY <1>2, Decoded
<1>. HIDE DEF n, v, x
<1>4. w \in Seq(STRING) /\ x \in Seq(STRING) /\ Len(w) = n /\ Len(x) = n
  BY <1>2, <1>3 DEF Replaced
<1>5. \A i \in 1..n : ct[i] # "_" /\ ct[i] # "-"
  BY DEF n
<1>. DEFINE Put(s, r, a, b) ==
              \/ \A j \in 1..n : r[j] = s[j] /\ s[j] # a
              \/ \E i \in 1..n : /\ s[i] = a /\ \A j \in 1..n : j < i => s[j] # a
                                 /\ \A j \in 1..n : r[j] = IF j = i THEN b ELSE s[j]
<1>6. Put(ct, u, "/", "_") /\ Put(u, v, "+", "-") /\ Put(v, w, "_", "/") /\ Put(w, x, "-", "+")
  <2>1. ASSUME NEW s, NEW r, NEW a, NEW b, Len(s) = n, Replaced(STRING, s, r, a, b) PROVE Put(s, r, a, b)
    BY <2>1 DEF Replaced
  <2>. HIDE DEF Put
  <2>2. Len(ct) = n
    BY DEF n
  <2>. QED
    BY <1>1, <1>2, <1>3, <1>4, <2>1, <2>2
<1>7. \A i \in 1..n : v[i] \in {ct[i], "_", "-"}
  <2>1. \A i \in 1..n : u[i] = ct[i] \/ u[i] = "_"
    BY <1>6
  <2>2. \A i \in 1..n : v[i] = u[i] \/ v[i] = "-"
    BY <1>6
  <2>. QED
    BY <2>1, <2>2
<1>8. \A i \in 1..n : w[i] = IF ct[i] = "+" THEN v[i] ELSE ct[i]
  <2>1. CASE \A j \in 1..n : u[j] = ct[j] /\ ct[j] # "/"
    <3>1. \A j \in 1..n : v[j] # "_" /\ (ct[j] # "+" => v[j] = ct[j])
      BY <1>5, <1>6, <2>1
    <3>2. \A j \in 1..n : w[j] = v[j]
      BY <1>6, <3>1
    <3>. QED
      BY <3>1, <3>2
  <2>2. CASE \E i \in 1..n : /\ ct[i] = "/" /\ \A j \in 1..n : u[j] = IF j = i THEN "_" ELSE ct[j]
    <3>1. PICK i \in 1..n : ct[i] = "/" /\ \A j \in 1..n : u[j] = IF j = i THEN "_" ELSE ct[j]
      BY <2>2
    <3>2. \A j \in 1..n : (v[j] = "_" <=> j = i) /\ (j # i /\ ct[j] # "+" => v[j] = ct[j])
      <4>1. \A j \in 1..n : (u[j] = "_" <=> j = i) /\ (u[j] = "+" <=> ct[j] = "+")
        BY <1>5, <3>1
      <4>2. \A j \in 1..n : u[j] # "+" => v[j] = u[j]
        BY <1>6
      <4>3. \A j \in 1..n : u[j] = "+" => v[j] # "_"
        BY <1>6
      <4>. QED
        BY <3>1, <4>1, <4>2, <4>3
    <3>3. \A j \in 1..n : w[j] = IF j = i THEN "/" ELSE v[j]
      <4>1. PICK k \in 1..n : v[k] = "_" /\ \A j \in 1..n : w[j] = IF j = k THEN "/" ELSE v[j]
        BY <1>6, <3>2
      <4>2. k = i
        BY <3>2, <4>1
      <4>. QED
        BY <4>1, <4>2
    <3>. QED
      BY <3>1, <3>2, <3>3
  <2>. QED
    BY <1>6, <2>1, <2>2
<1>9. \A i \in 1..n : x[i] = ct[i]
  <2>1. CASE \A j \in 1..n : v[j] = u[j] /\ u[j] # "+"
    <3>1. \A j \in 1..n : ct[j] # "+"
      BY <1>6, <2>1
    <3>2. \A j \in 1..n : w[j] = ct[j] /\ w[j] # "-"
      BY <1>5, <1>8, <3>1
    <3>. QED
      BY <1>6, <3>2
  <2>2. CASE \E k \in 1..n : u[k] = "+" /\ \A j \in 1..n : v[j] = IF j = k THEN "-" ELSE u[j]
    <3>1. PICK k \in 1..n : u[k] = "+" /\ \A j \in 1..n : v[j] = IF j = k THEN "-" ELSE u[j]
      BY <2>2
    <3>2. \A j \in 1..n : (u[j] = "+" <=> ct[j] = "+") /\ (ct[j] = "+" => u[j] = ct[j])
      BY <1>6
    <3>3. \A j \in 1..n : w[j] = IF j = k THEN "-" ELSE ct[j]
      BY <1>8, <3>1, <3>2
    <3>4. \A j \in 1..n : (w[j] = "-" <=> j = k)
      BY <1>5, <3>3
    <3>5. \A j \in 1..n : x[j] = IF j = k THEN "+" ELSE w[j]
      <4>1. PICK i \in 1..n : w[i] = "-" /\ \A j \in 1..n : x[j] = IF j = i THEN "+" ELSE w[j]
        BY <1>6, <3>4
      <4>2. i = k
        BY <3>4, <4>1
      <4>. QED
        BY <4>1, <4>2
    <3>. QED
      BY <3>1, <3>2, <3>3, <3>5
  <2>. QED
    BY <1>6, <2>1, <2>2
<1>10. x = ct
  BY <1>0, <1>4, <1>9, SeqEqual DEF n
<1>. QED
  BY <1>2, <1>7, <1>10 DEF n, v, x

\* What stands behind the base of a topic.
LEMMA TailOfTopic ==
  ASSUME NEW c \in STRING, NEW st \in Seq(Seq(STRING)), NEW ct \in Seq(STRING),
         PlainSubtopic(st), PlainType(ct)
  PROVE  LET L == TopicOf(c, st, ct)
             E == st \o (IF ct = <<>> THEN <<>> ELSE << <<"ct">>, Encode(ct) >>)
         IN  /\ L \in Seq(Seq(STRING)) /\ E \in Seq(Seq(STRING)) /\ Len(L) = Len(E) + 3
             /\ L[1] = <<"channels">> /\ L[2] = <<c>> /\ L[3] = <<"messages">>
             /\ \A i \in 1..Len(E) : L[i + 3] = E[i] /\ Plain(E[i])
<1>. DEFINE base == << <<"channels">>, <<c>>, <<"messages">> >>
            tail == IF ct = <<>> THEN <<>> ELSE << <<"ct">>, Encode(ct) >>
            E == st \o tail
            L == TopicOf(c, st, ct)
<1>0. /\ <<"channels">> \in Seq(STRING) /\ <<c>> \in Seq(STRING)
      /\ <<"messages">> \in Seq(STRING) /\ <<"ct">> \in Seq(STRING)
  <2>1. "channels" \in STRING /\ "messages" \in STRING /\ "ct" \in STRING
    BY MqttAssumption DEF Marks
  <2>. QED
    BY <2>1, OneToken, Zenon
<1>1. Encode(ct) \in Seq(STRING)
  BY CodeType
<1>2. \A T : \A u, v, w \in T : <<u, v, w>> \in Seq(T) /\ <<u, v>> \in Seq(T) /\ <<>> \in Seq(T)
  OBVIOUS
<1>3. base \in Seq(Seq(STRING)) /\ tail \in Seq(Seq(STRING))
  <2>1. << <<"ct">>, Encode(ct) >> \in Seq(Seq(STRING)) /\ <<>> \in Seq(Seq(STRING))
    BY <1>0, <1>1, <1>2, Zenon
  <2>2. base \in Seq(Seq(STRING))
    BY <1>0, <1>2, Zenon
  <2>. QED
    BY <2>1, <2>2, Zenon
<1>4. /\ Len(base) = 3 /\ base[1] = <<"channels">> /\ base[2] = <<c>> /\ base[3] = <<"messages">>
      /\ ct = <<>> => Len(tail) = 0
      /\ ct # <<>> => Len(tail) = 2 /\ tail[1] = <<"ct">> /\ tail[2] = Encode(ct)
  OBVIOUS
<1>5. \A i \in 1..Len(tail) : Plain(tail[i])
  <2>1. CASE ct = <<>>
    BY <1>4, <2>1
  <2>2. CASE ct # <<>>
    <3>1. /\ Len(Encode(ct)) = Len(ct) /\ Len(ct) \in Nat \ {0}
          /\ \A i \in 1..Len(ct) : Encode(ct)[i] \in {ct[i], "_", "-"}
      <4>1. \A i \in 1..Len(ct) : ct[i] \notin {"_", "-"}
        BY <2>2 DEF PlainType
      <4>. QED
        BY <2>2, <4>1, EncodePlain, EmptySeq
    <3>2. ct[1] # "control" /\ \A i \in 1..Len(ct) : ct[i] \notin {".", "*", ">"}
      BY <2>2 DEF PlainType, Plain
    <3>3. \A i \in 1..Len(ct) : Encode(ct)[i] \notin {".", "*", ">"}
      BY <3>1, <3>2
    <3>4. Encode(ct)[1] # "control" /\ Encode(ct) # <<>>
      <4>0. \A n \in Nat \ {0} : 1 \in 1..n
        OBVIOUS
      <4>1. 1 \in 1..Len(ct)
        BY <3>1, <4>0, Zenon
      <4>2. Len(Encode(ct)) # 0
        BY <3>1
      <4>3. Encode(ct)[1] \in {ct[1], "_", "-"}
        BY <3>1, <4>1
      <4>4. Encode(ct) # <<>>
        BY <4>2
      <4>. QED
        BY <3>2, <4>3, <4>4
    <3>5. Plain(Encode(ct))
      BY <3>1, <3>3, <3>4 DEF Plain
    <3>6. Plain(<<"ct">>)
      BY DEF Plain
    <3>. QED
      BY <1>4, <2>2, <3>5, <3>6
  <2>. QED
    BY <2>1, <2>2
<1>6. \A i \in 1..Len(st) : Plain(st[i])
  BY DEF PlainSubtopic
<1>. HIDE DEF base, tail
<1>7. Len(st) \in Nat /\ Len(tail) \in Nat
  BY <1>3, LenProperties
<1>8. /\ E \in Seq(Seq(STRING)) /\ Len(E) = Len(st) + Len(tail)
      /\ \A i \in 1..Len(E) : E[i] = IF i <= Len(st) THEN st[i] ELSE tail[i - Len(st)]
  BY <1>3, ConcatProperties
<1>9. L = base \o E
  <2>1. L = (base \o st) \o tail
    BY DEF TopicOf, base, tail
  <2>. QED
    BY <1>3, <2>1, ConcatAssociative
<1>10. \A i \in 1..Len(E) : Plain(E[i])
  <2>. TAKE i \in 1..Len(E)
  <2>1. CASE i <= Len(st)
    <3>1. i \in 1..Len(st)
      BY <1>7, <1>8, <2>1
    <3>. QED
      BY <1>6, <1>8, <2>1, <3>1
  <2>2. CASE ~(i <= Len(st))
    <3>1. i - Len(st) \in 1..Len(tail)
      BY <1>7, <1>8, <2>2
    <3>. QED
      BY <1>5, <1>8, <2>2, <3>1
  <2>. QED
    BY <2>1, <2>2
<1>. HIDE DEF E
<1>11. /\ L \in Seq(Seq(STRING)) /\ Len(L) = 3 + Len(E)
       /\ \A i \in 1..3 + Len(E) : L[i] = IF i <= 3 THEN base[i] ELSE E[i - 3]
  <2>1. /\ base \o E \in Seq(Seq(STRING)) /\ Len(base \o E) = Len(base) + Len(E)
        /\ \A i \in 1..Len(base) + Len(E) : (base \o E)[i] = IF i <= Len(base) THEN base[i] ELSE E[i - Len(base)]
    <3>1. \A a, b \in Seq(Seq(STRING)) :
            /\ a \o b \in Seq(Seq(STRING)) /\ Len(a \o b) = Len(a) + Len(b)
            /\ \A i \in 1..Len(a) + Len(b) : (a \o b)[i] = IF i <= Len(a) THEN a[i] ELSE b[i - Len(a)]
      BY ConcatProperties
    <3>. HIDE DEF L
    <3>. QED
      BY <1>3, <1>8, <3>1
  <2>. QED
    BY <1>4, <1>9, <2>1
<1>12. Len(E) \in Nat
  BY <1>7, <1>8
<1>. HIDE DEF L
<1>13. L[1] = <<"channels">> /\ L[2] = <<c>> /\ L[3] = <<"messages">>
  <2>1. 1 \in 1..3 + Len(E) /\ 2 \in 1..3 + Len(E) /\ 3 \in 1..3 + Len(E)
    BY <1>12
  <2>2. L[1] = base[1] /\ L[2] = base[2] /\ L[3] = base[3]
    BY <1>11, <2>1
  <2>. QED
    BY <1>4, <2>2
<1>14. \A i \in 1..Len(E) : L[i + 3] = E[i]
  <2>. TAKE i \in 1..Len(E)
  <2>1. i + 3 \in 1..3 + Len(E) /\ ~(i + 3 <= 3) /\ (i + 3) - 3 = i
    BY <1>12
  <2>. QED
    BY <1>11, <2>1
<1>15. Len(L) = Len(E) + 3
  BY <1>11, <1>12
<1>16. /\ L \in Seq(Seq(STRING)) /\ E \in Seq(Seq(STRING)) /\ Len(L) = Len(E) + 3
       /\ L[1] = <<"channels">> /\ L[2] = <<c>> /\ L[3] = <<"messages">>
       /\ \A i \in 1..Len(E) : L[i + 3] = E[i] /\ Plain(E[i])
  BY <1>8, <1>10, <1>11, <1>13, <1>14, <1>15
<1>. QED
  BY <1>16 DEF L, E, tail

\* A topic of safe levels names its channel, and its elements are its levels.
LEMMA SafeTopic ==
  ASSUME NEW c, NEW L \in Seq(Seq(STRING)), NEW E \in Seq(Seq(STRING)), Len(L) = Len(E) + 3,
         L[1] = <<"channels">>, L[2] = <<c>>, L[3] = <<"messages">>,
         \A i \in 1..Len(E) : L[i + 3] = E[i] /\ Plain(E[i])
  PROVE  parseTopic(L) = << <<c>> >> /\ Elements(L) = E /\ ~InvalidSubtopic(L)
<1>1. Len(E) \in Nat /\ Len(L) \in Nat
  BY LenProperties
<1>2. \A i \in 4..Len(L) : i - 3 \in 1..Len(E) /\ L[i] = E[i - 3] /\ Plain(L[i])
  <2>. TAKE i \in 4..Len(L)
  <2>1. i - 3 \in 1..Len(E) /\ (i - 3) + 3 = i
    BY <1>1
  <2>. QED
    BY <2>1
<1>3. Elements(L) = E
  <2>1. \A i \in 4..Len(L) : L[i] # <<>> /\ \A j \in 1..Len(L[i]) : L[i][j] # "."
    BY <1>2 DEF Plain
  <2>2. /\ Elements(L) \in Seq(Seq(STRING)) /\ Len(Elements(L)) = Len(L) - 3
        /\ \A i \in 1..Len(L) - 3 : Elements(L)[i] = L[i + 3]
    <3>1. Len(L) >= 3
      BY <1>1
    <3>. QED
      BY <2>1, <3>1, ElementsPlain
  <2>3. Len(Elements(L)) = Len(E) /\ \A i \in 1..Len(E) : Elements(L)[i] = E[i]
    BY <1>1, <2>2
  <2>. QED
    BY <2>2, <2>3, SeqEqual
<1>4. ~InvalidSubtopic(L)
  <2>1. DOMAIN E = 1..Len(E)
    BY LenProperties
  <2>. QED
    BY <1>3, <2>1 DEF InvalidSubtopic, InvalidElement, Contains, Plain
<1>5. parseTopic(L) = << <<c>> >>
  <2>1. Ends(L, "control") = {}
    <3>1. \A j \in 3..Len(L) : j = 3 \/ j \in 4..Len(L)
      BY <1>1
    <3>2. ~StartsWith(L[3], "control")
      BY DEF StartsWith
    <3>3. \A j \in 4..Len(L) : ~StartsWith(L[j], "control")
      BY <1>2 DEF StartsWith, Plain
    <3>. QED
      BY <3>1, <3>2, <3>3 DEF Ends
  <2>. DEFINE S == Ends(L, "messages")
  <2>2. 3 \in S
    <3>1. 3 \in 3..Len(L)
      BY <1>1
    <3>2. StartsWith(L[3], "messages")
      BY DEF StartsWith
    <3>3. L[2] # <<>>
      OBVIOUS
    <3>. QED
      BY <3>1, <3>2, <3>3 DEF Ends
  <2>3. S \subseteq 3..Len(L)
    BY DEF Ends
  <2>. HIDE DEF S
  <2>4. S \subseteq Nat /\ S # {}
    BY <1>1, <2>2, <2>3
  <2>5. Min(S) \in 3..Len(L) /\ Min(S) =< 3
    BY <2>2, <2>3, <2>4, MinOfNats
  <2>6. Min(S) - 1 = 2
    BY <1>1, <2>5
  <2>7. L # <<>>
    BY <1>1
  <2>8. parseTopic(L) = SubSeq(L, 2, Min(S) - 1)
    BY <2>1, <2>4, <2>7 DEF parseTopic, S
  <2>9. SubSeq(L, 2, 2) = <<L[2]>>
    <3>1. 2 \in 1..Len(L)
      BY <1>1
    <3>2. L[2] \in Seq(STRING)
      BY <3>1, ElementOfSeq
    <3>3. /\ SubSeq(L, 2, 2) \in Seq(Seq(STRING)) /\ Len(SubSeq(L, 2, 2)) = 1
          /\ SubSeq(L, 2, 2)[1] = L[2]
      <4>1. \A i \in 2..2 : i = 2
        OBVIOUS
      <4>2. \A i \in 2..2 : L[i] \in Seq(STRING)
        BY <3>2, <4>1
      <4>3. /\ SubSeq(L, 2, 2) \in Seq(Seq(STRING)) /\ Len(SubSeq(L, 2, 2)) = IF 2 <= 2 THEN 2 - 2 + 1 ELSE 0
            /\ \A i \in 1..2 - 2 + 1 : SubSeq(L, 2, 2)[i] = L[2 + i - 1]
        BY <4>2, SubSeqProperties
      <4>. QED
        BY <4>3
    <3>4. <<L[2]>> \in Seq(Seq(STRING)) /\ Len(<<L[2]>>) = 1 /\ <<L[2]>>[1] = L[2]
      BY <3>2, OneToken
    <3>. DEFINE a == SubSeq(L, 2, 2)  b == <<L[2]>>
    <3>. HIDE DEF a, b
    <3>5. a \in Seq(Seq(STRING)) /\ b \in Seq(Seq(STRING)) /\ Len(a) = 1 /\ Len(b) = 1 /\ a[1] = b[1]
      BY <3>3, <3>4 DEF a, b
    <3>6. a = b
      BY <3>5, SeqEqual
    <3>. QED
      BY <3>6 DEF a, b
  <2>. QED
    BY <2>6, <2>8, <2>9
<1>. QED
  BY <1>3, <1>4, <1>5

\* An ordinary message is read back from its topic as it was.
LEMMA ReadBack ==
  ASSUME NEW c \in STRING, NEW st \in Seq(Seq(STRING)), NEW ct \in Seq(STRING),
         PlainSubtopic(st), PlainType(ct)
  PROVE  LET L == TopicOf(c, st, ct)
         IN  /\ parseTopic(L) = << <<c>> >> /\ ~InvalidSubtopic(L)
             /\ Subtopic(Elements(L)) = st /\ ContentType(Elements(L)) = ct
<1>. DEFINE tail == IF ct = <<>> THEN <<>> ELSE << <<"ct">>, Encode(ct) >>
            E == st \o tail
            L == TopicOf(c, st, ct)
<1>1. /\ L \in Seq(Seq(STRING)) /\ E \in Seq(Seq(STRING)) /\ Len(L) = Len(E) + 3
      /\ L[1] = <<"channels">> /\ L[2] = <<c>> /\ L[3] = <<"messages">>
      /\ \A i \in 1..Len(E) : L[i + 3] = E[i] /\ Plain(E[i])
  BY TailOfTopic
<1>. HIDE DEF E, L
<1>2. parseTopic(L) = << <<c>> >> /\ Elements(L) = E /\ ~InvalidSubtopic(L)
  BY <1>1, SafeTopic
<1>3. Len(st) \in Nat
  BY LenProperties
<1>4. Subtopic(E) = st /\ ContentType(E) = ct
  <2>1. CASE ct = <<>>
    <3>1. E = st
      BY <2>1, ConcatEmptySeq DEF E
    <3>2. ~HasType(st)
      <4>. SUFFICES ASSUME Len(st) > 1 PROVE st[Len(st) - 1] # <<"ct">>
        BY DEF HasType
      <4>1. Len(st) - 1 \in 1..Len(st) /\ Len(st) - 1 < Len(st)
        BY <1>3
      <4>. QED
        BY <4>1 DEF PlainSubtopic
    <3>. QED
      BY <2>1, <3>1, <3>2 DEF Subtopic, ContentType
  <2>2. CASE ct # <<>>
    <3>. DEFINE t == << <<"ct">>, Encode(ct) >>  n == Len(st)
    <3>1. E = st \o t
      BY <2>2 DEF E
    <3>2. t \in Seq(Seq(STRING)) /\ Len(t) = 2 /\ t[1] = <<"ct">> /\ t[2] = Encode(ct)
      <4>1. <<"ct">> \in Seq(STRING) /\ Encode(ct) \in Seq(STRING)
        <5>1. "ct" \in STRING
          BY MqttAssumption DEF Marks
        <5>. QED
          BY <5>1, OneToken, CodeType
      <4>2. \A T : \A u, v \in T : <<u, v>> \in Seq(T)
        OBVIOUS
      <4>3. t \in Seq(Seq(STRING))
        BY <4>1, <4>2, Zenon
      <4>. QED
        BY <4>3
    <3>. HIDE DEF t
    <3>3. /\ Len(E) = n + 2
          /\ \A i \in 1..n + 2 : E[i] = IF i <= n THEN st[i] ELSE t[i - n]
      <4>1. /\ Len(st \o t) = Len(st) + Len(t)
            /\ \A i \in 1..Len(st) + Len(t) : (st \o t)[i] = IF i <= Len(st) THEN st[i] ELSE t[i - Len(st)]
        BY <3>2, ConcatProperties
      <4>. QED
        BY <3>1, <3>2, <4>1
    <3>4. E[n + 1] = <<"ct">> /\ E[n + 2] = Encode(ct) /\ \A i \in 1..n : E[i] = st[i]
      <4>1. n + 1 \in 1..n + 2 /\ n + 2 \in 1..n + 2 /\ (n + 1) - n = 1 /\ (n + 2) - n = 2
              /\ ~(n + 1 <= n) /\ ~(n + 2 <= n) /\ \A i \in 1..n : i \in 1..n + 2 /\ i <= n
        BY <1>3
      <4>. QED
        BY <3>2, <3>3, <4>1
    <3>5. HasType(E)
      <4>1. Len(E) > 1 /\ Len(E) - 1 = n + 1
        BY <1>3, <3>3
      <4>. QED
        BY <3>4, <4>1 DEF HasType
    <3>6. Subtopic(E) = st
      <4>1. Subtopic(E) = SubSeq(E, 1, n)
        <5>1. Len(E) - 2 = n
          BY <1>3, <3>3
        <5>. QED
          BY <3>5, <5>1 DEF Subtopic
      <4>2. \A i \in 1..n : E[i] \in Seq(STRING)
        BY <1>3, <3>4, ElementOfSeq
      <4>3. /\ SubSeq(E, 1, n) \in Seq(Seq(STRING)) /\ Len(SubSeq(E, 1, n)) = IF 1 <= n THEN n - 1 + 1 ELSE 0
            /\ \A i \in 1..n - 1 + 1 : SubSeq(E, 1, n)[i] = E[1 + i - 1]
        BY <1>3, <4>2, SubSeqProperties
      <4>4. Len(SubSeq(E, 1, n)) = n /\ \A i \in 1..n : SubSeq(E, 1, n)[i] = st[i]
        BY <1>3, <3>4, <4>3
      <4>. QED
        BY <4>1, <4>3, <4>4, SeqEqual
    <3>7. ContentType(E) = ct
      <4>1. Last(E) = Encode(ct)
        BY <3>3, <3>4 DEF Last
      <4>2. Decode(Encode(ct)) = ct
        BY <2>2, EncodePlain DEF PlainType
      <4>. QED
        BY <3>5, <4>1, <4>2 DEF ContentType
    <3>. QED
      BY <3>6, <3>7
  <2>. QED
    BY <2>1, <2>2
<1>. QED
  BY <1>2, <1>4 DEF L

\* With the first elements only, a message is as ordinary.
LEMMA PlainPrefix ==
  ASSUME NEW st \in Seq(Seq(STRING)), PlainSubtopic(st), NEW n \in 0..Len(st)
  PROVE  SubSeq(st, 1, n) \in Seq(Seq(STRING)) /\ PlainSubtopic(SubSeq(st, 1, n))
<1>1. Len(st) \in Nat
  BY LenProperties
<1>2. \A i \in 1..n : i \in 1..Len(st) /\ st[i] \in Seq(STRING)
  BY <1>1, ElementOfSeq
<1>3. /\ SubSeq(st, 1, n) \in Seq(Seq(STRING)) /\ Len(SubSeq(st, 1, n)) = n
      /\ \A i \in 1..n : SubSeq(st, 1, n)[i] = st[i]
  <2>1. /\ SubSeq(st, 1, n) \in Seq(Seq(STRING))
        /\ Len(SubSeq(st, 1, n)) = IF 1 <= n THEN n - 1 + 1 ELSE 0
        /\ \A i \in 1..n - 1 + 1 : SubSeq(st, 1, n)[i] = st[1 + i - 1]
    BY <1>1, <1>2, SubSeqProperties
  <2>. QED
    BY <1>1, <2>1
<1>4. \A i \in 1..n : i < n => i < Len(st)
  BY <1>1
<1>. QED
  BY <1>2, <1>3, <1>4 DEF PlainSubtopic
-----------------------------------------------------------------------------
(* Topics and filters. *)

\* A topic or filter that names just one channel names it in its second level.
LEMMA ChannelLevel ==
  ASSUME NEW F \in Seq(Seq(STRING)), NEW c, parseTopic(F) = << <<c>> >>
  PROVE  Len(F) >= 3 /\ F[2] = <<c>>
<1>1. Len(F) \in Nat
  BY LenProperties
<1>2. \A w : Ends(F, w) \subseteq 3..Len(F)
  BY DEF Ends
<1>3. PICK S : S # {} /\ S \subseteq 3..Len(F) /\ parseTopic(F) = SubSeq(F, 2, Min(S) - 1)
  <2>1. CASE Ends(F, "control") # {}
    BY <1>2, <2>1 DEF parseTopic, NoChannel
  <2>2. CASE Ends(F, "control") = {}
    BY <1>2, <2>2 DEF parseTopic, NoChannel
  <2>. QED
    BY <2>1, <2>2
<1>4. Min(S) \in 3..Len(F)
  <2>1. S \subseteq Nat /\ S # {}
    BY <1>1, <1>3
  <2>2. Min(S) \in S
    BY <2>1, MinOfNats
  <2>. QED
    BY <1>3, <2>2
<1>5. PICK n : n \in 2..Len(F) /\ parseTopic(F) = SubSeq(F, 2, n)
  <2>1. Min(S) - 1 \in 2..Len(F)
    BY <1>1, <1>4
  <2>. QED
    BY <1>3, <2>1
<1>6. \A i \in 2..n : F[i] \in Seq(STRING)
  <2>1. \A i \in 1..Len(F) : F[i] \in Seq(STRING)
    BY ElementOfSeq
  <2>. QED
    BY <1>1, <1>5, <2>1
<1>7. \A i \in 1..n - 2 + 1 : SubSeq(F, 2, n)[i] = F[2 + i - 1]
  BY <1>1, <1>5, <1>6, SubSeqProperties
<1>8. SubSeq(F, 2, n)[1] = F[2] /\ Len(F) >= 3
  BY <1>1, <1>4, <1>5, <1>7
<1>9. << <<c>> >>[1] = <<c>>
  OBVIOUS
<1>10. SubSeq(F, 2, n) = << <<c>> >>
  BY <1>5
<1>. QED
  BY <1>8, <1>9, <1>10, Zenon

\* Such a filter matches only topics of that channel.
LEMMA MatchesChannel ==
  ASSUME NEW F \in Seq(Seq(STRING)), NEW c \in ChanIds, parseTopic(F) = << <<c>> >>,
         NEW L, Matches(F, L)
  PROVE  L[2] = <<c>>
<1>1. Len(F) >= 3 /\ F[2] = <<c>> /\ Len(F) \in Nat
  BY ChannelLevel, LenProperties
<1>2. F[2] # <<"+">>
  BY <1>1, MqttAssumption
<1>3. \E n \in {Len(F) - 1, Len(F)} : \A i \in 1..n : F[i] = L[i] \/ F[i] = <<"+">>
  BY DEF Matches
<1>. QED
  BY <1>1, <1>2, <1>3
-----------------------------------------------------------------------------
(* What steps leave alone. *)

LogGrows == wasKey \subseteq wasKey' /\ wasConn \subseteq wasConn'

\* A connection never goes back to "new", and its key is that of its CONNECT.
Onward ==
  \A x \in Clients : state[x] # "new" => state'[x] # "new" /\ cred'[x] = cred[x]

\* Steps that leave the connections alone.
LEMMA ConnKept ==
  ASSUME ConnOK, LogGrows, UNCHANGED <<state, cred, client, subs>>
  PROVE  ConnOK'
BY DEF ConnOK, LogGrows, FilterGranted, MayIdentify, MayAccess

\* The requests that are left, of connections that are as they were.
LEMMA CallsKept ==
  ASSUME CallsOK, calls' \subseteq calls,
         \A r \in calls' : state'[r.from] \in {"up", "closed"} /\ cred'[r.from] = cred[r.from]
  PROVE  CallsOK'
BY DEF CallsOK, CallOK

\* Steps that publish and deliver nothing.
LEMMA HistKept ==
  ASSUME HistOK, LogGrows, Onward, UNCHANGED <<out, got>>
  PROVE  HistOK'
<1>1. \A b \in out : b.by \in Clients /\ state'[b.by] # "new" /\ cred'[b.by] = cred[b.by]
  BY DEF HistOK, Onward
<1>2. \A x \in Clients : state'[x] = "new" => got[x] = {}
  BY DEF HistOK, Onward
<1>3. PublishedWasAuthorised'
  BY <1>1 DEF HistOK, PublishedWasAuthorised, LogGrows, MayIdentify, MayAccess
<1>4. DeliveryWasAuthorised'
  <2>. SUFFICES ASSUME NEW x \in Clients, NEW p \in got[x]
                PROVE  \E c \in ChanIds, t \in ThingIds :
                         p.topic[2] = <<c>> /\ MayAccess(cred[x], c, t)'
    BY DEF DeliveryWasAuthorised
  <2>1. cred'[x] = cred[x]
    BY DEF HistOK, Onward
  <2>2. PICK c \in ChanIds, t \in ThingIds : p.topic[2] = <<c>> /\ MayAccess(cred[x], c, t)
    BY DEF HistOK, DeliveryWasAuthorised
  <2>. QED
    BY <2>1, <2>2 DEF LogGrows, MayAccess
<1>. QED
  BY <1>1, <1>2, <1>3, <1>4 DEF HistOK

\* Nothing new is on its way.
LEMMA OnceKept ==
  ASSUME OnceOK, UNCHANGED <<got, used, dups>>,
         Pending' \subseteq Pending, Foreign' \subseteq Foreign, outbox' \subseteq outbox
  PROVE  OnceOK'
BY DEF OnceOK, DeliveredOnce

\* Connections come or go only where the stream says so.
LEMMA StreamKept ==
  ASSUME StreamOK, UNCHANGED <<stream, unsent>>, \A t \in ThingIds : Present(t)' \subseteq Present(t),
         {x \in Clients : state'[x] \in {"accepted", "up"}}
           \subseteq {x \in Clients : state[x] \in {"accepted", "up"}}
  PROVE  StreamOK'
<1>1. IsFiniteSet({x \in Clients : state'[x] \in {"accepted", "up"}})
  BY FS_Subset DEF StreamOK
<1>2. \A t \in ThingIds : /\ Cardinality(Present(t)) \in Nat /\ Cardinality(Present(t)') \in Nat
                          /\ Cardinality(Present(t)') <= Cardinality(Present(t))
  <2>. TAKE t \in ThingIds
  <2>1. IsFiniteSet(Present(t))
    <3>1. Present(t) \subseteq {x \in Clients : state[x] \in {"accepted", "up"}}
      BY DEF Present
    <3>. QED
      BY <3>1, FS_Subset DEF StreamOK
  <2>. QED
    BY <2>1, FS_Subset, FS_CardinalityType
<1>3. StreamKnowsConnected'
  <2>. SUFFICES ASSUME ~unsent, NEW t \in ThingIds
                PROVE  stream[t].connect >= stream[t].disconnect + Cardinality(Present(t)')
    BY DEF StreamKnowsConnected
  <2>1. stream[t].connect >= stream[t].disconnect + Cardinality(Present(t))
    BY DEF StreamOK, StreamKnowsConnected
  <2>2. stream[t].connect \in Nat /\ stream[t].disconnect \in Nat
    BY DEF StreamOK
  <2>. QED
    BY <1>2, <2>1, <2>2
<1>. QED
  BY <1>1, <1>3 DEF StreamOK
-----------------------------------------------------------------------------
(* The steps of a connection. *)

\* The state of connections changes, and no message moves.
LEMMA ConnectionStep ==
  ASSUME IInv, ShapeOK', ConnOK', UNCHANGED <<logVars, calls, msgVars>>,
         \A x \in Clients : state[x] \in {"up", "closed"} =>
           state'[x] \in {"up", "closed"} /\ cred'[x] = cred[x],
         Onward, StreamOK'
  PROVE  IInv'
<1>1. CallsOK'
  <2>1. \A r \in calls : state'[r.from] \in {"up", "closed"} /\ cred'[r.from] = cred[r.from]
    BY DEF IInv, CallsOK, CallOK
  <2>. QED
    BY <2>1, CallsKept DEF IInv
<1>2. HistOK'
  BY HistKept DEF IInv, LogGrows, logVars, msgVars
<1>3. OnceOK'
  BY OnceKept DEF IInv, msgVars, Pending, Foreign
<1>. QED
  BY <1>1, <1>2, <1>3 DEF IInv

\* aedes.handle: the key of the CONNECT packet is kept, nothing is granted yet.
LEMMA ConnectInv ==
  ASSUME IInv, NEW x \in Clients, NEW i \in Instances, NEW k \in Keys \cup {None}, Connect(x, i, k)
  PROVE  IInv'
<1>. USE DEF Connect, Set
<1>1. ShapeOK'
  BY DEF IInv, ShapeOK, States, logVars
<1>2. ConnOK'
  <2>1. /\ state'[x] = "identify" /\ subs[x] = {}
        /\ \A y \in Clients : y # x => state'[y] = state[y] /\ cred'[y] = cred[y]
    BY DEF IInv, ShapeOK, ConnOK
  <2>2. UNCHANGED <<wasKey, wasConn, client, subs>>
    BY DEF logVars
  <2>3. \A k0, a, b : /\ FilterGranted(k0, a)' <=> FilterGranted(k0, a)
                     /\ MayIdentify(k0, b)' <=> MayIdentify(k0, b)
    BY <2>2 DEF FilterGranted, MayIdentify, MayAccess
  <2>4. ASSUME NEW y \in Clients, y # x
        PROVE  /\ state'[y] = state[y] /\ cred'[y] = cred[y] /\ client'[y] = client[y] /\ subs'[y] = subs[y]
    BY <2>1, <2>2, <2>4
  <2>5. state'[x] = "identify" /\ subs'[x] = {}
    BY <2>1, <2>2
  <2>. HIDE DEF Connect
  <2>. QED
    BY <2>3, <2>4, <2>5 DEF IInv, ConnOK
<1>3. StreamOK'
  <2>1. \A y \in Clients : state'[y] \in {"accepted", "up"} => state[y] \in {"accepted", "up"}
    BY DEF IInv, ShapeOK
  <2>. QED
    BY <2>1, StreamKept DEF IInv, Present
<1>4. \A y \in Clients : state[y] # "new" => state'[y] = state[y] /\ cred'[y] = cred[y]
  BY DEF IInv, ShapeOK
<1>. QED
  BY <1>1, <1>2, <1>3, <1>4, ConnectionStep DEF Onward

\* acknowledge(err, false), registration, and a connection that leaves early.
LEMMA EarlyInv ==
  ASSUME IInv, NEW x \in Clients, onIdentifyError(x) \/ Register(x) \/ Leave(x)
  PROVE  IInv'
<1>1. PICK s \in States \ {"new", "identify", "closed", "accepted"} :
        /\ state[x] \in {"identify", "left", "accepted"} /\ state' = [state EXCEPT ![x] = s]
        /\ s = "up" => state[x] = "accepted"
        /\ UNCHANGED <<logVars, inst, cred, client, subs, calls, msgVars, stream, unsent>>
  BY DEF onIdentifyError, Register, Leave, Set, States
<1>2. ShapeOK'
  BY <1>1 DEF IInv, ShapeOK, States, logVars
<1>3. ConnOK'
  BY <1>1 DEF IInv, ShapeOK, ConnOK, logVars, FilterGranted, MayIdentify, MayAccess
<1>4. StreamOK'
  <2>1. \A y \in Clients : state'[y] \in {"accepted", "up"} => state[y] \in {"accepted", "up"}
    BY <1>1 DEF IInv, ShapeOK, States
  <2>. QED
    BY <1>1, <2>1, StreamKept DEF IInv, Present
<1>5. \A y \in Clients : /\ state[y] \in {"up", "closed"} => state'[y] = state[y]
                         /\ state[y] # "new" => state'[y] # "new"
                         /\ cred'[y] = cred[y]
  BY <1>1 DEF IInv, ShapeOK
<1>. QED
  BY <1>1, <1>2, <1>3, <1>4, <1>5, ConnectionStep DEF Onward

\* An event that was added is counted, one that was dropped is known as such.
LEMMA EventAdded ==
  ASSUME StreamOK, NEW t \in ThingIds, NEW type \in {"connect", "disconnect"},
         publishConnEvent(t, type)
  PROVE  /\ stream' \in [ThingIds -> [connect : Nat, disconnect : Nat]]
         /\ ~unsent' =>
              /\ ~unsent /\ \A u \in ThingIds : u # t => stream'[u] = stream[u]
              /\ type = "connect" => /\ stream'[t].connect = stream[t].connect + 1
                                     /\ stream'[t].disconnect = stream[t].disconnect
              /\ type = "disconnect" => /\ stream'[t].connect = stream[t].connect
                                        /\ stream'[t].disconnect = stream[t].disconnect + 1
<1>. stream \in [ThingIds -> [connect : Nat, disconnect : Nat]]
  BY DEF StreamOK
<1>1. CASE stream' = [stream EXCEPT ![t][type] = @ + 1] /\ UNCHANGED unsent
  <2>1. CASE type = "connect"
    BY <1>1, <2>1
  <2>2. CASE type = "disconnect"
    BY <1>1, <2>2
  <2>. QED
    BY <2>1, <2>2
<1>2. CASE unsent' = TRUE /\ UNCHANGED stream
  BY <1>2
<1>. QED
  BY <1>1, <1>2 DEF publishConnEvent

\* A connection that becomes present adds a connect event, one that ceases to be
\* present adds a disconnect event.
LEMMA StreamCounts ==
  ASSUME StreamOK, NEW x \in Clients, NEW t \in ThingIds, NEW type \in {"connect", "disconnect"},
         publishConnEvent(t, type),
         \A y \in Clients : y # x => state'[y] = state[y] /\ client'[y] = client[y],
         \/ type = "connect" /\ state'[x] \in {"accepted", "gone"}
              /\ client'[x].thingId = t /\ x \notin Present(t)
         \/ type = "disconnect" /\ state'[x] = "closed" /\ x \in Present(t)
  PROVE  StreamOK'
<1>. DEFINE UpSet == {y \in Clients : state[y] \in {"accepted", "up"}}
<1>1. IsFiniteSet(UpSet')
  <2>1. UpSet' \subseteq UpSet \cup {x}
    OBVIOUS
  <2>2. IsFiniteSet(UpSet)
    BY DEF StreamOK
  <2>. QED
    BY <2>1, <2>2, FS_AddElement, FS_Subset
<1>2. ASSUME NEW u \in ThingIds
      PROVE  IsFiniteSet(Present(u)) /\ IsFiniteSet(Present(u)')
             /\ Cardinality(Present(u)) \in Nat /\ Cardinality(Present(u)') \in Nat
  <2>1. Present(u) \subseteq UpSet /\ Present(u)' \subseteq UpSet'
    BY DEF Present
  <2>2. IsFiniteSet(Present(u)) /\ IsFiniteSet(Present(u)')
    BY <1>1, <2>1, FS_Subset DEF StreamOK
  <2>. QED
    BY <2>2, FS_CardinalityType
<1>3. StreamKnowsConnected'
  <2>. SUFFICES ASSUME ~unsent', NEW u \in ThingIds
                PROVE  stream'[u].connect >= stream'[u].disconnect + Cardinality(Present(u)')
    BY DEF StreamKnowsConnected
  <2>1. /\ stream \in [ThingIds -> [connect : Nat, disconnect : Nat]]
        /\ stream' \in [ThingIds -> [connect : Nat, disconnect : Nat]]
        /\ ~unsent => stream[u].connect >= stream[u].disconnect + Cardinality(Present(u))
    BY EventAdded DEF StreamOK, StreamKnowsConnected
  <2>2. CASE u # t
    <3>1. Present(u)' \subseteq Present(u)
      BY <2>2 DEF Present
    <3>2. Cardinality(Present(u)') <= Cardinality(Present(u))
      BY <1>2, <3>1, FS_Subset
    <3>3. ~unsent /\ stream'[u] = stream[u]
      BY <2>2, EventAdded
    <3>. QED
      BY <1>2, <2>1, <3>2, <3>3
  <2>3. CASE u = t /\ type = "connect"
    <3>1. Present(u)' \subseteq Present(u) \cup {x}
      BY DEF Present
    <3>2. Cardinality(Present(u)') <= Cardinality(Present(u)) + 1
      <4>1. IsFiniteSet(Present(u)) /\ Cardinality(Present(u)) \in Nat /\ Cardinality(Present(u)') \in Nat
        BY <1>2
      <4>. DEFINE P == Present(u)
      <4>. HIDE DEF P
      <4>2. IsFiniteSet(P \cup {x}) /\ Cardinality(P \cup {x}) <= Cardinality(P) + 1
        <5>1. IsFiniteSet(P) /\ Cardinality(P) \in Nat
          BY <4>1 DEF P
        <5>2. /\ IsFiniteSet(P \cup {x})
              /\ Cardinality(P \cup {x}) = IF x \in P THEN Cardinality(P) ELSE Cardinality(P) + 1
          BY <5>1, FS_AddElement, Zenon
        <5>. QED
          BY <5>1, <5>2
      <4>3. Cardinality(Present(u)') <= Cardinality(Present(u) \cup {x})
        BY <3>1, <4>2, FS_Subset DEF P
      <4>4. Cardinality(Present(u) \cup {x}) \in Nat
        BY <4>2, FS_CardinalityType DEF P
      <4>. QED
        BY <4>1, <4>2, <4>3, <4>4 DEF P
    <3>3. ~unsent /\ stream'[u].connect = stream[u].connect + 1 /\ stream'[u].disconnect = stream[u].disconnect
      BY <2>3, EventAdded
    <3>. QED
      BY <1>2, <2>1, <3>2, <3>3
  <2>4. CASE u = t /\ type = "disconnect"
    <3>1. Present(u)' \subseteq Present(u) \ {x} /\ x \in Present(u)
      BY <2>4 DEF Present
    <3>2. /\ Cardinality(Present(u)') <= Cardinality(Present(u) \ {x})
          /\ Cardinality(Present(u) \ {x}) = Cardinality(Present(u)) - 1
      BY <1>2, <3>1, FS_Subset, FS_RemoveElement
    <3>3. ~unsent /\ stream'[u].connect = stream[u].connect /\ stream'[u].disconnect = stream[u].disconnect + 1
      BY <2>4, EventAdded
    <3>. QED
      BY <1>2, <2>1, <3>2, <3>3
  <2>. QED
    BY <2>2, <2>3, <2>4
<1>. QED
  BY <1>1, <1>3, EventAdded DEF StreamOK

\* The key was identified: the client object names its thing.
LEMMA onIdentifyInv ==
  ASSUME IInv, NEW x \in Clients, NEW t \in ThingIds, onIdentify(x, t)
  PROVE  IInv'
<1>. USE DEF onIdentify, Set
<1>1. /\ state[x] \in {"identify", "left"} /\ state'[x] \in {"accepted", "gone"}
      /\ client'[x] = [thingId |-> t, password |-> cred[x]] /\ MayIdentify(cred[x], t)
      /\ \A y \in Clients : y # x => state'[y] = state[y] /\ client'[y] = client[y]
      /\ UNCHANGED <<wasKey, wasConn, cred, subs>>
  BY DEF IInv, ShapeOK, logVars
<1>2. ShapeOK'
  <2>1. state' \in [Clients -> States]
    BY DEF IInv, ShapeOK, States
  <2>2. cred[x] \in Keys \cup {None}
    BY DEF IInv, ShapeOK
  <2>3. client' \in [Clients -> [thingId : ThingIds \cup {None}, password : Keys \cup {None}]]
    BY <2>2 DEF IInv, ShapeOK
  <2>. QED
    BY <1>1, <2>1, <2>3 DEF IInv, ShapeOK
<1>3. ConnOK'
  <2>1. subs[x] = {}
    BY <1>1 DEF IInv, ConnOK
  <2>2. client'[x].thingId = t /\ client'[x].password = cred[x]
    BY <1>1
  <2>. QED
    BY <1>1, <2>1, <2>2 DEF IInv, ConnOK, FilterGranted, MayIdentify, MayAccess
<1>4. StreamOK'
  <2>1. x \notin Present(t) /\ client'[x].thingId = t
    BY <1>1 DEF Present
  <2>2. publishConnEvent(t, "connect")
    OBVIOUS
  <2>. QED
    BY <1>1, <2>1, <2>2, StreamCounts DEF IInv
<1>5. Onward /\ \A y \in Clients : state[y] \in {"up", "closed"} => state'[y] = state[y]
  BY <1>1 DEF Onward
<1>. QED
  BY <1>1, <1>2, <1>3, <1>4, <1>5, ConnectionStep

\* clientDisconnect leaves the connection without password and subscriptions.
LEMMA clientDisconnectConn ==
  ASSUME IInv, NEW x \in Clients, clientDisconnect(x)
  PROVE  /\ ShapeOK' /\ ConnOK' /\ StreamOK' /\ Onward /\ LogGrows
         /\ \A y \in Clients : state[y] \in {"up", "closed"} =>
              state'[y] \in {"up", "closed"} /\ cred'[y] = cred[y]
<1>. USE DEF clientDisconnect, Set
<1>1. /\ state[x] = "up" /\ state'[x] = "closed" /\ subs'[x] = {}
      /\ client'[x].thingId = client[x].thingId /\ client'[x].password = None
      /\ \A y \in Clients : y # x => state'[y] = state[y] /\ client'[y] = client[y] /\ subs'[y] = subs[y]
      /\ UNCHANGED <<wasKey, wasConn, cred>>
  BY DEF IInv, ShapeOK, logVars
<1>2. client[x].thingId \in ThingIds /\ x \in Present(client[x].thingId)
  BY <1>1 DEF IInv, ConnOK, Present
<1>3. ShapeOK'
  <2>1. state' \in [Clients -> States] /\ subs' \in [Clients -> SUBSET Filters]
    BY DEF IInv, ShapeOK, States
  <2>2. client' \in [Clients -> [thingId : ThingIds \cup {None}, password : Keys \cup {None}]]
    BY DEF IInv, ShapeOK
  <2>. QED
    BY <1>1, <2>1, <2>2 DEF IInv, ShapeOK
<1>4. ConnOK'
  BY <1>1 DEF IInv, ConnOK, FilterGranted, MayIdentify, MayAccess
<1>5. StreamOK'
  <2>1. publishConnEvent(client[x].thingId, "disconnect")
    OBVIOUS
  <2>. QED
    BY <1>1, <1>2, <2>1, StreamCounts DEF IInv
<1>. QED
  BY <1>1, <1>3, <1>4, <1>5 DEF Onward, LogGrows

\* A DISCONNECT packet, or the end of a connection without a will.
LEMMA DisconnectInv ==
  ASSUME IInv, NEW x \in Clients, Disconnect(x)
  PROVE  IInv'
<1>1. clientDisconnect(x) /\ UNCHANGED <<logVars, calls, msgVars>>
  BY DEF Disconnect, clientDisconnect
<1>. QED
  BY <1>1, clientDisconnectConn, ConnectionStep

\* UNSUBSCRIBE leaves fewer filters.
LEMMA UnsubscribeInv ==
  ASSUME IInv, NEW x \in Clients, NEW F \in Filters, Unsubscribe(x, F)
  PROVE  IInv'
<1>1. UNCHANGED <<logVars, calls, msgVars, wasKey, wasConn, state, cred, client, stream, unsent>>
  BY DEF Unsubscribe, logVars
<1>2. subs' \in [Clients -> SUBSET Filters] /\ \A y \in Clients : subs'[y] \subseteq subs[y]
  BY DEF Unsubscribe, Set, IInv, ShapeOK
<1>3. ShapeOK' /\ ConnOK' /\ Onward
  BY <1>1, <1>2 DEF IInv, ShapeOK, ConnOK, Onward, FilterGranted, MayIdentify, MayAccess
<1>4. StreamOK'
  BY <1>1, StreamKept DEF IInv, Present
<1>. QED
  BY <1>1, <1>3, <1>4, ConnectionStep
-----------------------------------------------------------------------------
(* The steps of a message. *)

\* A request takes the token from the client object, where the password is
\* missing once the connection has ended.
LEMMA RequestOK ==
  ASSUME IInv, NEW x \in Clients, state[x] \in {"up", "closed"}, NEW kind, NEW m, NEW L,
         kind = "subscribe" => L \in Filters
  PROVE  LET r == Request(x, kind, m, L)
         IN  CallOK(r) /\ r.id = m /\ r.kind = kind
BY DEF Request, CallOK, IInv, ConnOK

\* One request more.
LEMMA CallsGrow ==
  ASSUME IInv, NEW r, CallOK(r), calls' \subseteq calls \cup {r},
         \A x \in Clients : state[x] \in {"up", "closed"} =>
           state'[x] \in {"up", "closed"} /\ cred'[x] = cred[x]
  PROVE  CallsOK'
BY DEF IInv, CallsOK, CallOK

\* A message that there was not before is in one place only.
LEMMA OnceNew ==
  ASSUME OnceOK, NEW m, m \notin used, used' = used \cup {m}, UNCHANGED <<got, dups, outbox>>,
         NEW d, d.id = m,
         \/ Pending' \subseteq Pending \cup {d} /\ Foreign' \subseteq Foreign
         \/ Pending' \subseteq Pending /\ Foreign' \subseteq Foreign \cup {d}
  PROVE  OnceOK'
<1>1. CASE Pending' \subseteq Pending \cup {d} /\ Foreign' \subseteq Foreign
  BY <1>1 DEF OnceOK, DeliveredOnce
<1>2. CASE Pending' \subseteq Pending /\ Foreign' \subseteq Foreign \cup {d}
  BY <1>2 DEF OnceOK, DeliveredOnce
<1>. QED
  BY <1>1, <1>2

\* A message that moves on to the broker is no longer where it was.
LEMMA OnceMoved ==
  ASSUME OnceOK, UNCHANGED <<got, used, dups>>, Pending' \subseteq Pending, Foreign' \subseteq Foreign,
         NEW d \in Pending \cup Foreign, d \notin Pending' \cup Foreign',
         NEW p, p.id = d.id, outbox' \subseteq outbox \cup {p}
  PROVE  OnceOK'
<1>1. CASE d \in Pending
  BY <1>1 DEF OnceOK, DeliveredOnce
<1>2. CASE d \in Foreign
  BY <1>2 DEF OnceOK, DeliveredOnce
<1>. QED
  BY <1>1, <1>2

\* The request of a publish, if the topic names a channel.
LEMMA PublishCallOK ==
  ASSUME IInv, NEW x \in Clients, state[x] \in {"up", "closed"}, NEW m, NEW L
  PROVE  \E r : CallOK(r) /\ r.id = m /\ PublishCall(x, m, L) \subseteq {r}
<1>1. CallOK(Request(x, "publish", m, L)) /\ Request(x, "publish", m, L).id = m
  BY RequestOK
<1>. QED
  BY <1>1 DEF PublishCall

\* A PUBLISH packet.
LEMMA authorizePublishInv ==
  ASSUME IInv, NEW x \in Clients, NEW m, NEW L, authorizePublish(x, m, L)
  PROVE  IInv'
<1>. USE DEF authorizePublish
<1>1. PICK r : CallOK(r) /\ r.id = m /\ PublishCall(x, m, L) \subseteq {r}
  BY PublishCallOK
<1>2. UNCHANGED <<wasKey, wasConn, state, cred, client, subs, bus, outbox, got, out, dups, stream, unsent>>
  BY DEF logVars, connVars
<1>3. ShapeOK' /\ ConnOK' /\ HistOK' /\ StreamOK'
  BY <1>2, ConnKept, HistKept, StreamKept DEF IInv, ShapeOK, LogGrows, Onward, Present
<1>4. CallsOK'
  BY <1>1, <1>2, CallsGrow
<1>5. OnceOK'
  <2>1. Pending' \subseteq Pending \cup {r} /\ Foreign' = Foreign
    BY <1>1, <1>2 DEF Pending, Foreign
  <2>. QED
    BY <1>1, <1>2, <2>1, OnceNew DEF IInv
<1>. QED
  BY <1>3, <1>4, <1>5 DEF IInv

\* The will of a connection that ends is asked for with the key it had.
LEMMA DisconnectWithWillInv ==
  ASSUME IInv, NEW x \in Clients, NEW m, NEW L, DisconnectWithWill(x, m, L)
  PROVE  IInv'
<1>. USE DEF DisconnectWithWill
<1>1. PICK r : CallOK(r) /\ r.id = m /\ PublishCall(x, m, L) \subseteq {r}
  BY PublishCallOK DEF clientDisconnect
<1>2. /\ ShapeOK' /\ ConnOK' /\ StreamOK' /\ Onward /\ LogGrows
      /\ \A y \in Clients : state[y] \in {"up", "closed"} =>
           state'[y] \in {"up", "closed"} /\ cred'[y] = cred[y]
  BY clientDisconnectConn
<1>3. CallsOK' /\ HistOK'
  BY <1>1, <1>2, CallsGrow, HistKept DEF IInv
<1>4. OnceOK'
  <2>1. Pending' \subseteq Pending \cup {r} /\ Foreign' = Foreign
    BY <1>1 DEF Pending, Foreign
  <2>. QED
    BY <1>1, <2>1, OnceNew DEF IInv
<1>. QED
  BY <1>2, <1>3, <1>4 DEF IInv

\* A SUBSCRIBE packet.
LEMMA authorizeSubscribeInv ==
  ASSUME IInv, NEW x \in Clients, NEW F \in Filters, authorizeSubscribe(x, F)
  PROVE  IInv'
<1>. USE DEF authorizeSubscribe
<1>1. PICK r : CallOK(r) /\ r.kind = "subscribe" /\ calls' = calls \cup {r}
  BY RequestOK
<1>2. UNCHANGED <<wasKey, wasConn, state, cred, client, subs, bus, outbox, got, used, out, dups, stream, unsent>>
  BY DEF logVars, connVars, msgVars
<1>3. ShapeOK' /\ ConnOK' /\ HistOK' /\ StreamOK'
  BY <1>2, ConnKept, HistKept, StreamKept DEF IInv, ShapeOK, LogGrows, Onward, Present
<1>4. CallsOK'
  BY <1>1, <1>2, CallsGrow
<1>5. OnceOK'
  <2>1. Pending' = Pending /\ Foreign' = Foreign
    BY <1>1, <1>2 DEF Pending, Foreign
  <2>. QED
    BY <1>2, <2>1, OnceKept DEF IInv
<1>. QED
  BY <1>3, <1>4, <1>5 DEF IInv

\* What things grants, it grants to the key of the connection that asked.
LEMMA GrantedToKey ==
  ASSUME IInv, NEW r \in calls, Granted(r)
  PROVE  /\ r.from \in Clients /\ state[r.from] \in {"up", "closed"} /\ r.live
         /\ \E c \in ChanIds, t \in ThingIds :
              r.chan = << <<c>> >> /\ MayAccess(cred[r.from], c, t)
<1>1. CallOK(r)
  BY DEF IInv, CallsOK
<1>2. PICK t \in ThingIds, c \in ChanIds : r.chan = << <<c>> >> /\ MayAccess(r.token, c, t)
  BY DEF Granted
<1>3. r.token \in Keys /\ r.token # None
  BY <1>2, MqttAssumption DEF MayAccess, IInv, ShapeOK
<1>. QED
  BY <1>1, <1>2, <1>3 DEF CallOK

\* onAuthorize of a publish takes the publisher from the connection, which was
\* up when it asked: its thing is one of the key.
LEMMA onPublishGrantedInv ==
  ASSUME IInv, NEW r \in calls, onPublishGranted(r)
  PROVE  IInv'
<1>. USE DEF onPublishGranted
<1>1. UNCHANGED <<wasKey, wasConn, state, cred, client, subs, got, used, dups, stream, unsent>>
  BY DEF logVars, connVars
<1>2. ShapeOK' /\ ConnOK' /\ StreamOK'
  BY <1>1, ConnKept, StreamKept DEF IInv, ShapeOK, LogGrows, Present
<1>3. CallsOK'
  <2>1. calls' \subseteq calls
    OBVIOUS
  <2>2. \A q \in calls : state[q.from] \in {"up", "closed"}
    BY DEF IInv, CallsOK, CallOK
  <2>. QED
    BY <1>1, <2>1, <2>2, CallsKept DEF IInv
<1>4. HistOK'
  <2>. DEFINE b == Message(r)
  <2>1. /\ b.by = r.from /\ b.live = r.live /\ b.publisher = client[r.from].thingId
        /\ b.channel = r.chan[1][1]
    BY DEF Message
  <2>. HIDE DEF b
  <2>2. b.by \in Clients /\ state[b.by] # "new" /\ b.live /\ MayIdentify(cred[b.by], b.publisher)
    BY <2>1, GrantedToKey DEF IInv, ConnOK
  <2>3. \E t \in ThingIds : MayAccess(cred[b.by], b.channel, t)
    <3>1. PICK c \in ChanIds, t \in ThingIds :
            r.chan = << <<c>> >> /\ MayAccess(cred[r.from], c, t)
      BY GrantedToKey
    <3>2. b.channel = c
      BY <2>1, <3>1
    <3>. QED
      BY <2>1, <3>1, <3>2
  <2>4. out' = out \cup {b}
    BY DEF b
  <2>5. PublishedWasAuthorised'
    BY <1>1, <2>2, <2>3, <2>4 DEF IInv, HistOK, PublishedWasAuthorised, MayIdentify, MayAccess
  <2>6. DeliveryWasAuthorised'
    BY <1>1 DEF IInv, HistOK, DeliveryWasAuthorised, MayAccess
  <2>. QED
    BY <1>1, <2>2, <2>4, <2>5, <2>6 DEF IInv, HistOK
<1>5. OnceOK'
  <2>1. Message(r).protocol = "mqtt"
    BY DEF Message
  <2>2. Foreign' = Foreign /\ Pending' = Pending \ {r} /\ r \in Pending
    BY <2>1 DEF Foreign, Pending
  <2>3. r \notin Foreign
    BY <2>2 DEF IInv, OnceOK
  <2>. DEFINE p == [inst |-> inst[r.from], id |-> r.id, topic |-> r.topic]
  <2>4. p.id = r.id /\ outbox' = outbox \cup {p}
    OBVIOUS
  <2>. HIDE DEF p
  <2>. QED
    BY <1>1, <2>2, <2>3, <2>4, OnceMoved DEF IInv
<1>. QED
  BY <1>2, <1>3, <1>4, <1>5 DEF IInv

\* onAuthorize of a subscribe: the filter names a channel the key had access to.
LEMMA onSubscribeGrantedInv ==
  ASSUME IInv, NEW r \in calls, onSubscribeGranted(r)
  PROVE  IInv'
<1>. USE DEF onSubscribeGranted
<1>1. /\ UNCHANGED <<wasKey, wasConn, state, cred, client, bus, outbox, got, used, out, dups, stream, unsent>>
      /\ calls' \subseteq calls
  BY DEF logVars, msgVars
<1>2. r.from \in Clients /\ r.topic \in Filters /\ FilterGranted(cred[r.from], r.topic)
  BY GrantedToKey DEF IInv, CallsOK, CallOK, FilterGranted
<1>3. \/ state[r.from] = "up" /\ subs' = [subs EXCEPT ![r.from] = subs[r.from] \cup {r.topic}]
      \/ UNCHANGED subs
  BY DEF Subscribed, Set
<1>4. ShapeOK'
  BY <1>1, <1>2, <1>3 DEF IInv, ShapeOK
<1>5. ConnOK'
  <2>1. ASSUME NEW x \in Clients
        PROVE  (state[x] # "up" => subs'[x] = {}) /\ \A F \in subs'[x] : FilterGranted(cred[x], F)
    BY <1>2, <1>3 DEF IInv, ShapeOK, ConnOK
  <2>. QED
    BY <1>1, <2>1 DEF IInv, ConnOK, MayIdentify, MayAccess, FilterGranted
<1>6. StreamOK' /\ HistOK'
  BY <1>1, StreamKept, HistKept DEF IInv, Present, LogGrows, Onward
<1>7. CallsOK'
  <2>1. \A q \in calls : state[q.from] \in {"up", "closed"}
    BY DEF IInv, CallsOK, CallOK
  <2>. QED
    BY <1>1, <2>1, CallsKept DEF IInv
<1>8. OnceOK'
  BY <1>1, OnceKept DEF IInv, Pending, Foreign
<1>. QED
  BY <1>4, <1>5, <1>6, <1>7, <1>8 DEF IInv

\* Steps that at most drop requests and messages, or teach things something.
LEMMA QuietInv ==
  ASSUME IInv, ShapeOK', LogGrows, calls' \subseteq calls, bus' \subseteq bus, outbox' \subseteq outbox,
         UNCHANGED <<state, cred, client, subs, got, used, out, dups, stream, unsent>>
  PROVE  IInv'
<1>1. ConnOK' /\ HistOK' /\ StreamOK'
  BY ConnKept, HistKept, StreamKept DEF IInv, Onward, Present
<1>2. CallsOK'
  <2>1. \A q \in calls : state[q.from] \in {"up", "closed"}
    BY DEF IInv, CallsOK, CallOK
  <2>. QED
    BY <2>1, CallsKept DEF IInv
<1>3. OnceOK'
  BY OnceKept DEF IInv, Pending, Foreign
<1>. QED
  BY <1>1, <1>2, <1>3 DEF IInv

\* Things refuses a request.
LEMMA onRefusedInv ==
  ASSUME IInv, NEW r \in calls, onRefused(r)
  PROVE  IInv'
<1>1. /\ UNCHANGED <<wasKey, wasConn, state, cred, client, subs, bus, outbox, got, used, out, dups, stream, unsent>>
      /\ calls' \subseteq calls
  BY DEF onRefused, logVars, connVars, msgVars
<1>2. ShapeOK' /\ LogGrows
  BY <1>1 DEF IInv, ShapeOK, LogGrows
<1>. QED
  BY <1>1, <1>2, QuietInv

\* Things learns keys and connections.
LEMMA GrowInv ==
  ASSUME IInv, Grow
  PROVE  IInv'
<1>1. UNCHANGED <<state, cred, client, subs, calls, bus, outbox, got, used, out, dups, stream, unsent>>
  BY DEF Grow, connVars, msgVars
<1>2. LogGrows /\ wasKey' \subseteq Keys \X ThingIds /\ wasConn' \subseteq ChanIds \X ThingIds
  BY DEF Grow, LearnKeys, LearnConns, LogGrows, IInv, ShapeOK
<1>3. ShapeOK'
  BY <1>1, <1>2 DEF IInv, ShapeOK
<1>. QED
  BY <1>1, <1>2, <1>3, QuietInv

\* Another adapter publishes.
LEMMA OtherPublishInv ==
  ASSUME IInv, NEW m, NEW c, NEW st, NEW ct, OtherPublish(m, c, st, ct)
  PROVE  IInv'
<1>1. UNCHANGED <<wasKey, wasConn, state, cred, client, subs, calls, outbox, got, out, dups, stream, unsent>>
  BY DEF OtherPublish, logVars, connVars
<1>2. ShapeOK' /\ ConnOK' /\ HistOK' /\ StreamOK'
  BY <1>1, ConnKept, HistKept, StreamKept DEF IInv, ShapeOK, LogGrows, Onward, Present
<1>3. CallsOK'
  BY <1>1 DEF IInv, CallsOK, CallOK
<1>4. OnceOK'
  <2>1. PICK b : b.id = m /\ bus' = bus \cup {b}
    BY DEF OtherPublish
  <2>2. Pending' = Pending /\ Foreign' \subseteq Foreign \cup {b}
    BY <1>1, <2>1 DEF Pending, Foreign
  <2>3. m \notin used /\ used' = used \cup {m}
    BY DEF OtherPublish
  <2>. QED
    BY <1>1, <2>1, <2>2, <2>3, OnceNew DEF IInv
<1>. QED
  BY <1>2, <1>3, <1>4 DEF IInv

\* A member of the queue group passes on what did not come over MQTT.
LEMMA natsMessageInv ==
  ASSUME IInv, NEW i \in Instances, NEW b \in bus, natsMessage(i, b)
  PROVE  IInv'
<1>1. /\ UNCHANGED <<wasKey, wasConn, state, cred, client, subs, calls, got, used, out, dups, stream, unsent>>
      /\ bus' = bus \ {b} /\ outbox' = outbox \cup Forwarded(i, b)
  BY DEF natsMessage, logVars, connVars
<1>2. CASE b.protocol = "mqtt"
  <2>1. outbox' = outbox /\ bus' \subseteq bus
    BY <1>1, <1>2 DEF Forwarded
  <2>2. ShapeOK' /\ LogGrows
    BY <1>1 DEF IInv, ShapeOK, LogGrows
  <2>. QED
    BY <1>1, <2>1, <2>2, QuietInv
<1>3. CASE b.protocol # "mqtt"
  <2>1. ShapeOK' /\ ConnOK' /\ HistOK' /\ StreamOK'
    BY <1>1, ConnKept, HistKept, StreamKept DEF IInv, ShapeOK, LogGrows, Onward, Present
  <2>2. CallsOK'
    BY <1>1 DEF IInv, CallsOK, CallOK
  <2>3. OnceOK'
    <3>1. PICK p : p.id = b.id /\ outbox' = outbox \cup {p}
      BY <1>1, <1>3 DEF Forwarded, Packet
    <3>2. Pending' = Pending /\ Foreign' = Foreign \ {b} /\ b \in Foreign
      BY <1>1, <1>3 DEF Pending, Foreign
    <3>3. b \notin Pending
      BY <3>2 DEF IInv, OnceOK
    <3>. QED
      BY <1>1, <3>1, <3>2, <3>3, OnceMoved DEF IInv
  <2>. QED
    BY <2>1, <2>2, <2>3 DEF IInv
<1>. QED
  BY <1>2, <1>3

\* A packet goes to connections whose filters were granted for its channel, and
\* to none that has it.
LEMMA EmitInv ==
  ASSUME IInv, NEW p \in outbox, Emit(p)
  PROVE  IInv'
<1>1. /\ UNCHANGED <<wasKey, wasConn, state, cred, client, subs, calls, bus, used, out, stream, unsent>>
      /\ outbox' = outbox \ {p}
  BY DEF Emit, logVars, connVars
<1>2. \A x \in Clients : got'[x] = got[x] \/ (Listening(x, p.topic) /\ got'[x] = got[x] \cup {p})
  BY DEF Emit
<1>3. ShapeOK' /\ ConnOK' /\ StreamOK'
  BY <1>1, ConnKept, StreamKept DEF IInv, ShapeOK, LogGrows, Present
<1>4. CallsOK'
  BY <1>1 DEF IInv, CallsOK, CallOK
<1>5. HistOK'
  <2>1. ASSUME NEW x \in Clients, Listening(x, p.topic)
        PROVE  state[x] = "up" /\ \E c \in ChanIds, t \in ThingIds :
                 p.topic[2] = <<c>> /\ MayAccess(cred[x], c, t)
    <3>1. PICK F \in subs[x] : state[x] = "up" /\ Matches(F, p.topic)
      BY <2>1 DEF Listening
    <3>2. F \in Seq(Seq(STRING))
      BY MqttAssumption DEF IInv, ShapeOK
    <3>3. PICK c \in ChanIds, t \in ThingIds : parseTopic(F) = << <<c>> >> /\ MayAccess(cred[x], c, t)
      BY DEF IInv, ConnOK, FilterGranted
    <3>4. p.topic[2] = <<c>>
      BY <3>1, <3>2, <3>3, MatchesChannel
    <3>. QED
      BY <3>1, <3>3, <3>4
  <2>2. DeliveryWasAuthorised'
    <3>. SUFFICES ASSUME NEW x \in Clients, NEW q \in got'[x]
                  PROVE  \E c \in ChanIds, t \in ThingIds :
                           q.topic[2] = <<c>> /\ MayAccess(cred[x], c, t)
      BY <1>1 DEF DeliveryWasAuthorised, MayAccess
    <3>1. q \in got[x] \/ (q = p /\ Listening(x, p.topic))
      BY <1>2
    <3>. QED
      BY <2>1, <3>1 DEF IInv, HistOK, DeliveryWasAuthorised
  <2>3. PublishedWasAuthorised'
    BY <1>1 DEF IInv, HistOK, PublishedWasAuthorised, MayIdentify, MayAccess
  <2>. QED
    BY <1>1, <1>2, <2>1, <2>2, <2>3 DEF IInv, HistOK
<1>6. OnceOK'
  <2>1. \A x \in Clients : p.id \notin Ids(got[x])
    BY DEF Ids, IInv, OnceOK
  <2>2. dups' = dups
    BY <2>1 DEF Emit
  <2>3. Pending' = Pending /\ Foreign' = Foreign
    BY <1>1 DEF Pending, Foreign
  <2>4. /\ p.id \in used /\ \A e \in Pending \cup Foreign : e.id # p.id
        /\ \A e \in outbox' : e \in outbox /\ e.id # p.id
    BY <1>1 DEF IInv, OnceOK
  <2>5. \A x \in Clients : \A g \in got'[x] : g \in got[x] \/ g = p
    BY <1>2
  <2>6. \A x \in Clients : \A g \in got'[x] :
          g.id \in used' /\ \A e \in Pending' \cup Foreign' \cup outbox' : g.id # e.id
    BY <1>1, <2>3, <2>4, <2>5 DEF IInv, OnceOK
  <2>. QED
    BY <1>1, <2>2, <2>3, <2>4, <2>6 DEF IInv, OnceOK, DeliveredOnce
<1>. QED
  BY <1>3, <1>4, <1>5, <1>6 DEF IInv

\* An instance dies with its connections and all it has accepted.
LEMMA CrashInv ==
  ASSUME IInv, NEW i \in Instances, Crash(i)
  PROVE  IInv'
<1>1. /\ UNCHANGED <<wasKey, wasConn, cred, got, used, out, dups, stream, unsent>>
      /\ calls' \subseteq calls /\ bus' \subseteq bus /\ outbox' \subseteq outbox
  BY DEF Crash, logVars
<1>2. /\ state' = [x \in Clients |-> IF inst[x] = i THEN "gone" ELSE state[x]]
      /\ client' = [x \in Clients |-> IF inst[x] = i THEN Nobody ELSE client[x]]
      /\ subs' = [x \in Clients |-> IF inst[x] = i THEN {} ELSE subs[x]]
      /\ \A r \in calls' : r.from \in Clients => inst[r.from] # i
  BY DEF Crash
<1>3. ShapeOK'
  <2>1. Nobody \in [thingId : ThingIds \cup {None}, password : Keys \cup {None}]
    BY DEF Nobody
  <2>. QED
    BY <1>1, <1>2, <2>1 DEF IInv, ShapeOK, States
<1>4. ConnOK'
  <2>1. \A x \in Clients : \/ state'[x] = "gone" /\ subs'[x] = {}
                           \/ state'[x] = state[x] /\ client'[x] = client[x] /\ subs'[x] = subs[x]
    BY <1>2
  <2>. QED
    BY <1>1, <2>1 DEF IInv, ConnOK, FilterGranted, MayIdentify, MayAccess
<1>5. CallsOK'
  <2>1. \A r \in calls' : state'[r.from] \in {"up", "closed"} /\ cred'[r.from] = cred[r.from]
    BY <1>1, <1>2 DEF IInv, CallsOK, CallOK
  <2>. QED
    BY <1>1, <2>1, CallsKept DEF IInv
<1>6. HistOK'
  <2>1. LogGrows /\ Onward
    BY <1>1, <1>2 DEF LogGrows, Onward
  <2>. QED
    BY <1>1, <2>1, HistKept DEF IInv
<1>7. OnceOK'
  BY <1>1, OnceKept DEF IInv, Pending, Foreign
<1>8. StreamOK'
  <2>1. \A x \in Clients : state'[x] \in {"accepted", "up"} => state'[x] = state[x] /\ client'[x] = client[x]
    BY <1>2
  <2>. QED
    BY <1>1, <2>1, StreamKept DEF IInv, Present
<1>. QED
  BY <1>3, <1>4, <1>5, <1>6, <1>7, <1>8 DEF IInv
-----------------------------------------------------------------------------
\* The invariant holds before anybody has connected.
LEMMA InitInv ==
  Init => IInv
<1>. SUFFICES ASSUME Init PROVE IInv
  OBVIOUS
<1>1. ShapeOK
  BY DEF Init, LogInit, ShapeOK, States, Nobody
<1>2. ConnOK /\ CallsOK /\ HistOK /\ OnceOK
  BY DEF Init, LogInit, ConnOK, CallsOK, HistOK, PublishedWasAuthorised, DeliveryWasAuthorised, OnceOK,
         DeliveredOnce, Pending, Foreign
<1>3. StreamOK
  <2>1. {x \in Clients : state[x] \in {"accepted", "up"}} = {} /\ \A t \in ThingIds : Present(t) = {}
    BY DEF Init, Present
  <2>2. IsFiniteSet({}) /\ Cardinality({}) = 0
    BY FS_EmptySet
  <2>3. /\ stream \in [ThingIds -> [connect : Nat, disconnect : Nat]]
        /\ \A t \in ThingIds : stream[t].connect = 0 /\ stream[t].disconnect = 0
    BY DEF Init
  <2>4. \A t \in ThingIds : Cardinality(Present(t)) = 0
    BY <2>1, <2>2, Zenon
  <2>5. StreamKnowsConnected
    BY <2>3, <2>4 DEF StreamKnowsConnected
  <2>. QED
    BY <2>1, <2>2, <2>3, <2>5, Zenon DEF StreamOK
<1>. QED
  BY <1>1, <1>2, <1>3 DEF IInv

\* Every step of the adapters keeps the invariant.
LEMMA NextInv ==
  IInv /\ [Next]_vars => IInv'
<1>. SUFFICES ASSUME IInv, [Next]_vars PROVE IInv'
  OBVIOUS
<1>1. CASE UNCHANGED vars
  <2>1. UNCHANGED <<wasKey, wasConn, state, cred, client, subs, calls, bus, outbox, got, used, out, dups, stream, unsent>>
    BY <1>1 DEF vars, logVars, connVars, msgVars
  <2>2. ShapeOK' /\ LogGrows
    BY <2>1 DEF IInv, ShapeOK, LogGrows
  <2>. QED
    BY <2>1, <2>2, QuietInv
<1>2. ASSUME NEW x \in Clients, Connecting(x) PROVE IInv'
  BY <1>2, ConnectInv, onIdentifyInv, EarlyInv DEF Connecting
<1>3. ASSUME NEW x \in Clients, Using(x) PROVE IInv'
  BY <1>3, authorizePublishInv, DisconnectWithWillInv, authorizeSubscribeInv, UnsubscribeInv,
     DisconnectInv DEF Using
<1>4. ASSUME NEW r \in calls, Answered(r) PROVE IInv'
  BY <1>4, onPublishGrantedInv, onSubscribeGrantedInv, onRefusedInv DEF Answered
<1>5. ASSUME Other \/ Handle PROVE IInv'
  BY <1>5, OtherPublishInv, natsMessageInv DEF Other, Handle
<1>6. ASSUME NEW p \in outbox, Emit(p) PROVE IInv'
  BY <1>6, EmitInv
<1>7. ASSUME NEW i \in Instances, Crash(i) PROVE IInv'
  BY <1>7, CrashInv
<1>8. ASSUME Grow PROVE IInv'
  BY <1>8, GrowInv
<1>. QED
  BY <1>1, <1>2, <1>3, <1>4, <1>5, <1>6, <1>7, <1>8 DEF Next

\* In every reachable state the client objects match their connections, and every
\* message is in one place.
THEOREM Inductive == Spec => []IInv
BY InitInv, NextInv, PTL DEF Spec

\* An adapter publishes only for a client that was connected and whose key had
\* access, in the name of a thing of that key (onAuthorize).
THEOREM PublishesOnlyAuthorised == Spec => []PublishedWasAuthorised
<1>1. IInv => PublishedWasAuthorised
  BY DEF IInv, HistOK
<1>. QED
  BY <1>1, Inductive, PTL

\* A connection receives only packets of channels its key had access to, whatever
\* filters with wildcards it subscribed to (authorizeSubscribe, parseTopic).
THEOREM DeliversOnlyAuthorised == Spec => []DeliveryWasAuthorised
<1>1. IInv => DeliveryWasAuthorised
  BY DEF IInv, HistOK
<1>. QED
  BY <1>1, Inductive, PTL

\* No connection receives a message twice, over NATS, the emitter and any number
\* of instances.
THEOREM NoDuplicates == Spec => []DeliveredOnce
<1>1. IInv => DeliveredOnce
  BY DEF IInv, OnceOK
<1>. QED
  BY <1>1, Inductive, PTL

\* While no event is dropped, the stream counts no connected thing as
\* disconnected (publishConnEvent).
THEOREM StreamIsTrusted == Spec => []StreamKnowsConnected
<1>1. IInv => StreamKnowsConnected
  BY DEF IInv, StreamOK
<1>. QED
  BY <1>1, Inductive, PTL
-----------------------------------------------------------------------------
(* Types, and the messages of the other adapters. *)

\* A connection that has sent its CONNECT is at an instance; a request to publish
\* is about a message.
RestOK ==
  /\ inst \in [Clients -> Instances \cup {None}]
  /\ \A x \in Clients : state[x] # "new" => inst[x] \in Instances
  /\ calls \subseteq Requests /\ \A r \in calls : r.kind = "publish" => r.id \in MsgIds
  /\ bus \subseteq Messages /\ out \subseteq Messages
  /\ outbox \subseteq Packets /\ got \in [Clients -> SUBSET Packets]
  /\ used \subseteq MsgIds /\ lost \subseteq MsgIds /\ dups \subseteq Clients \X MsgIds
  /\ unsent \in BOOLEAN

\* Steps of connections.
LEMMA RestConnection ==
  ASSUME IInv, RestOK, Onward,
         \A x \in Clients : state'[x] # "new" /\ state[x] = "new" => inst'[x] \in Instances,
         \A x \in Clients : inst'[x] = inst[x] \/ inst'[x] \in Instances,
         inst' \in [Clients -> Instances \cup {None}],
         UNCHANGED <<calls, bus, outbox, got, used, out, dups, lost>>, unsent' \in BOOLEAN
  PROVE  RestOK'
<1>1. \A x \in Clients : state'[x] # "new" => inst'[x] \in Instances
  BY DEF RestOK
<1>. QED
  BY <1>1 DEF RestOK

\* A request has its type.
LEMMA RequestType ==
  ASSUME IInv, NEW x \in Clients, NEW kind \in {"publish", "subscribe"},
         NEW m \in MsgIds \cup {None}, NEW L \in Topics \cup Filters
  PROVE  Request(x, kind, m, L) \in Requests /\ Request(x, kind, m, L).id = m
<1>1. L \in Seq(Seq(STRING))
  BY MqttAssumption
<1>2. parseTopic(L) \in Seq(Seq(STRING))
  BY <1>1, parseTopicType
<1>3. client[x].password \in Keys \cup {None}
  BY DEF IInv, ShapeOK
<1>. QED
  BY <1>2, <1>3 DEF Request, Requests

\* So has the request of a publish, if there is one.
LEMMA PublishCallType ==
  ASSUME IInv, NEW x \in Clients, NEW m \in MsgIds, NEW L \in Topics
  PROVE  PublishCall(x, m, L) \subseteq Requests /\ \A r \in PublishCall(x, m, L) : r.id = m
<1>1. Request(x, "publish", m, L) \in Requests /\ Request(x, "publish", m, L).id = m
  BY RequestType
<1>2. PublishCall(x, m, L) \subseteq {Request(x, "publish", m, L)}
  BY DEF PublishCall
<1>. QED
  BY <1>1, <1>2

\* The message of a granted request, with the subtopic and the type its topic has.
LEMMA MessageType ==
  ASSUME IInv, RestOK, NEW r \in calls, r.kind = "publish", Granted(r)
  PROVE  Message(r) \in Messages /\ Message(r).protocol = "mqtt" /\ r.topic \in Seq(Seq(STRING))
<1>1. /\ r \in Requests /\ r.id \in MsgIds /\ r.from \in Clients /\ r.chan = parseTopic(r.topic)
      /\ r.live \in BOOLEAN
  BY DEF RestOK, Requests, IInv, CallsOK, CallOK
<1>2. r.topic \in Seq(Seq(STRING))
  BY <1>1, MqttAssumption DEF Requests
<1>3. PICK c \in ChanIds : r.chan = << <<c>> >>
  BY DEF Granted
<1>4. r.chan[1][1] = c
  BY <1>3
<1>5. r.topic[3] \in Seq(STRING)
  <2>1. Len(r.topic) >= 3
    BY <1>1, <1>2, <1>3, ChannelLevel
  <2>2. Len(r.topic) \in Nat
    BY <1>2, LenProperties
  <2>3. 3 \in 1..Len(r.topic)
    BY <2>1, <2>2
  <2>. QED
    BY <1>2, <2>3, ElementOfSeq
<1>. DEFINE es == Elements(r.topic)
<1>6. Subtopic(es) \in Seq(Seq(STRING)) /\ ContentType(es) \in Seq(STRING)
  BY <1>2, ElementsType, ContentTypeType
<1>7. client[r.from].thingId \in ThingIds \cup {None}
  BY <1>1 DEF IInv, ShapeOK
<1>8. Message(r) = [id |-> r.id, protocol |-> "mqtt", publisher |-> client[r.from].thingId,
       channel |-> c, topic |-> r.topic[3], subtopic |-> Subtopic(es),
       contentType |-> ContentType(es), by |-> r.from, live |-> r.live]
  BY <1>4 DEF Message
<1>. HIDE DEF es
<1>. QED
  BY <1>1, <1>2, <1>5, <1>6, <1>7, <1>8 DEF Messages

\* The packet of a message from NATS.
LEMMA PacketType ==
  ASSUME NEW i \in Instances, NEW b \in Messages
  PROVE  Packet(i, b) \in Packets /\ Packet(i, b).id = b.id
<1>1. /\ b.channel \in STRING /\ b.subtopic \in Seq(Seq(STRING)) /\ b.contentType \in Seq(STRING)
      /\ b.id \in MsgIds
  BY MqttAssumption DEF Messages
<1>2. TopicOf(b.channel, b.subtopic, b.contentType) \in Seq(Seq(STRING))
  BY <1>1, TopicOfType
<1>. QED
  BY <1>1, <1>2 DEF Packet, Packets

\* aedes.handle.
LEMMA ConnectRest ==
  ASSUME IInv, RestOK, NEW x \in Clients, Connecting(x)
  PROVE  RestOK'
<1>1. ASSUME NEW i \in Instances, NEW k \in Keys \cup {None}, Connect(x, i, k) PROVE RestOK'
  <2>1. inst' = [inst EXCEPT ![x] = i] /\ state' = [state EXCEPT ![x] = "identify"] /\ state[x] = "new"
          /\ cred' = [cred EXCEPT ![x] = k]
          /\ UNCHANGED <<calls, bus, outbox, got, used, out, dups, lost, unsent>>
    BY <1>1 DEF Connect, Set, msgVars
  <2>2. Onward
    BY <2>1 DEF IInv, ShapeOK, Onward
  <2>3. inst' \in [Clients -> Instances \cup {None}] /\ \A y \in Clients : inst'[y] = inst[y] \/ inst'[y] \in Instances
    BY <2>1 DEF RestOK
  <2>4. \A y \in Clients : state'[y] # "new" /\ state[y] = "new" => inst'[y] \in Instances
    BY <2>1 DEF RestOK, IInv, ShapeOK
  <2>5. unsent' \in BOOLEAN
    BY <2>1 DEF RestOK
  <2>. QED
    BY <2>1, <2>2, <2>3, <2>4, <2>5, RestConnection
<1>2. ASSUME (\E t \in ThingIds : onIdentify(x, t)) \/ onIdentifyError(x) \/ Register(x) \/ Leave(x)
      PROVE  RestOK'
  <2>1. /\ state[x] # "new" /\ \E s \in States \ {"new"} : state' = [state EXCEPT ![x] = s]
        /\ UNCHANGED <<inst, cred, calls, bus, outbox, got, used, out, dups, lost>>
    BY <1>2 DEF onIdentify, onIdentifyError, Register, Leave, Set, States, msgVars
  <2>2. unsent' \in BOOLEAN
    BY <1>2 DEF onIdentify, publishConnEvent, onIdentifyError, Register, Leave, RestOK
  <2>3. Onward /\ \A y \in Clients : ~(state'[y] # "new" /\ state[y] = "new")
    BY <2>1 DEF IInv, ShapeOK, Onward
  <2>4. inst' \in [Clients -> Instances \cup {None}]
    BY <2>1 DEF RestOK
  <2>. QED
    BY <2>1, <2>2, <2>3, <2>4, RestConnection
<1>. QED
  BY <1>1, <1>2 DEF Connecting

\* What clientDisconnect leaves of the types.
LEMMA clientDisconnectRest ==
  ASSUME IInv, RestOK, NEW x \in Clients, clientDisconnect(x)
  PROVE  /\ inst' = inst /\ unsent' \in BOOLEAN
         /\ \A y \in Clients : state'[y] # "new" => inst[y] \in Instances
<1>1. state[x] = "up" /\ state' = [state EXCEPT ![x] = "closed"] /\ inst' = inst
  BY DEF clientDisconnect, Set
<1>2. unsent' \in BOOLEAN
  BY DEF clientDisconnect, publishConnEvent, RestOK
<1>3. \A y \in Clients : state'[y] # "new" => state[y] # "new"
  BY <1>1 DEF IInv, ShapeOK
<1>. QED
  BY <1>1, <1>2, <1>3 DEF RestOK

\* The handlers of a connection's packets.
LEMMA UsingRest ==
  ASSUME IInv, RestOK, NEW x \in Clients, Using(x)
  PROVE  RestOK'
<1>1. ASSUME NEW m \in MsgIds, NEW L \in Topics, authorizePublish(x, m, L) PROVE RestOK'
  <2>1. /\ used' = used \cup {m} /\ calls' = calls \cup PublishCall(x, m, L)
        /\ UNCHANGED <<state, inst, bus, outbox, got, out, dups, lost, unsent>>
    BY <1>1 DEF authorizePublish, connVars
  <2>. QED
    BY <2>1, PublishCallType DEF RestOK
<1>2. ASSUME NEW m \in MsgIds, NEW L \in Topics, DisconnectWithWill(x, m, L) PROVE RestOK'
  <2>1. /\ used' = used \cup {m} /\ calls' = calls \cup PublishCall(x, m, L) /\ clientDisconnect(x)
        /\ UNCHANGED <<bus, outbox, got, out, dups, lost>>
    BY <1>2 DEF DisconnectWithWill
  <2>2. /\ inst' = inst /\ unsent' \in BOOLEAN
        /\ \A y \in Clients : state'[y] # "new" => inst[y] \in Instances
    BY <2>1, clientDisconnectRest
  <2>. QED
    BY <2>1, <2>2, PublishCallType DEF RestOK
<1>3. ASSUME NEW F \in Filters, authorizeSubscribe(x, F) PROVE RestOK'
  <2>. DEFINE r == Request(x, "subscribe", None, F)
  <2>1. calls' = calls \cup {r} /\ UNCHANGED <<state, inst, bus, outbox, got, used, out, dups, lost, unsent>>
    BY <1>3 DEF authorizeSubscribe, connVars, msgVars
  <2>2. r \in Requests
    BY RequestType
  <2>3. r.kind # "publish"
    BY DEF Request
  <2>. HIDE DEF r
  <2>. QED
    BY <2>1, <2>2, <2>3 DEF RestOK
<1>4. ASSUME NEW F \in Filters, Unsubscribe(x, F) PROVE RestOK'
  BY <1>4 DEF Unsubscribe, msgVars, RestOK
<1>5. ASSUME Disconnect(x) PROVE RestOK'
  <2>1. clientDisconnect(x) /\ UNCHANGED <<calls, bus, outbox, got, used, out, dups, lost>>
    BY <1>5 DEF Disconnect, msgVars
  <2>2. /\ inst' = inst /\ unsent' \in BOOLEAN
        /\ \A y \in Clients : state'[y] # "new" => inst[y] \in Instances
    BY <2>1, clientDisconnectRest
  <2>. QED
    BY <2>1, <2>2 DEF RestOK
<1>. QED
  BY <1>1, <1>2, <1>3, <1>4, <1>5 DEF Using

\* The answers of things.
LEMMA AnsweredRest ==
  ASSUME IInv, RestOK, NEW r \in calls, Answered(r)
  PROVE  RestOK'
<1>1. ASSUME onPublishGranted(r) PROVE RestOK'
  <2>. DEFINE b == Message(r)
              p == [inst |-> inst[r.from], id |-> r.id, topic |-> r.topic]
  <2>1. /\ r.kind = "publish" /\ Granted(r) /\ calls' = calls \ {r}
        /\ out' = out \cup {b} /\ bus' = bus \cup {b} /\ outbox' = outbox \cup {p}
        /\ UNCHANGED <<state, inst, got, used, dups, lost, unsent>>
    BY <1>1 DEF onPublishGranted, connVars
  <2>2. b \in Messages /\ b.protocol = "mqtt" /\ r.topic \in Seq(Seq(STRING))
    BY <2>1, MessageType
  <2>3. p \in Packets
    <3>1. r.from \in Clients /\ inst[r.from] \in Instances /\ r.id \in MsgIds
      BY <2>1 DEF IInv, CallsOK, CallOK, RestOK
    <3>. QED
      BY <2>2, <3>1 DEF Packets
  <2>. HIDE DEF b, p
  <2>. QED
    BY <2>1, <2>2, <2>3 DEF RestOK
<1>2. ASSUME onSubscribeGranted(r) \/ onRefused(r) PROVE RestOK'
  <2>1. calls' = calls \ {r} /\ UNCHANGED <<state, inst, bus, outbox, got, used, out, dups, lost, unsent>>
    BY <1>2 DEF onSubscribeGranted, onRefused, connVars, msgVars
  <2>. QED
    BY <2>1 DEF RestOK
<1>. QED
  BY <1>1, <1>2 DEF Answered

\* Messages from NATS and to the subscribers, and crashes.
LEMMA MessageRest ==
  ASSUME IInv, RestOK,
         Other \/ Handle \/ (\E p \in outbox : Emit(p)) \/ (\E i \in Instances : Crash(i))
  PROVE  RestOK'
<1>1. ASSUME NEW m \in MsgIds, NEW c \in ChanIds, NEW st \in Subtopics, NEW ct \in Types,
             OtherPublish(m, c, st, ct)
      PROVE  RestOK'
  <2>. DEFINE b == [id |-> m, protocol |-> "other", publisher |-> None,
                    channel |-> c, topic |-> <<"messages">>, subtopic |-> st,
                    contentType |-> ct, by |-> None, live |-> FALSE]
  <2>1. /\ used' = used \cup {m} /\ bus' = bus \cup {b}
        /\ UNCHANGED <<state, inst, calls, outbox, got, out, dups, lost, unsent>>
    BY <1>1 DEF OtherPublish, connVars
  <2>2. b \in Messages
    <3>1. <<"messages">> \in Seq(STRING)
      <4>1. "messages" \in STRING
        BY MqttAssumption DEF Marks
      <4>. QED
        BY <4>1, OneToken
    <3>2. st \in Seq(Seq(STRING)) /\ ct \in Seq(STRING)
      BY MqttAssumption
    <3>. QED
      BY <3>1, <3>2 DEF Messages
  <2>. HIDE DEF b
  <2>. QED
    BY <2>1, <2>2 DEF RestOK
<1>2. ASSUME NEW i \in Instances, NEW b \in bus, natsMessage(i, b) PROVE RestOK'
  <2>1. /\ bus' = bus \ {b} /\ outbox' \subseteq outbox \cup {Packet(i, b)}
        /\ UNCHANGED <<state, inst, calls, got, used, out, dups, lost, unsent>>
    BY <1>2 DEF natsMessage, connVars, Forwarded
  <2>2. Packet(i, b) \in Packets
    BY PacketType DEF RestOK
  <2>. QED
    BY <2>1, <2>2 DEF RestOK
<1>3. ASSUME NEW p \in outbox, Emit(p) PROVE RestOK'
  <2>1. /\ outbox' \subseteq outbox
        /\ UNCHANGED <<state, inst, calls, bus, used, out, lost, unsent>>
        /\ \E to \in SUBSET Clients :
             /\ got' = [x \in Clients |-> IF x \in to THEN got[x] \cup {p} ELSE got[x]]
             /\ dups' \subseteq dups \cup {<<x, p.id>> : x \in to}
    BY <1>3 DEF Emit, connVars
  <2>2. p \in Packets /\ p.id \in MsgIds
    BY DEF RestOK, Packets
  <2>3. got' \in [Clients -> SUBSET Packets]
    BY <2>1, <2>2 DEF RestOK
  <2>4. dups' \subseteq Clients \X MsgIds
    BY <2>1, <2>2 DEF RestOK
  <2>. QED
    BY <2>1, <2>3, <2>4 DEF RestOK
<1>4. ASSUME NEW i \in Instances, Crash(i) PROVE RestOK'
  <2>1. /\ calls' \subseteq calls /\ bus' \subseteq bus /\ outbox' \subseteq outbox
        /\ lost' \subseteq lost \cup Ids(outbox) \cup Ids(bus)
        /\ UNCHANGED <<inst, got, used, out, dups, unsent>>
        /\ state' = [x \in Clients |-> IF inst[x] = i THEN "gone" ELSE state[x]]
    BY <1>4 DEF Crash, Ids
  <2>2. Ids(outbox) \subseteq MsgIds /\ Ids(bus) \subseteq MsgIds
    BY DEF RestOK, Ids, Packets, Messages
  <2>3. \A x \in Clients : state'[x] # "new" => inst[x] \in Instances
    BY <2>1 DEF RestOK
  <2>. QED
    BY <2>1, <2>2, <2>3 DEF RestOK
<1>. QED
  BY <1>1, <1>2, <1>3, <1>4 DEF Other, Handle

\* Every step keeps the types.
LEMMA RestInv ==
  IInv /\ RestOK /\ [Next]_vars => RestOK'
<1>. SUFFICES ASSUME IInv, RestOK, [Next]_vars PROVE RestOK'
  OBVIOUS
<1>1. CASE Grow \/ UNCHANGED vars
  <2>1. UNCHANGED <<state, inst, calls, bus, outbox, got, used, out, dups, lost, unsent>>
    BY <1>1 DEF Grow, vars, connVars, msgVars
  <2>. QED
    BY <2>1 DEF RestOK
<1>. QED
  BY <1>1, ConnectRest, UsingRest, AnsweredRest, MessageRest DEF Next

\* The types hold at the start.
LEMMA InitRest ==
  Init => RestOK
BY DEF Init, RestOK

\* The state of the adapters keeps its types: a message that goes to NATS has the
\* subtopic and the content type of some topic, a packet the topic of a message.
THEOREM TypeCorrect == Spec => []TypeOK
<1>1. IInv /\ RestOK => TypeOK
  BY DEF IInv, ShapeOK, StreamOK, RestOK, TypeOK
<1>. QED
  BY <1>1, InitRest, RestInv, Inductive, PTL DEF Spec

\* The topic that the adapter gives to a message from another adapter stands for
\* the same channel, subtopic and content type when a client publishes to it, if
\* the message has a plain subtopic and type, of any length.
THEOREM TopicsReadBack == Spec => []TopicReadsBack
<1>1. ASSUME RestOK PROVE TopicReadsBack
  <2>. SUFFICES ASSUME NEW b \in bus, PlainSubtopic(b.subtopic), PlainType(b.contentType),
                       NEW n \in 0..Len(b.subtopic),
                       NEW ct \in {b.contentType, <<>>}
                PROVE  LET st == SubSeq(b.subtopic, 1, n)
                           L == TopicOf(b.channel, st, ct)
                       IN  /\ parseTopic(L) = << <<b.channel>> >> /\ ~InvalidSubtopic(L)
                           /\ Subtopic(Elements(L)) = st /\ ContentType(Elements(L)) = ct
    BY DEF TopicReadsBack
  <2>1. b.channel \in STRING /\ b.subtopic \in Seq(Seq(STRING)) /\ b.contentType \in Seq(STRING)
    BY <1>1, MqttAssumption DEF RestOK, Messages
  <2>2. PlainType(<<>>)
    BY DEF PlainType
  <2>3. ct \in Seq(STRING) /\ PlainType(ct)
    <3>1. <<>> \in Seq(STRING)
      BY EmptySeq
    <3>. QED
      BY <2>1, <2>2, <3>1, Zenon
  <2>4. SubSeq(b.subtopic, 1, n) \in Seq(Seq(STRING)) /\ PlainSubtopic(SubSeq(b.subtopic, 1, n))
    BY <2>1, <2>2, PlainPrefix
  <2>. QED
    BY <2>1, <2>3, <2>4, ReadBack
<1>. QED
  BY <1>1, InitRest, RestInv, Inductive, PTL DEF Spec
=============================================================================
