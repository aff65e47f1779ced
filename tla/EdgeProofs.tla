----------------------------- MODULE EdgeProofs -----------------------------
(***************************************************************************)
(* The edge of the deployment: the TLS gate in front of MQTT, HTTP and     *)
(* WebSocket, for every CONNECT packet and every way to cut it, and the    *)
(* WebSocket adapter behind it, for any number of connections.             *)
(***************************************************************************)
EXTENDS Gate, Ws, SequenceTheorems, FiniteSetTheorems, WellFoundedInduction, TLAPS
-----------------------------------------------------------------------------
(* Sequences of bytes: what occurs where. *)

\* t stands in s, behind the first a elements.
Has(s, a, t) ==
  a \in Nat /\ a + Len(t) =< Len(s) /\ \A i \in 1..Len(t) : s[a + i] = t[i]

\* The front of a concatenation.
LEMMA HasFront ==
  ASSUME NEW s \in Seq(Nat), NEW t \in Seq(Nat)
  PROVE  Has(s \o t, 0, s)
<1>1. Len(s) \in Nat /\ Len(t) \in Nat
  BY LenProperties
<1>. QED
  BY <1>1, ConcatProperties DEF Has

\* The back of a concatenation.
LEMMA HasBack ==
  ASSUME NEW s \in Seq(Nat), NEW t \in Seq(Nat)
  PROVE  Has(s \o t, Len(s), t)
<1>1. Len(s) \in Nat /\ Len(t) \in Nat
  BY LenProperties
<1>2. Len(s \o t) = Len(s) + Len(t)
  BY ConcatProperties
<1>3. ASSUME NEW i \in 1..Len(t) PROVE (s \o t)[Len(s) + i] = t[i]
  <2>1. Len(s) + i \in 1..Len(s) + Len(t) /\ ~(Len(s) + i =< Len(s)) /\ Len(s) + i - Len(s) = i
    BY <1>1
  <2>. QED
    BY <2>1, ConcatProperties
<1>. QED
  BY <1>1, <1>2, <1>3 DEF Has

\* Both, with the length.
LEMMA Join ==
  ASSUME NEW s \in Seq(Nat), NEW t \in Seq(Nat)
  PROVE  /\ s \o t \in Seq(Nat) /\ Len(s \o t) = Len(s) + Len(t)
         /\ Len(s) \in Nat /\ Len(t) \in Nat
         /\ Has(s \o t, 0, s) /\ Has(s \o t, Len(s), t)
BY LenProperties, ConcatProperties, HasFront, HasBack

\* What stands in a part stands in the whole.
LEMMA HasIn ==
  ASSUME NEW s, NEW t, NEW u, NEW a, NEW b, Len(s) \in Nat, Len(t) \in Nat, Len(u) \in Nat,
         Has(s, a, t), Has(t, b, u)
  PROVE  Has(s, a + b, u)
<1>1. a \in Nat /\ b \in Nat /\ a + Len(t) =< Len(s) /\ b + Len(u) =< Len(t)
  BY DEF Has
<1>2. ASSUME NEW i \in 1..Len(u) PROVE s[a + b + i] = u[i]
  <2>1. b + i \in 1..Len(t) /\ a + b + i = a + (b + i)
    BY <1>1
  <2>2. s[a + (b + i)] = t[b + i] /\ t[b + i] = u[i]
    BY <2>1 DEF Has
  <2>. QED
    BY <2>1, <2>2
<1>. QED
  BY <1>1, <1>2 DEF Has

\* d is what a first chunk holds of b.
Cut(d, b) == d \in Seq(Nat) /\ Len(d) =< Len(b) /\ \A i \in 1..Len(d) : d[i] = b[i]

\* A front part of a sequence is one.
LEMMA CutSub ==
  ASSUME NEW b \in Seq(Nat), NEW n \in Nat, n =< Len(b)
  PROVE  Cut(SubSeq(b, 1, n), b) /\ Len(SubSeq(b, 1, n)) = n
<1>. DEFINE data == SubSeq(b, 1, n)
<1>1. Len(b) \in Nat
  BY LenProperties
<1>2. \A i \in 1..n : b[i] \in Nat
  <2>1. \A i \in 1..n : i \in 1..Len(b)
    BY <1>1
  <2>. QED
    BY <1>1, <2>1, ElementOfSeq
<1>3. /\ data \in Seq(Nat) /\ Len(data) = IF 1 <= n THEN n - 1 + 1 ELSE 0
      /\ \A i \in 1..n - 1 + 1 : data[i] = b[1 + i - 1]
  BY <1>2, SubSeqProperties
<1>4. (IF 1 <= n THEN n - 1 + 1 ELSE 0) = n /\ n - 1 + 1 = n
  OBVIOUS
<1>5. \A i \in 1..n : 1 + i - 1 = i
  OBVIOUS
<1>. HIDE DEF data
<1>6. data \in Seq(Nat) /\ Len(data) = n /\ \A i \in 1..n : data[i] = b[i]
  BY <1>3, <1>4, <1>5
<1>. QED
  BY <1>6 DEF Cut, data
-----------------------------------------------------------------------------
(* The CONNECT packet. *)

Hdr(p) == <<0, 4, 77, 81, 84, 84, 4, Flags(p), 0, 60>>
\* Lengths of a string, of two fields, of the payload, of all behind the fixed
\* header.
Lens == {n \in Nat : n =< 65535}
PairLens == {n \in Nat : n =< 131074}
AllLens == {n \in Nat : n =< 330000}
RestLens == {n \in Nat : n =< 330010}

\* They are numbers, and how they add up.
LEMMA LensNat ==
  /\ \A n \in Lens : n \in Nat
  /\ \A n \in PairLens : n \in Nat
  /\ 0 \in PairLens
  /\ \A a, b \in Lens : a + 2 + (b + 2) \in PairLens
  /\ \A n \in AllLens : n \in Nat
  /\ \A a \in Lens : \A b, c \in PairLens : a + 2 + (b + c) \in AllLens
  /\ \A n \in AllLens : 10 + n \in RestLens
BY SMT DEF Lens, PairLens, AllLens, RestLens

\* A string is a sequence of numbers, and its length is one of the lengths.
LEMMA StringsType ==
  ASSUME NEW s \in Strings
  PROVE  s \in Seq(Nat) /\ Len(s) \in Lens /\ Len(s) \in Nat
<1>1. s \in Seq(Byte) /\ Len(s) =< 65535
  BY DEF Strings
<1>2. Len(s) \in Nat /\ s \in [1..Len(s) -> Byte]
  BY <1>1, LenProperties
<1>3. s \in [1..Len(s) -> Nat]
  <2>1. \A x \in Byte : x \in Nat
    BY DEF Byte
  <2>. QED
    BY <1>2, <2>1
<1>4. s \in Seq(Nat)
  BY <1>2, <1>3, IsASeq
<1>5. Len(s) \in Lens
  BY <1>1, <1>2, SMT DEF Lens
<1>. QED
  BY <1>2, <1>4, <1>5

\* The two bytes of a length.
LEMMA U16Bytes ==
  ASSUME NEW n \in Lens
  PROVE  /\ U16(n) \in Seq(Nat) /\ Len(U16(n)) = 2
         /\ U16(n)[1] = n \div 256 /\ U16(n)[2] = n % 256
         /\ n \div 256 \in 0..255 /\ n % 256 \in 0..255 /\ n = 256 * (n \div 256) + (n % 256)
<1>1. n \div 256 \in 0..255 /\ n % 256 \in 0..255 /\ n = 256 * (n \div 256) + (n % 256)
  BY DEF Lens
<1>. QED
  BY <1>1 DEF U16

\* A field: its length, then its bytes.
LEMMA FieldBytes ==
  ASSUME NEW s \in Strings
  PROVE  /\ Field(s) \in Seq(Nat) /\ Len(Field(s)) = Len(s) + 2
         /\ Has(Field(s), 0, U16(Len(s))) /\ Has(Field(s), 2, s)
<1>. DEFINE u == U16(Len(s))
<1>1. s \in Seq(Nat) /\ Len(s) \in Lens /\ Len(s) \in Nat
  BY StringsType
<1>2. u \in Seq(Nat) /\ Len(u) = 2
  BY <1>1, U16Bytes
<1>3. Field(s) = u \o s
  BY DEF Field
<1>. HIDE DEF u
<1>4. /\ u \o s \in Seq(Nat) /\ Len(u \o s) = Len(u) + Len(s)
      /\ Has(u \o s, 0, u) /\ Has(u \o s, Len(u), s)
  BY <1>1, <1>2, Join
<1>5. Len(u) + Len(s) = Len(s) + 2
  BY <1>1, <1>2
<1>. QED
  BY <1>2, <1>3, <1>4, <1>5 DEF u

Pairs == {<<>>} \cup (Strings \X Strings)

\* No field, or two.
LEMMA PairsType ==
  ASSUME NEW t \in Pairs
  PROVE  \/ t = <<>>
         \/ t # <<>> /\ t = <<t[1], t[2]>> /\ t[1] \in Strings /\ t[2] \in Strings
              /\ Len(t) = 2
<1>1. ASSUME t \in Strings \X Strings
      PROVE  t # <<>> /\ t = <<t[1], t[2]>> /\ t[1] \in Strings /\ t[2] \in Strings
               /\ Len(t) = 2
  <2>1. PICK a \in Strings, b \in Strings : t = <<a, b>>
    BY <1>1
  <2>. QED
    BY <2>1
<1>2. t = <<>> \/ t \in Strings \X Strings
  BY DEF Pairs
<1>. QED
  BY <1>1, <1>2

\* The will, and user name with password: where their fields stand.
LEMMA TwoFieldsBytes ==
  ASSUME NEW t \in Pairs
  PROVE  /\ TwoFields(t) \in Seq(Nat) /\ Len(TwoFields(t)) \in PairLens
         /\ t = <<>> => TwoFields(t) = <<>> /\ Len(TwoFields(t)) = 0
         /\ t # <<>> => /\ Len(TwoFields(t)) = Len(t[1]) + 2 + (Len(t[2]) + 2)
                        /\ Has(TwoFields(t), 0, U16(Len(t[1])))
                        /\ Has(TwoFields(t), Len(t[1]) + 2, U16(Len(t[2])))
                        /\ Has(TwoFields(t), Len(t[1]) + 4, t[2])
<1>1. CASE t = <<>>
  <2>1. TwoFields(t) = <<>>
    BY <1>1 DEF TwoFields
  <2>2. <<>> \in Seq(Nat) /\ Len(<<>>) = 0
    BY EmptySeq
  <2>. QED
    BY <1>1, <2>1, <2>2, LensNat, Zenon
<1>2. CASE t # <<>>
  <2>. DEFINE a == t[1]  b == t[2]  fa == Field(a)  fb == Field(b)  w == TwoFields(t)
  <2>1. a \in Strings /\ b \in Strings
    BY <1>2, PairsType
  <2>2. w = fa \o fb
    BY <1>2 DEF TwoFields
  <2>. HIDE DEF a, b, w
  <2>3. /\ fa \in Seq(Nat) /\ Len(fa) = Len(a) + 2 /\ Has(fa, 0, U16(Len(a)))
        /\ fb \in Seq(Nat) /\ Len(fb) = Len(b) + 2 /\ Has(fb, 0, U16(Len(b))) /\ Has(fb, 2, b)
    BY <2>1, FieldBytes
  <2>4. Len(a) \in Nat /\ Len(b) \in Nat /\ Len(a) \in Lens /\ Len(b) \in Lens
          /\ Len(U16(Len(a))) = 2 /\ Len(U16(Len(b))) = 2
    BY <2>1, StringsType, U16Bytes
  <2>. HIDE DEF fa, fb
  <2>5. /\ w \in Seq(Nat) /\ Len(w) = Len(fa) + Len(fb) /\ Has(w, 0, fa) /\ Has(w, Len(fa), fb)
        /\ Len(fa) \in Nat /\ Len(fb) \in Nat
    BY <2>2, <2>3, Join
  <2>6. Len(w) \in Nat /\ Len(U16(Len(a))) \in Nat /\ Len(U16(Len(b))) \in Nat
    BY <2>4, <2>5
  <2>7. /\ Has(w, 0 + 0, U16(Len(a))) /\ Has(w, Len(fa) + 0, U16(Len(b)))
        /\ Has(w, Len(fa) + 2, b)
    BY <2>3, <2>4, <2>5, <2>6, HasIn
  <2>8. 0 + 0 = 0 /\ Len(fa) + 0 = Len(a) + 2 /\ Len(fa) + 2 = Len(a) + 4
    BY <2>3, <2>4
  <2>9. Len(w) = Len(a) + 2 + (Len(b) + 2) /\ Len(w) \in PairLens
    <3>1. Len(w) = Len(a) + 2 + (Len(b) + 2)
      BY <2>3, <2>4, <2>5
    <3>. QED
      BY <2>4, <3>1, LensNat, Zenon
  <2>. QED
    BY <1>2, <2>5, <2>7, <2>8, <2>9 DEF a, b, w
<1>. QED
  BY <1>1, <1>2

\* The types of a packet.
LEMMA ConnectsType ==
  ASSUME NEW p \in Connects
  PROVE  p.id \in Strings /\ p.will \in Pairs /\ p.creds \in Pairs
BY DEF Connects, Pairs

Will(p) == TwoFields(p.will)
Credentials(p) == TwoFields(p.creds)

\* The payload: client id, will, credentials.
LEMMA FieldsBytes ==
  ASSUME NEW p \in Connects
  PROVE  LET w == Len(Will(p))  i == Len(p.id)
         IN  /\ Fields(p) \in Seq(Nat) /\ w \in Nat /\ i \in Nat
             /\ Len(Fields(p)) \in AllLens
             /\ Has(Fields(p), 0, U16(i))
             /\ Has(Fields(p), i + 2, Will(p))
             /\ Has(Fields(p), i + 2 + w, Credentials(p))
<1>. DEFINE i == Len(p.id)  f == Field(p.id)  w == Will(p)  c == Credentials(p)  t == w \o c
            all == Fields(p)
<1>1. all = f \o t
  BY DEF Fields, Will, Credentials
<1>2. i \in Lens /\ i \in Nat
  BY ConnectsType, StringsType
<1>3. f \in Seq(Nat) /\ Len(f) = i + 2 /\ Has(f, 0, U16(i))
  BY ConnectsType, FieldBytes
<1>4. w \in Seq(Nat) /\ c \in Seq(Nat) /\ Len(w) \in PairLens /\ Len(c) \in PairLens
  BY ConnectsType, TwoFieldsBytes DEF Will, Credentials
<1>. HIDE DEF f, w, c, all, i
<1>6. /\ t \in Seq(Nat) /\ Len(t) = Len(w) + Len(c) /\ Has(t, 0, w) /\ Has(t, Len(w), c)
      /\ Len(w) \in Nat /\ Len(c) \in Nat
  BY <1>4, Join
<1>. HIDE DEF t
<1>8. /\ all \in Seq(Nat) /\ Len(all) = Len(f) + Len(t) /\ Has(all, 0, f) /\ Has(all, Len(f), t)
      /\ Len(f) \in Nat /\ Len(t) \in Nat
  BY <1>1, <1>3, <1>6, Join
<1>10. Len(all) \in Nat /\ Len(U16(i)) \in Nat
  <2>1. Len(U16(i)) = 2
    BY <1>2, U16Bytes
  <2>. QED
    BY <1>8, <2>1
<1>11. /\ Has(all, 0 + 0, U16(i)) /\ Has(all, Len(f) + 0, w) /\ Has(all, Len(f) + Len(w), c)
  BY <1>3, <1>6, <1>8, <1>10, HasIn
<1>12. /\ Has(all, 0, U16(i)) /\ Has(all, i + 2, w) /\ Has(all, i + 2 + Len(w), c)
  <2>1. 0 + 0 = 0 /\ Len(f) + 0 = i + 2 /\ Len(f) + Len(w) = i + 2 + Len(w)
    BY <1>2, <1>3, <1>6
  <2>. QED
    BY <1>11, <2>1
<1>13. Len(all) \in AllLens
  <2>1. Len(all) = i + 2 + (Len(w) + Len(c))
    BY <1>2, <1>3, <1>6, <1>8
  <2>. QED
    BY <1>2, <1>4, <2>1, LensNat, Zenon
<1>. QED
  BY <1>2, <1>6, <1>8, <1>12, <1>13 DEF w, c, all, i

\* Variable header and payload.
LEMMA RestBytes ==
  ASSUME NEW p \in Connects
  PROVE  /\ Rest(p) \in Seq(Nat) /\ Len(Rest(p)) \in RestLens
         /\ Len(Rest(p)) = 10 + Len(Fields(p)) /\ Rest(p)[8] = Flags(p)
         /\ Has(Rest(p), 10, Fields(p))
<1>. DEFINE h == Hdr(p)  f == Fields(p)  r == Rest(p)
<1>1. r = h \o f
  BY DEF Rest, Hdr
<1>2. Flags(p) \in Nat
  BY DEF Flags
<1>3. h \in Seq(Nat) /\ Len(h) = 10 /\ h[8] = Flags(p)
  BY <1>2 DEF Hdr
<1>4. f \in Seq(Nat) /\ Len(f) \in AllLens
  BY FieldsBytes
<1>. HIDE DEF h, f, r
<1>7. /\ r \in Seq(Nat) /\ Len(r) = 10 + Len(f) /\ Has(r, 0, h) /\ Has(r, 10, f)
  <2>1. /\ h \o f \in Seq(Nat) /\ Len(h \o f) = Len(h) + Len(f)
        /\ Has(h \o f, 0, h) /\ Has(h \o f, Len(h), f)
    BY <1>3, <1>4, Join
  <2>. QED
    BY <1>1, <1>3, <2>1
<1>9. r[8] = Flags(p)
  <2>1. r[0 + 8] = h[8] /\ 0 + 8 = 8
    BY <1>3, <1>7 DEF Has
  <2>. QED
    BY <1>3, <2>1
<1>10. Len(r) \in RestLens
  BY <1>4, <1>7, LensNat
<1>. QED
  BY <1>7, <1>9, <1>10 DEF r, f

\* One to three bytes; all but the last have the continuation bit, which alone
\* makes 128.
LEMMA VarLenBytes ==
  ASSUME NEW n \in RestLens
  PROVE  LET v == VarLen(n)
         IN  /\ v \in Seq(Nat) /\ Len(v) \in 1..3 /\ v[Len(v)] =< 128
             /\ \A i \in 1..Len(v) - 1 : v[i] >= 128
<1>. DEFINE v == VarLen(n)
<1>0. n \in Nat /\ n =< 330010
  BY SMT DEF RestLens
<1>1. CASE n < 128
  <2>1. v = <<n>>
    BY <1>1 DEF VarLen
  <2>2. v \in Seq(Nat) /\ Len(v) = 1 /\ v[1] = n
    BY <1>0, <2>1
  <2>. HIDE DEF v
  <2>. QED
    BY <1>0, <1>1, <2>2, SMT DEF v
<1>2. CASE ~(n < 128) /\ n < 16384
  <2>. DEFINE a == 128 + (n % 128)  b == n \div 128
  <2>1. v = <<a, b>>
    BY <1>0, <1>2, SMT DEF VarLen
  <2>2. a \in Nat /\ a >= 128 /\ b \in Nat /\ b =< 128
    BY <1>0, <1>2, SMT
  <2>. HIDE DEF v, a, b
  <2>3. v \in Seq(Nat) /\ Len(v) = 2 /\ v[1] = a /\ v[2] = b
    BY <2>1, <2>2
  <2>4. \A i \in 1..Len(v) - 1 : i = 1
    BY <2>3
  <2>. QED
    BY <2>2, <2>3, <2>4 DEF v
<1>3. CASE ~(n < 128) /\ ~(n < 16384)
  <2>. DEFINE a == 128 + (n % 128)  b == 128 + ((n \div 128) % 128)  c == n \div 16384
  <2>1. v = <<a, b, c>>
    BY <1>0, <1>3, SMT DEF VarLen
  <2>2. a \in Nat /\ a >= 128 /\ b \in Nat /\ b >= 128 /\ c \in Nat /\ c =< 128
    BY <1>0, <1>3, SMT
  <2>. HIDE DEF v, a, b, c
  <2>3. v \in Seq(Nat) /\ Len(v) = 3 /\ v[1] = a /\ v[2] = b /\ v[3] = c
    BY <2>1, <2>2
  <2>4. \A i \in 1..Len(v) - 1 : i = 1 \/ i = 2
    BY <2>3
  <2>. QED
    BY <2>2, <2>3, <2>4 DEF v
<1>. QED
  BY <1>0, <1>1, <1>2, <1>3, SMT

Sizes(p) == VarLen(Len(Rest(p)))

\* The bytes of a packet: where the remaining length, the flags and the payload
\* stand.
LEMMA BytesBytes ==
  ASSUME NEW p \in Connects
  PROVE  LET v == Sizes(p)
         IN  /\ Bytes(p) \in Seq(Nat)
             /\ v \in Seq(Nat) /\ Len(v) \in 1..3 /\ v[Len(v)] =< 128
             /\ \A i \in 1..Len(v) - 1 : v[i] >= 128
             /\ Len(Bytes(p)) = 11 + Len(v) + Len(Fields(p))
             /\ Has(Bytes(p), 1, v) /\ Bytes(p)[Len(v) + 9] = Flags(p)
             /\ Has(Bytes(p), 11 + Len(v), Fields(p))
<1>. DEFINE v == Sizes(p)  o == <<16>>  s == o \o v  r == Rest(p)  f == Fields(p)  b == Bytes(p)
<1>1. /\ v \in Seq(Nat) /\ Len(v) \in 1..3 /\ v[Len(v)] =< 128
      /\ \A i \in 1..Len(v) - 1 : v[i] >= 128
  <2>1. Len(Rest(p)) \in RestLens
    BY RestBytes
  <2>. QED
    BY <2>1, VarLenBytes DEF Sizes
<1>2. r \in Seq(Nat) /\ Len(r) = 10 + Len(f) /\ r[8] = Flags(p)
        /\ Has(r, 10, f)
  BY RestBytes, SMT
<1>3. o \in Seq(Nat) /\ Len(o) = 1 /\ o[1] = 16
  OBVIOUS
<1>4. b = s \o r
  BY DEF Bytes, Sizes
<1>5. f \in Seq(Nat) /\ Len(f) \in Nat
  BY FieldsBytes, LenProperties
<1>. HIDE DEF v, o, r, f, b
<1>6. /\ s \in Seq(Nat) /\ Len(s) = 1 + Len(v) /\ Has(s, 0, o) /\ Has(s, 1, v)
  <2>1. s \in Seq(Nat) /\ Len(s) = Len(o) + Len(v) /\ Has(s, 0, o) /\ Has(s, Len(o), v)
    BY <1>1, <1>3, Join
  <2>. QED
    BY <1>3, <2>1
<1>. HIDE DEF s
<1>7. /\ b \in Seq(Nat) /\ Len(b) = Len(s) + Len(r) /\ Has(b, 0, s) /\ Has(b, Len(s), r)
      /\ Len(s) \in Nat /\ Len(r) \in Nat
  BY <1>2, <1>4, <1>6, Join
<1>8. Len(v) \in Nat /\ Len(b) \in Nat
  BY <1>1, <1>7
<1>9. Has(b, 0 + 1, v) /\ Has(b, Len(s) + 10, f)
  BY <1>2, <1>5, <1>6, <1>7, <1>8, HasIn
<1>10. Has(b, 1, v) /\ Has(b, 11 + Len(v), f)
  <2>1. 0 + 1 = 1 /\ Len(s) + 10 = 11 + Len(v)
    BY <1>6, <1>8
  <2>. QED
    BY <1>9, <2>1
<1>11. b[Len(v) + 9] = Flags(p)
  <2>1. 8 \in 1..Len(r) /\ Len(s) + 8 = Len(v) + 9
    BY <1>2, <1>5, <1>6, <1>8
  <2>2. b[Len(s) + 8] = r[8]
    BY <1>7, <2>1 DEF Has
  <2>. QED
    BY <1>2, <2>1, <2>2
<1>12. Len(b) = 11 + Len(v) + Len(f)
  BY <1>2, <1>5, <1>6, <1>7, <1>8
<1>. QED
  BY <1>1, <1>7, <1>10, <1>11, <1>12 DEF v, b, f
-----------------------------------------------------------------------------
(* The parser. *)

\* The count of the bytes of the remaining length is a number.
LEMMA LenSizeNat ==
  ASSUME NEW data
  PROVE  LenSize(data) \in Nat
<1>. DEFINE S == {i \in 1..4 : \A j \in 1..i : codePointAt(data, j) > 128}
<1>1. IsFiniteSet(1..4)
  <2>1. 1 \in Int /\ 4 \in Int
    OBVIOUS
  <2>. QED
    BY <2>1, FS_Interval, Zenon
<1>2. IsFiniteSet(S)
  BY <1>1, FS_Subset
<1>3. Cardinality(S) \in Nat
  BY <1>2, FS_CardinalityType
<1>. QED
  BY <1>3 DEF LenSize

\* It is right when no byte is just the continuation bit and all have come.
LEMMA LenSizeExact ==
  ASSUME NEW p \in Connects, \A i \in 1..Len(Sizes(p)) : Sizes(p)[i] # 128,
         NEW b, Cut(b, Bytes(p)), Len(Sizes(p)) < Len(b)
  PROVE  LenSize(b) = Len(Sizes(p))
<1>. DEFINE v == Sizes(p)
            S == {i \in 1..4 : \A j \in 1..i : codePointAt(b, j) > 128}
<1>1. /\ b \in Seq(Nat) /\ Len(b) \in Nat /\ v \in Seq(Nat) /\ Len(v) \in 1..3 /\ v[Len(v)] =< 128
      /\ \A i \in 1..Len(v) - 1 : v[i] >= 128
      /\ Has(Bytes(p), 1, v)
  BY BytesBytes, LenProperties DEF Cut
<1>3. \A j \in 1..Len(v) : codePointAt(b, j) = v[j]
  <2>1. SUFFICES ASSUME NEW j \in 1..Len(v) PROVE codePointAt(b, j) = v[j]
    OBVIOUS
  <2>3. j < Len(b) /\ j + 1 = 1 + j /\ 1 + j \in 1..Len(b)
    BY <1>1
  <2>2. b[1 + j] = v[j]
    BY <1>1, <2>3 DEF Has, Cut
  <2>. QED
    BY <2>2, <2>3 DEF codePointAt
<1>4. \A j \in 1..Len(v) : v[j] \in Nat /\ v[j] # 128
  BY <1>1, ElementOfSeq
<1>. HIDE DEF v
<1>5. S = 1..Len(v) - 1
  <2>1. ASSUME NEW i \in 1..4, \A j \in 1..i : codePointAt(b, j) > 128
        PROVE  i \in 1..Len(v) - 1
    <3>1. SUFFICES ASSUME i >= Len(v) PROVE FALSE
      BY <1>1
    <3>2. Len(v) \in 1..i /\ Len(v) \in 1..Len(v)
      <4>1. \A x \in 1..3 : \A y \in 1..4 : y >= x => x \in 1..y /\ x \in 1..x
        OBVIOUS
      <4>2. Len(v) \in 1..3
        BY <1>1
      <4>. QED
        BY <3>1, <4>1, <4>2, Zenon
    <3>3. v[Len(v)] > 128 /\ v[Len(v)] \in Nat
      BY <1>3, <1>4, <2>1, <3>2
    <3>. QED
      BY <1>1, <3>3
  <2>2. ASSUME NEW i \in 1..Len(v) - 1, NEW j \in 1..i
        PROVE  codePointAt(b, j) > 128
    <3>1. j \in 1..Len(v) - 1 /\ j \in 1..Len(v)
      BY <1>1, <2>2
    <3>2. v[j] \in Nat /\ v[j] # 128 /\ v[j] >= 128 /\ codePointAt(b, j) = v[j]
      BY <1>1, <1>3, <1>4, <3>1
    <3>. QED
      BY <3>2
  <2>3. \A i \in 1..Len(v) - 1 : i \in 1..4
    <3>1. Len(v) \in 1..3
      BY <1>1
    <3>2. \A n \in 1..3 : \A i \in 1..n - 1 : i \in 1..4
      OBVIOUS
    <3>. QED
      BY <3>1, <3>2
  <2>. QED
    BY <2>1, <2>2, <2>3
<1>6. Cardinality(S) = Len(v) - 1
  <2>0. \A n \in 1..3 : n - 1 \in Nat /\ n - 1 \in Int /\ n - 1 - 1 + 1 = n - 1
    OBVIOUS
  <2>1. 1 \in Int /\ Len(v) - 1 \in Int /\ Len(v) - 1 - 1 + 1 = Len(v) - 1
    BY <1>1, <2>0
  <2>2. Cardinality(1..Len(v) - 1) = IF 1 > Len(v) - 1 THEN 0 ELSE Len(v) - 1 - 1 + 1
    BY <2>1, FS_Interval
  <2>3. Len(v) - 1 \in Nat
    BY <1>1, <2>0
  <2>4. Cardinality(1..Len(v) - 1) = Len(v) - 1
    BY <2>1, <2>2, <2>3
  <2>. HIDE DEF S
  <2>. QED
    BY <1>5, <2>4
<1>7. LenSize(b) = 1 + Cardinality(S)
  BY DEF LenSize
<1>. HIDE DEF S
<1>8. LenSize(b) = Len(v)
  BY <1>1, <1>6, <1>7
<1>. QED
  BY <1>8 DEF v

First(start) == [ok |-> TRUE, shift |-> start, len |-> 0]

\* Three turns of the loop, without a will.
LEMMA ThreeTurns ==
  ASSUME NEW data, NEW start
  PROVE  Shifted(data, start, 3) =
           Turn(data, Turn(data, Turn(data, First(start), 2), 1), 0)
<1>. DEFINE a0 == First(start)  a1 == Turn(data, a0, 2)  a2 == Turn(data, a1, 1)
            a3 == Turn(data, a2, 0)
            G(h) == [i \in 0..3 |-> IF i = 0 THEN a0 ELSE Turn(data, h[i - 1], 3 - i)]
            w == [i \in 0..3 |-> IF i = 0 THEN a0 ELSE IF i = 1 THEN a1
                                 ELSE IF i = 2 THEN a2 ELSE a3]
            f == CHOOSE h : h = G(h)
<1>1. Shifted(data, start, 3) = f[3]
  BY DEF Shifted, First
<1>. HIDE DEF a0
<1>2. w = G(w)
  <2>1. w[0] = a0 /\ w[1] = a1 /\ w[2] = a2
    OBVIOUS
  <2>2. \A i \in 0..3 : i = 0 \/ i = 1 \/ i = 2 \/ i = 3
    OBVIOUS
  <2>3. ASSUME NEW i \in 0..3 PROVE w[i] = IF i = 0 THEN a0 ELSE Turn(data, w[i - 1], 3 - i)
    BY <2>1, <2>2
  <2>. QED
    BY <2>3
<1>. HIDE DEF w
<1>3. f = G(f)
  BY <1>2
<1>. HIDE DEF f
<1>4. f[0] = a0 /\ f[1] = Turn(data, f[0], 2) /\ f[2] = Turn(data, f[1], 1)
        /\ f[3] = Turn(data, f[2], 0)
  <2>1. \A i \in 0..3 : f[i] = IF i = 0 THEN a0 ELSE Turn(data, f[i - 1], 3 - i)
    BY <1>3
  <2>. QED
    BY <2>1
<1>. QED
  BY <1>1, <1>4 DEF a0

\* Five turns, with a will.
LEMMA FiveTurns ==
  ASSUME NEW data, NEW start
  PROVE  Shifted(data, start, 5) =
           Turn(data, Turn(data, Turn(data, Turn(data, Turn(data, First(start), 4), 3), 2), 1), 0)
<1>. DEFINE a0 == First(start)  a1 == Turn(data, a0, 4)  a2 == Turn(data, a1, 3)
            a3 == Turn(data, a2, 2)  a4 == Turn(data, a3, 1)  a5 == Turn(data, a4, 0)
            G(h) == [i \in 0..5 |-> IF i = 0 THEN a0 ELSE Turn(data, h[i - 1], 5 - i)]
            w == [i \in 0..5 |-> IF i = 0 THEN a0 ELSE IF i = 1 THEN a1 ELSE IF i = 2 THEN a2
                                 ELSE IF i = 3 THEN a3 ELSE IF i = 4 THEN a4 ELSE a5]
            f == CHOOSE h : h = G(h)
<1>1. Shifted(data, start, 5) = f[5]
  BY DEF Shifted, First
<1>. HIDE DEF a0
<1>2. w = G(w)
  <2>1. w[0] = a0 /\ w[1] = a1 /\ w[2] = a2 /\ w[3] = a3 /\ w[4] = a4
    OBVIOUS
  <2>2. \A i \in 0..5 : i = 0 \/ i = 1 \/ i = 2 \/ i = 3 \/ i = 4 \/ i = 5
    OBVIOUS
  <2>3. ASSUME NEW i \in 0..5 PROVE w[i] = IF i = 0 THEN a0 ELSE Turn(data, w[i - 1], 5 - i)
    BY <2>1, <2>2
  <2>. QED
    BY <2>3
<1>. HIDE DEF w
<1>3. f = G(f)
  BY <1>2
<1>. HIDE DEF f
<1>4. f[0] = a0 /\ f[1] = Turn(data, f[0], 4) /\ f[2] = Turn(data, f[1], 3)
        /\ f[3] = Turn(data, f[2], 2) /\ f[4] = Turn(data, f[3], 1) /\ f[5] = Turn(data, f[4], 0)
  <2>1. \A i \in 0..5 : f[i] = IF i = 0 THEN a0 ELSE Turn(data, f[i - 1], 5 - i)
    BY <1>3
  <2>. QED
    BY <2>1
<1>. QED
  BY <1>1, <1>4 DEF a0

\* At a length that calcLen gets right, a turn goes behind the field.
LEMMA TurnExact ==
  ASSUME NEW data \in Seq(Nat), NEW r, r.ok, NEW n \in Lens, NEW left,
         Has(data, r.shift, U16(n)), n < 256 \/ n % 256 \notin 2..15
  PROVE  Turn(data, r, left) = [ok |-> TRUE, shift |-> r.shift + 2 + (IF left = 0 THEN 0 ELSE n),
                                len |-> n]
<1>. DEFINE at == r.shift  m == n \div 256  l == n % 256
<1>1. Len(U16(n)) = 2 /\ U16(n)[1] = m /\ U16(n)[2] = l /\ m \in 0..255 /\ l \in 0..255
        /\ n = 256 * m + l
  BY U16Bytes
<1>2. n < 256 => m = 0
  <2>1. n \in Nat
    BY LensNat, Zenon
  <2>. QED
    BY <2>1
<1>3. n < 256 \/ l \notin 2..15
  OBVIOUS
<1>. HIDE DEF m, l
<1>4. calcLen(m, l) = n
  <2>1. CASE l < 2 \/ l > 15
    BY <1>1, <2>1 DEF calcLen
  <2>2. CASE ~(l < 2 \/ l > 15)
    <3>1. l \in 2..15
      BY <1>1, <2>2
    <3>2. m = 0
      BY <1>2, <1>3, <3>1
    <3>. QED
      BY <1>1, <2>2, <3>2 DEF calcLen
  <2>. QED
    BY <2>1, <2>2
<1>5. at \in Nat /\ at + 2 =< Len(data) /\ data[at + 1] = m /\ data[at + 2] = l
  BY <1>1 DEF Has
<1>6. Len(data) \in Nat
  BY LenProperties
<1>7. codePointAt(data, at) = m /\ codePointAt(data, at + 1) = l /\ ~(at + 1 >= Len(data))
  <2>. HIDE DEF at
  <2>0. at \in Nat /\ at + 2 =< Len(data)
    BY <1>5
  <2>1. at < Len(data) /\ at + 1 < Len(data) /\ at + 1 + 1 = at + 2 /\ ~(at + 1 >= Len(data))
    <3>1. \A x, y \in Nat : x + 2 =< y => x < y /\ x + 1 < y /\ x + 1 + 1 = x + 2 /\ ~(x + 1 >= y)
      OBVIOUS
    <3>. QED
      BY <1>6, <2>0, <3>1, Zenon
  <2>. QED
    BY <1>5, <2>1 DEF codePointAt
<1>. QED
  BY <1>4, <1>7 DEF Turn

\* Where the fields of a packet with a password stand.
LEMMA Offsets ==
  ASSUME NEW p \in Connects, p.creds # <<>>
  PROVE  LET b == Bytes(p)  o == 11 + Len(Sizes(p))  w == Len(Will(p))
             q == o + Len(p.id) + 2  c == q + w  u == Len(p.creds[1])  k == p.creds[2]
         IN  /\ o \in Nat /\ q \in Nat /\ c \in Nat /\ u \in Nat
             /\ Has(b, o, U16(Len(p.id))) /\ Has(b, q, Will(p)) /\ Has(b, c, U16(u))
             /\ Has(b, c + u + 2, U16(Len(k))) /\ Has(b, c + u + 4, k)
<1>. DEFINE b == Bytes(p)  o == 11 + Len(Sizes(p))  w == Len(Will(p))  f == Fields(p)
            i == Len(p.id)  q == o + i + 2  c == q + w  cr == Credentials(p)
            u == Len(p.creds[1])  k == p.creds[2]
<1>1. /\ i \in Nat /\ i \in Lens /\ u \in Nat /\ u \in Lens /\ Len(k) \in Nat /\ Len(k) \in Lens
  <2>1. p.id \in Strings /\ p.creds[1] \in Strings /\ p.creds[2] \in Strings
    BY ConnectsType, PairsType
  <2>. QED
    BY <2>1, StringsType
<1>3. Len(U16(i)) = 2 /\ Len(U16(u)) = 2 /\ Len(U16(Len(k))) = 2
  BY <1>1, U16Bytes
<1>4. b \in Seq(Nat) /\ Has(b, o, f) /\ o \in Nat
  <2>1. b \in Seq(Nat) /\ Has(b, o, f)
    BY BytesBytes
  <2>. HIDE DEF o
  <2>. QED
    BY <2>1 DEF Has
<1>5. /\ f \in Seq(Nat) /\ w \in Nat /\ Has(f, 0, U16(i)) /\ Has(f, i + 2, Will(p))
      /\ Has(f, i + 2 + w, cr)
  BY FieldsBytes
<1>6. /\ cr \in Seq(Nat) /\ Has(cr, 0, U16(u)) /\ Has(cr, u + 2, U16(Len(k)))
      /\ Has(cr, u + 4, k)
  BY ConnectsType, TwoFieldsBytes DEF Credentials
<1>. HIDE DEF b, o, w, f, cr, i, u, k
<1>7. /\ Len(b) \in Nat /\ Len(f) \in Nat /\ Len(cr) \in Nat /\ Len(Will(p)) \in Nat
      /\ Len(U16(i)) \in Nat /\ Len(U16(u)) \in Nat /\ Len(U16(Len(k))) \in Nat
      /\ Len(k) \in Nat
  <2>1. Len(b) \in Nat /\ Len(f) \in Nat /\ Len(cr) \in Nat
    BY <1>4, <1>5, <1>6, LenProperties
  <2>2. Len(Will(p)) \in Nat
    BY <1>5 DEF w
  <2>. QED
    BY <1>1, <1>3, <2>1, <2>2
<1>8. /\ Has(b, o + 0, U16(i)) /\ Has(b, o + (i + 2), Will(p))
      /\ Has(b, o + (i + 2 + w), cr)
  BY <1>4, <1>5, <1>7, HasIn
<1>9. o + 0 = o /\ o + (i + 2) = q /\ o + (i + 2 + w) = c /\ q \in Nat /\ c \in Nat
  BY <1>1, <1>4, <1>5
<1>10. Has(b, o, U16(i)) /\ Has(b, q, Will(p)) /\ Has(b, c, cr)
  BY <1>8, <1>9
<1>. HIDE DEF c, q
<1>11. /\ Has(b, c + 0, U16(u)) /\ Has(b, c + (u + 2), U16(Len(k)))
       /\ Has(b, c + (u + 4), k)
  BY <1>6, <1>7, <1>10, HasIn
<1>12. c + 0 = c /\ c + (u + 2) = c + u + 2 /\ c + (u + 4) = c + u + 4
  BY <1>1, <1>9
<1>13. Has(b, c, U16(u)) /\ Has(b, c + u + 2, U16(Len(k))) /\ Has(b, c + u + 4, k)
  BY <1>11, <1>12
<1>. QED
  BY <1>1, <1>4, <1>9, <1>10, <1>13 DEF b, o, w, c, q, i, u, k

Good(n) == n < 256 \/ n % 256 \notin 2..15

\* The lengths of a well sized packet, one by one.
LEMMA GoodLengths ==
  ASSUME NEW p \in Connects, WellSized(p)
  PROVE  /\ Good(Len(p.id))
         /\ p.will # <<>> => Good(Len(p.will[1])) /\ Good(Len(p.will[2]))
         /\ p.creds # <<>> => Good(Len(p.creds[1])) /\ Good(Len(p.creds[2]))
         /\ \A i \in 1..Len(Sizes(p)) : Sizes(p)[i] # 128
<1>1. \A n \in Lengths(p) : Good(n)
  BY DEF WellSized, Good
<1>2. \A i \in 1..Len(Sizes(p)) : Sizes(p)[i] # 128
  BY DEF WellSized, Sizes
<1>3. Len(p.id) \in Lengths(p)
  BY DEF Lengths
<1>4. ASSUME p.will # <<>> PROVE Len(p.will[1]) \in Lengths(p) /\ Len(p.will[2]) \in Lengths(p)
  <2>1. Len(p.will) = 2
    BY <1>4, ConnectsType, PairsType
  <2>2. 1 \in 1..Len(p.will) /\ 2 \in 1..Len(p.will)
    BY <2>1
  <2>. QED
    BY <2>2 DEF Lengths
<1>5. ASSUME p.creds # <<>> PROVE Len(p.creds[1]) \in Lengths(p) /\ Len(p.creds[2]) \in Lengths(p)
  <2>1. Len(p.creds) = 2
    BY <1>5, ConnectsType, PairsType
  <2>2. 1 \in 1..Len(p.creds) /\ 2 \in 1..Len(p.creds)
    BY <2>1
  <2>. QED
    BY <2>2 DEF Lengths
<1>. QED
  BY <1>1, <1>2, <1>3, <1>4, <1>5

At(m, n) == [ok |-> TRUE, shift |-> m, len |-> n]

\* A turn over a field of n bytes at m, and the last one.
LEMMA TurnAt ==
  ASSUME NEW data \in Seq(Nat), NEW m \in Nat, NEW l, NEW n \in Lens, Good(n),
         Has(data, m, U16(n))
  PROVE  /\ \A left \in 1..4 : Turn(data, At(m, l), left) = At(m + n + 2, n)
         /\ Turn(data, At(m, l), 0) = At(m + 2, n)
<1>1. n \in Nat
  BY LensNat
<1>. DEFINE r == At(m, l)
<1>2. r.ok /\ r.shift = m
  BY DEF At
<1>. HIDE DEF r
<1>3. ASSUME NEW left
      PROVE  Turn(data, r, left)
               = [ok |-> TRUE, shift |-> m + 2 + (IF left = 0 THEN 0 ELSE n), len |-> n]
  <2>1. n < 256 \/ n % 256 \notin 2..15
    BY DEF Good
  <2>2. Has(data, r.shift, U16(n))
    BY <1>2
  <2>3. Turn(data, r, left)
          = [ok |-> TRUE, shift |-> r.shift + 2 + (IF left = 0 THEN 0 ELSE n), len |-> n]
    BY <1>2, <2>1, <2>2, TurnExact, SMTT(30)
  <2>. QED
    BY <1>2, <2>3
<1>4. m + 2 + n = m + n + 2 /\ m + 2 + 0 = m + 2
  BY <1>1
<1>5. Turn(data, r, 0) = At(m + 2, n)
  BY <1>3, <1>4 DEF At
<1>6. ASSUME NEW left \in 1..4 PROVE Turn(data, r, left) = At(m + n + 2, n)
  <2>1. left # 0
    OBVIOUS
  <2>. QED
    BY <1>3, <1>4, <2>1 DEF At
<1>. QED
  BY <1>5, <1>6 DEF r

\* Where a turn over the front part d of b ends: behind a field, or the data has
\* run out.
Stands(d, b, r, m, n) == r = At(m, n) \/ (r = Threw /\ Len(d) < Len(b))

\* A turn over the data that has come.
LEMMA TurnCut ==
  ASSUME NEW b \in Seq(Nat), NEW d, Cut(d, b), NEW m \in Nat, NEW l, NEW n \in Lens, Good(n),
         Has(b, m, U16(n)), NEW r, Stands(d, b, r, m, l)
  PROVE  /\ \A left \in 1..4 : Stands(d, b, Turn(d, r, left), m + n + 2, n)
         /\ Stands(d, b, Turn(d, r, 0), m + 2, n)
<1>0. d \in Seq(Nat) /\ Len(d) \in Nat /\ Len(b) \in Nat /\ Len(d) =< Len(b)
  BY LenProperties DEF Cut
<1>1. Len(U16(n)) = 2 /\ m + 2 =< Len(b)
  BY U16Bytes DEF Has
<1>2. CASE r = Threw /\ Len(d) < Len(b)
  <2>1. \A left : Turn(d, r, left) = Threw
    BY <1>2 DEF Turn, Threw
  <2>. QED
    BY <1>2, <2>1 DEF Stands
<1>3. CASE r = At(m, l) /\ m + 1 >= Len(d)
  <2>1. r.shift = m
    BY <1>3 DEF At
  <2>2. \A left : Turn(d, r, left) = Threw
    BY <1>3, <2>1 DEF Turn
  <2>3. Len(d) < Len(b)
    BY <1>0, <1>1, <1>3
  <2>. QED
    BY <2>2, <2>3 DEF Stands
<1>4. CASE r = At(m, l) /\ ~(m + 1 >= Len(d))
  <2>1. Has(d, m, U16(n))
    <3>1. m + 2 =< Len(d)
      BY <1>0, <1>4
    <3>2. ASSUME NEW i \in 1..2 PROVE d[m + i] = U16(n)[i]
      <4>1. m + i \in 1..Len(d)
        BY <1>0, <3>1
      <4>2. b[m + i] = U16(n)[i]
        BY <1>1 DEF Has
      <4>. QED
        BY <4>1, <4>2 DEF Cut
    <3>. QED
      BY <1>1, <3>1, <3>2 DEF Has
  <2>. QED
    BY <1>0, <1>4, <2>1, TurnAt DEF Stands
<1>. QED
  BY <1>2, <1>3, <1>4 DEF Stands

\* The loop ends at the password, or where the data does.
LEMMA ShiftedCut ==
  ASSUME NEW p \in Connects, p.creds # <<>>, WellSized(p), NEW d, Cut(d, Bytes(p))
  PROVE  LET o == 11 + Len(Sizes(p))
             m == o + Len(p.id) + 2 + Len(Will(p)) + Len(p.creds[1]) + 4
         IN  Stands(d, Bytes(p), Shifted(d, o, IF p.will = <<>> THEN 3 ELSE 5), m, Len(p.creds[2]))
<1>. DEFINE b == Bytes(p)  o == 11 + Len(Sizes(p))  w == Len(Will(p))  i == Len(p.id)
            q == o + i + 2  c == q + w  u == Len(p.creds[1])  k == Len(p.creds[2])
<1>1. i \in Lens /\ u \in Lens /\ k \in Lens /\ i \in Nat
  <2>1. p.id \in Strings /\ p.creds[1] \in Strings /\ p.creds[2] \in Strings
    BY ConnectsType, PairsType
  <2>. QED
    BY <2>1, StringsType
<1>3. Good(i) /\ Good(u) /\ Good(k)
  BY GoodLengths
<1>4. b \in Seq(Nat) /\ w \in Nat /\ Cut(d, b)
  BY BytesBytes, FieldsBytes
<1>5. /\ o \in Nat /\ q \in Nat /\ c \in Nat /\ u \in Nat
      /\ Has(b, o, U16(i)) /\ Has(b, q, Will(p)) /\ Has(b, c, U16(u))
      /\ Has(b, c + u + 2, U16(k))
  BY Offsets
<1>. HIDE DEF b, o, w, i, u, k
<1>6. c + u + 2 \in Nat /\ c + u + 2 + 2 = c + u + 4
  <2>. HIDE DEF c
  <2>. QED
    BY <1>5
<1>7. Stands(d, b, First(o), o, 0)
  BY DEF First, At, Stands
<1>8. \A left \in 1..4 : Stands(d, b, Turn(d, First(o), left), q, i)
  BY <1>1, <1>3, <1>4, <1>5, <1>7, TurnCut
<1>. HIDE DEF q, c
<1>9. ASSUME NEW r, NEW l, Stands(d, b, r, c, l)
      PROVE  Stands(d, b, Turn(d, Turn(d, r, 1), 0), c + u + 4, k)
  <2>. DEFINE r1 == Turn(d, r, 1)  m == c + u + 2
  <2>1. Stands(d, b, r1, m, u)
    <3>1. 1 \in 1..4
      OBVIOUS
    <3>. QED
      BY <1>1, <1>3, <1>4, <1>5, <1>9, <3>1, TurnCut, Zenon
  <2>2. m \in Nat /\ Has(b, m, U16(k)) /\ m + 2 = c + u + 4
    BY <1>5, <1>6
  <2>. HIDE DEF r1, m
  <2>3. Stands(d, b, Turn(d, r1, 0), m + 2, k)
    BY <1>1, <1>3, <1>4, <2>1, <2>2, TurnCut
  <2>. QED
    BY <2>2, <2>3 DEF r1
<1>10. c + u + 4 = o + i + 2 + w + u + 4
  BY DEF c, q
<1>13. CASE p.will = <<>>
  <2>1. w = 0
    BY <1>13, ConnectsType, TwoFieldsBytes DEF w, Will
  <2>2. c = q
    BY <1>5, <2>1 DEF c
  <2>3. Shifted(d, o, 3) = Turn(d, Turn(d, Turn(d, First(o), 2), 1), 0)
    BY ThreeTurns
  <2>4. Stands(d, b, Turn(d, First(o), 2), c, i)
    BY <1>8, <2>2
  <2>5. Stands(d, b, Shifted(d, o, 3), c + u + 4, k)
    BY <1>9, <2>3, <2>4
  <2>. QED
    BY <1>10, <1>13, <2>5 DEF b, o, w, i, u, k
<1>14. CASE p.will # <<>>
  <2>. DEFINE x == Len(p.will[1])  y == Len(p.will[2])
  <2>1. x \in Lens /\ y \in Lens /\ x \in Nat /\ y \in Nat
    <3>1. p.will[1] \in Strings /\ p.will[2] \in Strings
      BY <1>14, ConnectsType, PairsType
    <3>. QED
      BY <3>1, StringsType
  <2>2. Good(x) /\ Good(y)
    BY <1>14, GoodLengths
  <2>3. w = x + 2 + (y + 2) /\ Has(Will(p), 0, U16(x)) /\ Has(Will(p), x + 2, U16(y))
    BY <1>14, ConnectsType, TwoFieldsBytes DEF w, Will
  <2>. HIDE DEF x, y
  <2>4. Has(b, q + 0, U16(x)) /\ Has(b, q + (x + 2), U16(y))
    <3>1. Len(b) \in Nat /\ Len(Will(p)) \in Nat
      BY <1>4, LenProperties DEF w
    <3>2. Len(U16(x)) \in Nat /\ Len(U16(y)) \in Nat
      BY <2>1, U16Bytes
    <3>. QED
      BY <1>5, <2>3, <3>1, <3>2, HasIn
  <2>5. q + 0 = q /\ q + (x + 2) = q + x + 2 /\ q + x + 2 + y + 2 = c /\ q + x + 2 \in Nat
    <3>1. \A e, g, h \in Nat : /\ e + 0 = e /\ e + (g + 2) = e + g + 2 /\ e + g + 2 \in Nat
                              /\ e + g + 2 + h + 2 = e + (g + 2 + (h + 2))
      OBVIOUS
    <3>. QED
      BY <1>5, <2>1, <2>3, <3>1 DEF c
  <2>6. Has(b, q, U16(x)) /\ Has(b, q + x + 2, U16(y))
    BY <2>4, <2>5
  <2>. DEFINE r1 == Turn(d, First(o), 4)  r2 == Turn(d, r1, 3)  r3 == Turn(d, r2, 2)
  <2>7. Stands(d, b, r1, q, i)
    BY <1>8
  <2>. HIDE DEF r1
  <2>8. Stands(d, b, r2, q + x + 2, x)
    <3>1. 3 \in 1..4
      OBVIOUS
    <3>. QED
      BY <1>4, <1>5, <2>1, <2>2, <2>6, <2>7, <3>1, TurnCut, Zenon
  <2>. HIDE DEF r2
  <2>9. Stands(d, b, r3, c, y)
    <3>. DEFINE m == q + x + 2
    <3>1. m \in Nat /\ Has(b, m, U16(y)) /\ Stands(d, b, r2, m, x) /\ m + y + 2 = c
      BY <2>5, <2>6, <2>8
    <3>. HIDE DEF m
    <3>2. \A left \in 1..4 : Stands(d, b, Turn(d, r2, left), m + y + 2, y)
      BY <1>4, <2>1, <2>2, <3>1, TurnCut
    <3>. QED
      BY <3>1, <3>2
  <2>. HIDE DEF r3
  <2>10. Shifted(d, o, 5) = Turn(d, Turn(d, r3, 1), 0)
    BY FiveTurns DEF r1, r2, r3
  <2>11. Stands(d, b, Shifted(d, o, 5), c + u + 4, k)
    BY <1>9, <2>9, <2>10
  <2>. QED
    BY <1>10, <1>14, <2>11 DEF b, o, w, i, u, k
<1>. QED
  BY <1>13, <1>14

\* Without the bytes of the first length, the loop throws.
LEMMA ShortThrows ==
  ASSUME NEW d, NEW start, start + 1 >= Len(d), NEW n, n = 3 \/ n = 5
  PROVE  Shifted(d, start, n) = Threw
<1>1. \A left : Turn(d, First(start), left) = Threw
  BY DEF Turn, First
<1>2. \A left : Turn(d, Threw, left) = Threw
  BY DEF Turn, Threw
<1>. QED
  BY <1>1, <1>2, ThreeTurns, FiveTurns

\* What parsePackage gives for the first chunk of a well sized packet: an
\* exception, when the chunk is not the whole, or a front part of the password,
\* and all of it when the chunk is the whole.
LEMMA ParseCut ==
  ASSUME NEW p \in Connects, WellSized(p), NEW d, Cut(d, Bytes(p)), Len(d) > 0
  PROVE  LET r == parsePackage(d)  k == Password(p)
         IN  \/ r.ok = FALSE /\ Len(d) < Len(Bytes(p))
             \/ /\ r.ok = TRUE /\ r.pass \in Seq(Nat) /\ Len(r.pass) =< Len(k)
                /\ \A i \in 1..Len(r.pass) : r.pass[i] = k[i]
                /\ Len(d) = Len(Bytes(p)) => Len(r.pass) = Len(k)
<1>. DEFINE b == Bytes(p)  L == Len(Sizes(p))  o == 11 + L  k == Password(p)
            m == o + Len(p.id) + 2 + Len(Will(p)) + Len(p.creds[1]) + 4
            fp == 1 + LenSize(d) + 2 + 4 + 1  fl == codePointAt(d, fp)
            at == Shifted(d, fp + 3, ShiftFlags(fl))
            end == IF at.shift + at.len < Len(d) THEN at.shift + at.len ELSE Len(d)
            r == parsePackage(d)
<1>1. /\ b \in Seq(Nat) /\ L \in 1..3 /\ Len(b) = 11 + L + Len(Fields(p))
      /\ b[L + 9] = Flags(p)
  BY BytesBytes
<1>2. Len(b) \in Nat /\ Len(Fields(p)) \in Nat /\ d \in Seq(Nat) /\ Len(d) \in Nat /\ Len(d) =< Len(b)
  BY <1>1, FieldsBytes, LenProperties DEF Cut
<1>3. r = IF fl # Undefined /\ fl < 192 THEN [ok |-> TRUE, pass |-> <<>>]
          ELSE [ok |-> at.ok, pass |-> SubSeq(d, at.shift + 1, end)]
  BY DEF parsePackage
<1>4. LenSize(d) \in Nat
  BY LenSizeNat
<1>5. ShiftFlags(fl) = 3 \/ ShiftFlags(fl) = 5
  BY DEF ShiftFlags
<1>6. CASE Len(d) =< fp /\ Len(d) < Len(b)
  <2>1. fl = Undefined
    BY <1>2, <1>4, <1>6 DEF codePointAt
  <2>2. fp + 3 + 1 >= Len(d)
    BY <1>2, <1>4, <1>6
  <2>. HIDE DEF fp, fl
  <2>3. at = Threw
    BY <1>5, <2>2, ShortThrows
  <2>. HIDE DEF at
  <2>4. at.ok = FALSE
    BY <2>3 DEF Threw
  <2>. HIDE DEF r, end
  <2>5. r.ok = FALSE
    BY <1>3, <2>1, <2>4
  <2>. QED
    BY <1>6, <2>5 DEF r, b
<1>7. CASE Len(d) =< L
  <2>1. Len(d) =< fp /\ Len(d) < Len(b)
    <3>. DEFINE B == Len(b)  D == Len(d)  F == Len(Fields(p))  S == LenSize(d)
    <3>1. L \in 1..3 /\ D \in Nat /\ F \in Nat /\ S \in Nat /\ B = 11 + L + F /\ D =< L
      BY <1>1, <1>2, <1>4, <1>7
    <3>2. fp = 1 + S + 2 + 4 + 1
      OBVIOUS
    <3>. HIDE DEF B, D, F, S, L, fp
    <3>3. D =< fp /\ D < B
      BY <3>1, <3>2
    <3>. QED
      BY <3>3 DEF B, D
  <2>. QED
    BY <1>6, <2>1
<1>8. CASE ~(Len(d) =< L)
  <2>1. LenSize(d) = L
    <3>1. L < Len(d)
      <4>. HIDE DEF L
      <4>. QED
        BY <1>1, <1>2, <1>8
    <3>. QED
      BY <3>1, LenSizeExact, GoodLengths
  <2>. HIDE DEF b, L, r
  <2>2. fp = L + 8 /\ fp + 1 = L + 9 /\ fp + 3 = o /\ fp < Len(b) /\ fp \in Nat
    BY <1>1, <1>2, <2>1
  <2>3. CASE Len(d) =< fp
    <3>1. Len(d) < Len(b)
      <4>. HIDE DEF fp
      <4>. QED
        BY <1>2, <2>2, <2>3
    <3>. QED
      BY <1>6, <2>3, <3>1
  <2>4. CASE ~(Len(d) =< fp)
    <3>1. fl = Flags(p)
      <4>. HIDE DEF fp
      <4>1. fp < Len(d) /\ L + 9 \in 1..Len(d) /\ fp + 1 = L + 9
        BY <1>1, <1>2, <2>2, <2>4
      <4>2. d[L + 9] = b[L + 9]
        BY <4>1 DEF Cut, b
      <4>. QED
        BY <1>1, <4>1, <4>2 DEF codePointAt
    <3>2. CASE p.creds = <<>>
      <4>1. fl \in {2, 6}
        BY <3>1, <3>2 DEF Flags
      <4>. HIDE DEF fl, at, end, fp
      <4>2. r = [ok |-> TRUE, pass |-> <<>>]
        BY <1>3, <4>1 DEF Undefined
      <4>3. k = <<>>
        BY <3>2 DEF Password
      <4>4. r.ok = TRUE /\ r.pass = <<>> /\ <<>> \in Seq(Nat) /\ Len(<<>>) = 0
        BY <4>2, EmptySeq
      <4>. HIDE DEF k
      <4>5. r.pass \in Seq(Nat) /\ Len(r.pass) = 0 /\ Len(k) = 0
        BY <4>3, <4>4
      <4>. QED
        BY <4>4, <4>5 DEF r, k
    <3>3. CASE p.creds # <<>>
      <4>1. fl = IF p.will = <<>> THEN 194 ELSE 198
        BY <3>1, <3>3 DEF Flags
      <4>2. ShiftFlags(fl) = (IF p.will = <<>> THEN 3 ELSE 5) /\ ~(fl # Undefined /\ fl < 192)
        BY <4>1 DEF ShiftFlags, Undefined
      <4>3. k = p.creds[2] /\ Has(b, m, k) /\ m \in Nat /\ Len(k) \in Nat
        <5>1. k = p.creds[2]
          BY <3>3 DEF Password
        <5>2. Has(b, m, p.creds[2])
          BY <3>3, Offsets DEF b, L
        <5>3. p.creds[2] \in Strings
          BY <3>3, ConnectsType, PairsType
        <5>. HIDE DEF m, k
        <5>. QED
          BY <5>1, <5>2, <5>3, StringsType DEF Has
      <4>4. Stands(d, b, Shifted(d, o, IF p.will = <<>> THEN 3 ELSE 5), m, Len(p.creds[2]))
        BY <3>3, ShiftedCut DEF b, L
      <4>. HIDE DEF m, k, fp, fl, o
      <4>5. Stands(d, b, at, m, Len(k))
        BY <2>2, <4>2, <4>3, <4>4
      <4>6. r = [ok |-> at.ok, pass |-> SubSeq(d, at.shift + 1, end)]
        BY <1>3, <4>2
      <4>. HIDE DEF at
      <4>7. CASE at = Threw /\ Len(d) < Len(b)
        <5>1. r.ok = FALSE
          BY <4>6, <4>7 DEF Threw
        <5>. QED
          BY <4>7, <5>1 DEF r, b
      <4>8. CASE at = At(m, Len(k))
        <5>. DEFINE e == IF m + Len(k) < Len(d) THEN m + Len(k) ELSE Len(d)
        <5>1. at.ok = TRUE /\ at.shift = m /\ at.len = Len(k)
          BY <4>8 DEF At
        <5>2. r.ok = TRUE /\ r.pass = SubSeq(d, m + 1, e)
          BY <4>6, <5>1
        <5>3. e \in Nat /\ e =< Len(d) /\ e =< m + Len(k)
          BY <1>2, <4>3
        <5>4. m + Len(k) =< Len(b)
          BY <4>3 DEF Has
        <5>5. Len(d) = Len(b) => e = m + Len(k)
          BY <1>2, <4>3, <5>4
        <5>. HIDE DEF e
        <5>6. \A i \in m + 1..e : d[i] \in Nat
          <6>1. \A i \in m + 1..e : i \in 1..Len(d)
            BY <1>2, <4>3, <5>3
          <6>. QED
            BY <1>2, <6>1, ElementOfSeq
        <5>7. /\ r.pass \in Seq(Nat) /\ Len(r.pass) = IF m + 1 <= e THEN e - (m + 1) + 1 ELSE 0
              /\ \A i \in 1..e - (m + 1) + 1 : r.pass[i] = d[m + 1 + i - 1]
          <6>. DEFINE s == SubSeq(d, m + 1, e)
          <6>1. m + 1 \in Int /\ e \in Int
            BY <4>3, <5>3
          <6>2. /\ s \in Seq(Nat) /\ Len(s) = IF m + 1 <= e THEN e - (m + 1) + 1 ELSE 0
                /\ \A i \in 1..e - (m + 1) + 1 : s[i] = d[m + 1 + i - 1]
            BY <5>6, <6>1, SubSeqProperties
          <6>. QED
            BY <5>2, <6>2
        <5>. DEFINE l == Len(r.pass)
        <5>8. /\ l \in Nat /\ l =< Len(k) /\ (Len(d) = Len(b) => l = Len(k))
              /\ \A i \in 1..l : i \in 1..e - (m + 1) + 1 /\ m + 1 + i - 1 = m + i
                                 /\ m + i \in 1..Len(d) /\ i \in 1..Len(k)
          <6>1. l = IF m + 1 <= e THEN e - (m + 1) + 1 ELSE 0
            BY <5>7
          <6>. DEFINE K == Len(k)  D == Len(d)
          <6>2. /\ m \in Nat /\ K \in Nat /\ D \in Nat /\ e \in Nat /\ e =< D /\ e =< m + K
                /\ (D = Len(b) => e = m + K)
            BY <1>2, <4>3, <5>3, <5>5
          <6>. HIDE DEF l, K, D
          <6>3. l \in Nat /\ l =< K /\ (D = Len(b) => l = K)
            BY <6>1, <6>2
          <6>4. ASSUME NEW i \in 1..l
                PROVE  i \in 1..e - (m + 1) + 1 /\ m + 1 + i - 1 = m + i /\ m + i \in 1..D /\ i \in 1..K
            BY <6>1, <6>2, <6>3
          <6>. QED
            BY <6>3, <6>4 DEF K, D
        <5>9. ASSUME NEW i \in 1..l PROVE r.pass[i] = k[i]
          <6>1. i \in 1..e - (m + 1) + 1 /\ m + 1 + i - 1 = m + i /\ m + i \in 1..Len(d) /\ i \in 1..Len(k)
            BY <5>8
          <6>2. r.pass[i] = d[m + i]
            BY <5>7, <6>1
          <6>3. d[m + i] = b[m + i]
            BY <6>1 DEF Cut, b
          <6>4. b[m + i] = k[i]
            BY <4>3, <6>1 DEF Has
          <6>. QED
            BY <6>2, <6>3, <6>4
        <5>. QED
          BY <5>2, <5>7, <5>8, <5>9 DEF r, b, k
      <4>. QED
        BY <4>5, <4>7, <4>8 DEF Stands
    <3>. QED
      BY <3>2, <3>3
  <2>. QED
    BY <2>3, <2>4
<1>. QED
  BY <1>7, <1>8
-----------------------------------------------------------------------------
(* The gate. *)

\* A set of numbers has a smallest one, which is what Min returns.
LEMMA MinOfNats ==
  ASSUME NEW S, S \subseteq Nat, S # {}
  PROVE  Min(S) \in S
<1>1. IsWellFoundedOn(OpToRel(<, Nat), Nat)
  BY NatLessThanWellFounded
<1>2. PICK x \in S : \A y \in S : ~(<<y, x>> \in OpToRel(<, Nat))
  BY <1>1, WFMin
<1>3. \A y \in Nat : y < x => <<y, x>> \in OpToRel(<, Nat)
  BY DEF OpToRel
<1>4. \A y \in S : ~(y < x)
  BY <1>2, <1>3
<1>5. \A y \in S : x =< y
  BY <1>4
<1>. QED
  BY <1>5 DEF Min

\* The name of a certificate is a key, or there is none.
LEMMA CertType ==
  ASSUME NEW dn \in DNs \cup {NoCert}
  PROVE  parseCert(dn) \in Keys \cup {NoKey}
<1>. DEFINE R == [name : STRING, value : Keys]
            I == {i \in 1..Len(dn) : dn[i].name \in {"CN", "cn"}}
            j == IF I # {} THEN Min(I) ELSE 0
<1>1. dn \in Seq(R)
  <2>1. \A d \in DNs : d \in Seq(R)
    BY GateAssumption
  <2>. HIDE DEF R
  <2>2. NoCert \in Seq(R)
    BY EmptySeq DEF NoCert
  <2>. QED
    BY <2>1, <2>2
<1>2. parseCert(dn) = IF j = 0 THEN NoKey ELSE dn[j].value
  BY DEF parseCert, SelectInSeq
<1>3. CASE I = {}
  BY <1>2, <1>3
<1>4. CASE I # {}
  <2>1. j \in I
    BY <1>4, MinOfNats
  <2>2. dn[j] \in R
    BY <1>1, <2>1, ElementOfSeq
  <2>. HIDE DEF j
  <2>. QED
    BY <1>2, <2>2
<1>. QED
  BY <1>3, <1>4

Subject(s) == parseCert(cert[s].dn)

\* What becomes of a session whose first chunk are n bytes of p.
Outcome(p, n, key) ==
  LET found == parsePackage(SubSeq(Bytes(p), 1, n))
  IN  IF ~found.ok THEN "failed" ELSE IF Matches(key, found.pass) THEN "allowed" ELSE "denied"

\* Types.
GateType ==
  /\ state \in [Sessions -> {"new", "preread", "allowed", "denied", "failed", "http"}]
  /\ cert \in [Sessions -> [dn : DNs \cup {NoCert}, verify : {"SUCCESS", "NONE"}]]
  /\ packet \in [Sessions -> Connects] /\ sent \in [Sessions -> Nat]
  /\ clientKey \in [Sessions -> Keys \cup {NoKey}]
  /\ request \in [Sessions -> Requests] /\ authKey \in [Sessions -> Keys \cup {NoKey}]

\* The global holds the certificate's name once it holds anything; data is looked
\* at only behind a verified certificate, and the packet decided.
Decided(s) ==
  /\ clientKey[s] = NoKey \/ clientKey[s] = Subject(s)
  /\ state[s] = "preread" => cert[s].verify = "SUCCESS"
  /\ sent[s] > 0 => /\ cert[s].verify = "SUCCESS" /\ sent[s] =< Len(Bytes(packet[s]))
                    /\ state[s] = Outcome(packet[s], sent[s], Subject(s))

GateInv == GateType /\ (\A s \in Sessions : Decided(s)) /\ UpstreamKeyIsCertified

\* Initially nothing has come.
LEMMA GateInitInv ==
  GateInit => GateInv
<1>1. SUFFICES ASSUME GateInit PROVE GateInv
  OBVIOUS
<1>2. NoPacket \in Connects
  <2>1. <<>> \in Strings
    BY EmptySeq DEF Strings
  <2>. QED
    BY <2>1 DEF NoPacket, Connects
<1>3. NoRequest \in Requests
  BY DEF NoRequest, Requests
<1>4. GateType
  BY <1>1, <1>2, <1>3 DEF GateInit, GateType
<1>5. ASSUME NEW s \in Sessions PROVE Decided(s) /\ authKey[s] = NoKey
  BY <1>1 DEF GateInit, Decided
<1>. QED
  BY <1>4, <1>5 DEF GateInv, UpstreamKeyIsCertified

\* What Key gives is the certificate's name.
LEMMA KeyIsSubject ==
  ASSUME GateInv, NEW s \in Sessions
  PROVE  Key(s) = Subject(s) /\ Subject(s) \in Keys \cup {NoKey}
<1>1. cert[s].dn \in DNs \cup {NoCert}
  BY DEF GateInv, GateType
<1>2. Subject(s) \in Keys \cup {NoKey}
  BY <1>1, CertType DEF Subject
<1>. QED
  BY <1>2 DEF GateInv, Decided, Key, Subject

\* A session that has sent data is decided.
LEMMA OutcomeFinal ==
  ASSUME NEW p, NEW n, NEW k
  PROVE  Outcome(p, n, k) \in {"failed", "allowed", "denied"}
BY DEF Outcome

\* What holds of the other sessions stays.
LEMMA OthersStay ==
  ASSUME GateInv, NEW s \in Sessions, UNCHANGED cert,
         \A t \in Sessions \ {s} :
           /\ state'[t] = state[t] /\ packet'[t] = packet[t] /\ sent'[t] = sent[t]
           /\ clientKey'[t] = clientKey[t]
  PROVE  \A t \in Sessions \ {s} : Decided(t)'
<1>1. SUFFICES ASSUME NEW t \in Sessions \ {s} PROVE Decided(t)'
  OBVIOUS
<1>2. Subject(t)' = Subject(t)
  BY DEF Subject
<1>3. Decided(t)
  BY DEF GateInv
<1>. QED
  BY <1>2, <1>3 DEF Decided

\* The handler before the first byte, and data that is no CONNECT packet.
LEMMA PrereadStep ==
  ASSUME GateInv, NEW s \in Sessions, authenticate(s) \/ UploadOther(s)
  PROVE  GateInv'
<1>1. /\ UNCHANGED <<cert, packet, sent, clientKey, request, authKey>>
      /\ state[s] \in {"new", "preread"}
  BY DEF authenticate, UploadOther
<1>2. PICK x \in {"preread", "allowed", "denied"} :
        state' = [state EXCEPT ![s] = x] /\ (x = "preread" => cert[s].verify = "SUCCESS")
  BY DEF authenticate, UploadOther, Put
<1>3. GateType'
  BY <1>1, <1>2 DEF GateInv, GateType
<1>4. Decided(s)'
  <2>1. Decided(s) /\ state'[s] = x /\ Subject(s)' = Subject(s)
    BY <1>1, <1>2 DEF GateInv, GateType, Subject
  <2>2. ~(sent[s] > 0)
    BY <1>1, <2>1, OutcomeFinal DEF Decided
  <2>. QED
    BY <1>1, <1>2, <2>1, <2>2 DEF Decided
<1>5. \A t \in Sessions \ {s} : Decided(t)'
  BY <1>1, <1>2, OthersStay DEF GateInv, GateType
<1>6. UpstreamKeyIsCertified'
  BY <1>1 DEF GateInv, UpstreamKeyIsCertified, Certified
<1>. QED
  BY <1>3, <1>4, <1>5, <1>6 DEF GateInv

\* The first chunk of a CONNECT packet.
LEMMA UploadStep ==
  ASSUME GateInv, NEW s \in Sessions, NEW p \in Packets, NEW n \in Arrivals(p), Upload(s, p, n)
  PROVE  GateInv'
<1>1. p \in Connects
  BY GateAssumption
<1>2. n \in Nat /\ n =< Len(Bytes(p))
  <2>1. Len(Bytes(p)) \in Nat
    BY <1>1, BytesBytes, LenProperties
  <2>. QED
    BY <2>1, GateAssumption DEF Arrivals
<1>3. Key(s) = Subject(s) /\ Subject(s) \in Keys \cup {NoKey} /\ Subject(s)' = Subject(s)
  BY KeyIsSubject DEF Upload, Subject
<1>4. /\ UNCHANGED <<cert, request, authKey>> /\ state[s] = "preread" /\ n > 0
      /\ packet' = [packet EXCEPT ![s] = p] /\ sent' = [sent EXCEPT ![s] = n]
      /\ clientKey' = [clientKey EXCEPT ![s] = Subject(s)]
      /\ state' = [state EXCEPT ![s] = Outcome(p, n, Subject(s))]
  BY <1>3 DEF Upload, Put, Outcome
<1>5. Outcome(p, n, Subject(s)) \in {"failed", "allowed", "denied"}
  BY OutcomeFinal
<1>6. GateType'
  BY <1>1, <1>2, <1>3, <1>4, <1>5 DEF GateInv, GateType
<1>7. Decided(s)'
  <2>1. /\ state'[s] = Outcome(p, n, Subject(s)) /\ packet'[s] = p /\ sent'[s] = n
        /\ clientKey'[s] = Subject(s)
    BY <1>4 DEF GateInv, GateType
  <2>2. cert[s].verify = "SUCCESS"
    BY <1>4 DEF GateInv, Decided
  <2>. QED
    BY <1>2, <1>3, <1>4, <1>5, <2>1, <2>2 DEF Decided
<1>8. \A t \in Sessions \ {s} : Decided(t)'
  BY <1>4, OthersStay DEF GateInv, GateType
<1>9. UpstreamKeyIsCertified'
  BY <1>4 DEF GateInv, UpstreamKeyIsCertified, Certified
<1>. QED
  BY <1>6, <1>7, <1>8, <1>9 DEF GateInv

\* An HTTP request.
LEMMA HttpStep ==
  ASSUME GateInv, NEW s \in Sessions, NEW r \in Requests, setKey(s, r)
  PROVE  GateInv'
<1>. DEFINE k == Subject(s)
<1>1. Key(s) = k /\ k \in Keys \cup {NoKey} /\ Subject(s)' = k
  BY KeyIsSubject DEF setKey, Subject
<1>2. /\ UNCHANGED <<cert, packet, sent>> /\ state[s] = "new" /\ cert[s].verify = "SUCCESS"
      /\ state' = [state EXCEPT ![s] = "http"] /\ request' = [request EXCEPT ![s] = r]
      /\ clientKey' = [clientKey EXCEPT ![s] = k]
      /\ authKey' = [authKey EXCEPT ![s] = KeyFor(k, r)]
  BY <1>1 DEF setKey, Put
<1>3. KeyFor(k, r) # NoKey =>
        KeyFor(k, r) = k /\ r.auth \in {NoKey, k} /\ (r.ws => k \in {r.auth, r.arg})
  <2>. HIDE DEF k
  <2>. QED
    BY DEF KeyFor
<1>4. KeyFor(k, r) \in Keys \cup {NoKey}
  BY <1>1, <1>3
<1>. HIDE DEF k
<1>5. GateType'
  BY <1>1, <1>2, <1>4 DEF GateInv, GateType
<1>6. Decided(s)'
  <2>1. state'[s] = "http" /\ clientKey'[s] = k
    BY <1>2 DEF GateInv, GateType
  <2>2. ~(sent[s] > 0)
    BY <1>2, OutcomeFinal DEF GateInv, Decided
  <2>. QED
    BY <1>1, <1>2, <2>1, <2>2 DEF Decided
<1>7. \A t \in Sessions \ {s} : Decided(t)'
  BY <1>2, OthersStay DEF GateInv, GateType
<1>8. UpstreamKeyIsCertified'
  <2>1. SUFFICES ASSUME NEW t \in Sessions, authKey'[t] # NoKey
                 PROVE  /\ Certified(t, authKey[t])' /\ request'[t].auth \in {NoKey, authKey'[t]}
                        /\ request'[t].ws => authKey'[t] \in {request'[t].auth, request'[t].arg}
    BY DEF UpstreamKeyIsCertified
  <2>2. CASE t = s
    <3>1. authKey'[s] = KeyFor(k, r) /\ request'[s] = r
      BY <1>2 DEF GateInv, GateType
    <3>2. parseCert(cert'[s].dn) = k /\ cert'[s].verify = "SUCCESS"
      BY <1>2 DEF k, Subject
    <3>. QED
      BY <1>3, <2>1, <2>2, <3>1, <3>2 DEF Certified
  <2>3. CASE t # s
    <3>1. authKey'[t] = authKey[t] /\ request'[t] = request[t] /\ cert'[t] = cert[t]
      BY <1>2, <2>3 DEF GateInv, GateType
    <3>. QED
      BY <2>1, <3>1 DEF GateInv, UpstreamKeyIsCertified, Certified
  <2>. QED
    BY <2>2, <2>3
<1>. QED
  BY <1>5, <1>6, <1>7, <1>8 DEF GateInv

\* The invariant of the gate holds in every state.
THEOREM GateInductive == GateSpec => []GateInv
<1>1. GateInit => GateInv
  BY GateInitInv
<1>2. ASSUME GateInv, [GateNext]_gateVars PROVE GateInv'
  <2>1. CASE GateNext
    BY <1>2, <2>1, PrereadStep, UploadStep, HttpStep DEF GateNext
  <2>2. CASE UNCHANGED gateVars
    <3>1. GateType'
      BY <1>2, <2>2 DEF gateVars, GateInv, GateType
    <3>2. ASSUME NEW s \in Sessions PROVE Decided(s)'
      <4>1. Decided(s)
        BY <1>2 DEF GateInv
      <4>. QED
        BY <2>2, <4>1 DEF gateVars, Decided, Subject
    <3>3. UpstreamKeyIsCertified'
      BY <1>2, <2>2 DEF gateVars, GateInv, UpstreamKeyIsCertified, Certified
    <3>. QED
      BY <3>1, <3>2, <3>3 DEF GateInv
  <2>. QED
    BY <1>2, <2>1, <2>2
<1>. QED
  BY <1>1, <1>2, PTL DEF GateSpec

\* A key that is all that parsePackage has found of a password that is a key is
\* that key.
LEMMA KeyFound ==
  ASSUME NEW p, NEW k \in Keys, Password(p) \in Keys \cup {NoKey}, Len(k) =< Len(Password(p)),
         \A i \in 1..Len(k) : k[i] = Password(p)[i]
  PROVE  k = Password(p)
<1>. DEFINE w == Password(p)
<1>1. \A x \in Keys : x \in Seq(Byte) /\ Len(x) = KeyLen /\ KeyLen \in Nat \ {0}
  <2>1. SUFFICES ASSUME NEW x \in Keys PROVE x \in Seq(Byte) /\ Len(x) = KeyLen /\ KeyLen \in Nat \ {0}
    OBVIOUS
  <2>2. KeyLen \in Nat \ {0} /\ x \in [1..KeyLen -> Byte]
    BY KeysAssumption
  <2>3. x \in Seq(Byte)
    BY <2>2, IsASeq
  <2>4. Len(x) = KeyLen
    BY <2>2, <2>3, LenProperties
  <2>. QED
    BY <2>2, <2>3, <2>4
<1>. HIDE DEF w
<1>2. w \in Keys
  <2>1. SUFFICES ASSUME w = NoKey PROVE FALSE
    BY DEF w
  <2>2. Len(w) = 0
    BY <2>1, EmptySeq DEF NoKey
  <2>3. Len(k) =< Len(w)
    BY DEF w
  <2>. QED
    BY <1>1, <2>2, <2>3
<1>3. k \in Seq(Byte) /\ w \in Seq(Byte) /\ Len(k) = Len(w) /\ \A i \in 1..Len(k) : k[i] = w[i]
  BY <1>1, <1>2 DEF w
<1>4. k = w
  BY <1>3, SeqEqual
<1>. QED
  BY <1>4 DEF w

\* authenticate and parsePackage (docker/ssl/authorization.js) let a CONNECT
\* packet whose lengths the parser gets right pass only with a verified
\* certificate for its password, for all contents of its fields and wherever the
\* first chunk ends.
THEOREM OnlyHolders == GateSpec => []AllowedIsCertified
<1>1. GateInv => AllowedIsCertified
  <2>1. SUFFICES ASSUME GateInv, NEW s \in Sessions, state[s] = "allowed", sent[s] > 0,
                        WellSized(packet[s]), Password(packet[s]) \in Keys \cup {NoKey}
                 PROVE  Certified(s, Password(packet[s]))
    BY DEF AllowedIsCertified
  <2>. DEFINE p == packet[s]  n == sent[s]  k == Subject(s)  d == SubSeq(Bytes(p), 1, n)
              found == parsePackage(d)
  <2>2. p \in Connects /\ n \in Nat
    BY <2>1 DEF GateInv, GateType
  <2>3. cert[s].verify = "SUCCESS" /\ n =< Len(Bytes(p)) /\ Outcome(p, n, k) = "allowed"
    BY <2>1 DEF GateInv, Decided
  <2>4. k \in Keys \cup {NoKey}
    BY <2>1, KeyIsSubject
  <2>5. n > 0 /\ WellSized(p) /\ Password(p) \in Keys \cup {NoKey}
    BY <2>1
  <2>. HIDE DEF p, n, k
  <2>6. found.ok /\ Matches(k, found.pass)
    BY <2>3 DEF Outcome
  <2>7. k \in Keys /\ k # NoKey /\ found.pass = k
    BY <2>4, <2>6 DEF Matches
  <2>8. Bytes(p) \in Seq(Nat)
    BY <2>2, BytesBytes
  <2>9. Cut(d, Bytes(p)) /\ Len(d) = n
    BY <2>2, <2>3, <2>8, CutSub
  <2>. HIDE DEF d
  <2>10. Len(d) > 0
    BY <2>5, <2>9
  <2>11. Len(k) =< Len(Password(p)) /\ \A i \in 1..Len(k) : k[i] = Password(p)[i]
    BY <2>2, <2>5, <2>6, <2>7, <2>9, <2>10, ParseCut
  <2>12. k = Password(p)
    BY <2>5, <2>7, <2>11, KeyFound
  <2>. QED
    BY <2>3, <2>7, <2>12 DEF Certified, Subject, p, k
<1>. QED
  BY <1>1, GateInductive, PTL

\* authenticate and parsePackage let the holder of a certificate in, with or
\* without a will, whenever calcLen and the loop over the remaining length get
\* the packet's lengths right.
THEOREM HoldersPass == GateSpec => []HolderIsAdmitted
<1>1. GateInv => HolderIsAdmitted
  <2>1. SUFFICES ASSUME GateInv, NEW s \in Sessions, Whole(s), WellSized(packet[s]),
                        Certified(s, Password(packet[s]))
                 PROVE  state[s] = "allowed"
    BY DEF HolderIsAdmitted
  <2>. DEFINE p == packet[s]  b == Bytes(p)  k == Password(p)
  <2>2. p \in Connects /\ sent[s] > 0 /\ sent[s] = Len(b)
    BY <2>1 DEF GateInv, GateType, Whole
  <2>3. k # NoKey /\ Subject(s) = k /\ Subject(s) \in Keys \cup {NoKey} /\ WellSized(p)
    BY <2>1, KeyIsSubject DEF Certified, Subject
  <2>4. state[s] = Outcome(p, Len(b), k)
    BY <2>1, <2>2, <2>3 DEF GateInv, Decided
  <2>5. b \in Seq(Nat) /\ Len(b) \in Nat
    BY <2>2, BytesBytes, LenProperties
  <2>6. SubSeq(b, 1, Len(b)) = b
    BY <2>5, SubSeqFull
  <2>7. Cut(b, b) /\ Len(b) > 0
    BY <2>2, <2>5 DEF Cut
  <2>. DEFINE found == parsePackage(b)
  <2>8. /\ found.ok = TRUE /\ found.pass \in Seq(Nat) /\ Len(found.pass) = Len(k)
        /\ \A i \in 1..Len(found.pass) : found.pass[i] = k[i]
    <3>1. ~(Len(b) < Len(b))
      BY <2>5
    <3>. QED
      BY <2>2, <2>3, <2>7, <3>1, ParseCut
  <2>9. k \in Seq(Nat)
    <3>1. k \in Keys
      BY <2>3
    <3>2. KeyLen \in Nat /\ \A x \in Keys : x \in [1..KeyLen -> Byte]
      BY KeysAssumption
    <3>4. \A x \in Byte : x \in Nat
      BY DEF Byte
    <3>3. k \in [1..KeyLen -> Nat]
      BY <3>1, <3>2, <3>4
    <3>. QED
      BY <3>2, <3>3, IsASeq
  <2>. HIDE DEF found, p, k
  <2>10. found.pass = k
    BY <2>8, <2>9, SeqEqual
  <2>11. Outcome(p, Len(b), k) =
           IF ~found.ok THEN "failed" ELSE IF Matches(k, found.pass) THEN "allowed" ELSE "denied"
    BY <2>6 DEF Outcome, found
  <2>12. Matches(k, found.pass)
    BY <2>3, <2>10 DEF Matches
  <2>. QED
    BY <2>4, <2>8, <2>11, <2>12
<1>. QED
  BY <1>1, GateInductive, PTL

\* setKey (docker/ssl/authorization.js) sends a key upstream only with its
\* verified certificate, and only when the credentials that the request gave
\* agree with it.
THEOREM UpstreamKeys == GateSpec => []UpstreamKeyIsCertified
<1>1. GateInv => UpstreamKeyIsCertified
  BY DEF GateInv
<1>. QED
  BY <1>1, GateInductive, PTL
-----------------------------------------------------------------------------
(* The WebSocket adapter never sends on a closed channel.  The mutex alone *)
(* does not give it: Close gives it back with the channel closed, and a    *)
(* callback that waited for it must find the flag set, which WsCloseOrder  *)
(* says.                                                                   *)

\* The flag is set before the goroutine of Subscribe is told and before the
\* channel is closed.
WsCloseOrder ==
  \A w \in Conns : reader[w] \in {"signal", "close"} \/ ~messages[w] => closed[w]

\* The inductive invariant.
WsInv == TypeOK /\ NoSendOnClosed /\ WsCloseOrder

\* The invariant holds before any connection.
LEMMA WsInitInv ==
  Init => WsInv
BY DEF Init, WsInv, TypeOK, Readers, NoSendOnClosed, WsCloseOrder

\* The reader's steps outside Close touch neither the mutex nor the channel.
LEMMA WsReaderInv ==
  ASSUME WsInv, NEW w \in Conns, Handshake(w) \/ Reading(w) \/ Publish(w) \/ Abort(w)
  PROVE  WsInv'
<1>1. UNCHANGED <<callback, mutex, closed, messages>>
  BY DEF Handshake, Reading, ReadMessage, ReadClose, ReadError, Publish, Abort
<1>2. /\ reader[w] \in {"new", "reading", "publish", "abort"}
      /\ \E l \in {"reading", "failed", "publish", "lock", "done", "abort"} :
           reader' = [reader EXCEPT ![w] = l]
  BY DEF Handshake, Reading, ReadMessage, ReadClose, ReadError, Publish,
         Abort, Move
<1>3. TypeOK'
  <2>1. reader' \in [Conns -> Readers]
    BY <1>2 DEF WsInv, TypeOK, Readers
  <2>2. /\ listener' \in [Conns -> {"none", "wait", "write", "done"}]
        /\ ender' \in [Conns -> {"none", "wait", "unsub", "done"}]
        /\ sub' \in [Conns -> BOOLEAN]
        /\ how' \in [Conns -> {"none", "close", "error", "nats"}]
    BY DEF WsInv, TypeOK, Handshake, Reading, ReadMessage, ReadClose,
           ReadError, Publish,
           Abort, Move, Set
  <2>3. \A v \in Conns : mutex'[v] = "reader" <=> reader'[v] \in {"mark", "signal", "close"}
    BY <1>1, <1>2 DEF WsInv, TypeOK
  <2>. QED
    BY <1>1, <2>1, <2>2, <2>3 DEF WsInv, TypeOK
<1>. QED
  BY <1>1, <1>2, <1>3 DEF WsInv, TypeOK, NoSendOnClosed, WsCloseOrder

\* Channel.Close: a callback that holds the mutex keeps it out.
LEMMA WsCloseInv ==
  ASSUME WsInv, NEW w \in Conns, Closing(w)
  PROVE  WsInv'
<1>1. CASE CloseLock(w)
  BY <1>1 DEF CloseLock, Move, WsInv, TypeOK, Readers, NoSendOnClosed,
              WsCloseOrder
<1>2. CASE CloseMark(w)
  BY <1>2 DEF CloseMark, Move, Set, WsInv, TypeOK, Readers, NoSendOnClosed,
              WsCloseOrder
<1>3. CASE CloseSignal(w)
  BY <1>3 DEF CloseSignal, Move, WsInv, TypeOK, Readers, NoSendOnClosed,
              WsCloseOrder
<1>4. CASE CloseChannels(w)
  BY <1>4 DEF CloseChannels, Move, Set, WsInv, TypeOK, Readers,
              NoSendOnClosed, WsCloseOrder
<1>. QED
  BY <1>1, <1>2, <1>3, <1>4 DEF Closing

\* Channel.Send, which looks at the flag once it holds the mutex.
LEMMA WsCallbackInv ==
  ASSUME WsInv, NEW w \in Conns, NatsMessage(w) \/ Callback(w)
  PROVE  WsInv'
<1>1. CASE NatsMessage(w)
  BY <1>1 DEF NatsMessage, Move, WsInv, TypeOK, NoSendOnClosed, WsCloseOrder
<1>2. CASE SendLock(w)
  BY <1>2 DEF SendLock, Move, Set, WsInv, TypeOK, NoSendOnClosed, WsCloseOrder
<1>3. CASE Send(w)
  BY <1>3 DEF Send, Move, Set, WsInv, TypeOK, NoSendOnClosed, WsCloseOrder
<1>. QED
  BY <1>1, <1>2, <1>3 DEF Callback

\* The other two goroutines.
LEMMA WsListenInv ==
  ASSUME WsInv, NEW w \in Conns, Listen(w) \/ Unsubscribe(w)
  PROVE  WsInv'
<1>1. CASE Listen(w)
  <2>1. listener' \in [Conns -> {"none", "wait", "write", "done"}]
    BY <1>1 DEF Listen, Write, ListenEnds, Move, WsInv, TypeOK
  <2>2. UNCHANGED <<reader, ender, callback, mutex, closed, messages, sub, how>>
    BY <1>1 DEF Listen, Write, ListenEnds
  <2>. QED
    BY <2>1, <2>2 DEF WsInv, TypeOK, NoSendOnClosed, WsCloseOrder
<1>2. CASE Unsubscribe(w)
  BY <1>2 DEF Unsubscribe, Move, Set, WsInv, TypeOK, NoSendOnClosed, WsCloseOrder
<1>. QED
  BY <1>1, <1>2

\* The invariant holds in every state.
THEOREM WsInductive == Spec => []WsInv
<1>1. Init => WsInv
  BY WsInitInv
<1>2. ASSUME WsInv, [Next]_vars PROVE WsInv'
  <2>1. CASE Next
    BY <1>2, <2>1, WsReaderInv, WsCloseInv, WsCallbackInv, WsListenInv DEF Next,
                                                                           Broadcast
  <2>2. CASE UNCHANGED vars
    BY <1>2, <2>2 DEF vars, WsInv, TypeOK, NoSendOnClosed, WsCloseOrder
  <2>. QED
    BY <1>2, <2>1, <2>2
<1>. QED
  BY <1>1, <1>2, PTL DEF Spec

\* Types, and Channel.mutex is held exactly between Lock and Unlock of Send and
\* Close (ws/adapter.go).
THEOREM WsTypeCorrect == Spec => []TypeOK
<1>1. WsInv => TypeOK
  BY DEF WsInv
<1>. QED
  BY <1>1, WsInductive, PTL

\* Channel.Send (ws/adapter.go) never sends on a closed channel, so that no
\* order of messages and closing clients makes the adapter panic.
THEOREM WsNoPanic == Spec => []NoSendOnClosed
<1>1. WsInv => NoSendOnClosed
  BY DEF WsInv
<1>. QED
  BY <1>1, WsInductive, PTL
=============================================================================
