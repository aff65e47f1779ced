------------------------------- MODULE MCGate -------------------------------
(* The instances of Gate that TLC checks; see the cfg files. *)
EXTENDS Gate

\* Two keys that begin alike.
KeyA == [i \in 1..KeyLen |-> 64 + i]
KeyB == [KeyA EXCEPT ![KeyLen] = 48]
MCKeys == {KeyA, KeyB}

\* Subjects with the name first, after another attribute, in lower case, and none.
MCDNs == { << [name |-> "CN", value |-> KeyA] >>,
           << [name |-> "O", value |-> KeyB], [name |-> "cn", value |-> KeyA] >>,
           << [name |-> "O", value |-> KeyB] >> }

\* A field of n bytes.
Filled(n) == [i \in 1..n |-> 120]
Fill(t) == [i \in 1..Len(t) |-> Filled(t[i])]

\* No credentials, a key, and a password that only begins with one.
Creds(users) ==
  {<<>>} \cup {<<u, k>> : u \in users, k \in Keys \cup {Append(KeyA, 120)}}
Packs(ids, wills, users) == [id : ids, will : wills, creds : Creds(users)]
Sized(ids, wills, users) ==
  Packs({Filled(n) : n \in ids}, {Fill(t) : t \in wills}, {Filled(n) : n \in users})

\* Without a will: remaining lengths on both sides of one length byte (52 + id +
\* user) and of a byte of just the continuation bit, and client ids around 256.
\* With one: messages on both sides of 256, of a low byte of 2 and of 16, and
\* remaining lengths of 16383, of 16384 (three bytes, two of them just the
\* continuation bit) and of 16513 (three bytes, neither).  Devices also give a
\* key as client id, as user name or in the will.
MCPackets ==
  Sized({0, 1, 39, 40, 41, 168, 255, 256, 257, 258, 271, 272}, { <<>> }, {36})
    \cup Sized({3}, { <<3, 1>>, <<5, 255>>, <<5, 256>>, <<258, 9>>, <<5, 272>>, <<0, 0>> },
                  {0, 300})
    \cup Sized({3}, { <<5, 16319>>, <<5, 16320>>, <<5, 16449>> }, {0})
    \cup Packs({KeyA, KeyB}, { <<>>, <<KeyB, KeyA>> }, {KeyA, KeyB})

\* A first chunk may end anywhere up to behind the password of a short packet.
MCChunks == 1..140
=============================================================================
