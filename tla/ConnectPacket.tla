--------------------------- MODULE ConnectPacket ----------------------------
(***************************************************************************)
(* The MQTT CONNECT packet as docker/ssl/authorization.js reads it, beside *)
(* the packet as MQTT 3.1.1 lays it out.                                   *)
(*                                                                         *)
(* A packet is described by the contents of its fields, each a string of   *)
(* bytes; an njs string of bytes is a sequence; indices of the code count  *)
(* from 0.                                                                 *)
(***************************************************************************)
EXTENDS Integers, Sequences, SequencesExt

CONSTANTS Keys,   \* thing keys, as strings of bytes
          KeyLen  \* the length of a key, 36 for a UUID

Byte == 0..255

\* All keys are as long.
ASSUME KeysAssumption == KeyLen \in Nat \ {0} /\ \A k \in Keys : k \in [1..KeyLen -> Byte]

\* The empty string: no key, no CN.
NoKey == <<>>
-----------------------------------------------------------------------------
(* MQTT: [id : the client id, will : topic and message or <<>>,            *)
(* creds : user name and password or <<>>].                                *)

\* The lengths of the fields.
Lengths(p) ==
  {Len(p.id)} \cup {Len(p.will[i]) : i \in 1..Len(p.will)}
    \cup {Len(p.creds[i]) : i \in 1..Len(p.creds)}

U16(n) == <<n \div 256, n % 256>>
Field(s) == U16(Len(s)) \o s
\* Two fields, or none.
TwoFields(t) == IF t = <<>> THEN <<>> ELSE Field(t[1]) \o Field(t[2])
Fields(p) == Field(p.id) \o (TwoFields(p.will) \o TwoFields(p.creds))

\* The password that the packet carries, as a broker reads it.
Password(p) == IF p.creds = <<>> THEN <<>> ELSE p.creds[2]

\* Remaining length: seven bits each, the lowest first.  Five fields of at most
\* 65535 bytes never need a fourth byte.
VarLen(n) ==
  IF n < 128 THEN <<n>>
  ELSE IF n < 16384 THEN <<128 + (n % 128), n \div 128>>
  ELSE <<128 + (n % 128), 128 + ((n \div 128) % 128), n \div 16384>>
Flags(p) == (IF p.creds = <<>> THEN 0 ELSE 192) + (IF p.will = <<>> THEN 2 ELSE 6)
Rest(p) == <<0, 4, 77, 81, 84, 84, 4, Flags(p), 0, 60>> \o Fields(p)
Bytes(p) == (<<16>> \o VarLen(Len(Rest(p)))) \o Rest(p)

\* Every CONNECT packet: a length takes two bytes, and any byte may follow it.
Strings == {s \in Seq(Byte) : Len(s) =< 65535}
Connects ==
  [id : Strings, will : {<<>>} \cup (Strings \X Strings),
   creds : {<<>>} \cup (Strings \X Strings)]
-----------------------------------------------------------------------------
(* authorization.js *)

\* data.codePointAt(i); Undefined compares as false with any number.
Undefined == -1
codePointAt(data, i) == IF i < Len(data) THEN data[i + 1] ELSE Undefined

\* The hexadecimal digits of the two bytes are joined; a low byte below 2 gets
\* its leading zero back, one from 2 to 15 does not.
calcLen(msb, lsb) == IF lsb < 2 \/ lsb > 15 THEN 256 * msb + lsb ELSE 16 * msb + lsb

\* len_size: the bytes of the remaining length.
LenSize(data) ==
  LET more(i) == \A j \in 1..i : codePointAt(data, j) > 128
  IN  1 + Cardinality({i \in 1..4 : more(i)})

\* Mutant of ShiftFlags: the will's topic is skipped, its message is not.
ShiftFlagsTopic(flags) == IF 196 <= flags THEN 4 ELSE 3

\* The number of fields up to the password.
ShiftFlags(flags) == IF 196 <= flags THEN 5 ELSE 3

Threw == [ok |-> FALSE, shift |-> 0, len |-> 0]

\* One turn of the loop over the fields, with as many left; the last one stays
\* at the password.  Reading past the data throws.
Turn(data, r, left) ==
  LET len == calcLen(codePointAt(data, r.shift), codePointAt(data, r.shift + 1))
  IN  IF ~r.ok \/ r.shift + 1 >= Len(data) THEN Threw
      ELSE [ok |-> TRUE, shift |-> r.shift + 2 + (IF left = 0 THEN 0 ELSE len), len |-> len]

Shifted(data, start, n) ==
  LET f[i \in 0..n] == IF i = 0 THEN [ok |-> TRUE, shift |-> start, len |-> 0]
                       ELSE Turn(data, f[i - 1], n - i)
  IN  f[n]

\* The password, as [ok, pass]; not ok when an exception ends the handler.
parsePackage(data) ==
  LET flags_pos == 1 + LenSize(data) + 2 + 4 + 1
      flags == codePointAt(data, flags_pos)
      at == Shifted(data, flags_pos + 3, ShiftFlags(flags))
      end == IF at.shift + at.len < Len(data) THEN at.shift + at.len ELSE Len(data)
  IN  IF flags # Undefined /\ flags < 192 THEN [ok |-> TRUE, pass |-> <<>>]
      ELSE [ok |-> at.ok, pass |-> SubSeq(data, at.shift + 1, end)]

\* parseCert(dn, 'CN'): the first pair of that name, in any case, or ''.
parseCert(dn) ==
  LET i == SelectInSeq(dn, LAMBDA pair : pair.name \in {"CN", "cn"})
  IN  IF i = 0 THEN NoKey ELSE dn[i].value
=============================================================================
