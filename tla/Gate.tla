-------------------------------- MODULE Gate --------------------------------
(***************************************************************************)
(* The TLS gate of the x509 deployment: nginx with the njs functions of    *)
(* docker/ssl/authorization.js.  For MQTT, authenticate compares the       *)
(* password of the CONNECT packet with the CN of the client's certificate; *)
(* for HTTP and WebSocket, setKey chooses the Authorization header that    *)
(* goes upstream.                                                          *)
(*                                                                         *)
(* njs gives each session and each request a copy of the script's globals, *)
(* so that clientKey belongs to one of them.                               *)
(***************************************************************************)
EXTENDS ConnectPacket, FiniteSets

CONSTANTS Sessions,  \* MQTT sessions, and HTTP requests
          DNs,       \* subjects of certificates: sequences of [name, value]
          Packets,   \* CONNECT packets that clients send
          Chunks     \* bound: sizes of a first chunk that is not the whole packet

NoCert == <<>>

ASSUME GateAssumption ==
  /\ \A p \in Packets : p \in Connects
  /\ \A dn \in DNs : dn \in Seq([name : STRING, value : Keys])
  /\ Chunks \subseteq Nat

VARIABLES state,      \* "new", "preread", "allowed", "denied", "failed", "http"
          cert,       \* the session's [dn, verify]
          packet,     \* the CONNECT packet it sends, if it does
          sent,       \* how many bytes of it have come in the first chunk
          clientKey,  \* the global of the session
          request,    \* of an HTTP request: its Authorization header, whether its
                      \* uri is below /ws, its argument `authorization'
          authKey     \* what setKey returned

gateVars == <<state, cert, packet, sent, clientKey, request, authKey>>

NoRequest == [auth |-> NoKey, ws |-> FALSE, arg |-> NoKey]
NoPacket == [id |-> <<>>, will |-> <<>>, creds |-> <<>>]

GateInit ==
  /\ state = [s \in Sessions |-> "new"]
  /\ cert \in [Sessions -> [dn : DNs \cup {NoCert}, verify : {"SUCCESS", "NONE"}]]
  /\ packet = [s \in Sessions |-> NoPacket]
  /\ sent = [s \in Sessions |-> 0]
  /\ clientKey = [s \in Sessions |-> NoKey]
  /\ request = [s \in Sessions |-> NoRequest]
  /\ authKey = [s \in Sessions |-> NoKey]

Put(f, s, v) == f' = [f EXCEPT ![s] = v]
-----------------------------------------------------------------------------
\* The handler of a session, before its first byte.
authenticate(s) ==
  /\ state[s] = "new"
  /\ \/ /\ cert[s].dn = NoCert \/ cert[s].verify # "SUCCESS"
        /\ Put(state, s, "denied")
     \/ /\ cert[s].dn # NoCert /\ cert[s].verify = "SUCCESS"
        /\ Put(state, s, "preread")
  /\ UNCHANGED <<cert, packet, sent, clientKey, request, authKey>>

\* Data that does not begin with a CONNECT packet.
UploadOther(s) ==
  /\ state[s] = "preread" /\ Put(state, s, "allowed")
  /\ UNCHANGED <<cert, packet, sent, clientKey, request, authKey>>

\* Mutant of Matches: a certificate without a name is not looked for.
MatchesEmpty(key, pass) == pass = key

Matches(key, pass) == key # NoKey /\ pass = key

\* clientKey of the session, or now from its certificate.
Key(s) == IF clientKey[s] = NoKey THEN parseCert(cert[s].dn) ELSE clientKey[s]

\* The first n bytes of a CONNECT packet.
Upload(s, p, n) ==
  LET found == parsePackage(SubSeq(Bytes(p), 1, n))
  IN  /\ state[s] = "preread" /\ n > 0
      /\ Put(packet, s, p) /\ Put(sent, s, n) /\ Put(clientKey, s, Key(s))
      /\ \/ ~found.ok /\ Put(state, s, "failed")
         \/ found.ok /\ Matches(Key(s), found.pass) /\ Put(state, s, "allowed")
         \/ found.ok /\ ~Matches(Key(s), found.pass) /\ Put(state, s, "denied")
      /\ UNCHANGED <<cert, request, authKey>>

\* Mutant of KeyFor: the argument is not compared.
KeyForAny(key, r) ==
  IF r.auth # NoKey /\ r.auth # key THEN NoKey ELSE key

\* What setKey returns for a request.
KeyFor(key, r) ==
  IF r.auth # NoKey /\ r.auth # key THEN NoKey
  ELSE IF r.ws /\ r.auth = NoKey THEN (IF r.arg = key THEN key ELSE NoKey)
  ELSE key

\* An HTTP request or a WebSocket handshake; nginx takes verified certificates.
setKey(s, r) ==
  /\ state[s] = "new" /\ cert[s].dn # NoCert /\ cert[s].verify = "SUCCESS"
  /\ Put(state, s, "http") /\ Put(request, s, r)
  /\ Put(clientKey, s, Key(s)) /\ Put(authKey, s, KeyFor(Key(s), r))
  /\ UNCHANGED <<cert, packet, sent>>
-----------------------------------------------------------------------------
Requests == [auth : Keys \cup {NoKey}, ws : BOOLEAN, arg : Keys \cup {NoKey}]

\* What may arrive first of a packet.
Arrivals(p) == {n \in Chunks : n < Len(Bytes(p))} \cup {Len(Bytes(p))}

GateNext == \E s \in Sessions :
  \/ authenticate(s) \/ UploadOther(s)
  \/ \E p \in Packets : \E n \in Arrivals(p) : Upload(s, p, n)
  \/ \E r \in Requests : setKey(s, r)

GateSpec == GateInit /\ [][GateNext]_gateVars
-----------------------------------------------------------------------------
Certified(s, k) == k # NoKey /\ cert[s].verify = "SUCCESS" /\ parseCert(cert[s].dn) = k

\* The lengths that the parser gets right: no field of 256 bytes or more whose
\* low length byte is below 16, but 0 or 1, and no remaining length that has a
\* byte of just the continuation bit.
WellSized(p) ==
  /\ \A n \in Lengths(p) : n < 256 \/ n % 256 \notin 2..15
  /\ \A i \in 1..Len(VarLen(Len(Rest(p)))) : VarLen(Len(Rest(p)))[i] # 128

\* A session whose CONNECT packet passes has a verified certificate for the very
\* key that the broker will read as the packet's password, whatever the fields
\* before it contain and wherever the first chunk ends; and a packet without a
\* password does not pass.  This is said of the lengths that parsePackage gets
\* right: of others it compares some other bytes of the packet with the
\* certificate, and nothing follows for the password.
AllowedIsCertified ==
  \A s \in Sessions :
    /\ state[s] = "allowed" /\ sent[s] > 0 /\ WellSized(packet[s])
    /\ Password(packet[s]) \in Keys \cup {NoKey}
    => Certified(s, Password(packet[s]))

Whole(s) == sent[s] > 0 /\ sent[s] = Len(Bytes(packet[s]))

\* A client that sends the password of its certificate in one chunk is let in,
\* with or without a will, at every boundary of the lengths above.
HolderIsAdmitted ==
  \A s \in Sessions : Whole(s) /\ WellSized(packet[s]) /\ Certified(s, Password(packet[s])) =>
    state[s] = "allowed"

\* A key goes upstream only with its certificate, and only when every credential
\* the client gave where setKey looks agrees with it; below /ws it gave one.
UpstreamKeyIsCertified ==
  \A s \in Sessions : authKey[s] # NoKey =>
    /\ Certified(s, authKey[s])
    /\ request[s].auth \in {NoKey, authKey[s]}
    /\ request[s].ws => authKey[s] \in {request[s].auth, request[s].arg}
-----------------------------------------------------------------------------
(* What a comment says of parsePackage, and it does not keep. *)

\* authorization.js: "This method extracts Password field."
ExtractsPassword ==
  \A s \in Sessions : Whole(s) => parsePackage(Bytes(packet[s])).pass = Password(packet[s])
=============================================================================
