------------------------------- MODULE Authn --------------------------------
(***************************************************************************)
(* The authn service (authn/service.go): it issues JWTs of three types     *)
(* (authn/jwt), keeps a row for each API key (authn/postgres) and          *)
(* identifies the user behind a token.                                     *)
(*                                                                         *)
(* A call that makes one SQL statement, or none, is one step; Identify of  *)
(* an API key reads the row and, if the key has expired, deletes it in a   *)
(* second statement.  Time is counted in seconds from 1; 0 is Go's zero    *)
(* time, "no expiry".                                                      *)
(***************************************************************************)
EXTENDS Naturals, FiniteSets

CONSTANTS Users,          \* e-mails
          KeyIds,         \* UUIDs the identity provider hands out
          None,           \* "", or no row
          Procs,          \* goroutines that serve Identify
          LoginDuration, ResetDuration,   \* 10 hours and 5 minutes in the code
          Durations,      \* lifetimes asked for API keys; 0: not given
          MaxTime         \* bound on the clock

ASSUME AuthnNone == None \notin Users \cup KeyIds
ASSUME DurationsAssumption ==
  /\ LoginDuration \in Nat \ {0} /\ ResetDuration \in Nat \ {0}
  /\ Durations \subseteq Nat /\ MaxTime \in Nat

VARIABLES now,     \* the clock
          tokens,  \* the JWTs that were signed and handed out
          rows,    \* table keys, by id: [issuer, exp] or None
          pc, req  \* Identify calls under way; req has the token, and whether its
                   \* time had passed and its row was gone on arrival (history)

authnVars == <<now, tokens, rows, pc, req>>

issuerName == "mainflux.authn"

Tokens == [type : {"user", "recovery", "api"}, issuer : Users \cup {issuerName},
           subject : Users \cup {None}, id : KeyIds \cup {None}, exp : Nat]
Rows == [issuer : Users, exp : Nat]
NoReq == [tok |-> None, late |-> FALSE, gone |-> FALSE]

AuthnInit ==
  /\ now = 1 /\ tokens = {}
  /\ rows = [k \in KeyIds |-> None]
  /\ pc = [p \in Procs |-> "idle"] /\ req = [p \in Procs |-> NoReq]

\* API keys that were handed out and have no row any more.
Gone == {k \in KeyIds : rows[k] = None /\ \E tok \in tokens : tok.id = k}
-----------------------------------------------------------------------------
(* Tokens. *)

\* Mutant of Expired: a key counts until after its last second.
ExpiredLate(exp) == exp + 1 < now

\* Key.Expired; the zero time lies before every time.
Expired(exp) == exp < now

\* tokenizer.Parse: jwt takes exp = 0 as "no expiry"; an expired API key is let
\* through, for the service to remove it.
Parses(tok) == tok.exp = 0 \/ now <= tok.exp \/ tok.type = "api"

\* login: the user that the token of a caller stands for, if any.
MayLogin(tok) == Parses(tok) /\ tok.type = "user" /\ tok.subject # None

\* tempKey: a token with a lifetime, of which nothing is stored.
TempKey(type, s, duration) ==
  [type |-> type, issuer |-> issuerName, subject |-> s, id |-> None, exp |-> now + duration]

\* Issue of type UserKey: loginKey takes the caller's word for the user.
IssueUserKey(s) ==
  /\ tokens' = tokens \cup {TempKey("user", s, LoginDuration)}
  /\ UNCHANGED <<now, rows, pc, req>>

\* Issue of type RecoveryKey: resetKey asks for a login token.
IssueRecoveryKey(tok) ==
  /\ MayLogin(tok)
  /\ tokens' = tokens \cup {TempKey("recovery", tok.subject, ResetDuration)}
  /\ UNCHANGED <<now, rows, pc, req>>

\* Issue of type APIKey: userKey signs a token and saves its row.
IssueAPIKey(tok, k, d) ==
  LET exp == IF d = 0 THEN 0 ELSE now + d IN
  /\ MayLogin(tok)
  /\ rows[k] = None /\ \A x \in tokens : x.id # k     \* a fresh UUID
  /\ tokens' = tokens \cup {[type |-> "api", issuer |-> tok.subject, subject |-> None,
                             id |-> k, exp |-> exp]}
  /\ rows' = [rows EXCEPT ![k] = [issuer |-> tok.subject, exp |-> exp]]
  /\ UNCHANGED <<now, pc, req>>

\* Mutant of RemoveRow: DELETE FROM keys WHERE id.
RemoveAnyRow(u, k) == rows' = [rows EXCEPT ![k] = None]

\* keys.Remove: DELETE FROM keys WHERE issuer AND id; no row is no error.
RemoveRow(u, k) ==
  rows' = [rows EXCEPT ![k] = IF @ # None /\ @.issuer = u THEN None ELSE @]

Revoke(tok, k) ==
  /\ MayLogin(tok) /\ RemoveRow(tok.subject, k)
  /\ UNCHANGED <<now, tokens, pc, req>>
-----------------------------------------------------------------------------
(* Identify. *)

Goto(p, l) == pc' = [pc EXCEPT ![p] = l]

Arrived(p, tok) ==
  req' = [req EXCEPT ![p] = [tok |-> tok, late |-> tok.exp # 0 /\ tok.exp < now,
                             gone |-> tok.id \in Gone]]

\* Mutant of Identify: the signature of an unexpired API key is enough.
IdentifyBySignature(p, tok) ==
  /\ pc[p] = "idle" /\ Arrived(p, tok)
  /\ Goto(p, IF ~Parses(tok) THEN "denied"
             ELSE IF tok.type = "api" /\ Expired(tok.exp) THEN "retrieve" ELSE "ok")
  /\ UNCHANGED <<now, tokens, rows>>

Identify(p, tok) ==
  /\ pc[p] = "idle" /\ Arrived(p, tok)
  /\ \/ ~Parses(tok) /\ Goto(p, "denied")
     \/ Parses(tok) /\ tok.type = "api" /\ Goto(p, "retrieve")
     \/ /\ Parses(tok) /\ tok.type # "api"
        /\ Goto(p, IF tok.issuer = issuerName THEN "ok" ELSE "denied")
  /\ UNCHANGED <<now, tokens, rows>>

\* keys.Retrieve: SELECT ... WHERE issuer AND id.
Retrieve(p) ==
  /\ pc[p] = "retrieve"
  /\ LET tok == req[p].tok
         found == rows[tok.id] # None /\ rows[tok.id].issuer = tok.issuer
     IN \/ ~found /\ Goto(p, "denied")
        \/ found /\ Expired(rows[tok.id].exp) /\ Goto(p, "autoRevoke")
        \/ found /\ ~Expired(rows[tok.id].exp) /\ Goto(p, "ok")
  /\ UNCHANGED <<now, tokens, rows, req>>

AutoRevoke(p) ==
  /\ pc[p] = "autoRevoke"
  /\ RemoveRow(req[p].tok.issuer, req[p].tok.id)
  /\ Goto(p, "denied")                              \* ErrKeyExpired
  /\ UNCHANGED <<now, tokens, req>>

\* The answer: the issuer of an API key, the subject of the other tokens.
UserOf(tok) == IF tok.type = "api" THEN tok.issuer ELSE tok.subject

Answer(p) ==
  /\ pc[p] \in {"ok", "denied"}
  /\ Goto(p, "idle") /\ req' = [req EXCEPT ![p] = NoReq]
  /\ UNCHANGED <<now, tokens, rows>>

IdentifyStep(p) == Retrieve(p) \/ AutoRevoke(p)

Tick == now < MaxTime /\ now' = now + 1 /\ UNCHANGED <<tokens, rows, pc, req>>
-----------------------------------------------------------------------------
\* The calls over HTTP: a login token for any string, an API key for the
\* holder of a login token, and its revocation.
HttpIssue ==
  \/ \E s \in Users \cup {None} : IssueUserKey(s)
  \/ \E tok \in tokens, k \in KeyIds, d \in Durations : IssueAPIKey(tok, k, d)
HttpRevoke == \E tok \in tokens, k \in KeyIds : Revoke(tok, k)

\* The calls over gRPC.
GrpcIssue == \E tok \in tokens : IssueRecoveryKey(tok)
GrpcIdentify == \E p \in Procs, tok \in tokens : Identify(p, tok)

AuthnNext ==
  \/ HttpIssue \/ HttpRevoke \/ GrpcIssue \/ GrpcIdentify
  \/ \E p \in Procs : IdentifyStep(p) \/ Answer(p)
  \/ Tick

AuthnSpec == AuthnInit /\ [][AuthnNext]_authnVars
-----------------------------------------------------------------------------
\* Types of tokens, rows and calls under way.
AuthnTypeOK ==
  /\ now \in Nat
  /\ tokens \subseteq Tokens
  /\ rows \in [KeyIds -> Rows \cup {None}]
  /\ pc \in [Procs -> {"idle", "retrieve", "autoRevoke", "ok", "denied"}]
  /\ req \in [Procs -> [tok : Tokens \cup {None}, late : BOOLEAN, gone : BOOLEAN]]

\* An API key that was removed, by its user or because it had expired, before
\* an Identify call arrived, is never accepted by that call, nor by any later
\* one: the JWT alone does not count and its id never gets a row again.
RevokedStaysOut ==
  \A p \in Procs : pc[p] = "ok" => ~req[p].gone

\* Identify never accepts a token whose time had passed when the call arrived;
\* for an API key Parse lets it through and only the row decides.  A token
\* without a time (exp = 0) never runs out for this property; for an API key
\* without one see OnlyOwnerRevokes.
ExpiredNotAccepted ==
  \A p \in Procs : pc[p] = "ok" => ~req[p].late

\* The time of a row, if it has one, has passed.
TimePassed(k) == rows[k].exp # 0 /\ rows[k].exp < now

\* The row has no time.  "If no time is set, the key will never expire"
\* (authn/README.md:11), but to Key.Expired the zero time lies in the past.
NoTime(k) == rows[k].exp = 0

\* An Identify call that presented key k, of the user in its row, is about to
\* remove it.
BeingRemoved(k) ==
  \E p \in Procs : /\ pc[p] = "autoRevoke"
                   /\ req[p].tok.id = k /\ req[p].tok.issuer = rows[k].issuer

\* The row of a key goes only
\*   - while its own issuer holds a valid login token, to revoke it with: no
\*     other user's token ever removes it; or
\*   - by the Identify call of a holder of the key, once its time has passed; or
\*   - by that call when the key has no time at all: the first use of a key that
\*     its issuer asked for without duration removes it.
OnlyOwnerRevokes ==
  [][\A k \in KeyIds : rows[k] # None /\ rows'[k] = None =>
       \/ \E tok \in tokens : MayLogin(tok) /\ tok.subject = rows[k].issuer
       \/ BeingRemoved(k) /\ TimePassed(k)
       \/ BeingRemoved(k) /\ NoTime(k)]_authnVars
=============================================================================
