--------------------------- MODULE AccountsProofs ---------------------------
(***************************************************************************)
(* Authn never accepts a removed or an expired key, and removes the row of *)
(* a key only under a login of its issuer or when a holder of the key uses *)
(* it too late.  The users service uses authn as Authn allows, so that     *)
(* this holds of the two together.  All this for any number of users,      *)
(* keys, tokens, requests under way and any lifetimes.                     *)
(*                                                                         *)
(* The invariant of Authn (IInv) adds to its properties what tokens and    *)
(* rows have in common (KeysMatch) and what a call under way can rely on   *)
(* (CallsOK): a key that was gone when it arrived is gone still.  To it    *)
(* AccInv adds the table of the users service (TableOK) and what each of   *)
(* its requests has checked (JobsOK).                                      *)
(***************************************************************************)
EXTENDS Accounts, TLAPS

(* Authn, whoever calls it. *)

\* API keys, and no other tokens, have an id; they have a user for issuer, and
\* their row has their expiry.
KeysMatch ==
  \A tok \in tokens :
    /\ tok.type = "api" => tok.id \in KeyIds /\ tok.issuer \in Users
    /\ tok.type # "api" => tok.id = None
    /\ tok.id \in KeyIds /\ rows[tok.id] # None => rows[tok.id].exp = tok.exp

\* An Identify call at step l with arguments r.
CallOK(l, r) ==
  /\ l # "idle" => /\ r.tok \in tokens
                   /\ r.gone => r.tok.id \in Gone
                   /\ r.late => r.tok.exp # 0 /\ r.tok.exp < now
  /\ l \in {"retrieve", "autoRevoke"} => r.tok.type = "api"
  /\ l = "autoRevoke" /\ rows[r.tok.id] # None => Expired(rows[r.tok.id].exp)
  /\ l = "ok" => ~r.gone /\ ~r.late

CallsOK == \A p \in Procs : CallOK(pc[p], req[p])

\* The inductive invariant.
IInv == AuthnTypeOK /\ KeysMatch /\ CallsOK

\* No step takes back a token, or gives a row to a key that was handed out.
Onward ==
  /\ now <= now' /\ tokens \subseteq tokens'
  /\ \A tok \in tokens : tok.id \in KeyIds => rows'[tok.id] \in {rows[tok.id], None}

\* A key that was handed out and has no row stays without one.
LEMMA GoneForGood ==
  ASSUME Onward  PROVE Gone \subseteq Gone'
BY DEF Onward, Gone

\* What a call knows stays true while others take their steps.
LEMMA CallKept ==
  ASSUME IInv, Onward, AuthnTypeOK', NEW p \in Procs, pc'[p] = pc[p], req'[p] = req[p]
  PROVE  CallOK(pc[p], req[p])'
<1>. DEFINE r == req[p]
<1>1. CallOK(pc[p], r)
  BY DEF IInv, CallsOK
<1>2. /\ now \in Nat /\ now' \in Nat
      /\ pc[p] # "idle" => r.tok \in tokens /\ r.tok \in Tokens
      /\ pc[p] # "idle" => r.tok.exp \in Nat
      /\ rows \in [KeyIds -> Rows \cup {None}] /\ rows' \in [KeyIds -> Rows \cup {None}]
  BY <1>1 DEF CallOK, IInv, AuthnTypeOK, Tokens
<1>3. pc[p] # "idle" => /\ r.tok \in tokens'
                        /\ r.gone => r.tok.id \in Gone'
                        /\ r.late => r.tok.exp # 0 /\ r.tok.exp < now'
  BY <1>1, <1>2, GoneForGood DEF CallOK, Onward
<1>4. pc[p] = "autoRevoke" /\ rows'[r.tok.id] # None => Expired(rows[r.tok.id].exp)'
  <2>. SUFFICES ASSUME pc[p] = "autoRevoke", rows'[r.tok.id] # None
                PROVE  Expired(rows[r.tok.id].exp)'
    OBVIOUS
  <2>1. r.tok \in tokens /\ r.tok.id \in KeyIds
    BY <1>1, <1>2 DEF CallOK, IInv, KeysMatch
  <2>2. rows'[r.tok.id] = rows[r.tok.id]
    BY <2>1 DEF Onward
  <2>3. Expired(rows[r.tok.id].exp) /\ rows[r.tok.id].exp \in Nat
    BY <1>1, <1>2, <2>1, <2>2 DEF CallOK, Rows
  <2>. QED
    BY <1>2, <2>2, <2>3 DEF Expired, Onward
<1>. QED
  BY <1>1, <1>3, <1>4 DEF CallOK

\* A step of nobody's call: the calls and the clock aside, it only hands out
\* tokens and removes rows.
LEMMA CallsKept ==
  ASSUME IInv, Onward, AuthnTypeOK', KeysMatch', UNCHANGED <<pc, req>>
  PROVE  IInv'
<1>1. \A p \in Procs : CallOK(pc[p], req[p])'
  BY CallKept
<1>. QED
  BY <1>1 DEF IInv, CallsOK

\* tempKey makes a token without id: a login or a recovery token.
LEMMA TempKeyType ==
  ASSUME AuthnTypeOK, NEW type \in {"user", "recovery"}, NEW s \in Users \cup {None},
         NEW duration \in Nat
  PROVE  /\ TempKey(type, s, duration) \in Tokens
         /\ TempKey(type, s, duration).id = None
         /\ TempKey(type, s, duration).type # "api"
BY DEF AuthnTypeOK, TempKey, Tokens, issuerName

\* Issue of a login or recovery key.
LEMMA IssueTempInv ==
  ASSUME IInv, NEW type \in {"user", "recovery"}, NEW s \in Users \cup {None},
         NEW duration \in Nat,
         tokens' = tokens \cup {TempKey(type, s, duration)},
         UNCHANGED <<now, rows, pc, req>>
  PROVE  IInv'
<1>1. AuthnTypeOK'
  BY TempKeyType DEF IInv, AuthnTypeOK
<1>2. KeysMatch'
  BY TempKeyType, AuthnNone DEF IInv, KeysMatch
<1>3. Onward
  BY DEF Onward, IInv, AuthnTypeOK
<1>. QED
  BY <1>1, <1>2, <1>3, CallsKept

\* Issue of an API key: the new row and the new token agree.
LEMMA IssueAPIKeyInv ==
  ASSUME IInv, NEW tok \in tokens, NEW k \in KeyIds, NEW d \in Durations,
         IssueAPIKey(tok, k, d)
  PROVE  IInv'
<1>. DEFINE exp == IF d = 0 THEN 0 ELSE now + d
            new == [type |-> "api", issuer |-> tok.subject, subject |-> None,
                    id |-> k, exp |-> exp]
            row == [issuer |-> tok.subject, exp |-> exp]
<1>1. exp \in Nat
  BY DurationsAssumption DEF IInv, AuthnTypeOK
<1>2. tok \in Tokens /\ tok.subject \in Users
  BY DEF IInv, AuthnTypeOK, IssueAPIKey, MayLogin, Tokens
<1>3. new \in Tokens /\ row \in Rows
  BY <1>1, <1>2 DEF Tokens, Rows
<1>4. tokens' = tokens \cup {new} /\ rows' = [rows EXCEPT ![k] = row]
  BY DEF IssueAPIKey
<1>5. AuthnTypeOK'
  <2>. HIDE DEF new, row
  <2>. QED
    BY <1>3, <1>4 DEF IInv, AuthnTypeOK, IssueAPIKey
<1>6. \A x \in tokens : x.id # k
  BY DEF IssueAPIKey
<1>7. KeysMatch'
  <2>. SUFFICES ASSUME NEW x \in tokens'
                PROVE  /\ x.type = "api" => x.id \in KeyIds /\ x.issuer \in Users
                       /\ x.type # "api" => x.id = None
                       /\ x.id \in KeyIds /\ rows'[x.id] # None => rows'[x.id].exp = x.exp
    BY DEF KeysMatch
  <2>1. CASE x \in tokens
    BY <2>1, <1>4, <1>6 DEF IInv, KeysMatch, AuthnTypeOK
  <2>2. CASE x = new
    <3>1. rows'[k] = row
      BY <1>4 DEF IInv, AuthnTypeOK
    <3>. QED
      BY <1>2, <2>2, <3>1
  <2>. QED
    BY <1>4, <2>1, <2>2
<1>8. Onward
  BY <1>4, <1>6 DEF Onward, IInv, AuthnTypeOK, IssueAPIKey
<1>. QED
  BY <1>5, <1>7, <1>8, CallsKept DEF IssueAPIKey

\* DELETE of a row.
LEMMA RemoveRowInv ==
  ASSUME IInv, NEW u, NEW k, RemoveRow(u, k), UNCHANGED <<now, tokens>>
  PROVE  Onward /\ rows' \in [KeyIds -> Rows \cup {None}] /\ KeysMatch'
<1>1. rows' \in [KeyIds -> Rows \cup {None}]
  BY DEF IInv, AuthnTypeOK, RemoveRow
<1>2. \A i \in KeyIds : rows'[i] \in {rows[i], None}
  BY DEF IInv, AuthnTypeOK, RemoveRow
<1>3. Onward
  BY <1>2 DEF Onward, IInv, AuthnTypeOK
<1>. QED
  BY <1>1, <1>2, <1>3 DEF IInv, KeysMatch

\* Revoke takes a row away and gives none.
LEMMA RevokeInv ==
  ASSUME IInv, NEW tok \in tokens, NEW k \in KeyIds, Revoke(tok, k)
  PROVE  IInv'
<1>1. Onward /\ rows' \in [KeyIds -> Rows \cup {None}] /\ KeysMatch'
  BY RemoveRowInv DEF Revoke
<1>2. AuthnTypeOK'
  BY <1>1 DEF IInv, AuthnTypeOK, Revoke
<1>. QED
  BY <1>1, <1>2, CallsKept DEF Revoke
-----------------------------------------------------------------------------
(* The steps of an Identify call. *)

\* A step of call p: it suffices that the new state of p is sound.
LEMMA CallStep ==
  ASSUME IInv, Onward, AuthnTypeOK', KeysMatch', NEW p \in Procs,
         CallOK(pc[p], req[p])',
         \A q \in Procs \ {p} : pc'[q] = pc[q] /\ req'[q] = req[q]
  PROVE  IInv'
<1>1. \A q \in Procs \ {p} : CallOK(pc[q], req[q])'
  BY CallKept
<1>. QED
  BY <1>1 DEF IInv, CallsOK

\* Identify parses the token and answers, or goes on to the row.
LEMMA IdentifyInv ==
  ASSUME IInv, NEW p \in Procs, NEW tok \in tokens, Identify(p, tok)
  PROVE  IInv'
<1>. DEFINE r == [tok |-> tok, late |-> tok.exp # 0 /\ tok.exp < now, gone |-> tok.id \in Gone]
<1>1. tok \in Tokens /\ now \in Nat /\ tok.exp \in Nat /\ tok.id \in KeyIds \cup {None}
  BY DEF IInv, AuthnTypeOK, Tokens
<1>2. req' = [req EXCEPT ![p] = r] /\ req'[p] = r /\ UNCHANGED <<now, tokens, rows>>
  BY DEF Identify, Arrived, IInv, AuthnTypeOK
<1>3. /\ pc' \in [Procs -> {"idle", "retrieve", "autoRevoke", "ok", "denied"}]
      /\ pc'[p] \in {"retrieve", "ok", "denied"}
      /\ pc'[p] = "retrieve" => tok.type = "api"
      /\ pc'[p] = "ok" => tok.type # "api" /\ Parses(tok)
      /\ \A q \in Procs \ {p} : pc'[q] = pc[q]
  BY DEF Identify, Goto, IInv, AuthnTypeOK
<1>4. AuthnTypeOK'
  <2>1. r \in [tok : Tokens \cup {None}, late : BOOLEAN, gone : BOOLEAN]
    BY <1>1
  <2>. QED
    BY <1>2, <1>3, <2>1 DEF IInv, AuthnTypeOK
<1>5. KeysMatch' /\ Onward /\ Gone' = Gone
  BY <1>1, <1>2 DEF IInv, KeysMatch, Onward, Gone
<1>6. pc'[p] = "ok" => ~(tok.id \in Gone) /\ ~(tok.exp # 0 /\ tok.exp < now)
  BY <1>1, <1>3, AuthnNone DEF Gone, Parses, IInv, KeysMatch
<1>7. CallOK(pc[p], req[p])'
  <2>1. /\ req'[p].tok = tok
        /\ req'[p].gone <=> tok.id \in Gone
        /\ req'[p].late <=> tok.exp # 0 /\ tok.exp < now
    <3>1. ASSUME NEW a, NEW b
          PROVE  LET x == [tok |-> tok, late |-> a, gone |-> b]
                 IN x.tok = tok /\ x.gone = b /\ x.late = a
      OBVIOUS
    <3>2. /\ r.tok = tok /\ r.gone = (tok.id \in Gone)
          /\ r.late = (tok.exp # 0 /\ tok.exp < now)
      BY <3>1, Zenon
    <3>. HIDE DEF r
    <3>. QED
      BY <1>2, <3>2, Zenon
  <2>2. /\ req'[p].tok \in tokens'
        /\ req'[p].gone => req'[p].tok.id \in Gone'
        /\ req'[p].late => req'[p].tok.exp # 0 /\ req'[p].tok.exp < now'
    BY <1>2, <1>5, <2>1
  <2>3. pc'[p] = "ok" => ~req'[p].gone /\ ~req'[p].late
    BY <1>6, <2>1, Zenon
  <2>. QED
    BY <1>3, <2>1, <2>2, <2>3 DEF CallOK
<1>8. \A q \in Procs \ {p} : req'[q] = req[q]
  BY <1>2 DEF IInv, AuthnTypeOK
<1>. QED
  BY <1>3, <1>4, <1>5, <1>7, <1>8, CallStep

\* Identify of an API key reads the row: a key without one, or expired, is denied.
LEMMA RetrieveInv ==
  ASSUME IInv, NEW p \in Procs, Retrieve(p)
  PROVE  IInv'
<1>. DEFINE tok == req[p].tok
<1>1. /\ tok \in tokens /\ tok \in Tokens /\ tok.type = "api" /\ tok.id \in KeyIds
      /\ req[p].gone => tok.id \in Gone
      /\ req[p].late => tok.exp # 0 /\ tok.exp < now
      /\ now \in Nat
  BY DEF Retrieve, IInv, AuthnTypeOK, CallsOK, CallOK, KeysMatch
<1>2. UNCHANGED <<now, tokens, rows, req>>
  BY DEF Retrieve
<1>3. /\ pc' \in [Procs -> {"idle", "retrieve", "autoRevoke", "ok", "denied"}]
      /\ pc'[p] \in {"denied", "autoRevoke", "ok"}
      /\ pc'[p] = "autoRevoke" => Expired(rows[tok.id].exp)
      /\ pc'[p] = "ok" => rows[tok.id] # None /\ ~Expired(rows[tok.id].exp)
      /\ \A q \in Procs \ {p} : pc'[q] = pc[q]
  BY DEF Retrieve, Goto, IInv, AuthnTypeOK
<1>4. AuthnTypeOK' /\ KeysMatch' /\ Onward /\ Gone' = Gone
  BY <1>1, <1>2, <1>3 DEF IInv, AuthnTypeOK, KeysMatch, Onward, Gone
<1>5. pc'[p] = "ok" => ~req[p].gone /\ ~req[p].late
  <2>. SUFFICES ASSUME pc'[p] = "ok"
                PROVE  ~req[p].gone /\ ~req[p].late
    OBVIOUS
  <2>1. rows[tok.id].exp = tok.exp /\ tok.exp \in Nat
    BY <1>1, <1>3 DEF IInv, KeysMatch, Tokens
  <2>2. tok.id \notin Gone
    BY <1>3 DEF Gone
  <2>. QED
    BY <1>1, <1>3, <2>1, <2>2 DEF Expired
<1>6. CallOK(pc[p], req[p])'
  BY <1>1, <1>2, <1>3, <1>4, <1>5 DEF CallOK, Expired
<1>. QED
  BY <1>2, <1>3, <1>4, <1>6, CallStep

\* Identify removes the row of a key it found expired.
LEMMA AutoRevokeInv ==
  ASSUME IInv, NEW p \in Procs, AutoRevoke(p)
  PROVE  IInv'
<1>1. Onward /\ rows' \in [KeyIds -> Rows \cup {None}] /\ KeysMatch'
  BY RemoveRowInv DEF AutoRevoke
<1>2. /\ pc' \in [Procs -> {"idle", "retrieve", "autoRevoke", "ok", "denied"}]
      /\ pc'[p] = "denied" /\ \A q \in Procs \ {p} : pc'[q] = pc[q]
      /\ UNCHANGED <<now, tokens, req>>
  BY DEF AutoRevoke, Goto, IInv, AuthnTypeOK
<1>3. AuthnTypeOK'
  BY <1>1, <1>2 DEF IInv, AuthnTypeOK
<1>4. CallOK(pc[p], req[p])'
  <2>1. /\ req[p].tok \in tokens
        /\ req[p].gone => req[p].tok.id \in Gone
        /\ req[p].late => req[p].tok.exp # 0 /\ req[p].tok.exp < now
    BY DEF IInv, CallsOK, CallOK, AutoRevoke
  <2>. QED
    BY <1>1, <1>2, <2>1, GoneForGood DEF CallOK
<1>. QED
  BY <1>1, <1>2, <1>3, <1>4, CallStep

\* A call that has answered is forgotten.
LEMMA AnswerInv ==
  ASSUME IInv, NEW p \in Procs, Answer(p)
  PROVE  IInv'
<1>1. /\ pc' = [pc EXCEPT ![p] = "idle"] /\ req' = [req EXCEPT ![p] = NoReq]
      /\ UNCHANGED <<now, tokens, rows>>
  BY DEF Answer, Goto
<1>2. AuthnTypeOK'
  BY <1>1 DEF IInv, AuthnTypeOK, NoReq
<1>3. KeysMatch' /\ Onward
  BY <1>1 DEF IInv, KeysMatch, Onward, AuthnTypeOK
<1>4. CallOK(pc[p], req[p])' /\ \A q \in Procs \ {p} : pc'[q] = pc[q] /\ req'[q] = req[q]
  BY <1>1 DEF IInv, AuthnTypeOK, CallOK
<1>. QED
  BY <1>2, <1>3, <1>4, CallStep

\* Time passes; what had expired has expired still.
LEMMA TickInv ==
  ASSUME IInv, Tick
  PROVE  IInv'
<1>1. AuthnTypeOK' /\ KeysMatch' /\ Onward
  BY DEF Tick, IInv, AuthnTypeOK, KeysMatch, Onward
<1>. QED
  BY <1>1, CallsKept DEF Tick
-----------------------------------------------------------------------------
\* The invariant holds at the start.
LEMMA InitInv ==
  AuthnInit => IInv
BY DEF AuthnInit, IInv, AuthnTypeOK, KeysMatch, CallsOK, CallOK, NoReq

\* Every call to authn keeps the invariant.
LEMMA NextInv ==
  ASSUME IInv, [AuthnNext]_authnVars
  PROVE  IInv'
<1>1. CASE \E s \in Users \cup {None} : IssueUserKey(s)
  BY <1>1, IssueTempInv, DurationsAssumption DEF IssueUserKey
<1>2. CASE \E tok \in tokens, k \in KeyIds, d \in Durations : IssueAPIKey(tok, k, d)
  BY <1>2, IssueAPIKeyInv
<1>3. CASE \E tok \in tokens, k \in KeyIds : Revoke(tok, k)
  BY <1>3, RevokeInv
<1>4. CASE \E tok \in tokens : IssueRecoveryKey(tok)
  <2>1. PICK tok \in tokens : IssueRecoveryKey(tok)
    BY <1>4
  <2>2. tok.subject \in Users \cup {None}
    BY DEF IInv, AuthnTypeOK, Tokens
  <2>. QED
    BY <2>1, <2>2, IssueTempInv, DurationsAssumption DEF IssueRecoveryKey
<1>5. CASE \E p \in Procs, tok \in tokens : Identify(p, tok)
  BY <1>5, IdentifyInv
<1>6. CASE \E p \in Procs : IdentifyStep(p) \/ Answer(p)
  BY <1>6, RetrieveInv, AutoRevokeInv, AnswerInv DEF IdentifyStep
<1>7. CASE Tick
  BY <1>7, TickInv
<1>8. CASE UNCHANGED authnVars
  BY <1>8 DEF authnVars, IInv, AuthnTypeOK, KeysMatch, CallsOK, CallOK, Gone, Expired
<1>. QED
  BY <1>1, <1>2, <1>3, <1>4, <1>5, <1>6, <1>7, <1>8
  DEF AuthnNext, HttpIssue, HttpRevoke, GrpcIssue, GrpcIdentify

\* The invariant holds in every state of the service.
THEOREM Inductive == AuthnSpec => []IInv
<1>1. AuthnInit => IInv
  BY InitInv
<1>2. IInv /\ [AuthnNext]_authnVars => IInv'
  BY NextInv
<1>. QED
  BY <1>1, <1>2, PTL DEF AuthnSpec

\* Tokens, rows and calls under way keep their types.
THEOREM TypeCorrect == AuthnSpec => []AuthnTypeOK
<1>1. IInv => AuthnTypeOK
  BY DEF IInv
<1>. QED
  BY <1>1, Inductive, PTL

\* Identify (authn/service.go) never accepts an API key that had lost its row
\* before the call arrived, however issue, revocation and calls interleave.
THEOREM NoRevokedKey == AuthnSpec => []RevokedStaysOut
<1>1. IInv => RevokedStaysOut
  BY DEF IInv, CallsOK, CallOK, RevokedStaysOut
<1>. QED
  BY <1>1, Inductive, PTL

\* Identify never accepts a token whose time had passed when the call arrived,
\* though Parse lets expired API keys through.
THEOREM NoExpiredToken == AuthnSpec => []ExpiredNotAccepted
<1>1. IInv => ExpiredNotAccepted
  BY DEF IInv, CallsOK, CallOK, ExpiredNotAccepted
<1>. QED
  BY <1>1, Inductive, PTL

\* No step removes the row of a key unless its issuer holds a valid login token
\* or a call that presented the key removes it, because its time has passed or
\* because it has none.
THEOREM OwnerRevokes == AuthnSpec => OnlyOwnerRevokes
<1>. DEFINE A == \A k \in KeyIds : rows[k] # None /\ rows'[k] = None =>
                   \/ \E tok \in tokens : MayLogin(tok) /\ tok.subject = rows[k].issuer
                   \/ BeingRemoved(k) /\ TimePassed(k)
                   \/ BeingRemoved(k) /\ NoTime(k)
<1>1. ASSUME IInv, AuthnNext PROVE A
  <2>1. CASE \E tok \in tokens, k \in KeyIds : Revoke(tok, k)
    BY <1>1, <2>1 DEF Revoke, RemoveRow, IInv, AuthnTypeOK
  <2>2. CASE \E p \in Procs : AutoRevoke(p)
    <3>1. PICK p \in Procs : AutoRevoke(p)
      BY <2>2
    <3>2. rows[req[p].tok.id] # None => Expired(rows[req[p].tok.id].exp)
      BY <1>1, <3>1 DEF IInv, CallsOK, CallOK, AutoRevoke
    <3>3. ASSUME NEW k \in KeyIds, rows[k] # None, rows'[k] = None
          PROVE  k = req[p].tok.id /\ req[p].tok.issuer = rows[k].issuer
      BY <1>1, <3>1, <3>3 DEF AutoRevoke, RemoveRow, IInv, AuthnTypeOK
    <3>4. ASSUME NEW k \in KeyIds, rows[k] # None, rows'[k] = None
          PROVE  BeingRemoved(k)
      BY <3>1, <3>3, <3>4 DEF AutoRevoke, BeingRemoved
    <3>5. ASSUME NEW k \in KeyIds, rows[k] # None, rows'[k] = None
          PROVE  TimePassed(k) \/ NoTime(k)
      BY <3>2, <3>3, <3>5 DEF TimePassed, NoTime, Expired
    <3>. QED
      BY <3>4, <3>5
  <2>3. CASE \E tok \in tokens, k \in KeyIds, d \in Durations : IssueAPIKey(tok, k, d)
    <3>1. PICK tok \in tokens, k \in KeyIds, d \in Durations : IssueAPIKey(tok, k, d)
      BY <2>3
    <3>2. \A i \in KeyIds : rows'[i] # rows[i] => rows[i] = None
      BY <1>1, <3>1 DEF IssueAPIKey, IInv, AuthnTypeOK
    <3>. QED
      BY <3>2
  <2>4. CASE UNCHANGED rows
    BY <2>4
  <2>. QED
    BY <1>1, <2>1, <2>2, <2>3, <2>4
    DEF AuthnNext, HttpIssue, HttpRevoke, GrpcIssue, GrpcIdentify, IdentifyStep, IssueUserKey,
        IssueRecoveryKey, Identify, Retrieve, Answer, Tick
<1>2. IInv /\ [AuthnNext]_authnVars => [A]_authnVars
  BY <1>1
<1>. QED
  BY <1>2, Inductive, PTL DEF AuthnSpec, OnlyOwnerRevokes
-----------------------------------------------------------------------------
(* The users service. *)

Jobs == [op : {"none", "login", "info", "update", "reset", "change", "mail"},
         user : Users \cup {None}, old : Passwords \cup {None},
         new : Passwords \cup Metas \cup {None}]

UserSteps == {"idle", "issue", "identify", "read", "setMeta", "checkOld",
              "findUser", "setPassword", "issueReset"}

\* The types of the table.
TableOK ==
  /\ pw \in [Users -> Passwords \cup {None}]
  /\ umeta \in [Users -> Metas \cup {None}]
  /\ mails \subseteq Users \X Tokens

\* What a request at label l with arguments j can rely on.
JobOK(l, j) ==
  /\ l = "identify" => /\ j.op \in {"info", "update", "reset", "change"}
                       /\ j.op = "update" => j.new \in Metas
                       /\ j.op \in {"reset", "change"} => j.new \in Passwords
  /\ l = "setMeta" => j.new \in Metas
  /\ l \in {"checkOld", "findUser", "setPassword"} => j.new \in Passwords
  /\ l \in {"setPassword", "issueReset"} => j.user \in Users

JobsOK ==
  /\ upc \in [Procs -> UserSteps] /\ job \in [Procs -> Jobs]
  /\ \A p \in Procs : JobOK(upc[p], job[p])

\* The inductive invariant: that of Authn, the table and the requests.
AccInv == IInv /\ TableOK /\ JobsOK
-----------------------------------------------------------------------------
(* Every step of the composition is a step of authn, or none. *)

\* GenerateResetToken asks for a recovery key as Issue allows, or gets none.
LEMMA IssueResetStep ==
  ASSUME NEW p \in Procs, IssueReset(p)
  PROVE  [AuthnNext]_authnVars
<1>. DEFINE u == job[p].user
            new == {TempKey("recovery", tok.subject, ResetDuration) : tok \in LoginTokens(u)}
<1>1. tokens' = tokens \cup new /\ UNCHANGED <<now, rows, pc, req>>
  BY DEF IssueReset
<1>2. CASE LoginTokens(u) = {}
  BY <1>1, <1>2 DEF authnVars
<1>3. CASE \E tok \in tokens : LoginTokens(u) = {tok} /\ MayLogin(tok)
  BY <1>1, <1>3 DEF IssueRecoveryKey, AuthnNext, GrpcIssue
<1>. QED
  BY <1>2, <1>3 DEF LoginTokens

\* Every step is one that Authn allows, or leaves authn alone.
LEMMA AuthnStep ==
  ASSUME AccInv, [Next]_vars
  PROVE  [AuthnNext]_authnVars
<1>1. ASSUME NEW p \in Procs, Request(p)
      PROVE  [AuthnNext]_authnVars
  <2>1. CASE \/ \E u \in Users, w \in Passwords :
                  Login(p, u, w) \/ \E m \in Metas : Register(p, u, w, m)
             \/ \E u \in Users : GenerateResetToken(p, u)
    BY <2>1 DEF Register, Login, GenerateResetToken
  <2>2. CASE \E tok \in tokens : Identify(p, tok)
    BY <2>2 DEF AuthnNext, GrpcIdentify
  <2>. QED
    BY <1>1, <2>1, <2>2 DEF Request, UserInfo, UpdateUser, ResetPassword, ChangePassword, StartWith
<1>2. ASSUME NEW p \in Procs, Work(p)
      PROVE  [AuthnNext]_authnVars
  <2>1. CASE IssueLogin(p)
    <3>1. job[p].user \in Users \cup {None}
      BY DEF AccInv, JobsOK, Jobs
    <3>. QED
      BY <2>1, <3>1 DEF IssueLogin, AuthnNext, HttpIssue
  <2>2. CASE Identified(p)
    BY <2>2 DEF Identified, AuthnNext
  <2>3. CASE IssueReset(p)
    BY <2>3, IssueResetStep
  <2>4. CASE IdentifyStep(p)
    BY <2>4 DEF AuthnNext
  <2>5. CASE UNCHANGED authnVars
    BY <2>5
  <2>. QED
    BY <1>2, <2>1, <2>2, <2>3, <2>4, <2>5
    DEF Work, ReadUser, SetMeta, CheckOld, FindUser, UpdatePassword
<1>3. CASE Others
  BY <1>3 DEF Others, AuthnNext
<1>4. CASE UNCHANGED vars
  BY <1>4 DEF vars
<1>. QED
  BY <1>1, <1>2, <1>3, <1>4 DEF Next
-----------------------------------------------------------------------------
(* Every step keeps the table and the requests. *)

\* A request that goes on, knowing what its next label asks, and the others.
LEMMA UgotoInv ==
  ASSUME JobsOK, NEW p \in Procs, NEW l \in UserSteps, NEW j \in Jobs,
         Ugoto(p, l, j), JobOK(l, j)
  PROVE  JobsOK'
<1>1. upc' \in [Procs -> UserSteps] /\ job' \in [Procs -> Jobs]
  BY DEF JobsOK, Ugoto
<1>2. ASSUME NEW q \in Procs
      PROVE  JobOK(upc'[q], job'[q])
  <2>1. CASE q = p
    BY <2>1 DEF JobsOK, Ugoto
  <2>2. CASE q # p
    <3>1. upc'[q] = upc[q] /\ job'[q] = job[q]
      BY <2>2 DEF JobsOK, Ugoto
    <3>. QED
      BY <3>1 DEF JobsOK, JobOK
  <2>. QED
    BY <2>1, <2>2
<1>. QED
  BY <1>1, <1>2 DEF JobsOK

\* A request that is answered.
LEMMA UdoneInv ==
  ASSUME JobsOK, NEW p \in Procs, Udone(p)
  PROVE  JobsOK'
<1>1. NoJob \in Jobs /\ "idle" \in UserSteps /\ JobOK("idle", NoJob)
  BY DEF NoJob, Jobs, UserSteps, JobOK
<1>. QED
  BY <1>1, UgotoInv DEF Udone

\* A table that does not change.
LEMMA TableKept ==
  ASSUME TableOK, UNCHANGED <<pw, umeta, mails>>
  PROVE  TableOK'
BY DEF TableOK

\* The first step of each request keeps the table and the requests.
LEMMA RequestInv ==
  ASSUME AccInv, NEW p \in Procs, Request(p)
  PROVE  TableOK' /\ JobsOK'
<1>. TableOK /\ JobsOK
  BY DEF AccInv
<1>1. ASSUME NEW u \in Users, NEW w \in Passwords, NEW m \in Metas, Register(p, u, w, m)
      PROVE  TableOK' /\ JobsOK'
  <2>1. TableOK'
    BY <1>1 DEF Register, TableOK
  <2>. QED
    BY <1>1, <2>1 DEF Register, JobsOK, JobOK
<1>2. ASSUME NEW l \in UserSteps, NEW j \in Jobs, Ugoto(p, l, j), JobOK(l, j),
             UNCHANGED <<pw, umeta, mails>>
      PROVE  TableOK' /\ JobsOK'
  BY <1>2, TableKept, UgotoInv
<1>3. ASSUME NEW u \in Users, NEW w \in Passwords, Login(p, u, w)
      PROVE  TableOK' /\ JobsOK'
  <2>. DEFINE j == [NoJob EXCEPT !.op = "login", !.user = u]
  <2>1. j \in Jobs /\ JobOK("issue", j) /\ "issue" \in UserSteps
    BY DEF NoJob, Jobs, JobOK, UserSteps
  <2>. QED
    BY <1>2, <1>3, <2>1 DEF Login
<1>4. ASSUME NEW u \in Users, GenerateResetToken(p, u)
      PROVE  TableOK' /\ JobsOK'
  <2>. DEFINE j == [NoJob EXCEPT !.op = "mail", !.user = u]
  <2>1. j \in Jobs /\ JobOK("issueReset", j) /\ "issueReset" \in UserSteps
    BY DEF NoJob, Jobs, JobOK, UserSteps
  <2>. QED
    BY <1>2, <1>4, <2>1 DEF GenerateResetToken
<1>5. ASSUME NEW tok, NEW j \in Jobs, StartWith(p, tok, j), JobOK("identify", j)
      PROVE  TableOK' /\ JobsOK'
  BY <1>2, <1>5 DEF StartWith, UserSteps
<1>6. ASSUME NEW tok, UserInfo(p, tok)
      PROVE  TableOK' /\ JobsOK'
  <2>. DEFINE j == [NoJob EXCEPT !.op = "info"]
  <2>1. j \in Jobs /\ JobOK("identify", j)
    BY DEF NoJob, Jobs, JobOK
  <2>. QED
    BY <1>5, <1>6, <2>1 DEF UserInfo
<1>7. ASSUME NEW tok, NEW m \in Metas, UpdateUser(p, tok, m)
      PROVE  TableOK' /\ JobsOK'
  <2>. DEFINE j == [NoJob EXCEPT !.op = "update", !.new = m]
  <2>1. j \in Jobs /\ JobOK("identify", j)
    BY DEF NoJob, Jobs, JobOK
  <2>. QED
    BY <1>5, <1>7, <2>1 DEF UpdateUser
<1>8. ASSUME NEW tok, NEW w \in Passwords, ResetPassword(p, tok, w)
      PROVE  TableOK' /\ JobsOK'
  <2>. DEFINE j == [NoJob EXCEPT !.op = "reset", !.new = w]
  <2>1. j \in Jobs /\ JobOK("identify", j)
    BY DEF NoJob, Jobs, JobOK
  <2>. QED
    BY <1>5, <1>8, <2>1 DEF ResetPassword
<1>9. ASSUME NEW tok, NEW old \in Passwords, NEW w \in Passwords, ChangePassword(p, tok, old, w)
      PROVE  TableOK' /\ JobsOK'
  <2>. DEFINE j == [NoJob EXCEPT !.op = "change", !.old = old, !.new = w]
  <2>1. j \in Jobs /\ JobOK("identify", j)
    BY DEF NoJob, Jobs, JobOK
  <2>. QED
    BY <1>5, <1>9, <2>1 DEF ChangePassword
<1>. QED
  BY <1>1, <1>3, <1>4, <1>6, <1>7, <1>8, <1>9 DEF Request

\* The answer of authn: the request goes on as the user of its token.
LEMMA IdentifiedInv ==
  ASSUME AccInv, NEW p \in Procs, Identified(p)
  PROVE  TableOK' /\ JobsOK'
<1>. TableOK /\ JobsOK
  BY DEF AccInv
<1>1. TableOK'
  BY TableKept DEF Identified
<1>2. CASE Udone(p)
  BY <1>1, <1>2, UdoneInv
<1>3. CASE /\ pc[p] = "ok"
           /\ Ugoto(p, AfterIdentify(job[p].op), [job[p] EXCEPT !.user = UserOf(req[p].tok)])
  <2>. DEFINE j == [job[p] EXCEPT !.user = UserOf(req[p].tok)]
              l == AfterIdentify(job[p].op)
  <2>1. req[p].tok \in Tokens
    BY <1>3 DEF AccInv, IInv, AuthnTypeOK, CallsOK, CallOK
  <2>2. /\ JobOK("identify", job[p]) /\ job[p] \in Jobs
    BY DEF Identified, JobsOK
  <2>3. UserOf(req[p].tok) \in Users \cup {None}
    <3>1. CASE req[p].tok.type = "api"
      <4>1. req[p].tok.issuer \in Users
        BY <1>3, <3>1 DEF AccInv, IInv, KeysMatch, CallsOK, CallOK
      <4>. QED
        BY <3>1, <4>1 DEF UserOf
    <3>2. CASE req[p].tok.type # "api"
      BY <2>1, <3>2 DEF UserOf, Tokens
    <3>. QED
      BY <3>1, <3>2
  <2>4. j \in Jobs /\ j.op = job[p].op /\ j.new = job[p].new /\ j.old = job[p].old
    BY <2>2, <2>3 DEF Jobs
  <2>5. l \in UserSteps /\ JobOK(l, j)
    BY <2>2, <2>4 DEF JobOK, AfterIdentify, UserSteps
  <2>. QED
    BY <1>1, <1>3, <2>4, <2>5, UgotoInv
<1>. QED
  BY <1>2, <1>3 DEF Identified

\* The later steps of the requests keep the table and the requests.
LEMMA WorkInv ==
  ASSUME AccInv, AuthnTypeOK', NEW p \in Procs, Work(p)
  PROVE  TableOK' /\ JobsOK'
<1>. TableOK /\ JobsOK
  BY DEF AccInv
<1>1. JobOK(upc[p], job[p]) /\ job[p] \in Jobs
  BY DEF JobsOK
<1>2. ASSUME UNCHANGED <<pw, umeta, mails>>, Udone(p)
      PROVE  TableOK' /\ JobsOK'
  BY <1>2, TableKept, UdoneInv
<1>3. CASE IssueLogin(p) \/ ReadUser(p)
  BY <1>2, <1>3 DEF IssueLogin, ReadUser
<1>4. CASE Identified(p)
  BY <1>4, IdentifiedInv
<1>5. CASE SetMeta(p)
  <2>1. job[p].new \in Metas
    BY <1>1, <1>5 DEF SetMeta, JobOK
  <2>2. TableOK'
    BY <1>5, <2>1 DEF SetMeta, TableOK, HasRow
  <2>. QED
    BY <1>5, <2>2, UdoneInv DEF SetMeta
<1>6. CASE CheckOld(p)
  <2>1. CASE HasRow(job[p].user) /\ pw[job[p].user] = job[p].old /\ Ugoto(p, "findUser", job[p])
    <3>1. JobOK("findUser", job[p]) /\ "findUser" \in UserSteps
      BY <1>1, <1>6 DEF CheckOld, JobOK, UserSteps
    <3>. QED
      BY <1>1, <1>6, <2>1, <3>1, TableKept, UgotoInv DEF CheckOld
  <2>. QED
    BY <1>2, <1>6, <2>1 DEF CheckOld
<1>7. CASE FindUser(p)
  <2>1. CASE HasRow(job[p].user) /\ Ugoto(p, "setPassword", job[p])
    <3>1. JobOK("setPassword", job[p]) /\ "setPassword" \in UserSteps
      BY <1>1, <1>7, <2>1 DEF FindUser, JobOK, UserSteps, HasRow
    <3>. QED
      BY <1>1, <1>7, <2>1, <3>1, TableKept, UgotoInv DEF FindUser
  <2>. QED
    BY <1>2, <1>7, <2>1 DEF FindUser
<1>8. CASE UpdatePassword(p)
  <2>1. job[p].user \in Users /\ job[p].new \in Passwords
    BY <1>1, <1>8 DEF UpdatePassword, JobOK
  <2>2. TableOK'
    BY <1>8, <2>1 DEF UpdatePassword, TableOK
  <2>. QED
    BY <1>8, <2>2, UdoneInv DEF UpdatePassword
<1>9. CASE IssueReset(p)
  <2>. DEFINE u == job[p].user
              new == {TempKey("recovery", tok.subject, ResetDuration) : tok \in LoginTokens(u)}
  <2>1. u \in Users /\ new \subseteq Tokens
    BY <1>1, <1>9 DEF IssueReset, JobOK, AuthnTypeOK
  <2>2. TableOK'
    BY <1>9, <2>1 DEF IssueReset, TableOK
  <2>. QED
    BY <1>9, <2>2, UdoneInv DEF IssueReset
<1>10. CASE UNCHANGED accVars
  BY <1>10, TableKept DEF accVars, JobsOK, JobOK
<1>. QED
  BY <1>3, <1>4, <1>5, <1>6, <1>7, <1>8, <1>9, <1>10 DEF Work
-----------------------------------------------------------------------------
\* The invariant of the users service and of authn, together, is inductive.
THEOREM AccountsInductive == Spec => []AccInv
<1>1. Init => AccInv
  <2>. SUFFICES ASSUME Init PROVE AccInv
    OBVIOUS
  <2>1. IInv
    BY InitInv DEF Init
  <2>2. TableOK
    BY DEF Init, TableOK
  <2>3. NoJob \in Jobs
    BY DEF NoJob, Jobs
  <2>4. JobsOK
    BY <2>3 DEF Init, JobsOK, JobOK, UserSteps
  <2>. QED
    BY <2>1, <2>2, <2>4 DEF AccInv
<1>2. AccInv /\ [Next]_vars => AccInv'
  <2>. SUFFICES ASSUME AccInv, [Next]_vars PROVE AccInv'
    OBVIOUS
  <2>1. IInv'
    BY AuthnStep, NextInv DEF AccInv
  <2>2. AuthnTypeOK'
    BY <2>1 DEF IInv
  <2>3. CASE UNCHANGED accVars
    BY <2>1, <2>3, TableKept DEF accVars, AccInv, JobsOK, JobOK
  <2>4. ASSUME NEW p \in Procs, Request(p) \/ Work(p)
        PROVE  AccInv'
    BY <2>1, <2>2, <2>4, RequestInv, WorkInv DEF AccInv
  <2>. QED
    BY <2>3, <2>4 DEF Next, vars
<1>. QED
  BY <1>1, <1>2, PTL DEF Spec

\* The users service uses authn only as its interface allows: whatever is true
\* of every behaviour of authn is true of the two services together.
THEOREM UsesAuthn == Spec => AuthnSpec
<1>1. Init => AuthnInit
  BY DEF Init
<1>2. AccInv /\ [Next]_vars => [AuthnNext]_authnVars
  BY AuthnStep
<1>. QED
  BY <1>1, <1>2, AccountsInductive, PTL DEF Spec, AuthnSpec

\* Table, requests, tokens and rows keep their types.
THEOREM AccountsTypeCorrect == Spec => []TypeOK
<1>1. AccInv => TypeOK
  BY DEF AccInv, IInv, TableOK, JobsOK, Jobs, UserSteps, TypeOK
<1>. QED
  BY <1>1, AccountsInductive, PTL

\* Also with the users service and its requests, Identify accepts no key that
\* was removed, and no token that had expired, before the call arrived, and no
\* other user's token removes a key.
THEOREM KeysStaySafe == Spec => []RevokedStaysOut /\ []ExpiredNotAccepted /\ OnlyOwnerRevokes
BY UsesAuthn, NoRevokedKey, NoExpiredToken, OwnerRevokes, PTL
=============================================================================
