------------------------------ MODULE Accounts ------------------------------
(***************************************************************************)
(* The users service (users/service.go) over its table (users/postgres)    *)
(* and the authn service it calls over gRPC (Authn).                       *)
(*                                                                         *)
(* A request takes one step per SQL statement and per gRPC call; Identify  *)
(* takes the steps it has in Authn.  A password stands for its hash: the   *)
(* hasher only compares.  Rows of users are never deleted.                 *)
(***************************************************************************)
EXTENDS Authn

CONSTANTS Passwords,  \* passwords
          Metas,      \* metadata of a user; NULL, when it is left out, is one
          MaxTokens   \* bound on the tokens handed out: no login or issue beyond it

ASSUME AccountsNone == None \notin Passwords

VARIABLES pw,     \* column password, None: no row
          umeta,  \* column metadata
          upc,    \* next step of each request
          job,    \* its arguments, and the user once identified
          mails   \* reset links that were mailed: <<user, token>>

accVars == <<pw, umeta, upc, job, mails>>
vars == <<authnVars, accVars>>

NoJob == [op |-> "none", user |-> None, old |-> None, new |-> None]

Init ==
  /\ AuthnInit
  /\ pw = [u \in Users |-> None] /\ umeta = [u \in Users |-> None]
  /\ upc = [p \in Procs |-> "idle"] /\ job = [p \in Procs |-> NoJob]
  /\ mails = {}

Ugoto(p, l, j) == upc' = [upc EXCEPT ![p] = l] /\ job' = [job EXCEPT ![p] = j]
Udone(p) == Ugoto(p, "idle", NoJob)
Uidle(p) == upc[p] = "idle" /\ pc[p] = "idle"

-----------------------------------------------------------------------------
(* Register and Login. *)

\* INSERT INTO users.
Register(p, u, w, m) ==
  /\ Uidle(p) /\ pw[u] = None                        \* PRIMARY KEY (email)
  /\ pw' = [pw EXCEPT ![u] = w] /\ umeta' = [umeta EXCEPT ![u] = m]
  /\ UNCHANGED <<authnVars, upc, job, mails>>

\* RetrieveByID and Compare.
Login(p, u, w) ==
  /\ Uidle(p) /\ pw[u] = w
  /\ Ugoto(p, "issue", [NoJob EXCEPT !.op = "login", !.user = u])
  /\ UNCHANGED <<authnVars, pw, umeta, mails>>

\* auth.Issue(email, UserKey).
IssueLogin(p) ==
  /\ upc[p] = "issue"
  /\ IssueUserKey(job[p].user)
  /\ Udone(p)
  /\ UNCHANGED <<pw, umeta, mails>>
-----------------------------------------------------------------------------
(* Requests that present a token. *)

\* identify: the request waits for the answer of authn.
StartWith(p, tok, j) ==
  /\ Uidle(p) /\ Identify(p, tok)
  /\ Ugoto(p, "identify", j)
  /\ UNCHANGED <<pw, umeta, mails>>

UserInfo(p, tok) == StartWith(p, tok, [NoJob EXCEPT !.op = "info"])
UpdateUser(p, tok, m) == StartWith(p, tok, [NoJob EXCEPT !.op = "update", !.new = m])
ResetPassword(p, tok, w) == StartWith(p, tok, [NoJob EXCEPT !.op = "reset", !.new = w])
ChangePassword(p, tok, old, w) ==
  StartWith(p, tok, [NoJob EXCEPT !.op = "change", !.old = old, !.new = w])

AfterIdentify(op) ==
  CASE op = "info" -> "read" [] op = "update" -> "setMeta"
    [] op = "reset" -> "findUser" [] op = "change" -> "checkOld"

\* Mutant of Identified: the token, a string like the e-mail, goes on as the
\* user.
IdentifiedToken(p) ==
  /\ upc[p] = "identify" /\ Answer(p)
  /\ \/ pc[p] = "denied" /\ Udone(p)
     \/ pc[p] = "ok" /\ Ugoto(p, AfterIdentify(job[p].op), [job[p] EXCEPT !.user = req[p].tok])
  /\ UNCHANGED <<pw, umeta, mails>>

Identified(p) ==
  /\ upc[p] = "identify" /\ Answer(p)
  /\ \/ pc[p] = "denied" /\ Udone(p)                 \* ErrUnauthorizedAccess
     \/ /\ pc[p] = "ok"
        /\ Ugoto(p, AfterIdentify(job[p].op), [job[p] EXCEPT !.user = UserOf(req[p].tok)])
  /\ UNCHANGED <<pw, umeta, mails>>

HasRow(u) == u \in Users /\ pw[u] # None

\* UserInfo: RetrieveByID.
ReadUser(p) ==
  /\ upc[p] = "read" /\ Udone(p)
  /\ UNCHANGED <<authnVars, pw, umeta, mails>>

\* UPDATE users SET metadata WHERE email.
SetMeta(p) ==
  /\ upc[p] = "setMeta"
  /\ umeta' = IF HasRow(job[p].user) THEN [umeta EXCEPT ![job[p].user] = job[p].new] ELSE umeta
  /\ Udone(p) /\ UNCHANGED <<authnVars, pw, mails>>

\* ChangePassword: Login with the old password; the token it gets is dropped.
CheckOld(p) ==
  /\ upc[p] = "checkOld"
  /\ IF HasRow(job[p].user) /\ pw[job[p].user] = job[p].old
       THEN Ugoto(p, "findUser", job[p]) ELSE Udone(p)
  /\ UNCHANGED <<authnVars, pw, umeta, mails>>

\* RetrieveByID of ResetPassword and ChangePassword.
FindUser(p) ==
  /\ upc[p] = "findUser"
  /\ IF HasRow(job[p].user) THEN Ugoto(p, "setPassword", job[p]) ELSE Udone(p)
  /\ UNCHANGED <<authnVars, pw, umeta, mails>>

\* UPDATE users SET password WHERE email.
UpdatePassword(p) ==
  /\ upc[p] = "setPassword"
  /\ pw' = [pw EXCEPT ![job[p].user] = job[p].new]
  /\ Udone(p) /\ UNCHANGED <<authnVars, umeta, mails>>
-----------------------------------------------------------------------------
(* GenerateResetToken. *)

GenerateResetToken(p, u) ==
  /\ Uidle(p) /\ HasRow(u)
  /\ Ugoto(p, "issueReset", [NoJob EXCEPT !.op = "mail", !.user = u])
  /\ UNCHANGED <<authnVars, pw, umeta, mails>>

\* auth.Issue(email, RecoveryKey): resetKey takes its issuer, here the e-mail, for
\* a login token and fails with ErrUnauthorizedAccess unless it is one.
LoginTokens(s) == {tok \in tokens : tok = s /\ MayLogin(tok)}

IssueReset(p) ==
  /\ upc[p] = "issueReset"
  /\ LET u == job[p].user
         new == {TempKey("recovery", tok.subject, ResetDuration) : tok \in LoginTokens(u)}
     IN tokens' = tokens \cup new /\ mails' = mails \cup ({u} \X new)
  /\ Udone(p) /\ UNCHANGED <<now, rows, pc, req, pw, umeta>>
-----------------------------------------------------------------------------
Request(p) ==
  \/ \E u \in Users, w \in Passwords :
       \/ \E m \in Metas : Register(p, u, w, m)
       \/ Cardinality(tokens) < MaxTokens /\ Login(p, u, w)
  \/ \E u \in Users : GenerateResetToken(p, u)
  \/ \E tok \in tokens :
       \/ UserInfo(p, tok)
       \/ \E m \in Metas : UpdateUser(p, tok, m)
       \/ \E w \in Passwords : ResetPassword(p, tok, w)
       \/ \E old, w \in Passwords : ChangePassword(p, tok, old, w)

Work(p) ==
  \/ IssueLogin(p) \/ Identified(p) \/ ReadUser(p) \/ SetMeta(p) \/ CheckOld(p)
  \/ FindUser(p) \/ UpdatePassword(p) \/ IssueReset(p)
  \/ IdentifyStep(p) /\ UNCHANGED accVars

\* The other clients of authn, and time.
Others ==
  \/ Cardinality(tokens) < MaxTokens /\ (HttpIssue \/ GrpcIssue)
  \/ HttpRevoke \/ Tick

Next ==
  \/ \E p \in Procs : Request(p) \/ Work(p)
  \/ Others /\ UNCHANGED accVars

Spec == Init /\ [][Next]_vars
-----------------------------------------------------------------------------
\* Types of the table and of the requests under way, with those of Authn.
TypeOK ==
  /\ AuthnTypeOK
  /\ pw \in [Users -> Passwords \cup {None}]
  /\ umeta \in [Users -> Metas \cup {None}]
  /\ upc \in [Procs -> {"idle", "issue", "identify", "read", "setMeta", "checkOld",
                        "findUser", "setPassword", "issueReset"}]
  /\ job \in [Procs -> [op : {"none", "login", "info", "update", "reset", "change", "mail"},
                        user : Users \cup {None}, old : Passwords \cup {None},
                        new : Passwords \cup Metas \cup {None}]]
  /\ mails \subseteq Users \X Tokens
=============================================================================
