---------------------------- MODULE UserControl -----------------------------
(***************************************************************************)
(* The user-control service (user-control/): the worker processes of uwsgi *)
(* provision Grafana over its HTTP API, all as the same admin user.  Most  *)
(* calls act on the admin's current organisation, which is state of        *)
(* Grafana, shared by all workers.                                         *)
(*                                                                         *)
(* A step is a call of Grafana's API; a lookup of an organisation's or     *)
(* user's id is joined to the call that uses it, for ids stay.  Grafana    *)
(* may refuse any call.  Where nothing of the answer is read the request   *)
(* goes on as if the call had been done; a failed connection, or an answer *)
(* without the field that is read, is an exception and ends the request.   *)
(* Notification channels and preferences, which nothing reads, are left    *)
(* out.                                                                    *)
(*                                                                         *)
(* An organisation is looked up by its name as a part of the names that    *)
(* Grafana lists, in an order of its own: any name that contains it may be *)
(* the one found.                                                          *)
(*                                                                         *)
(* An organisation, its user and its channel, which names its datasource,  *)
(* come together and have one name here.                                   *)
(***************************************************************************)
EXTENDS Naturals, FiniteSets

CONSTANTS Orgs,      \* organisations that requests are for
          Main,      \* "Main Org.", where Grafana puts new users
          Contains,  \* <<o, p>>: the name of p contains that of o
          Workers,   \* processes of uwsgi
          Sensors,   \* sensors with an alarm
          NumDash,   \* dashboards of an organisation (5 in the code)
          AlarmDash, \* which one holds the alarms (the fourth)
          MaxRequests, \* bound: requests
          MaxRefusals, \* bound: calls refused whose answer is not looked at
          None

ASSUME DashAssumption == NumDash \in Nat /\ AlarmDash \in 1..NumDash /\ Main \notin Orgs

AllOrgs == Orgs \cup {Main}

ASSUME ContainsAssumption == \A o \in AllOrgs : <<o, o>> \in Contains

VARIABLES orgs,     \* organisations of Grafana
          cur,      \* the admin's current one
          ds,       \* datasources of each organisation
          dash,     \* its dashboards
          alarms,   \* the sensors whose alarm is set in its alarm dashboard
          users,    \* users of Grafana
          members,  \* members of each organisation
          begun,    \* requests there have been
          refusals, \* calls refused
          pc, req,  \* of each worker: next call, arguments and what it has read
          clean,    \* history: has nobody been beside it, and no call been refused?
          exposed   \* history: <<o, p>>: a request for o ran beside one that could
                    \* switch to p, or went on after a call that was refused

grafana == <<orgs, cur, ds, dash, alarms, users, members>>
history == <<refusals, clean, exposed>>
vars == <<grafana, begun, pc, req, history>>

NoReq == [org |-> None, n |-> 0, sensor |-> None, from |-> None, seen |-> {}, fresh |-> FALSE]

Init ==
  /\ orgs = {Main} /\ cur = Main
  /\ ds = [o \in AllOrgs |-> {}] /\ dash = [o \in AllOrgs |-> {}]
  /\ alarms = [o \in AllOrgs |-> {}]
  /\ users = {} /\ members = [o \in AllOrgs |-> {}]
  /\ begun = 0 /\ refusals = 0 /\ pc = [w \in Workers |-> "idle"] /\ req = [w \in Workers |-> NoReq]
  /\ clean = [w \in Workers |-> TRUE] /\ exposed = {}

Goto(w, l) == pc' = [pc EXCEPT ![w] = l]
Busy(w) == pc[w] # "idle"

\* The organisations that a request for o may make the current one.
Reach(o) == {p \in AllOrgs : <<o, p>> \in Contains \/ <<Main, p>> \in Contains}

\* A request begins at call l.
Start(w, l, r) ==
  LET beside == {v \in Workers \ {w} : Busy(v)}
  IN  /\ begun < MaxRequests /\ begun' = begun + 1
      /\ ~Busy(w) /\ Goto(w, l) /\ req' = [req EXCEPT ![w] = r]
      /\ clean' = [v \in Workers |-> IF v = w THEN beside = {} ELSE clean[v] /\ ~Busy(v)]
      /\ exposed' = exposed \cup UNION {({r.org} \X Reach(req[v].org))
                                         \cup ({req[v].org} \X Reach(r.org)) : v \in beside}
      /\ UNCHANGED refusals

Bootstrap(w, o) == Start(w, "check", [NoReq EXCEPT !.org = o]) /\ UNCHANGED grafana
updateDashboard(w, o) ==
  Start(w, "updSwitch", [NoReq EXCEPT !.org = o]) /\ UNCHANGED grafana
Set_Alarm(w, o, s) ==
  Start(w, "alarmSwitch", [NoReq EXCEPT !.org = o, !.sensor = s]) /\ UNCHANGED grafana

\* alarmpage reads what Set_Alarm reads, and stops.
alarmpage(w, o) == Start(w, "alarmSwitch", [NoReq EXCEPT !.org = o]) /\ UNCHANGED grafana

Return(w) ==
  /\ Goto(w, "idle") /\ req' = [req EXCEPT ![w] = NoReq]
  /\ clean' = [clean EXCEPT ![w] = TRUE] /\ UNCHANGED <<grafana, begun, refusals, exposed>>

\* An exception or the death of the worker: Grafana stays as it is.
Abort(w) == Busy(w) /\ Return(w)

\* A step of w from label a to label b.
Call(w, a, b) == pc[w] = a /\ Goto(w, b) /\ UNCHANGED begun
Quietly(w, a, b) == Call(w, a, b) /\ UNCHANGED req

\* A call does nothing and the request goes on: the answer is not looked at.
Ignored(w) ==
  /\ clean' = [clean EXCEPT ![w] = FALSE]
  /\ exposed' = exposed \cup ({req[w].org} \X AllOrgs) /\ UNCHANGED grafana

\* Grafana refuses it, for whatever reason.
Refused(w) == refusals < MaxRefusals /\ refusals' = refusals + 1 /\ Ignored(w)

\* What _get_organization_id may find; {}: it returns 0.
Matching(o) == {p \in orgs : <<o, p>> \in Contains}
-----------------------------------------------------------------------------
(* bootstrap *)

OrganizationCheck(w) ==
  /\ Quietly(w, "check", IF Matching(req[w].org) # {} THEN "switch" ELSE "create")
  /\ UNCHANGED <<grafana, history>>

\* Grafana keeps a name it has.
CreateOrganization(w) ==
  /\ Quietly(w, "create", "switch")
  /\ \/ /\ orgs' = orgs \cup {req[w].org}
        /\ UNCHANGED <<cur, ds, dash, alarms, users, members, history>>
     \/ Refused(w)

\* Mutant of ChangeTo: the current organisation is left as it is.
ChangeToNothing(w, o) == UNCHANGED <<grafana, history>>

\* _change_current_organization_to; id 0, no organisation, is refused.
ChangeTo(w, o) ==
  \/ \E p \in Matching(o) : cur' = p /\ UNCHANGED <<orgs, ds, dash, alarms, users, members, history>>
  \/ Matching(o) = {} /\ Ignored(w) /\ UNCHANGED refusals
  \/ Refused(w)

Switch(w) == Quietly(w, "switch", "datasource") /\ ChangeTo(w, req[w].org)

\* The name is taken in the organisation: the answer has no datasource.
CreateDatasource(w) ==
  /\ req[w].org \notin ds[cur] /\ Call(w, "datasource", "dashboards")
  /\ req' = [req EXCEPT ![w].n = 1]
  /\ ds' = [ds EXCEPT ![cur] = @ \cup {req[w].org}]
  /\ UNCHANGED <<orgs, cur, dash, alarms, users, members, history>>

\* The alarm dashboard of organisation o was written: copies of it are stale.
Stale(o) == [v \in Workers |-> IF req[v].from = o THEN [req[v] EXCEPT !.fresh = FALSE] ELSE req[v]]

\* One of the dashboards, written over what is there, with its alarms.
CreateDashboard(w, a, b) ==
  LET n == req[w].n
      r == IF n = AlarmDash THEN Stale(cur) ELSE req
  IN  /\ Call(w, a, IF n < NumDash THEN a ELSE b)
      /\ dash' = [dash EXCEPT ![cur] = @ \cup {n}]
      /\ alarms' = [alarms EXCEPT ![cur] = IF n = AlarmDash THEN {} ELSE @]
      /\ req' = [r EXCEPT ![w].n = n + 1]
      /\ UNCHANGED <<orgs, cur, ds, users, members, history>>

Dashboards(w) == CreateDashboard(w, "dashboards", "userSwitch")

\* _user_check
UserSwitch(w) == Quietly(w, "userSwitch", "userCheck") /\ ChangeTo(w, req[w].org)
UserCheck(w) ==
  /\ Quietly(w, "userCheck", IF req[w].org \in members[cur] THEN "exists" ELSE "user")
  /\ UNCHANGED <<grafana, history>>

\* Grafana puts a new user in the main organisation, and keeps one it has.
CreateUser(w) ==
  /\ Quietly(w, "user", "assign")
  /\ \/ /\ users' = users \cup {req[w].org}
        /\ members' = IF req[w].org \in users THEN members
                      ELSE [members EXCEPT ![Main] = @ \cup {req[w].org}]
        /\ UNCHANGED <<orgs, cur, ds, dash, alarms, history>>
     \/ Refused(w)

\* By the id of the organisation that is found; refused for id 0 and for no user.
AssignUser(w) ==
  /\ Quietly(w, "assign", "toMain")
  /\ \/ \E p \in Matching(req[w].org) :
          /\ req[w].org \in users /\ members' = [members EXCEPT ![p] = @ \cup {req[w].org}]
          /\ UNCHANGED <<orgs, cur, ds, dash, alarms, users, history>>
     \/ (Matching(req[w].org) = {} \/ req[w].org \notin users) /\ Ignored(w) /\ UNCHANGED refusals
     \/ Refused(w)

ToMain(w) == Quietly(w, "toMain", "remove") /\ ChangeTo(w, Main)

\* Mutant of RemoveUser: the user stays in the main organisation.
RemoveUserNot(w) == Quietly(w, "remove", "success") /\ UNCHANGED <<grafana, history>>

\* From the current organisation; not called without the id of the user.
RemoveUser(w) ==
  /\ Quietly(w, "remove", "success")
  /\ \/ /\ members' = [members EXCEPT ![cur] = @ \ {req[w].org}]
        /\ UNCHANGED <<orgs, cur, ds, dash, alarms, users, history>>
     \/ Refused(w)

Answer(w) ==
  pc[w] \in {"success", "exists", "updated", "alarmDone"} /\ Return(w)
-----------------------------------------------------------------------------
(* updateDashboard *)

UpdateSwitch(w) ==
  /\ Call(w, "updSwitch", "updDashboards") /\ req' = [req EXCEPT ![w].n = 1]
  /\ ChangeTo(w, req[w].org)
UpdateDashboards(w) == CreateDashboard(w, "updDashboards", "updated")
-----------------------------------------------------------------------------
(* Set_Alarm: read, change and write back the alarm dashboard. *)

AlarmSwitch(w) == Quietly(w, "alarmSwitch", "alarmRead") /\ ChangeTo(w, req[w].org)

\* _get_dashboard_json; without the dashboard there is an exception.
AlarmRead(w) ==
  /\ AlarmDash \in dash[cur]
  /\ Call(w, "alarmRead", IF req[w].sensor = None THEN "alarmDone" ELSE "alarmWrite")
  /\ req' = [req EXCEPT ![w].from = cur, ![w].seen = alarms[cur], ![w].fresh = TRUE]
  /\ UNCHANGED <<grafana, history>>

\* Mutant of Accepted: the write says overwrite, as that of _create_dashboard.
AcceptedAlways(w) == req[w].from = cur

\* Grafana's checks: the dashboard is one of the organisation, in this version.
Accepted(w) == req[w].from = cur /\ req[w].fresh

\* _update_existing_dashboard, refused when the dashboard changed meanwhile; the
\* request ends either way.
AlarmWrite(w) ==
  /\ Call(w, "alarmWrite", "alarmDone")
  /\ \/ /\ Accepted(w) /\ req' = Stale(cur)
        /\ alarms' = [alarms EXCEPT ![cur] = req[w].seen \cup {req[w].sensor}]
     \/ UNCHANGED <<alarms, req>>
  /\ UNCHANGED <<orgs, cur, ds, dash, users, members, history>>
-----------------------------------------------------------------------------
Begin(w) == \E o \in Orgs :
  \/ Bootstrap(w, o) \/ updateDashboard(w, o) \/ alarmpage(w, o)
  \/ \E s \in Sensors : Set_Alarm(w, o, s)

BootstrapStep(w) ==
  \/ OrganizationCheck(w) \/ CreateOrganization(w) \/ Switch(w)
  \/ CreateDatasource(w) \/ Dashboards(w)
  \/ UserSwitch(w) \/ UserCheck(w) \/ CreateUser(w) \/ AssignUser(w)
  \/ ToMain(w) \/ RemoveUser(w)

Next == \E w \in Workers :
  \/ Begin(w) \/ BootstrapStep(w)
  \/ UpdateSwitch(w) \/ UpdateDashboards(w)
  \/ AlarmSwitch(w) \/ AlarmRead(w) \/ AlarmWrite(w)
  \/ Answer(w) \/ Abort(w)

Spec == Init /\ [][Next]_vars
-----------------------------------------------------------------------------
\* No other organisation that there is has o's name as a part of its own.
OnlyMatch(o) == Matching(o) \subseteq {o}

\* A bootstrap that nobody interfered with, none of whose calls was refused, and
\* that answers success has provisioned everything: datasource, dashboards and the
\* user, who is not left in the main organisation.  This is so whatever aborted,
\* refused or mixed-up requests left before, but only when no name contains that of
\* the organisation or of the main one: the calls would be for the wrong one.
SuccessIsProvisioned ==
  \A w \in Workers :
    LET o == req[w].org
    IN  pc[w] = "success" /\ clean[w] /\ OnlyMatch(o) /\ OnlyMatch(Main) =>
          o \in ds[o] /\ dash[o] = 1..NumDash /\ o \in members[o] \ members[Main]

\* The datasource of one organisation is found in another only when requests for
\* the two overlapped, when a refused call was passed over in a request for the
\* first, or when the name of the second contains that of the first: nothing that
\* an earlier request left behind, as the current organisation of the admin, leads
\* a later one astray.
DatasourcesAreOwn ==
  \A p \in AllOrgs : \A o \in ds[p] : <<o, p>> \in Contains \cup exposed

\* An alarm that was set stays set, however requests interleave, until the
\* dashboards of its organisation are written anew: of two writers that read the
\* same version of a dashboard one is refused.
AlarmsAreKept ==
  [][\A o \in AllOrgs : alarms[o] \subseteq alarms'[o]
       \/ \E w \in Workers : cur = o /\ pc[w] \in {"dashboards", "updDashboards"}
                             /\ req[w].n = AlarmDash /\ req'[w].n # AlarmDash]_vars
=============================================================================
