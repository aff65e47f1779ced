-------------------------- MODULE UserControlProofs --------------------------
(***************************************************************************)
(* A bootstrap that no request interfered with and that met no refusal     *)
(* provisions all it should, datasources get into the wrong organisation   *)
(* only by overlapping requests, refused calls and names in names, and     *)
(* alarms are never lost between two writers, for any number of workers,   *)
(* organisations, sensors, dashboards, requests and refusals, whatever     *)
(* requests were cut short before.                                         *)
(*                                                                         *)
(* The invariant says that two requests under way know of each other, as   *)
(* far as the histories go (AloneOK), where a bootstrap may be when it     *)
(* creates its datasource (PlaceOK), what one that is undisturbed has      *)
(* achieved at each of its calls (ProgressOK), and that the copy of an     *)
(* alarm dashboard whose version is current has its alarms (FreshOK).      *)
(***************************************************************************)
EXTENDS UserControl, TLAPS

Labels == {"idle", "check", "create", "switch", "datasource", "dashboards", "userSwitch",
           "userCheck", "exists", "user", "assign", "toMain", "remove", "success",
           "updSwitch", "updDashboards", "updated", "alarmSwitch", "alarmRead",
           "alarmWrite", "alarmDone"}

Reqs == [org : Orgs \cup {None}, n : Nat, sensor : Sensors \cup {None},
         from : AllOrgs \cup {None}, seen : SUBSET (Sensors \cup {None}), fresh : BOOLEAN]

\* Grafana and the workers have their types; a request is for an organisation,
\* and writes dashboards that there are.
ShapeOK ==
  /\ orgs \subseteq AllOrgs /\ Main \in orgs /\ cur \in AllOrgs
  /\ ds \in [AllOrgs -> SUBSET Orgs] /\ dash \in [AllOrgs -> SUBSET (1..NumDash)]
  /\ alarms \in [AllOrgs -> SUBSET (Sensors \cup {None})]
  /\ users \subseteq Orgs /\ members \in [AllOrgs -> SUBSET Orgs]
  /\ pc \in [Workers -> Labels] /\ req \in [Workers -> Reqs]
  /\ clean \in [Workers -> BOOLEAN]
  /\ \A w \in Workers :
       /\ Busy(w) => req[w].org \in Orgs
       /\ pc[w] \in {"dashboards", "updDashboards"} => req[w].n \in 1..NumDash

AloneOK ==
  \A v, w \in Workers : v # w /\ Busy(v) /\ Busy(w) =>
    /\ ~clean[w]
    /\ \A p \in Reach(req[w].org) : <<req[v].org, p>> \in exposed

PlaceOK ==
  \A w \in Workers : pc[w] = "datasource" => <<req[w].org, cur>> \in Contains \cup exposed

\* The calls of bootstrap from the last dashboard on.
Provisioned == {"userSwitch", "userCheck", "user", "assign", "toMain", "remove", "success"}

\* What bootstrap has achieved at each of its calls.
Progress(w) ==
  LET o == req[w].org
  IN  /\ pc[w] \in {"switch", "datasource", "dashboards"} \cup Provisioned => o \in orgs
      /\ pc[w] \in {"datasource", "dashboards"} => cur = o
      /\ pc[w] \in {"dashboards"} \cup Provisioned => o \in ds[o]
      /\ pc[w] = "dashboards" => 1..req[w].n - 1 \subseteq dash[o]
      /\ pc[w] \in Provisioned => dash[o] = 1..NumDash
      /\ pc[w] \in {"toMain", "remove", "success"} => o \in members[o]
      /\ pc[w] = "remove" => cur = Main
      /\ pc[w] = "success" => o \notin members[Main]

\* No disturbance has been there, and no name leads astray.
Sound(w) == clean[w] /\ OnlyMatch(req[w].org) /\ OnlyMatch(Main)

ProgressOK == \A w \in Workers : Sound(w) /\ Busy(w) => Progress(w)

FreshOK ==
  \A w \in Workers : req[w].fresh => req[w].from \in AllOrgs /\ req[w].seen = alarms[req[w].from]

\* The inductive invariant.
IInv == ShapeOK /\ AloneOK /\ PlaceOK /\ ProgressOK /\ FreshOK /\ DatasourcesAreOwn
-----------------------------------------------------------------------------
\* The invariant holds in a fresh Grafana.
LEMMA InitInv ==
  Init => IInv
BY DashAssumption
DEF Init, IInv, ShapeOK, AloneOK, PlaceOK, ProgressOK, FreshOK, DatasourcesAreOwn, AllOrgs, Labels, Reqs,
    NoReq, Busy

\* A request learns of the others when it begins, and they of it.
LEMMA StartInv ==
  ASSUME IInv, NEW w \in Workers, NEW l \in {"check", "updSwitch", "alarmSwitch"}, NEW r \in Reqs,
         r.org \in Orgs, ~r.fresh, Start(w, l, r), UNCHANGED grafana
  PROVE  IInv'
<1>. DEFINE beside == {v \in Workers \ {w} : Busy(v)}
            pairs(v) == ({r.org} \X Reach(req[v].org)) \cup ({req[v].org} \X Reach(r.org))
<1>1. /\ pc'[w] = l /\ req'[w] = r /\ clean'[w] = (beside = {}) /\ ~Busy(w)
      /\ \A v \in Workers \ {w} : pc'[v] = pc[v] /\ req'[v] = req[v] /\ clean'[v] = (clean[v] /\ ~Busy(v))
      /\ exposed' = exposed \cup UNION {pairs(v) : v \in beside}
      /\ UNCHANGED <<orgs, cur, ds, dash, alarms, users, members>>
  BY DEF Start, Goto, grafana, IInv, ShapeOK
<1>2. \A v \in Workers \ {w} : Busy(v)' = Busy(v)
  BY <1>1 DEF Busy
<1>3. ShapeOK'
  <2>1. pc' \in [Workers -> Labels] /\ req' \in [Workers -> Reqs] /\ clean' \in [Workers -> BOOLEAN]
    BY <1>1 DEF Start, Goto, IInv, ShapeOK, Labels
  <2>. QED
    BY <1>1, <1>2, <2>1 DEF IInv, ShapeOK
<1>4. AloneOK'
  <2>1. ASSUME NEW v \in Workers \ {w}, Busy(v)
        PROVE  /\ ~clean'[w] /\ ~clean'[v]
               /\ \A p \in Reach(r.org) : <<req[v].org, p>> \in exposed'
               /\ \A p \in Reach(req[v].org) : <<r.org, p>> \in exposed'
    <3>1. v \in beside /\ pairs(v) \subseteq exposed'
      BY <1>1, <2>1
    <3>. QED
      BY <1>1, <2>1, <3>1
  <2>2. \A o : Reach(o)' = Reach(o)
    BY DEF Reach
  <2>3. exposed \subseteq exposed'
    BY <1>1
  <2>. QED
    BY <1>1, <1>2, <2>1, <2>2, <2>3 DEF IInv, AloneOK
<1>5. PlaceOK'
  BY <1>1 DEF IInv, PlaceOK
<1>6. ProgressOK'
  <2>1. Progress(w)'
    BY <1>1 DEF Progress, Provisioned
  <2>. QED
    BY <1>1, <1>2, <2>1 DEF ProgressOK, Sound
<1>7. FreshOK'
  BY <1>1 DEF IInv, FreshOK
<1>8. DatasourcesAreOwn'
  BY <1>1 DEF IInv, DatasourcesAreOwn
<1>. QED
  BY <1>3, <1>4, <1>5, <1>6, <1>7, <1>8 DEF IInv

\* The requests that there are.
LEMMA BeginInv ==
  ASSUME IInv, NEW w \in Workers, Begin(w)
  PROVE  IInv'
<1>1. PICK o \in Orgs : \/ Bootstrap(w, o) \/ updateDashboard(w, o) \/ alarmpage(w, o)
                        \/ \E s \in Sensors : Set_Alarm(w, o, s)
  BY DEF Begin
<1>2. \A s \in Sensors : LET r == [NoReq EXCEPT !.org = o, !.sensor = s]
                         IN  r \in Reqs /\ r.org = o /\ ~r.fresh
  BY DEF NoReq, Reqs
<1>3. LET r == [NoReq EXCEPT !.org = o] IN r \in Reqs /\ r.org = o /\ ~r.fresh
  BY DEF NoReq, Reqs
<1>. QED
  BY <1>1, <1>2, <1>3, StartInv DEF Bootstrap, updateDashboard, alarmpage, Set_Alarm

\* The answer of a request, or its end in an exception.
LEMMA ReturnInv ==
  ASSUME IInv, NEW w \in Workers, Busy(w), Return(w)
  PROVE  IInv'
<1>1. /\ pc'[w] = "idle" /\ req'[w] = NoReq /\ clean'[w] = TRUE
      /\ \A v \in Workers \ {w} : pc'[v] = pc[v] /\ req'[v] = req[v] /\ clean'[v] = clean[v]
      /\ UNCHANGED <<orgs, cur, ds, dash, alarms, users, members, exposed>>
  BY DEF Return, Goto, grafana, IInv, ShapeOK
<1>2. ~Busy(w)' /\ \A v \in Workers \ {w} : /\ Busy(v)' = Busy(v) /\ Progress(v)' = Progress(v)
                                            /\ Sound(v)' = Sound(v)
  BY <1>1 DEF Busy, Progress, Sound, OnlyMatch, Matching
<1>3. ShapeOK'
  <2>1. /\ pc' \in [Workers -> Labels] /\ clean' \in [Workers -> BOOLEAN]
        /\ req' \in [Workers -> Reqs]
    BY DEF Return, Goto, IInv, ShapeOK, Labels, Reqs, NoReq
  <2>. QED
    BY <1>1, <1>2, <2>1 DEF IInv, ShapeOK
<1>4. AloneOK' /\ ProgressOK'
  BY <1>1, <1>2 DEF IInv, AloneOK, ProgressOK, Reach
<1>5. PlaceOK' /\ FreshOK'
  BY <1>1 DEF IInv, PlaceOK, FreshOK, NoReq
<1>6. DatasourcesAreOwn'
  BY <1>1 DEF IInv, DatasourcesAreOwn
<1>. QED
  BY <1>3, <1>4, <1>5, <1>6 DEF IInv

\* Within a request its history only gets worse.
Worsens == /\ clean' \in [Workers -> BOOLEAN] /\ exposed \subseteq exposed'
           /\ \A v \in Workers : clean'[v] => clean[v]

\* What a call that did nothing leaves, and one that left no trace.
LEMMA HistoryFacts ==
  ASSUME IInv, NEW w \in Workers
  PROVE  /\ UNCHANGED history => Worsens /\ UNCHANGED <<clean, exposed>>
         /\ Ignored(w) => /\ Worsens /\ ~clean'[w] /\ UNCHANGED <<orgs, cur, ds, dash, alarms, users, members>>
                          /\ \A p \in AllOrgs : <<req[w].org, p>> \in exposed'
BY DEF IInv, ShapeOK, Worsens, history, grafana, Ignored

\* A call between two labels: only the progress of its own request matters, for
\* no other request can think it is alone, and those that are about to create a
\* datasource are exposed to where it may switch.
LEMMA CallInv ==
  ASSUME IInv, NEW w \in Workers, NEW a \in Labels \ {"idle"}, NEW b \in Labels \ {"idle"}, Call(w, a, b),
         Worsens, \A v \in Workers : req'[v].org = req[v].org, cur' = cur \/ cur' \in Reach(req[w].org),
         b = "datasource" => <<req[w].org, cur'>> \in Contains \cup exposed'
  PROVE  /\ pc[w] = a /\ pc'[w] = b /\ pc' \in [Workers -> Labels]
         /\ \A v \in Workers \ {w} : pc'[v] = pc[v]
         /\ \A v \in Workers : Busy(v)' = Busy(v)
         /\ AloneOK' /\ PlaceOK' /\ ((Sound(w)' => Progress(w)') => ProgressOK')
<1>1. /\ pc[w] = a /\ pc'[w] = b /\ pc' \in [Workers -> Labels]
      /\ \A v \in Workers \ {w} : pc'[v] = pc[v]
  BY DEF Call, Goto, IInv, ShapeOK
<1>2. Busy(w) /\ \A v \in Workers : Busy(v)' = Busy(v)
  BY <1>1 DEF Busy
<1>3. \A v \in Workers : Reach(req[v].org)' = Reach(req[v].org)
  BY DEF Reach
<1>4. AloneOK'
  BY <1>2, <1>3 DEF IInv, AloneOK, Worsens
<1>5. \A v \in Workers \ {w} : Busy(v) => /\ ~clean[v]
                                         /\ \A p \in Reach(req[w].org) : <<req[v].org, p>> \in exposed
  BY <1>2 DEF IInv, AloneOK
<1>6. PlaceOK'
  <2>1. ASSUME NEW v \in Workers, pc'[v] = "datasource"
        PROVE  <<req[v].org, cur'>> \in Contains \cup exposed'
    <3>1. CASE v = w
      BY <1>1, <2>1, <3>1
    <3>2. CASE v # w
      <4>1. Busy(v) /\ <<req[v].org, cur>> \in Contains \cup exposed
        BY <1>1, <2>1, <3>2 DEF Busy, IInv, PlaceOK
      <4>. QED
        BY <1>5, <3>2, <4>1 DEF Worsens
    <3>. QED
      BY <3>1, <3>2
  <2>. QED
    BY <2>1 DEF PlaceOK
<1>7. (Sound(w)' => Progress(w)') => ProgressOK'
  BY <1>2, <1>5 DEF ProgressOK, Sound, Worsens
<1>. QED
  BY <1>1, <1>2, <1>4, <1>6, <1>7

\* A call that leaves dashboards, alarms and datasources alone.
LEMMA QuietlyInv ==
  ASSUME IInv, NEW w \in Workers, NEW a \in Labels \ {"idle"},
         NEW b \in Labels \ {"idle", "dashboards", "updDashboards"}, Quietly(w, a, b), Worsens,
         UNCHANGED <<ds, dash, alarms>>, orgs' \subseteq AllOrgs, Main \in orgs', cur' \in AllOrgs,
         users' \subseteq Orgs, members' \in [AllOrgs -> SUBSET Orgs],
         cur' = cur \/ cur' \in Reach(req[w].org),
         b = "datasource" => <<req[w].org, cur'>> \in Contains \cup exposed',
         Sound(w)' => Progress(w)'
  PROVE  IInv'
<1>1. /\ pc'[w] = b /\ pc' \in [Workers -> Labels] /\ AloneOK' /\ PlaceOK' /\ ProgressOK' /\ UNCHANGED req
      /\ \A v \in Workers : Busy(v)' = Busy(v)
      /\ \A v \in Workers \ {w} : pc'[v] = pc[v]
  BY CallInv DEF Quietly
<1>2. ShapeOK'
  BY <1>1 DEF IInv, ShapeOK, Worsens
<1>3. FreshOK' /\ DatasourcesAreOwn'
  BY <1>1 DEF IInv, FreshOK, DatasourcesAreOwn, Worsens
<1>. QED
  BY <1>1, <1>2, <1>3 DEF IInv

\* Names that lead astray stay.
LEMMA SoundBefore ==
  ASSUME NEW w \in Workers, Worsens, orgs \subseteq orgs', req'[w].org = req[w].org
  PROVE  Sound(w)' => Sound(w)
BY DEF Sound, Worsens, OnlyMatch, Matching
-----------------------------------------------------------------------------
(* The calls of bootstrap. *)

\* The organisation is looked up, and created when there is none.
LEMMA OrganizationInv ==
  ASSUME IInv, NEW w \in Workers, OrganizationCheck(w) \/ CreateOrganization(w)
  PROVE  IInv'
<1>1. CASE OrganizationCheck(w)
  <2>1. PICK b \in {"switch", "create"} :
          Quietly(w, "check", b) /\ (b = "switch" => Matching(req[w].org) # {}) /\ UNCHANGED <<grafana, history>>
    BY <1>1 DEF OrganizationCheck
  <2>2. Worsens
    BY <2>1, HistoryFacts
  <2>3. Sound(w)' => Progress(w)'
    <3>1. pc'[w] = b /\ UNCHANGED <<req, orgs>>
      BY <2>1 DEF Quietly, Call, Goto, grafana, IInv, ShapeOK
    <3>2. Sound(w)' /\ b = "switch" => req[w].org \in orgs
      BY <2>1, <3>1 DEF Sound, OnlyMatch, Matching
    <3>. QED
      BY <2>1, <3>1, <3>2 DEF Progress, Provisioned
  <2>. QED
    BY <2>1, <2>2, <2>3, QuietlyInv DEF grafana, IInv, ShapeOK, Labels
<1>2. CASE CreateOrganization(w)
  <2>1. Quietly(w, "create", "switch")
    BY <1>2 DEF CreateOrganization
  <2>2. pc[w] = "create" /\ pc'[w] = "switch" /\ req' = req
    BY <2>1 DEF Quietly, Call, Goto, IInv, ShapeOK
  <2>3. req[w].org \in AllOrgs
    BY <2>2 DEF IInv, ShapeOK, Busy, AllOrgs
  <2>4. /\ Worsens /\ UNCHANGED <<cur, ds, dash, alarms, users, members>>
        /\ orgs' = orgs \cup {req[w].org} \/ (UNCHANGED orgs /\ ~clean'[w])
    BY <1>2, HistoryFacts DEF CreateOrganization, Refused, history
  <2>5. Sound(w)' => Progress(w)'
    BY <2>2, <2>4 DEF Progress, Provisioned, Sound
  <2>. QED
    BY <2>1, <2>3, <2>4, <2>5, QuietlyInv DEF IInv, ShapeOK, Labels
<1>. QED
  BY <1>1, <1>2

\* A switch goes to an organisation that is found, or is ignored.
LEMMA ChangeToFacts ==
  ASSUME IInv, NEW w \in Workers, NEW o \in {req[w].org, Main}, ChangeTo(w, o)
  PROVE  /\ Worsens /\ UNCHANGED <<orgs, ds, dash, alarms, users, members>> /\ cur' \in AllOrgs
         /\ cur' = cur \/ cur' \in Reach(req[w].org)
         /\ <<o, cur'>> \in Contains \/ <<req[w].org, cur'>> \in exposed'
         /\ clean'[w] /\ OnlyMatch(o) => cur' = o
<1>1. cur \in AllOrgs /\ orgs \subseteq AllOrgs
  BY DEF IInv, ShapeOK
<1>2. CASE Ignored(w)
  BY <1>1, <1>2, HistoryFacts
<1>3. ASSUME NEW p \in Matching(o), cur' = p,
             UNCHANGED <<orgs, ds, dash, alarms, users, members, history>>
      PROVE  /\ Worsens /\ cur' \in Reach(req[w].org) /\ cur' \in AllOrgs /\ <<o, cur'>> \in Contains
             /\ OnlyMatch(o) => cur' = o
  <2>1. Worsens
    BY <1>3, HistoryFacts
  <2>2. p \in orgs /\ <<o, p>> \in Contains
    BY DEF Matching
  <2>. QED
    BY <1>1, <1>3, <2>1, <2>2 DEF Reach, OnlyMatch
<1>. QED
  BY <1>2, <1>3 DEF ChangeTo, Refused

\* A switch of the current organisation in a call of bootstrap.
LEMMA SwitchInv ==
  ASSUME IInv, NEW w \in Workers, Switch(w) \/ UserSwitch(w) \/ ToMain(w)
  PROVE  IInv'
<1>1. PICK a, b, o :
        /\ Quietly(w, a, b) /\ ChangeTo(w, o)
        /\ \/ a = "switch" /\ b = "datasource" /\ o = req[w].org
           \/ a = "userSwitch" /\ b = "userCheck" /\ o = req[w].org
           \/ a = "toMain" /\ b = "remove" /\ o = Main
  BY DEF Switch, UserSwitch, ToMain
<1>2. /\ Worsens /\ UNCHANGED <<orgs, ds, dash, alarms, users, members>> /\ cur' \in AllOrgs
      /\ cur' = cur \/ cur' \in Reach(req[w].org)
      /\ <<o, cur'>> \in Contains \/ <<req[w].org, cur'>> \in exposed'
      /\ clean'[w] /\ OnlyMatch(o) => cur' = o
  BY <1>1, ChangeToFacts
<1>3. pc[w] = a /\ pc'[w] = b /\ req' = req
  BY <1>1 DEF Quietly, Call, Goto, IInv, ShapeOK
<1>4. Sound(w)' => Sound(w) /\ Progress(w) /\ cur' = o
  <2>1. Sound(w)' => Sound(w)
    BY <1>2, <1>3, SoundBefore
  <2>2. Busy(w)
    BY <1>1, <1>3 DEF Busy
  <2>3. Sound(w)' => cur' = o
    BY <1>1, <1>2, <1>3, <2>1 DEF Sound
  <2>. QED
    BY <2>1, <2>2, <2>3 DEF IInv, ProgressOK
<1>5. Sound(w)' => Progress(w)'
  <2>1. CASE a = "switch"
    BY <1>1, <1>2, <1>3, <1>4, <2>1 DEF Progress, Provisioned
  <2>2. CASE a = "userSwitch"
    BY <1>1, <1>2, <1>3, <1>4, <2>2 DEF Progress, Provisioned
  <2>3. CASE a = "toMain"
    BY <1>1, <1>2, <1>3, <1>4, <2>3 DEF Progress, Provisioned
  <2>. QED
    BY <1>1, <2>1, <2>2, <2>3
<1>6. a \in Labels \ {"idle"} /\ b \in Labels \ {"idle", "dashboards", "updDashboards"}
  BY <1>1 DEF Labels
<1>7. b = "datasource" => <<req[w].org, cur'>> \in Contains \cup exposed'
  BY <1>1, <1>2
<1>. QED
  BY <1>1, <1>2, <1>5, <1>6, <1>7, QuietlyInv DEF IInv, ShapeOK

\* The user is looked up, created, assigned and taken out of the main
\* organisation; these calls leave the current organisation as it is.
LEMMA UserInv ==
  ASSUME IInv, NEW w \in Workers, UserCheck(w) \/ CreateUser(w) \/ AssignUser(w) \/ RemoveUser(w)
  PROVE  IInv'
<1>1. PICK a, b :
        /\ Quietly(w, a, b)
        /\ \/ a = "userCheck" /\ b \in {"exists", "user"} /\ UserCheck(w)
           \/ a = "user" /\ b = "assign" /\ CreateUser(w)
           \/ a = "assign" /\ b = "toMain" /\ AssignUser(w)
           \/ a = "remove" /\ b = "success" /\ RemoveUser(w)
  BY DEF UserCheck, CreateUser, AssignUser, RemoveUser
<1>2. pc[w] = a /\ pc'[w] = b /\ req' = req
  BY <1>1 DEF Quietly, Call, Goto, IInv, ShapeOK
<1>3. req[w].org \in Orgs /\ (Sound(w) => Progress(w))
  BY <1>1, <1>2 DEF IInv, ShapeOK, ProgressOK, Busy
<1>4. /\ Worsens /\ UNCHANGED <<orgs, cur, ds, dash, alarms>>
      /\ \/ UNCHANGED <<users, members>> /\ (clean'[w] => a = "userCheck")
         \/ a = "user" /\ users' = users \cup {req[w].org}
              /\ (UNCHANGED members \/ members' = [members EXCEPT ![Main] = @ \cup {req[w].org}])
         \/ a = "assign" /\ UNCHANGED users /\ \E p \in Matching(req[w].org) :
                                members' = [members EXCEPT ![p] = @ \cup {req[w].org}]
         \/ a = "remove" /\ UNCHANGED users /\ members' = [members EXCEPT ![cur] = @ \ {req[w].org}]
  <2>1. CASE Ignored(w)
    BY <2>1, HistoryFacts
  <2>2. CASE UNCHANGED history
    <3>1. Worsens
      BY <2>2, HistoryFacts
    <3>2. CASE a = "userCheck"
      BY <1>1, <3>1, <3>2 DEF UserCheck, grafana
    <3>3. CASE a = "user" /\ ~Ignored(w)
      BY <1>1, <3>1, <3>3 DEF CreateUser, Refused
    <3>4. CASE a = "assign" /\ ~Ignored(w)
      BY <1>1, <3>1, <3>4 DEF AssignUser, Refused
    <3>5. CASE a = "remove" /\ ~Ignored(w)
      BY <1>1, <3>1, <3>5 DEF RemoveUser, Refused
    <3>. QED
      BY <1>1, <2>1, <3>2, <3>3, <3>4, <3>5
  <2>3. Ignored(w) \/ UNCHANGED history
    BY <1>1 DEF UserCheck, CreateUser, AssignUser, RemoveUser, Refused
  <2>. QED
    BY <2>1, <2>2, <2>3
<1>5. users' \subseteq Orgs /\ members' \in [AllOrgs -> SUBSET Orgs]
  BY <1>3, <1>4 DEF IInv, ShapeOK, AllOrgs
<1>6. Sound(w)' => Sound(w) /\ Progress(w) /\ clean'[w]
  <2>1. Sound(w)' => Sound(w)
    BY <1>2, <1>4, SoundBefore
  <2>. QED
    BY <1>3, <2>1 DEF Sound
<1>7. Sound(w)' => Progress(w)'
  <2>1. CASE a = "userCheck"
    BY <1>1, <1>2, <1>4, <1>6, <2>1 DEF Progress, Provisioned
  <2>2. CASE a = "user"
    BY <1>1, <1>2, <1>4, <1>6, <2>2 DEF Progress, Provisioned
  <2>3. CASE a = "assign"
    <3>1. Sound(w)' => req[w].org \in members'[req[w].org]
      <4>. SUFFICES ASSUME Sound(w)' PROVE req[w].org \in members'[req[w].org]
        OBVIOUS
      <4>1. PICK p \in Matching(req[w].org) : members' = [members EXCEPT ![p] = @ \cup {req[w].org}]
        BY <1>4, <1>6, <2>3
      <4>2. p = req[w].org
        BY <1>6, <4>1 DEF Sound, OnlyMatch
      <4>. QED
        BY <1>3, <4>1, <4>2 DEF IInv, ShapeOK, AllOrgs
    <3>. QED
      BY <1>1, <1>2, <1>4, <1>6, <2>3, <3>1 DEF Progress, Provisioned
  <2>4. CASE a = "remove"
    <3>1. Sound(w)' => /\ req[w].org \notin members'[Main]
                       /\ members'[req[w].org] = members[req[w].org]
      BY <1>2, <1>3, <1>4, <1>6, <2>4, DashAssumption DEF IInv, ShapeOK, AllOrgs, Progress
    <3>. QED
      BY <1>1, <1>2, <1>4, <1>6, <2>4, <3>1 DEF Progress, Provisioned
  <2>. QED
    BY <1>1, <2>1, <2>2, <2>3, <2>4
<1>8. a \in Labels \ {"idle"} /\ b \in Labels \ {"idle", "datasource", "dashboards", "updDashboards"}
  BY <1>1 DEF Labels
<1>. QED
  BY <1>1, <1>4, <1>5, <1>7, <1>8, QuietlyInv DEF IInv, ShapeOK

\* The datasource goes to the current organisation, which is the request's own
\* one when nothing disturbed it.
LEMMA CreateDatasourceInv ==
  ASSUME IInv, NEW w \in Workers, CreateDatasource(w)
  PROVE  IInv'
<1>. USE DEF CreateDatasource
<1>0. Worsens /\ UNCHANGED <<clean, exposed, orgs, cur, dash, alarms, users, members>>
  BY HistoryFacts
<1>2. /\ req' = [req EXCEPT ![w].n = 1] /\ req' \in [Workers -> Reqs]
      /\ req'[w].n = 1 /\ req'[w].org = req[w].org
      /\ \A v \in Workers : /\ req'[v].org = req[v].org /\ req'[v].from = req[v].from
                            /\ req'[v].seen = req[v].seen /\ req'[v].fresh = req[v].fresh
                            /\ v # w => req'[v] = req[v]
  BY DEF IInv, ShapeOK, Reqs
<1>1. /\ pc[w] = "datasource" /\ pc'[w] = "dashboards" /\ pc' \in [Workers -> Labels] /\ AloneOK' /\ PlaceOK'
      /\ \A v \in Workers : Busy(v)' = Busy(v)
      /\ \A v \in Workers \ {w} : pc'[v] = pc[v]
      /\ (Sound(w)' => Progress(w)') => ProgressOK'
  <2>1. Call(w, "datasource", "dashboards")
    OBVIOUS
  <2>2. "datasource" \in Labels \ {"idle"} /\ "dashboards" \in Labels \ {"idle"} /\ "dashboards" # "datasource"
    BY DEF Labels
  <2>3. \A v \in Workers : req'[v].org = req[v].org
    BY <1>2
  <2>. QED
    BY ONLY IInv, w \in Workers, <1>0, <2>1, <2>2, <2>3, CallInv
<1>3. req[w].org \in Orgs /\ (Sound(w) => Progress(w))
  BY <1>1 DEF IInv, ShapeOK, ProgressOK, Busy
<1>4. ds' \in [AllOrgs -> SUBSET Orgs] /\ ds'[cur] = ds[cur] \cup {req[w].org}
      /\ \A o \in AllOrgs : o # cur => ds'[o] = ds[o]
  BY <1>3 DEF IInv, ShapeOK
<1>5. ShapeOK'
  <2>1. 1 \in 1..NumDash
    BY DashAssumption
  <2>. QED
    BY <1>0, <1>1, <1>2, <1>4, <2>1 DEF IInv, ShapeOK
<1>6. ProgressOK'
  <2>1. ASSUME Sound(w)' PROVE Progress(w)'
    <3>0. Sound(w)
      BY <1>0, <1>2, <2>1, SoundBefore
    <3>1. cur = req[w].org /\ req[w].org \in orgs
      BY <1>1, <1>3, <3>0 DEF Progress
    <3>2. 1..req'[w].n - 1 = {}
      BY <1>2
    <3>. QED
      BY <1>0, <1>1, <1>2, <1>4, <3>1, <3>2 DEF Progress, Provisioned
  <2>. QED
    BY <1>1, <2>1
<1>7. FreshOK'
  BY <1>0, <1>2 DEF IInv, FreshOK
<1>8. DatasourcesAreOwn'
  <2>1. <<req[w].org, cur>> \in Contains \cup exposed
    BY <1>1 DEF IInv, PlaceOK
  <2>. QED
    BY <1>0, <1>4, <2>1 DEF IInv, DatasourcesAreOwn, ShapeOK
<1>. QED
  BY <1>1, <1>5, <1>6, <1>7, <1>8 DEF IInv

\* Marking copies stale changes nothing else of the requests.
LEMMA StaleProperties ==
  ASSUME req \in [Workers -> Reqs], NEW o
  PROVE  /\ Stale(o) \in [Workers -> Reqs]
         /\ \A v \in Workers :
              /\ Stale(o)[v].org = req[v].org /\ Stale(o)[v].n = req[v].n
              /\ Stale(o)[v].sensor = req[v].sensor
              /\ Stale(o)[v].from = req[v].from /\ Stale(o)[v].seen = req[v].seen
              /\ Stale(o)[v].fresh => req[v].fresh /\ req[v].from # o
BY DEF Stale, Reqs

\* A dashboard is written; what a step does to the copies of its alarms.
LEMMA DashboardReqs ==
  ASSUME IInv, NEW w \in Workers, NEW a, NEW b, CreateDashboard(w, a, b)
  PROVE  /\ req' \in [Workers -> Reqs] /\ req'[w].n = req[w].n + 1
         /\ \A v \in Workers :
              /\ req'[v].org = req[v].org /\ req'[v].from = req[v].from /\ req'[v].seen = req[v].seen
              /\ v # w => req'[v].n = req[v].n
              /\ req'[v].fresh => req[v].fresh /\ (req[w].n = AlarmDash => req[v].from # cur)
<1>. DEFINE r == IF req[w].n = AlarmDash THEN Stale(cur) ELSE req
<1>1. req \in [Workers -> Reqs]
  BY DEF IInv, ShapeOK
<1>2. /\ r \in [Workers -> Reqs]
      /\ \A v \in Workers :
           /\ r[v].org = req[v].org /\ r[v].n = req[v].n /\ r[v].sensor = req[v].sensor
           /\ r[v].from = req[v].from /\ r[v].seen = req[v].seen
           /\ r[v].fresh => req[v].fresh /\ (req[w].n = AlarmDash => req[v].from # cur)
  <2>1. CASE req[w].n = AlarmDash
    BY <1>1, <2>1, StaleProperties
  <2>2. CASE req[w].n # AlarmDash
    BY <1>1, <2>2
  <2>. QED
    BY <2>1, <2>2
<1>3. req' = [r EXCEPT ![w].n = req[w].n + 1]
  BY DEF CreateDashboard
<1>4. req[w].n + 1 \in Nat
  BY <1>1 DEF Reqs
<1>. HIDE DEF r
<1>. QED
  BY <1>2, <1>3, <1>4 DEF Reqs

\* One of the dashboards is written, in bootstrap or in updateDashboard.
LEMMA CreateDashboardInv ==
  ASSUME IInv, NEW w \in Workers, Dashboards(w) \/ UpdateDashboards(w)
  PROVE  IInv'
<1>1. PICK a, b : /\ CreateDashboard(w, a, b)
                  /\ \/ a = "dashboards" /\ b = "userSwitch"
                     \/ a = "updDashboards" /\ b = "updated"
  BY DEF Dashboards, UpdateDashboards
<1>2. PICK l : Call(w, a, l) /\ l = IF req[w].n < NumDash THEN a ELSE b
  BY <1>1 DEF CreateDashboard
<1>3. /\ a \in Labels \ {"idle"} /\ l \in Labels \ {"idle"}
  BY <1>1, <1>2 DEF Labels
<1>5. /\ dash' = [dash EXCEPT ![cur] = @ \cup {req[w].n}]
      /\ alarms' = [alarms EXCEPT ![cur] = IF req[w].n = AlarmDash THEN {} ELSE @]
      /\ Worsens /\ UNCHANGED <<orgs, cur, ds, users, members, clean, exposed>>
  BY <1>1, HistoryFacts DEF CreateDashboard
<1>7. /\ req' \in [Workers -> Reqs] /\ req'[w].n = req[w].n + 1
      /\ \A v \in Workers :
           /\ req'[v].org = req[v].org /\ req'[v].from = req[v].from /\ req'[v].seen = req[v].seen
           /\ v # w => req'[v].n = req[v].n
           /\ req'[v].fresh => req[v].fresh /\ (req[w].n = AlarmDash => req[v].from # cur)
  BY <1>1, DashboardReqs
<1>4. /\ pc[w] = a /\ pc'[w] = l /\ pc' \in [Workers -> Labels] /\ AloneOK' /\ PlaceOK'
      /\ \A v \in Workers : Busy(v)' = Busy(v)
      /\ \A v \in Workers \ {w} : pc'[v] = pc[v]
      /\ (Sound(w)' => Progress(w)') => ProgressOK'
  <2>1. l # "datasource"
    BY <1>1, <1>2
  <2>. QED
    BY <1>2, <1>3, <1>5, <1>7, <2>1, CallInv
<1>6. req[w].n \in 1..NumDash /\ NumDash \in Nat /\ (Sound(w) => Progress(w))
  BY <1>1, <1>4, DashAssumption DEF IInv, ShapeOK, ProgressOK, Busy
<1>8. ShapeOK'
  <2>1. /\ dash' \in [AllOrgs -> SUBSET (1..NumDash)]
        /\ alarms' \in [AllOrgs -> SUBSET (Sensors \cup {None})]
    BY <1>5, <1>6 DEF IInv, ShapeOK
  <2>2. l \in {"dashboards", "updDashboards"} => req'[w].n \in 1..NumDash
    BY <1>1, <1>2, <1>6, <1>7
  <2>. QED
    BY <1>4, <1>5, <1>7, <2>1, <2>2 DEF IInv, ShapeOK
<1>9. ProgressOK'
  <2>1. ASSUME Sound(w)', a = "dashboards" PROVE Progress(w)'
    <3>0. Sound(w)
      BY <1>5, <1>7, <2>1, SoundBefore
    <3>1. /\ cur = req[w].org /\ req[w].org \in orgs /\ req[w].org \in ds[req[w].org]
          /\ 1..req[w].n - 1 \subseteq dash[req[w].org]
      BY <1>4, <1>6, <2>1, <3>0 DEF Progress, Provisioned
    <3>2. dash'[req[w].org] = dash[req[w].org] \cup {req[w].n} /\ dash[req[w].org] \subseteq 1..NumDash
      BY <1>5, <3>1 DEF IInv, ShapeOK
    <3>3. 1..req'[w].n - 1 \subseteq dash'[req[w].org]
      BY <1>6, <1>7, <3>1, <3>2
    <3>4. CASE l = "dashboards"
      BY <1>4, <1>5, <1>7, <3>1, <3>3, <3>4 DEF Progress, Provisioned
    <3>5. CASE l = "userSwitch"
      <4>1. req[w].n = NumDash
        BY <1>1, <1>2, <1>6, <2>1, <3>5
      <4>2. dash'[req[w].org] = 1..NumDash
        BY <1>6, <1>7, <3>2, <3>3, <4>1
      <4>. QED
        BY <1>4, <1>5, <1>7, <3>1, <3>5, <4>2 DEF Progress, Provisioned
    <3>. QED
      BY <1>1, <1>2, <2>1, <3>4, <3>5
  <2>2. ASSUME a = "updDashboards" PROVE Progress(w)'
    BY <1>1, <1>2, <1>4, <2>2 DEF Progress, Provisioned
  <2>. QED
    BY <1>1, <1>4, <2>1, <2>2
<1>10. FreshOK'
  <2>. SUFFICES ASSUME NEW v \in Workers, req'[v].fresh
                PROVE  req[v].from \in AllOrgs /\ req[v].seen = alarms'[req[v].from]
    BY <1>7 DEF FreshOK
  <2>1. req[v].from \in AllOrgs /\ req[v].seen = alarms[req[v].from]
        /\ (req[w].n = AlarmDash => req[v].from # cur)
    BY <1>7 DEF IInv, FreshOK
  <2>. QED
    BY <1>5, <2>1 DEF IInv, ShapeOK
<1>11. DatasourcesAreOwn'
  BY <1>4, <1>5 DEF IInv, DatasourcesAreOwn
<1>. QED
  BY <1>4, <1>8, <1>9, <1>10, <1>11 DEF IInv
-----------------------------------------------------------------------------
(* The other requests. *)

\* updateDashboard and the alarm pages switch to their organisation.
LEMMA OtherSwitchInv ==
  ASSUME IInv, NEW w \in Workers, UpdateSwitch(w) \/ AlarmSwitch(w)
  PROVE  IInv'
<1>1. /\ Worsens /\ UNCHANGED <<orgs, ds, dash, alarms, users, members>> /\ cur' \in AllOrgs
      /\ cur' = cur \/ cur' \in Reach(req[w].org)
  BY ChangeToFacts DEF UpdateSwitch, AlarmSwitch
<1>2. CASE AlarmSwitch(w)
  <2>1. Quietly(w, "alarmSwitch", "alarmRead")
    BY <1>2 DEF AlarmSwitch
  <2>2. pc'[w] = "alarmRead"
    BY <2>1 DEF Quietly, Call, Goto, IInv, ShapeOK
  <2>3. Progress(w)'
    BY <2>2 DEF Progress, Provisioned
  <2>. QED
    BY <1>1, <2>1, <2>3, QuietlyInv DEF Labels, IInv, ShapeOK
<1>3. CASE UpdateSwitch(w)
  <2>2. /\ req' = [req EXCEPT ![w].n = 1] /\ req' \in [Workers -> Reqs] /\ req'[w].n = 1
        /\ \A v \in Workers : /\ req'[v].org = req[v].org /\ req'[v].from = req[v].from
                              /\ req'[v].seen = req[v].seen /\ req'[v].fresh = req[v].fresh
                              /\ v # w => req'[v] = req[v]
    BY <1>3 DEF UpdateSwitch, IInv, ShapeOK, Reqs
  <2>1. /\ pc'[w] = "updDashboards" /\ pc' \in [Workers -> Labels] /\ AloneOK' /\ PlaceOK'
        /\ \A v \in Workers : Busy(v)' = Busy(v)
        /\ \A v \in Workers \ {w} : pc'[v] = pc[v]
        /\ (Sound(w)' => Progress(w)') => ProgressOK'
    <3>1. Call(w, "updSwitch", "updDashboards")
      BY <1>3 DEF UpdateSwitch
    <3>2. /\ "updSwitch" \in Labels \ {"idle"} /\ "updDashboards" \in Labels \ {"idle"}
          /\ "updDashboards" # "datasource"
      BY DEF Labels
    <3>3. \A v \in Workers : req'[v].org = req[v].org
      BY <2>2
    <3>. QED
      BY ONLY IInv, w \in Workers, <1>1, <3>1, <3>2, <3>3, CallInv
  <2>3. Progress(w)'
    BY <2>1 DEF Progress, Provisioned
  <2>4. ShapeOK'
    <3>1. 1 \in 1..NumDash
      BY DashAssumption
    <3>. QED
      BY <1>1, <2>1, <2>2, <3>1 DEF IInv, ShapeOK, Worsens
  <2>5. FreshOK' /\ DatasourcesAreOwn'
    BY <1>1, <2>1, <2>2 DEF IInv, FreshOK, DatasourcesAreOwn, Worsens
  <2>. QED
    BY <2>1, <2>3, <2>4, <2>5 DEF IInv
<1>. QED
  BY <1>2, <1>3

\* A call of the alarm pages that leaves Grafana's other state and the workers'
\* organisations alone.
LEMMA AlarmStep ==
  ASSUME IInv, NEW w \in Workers, NEW a \in {"alarmRead", "alarmWrite"},
         NEW b \in {"alarmWrite", "alarmDone"}, Call(w, a, b),
         UNCHANGED <<orgs, cur, ds, dash, users, members, history>>,
         alarms' \in [AllOrgs -> SUBSET (Sensors \cup {None})], req' \in [Workers -> Reqs],
         \A v \in Workers : req'[v].org = req[v].org /\ req'[v].n = req[v].n,
         FreshOK'
  PROVE  IInv'
<1>0. Worsens /\ UNCHANGED <<clean, exposed>>
  BY HistoryFacts
<1>1. /\ pc'[w] = b /\ pc' \in [Workers -> Labels] /\ AloneOK' /\ PlaceOK'
      /\ \A v \in Workers : Busy(v)' = Busy(v)
      /\ \A v \in Workers \ {w} : pc'[v] = pc[v]
      /\ (Sound(w)' => Progress(w)') => ProgressOK'
  BY <1>0, CallInv DEF Labels
<1>2. Progress(w)'
  BY <1>1 DEF Progress, Provisioned
<1>3. ShapeOK'
  BY <1>0, <1>1 DEF IInv, ShapeOK
<1>4. DatasourcesAreOwn'
  BY <1>0 DEF IInv, DatasourcesAreOwn
<1>. QED
  BY <1>1, <1>2, <1>3, <1>4 DEF IInv

\* The copy that a request reads is that of the current organisation.
LEMMA AlarmReadInv ==
  ASSUME IInv, NEW w \in Workers, AlarmRead(w)
  PROVE  IInv'
<1>. USE DEF AlarmRead
<1>1. PICK b \in {"alarmWrite", "alarmDone"} : Call(w, "alarmRead", b)
  OBVIOUS
<1>2. UNCHANGED <<orgs, cur, ds, dash, alarms, users, members, history>>
  BY DEF grafana
<1>3. cur \in AllOrgs /\ alarms[cur] \in SUBSET (Sensors \cup {None}) /\ req \in [Workers -> Reqs]
  BY DEF IInv, ShapeOK
<1>4. req' = [req EXCEPT ![w].from = cur, ![w].seen = alarms[cur], ![w].fresh = TRUE]
  OBVIOUS
<1>5. /\ req' \in [Workers -> Reqs] /\ req'[w].from = cur /\ req'[w].seen = alarms[cur]
      /\ \A v \in Workers : req'[v].org = req[v].org /\ req'[v].n = req[v].n /\ (v # w => req'[v] = req[v])
  <2>. DEFINE r1 == [req EXCEPT ![w].from = cur]
              r2 == [r1 EXCEPT ![w].seen = alarms[cur]]
              r3 == [r2 EXCEPT ![w].fresh = TRUE]
  <2>1. /\ r1 \in [Workers -> Reqs] /\ r1[w].from = cur
        /\ \A v \in Workers : r1[v].org = req[v].org /\ r1[v].n = req[v].n /\ (v # w => r1[v] = req[v])
    BY <1>3 DEF Reqs
  <2>. HIDE DEF r1
  <2>2. /\ r2 \in [Workers -> Reqs] /\ r2[w].from = cur /\ r2[w].seen = alarms[cur]
        /\ \A v \in Workers : r2[v].org = req[v].org /\ r2[v].n = req[v].n /\ (v # w => r2[v] = req[v])
    BY <1>3, <2>1 DEF Reqs
  <2>. HIDE DEF r2
  <2>3. /\ r3 \in [Workers -> Reqs] /\ r3[w].from = cur /\ r3[w].seen = alarms[cur]
        /\ \A v \in Workers : r3[v].org = req[v].org /\ r3[v].n = req[v].n /\ (v # w => r3[v] = req[v])
    BY <2>2 DEF Reqs
  <2>4. req' = r3
    BY <1>4 DEF r1, r2
  <2>. HIDE DEF r3
  <2>. QED
    BY <2>3, <2>4
<1>6. FreshOK'
  BY <1>2, <1>3, <1>5 DEF IInv, FreshOK
<1>. QED
  BY <1>1, <1>2, <1>5, <1>6, AlarmStep DEF IInv, ShapeOK

\* A write that Grafana accepts makes all copies of that dashboard stale.
LEMMA AlarmWriteInv ==
  ASSUME IInv, NEW w \in Workers, AlarmWrite(w)
  PROVE  IInv'
<1>. USE DEF AlarmWrite
<1>1. /\ Call(w, "alarmWrite", "alarmDone") /\ UNCHANGED <<orgs, cur, ds, dash, users, members, history>>
      /\ cur \in AllOrgs /\ req \in [Workers -> Reqs] /\ alarms \in [AllOrgs -> SUBSET (Sensors \cup {None})]
  BY DEF IInv, ShapeOK
<1>2. CASE UNCHANGED <<alarms, req>>
  <2>1. FreshOK'
    BY <1>2 DEF IInv, FreshOK
  <2>. QED
    BY <1>1, <1>2, <2>1, AlarmStep
<1>3. CASE req' = Stale(cur) /\ alarms' = [alarms EXCEPT ![cur] = req[w].seen \cup {req[w].sensor}]
  <2>1. /\ req' \in [Workers -> Reqs]
        /\ \A v \in Workers :
             /\ req'[v].org = req[v].org /\ req'[v].n = req[v].n
             /\ req'[v].from = req[v].from /\ req'[v].seen = req[v].seen
             /\ req'[v].fresh => req[v].fresh /\ req[v].from # cur
    BY <1>1, <1>3, StaleProperties
  <2>2. alarms' \in [AllOrgs -> SUBSET (Sensors \cup {None})]
    <3>1. req[w].seen \cup {req[w].sensor} \in SUBSET (Sensors \cup {None})
      BY <1>1 DEF Reqs
    <3>. QED
      BY <1>1, <1>3, <3>1
  <2>3. FreshOK'
    BY <1>1, <1>3, <2>1 DEF IInv, FreshOK
  <2>. QED
    BY <1>1, <2>1, <2>2, <2>3, AlarmStep
<1>. QED
  BY <1>2, <1>3
-----------------------------------------------------------------------------
\* Every call to Grafana keeps the invariant.
LEMMA NextInv ==
  IInv /\ [Next]_vars => IInv'
<1>. SUFFICES ASSUME IInv, [Next]_vars PROVE IInv'
  OBVIOUS
<1>1. CASE UNCHANGED vars
  <2>1. UNCHANGED <<orgs, cur, ds, dash, alarms, users, members, pc, req, clean, exposed>>
    BY <1>1 DEF vars, grafana, history
  <2>. QED
    BY <2>1 DEF IInv, ShapeOK, AloneOK, Reach, PlaceOK, ProgressOK, Sound, OnlyMatch, Matching, Progress, FreshOK,
       DatasourcesAreOwn, Busy
<1>2. ASSUME NEW w \in Workers, BootstrapStep(w) PROVE IInv'
  BY <1>2, OrganizationInv, SwitchInv, CreateDatasourceInv, CreateDashboardInv, UserInv
  DEF BootstrapStep
<1>3. ASSUME NEW w \in Workers, Answer(w) \/ Abort(w) PROVE IInv'
  BY <1>3, ReturnInv DEF Answer, Abort, Busy
<1>. QED
  BY <1>1, <1>2, <1>3, BeginInv, CreateDashboardInv, OtherSwitchInv, AlarmReadInv, AlarmWriteInv
  DEF Next

\* In every reachable state an undisturbed bootstrap has done its calls so far for
\* its own organisation, and current copies have the alarms.
THEOREM Inductive == Spec => []IInv
BY InitInv, NextInv, PTL DEF Spec

\* A bootstrap beside which there was no other request, none of whose calls was
\* refused, and that answers success, has provisioned its organisation, whatever
\* was left behind before, unless a name contains that of the organisation or the
\* main one's.
THEOREM UndisturbedProvisions == Spec => []SuccessIsProvisioned
<1>1. IInv => SuccessIsProvisioned
  BY DEF IInv, ProgressOK, Sound, Progress, Provisioned, Busy, SuccessIsProvisioned
<1>. QED
  BY <1>1, Inductive, PTL

\* Only overlapping requests, refused calls and names in names get a datasource
\* into another organisation (_change_current_organization_to before
\* _create_datasource).
THEOREM MixedOnlyByExposure == Spec => []DatasourcesAreOwn
<1>1. IInv => DatasourcesAreOwn
  BY DEF IInv
<1>. QED
  BY <1>1, Inductive, PTL

\* Only a write of the alarm dashboard changes alarms: with a current copy, which
\* keeps them, or anew, by bootstrap and updateDashboard.
LEMMA AlarmsStep ==
  ASSUME IInv, [Next]_vars, NEW o \in AllOrgs
  PROVE  \/ alarms[o] \subseteq alarms'[o]
         \/ \E w \in Workers : /\ cur = o /\ pc[w] \in {"dashboards", "updDashboards"}
                               /\ req[w].n = AlarmDash /\ req'[w].n # AlarmDash
<1>1. CASE UNCHANGED alarms
  BY <1>1
<1>2. ASSUME NEW w \in Workers, AlarmWrite(w) PROVE alarms[o] \subseteq alarms'[o]
  <2>1. CASE Accepted(w) /\ alarms' = [alarms EXCEPT ![cur] = req[w].seen \cup {req[w].sensor}]
    <3>1. req[w].seen = alarms[cur] /\ cur \in AllOrgs /\ alarms \in [AllOrgs -> SUBSET (Sensors \cup {None})]
      BY <2>1 DEF Accepted, IInv, FreshOK, ShapeOK
    <3>. QED
      BY <2>1, <3>1
  <2>. QED
    BY <1>2, <2>1 DEF AlarmWrite
<1>3. ASSUME NEW w \in Workers, Dashboards(w) \/ UpdateDashboards(w)
      PROVE  \/ alarms[o] \subseteq alarms'[o]
             \/ /\ cur = o /\ pc[w] \in {"dashboards", "updDashboards"}
                /\ req[w].n = AlarmDash /\ req'[w].n # AlarmDash
  <2>1. PICK a \in {"dashboards", "updDashboards"} : \E b : CreateDashboard(w, a, b)
    BY <1>3 DEF Dashboards, UpdateDashboards
  <2>2. /\ pc[w] = a /\ alarms' = [alarms EXCEPT ![cur] = IF req[w].n = AlarmDash THEN {} ELSE @]
    BY <2>1 DEF CreateDashboard, Call
  <2>3. req'[w].n = req[w].n + 1 /\ req[w].n \in Nat
    BY <2>1, DashboardReqs DEF IInv, ShapeOK, Reqs
  <2>4. alarms \in [AllOrgs -> SUBSET (Sensors \cup {None})] /\ cur \in AllOrgs
    BY DEF IInv, ShapeOK
  <2>5. CASE req[w].n = AlarmDash /\ cur = o
    BY <2>2, <2>3, <2>5
  <2>6. CASE ~(req[w].n = AlarmDash /\ cur = o)
    BY <2>2, <2>4, <2>6
  <2>. QED
    BY <2>5, <2>6
<1>4. ASSUME NEW w \in Workers, Begin(w) PROVE UNCHANGED alarms
  BY <1>4 DEF Begin, Bootstrap, updateDashboard, alarmpage, Set_Alarm, grafana
<1>5. ASSUME NEW w \in Workers, BootstrapStep(w), ~Dashboards(w) PROVE UNCHANGED alarms
  BY <1>5 DEF BootstrapStep, OrganizationCheck, CreateOrganization, Switch, CreateDatasource, UserSwitch,
     UserCheck, CreateUser, AssignUser, ToMain, RemoveUser, ChangeTo, Refused, Ignored, grafana
<1>6. ASSUME NEW w \in Workers, UpdateSwitch(w) \/ AlarmSwitch(w) \/ AlarmRead(w) \/ Answer(w) \/ Abort(w)
      PROVE  UNCHANGED alarms
  BY <1>6 DEF UpdateSwitch, AlarmSwitch, AlarmRead, Answer, Abort, Return, ChangeTo, Refused, Ignored, grafana
<1>7. CASE UNCHANGED vars
  BY <1>7, <1>1 DEF vars, grafana
<1>8. CASE Next
  <2>1. PICK w \in Workers :
          \/ Begin(w) \/ BootstrapStep(w) \/ UpdateSwitch(w) \/ UpdateDashboards(w)
          \/ AlarmSwitch(w) \/ AlarmRead(w) \/ AlarmWrite(w) \/ Answer(w) \/ Abort(w)
    BY <1>8 DEF Next
  <2>. QED
    BY <2>1, <1>1, <1>2, <1>3, <1>4, <1>5, <1>6
<1>. QED
  BY <1>7, <1>8

\* Of two requests that read the same version of the alarm dashboard, the one
\* that writes second is refused: an alarm stays until the dashboard is written
\* anew (_update_existing_dashboard).
THEOREM AlarmsStay == Spec => AlarmsAreKept
<1>1. IInv /\ [Next]_vars =>
        [\A o \in AllOrgs : alarms[o] \subseteq alarms'[o]
           \/ \E w \in Workers : cur = o /\ pc[w] \in {"dashboards", "updDashboards"}
                                 /\ req[w].n = AlarmDash /\ req'[w].n # AlarmDash]_vars
  BY AlarmsStep
<1>. QED
  BY <1>1, Inductive, PTL DEF Spec, AlarmsAreKept
=============================================================================
