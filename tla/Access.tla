------------------------------- MODULE Access -------------------------------
(***************************************************************************)
(* What the things service promises to the adapters: an answer that grants *)
(* access rests on rows that existed when it is given, and what has been   *)
(* answered does not change until it is taken or lost with the service.    *)
(* Things implements this specification.                                   *)
(***************************************************************************)
EXTENDS AccessLog

CONSTANTS Procs,  \* requests served at the same time
          None    \* no answer; in an answer: no key, no channel

VARIABLE answer   \* the granted answer of each request, or None

accessVars == <<logVars, answer>>

Answers == [th : ThingIds, ch : ChanIds \cup {None}, key : Keys \cup {None}]

\* Identify has no channel, CanAccessByID no key, CanAccessByKey has both.
Justified(a) ==
  /\ a.key # None => MayIdentify(a.key, a.th)
  /\ a.ch # None => <<a.ch, a.th>> \in wasConn

Init == LogInit /\ answer = [p \in Procs |-> None]

\* A request of an owner: it may add rows; those it removes stay in the histories.
Grow == LearnKeys /\ LearnConns /\ UNCHANGED answer

Grant(p) ==
  /\ answer[p] = None
  /\ \E a \in Answers : Justified(a) /\ answer' = [answer EXCEPT ![p] = a]
  /\ UNCHANGED logVars

Take(p) ==
  /\ answer' = [answer EXCEPT ![p] = None]
  /\ UNCHANGED logVars

\* The service dies: every answer that was not taken is lost.
Restart == answer' = [p \in Procs |-> None] /\ UNCHANGED logVars

Next == Grow \/ (\E p \in Procs : Grant(p) \/ Take(p)) \/ Restart

Spec == Init /\ [][Next]_accessVars
=============================================================================
