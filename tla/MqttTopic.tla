----------------------------- MODULE MqttTopic ------------------------------
(***************************************************************************)
(* The conversions of the MQTT adapter (mqtt/aedes/mqtt.js) between an     *)
(* MQTT topic and the channel, subtopic and content type of a message.     *)
(*                                                                         *)
(* A topic is the sequence of its levels, what stands between the slashes; *)
(* a level, an element of a subtopic and a content type are sequences of   *)
(* tokens: words, channel ids and the characters the code looks for.  The  *)
(* level `controls', say, is <<"control", "s">>.                           *)
(***************************************************************************)
EXTENDS Naturals, Sequences, SequencesExt

\* The tokens that the code writes.
Marks == {"channels", "messages", "ct", "/", "+", "_", "-"}

NoChannel == <<>>    \* the regular expressions do not match

StartsWith(level, w) == level # <<>> /\ level[1] = w

\* Where \/<w> may end the group (.+?), which takes one character at least.
Ends(L, w) ==
  {j \in 3..Len(L) : StartsWith(L[j], w) /\ (j = 3 => L[2] # <<>>)}

\* The channel id of a topic or filter: the levels of the group, which is lazy.
\* The expression with `control' is tried first.
parseTopic(L) ==
  LET control == Ends(L, "control")
      ends == IF control # {} THEN control ELSE Ends(L, "messages")
  IN  IF L = <<>> \/ L[1] # <<"channels">> \/ ends = {}
        THEN NoChannel ELSE SubSeq(L, 2, Min(ends) - 1)

\* A level that is read up to some token: the elements before the last dot, and
\* what has come since.  filter(isEmpty) drops elements without a character.
Nothing == [done |-> <<>>, cur |-> <<>>]
Close(r) == IF r.cur = <<>> THEN r.done ELSE Append(r.done, r.cur)
Read(r, tok) == IF tok = "." THEN [done |-> Close(r), cur |-> <<>>]
                ELSE [r EXCEPT !.cur = Append(@, tok)]

Split(level) ==
  LET f[i \in 0..Len(level)] == IF i = 0 THEN Nothing ELSE Read(f[i - 1], level[i])
  IN  Close(f[Len(level)])

\* parts.slice(3).join('.').split('.').filter(isEmpty): joined by dots, the
\* levels are split where they were joined.
Elements(L) ==
  LET f[i \in 0..Len(L)] == IF i <= 3 THEN <<>> ELSE f[i - 1] \o Split(L[i])
  IN  f[Len(L)]

\* An element longer than one character with a wildcard of NATS.
InvalidElement(e) == Len(e) > 1 /\ (Contains(e, "*") \/ Contains(e, ">"))
InvalidSubtopic(L) == \E i \in DOMAIN Elements(L) : InvalidElement(Elements(L)[i])

\* String.replace with a string: the first occurrence only.
Replace(s, a, b) ==
  LET i == SelectInSeq(s, LAMBDA tok : tok = a)
  IN  IF i = 0 THEN s ELSE ReplaceAt(s, i, b)
Encode(ct) == Replace(Replace(ct, "/", "_"), "+", "-")
Decode(e) == Replace(Replace(e, "_", "/"), "-", "+")

\* Does the topic carry a content type?
HasType(es) == Len(es) > 1 /\ es[Len(es) - 1] = <<"ct">>
ContentType(es) == IF HasType(es) THEN Decode(Last(es)) ELSE <<>>

\* Mutant of Subtopic: only the content type is dropped, not its prefix.
SubtopicLeavesCt(es) == IF HasType(es) THEN Front(es) ELSE es

Subtopic(es) == IF HasType(es) THEN SubSeq(es, 1, Len(es) - 2) ELSE es

\* The topic of a message that comes from NATS.
TopicOf(channel, subtopic, ct) ==
  << <<"channels">>, <<channel>>, <<"messages">> >> \o subtopic
    \o (IF ct = <<>> THEN <<>> ELSE << <<"ct">>, Encode(ct) >>)

\* Where the two conversions agree.  An element of a subtopic, a level of the
\* topic, in which no character has a meaning to split or to NATS, and which
\* does not begin with the name of the control branch.
Plain(e) == e # <<>> /\ e[1] # "control" /\ \A i \in 1..Len(e) : e[i] \notin {".", "*", ">"}

\* A subtopic of such elements; `ct', where a type would follow, can only end it.
PlainSubtopic(st) ==
  \A i \in 1..Len(st) : Plain(st[i]) /\ (i < Len(st) => st[i] # <<"ct">>)

\* No content type, or one such as application/senml+json: an element of that
\* kind without the characters that encoding makes, and with at most one of
\* each that it replaces, since String.replace takes the first one only.
PlainType(ct) ==
  ct # <<>> =>
    /\ Plain(ct) /\ \A i \in 1..Len(ct) : ct[i] \notin {"_", "-"}
    /\ \A i, j \in 1..Len(ct) : ct[i] = ct[j] /\ ct[i] \in {"/", "+"} => i = j

\* A subscription's filter matches a topic (aedes): + stands for one level, #
\* for any number of them at the end.
Matches(F, L) ==
  LET hash == F # <<>> /\ Last(F) = <<"#">>
      n == IF hash THEN Len(F) - 1 ELSE Len(F)
  IN  /\ IF hash THEN n <= Len(L) ELSE n = Len(L)
      /\ \A i \in 1..n : F[i] = L[i] \/ F[i] = <<"+">>
=============================================================================
