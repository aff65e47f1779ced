------------------------------- MODULE MCMqtt -------------------------------
(* The instances of Mqtt that TLC checks; see the cfg files. *)
EXTENDS Mqtt

Base(c) == << <<"channels">>, <<c>>, <<"messages">> >>

\* Topics of each form: plain, with a subtopic and a type, of the control
\* branch, with a subtopic that is a wildcard, and unknown.
MCTopics ==
  { Base("c1") \o << <<"a", ".", "b">>, <<"ct">>, <<"senml", "-", "json">> >>,
    Base("c1") \o << <<"a", "*">> >>,
    << <<"channels">>, <<"c1">>, <<"control">> >> }

\* Every message of the channel, and messages of any channel.
MCFilters == { Base("c1") \o << <<"#">> >>, << <<"channels">>, <<"+">>, <<"messages">>, <<"#">> >> }

\* Of messages of the other adapters: plain ones, and ones that the topics do
\* not tell apart.
MCSubtopics == { << <<"a">>, <<"messages">> >>, << <<"control", "s">> >> }
MCTypes == { <<"application", "/", "senml", "+", "json">>, <<"x", "-", "y">> }
=============================================================================
