-------------------------- MODULE MCEnvoySnapshots --------------------------
(***************************************************************************)
(* EnvoySnapshots on small instances: two roots, their rules, and load     *)
(* balancers with a hostname, an IP or both.                               *)
(***************************************************************************)
EXTENDS EnvoySnapshots

CONSTANTS a, b

Rule(host, paths) == [host |-> host, paths |-> paths]

\* Two hosts and three paths; another host, and one of the two with the same path; a
\* host, and http, that is missing.
TwoHosts == <<Rule("a.domain", <<"/", "/x">>), Rule("x.domain", <<"/y">>)>>
OtherHost == <<Rule("b.test", <<"/">>), Rule("x.domain", <<"/y">>)>>
Hostless == <<Rule("a.domain", <<"/">>), Rule(NoHost, <<"/x">>), Rule("x.domain", <<"/y">>)>>
WithoutHTTP == <<Rule("a.domain", NoHTTP)>>

InDomain == {"a.domain", "x.domain"}

\* The rules a user may give each root, and those of the start.
AnyRules == [r \in Roots |-> IF r = a THEN {TwoHosts, Hostless, WithoutHTTP, <<>>} ELSE {OtherHost}]

\* Two changes of the first root, or one of the second.
SecondCostsTwo == [r \in Roots |-> IF r = a THEN 1 ELSE 2]
EachCostsOne == [r \in Roots |-> 1]

FirstThere == [r \in Roots |-> IF r = a THEN TwoHosts ELSE Gone]

LB(hostname, ip) == [hostname |-> hostname, ip |-> ip]
OneLB == {LB("lb.test", "10.0.0.1")}
TwoLBs == {LB("lb.test", "10.0.0.1"), LB(NoAddress, "10.0.0.2")}
=============================================================================
