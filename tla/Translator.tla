----------------------------- MODULE Translator -----------------------------
(***************************************************************************)
(* How the controller turns the Ingresses of its Envoy cache into what     *)
(* Envoy is sent: translateIngress, the parts of ToEnvoySnapshot that have *)
(* content, and generateStatusHost.  Timeouts, ports, websocket upgrades   *)
(* and the protobuf wrapping are left out.  Clusters and virtual hosts are *)
(* a set: their order is that of a Go map.  So are the routes of a virtual *)
(* host, because the first that matches and any other lead to the same     *)
(* cluster.                                                                *)
(*                                                                         *)
(* A rule is a host (or NoHost) and the prefixes of its paths, in order    *)
(* (or NoHTTP, when the rule has no http part).  A load balancer has a     *)
(* hostname and an IP, of which one or both may be NoAddress.              *)
(***************************************************************************)
EXTENDS Sequences, SequencesExt

CONSTANTS
  NoHost, NoHTTP, NoAddress,
  DomainHosts           \* hosts that contain the -domain flag

-----------------------------------------------------------------------------
(* translateIngress *)

\* The port is always 80.
newLBEndpoint(address) == [address |-> address, port |-> 80]

\* The hostname comes first; without hostname and IP the endpoint stays empty.
Endpoint(lb) == IF lb.hostname # NoAddress THEN newLBEndpoint(lb.hostname)
                ELSE IF lb.ip # NoAddress THEN newLBEndpoint(lb.ip)
                ELSE newLBEndpoint(NoAddress)

newCluster(name, lbs) == [name |-> name, endpoints |-> {Endpoint(lb) : lb \in lbs}]

EndsLoop(rule) == rule.paths = <<>> \/ rule.host = NoHost

\* The rules the loop passes before it ends.
TranslatedRules(rules) ==
  {rules[i] : i \in {n \in DOMAIN rules : \A j \in 1 .. n : ~ EndsLoop(rules[j])}}

\* Dereferencing rule.HTTP of a rule the loop reaches.
TranslationPanics(rules) ==
  \E i \in DOMAIN rules : /\ rules[i].paths = NoHTTP
                          /\ \A j \in 1 .. i - 1 : ~ EndsLoop(rules[j])

\* Faulty: only the first path of each rule.
RoutesOfFirstPaths(key, rules) == {[prefix |-> rule.paths[1], cluster |-> key] : rule \in rules}

\* One route per path, to the cluster of the Ingress.
Routes(key, rules) ==
  {[prefix |-> path, cluster |-> key] : path \in UNION {Range(rule.paths) : rule \in rules}}

\* One virtual host per Ingress, for all its hosts (each also with any port)
\* and all its routes.
VirtualHost(key, rules) ==
  LET translated == TranslatedRules(rules)
  IN  [name |-> key,
       domains |-> {rule.host : rule \in translated},
       routes |-> Routes(key, translated)]

translateIngress(key, ingress) ==
  [cluster |-> newCluster(key, ingress.lbs), vhost |-> VirtualHost(key, ingress.rules)]

-----------------------------------------------------------------------------
(* ToEnvoySnapshot, of a function from keys to cached Ingresses. *)

newRouteConfig(name, vhosts) == [name |-> name, vhosts |-> vhosts]

\* The listener's connection manager asks for its routes by name.
newHTTPListener(routeConfigName) == [rds |-> routeConfigName]

\* Faulty: the domains are collected over all Ingresses.
ToEnvoySnapshotWithAllDomains(ingresses) ==
  LET translated == {translateIngress(key, ingresses[key]) : key \in DOMAIN ingresses}
      domains == UNION {t.vhost.domains : t \in translated}
  IN  [routes |-> newRouteConfig("defaultroute", {[t.vhost EXCEPT !.domains = domains] : t \in translated}),
       listener |-> newHTTPListener("defaultroute"),
       clusters |-> {t.cluster : t \in translated}]

ToEnvoySnapshot(ingresses) ==
  LET translated == {translateIngress(key, ingresses[key]) : key \in DOMAIN ingresses}
  IN  [routes |-> newRouteConfig("defaultroute", {t.vhost : t \in translated}),
       listener |-> newHTTPListener("defaultroute"),
       clusters |-> {t.cluster : t \in translated}]

\* What Envoy does with it: the endpoints behind host and prefix, by way of the
\* listener's routes and the clusters they name.
Backends(snapshot, host, prefix) ==
  UNION {c.endpoints :
           c \in {x \in snapshot.clusters :
                    /\ snapshot.listener.rds = snapshot.routes.name
                    /\ \E v \in snapshot.routes.vhosts :
                          /\ host \in v.domains
                          /\ [prefix |-> prefix, cluster |-> x.name] \in v.routes}}

-----------------------------------------------------------------------------
(* generateStatusHost *)

\* The first rule's host if every rule is in the domain, else a name made from
\* the key.  (The code hashes name, namespace and cluster run together.)
generateStatusHost(key, rules) ==
  IF \A i \in DOMAIN rules : rules[i].host \in DomainHosts THEN rules[1].host ELSE key

\* Taking the first rule of none.
StatusHostPanics(rules) == rules = <<>>
=============================================================================
