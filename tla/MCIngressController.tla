------------------------ MODULE MCIngressController -------------------------
(***************************************************************************)
(* IngressController on small instances.  Roots, Services, clusters and    *)
(* load balancers are model values; each .cfg picks among the definitions  *)
(* below what its question needs.                                          *)
(***************************************************************************)
EXTENDS IngressController, TLC

CONSTANTS a, b, s1, s2, east, west

\* Two roots of one name, in two namespaces.
SameName == [r \in Roots |-> "web"]
OwnName == [r \in Roots |-> r]

\* Rules over one Service, over one or both, or over one for each root.
FirstOnly == [r \in Roots |-> {<<s1>>}]
FirstOrBoth == [r \in Roots |-> {<<s1>>, <<s1, s2>>}]
OneEach == [r \in Roots |-> IF r = a THEN {<<s1>>} ELSE {<<s2>>}]

\* Where the Services are at the start.
OneCluster == [s \in Services |-> east]
TwoClusters == [s \in Services |-> IF s = s1 THEN east ELSE west]

\* The workers are interchangeable.
Symmetry == Permutations(Workers)

=============================================================================
