-------------------------- MODULE MCTrackerSlices ---------------------------
(* Instances of TrackerSlices for TLC.                                        *)
EXTENDS TrackerSlices

CONSTANTS i1, i2, i3, s1, s2

\* All Ingresses share one Service, whose array grows to four; the first one
\* uses another as well.
OneShared == [i \in Ingresses |-> IF i = i1 THEN {s1, s2} ELSE {s1}]

\* What is alike can be exchanged.
Symmetry == Permutations({i2, i3})
=============================================================================
