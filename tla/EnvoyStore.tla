----------------------------- MODULE EnvoyStore -----------------------------
(***************************************************************************)
(* What the Envoy cache promises its callers: an update replaces the entry *)
(* of one Ingress at once, and a snapshot is of one moment.  It promises   *)
(* nothing about the order in which snapshots are published.               *)
(***************************************************************************)

CONSTANTS Roots, Entries, Workers, NoEntry, NoSnapshot

VARIABLES
  entries,          \* the cached Ingress of each root
  taken,            \* the snapshot each worker has made and not published yet
  published         \* the snapshot Envoy was given last

vars == <<entries, taken, published>>

Snapshots == [Roots -> Entries \union {NoEntry}]

Init == /\ entries = [r \in Roots |-> NoEntry]
        /\ taken = [w \in Workers |-> NoSnapshot]
        /\ published = entries

Update(r) == /\ entries'[r] \in Entries \union {NoEntry}
             /\ entries' = [entries EXCEPT ![r] = entries'[r]]
             /\ UNCHANGED <<taken, published>>

Take(w) == taken' = [taken EXCEPT ![w] = entries] /\ UNCHANGED <<entries, published>>

Publish(w) == /\ taken[w] # NoSnapshot
              /\ published' = taken[w]
              /\ taken' = [taken EXCEPT ![w] = NoSnapshot]
              /\ UNCHANGED entries

\* The process dies; Envoy goes on with what it has.
Crash == /\ entries' = [r \in Roots |-> NoEntry]
         /\ taken' = [w \in Workers |-> NoSnapshot]
         /\ UNCHANGED published

Next == \/ \E r \in Roots : Update(r)
        \/ \E w \in Workers : Take(w) \/ Publish(w)
        \/ Crash

Spec == Init /\ [][Next]_vars
=============================================================================
