------------------------------ MODULE Tracker -------------------------------
(***************************************************************************)
(* The tracker: which root Ingresses must be reconciled when a Service     *)
(* changes.  Its two Go maps are functions here, a missing map entry is    *)
(* the empty set, and a slice of Ingresses without repetitions is a set.   *)
(* Every operation of the tracker holds the mutex from beginning to end,   *)
(* so each is one action.                                                  *)
(*                                                                         *)
(* ingressesFromService ranges over the slice of a Service after the mutex *)
(* is released, one Ingress at a time, while workers change the tracker.   *)
(* What it may enqueue is described here without arrays; TrackerSlices     *)
(* refines this to the slices and the backing arrays it shares.            *)
(***************************************************************************)

CONSTANTS
  Services,          \* keys of Services (serviceToKey)
  Ingresses,         \* keys of root Ingresses (ingressToKey)
  NoService          \* the Service of an idle handler

VARIABLES
  trackedServices,   \* for each Service, the Ingresses to enqueue on a change
  ingressToServices, \* for each Ingress, the Services deleteIngress looks at
  loop               \* ingressesFromService, on the informer's goroutine

vars == <<trackedServices, ingressToServices, loop>>

\* The range loop.  A slot is an index still ahead of it, named after the Ingress
\* that was there when the loop began; it holds that Ingress until a deletion
\* shifts the array.  Two histories: the Ingresses that were tracked when the
\* loop began and that it has not enqueued, and whether the array was shifted.
Loop == [svc : Services \union {NoService}, slots : SUBSET Ingresses,
         owed : SUBSET Ingresses, shifted : BOOLEAN]
NoLoop == [svc |-> NoService, slots |-> {}, owed |-> {}, shifted |-> FALSE]

TypeOK == /\ trackedServices \in [Services -> SUBSET Ingresses]
          /\ ingressToServices \in [Ingresses -> SUBSET Services]
          /\ loop \in Loop

Init == /\ trackedServices = [s \in Services |-> {}]
        /\ ingressToServices = [i \in Ingresses |-> {}]
        /\ loop = NoLoop

\* tracker.add.  A Service the Ingress is not tracked for yet is appended, and
\* the set of Services of the Ingress is made anew with that Service alone.
add(i, s) ==
  \/ /\ i \in trackedServices[s]
     /\ UNCHANGED vars
  \/ /\ i \notin trackedServices[s]
     /\ trackedServices' = [trackedServices EXCEPT ![s] = @ \union {i}]
     /\ ingressToServices' = [ingressToServices EXCEPT ![i] = {s}]
     /\ UNCHANGED loop

\* tracker.deleteIngress.  The slice of the running loop is shifted in place,
\* unless the loop was left with an array the slice has moved out of.
deleteIngress(i) ==
  /\ trackedServices' =
       [s \in Services |-> IF s \in ingressToServices[i]
                           THEN trackedServices[s] \ {i}
                           ELSE trackedServices[s]]
  /\ ingressToServices' = [ingressToServices EXCEPT ![i] = {}]
  /\ loop' \in IF loop.svc \in ingressToServices[i]
               THEN {loop, [loop EXCEPT !.shifted = TRUE]}
               ELSE {loop}

\* tracker.getIngress, whose slice the handler then ranges over, if there is one.
getIngress(s) ==
  /\ loop = NoLoop
  /\ loop' = IF trackedServices[s] = {}
             THEN NoLoop
             ELSE [svc |-> s, slots |-> trackedServices[s], owed |-> trackedServices[s],
                   shifted |-> FALSE]
  /\ UNCHANGED <<trackedServices, ingressToServices>>

\* One turn of the loop: it enqueues i, which it finds in slot j.
enqueueNext(j, i) ==
  /\ j \in loop.slots
  /\ ~ loop.shifted => i = j
  /\ loop' = IF loop.slots = {j}
             THEN NoLoop
             ELSE [loop EXCEPT !.slots = @ \ {j}, !.owed = @ \ {i}]
  /\ UNCHANGED <<trackedServices, ingressToServices>>

Next == \/ \E i \in Ingresses : deleteIngress(i) \/ \E s \in Services : add(i, s)
        \/ \E s \in Services : getIngress(s)
        \/ \E j, i \in Ingresses : enqueueNext(j, i)

Spec == Init /\ [][Next]_vars

-----------------------------------------------------------------------------

\* What deleteIngress looks at is really tracked: a Service recorded for an
\* Ingress lists that Ingress.  (The converse fails: add replaces the record.)
IndexSound == \A i \in Ingresses : \A s \in ingressToServices[i] : i \in trackedServices[s]

=============================================================================
