------------------------------ MODULE KeyQueue ------------------------------
(***************************************************************************)
(* What a controller needs of its work queue, whatever the queue is made   *)
(* of.  A key that was added is owed a reconciliation; a reconciliation    *)
(* that starts takes the key off the debt unless another delayed addition  *)
(* of the same key is still outstanding; a key is never reconciled by two  *)
(* workers at once; and a key that was added is eventually started.        *)
(* WorkQueue implements this specification; IngressController models its   *)
(* own queue this way (owed is todo, busy is Busy there).                  *)
(***************************************************************************)

CONSTANT Keys        \* the object keys the informer handlers add

VARIABLES
  owed,              \* keys added and not yet handed to a worker
  busy               \* keys a worker is reconciling now

vars == <<owed, busy>>

TypeOK == /\ owed \subseteq Keys
          /\ busy \subseteq Keys

Init == /\ owed = {}
        /\ busy = {}

\* queue.AddRateLimited(k), from a handler, from handleErr or from reconcile.
Notify(k) == /\ owed' = owed \union {k}
             /\ UNCHANGED busy

\* A worker's queue.Get returns k.  The key may stay owed: one addition can be
\* ready in the queue while another is still waiting out its delay.
Start(k) == /\ k \in owed
            /\ k \notin busy
            /\ owed' \in {owed, owed \ {k}}
            /\ busy' = busy \union {k}

\* The deferred queue.Done(k).
Finish(k) == /\ k \in busy
             /\ busy' = busy \ {k}
             /\ UNCHANGED owed

Next == \E k \in Keys : Notify(k) \/ Start(k) \/ Finish(k)

Spec == Init /\ [][Next]_vars

\* No key that was added waits for ever, however busy the other keys are.
FairSpec == /\ Spec
            /\ \A k \in Keys : /\ WF_vars(Finish(k))
                               /\ SF_vars(Start(k))
=============================================================================
