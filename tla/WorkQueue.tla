----------------------------- MODULE WorkQueue ------------------------------
(***************************************************************************)
(* The rate limited work queue of client-go and the loop that both         *)
(* controllers run over it: enqueue (from the informer handlers), Get,     *)
(* process, handleErr and the deferred Done.  What process does to the     *)
(* rest of the world is left out: here it succeeds, fails, or adds its own *)
(* key again and succeeds (the conflict path of the leaf reconciler).      *)
(*                                                                         *)
(* The queue follows the client-go structure: a FIFO of ready keys, the    *)
(* set "dirty" of keys that need processing, the set "processing" of keys  *)
(* handed out, the heap of delayed additions ("waiting", whose delays are  *)
(* abstracted: a delayed key becomes ready after any time), and the        *)
(* failure count per key of the rate limiter.  stopCh is never closed by   *)
(* the code, so there is no shutdown.                                      *)
(***************************************************************************)
EXTENDS Naturals, Sequences

CONSTANTS
  Keys,          \* the keys of the objects the controller watches
  Workers,       \* the goroutines started by Start(numThreads)
  MaxRetries,    \* 5 in the code
  NoKey          \* the key of an idle worker

ASSUME ConstantsAssumption == /\ MaxRetries \in Nat
                              /\ NoKey \notin Keys

VARIABLES
  queue,         \* ready keys, in the order workers take them
  dirty,         \* keys that need processing
  processing,    \* keys a worker has taken and not declared done
  waiting,       \* keys whose delayed addition has not fired yet
  failures,      \* the rate limiter's count per key, saturated at MaxRetries
  cur,           \* the key each worker has taken, or NoKey
  at,            \* where each worker stands in processNextWorkItem
  retried        \* history: requeues by handleErr since the last Forget

vars == <<queue, dirty, processing, waiting, failures, cur, at, retried>>

Steps == {"get", "process", "requeued", "handled", "dropped"}

TypeOK == /\ queue \in Seq(Keys)
          /\ dirty \subseteq Keys
          /\ processing \subseteq Keys
          /\ waiting \subseteq Keys
          /\ failures \in [Keys -> 0 .. MaxRetries]
          /\ cur \in [Workers -> Keys \union {NoKey}]
          /\ at \in [Workers -> Steps]
          /\ retried \in [Keys -> Nat]

Init == /\ queue = <<>>
        /\ dirty = {}
        /\ processing = {}
        /\ waiting = {}
        /\ failures = [k \in Keys |-> 0]
        /\ cur = [w \in Workers |-> NoKey]
        /\ at = [w \in Workers |-> "get"]
        /\ retried = [k \in Keys |-> 0]

-----------------------------------------------------------------------------
(* The rate limiting queue. *)

\* The only test on the count is "num < 5": counting past it changes nothing.
Bump(n) == IF n < MaxRetries THEN n + 1 ELSE n

\* AddRateLimited: the limiter counts the addition, then the key waits.
AddRateLimited(k) == /\ failures' = [failures EXCEPT ![k] = Bump(@)]
                     /\ waiting' = waiting \union {k}

\* The limiter forgets the key; an addition already waiting still fires.
Forget(k) == failures' = [failures EXCEPT ![k] = 0]

\* Type.Add: a key that is already dirty is merged; one that is being
\* processed becomes ready only when Done is called for it.
Add(k) == /\ dirty' = dirty \union {k}
          /\ queue' = IF k \in dirty \union processing THEN queue ELSE Append(queue, k)

\* The delay of a waiting key has passed.
Fire(k) == /\ k \in waiting
           /\ waiting' = waiting \ {k}
           /\ Add(k)
           /\ UNCHANGED <<processing, failures, cur, at, retried>>

-----------------------------------------------------------------------------
(* The controller: informer handlers and worker loop. *)

\* Faulty: the object where its key is expected.
EnqueueObject(k) == /\ waiting' = waiting \union {<<k>>}
                    /\ UNCHANGED <<queue, dirty, processing, failures, cur, at, retried>>

\* enqueue, from an Add, Update or Delete handler.
Enqueue(k) == /\ AddRateLimited(k)
              /\ UNCHANGED <<queue, dirty, processing, cur, at, retried>>

\* Faulty: queue.Done is called at once and not deferred.
GetAndDone(w) == /\ at[w] = "get"
                 /\ queue # <<>>
                 /\ queue' = Tail(queue)
                 /\ dirty' = dirty \ {Head(queue)}
                 /\ cur' = [cur EXCEPT ![w] = Head(queue)]
                 /\ at' = [at EXCEPT ![w] = "process"]
                 /\ UNCHANGED <<processing, waiting, failures, retried>>

\* queue.Get in processNextWorkItem; it blocks on an empty queue.
Get(w) == /\ at[w] = "get"
          /\ queue # <<>>
          /\ queue' = Tail(queue)
          /\ processing' = processing \union {Head(queue)}
          /\ dirty' = dirty \ {Head(queue)}
          /\ cur' = [cur EXCEPT ![w] = Head(queue)]
          /\ at' = [at EXCEPT ![w] = "process"]
          /\ UNCHANGED <<waiting, failures, retried>>

\* reconcile meets a conflict on the root's status: it adds the leaf's key
\* again itself and returns nil.
RequeueOnConflict(w) == /\ at[w] = "process"
                        /\ AddRateLimited(cur[w])
                        /\ at' = [at EXCEPT ![w] = "requeued"]
                        /\ UNCHANGED <<queue, dirty, processing, cur, retried>>

\* process returned nil: handleErr forgets the key.
HandleSuccess(w) == /\ at[w] \in {"process", "requeued"}
                    /\ Forget(cur[w])
                    /\ retried' = [retried EXCEPT ![cur[w]] = 0]
                    /\ at' = [at EXCEPT ![w] = "handled"]
                    /\ UNCHANGED <<queue, dirty, processing, waiting, cur>>

\* Faulty: "num <= 5".
HandleRetryOnceMore(w) == /\ at[w] = "process"
                          /\ failures[cur[w]] <= MaxRetries
                          /\ AddRateLimited(cur[w])
                          /\ retried' = [retried EXCEPT ![cur[w]] = @ + 1]
                          /\ at' = [at EXCEPT ![w] = "handled"]
                          /\ UNCHANGED <<queue, dirty, processing, cur>>

\* process returned an error and the key has retries left.
HandleRetry(w) == /\ at[w] = "process"
                  /\ failures[cur[w]] < MaxRetries
                  /\ AddRateLimited(cur[w])
                  /\ retried' = [retried EXCEPT ![cur[w]] = @ + 1]
                  /\ at' = [at EXCEPT ![w] = "handled"]
                  /\ UNCHANGED <<queue, dirty, processing, cur>>

\* process returned an error and the key has none left: it is dropped.
HandleGiveUp(w) == /\ at[w] = "process"
                   /\ ~ (failures[cur[w]] < MaxRetries)
                   /\ Forget(cur[w])
                   /\ retried' = [retried EXCEPT ![cur[w]] = 0]
                   /\ at' = [at EXCEPT ![w] = "dropped"]
                   /\ UNCHANGED <<queue, dirty, processing, waiting, cur>>

\* Faulty: the key added meanwhile is not made ready.
DoneWithoutRequeue(w) == /\ at[w] \in {"handled", "dropped"}
                         /\ processing' = processing \ {cur[w]}
                         /\ cur' = [cur EXCEPT ![w] = NoKey]
                         /\ at' = [at EXCEPT ![w] = "get"]
                         /\ UNCHANGED <<queue, dirty, waiting, failures, retried>>

\* Faulty: a dropped key is not declared done.
DoneUnlessDropped(w) ==
  LET k == cur[w]
  IN  /\ at[w] \in {"handled", "dropped"}
      /\ processing' = IF at[w] = "dropped" THEN processing ELSE processing \ {k}
      /\ queue' = IF at[w] # "dropped" /\ k \in dirty THEN Append(queue, k) ELSE queue
      /\ cur' = [cur EXCEPT ![w] = NoKey]
      /\ at' = [at EXCEPT ![w] = "get"]
      /\ UNCHANGED <<dirty, waiting, failures, retried>>

\* The deferred queue.Done: a key added meanwhile becomes ready now.
Done(w) == /\ at[w] \in {"handled", "dropped"}
           /\ processing' = processing \ {cur[w]}
           /\ queue' = IF cur[w] \in dirty THEN Append(queue, cur[w]) ELSE queue
           /\ cur' = [cur EXCEPT ![w] = NoKey]
           /\ at' = [at EXCEPT ![w] = "get"]
           /\ UNCHANGED <<dirty, waiting, failures, retried>>

\* What a worker does with a key between Get and Done.
Handle(w) == \/ RequeueOnConflict(w)
             \/ HandleSuccess(w)
             \/ HandleRetry(w)
             \/ HandleGiveUp(w)

Next == \/ \E k \in Keys : Enqueue(k) \/ Fire(k)
        \/ \E w \in Workers : Get(w) \/ Handle(w) \/ Done(w)

Spec == Init /\ [][Next]_vars

\* Timers fire and goroutines are scheduled.
Fairness == /\ \A k \in Keys : WF_vars(Fire(k))
            /\ \A w \in Workers : WF_vars(Get(w)) /\ WF_vars(Handle(w)) /\ WF_vars(Done(w))

FairSpec == Spec /\ Fairness

-----------------------------------------------------------------------------
(* Properties. *)

\* The ready queue holds each key that is dirty and in no worker's hands, and
\* holds it once: no change seen by a handler is forgotten by Add or Done.
ReadyIsDirtyAndIdle ==
  /\ {queue[i] : i \in 1 .. Len(queue)} = dirty \ processing
  /\ \A i, j \in 1 .. Len(queue) : queue[i] = queue[j] => i = j

\* Two workers (main starts numThreads = 2) never reconcile the same object at
\* the same time, although its key may be added at any moment.
OneWorkerPerKey ==
  \A v, w \in Workers : v # w /\ cur[v] # NoKey => cur[v] # cur[w]

\* handleErr: "Re-enqueue up to 5 times" is an upper bound on the requeues of
\* a key between two times the limiter forgets it.  It is no lower bound: the
\* limiter also counts the additions made by the informer handlers.
RetriesBounded == \A k \in Keys : retried[k] <= MaxRetries

\* The queue keeps the promise of KeyQueue: an addition is never lost between
\* the heap of delayed keys, the dirty set and the FIFO, and is served.
KQ == INSTANCE KeyQueue WITH owed <- waiting \union dirty, busy <- processing

ImplementsKeyQueue == KQ!FairSpec

=============================================================================
