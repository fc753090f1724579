---------------------------- MODULE DNSController ---------------------------
(***************************************************************************)
(* The controller of DNSRecords: NewController, the informer it starts,    *)
(* the workers, and the process they live in, which a panic of any of      *)
(* them ends (and with it the ingress controller, main.go).                *)
(*                                                                         *)
(* The record's contents are left out: a record is a version.  The queue   *)
(* is the one KeyQueue describes.  reconcile changes nothing and returns   *)
(* nil ("TODO: Reconcile record to DNS server"), and GetByKey never fails, *)
(* so process never updates the record and handleErr never sees an error:  *)
(* Done follows Forget, and no key is retried.                             *)
(***************************************************************************)
EXTENDS Naturals

CONSTANTS
  Records,           \* names of DNSRecords
  Workers,           \* goroutines: main starts numThreads = 2
  NoKey,             \* the key of an idle worker
  MaxChanges,        \* bound: writes and deletions of records
  MaxKills           \* bound: deaths of the process from outside

ASSUME ConstantsAssumption == /\ NoKey \notin Records
                              /\ MaxChanges \in Nat /\ MaxKills \in Nat

VARIABLES
  records,           \* the DNSRecords of the API server
  informers, startedInformers, synced,     \* the informer factory
  indexer,           \* the store of the DNSRecord informer
  owed, busy,        \* the work queue
  phase,             \* how far NewController and Start have come
  cur, at,           \* the key each worker has, and its place in the loop
  reconciled,        \* history: the version of each record last passed to
                     \* reconcile since the process started
  deletions, panics, \* history: records deleted, panics of a worker
  changes, kills     \* counters for the bounds

factoryVars == <<informers, startedInformers, synced>>
queueVars == <<owed, busy>>
workerVars == <<cur, at>>
counters == <<deletions, panics, changes, kills>>
vars == <<records, factoryVars, indexer, queueVars, phase, workerVars, reconciled, counters>>

Type == "DNSRecord"
F == INSTANCE InformerFactory WITH Types <- {Type}
Q == INSTANCE KeyQueue WITH Keys <- Records

\* A deleted record keeps its last version, so that the next one of its name
\* differs from it.
DNSRecord == [live : BOOLEAN, rv : 0 .. MaxChanges]
NoRecord == [live |-> FALSE, rv |-> 0]

Phases == {"new", "registered", "started", "running", "down"}

TypeOK == /\ records \in [Records -> DNSRecord]
          /\ F!TypeOK
          /\ indexer \in [Records -> DNSRecord]
          /\ Q!TypeOK
          /\ phase \in Phases
          /\ cur \in [Workers -> Records \union {NoKey}]
          /\ at \in [Workers -> {"idle", "got", "handled"}]
          /\ reconciled \in [Records -> 0 .. MaxChanges]
          /\ deletions \in Nat /\ panics \in Nat
          /\ changes \in 0 .. MaxChanges
          /\ kills \in 0 .. MaxKills

Init == /\ records = [k \in Records |-> NoRecord]
        /\ F!Init
        /\ indexer = [k \in Records |-> NoRecord]
        /\ Q!Init
        /\ phase = "new"
        /\ cur = [w \in Workers |-> NoKey]
        /\ at = [w \in Workers |-> "idle"]
        /\ reconciled = [k \in Records |-> 0]
        /\ deletions = 0 /\ panics = 0 /\ changes = 0 /\ kills = 0

-----------------------------------------------------------------------------
(* NewController and Start. *)

\* Informer() makes the factory create the informer; the handlers are added.
AddEventHandler == /\ phase = "new"
                   /\ F!InformerFor(Type)
                   /\ phase' = "registered"
                   /\ UNCHANGED <<records, indexer, queueVars, workerVars, reconciled, counters>>

StartInformers == /\ phase = "registered"
                  /\ F!Start
                  /\ phase' = "started"
                  /\ UNCHANGED <<records, indexer, queueVars, workerVars, reconciled, counters>>

\* The informer lists the records; its add handler enqueues each of them.
ListRecords == /\ F!HasSynced(Type)
               /\ indexer' = records
               /\ owed' = owed \union {k \in Records : records[k].live}
               /\ UNCHANGED <<records, busy, phase, workerVars, reconciled, counters>>

\* WaitForCacheSync returns, the indexer is known, Start runs the workers.
StartWorkers == /\ phase = "started"
                /\ F!CacheSynced
                /\ phase' = "running"
                /\ UNCHANGED <<records, factoryVars, indexer, queueVars, workerVars, reconciled, counters>>

-----------------------------------------------------------------------------
(* The informer. *)

\* Faulty: the handler enqueues the object where the key is expected.
DeliverObject(k) == /\ Type \in synced
                    /\ indexer[k] # records[k]
                    /\ indexer' = [indexer EXCEPT ![k] = records[k]]
                    /\ owed' = owed \union {records[k]}
                    /\ UNCHANGED <<records, factoryVars, busy, phase, workerVars, reconciled, counters>>

\* Faulty: no UpdateFunc.
DeliverNoUpdate(k) == /\ Type \in synced
                      /\ indexer[k] # records[k]
                      /\ indexer' = [indexer EXCEPT ![k] = records[k]]
                      /\ IF indexer[k].live /\ records[k].live THEN UNCHANGED queueVars ELSE Q!Notify(k)
                      /\ UNCHANGED <<records, factoryVars, phase, workerVars, reconciled, counters>>

\* A watch event, or several of one record, reach the store, and the handler
\* enqueues the key, that of a deleted record too.
Deliver(k) == /\ Type \in synced
              /\ indexer[k] # records[k]
              /\ indexer' = [indexer EXCEPT ![k] = records[k]]
              /\ Q!Notify(k)
              /\ UNCHANGED <<records, factoryVars, phase, workerVars, reconciled, counters>>

\* The watch was lost and the deletion is found out by listing again: the handler
\* is given a DeletedFinalStateUnknown, which has no key, and enqueues nothing.
DeliverTombstone(k) == /\ Type \in synced
                       /\ indexer[k].live /\ ~ records[k].live
                       /\ indexer' = [indexer EXCEPT ![k] = records[k]]
                       /\ UNCHANGED <<records, factoryVars, queueVars, phase, workerVars,
                                      reconciled, counters>>

\* The resync of the informer, every ten hours.
Resync(k) == /\ Type \in synced
             /\ indexer[k] = records[k] /\ indexer[k].live
             /\ Q!Notify(k)
             /\ UNCHANGED <<records, factoryVars, indexer, phase, workerVars, reconciled, counters>>

-----------------------------------------------------------------------------
(* The workers. *)

Get(w, k) == /\ phase = "running"
             /\ at[w] = "idle"
             /\ Q!Start(k)
             /\ cur' = [cur EXCEPT ![w] = k]
             /\ at' = [at EXCEPT ![w] = "got"]
             /\ UNCHANGED <<records, factoryVars, indexer, phase, reconciled, counters>>

\* The record is in the indexer: reconcile is called with it and succeeds.
Process(w) == /\ at[w] = "got"
              /\ indexer[cur[w]].live
              /\ reconciled' = [reconciled EXCEPT ![cur[w]] = indexer[cur[w]].rv]
              /\ at' = [at EXCEPT ![w] = "handled"]
              /\ UNCHANGED <<records, factoryVars, indexer, queueVars, phase, cur, counters>>

\* The process ends: what was in memory is lost.
Die == /\ phase' = "down"
       /\ F!Lose
       /\ indexer' = [k \in Records |-> NoRecord]
       /\ owed' = {} /\ busy' = {}
       /\ cur' = [w \in Workers |-> NoKey]
       /\ at' = [w \in Workers |-> "idle"]
       /\ reconciled' = [k \in Records |-> 0]
       /\ UNCHANGED records

\* Faulty: the panic is recovered and the key added again.
RecoverAndRetry(w) == /\ at[w] = "got"
                      /\ ~ indexer[cur[w]].live
                      /\ panics' = panics + 1
                      /\ owed' = owed \union {cur[w]}
                      /\ at' = [at EXCEPT ![w] = "handled"]
                      /\ UNCHANGED <<records, factoryVars, indexer, busy, phase, cur, reconciled,
                                     deletions, changes, kills>>

\* The record is not in the indexer: that is logged and the nil object is
\* asserted to be a record, which panics; wait.Until logs the panic and
\* panics again.
Panic(w) == /\ at[w] = "got"
            /\ ~ indexer[cur[w]].live
            /\ Die
            /\ panics' = panics + 1
            /\ UNCHANGED <<deletions, changes, kills>>

\* Faulty: queue.Done is not called.
DoneForgotten(w) == /\ at[w] = "handled"
                    /\ cur' = [cur EXCEPT ![w] = NoKey]
                    /\ at' = [at EXCEPT ![w] = "idle"]
                    /\ UNCHANGED <<records, factoryVars, indexer, queueVars, phase, reconciled, counters>>

\* handleErr forgets the key and the deferred Done runs.
Done(w) == /\ at[w] = "handled"
           /\ Q!Finish(cur[w])
           /\ cur' = [cur EXCEPT ![w] = NoKey]
           /\ at' = [at EXCEPT ![w] = "idle"]
           /\ UNCHANGED <<records, factoryVars, indexer, phase, reconciled, counters>>

-----------------------------------------------------------------------------
(* The outside: whoever writes records, stops the process and starts it. *)

Write(k) == /\ changes < MaxChanges
            /\ changes' = changes + 1
            /\ records' = [records EXCEPT ![k] = [live |-> TRUE, rv |-> @.rv + 1]]
            /\ UNCHANGED <<factoryVars, indexer, queueVars, phase, workerVars, reconciled,
                           deletions, panics, kills>>

Delete(k) == /\ changes < MaxChanges
             /\ records[k].live
             /\ changes' = changes + 1
             /\ deletions' = deletions + 1
             /\ records' = [records EXCEPT ![k].live = FALSE]
             /\ UNCHANGED <<factoryVars, indexer, queueVars, phase, workerVars, reconciled,
                            panics, kills>>

Kill == /\ phase # "down"
        /\ kills < MaxKills
        /\ kills' = kills + 1
        /\ Die
        /\ UNCHANGED <<deletions, panics, changes>>

Restart == /\ phase = "down"
           /\ phase' = "new"
           /\ UNCHANGED <<records, factoryVars, indexer, queueVars, workerVars, reconciled, counters>>

-----------------------------------------------------------------------------

NewController == AddEventHandler \/ StartInformers \/ StartWorkers

Worker(w) == Process(w) \/ Panic(w) \/ Done(w)

Next == \/ NewController \/ ListRecords \/ Kill \/ Restart
        \/ \E w \in Workers : Worker(w) \/ \E k \in Records : Get(w, k)
        \/ \E k \in Records : \/ Deliver(k) \/ DeliverTombstone(k) \/ Resync(k)
                           \/ Write(k) \/ Delete(k)

Spec == Init /\ [][Next]_vars

\* Goroutines are scheduled, the informer lists and delivers, and the queue
\* serves every key.  Nobody is obliged to start a process that died.
Fairness == /\ WF_vars(NewController) /\ WF_vars(ListRecords)
            /\ \A k \in Records : /\ WF_vars(Deliver(k) \/ DeliverTombstone(k))
                                  /\ SF_vars(\E w \in Workers : Get(w, k))
            /\ \A w \in Workers : WF_vars(Worker(w))

FairSpec == Spec /\ Fairness

-----------------------------------------------------------------------------
(* Correctness. *)

\* NewController and process: once the informer has synced, a record whose last
\* version has reached the store and whose key is neither owed nor in a worker's
\* hands was reconciled in that version since the process started, whatever was
\* written while the controller was starting, busy with it, or dead.
NothingForgotten ==
  \A k \in Records :
     Type \in synced /\ indexer[k] = records[k] /\ records[k].live /\ k \notin owed \union busy
     => reconciled[k] = records[k].rv

\* process, controller.go:138-142: a deleted record costs the process at most
\* once.  After the restart the record is not listed, so its key is not added
\* and the panic does not repeat by itself.
NoCrashLoop == panics <= deletions

\* From some moment on, a process that is alive has reconciled every record in
\* its last version: deaths, panics and changes stop nothing for good.
EventuallyReconciled ==
  <>[](phase # "down" => \A k \in Records : records[k].live => reconciled[k] = records[k].rv)

\* controller.go:102, "No matter what, tell the queue we're done with this key,
\* to unblock other workers": a worker that is handling a key leaves the process
\* running.
OtherWorkersGoOn ==
  [][\A w \in Workers : at[w] = "got" /\ at'[w] # "got" => phase' = "running"]_vars

=============================================================================
