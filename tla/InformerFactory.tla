-------------------------- MODULE InformerFactory ---------------------------
(***************************************************************************)
(* The generated shared informer factory: a map of informers by object     *)
(* type, and the set of those that run.  The factory's mutex makes each    *)
(* operation one step.                                                     *)
(***************************************************************************)

CONSTANT Types         \* the object types informers are made for

VARIABLES
  informers,           \* types with an informer
  startedInformers,    \* types whose informer runs
  synced               \* types whose informer has listed its objects

vars == <<informers, startedInformers, synced>>

TypeOK == synced \subseteq startedInformers /\ startedInformers \subseteq informers
          /\ informers \subseteq Types

Init == informers = {} /\ startedInformers = {} /\ synced = {}

\* A type has one informer, made when it is first asked for.
InformerFor(t) == informers' = informers \union {t} /\ UNCHANGED <<startedInformers, synced>>

\* Every informer that does not run yet is run.
Start == startedInformers' = startedInformers \union informers /\ UNCHANGED <<informers, synced>>

\* The first list of a running informer is in its store.
HasSynced(t) == /\ t \in startedInformers \ synced
                /\ synced' = synced \union {t}
                /\ UNCHANGED <<informers, startedInformers>>

\* What WaitForCacheSync waits for: of the informers that run, not of the others.
CacheSynced == startedInformers \subseteq synced

\* The process is gone.
Lose == informers' = {} /\ startedInformers' = {} /\ synced' = {}
=============================================================================
