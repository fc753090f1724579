------------------------- MODULE DNSControllerProofs ------------------------
(***************************************************************************)
(* Proofs about DNSController, for all records, workers and bounds: no     *)
(* version of a record is forgotten, and panics never outnumber deletions. *)
(***************************************************************************)
EXTENDS DNSController, TLAPS

-----------------------------------------------------------------------------
(* The inductive invariant. *)

Synced == Type \in synced

\* How far the process has come, and what it cannot have in memory before.
Lifecycle ==
  /\ phase \in {"new", "down"} => informers = {}
  /\ phase = "registered" => Type \in informers /\ startedInformers = {}
  /\ phase \in {"started", "running"} => Type \in startedInformers
  /\ phase = "running" => Synced
  /\ ~ Synced => owed = {}
  /\ phase # "running" => busy = {}

\* The busy keys are those of the workers, each of one.
KeysExclusive ==
  /\ \A w \in Workers : at[w] = "idle" <=> cur[w] = NoKey
  /\ \A w \in Workers : cur[w] # NoKey => cur[w] \in busy
  /\ \A k \in busy : \E w \in Workers : cur[w] = k
  /\ \A v, w \in Workers : v # w /\ cur[v] # NoKey => cur[v] # cur[w]

\* A worker has the key and has not looked at the record yet.
Got(k) == \E w \in Workers : cur[w] = k /\ at[w] = "got"

\* A record in the store is waiting, or about to be reconciled, or was.
Noted ==
  \A k \in Records :
     Synced /\ indexer[k].live => k \in owed \/ Got(k) \/ reconciled[k] = indexer[k].rv

\* A worker may panic on the key: it is gone from the store, or will be.
Threat(k) ==
  /\ Synced
  /\ \/ ~ indexer[k].live /\ (k \in owed \/ Got(k))
     \/ indexer[k] # records[k] /\ ~ records[k].live

\* Every panic, and the next one, has a deletion of its own.
Paid == /\ panics <= deletions
        /\ (\E k \in Records : Threat(k)) => panics < deletions

\* Each version of a record took a change.
Versioned == \A k \in Records : records[k].rv <= changes

IInv == TypeOK /\ Versioned /\ Lifecycle /\ KeysExclusive /\ Noted /\ Paid

-----------------------------------------------------------------------------
LEMMA InitIInv == Init => IInv
<1> SUFFICES ASSUME Init PROVE IInv
  OBVIOUS
<1>1. TypeOK
  BY ConstantsAssumption DEF Init, TypeOK, F!Init, F!TypeOK, Q!Init, Q!TypeOK, NoRecord, DNSRecord, Phases
<1>2. Versioned /\ Lifecycle /\ KeysExclusive /\ Noted /\ Paid
  BY DEF Versioned, NoRecord, Init, F!Init, Q!Init, Lifecycle, KeysExclusive, Noted, Paid, Threat, Synced
<1>3. QED
  BY <1>1, <1>2 DEF IInv

LEMMA GetIInv == ASSUME IInv, NEW w \in Workers, NEW k \in Records, Get(w, k) PROVE IInv'
<1> USE DEF IInv
<1>0. Versioned'
  BY DEF Versioned, Get, counters
<1>1. TypeOK'
  BY DEF TypeOK, Get, F!TypeOK, Q!TypeOK, Q!Start, factoryVars, counters
<1>2. Lifecycle'
  BY DEF Lifecycle, Synced, Get, Q!Start, factoryVars
<1>3. KeysExclusive'
  <2>1. /\ cur' = [cur EXCEPT ![w] = k] /\ at' = [at EXCEPT ![w] = "got"]
        /\ busy' = busy \union {k} /\ k \notin busy /\ at[w] = "idle"
    BY DEF Get, Q!Start
  <2>2. /\ cur \in [Workers -> Records \union {NoKey}] /\ k # NoKey /\ cur[w] = NoKey
        /\ at \in [Workers -> {"idle", "got", "handled"}]
    BY <2>1, ConstantsAssumption DEF TypeOK, KeysExclusive
  <2>3. \A v \in Workers : v # w => cur'[v] = cur[v] /\ at'[v] = at[v] /\ cur[v] # k
    BY <2>1, <2>2 DEF KeysExclusive
  <2>4. cur'[w] = k /\ at'[w] = "got"
    BY <2>1, <2>2
  <2>5. \A x \in busy' : \E v \in Workers : cur'[v] = x
    <3> TAKE x \in busy'
    <3>1. CASE x = k
      BY <3>1, <2>4
    <3>2. CASE x # k
      <4>1. x \in busy
        BY <3>2, <2>1
      <4>2. PICK v \in Workers : cur[v] = x
        BY <4>1 DEF KeysExclusive
      <4>3. v # w
        BY <4>1, <4>2, <2>2, ConstantsAssumption DEF TypeOK, Q!TypeOK
      <4>4. QED
        BY <4>2, <4>3, <2>3
    <3>3. QED
      BY <3>1, <3>2
  <2>6. QED
    BY <2>1, <2>2, <2>3, <2>4, <2>5 DEF KeysExclusive
<1>4. Noted'
  BY DEF Noted, Got, Synced, KeysExclusive, TypeOK, Get, Q!Start, factoryVars
<1>5. Paid'
  BY DEF Paid, Threat, Got, Synced, KeysExclusive, TypeOK, Get, Q!Start, factoryVars, counters
<1>6. QED
  BY <1>0, <1>1, <1>2, <1>3, <1>4, <1>5

LEMMA ProcessIInv == ASSUME IInv, NEW w \in Workers, Process(w) PROVE IInv'
<1> USE DEF IInv
<1>0. Versioned'
  BY DEF Versioned, Process, counters
<1>1. TypeOK'
  BY DEF TypeOK, Process, F!TypeOK, Q!TypeOK, factoryVars, queueVars, counters, KeysExclusive, DNSRecord
<1>2. Lifecycle'
  BY DEF Lifecycle, Synced, Process, factoryVars, queueVars
<1>3. KeysExclusive'
  BY ConstantsAssumption DEF KeysExclusive, TypeOK, Process, queueVars
<1>4. Noted'
  BY DEF Noted, Got, Synced, KeysExclusive, TypeOK, Process, factoryVars, queueVars
<1>5. Paid'
  BY DEF Paid, Threat, Got, Synced, KeysExclusive, TypeOK, Process, factoryVars, queueVars, counters
<1>6. QED
  BY <1>0, <1>1, <1>2, <1>3, <1>4, <1>5

LEMMA DoneIInv == ASSUME IInv, NEW w \in Workers, Done(w) PROVE IInv'
<1> USE DEF IInv
<1>0. Versioned'
  BY DEF Versioned, Done, counters
<1>1. TypeOK'
  BY DEF TypeOK, Done, F!TypeOK, Q!TypeOK, Q!Finish, factoryVars, counters
<1>2. Lifecycle'
  BY DEF Lifecycle, Synced, Done, Q!Finish, factoryVars
<1>3. KeysExclusive'
  BY ConstantsAssumption DEF KeysExclusive, TypeOK, Done, Q!Finish
<1>4. Noted'
  BY DEF Noted, Got, Synced, KeysExclusive, TypeOK, Done, Q!Finish, factoryVars
<1>5. Paid'
  BY DEF Paid, Threat, Got, Synced, KeysExclusive, TypeOK, Done, Q!Finish, factoryVars, counters
<1>6. QED
  BY <1>0, <1>1, <1>2, <1>3, <1>4, <1>5

-----------------------------------------------------------------------------
(* The informer. *)

LEMMA DeliverIInv == ASSUME IInv, NEW k \in Records, Deliver(k) PROVE IInv'
<1> USE DEF IInv
<1>0. Versioned'
  BY DEF Versioned, Deliver, counters
<1>1. TypeOK'
  BY DEF TypeOK, Deliver, F!TypeOK, Q!TypeOK, Q!Notify, factoryVars, workerVars, counters
<1>2. Lifecycle'
  BY DEF Lifecycle, Synced, Deliver, Q!Notify, factoryVars
<1>3. KeysExclusive'
  BY DEF KeysExclusive, Deliver, Q!Notify, workerVars
<1>4. Noted'
  BY DEF Noted, Got, Synced, TypeOK, Deliver, Q!Notify, factoryVars, workerVars
<1>5. Paid'
  BY DEF Paid, Threat, Got, Synced, TypeOK, Deliver, Q!Notify, factoryVars, workerVars, counters
<1>6. QED
  BY <1>0, <1>1, <1>2, <1>3, <1>4, <1>5

LEMMA DeliverTombstoneIInv ==
  ASSUME IInv, NEW k \in Records, DeliverTombstone(k) PROVE IInv'
<1> USE DEF IInv
<1>0. Versioned'
  BY DEF Versioned, DeliverTombstone, counters
<1>1. TypeOK'
  BY DEF TypeOK, DeliverTombstone, F!TypeOK, Q!TypeOK, factoryVars, queueVars, workerVars, counters
<1>2. Lifecycle'
  BY DEF Lifecycle, Synced, DeliverTombstone, factoryVars, queueVars
<1>3. KeysExclusive'
  BY DEF KeysExclusive, DeliverTombstone, queueVars, workerVars
<1>4. Noted'
  BY DEF Noted, Got, Synced, TypeOK, DeliverTombstone, factoryVars, queueVars, workerVars
<1>5. Paid'
  BY DEF Paid, Threat, Got, Synced, TypeOK, DeliverTombstone, factoryVars, queueVars, workerVars,
         counters
<1>6. QED
  BY <1>0, <1>1, <1>2, <1>3, <1>4, <1>5

LEMMA ResyncIInv == ASSUME IInv, NEW k \in Records, Resync(k) PROVE IInv'
<1> USE DEF IInv
<1>0. Versioned'
  BY DEF Versioned, Resync, counters
<1>1. TypeOK'
  BY DEF TypeOK, Resync, F!TypeOK, Q!TypeOK, Q!Notify, factoryVars, workerVars, counters
<1>2. Lifecycle'
  BY DEF Lifecycle, Synced, Resync, Q!Notify, factoryVars
<1>3. KeysExclusive'
  BY DEF KeysExclusive, Resync, Q!Notify, workerVars
<1>4. Noted'
  BY DEF Noted, Got, Synced, Resync, Q!Notify, factoryVars, workerVars
<1>5. Paid'
  BY DEF Paid, Threat, Got, Synced, Resync, Q!Notify, factoryVars, workerVars, counters
<1>6. QED
  BY <1>0, <1>1, <1>2, <1>3, <1>4, <1>5

\* What is listed when the informer syncs is live, so nobody panics on it.
LEMMA ListRecordsIInv == ASSUME IInv, ListRecords PROVE IInv'
<1> USE DEF IInv
<1>0. Versioned'
  BY DEF Versioned, ListRecords, counters
<1>1. TypeOK'
  BY DEF TypeOK, ListRecords, F!HasSynced, F!TypeOK, Q!TypeOK, workerVars, counters
<1>2. Lifecycle'
  BY DEF Lifecycle, Synced, ListRecords, F!HasSynced
<1>3. KeysExclusive'
  BY DEF KeysExclusive, ListRecords, workerVars
<1>4. Noted'
  BY DEF Noted, Synced, ListRecords
<1>5. \A k \in Records : ~ Threat(k)'
  <2>1. owed = {} /\ busy = {}
    BY DEF ListRecords, F!HasSynced, Lifecycle, Synced
  <2>2. \A k \in Records : ~ Got(k)'
    BY <2>1, ConstantsAssumption DEF Got, KeysExclusive, ListRecords, workerVars
  <2>3. QED
    BY <2>1, <2>2 DEF Threat, ListRecords
<1>6. Paid'
  BY <1>5 DEF Paid, ListRecords, counters
<1>7. QED
  BY <1>0, <1>1, <1>2, <1>3, <1>4, <1>6

-----------------------------------------------------------------------------
(* The start and the end of the process. *)

LEMMA NewControllerIInv == ASSUME IInv, NewController PROVE IInv'
<1> USE DEF IInv
<1>1. TypeOK'
  BY DEF TypeOK, NewController, AddEventHandler, StartInformers, StartWorkers, F!InformerFor, F!Start,
         F!TypeOK, Q!TypeOK, Phases, factoryVars, queueVars, workerVars, counters
<1>2. Lifecycle'
  <2>1. CASE AddEventHandler
    BY <2>1 DEF TypeOK, Lifecycle, Synced, AddEventHandler, F!InformerFor, F!TypeOK, queueVars
  <2>2. CASE StartInformers
    BY <2>2 DEF Lifecycle, Synced, StartInformers, F!Start, queueVars
  <2>3. CASE StartWorkers
    BY <2>3 DEF Lifecycle, Synced, StartWorkers, F!CacheSynced, factoryVars, queueVars
  <2>4. QED
    BY <2>1, <2>2, <2>3 DEF NewController
<1>3. UNCHANGED <<records, synced, indexer, owed, busy, cur, at, reconciled, deletions, panics, changes>>
  BY DEF NewController, AddEventHandler, StartInformers, StartWorkers, F!InformerFor, F!Start,
         factoryVars, queueVars, workerVars, counters
<1>4. Versioned' /\ KeysExclusive' /\ Noted' /\ Paid'
  BY <1>3 DEF Versioned, KeysExclusive, Noted, Paid, Threat, Got, Synced
<1>5. QED
  BY <1>1, <1>2, <1>4

\* Death clears the memory, and with it every threat.
LEMMA DieOK ==
  ASSUME IInv, Die, panics' \in Nat, deletions' = deletions, panics' <= deletions',
         changes' = changes, kills' \in 0 .. MaxKills
  PROVE  IInv'
<1> USE DEF IInv
<1>1. TypeOK'
  BY ConstantsAssumption DEF TypeOK, Die, F!Lose, F!TypeOK, Q!TypeOK, Phases, NoRecord, DNSRecord
<1>2. Versioned' /\ Lifecycle' /\ KeysExclusive' /\ Noted' /\ Paid'
  BY DEF Versioned, Lifecycle, KeysExclusive, Noted, Paid, Threat, Synced, Die, F!Lose
<1>3. QED
  BY <1>1, <1>2

LEMMA KillIInv == ASSUME IInv, Kill PROVE IInv'
<1>1. /\ panics' \in Nat /\ deletions' = deletions /\ panics' <= deletions'
      /\ changes' = changes /\ kills' \in 0 .. MaxKills
  BY ConstantsAssumption DEF Kill, IInv, TypeOK, Paid
<1>2. QED
  BY <1>1, DieOK DEF Kill

\* A worker panics on a record that was deleted, and that deletion was not paid for.
LEMMA PanicIInv == ASSUME IInv, NEW w \in Workers, Panic(w) PROVE IInv'
<1>1. at[w] = "got" /\ ~ indexer[cur[w]].live /\ cur[w] \in Records
  BY DEF Panic, IInv, KeysExclusive, TypeOK
<1>2. Synced
  BY <1>1 DEF IInv, Lifecycle, KeysExclusive
<1>3. Threat(cur[w])
  BY <1>1, <1>2 DEF Threat, Got
<1>4. panics < deletions
  BY <1>1, <1>3 DEF IInv, Paid
<1>5. /\ panics' \in Nat /\ deletions' = deletions /\ panics' <= deletions'
      /\ changes' = changes /\ kills' \in 0 .. MaxKills
  BY <1>4 DEF Panic, IInv, TypeOK
<1>6. QED
  BY <1>5, DieOK DEF Panic

LEMMA RestartIInv == ASSUME IInv, Restart PROVE IInv'
<1> USE DEF IInv
<1>0. Versioned'
  BY DEF Versioned, Restart, counters
<1>1. TypeOK'
  BY DEF TypeOK, Restart, F!TypeOK, Q!TypeOK, Phases, factoryVars, queueVars, workerVars, counters
<1>2. Lifecycle'
  BY DEF Lifecycle, Synced, Restart, factoryVars, queueVars
<1>3. KeysExclusive' /\ Noted' /\ Paid'
  BY DEF KeysExclusive, Noted, Paid, Threat, Got, Synced, Restart, factoryVars, queueVars, workerVars,
         counters
<1>4. QED
  BY <1>0, <1>1, <1>2, <1>3

-----------------------------------------------------------------------------
(* Users. *)

LEMMA WriteIInv == ASSUME IInv, NEW k \in Records, Write(k) PROVE IInv'
<1> USE DEF IInv
<1>1. /\ records' = [records EXCEPT ![k] = [live |-> TRUE, rv |-> records[k].rv + 1]]
      /\ changes' = changes + 1 /\ changes < MaxChanges
      /\ UNCHANGED <<factoryVars, indexer, queueVars, phase, workerVars, reconciled,
                     deletions, panics, kills>>
  BY DEF Write
<1>2. /\ records \in [Records -> DNSRecord] /\ records[k].rv \in Nat
      /\ changes \in 0 .. MaxChanges /\ records[k].rv <= changes
  BY DEF TypeOK, Versioned, DNSRecord
<1>3. [live |-> TRUE, rv |-> records[k].rv + 1] \in DNSRecord
  BY <1>1, <1>2, ConstantsAssumption DEF DNSRecord
<1>4. records' \in [Records -> DNSRecord] /\ changes' \in 0 .. MaxChanges
  BY <1>1, <1>2, <1>3, ConstantsAssumption
<1>5. TypeOK'
  BY <1>1, <1>4 DEF TypeOK, F!TypeOK, Q!TypeOK, factoryVars, queueVars, workerVars
<1>6. Versioned'
  BY <1>1, <1>2 DEF Versioned, DNSRecord
<1>7. Lifecycle' /\ KeysExclusive' /\ Noted'
  BY <1>1 DEF Lifecycle, KeysExclusive, Noted, Got, Synced, factoryVars, queueVars, workerVars
<1>8. Paid'
  BY <1>1, <1>2 DEF Paid, Threat, Got, Synced, TypeOK, factoryVars, queueVars, workerVars
<1>9. QED
  BY <1>5, <1>6, <1>7, <1>8

LEMMA DeleteIInv == ASSUME IInv, NEW k \in Records, Delete(k) PROVE IInv'
<1> USE DEF IInv
<1>1. /\ records' = [records EXCEPT ![k].live = FALSE]
      /\ changes' = changes + 1 /\ changes < MaxChanges
      /\ deletions' = deletions + 1
      /\ UNCHANGED <<factoryVars, indexer, queueVars, phase, workerVars, reconciled, panics, kills>>
  BY DEF Delete
<1>2. /\ records \in [Records -> DNSRecord] /\ changes \in 0 .. MaxChanges
      /\ deletions \in Nat /\ panics \in Nat
  BY DEF TypeOK
<1>3. /\ records' \in [Records -> DNSRecord] /\ changes' \in 0 .. MaxChanges
      /\ \A x \in Records : records'[x].rv = records[x].rv
  <2>1. records[k] \in DNSRecord /\ [records[k] EXCEPT !.live = FALSE] \in DNSRecord
        /\ [records[k] EXCEPT !.live = FALSE].rv = records[k].rv
    BY <1>2 DEF DNSRecord
  <2>2. records' = [records EXCEPT ![k] = [records[k] EXCEPT !.live = FALSE]]
    BY <1>1
  <2>3. \A x \in Records : records'[x] = IF x = k THEN [records[k] EXCEPT !.live = FALSE] ELSE records[x]
    BY <1>2, <2>2
  <2>4. records' \in [Records -> DNSRecord]
    BY <1>2, <2>1, <2>2
  <2>5. QED
    BY <1>1, <1>2, <2>1, <2>3, <2>4, ConstantsAssumption
<1>4. TypeOK'
  BY <1>1, <1>2, <1>3 DEF TypeOK, F!TypeOK, Q!TypeOK, factoryVars, queueVars, workerVars
<1>5. Versioned'
  BY <1>1, <1>2, <1>3 DEF Versioned, DNSRecord
<1>6. Lifecycle' /\ KeysExclusive' /\ Noted'
  BY <1>1 DEF Lifecycle, KeysExclusive, Noted, Got, Synced, factoryVars, queueVars, workerVars
<1>7. Paid'
  BY <1>1, <1>2 DEF Paid
<1>8. QED
  BY <1>4, <1>5, <1>6, <1>7

-----------------------------------------------------------------------------

LEMMA NextIInv == IInv /\ [Next]_vars => IInv'
<1> SUFFICES ASSUME IInv, [Next]_vars PROVE IInv'
  OBVIOUS
<1>1. ASSUME NEW w \in Workers, Worker(w) \/ \E k \in Records : Get(w, k) PROVE IInv'
  BY <1>1, ProcessIInv, PanicIInv, DoneIInv, GetIInv DEF Worker
<1>2. ASSUME NEW k \in Records,
             Deliver(k) \/ DeliverTombstone(k) \/ Resync(k) \/ Write(k) \/ Delete(k)
      PROVE  IInv'
  BY <1>2, DeliverIInv, DeliverTombstoneIInv, ResyncIInv, WriteIInv, DeleteIInv
<1>3. CASE NewController \/ ListRecords \/ Kill \/ Restart
  BY <1>3, NewControllerIInv, ListRecordsIInv, KillIInv, RestartIInv
<1>4. CASE UNCHANGED vars
  <2>1. UNCHANGED <<records, factoryVars, indexer, queueVars, phase, workerVars, reconciled, counters>>
    BY <1>4 DEF vars
  <2>2. TypeOK' /\ Lifecycle'
    BY <2>1 DEF IInv, TypeOK, Lifecycle, Synced, F!TypeOK, Q!TypeOK, factoryVars, queueVars,
                workerVars, counters
  <2>3. Versioned' /\ KeysExclusive' /\ Noted' /\ Paid'
    BY <2>1 DEF IInv, Versioned, KeysExclusive, Noted, Paid, Threat, Got, Synced, factoryVars, queueVars,
                workerVars, counters
  <2>4. QED
    BY <2>2, <2>3 DEF IInv
<1>5. QED
  BY <1>1, <1>2, <1>3, <1>4 DEF Next

\* The invariant the others follow from: what the process cannot have in memory
\* before it has synced, one worker per key, every live record of the store
\* waiting or reconciled, and every panic paid for by a deletion.
THEOREM InductiveInvariant == Spec => []IInv
<1>1. QED
  BY InitIInv, NextIInv, PTL DEF Spec

\* Every reachable state of the DNS controller is well typed.
THEOREM TypeCorrect == Spec => []TypeOK
<1>1. IInv => TypeOK
  BY DEF IInv
<1>2. QED
  BY <1>1, InductiveInvariant, PTL

\* NewController and process: a record whose last version reached the store and
\* that no worker has nor will get was reconciled in that version, for any
\* number of records, workers, changes and deaths of the process.
THEOREM NeverForgets == Spec => []NothingForgotten
<1>1. IInv => NothingForgotten
  <2> SUFFICES ASSUME IInv, NEW k \in Records, Synced, indexer[k] = records[k], records[k].live,
                      k \notin owed, k \notin busy
               PROVE  reconciled[k] = records[k].rv
    BY DEF NothingForgotten, Synced
  <2>1. ~ Got(k)
    BY ConstantsAssumption DEF IInv, Got, KeysExclusive
  <2>2. QED
    BY <2>1 DEF IInv, Noted
<1>2. QED
  BY <1>1, InductiveInvariant, PTL

\* process, controller.go:138-142: the workers panic at most once per deleted
\* record, so the crash does not repeat itself after the restart.
THEOREM PanicsBounded == Spec => []NoCrashLoop
<1>1. IInv => NoCrashLoop
  BY DEF IInv, Paid, NoCrashLoop
<1>2. QED
  BY <1>1, InductiveInvariant, PTL
=============================================================================
