------------------------ MODULE EnvoySnapshotsProofs ------------------------
(***************************************************************************)
(* Proofs about EnvoySnapshots, for all roots, rules, load balancers,      *)
(* workers and bounds: its states are well typed, and the cache with its   *)
(* mutex, its Delete and its Add implements EnvoyStore, crashes included.  *)
(***************************************************************************)
EXTENDS EnvoySnapshots, TLAPS

-----------------------------------------------------------------------------
(* The inductive invariant. *)

\* What a worker has in its hands at each step.
Shaped ==
  \A w \in Workers :
     /\ job[w].at # "idle" => job[w].key \in Keys
     /\ job[w].at = "publish" => snap[w] # NoSnapshot

\* Between Delete and Add a worker has the mutex, and nobody has put back the
\* entry it deleted.
Locked ==
  \A w \in Workers :
     /\ job[w].at = "add" <=> mu = w
     /\ job[w].at = "add" => ingresses[RootOf(job[w].key)] = NoEntry

IInv == TypeOK /\ Shaped /\ Locked

-----------------------------------------------------------------------------
(* The abstract cache. *)

LEMMA RootOfKeys == /\ \A k \in Keys : RootOf(k) \in Roots
                    /\ \A k \in LeafKeys : k \in Keys
                    /\ \A r \in Roots : LeafOf(r) \in LeafKeys /\ RootOf(LeafOf(r)) = r
<1>1. \A r \in Roots : LeafOf(r) \in LeafKeys /\ LeafOf(r) \notin Roots /\ LeafOf(r)[2] = r
  BY ConstantsAssumption DEF LeafKeys, LeafOf
<1>2. \A k \in LeafKeys : \E r \in Roots : k = LeafOf(r)
  BY DEF LeafKeys
<1>3. QED
  BY <1>1, <1>2 DEF RootOf, Keys

\* Nobody is between Delete and Add: the abstract entries are the cached ones.
LEMMA FreeEntries ==
  ASSUME ingresses \in Contents, \A w \in Workers : job[w].at # "add"
  PROVE  CacheEntries = ingresses
BY DEF CacheEntries, Contents

LEMMA FreeEntriesPrime ==
  ASSUME ingresses' \in Contents, \A w \in Workers : job'[w].at # "add"
  PROVE  CacheEntries' = ingresses'
BY DEF CacheEntries, Contents

LEMMA Unlocked ==
  ASSUME IInv, mu = Nobody
  PROVE  /\ \A w \in Workers : job[w].at # "add"
         /\ CacheEntries = ingresses
<1>1. \A w \in Workers : job[w].at # "add"
  BY ConstantsAssumption DEF IInv, Locked
<1>2. QED
  BY <1>1, FreeEntries DEF IInv, TypeOK

\* A worker that is not between Delete and Add leaves the abstract entries alone
\* as long as it leaves the cache alone.
LEMMA StepElsewhere ==
  ASSUME IInv, NEW w \in Workers,
         job[w].at # "add", job'[w].at # "add", \A v \in Workers : v # w => job'[v] = job[v],
         mu' = mu, ingresses' = ingresses
  PROVE  Locked' /\ CacheEntries' = CacheEntries
<1>1. \A v \in Workers : /\ job'[v].at = "add" <=> job[v].at = "add"
                         /\ job[v].at = "add" => job'[v] = job[v] /\ mu = v
  BY DEF IInv, Locked
<1>2. Locked'
  BY <1>1 DEF IInv, Locked
<1>3. ASSUME NEW r \in Roots
      PROVE  (IF \E v \in Workers : job'[v].at = "add" /\ RootOf(job'[v].key) = r
              THEN job'[mu'].entry ELSE ingresses'[r])
             = (IF \E v \in Workers : job[v].at = "add" /\ RootOf(job[v].key) = r
                THEN job[mu].entry ELSE ingresses[r])
  <2>1. CASE \E v \in Workers : job[v].at = "add" /\ RootOf(job[v].key) = r
    BY <2>1, <1>1
  <2>2. CASE ~ \E v \in Workers : job[v].at = "add" /\ RootOf(job[v].key) = r
    BY <2>2, <1>1
  <2>3. QED
    BY <2>1, <2>2
<1>4. QED
  BY <1>2, <1>3 DEF CacheEntries

LEMMA CacheUnchanged ==
  ASSUME IInv, TypeOK', UNCHANGED <<job, envoyVars>>
  PROVE  IInv' /\ UNCHANGED Store!vars
BY DEF IInv, Shaped, Locked, CacheEntries, envoyVars, Store!vars

LEMMA GotoJob ==
  ASSUME TypeOK, NEW w \in Workers, NEW step \in Steps, job' = [job EXCEPT ![w].at = step]
  PROVE  /\ job' \in [Workers -> Job]
         /\ job'[w] = [at |-> step, key |-> job[w].key, entry |-> job[w].entry]
         /\ \A v \in Workers : v # w => job'[v] = job[v]
<1>1. job \in [Workers -> Job]
  BY DEF TypeOK
<1>2. [job[w] EXCEPT !.at = step] = [at |-> step, key |-> job[w].key, entry |-> job[w].entry]
  BY <1>1 DEF Job
<1>3. job' = [job EXCEPT ![w] = [at |-> step, key |-> job[w].key, entry |-> job[w].entry]]
  BY <1>2
<1>4. QED
  BY <1>1, <1>3 DEF Job

LEMMA NewJob ==
  ASSUME TypeOK, NEW w \in Workers, NEW j \in Job, job' = [job EXCEPT ![w] = j]
  PROVE  /\ job' \in [Workers -> Job]
         /\ job'[w] = j
         /\ \A v \in Workers : v # w => job'[v] = job[v]
BY DEF TypeOK

-----------------------------------------------------------------------------
LEMMA InitIInv == Init => IInv
<1> SUFFICES ASSUME Init PROVE IInv
  OBVIOUS
<1>1. /\ roots \in [Roots -> Root \union {Gone}]
      /\ leaves \in [Roots -> Leaf \union {Gone}]
  <2>1. \A r \in Roots : InitialRules[r] # Gone => InitialRules[r] \in Rules
    BY ConstantsAssumption
  <2>2. \A r \in Roots : /\ roots[r] \in Root \union {Gone}
                         /\ leaves[r] \in Leaf \union {Gone}
    BY <2>1, ConstantsAssumption DEF Init, Root, Leaf, WithStatus
  <2>3. QED
    BY <2>2 DEF Init
<1>2. TypeOK
  BY <1>1, ConstantsAssumption DEF Init, TypeOK, Q!TypeOK, Contents, Job, NoJob, Steps
<1>3. Shaped /\ Locked
  BY ConstantsAssumption DEF Init, Shaped, Locked, NoJob
<1>4. QED
  BY <1>2, <1>3 DEF IInv

-----------------------------------------------------------------------------
(* Steps that leave the workers' jobs and the Envoy cache alone. *)

LEMMA ReconcileRootIInv ==
  ASSUME IInv, NEW w \in Workers, NEW r \in Roots, ReconcileRoot(w, r)
  PROVE  IInv' /\ UNCHANGED Store!vars
<1> DEFINE leaf == IF roots[r].rules = <<>> THEN Gone
                   ELSE WithStatus(roots[r], IF leaves[r] = Gone THEN {} ELSE leaves[r].lbs)
<1>1. leaf \in Leaf \union {Gone}
  BY DEF ReconcileRoot, IInv, TypeOK, Root, Leaf, WithStatus
<1>2. leaves' \in [Roots -> Leaf \union {Gone}]
  BY <1>1 DEF ReconcileRoot, IInv, TypeOK
<1>3. owed' \subseteq Keys /\ gaveUp' \subseteq Keys
  BY RootOfKeys DEF ReconcileRoot, IInv, TypeOK, Q!TypeOK
<1>4. UNCHANGED <<roots, status, revised, busy, envoyVars, job, up, counters>>
  BY DEF ReconcileRoot
<1>5. TypeOK'
  BY <1>2, <1>3, <1>4 DEF IInv, TypeOK, Q!TypeOK, envoyVars, counters
<1>6. QED
  BY <1>4, <1>5, CacheUnchanged

LEMMA RootNotFoundIInv ==
  ASSUME IInv, NEW w \in Workers, NEW r \in Roots, RootNotFound(w, r)
  PROVE  IInv' /\ UNCHANGED Store!vars
<1>1. owed' \subseteq Keys /\ gaveUp' \subseteq Keys
  BY RootOfKeys DEF RootNotFound, IInv, TypeOK, Q!TypeOK
<1>2. UNCHANGED <<outsideVars, status, revised, busy, envoyVars, job, up, counters>>
  BY DEF RootNotFound
<1>3. TypeOK'
  BY <1>1, <1>2 DEF IInv, TypeOK, Q!TypeOK, outsideVars, envoyVars, counters
<1>4. QED
  BY <1>2, <1>3, CacheUnchanged

LEMMA ResyncIInv == ASSUME IInv, Resync PROVE IInv' /\ UNCHANGED Store!vars
<1>1. TypeOK'
  BY DEF Resync, IInv, TypeOK, Q!TypeOK, outsideVars, envoyVars, counters
<1>2. QED
  BY <1>1, CacheUnchanged DEF Resync

LEMMA RestartIInv == ASSUME IInv, Restart PROVE IInv' /\ UNCHANGED Store!vars
<1>1. TypeOK'
  BY DEF Restart, IInv, TypeOK, Q!TypeOK, outsideVars, envoyVars, counters
<1>2. QED
  BY <1>1, CacheUnchanged DEF Restart

LEMMA ChangesBounded == ASSUME IInv, NEW r \in Roots, Outside(r) PROVE changes' \in 0 .. MaxChanges
BY ConstantsAssumption DEF Outside, IInv, TypeOK

\* What users and syncers change: the objects, and what is owed for them.
LEMMA OutsideIInv ==
  ASSUME IInv, NEW r \in Roots, Outside(r), revised' \subseteq Roots,
         roots' \in [Roots -> Root \union {Gone}], leaves' \in [Roots -> Leaf \union {Gone}],
         owed' \subseteq Keys, faults' \in 0 .. MaxFaults
  PROVE  IInv' /\ UNCHANGED Store!vars
<1>1. TypeOK'
  BY ChangesBounded DEF Outside, IInv, TypeOK, Q!TypeOK, envoyVars
<1>2. QED
  BY <1>1, CacheUnchanged DEF Outside

LEMMA CreateRootIInv ==
  ASSUME IInv, NEW r \in Roots, NEW rules \in RulesOf[r], CreateRoot(r, rules)
  PROVE  IInv' /\ UNCHANGED Store!vars
<1>1. [rules |-> rules, host |-> changes'] \in Root
  <2>1. changes' \in 0 .. MaxChanges
    BY ChangesBounded DEF CreateRoot
  <2>2. QED
    BY <2>1 DEF Root, Rules
<1>2. roots' \in [Roots -> Root \union {Gone}]
  BY <1>1 DEF CreateRoot, IInv, TypeOK
<1>3. owed' \subseteq Keys /\ UNCHANGED <<leaves, faults>>
  BY DEF CreateRoot, Enqueue, IInv, TypeOK, Q!TypeOK, Keys
<1>4. QED
  BY <1>2, <1>3, OutsideIInv DEF CreateRoot, IInv, TypeOK

LEMMA UpdateRootIInv ==
  ASSUME IInv, NEW r \in Roots, NEW rules \in RulesOf[r], UpdateRoot(r, rules)
  PROVE  IInv' /\ UNCHANGED Store!vars
<1>1. [roots[r] EXCEPT !.rules = rules] \in Root
  BY DEF UpdateRoot, IInv, TypeOK, Root, Rules
<1>2. roots' = [roots EXCEPT ![r] = [roots[r] EXCEPT !.rules = rules]]
  BY DEF UpdateRoot
<1>3. roots' \in [Roots -> Root \union {Gone}]
  BY <1>1, <1>2 DEF IInv, TypeOK
<1>4. owed' \subseteq Keys /\ UNCHANGED <<leaves, faults>>
  BY DEF UpdateRoot, Enqueue, IInv, TypeOK, Q!TypeOK, Keys
<1>5. QED
  BY <1>3, <1>4, OutsideIInv DEF UpdateRoot, IInv, TypeOK

LEMMA DeleteRootIInv ==
  ASSUME IInv, NEW r \in Roots, DeleteRoot(r)
  PROVE  IInv' /\ UNCHANGED Store!vars
<1>1. roots' \in [Roots -> Root \union {Gone}]
  BY DEF DeleteRoot, IInv, TypeOK
<1>2. owed' \subseteq Keys /\ faults' \in 0 .. MaxFaults /\ UNCHANGED leaves
  BY ConstantsAssumption DEF DeleteRoot, Enqueue, IInv, TypeOK, Q!TypeOK, Keys
<1>3. QED
  BY <1>1, <1>2, OutsideIInv DEF DeleteRoot, IInv, TypeOK

LEMMA ReportStatusIInv ==
  ASSUME IInv, NEW r \in Roots, NEW lbs \in SUBSET LoadBalancers, ReportStatus(r, lbs)
  PROVE  IInv' /\ UNCHANGED Store!vars
<1>1. [leaves[r] EXCEPT !.lbs = lbs] \in Leaf
  BY DEF ReportStatus, IInv, TypeOK, Leaf
<1>2. leaves' = [leaves EXCEPT ![r] = [leaves[r] EXCEPT !.lbs = lbs]]
  BY DEF ReportStatus
<1>3. leaves' \in [Roots -> Leaf \union {Gone}]
  BY <1>1, <1>2 DEF IInv, TypeOK
<1>4. owed' \subseteq Keys /\ UNCHANGED <<roots, faults>>
  BY RootOfKeys DEF ReportStatus, Enqueue, IInv, TypeOK, Q!TypeOK
<1>5. QED
  BY <1>3, <1>4, OutsideIInv DEF ReportStatus, IInv, TypeOK

-----------------------------------------------------------------------------
(* Steps of one worker. *)

\* Only the worker's own job has to be looked at.
ShapedJob(w) ==
  /\ job[w].at # "idle" => job[w].key \in Keys
  /\ job[w].at = "publish" => snap[w] # NoSnapshot

LEMMA OneJob ==
  ASSUME IInv, NEW w \in Workers, \A v \in Workers : v # w => job'[v] = job[v] /\ snap'[v] = snap[v],
         ShapedJob(w)'
  PROVE  Shaped'
BY DEF IInv, Shaped, ShapedJob

\* The end of a job, whatever becomes of its key.
LEMMA EndOfJob ==
  ASSUME IInv, NEW w \in Workers, job' = [job EXCEPT ![w] = NoJob], job[w].at # "add",
         owed' \subseteq Keys, busy' \subseteq Keys, gaveUp' \subseteq Keys, faults' \in 0 .. MaxFaults,
         published' \in Contents, snap' \in [Workers -> Contents \union {NoSnapshot}],
         \A v \in Workers : v # w => snap'[v] = snap[v],
         revised' \subseteq Roots, UNCHANGED <<outsideVars, mu, ingresses, up, changes>>
  PROVE  IInv' /\ CacheEntries' = CacheEntries
<1>1. NoJob \in Job
  BY DEF NoJob, Job, Steps
<1>2. /\ job' \in [Workers -> Job] /\ job'[w] = NoJob
      /\ \A v \in Workers : v # w => job'[v] = job[v]
  BY <1>1, NewJob DEF IInv
<1>3. TypeOK'
  BY <1>2 DEF IInv, TypeOK, Q!TypeOK, outsideVars
<1>4. Shaped'
  BY <1>2, OneJob DEF ShapedJob, NoJob
<1>5. Locked' /\ CacheEntries' = CacheEntries
  BY <1>2, StepElsewhere DEF NoJob
<1>6. QED
  BY <1>3, <1>4, <1>5 DEF IInv

LEMMA EndsTyped ==
  ASSUME IInv, NEW w \in Workers, job[w].key \in Keys,
         Succeed(w) \/ Fail(w) \/ RequeueAndForget(w)
  PROVE  /\ owed' \subseteq Keys /\ busy' \subseteq Keys /\ gaveUp' \subseteq Keys
         /\ job' = [job EXCEPT ![w] = NoJob]
BY DEF IInv, TypeOK, Q!TypeOK, Succeed, Fail, RequeueAndForget, Q!Finish

LEMMA ProcessDeletedIInv ==
  ASSUME IInv, NEW w \in Workers, NEW k \in Keys, ProcessDeleted(w, k)
  PROVE  /\ IInv'
         /\ \/ k \in Roots /\ Store!Update(k)
            \/ UNCHANGED Store!vars
<1> DEFINE j == [at |-> "take", key |-> k, entry |-> NoEntry]
<1>1. /\ job' = [job EXCEPT ![w] = j]
      /\ mu = Nobody /\ job[w].at = "idle"
      /\ ingresses' = IF k \in Roots THEN [ingresses EXCEPT ![k] = NoEntry] ELSE ingresses
      /\ UNCHANGED <<outsideVars, status, revised, gaveUp, mu, published, snap, up, counters>>
  BY DEF ProcessDeleted, Take
<1>2. j \in Job
  BY DEF Job, Steps
<1>3. /\ job' \in [Workers -> Job] /\ job'[w] = j
      /\ \A v \in Workers : v # w => job'[v] = job[v]
  BY <1>1, <1>2, NewJob DEF IInv
<1>4. ingresses \in Contents /\ ingresses' \in Contents
  BY <1>1 DEF IInv, TypeOK, Contents
<1>5. owed' \subseteq Keys /\ busy' \subseteq Keys
  BY DEF ProcessDeleted, Take, Q!Start, IInv, TypeOK, Q!TypeOK
<1>6. TypeOK'
  BY <1>1, <1>3, <1>4, <1>5 DEF IInv, TypeOK, Q!TypeOK, outsideVars, counters
<1>7. /\ \A v \in Workers : job[v].at # "add" /\ job'[v].at # "add"
      /\ CacheEntries = ingresses
  BY <1>1, <1>3, Unlocked
<1>8. CacheEntries' = ingresses'
  BY <1>4, <1>7, FreeEntriesPrime
<1>9. Shaped' /\ Locked'
  <2>1. Shaped'
    BY <1>1, <1>3, OneJob DEF ShapedJob
  <2>2. Locked'
    BY <1>1, <1>7, ConstantsAssumption DEF Locked
  <2>3. QED
    BY <2>1, <2>2
<1>10. CASE k \in Roots
  <2>1. CacheEntries' = [CacheEntries EXCEPT ![k] = NoEntry] /\ CacheEntries'[k] = NoEntry
    BY <1>1, <1>4, <1>7, <1>8, <1>10 DEF Contents
  <2>2. Store!Update(k)
    BY <1>1, <2>1 DEF Store!Update
  <2>3. QED
    BY <1>6, <1>9, <1>10, <2>2 DEF IInv
<1>11. CASE k \notin Roots
  BY <1>1, <1>6, <1>7, <1>8, <1>9, <1>11 DEF IInv, Store!vars
<1>12. QED
  BY <1>10, <1>11

LEMMA BeginLeafIInv ==
  ASSUME IInv, NEW w \in Workers, NEW r \in Roots, BeginLeaf(w, r)
  PROVE  IInv' /\ UNCHANGED Store!vars
<1> DEFINE j == [at |-> "update", key |-> LeafOf(r), entry |-> WithStatus(roots[r], leaves[r].lbs)]
<1>1. /\ job' = [job EXCEPT ![w] = j]
      /\ job[w].at = "idle"
      /\ revised' \subseteq revised
      /\ UNCHANGED <<outsideVars, status, gaveUp, envoyVars, up, counters>>
  BY DEF BeginLeaf, Take
<1>2. j \in Job
  <2>1. j.entry \in Entry
    BY DEF BeginLeaf, WithStatus, IInv, TypeOK, Root, Leaf, Entry
  <2>2. j.key \in Keys
    BY RootOfKeys
  <2>3. QED
    BY <2>1, <2>2 DEF Job, Steps
<1>3. /\ job' \in [Workers -> Job] /\ job'[w] = j
      /\ \A v \in Workers : v # w => job'[v] = job[v]
  BY <1>1, <1>2, NewJob DEF IInv
<1>4. owed' \subseteq Keys /\ busy' \subseteq Keys
  BY RootOfKeys DEF BeginLeaf, Take, Q!Start, IInv, TypeOK, Q!TypeOK
<1>5. TypeOK'
  BY <1>1, <1>3, <1>4 DEF IInv, TypeOK, Q!TypeOK, outsideVars, envoyVars, counters
<1>6. Shaped'
  <2>1. ShapedJob(w)'
    BY <1>3, RootOfKeys DEF ShapedJob
  <2>2. QED
    BY <1>1, <1>3, <2>1, OneJob DEF envoyVars
<1>7. Locked' /\ CacheEntries' = CacheEntries
  BY <1>1, <1>3, StepElsewhere DEF envoyVars
<1>8. QED
  BY <1>1, <1>5, <1>6, <1>7 DEF IInv, Store!vars, envoyVars

\* Delete under the mutex: the abstract entry is the new one at once.
LEMMA UpdateIngressIInv ==
  ASSUME IInv, NEW w \in Workers, UpdateIngress(w)
  PROVE  /\ IInv'
         /\ RootOf(job[w].key) \in Roots /\ Store!Update(RootOf(job[w].key))
<1> DEFINE r == RootOf(job[w].key)
<1>1. /\ job[w].at = "update" /\ mu = Nobody /\ mu' = w
      /\ ingresses' = [ingresses EXCEPT ![r] = NoEntry]
      /\ job' = [job EXCEPT ![w].at = "add"]
      /\ UNCHANGED <<queueVars, outsideVars, status, revised, published, snap, up, counters>>
  BY DEF UpdateIngress, Goto
<1>2. r \in Roots
  BY <1>1, RootOfKeys DEF IInv, Shaped
<1>3. /\ job' \in [Workers -> Job]
      /\ job'[w] = [at |-> "add", key |-> job[w].key, entry |-> job[w].entry]
      /\ \A v \in Workers : v # w => job'[v] = job[v]
  BY <1>1, GotoJob DEF IInv, Steps
<1>4. ingresses \in Contents /\ ingresses' \in Contents /\ job[w].entry \in Entry \union {NoEntry}
  BY <1>1 DEF IInv, TypeOK, Contents, Job
<1>5. TypeOK'
  BY <1>1, <1>3, <1>4 DEF IInv, TypeOK, Q!TypeOK, queueVars, outsideVars, counters
<1>6. Shaped'
  BY <1>1, <1>3, OneJob DEF ShapedJob, IInv, Shaped
<1>7. /\ \A v \in Workers : job[v].at # "add"
      /\ CacheEntries = ingresses
  BY <1>1, Unlocked
<1>8. Locked'
  <2>1. \A v \in Workers : v # w => job'[v].at # "add"
    BY <1>3, <1>7
  <2>2. ingresses'[r] = NoEntry /\ RootOf(job'[w].key) = r
    BY <1>1, <1>2, <1>3, <1>4 DEF Contents
  <2>3. QED
    BY <1>1, <1>3, <2>1, <2>2 DEF Locked
<1>9. CacheEntries' = [ingresses EXCEPT ![r] = job[w].entry]
  <2>1. \A s \in Roots : (\E v \in Workers : job'[v].at = "add" /\ RootOf(job'[v].key) = s) <=> s = r
    BY <1>3, <1>7
  <2>2. \A s \in Roots : s # r => ingresses'[s] = ingresses[s]
    BY <1>1, <1>4 DEF Contents
  <2>3. job'[mu'].entry = job[w].entry
    BY <1>1, <1>3
  <2>4. CacheEntries' = [s \in Roots |-> IF s = r THEN job[w].entry ELSE ingresses[s]]
    BY <2>1, <2>2, <2>3 DEF CacheEntries
  <2>5. QED
    BY <2>4, <1>4 DEF Contents
<1>10. Store!Update(r)
  <2>1. CacheEntries'[r] = job[w].entry
    BY <1>2, <1>4, <1>9 DEF Contents
  <2>2. CacheEntries' = [CacheEntries EXCEPT ![r] = CacheEntries'[r]]
    BY <1>7, <1>9, <2>1
  <2>3. QED
    BY <1>1, <1>4, <2>1, <2>2 DEF Store!Update
<1>11. QED
  BY <1>2, <1>5, <1>6, <1>8, <1>10 DEF IInv

\* Add and Unlock: nobody has added the entry meanwhile, so the cache catches up
\* with the abstract entries.
LEMMA AddIInv ==
  ASSUME IInv, NEW w \in Workers, Add(w) PROVE IInv' /\ UNCHANGED Store!vars
<1> DEFINE r == RootOf(job[w].key)
<1>1. job[w].at = "add" /\ mu = w /\ r \in Roots /\ ingresses[r] = NoEntry
  BY RootOfKeys DEF Add, IInv, Shaped, Locked
<1>2. /\ ingresses' = [ingresses EXCEPT ![r] = job[w].entry]
      /\ mu' = Nobody
      /\ job' = [job EXCEPT ![w].at = "take"]
      /\ UNCHANGED <<queueVars, outsideVars, status, revised, published, snap, up, counters>>
  BY <1>1 DEF Add, Goto
<1>3. /\ job' \in [Workers -> Job]
      /\ job'[w] = [at |-> "take", key |-> job[w].key, entry |-> job[w].entry]
      /\ \A v \in Workers : v # w => job'[v] = job[v]
  BY <1>2, GotoJob DEF IInv, Steps
<1>4. ingresses \in Contents /\ ingresses' \in Contents
  BY <1>2 DEF IInv, TypeOK, Contents, Job
<1>5. TypeOK'
  BY <1>2, <1>3, <1>4 DEF IInv, TypeOK, Q!TypeOK, queueVars, outsideVars, counters
<1>6. Shaped'
  BY <1>1, <1>2, <1>3, OneJob DEF ShapedJob, IInv, Shaped
<1>7. \A v \in Workers : v # w => job[v].at # "add"
  BY <1>1 DEF IInv, Locked
<1>8. \A v \in Workers : job'[v].at # "add"
  BY <1>3, <1>7
<1>9. Locked'
  BY <1>2, <1>8, ConstantsAssumption DEF Locked
<1>10. CacheEntries' = CacheEntries
  <2>1. CacheEntries' = ingresses'
    BY <1>4, <1>8, FreeEntriesPrime
  <2>2. \A s \in Roots : (\E v \in Workers : job[v].at = "add" /\ RootOf(job[v].key) = s) <=> s = r
    BY <1>1, <1>7
  <2>3. CacheEntries = [s \in Roots |-> IF s = r THEN job[w].entry ELSE ingresses[s]]
    BY <2>2, <1>1 DEF CacheEntries
  <2>4. QED
    BY <2>1, <2>3, <1>2, <1>4 DEF Contents
<1>11. QED
  BY <1>2, <1>5, <1>6, <1>9, <1>10 DEF IInv, Store!vars

LEMMA TakeSnapshotIInv ==
  ASSUME IInv, NEW w \in Workers, TakeSnapshot(w) PROVE IInv' /\ Store!Take(w)
<1>1. /\ job[w].at = "take" /\ mu = Nobody
      /\ snap' = [snap EXCEPT ![w] = ingresses]
      /\ job' = [job EXCEPT ![w].at = "publish"]
      /\ UNCHANGED <<queueVars, outsideVars, status, revised, mu, ingresses, published, up, counters>>
  BY DEF TakeSnapshot, Goto
<1>2. /\ job' \in [Workers -> Job]
      /\ job'[w] = [at |-> "publish", key |-> job[w].key, entry |-> job[w].entry]
      /\ \A v \in Workers : v # w => job'[v] = job[v]
  BY <1>1, GotoJob DEF IInv, Steps
<1>3. ingresses \in Contents /\ ingresses # NoSnapshot
  BY ConstantsAssumption DEF IInv, TypeOK
<1>4. /\ snap' \in [Workers -> Contents \union {NoSnapshot}] /\ snap'[w] # NoSnapshot
      /\ \A v \in Workers : v # w => snap'[v] = snap[v]
  BY <1>1, <1>3 DEF IInv, TypeOK
<1>5. TypeOK'
  BY <1>1, <1>2, <1>3, <1>4 DEF IInv, TypeOK, Q!TypeOK, queueVars, outsideVars, counters
<1>6. Shaped'
  <2>1. job[w].key \in Keys
    BY <1>1 DEF IInv, Shaped
  <2>2. ShapedJob(w)'
    BY <1>2, <1>4, <2>1 DEF ShapedJob
  <2>3. QED
    BY <1>2, <1>4, <2>2, OneJob
<1>7. CacheEntries = ingresses
  BY <1>1, Unlocked
<1>8. Locked' /\ CacheEntries' = CacheEntries
  BY <1>1, <1>2, StepElsewhere
<1>9. Store!Take(w)
  BY <1>1, <1>7, <1>8 DEF Store!Take
<1>10. QED
  BY <1>5, <1>6, <1>8, <1>9 DEF IInv

LEMMA SetSnapshotIInv ==
  ASSUME IInv, NEW w \in Workers, SetSnapshot(w) PROVE IInv' /\ Store!Publish(w)
<1>1. /\ job[w].at = "publish"
      /\ published' = snap[w]
      /\ snap' = [snap EXCEPT ![w] = NoSnapshot]
      /\ UNCHANGED <<outsideVars, status, revised, mu, ingresses, up, counters>>
  BY DEF SetSnapshot
<1>2. snap[w] # NoSnapshot /\ job[w].key \in Keys
  BY <1>1 DEF IInv, Shaped
<1>3. /\ published' \in Contents /\ snap' \in [Workers -> Contents \union {NoSnapshot}]
      /\ \A v \in Workers : v # w => snap'[v] = snap[v]
  BY <1>1, <1>2 DEF IInv, TypeOK
<1>4. IInv' /\ CacheEntries' = CacheEntries
  <2>1. CASE Succeed(w)
    BY <1>1, <1>2, <1>3, <2>1, EndsTyped, EndOfJob DEF counters, IInv, TypeOK
  <2>2. CASE Goto(w, "status")
    <3>1. /\ job' \in [Workers -> Job]
          /\ job'[w] = [at |-> "status", key |-> job[w].key, entry |-> job[w].entry]
          /\ \A v \in Workers : v # w => job'[v] = job[v]
      BY <2>2, GotoJob DEF IInv, Steps, Goto
    <3>2. TypeOK'
      BY <1>1, <1>3, <2>2, <3>1 DEF IInv, TypeOK, Q!TypeOK, Goto, queueVars, outsideVars, counters
    <3>3. Shaped'
      BY <1>2, <1>3, <3>1, OneJob DEF ShapedJob
    <3>4. Locked' /\ CacheEntries' = CacheEntries
      BY <1>1, <3>1, StepElsewhere
    <3>5. QED
      BY <3>2, <3>3, <3>4 DEF IInv
  <2>3. QED
    BY <2>1, <2>2 DEF SetSnapshot
<1>5. Store!Publish(w)
  BY <1>1, <1>2, <1>4 DEF Store!Publish
<1>6. QED
  BY <1>4, <1>5

LEMMA UpdateStatusIInv ==
  ASSUME IInv, NEW w \in Workers, UpdateStatus(w) PROVE IInv' /\ UNCHANGED Store!vars
<1>1. /\ job[w].at = "status"
      /\ Succeed(w) \/ RequeueAndForget(w) \/ Fail(w)
      /\ UNCHANGED <<outsideVars, revised, envoyVars, up, counters>>
  BY DEF UpdateStatus
<1>2. job[w].key \in Keys
  BY <1>1 DEF IInv, Shaped
<1>3. IInv' /\ CacheEntries' = CacheEntries
  BY <1>1, <1>2, EndsTyped, EndOfJob DEF envoyVars, counters, IInv, TypeOK
<1>4. QED
  BY <1>1, <1>3 DEF envoyVars, Store!vars

LEMMA CallFailsIInv ==
  ASSUME IInv, NEW w \in Workers, CallFails(w) PROVE IInv' /\ UNCHANGED Store!vars
<1>1. /\ job[w].at \in {"update", "status"}
      /\ Fail(w)
      /\ faults < MaxFaults /\ faults' = faults + 1
      /\ UNCHANGED <<outsideVars, status, revised, envoyVars, up, changes>>
  BY DEF CallFails
<1>2. job[w].key \in Keys /\ faults' \in 0 .. MaxFaults
  BY <1>1, ConstantsAssumption DEF IInv, TypeOK, Shaped
<1>3. IInv' /\ CacheEntries' = CacheEntries
  BY <1>1, <1>2, EndsTyped, EndOfJob DEF envoyVars, IInv, TypeOK
<1>4. QED
  BY <1>1, <1>3 DEF envoyVars, Store!vars

-----------------------------------------------------------------------------
(* The process dies: killed, or of a panic. *)

LEMMA DieIInv ==
  ASSUME IInv, Die, faults' \in 0 .. MaxFaults, UNCHANGED changes PROVE IInv' /\ Store!Crash
<1>1. /\ ingresses' = [r \in Roots |-> NoEntry] /\ snap' = [w \in Workers |-> NoSnapshot]
      /\ job' = [w \in Workers |-> NoJob] /\ mu' = Nobody
      /\ UNCHANGED <<outsideVars, status, revised, published>>
  BY DEF Die
<1>2. ingresses' \in Contents /\ \A w \in Workers : job'[w] = NoJob
  BY <1>1 DEF Contents
<1>3. TypeOK'
  <2>1. NoJob \in Job
    BY DEF NoJob, Job, Steps
  <2>2. /\ job' \in [Workers -> Job] /\ mu' \in Workers \union {Nobody}
        /\ snap' \in [Workers -> Contents \union {NoSnapshot}]
    BY <1>1, <2>1
  <2>3. owed' = {} /\ busy' = {} /\ gaveUp' = {} /\ up' \in BOOLEAN
    BY DEF Die
  <2>4. QED
    BY <1>1, <1>2, <2>2, <2>3 DEF IInv, TypeOK, Q!TypeOK, outsideVars
<1>4. Shaped' /\ Locked'
  BY <1>1, <1>2, ConstantsAssumption DEF Shaped, Locked, NoJob
<1>5. CacheEntries' = ingresses'
  BY <1>2, FreeEntriesPrime DEF NoJob
<1>6. QED
  BY <1>1, <1>3, <1>4, <1>5 DEF IInv, Store!Crash

LEMMA KillIInv == ASSUME IInv, Kill PROVE IInv' /\ Store!Crash
<1>1. faults' \in 0 .. MaxFaults
  BY ConstantsAssumption DEF Kill, IInv, TypeOK
<1>2. QED
  BY <1>1, DieIInv DEF Kill

LEMMA PanicIInv ==
  ASSUME IInv, NEW w \in Workers, Panic(w) \/ \E r \in Roots : PanicOnRoot(w, r)
  PROVE  IInv' /\ Store!Crash
<1>1. Die /\ UNCHANGED counters
  BY DEF Panic, PanicOnRoot
<1>2. QED
  BY <1>1, DieIInv DEF counters, IInv, TypeOK

-----------------------------------------------------------------------------

LEMMA NextIInv == IInv /\ [Next]_vars => IInv' /\ [Store!Next]_(Store!vars)
<1> SUFFICES ASSUME IInv, [Next]_vars PROVE IInv' /\ [Store!Next]_(Store!vars)
  OBVIOUS
<1> USE DEF Store!Next
<1>1. ASSUME NEW w \in Workers, Worker(w) \/ CallFails(w)
      PROVE  IInv' /\ [Store!Next]_(Store!vars)
  BY <1>1, UpdateIngressIInv, AddIInv, TakeSnapshotIInv, SetSnapshotIInv, UpdateStatusIInv,
     PanicIInv, CallFailsIInv DEF Worker
<1>2. ASSUME NEW w \in Workers, NEW k \in Keys, Begin(w, k)
      PROVE  IInv' /\ [Store!Next]_(Store!vars)
  <2>1. CASE ProcessDeleted(w, k)
    BY <2>1, ProcessDeletedIInv
  <2>2. CASE k \in Roots /\ (ReconcileRoot(w, k) \/ PanicOnRoot(w, k))
    BY <2>2, ReconcileRootIInv, PanicIInv
  <2>3. CASE k \in LeafKeys /\ (BeginLeaf(w, k[2]) \/ RootNotFound(w, k[2]))
    <3>1. k[2] \in Roots
      BY <2>3 DEF LeafKeys, LeafOf
    <3>2. QED
      BY <2>3, <3>1, BeginLeafIInv, RootNotFoundIInv
  <2>4. QED
    BY <1>2, <2>1, <2>2, <2>3 DEF Begin
<1>3. CASE Resync \/ Kill \/ Restart
  BY <1>3, ResyncIInv, KillIInv, RestartIInv
<1>4. ASSUME NEW r \in Roots,
             \/ DeleteRoot(r)
             \/ \E rules \in RulesOf[r] : CreateRoot(r, rules) \/ UpdateRoot(r, rules)
             \/ \E lbs \in SUBSET LoadBalancers : ReportStatus(r, lbs)
      PROVE  IInv' /\ [Store!Next]_(Store!vars)
  BY <1>4, DeleteRootIInv, CreateRootIInv, UpdateRootIInv, ReportStatusIInv
<1>5. CASE UNCHANGED vars
  <2>1. UNCHANGED <<outsideVars, status, revised, queueVars, envoyVars, job, up, counters>>
    BY <1>5 DEF vars
  <2>2. TypeOK'
    BY <2>1 DEF IInv, TypeOK, Q!TypeOK, outsideVars, queueVars, envoyVars, counters
  <2>3. QED
    BY <2>1, <2>2, CacheUnchanged
<1>6. QED
  BY <1>1, <1>2, <1>3, <1>4, <1>5 DEF Next

\* The invariant the others follow from: a worker that has the mutex is the only
\* one between Delete and Add, its entry is out of the cache, and a worker that is
\* to publish has a snapshot.
THEOREM InductiveInvariant == Spec => []IInv
<1>1. IInv /\ [Next]_vars => IInv'
  BY NextIInv
<1>2. QED
  BY InitIInv, <1>1, PTL DEF Spec

\* Every reachable state of the workers, the Envoy cache and the snapshots is
\* well typed.
THEOREM TypeCorrect == Spec => []TypeOK
<1>1. IInv => TypeOK
  BY DEF IInv
<1>2. QED
  BY <1>1, InductiveInvariant, PTL

\* UpdateIngress, DeleteIngress, ToEnvoySnapshot and SetSnapshot, for any number
\* of roots and workers, failures, panics and restarts: an update of the cache
\* takes effect at once, a snapshot is of one moment, and what is published was
\* taken by the worker that publishes it.
THEOREM RefinesEnvoyStore == Spec => ImplementsEnvoyStore
<1>1. Init => Store!Init
  <2> SUFFICES ASSUME Init PROVE Store!Init
    OBVIOUS
  <2>1. IInv /\ \A w \in Workers : job[w].at # "add"
    BY InitIInv DEF Init, NoJob
  <2>2. CacheEntries = ingresses
    BY <2>1, FreeEntries DEF IInv, TypeOK
  <2>3. QED
    BY <2>2 DEF Init, Store!Init
<1>2. IInv /\ [Next]_vars => [Store!Next]_(Store!vars)
  BY NextIInv
<1>3. QED
  BY <1>1, <1>2, InductiveInvariant, PTL DEF Spec, ImplementsEnvoyStore, Store!Spec
=============================================================================
