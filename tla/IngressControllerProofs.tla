----------------------- MODULE IngressControllerProofs ----------------------
(***************************************************************************)
(* Proofs about IngressController, for any roots, clusters, Services,      *)
(* workers and bounds and whatever the users do: every variable keeps its  *)
(* type, and once everything is quiet a live root that was not dropped is  *)
(* tracked by every Service of its rules, so that a change of one of them  *)
(* reaches it.                                                             *)
(***************************************************************************)
EXTENDS IngressController, TLAPS

-----------------------------------------------------------------------------
(* The inductive invariant. *)

\* What a job carries at each step, whoever's job it is.
JobShape(j) ==
  /\ j.at = "idle" <=> j.key = NoKey
  /\ j.at \in RootSteps => j.key \in Roots
  /\ j.at \in LeafSteps => j.key \in Leaves
  /\ j.at = "get" => j.left # <<>> /\ j.rules # <<>>
  /\ j.at = "track" => j.left # <<>>
  /\ j.at \in {"create", "read", "update"} => j.want # <<>>

\* A job on a root that has not been added again since works on the rules the
\* indexer holds, and its Services are tracked as far as it has come.
JobTracked(j, owed, cached, tracked) ==
  j.key \in Roots /\ j.key \notin owed =>
    /\ j.rules = cached[j.key].rules
    /\ j.at = "track" => \A s \in Range(j.rules) \ Range(j.left) : j.key \in tracked[s]
    /\ j.at \notin {"patch", "list", "get", "track"} =>
         \A s \in Range(j.rules) : j.key \in tracked[s]

JobsShaped == \A w \in Workers : JobShape(job[w])

JobsTracked == \A w \in Workers : JobTracked(job[w], todo, cachedRoots, trackedServices)

\* The work queue hands a key to one worker at a time.
KeysExclusive == \A v, w \in Workers : v # w /\ job[v].key # NoKey => job[v].key # job[w].key

\* A root of the indexer that nobody owes or holds, and that was not dropped, is
\* tracked by its Services.
TrackedOrPending ==
  \A r \in Roots : cachedRoots[r].live /\ r \notin todo /\ r \notin gaveUp /\ r \notin Busy
                   => \A s \in Range(cachedRoots[r].rules) : r \in trackedServices[s]

\* A root without a pending event is in the indexer as it is in the API server.
CachedRootsCurrent ==
  \A r \in Roots : (\A i \in 1 .. Len(events) : events[i] # r) => cachedRoots[r] = roots[r]

IInv == /\ TypeOK
        /\ JobsShaped
        /\ JobsTracked
        /\ KeysExclusive
        /\ TrackedOrPending
        /\ CachedRootsCurrent

-----------------------------------------------------------------------------
(* Data. *)

LEMMA Disjoint == /\ NoKey \notin Roots /\ NoKey \notin Leaves
                  /\ \A r \in Roots : r \notin Leaves
BY ConstantsAssumption DEF Keys

LEMMA NoObjects ==
  ASSUME NEW n \in Nat
  PROVE  NoRoot(n) \in RootObject /\ NoLeaf(n) \in LeafObject
BY DEF NoRoot, RootObject, NoLeaf, LeafObject, Hostname

LEMMA RootFields ==
  ASSUME NEW obj \in RootObject
  PROVE  /\ \A n \in Nat : [obj EXCEPT !.host = n] \in RootObject
         /\ \A rs \in Seq(Services) : [obj EXCEPT !.rules = rs] \in RootObject
         /\ \A lbs \in SUBSET LoadBalancers : [obj EXCEPT !.status = lbs] \in RootObject
BY DEF RootObject, Hostname

\* An object that is written takes a new version.
LEMMA NewVersions ==
  /\ \A obj \in RootObject : [obj EXCEPT !.rv = @ + 1] \in RootObject
  /\ \A obj \in LeafObject : [obj EXCEPT !.rv = @ + 1] \in LeafObject
BY DEF RootObject, LeafObject

LEMMA NoJobIsJob == NoJob \in Job /\ JobShape(NoJob)
BY Disjoint DEF NoJob, Job, JobShape, Hostname, RootSteps, LeafSteps

LEMMA BumpType == \A n \in 0 .. MaxRetries : Bump(n) \in 0 .. MaxRetries
BY ConstantsAssumption DEF Bump

\* The elements of a sequence are those of its head and its tail.
LEMMA RangeTail ==
  ASSUME NEW S, NEW q \in Seq(S), q # <<>>
  PROVE  /\ Len(q) \in Nat \ {0}
         /\ Head(q) \in S
         /\ Tail(q) \in Seq(S)
         /\ Range(q) \subseteq S
         /\ Len(q) > 1 => Tail(q) # <<>>
         /\ \A x \in Range(q) : x = Head(q) \/ x \in Range(Tail(q))
<1>1. /\ Len(q) \in Nat \ {0}
      /\ Head(q) = q[1]
      /\ DOMAIN q = 1 .. Len(q)
      /\ \A i \in 1 .. Len(q) : q[i] \in S
      /\ Tail(q) \in Seq(S)
      /\ Len(Tail(q)) = Len(q) - 1
      /\ DOMAIN Tail(q) = 1 .. Len(q) - 1
      /\ \A i \in 1 .. Len(q) - 1 : Tail(q)[i] = q[i + 1]
  OBVIOUS
<1>2. ASSUME NEW x \in Range(q), x # Head(q)
      PROVE  x \in Range(Tail(q))
  <2>1. PICK i \in 1 .. Len(q) : q[i] = x
    BY <1>1 DEF Range
  <2>2. i - 1 \in 1 .. Len(q) - 1 /\ Tail(q)[i - 1] = x
    BY <1>1, <1>2, <2>1
  <2>3. QED
    BY <1>1, <2>2 DEF Range
<1>3. Head(q) \in S /\ Range(q) \subseteq S
  BY <1>1 DEF Range
<1>4. QED
  BY <1>1, <1>2, <1>3

-----------------------------------------------------------------------------
(* Writing the API server. *)

Pending(k, queue) == \E i \in 1 .. Len(queue) : queue[i] = k

LEMMA EmitPends ==
  ASSUME events \in Seq(Keys), NEW k \in Keys, Emit(k)
  PROVE  /\ events' \in Seq(Keys)
         /\ Pending(k, events')
         /\ \A x : Pending(x, events) => Pending(x, events')
<1>1. CASE Pending(k, events)
  BY <1>1 DEF Emit, Pending
<1>2. CASE ~ Pending(k, events)
  <2>1. events' = Append(events, k)
    BY <1>2 DEF Emit, Pending
  <2>2. /\ Len(events') = Len(events) + 1
        /\ events'[Len(events) + 1] = k
        /\ \A i \in 1 .. Len(events) : events'[i] = events[i]
        /\ events' \in Seq(Keys)
        /\ Len(events) \in Nat
    BY <2>1
  <2>3. QED
    BY <2>2 DEF Pending
<1>3. QED
  BY <1>1, <1>2

\* A write to a root keeps the types, and a root that changes is pending.
LEMMA WriteRootOK ==
  ASSUME TypeOK, CachedRootsCurrent, NEW r \in Roots, NEW obj \in RootObject,
         WriteRoot(r, obj), UNCHANGED cachedRoots
  PROVE  roots' \in [Roots -> RootObject] /\ events' \in Seq(Keys) /\ CachedRootsCurrent'
<1>1. CASE obj = roots[r]
  BY <1>1 DEF WriteRoot, TypeOK, CachedRootsCurrent
<1>2. CASE obj # roots[r]
  <2>1. roots' = [roots EXCEPT ![r] = [obj EXCEPT !.rv = @ + 1]] /\ Emit(r)
    BY <1>2 DEF WriteRoot
  <2>2. /\ events' \in Seq(Keys)
        /\ Pending(r, events')
        /\ \A x : Pending(x, events) => Pending(x, events')
    BY <2>1, EmitPends DEF TypeOK, Keys
  <2>3. roots' \in [Roots -> RootObject]
    BY <2>1, NewVersions DEF TypeOK
  <2>4. CachedRootsCurrent'
    BY <2>1, <2>2 DEF CachedRootsCurrent, Pending, TypeOK
  <2>5. QED
    BY <2>2, <2>3, <2>4
<1>3. QED
  BY <1>1, <1>2

\* A write to a leaf keeps the types, and no root's event is lost by it.
LEMMA WriteLeafOK ==
  ASSUME TypeOK, CachedRootsCurrent, NEW l \in Leaves, NEW obj \in LeafObject,
         WriteLeaf(l, obj), UNCHANGED <<roots, cachedRoots>>
  PROVE  leaves' \in [Leaves -> LeafObject] /\ events' \in Seq(Keys) /\ CachedRootsCurrent'
<1>1. CASE obj = leaves[l]
  BY <1>1 DEF WriteLeaf, TypeOK, CachedRootsCurrent
<1>2. CASE obj # leaves[l]
  <2>1. leaves' = [leaves EXCEPT ![l] = [obj EXCEPT !.rv = @ + 1]] /\ Emit(l)
    BY <1>2 DEF WriteLeaf
  <2>2. /\ events' \in Seq(Keys)
        /\ \A x : Pending(x, events) => Pending(x, events')
    BY <2>1, EmitPends DEF TypeOK, Keys
  <2>3. leaves' \in [Leaves -> LeafObject]
    BY <2>1, NewVersions DEF TypeOK
  <2>4. CachedRootsCurrent'
    BY <2>2 DEF CachedRootsCurrent, Pending
  <2>5. QED
    BY <2>2, <2>3, <2>4
<1>3. QED
  BY <1>1, <1>2

-----------------------------------------------------------------------------
(* The ends of a step: the job goes on, succeeds, fails or is requeued. *)

\* The part of the invariant that jobs and the work queue are in.
JobsAndQueue == /\ job \in [Workers -> Job]
                /\ todo \subseteq Keys
                /\ failures \in [Keys -> 0 .. MaxRetries]
                /\ gaveUp \subseteq Keys
                /\ JobsShaped
                /\ JobsTracked
                /\ KeysExclusive
                /\ TrackedOrPending

\* A worker that is not idle has a key, and no other worker has it.
LEMMA OwnKey ==
  ASSUME IInv, NEW w \in Workers, job[w].at # "idle"
  PROVE  /\ job[w].key \in Keys
         /\ job[w].key # NoKey
         /\ job[w] \in Job
         /\ \A v \in Workers : v # w => job[v].key # job[w].key
BY Disjoint DEF IInv, TypeOK, JobsShaped, JobShape, KeysExclusive, Job, Keys

LEMMA TrackingGrows ==
  ASSUME NEW j \in Job, NEW owed, NEW owed2, NEW cached, NEW tracked, NEW tracked2,
         owed \subseteq owed2,
         \A s \in Services : tracked[s] \subseteq tracked2[s],
         JobTracked(j, owed, cached, tracked)
  PROVE  JobTracked(j, owed2, cached, tracked2)
<1>1. Range(j.rules) \subseteq Services
  BY DEF Job, Range
<1>2. QED
  BY <1>1 DEF JobTracked

LEMMA StayOK ==
  ASSUME IInv, NEW w \in Workers, NEW j \in Job, job[w].at # "idle",
         job' = [job EXCEPT ![w] = j],
         UNCHANGED <<queueVars, cachedRoots>>,
         \A s \in Services : trackedServices[s] \subseteq trackedServices'[s],
         j.key = job[w].key, JobShape(j),
         JobTracked(j, todo, cachedRoots, trackedServices')
  PROVE  JobsAndQueue'
<1>1. /\ job \in [Workers -> Job]
      /\ todo' = todo /\ failures' = failures /\ gaveUp' = gaveUp /\ cachedRoots' = cachedRoots
      /\ todo \subseteq Keys /\ failures \in [Keys -> 0 .. MaxRetries] /\ gaveUp \subseteq Keys
  BY DEF IInv, TypeOK, queueVars
<1>2. job' \in [Workers -> Job]
  BY <1>1
<1>3. \A v \in Workers : job'[v].key = job[v].key
  BY <1>1
<1>4. JobsShaped'
  BY <1>1 DEF IInv, JobsShaped
<1>5. JobsTracked'
  <2> SUFFICES ASSUME NEW v \in Workers
               PROVE  JobTracked(job'[v], todo', cachedRoots', trackedServices')
    BY DEF JobsTracked
  <2>1. CASE v = w
    BY <1>1, <2>1
  <2>2. CASE v # w
    <3>1. job'[v] = job[v] /\ job[v] \in Job
      BY <1>1, <2>2
    <3>2. JobTracked(job[v], todo, cachedRoots, trackedServices)
      BY DEF IInv, JobsTracked
    <3>3. QED
      BY <1>1, <3>1, <3>2, TrackingGrows
  <2>3. QED
    BY <2>1, <2>2
<1>6. KeysExclusive'
  BY <1>3 DEF IInv, KeysExclusive
<1>7. TrackedOrPending'
  <2>1. Busy' = Busy
    BY <1>3 DEF Busy
  <2>2. \A r \in Roots : Range(cachedRoots[r].rules) \subseteq Services
    BY DEF IInv, TypeOK, RootObject, Range
  <2>3. QED
    BY <1>1, <2>1, <2>2 DEF IInv, TrackedOrPending
<1>8. QED
  BY <1>1, <1>2, <1>4, <1>5, <1>6, <1>7 DEF JobsAndQueue

\* The worker becomes idle; its key is owed, dropped, or tracked.
LEMMA IdleOK ==
  ASSUME IInv, NEW w \in Workers, job[w].at # "idle",
         job' = [job EXCEPT ![w] = NoJob],
         UNCHANGED cachedRoots,
         \A s \in Services : trackedServices[s] \subseteq trackedServices'[s],
         failures' \in [Keys -> 0 .. MaxRetries],
         todo' \subseteq Keys, todo \subseteq todo',
         gaveUp' \subseteq Keys, gaveUp \ {job[w].key} \subseteq gaveUp',
         job[w].key \in Roots /\ cachedRoots[job[w].key].live
           => \/ job[w].key \in todo' \union gaveUp'
              \/ \A s \in Range(cachedRoots[job[w].key].rules) : job[w].key \in trackedServices'[s]
  PROVE  JobsAndQueue'
<1> DEFINE k == job[w].key
<1>1. job \in [Workers -> Job] /\ NoJob \in Job /\ JobShape(NoJob) /\ NoJob.key = NoKey
  BY NoJobIsJob DEF IInv, TypeOK, NoJob
<1>2. /\ job' \in [Workers -> Job]
      /\ job'[w] = NoJob
      /\ \A v \in Workers : v # w => job'[v] = job[v]
  BY <1>1
<1>3. JobsShaped'
  BY <1>1, <1>2 DEF IInv, JobsShaped
<1>4. JobsTracked'
  <2> SUFFICES ASSUME NEW v \in Workers
               PROVE  JobTracked(job'[v], todo', cachedRoots', trackedServices')
    BY DEF JobsTracked
  <2>1. CASE v = w
    BY <1>1, <1>2, <2>1, Disjoint DEF JobTracked
  <2>2. CASE v # w
    <3>1. job'[v] = job[v] /\ job[v] \in Job
      BY <1>1, <1>2, <2>2
    <3>2. JobTracked(job[v], todo, cachedRoots, trackedServices)
      BY DEF IInv, JobsTracked
    <3>3. QED
      BY <3>1, <3>2, TrackingGrows
  <2>3. QED
    BY <2>1, <2>2
<1>5. KeysExclusive'
  BY <1>1, <1>2 DEF IInv, KeysExclusive
<1>6. TrackedOrPending'
  <2> SUFFICES ASSUME NEW r \in Roots, cachedRoots[r].live, r \notin todo', r \notin gaveUp',
                      r \notin Busy', NEW s \in Range(cachedRoots[r].rules)
               PROVE  r \in trackedServices'[s]
    BY DEF TrackedOrPending
  <2>1. s \in Services
    BY DEF IInv, TypeOK, RootObject, Range
  <2>2. CASE r = k
    BY <2>2
  <2>3. CASE r # k
    <3>1. r \notin Busy /\ r \notin todo /\ r \notin gaveUp
      BY <1>2, <2>3 DEF Busy
    <3>2. QED
      BY <2>1, <3>1 DEF IInv, TrackedOrPending
  <2>4. QED
    BY <2>2, <2>3
<1>7. QED
  BY <1>2, <1>3, <1>4, <1>5, <1>6 DEF JobsAndQueue

LEMMA EnqueueTypes ==
  ASSUME TypeOK, NEW ks \in SUBSET Keys, Enqueue(ks)
  PROVE  /\ failures' \in [Keys -> 0 .. MaxRetries]
         /\ todo' \subseteq Keys /\ todo \subseteq todo' /\ ks \subseteq todo'
         /\ gaveUp' = gaveUp
BY BumpType DEF TypeOK, Enqueue

LEMMA FailOK ==
  ASSUME IInv, NEW w \in Workers, job[w].at # "idle", Fail(w),
         UNCHANGED <<cachedRoots, trackedServices>>
  PROVE  JobsAndQueue'
<1> DEFINE k == job[w].key
<1>1. k \in Keys
  BY OwnKey
<1> HIDE DEF k
<1>2. TypeOK /\ failures \in [Keys -> 0 .. MaxRetries] /\ todo \subseteq Keys /\ gaveUp \subseteq Keys
  BY DEF IInv, TypeOK
<1>3. /\ job' = [job EXCEPT ![w] = NoJob]
      /\ failures' \in [Keys -> 0 .. MaxRetries]
      /\ todo' \subseteq Keys /\ todo \subseteq todo'
      /\ gaveUp' \subseteq Keys /\ gaveUp \subseteq gaveUp'
      /\ k \in todo' \union gaveUp'
  <2>1. CASE failures[k] < MaxRetries /\ Enqueue({k})
    BY <1>1, <1>2, <2>1, EnqueueTypes DEF Fail, k
  <2>2. CASE ~ (failures[k] < MaxRetries /\ Enqueue({k}))
    BY <1>1, <1>2, <2>2, ConstantsAssumption DEF Fail, k
  <2>3. QED
    BY <2>1, <2>2
<1>4. QED
  BY <1>3, IdleOK DEF k

\* Only a leaf is requeued this way.
LEMMA RequeueOK ==
  ASSUME IInv, NEW w \in Workers, job[w].at # "idle", RequeueAndForget(w),
         UNCHANGED <<cachedRoots, trackedServices>>
  PROVE  JobsAndQueue'
<1> DEFINE k == job[w].key
<1>1. k \in Keys
  BY OwnKey
<1>2. TypeOK /\ failures \in [Keys -> 0 .. MaxRetries] /\ todo \subseteq Keys /\ gaveUp \subseteq Keys
  BY DEF IInv, TypeOK
<1>3. /\ job' = [job EXCEPT ![w] = NoJob]
      /\ failures' \in [Keys -> 0 .. MaxRetries]
      /\ todo' = todo \union {k}
      /\ gaveUp' = gaveUp \ {k}
  BY <1>1, <1>2, ConstantsAssumption DEF RequeueAndForget
<1>4. QED
  BY <1>1, <1>2, <1>3, IdleOK

LEMMA SucceedOK ==
  ASSUME IInv, NEW w \in Workers, job[w].at # "idle", Succeed(w, job[w].key),
         UNCHANGED cachedRoots,
         \A s \in Services : trackedServices[s] \subseteq trackedServices'[s],
         job[w].key \in Roots /\ job[w].key \notin todo
           => \A s \in Range(cachedRoots[job[w].key].rules) : job[w].key \in trackedServices'[s]
  PROVE  JobsAndQueue'
<1> DEFINE k == job[w].key
<1>1. k \in Keys
  BY OwnKey
<1>2. TypeOK /\ failures \in [Keys -> 0 .. MaxRetries] /\ todo \subseteq Keys /\ gaveUp \subseteq Keys
  BY DEF IInv, TypeOK
<1>3. /\ job' = [job EXCEPT ![w] = NoJob]
      /\ failures' \in [Keys -> 0 .. MaxRetries]
      /\ todo' = todo
      /\ gaveUp' = gaveUp \ {k}
  BY <1>1, <1>2, ConstantsAssumption DEF Succeed
<1>4. QED
  BY <1>2, <1>3, IdleOK

LEMMA ContinueOK ==
  ASSUME IInv, NEW w \in Workers, NEW j \in Job, job[w].at # "idle", Continue(w, j),
         UNCHANGED cachedRoots,
         \A s \in Services : trackedServices[s] \subseteq trackedServices'[s],
         j.key = job[w].key,
         j.at # "idle" => JobShape(j),
         JobTracked(j, todo, cachedRoots, trackedServices')
  PROVE  JobsAndQueue'
<1>1. CASE j.at = "idle"
  <2>1. Succeed(w, job[w].key)
    BY <1>1 DEF Continue
  <2>2. job[w].key \in Roots /\ job[w].key \notin todo
        => \A s \in Range(cachedRoots[job[w].key].rules) : job[w].key \in trackedServices'[s]
    BY <1>1 DEF JobTracked
  <2>3. QED
    BY <2>1, <2>2, SucceedOK
<1>2. CASE j.at # "idle"
  <2>1. job' = [job EXCEPT ![w] = j] /\ UNCHANGED queueVars
    BY <1>2 DEF Continue
  <2>2. QED
    BY <1>2, <2>1, StayOK
<1>3. QED
  BY <1>1, <1>2

LEMMA WriteStepJob ==
  ASSUME NEW j \in Job, j.key \in Roots
  PROVE  /\ WriteStep(j) \in Job
         /\ WriteStep(j).key = j.key
         /\ WriteStep(j).rules = j.rules
         /\ WriteStep(j).at \in {"delete", "create", "idle"}
         /\ WriteStep(j).at # "idle" => JobShape(WriteStep(j))
<1>1. /\ WriteStep(j) \in Job
      /\ WriteStep(j).key = j.key
      /\ WriteStep(j).rules = j.rules
      /\ WriteStep(j).want = j.want
      /\ WriteStep(j).at \in {"delete", "create", "idle"}
      /\ WriteStep(j).at = "create" => j.want # <<>>
  BY DEF WriteStep, Job, RootSteps, LeafSteps
<1>2. QED
  BY <1>1, Disjoint DEF JobShape, RootSteps, LeafSteps

\* The types of what neither jobs nor the work queue hold.
RestTyped == /\ roots \in [Roots -> RootObject]
             /\ leaves \in [Leaves -> LeafObject]
             /\ services \in [Services -> Clusters \union {NoCluster, Missing}]
             /\ dns \in [Leaves -> DNSRecord \union {NoRecord}]
             /\ hosts \in Nat
             /\ cachedRoots \in [Roots -> RootObject]
             /\ cachedLeaves \in [Leaves -> LeafObject]
             /\ events \in Seq(Keys)
             /\ svcEvents \subseteq Services
             /\ T!TypeOK
             /\ answers \in [LoadBalancers -> BOOLEAN]
             /\ overlooked \subseteq Roots
             /\ unlisted \subseteq Leaves
             /\ changes \in 0 .. MaxChanges
             /\ faults \in 0 .. MaxFaults
             /\ restarts \in 0 .. MaxRestarts

LEMMA Parts == IInv <=> RestTyped /\ JobsAndQueue /\ CachedRootsCurrent
BY DEF IInv, TypeOK, RestTyped, JobsAndQueue

LEMMA PartsNext == RestTyped' /\ JobsAndQueue' /\ CachedRootsCurrent' => IInv'
BY DEF IInv, TypeOK, RestTyped, JobsAndQueue

-----------------------------------------------------------------------------
(* The steps of a worker on a root. *)

LEMMA PatchIInv == ASSUME IInv, NEW w \in Workers, Patch(w) PROVE IInv'
<1> DEFINE r == job[w].key
<1>1. /\ job[w].at = "patch"
      /\ UNCHANGED <<leaves, services, dns, cachedRoots, cachedLeaves, svcEvents,
                     trackerVars, outsideVars>>
  BY DEF Patch
<1>2. r \in Roots /\ job[w] \in Job /\ TypeOK /\ CachedRootsCurrent
  BY <1>1, OwnKey DEF IInv, JobsShaped, JobShape, RootSteps
<1>3. CASE UNCHANGED <<roots, events, hosts>> /\ Fail(w)
  <2>1. JobsAndQueue'
    BY <1>1, <1>3, FailOK DEF trackerVars
  <2>2. RestTyped' /\ CachedRootsCurrent'
    BY <1>1, <1>2, <1>3 DEF TypeOK, RestTyped, CachedRootsCurrent, trackerVars, outsideVars, boundVars, T!TypeOK
  <2>3. QED
    BY <2>1, <2>2, PartsNext
<1>4. CASE /\ hosts' = hosts + 1
           /\ WriteRoot(r, [roots[r] EXCEPT !.host = hosts + 1])
           /\ job' = [job EXCEPT ![w].at = "list"]
           /\ UNCHANGED queueVars
  <2> DEFINE j == [job[w] EXCEPT !.at = "list"]
  <2>1. /\ j \in Job
        /\ j.at = "list"
        /\ j.key = job[w].key
        /\ j.rules = job[w].rules
        /\ job' = [job EXCEPT ![w] = j]
    BY <1>2, <1>4 DEF Job, RootSteps, TypeOK
  <2>2. JobShape(j)
    BY <1>2, <2>1, Disjoint DEF JobShape, RootSteps, LeafSteps
  <2>3. JobTracked(j, todo, cachedRoots, trackedServices')
    BY <1>1, <2>1 DEF IInv, JobsTracked, JobTracked
  <2>4. JobsAndQueue'
    BY <1>1, <1>4, <2>1, <2>2, <2>3, StayOK DEF trackerVars
  <2>5. [roots[r] EXCEPT !.host = hosts + 1] \in RootObject /\ hosts + 1 \in Nat
    <3>1. roots[r] \in RootObject /\ hosts + 1 \in Nat
      BY <1>2 DEF TypeOK
    <3>2. QED
      BY <3>1, RootFields
  <2>6. roots' \in [Roots -> RootObject] /\ events' \in Seq(Keys) /\ CachedRootsCurrent'
    BY <1>1, <1>2, <1>4, <2>5, WriteRootOK
  <2>7. RestTyped'
    BY <1>1, <1>2, <1>4, <2>5, <2>6 DEF TypeOK, RestTyped, trackerVars, outsideVars, boundVars, T!TypeOK
  <2>8. QED
    BY <2>4, <2>6, <2>7, PartsNext
<1>5. QED
  BY <1>3, <1>4 DEF Patch

LEMMA ListIInv == ASSUME IInv, NEW w \in Workers, List(w) PROVE IInv'
<1> DEFINE r == job[w].key
           j == [job[w] EXCEPT !.drop = LeavesOwnedBy(r), !.left = job[w].rules]
           k == IF j.left = <<>> THEN WriteStep(j) ELSE [j EXCEPT !.at = "get"]
<1>1. /\ job[w].at = "list"
      /\ Continue(w, k)
      /\ unlisted' = unlisted \union NotListed(r)
      /\ UNCHANGED <<apiVars, informerVars, trackerVars, answers, overlooked, boundVars>>
  BY DEF List
<1>2. r \in Roots /\ job[w] \in Job /\ TypeOK /\ CachedRootsCurrent
  BY <1>1, OwnKey DEF IInv, JobsShaped, JobShape, RootSteps
<1>3. /\ j \in Job
      /\ j.key = r /\ j.rules = job[w].rules /\ j.left = job[w].rules
  BY <1>2 DEF Job, LeavesOwnedBy
<1>4. JobTracked(job[w], todo, cachedRoots, trackedServices)
  BY DEF IInv, JobsTracked
<1> HIDE DEF j
<1>5. /\ k \in Job
      /\ k.key = r
      /\ k.at # "idle" => JobShape(k)
      /\ JobTracked(k, todo, cachedRoots, trackedServices')
  <2>1. CASE j.left = <<>>
    <3>1. k = WriteStep(j) /\ k \in Job /\ k.key = r /\ k.rules = <<>>
          /\ (k.at # "idle" => JobShape(k)) /\ k.at # "track"
      BY <1>2, <1>3, <2>1, WriteStepJob
    <3>2. Range(k.rules) = {}
      BY <3>1 DEF Range
    <3>3. JobTracked(k, todo, cachedRoots, trackedServices')
      BY <1>3, <1>4, <2>1, <3>1, <3>2 DEF JobTracked
    <3>4. QED
      BY <3>1, <3>3
  <2>2. CASE j.left # <<>>
    <3>1. /\ k = [j EXCEPT !.at = "get"] /\ k \in Job
          /\ k.key = r /\ k.rules = job[w].rules /\ k.left = job[w].rules /\ k.at = "get"
      BY <1>3, <2>2 DEF Job, RootSteps
    <3>2. QED
      BY <1>2, <1>3, <1>4, <2>2, <3>1, Disjoint DEF JobShape, JobTracked, RootSteps, LeafSteps
  <2>3. QED
    BY <2>1, <2>2
<1> HIDE DEF k
<1>6. JobsAndQueue'
  BY <1>1, <1>5, ContinueOK DEF informerVars, trackerVars
<1>7. RestTyped' /\ CachedRootsCurrent'
  BY <1>1, <1>2 DEF TypeOK, RestTyped, CachedRootsCurrent, apiVars, informerVars, trackerVars,
                    boundVars, T!TypeOK, NotListed
<1>8. QED
  BY <1>6, <1>7, PartsNext

LEMMA GetServiceIInv == ASSUME IInv, NEW w \in Workers, GetService(w) PROVE IInv'
<1> DEFINE j == job[w]
           s == Head(j.left)
           desired == IF services[s] \in Clusters
                      THEN Append(j.want, <<j.key, services[s]>>) ELSE j.want
           k == IF Len(j.left) > 1
                THEN [j EXCEPT !.left = Tail(j.left), !.want = desired]
                ELSE [j EXCEPT !.left = j.rules, !.want = desired, !.at = "track"]
<1>1. /\ j.at = "get"
      /\ UNCHANGED <<apiVars, informerVars, trackerVars, outsideVars>>
      /\ \/ job' = [job EXCEPT ![w] = k] /\ UNCHANGED queueVars
         \/ Fail(w)
  BY DEF GetService
<1>2. /\ j.key \in Roots /\ j \in Job /\ j.left # <<>> /\ j.rules # <<>>
      /\ TypeOK /\ CachedRootsCurrent
      /\ JobTracked(j, todo, cachedRoots, trackedServices)
  BY <1>1, OwnKey DEF IInv, JobsShaped, JobsTracked, JobShape, RootSteps
<1>3. RestTyped' /\ CachedRootsCurrent'
  BY <1>1, <1>2 DEF TypeOK, RestTyped, CachedRootsCurrent, apiVars, informerVars, trackerVars,
                    outsideVars, boundVars, T!TypeOK
<1>4. JobsAndQueue'
  <2>1. CASE Fail(w)
    BY <1>1, <2>1, FailOK DEF informerVars, trackerVars
  <2>2. CASE job' = [job EXCEPT ![w] = k] /\ UNCHANGED queueVars
    <3>1. desired \in Seq(Leaves) /\ j.left \in Seq(Services) /\ j.rules \in Seq(Services)
      BY <1>2 DEF Job, Leaves
    <3> HIDE DEF desired
    <3>2. CASE Len(j.left) > 1
      <4>1. Tail(j.left) \in Seq(Services) /\ Tail(j.left) # <<>>
        BY <1>2, <3>1, <3>2, RangeTail
      <4>2. /\ k \in Job /\ k.key = j.key /\ k.rules = j.rules
            /\ k.left = Tail(j.left) /\ k.at = "get"
        BY <1>1, <1>2, <3>1, <3>2, <4>1 DEF Job
      <4> HIDE DEF k
      <4>3. JobShape(k)
        BY <1>2, <4>1, <4>2, Disjoint DEF JobShape, RootSteps, LeafSteps
      <4>4. JobTracked(k, todo, cachedRoots, trackedServices')
        BY <1>2, <4>2 DEF JobTracked
      <4>5. QED
        BY <1>1, <2>2, <4>2, <4>3, <4>4, StayOK DEF informerVars, trackerVars
    <3>3. CASE ~ (Len(j.left) > 1)
      <4>1. /\ k \in Job /\ k.key = j.key /\ k.rules = j.rules
            /\ k.left = j.rules /\ k.at = "track"
        BY <1>2, <3>1, <3>3 DEF Job, RootSteps
      <4> HIDE DEF k
      <4>2. JobShape(k)
        BY <1>2, <4>1, Disjoint DEF JobShape, RootSteps, LeafSteps
      <4>3. JobTracked(k, todo, cachedRoots, trackedServices')
        BY <1>2, <4>1 DEF JobTracked
      <4>4. QED
        BY <1>1, <2>2, <4>1, <4>2, <4>3, StayOK DEF informerVars, trackerVars
    <3>4. QED
      BY <3>2, <3>3
  <2>3. QED
    BY <1>1, <2>1, <2>2
<1>5. QED
  BY <1>3, <1>4, PartsNext

\* tracker.add: the Service tracks the Ingress, and none tracks less.
LEMMA AddTracks ==
  ASSUME T!TypeOK, NEW r \in Roots, NEW s \in Services, T!add(r, s)
  PROVE  /\ T!TypeOK'
         /\ \A x \in Services : trackedServices[x] \subseteq trackedServices'[x]
         /\ r \in trackedServices'[s]
<1>1. CASE r \in trackedServices[s] /\ UNCHANGED T!vars
  BY <1>1 DEF T!TypeOK, T!vars
<1>2. CASE /\ trackedServices' = [trackedServices EXCEPT ![s] = @ \union {r}]
           /\ ingressToServices' = [ingressToServices EXCEPT ![r] = {s}]
           /\ UNCHANGED loop
  BY <1>2 DEF T!TypeOK
<1>3. QED
  BY <1>1, <1>2 DEF T!add

LEMMA TrackIInv == ASSUME IInv, NEW w \in Workers, Track(w) PROVE IInv'
<1> DEFINE j == job[w]
           s == Head(j.left)
           next == [j EXCEPT !.left = Tail(j.left)]
           done == [j EXCEPT !.left = <<>>, !.drop = NotDesired(j.drop, j.want)]
<1>1. /\ j.at = "track"
      /\ T!add(j.key, s)
      /\ UNCHANGED <<apiVars, informerVars, outsideVars>>
      /\ IF Len(j.left) > 1 THEN Continue(w, next) ELSE Continue(w, WriteStep(done))
  BY DEF Track
<1>2. /\ j.key \in Roots /\ j \in Job /\ j.left # <<>>
      /\ TypeOK /\ CachedRootsCurrent
      /\ JobTracked(j, todo, cachedRoots, trackedServices)
  BY <1>1, OwnKey DEF IInv, JobsShaped, JobsTracked, JobShape, RootSteps
<1>3. /\ s \in Services
      /\ Len(j.left) \in Nat \ {0}
      /\ Tail(j.left) \in Seq(Services)
      /\ Len(j.left) > 1 => Tail(j.left) # <<>>
      /\ Range(j.rules) \subseteq Services
      /\ \A x \in Range(j.left) : x = s \/ x \in Range(Tail(j.left))
      /\ Len(j.left) = 1 => Range(Tail(j.left)) = {}
  <2>1. j.left \in Seq(Services) /\ j.rules \in Seq(Services)
    BY <1>2 DEF Job
  <2>2. Len(j.left) = 1 => Range(Tail(j.left)) = {}
    BY <1>2, <2>1 DEF Range
  <2>3. Range(j.rules) \subseteq Services
    BY <2>1 DEF Range
  <2> HIDE DEF j
  <2>4. /\ s \in Services
        /\ Len(j.left) \in Nat \ {0}
        /\ Tail(j.left) \in Seq(Services)
        /\ Len(j.left) > 1 => Tail(j.left) # <<>>
        /\ \A x \in Range(j.left) : x = s \/ x \in Range(Tail(j.left))
    BY <1>2, <2>1, RangeTail
  <2>5. QED
    BY <2>2, <2>3, <2>4
<1>4. /\ T!TypeOK'
      /\ \A x \in Services : trackedServices[x] \subseteq trackedServices'[x]
      /\ j.key \in trackedServices'[s]
  <2>1. T!TypeOK
    BY <1>2 DEF TypeOK
  <2>2. QED
    BY <1>1, <1>2, <1>3, <2>1, AddTracks
<1>5. RestTyped' /\ CachedRootsCurrent'
  BY <1>1, <1>2, <1>4 DEF TypeOK, RestTyped, CachedRootsCurrent, apiVars, informerVars, outsideVars, boundVars
<1>6. j.key \notin todo
      => \A x \in Range(j.rules) \ Range(Tail(j.left)) : j.key \in trackedServices'[x]
  BY <1>1, <1>2, <1>3, <1>4 DEF JobTracked
<1>7. JobsAndQueue'
  <2>1. CASE Len(j.left) > 1
    <3>1. /\ next \in Job /\ next.key = j.key /\ next.rules = j.rules
          /\ next.left = Tail(j.left) /\ next.at = "track"
      BY <1>1, <1>2, <1>3 DEF Job
    <3>2. Continue(w, next)
      BY <1>1, <2>1
    <3> HIDE DEF next
    <3>3. JobShape(next)
      BY <1>2, <1>3, <2>1, <3>1, Disjoint DEF JobShape, RootSteps, LeafSteps
    <3>4. JobTracked(next, todo, cachedRoots, trackedServices')
      BY <1>2, <1>6, <3>1 DEF JobTracked
    <3>5. QED
      BY <1>1, <1>4, <3>1, <3>2, <3>3, <3>4, ContinueOK DEF informerVars
  <2>2. CASE ~ (Len(j.left) > 1)
    <3>1. done \in Job /\ done.key = j.key /\ done.rules = j.rules
      <4>1. <<>> \in Seq(Services) /\ NotDesired(j.drop, j.want) \in SUBSET Leaves
        BY <1>2 DEF Job, NotDesired
      <4>2. QED
        BY <1>2, <4>1 DEF Job
    <3>2. Continue(w, WriteStep(done))
      BY <1>1, <2>2
    <3> HIDE DEF done
    <3>3. /\ WriteStep(done) \in Job /\ WriteStep(done).key = j.key
          /\ WriteStep(done).rules = j.rules
          /\ WriteStep(done).at \in {"delete", "create", "idle"}
          /\ WriteStep(done).at # "idle" => JobShape(WriteStep(done))
      BY <1>2, <3>1, WriteStepJob
    <3>4. Len(j.left) = 1
      <4>1. Len(j.left) \in Nat \ {0}
        BY <1>3
      <4>2. \A n \in Nat \ {0} : ~ (n > 1) => n = 1
        OBVIOUS
      <4>3. QED
        BY <2>2, <4>1, <4>2
    <3>5. JobTracked(WriteStep(done), todo, cachedRoots, trackedServices')
      BY <1>2, <1>3, <1>6, <3>3, <3>4 DEF JobTracked
    <3>6. QED
      BY <1>1, <1>4, <3>2, <3>3, <3>5, ContinueOK DEF informerVars
  <2>3. QED
    BY <2>1, <2>2
<1>8. QED
  BY <1>5, <1>7, PartsNext

\* A write to a leaf after which the job goes on to its next write.
LEMMA LeafWritten ==
  ASSUME IInv, NEW w \in Workers, NEW j \in Job, job[w].at \in {"delete", "create", "update"},
         NEW l \in Leaves, NEW obj \in LeafObject,
         j.key = job[w].key, j.rules = job[w].rules,
         WriteLeaf(l, obj), Continue(w, WriteStep(j)),
         UNCHANGED <<roots, services, dns, hosts, cachedRoots, cachedLeaves, svcEvents,
                     trackerVars, answers, unlisted, boundVars>>,
         overlooked' \subseteq Roots
  PROVE  IInv'
<1>1. /\ job[w].key \in Roots
      /\ TypeOK /\ CachedRootsCurrent
      /\ JobTracked(job[w], todo, cachedRoots, trackedServices)
  BY OwnKey DEF IInv, JobsShaped, JobsTracked, JobShape, RootSteps
<1>2. /\ WriteStep(j) \in Job /\ WriteStep(j).key = job[w].key
      /\ WriteStep(j).rules = job[w].rules
      /\ WriteStep(j).at \in {"delete", "create", "idle"}
      /\ WriteStep(j).at # "idle" => JobShape(WriteStep(j))
  BY <1>1, WriteStepJob
<1>3. JobTracked(WriteStep(j), todo, cachedRoots, trackedServices')
  BY <1>1, <1>2 DEF JobTracked, trackerVars
<1>4. JobsAndQueue'
  BY <1>2, <1>3, ContinueOK DEF trackerVars
<1>5. leaves' \in [Leaves -> LeafObject] /\ events' \in Seq(Keys) /\ CachedRootsCurrent'
  BY <1>1, WriteLeafOK
<1>6. RestTyped'
  BY <1>1, <1>5 DEF TypeOK, RestTyped, trackerVars, boundVars, T!TypeOK
<1>7. QED
  BY <1>4, <1>5, <1>6, PartsNext

\* A step that ends in an error changes the job and the work queue alone.
LEMMA Failed ==
  ASSUME IInv, NEW w \in Workers, job[w].at # "idle", Fail(w),
         UNCHANGED <<apiVars, informerVars, trackerVars, outsideVars>>
  PROVE  IInv'
<1>1. JobsAndQueue'
  BY FailOK DEF informerVars, trackerVars
<1>2. RestTyped' /\ CachedRootsCurrent'
  BY DEF IInv, TypeOK, RestTyped, CachedRootsCurrent, apiVars, informerVars, trackerVars, outsideVars, boundVars,
         T!TypeOK
<1>3. QED
  BY <1>1, <1>2, PartsNext

LEMMA DeleteLeafIInv == ASSUME IInv, NEW w \in Workers, DeleteLeaf(w) PROVE IInv'
<1> DEFINE j == job[w]
<1>1. /\ j.at = "delete"
      /\ UNCHANGED <<roots, services, dns, hosts, cachedRoots, cachedLeaves, svcEvents,
                     trackerVars, answers, unlisted, boundVars>>
  BY DEF DeleteLeaf
<1>2. PICK l \in j.drop :
        \/ /\ DeleteLeafObject(l)
           /\ Continue(w, WriteStep([j EXCEPT !.drop = @ \ {l}]))
           /\ overlooked' = overlooked \union ({l[1]} \ {j.key})
        \/ Fail(w) /\ UNCHANGED <<leaves, events, overlooked>>
  BY DEF DeleteLeaf
<1>3. j \in Job /\ l \in Leaves /\ TypeOK
  BY <1>1, OwnKey DEF IInv, Job
<1>4. CASE Fail(w) /\ UNCHANGED <<leaves, events, overlooked>>
  BY <1>1, <1>4, Failed DEF apiVars, informerVars, outsideVars
<1>5. CASE /\ DeleteLeafObject(l)
           /\ Continue(w, WriteStep([j EXCEPT !.drop = @ \ {l}]))
           /\ overlooked' = overlooked \union ({l[1]} \ {j.key})
  <2> DEFINE k == [j EXCEPT !.drop = @ \ {l}]
             obj == IF leaves[l].pinned THEN [leaves[l] EXCEPT !.deleting = TRUE]
                                        ELSE NoLeaf(leaves[l].rv)
  <2>1. k \in Job /\ k.key = j.key /\ k.rules = j.rules
    BY <1>3 DEF Job
  <2>2. leaves[l] \in LeafObject
    BY <1>3 DEF TypeOK
  <2>3. NoLeaf(leaves[l].rv) \in LeafObject /\ [leaves[l] EXCEPT !.deleting = TRUE] \in LeafObject
    BY <2>2, NoObjects DEF LeafObject
  <2>4. WriteLeaf(l, obj) /\ obj \in LeafObject
    BY <1>5, <2>3 DEF DeleteLeafObject
  <2>5. overlooked' \subseteq Roots
    BY <1>3, <1>5 DEF TypeOK, Leaves
  <2> HIDE DEF obj, k
  <2>6. QED
    BY <1>1, <1>3, <1>5, <2>1, <2>4, <2>5, LeafWritten DEF k
<1>6. QED
  BY <1>2, <1>4, <1>5

LEMMA CreateLeafIInv == ASSUME IInv, NEW w \in Workers, CreateLeaf(w) PROVE IInv'
<1> DEFINE j == job[w]
           l == Head(j.want)
           new == [NoLeaf(leaves[l].rv) EXCEPT !.live = TRUE, !.host = j.host, !.rules = j.rules]
           done == [j EXCEPT !.want = Tail(@)]
           read == [j EXCEPT !.at = "read"]
<1>1. /\ j.at = "create"
      /\ UNCHANGED <<roots, services, dns, hosts, cachedRoots, cachedLeaves, svcEvents,
                     trackerVars, outsideVars>>
      /\ \/ WriteLeaf(l, new) /\ Continue(w, WriteStep(done))
         \/ job' = [job EXCEPT ![w] = read] /\ UNCHANGED <<leaves, events, queueVars>>
  BY DEF CreateLeaf
<1>2. /\ j.key \in Roots /\ j \in Job /\ j.want # <<>> /\ j.want \in Seq(Leaves)
      /\ TypeOK /\ CachedRootsCurrent
      /\ JobTracked(j, todo, cachedRoots, trackedServices)
  BY <1>1, OwnKey DEF IInv, JobsShaped, JobsTracked, JobShape, RootSteps, Job
<1>3. l \in Leaves /\ Tail(j.want) \in Seq(Leaves)
  BY <1>2, RangeTail
<1>4. CASE WriteLeaf(l, new) /\ Continue(w, WriteStep(done))
  <2>1. done \in Job /\ done.key = j.key /\ done.rules = j.rules
    BY <1>2, <1>3 DEF Job
  <2>2. new \in LeafObject
    <3>1. leaves[l].rv \in Nat /\ j.host \in Hostname /\ j.rules \in Seq(Services)
      BY <1>2, <1>3 DEF TypeOK, LeafObject, Job
    <3>2. QED
      BY <3>1 DEF NoLeaf, LeafObject
  <2> HIDE DEF new, done
  <2>3. QED
    BY <1>1, <1>2, <1>3, <1>4, <2>1, <2>2, LeafWritten DEF outsideVars, TypeOK
<1>5. CASE job' = [job EXCEPT ![w] = read] /\ UNCHANGED <<leaves, events, queueVars>>
  <2>1. read \in Job /\ read.key = j.key /\ read.rules = j.rules /\ read.want = j.want
        /\ read.at = "read"
    BY <1>2 DEF Job, RootSteps
  <2> HIDE DEF read
  <2>2. JobShape(read)
    BY <1>2, <2>1, Disjoint DEF JobShape, RootSteps, LeafSteps
  <2>3. JobTracked(read, todo, cachedRoots, trackedServices')
    BY <1>1, <1>2, <2>1 DEF JobTracked, trackerVars
  <2>4. JobsAndQueue'
    BY <1>1, <1>5, <2>1, <2>2, <2>3, StayOK DEF trackerVars
  <2>5. RestTyped' /\ CachedRootsCurrent'
    BY <1>1, <1>2, <1>5 DEF TypeOK, RestTyped, CachedRootsCurrent, trackerVars, outsideVars, boundVars, T!TypeOK
  <2>6. QED
    BY <2>4, <2>5, PartsNext
<1>6. QED
  BY <1>1, <1>4, <1>5

LEMMA ReadLeafIInv == ASSUME IInv, NEW w \in Workers, ReadLeaf(w) PROVE IInv'
<1> DEFINE j == job[w]
           l == Head(j.want)
           k == [j EXCEPT !.at = "update", !.rv = leaves[l].rv]
<1>1. /\ j.at = "read"
      /\ UNCHANGED <<apiVars, informerVars, trackerVars, outsideVars>>
      /\ \/ job' = [job EXCEPT ![w].at = "update", ![w].rv = leaves[l].rv] /\ UNCHANGED queueVars
         \/ Fail(w)
  BY DEF ReadLeaf
<1>2. /\ j.key \in Roots /\ j \in Job /\ j.want # <<>> /\ j.want \in Seq(Leaves)
      /\ TypeOK /\ CachedRootsCurrent
      /\ JobTracked(j, todo, cachedRoots, trackedServices)
  BY <1>1, OwnKey DEF IInv, JobsShaped, JobsTracked, JobShape, RootSteps, Job
<1>3. l \in Leaves
  BY <1>2, RangeTail
<1>4. CASE Fail(w)
  BY <1>1, <1>4, Failed
<1>5. CASE job' = [job EXCEPT ![w].at = "update", ![w].rv = leaves[l].rv] /\ UNCHANGED queueVars
  <2>1. /\ k \in Job /\ k.key = j.key /\ k.rules = j.rules /\ k.want = j.want
        /\ k.at = "update"
    <3>1. leaves[l].rv \in Nat
      BY <1>2, <1>3 DEF TypeOK, LeafObject
    <3>2. QED
      BY <1>2, <3>1 DEF Job, RootSteps
  <2>2. job' = [job EXCEPT ![w] = k]
    BY <1>2, <1>5 DEF TypeOK, Job
  <2> HIDE DEF k
  <2>3. JobShape(k)
    BY <1>2, <2>1, Disjoint DEF JobShape, RootSteps, LeafSteps
  <2>4. JobTracked(k, todo, cachedRoots, trackedServices')
    BY <1>1, <1>2, <2>1 DEF JobTracked, trackerVars
  <2>5. JobsAndQueue'
    BY <1>1, <1>5, <2>1, <2>2, <2>3, <2>4, StayOK DEF informerVars, trackerVars
  <2>6. RestTyped' /\ CachedRootsCurrent'
    BY <1>1, <1>2 DEF TypeOK, RestTyped, CachedRootsCurrent, apiVars, informerVars, trackerVars,
                      outsideVars, boundVars, T!TypeOK
  <2>7. QED
    BY <2>5, <2>6, PartsNext
<1>6. QED
  BY <1>1, <1>4, <1>5

LEMMA UpdateLeafIInv == ASSUME IInv, NEW w \in Workers, UpdateLeaf(w) PROVE IInv'
<1> DEFINE j == job[w]
           l == Head(j.want)
           updated == [leaves[l] EXCEPT !.host = j.host, !.rules = j.rules, !.pinned = FALSE]
           obj == IF leaves[l].deleting THEN NoLeaf(j.rv) ELSE updated
           done == [j EXCEPT !.want = Tail(@), !.rv = 0]
<1>1. /\ j.at = "update"
      /\ UNCHANGED <<roots, services, dns, hosts, cachedRoots, cachedLeaves, svcEvents,
                     trackerVars, answers, unlisted, boundVars>>
      /\ \/ /\ WriteLeaf(l, obj)
            /\ Continue(w, WriteStep(done))
            /\ overlooked' \subseteq overlooked \union {l[1]}
         \/ Fail(w) /\ UNCHANGED <<leaves, events, overlooked>>
  BY DEF UpdateLeaf
<1>2. j.key \in Roots /\ j \in Job /\ j.want # <<>> /\ j.want \in Seq(Leaves) /\ TypeOK
  BY <1>1, OwnKey DEF IInv, JobsShaped, JobShape, RootSteps, Job
<1>3. l \in Leaves /\ Tail(j.want) \in Seq(Leaves)
  BY <1>2, RangeTail
<1>4. CASE Fail(w) /\ UNCHANGED <<leaves, events, overlooked>>
  BY <1>1, <1>4, Failed DEF apiVars, informerVars, outsideVars
<1>5. CASE /\ WriteLeaf(l, obj)
           /\ Continue(w, WriteStep(done))
           /\ overlooked' \subseteq overlooked \union {l[1]}
  <2>1. done \in Job /\ done.key = j.key /\ done.rules = j.rules
    BY <1>2, <1>3 DEF Job
  <2>2. obj \in LeafObject
    <3>1. leaves[l] \in LeafObject /\ j.rv \in Nat /\ j.host \in Hostname /\ j.rules \in Seq(Services)
      BY <1>2, <1>3 DEF TypeOK, Job
    <3>2. updated \in LeafObject
      BY <3>1 DEF LeafObject
    <3>3. QED
      BY <3>1, <3>2, NoObjects
  <2>3. overlooked' \subseteq Roots
    BY <1>2, <1>3, <1>5 DEF TypeOK, Leaves
  <2> HIDE DEF obj, done
  <2>4. QED
    BY <1>1, <1>3, <1>5, <2>1, <2>2, <2>3, LeafWritten
<1>6. QED
  BY <1>1, <1>4, <1>5

-----------------------------------------------------------------------------
(* The steps of a worker on a leaf, and the faults. *)

LEMMA ReadRootIInv == ASSUME IInv, NEW w \in Workers, ReadRoot(w) PROVE IInv'
<1> DEFINE j == job[w]
           r == j.key[1]
           k == [j EXCEPT !.at = "dns", !.host = cachedRoots[r].host, !.rv = cachedRoots[r].rv]
<1>1. /\ j.at = "root"
      /\ UNCHANGED <<apiVars, informerVars, trackerVars, outsideVars>>
      /\ \/ /\ job' = [job EXCEPT ![w].at = "dns",
                                  ![w].host = cachedRoots[r].host,
                                  ![w].rv = cachedRoots[r].rv]
            /\ UNCHANGED queueVars
         \/ Fail(w)
  BY DEF ReadRoot
<1>2. /\ j.key \in Leaves /\ j.key \notin Roots /\ j \in Job
      /\ TypeOK /\ CachedRootsCurrent
  BY <1>1, OwnKey, Disjoint DEF IInv, JobsShaped, JobShape, LeafSteps
<1>3. r \in Roots
  BY <1>2 DEF Leaves
<1>4. CASE Fail(w)
  BY <1>1, <1>4, Failed
<1>5. CASE /\ job' = [job EXCEPT ![w].at = "dns",
                                 ![w].host = cachedRoots[r].host,
                                 ![w].rv = cachedRoots[r].rv]
           /\ UNCHANGED queueVars
  <2>1. k \in Job /\ k.key = j.key /\ k.at = "dns"
    <3>1. cachedRoots[r].host \in Hostname /\ cachedRoots[r].rv \in Nat
      BY <1>2, <1>3 DEF TypeOK, RootObject
    <3> HIDE DEF r
    <3>2. QED
      BY <1>2, <3>1 DEF Job, LeafSteps
  <2>2. job' = [job EXCEPT ![w] = k]
    BY <1>2, <1>5 DEF TypeOK, Job
  <2> HIDE DEF k
  <2>3. JobShape(k) /\ JobTracked(k, todo, cachedRoots, trackedServices')
    BY <1>2, <2>1, Disjoint DEF JobShape, JobTracked, RootSteps, LeafSteps
  <2>4. JobsAndQueue'
    BY <1>1, <1>5, <2>1, <2>2, <2>3, StayOK DEF informerVars, trackerVars
  <2>5. RestTyped' /\ CachedRootsCurrent'
    BY <1>1, <1>2 DEF TypeOK, RestTyped, CachedRootsCurrent, apiVars, informerVars, trackerVars,
                      outsideVars, boundVars, T!TypeOK
  <2>6. QED
    BY <2>4, <2>5, PartsNext
<1>6. QED
  BY <1>1, <1>4, <1>5

LEMMA ReconcileDNSIInv == ASSUME IInv, NEW w \in Workers, ReconcileDNS(w) PROVE IInv'
<1> DEFINE j == job[w]
           k == [j EXCEPT !.at = "status"]
<1>1. /\ j.at = "dns"
      /\ dns' = [dns EXCEPT ![j.key] =
                   IF Published(j) THEN getDNSRecord(j.host, j.own) ELSE NoRecord]
      /\ job' = [job EXCEPT ![w].at = "status"]
      /\ UNCHANGED <<roots, leaves, services, hosts, informerVars, queueVars, trackerVars, outsideVars>>
  BY DEF ReconcileDNS
<1>2. /\ j.key \in Leaves /\ j.key \notin Roots /\ j \in Job
      /\ TypeOK /\ CachedRootsCurrent
  BY <1>1, OwnKey, Disjoint DEF IInv, JobsShaped, JobShape, LeafSteps
<1>3. /\ k \in Job /\ k.key = j.key /\ k.at = "status"
      /\ job' = [job EXCEPT ![w] = k]
  BY <1>1, <1>2 DEF Job, LeafSteps, TypeOK
<1> HIDE DEF k
<1>4. JobShape(k) /\ JobTracked(k, todo, cachedRoots, trackedServices')
  BY <1>2, <1>3, Disjoint DEF JobShape, JobTracked, RootSteps, LeafSteps
<1>5. JobsAndQueue'
  BY <1>1, <1>3, <1>4, StayOK DEF informerVars, trackerVars
<1>6. dns' \in [Leaves -> DNSRecord \union {NoRecord}]
  <2>1. ASSUME Published(j) PROVE getDNSRecord(j.host, j.own) \in DNSRecord
    <3>1. j.host \in Nat /\ j.own \subseteq LoadBalancers
      BY <1>2, <2>1 DEF Published, Job, Hostname
    <3>2. {<<lb, answers[lb]>> : lb \in j.own \ Unaddressed} \subseteq LoadBalancers \X BOOLEAN
      BY <1>2, <3>1 DEF TypeOK
    <3>3. QED
      BY <3>1, <3>2 DEF getDNSRecord, DNSRecord
  <2>2. QED
    BY <1>1, <1>2, <2>1 DEF TypeOK
<1>7. RestTyped' /\ CachedRootsCurrent'
  BY <1>1, <1>2, <1>6 DEF TypeOK, RestTyped, CachedRootsCurrent, informerVars, trackerVars, outsideVars, boundVars,
                          T!TypeOK
<1>8. QED
  BY <1>5, <1>7, PartsNext

LEMMA RejectRecordIInv == ASSUME IInv, NEW w \in Workers, RejectRecord(w) PROVE IInv'
<1>1. /\ job[w].at # "idle" /\ Fail(w)
      /\ UNCHANGED <<apiVars, informerVars, trackerVars, outsideVars>>
  BY DEF RejectRecord
<1>2. JobsAndQueue'
  BY <1>1, FailOK DEF informerVars, trackerVars
<1>3. RestTyped' /\ CachedRootsCurrent'
  BY <1>1 DEF IInv, TypeOK, RestTyped, CachedRootsCurrent, apiVars, informerVars, trackerVars,
              outsideVars, boundVars, T!TypeOK
<1>4. QED
  BY <1>2, <1>3, PartsNext

LEMMA UpdateStatusIInv == ASSUME IInv, NEW w \in Workers, UpdateStatus(w) PROVE IInv'
<1> DEFINE j == job[w]
           r == j.key[1]
           obj == [roots[r] EXCEPT !.status = j.lbs]
<1>1. /\ j.at = "status"
      /\ UNCHANGED <<leaves, services, dns, hosts, cachedRoots, cachedLeaves, svcEvents,
                     trackerVars, outsideVars>>
      /\ \/ WriteRoot(r, obj) /\ Succeed(w, j.key)
         \/ RequeueAndForget(w) /\ UNCHANGED <<roots, events>>
         \/ Fail(w) /\ UNCHANGED <<roots, events>>
  BY DEF UpdateStatus
<1>2. /\ j.key \in Leaves /\ j.key \notin Roots /\ j \in Job
      /\ TypeOK /\ CachedRootsCurrent
  BY <1>1, OwnKey, Disjoint DEF IInv, JobsShaped, JobShape, LeafSteps
<1>3. r \in Roots
  BY <1>2 DEF Leaves
<1>4. CASE Fail(w) /\ UNCHANGED <<roots, events>>
  BY <1>1, <1>4, Failed DEF apiVars, informerVars
<1>5. CASE RequeueAndForget(w) /\ UNCHANGED <<roots, events>>
  <2>1. JobsAndQueue'
    BY <1>1, <1>5, RequeueOK DEF trackerVars
  <2>2. RestTyped' /\ CachedRootsCurrent'
    BY <1>1, <1>2, <1>5 DEF TypeOK, RestTyped, CachedRootsCurrent, trackerVars, outsideVars, boundVars, T!TypeOK
  <2>3. QED
    BY <2>1, <2>2, PartsNext
<1>6. CASE WriteRoot(r, obj) /\ Succeed(w, j.key)
  <2>1. JobsAndQueue'
    BY <1>1, <1>2, <1>6, SucceedOK DEF trackerVars
  <2>2. obj \in RootObject
    <3>1. roots[r] \in RootObject /\ j.lbs \in SUBSET LoadBalancers
      BY <1>2, <1>3 DEF TypeOK, Job
    <3>2. QED
      BY <3>1, RootFields
  <2> HIDE DEF obj
  <2>3. roots' \in [Roots -> RootObject] /\ events' \in Seq(Keys) /\ CachedRootsCurrent'
    BY <1>1, <1>2, <1>3, <1>6, <2>2, WriteRootOK
  <2>4. RestTyped'
    BY <1>1, <1>2, <2>3 DEF TypeOK, RestTyped, trackerVars, outsideVars, boundVars, T!TypeOK
  <2>5. QED
    BY <2>1, <2>3, <2>4, PartsNext
<1>7. QED
  BY <1>1, <1>4, <1>5, <1>6

LEMMA CallFailsIInv == ASSUME IInv, NEW w \in Workers, CallFails(w) PROVE IInv'
<1>1. /\ job[w].at # "idle" /\ Fail(w)
      /\ faults < MaxFaults /\ faults' = faults + 1
      /\ UNCHANGED <<apiVars, informerVars, trackerVars, answers, overlooked, unlisted, changes, restarts>>
  BY DEF CallFails, APISteps, RootSteps
<1>2. JobsAndQueue'
  BY <1>1, FailOK DEF informerVars, trackerVars
<1>3. RestTyped' /\ CachedRootsCurrent'
  BY <1>1, ConstantsAssumption
     DEF IInv, TypeOK, RestTyped, CachedRootsCurrent, apiVars, informerVars, trackerVars, T!TypeOK
<1>4. QED
  BY <1>2, <1>3, PartsNext

-----------------------------------------------------------------------------
(* A worker takes a key. *)

\* A worker that was idle takes a key nobody holds, and works on it from then.
LEMMA TakenOK ==
  ASSUME IInv, NEW w \in Workers, NEW k \in Keys, NEW j \in Job, Take(w, k),
         todo' = todo \ {k},
         job' = [job EXCEPT ![w] = j],
         UNCHANGED <<failures, gaveUp, cachedRoots, trackedServices>>,
         j.key = k, JobShape(j), JobTracked(j, todo \ {k}, cachedRoots, trackedServices)
  PROVE  JobsAndQueue'
<1>1. /\ job \in [Workers -> Job] /\ job[w].key = NoKey
      /\ \A v \in Workers : job[v].key # k
      /\ k # NoKey
  BY ConstantsAssumption DEF IInv, TypeOK, Take, Busy, JobsShaped, JobShape
<1>2. /\ job' \in [Workers -> Job]
      /\ job'[w] = j
      /\ \A v \in Workers : v # w => job'[v] = job[v]
  BY <1>1
<1>3. JobsShaped'
  BY <1>1, <1>2 DEF IInv, JobsShaped
<1>4. JobsTracked'
  <2> SUFFICES ASSUME NEW v \in Workers
               PROVE  JobTracked(job'[v], todo', cachedRoots', trackedServices')
    BY DEF JobsTracked
  <2>1. CASE v = w
    BY <1>2, <2>1
  <2>2. CASE v # w
    <3>1. job'[v] = job[v] /\ job[v].key # k /\ JobTracked(job[v], todo, cachedRoots, trackedServices)
      BY <1>1, <1>2, <2>2 DEF IInv, JobsTracked
    <3>2. QED
      BY <3>1 DEF JobTracked
  <2>3. QED
    BY <2>1, <2>2
<1>5. KeysExclusive'
  BY <1>1, <1>2 DEF IInv, KeysExclusive
<1>6. TrackedOrPending'
  <2> SUFFICES ASSUME NEW r \in Roots, cachedRoots[r].live, r \notin todo', r \notin gaveUp,
                      r \notin Busy', NEW s \in Range(cachedRoots[r].rules)
               PROVE  r \in trackedServices[s]
    BY DEF TrackedOrPending
  <2>1. r # NoKey
    BY Disjoint
  <2>2. r # k
    BY <1>2, <2>1 DEF Busy
  <2>3. r \notin Busy
    BY <1>1, <1>2, <2>1 DEF Busy
  <2>4. QED
    BY <2>2, <2>3 DEF IInv, TrackedOrPending
<1>7. QED
  BY <1>2, <1>3, <1>4, <1>5, <1>6 DEF IInv, TypeOK, JobsAndQueue

LEMMA BeginRootIInv ==
  ASSUME IInv, NEW w \in Workers, NEW r \in Roots, BeginRoot(w, r)
  PROVE  IInv'
<1> DEFINE j == [NoJob EXCEPT !.at = IF cachedRoots[r].host = NoHost THEN "patch" ELSE "list",
                              !.key = r,
                              !.host = cachedRoots[r].host,
                              !.rules = cachedRoots[r].rules]
<1>1. /\ Take(w, r)
      /\ todo' = todo \ {r}
      /\ job' = [job EXCEPT ![w] = j]
      /\ UNCHANGED <<apiVars, informerVars, failures, gaveUp, trackerVars, answers, boundVars>>
      /\ overlooked' = overlooked \ {r}
      /\ unlisted' = {l \in unlisted : l[1] # r}
  BY DEF BeginRoot
<1>2. TypeOK /\ CachedRootsCurrent /\ r \in Keys
  BY DEF IInv, Keys
<1>3. /\ j \in Job /\ j.key = r /\ j.rules = cachedRoots[r].rules /\ j.at \in {"patch", "list"}
  <2>1. cachedRoots[r].host \in Hostname /\ cachedRoots[r].rules \in Seq(Services)
    BY <1>2 DEF TypeOK, RootObject
  <2>2. QED
    BY <1>2, <2>1, NoJobIsJob DEF NoJob, Job, RootSteps
<1> HIDE DEF j
<1>4. JobShape(j) /\ JobTracked(j, todo \ {r}, cachedRoots, trackedServices)
  BY <1>3, Disjoint DEF JobShape, JobTracked, RootSteps, LeafSteps
<1>5. JobsAndQueue'
  BY <1>1, <1>2, <1>3, <1>4, TakenOK DEF informerVars, trackerVars
<1>6. RestTyped' /\ CachedRootsCurrent'
  BY <1>1, <1>2 DEF TypeOK, RestTyped, CachedRootsCurrent, apiVars, informerVars, trackerVars,
                    boundVars, T!TypeOK
<1>7. QED
  BY <1>5, <1>6, PartsNext

LEMMA BeginLeafIInv ==
  ASSUME IInv, NEW w \in Workers, NEW l \in Leaves, BeginLeaf(w, l)
  PROVE  IInv'
<1> DEFINE others == UNION {cachedLeaves[o].lb : o \in LeavesOwnedBy(l[1])}
           j == [NoJob EXCEPT !.at = "root",
                              !.key = l,
                              !.own = cachedLeaves[l].lb,
                              !.deleting = cachedLeaves[l].deleting,
                              !.lbs = others]
<1>1. /\ Take(w, l)
      /\ todo' = todo \ {l}
      /\ job' = [job EXCEPT ![w] = j]
      /\ UNCHANGED <<apiVars, informerVars, failures, gaveUp, trackerVars, outsideVars>>
  BY DEF BeginLeaf
<1>2. TypeOK /\ CachedRootsCurrent /\ l \in Keys
  BY DEF IInv, Keys
<1>3. /\ j \in Job /\ j.key = l /\ j.at = "root"
  <2>1. \A o \in Leaves : cachedLeaves[o].lb \in SUBSET LoadBalancers /\ cachedLeaves[o].deleting \in BOOLEAN
    BY <1>2 DEF TypeOK, LeafObject
  <2>2. others \in SUBSET LoadBalancers
    BY <2>1 DEF LeavesOwnedBy
  <2> HIDE DEF others
  <2>3. QED
    BY <1>2, <2>1, <2>2, NoJobIsJob DEF NoJob, Job, LeafSteps
<1> HIDE DEF j
<1>4. JobShape(j) /\ JobTracked(j, todo \ {l}, cachedRoots, trackedServices)
  BY <1>3, Disjoint DEF JobShape, JobTracked, RootSteps, LeafSteps
<1>5. JobsAndQueue'
  BY <1>1, <1>2, <1>3, <1>4, TakenOK DEF informerVars, trackerVars
<1>6. RestTyped' /\ CachedRootsCurrent'
  BY <1>1, <1>2 DEF TypeOK, RestTyped, CachedRootsCurrent, apiVars, informerVars, trackerVars,
                    outsideVars, boundVars, T!TypeOK
<1>7. QED
  BY <1>5, <1>6, PartsNext

\* tracker.deleteIngress: no other root loses its tracking.
LEMMA DeleteTracks ==
  ASSUME T!TypeOK, NEW r \in Roots, T!deleteIngress(r)
  PROVE  /\ T!TypeOK'
         /\ \A s \in Services, o \in Roots : o # r /\ o \in trackedServices[s]
                                             => o \in trackedServices'[s]
<1>1. loop' \in T!Loop
  <2>1. loop' = loop \/ loop' = [loop EXCEPT !.shifted = TRUE]
    BY DEF T!deleteIngress
  <2>2. QED
    BY <2>1 DEF T!TypeOK, T!Loop
<1>2. QED
  BY <1>1 DEF T!TypeOK, T!deleteIngress

LEMMA ProcessDeletedIInv ==
  ASSUME IInv, NEW w \in Workers, NEW k \in Keys, ProcessDeleted(w, k)
  PROVE  IInv'
<1>1. /\ Take(w, k)
      /\ ~ InIndexer(k)
      /\ todo' = todo \ {k}
      /\ IF k \in Roots THEN T!deleteIngress(k) ELSE UNCHANGED trackerVars
      /\ failures' = [failures EXCEPT ![k] = 0]
      /\ gaveUp' = gaveUp \ {k}
      /\ UNCHANGED <<apiVars, informerVars, job, outsideVars>>
  BY DEF ProcessDeleted
<1>2. /\ TypeOK /\ CachedRootsCurrent
      /\ \A v \in Workers : job[v].key # k /\ job[v] \in Job
      /\ k \in Roots => ~ cachedRoots[k].live
      /\ cachedRoots' = cachedRoots /\ job' = job
  BY <1>1, ConstantsAssumption DEF IInv, TypeOK, Take, Busy, InIndexer, informerVars
<1>3. /\ T!TypeOK'
      /\ \A s \in Services, o \in Roots : o # k /\ o \in trackedServices[s]
                                          => o \in trackedServices'[s]
  <2>1. CASE k \in Roots
    BY <1>1, <1>2, <2>1, DeleteTracks DEF TypeOK
  <2>2. CASE k \notin Roots
    BY <1>1, <1>2, <2>2 DEF TypeOK, trackerVars, T!TypeOK
  <2>3. QED
    BY <2>1, <2>2
<1>4. JobsTracked'
  <2> SUFFICES ASSUME NEW v \in Workers
               PROVE  JobTracked(job[v], todo', cachedRoots, trackedServices')
    BY <1>2 DEF JobsTracked
  <2>1. /\ JobTracked(job[v], todo, cachedRoots, trackedServices)
        /\ job[v].key # k
        /\ Range(job[v].rules) \subseteq Services
    BY <1>2 DEF IInv, JobsTracked, Job, Range
  <2>2. QED
    BY <1>1, <1>3, <2>1 DEF JobTracked
<1>5. TrackedOrPending'
  <2> SUFFICES ASSUME NEW r \in Roots, cachedRoots[r].live, r \notin todo', r \notin gaveUp',
                      r \notin Busy', NEW s \in Range(cachedRoots[r].rules)
               PROVE  r \in trackedServices'[s]
    BY <1>2 DEF TrackedOrPending
  <2>1. s \in Services
    BY <1>2 DEF TypeOK, RootObject, Range
  <2>2. r # k /\ r \notin todo /\ r \notin gaveUp /\ r \notin Busy
    BY <1>1, <1>2 DEF Busy
  <2>3. r \in trackedServices[s]
    BY <2>2 DEF IInv, TrackedOrPending
  <2>4. QED
    BY <1>3, <2>1, <2>2, <2>3
<1>6. JobsShaped' /\ KeysExclusive'
  BY <1>2 DEF IInv, JobsShaped, KeysExclusive
<1>7. /\ job' \in [Workers -> Job] /\ todo' \subseteq Keys /\ gaveUp' \subseteq Keys
      /\ failures' \in [Keys -> 0 .. MaxRetries]
  BY <1>1, <1>2, ConstantsAssumption DEF TypeOK
<1>8. RestTyped' /\ CachedRootsCurrent'
  BY <1>1, <1>2, <1>3 DEF TypeOK, RestTyped, CachedRootsCurrent, apiVars, informerVars, outsideVars, boundVars
<1>9. QED
  BY <1>4, <1>5, <1>6, <1>7, <1>8, PartsNext DEF JobsAndQueue

-----------------------------------------------------------------------------
(* The informers, the restart and the outside. *)

\* Keys are added, and roots whose copy in the indexer changes are among them.
LEMMA AddedOK ==
  ASSUME IInv, NEW ks \in SUBSET Keys, Enqueue(ks),
         UNCHANGED <<job, trackedServices>>,
         \A r \in Roots : r \notin ks => cachedRoots'[r] = cachedRoots[r]
  PROVE  JobsAndQueue'
<1>1. /\ failures' \in [Keys -> 0 .. MaxRetries]
      /\ todo' = todo \union ks /\ todo' \subseteq Keys
      /\ gaveUp' = gaveUp /\ gaveUp \subseteq Keys
      /\ job' = job /\ job \in [Workers -> Job]
      /\ trackedServices' = trackedServices
  BY EnqueueTypes DEF IInv, TypeOK, Enqueue
<1>2. JobsTracked'
  <2> SUFFICES ASSUME NEW v \in Workers
               PROVE  JobTracked(job[v], todo', cachedRoots', trackedServices)
    BY <1>1 DEF JobsTracked
  <2>1. JobTracked(job[v], todo, cachedRoots, trackedServices)
    BY DEF IInv, JobsTracked
  <2>2. QED
    BY <1>1, <2>1 DEF JobTracked
<1>3. TrackedOrPending'
  <2>1. Busy' = Busy
    BY <1>1 DEF Busy
  <2>2. QED
    BY <1>1, <2>1 DEF IInv, TrackedOrPending
<1>4. JobsShaped' /\ KeysExclusive'
  BY <1>1 DEF IInv, JobsShaped, KeysExclusive
<1>5. QED
  BY <1>1, <1>2, <1>3, <1>4 DEF JobsAndQueue

LEMMA SameJobsAndQueue ==
  ASSUME IInv, UNCHANGED <<job, todo, failures, gaveUp, cachedRoots, trackedServices>>
  PROVE  JobsAndQueue'
<1>1. JobsShaped' /\ JobsTracked' /\ KeysExclusive' /\ TrackedOrPending'
  BY DEF IInv, JobsShaped, JobsTracked, KeysExclusive, TrackedOrPending, Busy
<1>2. QED
  BY <1>1 DEF IInv, TypeOK, JobsAndQueue

LEMMA DeliverIInv == ASSUME IInv, Deliver PROVE IInv'
<1> DEFINE k == Head(events)
<1>1. /\ events # <<>>
      /\ events' = Tail(events)
      /\ cachedRoots' = IF k \in Roots THEN [cachedRoots EXCEPT ![k] = roots[k]] ELSE cachedRoots
      /\ cachedLeaves' = IF k \in Leaves THEN [cachedLeaves EXCEPT ![k] = leaves[k]] ELSE cachedLeaves
      /\ Enqueue({k})
      /\ UNCHANGED <<apiVars, svcEvents, trackerVars, job, outsideVars>>
  BY DEF Deliver
<1>2. TypeOK /\ CachedRootsCurrent /\ events \in Seq(Keys)
  BY DEF IInv, TypeOK
<1>3. /\ k \in Keys /\ events' \in Seq(Keys) /\ k = events[1]
      /\ Len(events') = Len(events) - 1 /\ Len(events) \in Nat \ {0}
      /\ \A i \in 1 .. Len(events) - 1 : events'[i] = events[i + 1]
  BY <1>1, <1>2
<1>4. CachedRootsCurrent'
  <2> SUFFICES ASSUME NEW r \in Roots, \A i \in 1 .. Len(events') : events'[i] # r
               PROVE  cachedRoots'[r] = roots[r]
    BY <1>1 DEF CachedRootsCurrent, apiVars
  <2>1. CASE r = k
    BY <1>1, <1>2, <2>1 DEF TypeOK
  <2>2. CASE r # k
    <3>1. ASSUME NEW i \in 1 .. Len(events) PROVE events[i] # r
      <4>1. CASE i = 1
        BY <1>3, <2>2, <4>1
      <4>2. CASE i # 1
        <5>1. i - 1 \in 1 .. Len(events') /\ events'[i - 1] = events[i]
          BY <1>3, <4>2
        <5>2. QED
          BY <5>1
      <4>3. QED
        BY <4>1, <4>2
    <3>2. cachedRoots[r] = roots[r]
      BY <1>2, <3>1 DEF CachedRootsCurrent
    <3>3. QED
      BY <1>1, <1>2, <2>2, <3>2 DEF TypeOK
  <2>3. QED
    BY <2>1, <2>2
<1> HIDE DEF k
<1>5. JobsAndQueue'
  <2>1. \A r \in Roots : r \notin {k} => cachedRoots'[r] = cachedRoots[r]
    BY <1>1, <1>2 DEF TypeOK
  <2>2. QED
    BY <1>1, <1>3, <2>1, AddedOK DEF trackerVars
<1>6. RestTyped'
  <2>1. cachedRoots' \in [Roots -> RootObject] /\ cachedLeaves' \in [Leaves -> LeafObject]
    BY <1>1, <1>2 DEF TypeOK
  <2>2. QED
    BY <1>1, <1>2, <1>3, <2>1 DEF TypeOK, RestTyped, apiVars, trackerVars, outsideVars, boundVars, T!TypeOK
<1>7. QED
  BY <1>4, <1>5, <1>6, PartsNext

\* tracker.getIngress and the turns of the loop leave the tracker as it is.
LEMMA LoopTyped ==
  ASSUME T!TypeOK
  PROVE  /\ \A s \in Services : T!getIngress(s) => loop' \in T!Loop
         /\ \A j, r \in Roots : T!enqueueNext(j, r) => loop' \in T!Loop
<1>1. T!NoLoop \in T!Loop
  BY DEF T!NoLoop, T!Loop
<1>2. ASSUME NEW s \in Services, T!getIngress(s) PROVE loop' \in T!Loop
  <2>1. trackedServices[s] \in SUBSET Roots
    BY DEF T!TypeOK
  <2>2. QED
    BY <1>1, <1>2, <2>1 DEF T!getIngress, T!Loop
<1>3. ASSUME NEW j \in Roots, NEW r \in Roots, T!enqueueNext(j, r) PROVE loop' \in T!Loop
  <2>1. [loop EXCEPT !.slots = @ \ {j}, !.owed = @ \ {r}] \in T!Loop
    BY DEF T!TypeOK, T!Loop
  <2>2. QED
    BY <1>1, <1>3, <2>1 DEF T!enqueueNext
<1>4. QED
  BY <1>2, <1>3

LEMMA DeliverServiceIInv ==
  ASSUME IInv, NEW s \in Services, DeliverService(s)
  PROVE  IInv'
<1>1. /\ svcEvents' = svcEvents \ {s}
      /\ T!getIngress(s)
      /\ UNCHANGED <<apiVars, cachedRoots, cachedLeaves, events, queueVars, job,
                     answers, unlisted, boundVars>>
      /\ overlooked' = overlooked \union trackedServices[s]
                                   \union {r \in Roots : s \in Range(cachedRoots[r].rules)}
  BY DEF DeliverService
<1>2. TypeOK /\ CachedRootsCurrent /\ T!TypeOK /\ trackedServices[s] \subseteq Roots
  BY DEF IInv, TypeOK, T!TypeOK
<1>3. UNCHANGED <<trackedServices, ingressToServices>> /\ loop' \in T!Loop
  BY <1>1, <1>2, LoopTyped DEF T!getIngress
<1>4. JobsAndQueue'
  <2>1. job' = job /\ todo' = todo /\ failures' = failures /\ gaveUp' = gaveUp
        /\ cachedRoots' = cachedRoots /\ trackedServices' = trackedServices
    BY <1>1, <1>3 DEF queueVars
  <2>2. QED
    BY <2>1, SameJobsAndQueue
<1>5. RestTyped' /\ CachedRootsCurrent'
  <2>1. overlooked' \subseteq Roots
    BY <1>1, <1>2 DEF TypeOK
  <2>2. QED
    BY <1>1, <1>2, <1>3, <2>1 DEF TypeOK, RestTyped, CachedRootsCurrent, apiVars, boundVars, T!TypeOK
<1>6. QED
  BY <1>4, <1>5, PartsNext

LEMMA EnqueueNextIInv == ASSUME IInv, EnqueueNext PROVE IInv'
<1>1. PICK j \in loop.slots, r \in Roots :
        /\ T!enqueueNext(j, r)
        /\ Enqueue({r})
        /\ overlooked' = overlooked \ {r}
        /\ UNCHANGED <<apiVars, informerVars, job, answers, unlisted, boundVars>>
  BY DEF EnqueueNext
<1>2. TypeOK /\ CachedRootsCurrent /\ T!TypeOK
  BY DEF IInv, TypeOK
<1>3. j \in Roots
  BY <1>2 DEF T!TypeOK, T!Loop
<1>4. UNCHANGED <<trackedServices, ingressToServices>> /\ loop' \in T!Loop
  BY <1>1, <1>2, <1>3, LoopTyped DEF T!enqueueNext
<1>5. JobsAndQueue'
  <2>1. {r} \in SUBSET Keys
    BY DEF Keys
  <2>2. QED
    BY <1>1, <1>4, <2>1, AddedOK DEF informerVars
<1>6. RestTyped' /\ CachedRootsCurrent'
  BY <1>1, <1>2, <1>4 DEF TypeOK, RestTyped, CachedRootsCurrent, apiVars, informerVars, boundVars, T!TypeOK
<1>7. QED
  BY <1>5, <1>6, PartsNext

LEMMA ResyncIInv == ASSUME IInv, NEW k \in Keys, Resync(k) PROVE IInv'
<1>1. /\ Enqueue({k})
      /\ UNCHANGED <<apiVars, informerVars, trackerVars, job, outsideVars>>
  BY DEF Resync
<1>2. JobsAndQueue'
  BY <1>1, AddedOK DEF informerVars, trackerVars
<1>3. RestTyped' /\ CachedRootsCurrent'
  BY <1>1 DEF IInv, TypeOK, RestTyped, CachedRootsCurrent, apiVars, informerVars, trackerVars,
              outsideVars, boundVars, T!TypeOK
<1>4. QED
  BY <1>2, <1>3, PartsNext

LEMMA RestartIInv == ASSUME IInv, Restart PROVE IInv'
<1> DEFINE alive(k) == IF k \in Roots THEN roots[k].live ELSE leaves[k].live
<1>1. /\ restarts < MaxRestarts /\ restarts' = restarts + 1
      /\ cachedRoots' = roots /\ cachedLeaves' = leaves
      /\ events' = <<>> /\ svcEvents' = {}
      /\ todo' = {k \in Keys : alive(k)}
      /\ failures' = [k \in Keys |-> IF alive(k) THEN Bump(0) ELSE 0]
      /\ gaveUp' = {}
      /\ trackedServices' = [s \in Services |-> {}]
      /\ ingressToServices' = [r \in Roots |-> {}]
      /\ loop' = T!NoLoop
      /\ job' = [w \in Workers |-> NoJob]
      /\ overlooked' = {}
      /\ unlisted' = {}
      /\ UNCHANGED <<apiVars, answers, changes, faults>>
  BY DEF Restart
<1>2. TypeOK
  BY DEF IInv
<1>3. RestTyped' /\ CachedRootsCurrent'
  <2>1. events' \in Seq(Keys) /\ T!TypeOK' /\ restarts' \in 0 .. MaxRestarts
    BY <1>1, <1>2, ConstantsAssumption DEF TypeOK, T!TypeOK, T!NoLoop, T!Loop
  <2>2. QED
    BY <1>1, <1>2, <2>1 DEF TypeOK, RestTyped, CachedRootsCurrent, apiVars
<1>4. JobsShaped' /\ JobsTracked' /\ KeysExclusive'
  BY <1>1, NoJobIsJob, Disjoint DEF JobsShaped, JobsTracked, JobTracked, KeysExclusive, NoJob
<1>5. TrackedOrPending'
  BY <1>1 DEF TrackedOrPending, Keys, apiVars
<1>6. JobsAndQueue'
  <2>1. failures' \in [Keys -> 0 .. MaxRetries]
    BY <1>1, BumpType, ConstantsAssumption
  <2>2. job' \in [Workers -> Job]
    BY <1>1, NoJobIsJob
  <2>3. QED
    BY <1>1, <1>4, <1>5, <2>1, <2>2 DEF JobsAndQueue
<1>7. QED
  BY <1>3, <1>6, PartsNext

\* Nobody outside touches the controller's memory or the indexer.
LEMMA OutsideOK ==
  ASSUME IInv, NEW action, Outside(action)
  PROVE  /\ JobsAndQueue'
         /\ UNCHANGED <<dns, hosts, cachedRoots, cachedLeaves, trackerVars, overlooked, unlisted, faults, restarts>>
         /\ changes' \in 0 .. MaxChanges
<1>1. /\ changes < MaxChanges /\ changes' = changes + 1
      /\ UNCHANGED <<dns, hosts, cachedRoots, cachedLeaves, queueVars, trackerVars, job,
                     overlooked, unlisted, faults, restarts>>
  BY DEF Outside
<1>2. changes' \in 0 .. MaxChanges
  BY <1>1, ConstantsAssumption DEF IInv, TypeOK
<1>3. JobsAndQueue'
  <2>1. job' = job /\ todo' = todo /\ failures' = failures /\ gaveUp' = gaveUp
        /\ cachedRoots' = cachedRoots /\ trackedServices' = trackedServices
    BY <1>1 DEF queueVars, trackerVars
  <2>2. JobsShaped' /\ JobsTracked' /\ KeysExclusive' /\ TrackedOrPending'
    BY <2>1 DEF IInv, JobsShaped, JobsTracked, KeysExclusive, TrackedOrPending, Busy
  <2>3. QED
    BY <2>1, <2>2 DEF IInv, TypeOK, JobsAndQueue
<1>4. QED
  BY <1>1, <1>2, <1>3

LEMMA OutsideRoot ==
  ASSUME IInv, NEW action, Outside(action), NEW r \in Roots, NEW obj \in RootObject,
         WriteRoot(r, obj), UNCHANGED <<leaves, services, svcEvents, answers>>
  PROVE  IInv'
<1>1. TypeOK /\ CachedRootsCurrent /\ cachedRoots' = cachedRoots
  BY OutsideOK DEF IInv
<1>2. roots' \in [Roots -> RootObject] /\ events' \in Seq(Keys) /\ CachedRootsCurrent'
  BY <1>1, WriteRootOK
<1>3. RestTyped'
  BY <1>1, <1>2, OutsideOK DEF TypeOK, RestTyped, trackerVars, T!TypeOK
<1>4. QED
  BY <1>2, <1>3, OutsideOK, PartsNext

LEMMA OutsideLeaf ==
  ASSUME IInv, NEW action, Outside(action), NEW l \in Leaves, NEW obj \in LeafObject,
         WriteLeaf(l, obj), UNCHANGED <<roots, services, svcEvents, answers>>
  PROVE  IInv'
<1>1. TypeOK /\ CachedRootsCurrent /\ cachedRoots' = cachedRoots
  BY OutsideOK DEF IInv
<1>2. leaves' \in [Leaves -> LeafObject] /\ events' \in Seq(Keys) /\ CachedRootsCurrent'
  BY <1>1, WriteLeafOK
<1>3. RestTyped'
  BY <1>1, <1>2, OutsideOK DEF TypeOK, RestTyped, trackerVars, T!TypeOK
<1>4. QED
  BY <1>2, <1>3, OutsideOK, PartsNext

LEMMA OutsideService ==
  ASSUME IInv, NEW action, Outside(action), NEW s \in Services,
         NEW c \in Clusters \union {NoCluster, Missing},
         services' = [services EXCEPT ![s] = c],
         svcEvents' \subseteq svcEvents \union {s},
         UNCHANGED <<roots, leaves, events, answers>>
  PROVE  IInv'
<1>1. TypeOK /\ CachedRootsCurrent /\ cachedRoots' = cachedRoots
  BY OutsideOK DEF IInv
<1>2. RestTyped' /\ CachedRootsCurrent'
  BY <1>1, OutsideOK DEF TypeOK, RestTyped, CachedRootsCurrent, trackerVars, T!TypeOK
<1>3. QED
  BY <1>2, OutsideOK, PartsNext

LEMMA OutsideAddress ==
  ASSUME IInv, NEW lb \in LoadBalancers, ChangeAddress(lb)
  PROVE  IInv'
<1>1. /\ Outside("changeAddress")
      /\ answers' = [answers EXCEPT ![lb] = ~ answers[lb]]
      /\ UNCHANGED <<roots, leaves, services, events, svcEvents>>
  BY DEF ChangeAddress
<1>2. TypeOK /\ CachedRootsCurrent /\ answers \in [LoadBalancers -> BOOLEAN]
  BY DEF IInv, TypeOK
<1>3. /\ UNCHANGED <<dns, hosts, cachedRoots, cachedLeaves, trackerVars, overlooked, unlisted, faults, restarts>>
      /\ JobsAndQueue' /\ changes' \in 0 .. MaxChanges
  BY <1>1, OutsideOK
<1>4. answers' \in [LoadBalancers -> BOOLEAN]
  BY <1>1, <1>2, Zenon
<1>5. RestTyped' /\ CachedRootsCurrent'
  BY <1>1, <1>2, <1>3, <1>4 DEF TypeOK, RestTyped, CachedRootsCurrent, trackerVars, T!TypeOK
<1>6. QED
  BY <1>3, <1>5, PartsNext

LEMMA EnvironmentIInv == ASSUME IInv, Environment PROVE IInv'
<1> USE OutsideRoot, OutsideLeaf
<1>0. /\ \A r \in Roots : roots[r] \in RootObject /\ roots[r].rv \in Nat
      /\ \A l \in Leaves : leaves[l] \in LeafObject /\ leaves[l].rv \in Nat
      /\ \A r \in Roots : RulesOf[r] \subseteq Seq(Services)
  BY ConstantsAssumption DEF IInv, TypeOK, RootObject, LeafObject
<1>1. ASSUME NEW r \in Roots, DeleteRoot(r) PROVE IInv'
  BY <1>0, <1>1, NoObjects DEF DeleteRoot
<1>2. ASSUME NEW r \in Roots, NEW rules \in RulesOf[r], CreateRoot(r, rules) PROVE IInv'
  <2>1. [NoRoot(roots[r].rv) EXCEPT !.live = TRUE, !.rules = rules] \in RootObject
    BY <1>0, <1>2 DEF NoRoot, RootObject, Hostname
  <2>2. QED
    BY <1>2, <2>1 DEF CreateRoot
<1>3. ASSUME NEW r \in Roots, NEW rules \in RulesOf[r], UpdateRoot(r, rules) PROVE IInv'
  <2>1. [roots[r] EXCEPT !.rules = rules] \in RootObject
    BY <1>0, <1>3, RootFields
  <2>2. QED
    BY <1>3, <2>1 DEF UpdateRoot
<1>4. ASSUME NEW s \in Services, RemoveService(s) PROVE IInv'
  BY <1>4, OutsideService DEF RemoveService
<1>5. ASSUME NEW s \in Services, NEW c \in Clusters \union {NoCluster}, PlaceService(s, c)
      PROVE  IInv'
  BY <1>5, OutsideService DEF PlaceService
<1>6. ASSUME NEW l \in Leaves, Pin(l) PROVE IInv'
  <2>1. [leaves[l] EXCEPT !.pinned = TRUE] \in LeafObject
    BY <1>0 DEF LeafObject
  <2>2. QED
    BY <1>6, <2>1 DEF Pin
<1>7. ASSUME NEW l \in Leaves, Unpin(l) PROVE IInv'
  <2> DEFINE obj == IF leaves[l].deleting THEN NoLeaf(leaves[l].rv)
                                          ELSE [leaves[l] EXCEPT !.pinned = FALSE]
  <2>1. [leaves[l] EXCEPT !.pinned = FALSE] \in LeafObject
    BY <1>0 DEF LeafObject
  <2>2. obj \in LeafObject
    BY <1>0, <2>1, NoObjects
  <2>3. WriteLeaf(l, obj) /\ Outside("unpin") /\ UNCHANGED <<roots, services, svcEvents, answers>>
    BY <1>7 DEF Unpin
  <2> HIDE DEF obj
  <2>4. QED
    BY <2>2, <2>3
<1>8. ASSUME NEW l \in Leaves, NEW lbs \in SUBSET LoadBalancers, ReportStatus(l, lbs) PROVE IInv'
  <2>1. [leaves[l] EXCEPT !.lb = lbs] \in LeafObject
    BY <1>0 DEF LeafObject
  <2>2. QED
    BY <1>8, <2>1 DEF ReportStatus
<1>9. ASSUME NEW lb \in LoadBalancers, ChangeAddress(lb) PROVE IInv'
  BY <1>9, OutsideAddress
<1>10. QED
  BY <1>1, <1>2, <1>3, <1>4, <1>5, <1>6, <1>7, <1>8, <1>9 DEF Environment

-----------------------------------------------------------------------------
(* The theorems. *)

LEMMA InitIInv == Init => IInv
<1> SUFFICES ASSUME Init PROVE IInv
  OBVIOUS
<1>1. RestTyped /\ CachedRootsCurrent
  <2>1. events \in Seq(Keys) /\ T!TypeOK
    BY DEF Init, T!Init, T!TypeOK, T!NoLoop, T!Loop
  <2>2. QED
    BY <2>1, NoObjects, ConstantsAssumption DEF Init, RestTyped, CachedRootsCurrent
<1>2. JobsShaped /\ JobsTracked /\ KeysExclusive
  BY NoJobIsJob, Disjoint DEF Init, JobsShaped, JobsTracked, JobTracked, KeysExclusive, NoJob
<1>3. TrackedOrPending
  BY DEF Init, TrackedOrPending, NoRoot
<1>4. JobsAndQueue
  BY <1>2, <1>3, NoJobIsJob, ConstantsAssumption DEF Init, JobsAndQueue
<1>5. QED
  BY <1>1, <1>4, Parts

LEMMA NextIInv == IInv /\ [Next]_vars => IInv'
<1> SUFFICES ASSUME IInv, [Next]_vars PROVE IInv'
  OBVIOUS
<1>1. ASSUME NEW w \in Workers, Worker(w) PROVE IInv'
  BY <1>1, PatchIInv, ListIInv, GetServiceIInv, TrackIInv, DeleteLeafIInv, CreateLeafIInv,
     ReadLeafIInv, UpdateLeafIInv, ReadRootIInv, ReconcileDNSIInv,
     RejectRecordIInv, UpdateStatusIInv
     DEF Worker
<1>2. ASSUME NEW w \in Workers, CallFails(w) PROVE IInv'
  BY <1>2, CallFailsIInv
<1>3. ASSUME NEW w \in Workers, NEW k \in Keys, Begin(w, k) PROVE IInv'
  BY <1>3, ProcessDeletedIInv, BeginRootIInv, BeginLeafIInv DEF Begin
<1>4. CASE Deliver
  BY <1>4, DeliverIInv
<1>5. ASSUME NEW s \in Services, DeliverService(s) PROVE IInv'
  BY <1>5, DeliverServiceIInv
<1>6. ASSUME NEW k \in Keys, Resync(k) PROVE IInv'
  BY <1>6, ResyncIInv
<1>7. CASE Restart
  BY <1>7, RestartIInv
<1>8. CASE Environment
  BY <1>8, EnvironmentIInv
<1>9. CASE UNCHANGED vars
  <2>1. UNCHANGED <<apiVars, informerVars, queueVars, trackerVars, job, outsideVars>>
    BY <1>9 DEF vars
  <2>2. RestTyped' /\ CachedRootsCurrent'
    BY <2>1 DEF IInv, TypeOK, RestTyped, CachedRootsCurrent, apiVars, informerVars, trackerVars,
                outsideVars, boundVars, T!TypeOK
  <2>3. job' = job /\ todo' = todo /\ failures' = failures /\ gaveUp' = gaveUp
        /\ cachedRoots' = cachedRoots /\ trackedServices' = trackedServices
    BY <2>1 DEF queueVars, informerVars, trackerVars
  <2>4. JobsAndQueue'
    BY <2>3, SameJobsAndQueue
  <2>5. QED
    BY <2>2, <2>4, PartsNext
<1>10. CASE EnqueueNext
  BY <1>10, EnqueueNextIInv
<1>11. QED
  BY <1>1, <1>2, <1>3, <1>4, <1>5, <1>6, <1>7, <1>8, <1>9, <1>10 DEF Next

\* process and reconcile: every step of a worker, an informer, a user or a restart
\* keeps the jobs, the queue, the tracker and the cache consistent.
THEOREM InductiveInvariant == Spec => []IInv
BY InitIInv, NextIInv, PTL DEF Spec

\* Every variable of the controller, the indexer and the API server keeps its
\* type: only leaves and roots that can exist are written.
THEOREM TypeCorrect == Spec => []TypeOK
BY InductiveInvariant, PTL DEF IInv

\* desiredLeaves, ingress.go:277: once everything is quiet, each Service of a live
\* root that was not dropped tracks it.
THEOREM TrackingConverges == Spec => []RootsTracked
<1>1. IInv => RootsTracked
  <2> SUFFICES ASSUME IInv, NEW r \in Roots, roots[r].live, Settled(r),
                      NEW s \in Range(roots[r].rules)
               PROVE  r \in trackedServices[s]
    BY DEF RootsTracked
  <2>1. events = <<>> /\ todo = {} /\ Busy = {} /\ r \notin gaveUp
    BY DEF Settled, Quiet
  <2>2. cachedRoots[r] = roots[r]
    BY <2>1 DEF IInv, CachedRootsCurrent
  <2>3. QED
    BY <2>1, <2>2 DEF IInv, TrackedOrPending
<1>2. QED
  BY <1>1, InductiveInvariant, PTL

=============================================================================
