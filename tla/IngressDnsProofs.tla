-------------------------- MODULE IngressDnsProofs --------------------------
(***************************************************************************)
(* More proofs about IngressController, for any constants: once everything *)
(* is quiet the DNSRecord of a leaf that was not dropped is the one its    *)
(* load balancers and the present hostname of its root ask for, and the    *)
(* status of a root that has but one leaf is the status of that leaf.      *)
(*                                                                         *)
(* A leaf and its root reach the indexer in either order, and a hostname   *)
(* may be replaced by another.  A leaf that was written since, or whose    *)
(* job read the hostname the indexer has now, will have the right record;  *)
(* one with an older hostname waits for its root, whose job then deletes   *)
(* the leaf or writes it, and so has it reconciled again.  A root that was *)
(* deleted and created again has another hostname, so the same argument    *)
(* says who writes its status.                                             *)
(***************************************************************************)
EXTENDS IngressLeavesProofs

-----------------------------------------------------------------------------
(* The inductive invariant. *)

\* A leaf without a pending event is in the indexer as it is in the API server.
CachedLeavesCurrent == \A l \in Leaves : ~ Pending(l, events) => cachedLeaves[l] = leaves[l]

\* Hostnames are drawn from xid.New, whoever has them.
HostsDrawn ==
  /\ \A r \in Roots : /\ roots[r].host \in Nat => roots[r].host <= hosts
                      /\ cachedRoots[r].host \in Nat => cachedRoots[r].host <= hosts
  /\ \A l \in Leaves : leaves[l].host \in Nat => leaves[l].host <= hosts
  /\ \A w \in Workers : job[w].host \in Nat => job[w].host <= hosts

\* Only a root that exists has a hostname.
HostsLive ==
  \A r \in Roots : /\ roots[r].host # NoHost => roots[r].live
                   /\ cachedRoots[r].host # NoHost => cachedRoots[r].live

\* The present hostname of a root went through the indexer before it reached a job
\* or a leaf of the root.
HostSeen(r) ==
  roots[r].host # NoHost /\ cachedRoots[r].host # roots[r].host =>
    /\ \A c \in Clusters : leaves[<<r, c>>].host # roots[r].host
    /\ \A w \in Workers : job[w].key = r => job[w].host # roots[r].host

\* The key will be reconciled for what happened last, or was dropped.
Attended(k) == \/ Pending(k, events)
               \/ k \in todo
               \/ k \notin Busy /\ k \in gaveUp

\* A root of the indexer without a hostname will be given one, or was dropped.
HostComing(r) ==
  cachedRoots[r].live /\ cachedRoots[r].host = NoHost =>
    Attended(r) \/ \E w \in Workers : job[w].key = r /\ job[w].at = "patch"

\* The record is the one the leaf asks for, with the hostname of the indexer.
RecordRight(l) ==
  IF leaves[l].lb = {}
  THEN dns[l] = NoRecord
  ELSE /\ dns[l] # NoRecord
       /\ dns[l].host = cachedRoots[l[1]].host
       /\ {target[1] : target \in dns[l].targets} = leaves[l].lb \ Unaddressed

\* The status is the leaf's, if the indexer knows the root by its present hostname.
StatusRight(l) ==
  /\ OnlyLeaf(l)
  /\ cachedRoots[l[1]].host # NoHost
  /\ roots[l[1]].host = cachedRoots[l[1]].host
  => roots[l[1]].status = leaves[l].lb

\* A job on a leaf that has what record and status are to be made of, as far as it has
\* come.
JobRight(j) ==
  /\ OnlyLeaf(j.key) => j.lbs = leaves[j.key].lb
  /\ j.at \in {"root", "dns"} => j.own = leaves[j.key].lb /\ ~ j.deleting
  /\ j.at = "dns" => j.host = cachedRoots[j.key[1]].host
  /\ j.at = "status" => RecordRight(j.key)

\* The leaf will be reconciled, is in good hands, or was dropped or dealt with.
LeafSeen(l) ==
  \/ Attended(l)
  \/ l \notin Busy /\ RecordRight(l) /\ StatusRight(l)
  \/ \E w \in Workers : job[w].key = l /\ JobRight(job[w])

\* A job on a root that has still to come to the leaf.
JobAwaited(j, l) ==
  \/ j.at \in {"patch", "list"}
  \/ j.at \in {"get", "track", "delete"} /\ l \in j.drop
  \/ j.at \in {"delete", "create", "read", "update"} /\ l \in Range(j.want)

\* The root will be reconciled, has still to come to the leaf, or was dropped.
RootAwaited(l) ==
  Attended(l[1]) \/ \E w \in Workers : job[w].key = l[1] /\ JobAwaited(job[w], l)

\* The leaf's record and its root's status are right, or somebody will see to it: the leaf's own worker or,
\* as long as the leaf has another hostname than its root, the root's.
LeafServed(l) ==
  leaves[l].live /\ ~ leaves[l].deleting /\ cachedRoots[l[1]].host # NoHost =>
    LeafSeen(l) \/ (leaves[l].host # cachedRoots[l[1]].host /\ RootAwaited(l))

HostsOK == /\ CachedLeavesCurrent
           /\ HostsDrawn
           /\ HostsLive
           /\ \A r \in Roots : HostSeen(r)

DInv == /\ HostsOK
        /\ \A r \in Roots : HostComing(r)
        /\ \A l \in Leaves : LeafServed(l)

-----------------------------------------------------------------------------
(* What a step must not touch. *)

\* A step that takes no key off the events, the queue and the dropped keys.
Remembered(k) == /\ Pending(k, events) => Pending(k, events') \/ k \in todo'
                 /\ k \in todo => k \in todo'
                 /\ k \notin Busy => k \notin Busy' /\ (k \in gaveUp => k \in gaveUp')

LEMMA AttendedStays ==
  ASSUME NEW k, Remembered(k), Attended(k)
  PROVE  Attended(k)'
BY DEF Remembered, Attended

\* A worker that has a key forgets no other.
LEMMA KeysRemembered ==
  ASSUME IInv, NEW w \in Workers, NEW j,
         job' = [job EXCEPT ![w] = j], j.key \in {job[w].key, NoKey},
         todo \subseteq todo', gaveUp \ {job[w].key} \subseteq gaveUp',
         \A k : Pending(k, events) => Pending(k, events')
  PROVE  \A k \in Keys : Remembered(k)
<1> SUFFICES ASSUME NEW k \in Keys PROVE Remembered(k)
  OBVIOUS
<1>1. \A v \in Workers : job'[v].key \in {job[v].key, NoKey}
  BY DEF IInv, TypeOK
<1>2. k # NoKey
  BY Disjoint DEF Keys
<1>3. ASSUME k \notin Busy PROVE k \notin Busy' /\ k # job[w].key
  BY <1>1, <1>2, <1>3 DEF Busy
<1>4. QED
  BY <1>3 DEF Remembered

LEMMA HostComingStays ==
  ASSUME NEW r \in Roots, HostComing(r), Remembered(r), cachedRoots'[r] = cachedRoots[r],
         \A w \in Workers : job[w].key = r /\ job[w].at = "patch"
                            => job'[w] = job[w] \/ Attended(r)'
  PROVE  HostComing(r)'
BY AttendedStays DEF HostComing

\* A step that writes no status, but to give the root another hostname or none.
StatusKept(l) ==
  OnlyLeaf(l) /\ roots'[l[1]].host = cachedRoots[l[1]].host =>
    \/ roots'[l[1]].host = NoHost
    \/ /\ roots'[l[1]].host = roots[l[1]].host
       /\ roots'[l[1]].status = roots[l[1]].status

LEMMA StatusUntouched ==
  ASSUME UNCHANGED roots
  PROVE  \A l \in Leaves : StatusKept(l)
BY DEF StatusKept

LEMMA LeafSeenStays ==
  ASSUME NEW l \in Leaves, LeafSeen(l), Remembered(l), StatusKept(l),
         leaves'[l] = leaves[l] \/ Pending(l, events'),
         cachedRoots'[l[1]].host = cachedRoots[l[1]].host, dns'[l] = dns[l],
         \A w \in Workers : job[w].key = l => job'[w] = job[w]
  PROVE  LeafSeen(l)'
<1>1. CASE Pending(l, events')
  BY <1>1 DEF LeafSeen, Attended
<1>2. CASE Attended(l)
  BY <1>2, AttendedStays DEF LeafSeen
<1>3. CASE leaves'[l] = leaves[l] /\ l \notin Busy
               /\ RecordRight(l) /\ StatusRight(l)
  <2>1. RecordRight(l)' /\ StatusRight(l)'
    BY <1>3 DEF RecordRight, StatusRight, StatusKept
  <2>2. l \notin Busy'
    BY <1>3 DEF Remembered
  <2>3. QED
    BY <2>1, <2>2 DEF LeafSeen
<1>4. CASE leaves'[l] = leaves[l] /\ \E w \in Workers : job[w].key = l /\ JobRight(job[w])
  <2> PICK w \in Workers : job[w].key = l /\ JobRight(job[w])
    BY <1>4
  <2> PICK j : j = job[w]
    OBVIOUS
  <2>1. j.key = l /\ JobRight(j) /\ job'[w] = j
    OBVIOUS
  <2>2. JobRight(j)'
    BY <1>4, <2>1 DEF JobRight, RecordRight
  <2>3. QED
    BY <2>1, <2>2 DEF LeafSeen
<1>5. QED
  BY <1>1, <1>2, <1>3, <1>4 DEF LeafSeen

LEMMA RootAwaitedStays ==
  ASSUME NEW l \in Leaves, RootAwaited(l), Remembered(l[1]),
         \A w \in Workers : job[w].key = l[1] => job'[w] = job[w]
  PROVE  RootAwaited(l)'
BY AttendedStays DEF RootAwaited

LEMMA LeafServedStays ==
  ASSUME NEW l \in Leaves, LeafServed(l), Remembered(l), Remembered(l[1]), StatusKept(l),
         leaves'[l] = leaves[l] \/ Pending(l, events'),
         cachedRoots'[l[1]].host = cachedRoots[l[1]].host, dns'[l] = dns[l],
         \A w \in Workers : job[w].key \in {l, l[1]} => job'[w] = job[w]
  PROVE  LeafServed(l)'
<1>1. CASE Pending(l, events')
  BY <1>1 DEF LeafServed, LeafSeen, Attended
<1>2. CASE leaves'[l] = leaves[l]
  BY <1>2, LeafSeenStays, RootAwaitedStays DEF LeafServed
<1>3. QED
  BY <1>1, <1>2

\* Hostnames move from the indexer to jobs and from jobs to leaves.
LEMMA HostsMove ==
  ASSUME IInv, HostsOK, UNCHANGED <<cachedRoots, cachedLeaves, hosts>>,
         \A k : Pending(k, events) => Pending(k, events'),
         \A l \in Leaves : leaves'[l] = leaves[l] \/ Pending(l, events'),
         \A l \in Leaves : \/ leaves'[l].host \in {leaves[l].host, NoHost}
                           \/ \E w \in Workers : /\ job[w].key = l[1]
                                                 /\ leaves'[l].host = job[w].host,
         \A r \in Roots : \/ roots'[r].host = NoHost
                          \/ /\ roots'[r].host = roots[r].host
                             /\ roots[r].live => roots'[r].live,
         \A w \in Workers : \/ job'[w].host = NoHost
                            \/ job'[w].key = job[w].key /\ job'[w].host = job[w].host
                            \/ \E r \in Roots : /\ job'[w].host = cachedRoots[r].host
                                                /\ job'[w].key \in {r} \union Leaves
  PROVE  HostsOK'
<1>0. NoHost \notin Nat
  BY ConstantsAssumption
<1>1. CachedLeavesCurrent'
  BY DEF HostsOK, CachedLeavesCurrent
<1>2. HostsDrawn'
  BY <1>0 DEF HostsOK, HostsDrawn
<1>3. HostsLive'
  BY DEF HostsOK, HostsLive
<1>4. ASSUME NEW r \in Roots PROVE HostSeen(r)'
  <2> SUFFICES ASSUME roots'[r].host # NoHost, cachedRoots[r].host # roots'[r].host
               PROVE  /\ \A c \in Clusters : leaves'[<<r, c>>].host # roots'[r].host
                      /\ \A w \in Workers : job'[w].key = r => job'[w].host # roots'[r].host
    BY DEF HostSeen
  <2>1. /\ roots'[r].host = roots[r].host
        /\ \A c \in Clusters : leaves[<<r, c>>].host # roots[r].host
        /\ \A w \in Workers : job[w].key = r => job[w].host # roots[r].host
    BY DEF HostsOK, HostSeen
  <2>2. \A c \in Clusters : <<r, c>> \in Leaves /\ <<r, c>>[1] = r
    BY DEF Leaves
  <2>3. QED
    BY <2>1, <2>2, Disjoint
<1>5. QED
  BY <1>1, <1>2, <1>3, <1>4 DEF HostsOK

-----------------------------------------------------------------------------
(* The steps of a worker. *)

\* The keys of leaves and of their roots.
LEMMA LeafKeys ==
  ASSUME NEW l \in Leaves
  PROVE  /\ l \in Keys /\ l[1] \in Keys /\ l[1] \in Roots /\ l \notin Roots /\ l[1] # l
         /\ l # NoKey /\ l[1] # NoKey
<1>1. l[1] \in Roots
  BY DEF Leaves
<1>2. QED
  BY <1>1, Disjoint DEF Keys

\* The job of a worker is replaced by one that goes on with the hostname it had, or is
\* over.
LEMMA JobHosts ==
  ASSUME IInv, HostsOK, NEW w \in Workers, NEW j,
         job' = [job EXCEPT ![w] = j],
         \/ j.host = NoHost
         \/ j.key = job[w].key /\ j.host = job[w].host,
         UNCHANGED <<cachedRoots, cachedLeaves, hosts>>,
         \A k : Pending(k, events) => Pending(k, events'),
         \A l \in Leaves : leaves'[l] = leaves[l] \/ Pending(l, events'),
         \A l \in Leaves : \/ leaves'[l].host \in {leaves[l].host, NoHost}
                           \/ job[w].key = l[1] /\ leaves'[l].host = job[w].host,
         \A r \in Roots : \/ roots'[r].host = NoHost
                          \/ /\ roots'[r].host = roots[r].host
                             /\ roots[r].live => roots'[r].live
  PROVE  HostsOK'
<1>1. \A v \in Workers : \/ job'[v].host = NoHost
                         \/ job'[v].key = job[v].key /\ job'[v].host = job[v].host
  BY DEF IInv, TypeOK
<1>2. QED
  BY <1>1, HostsMove

\* A worker meets an error: its key is owed or dropped.
LEMMA FailAttends ==
  ASSUME IInv, DInv, NEW w \in Workers, job[w].at # "idle", Fail(w),
         UNCHANGED <<roots, leaves, dns, hosts, cachedRoots, cachedLeaves, events>>
  PROVE  DInv'
<1> PICK k : k = job[w].key
  OBVIOUS
<1>1. /\ job' = [job EXCEPT ![w] = NoJob]
      /\ todo \subseteq todo' /\ gaveUp \subseteq gaveUp'
      /\ k \in todo' \union gaveUp'
  BY FailsTo
<1>2. /\ k \in Keys
      /\ \A v \in Workers : v # w => job[v].key # k /\ job'[v] = job[v]
      /\ job'[w] = NoJob /\ NoJob.key = NoKey /\ NoJob.host = NoHost
  BY <1>1, OwnKey DEF IInv, TypeOK, NoJob
<1>3. Attended(k)'
  <2>1. k \notin Busy'
    BY <1>2, Disjoint DEF Busy, Keys
  <2>2. QED
    BY <1>1, <2>1 DEF Attended
<1>4. \A x \in Keys : Remembered(x)
  BY <1>1, <1>2, KeysRemembered
<1>5. HostsOK'
  BY <1>1, <1>2, JobHosts DEF DInv
<1>6. ASSUME NEW r \in Roots PROVE HostComing(r)'
  <2>1. \A v \in Workers : job[v].key = r => job'[v] = job[v] \/ Attended(r)'
    BY <1>2, <1>3
  <2>2. HostComing(r) /\ Remembered(r)
    BY <1>4 DEF DInv, Keys
  <2>3. QED
    BY <2>1, <2>2, HostComingStays
<1>7. ASSUME NEW l \in Leaves PROVE LeafServed(l)'
  <2>1. LeafServed(l) /\ Remembered(l) /\ Remembered(l[1])
    BY <1>4, LeafKeys DEF DInv
  <2>2. CASE k = l
    BY <1>3, <2>2 DEF LeafServed, LeafSeen
  <2>3. CASE k = l[1]
    <3>1. RootAwaited(l)'
      BY <1>3, <2>3 DEF RootAwaited
    <3>2. LeafSeen(l) => LeafSeen(l)'
      BY <1>2, <2>1, <2>3, LeafKeys, StatusUntouched, LeafSeenStays
    <3>3. QED
      BY <2>1, <3>1, <3>2 DEF LeafServed
  <2>4. CASE k \notin {l, l[1]}
    BY <1>2, <2>1, <2>4, StatusUntouched, LeafServedStays
  <2>5. QED
    BY <2>2, <2>3, <2>4
<1>8. QED
  BY <1>5, <1>6, <1>7 DEF DInv

\* A worker on a root goes on: the leaves that wait for it are still to come, or have
\* been written.
LEMMA RootGoesOn ==
  ASSUME IInv, DInv, NEW w \in Workers, NEW i, NEW j, NEW r \in Roots,
         i = job[w], i.key = r, i.at \notin {"idle", "patch"},
         Continue(w, j), j.key = r, j.host = i.host,
         UNCHANGED <<roots, dns, hosts, cachedRoots, cachedLeaves>>,
         \A k : Pending(k, events) => Pending(k, events'),
         \A l \in Leaves : leaves'[l] = leaves[l] \/ Pending(l, events'),
         \A l \in Leaves : \/ leaves'[l].host \in {leaves[l].host, NoHost}
                           \/ l[1] = r /\ leaves'[l].host = i.host,
         \A l \in Leaves : /\ l[1] = r /\ r \notin todo
                           /\ leaves'[l] = leaves[l] /\ ~ Pending(l, events)
                           /\ leaves[l].live /\ ~ leaves[l].deleting
                           /\ leaves[l].host # cachedRoots[r].host
                           /\ JobAwaited(i, l)
                           => JobAwaited(j, l)
  PROVE  DInv'
<1> PICK k : k = IF j.at = "idle" THEN NoJob ELSE j
  OBVIOUS
<1>1. /\ job' = [job EXCEPT ![w] = k]
      /\ todo' = todo /\ gaveUp \ {r} \subseteq gaveUp'
      /\ k.key \in {r, NoKey}
      /\ \/ k.host = NoHost
         \/ k.key = r /\ k.host = i.host
  BY DEF Continue, Succeed, queueVars, NoJob
<1>2. /\ \A v \in Workers : v # w => job[v].key # r /\ job'[v] = job[v]
      /\ job'[w] = k
  BY <1>1, OwnKey DEF IInv, TypeOK
<1>3. \A x \in Keys : Remembered(x)
  BY <1>1, KeysRemembered
<1>4. HostsOK'
  BY <1>1, JobHosts DEF DInv
<1>5. ASSUME NEW x \in Roots PROVE HostComing(x)'
  <2>1. \A v \in Workers : job[v].key = x /\ job[v].at = "patch" => job'[v] = job[v]
    BY <1>2
  <2>2. HostComing(x) /\ Remembered(x)
    BY <1>3 DEF DInv, Keys
  <2>3. QED
    BY <2>1, <2>2, HostComingStays
<1>6. ASSUME NEW l \in Leaves PROVE LeafServed(l)'
  <2>1. LeafServed(l) /\ Remembered(l) /\ Remembered(l[1])
    BY <1>3, LeafKeys DEF DInv
  <2>2. \A v \in Workers : job[v].key = l => job'[v] = job[v]
    BY <1>2, LeafKeys
  <2>3. CASE l[1] # r
    BY <1>2, <2>1, <2>2, <2>3, StatusUntouched, LeafServedStays
  <2>4. CASE l[1] = r
    <3>1. CASE Pending(l, events')
      BY <3>1 DEF LeafServed, LeafSeen, Attended
    <3>2. CASE LeafSeen(l)
      BY <2>1, <2>2, <3>2, StatusUntouched, LeafSeenStays DEF LeafServed
    <3>3. CASE ~ Pending(l, events') /\ ~ LeafSeen(l)
      <4> SUFFICES ASSUME leaves'[l].live, ~ leaves'[l].deleting, cachedRoots'[r].host # NoHost
                   PROVE  leaves'[l].host # cachedRoots'[r].host /\ RootAwaited(l)'
        BY <2>4 DEF LeafServed
      <4>1. /\ leaves'[l] = leaves[l] /\ ~ Pending(l, events)
            /\ leaves[l].host # cachedRoots[r].host /\ RootAwaited(l)
        BY <2>1, <2>4, <3>3 DEF LeafServed
      <4>2. CASE Attended(r)
        BY <2>1, <2>4, <4>1, <4>2, AttendedStays DEF RootAwaited
      <4>3. CASE ~ Attended(r)
        <5>1. JobAwaited(i, l) /\ r \notin todo
          BY <1>2, <2>4, <4>1, <4>3 DEF RootAwaited, Attended
        <5>2. JobAwaited(j, l)
          BY <2>4, <4>1, <5>1
        <5>3. j.at # "idle"
          BY <5>2 DEF JobAwaited
        <5>4. job'[w].key = r /\ JobAwaited(job'[w], l)
          BY <1>2, <5>2, <5>3
        <5>5. QED
          BY <2>4, <4>1, <5>4 DEF RootAwaited
      <4>4. QED
        BY <4>2, <4>3
    <3>4. QED
      BY <3>1, <3>2, <3>3
  <2>5. QED
    BY <2>3, <2>4
<1>7. QED
  BY <1>4, <1>5, <1>6 DEF DInv

\* A leaf that is written is pending, if that changes it.
LEMMA LeafPends ==
  ASSUME TypeOK, NEW l \in Leaves, NEW obj \in LeafObject, WriteLeaf(l, obj)
  PROVE  /\ \A k : Pending(k, events) => Pending(k, events')
         /\ \A o \in Leaves : leaves'[o] = leaves[o] \/ Pending(o, events')
         /\ \A o \in Leaves : leaves'[o].host = leaves[o].host \/ (o = l /\ leaves'[o].host = obj.host)
<1>1. CASE obj = leaves[l]
  BY <1>1 DEF WriteLeaf
<1>2. CASE obj # leaves[l]
  <2>1. leaves' = [leaves EXCEPT ![l] = [obj EXCEPT !.rv = @ + 1]] /\ Emit(l)
    BY <1>2 DEF WriteLeaf
  <2>2. Pending(l, events') /\ \A x : Pending(x, events) => Pending(x, events')
    BY <2>1, EmitPends DEF TypeOK, Keys
  <2>3. \A o \in Leaves : o # l => leaves'[o] = leaves[o]
    BY <2>1 DEF TypeOK
  <2>4. leaves'[l].host = obj.host
    BY LeafAfter
  <2>5. QED
    BY <2>2, <2>3, <2>4
<1>3. QED
  BY <1>1, <1>2

\* Likewise for a root.
LEMMA RootPends ==
  ASSUME TypeOK, NEW r \in Roots, NEW obj \in RootObject, WriteRoot(r, obj)
  PROVE  /\ \A k : Pending(k, events) => Pending(k, events')
         /\ obj # roots[r] => Pending(r, events')
         /\ \A x \in Roots : x # r => roots'[x] = roots[x]
         /\ roots'[r].live = obj.live /\ roots'[r].host = obj.host
         /\ roots'[r].status = obj.status
<1>1. CASE obj = roots[r]
  BY <1>1 DEF WriteRoot
<1>2. CASE obj # roots[r]
  <2>1. roots' = [roots EXCEPT ![r] = [obj EXCEPT !.rv = @ + 1]] /\ Emit(r)
    BY <1>2 DEF WriteRoot
  <2>2. Pending(r, events') /\ \A x : Pending(x, events) => Pending(x, events')
    BY <2>1, EmitPends DEF TypeOK, Keys
  <2>3. QED
    BY <2>1, <2>2 DEF TypeOK, RootObject
<1>3. QED
  BY <1>1, <1>2

LEMMA WriteStepAwaited ==
  ASSUME NEW j \in Job, NEW l, l \in j.drop \/ l \in Range(j.want)
  PROVE  JobAwaited(WriteStep(j), l)
<1> PICK k : k = WriteStep(j)
  OBVIOUS
<1>1. /\ k.drop = j.drop /\ k.want = j.want
      /\ k.at = IF j.drop # {} THEN "delete" ELSE IF j.want # <<>> THEN "create" ELSE "idle"
  BY DEF WriteStep, Job
<1>2. j.drop = {} => j.want # <<>>
  BY DEF Range
<1>3. JobAwaited(k, l)
  BY <1>1, <1>2 DEF JobAwaited
<1>4. QED
  BY <1>3

\* What WriteStep leaves as it is.
LEMMA WriteStepKeeps ==
  ASSUME NEW j \in Job
  PROVE  WriteStep(j).key = j.key /\ WriteStep(j).host = j.host
BY DEF WriteStep, Job

LEMMA PatchDInv == ASSUME IInv, DInv, NEW w \in Workers, Patch(w) PROVE DInv'
<1> PICK i : i = job[w]
  OBVIOUS
<1> PICK r : r = i.key
  OBVIOUS
<1> PICK j : j = [i EXCEPT !.at = "list"]
  OBVIOUS
<1>1. /\ i.at = "patch"
      /\ UNCHANGED <<leaves, dns, cachedRoots, cachedLeaves>>
      /\ \/ /\ roots[r].live
            /\ hosts' = hosts + 1
            /\ WriteRoot(r, [roots[r] EXCEPT !.host = hosts + 1])
            /\ job' = [job EXCEPT ![w] = j]
            /\ UNCHANGED queueVars
         \/ Fail(w) /\ UNCHANGED <<roots, events, hosts>>
  BY DEF Patch, IInv, TypeOK
<1>2. /\ i \in Job /\ r \in Roots /\ i.at # "idle"
      /\ \A v \in Workers : v # w => job[v].key # r
  BY <1>1, OwnKey, Disjoint DEF IInv, JobsShaped, JobShape, RootSteps
<1>3. CASE Fail(w) /\ UNCHANGED <<roots, events, hosts>>
  BY <1>1, <1>2, <1>3, FailAttends
<1>4. CASE /\ roots[r].live
           /\ hosts' = hosts + 1
           /\ WriteRoot(r, [roots[r] EXCEPT !.host = hosts + 1])
           /\ job' = [job EXCEPT ![w] = j]
           /\ UNCHANGED queueVars
  <2> PICK obj : obj = [roots[r] EXCEPT !.host = hosts + 1]
    OBVIOUS
  <2>0. /\ hosts \in Nat /\ NoHost \notin Nat
        /\ roots[r] \in RootObject
        /\ \A l \in Leaves : leaves[l].host \in Hostname
        /\ \A v \in Workers : job[v].host \in Hostname
        /\ \A x \in Roots : roots[x].host \in Hostname /\ cachedRoots[x].host \in Hostname
    BY <1>2, ConstantsAssumption DEF IInv, TypeOK, LeafObject, RootObject, Job
  <2>1. /\ obj \in RootObject /\ obj.live /\ obj.host = hosts + 1
        /\ obj # roots[r]
    <3>1. obj \in RootObject /\ obj.live /\ obj.host = hosts + 1
      BY <1>4, <2>0 DEF RootObject, Hostname
    <3>2. roots[r].host # hosts + 1
      BY <1>2, <2>0 DEF DInv, HostsOK, HostsDrawn
    <3>3. QED
      BY <3>1, <3>2
  <2>2. /\ \A k : Pending(k, events) => Pending(k, events')
        /\ Pending(r, events')
        /\ \A x \in Roots : x # r => roots'[x] = roots[x]
        /\ roots'[r].live /\ roots'[r].host = hosts + 1
    BY <1>2, <1>4, <2>1, RootPends DEF IInv
  <2>3. /\ j.key = r /\ j.host = i.host /\ j.at = "list"
        /\ \A v \in Workers : v # w => job'[v] = job[v]
        /\ job'[w] = j
    BY <1>2, <1>4 DEF IInv, TypeOK, Job
  <2>4. \A k \in Keys : Remembered(k)
    BY <1>4, <2>2, <2>3, KeysRemembered DEF queueVars
  <2>5. \A v \in Workers : job'[v].key = job[v].key /\ job'[v].host = job[v].host
    BY <2>3
  <2>6. HostsOK'
    <3>1. CachedLeavesCurrent'
      BY <1>1, <2>2 DEF DInv, HostsOK, CachedLeavesCurrent
    <3>2. HostsDrawn'
      <4>1. \A h \in Nat : h <= hosts => h <= hosts'
        BY <1>4, <2>0
      <4>2. hosts' <= hosts' /\ roots'[r].host = hosts'
        BY <1>4, <2>0, <2>2
      <4>3. QED
        BY <1>1, <2>2, <2>5, <4>1, <4>2 DEF DInv, HostsOK, HostsDrawn
    <3>3. HostsLive'
      BY <1>1, <2>2 DEF DInv, HostsOK, HostsLive
    <3>4. ASSUME NEW x \in Roots PROVE HostSeen(x)'
      <4>1. CASE x = r
        <5>1. \A c \in Clusters : leaves[<<r, c>>].host # hosts + 1
          <6>1. \A c \in Clusters : <<r, c>> \in Leaves
            BY <1>2 DEF Leaves
          <6>2. QED
            BY <2>0, <6>1 DEF DInv, HostsOK, HostsDrawn
        <5>2. \A v \in Workers : job[v].host # hosts + 1
          BY <2>0 DEF DInv, HostsOK, HostsDrawn
        <5>3. QED
          BY <1>1, <2>2, <2>5, <4>1, <5>1, <5>2 DEF HostSeen
      <4>2. CASE x # r
        BY <1>1, <2>2, <2>5, <4>2 DEF DInv, HostsOK, HostSeen
      <4>3. QED
        BY <4>1, <4>2
    <3>5. QED
      BY <3>1, <3>2, <3>3, <3>4 DEF HostsOK
  <2>7. ASSUME NEW x \in Roots PROVE HostComing(x)'
    <3>1. HostComing(x) /\ Remembered(x) /\ Attended(r)'
      BY <2>2, <2>4 DEF DInv, Keys, Attended
    <3>2. \A v \in Workers : job[v].key = x => job'[v] = job[v] \/ Attended(x)'
      BY <2>3, <3>1
    <3>3. QED
      BY <1>1, <3>1, <3>2, HostComingStays
  <2>8. ASSUME NEW l \in Leaves PROVE LeafServed(l)'
    <3>1. LeafServed(l) /\ Remembered(l) /\ Remembered(l[1])
      BY <2>4, LeafKeys DEF DInv
    <3>2. \A v \in Workers : job[v].key = l => job'[v] = job[v]
      BY <1>2, <2>3, LeafKeys
    <3>kept. StatusKept(l)
      <4>1. l[1] # r => roots'[l[1]] = roots[l[1]]
        BY <2>2, LeafKeys
      <4>2. cachedRoots[r].host # hosts + 1
        BY <1>2, <2>0 DEF DInv, HostsOK, HostsDrawn
      <4>3. roots'[r].host = hosts + 1
        BY <2>2
      <4>4. QED
        BY <4>1, <4>2, <4>3 DEF StatusKept
    <3>3. CASE l[1] = r
      <4>1. RootAwaited(l)'
        BY <2>3, <3>3 DEF RootAwaited, JobAwaited
      <4>2. LeafSeen(l) => LeafSeen(l)'
        BY <1>1, <3>kept, <3>1, <3>2, LeafSeenStays
      <4>3. QED
        BY <1>1, <3>1, <4>1, <4>2 DEF LeafServed
    <3>4. CASE l[1] # r
      BY <1>1, <1>2, <2>3, <3>kept, <3>1, <3>2, <3>4, LeafServedStays
    <3>5. QED
      BY <3>3, <3>4
  <2>9. QED
    BY <2>6, <2>7, <2>8 DEF DInv
<1>5. QED
  BY <1>1, <1>3, <1>4

\* A worker on a root goes on without a write.
LEMMA RootLooks ==
  ASSUME IInv, DInv, NEW w \in Workers, NEW i, NEW j, NEW r \in Roots,
         i = job[w], i.key = r, i.at \notin {"idle", "patch"},
         Continue(w, j), j.key = r, j.host = i.host,
         UNCHANGED <<roots, leaves, dns, hosts, cachedRoots, cachedLeaves, events>>,
         \A l \in Leaves : /\ l[1] = r /\ ~ Pending(l, events) /\ leaves[l].live
                           /\ JobAwaited(i, l)
                           => JobAwaited(j, l)
  PROVE  DInv'
<1>1. \A k : Pending(k, events) => Pending(k, events')
  OBVIOUS
<1>2. \A l \in Leaves : leaves'[l] = leaves[l] /\ leaves'[l].host = leaves[l].host
  OBVIOUS
<1>3. QED
  BY <1>1, <1>2, RootGoesOn

LEMMA ListDInv == ASSUME IInv, DInv, NEW w \in Workers, List(w) PROVE DInv'
<1> PICK i : i = job[w]
  OBVIOUS
<1> PICK r : r = i.key
  OBVIOUS
<1> PICK j : j = [i EXCEPT !.drop = LeavesOwnedBy(r), !.left = i.rules]
  OBVIOUS
<1> DEFINE k == IF j.left = <<>> THEN WriteStep(j) ELSE [j EXCEPT !.at = "get"]
<1>1. /\ i.at = "list" /\ Continue(w, k)
      /\ UNCHANGED <<roots, leaves, dns, hosts, cachedRoots, cachedLeaves, events>>
  BY DEF List, apiVars, informerVars
<1>2. i \in Job /\ r \in Roots
  BY <1>1, OwnKey DEF IInv, JobsShaped, JobShape, RootSteps
<1>3. j \in Job /\ j.key = r /\ j.host = i.host /\ j.drop = LeavesOwnedBy(r)
  BY <1>2 DEF Job, LeavesOwnedBy
<1>4. k.key = r /\ k.host = i.host
  <2>1. [j EXCEPT !.at = "get"].key = r /\ [j EXCEPT !.at = "get"].host = i.host
    BY <1>3 DEF Job
  <2>2. QED
    BY <1>3, <2>1, WriteStepKeeps
<1>5. ASSUME NEW l \in Leaves, l[1] = r, ~ Pending(l, events), leaves[l].live
      PROVE  JobAwaited(k, l)
  <2>1. l \in j.drop
    BY <1>3, <1>5 DEF LeavesOwnedBy, DInv, HostsOK, CachedLeavesCurrent
  <2>2. CASE j.left = <<>>
    BY <1>3, <2>1, <2>2, WriteStepAwaited
  <2>3. CASE j.left # <<>>
    <3>1. k.at = "get" /\ k.drop = j.drop
      BY <1>3, <2>3 DEF Job
    <3>2. QED
      BY <2>1, <3>1 DEF JobAwaited
  <2>4. QED
    BY <2>2, <2>3
<1>6. \A l \in Leaves : /\ l[1] = r /\ ~ Pending(l, events) /\ leaves[l].live
                       /\ JobAwaited(i, l)
                       => JobAwaited(k, l)
  BY <1>5
<1> HIDE DEF k
<1>7. QED
  BY <1>1, <1>2, <1>4, <1>6, RootLooks

LEMMA GetServiceDInv == ASSUME IInv, DInv, NEW w \in Workers, GetService(w) PROVE DInv'
<1> PICK i : i = job[w]
  OBVIOUS
<1> PICK r : r = i.key
  OBVIOUS
<1> PICK wanted : wanted = IF services[Head(i.left)] \in Clusters
                           THEN Append(i.want, <<i.key, services[Head(i.left)]>>) ELSE i.want
  OBVIOUS
<1> PICK j : j = IF Len(i.left) > 1
                 THEN [i EXCEPT !.left = Tail(i.left), !.want = wanted]
                 ELSE [i EXCEPT !.left = i.rules, !.want = wanted, !.at = "track"]
  OBVIOUS
<1>1. /\ i.at = "get"
      /\ UNCHANGED <<roots, leaves, dns, hosts, cachedRoots, cachedLeaves, events>>
      /\ (job' = [job EXCEPT ![w] = j] /\ UNCHANGED queueVars) \/ Fail(w)
  BY DEF GetService, apiVars, informerVars
<1>2. i \in Job /\ r \in Roots
  BY <1>1, OwnKey DEF IInv, JobsShaped, JobShape, RootSteps
<1>3. j.key = r /\ j.host = i.host /\ j.at \in {"get", "track"} /\ j.drop = i.drop
  BY <1>1, <1>2 DEF Job
<1>4. \A l \in Leaves : JobAwaited(i, l) => JobAwaited(j, l)
  BY <1>1, <1>3 DEF JobAwaited
<1>5. CASE job' = [job EXCEPT ![w] = j] /\ UNCHANGED queueVars
  <2>1. Continue(w, j)
    BY <1>3, <1>5 DEF Continue
  <2>2. QED
    BY <1>1, <1>2, <1>3, <1>4, <2>1, RootLooks
<1>6. QED
  BY <1>1, <1>5, FailAttends

\* A leaf that was listed is deleted by the job or among those it writes.
LEMMA TrackDInv == ASSUME IInv, LInv, DInv, NEW w \in Workers, Track(w) PROVE DInv'
<1> PICK i : i = job[w]
  OBVIOUS
<1> PICK r : r = i.key
  OBVIOUS
<1> PICK next : next = [i EXCEPT !.left = Tail(i.left)]
  OBVIOUS
<1> PICK done : done = [i EXCEPT !.left = <<>>, !.drop = NotDesired(i.drop, i.want)]
  OBVIOUS
<1>1. /\ i.at = "track"
      /\ UNCHANGED <<roots, leaves, dns, hosts, cachedRoots, cachedLeaves, events>>
      /\ Continue(w, next) \/ Continue(w, WriteStep(done))
  BY DEF Track, apiVars, informerVars
<1>2. i \in Job /\ r \in Roots /\ JobOwn(i, todo, cachedRoots)
  BY <1>1, RootJob DEF RootSteps
<1>3. CASE Continue(w, next)
  <2>1. next.key = r /\ next.host = i.host /\ next.at = "track" /\ next.drop = i.drop
    BY <1>1, <1>2 DEF Job
  <2>2. \A l \in Leaves : JobAwaited(i, l) => JobAwaited(next, l)
    BY <1>1, <2>1 DEF JobAwaited
  <2>3. QED
    BY <1>1, <1>2, <1>3, <2>1, <2>2, RootLooks
<1>4. CASE Continue(w, WriteStep(done))
  <2>1. /\ done \in Job /\ done.key = r /\ done.host = i.host
        /\ done.drop = NotDesired(i.drop, i.want) /\ done.want = i.want
    <3>1. <<>> \in Seq(Services) /\ NotDesired(i.drop, i.want) \in SUBSET Leaves
      BY <1>2 DEF Job, NotDesired
    <3>2. QED
      BY <1>2, <3>1 DEF Job
  <2>2. WriteStep(done).key = r /\ WriteStep(done).host = i.host
    BY <2>1, WriteStepKeeps
  <2>3. ASSUME NEW l \in Leaves, l[1] = r, JobAwaited(i, l)
        PROVE  JobAwaited(WriteStep(done), l)
    <3>1. l \in i.drop /\ i.want \in Seq(Leaves)
      BY <1>1, <1>2, <2>3 DEF JobAwaited, Job
    <3>2. CASE l \in NotDesired(i.drop, i.want)
      BY <2>1, <3>2, WriteStepAwaited
    <3>3. CASE l \notin NotDesired(i.drop, i.want)
      <4>1. PICK n \in 1 .. Len(i.want) : LeafName(i.want[n]) = LeafName(l)
        BY <3>1, <3>3 DEF NotDesired
      <4>2. i.want[n] \in Range(i.want) /\ i.want[n] \in Leaves
        BY <3>1, <4>1 DEF Range
      <4>3. i.want[n][1] = r
        BY <1>2, <4>2 DEF JobOwn
      <4>4. i.want[n][2] = l[2]
        BY <4>1 DEF LeafName
      <4>5. i.want[n] = l
        BY <2>3, <4>2, <4>3, <4>4 DEF Leaves
      <4>6. QED
        BY <2>1, <4>2, <4>5, WriteStepAwaited
    <3>4. QED
      BY <3>2, <3>3
  <2>4. QED
    BY <1>1, <1>2, <1>4, <2>2, <2>3, RootLooks
<1>5. QED
  BY <1>1, <1>3, <1>4

LEMMA DeleteLeafDInv == ASSUME IInv, DInv, NEW w \in Workers, DeleteLeaf(w) PROVE DInv'
<1> PICK i : i = job[w]
  OBVIOUS
<1> PICK r : r = i.key
  OBVIOUS
<1>1. /\ i.at = "delete"
      /\ UNCHANGED <<roots, dns, hosts, cachedRoots, cachedLeaves>>
  BY DEF DeleteLeaf
<1>2. PICK x \in i.drop :
        \/ /\ DeleteLeafObject(x)
           /\ Continue(w, WriteStep([i EXCEPT !.drop = @ \ {x}]))
        \/ Fail(w) /\ UNCHANGED <<leaves, events>>
  BY DEF DeleteLeaf
<1>3. i \in Job /\ r \in Roots /\ x \in Leaves
  BY <1>1, OwnKey DEF IInv, JobsShaped, JobShape, RootSteps, Job
<1>4. CASE /\ DeleteLeafObject(x)
           /\ Continue(w, WriteStep([i EXCEPT !.drop = @ \ {x}]))
  <2> PICK obj : obj = IF leaves[x].pinned THEN [leaves[x] EXCEPT !.deleting = TRUE]
                                           ELSE NoLeaf(leaves[x].rv)
    OBVIOUS
  <2> PICK j : j = [i EXCEPT !.drop = @ \ {x}]
    OBVIOUS
  <2>1. /\ obj \in LeafObject /\ obj.host \in {leaves[x].host, NoHost}
        /\ obj.deleting \/ ~ obj.live
    <3>1. leaves[x] \in LeafObject /\ leaves[x].rv \in Nat
      BY <1>3 DEF IInv, TypeOK, LeafObject
    <3> PICK marked : marked = [leaves[x] EXCEPT !.deleting = TRUE]
      OBVIOUS
    <3>2. marked \in LeafObject /\ marked.host = leaves[x].host /\ marked.deleting
      BY <3>1 DEF LeafObject
    <3>3. /\ NoLeaf(leaves[x].rv) \in LeafObject
          /\ NoLeaf(leaves[x].rv).host = NoHost /\ ~ NoLeaf(leaves[x].rv).live
      BY <3>1, NoObjects DEF NoLeaf
    <3>4. QED
      BY <3>2, <3>3
  <2>2. WriteLeaf(x, obj)
    BY <1>4 DEF DeleteLeafObject
  <2>3. /\ \A k : Pending(k, events) => Pending(k, events')
        /\ \A o \in Leaves : leaves'[o] = leaves[o] \/ Pending(o, events')
        /\ \A o \in Leaves : leaves'[o].host \in {leaves[o].host, NoHost}
        /\ leaves'[x].deleting \/ ~ leaves'[x].live
    <3>1. TypeOK
      BY DEF IInv
    <3>2. leaves'[x].deleting \/ ~ leaves'[x].live
      BY <1>3, <2>1, <2>2, <3>1, LeafAfter
    <3>3. /\ \A k : Pending(k, events) => Pending(k, events')
          /\ \A o \in Leaves : leaves'[o] = leaves[o] \/ Pending(o, events')
          /\ \A o \in Leaves : leaves'[o].host = leaves[o].host
                              \/ (o = x /\ leaves'[o].host = obj.host)
      BY <1>3, <2>1, <2>2, <3>1, LeafPends
    <3>4. QED
      BY <2>1, <3>2, <3>3
  <2>4. /\ j \in Job /\ j.key = r /\ j.host = i.host
        /\ j.drop = i.drop \ {x} /\ j.want = i.want
    BY <1>3 DEF Job
  <2>5. /\ WriteStep(j).key = r /\ WriteStep(j).host = i.host
        /\ Continue(w, WriteStep(j))
    BY <1>4, <2>4, WriteStepKeeps
  <2>6. ASSUME NEW l \in Leaves, leaves'[l] = leaves[l], leaves[l].live, ~ leaves[l].deleting,
               JobAwaited(i, l)
        PROVE  JobAwaited(WriteStep(j), l)
    <3>1. l # x
      BY <2>3, <2>6
    <3>2. l \in j.drop \/ l \in Range(j.want)
      BY <1>1, <2>4, <2>6, <3>1 DEF JobAwaited
    <3>3. QED
      BY <2>4, <3>2, WriteStepAwaited
  <2>7. QED
    BY <1>1, <1>3, <2>3, <2>5, <2>6, RootGoesOn
<1>5. CASE Fail(w) /\ UNCHANGED <<leaves, events>>
  BY <1>1, <1>5, FailAttends
<1>6. QED
  BY <1>2, <1>4, <1>5

\* The next leaf that is wanted has the hostname of the root from then on, or is gone.
LEMMA WantedHosted ==
  ASSUME IInv, LInv, DInv, NEW w \in Workers, NEW i \in Job, NEW done \in Job,
         NEW obj \in LeafObject, NEW r \in Roots,
         i = job[w], i.at \in {"create", "update"}, i.key = r, i.want # <<>>,
         done.key = r, done.host = i.host, done.want = Tail(i.want),
         WriteLeaf(Head(i.want), obj), Continue(w, WriteStep(done)),
         UNCHANGED <<roots, dns, hosts, cachedRoots, cachedLeaves>>,
         obj.host = i.host \/ (obj.host = NoHost /\ ~ obj.live)
  PROVE  DInv'
<1> PICK h : h = Head(i.want)
  OBVIOUS
<1>1. TypeOK /\ JobOwn(i, todo, cachedRoots)
  BY DEF IInv, LInv, JobsOwn
<1>2. /\ h \in Leaves /\ h \in Range(i.want)
      /\ \A o \in Range(i.want) : o = h \/ o \in Range(done.want)
  <2>1. i.want \in Seq(Leaves)
    BY DEF Job
  <2>2. QED
    BY <2>1, RangeTail, RangeOfTail
<1>3. h[1] = r /\ (r \notin todo => i.host = cachedRoots[r].host)
  BY <1>1, <1>2 DEF JobOwn
<1>4. WriteLeaf(h, obj)
  OBVIOUS
<1>5. /\ \A k : Pending(k, events) => Pending(k, events')
      /\ \A o \in Leaves : leaves'[o] = leaves[o] \/ Pending(o, events')
      /\ \A o \in Leaves : leaves'[o].host = leaves[o].host \/ (o = h /\ leaves'[o].host = obj.host)
  BY <1>1, <1>2, <1>4, LeafPends
<1>6. leaves'[h].live = obj.live /\ leaves'[h].host = obj.host
  BY <1>1, <1>2, <1>4, LeafAfter
<1>7. \A o \in Leaves : \/ leaves'[o].host \in {leaves[o].host, NoHost}
                        \/ o[1] = r /\ leaves'[o].host = i.host
  BY <1>3, <1>5
<1> DEFINE j == WriteStep(done)
<1>8. \A l \in Leaves : /\ l[1] = r /\ r \notin todo
                        /\ leaves'[l] = leaves[l] /\ ~ Pending(l, events)
                        /\ leaves[l].live /\ ~ leaves[l].deleting
                        /\ leaves[l].host # cachedRoots[r].host
                        /\ JobAwaited(i, l)
                        => JobAwaited(j, l)
  <2> SUFFICES ASSUME NEW l \in Leaves, r \notin todo, leaves'[l] = leaves[l], leaves[l].live,
                      leaves[l].host # cachedRoots[r].host, JobAwaited(i, l)
               PROVE  JobAwaited(j, l)
    OBVIOUS
  <2>1. l \in Range(i.want)
    BY DEF JobAwaited
  <2>2. l # h
    BY <1>3, <1>6
  <2>3. QED
    BY <1>2, <2>1, <2>2, WriteStepAwaited
<1>9. j.key = r /\ j.host = i.host
  BY WriteStepKeeps
<1>10. Continue(w, j) /\ i.at \notin {"idle", "patch"}
  OBVIOUS
<1> HIDE DEF j
<1>11. QED
  BY <1>5, <1>7, <1>8, <1>9, <1>10, RootGoesOn

\* The next leaf that is wanted is looked at.
LEMMA WantedAwaited ==
  ASSUME IInv, DInv, NEW w \in Workers, NEW k, NEW r \in Roots,
         job[w].at \in {"create", "read"}, k.at \in {"read", "update"},
         job[w].key = r, k.key = r, k.host = job[w].host, k.want = job[w].want,
         job' = [job EXCEPT ![w] = k], UNCHANGED queueVars,
         UNCHANGED <<roots, leaves, dns, hosts, cachedRoots, cachedLeaves, events>>
  PROVE  DInv'
<1> PICK i : i = job[w]
  OBVIOUS
<1>1. Continue(w, k)
  BY DEF Continue
<1>2. \A l \in Leaves : JobAwaited(i, l) => JobAwaited(k, l)
  BY DEF JobAwaited
<1>3. QED
  BY <1>1, <1>2, RootLooks

LEMMA CreateLeafDInv == ASSUME IInv, LInv, DInv, NEW w \in Workers, CreateLeaf(w) PROVE DInv'
<1> PICK i : i = job[w]
  OBVIOUS
<1> PICK r : r = i.key
  OBVIOUS
<1> PICK l : l = Head(i.want)
  OBVIOUS
<1> PICK done : done = [i EXCEPT !.want = Tail(@)]
  OBVIOUS
<1> PICK read : read = [i EXCEPT !.at = "read"]
  OBVIOUS
<1> PICK new : new = [NoLeaf(leaves[l].rv) EXCEPT !.live = TRUE, !.host = i.host, !.rules = i.rules]
  OBVIOUS
<1>1. /\ i.at = "create"
      /\ UNCHANGED <<roots, dns, hosts, cachedRoots, cachedLeaves>>
      /\ \/ WriteLeaf(l, new) /\ Continue(w, WriteStep(done))
         \/ job' = [job EXCEPT ![w] = read] /\ UNCHANGED <<leaves, events, queueVars>>
  BY DEF CreateLeaf
<1>2. i \in Job /\ r \in Roots /\ i.want # <<>>
  BY <1>1, RootJob DEF RootSteps, JobShape
<1>3. l \in Leaves /\ Tail(i.want) \in Seq(Leaves)
  <2>1. i.want \in Seq(Leaves)
    BY <1>2 DEF Job
  <2>2. QED
    BY <1>2, <2>1, RangeTail
<1>4. CASE WriteLeaf(l, new) /\ Continue(w, WriteStep(done))
  <2>1. done \in Job /\ done.key = r /\ done.host = i.host /\ done.want = Tail(i.want)
    BY <1>2, <1>3 DEF Job
  <2>2. new \in LeafObject /\ new.host = i.host
    <3>1. leaves[l].rv \in Nat /\ i.host \in Hostname /\ i.rules \in Seq(Services)
      BY <1>2, <1>3 DEF IInv, TypeOK, LeafObject, Job
    <3>2. QED
      BY <3>1 DEF NoLeaf, LeafObject
  <2>3. QED
    BY <1>1, <1>2, <1>4, <2>1, <2>2, WantedHosted
<1>5. CASE job' = [job EXCEPT ![w] = read] /\ UNCHANGED <<leaves, events, queueVars>>
  <2>1. read.at = "read" /\ read.key = r /\ read.host = i.host /\ read.want = i.want
    BY <1>2 DEF Job
  <2>2. QED
    BY <1>1, <1>2, <1>5, <2>1, WantedAwaited
<1>6. QED
  BY <1>1, <1>4, <1>5

LEMMA ReadLeafDInv == ASSUME IInv, LInv, DInv, NEW w \in Workers, ReadLeaf(w) PROVE DInv'
<1> PICK i : i = job[w]
  OBVIOUS
<1> PICK k : k = [i EXCEPT !.at = "update", !.rv = leaves[Head(i.want)].rv]
  OBVIOUS
<1>1. /\ i.at = "read"
      /\ UNCHANGED <<roots, leaves, dns, hosts, cachedRoots, cachedLeaves, events>>
      /\ (job' = [job EXCEPT ![w] = k] /\ UNCHANGED queueVars) \/ Fail(w)
  BY DEF ReadLeaf, apiVars, informerVars, IInv, TypeOK
<1>2. i \in Job /\ i.key \in Roots
  BY <1>1, RootJob DEF RootSteps
<1>3. k.at = "update" /\ k.key = i.key /\ k.host = i.host /\ k.want = i.want
  BY <1>2 DEF Job
<1>4. CASE Fail(w)
  BY <1>1, <1>4, FailAttends
<1>5. CASE job' = [job EXCEPT ![w] = k] /\ UNCHANGED queueVars
  <2> PICK r \in Roots : r = i.key
    BY <1>2
  <2>1. QED
    BY <1>1, <1>3, <1>5, WantedAwaited
<1>6. QED
  BY <1>1, <1>4, <1>5

LEMMA UpdateLeafDInv == ASSUME IInv, LInv, DInv, NEW w \in Workers, UpdateLeaf(w) PROVE DInv'
<1> PICK i : i = job[w]
  OBVIOUS
<1> PICK r : r = i.key
  OBVIOUS
<1> PICK l : l = Head(i.want)
  OBVIOUS
<1> PICK updated :
      updated = [leaves[l] EXCEPT !.host = i.host, !.rules = i.rules, !.pinned = FALSE]
  OBVIOUS
<1> PICK obj : obj = IF leaves[l].deleting THEN NoLeaf(i.rv) ELSE updated
  OBVIOUS
<1> PICK done : done = [i EXCEPT !.want = Tail(@), !.rv = 0]
  OBVIOUS
<1>1. /\ i.at = "update"
      /\ UNCHANGED <<roots, dns, hosts, cachedRoots, cachedLeaves>>
      /\ \/ WriteLeaf(l, obj) /\ Continue(w, WriteStep(done))
         \/ Fail(w) /\ UNCHANGED <<leaves, events>>
  BY DEF UpdateLeaf
<1>2. i \in Job /\ r \in Roots /\ i.want # <<>>
  BY <1>1, RootJob DEF RootSteps, JobShape
<1>3. l \in Leaves /\ Tail(i.want) \in Seq(Leaves)
  <2>1. i.want \in Seq(Leaves)
    BY <1>2 DEF Job
  <2>2. QED
    BY <1>2, <2>1, RangeTail
<1>4. CASE Fail(w) /\ UNCHANGED <<leaves, events>>
  BY <1>1, <1>4, FailAttends
<1>5. CASE WriteLeaf(l, obj) /\ Continue(w, WriteStep(done))
  <2>1. done \in Job /\ done.key = r /\ done.host = i.host /\ done.want = Tail(i.want)
    BY <1>2, <1>3 DEF Job
  <2>2. updated \in LeafObject /\ updated.host = i.host
    <3>1. leaves[l] \in LeafObject /\ i.host \in Hostname /\ i.rules \in Seq(Services)
      BY <1>2, <1>3 DEF IInv, TypeOK, Job
    <3>2. QED
      BY <3>1 DEF LeafObject
  <2>3. NoLeaf(i.rv) \in LeafObject /\ NoLeaf(i.rv).host = NoHost /\ ~ NoLeaf(i.rv).live
    <3>1. i.rv \in Nat
      BY <1>2 DEF Job
    <3>2. QED
      BY <3>1, NoObjects DEF NoLeaf
  <2>4. obj \in LeafObject /\ (obj.host = i.host \/ (obj.host = NoHost /\ ~ obj.live))
    BY <2>2, <2>3
  <2>5. QED
    BY <1>1, <1>2, <1>5, <2>1, <2>4, WantedHosted
<1>6. QED
  BY <1>1, <1>4, <1>5

\* A worker on a leaf goes on: a record that was in good hands still is, or is right.
LEMMA LeafGoesOn ==
  ASSUME IInv, DInv, NEW w \in Workers, NEW i, NEW j, NEW l \in Leaves,
         i = job[w], i.key = l, i.at # "idle",
         job' = [job EXCEPT ![w] = j], j.key \in {l, NoKey},
         \/ j.host = NoHost
         \/ j.key = l /\ j.host = i.host
         \/ j.key = l /\ j.host = cachedRoots[l[1]].host,
         todo \subseteq todo', gaveUp \ {l} \subseteq gaveUp',
         UNCHANGED <<leaves, hosts, cachedRoots, cachedLeaves>>,
         \A k : Pending(k, events) => Pending(k, events'),
         \A r \in Roots : \/ roots'[r].host = NoHost
                          \/ /\ roots'[r].host = roots[r].host
                             /\ roots[r].live => roots'[r].live,
         \A o \in Leaves : o # l => dns'[o] = dns[o] /\ StatusKept(o),
         cachedRoots[l[1]].host # NoHost /\ JobRight(i) => LeafSeen(l)'
  PROVE  DInv'
<1>1. /\ \A v \in Workers : v # w => job[v].key # l /\ job'[v] = job[v]
      /\ job'[w] = j
  BY OwnKey DEF IInv, TypeOK
<1>2. \A k \in Keys : Remembered(k)
  BY KeysRemembered
<1>3. HostsOK'
  <2>1. \A v \in Workers : \/ job'[v].host = NoHost
                           \/ job'[v].key = job[v].key /\ job'[v].host = job[v].host
                           \/ \E r \in Roots : /\ job'[v].host = cachedRoots[r].host
                                               /\ job'[v].key \in {r} \union Leaves
    BY <1>1, LeafKeys
  <2>2. \A o \in Leaves : leaves'[o] = leaves[o] /\ leaves'[o].host = leaves[o].host
    OBVIOUS
  <2>3. HostsOK
    BY DEF DInv
  <2>4. QED
    BY <2>1, <2>2, <2>3, HostsMove
<1>4. ASSUME NEW r \in Roots PROVE HostComing(r)'
  <2>1. \A v \in Workers : job[v].key = r => job'[v] = job[v]
    BY <1>1, LeafKeys
  <2>2. HostComing(r) /\ Remembered(r)
    BY <1>2 DEF DInv, Keys
  <2>3. QED
    BY <2>1, <2>2, HostComingStays
<1>5. ASSUME NEW o \in Leaves PROVE LeafServed(o)'
  <2>1. LeafServed(o) /\ Remembered(o) /\ Remembered(o[1])
    BY <1>2, LeafKeys DEF DInv
  <2>2. \A v \in Workers : job[v].key = o[1] => job'[v] = job[v]
    BY <1>1, LeafKeys
  <2>3. CASE o = l
    <3>1. cachedRoots[l[1]].host # NoHost /\ LeafSeen(l) => LeafSeen(l)'
      <4>1. CASE Attended(l)
        BY <2>1, <2>3, <4>1, AttendedStays DEF LeafSeen
      <4>2. CASE JobRight(i)
        BY <4>2
      <4>3. l \in Busy
        BY LeafKeys DEF Busy
      <4>4. LeafSeen(l) => Attended(l) \/ JobRight(i)
        BY <1>1, <4>3 DEF LeafSeen
      <4>5. QED
        BY <4>1, <4>2, <4>4
    <3>2. RootAwaited(l) => RootAwaited(l)'
      BY <2>1, <2>2, <2>3, RootAwaitedStays
    <3>3. QED
      BY <2>1, <2>3, <3>1, <3>2 DEF LeafServed
  <2>4. CASE o # l
    BY <1>1, <2>1, <2>2, <2>4, LeafServedStays
  <2>5. QED
    BY <2>3, <2>4
<1>6. QED
  BY <1>3, <1>4, <1>5 DEF DInv

LEMMA ReadRootDInv == ASSUME IInv, DInv, NEW w \in Workers, ReadRoot(w) PROVE DInv'
<1> PICK i : i = job[w]
  OBVIOUS
<1> PICK l : l = i.key
  OBVIOUS
<1> PICK j : j = [i EXCEPT !.at = "dns",
                           !.host = cachedRoots[l[1]].host,
                           !.rv = cachedRoots[l[1]].rv]
  OBVIOUS
<1>1. /\ i.at = "root"
      /\ UNCHANGED <<roots, leaves, dns, hosts, cachedRoots, cachedLeaves, events>>
      /\ (job' = [job EXCEPT ![w] = j] /\ UNCHANGED queueVars) \/ Fail(w)
  BY DEF ReadRoot, apiVars, informerVars, IInv, TypeOK
<1>2. i \in Job /\ l \in Leaves /\ i.at # "idle"
  BY <1>1, LeafJob DEF LeafSteps
<1>3. CASE Fail(w)
  BY <1>1, <1>3, FailAttends
<1>4. CASE job' = [job EXCEPT ![w] = j] /\ UNCHANGED queueVars
  <2>1. /\ j.key = l /\ j.at = "dns" /\ j.host = cachedRoots[l[1]].host
        /\ j.own = i.own /\ j.deleting = i.deleting
    BY <1>2 DEF Job
  <2>2. job'[w] = j
    BY <1>4 DEF IInv, TypeOK
  <2>3. JobRight(i) => JobRight(j)'
    BY <1>1, <2>1 DEF JobRight
  <2>4. JobRight(i) => LeafSeen(l)'
    BY <2>1, <2>2, <2>3 DEF LeafSeen
  <2>5. /\ \A k : Pending(k, events) => Pending(k, events')
        /\ \A r \in Roots : \/ roots'[r].host = NoHost
                            \/ /\ roots'[r].host = roots[r].host
                               /\ roots[r].live => roots'[r].live
        /\ j.key \in {l, NoKey}
        /\ todo \subseteq todo' /\ gaveUp \ {l} \subseteq gaveUp'
        /\ UNCHANGED <<leaves, hosts, cachedRoots, cachedLeaves>>
    BY <1>1, <1>4, <2>1 DEF queueVars
  <2>kept. \A o \in Leaves : o # l => dns'[o] = dns[o] /\ StatusKept(o)
    BY <1>1, StatusUntouched
  <2>6. cachedRoots[l[1]].host # NoHost /\ JobRight(i) => LeafSeen(l)'
    BY <2>4
  <2>7. j.key = l /\ j.host = cachedRoots[l[1]].host
    BY <2>1
  <2>8. job' = [job EXCEPT ![w] = j] /\ i = job[w] /\ i.key = l
    BY <1>4
  <2>9. QED
    BY <1>2, <2>kept, <2>5, <2>6, <2>7, <2>8, LeafGoesOn
<1>5. QED
  BY <1>1, <1>3, <1>4

LEMMA ReconcileDNSDInv == ASSUME IInv, DInv, NEW w \in Workers, ReconcileDNS(w) PROVE DInv'
<1> PICK i : i = job[w]
  OBVIOUS
<1> PICK l : l = i.key
  OBVIOUS
<1> PICK j : j = [i EXCEPT !.at = "status"]
  OBVIOUS
<1> PICK record : record = getDNSRecord(i.host, i.own)
  OBVIOUS
<1>1. /\ i.at = "dns"
      /\ job' = [job EXCEPT ![w] = j]
      /\ dns' = [dns EXCEPT ![l] = IF Published(i) THEN record ELSE NoRecord]
      /\ UNCHANGED <<roots, leaves, hosts, cachedRoots, cachedLeaves, events, todo, gaveUp>>
  BY DEF ReconcileDNS, informerVars, queueVars, IInv, TypeOK
<1>2. i \in Job /\ l \in Leaves /\ i.at # "idle"
  BY <1>1, LeafJob DEF LeafSteps
<1>3. j.key = l /\ j.at = "status" /\ j.host = i.host
  BY <1>2 DEF Job
<1>4. /\ record.host = i.host
      /\ {target[1] : target \in record.targets} = i.own \ Unaddressed
      /\ i.host # NoHost => record # NoRecord
  <2>1. i.own \subseteq LoadBalancers /\ i.host \in Hostname
    BY <1>2 DEF Job
  <2>2. /\ record.host = i.host
        /\ record.targets = {<<lb, answers[lb]>> : lb \in i.own \ Unaddressed}
    BY DEF getDNSRecord
  <2>3. {target[1] : target \in record.targets} = i.own \ Unaddressed
    <3>1. \A lb \in i.own \ Unaddressed : <<lb, answers[lb]>> \in record.targets
      BY <2>2
    <3>2. \A target \in record.targets : target[1] \in i.own \ Unaddressed
      BY <2>2
    <3>3. \A lb \in i.own \ Unaddressed : lb \in {target[1] : target \in record.targets}
      <4> SUFFICES ASSUME NEW lb \in i.own \ Unaddressed
                   PROVE  \E target \in record.targets : lb = target[1]
        OBVIOUS
      <4>1. <<lb, answers[lb]>>[1] = lb
        OBVIOUS
      <4>2. QED
        BY <3>1, <4>1
    <3>4. QED
      BY <3>2, <3>3
  <2>4. i.host # NoHost => record \in [host : Nat, targets : SUBSET (LoadBalancers \X BOOLEAN)]
    BY <2>1 DEF getDNSRecord, Hostname, IInv, TypeOK
  <2>5. QED
    BY <2>2, <2>3, <2>4, ConstantsAssumption
<1>5. job'[w] = j /\ dns'[l] = IF Published(i) THEN record ELSE NoRecord
  BY <1>1, <1>2 DEF IInv, TypeOK
<1>6. ASSUME JobRight(i), cachedRoots[l[1]].host # NoHost PROVE LeafSeen(l)'
  <2>1. i.own = leaves[l].lb /\ ~ i.deleting /\ i.host = cachedRoots[l[1]].host
    BY <1>1, <1>6 DEF JobRight
  <2>2. Published(i) <=> leaves[l].lb # {}
    BY <1>6, <2>1 DEF Published
  <2>3. RecordRight(l)'
    BY <1>1, <1>4, <1>5, <1>6, <2>1, <2>2 DEF RecordRight
  <2>4. JobRight(j)'
    <3>1. j.lbs = i.lbs /\ UNCHANGED leaves
      BY <1>1, <1>2 DEF Job
    <3>2. OnlyLeaf(l) => j.lbs = leaves'[l].lb
      BY <1>6, <3>1 DEF JobRight
    <3>3. QED
      BY <1>3, <2>3, <3>2 DEF JobRight
  <2>5. QED
    BY <1>3, <1>5, <2>4 DEF LeafSeen
<1>7. /\ \A k : Pending(k, events) => Pending(k, events')
      /\ \A r \in Roots : \/ roots'[r].host = NoHost
                          \/ /\ roots'[r].host = roots[r].host
                             /\ roots[r].live => roots'[r].live
      /\ \A o \in Leaves : o # l => dns'[o] = dns[o] /\ StatusKept(o)
      /\ j.key \in {l, NoKey}
      /\ todo \subseteq todo' /\ gaveUp \ {l} \subseteq gaveUp'
      /\ UNCHANGED <<leaves, hosts, cachedRoots, cachedLeaves>>
  BY <1>1, <1>3, StatusUntouched DEF IInv, TypeOK
<1>8. job' = [job EXCEPT ![w] = j]
  BY <1>1
<1>9. cachedRoots[l[1]].host # NoHost /\ JobRight(i) => LeafSeen(l)'
  BY <1>6
<1>10. j.key = l /\ j.host = i.host /\ i = job[w] /\ i.key = l
  BY <1>3
<1>11. QED
  BY <1>2, <1>7, <1>8, <1>9, <1>10, LeafGoesOn

LEMMA UpdateStatusDInv == ASSUME IInv, DInv, NEW w \in Workers, UpdateStatus(w) PROVE DInv'
<1> PICK i : i = job[w]
  OBVIOUS
<1> PICK l : l = i.key
  OBVIOUS
<1> PICK r : r = l[1]
  OBVIOUS
<1> PICK obj : obj = [roots[r] EXCEPT !.status = i.lbs]
  OBVIOUS
<1>1. /\ i.at = "status"
      /\ UNCHANGED <<leaves, dns, hosts, cachedRoots, cachedLeaves>>
      /\ \/ WriteRoot(r, obj) /\ Succeed(w, l)
         \/ RequeueAndForget(w) /\ UNCHANGED <<roots, events>>
         \/ Fail(w) /\ UNCHANGED <<roots, events>>
  BY DEF UpdateStatus
<1>2. i \in Job /\ l \in Leaves /\ i.at # "idle"
  BY <1>1, LeafJob DEF LeafSteps
<1>3. NoJob.key = NoKey /\ NoJob.host = NoHost
  BY DEF NoJob
<1>4. CASE Fail(w) /\ UNCHANGED <<roots, events>>
  BY <1>1, <1>2, <1>4, FailAttends
<1>5. CASE \/ WriteRoot(r, obj) /\ Succeed(w, l)
           \/ RequeueAndForget(w) /\ UNCHANGED <<roots, events>>
  <2>1. /\ job' = [job EXCEPT ![w] = NoJob]
        /\ todo \subseteq todo' /\ gaveUp \ {l} \subseteq gaveUp'
    BY <1>5 DEF Succeed, RequeueAndForget
  <2>2. /\ \A k : Pending(k, events) => Pending(k, events')
        /\ \A x \in Roots : \/ roots'[x].host = NoHost
                            \/ /\ roots'[x].host = roots[x].host
                               /\ roots[x].live => roots'[x].live
    <3>1. CASE UNCHANGED <<roots, events>>
      BY <3>1
    <3>2. CASE WriteRoot(r, obj)
      <4>1. r \in Roots /\ roots[r] \in RootObject /\ i.lbs \in SUBSET LoadBalancers
        BY <1>2, LeafKeys DEF IInv, TypeOK, Job
      <4>2. obj \in RootObject /\ obj.live = roots[r].live /\ obj.host = roots[r].host
        BY <4>1 DEF RootObject
      <4>3. /\ \A k : Pending(k, events) => Pending(k, events')
            /\ \A x \in Roots : x # r => roots'[x] = roots[x]
            /\ roots'[r].live = obj.live /\ roots'[r].host = obj.host
            /\ roots'[r].status = obj.status
        BY <3>2, <4>1, <4>2, RootPends DEF IInv
      <4>4. QED
        BY <4>2, <4>3
    <3>3. QED
      BY <1>5, <3>1, <3>2
  <2>kept. ASSUME NEW o \in Leaves, o # l PROVE StatusKept(o)
    <3>1. OnlyLeaf(o) => o[1] # r
      BY <1>2, <2>kept DEF OnlyLeaf
    <3>2. o[1] # r => roots'[o[1]] = roots[o[1]]
      <4>1. TypeOK
        BY DEF IInv
      <4>2. QED
        BY <1>5, <4>1, LeafKeys DEF WriteRoot, TypeOK
    <3>3. QED
      BY <3>1, <3>2 DEF StatusKept
  <2>3. cachedRoots[l[1]].host # NoHost /\ JobRight(i) => LeafSeen(l)'
    <3>1. CASE RequeueAndForget(w)
      <4>1. l \in todo'
        BY <3>1 DEF RequeueAndForget
      <4>2. QED
        BY <4>1 DEF LeafSeen, Attended
    <3>2. l \notin Busy'
      <4>1. \A v \in Workers : job'[v].key # l
        BY <1>2, <1>3, <2>1, OwnKey DEF IInv, TypeOK
      <4>2. QED
        BY <4>1 DEF Busy
    <3>3. JobRight(i) => RecordRight(l)'
      BY <1>1 DEF JobRight, RecordRight
    <3>4. CASE WriteRoot(r, obj)
      <4>1. r \in Roots /\ roots[r] \in RootObject /\ i.lbs \in SUBSET LoadBalancers
        BY <1>2, LeafKeys DEF IInv, TypeOK, Job
      <4>2. obj \in RootObject /\ obj.status = i.lbs
        BY <4>1 DEF RootObject
      <4>3. roots'[r].status = i.lbs
        BY <3>4, <4>1, <4>2, RootPends DEF IInv
      <4>4. JobRight(i) => StatusRight(l)'
        BY <1>1, <4>3 DEF JobRight, StatusRight
      <4>5. QED
        BY <3>2, <3>3, <4>4 DEF LeafSeen
    <3>5. QED
      BY <1>5, <3>1, <3>4
  <2>4. /\ \A o \in Leaves : o # l => dns'[o] = dns[o] /\ StatusKept(o)
        /\ UNCHANGED <<leaves, hosts, cachedRoots, cachedLeaves>>
    BY <1>1, <2>kept
  <2>5. NoJob.key \in {l, NoKey} /\ NoJob.host = NoHost /\ i = job[w] /\ i.key = l
    BY <1>3
  <2>6. QED
    BY <1>2, <2>1, <2>2, <2>3, <2>4, <2>5, LeafGoesOn
<1>6. QED
  BY <1>1, <1>4, <1>5

LEMMA WorkerDInv == ASSUME IInv, LInv, DInv, NEW w \in Workers, Worker(w) PROVE DInv'
<1>1. ASSUME RejectRecord(w) PROVE DInv'
  BY <1>1, FailAttends DEF RejectRecord, apiVars, informerVars
<1>2. QED
  BY <1>1, PatchDInv, ListDInv, GetServiceDInv, TrackDInv, DeleteLeafDInv, CreateLeafDInv,
     ReadLeafDInv, UpdateLeafDInv, ReadRootDInv, ReconcileDNSDInv, UpdateStatusDInv DEF Worker

LEMMA CallFailsDInv == ASSUME IInv, DInv, NEW w \in Workers, CallFails(w) PROVE DInv'
BY FailAttends DEF CallFails, APISteps, RootSteps, apiVars, informerVars

-----------------------------------------------------------------------------
(* A worker takes a key. *)

LEMMA TakenRemembers ==
  ASSUME IInv, NEW w \in Workers, NEW k \in Keys, Take(w, k),
         todo' = todo \ {k}, gaveUp \ {k} \subseteq gaveUp', UNCHANGED events,
         \A v \in Workers : v # w => job'[v] = job[v],
         job'[w].key \in {k, NoKey}
  PROVE  /\ \A x \in Keys \ {k} : Remembered(x)
         /\ \A v \in Workers : job[v].key \in Keys => v # w /\ job[v].key # k
<1>1. job[w].key = NoKey /\ k # NoKey /\ NoKey \notin Keys
  BY ConstantsAssumption DEF Take, IInv, JobsShaped, JobShape
<1>2. \A v \in Workers : job[v].key # k
  BY <1>1 DEF Take, Busy
<1>3. ASSUME NEW x \in Keys \ {k} PROVE Remembered(x)
  <2>1. x \notin Busy => x \notin Busy'
    BY <1>1 DEF Busy
  <2>2. QED
    BY <2>1 DEF Remembered
<1>4. QED
  BY <1>1, <1>2, <1>3

\* The key of a deleted object: there is nothing to be done for it, or its next event
\* is pending.
LEMMA ProcessDeletedDInv ==
  ASSUME IInv, DInv, NEW w \in Workers, NEW k \in Keys, ProcessDeleted(w, k)
  PROVE  DInv'
<1>1. /\ Take(w, k) /\ ~ InIndexer(k) /\ todo' = todo \ {k} /\ gaveUp' = gaveUp \ {k}
      /\ UNCHANGED <<roots, leaves, dns, hosts, cachedRoots, cachedLeaves, events, job>>
  BY DEF ProcessDeleted, apiVars, informerVars
<1>2. /\ \A x \in Keys \ {k} : Remembered(x)
      /\ \A v \in Workers : job[v].key \in Keys => v # w /\ job[v].key # k
  <2>1. job[w].key = NoKey
    BY <1>1 DEF Take, IInv, JobsShaped, JobShape
  <2>2. QED
    BY <1>1, <2>1, TakenRemembers
<1>3. HostsOK'
  BY <1>1 DEF DInv, HostsOK, CachedLeavesCurrent, HostsDrawn, HostsLive, HostSeen
<1>4. ASSUME NEW r \in Roots PROVE HostComing(r)'
  <2>1. CASE r = k
    BY <1>1, <2>1 DEF InIndexer, HostComing
  <2>2. CASE r # k
    <3>1. HostComing(r) /\ Remembered(r)
      BY <1>2, <2>2 DEF DInv, Keys
    <3>2. QED
      BY <1>1, <3>1, HostComingStays
  <2>3. QED
    BY <2>1, <2>2
<1>5. ASSUME NEW l \in Leaves PROVE LeafServed(l)'
  <2>1. LeafServed(l)
    BY DEF DInv
  <2>2. CASE l = k
    <3>1. ~ cachedLeaves[l].live
      BY <1>1, <2>2, LeafKeys DEF InIndexer
    <3>2. leaves[l].live => Pending(l, events)
      BY <3>1 DEF DInv, HostsOK, CachedLeavesCurrent
    <3>3. QED
      BY <1>1, <3>2 DEF LeafServed, LeafSeen, Attended
  <2>3. CASE l[1] = k
    <3>1. ~ cachedRoots[k].live
      BY <1>1, <2>3, LeafKeys DEF InIndexer
    <3>2. cachedRoots[k].host = NoHost
      BY <2>3, <3>1, LeafKeys DEF DInv, HostsOK, HostsLive
    <3>3. QED
      BY <1>1, <2>3, <3>2 DEF LeafServed
  <2>4. CASE l # k /\ l[1] # k
    <3>1. Remembered(l) /\ Remembered(l[1])
      BY <1>2, <2>4, LeafKeys
    <3>2. QED
      BY <1>1, <2>1, <3>1, StatusUntouched, LeafServedStays
  <2>5. QED
    BY <2>2, <2>3, <2>4
<1>6. QED
  BY <1>3, <1>4, <1>5 DEF DInv

LEMMA BeginRootDInv ==
  ASSUME IInv, DInv, NEW w \in Workers, NEW r \in Roots, BeginRoot(w, r)
  PROVE  DInv'
<1> PICK j : j = [NoJob EXCEPT !.at = IF cachedRoots[r].host = NoHost THEN "patch" ELSE "list",
                               !.key = r,
                               !.host = cachedRoots[r].host,
                               !.rules = cachedRoots[r].rules]
  OBVIOUS
<1>1. /\ Take(w, r) /\ todo' = todo \ {r}
      /\ job' = [job EXCEPT ![w] = j]
      /\ UNCHANGED <<roots, leaves, dns, hosts, cachedRoots, cachedLeaves, events, gaveUp>>
  BY DEF BeginRoot, apiVars, informerVars
<1>2. /\ j.key = r /\ j.host = cachedRoots[r].host
      /\ j.at = IF cachedRoots[r].host = NoHost THEN "patch" ELSE "list"
  BY DEF NoJob
<1>3. job'[w] = j /\ \A v \in Workers : v # w => job'[v] = job[v]
  BY <1>1 DEF IInv, TypeOK
<1>4. /\ \A x \in Keys \ {r} : Remembered(x)
      /\ \A v \in Workers : job[v].key \in Keys => v # w /\ job[v].key # r
  <2>1. r \in Keys /\ gaveUp \ {r} \subseteq gaveUp' /\ UNCHANGED events
    BY <1>1 DEF Keys
  <2>2. Take(w, r) /\ todo' = todo \ {r} /\ job'[w].key \in {r, NoKey}
    BY <1>1, <1>2, <1>3
  <2>3. QED
    BY <1>3, <2>1, <2>2, TakenRemembers
<1>5. HostsOK'
  <2>1. \A v \in Workers : \/ job'[v].host = NoHost
                           \/ job'[v].key = job[v].key /\ job'[v].host = job[v].host
                           \/ \E x \in Roots : /\ job'[v].host = cachedRoots[x].host
                                               /\ job'[v].key \in {x} \union Leaves
    BY <1>2, <1>3
  <2>2. /\ \A l \in Leaves : leaves'[l] = leaves[l] /\ leaves'[l].host = leaves[l].host
        /\ \A x \in Roots : roots'[x] = roots[x]
        /\ \A k : Pending(k, events) => Pending(k, events')
        /\ HostsOK
    BY <1>1 DEF DInv
  <2>3. QED
    BY <1>1, <2>1, <2>2, HostsMove
<1>6. ASSUME NEW x \in Roots PROVE HostComing(x)'
  <2>1. CASE x = r
    BY <1>1, <1>2, <1>3, <2>1 DEF HostComing
  <2>2. CASE x # r
    <3>1. HostComing(x) /\ Remembered(x)
      BY <1>4, <2>2 DEF DInv, Keys
    <3>2. \A v \in Workers : job[v].key = x => job'[v] = job[v]
      BY <1>3, <1>4 DEF Keys
    <3>3. QED
      BY <1>1, <3>1, <3>2, HostComingStays
  <2>3. QED
    BY <2>1, <2>2
<1>7. ASSUME NEW l \in Leaves PROVE LeafServed(l)'
  <2>1. LeafServed(l) /\ Remembered(l)
    BY <1>4, LeafKeys DEF DInv
  <2>2. \A v \in Workers : job[v].key \in {l, l[1]} => job'[v] = job[v]
    BY <1>3, <1>4, LeafKeys
  <2>3. CASE l[1] = r
    <3>1. RootAwaited(l)'
      BY <1>2, <1>3, <2>3 DEF RootAwaited, JobAwaited
    <3>2. LeafSeen(l) => LeafSeen(l)'
      BY <1>1, <2>1, <2>2, StatusUntouched, LeafSeenStays
    <3>3. QED
      BY <1>1, <2>1, <3>1, <3>2 DEF LeafServed
  <2>4. CASE l[1] # r
    <3>1. Remembered(l[1])
      BY <1>4, <2>4, LeafKeys
    <3>2. QED
      BY <1>1, <2>1, <2>2, <3>1, StatusUntouched, LeafServedStays
  <2>5. QED
    BY <2>3, <2>4
<1>8. QED
  BY <1>5, <1>6, <1>7 DEF DInv

LEMMA BeginLeafDInv ==
  ASSUME IInv, DInv, NEW w \in Workers, NEW l \in Leaves, BeginLeaf(w, l)
  PROVE  DInv'
<1> PICK j : j = [NoJob EXCEPT !.at = "root",
                               !.key = l,
                               !.own = cachedLeaves[l].lb,
                               !.deleting = cachedLeaves[l].deleting,
                               !.lbs = UNION {cachedLeaves[o].lb : o \in LeavesOwnedBy(l[1])}]
  OBVIOUS
<1>1. /\ Take(w, l) /\ todo' = todo \ {l}
      /\ job' = [job EXCEPT ![w] = j]
      /\ UNCHANGED <<roots, leaves, dns, hosts, cachedRoots, cachedLeaves, events, gaveUp>>
  BY DEF BeginLeaf, apiVars, informerVars
<1>2. /\ j.key = l /\ j.host = NoHost /\ j.at = "root"
      /\ j.own = cachedLeaves[l].lb /\ j.deleting = cachedLeaves[l].deleting
  BY DEF NoJob
<1>3. job'[w] = j /\ \A v \in Workers : v # w => job'[v] = job[v]
  BY <1>1 DEF IInv, TypeOK
<1>4. /\ \A x \in Keys \ {l} : Remembered(x)
      /\ \A v \in Workers : job[v].key \in Keys => v # w /\ job[v].key # l
  <2>1. l \in Keys /\ gaveUp \ {l} \subseteq gaveUp' /\ UNCHANGED events
    BY <1>1 DEF Keys
  <2>2. Take(w, l) /\ todo' = todo \ {l} /\ job'[w].key \in {l, NoKey}
    BY <1>1, <1>2, <1>3
  <2>3. QED
    BY <1>3, <2>1, <2>2, TakenRemembers
<1>5. HostsOK'
  <2>1. /\ \A o \in Leaves : leaves'[o] = leaves[o] /\ leaves'[o].host = leaves[o].host
        /\ \A x \in Roots : roots'[x] = roots[x]
        /\ \A k : Pending(k, events) => Pending(k, events')
        /\ HostsOK
    BY <1>1 DEF DInv
  <2>2. QED
    BY <1>1, <1>2, <2>1, JobHosts
<1>6. ASSUME NEW x \in Roots PROVE HostComing(x)'
  <2>1. HostComing(x) /\ Remembered(x)
    BY <1>4, Disjoint DEF DInv, Keys
  <2>2. \A v \in Workers : job[v].key = x => job'[v] = job[v]
    BY <1>3, <1>4 DEF Keys
  <2>3. QED
    BY <1>1, <2>1, <2>2, HostComingStays
<1>7. ASSUME NEW o \in Leaves PROVE LeafServed(o)'
  <2>1. LeafServed(o) /\ Remembered(o[1])
    BY <1>4, LeafKeys DEF DInv
  <2>2. \A v \in Workers : job[v].key \in {o, o[1]} => job'[v] = job[v]
    BY <1>3, <1>4, LeafKeys
  <2>3. CASE o = l
    <3>1. CASE Pending(l, events)
      BY <1>1, <2>3, <3>1 DEF LeafServed, LeafSeen, Attended
    <3>2. CASE ~ Pending(l, events)
      <4>1. cachedLeaves[l] = leaves[l]
        BY <3>2 DEF DInv, HostsOK, CachedLeavesCurrent
      <4>2. ~ leaves[l].deleting => JobRight(j)'
        <5>1. OnlyLeaf(l) => j.lbs = leaves[l].lb
          <6>1. j.lbs = UNION {cachedLeaves[x].lb : x \in LeavesOwnedBy(l[1])}
            BY DEF NoJob
          <6>2. cachedLeaves[l].live
            BY DEF BeginLeaf
          <6>3. OnlyLeaf(l) => LeavesOwnedBy(l[1]) = {l}
            BY <6>2 DEF OnlyLeaf, LeavesOwnedBy
          <6>4. QED
            BY <4>1, <6>1, <6>3
        <5>2. j.key = l /\ j.at = "root" /\ j.own = leaves[l].lb /\ j.deleting = leaves[l].deleting
          BY <4>1 DEF NoJob
        <5>3. UNCHANGED leaves
          BY <1>1
        <5>4. QED
          BY <5>1, <5>2, <5>3 DEF JobRight
      <4>3. ~ leaves[l].deleting => LeafSeen(l)'
        BY <1>2, <1>3, <4>2 DEF LeafSeen
      <4>4. QED
        BY <1>1, <2>3, <4>3 DEF LeafServed
    <3>3. QED
      BY <3>1, <3>2
  <2>4. CASE o # l
    <3>1. Remembered(o)
      BY <1>4, <2>4, LeafKeys
    <3>2. QED
      BY <1>1, <2>1, <2>2, <3>1, StatusUntouched, LeafServedStays
  <2>5. QED
    BY <2>3, <2>4
<1>8. QED
  BY <1>5, <1>6, <1>7 DEF DInv

LEMMA BeginDInv ==
  ASSUME IInv, DInv, NEW w \in Workers, NEW k \in Keys, Begin(w, k)
  PROVE  DInv'
BY ProcessDeletedDInv, BeginRootDInv, BeginLeafDInv DEF Begin

-----------------------------------------------------------------------------
(* The informers, the restart and the outside. *)

\* A step of nobody's job that writes no record and no hostname.
LEMMA NobodyMoves ==
  ASSUME IInv, DInv, UNCHANGED <<job, gaveUp, dns, hosts, cachedRoots, cachedLeaves>>,
         todo \subseteq todo',
         \A k : Pending(k, events) => Pending(k, events'),
         \A l \in Leaves : leaves'[l] = leaves[l] \/ Pending(l, events'),
         \A l \in Leaves : leaves'[l].host \in {leaves[l].host, NoHost},
         \A r \in Roots : \/ roots'[r].host = NoHost
                          \/ /\ roots'[r].host = roots[r].host
                             /\ roots'[r].status = roots[r].status
                             /\ roots[r].live => roots'[r].live
  PROVE  DInv'
<1>1. \A k \in Keys : Remembered(k)
  BY DEF Remembered, Busy
<1>2. \A w \in Workers : job'[w] = job[w]
  OBVIOUS
<1>3. HostsOK'
  BY <1>2, HostsMove DEF DInv
<1>4. ASSUME NEW r \in Roots PROVE HostComing(r)'
  BY <1>1, <1>2, HostComingStays DEF DInv, Keys
<1>5. ASSUME NEW l \in Leaves PROVE LeafServed(l)'
  <2>1. LeafServed(l) /\ Remembered(l) /\ Remembered(l[1])
    BY <1>1, LeafKeys DEF DInv
  <2>2. StatusKept(l)
    BY LeafKeys DEF StatusKept
  <2>3. QED
    BY <1>2, <2>1, <2>2, LeafServedStays
<1>6. QED
  BY <1>3, <1>4, <1>5 DEF DInv

\* The indexer takes a root or a leaf.  A leaf that has the root's hostname already had
\* it from the indexer, so the hostname there does not change; any other one waits for
\* the root, whose key is owed.
LEMMA DeliverDInv == ASSUME IInv, DInv, Deliver PROVE DInv'
<1> PICK k : k = Head(events)
  OBVIOUS
<1>1. /\ events # <<>> /\ events' = Tail(events)
      /\ cachedRoots' = IF k \in Roots THEN [cachedRoots EXCEPT ![k] = roots[k]] ELSE cachedRoots
      /\ cachedLeaves' = IF k \in Leaves THEN [cachedLeaves EXCEPT ![k] = leaves[k]]
                                         ELSE cachedLeaves
      /\ todo' = todo \union {k}
      /\ UNCHANGED <<job, gaveUp, roots, leaves, dns, hosts>>
  BY DEF Deliver, Enqueue, apiVars
<1>2. /\ \A r \in Roots : cachedRoots'[r] = IF r = k THEN roots[r] ELSE cachedRoots[r]
      /\ \A l \in Leaves : cachedLeaves'[l] = IF l = k THEN leaves[l] ELSE cachedLeaves[l]
  BY <1>1 DEF IInv, TypeOK
<1>3. \A x : Pending(x, events) => x = k \/ Pending(x, events')
  <2> SUFFICES ASSUME NEW x, NEW n \in 1 .. Len(events), events[n] = x, x # k
               PROVE  Pending(x, events')
    BY DEF Pending
  <2>1. events \in Seq(Keys)
    BY DEF IInv, TypeOK
  <2>2. n # 1
    BY <1>1, <2>1
  <2>3. n - 1 \in 1 .. Len(Tail(events)) /\ Tail(events)[n - 1] = x
    BY <1>1, <2>1, <2>2
  <2>4. QED
    BY <1>1, <2>3 DEF Pending
<1>4. \A x \in Keys : Remembered(x)
  BY <1>1, <1>3 DEF Remembered, Busy
<1>5. HostsOK'
  <2>1. CachedLeavesCurrent'
    BY <1>1, <1>2, <1>3 DEF DInv, HostsOK, CachedLeavesCurrent
  <2>2. HostsDrawn'
    BY <1>1, <1>2 DEF DInv, HostsOK, HostsDrawn
  <2>3. HostsLive'
    BY <1>1, <1>2 DEF DInv, HostsOK, HostsLive
  <2>4. \A r \in Roots : HostSeen(r)'
    BY <1>1, <1>2 DEF DInv, HostsOK, HostSeen
  <2>5. QED
    BY <2>1, <2>2, <2>3, <2>4 DEF HostsOK
<1>6. ASSUME NEW r \in Roots PROVE HostComing(r)'
  <2>1. CASE r = k
    BY <1>1, <2>1 DEF HostComing, Attended
  <2>2. CASE r # k
    <3>1. HostComing(r) /\ Remembered(r)
      BY <1>4 DEF DInv, Keys
    <3>2. QED
      BY <1>1, <1>2, <2>2, <3>1, HostComingStays
  <2>3. QED
    BY <2>1, <2>2
<1>7. ASSUME NEW l \in Leaves PROVE LeafServed(l)'
  <2>1. LeafServed(l) /\ Remembered(l) /\ Remembered(l[1])
    BY <1>4, LeafKeys DEF DInv
  <2>2. \A w \in Workers : job'[w] = job[w]
    BY <1>1
  <2>3. CASE l[1] = k /\ leaves[l].host # roots[k].host
    <3>1. RootAwaited(l)'
      BY <1>1, <2>3 DEF RootAwaited, Attended
    <3>2. cachedRoots'[l[1]].host = roots[k].host
      BY <1>2, <2>3, LeafKeys
    <3>3. QED
      BY <1>1, <2>3, <3>1, <3>2 DEF LeafServed
  <2>4. CASE l[1] = k /\ leaves[l].host = roots[k].host
    <3>1. CASE roots[k].host = NoHost
      BY <1>2, <2>4, <3>1, LeafKeys DEF LeafServed
    <3>2. CASE roots[k].host # NoHost
      <4>1. l[2] \in Clusters /\ l = <<k, l[2]>> /\ k \in Roots
        BY <2>4 DEF Leaves
      <4>2. cachedRoots[k].host = roots[k].host
        BY <2>4, <3>2, <4>1 DEF DInv, HostsOK, HostSeen
      <4>3. cachedRoots'[l[1]].host = cachedRoots[l[1]].host
        BY <1>2, <2>4, <4>1, <4>2
      <4>4. QED
        BY <1>1, <2>1, <2>2, <4>3, StatusUntouched, LeafServedStays
    <3>3. QED
      BY <3>1, <3>2
  <2>5. CASE l[1] # k
    BY <1>1, <1>2, <2>1, <2>2, <2>5, LeafKeys, StatusUntouched, LeafServedStays
  <2>6. QED
    BY <2>3, <2>4, <2>5
<1>8. QED
  BY <1>5, <1>6, <1>7 DEF DInv

LEMMA DeliverServiceDInv ==
  ASSUME IInv, DInv, NEW s \in Services, DeliverService(s)
  PROVE  DInv'
<1>1. /\ todo \subseteq todo'
      /\ UNCHANGED <<job, gaveUp, roots, leaves, dns, hosts, cachedRoots, cachedLeaves, events>>
  BY DEF DeliverService, queueVars, apiVars
<1>2. QED
  BY <1>1, NobodyMoves

LEMMA EnqueueNextDInv == ASSUME IInv, DInv, EnqueueNext PROVE DInv'
<1>1. /\ todo \subseteq todo'
      /\ UNCHANGED <<job, gaveUp, roots, leaves, dns, hosts, cachedRoots, cachedLeaves, events>>
  BY DEF EnqueueNext, Enqueue, apiVars, informerVars
<1>2. QED
  BY <1>1, NobodyMoves

LEMMA ResyncDInv == ASSUME IInv, DInv, NEW k \in Keys, Resync(k) PROVE DInv'
<1>1. /\ todo \subseteq todo'
      /\ UNCHANGED <<job, gaveUp, roots, leaves, dns, hosts, cachedRoots, cachedLeaves, events>>
  BY DEF Resync, Enqueue, apiVars, informerVars
<1>2. QED
  BY <1>1, NobodyMoves

\* What exists is owed after a restart.
LEMMA RestartDInv == ASSUME IInv, DInv, Restart PROVE DInv'
<1> DEFINE alive(k) == IF k \in Roots THEN roots[k].live ELSE leaves[k].live
<1>1. /\ cachedRoots' = roots /\ cachedLeaves' = leaves
      /\ job' = [w \in Workers |-> NoJob]
      /\ todo' = {k \in Keys : alive(k)}
      /\ UNCHANGED <<roots, leaves, dns, hosts>>
  BY DEF Restart, apiVars
<1>2. \A w \in Workers : job'[w].host = NoHost
  BY <1>1 DEF NoJob
<1>3. HostsOK'
  <2>1. NoHost \notin Nat
    BY ConstantsAssumption
  <2>2. QED
    BY <1>1, <1>2, <2>1 DEF DInv, HostsOK, CachedLeavesCurrent, HostsDrawn, HostsLive, HostSeen
<1>4. \A r \in Roots : HostComing(r)'
  BY <1>1 DEF HostComing, Attended, Keys
<1>5. \A l \in Leaves : LeafServed(l)'
  BY <1>1, LeafKeys DEF LeafServed, LeafSeen, Attended
<1>6. QED
  BY <1>3, <1>4, <1>5 DEF DInv

\* A user writes a root, but gives it no hostname.
LEMMA RootHostKept ==
  ASSUME IInv, DInv, NEW action, Outside(action), UNCHANGED leaves,
         NEW r \in Roots, NEW obj \in RootObject, WriteRoot(r, obj),
         \/ obj.host = NoHost
         \/ /\ obj.host = roots[r].host /\ obj.live = roots[r].live
            /\ obj.status = roots[r].status
  PROVE  DInv'
<1>1. /\ \A k : Pending(k, events) => Pending(k, events')
      /\ \A x \in Roots : \/ roots'[x].host = NoHost
                          \/ /\ roots'[x].host = roots[x].host
                             /\ roots'[x].status = roots[x].status
                             /\ roots[x].live => roots'[x].live
  <2>1. TypeOK
    BY DEF IInv
  <2>2. QED
    BY <2>1, RootPends
<1>2. UNCHANGED <<job, gaveUp, dns, hosts, cachedRoots, cachedLeaves, todo>>
  BY DEF Outside, queueVars
<1>3. \A l \in Leaves : leaves'[l] = leaves[l] /\ leaves'[l].host = leaves[l].host
  OBVIOUS
<1>4. QED
  BY <1>1, <1>2, <1>3, NobodyMoves

\* A syncer, or whoever sets finalizers, writes a leaf, but not its hostname.
LEMMA LeafHostKept ==
  ASSUME IInv, DInv, NEW action, Outside(action), UNCHANGED roots,
         NEW l \in Leaves, NEW obj \in LeafObject, WriteLeaf(l, obj),
         obj.host \in {leaves[l].host, NoHost}
  PROVE  DInv'
<1>1. /\ \A k : Pending(k, events) => Pending(k, events')
      /\ \A o \in Leaves : leaves'[o] = leaves[o] \/ Pending(o, events')
      /\ \A o \in Leaves : leaves'[o].host \in {leaves[o].host, NoHost}
  <2>1. TypeOK
    BY DEF IInv
  <2>2. QED
    BY <2>1, LeafPends
<1>2. UNCHANGED <<job, gaveUp, dns, hosts, cachedRoots, cachedLeaves, todo>>
  BY DEF Outside, queueVars
<1>3. \A r \in Roots : roots'[r] = roots[r]
  OBVIOUS
<1>4. QED
  BY <1>1, <1>2, <1>3, NobodyMoves

\* Somebody writes neither roots nor leaves.
LEMMA NoIngressWritten ==
  ASSUME IInv, DInv, NEW action, Outside(action), UNCHANGED <<roots, leaves, events>>
  PROVE  DInv'
<1>1. UNCHANGED <<job, gaveUp, dns, hosts, cachedRoots, cachedLeaves, todo>>
  BY DEF Outside, queueVars
<1>2. QED
  BY <1>1, NobodyMoves

LEMMA EnvironmentDInv == ASSUME IInv, DInv, Environment PROVE DInv'
<1>0. /\ \A l \in Leaves : leaves[l] \in LeafObject /\ leaves[l].rv \in Nat
      /\ \A r \in Roots : roots[r] \in RootObject /\ roots[r].rv \in Nat
      /\ \A r \in Roots : \A rules \in RulesOf[r] : rules \in Seq(Services)
  BY ConstantsAssumption DEF IInv, TypeOK, LeafObject, RootObject
<1>1. ASSUME NEW r \in Roots, DeleteRoot(r) PROVE DInv'
  <2>1. NoRoot(roots[r].rv) \in RootObject /\ NoRoot(roots[r].rv).host = NoHost
    BY <1>0, NoObjects DEF NoRoot
  <2>2. QED
    BY <1>1, <2>1, RootHostKept DEF DeleteRoot
<1>2. ASSUME NEW r \in Roots, NEW rules \in RulesOf[r], CreateRoot(r, rules) PROVE DInv'
  <2> PICK obj : obj = [NoRoot(roots[r].rv) EXCEPT !.live = TRUE, !.rules = rules]
    OBVIOUS
  <2>1. obj \in RootObject /\ obj.host = NoHost
    BY <1>0, <1>2 DEF NoRoot, RootObject, Hostname
  <2>2. QED
    BY <1>2, <2>1, RootHostKept DEF CreateRoot
<1>3. ASSUME NEW r \in Roots, NEW rules \in RulesOf[r], UpdateRoot(r, rules) PROVE DInv'
  <2> PICK obj : obj = [roots[r] EXCEPT !.rules = rules]
    OBVIOUS
  <2>1. /\ obj \in RootObject
        /\ obj.host = roots[r].host /\ obj.live = roots[r].live /\ obj.status = roots[r].status
    BY <1>0, <1>3 DEF RootObject
  <2>2. QED
    BY <1>3, <2>1, RootHostKept DEF UpdateRoot
<1>4. ASSUME NEW s \in Services, RemoveService(s) PROVE DInv'
  BY <1>4, NoIngressWritten DEF RemoveService
<1>5. ASSUME NEW s \in Services, NEW c \in Clusters \union {NoCluster}, PlaceService(s, c)
      PROVE  DInv'
  BY <1>5, NoIngressWritten DEF PlaceService
<1>6. ASSUME NEW l \in Leaves, Pin(l) PROVE DInv'
  <2> PICK obj : obj = [leaves[l] EXCEPT !.pinned = TRUE]
    OBVIOUS
  <2>1. obj \in LeafObject /\ obj.host = leaves[l].host
    BY <1>0 DEF LeafObject
  <2>2. QED
    BY <1>6, <2>1, LeafHostKept DEF Pin
<1>7. ASSUME NEW l \in Leaves, Unpin(l) PROVE DInv'
  <2> PICK free : free = [leaves[l] EXCEPT !.pinned = FALSE]
    OBVIOUS
  <2>1. free \in LeafObject /\ free.host = leaves[l].host
    BY <1>0 DEF LeafObject
  <2>2. NoLeaf(leaves[l].rv) \in LeafObject /\ NoLeaf(leaves[l].rv).host = NoHost
    BY <1>0, NoObjects DEF NoLeaf
  <2>3. QED
    BY <1>7, <2>1, <2>2, LeafHostKept DEF Unpin
<1>8. ASSUME NEW l \in Leaves, NEW lbs \in SUBSET LoadBalancers, ReportStatus(l, lbs) PROVE DInv'
  <2> PICK obj : obj = [leaves[l] EXCEPT !.lb = lbs]
    OBVIOUS
  <2>1. obj \in LeafObject /\ obj.host = leaves[l].host
    BY <1>0 DEF LeafObject
  <2>2. QED
    BY <1>8, <2>1, LeafHostKept DEF ReportStatus
<1>9. ASSUME NEW lb \in LoadBalancers, ChangeAddress(lb) PROVE DInv'
  BY <1>9, NoIngressWritten DEF ChangeAddress
<1>10. QED
  BY <1>1, <1>2, <1>3, <1>4, <1>5, <1>6, <1>7, <1>8, <1>9 DEF Environment

-----------------------------------------------------------------------------
(* The theorems. *)

LEMMA InitDInv == Init => DInv
<1> SUFFICES ASSUME Init PROVE DInv
  OBVIOUS
<1>0. NoHost \notin Nat
  BY ConstantsAssumption
<1>1. /\ \A r \in Roots : roots[r].host = NoHost /\ cachedRoots[r] = roots[r] /\ ~ roots[r].live
      /\ \A l \in Leaves : leaves[l].host = NoHost /\ cachedLeaves[l] = leaves[l]
      /\ \A w \in Workers : job[w].host = NoHost
  BY DEF Init, NoRoot, NoLeaf, NoJob
<1>2. HostsOK
  BY <1>0, <1>1 DEF HostsOK, CachedLeavesCurrent, HostsDrawn, HostsLive, HostSeen
<1>3. \A r \in Roots : HostComing(r)
  BY <1>1 DEF HostComing
<1>4. \A l \in Leaves : LeafServed(l)
  BY <1>1, LeafKeys DEF LeafServed
<1>5. QED
  BY <1>2, <1>3, <1>4 DEF DInv

LEMMA NextDInv == IInv /\ LInv /\ DInv /\ [Next]_vars => DInv'
<1> SUFFICES ASSUME IInv, LInv, DInv, [Next]_vars PROVE DInv'
  OBVIOUS
<1>1. CASE UNCHANGED vars
  <2>1. /\ UNCHANGED <<job, gaveUp, roots, leaves, dns, hosts, cachedRoots, cachedLeaves, events>>
        /\ todo \subseteq todo'
    BY <1>1 DEF vars, apiVars, informerVars, queueVars
  <2>2. QED
    BY <2>1, NobodyMoves
<1>2. CASE Next
  BY <1>2, WorkerDInv, CallFailsDInv, BeginDInv, DeliverDInv, DeliverServiceDInv,
     EnqueueNextDInv, ResyncDInv, RestartDInv, EnvironmentDInv DEF Next
<1>3. QED
  BY <1>1, <1>2

\* reconcile, ingress.go:40-45 and 137-205: in every state, a leaf whose record, or whose
\* root's status, is not the one that is asked for has an event pending, is owed, dropped
\* or in the hands of a worker that knows what they are to be, or has an older hostname
\* than its root and the root is owed, dropped or still on its way to the leaf.
THEOREM LeavesServed == Spec => []DInv
<1>1. Init => IInv /\ LInv /\ DInv
  BY InitIInv, InitLInv, InitDInv
<1>2. IInv /\ LInv /\ DInv /\ [Next]_vars => IInv' /\ LInv' /\ DInv'
  BY NextIInv, NextLInv, NextDInv
<1>3. QED
  BY <1>1, <1>2, PTL DEF Spec

\* At rest nobody has still to see to a leaf.
LEMMA NothingLeft ==
  ASSUME IInv, DInv, NEW l \in Leaves, AtRest(l)
  PROVE  /\ cachedRoots[l[1]] = roots[l[1]]
         /\ roots[l[1]].host # NoHost
         /\ RecordRight(l)
         /\ StatusRight(l)
<1>1. /\ l[1] \in Roots /\ l[1] # NoKey /\ l # NoKey
      /\ \A k : ~ Pending(k, events)
      /\ todo = {} /\ Busy = {} /\ l \notin gaveUp /\ l[1] \notin gaveUp
      /\ roots[l[1]].live /\ leaves[l].live /\ ~ leaves[l].deleting
  BY LeafKeys DEF AtRest, Settled, Quiet, Pending
<1>2. cachedRoots[l[1]] = roots[l[1]]
  BY <1>1 DEF IInv, CachedRootsCurrent, Pending
<1>3. ~ Attended(l) /\ ~ Attended(l[1])
  BY <1>1 DEF Attended
<1>4. \A w \in Workers : job[w].key # l /\ job[w].key # l[1]
  BY <1>1 DEF Busy
<1>5. cachedRoots[l[1]].host # NoHost
  BY <1>1, <1>2, <1>3, <1>4 DEF DInv, HostComing
<1>6. ~ RootAwaited(l)
  BY <1>3, <1>4 DEF RootAwaited
<1>7. LeafSeen(l)
  BY <1>1, <1>5, <1>6 DEF DInv, LeafServed
<1>8. RecordRight(l) /\ StatusRight(l)
  BY <1>3, <1>4, <1>7 DEF LeafSeen
<1>9. QED
  BY <1>2, <1>5, <1>8

\* reconcile, ingress.go:137-170: once everything is quiet, a leaf that was not dropped
\* has a DNSRecord exactly if a load balancer is reported for it, and the record maps
\* the hostname the root has now to each load balancer it has now and to no other.
THEOREM RecordsConverge == Spec => []DnsConverged
<1>1. IInv /\ DInv => DnsConverged
  BY NothingLeft DEF DnsConverged, RecordRight
<1>2. QED
  BY <1>1, InductiveInvariant, LeavesServed, PTL

\* reconcile, ingress.go:172-205: once everything is quiet, the status of a root that
\* has but one leaf, neither of them dropped, is the status of the leaf.
THEOREM StatusConverges == Spec => []StatusConverged
<1>1. IInv /\ DInv => StatusConverged
  BY NothingLeft DEF StatusConverged, StatusRight
<1>2. QED
  BY <1>1, InductiveInvariant, LeavesServed, PTL

=============================================================================
