-------------------------- MODULE IngressController -------------------------
(***************************************************************************)
(* The ingress controller against the kcp API server, with the Envoy       *)
(* control plane off (the default of the -envoyxds flag).                  *)
(*                                                                         *)
(* A user writes root Ingresses and Services; the controller gives a root  *)
(* a global hostname, creates one leaf Ingress per cluster its Services    *)
(* are assigned to, publishes a DNSRecord for each leaf a syncer has       *)
(* reported a load balancer for, and merges the leaves' load balancers     *)
(* into the status of the root.  Workers read a cache that the informer    *)
(* brings up to date later, and write the API server one call at a time;   *)
(* each call, and each read of the cache at a different moment, is an      *)
(* action of its own.                                                      *)
(*                                                                         *)
(* Resource versions count the writes to an object.  A leaf is known by    *)
(* its root and its cluster: "<root name>--<cluster>" in the namespace of  *)
(* the root (names are assumed not to contain "--").  The rules of an      *)
(* Ingress are abstracted to the sequence of Services they reference, a    *)
(* load balancer entry to a member of LoadBalancers, and the order and     *)
(* repetition of the entries of a status are left out.  The tracker, and   *)
(* the unlocked loop of the Service handler over a slice of it, are those  *)
(* of module Tracker, which TrackerSlices refines to Go's slices.          *)
(***************************************************************************)
EXTENDS Naturals, Sequences, SequencesExt

CONSTANTS
  Roots,            \* root Ingresses, each a name in a namespace
  NameOf,           \* the name of each, without the namespace
  Clusters,         \* physical clusters, as in the label kcp.dev/cluster
  Services,         \* Services, each in the namespace of the roots that use it
  RulesOf,          \* for each root, the Service sequences its rules may have
  Placement,        \* initially: the cluster of each Service, NoCluster, Missing
  LoadBalancers,    \* status.loadBalancer.ingress entries a syncer may report
  Unaddressed,      \* those of them with neither hostname nor IP
  Workers,          \* goroutines: main starts numThreads = 2
  MaxRetries,       \* 5 in handleErr
  UserActions,      \* which outside steps a run allows (see Outside)
  MaxChanges,       \* bound: outside steps in a behaviour
  MaxFaults,        \* bound: API calls and DNS lookups that fail
  MaxRestarts,      \* bound: crashes of the controller
  NoHost, NoCluster, Missing, NoKey, NoRecord, NoService

Leaves == Roots \X Clusters
Keys == Roots \union Leaves

ASSUME ConstantsAssumption ==
  /\ Roots \intersect Leaves = {}
  /\ NoKey \notin Keys
  /\ RulesOf \in [Roots -> SUBSET Seq(Services)]
  /\ NoCluster \notin Clusters /\ Missing \notin Clusters /\ Missing # NoCluster
  /\ Placement \in [Services -> Clusters \union {NoCluster, Missing}]
  /\ NoHost \notin Nat
  /\ NoService \notin Services
  /\ NoRecord \notin [host : Nat, targets : SUBSET (LoadBalancers \X BOOLEAN)]
  /\ MaxRetries \in Nat /\ MaxChanges \in Nat /\ MaxFaults \in Nat /\ MaxRestarts \in Nat

VARIABLES
  (* the API server *)
  roots,             \* root Ingresses
  leaves,            \* leaf Ingresses
  services,          \* the cluster label of each Service, or Missing
  dns,               \* the DNSRecord named after each leaf
  hosts,             \* how many hostnames xid.New has produced
  (* the informers *)
  cachedRoots, cachedLeaves,   \* the indexer of the Ingress informer
  events,            \* Ingress keys with a change not yet in the indexer
  svcEvents,         \* Services with an update or deletion not yet handled
  (* the controller's memory *)
  todo, failures,    \* the work queue: keys owed a reconciliation; retries
  trackedServices, ingressToServices,     \* the tracker
  loop,              \* the Service handler ranging over a slice of the tracker
  job,               \* the reconciliation each worker is in
  (* the resolver *)
  answers,           \* which of two sets of addresses each name resolves to
  (* bookkeeping *)
  gaveUp,            \* history: keys dropped and not reconciled since
  overlooked,        \* history: roots owed a key for a change, and not begun since
  unlisted,          \* history: leaves that were missing from the last list of their root
  changes, faults, restarts               \* counters for the bounds

apiVars == <<roots, leaves, services, dns, hosts>>
informerVars == <<cachedRoots, cachedLeaves, events, svcEvents>>
queueVars == <<todo, failures, gaveUp>>
trackerVars == <<trackedServices, ingressToServices, loop>>
boundVars == <<changes, faults, restarts>>
outsideVars == <<answers, overlooked, unlisted, boundVars>>
vars == <<apiVars, informerVars, queueVars, trackerVars, job, outsideVars>>

T == INSTANCE Tracker WITH Ingresses <- Roots

-----------------------------------------------------------------------------
(* Objects. *)

Hostname == Nat \union {NoHost}

\* An object that does not exist keeps the version of its last deletion, so that
\* one created later under the same name is told from it (a UID does that).
RootObject == [live : BOOLEAN, rv : Nat, host : Hostname,
               rules : Seq(Services), status : SUBSET LoadBalancers]
LeafObject == [live : BOOLEAN, rv : Nat, host : Hostname, rules : Seq(Services),
               lb : SUBSET LoadBalancers, deleting : BOOLEAN, pinned : BOOLEAN]

NoRoot(n) == [live |-> FALSE, rv |-> n, host |-> NoHost, rules |-> <<>>, status |-> {}]
NoLeaf(n) == [live |-> FALSE, rv |-> n, host |-> NoHost, rules |-> <<>>,
              lb |-> {}, deleting |-> FALSE, pinned |-> FALSE]

\* A target is an address: which load balancer's, and of which answer.
DNSRecord == [host : Nat, targets : SUBSET (LoadBalancers \X BOOLEAN)]

\* The record of a leaf, with what net.LookupIP answers now (an entry with an IP
\* is one whose answer stays); a failing lookup is CallFails.
getDNSRecord(hostname, lbs) ==
  [host |-> hostname, targets |-> {<<lb, answers[lb]>> : lb \in lbs \ Unaddressed}]

\* The leaf has been admitted, and is to have a record.
Published(j) == j.host # NoHost /\ j.own # {} /\ ~ j.deleting

\* The CRD asks for at least one target.
Invalid(record) == record.targets = {}

RootSteps == {"patch", "list", "get", "track", "delete", "create", "read", "update"}
LeafSteps == {"root", "dns", "status"}
APISteps == (RootSteps \ {"list", "track"}) \union {"dns", "status"}

\* What a worker carries through one reconciliation.
Job == [at : RootSteps \union LeafSteps \union {"idle"},
        key : Keys \union {NoKey},
        host : Hostname,             \* of the cached root
        rules : Seq(Services),       \* of the cached root
        rv : Nat,                    \* of the object an update is based on
        left : Seq(Services),        \* Services still to get, then to track
        want : Seq(Leaves),          \* leaves still to create or update
        drop : SUBSET Leaves,        \* leaves listed, then those to delete
        lbs : SUBSET LoadBalancers,  \* merged from the listed leaves
        own : SUBSET LoadBalancers,  \* of the leaf being reconciled
        deleting : BOOLEAN]          \* whether that leaf is being deleted
NoJob == [at |-> "idle", key |-> NoKey, host |-> NoHost, rules |-> <<>>, rv |-> 0,
          left |-> <<>>, want |-> <<>>, drop |-> {}, lbs |-> {}, own |-> {},
          deleting |-> FALSE]

TypeOK ==
  /\ roots \in [Roots -> RootObject]
  /\ leaves \in [Leaves -> LeafObject]
  /\ services \in [Services -> Clusters \union {NoCluster, Missing}]
  /\ dns \in [Leaves -> DNSRecord \union {NoRecord}]
  /\ hosts \in Nat
  /\ cachedRoots \in [Roots -> RootObject]
  /\ cachedLeaves \in [Leaves -> LeafObject]
  /\ events \in Seq(Keys)
  /\ svcEvents \subseteq Services
  /\ todo \subseteq Keys
  /\ failures \in [Keys -> 0 .. MaxRetries]
  /\ T!TypeOK
  /\ job \in [Workers -> Job]
  /\ answers \in [LoadBalancers -> BOOLEAN]
  /\ gaveUp \subseteq Keys
  /\ overlooked \subseteq Roots
  /\ unlisted \subseteq Leaves
  /\ changes \in 0 .. MaxChanges
  /\ faults \in 0 .. MaxFaults
  /\ restarts \in 0 .. MaxRestarts

Init ==
  /\ roots = [r \in Roots |-> NoRoot(0)]
  /\ leaves = [l \in Leaves |-> NoLeaf(0)]
  /\ services = Placement
  /\ dns = [l \in Leaves |-> NoRecord]
  /\ hosts = 0
  /\ cachedRoots = roots
  /\ cachedLeaves = leaves
  /\ events = <<>>
  /\ svcEvents = {}
  /\ todo = {}
  /\ failures = [k \in Keys |-> 0]
  /\ T!Init
  /\ job = [w \in Workers |-> NoJob]
  /\ answers = [lb \in LoadBalancers |-> FALSE]
  /\ gaveUp = {}
  /\ overlooked = {}
  /\ unlisted = {}
  /\ changes = 0
  /\ faults = 0
  /\ restarts = 0

-----------------------------------------------------------------------------
(* The API server.  A write that changes an object takes a new version and   *)
(* reaches the informer as an event; a write that changes nothing does       *)
(* neither.  The informer's queue holds each key once (a DeltaFIFO), so a    *)
(* key with several undelivered changes is delivered in its last state.      *)

Emit(k) == events' = IF \E i \in 1 .. Len(events) : events[i] = k
                     THEN events ELSE Append(events, k)

WriteRoot(r, obj) ==
  IF obj = roots[r]
  THEN UNCHANGED <<roots, events>>
  ELSE /\ roots' = [roots EXCEPT ![r] = [obj EXCEPT !.rv = @ + 1]]
       /\ Emit(r)

WriteLeaf(l, obj) ==
  IF obj = leaves[l]
  THEN UNCHANGED <<leaves, events>>
  ELSE /\ leaves' = [leaves EXCEPT ![l] = [obj EXCEPT !.rv = @ + 1]]
       /\ Emit(l)

\* Removing an object, or marking it while a finalizer pins it.
DeleteLeafObject(l) ==
  IF leaves[l].pinned
  THEN WriteLeaf(l, [leaves[l] EXCEPT !.deleting = TRUE])
  ELSE WriteLeaf(l, NoLeaf(leaves[l].rv))

-----------------------------------------------------------------------------
(* The work queue, as KeyQueue describes it, and handleErr. *)

Bump(n) == IF n < MaxRetries THEN n + 1 ELSE n

Busy == {job[w].key : w \in Workers} \ {NoKey}

\* Faulty: the objects where their keys are expected.
EnqueueObjects(ks) ==
  /\ todo' = todo \union {<<k>> : k \in ks}
  /\ UNCHANGED <<failures, gaveUp>>

\* AddRateLimited for every key of a set.
Enqueue(ks) ==
  /\ todo' = todo \union ks
  /\ failures' = [k \in Keys |-> IF k \in ks THEN Bump(failures[k]) ELSE failures[k]]
  /\ UNCHANGED gaveUp

\* process returned nil.
Succeed(w, k) ==
  /\ job' = [job EXCEPT ![w] = NoJob]
  /\ failures' = [failures EXCEPT ![k] = 0]
  /\ gaveUp' = gaveUp \ {k}
  /\ UNCHANGED todo

\* Faulty: no bound on retries.
FailForever(w) ==
  /\ job' = [job EXCEPT ![w] = NoJob]
  /\ Enqueue({job[w].key})

\* process returned an error: requeue, or drop the key after the last retry.
Fail(w) ==
  LET k == job[w].key
  IN  /\ job' = [job EXCEPT ![w] = NoJob]
      /\ \/ /\ failures[k] < MaxRetries
            /\ Enqueue({k})
         \/ /\ failures[k] >= MaxRetries
            /\ failures' = [failures EXCEPT ![k] = 0]
            /\ gaveUp' = gaveUp \union {k}
            /\ UNCHANGED todo

\* reconcile adds its own key again and returns nil, so the limiter forgets it.
RequeueAndForget(w) ==
  LET k == job[w].key
  IN  /\ job' = [job EXCEPT ![w] = NoJob]
      /\ todo' = todo \union {k}
      /\ failures' = [failures EXCEPT ![k] = 0]
      /\ gaveUp' = gaveUp \ {k}

\* The reconciliation goes on with j, or is over.
Continue(w, j) ==
  IF j.at = "idle"
  THEN Succeed(w, job[w].key)
  ELSE job' = [job EXCEPT ![w] = j] /\ UNCHANGED queueVars

-----------------------------------------------------------------------------
(* process: taking a key and reading the indexer. *)

\* Leaves in the indexer whose label kcp.dev/owned-by is the name of r: the
\* lister looks in every namespace.
LeavesOwnedBy(r) == {l \in Leaves : cachedLeaves[l].live /\ NameOf[l[1]] = NameOf[r]}

\* A worker takes a key.
Take(w, k) == /\ job[w].at = "idle"
              /\ k \in todo
              /\ k \notin Busy

InIndexer(k) == IF k \in Roots THEN cachedRoots[k].live ELSE cachedLeaves[k].live

\* The key is no longer in the indexer: only the tracker is told, which knows
\* roots alone.
ProcessDeleted(w, k) ==
  /\ Take(w, k)
  /\ ~ InIndexer(k)
  /\ todo' = todo \ {k}
  /\ IF k \in Roots THEN T!deleteIngress(k) ELSE UNCHANGED trackerVars
  /\ failures' = [failures EXCEPT ![k] = 0]
  /\ gaveUp' = gaveUp \ {k}
  /\ UNCHANGED <<apiVars, informerVars, job, outsideVars>>

\* A root: without a hostname in the indexer it is given one first.
BeginRoot(w, r) ==
  /\ Take(w, r)
  /\ cachedRoots[r].live
  /\ todo' = todo \ {r}
  /\ overlooked' = overlooked \ {r}
  /\ unlisted' = {l \in unlisted : l[1] # r}
  /\ job' = [job EXCEPT ![w] =
               [NoJob EXCEPT !.at = IF cachedRoots[r].host = NoHost THEN "patch" ELSE "list",
                             !.key = r,
                             !.host = cachedRoots[r].host,
                             !.rules = cachedRoots[r].rules]]
  /\ UNCHANGED <<apiVars, informerVars, failures, gaveUp, trackerVars, answers, boundVars>>

\* Faulty: "others" taken literally, without the leaf itself.
BeginLeafOthers(w, l) ==
  /\ Take(w, l)
  /\ cachedLeaves[l].live
  /\ todo' = todo \ {l}
  /\ job' = [job EXCEPT ![w] =
               [NoJob EXCEPT !.at = "root",
                             !.key = l,
                             !.own = cachedLeaves[l].lb,
                             !.deleting = cachedLeaves[l].deleting,
                             !.lbs = UNION {cachedLeaves[o].lb : o \in LeavesOwnedBy(l[1]) \ {l}}]]
  /\ UNCHANGED <<apiVars, informerVars, failures, gaveUp, trackerVars, outsideVars>>

\* A leaf: it is read and its siblings are listed, then the root is looked up.
BeginLeaf(w, l) ==
  /\ Take(w, l)
  /\ cachedLeaves[l].live
  /\ todo' = todo \ {l}
  /\ job' = [job EXCEPT ![w] =
               [NoJob EXCEPT !.at = "root",
                             !.key = l,
                             !.own = cachedLeaves[l].lb,
                             !.deleting = cachedLeaves[l].deleting,
                             !.lbs = UNION {cachedLeaves[o].lb : o \in LeavesOwnedBy(l[1])}]]
  /\ UNCHANGED <<apiVars, informerVars, failures, gaveUp, trackerVars, outsideVars>>

-----------------------------------------------------------------------------
(* reconcile, for a root. *)

\* patchIngress: a merge patch, so without a version to conflict with.  The
\* patched object does not reach the caller: the job keeps the old root.
Patch(w) ==
  LET r == job[w].key
  IN  /\ job[w].at = "patch"
      /\ \/ /\ roots[r].live
            /\ hosts' = hosts + 1
            /\ WriteRoot(r, [roots[r] EXCEPT !.host = hosts + 1])
            /\ job' = [job EXCEPT ![w].at = "list"]
            /\ UNCHANGED queueVars
         \/ /\ ~ roots[r].live
            /\ Fail(w)
            /\ UNCHANGED <<roots, events, hosts>>
      /\ UNCHANGED <<leaves, services, dns, cachedRoots, cachedLeaves, svcEvents,
                     trackerVars, outsideVars>>

\* Faulty: with no leaf to write, the reconciliation is over.
WriteStepIfDesired(j) == [j EXCEPT !.at = IF j.want = <<>> THEN "idle"
                                          ELSE IF j.drop # {} THEN "delete"
                                          ELSE "create"]

\* Deletions first, then creations and updates.
WriteStep(j) == [j EXCEPT !.at = IF j.drop # {} THEN "delete"
                                 ELSE IF j.want # <<>> THEN "create"
                                 ELSE "idle"]

LeafName(l) == <<NameOf[l[1]], l[2]>>

\* Faulty: the owners are compared.
NotDesiredByOwner(listed, desired) ==
  {l \in listed : \A i \in 1 .. Len(desired) : NameOf[desired[i][1]] # NameOf[l[1]]}

\* Current leaves that are not desired: findNonDesiredLeaves compares names
\* only, not namespaces.
NotDesired(listed, desired) ==
  {l \in listed : \A i \in 1 .. Len(desired) : LeafName(desired[i]) # LeafName(l)}

\* The leaves of r that exist and that the cache does not hold yet.
NotListed(r) == {l \in Leaves : l[1] = r /\ leaves[l].live /\ ~ cachedLeaves[l].live}

\* lister.List; an Ingress without rules has no Service to get.
List(w) ==
  LET r == job[w].key
      j == [job[w] EXCEPT !.drop = LeavesOwnedBy(r), !.left = job[w].rules]
  IN  /\ job[w].at = "list"
      /\ Continue(w, IF j.left = <<>> THEN WriteStep(j) ELSE [j EXCEPT !.at = "get"])
      /\ unlisted' = unlisted \union NotListed(r)
      /\ UNCHANGED <<apiVars, informerVars, trackerVars, answers, overlooked, boundVars>>

\* getServices: one Get per path; a Service that does not exist fails them all,
\* one without a cluster is skipped later but still tracked.
GetService(w) ==
  LET j == job[w]
      s == Head(j.left)
      desired == IF services[s] \in Clusters
                 THEN Append(j.want, <<j.key, services[s]>>) ELSE j.want
  IN  /\ j.at = "get"
      /\ \/ /\ services[s] # Missing
            /\ job' = [job EXCEPT ![w] =
                 IF Len(j.left) > 1
                 THEN [j EXCEPT !.left = Tail(j.left), !.want = desired]
                 ELSE [j EXCEPT !.left = j.rules, !.want = desired, !.at = "track"]]
            /\ UNCHANGED queueVars
         \/ /\ services[s] = Missing
            /\ Fail(w)
      /\ UNCHANGED <<apiVars, informerVars, trackerVars, outsideVars>>

\* Faulty: the loop ends after the first Service.
TrackFirst(w) ==
  LET j == job[w]
  IN  /\ j.at = "track"
      /\ T!add(j.key, Head(j.left))
      /\ Continue(w, WriteStep([j EXCEPT !.left = <<>>, !.drop = NotDesired(j.drop, j.want)]))
      /\ UNCHANGED <<apiVars, informerVars, outsideVars>>

\* desiredLeaves: each Service is tracked; the leaves are then planned.
Track(w) ==
  LET j == job[w]
  IN  /\ j.at = "track"
      /\ T!add(j.key, Head(j.left))
      /\ IF Len(j.left) > 1
         THEN Continue(w, [j EXCEPT !.left = Tail(j.left)])
         ELSE Continue(w, WriteStep([j EXCEPT !.left = <<>>,
                                              !.drop = NotDesired(j.drop, j.want)]))
      /\ UNCHANGED <<apiVars, informerVars, outsideVars>>

\* Deleting one leaf that is not desired; one already gone is an error.  A root
\* of the same name whose leaf it is does not hear of it.
DeleteLeaf(w) ==
  LET j == job[w]
  IN  /\ j.at = "delete"
      /\ \E l \in j.drop :
           \/ /\ leaves[l].live
              /\ DeleteLeafObject(l)
              /\ Continue(w, WriteStep([j EXCEPT !.drop = @ \ {l}]))
              /\ overlooked' = overlooked \union ({l[1]} \ {j.key})
           \/ /\ ~ leaves[l].live
              /\ Fail(w)
              /\ UNCHANGED <<leaves, events, overlooked>>
      /\ UNCHANGED <<roots, services, dns, hosts, cachedRoots, cachedLeaves, svcEvents,
                     trackerVars, answers, unlisted, boundVars>>

\* Faulty: a leaf that exists is taken to be up to date.
CreateLeafOnly(w) ==
  LET j == job[w]
      l == Head(j.want)
  IN  /\ j.at = "create"
      /\ Continue(w, WriteStep([j EXCEPT !.want = Tail(@)]))
      /\ IF leaves[l].live
         THEN UNCHANGED <<leaves, events>>
         ELSE WriteLeaf(l, [NoLeaf(leaves[l].rv) EXCEPT !.live = TRUE,
                                                        !.host = j.host,
                                                        !.rules = j.rules])
      /\ UNCHANGED <<roots, services, dns, hosts, cachedRoots, cachedLeaves, svcEvents,
                     trackerVars, outsideVars>>

\* Creating the next desired leaf; one that exists is read and updated.
CreateLeaf(w) ==
  LET j == job[w]
      l == Head(j.want)
  IN  /\ j.at = "create"
      /\ \/ /\ ~ leaves[l].live
            /\ WriteLeaf(l, [NoLeaf(leaves[l].rv) EXCEPT !.live = TRUE,
                                                         !.host = j.host,
                                                         !.rules = j.rules])
            /\ Continue(w, WriteStep([j EXCEPT !.want = Tail(@)]))
         \/ /\ leaves[l].live
            /\ job' = [job EXCEPT ![w].at = "read"]
            /\ UNCHANGED <<leaves, events, queueVars>>
      /\ UNCHANGED <<roots, services, dns, hosts, cachedRoots, cachedLeaves, svcEvents,
                     trackerVars, outsideVars>>

\* Get, for the version of the existing leaf.
ReadLeaf(w) ==
  LET l == Head(job[w].want)
  IN  /\ job[w].at = "read"
      /\ \/ /\ leaves[l].live
            /\ job' = [job EXCEPT ![w].at = "update", ![w].rv = leaves[l].rv]
            /\ UNCHANGED queueVars
         \/ /\ ~ leaves[l].live
            /\ Fail(w)
      /\ UNCHANGED <<apiVars, informerVars, trackerVars, outsideVars>>

\* Update of everything but the status.  The desired leaf carries no finalizer,
\* so updating a leaf that is being deleted completes its deletion, and the root
\* is left without it.
UpdateLeaf(w) ==
  LET j == job[w]
      l == Head(j.want)
      updated == [leaves[l] EXCEPT !.host = j.host, !.rules = j.rules, !.pinned = FALSE]
  IN  /\ j.at = "update"
      /\ \/ /\ leaves[l].live /\ leaves[l].rv = j.rv
            /\ WriteLeaf(l, IF leaves[l].deleting THEN NoLeaf(j.rv) ELSE updated)
            /\ Continue(w, WriteStep([j EXCEPT !.want = Tail(@), !.rv = 0]))
            /\ overlooked' = IF leaves[l].deleting THEN overlooked \union {l[1]} ELSE overlooked
         \/ /\ ~ (leaves[l].live /\ leaves[l].rv = j.rv)
            /\ Fail(w)
            /\ UNCHANGED <<leaves, events, overlooked>>
      /\ UNCHANGED <<roots, services, dns, hosts, cachedRoots, cachedLeaves, svcEvents,
                     trackerVars, answers, unlisted, boundVars>>

-----------------------------------------------------------------------------
(* reconcile, for a leaf. *)

\* indexer.Get of the root, after the leaves were listed.
ReadRoot(w) ==
  LET r == job[w].key[1]
  IN  /\ job[w].at = "root"
      /\ \/ /\ cachedRoots[r].live
            /\ job' = [job EXCEPT ![w].at = "dns",
                                  ![w].host = cachedRoots[r].host,
                                  ![w].rv = cachedRoots[r].rv]
            /\ UNCHANGED queueVars
         \/ /\ ~ cachedRoots[r].live
            /\ Fail(w)
      /\ UNCHANGED <<apiVars, informerVars, trackerVars, outsideVars>>

\* Faulty: a record that has the hostname and the load balancers is left as it is.
ReconcileDNSIfChanged(w) ==
  LET j == job[w]
      record == getDNSRecord(j.host, j.own)
      same == /\ dns[j.key] # NoRecord
              /\ dns[j.key].host = j.host
              /\ {target[1] : target \in dns[j.key].targets} = j.own \ Unaddressed
  IN  /\ j.at = "dns"
      /\ ~ (Published(j) /\ Invalid(record))
      /\ dns' = [dns EXCEPT ![j.key] = IF ~ Published(j) THEN NoRecord
                                       ELSE IF same THEN @ ELSE record]
      /\ job' = [job EXCEPT ![w].at = "status"]
      /\ UNCHANGED <<roots, leaves, services, hosts, informerVars, queueVars,
                     trackerVars, outsideVars>>

\* Faulty: a record that is not to be published any more stays.
PublishDNS(w) ==
  LET j == job[w]
  IN  /\ j.at = "dns"
      /\ dns' = IF Published(j)
                THEN [dns EXCEPT ![j.key] = getDNSRecord(j.host, j.own)] ELSE dns
      /\ job' = [job EXCEPT ![w].at = "status"]
      /\ UNCHANGED <<roots, leaves, services, hosts, informerVars, queueVars,
                     trackerVars, outsideVars>>

\* The DNSRecord named after the leaf: created or replaced when the leaf has a
\* load balancer and the root a hostname, deleted otherwise.
ReconcileDNS(w) ==
  LET j == job[w]
      record == getDNSRecord(j.host, j.own)
  IN  /\ j.at = "dns"
      /\ ~ (Published(j) /\ Invalid(record))
      /\ dns' = [dns EXCEPT ![j.key] = IF Published(j) THEN record ELSE NoRecord]
      /\ job' = [job EXCEPT ![w].at = "status"]
      /\ UNCHANGED <<roots, leaves, services, hosts, informerVars, queueVars,
                     trackerVars, outsideVars>>

\* The API server refuses the record, and an older one stays.
RejectRecord(w) ==
  LET j == job[w]
  IN  /\ j.at = "dns"
      /\ Published(j) /\ Invalid(getDNSRecord(j.host, j.own))
      /\ Fail(w)
      /\ UNCHANGED <<apiVars, informerVars, trackerVars, outsideVars>>

\* Faulty: a conflict is taken for a success.
UpdateStatusOnce(w) ==
  LET j == job[w]
      r == j.key[1]
  IN  /\ j.at = "status"
      /\ Succeed(w, j.key)
      /\ IF roots[r].live /\ roots[r].rv = j.rv
         THEN WriteRoot(r, [roots[r] EXCEPT !.status = j.lbs])
         ELSE UNCHANGED <<roots, events>>
      /\ UNCHANGED <<leaves, services, dns, hosts, cachedRoots, cachedLeaves, svcEvents,
                     trackerVars, outsideVars>>

\* UpdateStatus of the root with the merged load balancers.
UpdateStatus(w) ==
  LET j == job[w]
      r == j.key[1]
  IN  /\ j.at = "status"
      /\ \/ /\ roots[r].live /\ roots[r].rv = j.rv
            /\ WriteRoot(r, [roots[r] EXCEPT !.status = j.lbs])
            /\ Succeed(w, j.key)
         \/ /\ roots[r].live /\ roots[r].rv # j.rv
            /\ RequeueAndForget(w)
            /\ UNCHANGED <<roots, events>>
         \/ /\ ~ roots[r].live
            /\ Fail(w)
            /\ UNCHANGED <<roots, events>>
      /\ UNCHANGED <<leaves, services, dns, hosts, cachedRoots, cachedLeaves, svcEvents,
                     trackerVars, outsideVars>>

\* An API call, or the lookup of a load balancer's name, fails.
CallFails(w) ==
  /\ job[w].at \in APISteps
  /\ faults < MaxFaults
  /\ faults' = faults + 1
  /\ Fail(w)
  /\ UNCHANGED <<apiVars, informerVars, trackerVars, answers, overlooked, unlisted,
                 changes, restarts>>

Worker(w) == \/ Patch(w) \/ List(w) \/ GetService(w) \/ Track(w) \/ DeleteLeaf(w)
             \/ CreateLeaf(w) \/ ReadLeaf(w) \/ UpdateLeaf(w)
             \/ ReadRoot(w) \/ ReconcileDNS(w) \/ RejectRecord(w) \/ UpdateStatus(w)

Begin(w, k) == \/ ProcessDeleted(w, k)
               \/ k \in Roots /\ BeginRoot(w, k)
               \/ k \in Leaves /\ BeginLeaf(w, k)

-----------------------------------------------------------------------------
(* The informers. *)

\* The indexer takes the last state of a key and the handlers enqueue it.
Deliver ==
  LET k == Head(events)
  IN  /\ events # <<>>
      /\ events' = Tail(events)
      /\ cachedRoots' = IF k \in Roots THEN [cachedRoots EXCEPT ![k] = roots[k]] ELSE cachedRoots
      /\ cachedLeaves' = IF k \in Leaves THEN [cachedLeaves EXCEPT ![k] = leaves[k]] ELSE cachedLeaves
      /\ Enqueue({k})
      /\ UNCHANGED <<apiVars, svcEvents, trackerVars, job, outsideVars>>

\* ingressesFromService begins, on an update or a deletion; creations have no
\* handler.  It owes a key to the roots of the slice, which EnqueueNext brings one
\* by one; a root that does not track the Service yet, or again, never hears of it.
DeliverService(s) ==
  /\ s \in svcEvents
  /\ svcEvents' = svcEvents \ {s}
  /\ T!getIngress(s)
  /\ overlooked' = overlooked \union trackedServices[s]
                               \union {r \in Roots : s \in Range(cachedRoots[r].rules)}
  /\ UNCHANGED <<apiVars, cachedRoots, cachedLeaves, events, queueVars, job,
                 answers, unlisted, boundVars>>

\* One turn of its loop, without the mutex: after a deleteIngress shifted the
\* array, it may find another root in the slot, and miss the one it owes a key.
EnqueueNext ==
  \E j \in loop.slots, r \in Roots :
     /\ T!enqueueNext(j, r)
     /\ Enqueue({r})
     /\ overlooked' = overlooked \ {r}
     /\ UNCHANGED <<apiVars, informerVars, job, answers, unlisted, boundVars>>

\* The resync of the Ingress informer, every ten hours.
Resync(k) ==
  /\ "resync" \in UserActions
  /\ InIndexer(k)
  /\ \A i \in 1 .. Len(events) : events[i] # k
  /\ Enqueue({k})
  /\ UNCHANGED <<apiVars, informerVars, trackerVars, job, outsideVars>>

\* The controller dies between two calls and is started again: everything in
\* memory is lost and the informers list what the API server holds.
Restart ==
  LET alive(k) == IF k \in Roots THEN roots[k].live ELSE leaves[k].live
  IN  /\ restarts < MaxRestarts
      /\ restarts' = restarts + 1
      /\ cachedRoots' = roots
      /\ cachedLeaves' = leaves
      /\ events' = <<>>
      /\ svcEvents' = {}
      /\ todo' = {k \in Keys : alive(k)}
      /\ failures' = [k \in Keys |-> IF alive(k) THEN Bump(0) ELSE 0]
      /\ gaveUp' = {}
      /\ trackedServices' = [s \in Services |-> {}]
      /\ ingressToServices' = [r \in Roots |-> {}]
      /\ loop' = T!NoLoop
      /\ job' = [w \in Workers |-> NoJob]
      /\ overlooked' = {}
      /\ unlisted' = {}
      /\ UNCHANGED <<apiVars, answers, changes, faults>>

-----------------------------------------------------------------------------
(* Users, the syncers, and whoever else writes these objects. *)

Outside(action) ==
  /\ action \in UserActions
  /\ changes < MaxChanges
  /\ changes' = changes + 1
  /\ UNCHANGED <<dns, hosts, cachedRoots, cachedLeaves, queueVars, trackerVars, job,
                 overlooked, unlisted, faults, restarts>>

CreateRoot(r, rules) ==
  /\ Outside("createRoot")
  /\ ~ roots[r].live
  /\ WriteRoot(r, [NoRoot(roots[r].rv) EXCEPT !.live = TRUE, !.rules = rules])
  /\ UNCHANGED <<leaves, services, svcEvents, answers>>

UpdateRoot(r, rules) ==
  /\ Outside("updateRoot")
  /\ roots[r].live
  /\ roots[r].rules # rules
  /\ WriteRoot(r, [roots[r] EXCEPT !.rules = rules])
  /\ UNCHANGED <<leaves, services, svcEvents, answers>>

DeleteRoot(r) ==
  /\ Outside("deleteRoot")
  /\ roots[r].live
  /\ WriteRoot(r, NoRoot(roots[r].rv))
  /\ UNCHANGED <<leaves, services, svcEvents, answers>>

\* A Service is created, or assigned to another cluster, or to none.
PlaceService(s, c) ==
  /\ Outside("placeService")
  /\ services[s] # c
  /\ services' = [services EXCEPT ![s] = c]
  /\ svcEvents' = IF services[s] = Missing THEN svcEvents ELSE svcEvents \union {s}
  /\ UNCHANGED <<roots, leaves, events, answers>>

RemoveService(s) ==
  /\ Outside("removeService")
  /\ services[s] # Missing
  /\ services' = [services EXCEPT ![s] = Missing]
  /\ svcEvents' = svcEvents \union {s}
  /\ UNCHANGED <<roots, leaves, events, answers>>

\* A syncer copies the status of the leaf from its physical cluster.
ReportStatus(l, lbs) ==
  /\ Outside("reportStatus")
  /\ leaves[l].live
  /\ leaves[l].lb # lbs
  /\ WriteLeaf(l, [leaves[l] EXCEPT !.lb = lbs])
  /\ UNCHANGED <<roots, services, svcEvents, answers>>

\* Someone sets a finalizer on a leaf, or removes it.
Pin(l) ==
  /\ Outside("pin")
  /\ leaves[l].live /\ ~ leaves[l].deleting /\ ~ leaves[l].pinned
  /\ WriteLeaf(l, [leaves[l] EXCEPT !.pinned = TRUE])
  /\ UNCHANGED <<roots, services, svcEvents, answers>>

Unpin(l) ==
  /\ Outside("unpin")
  /\ leaves[l].pinned
  /\ WriteLeaf(l, IF leaves[l].deleting THEN NoLeaf(leaves[l].rv)
                                        ELSE [leaves[l] EXCEPT !.pinned = FALSE])
  /\ UNCHANGED <<roots, services, svcEvents, answers>>

\* The name of a load balancer resolves to other addresses, which nobody tells
\* the controller.
ChangeAddress(lb) ==
  /\ Outside("changeAddress")
  /\ answers' = [answers EXCEPT ![lb] = ~ @]
  /\ UNCHANGED <<roots, leaves, services, events, svcEvents>>

Environment ==
  \/ \E r \in Roots : \/ DeleteRoot(r)
                      \/ \E rules \in RulesOf[r] : CreateRoot(r, rules) \/ UpdateRoot(r, rules)
  \/ \E s \in Services : \/ RemoveService(s)
                         \/ \E c \in Clusters \union {NoCluster} : PlaceService(s, c)
  \/ \E l \in Leaves : \/ Pin(l) \/ Unpin(l)
                       \/ \E lbs \in SUBSET LoadBalancers : ReportStatus(l, lbs)
  \/ \E lb \in LoadBalancers : ChangeAddress(lb)

-----------------------------------------------------------------------------

Next == \/ \E w \in Workers : Worker(w) \/ CallFails(w) \/ \E k \in Keys : Begin(w, k)
        \/ Deliver
        \/ \E s \in Services : DeliverService(s)
        \/ EnqueueNext
        \/ \E k \in Keys : Resync(k)
        \/ Restart
        \/ Environment

Spec == Init /\ [][Next]_vars

\* Goroutines are scheduled, calls return, the informers deliver, and the work
\* queue serves every key (KeyQueue).  Nobody outside has to do anything.
Fairness == /\ \A w \in Workers : WF_vars(Worker(w))
            /\ \A k \in Keys : SF_vars(\E w \in Workers : Begin(w, k))
            /\ WF_vars(Deliver)
            /\ WF_vars(EnqueueNext \/ \E s \in Services : DeliverService(s))

FairSpec == Spec /\ Fairness

\* The resync timer goes off again and again.
ResyncSpec == FairSpec /\ \A k \in Keys : WF_vars(Resync(k))

-----------------------------------------------------------------------------
(* Correctness.  A behaviour is quiet when no event is pending, no handler is  *)
(* running, no key is owed a reconciliation and no worker is busy: what holds  *)
(* then holds until someone outside acts, or until the resync.                 *)

Quiet == /\ events = <<>>
         /\ svcEvents = {}
         /\ loop = T!NoLoop
         /\ todo = {}
         /\ Busy = {}

Settled(k) == Quiet /\ k \notin gaveUp

DesiredLeaves(r) == {<<r, services[s]>> : s \in {x \in Range(roots[r].rules) : services[x] \in Clusters}}

Resolvable(r) == \A s \in Range(roots[r].rules) : services[s] # Missing

\* Each desired leaf of a root exists, is there to stay, and has the rules and the
\* hostname of the root.
HasDesiredLeaves(r) ==
  \A l \in DesiredLeaves(r) : /\ leaves[l].live
                              /\ ~ leaves[l].deleting
                              /\ leaves[l].rules = roots[r].rules
                              /\ leaves[l].host = roots[r].host

\* A leaf that is not desired remains only while a finalizer pins it.
HasNoLeftovers(r) ==
  \A c \in Clusters : <<r, c>> \notin DesiredLeaves(r) /\ leaves[<<r, c>>].live
                      => leaves[<<r, c>>].deleting

\* Root and leaf exist, the leaf is there to stay, and neither was dropped.
AtRest(l) == /\ roots[l[1]].live
             /\ leaves[l].live
             /\ ~ leaves[l].deleting
             /\ Settled(l[1])
             /\ Settled(l)

\* The leaf is the one there can be of its root, and no other root has the root's name.
OnlyLeaf(l) == \A o \in Leaves : NameOf[o[1]] = NameOf[l[1]] => o = l

\* The load balancers of a root are those of all its leaves.
StatusMatches(r) == roots[r].status = UNION {leaves[<<r, c>>].lb : c \in Clusters}

\* reconcile, ingress.go:76-98: once everything is quiet, the Services of a root that
\* was neither dropped nor overlooked exist, and it has every leaf it should have,
\* with its last rules and hostname, whatever order the events, the stale reads, the
\* failures and the restarts came in.
LeavesConverged ==
  \A r \in Roots : roots[r].live /\ Settled(r) /\ r \notin overlooked
                   => Resolvable(r) /\ HasDesiredLeaves(r)

\* reconcile, ingress.go:67-75: once everything is quiet, a leaf that its root does not
\* desire any more is gone or being deleted, whatever moved, failed or restarted on the
\* way, if the root was neither dropped nor overlooked and its last list had the leaf.
NoLeftovers ==
  \A l \in Leaves :
     /\ leaves[l].live /\ l \notin unlisted
     /\ roots[l[1]].live /\ Settled(l[1]) /\ l[1] \notin overlooked
     => l \in DesiredLeaves(l[1]) \/ leaves[l].deleting

\* reconcile, ingress.go:137-170: once everything is quiet, a leaf that was not
\* dropped has a DNSRecord exactly if a load balancer is reported for it, and the
\* record maps the hostname the root has now to addresses, past or present, of
\* each load balancer it has now and of no other.
DnsConverged ==
  \A l \in Leaves :
     AtRest(l)
     => IF leaves[l].lb = {}
        THEN dns[l] = NoRecord
        ELSE /\ dns[l] # NoRecord
             /\ dns[l].host = roots[l[1]].host
             /\ {target[1] : target \in dns[l].targets} = leaves[l].lb \ Unaddressed

\* desiredLeaves, ingress.go:277: "Trigger reconciliation of the root ingress
\* when this service changes": once everything is quiet, each Service of a root
\* that was not dropped tracks it, also after the root lost and regained the
\* Service and after a restart lost the tracker.
RootsTracked ==
  \A r \in Roots : roots[r].live /\ Settled(r)
                   => \A s \in Range(roots[r].rules) : r \in trackedServices[s]

\* reconcile, ingress.go:172-205: once everything is quiet, the status of a root with
\* one leaf is the leaf's, whatever became of the status in between: conflicts, roots
\* and leaves deleted and created again.  (With several leaves two workers can break it:
\* the leaves are listed before the root is read.)
StatusConverged ==
  \A l \in Leaves : OnlyLeaf(l) /\ AtRest(l) => roots[l[1]].status = leaves[l].lb

\* handleErr and the conflict path: retries end, so that without changes from
\* outside the controller comes to rest.
Settles == <>[]Quiet

\* The resync repairs what an event missed: whatever happened, the leaves of a
\* root whose Services exist, and its status when it has leaves, end up right
\* and stay right.
SelfHealing ==
  \A r \in Roots :
     <>[](roots[r].live /\ Resolvable(r)
          => /\ HasDesiredLeaves(r) /\ HasNoLeftovers(r)
             /\ (DesiredLeaves(r) # {} => StatusMatches(r)))

\* getDNSRecord, ingress.go:213-225: no event says that a load balancer's name
\* resolves to other addresses, but the resync resolves it again: each record
\* ends up with the addresses of now, whatever was looked up before.
AddressesHeal ==
  \A l \in Leaves :
     <>[](leaves[l].live /\ ~ leaves[l].deleting /\ leaves[l].lb # {} /\ roots[l[1]].live
          => dns[l] = getDNSRecord(roots[l[1]].host, leaves[l].lb))

\* ingress.go:67, "Delete the leaves that are not desired anymore": a worker only
\* deletes leaves of the root it reconciles.
OnlyOwnLeavesDeleted ==
  [][\A w \in Workers : job[w].at = "delete"
        => \A l \in Leaves : leaves[l].live /\ ~ leaves'[l].live /\ job'[w] # job[w]
                             => l[1] = job[w].key]_vars

\* ingress.go:69, "The clean-up, i.e., removal of the DNS records, will be done
\* in the next reconciliation cycle": once everything is quiet, a leaf that does
\* not exist has no DNSRecord.
NoOrphanRecords == Quiet => \A l \in Leaves : ~ leaves[l].live => dns[l] = NoRecord

=============================================================================
