--------------------------- MODULE EnvoySnapshots ---------------------------
(***************************************************************************)
(* The ingress controller with the Envoy control plane on (-envoyxds): two *)
(* workers reconcile leaves, put the root they read into the Envoy cache,  *)
(* take a snapshot of the cache and publish it.                            *)
(*                                                                         *)
(* What IngressController models in detail is coarse here.  Users' changes *)
(* reach the indexer and the queue at once, each root has one leaf, the    *)
(* reconciliation of a root is one step, and the DNSRecord is left out.    *)
(* What is fine is the way of a leaf's reconciliation through the Envoy    *)
(* cache: its mutex, its Delete and Add, and the snapshot in the worker's  *)
(* hands.  A snapshot is kept as the cached Ingresses it was made of;      *)
(* ToEnvoySnapshot (Translator) is what Envoy receives.                    *)
(***************************************************************************)
EXTENDS Naturals, Translator

CONSTANTS
  Roots,            \* root Ingresses
  Workers,          \* goroutines: main starts numThreads = 2
  LoadBalancers,    \* status.loadBalancer.ingress entries of a leaf
  RulesOf,          \* for each root, the rules a user may give it
  InitialRules,     \* the rules of each root at the start, or Gone
  MaxChanges, MaxFaults,               \* bounds
  Cost,             \* what a change of each root takes of MaxChanges
  Gone, NoEntry, NoSnapshot, Nobody, NoKey, NoStatus

LeafOf(r) == <<"leaf", r>>
LeafKeys == {LeafOf(r) : r \in Roots}
Keys == Roots \union LeafKeys

VARIABLES
  roots, leaves,    \* the Ingresses, as the indexer holds them
  status,           \* the hostname in the status of each root
  revised,          \* roots written since their leaf's worker last read them
  owed, busy,       \* the work queue
  gaveUp,           \* history: keys dropped and not reconciled since
  mu,               \* who holds the mutex of the Envoy cache
  ingresses,        \* the Envoy cache
  published,        \* the snapshot set last: what Envoy goes on using
  snap,             \* the snapshot each worker has taken
  job,              \* the reconciliation each worker is in
  up,               \* whether the process runs
  changes, faults

queueVars == <<owed, busy, gaveUp>>
envoyVars == <<mu, ingresses, published, snap>>
outsideVars == <<roots, leaves>>
counters == <<changes, faults>>
vars == <<outsideVars, status, revised, queueVars, envoyVars, job, up, counters>>

Q == INSTANCE KeyQueue

Rules == UNION {RulesOf[r] : r \in Roots}

\* A root is its rules and its generated hostname, which tells it from a later
\* root of its name; its leaf has both, and load balancers; so has what the Envoy
\* cache holds of the root, whose status is then the merged one.
Root == [rules : Rules, host : 0 .. MaxChanges]
Leaf == [rules : Rules, host : 0 .. MaxChanges, lbs : SUBSET LoadBalancers]
Entry == Leaf

\* The contents of the cache, and of a snapshot.
Contents == [Roots -> Entry \union {NoEntry}]

ASSUME ConstantsAssumption ==
  /\ Roots \intersect LeafKeys = {} /\ NoKey \notin Keys
  /\ InitialRules \in [Roots -> Rules \union {Gone}]
  /\ Nobody \notin Workers
  /\ NoEntry \notin Entry /\ NoSnapshot \notin Contents
  /\ MaxChanges \in Nat /\ MaxFaults \in Nat
  /\ Cost \in [Roots -> Nat \ {0}]

RootPart(leaf) == [rules |-> leaf.rules, host |-> leaf.host]
WithStatus(root, lbs) == [rules |-> root.rules, host |-> root.host, lbs |-> lbs]

Steps == {"idle", "update", "add", "take", "publish", "status"}
Job == [at : Steps, key : Keys \union {NoKey}, entry : Entry \union {NoEntry}]
NoJob == [at |-> "idle", key |-> NoKey, entry |-> NoEntry]

\* The root a key belongs to.
RootOf(k) == IF k \in Roots THEN k ELSE k[2]

TypeOK ==
  /\ roots \in [Roots -> Root \union {Gone}]
  /\ leaves \in [Roots -> Leaf \union {Gone}]
  /\ Q!TypeOK
  /\ gaveUp \subseteq Keys
  /\ revised \subseteq Roots
  /\ mu \in Workers \union {Nobody}
  /\ ingresses \in Contents
  /\ published \in Contents
  /\ snap \in [Workers -> Contents \union {NoSnapshot}]
  /\ job \in [Workers -> Job]
  /\ up \in BOOLEAN
  /\ changes \in 0 .. MaxChanges
  /\ faults \in 0 .. MaxFaults

Exists(k) == IF k \in Roots THEN roots[k] # Gone ELSE leaves[k[2]] # Gone

\* The controller is started where roots exist already, and their leaves, on which
\* the syncer has reported.
Init ==
  /\ roots = [r \in Roots |-> IF InitialRules[r] = Gone THEN Gone
                              ELSE [rules |-> InitialRules[r], host |-> 0]]
  /\ leaves = [r \in Roots |-> IF roots[r] = Gone THEN Gone
                               ELSE WithStatus(roots[r], LoadBalancers)]
  /\ status = [r \in Roots |-> NoStatus]
  /\ revised = {}
  /\ owed = {k \in Keys : Exists(k)}
  /\ busy = {}
  /\ gaveUp = {}
  /\ mu = Nobody
  /\ ingresses = [r \in Roots |-> NoEntry]
  /\ published = ingresses
  /\ snap = [w \in Workers |-> NoSnapshot]
  /\ job = [w \in Workers |-> NoJob]
  /\ up = TRUE
  /\ changes = 0 /\ faults = 0

-----------------------------------------------------------------------------
(* The work queue and handleErr. *)

\* process returned nil.
Succeed(w) == /\ Q!Finish(job[w].key)
              /\ gaveUp' = gaveUp \ {job[w].key}
              /\ job' = [job EXCEPT ![w] = NoJob]

\* Faulty: the key is not added again.
FailForgotten(w) == /\ Q!Finish(job[w].key)
                    /\ job' = [job EXCEPT ![w] = NoJob]
                    /\ UNCHANGED gaveUp

\* process returned an error: the key is added again, or dropped.  (The limiter
\* also counts the handlers' additions, so any failure may be the last.)
Fail(w) == /\ busy' = busy \ {job[w].key}
           /\ \/ owed' = owed \union {job[w].key} /\ UNCHANGED gaveUp
              \/ gaveUp' = gaveUp \union {job[w].key} /\ UNCHANGED owed
           /\ job' = [job EXCEPT ![w] = NoJob]

\* reconcile adds its key and returns nil.
RequeueAndForget(w) == /\ owed' = owed \union {job[w].key}
                       /\ busy' = busy \ {job[w].key}
                       /\ gaveUp' = gaveUp \ {job[w].key}
                       /\ job' = [job EXCEPT ![w] = NoJob]

Goto(w, step) == job' = [job EXCEPT ![w].at = step] /\ UNCHANGED queueVars

\* A worker takes a key that is in the indexer, or one that is not.
Take(w, k) == job[w].at = "idle" /\ up /\ Q!Start(k)

-----------------------------------------------------------------------------
(* The process dies, and starts again. *)

Die == /\ up' = FALSE
       /\ owed' = {} /\ busy' = {} /\ gaveUp' = {}
       /\ mu' = Nobody
       /\ ingresses' = [r \in Roots |-> NoEntry]
       /\ snap' = [w \in Workers |-> NoSnapshot]
       /\ job' = [w \in Workers |-> NoJob]
       /\ UNCHANGED <<outsideVars, status, revised, published>>

Kill == /\ up
        /\ faults < MaxFaults
        /\ faults' = faults + 1
        /\ Die
        /\ UNCHANGED changes

\* The informer lists every Ingress, and its handler enqueues each.
Restart == /\ ~ up
           /\ up' = TRUE
           /\ owed' = {k \in Keys : Exists(k)}
           /\ UNCHANGED <<outsideVars, status, revised, busy, gaveUp, envoyVars, job, counters>>

-----------------------------------------------------------------------------
(* reconcile, for a root: its Services are in one cluster, or it has none. *)

\* getServices looks into the http part of every rule.
GetServicesPanics(rules) == \E i \in DOMAIN rules : rules[i].paths = NoHTTP

ReconcileRoot(w, r) ==
  LET leaf == IF roots[r].rules = <<>> THEN Gone
              ELSE WithStatus(roots[r], IF leaves[r] = Gone THEN {} ELSE leaves[r].lbs)
  IN  /\ job[w].at = "idle" /\ up
      /\ r \in owed \ busy
      /\ roots[r] # Gone
      /\ ~ GetServicesPanics(roots[r].rules)
      /\ leaves' = [leaves EXCEPT ![r] = leaf]
      /\ \E rest \in {owed, owed \ {r}} :
            owed' = IF leaf = leaves[r] THEN rest ELSE rest \union {LeafOf(r)}
      /\ gaveUp' = gaveUp \ {r}
      /\ UNCHANGED <<roots, status, revised, busy, envoyVars, job, up, counters>>

-----------------------------------------------------------------------------
(* The Envoy cache. *)

\* DeleteIngress, in process: the key is not in the indexer.  That of a leaf is
\* not in the cache either.
ProcessDeleted(w, k) ==
  /\ Take(w, k)
  /\ ~ Exists(k)
  /\ mu = Nobody
  /\ ingresses' = IF k \in Roots THEN [ingresses EXCEPT ![k] = NoEntry] ELSE ingresses
  /\ job' = [job EXCEPT ![w] = [at |-> "take", key |-> k, entry |-> NoEntry]]
  /\ UNCHANGED <<outsideVars, status, revised, gaveUp, mu, published, snap, up, counters>>

\* reconcile, for a leaf: its root must exist, whose status becomes the load
\* balancers of the leaves.
BeginLeaf(w, r) ==
  /\ Take(w, LeafOf(r))
  /\ leaves[r] # Gone
  /\ roots[r] # Gone
  /\ job' = [job EXCEPT ![w] = [at |-> "update", key |-> LeafOf(r),
                                entry |-> WithStatus(roots[r], leaves[r].lbs)]]
  /\ revised' = revised \ {r}
  /\ UNCHANGED <<outsideVars, status, gaveUp, envoyVars, up, counters>>

RootNotFound(w, r) ==
  /\ job[w].at = "idle" /\ up
  /\ LeafOf(r) \in owed \ busy
  /\ leaves[r] # Gone
  /\ roots[r] = Gone
  /\ \/ UNCHANGED <<owed, gaveUp>>
     \/ /\ owed' \in {owed, owed \ {LeafOf(r)}}
        /\ gaveUp' = gaveUp \union {LeafOf(r)}
  /\ UNCHANGED <<outsideVars, status, revised, busy, envoyVars, job, up, counters>>

\* Faulty: no Delete.
LockWithoutDelete(w) ==
  /\ job[w].at = "update"
  /\ mu = Nobody
  /\ mu' = w
  /\ Goto(w, "add")
  /\ UNCHANGED <<outsideVars, status, revised, ingresses, published, snap, up, counters>>

\* UpdateIngress: the mutex, and Delete.
UpdateIngress(w) ==
  /\ job[w].at = "update"
  /\ mu = Nobody
  /\ mu' = w
  /\ ingresses' = [ingresses EXCEPT ![RootOf(job[w].key)] = NoEntry]
  /\ Goto(w, "add")
  /\ UNCHANGED <<outsideVars, status, revised, published, snap, up, counters>>

\* Faulty: the mutex is not unlocked.
AddAndKeep(w) ==
  /\ job[w].at = "add"
  /\ ingresses' = [ingresses EXCEPT ![RootOf(job[w].key)] = job[w].entry]
  /\ Goto(w, "take")
  /\ UNCHANGED <<outsideVars, status, revised, mu, published, snap, up, counters>>

\* Faulty: no snapshot is taken.
AddAndPublish(w) ==
  /\ job[w].at = "add"
  /\ ingresses' = [ingresses EXCEPT ![RootOf(job[w].key)] = job[w].entry]
  /\ mu' = Nobody
  /\ Goto(w, "publish")
  /\ UNCHANGED <<outsideVars, status, revised, published, snap, up, counters>>

\* Add, which only adds what is not there, and the deferred Unlock.
Add(w) ==
  LET r == RootOf(job[w].key)
  IN  /\ job[w].at = "add"
      /\ ingresses' = IF ingresses[r] = NoEntry
                      THEN [ingresses EXCEPT ![r] = job[w].entry] ELSE ingresses
      /\ mu' = Nobody
      /\ Goto(w, "take")
      /\ UNCHANGED <<outsideVars, status, revised, published, snap, up, counters>>

CachedKeys(entries) == {r \in Roots : entries[r] # NoEntry}
TranslationOf(entries) == ToEnvoySnapshot([r \in CachedKeys(entries) |-> entries[r]])

\* Faulty: the mutex is not locked.
TakeUnlocked(w) ==
  /\ job[w].at = "take"
  /\ \A r \in CachedKeys(ingresses) : ~ TranslationPanics(ingresses[r].rules)
  /\ snap' = [snap EXCEPT ![w] = ingresses]
  /\ Goto(w, "publish")
  /\ UNCHANGED <<outsideVars, status, revised, mu, ingresses, published, up, counters>>

\* ToEnvoySnapshot, under the mutex.
TakeSnapshot(w) ==
  /\ job[w].at = "take"
  /\ mu = Nobody
  /\ \A r \in CachedKeys(ingresses) : ~ TranslationPanics(ingresses[r].rules)
  /\ snap' = [snap EXCEPT ![w] = ingresses]
  /\ Goto(w, "publish")
  /\ UNCHANGED <<outsideVars, status, revised, mu, ingresses, published, up, counters>>

\* SetSnapshot; after a deletion process returns, after an update the root's
\* status remains.
SetSnapshot(w) ==
  /\ job[w].at = "publish"
  /\ published' = snap[w]
  /\ snap' = [snap EXCEPT ![w] = NoSnapshot]
  /\ IF job[w].entry = NoEntry THEN Succeed(w) ELSE Goto(w, "status")
  /\ UNCHANGED <<outsideVars, status, revised, mu, ingresses, up, counters>>

\* The generated hostname replaces the root's status, unless the root was written
\* since it was read (its resourceVersion is another).
UpdateStatus(w) ==
  LET r == RootOf(job[w].key)
      rules == job[w].entry.rules
  IN  /\ job[w].at = "status"
      /\ ~ StatusHostPanics(rules)
      /\ \/ /\ roots[r] # Gone /\ r \notin revised
            /\ status' = [status EXCEPT ![r] = generateStatusHost(r, rules)]
            /\ Succeed(w)
         \/ /\ roots[r] # Gone /\ r \in revised
            /\ RequeueAndForget(w)
            /\ UNCHANGED status
         \/ /\ roots[r] = Gone
            /\ Fail(w)
            /\ UNCHANGED status
      /\ UNCHANGED <<outsideVars, revised, envoyVars, up, counters>>

\* The resolver fails before the cache is updated, or UpdateStatus after.
CallFails(w) ==
  /\ job[w].at \in {"update", "status"}
  /\ faults < MaxFaults
  /\ faults' = faults + 1
  /\ Fail(w)
  /\ UNCHANGED <<outsideVars, status, revised, envoyVars, up, changes>>

\* The code panics on Ingresses it does not expect: on a rule without http in
\* getServices and in the translator, on no rules in generateStatusHost.
PanicOnRoot(w, r) == /\ job[w].at = "idle" /\ up
                     /\ r \in owed \ busy
                     /\ roots[r] # Gone
                     /\ GetServicesPanics(roots[r].rules)
                     /\ Die
                     /\ UNCHANGED counters

Panic(w) ==
  /\ \/ /\ job[w].at = "take"
        /\ mu = Nobody
        /\ \E r \in CachedKeys(ingresses) : TranslationPanics(ingresses[r].rules)
     \/ /\ job[w].at = "status"
        /\ StatusHostPanics(job[w].entry.rules)
  /\ Die
  /\ UNCHANGED counters

-----------------------------------------------------------------------------
(* The outside. *)

Outside(r) == /\ changes + Cost[r] <= MaxChanges
              /\ changes' = changes + Cost[r]
              /\ UNCHANGED <<busy, gaveUp, envoyVars, job, up>>

\* The event of a change reaches the handlers of a process that runs.
Enqueue(k) == owed' = IF up THEN owed \union {k} ELSE owed

CreateRoot(r, rules) == /\ Outside(r)
                        /\ roots[r] = Gone
                        /\ roots' = [roots EXCEPT ![r] = [rules |-> rules, host |-> changes']]
                        /\ status' = [status EXCEPT ![r] = NoStatus]
                        /\ revised' = revised \union {r}
                        /\ Enqueue(r)
                        /\ UNCHANGED <<leaves, faults>>

UpdateRoot(r, rules) == /\ Outside(r)
                        /\ roots[r] # Gone
                        /\ roots[r].rules # rules
                        /\ roots' = [roots EXCEPT ![r].rules = rules]
                        /\ revised' = revised \union {r}
                        /\ Enqueue(r)
                        /\ UNCHANGED <<leaves, status, faults>>

\* A deletion that a broken watch missed arrives as a tombstone, which enqueue
\* finds no key for.
DeleteRoot(r) == /\ Outside(r)
                 /\ roots[r] # Gone
                 /\ roots' = [roots EXCEPT ![r] = Gone]
                 /\ \/ Enqueue(r) /\ UNCHANGED faults
                    \/ /\ faults < MaxFaults
                       /\ faults' = faults + 1
                       /\ UNCHANGED owed
                 /\ UNCHANGED <<leaves, status, revised>>

ReportStatus(r, lbs) == /\ Outside(r)
                        /\ leaves[r] # Gone
                        /\ leaves[r].lbs # lbs
                        /\ leaves' = [leaves EXCEPT ![r].lbs = lbs]
                        /\ Enqueue(LeafOf(r))
                        /\ UNCHANGED <<roots, status, revised, faults>>

\* The informer's resync hands every Ingress to the handler again.
Resync == /\ up
          /\ owed' = owed \union {k \in Keys : Exists(k)}
          /\ UNCHANGED <<outsideVars, status, revised, busy, gaveUp, envoyVars, job, up, counters>>

-----------------------------------------------------------------------------

Worker(w) == \/ UpdateIngress(w) \/ Add(w)
             \/ TakeSnapshot(w) \/ SetSnapshot(w) \/ UpdateStatus(w) \/ Panic(w)

Begin(w, k) == \/ ProcessDeleted(w, k)
               \/ k \in Roots /\ (ReconcileRoot(w, k) \/ PanicOnRoot(w, k))
               \/ k \in LeafKeys /\ (BeginLeaf(w, k[2]) \/ RootNotFound(w, k[2]))

Next == \/ \E w \in Workers : \/ Worker(w) \/ CallFails(w)
                              \/ \E k \in Keys : Begin(w, k)
        \/ Resync \/ Kill \/ Restart
        \/ \E r \in Roots : \/ DeleteRoot(r)
                            \/ \E rules \in RulesOf[r] : CreateRoot(r, rules) \/ UpdateRoot(r, rules)
                            \/ \E lbs \in SUBSET LoadBalancers : ReportStatus(r, lbs)

Spec == Init /\ [][Next]_vars

\* Goroutines are scheduled, the mutex goes to whoever waits for it long enough
\* (sync.Mutex's starvation mode), the queue serves every key, and the resync
\* timer goes off again and again.
Fairness == /\ \A w \in Workers : SF_vars(Worker(w))
            /\ \A k \in Keys : SF_vars(\E w \in Workers : Begin(w, k))
            /\ WF_vars(Resync)

FairSpec == Spec /\ Fairness

-----------------------------------------------------------------------------
(* Correctness. *)

\* Each operation of the cache takes effect at once, although UpdateIngress is a
\* Delete and an Add: no snapshot misses the Ingress another worker is updating.
CacheEntries ==
  [r \in Roots |-> IF \E w \in Workers : job[w].at = "add" /\ RootOf(job[w].key) = r
                   THEN job[mu].entry ELSE ingresses[r]]

Store == INSTANCE EnvoyStore WITH Entries <- Entry, entries <- CacheEntries, taken <- snap

ImplementsEnvoyStore == Store!Spec

Quiet == up /\ owed = {} /\ busy = {}

\* Rules changed and changed back before the root was reconciled: its leaf has
\* them still, so reconciling the root is no event for the leaf, whose worker may
\* have read the rules in between.
SetBack(r) == r \in revised /\ RootPart(leaves[r]) = roots[r]

\* A root that Envoy should serve, whose keys were not dropped and whose leaf's
\* worker had a reason to look at it since its last change.
Served(r) == /\ roots[r] # Gone /\ leaves[r] # Gone
             /\ {r, LeafOf(r)} \intersect gaveUp = {}
             /\ ~ SetBack(r)

\* ingress.go:172-181: at rest the Envoy cache holds every root that has a leaf,
\* with its last rules and the load balancers last reported, whatever changed
\* while workers were on their way through the cache, failed or died.
CacheCurrent ==
  Quiet => \A r \in Roots : Served(r) => ingresses[r] = WithStatus(roots[r], leaves[r].lbs)

\* ingress.go:187-205: at rest the status of such a root is the hostname generated
\* from its last rules, whichever updates failed or met a conflict.
StatusHostCurrent ==
  Quiet => \A r \in Roots : Served(r) => status[r] = generateStatusHost(r, roots[r].rules)

\* The load balancers of the Ingress cached as e.
Endpoints(e) == {Endpoint(lb) : lb \in e.lbs}

\* A rule that no rule up to itself keeps out of the virtual host.
Routed(rules, i) == \A j \in 1 .. i : ~ EndsLoop(rules[j])

Reaches(r, i) ==
  \A j \in DOMAIN published[r].rules[i].paths :
     Endpoints(published[r]) \subseteq Backends(TranslationOf(published), published[r].rules[i].host,
                                               published[r].rules[i].paths[j])

\* translateIngress: of a published Ingress, the host and every path of a rule
\* lead to its load balancers, and to all of them, if no rule up to that one is
\* without host or paths.
RequestsRouted ==
  \A r \in CachedKeys(published) : \A i \in DOMAIN published[r].rules :
     Routed(published[r].rules, i) => Reaches(r, i)

\* The published Ingresses that have a host.
OfHost(host) ==
  {r \in CachedKeys(published) : \E i \in DOMAIN published[r].rules : published[r].rules[i].host = host}

\* The same way in the other direction: a request whose host and path are in published
\* rules gets to a load balancer of an Ingress that has the host, and to no other.
OnlyOwnHosts ==
  \A r, s \in CachedKeys(published) :
     \A i \in DOMAIN published[r].rules : \A m \in DOMAIN published[s].rules :
        published[s].rules[m].paths # NoHTTP
        => \A j \in DOMAIN published[s].rules[m].paths :
              Backends(TranslationOf(published), published[r].rules[i].host, published[s].rules[m].paths[j])
                \subseteq UNION {Endpoints(published[t]) : t \in OfHost(published[r].rules[i].host)}

\* As long as the process does not go on dying, the resync repairs what workers
\* that published in the wrong order left: the published snapshot ends up with
\* every root that has a leaf, as it is.
EnvoyHeals ==
  <>[]up => <>[](\A r \in Roots :
                   roots[r] # Gone /\ leaves[r] # Gone
                   => published[r] = WithStatus(roots[r], leaves[r].lbs))

\* controller.go:180, "delete the Ingress from the cache and set the new snaphost":
\* at rest Envoy does not have a root that was deleted, unless its key was dropped.
DeletedNotServed ==
  Quiet => \A r \in Roots : roots[r] = Gone /\ r \notin gaveUp => published[r] = NoEntry

\* translator.go:58, "If the host is empty we just ignore the rule": the other
\* rules of an Ingress, if they have paths, keep their routes.
HostlessRuleIgnored ==
  \A r \in CachedKeys(published) : \A i \in DOMAIN published[r].rules :
     published[r].rules[i].host # NoHost => Reaches(r, i)

=============================================================================
