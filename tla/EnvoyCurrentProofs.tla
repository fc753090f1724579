------------------------- MODULE EnvoyCurrentProofs -------------------------
(***************************************************************************)
(* Proofs that the Envoy cache and the status of every root are current    *)
(* whenever EnvoySnapshots is at rest, for all roots, rules, load          *)
(* balancers, workers and bounds.  The argument: whatever is not current   *)
(* is owed to a worker, in a worker's hands, or was dropped, and what a    *)
(* worker has in its hands is out of date only if its key is owed again.   *)
(***************************************************************************)
EXTENDS EnvoySnapshotsProofs

-----------------------------------------------------------------------------
(* The inductive invariant. *)

\* The queue gives a key to one worker at a time, and only a process that runs
\* has workers.
KeysExclusive ==
  \A w \in Workers :
     job[w].at # "idle"
     => /\ up /\ job[w].key \in busy
        /\ \A v \in Workers : v # w /\ job[v].at # "idle" => job[v].key # job[w].key

\* Only the worker of a leaf has a root in its hands.
LeafJobs ==
  \A w \in Workers :
     /\ job[w].entry # NoEntry => job[w].key \in LeafKeys
     /\ job[w].at \in {"update", "add", "status"} => job[w].entry # NoEntry

\* A leaf that its root disagrees with: the root is to be reconciled.
RootSeen(r) ==
  roots[r] # Gone /\ leaves[r] # Gone /\ RootPart(leaves[r]) # roots[r] => r \in owed

Current(r) == /\ ingresses[r] = WithStatus(roots[r], leaves[r].lbs)
              /\ status[r] = generateStatusHost(r, roots[r].rules)

\* A leaf that is neither owed, in a worker's hands nor dropped: the last worker
\* that had it left cache and status current, unless the root was written since.
LeafSeen(r) ==
  roots[r] # Gone /\ leaves[r] # Gone /\ r \notin revised
  => LeafOf(r) \in owed \union busy \union gaveUp \/ Current(r)

Working(w, r) == job[w].at # "idle" /\ job[w].key = LeafOf(r)

\* What the worker of a leaf has read is what there is, or its key is owed; and
\* once it has added its entry to the cache the entry stays there.
Fresh(w, r) ==
  Working(w, r)
  => /\ job[w].entry = NoEntry /\ leaves[r] # Gone => LeafOf(r) \in owed
     /\ job[w].entry # NoEntry /\ roots[r] # Gone /\ r \notin revised
        => /\ RootPart(job[w].entry) = roots[r]
           /\ leaves[r] # Gone /\ job[w].entry.lbs # leaves[r].lbs => LeafOf(r) \in owed
           /\ job[w].at \in {"take", "publish", "status"} => ingresses[r] = job[w].entry

Seen(r) == RootSeen(r) /\ LeafSeen(r) /\ \A w \in Workers : Fresh(w, r)

AllSeen == up => \A r \in Roots : Seen(r)

Accounted == KeysExclusive /\ LeafJobs /\ AllSeen /\ DOMAIN status = Roots

CInv == IInv /\ Accounted

-----------------------------------------------------------------------------
(* Keys, roots and entries. *)

LEMMA LeafKeysDistinct ==
  /\ \A r, s \in Roots : LeafOf(r) # s /\ (LeafOf(r) = LeafOf(s) => r = s)
  /\ \A k \in LeafKeys : RootOf(k) \in Roots /\ k = LeafOf(RootOf(k))
  /\ \A r \in Roots : Exists(r) <=> roots[r] # Gone
  /\ \A r \in Roots : Exists(LeafOf(r)) <=> leaves[r] # Gone
<1>1. \A r \in Roots : LeafOf(r) \notin Roots /\ LeafOf(r)[2] = r
  BY ConstantsAssumption DEF LeafKeys, LeafOf
<1>2. \A k \in LeafKeys : \E r \in Roots : k = LeafOf(r)
  BY DEF LeafKeys
<1>3. QED
  BY <1>1, <1>2 DEF RootOf, Exists

LEMMA RootOfEntry ==
  /\ \A root \in Root : \A lbs \in SUBSET LoadBalancers :
        WithStatus(root, lbs) \in Entry /\ RootPart(WithStatus(root, lbs)) = root
        /\ WithStatus(root, lbs).lbs = lbs
  /\ \A entry \in Entry : entry = WithStatus(RootPart(entry), entry.lbs)
                          /\ RootPart(entry).rules = entry.rules
BY DEF Root, Leaf, Entry, RootPart, WithStatus

\* A step that leaves all that belongs to a root alone, or adds to what is owed.
LEMMA Elsewhere ==
  ASSUME NEW r \in Roots, Seen(r),
         roots'[r] = roots[r], leaves'[r] = leaves[r], ingresses'[r] = ingresses[r],
         status'[r] = status[r], r \in revised' <=> r \in revised,
         r \in owed => r \in owed',
         LeafOf(r) \in owed => LeafOf(r) \in owed',
         LeafOf(r) \in busy \union gaveUp => LeafOf(r) \in owed' \union busy' \union gaveUp',
         \A w \in Workers : job'[w] = job[w] \/ ~ Working(w, r)'
  PROVE  Seen(r)'
<1>1. RootSeen(r)'
  BY DEF Seen, RootSeen
<1>2. LeafSeen(r)'
  BY DEF Seen, LeafSeen, Current
<1>3. ASSUME NEW w \in Workers PROVE Fresh(w, r)'
  <2>1. CASE job'[w] = job[w]
    BY <2>1 DEF Seen, Fresh, Working
  <2>2. CASE ~ Working(w, r)'
    BY <2>2 DEF Fresh
  <2>3. QED
    BY <1>3, <2>1, <2>2
<1>4. QED
  BY <1>1, <1>2, <1>3 DEF Seen

LEMMA InitCInv == Init => CInv
<1> SUFFICES ASSUME Init PROVE CInv
  OBVIOUS
<1>1. IInv
  BY InitIInv
<1>2. \A w \in Workers : job[w].at = "idle" /\ job[w].entry = NoEntry
  BY DEF Init, NoJob
<1>3. \A r \in Roots : Seen(r)
  <2> SUFFICES ASSUME NEW r \in Roots PROVE Seen(r)
    OBVIOUS
  <2>1. /\ roots[r] # Gone => r \in owed
        /\ leaves[r] # Gone => LeafOf(r) \in owed
    BY LeafKeysDistinct, RootOfKeys DEF Init, Keys
  <2>2. QED
    BY <1>2, <2>1 DEF Seen, RootSeen, LeafSeen, Fresh, Working
<1>4. QED
  BY <1>1, <1>2, <1>3 DEF CInv, Accounted, KeysExclusive, LeafJobs, AllSeen, Init
-----------------------------------------------------------------------------
(* Steps that leave the workers' jobs alone. *)

\* Such a step has only to keep every root seen.
LEMMA JobsAlone ==
  ASSUME CInv, UNCHANGED <<busy, job, up>>, DOMAIN status' = Roots,
         up => \A r \in Roots : Seen(r)'
  PROVE  Accounted'
BY DEF CInv, Accounted, KeysExclusive, LeafJobs, AllSeen

LEMMA ReconcileRootSeen ==
  ASSUME CInv, NEW w \in Workers, NEW s \in Roots, ReconcileRoot(w, s) PROVE Accounted'
<1> DEFINE leaf == IF roots[s].rules = <<>> THEN Gone
                   ELSE WithStatus(roots[s], IF leaves[s] = Gone THEN {} ELSE leaves[s].lbs)
<1>1. /\ up /\ roots[s] # Gone
      /\ leaves' = [leaves EXCEPT ![s] = leaf]
      /\ \A k \in owed : k # s => k \in owed'
      /\ leaf # leaves[s] => LeafOf(s) \in owed'
      /\ gaveUp' = gaveUp \ {s}
      /\ UNCHANGED <<roots, status, revised, busy, envoyVars, job, up, counters>>
  BY DEF ReconcileRoot
<1>2. leaves'[s] = leaf /\ \A r \in Roots : r # s => leaves'[r] = leaves[r]
  BY <1>1 DEF CInv, IInv, TypeOK
<1>3. leaf # Gone => RootPart(leaf) = roots[s]
  <2>1. roots[s] \in Root
    BY <1>1 DEF CInv, IInv, TypeOK
  <2>2. leaf # Gone => \E lbs \in SUBSET LoadBalancers : leaf = WithStatus(roots[s], lbs)
    BY <1>1 DEF CInv, IInv, TypeOK, Leaf
  <2>3. QED
    BY <2>1, <2>2, RootOfEntry
<1>4. ASSUME NEW r \in Roots PROVE Seen(r)'
  <2>1. Seen(r)
    BY <1>1 DEF CInv, Accounted, AllSeen
  <2>2. CASE r # s
    BY <1>1, <1>2, <2>1, <2>2, LeafKeysDistinct, Elsewhere DEF envoyVars
  <2>3. CASE r = s /\ leaf = leaves[s]
    <3>1. RootSeen(r)'
      BY <1>1, <1>2, <1>3, <2>3 DEF RootSeen
    <3>2. LeafSeen(r)'
      BY <1>1, <1>2, <2>1, <2>3, LeafKeysDistinct DEF Seen, LeafSeen, Current, envoyVars
    <3>3. ASSUME NEW v \in Workers PROVE Fresh(v, r)'
      BY <1>1, <1>2, <2>1, <2>3, LeafKeysDistinct DEF Seen, Fresh, Working, envoyVars
    <3>4. QED
      BY <3>1, <3>2, <3>3 DEF Seen
  <2>4. CASE r = s /\ leaf # leaves[s]
    <3>1. RootSeen(r)' /\ LeafSeen(r)'
      BY <1>1, <1>2, <1>3, <2>4 DEF RootSeen, LeafSeen
    <3>2. ASSUME NEW v \in Workers PROVE Fresh(v, r)'
      BY <1>1, <2>1, <2>4 DEF Seen, Fresh, Working, envoyVars
    <3>3. QED
      BY <3>1, <3>2 DEF Seen
  <2>5. QED
    BY <2>2, <2>3, <2>4
<1>5. QED
  BY <1>1, <1>4, JobsAlone DEF CInv, Accounted

LEMMA RootNotFoundSeen ==
  ASSUME CInv, NEW w \in Workers, NEW s \in Roots, RootNotFound(w, s) PROVE Accounted'
<1>1. /\ up /\ roots[s] = Gone /\ LeafOf(s) \notin busy
      /\ \A k \in owed : k # LeafOf(s) => k \in owed'
      /\ gaveUp \subseteq gaveUp'
      /\ UNCHANGED <<outsideVars, status, revised, busy, envoyVars, job, up, counters>>
  BY DEF RootNotFound
<1>2. ASSUME NEW r \in Roots PROVE Seen(r)'
  <2>1. Seen(r)
    BY <1>1 DEF CInv, Accounted, AllSeen
  <2>2. CASE r # s
    BY <1>1, <2>1, <2>2, LeafKeysDistinct, Elsewhere DEF envoyVars, outsideVars
  <2>3. CASE r = s
    <3>1. RootSeen(r)' /\ LeafSeen(r)'
      BY <1>1, <2>3 DEF RootSeen, LeafSeen, outsideVars
    <3>2. ASSUME NEW v \in Workers PROVE Fresh(v, r)'
      BY <1>1, <2>3 DEF Fresh, Working, CInv, Accounted, KeysExclusive
    <3>3. QED
      BY <3>1, <3>2 DEF Seen
  <2>4. QED
    BY <2>2, <2>3
<1>3. QED
  BY <1>1, <1>2, JobsAlone DEF CInv, Accounted

LEMMA ResyncSeen == ASSUME CInv, Resync PROVE Accounted'
<1>1. /\ up /\ owed \subseteq owed'
      /\ UNCHANGED <<outsideVars, status, revised, busy, gaveUp, envoyVars, job, up, counters>>
  BY DEF Resync
<1>2. \A r \in Roots : Seen(r)'
  BY <1>1, Elsewhere DEF CInv, Accounted, AllSeen, outsideVars, envoyVars
<1>3. QED
  BY <1>1, <1>2, JobsAlone DEF CInv, Accounted

\* After the listing every Ingress is owed.
LEMMA RestartSeen == ASSUME CInv, Restart PROVE Accounted'
<1>1. /\ ~ up /\ owed' = {k \in Keys : Exists(k)}
      /\ UNCHANGED <<outsideVars, status, revised, busy, gaveUp, envoyVars, job, counters>>
  BY DEF Restart
<1>2. \A w \in Workers : job'[w].at = "idle"
  BY <1>1 DEF CInv, Accounted, KeysExclusive
<1>3. ASSUME NEW r \in Roots PROVE Seen(r)'
  <2>1. /\ roots'[r] # Gone => r \in owed'
        /\ leaves'[r] # Gone => LeafOf(r) \in owed'
    BY <1>1, LeafKeysDistinct, RootOfKeys DEF outsideVars, Keys
  <2>2. QED
    BY <1>2, <2>1 DEF Seen, RootSeen, LeafSeen, Fresh, Working
<1>4. LeafJobs'
  BY <1>1 DEF CInv, Accounted, LeafJobs
<1>5. QED
  BY <1>1, <1>2, <1>3, <1>4 DEF CInv, Accounted, KeysExclusive, AllSeen

-----------------------------------------------------------------------------
(* What users and syncers change. *)

LEMMA WriteRootSeen ==
  ASSUME CInv, NEW s \in Roots, Outside(s), Enqueue(s), UNCHANGED leaves,
         \A r \in Roots : r # s => roots'[r] = roots[r] /\ status'[r] = status[r],
         DOMAIN status' = Roots, revised' = revised \union {s}
  PROVE  Accounted'
<1>1. UNCHANGED <<busy, gaveUp, envoyVars, job, up>>
  BY DEF Outside
<1>2. ASSUME up, NEW r \in Roots PROVE Seen(r)'
  <2>1. Seen(r)
    BY <1>2 DEF CInv, Accounted, AllSeen
  <2>2. owed' = owed \union {s}
    BY <1>2 DEF Enqueue
  <2>3. CASE r # s
    BY <1>1, <2>1, <2>2, <2>3, Elsewhere DEF envoyVars
  <2>4. CASE r = s
    <3>1. RootSeen(r)' /\ LeafSeen(r)'
      BY <2>2, <2>4 DEF RootSeen, LeafSeen
    <3>2. ASSUME NEW v \in Workers PROVE Fresh(v, r)'
      BY <1>1, <2>1, <2>2, <2>4 DEF Seen, Fresh, Working
    <3>3. QED
      BY <3>1, <3>2 DEF Seen
  <2>5. QED
    BY <2>3, <2>4
<1>3. QED
  BY <1>1, <1>2, JobsAlone

LEMMA CreateRootSeen ==
  ASSUME CInv, NEW s \in Roots, NEW rules, CreateRoot(s, rules) PROVE Accounted'
<1>1. /\ Outside(s) /\ Enqueue(s) /\ UNCHANGED leaves
      /\ roots' = [roots EXCEPT ![s] = [rules |-> rules, host |-> changes']]
      /\ status' = [status EXCEPT ![s] = NoStatus]
      /\ revised' = revised \union {s}
  BY DEF CreateRoot
<1>2. /\ \A r \in Roots : r # s => roots'[r] = roots[r] /\ status'[r] = status[r]
      /\ DOMAIN status' = Roots
  BY <1>1 DEF CInv, IInv, TypeOK, Accounted
<1>3. QED
  BY <1>1, <1>2, WriteRootSeen

LEMMA UpdateRootSeen ==
  ASSUME CInv, NEW s \in Roots, NEW rules, UpdateRoot(s, rules) PROVE Accounted'
<1>1. /\ Outside(s) /\ Enqueue(s) /\ UNCHANGED <<leaves, status>>
      /\ roots' = [roots EXCEPT ![s].rules = rules]
      /\ revised' = revised \union {s}
  BY DEF UpdateRoot
<1>2. /\ \A r \in Roots : r # s => roots'[r] = roots[r] /\ status'[r] = status[r]
      /\ DOMAIN status' = Roots
  BY <1>1 DEF CInv, IInv, TypeOK, Accounted
<1>3. QED
  BY <1>1, <1>2, WriteRootSeen

LEMMA DeleteRootSeen == ASSUME CInv, NEW s \in Roots, DeleteRoot(s) PROVE Accounted'
<1>1. /\ roots' = [roots EXCEPT ![s] = Gone]
      /\ owed \subseteq owed'
      /\ UNCHANGED <<leaves, status, revised, busy, gaveUp, envoyVars, job, up>>
  BY DEF DeleteRoot, Outside, Enqueue
<1>2. roots'[s] = Gone /\ \A r \in Roots : r # s => roots'[r] = roots[r]
  BY <1>1 DEF CInv, IInv, TypeOK
<1>3. ASSUME up, NEW r \in Roots PROVE Seen(r)'
  <2>1. Seen(r)
    BY <1>3 DEF CInv, Accounted, AllSeen
  <2>2. CASE r # s
    BY <1>1, <1>2, <2>1, <2>2, Elsewhere DEF envoyVars
  <2>3. CASE r = s
    <3>1. RootSeen(r)' /\ LeafSeen(r)'
      BY <1>2, <2>3 DEF RootSeen, LeafSeen
    <3>2. ASSUME NEW v \in Workers PROVE Fresh(v, r)'
      BY <1>1, <1>2, <2>1, <2>3 DEF Seen, Fresh, Working
    <3>3. QED
      BY <3>1, <3>2 DEF Seen
  <2>4. QED
    BY <2>2, <2>3
<1>4. QED
  BY <1>1, <1>3, JobsAlone DEF CInv, Accounted

LEMMA ReportStatusSeen ==
  ASSUME CInv, NEW s \in Roots, NEW lbs \in SUBSET LoadBalancers, ReportStatus(s, lbs)
  PROVE  Accounted'
<1>1. /\ leaves[s] # Gone /\ Enqueue(LeafOf(s))
      /\ leaves' = [leaves EXCEPT ![s].lbs = lbs]
      /\ UNCHANGED <<roots, status, revised, busy, gaveUp, envoyVars, job, up>>
  BY DEF ReportStatus, Outside
<1>2. /\ \A r \in Roots : r # s => leaves'[r] = leaves[r]
      /\ leaves'[s] = [leaves[s] EXCEPT !.lbs = lbs]
      /\ leaves[s] \in Leaf
  BY <1>1 DEF CInv, IInv, TypeOK
<1>3. RootPart(leaves'[s]) = RootPart(leaves[s])
  BY <1>2 DEF Leaf, RootPart
<1>4. ASSUME up, NEW r \in Roots PROVE Seen(r)'
  <2>1. Seen(r)
    BY <1>4 DEF CInv, Accounted, AllSeen
  <2>2. owed' = owed \union {LeafOf(s)}
    BY <1>1, <1>4 DEF Enqueue
  <2>3. CASE r # s
    BY <1>1, <1>2, <2>1, <2>2, <2>3, Elsewhere DEF envoyVars
  <2>4. CASE r = s
    <3>1. RootSeen(r)'
      BY <1>1, <1>3, <2>1, <2>2, <2>4 DEF Seen, RootSeen
    <3>2. LeafSeen(r)'
      BY <2>2, <2>4 DEF LeafSeen
    <3>3. ASSUME NEW v \in Workers PROVE Fresh(v, r)'
      BY <1>1, <2>1, <2>2, <2>4 DEF Seen, Fresh, Working, envoyVars
    <3>4. QED
      BY <3>1, <3>2, <3>3 DEF Seen
  <2>5. QED
    BY <2>3, <2>4
<1>5. QED
  BY <1>1, <1>4, JobsAlone DEF CInv, Accounted
-----------------------------------------------------------------------------
(* Steps of one worker. *)

LEMMA ProcessDeletedSeen ==
  ASSUME CInv, NEW w \in Workers, NEW k \in Keys, ProcessDeleted(w, k) PROVE Accounted'
<1>1. /\ up /\ job[w].at = "idle" /\ k \notin busy /\ ~ Exists(k)
      /\ \A x \in owed : x # k => x \in owed'
      /\ busy' = busy \union {k}
      /\ ingresses' = IF k \in Roots THEN [ingresses EXCEPT ![k] = NoEntry] ELSE ingresses
      /\ job' = [job EXCEPT ![w] = [at |-> "take", key |-> k, entry |-> NoEntry]]
      /\ UNCHANGED <<outsideVars, status, revised, gaveUp, up>>
  BY DEF ProcessDeleted, Take, Q!Start
<1>2. /\ job'[w] = [at |-> "take", key |-> k, entry |-> NoEntry]
      /\ \A v \in Workers : v # w => job'[v] = job[v]
      /\ \A r \in Roots : r # k => ingresses'[r] = ingresses[r]
  BY <1>1 DEF CInv, IInv, TypeOK, Contents
<1>3. KeysExclusive' /\ LeafJobs'
  BY <1>1, <1>2 DEF CInv, Accounted, KeysExclusive, LeafJobs
<1>4. ASSUME NEW r \in Roots PROVE Seen(r)'
  <2>1. Seen(r)
    BY <1>1 DEF CInv, Accounted, AllSeen
  <2>2. CASE k \notin {r, LeafOf(r)}
    <3>1. \A v \in Workers : job'[v] = job[v] \/ ~ Working(v, r)'
      BY <1>2, <2>2 DEF Working
    <3>2. QED
      BY <1>1, <1>2, <2>1, <2>2, <3>1, Elsewhere DEF outsideVars
  <2>3. CASE k = r
    <3>1. roots'[r] = Gone
      BY <1>1, <2>3, LeafKeysDistinct DEF outsideVars
    <3>2. ASSUME NEW v \in Workers PROVE Fresh(v, r)'
      BY <1>1, <1>2, <2>1, <2>3, <3>1, LeafKeysDistinct DEF Seen, Fresh, Working, outsideVars
    <3>3. QED
      BY <3>1, <3>2 DEF Seen, RootSeen, LeafSeen
  <2>4. CASE k = LeafOf(r)
    <3>1. leaves'[r] = Gone
      BY <1>1, <2>4, LeafKeysDistinct DEF outsideVars
    <3>2. ASSUME NEW v \in Workers PROVE Fresh(v, r)'
      BY <1>1, <1>2, <2>4, <3>1 DEF Fresh, Working, CInv, Accounted, KeysExclusive
    <3>3. QED
      BY <3>1, <3>2 DEF Seen, RootSeen, LeafSeen
  <2>5. QED
    BY <2>2, <2>3, <2>4
<1>5. QED
  BY <1>1, <1>3, <1>4 DEF CInv, Accounted, AllSeen

LEMMA BeginLeafSeen ==
  ASSUME CInv, NEW w \in Workers, NEW s \in Roots, BeginLeaf(w, s) PROVE Accounted'
<1> DEFINE k == LeafOf(s)
           entry == WithStatus(roots[s], leaves[s].lbs)
<1>1. /\ up /\ job[w].at = "idle" /\ k \notin busy /\ roots[s] # Gone /\ leaves[s] # Gone
      /\ \A x \in owed : x # k => x \in owed'
      /\ busy' = busy \union {k}
      /\ job' = [job EXCEPT ![w] = [at |-> "update", key |-> k, entry |-> entry]]
      /\ revised' = revised \ {s}
      /\ UNCHANGED <<outsideVars, status, gaveUp, envoyVars, up>>
  BY DEF BeginLeaf, Take, Q!Start
<1>2. /\ job'[w] = [at |-> "update", key |-> k, entry |-> entry]
      /\ \A v \in Workers : v # w => job'[v] = job[v]
  BY <1>1 DEF CInv, IInv, TypeOK
<1>3. /\ entry # NoEntry /\ RootPart(entry) = roots[s] /\ entry.lbs = leaves[s].lbs
      /\ k \in LeafKeys
  <2>1. roots[s] \in Root /\ leaves[s].lbs \in SUBSET LoadBalancers
    BY <1>1 DEF CInv, IInv, TypeOK, Leaf
  <2>2. QED
    BY <2>1, RootOfEntry, RootOfKeys, ConstantsAssumption
<1>4. KeysExclusive' /\ LeafJobs'
  BY <1>1, <1>2, <1>3 DEF CInv, Accounted, KeysExclusive, LeafJobs
<1>5. ASSUME NEW r \in Roots PROVE Seen(r)'
  <2>1. Seen(r)
    BY <1>1 DEF CInv, Accounted, AllSeen
  <2>2. CASE r # s
    <3>1. \A v \in Workers : job'[v] = job[v] \/ ~ Working(v, r)'
      BY <1>2, <2>2, LeafKeysDistinct DEF Working
    <3>2. QED
      BY <1>1, <2>1, <2>2, <3>1, LeafKeysDistinct, Elsewhere DEF outsideVars, envoyVars
  <2>3. CASE r = s
    <3>1. RootSeen(r)' /\ LeafSeen(r)'
      BY <1>1, <2>1, <2>3, LeafKeysDistinct DEF Seen, RootSeen, LeafSeen, outsideVars
    <3>2. ASSUME NEW v \in Workers PROVE Fresh(v, r)'
      BY <1>1, <1>2, <1>3, <2>3 DEF Fresh, Working, CInv, Accounted, KeysExclusive, outsideVars
    <3>3. QED
      BY <3>1, <3>2 DEF Seen
  <2>4. QED
    BY <2>2, <2>3
<1>6. QED
  BY <1>1, <1>4, <1>5 DEF CInv, Accounted, AllSeen

\* A worker goes from one step to the next.
LEMMA GotoSeen ==
  ASSUME CInv, NEW w \in Workers, NEW step \in Steps \ {"idle"}, job[w].at # "idle", Goto(w, step),
         step \in {"update", "add", "status"} => job[w].entry # NoEntry,
         UNCHANGED <<outsideVars, status, revised, up>>,
         \A r \in Roots : r # RootOf(job[w].key) => ingresses'[r] = ingresses[r],
         job[w].key \notin LeafKeys => ingresses' = ingresses,
         step \in {"take", "publish", "status"} /\ job[w].entry # NoEntry
            => \/ ingresses'[RootOf(job[w].key)] = job[w].entry
               \/ ingresses' = ingresses /\ job[w].at \in {"take", "publish", "status"},
         job[w].entry = NoEntry => ingresses' = ingresses
  PROVE  Accounted'
<1>1. UNCHANGED <<owed, busy, gaveUp>>
  BY DEF Goto, queueVars
<1>2. /\ job'[w] = [at |-> step, key |-> job[w].key, entry |-> job[w].entry]
      /\ \A v \in Workers : v # w => job'[v] = job[v]
  BY GotoJob DEF CInv, IInv, Goto
<1>3. up /\ job[w].key \in busy
  BY DEF CInv, Accounted, KeysExclusive
<1>4. KeysExclusive' /\ LeafJobs'
  BY <1>1, <1>2 DEF CInv, Accounted, KeysExclusive, LeafJobs
<1>5. ASSUME NEW r \in Roots PROVE Seen(r)'
  <2>1. Seen(r)
    BY <1>3 DEF CInv, Accounted, AllSeen
  <2>2. CASE job[w].key # LeafOf(r)
    <3>1. ingresses'[r] = ingresses[r]
      BY <2>2, LeafKeysDistinct
    <3>2. \A v \in Workers : job'[v] = job[v] \/ ~ Working(v, r)'
      BY <1>2, <2>2 DEF Working
    <3>3. QED
      BY <1>1, <2>1, <3>1, <3>2, Elsewhere DEF outsideVars
  <2>3. CASE job[w].key = LeafOf(r)
    <3>1. RootSeen(r)' /\ LeafSeen(r)'
      BY <1>1, <1>3, <2>1, <2>3 DEF Seen, RootSeen, LeafSeen, outsideVars
    <3>2. RootOf(job[w].key) = r
      BY <2>3, RootOfKeys
    <3>3. Fresh(w, r)'
      BY <1>1, <1>2, <2>1, <2>3, <3>2 DEF Seen, Fresh, Working, outsideVars
    <3>4. ASSUME NEW v \in Workers, v # w PROVE Fresh(v, r)'
      BY <1>2, <2>3, <3>4 DEF Fresh, Working, CInv, Accounted, KeysExclusive
    <3>5. QED
      BY <3>1, <3>3, <3>4 DEF Seen
  <2>4. QED
    BY <2>2, <2>3
<1>6. QED
  BY <1>4, <1>5 DEF CInv, Accounted, AllSeen

LEMMA UpdateIngressSeen ==
  ASSUME CInv, NEW w \in Workers, UpdateIngress(w) PROVE Accounted'
<1>1. /\ job[w].at = "update" /\ Goto(w, "add")
      /\ ingresses' = [ingresses EXCEPT ![RootOf(job[w].key)] = NoEntry]
      /\ UNCHANGED <<outsideVars, status, revised, up>>
  BY DEF UpdateIngress
<1>2. job[w].entry # NoEntry /\ job[w].key \in LeafKeys
  BY <1>1 DEF CInv, Accounted, LeafJobs
<1>3. \A r \in Roots : r # RootOf(job[w].key) => ingresses'[r] = ingresses[r]
  BY <1>1 DEF CInv, IInv, TypeOK, Contents
<1>4. QED
  BY <1>1, <1>2, <1>3, GotoSeen DEF Steps

LEMMA AddSeen == ASSUME CInv, NEW w \in Workers, Add(w) PROVE Accounted'
<1> DEFINE s == RootOf(job[w].key)
<1>1. /\ job[w].at = "add" /\ Goto(w, "take")
      /\ UNCHANGED <<outsideVars, status, revised, up>>
  BY DEF Add
<1>2. job[w].entry # NoEntry /\ job[w].key \in LeafKeys /\ s \in Roots
  BY <1>1, LeafKeysDistinct DEF CInv, Accounted, LeafJobs
<1>3. ingresses' = [ingresses EXCEPT ![s] = job[w].entry]
  BY <1>1 DEF Add, CInv, IInv, Locked
<1>4. ingresses'[s] = job[w].entry /\ \A r \in Roots : r # s => ingresses'[r] = ingresses[r]
  BY <1>2, <1>3 DEF CInv, IInv, TypeOK, Contents
<1>5. QED
  BY <1>1, <1>2, <1>4, GotoSeen DEF Steps

LEMMA TakeSnapshotSeen == ASSUME CInv, NEW w \in Workers, TakeSnapshot(w) PROVE Accounted'
<1>1. /\ job[w].at = "take" /\ Goto(w, "publish")
      /\ UNCHANGED <<outsideVars, status, revised, ingresses, up>>
  BY DEF TakeSnapshot
<1>2. QED
  BY <1>1, GotoSeen DEF Steps

\* The end of a job: a leaf that is not owed nor dropped then is current.
LEMMA EndSeen ==
  ASSUME CInv, NEW w \in Workers, job[w].at # "idle", job' = [job EXCEPT ![w] = NoJob],
         owed \subseteq owed', busy' = busy \ {job[w].key},
         gaveUp \ {job[w].key} \subseteq gaveUp',
         UNCHANGED <<outsideVars, revised, ingresses, up>>, DOMAIN status' = Roots,
         \A r \in Roots : job[w].key # LeafOf(r) => status'[r] = status[r],
         \A r \in Roots : job[w].key = LeafOf(r) => LeafSeen(r)'
  PROVE  Accounted'
<1>1. /\ job'[w] = NoJob
      /\ \A v \in Workers : v # w => job'[v] = job[v]
  BY DEF CInv, IInv, TypeOK
<1>2. up
  BY DEF CInv, Accounted, KeysExclusive
<1>3. KeysExclusive' /\ LeafJobs'
  BY <1>1 DEF CInv, Accounted, KeysExclusive, LeafJobs, NoJob
<1>4. ASSUME NEW r \in Roots PROVE Seen(r)'
  <2>1. Seen(r)
    BY <1>2 DEF CInv, Accounted, AllSeen
  <2>2. \A v \in Workers : job'[v] = job[v] \/ ~ Working(v, r)'
    BY <1>1 DEF Working, NoJob
  <2>3. CASE job[w].key # LeafOf(r)
    BY <2>1, <2>2, <2>3, Elsewhere DEF outsideVars
  <2>4. CASE job[w].key = LeafOf(r)
    <3>1. RootSeen(r)'
      BY <2>1 DEF Seen, RootSeen, outsideVars
    <3>2. ASSUME NEW v \in Workers PROVE Fresh(v, r)'
      BY <2>1, <2>2 DEF Seen, Fresh, Working, outsideVars
    <3>3. QED
      BY <2>4, <3>1, <3>2 DEF Seen
  <2>5. QED
    BY <2>3, <2>4
<1>5. QED
  BY <1>3, <1>4 DEF CInv, Accounted, AllSeen

LEMMA SetSnapshotSeen == ASSUME CInv, NEW w \in Workers, SetSnapshot(w) PROVE Accounted'
<1>1. /\ job[w].at = "publish"
      /\ UNCHANGED <<outsideVars, status, revised, ingresses, up>>
  BY DEF SetSnapshot
<1>2. CASE job[w].entry = NoEntry /\ Succeed(w)
  <2>1. /\ job' = [job EXCEPT ![w] = NoJob]
        /\ owed' = owed /\ busy' = busy \ {job[w].key} /\ gaveUp' = gaveUp \ {job[w].key}
    BY <1>2 DEF Succeed, Q!Finish
  <2>2. ASSUME NEW r \in Roots, job[w].key = LeafOf(r) PROVE LeafSeen(r)'
    <3>1. Fresh(w, r)
      BY <1>1 DEF CInv, Accounted, KeysExclusive, AllSeen, Seen
    <3>2. QED
      BY <1>1, <1>2, <2>1, <2>2, <3>1 DEF Fresh, Working, LeafSeen, outsideVars
  <2>3. QED
    BY <1>1, <2>1, <2>2, EndSeen DEF CInv, Accounted
<1>3. CASE job[w].entry # NoEntry /\ Goto(w, "status")
  BY <1>1, <1>3, GotoSeen DEF Steps
<1>4. QED
  BY <1>2, <1>3 DEF SetSnapshot

LEMMA FailSeen ==
  ASSUME CInv, NEW w \in Workers, job[w].at # "idle", Fail(w) \/ RequeueAndForget(w),
         UNCHANGED <<outsideVars, status, revised, ingresses, up>>
  PROVE  Accounted'
<1>1. /\ job' = [job EXCEPT ![w] = NoJob]
      /\ owed \subseteq owed' /\ busy' = busy \ {job[w].key}
      /\ gaveUp \ {job[w].key} \subseteq gaveUp'
      /\ job[w].key \in owed' \union gaveUp'
  BY DEF Fail, RequeueAndForget
<1>2. \A r \in Roots : job[w].key = LeafOf(r) => LeafSeen(r)'
  BY <1>1 DEF LeafSeen
<1>3. QED
  BY <1>1, <1>2, EndSeen DEF CInv, Accounted

LEMMA UpdateStatusSeen == ASSUME CInv, NEW w \in Workers, UpdateStatus(w) PROVE Accounted'
<1>1. job[w].at = "status" /\ UNCHANGED <<outsideVars, revised, envoyVars, up>>
  BY DEF UpdateStatus
<1>2. /\ job[w].entry \in Entry /\ job[w].entry # NoEntry
      /\ RootOf(job[w].key) \in Roots /\ job[w].key = LeafOf(RootOf(job[w].key))
  BY <1>1, LeafKeysDistinct DEF CInv, Accounted, LeafJobs, IInv, TypeOK, Job
<1>3. PICK s \in Roots : s = RootOf(job[w].key) /\ job[w].key = LeafOf(s)
  BY <1>2
<1>4. CASE UNCHANGED status /\ (Fail(w) \/ RequeueAndForget(w))
  BY <1>1, <1>4, FailSeen DEF envoyVars
<1>5. CASE /\ roots[s] # Gone /\ s \notin revised
           /\ status' = [status EXCEPT ![s] = generateStatusHost(s, job[w].entry.rules)]
           /\ Succeed(w)
  <2>1. /\ job' = [job EXCEPT ![w] = NoJob]
        /\ owed' = owed /\ busy' = busy \ {job[w].key} /\ gaveUp' = gaveUp \ {job[w].key}
    BY <1>5 DEF Succeed, Q!Finish
  <2>2. /\ status'[s] = generateStatusHost(s, job[w].entry.rules)
        /\ \A r \in Roots : r # s => status'[r] = status[r]
        /\ DOMAIN status' = Roots
    BY <1>5 DEF CInv, Accounted
  <2>3. LeafSeen(s)'
    <3>1. Fresh(w, s)
      BY <1>1 DEF CInv, Accounted, KeysExclusive, AllSeen, Seen
    <3>2. /\ RootPart(job[w].entry) = roots[s]
          /\ leaves[s] # Gone /\ job[w].entry.lbs # leaves[s].lbs => LeafOf(s) \in owed
          /\ ingresses[s] = job[w].entry
      BY <1>1, <1>2, <1>3, <1>5, <3>1 DEF Fresh, Working
    <3>3. /\ job[w].entry = WithStatus(roots[s], job[w].entry.lbs)
          /\ roots[s].rules = job[w].entry.rules
      BY <1>2, <3>2, RootOfEntry
    <3>4. status'[s] = generateStatusHost(s, roots'[s].rules)
      BY <1>1, <2>2, <3>3 DEF outsideVars
    <3>5. leaves[s] # Gone /\ LeafOf(s) \notin owed
          => ingresses'[s] = WithStatus(roots'[s], leaves'[s].lbs)
      BY <1>1, <3>2, <3>3 DEF outsideVars, envoyVars
    <3>6. QED
      BY <1>1, <2>1, <3>4, <3>5 DEF LeafSeen, Current, outsideVars
  <2>4. \A r \in Roots : job[w].key # LeafOf(r) => status'[r] = status[r]
    BY <1>3, <2>2
  <2>5. \A r \in Roots : job[w].key = LeafOf(r) => LeafSeen(r)'
    BY <1>3, <2>3, LeafKeysDistinct
  <2>6. UNCHANGED <<outsideVars, revised, ingresses, up>>
    BY <1>1 DEF envoyVars
  <2>7. QED
    BY <1>1, <2>1, <2>2, <2>4, <2>5, <2>6, EndSeen
<1>6. QED
  BY <1>3, <1>4, <1>5 DEF UpdateStatus

LEMMA CallFailsSeen == ASSUME CInv, NEW w \in Workers, CallFails(w) PROVE Accounted'
<1>1. /\ job[w].at # "idle" /\ Fail(w)
      /\ UNCHANGED <<outsideVars, status, revised, envoyVars, up>>
  BY DEF CallFails
<1>2. QED
  BY <1>1, FailSeen DEF envoyVars

LEMMA DieSeen == ASSUME CInv, Die PROVE Accounted'
<1>1. job' = [w \in Workers |-> NoJob] /\ up' = FALSE /\ UNCHANGED status
  BY DEF Die
<1>2. QED
  BY <1>1 DEF CInv, Accounted, KeysExclusive, LeafJobs, AllSeen, NoJob

-----------------------------------------------------------------------------

LEMMA NextAccounted == CInv /\ [Next]_vars => Accounted'
<1> SUFFICES ASSUME CInv, [Next]_vars PROVE Accounted'
  OBVIOUS
<1>1. ASSUME NEW w \in Workers, Worker(w) \/ CallFails(w) PROVE Accounted'
  BY <1>1, UpdateIngressSeen, AddSeen, TakeSnapshotSeen, SetSnapshotSeen, UpdateStatusSeen,
     DieSeen, CallFailsSeen DEF Worker, Panic
<1>2. ASSUME NEW w \in Workers, NEW k \in Keys, Begin(w, k) PROVE Accounted'
  <2>1. CASE ProcessDeleted(w, k)
    BY <2>1, ProcessDeletedSeen
  <2>2. CASE k \in Roots /\ (ReconcileRoot(w, k) \/ PanicOnRoot(w, k))
    BY <2>2, ReconcileRootSeen, DieSeen DEF PanicOnRoot
  <2>3. CASE k \in LeafKeys /\ (BeginLeaf(w, k[2]) \/ RootNotFound(w, k[2]))
    <3>1. k[2] \in Roots
      BY <2>3 DEF LeafKeys, LeafOf
    <3>2. QED
      BY <2>3, <3>1, BeginLeafSeen, RootNotFoundSeen
  <2>4. QED
    BY <1>2, <2>1, <2>2, <2>3 DEF Begin
<1>3. CASE Resync \/ Kill \/ Restart
  BY <1>3, ResyncSeen, DieSeen, RestartSeen DEF Kill
<1>4. ASSUME NEW r \in Roots,
             \/ DeleteRoot(r)
             \/ \E rules \in RulesOf[r] : CreateRoot(r, rules) \/ UpdateRoot(r, rules)
             \/ \E lbs \in SUBSET LoadBalancers : ReportStatus(r, lbs)
      PROVE  Accounted'
  BY <1>4, DeleteRootSeen, CreateRootSeen, UpdateRootSeen, ReportStatusSeen
<1>5. CASE UNCHANGED vars
  <2>1. UNCHANGED <<outsideVars, status, revised, queueVars, envoyVars, job, up>>
    BY <1>5 DEF vars
  <2>2. up => \A r \in Roots : Seen(r)'
    BY <2>1, Elsewhere DEF CInv, Accounted, AllSeen, outsideVars, queueVars, envoyVars
  <2>3. QED
    BY <2>1, <2>2, JobsAlone DEF CInv, Accounted, queueVars
<1>6. QED
  BY <1>1, <1>2, <1>3, <1>4, <1>5 DEF Next

\* The invariant behind both: what is not current is owed, in a worker's hands or
\* dropped, and no worker has something outdated in its hands whose key is not owed.
THEOREM NothingOverlooked == Spec => []CInv
<1>1. CInv /\ [Next]_vars => CInv'
  BY NextIInv, NextAccounted DEF CInv
<1>2. QED
  BY InitCInv, <1>1, PTL DEF Spec

\* At rest a root that is served is neither owed nor in a worker's hands.
LEMMA AtRest == CInv => \A r \in Roots : Quiet /\ Served(r) => Current(r)
<1> SUFFICES ASSUME CInv, NEW r \in Roots, Quiet, Served(r) PROVE Current(r)
  OBVIOUS
<1>1. RootSeen(r) /\ LeafSeen(r)
  BY DEF CInv, Accounted, AllSeen, Seen, Quiet
<1>2. r \notin revised
  BY <1>1 DEF RootSeen, Quiet, Served, SetBack
<1>3. QED
  BY <1>1, <1>2 DEF LeafSeen, Quiet, Served

\* ingress.go:172-181: the Envoy cache ends up with the last rules and load
\* balancers of every root, unless its keys were dropped or its rules set back.
THEOREM EnvoyCacheCurrent == Spec => []CacheCurrent
<1>1. CInv => CacheCurrent
  BY AtRest DEF CacheCurrent, Current
<1>2. QED
  BY <1>1, NothingOverlooked, PTL

\* ingress.go:187-205: and its status with the hostname generated from them.
THEOREM StatusHostsCurrent == Spec => []StatusHostCurrent
<1>1. CInv => StatusHostCurrent
  BY AtRest DEF StatusHostCurrent, Current
<1>2. QED
  BY <1>1, NothingOverlooked, PTL

-----------------------------------------------------------------------------
(* What the translator makes of any cached Ingresses. *)

LEMMA Translated ==
  ASSUME NEW entries, NEW S, S = ToEnvoySnapshot(entries)
  PROVE  /\ S.listener.rds = S.routes.name
         /\ \A r \in DOMAIN entries : /\ newCluster(r, entries[r].lbs) \in S.clusters
                                      /\ VirtualHost(r, entries[r].rules) \in S.routes.vhosts
         /\ \A c \in S.clusters : \E r \in DOMAIN entries : c = newCluster(r, entries[r].lbs)
         /\ \A v \in S.routes.vhosts : \E r \in DOMAIN entries : v = VirtualHost(r, entries[r].rules)
<1> DEFINE T == {translateIngress(r, entries[r]) : r \in DOMAIN entries}
<1>1. /\ S.listener.rds = "defaultroute" /\ S.routes.name = "defaultroute"
      /\ S.routes.vhosts = {t.vhost : t \in T} /\ S.clusters = {t.cluster : t \in T}
  BY DEF ToEnvoySnapshot, newRouteConfig, newHTTPListener
<1>2. \A r \in DOMAIN entries :
        /\ translateIngress(r, entries[r]) \in T
        /\ translateIngress(r, entries[r]).cluster = newCluster(r, entries[r].lbs)
        /\ translateIngress(r, entries[r]).vhost = VirtualHost(r, entries[r].rules)
  BY DEF translateIngress
<1>3. \A t \in T : \E r \in DOMAIN entries : t = translateIngress(r, entries[r])
  OBVIOUS
<1> HIDE DEF T
<1>4. QED
  BY <1>1, <1>2, <1>3

LEMMA VirtualHostOf ==
  ASSUME NEW r, NEW rules
  PROVE  /\ \A host : host \in VirtualHost(r, rules).domains
                     <=> \E rule \in TranslatedRules(rules) : rule.host = host
         /\ \A path, name : [prefix |-> path, cluster |-> name] \in VirtualHost(r, rules).routes
                           <=> /\ name = r
                               /\ \E rule \in TranslatedRules(rules) : path \in Range(rule.paths)
<1>1. /\ VirtualHost(r, rules).domains = {rule.host : rule \in TranslatedRules(rules)}
      /\ VirtualHost(r, rules).routes = Routes(r, TranslatedRules(rules))
  BY DEF VirtualHost
<1>2. \A path, name : [prefix |-> path, cluster |-> name] \in Routes(r, TranslatedRules(rules))
                      <=> /\ name = r
                          /\ \E rule \in TranslatedRules(rules) : path \in Range(rule.paths)
  <2> TAKE path, name
  <2> DEFINE Paths == UNION {Range(rule.paths) : rule \in TranslatedRules(rules)}
  <2>1. path \in Paths <=> \E rule \in TranslatedRules(rules) : path \in Range(rule.paths)
    OBVIOUS
  <2>2. Routes(r, TranslatedRules(rules)) = {[prefix |-> p, cluster |-> r] : p \in Paths}
    BY DEF Routes
  <2> HIDE DEF Paths
  <2>3. [prefix |-> path, cluster |-> name] \in {[prefix |-> p, cluster |-> r] : p \in Paths}
        => name = r /\ path \in Paths
    <3> SUFFICES ASSUME NEW p \in Paths, [prefix |-> path, cluster |-> name] = [prefix |-> p, cluster |-> r]
                 PROVE  name = r /\ path \in Paths
      OBVIOUS
    <3>1. /\ [prefix |-> path, cluster |-> name].prefix = [prefix |-> p, cluster |-> r].prefix
          /\ [prefix |-> path, cluster |-> name].cluster = [prefix |-> p, cluster |-> r].cluster
      OBVIOUS
    <3>2. QED
      BY <3>1
  <2>4. QED
    BY <2>1, <2>2, <2>3
<1>3. QED
  BY <1>1, <1>2

\* Requests lead to the endpoints of the Ingresses that have both the host and the
\* path among their translated rules, and to no others.
LEMMA BackendsOf ==
  ASSUME NEW entries, NEW host, NEW path
  PROVE  /\ \A r \in DOMAIN entries :
              /\ \E rule \in TranslatedRules(entries[r].rules) : rule.host = host
              /\ \E rule \in TranslatedRules(entries[r].rules) : path \in Range(rule.paths)
              => Endpoints(entries[r]) \subseteq Backends(ToEnvoySnapshot(entries), host, path)
         /\ \A e \in Backends(ToEnvoySnapshot(entries), host, path) :
              \E r \in DOMAIN entries :
                 /\ \E rule \in TranslatedRules(entries[r].rules) : rule.host = host
                 /\ e \in Endpoints(entries[r])
<1> DEFINE S == ToEnvoySnapshot(entries)
           Leads(c, v) == host \in v.domains /\ [prefix |-> path, cluster |-> c.name] \in v.routes
<1>1. /\ S.listener.rds = S.routes.name
      /\ \A r \in DOMAIN entries : /\ newCluster(r, entries[r].lbs) \in S.clusters
                                   /\ VirtualHost(r, entries[r].rules) \in S.routes.vhosts
      /\ \A c \in S.clusters : \E r \in DOMAIN entries : c = newCluster(r, entries[r].lbs)
      /\ \A v \in S.routes.vhosts : \E r \in DOMAIN entries : v = VirtualHost(r, entries[r].rules)
  BY Translated
<1>2. \A e : e \in Backends(S, host, path)
             <=> \E c \in S.clusters : \E v \in S.routes.vhosts : Leads(c, v) /\ e \in c.endpoints
  BY <1>1 DEF Backends
<1>3. \A r : \A lbs : /\ newCluster(r, lbs).name = r
                      /\ newCluster(r, lbs).endpoints = {Endpoint(lb) : lb \in lbs}
  BY DEF newCluster
<1>4. \A r \in DOMAIN entries : newCluster(r, entries[r].lbs).endpoints = Endpoints(entries[r])
  BY <1>3 DEF Endpoints
<1>5. \A c : \A r \in DOMAIN entries :
        Leads(c, VirtualHost(r, entries[r].rules))
        <=> /\ c.name = r
            /\ \E rule \in TranslatedRules(entries[r].rules) : rule.host = host
            /\ \E rule \in TranslatedRules(entries[r].rules) : path \in Range(rule.paths)
  BY VirtualHostOf
<1> HIDE DEF S, Leads
<1>6. QED
  BY <1>1, <1>2, <1>3, <1>4, <1>5 DEF S

LEMMA CachedEntries ==
  ASSUME NEW contents
  PROVE  \E entries : /\ TranslationOf(contents) = ToEnvoySnapshot(entries)
                      /\ DOMAIN entries = CachedKeys(contents)
                      /\ \A r \in CachedKeys(contents) : entries[r] = contents[r]
<1>1. TranslationOf(contents) = ToEnvoySnapshot([r \in CachedKeys(contents) |-> contents[r]])
  BY DEF TranslationOf
<1>2. QED
  BY <1>1

\* translateIngress: of whatever Ingresses are published, every rule that no rule up to
\* itself keeps out of the virtual host leads to its load balancers, and to all of them.
THEOREM PublishedRouted == Spec => []RequestsRouted
<1>1. RequestsRouted
  <2> SUFFICES ASSUME NEW r \in CachedKeys(published), NEW i \in DOMAIN published[r].rules,
                      Routed(published[r].rules, i),
                      NEW j \in DOMAIN published[r].rules[i].paths
               PROVE  Endpoints(published[r])
                        \subseteq Backends(TranslationOf(published), published[r].rules[i].host,
                                           published[r].rules[i].paths[j])
    BY DEF RequestsRouted, Reaches
  <2>1. PICK entries : /\ TranslationOf(published) = ToEnvoySnapshot(entries)
                       /\ DOMAIN entries = CachedKeys(published)
                       /\ \A s \in CachedKeys(published) : entries[s] = published[s]
    BY CachedEntries
  <2>2. /\ published[r].rules[i] \in TranslatedRules(published[r].rules)
        /\ published[r].rules[i].paths[j] \in Range(published[r].rules[i].paths)
    BY DEF TranslatedRules, Routed, Range
  <2>3. QED
    BY <2>1, <2>2, BackendsOf
<1>2. QED
  BY <1>1, PTL

\* translateIngress: whatever Ingresses are published, no request for a host gets to a
\* load balancer of an Ingress without it.
THEOREM HostsApart == Spec => []OnlyOwnHosts
<1>1. OnlyOwnHosts
  <2> SUFFICES ASSUME NEW host, NEW path,
                      NEW e \in Backends(TranslationOf(published), host, path)
               PROVE  e \in UNION {Endpoints(published[t]) : t \in OfHost(host)}
    BY DEF OnlyOwnHosts
  <2>1. PICK entries : /\ TranslationOf(published) = ToEnvoySnapshot(entries)
                       /\ DOMAIN entries = CachedKeys(published)
                       /\ \A s \in CachedKeys(published) : entries[s] = published[s]
    BY CachedEntries
  <2>2. PICK t \in CachedKeys(published) :
          /\ \E rule \in TranslatedRules(published[t].rules) : rule.host = host
          /\ e \in Endpoints(published[t])
    BY <2>1, BackendsOf
  <2>3. t \in OfHost(host)
    BY <2>2 DEF OfHost, TranslatedRules
  <2>4. QED
    BY <2>2, <2>3
<1>2. QED
  BY <1>1, PTL

=============================================================================
