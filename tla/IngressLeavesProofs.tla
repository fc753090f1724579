------------------------- MODULE IngressLeavesProofs ------------------------
(***************************************************************************)
(* More proofs about IngressController, for any constants: once everything *)
(* is quiet a live root that was neither dropped nor overlooked has each   *)
(* of its leaves, with its last rules and hostname, and of those it has    *)
(* listed no others; and whose leaves a job deletes.                       *)
(*                                                                         *)
(* The argument follows one root from the Gets of its Services to the last *)
(* of its leaves.  As long as no change of a Service or of the root is     *)
(* under way or was missed, a Service that was read has its leaf among     *)
(* those still to be written, a leaf that was written stays as it is, and  *)
(* a leaf that was listed is to be deleted unless a Service asks for it.   *)
(***************************************************************************)
EXTENDS IngressControllerProofs

-----------------------------------------------------------------------------
(* The inductive invariant. *)

\* The leaf is there to stay and as the cached root wants it.
Current(l) == /\ leaves[l].live
              /\ ~ leaves[l].deleting
              /\ leaves[l].rules = cachedRoots[l[1]].rules
              /\ leaves[l].host = cachedRoots[l[1]].host

\* The Service exists and the root has its leaf.
Served(r, s) == /\ services[s] # Missing
                /\ services[s] \in Clusters => Current(<<r, services[s]>>)

\* The Service exists and its leaf is still to be written.
Planned(r, s, want) == /\ services[s] # Missing
                       /\ services[s] \in Clusters => <<r, services[s]>> \in Range(want)

\* What a job on a root has done for its Services as far as it has come.
JobServes(j) ==
  /\ j.at = "get" => \A s \in Range(j.rules) \ Range(j.left) : Planned(j.key, s, j.want)
  /\ j.at \in {"track", "delete"} => \A s \in Range(j.rules) : Planned(j.key, s, j.want)
  /\ j.at \in {"create", "read", "update"} =>
       \A s \in Range(j.rules) : Planned(j.key, s, j.want) \/ Served(j.key, s)

\* The controller knows the last state of the root and of its Services.
Heard(r) == /\ cachedRoots[r].live
            /\ r \notin todo
            /\ r \notin overlooked
            /\ \A s \in Range(cachedRoots[r].rules) : s \notin svcEvents

\* Then whoever has the root serves it, and if nobody does and it was not dropped it
\* has been served.
RootServed(r) ==
  Heard(r) => /\ \A w \in Workers : job[w].key = r => JobServes(job[w])
              /\ r \notin Busy /\ r \notin gaveUp
                   => \A s \in Range(cachedRoots[r].rules) : Served(r, s)

\* A job on a root writes leaves of that root alone, after the deletions, with the
\* hostname the indexer holds unless the root has been added again.
JobOwn(j, owed, cached) ==
  j.key \in Roots =>
    /\ \A l \in Range(j.want) : l[1] = j.key
    /\ j.at \in {"create", "read", "update"} => j.drop = {}
    /\ j.key \notin owed => j.host = cached[j.key].host

JobsOwn == \A w \in Workers : JobOwn(job[w], todo, cachedRoots)

\* A leaf that exists, is there to stay and was in the last list of its root.
Listed(l) == leaves[l].live /\ ~ leaves[l].deleting /\ l \notin unlisted

\* The leaves of a root that has these rules.
Wanted(r, rules) == {<<r, services[s]>> : s \in {x \in Range(rules) : services[x] \in Clusters}}

\* What a job on a root has planned for its leaves: it writes none that is not wanted,
\* and once they were listed each of them is to be deleted, or wanted.
JobClears(j) ==
  /\ Range(j.want) \subseteq Wanted(j.key, j.rules)
  /\ j.at = "get" => Range(j.left) \subseteq Range(j.rules)
  /\ j.at \in {"get", "track"} =>
       \A l \in Leaves : l[1] = j.key /\ Listed(l) => l \in j.drop
  /\ j.at \in {"delete", "create", "read", "update"} =>
       \A l \in Leaves : l[1] = j.key /\ Listed(l) => l \in j.drop \/ l \in Wanted(j.key, j.rules)

\* Of a root whose last state is known, whoever has it clears its leaves, and if nobody
\* does and it was not dropped, no other leaf is left.
RootCleared(r) ==
  Heard(r) => /\ \A w \in Workers : job[w].key = r => JobClears(job[w])
              /\ r \notin Busy /\ r \notin gaveUp
                   => \A l \in Leaves : l[1] = r /\ Listed(l) => l \in Wanted(r, cachedRoots[r].rules)

RootsCleared == \A r \in Roots : RootCleared(r)

LInv == /\ JobsOwn
        /\ \A r \in Roots : RootServed(r)

-----------------------------------------------------------------------------
(* Steps that leave a root alone. *)

\* What a step must not touch so that a root stays served.
LEMMA Undisturbed ==
  ASSUME IInv, NEW r \in Roots, RootServed(r),
         Heard(r)' => Heard(r),
         Heard(r)' => /\ cachedRoots'[r] = cachedRoots[r]
                      /\ \A s \in Range(cachedRoots[r].rules) :
                            services[s] # Missing => services'[s] = services[s]
                      /\ \A c \in Clusters : Current(<<r, c>>) => Current(<<r, c>>)',
         \A w \in Workers : job[w].key = r \/ job'[w].key = r => job'[w] = job[w],
         r \in gaveUp => r \in gaveUp'
  PROVE  RootServed(r)'
<1> SUFFICES ASSUME Heard(r)'
             PROVE  /\ \A w \in Workers : job'[w].key = r => JobServes(job[w])'
                    /\ r \notin Busy' /\ r \notin gaveUp'
                         => \A s \in Range(cachedRoots[r].rules) : Served(r, s)'
  BY DEF RootServed
<1>1. /\ Heard(r)
      /\ cachedRoots'[r] = cachedRoots[r]
      /\ Range(cachedRoots[r].rules) \subseteq Services
  BY DEF IInv, TypeOK, RootObject, Range
<1>2. ASSUME NEW s \in Range(cachedRoots[r].rules), Served(r, s)
      PROVE  Served(r, s)'
  BY <1>2 DEF Served
<1>3. ASSUME NEW s \in Range(cachedRoots[r].rules), NEW want, Planned(r, s, want)
      PROVE  Planned(r, s, want)'
  BY <1>3 DEF Planned
<1>4. ASSUME NEW w \in Workers, job'[w].key = r
      PROVE  JobServes(job[w])'
  <2> PICK j : j = job[w]
    OBVIOUS
  <2>1. job'[w] = j /\ j.key = r /\ JobServes(j)
    BY <1>1, <1>4 DEF RootServed
  <2>2. j.rules = cachedRoots[r].rules
    BY <1>1, <2>1 DEF IInv, JobsTracked, JobTracked, Heard
  <2>3. JobServes(j)'
    BY <1>2, <1>3, <2>1, <2>2 DEF JobServes
  <2>4. QED
    BY <2>1, <2>3
<1>5. ASSUME r \notin Busy', r \notin gaveUp', NEW s \in Range(cachedRoots'[r].rules)
      PROVE  Served(r, s)'
  <2>1. r \notin Busy /\ r \notin gaveUp
    BY <1>5 DEF Busy
  <2>2. QED
    BY <1>1, <1>2, <2>1 DEF RootServed
<1>6. QED
  BY <1>4, <1>5

\* The step of a worker that has a key disturbs no other root, but for those it
\* makes the controller overlook.
LEMMA OthersServed ==
  ASSUME IInv, LInv, NEW w \in Workers, NEW j, NEW r \in Roots,
         job[w].key # r, j.key # r,
         job' = [job EXCEPT ![w] = j],
         todo \ {j.key} \subseteq todo', gaveUp \ {job[w].key} \subseteq gaveUp',
         overlooked \ {j.key} \subseteq overlooked',
         UNCHANGED <<services, cachedRoots, svcEvents>>,
         \A c \in Clusters : r \notin overlooked' => leaves'[<<r, c>>] = leaves[<<r, c>>]
  PROVE  RootServed(r)'
<1>1. Heard(r)' => Heard(r)
  BY DEF Heard
<1>2. \A v \in Workers : job[v].key = r \/ job'[v].key = r => job'[v] = job[v]
  BY DEF IInv, TypeOK
<1>3. Heard(r)' => \A c \in Clusters : Current(<<r, c>>) => Current(<<r, c>>)'
  BY DEF Heard, Current
<1>4. r \in gaveUp => r \in gaveUp'
  OBVIOUS
<1>5. RootServed(r)
  BY DEF LInv
<1>6. QED
  BY <1>1, <1>2, <1>3, <1>4, <1>5, Undisturbed

\* The jobs of the others keep to their roots.
LEMMA JobsOwnAfter ==
  ASSUME IInv, LInv, NEW w \in Workers, NEW j,
         job' = [job EXCEPT ![w] = j], JobOwn(j, todo', cachedRoots'),
         UNCHANGED cachedRoots,
         \A r \in todo \ todo' : \A v \in Workers \ {w} : job[v].key # r
  PROVE  JobsOwn'
<1> SUFFICES ASSUME NEW v \in Workers
             PROVE  JobOwn(job'[v], todo', cachedRoots')
  BY DEF JobsOwn
<1>1. CASE v = w
  BY <1>1 DEF IInv, TypeOK
<1>2. CASE v # w
  <2>1. job'[v] = job[v] /\ JobOwn(job[v], todo, cachedRoots)
    BY <1>2 DEF IInv, TypeOK, LInv, JobsOwn
  <2>2. QED
    BY <1>2, <2>1 DEF JobOwn
<1>3. QED
  BY <1>1, <1>2

LEMMA NoJobOwn == \A owed, cached : JobOwn(NoJob, owed, cached)
BY Disjoint DEF JobOwn, NoJob

\* A worker on a leaf goes on, or becomes idle.
LEMMA LeafJobGoesOn ==
  ASSUME IInv, LInv, NEW w \in Workers, NEW j, job[w].key \in Leaves,
         j.key = job[w].key \/ j = NoJob,
         job' = [job EXCEPT ![w] = j],
         todo \subseteq todo', gaveUp \ {job[w].key} \subseteq gaveUp',
         UNCHANGED <<leaves, services, cachedRoots, svcEvents, overlooked>>
  PROVE  LInv'
<1>1. j.key \notin Roots
  BY Disjoint DEF NoJob
<1>2. JobsOwn'
  BY <1>1, JobsOwnAfter DEF JobOwn
<1>3. \A r \in Roots : RootServed(r)'
  BY <1>1, OthersServed, Disjoint
<1>4. QED
  BY <1>2, <1>3 DEF LInv

\* What an error does to the job and the queue.
LEMMA FailsTo ==
  ASSUME IInv, NEW w \in Workers, job[w].at # "idle", Fail(w)
  PROVE  /\ job' = [job EXCEPT ![w] = NoJob]
         /\ todo \subseteq todo' /\ gaveUp \subseteq gaveUp'
         /\ job[w].key \in todo' \union gaveUp'
<1>1. job[w].key \in Keys /\ failures \in [Keys -> 0 .. MaxRetries]
  BY OwnKey DEF IInv, TypeOK
<1>2. QED
  BY <1>1, ConstantsAssumption DEF Fail, Enqueue

\* A worker meets an error: its root is owed or dropped.
LEMMA FailServed ==
  ASSUME IInv, LInv, NEW w \in Workers, job[w].at # "idle", Fail(w),
         UNCHANGED <<leaves, services, cachedRoots, svcEvents, overlooked>>
  PROVE  LInv'
<1>1. /\ job' = [job EXCEPT ![w] = NoJob]
      /\ todo \subseteq todo' /\ gaveUp \subseteq gaveUp'
      /\ job[w].key \in todo' \union gaveUp'
      /\ NoJob.key \notin Roots
  BY FailsTo, Disjoint DEF NoJob
<1>2. JobsOwn'
  BY <1>1, NoJobOwn, JobsOwnAfter
<1>3. ASSUME NEW r \in Roots PROVE RootServed(r)'
  <2>1. CASE r = job[w].key
    <3>1. \A v \in Workers : job'[v].key # r
      BY <1>1, <2>1, OwnKey DEF IInv, TypeOK
    <3>2. QED
      BY <1>1, <2>1, <3>1 DEF RootServed, Heard
  <2>2. CASE r # job[w].key
    BY <1>1, <2>2, OthersServed
  <2>3. QED
    BY <2>1, <2>2
<1>4. QED
  BY <1>2, <1>3 DEF LInv

-----------------------------------------------------------------------------
(* A worker on a root goes on. *)

\* WriteStep keeps what a job has done, and ends when nothing is left to write.
LEMMA WriteStepServes ==
  ASSUME NEW j \in Job,
         \/ \A s \in Range(j.rules) : Planned(j.key, s, j.want)'
         \/ /\ j.drop = {}
            /\ \A s \in Range(j.rules) : Planned(j.key, s, j.want)' \/ Served(j.key, s)'
  PROVE  IF WriteStep(j).at = "idle"
         THEN \A s \in Range(j.rules) : Served(j.key, s)'
         ELSE JobServes(WriteStep(j))'
<1> PICK k : k = WriteStep(j)
  OBVIOUS
<1>1. /\ k.key = j.key /\ k.rules = j.rules /\ k.want = j.want
      /\ k.at = IF j.drop # {} THEN "delete" ELSE IF j.want # <<>> THEN "create" ELSE "idle"
  BY DEF WriteStep, Job
<1>2. CASE k.at = "idle"
  <2>1. Range(j.want) = {}
    BY <1>1, <1>2 DEF Range
  <2>2. QED
    BY <1>1, <1>2, <2>1 DEF Planned, Served
<1>3. CASE k.at # "idle"
  <2>1. JobServes(k)'
    BY <1>1, <1>3 DEF JobServes
  <2>2. QED
    BY <1>3, <2>1
<1>4. QED
  BY <1>2, <1>3

LEMMA GoesOn ==
  ASSUME IInv, LInv, NEW w \in Workers, NEW j \in Job,
         job[w].at # "idle", job[w].key \in Roots, Continue(w, j),
         j.key = job[w].key, j.rules = job[w].rules, j.host = job[w].host,
         \A l \in Range(j.want) : l[1] = j.key,
         j.at \in {"create", "read", "update"} => j.drop = {},
         UNCHANGED <<services, cachedRoots, svcEvents>>,
         overlooked \subseteq overlooked',
         \A l \in Leaves : l[1] # j.key /\ l[1] \notin overlooked' => leaves'[l] = leaves[l],
         Heard(j.key)' => IF j.at = "idle" THEN \A s \in Range(j.rules) : Served(j.key, s)'
                                           ELSE JobServes(j)'
  PROVE  LInv'
<1> DEFINE k == IF j.at = "idle" THEN NoJob ELSE j
<1>1. /\ job' = [job EXCEPT ![w] = k]
      /\ todo' = todo
      /\ gaveUp \ {job[w].key} \subseteq gaveUp'
      /\ k.key \in {j.key, NoKey}
  BY DEF Continue, Succeed, queueVars, NoJob
<1>2. JobOwn(k, todo', cachedRoots')
  <2>1. JobOwn(job[w], todo, cachedRoots)
    BY DEF LInv, JobsOwn
  <2>2. QED
    BY <1>1, <2>1, NoJobOwn DEF JobOwn
<1>3. JobsOwn'
  BY <1>1, <1>2, JobsOwnAfter
<1>4. ASSUME NEW r \in Roots PROVE RootServed(r)'
  <2>1. CASE r = j.key
    <3>1. \A v \in Workers : v # w => job'[v].key # r
      BY <1>1, <2>1, OwnKey DEF IInv, TypeOK
    <3>2. job'[w] = k
      BY <1>1 DEF IInv, TypeOK
    <3>3. Heard(r)' => j.rules = cachedRoots'[r].rules
      BY <1>1, <2>1 DEF IInv, JobsTracked, JobTracked, Heard
    <3>4. CASE j.at = "idle"
      <4>1. \A v \in Workers : job'[v].key # r
        BY <3>1, <3>2, <3>4, Disjoint DEF NoJob
      <4>2. QED
        BY <2>1, <3>3, <3>4, <4>1 DEF RootServed
    <3>5. CASE j.at # "idle"
      <4>1. r \in Busy'
        BY <2>1, <3>2, <3>5, Disjoint DEF Busy
      <4>2. ASSUME Heard(r)', NEW v \in Workers, job'[v].key = r PROVE JobServes(job[v])'
        BY <2>1, <3>1, <3>2, <3>5, <4>2
      <4>3. QED
        BY <4>1, <4>2 DEF RootServed
    <3>6. QED
      BY <3>4, <3>5
  <2>2. CASE r # j.key
    <3>1. \A c \in Clusters : <<r, c>> \in Leaves /\ <<r, c>>[1] = r
      BY DEF Leaves
    <3>2. r # k.key
      BY <1>1, <2>2, Disjoint
    <3> HIDE DEF k
    <3>3. QED
      BY <1>1, <2>2, <3>1, <3>2, OthersServed
  <2>3. QED
    BY <2>1, <2>2
<1>5. QED
  BY <1>3, <1>4 DEF LInv

\* The elements of a sequence that grew at its end.
LEMMA AppendRange ==
  ASSUME NEW S, NEW q \in Seq(S), NEW x \in S
  PROVE  /\ Append(q, x) \in Seq(S)
         /\ Range(Append(q, x)) = Range(q) \union {x}
<1>1. /\ Append(q, x) \in Seq(S)
      /\ DOMAIN Append(q, x) = 1 .. Len(q) + 1
      /\ DOMAIN q = 1 .. Len(q)
      /\ Len(q) \in Nat
      /\ \A i \in 1 .. Len(q) : Append(q, x)[i] = q[i]
      /\ Append(q, x)[Len(q) + 1] = x
  OBVIOUS
<1>2. QED
  BY <1>1 DEF Range

\* The elements of the tail are among those of the sequence, and so is the head.
LEMMA RangeOfTail ==
  ASSUME NEW S, NEW q \in Seq(S), q # <<>>
  PROVE  Head(q) \in Range(q) /\ Range(Tail(q)) \subseteq Range(q)
<1>1. /\ Len(q) \in Nat \ {0}
      /\ Head(q) = q[1]
      /\ DOMAIN q = 1 .. Len(q)
      /\ DOMAIN Tail(q) = 1 .. Len(q) - 1
      /\ \A i \in 1 .. Len(q) - 1 : Tail(q)[i] = q[i + 1]
  OBVIOUS
<1>2. QED
  BY <1>1 DEF Range

\* The job's next write.
LEMMA WriteStepGoesOn ==
  ASSUME IInv, LInv, NEW w \in Workers, NEW j \in Job,
         job[w].at # "idle", job[w].key \in Roots, Continue(w, WriteStep(j)),
         j.key = job[w].key, j.rules = job[w].rules, j.host = job[w].host,
         \A l \in Range(j.want) : l[1] = j.key,
         UNCHANGED <<services, cachedRoots, svcEvents>>,
         overlooked \subseteq overlooked',
         \A l \in Leaves : l[1] # j.key /\ l[1] \notin overlooked' => leaves'[l] = leaves[l],
         Heard(j.key)' =>
           \/ \A s \in Range(j.rules) : Planned(j.key, s, j.want)'
           \/ /\ j.drop = {}
              /\ \A s \in Range(j.rules) : Planned(j.key, s, j.want)' \/ Served(j.key, s)'
  PROVE  LInv'
<1> PICK k : k = WriteStep(j)
  OBVIOUS
<1>1. /\ k \in Job /\ k.at \in {"delete", "create", "idle"}
      /\ k.key = j.key /\ k.rules = j.rules /\ k.host = j.host /\ k.want = j.want
      /\ k.at = "create" => k.drop = {}
  BY WriteStepJob DEF WriteStep, Job
<1>2. Heard(k.key)' => IF k.at = "idle" THEN \A s \in Range(k.rules) : Served(k.key, s)'
                                        ELSE JobServes(k)'
  BY <1>1, WriteStepServes
<1>3. QED
  BY <1>1, <1>2, GoesOn

LEMMA RootJob ==
  ASSUME IInv, LInv, NEW w \in Workers, job[w].at \in RootSteps
  PROVE  /\ job[w] \in Job /\ job[w].key \in Roots /\ job[w].at # "idle"
         /\ JobOwn(job[w], todo, cachedRoots)
         /\ RootServed(job[w].key)
         /\ JobShape(job[w])
<1>1. job[w].at # "idle" /\ JobShape(job[w])
  BY DEF RootSteps, IInv, JobsShaped
<1>2. job[w].key \in Roots
  BY <1>1 DEF JobShape
<1>3. QED
  BY <1>1, <1>2, OwnKey DEF LInv, JobsOwn

LEMMA PatchLInv == ASSUME IInv, LInv, NEW w \in Workers, Patch(w) PROVE LInv'
<1>1. /\ job[w].at = "patch"
      /\ UNCHANGED <<leaves, services, cachedRoots, svcEvents, overlooked>>
      /\ \/ job' = [job EXCEPT ![w] = [job[w] EXCEPT !.at = "list"]] /\ UNCHANGED queueVars
         \/ Fail(w)
  BY DEF Patch, outsideVars, IInv, TypeOK
<1>2. CASE Fail(w)
  BY <1>1, <1>2, FailServed
<1>3. CASE job' = [job EXCEPT ![w] = [job[w] EXCEPT !.at = "list"]] /\ UNCHANGED queueVars
  <2>1. job[w] \in Job /\ job[w].key \in Roots /\ job[w].at # "idle"
        /\ JobOwn(job[w], todo, cachedRoots)
    BY <1>1, RootJob DEF RootSteps
  <2> PICK j : j = [job[w] EXCEPT !.at = "list"]
    OBVIOUS
  <2>2. /\ j \in Job /\ j.at = "list"
        /\ j.key = job[w].key /\ j.rules = job[w].rules /\ j.host = job[w].host
        /\ j.want = job[w].want
    BY <2>1 DEF Job, RootSteps
  <2>3. Continue(w, j)
    BY <1>3, <2>2 DEF Continue
  <2>4. JobServes(j)'
    BY <2>2 DEF JobServes
  <2>5. QED
    BY <1>1, <2>1, <2>2, <2>3, <2>4, GoesOn DEF JobOwn
<1>4. QED
  BY <1>1, <1>2, <1>3

LEMMA ListLInv == ASSUME IInv, LInv, NEW w \in Workers, List(w) PROVE LInv'
<1> PICK j : j = [job[w] EXCEPT !.drop = LeavesOwnedBy(job[w].key), !.left = job[w].rules]
  OBVIOUS
<1> DEFINE k == IF j.left = <<>> THEN WriteStep(j) ELSE [j EXCEPT !.at = "get"]
<1>1. /\ job[w].at = "list"
      /\ Continue(w, k)
      /\ UNCHANGED <<leaves, services, cachedRoots, svcEvents, overlooked>>
  BY DEF List, apiVars, informerVars, outsideVars
<1>2. job[w] \in Job /\ job[w].key \in Roots /\ job[w].at # "idle"
      /\ JobOwn(job[w], todo, cachedRoots)
  BY <1>1, RootJob DEF RootSteps
<1>3. /\ j \in Job
      /\ j.key = job[w].key /\ j.rules = job[w].rules /\ j.left = job[w].rules
      /\ j.host = job[w].host /\ j.want = job[w].want
  BY <1>2 DEF Job, LeavesOwnedBy
<1>4. CASE j.left = <<>>
  <2>1. Range(j.rules) = {}
    BY <1>3, <1>4 DEF Range
  <2>2. \A s \in Range(j.rules) : Planned(j.key, s, j.want)'
    BY <2>1
  <2>3. QED
    BY <1>1, <1>2, <1>3, <1>4, <2>2, WriteStepGoesOn DEF JobOwn
<1>5. CASE j.left # <<>>
  <2> PICK g : g = [j EXCEPT !.at = "get"]
    OBVIOUS
  <2>1. /\ g \in Job /\ g.at = "get"
        /\ g.key = j.key /\ g.rules = j.rules /\ g.host = j.host /\ g.want = j.want
        /\ g.left = j.rules
    BY <1>3 DEF Job, RootSteps
  <2>2. JobServes(g)'
    BY <2>1 DEF JobServes
  <2>3. Continue(w, g)
    BY <1>1, <1>5
  <2>4. \A l \in Range(g.want) : l[1] = g.key
    BY <1>2, <1>3, <2>1 DEF JobOwn
  <2> HIDE DEF k
  <2>5. QED
    BY <1>1, <1>2, <1>3, <2>1, <2>2, <2>3, <2>4, GoesOn
<1>6. QED
  BY <1>4, <1>5

LEMMA GetServiceLInv == ASSUME IInv, LInv, NEW w \in Workers, GetService(w) PROVE LInv'
<1> PICK j : j = job[w]
  OBVIOUS
<1> DEFINE s == Head(j.left)
           desired == IF services[s] \in Clusters
                      THEN Append(j.want, <<j.key, services[s]>>) ELSE j.want
           next == IF Len(j.left) > 1
                   THEN [j EXCEPT !.left = Tail(j.left), !.want = desired]
                   ELSE [j EXCEPT !.left = j.rules, !.want = desired, !.at = "track"]
<1>1. /\ j.at = "get"
      /\ UNCHANGED <<leaves, services, cachedRoots, svcEvents, overlooked>>
      /\ \/ /\ services[s] # Missing
            /\ job' = [job EXCEPT ![w] = next]
            /\ UNCHANGED queueVars
         \/ Fail(w)
  BY DEF GetService, apiVars, informerVars, outsideVars
<1>2. /\ j \in Job /\ j.key \in Roots /\ j.left # <<>>
      /\ JobOwn(j, todo, cachedRoots) /\ RootServed(j.key)
  BY <1>1, RootJob DEF RootSteps, JobShape
<1>3. CASE Fail(w)
  BY <1>1, <1>3, FailServed
<1>4. CASE /\ services[s] # Missing
           /\ job' = [job EXCEPT ![w] = next]
           /\ UNCHANGED queueVars
  <2>1. /\ j.left \in Seq(Services) /\ j.want \in Seq(Leaves) /\ j.rules \in Seq(Services)
        /\ services[s] \in Clusters => <<j.key, services[s]>> \in Leaves
    BY <1>2 DEF Job, Leaves
  <2>2. /\ Tail(j.left) \in Seq(Services)
        /\ Len(j.left) \in Nat \ {0}
        /\ \A x \in Range(j.left) : x = s \/ x \in Range(Tail(j.left))
    BY <1>2, <2>1, RangeTail
  <2>3. ~ (Len(j.left) > 1) => Range(Tail(j.left)) = {}
    BY <2>1, <2>2 DEF Range
  <2>4. /\ desired \in Seq(Leaves)
        /\ \A l \in Range(j.want) : l \in Range(desired)
        /\ \A l \in Range(desired) : l \in Range(j.want) \/ l = <<j.key, services[s]>>
        /\ services[s] \in Clusters => <<j.key, services[s]>> \in Range(desired)
    <3>1. CASE services[s] \in Clusters
      <4>1. desired = Append(j.want, <<j.key, services[s]>>)
        BY <3>1
      <4> PICK x \in Leaves : x = <<j.key, services[s]>>
        BY <2>1, <3>1
      <4> HIDE DEF desired, s, next
      <4>2. j.want \in Seq(Leaves)
        BY <2>1
      <4>3. /\ Append(j.want, x) \in Seq(Leaves)
            /\ Range(Append(j.want, x)) = Range(j.want) \union {x}
        BY <4>2, AppendRange
      <4>4. QED
        BY <4>1, <4>3
    <3>2. CASE services[s] \notin Clusters
      BY <2>1, <3>2
    <3>3. QED
      BY <3>1, <3>2
  <2> PICK k : k = next
    OBVIOUS
  <2> HIDE DEF desired
  <2>5. /\ k \in Job /\ k.at \in {"get", "track"}
        /\ k.key = j.key /\ k.rules = j.rules /\ k.host = j.host /\ k.want = desired
        /\ k.at = "get" => k.left = Tail(j.left)
        /\ k.at = "track" => Range(Tail(j.left)) = {}
    BY <1>1, <1>2, <2>1, <2>2, <2>3, <2>4 DEF Job, RootSteps
  <2>6. Continue(w, k)
    BY <1>4, <2>5 DEF Continue
  <2>7. \A l \in Range(k.want) : l[1] = k.key
    BY <1>2, <2>4, <2>5 DEF JobOwn
  <2>8. ASSUME Heard(k.key)' PROVE JobServes(k)'
    <3>1. Heard(j.key)
      BY <1>1, <1>4, <2>5, <2>8 DEF Heard, queueVars
    <3>2. \A x \in Range(j.rules) \ Range(j.left) : Planned(j.key, x, j.want)
      BY <1>1, <1>2, <3>1 DEF RootServed, JobServes
    <3>3. \A x \in Range(j.rules) \ Range(Tail(j.left)) : Planned(j.key, x, desired)
      BY <1>4, <2>2, <2>4, <3>2 DEF Planned
    <3>4. \A x \in Range(k.rules) \ Range(Tail(j.left)) : Planned(k.key, x, k.want)'
      BY <1>1, <2>5, <3>3 DEF Planned
    <3>5. QED
      BY <2>5, <3>4 DEF JobServes
  <2>9. QED
    BY <1>1, <1>2, <2>5, <2>6, <2>7, <2>8, GoesOn
<1>5. QED
  BY <1>1, <1>3, <1>4

LEMMA TrackLInv == ASSUME IInv, LInv, NEW w \in Workers, Track(w) PROVE LInv'
<1> PICK j : j = job[w]
  OBVIOUS
<1> PICK next : next = [j EXCEPT !.left = Tail(j.left)]
  OBVIOUS
<1> PICK done : done = [j EXCEPT !.left = <<>>, !.drop = NotDesired(j.drop, j.want)]
  OBVIOUS
<1>1. /\ j.at = "track"
      /\ UNCHANGED <<leaves, services, cachedRoots, svcEvents, overlooked>>
      /\ Continue(w, next) \/ Continue(w, WriteStep(done))
  BY DEF Track, apiVars, informerVars, outsideVars
<1>2. /\ j \in Job /\ j.key \in Roots /\ j.left # <<>>
      /\ JobOwn(j, todo, cachedRoots) /\ RootServed(j.key)
  BY <1>1, RootJob DEF RootSteps, JobShape
<1>3. ASSUME Heard(j.key)' PROVE \A s \in Range(j.rules) : Planned(j.key, s, j.want)'
  <2>1. Heard(j.key)
    BY <1>1, <1>3 DEF Heard, Continue, Succeed, queueVars
  <2>2. \A s \in Range(j.rules) : Planned(j.key, s, j.want)
    BY <1>1, <1>2, <2>1 DEF RootServed, JobServes
  <2>3. QED
    BY <1>1, <2>2 DEF Planned
<1>4. CASE Continue(w, next)
  <2>1. Tail(j.left) \in Seq(Services)
    <3>1. j.left \in Seq(Services)
      BY <1>2 DEF Job
    <3>2. QED
      BY <1>2, <3>1, RangeTail
  <2>2. /\ next \in Job /\ next.at = "track"
        /\ next.key = j.key /\ next.rules = j.rules /\ next.host = j.host /\ next.want = j.want
    BY <1>1, <1>2, <2>1 DEF Job
  <2>3. Heard(next.key)' => JobServes(next)'
    BY <1>3, <2>2 DEF JobServes
  <2>4. \A l \in Range(next.want) : l[1] = next.key
    BY <1>2, <2>2 DEF JobOwn
  <2>5. QED
    BY <1>1, <1>2, <1>4, <2>2, <2>3, <2>4, GoesOn
<1>5. CASE Continue(w, WriteStep(done))
  <2>1. /\ done \in Job
        /\ done.key = j.key /\ done.rules = j.rules /\ done.host = j.host /\ done.want = j.want
    <3>1. <<>> \in Seq(Services) /\ NotDesired(j.drop, j.want) \in SUBSET Leaves
      BY <1>2 DEF Job, NotDesired
    <3>2. QED
      BY <1>2, <3>1 DEF Job
  <2>2. \A l \in Range(done.want) : l[1] = done.key
    BY <1>2, <2>1 DEF JobOwn
  <2>3. QED
    BY <1>1, <1>2, <1>3, <1>5, <2>1, <2>2, WriteStepGoesOn
<1>6. QED
  BY <1>1, <1>4, <1>5

\* What a write to a leaf leaves behind.
LEMMA LeafAfter ==
  ASSUME TypeOK, NEW l \in Leaves, NEW obj \in LeafObject, WriteLeaf(l, obj)
  PROVE  /\ \A o \in Leaves : o # l => leaves'[o] = leaves[o]
         /\ leaves'[l].live = obj.live /\ leaves'[l].deleting = obj.deleting
         /\ leaves'[l].rules = obj.rules /\ leaves'[l].host = obj.host
         /\ leaves'[l].lb = obj.lb
<1>1. CASE obj = leaves[l]
  BY <1>1 DEF WriteLeaf
<1>2. CASE obj # leaves[l]
  <2>1. leaves' = [leaves EXCEPT ![l] = [obj EXCEPT !.rv = @ + 1]]
    BY <1>2 DEF WriteLeaf
  <2>2. QED
    BY <2>1 DEF TypeOK, LeafObject
<1>3. QED
  BY <1>1, <1>2

LEMMA DeleteLeafLInv == ASSUME IInv, LInv, NEW w \in Workers, DeleteLeaf(w) PROVE LInv'
<1> PICK j : j = job[w]
  OBVIOUS
<1>1. /\ j.at = "delete"
      /\ UNCHANGED <<services, cachedRoots, svcEvents>>
  BY DEF DeleteLeaf
<1>2. PICK l \in j.drop :
        \/ /\ DeleteLeafObject(l)
           /\ Continue(w, WriteStep([j EXCEPT !.drop = @ \ {l}]))
           /\ overlooked' = overlooked \union ({l[1]} \ {j.key})
        \/ Fail(w) /\ UNCHANGED <<leaves, overlooked>>
  BY DEF DeleteLeaf
<1>3. /\ j \in Job /\ j.key \in Roots /\ l \in Leaves
      /\ JobOwn(j, todo, cachedRoots) /\ RootServed(j.key)
  BY <1>1, RootJob DEF RootSteps, Job
<1>4. CASE Fail(w) /\ UNCHANGED <<leaves, overlooked>>
  BY <1>1, <1>4, FailServed
<1>5. CASE /\ DeleteLeafObject(l)
           /\ Continue(w, WriteStep([j EXCEPT !.drop = @ \ {l}]))
           /\ overlooked' = overlooked \union ({l[1]} \ {j.key})
  <2> PICK k : k = [j EXCEPT !.drop = @ \ {l}]
    OBVIOUS
  <2>1. /\ k \in Job
        /\ k.key = j.key /\ k.rules = j.rules /\ k.host = j.host /\ k.want = j.want
    BY <1>3 DEF Job
  <2>2. \A o \in Leaves : o # l => leaves'[o] = leaves[o]
    BY <1>5 DEF DeleteLeafObject, WriteLeaf, IInv, TypeOK
  <2>3. \A o \in Leaves : o[1] # k.key /\ o[1] \notin overlooked' => leaves'[o] = leaves[o]
    BY <1>5, <2>1, <2>2
  <2>4. ASSUME Heard(k.key)' PROVE \A s \in Range(k.rules) : Planned(k.key, s, k.want)'
    <3>1. Heard(j.key)
      BY <1>1, <1>5, <2>1, <2>4 DEF Heard, Continue, Succeed, queueVars
    <3>2. \A s \in Range(j.rules) : Planned(j.key, s, j.want)
      BY <1>1, <1>3, <3>1 DEF RootServed, JobServes
    <3>3. QED
      BY <1>1, <2>1, <3>2 DEF Planned
  <2>5. \A o \in Range(k.want) : o[1] = k.key
    BY <1>3, <2>1 DEF JobOwn
  <2>6. /\ Continue(w, WriteStep(k)) /\ overlooked \subseteq overlooked'
        /\ job[w].at # "idle" /\ job[w].key \in Roots
        /\ k.key = job[w].key /\ k.rules = job[w].rules /\ k.host = job[w].host
    BY <1>1, <1>3, <1>5, <2>1
  <2>7. QED
    BY <1>1, <2>1, <2>3, <2>4, <2>5, <2>6, WriteStepGoesOn
<1>6. QED
  BY <1>2, <1>4, <1>5

\* A leaf the job wants is written as the root wants it, unless that root is
\* overlooked from then on; the job goes on to its next write.
LEMMA WantedWritten ==
  ASSUME IInv, LInv, NEW w \in Workers, NEW j \in Job, NEW k \in Job, NEW obj \in LeafObject,
         j = job[w], j.at \in {"create", "update"}, j.key \in Roots, j.want # <<>>,
         k.key = j.key, k.rules = j.rules, k.host = j.host, k.drop = j.drop,
         k.want = Tail(j.want),
         WriteLeaf(Head(j.want), obj), Continue(w, WriteStep(k)),
         UNCHANGED <<services, cachedRoots, svcEvents>>,
         overlooked \subseteq overlooked',
         \/ j.key \in overlooked'
         \/ obj.live /\ ~ obj.deleting /\ obj.rules = j.rules /\ obj.host = j.host
  PROVE  LInv'
<1> PICK l : l = Head(j.want)
  OBVIOUS
<1>1. /\ JobOwn(j, todo, cachedRoots) /\ RootServed(j.key)
      /\ job[w].at # "idle" /\ job[w].key \in Roots
  BY RootJob DEF RootSteps
<1>2. /\ l \in Leaves
      /\ \A o \in Range(j.want) : o = l \/ o \in Range(k.want)
      /\ Range(k.want) \subseteq Range(j.want)
      /\ l \in Range(j.want)
  <2>1. j.want \in Seq(Leaves)
    BY DEF Job
  <2>2. QED
    BY <2>1, RangeTail, RangeOfTail
<1>3. l[1] = j.key /\ \A o \in Range(k.want) : o[1] = k.key
  BY <1>1, <1>2 DEF JobOwn
<1>4. /\ \A o \in Leaves : o # l => leaves'[o] = leaves[o]
      /\ leaves'[l].live = obj.live /\ leaves'[l].deleting = obj.deleting
      /\ leaves'[l].rules = obj.rules /\ leaves'[l].host = obj.host
  <2>1. TypeOK /\ WriteLeaf(l, obj)
    BY DEF IInv
  <2>2. QED
    BY <1>2, <2>1, LeafAfter
<1>5. ASSUME Heard(k.key)'
      PROVE  /\ k.drop = {}
             /\ \A s \in Range(k.rules) : Planned(k.key, s, k.want)' \/ Served(k.key, s)'
  <2>1. Heard(j.key) /\ j.key \notin overlooked'
    BY <1>5 DEF Heard, Continue, Succeed, queueVars
  <2>2. /\ \A s \in Range(j.rules) : Planned(j.key, s, j.want) \/ Served(j.key, s)
        /\ j.host = cachedRoots[j.key].host /\ j.rules = cachedRoots[j.key].rules
        /\ j.drop = {}
    BY <1>1, <2>1 DEF RootServed, JobServes, JobOwn, Heard, IInv, JobsTracked, JobTracked
  <2>3. Current(l)'
    BY <1>3, <1>4, <2>1, <2>2 DEF Current
  <2>4. ASSUME NEW s \in Range(j.rules), Served(j.key, s) PROVE Served(j.key, s)'
    <3>1. ASSUME services[s] \in Clusters PROVE Current(<<j.key, services[s]>>)'
      <4>1. <<j.key, services[s]>> \in Leaves /\ Current(<<j.key, services[s]>>)
        BY <1>1, <2>4, <3>1 DEF Served, Leaves
      <4>2. CASE <<j.key, services[s]>> = l
        BY <2>3, <4>2
      <4>3. CASE <<j.key, services[s]>> # l
        BY <1>4, <4>1, <4>3 DEF Current
      <4>4. QED
        BY <4>2, <4>3
    <3>2. QED
      BY <2>4, <3>1 DEF Served
  <2>5. ASSUME NEW s \in Range(j.rules), Planned(j.key, s, j.want)
        PROVE  Planned(j.key, s, k.want)' \/ Served(j.key, s)'
    BY <1>2, <2>3, <2>5 DEF Planned, Served
  <2>6. QED
    BY <2>2, <2>4, <2>5
<1>6. \A o \in Leaves : o[1] # k.key /\ o[1] \notin overlooked' => leaves'[o] = leaves[o]
  BY <1>3, <1>4
<1>7. QED
  BY <1>1, <1>3, <1>5, <1>6, WriteStepGoesOn

\* A job on a root looks at the next leaf it wants.
LEMMA WantedSeen ==
  ASSUME IInv, LInv, NEW w \in Workers, NEW k \in Job,
         job[w].at \in {"create", "read"}, k.at \in {"read", "update"},
         k.key = job[w].key, k.rules = job[w].rules, k.host = job[w].host,
         k.drop = job[w].drop, k.want = job[w].want,
         job' = [job EXCEPT ![w] = k],
         UNCHANGED <<leaves, services, cachedRoots, svcEvents, overlooked, queueVars>>
  PROVE  LInv'
<1>1. /\ job[w].key \in Roots /\ job[w].at # "idle"
      /\ JobOwn(job[w], todo, cachedRoots) /\ RootServed(job[w].key)
  BY RootJob DEF RootSteps
<1>2. Continue(w, k)
  BY DEF Continue
<1>3. ASSUME Heard(k.key)' PROVE JobServes(k)'
  <2>1. Heard(k.key)
    BY <1>3 DEF Heard, queueVars
  <2>2. \A s \in Range(k.rules) : Planned(k.key, s, k.want) \/ Served(k.key, s)
    BY <1>1, <2>1 DEF RootServed, JobServes
  <2>3. QED
    BY <2>2 DEF JobServes, Planned, Served, Current
<1>4. QED
  BY <1>1, <1>2, <1>3, GoesOn DEF JobOwn

LEMMA CreateLeafLInv == ASSUME IInv, LInv, NEW w \in Workers, CreateLeaf(w) PROVE LInv'
<1> PICK j : j = job[w]
  OBVIOUS
<1> PICK l : l = Head(j.want)
  OBVIOUS
<1> PICK done : done = [j EXCEPT !.want = Tail(@)]
  OBVIOUS
<1> PICK read : read = [j EXCEPT !.at = "read"]
  OBVIOUS
<1> PICK new : new = [NoLeaf(leaves[l].rv) EXCEPT !.live = TRUE, !.host = j.host, !.rules = j.rules]
  OBVIOUS
<1>1. /\ j.at = "create"
      /\ UNCHANGED <<services, cachedRoots, svcEvents, overlooked>>
      /\ \/ WriteLeaf(l, new) /\ Continue(w, WriteStep(done))
         \/ job' = [job EXCEPT ![w] = read] /\ UNCHANGED <<leaves, queueVars>>
  BY DEF CreateLeaf, outsideVars
<1>2. j \in Job /\ j.key \in Roots /\ j.want # <<>>
  BY <1>1, RootJob DEF RootSteps, JobShape
<1>3. l \in Leaves /\ Tail(j.want) \in Seq(Leaves)
  <2>1. j.want \in Seq(Leaves)
    BY <1>2 DEF Job
  <2>2. QED
    BY <1>2, <2>1, RangeTail
<1>4. CASE WriteLeaf(l, new) /\ Continue(w, WriteStep(done))
  <2>1. /\ done \in Job /\ done.key = j.key /\ done.rules = j.rules /\ done.host = j.host
        /\ done.drop = j.drop /\ done.want = Tail(j.want)
    BY <1>2, <1>3 DEF Job
  <2>2. /\ new \in LeafObject
        /\ new.live /\ ~ new.deleting /\ new.rules = j.rules /\ new.host = j.host
    <3>1. leaves[l].rv \in Nat /\ j.host \in Hostname /\ j.rules \in Seq(Services)
      BY <1>2, <1>3 DEF IInv, TypeOK, LeafObject, Job
    <3>2. QED
      BY <3>1 DEF NoLeaf, LeafObject
  <2>3. QED
    BY <1>1, <1>2, <1>4, <2>1, <2>2, WantedWritten
<1>5. CASE job' = [job EXCEPT ![w] = read] /\ UNCHANGED <<leaves, queueVars>>
  <2>1. /\ read \in Job /\ read.at = "read"
        /\ read.key = j.key /\ read.rules = j.rules /\ read.host = j.host
        /\ read.drop = j.drop /\ read.want = j.want
    BY <1>2 DEF Job, RootSteps
  <2>2. QED
    BY <1>1, <1>5, <2>1, WantedSeen
<1>6. QED
  BY <1>1, <1>4, <1>5

LEMMA ReadLeafLInv == ASSUME IInv, LInv, NEW w \in Workers, ReadLeaf(w) PROVE LInv'
<1> PICK j : j = job[w]
  OBVIOUS
<1> PICK l : l = Head(j.want)
  OBVIOUS
<1> PICK k : k = [j EXCEPT !.at = "update", !.rv = leaves[l].rv]
  OBVIOUS
<1>1. /\ j.at = "read"
      /\ UNCHANGED <<leaves, services, cachedRoots, svcEvents, overlooked>>
      /\ \/ job' = [job EXCEPT ![w] = k] /\ UNCHANGED queueVars
         \/ Fail(w)
  BY DEF ReadLeaf, apiVars, informerVars, outsideVars, IInv, TypeOK
<1>2. j \in Job /\ j.key \in Roots /\ j.want # <<>>
  BY <1>1, RootJob DEF RootSteps, JobShape
<1>3. CASE Fail(w)
  BY <1>1, <1>3, FailServed
<1>4. CASE job' = [job EXCEPT ![w] = k] /\ UNCHANGED queueVars
  <2>1. leaves[l].rv \in Nat
    <3>1. j.want \in Seq(Leaves)
      BY <1>2 DEF Job
    <3>2. l \in Leaves
      BY <1>2, <3>1, RangeTail
    <3>3. QED
      BY <3>2 DEF IInv, TypeOK, LeafObject
  <2>2. /\ k \in Job /\ k.at = "update"
        /\ k.key = j.key /\ k.rules = j.rules /\ k.host = j.host
        /\ k.drop = j.drop /\ k.want = j.want
    BY <1>2, <2>1 DEF Job, RootSteps
  <2>3. QED
    BY <1>1, <1>4, <2>2, WantedSeen
<1>5. QED
  BY <1>1, <1>3, <1>4

LEMMA UpdateLeafLInv == ASSUME IInv, LInv, NEW w \in Workers, UpdateLeaf(w) PROVE LInv'
<1> PICK j : j = job[w]
  OBVIOUS
<1> PICK l : l = Head(j.want)
  OBVIOUS
<1> PICK updated :
      updated = [leaves[l] EXCEPT !.host = j.host, !.rules = j.rules, !.pinned = FALSE]
  OBVIOUS
<1> PICK obj : obj = IF leaves[l].deleting THEN NoLeaf(j.rv) ELSE updated
  OBVIOUS
<1> PICK done : done = [j EXCEPT !.want = Tail(@), !.rv = 0]
  OBVIOUS
<1>1. /\ j.at = "update"
      /\ UNCHANGED <<services, cachedRoots, svcEvents>>
      /\ \/ /\ leaves[l].live
            /\ WriteLeaf(l, obj)
            /\ Continue(w, WriteStep(done))
            /\ overlooked' = IF leaves[l].deleting THEN overlooked \union {l[1]} ELSE overlooked
         \/ Fail(w) /\ UNCHANGED <<leaves, overlooked>>
  BY DEF UpdateLeaf
<1>2. /\ j \in Job /\ j.key \in Roots /\ j.want # <<>>
      /\ JobOwn(j, todo, cachedRoots)
  BY <1>1, RootJob DEF RootSteps, JobShape
<1>3. l \in Leaves /\ Tail(j.want) \in Seq(Leaves) /\ l[1] = j.key
  <2>1. j.want \in Seq(Leaves)
    BY <1>2 DEF Job
  <2>2. l \in Range(j.want)
    BY <1>2, <2>1, RangeOfTail
  <2>3. QED
    BY <1>2, <2>1, <2>2, RangeTail DEF JobOwn
<1>4. CASE Fail(w) /\ UNCHANGED <<leaves, overlooked>>
  BY <1>1, <1>4, FailServed
<1>5. CASE /\ leaves[l].live
           /\ WriteLeaf(l, obj)
           /\ Continue(w, WriteStep(done))
           /\ overlooked' = IF leaves[l].deleting THEN overlooked \union {l[1]} ELSE overlooked
  <2>1. /\ done \in Job /\ done.key = j.key /\ done.rules = j.rules /\ done.host = j.host
        /\ done.drop = j.drop /\ done.want = Tail(j.want)
    BY <1>2, <1>3 DEF Job
  <2>2. /\ updated \in LeafObject
        /\ updated.live = leaves[l].live /\ updated.deleting = leaves[l].deleting
        /\ updated.rules = j.rules /\ updated.host = j.host
    <3>1. leaves[l] \in LeafObject /\ j.host \in Hostname /\ j.rules \in Seq(Services)
      BY <1>2, <1>3 DEF IInv, TypeOK, Job
    <3>2. QED
      BY <3>1 DEF LeafObject
  <2>3. NoLeaf(j.rv) \in LeafObject
    BY <1>2, NoObjects DEF Job
  <2>4. /\ obj \in LeafObject
        /\ overlooked \subseteq overlooked'
        /\ \/ j.key \in overlooked'
           \/ obj.live /\ ~ obj.deleting /\ obj.rules = j.rules /\ obj.host = j.host
    BY <1>3, <1>5, <2>2, <2>3
  <2>5. QED
    BY <1>1, <1>2, <1>5, <2>1, <2>4, WantedWritten
<1>6. QED
  BY <1>1, <1>4, <1>5

-----------------------------------------------------------------------------
(* The steps of a worker on a leaf, and the faults. *)

LEMMA LeafJob ==
  ASSUME IInv, NEW w \in Workers, job[w].at \in LeafSteps
  PROVE  job[w] \in Job /\ job[w].key \in Leaves /\ job[w].at # "idle"
BY OwnKey DEF LeafSteps, IInv, JobsShaped, JobShape

LEMMA ReadRootLInv == ASSUME IInv, LInv, NEW w \in Workers, ReadRoot(w) PROVE LInv'
<1> PICK k : k = [job[w] EXCEPT !.at = "dns",
                                !.host = cachedRoots[job[w].key[1]].host,
                                !.rv = cachedRoots[job[w].key[1]].rv]
  OBVIOUS
<1>1. /\ job[w].at = "root"
      /\ UNCHANGED <<leaves, services, cachedRoots, svcEvents, overlooked>>
      /\ \/ job' = [job EXCEPT ![w] = k] /\ UNCHANGED queueVars
         \/ Fail(w)
  BY DEF ReadRoot, apiVars, informerVars, outsideVars, IInv, TypeOK
<1>2. job[w] \in Job /\ job[w].key \in Leaves /\ job[w].at # "idle"
  BY <1>1, LeafJob DEF LeafSteps
<1>3. k.key = job[w].key
  BY <1>2 DEF Job
<1>4. QED
  BY <1>1, <1>2, <1>3, FailServed, LeafJobGoesOn DEF queueVars

LEMMA ReconcileDNSLInv == ASSUME IInv, LInv, NEW w \in Workers, ReconcileDNS(w) PROVE LInv'
<1> PICK k : k = [job[w] EXCEPT !.at = "status"]
  OBVIOUS
<1>1. /\ job[w].at = "dns"
      /\ UNCHANGED <<leaves, services, cachedRoots, svcEvents, overlooked, todo, gaveUp>>
      /\ job' = [job EXCEPT ![w] = k]
  BY DEF ReconcileDNS, informerVars, outsideVars, queueVars, IInv, TypeOK
<1>2. job[w] \in Job /\ job[w].key \in Leaves /\ job[w].at # "idle"
  BY <1>1, LeafJob DEF LeafSteps
<1>3. k.key = job[w].key
  BY <1>2 DEF Job
<1>4. QED
  BY <1>1, <1>2, <1>3, LeafJobGoesOn

LEMMA UpdateStatusLInv == ASSUME IInv, LInv, NEW w \in Workers, UpdateStatus(w) PROVE LInv'
<1>1. /\ job[w].at = "status"
      /\ UNCHANGED <<leaves, services, cachedRoots, svcEvents, overlooked>>
      /\ Succeed(w, job[w].key) \/ RequeueAndForget(w) \/ Fail(w)
  BY DEF UpdateStatus, outsideVars
<1>2. job[w].key \in Leaves /\ job[w].at # "idle"
  BY <1>1, LeafJob DEF LeafSteps
<1>3. CASE Succeed(w, job[w].key) \/ RequeueAndForget(w)
  <2>1. /\ job' = [job EXCEPT ![w] = NoJob]
        /\ todo \subseteq todo' /\ gaveUp \ {job[w].key} \subseteq gaveUp'
    BY <1>3 DEF Succeed, RequeueAndForget
  <2>2. QED
    BY <1>1, <1>2, <2>1, LeafJobGoesOn
<1>4. QED
  BY <1>1, <1>2, <1>3, FailServed

LEMMA WorkerLInv == ASSUME IInv, LInv, NEW w \in Workers, Worker(w) PROVE LInv'
<1>1. ASSUME RejectRecord(w) PROVE LInv'
  BY <1>1, FailServed DEF RejectRecord, apiVars, informerVars, outsideVars
<1>2. QED
  BY <1>1, PatchLInv, ListLInv, GetServiceLInv, TrackLInv, DeleteLeafLInv, CreateLeafLInv,
     ReadLeafLInv, UpdateLeafLInv, ReadRootLInv, ReconcileDNSLInv, UpdateStatusLInv DEF Worker

LEMMA CallFailsLInv == ASSUME IInv, LInv, NEW w \in Workers, CallFails(w) PROVE LInv'
BY FailServed DEF CallFails, APISteps, RootSteps, apiVars, informerVars

-----------------------------------------------------------------------------
(* A worker takes a key. *)

LEMMA BeginLInv ==
  ASSUME IInv, LInv, NEW w \in Workers, NEW k \in Keys, Begin(w, k)
  PROVE  LInv'
<1>0. /\ Take(w, k)
      /\ job[w].key = NoKey /\ k # NoKey
      /\ \A v \in Workers : job[v].key # k
  BY ConstantsAssumption DEF Begin, ProcessDeleted, BeginRoot, BeginLeaf, Take, Busy,
                             IInv, JobsShaped, JobShape
<1>1. CASE ProcessDeleted(w, k)
  <2>1. /\ ~ InIndexer(k)
        /\ todo' = todo \ {k} /\ gaveUp' = gaveUp \ {k} /\ job' = job
        /\ UNCHANGED <<leaves, services, cachedRoots, svcEvents, overlooked>>
    BY <1>1 DEF ProcessDeleted, apiVars, informerVars, outsideVars
  <2>2. JobsOwn'
    BY <1>0, <2>1 DEF LInv, JobsOwn, JobOwn
  <2>3. ASSUME NEW r \in Roots PROVE RootServed(r)'
    <3>1. CASE r = k
      BY <2>1, <3>1 DEF RootServed, Heard, InIndexer
    <3>2. CASE r # k
      <4>1. Heard(r)' => Heard(r)
        BY <2>1, <3>2 DEF Heard
      <4>2. \A c \in Clusters : Current(<<r, c>>) => Current(<<r, c>>)'
        BY <2>1 DEF Current
      <4>3. RootServed(r) /\ (r \in gaveUp => r \in gaveUp')
        BY <2>1, <3>2 DEF LInv
      <4>4. QED
        BY <2>1, <4>1, <4>2, <4>3, Undisturbed
    <3>3. QED
      BY <3>1, <3>2
  <2>4. QED
    BY <2>2, <2>3 DEF LInv
<1>2. CASE k \in Roots /\ BeginRoot(w, k)
  <2> PICK j : j = [NoJob EXCEPT !.at = IF cachedRoots[k].host = NoHost THEN "patch" ELSE "list",
                                 !.key = k,
                                 !.host = cachedRoots[k].host,
                                 !.rules = cachedRoots[k].rules]
    OBVIOUS
  <2>1. /\ todo' = todo \ {k} /\ overlooked' = overlooked \ {k}
        /\ job' = [job EXCEPT ![w] = j]
        /\ UNCHANGED <<leaves, services, cachedRoots, svcEvents, gaveUp>>
    BY <1>2 DEF BeginRoot, apiVars, informerVars
  <2>2. /\ j.key = k /\ j.at \in {"patch", "list"} /\ j.want = <<>>
        /\ j.host = cachedRoots[k].host
    BY DEF NoJob
  <2>3. JobsOwn'
    <3>1. JobOwn(j, todo', cachedRoots')
      <4>1. Range(j.want) = {}
        BY <2>2 DEF Range
      <4>2. QED
        BY <2>1, <2>2, <4>1 DEF JobOwn
    <3>2. QED
      BY <1>0, <2>1, <3>1, JobsOwnAfter
  <2>4. ASSUME NEW r \in Roots PROVE RootServed(r)'
    <3>1. CASE r = k
      <4>1. /\ \A v \in Workers : job'[v].key = r => job'[v] = j
            /\ job'[w] = j
        BY <1>0, <2>1, <3>1 DEF IInv, TypeOK
      <4>2. r \in Busy'
        <5>1. job'[w].key = r /\ r # NoKey
          BY <1>0, <2>2, <3>1, <4>1
        <5>2. QED
          BY <5>1 DEF Busy
      <4>3. JobServes(j)'
        BY <2>2 DEF JobServes
      <4>4. ASSUME NEW v \in Workers, job'[v].key = r PROVE JobServes(job[v])'
        BY <4>1, <4>3, <4>4
      <4>5. QED
        BY <4>2, <4>4 DEF RootServed
    <3>2. CASE r # k
      <4>1. job[w].key # r /\ j.key # r
        BY <1>0, <2>2, <3>2, Disjoint
      <4>2. QED
        BY <2>1, <2>2, <4>1, OthersServed
    <3>3. QED
      BY <3>1, <3>2
  <2>5. QED
    BY <2>3, <2>4 DEF LInv
<1>3. CASE k \in Leaves /\ BeginLeaf(w, k)
  <2> PICK j : j = [NoJob EXCEPT !.at = "root",
                                 !.key = k,
                                 !.own = cachedLeaves[k].lb,
                                 !.deleting = cachedLeaves[k].deleting,
                                 !.lbs = UNION {cachedLeaves[o].lb : o \in LeavesOwnedBy(k[1])}]
    OBVIOUS
  <2>1. /\ todo' = todo \ {k}
        /\ job' = [job EXCEPT ![w] = j]
        /\ j.key = k
    <3>1. j.key = k
      BY DEF NoJob
    <3>2. QED
      BY <1>3, <3>1 DEF BeginLeaf
  <2>2. UNCHANGED <<leaves, services, cachedRoots, svcEvents, overlooked, gaveUp>>
    BY <1>3 DEF BeginLeaf, apiVars, informerVars, outsideVars
  <2>3. JobsOwn'
    BY <1>0, <1>3, <2>1, <2>2, Disjoint, JobsOwnAfter DEF JobOwn
  <2>4. \A r \in Roots : RootServed(r)'
    BY <1>0, <1>3, <2>1, <2>2, Disjoint, OthersServed
  <2>5. QED
    BY <2>3, <2>4 DEF LInv
<1>4. QED
  BY <1>1, <1>2, <1>3 DEF Begin

-----------------------------------------------------------------------------
(* The informers, the restart and the outside. *)

\* A step of nobody's job that disturbs only roots whose keys it adds, whose
\* Services have an event under way, or that the controller overlooks.
LEMMA JobsUntouched ==
  ASSUME IInv, LInv, UNCHANGED <<job, gaveUp>>, todo \subseteq todo',
         \A r \in Roots : r \notin todo' => cachedRoots'[r] = cachedRoots[r],
         \A r \in Roots : Heard(r)' =>
           /\ Heard(r)
           /\ \A s \in Range(cachedRoots[r].rules) :
                 services[s] # Missing => services'[s] = services[s]
           /\ \A c \in Clusters : Current(<<r, c>>) => Current(<<r, c>>)'
  PROVE  LInv'
<1>1. JobsOwn'
  BY DEF LInv, JobsOwn, JobOwn
<1>2. ASSUME NEW r \in Roots PROVE RootServed(r)'
  <2>1. RootServed(r) /\ (Heard(r)' => cachedRoots'[r] = cachedRoots[r])
    BY DEF LInv, Heard
  <2>2. QED
    BY <2>1, Undisturbed
<1>3. QED
  BY <1>1, <1>2 DEF LInv

LEMMA DeliverLInv == ASSUME IInv, LInv, Deliver PROVE LInv'
<1> PICK k : k = Head(events)
  OBVIOUS
<1>1. /\ cachedRoots' = IF k \in Roots THEN [cachedRoots EXCEPT ![k] = roots[k]] ELSE cachedRoots
      /\ todo' = todo \union {k}
      /\ UNCHANGED <<job, gaveUp, leaves, services, svcEvents, overlooked>>
  BY DEF Deliver, Enqueue, apiVars, outsideVars
<1>2. \A r \in Roots : r \notin todo' => cachedRoots'[r] = cachedRoots[r]
  BY <1>1 DEF IInv, TypeOK
<1>3. ASSUME NEW r \in Roots, Heard(r)'
      PROVE  Heard(r) /\ \A c \in Clusters : Current(<<r, c>>) => Current(<<r, c>>)'
  BY <1>1, <1>2, <1>3 DEF Heard, Current
<1>4. QED
  BY <1>1, <1>2, <1>3, JobsUntouched

LEMMA DeliverServiceLInv ==
  ASSUME IInv, LInv, NEW s \in Services, DeliverService(s)
  PROVE  LInv'
<1>1. /\ svcEvents' = svcEvents \ {s}
      /\ overlooked' = overlooked \union trackedServices[s]
                                   \union {r \in Roots : s \in Range(cachedRoots[r].rules)}
      /\ UNCHANGED <<todo, job, gaveUp, leaves, services, cachedRoots>>
  BY DEF DeliverService, queueVars, apiVars
<1>2. ASSUME NEW r \in Roots, Heard(r)'
      PROVE  Heard(r) /\ \A c \in Clusters : Current(<<r, c>>) => Current(<<r, c>>)'
  BY <1>1, <1>2 DEF Heard, Current
<1>3. QED
  BY <1>1, <1>2, JobsUntouched

\* A root that is no longer overlooked is owed: the loop has just enqueued it.
LEMMA EnqueueNextLInv == ASSUME IInv, LInv, EnqueueNext PROVE LInv'
<1>1. PICK q \in Roots : /\ todo' = todo \union {q} /\ overlooked' = overlooked \ {q}
                        /\ UNCHANGED <<job, gaveUp, leaves, services, cachedRoots, svcEvents>>
  BY DEF EnqueueNext, Enqueue, apiVars, informerVars
<1>2. ASSUME NEW r \in Roots, Heard(r)'
      PROVE  Heard(r) /\ \A c \in Clusters : Current(<<r, c>>) => Current(<<r, c>>)'
  BY <1>1, <1>2 DEF Heard, Current
<1>3. QED
  BY <1>1, <1>2, JobsUntouched

LEMMA ResyncLInv == ASSUME IInv, LInv, NEW k \in Keys, Resync(k) PROVE LInv'
<1>1. /\ todo' = todo \union {k}
      /\ UNCHANGED <<job, gaveUp, leaves, services, cachedRoots, svcEvents, overlooked>>
  BY DEF Resync, Enqueue, apiVars, informerVars, outsideVars
<1>2. ASSUME NEW r \in Roots, Heard(r)'
      PROVE  Heard(r) /\ \A c \in Clusters : Current(<<r, c>>) => Current(<<r, c>>)'
  BY <1>1, <1>2 DEF Heard, Current
<1>3. QED
  BY <1>1, <1>2, JobsUntouched

LEMMA RestartLInv == ASSUME IInv, LInv, Restart PROVE LInv'
<1> DEFINE alive(k) == IF k \in Roots THEN roots[k].live ELSE leaves[k].live
<1>1. /\ cachedRoots' = roots /\ job' = [w \in Workers |-> NoJob]
      /\ todo' = {k \in Keys : alive(k)}
  BY DEF Restart
<1>2. JobsOwn'
  BY <1>1, NoJobOwn DEF JobsOwn
<1>3. \A r \in Roots : RootServed(r)'
  BY <1>1 DEF RootServed, Heard, Keys
<1>4. QED
  BY <1>2, <1>3 DEF LInv

\* Nobody outside touches the controller's memory.
LEMMA OutsideLInv ==
  ASSUME IInv, LInv, NEW action, Outside(action),
         \A r \in Roots : Heard(r)' =>
           /\ Heard(r)
           /\ \A s \in Range(cachedRoots[r].rules) :
                 services[s] # Missing => services'[s] = services[s]
           /\ \A c \in Clusters : Current(<<r, c>>) => Current(<<r, c>>)'
  PROVE  LInv'
BY JobsUntouched DEF Outside, queueVars

\* A user writes a root.
LEMMA RootWrittenOutside ==
  ASSUME IInv, LInv, NEW action, Outside(action), UNCHANGED <<leaves, services, svcEvents>>
  PROVE  LInv'
BY OutsideLInv DEF Outside, queueVars, Heard, Current

\* A syncer, or whoever sets finalizers, writes a leaf.
LEMMA LeafWrittenOutside ==
  ASSUME IInv, LInv, NEW action, Outside(action), UNCHANGED <<services, svcEvents>>,
         NEW l \in Leaves, NEW obj \in LeafObject, WriteLeaf(l, obj),
         leaves[l].live /\ ~ leaves[l].deleting =>
           /\ obj.live /\ ~ obj.deleting
           /\ obj.rules = leaves[l].rules /\ obj.host = leaves[l].host
  PROVE  LInv'
<1>1. /\ \A o \in Leaves : o # l => leaves'[o] = leaves[o]
      /\ leaves'[l].live = obj.live /\ leaves'[l].deleting = obj.deleting
      /\ leaves'[l].rules = obj.rules /\ leaves'[l].host = obj.host
  BY LeafAfter DEF IInv
<1>2. UNCHANGED <<cachedRoots, todo, overlooked>>
  BY DEF Outside, queueVars
<1>3. ASSUME NEW o \in Leaves, Current(o) PROVE Current(o)'
  BY <1>1, <1>2, <1>3 DEF Current
<1>4. \A r \in Roots : Heard(r)' => Heard(r)
  BY <1>2 DEF Heard
<1>5. \A r \in Roots, c \in Clusters : Current(<<r, c>>) => Current(<<r, c>>)'
  BY <1>3 DEF Leaves
<1>6. QED
  BY <1>4, <1>5, OutsideLInv

\* A Service that has a cluster, or none, gets an event when it loses it.
LEMMA ServiceWrittenOutside ==
  ASSUME IInv, LInv, NEW action, Outside(action), NEW s \in Services, NEW c,
         UNCHANGED leaves,
         services' = [services EXCEPT ![s] = c],
         svcEvents \subseteq svcEvents',
         services[s] # Missing => s \in svcEvents'
  PROVE  LInv'
<1>1. UNCHANGED <<cachedRoots, todo, overlooked>>
  BY DEF Outside, queueVars
<1>2. ASSUME NEW r \in Roots, Heard(r)'
      PROVE  /\ Heard(r)
             /\ \A x \in Range(cachedRoots[r].rules) :
                   services[x] # Missing => services'[x] = services[x]
             /\ \A d \in Clusters : Current(<<r, d>>) => Current(<<r, d>>)'
  <2>1. Range(cachedRoots[r].rules) \subseteq Services
    BY DEF IInv, TypeOK, RootObject, Range
  <2>2. QED
    BY <1>1, <1>2, <2>1 DEF Heard, Current, IInv, TypeOK
<1>3. QED
  BY <1>2, OutsideLInv

LEMMA EnvironmentLInv == ASSUME IInv, LInv, Environment PROVE LInv'
<1>0. \A l \in Leaves : leaves[l] \in LeafObject /\ leaves[l].rv \in Nat
  BY DEF IInv, TypeOK, LeafObject
<1>1. ASSUME NEW r \in Roots,
             DeleteRoot(r) \/ \E rules \in RulesOf[r] : CreateRoot(r, rules) \/ UpdateRoot(r, rules)
      PROVE  LInv'
  BY <1>1, RootWrittenOutside DEF DeleteRoot, CreateRoot, UpdateRoot
<1>2. ASSUME NEW s \in Services, RemoveService(s) PROVE LInv'
  <2>1. /\ Outside("removeService") /\ UNCHANGED leaves
        /\ services' = [services EXCEPT ![s] = Missing]
        /\ svcEvents \subseteq svcEvents' /\ s \in svcEvents'
    BY <1>2 DEF RemoveService
  <2>2. QED
    BY <2>1, ServiceWrittenOutside
<1>3. ASSUME NEW s \in Services, NEW c \in Clusters \union {NoCluster}, PlaceService(s, c)
      PROVE  LInv'
  <2>1. /\ Outside("placeService") /\ UNCHANGED leaves
        /\ services' = [services EXCEPT ![s] = c]
        /\ svcEvents \subseteq svcEvents'
        /\ services[s] # Missing => s \in svcEvents'
    BY <1>3 DEF PlaceService
  <2>2. QED
    BY <2>1, ServiceWrittenOutside
<1>4. ASSUME NEW l \in Leaves, Pin(l) PROVE LInv'
  <2> PICK obj : obj = [leaves[l] EXCEPT !.pinned = TRUE]
    OBVIOUS
  <2>1. /\ obj \in LeafObject
        /\ obj.live = leaves[l].live /\ obj.deleting = leaves[l].deleting
        /\ obj.rules = leaves[l].rules /\ obj.host = leaves[l].host
    BY <1>0 DEF LeafObject
  <2>2. Outside("pin") /\ WriteLeaf(l, obj) /\ UNCHANGED <<services, svcEvents>>
    BY <1>4 DEF Pin
  <2>3. QED
    BY <2>1, <2>2, LeafWrittenOutside
<1>5. ASSUME NEW l \in Leaves, Unpin(l) PROVE LInv'
  <2> PICK obj : obj = IF leaves[l].deleting THEN NoLeaf(leaves[l].rv)
                                             ELSE [leaves[l] EXCEPT !.pinned = FALSE]
    OBVIOUS
  <2>1. /\ obj \in LeafObject
        /\ ~ leaves[l].deleting => /\ obj.live = leaves[l].live
                                   /\ obj.deleting = leaves[l].deleting
                                   /\ obj.rules = leaves[l].rules
                                   /\ obj.host = leaves[l].host
    <3> PICK free : free = [leaves[l] EXCEPT !.pinned = FALSE]
      OBVIOUS
    <3>1. /\ free \in LeafObject
          /\ free.live = leaves[l].live /\ free.deleting = leaves[l].deleting
          /\ free.rules = leaves[l].rules /\ free.host = leaves[l].host
      BY <1>0 DEF LeafObject
    <3>2. NoLeaf(leaves[l].rv) \in LeafObject
      BY <1>0, NoObjects DEF LeafObject
    <3>3. CASE leaves[l].deleting
      BY <3>2, <3>3
    <3>4. CASE ~ leaves[l].deleting
      BY <3>1, <3>4
    <3>5. QED
      BY <3>3, <3>4
  <2>2. Outside("unpin") /\ WriteLeaf(l, obj) /\ UNCHANGED <<services, svcEvents>>
    BY <1>5 DEF Unpin
  <2>3. QED
    BY <2>1, <2>2, LeafWrittenOutside
<1>6. ASSUME NEW l \in Leaves, NEW lbs \in SUBSET LoadBalancers, ReportStatus(l, lbs) PROVE LInv'
  <2> PICK obj : obj = [leaves[l] EXCEPT !.lb = lbs]
    OBVIOUS
  <2>1. /\ obj \in LeafObject
        /\ obj.live = leaves[l].live /\ obj.deleting = leaves[l].deleting
        /\ obj.rules = leaves[l].rules /\ obj.host = leaves[l].host
    BY <1>0 DEF LeafObject
  <2>2. Outside("reportStatus") /\ WriteLeaf(l, obj) /\ UNCHANGED <<services, svcEvents>>
    BY <1>6 DEF ReportStatus
  <2>3. QED
    BY <2>1, <2>2, LeafWrittenOutside
<1>7. ASSUME NEW lb \in LoadBalancers, ChangeAddress(lb) PROVE LInv'
  BY <1>7, RootWrittenOutside DEF ChangeAddress
<1>8. QED
  BY <1>1, <1>2, <1>3, <1>4, <1>5, <1>6, <1>7 DEF Environment

-----------------------------------------------------------------------------
(* The theorems. *)

LEMMA InitLInv == Init => LInv
<1> SUFFICES ASSUME Init PROVE LInv
  OBVIOUS
<1>1. JobsOwn
  BY NoJobOwn DEF Init, JobsOwn
<1>2. \A r \in Roots : RootServed(r)
  BY DEF Init, RootServed, Heard, NoRoot
<1>3. QED
  BY <1>1, <1>2 DEF LInv

LEMMA NextLInv == IInv /\ LInv /\ [Next]_vars => LInv'
<1> SUFFICES ASSUME IInv, LInv, [Next]_vars PROVE LInv'
  OBVIOUS
<1>1. CASE UNCHANGED vars
  <2>1. UNCHANGED <<leaves, services, cachedRoots, svcEvents, todo, gaveUp, job, overlooked>>
    BY <1>1 DEF vars, apiVars, informerVars, queueVars, outsideVars
  <2>2. QED
    BY <2>1, JobsUntouched DEF Heard, Current
<1>2. CASE Next
  BY <1>2, WorkerLInv, CallFailsLInv, BeginLInv, DeliverLInv, DeliverServiceLInv,
     EnqueueNextLInv, ResyncLInv, RestartLInv, EnvironmentLInv DEF Next
<1>3. QED
  BY <1>1, <1>2

\* reconcile of a root, ingress.go:51-98: whatever happens between its calls, a root
\* the controller has heard everything about is served by the job that has it or, if
\* it was not dropped, has been served.
THEOREM RootsServed == Spec => []LInv
<1>1. Init => IInv /\ LInv
  BY InitIInv, InitLInv
<1>2. IInv /\ LInv /\ [Next]_vars => IInv' /\ LInv'
  BY NextIInv, NextLInv
<1>3. QED
  BY <1>1, <1>2, PTL DEF Spec

\* reconcile, ingress.go:76-98: once everything is quiet, the Services of a root that
\* was neither dropped nor overlooked exist, and it has every leaf it should have.
THEOREM LeavesConverge == Spec => []LeavesConverged
<1>1. IInv /\ LInv => LeavesConverged
  <2> SUFFICES ASSUME IInv, LInv, NEW r \in Roots,
                      roots[r].live, Settled(r), r \notin overlooked
               PROVE  Resolvable(r) /\ HasDesiredLeaves(r)
    BY DEF LeavesConverged
  <2>1. /\ events = <<>> /\ svcEvents = {} /\ todo = {} /\ Busy = {} /\ r \notin gaveUp
    BY DEF Settled, Quiet
  <2>2. cachedRoots[r] = roots[r]
    BY <2>1 DEF IInv, CachedRootsCurrent
  <2>3. \A s \in Range(roots[r].rules) : Served(r, s)
    BY <2>1, <2>2 DEF LInv, RootServed, Heard
  <2>4. Resolvable(r)
    BY <2>3 DEF Resolvable, Served
  <2>5. HasDesiredLeaves(r)
    BY <2>2, <2>3 DEF HasDesiredLeaves, DesiredLeaves, Served, Current
  <2>6. QED
    BY <2>4, <2>5
<1>2. QED
  BY <1>1, InductiveInvariant, RootsServed, PTL

-----------------------------------------------------------------------------
(* Leaves that are not wanted any more. *)

\* What a step must not touch so that a root stays cleared.
LEMMA ClearUndisturbed ==
  ASSUME IInv, NEW r \in Roots, RootCleared(r),
         Heard(r)' => Heard(r),
         Heard(r)' => /\ cachedRoots'[r] = cachedRoots[r]
                      /\ \A s \in Range(cachedRoots[r].rules) :
                            services[s] # Missing => services'[s] = services[s]
                      /\ \A l \in Leaves : l[1] = r /\ Listed(l)' => Listed(l),
         \A w \in Workers : job[w].key = r \/ job'[w].key = r => job'[w] = job[w],
         r \in gaveUp => r \in gaveUp'
  PROVE  RootCleared(r)'
<1> SUFFICES ASSUME Heard(r)'
             PROVE  /\ \A w \in Workers : job'[w].key = r => JobClears(job[w])'
                    /\ r \notin Busy' /\ r \notin gaveUp'
                         => \A l \in Leaves : l[1] = r /\ Listed(l)' => l \in Wanted(r, cachedRoots[r].rules)'
  BY DEF RootCleared
<1>1. /\ Heard(r)
      /\ cachedRoots'[r] = cachedRoots[r]
      /\ \A l \in Leaves : l[1] = r /\ Listed(l)' => Listed(l)
  OBVIOUS
<1>2. Wanted(r, cachedRoots[r].rules) \subseteq Wanted(r, cachedRoots[r].rules)'
  <2>1. ASSUME NEW s \in Range(cachedRoots[r].rules), services[s] \in Clusters
        PROVE  <<r, services[s]>> \in Wanted(r, cachedRoots[r].rules)'
    <3>1. services'[s] = services[s]
      BY <2>1, ConstantsAssumption
    <3>2. QED
      BY <1>1, <2>1, <3>1 DEF Wanted
  <2>2. QED
    BY <2>1 DEF Wanted
<1>3. ASSUME NEW w \in Workers, job'[w].key = r
      PROVE  JobClears(job[w])'
  <2> PICK j : j = job[w]
    OBVIOUS
  <2>1. job'[w] = j /\ j.key = r /\ JobClears(j)
    BY <1>1, <1>3 DEF RootCleared
  <2>2. j.rules = cachedRoots[r].rules
    BY <1>1, <2>1 DEF IInv, JobsTracked, JobTracked, Heard
  <2>3. Wanted(r, j.rules) \subseteq Wanted(r, j.rules)'
    BY <1>1, <1>2, <2>2
  <2>4. JobClears(j)'
    BY <1>1, <2>1, <2>3 DEF JobClears
  <2>5. QED
    BY <2>1, <2>4
<1>4. ASSUME r \notin Busy', r \notin gaveUp', NEW l \in Leaves, l[1] = r, Listed(l)'
      PROVE  l \in Wanted(r, cachedRoots[r].rules)'
  <2>1. r \notin Busy /\ r \notin gaveUp
    BY <1>4 DEF Busy
  <2>2. QED
    BY <1>1, <1>2, <1>4, <2>1 DEF RootCleared
<1>5. QED
  BY <1>3, <1>4

\* The step of a worker that has a key makes no leaf of another root one to clear.
LEMMA OthersCleared ==
  ASSUME IInv, RootsCleared, NEW w \in Workers, NEW j, NEW r \in Roots,
         job[w].key # r, j.key # r,
         job' = [job EXCEPT ![w] = j],
         todo \ {j.key} \subseteq todo', gaveUp \ {job[w].key} \subseteq gaveUp',
         overlooked \ {j.key} \subseteq overlooked',
         UNCHANGED <<services, cachedRoots, svcEvents>>,
         \A l \in Leaves : l[1] = r /\ Listed(l)' => Listed(l)
  PROVE  RootCleared(r)'
<1>1. Heard(r)' => Heard(r)
  BY DEF Heard
<1>2. \A v \in Workers : job[v].key = r \/ job'[v].key = r => job'[v] = job[v]
  BY DEF IInv, TypeOK
<1>3. r \in gaveUp => r \in gaveUp'
  OBVIOUS
<1>4. RootCleared(r)
  BY DEF RootsCleared
<1>5. QED
  BY <1>1, <1>2, <1>3, <1>4, ClearUndisturbed

\* A worker on a leaf goes on, or becomes idle.
LEMMA LeafJobClears ==
  ASSUME IInv, RootsCleared, NEW w \in Workers, NEW j, job[w].key \in Leaves,
         j.key = job[w].key \/ j = NoJob,
         job' = [job EXCEPT ![w] = j],
         todo \subseteq todo', gaveUp \ {job[w].key} \subseteq gaveUp',
         UNCHANGED <<leaves, services, cachedRoots, svcEvents, overlooked, unlisted>>
  PROVE  RootsCleared'
<1>1. j.key \notin Roots
  BY Disjoint DEF NoJob
<1>2. \A l : Listed(l)' <=> Listed(l)
  BY DEF Listed
<1>3. QED
  BY <1>1, <1>2, OthersCleared, Disjoint DEF RootsCleared

\* A worker meets an error: its root is owed or dropped.
LEMMA FailCleared ==
  ASSUME IInv, RootsCleared, NEW w \in Workers, job[w].at # "idle", Fail(w),
         UNCHANGED <<leaves, services, cachedRoots, svcEvents, overlooked, unlisted>>
  PROVE  RootsCleared'
<1>1. /\ job' = [job EXCEPT ![w] = NoJob]
      /\ todo \subseteq todo' /\ gaveUp \subseteq gaveUp'
      /\ job[w].key \in todo' \union gaveUp'
      /\ NoJob.key \notin Roots
  BY FailsTo, Disjoint DEF NoJob
<1>2. \A l : Listed(l)' <=> Listed(l)
  BY DEF Listed
<1>3. ASSUME NEW r \in Roots PROVE RootCleared(r)'
  <2>1. CASE r = job[w].key
    <3>1. \A v \in Workers : job'[v].key # r
      BY <1>1, <2>1, OwnKey DEF IInv, TypeOK
    <3>2. QED
      BY <1>1, <2>1, <3>1 DEF RootCleared, Heard
  <2>2. CASE r # job[w].key
    BY <1>1, <1>2, <2>2, OthersCleared
  <2>3. QED
    BY <2>1, <2>2
<1>4. QED
  BY <1>3 DEF RootsCleared

\* A worker on a root goes on.
LEMMA ClearingGoesOn ==
  ASSUME IInv, RootsCleared, NEW w \in Workers, NEW j \in Job,
         job[w].at # "idle", job[w].key \in Roots, Continue(w, j),
         j.key = job[w].key, j.rules = job[w].rules,
         UNCHANGED <<services, cachedRoots, svcEvents>>,
         overlooked \subseteq overlooked',
         \A l \in Leaves : l[1] # j.key /\ Listed(l)' => Listed(l),
         Heard(j.key)' =>
           IF j.at = "idle"
           THEN \A l \in Leaves : l[1] = j.key /\ Listed(l)' => l \in Wanted(j.key, j.rules)'
           ELSE JobClears(j)'
  PROVE  RootsCleared'
<1> DEFINE k == IF j.at = "idle" THEN NoJob ELSE j
<1>1. /\ job' = [job EXCEPT ![w] = k]
      /\ todo' = todo
      /\ gaveUp \ {job[w].key} \subseteq gaveUp'
      /\ k.key \in {j.key, NoKey}
  BY DEF Continue, Succeed, queueVars, NoJob
<1>2. ASSUME NEW r \in Roots PROVE RootCleared(r)'
  <2>1. CASE r = j.key
    <3>1. \A v \in Workers : v # w => job'[v].key # r
      BY <1>1, <2>1, OwnKey DEF IInv, TypeOK
    <3>2. job'[w] = k
      BY <1>1 DEF IInv, TypeOK
    <3>3. Heard(r)' => j.rules = cachedRoots'[r].rules
      BY <1>1, <2>1 DEF IInv, JobsTracked, JobTracked, Heard
    <3>4. CASE j.at = "idle"
      <4>1. \A v \in Workers : job'[v].key # r
        BY <3>1, <3>2, <3>4, Disjoint DEF NoJob
      <4>2. QED
        BY <2>1, <3>3, <3>4, <4>1 DEF RootCleared
    <3>5. CASE j.at # "idle"
      <4>1. r \in Busy'
        BY <2>1, <3>2, <3>5, Disjoint DEF Busy
      <4>2. ASSUME Heard(r)', NEW v \in Workers, job'[v].key = r PROVE JobClears(job[v])'
        BY <2>1, <3>1, <3>2, <3>5, <4>2
      <4>3. QED
        BY <4>1, <4>2 DEF RootCleared
    <3>6. QED
      BY <3>4, <3>5
  <2>2. CASE r # j.key
    <3>1. /\ job[w].key # r /\ k.key # r
          /\ \A l \in Leaves : l[1] = r /\ Listed(l)' => Listed(l)
      BY <1>1, <2>2, Disjoint
    <3> HIDE DEF k
    <3>2. QED
      BY <1>1, <3>1, OthersCleared
  <2>3. QED
    BY <2>1, <2>2
<1>3. QED
  BY <1>2 DEF RootsCleared

\* The job's next write.
LEMMA ClearingWriteStep ==
  ASSUME IInv, RootsCleared, NEW w \in Workers, NEW j \in Job,
         job[w].at # "idle", job[w].key \in Roots, Continue(w, WriteStep(j)),
         j.key = job[w].key, j.rules = job[w].rules,
         UNCHANGED <<services, cachedRoots, svcEvents>>,
         overlooked \subseteq overlooked',
         \A l \in Leaves : l[1] # j.key /\ Listed(l)' => Listed(l),
         Heard(j.key)' =>
           /\ Range(j.want) \subseteq Wanted(j.key, j.rules)'
           /\ \A l \in Leaves : l[1] = j.key /\ Listed(l)'
                               => l \in j.drop \/ l \in Wanted(j.key, j.rules)'
  PROVE  RootsCleared'
<1> PICK k : k = WriteStep(j)
  OBVIOUS
<1>1. /\ k \in Job /\ k.at \in {"delete", "create", "idle"}
      /\ k.key = j.key /\ k.rules = j.rules /\ k.want = j.want /\ k.drop = j.drop
      /\ k.at = "idle" => k.drop = {}
  BY WriteStepJob DEF WriteStep, Job
<1>2. Heard(k.key)' =>
        IF k.at = "idle"
        THEN \A l \in Leaves : l[1] = k.key /\ Listed(l)' => l \in Wanted(k.key, k.rules)'
        ELSE JobClears(k)'
  <2>1. CASE k.at = "idle"
    BY <1>1, <2>1
  <2>2. CASE k.at # "idle"
    <3>1. Heard(k.key)' => JobClears(k)'
      BY <1>1, <2>2 DEF JobClears
    <3>2. QED
      BY <2>2, <3>1
  <2>3. QED
    BY <2>1, <2>2
<1>3. QED
  BY <1>1, <1>2, ClearingGoesOn

\* What is known of a job on a root.
LEMMA ClearingJob ==
  ASSUME IInv, LInv, RootsCleared, NEW w \in Workers, job[w].at \in RootSteps
  PROVE  /\ job[w] \in Job /\ job[w].key \in Roots /\ job[w].at # "idle"
         /\ JobOwn(job[w], todo, cachedRoots)
         /\ JobShape(job[w])
         /\ Heard(job[w].key) => JobClears(job[w])
BY RootJob DEF RootsCleared, RootCleared

LEMMA PatchCleared ==
  ASSUME IInv, LInv, RootsCleared, NEW w \in Workers, Patch(w)
  PROVE  RootsCleared'
<1>1. /\ job[w].at = "patch"
      /\ UNCHANGED <<leaves, services, cachedRoots, svcEvents, overlooked, unlisted>>
      /\ \/ job' = [job EXCEPT ![w] = [job[w] EXCEPT !.at = "list"]] /\ UNCHANGED queueVars
         \/ Fail(w)
  BY DEF Patch, outsideVars, IInv, TypeOK
<1>2. CASE Fail(w)
  BY <1>1, <1>2, FailCleared
<1>3. CASE job' = [job EXCEPT ![w] = [job[w] EXCEPT !.at = "list"]] /\ UNCHANGED queueVars
  <2>1. job[w] \in Job /\ job[w].key \in Roots /\ job[w].at # "idle"
        /\ (Heard(job[w].key) => JobClears(job[w]))
    BY <1>1, ClearingJob DEF RootSteps
  <2> PICK j : j = [job[w] EXCEPT !.at = "list"]
    OBVIOUS
  <2>2. /\ j \in Job /\ j.at = "list"
        /\ j.key = job[w].key /\ j.rules = job[w].rules /\ j.want = job[w].want
    BY <2>1 DEF Job, RootSteps
  <2>3. Continue(w, j)
    BY <1>3, <2>2 DEF Continue
  <2>4. Heard(j.key)' => JobClears(j)'
    BY <1>1, <1>3, <2>1, <2>2 DEF JobClears, Heard, queueVars, Wanted
  <2>5. \A l : Listed(l)' <=> Listed(l)
    BY <1>1 DEF Listed
  <2>6. j.at # "idle"
    BY <2>2
  <2>7. QED
    BY <1>1, <2>1, <2>2, <2>3, <2>4, <2>5, <2>6, ClearingGoesOn
<1>4. QED
  BY <1>1, <1>2, <1>3

LEMMA ListCleared ==
  ASSUME IInv, LInv, RootsCleared, NEW w \in Workers, List(w)
  PROVE  RootsCleared'
<1> PICK j : j = [job[w] EXCEPT !.drop = LeavesOwnedBy(job[w].key), !.left = job[w].rules]
  OBVIOUS
<1> DEFINE k == IF j.left = <<>> THEN WriteStep(j) ELSE [j EXCEPT !.at = "get"]
<1>1. /\ job[w].at = "list"
      /\ Continue(w, k)
      /\ UNCHANGED <<leaves, services, cachedRoots, svcEvents, overlooked>>
      /\ unlisted' = unlisted \union NotListed(job[w].key)
  BY DEF List, apiVars, informerVars, outsideVars
<1>2. job[w] \in Job /\ job[w].key \in Roots /\ job[w].at # "idle"
      /\ (Heard(job[w].key) => JobClears(job[w]))
  BY <1>1, ClearingJob DEF RootSteps
<1>3. /\ j \in Job
      /\ j.key = job[w].key /\ j.rules = job[w].rules /\ j.left = job[w].rules
      /\ j.want = job[w].want /\ j.drop = LeavesOwnedBy(j.key)
  BY <1>2 DEF Job, LeavesOwnedBy
<1>4. \A l \in Leaves : Listed(l)' => Listed(l)
  BY <1>1 DEF Listed
<1>5. \A l \in Leaves : l[1] = j.key /\ Listed(l)' => l \in j.drop
  BY <1>1, <1>3 DEF Listed, NotListed, LeavesOwnedBy
<1>6. Heard(j.key)' => Range(j.want) \subseteq Wanted(j.key, j.rules)'
  <2>1. Heard(j.key)' => Heard(j.key)
    BY <1>1 DEF Heard, Continue, Succeed, queueVars
  <2>2. QED
    BY <1>1, <1>2, <1>3, <2>1 DEF JobClears, Wanted
<1>7. CASE j.left = <<>>
  BY <1>1, <1>2, <1>3, <1>4, <1>5, <1>6, <1>7, ClearingWriteStep
<1>8. CASE j.left # <<>>
  <2> PICK g : g = [j EXCEPT !.at = "get"]
    OBVIOUS
  <2>1. /\ g \in Job /\ g.at = "get" /\ g.at # "idle"
        /\ g.key = j.key /\ g.rules = j.rules /\ g.want = j.want /\ g.drop = j.drop
        /\ g.left = j.rules
    BY <1>3 DEF Job, RootSteps
  <2>2. Heard(g.key)' => JobClears(g)'
    BY <1>5, <1>6, <2>1 DEF JobClears
  <2>3. Continue(w, g)
    BY <1>1, <1>8
  <2> HIDE DEF k
  <2>4. g.key = job[w].key /\ g.rules = job[w].rules
    BY <1>3, <2>1
  <2>5. QED
    BY <1>1, <1>2, <1>4, <2>1, <2>2, <2>3, <2>4, ClearingGoesOn
<1>9. QED
  BY <1>7, <1>8

LEMMA GetServiceCleared ==
  ASSUME IInv, LInv, RootsCleared, NEW w \in Workers, GetService(w)
  PROVE  RootsCleared'
<1> PICK j : j = job[w]
  OBVIOUS
<1> DEFINE s == Head(j.left)
           desired == IF services[s] \in Clusters
                      THEN Append(j.want, <<j.key, services[s]>>) ELSE j.want
           next == IF Len(j.left) > 1
                   THEN [j EXCEPT !.left = Tail(j.left), !.want = desired]
                   ELSE [j EXCEPT !.left = j.rules, !.want = desired, !.at = "track"]
<1>1. /\ j.at = "get"
      /\ UNCHANGED <<leaves, services, cachedRoots, svcEvents, overlooked, unlisted>>
      /\ \/ /\ services[s] # Missing
            /\ job' = [job EXCEPT ![w] = next]
            /\ UNCHANGED queueVars
         \/ Fail(w)
  BY DEF GetService, apiVars, informerVars, outsideVars
<1>2. /\ j \in Job /\ j.key \in Roots /\ j.left # <<>> /\ j.at # "idle"
      /\ (Heard(j.key) => JobClears(j))
  BY <1>1, ClearingJob DEF RootSteps, JobShape
<1>3. CASE Fail(w)
  BY <1>1, <1>2, <1>3, FailCleared
<1>4. CASE /\ services[s] # Missing
           /\ job' = [job EXCEPT ![w] = next]
           /\ UNCHANGED queueVars
  <2>1. /\ j.left \in Seq(Services) /\ j.want \in Seq(Leaves) /\ j.rules \in Seq(Services)
        /\ services[s] \in Clusters => <<j.key, services[s]>> \in Leaves
    BY <1>2 DEF Job, Leaves
  <2>2. /\ Tail(j.left) \in Seq(Services)
        /\ s \in Range(j.left) /\ Range(Tail(j.left)) \subseteq Range(j.left)
    BY <1>2, <2>1, RangeTail, RangeOfTail
  <2>3. /\ desired \in Seq(Leaves)
        /\ \A l \in Range(desired) : \/ l \in Range(j.want)
                                     \/ services[s] \in Clusters /\ l = <<j.key, services[s]>>
    <3>1. CASE services[s] \in Clusters
      <4>1. desired = Append(j.want, <<j.key, services[s]>>)
        BY <3>1
      <4> PICK x \in Leaves : x = <<j.key, services[s]>>
        BY <2>1, <3>1
      <4> HIDE DEF desired, s, next
      <4>2. j.want \in Seq(Leaves)
        BY <2>1
      <4>3. /\ Append(j.want, x) \in Seq(Leaves)
            /\ Range(Append(j.want, x)) = Range(j.want) \union {x}
        BY <4>2, AppendRange
      <4>4. QED
        BY <3>1, <4>1, <4>3
    <3>2. CASE services[s] \notin Clusters
      BY <2>1, <3>2
    <3>3. QED
      BY <3>1, <3>2
  <2> PICK k : k = next
    OBVIOUS
  <2> HIDE DEF desired
  <2>4. /\ k \in Job /\ k.at \in {"get", "track"} /\ k.at # "idle"
        /\ k.key = j.key /\ k.rules = j.rules /\ k.want = desired /\ k.drop = j.drop
        /\ k.at = "get" => k.left = Tail(j.left)
    BY <1>1, <1>2, <2>1, <2>2, <2>3 DEF Job, RootSteps
  <2>5. Continue(w, k)
    BY <1>4, <2>4 DEF Continue
  <2>6. \A l : Listed(l)' <=> Listed(l)
    BY <1>1 DEF Listed
  <2>7. ASSUME Heard(k.key)' PROVE JobClears(k)'
    <3>1. Heard(j.key)
      BY <1>1, <1>4, <2>4, <2>7 DEF Heard, queueVars
    <3>2. /\ Range(j.want) \subseteq Wanted(j.key, j.rules)
          /\ Range(j.left) \subseteq Range(j.rules)
          /\ \A l \in Leaves : l[1] = j.key /\ Listed(l) => l \in j.drop
      BY <1>1, <1>2, <3>1 DEF JobClears
    <3>3. services[s] \in Clusters => <<j.key, services[s]>> \in Wanted(j.key, j.rules)
      BY <2>2, <3>2 DEF Wanted
    <3>4. Range(desired) \subseteq Wanted(j.key, j.rules)
      BY <2>3, <3>2, <3>3
    <3>5. Wanted(k.key, k.rules)' = Wanted(j.key, j.rules)
      BY <1>1, <2>4 DEF Wanted
    <3>6. QED
      BY <2>2, <2>4, <2>6, <3>2, <3>4, <3>5 DEF JobClears
  <2>8. QED
    BY <1>1, <1>2, <2>4, <2>5, <2>6, <2>7, ClearingGoesOn
<1>5. QED
  BY <1>1, <1>3, <1>4

\* A listed leaf that is not to be deleted has the name of one that is wanted; being
\* of the same root, it is that one.
LEMMA DesiredKept ==
  ASSUME NEW j \in Job, JobOwn(j, todo, cachedRoots), j.key \in Roots,
         NEW l \in j.drop, l[1] = j.key, l \notin NotDesired(j.drop, j.want)
  PROVE  l \in Range(j.want)
<1>1. j.want \in Seq(Leaves) /\ l \in Leaves
  BY DEF Job
<1>2. PICK i \in 1 .. Len(j.want) : LeafName(j.want[i]) = LeafName(l)
  BY DEF NotDesired
<1>3. j.want[i] \in Range(j.want) /\ j.want[i] \in Leaves
  BY <1>1 DEF Range
<1>4. j.want[i][1] = j.key /\ j.want[i][2] = l[2]
  BY <1>2, <1>3 DEF JobOwn, LeafName
<1>5. j.want[i] = l
  BY <1>1, <1>3, <1>4 DEF Leaves
<1>6. QED
  BY <1>3, <1>5

LEMMA TrackCleared ==
  ASSUME IInv, LInv, RootsCleared, NEW w \in Workers, Track(w)
  PROVE  RootsCleared'
<1> PICK j : j = job[w]
  OBVIOUS
<1> PICK next : next = [j EXCEPT !.left = Tail(j.left)]
  OBVIOUS
<1> PICK done : done = [j EXCEPT !.left = <<>>, !.drop = NotDesired(j.drop, j.want)]
  OBVIOUS
<1>1. /\ j.at = "track"
      /\ UNCHANGED <<leaves, services, cachedRoots, svcEvents, overlooked, unlisted>>
      /\ Continue(w, next) \/ Continue(w, WriteStep(done))
  BY DEF Track, apiVars, informerVars, outsideVars
<1>2. /\ j \in Job /\ j.key \in Roots /\ j.left # <<>> /\ j.at # "idle"
      /\ JobOwn(j, todo, cachedRoots)
      /\ (Heard(j.key) => JobClears(j))
  BY <1>1, ClearingJob DEF RootSteps, JobShape
<1>3. \A l : Listed(l)' <=> Listed(l)
  BY <1>1 DEF Listed
<1>4. Wanted(j.key, j.rules)' = Wanted(j.key, j.rules)
  BY <1>1 DEF Wanted
<1>5. ASSUME Heard(j.key)'
      PROVE  /\ Range(j.want) \subseteq Wanted(j.key, j.rules)'
             /\ \A l \in Leaves : l[1] = j.key /\ Listed(l)' => l \in j.drop
  <2>1. Heard(j.key)
    BY <1>1, <1>5 DEF Heard, Continue, Succeed, queueVars
  <2>2. QED
    BY <1>1, <1>2, <1>3, <1>4, <2>1 DEF JobClears
<1>6. CASE Continue(w, next)
  <2>1. Tail(j.left) \in Seq(Services)
    <3>1. j.left \in Seq(Services)
      BY <1>2 DEF Job
    <3>2. QED
      BY <1>2, <3>1, RangeTail
  <2>2. /\ next \in Job /\ next.at = "track" /\ next.at # "idle"
        /\ next.key = j.key /\ next.rules = j.rules /\ next.want = j.want /\ next.drop = j.drop
    BY <1>1, <1>2, <2>1 DEF Job
  <2>3. Heard(next.key)' => JobClears(next)'
    BY <1>5, <2>2 DEF JobClears
  <2>4. QED
    BY <1>1, <1>2, <1>3, <1>6, <2>2, <2>3, ClearingGoesOn
<1>7. CASE Continue(w, WriteStep(done))
  <2>1. /\ done \in Job
        /\ done.key = j.key /\ done.rules = j.rules /\ done.want = j.want
        /\ done.drop = NotDesired(j.drop, j.want)
    <3>1. <<>> \in Seq(Services) /\ NotDesired(j.drop, j.want) \in SUBSET Leaves
      BY <1>2 DEF Job, NotDesired
    <3>2. QED
      BY <1>2, <3>1 DEF Job
  <2>2. ASSUME Heard(done.key)', NEW l \in Leaves, l[1] = done.key, Listed(l)'
        PROVE  l \in done.drop \/ l \in Wanted(done.key, done.rules)'
    <3>1. l \in j.drop /\ Range(j.want) \subseteq Wanted(j.key, j.rules)' /\ l[1] = j.key
      BY <1>5, <2>1, <2>2
    <3>2. l \in NotDesired(j.drop, j.want) \/ l \in Range(j.want)
      BY <1>2, <3>1, DesiredKept
    <3>3. QED
      BY <2>1, <3>1, <3>2
  <2>3. Heard(done.key)' => Range(done.want) \subseteq Wanted(done.key, done.rules)'
    BY <1>5, <2>1
  <2>4. QED
    BY <1>1, <1>2, <1>3, <1>7, <2>1, <2>2, <2>3, ClearingWriteStep
<1>8. QED
  BY <1>1, <1>6, <1>7

LEMMA DeleteLeafCleared ==
  ASSUME IInv, LInv, RootsCleared, NEW w \in Workers, DeleteLeaf(w)
  PROVE  RootsCleared'
<1> PICK j : j = job[w]
  OBVIOUS
<1>1. /\ j.at = "delete"
      /\ UNCHANGED <<services, cachedRoots, svcEvents, unlisted>>
  BY DEF DeleteLeaf
<1>2. PICK l \in j.drop :
        \/ /\ DeleteLeafObject(l)
           /\ Continue(w, WriteStep([j EXCEPT !.drop = @ \ {l}]))
           /\ overlooked' = overlooked \union ({l[1]} \ {j.key})
        \/ Fail(w) /\ UNCHANGED <<leaves, overlooked>>
  BY DEF DeleteLeaf
<1>3. /\ j \in Job /\ j.key \in Roots /\ l \in Leaves /\ j.at # "idle"
      /\ (Heard(j.key) => JobClears(j))
  BY <1>1, ClearingJob DEF RootSteps, Job
<1>4. CASE Fail(w) /\ UNCHANGED <<leaves, overlooked>>
  BY <1>1, <1>3, <1>4, FailCleared
<1>5. CASE /\ DeleteLeafObject(l)
           /\ Continue(w, WriteStep([j EXCEPT !.drop = @ \ {l}]))
           /\ overlooked' = overlooked \union ({l[1]} \ {j.key})
  <2> PICK k : k = [j EXCEPT !.drop = @ \ {l}]
    OBVIOUS
  <2>1. /\ k \in Job
        /\ k.key = j.key /\ k.rules = j.rules /\ k.want = j.want /\ k.drop = j.drop \ {l}
    BY <1>3 DEF Job
  <2>2. \A o \in Leaves : o # l => leaves'[o] = leaves[o]
    BY <1>5 DEF DeleteLeafObject, WriteLeaf, IInv, TypeOK
  <2>3. ~ Listed(l)'
    <3>1. leaves[l] \in LeafObject
      BY <1>3 DEF IInv, TypeOK
    <3>2. CASE leaves[l].pinned
      <4> PICK obj : obj = [leaves[l] EXCEPT !.deleting = TRUE]
        OBVIOUS
      <4>1. obj \in LeafObject /\ obj.deleting
        BY <3>1 DEF LeafObject
      <4>2. WriteLeaf(l, obj)
        BY <1>5, <3>2 DEF DeleteLeafObject
      <4>3. QED
        BY <1>3, <4>1, <4>2, LeafAfter DEF IInv, Listed
    <3>3. CASE ~ leaves[l].pinned
      <4> PICK obj : obj = NoLeaf(leaves[l].rv)
        OBVIOUS
      <4>1. obj \in LeafObject /\ ~ obj.live
        <5>1. leaves[l].rv \in Nat
          BY <3>1 DEF LeafObject
        <5>2. QED
          BY <5>1, NoObjects DEF NoLeaf
      <4>2. WriteLeaf(l, obj)
        BY <1>5, <3>3 DEF DeleteLeafObject
      <4>3. QED
        BY <1>3, <4>1, <4>2, LeafAfter DEF IInv, Listed
    <3>4. QED
      BY <3>2, <3>3
  <2>4. \A o \in Leaves : Listed(o)' => Listed(o) /\ o # l
    BY <1>1, <2>2, <2>3 DEF Listed
  <2>5. ASSUME Heard(k.key)'
        PROVE  /\ Range(k.want) \subseteq Wanted(k.key, k.rules)'
               /\ \A o \in Leaves : o[1] = k.key /\ Listed(o)'
                                   => o \in k.drop \/ o \in Wanted(k.key, k.rules)'
    <3>1. Heard(j.key)
      BY <1>1, <1>5, <2>1, <2>5 DEF Heard, Continue, Succeed, queueVars
    <3>2. Wanted(k.key, k.rules)' = Wanted(j.key, j.rules)
      BY <1>1, <2>1 DEF Wanted
    <3>3. QED
      BY <1>1, <1>3, <2>1, <2>4, <3>1, <3>2 DEF JobClears
  <2>6. /\ Continue(w, WriteStep(k)) /\ overlooked \subseteq overlooked'
        /\ job[w].at # "idle" /\ job[w].key \in Roots
        /\ k.key = job[w].key /\ k.rules = job[w].rules
    BY <1>1, <1>3, <1>5, <2>1
  <2>7. QED
    BY <1>1, <2>1, <2>4, <2>5, <2>6, ClearingWriteStep
<1>6. QED
  BY <1>2, <1>4, <1>5

\* The leaf that is written is a wanted one, and the job goes on to its next write.
LEMMA WantedCleared ==
  ASSUME IInv, LInv, RootsCleared, NEW w \in Workers, NEW j \in Job, NEW k \in Job,
         NEW obj \in LeafObject,
         j = job[w], j.at \in {"create", "update"}, j.want # <<>>,
         k.key = j.key, k.rules = j.rules, k.drop = j.drop, k.want = Tail(j.want),
         WriteLeaf(Head(j.want), obj), Continue(w, WriteStep(k)),
         UNCHANGED <<services, cachedRoots, svcEvents, unlisted>>,
         overlooked \subseteq overlooked'
  PROVE  RootsCleared'
<1> PICK l : l = Head(j.want)
  OBVIOUS
<1>1. /\ JobOwn(j, todo, cachedRoots)
      /\ job[w].at # "idle" /\ job[w].key \in Roots
      /\ (Heard(j.key) => JobClears(j))
  BY ClearingJob DEF RootSteps
<1>2. /\ l \in Leaves /\ l \in Range(j.want)
      /\ Range(k.want) \subseteq Range(j.want)
  <2>1. j.want \in Seq(Leaves)
    BY DEF Job
  <2>2. QED
    BY <2>1, RangeTail, RangeOfTail
<1>3. l[1] = j.key
  BY <1>1, <1>2 DEF JobOwn
<1>4. \A o \in Leaves : o # l => leaves'[o] = leaves[o]
  <2>1. TypeOK /\ WriteLeaf(l, obj)
    BY DEF IInv
  <2>2. QED
    BY <1>2, <2>1, LeafAfter
<1>5. \A o \in Leaves : Listed(o)' => Listed(o) \/ o = l
  BY <1>4 DEF Listed
<1>6. ASSUME Heard(k.key)'
      PROVE  /\ Range(k.want) \subseteq Wanted(k.key, k.rules)'
             /\ \A o \in Leaves : o[1] = k.key /\ Listed(o)'
                                 => o \in k.drop \/ o \in Wanted(k.key, k.rules)'
  <2>1. Heard(j.key)
    BY <1>6 DEF Heard, Continue, Succeed, queueVars
  <2>2. Wanted(k.key, k.rules)' = Wanted(j.key, j.rules)
    BY DEF Wanted
  <2>3. QED
    BY <1>1, <1>2, <1>5, <2>1, <2>2 DEF JobClears
<1>7. \A o \in Leaves : o[1] # k.key /\ Listed(o)' => Listed(o)
  BY <1>3, <1>5
<1>8. k.key = job[w].key /\ k.rules = job[w].rules
  OBVIOUS
<1>9. QED
  BY <1>1, <1>6, <1>7, <1>8, ClearingWriteStep

\* A job on a root looks at the next leaf it wants.
LEMMA WantedSeenCleared ==
  ASSUME IInv, LInv, RootsCleared, NEW w \in Workers, NEW k \in Job,
         job[w].at \in {"create", "read"}, k.at \in {"read", "update"},
         k.key = job[w].key, k.rules = job[w].rules,
         k.drop = job[w].drop, k.want = job[w].want,
         job' = [job EXCEPT ![w] = k],
         UNCHANGED <<leaves, services, cachedRoots, svcEvents, overlooked, unlisted, queueVars>>
  PROVE  RootsCleared'
<1>1. /\ job[w].key \in Roots /\ job[w].at # "idle"
      /\ (Heard(job[w].key) => JobClears(job[w]))
  BY ClearingJob DEF RootSteps
<1>2. Continue(w, k) /\ k.at # "idle"
  BY DEF Continue
<1>3. \A l : Listed(l)' <=> Listed(l)
  BY DEF Listed
<1>4. ASSUME Heard(k.key)' PROVE JobClears(k)'
  <2>1. Heard(k.key)
    BY <1>4 DEF Heard, queueVars
  <2>2. Wanted(k.key, k.rules)' = Wanted(k.key, k.rules)
    BY DEF Wanted
  <2>3. QED
    BY <1>1, <1>3, <2>1, <2>2 DEF JobClears
<1>5. QED
  BY <1>1, <1>2, <1>3, <1>4, ClearingGoesOn

LEMMA CreateLeafCleared ==
  ASSUME IInv, LInv, RootsCleared, NEW w \in Workers, CreateLeaf(w)
  PROVE  RootsCleared'
<1> PICK j : j = job[w]
  OBVIOUS
<1> PICK l : l = Head(j.want)
  OBVIOUS
<1> PICK done : done = [j EXCEPT !.want = Tail(@)]
  OBVIOUS
<1> PICK read : read = [j EXCEPT !.at = "read"]
  OBVIOUS
<1> PICK new : new = [NoLeaf(leaves[l].rv) EXCEPT !.live = TRUE, !.host = j.host, !.rules = j.rules]
  OBVIOUS
<1>1. /\ j.at = "create"
      /\ UNCHANGED <<services, cachedRoots, svcEvents, overlooked, unlisted>>
      /\ \/ WriteLeaf(l, new) /\ Continue(w, WriteStep(done))
         \/ job' = [job EXCEPT ![w] = read] /\ UNCHANGED <<leaves, queueVars>>
  BY DEF CreateLeaf, outsideVars
<1>2. j \in Job /\ j.want # <<>>
  BY <1>1, RootJob DEF RootSteps, JobShape
<1>3. l \in Leaves /\ Tail(j.want) \in Seq(Leaves)
  <2>1. j.want \in Seq(Leaves)
    BY <1>2 DEF Job
  <2>2. QED
    BY <1>2, <2>1, RangeTail
<1>4. CASE WriteLeaf(l, new) /\ Continue(w, WriteStep(done))
  <2>1. /\ done \in Job /\ done.key = j.key /\ done.rules = j.rules
        /\ done.drop = j.drop /\ done.want = Tail(j.want)
    BY <1>2, <1>3 DEF Job
  <2>2. new \in LeafObject
    <3>1. leaves[l].rv \in Nat /\ j.host \in Hostname /\ j.rules \in Seq(Services)
      BY <1>2, <1>3 DEF IInv, TypeOK, LeafObject, Job
    <3>2. QED
      BY <3>1 DEF NoLeaf, LeafObject
  <2>3. QED
    BY <1>1, <1>2, <1>4, <2>1, <2>2, WantedCleared
<1>5. CASE job' = [job EXCEPT ![w] = read] /\ UNCHANGED <<leaves, queueVars>>
  <2>1. /\ read \in Job /\ read.at = "read"
        /\ read.key = j.key /\ read.rules = j.rules
        /\ read.drop = j.drop /\ read.want = j.want
    BY <1>2 DEF Job, RootSteps
  <2>2. QED
    BY <1>1, <1>5, <2>1, WantedSeenCleared
<1>6. QED
  BY <1>1, <1>4, <1>5

LEMMA ReadLeafCleared ==
  ASSUME IInv, LInv, RootsCleared, NEW w \in Workers, ReadLeaf(w)
  PROVE  RootsCleared'
<1> PICK j : j = job[w]
  OBVIOUS
<1> PICK l : l = Head(j.want)
  OBVIOUS
<1> PICK k : k = [j EXCEPT !.at = "update", !.rv = leaves[l].rv]
  OBVIOUS
<1>1. /\ j.at = "read"
      /\ UNCHANGED <<leaves, services, cachedRoots, svcEvents, overlooked, unlisted>>
      /\ \/ job' = [job EXCEPT ![w] = k] /\ UNCHANGED queueVars
         \/ Fail(w)
  BY DEF ReadLeaf, apiVars, informerVars, outsideVars, IInv, TypeOK
<1>2. j \in Job /\ j.at # "idle" /\ j.want # <<>>
  BY <1>1, RootJob DEF RootSteps, JobShape
<1>3. CASE Fail(w)
  BY <1>1, <1>2, <1>3, FailCleared
<1>4. CASE job' = [job EXCEPT ![w] = k] /\ UNCHANGED queueVars
  <2>1. leaves[l].rv \in Nat
    <3>1. j.want \in Seq(Leaves)
      BY <1>2 DEF Job
    <3>2. l \in Leaves
      BY <1>2, <3>1, RangeTail
    <3>3. QED
      BY <3>2 DEF IInv, TypeOK, LeafObject
  <2>2. /\ k \in Job /\ k.at = "update"
        /\ k.key = j.key /\ k.rules = j.rules
        /\ k.drop = j.drop /\ k.want = j.want
    BY <1>2, <2>1 DEF Job, RootSteps
  <2>3. QED
    BY <1>1, <1>4, <2>2, WantedSeenCleared
<1>5. QED
  BY <1>1, <1>3, <1>4

LEMMA UpdateLeafCleared ==
  ASSUME IInv, LInv, RootsCleared, NEW w \in Workers, UpdateLeaf(w)
  PROVE  RootsCleared'
<1> PICK j : j = job[w]
  OBVIOUS
<1> PICK l : l = Head(j.want)
  OBVIOUS
<1> PICK updated :
      updated = [leaves[l] EXCEPT !.host = j.host, !.rules = j.rules, !.pinned = FALSE]
  OBVIOUS
<1> PICK obj : obj = IF leaves[l].deleting THEN NoLeaf(j.rv) ELSE updated
  OBVIOUS
<1> PICK done : done = [j EXCEPT !.want = Tail(@), !.rv = 0]
  OBVIOUS
<1>1. /\ j.at = "update"
      /\ UNCHANGED <<services, cachedRoots, svcEvents, unlisted>>
      /\ \/ /\ WriteLeaf(l, obj)
            /\ Continue(w, WriteStep(done))
            /\ overlooked \subseteq overlooked'
         \/ Fail(w) /\ UNCHANGED <<leaves, overlooked>>
  BY DEF UpdateLeaf
<1>2. j \in Job /\ j.at # "idle" /\ j.want # <<>>
  BY <1>1, RootJob DEF RootSteps, JobShape
<1>3. l \in Leaves /\ Tail(j.want) \in Seq(Leaves)
  <2>1. j.want \in Seq(Leaves)
    BY <1>2 DEF Job
  <2>2. QED
    BY <1>2, <2>1, RangeTail
<1>4. CASE Fail(w) /\ UNCHANGED <<leaves, overlooked>>
  BY <1>1, <1>2, <1>4, FailCleared
<1>5. CASE WriteLeaf(l, obj) /\ Continue(w, WriteStep(done)) /\ overlooked \subseteq overlooked'
  <2>1. /\ done \in Job /\ done.key = j.key /\ done.rules = j.rules
        /\ done.drop = j.drop /\ done.want = Tail(j.want)
    BY <1>2, <1>3 DEF Job
  <2>2. obj \in LeafObject
    <3>1. leaves[l] \in LeafObject /\ j.host \in Hostname /\ j.rules \in Seq(Services) /\ j.rv \in Nat
      BY <1>2, <1>3 DEF IInv, TypeOK, Job
    <3>2. updated \in LeafObject
      BY <3>1 DEF LeafObject
    <3>3. NoLeaf(j.rv) \in LeafObject
      BY <3>1, NoObjects
    <3>4. QED
      BY <3>2, <3>3
  <2>3. QED
    BY <1>1, <1>2, <1>5, <2>1, <2>2, WantedCleared
<1>6. QED
  BY <1>1, <1>4, <1>5

LEMMA ReadRootCleared ==
  ASSUME IInv, LInv, RootsCleared, NEW w \in Workers, ReadRoot(w)
  PROVE  RootsCleared'
<1> PICK k : k = [job[w] EXCEPT !.at = "dns",
                                !.host = cachedRoots[job[w].key[1]].host,
                                !.rv = cachedRoots[job[w].key[1]].rv]
  OBVIOUS
<1>1. /\ job[w].at = "root"
      /\ UNCHANGED <<leaves, services, cachedRoots, svcEvents, overlooked, unlisted>>
      /\ \/ job' = [job EXCEPT ![w] = k] /\ UNCHANGED queueVars
         \/ Fail(w)
  BY DEF ReadRoot, apiVars, informerVars, outsideVars, IInv, TypeOK
<1>2. job[w] \in Job /\ job[w].key \in Leaves /\ job[w].at # "idle"
  BY <1>1, LeafJob DEF LeafSteps
<1>3. k.key = job[w].key
  BY <1>2 DEF Job
<1>4. QED
  BY <1>1, <1>2, <1>3, FailCleared, LeafJobClears DEF queueVars

LEMMA ReconcileDNSCleared ==
  ASSUME IInv, LInv, RootsCleared, NEW w \in Workers, ReconcileDNS(w)
  PROVE  RootsCleared'
<1> PICK k : k = [job[w] EXCEPT !.at = "status"]
  OBVIOUS
<1>1. /\ job[w].at = "dns"
      /\ UNCHANGED <<leaves, services, cachedRoots, svcEvents, overlooked, unlisted, todo, gaveUp>>
      /\ job' = [job EXCEPT ![w] = k]
  BY DEF ReconcileDNS, informerVars, outsideVars, queueVars, IInv, TypeOK
<1>2. job[w] \in Job /\ job[w].key \in Leaves /\ job[w].at # "idle"
  BY <1>1, LeafJob DEF LeafSteps
<1>3. k.key = job[w].key
  BY <1>2 DEF Job
<1>4. QED
  BY <1>1, <1>2, <1>3, LeafJobClears

LEMMA UpdateStatusCleared ==
  ASSUME IInv, LInv, RootsCleared, NEW w \in Workers, UpdateStatus(w)
  PROVE  RootsCleared'
<1>1. /\ job[w].at = "status"
      /\ UNCHANGED <<leaves, services, cachedRoots, svcEvents, overlooked, unlisted>>
      /\ Succeed(w, job[w].key) \/ RequeueAndForget(w) \/ Fail(w)
  BY DEF UpdateStatus, outsideVars
<1>2. job[w].key \in Leaves /\ job[w].at # "idle"
  BY <1>1, LeafJob DEF LeafSteps
<1>3. CASE Succeed(w, job[w].key) \/ RequeueAndForget(w)
  <2>1. /\ job' = [job EXCEPT ![w] = NoJob]
        /\ todo \subseteq todo' /\ gaveUp \ {job[w].key} \subseteq gaveUp'
    BY <1>3 DEF Succeed, RequeueAndForget
  <2>2. QED
    BY <1>1, <1>2, <2>1, LeafJobClears
<1>4. QED
  BY <1>1, <1>2, <1>3, FailCleared

LEMMA WorkerCleared ==
  ASSUME IInv, LInv, RootsCleared, NEW w \in Workers, Worker(w)
  PROVE  RootsCleared'
<1>1. ASSUME RejectRecord(w) PROVE RootsCleared'
  BY <1>1, FailCleared DEF RejectRecord, apiVars, informerVars, outsideVars
<1>2. QED
  BY <1>1, PatchCleared, ListCleared, GetServiceCleared, TrackCleared, DeleteLeafCleared,
     CreateLeafCleared, ReadLeafCleared, UpdateLeafCleared, ReadRootCleared,
     ReconcileDNSCleared, UpdateStatusCleared DEF Worker

LEMMA CallFailsCleared ==
  ASSUME IInv, RootsCleared, NEW w \in Workers, CallFails(w)
  PROVE  RootsCleared'
BY FailCleared DEF CallFails, APISteps, RootSteps, apiVars, informerVars

LEMMA BeginCleared ==
  ASSUME IInv, RootsCleared, NEW w \in Workers, NEW k \in Keys, Begin(w, k)
  PROVE  RootsCleared'
<1>0. /\ Take(w, k)
      /\ job[w].key = NoKey /\ k # NoKey
      /\ \A v \in Workers : job[v].key # k
  BY ConstantsAssumption DEF Begin, ProcessDeleted, BeginRoot, BeginLeaf, Take, Busy,
                             IInv, JobsShaped, JobShape
<1>1. CASE ProcessDeleted(w, k)
  <2>1. /\ ~ InIndexer(k)
        /\ todo' = todo \ {k} /\ gaveUp' = gaveUp \ {k} /\ job' = job
        /\ UNCHANGED <<leaves, services, cachedRoots, svcEvents, overlooked, unlisted>>
    BY <1>1 DEF ProcessDeleted, apiVars, informerVars, outsideVars
  <2>2. ASSUME NEW r \in Roots PROVE RootCleared(r)'
    <3>1. CASE r = k
      BY <2>1, <3>1 DEF RootCleared, Heard, InIndexer
    <3>2. CASE r # k
      <4>1. Heard(r)' => Heard(r)
        BY <2>1, <3>2 DEF Heard
      <4>2. \A l : Listed(l)' <=> Listed(l)
        BY <2>1 DEF Listed
      <4>3. RootCleared(r) /\ (r \in gaveUp => r \in gaveUp')
        BY <2>1, <3>2 DEF RootsCleared
      <4>4. QED
        BY <2>1, <4>1, <4>2, <4>3, ClearUndisturbed
    <3>3. QED
      BY <3>1, <3>2
  <2>3. QED
    BY <2>2 DEF RootsCleared
<1>2. CASE k \in Roots /\ BeginRoot(w, k)
  <2> PICK j : j = [NoJob EXCEPT !.at = IF cachedRoots[k].host = NoHost THEN "patch" ELSE "list",
                                 !.key = k,
                                 !.host = cachedRoots[k].host,
                                 !.rules = cachedRoots[k].rules]
    OBVIOUS
  <2>1. /\ todo' = todo \ {k} /\ overlooked' = overlooked \ {k}
        /\ unlisted' = {l \in unlisted : l[1] # k}
        /\ job' = [job EXCEPT ![w] = j]
        /\ UNCHANGED <<leaves, services, cachedRoots, svcEvents, gaveUp>>
    BY <1>2 DEF BeginRoot, apiVars, informerVars
  <2>2. j.key = k /\ j.at \in {"patch", "list"} /\ j.want = <<>>
    BY DEF NoJob
  <2>3. ASSUME NEW r \in Roots PROVE RootCleared(r)'
    <3>1. CASE r = k
      <4>1. /\ \A v \in Workers : job'[v].key = r => job'[v] = j
            /\ job'[w] = j
        BY <1>0, <2>1, <3>1 DEF IInv, TypeOK
      <4>2. r \in Busy'
        <5>1. job'[w].key = r /\ r # NoKey
          BY <1>0, <2>2, <3>1, <4>1
        <5>2. QED
          BY <5>1 DEF Busy
      <4>3. JobClears(j)'
        <5>1. Range(j.want) = {}
          BY <2>2 DEF Range
        <5>2. QED
          BY <2>2, <5>1 DEF JobClears
      <4>4. ASSUME NEW v \in Workers, job'[v].key = r PROVE JobClears(job[v])'
        BY <4>1, <4>3, <4>4
      <4>5. QED
        BY <4>2, <4>4 DEF RootCleared
    <3>2. CASE r # k
      <4>1. job[w].key # r /\ j.key # r
        BY <1>0, <2>2, <3>2, Disjoint
      <4>2. \A l \in Leaves : l[1] = r /\ Listed(l)' => Listed(l)
        BY <2>1, <3>2 DEF Listed
      <4>3. QED
        BY <2>1, <2>2, <4>1, <4>2, OthersCleared
    <3>3. QED
      BY <3>1, <3>2
  <2>4. QED
    BY <2>3 DEF RootsCleared
<1>3. CASE k \in Leaves /\ BeginLeaf(w, k)
  <2> PICK j : j = [NoJob EXCEPT !.at = "root",
                                 !.key = k,
                                 !.own = cachedLeaves[k].lb,
                                 !.deleting = cachedLeaves[k].deleting,
                                 !.lbs = UNION {cachedLeaves[o].lb : o \in LeavesOwnedBy(k[1])}]
    OBVIOUS
  <2>1. /\ todo' = todo \ {k}
        /\ job' = [job EXCEPT ![w] = j]
        /\ j.key = k
    <3>1. j.key = k
      BY DEF NoJob
    <3>2. QED
      BY <1>3, <3>1 DEF BeginLeaf
  <2>2. UNCHANGED <<leaves, services, cachedRoots, svcEvents, overlooked, unlisted, gaveUp>>
    BY <1>3 DEF BeginLeaf, apiVars, informerVars, outsideVars
  <2>3. \A l : Listed(l)' <=> Listed(l)
    BY <2>2 DEF Listed
  <2>4. QED
    BY <1>0, <1>3, <2>1, <2>2, <2>3, Disjoint, OthersCleared DEF RootsCleared
<1>4. QED
  BY <1>1, <1>2, <1>3 DEF Begin

\* A step of nobody's job that disturbs only roots whose keys it adds, whose
\* Services have an event under way, or that the controller overlooks.
LEMMA JobsStillClear ==
  ASSUME IInv, RootsCleared, UNCHANGED <<job, gaveUp>>,
         \A r \in Roots : r \notin todo' => cachedRoots'[r] = cachedRoots[r],
         \A r \in Roots : Heard(r)' =>
           /\ Heard(r)
           /\ \A s \in Range(cachedRoots[r].rules) :
                 services[s] # Missing => services'[s] = services[s],
         \A l \in Leaves : Listed(l)' => Listed(l)
  PROVE  RootsCleared'
<1>1. ASSUME NEW r \in Roots PROVE RootCleared(r)'
  <2>1. RootCleared(r) /\ (Heard(r)' => cachedRoots'[r] = cachedRoots[r])
    BY DEF RootsCleared, Heard
  <2>2. QED
    BY <2>1, ClearUndisturbed
<1>2. QED
  BY <1>1 DEF RootsCleared

LEMMA DeliverCleared == ASSUME IInv, RootsCleared, Deliver PROVE RootsCleared'
<1> PICK k : k = Head(events)
  OBVIOUS
<1>1. /\ cachedRoots' = IF k \in Roots THEN [cachedRoots EXCEPT ![k] = roots[k]] ELSE cachedRoots
      /\ todo' = todo \union {k}
      /\ UNCHANGED <<job, gaveUp, leaves, services, svcEvents, overlooked, unlisted>>
  BY DEF Deliver, Enqueue, apiVars, outsideVars
<1>2. \A r \in Roots : r \notin todo' => cachedRoots'[r] = cachedRoots[r]
  BY <1>1 DEF IInv, TypeOK
<1>3. \A r \in Roots : Heard(r)' => Heard(r)
  BY <1>1, <1>2 DEF Heard
<1>4. \A l \in Leaves : Listed(l)' => Listed(l)
  BY <1>1 DEF Listed
<1>5. QED
  BY <1>1, <1>2, <1>3, <1>4, JobsStillClear

LEMMA DeliverServiceCleared ==
  ASSUME IInv, RootsCleared, NEW s \in Services, DeliverService(s)
  PROVE  RootsCleared'
<1>1. /\ svcEvents' = svcEvents \ {s}
      /\ overlooked' = overlooked \union trackedServices[s]
                                   \union {r \in Roots : s \in Range(cachedRoots[r].rules)}
      /\ UNCHANGED <<todo, job, gaveUp, leaves, services, cachedRoots, unlisted>>
  BY DEF DeliverService, queueVars, apiVars
<1>2. \A r \in Roots : Heard(r)' => Heard(r)
  BY <1>1 DEF Heard
<1>3. \A l \in Leaves : Listed(l)' => Listed(l)
  BY <1>1 DEF Listed
<1>4. QED
  BY <1>1, <1>2, <1>3, JobsStillClear

LEMMA EnqueueNextCleared == ASSUME IInv, RootsCleared, EnqueueNext PROVE RootsCleared'
<1>1. PICK q \in Roots :
        /\ todo' = todo \union {q} /\ overlooked' = overlooked \ {q}
        /\ UNCHANGED <<job, gaveUp, leaves, services, cachedRoots, svcEvents, unlisted>>
  BY DEF EnqueueNext, Enqueue, apiVars, informerVars
<1>2. /\ \A r \in Roots : Heard(r)' => Heard(r)
      /\ \A l \in Leaves : Listed(l)' => Listed(l)
  BY <1>1 DEF Heard, Listed
<1>3. QED
  BY <1>1, <1>2, JobsStillClear

LEMMA ResyncCleared ==
  ASSUME IInv, RootsCleared, NEW k \in Keys, Resync(k)
  PROVE  RootsCleared'
<1>1. /\ todo' = todo \union {k}
      /\ UNCHANGED <<job, gaveUp, leaves, services, cachedRoots, svcEvents, overlooked, unlisted>>
  BY DEF Resync, Enqueue, apiVars, informerVars, outsideVars
<1>2. /\ \A r \in Roots : Heard(r)' => Heard(r)
      /\ \A l \in Leaves : Listed(l)' => Listed(l)
  BY <1>1 DEF Heard, Listed
<1>3. QED
  BY <1>1, <1>2, JobsStillClear

LEMMA RestartCleared == ASSUME IInv, Restart PROVE RootsCleared'
<1> DEFINE alive(k) == IF k \in Roots THEN roots[k].live ELSE leaves[k].live
<1>1. /\ cachedRoots' = roots
      /\ todo' = {k \in Keys : alive(k)}
  BY DEF Restart
<1>2. QED
  BY <1>1 DEF RootsCleared, RootCleared, Heard, Keys

\* Nobody outside touches the controller's memory, or brings a leaf about.
LEMMA OutsideCleared ==
  ASSUME IInv, RootsCleared, NEW action, Outside(action),
         svcEvents \subseteq svcEvents',
         \A s \in Services : services[s] # Missing /\ s \notin svcEvents'
                             => services'[s] = services[s],
         \A l \in Leaves : leaves'[l].live /\ ~ leaves'[l].deleting
                           => leaves[l].live /\ ~ leaves[l].deleting
  PROVE  RootsCleared'
<1>1. UNCHANGED <<job, gaveUp, todo, cachedRoots, overlooked, unlisted>>
  BY DEF Outside, queueVars
<1>2. ASSUME NEW r \in Roots, Heard(r)'
      PROVE  /\ Heard(r)
             /\ \A s \in Range(cachedRoots[r].rules) :
                   services[s] # Missing => services'[s] = services[s]
  <2>1. Range(cachedRoots[r].rules) \subseteq Services
    BY DEF IInv, TypeOK, RootObject, Range
  <2>2. QED
    BY <1>1, <1>2, <2>1 DEF Heard
<1>3. \A l \in Leaves : Listed(l)' => Listed(l)
  BY <1>1 DEF Listed
<1>4. QED
  BY <1>1, <1>2, <1>3, JobsStillClear

\* A syncer, or whoever sets finalizers, writes a leaf.
LEMMA LeafWrittenCleared ==
  ASSUME IInv, RootsCleared, NEW action, Outside(action), UNCHANGED <<services, svcEvents>>,
         NEW l \in Leaves, NEW obj \in LeafObject, WriteLeaf(l, obj),
         obj.live /\ ~ obj.deleting => leaves[l].live /\ ~ leaves[l].deleting
  PROVE  RootsCleared'
<1>1. /\ \A o \in Leaves : o # l => leaves'[o] = leaves[o]
      /\ leaves'[l].live = obj.live /\ leaves'[l].deleting = obj.deleting
  BY LeafAfter DEF IInv
<1>2. \A o \in Leaves : leaves'[o].live /\ ~ leaves'[o].deleting
                        => leaves[o].live /\ ~ leaves[o].deleting
  BY <1>1
<1>3. QED
  BY <1>2, OutsideCleared

LEMMA EnvironmentCleared == ASSUME IInv, RootsCleared, Environment PROVE RootsCleared'
<1>0. \A l \in Leaves : leaves[l] \in LeafObject /\ leaves[l].rv \in Nat
  BY DEF IInv, TypeOK, LeafObject
<1>1. ASSUME NEW r \in Roots,
             DeleteRoot(r) \/ \E rules \in RulesOf[r] : CreateRoot(r, rules) \/ UpdateRoot(r, rules)
      PROVE  RootsCleared'
  BY <1>1, OutsideCleared DEF DeleteRoot, CreateRoot, UpdateRoot
<1>2. ASSUME NEW s \in Services, NEW c, UNCHANGED leaves,
             Outside("removeService") \/ Outside("placeService"),
             services' = [services EXCEPT ![s] = c],
             svcEvents \subseteq svcEvents', services[s] # Missing => s \in svcEvents'
      PROVE  RootsCleared'
  <2>1. \A x \in Services : services[x] # Missing /\ x \notin svcEvents'
                            => services'[x] = services[x]
    BY <1>2 DEF IInv, TypeOK
  <2>2. QED
    BY <1>2, <2>1, OutsideCleared
<1>3. ASSUME NEW s \in Services, RemoveService(s) PROVE RootsCleared'
  <2>1. /\ Outside("removeService") /\ UNCHANGED leaves
        /\ services' = [services EXCEPT ![s] = Missing]
        /\ svcEvents \subseteq svcEvents' /\ s \in svcEvents'
    BY <1>3 DEF RemoveService
  <2>2. QED
    BY <1>2, <2>1
<1>4. ASSUME NEW s \in Services, NEW c \in Clusters \union {NoCluster}, PlaceService(s, c)
      PROVE  RootsCleared'
  <2>1. /\ Outside("placeService") /\ UNCHANGED leaves
        /\ services' = [services EXCEPT ![s] = c]
        /\ svcEvents \subseteq svcEvents'
        /\ services[s] # Missing => s \in svcEvents'
    BY <1>4 DEF PlaceService
  <2>2. QED
    BY <1>2, <2>1
<1>5. ASSUME NEW l \in Leaves, Pin(l) PROVE RootsCleared'
  <2> PICK obj : obj = [leaves[l] EXCEPT !.pinned = TRUE]
    OBVIOUS
  <2>1. obj \in LeafObject /\ leaves[l].live /\ ~ leaves[l].deleting
    BY <1>0, <1>5 DEF LeafObject, Pin
  <2>2. Outside("pin") /\ WriteLeaf(l, obj) /\ UNCHANGED <<services, svcEvents>>
    BY <1>5 DEF Pin
  <2>3. QED
    BY <2>1, <2>2, LeafWrittenCleared
<1>6. ASSUME NEW l \in Leaves, Unpin(l) PROVE RootsCleared'
  <2> PICK free : free = [leaves[l] EXCEPT !.pinned = FALSE]
    OBVIOUS
  <2> PICK obj : obj = IF leaves[l].deleting THEN NoLeaf(leaves[l].rv) ELSE free
    OBVIOUS
  <2>1. /\ free \in LeafObject
        /\ free.live = leaves[l].live /\ free.deleting = leaves[l].deleting
    BY <1>0 DEF LeafObject
  <2>2. NoLeaf(leaves[l].rv) \in LeafObject /\ ~ NoLeaf(leaves[l].rv).live
    BY <1>0, NoObjects DEF NoLeaf
  <2>3. /\ obj \in LeafObject
        /\ obj.live /\ ~ obj.deleting => leaves[l].live /\ ~ leaves[l].deleting
    BY <2>1, <2>2
  <2>4. Outside("unpin") /\ WriteLeaf(l, obj) /\ UNCHANGED <<services, svcEvents>>
    BY <1>6 DEF Unpin
  <2>5. QED
    BY <2>3, <2>4, LeafWrittenCleared
<1>7. ASSUME NEW l \in Leaves, NEW lbs \in SUBSET LoadBalancers, ReportStatus(l, lbs)
      PROVE  RootsCleared'
  <2> PICK obj : obj = [leaves[l] EXCEPT !.lb = lbs]
    OBVIOUS
  <2>1. /\ obj \in LeafObject
        /\ obj.live = leaves[l].live /\ obj.deleting = leaves[l].deleting
    BY <1>0 DEF LeafObject
  <2>2. Outside("reportStatus") /\ WriteLeaf(l, obj) /\ UNCHANGED <<services, svcEvents>>
    BY <1>7 DEF ReportStatus
  <2>3. QED
    BY <2>1, <2>2, LeafWrittenCleared
<1>8. ASSUME NEW lb \in LoadBalancers, ChangeAddress(lb) PROVE RootsCleared'
  BY <1>8, OutsideCleared DEF ChangeAddress
<1>9. QED
  BY <1>1, <1>3, <1>4, <1>5, <1>6, <1>7, <1>8 DEF Environment

LEMMA InitCleared == Init => RootsCleared
BY DEF Init, RootsCleared, RootCleared, Heard, NoRoot

LEMMA NextCleared == IInv /\ LInv /\ RootsCleared /\ [Next]_vars => RootsCleared'
<1> SUFFICES ASSUME IInv, LInv, RootsCleared, [Next]_vars PROVE RootsCleared'
  OBVIOUS
<1>1. CASE UNCHANGED vars
  <2>1. UNCHANGED <<leaves, services, cachedRoots, svcEvents, todo, gaveUp, job, overlooked, unlisted>>
    BY <1>1 DEF vars, apiVars, informerVars, queueVars, outsideVars
  <2>2. QED
    BY <2>1, JobsStillClear DEF Heard, Listed
<1>2. CASE Next
  BY <1>2, WorkerCleared, CallFailsCleared, BeginCleared, DeliverCleared, DeliverServiceCleared,
     EnqueueNextCleared, ResyncCleared, RestartCleared, EnvironmentCleared DEF Next
<1>3. QED
  BY <1>1, <1>2

\* reconcile of a root, ingress.go:51-98: of a root the controller has heard everything
\* about, each leaf that the last list had is to be deleted by the job that has the
\* root, or is one its Services ask for.
THEOREM RootsClear == Spec => []RootsCleared
<1>1. Init => IInv /\ LInv /\ RootsCleared
  BY InitIInv, InitLInv, InitCleared
<1>2. IInv /\ LInv /\ RootsCleared /\ [Next]_vars => IInv' /\ LInv' /\ RootsCleared'
  BY NextIInv, NextLInv, NextCleared
<1>3. QED
  BY <1>1, <1>2, PTL DEF Spec

\* reconcile, ingress.go:67-75: once everything is quiet, a leaf that its root does not
\* desire any more is gone or being deleted, if the root was neither dropped nor
\* overlooked and its last list had the leaf.
THEOREM LeftoversGone == Spec => []NoLeftovers
<1>1. IInv /\ RootsCleared => NoLeftovers
  <2> SUFFICES ASSUME IInv, RootsCleared, NEW l \in Leaves,
                      leaves[l].live, l \notin unlisted, ~ leaves[l].deleting,
                      roots[l[1]].live, Settled(l[1]), l[1] \notin overlooked
               PROVE  l \in DesiredLeaves(l[1])
    BY DEF NoLeftovers
  <2> PICK r \in Roots : r = l[1]
    BY DEF Leaves
  <2>1. events = <<>> /\ svcEvents = {} /\ todo = {} /\ Busy = {} /\ r \notin gaveUp
    BY DEF Settled, Quiet
  <2>2. cachedRoots[r] = roots[r]
    BY <2>1 DEF IInv, CachedRootsCurrent
  <2>3. Heard(r) /\ Listed(l)
    BY <2>1, <2>2 DEF Heard, Listed
  <2>4. l \in Wanted(r, cachedRoots[r].rules)
    BY <2>1, <2>3 DEF RootsCleared, RootCleared
  <2>5. QED
    BY <2>2, <2>4 DEF Wanted, DesiredLeaves
<1>2. QED
  BY <1>1, InductiveInvariant, RootsClear, PTL

-----------------------------------------------------------------------------
(* Whose leaves a job deletes. *)

\* The leaves of a job on a root are of roots with the name of that root.
JobDropsNamesakes(j) == \A l \in j.drop : NameOf[l[1]] = NameOf[j.key]

DropsNamesakes == \A w \in Workers : JobDropsNamesakes(job[w])

LEMMA JobReplaced ==
  ASSUME IInv, DropsNamesakes, NEW w \in Workers, NEW j, JobDropsNamesakes(j),
         job' = [job EXCEPT ![w] = j]
  PROVE  DropsNamesakes'
BY DEF DropsNamesakes, JobDropsNamesakes, IInv, TypeOK

LEMMA JobEnds ==
  ASSUME IInv, DropsNamesakes, NEW w \in Workers, job' = [job EXCEPT ![w] = NoJob]
  PROVE  DropsNamesakes'
<1>1. JobDropsNamesakes(NoJob)
  BY DEF JobDropsNamesakes, NoJob
<1>2. QED
  BY <1>1, JobReplaced

\* A job goes on with some of the leaves it had, or of those of its root's name.
LEMMA FewerToDrop ==
  ASSUME IInv, DropsNamesakes, NEW w \in Workers, NEW j \in Job,
         j.key = job[w].key, j.drop \subseteq job[w].drop \union LeavesOwnedBy(job[w].key),
         Continue(w, j) \/ Continue(w, WriteStep(j))
  PROVE  DropsNamesakes'
<1>1. JobDropsNamesakes(j)
  BY DEF DropsNamesakes, JobDropsNamesakes, LeavesOwnedBy
<1> PICK k : k = WriteStep(j)
  OBVIOUS
<1>2. k.key = j.key /\ k.drop = j.drop
  BY DEF WriteStep, Job
<1>3. JobDropsNamesakes(k)
  BY <1>1, <1>2 DEF JobDropsNamesakes
<1>4. \/ job' = [job EXCEPT ![w] = NoJob]
      \/ job' = [job EXCEPT ![w] = j]
      \/ job' = [job EXCEPT ![w] = k]
  BY DEF Continue, Succeed
<1>5. QED
  BY <1>1, <1>3, <1>4, JobReplaced, JobEnds

LEMMA WorkerDropsNamesakes ==
  ASSUME IInv, DropsNamesakes, NEW w \in Workers, Worker(w)
  PROVE  DropsNamesakes'
<1> PICK j : j = job[w]
  OBVIOUS
<1>1. j \in Job
  BY DEF IInv, TypeOK
<1>2. ASSUME Fail(w) \/ Succeed(w, j.key) \/ RequeueAndForget(w) PROVE DropsNamesakes'
  BY <1>2, JobEnds DEF Fail, Succeed, RequeueAndForget
<1>3. ASSUME NEW k, k.key = j.key, k.drop = j.drop, job' = [job EXCEPT ![w] = k]
      PROVE  DropsNamesakes'
  <2>1. JobDropsNamesakes(k)
    BY <1>3 DEF DropsNamesakes, JobDropsNamesakes
  <2>2. QED
    BY <1>3, <2>1, JobReplaced
<1>4. CASE Patch(w) \/ ReadRoot(w) \/ ReconcileDNS(w) \/ UpdateStatus(w) \/ ReadLeaf(w)
  <2> PICK patched : patched = [j EXCEPT !.at = "list"]
    OBVIOUS
  <2> PICK rooted : rooted = [j EXCEPT !.at = "dns",
                                       !.host = cachedRoots[j.key[1]].host,
                                       !.rv = cachedRoots[j.key[1]].rv]
    OBVIOUS
  <2> PICK recorded : recorded = [j EXCEPT !.at = "status"]
    OBVIOUS
  <2> PICK read : read = [j EXCEPT !.at = "update", !.rv = leaves[Head(j.want)].rv]
    OBVIOUS
  <2>1. /\ patched.key = j.key /\ patched.drop = j.drop
        /\ rooted.key = j.key /\ rooted.drop = j.drop
        /\ recorded.key = j.key /\ recorded.drop = j.drop
        /\ read.key = j.key /\ read.drop = j.drop
    BY <1>1 DEF Job
  <2>2. Patch(w) => Fail(w) \/ job' = [job EXCEPT ![w] = patched]
    BY DEF Patch, IInv, TypeOK
  <2>3. ReadRoot(w) => Fail(w) \/ job' = [job EXCEPT ![w] = rooted]
    BY DEF ReadRoot, IInv, TypeOK
  <2>4. ReconcileDNS(w) => job' = [job EXCEPT ![w] = recorded]
    BY DEF ReconcileDNS, IInv, TypeOK
  <2>5. UpdateStatus(w) => Fail(w) \/ Succeed(w, j.key) \/ RequeueAndForget(w)
    BY DEF UpdateStatus
  <2>6. ReadLeaf(w) => Fail(w) \/ job' = [job EXCEPT ![w] = read]
    BY DEF ReadLeaf, IInv, TypeOK
  <2>7. \/ Fail(w) \/ Succeed(w, j.key) \/ RequeueAndForget(w)
        \/ job' = [job EXCEPT ![w] = patched] \/ job' = [job EXCEPT ![w] = rooted]
        \/ job' = [job EXCEPT ![w] = recorded] \/ job' = [job EXCEPT ![w] = read]
    BY <1>4, <2>2, <2>3, <2>4, <2>5, <2>6
  <2>8. QED
    BY <1>2, <1>3, <2>1, <2>7
<1>5. CASE List(w)
  <2> PICK k : k = [j EXCEPT !.drop = LeavesOwnedBy(j.key), !.left = j.rules]
    OBVIOUS
  <2> PICK g : g = [k EXCEPT !.at = "get"]
    OBVIOUS
  <2>1. /\ k \in Job /\ k.key = j.key /\ k.drop = LeavesOwnedBy(j.key)
        /\ g \in Job /\ g.key = j.key /\ g.drop = LeavesOwnedBy(j.key)
    BY <1>1 DEF Job, LeavesOwnedBy, RootSteps
  <2>2. Continue(w, WriteStep(k)) \/ Continue(w, g)
    BY <1>5 DEF List
  <2>3. QED
    BY <2>1, <2>2, FewerToDrop
<1>6. CASE GetService(w)
  <2> DEFINE s == Head(j.left)
             desired == IF services[s] \in Clusters
                        THEN Append(j.want, <<j.key, services[s]>>) ELSE j.want
  <2> PICK next : next = IF Len(j.left) > 1
                         THEN [j EXCEPT !.left = Tail(j.left), !.want = desired]
                         ELSE [j EXCEPT !.left = j.rules, !.want = desired, !.at = "track"]
    OBVIOUS
  <2>1. job' = [job EXCEPT ![w] = next] \/ Fail(w)
    BY <1>6 DEF GetService
  <2> HIDE DEF desired
  <2>2. next.key = j.key /\ next.drop = j.drop
    BY <1>1 DEF Job
  <2>3. QED
    BY <1>2, <1>3, <2>1, <2>2
<1>7. CASE Track(w)
  <2> PICK next : next = [j EXCEPT !.left = Tail(j.left)]
    OBVIOUS
  <2> PICK done : done = [j EXCEPT !.left = <<>>, !.drop = NotDesired(j.drop, j.want)]
    OBVIOUS
  <2>1. j.left \in Seq(Services) /\ j.left # <<>>
    BY <1>1, <1>7 DEF Track, Job, IInv, JobsShaped, JobShape
  <2>2. Tail(j.left) \in Seq(Services) /\ <<>> \in Seq(Services)
    BY <2>1, RangeTail
  <2>3. NotDesired(j.drop, j.want) \subseteq j.drop /\ j.drop \subseteq Leaves
    BY <1>1 DEF NotDesired, Job
  <2>4. /\ next \in Job /\ next.key = j.key /\ next.drop = j.drop
        /\ done \in Job /\ done.key = j.key /\ done.drop = NotDesired(j.drop, j.want)
    BY <1>1, <2>2, <2>3 DEF Job
  <2>5. Continue(w, next) \/ Continue(w, WriteStep(done))
    BY <1>7 DEF Track
  <2>6. next.drop \subseteq job[w].drop /\ done.drop \subseteq job[w].drop
    BY <2>3, <2>4
  <2>7. QED
    BY <2>4, <2>5, <2>6, FewerToDrop
<1>8. CASE DeleteLeaf(w)
  <2>1. PICK l \in j.drop : Continue(w, WriteStep([j EXCEPT !.drop = @ \ {l}])) \/ Fail(w)
    BY <1>8 DEF DeleteLeaf
  <2> PICK k : k = [j EXCEPT !.drop = @ \ {l}]
    OBVIOUS
  <2>2. k \in Job /\ k.key = j.key /\ k.drop \subseteq j.drop
    BY <1>1 DEF Job
  <2>3. QED
    BY <1>2, <2>1, <2>2, FewerToDrop
<1>9. CASE CreateLeaf(w) \/ UpdateLeaf(w)
  <2> PICK created : created = [j EXCEPT !.want = Tail(@)]
    OBVIOUS
  <2> PICK updated : updated = [j EXCEPT !.want = Tail(@), !.rv = 0]
    OBVIOUS
  <2> PICK read : read = [j EXCEPT !.at = "read"]
    OBVIOUS
  <2>1. j.want \in Seq(Leaves) /\ j.want # <<>>
    BY <1>1, <1>9 DEF CreateLeaf, UpdateLeaf, Job, IInv, JobsShaped, JobShape
  <2>2. Tail(j.want) \in Seq(Leaves)
    BY <2>1, RangeTail
  <2>3. /\ created \in Job /\ created.key = j.key /\ created.drop = j.drop
        /\ updated \in Job /\ updated.key = j.key /\ updated.drop = j.drop
        /\ read.key = j.key /\ read.drop = j.drop
    BY <1>1, <2>2 DEF Job
  <2>4. \/ Continue(w, WriteStep(created)) \/ Continue(w, WriteStep(updated))
        \/ job' = [job EXCEPT ![w] = read] \/ Fail(w)
    BY <1>9 DEF CreateLeaf, UpdateLeaf
  <2>5. QED
    BY <1>2, <1>3, <2>3, <2>4, FewerToDrop
<1>10. CASE RejectRecord(w)
  BY <1>2, <1>10 DEF RejectRecord
<1>11. QED
  BY <1>4, <1>5, <1>6, <1>7, <1>8, <1>9, <1>10 DEF Worker

LEMMA NextDropsNamesakes == IInv /\ DropsNamesakes /\ [Next]_vars => DropsNamesakes'
<1> SUFFICES ASSUME IInv, DropsNamesakes, [Next]_vars PROVE DropsNamesakes'
  OBVIOUS
<1>1. ASSUME UNCHANGED job PROVE DropsNamesakes'
  BY <1>1 DEF DropsNamesakes, JobDropsNamesakes
<1>2. CASE UNCHANGED vars \/ Deliver \/ (\E s \in Services : DeliverService(s))
           \/ EnqueueNext \/ (\E k \in Keys : Resync(k)) \/ Environment
  <2>1. UNCHANGED job
    BY <1>2 DEF vars, Deliver, DeliverService, EnqueueNext, Resync, Environment, Outside,
                DeleteRoot, CreateRoot, UpdateRoot, RemoveService, PlaceService, Pin, Unpin,
                ReportStatus, ChangeAddress
  <2>2. QED
    BY <1>1, <2>1
<1>3. CASE Restart
  BY <1>3 DEF Restart, DropsNamesakes, JobDropsNamesakes, NoJob
<1>4. ASSUME NEW w \in Workers, CallFails(w) PROVE DropsNamesakes'
  BY <1>4, JobEnds DEF CallFails, Fail
<1>5. ASSUME NEW w \in Workers, NEW k \in Keys, Begin(w, k) PROVE DropsNamesakes'
  <2>1. UNCHANGED job \/ \E j : j.drop = {} /\ job' = [job EXCEPT ![w] = j]
    BY <1>5 DEF Begin, ProcessDeleted, BeginRoot, BeginLeaf, NoJob
  <2>2. QED
    BY <1>1, <2>1, JobReplaced DEF JobDropsNamesakes
<1>6. QED
  BY <1>2, <1>3, <1>4, <1>5, WorkerDropsNamesakes DEF Next

\* Whatever two jobs and the outside do to a leaf, the step of a job on a root that
\* removes one removes one it has listed.
LEMMA DeletedWasListed ==
  ASSUME IInv, [Next]_vars, NEW w \in Workers, job[w].at = "delete", job'[w] # job[w],
         NEW l \in Leaves, leaves[l].live, ~ leaves'[l].live
  PROVE  l \in job[w].drop
<1>1. CASE UNCHANGED vars \/ Deliver \/ (\E s \in Services : DeliverService(s))
           \/ EnqueueNext \/ (\E k \in Keys : Resync(k)) \/ Environment
  BY <1>1 DEF vars, Deliver, DeliverService, EnqueueNext, Resync, Environment, Outside,
              DeleteRoot, CreateRoot, UpdateRoot, RemoveService, PlaceService, Pin, Unpin,
              ReportStatus, ChangeAddress
<1>2. CASE Restart
  BY <1>2 DEF Restart, apiVars
<1>3. ASSUME NEW v \in Workers, CallFails(v) \/ \E k \in Keys : Begin(v, k) PROVE FALSE
  <2>1. UNCHANGED leaves
    BY <1>3 DEF CallFails, Begin, ProcessDeleted, BeginRoot, BeginLeaf, apiVars
  <2>2. QED
    BY <2>1
<1>4. ASSUME NEW v \in Workers, Worker(v) PROVE l \in job[w].drop
  <2>1. v = w
    BY <1>4 DEF Worker, Patch, List, GetService, Track, DeleteLeaf, CreateLeaf, ReadLeaf,
                UpdateLeaf, ReadRoot, ReconcileDNS, RejectRecord, UpdateStatus,
                Continue, Succeed, Fail, RequeueAndForget, IInv, TypeOK
  <2>2. DeleteLeaf(w)
    BY <1>4, <2>1 DEF Worker, Patch, List, GetService, Track, CreateLeaf, ReadLeaf,
                      UpdateLeaf, ReadRoot, ReconcileDNS, RejectRecord, UpdateStatus
  <2>3. QED
    BY <2>2 DEF DeleteLeaf, DeleteLeafObject, WriteLeaf, IInv, TypeOK
<1>5. QED
  BY <1>1, <1>2, <1>3, <1>4 DEF Next

\* findNonDesiredLeaves and the lister compare names only: a job deletes leaves of
\* roots that have the name of its own, whatever namespace they are in.
THEOREM OnlyNamesakesDeleted ==
  Spec => [][\A w \in Workers : job[w].at = "delete"
               => \A l \in Leaves : leaves[l].live /\ ~ leaves'[l].live /\ job'[w] # job[w]
                                    => NameOf[l[1]] = NameOf[job[w].key]]_vars
<1>1. Init => DropsNamesakes
  BY DEF Init, DropsNamesakes, JobDropsNamesakes, NoJob
<1>2. IInv /\ DropsNamesakes /\ [Next]_vars
      => [\A w \in Workers : job[w].at = "delete"
            => \A l \in Leaves : leaves[l].live /\ ~ leaves'[l].live /\ job'[w] # job[w]
                                 => NameOf[l[1]] = NameOf[job[w].key]]_vars
  BY DeletedWasListed DEF DropsNamesakes, JobDropsNamesakes
<1>3. QED
  BY <1>1, <1>2, NextDropsNamesakes, InductiveInvariant, PTL DEF Spec

\* ingress.go:67, "Delete the leaves that are not desired anymore": where no two roots
\* have one name, a worker only deletes leaves of the root it reconciles.  Two roots of
\* one name in different namespaces are thus all it takes, and all there is, to break it.
THEOREM OwnLeavesDeleted ==
  ASSUME \A q, r \in Roots : NameOf[q] = NameOf[r] => q = r
  PROVE  Spec => OnlyOwnLeavesDeleted
<1>1. Init => DropsNamesakes
  BY DEF Init, DropsNamesakes, JobDropsNamesakes, NoJob
<1>2. IInv /\ DropsNamesakes /\ [Next]_vars
      => [\A w \in Workers : job[w].at = "delete"
            => \A l \in Leaves : leaves[l].live /\ ~ leaves'[l].live /\ job'[w] # job[w]
                                 => l[1] = job[w].key]_vars
  <2> SUFFICES ASSUME IInv, DropsNamesakes, [Next]_vars, NEW w \in Workers,
                      job[w].at = "delete", job'[w] # job[w],
                      NEW l \in Leaves, leaves[l].live, ~ leaves'[l].live
               PROVE  l[1] = job[w].key
    OBVIOUS
  <2>1. NameOf[l[1]] = NameOf[job[w].key]
    BY DeletedWasListed DEF DropsNamesakes, JobDropsNamesakes
  <2>2. job[w].key \in Roots /\ l[1] \in Roots
    BY DEF IInv, JobsShaped, JobShape, RootSteps, Leaves
  <2>3. QED
    BY <2>1, <2>2
<1>3. QED
  BY <1>1, <1>2, NextDropsNamesakes, InductiveInvariant, PTL DEF Spec, OnlyOwnLeavesDeleted

=============================================================================
