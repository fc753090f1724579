--------------------------- MODULE WorkQueueProofs --------------------------
(***************************************************************************)
(* Proofs about WorkQueue, for any sets of keys and workers and any number *)
(* of retries: the invariants the runs check, and that the queue keeps the *)
(* safety half of the promise of KeyQueue.                                 *)
(***************************************************************************)
EXTENDS WorkQueue, TLAPS

Elements(q) == {q[i] : i \in 1 .. Len(q)}

NoRepetition(q) == \A i, j \in 1 .. Len(q) : q[i] = q[j] => i = j

-----------------------------------------------------------------------------
(* Sequences: what Append and Tail do to the elements of a queue. *)

\* Appending adds one element, and no repetition if it is new.
LEMMA AppendElements ==
  ASSUME NEW q \in Seq(Keys), NEW k \in Keys
  PROVE  /\ Append(q, k) \in Seq(Keys)
         /\ Elements(Append(q, k)) = Elements(q) \union {k}
         /\ NoRepetition(q) /\ k \notin Elements(q) => NoRepetition(Append(q, k))
BY DEF Elements, NoRepetition

\* Taking the head off a queue without repetitions removes that element only.
LEMMA TailElements ==
  ASSUME NEW q \in Seq(Keys), q # <<>>, NoRepetition(q)
  PROVE  /\ Head(q) \in Elements(q)
         /\ Tail(q) \in Seq(Keys)
         /\ Elements(Tail(q)) = Elements(q) \ {Head(q)}
         /\ NoRepetition(Tail(q))
<1>1. /\ Tail(q) \in Seq(Keys)
      /\ Len(Tail(q)) = Len(q) - 1
      /\ \A i \in 1 .. Len(q) - 1 : Tail(q)[i] = q[i + 1]
      /\ Len(q) \in Nat \ {0}
      /\ Head(q) = q[1]
  OBVIOUS
<1>2. Elements(Tail(q)) = Elements(q) \ {Head(q)}
  <2>1. Elements(Tail(q)) \subseteq Elements(q) \ {Head(q)}
    BY <1>1 DEF Elements, NoRepetition
  <2>2. ASSUME NEW x \in Elements(q) \ {Head(q)}
        PROVE  x \in Elements(Tail(q))
    <3>1. PICK i \in 1 .. Len(q) : q[i] = x
      BY DEF Elements
    <3>2. i # 1 /\ i - 1 \in 1 .. Len(q) - 1 /\ Tail(q)[i - 1] = x
      BY <1>1, <3>1
    <3>3. QED
      BY <1>1, <3>2 DEF Elements
  <2>3. QED
    BY <2>1, <2>2
<1>3. NoRepetition(Tail(q))
  BY <1>1 DEF NoRepetition
<1>4. Head(q) \in Elements(q)
  BY <1>1 DEF Elements
<1>5. QED
  BY <1>1, <1>2, <1>3, <1>4

-----------------------------------------------------------------------------
(* The inductive invariant. *)

\* The key of a worker is one the queue counts as being processed, and a worker
\* has a key exactly between Get and Done.
HeldIsProcessing ==
  /\ processing = {cur[w] : w \in Workers} \ {NoKey}
  /\ \A w \in Workers : cur[w] = NoKey <=> at[w] = "get"

\* The limiter counted every requeue handleErr made since it forgot the key.
RetriesAreCounted == \A k \in Keys : retried[k] <= failures[k]

IInv == /\ TypeOK
        /\ ReadyIsDirtyAndIdle
        /\ HeldIsProcessing
        /\ OneWorkerPerKey
        /\ RetriesAreCounted

\* ReadyIsDirtyAndIdle in the words of the lemmas above.
LEMMA ReadyElements ==
  ReadyIsDirtyAndIdle <=> Elements(queue) = dirty \ processing /\ NoRepetition(queue)
BY DEF ReadyIsDirtyAndIdle, Elements, NoRepetition

LEMMA InitIInv == Init => IInv
BY ConstantsAssumption
   DEF Init, IInv, TypeOK, Steps, ReadyIsDirtyAndIdle, HeldIsProcessing, OneWorkerPerKey,
       RetriesAreCounted

\* Counting an addition keeps the count in range and above the requeues.
LEMMA BumpBounds ==
  ASSUME NEW n \in 0 .. MaxRetries
  PROVE  Bump(n) \in 0 .. MaxRetries /\ n <= Bump(n) /\ (n < MaxRetries => Bump(n) = n + 1)
BY ConstantsAssumption DEF Bump

\* Type.Add keeps the ready queue right, whether or not the key is dirty or
\* in the hands of a worker.
LEMMA AddReady ==
  ASSUME TypeOK, ReadyIsDirtyAndIdle, NEW k \in Keys, Add(k), UNCHANGED processing
  PROVE  /\ queue' \in Seq(Keys)
         /\ dirty' \subseteq Keys
         /\ ReadyIsDirtyAndIdle'
<1>1. Elements(queue) = dirty \ processing /\ NoRepetition(queue)
  BY ReadyElements
<1>2. queue \in Seq(Keys) /\ dirty \subseteq Keys
  BY DEF TypeOK
<1>3. CASE k \in dirty \union processing
  <2>1. queue' = queue /\ dirty' = dirty \union {k} /\ processing' = processing
    BY <1>3 DEF Add
  <2>2. dirty' \ processing' = dirty \ processing
    BY <1>3, <2>1
  <2>3. QED
    BY <1>1, <1>2, <2>1, <2>2 DEF ReadyIsDirtyAndIdle, Elements, NoRepetition
<1>4. CASE k \notin dirty \union processing
  <2>1. queue' = Append(queue, k) /\ dirty' = dirty \union {k} /\ processing' = processing
    BY <1>4 DEF Add
  <2>2. /\ queue' \in Seq(Keys)
        /\ Elements(queue') = dirty' \ processing'
        /\ NoRepetition(queue')
    BY <1>1, <1>2, <1>4, <2>1, AppendElements
  <2>3. QED
    BY <1>2, <2>1, <2>2 DEF ReadyIsDirtyAndIdle, Elements, NoRepetition
<1>5. QED
  BY <1>3, <1>4

-----------------------------------------------------------------------------
(* Every action preserves the invariant. *)

LEMMA EnqueueIInv ==
  ASSUME IInv, NEW k \in Keys, Enqueue(k)
  PROVE  IInv'
<1>1. /\ failures' = [failures EXCEPT ![k] = Bump(@)]
      /\ waiting' = waiting \union {k}
      /\ UNCHANGED <<queue, dirty, processing, cur, at, retried>>
  BY DEF Enqueue, AddRateLimited
<1>2. failures[k] \in 0 .. MaxRetries
  BY DEF IInv, TypeOK
<1>3. TypeOK'
  BY <1>1, <1>2, BumpBounds DEF IInv, TypeOK
<1>4. RetriesAreCounted'
  BY <1>1, <1>2, BumpBounds DEF IInv, TypeOK, RetriesAreCounted
<1>5. QED
  BY <1>1, <1>3, <1>4 DEF IInv, ReadyIsDirtyAndIdle, HeldIsProcessing, OneWorkerPerKey

LEMMA FireIInv ==
  ASSUME IInv, NEW k \in Keys, Fire(k)
  PROVE  IInv'
<1>1. /\ Add(k)
      /\ waiting' = waiting \ {k}
      /\ UNCHANGED <<processing, failures, cur, at, retried>>
  BY DEF Fire
<1>2. queue' \in Seq(Keys) /\ dirty' \subseteq Keys /\ ReadyIsDirtyAndIdle'
  BY <1>1, AddReady DEF IInv
<1>3. TypeOK'
  BY <1>1, <1>2 DEF IInv, TypeOK
<1>4. QED
  BY <1>1, <1>2, <1>3 DEF IInv, HeldIsProcessing, OneWorkerPerKey, RetriesAreCounted

LEMMA GetIInv ==
  ASSUME IInv, NEW w \in Workers, Get(w)
  PROVE  IInv'
<1> DEFINE k == Head(queue)
<1>1. /\ at[w] = "get"
      /\ queue # <<>>
      /\ queue' = Tail(queue)
      /\ processing' = processing \union {k}
      /\ dirty' = dirty \ {k}
      /\ cur' = [cur EXCEPT ![w] = k]
      /\ at' = [at EXCEPT ![w] = "process"]
      /\ UNCHANGED <<waiting, failures, retried>>
  BY DEF Get
<1>2. queue \in Seq(Keys) /\ Elements(queue) = dirty \ processing /\ NoRepetition(queue)
  BY ReadyElements DEF IInv, TypeOK
<1>3. /\ k \in Elements(queue)
      /\ queue' \in Seq(Keys)
      /\ Elements(queue') = Elements(queue) \ {k}
      /\ NoRepetition(queue')
  BY <1>1, <1>2, TailElements
<1>4. k \in Keys /\ k \notin processing /\ k # NoKey
  BY <1>2, <1>3, ConstantsAssumption DEF IInv, TypeOK
<1> HIDE DEF k
<1>5. TypeOK'
  BY <1>1, <1>3, <1>4 DEF IInv, TypeOK, Steps
<1>6. ReadyIsDirtyAndIdle'
  <2>1. Elements(queue') = dirty' \ processing'
    BY <1>1, <1>2, <1>3
  <2>2. QED
    BY <1>3, <2>1 DEF ReadyIsDirtyAndIdle, Elements, NoRepetition
<1>7. cur[w] = NoKey
  BY <1>1 DEF IInv, HeldIsProcessing
<1>8. HeldIsProcessing'
  BY <1>1, <1>4, <1>7 DEF IInv, TypeOK, HeldIsProcessing
<1>9. OneWorkerPerKey'
  <2>1. \A v \in Workers : cur[v] # k
    BY <1>4 DEF IInv, HeldIsProcessing
  <2>2. QED
    BY <1>1, <1>4, <2>1 DEF IInv, TypeOK, OneWorkerPerKey
<1>10. RetriesAreCounted'
  BY <1>1 DEF IInv, RetriesAreCounted
<1>11. QED
  BY <1>5, <1>6, <1>8, <1>9, <1>10 DEF IInv

\* The four outcomes of a reconciliation: none of them touches the queue.
LEMMA HandleIInv ==
  ASSUME IInv, NEW w \in Workers, Handle(w)
  PROVE  IInv'
<1> DEFINE k == cur[w]
<1>1. /\ at[w] \in {"process", "requeued"}
      /\ UNCHANGED <<queue, dirty, processing, cur>>
      /\ \E step \in {"requeued", "handled", "dropped"} : at' = [at EXCEPT ![w] = step]
  BY DEF Handle, RequeueOnConflict, HandleSuccess, HandleRetry, HandleGiveUp
<1>2. k \in Keys /\ failures[k] \in 0 .. MaxRetries /\ retried[k] \in Nat
  BY <1>1 DEF IInv, TypeOK, HeldIsProcessing
<1>3. ReadyIsDirtyAndIdle' /\ HeldIsProcessing' /\ OneWorkerPerKey'
  <2>1. ReadyIsDirtyAndIdle' /\ OneWorkerPerKey'
    BY <1>1 DEF IInv, ReadyIsDirtyAndIdle, OneWorkerPerKey
  <2>2. \A v \in Workers : at'[v] = "get" <=> at[v] = "get"
    BY <1>1 DEF IInv, TypeOK
  <2>3. HeldIsProcessing'
    BY <1>1, <2>2 DEF IInv, HeldIsProcessing
  <2>4. QED
    BY <2>1, <2>3
<1>4. at' \in [Workers -> Steps]
  BY <1>1 DEF IInv, TypeOK, Steps
<1> HIDE DEF k
<1>5. /\ waiting' \subseteq Keys
      /\ failures' \in [Keys -> 0 .. MaxRetries]
      /\ retried' \in [Keys -> Nat]
      /\ RetriesAreCounted'
  <2>1. CASE RequeueOnConflict(w)
    <3>1. /\ failures' = [failures EXCEPT ![k] = Bump(@)]
          /\ waiting' = waiting \union {k}
          /\ retried' = retried
      BY <2>1 DEF RequeueOnConflict, AddRateLimited, k
    <3>2. QED
      BY <1>2, <3>1, BumpBounds DEF IInv, TypeOK, RetriesAreCounted
  <2>2. CASE HandleSuccess(w) \/ HandleGiveUp(w)
    <3>1. /\ failures' = [failures EXCEPT ![k] = 0]
          /\ retried' = [retried EXCEPT ![k] = 0]
          /\ waiting' = waiting
      BY <2>2 DEF HandleSuccess, HandleGiveUp, Forget, k
    <3>2. QED
      BY <1>2, <3>1, ConstantsAssumption DEF IInv, TypeOK, RetriesAreCounted
  <2>3. CASE HandleRetry(w)
    <3>1. /\ failures[k] < MaxRetries
          /\ failures' = [failures EXCEPT ![k] = Bump(@)]
          /\ waiting' = waiting \union {k}
          /\ retried' = [retried EXCEPT ![k] = @ + 1]
      BY <2>3 DEF HandleRetry, AddRateLimited, k
    <3>2. QED
      BY <1>2, <3>1, BumpBounds DEF IInv, TypeOK, RetriesAreCounted
  <2>4. QED
    BY <2>1, <2>2, <2>3 DEF Handle
<1>6. TypeOK'
  BY <1>1, <1>4, <1>5 DEF IInv, TypeOK
<1>7. QED
  BY <1>3, <1>5, <1>6 DEF IInv

LEMMA DoneIInv ==
  ASSUME IInv, NEW w \in Workers, Done(w)
  PROVE  IInv'
<1> DEFINE k == cur[w]
<1>1. /\ at[w] \in {"handled", "dropped"}
      /\ processing' = processing \ {k}
      /\ queue' = IF k \in dirty THEN Append(queue, k) ELSE queue
      /\ cur' = [cur EXCEPT ![w] = NoKey]
      /\ at' = [at EXCEPT ![w] = "get"]
      /\ UNCHANGED <<dirty, waiting, failures, retried>>
  BY DEF Done
<1>2. k \in Keys /\ k \in processing /\ k # NoKey
  BY <1>1, ConstantsAssumption DEF IInv, TypeOK, HeldIsProcessing
<1>3. queue \in Seq(Keys) /\ Elements(queue) = dirty \ processing /\ NoRepetition(queue)
  BY ReadyElements DEF IInv, TypeOK
<1>4. \A v \in Workers : v # w => cur[v] # k
  BY <1>2 DEF IInv, OneWorkerPerKey, k
<1> HIDE DEF k
<1>5. /\ queue' \in Seq(Keys)
      /\ Elements(queue') = dirty' \ processing'
      /\ NoRepetition(queue')
  <2>1. CASE k \in dirty
    <3>1. /\ Append(queue, k) \in Seq(Keys)
          /\ Elements(Append(queue, k)) = Elements(queue) \union {k}
          /\ NoRepetition(Append(queue, k))
      BY <1>2, <1>3, AppendElements
    <3>2. QED
      BY <1>1, <1>2, <1>3, <2>1, <3>1
  <2>2. CASE k \notin dirty
    BY <1>1, <1>3, <2>2
  <2>3. QED
    BY <2>1, <2>2
<1>6. TypeOK'
  BY <1>1, <1>5 DEF IInv, TypeOK, Steps
<1>7. ReadyIsDirtyAndIdle'
  BY <1>5 DEF ReadyIsDirtyAndIdle, Elements, NoRepetition
<1>8. HeldIsProcessing'
  BY <1>1, <1>2, <1>4 DEF IInv, TypeOK, HeldIsProcessing, k
<1>9. OneWorkerPerKey'
  BY <1>1 DEF IInv, TypeOK, OneWorkerPerKey
<1>10. RetriesAreCounted'
  BY <1>1 DEF IInv, RetriesAreCounted
<1>11. QED
  BY <1>6, <1>7, <1>8, <1>9, <1>10 DEF IInv

LEMMA NextIInv == IInv /\ [Next]_vars => IInv'
<1> SUFFICES ASSUME IInv, [Next]_vars PROVE IInv'
  OBVIOUS
<1>1. ASSUME NEW k \in Keys, Enqueue(k) PROVE IInv'
  BY <1>1, EnqueueIInv
<1>2. ASSUME NEW k \in Keys, Fire(k) PROVE IInv'
  BY <1>2, FireIInv
<1>3. ASSUME NEW w \in Workers, Get(w) PROVE IInv'
  BY <1>3, GetIInv
<1>4. ASSUME NEW w \in Workers, Handle(w) PROVE IInv'
  BY <1>4, HandleIInv
<1>5. ASSUME NEW w \in Workers, Done(w) PROVE IInv'
  BY <1>5, DoneIInv
<1>6. CASE UNCHANGED vars
  <2>1. TypeOK' /\ RetriesAreCounted'
    BY <1>6 DEF vars, IInv, TypeOK, RetriesAreCounted
  <2>2. ReadyIsDirtyAndIdle' /\ HeldIsProcessing' /\ OneWorkerPerKey'
    BY <1>6 DEF vars, IInv, ReadyIsDirtyAndIdle, HeldIsProcessing, OneWorkerPerKey
  <2>3. QED
    BY <2>1, <2>2 DEF IInv
<1>7. QED
  BY <1>1, <1>2, <1>3, <1>4, <1>5, <1>6 DEF Next

-----------------------------------------------------------------------------
(* The theorems. *)

\* processNextWorkItem over client-go's queue: the invariant that Get, handleErr and
\* Done keep together, whoever adds keys meanwhile.
THEOREM InductiveInvariant == Spec => []IInv
BY InitIInv, NextIInv, PTL DEF Spec

\* client-go's queue and processNextWorkItem: every variable keeps its type, and
\* the count of the limiter stays within what handleErr tells apart.
THEOREM TypeCorrect == Spec => []TypeOK
BY InductiveInvariant, PTL DEF IInv

\* Add and Done: the ready queue holds each dirty key no worker has, once.
THEOREM QueueCorrect == Spec => []ReadyIsDirtyAndIdle
BY InductiveInvariant, PTL DEF IInv

\* Get and the deferred Done: no two workers ever reconcile one object at once.
THEOREM MutualExclusion == Spec => []OneWorkerPerKey
BY InductiveInvariant, PTL DEF IInv

\* handleErr: never more than MaxRetries requeues between two Forgets.
THEOREM BoundedRetries == Spec => []RetriesBounded
<1>1. ASSUME IInv, NEW k \in Keys
      PROVE  retried[k] <= MaxRetries
  <2>1. failures[k] \in 0 .. MaxRetries /\ retried[k] \in Nat /\ retried[k] <= failures[k]
    BY <1>1 DEF IInv, TypeOK, RetriesAreCounted
  <2>2. QED
    BY <2>1, ConstantsAssumption
<1>2. IInv => RetriesBounded
  BY <1>1 DEF RetriesBounded
<1>3. QED
  BY <1>2, InductiveInvariant, PTL

\* The queue refines the abstract one: an addition is owed until a Get takes it,
\* however it moves between the delayed keys, the dirty set and the FIFO.
THEOREM RefinesKeyQueue == Spec => KQ!Spec
<1>1. Init => KQ!Init
  BY DEF Init, KQ!Init
<1>2. IInv /\ [Next]_vars => [KQ!Next]_(KQ!vars)
  <2> SUFFICES ASSUME IInv, [Next]_vars PROVE [KQ!Next]_(KQ!vars)
    OBVIOUS
  <2> USE DEF KQ!Next, KQ!vars
  <2>1. ASSUME NEW k \in Keys, Enqueue(k) PROVE KQ!Notify(k)
    BY <2>1 DEF Enqueue, AddRateLimited, KQ!Notify
  <2>2. ASSUME NEW k \in Keys, Fire(k) PROVE UNCHANGED KQ!vars
    BY <2>2 DEF Fire, Add
  <2>3. ASSUME NEW w \in Workers, Get(w) PROVE KQ!Start(Head(queue)) /\ Head(queue) \in Keys
    <3>1. Elements(queue) = dirty \ processing /\ NoRepetition(queue) /\ queue \in Seq(Keys)
      BY ReadyElements DEF IInv, TypeOK
    <3>2. Head(queue) \in dirty \ processing /\ Head(queue) \in Keys
      BY <2>3, <3>1, TailElements DEF Get, IInv, TypeOK
    <3>3. QED
      BY <2>3, <3>2 DEF Get, KQ!Start
  <2>4. ASSUME NEW w \in Workers, Handle(w)
        PROVE  UNCHANGED KQ!vars \/ (cur[w] \in Keys /\ KQ!Notify(cur[w]))
    <3>1. cur[w] \in Keys
      BY <2>4 DEF IInv, TypeOK, HeldIsProcessing, Handle, RequeueOnConflict, HandleSuccess,
                  HandleRetry, HandleGiveUp
    <3>2. QED
      BY <2>4, <3>1 DEF Handle, RequeueOnConflict, HandleSuccess, HandleRetry, HandleGiveUp,
                        AddRateLimited, KQ!Notify
  <2>5. ASSUME NEW w \in Workers, Done(w) PROVE cur[w] \in Keys /\ KQ!Finish(cur[w])
    <3>1. cur[w] \in Keys /\ cur[w] \in processing
      BY <2>5, ConstantsAssumption DEF IInv, TypeOK, HeldIsProcessing, Done
    <3>2. QED
      BY <2>5, <3>1 DEF Done, KQ!Finish
  <2>6. CASE UNCHANGED vars
    BY <2>6 DEF vars
  <2>7. QED
    BY <2>1, <2>2, <2>3, <2>4, <2>5, <2>6 DEF Next
<1>3. QED
  BY <1>1, <1>2, InductiveInvariant, PTL DEF Spec, KQ!Spec

=============================================================================
