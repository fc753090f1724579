--------------------------- MODULE TrackerSlices ----------------------------
(***************************************************************************)
(* The tracker as the code stores it: one slice of Ingresses per Service.  *)
(* A slice is a length and a backing array; append writes in place while   *)
(* there is capacity and moves to an array twice as large otherwise, and   *)
(* deleteIngress shifts the rest of the slice one place down in the same   *)
(* array.  getIngress returns the slice itself, so ingressesFromService    *)
(* ranges, after the mutex is released, over an array that the workers go  *)
(* on writing.  An element is read whole: the tearing of a struct copied   *)
(* during a write is not modelled.                                         *)
(***************************************************************************)
EXTENDS Naturals, Sequences, SequencesExt

CONSTANTS
  Services, Ingresses,
  References,         \* the Services the rules of each Ingress may name
  NoService,          \* the Service of an idle handler
  NoIngress           \* the zero value in the unused part of an array

ASSUME ConstantsAssumption == /\ References \in [Ingresses -> SUBSET Services]
                              /\ NoService \notin Services
                              /\ NoIngress \notin Ingresses

VARIABLES
  trackedServices,    \* for each Service, its slice
  ingressToServices,  \* for each Ingress, the Services deleteIngress looks at
  loop                \* ingressesFromService, on the informer's goroutine

vars == <<trackedServices, ingressToServices, loop>>

Slice == [array : Seq(Ingresses \union {NoIngress}), len : Nat]
NoSlice == [array |-> <<>>, len |-> 0]

\* The range loop: the Service, the slice length fixed when the loop began, the
\* next index, the array when the slice has since left it (else <<>>), what has
\* been enqueued, and two histories: the Ingresses at its indices when the loop
\* began, and whether the array was shifted since.
Loop == [svc : Services \union {NoService}, len : Nat, pos : Nat,
         left : Seq(Ingresses \union {NoIngress}),
         seen : SUBSET Ingresses,
         began : Seq(Ingresses), shifted : BOOLEAN]
NoLoop == [svc |-> NoService, len |-> 0, pos |-> 1, left |-> <<>>,
           seen |-> {}, began |-> <<>>, shifted |-> FALSE]

TypeOK == /\ trackedServices \in [Services -> Slice]
          /\ \A s \in Services : trackedServices[s].len <= Len(trackedServices[s].array)
          /\ ingressToServices \in [Ingresses -> SUBSET Services]
          /\ loop \in Loop

Init == /\ trackedServices = [s \in Services |-> NoSlice]
        /\ ingressToServices = [i \in Ingresses |-> {}]
        /\ loop = NoLoop

\* The Ingresses a Service is tracked for.
Elements(s) == {trackedServices[s].array[j] : j \in 1 .. trackedServices[s].len}

-----------------------------------------------------------------------------
(* Slices. *)

\* append(slice, i): doubling is what the runtime does at these sizes.
Grown(sl, i) ==
  [array |-> SubSeq(sl.array, 1, sl.len) \o <<i>>
             \o [j \in 1 .. (IF sl.len = 0 THEN 0 ELSE sl.len - 1) |-> NoIngress],
   len |-> sl.len + 1]

\* Faulty: the capacity is not looked at.
appendInPlace(sl, i) ==
  [array |-> [sl.array EXCEPT ![sl.len + 1] = i], len |-> sl.len + 1]

appendTo(sl, i) ==
  IF sl.len < Len(sl.array)
  THEN [array |-> [sl.array EXCEPT ![sl.len + 1] = i], len |-> sl.len + 1]
  ELSE Grown(sl, i)

\* Faulty: append(slice[:p+1], slice[p+2:]...).
removeAfter(sl, p) ==
  [array |-> [j \in 1 .. Len(sl.array) |->
                IF p < j /\ j < sl.len THEN sl.array[j + 1] ELSE sl.array[j]],
   len |-> sl.len - 1]

\* append(slice[:p], slice[p+1:]...): in place, the last element stays behind.
removeAt(sl, p) ==
  [array |-> [j \in 1 .. Len(sl.array) |->
                IF p <= j /\ j < sl.len THEN sl.array[j + 1] ELSE sl.array[j]],
   len |-> sl.len - 1]

\* The slice after the first entry of i is removed.
without(sl, i) ==
  LET found == {j \in 1 .. sl.len : sl.array[j] = i}
  IN  IF found = {} THEN sl ELSE removeAt(sl, CHOOSE p \in found : \A q \in found : p <= q)

-----------------------------------------------------------------------------
(* Operations, each under the mutex, called by the workers. *)

\* Faulty: an Ingress already tracked for the Service is appended again.
addTwice(i, s) ==
  /\ Len(trackedServices[s].array) <= 4
  /\ trackedServices' = [trackedServices EXCEPT ![s] = appendTo(@, i)]
  /\ ingressToServices' = [ingressToServices EXCEPT ![i] = {s}]
  /\ UNCHANGED loop

\* tracker.add
add(i, s) ==
  \/ /\ i \in Elements(s)
     /\ UNCHANGED vars
  \/ LET sl == trackedServices[s]
     IN  /\ i \notin Elements(s)
         /\ trackedServices' = [trackedServices EXCEPT ![s] = appendTo(sl, i)]
         /\ ingressToServices' = [ingressToServices EXCEPT ![i] = {s}]
         /\ loop' = IF loop.svc = s /\ loop.left = <<>> /\ sl.len = Len(sl.array)
                    THEN [loop EXCEPT !.left = sl.array]
                    ELSE loop

\* Faulty: the slice is cut after the entry instead of around it.
deleteIngressCut(i) ==
  /\ trackedServices' =
       [s \in Services |->
          LET found == {j \in 1 .. trackedServices[s].len : trackedServices[s].array[j] = i}
          IN  IF s \in ingressToServices[i] /\ found # {}
              THEN [trackedServices[s] EXCEPT !.len = (CHOOSE p \in found : TRUE) - 1]
              ELSE trackedServices[s]]
  /\ ingressToServices' = [ingressToServices EXCEPT ![i] = {}]
  /\ UNCHANGED loop

\* tracker.deleteIngress: a slice that becomes empty leaves the map.
deleteIngress(i) ==
  LET after(s) == without(trackedServices[s], i)
      hit == {s \in ingressToServices[i] : i \in Elements(s)}
  IN  /\ trackedServices' =
           [s \in Services |-> IF s \notin hit THEN trackedServices[s]
                               ELSE IF after(s).len = 0 THEN NoSlice
                               ELSE after(s)]
      /\ ingressToServices' = [ingressToServices EXCEPT ![i] = {}]
      /\ loop' = IF loop.svc \in hit /\ loop.left = <<>>
                 THEN [loop EXCEPT
                         !.shifted = TRUE,
                         !.left = IF after(loop.svc).len = 0
                                  THEN after(loop.svc).array
                                  ELSE <<>>]
                 ELSE loop

-----------------------------------------------------------------------------
(* ingressesFromService, called by the Service informer. *)

\* tracker.getIngress found the Service: the loop ranges over its slice.
getIngress(s) ==
  /\ loop = NoLoop
  /\ trackedServices[s].len > 0
  /\ loop' = [NoLoop EXCEPT
                 !.svc = s,
                 !.len = trackedServices[s].len,
                 !.began = SubSeq(trackedServices[s].array, 1, trackedServices[s].len)]
  /\ UNCHANGED <<trackedServices, ingressToServices>>

\* Faulty: the loop stops one element early.
enqueueAllButLast ==
  LET array == IF loop.left = <<>> THEN trackedServices[loop.svc].array ELSE loop.left
  IN  /\ loop.svc # NoService
      /\ loop.pos < loop.len
      /\ loop' = [loop EXCEPT !.seen = @ \union {array[loop.pos]},
                              !.pos = IF loop.pos + 1 = loop.len THEN @ + 2 ELSE @ + 1]
      /\ UNCHANGED <<trackedServices, ingressToServices>>

\* One turn of the loop: the element is read now, from the shared array.
enqueueNext ==
  LET array == IF loop.left = <<>> THEN trackedServices[loop.svc].array ELSE loop.left
  IN  /\ loop.svc # NoService
      /\ loop.pos <= loop.len
      /\ loop' = [loop EXCEPT !.seen = @ \union {array[loop.pos]}, !.pos = @ + 1]
      /\ UNCHANGED <<trackedServices, ingressToServices>>

\* The handler returns.
endLoop ==
  /\ loop.svc # NoService
  /\ loop.pos > loop.len
  /\ loop' = NoLoop
  /\ UNCHANGED <<trackedServices, ingressToServices>>

Next == \/ \E i \in Ingresses : deleteIngress(i) \/ \E s \in References[i] : add(i, s)
        \/ \E s \in Services : getIngress(s)
        \/ enqueueNext
        \/ endLoop

Spec == Init /\ [][Next]_vars

-----------------------------------------------------------------------------
(* Properties. *)

\* add's early return keeps a Service from listing an Ingress twice, whatever
\* deletions left behind in the array; deleteIngress, which removes the first
\* entry it finds, relies on it.
NoDuplicates ==
  \A s \in Services : \A j, k \in 1 .. trackedServices[s].len :
    trackedServices[s].array[j] = trackedServices[s].array[k] => j = k

LoopFinished == loop.svc # NoService /\ loop.pos > loop.len

\* The loop as Tracker describes it.
SlotsLeft ==
  IF loop.svc = NoService \/ LoopFinished
  THEN [svc |-> NoService, slots |-> {}, owed |-> {}, shifted |-> FALSE]
  ELSE [svc |-> loop.svc,
        slots |-> {loop.began[j] : j \in loop.pos .. loop.len},
        owed |-> Range(loop.began) \ loop.seen,
        shifted |-> loop.shifted]

\* In-place shifts, in-place appends and reallocations leave exactly the sets
\* the tracker is meant to keep, and the loop enqueues, turn by turn, what it
\* found at the start until a deletion shifts the array, and an Ingress at each
\* turn after that.
T == INSTANCE Tracker WITH
       trackedServices <- [s \in Services |-> Elements(s)],
       loop <- SlotsLeft

ImplementsTracker == T!Spec

\* A Service recorded for an Ingress in ingressToServices lists that Ingress,
\* through any sequence of additions and deletions.
IndexSound == T!IndexSound

\* A loop whose array no deleteIngress shifted enqueues every Ingress that was
\* tracked when it began, although workers append to the same array and move
\* it while the loop runs.  (A deletion may shift an Ingress to an index the
\* loop has passed: then "all the related" ones are not enqueued.)
UnshiftedLoopCoversAll ==
  LoopFinished /\ ~ loop.shifted => Range(loop.began) \subseteq loop.seen

=============================================================================
