------------------------ MODULE TrackerSlicesProofs -------------------------
(***************************************************************************)
(* Proofs about TrackerSlices, for all Services, Ingresses and references: *)
(* the slices, their arrays and the shifts in place implement the sets of  *)
(* Tracker, and a loop over an array that nobody shifts misses nobody.     *)
(***************************************************************************)
EXTENDS TrackerSlices, SequenceTheorems, TLAPS

Element == Ingresses \union {NoIngress}

-----------------------------------------------------------------------------
(* Slices. *)

\* A slice within its array, whose elements are Ingresses, each once.
Proper(sl) ==
  /\ sl \in Slice /\ sl.len <= Len(sl.array)
  /\ \A j \in 1 .. sl.len : sl.array[j] \in Ingresses
  /\ \A j, k \in 1 .. sl.len : sl.array[j] = sl.array[k] => j = k

Listed(sl) == {sl.array[j] : j \in 1 .. sl.len}

\* Concatenation, one side at a time.
LEMMA Joined ==
  ASSUME NEW a \in Seq(Element), NEW b \in Seq(Element)
  PROVE  /\ a \o b \in Seq(Element) /\ Len(a \o b) = Len(a) + Len(b)
         /\ \A j \in 1 .. Len(a) : (a \o b)[j] = a[j]
         /\ \A j \in 1 .. Len(b) : (a \o b)[Len(a) + j] = b[j]
<1> DEFINE ab == a \o b
<1>1. /\ ab \in Seq(Element) /\ Len(ab) = Len(a) + Len(b)
      /\ \A j \in 1 .. Len(a) + Len(b) :
            ab[j] = IF j <= Len(a) THEN a[j] ELSE b[j - Len(a)]
  BY ConcatProperties
<1>2. Len(a) \in Nat /\ Len(b) \in Nat
  OBVIOUS
<1> HIDE DEF ab
<1>3. \A j \in 1 .. Len(a) : ab[j] = a[j]
  BY <1>1, <1>2
<1>4. ASSUME NEW j \in 1 .. Len(b) PROVE ab[Len(a) + j] = b[j]
  <2>1. Len(a) + j \in 1 .. Len(a) + Len(b) /\ ~ Len(a) + j <= Len(a) /\ Len(a) + j - Len(a) = j
    BY <1>2
  <2>2. QED
    BY <1>1, <2>1
<1>5. QED
  BY <1>1, <1>3, <1>4 DEF ab

\* append puts the new element behind the others, in the same array if it has
\* room.
LEMMA AppendTo ==
  ASSUME NEW sl \in Slice, sl.len <= Len(sl.array), NEW i \in Ingresses
  PROVE  /\ appendTo(sl, i) \in Slice
         /\ appendTo(sl, i).len = sl.len + 1
         /\ appendTo(sl, i).len <= Len(appendTo(sl, i).array)
         /\ Len(sl.array) <= Len(appendTo(sl, i).array)
         /\ \A j \in 1 .. sl.len : appendTo(sl, i).array[j] = sl.array[j]
         /\ appendTo(sl, i).array[sl.len + 1] = i
         /\ sl.len < Len(sl.array) =>
              \A j \in 1 .. Len(sl.array) :
                appendTo(sl, i).array[j] = IF j = sl.len + 1 THEN i ELSE sl.array[j]
<1>1. sl.array \in Seq(Element) /\ sl.len \in Nat
  BY DEF Slice, Element
<1>2. CASE sl.len < Len(sl.array)
  <2>1. appendTo(sl, i) = [array |-> [sl.array EXCEPT ![sl.len + 1] = i], len |-> sl.len + 1]
    BY <1>2 DEF appendTo
  <2>2. [sl.array EXCEPT ![sl.len + 1] = i] \in Seq(Element)
    BY <1>1, <1>2 DEF Element
  <2>3. QED
    BY <1>1, <1>2, <2>1, <2>2 DEF Slice, Element
<1>3. CASE ~ sl.len < Len(sl.array)
  <2> DEFINE front == SubSeq(sl.array, 1, sl.len)
             n == IF sl.len = 0 THEN 0 ELSE sl.len - 1
             rest == [j \in 1 .. n |-> NoIngress]
             longer == front \o <<i>>
             array == longer \o rest
  <2>1. /\ front \in Seq(Element) /\ Len(front) = sl.len
        /\ \A j \in 1 .. sl.len : front[j] = sl.array[j]
    BY <1>1, SubSeqProperties
  <2>2. rest \in Seq(Element) /\ Len(rest) = n /\ n \in Nat
    BY <1>1 DEF Element
  <2>3. /\ longer \in Seq(Element) /\ Len(longer) = sl.len + 1
        /\ \A j \in 1 .. sl.len : longer[j] = sl.array[j]
        /\ longer[sl.len + 1] = i
    <3>1. <<i>> \in Seq(Element) /\ Len(<<i>>) = 1 /\ <<i>>[1] = i
      BY DEF Element
    <3> DEFINE one == <<i>>
    <3> HIDE DEF front, one
    <3>2. one \in Seq(Element) /\ Len(one) = 1 /\ one[1] = i
      BY <3>1 DEF one
    <3>3. /\ front \o one \in Seq(Element) /\ Len(front \o one) = Len(front) + Len(one)
          /\ \A j \in 1 .. Len(front) : (front \o one)[j] = front[j]
          /\ \A j \in 1 .. Len(one) : (front \o one)[Len(front) + j] = one[j]
      BY <2>1, <3>2, Joined
    <3>4. (front \o one)[sl.len + 1] = i
      BY <2>1, <3>2, <3>3
    <3>5. QED
      BY <2>1, <3>2, <3>3, <3>4 DEF one
  <2> HIDE DEF front, rest, longer
  <2>4. /\ array \in Seq(Element) /\ Len(array) = sl.len + 1 + n
        /\ \A j \in 1 .. sl.len + 1 : array[j] = longer[j]
    <3> DEFINE both == longer \o rest
    <3>1. /\ both \in Seq(Element) /\ Len(both) = Len(longer) + Len(rest)
          /\ \A j \in 1 .. Len(longer) : both[j] = longer[j]
      BY <2>2, <2>3, Joined
    <3> HIDE DEF both
    <3>2. QED
      BY <2>2, <2>3, <3>1 DEF both
  <2>5. appendTo(sl, i) = [array |-> array, len |-> sl.len + 1]
    BY <1>3 DEF appendTo, Grown, front, rest, longer
  <2>6. sl.len = Len(sl.array)
    BY <1>1, <1>3
  <2> HIDE DEF array, n
  <2>7. QED
    BY <1>1, <2>2, <2>3, <2>4, <2>5, <2>6 DEF Slice, Element
<1>4. QED
  BY <1>2, <1>3

\* The shift in place drops one element and keeps the array's length.
LEMMA ShiftDown ==
  ASSUME NEW sl \in Slice, sl.len <= Len(sl.array), NEW p \in 1 .. sl.len
  PROVE  /\ removeAt(sl, p) \in Slice
         /\ removeAt(sl, p).len = sl.len - 1
         /\ Len(removeAt(sl, p).array) = Len(sl.array)
         /\ \A j \in 1 .. sl.len - 1 :
               removeAt(sl, p).array[j] = sl.array[IF j < p THEN j ELSE j + 1]
         /\ \A j \in 1 .. Len(sl.array) :
               removeAt(sl, p).array[j] = IF p <= j /\ j < sl.len THEN sl.array[j + 1]
                                                                 ELSE sl.array[j]
<1>1. sl.array \in Seq(Element) /\ sl.len \in Nat /\ Len(sl.array) \in Nat
  BY DEF Slice, Element
<1> DEFINE array == [j \in 1 .. Len(sl.array) |->
                      IF p <= j /\ j < sl.len THEN sl.array[j + 1] ELSE sl.array[j]]
<1>2. \A j \in 1 .. Len(sl.array) :
         (IF p <= j /\ j < sl.len THEN sl.array[j + 1] ELSE sl.array[j]) \in Element
  BY <1>1
<1>3. array \in Seq(Element) /\ Len(array) = Len(sl.array)
  BY <1>1, <1>2
<1>4. removeAt(sl, p) = [array |-> array, len |-> sl.len - 1]
  BY DEF removeAt
<1>5. \A j \in 1 .. sl.len - 1 : array[j] = sl.array[IF j < p THEN j ELSE j + 1]
  BY <1>1
<1>6. QED
  BY <1>1, <1>3, <1>4, <1>5 DEF Slice, Element

LEMMA AppendProper ==
  ASSUME NEW sl, Proper(sl), NEW i \in Ingresses, i \notin Listed(sl)
  PROVE  /\ Proper(appendTo(sl, i))
         /\ Listed(appendTo(sl, i)) = Listed(sl) \union {i}
<1> DEFINE new == appendTo(sl, i)
<1>1. sl \in Slice /\ sl.len \in Nat /\ sl.len <= Len(sl.array)
  BY DEF Proper, Slice
<1>2. /\ new \in Slice /\ new.len = sl.len + 1 /\ new.len <= Len(new.array)
      /\ \A j \in 1 .. sl.len : new.array[j] = sl.array[j]
      /\ new.array[sl.len + 1] = i
  BY <1>1, AppendTo
<1>3. 1 .. new.len = (1 .. sl.len) \union {sl.len + 1}
  BY <1>1, <1>2
<1> HIDE DEF new
<1>4. \A j \in 1 .. new.len : new.array[j] \in Ingresses
  BY <1>2, <1>3 DEF Proper
<1>5. \A j, k \in 1 .. new.len : new.array[j] = new.array[k] => j = k
  BY <1>1, <1>2, <1>3 DEF Proper, Listed
<1>6. Listed(new) = Listed(sl) \union {i}
  BY <1>2, <1>3 DEF Listed
<1>7. QED
  BY <1>2, <1>4, <1>5, <1>6 DEF Proper, new

\* deleteIngress removes the first entry it finds: there is no other.
LEMMA WithoutProper ==
  ASSUME NEW sl, Proper(sl), NEW i \in Listed(sl)
  PROVE  /\ Proper(without(sl, i))
         /\ Listed(without(sl, i)) = Listed(sl) \ {i}
         /\ Len(without(sl, i).array) = Len(sl.array)
         /\ without(sl, i).len + 1 = sl.len
         /\ \A j \in 1 .. Len(sl.array) :
              sl.array[j] \in Ingresses => without(sl, i).array[j] \in Ingresses
<1>1. sl \in Slice /\ sl.len \in Nat /\ sl.len <= Len(sl.array)
  BY DEF Proper, Slice
<1>2. PICK p \in 1 .. sl.len : sl.array[p] = i
  BY DEF Listed
<1>3. \A j \in 1 .. sl.len : sl.array[j] = i <=> j = p
  BY <1>2 DEF Proper
<1>4. without(sl, i) = removeAt(sl, p)
  <2>1. {j \in 1 .. sl.len : sl.array[j] = i} = {p}
    BY <1>3
  <2>2. (CHOOSE x \in {p} : \A q \in {p} : x <= q) = p
    BY <1>1
  <2>3. QED
    BY <2>1, <2>2 DEF without
<1> DEFINE new == removeAt(sl, p)
           at(j) == IF j < p THEN j ELSE j + 1
<1>5. /\ new \in Slice /\ new.len = sl.len - 1 /\ Len(new.array) = Len(sl.array)
      /\ \A j \in 1 .. sl.len - 1 : new.array[j] = sl.array[at(j)]
      /\ \A j \in 1 .. Len(sl.array) : sl.array[j] \in Ingresses => new.array[j] \in Ingresses
  <2>1. /\ new \in Slice /\ new.len = sl.len - 1 /\ Len(new.array) = Len(sl.array)
        /\ \A j \in 1 .. sl.len - 1 : new.array[j] = sl.array[IF j < p THEN j ELSE j + 1]
        /\ \A j \in 1 .. Len(sl.array) :
              new.array[j] = IF p <= j /\ j < sl.len THEN sl.array[j + 1] ELSE sl.array[j]
    BY <1>1, ShiftDown
  <2> HIDE DEF new
  <2>2. \A j \in 1 .. Len(sl.array) : j < sl.len => sl.array[j + 1] \in Ingresses
    <3>1. \A j \in 1 .. Len(sl.array) : j < sl.len => j + 1 \in 1 .. sl.len
      BY <1>1
    <3>2. QED
      BY <3>1 DEF Proper
  <2>3. QED
    BY <2>1, <2>2
<1>6. /\ \A j \in 1 .. sl.len - 1 : at(j) \in 1 .. sl.len /\ at(j) # p
      /\ \A j, k \in 1 .. sl.len - 1 : at(j) = at(k) => j = k
      /\ \A k \in 1 .. sl.len : k # p => \E j \in 1 .. sl.len - 1 : at(j) = k
  <2>1. ASSUME NEW k \in 1 .. sl.len, k # p PROVE \E j \in 1 .. sl.len - 1 : at(j) = k
    <3>1. CASE k < p
      BY <1>1, <3>1
    <3>2. CASE k > p
      <4>1. k - 1 \in 1 .. sl.len - 1 /\ at(k - 1) = k
        BY <1>1, <3>2
      <4>2. QED
        BY <4>1
    <3>3. QED
      BY <1>1, <2>1, <3>1, <3>2
  <2>2. QED
    BY <1>1, <2>1
<1> HIDE DEF new, at
<1>7. Proper(new)
  <2>1. new \in Slice /\ new.len <= Len(new.array)
    BY <1>1, <1>5
  <2>2. \A j \in 1 .. new.len : new.array[j] \in Ingresses
    BY <1>5, <1>6 DEF Proper
  <2>3. ASSUME NEW j \in 1 .. new.len, NEW k \in 1 .. new.len, new.array[j] = new.array[k]
        PROVE  j = k
    <3>1. sl.array[at(j)] = sl.array[at(k)] /\ at(j) \in 1 .. sl.len /\ at(k) \in 1 .. sl.len
      BY <1>5, <1>6, <2>3
    <3>2. at(j) = at(k)
      BY <3>1 DEF Proper
    <3>3. QED
      BY <1>5, <1>6, <3>2
  <2>4. QED
    BY <2>1, <2>2, <2>3 DEF Proper
<1>8. Listed(new) = Listed(sl) \ {i}
  <2>1. \A j \in 1 .. new.len : new.array[j] \in Listed(sl) /\ new.array[j] # i
    BY <1>3, <1>5, <1>6 DEF Listed
  <2>2. \A k \in 1 .. sl.len : sl.array[k] # i => \E j \in 1 .. new.len : new.array[j] = sl.array[k]
    BY <1>2, <1>5, <1>6
  <2>3. QED
    BY <2>1, <2>2 DEF Listed
<1>9. QED
  BY <1>1, <1>4, <1>5, <1>7, <1>8 DEF new

-----------------------------------------------------------------------------
(* The invariant. *)

SlicesProper == \A s \in Services : Proper(trackedServices[s])

\* The array the loop reads.
Array == IF loop.left = <<>> THEN trackedServices[loop.svc].array ELSE loop.left

\* As long as its array is not shifted, each index of the loop holds the Ingress
\* it held when the loop began, enqueued once the index is behind the loop.
AsBegun ==
  /\ loop.left = <<>> => loop.len <= trackedServices[loop.svc].len
  /\ \A j \in 1 .. loop.len : /\ Array[j] = loop.began[j]
                              /\ j < loop.pos => loop.began[j] \in loop.seen

\* A loop stays within its array, on indices that hold Ingresses; it began with
\* each of them once.
LoopSound ==
  loop.svc # NoService =>
    /\ 1 <= loop.len /\ loop.len <= Len(Array)
    /\ 1 <= loop.pos
    /\ \A j \in 1 .. loop.len : Array[j] \in Ingresses
    /\ Len(loop.began) = loop.len
    /\ \A j, k \in 1 .. loop.len : loop.began[j] = loop.began[k] => j = k
    /\ ~ loop.shifted => AsBegun

RecordsSound == \A i \in Ingresses : \A s \in ingressToServices[i] : i \in Elements(s)

IInv == TypeOK /\ SlicesProper /\ RecordsSound /\ LoopSound

LEMMA ArrayType ==
  ASSUME TypeOK, loop.svc # NoService
  PROVE  /\ loop.svc \in Services /\ loop.len \in Nat /\ loop.pos \in Nat
         /\ Array \in Seq(Element)
<1>1. loop.svc \in Services /\ loop.len \in Nat /\ loop.pos \in Nat /\ loop.left \in Seq(Element)
  BY DEF TypeOK, Loop, Element
<1>2. trackedServices[loop.svc].array \in Seq(Element)
  BY <1>1 DEF TypeOK, Slice, Element
<1>3. QED
  BY <1>1, <1>2 DEF Array

\* What is proper is typed as TypeOK asks.
LEMMA SlicesTyped ==
  ASSUME SlicesProper, trackedServices = [s \in Services |-> trackedServices[s]]
  PROVE  /\ trackedServices \in [Services -> Slice]
         /\ \A s \in Services : trackedServices[s].len <= Len(trackedServices[s].array)
BY DEF SlicesProper, Proper

LEMMA Initially == Init => IInv
<1> SUFFICES ASSUME Init PROVE IInv
  OBVIOUS
<1>1. NoSlice \in Slice /\ NoSlice.len = 0 /\ Len(NoSlice.array) = 0
  BY DEF NoSlice, Slice
<1>2. SlicesProper
  BY <1>1 DEF Init, SlicesProper, Proper
<1>3. <<>> \in Seq(Ingresses \union {NoIngress})
  OBVIOUS
<1>4. loop \in Loop
  BY <1>3 DEF Init, NoLoop, Loop
<1>5. TypeOK
  BY <1>1, <1>4 DEF TypeOK, Init
<1>6. RecordsSound
  BY DEF RecordsSound, Init
<1>7. LoopSound
  BY DEF LoopSound, Init, NoLoop
<1>8. QED
  BY <1>2, <1>5, <1>6, <1>7 DEF IInv

-----------------------------------------------------------------------------
(* The workers' steps. *)

\* What a step of add or deleteIngress makes of the slices, as sets.
LEMMA AddSlices ==
  ASSUME IInv, NEW i \in Ingresses, NEW s \in Services, i \notin Elements(s), add(i, s)
  PROVE  /\ SlicesProper'
         /\ trackedServices' = [r \in Services |-> trackedServices'[r]]
         /\ ingressToServices' = [ingressToServices EXCEPT ![i] = {s}]
         /\ \A r \in Services : Elements(r)' = IF r = s THEN Elements(s) \union {i} ELSE Elements(r)
<1> DEFINE sl == trackedServices[s]
           new == appendTo(sl, i)
<1>1. Proper(sl) /\ i \notin Listed(sl)
  BY DEF IInv, SlicesProper, Elements, Listed
<1>2. Proper(new) /\ Listed(new) = Listed(sl) \union {i}
  BY <1>1, AppendProper
<1>3. /\ trackedServices' = [trackedServices EXCEPT ![s] = new]
      /\ ingressToServices' = [ingressToServices EXCEPT ![i] = {s}]
  BY DEF add
<1> HIDE DEF new
<1>4. trackedServices' = [r \in Services |-> IF r = s THEN new ELSE trackedServices[r]]
  BY <1>3 DEF IInv, TypeOK
<1>5. SlicesProper'
  BY <1>2, <1>4 DEF IInv, SlicesProper
<1>6. ASSUME NEW r \in Services
      PROVE  Elements(r)' = IF r = s THEN Elements(s) \union {i} ELSE Elements(r)
  BY <1>2, <1>4 DEF Elements, Listed
<1>7. QED
  BY <1>3, <1>4, <1>5, <1>6

LEMMA DeleteSlices ==
  ASSUME IInv, NEW i \in Ingresses, deleteIngress(i)
  PROVE  /\ SlicesProper'
         /\ trackedServices' = [s \in Services |-> trackedServices'[s]]
         /\ ingressToServices' = [ingressToServices EXCEPT ![i] = {}]
         /\ \A s \in Services : Elements(s)' = IF s \in ingressToServices[i]
                                               THEN Elements(s) \ {i} ELSE Elements(s)
<1> DEFINE after(s) == without(trackedServices[s], i)
           hit == {s \in ingressToServices[i] : i \in Elements(s)}
           new(s) == IF s \notin hit THEN trackedServices[s]
                     ELSE IF after(s).len = 0 THEN NoSlice ELSE after(s)
<1>1. /\ trackedServices' = [s \in Services |-> new(s)]
      /\ ingressToServices' = [ingressToServices EXCEPT ![i] = {}]
  BY DEF deleteIngress
<1>2. ASSUME NEW s \in Services
      PROVE  /\ Proper(new(s))
             /\ Listed(new(s)) = IF s \in ingressToServices[i]
                                 THEN Listed(trackedServices[s]) \ {i}
                                 ELSE Listed(trackedServices[s])
  <2>1. Proper(trackedServices[s]) /\ Elements(s) = Listed(trackedServices[s])
    BY DEF IInv, SlicesProper, Elements, Listed
  <2>2. CASE s \notin hit
    BY <2>1, <2>2
  <2>3. CASE s \in hit
    <3>1. Proper(after(s)) /\ Listed(after(s)) = Listed(trackedServices[s]) \ {i}
      BY <2>1, <2>3, WithoutProper
    <3> HIDE DEF after
    <3>2. CASE after(s).len = 0
      <4>1. Listed(after(s)) = {}
        BY <3>2 DEF Listed
      <4>2. Proper(NoSlice) /\ Listed(NoSlice) = {}
        BY DEF NoSlice, Proper, Slice, Listed
      <4>3. QED
        BY <2>3, <3>1, <3>2, <4>1, <4>2
    <3>3. CASE after(s).len # 0
      BY <2>3, <3>1, <3>3
    <3>4. QED
      BY <3>2, <3>3
  <2>4. QED
    BY <2>2, <2>3
<1> HIDE DEF new
<1>3. SlicesProper'
  BY <1>1, <1>2 DEF SlicesProper
<1>4. ASSUME NEW s \in Services
      PROVE  Elements(s)' = IF s \in ingressToServices[i] THEN Elements(s) \ {i} ELSE Elements(s)
  <2>1. Elements(s)' = Listed(new(s)) /\ Elements(s) = Listed(trackedServices[s])
    BY <1>1 DEF Elements, Listed
  <2>2. QED
    BY <1>2, <2>1
<1>5. trackedServices' = [s \in Services |-> trackedServices'[s]]
  BY <1>1
<1>6. QED
  BY <1>1, <1>3, <1>4, <1>5

\* An append leaves the array the loop reads as it is up to the loop's end,
\* in place or, when the slice moves, in the array left behind.
LEMMA AddLoop ==
  ASSUME IInv, NEW i \in Ingresses, NEW s \in Services, i \notin Elements(s), add(i, s)
  PROVE  loop' \in Loop /\ LoopSound'
<1> DEFINE sl == trackedServices[s]
           new == appendTo(sl, i)
           moved == loop.svc = s /\ loop.left = <<>> /\ sl.len = Len(sl.array)
<1>1. /\ trackedServices' = [trackedServices EXCEPT ![s] = new]
      /\ loop' = IF moved THEN [loop EXCEPT !.left = sl.array] ELSE loop
  BY DEF add
<1>2. Proper(sl) /\ sl \in Slice /\ sl.len \in Nat
  BY DEF IInv, SlicesProper, Proper, Slice
<1>3. /\ new.len = sl.len + 1 /\ Len(sl.array) <= Len(new.array) /\ Len(new.array) \in Nat
      /\ \A j \in 1 .. sl.len : new.array[j] = sl.array[j]
      /\ sl.len < Len(sl.array) =>
           \A j \in 1 .. Len(sl.array) :
             new.array[j] = IF j = sl.len + 1 THEN i ELSE sl.array[j]
  <2>1. sl.len <= Len(sl.array)
    BY <1>2 DEF Proper
  <2> HIDE DEF sl
  <2>2. /\ new \in Slice /\ new.len = sl.len + 1 /\ Len(sl.array) <= Len(new.array)
        /\ \A j \in 1 .. sl.len : new.array[j] = sl.array[j]
        /\ sl.len < Len(sl.array) =>
             \A j \in 1 .. Len(sl.array) :
               new.array[j] = IF j = sl.len + 1 THEN i ELSE sl.array[j]
    BY <1>2, <2>1, AppendTo
  <2> HIDE DEF new
  <2>3. Len(new.array) \in Nat
    BY <2>2 DEF Slice
  <2>4. QED
    BY <2>2, <2>3
<1> HIDE DEF new
<1>4. loop \in Loop /\ trackedServices \in [Services -> Slice]
  BY DEF IInv, TypeOK
<1>5. loop' \in Loop
  BY <1>1, <1>2, <1>4 DEF Loop, Slice
<1>6. ASSUME loop'.svc # NoService
      PROVE  LoopSound'
  <2>1. loop.svc # NoService /\ loop.svc \in Services /\ loop.len \in Nat /\ loop.pos \in Nat
    BY <1>1, <1>4, <1>6 DEF Loop
  <2>2. /\ 1 <= loop.len /\ loop.len <= Len(Array) /\ 1 <= loop.pos
        /\ \A j \in 1 .. loop.len : Array[j] \in Ingresses
        /\ Len(loop.began) = loop.len
        /\ \A j, k \in 1 .. loop.len : loop.began[j] = loop.began[k] => j = k
        /\ ~ loop.shifted => AsBegun
    BY <2>1 DEF IInv, LoopSound
  <2>3. CASE moved
    <3>1. Array = sl.array /\ sl.array # <<>>
      BY <1>2, <2>1, <2>2, <2>3 DEF Array
    <3>2. loop' = [loop EXCEPT !.left = sl.array] /\ loop'.left = sl.array
      BY <1>1, <1>4, <2>3 DEF Loop
    <3>3. Array' = Array
      BY <3>1, <3>2 DEF Array
    <3>4. /\ loop'.len = loop.len /\ loop'.pos = loop.pos /\ loop'.shifted = loop.shifted
          /\ loop'.began = loop.began /\ loop'.seen = loop.seen
      BY <1>4, <3>2 DEF Loop
    <3>5. AsBegun => AsBegun'
      BY <3>1, <3>2, <3>3, <3>4 DEF AsBegun
    <3>6. QED
      BY <2>2, <3>3, <3>4, <3>5 DEF LoopSound
  <2>4. CASE ~ moved
    <3>1. loop' = loop
      BY <1>1, <2>4
    <3>2. CASE loop.left # <<>> \/ loop.svc # s
      <4>1. Array' = Array
        BY <1>1, <1>4, <2>1, <3>1, <3>2 DEF Array
      <4>2. loop.left = <<>> => trackedServices'[loop.svc].len = trackedServices[loop.svc].len
        BY <1>1, <1>4, <2>1, <3>2
      <4>3. AsBegun => AsBegun'
        BY <3>1, <4>1, <4>2 DEF AsBegun
      <4>4. QED
        BY <2>2, <3>1, <4>1, <4>3 DEF LoopSound
    <3>3. CASE loop.left = <<>> /\ loop.svc = s
      <4>1. Array = sl.array /\ Array' = new.array /\ trackedServices'[s].len = sl.len + 1
        BY <1>1, <1>3, <1>4, <3>1, <3>3 DEF Array
      <4>2. loop.len <= Len(Array')
        BY <1>2, <1>3, <2>1, <2>2, <4>1 DEF Slice
      <4>3. ASSUME ~ loop.shifted PROVE AsBegun'
        <5>1. loop.len <= sl.len
          BY <2>2, <3>3, <4>3 DEF AsBegun
        <5>2. \A j \in 1 .. loop.len : Array'[j] = Array[j]
          BY <1>2, <1>3, <2>1, <4>1, <5>1
        <5>3. loop.len <= trackedServices'[loop.svc].len
          BY <1>2, <2>1, <3>3, <4>1, <5>1
        <5> HIDE DEF sl
        <5>4. QED
          BY <2>2, <3>1, <4>3, <5>2, <5>3 DEF AsBegun
      <4>4. \A j \in 1 .. loop.len : Array'[j] \in Ingresses
        <5>1. sl.len < Len(sl.array)
          BY <1>2, <2>4, <3>3 DEF Proper, Slice
        <5>2. \A j \in 1 .. loop.len : j \in 1 .. Len(sl.array)
          BY <1>2, <2>1, <2>2, <4>1 DEF Slice
        <5> HIDE DEF sl
        <5>3. QED
          BY <1>3, <2>2, <4>1, <5>1, <5>2
      <4>5. QED
        BY <2>2, <3>1, <4>2, <4>3, <4>4 DEF LoopSound
    <3>4. QED
      BY <3>2, <3>3
  <2>5. QED
    BY <2>3, <2>4
<1>7. QED
  BY <1>5, <1>6 DEF LoopSound

\* A deletion shifts the array the loop reads, and says so, or leaves it alone.
LEMMA DeleteLoop ==
  ASSUME IInv, NEW i \in Ingresses, deleteIngress(i)
  PROVE  loop' \in Loop /\ LoopSound'
<1> DEFINE after(s) == without(trackedServices[s], i)
           hit == {s \in ingressToServices[i] : i \in Elements(s)}
           left == IF after(loop.svc).len = 0 THEN after(loop.svc).array ELSE <<>>
           struck == loop.svc \in hit /\ loop.left = <<>>
<1>1. /\ trackedServices' = [s \in Services |-> IF s \notin hit THEN trackedServices[s]
                                                ELSE IF after(s).len = 0 THEN NoSlice
                                                ELSE after(s)]
      /\ loop' = IF struck
                 THEN [loop EXCEPT !.shifted = TRUE, !.left = left]
                 ELSE loop
  BY DEF deleteIngress
<1>2. loop \in Loop /\ hit \subseteq Services /\ trackedServices \in [Services -> Slice]
  BY DEF IInv, TypeOK
<1>3. ASSUME NEW s \in hit
      PROVE  /\ after(s) \in Slice /\ Len(after(s).array) = Len(trackedServices[s].array)
             /\ \A j \in 1 .. Len(trackedServices[s].array) :
                  trackedServices[s].array[j] \in Ingresses => after(s).array[j] \in Ingresses
  <2>1. s \in Services /\ Proper(trackedServices[s]) /\ i \in Listed(trackedServices[s])
    BY <1>2 DEF IInv, SlicesProper, Elements, Listed
  <2>2. QED
    BY <2>1, WithoutProper DEF Proper
<1> HIDE DEF after
<1>4. loop' \in Loop
  <2>1. CASE struck
    <3>1. left \in Seq(Ingresses \union {NoIngress})
      BY <1>3, <2>1 DEF Slice
    <3> HIDE DEF left
    <3>2. loop' = [loop EXCEPT !.shifted = TRUE, !.left = left]
      BY <1>1, <2>1
    <3>3. QED
      BY <1>2, <3>1, <3>2 DEF Loop
  <2>2. CASE ~ struck
    BY <1>1, <1>2, <2>2
  <2>3. QED
    BY <2>1, <2>2
<1>5. ASSUME loop'.svc # NoService
      PROVE  LoopSound'
  <2>1. /\ loop'.svc = loop.svc /\ loop'.len = loop.len /\ loop'.pos = loop.pos
        /\ loop'.began = loop.began /\ loop'.seen = loop.seen
        /\ loop'.shifted = IF struck THEN TRUE ELSE loop.shifted
        /\ loop'.left = IF struck THEN left ELSE loop.left
    <3> HIDE DEF left, hit
    <3>1. QED
      BY <1>1, <1>2 DEF Loop
  <2>2. loop.svc # NoService /\ loop.svc \in Services /\ loop.len \in Nat /\ loop.pos \in Nat
    BY <1>2, <1>5, <2>1 DEF Loop
  <2>3. /\ 1 <= loop.len /\ loop.len <= Len(Array) /\ 1 <= loop.pos
        /\ \A j \in 1 .. loop.len : Array[j] \in Ingresses
        /\ Len(loop.began) = loop.len
        /\ \A j, k \in 1 .. loop.len : loop.began[j] = loop.began[k] => j = k
        /\ ~ loop.shifted => AsBegun
    BY <2>2 DEF IInv, LoopSound
  <2>4. CASE struck
    <3>1. Array = trackedServices[loop.svc].array /\ Len(Array) # 0
      BY <2>2, <2>3, <2>4 DEF Array
    <3>2. /\ Len(Array') = Len(Array)
          /\ \A j \in 1 .. Len(Array) : Array[j] \in Ingresses => Array'[j] \in Ingresses
      <4>1. CASE after(loop.svc).len = 0
        <5>1. after(loop.svc).array # <<>>
          BY <1>3, <2>4, <3>1
        <5>2. Array' = after(loop.svc).array
          BY <2>1, <2>4, <4>1, <5>1 DEF Array
        <5>3. QED
          BY <1>3, <2>4, <3>1, <5>2
      <4>2. CASE after(loop.svc).len # 0
        <5>1. Array' = after(loop.svc).array
          BY <1>1, <2>1, <2>2, <2>4, <4>2 DEF Array
        <5>2. QED
          BY <1>3, <2>4, <3>1, <5>1
      <4>3. QED
        BY <4>1, <4>2
    <3>3. \A j \in 1 .. loop.len : Array'[j] \in Ingresses
      <4>1. \A j \in 1 .. loop.len : j \in 1 .. Len(Array)
        BY <2>2, <2>3, ArrayType DEF IInv
      <4>2. QED
        BY <2>3, <3>2, <4>1
    <3>4. QED
      BY <2>1, <2>3, <2>4, <3>2, <3>3 DEF LoopSound
  <2>5. CASE ~ struck
    <3>1. Array' = Array
      BY <1>1, <2>1, <2>2, <2>5 DEF Array
    <3>2. loop.left = <<>> => trackedServices'[loop.svc].len = trackedServices[loop.svc].len
      BY <1>1, <2>2, <2>5
    <3>3. AsBegun => AsBegun'
      BY <2>1, <2>5, <3>1, <3>2 DEF AsBegun
    <3>4. QED
      BY <2>1, <2>3, <2>5, <3>1, <3>3 DEF LoopSound
  <2>6. QED
    BY <2>4, <2>5
<1>6. QED
  BY <1>4, <1>5 DEF LoopSound

-----------------------------------------------------------------------------
(* Every step keeps the invariant. *)

LEMMA AddStep ==
  ASSUME IInv, NEW i \in Ingresses, NEW s \in Services, i \notin Elements(s), add(i, s)
  PROVE  IInv'
<1>1. /\ SlicesProper'
      /\ trackedServices' = [r \in Services |-> trackedServices'[r]]
      /\ ingressToServices' = [ingressToServices EXCEPT ![i] = {s}]
      /\ \A r \in Services : Elements(r)' = IF r = s THEN Elements(s) \union {i} ELSE Elements(r)
  BY AddSlices
<1>2. loop' \in Loop /\ LoopSound'
  BY AddLoop
<1>3. /\ trackedServices' \in [Services -> Slice]
      /\ \A r \in Services : trackedServices'[r].len <= Len(trackedServices'[r].array)
  BY <1>1 DEF SlicesProper, Proper
<1>4. ingressToServices' \in [Ingresses -> SUBSET Services]
  BY <1>1 DEF IInv, TypeOK
<1>5. RecordsSound'
  BY <1>1 DEF IInv, TypeOK, RecordsSound
<1>6. QED
  BY <1>1, <1>2, <1>3, <1>4, <1>5 DEF IInv, TypeOK

LEMMA DeleteStep ==
  ASSUME IInv, NEW i \in Ingresses, deleteIngress(i)
  PROVE  IInv'
<1>1. /\ SlicesProper'
      /\ trackedServices' = [s \in Services |-> trackedServices'[s]]
      /\ ingressToServices' = [ingressToServices EXCEPT ![i] = {}]
      /\ \A s \in Services : Elements(s)' = IF s \in ingressToServices[i]
                                            THEN Elements(s) \ {i} ELSE Elements(s)
  BY DeleteSlices
<1>2. loop' \in Loop /\ LoopSound'
  BY DeleteLoop
<1>3. /\ trackedServices' \in [Services -> Slice]
      /\ \A s \in Services : trackedServices'[s].len <= Len(trackedServices'[s].array)
  BY <1>1 DEF SlicesProper, Proper
<1>4. ingressToServices' \in [Ingresses -> SUBSET Services]
  BY <1>1 DEF IInv, TypeOK
<1>5. RecordsSound'
  BY <1>1 DEF IInv, TypeOK, RecordsSound
<1>6. QED
  BY <1>1, <1>2, <1>3, <1>4, <1>5 DEF IInv, TypeOK

\* The informer's goroutine writes nothing but the loop.
LEMMA LoopStep ==
  ASSUME IInv, loop' \in Loop, LoopSound', UNCHANGED <<trackedServices, ingressToServices>>
  PROVE  IInv'
<1>1. SlicesProper' /\ RecordsSound'
  BY DEF IInv, SlicesProper, RecordsSound, Elements
<1>2. QED
  BY <1>1 DEF IInv, TypeOK

LEMMA GetStep ==
  ASSUME IInv, NEW s \in Services, getIngress(s)
  PROVE  IInv'
<1> DEFINE sl == trackedServices[s]
<1>1. Proper(sl) /\ sl.len \in Nat /\ sl.len > 0 /\ sl.len <= Len(sl.array)
  BY DEF IInv, SlicesProper, Proper, Slice, getIngress
<1> DEFINE began == SubSeq(sl.array, 1, sl.len)
<1>2. /\ loop' = [NoLoop EXCEPT !.svc = s, !.len = sl.len, !.began = began]
      /\ UNCHANGED <<trackedServices, ingressToServices>>
  BY DEF getIngress
<1>3. /\ loop'.svc = s /\ loop'.len = sl.len /\ loop'.pos = 1 /\ loop'.left = <<>>
      /\ loop'.began = began /\ loop'.seen = {} /\ loop'.shifted = FALSE
  BY <1>2 DEF NoLoop
<1>4. /\ began \in Seq(Ingresses) /\ Len(began) = sl.len
      /\ \A j \in 1 .. sl.len : began[j] = sl.array[j]
  <2>1. sl.array \in Seq(Element)
    BY <1>1 DEF Proper, Slice, Element
  <2>2. /\ began \in Seq(Element) /\ Len(began) = sl.len
        /\ \A j \in 1 .. sl.len : began[j] = sl.array[j]
    BY <1>1, <2>1, SubSeqProperties
  <2> HIDE DEF began
  <2>3. \A j \in 1 .. Len(began) : began[j] \in Ingresses
    BY <1>1, <2>2 DEF Proper
  <2>4. QED
    BY <2>2, <2>3
<1> HIDE DEF began
<1>5. loop' \in Loop
  <2>1. <<>> \in Seq(Ingresses \union {NoIngress})
    OBVIOUS
  <2>2. QED
    BY <1>1, <1>2, <1>4, <2>1 DEF Loop, NoLoop
<1>6. Array' = sl.array
  BY <1>2, <1>3 DEF Array
<1>7. /\ \A j \in 1 .. sl.len : sl.array[j] \in Ingresses /\ ~ j < 1
      /\ \A j, k \in 1 .. sl.len : began[j] = began[k] => j = k
  BY <1>1, <1>4 DEF Proper
<1>8. LoopSound'
  <2>1. AsBegun'
    BY <1>1, <1>2, <1>3, <1>4, <1>6, <1>7 DEF AsBegun
  <2>2. QED
    BY <1>1, <1>3, <1>4, <1>6, <1>7, <2>1 DEF LoopSound
<1>9. QED
  BY <1>2, <1>5, <1>8, LoopStep

LEMMA NextStep ==
  ASSUME IInv, enqueueNext
  PROVE  IInv'
<1>1. /\ loop.svc # NoService /\ loop.pos <= loop.len
      /\ loop' = [loop EXCEPT !.seen = loop.seen \union {Array[loop.pos]}, !.pos = loop.pos + 1]
      /\ UNCHANGED <<trackedServices, ingressToServices>>
  BY DEF enqueueNext, Array
<1>2. loop \in Loop
  BY DEF IInv, TypeOK
<1>3. /\ loop.svc \in Services /\ loop.len \in Nat /\ loop.pos \in Nat
      /\ Array \in Seq(Element)
  BY <1>1, ArrayType DEF IInv
<1>4. /\ 1 <= loop.len /\ loop.len <= Len(Array) /\ 1 <= loop.pos
      /\ \A j \in 1 .. loop.len : Array[j] \in Ingresses
      /\ Len(loop.began) = loop.len
      /\ \A j, k \in 1 .. loop.len : loop.began[j] = loop.began[k] => j = k
      /\ ~ loop.shifted => AsBegun
  BY <1>1 DEF IInv, LoopSound
<1>5. Array[loop.pos] \in Ingresses
  BY <1>1, <1>3, <1>4
<1>6. loop' \in Loop
  <2> DEFINE element == Array[loop.pos]
  <2>1. /\ loop' = [loop EXCEPT !.seen = loop.seen \union {element}, !.pos = loop.pos + 1]
        /\ element \in Ingresses
    BY <1>1, <1>5
  <2> HIDE DEF element
  <2>2. loop.seen \union {element} \in SUBSET Ingresses
    BY <1>2, <2>1 DEF Loop
  <2>3. loop.pos + 1 \in Nat
    BY <1>3
  <2>4. QED
    BY <1>2, <2>1, <2>2, <2>3 DEF Loop
<1>7. /\ loop'.svc = loop.svc /\ loop'.len = loop.len /\ loop'.pos = loop.pos + 1
      /\ loop'.left = loop.left /\ loop'.began = loop.began /\ loop'.shifted = loop.shifted
      /\ loop'.seen = loop.seen \union {Array[loop.pos]}
  BY <1>1, <1>2 DEF Loop
<1>8. Array' = Array
  BY <1>1, <1>7 DEF Array
<1>9. ASSUME ~ loop.shifted PROVE AsBegun'
  <2>1. \A j \in 1 .. loop.len : j < loop.pos \/ j = loop.pos \/ ~ j < loop.pos + 1
    BY <1>3
  <2>2. QED
    BY <1>1, <1>4, <1>7, <1>8, <1>9, <2>1 DEF AsBegun
<1>10. LoopSound'
  BY <1>1, <1>3, <1>4, <1>7, <1>8, <1>9 DEF LoopSound
<1>11. QED
  BY <1>1, <1>6, <1>10, LoopStep

LEMMA EndStep ==
  ASSUME IInv, endLoop
  PROVE  IInv'
<1>1. loop' = NoLoop /\ UNCHANGED <<trackedServices, ingressToServices>>
  BY DEF endLoop
<1>2. <<>> \in Seq(Ingresses \union {NoIngress})
  OBVIOUS
<1>3. loop' \in Loop /\ LoopSound'
  BY <1>1, <1>2 DEF NoLoop, Loop, LoopSound
<1>4. QED
  BY <1>1, <1>3, LoopStep

LEMMA Unmoved == IInv /\ UNCHANGED vars => IInv'
BY DEF IInv, TypeOK, SlicesProper, RecordsSound, LoopSound, AsBegun, Array, Elements, vars

LEMMA Step == IInv /\ [Next]_vars => IInv'
<1> SUFFICES ASSUME IInv, [Next]_vars PROVE IInv'
  OBVIOUS
<1>1. ASSUME NEW i \in Ingresses, deleteIngress(i) PROVE IInv'
  BY <1>1, DeleteStep
<1>2. ASSUME NEW i \in Ingresses, NEW s \in References[i], add(i, s) PROVE IInv'
  <2>1. s \in Services
    BY ConstantsAssumption
  <2>2. CASE i \in Elements(s)
    <3>1. UNCHANGED vars
      BY <1>2, <2>2 DEF add
    <3>2. QED
      BY <3>1, Unmoved
  <2>3. CASE i \notin Elements(s)
    BY <1>2, <2>1, <2>3, AddStep
  <2>4. QED
    BY <2>2, <2>3
<1>3. ASSUME NEW s \in Services, getIngress(s) PROVE IInv'
  BY <1>3, GetStep
<1>4. CASE enqueueNext
  BY <1>4, NextStep
<1>5. CASE endLoop
  BY <1>5, EndStep
<1>6. CASE UNCHANGED vars
  BY <1>6, Unmoved
<1>7. QED
  BY <1>1, <1>2, <1>3, <1>4, <1>5, <1>6 DEF Next

-----------------------------------------------------------------------------
(* What each step makes of the slots that are left. *)

LEMMA Turning ==
  ASSUME IInv, loop.svc # NoService, ~ LoopFinished
  PROVE  /\ SlotsLeft = [svc |-> loop.svc,
                         slots |-> {loop.began[j] : j \in loop.pos .. loop.len},
                         owed |-> Range(loop.began) \ loop.seen,
                         shifted |-> loop.shifted]
         /\ loop.pos \in Nat /\ loop.len \in Nat /\ 1 <= loop.pos /\ loop.pos <= loop.len
         /\ loop.began \in Seq(Ingresses) /\ Len(loop.began) = loop.len
<1>1. loop.pos \in Nat /\ loop.len \in Nat /\ loop.began \in Seq(Ingresses)
  BY DEF IInv, TypeOK, Loop
<1>2. 1 <= loop.pos /\ Len(loop.began) = loop.len
  BY DEF IInv, LoopSound
<1>3. QED
  BY <1>1, <1>2 DEF SlotsLeft, LoopFinished

LEMMA AddLeavesSlots ==
  ASSUME IInv, NEW i \in Ingresses, NEW s \in Services, i \notin Elements(s), add(i, s)
  PROVE  UNCHANGED SlotsLeft
<1>1. loop \in Loop
  BY DEF IInv, TypeOK
<1>2. loop' = loop \/ loop' = [loop EXCEPT !.left = trackedServices[s].array]
  BY DEF add
<1>3. /\ loop'.svc = loop.svc /\ loop'.len = loop.len /\ loop'.pos = loop.pos
      /\ loop'.began = loop.began /\ loop'.seen = loop.seen /\ loop'.shifted = loop.shifted
  BY <1>1, <1>2 DEF Loop
<1>4. QED
  BY <1>3 DEF SlotsLeft, LoopFinished

LEMMA DeleteLeavesSlots ==
  ASSUME IInv, NEW i \in Ingresses, deleteIngress(i)
  PROVE  \/ SlotsLeft' = SlotsLeft
         \/ /\ SlotsLeft.svc \in ingressToServices[i]
            /\ SlotsLeft' = [SlotsLeft EXCEPT !.shifted = TRUE]
<1> DEFINE struck == loop.svc \in ingressToServices[i] /\ i \in Elements(loop.svc)
                     /\ loop.left = <<>>
<1>1. PICK left :
         loop' = IF struck THEN [loop EXCEPT !.shifted = TRUE, !.left = left] ELSE loop
  BY DEF deleteIngress
<1>2. loop \in Loop
  BY DEF IInv, TypeOK
<1>3. /\ loop'.svc = loop.svc /\ loop'.len = loop.len /\ loop'.pos = loop.pos
      /\ loop'.began = loop.began /\ loop'.seen = loop.seen
      /\ loop'.shifted = IF struck THEN TRUE ELSE loop.shifted
  BY <1>1, <1>2 DEF Loop
<1>4. CASE loop.svc = NoService \/ LoopFinished
  BY <1>3, <1>4 DEF SlotsLeft, LoopFinished
<1>5. CASE loop.svc # NoService /\ ~ LoopFinished
  <2> DEFINE slots == {loop.began[j] : j \in loop.pos .. loop.len}
             owed == Range(loop.began) \ loop.seen
  <2>1. /\ SlotsLeft' = [svc |-> loop.svc, slots |-> slots, owed |-> owed,
                         shifted |-> IF struck THEN TRUE ELSE loop.shifted]
        /\ SlotsLeft = [svc |-> loop.svc, slots |-> slots, owed |-> owed,
                        shifted |-> loop.shifted]
    BY <1>3, <1>5 DEF SlotsLeft, LoopFinished
  <2> HIDE DEF slots, owed
  <2>2. CASE struck
    <3>1. SlotsLeft.svc \in ingressToServices[i]
      BY <2>1, <2>2
    <3>2. SlotsLeft' = [svc |-> loop.svc, slots |-> slots, owed |-> owed, shifted |-> TRUE]
      BY <2>1, <2>2
    <3>3. SlotsLeft' = [SlotsLeft EXCEPT !.shifted = TRUE]
      <4>1. PICK now : now = TRUE
        OBVIOUS
      <4>2. SlotsLeft' = [svc |-> loop.svc, slots |-> slots, owed |-> owed, shifted |-> now]
        BY <3>2, <4>1, Zenon
      <4>3. PICK svc, s, o, shifted :
              svc = loop.svc /\ s = slots /\ o = owed /\ shifted = loop.shifted
        OBVIOUS
      <4>4. SlotsLeft = [svc |-> svc, slots |-> s, owed |-> o, shifted |-> shifted]
        BY <2>1, <4>3
      <4>5. SlotsLeft' = [svc |-> svc, slots |-> s, owed |-> o, shifted |-> now]
        BY <4>2, <4>3
      <4>6. SlotsLeft' = [SlotsLeft EXCEPT !.shifted = now]
        BY <4>4, <4>5
      <4>7. QED
        BY <4>1, <4>6, Zenon
    <3>4. QED
      BY <3>1, <3>3
  <2>3. CASE ~ struck
    <3> HIDE DEF struck
    <3>1. SlotsLeft' = SlotsLeft
      BY <2>1, <2>3
    <3>2. QED
      BY <3>1
  <2>4. QED
    BY <2>2, <2>3
<1>6. QED
  BY <1>4, <1>5

LEMMA LoopBegins ==
  ASSUME IInv, NEW s \in Services, getIngress(s)
  PROVE  /\ SlotsLeft = [svc |-> NoService, slots |-> {}, owed |-> {}, shifted |-> FALSE]
         /\ Elements(s) # {}
         /\ SlotsLeft' = [svc |-> s, slots |-> Elements(s), owed |-> Elements(s),
                          shifted |-> FALSE]
<1> DEFINE sl == trackedServices[s]
           began == SubSeq(sl.array, 1, sl.len)
<1>1. /\ Proper(sl) /\ sl.len \in Nat /\ sl.len > 0 /\ sl.len <= Len(sl.array)
      /\ sl.array \in Seq(Element) /\ s # NoService
  BY ConstantsAssumption DEF IInv, SlicesProper, Proper, Slice, Element, getIngress
<1>2. loop = NoLoop /\ loop' = [NoLoop EXCEPT !.svc = s, !.len = sl.len, !.began = began]
  BY DEF getIngress
<1>3. /\ loop'.svc = s /\ loop'.len = sl.len /\ loop'.pos = 1
      /\ loop'.began = began /\ loop'.seen = {} /\ loop'.shifted = FALSE
  BY <1>2 DEF NoLoop
<1>4. /\ began \in Seq(Element) /\ Len(began) = sl.len
      /\ \A j \in 1 .. sl.len : began[j] = sl.array[j]
  BY <1>1, SubSeqProperties
<1>5. Elements(s) = {sl.array[j] : j \in 1 .. sl.len}
  BY DEF Elements
<1> HIDE DEF began, sl
<1>6. {began[j] : j \in 1 .. sl.len} = Elements(s) /\ Range(began) = Elements(s)
  BY <1>1, <1>4, <1>5 DEF Range
<1>7. Elements(s) # {}
  <2>1. 1 \in 1 .. sl.len
    BY <1>1
  <2>2. QED
    BY <1>5, <2>1
<1>8. SlotsLeft = [svc |-> NoService, slots |-> {}, owed |-> {}, shifted |-> FALSE]
  BY <1>2 DEF NoLoop, SlotsLeft
<1>9. SlotsLeft' = [svc |-> s, slots |-> {began[j] : j \in 1 .. sl.len},
                    owed |-> Range(began) \ {}, shifted |-> FALSE]
  <2>1. ~ loop'.pos > loop'.len
    BY <1>1, <1>3
  <2>2. loop'.svc # NoService /\ ~ LoopFinished'
    BY <1>1, <1>3, <2>1 DEF LoopFinished
  <2>3. QED
    BY <1>3, <2>2 DEF SlotsLeft
<1>10. QED
  BY <1>6, <1>7, <1>8, <1>9

\* One turn takes the slot at the loop's index, and enqueues what is there now.
LEMMA LoopTurns ==
  ASSUME IInv, enqueueNext
  PROVE  \E j \in Ingresses, i \in Ingresses :
           /\ j \in SlotsLeft.slots
           /\ ~ SlotsLeft.shifted => i = j
           /\ SlotsLeft' = IF SlotsLeft.slots = {j}
                           THEN [svc |-> NoService, slots |-> {}, owed |-> {}, shifted |-> FALSE]
                           ELSE [SlotsLeft EXCEPT !.slots = SlotsLeft.slots \ {j},
                                                  !.owed = SlotsLeft.owed \ {i}]
<1> DEFINE j == loop.began[loop.pos]
           i == Array[loop.pos]
           slots == {loop.began[k] : k \in loop.pos .. loop.len}
           after == {loop.began[k] : k \in loop.pos + 1 .. loop.len}
<1>1. /\ loop.svc # NoService /\ loop.pos <= loop.len
      /\ loop' = [loop EXCEPT !.seen = loop.seen \union {i}, !.pos = loop.pos + 1]
  BY DEF enqueueNext, Array
<1>2. loop \in Loop /\ loop.pos \in Nat /\ loop.len \in Nat
  BY DEF IInv, TypeOK, Loop
<1>3. ~ LoopFinished
  BY <1>1, <1>2 DEF LoopFinished
<1>4. /\ SlotsLeft = [svc |-> loop.svc, slots |-> slots,
                      owed |-> Range(loop.began) \ loop.seen, shifted |-> loop.shifted]
      /\ 1 <= loop.pos /\ loop.began \in Seq(Ingresses) /\ Len(loop.began) = loop.len
  BY <1>1, <1>3, Turning
<1>5. /\ \A k \in 1 .. loop.len : Array[k] \in Ingresses
      /\ \A k, m \in 1 .. loop.len : loop.began[k] = loop.began[m] => k = m
      /\ ~ loop.shifted => \A k \in 1 .. loop.len : Array[k] = loop.began[k]
  BY <1>1 DEF IInv, LoopSound, AsBegun
<1>6. j \in Ingresses /\ i \in Ingresses /\ j \in slots /\ (~ loop.shifted => i = j)
  BY <1>1, <1>2, <1>4, <1>5
<1>7. /\ loop'.svc = loop.svc /\ loop'.len = loop.len /\ loop'.pos = loop.pos + 1
      /\ loop'.began = loop.began /\ loop'.shifted = loop.shifted
      /\ loop'.seen = loop.seen \union {i}
  BY <1>1, <1>2 DEF Loop
<1>8. slots \ {j} = after
  <2>1. \A k \in loop.pos + 1 .. loop.len : loop.began[k] # j
    BY <1>1, <1>2, <1>4, <1>5
  <2>2. loop.pos .. loop.len = {loop.pos} \union (loop.pos + 1 .. loop.len)
    BY <1>1, <1>2
  <2>3. QED
    BY <2>1, <2>2
<1>9. SlotsLeft' = IF slots = {j}
                   THEN [svc |-> NoService, slots |-> {}, owed |-> {}, shifted |-> FALSE]
                   ELSE [svc |-> loop.svc, slots |-> slots \ {j},
                         owed |-> (Range(loop.began) \ loop.seen) \ {i},
                         shifted |-> loop.shifted]
  <2>1. CASE loop.pos = loop.len
    <3>1. after = {} /\ loop.pos + 1 > loop.len
      BY <1>2, <2>1
    <3>2. slots = {j}
      BY <1>6, <1>8, <3>1
    <3>3. LoopFinished'
      BY <1>1, <1>7, <3>1 DEF LoopFinished
    <3> HIDE DEF slots, j
    <3>4. QED
      BY <3>2, <3>3 DEF SlotsLeft
  <2>2. CASE loop.pos < loop.len
    <3>1. loop.pos + 1 \in loop.pos + 1 .. loop.len /\ ~ loop.pos + 1 > loop.len
      BY <1>2, <2>2
    <3>2. after # {}
      BY <3>1
    <3>3. slots # {j}
      BY <1>8, <3>2
    <3>4. ~ LoopFinished'
      BY <1>7, <3>1 DEF LoopFinished
    <3>5. SlotsLeft' = [svc |-> loop.svc, slots |-> after,
                        owed |-> Range(loop.began) \ (loop.seen \union {i}),
                        shifted |-> loop.shifted]
      BY <1>1, <1>7, <3>4 DEF SlotsLeft
    <3>6. Range(loop.began) \ (loop.seen \union {i}) = (Range(loop.began) \ loop.seen) \ {i}
      OBVIOUS
    <3> HIDE DEF slots, after, i, j
    <3>7. QED
      BY <1>8, <3>3, <3>5, <3>6
  <2>3. QED
    BY <1>1, <1>2, <2>1, <2>2
<1> HIDE DEF slots, after, i, j
<1>10. QED
  BY <1>4, <1>6, <1>9

-----------------------------------------------------------------------------
(* Theorems. *)

\* The slices stay within their arrays and list no Ingress twice, what is
\* recorded for an Ingress is tracked, and the loop stays within its array,
\* whatever add, deleteIngress and the loop do and in whatever order.
THEOREM InductiveInvariant == Spec => []IInv
<1>1. Init => IInv
  BY Initially
<1>2. IInv /\ [Next]_vars => IInv'
  BY Step
<1>3. QED
  BY <1>1, <1>2, PTL DEF Spec

\* Every reachable state of the tracker's slices and of the loop over one is
\* well typed.
THEOREM TypeCorrect == Spec => []TypeOK
<1>1. IInv => TypeOK
  BY DEF IInv
<1>2. QED
  BY <1>1, InductiveInvariant, PTL

\* No slice lists an Ingress twice, so that deleteIngress, which removes the
\* first entry it finds, removes all there is.
THEOREM ListedOnce == Spec => []NoDuplicates
<1>1. IInv => NoDuplicates
  BY DEF IInv, SlicesProper, Proper, NoDuplicates
<1>2. QED
  BY <1>1, InductiveInvariant, PTL

\* A Service recorded for an Ingress lists that Ingress.
THEOREM RecordsTracked == Spec => []IndexSound
<1>1. IInv => IndexSound
  <2> SUFFICES ASSUME IInv, NEW i \in Ingresses, NEW s \in ingressToServices[i]
               PROVE  i \in [r \in Services |-> Elements(r)][s]
    BY DEF IndexSound, T!IndexSound
  <2>1. s \in Services
    BY DEF IInv, TypeOK
  <2>2. QED
    BY <2>1 DEF IInv, RecordsSound
<1>2. QED
  BY <1>1, InductiveInvariant, PTL

\* The range loop over a slice that workers append to and move meanwhile
\* enqueues every Ingress that was and is tracked, unless its array is shifted.
THEOREM NobodyMissed == Spec => []UnshiftedLoopCoversAll
<1>1. IInv => UnshiftedLoopCoversAll
  <2> SUFFICES ASSUME IInv, LoopFinished, ~ loop.shifted, NEW i \in Range(loop.began)
               PROVE  i \in loop.seen
    BY DEF UnshiftedLoopCoversAll
  <2>1. loop.svc # NoService /\ loop.pos > loop.len
    BY DEF LoopFinished
  <2>2. loop.len \in Nat /\ loop.pos \in Nat
    BY <2>1, ArrayType DEF IInv
  <2>3. Len(loop.began) = loop.len /\ AsBegun
    BY <2>1 DEF IInv, LoopSound
  <2>4. PICK j \in 1 .. loop.len : i = loop.began[j]
    BY <2>3 DEF Range, IInv, TypeOK, Loop
  <2>5. QED
    BY <2>1, <2>2, <2>3, <2>4 DEF AsBegun
<1>2. QED
  BY <1>1, InductiveInvariant, PTL

\* Slices, arrays shared with a running loop, shifts and appends in place
\* implement the sets of the Tracker, and the handler's unlocked loop over an
\* array enqueues what the Tracker's loop may.
THEOREM RefinesTracker == Spec => ImplementsTracker
<1> DEFINE sets == [s \in Services |-> Elements(s)]
<1>1. Init => T!Init
  <2> SUFFICES ASSUME Init PROVE T!Init
    OBVIOUS
  <2>1. \A s \in Services : Elements(s) = {}
    BY DEF Init, NoSlice, Elements
  <2>2. SlotsLeft = T!NoLoop
    BY DEF Init, NoLoop, SlotsLeft, T!NoLoop
  <2>3. QED
    BY <2>1, <2>2 DEF Init, T!Init
<1>2. IInv /\ [Next]_vars => [T!Next]_(T!vars)
  <2> SUFFICES ASSUME IInv, [Next]_vars PROVE T!Next \/ UNCHANGED T!vars
    OBVIOUS
  <2>1. UNCHANGED trackedServices => UNCHANGED sets
    BY DEF Elements
  <2>2. ASSUME NEW i \in Ingresses, deleteIngress(i)
        PROVE  T!deleteIngress(i)
    <3>1. /\ ingressToServices' = [ingressToServices EXCEPT ![i] = {}]
          /\ \A s \in Services : Elements(s)' = IF s \in ingressToServices[i]
                                                THEN Elements(s) \ {i} ELSE Elements(s)
      BY <2>2, DeleteSlices
    <3>2. sets' = [s \in Services |-> IF s \in ingressToServices[i]
                                      THEN sets[s] \ {i} ELSE sets[s]]
      BY <3>1
    <3>3. \/ SlotsLeft' = SlotsLeft
          \/ /\ SlotsLeft.svc \in ingressToServices[i]
             /\ SlotsLeft' = [SlotsLeft EXCEPT !.shifted = TRUE]
      BY <2>2, DeleteLeavesSlots
    <3>4. QED
      BY <3>1, <3>2, <3>3 DEF T!deleteIngress
  <2>3. ASSUME NEW i \in Ingresses, NEW s \in References[i], add(i, s)
        PROVE  s \in Services /\ (T!add(i, s) \/ UNCHANGED T!vars)
    <3>1. s \in Services
      BY ConstantsAssumption
    <3>2. CASE i \in Elements(s)
      <4>1. UNCHANGED vars
        BY <2>3, <3>2 DEF add
      <4>2. UNCHANGED SlotsLeft
        BY <4>1 DEF vars, SlotsLeft, LoopFinished
      <4>3. QED
        BY <2>1, <3>1, <4>1, <4>2 DEF T!vars, vars
    <3>3. CASE i \notin Elements(s)
      <4>1. /\ ingressToServices' = [ingressToServices EXCEPT ![i] = {s}]
            /\ \A r \in Services : Elements(r)' = IF r = s THEN Elements(s) \union {i}
                                                  ELSE Elements(r)
        BY <2>3, <3>1, <3>3, AddSlices
      <4>2. sets' = [sets EXCEPT ![s] = sets[s] \union {i}]
        BY <3>1, <4>1
      <4>3. UNCHANGED SlotsLeft
        BY <2>3, <3>1, <3>3, AddLeavesSlots
      <4>4. QED
        BY <3>1, <3>3, <4>1, <4>2, <4>3 DEF T!add
    <3>4. QED
      BY <3>2, <3>3
  <2>4. ASSUME NEW s \in Services, getIngress(s) PROVE T!getIngress(s)
    <3>1. /\ SlotsLeft = T!NoLoop /\ Elements(s) # {}
          /\ SlotsLeft' = [svc |-> s, slots |-> Elements(s), owed |-> Elements(s),
                           shifted |-> FALSE]
      BY <2>4, LoopBegins DEF T!NoLoop
    <3>2. UNCHANGED <<sets, ingressToServices>>
      BY <2>1, <2>4 DEF getIngress
    <3>3. QED
      BY <3>1, <3>2 DEF T!getIngress
  <2>5. CASE enqueueNext
    <3>1. PICK j \in Ingresses, i \in Ingresses :
            /\ j \in SlotsLeft.slots
            /\ ~ SlotsLeft.shifted => i = j
            /\ SlotsLeft' = IF SlotsLeft.slots = {j}
                            THEN T!NoLoop
                            ELSE [SlotsLeft EXCEPT !.slots = SlotsLeft.slots \ {j},
                                                   !.owed = SlotsLeft.owed \ {i}]
      BY <2>5, LoopTurns DEF T!NoLoop
    <3>2. UNCHANGED <<sets, ingressToServices>>
      BY <2>1, <2>5 DEF enqueueNext
    <3>3. T!enqueueNext(j, i)
      BY <3>1, <3>2 DEF T!enqueueNext
    <3>4. QED
      BY <3>3 DEF T!Next
  <2>6. CASE endLoop
    <3>1. UNCHANGED <<sets, ingressToServices>>
      BY <2>1, <2>6 DEF endLoop
    <3>2. UNCHANGED SlotsLeft
      BY <2>6 DEF endLoop, NoLoop, SlotsLeft, LoopFinished
    <3>3. QED
      BY <3>1, <3>2 DEF T!vars
  <2>7. CASE UNCHANGED vars
    BY <2>1, <2>7 DEF vars, T!vars, SlotsLeft, LoopFinished
  <2>8. QED
    BY <2>2, <2>3, <2>4, <2>5, <2>6, <2>7 DEF Next, T!Next
<1>3. QED
  BY <1>1, <1>2, InductiveInvariant, PTL DEF Spec, ImplementsTracker, T!Spec

=============================================================================
