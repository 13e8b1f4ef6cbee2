--------------------------- MODULE ArrayHeapProofs ---------------------------
(* Theorems about ArrayHeap, for any list of servers, any counts and times  *)
(* of theirs, and any outcomes of is_greater.                              *)
EXTENDS ArrayHeap, TLAPS, FiniteSetTheorems, WellFoundedInduction

(***************************************************************************)
(* connect_sooner is total and transitive.                                 *)
(***************************************************************************)

LEMMA SoonerOrders ==
  /\ \A a, b \in Servers : connect_sooner[<<a, b>>] \in BOOLEAN
  /\ \A a, b \in Servers : connect_sooner[<<a, b>>] \/ connect_sooner[<<b, a>>]
  /\ \A a, b, c \in Servers :
       connect_sooner[<<a, b>>] /\ connect_sooner[<<b, c>>] => connect_sooner[<<a, c>>]
<1>1. \A a, b \in Servers :
        connect_sooner[<<a, b>>] <=>
          \/ not_connect_count[a] < not_connect_count[b]
          \/ /\ not_connect_count[a] = not_connect_count[b]
             /\ last_connect_attempt_time[a] <= last_connect_attempt_time[b]
  BY DEF connect_sooner
<1>2. connect_sooner \in [Servers \X Servers -> BOOLEAN]
  BY DEF connect_sooner
<1>3. \A a \in Servers :
        not_connect_count[a] \in Nat /\ last_connect_attempt_time[a] \in Nat
  BY HeapAssumption
<1>4. \A a, b \in Servers : connect_sooner[<<a, b>>] \in BOOLEAN
  BY <1>2
<1> QED
  <2>1. \A a, b \in Servers : connect_sooner[<<a, b>>] \/ connect_sooner[<<b, a>>]
    <3> TAKE a \in Servers, b \in Servers
    <3> DEFINE n(s) == not_connect_count[s]  t(s) == last_connect_attempt_time[s]
    <3>1. n(a) \in Nat /\ n(b) \in Nat /\ t(a) \in Nat /\ t(b) \in Nat
      BY <1>3
    <3>2. \/ n(a) < n(b) \/ (n(a) = n(b) /\ t(a) <= t(b))
          \/ n(b) < n(a) \/ (n(b) = n(a) /\ t(b) <= t(a))
      <4> HIDE DEF n, t
      <4> QED
        BY <3>1
    <3> QED
      BY <1>1, <3>2
  <2>2. \A a, b, c \in Servers :
          connect_sooner[<<a, b>>] /\ connect_sooner[<<b, c>>] => connect_sooner[<<a, c>>]
    <3> SUFFICES ASSUME NEW a \in Servers, NEW b \in Servers, NEW c \in Servers,
                        connect_sooner[<<a, b>>], connect_sooner[<<b, c>>]
                 PROVE  connect_sooner[<<a, c>>]
      BY <1>4
    <3> DEFINE n(s) == not_connect_count[s]  t(s) == last_connect_attempt_time[s]
    <3>1. /\ n(a) \in Nat /\ n(b) \in Nat /\ n(c) \in Nat
          /\ t(a) \in Nat /\ t(b) \in Nat /\ t(c) \in Nat
      BY <1>3
    <3>2. /\ n(a) < n(b) \/ (n(a) = n(b) /\ t(a) <= t(b))
          /\ n(b) < n(c) \/ (n(b) = n(c) /\ t(b) <= t(c))
      BY <1>1
    <3>3. n(a) < n(c) \/ (n(a) = n(c) /\ t(a) <= t(c))
      <4> HIDE DEF n, t
      <4> QED
        BY <3>1, <3>2
    <3> QED
      BY <1>1, <3>3
  <2> QED
    BY <1>4, <2>1, <2>2

LEMMA SoonerReflexive == ASSUME NEW a \in Servers PROVE connect_sooner[<<a, a>>]
BY SoonerOrders

LEMMA OutcomeTyped ==
  ASSUME NEW is_greater \in Comparisons, NEW a \in Servers, NEW b \in Servers
  PROVE  is_greater[<<a, b>>] \in BOOLEAN
BY HeapAssumption

(***************************************************************************)
(* Slots, their parents and children.                                      *)
(***************************************************************************)

LEMMA ParentIs ==
  ASSUME NEW i \in Nat, i >= 2
  PROVE  /\ i \div 2 \in Nat /\ 1 <= i \div 2 /\ i \div 2 < i
         /\ \A k \in Nat : i \div 2 = k <=> i = 2 * k \/ i = 2 * k + 1
OBVIOUS

LEMMA SwapIs ==
  ASSUME NEW h \in Seq(Servers), NEW i \in 1 .. Len(h), NEW j \in 1 .. Len(h), i # j
  PROVE  /\ swap(h, i, j) \in Seq(Servers) /\ Len(swap(h, i, j)) = Len(h)
         /\ swap(h, i, j)[i] = h[j] /\ swap(h, i, j)[j] = h[i]
         /\ \A k \in 1 .. Len(h) : k # i /\ k # j => swap(h, i, j)[k] = h[k]
BY DEF swap

LEMMA SwapKeeps ==
  ASSUME NEW h \in Seq(Servers), NEW i \in 1 .. Len(h), NEW j \in 1 .. Len(h), i # j,
         Distinct(h)
  PROVE  /\ Distinct(swap(h, i, j))
         /\ {swap(h, i, j)[k] : k \in 1 .. Len(h)} = {h[k] : k \in 1 .. Len(h)}
<1> DEFINE w == swap(h, i, j)
           to(k) == IF k = i THEN j ELSE IF k = j THEN i ELSE k
<1>1. Len(w) = Len(h) /\ \A k \in 1 .. Len(h) : to(k) \in 1 .. Len(h) /\ w[k] = h[to(k)]
  <2>1. /\ Len(w) = Len(h) /\ w[i] = h[j] /\ w[j] = h[i]
        /\ \A k \in 1 .. Len(h) : k # i /\ k # j => w[k] = h[k]
    BY SwapIs, i # j
  <2> HIDE DEF w
  <2> QED
    BY <2>1
<1>2. \A k, l \in 1 .. Len(h) : to(k) = to(l) => k = l
  BY i # j
<1>3. \A k \in 1 .. Len(h) : to(to(k)) = k
  BY i # j
<1>4. \A k \in 1 .. Len(h) : h[k] = w[to(k)]
  <2> HIDE DEF w, to
  <2> QED
    BY <1>1, <1>3
<1>5. Distinct(w)
  <2> HIDE DEF w, to
  <2>1. ASSUME NEW k \in 1 .. Len(h), NEW l \in 1 .. Len(h), w[k] = w[l] PROVE k = l
    <3>1. to(k) \in 1 .. Len(h) /\ to(l) \in 1 .. Len(h) /\ h[to(k)] = h[to(l)]
      BY <1>1, <2>1
    <3>2. to(k) = to(l)
      BY <3>1 DEF Distinct
    <3> QED
      BY <1>2, <3>2
  <2> QED
    BY <1>1, <2>1 DEF Distinct
<1>6. {w[k] : k \in 1 .. Len(h)} = {h[k] : k \in 1 .. Len(h)}
  <2> HIDE DEF w, to
  <2>1. ASSUME NEW x \in {w[k] : k \in 1 .. Len(h)} PROVE x \in {h[k] : k \in 1 .. Len(h)}
    BY <2>1, <1>1
  <2>2. ASSUME NEW x \in {h[k] : k \in 1 .. Len(h)} PROVE x \in {w[k] : k \in 1 .. Len(h)}
    BY <2>2, <1>1, <1>4
  <2> QED
    BY <2>1, <2>2
<1> QED
  BY <1>5, <1>6

\* What heap_pop leaves before heapify: the last element in the first one's place.
LEMMA PoppedIs ==
  ASSUME NEW h \in Seq(Servers), h # <<>>
  PROVE  /\ Popped(h) \in Seq(Servers) /\ Len(Popped(h)) = Len(h) - 1
         /\ \A k \in 1 .. Len(h) - 1 : Popped(h)[k] = IF k = 1 THEN h[Len(h)] ELSE h[k]
<1>1. Len(h) \in Nat /\ Len(h) >= 1
  OBVIOUS
<1> DEFINE g == [h EXCEPT ![1] = h[Len(h)]]
<1>2. /\ g \in Seq(Servers) /\ Len(g) = Len(h)
      /\ \A k \in 1 .. Len(h) : g[k] = IF k = 1 THEN h[Len(h)] ELSE h[k]
  BY <1>1
<1> HIDE DEF g
<1>3. Popped(h) = SubSeq(g, 1, Len(h) - 1)
  BY DEF g, Popped
<1>4. SubSeq(g, 1, Len(h) - 1) \in Seq(Servers) /\ Len(SubSeq(g, 1, Len(h) - 1)) = Len(h) - 1
      /\ \A k \in 1 .. Len(h) - 1 : SubSeq(g, 1, Len(h) - 1)[k] = g[k]
  BY <1>1, <1>2
<1>5. \A k \in 1 .. Len(h) - 1 : k \in 1 .. Len(h)
  BY <1>1
<1> QED
  BY <1>2, <1>3, <1>4, <1>5

LEMMA PoppedKeeps ==
  ASSUME NEW h \in Seq(Servers), h # <<>>, Distinct(h)
  PROVE  /\ Distinct(Popped(h))
         /\ {Popped(h)[k] : k \in 1 .. Len(Popped(h))} = {h[k] : k \in 1 .. Len(h)} \ {h[1]}
<1> DEFINE n == Len(h)
           p == Popped(h)
           from(k) == IF k = 1 THEN n ELSE k
<1>1. n \in Nat /\ n >= 1
  OBVIOUS
<1>2. Len(p) = n - 1 /\ \A k \in 1 .. n - 1 : p[k] = h[from(k)]
  BY PoppedIs
<1>3. /\ \A k \in 1 .. n - 1 : from(k) \in 2 .. n
      /\ \A k, l \in 1 .. n - 1 : from(k) = from(l) => k = l
      /\ \A m \in 2 .. n : \E k \in 1 .. n - 1 : from(k) = m
  <2>1. \A k \in 1 .. n - 1 : from(k) \in 2 .. n
    BY <1>1
  <2>2. \A k, l \in 1 .. n - 1 : from(k) = from(l) => k = l
    BY <1>1
  <2>3. ASSUME NEW m \in 2 .. n PROVE \E k \in 1 .. n - 1 : from(k) = m
    <3>1. CASE m = n
      <4>1. 1 \in 1 .. n - 1 /\ from(1) = m
        BY <1>1, <3>1
      <4> QED
        BY <4>1
    <3>2. CASE m # n
      <4>1. m \in 1 .. n - 1 /\ from(m) = m
        BY <1>1, <3>2
      <4> QED
        BY <4>1
    <3> QED
      BY <3>1, <3>2
  <2> QED
    BY <2>1, <2>2, <2>3
<1>4. \A m \in 1 .. n : h[m] # h[1] <=> m \in 2 .. n
  <2>1. \A m, l \in 1 .. n : h[m] = h[l] => m = l
    BY DEF Distinct
  <2> QED
    BY <1>1, <2>1
<1> HIDE DEF n, p, from
<1>5. Distinct(p)
  <2>1. ASSUME NEW k \in 1 .. n - 1, NEW l \in 1 .. n - 1, p[k] = p[l] PROVE k = l
    <3>1. from(k) \in 1 .. n /\ from(l) \in 1 .. n
      BY <1>1, <1>3
    <3>2. h[from(k)] = h[from(l)]
      BY <1>2, <2>1
    <3>3. from(k) = from(l)
      BY <3>1, <3>2 DEF Distinct, n
    <3> QED
      BY <1>3, <3>3
  <2> QED
    BY <1>2, <2>1 DEF Distinct
<1>6. {p[k] : k \in 1 .. n - 1} = {h[k] : k \in 1 .. n} \ {h[1]}
  <2>1. ASSUME NEW k \in 1 .. n - 1 PROVE p[k] \in {h[m] : m \in 1 .. n} \ {h[1]}
    <3>1. from(k) \in 1 .. n /\ h[from(k)] # h[1]
      BY <1>1, <1>3, <1>4
    <3> QED
      BY <1>2, <3>1
  <2>2. ASSUME NEW m \in 1 .. n, h[m] # h[1] PROVE h[m] \in {p[k] : k \in 1 .. n - 1}
    <3>1. PICK k \in 1 .. n - 1 : from(k) = m
      BY <1>3, <1>4, <2>2
    <3> QED
      BY <1>2, <3>1
  <2> QED
    BY <2>1, <2>2
<1> QED
  BY <1>2, <1>5, <1>6 DEF n, p

LEMMA AppendKeeps ==
  ASSUME NEW h \in Seq(Servers), NEW e \in Servers, Distinct(h),
         e \notin {h[k] : k \in 1 .. Len(h)}
  PROVE  /\ Append(h, e) \in Seq(Servers) /\ Len(Append(h, e)) = Len(h) + 1
         /\ Append(h, e)[Len(h) + 1] = e
         /\ \A k \in 1 .. Len(h) : Append(h, e)[k] = h[k]
         /\ Distinct(Append(h, e))
         /\ {Append(h, e)[k] : k \in 1 .. Len(h) + 1} = {h[k] : k \in 1 .. Len(h)} \cup {e}
<1> DEFINE n == Len(h)
           a == Append(h, e)
<1>1. n \in Nat /\ a \in Seq(Servers) /\ Len(a) = n + 1 /\ a[n + 1] = e
      /\ \A k \in 1 .. n : a[k] = h[k]
  OBVIOUS
<1>2. \A k \in 1 .. n + 1 : k \in 1 .. n \/ k = n + 1
  BY <1>1
<1>3. \A k \in 1 .. n : k \in 1 .. n + 1 /\ h[k] # e
  BY <1>1
<1>4. n + 1 \in 1 .. n + 1
  BY <1>1
<1>5. \A k, l \in 1 .. n : h[k] = h[l] => k = l
  BY DEF Distinct
<1> HIDE DEF n, a
<1>6. Distinct(a)
  BY <1>1, <1>2, <1>3, <1>5 DEF Distinct
<1>7. {a[k] : k \in 1 .. n + 1} = {h[k] : k \in 1 .. n} \cup {e}
  <2>1. ASSUME NEW k \in 1 .. n + 1 PROVE a[k] \in {h[l] : l \in 1 .. n} \cup {e}
    BY <1>1, <1>2
  <2>2. ASSUME NEW x \in {h[l] : l \in 1 .. n} \cup {e} PROVE x \in {a[k] : k \in 1 .. n + 1}
    BY <1>1, <1>3, <1>4
  <2> QED
    BY <2>1, <2>2
<1> QED
  BY <1>1, <1>6, <1>7 DEF n, a

(***************************************************************************)
(* The type invariant.  An operation is at a slot of the array, except that *)
(* heap_pop may have emptied it.                                           *)
(***************************************************************************)

TypeInv ==
  /\ TypeOK
  /\ left <= at
  /\ doing = "nothing" => at = 1
  /\ doing # "build" => left = 1
  /\ doing \in {"build", "push"} => at <= Len(heap)
  /\ doing = "pop" => at = 1 \/ at <= Len(heap)

LEMMA HeapLength == ASSUME TypeOK PROVE Len(heap) \in Nat /\ (heap = <<>> <=> Len(heap) = 0)
BY DEF TypeOK

\* A step of Sink goes to a child, and only where there is one.
LEMMA SinkIs ==
  ASSUME TypeInv, Sink
  PROVE  /\ at \in 1 .. Len(heap) /\ at' \in 1 .. Len(heap)
         /\ at' \div 2 = at /\ at' > at
         /\ heap' = swap(heap, at, at')
<1>1. PICK is_greater \in Comparisons :
        Largest(at, is_greater) # at /\ at' = Largest(at, is_greater) /\ heap' = swap(heap, at, at')
  BY DEF Sink
<1>2. Len(heap) \in Nat /\ at \in Nat /\ at >= 1
  BY HeapLength DEF TypeInv, TypeOK
<1>3. at' \in {2 * at, 2 * at + 1} /\ at' <= Len(heap)
  BY <1>1 DEF Largest, greater
<1>4. at' \div 2 = at
  <2>1. at' \in Nat /\ at' >= 2 /\ (at' = 2 * at \/ at' = 2 * at + 1)
    BY <1>2, <1>3
  <2> QED
    BY <1>2, <2>1, ParentIs
<1> QED
  BY <1>1, <1>2, <1>3, <1>4

LEMMA RiseIs ==
  ASSUME TypeInv, Rise
  PROVE  /\ at \in 2 .. Len(heap) /\ at' \in 1 .. Len(heap)
         /\ at' = at \div 2 /\ at' < at
         /\ heap' = swap(heap, at, at')
<1>1. Len(heap) \in Nat /\ at \in Nat /\ at > 1 /\ at <= Len(heap)
  BY HeapLength DEF TypeInv, TypeOK, Rise
<1>2. at \div 2 \in Nat /\ 1 <= at \div 2 /\ at \div 2 < at
  BY <1>1, ParentIs
<1> QED
  BY <1>1, <1>2 DEF Rise

\* Where a slot is given up to its parent or child, nothing else is changed.
LEMMA SwapStep ==
  ASSUME TypeInv, Sink \/ Rise
  PROVE  /\ at \in 1 .. Len(heap) /\ at' \in 1 .. Len(heap) /\ at' # at
         /\ heap' \in Seq(Servers) /\ Distinct(heap)' /\ Len(heap') = Len(heap)
         /\ Elements' = Elements
         /\ heap'[at] = heap[at'] /\ heap'[at'] = heap[at]
         /\ \A k \in 1 .. Len(heap) : k # at /\ k # at' => heap'[k] = heap[k]
<1>1. /\ at \in 1 .. Len(heap) /\ at' \in 1 .. Len(heap) /\ at' # at
      /\ heap' = swap(heap, at, at')
  <2>1. CASE Sink
    BY <2>1, SinkIs DEF TypeInv, TypeOK
  <2>2. CASE Rise
    BY <2>2, RiseIs DEF TypeInv, TypeOK
  <2> QED
    BY <2>1, <2>2
<1>2. heap \in Seq(Servers) /\ Distinct(heap)
  BY DEF TypeInv, TypeOK
<1>3. /\ heap' \in Seq(Servers) /\ Len(heap') = Len(heap)
      /\ heap'[at] = heap[at'] /\ heap'[at'] = heap[at]
      /\ \A k \in 1 .. Len(heap) : k # at /\ k # at' => heap'[k] = heap[k]
  <2> DEFINE w == swap(heap, at, at')
  <2>1. /\ w \in Seq(Servers) /\ Len(w) = Len(heap)
        /\ w[at] = heap[at'] /\ w[at'] = heap[at]
        /\ \A k \in 1 .. Len(heap) : k # at /\ k # at' => w[k] = heap[k]
    BY <1>1, <1>2, SwapIs
  <2> QED
    BY <1>1, <2>1, Zenon
<1>4. Distinct(heap') /\ Elements' = Elements
  <2> DEFINE w == swap(heap, at, at')
  <2>1. Distinct(w) /\ {w[k] : k \in 1 .. Len(heap)} = {heap[k] : k \in 1 .. Len(heap)}
    BY <1>1, <1>2, SwapKeeps
  <2> HIDE DEF w
  <2>2. heap' = w
    BY <1>1 DEF w
  <2> QED
    BY <1>3, <2>1, <2>2 DEF Elements
<1> QED
  BY <1>1, <1>3, <1>4 DEF Distinct

LEMMA TypeInit == Init => TypeInv
<1> SUFFICES ASSUME Init PROVE TypeInv
  OBVIOUS
<1>1. PICK n \in 0 .. Cardinality(Servers) : heap \in [1 .. n -> Servers]
  BY DEF Init, Lists
<1>2. n \in Nat
  BY HeapAssumption, FS_CardinalityType
<1>3. heap \in Seq(Servers) /\ Len(heap) \in Nat /\ (heap = <<>> <=> Len(heap) = 0)
  BY <1>1, <1>2
<1>4. /\ at = left /\ left \in Nat /\ left >= 1
      /\ Len(heap) # 0 => left <= Len(heap)
      /\ Len(heap) = 0 => left = 1
  BY <1>3 DEF Init, LastParent
<1>5. Elements \in SUBSET Servers
  BY <1>3 DEF Elements
<1> QED
  BY <1>3, <1>4, <1>5 DEF Init, TypeInv, TypeOK

LEMMA QueueTyped ==
  ASSUME TypeOK
  PROVE  Queue(heap) \in [members : SUBSET Servers, first : Servers \cup {NoServer}]
<1>1. heap # <<>> => heap[1] \in Servers
  BY DEF TypeOK
<1>2. {heap[i] : i \in 1 .. Len(heap)} \in SUBSET Servers
  BY DEF TypeOK
<1> QED
  BY <1>1, <1>2 DEF Queue, EmptyQueue

LEMMA CompareTyped ==
  ASSUME TypeOK, \E is_greater \in Comparisons : Compare(is_greater)
  PROVE  meant' \in BOOLEAN
BY DEF TypeOK, Compare

LEMMA TypeStep == TypeInv /\ [Next]_vars => TypeInv'
<1> SUFFICES ASSUME TypeInv, [Next]_vars PROVE TypeInv'
  OBVIOUS
<1>0. TypeOK /\ Len(heap) \in Nat /\ (heap = <<>> <=> Len(heap) = 0)
  BY HeapLength DEF TypeInv
<1>1. CASE Sink
  <2>1. meant' \in BOOLEAN
    BY <1>0, <1>1, CompareTyped DEF Sink
  <2>2. /\ at \in 1 .. Len(heap) /\ at' \in 1 .. Len(heap) /\ at' > at
        /\ heap' \in Seq(Servers) /\ Distinct(heap)' /\ Len(heap') = Len(heap)
    BY <1>1, SinkIs, SwapStep
  <2>3. doing' = doing /\ left' = left /\ seen' = seen
    BY <1>1 DEF Sink
  <2> QED
    BY <1>0, <1>1, <2>1, <2>2, <2>3 DEF TypeInv, TypeOK, Sink
<1>2. CASE Settle
  <2>1. meant' \in BOOLEAN
    BY <1>0, <1>2, CompareTyped DEF Settle
  <2>2. CASE left > 1
    <3>1. /\ left' = left - 1 /\ at' = left - 1
          /\ heap' = heap /\ doing' = doing /\ seen' = seen
      BY <1>2, <2>2 DEF Settle
    <3>2. doing = "build" /\ at <= Len(heap) /\ left <= at
      BY <1>2, <2>2 DEF Settle, TypeInv
    <3> QED
      BY <1>0, <2>1, <2>2, <3>1, <3>2 DEF TypeInv, TypeOK, Distinct
  <2>3. CASE ~ (left > 1)
    BY <1>0, <1>2, <2>1, <2>3, QueueTyped DEF Settle, Return, TypeInv, TypeOK, Distinct
  <2> QED
    BY <2>2, <2>3
<1>3. CASE Rise
  <2>1. meant' \in BOOLEAN
    BY <1>0, <1>3, CompareTyped DEF Rise
  <2>2. /\ at \in 2 .. Len(heap) /\ at' \in 1 .. Len(heap)
        /\ heap' \in Seq(Servers) /\ Distinct(heap)' /\ Len(heap') = Len(heap)
    BY <1>3, RiseIs, SwapStep
  <2>3. doing = "push" /\ doing' = doing /\ left' = left /\ left = 1 /\ seen' = seen
    BY <1>3 DEF Rise, TypeInv
  <2> QED
    BY <1>0, <2>1, <2>2, <2>3 DEF TypeInv, TypeOK
<1>4. CASE RiseEnd
  <2>1. meant' \in BOOLEAN
    BY <1>0, <1>4, CompareTyped DEF RiseEnd, TypeOK
  <2> QED
    BY <1>0, <1>4, <2>1, QueueTyped DEF RiseEnd, Return, TypeInv, TypeOK, Distinct
<1>5. CASE HeapPop
  <2>1. heap' \in Seq(Servers) /\ Distinct(heap') /\ heap' = Popped(heap)
    BY <1>0, <1>5, PoppedIs, PoppedKeeps DEF HeapPop, TypeOK
  <2> QED
    BY <1>0, <1>5, <2>1 DEF HeapPop, TypeInv, TypeOK, Distinct
<1>6. ASSUME NEW elem \in Servers, HeapPush(elem) PROVE TypeInv'
  <2>1. heap' \in Seq(Servers) /\ Distinct(heap') /\ Len(heap') = Len(heap) + 1
    BY <1>0, <1>6, AppendKeeps DEF HeapPush, TypeOK, Elements
  <2>2. left = 1
    BY <1>6 DEF HeapPush, TypeInv
  <2> QED
    BY <1>0, <1>6, <2>1, <2>2 DEF HeapPush, TypeInv, TypeOK, Distinct
<1>7. CASE UNCHANGED vars
  BY <1>7 DEF vars, TypeInv, TypeOK, Distinct
<1> QED
  BY <1>1, <1>2, <1>3, <1>4, <1>5, <1>6, <1>7 DEF Next

\* The heap holds servers, none twice, whatever is_greater answers.
THEOREM TypeCorrect == Spec => []TypeOK
<1>1. TypeInv => TypeOK
  BY DEF TypeInv
<1> QED
  BY <1>1, TypeInit, TypeStep, PTL DEF Spec

(***************************************************************************)
(* What is in the heap while an operation is under way.  heap_pop has taken *)
(* the first element out; heap_push's element is at the slot it has risen  *)
(* to, and until that is the root the first element is still the one that  *)
(* was seen.  None of this depends on what is_greater answers.             *)
(***************************************************************************)

SeenInv ==
  /\ doing = "nothing" => seen = Queue(heap)
  /\ doing = "build" => heap # <<>> /\ seen.members = Elements
  /\ doing = "pop" => /\ seen.first \in seen.members
                      /\ Elements = seen.members \ {seen.first}
  /\ doing = "push" => /\ heap[at] \notin seen.members
                       /\ Elements = seen.members \cup {heap[at]}
                       /\ at # 1 => heap[1] = seen.first

LEMMA QueueIs ==
  ASSUME TypeOK
  PROVE  /\ Queue(heap).members = Elements
         /\ heap # <<>> => Queue(heap).first = heap[1] /\ heap[1] \in Elements
         /\ heap = <<>> => Queue(heap) = EmptyQueue /\ Elements = {}
         /\ Queue(heap) = [members |-> Queue(heap).members, first |-> Queue(heap).first]
<1>1. Len(heap) \in Nat /\ (heap = <<>> <=> Len(heap) = 0)
  BY HeapLength
<1>2. heap = <<>> => Elements = {}
  BY <1>1 DEF Elements
<1>3. heap # <<>> => heap[1] \in Elements
  BY <1>1 DEF Elements
<1> QED
  BY <1>2, <1>3 DEF Queue, EmptyQueue, Elements

LEMMA SeenInit == Init => SeenInv
<1> SUFFICES ASSUME Init PROVE SeenInv
  OBVIOUS
<1>1. doing = "nothing" => heap = <<>> /\ Elements = {}
  <2>1. TypeOK
    BY TypeInit DEF TypeInv
  <2> QED
    BY <2>1, QueueIs DEF Init
<1> QED
  BY <1>1 DEF Init, SeenInv, Queue, EmptyQueue

LEMMA SeenStep == TypeInv /\ SeenInv /\ [Next]_vars => SeenInv'
<1> SUFFICES ASSUME TypeInv, SeenInv, [Next]_vars PROVE SeenInv'
  OBVIOUS
<1>0. TypeOK /\ Len(heap) \in Nat /\ (heap = <<>> <=> Len(heap) = 0)
  BY HeapLength DEF TypeInv
<1>1. CASE Sink
  <2>1. heap' # <<>> /\ Elements' = Elements /\ doing \in {"build", "pop"}
    BY <1>0, <1>1, SwapStep DEF Sink
  <2>2. doing' = doing /\ seen' = seen
    BY <1>1 DEF Sink
  <2> QED
    BY <2>1, <2>2 DEF SeenInv
<1>2. CASE Settle
  <2>1. CASE left > 1
    <3>1. doing = "build"
      BY <1>2, <2>1 DEF TypeInv, Settle
    <3> QED
      BY <1>2, <2>1, <3>1 DEF Settle, SeenInv, Elements
  <2>2. CASE ~ (left > 1)
    BY <1>2, <2>2 DEF Settle, Return, SeenInv
  <2> QED
    BY <2>1, <2>2
<1>3. CASE Rise
  <2>1. /\ at' \in 1 .. Len(heap) /\ Elements' = Elements
        /\ heap'[at'] = heap[at]
        /\ \A k \in 1 .. Len(heap) : k # at /\ k # at' => heap'[k] = heap[k]
        /\ at \in 2 .. Len(heap)
    BY <1>3, SwapStep, RiseIs
  <2>2. doing = "push" /\ doing' = doing /\ seen' = seen
    BY <1>3 DEF Rise
  <2>3. at' # 1 => heap'[1] = heap[1]
    BY <1>0, <2>1
  <2> QED
    BY <2>1, <2>2, <2>3 DEF SeenInv
<1>4. CASE RiseEnd
  BY <1>4 DEF RiseEnd, Return, SeenInv
<1>5. CASE HeapPop
  <2>1. Elements' = Elements \ {heap[1]}
    BY <1>0, <1>5, PoppedKeeps DEF HeapPop, TypeOK, Elements
  <2>2. seen.members = Elements /\ seen.first = heap[1] /\ heap[1] \in Elements
    BY <1>0, <1>5, QueueIs DEF HeapPop, SeenInv
  <2> QED
    BY <1>5, <2>1, <2>2 DEF HeapPop, SeenInv
<1>6. ASSUME NEW elem \in Servers, HeapPush(elem) PROVE SeenInv'
  <2>1. /\ heap' = Append(heap, elem) /\ at' = Len(heap) + 1 /\ elem \notin Elements
        /\ doing' = "push" /\ seen' = seen /\ seen = Queue(heap)
    BY <1>6 DEF HeapPush, SeenInv
  <2>2. /\ Len(heap') = Len(heap) + 1 /\ heap'[at'] = elem
        /\ \A k \in 1 .. Len(heap) : heap'[k] = heap[k]
        /\ Elements' = Elements \cup {elem}
    BY <1>0, <2>1, AppendKeeps DEF TypeOK, Elements
  <2>3. at' # 1 => heap'[1] = heap[1] /\ heap # <<>>
    BY <1>0, <2>1, <2>2
  <2> QED
    BY <1>0, <2>1, <2>2, <2>3, QueueIs DEF SeenInv
<1>7. CASE UNCHANGED vars
  BY <1>7 DEF vars, SeenInv, Elements, Queue
<1> QED
  BY <1>1, <1>2, <1>3, <1>4, <1>5, <1>6, <1>7 DEF Next

LEMMA QueueStep ==
  ASSUME TypeInv, SeenInv, Next
  PROVE  \/ doing' # "nothing" /\ UNCHANGED seen
         \/ /\ doing = "build"
            /\ seen'.members = seen.members /\ seen'.first \in seen.members
         \/ doing = "pop" /\ seen' \in Pop(seen)
         \/ doing = "push" /\ \E s \in Servers \ seen.members : seen' \in Push(seen, s)
<1>0. TypeOK
  BY DEF TypeInv
<1>1. CASE ~ Return
  BY <1>1 DEF Next, Sink, Settle, Rise, RiseEnd, HeapPop, HeapPush
<1>2. CASE Return
  <2>1. doing \in {"build", "pop", "push"}
    BY <1>2 DEF Return, Next, Sink, Settle, Rise, RiseEnd, HeapPop, HeapPush
  <2>2. /\ seen' = [members |-> Elements, first |-> seen'.first]
        /\ heap = <<>> => Elements = {} /\ seen' = EmptyQueue
        /\ heap # <<>> => seen'.first = heap[1] /\ heap[1] \in Elements
    BY <1>0, <1>2, QueueIs DEF Return
  <2>3. CASE doing = "build"
    BY <2>2, <2>3 DEF SeenInv
  <2>4. CASE doing = "pop"
    <3>1. Elements = seen.members \ {seen.first}
      BY <2>4 DEF SeenInv
    <3> QED
      BY <2>2, <2>4, <3>1 DEF Pop, EmptyQueue
  <2>5. CASE doing = "push"
    <3>1. /\ heap[at] \notin seen.members /\ Elements = seen.members \cup {heap[at]}
          /\ at # 1 => heap[1] = seen.first
      BY <2>5 DEF SeenInv
    <3>2. heap[at] \in Servers /\ heap # <<>>
      BY <2>5, HeapLength DEF TypeInv, TypeOK
    <3>3. seen.members = {} => heap[1] = heap[at]
      BY <2>2, <3>1, <3>2
    <3>4. seen' \in Push(seen, heap[at])
      BY <2>2, <3>1, <3>2, <3>3 DEF Push
    <3> QED
      BY <2>5, <3>1, <3>2, <3>4
  <2> QED
    BY <2>1, <2>3, <2>4, <2>5
<1> QED
  BY <1>1, <1>2

\* The heap implements the queue that ClientUpdater relies on, for any
\* comparison, also one that contradicts itself from one turn to the next.
THEOREM HeapImplementsQueue == Spec => ImplementsQueue
<1>1. ASSUME TypeInv, SeenInv, [Next]_vars
      PROVE  [ \/ doing' # "nothing" /\ UNCHANGED seen
               \/ /\ doing = "build"
                  /\ seen'.members = seen.members /\ seen'.first \in seen.members
               \/ doing = "pop" /\ seen' \in Pop(seen)
               \/ doing = "push" /\ \E s \in Servers \ seen.members : seen' \in Push(seen, s) ]_vars
  BY <1>1, QueueStep
<1> QED
  BY <1>1, TypeInit, TypeStep, SeenInit, SeenStep, PTL DEF Spec, ImplementsQueue

(***************************************************************************)
(* The order of the heap under the comparison that is meant.  Nothing is    *)
(* greater than its parent, except at the slot an operation is at: below    *)
(* it while heapify sinks, above it while heap_push's element rises.  The   *)
(* slots before left have not been looked at by heap_build.  Beyond the     *)
(* slot, its children are still in order with its parent.                  *)
(***************************************************************************)

Ordered(h, i) == connect_sooner[<<h[i \div 2], h[i]>>]

Bridged ==
  \A i \in 2 .. Len(heap) : i \div 2 = at => connect_sooner[<<heap[at \div 2], heap[i]>>]

SinkInv ==
  /\ \A i \in 2 .. Len(heap) : i \div 2 >= left /\ i \div 2 # at => Ordered(heap, i)
  /\ at \div 2 >= left => Bridged

RiseInv ==
  /\ \A i \in 2 .. Len(heap) : i # at => Ordered(heap, i)
  /\ at > 1 => Bridged

OrderInv ==
  meant =>
    /\ doing = "nothing" => \A i \in 2 .. Len(heap) : Ordered(heap, i)
    /\ doing \in {"build", "pop"} => SinkInv
    /\ doing = "push" => RiseInv

LEMMA ParentIn ==
  ASSUME TypeOK, NEW i \in 2 .. Len(heap)
  PROVE  /\ i \div 2 \in 1 .. Len(heap) /\ i \div 2 < i /\ i \in 1 .. Len(heap)
         /\ heap[i] \in Servers /\ heap[i \div 2] \in Servers
<1>1. Len(heap) \in Nat /\ i \in Nat /\ i >= 2 /\ i <= Len(heap)
  BY HeapLength
<1>2. i \div 2 \in 1 .. Len(heap) /\ i \div 2 < i /\ i \in 1 .. Len(heap)
  BY <1>1, ParentIs
<1> QED
  BY <1>2 DEF TypeOK

LEMMA MeantBefore ==
  ASSUME NEW is_greater, Compare(is_greater), meant'
  PROVE  meant /\ is_greater = connect_sooner
BY DEF Compare

LEMMA OrderInit == Init => OrderInv
<1> SUFFICES ASSUME Init PROVE OrderInv
  OBVIOUS
<1>1. TypeOK
  BY TypeInit DEF TypeInv
<1>2. Len(heap) \in Nat /\ (heap = <<>> <=> Len(heap) = 0)
  BY <1>1, HeapLength
<1>3. ASSUME NEW i \in 2 .. Len(heap), i \div 2 >= left PROVE i \div 2 = at
  <2>1. left = Len(heap) \div 2 /\ at = left
    BY <1>2 DEF Init, LastParent
  <2>2. i \div 2 <= Len(heap) \div 2
    BY <1>2
  <2>3. i \div 2 \in Nat /\ Len(heap) \div 2 \in Nat
    BY <1>2
  <2> QED
    BY <1>3, <2>1, <2>2, <2>3
<1>4. ~ (at \div 2 >= left)
  <2>1. at = left /\ at \in Nat /\ at >= 1
    BY <1>2 DEF Init, LastParent
  <2> QED
    BY <2>1
<1> QED
  BY <1>2, <1>3, <1>4 DEF Init, OrderInv, SinkInv

\* heapify finds the greatest of a slot and its children.
LEMMA LargestIs ==
  ASSUME TypeInv, at <= Len(heap)
  PROVE  LET c == Largest(at, connect_sooner)
         IN  /\ c \in 1 .. Len(heap)
             /\ connect_sooner[<<heap[c], heap[at]>>]
             /\ \A i \in 2 .. Len(heap) :
                  i \div 2 = at => connect_sooner[<<heap[c], heap[i]>>]
<1> DEFINE n == Len(heap)
           l == 2 * at
           r == 2 * at + 1
           first == greater(l, at, connect_sooner)
           c == greater(r, first, connect_sooner)
           S(i, j) == connect_sooner[<<heap[i], heap[j]>>]
<1>1. n \in Nat /\ at \in 1 .. n /\ l \in Nat /\ r \in Nat
  BY HeapLength DEF TypeInv, TypeOK
<1>2. \A i \in 1 .. n : heap[i] \in Servers
  BY DEF TypeInv, TypeOK
<1>3. /\ \A i, j \in 1 .. n : S(i, j) \in BOOLEAN /\ (S(i, j) \/ S(j, i))
      /\ \A i, j, k \in 1 .. n : S(i, j) /\ S(j, k) => S(i, k)
  BY <1>2, SoonerOrders
<1>4. first = IF l <= n /\ S(l, at) THEN l ELSE at
  BY DEF greater
<1>5. c = IF r <= n /\ S(r, first) THEN r ELSE first
  BY DEF greater
<1>6. ASSUME NEW i \in 2 .. n, i \div 2 = at PROVE i = l \/ i = r
  <2>1. i \in Nat /\ i >= 2
    BY <1>1
  <2> QED
    BY <1>1, <1>6, <2>1, ParentIs
<1>7. (l <= n => l \in 1 .. n) /\ (r <= n => r \in 1 .. n)
  BY <1>1
<1>8. Largest(at, connect_sooner) = c
  BY DEF Largest
<1> HIDE DEF n, l, r, S, first, c
<1>9. /\ first \in 1 .. n /\ S(first, at)
      /\ l <= n => S(first, l)
  BY <1>1, <1>3, <1>4, <1>7
<1>10. /\ c \in 1 .. n /\ S(c, at)
       /\ l <= n => S(c, l)
       /\ r <= n => S(c, r)
  BY <1>1, <1>3, <1>5, <1>7, <1>9
<1>11. ASSUME NEW i \in 2 .. n, i \div 2 = at PROVE S(c, i)
  <2>1. i <= n
    BY <1>1
  <2> QED
    BY <1>6, <1>10, <1>11, <2>1
<1> QED
  BY <1>8, <1>10, <1>11 DEF n, S

LEMMA SinkOrders ==
  ASSUME TypeInv, OrderInv, Sink, meant'
  PROVE  SinkInv'
<1>1. meant /\ at' = Largest(at, connect_sooner)
  BY MeantBefore DEF Sink
<1>2. SinkInv
  BY <1>1 DEF Sink, OrderInv
<1>3. /\ at \in 1 .. Len(heap) /\ at' \in 1 .. Len(heap)
      /\ at' \div 2 = at /\ at' > at
  BY SinkIs
<1>4. /\ Len(heap') = Len(heap) /\ heap'[at] = heap[at'] /\ heap'[at'] = heap[at]
      /\ \A k \in 1 .. Len(heap) : k # at /\ k # at' => heap'[k] = heap[k]
  BY SwapStep
<1>5. /\ connect_sooner[<<heap[at'], heap[at]>>]
      /\ \A i \in 2 .. Len(heap) : i \div 2 = at => connect_sooner[<<heap[at'], heap[i]>>]
  BY <1>1, <1>3, LargestIs
<1>6. /\ TypeOK /\ left' = left /\ left \in Nat /\ left <= at
      /\ Len(heap) \in Nat /\ at \in Nat /\ at' \in Nat
  BY <1>3, HeapLength DEF TypeInv, TypeOK, Sink
<1>7. ASSUME NEW i \in 2 .. Len(heap), i \div 2 >= left, i \div 2 # at'
      PROVE  Ordered(heap', i)
  <2>1. /\ i \div 2 \in 1 .. Len(heap) /\ i \div 2 < i /\ i \in 1 .. Len(heap)
    BY <1>6, ParentIn
  <2>2. CASE i = at'
    BY <1>3, <1>4, <1>5, <2>2 DEF Ordered
  <2>3. CASE i # at' /\ i \div 2 = at
    <3>1. i # at
      BY <1>6, <2>1, <2>3
    <3> QED
      BY <1>4, <1>5, <2>1, <2>3, <3>1 DEF Ordered
  <2>4. CASE i = at
    <3>1. Bridged /\ at' \in 2 .. Len(heap)
      BY <1>2, <1>3, <1>6, <1>7, <2>4 DEF SinkInv
    <3>2. connect_sooner[<<heap[at \div 2], heap[at']>>]
      BY <1>3, <3>1 DEF Bridged
    <3>3. heap'[at \div 2] = heap[at \div 2]
      BY <1>4, <1>7, <2>1, <2>4
    <3> QED
      BY <1>4, <2>4, <3>2, <3>3 DEF Ordered
  <2>5. CASE i # at' /\ i # at /\ i \div 2 # at
    <3>1. Ordered(heap, i)
      BY <1>2, <1>7, <2>5 DEF SinkInv
    <3> QED
      BY <1>4, <1>7, <2>1, <2>5, <3>1 DEF Ordered
  <2> QED
    BY <2>2, <2>3, <2>4, <2>5
<1>8. Bridged'
  <2> SUFFICES ASSUME NEW i \in 2 .. Len(heap'), i \div 2 = at'
               PROVE  connect_sooner[<<heap'[at' \div 2], heap'[i]>>]
    BY DEF Bridged
  <2>1. /\ i \in 2 .. Len(heap) /\ i \in 1 .. Len(heap) /\ i \div 2 < i
    BY <1>4, <1>6, ParentIn
  <2>2. i # at /\ i # at' /\ i \div 2 >= left /\ i \div 2 # at
    BY <1>3, <1>6, <2>1
  <2>3. Ordered(heap, i)
    BY <1>2, <2>1, <2>2 DEF SinkInv
  <2> QED
    BY <1>3, <1>4, <2>1, <2>2, <2>3 DEF Ordered
<1> QED
  BY <1>4, <1>6, <1>7, <1>8 DEF SinkInv

\* A slot with nothing greater below joins those that are in order.
LEMMA SettleOrders ==
  ASSUME TypeInv, OrderInv, Settle, meant'
  PROVE  \A i \in 2 .. Len(heap) : i \div 2 >= left => Ordered(heap, i)
<1>1. meant /\ at = Largest(at, connect_sooner)
  BY MeantBefore DEF Settle
<1>2. SinkInv
  BY <1>1 DEF Settle, OrderInv
<1>3. ASSUME NEW i \in 2 .. Len(heap), i \div 2 >= left PROVE Ordered(heap, i)
  <2>1. CASE i \div 2 = at
    <3>1. at <= Len(heap)
      BY <2>1, ParentIn, HeapLength DEF TypeInv
    <3> QED
      BY <1>1, <2>1, <3>1, LargestIs DEF Ordered
  <2>2. CASE i \div 2 # at
    BY <1>2, <1>3, <2>2 DEF SinkInv
  <2> QED
    BY <2>1, <2>2
<1> QED
  BY <1>3

LEMMA RiseOrders ==
  ASSUME TypeInv, OrderInv, Rise, meant'
  PROVE  RiseInv'
<1>1. meant /\ ~ connect_sooner[<<heap[at \div 2], heap[at]>>]
  BY MeantBefore DEF Rise
<1>2. RiseInv
  BY <1>1 DEF Rise, OrderInv
<1>3. at \in 2 .. Len(heap) /\ at' \in 1 .. Len(heap) /\ at' = at \div 2 /\ at' < at
  BY RiseIs
<1>4. /\ Len(heap') = Len(heap) /\ heap'[at] = heap[at'] /\ heap'[at'] = heap[at]
      /\ \A k \in 1 .. Len(heap) : k # at /\ k # at' => heap'[k] = heap[k]
  BY SwapStep
<1>5. TypeOK /\ Len(heap) \in Nat /\ at \in Nat /\ at' \in Nat
  BY <1>3, HeapLength DEF TypeInv
<1>6. \A i \in 1 .. Len(heap) : heap[i] \in Servers
  BY <1>5 DEF TypeOK
<1>7. /\ connect_sooner[<<heap[at], heap[at']>>]
      /\ heap[at] \in Servers /\ heap[at'] \in Servers
  BY <1>1, <1>3, <1>5, <1>6, ParentIn, SoonerOrders
<1>8. Bridged
  BY <1>2, <1>3 DEF RiseInv
<1>9. ASSUME NEW i \in 2 .. Len(heap), i # at' PROVE Ordered(heap', i)
  <2>1. /\ i \div 2 \in 1 .. Len(heap) /\ i \div 2 < i /\ i \in 1 .. Len(heap)
        /\ heap[i] \in Servers
    BY <1>5, ParentIn
  <2>2. CASE i = at
    BY <1>3, <1>4, <1>7, <2>2 DEF Ordered
  <2>3. CASE i # at /\ i \div 2 = at'
    <3>1. connect_sooner[<<heap[at'], heap[i]>>]
      BY <1>2, <2>3 DEF RiseInv, Ordered
    <3>2. connect_sooner[<<heap[at], heap[i]>>]
      BY <1>7, <2>1, <3>1, SoonerOrders
    <3> QED
      BY <1>4, <1>9, <2>1, <2>3, <3>2 DEF Ordered
  <2>4. CASE i \div 2 = at
    <3>1. connect_sooner[<<heap[at'], heap[i]>>]
      BY <1>3, <1>8, <2>4 DEF Bridged
    <3>2. i # at
      BY <1>5, <2>1, <2>4
    <3> QED
      BY <1>4, <1>9, <2>1, <2>4, <3>1, <3>2 DEF Ordered
  <2>5. CASE i # at /\ i \div 2 # at' /\ i \div 2 # at
    <3>1. Ordered(heap, i)
      BY <1>2, <2>5 DEF RiseInv
    <3> QED
      BY <1>4, <1>9, <2>1, <2>5, <3>1 DEF Ordered
  <2> QED
    BY <2>2, <2>3, <2>4, <2>5
<1>10. ASSUME at' > 1 PROVE Bridged'
  <2>1. at' \in 2 .. Len(heap) /\ at' # at
    BY <1>3, <1>5, <1>10
  <2>2. /\ at' \div 2 \in 1 .. Len(heap) /\ at' \div 2 < at'
        /\ heap[at' \div 2] \in Servers
    BY <1>5, <2>1, ParentIn
  <2>3. connect_sooner[<<heap[at' \div 2], heap[at']>>]
    BY <1>2, <2>1 DEF RiseInv, Ordered
  <2>4. heap'[at' \div 2] = heap[at' \div 2]
    BY <1>3, <1>4, <1>5, <2>2
  <2> SUFFICES ASSUME NEW i \in 2 .. Len(heap'), i \div 2 = at'
               PROVE  connect_sooner[<<heap'[at' \div 2], heap'[i]>>]
    BY DEF Bridged
  <2>5. i \in 2 .. Len(heap) /\ i \in 1 .. Len(heap) /\ i \div 2 < i /\ heap[i] \in Servers
    BY <1>4, <1>5, ParentIn
  <2>6. i # at'
    BY <1>5, <2>5
  <2>7. CASE i = at
    BY <1>4, <2>3, <2>4, <2>7
  <2>8. CASE i # at
    <3>1. connect_sooner[<<heap[at'], heap[i]>>]
      BY <1>2, <2>5, <2>8 DEF RiseInv, Ordered
    <3>2. connect_sooner[<<heap[at' \div 2], heap[i]>>]
      BY <1>7, <2>2, <2>3, <2>5, <3>1, SoonerOrders
    <3> QED
      BY <1>4, <2>4, <2>5, <2>6, <2>8, <3>2
  <2> QED
    BY <2>7, <2>8
<1> QED
  BY <1>4, <1>9, <1>10 DEF RiseInv

LEMMA OrderStep == TypeInv /\ OrderInv /\ [Next]_vars => OrderInv'
<1> SUFFICES ASSUME TypeInv, OrderInv, [Next]_vars, meant' PROVE OrderInv'
  BY DEF OrderInv
<1>0. TypeOK /\ Len(heap) \in Nat /\ (heap = <<>> <=> Len(heap) = 0)
  BY HeapLength DEF TypeInv
<1>1. CASE Sink
  BY <1>1, SinkOrders DEF OrderInv, Sink
<1>2. CASE Settle
  <2>1. \A i \in 2 .. Len(heap) : i \div 2 >= left => Ordered(heap, i)
    BY <1>2, SettleOrders
  <2>2. left \in Nat /\ left >= 1
    BY <1>0 DEF TypeOK
  <2>3. CASE left > 1
    <3>1. left' = left - 1 /\ at' = left - 1 /\ heap' = heap /\ doing' = doing
      BY <1>2, <2>3 DEF Settle
    <3>2. ASSUME NEW i \in 2 .. Len(heap), i \div 2 >= left - 1, i \div 2 # left - 1
          PROVE  Ordered(heap, i)
      <4>1. i \div 2 \in Nat
        BY <1>0, ParentIn
      <4>2. i \div 2 >= left
        BY <2>2, <3>2, <4>1
      <4> QED
        BY <2>1, <4>2
    <3>3. ~ ((left - 1) \div 2 >= left - 1)
      <4>1. CASE left - 1 >= 2
        BY <2>2, <4>1, ParentIs
      <4>2. CASE left - 1 = 1
        BY <4>2
      <4> QED
        BY <2>2, <2>3, <4>1, <4>2
    <3>4. SinkInv'
      BY <3>1, <3>2, <3>3 DEF SinkInv, Ordered
    <3>5. doing \in {"build", "pop"}
      BY <1>2 DEF Settle
    <3> QED
      BY <3>1, <3>4, <3>5 DEF OrderInv
  <2>4. CASE ~ (left > 1)
    <3>1. \A i \in 2 .. Len(heap) : Ordered(heap, i)
      BY <1>0, <2>1, <2>2, <2>4, ParentIn
    <3> QED
      BY <1>2, <2>4, <3>1 DEF Settle, Return, OrderInv, Ordered
  <2> QED
    BY <2>3, <2>4
<1>3. CASE Rise
  BY <1>3, RiseOrders DEF OrderInv, Rise
<1>4. CASE RiseEnd
  <2>1. meant /\ (at = 1 \/ Ordered(heap, at))
    BY <1>4, MeantBefore DEF RiseEnd, Ordered
  <2>2. RiseInv
    BY <1>4, <2>1 DEF RiseEnd, OrderInv
  <2>3. \A i \in 2 .. Len(heap) : Ordered(heap, i)
    BY <2>1, <2>2 DEF RiseInv
  <2> QED
    BY <1>4, <2>3 DEF RiseEnd, Return, OrderInv, Ordered
<1>5. CASE HeapPop
  <2>1. /\ meant /\ doing = "nothing" /\ heap # <<>> /\ heap' = Popped(heap)
        /\ doing' = "pop" /\ at' = 1 /\ left' = 1
    BY <1>5 DEF HeapPop
  <2>2. \A i \in 2 .. Len(heap) : Ordered(heap, i)
    BY <2>1 DEF OrderInv
  <2>3. /\ Len(heap') = Len(heap) - 1
        /\ \A k \in 1 .. Len(heap) - 1 : k # 1 => heap'[k] = heap[k]
    BY <1>0, <2>1, PoppedIs DEF TypeOK
  <2>4. ASSUME NEW i \in 2 .. Len(heap'), i \div 2 >= 1, i \div 2 # 1 PROVE Ordered(heap', i)
    <3>1. i \in 2 .. Len(heap) /\ i \in 1 .. Len(heap) - 1 /\ i # 1
      BY <1>0, <2>3
    <3>2. i \div 2 \in 1 .. Len(heap) - 1
      BY <1>0, <3>1, ParentIn
    <3> QED
      BY <2>2, <2>3, <2>4, <3>1, <3>2 DEF Ordered
  <2>5. ~ (1 \div 2 >= 1)
    OBVIOUS
  <2> QED
    BY <2>1, <2>4, <2>5 DEF OrderInv, SinkInv
<1>6. ASSUME NEW elem \in Servers, HeapPush(elem) PROVE OrderInv'
  <2>1. /\ meant /\ doing = "nothing" /\ elem \notin Elements /\ heap' = Append(heap, elem)
        /\ doing' = "push" /\ at' = Len(heap) + 1
    BY <1>6 DEF HeapPush
  <2>2. \A i \in 2 .. Len(heap) : Ordered(heap, i)
    BY <2>1 DEF OrderInv
  <2>3. Len(heap') = Len(heap) + 1 /\ \A k \in 1 .. Len(heap) : heap'[k] = heap[k]
    BY <1>0, <2>1, AppendKeeps DEF TypeOK, Elements
  <2>4. ASSUME NEW i \in 2 .. Len(heap'), i # Len(heap) + 1 PROVE Ordered(heap', i)
    <3>1. i \in 2 .. Len(heap)
      BY <1>0, <2>3, <2>4
    <3>2. i \in 1 .. Len(heap) /\ i \div 2 \in 1 .. Len(heap)
      BY <1>0, <3>1, ParentIn
    <3> QED
      BY <2>2, <2>3, <3>1, <3>2 DEF Ordered
  <2>5. ASSUME NEW i \in 2 .. Len(heap') PROVE i \div 2 # Len(heap) + 1
    <3>1. i \in Nat /\ i >= 2 /\ i <= Len(heap) + 1
      BY <1>0, <2>3
    <3>2. i \div 2 \in Nat /\ i \div 2 < i
      BY <3>1, ParentIs
    <3> QED
      BY <1>0, <3>1, <3>2
  <2> QED
    BY <2>1, <2>4, <2>5 DEF OrderInv, RiseInv, Bridged
<1>7. CASE UNCHANGED vars
  BY <1>7 DEF vars, OrderInv, SinkInv, RiseInv, Bridged, Ordered
<1> QED
  BY <1>1, <1>2, <1>3, <1>4, <1>5, <1>6, <1>7 DEF Next

LEMMA HasLeast ==
  ASSUME NEW T, T \subseteq Nat, T # {}
  PROVE  \E x \in T : \A y \in T : x <= y
<1> DEFINE R == OpToRel(<, Nat)
<1>1. \E x \in T : \A y \in T : <<y, x>> \notin R
  <2> HIDE DEF R
  <2>1. IsWellFoundedOn(R, Nat)
    BY NatLessThanWellFounded, Zenon DEF R
  <2> QED
    BY <2>1, WFMin
<1>2. ASSUME NEW x \in Nat, NEW y \in Nat, <<y, x>> \notin R PROVE x <= y
  BY <1>2 DEF OpToRel
<1> QED
  BY <1>1, <1>2

\* When nothing is greater than its parent, nothing is greater than the root:
\* the first slot of which that were not true would have a parent before it.
LEMMA RootIsFirst ==
  ASSUME TypeOK, \A i \in 2 .. Len(heap) : Ordered(heap, i)
  PROVE  \A i \in 1 .. Len(heap) : connect_sooner[<<heap[1], heap[i]>>]
<1> DEFINE T == {i \in 1 .. Len(heap) : ~ connect_sooner[<<heap[1], heap[i]>>]}
<1>0. Len(heap) \in Nat /\ \A i \in 1 .. Len(heap) : heap[i] \in Servers
  BY HeapLength DEF TypeOK
<1>1. SUFFICES ASSUME T # {} PROVE FALSE
  OBVIOUS
<1>2. PICK x \in T : \A y \in T : x <= y
  <2>1. T \subseteq Nat
    BY <1>0
  <2> HIDE DEF T
  <2> QED
    BY <1>1, <2>1, HasLeast
<1>3. x \in 1 .. Len(heap) /\ ~ connect_sooner[<<heap[1], heap[x]>>]
  OBVIOUS
<1>4. x # 1
  <2>1. SUFFICES ASSUME x = 1 PROVE FALSE
    OBVIOUS
  <2>2. heap[1] \in Servers
    BY <1>0, <1>3, <2>1
  <2> QED
    BY <1>3, <2>1, <2>2, SoonerReflexive
<1>5. x \in 2 .. Len(heap) /\ 1 \in 1 .. Len(heap)
  BY <1>0, <1>3, <1>4
<1>6. x \div 2 \in 1 .. Len(heap) /\ x \div 2 < x
  BY <1>5, ParentIn
<1>7. x \div 2 \notin T
  <2>1. ~ (x <= x \div 2)
    BY <1>0, <1>5, <1>6
  <2> HIDE DEF T
  <2> QED
    BY <1>2, <2>1
<1>8. connect_sooner[<<heap[1], heap[x \div 2]>>]
  BY <1>6, <1>7
<1>9. connect_sooner[<<heap[x \div 2], heap[x]>>]
  BY <1>5 DEF Ordered
<1> QED
  BY <1>0, <1>3, <1>5, <1>6, <1>8, <1>9, SoonerOrders

\* With the comparison that is meant, the front of the queue is a server that is
\* to be asked before all others, after any operations.
THEOREM FrontIsSoonest == Spec => []FirstIsSoonest
<1>1. TypeInv /\ OrderInv => FirstIsSoonest
  BY RootIsFirst DEF TypeInv, OrderInv, FirstIsSoonest
<1> QED
  BY <1>1, TypeInit, TypeStep, OrderInit, OrderStep, PTL DEF Spec

=============================================================================
