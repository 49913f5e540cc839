-------------------------- MODULE DagLimiterProofs --------------------------
(***************************************************************************)
(* The permit queue keeps its books for any number of steps and any mix of *)
(* limits: proofs of the invariants of DagLimiter.                         *)
(***************************************************************************)
EXTENDS DagLimiter, FiniteSetTheorems, SequenceTheorems, WellFoundedInduction, TLAPS

\* A non-empty set of naturals that is bounded has a largest element, and Max
\* is that element.
LEMMA MaxOfBounded ==
  ASSUME NEW n \in Nat, NEW S \in SUBSET (0 .. n), S # {}
  PROVE  Max(S) \in S /\ \A x \in S : x <= Max(S)
<1> DEFINE R == {ss \in Nat \X Nat : ss[1] < ss[2]}
           D == {n - x : x \in S}
<1>1. IsWellFoundedOn(R, Nat)
  BY NatLessThanWellFounded DEF OpToRel
<1>2. D \subseteq Nat
  <2>1. \A x \in S : n - x \in Nat
    BY SMT
  <2> QED
    BY <2>1
<1>3. D # {}
  OBVIOUS
<1>4. \E d \in D : \A y \in D : ~ (<<y, d>> \in R)
  <2> HIDE DEF R, D
  <2> QED
    BY <1>1, <1>2, <1>3, WFMin
<1>5. PICK m \in S : \A y \in D : ~ (<<y, n - m>> \in R)
  BY <1>4
<1>6. \A x \in S : x <= m
  <2> SUFFICES ASSUME NEW x \in S PROVE x <= m
    OBVIOUS
  <2>1. n - x \in D /\ n - x \in Nat /\ n - m \in Nat
    OBVIOUS
  <2>2. ~ (n - x < n - m)
    BY <1>5, <2>1
  <2> QED
    BY <2>2
<1>7. \E x \in S : \A y \in S : x >= y
  BY <1>6
<1> QED
  BY <1>7 DEF Max

-----------------------------------------------------------------------------
\* The limit of a request is an integer, whatever was configured.
LEMMA RequestLimit == \A r \in Request : r.limit \in Int /\ r.client \in Clients
<1> SUFFICES ASSUME NEW r \in Request
             PROVE  r.limit \in Int /\ r.client \in Clients
  OBVIOUS
<1>1. r.limit \in {NormalizedLimit(l) : l \in Limits} /\ r.client \in Clients
  BY DEF Request
<1>2. PICK l \in Limits : r.limit = NormalizedLimit(l)
  BY <1>1
<1> QED
  BY <1>1, <1>2, LimitsAssumption DEF NormalizedLimit

\* drain() grants a prefix of the queue, every request in it within its limit,
\* and stops at a request that would exceed its own.
LEMMA GrantableIsLongest ==
  ASSUME NEW inUse \in Nat, NEW queue \in Seq(Request)
  PROVE  LET k == Grantable(inUse, queue)
         IN  /\ k \in 0 .. Len(queue)
             /\ \A i \in 1 .. k : inUse + i - 1 < queue[i].limit
             /\ k < Len(queue) => inUse + k >= queue[k + 1].limit
<1> DEFINE n == Len(queue)
           S == {k \in 0 .. n : \A i \in 1 .. k : inUse + i - 1 < queue[i].limit}
           k == Max(S)
<1>1. n \in Nat
  OBVIOUS
<1>2. \A i \in 1 .. n : queue[i].limit \in Int
  <2> SUFFICES ASSUME NEW i \in 1 .. n PROVE queue[i].limit \in Int
    OBVIOUS
  <2>1. queue[i] \in Request
    OBVIOUS
  <2> QED
    BY <2>1, RequestLimit
<1>3. 0 \in S
  BY <1>1
<1>4. k \in S /\ \A x \in S : x <= k
  <2> HIDE DEF k
  <2>1. S \in SUBSET (0 .. n) /\ S # {}
    BY <1>3
  <2> HIDE DEF S, n
  <2> QED
    BY <1>1, <2>1, MaxOfBounded DEF k
<1>5. k < n => inUse + k >= queue[k + 1].limit
  <2> SUFFICES ASSUME k < n, inUse + k < queue[k + 1].limit PROVE FALSE
    BY <1>1, <1>2, <1>4
  <2>1. k + 1 \in 0 .. n
    BY <1>1, <1>4
  <2>2. \A i \in 1 .. k + 1 : i \in 1 .. k \/ i = k + 1
    BY <1>4
  <2>3. k + 1 \in S
    <3> HIDE DEF k
    <3> QED
      BY <1>4, <2>1, <2>2
  <2> QED
    BY <1>4, <2>3
<1>6. Grantable(inUse, queue) = k
  BY DEF Grantable
<1> QED
  BY <1>4, <1>5, <1>6

\* The books of the queue: what the prefix takes out of it goes to holders.
Books(inUse, queue, keep) ==
  /\ inUse \in Nat
  /\ queue \in Seq(Request)
  /\ keep \in SUBSET Clients
  /\ inUse = Cardinality(keep)
  /\ \A i \in DOMAIN queue : queue[i].client \notin keep
  /\ \A i, j \in DOMAIN queue : queue[i].client = queue[j].client => i = j

Inv == TypeOK /\ SlotAccounting /\ NoIdleHead /\ OnePlacePerClient

LEMMA InvBooks == Inv => Books(active, waiting, holders)
  BY DEF Inv, TypeOK, SlotAccounting, OnePlacePerClient, Waiters, Books

\* The first k clients of a queue without repetition are k clients.
LEMMA PrefixCardinality ==
  ASSUME NEW queue \in Seq(Request), NEW k \in 0 .. Len(queue),
         \A i, j \in DOMAIN queue : queue[i].client = queue[j].client => i = j
  PROVE  LET P == {queue[i].client : i \in 1 .. k}
         IN  IsFiniteSet(P) /\ Cardinality(P) = k
<1> DEFINE P == {queue[i].client : i \in 1 .. k}
           f == [i \in 1 .. k |-> queue[i].client]
<1>1. f \in Bijection(1 .. k, P)
  BY DEF Bijection, Injection, Surjection, IsInjective
<1>2. IsFiniteSet(1 .. k) /\ Cardinality(1 .. k) = k
  BY FS_Interval
<1>3. ExistsBijection(1 .. k, P)
  BY <1>1 DEF ExistsBijection
<1>4. IsFiniteSet(P) /\ Cardinality(P) = k
  <2> HIDE DEF P
  <2> QED
    BY <1>2, <1>3, FS_Bijection
<1> QED
  BY <1>4

\* Draining keeps the invariant: the new holders are as many as the counter
\* says, nobody stands in two places, and the new head has to wait.
LEMMA DrainInv ==
  ASSUME NEW inUse, NEW queue, NEW keep,
         Books(inUse, queue, keep), Drain(inUse, queue, keep)
  PROVE  Inv'
<1> DEFINE k == Grantable(inUse, queue)
           P == {queue[i].client : i \in 1 .. k}
           rest == SubSeq(queue, k + 1, Len(queue))
<1>1. /\ inUse \in Nat /\ queue \in Seq(Request)
      /\ keep \in SUBSET Clients /\ IsFiniteSet(keep)
  BY ClientsAssumption, FS_Subset DEF Books
<1>2. /\ k \in 0 .. Len(queue)
      /\ k < Len(queue) => inUse + k >= queue[k + 1].limit
  BY <1>1, GrantableIsLongest
<1>3. active' = inUse + k /\ waiting' = rest /\ holders' = keep \union P
  BY DEF Drain
<1> HIDE DEF k
<1>4. /\ rest \in Seq(Request)
      /\ Len(rest) = Len(queue) - k
      /\ \A i \in 1 .. Len(queue) - k : rest[i] = queue[k + i]
  BY <1>1, <1>2, SubSeqProperties
<1>5. \A i \in 1 .. Len(queue) : queue[i] \in Request /\ queue[i].client \in Clients
  BY <1>1, RequestLimit
<1>6. P \subseteq Clients /\ IsFiniteSet(P) /\ Cardinality(P) = k
  <2>1. P \subseteq Clients
    BY <1>1, <1>2, <1>5
  <2>2. \A i, j \in DOMAIN queue : queue[i].client = queue[j].client => i = j
    BY DEF Books
  <2>3. IsFiniteSet(P) /\ Cardinality(P) = k
    BY <1>1, <1>2, <2>2, PrefixCardinality
  <2> QED
    BY <2>1, <2>3
<1>7. keep \intersect P = {}
  BY <1>1, <1>2 DEF Books
<1>8. TypeOK'
  BY <1>1, <1>2, <1>3, <1>4, <1>6 DEF TypeOK
<1>9. SlotAccounting'
  <2>1. Cardinality(keep \union P) = Cardinality(keep) + Cardinality(P) - 0
    <3> HIDE DEF P
    <3> QED
      BY <1>1, <1>6, <1>7, FS_Union, FS_EmptySet
  <2>2. Cardinality(keep) = inUse
    BY DEF Books
  <2> QED
    BY <1>1, <1>2, <1>3, <1>6, <2>1, <2>2 DEF SlotAccounting
<1>10. NoIdleHead'
  <2> SUFFICES ASSUME rest # <<>> PROVE inUse + k >= rest[1].limit
    BY <1>3 DEF NoIdleHead
  <2>1. k < Len(queue)
    BY <1>1, <1>2, <1>4
  <2>2. rest[1] = queue[k + 1]
    BY <1>1, <1>2, <1>4, <2>1
  <2> QED
    BY <1>2, <2>1, <2>2
<1>11. OnePlacePerClient'
  <2>1. DOMAIN rest = 1 .. Len(queue) - k
    BY <1>4
  <2>2. \A i \in DOMAIN rest : k + i \in DOMAIN queue /\ k + i \notin 1 .. k
    BY <1>1, <1>2, <2>1
  <2>3. \A i, j \in DOMAIN rest : rest[i].client = rest[j].client => i = j
    <3> SUFFICES ASSUME NEW i \in DOMAIN rest, NEW j \in DOMAIN rest,
                        rest[i].client = rest[j].client
                 PROVE  i = j
      OBVIOUS
    <3>1. queue[k + i].client = queue[k + j].client
      BY <1>4, <2>1
    <3>2. k + i = k + j
      BY <2>2, <3>1 DEF Books
    <3> QED
      BY <1>2, <2>1, <3>2
  <2>4. \A i \in DOMAIN rest : rest[i].client \notin keep \union P
    <3> SUFFICES ASSUME NEW i \in DOMAIN rest, rest[i].client \in keep \union P
                 PROVE  FALSE
      OBVIOUS
    <3>1. rest[i] = queue[k + i]
      BY <1>4, <2>1
    <3>2. queue[k + i].client \in P
      BY <2>2, <3>1 DEF Books
    <3>3. PICK j \in 1 .. k : queue[j].client = queue[k + i].client
      BY <3>2
    <3>4. j \in DOMAIN queue
      BY <1>1, <1>2
    <3> QED
      BY <2>2, <3>3, <3>4 DEF Books
  <2> HIDE DEF rest, P
  <2> QED
    BY <1>3, <2>3, <2>4 DEF OnePlacePerClient, Waiters
<1> QED
  BY <1>8, <1>9, <1>10, <1>11 DEF Inv

LEMMA InitInv == Init => Inv
  BY FS_EmptySet DEF Init, Inv, TypeOK, SlotAccounting, NoIdleHead, OnePlacePerClient, Waiters

\* A request at the end of the queue is in the books.
LEMMA AcquireBooks ==
  ASSUME Inv, NEW c \in Clients, NEW l \in Limits, Acquire(c, l)
  PROVE  LET queue == Append(waiting, [client |-> c, limit |-> NormalizedLimit(l)])
         IN  Books(active, queue, holders) /\ Drain(active, queue, holders)
<1> DEFINE r == [client |-> c, limit |-> NormalizedLimit(l)]
           queue == Append(waiting, r)
<1>1. Books(active, waiting, holders)
  BY InvBooks
<1>2. r \in Request
  BY DEF Request
<1>3. waiting \in Seq(Request) /\ queue \in Seq(Request) /\ Len(queue) = Len(waiting) + 1
  BY <1>1, <1>2 DEF Books
<1>4. \A i \in DOMAIN queue : \/ i \in DOMAIN waiting /\ queue[i] = waiting[i]
                              \/ i = Len(waiting) + 1 /\ queue[i] = r
  BY <1>3
<1>5. c \notin holders /\ \A i \in DOMAIN waiting : waiting[i].client # c
  BY DEF Acquire, Waiters
<1>6. Books(active, queue, holders)
  <2>1. \A i, j \in DOMAIN queue : queue[i].client = queue[j].client => i = j
    <3> HIDE DEF queue
    <3> QED
      BY <1>1, <1>4, <1>5 DEF Books
  <2>2. \A i \in DOMAIN queue : queue[i].client \notin holders
    <3> HIDE DEF queue
    <3> QED
      BY <1>1, <1>4, <1>5 DEF Books
  <2> QED
    BY <1>1, <1>3, <2>1, <2>2 DEF Books
<1>7. Drain(active, queue, holders)
  BY DEF Acquire
<1> QED
  BY <1>6, <1>7

LEMMA AcquireInv ==
  ASSUME Inv, NEW c \in Clients, NEW l \in Limits, Acquire(c, l)
  PROVE  Inv'
BY AcquireBooks, DrainInv

\* A permit that came back is out of them.
LEMMA ReleaseBooks ==
  ASSUME Inv, NEW c \in Clients, Release(c)
  PROVE  Books(IF active > 0 THEN active - 1 ELSE 0, waiting, holders \ {c})
<1>1. Books(active, waiting, holders)
  BY InvBooks
<1>2. IsFiniteSet(holders)
  BY <1>1, ClientsAssumption, FS_Subset DEF Books
<1>3. Cardinality(holders \ {c}) = active - 1 /\ Cardinality(holders \ {c}) \in Nat
  BY <1>1, <1>2, FS_RemoveElement, FS_CardinalityType DEF Release, Books
<1> QED
  BY <1>1, <1>3 DEF Books

LEMMA ReleaseInv ==
  ASSUME Inv, NEW c \in Clients, Release(c)
  PROVE  Inv'
BY ReleaseBooks, DrainInv DEF Release

-----------------------------------------------------------------------------
(* Who stands where after a step: for the modules that build on the queue.   *)

\* Draining moves clients from the queue to the holders, and loses none.
LEMMA DrainPlaces ==
  ASSUME NEW inUse, NEW queue, NEW keep,
         Books(inUse, queue, keep), Drain(inUse, queue, keep)
  PROVE  /\ holders' \union Waiters' = keep \union {queue[i].client : i \in DOMAIN queue}
         /\ keep \subseteq holders'
<1> DEFINE k == Grantable(inUse, queue)
<1>1. inUse \in Nat /\ queue \in Seq(Request) /\ Len(queue) \in Nat
  BY DEF Books
<1>2. k \in 0 .. Len(queue)
  BY <1>1, GrantableIsLongest
<1>3. /\ waiting' = SubSeq(queue, k + 1, Len(queue))
      /\ holders' = keep \union {queue[i].client : i \in 1 .. k}
  BY DEF Drain
<1> HIDE DEF k
<1>4. /\ DOMAIN queue = 1 .. Len(queue) /\ DOMAIN waiting' = 1 .. Len(queue) - k
      /\ \A i \in 1 .. Len(queue) - k : waiting'[i] = queue[k + i]
  BY <1>1, <1>2, <1>3, SubSeqProperties
<1>5. Waiters' = {queue[i].client : i \in k + 1 .. Len(queue)}
  <2>1. \A i \in 1 .. Len(queue) - k : k + i \in k + 1 .. Len(queue)
    BY <1>1, <1>2
  <2>2. \A i \in k + 1 .. Len(queue) : i - k \in 1 .. Len(queue) - k /\ k + (i - k) = i
    BY <1>1, <1>2
  <2> QED
    BY <1>4, <2>1, <2>2 DEF Waiters
<1>6. DOMAIN queue = (1 .. k) \union (k + 1 .. Len(queue))
  BY <1>1, <1>2, <1>4
<1> QED
  BY <1>3, <1>5, <1>6

\* Who asks stands in the queue or holds a permit; nobody else changes sides
\* but to be granted one.
LEMMA AcquirePlaces ==
  ASSUME Inv, NEW c \in Clients, NEW l \in Limits, Acquire(c, l)
  PROVE  /\ holders' \union Waiters' = holders \union Waiters \union {c}
         /\ holders \subseteq holders'
<1> DEFINE queue == Append(waiting, [client |-> c, limit |-> NormalizedLimit(l)])
<1>1. Books(active, queue, holders) /\ Drain(active, queue, holders)
  BY AcquireBooks
<1>2. /\ DOMAIN queue = DOMAIN waiting \union {Len(waiting) + 1}
      /\ \A i \in DOMAIN waiting : queue[i] = waiting[i]
      /\ queue[Len(waiting) + 1].client = c
  BY DEF Inv, TypeOK
<1>3. {queue[i].client : i \in DOMAIN queue} = Waiters \union {c}
  <2> HIDE DEF queue
  <2> QED
    BY <1>2 DEF Waiters
<1> HIDE DEF queue
<1> QED
  BY <1>1, <1>3, DrainPlaces

\* Who releases is out; the others stay, or are granted a permit.
LEMMA ReleasePlaces ==
  ASSUME Inv, NEW c \in Clients, Release(c)
  PROVE  /\ holders' \union Waiters' = (holders \union Waiters) \ {c}
         /\ holders \ {c} \subseteq holders'
<1>1. /\ Books(IF active > 0 THEN active - 1 ELSE 0, waiting, holders \ {c})
      /\ Drain(IF active > 0 THEN active - 1 ELSE 0, waiting, holders \ {c})
  BY ReleaseBooks DEF Release
<1>2. c \notin Waiters
  BY DEF Release, Inv, OnePlacePerClient
<1> QED
  BY <1>1, <1>2, DrainPlaces DEF Waiters

\* Draining respects the largest limit in the queue.
LEMMA DrainBound ==
  ASSUME NEW inUse, NEW queue, NEW keep, NEW L \in Nat,
         Books(inUse, queue, keep), Drain(inUse, queue, keep), inUse <= L,
         \A i \in DOMAIN queue : queue[i].limit <= L
  PROVE  active' <= L
<1> DEFINE k == Grantable(inUse, queue)
<1>1. inUse \in Nat /\ queue \in Seq(Request) /\ DOMAIN queue = 1 .. Len(queue) /\ Len(queue) \in Nat
  BY DEF Books
<1>2. k \in 0 .. Len(queue) /\ \A i \in 1 .. k : inUse + i - 1 < queue[i].limit
  BY <1>1, GrantableIsLongest
<1>3. active' = inUse + k
  BY DEF Drain
<1> HIDE DEF k
<1>4. CASE k = 0
  BY <1>1, <1>3, <1>4
<1>5. CASE k > 0
  <2>1. k \in 1 .. k /\ k \in DOMAIN queue
    BY <1>1, <1>2, <1>5
  <2>2. inUse + k - 1 < queue[k].limit /\ queue[k].limit <= L
    BY <1>2, <2>1
  <2>3. queue[k].limit \in Int
    <3>1. queue[k] \in Request
      BY <1>1, <2>1
    <3> QED
      BY <3>1, RequestLimit
  <2> QED
    BY <1>1, <1>2, <1>3, <2>2, <2>3
<1> QED
  BY <1>2, <1>4, <1>5

\* So with one limit for all, there are never more permits out than it says.
LEMMA StepBound ==
  ASSUME Inv, NEW L \in Nat, \A r \in Request : r.limit <= L, active <= L, NEW c \in Clients,
         Release(c) \/ \E l \in Limits : Acquire(c, l)
  PROVE  active' <= L
<1>1. CASE Release(c)
  <2> DEFINE left == IF active > 0 THEN active - 1 ELSE 0
  <2>1. active \in Nat /\ waiting \in Seq(Request)
    BY DEF Inv, TypeOK
  <2>2. left <= L /\ \A i \in DOMAIN waiting : waiting[i].limit <= L
    BY <2>1
  <2> QED
    BY <1>1, <2>2, ReleaseBooks, DrainBound DEF Release
<1>2. ASSUME NEW l \in Limits, Acquire(c, l) PROVE active' <= L
  <2> DEFINE queue == Append(waiting, [client |-> c, limit |-> NormalizedLimit(l)])
  <2>1. Books(active, queue, holders) /\ Drain(active, queue, holders)
    BY <1>2, AcquireBooks
  <2>2. queue \in Seq(Request)
    BY <2>1 DEF Books
  <2> HIDE DEF queue
  <2>3. \A i \in DOMAIN queue : queue[i].limit <= L
    BY <2>2
  <2> QED
    BY <2>1, <2>3, DrainBound
<1> QED
  BY <1>1, <1>2

\* Whom draining grants a permit, it grants before anyone behind.
LEMMA DrainOrder ==
  ASSUME NEW inUse, NEW queue, NEW keep,
         Books(inUse, queue, keep), Drain(inUse, queue, keep),
         NEW c \in holders' \ keep, NEW i \in DOMAIN queue, queue[i].client \notin holders'
  PROVE  \E j \in 1 .. i - 1 : queue[j].client = c
<1> DEFINE k == Grantable(inUse, queue)
<1>1. inUse \in Nat /\ queue \in Seq(Request) /\ DOMAIN queue = 1 .. Len(queue)
  BY DEF Books
<1>2. k \in 0 .. Len(queue)
  BY <1>1, GrantableIsLongest
<1>3. holders' = keep \union {queue[j].client : j \in 1 .. k}
  BY DEF Drain
<1> HIDE DEF k
<1>4. PICK j \in 1 .. k : c = queue[j].client
  BY <1>3
<1>5. i \notin 1 .. k
  BY <1>3
<1>6. j \in 1 .. i - 1
  BY <1>1, <1>2, <1>4, <1>5
<1> QED
  BY <1>4, <1>6

\* No step lets anybody pass who came later.
LEMMA StepOrder ==
  ASSUME Inv, Next, NEW c \in holders' \ holders, NEW i \in DOMAIN waiting,
         waiting[i].client \notin holders'
  PROVE  \E j \in 1 .. i : waiting[j].client = c
<1>0. waiting \in Seq(Request) /\ DOMAIN waiting = 1 .. Len(waiting) /\ i \in Nat
  BY DEF Inv, TypeOK
<1>1. ASSUME NEW d \in Clients, Release(d)
      PROVE  \E j \in 1 .. i : waiting[j].client = c
  <2>1. c \in holders' \ (holders \ {d})
    OBVIOUS
  <2>2. Books(IF active > 0 THEN active - 1 ELSE 0, waiting, holders \ {d})
    BY <1>1, ReleaseBooks
  <2>3. Drain(IF active > 0 THEN active - 1 ELSE 0, waiting, holders \ {d})
    BY <1>1 DEF Release
  <2>4. \E j \in 1 .. i - 1 : waiting[j].client = c
    BY <2>1, <2>2, <2>3, DrainOrder
  <2> QED
    BY <1>0, <2>4
<1>2. ASSUME NEW d \in Clients, NEW l \in Limits, Acquire(d, l)
      PROVE  \E j \in 1 .. i : waiting[j].client = c
  <2> DEFINE queue == Append(waiting, [client |-> d, limit |-> NormalizedLimit(l)])
  <2>1. Books(active, queue, holders) /\ Drain(active, queue, holders)
    BY <1>2, AcquireBooks
  <2>2. i \in DOMAIN queue /\ \A j \in 1 .. Len(waiting) : queue[j] = waiting[j]
    BY <1>0
  <2> HIDE DEF queue
  <2>3. queue[i].client \notin holders'
    BY <1>0, <2>2
  <2>4. PICK j \in 1 .. i - 1 : queue[j].client = c
    BY <2>1, <2>2, <2>3, DrainOrder
  <2> QED
    BY <1>0, <2>2, <2>4
<1> QED
  BY <1>1, <1>2 DEF Next

-----------------------------------------------------------------------------
\* The limiter's books are right in every behaviour: the counter it admits by
\* is the number of permits out, nobody holds and queues or queues twice, and
\* the head of the queue waits only while its limit is used up.
THEOREM LimiterInvariant == Spec => []Inv
<1>1. Init => Inv
  BY InitInv
<1>2. Inv /\ [Next]_vars => Inv'
  <2> SUFFICES ASSUME Inv, [Next]_vars PROVE Inv'
    OBVIOUS
  <2>1. CASE Next
    BY <2>1, AcquireInv, ReleaseInv DEF Next
  <2>2. CASE UNCHANGED vars
    BY <2>2 DEF vars, Inv, TypeOK, SlotAccounting, NoIdleHead, OnePlacePerClient, Waiters
  <2> QED
    BY <2>1, <2>2
<1> QED
  BY <1>1, <1>2, PTL DEF Spec

\* The queue keeps its types, for any number of clients and any limits.
THEOREM LimiterTypeCorrect == Spec => []TypeOK
  BY LimiterInvariant, PTL DEF Inv

\* drain() decides by the number of permits that are really out.
THEOREM LimiterSlotAccounting == Spec => []SlotAccounting
  BY LimiterInvariant, PTL DEF Inv

\* Nobody waits at the head of the queue for a permit that is free.
THEOREM LimiterNoLostWakeup == Spec => []NoIdleHead
  BY LimiterInvariant, PTL DEF Inv

\* First come, first served: whoever is granted a permit had no older request
\* before it that goes on waiting, whatever limit that one brought.
THEOREM LimiterFirstComeFirstServed == Spec => FirstComeFirstServed
<1>1. Inv /\ [Next]_vars =>
        [\A c \in holders' \ holders, i \in DOMAIN waiting :
           waiting[i].client \notin holders' =>
             \E j \in 1 .. i : waiting[j].client = c]_vars
  BY StepOrder
<1> QED
  BY <1>1, LimiterInvariant, PTL DEF Spec, FirstComeFirstServed
=============================================================================
