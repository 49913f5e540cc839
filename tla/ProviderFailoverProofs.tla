------------------------ MODULE ProviderFailoverProofs ------------------------
(***************************************************************************)
(* Queue, permits, modes and sessions agree for any number of callers,     *)
(* any chain, any limits and any number of probes under way: proofs of the *)
(* invariants of ProviderFailover, and of what a session may count on.     *)
(***************************************************************************)
EXTENDS ProviderFailover, FiniteSetTheorems, SequenceTheorems, WellFoundedInduction, TLAPS

-----------------------------------------------------------------------------
(* The inductive invariant. *)

Distinct(seq) == \A i, j \in DOMAIN seq : seq[i] = seq[j] => i = j

\* A request waits in one place of the queue or of the drain's list, and the one
\* the drain awaits is served or queued again.
Places ==
  /\ Distinct(queue) /\ Distinct(toProcess)
  /\ Elements(queue) \intersect Elements(toProcess) = {}
  /\ \A r \in Requests : phase[r] = "queued" <=> r \in Elements(queue) \union Elements(toProcess)
  /\ serving # NoRequest => phase[serving] # "idle" /\ serving \notin Elements(toProcess)

\* A call that is at a candidate has one.
Asked == \A r \in Requests : phase[r] = "calling" => todo[r] # <<>>

\* The calls that are at provider p, and those of them that wait for admission.
At(p) == {r \in Requests : phase[r] = "calling" /\ Provider[Head(todo[r])] = p}
Line(p) == Elements(waitQueue[p])

\* Who waits for admission waits once, at the provider of its candidate, and the
\* others there are the calls the limiter counts.
BooksOf(p) ==
  /\ Distinct(waitQueue[p])
  /\ Line(p) \subseteq At(p)
  /\ concurrent[p] = Cardinality(At(p) \ Line(p))

Books == \A p \in Limited : BooksOf(p)

\* The call of a session with an entry has that entry and no other.
PinnedCalls ==
  \A r \in Sessioned :
    sticky[r] # 0 /\ phase[r] \in {"next", "calling"} => r \in pinned /\ todo[r] = <<sticky[r]>>

IInv == TypeOK /\ Places /\ Asked /\ Books /\ ModeTellsTruth /\ PinnedCalls

-----------------------------------------------------------------------------
(* What the operators on sequences return. *)

\* The ranks of n or fewer places number them without gaps.
LEMMA Ranks ==
  ASSUME NEW n \in Nat, NEW K \in SUBSET (1 .. n)
  PROVE  LET Rank(i) == Cardinality({j \in K : j <= i})
         IN  /\ Cardinality(K) \in 0 .. n
             /\ \A i \in K : Rank(i) \in 1 .. Cardinality(K)
             /\ \A i, j \in K : i < j => Rank(i) < Rank(j)
             /\ \A m \in 1 .. Cardinality(K) : \E i \in K : Rank(i) = m
<1> DEFINE Upto(i) == {j \in K : j <= i}
           Rank(i) == Cardinality(Upto(i))
           c == Cardinality(K)
           f == [i \in K |-> Rank(i)]
<1>1. IsFiniteSet(K) /\ c \in Nat /\ c <= n
  <2>1. IsFiniteSet(1 .. n) /\ Cardinality(1 .. n) = n
    BY FS_Interval
  <2> QED
    BY <2>1, FS_Subset, FS_CardinalityType
<1>2. ASSUME NEW i \in K
      PROVE  IsFiniteSet(Upto(i)) /\ Rank(i) \in 1 .. c
  <2>1. IsFiniteSet(Upto(i)) /\ Rank(i) <= c /\ Rank(i) \in Nat
    BY <1>1, FS_Subset, FS_CardinalityType
  <2>2. i \in Upto(i)
    OBVIOUS
  <2>3. Rank(i) # 0
    <3> HIDE DEF Upto
    <3> QED
      BY <2>1, <2>2, FS_EmptySet
  <2> QED
    BY <1>1, <2>1, <2>3
<1>3. ASSUME NEW i \in K, NEW j \in K, i < j
      PROVE  Rank(i) < Rank(j)
  <2>1. Upto(i) \union {j} \in SUBSET Upto(j) /\ j \notin Upto(i)
    <3>1. i \in Nat /\ j \in Nat /\ j <= j /\ ~ (j <= i)
      BY <1>3
    <3>2. \A k \in K : k <= i => k <= j
      BY <1>3, <3>1
    <3> QED
      BY <3>1, <3>2
  <2>2. /\ IsFiniteSet(Upto(i) \union {j})
        /\ Cardinality(Upto(i) \union {j}) = Rank(i) + 1
    BY <1>2, <2>1, FS_AddElement
  <2>3. Rank(i) + 1 <= Rank(j)
    BY <1>2, <2>1, <2>2, FS_Subset
  <2>4. Rank(i) \in Nat /\ Rank(j) \in Nat
    BY <1>2, FS_CardinalityType
  <2> HIDE DEF Rank
  <2> QED
    BY <2>3, <2>4
<1>4. \A i \in K : Rank(i) \in 1 .. c
  BY <1>2
<1>5. \A i, j \in K : i < j => Rank(i) < Rank(j)
  BY <1>3
<1> HIDE DEF Rank
<1>6. f \in Surjection(K, 1 .. c)
  <2>1. f \in [K -> 1 .. c]
    BY <1>4
  <2>2. ASSUME NEW i \in K, NEW j \in K, f[i] = f[j] PROVE i = j
    <3>1. i \in Nat /\ j \in Nat /\ f[i] \in Nat /\ f[i] = Rank(i) /\ f[j] = Rank(j)
      BY <1>1, <1>4
    <3>2. ~ (i < j) /\ ~ (j < i)
      BY <1>5, <2>2, <3>1
    <3> QED
      BY <3>1, <3>2
  <2>3. f \in Injection(K, 1 .. c)
    <3> HIDE DEF f
    <3> QED
      BY <2>1, <2>2 DEF Injection, IsInjective
  <2>4. IsFiniteSet(1 .. c) /\ Cardinality(1 .. c) = c
    BY <1>1, FS_Interval
  <2> HIDE DEF f
  <2> QED
    BY <2>3, <2>4, FS_Injection
<1>7. \A m \in 1 .. c : \E i \in K : Rank(i) = m
  <2> SUFFICES ASSUME NEW m \in 1 .. c PROVE \E i \in K : Rank(i) = m
    OBVIOUS
  <2>1. PICK i \in K : f[i] = m
    <3> HIDE DEF f
    <3> QED
      BY <1>6 DEF Surjection
  <2> QED
    BY <2>1
<1> HIDE DEF c
<1>8. c \in 0 .. n
  BY <1>1
<1> QED
  BY <1>4, <1>5, <1>7, <1>8 DEF c, Rank

\* What Only() keeps: the elements in S, each as often and in the order it had.
LEMMA OnlyKeeps ==
  ASSUME NEW T, NEW seq \in Seq(T), NEW S
  PROVE  /\ Only(seq, S) \in Seq(T)
         /\ Len(Only(seq, S)) <= Len(seq)
         /\ Elements(Only(seq, S)) = Elements(seq) \intersect S
         /\ Distinct(seq) => Distinct(Only(seq, S))
<1> DEFINE K == {i \in DOMAIN seq : seq[i] \in S}
           Rank(i) == Cardinality({j \in K : j <= i})
           c == Cardinality(K)
           Place(m) == CHOOSE i \in K : Rank(i) = m
           kept == [m \in 1 .. c |-> seq[Place(m)]]
<1>1. Len(seq) \in Nat /\ DOMAIN seq = 1 .. Len(seq) /\ K \in SUBSET (1 .. Len(seq))
  OBVIOUS
<1>2. /\ c \in 0 .. Len(seq)
      /\ \A i \in K : Rank(i) \in 1 .. c
      /\ \A i, j \in K : i < j => Rank(i) < Rank(j)
      /\ \A m \in 1 .. c : \E i \in K : Rank(i) = m
  <2> HIDE DEF K
  <2> QED
    BY <1>1, Ranks
<1>3. Only(seq, S) = kept
  BY DEF Only
<1> HIDE DEF Rank, c
<1>4. \A m \in 1 .. c : Place(m) \in K /\ Rank(Place(m)) = m
  <2> HIDE DEF K
  <2> SUFFICES ASSUME NEW m \in 1 .. c PROVE Place(m) \in K /\ Rank(Place(m)) = m
    OBVIOUS
  <2>1. \E i \in K : Rank(i) = m
    BY <1>2
  <2> QED
    BY <2>1, Zenon
<1>5. \A i \in K : Place(Rank(i)) = i
  <2> SUFFICES ASSUME NEW i \in K PROVE Place(Rank(i)) = i
    OBVIOUS
  <2>1. Rank(i) \in 1 .. c /\ Rank(i) \in Nat
    BY <1>2
  <2> DEFINE j == Place(Rank(i))
  <2>2. j \in K /\ Rank(j) = Rank(i)
    <3> HIDE DEF Place, K
    <3> QED
      BY <1>4, <2>1
  <2> HIDE DEF j
  <2>3. i \in Nat /\ j \in Nat
    BY <1>1, <2>2
  <2>4. ~ (i < j) /\ ~ (j < i)
    <3> HIDE DEF K
    <3> QED
      BY <1>2, <2>1, <2>2
  <2>5. i = j
    BY <2>3, <2>4
  <2> QED
    BY <2>5 DEF j
<1> HIDE DEF Place
<1>6. c \in Nat /\ c <= Len(seq)
  BY <1>1, <1>2
<1>7. \A m \in 1 .. c : Place(m) \in DOMAIN seq /\ seq[Place(m)] \in S /\ seq[Place(m)] \in T
  BY <1>1, <1>4
<1>8. kept \in Seq(T) /\ Len(kept) = c /\ DOMAIN kept = 1 .. c
  BY <1>6, <1>7
<1>9. Elements(kept) = Elements(seq) \intersect S
  <2>1. \A i \in K : Rank(i) \in 1 .. c /\ kept[Rank(i)] = seq[i]
    <3> HIDE DEF K
    <3> QED
      BY <1>2, <1>5
  <2>2. \A x \in Elements(seq) \intersect S : x \in Elements(kept)
    <3> SUFFICES ASSUME NEW i \in DOMAIN seq, seq[i] \in S PROVE seq[i] \in Elements(kept)
      BY DEF Elements
    <3> HIDE DEF kept
    <3> QED
      BY <1>8, <2>1 DEF Elements
  <2> QED
    BY <1>7, <1>8, <2>2 DEF Elements
<1>10. ASSUME Distinct(seq) PROVE Distinct(kept)
  <2> SUFFICES ASSUME NEW m \in 1 .. c, NEW k \in 1 .. c, kept[m] = kept[k] PROVE m = k
    BY <1>8 DEF Distinct
  <2>1. Place(m) = Place(k)
    BY <1>7, <1>10 DEF Distinct
  <2> QED
    BY <1>4, <2>1
<1> HIDE DEF kept
<1> QED
  BY <1>3, <1>6, <1>8, <1>9, <1>10

-----------------------------------------------------------------------------
(* What the operators of the limiter return. *)

\* A non-empty set of naturals has a least element.
LEMMA LeastNat ==
  ASSUME NEW S \in SUBSET Nat, S # {}
  PROVE  \E m \in S : \A y \in S : ~ (y < m)
<1> DEFINE R == {ss \in Nat \X Nat : ss[1] < ss[2]}
<1>1. IsWellFoundedOn(R, Nat)
  BY NatLessThanWellFounded DEF OpToRel
<1>2. PICK m \in S : \A y \in S : ~ (<<y, m>> \in R)
  <2> HIDE DEF R
  <2> QED
    BY <1>1, WFMin
<1>3. ASSUME NEW y \in S PROVE ~ (y < m)
  <2>1. ~ (<<y, m>> \in R)
    BY <1>2
  <2> QED
    BY <2>1
<1> QED
  BY <1>3

\* A bounded set of naturals has a greatest element, and Max() is it.
LEMMA MaxOfBounded ==
  ASSUME NEW n \in Nat, NEW S \in SUBSET (0 .. n), S # {}
  PROVE  Limiter!Max(S) \in S
<1> DEFINE D == {n - x : x \in S}
<1>1. D \in SUBSET Nat /\ D # {}
  <2>1. \A x \in S : n - x \in Nat
    BY SMT
  <2> QED
    BY <2>1
<1>2. PICK d \in D : \A y \in D : ~ (y < d)
  <2> HIDE DEF D
  <2> QED
    BY <1>1, LeastNat
<1>3. PICK m \in S : d = n - m
  OBVIOUS
<1>4. \A x \in S : m >= x
  <2> SUFFICES ASSUME NEW x \in S PROVE m >= x
    OBVIOUS
  <2>1. n - x \in D
    OBVIOUS
  <2>2. ~ (n - x < n - m)
    <3> HIDE DEF D
    <3> QED
      BY <1>2, <1>3, <2>1
  <2> QED
    BY <2>2
<1> QED
  BY <1>4 DEF Limiter!Max

\* The costs of a queue add up to a number.
LEMMA TotalCostNat ==
  ASSUME NEW p \in Limited, NEW seq \in Seq(Requests)
  PROVE  Limiter!TotalCost(seq) \in Nat
<1> DEFINE Sums(f, k) == f = [n \in 0 .. k |-> IF n = 0 THEN 0 ELSE f[n - 1] + Cost[seq[n]]]
           l == Len(seq)
           Bad == {k \in 0 .. l : ~ \E f : Sums(f, k)}
           sum == CHOOSE f : Sums(f, l)
           Odd == {k \in 0 .. l : sum[k] \notin Nat}
<1>1. l \in Nat /\ \A k \in 1 .. l : Cost[seq[k]] \in Nat
  <2>1. \A k \in 1 .. l : seq[k] \in Requests
    OBVIOUS
  <2>2. Budget[p] \in Nat
    BY CostAssumption
  <2> QED
    BY <2>1, <2>2, CostAssumption
<1> HIDE DEF l
<1>2. Bad = {}
  <2> SUFFICES ASSUME Bad # {} PROVE FALSE
    OBVIOUS
  <2>1. PICK m \in Bad : \A y \in Bad : ~ (y < m)
    <3>1. Bad \in SUBSET Nat
      BY <1>1
    <3> HIDE DEF Bad
    <3> QED
      BY <3>1, LeastNat
  <2>2. m \in 0 .. l /\ m \in Nat
    BY <1>1
  <2>3. m # 0
    <3>1. 0 .. 0 = {0}
      OBVIOUS
    <3>2. Sums([n \in 0 .. 0 |-> 0], 0)
      BY <3>1, Zenon
    <3> QED
      BY <3>2
  <2>4. m - 1 \in 0 .. l /\ m - 1 < m /\ m - 1 \in Nat
    BY <1>1, <2>2, <2>3
  <2>5. m - 1 \notin Bad
    BY <2>1, <2>4
  <2>6. PICK f : Sums(f, m - 1)
    BY <2>4, <2>5
  <2> DEFINE g == [n \in 0 .. m |-> IF n = 0 THEN 0 ELSE f[n - 1] + Cost[seq[n]]]
  <2>7. \A n \in 0 .. m - 1 : g[n] = f[n]
    <3> SUFFICES ASSUME NEW n \in 0 .. m - 1 PROVE g[n] = f[n]
      OBVIOUS
    <3>1. n \in 0 .. m
      BY <2>2
    <3>2. g[n] = IF n = 0 THEN 0 ELSE f[n - 1] + Cost[seq[n]]
      BY <3>1
    <3>3. f[n] = IF n = 0 THEN 0 ELSE f[n - 1] + Cost[seq[n]]
      BY <2>6, Zenon
    <3> QED
      BY <3>2, <3>3, Zenon
  <2>8. \A n \in 0 .. m : n # 0 => n - 1 \in 0 .. m - 1
    BY <2>2
  <2>9. Sums(g, m)
    <3> DEFINE h == [n \in 0 .. m |-> IF n = 0 THEN 0 ELSE g[n - 1] + Cost[seq[n]]]
    <3> HIDE DEF g
    <3>1. \A n \in 0 .. m : (IF n = 0 THEN 0 ELSE g[n - 1] + Cost[seq[n]])
                            = (IF n = 0 THEN 0 ELSE f[n - 1] + Cost[seq[n]])
      BY <2>7, <2>8, Zenon
    <3>2. h = [n \in 0 .. m |-> IF n = 0 THEN 0 ELSE f[n - 1] + Cost[seq[n]]]
      BY <3>1, Zenon
    <3>3. g = [n \in 0 .. m |-> IF n = 0 THEN 0 ELSE f[n - 1] + Cost[seq[n]]]
      BY Zenon DEF g
    <3> QED
      BY <3>2, <3>3, Zenon
  <2> QED
    BY <2>1, <2>9
<1>3. Sums(sum, l)
  <2>1. l \in 0 .. l
    BY <1>1
  <2>2. \E f : Sums(f, l)
    BY <1>2, <2>1
  <2> HIDE DEF Sums
  <2> QED
    BY <2>2, Zenon
<1>4. Odd = {}
  <2> HIDE DEF sum
  <2> SUFFICES ASSUME Odd # {} PROVE FALSE
    OBVIOUS
  <2>1. PICK m \in Odd : \A y \in Odd : ~ (y < m)
    <3>1. Odd \in SUBSET Nat
      BY <1>1
    <3> HIDE DEF Odd
    <3> QED
      BY <3>1, LeastNat
  <2>2. m \in 0 .. l /\ m \in Nat /\ sum[m] \notin Nat
    BY <1>1
  <2>3. sum[m] = IF m = 0 THEN 0 ELSE sum[m - 1] + Cost[seq[m]]
    BY <1>3, <2>2, Zenon
  <2>4. m # 0
    BY <2>2, <2>3
  <2>5. m - 1 \in 0 .. l /\ m - 1 < m /\ m \in 1 .. l
    BY <1>1, <2>2, <2>4
  <2>6. sum[m - 1] \in Nat
    BY <2>1, <2>5
  <2> HIDE DEF Sums
  <2> QED
    BY <1>1, <2>2, <2>3, <2>4, <2>5, <2>6
<1>5. l \in 0 .. l
  BY <1>1
<1>6. sum[l] \in Nat
  <2> HIDE DEF sum
  <2> QED
    BY <1>4, <1>5
<1>7. Limiter!TotalCost(seq) = sum[l]
  BY Zenon DEF Limiter!TotalCost, l
<1> QED
  BY <1>6, <1>7

\* processQueue() moves a prefix of the queue into the slots.
LEMMA ProcessQueueAdmits ==
  ASSUME NEW p \in Limited, waitQueue[p] \in Seq(Requests), NEW inUse \in Nat,
         Limiter!ProcessQueue(p, waitQueue[p], inUse, spent[p])
  PROVE  \E k \in 0 .. Len(waitQueue[p]), cost \in Nat :
           /\ concurrent' = [concurrent EXCEPT ![p] = inUse + k]
           /\ spent' = [spent EXCEPT ![p] = spent[p] + cost]
           /\ waitQueue' = [waitQueue EXCEPT ![p] = SubSeq(waitQueue[p], k + 1, Len(waitQueue[p]))]
<1> DEFINE S == {n \in 0 .. Len(waitQueue[p]) :
                   n = 0 \/ Limiter!CanProceed(p, SubSeq(waitQueue[p], 1, n), inUse, spent[p])}
           k == Limiter!Max(S)
<1>1. k \in 0 .. Len(waitQueue[p])
  <2>1. Len(waitQueue[p]) \in Nat /\ S \in SUBSET (0 .. Len(waitQueue[p])) /\ 0 \in S
    OBVIOUS
  <2>2. k \in S
    <3> HIDE DEF S
    <3> QED
      BY <2>1, MaxOfBounded
  <2> QED
    BY <2>1, <2>2
<1>2. /\ concurrent' = [concurrent EXCEPT ![p] = inUse + k]
      /\ spent' = [spent EXCEPT ![p] = spent[p] + Limiter!TotalCost(SubSeq(waitQueue[p], 1, k))]
      /\ waitQueue' = [waitQueue EXCEPT ![p] = SubSeq(waitQueue[p], k + 1, Len(waitQueue[p]))]
  BY Zenon DEF Limiter!ProcessQueue
<1> HIDE DEF k
<1>3. Limiter!TotalCost(SubSeq(waitQueue[p], 1, k)) \in Nat
  <2>1. SubSeq(waitQueue[p], 1, k) \in Seq(Requests)
    BY <1>1
  <2> QED
    BY <2>1, TotalCostNat
<1> QED
  BY <1>1, <1>2, <1>3

\* A prefix of a sequence that names nobody twice has as many elements as places.
LEMMA PrefixOf ==
  ASSUME NEW seq \in Seq(Requests), Distinct(seq), NEW k \in 0 .. Len(seq)
  PROVE  LET P == {seq[i] : i \in 1 .. k}
             rest == SubSeq(seq, k + 1, Len(seq))
         IN  /\ IsFiniteSet(P) /\ Cardinality(P) = k
             /\ P = Elements(seq) \ Elements(rest) /\ Elements(rest) = Elements(seq) \ P
             /\ rest \in Seq(Requests) /\ Distinct(rest)
<1> DEFINE P == {seq[i] : i \in 1 .. k}
           rest == SubSeq(seq, k + 1, Len(seq))
           f == [i \in 1 .. k |-> seq[i]]
<1>1. /\ Len(seq) \in Nat /\ DOMAIN seq = 1 .. Len(seq) /\ k \in Nat /\ k <= Len(seq)
      /\ \A i \in 1 .. Len(seq) : seq[i] \in Requests
  OBVIOUS
<1>2. /\ rest \in Seq(Requests) /\ DOMAIN rest = 1 .. Len(seq) - k
      /\ \A i \in 1 .. Len(seq) - k : rest[i] = seq[k + i]
  BY <1>1
<1> HIDE DEF rest
<1>3. \A i \in 1 .. Len(seq) - k : k + i \in 1 .. Len(seq)
  BY <1>1
<1>4. Distinct(rest)
  <2> SUFFICES ASSUME NEW i \in 1 .. Len(seq) - k, NEW j \in 1 .. Len(seq) - k, rest[i] = rest[j]
               PROVE  i = j
    BY <1>2 DEF Distinct
  <2>1. k + i = k + j
    BY <1>1, <1>2, <1>3 DEF Distinct
  <2> QED
    BY <1>1, <2>1
<1>5. Elements(rest) = {seq[i] : i \in k + 1 .. Len(seq)}
  <2>1. \A i \in k + 1 .. Len(seq) : i - k \in 1 .. Len(seq) - k /\ k + (i - k) = i
    BY <1>1
  <2>2. \A i \in 1 .. Len(seq) - k : k + i \in k + 1 .. Len(seq)
    BY <1>1
  <2>3. Elements(rest) = {rest[i] : i \in 1 .. Len(seq) - k}
    BY <1>2 DEF Elements
  <2> DEFINE A == {rest[j] : j \in 1 .. Len(seq) - k}
             B == {seq[i] : i \in k + 1 .. Len(seq)}
  <2>4. ASSUME NEW i \in k + 1 .. Len(seq) PROVE seq[i] \in A
    <3>1. i - k \in 1 .. Len(seq) - k /\ rest[i - k] = seq[i]
      BY <1>2, <2>1
    <3> QED
      BY <3>1
  <2>5. ASSUME NEW j \in 1 .. Len(seq) - k PROVE rest[j] \in B
    BY <1>2, <2>2
  <2>6. A \subseteq B
    <3> HIDE DEF B
    <3> QED
      BY <2>5
  <2>7. B \subseteq A
    <3> HIDE DEF A
    <3> QED
      BY <2>4
  <2> QED
    BY <2>3, <2>6, <2>7
<1>6. Elements(seq) = P \union {seq[i] : i \in k + 1 .. Len(seq)}
  <2>1. 1 .. Len(seq) = (1 .. k) \union (k + 1 .. Len(seq))
    BY <1>1
  <2> QED
    BY <1>1, <2>1 DEF Elements
<1>7. P \intersect {seq[i] : i \in k + 1 .. Len(seq)} = {}
  <2>1. \A i \in 1 .. k, j \in k + 1 .. Len(seq) :
          i \in 1 .. Len(seq) /\ j \in 1 .. Len(seq) /\ i # j
    BY <1>1
  <2> QED
    BY <1>1, <2>1 DEF Distinct
<1>8. IsFiniteSet(P) /\ Cardinality(P) = k
  <2>1. 1 .. k \subseteq 1 .. Len(seq)
    BY <1>1
  <2>2. f \in Bijection(1 .. k, P)
    <3>1. f \in [1 .. k -> P]
      OBVIOUS
    <3>2. ASSUME NEW i \in 1 .. k, NEW j \in 1 .. k, f[i] = f[j] PROVE i = j
      BY <1>1, <2>1, <3>2 DEF Distinct
    <3>3. \A r \in P : \E i \in 1 .. k : f[i] = r
      OBVIOUS
    <3> HIDE DEF f, P
    <3> QED
      BY <3>1, <3>2, <3>3 DEF Bijection, Injection, Surjection, IsInjective
  <2>3. IsFiniteSet(1 .. k) /\ Cardinality(1 .. k) = k
    BY <1>1, FS_Interval
  <2> HIDE DEF f, P
  <2> QED
    BY <2>2, <2>3, FS_Bijection DEF ExistsBijection
<1> HIDE DEF P
<1>9. P = Elements(seq) \ Elements(rest) /\ Elements(rest) = Elements(seq) \ P
  BY <1>5, <1>6, <1>7
<1> QED
  BY <1>2, <1>4, <1>8, <1>9 DEF P, rest

\* Taking the first element.
LEMMA TailOf ==
  ASSUME NEW T, NEW seq \in Seq(T), seq # <<>>
  PROVE  /\ Head(seq) \in T /\ Tail(seq) \in Seq(T) /\ Len(Tail(seq)) = Len(seq) - 1
         /\ Elements(seq) = Elements(Tail(seq)) \union {Head(seq)}
         /\ Distinct(seq) => Head(seq) \notin Elements(Tail(seq)) /\ Distinct(Tail(seq))
<1>1. /\ Len(seq) \in Nat /\ Len(seq) >= 1 /\ DOMAIN seq = 1 .. Len(seq) /\ Head(seq) = seq[1]
      /\ Head(seq) \in T /\ Tail(seq) \in Seq(T) /\ Len(Tail(seq)) = Len(seq) - 1
      /\ DOMAIN Tail(seq) = 1 .. Len(seq) - 1
      /\ \A i \in 1 .. Len(seq) - 1 : Tail(seq)[i] = seq[i + 1]
  OBVIOUS
<1>2. /\ \A i \in 1 .. Len(seq) - 1 : i + 1 \in 1 .. Len(seq) /\ i + 1 # 1
      /\ \A i \in 1 .. Len(seq) : i = 1 \/ (i - 1 \in 1 .. Len(seq) - 1 /\ (i - 1) + 1 = i)
      /\ 1 \in 1 .. Len(seq)
  BY <1>1
<1>3. Elements(seq) = Elements(Tail(seq)) \union {Head(seq)}
  <2>1. ASSUME NEW i \in 1 .. Len(seq) PROVE seq[i] \in Elements(Tail(seq)) \union {Head(seq)}
    <3>1. CASE i = 1
      BY <1>1, <3>1
    <3>2. CASE i # 1
      <4>1. i - 1 \in DOMAIN Tail(seq) /\ Tail(seq)[i - 1] = seq[i]
        BY <1>1, <1>2, <3>2
      <4> QED
        BY <4>1 DEF Elements
    <3> QED
      BY <3>1, <3>2
  <2>2. Elements(Tail(seq)) \union {Head(seq)} \subseteq Elements(seq)
    BY <1>1, <1>2 DEF Elements
  <2> QED
    BY <1>1, <2>1, <2>2 DEF Elements
<1>4. ASSUME Distinct(seq) PROVE Head(seq) \notin Elements(Tail(seq)) /\ Distinct(Tail(seq))
  <2>1. Head(seq) \notin Elements(Tail(seq))
    BY <1>1, <1>2, <1>4 DEF Distinct, Elements
  <2>2. ASSUME NEW i \in 1 .. Len(seq) - 1, NEW j \in 1 .. Len(seq) - 1, Tail(seq)[i] = Tail(seq)[j]
        PROVE  i = j
    <3>1. i + 1 = j + 1
      BY <1>1, <1>2, <1>4, <2>2 DEF Distinct
    <3> QED
      BY <3>1
  <2> QED
    BY <1>1, <2>1, <2>2 DEF Distinct
<1> QED
  BY <1>1, <1>3, <1>4

\* Adding one at the end.
LEMMA Appended ==
  ASSUME NEW T, NEW seq \in Seq(T), NEW r \in T
  PROVE  /\ seq \o <<r>> = Append(seq, r) /\ Append(seq, r) \in Seq(T)
         /\ Len(Append(seq, r)) = Len(seq) + 1
         /\ Elements(Append(seq, r)) = Elements(seq) \union {r}
         /\ Distinct(seq) /\ r \notin Elements(seq) => Distinct(Append(seq, r))
<1> DEFINE n == Len(seq)
           new == Append(seq, r)
<1>1. /\ n \in Nat /\ DOMAIN seq = 1 .. n /\ DOMAIN new = 1 .. n + 1
      /\ new \in Seq(T) /\ Len(new) = n + 1
      /\ new[n + 1] = r /\ \A i \in 1 .. n : new[i] = seq[i]
  OBVIOUS
<1>2. seq \o <<r>> = new
  OBVIOUS
<1> HIDE DEF n, new
<1>3. 1 .. n + 1 = (1 .. n) \union {n + 1} /\ n + 1 \notin 1 .. n
  BY <1>1
<1>4. Elements(new) = Elements(seq) \union {r}
  BY <1>1, <1>3 DEF Elements
<1>5. Distinct(seq) /\ r \notin Elements(seq) => Distinct(new)
  BY <1>1, <1>3 DEF Distinct, Elements
<1> QED
  BY <1>1, <1>2, <1>4, <1>5 DEF n, new

\* Taking out the element at one place.
LEMMA Removed ==
  ASSUME NEW T, NEW seq \in Seq(T), Distinct(seq), NEW i \in DOMAIN seq
  PROVE  LET new == Limiter!RemoveAt(seq, i)
         IN  new \in Seq(T) /\ Distinct(new) /\ Elements(new) = Elements(seq) \ {seq[i]}
<1> DEFINE n == Len(seq)
           new == Limiter!RemoveAt(seq, i)
           From(j) == IF j < i THEN j ELSE j + 1
<1>1. /\ n \in Nat /\ DOMAIN seq = 1 .. n /\ i \in 1 .. n
  OBVIOUS
<1>2. /\ new \in Seq(T) /\ DOMAIN new = 1 .. n - 1
      /\ \A j \in 1 .. n - 1 : new[j] = seq[From(j)]
  <2> DEFINE a == SubSeq(seq, 1, i - 1)
             b == SubSeq(seq, i + 1, n)
  <2>1. /\ a \in Seq(T) /\ Len(a) = i - 1 /\ \A j \in 1 .. i - 1 : a[j] = seq[j]
        /\ b \in Seq(T) /\ Len(b) = n - i /\ \A j \in 1 .. n - i : b[j] = seq[i + j]
    BY <1>1
  <2>2. new = a \o b
    BY DEF Limiter!RemoveAt
  <2> HIDE DEF a, b, new, n
  <2>3. /\ a \o b \in Seq(T) /\ Len(a \o b) = n - 1
        /\ \A j \in 1 .. n - 1 : (a \o b)[j] = IF j <= i - 1 THEN a[j] ELSE b[j - (i - 1)]
    <3>1. Len(a) + Len(b) = n - 1
      BY <1>1, <2>1
    <3>2. /\ a \o b \in Seq(T) /\ Len(a \o b) = Len(a) + Len(b)
          /\ \A j \in 1 .. Len(a) + Len(b) :
               (a \o b)[j] = IF j <= Len(a) THEN a[j] ELSE b[j - Len(a)]
      BY <2>1, ConcatProperties, Zenon
    <3> QED
      BY <2>1, <3>1, <3>2
  <2>4. ASSUME NEW j \in 1 .. n - 1 PROVE (a \o b)[j] = seq[From(j)]
    <3>1. CASE j < i
      <4>1. j <= i - 1 /\ j \in 1 .. i - 1
        BY <1>1, <3>1
      <4> QED
        BY <2>1, <2>3, <3>1, <4>1
    <3>2. CASE ~ (j < i)
      <4>1. ~ (j <= i - 1) /\ j - (i - 1) \in 1 .. n - i /\ i + (j - (i - 1)) = j + 1
        BY <1>1, <3>2
      <4> QED
        BY <2>1, <2>3, <3>2, <4>1
    <3> QED
      BY <3>1, <3>2
  <2>5. DOMAIN (a \o b) = 1 .. n - 1
    BY <2>3
  <2> QED
    BY <2>2, <2>3, <2>4, <2>5
<1> HIDE DEF new, n
<1>3. /\ \A j \in 1 .. n - 1 : From(j) \in 1 .. n /\ From(j) # i
      /\ \A j, k \in 1 .. n - 1 : From(j) = From(k) => j = k
      /\ \A j \in 1 .. n : j # i => \E k \in 1 .. n - 1 : From(k) = j
  <2>1. \A j \in 1 .. n - 1 : From(j) \in 1 .. n /\ From(j) # i
    BY <1>1
  <2>2. \A j, k \in 1 .. n - 1 : From(j) = From(k) => j = k
    BY <1>1
  <2>3. ASSUME NEW j \in 1 .. n, j # i PROVE \E k \in 1 .. n - 1 : From(k) = j
    <3>1. CASE j < i
      <4>1. j \in 1 .. n - 1 /\ From(j) = j
        BY <1>1, <3>1
      <4> HIDE DEF From
      <4> QED
        BY <4>1
    <3>2. CASE ~ (j < i)
      <4>1. j - 1 \in 1 .. n - 1 /\ From(j - 1) = j
        BY <1>1, <2>3, <3>2
      <4> HIDE DEF From
      <4> QED
        BY <4>1
    <3> QED
      BY <3>1, <3>2
  <2> QED
    BY <2>1, <2>2, <2>3
<1> HIDE DEF From
<1>4. Distinct(new)
  BY <1>1, <1>2, <1>3 DEF Distinct
<1>5. Elements(new) = Elements(seq) \ {seq[i]}
  <2>1. Elements(new) \subseteq Elements(seq) \ {seq[i]}
    BY <1>1, <1>2, <1>3 DEF Distinct, Elements
  <2>2. ASSUME NEW j \in 1 .. n, seq[j] # seq[i] PROVE seq[j] \in Elements(new)
    <3>1. PICK k \in 1 .. n - 1 : From(k) = j
      BY <1>3, <2>2
    <3>2. k \in DOMAIN new /\ new[k] = seq[j]
      BY <1>2, <3>1
    <3> QED
      BY <3>2 DEF Elements
  <2> QED
    BY <1>1, <2>1, <2>2 DEF Elements
<1> QED
  BY <1>2, <1>4, <1>5 DEF new

-----------------------------------------------------------------------------
(* Permits: what each operation of the limiter does to its books. *)

\* The calls at a provider are finitely many.
LEMMA AtFinite == \A p : At(p) \in SUBSET Requests /\ IsFiniteSet(At(p))
<1> SUFFICES ASSUME NEW p PROVE At(p) \in SUBSET Requests /\ IsFiniteSet(At(p))
  OBVIOUS
<1>1. At(p) \in SUBSET Requests
  BY DEF At
<1>2. IsFiniteSet(Requests)
  BY RequestAssumption
<1> QED
  BY <1>1, <1>2, FS_Subset

\* A call waits for admission where it is, or not at all.
LEMMA WaitingIs ==
  ASSUME Books, NEW r \in Requests
  PROVE  /\ \A p \in Limited : r \in At(p) => (Limiter!Waiting(r) <=> r \in Line(p))
         /\ phase[r] = "calling" /\ Provider[Head(todo[r])] \notin Limited => ~ Limiter!Waiting(r)
<1>1. \A p \in Limited : r \in Line(p) => phase[r] = "calling" /\ Provider[Head(todo[r])] = p
  BY DEF Books, BooksOf, At
<1>2. Limiter!Waiting(r) <=> \E p \in Limited : r \in Line(p)
  BY DEF Limiter!Waiting, Line, Elements
<1> QED
  BY <1>1, <1>2 DEF At

\* The books say that the limiter counts the calls that run.
LEMMA BooksTell ==
  ASSUME Books
  PROVE  PermitsMatchCalls
<1> SUFFICES ASSUME NEW p \in Limited
             PROVE  concurrent[p] = Cardinality({r \in Requests : Calling(r) /\ Provider[Head(todo[r])] = p})
  BY DEF PermitsMatchCalls
<1>1. \A r \in Requests : (Calling(r) /\ Provider[Head(todo[r])] = p) <=> r \in At(p) \ Line(p)
  BY WaitingIs DEF Calling, At
<1>2. {r \in Requests : Calling(r) /\ Provider[Head(todo[r])] = p} = At(p) \ Line(p)
  BY <1>1 DEF At
<1> QED
  BY <1>2 DEF Books, BooksOf

\* Nobody comes or goes.
LEMMA SameBooks ==
  ASSUME Books, UNCHANGED <<concurrent, waitQueue>>, \A p \in Limited : At(p)' = At(p)
  PROVE  Books'
BY DEF Books, BooksOf, Line

\* Only what is at p changes.
LEMMA OneBook ==
  ASSUME Books, NEW p \in Limited, BooksOf(p)',
         \A o \in Limited \ {p} :
           At(o)' = At(o) /\ waitQueue'[o] = waitQueue[o] /\ concurrent'[o] = concurrent[o]
  PROVE  Books'
<1> SUFFICES ASSUME NEW o \in Limited PROVE BooksOf(o)'
  BY DEF Books
<1>1. CASE o # p
  BY <1>1 DEF Books, BooksOf, Line
<1> QED
  BY <1>1

\* A call comes to p and is admitted, or waits.
LEMMA AcquireBooks ==
  ASSUME TypeOK, Books, NEW p \in Limited, NEW r \in Requests, r \notin At(p),
         Limiter!Acquire(p, r), At(p)' = At(p) \union {r},
         \A o \in Limited \ {p} : At(o)' = At(o)
  PROVE  Books' /\ Limiter!LimiterTypeOK'
<1>1. /\ concurrent \in [Limited -> Nat] /\ spent \in [Limited -> Nat]
      /\ waitQueue \in [Limited -> Seq(Requests)]
  BY DEF TypeOK, Limiter!LimiterTypeOK
<1>2. /\ Distinct(waitQueue[p]) /\ Line(p) \subseteq At(p)
      /\ concurrent[p] = Cardinality(At(p) \ Line(p)) /\ r \notin Line(p)
  BY DEF Books, BooksOf
<1>3. CASE /\ concurrent' = [concurrent EXCEPT ![p] = @ + 1]
           /\ spent' = [spent EXCEPT ![p] = @ + Cost[r]]
           /\ UNCHANGED waitQueue
  <2>1. IsFiniteSet(At(p) \ Line(p))
    BY AtFinite, FS_Difference
  <2>2. Cardinality((At(p) \ Line(p)) \union {r}) = concurrent[p] + 1
    BY <1>2, <2>1, FS_AddElement
  <2>3. (At(p) \union {r}) \ Line(p) = (At(p) \ Line(p)) \union {r}
    BY <1>2
  <2>4. Books'
    <3>1. /\ waitQueue' = waitQueue /\ concurrent'[p] = concurrent[p] + 1
          /\ \A o \in Limited \ {p} : concurrent'[o] = concurrent[o]
      BY <1>1, <1>3
    <3>2. BooksOf(p)'
      BY <1>2, <2>2, <2>3, <3>1 DEF BooksOf, Line
    <3> QED
      BY <3>1, <3>2, OneBook
  <2>5. Cost[r] \in Nat
    BY CostAssumption
  <2> QED
    BY <1>1, <1>3, <2>4, <2>5 DEF Limiter!LimiterTypeOK
<1>4. CASE /\ waitQueue' = [waitQueue EXCEPT ![p] = Append(@, r)]
           /\ UNCHANGED <<concurrent, spent>>
  <2>1. waitQueue[p] \in Seq(Requests)
    BY <1>1
  <2>2. /\ Append(waitQueue[p], r) \in Seq(Requests)
        /\ Elements(Append(waitQueue[p], r)) = Line(p) \union {r}
        /\ Distinct(Append(waitQueue[p], r))
    BY <1>2, <2>1, Appended DEF Line
  <2>3. waitQueue'[p] = Append(waitQueue[p], r) /\ \A o \in Limited \ {p} : waitQueue'[o] = waitQueue[o]
    BY <1>1, <1>4
  <2>4. (At(p) \union {r}) \ (Line(p) \union {r}) = At(p) \ Line(p)
    BY <1>2
  <2>5. Books'
    <3>1. BooksOf(p)'
      BY <1>2, <1>4, <2>2, <2>3, <2>4 DEF BooksOf, Line
    <3> QED
      BY <1>4, <2>3, <3>1, OneBook
  <2> QED
    BY <1>1, <1>4, <2>2, <2>5 DEF Limiter!LimiterTypeOK
<1> QED
  BY <1>3, <1>4 DEF Limiter!Acquire

\* The calls in gone leave p, and the freed slots are filled from the line.
LEMMA AdmitBooks ==
  ASSUME TypeOK, Books, NEW p \in Limited, NEW gone \in SUBSET (At(p) \ Line(p)),
         NEW inUse \in Nat, inUse = Cardinality((At(p) \ Line(p)) \ gone),
         Limiter!ProcessQueue(p, waitQueue[p], inUse, spent[p]), At(p)' = At(p) \ gone,
         \A o \in Limited \ {p} : At(o)' = At(o)
  PROVE  Books' /\ Limiter!LimiterTypeOK'
<1>1. /\ concurrent \in [Limited -> Nat] /\ spent \in [Limited -> Nat]
      /\ waitQueue \in [Limited -> Seq(Requests)]
      /\ waitQueue[p] \in Seq(Requests) /\ spent[p] \in Nat
  BY DEF TypeOK, Limiter!LimiterTypeOK
<1>2. Distinct(waitQueue[p]) /\ Line(p) \subseteq At(p)
  BY DEF Books, BooksOf
<1>3. PICK k \in 0 .. Len(waitQueue[p]), cost \in Nat :
        /\ concurrent' = [concurrent EXCEPT ![p] = inUse + k]
        /\ spent' = [spent EXCEPT ![p] = spent[p] + cost]
        /\ waitQueue' = [waitQueue EXCEPT ![p] = SubSeq(waitQueue[p], k + 1, Len(waitQueue[p]))]
  <2>1. \E k \in 0 .. Len(waitQueue[p]), cost \in Nat :
          /\ concurrent' = [concurrent EXCEPT ![p] = inUse + k]
          /\ spent' = [spent EXCEPT ![p] = spent[p] + cost]
          /\ waitQueue' = [waitQueue EXCEPT ![p] = SubSeq(waitQueue[p], k + 1, Len(waitQueue[p]))]
    BY <1>1, ProcessQueueAdmits
  <2> QED
    BY <2>1, Zenon
<1> DEFINE rest == SubSeq(waitQueue[p], k + 1, Len(waitQueue[p]))
           P == {waitQueue[p][i] : i \in 1 .. k}
           H == (At(p) \ Line(p)) \ gone
<1>4. /\ IsFiniteSet(P) /\ Cardinality(P) = k
      /\ P = Line(p) \ Elements(rest) /\ Elements(rest) = Line(p) \ P
      /\ rest \in Seq(Requests) /\ Distinct(rest)
  BY <1>1, <1>2, PrefixOf DEF Line
<1> HIDE DEF rest, P
<1>5. IsFiniteSet(H)
  <2>1. IsFiniteSet(At(p)) /\ H \in SUBSET At(p)
    BY AtFinite
  <2> QED
    BY <2>1, FS_Subset
<1>6. Cardinality(H \union P) = inUse + k
  <2>1. H \intersect P = {}
    BY <1>4
  <2>2. Cardinality(H \union P) = Cardinality(H) + Cardinality(P) - Cardinality({})
    BY <1>4, <1>5, <2>1, FS_Union
  <2>3. Cardinality({}) = 0
    BY FS_EmptySet
  <2>4. k \in Nat
    BY <1>1
  <2> QED
    BY <1>4, <2>2, <2>3, <2>4
<1>7. (At(p) \ gone) \ Elements(rest) = H \union P
  BY <1>2, <1>4
<1>8. /\ waitQueue'[p] = rest /\ \A o \in Limited \ {p} : waitQueue'[o] = waitQueue[o]
      /\ concurrent'[p] = inUse + k /\ \A o \in Limited \ {p} : concurrent'[o] = concurrent[o]
  BY <1>1, <1>3 DEF rest
<1>9. Books'
  <2>1. Elements(rest) \subseteq At(p) \ gone
    BY <1>2, <1>4
  <2> QED
    <3>1. BooksOf(p)'
      BY <1>4, <1>6, <1>7, <1>8, <2>1 DEF BooksOf, Line
    <3> QED
      BY <1>8, <3>1, OneBook
<1>10. Limiter!LimiterTypeOK'
  <2>1. inUse + k \in Nat /\ spent[p] + cost \in Nat
    BY <1>1
  <2> QED
    BY <1>1, <1>3, <1>4, <2>1 DEF Limiter!LimiterTypeOK, rest
<1> QED
  BY <1>9, <1>10

\* A call that was admitted leaves.
LEMMA ReleaseBooks ==
  ASSUME TypeOK, Books, NEW p \in Limited, NEW r \in At(p) \ Line(p),
         Limiter!Release(p), At(p)' = At(p) \ {r},
         \A o \in Limited \ {p} : At(o)' = At(o)
  PROVE  Books' /\ Limiter!LimiterTypeOK'
<1> DEFINE H == At(p) \ Line(p)
           inUse == IF concurrent[p] > 0 THEN concurrent[p] - 1 ELSE 0
<1>1. IsFiniteSet(H) /\ Cardinality(H) \in Nat /\ concurrent[p] = Cardinality(H)
  BY AtFinite, FS_Difference, FS_CardinalityType DEF Books, BooksOf
<1>2. Cardinality(H \ {r}) = Cardinality(H) - 1 /\ Cardinality(H \ {r}) \in Nat
  BY <1>1, FS_RemoveElement, FS_CardinalityType
<1>3. inUse = Cardinality(H \ {r}) /\ inUse \in Nat
  BY <1>1, <1>2
<1>4. Limiter!ProcessQueue(p, waitQueue[p], inUse, spent[p])
  BY DEF Limiter!Release
<1> HIDE DEF inUse
<1> QED
  BY <1>3, <1>4, AdmitBooks

\* A call that waits gives up.
LEMMA WithdrawBooks ==
  ASSUME TypeOK, Books, NEW p \in Limited, NEW r \in Line(p),
         Limiter!Withdraw(p, r), At(p)' = At(p) \ {r},
         \A o \in Limited \ {p} : At(o)' = At(o)
  PROVE  Books' /\ Limiter!LimiterTypeOK'
<1>1. /\ waitQueue \in [Limited -> Seq(Requests)] /\ waitQueue[p] \in Seq(Requests)
      /\ Distinct(waitQueue[p]) /\ Line(p) \subseteq At(p)
  BY DEF TypeOK, Limiter!LimiterTypeOK, Books, BooksOf
<1>2. PICK i \in DOMAIN waitQueue[p] :
        waitQueue[p][i] = r /\ waitQueue' = [waitQueue EXCEPT ![p] = Limiter!RemoveAt(@, i)]
  BY DEF Limiter!Withdraw
<1> DEFINE new == Limiter!RemoveAt(waitQueue[p], i)
<1>3. new \in Seq(Requests) /\ Distinct(new) /\ Elements(new) = Line(p) \ {r}
  BY <1>1, <1>2, Removed DEF Line
<1>4. waitQueue'[p] = new /\ \A o \in Limited \ {p} : waitQueue'[o] = waitQueue[o]
  BY <1>1, <1>2
<1>5. waitQueue' \in [Limited -> Seq(Requests)]
  BY <1>1, <1>2, <1>3
<1> HIDE DEF new
<1>6. UNCHANGED <<concurrent, spent>>
  BY DEF Limiter!Withdraw
<1>7. (At(p) \ {r}) \ (Line(p) \ {r}) = At(p) \ Line(p)
  OBVIOUS
<1>8. Books'
  <2>1. BooksOf(p)'
    BY <1>1, <1>3, <1>4, <1>6, <1>7 DEF Books, BooksOf, Line
  <2> QED
    BY <1>4, <1>6, <2>1, OneBook
<1> QED
  BY <1>5, <1>6, <1>8 DEF TypeOK, Limiter!LimiterTypeOK

\* The poll of a waiting call.
LEMMA PollBooks ==
  ASSUME TypeOK, Books, NEW p \in Limited, Limiter!Poll(p), \A o \in Limited : At(o)' = At(o)
  PROVE  Books' /\ Limiter!LimiterTypeOK'
<1>1. concurrent[p] \in Nat /\ concurrent[p] = Cardinality((At(p) \ Line(p)) \ {})
  <2>1. (At(p) \ Line(p)) \ {} = At(p) \ Line(p)
    OBVIOUS
  <2> QED
    BY <2>1 DEF TypeOK, Limiter!LimiterTypeOK, Books, BooksOf
<1>2. Limiter!ProcessQueue(p, waitQueue[p], concurrent[p], spent[p])
  BY DEF Limiter!Poll
<1>3. {} \in SUBSET (At(p) \ Line(p)) /\ At(p) \ {} = At(p)
  OBVIOUS
<1> QED
  BY <1>1, <1>2, <1>3, AdmitBooks

-----------------------------------------------------------------------------
(* The queue and the drain. *)

QueueTyped ==
  /\ queue \in Seq(Requests) /\ Len(queue) <= MaxQueue
  /\ toProcess \in Seq(Requests)
  /\ serving \in Requests \union {NoRequest}
  /\ aged \in SUBSET Requests
  /\ phase \in [Requests -> {"idle", "queued", "next", "calling"}]

\* What is left of the queue when the expired are out.
LEMMA FreshKeeps ==
  ASSUME queue \in Seq(Requests)
  PROVE  /\ Fresh \in Seq(Requests) /\ Len(Fresh) <= Len(queue)
         /\ Elements(Fresh) = Elements(queue) \ Expired
         /\ Expired \subseteq Elements(queue) /\ Elements(queue) \subseteq Requests
         /\ Distinct(queue) => Distinct(Fresh)
<1>1. Elements(queue) \subseteq Requests
  BY DEF Elements
<1>2. /\ Fresh \in Seq(Requests) /\ Len(Fresh) <= Len(queue)
      /\ Elements(Fresh) = Elements(queue) \intersect (Requests \ aged)
      /\ Distinct(queue) => Distinct(Fresh)
  BY OnlyKeeps DEF Fresh
<1> QED
  BY <1>1, <1>2 DEF Expired

\* What a request finds when it is queued.
LEMMA EnqueueMoves ==
  ASSUME QueueTyped, Distinct(queue), NEW r \in Requests, r \notin Elements(queue), Enqueue(r)
  PROVE  /\ queue' \in Seq(Requests) /\ Len(queue') <= MaxQueue /\ Distinct(queue')
         /\ Elements(queue') = (Elements(queue) \ (Expired \union Dropped))
                                 \union (IF Admitted THEN {r} ELSE {})
         /\ Expired \union Dropped \subseteq Elements(queue)
         /\ aged' \in SUBSET Requests
<1> DEFINE base == IF Overflows THEN Tail(Fresh) ELSE Fresh
<1>1. /\ queue \in Seq(Requests) /\ Len(queue) \in Nat /\ Len(queue) <= MaxQueue /\ MaxQueue \in Nat
  BY QueueAssumption DEF QueueTyped
<1>2. /\ Fresh \in Seq(Requests) /\ Len(Fresh) \in Nat /\ Len(Fresh) <= MaxQueue
      /\ Elements(Fresh) = Elements(queue) \ Expired
      /\ Expired \subseteq Elements(queue)
      /\ Distinct(Fresh)
  <2>1. /\ Fresh \in Seq(Requests) /\ Len(Fresh) <= Len(queue)
        /\ Elements(Fresh) = Elements(queue) \ Expired
        /\ Expired \subseteq Elements(queue)
        /\ Distinct(Fresh)
    BY FreshKeeps, <1>1
  <2>2. Len(Fresh) \in Nat
    BY <2>1
  <2> QED
    BY <1>1, <2>1, <2>2
<1>3. /\ base \in Seq(Requests) /\ Distinct(base) /\ Len(base) \in Nat
      /\ Elements(base) = Elements(queue) \ (Expired \union Dropped)
      /\ Dropped \subseteq Elements(queue)
      /\ Len(base) <= MaxQueue /\ (Admitted => Len(base) + 1 <= MaxQueue)
  <2>1. CASE Overflows
    <3>1. /\ Tail(Fresh) \in Seq(Requests) /\ Len(Tail(Fresh)) = Len(Fresh) - 1
          /\ Elements(Fresh) = Elements(Tail(Fresh)) \union {Head(Fresh)}
          /\ Head(Fresh) \notin Elements(Tail(Fresh)) /\ Distinct(Tail(Fresh))
      BY <1>2, <2>1, TailOf DEF Overflows
    <3>2. Len(Tail(Fresh)) \in Nat
      BY <3>1
    <3>3. base = Tail(Fresh) /\ Dropped = {Head(Fresh)}
      BY <2>1 DEF Dropped
    <3>4. Elements(Tail(Fresh)) = Elements(queue) \ (Expired \union {Head(Fresh)})
      BY <1>2, <3>1
    <3> HIDE DEF base
    <3> QED
      BY <1>1, <1>2, <3>1, <3>2, <3>3, <3>4
  <2>2. CASE ~ Overflows
    <3>1. base = Fresh /\ Dropped = {}
      BY <2>2 DEF Dropped
    <3>2. Admitted => Len(Fresh) < MaxQueue
      BY <2>2 DEF Admitted
    <3> HIDE DEF base
    <3> QED
      BY <1>1, <1>2, <3>1, <3>2
  <2> QED
    BY <2>1, <2>2
<1>4. queue' = base \o (IF Admitted THEN <<r>> ELSE <<>>)
  BY DEF Enqueue
<1> HIDE DEF base
<1>5. CASE Admitted
  <2>1. /\ base \o <<r>> = Append(base, r) /\ Append(base, r) \in Seq(Requests)
        /\ Len(Append(base, r)) = Len(base) + 1
        /\ Elements(Append(base, r)) = Elements(base) \union {r}
        /\ Distinct(Append(base, r))
    <3>1. r \notin Elements(base)
      BY <1>3
    <3> QED
      BY <1>3, <3>1, Appended
  <2>2. queue' = Append(base, r)
    BY <1>4, <1>5, <2>1
  <2>3. aged' \in SUBSET Requests
    BY DEF Enqueue, QueueTyped
  <2> QED
    BY <1>2, <1>3, <1>5, <2>1, <2>2, <2>3
<1>6. CASE ~ Admitted
  <2>1. queue' = base
    BY <1>3, <1>4, <1>6
  <2>2. aged' \in SUBSET Requests
    BY DEF Enqueue, QueueTyped
  <2> QED
    BY <1>2, <1>3, <1>6, <2>1, <2>2
<1> QED
  BY <1>5, <1>6

\* What a change of mode does to the queue: the drain it begins takes it over.
LEMMA SetModeMoves ==
  ASSUME QueueTyped, Places, NEW m, SetMode(m)
  PROVE  /\ queue' \in Seq(Requests) /\ Len(queue') <= MaxQueue /\ Distinct(queue')
         /\ toProcess' \in Seq(Requests) /\ Distinct(toProcess')
         /\ Elements(queue') \intersect Elements(toProcess') = {}
         /\ Elements(queue') \union Elements(toProcess')
              = (Elements(queue) \union Elements(toProcess)) \ DrainRejects(m)
         /\ DrainRejects(m) \subseteq Elements(queue) \union Elements(toProcess)
         /\ serving # NoRequest => toProcess' = toProcess /\ DrainRejects(m) = {}
         /\ aged' \in SUBSET Requests
<1>1. /\ queue \in Seq(Requests) /\ Len(queue) <= MaxQueue /\ toProcess \in Seq(Requests)
      /\ MaxQueue \in Nat /\ aged' \in SUBSET Requests
      /\ Distinct(queue) /\ Distinct(toProcess)
      /\ Elements(queue) \intersect Elements(toProcess) = {}
  BY QueueAssumption DEF QueueTyped, Places, SetMode
<1>2. CASE m \in {mode, "degraded"} \/ Draining
  <2>1. queue' = queue /\ toProcess' = toProcess /\ DrainRejects(m) = {}
    BY <1>2 DEF SetMode, DrainRejects
  <2> QED
    BY <1>1, <2>1
<1>3. CASE ~ (m \in {mode, "degraded"} \/ Draining)
  <2>1. /\ toProcess' = Fresh /\ queue' = <<>> /\ DrainRejects(m) = Expired
        /\ serving = NoRequest /\ toProcess = <<>>
    BY <1>3 DEF SetMode, DrainRejects, Draining
  <2>2. /\ <<>> \in Seq(Requests) /\ Len(<<>>) = 0 /\ Elements(<<>>) = {} /\ Distinct(<<>>)
    BY DEF Elements, Distinct
  <2>3. /\ Fresh \in Seq(Requests) /\ Distinct(Fresh)
        /\ Elements(Fresh) = Elements(queue) \ Expired /\ Expired \subseteq Elements(queue)
    BY <1>1, FreshKeeps
  <2>4. Len(queue') <= MaxQueue
    BY <1>1, <2>1, <2>2
  <2> QED
    BY <1>1, <2>1, <2>2, <2>3, <2>4
<1> QED
  BY <1>2, <1>3

\* Nobody is queued, or taken out of the queue.
LEMMA PlacesSame ==
  ASSUME QueueTyped, Places, UNCHANGED <<queue, toProcess>>, serving' \in {serving, NoRequest},
         aged' \in SUBSET Requests,
         phase' \in [Requests -> {"idle", "queued", "next", "calling"}],
         \A q \in Requests : phase'[q] = "queued" <=> phase[q] = "queued",
         serving' # NoRequest => phase'[serving'] # "idle"
  PROVE  QueueTyped' /\ Places'
<1>1. QueueTyped'
  BY DEF QueueTyped
<1> QED
  BY <1>1 DEF Places

\* A call ends, or a probe answers, and the mode changes.
LEMMA PlacesDrained ==
  ASSUME QueueTyped, Places, NEW m, SetMode(m),
         serving' \in {serving, NoRequest},
         phase' \in [Requests -> {"idle", "queued", "next", "calling"}],
         \A q \in Requests : phase'[q] = "queued" <=> phase[q] = "queued" /\ q \notin DrainRejects(m),
         serving' # NoRequest => phase'[serving'] # "idle"
  PROVE  QueueTyped' /\ Places'
<1>1. /\ queue' \in Seq(Requests) /\ Len(queue') <= MaxQueue /\ Distinct(queue')
      /\ toProcess' \in Seq(Requests) /\ Distinct(toProcess')
      /\ Elements(queue') \intersect Elements(toProcess') = {}
      /\ Elements(queue') \union Elements(toProcess')
           = (Elements(queue) \union Elements(toProcess)) \ DrainRejects(m)
      /\ serving # NoRequest => toProcess' = toProcess
      /\ aged' \in SUBSET Requests
  BY SetModeMoves
<1>2. QueueTyped'
  BY <1>1 DEF QueueTyped
<1>3. \A q \in Requests : phase'[q] = "queued" <=> q \in Elements(queue') \union Elements(toProcess')
  BY <1>1 DEF Places
<1>4. serving' # NoRequest => phase'[serving'] # "idle" /\ serving' \notin Elements(toProcess')
  BY <1>1 DEF Places
<1> QED
  BY <1>1, <1>2, <1>3, <1>4 DEF Places

\* The steps that leave the queue as it is.
LEMMA PlacesCalls ==
  ASSUME QueueTyped, Places, NEW r \in Requests,
         ChatStream(r) \/ NextCandidate(r) \/ Abort(r) \/ RequestAges(r)
  PROVE  QueueTyped' /\ Places'
<1>1. /\ NoRequest \notin Requests /\ serving \in Requests \union {NoRequest}
      /\ serving # NoRequest => phase[serving] # "idle"
      /\ phase \in [Requests -> {"idle", "queued", "next", "calling"}]
      /\ aged \in SUBSET Requests
  BY RequestAssumption DEF QueueTyped, Places
<1>2. CASE ChatStream(r)
  <2>1. /\ UNCHANGED <<queue, toProcess, serving, aged>>
        /\ phase[r] = "idle" /\ phase' = [phase EXCEPT ![r] = "next"]
    BY <1>2 DEF ChatStream, drain
  <2> QED
    BY <1>1, <2>1, PlacesSame
<1>3. CASE NextCandidate(r)
  <2>1. UNCHANGED <<queue, toProcess, aged>> /\ phase[r] = "next"
    BY <1>3 DEF NextCandidate
  <2>2. CASE todo[r] = <<>>
    <3>1. phase' = [phase EXCEPT ![r] = "idle"] /\ serving' = IF serving = r THEN NoRequest ELSE serving
      BY <1>3, <2>2 DEF NextCandidate, Settle
    <3> QED
      BY <1>1, <2>1, <3>1, PlacesSame
  <2>3. CASE todo[r] # <<>>
    <3>1. phase' = [phase EXCEPT ![r] = "calling"] /\ serving' = serving
      BY <1>3, <2>3 DEF NextCandidate
    <3> QED
      BY <1>1, <2>1, <3>1, PlacesSame
  <2> QED
    BY <2>2, <2>3
<1>4. CASE Abort(r)
  <2>1. /\ UNCHANGED <<queue, toProcess, aged>> /\ phase[r] = "calling"
        /\ phase' = [phase EXCEPT ![r] = "idle"]
        /\ serving' = IF serving = r THEN NoRequest ELSE serving
    BY <1>4 DEF Abort, Settle
  <2> QED
    BY <1>1, <2>1, PlacesSame
<1>5. CASE RequestAges(r)
  <2>1. UNCHANGED <<queue, toProcess, serving, phase>> /\ aged' = aged \union {r}
    BY <1>5 DEF RequestAges, calls
  <2> QED
    BY <1>1, <2>1, PlacesSame
<1> QED
  BY <1>2, <1>3, <1>4, <1>5

\* The steps that may begin a drain.
LEMMA PlacesEnds ==
  ASSUME QueueTyped, Places, NEW r \in Requests,
         CallSucceeds(r) \/ \E b \in BOOLEAN : CallFails(r, b)
  PROVE  QueueTyped' /\ Places'
<1>1. /\ NoRequest \notin Requests /\ serving \in Requests \union {NoRequest}
      /\ serving # NoRequest => phase[serving] # "idle"
      /\ phase \in [Requests -> {"idle", "queued", "next", "calling"}]
  BY RequestAssumption DEF QueueTyped, Places
<1>2. CASE CallSucceeds(r)
  <2> DEFINE m == RecordProviderSuccess(Head(todo[r])).mode
  <2>1. /\ SetMode(m) /\ phase[r] = "calling"
        /\ serving' = IF serving = r THEN NoRequest ELSE serving
        /\ phase' = [q \in Requests |-> IF q \in DrainRejects(m) \union {r} THEN "idle" ELSE phase[q]]
    BY <1>2 DEF CallSucceeds, Calling, Settle
  <2> HIDE DEF m
  <2>2. serving # NoRequest => DrainRejects(m) = {}
    BY <2>1, SetModeMoves
  <2> QED
    BY <1>1, <2>1, <2>2, PlacesDrained
<1>3. CASE \E b \in BOOLEAN : CallFails(r, b)
  <2> DEFINE m == RecordProviderFailure(ReportFailure(Provider[Head(todo[r])])).mode
  <2>1. /\ SetMode(m) /\ phase[r] = "calling"
        /\ serving' = IF serving \in (IF r \in pinned THEN {r} ELSE {}) THEN NoRequest ELSE serving
        /\ phase' = [q \in Requests |->
                       IF q = r THEN IF r \in pinned THEN "idle" ELSE "next"
                       ELSE IF q \in DrainRejects(m) THEN "idle" ELSE phase[q]]
    BY <1>3 DEF CallFails, Calling, Settle
  <2> HIDE DEF m
  <2>2. serving # NoRequest => DrainRejects(m) = {}
    BY <2>1, SetModeMoves
  <2> QED
    BY <1>1, <2>1, <2>2, PlacesDrained
<1> QED
  BY <1>2, <1>3

\* A request is queued, or goes to its first candidate.
LEMMA PlacesChat ==
  ASSUME QueueTyped, Places, NEW r \in Requests, Chat(r)
  PROVE  QueueTyped' /\ Places'
<1>1. /\ NoRequest \notin Requests /\ serving \in Requests \union {NoRequest}
      /\ serving # NoRequest => phase[serving] # "idle"
      /\ phase \in [Requests -> {"idle", "queued", "next", "calling"}]
      /\ aged \in SUBSET Requests /\ phase[r] = "idle"
      /\ Distinct(queue)
      /\ toProcess \in Seq(Requests) /\ Distinct(toProcess)
      /\ Elements(queue) \intersect Elements(toProcess) = {}
      /\ \A q \in Requests : phase[q] = "queued" <=> q \in Elements(queue) \union Elements(toProcess)
      /\ serving # NoRequest => serving \notin Elements(toProcess)
  BY RequestAssumption DEF QueueTyped, Places, Chat
<1>2. CASE Queues(r)
  <2> DEFINE D == Expired \union Dropped
  <2>1. /\ Enqueue(r)
        /\ phase' = [q \in Requests |-> IF q = r /\ Admitted THEN "queued"
                                        ELSE IF q \in D THEN "idle" ELSE phase[q]]
        /\ serving' = IF serving \in D THEN NoRequest ELSE serving
        /\ toProcess' = toProcess
    BY <1>2 DEF Chat, Settle
  <2>2. r \notin Elements(queue) /\ r \notin Elements(toProcess)
    BY <1>1
  <2>3. /\ queue' \in Seq(Requests) /\ Len(queue') <= MaxQueue /\ Distinct(queue')
        /\ Elements(queue') = (Elements(queue) \ D) \union (IF Admitted THEN {r} ELSE {})
        /\ D \subseteq Elements(queue)
        /\ aged' \in SUBSET Requests
    BY <1>1, <2>1, <2>2, EnqueueMoves
  <2> HIDE DEF D
  <2>4. QueueTyped'
    BY <1>1, <2>1, <2>3 DEF QueueTyped
  <2>5. \A q \in Requests : phase'[q] = "queued" <=> q \in Elements(queue') \union Elements(toProcess)
    BY <1>1, <2>1, <2>2, <2>3
  <2>6. serving' # NoRequest => phase'[serving'] # "idle" /\ serving' \notin Elements(toProcess)
    BY <1>1, <2>1
  <2>7. Elements(queue') \intersect Elements(toProcess) = {}
    BY <1>1, <2>2, <2>3
  <2> QED
    BY <1>1, <2>1, <2>3, <2>4, <2>5, <2>6, <2>7 DEF Places
<1>3. CASE ~ Queues(r)
  <2>1. UNCHANGED <<queue, toProcess, serving, aged>> /\ phase' = [phase EXCEPT ![r] = "next"]
    BY <1>3 DEF Chat, drain
  <2> QED
    BY <1>1, <2>1, PlacesSame
<1> QED
  BY <1>2, <1>3

\* The drain passes a request on, and it may be queued again.
LEMMA PlacesDrainNext ==
  ASSUME QueueTyped, Places, DrainNext
  PROVE  QueueTyped' /\ Places'
<1> DEFINE r == Head(toProcess)
<1>1. /\ NoRequest \notin Requests
      /\ phase \in [Requests -> {"idle", "queued", "next", "calling"}]
      /\ aged \in SUBSET Requests
      /\ queue \in Seq(Requests) /\ Len(queue) <= MaxQueue /\ Distinct(queue)
      /\ toProcess \in Seq(Requests) /\ Distinct(toProcess) /\ toProcess # <<>>
      /\ toProcess' = Tail(toProcess)
      /\ Elements(queue) \intersect Elements(toProcess) = {}
      /\ \A q \in Requests : phase[q] = "queued" <=> q \in Elements(queue) \union Elements(toProcess)
  BY RequestAssumption DEF QueueTyped, Places, DrainNext, DrainGoesOn
<1>2. /\ r \in Requests /\ Tail(toProcess) \in Seq(Requests) /\ Distinct(Tail(toProcess))
      /\ Elements(toProcess) = Elements(Tail(toProcess)) \union {r}
      /\ r \notin Elements(Tail(toProcess))
  BY <1>1, TailOf
<1>3. r \notin Elements(queue)
  BY <1>1, <1>2
<1>4. CASE r \notin aged /\ Queues(r)
  <2> DEFINE D == Expired \union Dropped
             out == D \union (IF Admitted THEN {} ELSE {r})
  <2>1. /\ Enqueue(r)
        /\ phase' = [q \in Requests |-> IF q \in out THEN "idle" ELSE phase[q]]
        /\ serving' = IF r \in out THEN NoRequest ELSE r
    BY <1>4, Zenon DEF DrainNext
  <2>2. /\ queue' \in Seq(Requests) /\ Len(queue') <= MaxQueue /\ Distinct(queue')
        /\ Elements(queue') = (Elements(queue) \ D) \union (IF Admitted THEN {r} ELSE {})
        /\ D \subseteq Elements(queue)
        /\ aged' \in SUBSET Requests
    BY <1>1, <1>2, <1>3, <2>1, EnqueueMoves
  <2> HIDE DEF D, r
  <2>3. QueueTyped'
    BY <1>1, <1>2, <2>1, <2>2 DEF QueueTyped
  <2>4. \A q \in Requests : phase'[q] = "queued" <=> q \in Elements(queue') \union Elements(Tail(toProcess))
    BY <1>1, <1>2, <1>3, <2>1, <2>2
  <2>5. serving' # NoRequest => phase'[serving'] # "idle" /\ serving' \notin Elements(Tail(toProcess))
    BY <1>1, <1>2, <2>1
  <2>6. Elements(queue') \intersect Elements(Tail(toProcess)) = {}
    BY <1>1, <1>2, <2>2
  <2> QED
    BY <1>1, <1>2, <2>2, <2>3, <2>4, <2>5, <2>6 DEF Places
<1>5. CASE r \in aged \/ ~ Queues(r)
  <2>1. PICK done \in SUBSET {r} :
          /\ phase' = [q \in Requests |-> IF q \in done THEN "idle"
                                          ELSE IF q = r /\ ~ Queues(r) THEN "next" ELSE phase[q]]
          /\ serving' = IF r \in done THEN NoRequest ELSE r
          /\ r \in done \/ ~ Queues(r)
          /\ aged' = aged \ {r} /\ UNCHANGED queue
    <3>1. CASE r \in aged \/ EntitledProviderList(r) = <<>>
      <4>1. /\ phase' = [q \in Requests |-> IF q \in {r} THEN "idle"
                                            ELSE IF q = r /\ ~ Queues(r) THEN "next" ELSE phase[q]]
            /\ serving' = IF r \in {r} THEN NoRequest ELSE r
            /\ aged' = aged \ {r} /\ UNCHANGED queue
        BY <1>5, <3>1, Zenon DEF DrainNext
      <4> QED
        BY <4>1
    <3>2. CASE ~ (r \in aged \/ EntitledProviderList(r) = <<>>)
      <4>1. /\ phase' = [q \in Requests |-> IF q \in {} THEN "idle"
                                            ELSE IF q = r /\ ~ Queues(r) THEN "next" ELSE phase[q]]
            /\ serving' = IF r \in {} THEN NoRequest ELSE r
            /\ aged' = aged \ {r} /\ UNCHANGED queue
        BY <1>5, <3>2, Zenon DEF DrainNext
      <4> QED
        BY <1>5, <3>2, <4>1
    <3> QED
      BY <3>1, <3>2
  <2> HIDE DEF r
  <2>2. QueueTyped'
    BY <1>1, <1>2, <2>1 DEF QueueTyped
  <2>3. \A q \in Requests : phase'[q] = "queued" <=> q \in Elements(queue) \union Elements(Tail(toProcess))
    BY <1>1, <1>2, <1>3, <2>1
  <2>4. serving' # NoRequest => phase'[serving'] # "idle" /\ serving' \notin Elements(Tail(toProcess))
    BY <1>1, <1>2, <2>1
  <2>5. Elements(queue) \intersect Elements(Tail(toProcess)) = {}
    BY <1>1, <1>2
  <2> QED
    BY <1>1, <1>2, <2>1, <2>2, <2>3, <2>4, <2>5 DEF Places
<1> QED
  BY <1>4, <1>5

\* The end rejects the queue, and leaves the drain its list.
LEMMA PlacesDestroy ==
  ASSUME QueueTyped, Places, Destroy
  PROVE  QueueTyped' /\ Places'
<1> DEFINE D == Elements(queue)
<1>1. /\ NoRequest \notin Requests /\ serving \in Requests \union {NoRequest}
      /\ phase \in [Requests -> {"idle", "queued", "next", "calling"}]
      /\ aged \in SUBSET Requests /\ MaxQueue \in Nat
      /\ toProcess \in Seq(Requests) /\ Distinct(toProcess)
      /\ D \intersect Elements(toProcess) = {}
      /\ \A q \in Requests : phase[q] = "queued" <=> q \in D \union Elements(toProcess)
      /\ serving # NoRequest => phase[serving] # "idle" /\ serving \notin Elements(toProcess)
  BY RequestAssumption, QueueAssumption DEF QueueTyped, Places
<1>2. /\ queue' = <<>> /\ toProcess' = toProcess /\ aged' = aged \ D
      /\ serving' = IF serving \in D THEN NoRequest ELSE serving
      /\ phase' = [q \in Requests |-> IF q \in D THEN "idle" ELSE phase[q]]
  BY DEF Destroy, Settle
<1> HIDE DEF D
<1>3. <<>> \in Seq(Requests) /\ Len(<<>>) = 0 /\ Elements(<<>>) = {} /\ Distinct(<<>>)
  BY DEF Elements, Distinct
<1>4. QueueTyped'
  <2>1. Len(queue') <= MaxQueue
    BY <1>1, <1>2, <1>3
  <2> QED
    BY <1>1, <1>2, <1>3, <2>1 DEF QueueTyped
<1>5. \A q \in Requests : phase'[q] = "queued" <=> q \in Elements(<<>>) \union Elements(toProcess)
  BY <1>1, <1>2, <1>3
<1>6. serving' # NoRequest => phase'[serving'] # "idle" /\ serving' \notin Elements(toProcess)
  BY <1>1, <1>2
<1> QED
  BY <1>1, <1>2, <1>3, <1>4, <1>5, <1>6 DEF Places

\* Every step keeps the places of those who wait.
LEMMA PlacesKept ==
  ASSUME QueueTyped, Places, [Next]_vars
  PROVE  QueueTyped' /\ Places'
<1>1. ASSUME NEW r \in Requests,
             \/ Chat(r) \/ ChatStream(r) \/ NextCandidate(r) \/ CallSucceeds(r)
             \/ \E b \in BOOLEAN : CallFails(r, b)
             \/ Abort(r) \/ RequestAges(r)
      PROVE  QueueTyped' /\ Places'
  BY <1>1, PlacesChat, PlacesCalls, PlacesEnds
<1>2. ASSUME NEW k \in Probes, ProbeAnswered(k)
      PROVE  QueueTyped' /\ Places'
  <2> DEFINE m == IF probes[k] = 1 THEN "normal" ELSE "fallback"
  <2>1. /\ SetMode(m) /\ serving' = serving
        /\ phase' = [q \in Requests |-> IF q \in DrainRejects(m) THEN "idle" ELSE phase[q]]
    BY <1>2 DEF ProbeAnswered
  <2> HIDE DEF m
  <2>2. serving # NoRequest => DrainRejects(m) = {}
    BY <2>1, SetModeMoves
  <2>3. /\ NoRequest \notin Requests /\ serving \in Requests \union {NoRequest}
        /\ serving # NoRequest => phase[serving] # "idle"
        /\ phase \in [Requests -> {"idle", "queued", "next", "calling"}]
    BY RequestAssumption DEF QueueTyped, Places
  <2> QED
    BY <2>1, <2>2, <2>3, PlacesDrained
<1>3. ASSUME UNCHANGED <<queue, toProcess, serving, aged, phase>>
      PROVE  QueueTyped' /\ Places'
  BY <1>3 DEF QueueTyped, Places
<1>4. ASSUME NEW k \in Probes, ProbeTick(k) \/ ProbeFails(k)
      PROVE  QueueTyped' /\ Places'
  BY <1>3, <1>4 DEF ProbeTick, ProbeFails, drain, calls
<1>5. ASSUME NEW r \in Sessioned, PinExpires(r)
      PROVE  QueueTyped' /\ Places'
  BY <1>3, <1>5 DEF PinExpires, drain
<1>6. ASSUME NEW p \in Limited, LimiterTime(p)
      PROVE  QueueTyped' /\ Places'
  BY <1>3, <1>6 DEF LimiterTime, drain, calls
<1>7. ASSUME UNCHANGED vars
      PROVE  QueueTyped' /\ Places'
  BY <1>3, <1>7 DEF vars, drain, calls
<1> QED
  BY <1>1, <1>2, <1>4, <1>5, <1>6, <1>7, PlacesDrainNext, PlacesDestroy DEF Next

-----------------------------------------------------------------------------
(* Calls come to a provider and leave it. *)

\* Steps that neither begin nor end a model call.
LEMMA AtSame ==
  ASSUME \A q \in Requests : phase'[q] = "calling" <=> phase[q] = "calling",
         \A q \in Requests : phase[q] = "calling" => todo'[q] = todo[q]
  PROVE  \A p : At(p)' = At(p)
BY DEF At

\* The call of r begins.
LEMMA AtComes ==
  ASSUME NEW r \in Requests, NEW p, p = Provider[Head(todo[r])],
         phase[r] # "calling", todo' = todo, phase'[r] = "calling",
         \A q \in Requests \ {r} : phase'[q] = "calling" <=> phase[q] = "calling"
  PROVE  At(p)' = At(p) \union {r} /\ r \notin At(p) /\ \A o : o # p => At(o)' = At(o)
BY DEF At

\* The call of r ends.
LEMMA AtLeaves ==
  ASSUME NEW r \in Requests, NEW p, p = Provider[Head(todo[r])],
         phase[r] = "calling", phase'[r] # "calling",
         \A q \in Requests \ {r} : phase'[q] = "calling" <=> phase[q] = "calling",
         \A q \in Requests \ {r} : phase[q] = "calling" => todo'[q] = todo[q]
  PROVE  At(p)' = At(p) \ {r} /\ r \in At(p) /\ \A o : o # p => At(o)' = At(o)
BY DEF At

\* Steps that leave the limiter and its callers alone.
LEMMA LimiterIdle ==
  ASSUME TypeOK, Books, UNCHANGED limiter,
         \A q \in Requests : phase'[q] = "calling" <=> phase[q] = "calling",
         \A q \in Requests : phase[q] = "calling" => todo'[q] = todo[q]
  PROVE  Books' /\ Limiter!LimiterTypeOK'
<1>1. \A p : At(p)' = At(p)
  BY AtSame
<1>2. Books'
  BY <1>1, SameBooks DEF limiter
<1> QED
  BY <1>2 DEF limiter, TypeOK, Limiter!LimiterTypeOK

\* A call that was admitted ends, whichever way.
LEMMA BooksReleased ==
  ASSUME TypeOK, Books, NEW r \in Requests, Calling(r), ReleasePermit(r), phase'[r] # "calling",
         \A q \in Requests \ {r} : phase'[q] = "calling" <=> phase[q] = "calling",
         \A q \in Requests \ {r} : phase[q] = "calling" => todo'[q] = todo[q]
  PROVE  Books' /\ Limiter!LimiterTypeOK'
<1>0. PICK p : p = Provider[Head(todo[r])]
  OBVIOUS
<1>1. phase[r] = "calling" /\ ~ Limiter!Waiting(r)
  BY DEF Calling
<1>2. At(p)' = At(p) \ {r} /\ r \in At(p) /\ \A o : o # p => At(o)' = At(o)
  BY <1>0, <1>1, AtLeaves
<1>3. /\ p \in Limited => Limiter!Release(p)
      /\ p \notin Limited => UNCHANGED limiter
  BY <1>0 DEF ReleasePermit
<1>4. CASE p \in Limited
  <2>1. r \in At(p) \ Line(p)
    BY <1>1, <1>2, <1>4, WaitingIs
  <2> QED
    BY <1>2, <1>3, <1>4, <2>1, ReleaseBooks
<1>5. CASE p \notin Limited
  <2>1. \A o \in Limited : At(o)' = At(o)
    BY <1>2, <1>5
  <2>2. Books'
    BY <1>3, <1>5, <2>1, SameBooks DEF limiter
  <2> QED
    BY <1>3, <1>5, <2>2 DEF limiter, TypeOK, Limiter!LimiterTypeOK
<1> QED
  BY <1>4, <1>5

\* A call asks for the permit of its next candidate.
LEMMA BooksNext ==
  ASSUME TypeOK, Books, NEW r \in Requests, NextCandidate(r)
  PROVE  Books' /\ Limiter!LimiterTypeOK'
<1>1. phase \in [Requests -> {"idle", "queued", "next", "calling"}]
      /\ phase[r] = "next" /\ todo' = todo
  BY DEF TypeOK, NextCandidate
<1>2. CASE todo[r] = <<>>
  <2>1. phase' = [phase EXCEPT ![r] = "idle"] /\ UNCHANGED limiter
    BY <1>2 DEF NextCandidate
  <2> QED
    BY <1>1, <2>1, LimiterIdle
<1>3. CASE todo[r] # <<>>
  <2>0. PICK p : p = Provider[Head(todo[r])]
    OBVIOUS
  <2>1. /\ phase' = [phase EXCEPT ![r] = "calling"]
        /\ p \in Limited => Limiter!Acquire(p, r)
        /\ p \notin Limited => UNCHANGED limiter
    BY <1>3, <2>0 DEF NextCandidate
  <2>2. At(p)' = At(p) \union {r} /\ r \notin At(p) /\ \A o : o # p => At(o)' = At(o)
    BY <1>1, <2>0, <2>1, AtComes
  <2>3. CASE p \in Limited
    BY <2>1, <2>2, <2>3, AcquireBooks
  <2>4. CASE p \notin Limited
    <3>1. \A o \in Limited : At(o)' = At(o)
      BY <2>2, <2>4
    <3>2. Books'
      BY <2>1, <2>4, <3>1, SameBooks DEF limiter
    <3> QED
      BY <2>1, <2>4, <3>2 DEF limiter, TypeOK, Limiter!LimiterTypeOK
  <2> QED
    BY <2>3, <2>4
<1> QED
  BY <1>2, <1>3

\* An aborted call gives back its permit, or its place in the line.
LEMMA BooksAbort ==
  ASSUME TypeOK, Books, NEW r \in Requests, Abort(r)
  PROVE  Books' /\ Limiter!LimiterTypeOK'
<1>0. PICK p : p = Provider[Head(todo[r])]
  OBVIOUS
<1>1. /\ phase \in [Requests -> {"idle", "queued", "next", "calling"}]
      /\ todo \in [Requests -> Seq(Entries)]
      /\ phase[r] = "calling" /\ phase' = [phase EXCEPT ![r] = "idle"]
      /\ todo' = [todo EXCEPT ![r] = <<>>]
  BY DEF TypeOK, Abort, Forget
<1>2. CASE Limiter!Waiting(r)
  <2>1. Limiter!Withdraw(p, r)
    BY <1>0, <1>2 DEF Abort
  <2>2. At(p)' = At(p) \ {r} /\ r \in At(p) /\ \A o : o # p => At(o)' = At(o)
    BY <1>0, <1>1, AtLeaves
  <2>3. p \in Limited
    BY <1>0, <1>1, <1>2, WaitingIs
  <2>4. r \in Line(p)
    BY <1>2, <2>2, <2>3, WaitingIs
  <2> QED
    BY <2>1, <2>2, <2>3, <2>4, WithdrawBooks
<1>3. CASE ~ Limiter!Waiting(r)
  <2>1. ReleasePermit(r) /\ Calling(r)
    BY <1>1, <1>3 DEF Abort, Calling
  <2> QED
    BY <1>1, <2>1, BooksReleased
<1> QED
  BY <1>2, <1>3

\* A model call that ends gives back its permit.
LEMMA BooksEnds ==
  ASSUME TypeOK, Places, Books, NEW r \in Requests,
         CallSucceeds(r) \/ \E b \in BOOLEAN : CallFails(r, b)
  PROVE  Books' /\ Limiter!LimiterTypeOK'
<1>1. /\ phase \in [Requests -> {"idle", "queued", "next", "calling"}]
      /\ todo \in [Requests -> Seq(Entries)]
      /\ QueueTyped
  BY DEF TypeOK, QueueTyped
<1>2. \A m : SetMode(m) => \A q \in Requests : q \in DrainRejects(m) => phase[q] = "queued"
  BY <1>1, SetModeMoves DEF Places
<1>3. CASE CallSucceeds(r)
  <2> DEFINE m == RecordProviderSuccess(Head(todo[r])).mode
  <2>1. /\ SetMode(m) /\ Calling(r) /\ phase[r] = "calling" /\ ReleasePermit(r)
        /\ phase' = [q \in Requests |-> IF q \in DrainRejects(m) \union {r} THEN "idle" ELSE phase[q]]
        /\ todo' = [todo EXCEPT ![r] = <<>>]
    BY <1>3 DEF CallSucceeds, Calling, Forget
  <2> HIDE DEF m
  <2>2. \A q \in Requests : q \in DrainRejects(m) => phase[q] = "queued"
    BY <1>2, <2>1
  <2>3. /\ phase'[r] # "calling"
        /\ \A q \in Requests \ {r} : phase'[q] = "calling" <=> phase[q] = "calling"
        /\ \A q \in Requests \ {r} : phase[q] = "calling" => todo'[q] = todo[q]
    BY <1>1, <2>1, <2>2
  <2> QED
    BY <2>1, <2>3, BooksReleased
<1>4. ASSUME NEW b \in BOOLEAN, CallFails(r, b)
      PROVE  Books' /\ Limiter!LimiterTypeOK'
  <2> DEFINE m == RecordProviderFailure(ReportFailure(Provider[Head(todo[r])])).mode
  <2>1. /\ SetMode(m) /\ Calling(r) /\ phase[r] = "calling" /\ ReleasePermit(r)
        /\ phase' = [q \in Requests |->
                       IF q = r THEN IF r \in pinned THEN "idle" ELSE "next"
                       ELSE IF q \in DrainRejects(m) THEN "idle" ELSE phase[q]]
    BY <1>4 DEF CallFails, Calling
  <2>2. \A q \in Requests \ {r} : todo'[q] = todo[q]
    <3>1. \E s : todo' = [todo EXCEPT ![r] = s]
      BY <1>4 DEF CallFails, Forget
    <3> QED
      BY <1>1, <3>1
  <2> HIDE DEF m
  <2>3. \A q \in Requests : q \in DrainRejects(m) => phase[q] = "queued"
    BY <1>2, <2>1
  <2>4. /\ phase'[r] # "calling"
        /\ \A q \in Requests \ {r} : phase'[q] = "calling" <=> phase[q] = "calling"
    BY <1>1, <2>1, <2>3
  <2> QED
    BY <2>1, <2>2, <2>4, BooksReleased
<1> QED
  BY <1>3, <1>4

\* The steps that leave the limiter alone.
LEMMA BooksOthers ==
  ASSUME TypeOK, Places, Books, UNCHANGED limiter,
         \/ \E r \in Requests : Chat(r) \/ ChatStream(r) \/ RequestAges(r)
         \/ DrainNext \/ Destroy
         \/ \E k \in Probes : ProbeTick(k) \/ ProbeAnswered(k) \/ ProbeFails(k)
         \/ \E r \in Sessioned : PinExpires(r)
         \/ UNCHANGED vars
  PROVE  Books' /\ Limiter!LimiterTypeOK'
<1>1. /\ phase \in [Requests -> {"idle", "queued", "next", "calling"}]
      /\ todo \in [Requests -> Seq(Entries)]
      /\ QueueTyped
  BY DEF TypeOK, QueueTyped
<1>2. \A q \in Elements(queue) : q \in Requests /\ phase[q] = "queued"
  BY <1>1, FreshKeeps DEF Places, QueueTyped
<1>3. Expired \union Dropped \subseteq Elements(queue)
  <2>1. /\ Expired \subseteq Elements(queue) /\ Fresh \in Seq(Requests)
        /\ Elements(Fresh) = Elements(queue) \ Expired
    BY <1>1, FreshKeeps DEF QueueTyped
  <2>2. Fresh # <<>> => Head(Fresh) \in Elements(Fresh)
    BY <2>1, TailOf
  <2> QED
    BY <2>1, <2>2 DEF Dropped, Overflows
<1> DEFINE Steady == /\ \A q \in Requests : phase'[q] = "calling" <=> phase[q] = "calling"
                     /\ \A q \in Requests : phase[q] = "calling" => todo'[q] = todo[q]
<1>4. ASSUME NEW r \in Requests, Chat(r) PROVE Steady
  <2>1. CASE Queues(r)
    <3>1. /\ phase[r] = "idle" /\ todo' = todo
          /\ phase' = [q \in Requests |-> IF q = r /\ Admitted THEN "queued"
                                          ELSE IF q \in Expired \union Dropped THEN "idle" ELSE phase[q]]
      BY <1>4, <2>1 DEF Chat
    <3> QED
      BY <1>1, <1>2, <1>3, <3>1
  <2>2. CASE ~ Queues(r)
    <3>1. /\ phase[r] = "idle" /\ phase' = [phase EXCEPT ![r] = "next"]
          /\ todo' = [todo EXCEPT ![r] = Candidates(r)]
      BY <1>4, <2>2 DEF Chat, Begin
    <3> QED
      BY <1>1, <3>1
  <2> QED
    BY <2>1, <2>2
<1>5. ASSUME NEW r \in Requests, ChatStream(r) PROVE Steady
  <2>1. /\ phase[r] = "idle" /\ phase' = [phase EXCEPT ![r] = "next"]
        /\ todo' = [todo EXCEPT ![r] = Candidates(r)]
    BY <1>5 DEF ChatStream, Begin
  <2> QED
    BY <1>1, <2>1
<1>6. ASSUME DrainNext PROVE Steady
  <2> DEFINE r == Head(toProcess)
             kept == Expired \union Dropped \union (IF Admitted THEN {} ELSE {r})
  <2>1. r \in Requests /\ phase[r] = "queued"
    <3>1. toProcess # <<>> /\ toProcess \in Seq(Requests)
      BY <1>1, <1>6 DEF DrainNext, DrainGoesOn, QueueTyped
    <3>2. r \in Requests /\ r \in Elements(toProcess)
      BY <3>1, TailOf
    <3> QED
      BY <3>2 DEF Places
  <2>2. PICK out \in SUBSET (Elements(queue) \union {r}) :
          phase' = [q \in Requests |-> IF q \in out THEN "idle"
                                       ELSE IF q = r /\ ~ Queues(r) THEN "next" ELSE phase[q]]
    <3> DEFINE gone == IF r \in aged THEN {r}
                       ELSE IF Queues(r) THEN kept
                       ELSE IF EntitledProviderList(r) = <<>> THEN {r} ELSE {}
    <3>1. phase' = [q \in Requests |-> IF q \in gone THEN "idle"
                                       ELSE IF q = r /\ ~ Queues(r) THEN "next" ELSE phase[q]]
      BY <1>6, Zenon DEF DrainNext
    <3>2. gone \in SUBSET (Elements(queue) \union {r})
      BY <1>3
    <3> HIDE DEF gone
    <3> QED
      BY <3>1, <3>2
  <2>3. \A q \in Requests \ {r} : todo'[q] = todo[q]
    <3>1. todo' = todo \/ todo' = [todo EXCEPT ![r] = Candidates(r)]
      BY <1>6, Zenon DEF DrainNext, Begin
    <3> QED
      BY <1>1, <3>1
  <2> HIDE DEF r
  <2> QED
    BY <1>1, <1>2, <2>1, <2>2, <2>3
<1>7. ASSUME Destroy PROVE Steady
  <2>1. /\ todo' = todo
        /\ phase' = [q \in Requests |-> IF q \in Elements(queue) THEN "idle" ELSE phase[q]]
    BY <1>7 DEF Destroy
  <2> QED
    BY <1>1, <1>2, <2>1
<1>8. ASSUME NEW k \in Probes, ProbeAnswered(k) PROVE Steady
  <2>1. PICK m : /\ SetMode(m) /\ todo' = todo
                 /\ phase' = [q \in Requests |-> IF q \in DrainRejects(m) THEN "idle" ELSE phase[q]]
    BY <1>8 DEF ProbeAnswered
  <2>2. DrainRejects(m) \subseteq Elements(queue)
    BY <1>3 DEF DrainRejects
  <2> QED
    BY <1>1, <1>2, <2>1, <2>2
<1>9. ASSUME UNCHANGED <<phase, todo>> PROVE Steady
  BY <1>9
<1>10. ASSUME \/ \E r \in Requests : RequestAges(r)
              \/ \E k \in Probes : ProbeTick(k) \/ ProbeFails(k)
              \/ \E r \in Sessioned : PinExpires(r)
              \/ UNCHANGED vars
       PROVE  Steady
  BY <1>9, <1>10 DEF RequestAges, ProbeTick, ProbeFails, PinExpires, calls, vars
<1>11. Steady
  BY <1>4, <1>5, <1>6, <1>7, <1>8, <1>10
<1> QED
  BY <1>11, LimiterIdle

\* Every step keeps the books of the limiter.
LEMMA BooksKept ==
  ASSUME TypeOK, Places, Books, [Next]_vars
  PROVE  Books' /\ Limiter!LimiterTypeOK'
<1>1. ASSUME \/ \E r \in Requests : Chat(r) \/ ChatStream(r) \/ RequestAges(r)
             \/ DrainNext \/ Destroy
             \/ \E k \in Probes : ProbeTick(k) \/ ProbeAnswered(k) \/ ProbeFails(k)
             \/ \E r \in Sessioned : PinExpires(r)
             \/ UNCHANGED vars
      PROVE  Books' /\ Limiter!LimiterTypeOK'
  <2>1. UNCHANGED limiter
    BY <1>1 DEF Chat, ChatStream, RequestAges, DrainNext, Destroy, ProbeTick, ProbeAnswered,
                ProbeFails, PinExpires, vars
  <2> QED
    BY <1>1, <2>1, BooksOthers
<1>2. ASSUME NEW r \in Requests,
             \/ NextCandidate(r) \/ CallSucceeds(r) \/ Abort(r)
             \/ \E b \in BOOLEAN : CallFails(r, b)
      PROVE  Books' /\ Limiter!LimiterTypeOK'
  BY <1>2, BooksNext, BooksEnds, BooksAbort
<1>3. ASSUME NEW p \in Limited, LimiterTime(p)
      PROVE  Books' /\ Limiter!LimiterTypeOK'
  <2>1. \A o : At(o)' = At(o)
    BY <1>3, AtSame DEF LimiterTime, calls
  <2>2. CASE Limiter!Poll(p)
    BY <2>1, <2>2, PollBooks
  <2>3. CASE Limiter!NewMinute(p)
    <3>1. UNCHANGED <<concurrent, waitQueue>> /\ spent' = [spent EXCEPT ![p] = 0]
      BY <2>3 DEF Limiter!NewMinute
    <3>2. Books'
      BY <2>1, <3>1, SameBooks
    <3> QED
      BY <3>1, <3>2 DEF TypeOK, Limiter!LimiterTypeOK
  <2> QED
    BY <1>3, <2>2, <2>3 DEF LimiterTime
<1> QED
  BY <1>1, <1>2, <1>3 DEF Next

-----------------------------------------------------------------------------
(* Modes, health and probes. *)

ModeTyped ==
  /\ mode \in {"normal", "fallback", "degraded"}
  /\ active \in Entries
  /\ health \in [Providers -> Health]
  /\ timer \in BOOLEAN /\ destroyed \in BOOLEAN
  /\ probes \in [Probes -> Chain \union {0}]

\* The entries are numbered from 1, the chain first.
LEMMA ChainFacts ==
  /\ Slots \in Nat /\ Slots >= 1 /\ Chain = 1 .. Slots /\ Chain \in SUBSET Entries /\ 1 \in Chain
  /\ Entries \in SUBSET Nat /\ 0 \notin Entries
  /\ \A e \in Entries : Provider[e] \in Providers
<1>1. /\ Provider \in Seq(Providers) /\ Slots \in 1 .. Len(Provider)
      /\ Len(Provider) \in Nat /\ Entries = 1 .. Len(Provider)
  BY ChainAssumption DEF Entries
<1> QED
  BY <1>1 DEF Chain, Providers

\* Both reports leave a record of the provider's health.
LEMMA ReportsTyped ==
  ASSUME health \in [Providers -> Health], NEW p \in Providers
  PROVE  /\ ReportSuccess(p) \in [Providers -> Health]
         /\ ReportFailure(p) \in [Providers -> Health]
<1>1. /\ health[p].status \in {"healthy", "degraded", "down"}
      /\ health[p].failures \in 0 .. 3 /\ health[p].successes \in 0 .. 2
  BY DEF Health, DownThreshold, RecoveryThreshold
<1>2. ReportSuccess(p) \in [Providers -> Health]
  <2> DEFINE n == IF health[p].successes < 2 THEN health[p].successes + 1 ELSE health[p].successes
             s == IF n < 2 THEN health[p].status
                  ELSE IF health[p].status = "down" THEN "degraded" ELSE "healthy"
  <2>1. n \in 0 .. 2 /\ s \in {"healthy", "degraded", "down"}
    BY <1>1
  <2>2. ReportSuccess(p) = [health EXCEPT ![p] = [status |-> s, failures |-> 0, successes |-> n]]
    BY DEF ReportSuccess, RecoveryThreshold
  <2> HIDE DEF n, s
  <2>3. [status |-> s, failures |-> 0, successes |-> n] \in Health
    BY <2>1 DEF Health, DownThreshold, RecoveryThreshold
  <2> QED
    BY <2>2, <2>3
<1>3. ReportFailure(p) \in [Providers -> Health]
  <2> DEFINE n == IF health[p].failures < 3 THEN health[p].failures + 1 ELSE health[p].failures
             s == IF n >= 3 THEN "down" ELSE IF n >= 2 THEN "degraded" ELSE health[p].status
  <2>1. n \in 0 .. 3 /\ s \in {"healthy", "degraded", "down"}
    BY <1>1
  <2>2. ReportFailure(p) = [health EXCEPT ![p] = [status |-> s, failures |-> n, successes |-> 0]]
    BY DEF ReportFailure, DownThreshold, DegradedThreshold
  <2> HIDE DEF n, s
  <2>3. [status |-> s, failures |-> n, successes |-> 0] \in Health
    BY <2>1 DEF Health, DownThreshold, RecoveryThreshold
  <2> QED
    BY <2>2, <2>3
<1> QED
  BY <1>2, <1>3

\* What the mode and the active entry say of each other.
Truthful(m, e) ==
  /\ m \in {"normal", "fallback", "degraded"} /\ e \in Entries
  /\ m = "normal" => Provider[e] = Provider[1]
  /\ m = "fallback" => e # 1

\* Mode and entry after a success.
LEMMA RecordSuccessTruthful ==
  ASSUME Truthful(mode, active), NEW e \in Entries
  PROVE  LET to == RecordProviderSuccess(e) IN Truthful(to.mode, to.active)
BY DEF Truthful, RecordProviderSuccess

\* Mode and entry after a failure.
LEMMA RecordFailureTruthful ==
  ASSUME Truthful(mode, active), NEW hs
  PROVE  LET to == RecordProviderFailure(hs) IN Truthful(to.mode, to.active)
<1>1. HealthyFallbacks(hs) # {} => Min(HealthyFallbacks(hs)) \in Chain \ {1}
  <2> SUFFICES ASSUME HealthyFallbacks(hs) # {} PROVE Min(HealthyFallbacks(hs)) \in Chain \ {1}
    OBVIOUS
  <2>1. HealthyFallbacks(hs) \in SUBSET Nat /\ HealthyFallbacks(hs) \in SUBSET (Chain \ {1})
    BY ChainFacts DEF HealthyFallbacks
  <2>2. PICK m \in HealthyFallbacks(hs) : \A y \in HealthyFallbacks(hs) : ~ (y < m)
    BY <2>1, LeastNat
  <2>3. \A y \in HealthyFallbacks(hs) : m <= y
    BY <2>1, <2>2
  <2>4. Min(HealthyFallbacks(hs)) \in HealthyFallbacks(hs)
    BY <2>3, Zenon DEF Min
  <2> QED
    BY <2>1, <2>4
<1> QED
  BY <1>1, ChainFacts DEF Truthful, RecordProviderFailure

\* A change to mode m and entry e that tells the truth.
LEMMA SetModeTruthful ==
  ASSUME ModeTyped, ModeTellsTruth, NEW m, NEW e, SetMode(m), active' = e, Truthful(m, e),
         destroyed' = destroyed, health' \in [Providers -> Health],
         probes' \in [Probes -> Chain \union {0}]
  PROVE  ModeTyped' /\ ModeTellsTruth'
<1>1. /\ mode' = m /\ timer' = IF m = mode THEN timer ELSE m = "degraded"
  BY DEF SetMode
<1>2. timer' \in BOOLEAN
  BY <1>1, Zenon DEF ModeTyped
<1>3. ModeTyped'
  BY <1>1, <1>2 DEF ModeTyped, Truthful
<1>4. ~ destroyed' => (timer' <=> mode' = "degraded")
  <2> SUFFICES ASSUME ~ destroyed PROVE timer' <=> mode' = "degraded"
    OBVIOUS
  <2>1. timer <=> mode = "degraded"
    BY Zenon DEF ModeTellsTruth
  <2>2. CASE m = mode
    BY <1>1, <2>1, <2>2, Zenon
  <2>3. CASE m # mode
    BY <1>1, <2>3, Zenon
  <2> QED
    BY <2>2, <2>3
<1>5. /\ mode' = "normal" => Provider[active'] = Provider[1]
      /\ mode' = "fallback" => active' # 1
  BY <1>1 DEF Truthful
<1> QED
  BY <1>3, <1>4, <1>5, Zenon DEF ModeTellsTruth

\* Every step keeps mode, timer and entry in agreement.
LEMMA ModeKept ==
  ASSUME IInv, [Next]_vars
  PROVE  ModeTyped' /\ ModeTellsTruth'
<1>1. /\ ModeTyped /\ ModeTellsTruth /\ Truthful(mode, active)
      /\ health \in [Providers -> Health] /\ probes \in [Probes -> Chain \union {0}]
      /\ todo \in [Requests -> Seq(Entries)]
  BY DEF IInv, TypeOK, ModeTyped, ModeTellsTruth, Truthful
<1>2. \A r \in Requests : phase[r] = "calling" => Head(todo[r]) \in Entries /\ Provider[Head(todo[r])] \in Providers
  <2> SUFFICES ASSUME NEW r \in Requests, phase[r] = "calling" PROVE Head(todo[r]) \in Entries
    BY ChainFacts
  <2>1. todo[r] # <<>> /\ todo[r] \in Seq(Entries)
    BY <1>1 DEF IInv, Asked
  <2> QED
    BY <2>1, TailOf
<1>3. ASSUME NEW r \in Requests, CallSucceeds(r)
      PROVE  ModeTyped' /\ ModeTellsTruth'
  <2> DEFINE e == Head(todo[r])
             to == RecordProviderSuccess(e)
  <2>1. /\ phase[r] = "calling" /\ health' = ReportSuccess(Provider[e])
        /\ SetMode(to.mode) /\ active' = to.active /\ UNCHANGED <<probes, destroyed>>
    BY <1>3 DEF CallSucceeds, Calling
  <2>2. Truthful(to.mode, to.active)
    BY <1>1, <1>2, <2>1, RecordSuccessTruthful
  <2>3. health' \in [Providers -> Health]
    BY <1>1, <1>2, <2>1, ReportsTyped
  <2> HIDE DEF to
  <2> QED
    BY <1>1, <2>1, <2>2, <2>3, SetModeTruthful
<1>4. ASSUME NEW r \in Requests, NEW b \in BOOLEAN, CallFails(r, b)
      PROVE  ModeTyped' /\ ModeTellsTruth'
  <2> DEFINE e == Head(todo[r])
             to == RecordProviderFailure(ReportFailure(Provider[e]))
  <2>1. /\ phase[r] = "calling" /\ health' = ReportFailure(Provider[e])
        /\ SetMode(to.mode) /\ active' = to.active /\ UNCHANGED <<probes, destroyed>>
    BY <1>4 DEF CallFails, Calling
  <2>2. Truthful(to.mode, to.active)
    BY <1>1, RecordFailureTruthful
  <2>3. health' \in [Providers -> Health]
    BY <1>1, <1>2, <2>1, ReportsTyped
  <2> HIDE DEF to
  <2> QED
    BY <1>1, <2>1, <2>2, <2>3, SetModeTruthful
<1>5. ASSUME NEW k \in Probes, ProbeAnswered(k)
      PROVE  ModeTyped' /\ ModeTellsTruth'
  <2> DEFINE e == probes[k]
             m == IF e = 1 THEN "normal" ELSE "fallback"
  <2>1. /\ e # 0 /\ health' = ReportSuccess(Provider[e]) /\ active' = e /\ SetMode(m)
        /\ probes' = [probes EXCEPT ![k] = 0] /\ destroyed' = destroyed
    BY <1>5 DEF ProbeAnswered
  <2>2. e \in Chain /\ e \in Entries /\ Provider[e] \in Providers
    BY <1>1, <2>1, ChainFacts
  <2>3. health' \in [Providers -> Health] /\ probes' \in [Probes -> Chain \union {0}]
    BY <1>1, <2>1, <2>2, ReportsTyped
  <2>4. Truthful(m, e)
    BY <2>2 DEF Truthful
  <2> HIDE DEF m, e
  <2> QED
    BY <1>1, <2>1, <2>3, <2>4, SetModeTruthful
<1>6. ASSUME UNCHANGED <<mode, active, timer, destroyed>>, health' \in [Providers -> Health],
             probes' \in [Probes -> Chain \union {0}]
      PROVE  ModeTyped' /\ ModeTellsTruth'
  BY <1>1, <1>6 DEF ModeTyped, ModeTellsTruth
<1>7. ASSUME NEW k \in Probes, ProbeTick(k)
      PROVE  ModeTyped' /\ ModeTellsTruth'
  BY <1>1, <1>6, <1>7, ChainFacts DEF ProbeTick
<1>8. ASSUME NEW k \in Probes, ProbeFails(k)
      PROVE  ModeTyped' /\ ModeTellsTruth'
  <2>1. /\ probes[k] \in Chain /\ probes[k] # 0 /\ Provider[probes[k]] \in Providers
        /\ health' = ReportFailure(Provider[probes[k]])
        /\ probes' = [probes EXCEPT ![k] = IF @ < Slots THEN @ + 1 ELSE 0]
        /\ UNCHANGED <<mode, active, timer, destroyed>>
    BY <1>1, <1>8, ChainFacts DEF ProbeFails
  <2>2. (IF probes[k] < Slots THEN probes[k] + 1 ELSE 0) \in Chain \union {0}
    BY <2>1, ChainFacts
  <2>3. probes' \in [Probes -> Chain \union {0}] /\ health' \in [Providers -> Health]
    BY <1>1, <2>1, <2>2, ReportsTyped
  <2> QED
    BY <1>6, <2>1, <2>3
<1>9. ASSUME Destroy
      PROVE  ModeTyped' /\ ModeTellsTruth'
  BY <1>1, <1>9 DEF Destroy, ModeTyped, ModeTellsTruth
<1>10. ASSUME \/ \E r \in Requests : Chat(r) \/ ChatStream(r) \/ NextCandidate(r) \/ Abort(r) \/ RequestAges(r)
              \/ DrainNext \/ \E r \in Sessioned : PinExpires(r)
              \/ \E p \in Limited : LimiterTime(p)
              \/ UNCHANGED vars
       PROVE  ModeTyped' /\ ModeTellsTruth'
  <2>1. UNCHANGED <<mode, active, timer, probes, health, destroyed>>
    BY <1>10 DEF Chat, ChatStream, NextCandidate, Abort, RequestAges, DrainNext, PinExpires,
                 LimiterTime, modes, vars
  <2> QED
    BY <1>1, <1>6, <2>1
<1> QED
  BY <1>3, <1>4, <1>5, <1>7, <1>8, <1>9, <1>10 DEF Next

-----------------------------------------------------------------------------
(* Candidates and sessions. *)

CallsTyped ==
  /\ todo \in [Requests -> Seq(Entries)]
  /\ pinned \in SUBSET Requests
  /\ sticky \in [Sessioned -> Entries \union {0}]

\* The candidates of a call are entries.
LEMMA CandidatesTyped ==
  ASSUME CallsTyped, NEW r \in Requests
  PROVE  Candidates(r) \in Seq(Entries) /\ (Pin(r) # 0 => Candidates(r) = <<Pin(r)>>)
<1> DEFINE slots == [i \in Chain |-> i]
           same == {e \in Chain : Provider[e] = Provider[Wanted[r]]}
           n == IF same = {} THEN 1 ELSE Cardinality(same)
<1>1. /\ slots \in Seq(Entries) /\ Tail(slots) \in Seq(Entries)
  <2>1. slots \in [1 .. Slots -> Entries] /\ Slots \in Nat /\ Slots >= 1
    BY ChainFacts
  <2>2. slots \in Seq(Entries) /\ Len(slots) = Slots
    BY <2>1
  <2> HIDE DEF slots
  <2>3. slots # <<>>
    BY <2>1, <2>2
  <2> QED
    BY <2>2, <2>3, TailOf
<1>2. n \in Nat
  <2>1. IsFiniteSet(1 .. Slots) /\ same \in SUBSET (1 .. Slots)
    BY ChainFacts, FS_Interval
  <2>2. Cardinality(same) \in Nat
    <3> HIDE DEF same
    <3> QED
      BY <2>1, FS_Subset, FS_CardinalityType
  <2> HIDE DEF same
  <2> QED
    BY <2>2
<1>3. Wanted[r] # 0 => Repeat(Wanted[r], n) \in Seq(Entries)
  <2>1. Wanted[r] # 0 => Wanted[r] \in Entries
    BY RequestAssumption
  <2> HIDE DEF n
  <2> QED
    BY <1>2, <2>1 DEF Repeat
<1>4. \A S : Only(slots, S) \in Seq(Entries)
  <2> HIDE DEF slots
  <2> QED
    BY <1>1, OnlyKeeps
<1>5. ProviderList(r) \in Seq(Entries)
  <2>1. CASE Wanted[r] # 0
    <3> DEFINE skipped == IF ShouldSkipPrimary THEN {Provider[1]} ELSE {}
               front == IF Provider[Wanted[r]] \in skipped THEN <<>> ELSE Repeat(Wanted[r], n)
               rest == Only(slots, {e \in Chain : Provider[e] \notin skipped \union {Provider[Wanted[r]]}})
    <3>1. ProviderList(r) = front \o rest
      BY <2>1, Zenon DEF ProviderList
    <3>2. rest \in Seq(Entries)
      BY <1>4
    <3> HIDE DEF rest
    <3>3. front \in Seq(Entries)
      <4>1. <<>> \in Seq(Entries)
        OBVIOUS
      <4> HIDE DEF n
      <4> QED
        BY <1>3, <2>1, <4>1
    <3> HIDE DEF front
    <3> QED
      BY <3>1, <3>2, <3>3
  <2>2. CASE Wanted[r] = 0
    <3>1. ProviderList(r) \in {slots, Tail(slots)}
      BY <2>2, Zenon DEF ProviderList
    <3> HIDE DEF slots
    <3> QED
      BY <1>1, <3>1
  <2> QED
    BY <2>1, <2>2
<1>6. EntitledProviderList(r) \in Seq(Entries)
  BY <1>5, OnlyKeeps DEF EntitledProviderList
<1>7. Pin(r) # 0 => Pin(r) \in Entries
  BY DEF Pin, CallsTyped
<1> QED
  BY <1>6, <1>7 DEF Candidates

\* A session's entry is kept or given up.
StaysPinned == \A r \in Sessioned : sticky[r] # 0 => sticky'[r] \in {sticky[r], 0}

\* What a step may do to a call: end it, carry on, or begin it.
Ends(q) == phase'[q] \notin {"next", "calling"}
GoesOn(q) == phase[q] \in {"next", "calling"} /\ todo'[q] = todo[q] /\ (q \in pinned' <=> q \in pinned)
Begins(q) == /\ phase'[q] = "next" /\ todo'[q] = Candidates(q) /\ (q \in pinned' <=> Pin(q) # 0)
             /\ sticky' = sticky

\* Calls that end, go on or begin keep to what their session has.
LEMMA CallsMove ==
  ASSUME IInv, \A q \in Requests : Ends(q) \/ GoesOn(q) \/ Begins(q),
         \A q \in Requests : phase'[q] = "calling" => phase[q] = "calling" \/ todo[q] # <<>>,
         todo' \in [Requests -> Seq(Entries)], pinned' \in SUBSET Requests,
         \A q \in Sessioned : sticky'[q] \in {sticky[q], 0} \/ Ends(q)
  PROVE  Asked' /\ PinnedCalls'
<1>1. /\ Sessioned \subseteq Requests /\ CallsTyped
  BY RequestAssumption DEF IInv, TypeOK, CallsTyped
<1>2. Asked'
  <2> SUFFICES ASSUME NEW q \in Requests, phase'[q] = "calling" PROVE todo'[q] # <<>>
    BY DEF Asked
  <2>1. GoesOn(q) /\ todo[q] # <<>>
    BY DEF Ends, GoesOn, Begins, IInv, Asked
  <2> QED
    BY <2>1 DEF GoesOn
<1>3. PinnedCalls'
  <2> SUFFICES ASSUME NEW q \in Sessioned, sticky'[q] # 0, phase'[q] \in {"next", "calling"}
               PROVE  q \in pinned' /\ todo'[q] = <<sticky'[q]>>
    BY DEF PinnedCalls
  <2>1. q \in Requests /\ ~ Ends(q) /\ sticky'[q] = sticky[q] /\ sticky[q] # 0
    BY <1>1 DEF Ends
  <2>2. CASE GoesOn(q)
    BY <2>1, <2>2 DEF GoesOn, IInv, PinnedCalls
  <2>3. CASE Begins(q)
    <3>1. Pin(q) = sticky[q]
      BY DEF Pin
    <3> QED
      BY <1>1, <2>1, <2>3, <3>1, CandidatesTyped DEF Begins
  <2> QED
    BY <2>1, <2>2, <2>3
<1> QED
  BY <1>2, <1>3

Kept == CallsTyped' /\ Asked' /\ PinnedCalls' /\ StaysPinned

\* Calls end or go on, and nothing else is touched.
LEMMA CallsSame ==
  ASSUME IInv, UNCHANGED <<todo, pinned>>, sticky' \in [Sessioned -> Entries \union {0}],
         \A q \in Sessioned : sticky'[q] \in {sticky[q], 0},
         \A q \in Requests : phase'[q] \in {"idle", "queued", phase[q]}
  PROVE  Kept
<1>1. CallsTyped
  BY DEF IInv, TypeOK, CallsTyped
<1>2. CallsTyped' /\ StaysPinned
  BY <1>1 DEF CallsTyped, StaysPinned
<1>3. /\ \A q \in Requests : Ends(q) \/ GoesOn(q) \/ Begins(q)
      /\ \A q \in Requests : phase'[q] = "calling" => phase[q] = "calling" \/ todo[q] # <<>>
  BY DEF Ends, GoesOn
<1>4. Asked' /\ PinnedCalls'
  BY <1>1, <1>3, CallsMove DEF CallsTyped
<1> QED
  BY <1>2, <1>4 DEF Kept

\* The call of r begins.
LEMMA CallsBegin ==
  ASSUME IInv, NEW r \in Requests, Begin(r), phase'[r] \in {"idle", "queued", "next"},
         \A q \in Requests \ {r} : phase'[q] \in {"idle", "queued", phase[q]}
  PROVE  Kept
<1>1. /\ CallsTyped /\ todo \in [Requests -> Seq(Entries)] /\ pinned \in SUBSET Requests
      /\ sticky' = sticky
  BY DEF IInv, TypeOK, CallsTyped, Begin
<1>2. /\ todo' = [todo EXCEPT ![r] = Candidates(r)] /\ Candidates(r) \in Seq(Entries)
      /\ pinned' = IF Pin(r) # 0 THEN pinned \union {r} ELSE pinned \ {r}
  BY <1>1, CandidatesTyped DEF Begin
<1>3. CallsTyped' /\ StaysPinned
  BY <1>1, <1>2 DEF CallsTyped, StaysPinned
<1>4. Ends(r) \/ Begins(r)
  BY <1>1, <1>2 DEF Ends, Begins
<1>5. \A q \in Requests \ {r} : Ends(q) \/ GoesOn(q)
  BY <1>1, <1>2 DEF Ends, GoesOn
<1>6. \A q \in Requests : phase'[q] = "calling" => phase[q] = "calling" \/ todo[q] # <<>>
  OBVIOUS
<1>7. Asked' /\ PinnedCalls'
  BY <1>1, <1>2, <1>3, <1>4, <1>5, <1>6, CallsMove DEF CallsTyped
<1> QED
  BY <1>3, <1>7 DEF Kept

\* Every step keeps the sessions' calls pinned.
LEMMA CallsKept ==
  ASSUME IInv, [Next]_vars
  PROVE  Kept
<1>1. /\ CallsTyped /\ todo \in [Requests -> Seq(Entries)] /\ pinned \in SUBSET Requests
      /\ sticky \in [Sessioned -> Entries \union {0}]
      /\ phase \in [Requests -> {"idle", "queued", "next", "calling"}]
      /\ Sessioned \subseteq Requests
      /\ toProcess \in Seq(Requests)
  BY RequestAssumption DEF IInv, TypeOK, CallsTyped
<1>2. ASSUME NEW r \in Requests, Chat(r) PROVE Kept
  <2>1. CASE Queues(r)
    <3>1. /\ UNCHANGED <<todo, pinned, sticky>>
          /\ phase' = [q \in Requests |-> IF q = r /\ Admitted THEN "queued"
                                          ELSE IF q \in Expired \union Dropped THEN "idle" ELSE phase[q]]
      BY <1>2, <2>1 DEF Chat
    <3> QED
      BY <1>1, <3>1, CallsSame
  <2>2. CASE ~ Queues(r)
    <3>1. Begin(r) /\ phase' = [phase EXCEPT ![r] = "next"]
      BY <1>2, <2>2 DEF Chat
    <3> QED
      BY <1>1, <3>1, CallsBegin
  <2> QED
    BY <2>1, <2>2
<1>3. ASSUME NEW r \in Requests, ChatStream(r) PROVE Kept
  <2>1. Begin(r) /\ phase' = [phase EXCEPT ![r] = "next"]
    BY <1>3 DEF ChatStream
  <2> QED
    BY <1>1, <2>1, CallsBegin
<1>4. ASSUME NEW r \in Requests, NextCandidate(r) PROVE Kept
  <2>1. UNCHANGED <<todo, pinned, sticky>> /\ phase[r] = "next"
    BY <1>4 DEF NextCandidate
  <2>2. CASE todo[r] = <<>>
    <3>1. phase' = [phase EXCEPT ![r] = "idle"]
      BY <1>4, <2>2 DEF NextCandidate
    <3> QED
      BY <1>1, <2>1, <3>1, CallsSame
  <2>3. CASE todo[r] # <<>>
    <3>1. phase' = [phase EXCEPT ![r] = "calling"]
      BY <1>4, <2>3 DEF NextCandidate
    <3>2. /\ \A q \in Requests : Ends(q) \/ GoesOn(q) \/ Begins(q)
          /\ \A q \in Requests : phase'[q] = "calling" => phase[q] = "calling" \/ todo[q] # <<>>
      BY <1>1, <2>1, <2>3, <3>1 DEF Ends, GoesOn
    <3>3. Asked' /\ PinnedCalls'
      BY <1>1, <2>1, <3>2, CallsMove
    <3> QED
      BY <1>1, <2>1, <3>3 DEF Kept, CallsTyped, StaysPinned
  <2> QED
    BY <2>2, <2>3
<1>5. ASSUME NEW r \in Requests, CallSucceeds(r) PROVE Kept
  <2> DEFINE e == Head(todo[r])
  <2>1. PICK m :
          /\ phase[r] = "calling"
          /\ sticky' = [s \in Sessioned |-> IF s = r THEN e ELSE sticky[s]]
          /\ phase' = [q \in Requests |-> IF q \in DrainRejects(m) \union {r} THEN "idle" ELSE phase[q]]
          /\ todo' = [todo EXCEPT ![r] = <<>>] /\ pinned' = pinned \ {r}
    BY <1>5 DEF CallSucceeds, Calling, Forget
  <2>2. e \in Entries
    <3>1. todo[r] # <<>> /\ todo[r] \in Seq(Entries)
      BY <1>1, <2>1 DEF IInv, Asked
    <3> QED
      BY <3>1, TailOf
  <2>3. r \in Sessioned /\ sticky[r] # 0 => e = sticky[r]
    <3> SUFFICES ASSUME r \in Sessioned, sticky[r] # 0 PROVE e = sticky[r]
      OBVIOUS
    <3>1. todo[r] = <<sticky[r]>>
      BY <2>1 DEF IInv, PinnedCalls
    <3> QED
      BY <3>1
  <2> HIDE DEF e
  <2>4. CallsTyped' /\ StaysPinned
    <3>1. <<>> \in Seq(Entries)
      OBVIOUS
    <3>2. CallsTyped'
      BY <1>1, <2>1, <2>2, <3>1 DEF CallsTyped
    <3> QED
      BY <1>1, <2>1, <2>3, <3>2 DEF StaysPinned
  <2>5. \A q \in Requests : Ends(q) \/ GoesOn(q) \/ Begins(q)
    BY <1>1, <2>1 DEF Ends, GoesOn
  <2>6. /\ \A q \in Requests : phase'[q] = "calling" => phase[q] = "calling" \/ todo[q] # <<>>
        /\ \A q \in Sessioned : sticky'[q] \in {sticky[q], 0} \/ Ends(q)
    BY <1>1, <2>1 DEF Ends
  <2>7. Asked' /\ PinnedCalls'
    BY <2>4, <2>5, <2>6, CallsMove DEF CallsTyped
  <2> QED
    BY <2>4, <2>7 DEF Kept
<1>6. ASSUME NEW r \in Requests, NEW b \in BOOLEAN, CallFails(r, b) PROVE Kept
  <2>1. PICK m :
          /\ phase[r] = "calling"
          /\ sticky' = [s \in Sessioned |-> IF s = r /\ r \in pinned THEN 0 ELSE sticky[s]]
          /\ phase' = [q \in Requests |->
                         IF q = r THEN IF r \in pinned THEN "idle" ELSE "next"
                         ELSE IF q \in DrainRejects(m) THEN "idle" ELSE phase[q]]
    BY <1>6 DEF CallFails, Calling
  <2>2. CASE r \in pinned
    <3>1. todo' = [todo EXCEPT ![r] = <<>>] /\ pinned' = pinned \ {r}
      BY <1>6, <2>2 DEF CallFails, Forget
    <3>2. CallsTyped' /\ StaysPinned
      <4>1. <<>> \in Seq(Entries)
        OBVIOUS
      <4>2. CallsTyped'
        BY <1>1, <2>1, <3>1, <4>1 DEF CallsTyped
      <4> QED
        BY <1>1, <2>1, <4>2 DEF StaysPinned
    <3>3. \A q \in Requests : Ends(q) \/ GoesOn(q) \/ Begins(q)
      BY <1>1, <2>1, <2>2, <3>1 DEF Ends, GoesOn
    <3>4. /\ \A q \in Requests : phase'[q] = "calling" => phase[q] = "calling" \/ todo[q] # <<>>
          /\ \A q \in Sessioned : sticky'[q] \in {sticky[q], 0} \/ Ends(q)
      BY <1>1, <2>1 DEF Ends
    <3>5. Asked' /\ PinnedCalls'
      BY <3>2, <3>3, <3>4, CallsMove DEF CallsTyped
    <3> QED
      BY <3>2, <3>5 DEF Kept
  <2>3. CASE r \notin pinned
    <3> DEFINE rest == IF b THEN Tail(todo[r])
                       ELSE Only(Tail(todo[r]), {c \in Entries : Provider[c] # Provider[Head(todo[r])]})
    <3>1. todo' = [todo EXCEPT ![r] = rest] /\ pinned' = pinned
      BY <1>6, <2>3 DEF CallFails
    <3>2. rest \in Seq(Entries)
      <4>1. todo[r] # <<>> /\ todo[r] \in Seq(Entries)
        BY <1>1, <2>1 DEF IInv, Asked
      <4>2. Tail(todo[r]) \in Seq(Entries)
        BY <4>1, TailOf
      <4> QED
        BY <4>2, OnlyKeeps
    <3> HIDE DEF rest
    <3>3. r \in Sessioned => sticky[r] = 0
      BY <2>1, <2>3 DEF IInv, PinnedCalls
    <3>4. CallsTyped' /\ StaysPinned
      BY <1>1, <2>1, <2>3, <3>1, <3>2 DEF CallsTyped, StaysPinned
    <3>5. Asked'
      BY <1>1, <2>1, <3>1 DEF IInv, Asked
    <3>6. PinnedCalls'
      <4> SUFFICES ASSUME NEW q \in Sessioned, sticky'[q] # 0, phase'[q] \in {"next", "calling"}
                   PROVE  q \in pinned' /\ todo'[q] = <<sticky'[q]>>
        BY DEF PinnedCalls
      <4>1. q # r /\ q \in Requests /\ sticky'[q] = sticky[q] /\ phase'[q] = phase[q]
        BY <1>1, <2>1, <2>3, <3>3
      <4> QED
        BY <1>1, <3>1, <4>1 DEF IInv, PinnedCalls
    <3> QED
      BY <3>4, <3>5, <3>6 DEF Kept
  <2> QED
    BY <2>2, <2>3
<1>7. ASSUME NEW r \in Requests, Abort(r) PROVE Kept
  <2>1. /\ phase' = [phase EXCEPT ![r] = "idle"] /\ sticky' = sticky
        /\ todo' = [todo EXCEPT ![r] = <<>>] /\ pinned' = pinned \ {r}
    BY <1>7 DEF Abort, Forget
  <2>2. CallsTyped' /\ StaysPinned
    <3>1. <<>> \in Seq(Entries)
      OBVIOUS
    <3> QED
      BY <1>1, <2>1, <3>1 DEF CallsTyped, StaysPinned
  <2>3. /\ \A q \in Requests : Ends(q) \/ GoesOn(q) \/ Begins(q)
        /\ \A q \in Requests : phase'[q] = "calling" => phase[q] = "calling" \/ todo[q] # <<>>
    BY <1>1, <2>1 DEF Ends, GoesOn
  <2>4. Asked' /\ PinnedCalls'
    BY <2>1, <2>2, <2>3, CallsMove DEF CallsTyped
  <2> QED
    BY <2>2, <2>4 DEF Kept
<1>8. ASSUME DrainNext PROVE Kept
  <2> DEFINE r == Head(toProcess)
             kept == Expired \union Dropped \union (IF Admitted THEN {} ELSE {r})
             out == IF r \in aged THEN {r}
                    ELSE IF Queues(r) THEN kept
                    ELSE IF EntitledProviderList(r) = <<>> THEN {r} ELSE {}
  <2>1. r \in Requests
    BY <1>1, <1>8, TailOf DEF DrainNext, DrainGoesOn
  <2>2. /\ phase' = [q \in Requests |-> IF q \in out THEN "idle"
                                        ELSE IF q = r /\ ~ Queues(r) THEN "next" ELSE phase[q]]
        /\ IF r \in out \/ Queues(r) THEN UNCHANGED <<todo, pinned, sticky>> ELSE Begin(r)
    BY <1>8, Zenon DEF DrainNext
  <2>3. r \in aged \/ ~ Queues(r) \/ phase'[r] \in {"idle", phase[r]}
    BY <1>1, <2>1, <2>2
  <2> HIDE DEF out, r
  <2>4. CASE r \in out \/ Queues(r)
    <3>1. \A q \in Requests : phase'[q] \in {"idle", "queued", phase[q]}
      BY <1>1, <2>1, <2>2, <2>4
    <3>2. UNCHANGED <<todo, pinned, sticky>>
      BY <2>2, <2>4
    <3> QED
      BY <1>1, <3>1, <3>2, CallsSame
  <2>5. CASE ~ (r \in out \/ Queues(r))
    <3>1. Begin(r) /\ phase'[r] = "next"
      BY <1>1, <2>1, <2>2, <2>5
    <3>2. \A q \in Requests \ {r} : phase'[q] \in {"idle", "queued", phase[q]}
      BY <1>1, <2>1, <2>2
    <3> QED
      BY <2>1, <3>1, <3>2, CallsBegin
  <2> QED
    BY <2>4, <2>5
<1>9. ASSUME Destroy PROVE Kept
  <2>1. /\ UNCHANGED <<todo, pinned>> /\ sticky' = [r \in Sessioned |-> 0]
        /\ phase' = [q \in Requests |-> IF q \in Elements(queue) THEN "idle" ELSE phase[q]]
    BY <1>9 DEF Destroy
  <2> QED
    BY <1>1, <2>1, CallsSame
<1>10. ASSUME NEW k \in Probes, ProbeAnswered(k) PROVE Kept
  <2>1. PICK m :
          /\ UNCHANGED <<todo, pinned, sticky>>
          /\ phase' = [q \in Requests |-> IF q \in DrainRejects(m) THEN "idle" ELSE phase[q]]
    BY <1>10 DEF ProbeAnswered
  <2> QED
    BY <1>1, <2>1, CallsSame
<1>11. ASSUME NEW r \in Sessioned, PinExpires(r) PROVE Kept
  BY <1>1, <1>11, CallsSame DEF PinExpires
<1>12. ASSUME \/ \E r \in Requests : RequestAges(r)
              \/ \E k \in Probes : ProbeTick(k) \/ ProbeFails(k)
              \/ \E p \in Limited : LimiterTime(p)
              \/ UNCHANGED vars
       PROVE  Kept
  <2>1. UNCHANGED <<phase, todo, pinned, sticky>>
    BY <1>12 DEF RequestAges, ProbeTick, ProbeFails, LimiterTime, calls, vars
  <2> QED
    BY <1>1, <2>1, CallsSame
<1> QED
  BY <1>2, <1>3, <1>4, <1>5, <1>6, <1>7, <1>8, <1>9, <1>10, <1>11, <1>12 DEF Next

-----------------------------------------------------------------------------
(* The theorems. *)

\* The invariant holds when the manager is created.
LEMMA InitEstablishes ==
  ASSUME Init
  PROVE  IInv
<1>1. \A T : <<>> \in Seq(T) /\ Len(<<>>) = 0 /\ Elements(<<>>) = {} /\ Distinct(<<>>)
  BY DEF Elements, Distinct
<1>2. TypeOK
  <2>1. ModeTyped
    <3>1. [status |-> "healthy", failures |-> 0, successes |-> 0] \in Health
      BY DEF Health, DownThreshold, RecoveryThreshold
    <3> QED
      BY <3>1, ChainFacts DEF Init, ModeTyped
  <2>2. QueueTyped
    BY <1>1, QueueAssumption DEF Init, QueueTyped
  <2>3. CallsTyped
    BY <1>1 DEF Init, CallsTyped
  <2>4. Limiter!LimiterTypeOK
    BY <1>1 DEF Init, Limiter!LimiterInit, Limiter!LimiterTypeOK
  <2> QED
    BY <2>1, <2>2, <2>3, <2>4 DEF TypeOK, ModeTyped, QueueTyped, CallsTyped
<1>3. Places
  BY <1>1 DEF Init, Places
<1>4. Asked /\ PinnedCalls
  BY DEF Init, Asked, PinnedCalls
<1>5. Books
  <2> SUFFICES ASSUME NEW p \in Limited PROVE BooksOf(p)
    BY DEF Books
  <2>1. waitQueue[p] = <<>> /\ concurrent[p] = 0
    BY DEF Init, Limiter!LimiterInit
  <2>2. At(p) \ Line(p) = {}
    BY DEF Init, At
  <2> QED
    BY <1>1, <2>1, <2>2, FS_EmptySet DEF BooksOf, Line
<1>6. ModeTellsTruth
  BY Zenon DEF Init, ModeTellsTruth
<1> QED
  BY <1>2, <1>3, <1>4, <1>5, <1>6 DEF IInv

\* Every step keeps the invariant.
LEMMA StepKeeps ==
  ASSUME IInv, [Next]_vars
  PROVE  IInv'
<1>1. /\ TypeOK /\ Places /\ Books /\ QueueTyped
  BY DEF IInv, TypeOK, QueueTyped
<1>2. QueueTyped' /\ Places'
  BY <1>1, PlacesKept
<1>3. Books' /\ Limiter!LimiterTypeOK'
  BY <1>1, BooksKept
<1>4. ModeTyped' /\ ModeTellsTruth'
  BY ModeKept
<1>5. CallsTyped' /\ Asked' /\ PinnedCalls'
  BY CallsKept DEF Kept
<1>6. TypeOK'
  BY <1>2, <1>3, <1>4, <1>5 DEF TypeOK, ModeTyped, QueueTyped, CallsTyped
<1> QED
  BY <1>2, <1>3, <1>4, <1>5, <1>6 DEF IInv

\* Every reachable state has the inductive invariant.
THEOREM FailoverInvariant == Spec => []IInv
<1>1. Init => IInv
  BY InitEstablishes
<1>2. IInv /\ [Next]_vars => IInv'
  BY StepKeeps
<1> QED
  BY <1>1, <1>2, PTL DEF Spec

\* Every variable keeps its type.
THEOREM FailoverTypeCorrect == Spec => []TypeOK
<1>1. IInv => TypeOK
  BY DEF IInv
<1> QED
  BY <1>1, FailoverInvariant, PTL

\* A place for each that waits, and none for the others.
LEMMA OnePlace ==
  ASSUME NEW seq \in Seq(Requests), Distinct(seq), NEW r \in Requests
  PROVE  Cardinality({i \in DOMAIN seq : seq[i] = r}) = IF r \in Elements(seq) THEN 1 ELSE 0
<1>1. CASE r \in Elements(seq)
  <2>1. PICK i \in DOMAIN seq : seq[i] = r
    BY <1>1 DEF Elements
  <2>2. {j \in DOMAIN seq : seq[j] = r} = {i}
    BY <2>1 DEF Distinct
  <2> QED
    BY <1>1, <2>2, FS_Singleton
<1>2. CASE r \notin Elements(seq)
  <2>1. {j \in DOMAIN seq : seq[j] = r} = {}
    BY <1>2 DEF Elements
  <2> QED
    BY <1>2, <2>1, FS_EmptySet
<1> QED
  BY <1>1, <1>2

\* A request that waits has one place in the queue or in the drain's list, and
\* the one the drain awaits has not been settled, whatever moves it about.
THEOREM FailoverQueuedOnce == Spec => []QueuedOnce
<1>1. IInv => QueuedOnce
  <2> SUFFICES ASSUME IInv PROVE QueuedOnce
    OBVIOUS
  <2>1. /\ queue \in Seq(Requests) /\ toProcess \in Seq(Requests)
        /\ Distinct(queue) /\ Distinct(toProcess)
        /\ Elements(queue) \intersect Elements(toProcess) = {}
        /\ \A r \in Requests : phase[r] = "queued" <=> r \in Elements(queue) \union Elements(toProcess)
        /\ serving # NoRequest => phase[serving] # "idle" /\ serving \notin Elements(toProcess)
    BY DEF IInv, TypeOK, Places
  <2>2. ASSUME NEW r \in Requests
        PROVE  Cardinality({i \in DOMAIN queue : queue[i] = r})
                 + Cardinality({i \in DOMAIN toProcess : toProcess[i] = r})
               = IF phase[r] = "queued" THEN 1 ELSE 0
    <3>1. /\ Cardinality({i \in DOMAIN queue : queue[i] = r}) = IF r \in Elements(queue) THEN 1 ELSE 0
          /\ Cardinality({i \in DOMAIN toProcess : toProcess[i] = r})
               = IF r \in Elements(toProcess) THEN 1 ELSE 0
      BY <2>1, OnePlace
    <3> QED
      BY <2>1, <3>1
  <2> QED
    BY <2>1, <2>2 DEF QueuedOnce
<1> QED
  BY <1>1, FailoverInvariant, PTL

\* The limiter counts the calls that really run, however each of them ends.
THEOREM FailoverPermitsMatch == Spec => []PermitsMatchCalls
<1>1. IInv => PermitsMatchCalls
  BY BooksTell DEF IInv
<1> QED
  BY <1>1, FailoverInvariant, PTL

\* The mode, the recovery timer and the active entry never contradict each other.
THEOREM FailoverModeTrue == Spec => []ModeTellsTruth
<1>1. IInv => ModeTellsTruth
  BY DEF IInv
<1> QED
  BY <1>1, FailoverInvariant, PTL

\* No step moves a session from its entry to another one.
THEOREM FailoverSessionPinned == Spec => SessionStaysPinned
<1>1. IInv /\ [Next]_vars => [StaysPinned]_vars
  BY CallsKept DEF Kept
<1>2. Spec => [][StaysPinned]_vars
  BY <1>1, FailoverInvariant, PTL DEF Spec
<1> QED
  BY <1>2 DEF SessionStaysPinned, StaysPinned
=============================================================================
