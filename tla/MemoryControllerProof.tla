------------------------ MODULE MemoryControllerProof ------------------------
(***************************************************************************)
(* Proofs about a channel of NVmain.  The inductive invariant follows a    *)
(* request through the transaction queue, a command queue, the calendar    *)
(* and the set of the served: it is in one of them at a time, and what is  *)
(* ahead in one of them is for another row or was submitted before.  Both  *)
(* the queues and the calendar are sequences; their orders are relations   *)
(* between the members at two positions, which an insertion at the end, an *)
(* insertion in the middle, a removal and a move from one cycle to the     *)
(* next preserve by the lemmas of the first part.                          *)
(***************************************************************************)
EXTENDS MemoryController, SequenceTheorems, FiniteSetTheorems, WellFoundedInduction, TLAPS

-----------------------------------------------------------------------------
(* Numbers and sequences.                                                  *)

\* A set of naturals has a least member.
LEMMA LeastIn ==
    ASSUME NEW T \in SUBSET Nat, T # {}
    PROVE  \E m \in T : \A n \in T : m <= n
  <1> DEFINE R == {n \in Nat \X Nat : n[1] < n[2]}
  <1>1. IsWellFoundedOn(R, Nat)  BY NatLessThanWellFounded DEF OpToRel
  <1>2. PICK m \in T : \A n \in T : ~(<<n, m>> \in R)  BY <1>1, WFMin, Zenon
  <1>3. ASSUME NEW n \in T PROVE  m <= n
    <2>1. m \in Nat /\ n \in Nat /\ <<n, m>> \notin R  BY <1>2
    <2>2. <<n, m>> \in Nat \X Nat /\ <<n, m>>[1] = n /\ <<n, m>>[2] = m  BY <2>1
    <2>3. ~(n < m)  BY <2>1, <2>2
    <2> QED  BY <2>1, <2>3
  <1> HIDE DEF R
  <1> QED  BY <1>3

\* The choice of the loops over a queue is its least position,
LEMMA OldestIs ==
    ASSUME NEW T \in SUBSET Nat, T # {}
    PROVE  Oldest(T) \in T /\ \A n \in T : Oldest(T) <= n
  BY LeastIn DEF Oldest

\* and the last of some positions is the greatest.
LEMMA NewestIs ==
    ASSUME NEW k \in Nat, NEW T \in SUBSET (1..k), T # {}
    PROVE  Newest(T) \in T /\ \A n \in T : Newest(T) >= n
  <1> DEFINE U == {k - i : i \in T}
  <1>0. U \in SUBSET Nat /\ U # {}
    <2>1. \A i \in T : k - i \in Nat  OBVIOUS
    <2>2. PICK i \in T : TRUE  OBVIOUS
    <2>3. k - i \in U  BY <2>2
    <2> QED  BY <2>1, <2>3
  <1>1. PICK m \in U : \A n \in U : m <= n
    <2> HIDE DEF U
    <2> QED  BY <1>0, LeastIn
  <1>2. PICK i \in T : m = k - i  OBVIOUS
  <1>3. \A n \in T : i >= n  BY <1>1, <1>2
  <1> QED  BY <1>3 DEF Newest

\* How many members of a set are less than one of them.
Below(T, i) == {j \in T : j < i}

\* There are less numbers below a smaller member of a set.
LEMMA BelowIs ==
    ASSUME NEW T \in SUBSET Nat, IsFiniteSet(T), NEW i \in T
    PROVE  /\ IsFiniteSet(Below(T, i)) /\ Cardinality(Below(T, i)) \in Nat
           /\ Cardinality(Below(T, i)) < Cardinality(T)
           /\ \A j \in T : j < i => Cardinality(Below(T, j)) < Cardinality(Below(T, i))
  <1>1. IsFiniteSet(Below(T, i)) /\ Cardinality(Below(T, i)) \in Nat
    BY FS_Subset, FS_CardinalityType DEF Below
  <1>2. IsFiniteSet(T \ {i}) /\ Cardinality(T \ {i}) = Cardinality(T) - 1 /\ Cardinality(T) \in Nat
    BY FS_RemoveElement, FS_CardinalityType
  <1>3. Cardinality(Below(T, i)) <= Cardinality(T \ {i})
    <2>1. Below(T, i) \in SUBSET (T \ {i})  BY DEF Below
    <2> QED  BY <1>2, <2>1, FS_Subset
  <1>4. ASSUME NEW j \in T, j < i PROVE  Cardinality(Below(T, j)) < Cardinality(Below(T, i))
    <2>0. j \in Nat /\ i \in Nat /\ \A m \in T : m \in Nat  OBVIOUS
    <2>1. Below(T, j) \in SUBSET (Below(T, i) \ {j}) /\ j \in Below(T, i)
      <3>1. \A m \in T : m < j => m < i /\ m # j  BY <1>4, <2>0
      <3>2. Below(T, j) \subseteq (Below(T, i) \ {j})  BY <3>1 DEF Below
      <3> QED  BY <1>4, <3>2 DEF Below
    <2>2. IsFiniteSet(Below(T, i) \ {j})
          /\ Cardinality(Below(T, i) \ {j}) = Cardinality(Below(T, i)) - 1
      BY <1>1, <2>1, FS_RemoveElement
    <2>3. Cardinality(Below(T, j)) <= Cardinality(Below(T, i) \ {j}) /\ IsFiniteSet(Below(T, j))
      BY <2>1, <2>2, FS_Subset
    <2>4. Cardinality(Below(T, j)) \in Nat  BY <2>3, FS_CardinalityType
    <2> QED  BY <1>1, <2>2, <2>3, <2>4
  <1>5. \A j \in T : j < i => Cardinality(Below(T, j)) < Cardinality(Below(T, i))  BY <1>4
  <1> QED  BY <1>1, <1>2, <1>3, <1>5

\* For every k there is a k-th member; else take a least set that has none.
LEMMA KthMember ==
    ASSUME NEW T \in SUBSET Nat, IsFiniteSet(T), NEW k \in 1..Cardinality(T)
    PROVE  \E i \in T : Cardinality(Below(T, i)) = k - 1
  <1> DEFINE Has(U) == \A l \in 1..Cardinality(U) : \E i \in U : Cardinality(Below(U, i)) = l - 1
             Bad == {n \in Nat : \E U \in SUBSET Nat :
                        IsFiniteSet(U) /\ Cardinality(U) = n /\ ~Has(U)}
  <1>1. SUFFICES Bad = {}
    <2>1. Cardinality(T) \in Nat  BY FS_CardinalityType
    <2>2. Has(T)  BY <1>1, <2>1
    <2> QED  BY <2>2
  <1>2. ASSUME Bad # {} PROVE  FALSE
    <2>1. PICK n \in Bad : \A m \in Bad : n <= m  BY <1>2, LeastIn
    <2>2. PICK U \in SUBSET Nat : IsFiniteSet(U) /\ Cardinality(U) = n /\ ~Has(U)  BY <2>1
    <2> HIDE DEF Bad
    <2>3. PICK l \in 1..Cardinality(U) : ~\E i \in U : Cardinality(Below(U, i)) = l - 1  BY <2>2
    <2>4. n \in Nat  BY <2>2, FS_CardinalityType
    <2>5. U # {}  BY <2>2, <2>3, <2>4, FS_EmptySet
    <2>6. PICK m \in U : \A j \in U : m <= j  BY <2>5, LeastIn
    <2> DEFINE V == U \ {m}
    <2>7. V \in SUBSET Nat /\ IsFiniteSet(V) /\ Cardinality(V) = n - 1
      BY <2>2, FS_RemoveElement
    <2>8. Has(V)
      <3>1. n - 1 \in Nat  BY <2>7, FS_CardinalityType
      <3>2. n - 1 \notin Bad  BY <2>1, <2>4, <3>1
      <3> HIDE DEF Has, V
      <3> QED  BY <2>7, <3>1, <3>2 DEF Bad
    <2>9. CASE l = 1
      <3>1. Below(U, m) = {}
        <4>1. \A j \in U : j \in Nat /\ m \in Nat /\ ~(j < m)  BY <2>6
        <4> QED  BY <4>1 DEF Below
      <3> QED  BY <2>3, <2>9, <3>1, FS_EmptySet
    <2>10. CASE l # 1
      <3>1. l - 1 \in 1..Cardinality(V)  BY <2>2, <2>3, <2>4, <2>7, <2>10
      <3>2. PICK i \in V : Cardinality(Below(V, i)) = l - 1 - 1  BY <2>8, <3>1
      <3>3. Below(U, i) = Below(V, i) \cup {m} /\ m \notin Below(V, i)  BY <2>6 DEF Below
      <3>4. IsFiniteSet(Below(V, i))  BY <2>7, BelowIs
      <3>5. Cardinality(Below(V, i) \cup {m}) = Cardinality(Below(V, i)) + 1
        BY <3>3, <3>4, FS_AddElement
      <3>6. Cardinality(Below(U, i)) = l - 1  BY <2>3, <2>4, <2>2, <3>2, <3>3, <3>5
      <3> QED  BY <2>3, <3>6
    <2> QED  BY <2>9, <2>10
  <1> QED  BY <1>2

\* Ordered lists a set without repetition.
LEMMA OrderedIs ==
    ASSUME NEW T \in SUBSET Nat, IsFiniteSet(T)
    PROVE  /\ Ordered(T) \in Seq(T) /\ Len(Ordered(T)) = Cardinality(T)
           /\ DOMAIN Ordered(T) = 1..Cardinality(T) /\ Cardinality(T) \in Nat
           /\ \A k, l \in 1..Cardinality(T) : k < l => Ordered(T)[k] < Ordered(T)[l]
           /\ \A k \in 1..Cardinality(T) : Ordered(T)[k] \in T
           /\ \A i \in T : \E k \in 1..Cardinality(T) : Ordered(T)[k] = i
  <1> DEFINE n == Cardinality(T)
             f == Ordered(T)
  <1>0. n \in Nat  BY FS_CardinalityType
  <1>1. f = [k \in 1..n |-> CHOOSE i \in T : Cardinality(Below(T, i)) = k - 1]
    BY DEF Ordered, Below
  <1>2. \A k \in 1..n : f[k] \in T /\ Cardinality(Below(T, f[k])) = k - 1  BY <1>1, KthMember
  <1> HIDE DEF f
  <1>3. f \in Seq(T) /\ Len(f) = n /\ DOMAIN f = 1..n  BY <1>0, <1>1, <1>2
  <1>4. ASSUME NEW k \in 1..n, NEW l \in 1..n, k < l PROVE  f[k] < f[l]
    <2>1. f[k] \in Nat /\ f[l] \in Nat /\ f[k] \in T /\ f[l] \in T  BY <1>2
    <2>2. CASE f[l] < f[k]
      <3>1. Cardinality(Below(T, f[l])) < Cardinality(Below(T, f[k]))  BY <2>1, <2>2, BelowIs
      <3> QED  BY <1>0, <1>2, <1>4, <3>1
    <2>3. CASE f[l] = f[k]  BY <1>0, <1>2, <1>4, <2>3
    <2> QED  BY <2>1, <2>2, <2>3
  <1>5. ASSUME NEW i \in T PROVE  \E k \in 1..n : f[k] = i
    <2> DEFINE k == Cardinality(Below(T, i)) + 1
    <2>1. k \in 1..n /\ k - 1 = Cardinality(Below(T, i))  BY <1>0, BelowIs
    <2>2. f[k] \in T /\ Cardinality(Below(T, f[k])) = k - 1  BY <1>2, <2>1
    <2> HIDE DEF k
    <2>3. ~(f[k] < i) /\ ~(i < f[k])
      <3>1. ASSUME NEW a \in T, NEW b \in T, a < b
            PROVE  Cardinality(Below(T, a)) # Cardinality(Below(T, b))
        <4>1. Cardinality(Below(T, a)) < Cardinality(Below(T, b))
              /\ Cardinality(Below(T, a)) \in Nat /\ Cardinality(Below(T, b)) \in Nat
          BY <3>1, BelowIs
        <4> QED  BY <4>1
      <3>2. Cardinality(Below(T, f[k])) = Cardinality(Below(T, i))  BY <2>1, <2>2
      <3>3. \A a, b \in T : a < b => Cardinality(Below(T, a)) # Cardinality(Below(T, b))
        BY <3>1
      <3> QED  BY <2>2, <3>2, <3>3
    <2>4. f[k] \in Nat /\ i \in Nat  BY <2>2
    <2> QED  BY <2>1, <2>3, <2>4
  <1> QED  BY <1>0, <1>2, <1>3, <1>4, <1>5 DEF f

\* What SubSeq(list, 1, n) \o block \o SubSeq(list, n + 1, Len(list)) is.
Wedged(list, n, block, new) ==
    /\ n \in 0..Len(list) /\ Len(new) = Len(list) + Len(block)
    /\ \A j \in 1..n : new[j] = list[j]
    /\ \A j \in 1..Len(block) : new[n + j] = block[j]
    /\ \A j \in (n + 1)..Len(list) : new[Len(block) + j] = list[j]

\* A sequence with a block in the middle.
LEMMA WedgedIs ==
    ASSUME NEW S, NEW list \in Seq(S), NEW block \in Seq(S), NEW n \in 0..Len(list)
    PROVE  LET new == SubSeq(list, 1, n) \o block \o SubSeq(list, n + 1, Len(list))
           IN  new \in Seq(S) /\ Wedged(list, n, block, new)
  <1> DEFINE a == SubSeq(list, 1, n)
             b == SubSeq(list, n + 1, Len(list))
             ab == a \o block
             new == ab \o b
  <1>0. Len(list) \in Nat /\ Len(block) \in Nat /\ n \in Nat /\ n <= Len(list)  BY LenProperties
  <1>1. a \in Seq(S) /\ Len(a) = n /\ \A j \in 1..n : a[j] = list[j]
    <2>1. \A i \in 1..n : list[i] \in S  BY <1>0, ElementOfSeq
    <2>2. /\ SubSeq(list, 1, n) \in Seq(S)
          /\ Len(SubSeq(list, 1, n)) = IF 1 <= n THEN n - 1 + 1 ELSE 0
          /\ \A i \in 1 .. n - 1 + 1 : SubSeq(list, 1, n)[i] = list[1 + i - 1]
      BY <1>0, <2>1, SubSeqProperties
    <2> QED  BY <1>0, <2>2
  <1>2. b \in Seq(S) /\ Len(b) = Len(list) - n
        /\ \A j \in 1..(Len(list) - n) : b[j] = list[n + j]
    <2>1. \A i \in (n + 1)..Len(list) : list[i] \in S  BY <1>0, ElementOfSeq
    <2>2. /\ SubSeq(list, n + 1, Len(list)) \in Seq(S)
          /\ Len(SubSeq(list, n + 1, Len(list)))
               = IF n + 1 <= Len(list) THEN Len(list) - (n + 1) + 1 ELSE 0
          /\ \A i \in 1 .. Len(list) - (n + 1) + 1 :
               SubSeq(list, n + 1, Len(list))[i] = list[n + 1 + i - 1]
      BY <1>0, <2>1, SubSeqProperties
    <2> QED  BY <1>0, <2>2
  <1> HIDE DEF a, b
  <1>3. /\ ab \in Seq(S) /\ Len(ab) = n + Len(block)
        /\ \A i \in 1..(n + Len(block)) : ab[i] = IF i <= n THEN a[i] ELSE block[i - n]
    BY <1>0, <1>1, ConcatProperties
  <1> HIDE DEF ab
  <1>4. /\ new \in Seq(S) /\ Len(new) = n + Len(block) + (Len(list) - n)
        /\ \A i \in 1..(n + Len(block) + (Len(list) - n)) :
             new[i] = IF i <= n + Len(block) THEN ab[i] ELSE b[i - (n + Len(block))]
    <2>1. /\ ab \o b \in Seq(S) /\ Len(ab \o b) = Len(ab) + Len(b)
          /\ \A i \in 1..(Len(ab) + Len(b)) :
               (ab \o b)[i] = IF i <= Len(ab) THEN ab[i] ELSE b[i - Len(ab)]
      BY <1>2, <1>3, ConcatProperties
    <2> QED  BY <1>2, <1>3, <2>1
  <1> HIDE DEF new
  <1>5. ASSUME NEW j \in 1..n PROVE  new[j] = list[j]
    <2>1. j \in 1..(n + Len(block) + (Len(list) - n)) /\ j \in 1..(n + Len(block))
          /\ j <= n + Len(block) /\ j <= n
      BY <1>0
    <2>2. new[j] = ab[j] /\ ab[j] = a[j]  BY <1>3, <1>4, <2>1
    <2> QED  BY <1>1, <2>2
  <1>6. ASSUME NEW j \in 1..Len(block) PROVE  new[n + j] = block[j]
    <2>1. n + j \in 1..(n + Len(block) + (Len(list) - n)) /\ n + j \in 1..(n + Len(block))
          /\ n + j <= n + Len(block) /\ ~(n + j <= n) /\ n + j - n = j
      BY <1>0
    <2>2. new[n + j] = ab[n + j] /\ ab[n + j] = block[n + j - n]  BY <1>3, <1>4, <2>1
    <2> QED  BY <2>1, <2>2
  <1>7. ASSUME NEW j \in (n + 1)..Len(list) PROVE  new[Len(block) + j] = list[j]
    <2> DEFINE k == Len(block) + j
    <2>1. k \in 1..(n + Len(block) + (Len(list) - n)) /\ ~(k <= n + Len(block))
          /\ k - (n + Len(block)) = j - n /\ j - n \in 1..(Len(list) - n)
      BY <1>0
    <2>2. new[k] = b[k - (n + Len(block))]  BY <1>4, <2>1
    <2> HIDE DEF k
    <2>3. b[j - n] = list[n + (j - n)] /\ n + (j - n) = j
      <3>1. n + (j - n) = j  BY <1>0
      <3> QED  BY <1>2, <2>1, <3>1
    <2>4. new[k] = list[j]  BY <2>1, <2>2, <2>3
    <2> QED  BY <2>4 DEF k
  <1>8. Len(new) = Len(list) + Len(block)  BY <1>0, <1>4
  <1>9. new \in Seq(S) /\ Wedged(list, n, block, new)
    BY <1>4, <1>5, <1>6, <1>7, <1>8 DEF Wedged
  <1> QED  BY <1>9 DEF new, ab, a, b

\* Where every position of the new sequence comes from.
LEMMA WedgedFrom ==
    ASSUME NEW S, NEW list \in Seq(S), NEW block \in Seq(S), NEW new \in Seq(S), NEW n,
           Wedged(list, n, block, new), NEW j \in 1..Len(new)
    PROVE  \/ j \in 1..n /\ j \in DOMAIN list /\ new[j] = list[j]
           \/ j - n \in 1..Len(block) /\ j - n \in DOMAIN block /\ new[j] = block[j - n]
           \/ /\ j - Len(block) \in (n + 1)..Len(list) /\ j - Len(block) \in DOMAIN list
              /\ new[j] = list[j - Len(block)]
  <1>0. Len(list) \in Nat /\ Len(block) \in Nat /\ n \in Nat /\ n <= Len(list)
        /\ DOMAIN list = 1..Len(list) /\ DOMAIN block = 1..Len(block)
    BY LenProperties DEF Wedged
  <1>1. CASE j <= n  BY <1>0, <1>1 DEF Wedged
  <1>2. CASE j > n /\ j <= n + Len(block)
    <2>1. j - n \in 1..Len(block) /\ n + (j - n) = j  BY <1>0, <1>2
    <2> QED  BY <1>0, <2>1 DEF Wedged
  <1>3. CASE j > n + Len(block)
    <2>1. j - Len(block) \in (n + 1)..Len(list) /\ Len(block) + (j - Len(block)) = j
          /\ j - Len(block) \in 1..Len(list)
      BY <1>0, <1>3 DEF Wedged
    <2> QED  BY <1>0, <2>1 DEF Wedged
  <1> QED  BY <1>0, <1>1, <1>2, <1>3

\* It holds what both held,
LEMMA WedgedElems ==
    ASSUME NEW S, NEW list \in Seq(S), NEW block \in Seq(S), NEW new \in Seq(S), NEW n,
           Wedged(list, n, block, new)
    PROVE  Elems(new) = Elems(list) \cup Elems(block)
  <1>0. Len(list) \in Nat /\ Len(block) \in Nat /\ n \in Nat /\ n <= Len(list)
        /\ DOMAIN list = 1..Len(list) /\ DOMAIN block = 1..Len(block)
        /\ DOMAIN new = 1..Len(new) /\ Len(new) = Len(list) + Len(block)
    BY LenProperties DEF Wedged
  <1>1. ASSUME NEW j \in DOMAIN new PROVE  new[j] \in Elems(list) \cup Elems(block)
    <2>1. \/ j \in 1..n /\ j \in DOMAIN list /\ new[j] = list[j]
          \/ j - n \in 1..Len(block) /\ j - n \in DOMAIN block /\ new[j] = block[j - n]
          \/ /\ j - Len(block) \in (n + 1)..Len(list) /\ j - Len(block) \in DOMAIN list
             /\ new[j] = list[j - Len(block)]
      BY <1>0, WedgedFrom
    <2> QED  BY <2>1 DEF Elems
  <1>2. ASSUME NEW j \in DOMAIN list PROVE  list[j] \in Elems(new)
    <2>1. CASE j <= n  BY <1>0, <2>1 DEF Wedged, Elems
    <2>2. CASE j > n
      <3>1. j \in (n + 1)..Len(list) /\ Len(block) + j \in DOMAIN new  BY <1>0, <2>2
      <3>2. new[Len(block) + j] = list[j]  BY <3>1 DEF Wedged
      <3> QED  BY <3>1, <3>2 DEF Elems
    <2> QED  BY <1>0, <2>1, <2>2
  <1>3. ASSUME NEW j \in DOMAIN block PROVE  block[j] \in Elems(new)
    <2>1. n + j \in DOMAIN new /\ new[n + j] = block[j]  BY <1>0 DEF Wedged
    <2> QED  BY <2>1 DEF Elems
  <1> QED  BY <1>1, <1>2, <1>3 DEF Elems

\* and keeps an order that the block fits into.
LEMMA WedgedPairs ==
    ASSUME NEW S, NEW list \in Seq(S), NEW block \in Seq(S), NEW new \in Seq(S), NEW n,
           Wedged(list, n, block, new), NEW R, Pairs(list, R), Pairs(block, R),
           \A j \in 1..n, k \in DOMAIN block : <<list[j], block[k]>> \in R,
           \A j \in (n + 1)..Len(list), k \in DOMAIN block : <<block[k], list[j]>> \in R
    PROVE  Pairs(new, R)
  <1>0. Len(list) \in Nat /\ Len(block) \in Nat /\ n \in Nat /\ n <= Len(list)
        /\ DOMAIN list = 1..Len(list) /\ DOMAIN block = 1..Len(block)
        /\ DOMAIN new = 1..Len(new) /\ Len(new) = Len(list) + Len(block)
    BY LenProperties DEF Wedged
  <1>1. SUFFICES ASSUME NEW x \in 1..Len(new), NEW y \in 1..Len(new), x < y
                 PROVE  <<new[x], new[y]>> \in R
    BY <1>0 DEF Pairs
  <1>a. \A i, j \in DOMAIN list : i < j => <<list[i], list[j]>> \in R  BY DEF Pairs
  <1>b. \A i, j \in DOMAIN block : i < j => <<block[i], block[j]>> \in R  BY DEF Pairs
  <1>c. \/ x \in 1..n /\ x \in DOMAIN list /\ new[x] = list[x]
        \/ x - n \in 1..Len(block) /\ x - n \in DOMAIN block /\ new[x] = block[x - n]
        \/ /\ x - Len(block) \in (n + 1)..Len(list) /\ x - Len(block) \in DOMAIN list
           /\ new[x] = list[x - Len(block)]
    BY WedgedFrom
  <1>d. \/ y \in 1..n /\ y \in DOMAIN list /\ new[y] = list[y]
        \/ y - n \in 1..Len(block) /\ y - n \in DOMAIN block /\ new[y] = block[y - n]
        \/ /\ y - Len(block) \in (n + 1)..Len(list) /\ y - Len(block) \in DOMAIN list
           /\ new[y] = list[y - Len(block)]
    BY WedgedFrom
  <1>2. CASE x \in 1..n /\ x \in DOMAIN list /\ new[x] = list[x]
    <2>1. CASE y \in 1..n /\ y \in DOMAIN list /\ new[y] = list[y]  BY <1>1, <1>a, <1>2, <2>1
    <2>2. CASE y - n \in 1..Len(block) /\ y - n \in DOMAIN block /\ new[y] = block[y - n]
      BY <1>2, <2>2
    <2>3. CASE /\ y - Len(block) \in (n + 1)..Len(list) /\ y - Len(block) \in DOMAIN list
               /\ new[y] = list[y - Len(block)]
      <3>1. x < y - Len(block)  BY <1>0, <1>2, <2>3
      <3> QED  BY <1>a, <1>2, <2>3, <3>1
    <2> QED  BY <1>d, <2>1, <2>2, <2>3
  <1>3. CASE x - n \in 1..Len(block) /\ x - n \in DOMAIN block /\ new[x] = block[x - n]
    <2>1. CASE y \in 1..n /\ y \in DOMAIN list /\ new[y] = list[y]  BY <1>0, <1>1, <1>3, <2>1
    <2>2. CASE y - n \in 1..Len(block) /\ y - n \in DOMAIN block /\ new[y] = block[y - n]
      <3>1. x - n < y - n  BY <1>0, <1>1
      <3> QED  BY <1>b, <1>3, <2>2, <3>1
    <2>3. CASE /\ y - Len(block) \in (n + 1)..Len(list) /\ y - Len(block) \in DOMAIN list
               /\ new[y] = list[y - Len(block)]
      BY <1>3, <2>3
    <2> QED  BY <1>d, <2>1, <2>2, <2>3
  <1>4. CASE /\ x - Len(block) \in (n + 1)..Len(list) /\ x - Len(block) \in DOMAIN list
             /\ new[x] = list[x - Len(block)]
    <2>1. /\ y - Len(block) \in (n + 1)..Len(list) /\ y - Len(block) \in DOMAIN list
          /\ new[y] = list[y - Len(block)]
      BY <1>0, <1>1, <1>4, <1>d
    <2>2. x - Len(block) < y - Len(block)  BY <1>0, <1>1
    <2> QED  BY <1>a, <1>4, <2>1, <2>2
  <1> QED  BY <1>c, <1>2, <1>3, <1>4

-----------------------------------------------------------------------------
(* The calendar.                                                           *)

\* What the configuration says of the numbers.
LEMMA Numbers ==
    /\ Horizon \in Nat /\ tCAS \in 1..Horizon /\ tRTP \in 1..Horizon /\ tRP \in 1..Horizon
    /\ tRFC \in 1..Horizon /\ tRCD \in 1..Horizon /\ tRAS \in 1..Horizon /\ tCCD \in 1..Horizon
    /\ 0 \in 0..Horizon /\ 1 \in 0..Horizon /\ tREFI \in Nat /\ tREFI > Horizon
    /\ DelayedRefreshThreshold \in Nat \ {0}
  <1>1. \A t \in {tRCD, tRAS, tCCD, tRTP, tRP, tRTP + tRP, tCAS, tRFC} : t \in 1..Horizon
    BY ConfigAssumption DEF ConfigAssumption
  <1>2. /\ Horizon \in Nat /\ tREFI \in Nat /\ tREFI > Horizon
        /\ DelayedRefreshThreshold \in Nat \ {0}
    BY ConfigAssumption DEF ConfigAssumption
  <1>3. /\ tCAS \in 1..Horizon /\ tRTP \in 1..Horizon /\ tRP \in 1..Horizon
        /\ tRFC \in 1..Horizon /\ tRCD \in 1..Horizon /\ tRAS \in 1..Horizon
        /\ tCCD \in 1..Horizon
    BY <1>1, Zenon
  <1>4. 0 \in 0..Horizon /\ 1 \in 0..Horizon  BY <1>2, <1>3
  <1> QED  BY <1>2, <1>3, <1>4, Zenon

\* Every event but a cleanup has a priority of at least 0.
LEMMA EventIs ==
    ASSUME NEW e \in Event
    PROVE  /\ e.priority \in Int
           /\ e.kind = "response" => e.what \in Req /\ e.priority = 0
           /\ e.kind \in Closings => e.what \in Bank \X SubArray /\ e.priority = 0
           /\ e.kind = "CleanupCallback" <=> e.priority < 0
           /\ e.kind = "RefreshCallback" => e.what \in Groups
           /\ e.kind \in {"response", "implicitPrecharge", "closed", "refreshed", "Cycle",
                          "CommandQueueCallback", "CleanupCallback", "RefreshCallback"}
  BY DEF Event, Closings, commandQueuePriority, cleanupPriority, refreshPriority

\* An event is placed behind the last that has no larger priority before any larger one.
Behind(list, n, priority) ==
    /\ n \in 0..Len(list) /\ \A i \in 1..n : list[i].priority <= priority
    /\ n < Len(list) => list[n + 1].priority > priority

\* Place wedges its events in behind those of no larger priority.
LEMMA PlaceIs ==
    ASSUME NEW list \in Seq(Event), NEW block \in Seq(Event), NEW priority \in Int
    PROVE  /\ Place(list, block, priority) \in Seq(Event)
           /\ \E n \in 0..Len(list) : /\ Behind(list, n, priority)
                                      /\ Wedged(list, n, block, Place(list, block, priority))
  <1>0. Len(list) \in Nat /\ DOMAIN list = 1..Len(list) /\ \A i \in 1..Len(list) : list[i] \in Event
    BY LenProperties, ElementOfSeq
  <1>a. \A i \in 1..Len(list) : list[i].priority \in Int  BY <1>0, EventIs
  <1> DEFINE Right(n) == /\ \A i \in 1..n : list[i].priority <= priority
                         /\ n < Len(list) => list[n + 1].priority > priority
             ahead == CHOOSE n \in 0..Len(list) : Right(n)
  <1>1. \E n \in 0..Len(list) : Right(n)
    <2> DEFINE Larger == {n \in 0..Len(list) : n < Len(list) => list[n + 1].priority > priority}
    <2>1. Larger \in SUBSET Nat /\ Larger # {}
      <3>1. Len(list) \in Larger  BY <1>0
      <3> QED  BY <1>0, <3>1
    <2>2. PICK n \in Larger : \A m \in Larger : n <= m
      <3> HIDE DEF Larger
      <3> QED  BY <2>1, LeastIn
    <2>3. ASSUME NEW i \in 1..n PROVE  list[i].priority <= priority
      <3>1. i - 1 \in 0..Len(list) /\ i - 1 < Len(list) /\ i - 1 < n /\ i - 1 + 1 = i
            /\ i \in 1..Len(list) /\ n \in Nat
        BY <1>0, <2>2
      <3>2. i - 1 \notin Larger  BY <2>2, <3>1
      <3>3. ~(list[i].priority > priority)  BY <3>1, <3>2
      <3>4. list[i].priority \in Int  BY <1>a, <3>1
      <3> QED  BY <3>3, <3>4
    <2> QED  BY <2>2, <2>3
  <1>2. ahead \in 0..Len(list) /\ Right(ahead)  BY <1>1
  <1>3. Place(list, block, priority)
          = SubSeq(list, 1, ahead) \o block \o SubSeq(list, ahead + 1, Len(list))
    BY DEF Place
  <1>4. Behind(list, ahead, priority)  BY <1>2 DEF Behind
  <1> HIDE DEF ahead
  <1>5. Place(list, block, priority) \in Seq(Event)
        /\ Wedged(list, ahead, block, Place(list, block, priority))
    BY <1>2, <1>3, WedgedIs
  <1> QED  BY <1>2, <1>4, <1>5

\* A calendar, and one with a block of events put into one of its cycles.
Calendar == [0..Horizon -> Seq(Event)]

Inserted(old, when, block, priority, n, new) ==
    /\ new \in Calendar /\ Behind(old[when], n, priority)
    /\ Wedged(old[when], n, block, new[when])
    /\ \A i \in 0..Horizon : i # when => new[i] = old[i]

\* All insertions of the event queue are of this form:
LEMMA InsertedIs ==
    ASSUME NEW old \in Calendar, NEW when \in 0..Horizon, NEW block \in Seq(Event),
           NEW priority \in Int, NEW new, new = [old EXCEPT ![when] = Place(@, block, priority)]
    PROVE  \E n \in 0..Len(old[when]) : Inserted(old, when, block, priority, n, new)
  <1>1. old[when] \in Seq(Event)  BY DEF Calendar
  <1>2. /\ Place(old[when], block, priority) \in Seq(Event)
        /\ \E n \in 0..Len(old[when]) :
              /\ Behind(old[when], n, priority)
              /\ Wedged(old[when], n, block, Place(old[when], block, priority))
    BY <1>1, PlaceIs
  <1>3. /\ new \in Calendar /\ new[when] = Place(old[when], block, priority)
        /\ \A i \in 0..Horizon : i # when => new[i] = old[i]
    BY <1>2 DEF Calendar
  <1> QED  BY <1>2, <1>3 DEF Inserted

\* It is what the typed InsertEvent does.
LEMMA TypedInserts ==
    ASSUME NEW old \in Calendar, NEW when \in 0..Horizon, NEW kind, NEW what, NEW priority \in Int,
           NEW e \in Event, e = TypedEvent(kind, what),
           NEW new, new = InsertEvent(old, kind, what, when, priority)
    PROVE  \E n \in 0..Len(old[when]) : Inserted(old, when, <<e>>, priority, n, new)
  <1> DEFINE block == <<e>>
  <1>1. block \in Seq(Event)  OBVIOUS
  <1>2. [i \in DOMAIN <<what>> |-> TypedEvent(kind, <<what>>[i])] = block  OBVIOUS
  <1>3. SUFFICES \E n \in 0..Len(old[when]) : Inserted(old, when, block, priority, n, new)  OBVIOUS
  <1> HIDE DEF block
  <1>4. new = [old EXCEPT ![when] = Place(@, block, priority)]
    BY <1>2 DEF InsertEvent, InsertEvents
  <1> QED  BY <1>1, <1>4, InsertedIs

\* they add the events of the block to one cycle,
LEMMA InsertedElems ==
    ASSUME NEW old \in Calendar, NEW when \in 0..Horizon, NEW block \in Seq(Event),
           NEW priority, NEW n, NEW new, Inserted(old, when, block, priority, n, new),
           NEW i \in 0..Horizon
    PROVE  /\ i = when => Elems(new[i]) = Elems(old[i]) \cup Elems(block)
           /\ i # when => Elems(new[i]) = Elems(old[i])
  <1>1. CASE i = when
    <2>1. old[i] \in Seq(Event) /\ new[i] \in Seq(Event) /\ Wedged(old[i], n, block, new[i])
      BY <1>1 DEF Inserted, Calendar
    <2> QED  BY <1>1, <2>1, WedgedElems
  <1>2. CASE i # when  BY <1>2 DEF Inserted
  <1> QED  BY <1>1, <1>2

\* and keep an order that the block fits into where it was put.
LEMMA InsertedSorted ==
    ASSUME NEW old \in Calendar, NEW when \in 0..Horizon, NEW block \in Seq(Event),
           NEW priority, NEW n, NEW new, Inserted(old, when, block, priority, n, new),
           NEW R, Sorted(old, R), Pairs(block, R),
           \A i \in 0..Horizon : \A e \in Elems(old[i]), f \in Elems(block) :
               (i < when => <<e, f>> \in R) /\ (when < i => <<f, e>> \in R),
           \A j \in 1..n, k \in DOMAIN block : <<old[when][j], block[k]>> \in R,
           \A j \in (n + 1)..Len(old[when]), k \in DOMAIN block : <<block[k], old[when][j]>> \in R
    PROVE  Sorted(new, R)
  <1>0. ASSUME NEW l \in 0..Horizon
        PROVE  /\ l = when => Elems(new[l]) = Elems(old[l]) \cup Elems(block)
               /\ l # when => Elems(new[l]) = Elems(old[l])
    BY InsertedElems
  <1>1. ASSUME NEW i \in 0..Horizon PROVE  Pairs(new[i], R)
    <2>1. CASE i = when
      <3>1. old[i] \in Seq(Event) /\ new[i] \in Seq(Event) /\ Wedged(old[i], n, block, new[i])
            /\ Pairs(old[i], R)
        BY <2>1 DEF Inserted, Calendar, Sorted
      <3> QED  BY <2>1, <3>1, WedgedPairs
    <2>2. CASE i # when  BY <2>2 DEF Inserted, Sorted
    <2> QED  BY <2>1, <2>2
  <1>2. ASSUME NEW i \in 0..Horizon, NEW j \in 0..Horizon, i < j,
               NEW e \in Elems(new[i]), NEW f \in Elems(new[j])
        PROVE  <<e, f>> \in R
    <2>1. /\ i = when => Elems(new[i]) = Elems(old[i]) \cup Elems(block)
          /\ i # when => Elems(new[i]) = Elems(old[i])
          /\ j = when => Elems(new[j]) = Elems(old[j]) \cup Elems(block)
          /\ j # when => Elems(new[j]) = Elems(old[j])
      BY <1>0
    <2>2. \A x \in Elems(old[i]), y \in Elems(old[j]) : <<x, y>> \in R  BY <1>2 DEF Sorted
    <2>3. CASE i = when
      <3>1. j # when /\ f \in Elems(old[j]) /\ e \in Elems(old[i]) \cup Elems(block)
        BY <1>2, <2>1, <2>3
      <3> QED  BY <1>2, <2>2, <2>3, <3>1
    <2>4. CASE i # when
      <3>1. e \in Elems(old[i])  BY <2>1, <2>4
      <3>2. CASE f \in Elems(old[j])  BY <2>2, <3>1, <3>2
      <3>3. CASE j = when /\ f \in Elems(block)  BY <1>2, <3>1, <3>3
      <3> QED  BY <2>1, <3>2, <3>3
    <2> QED  BY <2>3, <2>4
  <1> QED  BY <1>1, <1>2 DEF Sorted

\* No response comes after an event that has a larger priority than 0.
LEMMA NoneBehind ==
    ASSUME NEW list \in Seq(Event), NEW n, NEW priority \in Nat, Behind(list, n, priority),
           Pairs(list, CellPairs), NEW j \in (n + 1)..Len(list)
    PROVE  j \in DOMAIN list /\ list[j] \in Event /\ list[j].kind # "response"
           /\ list[j].kind # "CleanupCallback"
  <1>0. Len(list) \in Nat /\ DOMAIN list = 1..Len(list) /\ n \in Nat /\ n < Len(list)
        /\ n + 1 \in 1..Len(list) /\ j \in 1..Len(list)
    BY LenProperties DEF Behind
  <1>1. list[j] \in Event /\ list[n + 1] \in Event  BY <1>0, ElementOfSeq
  <1>2. list[n + 1].priority > priority /\ list[n + 1].priority \in Int
    BY <1>0, <1>1, EventIs DEF Behind
  <1>3. CASE j = n + 1
    <2>1. list[j].priority > 0  BY <1>2, <1>3
    <2> QED  BY <1>0, <1>1, <2>1, EventIs
  <1>4. CASE j # n + 1
    <2>1. n + 1 < j  BY <1>0, <1>4
    <2>2. <<list[n + 1], list[j]>> \in CellPairs  BY <1>0, <2>1 DEF Pairs
    <2>3. list[j].kind # "CleanupCallback" /\ (list[j].kind = "response" => list[n + 1].priority <= 0)
      BY <2>2 DEF CellPairs
    <2>4. ~(list[n + 1].priority <= 0)  BY <1>2
    <2> QED  BY <1>0, <1>1, <2>3, <2>4
  <1> QED  BY <1>3, <1>4

-----------------------------------------------------------------------------
(* Answers on their way.                                                   *)

\* Members of a sequence over a set are members of the set.
LEMMA ElemIs ==
    ASSUME NEW S, NEW list \in Seq(S), NEW x \in Elems(list)
    PROVE  x \in S
  BY ElementOfSeq, LenProperties DEF Elems

\* What has to follow what depends on the kinds of the requests only.
LEMMA SameOrder ==
    ASSUME NEW s, NEW t, t.writes = s.writes
    PROVE  /\ AnswerPairs(t) = AnswerPairs(s) /\ CommandPairs(t) = CommandPairs(s)
           /\ \A q, r \in Known : Precedes(t, q, r) <=> Precedes(s, q, r)
  BY DEF AnswerPairs, CommandPairs, Precedes, Alike

\* Events may be inserted anywhere when they may stand in either order to all others.
LEMMA FreeInserts ==
    ASSUME NEW old \in Calendar, NEW when \in 0..Horizon, NEW block \in Seq(Event),
           NEW priority, NEW n, NEW new, Inserted(old, when, block, priority, n, new),
           NEW R, Sorted(old, R), Pairs(block, R),
           \A i \in 0..Horizon : \A e \in Elems(old[i]), f \in Elems(block) :
               <<e, f>> \in R /\ <<f, e>> \in R
    PROVE  Sorted(new, R)
  <1>1. old[when] \in Seq(Event) /\ n \in 0..Len(old[when]) /\ Len(old[when]) \in Nat
        /\ DOMAIN old[when] = 1..Len(old[when])
    BY LenProperties DEF Calendar, Inserted, Behind
  <1>2. \A k \in DOMAIN block : block[k] \in Elems(block)  BY DEF Elems
  <1>3. \A j \in DOMAIN old[when] : old[when][j] \in Elems(old[when])  BY DEF Elems
  <1>a. \A e \in Elems(old[when]), f \in Elems(block) : <<e, f>> \in R /\ <<f, e>> \in R
    OBVIOUS
  <1>4. ASSUME NEW j \in 1..n, NEW k \in DOMAIN block PROVE  <<old[when][j], block[k]>> \in R
    <2>1. j \in DOMAIN old[when]  BY <1>1
    <2> QED  BY <1>a, <1>2, <1>3, <2>1
  <1>5. ASSUME NEW j \in (n + 1)..Len(old[when]), NEW k \in DOMAIN block
        PROVE  <<block[k], old[when][j]>> \in R
    <2>1. j \in DOMAIN old[when]  BY <1>1
    <2> QED  BY <1>a, <1>2, <1>3, <2>1
  <1>6. \A i \in 0..Horizon : \A e \in Elems(old[i]), f \in Elems(block) :
          (i < when => <<e, f>> \in R) /\ (when < i => <<f, e>> \in R)
    OBVIOUS
  <1> QED  BY ZenonT(60), <1>4, <1>5, <1>6, InsertedSorted

\* In a cell, events that are neither responses nor cleanups may come anywhere.
LEMMA QuietCell ==
    ASSUME NEW list \in Seq(Event), NEW block \in Seq(Event), NEW new \in Seq(Event),
           NEW n, NEW priority \in Nat, Behind(list, n, priority), Wedged(list, n, block, new),
           Pairs(list, CellPairs), \A e \in Elems(block) : e.kind # "CleanupCallback",
           Pairs(block, CellPairs), \A j \in 1..n, k \in DOMAIN block :
               <<list[j], block[k]>> \in CellPairs
    PROVE  Pairs(new, CellPairs) /\ (Cleans(list) => Cleans(new))
  <1>c. /\ Len(list) \in Nat /\ n \in 0..Len(list) /\ DOMAIN list = 1..Len(list)
        /\ \A j \in DOMAIN list : list[j] \in Event
        /\ \A k \in DOMAIN block : block[k] \in Event /\ block[k] \in Elems(block)
    BY LenProperties, ElementOfSeq DEF Behind, Elems
  <1>1. ASSUME NEW j \in (n + 1)..Len(list)
        PROVE  j \in DOMAIN list /\ list[j] \in Event /\ list[j].kind # "response"
               /\ list[j].kind # "CleanupCallback"
    BY NoneBehind
  <1>2. \A j \in (n + 1)..Len(list), k \in DOMAIN block : <<block[k], list[j]>> \in CellPairs
    BY <1>c, <1>1 DEF CellPairs
  <1>3. Pairs(new, CellPairs)  BY <1>2, WedgedPairs
  <1>4. ASSUME Cleans(list) PROVE  Cleans(new)
    <2>1. 1 \in DOMAIN list /\ list[1].kind = "CleanupCallback" /\ list[1] \in Event
          /\ Len(list) > 0
      BY <1>c, <1>4, EmptySeq DEF Cleans
    <2>2. list[1].priority < 0 /\ list[1].priority \in Int  BY <2>1, EventIs
    <2>3. n # 0  BY <2>1, <2>2 DEF Behind
    <2>4. new[1] = list[1] /\ Len(new) > 0  BY <1>c, <2>1, <2>3, LenProperties DEF Wedged
    <2>5. new # <<>>  BY <2>4
    <2> QED  BY <2>1, <2>4, <2>5 DEF Cleans
  <1> QED  BY <1>3, <1>4

\* An event that is no response changes no order of responses, and answers nobody.
LEMMA NoAnswerInserts ==
    ASSUME NEW s, NEW t, t.writes = s.writes, s.calendar \in Calendar, AnswersSorted(s),
           NEW when \in 0..Horizon, NEW block \in Seq(Event), NEW priority, NEW n,
           Inserted(s.calendar, when, block, priority, n, t.calendar),
           \A e \in Elems(block) : e.kind # "response"
    PROVE  /\ Sorted(t.calendar, AnswerPairs(t)) /\ AnswerSet(t) = AnswerSet(s)
           /\ \A i \in 0..Horizon : \A e \in Elems(t.calendar[i]) :
                e.kind = "response" => e.what \in Known /\ i <= tCAS
  <1> DEFINE old == s.calendar
             new == t.calendar
             R == AnswerPairs(s)
  <1>0. ASSUME NEW l \in 0..Horizon
        PROVE  /\ l = when => Elems(new[l]) = Elems(old[l]) \cup Elems(block)
               /\ l # when => Elems(new[l]) = Elems(old[l])
    BY InsertedElems
  <1>b. /\ \A f \in Elems(block) : f \in Event
        /\ \A i \in 0..Horizon : \A e \in Elems(old[i]) : e \in Event
    BY ElemIs DEF Calendar
  <1>c. \A k \in DOMAIN block : block[k].kind # "response" /\ block[k] \in Event
    BY <1>b DEF Elems
  <1>1. Sorted(new, R)
    <2>1. Sorted(old, R)  BY DEF AnswersSorted
    <2>2. Pairs(block, R)  BY <1>c DEF Pairs, AnswerPairs
    <2>3. \A i \in 0..Horizon : \A e \in Elems(old[i]), f \in Elems(block) :
            <<e, f>> \in R /\ <<f, e>> \in R
      BY <1>b DEF AnswerPairs
    <2> HIDE DEF R
    <2> QED  BY <2>1, <2>2, <2>3, FreeInserts
  <1>2. AnswerPairs(t) = R  BY SameOrder
  <1>3. ASSUME NEW i \in 0..Horizon, NEW e \in Elems(new[i]), e.kind = "response"
        PROVE  e \in Elems(old[i])
    BY <1>0, <1>3
  <1>4. \A i \in 0..Horizon : Elems(old[i]) \subseteq Elems(new[i])  BY <1>0
  <1>5. AnswerSet(t) = AnswerSet(s)  BY <1>3, <1>4 DEF AnswerSet
  <1>6. \A i \in 0..Horizon : \A e \in Elems(new[i]) :
          e.kind = "response" => e.what \in Known /\ i <= tCAS
    BY <1>3 DEF AnswersSorted
  <1> QED  BY <1>1, <1>2, <1>5, <1>6

\* What is not inserted stays as it is; what is depends on its cell.
LEMMA InsertedCells ==
    ASSUME NEW s, NEW t, s.calendar \in Calendar, AnswersSorted(s),
           NEW when \in 0..Horizon, NEW block, NEW priority, NEW n,
           Inserted(s.calendar, when, block, priority, n, t.calendar),
           Pairs(t.calendar[when], CellPairs)
    PROVE  \A i \in 0..Horizon : Pairs(t.calendar[i], CellPairs)
  BY DEF Inserted, AnswersSorted

\* Events that are neither responses nor cleanups disturb neither.
LEMMA QuietInserts ==
    ASSUME NEW s, NEW t, t.writes = s.writes, s.calendar \in Calendar, AnswersSorted(s),
           NEW when \in 0..Horizon, NEW block \in Seq(Event), NEW priority \in Nat, NEW n,
           Inserted(s.calendar, when, block, priority, n, t.calendar),
           \A e \in Elems(block) : e.kind \notin {"response", "CleanupCallback"}
    PROVE  /\ t.calendar \in Calendar /\ AnswersSorted(t) /\ AnswerSet(t) = AnswerSet(s)
           /\ \A i \in 0..Horizon : Cleans(s.calendar[i]) => Cleans(t.calendar[i])
  <1> DEFINE list == s.calendar[when]
             new == t.calendar[when]
  <1>1. t.calendar \in Calendar /\ Behind(list, n, priority) /\ Wedged(list, n, block, new)
        /\ \A i \in 0..Horizon : i # when => t.calendar[i] = s.calendar[i]
    BY DEF Inserted
  <1>2. list \in Seq(Event) /\ new \in Seq(Event) /\ Pairs(list, CellPairs)
        /\ \A f \in Elems(block) : f \in Event
    BY <1>1, ElemIs DEF Calendar, AnswersSorted
  <1>3. /\ \A k \in DOMAIN block : block[k].kind \notin {"response", "CleanupCallback"}
                                   /\ block[k] \in Event
        /\ \A j \in 1..n : list[j] \in Event
    <2>1. \A k \in DOMAIN block : block[k] \in Elems(block)  BY DEF Elems
    <2>2. \A j \in 1..n : j \in 1..Len(list) /\ Len(list) \in Nat
      BY <1>1, <1>2, LenProperties DEF Behind
    <2> QED  BY <1>2, <2>1, <2>2, ElementOfSeq
  <1>4. Pairs(new, CellPairs) /\ (Cleans(list) => Cleans(new))
    <2>1. Pairs(block, CellPairs)  BY <1>3 DEF Pairs, CellPairs
    <2>2. \A j \in 1..n, k \in DOMAIN block : <<list[j], block[k]>> \in CellPairs
      BY <1>3 DEF CellPairs
    <2> QED  BY <1>1, <1>2, <2>1, <2>2, QuietCell
  <1>5. /\ Sorted(t.calendar, AnswerPairs(t)) /\ AnswerSet(t) = AnswerSet(s)
        /\ \A i \in 0..Horizon : \A e \in Elems(t.calendar[i]) :
             e.kind = "response" => e.what \in Known /\ i <= tCAS
    <2>1. \A e \in Elems(block) : e.kind # "response"  OBVIOUS
    <2> QED  BY <2>1, NoAnswerInserts
  <1>6. \A i \in 0..Horizon : Pairs(t.calendar[i], CellPairs)  BY <1>4, InsertedCells
  <1>7. \A i \in 0..Horizon : Cleans(s.calendar[i]) => Cleans(t.calendar[i])  BY <1>1, <1>4
  <1> QED  BY <1>1, <1>5, <1>6, <1>7 DEF AnswersSorted

\* The cleanup comes first, and only one of them.
LEMMA CleanupInserts ==
    ASSUME NEW s, NEW t, t.writes = s.writes, s.calendar \in Calendar, AnswersSorted(s),
           NEW n, Inserted(s.calendar, 1, <<Callback("CleanupCallback", None, cleanupPriority)>>,
                           cleanupPriority, n, t.calendar),
           ~Scheduled(s.calendar, "CleanupCallback", 1)
    PROVE  /\ t.calendar \in Calendar /\ AnswersSorted(t) /\ AnswerSet(t) = AnswerSet(s)
           /\ Cleans(t.calendar[1])
  <1> DEFINE list == s.calendar[1]
             new == t.calendar[1]
             e == Callback("CleanupCallback", None, cleanupPriority)
             block == <<e>>
  <1>0. 1 \in 0..Horizon  BY Numbers
  <1>1. t.calendar \in Calendar /\ Behind(list, n, cleanupPriority) /\ Wedged(list, n, block, new)
    BY DEF Inserted
  <1>2. list \in Seq(Event) /\ new \in Seq(Event) /\ Pairs(list, CellPairs)
    BY <1>0, <1>1 DEF Calendar, AnswersSorted
  <1>3. e \in Event /\ e.kind = "CleanupCallback" /\ e.priority = cleanupPriority
    BY DEF Event, Callback
  <1> HIDE DEF e
  <1>4. block \in Seq(Event) /\ DOMAIN block = {1} /\ block[1] = e /\ Elems(block) = {e} /\ Len(block) = 1
    BY <1>3 DEF Elems
  <1> HIDE DEF block
  <1>5. /\ Len(list) \in Nat /\ n \in 0..Len(list) /\ DOMAIN list = 1..Len(list)
        /\ \A j \in DOMAIN list : list[j] \in Event /\ list[j].kind # "CleanupCallback"
    BY <1>1, <1>2, LenProperties, ElementOfSeq DEF Behind, Scheduled
  <1>6. n = 0
    <2>1. ASSUME n # 0 PROVE  FALSE
      <3>1. 1 \in 1..n /\ 1 \in DOMAIN list  BY <1>5, <2>1
      <3>2. list[1].priority <= cleanupPriority /\ list[1].priority \in Int
        BY <1>1, <1>5, <3>1, EventIs DEF Behind
      <3>3. list[1].priority < 0  BY <3>2 DEF cleanupPriority
      <3> QED  BY <1>5, <3>1, <3>3, EventIs
    <2> QED  BY <2>1
  <1>7. Pairs(new, CellPairs)
    <2>1. Pairs(block, CellPairs)  BY <1>4 DEF Pairs
    <2>2. \A j \in 1..n, k \in DOMAIN block : <<list[j], block[k]>> \in CellPairs  BY <1>6
    <2>3. \A j \in (n + 1)..Len(list), k \in DOMAIN block : <<block[k], list[j]>> \in CellPairs
      <3>1. e.priority <= 0  BY <1>3 DEF cleanupPriority
      <3> QED  BY <1>3, <1>4, <1>5, <3>1 DEF CellPairs
    <2> QED  BY <1>1, <1>2, <1>4, <2>1, <2>2, <2>3, WedgedPairs
  <1>8. /\ Sorted(t.calendar, AnswerPairs(t)) /\ AnswerSet(t) = AnswerSet(s)
        /\ \A i \in 0..Horizon : \A f \in Elems(t.calendar[i]) :
             f.kind = "response" => f.what \in Known /\ i <= tCAS
    <2>1. Inserted(s.calendar, 1, block, cleanupPriority, n, t.calendar)  BY DEF block, e
    <2>2. \A f \in Elems(block) : f.kind # "response"  BY <1>3, <1>4
    <2> QED  BY <1>0, <1>4, <2>1, <2>2, NoAnswerInserts
  <1>9. \A i \in 0..Horizon : Pairs(t.calendar[i], CellPairs)  BY <1>0, <1>7, InsertedCells
  <1>10. Cleans(new)
    <2>1. new[1] = e /\ Len(new) > 0  BY <1>1, <1>4, <1>5, <1>6 DEF Wedged
    <2>2. new # <<>>  BY <2>1
    <2> QED  BY <1>3, <2>1, <2>2 DEF Cleans
  <1> QED  BY <1>1, <1>8, <1>9, <1>10 DEF AnswersSorted

\* A response comes after all others.
LEMMA ResponseInserts ==
    ASSUME NEW s, NEW t, t.writes = s.writes, s.calendar \in Calendar, AnswersSorted(s),
           NEW n, NEW r \in Known, r \in Req,
           Inserted(s.calendar, tCAS, <<TypedEvent("response", r)>>, 0, n, t.calendar),
           r \notin AnswerSet(s), \A q \in AnswerSet(s) : ~Precedes(s, r, q)
    PROVE  /\ t.calendar \in Calendar /\ AnswersSorted(t) /\ AnswerSet(t) = AnswerSet(s) \cup {r}
           /\ \A i \in 0..Horizon : Cleans(s.calendar[i]) => Cleans(t.calendar[i])
  <1> DEFINE old == s.calendar
             new == t.calendar
             list == s.calendar[tCAS]
             made == t.calendar[tCAS]
             e == TypedEvent("response", r)
             block == <<e>>
             R == AnswerPairs(s)
  <1>0. tCAS \in 0..Horizon /\ 0 \in Nat /\ tCAS \in Nat  BY Numbers
  <1>1. new \in Calendar /\ Behind(list, n, 0) /\ Wedged(list, n, block, made)
        /\ \A i \in 0..Horizon : i # tCAS => new[i] = old[i]
    BY DEF Inserted
  <1>2. /\ list \in Seq(Event) /\ made \in Seq(Event) /\ Pairs(list, CellPairs)
        /\ \A i \in 0..Horizon : \A f \in Elems(old[i]) : f \in Event
    BY <1>0, <1>1, ElemIs DEF Calendar, AnswersSorted
  <1>3. e \in Event /\ e.kind = "response" /\ e.priority = 0 /\ e.what = r
    BY DEF Event, TypedEvent, StoredDefault
  <1> HIDE DEF e
  <1>4. block \in Seq(Event) /\ DOMAIN block = {1} /\ block[1] = e /\ Elems(block) = {e} /\ Len(block) = 1
    BY <1>3 DEF Elems
  <1>i. Inserted(old, tCAS, block, 0, n, new)  BY DEF e
  <1> HIDE DEF block
  <1>5. /\ Len(list) \in Nat /\ n \in 0..Len(list) /\ DOMAIN list = 1..Len(list)
        /\ \A j \in DOMAIN list : list[j] \in Event /\ list[j] \in Elems(list)
        /\ \A j \in 1..n : j \in DOMAIN list
    BY <1>1, <1>2, LenProperties, ElementOfSeq DEF Behind, Elems
  <1>6. ASSUME NEW j \in (n + 1)..Len(list)
        PROVE  j \in DOMAIN list /\ list[j] \in Event /\ list[j].kind # "response"
               /\ list[j].kind # "CleanupCallback"
    BY <1>0, <1>1, <1>2, NoneBehind
  <1>7. ASSUME NEW i \in 0..Horizon, NEW f \in Elems(old[i]) PROVE  <<f, e>> \in R
    <2>1. CASE f.kind = "response"
      <3>1. f.what \in AnswerSet(s)  BY <2>1 DEF AnswersSorted, AnswerSet
      <3>2. f.what # r /\ ~Precedes(s, r, f.what)  BY <3>1
      <3> QED  BY <1>2, <1>3, <3>2 DEF AnswerPairs
    <2>2. CASE f.kind # "response"  BY <1>2, <1>3, <2>2 DEF AnswerPairs
    <2> QED  BY <2>1, <2>2
  <1>8. Sorted(new, R)
    <2>1. Sorted(old, R)  BY DEF AnswersSorted
    <2>2. Pairs(block, R)  BY <1>4 DEF Pairs
    <2>3. ASSUME NEW i \in 0..Horizon, tCAS < i, NEW f \in Elems(old[i]) PROVE  <<e, f>> \in R
      <3>1. f.kind # "response"  BY <1>0, <2>3 DEF AnswersSorted
      <3> QED  BY <1>2, <1>3, <3>1 DEF AnswerPairs
    <2>4. \A i \in 0..Horizon : \A f \in Elems(old[i]), g \in Elems(block) :
            (i < tCAS => <<f, g>> \in R) /\ (tCAS < i => <<g, f>> \in R)
      BY <1>4, <1>7, <2>3
    <2>5. \A j \in 1..n, k \in DOMAIN block : <<list[j], block[k]>> \in R
      BY <1>0, <1>4, <1>5, <1>7
    <2>6. \A j \in (n + 1)..Len(list), k \in DOMAIN block : <<block[k], list[j]>> \in R
      BY <1>3, <1>4, <1>6 DEF AnswerPairs
    <2> HIDE DEF R
    <2> QED  BY <1>0, <1>4, <1>i, <2>1, <2>2, <2>4, <2>5, <2>6, InsertedSorted
  <1>9. Pairs(made, CellPairs) /\ (Cleans(list) => Cleans(made))
    <2>1. Pairs(block, CellPairs)  BY <1>4 DEF Pairs
    <2>2. \A j \in 1..n, k \in DOMAIN block : <<list[j], block[k]>> \in CellPairs
      BY <1>1, <1>3, <1>4, <1>5 DEF CellPairs, Behind
    <2>3. \A f \in Elems(block) : f.kind # "CleanupCallback"  BY <1>3, <1>4
    <2>4. Behind(list, n, 0) /\ Wedged(list, n, block, made) /\ Pairs(list, CellPairs)
      BY <1>1, <1>2
    <2>5. 0 \in Nat /\ list \in Seq(Event) /\ block \in Seq(Event) /\ made \in Seq(Event)
      BY <1>0, <1>2, <1>4
    <2> HIDE DEF list, made, R
    <2> QED  BY <2>1, <2>2, <2>3, <2>4, <2>5, QuietCell
  <1>10. \A i \in 0..Horizon : Pairs(new[i], CellPairs) /\ (Cleans(old[i]) => Cleans(new[i]))
    BY <1>1, <1>9 DEF AnswersSorted
  <1>11. ASSUME NEW l \in 0..Horizon
         PROVE  /\ l = tCAS => Elems(new[l]) = Elems(old[l]) \cup Elems(block)
                /\ l # tCAS => Elems(new[l]) = Elems(old[l])
    <2>1. tCAS \in 0..Horizon /\ block \in Seq(Event)  BY <1>0, <1>4
    <2> QED  BY <1>i, <2>1, InsertedElems
  <1>12. AnswersSorted(t)
    <2>1. AnswerPairs(t) = R  BY SameOrder
    <2>2. \A i \in 0..Horizon : \A f \in Elems(new[i]) :
            f.kind = "response" => f.what \in Known /\ i <= tCAS
      BY <1>0, <1>3, <1>4, <1>11 DEF AnswersSorted
    <2> QED  BY <1>8, <1>10, <2>1, <2>2 DEF AnswersSorted
  <1>13. AnswerSet(t) = AnswerSet(s) \cup {r}
    <2>1. r \in AnswerSet(t)  BY <1>0, <1>3, <1>4, <1>11 DEF AnswerSet
    <2>2. AnswerSet(s) \subseteq AnswerSet(t)  BY <1>11 DEF AnswerSet
    <2>3. ASSUME NEW q \in AnswerSet(t), q # r PROVE  q \in AnswerSet(s)
      BY <1>3, <1>4, <1>11, <2>3 DEF AnswerSet
    <2> QED  BY <2>1, <2>2, <2>3
  <1> QED  BY <1>1, <1>10, <1>12, <1>13

\* The list of a cycle without its head.
LEMMA TailIs ==
    ASSUME NEW S, NEW list \in Seq(S), list # <<>>
    PROVE  /\ Tail(list) \in Seq(S) /\ list[1] \in S /\ 1 \in DOMAIN list
           /\ Elems(list) = Elems(Tail(list)) \cup {list[1]}
           /\ \A R : Pairs(list, R) =>
                Pairs(Tail(list), R) /\ \A x \in Elems(Tail(list)) : <<list[1], x>> \in R
  <1> DEFINE rest == Tail(list)
  <1>1. /\ rest \in Seq(S) /\ Len(rest) = Len(list) - 1 /\ Len(list) \in Nat /\ Len(list) >= 1
        /\ DOMAIN rest = 1..(Len(list) - 1) /\ DOMAIN list = 1..Len(list)
        /\ \A i \in 1..(Len(list) - 1) : rest[i] = list[i + 1]
    <2>1. Len(list) \in Nat /\ Len(list) # 0 /\ DOMAIN list = 1..Len(list)
      BY LenProperties, EmptySeq
    <2>2. rest \in Seq(S) /\ Len(rest) = Len(list) - 1
          /\ \A i \in 1..Len(rest) : rest[i] = list[i + 1]
      BY <2>1, HeadTailProperties
    <2> QED  BY <2>1, <2>2, LenProperties
  <1> HIDE DEF rest
  <1>2. 1 \in DOMAIN list /\ list[1] \in S  BY <1>1, ElementOfSeq
  <1>3. Elems(list) = Elems(rest) \cup {list[1]}
    <2>1. ASSUME NEW i \in DOMAIN list PROVE  list[i] \in Elems(rest) \cup {list[1]}
      <3>1. CASE i # 1
        <4>1. i - 1 \in DOMAIN rest /\ rest[i - 1] = list[i]  BY <1>1, <3>1
        <4> QED  BY <4>1 DEF Elems
      <3> QED  BY <3>1
    <2>2. ASSUME NEW i \in DOMAIN rest PROVE  rest[i] \in Elems(list)
      <3>1. i + 1 \in DOMAIN list /\ rest[i] = list[i + 1]  BY <1>1
      <3> QED  BY <3>1 DEF Elems
    <2> QED  BY <1>2, <2>1, <2>2 DEF Elems
  <1>4. ASSUME NEW R, Pairs(list, R)
        PROVE  Pairs(rest, R) /\ \A x \in Elems(rest) : <<list[1], x>> \in R
    <2>1. ASSUME NEW i \in DOMAIN rest, NEW j \in DOMAIN rest, i < j
          PROVE  <<rest[i], rest[j]>> \in R
      <3>1. i + 1 \in DOMAIN list /\ j + 1 \in DOMAIN list /\ i + 1 < j + 1
            /\ rest[i] = list[i + 1] /\ rest[j] = list[j + 1]
        BY <1>1, <2>1
      <3> QED  BY <1>4, <3>1 DEF Pairs
    <2>2. ASSUME NEW i \in DOMAIN rest PROVE  <<list[1], rest[i]>> \in R
      <3>1. i + 1 \in DOMAIN list /\ 1 < i + 1 /\ rest[i] = list[i + 1]  BY <1>1
      <3> QED  BY <1>2, <1>4, <3>1 DEF Pairs
    <2> QED  BY <2>1, <2>2 DEF Pairs, Elems
  <1> QED  BY <1>1, <1>2, <1>3, <1>4 DEF rest

\* Taking the first event keeps an order, and that event was before all others.
LEMMA PopSorted ==
    ASSUME NEW old \in Calendar, old[0] # <<>>, NEW new, new = [old EXCEPT ![0] = Tail(@)]
    PROVE  /\ new \in Calendar /\ old[0][1] \in Event
           /\ Elems(old[0]) = Elems(new[0]) \cup {old[0][1]}
           /\ \A i \in 0..Horizon : i # 0 => new[i] = old[i]
           /\ \A R : Sorted(old, R) =>
                Sorted(new, R) /\ \A i \in 0..Horizon : \A e \in Elems(new[i]) : <<old[0][1], e>> \in R
           /\ \A R : Pairs(old[0], R) => Pairs(new[0], R)
  <1>1. 0 \in 0..Horizon /\ old[0] \in Seq(Event)  BY Numbers DEF Calendar
  <1>2. /\ Tail(old[0]) \in Seq(Event) /\ old[0][1] \in Event /\ 1 \in DOMAIN old[0]
        /\ Elems(old[0]) = Elems(Tail(old[0])) \cup {old[0][1]}
        /\ \A R : Pairs(old[0], R) =>
             Pairs(Tail(old[0]), R) /\ \A x \in Elems(Tail(old[0])) : <<old[0][1], x>> \in R
    BY <1>1, TailIs
  <1>3. new \in Calendar /\ new[0] = Tail(old[0]) /\ \A i \in 0..Horizon : i # 0 => new[i] = old[i]
    BY <1>1, <1>2 DEF Calendar
  <1>4. ASSUME NEW R, Sorted(old, R)
        PROVE  Sorted(new, R) /\ \A i \in 0..Horizon : \A e \in Elems(new[i]) : <<old[0][1], e>> \in R
    <2>1. \A i \in 0..Horizon : Pairs(new[i], R)  BY <1>1, <1>2, <1>3, <1>4 DEF Sorted
    <2>2. \A i \in 0..Horizon : Elems(new[i]) \subseteq Elems(old[i])  BY <1>2, <1>3
    <2>3. \A i, j \in 0..Horizon : i < j =>
            \A e \in Elems(new[i]), f \in Elems(new[j]) : <<e, f>> \in R
      BY <1>4, <2>2 DEF Sorted
    <2>4. ASSUME NEW i \in 0..Horizon, NEW e \in Elems(new[i]) PROVE  <<old[0][1], e>> \in R
      <3>1. CASE i = 0  BY <1>1, <1>2, <1>3, <1>4, <2>4, <3>1 DEF Sorted
      <3>2. CASE i # 0
        <4>1. 0 < i /\ e \in Elems(old[i]) /\ old[0][1] \in Elems(old[0])
          BY <1>2, <1>3, <2>4, <3>2
        <4> QED  BY <1>1, <1>4, <4>1 DEF Sorted
      <3> QED  BY <3>1, <3>2
    <2> QED  BY <2>1, <2>3, <2>4 DEF Sorted
  <1>5. \A R : Sorted(old, R) =>
          Sorted(new, R) /\ \A i \in 0..Horizon : \A e \in Elems(new[i]) : <<old[0][1], e>> \in R
    BY <1>4
  <1>6. \A R : Pairs(old[0], R) => Pairs(new[0], R)  BY <1>2, <1>3
  <1>7. Elems(old[0]) = Elems(new[0]) \cup {old[0][1]}  BY <1>2, <1>3
  <1> QED  BY <1>2, <1>3, <1>5, <1>6, <1>7, Zenon

\* Process() takes an event out of its list.
LEMMA PopKeeps ==
    ASSUME NEW s, NEW t, t.writes = s.writes, s.calendar \in Calendar, AnswersSorted(s),
           s.calendar[0] # <<>>, t.calendar = [s.calendar EXCEPT ![0] = Tail(@)]
    PROVE  /\ t.calendar \in Calendar /\ AnswersSorted(t) /\ s.calendar[0][1] \in Event
           /\ s.calendar[0][1].kind # "response" => AnswerSet(t) = AnswerSet(s)
           /\ s.calendar[0][1].kind = "response" =>
                /\ s.calendar[0][1].what \in AnswerSet(s)
                /\ AnswerSet(t) = AnswerSet(s) \ {s.calendar[0][1].what}
                /\ \A q \in AnswerSet(t) : ~Precedes(s, q, s.calendar[0][1].what)
           /\ t.calendar[1] = s.calendar[1]
  <1> DEFINE old == s.calendar
             new == t.calendar
             e == s.calendar[0][1]
             R == AnswerPairs(s)
  <1>1. /\ new \in Calendar /\ e \in Event
        /\ Elems(old[0]) = Elems(new[0]) \cup {e}
        /\ \A i \in 0..Horizon : i # 0 => new[i] = old[i]
        /\ \A Q : Sorted(old, Q) =>
             Sorted(new, Q) /\ \A i \in 0..Horizon : \A f \in Elems(new[i]) : <<e, f>> \in Q
        /\ \A Q : Pairs(old[0], Q) => Pairs(new[0], Q)
    BY PopSorted
  <1>2. 0 \in 0..Horizon /\ 1 \in 0..Horizon  BY Numbers
  <1>3. AnswerPairs(t) = R  BY SameOrder
  <1>4. Sorted(new, R) /\ \A i \in 0..Horizon : \A f \in Elems(new[i]) : <<e, f>> \in R
    BY <1>1 DEF AnswersSorted
  <1>5. \A i \in 0..Horizon : Pairs(new[i], CellPairs)  BY <1>1, <1>2 DEF AnswersSorted
  <1>6. /\ \A i \in 0..Horizon : Elems(new[i]) \subseteq Elems(old[i])
        /\ \A i \in 0..Horizon : \A f \in Elems(old[i]) : f \in Elems(new[i]) \/ f = e
    BY <1>1
  <1>7. AnswersSorted(t)  BY <1>3, <1>4, <1>5, <1>6 DEF AnswersSorted
  <1>8. CASE e.kind # "response"  BY <1>1, <1>2, <1>6, <1>7, <1>8 DEF AnswerSet
  <1>9. CASE e.kind = "response"
    <2>1. e.what \in AnswerSet(s)  BY <1>1, <1>2, <1>9 DEF AnswerSet, AnswersSorted
    <2>2. ASSUME NEW q \in AnswerSet(t)
          PROVE  q \in AnswerSet(s) /\ q # e.what /\ ~Precedes(s, q, e.what)
      <3>1. PICK i \in 0..Horizon : \E f \in Elems(new[i]) : f.kind = "response" /\ f.what = q
        BY DEF AnswerSet
      <3>a. PICK f \in Elems(new[i]) : f.kind = "response" /\ f.what = q  BY <3>1
      <3>2. <<e, f>> \in AnswerPairs(s)  BY <1>4
      <3>3. e.what # f.what /\ ~Precedes(s, f.what, e.what)  BY <1>9, <3>a, <3>2 DEF AnswerPairs
      <3> QED  BY <1>6, <3>a, <3>3 DEF AnswerSet
    <2>3. \A q \in AnswerSet(s) : q # e.what => q \in AnswerSet(t)  BY <1>6 DEF AnswerSet
    <2>4. AnswerSet(t) = AnswerSet(s) \ {e.what}  BY <2>2, <2>3
    <2> QED  BY <1>1, <1>2, <1>7, <1>9, <2>1, <2>2, <2>4
  <1> QED  BY <1>8, <1>9

\* The responses that are left are in order,
LEMMA PopSorts ==
    ASSUME NEW s, NEW t, t.writes = s.writes, s.calendar \in Calendar, AnswersSorted(s),
           s.calendar[0] # <<>>, t.calendar = [s.calendar EXCEPT ![0] = Tail(@)]
    PROVE  t.calendar \in Calendar /\ AnswersSorted(t)
  BY PopKeeps

\* they are the same when another event is taken,
LEMMA PopQuiet ==
    ASSUME NEW s, NEW t, t.writes = s.writes, s.calendar \in Calendar, AnswersSorted(s),
           s.calendar[0] # <<>>, t.calendar = [s.calendar EXCEPT ![0] = Tail(@)],
           s.calendar[0][1].kind # "response"
    PROVE  AnswerSet(t) = AnswerSet(s)
  BY PopKeeps

\* and a response that is taken was the next of its row.
LEMMA PopAnswer ==
    ASSUME NEW s, NEW t, t.writes = s.writes, s.calendar \in Calendar, AnswersSorted(s),
           s.calendar[0] # <<>>, t.calendar = [s.calendar EXCEPT ![0] = Tail(@)],
           s.calendar[0][1].kind = "response", NEW r, r = s.calendar[0][1].what
    PROVE  /\ r \in AnswerSet(s) /\ AnswerSet(t) = AnswerSet(s) \ {r}
           /\ \A q \in AnswerSet(t) : ~Precedes(s, q, r)
  BY PopKeeps

\* The next cycle: every list comes one nearer, and the pulses that are due come last.
Shifted(old, pulses) == [i \in 0..Horizon |-> IF i < Horizon THEN old[i + 1] ELSE pulses]

\* The next cycle keeps an order that the pulses fit into,
LEMMA ShiftSorted ==
    ASSUME NEW old \in Calendar, NEW pulses \in Seq(Event), NEW R, Sorted(old, R), Pairs(pulses, R),
           \A i \in 0..Horizon : \A e \in Elems(old[i]), f \in Elems(pulses) : <<e, f>> \in R
    PROVE  Sorted(Shifted(old, pulses), R)
  <1> DEFINE new == Shifted(old, pulses)
  <1>0. Horizon \in Nat /\ Horizon \in 0..Horizon
        /\ \A i \in 0..Horizon : i \in Nat /\ (i < Horizon => i + 1 \in 0..Horizon)
                                 /\ (~(i < Horizon) => i = Horizon)
    BY Numbers
  <1>1. \A i \in 0..Horizon : new[i] = IF i < Horizon THEN old[i + 1] ELSE pulses
    BY DEF Shifted
  <1> HIDE DEF new
  <1>2. \A i \in 0..Horizon : Pairs(new[i], R)  BY <1>0, <1>1 DEF Sorted
  <1>3. ASSUME NEW i \in 0..Horizon, NEW j \in 0..Horizon, i < j,
               NEW e \in Elems(new[i]), NEW f \in Elems(new[j])
        PROVE  <<e, f>> \in R
    <2>1. i < Horizon /\ e \in Elems(old[i + 1]) /\ i + 1 \in 0..Horizon  BY <1>0, <1>1, <1>3
    <2>2. CASE j < Horizon
      <3>1. f \in Elems(old[j + 1]) /\ j + 1 \in 0..Horizon /\ i + 1 < j + 1
        BY <1>0, <1>1, <1>3, <2>2
      <3> QED  BY <2>1, <3>1 DEF Sorted
    <2>3. CASE ~(j < Horizon)
      <3>1. f \in Elems(pulses)  BY <1>1, <2>3
      <3> QED  BY <2>1, <3>1
    <2> QED  BY <2>2, <2>3
  <1> QED  BY <1>2, <1>3 DEF Sorted, new

\* and no response is lost.
LEMMA ShiftKeeps ==
    ASSUME NEW s, NEW t, t.writes = s.writes, s.calendar \in Calendar, AnswersSorted(s),
           s.calendar[0] = <<>>, NEW pulses \in Seq(Event),
           \A e \in Elems(pulses) : e.kind = "RefreshCallback",
           t.calendar = Shifted(s.calendar, pulses)
    PROVE  /\ t.calendar \in Calendar /\ AnswersSorted(t) /\ AnswerSet(t) = AnswerSet(s)
           /\ t.calendar[0] = s.calendar[1]
  <1> DEFINE old == s.calendar
             new == t.calendar
             R == AnswerPairs(s)
  <1>0. /\ Horizon \in Nat /\ Horizon \in 0..Horizon /\ 0 \in 0..Horizon /\ 0 < Horizon /\ 0 + 1 = 1
        /\ \A i \in 0..Horizon : i \in Nat /\ (i < Horizon => i + 1 \in 0..Horizon)
                                 /\ (~(i < Horizon) => i = Horizon)
        /\ tCAS \in Nat
    BY Numbers
  <1>1. \A i \in 0..Horizon : new[i] = IF i < Horizon THEN old[i + 1] ELSE pulses
    BY DEF Shifted
  <1>2. new \in Calendar  BY <1>0 DEF Calendar, Shifted
  <1>3. /\ \A f \in Elems(pulses) : f \in Event
        /\ \A i \in 0..Horizon : \A e \in Elems(old[i]) : e \in Event
        /\ \A k \in DOMAIN pulses : pulses[k] \in Elems(pulses)
    BY ElemIs DEF Calendar, Elems
  <1>4. Sorted(new, R)
    <2>1. Sorted(old, R)  BY DEF AnswersSorted
    <2>2. Pairs(pulses, R)  BY <1>3 DEF Pairs, AnswerPairs
    <2>3. \A i \in 0..Horizon : \A e \in Elems(old[i]), f \in Elems(pulses) : <<e, f>> \in R
      BY <1>3 DEF AnswerPairs
    <2> HIDE DEF R
    <2> QED  BY <2>1, <2>2, <2>3, ShiftSorted
  <1>5. \A i \in 0..Horizon : Pairs(new[i], CellPairs)
    <2>1. Pairs(pulses, CellPairs)  BY <1>3 DEF Pairs, CellPairs
    <2> QED  BY <1>0, <1>1, <2>1 DEF AnswersSorted
  <1>6. ASSUME NEW i \in 0..Horizon, NEW e \in Elems(new[i]), e.kind = "response"
        PROVE  i + 1 \in 0..Horizon /\ e \in Elems(old[i + 1]) /\ e.what \in Known /\ i <= tCAS
    <2>1. i + 1 \in 0..Horizon /\ e \in Elems(old[i + 1])  BY <1>0, <1>1, <1>6
    <2>2. e.what \in Known /\ i + 1 <= tCAS  BY <1>6, <2>1 DEF AnswersSorted
    <2> QED  BY <1>0, <2>1, <2>2
  <1>7. AnswersSorted(t)
    <2>1. AnswerPairs(t) = R  BY SameOrder
    <2> QED  BY <1>4, <1>5, <1>6, <2>1 DEF AnswersSorted
  <1>8. AnswerSet(t) = AnswerSet(s)
    <2>1. ASSUME NEW i \in 0..Horizon, NEW e \in Elems(old[i])
          PROVE  \E j \in 0..Horizon : e \in Elems(new[j])
      <3>1. i # 0  BY <2>1 DEF Elems
      <3>2. i - 1 \in 0..Horizon /\ i - 1 < Horizon /\ i - 1 + 1 = i  BY <1>0, <3>1
      <3> QED  BY <1>1, <2>1, <3>2
    <2> QED  BY <1>6, <2>1 DEF AnswerSet
  <1> QED  BY <1>0, <1>1, <1>2, <1>7, <1>8

-----------------------------------------------------------------------------
(* The configuration.                                                      *)

\* The first bank of a group is of that group.
LEMMA Multiples ==
    ASSUME NEW n \in Nat \ {0}, NEW b \in Nat
    PROVE  /\ b \div n \in Nat /\ (b \div n) * n \in 0..b
           /\ (((b \div n) * n) \div n) * n = (b \div n) * n
  <1> DEFINE k == b \div n
  <1>1. k \in Nat /\ k * n <= b /\ b < (k + 1) * n  OBVIOUS
  <1> HIDE DEF k
  <1>2. k * n \in Nat  BY <1>1
  <1>3. (k * n) \div n = k  BY <1>1, <1>2
  <1> QED  BY <1>1, <1>2, <1>3 DEF k

\* Queues of subarrays have numbers of their own.
LEMMA Products ==
    ASSUME NEW B \in Nat, NEW S \in Nat, NEW b \in 0..(B - 1), NEW a \in 0..(S - 1)
    PROVE  b * S + a \in 0..(B * S - 1)
  <1> DEFINE d == B - 1 - b
  <1>1. d \in Nat /\ B = b + 1 + d  OBVIOUS
  <1> HIDE DEF d
  <1>2. B * S = b * S + S + d * S /\ d * S \in Nat /\ b * S \in Nat  BY <1>1
  <1> QED  BY <1>2

\* The numbers of a configuration.
LEMMA Sizes ==
    /\ BANKS \in Nat \ {0} /\ subArrayNum \in Nat \ {0} /\ ROWS \in Nat \ {0}
    /\ Bank = 0..(BANKS - 1) /\ SubArray = 0..(subArrayNum - 1) /\ Row = 0..(ROWS - 1)
    /\ 0 \in SubArray /\ Row \subseteq 0..ROWS /\ ROWS \notin Row /\ 0 \in 0..ROWS
    /\ IsFiniteSet(Bank) /\ IsFiniteSet(SubArray) /\ Req \subseteq Nat \ {0}
    /\ Address \subseteq [bank : Bank, sa : SubArray, row : Row]
    /\ \A r \in Req : \A q \in 1..r : q \in Req
  <1>1. /\ IsFiniteSet(Bank) /\ IsFiniteSet(SubArray) /\ IsFiniteSet(Row) /\ IsFiniteSet(Req)
        /\ Bank # {} /\ SubArray # {} /\ Row # {}
        /\ Bank = 0..(BANKS - 1) /\ SubArray = 0..(subArrayNum - 1) /\ Row = 0..(ROWS - 1)
        /\ Req = 1..Cardinality(Req)
        /\ Address \subseteq [bank : Bank, sa : SubArray, row : Row]
    BY ConfigAssumption DEF ConfigAssumption
  <1>2. BANKS \in Nat /\ subArrayNum \in Nat /\ ROWS \in Nat /\ Cardinality(Req) \in Nat
    BY <1>1, FS_CardinalityType DEF BANKS, subArrayNum, ROWS
  <1>3. BANKS # 0 /\ subArrayNum # 0 /\ ROWS # 0  BY <1>1, <1>2
  <1>4. Req \subseteq Nat \ {0} /\ \A r \in Req : \A q \in 1..r : q \in Req  BY <1>1, <1>2
  <1>5. 0 \in SubArray /\ Row \subseteq 0..ROWS /\ ROWS \notin Row /\ 0 \in 0..ROWS
    BY <1>1, <1>2, <1>3
  <1> QED  BY <1>1, <1>2, <1>3, <1>4, <1>5

\* The parameters,
LEMMA ParamsAre ==
    ASSUME p \in Params
    PROVE  /\ p.queueModel \in {"PerRank", "PerBank", "PerSubArray"} /\ p.closePage \in 0..2
           /\ p.UsePrecharge \in BOOLEAN /\ p.StarvationThreshold \in Nat
           /\ p.BanksPerRefresh \in 1..BANKS
           /\ p.scheduler \in {"FRFCFS", "FCFS", "FRFCFS-WQF"}
           /\ p.trace \in SUBSET [at : Address, write : BOOLEAN]
  BY ConfigAssumption DEF ConfigAssumption

\* the watermarks,
LEMMA MarksAre ==
    ASSUME p \in Params
    PROVE  p.HighWaterMark \in Nat /\ p.LowWaterMark \in Nat
  BY ConfigAssumption DEF ConfigAssumption

\* every subarray has a command queue,
LEMMA QueuesAre ==
    ASSUME p \in Params
    PROVE  /\ commandQueueCount \in Nat \ {0} /\ Queues = 0..(commandQueueCount - 1)
           /\ \A b \in Bank, sa \in SubArray : GetCommandQueueId(b, sa) \in Queues
  <1>1. commandQueueCount \in Nat \ {0}  BY Sizes, ParamsAre DEF commandQueueCount
  <1>2. ASSUME NEW b \in Bank, NEW sa \in SubArray
        PROVE  GetCommandQueueId(b, sa) \in 0..(commandQueueCount - 1)
    <2>1. b \in 0..(BANKS - 1) /\ sa \in 0..(subArrayNum - 1) /\ BANKS \in Nat /\ subArrayNum \in Nat
      BY Sizes
    <2>2. b * subArrayNum + sa \in 0..(BANKS * subArrayNum - 1)  BY <2>1, Products
    <2> QED  BY <2>1, <2>2, ParamsAre DEF GetCommandQueueId, commandQueueCount
  <1> QED  BY <1>1, <1>2 DEF Queues

\* every bank a group,
LEMMA GroupsAre ==
    ASSUME p \in Params
    PROVE  /\ Groups \subseteq Bank
           /\ \A b \in Bank : BankHead(b) \in Groups
           /\ \A g \in Groups : BankHead(g) = g
           /\ \A b \in Bank : Group(b) \subseteq Bank /\ IsFiniteSet(Group(b))
  <1>1. p.BanksPerRefresh \in Nat \ {0}  BY ParamsAre, Sizes
  <1>2. ASSUME NEW b \in Bank PROVE  BankHead(b) \in Bank /\ BankHead(BankHead(b)) = BankHead(b)
    <2>1. b \in Nat /\ b <= BANKS - 1 /\ BANKS \in Nat  BY Sizes
    <2>2. /\ BankHead(b) \in 0..b
          /\ (BankHead(b) \div p.BanksPerRefresh) * p.BanksPerRefresh = BankHead(b)
      BY <1>1, <2>1, Multiples DEF BankHead
    <2>3. BankHead(b) \in Bank  BY <2>1, <2>2, Sizes
    <2> QED  BY <2>2, <2>3 DEF BankHead
  <1>3. \A b \in Bank : Group(b) \subseteq Bank /\ IsFiniteSet(Group(b))
    <2>1. \A b \in Bank : Group(b) \in SUBSET Bank  BY DEF Group
    <2> QED  BY <2>1, Sizes, FS_Subset
  <1> QED  BY <1>2, <1>3 DEF Groups

\* and every request a bank.
LEMMA RequestsAre ==
    ASSUME Submitted
    PROVE  /\ p \in Params /\ Known \subseteq Req /\ Known \subseteq Nat /\ None \notin Known
           /\ \A r \in Known :
                /\ address[r] \in [bank : Bank, sa : SubArray, row : Row]
                /\ QueueOf(r) \in Queues
                /\ At(address[r]) \in Bank \X SubArray
                /\ QueueOf(r) = GetCommandQueueId(address[r].bank, address[r].sa)
  <1>1. p \in Params /\ address \in Seq(Address) /\ Known \subseteq Req  BY DEF Submitted
  <1>2. \A r \in Known : address[r] \in Address  BY <1>1, ElementOfSeq DEF Known
  <1>3. \A r \in Known : address[r] \in [bank : Bank, sa : SubArray, row : Row]  BY <1>2, Sizes
  <1>4. \A r \in Known : QueueOf(r) \in Queues /\ At(address[r]) \in Bank \X SubArray
    BY <1>1, <1>3, QueuesAre DEF QueueOf, At
  <1> QED  BY <1>1, <1>3, <1>4, Sizes DEF None, QueueOf

-----------------------------------------------------------------------------
(* Commands.                                                               *)

\* Putting one sequence behind another.
LEMMA ConcatIs ==
    ASSUME NEW S, NEW a \in Seq(S), NEW b \in Seq(S)
    PROVE  /\ a \o b \in Seq(S) /\ Elems(a \o b) = Elems(a) \cup Elems(b)
           /\ Len(a \o b) = Len(a) + Len(b) /\ Len(a) \in Nat /\ Len(b) \in Nat
           /\ DOMAIN a = 1..Len(a) /\ DOMAIN b = 1..Len(b)
           /\ \A i \in 1..Len(a) : (a \o b)[i] = a[i]
           /\ \A i \in 1..Len(b) : (a \o b)[Len(a) + i] = b[i]
           /\ \A R : Pairs(a, R) /\ Pairs(b, R)
                     /\ (\A x \in Elems(a), y \in Elems(b) : <<x, y>> \in R) => Pairs(a \o b, R)
  <1> DEFINE c == a \o b
  <1>0. /\ Len(a) \in Nat /\ Len(b) \in Nat /\ DOMAIN a = 1..Len(a) /\ DOMAIN b = 1..Len(b)
    BY LenProperties
  <1>1. /\ c \in Seq(S) /\ Len(c) = Len(a) + Len(b)
        /\ \A i \in 1..(Len(a) + Len(b)) : c[i] = IF i <= Len(a) THEN a[i] ELSE b[i - Len(a)]
    BY ConcatProperties
  <1>2. DOMAIN c = 1..(Len(a) + Len(b))  BY <1>0, <1>1, LenProperties
  <1> HIDE DEF c
  <1>3. \A i \in 1..Len(a) : i \in DOMAIN c /\ c[i] = a[i]  BY <1>0, <1>1, <1>2
  <1>4. ASSUME NEW i \in 1..Len(b) PROVE  Len(a) + i \in DOMAIN c /\ c[Len(a) + i] = b[i]
    <2>1. Len(a) + i \in 1..(Len(a) + Len(b)) /\ ~(Len(a) + i <= Len(a)) /\ Len(a) + i - Len(a) = i
      BY <1>0
    <2>2. c[Len(a) + i] = b[Len(a) + i - Len(a)]  BY <1>1, <2>1
    <2> QED  BY <1>2, <2>1, <2>2
  <1>5. ASSUME NEW i \in DOMAIN c
        PROVE  \/ i \in DOMAIN a /\ c[i] = a[i]
               \/ i - Len(a) \in DOMAIN b /\ c[i] = b[i - Len(a)] /\ i > Len(a)
    <2>1. CASE i <= Len(a)  BY <1>0, <1>1, <1>2, <2>1
    <2>2. CASE ~(i <= Len(a))
      <3>1. i - Len(a) \in DOMAIN b  BY <1>0, <1>2, <2>2
      <3> QED  BY <1>0, <1>1, <1>2, <2>2, <3>1
    <2> QED  BY <2>1, <2>2
  <1>6. Elems(c) = Elems(a) \cup Elems(b)
    <2>1. Elems(c) \subseteq Elems(a) \cup Elems(b)  BY <1>5 DEF Elems
    <2>2. Elems(a) \subseteq Elems(c)  BY <1>0, <1>3 DEF Elems
    <2>3. Elems(b) \subseteq Elems(c)  BY <1>0, <1>4 DEF Elems
    <2> QED  BY <2>1, <2>2, <2>3
  <1>7. ASSUME NEW R, Pairs(a, R), Pairs(b, R), \A x \in Elems(a), y \in Elems(b) : <<x, y>> \in R,
               NEW i \in DOMAIN c, NEW j \in DOMAIN c, i < j
        PROVE  <<c[i], c[j]>> \in R
    <2>0. i \in Nat /\ j \in Nat  BY <1>0, <1>2
    <2>1. CASE i \in DOMAIN a /\ c[i] = a[i]
      <3>1. CASE j \in DOMAIN a /\ c[j] = a[j]  BY <1>7, <2>1, <3>1 DEF Pairs
      <3>2. CASE j - Len(a) \in DOMAIN b /\ c[j] = b[j - Len(a)]  BY <1>7, <2>1, <3>2 DEF Elems
      <3> QED  BY <1>5, <3>1, <3>2
    <2>2. CASE i - Len(a) \in DOMAIN b /\ c[i] = b[i - Len(a)] /\ i > Len(a)
      <3>1. ~(j \in DOMAIN a)  BY <1>0, <1>7, <2>0, <2>2
      <3>2. j - Len(a) \in DOMAIN b /\ c[j] = b[j - Len(a)] /\ i - Len(a) < j - Len(a)
        <4>1. j - Len(a) \in DOMAIN b /\ c[j] = b[j - Len(a)]  BY <1>5, <3>1
        <4>2. i - Len(a) < j - Len(a)  BY <1>0, <1>7, <2>0
        <4> QED  BY <4>1, <4>2
      <3> QED  BY <1>7, <2>2, <3>2 DEF Pairs
    <2> QED  BY <1>5, <2>1, <2>2
  <1>8. \A R : Pairs(a, R) /\ Pairs(b, R)
               /\ (\A x \in Elems(a), y \in Elems(b) : <<x, y>> \in R) => Pairs(c, R)
    BY <1>7 DEF Pairs
  <1> QED  BY <1>0, <1>1, <1>3, <1>4, <1>6, <1>8 DEF c

\* A queue without its i-th transaction.
LEMMA RemoveIs ==
    ASSUME NEW list \in Seq(Req), Pairs(list, Rising), NEW i \in DOMAIN list
    PROVE  /\ RemoveAt(list, i) \in Seq(Req) /\ Pairs(RemoveAt(list, i), Rising)
           /\ Elems(RemoveAt(list, i)) = Elems(list) \ {list[i]}
  <1> DEFINE a == SubSeq(list, 1, i - 1)
             b == SubSeq(list, i + 1, Len(list))
             new == RemoveAt(list, i)
  <1>0. Len(list) \in Nat /\ DOMAIN list = 1..Len(list) /\ i \in 1..Len(list)
        /\ \A j \in DOMAIN list : list[j] \in Req
    BY LenProperties, ElementOfSeq
  <1>1. a \in Seq(Req) /\ Len(a) = i - 1 /\ DOMAIN a = 1..(i - 1) /\ \A j \in 1..(i - 1) : a[j] = list[j]
    <2>1. \A j \in 1..(i - 1) : list[j] \in Req  BY <1>0
    <2>2. /\ SubSeq(list, 1, i - 1) \in Seq(Req)
          /\ Len(SubSeq(list, 1, i - 1)) = IF 1 <= i - 1 THEN i - 1 - 1 + 1 ELSE 0
          /\ \A j \in 1 .. i - 1 - 1 + 1 : SubSeq(list, 1, i - 1)[j] = list[1 + j - 1]
      BY <1>0, <2>1, SubSeqProperties
    <2>3. a \in Seq(Req) /\ Len(a) = i - 1 /\ \A j \in 1..(i - 1) : a[j] = list[j]
      BY <1>0, <2>2
    <2> QED  BY <2>3, LenProperties
  <1>2. b \in Seq(Req) /\ Len(b) = Len(list) - i /\ DOMAIN b = 1..(Len(list) - i)
        /\ \A j \in 1..(Len(list) - i) : b[j] = list[i + j]
    <2>1. \A j \in (i + 1)..Len(list) : list[j] \in Req  BY <1>0
    <2>2. /\ SubSeq(list, i + 1, Len(list)) \in Seq(Req)
          /\ Len(SubSeq(list, i + 1, Len(list)))
               = IF i + 1 <= Len(list) THEN Len(list) - (i + 1) + 1 ELSE 0
          /\ \A j \in 1 .. Len(list) - (i + 1) + 1 :
               SubSeq(list, i + 1, Len(list))[j] = list[i + 1 + j - 1]
      BY <1>0, <2>1, SubSeqProperties
    <2>3. b \in Seq(Req) /\ Len(b) = Len(list) - i /\ \A j \in 1..(Len(list) - i) : b[j] = list[i + j]
      BY <1>0, <2>2
    <2> QED  BY <2>3, LenProperties
  <1>3. new = a \o b  BY DEF RemoveAt
  <1> HIDE DEF a, b
  <1>4. ASSUME NEW j \in DOMAIN list, NEW k \in DOMAIN list, j < k PROVE  list[j] # list[k]
    <2>1. <<list[j], list[k]>> \in Rising  BY <1>4 DEF Pairs
    <2>2. list[j] \in Nat /\ list[k] \in Nat /\ list[j] < list[k]  BY <2>1 DEF Rising
    <2> QED  BY <2>2
  <1>5. Elems(a) = {list[j] : j \in 1..(i - 1)}  BY <1>1 DEF Elems
  <1>6. Elems(b) = {list[j] : j \in (i + 1)..Len(list)}
    <2>1. ASSUME NEW j \in 1..(Len(list) - i)
          PROVE  b[j] = list[i + j] /\ i + j \in (i + 1)..Len(list)
      BY <1>0, <1>2
    <2>2. ASSUME NEW j \in (i + 1)..Len(list) PROVE  j - i \in DOMAIN b /\ b[j - i] = list[j]
      <3>1. j - i \in 1..(Len(list) - i) /\ i + (j - i) = j  BY <1>0
      <3>2. b[j - i] = list[i + (j - i)]  BY <1>2, <3>1
      <3> QED  BY <1>2, <3>1, <3>2
    <2>3. Elems(b) \subseteq {list[j] : j \in (i + 1)..Len(list)}  BY <1>2, <2>1 DEF Elems
    <2>4. \A j \in (i + 1)..Len(list) : list[j] \in Elems(b)  BY <2>2 DEF Elems
    <2> QED  BY <2>3, <2>4
  <1>7. Elems(a) \cup Elems(b) = Elems(list) \ {list[i]}
    <2>1. \A j \in 1..(i - 1) : j \in DOMAIN list /\ list[j] # list[i]
      <3>1. \A j \in 1..(i - 1) : j \in DOMAIN list /\ j < i  BY <1>0
      <3> QED  BY <1>0, <1>4, <3>1
    <2>2. \A j \in (i + 1)..Len(list) : j \in DOMAIN list /\ list[j] # list[i]
      <3>1. \A j \in (i + 1)..Len(list) : j \in DOMAIN list /\ i < j  BY <1>0
      <3> QED  BY <1>0, <1>4, <3>1
    <2>3. \A j \in DOMAIN list : j = i \/ j \in 1..(i - 1) \/ j \in (i + 1)..Len(list)  BY <1>0
    <2> QED  BY <1>5, <1>6, <2>1, <2>2, <2>3 DEF Elems
  <1>8. Pairs(a, Rising)
    <2>1. \A j, k \in DOMAIN a : j \in DOMAIN list /\ k \in DOMAIN list  BY <1>0, <1>1
    <2> QED  BY <1>1, <2>1 DEF Pairs
  <1>9. Pairs(b, Rising)
    <2>1. ASSUME NEW j \in DOMAIN b, NEW k \in DOMAIN b, j < k PROVE  <<b[j], b[k]>> \in Rising
      <3>1. i + j \in DOMAIN list /\ i + k \in DOMAIN list /\ i + j < i + k
            /\ b[j] = list[i + j] /\ b[k] = list[i + k]
        BY <1>0, <1>2, <2>1
      <3> QED  BY <3>1 DEF Pairs
    <2> QED  BY <2>1 DEF Pairs
  <1>10. \A x \in Elems(a), y \in Elems(b) : <<x, y>> \in Rising
    <2>1. ASSUME NEW j \in 1..(i - 1), NEW k \in (i + 1)..Len(list)
          PROVE  <<list[j], list[k]>> \in Rising
      <3>1. j \in DOMAIN list /\ k \in DOMAIN list /\ j < k  BY <1>0
      <3> QED  BY <3>1 DEF Pairs
    <2> QED  BY <1>5, <1>6, <2>1
  <1>11. new \in Seq(Req) /\ Elems(new) = Elems(a) \cup Elems(b)
         /\ (Pairs(a, Rising) /\ Pairs(b, Rising)
             /\ (\A x \in Elems(a), y \in Elems(b) : <<x, y>> \in Rising) => Pairs(new, Rising))
    BY <1>1, <1>2, <1>3, ConcatIs
  <1> QED  BY <1>7, <1>8, <1>9, <1>10, <1>11

\* A queue whose head is marked as issued.
Issue(list) == [list EXCEPT ![1].issued = TRUE]

\* Issuing the head leaves the other commands of a queue alone.
LEMMA IssueIs ==
    ASSUME NEW list \in Seq(Command), list # <<>>
    PROVE  /\ Issue(list) \in Seq(Command) /\ Len(Issue(list)) = Len(list) /\ Len(list) \in Nat
           /\ DOMAIN Issue(list) = DOMAIN list /\ DOMAIN list = 1..Len(list) /\ 1 \in DOMAIN list
           /\ Issue(list)[1] = [list[1] EXCEPT !.issued = TRUE]
           /\ Issue(list)[1] \in Command /\ list[1] \in Command
           /\ \A i \in DOMAIN list : i # 1 => Issue(list)[i] = list[i]
  <1>1. Len(list) \in Nat /\ Len(list) # 0 /\ DOMAIN list = 1..Len(list)
        /\ list \in [1..Len(list) -> Command]
    BY LenProperties, EmptySeq
  <1>2. 1 \in DOMAIN list /\ list[1] \in Command  BY <1>1
  <1>3. [list[1] EXCEPT !.issued = TRUE] \in Command  BY <1>2 DEF Command
  <1>4. Issue(list) \in [1..Len(list) -> Command]  BY <1>1, <1>3 DEF Issue
  <1>5. Issue(list) \in Seq(Command) /\ Len(Issue(list)) = Len(list)  BY <1>1, <1>4
  <1> QED  BY <1>1, <1>2, <1>3, <1>4, <1>5 DEF Issue

\* The commands that a cleanup leaves are the others, in their order.
LEMMA UnissuedIs ==
    ASSUME NEW list \in Seq(Command)
    PROVE  /\ Unissued(list) \in Seq(Command)
           /\ Elems(Unissued(list)) = {c \in Elems(list) : ~c.issued}
           /\ \A R : Pairs(list, R) => Pairs(Unissued(list), R)
  <1> DEFINE T == {i \in DOMAIN list : ~list[i].issued}
             kept == Ordered(T)
             new == Unissued(list)
  <1>1. Len(list) \in Nat /\ DOMAIN list = 1..Len(list) /\ \A i \in DOMAIN list : list[i] \in Command
    BY LenProperties, ElementOfSeq
  <1>2. T \in SUBSET Nat /\ IsFiniteSet(T) /\ T \in SUBSET DOMAIN list
    <2>1. IsFiniteSet(1..Len(list))  BY <1>1, FS_Interval
    <2>2. T \in SUBSET (1..Len(list))  BY <1>1
    <2> QED  BY <1>1, <2>1, <2>2, FS_Subset
  <1> HIDE DEF T
  <1>3. /\ kept \in Seq(T) /\ Len(kept) = Cardinality(T)
        /\ DOMAIN kept = 1..Cardinality(T) /\ Cardinality(T) \in Nat
        /\ \A k, l \in 1..Cardinality(T) : k < l => kept[k] < kept[l]
        /\ \A k \in 1..Cardinality(T) : kept[k] \in T
        /\ \A i \in T : \E k \in 1..Cardinality(T) : kept[k] = i
    BY <1>2, OrderedIs
  <1>4. new = [k \in DOMAIN kept |-> list[kept[k]]]  BY DEF Unissued, T
  <1> HIDE DEF kept, new
  <1>5. new \in Seq(Command) /\ DOMAIN new = 1..Cardinality(T)
        /\ \A k \in 1..Cardinality(T) : new[k] = list[kept[k]]
    <2>1. \A k \in 1..Cardinality(T) : list[kept[k]] \in Command  BY <1>1, <1>2, <1>3
    <2>2. new = [k \in 1..Cardinality(T) |-> list[kept[k]]]  BY <1>3, <1>4
    <2> QED  BY <1>3, <2>1, <2>2
  <1>6. Elems(new) = {c \in Elems(list) : ~c.issued}
    <2>1. ASSUME NEW k \in 1..Cardinality(T) PROVE  new[k] \in Elems(list) /\ ~new[k].issued
      BY <1>2, <1>3, <1>5 DEF Elems, T
    <2>2. ASSUME NEW i \in DOMAIN list, ~list[i].issued PROVE  list[i] \in Elems(new)
      <3>1. i \in T  BY <2>2 DEF T
      <3>2. PICK k \in 1..Cardinality(T) : kept[k] = i  BY <1>3, <3>1
      <3> QED  BY <1>5, <3>2 DEF Elems
    <2> QED  BY <1>5, <2>1, <2>2 DEF Elems
  <1>7. ASSUME NEW R, Pairs(list, R) PROVE  Pairs(new, R)
    <2>1. ASSUME NEW k \in 1..Cardinality(T), NEW l \in 1..Cardinality(T), k < l
          PROVE  <<new[k], new[l]>> \in R
      <3>1. kept[k] < kept[l] /\ kept[k] \in DOMAIN list /\ kept[l] \in DOMAIN list
        BY <1>2, <1>3, <2>1
      <3> QED  BY <1>5, <1>7, <3>1 DEF Pairs
    <2> QED  BY <1>5, <2>1 DEF Pairs
  <1> QED  BY <1>5, <1>6, <1>7 DEF new

-----------------------------------------------------------------------------
(* From stage to stage.                                                    *)

\* The stages depend on the four sets only.
LEMMA StagesKept ==
    ASSUME NEW s, NEW t, t.writes = s.writes, InStages(s), Elems(t.tq) = Elems(s.tq),
           SentSet(t) = SentSet(s), AnswerSet(t) = AnswerSet(s), t.served = s.served
    PROVE  InStages(t)
  BY SameOrder DEF InStages, NoOvertaking

\* What the order of two requests asks for.
Follows(s, q, x) ==
    /\ q \in Elems(s.tq) => x \in Elems(s.tq)
    /\ q \in SentSet(s) => x \in Elems(s.tq) \cup SentSet(s)
    /\ x \in s.served => q \in s.served

\* The scheduler takes the oldest of its row,
LEMMA Sends ==
    ASSUME NEW s, NEW t, t.writes = s.writes, InStages(s), NEW r \in Elems(s.tq),
           Elems(t.tq) = Elems(s.tq) \ {r}, SentSet(t) = SentSet(s) \cup {r},
           AnswerSet(t) = AnswerSet(s), t.served = s.served,
           \A q \in Elems(s.tq) : ~Precedes(s, q, r)
    PROVE  InStages(t)
  <1>1. /\ Stages(Elems(s.tq), SentSet(s), AnswerSet(s), s.served)
        /\ \A q, x \in Known : Precedes(s, q, x) => Follows(s, q, x)
    BY DEF InStages, NoOvertaking, Follows
  <1>2. Stages(Elems(t.tq), SentSet(t), AnswerSet(t), t.served)  BY <1>1 DEF Stages
  <1>3. \A q, x \in Known : Precedes(s, q, x) => Follows(t, q, x)  BY <1>1 DEF Follows
  <1> QED  BY <1>2, <1>3, SameOrder DEF InStages, NoOvertaking, Follows

\* which waits for no answer,
LEMMA NoneSent ==
    ASSUME NEW s, InStages(s), NEW r \in Elems(s.tq)
    PROVE  /\ r \in Known /\ r \notin SentSet(s) /\ r \notin AnswerSet(s) /\ r \notin s.served
           /\ \A q \in SentSet(s) : ~Precedes(s, r, q)
  <1>1. r \in Known /\ r \notin SentSet(s) /\ r \notin AnswerSet(s) /\ r \notin s.served
        /\ \A q \in SentSet(s) : q \in Known /\ q \notin Elems(s.tq)
    BY DEF InStages, Stages
  <1> QED  BY <1>1 DEF InStages, NoOvertaking

\* its bank reads it before others of the row,
LEMMA Answers ==
    ASSUME NEW s, NEW t, t.writes = s.writes, InStages(s), NEW r \in SentSet(s),
           Elems(t.tq) = Elems(s.tq), SentSet(t) = SentSet(s) \ {r},
           AnswerSet(t) = AnswerSet(s) \cup {r}, t.served = s.served,
           \A q \in SentSet(s) : ~Precedes(s, q, r)
    PROVE  InStages(t)
  <1>1. /\ Stages(Elems(s.tq), SentSet(s), AnswerSet(s), s.served)
        /\ \A q, x \in Known : Precedes(s, q, x) => Follows(s, q, x)
    BY DEF InStages, NoOvertaking, Follows
  <1>2. Stages(Elems(t.tq), SentSet(t), AnswerSet(t), t.served)  BY <1>1 DEF Stages
  <1>3. \A q, x \in Known : Precedes(s, q, x) => Follows(t, q, x)  BY <1>1 DEF Follows
  <1> QED  BY <1>2, <1>3, SameOrder DEF InStages, NoOvertaking, Follows

\* What is sent is not answered, nor is anything that has to follow it.
LEMMA NoneAnswered ==
    ASSUME NEW s, InStages(s), NEW r \in SentSet(s)
    PROVE  r \in Known /\ r \notin AnswerSet(s) /\ \A q \in AnswerSet(s) : ~Precedes(s, r, q)
  <1>1. r \in Known /\ r \notin AnswerSet(s)
        /\ \A q \in AnswerSet(s) : q \in Known /\ q \notin Elems(s.tq) /\ q \notin SentSet(s)
    BY DEF InStages, Stages
  <1> QED  BY <1>1 DEF InStages, NoOvertaking

\* and its answer comes first.
LEMMA Serves ==
    ASSUME NEW s, NEW t, t.writes = s.writes, InStages(s), NEW r \in AnswerSet(s),
           Elems(t.tq) = Elems(s.tq), SentSet(t) = SentSet(s),
           AnswerSet(t) = AnswerSet(s) \ {r}, t.served = s.served \cup {r},
           \A q \in AnswerSet(t) : ~Precedes(s, q, r)
    PROVE  InStages(t)
  <1>1. /\ Stages(Elems(s.tq), SentSet(s), AnswerSet(s), s.served)
        /\ \A q, x \in Known : Precedes(s, q, x) => Follows(s, q, x)
    BY DEF InStages, NoOvertaking, Follows
  <1>2. Stages(Elems(t.tq), SentSet(t), AnswerSet(t), t.served)  BY <1>1 DEF Stages
  <1>3. \A q, x \in Known : Precedes(s, q, x) => Follows(t, q, x)  BY <1>1 DEF Follows, Stages
  <1> QED  BY <1>2, <1>3, SameOrder DEF InStages, NoOvertaking, Follows

-----------------------------------------------------------------------------
(* The command queues.                                                     *)

\* The types of the fields.
LEMMA ChannelIs ==
    ASSUME NEW s \in Channel
    PROVE  /\ s.served \in SUBSET Req /\ s.arrived \in SUBSET Req /\ s.writes \in SUBSET Req
           /\ s.tq \in Seq(Req) /\ s.cq \in [Queues -> Seq(Command)]
           /\ s.activateQueued \in [Bank -> BOOLEAN]
           /\ s.effectiveRow \in [Bank \X SubArray -> 0..ROWS]
           /\ s.starvation \in [Bank \X SubArray -> Nat]
           /\ s.refreshQueued \in [Bank -> BOOLEAN] /\ s.refreshCounter \in [Groups -> Nat]
           /\ s.draining \in BOOLEAN /\ s.force_drain \in BOOLEAN /\ s.started \in BOOLEAN
           /\ s.issuedNow \in BOOLEAN /\ s.refreshedNow \in BOOLEAN
           /\ s.curQueue \in 0..commandQueueCount
           /\ s.active \in [Bank -> SUBSET SubArray]
           /\ s.array \in [Bank \X SubArray -> ArrayState] /\ s.calendar \in Calendar
  BY DEF Channel, Calendar

\* New commands go to the end of their queue.
Appended(s, t, new) == t.cq = [q \in Queues |-> s.cq[q] \o new[q]]

\* The requests that new commands read,
NewReads(new) == {r \in Known : \E q \in Queues : \E c \in Elems(new[q]) : Reading(c) /\ c.of = r}

\* which are sent from then on, behind those that were sent before.
LEMMA Appends ==
    ASSUME NEW s \in Channel, NEW t, t.writes = s.writes, CommandsFit(s), QueuesSorted(s),
           NEW new \in [Queues -> Seq(Command)], Appended(s, t, new),
           \A q \in Queues : Pairs(new[q], CommandPairs(s)),
           \A q \in Queues : \A c \in Elems(new[q]) :
               /\ CommandFits(q, c) /\ ~c.issued
               /\ Reading(c) => c.of \notin SentSet(s) /\ \A r \in SentSet(s) : ~Precedes(s, c.of, r)
    PROVE  /\ t.cq \in [Queues -> Seq(Command)] /\ CommandsFit(t)
           /\ \A q \in Queues : Pairs(t.cq[q], CommandPairs(t))
           /\ SentSet(t) = SentSet(s) \cup NewReads(new)
           /\ \A q \in Queues : Elems(t.cq[q]) = Elems(s.cq[q]) \cup Elems(new[q])
  <1>1. s.cq \in [Queues -> Seq(Command)]  BY ChannelIs
  <1>2. ASSUME NEW q \in Queues
        PROVE  /\ t.cq[q] = s.cq[q] \o new[q] /\ t.cq[q] \in Seq(Command)
               /\ Elems(t.cq[q]) = Elems(s.cq[q]) \cup Elems(new[q])
               /\ \A R : Pairs(s.cq[q], R) /\ Pairs(new[q], R)
                         /\ (\A x \in Elems(s.cq[q]), y \in Elems(new[q]) : <<x, y>> \in R)
                           => Pairs(t.cq[q], R)
    <2>1. t.cq[q] = s.cq[q] \o new[q] /\ s.cq[q] \in Seq(Command) /\ new[q] \in Seq(Command)
      BY <1>1 DEF Appended
    <2> QED  BY <2>1, ConcatIs
  <1>3. t.cq \in [Queues -> Seq(Command)]  BY <1>1 DEF Appended
  <1>4. CommandsFit(t)  BY <1>2 DEF CommandsFit
  <1>5. ASSUME NEW q \in Queues PROVE  Pairs(t.cq[q], CommandPairs(t))
    <2>1. CommandPairs(t) = CommandPairs(s)  BY SameOrder
    <2>2. ASSUME NEW x \in Elems(s.cq[q]), NEW y \in Elems(new[q])
          PROVE  <<x, y>> \in CommandPairs(s)
      <3>1. x \in Command /\ y \in Command  BY <1>1, ElemIs
      <3>2. ASSUME Reading(x), Reading(y) PROVE  x.of # y.of /\ ~Precedes(s, y.of, x.of)
        <4>1. x.of \in SentSet(s)  BY <3>2 DEF SentSet, CommandsFit, CommandFits, Reading
        <4> QED  BY <3>2, <4>1
      <3>3. ~y.issued  OBVIOUS
      <3> QED  BY <3>1, <3>2, <3>3 DEF CommandPairs
    <2>3. Pairs(s.cq[q], CommandPairs(s)) /\ Pairs(new[q], CommandPairs(s))  BY DEF QueuesSorted
    <2> QED  BY <1>2, <2>1, <2>2, <2>3
  <1>6. SentSet(t) = SentSet(s) \cup NewReads(new)  BY <1>2 DEF SentSet, NewReads
  <1> QED  BY <1>2, <1>3, <1>4, <1>5, <1>6

\* The head of queue x is issued: what it read is read by no other command.
LEMMA HeadIssues ==
    ASSUME NEW s \in Channel, NEW t, t.writes = s.writes, CommandsFit(s), QueuesSorted(s),
           NEW x \in Queues, s.cq[x] # <<>>, t.cq = [s.cq EXCEPT ![x] = Issue(@)],
           ~s.cq[x][1].issued, Submitted
    PROVE  LET c == s.cq[x][1]
           IN  /\ t.cq \in [Queues -> Seq(Command)] /\ CommandsFit(t)
               /\ \A q \in Queues : Pairs(t.cq[q], CommandPairs(t))
               /\ c \in Command /\ c \in Elems(s.cq[x]) /\ CommandFits(x, c)
               /\ ~Reading(c) => SentSet(t) = SentSet(s)
               /\ Reading(c) =>
                    /\ c.of \in SentSet(s) /\ SentSet(t) = SentSet(s) \ {c.of}
                    /\ \A r \in SentSet(s) : ~Precedes(s, r, c.of)
               /\ \A q \in Queues : \A d \in Elems(s.cq[q]) : d = c \/ d \in Elems(t.cq[q])
  <1> DEFINE c == s.cq[x][1]
             list == s.cq[x]
             new == t.cq[x]
  <1>1. s.cq \in [Queues -> Seq(Command)] /\ list \in Seq(Command)  BY ChannelIs
  <1>2. /\ Issue(list) \in Seq(Command) /\ Len(Issue(list)) = Len(list) /\ Len(list) \in Nat
        /\ DOMAIN Issue(list) = DOMAIN list /\ DOMAIN list = 1..Len(list) /\ 1 \in DOMAIN list
        /\ Issue(list)[1] = [list[1] EXCEPT !.issued = TRUE]
        /\ Issue(list)[1] \in Command /\ list[1] \in Command
        /\ \A i \in DOMAIN list : i # 1 => Issue(list)[i] = list[i]
    BY <1>1, IssueIs
  <1>3. /\ t.cq \in [Queues -> Seq(Command)] /\ new = Issue(list)
        /\ \A q \in Queues : q # x => t.cq[q] = s.cq[q]
    BY <1>1, <1>2
  <1>4. c \in Command /\ c \in Elems(list) /\ CommandFits(x, c)  BY <1>2 DEF Elems, CommandsFit
  <1> DEFINE d == [c EXCEPT !.issued = TRUE]
  <1>5. d \in Command /\ d.issued /\ d.op = c.op /\ d.of = c.of /\ d.at = c.at /\ new[1] = d
    BY <1>2, <1>3, <1>4 DEF Command
  <1> HIDE DEF d
  <1>6. CommandFits(x, d)  BY <1>4, <1>5 DEF CommandFits
  <1>7. \A e \in Elems(new) : e = d \/ e \in Elems(list)  BY <1>2, <1>3, <1>5 DEF Elems
  <1>8. CommandsFit(t)  BY <1>3, <1>6, <1>7 DEF CommandsFit
  <1>9. Pairs(new, CommandPairs(s))
    <2>1. ASSUME NEW i \in DOMAIN list, NEW j \in DOMAIN list, i < j
          PROVE  <<new[i], new[j]>> \in CommandPairs(s)
      <3>1. <<list[i], list[j]>> \in CommandPairs(s)  BY <2>1 DEF QueuesSorted, Pairs
      <3>2. j # 1 /\ new[j] = list[j]  BY <1>2, <1>3, <2>1
      <3>3. CASE i = 1  BY <1>5, <3>1, <3>2, <3>3 DEF CommandPairs, Reading
      <3>4. CASE i # 1  BY <1>2, <1>3, <3>1, <3>2, <3>4
      <3> QED  BY <3>3, <3>4
    <2> QED  BY <1>2, <1>3, <2>1 DEF Pairs
  <1>10. \A q \in Queues : Pairs(t.cq[q], CommandPairs(t))
    BY <1>3, <1>9, SameOrder DEF QueuesSorted
  <1>11. ASSUME NEW q \in Queues, NEW e \in Elems(s.cq[q]) PROVE  e = c \/ e \in Elems(t.cq[q])
    <2>1. CASE q = x
      <3>1. PICK i \in DOMAIN list : e = list[i]  BY <2>1, <1>11 DEF Elems
      <3>2. CASE i # 1  BY <1>2, <1>3, <2>1, <3>1, <3>2 DEF Elems
      <3> QED  BY <3>1, <3>2
    <2>2. CASE q # x  BY <1>3, <1>11, <2>2
    <2> QED  BY <2>1, <2>2
  <1>12. \A q \in Queues : \A e \in Elems(t.cq[q]) : Reading(e) => e \in Elems(s.cq[q])
    BY <1>3, <1>5, <1>7 DEF Reading
  <1>13. CASE ~Reading(c)
    <2>1. SentSet(t) = SentSet(s)  BY <1>11, <1>12, <1>13 DEF SentSet
    <2> QED  BY <1>3, <1>4, <1>8, <1>10, <1>11, <1>13, <2>1
  <1>14. CASE Reading(c)
    <2>1. c.of \in SentSet(s) /\ c.at = address[c.of] /\ c.of \in Known
      BY <1>4, <1>14 DEF SentSet, CommandFits, Reading
    <2>2. ASSUME NEW q \in Queues, NEW e \in Elems(s.cq[q]), Reading(e),
                 q # x \/ \E i \in DOMAIN list : i # 1 /\ e = list[i]
          PROVE  e.of # c.of /\ ~Precedes(s, e.of, c.of)
      <3>0. CommandFits(q, e) /\ e.of \in Known /\ e.at = address[e.of]
        BY <2>2 DEF CommandsFit, CommandFits, Reading
      <3>1. CASE q # x
        <4>1. e.at # c.at  BY <1>4, <3>0, <3>1 DEF CommandFits
        <4> QED  BY <2>1, <3>0, <4>1 DEF Precedes
      <3>2. CASE q = x /\ \E i \in DOMAIN list : i # 1 /\ e = list[i]
        <4>1. PICK i \in DOMAIN list : i # 1 /\ e = list[i]  BY <3>2
        <4>2. 1 < i  BY <1>2, <4>1
        <4>3. <<c, e>> \in CommandPairs(s)  BY <1>2, <4>1, <4>2 DEF QueuesSorted, Pairs
        <4> QED  BY <1>14, <2>2, <4>3 DEF CommandPairs
      <3> QED  BY <2>2, <3>1, <3>2
    <2>3. ASSUME NEW r \in SentSet(t) PROVE  r \in SentSet(s) /\ r # c.of
      <3>1. PICK q \in Queues : \E e \in Elems(t.cq[q]) : Reading(e) /\ e.of = r  BY DEF SentSet
      <3>2. PICK e \in Elems(t.cq[q]) : Reading(e) /\ e.of = r  BY <3>1
      <3>3. e \in Elems(s.cq[q])  BY <1>12, <3>2
      <3>4. q # x \/ \E i \in DOMAIN list : i # 1 /\ e = list[i]
        <4>1. ASSUME q = x PROVE  \E i \in DOMAIN list : i # 1 /\ e = list[i]
          <5>1. PICK i \in DOMAIN list : e = new[i]  BY <1>2, <1>3, <4>1 DEF Elems
          <5>2. i # 1  BY <1>5, <3>2, <5>1 DEF Reading
          <5> QED  BY <1>2, <1>3, <5>1, <5>2
        <4> QED  BY <4>1
      <3> QED  BY <2>2, <3>2, <3>3, <3>4 DEF SentSet
    <2>4. ASSUME NEW r \in SentSet(s)
          PROVE  ~Precedes(s, r, c.of) /\ (r # c.of => r \in SentSet(t))
      <3>1. PICK q \in Queues : \E e \in Elems(s.cq[q]) : Reading(e) /\ e.of = r  BY DEF SentSet
      <3>2. PICK e \in Elems(s.cq[q]) : Reading(e) /\ e.of = r  BY <3>1
      <3>3. CASE r = c.of
        <4>1. ~Precedes(s, r, c.of)  BY <2>1, <3>3 DEF Precedes, Known
        <4> QED  BY <3>3, <4>1
      <3>4. CASE r # c.of
        <4>1. e # c  BY <3>2, <3>4
        <4>2. q # x \/ \E i \in DOMAIN list : i # 1 /\ e = list[i]  BY <4>1 DEF Elems
        <4>3. ~Precedes(s, r, c.of)  BY <2>2, <3>2, <4>2
        <4>4. e \in Elems(t.cq[q])  BY <1>11, <4>1
        <4> QED  BY <3>2, <4>3, <4>4 DEF SentSet
      <3> QED  BY <3>3, <3>4
    <2>5. SentSet(t) = SentSet(s) \ {c.of}  BY <2>3, <2>4
    <2> QED  BY <1>3, <1>4, <1>8, <1>10, <1>11, <1>14, <2>1, <2>4, <2>5
  <1> QED  BY <1>13, <1>14

-----------------------------------------------------------------------------
(* Waking up.                                                              *)

\* Banks and calendar may change when the responses stay.
LEMMA GoodKept ==
    ASSUME NEW s, NEW t \in Channel, Good(s), t.served = s.served, t.arrived = s.arrived,
           t.writes = s.writes, t.tq = s.tq, t.cq = s.cq, t.refreshCounter = s.refreshCounter,
           \A b \in Bank : t.refreshQueued[b] => s.refreshQueued[b],
           AnswersSorted(t), AnswerSet(t) = AnswerSet(s)
    PROVE  Good(t)
  <1>1. SentSet(t) = SentSet(s)  BY DEF SentSet
  <1>2. InStages(t)  BY <1>1, StagesKept DEF Good
  <1>3. Arrivals(t) /\ CommandsFit(t)  BY DEF Good, Arrivals, CommandsFit
  <1>4. QueuesSorted(t)  BY SameOrder DEF Good, QueuesSorted
  <1>5. Refreshes(t)  BY DEF Good, Refreshes
  <1> QED  BY <1>2, <1>3, <1>4, <1>5 DEF Good

\* An event that calls the controller or the scheduler is inserted, or none.
Nudges(s, t) ==
    \/ t = s
    \/ /\ t = [s EXCEPT !.calendar = t.calendar]
       /\ \E when \in 0..Horizon, priority \in Nat, e \in Event : \E n :
            /\ e.kind \in {"Cycle", "CommandQueueCallback"}
            /\ Inserted(s.calendar, when, <<e>>, priority, n, t.calendar)

\* An event that wakes the controller changes nothing else.
LEMMA NudgeKeeps ==
    ASSUME NEW s, NEW t, Good(s), Nudges(s, t)
    PROVE  /\ Good(t) /\ (Cleaned(s) => Cleaned(t))
           /\ Cleans(s.calendar[0]) => Cleans(t.calendar[0])
  <1>0. s \in Channel /\ s.calendar \in Calendar /\ AnswersSorted(s) /\ 1 \in 0..Horizon
    BY ChannelIs, Numbers DEF Good
  <1>1. CASE t = s  BY <1>1
  <1>2. CASE t # s
    <2>1. /\ t = [s EXCEPT !.calendar = t.calendar]
          /\ \E when \in 0..Horizon, priority \in Nat, e \in Event : \E n :
               /\ e.kind \in {"Cycle", "CommandQueueCallback"}
               /\ Inserted(s.calendar, when, <<e>>, priority, n, t.calendar)
      BY <1>2 DEF Nudges
    <2>2. PICK when \in 0..Horizon, priority \in Nat, e \in Event : \E n :
               /\ e.kind \in {"Cycle", "CommandQueueCallback"}
               /\ Inserted(s.calendar, when, <<e>>, priority, n, t.calendar)
      BY <2>1
    <2>3. PICK n : /\ e.kind \in {"Cycle", "CommandQueueCallback"}
                   /\ Inserted(s.calendar, when, <<e>>, priority, n, t.calendar)
      BY <2>2
    <2>4. <<e>> \in Seq(Event) /\ Elems(<<e>>) = {e}  BY DEF Elems
    <2>5. /\ t.served = s.served /\ t.arrived = s.arrived /\ t.writes = s.writes
          /\ t.tq = s.tq /\ t.cq = s.cq /\ t.refreshCounter = s.refreshCounter
          /\ t.refreshQueued = s.refreshQueued /\ t.issuedNow = s.issuedNow
      BY <1>0, <2>1 DEF Channel
    <2>6. /\ t.calendar \in Calendar /\ AnswersSorted(t) /\ AnswerSet(t) = AnswerSet(s)
          /\ \A i \in 0..Horizon : Cleans(s.calendar[i]) => Cleans(t.calendar[i])
      <3>1. \A f \in Elems(<<e>>) : f.kind \notin {"response", "CleanupCallback"}  BY <2>3, <2>4
      <3> QED  BY <1>0, <2>3, <2>4, <2>5, <3>1, QuietInserts
    <2>7. t \in Channel  BY ZenonT(60), <1>0, <2>1, <2>6 DEF Channel, Calendar
    <2>8. Good(t)  BY <2>5, <2>6, <2>7, GoodKept
    <2>9. Cleaned(s) => Cleaned(t)  BY <1>0, <2>5, <2>6 DEF Cleaned
    <2> QED  BY <2>6, <2>8, <2>9, Numbers
  <1> QED  BY <1>1, <1>2

\* A wake is for a cycle of the calendar.
LEMMA NextIssuableIs ==
    ASSUME Submitted, NEW s \in Channel
    PROVE  /\ NextIssuable(s) = Never \/ NextIssuable(s) \in 0..Horizon
           /\ (\E b \in Bank : s.cq[GetCommandQueueId(b, 0)] # <<>>)
                => NextIssuable(s) \in 0..Horizon /\ NextIssuable(s) # Never
  <1> DEFINE queued == {q \in {GetCommandQueueId(b, 0) : b \in Bank} : s.cq[q] # <<>>}
             times == {NextIssuableOf(s, s.cq[q][1]) : q \in queued}
             least == CHOOSE t \in times : \A u \in times : t <= u
  <1>1. ASSUME NEW q \in queued PROVE  NextIssuableOf(s, s.cq[q][1]) \in 0..Horizon
    <2>1. q \in Queues /\ s.cq[q] \in Seq(Command) /\ s.cq[q] # <<>>
      <3>1. p \in Params /\ 0 \in SubArray  BY Sizes DEF Submitted
      <3>2. PICK b \in Bank : q = GetCommandQueueId(b, 0)  OBVIOUS
      <3>3. q \in Queues  BY <3>1, <3>2, QueuesAre
      <3> QED  BY <3>3, ChannelIs
    <2>2. s.cq[q][1] \in Command  BY <2>1, TailIs
    <2> DEFINE c == s.cq[q][1]
    <2>3. At(c.at) \in Bank \X SubArray  BY <2>2 DEF Command, At
    <2>4. s.array[At(c.at)] \in ArrayState  BY <2>3, ChannelIs
    <2> HIDE DEF c
    <2>5. NextIssuableOf(s, c) \in 0..Horizon  BY <2>4, Numbers DEF NextIssuableOf, ArrayState
    <2> QED  BY <2>5 DEF c
  <1>2. CASE queued # {}
    <2>1. times \in SUBSET Nat /\ times # {} /\ \A t \in times : t \in 0..Horizon
      BY <1>1, <1>2, Numbers
    <2>2. least \in times
      <3> HIDE DEF times
      <3>1. \E t \in times : \A u \in times : t <= u  BY <2>1, LeastIn
      <3> QED  BY <3>1
    <2>3. NextIssuable(s) = MAX(1, least)  BY <1>2 DEF NextIssuable
    <2>4. least \in 0..Horizon  BY <2>1, <2>2
    <2> HIDE DEF least
    <2>5. NextIssuable(s) \in 0..Horizon /\ NextIssuable(s) # Never
      BY <2>3, <2>4, Numbers DEF MAX, Never
    <2> QED  BY <2>5
  <1>3. CASE queued = {}
    <2>1. NextIssuable(s) = Never  BY <1>3 DEF NextIssuable
    <2>2. ~\E b \in Bank : s.cq[GetCommandQueueId(b, 0)] # <<>>  BY <1>3
    <2> QED  BY <2>1, <2>2
  <1> QED  BY <1>2, <1>3

\* ScheduleCommandWake wakes the controller at most,
LEMMA WakeNudges ==
    ASSUME Submitted, NEW s \in Channel
    PROVE  Nudges(s, ScheduleCommandWake(s))
  <1> DEFINE t == ScheduleCommandWake(s)
             when == NextIssuable(s)
             e == Callback("CommandQueueCallback", None, commandQueuePriority)
  <1>1. CASE when = Never \/ Scheduled(s.calendar, "CommandQueueCallback", when)
    <2>1. t = s  BY <1>1 DEF ScheduleCommandWake
    <2> QED  BY <2>1 DEF Nudges
  <1>2. CASE ~(when = Never \/ Scheduled(s.calendar, "CommandQueueCallback", when))
    <2>1. t = [s EXCEPT !.calendar = InsertCallback(@, "CommandQueueCallback", None, when,
                                                    commandQueuePriority)]
      BY <1>2 DEF ScheduleCommandWake
    <2>2. when \in 0..Horizon  BY <1>2, NextIssuableIs
    <2>3. e \in Event /\ e.kind = "CommandQueueCallback" /\ commandQueuePriority \in Nat
      BY DEF Event, Callback, commandQueuePriority
    <2> HIDE DEF when, t
    <2>4. t.calendar = [s.calendar EXCEPT ![when] = Place(@, <<e>>, commandQueuePriority)]
      BY <2>1 DEF InsertCallback, Channel
    <2>5. PICK n \in 0..Len(s.calendar[when]) :
             Inserted(s.calendar, when, <<e>>, commandQueuePriority, n, t.calendar)
      <3>1. s.calendar \in Calendar /\ <<e>> \in Seq(Event) /\ commandQueuePriority \in Int
        BY <2>3, ChannelIs
      <3> HIDE DEF e
      <3> QED  BY <2>2, <2>4, <3>1, InsertedIs
    <2>6. t = [s EXCEPT !.calendar = t.calendar]  BY <2>1, <2>4 DEF Channel
    <2> HIDE DEF e
    <2>7. Nudges(s, t)
      <3>1. \E m : /\ e.kind \in {"Cycle", "CommandQueueCallback"}
                   /\ Inserted(s.calendar, when, <<e>>, commandQueuePriority, m, t.calendar)
        BY <2>3, <2>5
      <3> QED  BY <2>2, <2>3, <2>6, <3>1, Zenon DEF Nudges
    <2> QED  BY <2>7 DEF t
  <1> QED  BY <1>1, <1>2

\* as an event that calls the scheduler does,
LEMMA CycleNudges ==
    ASSUME NEW s \in Channel, NEW t, NEW when \in 0..Horizon,
           t = [s EXCEPT !.calendar =
                   InsertEvent(@, "Cycle", None, when, transactionQueuePriority)]
    PROVE  Nudges(s, t)
  <1> DEFINE e == TypedEvent("Cycle", None)
  <1>1. e \in Event /\ e.kind = "Cycle" /\ transactionQueuePriority \in Nat
    BY DEF Event, TypedEvent, StoredDefault, transactionQueuePriority
  <1>2. t.calendar = InsertEvent(s.calendar, "Cycle", None, when, transactionQueuePriority)
    BY DEF Channel
  <1>3. PICK n \in 0..Len(s.calendar[when]) :
           Inserted(s.calendar, when, <<e>>, transactionQueuePriority, n, t.calendar)
    <2>1. s.calendar \in Calendar /\ e = TypedEvent("Cycle", None)  BY ChannelIs
    <2> HIDE DEF e
    <2> QED  BY <1>1, <1>2, <2>1, TypedInserts
  <1>4. t = [s EXCEPT !.calendar = t.calendar]  BY <1>2 DEF Channel
  <1> HIDE DEF e
  <1>5. \E m : /\ e.kind \in {"Cycle", "CommandQueueCallback"}
               /\ Inserted(s.calendar, when, <<e>>, transactionQueuePriority, m, t.calendar)
    BY <1>1, <1>3
  <1> QED  BY <1>1, <1>4, <1>5, Zenon DEF Nudges

\* and the look at what may be scheduled next.
LEMMA RecheckNudges ==
    ASSUME NEW s \in Channel
    PROVE  Nudges(s, Recheck(s))
  <1>1. \/ Recheck(s) = s
        \/ Recheck(s) = [s EXCEPT !.calendar =
                            InsertEvent(@, "Cycle", None, 1, transactionQueuePriority)]
    BY DEF Recheck
  <1>2. CASE Recheck(s) = s  BY <1>2 DEF Nudges
  <1>3. CASE Recheck(s) = [s EXCEPT !.calendar =
                              InsertEvent(@, "Cycle", None, 1, transactionQueuePriority)]
    BY <1>3, Numbers, CycleNudges
  <1> QED  BY <1>1, <1>2, <1>3

-----------------------------------------------------------------------------
(* Issuing.                                                                *)

\* Events about subarrays that close.
LEMMA ClosingsInsert ==
    ASSUME NEW s, s.calendar \in Calendar, NEW kind \in Closings, NEW whats \in Seq(Bank \X SubArray),
           NEW when \in 0..Horizon, NEW new, new = InsertEvents(s.calendar, kind, whats, when, 0)
    PROVE  \E n : \E block \in Seq(Event) :
             /\ Inserted(s.calendar, when, block, 0, n, new)
             /\ Len(block) = Len(whats) /\ DOMAIN block = DOMAIN whats
             /\ \A i \in DOMAIN whats : block[i].kind = kind /\ block[i].what = whats[i]
             /\ \A e \in Elems(block) : e.kind = kind /\ e.what \in Elems(whats)
  <1> DEFINE block == [i \in DOMAIN whats |-> TypedEvent(kind, whats[i])]
  <1>1. Len(whats) \in Nat /\ DOMAIN whats = 1..Len(whats)
        /\ \A i \in DOMAIN whats : whats[i] \in Bank \X SubArray
    BY LenProperties, ElementOfSeq
  <1>2. \A i \in DOMAIN whats : TypedEvent(kind, whats[i]) \in Event
    BY <1>1 DEF TypedEvent, Event, StoredDefault
  <1>3. block \in Seq(Event) /\ Len(block) = Len(whats) /\ DOMAIN block = DOMAIN whats
    BY <1>1, <1>2
  <1>4. \A i \in DOMAIN whats : block[i].kind = kind /\ block[i].what = whats[i]
    BY DEF TypedEvent
  <1>5. new = [s.calendar EXCEPT ![when] = Place(@, block, 0)]  BY DEF InsertEvents
  <1> HIDE DEF block
  <1>6. \A e \in Elems(block) : e.kind = kind /\ e.what \in Elems(whats)
    BY <1>3, <1>4 DEF Elems
  <1>7. \E n \in 0..Len(s.calendar[when]) : Inserted(s.calendar, when, block, 0, n, new)
    BY <1>3, <1>5, InsertedIs
  <1> QED  BY <1>3, <1>4, <1>6, <1>7

\* An event of one subarray,
LEMMA OneClosing ==
    ASSUME NEW calendar, NEW kind, NEW what, NEW when, NEW priority
    PROVE  InsertEvent(calendar, kind, what, when, priority)
             = InsertEvents(calendar, kind, <<what>>, when, priority)
  BY DEF InsertEvent

\* or of several, leaves the responses alone.
LEMMA ClosingsKeep ==
    ASSUME NEW s, NEW t, t.writes = s.writes, s.calendar \in Calendar, AnswersSorted(s),
           NEW kind \in Closings, NEW whats \in Seq(Bank \X SubArray),
           NEW when \in 0..Horizon, t.calendar = InsertEvents(s.calendar, kind, whats, when, 0)
    PROVE  /\ t.calendar \in Calendar /\ AnswersSorted(t) /\ AnswerSet(t) = AnswerSet(s)
           /\ \A i \in 0..Horizon : Cleans(s.calendar[i]) => Cleans(t.calendar[i])
  <1>1. PICK n : \E block \in Seq(Event) :
             /\ Inserted(s.calendar, when, block, 0, n, t.calendar)
             /\ Len(block) = Len(whats) /\ DOMAIN block = DOMAIN whats
             /\ \A i \in DOMAIN whats : block[i].kind = kind /\ block[i].what = whats[i]
             /\ \A e \in Elems(block) : e.kind = kind /\ e.what \in Elems(whats)
    BY ClosingsInsert
  <1>2. PICK block \in Seq(Event) :
             /\ Inserted(s.calendar, when, block, 0, n, t.calendar)
             /\ \A e \in Elems(block) : e.kind = kind /\ e.what \in Elems(whats)
    BY <1>1
  <1>3. \A e \in Elems(block) : e.kind \notin {"response", "CleanupCallback"}
    BY <1>2 DEF Closings
  <1>4. 0 \in Nat  OBVIOUS
  <1> QED  BY <1>2, <1>3, <1>4, QuietInserts

\* A response is inserted behind those it has to follow: they are no later than tCAS from now.
LEMMA ReadKeeps ==
    ASSUME NEW s, NEW t, t.writes = s.writes, s.calendar \in Calendar, AnswersSorted(s),
           NEW r \in Known, r \in Req, r \notin AnswerSet(s),
           \A q \in AnswerSet(s) : ~Precedes(s, r, q),
           t.calendar = InsertEvent(s.calendar, "response", r, tCAS, 0)
    PROVE  /\ t.calendar \in Calendar /\ AnswersSorted(t) /\ AnswerSet(t) = AnswerSet(s) \cup {r}
           /\ \A i \in 0..Horizon : Cleans(s.calendar[i]) => Cleans(t.calendar[i])
  <1> DEFINE e == TypedEvent("response", r)
  <1>1. e \in Event /\ e = TypedEvent("response", r)  BY DEF TypedEvent, Event, StoredDefault
  <1>2. PICK n \in 0..Len(s.calendar[tCAS]) : Inserted(s.calendar, tCAS, <<e>>, 0, n, t.calendar)
    <2> HIDE DEF e
    <2> QED  BY <1>1, Numbers, TypedInserts
  <1> QED  BY <1>2, ResponseInserts

\* Nothing but the banks and the calendar changes.
BanksOnly(s, t) == t = [s EXCEPT !.array = t.array, !.active = t.active, !.calendar = t.calendar]

\* What the banks do with an ACTIVATE,
LEMMA ActivateIs ==
    ASSUME NEW s \in Channel, NEW c \in Command, NEW t, t = Activate(s, c), c.at.row \in 0..ROWS
    PROVE  /\ t \in Channel /\ t.calendar = s.calendar
           /\ BanksOnly(s, t)
  <1>1. At(c.at) \in Bank \X SubArray /\ c.at.bank \in Bank /\ c.at.sa \in SubArray
    BY DEF Command, At
  <1>2. s.array \in [Bank \X SubArray -> ArrayState] /\ s.active \in [Bank -> SUBSET SubArray]
    BY ChannelIs
  <1>3. /\ t.array = [s.array EXCEPT ![At(c.at)] = Opened(@, c.at.row)]
        /\ t.active = [s.active EXCEPT ![c.at.bank] = @ \cup {c.at.sa}]
        /\ t = [s EXCEPT !.array = t.array, !.active = t.active]
    BY DEF Activate, Channel
  <1>4. t.array \in [Bank \X SubArray -> ArrayState]
    <2>1. s.array[At(c.at)] \in ArrayState  BY <1>1, <1>2
    <2>2. \A n \in 0..Horizon : MAX(n, MAX(tRCD, tRAS)) \in 0..Horizon /\ MAX(n, tRCD) \in 0..Horizon
      BY Numbers DEF MAX
    <2>3. Opened(s.array[At(c.at)], c.at.row) \in ArrayState
      BY <2>1, <2>2 DEF ArrayState, Opened
    <2> QED  BY <1>2, <1>3, <2>3
  <1>5. t.active \in [Bank -> SUBSET SubArray]  BY <1>1, <1>2, <1>3
  <1>6. t \in Channel /\ t.calendar = s.calendar
        /\ BanksOnly(s, t)
    BY ZenonT(60), <1>3, <1>4, <1>5 DEF Channel, BanksOnly
  <1> QED  BY <1>6

\* with a READ or READ_PRECHARGE,
LEMMA ReadIs ==
    ASSUME NEW s \in Channel, NEW c \in Command, NEW t, t = Read(s, c)
    PROVE  /\ t.array \in [Bank \X SubArray -> ArrayState] /\ t.active \in [Bank -> SUBSET SubArray]
           /\ BanksOnly(s, t)
           /\ c.op = "READ_PRECHARGE" =>
                /\ t.array = [s.array EXCEPT ![At(c.at)] = HasReadAndCloses(@)]
                /\ t.active = [s.active EXCEPT ![c.at.bank] = @ \ {c.at.sa}]
                /\ t.calendar = InsertEvent(
                       InsertEvent(s.calendar, "implicitPrecharge", At(c.at), tRTP, 0),
                       "response", c.of, tCAS, 0)
           /\ c.op # "READ_PRECHARGE" =>
                /\ t.array = [s.array EXCEPT ![At(c.at)] = HasRead(@)]
                /\ t.active = s.active
                /\ t.calendar = InsertEvent(s.calendar, "response", c.of, tCAS, 0)
  <1>1. At(c.at) \in Bank \X SubArray /\ c.at.bank \in Bank /\ c.at.sa \in SubArray
    BY DEF Command, At
  <1>2. s.array \in [Bank \X SubArray -> ArrayState] /\ s.active \in [Bank -> SUBSET SubArray]
    BY ChannelIs
  <1>3. s.array[At(c.at)] \in ArrayState  BY <1>1, <1>2
  <1>4. \A n \in 0..Horizon : /\ MAX(n, tRTP) \in 0..Horizon /\ MAX(n, tCCD) \in 0..Horizon
                             /\ MAX(n, tRTP + tRP) \in 0..Horizon
                             /\ \A m \in 0..Horizon : MAX(n, m) \in 0..Horizon
    <2>1. tRTP + tRP \in 0..Horizon  BY ConfigAssumption, Numbers DEF ConfigAssumption
    <2> QED  BY <2>1, Numbers DEF MAX
  <1>5. CASE c.op = "READ_PRECHARGE"
    <2>1. /\ t.array = [s.array EXCEPT ![At(c.at)] = HasReadAndCloses(@)]
          /\ t.active = [s.active EXCEPT ![c.at.bank] = @ \ {c.at.sa}]
          /\ t.calendar = InsertEvent(
                 InsertEvent(s.calendar, "implicitPrecharge", At(c.at), tRTP, 0),
                 "response", c.of, tCAS, 0)
          /\ BanksOnly(s, t)
      BY <1>5 DEF Read, Channel, BanksOnly
    <2>2. HasReadAndCloses(s.array[At(c.at)]) \in ArrayState
      <3>1. MAX(s.array[At(c.at)].nextActivate, tRTP + tRP) \in 0..Horizon
        BY <1>3, <1>4 DEF ArrayState
      <3> QED  BY <1>3, <1>4, <3>1 DEF ArrayState, HasReadAndCloses
    <2>3. t.array \in [Bank \X SubArray -> ArrayState] /\ t.active \in [Bank -> SUBSET SubArray]
      BY <1>1, <1>2, <2>1, <2>2
    <2> QED  BY <1>5, <2>1, <2>3
  <1>6. CASE c.op # "READ_PRECHARGE"
    <2>1. /\ t.array = [s.array EXCEPT ![At(c.at)] = HasRead(@)]
          /\ t.active = s.active
          /\ t.calendar = InsertEvent(s.calendar, "response", c.of, tCAS, 0)
          /\ BanksOnly(s, t)
      BY <1>6 DEF Read, Channel, BanksOnly
    <2>2. HasRead(s.array[At(c.at)]) \in ArrayState  BY <1>3, <1>4 DEF ArrayState, HasRead
    <2>3. t.array \in [Bank \X SubArray -> ArrayState] /\ t.active \in [Bank -> SUBSET SubArray]
      BY <1>1, <1>2, <2>1, <2>2
    <2> QED  BY <1>6, <2>1, <2>3
  <1> QED  BY <1>5, <1>6

\* An event of a kind for each of some subarrays.
Queued(s, t, kind, places, when) ==
    \E whats \in Seq(Bank \X SubArray) :
        /\ t.calendar = InsertEvents(s.calendar, kind, whats, when, 0)
        /\ Elems(whats) = places
        /\ \A i, j \in DOMAIN whats : i < j => whats[i] # whats[j]

\* with a PRECHARGE of some subarrays,
LEMMA PrechargeIs ==
    ASSUME NEW s \in Channel, NEW b \in Bank, NEW closing \in SUBSET SubArray, NEW t,
           t = Precharge(s, b, closing)
    PROVE  /\ t.array \in [Bank \X SubArray -> ArrayState] /\ t.active \in [Bank -> SUBSET SubArray]
           /\ BanksOnly(s, t)
           /\ \A a \in Bank \X SubArray :
                /\ (a[1] = b /\ a[2] \in closing) => t.array[a] = Closing(s.array[a])
                /\ ~(a[1] = b /\ a[2] \in closing) => t.array[a] = s.array[a]
           /\ t.active = [s.active EXCEPT ![b] = @ \ closing]
           /\ MAX(1, tRP) \in 1..Horizon
           /\ Queued(s, t, "closed", {b} \X closing, MAX(1, tRP))
  <1> DEFINE whats == [k \in DOMAIN Ordered(closing) |-> <<b, Ordered(closing)[k]>>]
  <1>1. s.array \in [Bank \X SubArray -> ArrayState] /\ s.active \in [Bank -> SUBSET SubArray]
    BY ChannelIs
  <1>2. /\ t.array = [a \in Bank \X SubArray |->
                        IF a[1] = b /\ a[2] \in closing THEN Closing(s.array[a]) ELSE s.array[a]]
        /\ t.active = [s.active EXCEPT ![b] = @ \ closing]
        /\ t.calendar = InsertEvents(s.calendar, "closed", whats, MAX(1, tRP), 0)
        /\ BanksOnly(s, t)
    BY DEF Precharge, Channel, BanksOnly
  <1>3. MAX(1, tRP) \in 1..Horizon  BY Numbers DEF MAX
  <1>4. \A h \in ArrayState : Closing(h) \in ArrayState
    <2>1. \A n \in 0..Horizon : MAX(n, MAX(1, tRP)) \in 0..Horizon  BY <1>3, Numbers DEF MAX
    <2> QED  BY <2>1 DEF ArrayState, Closing
  <1>5. t.array \in [Bank \X SubArray -> ArrayState] /\ t.active \in [Bank -> SUBSET SubArray]
    BY <1>1, <1>2, <1>4
  <1>6. closing \in SUBSET Nat /\ IsFiniteSet(closing)
    <2>1. IsFiniteSet(SubArray) /\ SubArray \subseteq Nat  BY Sizes
    <2>2. IsFiniteSet(closing)  BY <2>1, FS_Subset
    <2> QED  BY <2>1, <2>2
  <1>7. /\ Ordered(closing) \in Seq(closing) /\ DOMAIN Ordered(closing) = 1..Cardinality(closing)
        /\ Cardinality(closing) \in Nat
        /\ \A k, l \in 1..Cardinality(closing) : k < l => Ordered(closing)[k] < Ordered(closing)[l]
        /\ \A k \in 1..Cardinality(closing) : Ordered(closing)[k] \in closing
        /\ \A i \in closing : \E k \in 1..Cardinality(closing) : Ordered(closing)[k] = i
    BY <1>6, OrderedIs
  <1>8. /\ whats \in Seq(Bank \X SubArray) /\ DOMAIN whats = 1..Cardinality(closing)
        /\ \A k \in 1..Cardinality(closing) : whats[k] = <<b, Ordered(closing)[k]>>
    BY <1>7
  <1>9. Elems(whats) = {b} \X closing
    <2> HIDE DEF whats
    <2>1. \A k \in 1..Cardinality(closing) :
            whats[k] \in {b} \X closing
      BY <1>7, <1>8
    <2>2. ASSUME NEW a \in {b} \X closing PROVE  a \in Elems(whats)
      <3>1. PICK k \in 1..Cardinality(closing) : Ordered(closing)[k] = a[2]  BY <1>7, <2>2
      <3>2. whats[k] = a  BY <1>8, <2>2, <3>1
      <3> QED  BY <1>8, <3>2 DEF Elems
    <2> QED  BY <1>8, <2>1, <2>2 DEF Elems
  <1>10. ASSUME NEW i \in DOMAIN whats, NEW j \in DOMAIN whats, i < j PROVE  whats[i] # whats[j]
    <2>1. Ordered(closing)[i] < Ordered(closing)[j] /\ Ordered(closing)[i] \in Nat
          /\ Ordered(closing)[j] \in Nat
      BY <1>6, <1>7, <1>8, <1>10
    <2>2. whats[i] = <<b, Ordered(closing)[i]>> /\ whats[j] = <<b, Ordered(closing)[j]>>
      BY <1>8
    <2> QED  BY <2>1, <2>2
  <1> HIDE DEF whats
  <1>11. Queued(s, t, "closed", {b} \X closing, MAX(1, tRP))
    BY <1>2, <1>8, <1>9, <1>10 DEF Queued
  <1> QED  BY <1>2, <1>3, <1>5, <1>11

\* and with a REFRESH.
LEMMA RefreshIs ==
    ASSUME NEW s \in Channel, NEW group \in SUBSET Bank, NEW t, t = Refresh(s, group)
    PROVE  /\ t.array \in [Bank \X SubArray -> ArrayState] /\ t.active = s.active
           /\ BanksOnly(s, t)
           /\ \A a \in Bank \X SubArray :
                /\ (a[1] \in group /\ a[2] = 0) => t.array[a] = Refreshing(s.array[a])
                /\ ~(a[1] \in group /\ a[2] = 0) => t.array[a] = s.array[a]
           /\ Queued(s, t, "refreshed", group \X {0}, tRFC)
  <1> DEFINE whats == [k \in DOMAIN Ordered(group) |-> <<Ordered(group)[k], 0>>]
  <1>1. s.array \in [Bank \X SubArray -> ArrayState] /\ s.active \in [Bank -> SUBSET SubArray]
    BY ChannelIs
  <1>2. /\ t.array = [a \in Bank \X SubArray |->
                        IF a[1] \in group /\ a[2] = 0 THEN Refreshing(s.array[a]) ELSE s.array[a]]
        /\ t.active = s.active
        /\ t.calendar = InsertEvents(s.calendar, "refreshed", whats, tRFC, 0)
        /\ BanksOnly(s, t)
    BY DEF Refresh, Channel, BanksOnly
  <1>4. \A h \in ArrayState : Refreshing(h) \in ArrayState
    <2>1. \A n \in 0..Horizon : MAX(n, tRFC) \in 0..Horizon  BY Numbers DEF MAX
    <2> QED  BY <2>1 DEF ArrayState, Refreshing
  <1>5. t.array \in [Bank \X SubArray -> ArrayState]  BY <1>1, <1>2, <1>4
  <1>6. group \in SUBSET Nat /\ IsFiniteSet(group) /\ 0 \in SubArray
    <2>1. IsFiniteSet(Bank) /\ Bank \subseteq Nat /\ 0 \in SubArray  BY Sizes
    <2>2. IsFiniteSet(group)  BY <2>1, FS_Subset
    <2> QED  BY <2>1, <2>2
  <1>7. /\ Ordered(group) \in Seq(group) /\ DOMAIN Ordered(group) = 1..Cardinality(group)
        /\ Cardinality(group) \in Nat
        /\ \A k, l \in 1..Cardinality(group) : k < l => Ordered(group)[k] < Ordered(group)[l]
        /\ \A k \in 1..Cardinality(group) : Ordered(group)[k] \in group
        /\ \A i \in group : \E k \in 1..Cardinality(group) : Ordered(group)[k] = i
    BY <1>6, OrderedIs
  <1>8. /\ whats \in Seq(Bank \X SubArray) /\ DOMAIN whats = 1..Cardinality(group)
        /\ \A k \in 1..Cardinality(group) : whats[k] = <<Ordered(group)[k], 0>>
    <2>1. DOMAIN whats = 1..Cardinality(group)
          /\ \A k \in 1..Cardinality(group) : whats[k] = <<Ordered(group)[k], 0>>
      BY <1>7
    <2>2. \A k \in 1..Cardinality(group) : <<Ordered(group)[k], 0>> \in Bank \X SubArray
      BY <1>6, <1>7
    <2>3. whats \in Seq(Bank \X SubArray)  BY <1>7, <2>2
    <2> QED  BY <2>1, <2>3
  <1>9. Elems(whats) = group \X {0}
    <2> HIDE DEF whats
    <2>1. \A k \in 1..Cardinality(group) :
            whats[k] \in group \X {0}
      BY <1>6, <1>7, <1>8
    <2>2. ASSUME NEW a \in group \X {0} PROVE  a \in Elems(whats)
      <3>1. PICK k \in 1..Cardinality(group) : Ordered(group)[k] = a[1]  BY <1>7, <2>2
      <3>2. whats[k] = a  BY <1>8, <2>2, <3>1
      <3> QED  BY <1>8, <3>2 DEF Elems
    <2> QED  BY <1>8, <2>1, <2>2 DEF Elems
  <1>10. ASSUME NEW i \in DOMAIN whats, NEW j \in DOMAIN whats, i < j PROVE  whats[i] # whats[j]
    <2>1. Ordered(group)[i] < Ordered(group)[j] /\ Ordered(group)[i] \in Nat
          /\ Ordered(group)[j] \in Nat
      BY <1>6, <1>7, <1>8, <1>10
    <2>2. whats[i] = <<Ordered(group)[i], 0>> /\ whats[j] = <<Ordered(group)[j], 0>>  BY <1>8
    <2> QED  BY <2>1, <2>2
  <1> HIDE DEF whats
  <1>11. Queued(s, t, "refreshed", group \X {0}, tRFC)  BY <1>2, <1>8, <1>9, <1>10 DEF Queued
  <1> QED  BY <1>2, <1>5, <1>11

\* The types after a PRECHARGE.
LEMMA PrechargeTypes ==
    ASSUME NEW s \in Channel, NEW b \in Bank, NEW closing \in SUBSET SubArray, NEW t,
           t = Precharge(s, b, closing)
    PROVE  t.array \in [Bank \X SubArray -> ArrayState] /\ t.active \in [Bank -> SUBSET SubArray]
  BY PrechargeIs

\* A command is answered when it reads, behind all that its bank has read.
LEMMA CommandAnswers ==
    ASSUME Submitted, NEW s \in Channel, AnswersSorted(s), NEW c \in Command, NEW x,
           CommandFits(x, c), ~c.issued,
           Reading(c) => c.of \notin AnswerSet(s) /\ \A q \in AnswerSet(s) : ~Precedes(s, c.of, q),
           NEW t, t = IssueCommand(s, c)
    PROVE  /\ t \in Channel /\ AnswersSorted(t)
           /\ BanksOnly(s, t)
           /\ Reading(c) => AnswerSet(t) = AnswerSet(s) \cup {c.of}
           /\ ~Reading(c) => AnswerSet(t) = AnswerSet(s)
           /\ \A i \in 0..Horizon : Cleans(s.calendar[i]) => Cleans(t.calendar[i])
  <1> DEFINE Kept == /\ t.calendar \in Calendar /\ AnswersSorted(t)
                     /\ Reading(c) => AnswerSet(t) = AnswerSet(s) \cup {c.of}
                     /\ ~Reading(c) => AnswerSet(t) = AnswerSet(s)
                     /\ \A i \in 0..Horizon : Cleans(s.calendar[i]) => Cleans(t.calendar[i])
             Alone == BanksOnly(s, t)
             Typed == t.array \in [Bank \X SubArray -> ArrayState]
                        /\ t.active \in [Bank -> SUBSET SubArray]
  <1>0. /\ s.calendar \in Calendar /\ s.active \in [Bank -> SUBSET SubArray]
        /\ p \in Params /\ c.at.bank \in Bank /\ c.at.sa \in SubArray /\ c.at.row \in 0..ROWS
        /\ At(c.at) \in Bank \X SubArray
        /\ tRTP \in 0..Horizon /\ tRFC \in 0..Horizon
    BY ChannelIs, Numbers DEF Submitted, Command, At
  <1>1. CASE c.op = "ACTIVATE"
    <2>1. t = Activate(s, c)  BY <1>1 DEF IssueCommand
    <2>2. t \in Channel /\ t.calendar = s.calendar /\ Alone
      <3> HIDE DEF Kept, Typed
      <3>1. c.at.row \in 0..ROWS  BY <1>0
      <3> QED  BY <2>1, <3>1, ActivateIs
    <2>3. Typed  BY <2>2, ChannelIs
    <2>4. t.writes = s.writes  BY <2>2 DEF Channel, BanksOnly
    <2>5. AnswersSorted(t) /\ AnswerSet(t) = AnswerSet(s)
      BY <2>2, <2>4, SameOrder DEF AnswersSorted, AnswerSet
    <2>6. ~Reading(c)  BY <1>1 DEF Reading, Reads
    <2> QED  BY <1>0, <2>2, <2>5, <2>6
  <1>2. CASE c.op \in Reads
    <2>1. t = Read(s, c)  BY <1>2 DEF IssueCommand, Reads
    <2>2. /\ Typed /\ Alone
          /\ c.op = "READ_PRECHARGE" =>
                t.calendar = InsertEvent(
                       InsertEvent(s.calendar, "implicitPrecharge", At(c.at), tRTP, 0),
                       "response", c.of, tCAS, 0)
          /\ c.op # "READ_PRECHARGE" =>
                t.calendar = InsertEvent(s.calendar, "response", c.of, tCAS, 0)
      <3>1. /\ Typed /\ Alone
            /\ c.op = "READ_PRECHARGE" =>
                /\ t.array = [s.array EXCEPT ![At(c.at)] = HasReadAndCloses(@)]
                /\ t.active = [s.active EXCEPT ![c.at.bank] = @ \ {c.at.sa}]
                /\ t.calendar = InsertEvent(
                       InsertEvent(s.calendar, "implicitPrecharge", At(c.at), tRTP, 0),
                       "response", c.of, tCAS, 0)
            /\ c.op # "READ_PRECHARGE" =>
                /\ t.array = [s.array EXCEPT ![At(c.at)] = HasRead(@)]
                /\ t.active = s.active
                /\ t.calendar = InsertEvent(s.calendar, "response", c.of, tCAS, 0)
        <4> HIDE DEF Kept
        <4> QED  BY ZenonT(60), <2>1, ReadIs
      <3> QED  BY <3>1
    <2>3. t.writes = s.writes  BY <2>2 DEF Channel, BanksOnly
    <2>4. Reading(c) /\ c.of \in Known /\ c.of \in Req
      BY <1>2 DEF Reading, CommandFits, Submitted
    <2>5. CASE c.op # "READ_PRECHARGE"
      <3>1. Kept
        <4>1. /\ t.writes = s.writes /\ s.calendar \in Calendar /\ AnswersSorted(s)
              /\ c.of \in Known /\ c.of \in Req /\ c.of \notin AnswerSet(s)
              /\ \A q \in AnswerSet(s) : ~Precedes(s, c.of, q)
              /\ t.calendar = InsertEvent(s.calendar, "response", c.of, tCAS, 0)
          BY <1>0, <2>2, <2>3, <2>4, <2>5
        <4>2. /\ t.calendar \in Calendar /\ AnswersSorted(t)
              /\ AnswerSet(t) = AnswerSet(s) \cup {c.of}
              /\ \A i \in 0..Horizon : Cleans(s.calendar[i]) => Cleans(t.calendar[i])
          <5> HIDE DEF Kept, Typed, Alone
          <5> QED  BY <4>1, ReadKeeps
        <4> QED  BY <2>4, <4>2
      <3> QED  BY ZenonT(60), <2>2, <3>1 DEF Channel, Calendar, BanksOnly
    <2>6. CASE c.op = "READ_PRECHARGE"
      <3> DEFINE u == [s EXCEPT !.calendar =
                          InsertEvent(s.calendar, "implicitPrecharge", At(c.at), tRTP, 0)]
      <3>1. u.writes = s.writes
            /\ u.calendar = InsertEvents(s.calendar, "implicitPrecharge", <<At(c.at)>>, tRTP, 0)
        BY OneClosing DEF Channel, BanksOnly
      <3>2. u.calendar = InsertEvent(s.calendar, "implicitPrecharge", At(c.at), tRTP, 0)
        BY DEF Channel, BanksOnly
      <3> HIDE DEF u
      <3>3. "implicitPrecharge" \in Closings /\ <<At(c.at)>> \in Seq(Bank \X SubArray)
        BY <1>0 DEF Closings
      <3>4. /\ u.calendar \in Calendar /\ AnswersSorted(u) /\ AnswerSet(u) = AnswerSet(s)
            /\ \A i \in 0..Horizon : Cleans(s.calendar[i]) => Cleans(u.calendar[i])
        BY <1>0, <3>1, <3>3, ClosingsKeep
      <3>5. c.of \notin AnswerSet(u) /\ (\A q \in AnswerSet(u) : ~Precedes(u, c.of, q))
            /\ t.writes = u.writes /\ t.calendar = InsertEvent(u.calendar, "response", c.of, tCAS, 0)
        <4>1. \A q, r \in Known : Precedes(u, q, r) <=> Precedes(s, q, r)  BY <3>1, SameOrder
        <4>2. AnswerSet(u) \subseteq Known  BY DEF AnswerSet
        <4> QED  BY <2>2, <2>3, <2>4, <2>6, <3>1, <3>2, <3>4, <4>1, <4>2
      <3>6. /\ t.calendar \in Calendar /\ AnswersSorted(t) /\ AnswerSet(t) = AnswerSet(u) \cup {c.of}
            /\ \A i \in 0..Horizon : Cleans(u.calendar[i]) => Cleans(t.calendar[i])
        BY <2>4, <3>4, <3>5, ReadKeeps
      <3>7. Kept  BY <2>4, <3>4, <3>6
      <3> QED  BY <2>2, <3>7 DEF Channel, Calendar, BanksOnly
    <2> QED  BY <2>5, <2>6
  <1>3. ASSUME c.op \in {"PRECHARGE", "PRECHARGE_ALL", "REFRESH"}, t.writes = s.writes, Typed, Alone,
               NEW kind \in Closings, NEW whats \in Seq(Bank \X SubArray),
               NEW when \in 0..Horizon, t.calendar = InsertEvents(s.calendar, kind, whats, when, 0)
        PROVE  t \in Channel /\ Kept
    <2>1. /\ t.calendar \in Calendar /\ AnswersSorted(t) /\ AnswerSet(t) = AnswerSet(s)
          /\ \A i \in 0..Horizon : Cleans(s.calendar[i]) => Cleans(t.calendar[i])
      <3>1. s.calendar \in Calendar  BY <1>0
      <3> HIDE DEF Kept, Alone, Typed
      <3> QED  BY <1>3, <3>1, ClosingsKeep
    <2>2. ~Reading(c)  BY <1>3 DEF Reading, Reads
    <2> QED  BY <1>3, <2>1, <2>2 DEF Channel, Calendar, BanksOnly
  <1>4. ASSUME c.op \in {"PRECHARGE", "PRECHARGE_ALL"},
               NEW b \in Bank, NEW closing \in SUBSET SubArray, t = Precharge(s, b, closing)
        PROVE  t \in Channel /\ Kept /\ Alone
    <2>1. /\ Typed /\ Alone /\ MAX(1, tRP) \in 1..Horizon
          /\ \E whats \in Seq(Bank \X SubArray) :
               t.calendar = InsertEvents(s.calendar, "closed", whats, MAX(1, tRP), 0)
      <3>2. /\ t.array \in [Bank \X SubArray -> ArrayState] /\ t.active \in [Bank -> SUBSET SubArray]
            /\ BanksOnly(s, t) /\ MAX(1, tRP) \in 1..Horizon
            /\ Queued(s, t, "closed", {b} \X closing, MAX(1, tRP))
        <4> HIDE DEF Kept, Alone, Typed
        <4>1. t.array \in [Bank \X SubArray -> ArrayState] /\ t.active \in [Bank -> SUBSET SubArray]
          BY <1>4, PrechargeTypes
        <4>2. BanksOnly(s, t)  BY <1>4, PrechargeIs
        <4>3. Queued(s, t, "closed", {b} \X closing, MAX(1, tRP))  BY <1>4, PrechargeIs
        <4>4. MAX(1, tRP) \in 1..Horizon  BY <1>4, PrechargeIs
        <4> QED  BY <4>1, <4>2, <4>3, <4>4
      <3> QED  BY <3>2 DEF Queued
    <2>2. PICK whats \in Seq(Bank \X SubArray) :
             t.calendar = InsertEvents(s.calendar, "closed", whats, MAX(1, tRP), 0)
      BY <2>1
    <2>3. t.writes = s.writes  BY <2>1 DEF Channel, BanksOnly
    <2>4. "closed" \in Closings /\ MAX(1, tRP) \in 0..Horizon  BY <2>1 DEF Closings
    <2> HIDE DEF Kept, Alone, Typed
    <2> QED  BY <1>3, <1>4, <2>1, <2>2, <2>3, <2>4
  <1>5. CASE c.op = "PRECHARGE"
    <2>1. t = Precharge(s, c.at.bank, {c.at.sa}) /\ {c.at.sa} \in SUBSET SubArray
      BY <1>0, <1>5 DEF IssueCommand
    <2> QED  BY <1>0, <1>4, <1>5, <2>1
  <1>6. CASE c.op = "PRECHARGE_ALL"
    <2>1. t = Precharge(s, c.at.bank, s.active[c.at.bank]) /\ s.active[c.at.bank] \in SUBSET SubArray
      BY <1>0, <1>6 DEF IssueCommand
    <2> QED  BY <1>0, <1>4, <1>6, <2>1
  <1>7. CASE c.op = "REFRESH"
    <2>1. t = Refresh(s, Group(c.at.bank)) /\ Group(c.at.bank) \in SUBSET Bank
      BY <1>0, <1>7, GroupsAre DEF IssueCommand
    <2>2. /\ Typed /\ Alone
          /\ \E whats \in Seq(Bank \X SubArray) :
               t.calendar = InsertEvents(s.calendar, "refreshed", whats, tRFC, 0)
      <3>1. /\ t.array \in [Bank \X SubArray -> ArrayState] /\ t.active = s.active /\ Alone
            /\ Queued(s, t, "refreshed", Group(c.at.bank) \X {0}, tRFC)
        <4> HIDE DEF Kept, Typed
        <4> QED  BY ZenonT(60), <2>1, RefreshIs
      <3> QED  BY <1>0, <3>1 DEF Queued
    <2>3. PICK whats \in Seq(Bank \X SubArray) :
             t.calendar = InsertEvents(s.calendar, "refreshed", whats, tRFC, 0)
      BY <2>2
    <2>4. t.writes = s.writes /\ "refreshed" \in Closings
      BY <2>2 DEF Channel, Closings, BanksOnly
    <2>5. t \in Channel /\ Kept
      <3> HIDE DEF Kept, Alone, Typed
      <3> QED  BY <1>0, <1>3, <1>7, <2>2, <2>3, <2>4
    <2> QED  BY <2>2, <2>5
  <1> QED  BY <1>1, <1>2, <1>5, <1>6, <1>7 DEF Command, Reads

-----------------------------------------------------------------------------
(* Issuing the head of a queue.                                            *)

\* The cleanup of the next cycle is scheduled, for the command just issued.
LEMMA CleanupScheduled ==
    ASSUME NEW s \in Channel, AnswersSorted(s), NEW t,
           t = [s EXCEPT !.calendar =
                   IF Scheduled(s.calendar, "CleanupCallback", 1) THEN s.calendar
                   ELSE InsertCallback(s.calendar, "CleanupCallback", None, 1, cleanupPriority)]
    PROVE  t \in Channel /\ AnswersSorted(t) /\ AnswerSet(t) = AnswerSet(s) /\ Cleans(t.calendar[1])
  <1>0. s.calendar \in Calendar /\ 1 \in 0..Horizon /\ s.calendar[1] \in Seq(Event)
    BY ChannelIs, Numbers DEF Calendar
  <1>1. CASE Scheduled(s.calendar, "CleanupCallback", 1)
    <2>1. PICK i \in 1..Len(s.calendar[1]) : s.calendar[1][i].kind = "CleanupCallback"
      BY <1>1 DEF Scheduled
    <2>2. 1 \in DOMAIN s.calendar[1] /\ i \in DOMAIN s.calendar[1] /\ i \in Nat /\ 1 <= i
      BY <1>0, <2>1
    <2>3. i = 1
      <3>1. SUFFICES ASSUME 1 < i PROVE FALSE
        BY <2>2
      <3>2. <<s.calendar[1][1], s.calendar[1][i]>> \in CellPairs
        BY <1>0, <2>2, <3>1 DEF AnswersSorted, Pairs
      <3> QED  BY <2>1, <3>2 DEF CellPairs
    <2>4. Cleans(s.calendar[1])  BY <1>0, <2>1, <2>2, <2>3 DEF Cleans
    <2>5. t = s  BY <1>1 DEF Channel
    <2> QED  BY <2>4, <2>5
  <1>2. CASE ~Scheduled(s.calendar, "CleanupCallback", 1)
    <2> DEFINE e == Callback("CleanupCallback", None, cleanupPriority)
    <2>1. /\ t.calendar = [s.calendar EXCEPT ![1] = Place(@, <<e>>, cleanupPriority)]
          /\ t.writes = s.writes
      BY <1>2 DEF InsertCallback, Channel
    <2>2. <<e>> \in Seq(Event) /\ cleanupPriority \in Int
      BY DEF Event, Callback, cleanupPriority
    <2>3. PICK n \in 0..Len(s.calendar[1]) :
             Inserted(s.calendar, 1, <<e>>, cleanupPriority, n, t.calendar)
      <3> HIDE DEF e
      <3> QED  BY <1>0, <2>1, <2>2, InsertedIs
    <2>4. /\ t.calendar \in Calendar /\ AnswersSorted(t) /\ AnswerSet(t) = AnswerSet(s)
          /\ Cleans(t.calendar[1])
      BY <1>0, <1>2, <2>1, <2>3, CleanupInserts
    <2>5. t \in Channel
      <3>1. t = [s EXCEPT !.calendar = t.calendar]  BY <1>2 DEF Channel
      <3> QED  BY <2>4, <3>1 DEF Channel, Calendar
    <2> QED  BY <2>4, <2>5
  <1> QED  BY <1>1, <1>2

\* The channel after the head of queue x is issued, but for the scheduler's wake.
HeadIssued(s, x, u) ==
    [u EXCEPT !.cq = [s.cq EXCEPT ![x] = Issue(@)],
              !.refreshQueued = RefreshDone(s.refreshQueued, s.cq[x][1]),
              !.issuedNow = TRUE, !.curQueue = MoveCurrentQueue(s.curQueue)]

\* The head of a queue leaves for its bank, and its answer is on the way.
LEMMA HeadIssuedKeeps ==
    ASSUME Submitted, NEW s, Good(s), Cleaned(s), ~s.issuedNow,
           NEW x \in Queues, s.cq[x] # <<>>,
           NEW u, u \in Channel, AnswersSorted(u), Cleans(u.calendar[1]),
           u = [s EXCEPT !.array = u.array, !.active = u.active, !.calendar = u.calendar],
           Reading(s.cq[x][1]) => AnswerSet(u) = AnswerSet(s) \cup {s.cq[x][1].of},
           ~Reading(s.cq[x][1]) => AnswerSet(u) = AnswerSet(s),
           NEW t, t = HeadIssued(s, x, u)
    PROVE  Good(t) /\ Cleaned(t)
  <1> DEFINE c == s.cq[x][1]
  <1>0. /\ s \in Channel /\ InStages(s) /\ CommandsFit(s) /\ QueuesSorted(s) /\ Refreshes(s)
        /\ Arrivals(s)
    BY DEF Good
  <1>1. /\ s.cq \in [Queues -> Seq(Command)] /\ s.refreshQueued \in [Bank -> BOOLEAN]
        /\ s.curQueue \in 0..commandQueueCount /\ p \in Params
    BY <1>0, ChannelIs DEF Submitted
  <1>2. c \in Command /\ c \in Elems(s.cq[x])  BY <1>1, TailIs DEF Elems
  <1>3. ~c.issued  BY <1>2 DEF Cleaned
  <1>4. /\ t.cq = [s.cq EXCEPT ![x] = Issue(@)]
        /\ t.refreshQueued = RefreshDone(s.refreshQueued, c)
        /\ t.issuedNow = TRUE /\ t.curQueue = MoveCurrentQueue(s.curQueue)
        /\ t.served = s.served /\ t.arrived = s.arrived /\ t.writes = s.writes /\ t.tq = s.tq
        /\ t.draining = s.draining /\ t.force_drain = s.force_drain /\ t.started = s.started
        /\ t.activateQueued = s.activateQueued /\ t.effectiveRow = s.effectiveRow
        /\ t.starvation = s.starvation /\ t.refreshCounter = s.refreshCounter
        /\ t.refreshedNow = s.refreshedNow
        /\ t.active = u.active /\ t.array = u.array /\ t.calendar = u.calendar
    BY ZenonT(60), <1>0 DEF HeadIssued, Channel
  <1>5. /\ t.cq \in [Queues -> Seq(Command)] /\ CommandsFit(t)
        /\ \A q \in Queues : Pairs(t.cq[q], CommandPairs(t))
        /\ ~Reading(c) => SentSet(t) = SentSet(s)
        /\ Reading(c) =>
             /\ c.of \in SentSet(s) /\ SentSet(t) = SentSet(s) \ {c.of}
             /\ \A r \in SentSet(s) : ~Precedes(s, r, c.of)
        /\ \A q \in Queues : \A d \in Elems(s.cq[q]) : d = c \/ d \in Elems(t.cq[q])
    BY ZenonT(60), <1>0, <1>3, <1>4, HeadIssues
  <1>6. t \in Channel
    <2>1. RefreshDone(s.refreshQueued, c) \in [Bank -> BOOLEAN]  BY DEF RefreshDone
    <2>2. MoveCurrentQueue(s.curQueue) \in 0..commandQueueCount
      <3>1. commandQueueCount \in Nat \ {0}  BY <1>1, QueuesAre
      <3> QED  BY <1>1, <3>1 DEF MoveCurrentQueue
    <2>3. t = [u EXCEPT !.cq = t.cq, !.refreshQueued = t.refreshQueued,
                        !.issuedNow = TRUE, !.curQueue = t.curQueue]
      BY <1>4 DEF HeadIssued
    <2> DEFINE with == [u EXCEPT !.cq = t.cq]
               done == [with EXCEPT !.refreshQueued = t.refreshQueued]
               issued == [done EXCEPT !.issuedNow = TRUE]
    <2>4. with \in Channel  BY ZenonT(60), <1>5 DEF Channel
    <2> HIDE DEF with
    <2>5. done \in Channel  BY ZenonT(60), <1>4, <2>1, <2>4 DEF Channel
    <2> HIDE DEF done
    <2>6. issued \in Channel  BY ZenonT(60), <2>5 DEF Channel
    <2> HIDE DEF issued
    <2>7. [issued EXCEPT !.curQueue = t.curQueue] \in Channel
      BY ZenonT(60), <1>4, <2>2, <2>6 DEF Channel
    <2>8. t = [issued EXCEPT !.curQueue = t.curQueue]
      BY <1>4 DEF HeadIssued, issued, done, with, Channel
    <2> QED  BY <2>7, <2>8
  <1>7. AnswersSorted(t) /\ AnswerSet(t) = AnswerSet(u)
    <2>1. u.writes = s.writes  BY <1>0 DEF Channel
    <2> QED  BY <1>4, <2>1, SameOrder DEF AnswersSorted, AnswerSet
  <1>8. InStages(t)
    <2> HIDE DEF c
    <2>1. CASE Reading(c)
      <3>1. AnswerSet(t) = AnswerSet(s) \cup {c.of}  BY <1>7, <2>1 DEF c
      <3> QED  BY <1>0, <1>4, <1>5, <2>1, <3>1, Answers
    <2>2. CASE ~Reading(c)
      <3>1. AnswerSet(t) = AnswerSet(s)  BY <1>7, <2>2 DEF c
      <3> QED  BY <1>0, <1>4, <1>5, <2>2, <3>1, StagesKept
    <2> QED  BY <2>1, <2>2
  <1>9. QueuesSorted(t) /\ Arrivals(t)  BY <1>0, <1>4, <1>5 DEF QueuesSorted, Arrivals
  <1>10. Refreshes(t)
    <2>1. \A g \in Groups : t.refreshCounter[g] < DelayedRefreshThreshold
      BY <1>0, <1>4 DEF Refreshes
    <2>2. ASSUME NEW b \in Bank, t.refreshQueued[b]
          PROVE  \E d \in Elems(t.cq[GetCommandQueueId(BankHead(b), 0)]) :
                    d.op = "REFRESH" /\ ~d.issued /\ d.at.bank = BankHead(b)
      <3>1. s.refreshQueued[b] /\ ~(c.op = "REFRESH" /\ b \in Group(c.at.bank))
        BY <1>4, <2>2 DEF RefreshDone
      <3>2. PICK d \in Elems(s.cq[GetCommandQueueId(BankHead(b), 0)]) :
                    d.op = "REFRESH" /\ ~d.issued /\ d.at.bank = BankHead(b)
        BY <1>0, <3>1 DEF Refreshes
      <3>3. GetCommandQueueId(BankHead(b), 0) \in Queues /\ BankHead(BankHead(b)) = BankHead(b)
        <4>1. BankHead(b) \in Groups /\ BankHead(b) \in Bank /\ 0 \in SubArray
          BY <1>1, GroupsAre, Sizes
        <4> QED  BY <1>1, <4>1, GroupsAre, QueuesAre
      <3>4. d # c  BY <3>1, <3>2, <3>3 DEF Group
      <3>5. d \in Elems(t.cq[GetCommandQueueId(BankHead(b), 0)])  BY <1>5, <3>2, <3>3, <3>4
      <3> QED  BY <3>2, <3>5
    <2> QED  BY <2>1, <2>2 DEF Refreshes
  <1>11. Cleaned(t)  BY <1>4 DEF Cleaned
  <1> QED  BY <1>5, <1>6, <1>7, <1>8, <1>9, <1>10, <1>11 DEF Good

\* The cleanup of the next cycle, and the channels between the steps of IssueHead.
CleanupSoon(t) ==
    [t EXCEPT !.calendar =
        IF Scheduled(t.calendar, "CleanupCallback", 1) THEN t.calendar
        ELSE InsertCallback(t.calendar, "CleanupCallback", None, 1, cleanupPriority)]
IssuingHead(s, x, t, u, w, v) ==
    /\ t = IssueCommand(s, s.cq[x][1]) /\ t \in Channel /\ BanksOnly(s, t)
    /\ u = CleanupSoon(t) /\ u \in Channel /\ BanksOnly(s, u)
    /\ w = HeadIssued(s, x, u) /\ Good(w) /\ Cleaned(w) /\ Nudges(w, v)

\* Issuing a head leads through them,
LEMMA IssueHeadIs ==
    ASSUME Submitted, NEW s, Good(s), Cleaned(s), ~s.issuedNow,
           NEW x \in Queues, s.cq[x] # <<>>, NEW v, v = IssueHead(s, x)
    PROVE  \E t, u, w : IssuingHead(s, x, t, u, w, v)
  <1> DEFINE c == s.cq[x][1]
             t == IssueCommand(s, c)
             u == CleanupSoon(t)
             w == HeadIssued(s, x, u)
  <1>0. /\ s \in Channel /\ InStages(s) /\ CommandsFit(s) /\ AnswersSorted(s)
        /\ s.cq \in [Queues -> Seq(Command)]
    BY ChannelIs DEF Good
  <1>1. c \in Command /\ c \in Elems(s.cq[x]) /\ ~c.issued /\ CommandFits(x, c)
    <2>1. c \in Command /\ c \in Elems(s.cq[x])  BY <1>0, TailIs DEF Elems
    <2> QED  BY <1>0, <2>1 DEF Cleaned, CommandsFit
  <1>2. Reading(c) => c.of \notin AnswerSet(s) /\ \A q \in AnswerSet(s) : ~Precedes(s, c.of, q)
    <2> HIDE DEF c
    <2>1. SUFFICES ASSUME Reading(c)
                   PROVE  c.of \notin AnswerSet(s) /\ \A q \in AnswerSet(s) : ~Precedes(s, c.of, q)
      OBVIOUS
    <2>2. c.of \in SentSet(s)  BY <1>1, <2>1 DEF SentSet, CommandFits, Reading
    <2> QED  BY <1>0, <2>2, NoneAnswered
  <1>3. /\ t \in Channel /\ AnswersSorted(t) /\ BanksOnly(s, t)
        /\ Reading(c) => AnswerSet(t) = AnswerSet(s) \cup {c.of}
        /\ ~Reading(c) => AnswerSet(t) = AnswerSet(s)
    <2> HIDE DEF c
    <2>1. t = IssueCommand(s, c)  OBVIOUS
    <2> HIDE DEF t
    <2> QED  BY <1>0, <1>1, <1>2, <2>1, CommandAnswers
  <1>4. u \in Channel /\ AnswersSorted(u) /\ AnswerSet(u) = AnswerSet(t) /\ Cleans(u.calendar[1])
    <2> HIDE DEF t
    <2> QED  BY <1>3, CleanupScheduled DEF CleanupSoon
  <1>5. u = [s EXCEPT !.array = u.array, !.active = u.active, !.calendar = u.calendar]
    <2> HIDE DEF t
    <2> QED  BY <1>3, <1>0 DEF BanksOnly, Channel, CleanupSoon
  <1>6. Good(w) /\ Cleaned(w)
    <2> HIDE DEF u
    <2>1. /\ Reading(s.cq[x][1]) => AnswerSet(u) = AnswerSet(s) \cup {s.cq[x][1].of}
          /\ ~Reading(s.cq[x][1]) => AnswerSet(u) = AnswerSet(s)
      BY <1>3, <1>4
    <2>2. w = HeadIssued(s, x, u)  OBVIOUS
    <2> HIDE DEF w, t, c
    <2> QED  BY <1>4, <1>5, <2>1, <2>2, HeadIssuedKeeps
  <1>7. \/ v = w
        \/ v = [w EXCEPT !.calendar = InsertEvent(@, "Cycle", None, 1, transactionQueuePriority)]
    <2>1. CASE Len(s.cq[x]) = 1 /\ TransactionAvailable(s, x)
      <3>1. v = [w EXCEPT !.calendar = InsertEvent(@, "Cycle", None, 1, transactionQueuePriority)]
        BY ZenonT(60), <1>0, <1>3, <2>1 DEF IssueHead, HeadIssued, CleanupSoon, Issue, BanksOnly, Channel
      <3> QED  BY <3>1
    <2>2. CASE ~(Len(s.cq[x]) = 1 /\ TransactionAvailable(s, x))
      <3>1. v = w
        BY <1>0, <1>3, <2>2 DEF IssueHead, HeadIssued, CleanupSoon, Issue, BanksOnly, Channel
      <3> QED  BY SMTT(30), <3>1
    <2> QED  BY <2>1, <2>2
  <1>8. Nudges(w, v)
    <2>1. w \in Channel /\ 1 \in 0..Horizon  BY <1>6, Numbers DEF Good
    <2> HIDE DEF w
    <2>2. CASE v = w  BY <2>2 DEF Nudges
    <2>3. CASE v = [w EXCEPT !.calendar = InsertEvent(@, "Cycle", None, 1, transactionQueuePriority)]
      BY <2>1, <2>3, CycleNudges
    <2> QED  BY <1>7, <2>2, <2>3
  <1>9. IssuingHead(s, x, t, u, w, v)
    <2>1. t = IssueCommand(s, s.cq[x][1]) /\ u = CleanupSoon(t) /\ w = HeadIssued(s, x, u)
      OBVIOUS
    <2> HIDE DEF t, u, w
    <2> QED  BY <1>3, <1>4, <1>5, <1>6, <1>8, <2>1 DEF IssuingHead, BanksOnly
  <1> HIDE DEF t, u, w
  <1> QED  BY <1>9

\* IssueHead keeps the invariant, since only a head that waits is issued,
LEMMA IssueHeadKeeps ==
    ASSUME Submitted, NEW s, Good(s), Cleaned(s), ~s.issuedNow,
           NEW x \in Queues, s.cq[x] # <<>>, NEW v, v = IssueHead(s, x)
    PROVE  Good(v) /\ Cleaned(v)
  <1>1. PICK t, u, w : IssuingHead(s, x, t, u, w, v)  BY IssueHeadIs
  <1> QED  BY <1>1, NudgeKeeps DEF IssuingHead

\* and is all that the look at the queues can do.
LEMMA CycleCommandQueuesIs ==
    ASSUME Submitted, NEW s, Good(s), NEW t, t = CycleCommandQueues(s), t # s
    PROVE  /\ ~s.issuedNow
           /\ \E x \in Queues : s.cq[x] # <<>> /\ IsIssuable(s, s.cq[x][1]) /\ t = IssueHead(s, x)
  <1> DEFINE queue(k) == (s.curQueue + k) % commandQueueCount
             ready == {k \in Queues : s.cq[queue(k)] # <<>> /\ IsIssuable(s, s.cq[queue(k)][1])}
             first == CHOOSE k \in ready : \A l \in ready : k <= l
  <1>1. ~(s.refreshedNow \/ s.issuedNow \/ ready = {})  BY DEF CycleCommandQueues
  <1>2. t = IssueHead(s, queue(first))  BY <1>1 DEF CycleCommandQueues
  <1>3. commandQueueCount \in Nat \ {0} /\ Queues = 0..(commandQueueCount - 1)
        /\ s.curQueue \in Nat
    BY QueuesAre, ChannelIs DEF Submitted, Good
  <1>4. first \in ready
    <2>1. ready \in SUBSET Nat /\ ready # {}  BY <1>1, <1>3
    <2> HIDE DEF ready
    <2>2. \E m \in ready : \A n \in ready : m <= n  BY <2>1, LeastIn
    <2> QED  BY <2>2
  <1> HIDE DEF first
  <1>5. queue(first) \in Queues /\ s.cq[queue(first)] # <<>>
        /\ IsIssuable(s, s.cq[queue(first)][1])
    BY <1>3, <1>4
  <1> HIDE DEF queue
  <1> QED  BY <1>1, <1>2, <1>5

\* which the check of lastIssueCycle and the cleanup ensure.
LEMMA CycleCommandQueuesKeeps ==
    ASSUME Submitted, NEW s, Good(s), Cleaned(s), NEW t, t = CycleCommandQueues(s)
    PROVE  Good(t) /\ Cleaned(t)
  <1>1. CASE t = s  BY <1>1
  <1>2. CASE t # s
    <2>1. ~s.issuedNow  BY <1>2, CycleCommandQueuesIs
    <2>2. PICK x \in Queues : s.cq[x] # <<>> /\ t = IssueHead(s, x)
      BY <1>2, CycleCommandQueuesIs
    <2> QED  BY <2>1, <2>2, IssueHeadKeeps
  <1> QED  BY <1>1, <1>2

-----------------------------------------------------------------------------
(* The scheduler.                                                          *)

\* The transactions it looks at: all of them, or FRFCFS-WQF's reads or writes.
TheirQueue(s, queue) ==
    \/ p.scheduler # "FRFCFS-WQF" /\ queue = DOMAIN s.tq
    \/ p.scheduler = "FRFCFS-WQF" /\ queue = readQueue(s)
    \/ p.scheduler = "FRFCFS-WQF" /\ queue = writeQueue(s)

\* It takes one for which there is room, and none before an older one of its row.
LEMMA FindRequestIs ==
    ASSUME Submitted, NEW s, Good(s), NEW queue, TheirQueue(s, queue),
           NEW i, i = FindRequest(s, queue), i # None
    PROVE  /\ i \in DOMAIN s.tq /\ s.tq[i] \in Known /\ s.cq[QueueOf(s.tq[i])] = <<>>
           /\ \A q \in Elems(s.tq) : ~Precedes(s, q, s.tq[i])
  <1> DEFINE able == {k \in queue : Schedulable(s, s.tq[k])}
             open == {k \in able : s.activateQueued[address[s.tq[k]].bank]}
             hits == {k \in able : p.scheduler # "FCFS" /\ RowHit(s, s.tq[k])}
             starved == {k \in able : p.scheduler # "FCFS" /\ Starved(s, s.tq[k])}
             class == IF starved # {} THEN starved ELSE IF hits # {} THEN hits
                      ELSE IF open # {} THEN open ELSE able
             r == s.tq[i]
  <1>0. /\ s.tq \in Seq(Req) /\ Pairs(s.tq, Rising) /\ Elems(s.tq) \subseteq Known
        /\ DOMAIN s.tq \in SUBSET Nat /\ Arrivals(s) /\ Known \subseteq Nat
        /\ \A k \in DOMAIN s.tq : s.tq[k] \in Known
    <2>1. s.tq \in Seq(Req) /\ Pairs(s.tq, Rising) /\ Elems(s.tq) \subseteq Known /\ Arrivals(s)
      BY ChannelIs DEF Good, QueuesSorted, InStages, Stages
    <2>2. DOMAIN s.tq \in SUBSET Nat /\ Known \subseteq Nat  BY <2>1, RequestsAre
    <2> QED  BY <2>1, <2>2 DEF Elems
  <1>1. queue \in SUBSET DOMAIN s.tq
    <2>1. readQueue(s) \in SUBSET DOMAIN s.tq /\ writeQueue(s) \in SUBSET DOMAIN s.tq
      BY DEF readQueue, writeQueue
    <2> QED  BY <2>1 DEF TheirQueue
  <1>2. i = IF class = {} THEN None ELSE Oldest(class)  BY ZenonT(60) DEF FindRequest
  <1>3. class \in SUBSET able /\ class # {} /\ able \in SUBSET queue  BY <1>2
  <1>4. i \in class /\ \A k \in class : i <= k
    <2> HIDE DEF class
    <2>1. class \in SUBSET Nat  BY <1>0, <1>1, <1>3
    <2> QED  BY <1>2, <1>3, <2>1, OldestIs
  <1>5. i \in able /\ i \in queue /\ i \in DOMAIN s.tq /\ Schedulable(s, r)  BY <1>1, <1>3, <1>4
  <1>6. s.cq[QueueOf(r)] = <<>>  BY <1>5 DEF Schedulable
  <1>7. ASSUME NEW q \in Elems(s.tq), Precedes(s, q, r) PROVE  FALSE
    <2>1. PICK j \in DOMAIN s.tq : q = s.tq[j]  BY DEF Elems
    <2>2. q < r /\ address[q] = address[r] /\ Alike(s, q, r)  BY <1>7 DEF Precedes
    <2>3. j < i
      <3>1. q \in Nat /\ r \in Nat /\ i \in Nat /\ j \in Nat  BY <1>0, <1>5, <2>1
      <3>2. i < j => r < q  BY <1>0, <1>5, <2>1 DEF Pairs, Rising
      <3> QED  BY <2>1, <2>2, <3>1, <3>2
    <2>4. j \in queue  BY <1>5, <2>1, <2>2 DEF TheirQueue, readQueue, writeQueue, Alike
    <2>5. Schedulable(s, q)
      <3>1. QueueOf(q) = QueueOf(r)  BY <2>2 DEF QueueOf
      <3>2. r \notin s.arrived => q \notin s.arrived  BY <1>0, <1>5, <2>1, <2>2 DEF Arrivals
      <3> QED  BY <1>5, <2>2, <3>1, <3>2 DEF Schedulable
    <2>6. /\ RowHit(s, q) <=> RowHit(s, r)
          /\ Starved(s, q) <=> Starved(s, r)
      BY <2>2 DEF RowHit, Starved, EffectiveRow
    <2>7. j \in able /\ (j \in open <=> i \in open) /\ (j \in hits <=> i \in hits)
          /\ (j \in starved <=> i \in starved)
      BY <1>5, <2>1, <2>2, <2>4, <2>5, <2>6
    <2>8. j \in class
      <3> HIDE DEF able, open, hits, starved
      <3> QED  BY <1>4, <1>5, <2>7
    <2>9. i \in Nat /\ j \in Nat  BY <1>0, <1>5, <2>1
    <2> QED  BY <1>4, <2>3, <2>8, <2>9
  <1> QED  BY <1>0, <1>5, <1>6, <1>7

\* The commands that serve a transaction: the last one reads.
Serving(commands, q, r) ==
    /\ commands \in Seq(Command) /\ commands # <<>>
    /\ \A i \in DOMAIN commands :
         /\ ~commands[i].issued /\ CommandFits(q, commands[i])
         /\ Reading(commands[i]) <=> i = Len(commands)
    /\ commands[Len(commands)].of = r

\* The commands of a request read for it once.
LEMMA ServingIs ==
    ASSUME NEW s, NEW commands, NEW q, NEW r \in Known, Serving(commands, q, r)
    PROVE  /\ Pairs(commands, CommandPairs(s))
           /\ \A c \in Elems(commands) : /\ CommandFits(q, c) /\ ~c.issued
                                         /\ Reading(c) => c.of = r
           /\ \E c \in Elems(commands) : Reading(c) /\ c.of = r
  <1>1. Len(commands) \in Nat /\ DOMAIN commands = 1..Len(commands) /\ Len(commands) \in DOMAIN commands
        /\ \A i \in DOMAIN commands : commands[i] \in Command
    BY LenProperties, ElementOfSeq, EmptySeq DEF Serving
  <1>2. Pairs(commands, CommandPairs(s))
    <2>1. ASSUME NEW i \in DOMAIN commands, NEW j \in DOMAIN commands, i < j
          PROVE  <<commands[i], commands[j]>> \in CommandPairs(s)
      <3>1. i # Len(commands)  BY <1>1, <2>1
      <3> QED  BY <1>1, <3>1 DEF Serving, CommandPairs
    <2> QED  BY <2>1 DEF Pairs
  <1>3. \A c \in Elems(commands) : /\ CommandFits(q, c) /\ ~c.issued
                                   /\ Reading(c) => c.of = r
    BY <1>1 DEF Serving, Elems
  <1>4. commands[Len(commands)] \in Elems(commands) /\ Reading(commands[Len(commands)])
        /\ commands[Len(commands)].of = r
    BY <1>1 DEF Serving, Elems
  <1> QED  BY <1>2, <1>3, <1>4

\* The commands of IssueMemoryCommands, and what they leave behind.
CommandsOf(s, r, last) ==
    LET at == address[r]
        a == At(at)
        column == Cmd(IF last /\ p.UsePrecharge THEN "READ_PRECHARGE" ELSE "READ", r, at)
        precharge == IF s.effectiveRow[a] # ROWS /\ p.UsePrecharge
                     THEN <<Cmd("PRECHARGE", None, [at EXCEPT !.row = s.effectiveRow[a]])>>
                     ELSE <<>>
    IN  IF ~s.activateQueued[at.bank] THEN <<Cmd("ACTIVATE", r, at), column>>
        ELSE IF s.effectiveRow[a] # at.row
             THEN precharge \o <<Cmd("ACTIVATE", r, at), Cmd("READ", r, at)>>
        ELSE <<column>>
Misses(s, r) == s.activateQueued[address[r].bank] /\ s.effectiveRow[At(address[r])] # address[r].row
RowOf(s, r, last) ==
    IF ~Misses(s, r) /\ last /\ p.UsePrecharge THEN ROWS ELSE address[r].row
RowsOf(s, r, last) == [s.effectiveRow EXCEPT ![At(address[r])] = RowOf(s, r, last)]
StarvationOf(s, r, n) ==
    IF ~s.activateQueued[address[r].bank] \/ Misses(s, r) THEN 0 ELSE CountHit(n)
OpensOf(s, r, last) ==
    IF ~s.activateQueued[address[r].bank] THEN ~(last /\ p.UsePrecharge)
    ELSE \/ Misses(s, r) \/ ~(last /\ p.UsePrecharge)
         \/ \E sa \in SubArray : RowsOf(s, r, last)[address[r].bank, sa] # ROWS
Served(s, r, last, tq) ==
    [s EXCEPT
        !.tq = tq,
        !.cq = [s.cq EXCEPT ![QueueOf(r)] = @ \o CommandsOf(s, r, last)],
        !.effectiveRow = RowsOf(s, r, last),
        !.activateQueued = [s.activateQueued EXCEPT ![address[r].bank] = OpensOf(s, r, last)],
        !.starvation = [s.starvation EXCEPT ![At(address[r])] = StarvationOf(s, r, @)]]

\* IssueMemoryCommands, with its parts named.
LEMMA IssueMemoryCommandsIs ==
    ASSUME NEW s \in Channel, NEW r, NEW last \in BOOLEAN, NEW tq, NEW s0, s0 = [s EXCEPT !.tq = tq]
    PROVE  IssueMemoryCommands(s0, r, last) = ScheduleCommandWake(Served(s, r, last, tq))
  <1>1. /\ s0.cq = s.cq /\ s0.effectiveRow = s.effectiveRow /\ s0.activateQueued = s.activateQueued
        /\ s0.starvation = s.starvation
    BY DEF Channel
  <1> DEFINE
        at == address[r]
        q == QueueOf(r)
        a == At(at)
        closes == last /\ p.UsePrecharge
        closed == ~s.activateQueued[at.bank]
        miss == ~closed /\ s.effectiveRow[a] # at.row
        column == Cmd(IF closes THEN "READ_PRECHARGE" ELSE "READ", r, at)
        precharge == IF s.effectiveRow[a] # ROWS /\ p.UsePrecharge
                     THEN <<Cmd("PRECHARGE", None, [at EXCEPT !.row = s.effectiveRow[a]])>>
                     ELSE <<>>
        commands == IF closed THEN <<Cmd("ACTIVATE", r, at), column>>
                    ELSE IF miss THEN precharge \o <<Cmd("ACTIVATE", r, at), Cmd("READ", r, at)>>
                    ELSE <<column>>
        row == IF ~miss /\ closes THEN ROWS ELSE at.row
        rows == [s.effectiveRow EXCEPT ![a] = row]
        open == IF closed THEN ~closes
                ELSE miss \/ ~closes \/ \E sa \in SubArray : rows[at.bank, sa] # ROWS
  <1>2. IssueMemoryCommands(s0, r, last) =
          ScheduleCommandWake([s0 EXCEPT
             !.cq[q] = @ \o commands,
             !.effectiveRow = rows,
             !.activateQueued[at.bank] = open,
             !.starvation[a] = IF closed \/ miss THEN 0 ELSE CountHit(@)])
    BY <1>1 DEF IssueMemoryCommands
  <1>3. miss = Misses(s, r)  BY DEF Misses
  <1>4. commands = CommandsOf(s, r, last)  BY DEF CommandsOf
  <1>5. rows = RowsOf(s, r, last)  BY <1>3 DEF RowsOf, RowOf
  <1>6. open = OpensOf(s, r, last)  BY <1>3, <1>5 DEF OpensOf
  <1> HIDE DEF commands, rows, open, miss
  <1>7. [s0 EXCEPT
             !.cq[q] = @ \o commands,
             !.effectiveRow = rows,
             !.activateQueued[at.bank] = open,
             !.starvation[a] = IF closed \/ miss THEN 0 ELSE CountHit(@)]
          = Served(s, r, last, tq)
    BY <1>1, <1>3, <1>4, <1>5, <1>6 DEF Served, StarvationOf, Channel
  <1> QED  BY <1>2, <1>7

\* Whatever the state of the bank, the commands end in the one that reads.
LEMMA CommandsServe ==
    ASSUME Submitted, NEW s \in Channel, NEW r \in Known, NEW last \in BOOLEAN
    PROVE  Serving(CommandsOf(s, r, last), QueueOf(r), r)
  <1> DEFINE at == address[r]
             a == At(at)
             q == QueueOf(r)
             column == Cmd(IF last /\ p.UsePrecharge THEN "READ_PRECHARGE" ELSE "READ", r, at)
             activate == Cmd("ACTIVATE", r, at)
             read == Cmd("READ", r, at)
             before == [at EXCEPT !.row = s.effectiveRow[a]]
             precharge == Cmd("PRECHARGE", None, before)
             Plain(c) == c \in Command /\ ~c.issued /\ CommandFits(q, c) /\ ~Reading(c)
             Final(c) == c \in Command /\ ~c.issued /\ CommandFits(q, c) /\ Reading(c) /\ c.of = r
  <1>1. /\ at \in [bank : Bank, sa : SubArray, row : Row] /\ a \in Bank \X SubArray
        /\ q = GetCommandQueueId(at.bank, at.sa) /\ r \in Req
        /\ s.effectiveRow[a] \in 0..ROWS /\ Row \subseteq 0..ROWS /\ ROWS \notin Row
    BY RequestsAre, ChannelIs, Sizes
  <1>2. Final(column) /\ Final(read)  BY <1>1 DEF Cmd, Command, CommandFits, Reading, Reads
  <1>3. Plain(activate)  BY <1>1 DEF Cmd, Command, CommandFits, Reading, Reads
  <1>4. s.effectiveRow[a] # ROWS /\ p.UsePrecharge => Plain(precharge)
    <2>1. before \in [bank : Bank, sa : SubArray, row : 0..ROWS] /\ before.bank = at.bank
          /\ before.sa = at.sa /\ before.row = s.effectiveRow[a]
      BY <1>1
    <2> HIDE DEF before
    <2> QED  BY <1>1, <2>1 DEF Cmd, Command, CommandFits, Reading, Reads
  <1>5. CommandsOf(s, r, last) \in
          {<<activate, column>>, <<activate, read>>, <<column>>}
        \/ (CommandsOf(s, r, last) = <<precharge, activate, read>> /\ Plain(precharge))
    <2>1. CASE ~s.activateQueued[at.bank]  BY <2>1 DEF CommandsOf
    <2>2. CASE s.activateQueued[at.bank] /\ s.effectiveRow[a] = at.row  BY <2>2 DEF CommandsOf
    <2>3. CASE s.activateQueued[at.bank] /\ s.effectiveRow[a] # at.row
      <3>1. CASE s.effectiveRow[a] # ROWS /\ p.UsePrecharge
        <4>1. CommandsOf(s, r, last) = <<precharge>> \o <<activate, read>>
          BY <2>3, <3>1 DEF CommandsOf
        <4>2. precharge \in Command /\ activate \in Command /\ read \in Command /\ Plain(precharge)
          BY <1>2, <1>3, <1>4, <3>1
        <4> HIDE DEF precharge, activate, read, Plain
        <4>3. CommandsOf(s, r, last) = <<precharge, activate, read>>
          <5>1. <<precharge>> \in Seq(Command) /\ <<activate, read>> \in Seq(Command)
                /\ <<precharge, activate, read>> \in Seq(Command)
            BY <4>2
          <5>2. <<precharge>> \o <<activate, read>> = <<precharge, activate, read>>
            <6> DEFINE w == <<precharge>> \o <<activate, read>>
                       v == <<precharge, activate, read>>
            <6>1. /\ w \in Seq(Command) /\ Len(w) = Len(<<precharge>>) + Len(<<activate, read>>)
                  /\ \A i \in 1..Len(<<precharge>>) : w[i] = <<precharge>>[i]
                  /\ \A i \in 1..Len(<<activate, read>>) :
                       w[Len(<<precharge>>) + i] = <<activate, read>>[i]
              BY <5>1, ConcatIs
            <6>2. w \in Seq(Command) /\ Len(w) = 3 /\ w[1] = precharge /\ w[1 + 1] = activate
                  /\ w[1 + 2] = read
              <7> HIDE DEF w
              <7> QED  BY <6>1
            <6>3. v \in Seq(Command) /\ Len(v) = 3 /\ v[1] = precharge /\ v[2] = activate /\ v[3] = read
              BY <5>1
            <6> HIDE DEF w, v
            <6>4. \A i \in 1..Len(w) : w[i] = v[i]  BY <6>2, <6>3
            <6>5. w = v  BY <6>2, <6>3, <6>4, SeqEqual
            <6> QED  BY <6>5 DEF w, v
          <5> QED  BY <4>1, <5>2
        <4> QED  BY <4>2, <4>3
      <3>2. CASE ~(s.effectiveRow[a] # ROWS /\ p.UsePrecharge)
        <4>1. CommandsOf(s, r, last) = <<>> \o <<activate, read>>  BY <2>3, <3>2 DEF CommandsOf
        <4> HIDE DEF precharge, activate, read, Plain
        <4>2. CommandsOf(s, r, last) = <<activate, read>>  BY <4>1
        <4> QED  BY <4>2
      <3> QED  BY <3>1, <3>2
    <2> QED  BY <2>1, <2>2, <2>3
  <1> HIDE DEF column, activate, read, precharge, Plain, Final
  <1>6. ASSUME NEW x, Final(x)
        PROVE  /\ Serving(<<x>>, q, r)
               /\ \A y : Plain(y) => Serving(<<y, x>>, q, r)
               /\ \A y, z : Plain(y) /\ Plain(z) => Serving(<<y, z, x>>, q, r)
    <2> HIDE DEF q
    <2>1. x \in Command /\ ~x.issued /\ CommandFits(q, x) /\ Reading(x) /\ x.of = r
      BY <1>6 DEF Final
    <2>2. Serving(<<x>>, q, r)  BY <2>1 DEF Serving
    <2>3. ASSUME NEW y, Plain(y) PROVE  Serving(<<y, x>>, q, r)
      <3>1. y \in Command /\ ~y.issued /\ CommandFits(q, y) /\ ~Reading(y)  BY <2>3 DEF Plain
      <3> QED  BY <2>1, <3>1 DEF Serving
    <2>4. ASSUME NEW y, NEW z, Plain(y), Plain(z) PROVE  Serving(<<y, z, x>>, q, r)
      <3>1. /\ y \in Command /\ ~y.issued /\ CommandFits(q, y) /\ ~Reading(y)
            /\ z \in Command /\ ~z.issued /\ CommandFits(q, z) /\ ~Reading(z)
        BY <2>4 DEF Plain
      <3> QED  BY <2>1, <3>1 DEF Serving
    <2> QED  BY <2>2, <2>3, <2>4
  <1> HIDE DEF q
  <1>7. Serving(CommandsOf(s, r, last), q, r)  BY <1>2, <1>3, <1>5, <1>6
  <1> QED  BY <1>7 DEF q

\* The oldest request of its row is moved to its command queue.
LEMMA ServedKeeps ==
    ASSUME Submitted, NEW s, Good(s), NEW r \in Elems(s.tq), \A q \in Elems(s.tq) : ~Precedes(s, q, r),
           NEW tq \in Seq(Req), Pairs(tq, Rising), Elems(tq) = Elems(s.tq) \ {r},
           NEW last \in BOOLEAN, NEW t, t = Served(s, r, last, tq)
    PROVE  Good(t) /\ (Cleaned(s) => Cleaned(t))
  <1> DEFINE x == QueueOf(r)
             commands == CommandsOf(s, r, last)
             new == [q \in Queues |-> IF q = x THEN commands ELSE <<>>]
  <1>0. /\ s \in Channel /\ InStages(s) /\ CommandsFit(s) /\ QueuesSorted(s) /\ AnswersSorted(s)
        /\ Refreshes(s) /\ Arrivals(s)
    BY DEF Good
  <1>1. /\ r \in Known /\ r \notin SentSet(s) /\ \A q \in SentSet(s) : ~Precedes(s, r, q)
    BY <1>0, NoneSent
  <1>2. /\ address[r] \in [bank : Bank, sa : SubArray, row : Row] /\ x \in Queues
        /\ At(address[r]) \in Bank \X SubArray /\ Row \subseteq 0..ROWS /\ ROWS \in 0..ROWS
        /\ Known \subseteq Req
    BY <1>1, RequestsAre, Sizes
  <1>3. Serving(commands, x, r) /\ commands \in Seq(Command)
    <2>1. Serving(commands, x, r)  BY <1>0, <1>1, CommandsServe
    <2> QED  BY <2>1 DEF Serving
  <1>4. /\ Pairs(commands, CommandPairs(s))
        /\ \A c \in Elems(commands) : /\ CommandFits(x, c) /\ ~c.issued
                                      /\ Reading(c) => c.of = r
        /\ \E c \in Elems(commands) : Reading(c) /\ c.of = r
    BY <1>1, <1>3, ServingIs
  <1>5. /\ s.cq \in [Queues -> Seq(Command)] /\ s.effectiveRow \in [Bank \X SubArray -> 0..ROWS]
        /\ s.activateQueued \in [Bank -> BOOLEAN] /\ s.starvation \in [Bank \X SubArray -> Nat]
    BY <1>0, ChannelIs
  <1>6. /\ t.tq = tq /\ t.cq = [s.cq EXCEPT ![x] = @ \o commands]
        /\ t.served = s.served /\ t.arrived = s.arrived /\ t.writes = s.writes
        /\ t.refreshQueued = s.refreshQueued /\ t.refreshCounter = s.refreshCounter
        /\ t.issuedNow = s.issuedNow /\ t.calendar = s.calendar
    <2> HIDE DEF commands, x
    <2> QED  BY <1>0 DEF Served, Channel, commands, x
  <1>17. /\ t.effectiveRow = RowsOf(s, r, last)
         /\ t.activateQueued = [s.activateQueued EXCEPT ![address[r].bank] = OpensOf(s, r, last)]
    BY <1>0 DEF Served, Channel
  <1>18. t.starvation = [s.starvation EXCEPT ![At(address[r])] = StarvationOf(s, r, @)]
    BY <1>0 DEF Served, Channel
  <1>19. t = [s EXCEPT !.tq = t.tq, !.cq = t.cq, !.effectiveRow = t.effectiveRow,
                       !.activateQueued = t.activateQueued, !.starvation = t.starvation]
    <2> HIDE DEF commands, x
    <2> QED  BY <1>0 DEF Served, Channel, commands, x
  <1> HIDE DEF commands, x
  <1>7. new \in [Queues -> Seq(Command)] /\ \A q \in Queues :
          /\ q = x => new[q] = commands
          /\ q # x => new[q] = <<>> /\ Elems(new[q]) = {} /\ Pairs(new[q], CommandPairs(s))
    BY <1>3 DEF Elems, Pairs
  <1> HIDE DEF new
  <1>8. Appended(s, t, new)
    <2>1. ASSUME NEW q \in Queues PROVE  t.cq[q] = s.cq[q] \o new[q]
      <3>1. CASE q = x  BY <1>2, <1>5, <1>6, <1>7, <3>1
      <3>2. CASE q # x
        <4>1. s.cq[q] \in Seq(Command) /\ t.cq[q] = s.cq[q] /\ new[q] = <<>>
          BY <1>2, <1>5, <1>6, <1>7, <3>2
        <4> QED  BY <4>1
      <3> QED  BY <3>1, <3>2
    <2>2. t.cq = [q \in Queues |-> t.cq[q]]  BY <1>5, <1>6
    <2> QED  BY <2>1, <2>2 DEF Appended
  <1>9. /\ t.cq \in [Queues -> Seq(Command)] /\ CommandsFit(t)
        /\ \A q \in Queues : Pairs(t.cq[q], CommandPairs(t))
        /\ SentSet(t) = SentSet(s) \cup NewReads(new)
        /\ \A q \in Queues : Elems(t.cq[q]) = Elems(s.cq[q]) \cup Elems(new[q])
    <2>1. \A q \in Queues : Pairs(new[q], CommandPairs(s))  BY <1>4, <1>7
    <2>2. \A q \in Queues : \A c \in Elems(new[q]) :
               /\ CommandFits(q, c) /\ ~c.issued
               /\ Reading(c) => c.of \notin SentSet(s) /\ \A z \in SentSet(s) : ~Precedes(s, c.of, z)
      BY <1>1, <1>4, <1>7
    <2>3. t.writes = s.writes  BY <1>6
    <2>4. new \in [Queues -> Seq(Command)]  BY <1>7
    <2>5. t.cq \in [Queues -> Seq(Command)] /\ CommandsFit(t)
      BY <1>0, <1>8, <2>1, <2>2, <2>3, <2>4, Appends
    <2>6. SentSet(t) = SentSet(s) \cup NewReads(new)
      BY <1>0, <1>8, <2>1, <2>2, <2>3, <2>4, Appends
    <2>8. ASSUME NEW q \in Queues PROVE  Elems(t.cq[q]) = Elems(s.cq[q]) \cup Elems(new[q])
      <3>1. t.cq[q] = s.cq[q] \o new[q] /\ s.cq[q] \in Seq(Command) /\ new[q] \in Seq(Command)
        BY <1>5, <1>8, <2>4 DEF Appended
      <3> QED  BY <3>1, ConcatIs
    <2>7. \A q \in Queues : Pairs(t.cq[q], CommandPairs(t))
      BY <1>0, <1>8, <2>1, <2>2, <2>3, <2>4, Appends
    <2> QED  BY <2>5, <2>6, <2>7, <2>8
  <1>10. SentSet(t) = SentSet(s) \cup {r}
    <2>1. ASSUME NEW z \in Known
          PROVE  (\E q \in Queues : \E c \in Elems(new[q]) : Reading(c) /\ c.of = z) <=> z = r
      BY <1>2, <1>4, <1>7
    <2>2. NewReads(new) = {r}  BY <1>1, <2>1 DEF NewReads
    <2> QED  BY <1>9, <2>2
  <1>11. AnswersSorted(t) /\ AnswerSet(t) = AnswerSet(s)
    BY <1>0, <1>6, SameOrder DEF AnswersSorted, AnswerSet
  <1>12. InStages(t)  BY <1>0, <1>6, <1>10, <1>11, Sends
  <1>13. t \in Channel
    <2>1. t.effectiveRow \in [Bank \X SubArray -> 0..ROWS]
      <3>1. RowOf(s, r, last) \in 0..ROWS  BY <1>2 DEF RowOf
      <3> QED  BY <1>2, <1>5, <1>17, <3>1 DEF RowsOf
    <2>2. OpensOf(s, r, last) \in BOOLEAN  BY DEF OpensOf
    <2>3. t.activateQueued \in [Bank -> BOOLEAN]
      <3> HIDE DEF x
      <3> QED  BY <1>5, <1>17, <2>2
    <2>4. t.starvation \in [Bank \X SubArray -> Nat]
      <3>1. \A n \in Nat : StarvationOf(s, r, n) \in Nat  BY DEF CountHit, StarvationOf
      <3> DEFINE n == StarvationOf(s, r, s.starvation[At(address[r])])
      <3>2. n \in Nat  BY <1>2, <1>5, <3>1
      <3>3. t.starvation = [s.starvation EXCEPT ![At(address[r])] = n]  BY <1>18
      <3> HIDE DEF n
      <3> QED  BY <1>5, <3>2, <3>3
    <2> QED  BY ZenonT(60), <1>0, <1>6, <1>9, <1>19, <2>1, <2>3, <2>4 DEF Channel
  <1>14. QueuesSorted(t) /\ Arrivals(t)  BY <1>0, <1>6, <1>9 DEF QueuesSorted, Arrivals
  <1>15. Refreshes(t)
    <2>1. ASSUME NEW b \in Bank PROVE  GetCommandQueueId(BankHead(b), 0) \in Queues
      <3>1. p \in Params /\ BankHead(b) \in Bank /\ 0 \in SubArray
        BY GroupsAre, Sizes DEF Submitted
      <3> QED  BY <3>1, QueuesAre
    <2>2. ASSUME NEW b \in Bank, t.refreshQueued[b]
          PROVE  \E c \in Elems(t.cq[GetCommandQueueId(BankHead(b), 0)]) :
                    c.op = "REFRESH" /\ ~c.issued /\ c.at.bank = BankHead(b)
      <3>1. PICK c \in Elems(s.cq[GetCommandQueueId(BankHead(b), 0)]) :
                    c.op = "REFRESH" /\ ~c.issued /\ c.at.bank = BankHead(b)
        BY <1>0, <1>6, <2>2 DEF Refreshes
      <3> QED  BY <1>9, <2>1, <3>1
    <2> QED  BY <1>0, <1>6, <2>2 DEF Refreshes
  <1>16. Cleaned(s) => Cleaned(t)  BY <1>4, <1>6, <1>7, <1>9 DEF Cleaned
  <1> QED  BY <1>9, <1>11, <1>12, <1>13, <1>14, <1>15, <1>16 DEF Good

\* What the scheduler does when it takes a transaction.
Scheduling(s, r, last, tq, u, t) ==
    /\ r \in Known /\ last \in BOOLEAN /\ u = Served(s, r, last, tq)
    /\ Good(u) /\ (Cleaned(s) => Cleaned(u)) /\ Nudges(u, t)
    /\ t = ScheduleCommandWake(u)

\* Taking a transaction leaves its commands in their queue, and wakes the controller at most.
LEMMA ScheduleFromIs ==
    ASSUME Submitted, NEW s, Good(s), NEW queue, TheirQueue(s, queue),
           NEW t, t = ScheduleFrom(s, queue), t # s
    PROVE  \E r, last, tq, u : Scheduling(s, r, last, tq, u, t)
  <1> DEFINE i == FindRequest(s, queue)
             r == s.tq[i]
             last == IsLastRequest(s, queue \ {i}, r)
             tq == RemoveAt(s.tq, i)
             u == Served(s, r, last, tq)
  <1>0. s \in Channel /\ s.tq \in Seq(Req) /\ Pairs(s.tq, Rising) /\ i # None
    BY ChannelIs DEF Good, QueuesSorted, ScheduleFrom
  <1>1. i \in DOMAIN s.tq /\ r \in Known /\ \A q \in Elems(s.tq) : ~Precedes(s, q, r)
    BY <1>0, FindRequestIs
  <1>2. last \in BOOLEAN
    <2>1. p.closePage \in 0..2  BY ParamsAre DEF Submitted
    <2>2. p.closePage = 0 \/ p.closePage = 1 \/ p.closePage = 2  BY <2>1
    <2> QED  BY <2>2 DEF IsLastRequest
  <1>3. t = IssueMemoryCommands([s EXCEPT !.tq = tq], r, last)  BY <1>0 DEF ScheduleFrom
  <1>4. tq \in Seq(Req) /\ Pairs(tq, Rising) /\ Elems(tq) = Elems(s.tq) \ {r}
    BY <1>0, <1>1, RemoveIs
  <1>5. t = ScheduleCommandWake(u)
    <2> HIDE DEF last, tq, i
    <2> QED  BY <1>0, <1>2, <1>3, IssueMemoryCommandsIs
  <1>6. r \in Elems(s.tq)  BY <1>1 DEF Elems
  <1>7. u = Served(s, r, last, tq)  OBVIOUS
  <1> HIDE DEF last, tq, i, r, u
  <1>8. Good(u) /\ (Cleaned(s) => Cleaned(u))  BY <1>1, <1>2, <1>4, <1>6, <1>7, ServedKeeps
  <1>9. Nudges(u, t)  BY <1>5, <1>8, WakeNudges DEF Good
  <1> QED  BY <1>1, <1>2, <1>5, <1>7, <1>8, <1>9 DEF Scheduling

\* Every scheduler takes the oldest of a row.
LEMMA ScheduleFromKeeps ==
    ASSUME Submitted, NEW s, Good(s), NEW queue, TheirQueue(s, queue),
           NEW t, t = ScheduleFrom(s, queue)
    PROVE  Good(t) /\ (Cleaned(s) => Cleaned(t))
  <1>1. CASE t = s  BY <1>1
  <1>2. CASE t # s
    <2>1. PICK r, last, tq, u : Scheduling(s, r, last, tq, u, t)  BY <1>2, ScheduleFromIs
    <2> QED  BY <2>1, NudgeKeeps DEF Scheduling
  <1> QED  BY <1>1, <1>2

\* What FRFCFS-WQF does before it looks for a transaction.
Draining(s, u, queue, t) ==
    /\ u = [s EXCEPT !.draining = u.draining] /\ Good(u) /\ (Cleaned(s) => Cleaned(u))
    /\ TheirQueue(u, queue) /\ t = ScheduleFrom(u, queue)

\* Which of its queues it looks at is all that it decides before.
LEMMA ScheduleDrainIs ==
    ASSUME Submitted, NEW s, Good(s), p.scheduler = "FRFCFS-WQF", NEW t, t = ScheduleDrain(s)
    PROVE  \E u, queue : Draining(s, u, queue, t)
  <1> DEFINE u == SwitchDrain(s)
             queue == IF u.draining \/ (u.force_drain /\ readQueue(u) = {})
                      THEN writeQueue(u) ELSE readQueue(u)
  <1>0. s \in Channel /\ s.draining \in BOOLEAN /\ s.calendar \in Calendar
    BY ChannelIs DEF Good
  <1>1. \E d \in BOOLEAN : u = [s EXCEPT !.draining = d]
    <2>1. Cardinality(writeQueue(s)) \in Nat
      <3>1. writeQueue(s) \in SUBSET (1..Len(s.tq)) /\ Len(s.tq) \in Nat
        BY <1>0, ChannelIs, LenProperties DEF writeQueue
      <3>2. IsFiniteSet(1..Len(s.tq))  BY <3>1, FS_Interval
      <3>3. IsFiniteSet(writeQueue(s))  BY <3>1, <3>2, FS_Subset
      <3> QED  BY <3>3, FS_CardinalityType
    <2>2. p.HighWaterMark \in Nat /\ p.LowWaterMark \in Nat  BY MarksAre DEF Submitted
    <2> DEFINE low == Cardinality(writeQueue(s)) > p.LowWaterMark
               high == Cardinality(writeQueue(s)) >= p.HighWaterMark
    <2>3. low \in BOOLEAN /\ high \in BOOLEAN  BY <2>1, <2>2
    <2>4. u = [s EXCEPT !.draining = IF s.force_drain THEN s.draining
                                     ELSE IF s.draining THEN low ELSE high]
      BY DEF SwitchDrain
    <2> HIDE DEF low, high, u
    <2>5. CASE s.force_drain  BY <1>0, <2>4, <2>5
    <2>6. CASE ~s.force_drain /\ s.draining  BY <2>3, <2>4, <2>6
    <2>7. CASE ~s.force_drain /\ ~s.draining  BY <2>3, <2>4, <2>7
    <2> QED  BY <2>5, <2>6, <2>7
  <1>2. PICK d \in BOOLEAN : u = [s EXCEPT !.draining = d]  BY <1>1
  <1> HIDE DEF u
  <1>3. /\ u.served = s.served /\ u.arrived = s.arrived /\ u.writes = s.writes /\ u.tq = s.tq
        /\ u.cq = s.cq /\ u.refreshCounter = s.refreshCounter /\ u.refreshQueued = s.refreshQueued
        /\ u.calendar = s.calendar /\ u.issuedNow = s.issuedNow /\ u \in Channel
    BY <1>0, <1>2 DEF Channel
  <1>4. Good(u)
    <2>1. AnswersSorted(u) /\ AnswerSet(u) = AnswerSet(s)
      BY <1>3, SameOrder DEF AnswersSorted, AnswerSet, Good
    <2> QED  BY <1>3, <2>1, GoodKept
  <1>5. Cleaned(s) => Cleaned(u)  BY <1>3 DEF Cleaned
  <1>6. TheirQueue(u, queue)  BY DEF TheirQueue
  <1>7. t = ScheduleFrom(u, queue)  BY DEF ScheduleDrain, u
  <1> HIDE DEF queue
  <1>8. u = [s EXCEPT !.draining = u.draining]  BY <1>0, <1>2 DEF Channel
  <1> QED  BY <1>4, <1>5, <1>6, <1>7, <1>8 DEF Draining

\* FRFCFS-WQF takes it from one of its two queues.
LEMMA ScheduleDrainKeeps ==
    ASSUME Submitted, NEW s, Good(s), p.scheduler = "FRFCFS-WQF", NEW t, t = ScheduleDrain(s)
    PROVE  Good(t) /\ (Cleaned(s) => Cleaned(t))
  <1>1. PICK u, queue : Draining(s, u, queue, t)  BY ScheduleDrainIs
  <1> QED  BY <1>1, ScheduleFromKeeps DEF Draining

\* The whole of Cycle,
LEMMA CycleKeeps ==
    ASSUME Submitted, NEW s, Good(s), Cleaned(s), NEW t, t = Cycle(s)
    PROVE  Good(t) /\ Cleaned(t)
  <1> DEFINE u == IF p.scheduler = "FRFCFS-WQF" THEN ScheduleDrain(s)
                  ELSE ScheduleFrom(s, DOMAIN s.tq)
             v == CycleCommandQueues(u)
  <1>1. Good(u) /\ Cleaned(u)
    <2>1. CASE p.scheduler = "FRFCFS-WQF"
      <3>1. u = ScheduleDrain(s)  BY <2>1
      <3> HIDE DEF u
      <3> QED  BY <2>1, <3>1, ScheduleDrainKeeps
    <2>2. CASE p.scheduler # "FRFCFS-WQF"
      <3>1. u = ScheduleFrom(s, DOMAIN s.tq) /\ TheirQueue(s, DOMAIN s.tq)
        BY <2>2 DEF TheirQueue
      <3> HIDE DEF u
      <3> QED  BY <3>1, ScheduleFromKeeps
    <2> QED  BY <2>1, <2>2
  <1>2. t = Recheck(v)  BY DEF Cycle
  <1> HIDE DEF u
  <1>3. Good(v) /\ Cleaned(v)  BY <1>1, CycleCommandQueuesKeeps
  <1> HIDE DEF v
  <1>4. Nudges(v, t)  BY <1>2, <1>3, RecheckNudges DEF Good
  <1> QED  BY <1>3, <1>4, NudgeKeeps

\* and of the callback that only issues.
LEMMA CommandQueueCallbackKeeps ==
    ASSUME Submitted, NEW s, Good(s), Cleaned(s), NEW t, t = CommandQueueCallback(s)
    PROVE  Good(t) /\ Cleaned(t)
  <1> DEFINE u == ScheduleCommandWake(s)
  <1>1. Nudges(s, u)  BY WakeNudges DEF Good
  <1>2. t = CycleCommandQueues(u)  BY DEF CommandQueueCallback
  <1> HIDE DEF u
  <1>3. Good(u) /\ Cleaned(u)  BY <1>1, NudgeKeeps
  <1> QED  BY <1>2, <1>3, CycleCommandQueuesKeeps

\* The cleanup takes the issued commands out of their queues.
LEMMA CleanupKeeps ==
    ASSUME Submitted, NEW s, Good(s), NEW t, t = CleanupCallback(s)
    PROVE  Good(t) /\ Cleaned(t)
  <1>0. /\ s \in Channel /\ s.cq \in [Queues -> Seq(Command)] /\ InStages(s) /\ CommandsFit(s)
        /\ QueuesSorted(s) /\ AnswersSorted(s) /\ Refreshes(s) /\ Arrivals(s)
    BY ChannelIs DEF Good
  <1>1. /\ t = [s EXCEPT !.cq = t.cq] /\ t.cq = [q \in Queues |-> Unissued(s.cq[q])]
    BY <1>0 DEF CleanupCallback, Channel
  <1>2. /\ t.served = s.served /\ t.arrived = s.arrived /\ t.writes = s.writes /\ t.tq = s.tq
        /\ t.refreshCounter = s.refreshCounter /\ t.refreshQueued = s.refreshQueued
        /\ t.calendar = s.calendar
    BY <1>0, <1>1 DEF Channel
  <1>3. ASSUME NEW q \in Queues
        PROVE  /\ t.cq[q] \in Seq(Command) /\ Elems(t.cq[q]) = {c \in Elems(s.cq[q]) : ~c.issued}
               /\ Pairs(t.cq[q], CommandPairs(s))
    <2>1. t.cq[q] = Unissued(s.cq[q]) /\ s.cq[q] \in Seq(Command) /\ Pairs(s.cq[q], CommandPairs(s))
      BY <1>0, <1>1 DEF QueuesSorted
    <2> QED  BY <2>1, UnissuedIs
  <1>4. t \in Channel
    <2>1. t.cq \in [Queues -> Seq(Command)]  BY <1>1, <1>3
    <2> QED  BY ZenonT(60), <1>0, <1>1, <2>1 DEF Channel
  <1>5. SentSet(t) = SentSet(s)  BY <1>3 DEF SentSet, Reading
  <1>6. AnswersSorted(t) /\ AnswerSet(t) = AnswerSet(s)
    BY <1>0, <1>2, SameOrder DEF AnswersSorted, AnswerSet
  <1>7. InStages(t)  BY <1>0, <1>2, <1>5, <1>6, StagesKept
  <1>8. CommandsFit(t) /\ Arrivals(t)  BY <1>0, <1>2, <1>3 DEF CommandsFit, Arrivals
  <1>9. QueuesSorted(t)  BY <1>0, <1>2, <1>3, SameOrder DEF QueuesSorted
  <1>10. Refreshes(t)
    <2>1. ASSUME NEW b \in Bank, t.refreshQueued[b]
          PROVE  \E c \in Elems(t.cq[GetCommandQueueId(BankHead(b), 0)]) :
                    c.op = "REFRESH" /\ ~c.issued /\ c.at.bank = BankHead(b)
      <3>1. PICK c \in Elems(s.cq[GetCommandQueueId(BankHead(b), 0)]) :
                    c.op = "REFRESH" /\ ~c.issued /\ c.at.bank = BankHead(b)
        BY <1>0, <1>2, <2>1 DEF Refreshes
      <3>2. GetCommandQueueId(BankHead(b), 0) \in Queues
        <4>1. p \in Params /\ BankHead(b) \in Bank /\ 0 \in SubArray
          BY GroupsAre, Sizes DEF Submitted
        <4> QED  BY <4>1, QueuesAre
      <3> QED  BY <1>3, <3>1, <3>2
    <2> QED  BY <1>0, <1>2, <2>1 DEF Refreshes
  <1>11. Cleaned(t)  BY <1>3 DEF Cleaned
  <1> QED  BY <1>4, <1>6, <1>7, <1>8, <1>9, <1>10, <1>11 DEF Good

-----------------------------------------------------------------------------
(* Events that leave the calendar.                                         *)

\* Process() takes the head out of the list of this cycle.
LEMMA PopIs ==
    ASSUME NEW s, Good(s), s.calendar[0] # <<>>, NEW t, t = [s EXCEPT !.calendar[0] = Tail(@)]
    PROVE  /\ t \in Channel /\ s.calendar[0][1] \in Event
           /\ s.calendar[0][1].kind # "response" => Good(t)
           /\ s.calendar[0][1].kind # "CleanupCallback" /\ (Cleaned(s) \/ Cleans(s.calendar[0]))
                => Cleaned(t)
  <1>0. s \in Channel /\ s.calendar \in Calendar /\ AnswersSorted(s) /\ 0 \in 0..Horizon
    BY ChannelIs, Numbers DEF Good
  <1>1. /\ t.calendar = [s.calendar EXCEPT ![0] = Tail(@)] /\ t = [s EXCEPT !.calendar = t.calendar]
    BY <1>0 DEF Channel
  <1>2. /\ t.served = s.served /\ t.arrived = s.arrived /\ t.writes = s.writes /\ t.tq = s.tq
        /\ t.refreshCounter = s.refreshCounter /\ t.refreshQueued = s.refreshQueued
        /\ t.cq = s.cq /\ t.issuedNow = s.issuedNow
    BY <1>0, <1>1 DEF Channel
  <1>3. /\ t.calendar \in Calendar /\ AnswersSorted(t) /\ s.calendar[0][1] \in Event
        /\ s.calendar[0][1].kind # "response" => AnswerSet(t) = AnswerSet(s)
        /\ t.calendar[1] = s.calendar[1]
    <2>1. t.writes = s.writes /\ t.calendar = [s.calendar EXCEPT ![0] = Tail(@)]  BY <1>1, <1>2
    <2>2. t.calendar \in Calendar /\ AnswersSorted(t)  BY ZenonT(60), <1>0, <2>1, PopKeeps
    <2>3. s.calendar[0][1] \in Event /\ t.calendar[1] = s.calendar[1]
      <3>1. s.calendar[0] \in Seq(Event) /\ 1 \in 0..Horizon  BY <1>0, Numbers DEF Calendar
      <3>2. s.calendar[0][1] \in Event  BY <3>1, TailIs
      <3>3. t.calendar[1] = s.calendar[1]  BY <1>0, <2>1, <3>1 DEF Calendar
      <3> QED  BY <3>2, <3>3
    <2>4. s.calendar[0][1].kind # "response" => AnswerSet(t) = AnswerSet(s)
      BY <1>0, <2>1, PopQuiet
    <2> QED  BY <2>2, <2>3, <2>4
  <1>4. t \in Channel  BY <1>0, <1>1, <1>3 DEF Channel, Calendar
  <1>5. s.calendar[0][1].kind # "response" => Good(t)  BY <1>2, <1>3, <1>4, GoodKept
  <1>6. ASSUME s.calendar[0][1].kind # "CleanupCallback", Cleaned(s) \/ Cleans(s.calendar[0])
        PROVE  Cleaned(t)
    <2>1. Cleaned(s)  BY <1>6 DEF Cleans
    <2> QED  BY <1>2, <1>3, <2>1 DEF Cleaned
  <1> QED  BY <1>3, <1>4, <1>5, <1>6

\* The front end has its answer.
Hears(s, r) == [s EXCEPT !.served = @ \cup {r}]

\* A response is the end of its request.
LEMMA ResponseKeeps ==
    ASSUME NEW s, Good(s), s.calendar[0] # <<>>, s.calendar[0][1].kind = "response",
           NEW u, u = [s EXCEPT !.calendar[0] = Tail(@)],
           NEW t, t = Hears(u, s.calendar[0][1].what)
    PROVE  Good(t) /\ (Cleaned(u) => Cleaned(t))
  <1> DEFINE r == s.calendar[0][1].what
  <1>0. /\ s \in Channel /\ s.calendar \in Calendar /\ AnswersSorted(s) /\ InStages(s)
        /\ Arrivals(s) /\ CommandsFit(s) /\ QueuesSorted(s) /\ Refreshes(s)
        /\ s.served \in SUBSET Req
    BY ChannelIs DEF Good
  <1>1. u \in Channel /\ s.calendar[0][1] \in Event  BY PopIs
  <1>2. /\ u.calendar = [s.calendar EXCEPT ![0] = Tail(@)]
        /\ t.served = s.served \cup {r} /\ t.arrived = s.arrived /\ t.writes = s.writes /\ t.tq = s.tq
        /\ t.refreshCounter = s.refreshCounter /\ t.refreshQueued = s.refreshQueued
        /\ t.cq = s.cq /\ t.issuedNow = u.issuedNow /\ t.calendar = u.calendar /\ t.cq = u.cq
    BY <1>0 DEF Channel, Hears
  <1> HIDE DEF r
  <1>3. /\ t.calendar \in Calendar /\ AnswersSorted(t)
        /\ r \in AnswerSet(s) /\ AnswerSet(t) = AnswerSet(s) \ {r}
        /\ \A q \in AnswerSet(t) : ~Precedes(s, q, r)
    <2>1. t.calendar = [s.calendar EXCEPT ![0] = Tail(@)]  BY <1>2
    <2>2. t.writes = s.writes  BY <1>2
    <2>3. t.calendar \in Calendar /\ AnswersSorted(t)  BY <1>0, <2>1, <2>2, PopSorts
    <2>4. r \in AnswerSet(s) /\ AnswerSet(t) = AnswerSet(s) \ {r}
          /\ \A q \in AnswerSet(t) : ~Precedes(s, q, r)
      BY <1>0, <2>1, <2>2, PopAnswer DEF r
    <2> QED  BY <2>3, <2>4
  <1>4. t \in Channel
    <2>1. r \in Req  BY <1>1, EventIs DEF r
    <2>2. t = [u EXCEPT !.served = t.served] /\ t.served \in SUBSET Req
      BY <1>0, <1>1, <1>2, <2>1 DEF Channel, Hears
    <2> QED  BY ZenonT(60), <1>1, <2>2 DEF Channel
  <1>5. SentSet(t) = SentSet(s)  BY <1>2 DEF SentSet
  <1>6. InStages(t)  BY <1>0, <1>2, <1>3, <1>5, Serves
  <1>7. CommandsFit(t) /\ Arrivals(t)  BY <1>0, <1>2 DEF CommandsFit, Arrivals
  <1>8. QueuesSorted(t)  BY <1>0, <1>2, SameOrder DEF QueuesSorted
  <1>9. Refreshes(t)  BY <1>0, <1>2 DEF Refreshes
  <1>10. Cleaned(u) => Cleaned(t)  BY <1>2 DEF Cleaned
  <1> QED  BY <1>3, <1>4, <1>6, <1>7, <1>8, <1>9, <1>10 DEF Good

\* A subarray changes its state; an implicit precharge has it close later.
LEMMA BanksKeep ==
    ASSUME NEW s, Good(s), NEW t, t \in Channel, BanksOnly(s, t),
           AnswersSorted(t), AnswerSet(t) = AnswerSet(s),
           \A i \in 0..Horizon : Cleans(s.calendar[i]) => Cleans(t.calendar[i])
    PROVE  Good(t) /\ (Cleaned(s) => Cleaned(t))
  <1>1. /\ t.served = s.served /\ t.arrived = s.arrived /\ t.writes = s.writes /\ t.tq = s.tq
        /\ t.refreshCounter = s.refreshCounter /\ t.refreshQueued = s.refreshQueued
        /\ t.cq = s.cq /\ t.issuedNow = s.issuedNow
    BY DEF BanksOnly, Channel, Good
  <1>2. Good(t)  BY <1>1, GoodKept
  <1>3. Cleaned(s) => Cleaned(t)  BY <1>1, Numbers DEF Cleaned
  <1> QED  BY <1>2, <1>3

-----------------------------------------------------------------------------
(* Refresh.                                                                *)

\* The banks that HandleRefresh closes, and its commands.
OpenIn(s, g) == {b \in Group(g) : p.UsePrecharge /\ s.activateQueued[b]}
Place0(b) == [bank |-> b, sa |-> 0, row |-> 0]
CloseAll(b) == Cmd("PRECHARGE_ALL", None, Place0(b))
ClosingIn(s, g, q) == Ordered({b \in OpenIn(s, g) : GetCommandQueueId(b, 0) = q})
Precharges(s, g, q) == [k \in DOMAIN ClosingIn(s, g, q) |-> CloseAll(ClosingIn(s, g, q)[k])]
RefreshAt(g, q) ==
    IF q = GetCommandQueueId(g, 0) THEN <<Cmd("REFRESH", None, Place0(g))>> ELSE <<>>
RefreshCommands(s, g) == [q \in Queues |-> Precharges(s, g, q) \o RefreshAt(g, q)]
RefreshTaken(s, g) ==
    [s EXCEPT
        !.cq = [q \in Queues |-> s.cq[q] \o Precharges(s, g, q) \o RefreshAt(g, q)],
        !.activateQueued = [b \in Bank |-> s.activateQueued[b] /\ b \notin OpenIn(s, g)],
        !.effectiveRow = Forget(s.effectiveRow, OpenIn(s, g)),
        !.refreshQueued = [b \in Bank |-> s.refreshQueued[b] \/ b \in Group(g)],
        !.refreshedNow = TRUE]

\* HandleRefresh, with its parts named.
LEMMA HandleRefreshIs ==
    ASSUME NEW s \in Channel, NEW g \in Groups, NEW s0, s0 = [s EXCEPT !.refreshCounter[g] = @ + 1]
    PROVE  HandleRefresh(s0, g) = ScheduleCommandWake(RefreshTaken(s, g))
  <1>0. s.refreshCounter \in [Groups -> Nat]  BY ChannelIs
  <1>1. /\ s0.cq = s.cq /\ s0.activateQueued = s.activateQueued /\ s0.effectiveRow = s.effectiveRow
        /\ s0.refreshQueued = s.refreshQueued
        /\ s0.refreshCounter = [s.refreshCounter EXCEPT ![g] = @ + 1]
    BY DEF Channel
  <1>2. [s0.refreshCounter EXCEPT ![g] = @ - 1] = s.refreshCounter  BY <1>0, <1>1
  <1> DEFINE
        open == {b \in Group(g) : p.UsePrecharge /\ s.activateQueued[b]}
        where(b) == [bank |-> b, sa |-> 0, row |-> 0]
        closing(q) == Ordered({b \in open : GetCommandQueueId(b, 0) = q})
        precharges(q) ==
            [k \in DOMAIN closing(q) |-> Cmd("PRECHARGE_ALL", None, where(closing(q)[k]))]
        refresh(q) ==
            IF q = GetCommandQueueId(g, 0) THEN <<Cmd("REFRESH", None, where(g))>> ELSE <<>>
        queues == [q \in Queues |-> s.cq[q] \o precharges(q) \o refresh(q)]
        opens == [b \in Bank |-> s.activateQueued[b] /\ b \notin open]
        marks == [b \in Bank |-> s.refreshQueued[b] \/ b \in Group(g)]
  <1>3. HandleRefresh(s0, g) = ScheduleCommandWake(
          [s0 EXCEPT
             !.cq = queues,
             !.activateQueued = opens,
             !.effectiveRow = Forget(@, open),
             !.refreshQueued = marks,
             !.refreshCounter[g] = @ - 1,
             !.refreshedNow = TRUE])
    BY <1>1 DEF HandleRefresh
  <1>4. /\ open = OpenIn(s, g)
        /\ queues = [q \in Queues |-> s.cq[q] \o Precharges(s, g, q) \o RefreshAt(g, q)]
    BY DEF OpenIn, Precharges, RefreshAt, ClosingIn, CloseAll, Place0
  <1>5. /\ opens = [b \in Bank |-> s.activateQueued[b] /\ b \notin OpenIn(s, g)]
        /\ marks = [b \in Bank |-> s.refreshQueued[b] \/ b \in Group(g)]
    BY <1>4
  <1> HIDE DEF queues, opens, marks, open
  <1>6. [s0 EXCEPT
             !.cq = queues,
             !.activateQueued = opens,
             !.effectiveRow = Forget(@, open),
             !.refreshQueued = marks,
             !.refreshCounter[g] = @ - 1,
             !.refreshedNow = TRUE] = RefreshTaken(s, g)
    <2>1. [s0 EXCEPT
             !.cq = queues,
             !.activateQueued = opens,
             !.effectiveRow = Forget(@, open),
             !.refreshQueued = marks,
             !.refreshCounter[g] = @ - 1,
             !.refreshedNow = TRUE]
           = [s0 EXCEPT
             !.cq = queues,
             !.activateQueued = opens,
             !.effectiveRow = Forget(s.effectiveRow, open),
             !.refreshQueued = marks,
             !.refreshCounter = s.refreshCounter,
             !.refreshedNow = TRUE]
      BY <1>1, <1>2
    <2> DEFINE rows == Forget(s.effectiveRow, open)
    <2>2. RefreshTaken(s, g) =
            [s EXCEPT !.cq = queues, !.activateQueued = opens, !.effectiveRow = rows,
                      !.refreshQueued = marks, !.refreshedNow = TRUE]
      BY <1>4, <1>5 DEF RefreshTaken
    <2> HIDE DEF rows
    <2>3. [s0 EXCEPT !.cq = queues, !.activateQueued = opens, !.effectiveRow = rows,
                     !.refreshQueued = marks, !.refreshCounter = s.refreshCounter,
                     !.refreshedNow = TRUE]
          = [s EXCEPT !.cq = queues, !.activateQueued = opens, !.effectiveRow = rows,
                      !.refreshQueued = marks, !.refreshedNow = TRUE]
      BY DEF Channel
    <2> QED  BY <2>1, <2>2, <2>3 DEF rows
  <1> QED  BY <1>3, <1>6

\* The commands of a refresh read nothing, and the last of its queue is the REFRESH.
LEMMA RefreshCommandsAre ==
    ASSUME Submitted, NEW s \in Channel, NEW g \in Groups, NEW q \in Queues
    PROVE  /\ Precharges(s, g, q) \in Seq(Command) /\ RefreshAt(g, q) \in Seq(Command)
           /\ \A c \in Elems(Precharges(s, g, q)) :
                \E b \in OpenIn(s, g) : GetCommandQueueId(b, 0) = q /\ c = CloseAll(b)
           /\ \A c \in Elems(RefreshAt(g, q)) :
                q = GetCommandQueueId(g, 0) /\ c = Cmd("REFRESH", None, Place0(g))
           /\ q = GetCommandQueueId(g, 0) => Cmd("REFRESH", None, Place0(g)) \in Elems(RefreshAt(g, q))
           /\ \A b \in OpenIn(s, g) : q = GetCommandQueueId(b, 0)
                => CloseAll(b) \in Elems(Precharges(s, g, q))
  <1> DEFINE T == {b \in OpenIn(s, g) : GetCommandQueueId(b, 0) = q}
             o == ClosingIn(s, g, q)
  <1>1. /\ T \in SUBSET Bank /\ g \in Bank /\ T \in SUBSET Nat /\ IsFiniteSet(T)
    <2>1. Group(g) \subseteq Bank /\ IsFiniteSet(Group(g)) /\ g \in Bank /\ Bank \subseteq Nat
      BY GroupsAre, Sizes DEF Submitted
    <2>2. T \in SUBSET Group(g)  BY DEF OpenIn
    <2>3. IsFiniteSet(T)  BY <2>1, <2>2, FS_Subset
    <2> QED  BY <2>1, <2>2, <2>3
  <1>2. /\ o \in Seq(T) /\ DOMAIN o = 1..Cardinality(T) /\ Cardinality(T) \in Nat
        /\ \A k \in 1..Cardinality(T) : o[k] \in T
        /\ \A b \in T : \E k \in 1..Cardinality(T) : o[k] = b
    <2>1. o = Ordered(T)  BY DEF ClosingIn
    <2> HIDE DEF T, o
    <2> QED  BY <1>1, <2>1, OrderedIs
  <1>3. \A b \in Bank : CloseAll(b) \in Command /\ Cmd("REFRESH", None, Place0(b)) \in Command
    BY Sizes DEF CloseAll, Cmd, Command, Place0
  <1>4. Precharges(s, g, q) = [k \in 1..Cardinality(T) |-> CloseAll(o[k])]
    BY <1>2 DEF Precharges
  <1>5. Precharges(s, g, q) \in Seq(Command)
    <2> HIDE DEF o
    <2>1. \A k \in 1..Cardinality(T) : CloseAll(o[k]) \in Command  BY <1>1, <1>2, <1>3
    <2> HIDE DEF T
    <2> QED  BY <1>2, <1>4, <2>1
  <1>6. ASSUME NEW c \in Elems(Precharges(s, g, q))
        PROVE  \E b \in OpenIn(s, g) : GetCommandQueueId(b, 0) = q /\ c = CloseAll(b)
    <2>1. PICK k \in 1..Cardinality(T) : c = CloseAll(o[k])  BY <1>4 DEF Elems
    <2>2. o[k] \in T  BY <1>2
    <2> HIDE DEF o
    <2> QED  BY <2>1, <2>2
  <1>7. ASSUME NEW b \in OpenIn(s, g), q = GetCommandQueueId(b, 0)
        PROVE  CloseAll(b) \in Elems(Precharges(s, g, q))
    <2>1. b \in T  BY <1>7
    <2>2. PICK k \in 1..Cardinality(T) : o[k] = b  BY <1>2, <2>1
    <2> HIDE DEF o, T
    <2> QED  BY <1>4, <2>2 DEF Elems
  <1>8. /\ RefreshAt(g, q) \in Seq(Command)
        /\ \A c \in Elems(RefreshAt(g, q)) :
             q = GetCommandQueueId(g, 0) /\ c = Cmd("REFRESH", None, Place0(g))
        /\ q = GetCommandQueueId(g, 0) => Cmd("REFRESH", None, Place0(g)) \in Elems(RefreshAt(g, q))
    <2> DEFINE refresh == Cmd("REFRESH", None, Place0(g))
    <2>1. refresh \in Command  BY <1>1, <1>3
    <2> HIDE DEF refresh
    <2>2. CASE q = GetCommandQueueId(g, 0)
      <3>1. RefreshAt(g, q) = <<refresh>>  BY <2>2 DEF RefreshAt, refresh
      <3>2. <<refresh>> \in Seq(Command) /\ Elems(<<refresh>>) = {refresh}  BY <2>1 DEF Elems
      <3> QED  BY <2>2, <3>1, <3>2 DEF refresh
    <2>3. CASE q # GetCommandQueueId(g, 0)
      <3>1. RefreshAt(g, q) = <<>>  BY <2>3 DEF RefreshAt
      <3> QED  BY <2>3, <3>1 DEF Elems
    <2> QED  BY <2>2, <2>3
  <1> QED  BY <1>5, <1>6, <1>7, <1>8

\* Appending twice.
LEMMA ThreeQueues ==
    ASSUME NEW a \in Seq(Command), NEW b \in Seq(Command), NEW c \in Seq(Command)
    PROVE  (a \o b) \o c = a \o (b \o c)
  BY ConcatAssociative

\* A refresh is queued for all banks of its group and moves no request.
LEMMA RefreshTakenKeeps ==
    ASSUME Submitted, NEW s, Good(s), NEW g \in Groups, NEW t, t = RefreshTaken(s, g)
    PROVE  Good(t) /\ (Cleaned(s) => Cleaned(t))
  <1> DEFINE new == RefreshCommands(s, g)
  <1>0. /\ s \in Channel /\ InStages(s) /\ CommandsFit(s) /\ QueuesSorted(s) /\ AnswersSorted(s)
        /\ Refreshes(s) /\ Arrivals(s) /\ s.cq \in [Queues -> Seq(Command)]
        /\ s.effectiveRow \in [Bank \X SubArray -> 0..ROWS]
        /\ s.activateQueued \in [Bank -> BOOLEAN] /\ s.refreshQueued \in [Bank -> BOOLEAN]
    BY ChannelIs DEF Good
  <1>1. /\ t.cq = [q \in Queues |-> s.cq[q] \o Precharges(s, g, q) \o RefreshAt(g, q)]
        /\ t.refreshQueued = [b \in Bank |-> s.refreshQueued[b] \/ b \in Group(g)]
        /\ t.served = s.served /\ t.arrived = s.arrived /\ t.writes = s.writes /\ t.tq = s.tq
        /\ t.refreshCounter = s.refreshCounter /\ t.issuedNow = s.issuedNow
        /\ t.calendar = s.calendar
    BY <1>0 DEF RefreshTaken, Channel
  <1>2. /\ t.activateQueued = [b \in Bank |-> s.activateQueued[b] /\ b \notin OpenIn(s, g)]
        /\ t.effectiveRow = Forget(s.effectiveRow, OpenIn(s, g)) /\ t.refreshedNow = TRUE
    BY <1>0 DEF RefreshTaken, Channel
  <1>3. t = [s EXCEPT !.cq = t.cq, !.activateQueued = t.activateQueued,
                      !.effectiveRow = t.effectiveRow, !.refreshQueued = t.refreshQueued,
                      !.refreshedNow = TRUE]
    BY <1>0 DEF RefreshTaken, Channel
  <1>4. /\ BankHead(g) = g /\ g \in Bank /\ 0 \in SubArray /\ GetCommandQueueId(g, 0) \in Queues
        /\ \A b \in Bank : GetCommandQueueId(b, 0) \in Queues /\ BankHead(b) \in Bank
        /\ Group(g) \subseteq Bank /\ Groups \subseteq Bank
    <2>1. p \in Params /\ 0 \in SubArray  BY Sizes DEF Submitted
    <2> QED  BY <2>1, GroupsAre, QueuesAre
  <1>5. ASSUME NEW q \in Queues
        PROVE  /\ new[q] = Precharges(s, g, q) \o RefreshAt(g, q) /\ new[q] \in Seq(Command)
               /\ Elems(new[q]) = Elems(Precharges(s, g, q)) \cup Elems(RefreshAt(g, q))
               /\ t.cq[q] = s.cq[q] \o new[q]
    <2>1. Precharges(s, g, q) \in Seq(Command) /\ RefreshAt(g, q) \in Seq(Command)
          /\ s.cq[q] \in Seq(Command)
      BY <1>0, RefreshCommandsAre
    <2>2. new[q] = Precharges(s, g, q) \o RefreshAt(g, q)  BY DEF RefreshCommands
    <2>3. t.cq[q] = (s.cq[q] \o Precharges(s, g, q)) \o RefreshAt(g, q)  BY <1>1
    <2> HIDE DEF new
    <2>4. t.cq[q] = s.cq[q] \o new[q]
      <3> DEFINE a == s.cq[q]
                 b == Precharges(s, g, q)
                 c == RefreshAt(g, q)
      <3>1. a \in Seq(Command) /\ b \in Seq(Command) /\ c \in Seq(Command)  BY <2>1
      <3>2. t.cq[q] = (a \o b) \o c /\ new[q] = b \o c  BY <2>2, <2>3
      <3> HIDE DEF a, b, c
      <3>3. (a \o b) \o c = a \o (b \o c)  BY <3>1, ThreeQueues
      <3>4. t.cq[q] = a \o new[q]  BY <3>2, <3>3
      <3> QED  BY <3>4 DEF a
    <2> QED  BY <2>1, <2>2, <2>4, ConcatIs
  <1>6. new \in [Queues -> Seq(Command)] /\ Appended(s, t, new)
    <2>1. new = [q \in Queues |-> new[q]] /\ t.cq = [q \in Queues |-> t.cq[q]]
      BY <1>1 DEF RefreshCommands
    <2> HIDE DEF new
    <2> QED  BY <1>5, <2>1 DEF Appended
  <1>7. ASSUME NEW q \in Queues, NEW c \in Elems(new[q])
        PROVE  c \in Command /\ CommandFits(q, c) /\ ~c.issued /\ ~Reading(c)
    <2>0. c \in Command  BY <1>5, ElemIs
    <2>1. CASE c \in Elems(Precharges(s, g, q))
      <3>1. PICK b \in OpenIn(s, g) : GetCommandQueueId(b, 0) = q /\ c = CloseAll(b)
        BY <1>0, <2>1, RefreshCommandsAre
      <3>2. p.UsePrecharge  BY DEF OpenIn
      <3>3. c.op = "PRECHARGE_ALL" /\ c.at.bank = b /\ c.at.sa = 0 /\ ~c.issued
        BY <3>1 DEF CloseAll, Cmd, Place0
      <3> QED  BY <2>0, <3>1, <3>2, <3>3 DEF CommandFits, Reading, Reads
    <2>2. CASE c \in Elems(RefreshAt(g, q))
      <3>1. q = GetCommandQueueId(g, 0) /\ c = Cmd("REFRESH", None, Place0(g))
        BY <1>0, <2>2, RefreshCommandsAre
      <3>2. c.op = "REFRESH" /\ c.at.bank = g /\ c.at.sa = 0 /\ ~c.issued
        BY <3>1 DEF Cmd, Place0
      <3> QED  BY <2>0, <3>1, <3>2 DEF CommandFits, Reading, Reads
    <2> QED  BY <1>5, <1>7, <2>1, <2>2
  <1> HIDE DEF new
  <1>8. \A q \in Queues : Pairs(new[q], CommandPairs(s))  BY <1>7 DEF Pairs, CommandPairs, Elems
  <1>9. /\ t.cq \in [Queues -> Seq(Command)] /\ CommandsFit(t)
        /\ \A q \in Queues : Pairs(t.cq[q], CommandPairs(t))
        /\ SentSet(t) = SentSet(s)
    <2>1. \A q \in Queues : \A c \in Elems(new[q]) :
               /\ CommandFits(q, c) /\ ~c.issued
               /\ Reading(c) => c.of \notin SentSet(s) /\ \A z \in SentSet(s) : ~Precedes(s, c.of, z)
      BY <1>7
    <2>2. t.writes = s.writes  BY <1>1
    <2>3. t.cq \in [Queues -> Seq(Command)] /\ CommandsFit(t)
      BY <1>0, <1>6, <1>8, <2>1, <2>2, Appends
    <2>4. \A q \in Queues : Pairs(t.cq[q], CommandPairs(t))
      BY <1>0, <1>6, <1>8, <2>1, <2>2, Appends
    <2>5. SentSet(t) = SentSet(s) \cup NewReads(new)  BY <1>0, <1>6, <1>8, <2>1, <2>2, Appends
    <2>6. NewReads(new) = {}  BY <1>7 DEF NewReads
    <2> QED  BY <2>3, <2>4, <2>5, <2>6
  <1>10. ASSUME NEW q \in Queues PROVE  Elems(t.cq[q]) = Elems(s.cq[q]) \cup Elems(new[q])
    <2>1. t.cq[q] = s.cq[q] \o new[q] /\ s.cq[q] \in Seq(Command) /\ new[q] \in Seq(Command)
      BY <1>0, <1>5
    <2> QED  BY <2>1, ConcatIs
  <1>11. AnswersSorted(t) /\ AnswerSet(t) = AnswerSet(s)
    BY <1>0, <1>1, SameOrder DEF AnswersSorted, AnswerSet
  <1>12. InStages(t)  BY <1>0, <1>1, <1>9, <1>11, StagesKept
  <1>13. t \in Channel
    <2>1. t.effectiveRow \in [Bank \X SubArray -> 0..ROWS]  BY <1>0, <1>2, Sizes DEF Forget
    <2>2. t.activateQueued \in [Bank -> BOOLEAN] /\ t.refreshQueued \in [Bank -> BOOLEAN]
      BY <1>0, <1>1, <1>2
    <2> QED  BY ZenonT(60), <1>0, <1>3, <1>9, <2>1, <2>2 DEF Channel
  <1>14. QueuesSorted(t) /\ Arrivals(t)  BY <1>0, <1>1, <1>9 DEF QueuesSorted, Arrivals
  <1>15. Refreshes(t)
    <2>1. ASSUME NEW b \in Bank, t.refreshQueued[b]
          PROVE  \E c \in Elems(t.cq[GetCommandQueueId(BankHead(b), 0)]) :
                    c.op = "REFRESH" /\ ~c.issued /\ c.at.bank = BankHead(b)
      <3>0. GetCommandQueueId(BankHead(b), 0) \in Queues  BY <1>4
      <3>1. CASE s.refreshQueued[b]
        <4>1. PICK c \in Elems(s.cq[GetCommandQueueId(BankHead(b), 0)]) :
                    c.op = "REFRESH" /\ ~c.issued /\ c.at.bank = BankHead(b)
          BY <1>0, <3>1 DEF Refreshes
        <4> QED  BY <1>10, <3>0, <4>1
      <3>2. CASE b \in Group(g)
        <4>1. BankHead(b) = g  BY <1>4, <3>2 DEF Group
        <4> DEFINE c == Cmd("REFRESH", None, Place0(g))
                   q == GetCommandQueueId(g, 0)
        <4>2. c \in Elems(RefreshAt(g, q))  BY <1>0, <1>4, RefreshCommandsAre
        <4>3. c.op = "REFRESH" /\ c.at.bank = g /\ ~c.issued  BY DEF Cmd, Place0
        <4> HIDE DEF c
        <4>4. c \in Elems(t.cq[q])  BY <1>4, <1>5, <1>10, <4>2
        <4> QED  BY <4>1, <4>3, <4>4
      <3> QED  BY <1>1, <2>1, <3>1, <3>2
    <2> QED  BY <1>0, <1>1, <2>1 DEF Refreshes
  <1>16. Cleaned(s) => Cleaned(t)  BY <1>1, <1>7, <1>10 DEF Cleaned
  <1> QED  BY <1>9, <1>11, <1>12, <1>13, <1>14, <1>15, <1>16 DEF Good

\* A pulse counts, or takes the banks of the group and schedules a wake.
LEMMA RefreshCallbackIs ==
    ASSUME NEW s \in Channel, NEW g \in Groups, NEW t, t = RefreshCallback(s, g),
           NEW s0, s0 = [s EXCEPT !.refreshCounter[g] = @ + 1]
    PROVE  IF NeedRefresh(s0, g) THEN t = ScheduleCommandWake(RefreshTaken(s, g)) ELSE t = s0
  BY HandleRefreshIs DEF RefreshCallback

\* The refresh is queued in the pulse in which it is due.
LEMMA RefreshCallbackKeeps ==
    ASSUME Submitted, NEW s, Good(s), NEW g \in Groups, NEW t, t = RefreshCallback(s, g)
    PROVE  Good(t) /\ (Cleaned(s) => Cleaned(t))
  <1> DEFINE s0 == [s EXCEPT !.refreshCounter[g] = @ + 1]
  <1>0. s \in Channel /\ s.refreshCounter \in [Groups -> Nat] /\ Refreshes(s) /\ BankHead(g) = g
    BY ChannelIs, GroupsAre DEF Good, Submitted
  <1>1. CASE NeedRefresh(s0, g)
    <2>1. PICK u : u = RefreshTaken(s, g)  OBVIOUS
    <2>2. t = ScheduleCommandWake(u)  BY <1>0, <1>1, <2>1, RefreshCallbackIs
    <2>3. Good(u) /\ (Cleaned(s) => Cleaned(u))  BY <2>1, RefreshTakenKeeps
    <2>4. Nudges(u, t)  BY <2>2, <2>3, WakeNudges DEF Good
    <2> QED  BY <2>3, <2>4, NudgeKeeps
  <1>2. CASE ~NeedRefresh(s0, g)
    <2>1. t = [s EXCEPT !.refreshCounter[g] = @ + 1]  BY <1>2 DEF RefreshCallback
    <2>2. /\ t.refreshCounter = [s.refreshCounter EXCEPT ![g] = @ + 1]
          /\ t = [s EXCEPT !.refreshCounter = t.refreshCounter]
          /\ t.served = s.served /\ t.arrived = s.arrived /\ t.writes = s.writes /\ t.tq = s.tq
          /\ t.refreshQueued = s.refreshQueued /\ t.issuedNow = s.issuedNow
          /\ t.calendar = s.calendar /\ t.cq = s.cq
      BY <1>0, <2>1 DEF Channel
    <2>3. t.refreshCounter[g] < DelayedRefreshThreshold
      <3>1. ~(s.refreshCounter[g] + 1 >= DelayedRefreshThreshold)
        BY <1>0, <1>2 DEF NeedRefresh, Channel
      <3>2. t.refreshCounter[g] = s.refreshCounter[g] + 1 /\ s.refreshCounter[g] \in Nat
        BY <1>0, <2>2
      <3> QED  BY <3>1, <3>2, Numbers
    <2>4. t.refreshCounter \in [Groups -> Nat]  BY <1>0, <2>2
    <2>5. t \in Channel  BY <1>0, <2>2, <2>4 DEF Channel
    <2>6. Refreshes(t)  BY <1>0, <2>2, <2>3 DEF Refreshes
    <2>7. AnswersSorted(t) /\ AnswerSet(t) = AnswerSet(s) /\ SentSet(t) = SentSet(s)
      BY <2>2, SameOrder DEF AnswersSorted, AnswerSet, SentSet, Good
    <2>8. InStages(t)  BY <2>2, <2>7, StagesKept DEF Good
    <2>9. CommandsFit(t) /\ Arrivals(t) /\ (Cleaned(s) => Cleaned(t))
      BY <2>2 DEF CommandsFit, Arrivals, Good, Cleaned
    <2>10. QueuesSorted(t)  BY <2>2, SameOrder DEF QueuesSorted, Good
    <2> QED  BY <2>5, <2>6, <2>7, <2>8, <2>9, <2>10 DEF Good
  <1> QED  BY <1>1, <1>2

\* A subarray reports when it has closed,
LEMMA ClosedInserts ==
    ASSUME NEW s, NEW t, t.writes = s.writes, s.calendar \in Calendar, AnswersSorted(s),
           NEW a \in Bank \X SubArray, t.calendar = InsertEvent(s.calendar, "closed", a, tRP, 0)
    PROVE  /\ t.calendar \in Calendar /\ AnswersSorted(t) /\ AnswerSet(t) = AnswerSet(s)
           /\ \A i \in 0..Horizon : Cleans(s.calendar[i]) => Cleans(t.calendar[i])
  <1>1. t.calendar = InsertEvents(s.calendar, "closed", <<a>>, tRP, 0)  BY OneClosing
  <1>2. "closed" \in Closings /\ <<a>> \in Seq(Bank \X SubArray) /\ tRP \in 0..Horizon
    BY Numbers DEF Closings
  <1> QED  BY <1>1, <1>2, ClosingsKeep

\* A subarray starts to close, after its last read;
StartsClosing(s, a) ==
    [s EXCEPT !.array[a].state = "precharging",
              !.calendar = InsertEvent(@, "closed", a, tRP, 0)]

\* after it started to close,
LEMMA ImplicitPrechargeKeeps ==
    ASSUME NEW s, Good(s), NEW a \in Bank \X SubArray, NEW t, t = StartsClosing(s, a)
    PROVE  Good(t) /\ (Cleaned(s) => Cleaned(t))
  <1>0. /\ s \in Channel /\ s.calendar \in Calendar /\ AnswersSorted(s)
        /\ s.array \in [Bank \X SubArray -> ArrayState]
    BY ChannelIs DEF Good
  <1>1. /\ t.array = [s.array EXCEPT ![a].state = "precharging"] /\ t.writes = s.writes
        /\ t.calendar = InsertEvent(s.calendar, "closed", a, tRP, 0)
        /\ t = [s EXCEPT !.array = t.array, !.calendar = t.calendar]
    BY <1>0 DEF Channel, StartsClosing
  <1>2. /\ t.calendar \in Calendar /\ AnswersSorted(t) /\ AnswerSet(t) = AnswerSet(s)
        /\ \A i \in 0..Horizon : Cleans(s.calendar[i]) => Cleans(t.calendar[i])
    <2>1. s.calendar \in Calendar /\ t.writes = s.writes /\ AnswersSorted(s)
          /\ t.calendar = InsertEvent(s.calendar, "closed", a, tRP, 0)
      BY <1>0, <1>1
    <2> QED  BY <2>1, ClosedInserts
  <1>3. t \in Channel /\ BanksOnly(s, t)
    <2>1. t.array \in [Bank \X SubArray -> ArrayState]
      <3>1. s.array[a] \in ArrayState  BY <1>0
      <3>2. [s.array[a] EXCEPT !.state = "precharging"] \in ArrayState  BY <3>1 DEF ArrayState
      <3> QED  BY <1>0, <1>1, <3>2
    <2>2. t = [s EXCEPT !.array = t.array, !.active = t.active, !.calendar = t.calendar]
      BY <1>0, <1>1 DEF Channel
    <2>3. t \in Channel  BY ZenonT(60), <1>0, <1>1, <1>2, <2>1 DEF Channel, Calendar
    <2> QED  BY <2>2, <2>3 DEF BanksOnly
  <1> QED  BY <1>2, <1>3, BanksKeep

\* has closed, or is refreshed.
LEMMA ArrayKeeps ==
    ASSUME NEW s, Good(s), NEW a \in Bank \X SubArray, NEW x \in ArrayState, NEW t,
           t = [s EXCEPT !.array[a] = x]
    PROVE  Good(t) /\ (Cleaned(s) => Cleaned(t))
  <1>0. /\ s \in Channel /\ AnswersSorted(s) /\ s.array \in [Bank \X SubArray -> ArrayState]
    BY ChannelIs DEF Good
  <1>1. /\ t.array = [s.array EXCEPT ![a] = x] /\ t.writes = s.writes /\ t.calendar = s.calendar
        /\ t = [s EXCEPT !.array = t.array]
    BY <1>0 DEF Channel
  <1>2. t.array \in [Bank \X SubArray -> ArrayState]  BY <1>0, <1>1
  <1>3. t \in Channel /\ t = [s EXCEPT !.array = t.array, !.active = t.active, !.calendar = t.calendar]
    BY <1>0, <1>1, <1>2 DEF Channel
  <1>4. AnswersSorted(t) /\ AnswerSet(t) = AnswerSet(s)
    BY <1>0, <1>1, SameOrder DEF AnswersSorted, AnswerSet
  <1>5. BanksOnly(s, t) /\ \A i \in 0..Horizon : Cleans(s.calendar[i]) => Cleans(t.calendar[i])
    BY <1>1, <1>3 DEF BanksOnly
  <1>6. t \in Channel  BY <1>3
  <1> QED  BY <1>4, <1>5, <1>6, BanksKeep

HasClosed(s, a) == [s EXCEPT !.array[a] = [@ EXCEPT !.state = "closed", !.row = ROWS]]
StaysOpen(s, a) == [s EXCEPT !.array[a] = [@ EXCEPT !.state = "open"]]

\* and changes its state only then.
LEMMA ClosedKeeps ==
    ASSUME NEW s, Good(s), NEW a \in Bank \X SubArray, NEW t,
           t = HasClosed(s, a) \/ t = StaysOpen(s, a)
    PROVE  Good(t) /\ (Cleaned(s) => Cleaned(t))
  <1> DEFINE closed == [s.array[a] EXCEPT !.state = "closed", !.row = ROWS]
             open == [s.array[a] EXCEPT !.state = "open"]
  <1>1. s \in Channel /\ s.array \in [Bank \X SubArray -> ArrayState] /\ s.array[a] \in ArrayState
    BY ChannelIs DEF Good
  <1>2. closed \in ArrayState /\ open \in ArrayState
    <2>1. ROWS \in 0..ROWS  BY Sizes
    <2> QED  BY <1>1, <2>1 DEF ArrayState
  <1>3. t = [s EXCEPT !.array[a] = closed] \/ t = [s EXCEPT !.array[a] = open]
    BY <1>1 DEF Channel, HasClosed, StaysOpen
  <1> HIDE DEF closed, open
  <1>4. CASE t = [s EXCEPT !.array[a] = closed]  BY <1>2, <1>4, ArrayKeeps
  <1>5. CASE t = [s EXCEPT !.array[a] = open]  BY <1>2, <1>5, ArrayKeeps
  <1> QED  BY <1>3, <1>4, <1>5

-----------------------------------------------------------------------------
(* The next cycle.                                                         *)

Pulses == [j \in 1..Cardinality(Due) |-> Pulse(Ordered(Due)[j])]

\* Pulses are refreshes.
LEMMA PulsesAre ==
    ASSUME Submitted
    PROVE  Pulses \in Seq(Event) /\ \A e \in Elems(Pulses) : e.kind = "RefreshCallback"
  <1>1. Due \in SUBSET Groups /\ Due \in SUBSET Nat /\ IsFiniteSet(Due)
    <2>1. Due \subseteq Groups /\ Groups \subseteq Bank  BY GroupsAre DEF Submitted, Due
    <2>2. Bank \subseteq Nat /\ IsFiniteSet(Bank)  BY Sizes
    <2> QED  BY <2>1, <2>2, FS_Subset
  <1>2. Cardinality(Due) \in Nat /\ \A k \in 1..Cardinality(Due) : Ordered(Due)[k] \in Groups
    BY <1>1, OrderedIs
  <1>3. \A k \in 1..Cardinality(Due) : Pulse(Ordered(Due)[k]) \in Event
    BY <1>2 DEF Pulse, Callback, Event, refreshPriority
  <1>4. Pulses \in Seq(Event) /\ DOMAIN Pulses = 1..Cardinality(Due)  BY <1>2, <1>3 DEF Pulses
  <1>5. \A k \in 1..Cardinality(Due) : Pulses[k].kind = "RefreshCallback"
    BY DEF Pulses, Pulse, Callback
  <1> QED  BY <1>4, <1>5 DEF Elems

\* The times of a subarray stay in range.
LEMMA LaterIs ==
    ASSUME NEW here \in ArrayState
    PROVE  CycleLater(here) \in ArrayState
  <1>1. \A n \in 0..Horizon : Less(n) \in 0..Horizon  BY Numbers DEF Less
  <1>2. /\ Less(here.nextActivate) \in 0..Horizon /\ Less(here.nextRead) \in 0..Horizon
        /\ Less(here.nextPrecharge) \in 0..Horizon
    BY <1>1 DEF ArrayState
  <1> QED  BY <1>2 DEF CycleLater, ArrayState

\* Nothing is left to run in the cycle that ends: what was issued in it is cleaned up next.
Ticked(s) ==
    [s EXCEPT !.calendar = [i \in 0..Horizon |->
                              IF i < Horizon THEN @[i + 1]
                              ELSE [j \in 1..Cardinality(Due) |-> Pulse(Ordered(Due)[j])]],
              !.arrived = {}, !.started = TRUE, !.issuedNow = FALSE, !.refreshedNow = FALSE,
              !.array = [a \in Bank \X SubArray |-> CycleLater(@[a])]]

\* The next cycle: cleanups that were to come are due.
LEMMA TickKeeps ==
    ASSUME Submitted, NEW s, Good(s), Cleaned(s), s.calendar[0] = <<>>, NEW t, t = Ticked(s)
    PROVE  Good(t) /\ (Cleaned(t) \/ Cleans(t.calendar[0]))
  <1>0. /\ s \in Channel /\ s.calendar \in Calendar /\ InStages(s) /\ CommandsFit(s)
        /\ QueuesSorted(s) /\ AnswersSorted(s) /\ Refreshes(s) /\ Arrivals(s)
        /\ s.array \in [Bank \X SubArray -> ArrayState]
    BY ChannelIs DEF Good
  <1>1. t.calendar = Shifted(s.calendar, Pulses)  BY <1>0 DEF Channel, Ticked, Shifted, Pulses
  <1>2. t.array = [a \in Bank \X SubArray |-> CycleLater(s.array[a])]
    BY <1>0 DEF Channel, Ticked
  <1>3. t = [s EXCEPT !.calendar = t.calendar, !.arrived = {}, !.started = TRUE,
                      !.issuedNow = FALSE, !.refreshedNow = FALSE, !.array = t.array]
    BY <1>0, <1>1, <1>2 DEF Channel, Ticked, Shifted, Pulses
  <1>4. /\ t.served = s.served /\ t.arrived = {} /\ t.writes = s.writes /\ t.tq = s.tq
        /\ t.cq = s.cq /\ t.refreshCounter = s.refreshCounter /\ t.refreshQueued = s.refreshQueued
        /\ t.issuedNow = FALSE
    BY <1>0, <1>3 DEF Channel
  <1>5. /\ t.calendar \in Calendar /\ AnswersSorted(t) /\ AnswerSet(t) = AnswerSet(s)
        /\ t.calendar[0] = s.calendar[1]
    <2>1. Pulses \in Seq(Event) /\ \A e \in Elems(Pulses) : e.kind = "RefreshCallback"
      BY PulsesAre
    <2> QED  BY <1>0, <1>1, <1>4, <2>1, ShiftKeeps
  <1>6. t \in Channel
    <2>1. t.array \in [Bank \X SubArray -> ArrayState]  BY <1>0, <1>2, LaterIs
    <2> QED  BY ZenonT(60), <1>0, <1>3, <1>5, <2>1 DEF Channel, Calendar
  <1>7. SentSet(t) = SentSet(s)  BY <1>4 DEF SentSet
  <1>8. InStages(t)  BY <1>0, <1>4, <1>5, <1>7, StagesKept
  <1>9. Arrivals(t) /\ CommandsFit(t)  BY <1>0, <1>4 DEF Arrivals, CommandsFit
  <1>10. QueuesSorted(t)  BY <1>0, <1>4, SameOrder DEF QueuesSorted
  <1>11. Refreshes(t)  BY <1>0, <1>4 DEF Refreshes
  <1>12. Cleaned(t) \/ Cleans(t.calendar[0])  BY <1>4, <1>5 DEF Cleaned
  <1> QED  BY <1>5, <1>6, <1>8, <1>9, <1>10, <1>11, <1>12 DEF Good

-----------------------------------------------------------------------------
(* What the configuration and the addresses say stays true in a step.      *)

\* The configuration never changes, nor what depends on it alone:
LEMMA SameQueues ==
    ASSUME p' = p
    PROVE  /\ Queues' = Queues /\ Groups' = Groups /\ commandQueueCount' = commandQueueCount
           /\ Event' = Event /\ Channel' = Channel /\ CellPairs' = CellPairs
  <1>1. Groups' = Groups  BY DEF Groups, BankHead
  <1>2. commandQueueCount' = commandQueueCount  BY DEF commandQueueCount
  <1>3. Queues' = Queues  BY <1>2 DEF Queues
  <1>4. Event' = Event  BY <1>1 DEF Event
  <1>5. Channel' = Channel  BY <1>1, <1>2, <1>3, <1>4 DEF Channel
  <1>6. CellPairs' = CellPairs  BY <1>4 DEF CellPairs
  <1> QED  BY <1>1, <1>2, <1>3, <1>4, <1>5, <1>6

\* queues and groups,
LEMMA SameHeads ==
    ASSUME p' = p, NEW b, NEW sa
    PROVE  /\ (GetCommandQueueId(b, sa))' = GetCommandQueueId(b, sa)
           /\ (BankHead(b))' = BankHead(b)
           /\ (GetCommandQueueId(BankHead(b), sa))' = GetCommandQueueId(BankHead(b), sa)
  BY DEF GetCommandQueueId, BankHead

\* the cleanups to come,
LEMMA SameCleaned ==
    ASSUME p' = p, NEW s
    PROVE  Cleaned(s) => (Cleaned(s))'
  BY SameQueues DEF Cleaned

\* the refreshes to come,
LEMMA SameRefreshes ==
    ASSUME p' = p, NEW s, Refreshes(s)
    PROVE  (Refreshes(s))'
  <1>1. Groups' = Groups  BY SameQueues
  <1>2. \A b \in Bank : /\ (BankHead(b))' = BankHead(b)
                        /\ (GetCommandQueueId(BankHead(b), 0))' = GetCommandQueueId(BankHead(b), 0)
    BY SameHeads
  <1> QED  BY <1>1, <1>2 DEF Refreshes

\* and the orders, as long as no request is added.
LEMMA SamePairs ==
    ASSUME p' = p, address' = address, NEW s
    PROVE  /\ (CommandPairs(s))' = CommandPairs(s) /\ (AnswerPairs(s))' = AnswerPairs(s)
           /\ Known' = Known /\ (SentSet(s))' = SentSet(s) /\ (AnswerSet(s))' = AnswerSet(s)
           /\ (CommandsFit(s))' <=> CommandsFit(s)
           /\ (Arrivals(s))' <=> Arrivals(s)
  <1>1. Known' = Known /\ Queues' = Queues /\ Event' = Event  BY SameQueues DEF Known
  <1>2. (CommandPairs(s))' = CommandPairs(s)  BY DEF CommandPairs, Precedes, Alike
  <1>3. (AnswerPairs(s))' = AnswerPairs(s)  BY <1>1 DEF AnswerPairs, Precedes, Alike
  <1>4. (SentSet(s))' = SentSet(s) /\ (AnswerSet(s))' = AnswerSet(s)
    BY <1>1 DEF SentSet, AnswerSet
  <1>5. (CommandsFit(s))' <=> CommandsFit(s)
    <2>1. ASSUME NEW q, NEW c PROVE  (CommandFits(q, c))' <=> CommandFits(q, c)
      <3>1. (GetCommandQueueId(c.at.bank, c.at.sa))' = GetCommandQueueId(c.at.bank, c.at.sa)
        BY SameHeads
      <3>2. Groups' = Groups  BY SameQueues
      <3> QED  BY <1>1, <3>1, <3>2 DEF CommandFits
    <2> QED  BY <1>1, <2>1 DEF CommandsFit
  <1>6. (Arrivals(s))' <=> Arrivals(s)  BY <1>1 DEF Arrivals
  <1> QED  BY <1>1, <1>2, <1>3, <1>4, <1>5, <1>6

\* The invariant of a channel that does not change.
LEMMA SameGood ==
    ASSUME p' = p, address' = address, NEW s, Good(s)
    PROVE  (Good(s))'
  <1>0. /\ s \in Channel /\ InStages(s) /\ CommandsFit(s) /\ QueuesSorted(s)
        /\ AnswersSorted(s) /\ Refreshes(s) /\ Arrivals(s)
    BY DEF Good
  <1>1. (s \in Channel)'  BY <1>0, SameQueues
  <1>2. (Arrivals(s))' /\ (CommandsFit(s))'  BY <1>0, SamePairs
  <1>3. (InStages(s))'
    <2>1. Known' = Known /\ (SentSet(s))' = SentSet(s) /\ (AnswerSet(s))' = AnswerSet(s)
      BY SamePairs
    <2> QED  BY <1>0, <2>1 DEF InStages, Stages, NoOvertaking, Precedes, Alike
  <1>4. (QueuesSorted(s))'
    <2>1. (CommandPairs(s))' = CommandPairs(s) /\ Queues' = Queues  BY SamePairs, SameQueues
    <2> QED  BY <1>0, <2>1 DEF QueuesSorted, Pairs
  <1>5. (AnswersSorted(s))'
    <2>1. (AnswerPairs(s))' = AnswerPairs(s) /\ Known' = Known /\ CellPairs' = CellPairs
      BY SamePairs, SameQueues
    <2> QED  BY <1>0, <2>1 DEF AnswersSorted, Sorted, Pairs
  <1>6. (Refreshes(s))'  BY <1>0, SameRefreshes
  <1> QED  BY <1>1, <1>2, <1>3, <1>4, <1>5, <1>6 DEF Good

-----------------------------------------------------------------------------
(* A request of the trace is the last of all so far.                       *)

\* A new request is the last one and leaves the others their addresses.
LEMMA NewRequest ==
    ASSUME Submitted, Len(address) < Cardinality(Req), NEW a \in Address,
           p' = p, address' = Append(address, a), NEW n, n = Len(address) + 1
    PROVE  /\ n \in Req /\ n \in Nat /\ n \notin Known /\ Known' = Known \cup {n}
           /\ \A q \in Known : q \in Nat /\ q < n /\ address'[q] = address[q]
           /\ Submitted'
  <1>1. address \in Seq(Address) /\ Len(address) \in Nat /\ p \in Params
    BY LenProperties DEF Submitted
  <1>2. /\ address' \in Seq(Address) /\ Len(address') = Len(address) + 1
        /\ \A q \in 1..Len(address) : address'[q] = address[q]
    BY <1>1, AppendProperties
  <1>3. Cardinality(Req) \in Nat /\ Req = 1..Cardinality(Req)
    <2>1. IsFiniteSet(Req) /\ Req = 1..Cardinality(Req)
      BY ConfigAssumption DEF ConfigAssumption
    <2> QED  BY <2>1, FS_CardinalityType
  <1>4. n \in Req /\ n \in Nat  BY <1>1, <1>3
  <1>5. Known' = Known \cup {n} /\ n \notin Known  BY <1>1, <1>2 DEF Known
  <1>6. \A q \in Known : q \in Nat /\ q < n /\ address'[q] = address[q]  BY <1>1, <1>2 DEF Known
  <1>7. Known' \subseteq Req  BY <1>4, <1>5 DEF Submitted
  <1> QED  BY <1>1, <1>2, <1>4, <1>5, <1>6, <1>7 DEF Submitted

\* It precedes none of them.
LEMMA NewOrder ==
    ASSUME Submitted, Len(address) < Cardinality(Req), NEW a \in Address,
           p' = p, address' = Append(address, a), NEW n, n = Len(address) + 1,
           NEW t, NEW q \in Known'
    PROVE  ~(Precedes(t, n, q))'
  <1>1. /\ n \in Nat /\ Known' = Known \cup {n}
        /\ \A x \in Known : x \in Nat /\ x < n
    BY NewRequest
  <1>2. ~(n < q)  BY <1>1
  <1> QED  BY <1>2 DEF Precedes

\* It waits behind all others.
LEMMA SubmitKeeps ==
    ASSUME Submitted, Len(address) < Cardinality(Req), NEW a \in Address,
           p' = p, address' = Append(address, a), NEW n, n = Len(address) + 1,
           NEW s, Good(s), NEW writes, writes = s.writes \/ writes = s.writes \cup {n}, NEW t,
           t = [s EXCEPT !.arrived = @ \cup {n}, !.writes = writes, !.tq = Append(@, n)]
    PROVE  (Good(t))' /\ (Cleaned(s) => (Cleaned(t))')
  <1>0. /\ s \in Channel /\ InStages(s) /\ CommandsFit(s) /\ QueuesSorted(s)
        /\ AnswersSorted(s) /\ Refreshes(s) /\ Arrivals(s) /\ s.tq \in Seq(Req)
        /\ s.arrived \in SUBSET Req /\ s.writes \in SUBSET Req
        /\ s.cq \in [Queues -> Seq(Command)] /\ s.calendar \in Calendar
    BY ChannelIs DEF Good
  <1>1. /\ n \in Req /\ n \in Nat /\ n \notin Known /\ Known' = Known \cup {n}
        /\ \A q \in Known : q \in Nat /\ q < n /\ address'[q] = address[q]
    BY NewRequest
  <1>2. /\ t.served = s.served /\ t.arrived = s.arrived \cup {n} /\ t.writes = writes
        /\ t.tq = Append(s.tq, n) /\ t.cq = s.cq /\ t.refreshCounter = s.refreshCounter
        /\ t.refreshQueued = s.refreshQueued /\ t.calendar = s.calendar /\ t.issuedNow = s.issuedNow
    BY <1>0 DEF Channel
  <1>3. /\ \A q, r \in Known : (Precedes(t, q, r))' <=> Precedes(s, q, r)
        /\ \A q \in Known' : ~(Precedes(t, n, q))'
    <2>1. t.writes = s.writes \/ t.writes = s.writes \cup {n}  BY <1>2
    <2>2. \A q, r \in Known : (Precedes(t, q, r))' <=> Precedes(s, q, r)
      <3>1. ASSUME NEW q \in Known, NEW r \in Known
            PROVE  (Precedes(t, q, r))' <=> Precedes(s, q, r)
        <4>1. (q \in t.writes <=> q \in s.writes) /\ (r \in t.writes <=> r \in s.writes)
          BY <1>1, <2>1
        <4> QED  BY <1>1, <4>1 DEF Precedes, Alike
      <3> QED  BY <3>1
    <2>3. \A q \in Known' : ~(Precedes(t, n, q))'  BY NewOrder
    <2> QED  BY <2>2, <2>3
  <1>4. Queues' = Queues /\ Event' = Event /\ Channel' = Channel /\ CellPairs' = CellPairs
    BY SameQueues
  <1>5. (t \in Channel)'
    <2>1. t.tq \in Seq(Req)  BY <1>0, <1>1, <1>2, AppendProperties
    <2>2. t.arrived \in SUBSET Req /\ t.writes \in SUBSET Req  BY <1>0, <1>1, <1>2
    <2>3. t = [s EXCEPT !.arrived = t.arrived, !.writes = t.writes, !.tq = t.tq]
      BY <1>0, <1>2 DEF Channel
    <2>4. t \in Channel  BY <1>0, <2>1, <2>2, <2>3 DEF Channel
    <2> QED  BY <1>4, <2>4
  <1>6. (Arrivals(t))'  BY <1>0, <1>1, <1>2 DEF Arrivals
  <1>7. Elems(s.tq) \subseteq Known /\ Elems(t.tq) = Elems(s.tq) \cup {n} /\ Pairs(t.tq, Rising)
    <2>1. Elems(s.tq) \subseteq Known  BY <1>0 DEF InStages, Stages
    <2>2. /\ t.tq = s.tq \o <<n>> /\ <<n>> \in Seq(Req) /\ Elems(<<n>>) = {n}
          /\ Pairs(<<n>>, Rising)
      BY <1>0, <1>1, <1>2, AppendIsConcat DEF Elems, Pairs
    <2>3. Pairs(s.tq, Rising) /\ \A x \in Elems(s.tq), y \in Elems(<<n>>) : <<x, y>> \in Rising
      BY <1>0, <1>1, <2>1, <2>2 DEF QueuesSorted, Rising
    <2> DEFINE one == <<n>>
    <2>4. one \in Seq(Req) /\ Elems(one) = {n} /\ Pairs(one, Rising) /\ t.tq = s.tq \o one
          /\ \A x \in Elems(s.tq), y \in Elems(one) : <<x, y>> \in Rising
      BY <2>2, <2>3
    <2> HIDE DEF one
    <2>5. s.tq \in Seq(Req) /\ Pairs(s.tq, Rising)  BY <1>0, <2>3
    <2>6. Elems(s.tq \o one) = Elems(s.tq) \cup Elems(one)  BY <2>4, <2>5, ConcatIs
    <2>7. Pairs(s.tq \o one, Rising)  BY <2>4, <2>5, ConcatIs
    <2> QED  BY <2>1, <2>4, <2>6, <2>7
  <1>8. (SentSet(t))' = SentSet(s) /\ (AnswerSet(t))' = AnswerSet(s)
    <2>1. \A q \in Queues : \A c \in Elems(s.cq[q]) : Reading(c) => c.of \in Known
      BY <1>0 DEF CommandsFit, CommandFits, Reading
    <2>2. (SentSet(t))' = SentSet(s)  BY <1>1, <1>2, <1>4, <2>1 DEF SentSet
    <2>3. (AnswerSet(t))' = AnswerSet(s)  BY <1>0, <1>1, <1>2 DEF AnswerSet, AnswersSorted
    <2> QED  BY <2>2, <2>3
  <1>9. (InStages(t))'
    <2>1. /\ Stages(Elems(s.tq), SentSet(s), AnswerSet(s), s.served)
          /\ NoOvertaking(s, Elems(s.tq), SentSet(s), s.served)
      BY <1>0 DEF InStages
    <2>2. (Stages(Elems(t.tq), SentSet(t), AnswerSet(t), t.served))'
      BY <1>1, <1>2, <1>7, <1>8, <2>1 DEF Stages
    <2>3. (NoOvertaking(t, Elems(t.tq), SentSet(t), t.served))'
      <3>1. ASSUME NEW q \in Known', NEW r \in Known', (Precedes(t, q, r))'
            PROVE  /\ q \in Elems(t.tq) => r \in Elems(t.tq)
                   /\ q \in SentSet(s) => r \in Elems(t.tq) \cup SentSet(s)
                   /\ r \in t.served => q \in t.served
        <4>1. q \in Known  BY <1>1, <1>3, <3>1
        <4>2. CASE r = n
          <5>1. n \notin s.served  BY <1>1, <2>1 DEF Stages
          <5> QED  BY <1>2, <1>7, <4>2, <5>1
        <4>3. CASE r # n
          <5>1. r \in Known /\ Precedes(s, q, r) /\ q # n  BY <1>1, <1>3, <3>1, <4>1, <4>3
          <5> QED  BY <1>2, <1>7, <2>1, <4>1, <5>1 DEF NoOvertaking
        <4> QED  BY <4>2, <4>3
      <3> QED  BY <1>8, <3>1 DEF NoOvertaking
    <2> QED  BY <2>2, <2>3 DEF InStages
  <1>10. (CommandsFit(t))'
    <2>1. ASSUME NEW q \in Queues, NEW c \in Elems(s.cq[q]) PROVE  (CommandFits(q, c))'
      <3>1. CommandFits(q, c) /\ Groups' = Groups  BY <1>0, <2>1, SameQueues DEF CommandsFit
      <3>2. (GetCommandQueueId(c.at.bank, c.at.sa))' = GetCommandQueueId(c.at.bank, c.at.sa)
        BY SameHeads
      <3> QED  BY <1>1, <3>1, <3>2 DEF CommandFits
    <2> QED  BY <1>2, <1>4, <2>1 DEF CommandsFit
  <1>11. (QueuesSorted(t))'
    <2>1. ASSUME NEW q \in Queues PROVE  (Pairs(t.cq[q], CommandPairs(t)))'
      <3>1. ASSUME NEW x \in DOMAIN s.cq[q], NEW y \in DOMAIN s.cq[q], x < y
            PROVE  <<s.cq[q][x], s.cq[q][y]>> \in (CommandPairs(t))'
        <4> DEFINE c == s.cq[q][x]
                   d == s.cq[q][y]
        <4>1. <<c, d>> \in CommandPairs(s)  BY <1>0, <2>1, <3>1 DEF QueuesSorted, Pairs
        <4>2. c \in Elems(s.cq[q]) /\ d \in Elems(s.cq[q])  BY <3>1 DEF Elems
        <4>3. (Reading(c) => c.of \in Known) /\ (Reading(d) => d.of \in Known)
          BY <1>0, <2>1, <4>2 DEF CommandsFit, CommandFits, Reading
        <4> HIDE DEF c, d
        <4>4. /\ c \in Command /\ d \in Command /\ ~d.issued
              /\ Reading(c) /\ Reading(d) => c.of # d.of /\ ~Precedes(s, d.of, c.of)
          BY <4>1 DEF CommandPairs
        <4>5. Reading(c) /\ Reading(d) => ~(Precedes(t, d.of, c.of))'  BY <1>3, <4>3, <4>4
        <4>6. <<c, d>> \in (CommandPairs(t))'  BY <4>4, <4>5 DEF CommandPairs
        <4> QED  BY <4>6 DEF c, d
      <3> QED  BY <1>2, <3>1 DEF Pairs
    <2> QED  BY <1>4, <1>7, <2>1 DEF QueuesSorted, Pairs
  <1>12. (AnswersSorted(t))'
    <2> DEFINE S == AnswerPairs(t)
    <2>1. ASSUME NEW i \in 0..Horizon, NEW j \in 0..Horizon, NEW e \in Elems(s.calendar[i]),
                 NEW f \in Elems(s.calendar[j]), <<e, f>> \in AnswerPairs(s)
          PROVE  <<e, f>> \in (AnswerPairs(t))'
      <3>1. (e.kind = "response" => e.what \in Known) /\ (f.kind = "response" => f.what \in Known)
        BY <1>0, <2>1 DEF AnswersSorted
      <3>2. /\ e \in Event /\ f \in Event
            /\ e.kind = "response" /\ f.kind = "response" =>
                 e.what # f.what /\ ~Precedes(s, f.what, e.what)
        BY <2>1 DEF AnswerPairs
      <3>3. e.kind = "response" /\ f.kind = "response" => ~(Precedes(t, f.what, e.what))'
        BY <1>3, <3>1, <3>2
      <3> QED  BY <1>4, <3>2, <3>3 DEF AnswerPairs
    <2>2. \A i \in 0..Horizon : \A x \in DOMAIN s.calendar[i] : s.calendar[i][x] \in Elems(s.calendar[i])
      BY DEF Elems
    <2>3. (Sorted(t.calendar, AnswerPairs(t)))'
      <3>1. Sorted(s.calendar, AnswerPairs(s))  BY <1>0 DEF AnswersSorted
      <3> QED  BY <1>2, <2>1, <2>2, <3>1 DEF Sorted, Pairs
    <2>4. \A i \in 0..Horizon : Pairs(t.calendar[i], CellPairs)
          /\ \A e \in Elems(t.calendar[i]) : e.kind = "response" => e.what \in Known /\ i <= tCAS
      BY <1>0, <1>2 DEF AnswersSorted
    <2>5. \A i \in 0..Horizon : (Pairs(t.calendar[i], CellPairs))'  BY <1>4, <2>4 DEF Pairs
    <2> QED  BY <1>1, <2>3, <2>4, <2>5 DEF AnswersSorted
  <1>13. (Refreshes(t))'
    <2>1. Refreshes(t)  BY <1>0, <1>2 DEF Refreshes
    <2> QED  BY <2>1, SameRefreshes
  <1>14. Cleaned(s) => (Cleaned(t))'
    <2>1. Cleaned(s) => Cleaned(t)  BY <1>2 DEF Cleaned
    <2> QED  BY <2>1, SameCleaned
  <1> QED  BY <1>5, <1>6, <1>9, <1>10, <1>11, <1>12, <1>13, <1>14 DEF Good

-----------------------------------------------------------------------------
(* The invariant of the specification.                                     *)

\* Nothing is submitted at the start.
LEMMA InitGood == Init => IInv
  <1> SUFFICES ASSUME Init PROVE IInv
    OBVIOUS
  <1>1. /\ p \in Params /\ address = <<>> /\ Len(address) = 0 /\ Known = {}  BY DEF Init, Known
  <1>2. Submitted  BY <1>1 DEF Submitted
  <1>3. commandQueueCount \in Nat \ {0} /\ Groups \subseteq Bank /\ ROWS \in 0..ROWS /\ 0 \in 0..ROWS
    BY <1>1, QueuesAre, GroupsAre, Sizes
  <1>4. /\ Elems(<<>>) = {} /\ \A R : Pairs(<<>>, R)  BY DEF Elems, Pairs
  <1>5. /\ ch.served = {} /\ ch.arrived = {} /\ ch.writes = {} /\ ch.tq = <<>>
        /\ ch.cq = [q \in Queues |-> <<>>] /\ ch.refreshQueued = [b \in Bank |-> FALSE]
        /\ ch.refreshCounter = [g \in Groups |-> 0] /\ ch.calendar = [i \in 0..Horizon |-> <<>>]
    BY DEF Init
  <1>6. ch \in Channel
    <2>1. [state |-> "closed", row |-> 0, nextActivate |-> 0, nextRead |-> 0, nextPrecharge |-> 0]
            \in ArrayState
      BY <1>3, Numbers DEF ArrayState
    <2>2. /\ [a \in Bank \X SubArray |->
                [state |-> "closed", row |-> 0, nextActivate |-> 0, nextRead |-> 0,
                 nextPrecharge |-> 0]] \in [Bank \X SubArray -> ArrayState]
      BY <2>1
    <2>3. <<>> \in Seq(Req) /\ <<>> \in Seq(Command) /\ <<>> \in Seq(Event) /\ 0 \in 0..commandQueueCount
      BY <1>3
    <2> HIDE DEF ArrayState, Command, Event
    <2> QED  BY <1>3, <2>2, <2>3 DEF Init, Channel
  <1>7. SentSet(ch) = {} /\ AnswerSet(ch) = {}  BY <1>1 DEF SentSet, AnswerSet
  <1>8. InStages(ch)  BY <1>1, <1>4, <1>5, <1>7 DEF InStages, Stages, NoOvertaking
  <1>9. Arrivals(ch)  BY <1>5 DEF Arrivals
  <1>10. CommandsFit(ch) /\ Cleaned(ch)  BY <1>4, <1>5 DEF CommandsFit, Cleaned
  <1>11. QueuesSorted(ch)  BY <1>4, <1>5 DEF QueuesSorted
  <1>12. AnswersSorted(ch)  BY <1>4, <1>5 DEF AnswersSorted, Sorted
  <1>13. Refreshes(ch)  BY <1>5, Numbers DEF Refreshes
  <1> QED  BY <1>2, <1>6, <1>8, <1>9, <1>10, <1>11, <1>12, <1>13 DEF IInv, Good

\* A handler works on the state that is left when its event has been taken.
LEMMA Carried ==
    ASSUME Submitted, p' = p, address' = address, NEW s, Good(s),
           Cleaned(s) \/ Cleans(s.calendar[0]), ch' = s
    PROVE  IInv'
  <1>1. (Good(s))' /\ (Cleaned(s) => (Cleaned(s))')  BY SameGood, SameCleaned
  <1>2. (Good(ch))'  BY <1>1
  <1>3. (Cleaned(ch) \/ Cleans(ch.calendar[0]))'  BY <1>1 DEF Cleans
  <1>4. Submitted'  BY DEF Submitted, Known
  <1> QED  BY <1>2, <1>3, <1>4 DEF IInv

\* What a handler finds.
LEMMA PoppedIs ==
    ASSUME IInv, ch.calendar[0] # <<>>
    PROVE  /\ Submitted /\ Good(ch) /\ Popped \in Channel /\ ch.calendar[0][1] \in Event
           /\ ch.calendar[0][1].kind # "response" => Good(Popped)
           /\ ch.calendar[0][1].kind # "CleanupCallback" => Cleaned(Popped)
  BY PopIs DEF IInv, Popped

\* Each handler keeps the invariant.
LEMMA RunEventGood ==
    ASSUME IInv, RunEvent
    PROVE  IInv'
  <1>0. /\ ch.calendar[0] # <<>> /\ p' = p /\ address' = address
    BY DEF RunEvent, RunCycle, RunCommandQueues, RunCleanup, RunRefresh, RunResponse,
           RunImplicitPrecharge, RunClosed, RunRefreshed, Running, Handle
  <1>1. /\ Submitted /\ Good(ch) /\ Popped \in Channel /\ ch.calendar[0][1] \in Event
        /\ ch.calendar[0][1].kind # "response" => Good(Popped)
        /\ ch.calendar[0][1].kind # "CleanupCallback" => Cleaned(Popped)
    BY <1>0, PoppedIs
  <1>2. PICK u : u = Popped  OBVIOUS
  <1>3. PICK t : ch' = t  OBVIOUS
  <1>4. SUFFICES Good(t) /\ Cleaned(t)  BY <1>0, <1>1, <1>3, Carried
  <1>5. CASE RunCycle
    <2>1. Good(u) /\ Cleaned(u) /\ t = Cycle(u)
      BY <1>1, <1>2, <1>3, <1>5 DEF RunCycle, Running, Handle
    <2> QED  BY <1>1, <2>1, CycleKeeps
  <1>6. CASE RunCommandQueues
    <2>1. Good(u) /\ Cleaned(u) /\ t = CommandQueueCallback(u)
      BY <1>1, <1>2, <1>3, <1>6 DEF RunCommandQueues, Running, Handle
    <2> QED  BY <1>1, <2>1, CommandQueueCallbackKeeps
  <1>7. CASE RunCleanup
    <2>1. Good(u) /\ t = CleanupCallback(u)
      BY <1>1, <1>2, <1>3, <1>7 DEF RunCleanup, Running, Handle
    <2> QED  BY <1>1, <2>1, CleanupKeeps
  <1>8. CASE RunRefresh
    <2>1. Good(u) /\ Cleaned(u) /\ t = RefreshCallback(u, About) /\ About \in Groups
      BY <1>1, <1>2, <1>3, <1>8, EventIs DEF RunRefresh, Running, Handle, About
    <2> QED  BY <1>1, <2>1, RefreshCallbackKeeps
  <1>9. CASE RunResponse
    <2>1. /\ ch.calendar[0][1].kind = "response" /\ Cleaned(u)
          /\ t = Hears(u, ch.calendar[0][1].what)
      BY <1>1, <1>2, <1>3, <1>9 DEF RunResponse, Running, Handle, About, Hears
    <2>2. u = [ch EXCEPT !.calendar[0] = Tail(@)]  BY <1>2 DEF Popped
    <2> QED  BY <1>0, <1>1, <2>1, <2>2, ResponseKeeps
  <1>10. CASE RunImplicitPrecharge
    <2>1. Good(u) /\ Cleaned(u) /\ About \in Bank \X SubArray /\ t = StartsClosing(u, About)
      BY <1>1, <1>2, <1>3, <1>10, EventIs
         DEF RunImplicitPrecharge, Running, Handle, About, Closings, StartsClosing
    <2> QED  BY <2>1, ImplicitPrechargeKeeps
  <1>11. CASE RunClosed
    <2>1. Good(u) /\ Cleaned(u) /\ About \in Bank \X SubArray /\ t = HasClosed(u, About)
      BY SMTT(30), <1>1, <1>2, <1>3, <1>11, EventIs
         DEF RunClosed, Running, Handle, About, Closings, HasClosed
    <2> QED  BY ZenonT(60), <2>1, ClosedKeeps
  <1>12. CASE RunRefreshed
    <2>1. /\ Good(u) /\ Cleaned(u) /\ About \in Bank \X SubArray
          /\ t = HasClosed(u, About) \/ t = StaysOpen(u, About)
      BY <1>1, <1>2, <1>3, <1>12, EventIs
         DEF RunRefreshed, Running, Handle, About, Closings, HasClosed, StaysOpen
    <2> QED  BY ZenonT(60), <2>1, ClosedKeeps
  <1> QED  BY <1>5, <1>6, <1>7, <1>8, <1>9, <1>10, <1>11, <1>12 DEF RunEvent

\* A submission nudges the controller, or does not, and puts the request into the transaction queue.
Submits(a, writes, u) ==
    /\ address' = Append(address, a)
    /\ Nudges(ch, u)
    /\ writes = ch.writes \/ writes = ch.writes \cup {Len(address) + 1}
    /\ ch' = [u EXCEPT !.arrived = @ \cup {Len(address) + 1}, !.writes = writes,
                       !.tq = Append(@, Len(address) + 1)]

\* That is what Submit does,
LEMMA SubmitIs ==
    ASSUME Submitted, ch \in Channel, Submit
    PROVE  \E a \in Address : \E writes, u : Submits(a, writes, u)
  <1>1. PICK request \in p.trace :
          LET a == request.at
              q == GetCommandQueueId(a.bank, a.sa)
              r == Len(address) + 1
          IN
          /\ Accepts(request.write)
          /\ address' = Append(address, a)
          /\ ch' = [ch EXCEPT
                    !.arrived = @ \cup {r},
                    !.writes = IF request.write THEN @ \cup {r} ELSE @,
                    !.tq = Append(@, r),
                    !.calendar = IF EffectivelyEmpty(ch, q) /\ ~Scheduled(@, "Cycle", 0)
                                 THEN InsertEvent(@, "Cycle", None, 0, transactionQueuePriority)
                                 ELSE @]
    BY DEF Submit
  <1> DEFINE a == request.at
             q == GetCommandQueueId(a.bank, a.sa)
             n == Len(address) + 1
             wakes == EffectivelyEmpty(ch, q) /\ ~Scheduled(ch.calendar, "Cycle", 0)
             u == IF wakes
                  THEN [ch EXCEPT !.calendar =
                           InsertEvent(@, "Cycle", None, 0, transactionQueuePriority)]
                  ELSE ch
             writes == IF request.write THEN ch.writes \cup {n} ELSE ch.writes
  <1>2. a \in Address  BY ParamsAre DEF Submitted
  <1>3. Nudges(ch, u)
    <2>1. CASE wakes  BY <2>1, Numbers, CycleNudges
    <2>2. CASE ~wakes  BY <2>2 DEF Nudges
    <2> QED  BY <2>1, <2>2
  <1>4. ch' = [u EXCEPT !.arrived = @ \cup {n}, !.writes = writes, !.tq = Append(@, n)]
    <2>1. CASE wakes  BY <1>1, <2>1 DEF Channel
    <2>2. CASE ~wakes  BY <1>1, <2>2 DEF Channel
    <2> QED  BY <2>1, <2>2
  <1>5. Submits(a, writes, u)
    <2>1. writes = ch.writes \/ writes = ch.writes \cup {n}  OBVIOUS
    <2> HIDE DEF u, writes
    <2> QED  BY <1>1, <1>3, <1>4, <2>1 DEF Submits
  <1> HIDE DEF a, writes, u
  <1> QED  BY <1>2, <1>5

\* and the invariant survives it.
LEMMA SubmitGood ==
    ASSUME IInv, Submit
    PROVE  IInv'
  <1>0. /\ Submitted /\ Good(ch) /\ p' = p /\ Len(address) < Cardinality(Req)
        /\ Cleaned(ch) \/ Cleans(ch.calendar[0])
    BY DEF IInv, Submit
  <1>1. PICK a \in Address : \E writes, u : Submits(a, writes, u)  BY <1>0, SubmitIs DEF Good
  <1>2. PICK writes, s : Submits(a, writes, s)  BY <1>1
  <1>3. PICK n : n = Len(address) + 1  OBVIOUS
  <1>4. Good(s) /\ (Cleaned(s) \/ Cleans(s.calendar[0]))
    BY <1>0, <1>2, NudgeKeeps DEF Submits
  <1>5. writes = s.writes \/ writes = s.writes \cup {n}
    BY <1>0, <1>2, <1>3 DEF Submits, Nudges, Good, Channel
  <1>6. PICK t : ch' = t  OBVIOUS
  <1>7. /\ t = [s EXCEPT !.arrived = @ \cup {n}, !.writes = writes, !.tq = Append(@, n)]
        /\ address' = Append(address, a)
    BY <1>2, <1>3, <1>6 DEF Submits
  <1>8. t.calendar = s.calendar  BY <1>4, <1>7 DEF Good, Channel
  <1>9. (Good(t))' /\ (Cleaned(s) => (Cleaned(t))')
    BY <1>0, <1>3, <1>4, <1>5, <1>7, SubmitKeeps
  <1>10. Submitted'  BY <1>0, <1>3, <1>7, NewRequest
  <1>11. (Cleaned(t))' \/ Cleans(t.calendar[0])  BY <1>4, <1>8, <1>9
  <1>12. (Good(ch))'  BY <1>6, <1>9
  <1>13. (Cleaned(ch) \/ Cleans(ch.calendar[0]))'  BY <1>6, <1>11 DEF Cleans
  <1> QED  BY <1>10, <1>12, <1>13 DEF IInv

\* The trace has ended.
LEMMA EndTraceGood ==
    ASSUME IInv, EndTrace
    PROVE  IInv'
  <1>1. /\ Submitted /\ Good(ch) /\ p' = p /\ address' = address
        /\ Cleaned(ch) \/ Cleans(ch.calendar[0])
        /\ ch' = [ch EXCEPT !.force_drain = TRUE]
    BY DEF IInv, EndTrace
  <1>2. PICK t : ch' = t  OBVIOUS
  <1>3. t = [ch EXCEPT !.force_drain = TRUE] /\ ch \in Channel /\ AnswersSorted(ch)
    BY <1>1, <1>2 DEF Good
  <1>4. /\ t.served = ch.served /\ t.arrived = ch.arrived /\ t.writes = ch.writes /\ t.tq = ch.tq
        /\ t.cq = ch.cq /\ t.refreshCounter = ch.refreshCounter
        /\ t.refreshQueued = ch.refreshQueued /\ t.calendar = ch.calendar
        /\ t.issuedNow = ch.issuedNow /\ t \in Channel
    BY <1>3 DEF Channel
  <1>5. AnswersSorted(t) /\ AnswerSet(t) = AnswerSet(ch)
    BY <1>3, <1>4, SameOrder DEF AnswersSorted, AnswerSet
  <1>6. Good(t)  BY <1>1, <1>4, <1>5, GoodKept
  <1>7. Cleaned(t) \/ Cleans(t.calendar[0])  BY <1>1, <1>4 DEF Cleaned
  <1> QED  BY <1>1, <1>2, <1>6, <1>7, Carried

\* Nothing is left to run.
LEMMA TickGood ==
    ASSUME IInv, Tick
    PROVE  IInv'
  <1>1. /\ Submitted /\ Good(ch) /\ p' = p /\ address' = address /\ ch.calendar[0] = <<>>
        /\ Cleaned(ch)
    BY DEF IInv, Tick, Cleans
  <1>2. PICK t : ch' = t  OBVIOUS
  <1>3. t = Ticked(ch)  BY <1>2 DEF Tick, Ticked
  <1>4. Good(t) /\ (Cleaned(t) \/ Cleans(t.calendar[0]))  BY <1>1, <1>3, TickKeeps
  <1> QED  BY <1>1, <1>2, <1>4, Carried

\* The invariant is inductive.
THEOREM ChannelIsGood == Spec => []IInv
  <1>1. Init => IInv  BY InitGood
  <1>2. IInv /\ [Next]_vars => IInv'
    <2> SUFFICES ASSUME IInv, [Next]_vars PROVE IInv'
      OBVIOUS
    <2>1. CASE Submit  BY <2>1, SubmitGood
    <2>2. CASE EndTrace  BY <2>2, EndTraceGood
    <2>3. CASE RunEvent  BY <2>3, RunEventGood
    <2>4. CASE Tick  BY <2>4, TickGood
    <2>5. CASE UNCHANGED vars
      <3>1. /\ Submitted /\ Good(ch) /\ (Cleaned(ch) \/ Cleans(ch.calendar[0]))
            /\ p' = p /\ address' = address /\ ch' = ch
        BY <2>5 DEF IInv, vars
      <3>2. PICK s : ch = s  OBVIOUS
      <3> QED  BY <3>1, <3>2, Carried
    <2> QED  BY <2>1, <2>2, <2>3, <2>4, <2>5 DEF Next
  <1> QED  BY <1>1, <1>2, PTL DEF Spec

-----------------------------------------------------------------------------
(* Each request is in one place.                                           *)

\* A request is in one position of the transaction queue,
LEMMA WaitingIs ==
    ASSUME NEW s, s.tq \in Seq(Req), Pairs(s.tq, Rising), NEW r
    PROVE  /\ r \notin Elems(s.tq) => Waiting(s, r) = {}
           /\ r \in Elems(s.tq) => \E i : Waiting(s, r) = {i}
  <1>1. r \notin Elems(s.tq) => Waiting(s, r) = {}  BY DEF Waiting, Elems
  <1>2. ASSUME r \in Elems(s.tq) PROVE  \E i : Waiting(s, r) = {i}
    <2>1. PICK i \in DOMAIN s.tq : s.tq[i] = r  BY <1>2 DEF Elems
    <2>2. ASSUME NEW j \in DOMAIN s.tq, j # i PROVE  s.tq[j] # r
      <3>1. i \in Nat /\ j \in Nat  BY <2>1, <2>2, LenProperties
      <3>2. (i < j => <<s.tq[i], s.tq[j]>> \in Rising) /\ (j < i => <<s.tq[j], s.tq[i]>> \in Rising)
        BY <2>1, <2>2 DEF Pairs
      <3>3. i < j \/ j < i  BY <2>2, <3>1
      <3> QED  BY <2>1, <3>2, <3>3 DEF Rising
    <2> QED  BY <2>1, <2>2 DEF Waiting
  <1> QED  BY <1>1, <1>2

\* of one command queue,
LEMMA SentIs ==
    ASSUME NEW s, s.cq \in [Queues -> Seq(Command)], CommandsFit(s), QueuesSorted(s), NEW r \in Known
    PROVE  /\ r \notin SentSet(s) => \A q \in Queues : Sent(s, r, q) = {}
           /\ r \in SentSet(s) =>
                \E q \in Queues : \E i : /\ Sent(s, r, q) = {i}
                                         /\ \A x \in Queues : x # q => Sent(s, r, x) = {}
  <1>1. ASSUME NEW q \in Queues, NEW i \in Sent(s, r, q)
        PROVE  /\ i \in DOMAIN s.cq[q] /\ i \in Nat /\ Reading(s.cq[q][i]) /\ s.cq[q][i].of = r
               /\ r \in SentSet(s) /\ q = GetCommandQueueId(address[r].bank, address[r].sa)
    <2>1. i \in DOMAIN s.cq[q] /\ Reading(s.cq[q][i]) /\ s.cq[q][i].of = r
      BY <1>1 DEF Sent, Reading
    <2>2. s.cq[q][i] \in Elems(s.cq[q])  BY <2>1 DEF Elems
    <2>3. CommandFits(q, s.cq[q][i]) /\ s.cq[q] \in Seq(Command)  BY <2>2 DEF CommandsFit
    <2>4. q = GetCommandQueueId(address[r].bank, address[r].sa)
      BY <2>1, <2>3 DEF CommandFits, Reading
    <2>5. r \in SentSet(s)  BY <2>1, <2>2 DEF SentSet
    <2>6. i \in Nat  BY <2>1, <2>3, LenProperties
    <2> QED  BY <2>1, <2>4, <2>5, <2>6
  <1>2. r \notin SentSet(s) => \A q \in Queues : Sent(s, r, q) = {}  BY <1>1
  <1>3. ASSUME r \in SentSet(s)
        PROVE  \E q \in Queues : \E i : /\ Sent(s, r, q) = {i}
                                        /\ \A x \in Queues : x # q => Sent(s, r, x) = {}
    <2>1. PICK q \in Queues : \E c \in Elems(s.cq[q]) : Reading(c) /\ c.of = r
      BY <1>3 DEF SentSet
    <2>2. PICK i \in DOMAIN s.cq[q] : Reading(s.cq[q][i]) /\ s.cq[q][i].of = r
      BY <2>1 DEF Elems
    <2>3. i \in Sent(s, r, q)  BY <2>2 DEF Sent, Reading
    <2>4. ASSUME NEW j \in Sent(s, r, q) PROVE  j = i
      <3>1. /\ i \in Nat /\ j \in Nat /\ i \in DOMAIN s.cq[q] /\ j \in DOMAIN s.cq[q]
            /\ Reading(s.cq[q][i]) /\ Reading(s.cq[q][j])
            /\ s.cq[q][i].of = r /\ s.cq[q][j].of = r
        BY <1>1, <2>3, <2>4
      <3>2. /\ i < j => <<s.cq[q][i], s.cq[q][j]>> \in CommandPairs(s)
            /\ j < i => <<s.cq[q][j], s.cq[q][i]>> \in CommandPairs(s)
        BY <3>1 DEF QueuesSorted, Pairs
      <3>3. ~(i < j) /\ ~(j < i)  BY <3>1, <3>2 DEF CommandPairs
      <3> QED  BY <3>1, <3>3
    <2>5. Sent(s, r, q) = {i}  BY <2>3, <2>4
    <2>6. ASSUME NEW x \in Queues, x # q PROVE  Sent(s, r, x) = {}
      BY <1>1, <2>3, <2>6
    <2> QED  BY <2>5, <2>6
  <1> QED  BY <1>2, <1>3

\* or of one cycle of the calendar,
LEMMA AnsweredIs ==
    ASSUME NEW s, s.calendar \in Calendar, AnswersSorted(s), NEW r \in Known
    PROVE  /\ r \notin AnswerSet(s) => \A i \in 0..Horizon : Answered(s, r, i) = {}
           /\ r \in AnswerSet(s) =>
                \E i \in 0..Horizon : \E j : /\ Answered(s, r, i) = {j}
                                             /\ \A k \in 0..Horizon : k # i => Answered(s, r, k) = {}
  <1>1. ASSUME NEW i \in 0..Horizon, NEW j \in Answered(s, r, i)
        PROVE  /\ j \in DOMAIN s.calendar[i] /\ j \in Nat /\ s.calendar[i][j] \in Elems(s.calendar[i])
               /\ s.calendar[i][j].kind = "response" /\ s.calendar[i][j].what = r /\ r \in AnswerSet(s)
    <2>1. /\ j \in DOMAIN s.calendar[i] /\ s.calendar[i][j] \in Elems(s.calendar[i])
          /\ s.calendar[i][j].kind = "response" /\ s.calendar[i][j].what = r
      BY <1>1 DEF Answered, Elems
    <2>2. s.calendar[i] \in Seq(Event)  BY DEF Calendar
    <2> QED  BY <2>1, <2>2, LenProperties DEF AnswerSet
  <1>2. r \notin AnswerSet(s) => \A i \in 0..Horizon : Answered(s, r, i) = {}  BY <1>1
  <1>3. ASSUME r \in AnswerSet(s)
        PROVE  \E i \in 0..Horizon : \E j : /\ Answered(s, r, i) = {j}
                                            /\ \A k \in 0..Horizon : k # i => Answered(s, r, k) = {}
    <2>1. PICK i \in 0..Horizon : \E e \in Elems(s.calendar[i]) : e.kind = "response" /\ e.what = r
      BY <1>3 DEF AnswerSet
    <2>2. PICK j \in DOMAIN s.calendar[i] :
             s.calendar[i][j].kind = "response" /\ s.calendar[i][j].what = r
      BY <2>1 DEF Elems
    <2>3. j \in Answered(s, r, i)  BY <2>2 DEF Answered
    <2>4. Sorted(s.calendar, AnswerPairs(s))  BY DEF AnswersSorted
    <2>5. \A e, f : <<e, f>> \in AnswerPairs(s) =>
             ~(e.kind = "response" /\ f.kind = "response" /\ e.what = r /\ f.what = r)
      BY DEF AnswerPairs
    <2>6. ASSUME NEW l \in Answered(s, r, i) PROVE  l = j
      <3>1. /\ j \in Nat /\ l \in Nat /\ j \in DOMAIN s.calendar[i] /\ l \in DOMAIN s.calendar[i]
        BY <1>1, <2>3, <2>6
      <3>2. /\ j < l => <<s.calendar[i][j], s.calendar[i][l]>> \in AnswerPairs(s)
            /\ l < j => <<s.calendar[i][l], s.calendar[i][j]>> \in AnswerPairs(s)
        BY <2>4, <3>1 DEF Sorted, Pairs
      <3>3. s.calendar[i][l].kind = "response" /\ s.calendar[i][l].what = r  BY <1>1, <2>6
      <3>4. ~(j < l) /\ ~(l < j)  BY <2>2, <2>5, <3>2, <3>3
      <3> QED  BY <3>1, <3>4
    <2>7. Answered(s, r, i) = {j}  BY <2>3, <2>6
    <2>8. ASSUME NEW k \in 0..Horizon, k # i, NEW l \in Answered(s, r, k) PROVE  FALSE
      <3>1. s.calendar[k][l] \in Elems(s.calendar[k]) /\ s.calendar[i][j] \in Elems(s.calendar[i])
            /\ s.calendar[k][l].kind = "response" /\ s.calendar[k][l].what = r
        BY <1>1, <2>3, <2>8
      <3>2. i < k \/ k < i  BY <2>8, Numbers
      <3>3. \/ <<s.calendar[i][j], s.calendar[k][l]>> \in AnswerPairs(s)
            \/ <<s.calendar[k][l], s.calendar[i][j]>> \in AnswerPairs(s)
        BY <2>4, <3>1, <3>2 DEF Sorted
      <3> QED  BY <2>2, <2>5, <3>1, <3>3
    <2> QED  BY <2>7, <2>8
  <1> QED  BY <1>2, <1>3

\* and in one of these only.
LEMMA OnePlace ==
    ASSUME NEW s, Good(s), NEW r \in Known
    PROVE  Cardinality(Places(s, r)) = 1
  <1>0. /\ s.tq \in Seq(Req) /\ s.cq \in [Queues -> Seq(Command)] /\ s.calendar \in Calendar
        /\ CommandsFit(s) /\ QueuesSorted(s) /\ AnswersSorted(s) /\ Pairs(s.tq, Rising)
    BY ChannelIs DEF Good, QueuesSorted
  <1>1. Stages(Elems(s.tq), SentSet(s), AnswerSet(s), s.served)  BY DEF Good, InStages
  <1>2. /\ r \notin Elems(s.tq) => Waiting(s, r) = {}
        /\ r \in Elems(s.tq) => \E i : Waiting(s, r) = {i}
    BY <1>0, WaitingIs
  <1>3. /\ r \notin SentSet(s) => \A q \in Queues : Sent(s, r, q) = {}
        /\ r \in SentSet(s) =>
             \E q \in Queues : \E i : /\ Sent(s, r, q) = {i}
                                      /\ \A x \in Queues : x # q => Sent(s, r, x) = {}
    BY <1>0, SentIs
  <1>4. /\ r \notin AnswerSet(s) => \A i \in 0..Horizon : Answered(s, r, i) = {}
        /\ r \in AnswerSet(s) =>
             \E i \in 0..Horizon : \E j : /\ Answered(s, r, i) = {j}
                                          /\ \A k \in 0..Horizon : k # i => Answered(s, r, k) = {}
    BY <1>0, AnsweredIs
  <1> DEFINE W == {"waiting"} \X {None} \X Waiting(s, r)
             T == UNION {{"sent"} \X {q} \X Sent(s, r, q) : q \in Queues}
             A == UNION {{"answered"} \X {i} \X Answered(s, r, i) : i \in 0..Horizon}
             D == {"served"} \X {None} \X (s.served \cap {r})
  <1>5. r \notin Elems(s.tq) => W = {}  BY <1>2
  <1>6. r \notin SentSet(s) => T = {}  BY <1>3
  <1>7. r \notin AnswerSet(s) => A = {}  BY <1>4
  <1>8. r \notin s.served => D = {}  OBVIOUS
  <1>9. r \in Elems(s.tq) => \E x : W = {x}
    <2>1. ASSUME NEW i, Waiting(s, r) = {i} PROVE  W = {<<"waiting", None, i>>}
      BY <2>1
    <2> QED  BY <1>2, <2>1
  <1>10. r \in SentSet(s) => \E x : T = {x}
    <2>1. ASSUME NEW q \in Queues, NEW i, Sent(s, r, q) = {i},
                 \A x \in Queues : x # q => Sent(s, r, x) = {}
          PROVE  T = {<<"sent", q, i>>}
      BY <2>1
    <2> QED  BY <1>3, <2>1
  <1>11. r \in AnswerSet(s) => \E x : A = {x}
    <2>1. ASSUME NEW i \in 0..Horizon, NEW j, Answered(s, r, i) = {j},
                 \A k \in 0..Horizon : k # i => Answered(s, r, k) = {}
          PROVE  A = {<<"answered", i, j>>}
      BY <2>1
    <2> QED  BY <1>4, <2>1
  <1>12. r \in s.served => \E x : D = {x}
    <2>1. ASSUME r \in s.served PROVE  D = {<<"served", None, r>>}
      BY <2>1
    <2> QED  BY <2>1
  <1>13. Places(s, r) = W \cup T \cup A \cup D  BY DEF Places
  <1> HIDE DEF W, T, A, D
  <1>14. \E x : Places(s, r) = {x}
    <2>1. r \in Elems(s.tq) \/ r \in SentSet(s) \/ r \in AnswerSet(s) \/ r \in s.served
      BY <1>1 DEF Stages
    <2>2. CASE r \in Elems(s.tq)
      <3>1. r \notin SentSet(s) /\ r \notin AnswerSet(s) /\ r \notin s.served
        BY <1>1, <2>2 DEF Stages
      <3> QED  BY <1>6, <1>7, <1>8, <1>9, <1>13, <2>2, <3>1
    <2>3. CASE r \in SentSet(s)
      <3>1. r \notin Elems(s.tq) /\ r \notin AnswerSet(s) /\ r \notin s.served
        BY <1>1, <2>3 DEF Stages
      <3> QED  BY <1>5, <1>7, <1>8, <1>10, <1>13, <2>3, <3>1
    <2>4. CASE r \in AnswerSet(s)
      <3>1. r \notin Elems(s.tq) /\ r \notin SentSet(s) /\ r \notin s.served
        BY <1>1, <2>4 DEF Stages
      <3> QED  BY <1>5, <1>6, <1>8, <1>11, <1>13, <2>4, <3>1
    <2>5. CASE r \in s.served
      <3>1. r \notin Elems(s.tq) /\ r \notin SentSet(s) /\ r \notin AnswerSet(s)
        BY <1>1, <2>5 DEF Stages
      <3> QED  BY <1>5, <1>6, <1>7, <1>12, <1>13, <2>5, <3>1
    <2> QED  BY <2>1, <2>2, <2>3, <2>4, <2>5
  <1> QED  BY <1>14, FS_Singleton

\* No request is lost, sent twice or answered twice, and row hits never overtake each other.
THEOREM RequestsAreServedOnce == Spec => []ServedOnce
  <1>1. IInv => ServedOnce
    <2> SUFFICES ASSUME IInv PROVE ServedOnce
      OBVIOUS
    <2>1. Good(ch) /\ Submitted /\ InStages(ch)  BY DEF IInv, Good
    <2>2. \A r \in 1..Len(address) : Cardinality(Places(ch, r)) = 1  BY <2>1, OnePlace DEF Known
    <2>3. ASSUME NEW r \in ch.served, NEW q \in 1..(r - 1), address[q] = address[r], Alike(ch, q, r)
          PROVE  q \in ch.served
      <3>1. r \in Known /\ Len(address) \in Nat
        BY <2>1, LenProperties DEF InStages, Stages, Submitted
      <3>2. q \in Known /\ q < r  BY <3>1 DEF Known
      <3>3. Precedes(ch, q, r)  BY <2>3, <3>2 DEF Precedes
      <3> QED  BY <2>1, <3>1, <3>2, <3>3 DEF InStages, NoOvertaking
    <2> QED  BY <2>2, <2>3 DEF ServedOnce
  <1> QED  BY <1>1, ChannelIsGood, PTL

\* The refreshes of all groups are queued in time, and none is lost in a command queue.
THEOREM RefreshesAreNotForgotten == Spec => []RefreshesAreQueued
  <1>1. IInv => RefreshesAreQueued
    <2> SUFFICES ASSUME IInv PROVE RefreshesAreQueued
      OBVIOUS
    <2>1. Refreshes(ch) /\ Submitted /\ ch \in Channel  BY DEF IInv, Good
    <2>2. ASSUME NEW b \in Bank PROVE  ~NeedRefresh(ch, b)
      <3>1. BankHead(b) \in Groups /\ ch.refreshCounter[BankHead(b)] \in Nat
        BY <2>1, GroupsAre, ChannelIs DEF Submitted
      <3>2. ch.refreshCounter[BankHead(b)] < DelayedRefreshThreshold
        BY <2>1, <3>1 DEF Refreshes
      <3> QED  BY <3>1, <3>2, Numbers DEF NeedRefresh
    <2>3. ASSUME NEW b \in Bank, ch.refreshQueued[b]
          PROVE  \E i \in 1..Len(ch.cq[GetCommandQueueId(BankHead(b), 0)]) :
                    LET c == ch.cq[GetCommandQueueId(BankHead(b), 0)][i]
                    IN  c.op = "REFRESH" /\ ~c.issued /\ c.at.bank = BankHead(b)
      <3> DEFINE queue == ch.cq[GetCommandQueueId(BankHead(b), 0)]
      <3>1. queue \in Seq(Command)
        <4>1. p \in Params /\ BankHead(b) \in Bank /\ 0 \in SubArray
          BY <2>1, GroupsAre, Sizes DEF Submitted
        <4>2. GetCommandQueueId(BankHead(b), 0) \in Queues  BY <4>1, QueuesAre
        <4> QED  BY <2>1, <4>2, ChannelIs
      <3>2. PICK c \in Elems(queue) : c.op = "REFRESH" /\ ~c.issued /\ c.at.bank = BankHead(b)
        BY <2>1, <2>3 DEF Refreshes
      <3>3. DOMAIN queue = 1..Len(queue)  BY <3>1, LenProperties
      <3> HIDE DEF queue
      <3>4. \E i \in 1..Len(queue) :
               queue[i].op = "REFRESH" /\ ~queue[i].issued /\ queue[i].at.bank = BankHead(b)
        BY <3>2, <3>3 DEF Elems
      <3> QED  BY <3>4 DEF queue
    <2> QED  BY <2>2, <2>3 DEF RefreshesAreQueued
  <1> QED  BY <1>1, ChannelIsGood, PTL

-----------------------------------------------------------------------------
(* Open rows: RowsAgree and what it rests on beyond the invariant above.   *)

\* None of the commands from the i-th to the j-th leaves another row.
Still(queue, i, j, b, sa) == \A k \in i..j : ~Moves(queue[k], b, sa)

\* The row a queue leaves open is that of the last command that moves one,
LEMMA RowIs ==
    ASSUME NEW queue, NEW open, NEW n \in Nat, NEW b, NEW sa
    PROVE  /\ Still(queue, 1, n, b, sa) => RowAfter(queue, open, n, b, sa) = open
           /\ \A m \in 1..n : Moves(queue[m], b, sa) /\ Still(queue, m + 1, n, b, sa)
                => RowAfter(queue, open, n, b, sa) = Leaves(queue[m])
           /\ ~Still(queue, 1, n, b, sa)
                => \E m \in 1..n : Moves(queue[m], b, sa) /\ Still(queue, m + 1, n, b, sa)
  <1> DEFINE moves == {i \in 1..n : Moves(queue[i], b, sa)}
             row == RowAfter(queue, open, n, b, sa)
  <1>0. moves \in SUBSET (1..n)  OBVIOUS
  <1>1. (moves = {} => row = open) /\ (moves # {} => row = Leaves(queue[Newest(moves)]))
    BY DEF RowAfter
  <1>2. moves = {} <=> Still(queue, 1, n, b, sa)  BY DEF Still
  <1>3. ASSUME NEW m \in 1..n, Moves(queue[m], b, sa), Still(queue, m + 1, n, b, sa)
        PROVE  row = Leaves(queue[m])
    <2>1. m \in moves  BY <1>3
    <2>2. \A i \in moves : i <= m  BY <1>3 DEF Still
    <2> HIDE DEF moves, row
    <2>3. Newest(moves) \in moves /\ Newest(moves) >= m  BY <1>0, <2>1, NewestIs
    <2>4. Newest(moves) <= m /\ Newest(moves) \in 1..n /\ m \in 1..n  BY <1>0, <2>2, <2>3
    <2>5. Newest(moves) = m  BY <2>3, <2>4
    <2> QED  BY <1>1, <2>1, <2>5
  <1>4. ASSUME moves # {}
        PROVE  \E m \in 1..n : Moves(queue[m], b, sa) /\ Still(queue, m + 1, n, b, sa)
    <2>1. Newest(moves) \in moves /\ \A i \in moves : Newest(moves) >= i
      <3> HIDE DEF moves
      <3> QED  BY <1>0, <1>4, NewestIs
    <2> DEFINE m == Newest(moves)
    <2>2. m \in 1..n /\ Moves(queue[m], b, sa) /\ \A i \in moves : m >= i  BY <2>1
    <2> HIDE DEF m
    <2>3. Still(queue, m + 1, n, b, sa)  BY <2>2 DEF Still
    <2> QED  BY <2>2, <2>3
  <1> HIDE DEF moves, row
  <1> QED  BY <1>1, <1>2, <1>3, <1>4 DEF row

\* when there is one,
LEMMA RowStill ==
    ASSUME NEW queue, NEW open, NEW n \in Nat, NEW b, NEW sa, Still(queue, 1, n, b, sa)
    PROVE  RowAfter(queue, open, n, b, sa) = open
  BY RowIs

\* and wherever it is.
LEMMA RowMoved ==
    ASSUME NEW queue, NEW open, NEW n \in Nat, NEW b, NEW sa, NEW m \in 1..n,
           Moves(queue[m], b, sa), Still(queue, m + 1, n, b, sa)
    PROVE  RowAfter(queue, open, n, b, sa) = Leaves(queue[m])
  BY RowIs

\* Queues that begin with the same commands.
LEMMA SameRow ==
    ASSUME NEW x, NEW y, NEW open, NEW n \in Nat, NEW b, NEW sa, \A i \in 1..n : x[i] = y[i]
    PROVE  RowAfter(x, open, n, b, sa) = RowAfter(y, open, n, b, sa)
  <1>1. {i \in 1..n : Moves(x[i], b, sa)} = {i \in 1..n : Moves(y[i], b, sa)}  OBVIOUS
  <1> DEFINE moves == {i \in 1..n : Moves(x[i], b, sa)}
  <1>2. CASE moves = {}  BY <1>1, <1>2 DEF RowAfter
  <1>3. CASE moves # {}
    <2>1. Newest(moves) \in moves
      <3>1. moves \in SUBSET (1..n)  OBVIOUS
      <3> HIDE DEF moves
      <3> QED  BY <1>3, <3>1, NewestIs
    <2>2. x[Newest(moves)] = y[Newest(moves)]  BY <2>1
    <2> QED  BY <1>1, <1>3, <2>2 DEF RowAfter
  <1> QED  BY <1>2, <1>3

\* Commands behind a queue: the row it leaves is the one they find.
LEMMA RowBehind ==
    ASSUME NEW x \in Seq(Command), NEW y \in Seq(Command), NEW open, NEW b, NEW sa, NEW j \in Nat,
           j \in 0..Len(y)
    PROVE  RowAfter(x \o y, open, Len(x) + j, b, sa)
             = RowAfter(y, RowAfter(x, open, Len(x), b, sa), j, b, sa)
  <1> DEFINE z == x \o y
             mid == RowAfter(x, open, Len(x), b, sa)
             n == Len(x)
  <1>1. /\ n \in Nat /\ Len(y) \in Nat
        /\ \A i \in 1..n : z[i] = x[i]
        /\ \A i \in 1..Len(y) : z[n + i] = y[i]
    BY ConcatIs
  <1> HIDE DEF z
  <1>2. CASE ~Still(y, 1, j, b, sa)
    <2>1. PICK m \in 1..j : Moves(y[m], b, sa) /\ Still(y, m + 1, j, b, sa)  BY <1>2, RowIs
    <2>2. n + m \in 1..(n + j) /\ Moves(z[n + m], b, sa) /\ m \in 1..Len(y) /\ z[n + m] = y[m]
      BY <1>1, <2>1
    <2>3. Still(z, n + m + 1, n + j, b, sa)
      <3>1. ASSUME NEW k \in (n + m + 1)..(n + j) PROVE  ~Moves(z[k], b, sa)
        <4>1. k - n \in (m + 1)..j /\ k - n \in 1..Len(y) /\ n + (k - n) = k
          BY <1>1, <2>2, <3>1
        <4> QED  BY <1>1, <2>1, <4>1 DEF Still
      <3> QED  BY <3>1 DEF Still
    <2>4. n + j \in Nat  BY <1>1
    <2>5. RowAfter(z, open, n + j, b, sa) = Leaves(y[m])
      <3>1. RowAfter(z, open, n + j, b, sa) = Leaves(z[n + m])
        <4> DEFINE k == n + m
                   l == n + j
        <4>1. k \in 1..l /\ l \in Nat /\ Moves(z[k], b, sa) /\ Still(z, k + 1, l, b, sa)
          BY <2>2, <2>3, <2>4
        <4> HIDE DEF k, l
        <4>2. RowAfter(z, open, l, b, sa) = Leaves(z[k])  BY <4>1, RowMoved
        <4> QED  BY <4>2 DEF k, l
      <3> QED  BY <2>2, <3>1
    <2>6. RowAfter(y, mid, j, b, sa) = Leaves(y[m])  BY <2>1, RowMoved
    <2> QED  BY <2>5, <2>6 DEF z
  <1>3. CASE Still(y, 1, j, b, sa)
    <2>1. RowAfter(y, mid, j, b, sa) = mid  BY <1>3, RowStill
    <2>2. \A k \in (n + 1)..(n + j) : ~Moves(z[k], b, sa)
      <3>1. ASSUME NEW k \in (n + 1)..(n + j) PROVE  ~Moves(z[k], b, sa)
        <4>1. k - n \in 1..j /\ k - n \in 1..Len(y) /\ n + (k - n) = k  BY <1>1, <3>1
        <4> QED  BY <1>1, <1>3, <4>1 DEF Still
      <3> QED  BY <3>1
    <2>3. n + j \in Nat  BY <1>1
    <2>4. CASE Still(x, 1, n, b, sa)
      <3>1. Still(z, 1, n + j, b, sa)
        <4>1. ASSUME NEW k \in 1..(n + j) PROVE  ~Moves(z[k], b, sa)
          <5>1. k \in 1..n \/ k \in (n + 1)..(n + j)  BY <1>1, <4>1
          <5> QED  BY <1>1, <2>2, <2>4, <5>1 DEF Still
        <4> QED  BY <4>1 DEF Still
      <3>2. RowAfter(z, open, n + j, b, sa) = open  BY <2>3, <3>1, RowStill
      <3>3. mid = open  BY <1>1, <2>4, RowStill
      <3> QED  BY <2>1, <3>2, <3>3 DEF z
    <2>5. CASE ~Still(x, 1, n, b, sa)
      <3>1. PICK m \in 1..n : Moves(x[m], b, sa) /\ Still(x, m + 1, n, b, sa)
        BY <1>1, <2>5, RowIs
      <3>2. Still(z, m + 1, n + j, b, sa)
        <4>1. ASSUME NEW k \in (m + 1)..(n + j) PROVE  ~Moves(z[k], b, sa)
          <5>1. k \in (m + 1)..n \/ k \in (n + 1)..(n + j)  BY <1>1, <4>1
          <5>2. k \in (m + 1)..n => k \in 1..n  BY <1>1, <3>1
          <5> QED  BY <1>1, <2>2, <3>1, <5>1, <5>2 DEF Still
        <4> QED  BY <4>1 DEF Still
      <3>3. m \in 1..(n + j) /\ z[m] = x[m]  BY <1>1, <3>1
      <3>4. RowAfter(z, open, n + j, b, sa) = Leaves(x[m])
        <4>1. RowAfter(z, open, n + j, b, sa) = Leaves(z[m])
          BY <2>3, <3>1, <3>2, <3>3, RowMoved
        <4> QED  BY <3>3, <4>1
      <3>5. mid = Leaves(x[m])  BY <1>1, <3>1, RowMoved
      <3> QED  BY <2>1, <3>4, <3>5 DEF z
    <2> QED  BY <2>4, <2>5
  <1> QED  BY <1>2, <1>3

\* The same of the first command.
LEMMA RowMovedFirst ==
    ASSUME NEW queue, NEW open, NEW n \in Nat, n >= 1, NEW b, NEW sa,
           Moves(queue[1], b, sa), Still(queue, 2, n, b, sa)
    PROVE  RowAfter(queue, open, n, b, sa) = Leaves(queue[1])
  <1>1. PICK m : m = 1  OBVIOUS
  <1>2. m \in 1..n /\ Moves(queue[m], b, sa)  BY <1>1
  <1>3. Still(queue, m + 1, n, b, sa)
    <2>1. m + 1 = 2  BY <1>1
    <2> QED  BY <2>1
  <1>4. RowAfter(queue, open, n, b, sa) = Leaves(queue[m])  BY <1>2, <1>3, RowMoved
  <1> QED  BY <1>1, <1>4

\* A queue without commands leaves everything as it is.
LEMMA NoneLeads ==
    ASSUME NEW open, NEW b, NEW sa
    PROVE  Leads(<<>>, open, open, b, sa)
  <1>1. RowAfter(<<>>, open, 0, b, sa) = open  BY RowStill DEF Still
  <1> QED  BY <1>1 DEF Leads

\* A queue and commands behind it.
LEMMA LeadsOn ==
    ASSUME NEW x \in Seq(Command), NEW y \in Seq(Command), NEW open, NEW mid, NEW row, NEW b, NEW sa,
           Leads(x, open, mid, b, sa), Leads(y, mid, row, b, sa)
    PROVE  Leads(x \o y, open, row, b, sa)
  <1> DEFINE z == x \o y
             n == Len(x)
  <1>1. /\ n \in Nat /\ Len(y) \in Nat /\ Len(z) = n + Len(y) /\ z \in Seq(Command)
        /\ \A i \in 1..n : z[i] = x[i]
        /\ \A i \in 1..Len(y) : z[n + i] = y[i]
        /\ DOMAIN x = 1..n /\ DOMAIN y = 1..Len(y)
    BY ConcatIs
  <1>2. DOMAIN z = 1..(n + Len(y))
    <2> HIDE DEF z, n
    <2> QED  BY <1>1, LenProperties
  <1>3. \A j \in 0..Len(y) : RowAfter(z, open, n + j, b, sa) = RowAfter(y, mid, j, b, sa)
    <2>1. RowAfter(x, open, n, b, sa) = mid  BY DEF Leads
    <2> SUFFICES ASSUME NEW j \in 0..Len(y)
                 PROVE  RowAfter(z, open, n + j, b, sa) = RowAfter(y, mid, j, b, sa)
      OBVIOUS
    <2>2. j \in Nat  BY <1>1
    <2> QED  BY <2>1, <2>2, RowBehind
  <1> HIDE DEF z
  <1>4. RowAfter(z, open, Len(z), b, sa) = row
    <2>1. Len(y) \in 0..Len(y)  BY <1>1
    <2> QED  BY <1>1, <1>3, <2>1 DEF Leads
  <1>5. ASSUME NEW i \in DOMAIN z, ~z[i].issued, z[i].at.bank = b
        PROVE  Fits(z[i], sa, RowAfter(z, open, i - 1, b, sa))
    <2>1. CASE i \in 1..n
      <3>1. RowAfter(z, open, i - 1, b, sa) = RowAfter(x, open, i - 1, b, sa)
        <4>1. i - 1 \in Nat /\ \A k \in 1..(i - 1) : z[k] = x[k]  BY <1>1, <2>1
        <4> QED  BY <4>1, SameRow
      <3> QED  BY <1>1, <1>5, <2>1, <3>1 DEF Leads
    <2>2. CASE i \notin 1..n
      <3> DEFINE j == i - n
      <3>1. j \in 1..Len(y) /\ j - 1 \in 0..Len(y) /\ i - 1 = n + (j - 1) /\ i = n + j
        BY <1>1, <1>2, <1>5, <2>2
      <3>2. z[i] = y[j] /\ j \in DOMAIN y  BY <1>1, <3>1
      <3>3. RowAfter(z, open, i - 1, b, sa) = RowAfter(y, mid, j - 1, b, sa)  BY <1>3, <3>1
      <3> HIDE DEF j
      <3> QED  BY <1>5, <3>2, <3>3 DEF Leads
    <2> QED  BY <2>1, <2>2
  <1> QED  BY <1>4, <1>5 DEF Leads, z

\* A single command.
LEMMA OneLeads ==
    ASSUME NEW c \in Command, NEW open, NEW row, NEW b, NEW sa,
           c.at.bank = b => Fits(c, sa, open),
           Moves(c, b, sa) => row = Leaves(c), ~Moves(c, b, sa) => row = open
    PROVE  Leads(<<c>>, open, row, b, sa)
  <1> DEFINE list == <<c>>
  <1>1. list \in Seq(Command) /\ Len(list) = 1 /\ DOMAIN list = {1} /\ list[1] = c  OBVIOUS
  <1> HIDE DEF list
  <1>2. RowAfter(list, open, 0, b, sa) = open  BY RowStill DEF Still
  <1>3. RowAfter(list, open, 1, b, sa) = row
    <2>1. CASE Moves(c, b, sa)
      <3>1. Still(list, 2, 1, b, sa) /\ Moves(list[1], b, sa)  BY <1>1, <2>1 DEF Still
      <3>2. RowAfter(list, open, 1, b, sa) = Leaves(list[1])  BY <3>1, RowMovedFirst
      <3> QED  BY <1>1, <2>1, <3>2
    <2>2. CASE ~Moves(c, b, sa)
      <3>1. Still(list, 1, 1, b, sa)  BY <1>1, <2>2 DEF Still
      <3> QED  BY <2>2, <3>1, RowStill
    <2> QED  BY <2>1, <2>2
  <1>4. Leads(list, open, row, b, sa)  BY <1>1, <1>2, <1>3 DEF Leads
  <1> QED  BY <1>4 DEF list

\* The bank has the row open that the head leaves, once it is issued.
LEMMA HeadLeads ==
    ASSUME NEW queue \in Seq(Command), queue # <<>>, ~queue[1].issued, NEW open, NEW next, NEW row,
           NEW b, NEW sa, Leads(queue, open, row, b, sa),
           Moves(queue[1], b, sa) => next = Leaves(queue[1]),
           ~Moves(queue[1], b, sa) => next = open
    PROVE  /\ queue[1].at.bank = b => Fits(queue[1], sa, open)
           /\ Leads(Issue(queue), next, row, b, sa)
  <1> DEFINE new == Issue(queue)
  <1>1. /\ new \in Seq(Command) /\ Len(new) = Len(queue) /\ Len(queue) \in Nat
        /\ DOMAIN new = DOMAIN queue /\ DOMAIN queue = 1..Len(queue) /\ 1 \in DOMAIN queue
        /\ new[1] = [queue[1] EXCEPT !.issued = TRUE] /\ queue[1] \in Command
        /\ \A i \in DOMAIN queue : i # 1 => new[i] = queue[i]
    BY IssueIs
  <1>2. new[1].issued  BY <1>1 DEF Command
  <1> HIDE DEF new
  <1>3. RowAfter(queue, open, 0, b, sa) = open  BY RowStill DEF Still
  <1>4. queue[1].at.bank = b => Fits(queue[1], sa, open)  BY <1>1, <1>3 DEF Leads
  <1>5. ASSUME NEW n \in 1..Len(queue)
        PROVE  RowAfter(new, next, n, b, sa) = RowAfter(queue, open, n, b, sa)
    <2>0. n \in Nat  BY <1>1
    <2>1. ~Moves(new[1], b, sa)  BY <1>2 DEF Moves
    <2>2. \A k \in 2..n : new[k] = queue[k]  BY <1>1
    <2>3. CASE ~Still(queue, 2, n, b, sa)
      <3>1. PICK m \in 1..n : Moves(queue[m], b, sa) /\ Still(queue, m + 1, n, b, sa)
        <4>1. ~Still(queue, 1, n, b, sa)  BY <2>3 DEF Still
        <4> QED  BY <2>0, <4>1, RowIs
      <3>2. m # 1  BY <2>3, <3>1 DEF Still
      <3>3. Moves(new[m], b, sa) /\ Still(new, m + 1, n, b, sa) /\ new[m] = queue[m]
        <4>1. \A k \in m..n : k \in 2..n  BY <2>0, <3>1, <3>2
        <4>2. m \in m..n /\ \A k \in (m + 1)..n : k \in m..n  BY <2>0, <3>1
        <4> QED  BY <2>2, <3>1, <4>1, <4>2 DEF Still
      <3>4. RowAfter(new, next, n, b, sa) = Leaves(queue[m])  BY <2>0, <3>1, <3>3, RowMoved
      <3>5. RowAfter(queue, open, n, b, sa) = Leaves(queue[m])  BY <2>0, <3>1, RowMoved
      <3> QED  BY <3>4, <3>5
    <2>4. CASE Still(queue, 2, n, b, sa)
      <3>1. Still(new, 1, n, b, sa)
        <4>1. ASSUME NEW k \in 1..n PROVE  ~Moves(new[k], b, sa)
          <5>1. k = 1 \/ k \in 2..n  BY <2>0, <4>1
          <5> QED  BY <2>1, <2>2, <2>4, <5>1 DEF Still
        <4> QED  BY <4>1 DEF Still
      <3>2. RowAfter(new, next, n, b, sa) = next  BY <2>0, <3>1, RowStill
      <3>3. CASE Moves(queue[1], b, sa)
        <4>1. n >= 1  BY <2>0
        <4>2. RowAfter(queue, open, n, b, sa) = Leaves(queue[1])
          BY <2>0, <2>4, <3>3, <4>1, RowMovedFirst
        <4> QED  BY <3>2, <3>3, <4>2
      <3>4. CASE ~Moves(queue[1], b, sa)
        <4>1. Still(queue, 1, n, b, sa)
          <5>1. \A k \in 1..n : k = 1 \/ k \in 2..n  BY <2>0
          <5> QED  BY <2>4, <3>4, <5>1 DEF Still
        <4>2. RowAfter(queue, open, n, b, sa) = open  BY <2>0, <4>1, RowStill
        <4> QED  BY <3>2, <3>4, <4>2
      <3> QED  BY <3>3, <3>4
    <2> QED  BY <2>3, <2>4
  <1>6. ASSUME NEW i \in DOMAIN new, ~new[i].issued, new[i].at.bank = b
        PROVE  Fits(new[i], sa, RowAfter(new, next, i - 1, b, sa))
    <2>1. i # 1 /\ i \in 1..Len(queue) /\ i \in DOMAIN queue  BY <1>1, <1>2, <1>6
    <2>2. i - 1 \in 1..Len(queue)  BY <1>1, <2>1
    <2>3. new[i] = queue[i]  BY <1>1, <2>1
    <2> QED  BY <1>5, <1>6, <2>1, <2>2, <2>3 DEF Leads
  <1>7. RowAfter(new, next, Len(new), b, sa) = row
    <2>1. Len(queue) \in 1..Len(queue)  BY <1>1
    <2> QED  BY <1>1, <1>5, <2>1 DEF Leads
  <1>8. Leads(new, next, row, b, sa)  BY <1>6, <1>7 DEF Leads
  <1> QED  BY <1>4, <1>8 DEF new

\* The ones that were issued are taken out.
LEMMA UnissuedLeads ==
    ASSUME NEW queue \in Seq(Command), NEW open, NEW row, NEW b, NEW sa, Leads(queue, open, row, b, sa)
    PROVE  Leads(Unissued(queue), open, row, b, sa)
  <1> DEFINE T == {i \in DOMAIN queue : ~queue[i].issued}
             kept == Ordered(T)
             new == Unissued(queue)
             size == Cardinality(T)
  <1>1. Len(queue) \in Nat /\ DOMAIN queue = 1..Len(queue)  BY LenProperties
  <1>2. T \in SUBSET Nat /\ IsFiniteSet(T)
    <2>1. IsFiniteSet(1..Len(queue)) /\ T \subseteq 1..Len(queue)  BY <1>1, FS_Interval
    <2> QED  BY <1>1, <2>1, FS_Subset
  <1>3. /\ size \in Nat /\ DOMAIN kept = 1..size
        /\ \A k, l \in 1..size : k < l => kept[k] < kept[l]
        /\ \A k \in 1..size : kept[k] \in T
        /\ \A i \in T : \E k \in 1..size : kept[k] = i
    <2> HIDE DEF T
    <2> QED  BY <1>2, OrderedIs
  <1>4. new = [k \in 1..size |-> queue[kept[k]]]  BY <1>3 DEF Unissued
  <1>5. new \in Seq(Command) /\ Len(new) = size /\ DOMAIN new = 1..size
        /\ \A k \in 1..size : new[k] = queue[kept[k]]
    <2>1. new \in Seq(Command)  BY UnissuedIs
    <2>2. DOMAIN new = 1..size /\ \A k \in 1..size : new[k] = queue[kept[k]]  BY <1>4
    <2> HIDE DEF new, kept, size, T
    <2>3. Len(new) = size  BY <1>3, <2>1, <2>2, LenProperties
    <2> QED  BY <2>1, <2>2, <2>3
  <1>6. \A k \in 1..size : kept[k] \in 1..Len(queue) /\ ~queue[kept[k]].issued  BY <1>1, <1>3
  <1>7. \A i \in 1..Len(queue) : Moves(queue[i], b, sa) => \E k \in 1..size : kept[k] = i
    BY <1>1, <1>3 DEF Moves
  <1> HIDE DEF new, kept, size, T
  \* The first m that are kept are those of the first n.
  <1>8. ASSUME NEW m \in 0..size, NEW n \in 0..Len(queue),
               \A k \in 1..size : k <= m <=> kept[k] <= n
        PROVE  RowAfter(new, open, m, b, sa) = RowAfter(queue, open, n, b, sa)
    <2>0. m \in Nat /\ n \in Nat /\ size \in Nat /\ Len(queue) \in Nat  BY <1>1, <1>3
    <2>1. CASE Still(new, 1, m, b, sa)
      <3>1. Still(queue, 1, n, b, sa)
        <4>1. ASSUME NEW i \in 1..n, Moves(queue[i], b, sa) PROVE  FALSE
          <5>1. i \in 1..Len(queue)  BY <2>0, <4>1
          <5>2. PICK k \in 1..size : kept[k] = i  BY <1>7, <4>1, <5>1
          <5>3. k \in 1..m  BY <1>8, <2>0, <4>1, <5>2
          <5> QED  BY <1>5, <2>1, <4>1, <5>2, <5>3 DEF Still
        <4> QED  BY <4>1 DEF Still
      <3> QED  BY <2>0, <2>1, <3>1, RowStill
    <2>2. CASE ~Still(new, 1, m, b, sa)
      <3>1. PICK l \in 1..m : Moves(new[l], b, sa) /\ Still(new, l + 1, m, b, sa)
        BY <2>0, <2>2, RowIs
      <3> DEFINE i == kept[l]
      <3>2. l \in 1..size /\ i \in 1..n /\ new[l] = queue[i]
        <4>1. l \in 1..size  BY <2>0, <3>1
        <4>2. kept[l] <= n /\ kept[l] \in 1..Len(queue)  BY <1>6, <1>8, <2>0, <3>1, <4>1
        <4> QED  BY <1>5, <2>0, <4>1, <4>2
      <3>3. Still(queue, i + 1, n, b, sa)
        <4>1. ASSUME NEW j \in (i + 1)..n, Moves(queue[j], b, sa) PROVE  FALSE
          <5>1. j \in 1..Len(queue) /\ i < j  BY <2>0, <3>2, <4>1
          <5>2. PICK k \in 1..size : kept[k] = j  BY <1>7, <4>1, <5>1
          <5>3. k \in 1..m  BY <1>8, <2>0, <4>1, <5>2
          <5>4. ~(k < l) /\ k # l
            <6>1. kept[l] < kept[k]  BY <5>1, <5>2
            <6>2. k < l => kept[k] < kept[l]  BY <1>3, <3>2
            <6> QED  BY <1>6, <3>2, <6>1, <6>2
          <5>5. k \in (l + 1)..m  BY <2>0, <3>1, <5>3, <5>4
          <5> QED  BY <1>5, <3>1, <4>1, <5>2, <5>5 DEF Still
        <4> QED  BY <4>1 DEF Still
      <3>4. RowAfter(new, open, m, b, sa) = Leaves(new[l])  BY <2>0, <3>1, RowMoved
      <3> HIDE DEF i
      <3>5. RowAfter(queue, open, n, b, sa) = Leaves(queue[i])
        BY <2>0, <3>1, <3>2, <3>3, RowMoved
      <3> QED  BY <3>2, <3>4, <3>5
    <2> QED  BY <2>1, <2>2
  <1>9. ASSUME NEW k \in DOMAIN new, ~new[k].issued, new[k].at.bank = b
        PROVE  Fits(new[k], sa, RowAfter(new, open, k - 1, b, sa))
    <2> DEFINE i == kept[k]
    <2>1. k \in 1..size /\ i \in 1..Len(queue) /\ new[k] = queue[i]  BY <1>5, <1>6
    <2>2. k - 1 \in 0..size /\ i - 1 \in 0..Len(queue)  BY <1>1, <1>3, <2>1
    <2>3. \A l \in 1..size : l <= k - 1 <=> kept[l] <= i - 1
      <3>1. ASSUME NEW l \in 1..size PROVE  l <= k - 1 <=> kept[l] <= i - 1
        <4>1. kept[l] \in Nat /\ i \in Nat /\ l \in Nat /\ k \in Nat
          BY <1>1, <1>3, <1>6, <2>1, <3>1
        <4>2. (l < k => kept[l] < i) /\ (k < l => i < kept[l])  BY <1>3, <2>1, <3>1
        <4>3. l = k => kept[l] = i  OBVIOUS
        <4> HIDE DEF i
        <4> QED  BY <4>1, <4>2, <4>3
      <3> QED  BY <3>1
    <2> HIDE DEF i
    <2>4. RowAfter(new, open, k - 1, b, sa) = RowAfter(queue, open, i - 1, b, sa)
      BY <1>8, <2>2, <2>3
    <2> QED  BY <1>1, <1>9, <2>1, <2>4 DEF Leads
  <1>10. RowAfter(new, open, Len(new), b, sa) = row
    <2>1. size \in 0..size /\ Len(queue) \in 0..Len(queue)  BY <1>1, <1>3
    <2>2. \A k \in 1..size : k <= size <=> kept[k] <= Len(queue)  BY <1>1, <1>3, <1>6
    <2>3. RowAfter(new, open, size, b, sa) = RowAfter(queue, open, Len(queue), b, sa)
      BY <1>8, <2>1, <2>2
    <2> QED  BY <1>5, <2>3 DEF Leads
  <1> QED  BY <1>9, <1>10 DEF Leads, new

-----------------------------------------------------------------------------
(* What the calendar says of subarrays that close.                         *)

\* Posting events that close nothing closes nothing, and nothing twice.
LEMMA QuietClosings ==
    ASSUME NEW old \in Calendar, NEW when \in 0..Horizon, NEW block \in Seq(Event),
           NEW priority, NEW n, NEW new, Inserted(old, when, block, priority, n, new),
           \A e \in Elems(block) : e.kind \notin Closings, ClosesOnce(old)
    PROVE  ClosesOnce(new) /\ Closes(new) = Closes(old)
  <1>1. \A i \in 0..Horizon : Elems(new[i]) = Elems(old[i]) \/ Elems(new[i]) = Elems(old[i]) \cup Elems(block)
    BY InsertedElems
  <1>2. Closes(new) = Closes(old)  BY <1>1 DEF Closes
  <1>3. \A i \in 0..Horizon : \A e \in Elems(old[i]) : e \in Event  BY ElemIs DEF Calendar
  <1>4. \A f \in Elems(block) : f \in Event  BY ElemIs
  <1>5. ASSUME p.UsePrecharge PROVE Sorted(new, ClosingPairs)
    <2>1. Sorted(old, ClosingPairs)  BY <1>5 DEF ClosesOnce
    <2>2. Pairs(block, ClosingPairs)
      <3>1. \A k \in DOMAIN block : block[k] \in Elems(block)  BY DEF Elems
      <3> QED  BY <1>4, <3>1 DEF Pairs, ClosingPairs
    <2>3. \A i \in 0..Horizon : \A e \in Elems(old[i]), f \in Elems(block) :
             <<e, f>> \in ClosingPairs /\ <<f, e>> \in ClosingPairs
      BY <1>3, <1>4 DEF ClosingPairs
    <2> QED  BY <2>1, <2>2, <2>3, FreeInserts
  <1>6. ASSUME ~p.UsePrecharge, NEW i \in 0..Horizon, NEW e \in Elems(new[i])
        PROVE  e.kind \notin {"implicitPrecharge", "closed"}
    <2>1. CASE e \in Elems(old[i])  BY <1>6, <2>1 DEF ClosesOnce
    <2>2. CASE e \in Elems(block)  BY <2>2 DEF Closings
    <2> QED  BY <1>1, <2>1, <2>2
  <1> QED  BY <1>2, <1>5, <1>6 DEF ClosesOnce

\* Posting reports of subarrays that are not about to report keeps each of them reported once.
LEMMA ClosingsAdd ==
    ASSUME NEW old \in Calendar, NEW when \in 0..Horizon, NEW block \in Seq(Event),
           NEW priority, NEW n, NEW new, Inserted(old, when, block, priority, n, new),
           NEW kind \in Closings, NEW whats \in Seq(Bank \X SubArray), DOMAIN block = DOMAIN whats,
           \A i \in DOMAIN whats : block[i].kind = kind /\ block[i].what = whats[i],
           \A i, j \in DOMAIN whats : i < j => whats[i] # whats[j],
           ClosesOnce(old), p.UsePrecharge => \A a \in Elems(whats) : a \notin Closes(old),
           kind = "refreshed" \/ p.UsePrecharge
    PROVE  ClosesOnce(new) /\ Closes(new) = Closes(old) \cup Elems(whats)
  <1>1. \A i \in 0..Horizon : i = when => Elems(new[i]) = Elems(old[i]) \cup Elems(block)
    BY InsertedElems
  <1>2. \A i \in 0..Horizon : i # when => Elems(new[i]) = Elems(old[i])  BY InsertedElems
  <1>3. \A i \in 0..Horizon : \A e \in Elems(old[i]) : e \in Event  BY ElemIs DEF Calendar
  <1>4. \A f \in Elems(block) : f \in Event  BY ElemIs
  <1>5. \A f \in Elems(block) : f.kind = kind /\ f.what \in Elems(whats)  BY DEF Elems
  <1>6. \A a \in Elems(whats) : \E f \in Elems(block) : f.what = a  BY DEF Elems
  <1>7. \A a \in Elems(whats) : a \in Bank \X SubArray  BY ElemIs
  <1>8. Closes(new) = Closes(old) \cup Elems(whats)
    <2>1. ASSUME NEW a \in Closes(new) PROVE  a \in Closes(old) \/ a \in Elems(whats)
      <3>1. PICK i \in 0..Horizon : \E e \in Elems(new[i]) : e.kind \in Closings /\ e.what = a
        BY DEF Closes
      <3>2. PICK e \in Elems(new[i]) : e.kind \in Closings /\ e.what = a  BY <3>1
      <3>3. CASE e \in Elems(old[i])  BY <3>2, <3>3 DEF Closes
      <3>4. CASE e \in Elems(block)  BY <1>5, <3>2, <3>4
      <3> QED  BY <1>1, <1>2, <3>3, <3>4
    <2>2. ASSUME NEW a \in Closes(old) PROVE  a \in Closes(new)
      <3>1. PICK i \in 0..Horizon : \E e \in Elems(old[i]) : e.kind \in Closings /\ e.what = a
        BY DEF Closes
      <3>2. PICK e \in Elems(old[i]) : e.kind \in Closings /\ e.what = a  BY <3>1
      <3>3. e \in Elems(new[i])  BY <1>1, <1>2
      <3> QED  BY <3>2, <3>3 DEF Closes
    <2>3. ASSUME NEW a \in Elems(whats) PROVE  a \in Closes(new)
      <3>1. PICK f \in Elems(block) : f.what = a  BY <1>6
      <3>2. f \in Elems(new[when]) /\ f.kind \in Closings  BY <1>1, <1>5
      <3> QED  BY <1>7, <3>1, <3>2 DEF Closes
    <2> QED  BY <2>1, <2>2, <2>3
  <1>9. ASSUME p.UsePrecharge PROVE Sorted(new, ClosingPairs)
    <2>1. Sorted(old, ClosingPairs)  BY <1>9 DEF ClosesOnce
    <2>2. Pairs(block, ClosingPairs)
      <3>1. \A k \in DOMAIN block : block[k] \in Event  BY <1>4 DEF Elems
      <3> QED  BY <3>1 DEF Pairs, ClosingPairs
    <2>3. ASSUME NEW i \in 0..Horizon, NEW e \in Elems(old[i]), NEW f \in Elems(block)
          PROVE  <<e, f>> \in ClosingPairs /\ <<f, e>> \in ClosingPairs
      <3>1. e.kind \in Closings => e.what \in Closes(old)
        <4>1. e.kind \in Closings => e.what \in Bank \X SubArray  BY <1>3, EventIs
        <4> QED  BY <4>1 DEF Closes
      <3>2. f.what \notin Closes(old)  BY <1>5, <1>9
      <3> QED  BY <1>3, <1>4, <3>1, <3>2 DEF ClosingPairs
    <2> QED  BY <2>1, <2>2, <2>3, FreeInserts
  <1>10. ASSUME ~p.UsePrecharge, NEW i \in 0..Horizon, NEW e \in Elems(new[i])
         PROVE  e.kind \notin {"implicitPrecharge", "closed"}
    <2>1. CASE e \in Elems(old[i])  BY <1>10, <2>1 DEF ClosesOnce
    <2>2. CASE e \in Elems(block)  BY <1>5, <1>10, <2>2
    <2> QED  BY <1>1, <1>2, <2>1, <2>2
  <1> QED  BY <1>8, <1>9, <1>10 DEF ClosesOnce

\* The same for a set of subarrays, in the order the bank reports them.
LEMMA QueuedCloses ==
    ASSUME NEW s, s.calendar \in Calendar, NEW t, NEW kind \in Closings, NEW places,
           NEW when \in 0..Horizon, Queued(s, t, kind, places, when), ClosesOnce(s.calendar),
           p.UsePrecharge => \A a \in places : a \notin Closes(s.calendar),
           kind = "refreshed" \/ p.UsePrecharge
    PROVE  /\ t.calendar \in Calendar
           /\ ClosesOnce(t.calendar) /\ Closes(t.calendar) = Closes(s.calendar) \cup places
  <1>1. PICK whats \in Seq(Bank \X SubArray) :
           /\ t.calendar = InsertEvents(s.calendar, kind, whats, when, 0)
           /\ Elems(whats) = places
           /\ \A i, j \in DOMAIN whats : i < j => whats[i] # whats[j]
    BY DEF Queued
  <1>2. PICK n : \E block \in Seq(Event) :
             /\ Inserted(s.calendar, when, block, 0, n, t.calendar)
             /\ Len(block) = Len(whats) /\ DOMAIN block = DOMAIN whats
             /\ \A i \in DOMAIN whats : block[i].kind = kind /\ block[i].what = whats[i]
             /\ \A e \in Elems(block) : e.kind = kind /\ e.what \in Elems(whats)
    <2> DEFINE new == t.calendar
    <2>1. new = InsertEvents(s.calendar, kind, whats, when, 0)  BY <1>1
    <2> HIDE DEF new
    <2>2. \E n : \E block \in Seq(Event) :
             /\ Inserted(s.calendar, when, block, 0, n, new)
             /\ Len(block) = Len(whats) /\ DOMAIN block = DOMAIN whats
             /\ \A i \in DOMAIN whats : block[i].kind = kind /\ block[i].what = whats[i]
             /\ \A e \in Elems(block) : e.kind = kind /\ e.what \in Elems(whats)
      BY <2>1, ClosingsInsert
    <2> QED  BY <2>2 DEF new
  <1>3. PICK block \in Seq(Event) :
             /\ Inserted(s.calendar, when, block, 0, n, t.calendar)
             /\ Len(block) = Len(whats) /\ DOMAIN block = DOMAIN whats
             /\ \A i \in DOMAIN whats : block[i].kind = kind /\ block[i].what = whats[i]
             /\ \A e \in Elems(block) : e.kind = kind /\ e.what \in Elems(whats)
    BY <1>2
  <1>4. ClosesOnce(t.calendar) /\ Closes(t.calendar) = Closes(s.calendar) \cup Elems(whats)
    <2> DEFINE old == s.calendar
               new == t.calendar
    <2>1. /\ old \in Calendar /\ ClosesOnce(old) /\ Inserted(old, when, block, 0, n, new)
          /\ whats \in Seq(Bank \X SubArray) /\ DOMAIN block = DOMAIN whats
          /\ \A i \in DOMAIN whats : block[i].kind = kind /\ block[i].what = whats[i]
          /\ \A i, j \in DOMAIN whats : i < j => whats[i] # whats[j]
          /\ p.UsePrecharge => \A a \in Elems(whats) : a \notin Closes(old)
      BY <1>1, <1>3
    <2>2. ClosesOnce(new) /\ Closes(new) = Closes(old) \cup Elems(whats)
      <3> HIDE DEF old, new
      <3> QED  BY <2>1, ClosingsAdd
    <2> QED  BY <2>2
  <1> QED  BY <1>1, <1>3, <1>4 DEF Inserted

\* Taking the first event out of the calendar takes its subarray's only report.
LEMMA PopCloses ==
    ASSUME NEW s, NEW t, s.calendar \in Calendar, s.calendar[0] # <<>>,
           t.calendar = [s.calendar EXCEPT ![0] = Tail(@)], ClosesOnce(s.calendar)
    PROVE  /\ t.calendar \in Calendar /\ ClosesOnce(t.calendar)
           /\ s.calendar[0][1].kind \notin Closings => Closes(t.calendar) = Closes(s.calendar)
           /\ s.calendar[0][1].kind \in Closings =>
                /\ s.calendar[0][1].what \in Closes(s.calendar)
                /\ Closes(s.calendar) = Closes(t.calendar) \cup {s.calendar[0][1].what}
           /\ s.calendar[0][1].kind \in Closings /\ p.UsePrecharge =>
                s.calendar[0][1].what \notin Closes(t.calendar)
           /\ ~p.UsePrecharge => s.calendar[0][1].kind \notin {"implicitPrecharge", "closed"}
  <1> DEFINE old == s.calendar
             new == t.calendar
             e == s.calendar[0][1]
  <1>1. /\ new \in Calendar /\ e \in Event
        /\ Elems(old[0]) = Elems(new[0]) \cup {e}
        /\ \A i \in 0..Horizon : i # 0 => new[i] = old[i]
        /\ \A Q : Sorted(old, Q) =>
             Sorted(new, Q) /\ \A i \in 0..Horizon : \A f \in Elems(new[i]) : <<e, f>> \in Q
        /\ \A Q : Pairs(old[0], Q) => Pairs(new[0], Q)
    BY PopSorted
  <1>0. ClosesOnce(old) /\ old \in Calendar  OBVIOUS
  <1> HIDE DEF e, old, new
  <1>2. 0 \in 0..Horizon  BY Numbers
  <1>3. e.kind \in Closings => e.what \in Bank \X SubArray  BY <1>1, EventIs
  <1>4. \A i \in 0..Horizon : \A f \in Elems(new[i]) : f \in Elems(old[i])  BY <1>1
  <1>5. \A i \in 0..Horizon : \A f \in Elems(old[i]) : f \in Elems(new[i]) \/ f = e  BY <1>1
  <1>6. Closes(new) \subseteq Closes(old)  BY <1>4 DEF Closes
  <1>7. ASSUME e.kind \in Closings PROVE  e.what \in Closes(old)
    BY <1>1, <1>2, <1>3, <1>7 DEF Closes
  <1>8. ASSUME NEW a \in Closes(old)
        PROVE  a \in Closes(new) \/ (e.kind \in Closings /\ e.what = a)
    BY <1>5 DEF Closes
  <1>9. ASSUME p.UsePrecharge
        PROVE  Sorted(new, ClosingPairs) /\ (e.kind \in Closings => e.what \notin Closes(new))
    <2>1. Sorted(old, ClosingPairs)  BY <1>0, <1>9 DEF ClosesOnce
    <2>2. /\ Sorted(new, ClosingPairs)
          /\ \A i \in 0..Horizon : \A f \in Elems(new[i]) : <<e, f>> \in ClosingPairs
      BY <1>1, <2>1
    <2>3. ASSUME e.kind \in Closings, e.what \in Closes(new) PROVE  FALSE
      <3>1. PICK i \in 0..Horizon : \E f \in Elems(new[i]) : f.kind \in Closings /\ f.what = e.what
        BY <2>3 DEF Closes
      <3>2. PICK f \in Elems(new[i]) : f.kind \in Closings /\ f.what = e.what  BY <3>1
      <3>3. <<e, f>> \in ClosingPairs  BY <2>2
      <3> QED  BY <2>3, <3>2, <3>3 DEF ClosingPairs
    <2> QED  BY <2>2, <2>3
  <1>10. ClosesOnce(new) /\ (~p.UsePrecharge => e.kind \notin {"implicitPrecharge", "closed"})
    BY <1>0, <1>1, <1>2, <1>4, <1>9 DEF ClosesOnce
  <1>11. e.kind \notin Closings => Closes(new) = Closes(old)  BY <1>6, <1>8
  <1>12. e.kind \in Closings => Closes(old) = Closes(new) \cup {e.what}  BY <1>6, <1>7, <1>8
  <1> QED  BY <1>1, <1>7, <1>9, <1>10, <1>11, <1>12 DEF e, old, new

\* A tick moves the reports and posts none.
LEMMA ShiftCloses ==
    ASSUME NEW old \in Calendar, old[0] = <<>>, NEW pulses \in Seq(Event),
           \A e \in Elems(pulses) : e.kind = "RefreshCallback", ClosesOnce(old)
    PROVE  ClosesOnce(Shifted(old, pulses)) /\ Closes(Shifted(old, pulses)) = Closes(old)
  <1> DEFINE new == Shifted(old, pulses)
  <1>0. /\ Horizon \in Nat /\ Horizon \in 0..Horizon /\ 0 \in 0..Horizon
        /\ \A i \in 0..Horizon : i < Horizon => i + 1 \in 0..Horizon
        /\ \A i \in 0..Horizon : ~(i < Horizon) => i = Horizon
        /\ \A i \in 0..Horizon : i # 0 => i - 1 \in 0..Horizon /\ i - 1 < Horizon /\ (i - 1) + 1 = i
    BY Numbers
  <1>1. \A i \in 0..Horizon : (i < Horizon => new[i] = old[i + 1]) /\ (~(i < Horizon) => new[i] = pulses)
    BY DEF Shifted
  <1> HIDE DEF new
  <1>2. \A i \in 0..Horizon : \A e \in Elems(new[i]) :
          e \in Elems(pulses) \/ \E j \in 0..Horizon : e \in Elems(old[j])
    BY <1>0, <1>1
  <1>3. Elems(old[0]) = {}  BY DEF Elems
  <1>4. \A j \in 0..Horizon : \A e \in Elems(old[j]) : \E i \in 0..Horizon : e \in Elems(new[i])
    <2>1. SUFFICES ASSUME NEW j \in 0..Horizon, NEW e \in Elems(old[j])
                   PROVE  \E i \in 0..Horizon : e \in Elems(new[i])
      OBVIOUS
    <2>2. j # 0  BY <1>3
    <2>3. j - 1 \in 0..Horizon /\ j - 1 < Horizon /\ (j - 1) + 1 = j  BY <1>0, <2>2
    <2>4. new[j - 1] = old[j]  BY <1>1, <2>3
    <2> QED  BY <2>3, <2>4
  <1>5. \A e \in Elems(pulses) : e.kind \notin Closings  BY DEF Closings
  <1>6. Closes(new) = Closes(old)  BY <1>2, <1>4, <1>5 DEF Closes
  <1>7. ASSUME p.UsePrecharge PROVE Sorted(new, ClosingPairs)
    <2>1. Sorted(old, ClosingPairs)  BY <1>7 DEF ClosesOnce
    <2>2. \A f \in Elems(pulses) : f \in Event  BY ElemIs
    <2>3. \A i \in 0..Horizon : \A e \in Elems(old[i]) : e \in Event  BY ElemIs DEF Calendar
    <2>4. Pairs(pulses, ClosingPairs)
      <3>1. \A k \in DOMAIN pulses : pulses[k] \in Elems(pulses)  BY DEF Elems
      <3> QED  BY <1>5, <2>2, <3>1 DEF Pairs, ClosingPairs
    <2>5. \A i \in 0..Horizon : \A e \in Elems(old[i]), f \in Elems(pulses) : <<e, f>> \in ClosingPairs
      BY <1>5, <2>2, <2>3 DEF ClosingPairs
    <2> QED  BY <2>1, <2>4, <2>5, ShiftSorted DEF new
  <1>8. ASSUME ~p.UsePrecharge, NEW i \in 0..Horizon, NEW e \in Elems(new[i])
        PROVE  e.kind \notin {"implicitPrecharge", "closed"}
    BY <1>2, <1>5, <1>8 DEF ClosesOnce, Closings
  <1> QED  BY <1>6, <1>7, <1>8 DEF ClosesOnce, new

-----------------------------------------------------------------------------
(* Steps that leave the rows alone.                                        *)

\* A subarray that stays as it is.
SameHere(s, t, b, sa) ==
    /\ sa \in t.active[b] <=> sa \in s.active[b]
    /\ t.array[b, sa].state = s.array[b, sa].state /\ t.array[b, sa].row = s.array[b, sa].row

\* The row that is open depends on nothing else.
LEMMA SameHereRow ==
    ASSUME NEW s, NEW t, NEW b, NEW sa, SameHere(s, t, b, sa)
    PROVE  OpenRow(t, b, sa) = OpenRow(s, b, sa)
  BY DEF SameHere, OpenRow

\* What a step may do to a subarray: nothing, open it, or begin to close it.
ArrayStays(s, t, closing, b, sa) ==
    \/ SameHere(s, t, b, sa) /\ <<b, sa>> \notin closing
    \/ /\ sa \in t.active[b] /\ t.array[b, sa].state = "open"
       /\ <<b, sa>> \notin Closes(t.calendar)
    \/ sa \notin t.active[b] /\ t.array[b, sa].state # "closed"

\* Then no active subarray is about to report that it is closed.
LEMMA ArraysStay ==
    ASSUME NEW s, NEW t, ArraysAreClosed(s), NEW closing,
           Closes(t.calendar) = Closes(s.calendar) \cup closing,
           p.UsePrecharge =>
               \A b \in Bank, sa \in SubArray : ArrayStays(s, t, closing, b, sa)
    PROVE  ArraysAreClosed(t)
  <1> SUFFICES ASSUME p.UsePrecharge, NEW b \in Bank, NEW sa \in SubArray
               PROVE  /\ sa \in t.active[b] =>
                           t.array[b, sa].state = "open" /\ <<b, sa>> \notin Closes(t.calendar)
                      /\ <<b, sa>> \in Closes(t.calendar) => t.array[b, sa].state # "closed"
    BY DEF ArraysAreClosed
  <1>0. ArrayStays(s, t, closing, b, sa)  OBVIOUS
  <1>1. CASE SameHere(s, t, b, sa) /\ <<b, sa>> \notin closing
    <2>1. <<b, sa>> \in Closes(t.calendar) <=> <<b, sa>> \in Closes(s.calendar)  BY <1>1
    <2> QED  BY <1>1, <2>1 DEF SameHere, ArraysAreClosed
  <1>2. CASE /\ sa \in t.active[b] /\ t.array[b, sa].state = "open"
             /\ <<b, sa>> \notin Closes(t.calendar)
    BY <1>2
  <1>3. CASE sa \notin t.active[b] /\ t.array[b, sa].state # "closed"  BY <1>3
  <1> QED  BY <1>0, <1>1, <1>2, <1>3 DEF ArrayStays

\* A step that touches neither the queues nor the banks keeps everything.
LEMMA RowsKept ==
    ASSUME NEW s, NEW t, Rows(s), t.cq = s.cq, t.activateQueued = s.activateQueued,
           t.effectiveRow = s.effectiveRow, ClosesOnce(t.calendar),
           Closes(t.calendar) = Closes(s.calendar),
           \A b \in Bank, sa \in SubArray : SameHere(s, t, b, sa)
    PROVE  Rows(t)
  <1>1. RowsForgotten(t)  BY DEF Rows, RowsForgotten
  <1>2. RowsLead(t)
    <2>1. \A b \in Bank, sa \in SubArray : OpenRow(t, b, sa) = OpenRow(s, b, sa)  BY SameHereRow
    <2> QED  BY <2>1 DEF Rows, RowsLead
  <1>3. ArraysAreClosed(t)
    <2>1. Closes(t.calendar) = Closes(s.calendar) \cup {}  OBVIOUS
    <2>2. ArraysAreClosed(s)  BY DEF Rows
    <2>3. \A b \in Bank, sa \in SubArray : ArrayStays(s, t, {}, b, sa)  BY DEF ArrayStays
    <2> QED  BY <2>1, <2>2, <2>3, ArraysStay
  <1> QED  BY <1>1, <1>2, <1>3 DEF Rows

\* Making the controller look sooner keeps it,
LEMMA NudgeRows ==
    ASSUME NEW s \in Channel, NEW t, Nudges(s, t), Rows(s)
    PROVE  Rows(t)
  <1>0. s.calendar \in Calendar /\ ClosesOnce(s.calendar)  BY ChannelIs DEF Rows
  <1>1. CASE t = s  BY <1>1
  <1>2. CASE t # s
    <2>1. /\ t = [s EXCEPT !.calendar = t.calendar]
          /\ \E when \in 0..Horizon, priority \in Nat, e \in Event : \E n :
               /\ e.kind \in {"Cycle", "CommandQueueCallback"}
               /\ Inserted(s.calendar, when, <<e>>, priority, n, t.calendar)
      BY <1>2 DEF Nudges
    <2>2. PICK when \in 0..Horizon, priority \in Nat, e \in Event : \E n :
               /\ e.kind \in {"Cycle", "CommandQueueCallback"}
               /\ Inserted(s.calendar, when, <<e>>, priority, n, t.calendar)
      BY <2>1
    <2>3. PICK n : /\ e.kind \in {"Cycle", "CommandQueueCallback"}
                   /\ Inserted(s.calendar, when, <<e>>, priority, n, t.calendar)
      BY <2>2
    <2>4. <<e>> \in Seq(Event) /\ Elems(<<e>>) = {e}  BY DEF Elems
    <2>5. \A f \in Elems(<<e>>) : f.kind \notin Closings  BY <2>3, <2>4 DEF Closings
    <2>6. ClosesOnce(t.calendar) /\ Closes(t.calendar) = Closes(s.calendar)
      <3> DEFINE block == <<e>>
      <3>1. block \in Seq(Event) /\ Inserted(s.calendar, when, block, priority, n, t.calendar)
            /\ \A f \in Elems(block) : f.kind \notin Closings
        BY <2>3, <2>4, <2>5
      <3> HIDE DEF block
      <3> QED  BY <1>0, <3>1, QuietClosings
    <2>7. /\ t.cq = s.cq /\ t.activateQueued = s.activateQueued /\ t.effectiveRow = s.effectiveRow
          /\ t.active = s.active /\ t.array = s.array
      BY <2>1 DEF Channel
    <2>8. \A b \in Bank, sa \in SubArray : SameHere(s, t, b, sa)  BY <2>7 DEF SameHere
    <2> QED  BY <2>6, <2>7, <2>8, RowsKept
  <1> QED  BY <1>1, <1>2

\* and so does a tick.
LEMMA TickRows ==
    ASSUME Submitted, NEW s \in Channel, s.calendar[0] = <<>>, NEW t, t = Ticked(s), Rows(s)
    PROVE  Rows(t)
  <1>0. s.calendar \in Calendar /\ ClosesOnce(s.calendar)
        /\ s.array \in [Bank \X SubArray -> ArrayState]
    BY ChannelIs DEF Rows
  <1>1. /\ t.cq = s.cq /\ t.activateQueued = s.activateQueued /\ t.effectiveRow = s.effectiveRow
        /\ t.active = s.active
        /\ t.array = [a \in Bank \X SubArray |-> CycleLater(s.array[a])]
    BY DEF Ticked, Channel
  <1>2. t.calendar = Shifted(s.calendar, Pulses)  BY DEF Ticked, Channel, Shifted, Pulses
  <1>3. ClosesOnce(t.calendar) /\ Closes(t.calendar) = Closes(s.calendar)
    <2>1. Pulses \in Seq(Event) /\ \A e \in Elems(Pulses) : e.kind = "RefreshCallback"
      BY PulsesAre
    <2> QED  BY <1>0, <1>2, <2>1, ShiftCloses
  <1>4. ASSUME NEW b \in Bank, NEW sa \in SubArray PROVE  SameHere(s, t, b, sa)
    <2>1. s.array[b, sa] \in ArrayState /\ t.array[b, sa] = CycleLater(s.array[b, sa])
      BY <1>0, <1>1
    <2>2. /\ CycleLater(s.array[b, sa]).state = s.array[b, sa].state
          /\ CycleLater(s.array[b, sa]).row = s.array[b, sa].row
      BY <2>1 DEF CycleLater, ArrayState
    <2> QED  BY <1>1, <2>1, <2>2 DEF SameHere
  <1> QED  BY <1>1, <1>3, <1>4, RowsKept

\* What the front end sees of the channel.
LEMMA StandingRows ==
    ASSUME NEW s, NEW t, Rows(s), t.cq = s.cq, t.activateQueued = s.activateQueued,
           t.effectiveRow = s.effectiveRow, t.calendar = s.calendar, t.array = s.array,
           t.active = s.active
    PROVE  Rows(t)
  <1>1. \A b \in Bank, sa \in SubArray : SameHere(s, t, b, sa)  BY DEF SameHere
  <1>2. ClosesOnce(t.calendar) /\ Closes(t.calendar) = Closes(s.calendar)  BY DEF Rows
  <1> QED  BY <1>1, <1>2, RowsKept

\* A subarray that has closed starts to precharge.
LEMMA ClosingRows ==
    ASSUME NEW s, NEW t, Rows(s), NEW a \in Bank \X SubArray, t.cq = s.cq,
           t.activateQueued = s.activateQueued, t.effectiveRow = s.effectiveRow,
           t.active = s.active, ClosesOnce(t.calendar),
           Closes(t.calendar) = Closes(s.calendar) \cup {a},
           a[2] \notin t.active[a[1]], t.array[a].state = "precharging",
           \A b \in Bank, sa \in SubArray : <<b, sa>> # a => SameHere(s, t, b, sa)
    PROVE  Rows(t)
  <1>1. ASSUME NEW b \in Bank, NEW sa \in SubArray
        PROVE  /\ OpenRow(t, b, sa) = OpenRow(s, b, sa)
               /\ ArrayStays(s, t, {a}, b, sa)
    <2>1. CASE <<b, sa>> = a
      <3>1. sa \notin t.active[b] /\ sa \notin s.active[b] /\ t.array[b, sa].state # "closed"
        BY <2>1
      <3> QED  BY <3>1 DEF OpenRow, ArrayStays
    <2>2. CASE <<b, sa>> # a
      <3>1. SameHere(s, t, b, sa) /\ <<b, sa>> \notin {a}  BY <2>2
      <3>2. OpenRow(t, b, sa) = OpenRow(s, b, sa)  BY <3>1, SameHereRow
      <3> QED  BY <3>1, <3>2 DEF ArrayStays
    <2> QED  BY <2>1, <2>2
  <1>2. ArraysAreClosed(t)
    <2>1. ArraysAreClosed(s) /\ \A b \in Bank, sa \in SubArray : ArrayStays(s, t, {a}, b, sa)
      BY <1>1 DEF Rows
    <2> QED  BY <2>1, ArraysStay
  <1>3. RowsForgotten(t) /\ RowsLead(t)  BY <1>1 DEF Rows, RowsForgotten, RowsLead
  <1> QED  BY <1>2, <1>3 DEF Rows

-----------------------------------------------------------------------------
(* What issuing a command does to the rows.                                *)

\* One event is a set of events to post.
LEMMA OneQueued ==
    ASSUME NEW s, NEW t, NEW kind, NEW a \in Bank \X SubArray, NEW when,
           t.calendar = InsertEvent(s.calendar, kind, a, when, 0)
    PROVE  Queued(s, t, kind, {a}, when)
  <1> DEFINE whats == <<a>>
  <1>1. t.calendar = InsertEvents(s.calendar, kind, whats, when, 0)  BY OneClosing
  <1>2. whats \in Seq(Bank \X SubArray) /\ Elems(whats) = {a} /\ DOMAIN whats = {1}
    BY DEF Elems
  <1> HIDE DEF whats
  <1>3. \A i, j \in DOMAIN whats : i < j => whats[i] # whats[j]  BY <1>2
  <1> QED  BY <1>1, <1>2, <1>3 DEF Queued

\* A read posts its answer and closes nothing.
LEMMA AnswerCloses ==
    ASSUME NEW old \in Calendar, NEW r \in Req, NEW new,
           new = InsertEvent(old, "response", r, tCAS, 0), ClosesOnce(old)
    PROVE  new \in Calendar /\ ClosesOnce(new) /\ Closes(new) = Closes(old)
  <1> DEFINE e == TypedEvent("response", r)
             block == <<e>>
  <1>1. /\ e \in Event /\ e = TypedEvent("response", r)
        /\ block \in Seq(Event) /\ Elems(block) = {e} /\ e.kind \notin Closings
    BY DEF TypedEvent, Event, StoredDefault, Elems, Closings
  <1>2. block = <<e>>  OBVIOUS
  <1> HIDE DEF block, e
  <1>3. tCAS \in 0..Horizon /\ 0 \in Int  BY Numbers
  <1>4. PICK n \in 0..Len(old[tCAS]) : Inserted(old, tCAS, block, 0, n, new)
    BY <1>1, <1>2, <1>3, TypedInserts
  <1>5. \A f \in Elems(block) : f.kind \notin Closings  BY <1>1
  <1>6. ClosesOnce(new) /\ Closes(new) = Closes(old)  BY <1>1, <1>3, <1>4, <1>5, QuietClosings
  <1> QED  BY <1>4, <1>6 DEF Inserted

\* What a command leaves in the rows of its channel.
RowsMoved(s, t, c) ==
    \A b \in Bank, sa \in SubArray :
        /\ Moves(c, b, sa) => OpenRow(t, b, sa) = Leaves(c)
        /\ ~Moves(c, b, sa) => OpenRow(t, b, sa) = OpenRow(s, b, sa)
IssuedRows(s, t, c) ==
    ClosesOnce(t.calendar) /\ ArraysAreClosed(t) /\ RowsMoved(s, t, c)

\* The parts of a command.
LEMMA CommandIs ==
    ASSUME NEW c \in Command
    PROVE  /\ c.at.bank \in Bank /\ c.at.sa \in SubArray /\ c.at.row \in 0..ROWS
           /\ At(c.at) = <<c.at.bank, c.at.sa>> /\ At(c.at) \in Bank \X SubArray
           /\ c.op \in {"ACTIVATE", "READ", "READ_PRECHARGE", "PRECHARGE", "PRECHARGE_ALL", "REFRESH"}
  BY DEF Command, At

\* An ACTIVATE opens its row in a subarray that was closed.
LEMMA ActivateRows ==
    ASSUME NEW s \in Channel, NEW c \in Command, c.op = "ACTIVATE", ~c.issued, IsIssuable(s, c),
           ClosesOnce(s.calendar), ArraysAreClosed(s), NEW t, t = Activate(s, c)
    PROVE  IssuedRows(s, t, c)
  <1> DEFINE b0 == c.at.bank
             sa0 == c.at.sa
             a0 == At(c.at)
  <1>0. /\ b0 \in Bank /\ sa0 \in SubArray /\ a0 = <<b0, sa0>> /\ a0 \in Bank \X SubArray
        /\ s.array \in [Bank \X SubArray -> ArrayState] /\ s.active \in [Bank -> SUBSET SubArray]
    BY ChannelIs, CommandIs
  <1>1. /\ t.calendar = s.calendar
        /\ t.array = [s.array EXCEPT ![a0] = Opened(@, c.at.row)]
        /\ t.active = [s.active EXCEPT ![b0] = @ \cup {sa0}]
    BY DEF Activate, Channel
  <1> HIDE DEF b0, sa0, a0
  <1>2. t.array[a0].state = "open" /\ t.array[a0].row = c.at.row /\ sa0 \in t.active[b0]
    <2>1. Opened(s.array[a0], c.at.row).state = "open" /\ Opened(s.array[a0], c.at.row).row = c.at.row
      BY <1>0 DEF Opened, ArrayState
    <2> QED  BY <1>0, <1>1, <2>1
  <1>3. ASSUME NEW b \in Bank, NEW sa \in SubArray, ~(b = b0 /\ sa = sa0)
        PROVE  SameHere(s, t, b, sa)
    <2>1. <<b, sa>> # a0  BY <1>0, <1>3
    <2>2. t.array[b, sa] = s.array[b, sa]  BY <1>0, <1>1, <2>1
    <2>3. sa \in t.active[b] <=> sa \in s.active[b]  BY <1>0, <1>1, <1>3
    <2> QED  BY <2>2, <2>3 DEF SameHere
  <1>4. RowsMoved(s, t, c)
    <2>1. ASSUME NEW b \in Bank, NEW sa \in SubArray
          PROVE  /\ Moves(c, b, sa) => OpenRow(t, b, sa) = Leaves(c)
                 /\ ~Moves(c, b, sa) => OpenRow(t, b, sa) = OpenRow(s, b, sa)
      <3>1. Moves(c, b, sa) <=> b = b0 /\ sa = sa0  BY DEF Moves, b0, sa0
      <3>2. CASE b = b0 /\ sa = sa0
        <4>1. OpenRow(t, b, sa) = c.at.row  BY <1>0, <1>2, <3>2 DEF OpenRow
        <4> QED  BY <3>1, <3>2, <4>1 DEF Leaves
      <3>3. CASE ~(b = b0 /\ sa = sa0)  BY <1>3, <3>1, <3>3, SameHereRow
      <3> QED  BY <3>2, <3>3
    <2> QED  BY <2>1 DEF RowsMoved
  <1>5. ArraysAreClosed(t)
    <2>1. ASSUME p.UsePrecharge PROVE  a0 \notin Closes(t.calendar)
      <3>1. s.array[a0].state = "closed"  BY <2>1 DEF IsIssuable, a0
      <3> QED  BY <1>0, <1>1, <2>1, <3>1 DEF ArraysAreClosed
    <2>2. ASSUME NEW b \in Bank, NEW sa \in SubArray, p.UsePrecharge
          PROVE  ArrayStays(s, t, {}, b, sa)
      <3>1. CASE b = b0 /\ sa = sa0  BY <1>0, <1>2, <2>1, <2>2, <3>1 DEF ArrayStays
      <3>2. CASE ~(b = b0 /\ sa = sa0)  BY <1>3, <3>2 DEF ArrayStays
      <3> QED  BY <3>1, <3>2
    <2>3. Closes(t.calendar) = Closes(s.calendar) \cup {}  BY <1>1
    <2> QED  BY <2>2, <2>3, ArraysStay
  <1> QED  BY <1>1, <1>4, <1>5 DEF IssuedRows

\* Subarrays that are active are closed.
LEMMA PrechargeRows ==
    ASSUME p.UsePrecharge, NEW s \in Channel, NEW b0 \in Bank, NEW closing \in SUBSET SubArray,
           closing \subseteq s.active[b0], ClosesOnce(s.calendar), ArraysAreClosed(s),
           NEW t, t = Precharge(s, b0, closing)
    PROVE  /\ ClosesOnce(t.calendar) /\ ArraysAreClosed(t)
           /\ \A b \in Bank, sa \in SubArray :
                /\ b = b0 /\ sa \in closing => OpenRow(t, b, sa) = ROWS
                /\ ~(b = b0 /\ sa \in closing) => OpenRow(t, b, sa) = OpenRow(s, b, sa)
  <1> DEFINE places == {b0} \X closing
             when == MAX(1, tRP)
  <1>0. /\ s.array \in [Bank \X SubArray -> ArrayState] /\ s.active \in [Bank -> SUBSET SubArray]
        /\ s.calendar \in Calendar
    BY ChannelIs
  <1>1. /\ \A a \in Bank \X SubArray :
             /\ (a[1] = b0 /\ a[2] \in closing) => t.array[a] = Closing(s.array[a])
             /\ ~(a[1] = b0 /\ a[2] \in closing) => t.array[a] = s.array[a]
        /\ t.active = [s.active EXCEPT ![b0] = @ \ closing]
        /\ when \in 1..Horizon
        /\ Queued(s, t, "closed", places, when)
    <2>1. /\ t.array = [a \in Bank \X SubArray |->
                          IF a[1] = b0 /\ a[2] \in closing THEN Closing(s.array[a]) ELSE s.array[a]]
          /\ t.active = [s.active EXCEPT ![b0] = @ \ closing]
      BY DEF Precharge, Channel
    <2>2. \A a \in Bank \X SubArray :
             /\ (a[1] = b0 /\ a[2] \in closing) => t.array[a] = Closing(s.array[a])
             /\ ~(a[1] = b0 /\ a[2] \in closing) => t.array[a] = s.array[a]
      BY <2>1
    <2>3. when \in 1..Horizon  BY ZenonT(60), PrechargeIs
    <2>4. Queued(s, t, "closed", places, when)  BY ZenonT(60), PrechargeIs
    <2> QED  BY <2>1, <2>2, <2>3, <2>4
  <1>2. when \in 0..Horizon /\ "closed" \in Closings  BY <1>1, Numbers DEF Closings
  <1> HIDE DEF when
  <1>3. \A a \in places : a \notin Closes(s.calendar)
    <2>1. \A sa \in closing : <<b0, sa>> \notin Closes(s.calendar)  BY DEF ArraysAreClosed
    <2> QED  BY <2>1
  <1>4. places \subseteq Bank \X SubArray /\ \A b, sa : <<b, sa>> \in places <=> b = b0 /\ sa \in closing
    OBVIOUS
  <1> HIDE DEF places
  <1>5. ClosesOnce(t.calendar) /\ Closes(t.calendar) = Closes(s.calendar) \cup places
    BY <1>0, <1>1, <1>2, <1>3, QueuedCloses
  <1>6. ASSUME NEW b \in Bank, NEW sa \in SubArray, b = b0, sa \in closing
        PROVE  sa \notin t.active[b] /\ t.array[b, sa].state = "precharging"
    <2>1. t.array[b, sa] = Closing(s.array[b, sa]) /\ s.array[b, sa] \in ArrayState
      BY <1>0, <1>1, <1>6
    <2>2. Closing(s.array[b, sa]).state = "precharging"  BY <2>1 DEF Closing, ArrayState
    <2> QED  BY <1>0, <1>1, <1>6, <2>1, <2>2
  <1>7. ASSUME NEW b \in Bank, NEW sa \in SubArray, ~(b = b0 /\ sa \in closing)
        PROVE  SameHere(s, t, b, sa)
    <2>1. t.array[b, sa] = s.array[b, sa]  BY <1>1, <1>7
    <2>2. sa \in t.active[b] <=> sa \in s.active[b]  BY <1>0, <1>1, <1>7
    <2> QED  BY <2>1, <2>2 DEF SameHere
  <1>8. ArraysAreClosed(t)
    <2>1. ASSUME NEW b \in Bank, NEW sa \in SubArray, p.UsePrecharge
          PROVE  ArrayStays(s, t, places, b, sa)
      BY <1>4, <1>6, <1>7 DEF ArrayStays
    <2> QED  BY <1>5, <2>1, ArraysStay
  <1>9. ASSUME NEW b \in Bank, NEW sa \in SubArray
        PROVE  /\ b = b0 /\ sa \in closing => OpenRow(t, b, sa) = ROWS
               /\ ~(b = b0 /\ sa \in closing) => OpenRow(t, b, sa) = OpenRow(s, b, sa)
    BY <1>6, <1>7, SameHereRow DEF OpenRow
  <1> QED  BY <1>5, <1>8, <1>9

\* A read leaves its row open, or closes it after itself.
LEMMA ReadRows ==
    ASSUME Submitted, NEW s \in Channel, NEW c \in Command, NEW x, CommandFits(x, c), c.op = "READ",
           ClosesOnce(s.calendar), ArraysAreClosed(s), NEW t, t = Read(s, c)
    PROVE  IssuedRows(s, t, c)
  <1> DEFINE a0 == At(c.at)
  <1>0. /\ a0 \in Bank \X SubArray /\ s.array \in [Bank \X SubArray -> ArrayState]
        /\ s.calendar \in Calendar /\ c.of \in Req
    BY ChannelIs, CommandIs DEF CommandFits, Reads, Submitted
  <1>1. /\ t.array = [s.array EXCEPT ![a0] = HasRead(@)]
        /\ t.active = s.active
        /\ t.calendar = InsertEvent(s.calendar, "response", c.of, tCAS, 0)
    BY DEF Read, Channel
  <1> HIDE DEF a0
  <1>2. ClosesOnce(t.calendar) /\ Closes(t.calendar) = Closes(s.calendar)
    BY <1>0, <1>1, AnswerCloses
  <1>3. ASSUME NEW b \in Bank, NEW sa \in SubArray PROVE  SameHere(s, t, b, sa)
    <2>1. /\ HasRead(s.array[b, sa]).state = s.array[b, sa].state
          /\ HasRead(s.array[b, sa]).row = s.array[b, sa].row
      BY <1>0 DEF HasRead, ArrayState
    <2>2. t.array[b, sa] = HasRead(s.array[b, sa]) \/ t.array[b, sa] = s.array[b, sa]
      BY <1>0, <1>1
    <2> QED  BY <1>1, <2>1, <2>2 DEF SameHere
  <1>4. ArraysAreClosed(t)
    <2>1. Closes(t.calendar) = Closes(s.calendar) \cup {}  BY <1>2
    <2>2. \A b \in Bank, sa \in SubArray : ArrayStays(s, t, {}, b, sa)  BY <1>3 DEF ArrayStays
    <2> QED  BY <2>1, <2>2, ArraysStay
  <1>5. RowsMoved(s, t, c)
    <2>1. \A b, sa : ~Moves(c, b, sa)  BY DEF Moves
    <2> QED  BY <1>3, <2>1, SameHereRow DEF RowsMoved
  <1> QED  BY <1>2, <1>4, <1>5 DEF IssuedRows

\* A read that closes its row leaves the subarray open until the implicit precharge.
LEMMA ReadPrechargeRows ==
    ASSUME Submitted, NEW s \in Channel, NEW c \in Command, NEW x, CommandFits(x, c),
           c.op = "READ_PRECHARGE", ~c.issued, Fits(c, c.at.sa, OpenRow(s, c.at.bank, c.at.sa)),
           ClosesOnce(s.calendar), ArraysAreClosed(s), NEW t, t = Read(s, c)
    PROVE  IssuedRows(s, t, c)
  <1> DEFINE b0 == c.at.bank
             sa0 == c.at.sa
             a0 == At(c.at)
             u == [s EXCEPT !.calendar = InsertEvent(@, "implicitPrecharge", a0, tRTP, 0)]
  <1>0. /\ b0 \in Bank /\ sa0 \in SubArray /\ a0 = <<b0, sa0>> /\ a0 \in Bank \X SubArray
        /\ s.array \in [Bank \X SubArray -> ArrayState] /\ s.active \in [Bank -> SUBSET SubArray]
        /\ s.calendar \in Calendar /\ c.of \in Req /\ p.UsePrecharge /\ c.at.row # ROWS
    BY ChannelIs, CommandIs DEF CommandFits, Reads, Submitted
  <1>1. /\ t.array = [s.array EXCEPT ![a0] = HasReadAndCloses(@)]
        /\ t.active = [s.active EXCEPT ![b0] = @ \ {sa0}]
        /\ t.calendar = InsertEvent(u.calendar, "response", c.of, tCAS, 0)
        /\ u.calendar = InsertEvent(s.calendar, "implicitPrecharge", a0, tRTP, 0)
    BY DEF Read, Channel
  <1>2. sa0 \in s.active[b0]
    <2>1. OpenRow(s, b0, sa0) = c.at.row  BY DEF Fits
    <2> QED  BY <1>0, <2>1 DEF OpenRow
  <1> HIDE DEF a0, u, b0, sa0
  <1>3. s.array[a0].state = "open" /\ a0 \notin Closes(s.calendar)
    BY <1>0, <1>2 DEF ArraysAreClosed
  <1>4. /\ u.calendar \in Calendar /\ ClosesOnce(u.calendar)
        /\ Closes(u.calendar) = Closes(s.calendar) \cup {a0}
    <2>1. Queued(s, u, "implicitPrecharge", {a0}, tRTP)  BY <1>0, <1>1, OneQueued
    <2>2. "implicitPrecharge" \in Closings /\ tRTP \in 0..Horizon  BY Numbers DEF Closings
    <2>3. \A a \in {a0} : a \notin Closes(s.calendar)  BY <1>3
    <2> DEFINE places == {a0}
               kind == "implicitPrecharge"
    <2>4. /\ Queued(s, u, kind, places, tRTP) /\ kind \in Closings
          /\ \A a \in places : a \notin Closes(s.calendar)
      BY <2>1, <2>2, <2>3
    <2>5. /\ u.calendar \in Calendar
          /\ ClosesOnce(u.calendar) /\ Closes(u.calendar) = Closes(s.calendar) \cup places
      <3> HIDE DEF places, kind
      <3> QED  BY <1>0, <2>2, <2>4, QueuedCloses
    <2> QED  BY <2>5
  <1>5. ClosesOnce(t.calendar) /\ Closes(t.calendar) = Closes(u.calendar)
    BY <1>0, <1>1, <1>4, AnswerCloses
  <1>6. Closes(t.calendar) = Closes(s.calendar) \cup {a0}  BY <1>4, <1>5
  <1>7. sa0 \notin t.active[b0] /\ t.array[a0].state # "closed"
    <2>1. HasReadAndCloses(s.array[a0]).state = s.array[a0].state
      BY <1>0 DEF HasReadAndCloses, ArrayState
    <2> QED  BY <1>0, <1>1, <1>3, <2>1
  <1>8. ASSUME NEW b \in Bank, NEW sa \in SubArray, ~(b = b0 /\ sa = sa0)
        PROVE  SameHere(s, t, b, sa) /\ <<b, sa>> \notin {a0}
    <2>1. <<b, sa>> # a0  BY <1>0, <1>8
    <2>2. t.array[b, sa] = s.array[b, sa]  BY <1>0, <1>1, <2>1
    <2>3. sa \in t.active[b] <=> sa \in s.active[b]  BY <1>0, <1>1, <1>8
    <2> QED  BY <2>1, <2>2, <2>3 DEF SameHere
  <1>9. ArraysAreClosed(t)
    <2>1. ASSUME NEW b \in Bank, NEW sa \in SubArray, p.UsePrecharge
          PROVE  ArrayStays(s, t, {a0}, b, sa)
      <3>1. CASE b = b0 /\ sa = sa0  BY <1>0, <1>7, <3>1 DEF ArrayStays
      <3>2. CASE ~(b = b0 /\ sa = sa0)  BY <1>8, <3>2 DEF ArrayStays
      <3> QED  BY <3>1, <3>2
    <2> QED  BY <1>6, <2>1, ArraysStay
  <1>10. RowsMoved(s, t, c)
    <2>1. ASSUME NEW b \in Bank, NEW sa \in SubArray
          PROVE  /\ Moves(c, b, sa) => OpenRow(t, b, sa) = Leaves(c)
                 /\ ~Moves(c, b, sa) => OpenRow(t, b, sa) = OpenRow(s, b, sa)
      <3>1. Moves(c, b, sa) <=> b = b0 /\ sa = sa0  BY DEF Moves, b0, sa0
      <3>2. CASE b = b0 /\ sa = sa0
        <4>1. OpenRow(t, b, sa) = ROWS  BY <1>7, <3>2 DEF OpenRow
        <4> QED  BY <3>1, <3>2, <4>1 DEF Leaves
      <3>3. CASE ~(b = b0 /\ sa = sa0)  BY <1>8, <3>1, <3>3, SameHereRow
      <3> QED  BY <3>2, <3>3
    <2> QED  BY <2>1 DEF RowsMoved
  <1> QED  BY <1>5, <1>9, <1>10 DEF IssuedRows

\* A REFRESH takes the first subarray of each bank of its group,
FirstsTaken(s, t, group) ==
    \A a \in Bank \X SubArray :
        /\ (a[1] \in group /\ a[2] = 0) => t.array[a] = Refreshing(s.array[a])
        /\ ~(a[1] \in group /\ a[2] = 0) => t.array[a] = s.array[a]

\* and leaves the others alone.
LEMMA RefreshArrays ==
    ASSUME NEW s \in Channel, NEW group \in SUBSET Bank, NEW t, t = Refresh(s, group)
    PROVE  FirstsTaken(s, t, group)
  <1>1. t.array = [a \in Bank \X SubArray |->
                     IF a[1] \in group /\ a[2] = 0 THEN Refreshing(s.array[a]) ELSE s.array[a]]
    BY DEF Refresh, Channel
  <1> QED  BY <1>1 DEF FirstsTaken

\* The banks of a refresh are closed, if they can be.
LEMMA RefreshRows ==
    ASSUME Submitted, NEW s \in Channel, NEW c \in Command, NEW x, CommandFits(x, c),
           c.op = "REFRESH", ~c.issued, IsIssuable(s, c),
           ClosesOnce(s.calendar), ArraysAreClosed(s), NEW t, t = Refresh(s, Group(c.at.bank))
    PROVE  IssuedRows(s, t, c)
  <1> DEFINE group == Group(c.at.bank)
             places == group \X {0}
  <1>0. /\ s.array \in [Bank \X SubArray -> ArrayState] /\ s.calendar \in Calendar
        /\ group \in SUBSET Bank /\ 0 \in SubArray /\ c.at.bank \in Bank
    BY ChannelIs, CommandIs, GroupsAre, Sizes DEF Submitted
  <1>1. p.UsePrecharge => \A b \in group : s.array[b, 0].state = "closed"  BY DEF IsIssuable
  <1> HIDE DEF group
  <1>2. /\ t.active = s.active
        /\ \A a \in Bank \X SubArray :
             /\ (a[1] \in group /\ a[2] = 0) => t.array[a] = Refreshing(s.array[a])
             /\ ~(a[1] \in group /\ a[2] = 0) => t.array[a] = s.array[a]
        /\ Queued(s, t, "refreshed", places, tRFC)
    <2>1. t = Refresh(s, group)  BY DEF group
    <2> HIDE DEF places
    <2>2. t.active = s.active  BY ZenonT(60), <1>0, <2>1, RefreshIs
    <2>3. FirstsTaken(s, t, group)  BY <1>0, <2>1, RefreshArrays
    <2>4. Queued(s, t, "refreshed", places, tRFC)  BY <1>0, <2>1, RefreshIs DEF places
    <2> QED  BY <2>2, <2>3, <2>4 DEF FirstsTaken
  <1>3. \A b, sa : <<b, sa>> \in places <=> b \in group /\ sa = 0  OBVIOUS
  <1>4. ASSUME p.UsePrecharge, NEW b \in group
        PROVE  0 \notin s.active[b] /\ <<b, 0>> \notin Closes(s.calendar)
    BY <1>0, <1>1, <1>4 DEF ArraysAreClosed
  <1>5. p.UsePrecharge => \A a \in places : a \notin Closes(s.calendar)  BY <1>4
  <1> HIDE DEF places
  <1>6. ClosesOnce(t.calendar) /\ Closes(t.calendar) = Closes(s.calendar) \cup places
    <2>1. "refreshed" \in Closings /\ tRFC \in 0..Horizon  BY Numbers DEF Closings
    <2> QED  BY <1>0, <1>2, <1>5, <2>1, QueuedCloses
  <1>7. ASSUME NEW b \in Bank, NEW sa \in SubArray
        PROVE  /\ t.array[b, sa].row = s.array[b, sa].row
               /\ b \in group /\ sa = 0 => t.array[b, sa].state = "refreshing"
               /\ ~(b \in group /\ sa = 0) => SameHere(s, t, b, sa)
    <2>1. /\ Refreshing(s.array[b, sa]).state = "refreshing"
          /\ Refreshing(s.array[b, sa]).row = s.array[b, sa].row
      BY <1>0 DEF Refreshing, ArrayState
    <2>2. b \in group /\ sa = 0 => t.array[b, sa] = Refreshing(s.array[b, sa])  BY <1>2
    <2>3. ~(b \in group /\ sa = 0) => t.array[b, sa] = s.array[b, sa]  BY <1>2
    <2> QED  BY <1>2, <2>1, <2>2, <2>3 DEF SameHere
  <1>8. ArraysAreClosed(t)
    <2>1. ASSUME NEW b \in Bank, NEW sa \in SubArray, p.UsePrecharge
          PROVE  ArrayStays(s, t, places, b, sa)
      <3>1. CASE b \in group /\ sa = 0  BY <1>2, <1>4, <1>7, <2>1, <3>1 DEF ArrayStays
      <3>2. CASE ~(b \in group /\ sa = 0)
        <4>1. SameHere(s, t, b, sa)  BY ZenonT(60), <1>7, <3>2
        <4>2. <<b, sa>> \notin places  BY <1>3, <3>2
        <4> QED  BY <4>1, <4>2 DEF ArrayStays
      <3> QED  BY <3>1, <3>2
    <2> QED  BY <1>6, <2>1, ArraysStay
  <1>9. RowsMoved(s, t, c)
    <2>1. \A b, sa : ~Moves(c, b, sa)  BY DEF Moves
    <2>2. \A b \in Bank, sa \in SubArray : OpenRow(t, b, sa) = OpenRow(s, b, sa)
      BY <1>2, <1>7 DEF OpenRow
    <2> QED  BY <2>1, <2>2 DEF RowsMoved
  <1> QED  BY <1>6, <1>8, <1>9 DEF IssuedRows

\* Whatever its operation, an issued command leaves the row that it moves to.
LEMMA IssueCommandRows ==
    ASSUME Submitted, NEW s \in Channel, NEW c \in Command, NEW x, CommandFits(x, c), ~c.issued,
           IsIssuable(s, c), Fits(c, c.at.sa, OpenRow(s, c.at.bank, c.at.sa)),
           ClosesOnce(s.calendar), ArraysAreClosed(s), NEW t, t = IssueCommand(s, c)
    PROVE  IssuedRows(s, t, c)
  <1>0. /\ c.at.bank \in Bank /\ c.at.sa \in SubArray
        /\ c.op \in {"ACTIVATE", "READ", "READ_PRECHARGE", "PRECHARGE", "PRECHARGE_ALL", "REFRESH"}
        /\ s.active \in [Bank -> SUBSET SubArray]
    BY ChannelIs, CommandIs
  <1>1. CASE c.op = "ACTIVATE"
    <2>1. t = Activate(s, c)  BY <1>1 DEF IssueCommand
    <2> QED  BY <1>1, <2>1, ActivateRows
  <1>2. CASE c.op = "READ"
    <2>1. t = Read(s, c)  BY <1>2 DEF IssueCommand
    <2> QED  BY <1>2, <2>1, ReadRows
  <1>3. CASE c.op = "READ_PRECHARGE"
    <2>1. t = Read(s, c)  BY <1>3 DEF IssueCommand
    <2> QED  BY <1>3, <2>1, ReadPrechargeRows
  <1>4. CASE c.op = "PRECHARGE"
    <2>1. t = Precharge(s, c.at.bank, {c.at.sa})  BY <1>4 DEF IssueCommand
    <2>2. p.UsePrecharge /\ c.at.row # ROWS  BY <1>4 DEF CommandFits
    <2>3. OpenRow(s, c.at.bank, c.at.sa) = c.at.row  BY <1>4 DEF Fits
    <2>4. {c.at.sa} \subseteq s.active[c.at.bank] /\ {c.at.sa} \in SUBSET SubArray
      BY <1>0, <2>2, <2>3 DEF OpenRow
    <2> DEFINE closing == {c.at.sa}
    <2>5. /\ ClosesOnce(t.calendar) /\ ArraysAreClosed(t)
          /\ \A b \in Bank, sa \in SubArray :
               /\ b = c.at.bank /\ sa \in closing => OpenRow(t, b, sa) = ROWS
               /\ ~(b = c.at.bank /\ sa \in closing) => OpenRow(t, b, sa) = OpenRow(s, b, sa)
      <3>1. t = Precharge(s, c.at.bank, closing) /\ closing \in SUBSET SubArray
            /\ closing \subseteq s.active[c.at.bank]
        BY <2>1, <2>4
      <3> HIDE DEF closing
      <3> QED  BY <1>0, <2>2, <3>1, PrechargeRows
    <2>6. /\ Leaves(c) = ROWS
          /\ \A b, sa : Moves(c, b, sa) <=> b = c.at.bank /\ sa \in closing
      BY <1>4 DEF Leaves, Moves
    <2> HIDE DEF closing
    <2> QED  BY <2>5, <2>6 DEF IssuedRows, RowsMoved
  <1>5. CASE c.op = "PRECHARGE_ALL"
    <2> DEFINE closing == s.active[c.at.bank]
    <2>1. t = Precharge(s, c.at.bank, closing)  BY <1>5 DEF IssueCommand
    <2>2. p.UsePrecharge /\ closing \in SUBSET SubArray /\ closing \subseteq s.active[c.at.bank]
      BY <1>0, <1>5 DEF CommandFits
    <2>3. \A sa : sa \notin closing => OpenRow(s, c.at.bank, sa) = ROWS  BY DEF OpenRow
    <2> HIDE DEF closing
    <2>4. /\ ClosesOnce(t.calendar) /\ ArraysAreClosed(t)
          /\ \A b \in Bank, sa \in SubArray :
               /\ b = c.at.bank /\ sa \in closing => OpenRow(t, b, sa) = ROWS
               /\ ~(b = c.at.bank /\ sa \in closing) => OpenRow(t, b, sa) = OpenRow(s, b, sa)
      BY <1>0, <2>1, <2>2, PrechargeRows
    <2>5. /\ Leaves(c) = ROWS
          /\ \A b, sa : Moves(c, b, sa) <=> b = c.at.bank
      BY <1>5 DEF Leaves, Moves
    <2>6. RowsMoved(s, t, c)  BY <2>3, <2>4, <2>5 DEF RowsMoved
    <2> QED  BY <2>4, <2>6 DEF IssuedRows
  <1>6. CASE c.op = "REFRESH"
    <2>1. t = Refresh(s, Group(c.at.bank))  BY <1>6 DEF IssueCommand
    <2> QED  BY <1>6, <2>1, RefreshRows
  <1> QED  BY <1>0, <1>1, <1>2, <1>3, <1>4, <1>5, <1>6

\* The commands that move the row of a subarray all pass through one queue.
LEMMA MovesHere ==
    ASSUME QueuesHoldBanks, Submitted, NEW c \in Command, NEW x, CommandFits(x, c),
           NEW b \in Bank, NEW sa \in SubArray, Moves(c, b, sa)
    PROVE  GetCommandQueueId(b, sa) = x
  <1>1. p \in Params /\ p.queueModel \in {"PerRank", "PerBank", "PerSubArray"}
    BY ParamsAre DEF Submitted
  <1>2. x = GetCommandQueueId(b, c.at.sa)  BY DEF CommandFits, Moves
  <1>3. CASE c.at.sa = sa  BY <1>2, <1>3
  <1>4. CASE c.at.sa # sa
    <2>1. c.op = "PRECHARGE_ALL"  BY <1>4 DEF Moves
    <2>2. p.queueModel # "PerSubArray"  BY <1>1, <2>1 DEF CommandFits, QueuesHoldBanks
    <2> QED  BY <1>1, <1>2, <2>2 DEF GetCommandQueueId
  <1> QED  BY <1>3, <1>4

\* Posting the cleanup leaves the rows alone.
LEMMA CleanupSoonRows ==
    ASSUME NEW s, NEW t \in Channel, NEW c, IssuedRows(s, t, c), NEW u, u = CleanupSoon(t)
    PROVE  IssuedRows(s, u, c)
  <1>0. t.calendar \in Calendar /\ 1 \in 0..Horizon /\ ClosesOnce(t.calendar)
    BY ChannelIs, Numbers DEF IssuedRows
  <1>1. /\ u.active = t.active /\ u.array = t.array
        /\ u.calendar = IF Scheduled(t.calendar, "CleanupCallback", 1) THEN t.calendar
                        ELSE InsertCallback(t.calendar, "CleanupCallback", None, 1, cleanupPriority)
    BY DEF CleanupSoon, Channel
  <1>2. ClosesOnce(u.calendar) /\ Closes(u.calendar) = Closes(t.calendar)
    <2>1. CASE Scheduled(t.calendar, "CleanupCallback", 1)  BY <1>0, <1>1, <2>1
    <2>2. CASE ~Scheduled(t.calendar, "CleanupCallback", 1)
      <3> DEFINE e == Callback("CleanupCallback", None, cleanupPriority)
                 block == <<e>>
      <3>1. u.calendar = [t.calendar EXCEPT ![1] = Place(@, block, cleanupPriority)]
        BY <1>1, <2>2 DEF InsertCallback
      <3>2. /\ block \in Seq(Event) /\ cleanupPriority \in Int /\ Elems(block) = {e}
            /\ e.kind \notin Closings
        BY DEF Event, Callback, cleanupPriority, Elems, Closings
      <3> HIDE DEF e, block
      <3>3. PICK n \in 0..Len(t.calendar[1]) :
               Inserted(t.calendar, 1, block, cleanupPriority, n, u.calendar)
        BY <1>0, <3>1, <3>2, InsertedIs
      <3>4. \A f \in Elems(block) : f.kind \notin Closings  BY <3>2
      <3> QED  BY <1>0, <3>2, <3>3, <3>4, QuietClosings
    <2> QED  BY <2>1, <2>2
  <1>3. ArraysAreClosed(u)  BY <1>1, <1>2 DEF IssuedRows, ArraysAreClosed
  <1>4. RowsMoved(s, u, c)  BY <1>1 DEF IssuedRows, RowsMoved, OpenRow
  <1> QED  BY <1>2, <1>3, <1>4 DEF IssuedRows

\* Issuing the head of a queue takes its step off what that queue leads to,
LEMMA HeadIssuedRows ==
    ASSUME QueuesHoldBanks, Submitted, NEW s \in Channel, CommandsFit(s), Rows(s),
           NEW x \in Queues, s.cq[x] # <<>>, ~s.cq[x][1].issued,
           NEW u \in Channel, BanksOnly(s, u), IssuedRows(s, u, s.cq[x][1]),
           NEW t, t = HeadIssued(s, x, u)
    PROVE  Rows(t)
  <1> DEFINE c == s.cq[x][1]
  <1>0. s.cq \in [Queues -> Seq(Command)] /\ p \in Params  BY ChannelIs DEF Submitted
  <1>1. c \in Command /\ CommandFits(x, c)
    <2>1. c \in Command /\ c \in Elems(s.cq[x])  BY <1>0, TailIs DEF Elems
    <2> QED  BY <2>1 DEF CommandsFit
  <1>2. /\ t.cq = [s.cq EXCEPT ![x] = Issue(@)]
        /\ t.activateQueued = s.activateQueued /\ t.effectiveRow = s.effectiveRow
        /\ t.active = u.active /\ t.array = u.array /\ t.calendar = u.calendar
    BY ZenonT(60) DEF HeadIssued, BanksOnly, Channel
  <1> HIDE DEF c
  <1>3. IssuedRows(s, u, c) /\ ~c.issued  BY DEF c
  <1>4. RowsForgotten(t)  BY <1>2 DEF Rows, RowsForgotten
  <1>5. ClosesOnce(t.calendar) /\ ArraysAreClosed(t)
    BY <1>2, <1>3 DEF IssuedRows, ArraysAreClosed
  <1>6. ASSUME NEW b \in Bank, NEW sa \in SubArray
        PROVE  Leads(t.cq[GetCommandQueueId(b, sa)], OpenRow(t, b, sa), t.effectiveRow[b, sa], b, sa)
    <2> DEFINE q == GetCommandQueueId(b, sa)
               open == OpenRow(s, b, sa)
               next == OpenRow(t, b, sa)
               row == s.effectiveRow[b, sa]
    <2>1. q \in Queues  BY <1>0, QueuesAre
    <2>2. Leads(s.cq[q], open, row, b, sa)  BY DEF Rows, RowsLead
    <2>3. next = OpenRow(u, b, sa)  BY <1>2 DEF OpenRow
    <2>4. /\ Moves(c, b, sa) => next = Leaves(c)
          /\ ~Moves(c, b, sa) => next = open
      BY <1>3, <2>3 DEF IssuedRows, RowsMoved
    <2> HIDE DEF open, next, row
    <2>5. CASE q = x
      <3> DEFINE queue == s.cq[x]
      <3>1. queue \in Seq(Command) /\ queue # <<>> /\ ~queue[1].issued /\ queue[1] = c
        BY <1>0, <1>3 DEF c
      <3>2. Leads(queue, open, row, b, sa)  BY <2>2, <2>5
      <3>3. t.cq[q] = Issue(queue)  BY <1>0, <1>2, <2>5
      <3> HIDE DEF queue, q
      <3>4. Leads(Issue(queue), next, row, b, sa)  BY <2>4, <3>1, <3>2, HeadLeads
      <3> QED  BY <1>2, <3>3, <3>4 DEF q, next, row
    <2>6. CASE q # x
      <3>1. ~Moves(c, b, sa)  BY <1>1, <2>6, MovesHere
      <3>2. t.cq[q] = s.cq[q]  BY <1>0, <1>2, <2>1, <2>6
      <3> QED  BY <1>2, <2>2, <2>4, <3>1, <3>2 DEF next, row
    <2> QED  BY <2>5, <2>6
  <1> QED  BY <1>4, <1>5, <1>6 DEF Rows, RowsLead

\* and so does the controller's own way to do it.
LEMMA IssueHeadRows ==
    ASSUME QueuesHoldBanks, Submitted, NEW s, Good(s), Cleaned(s), Rows(s), ~s.issuedNow,
           NEW x \in Queues, s.cq[x] # <<>>, IsIssuable(s, s.cq[x][1]), NEW v, v = IssueHead(s, x)
    PROVE  Rows(v)
  <1> DEFINE c == s.cq[x][1]
             b == c.at.bank
             sa == c.at.sa
             open == OpenRow(s, b, sa)
  <1>0. s \in Channel /\ s.cq \in [Queues -> Seq(Command)] /\ p \in Params /\ CommandsFit(s)
    BY ChannelIs DEF Submitted, Good
  <1>1. c \in Command /\ ~c.issued /\ CommandFits(x, c) /\ b \in Bank /\ sa \in SubArray
    <2>1. c \in Command /\ c \in Elems(s.cq[x])  BY <1>0, TailIs DEF Elems
    <2> QED  BY <1>0, <2>1, CommandIs DEF Cleaned, CommandsFit
  <1>2. Fits(c, sa, open)
    <2>1. GetCommandQueueId(b, sa) = x  BY <1>1 DEF CommandFits
    <2> DEFINE queue == s.cq[x]
               row == s.effectiveRow[b, sa]
    <2>2. Leads(queue, open, row, b, sa)  BY <1>1, <2>1 DEF Rows, RowsLead
    <2>3. queue \in Seq(Command) /\ queue # <<>> /\ ~queue[1].issued /\ queue[1] = c
      BY <1>0, <1>1
    <2>4. PICK next : (Moves(c, b, sa) => next = Leaves(c)) /\ (~Moves(c, b, sa) => next = open)
      <3>1. CASE Moves(c, b, sa)  BY <3>1
      <3>2. CASE ~Moves(c, b, sa)  BY <3>2
      <3> QED  BY <3>1, <3>2
    <2> HIDE DEF queue, row, open, c, b, sa
    <2>5. queue[1].at.bank = b => Fits(queue[1], sa, open)  BY <2>2, <2>3, <2>4, HeadLeads
    <2> QED  BY <2>3, <2>5 DEF b
  <1>3. PICK t, u, w : IssuingHead(s, x, t, u, w, v)  BY IssueHeadIs
  <1>4. t = IssueCommand(s, c) /\ IsIssuable(s, c) /\ Fits(c, c.at.sa, OpenRow(s, c.at.bank, c.at.sa))
    BY <1>2, <1>3 DEF IssuingHead
  <1> HIDE DEF c, b, sa, open
  <1>5. ClosesOnce(s.calendar) /\ ArraysAreClosed(s)  BY DEF Rows
  <1>6. IssuedRows(s, t, c)  BY <1>0, <1>1, <1>4, <1>5, IssueCommandRows
  <1>7. t \in Channel /\ u = CleanupSoon(t) /\ u \in Channel /\ BanksOnly(s, u)
        /\ w = HeadIssued(s, x, u) /\ w \in Channel /\ Nudges(w, v)
    BY <1>3 DEF IssuingHead, Good
  <1>8. IssuedRows(s, u, c)  BY <1>6, <1>7, CleanupSoonRows
  <1>9. Rows(w)
    <2>1. IssuedRows(s, u, s.cq[x][1]) /\ ~s.cq[x][1].issued  BY <1>1, <1>8 DEF c
    <2> QED  BY <1>0, <1>7, <2>1, HeadIssuedRows
  <1> QED  BY <1>7, <1>9, NudgeRows

\* A pass over the command queues issues one head at most.
LEMMA CycleCommandQueuesRows ==
    ASSUME QueuesHoldBanks, Submitted, NEW s, Good(s), Cleaned(s), Rows(s),
           NEW t, t = CycleCommandQueues(s)
    PROVE  Rows(t)
  <1>1. CASE t = s  BY <1>1
  <1>2. CASE t # s
    <2>1. ~s.issuedNow  BY <1>2, CycleCommandQueuesIs
    <2>2. PICK x \in Queues : s.cq[x] # <<>> /\ IsIssuable(s, s.cq[x][1]) /\ t = IssueHead(s, x)
      BY <1>2, CycleCommandQueuesIs
    <2> QED  BY <2>1, <2>2, IssueHeadRows
  <1> QED  BY <1>1, <1>2

-----------------------------------------------------------------------------
(* What the scheduler does to the rows.                                    *)

\* A command for one subarray.
LEMMA PlacedLeads ==
    ASSUME NEW c \in Command, ~c.issued,
           c.op \in {"ACTIVATE", "READ", "READ_PRECHARGE", "PRECHARGE"},
           NEW b, NEW sa, NEW open, NEW row,
           c.at.bank = b /\ c.at.sa = sa => Fits(c, sa, open),
           c.at.bank = b /\ c.at.sa = sa /\ c.op # "READ" => row = Leaves(c),
           c.at.bank = b /\ c.at.sa = sa /\ c.op = "READ" => row = open,
           ~(c.at.bank = b /\ c.at.sa = sa) => row = open
    PROVE  Leads(<<c>>, open, row, b, sa)
  <1>1. c.at.bank = b => Fits(c, sa, open)  BY DEF Fits
  <1>2. Moves(c, b, sa) <=> c.at.bank = b /\ c.at.sa = sa /\ c.op # "READ"  BY DEF Moves
  <1>3. (Moves(c, b, sa) => row = Leaves(c)) /\ (~Moves(c, b, sa) => row = open)  BY <1>2
  <1> QED  BY <1>1, <1>3, OneLeads

\* A queue of two commands.
LEMMA TwoCommands ==
    ASSUME NEW x \in Command, NEW y \in Command
    PROVE  <<x>> \o <<y>> = <<x, y>> /\ <<x>> \in Seq(Command) /\ <<x, y>> \in Seq(Command)
  <1> DEFINE w == <<x>> \o <<y>>
             v == <<x, y>>
  <1>1. <<x>> \in Seq(Command) /\ <<y>> \in Seq(Command) /\ v \in Seq(Command)  OBVIOUS
  <1>2. /\ w \in Seq(Command) /\ Len(w) = Len(<<x>>) + Len(<<y>>)
        /\ \A i \in 1..Len(<<x>>) : w[i] = <<x>>[i]
        /\ \A i \in 1..Len(<<y>>) : w[Len(<<x>>) + i] = <<y>>[i]
    BY <1>1, ConcatIs
  <1> HIDE DEF w
  <1>3. w \in Seq(Command) /\ Len(w) = 2 /\ w[1] = x /\ w[1 + 1] = y
    <2>1. /\ Len(<<x>>) = 1 /\ Len(<<y>>) = 1 /\ <<x>>[1] = x /\ <<y>>[1] = y
          /\ 1 \in 1..1 /\ 1 + 1 = 2
      OBVIOUS
    <2>2. Len(w) = 1 + 1 /\ w[1] = <<x>>[1] /\ w[1 + 1] = <<y>>[1]  BY <1>2, <2>1
    <2> QED  BY <1>2, <2>1, <2>2
  <1>4. v \in Seq(Command) /\ Len(v) = 2 /\ v[1] = x /\ v[2] = y  BY <1>1
  <1> HIDE DEF v
  <1>5. \A i \in 1..Len(w) : w[i] = v[i]  BY <1>3, <1>4
  <1>6. w = v  BY <1>3, <1>4, <1>5, SeqEqual
  <1> QED  BY <1>1, <1>6 DEF w, v

\* The commands of a request lead from the row believed open to the request's own.
LEMMA CommandsLead ==
    ASSUME Submitted, NEW s \in Channel, RowsForgotten(s), NEW r \in Known, NEW last \in BOOLEAN,
           NEW b \in Bank, NEW sa \in SubArray
    PROVE  Leads(CommandsOf(s, r, last), s.effectiveRow[b, sa], RowsOf(s, r, last)[b, sa], b, sa)
  <1> DEFINE at == address[r]
             a == At(at)
             column == Cmd(IF last /\ p.UsePrecharge THEN "READ_PRECHARGE" ELSE "READ", r, at)
             activate == Cmd("ACTIVATE", r, at)
             read == Cmd("READ", r, at)
             precharge == Cmd("PRECHARGE", None, [at EXCEPT !.row = s.effectiveRow[a]])
             here == b = at.bank /\ sa = at.sa
             open == s.effectiveRow[b, sa]
             row == RowsOf(s, r, last)[b, sa]
             closes == last /\ p.UsePrecharge
  <1>1. /\ at \in [bank : Bank, sa : SubArray, row : Row] /\ a \in Bank \X SubArray
        /\ a = <<at.bank, at.sa>> /\ r \in Req
        /\ s.effectiveRow \in [Bank \X SubArray -> 0..ROWS] /\ Row \subseteq 0..ROWS /\ ROWS \notin Row
    BY RequestsAre, ChannelIs, Sizes DEF At
  <1>2. /\ column \in Command /\ ~column.issued /\ column.at = at
        /\ column.op = IF closes THEN "READ_PRECHARGE" ELSE "READ"
    BY <1>1 DEF Cmd, Command
  <1>3. activate \in Command /\ ~activate.issued /\ activate.at = at /\ activate.op = "ACTIVATE"
    BY <1>1 DEF Cmd, Command
  <1>4. read \in Command /\ ~read.issued /\ read.at = at /\ read.op = "READ"
    BY <1>1 DEF Cmd, Command
  <1>5. /\ precharge \in Command /\ ~precharge.issued /\ precharge.op = "PRECHARGE"
        /\ precharge.at.bank = at.bank /\ precharge.at.sa = at.sa
        /\ precharge.at.row = s.effectiveRow[a]
    <2> DEFINE before == [at EXCEPT !.row = s.effectiveRow[a]]
    <2>1. before \in [bank : Bank, sa : SubArray, row : 0..ROWS] /\ before.bank = at.bank
          /\ before.sa = at.sa /\ before.row = s.effectiveRow[a]
      BY <1>1
    <2>2. precharge = Cmd("PRECHARGE", None, before)  OBVIOUS
    <2> HIDE DEF before, precharge
    <2> QED  BY <2>1, <2>2 DEF Cmd, Command
  <1>6. /\ here => row = RowOf(s, r, last) /\ open = s.effectiveRow[a]
        /\ ~here => row = open
    <2> DEFINE new == RowOf(s, r, last)
    <2>1. RowsOf(s, r, last) = [s.effectiveRow EXCEPT ![a] = new]  BY DEF RowsOf
    <2> HIDE DEF new, a, at
    <2>2. here => <<b, sa>> = a  BY <1>1
    <2>3. ~here => <<b, sa>> # a  BY <1>1
    <2>4. <<b, sa>> \in Bank \X SubArray  OBVIOUS
    <2> HIDE DEF here
    <2> QED  BY <1>1, <2>1, <2>2, <2>3, <2>4 DEF new
  <1>7. /\ Misses(s, r) => RowOf(s, r, last) = at.row
        /\ ~Misses(s, r) /\ closes => RowOf(s, r, last) = ROWS
        /\ ~Misses(s, r) /\ ~closes => RowOf(s, r, last) = at.row
    BY DEF RowOf
  <1>8. here /\ p.UsePrecharge /\ ~s.activateQueued[at.bank] => open = ROWS
    BY DEF RowsForgotten
  <1>9. /\ ~s.activateQueued[at.bank] => CommandsOf(s, r, last) = <<activate, column>>
        /\ s.activateQueued[at.bank] /\ s.effectiveRow[a] = at.row => CommandsOf(s, r, last) = <<column>>
    BY DEF CommandsOf
  <1>10. s.activateQueued[at.bank] /\ s.effectiveRow[a] # at.row =>
           /\ s.effectiveRow[a] # ROWS /\ p.UsePrecharge
                => CommandsOf(s, r, last) = <<precharge>> \o <<activate, read>>
           /\ ~(s.effectiveRow[a] # ROWS /\ p.UsePrecharge)
                => CommandsOf(s, r, last) = <<>> \o <<activate, read>>
    BY DEF CommandsOf
  <1> HIDE DEF column, activate, read, precharge, row
  <1>11. ASSUME NEW x \in Command, ~x.issued, x.at = at, x.op \in {"READ", "READ_PRECHARGE"},
                NEW from, NEW to, here => from = at.row,
                here /\ x.op = "READ" => to = at.row, here /\ x.op # "READ" => to = ROWS,
                ~here => to = from
         PROVE  Leads(<<x>>, from, to, b, sa)
    <2>1. x.at.bank = b /\ x.at.sa = sa <=> here  BY <1>11
    <2>2. here => Fits(x, sa, from)  BY <1>11 DEF Fits
    <2>3. x.op # "READ" => Leaves(x) = ROWS  BY <1>11 DEF Leaves
    <2> HIDE DEF here
    <2> QED  BY <1>11, <2>1, <2>2, <2>3, PlacedLeads
  <1>12. ASSUME NEW from, NEW to, here /\ p.UsePrecharge => from = ROWS,
                here => to = at.row, ~here => to = from
         PROVE  Leads(<<activate>>, from, to, b, sa)
    <2>1. activate.at.bank = b /\ activate.at.sa = sa <=> here  BY <1>3
    <2>2. here => Fits(activate, sa, from)  BY <1>3, <1>12 DEF Fits
    <2>3. Leaves(activate) = at.row  BY <1>3 DEF Leaves
    <2> HIDE DEF here
    <2> QED  BY <1>3, <1>12, <2>1, <2>2, <2>3, PlacedLeads
  <1>13. PICK mid : (here => mid = at.row) /\ (~here => mid = open)
    <2>1. CASE here  BY <2>1
    <2>2. CASE ~here  BY <2>2
    <2> QED  BY <2>1, <2>2
  <1> HIDE DEF open
  <1>14. CASE ~s.activateQueued[at.bank]
    <2>0. ~Misses(s, r)  BY <1>14 DEF Misses
    <2>1. Leads(<<activate>>, open, mid, b, sa)  BY <1>8, <1>12, <1>13, <1>14
    <2>2. Leads(<<column>>, mid, row, b, sa)
      <3>1. /\ here => mid = at.row
            /\ here /\ column.op = "READ" => row = at.row
            /\ here /\ column.op # "READ" => row = ROWS
            /\ ~here => row = mid
        BY <1>2, <1>6, <1>7, <1>13, <2>0
      <3>2. column.op \in {"READ", "READ_PRECHARGE"}  BY <1>2
      <3> HIDE DEF here
      <3> QED  BY <1>2, <1>11, <3>1, <3>2
    <2>3. Leads(<<activate>> \o <<column>>, open, row, b, sa)
      BY <1>2, <1>3, <2>1, <2>2, LeadsOn, TwoCommands
    <2> QED  BY <1>2, <1>3, <1>9, <1>14, <2>3, TwoCommands DEF open, row
  <1>15. CASE s.activateQueued[at.bank] /\ s.effectiveRow[a] = at.row
    <2>0. ~Misses(s, r)  BY <1>15 DEF Misses
    <2>1. Leads(<<column>>, open, row, b, sa)
      <3>1. /\ here => open = at.row
            /\ here /\ column.op = "READ" => row = at.row
            /\ here /\ column.op # "READ" => row = ROWS
            /\ ~here => row = open
        BY <1>2, <1>6, <1>7, <1>15, <2>0
      <3>2. column.op \in {"READ", "READ_PRECHARGE"}  BY <1>2
      <3> HIDE DEF here
      <3> QED  BY <1>2, <1>11, <3>1, <3>2
    <2> QED  BY <1>9, <1>15, <2>1 DEF open, row
  <1>16. CASE s.activateQueued[at.bank] /\ s.effectiveRow[a] # at.row
    <2>0. Misses(s, r)  BY <1>16 DEF Misses
    <2>1. ASSUME NEW from, here /\ p.UsePrecharge => from = ROWS, ~here => from = open
          PROVE  Leads(<<activate, read>>, from, row, b, sa)
      <3>1. Leads(<<activate>>, from, mid, b, sa)  BY <1>12, <1>13, <2>1
      <3>2. Leads(<<read>>, mid, row, b, sa)
        <4>1. (here => mid = at.row) /\ (here => row = at.row) /\ (~here => row = mid)
          BY <1>6, <1>7, <1>13, <2>0
        <4> HIDE DEF here
        <4> QED  BY <1>4, <1>11, <4>1
      <3>3. Leads(<<activate>> \o <<read>>, from, row, b, sa)
        BY <1>3, <1>4, <3>1, <3>2, LeadsOn, TwoCommands
      <3> QED  BY <1>3, <1>4, <3>3, TwoCommands
    <2>2. CASE s.effectiveRow[a] # ROWS /\ p.UsePrecharge
      <3>1. PICK from : (here => from = ROWS) /\ (~here => from = open)
        <4>1. CASE here  BY <4>1
        <4>2. CASE ~here  BY <4>2
        <4> QED  BY <4>1, <4>2
      <3>2. Leads(<<precharge>>, open, from, b, sa)
        <4>1. precharge.at.bank = b /\ precharge.at.sa = sa <=> here  BY <1>5
        <4>2. here => Fits(precharge, sa, open)  BY <1>5, <1>6 DEF Fits
        <4>3. Leaves(precharge) = ROWS  BY <1>5 DEF Leaves
        <4> HIDE DEF here
        <4> QED  BY <1>5, <3>1, <4>1, <4>2, <4>3, PlacedLeads
      <3>3. Leads(<<activate, read>>, from, row, b, sa)  BY <2>1, <3>1
      <3>4. <<precharge>> \in Seq(Command) /\ <<activate, read>> \in Seq(Command)
        BY <1>3, <1>4, <1>5, TwoCommands
      <3>5. Leads(<<precharge>> \o <<activate, read>>, open, row, b, sa)
        BY <3>2, <3>3, <3>4, LeadsOn
      <3> QED  BY <1>10, <1>16, <2>2, <3>5 DEF open, row
    <2>3. CASE ~(s.effectiveRow[a] # ROWS /\ p.UsePrecharge)
      <3>1. here /\ p.UsePrecharge => open = ROWS  BY <1>6, <2>3
      <3>2. Leads(<<activate, read>>, open, row, b, sa)  BY <2>1, <3>1
      <3>3. <<>> \o <<activate, read>> = <<activate, read>>  OBVIOUS
      <3> QED  BY <1>10, <1>16, <2>3, <3>2, <3>3 DEF open, row
    <2> QED  BY <2>2, <2>3
  <1> QED  BY <1>14, <1>15, <1>16

\* A request that is served is appended to its queue together with the belief it leads to.
LEMMA ServedRows ==
    ASSUME Submitted, NEW s \in Channel, Rows(s), NEW r \in Known, NEW last \in BOOLEAN, NEW tq,
           NEW t, t = Served(s, r, last, tq)
    PROVE  Rows(t)
  <1> DEFINE x == QueueOf(r)
             commands == CommandsOf(s, r, last)
             at == address[r]
  <1>0. /\ at \in [bank : Bank, sa : SubArray, row : Row] /\ x \in Queues
        /\ At(at) \in Bank \X SubArray /\ At(at) = <<at.bank, at.sa>>
        /\ x = GetCommandQueueId(at.bank, at.sa) /\ p \in Params
        /\ s.cq \in [Queues -> Seq(Command)] /\ s.effectiveRow \in [Bank \X SubArray -> 0..ROWS]
        /\ s.activateQueued \in [Bank -> BOOLEAN]
    BY RequestsAre, ChannelIs DEF At
  <1>1. /\ t.cq = [s.cq EXCEPT ![x] = @ \o commands]
        /\ t.calendar = s.calendar /\ t.active = s.active /\ t.array = s.array
    <2> HIDE DEF commands, x
    <2> QED  BY DEF Served, Channel, commands, x
  <1>2. /\ t.effectiveRow = RowsOf(s, r, last)
        /\ t.activateQueued = [s.activateQueued EXCEPT ![at.bank] = OpensOf(s, r, last)]
    BY DEF Served, Channel
  <1>3. commands \in Seq(Command)  BY CommandsServe DEF Serving
  <1> HIDE DEF commands, x
  <1>4. ClosesOnce(t.calendar) /\ ArraysAreClosed(t)
    BY ZenonT(60), <1>1 DEF Rows, ArraysAreClosed
  <1>5. RowsForgotten(t)
    <2>1. SUFFICES ASSUME p.UsePrecharge, NEW b \in Bank, NEW sa \in SubArray, ~t.activateQueued[b]
                   PROVE  t.effectiveRow[b, sa] = ROWS
      BY DEF RowsForgotten
    <2>2. ~s.activateQueued[b] => s.effectiveRow[b, sa] = ROWS  BY <2>1 DEF Rows, RowsForgotten
    <2>3. CASE b # at.bank
      <3>1. t.activateQueued[b] = s.activateQueued[b]  BY <1>0, <1>2, <2>3
      <3>2. <<b, sa>> # At(at)  BY <1>0, <2>3
      <3>3. t.effectiveRow[b, sa] = s.effectiveRow[b, sa]  BY <1>0, <1>2, <3>2 DEF RowsOf
      <3> QED  BY <2>1, <2>2, <3>1, <3>3
    <2>4. CASE b = at.bank
      <3>1. ~OpensOf(s, r, last)  BY <1>0, <1>2, <2>1, <2>4
      <3>2. CASE s.activateQueued[b]  BY <1>2, <2>4, <3>1, <3>2 DEF OpensOf
      <3>3. CASE ~s.activateQueued[b]
        <4>1. ~Misses(s, r) /\ last /\ p.UsePrecharge  BY <2>4, <3>1, <3>3 DEF OpensOf, Misses
        <4>2. RowOf(s, r, last) = ROWS  BY <4>1 DEF RowOf
        <4> QED  BY <1>0, <1>2, <2>2, <3>3, <4>2 DEF RowsOf
      <3> QED  BY <3>2, <3>3
    <2> QED  BY <2>3, <2>4
  <1>6. RowsLead(t)
    <2>1. SUFFICES ASSUME NEW b \in Bank, NEW sa \in SubArray
                   PROVE  Leads(t.cq[GetCommandQueueId(b, sa)], OpenRow(t, b, sa),
                                t.effectiveRow[b, sa], b, sa)
      BY DEF RowsLead
    <2> DEFINE q == GetCommandQueueId(b, sa)
               open == OpenRow(s, b, sa)
               mid == s.effectiveRow[b, sa]
               row == t.effectiveRow[b, sa]
    <2>2. q \in Queues /\ OpenRow(t, b, sa) = open  BY <1>0, <1>1, QueuesAre DEF OpenRow
    <2>3. Leads(s.cq[q], open, mid, b, sa)  BY DEF Rows, RowsLead
    <2>4. Leads(commands, mid, row, b, sa)  BY <1>2, CommandsLead DEF Rows, commands
    <2>5. q # x => row = mid
      <3>1. q # x => <<b, sa>> # At(at)  BY <1>0
      <3> QED  BY <1>0, <1>2, <3>1 DEF RowsOf
    <2> HIDE DEF open, mid, row
    <2>6. CASE q = x
      <3> DEFINE queue == s.cq[x]
      <3>1. queue \in Seq(Command) /\ t.cq[q] = queue \o commands /\ Leads(queue, open, mid, b, sa)
        BY <1>0, <1>1, <2>3, <2>6
      <3> HIDE DEF queue, q
      <3>2. Leads(queue \o commands, open, row, b, sa)  BY <1>3, <2>4, <3>1, LeadsOn
      <3> QED  BY ZenonT(60), <2>2, <3>1, <3>2 DEF q, row
    <2>7. CASE q # x
      <3>1. t.cq[q] = s.cq[q] /\ row = mid  BY <1>0, <1>1, <2>2, <2>5, <2>7
      <3> HIDE DEF q
      <3> QED  BY <2>2, <2>3, <3>1 DEF q, row
    <2> QED  BY <2>6, <2>7
  <1> QED  BY <1>4, <1>5, <1>6 DEF Rows

\* Scheduling serves one request at most,
LEMMA ScheduleFromRows ==
    ASSUME Submitted, NEW s, Good(s), Rows(s), NEW queue, TheirQueue(s, queue),
           NEW t, t = ScheduleFrom(s, queue)
    PROVE  Rows(t)
  <1>1. CASE t = s  BY <1>1
  <1>2. CASE t # s
    <2>1. PICK r, last, tq, u : Scheduling(s, r, last, tq, u, t)  BY <1>2, ScheduleFromIs
    <2>2. s \in Channel /\ u \in Channel  BY <2>1 DEF Scheduling, Good
    <2>3. Rows(u)  BY <2>1, <2>2, ServedRows DEF Scheduling
    <2> QED  BY <2>1, <2>2, <2>3, NudgeRows DEF Scheduling
  <1> QED  BY <1>1, <1>2

\* from either queue,
LEMMA ScheduleDrainRows ==
    ASSUME Submitted, NEW s, Good(s), Rows(s), p.scheduler = "FRFCFS-WQF",
           NEW t, t = ScheduleDrain(s)
    PROVE  Rows(t)
  <1>1. PICK u, queue : Draining(s, u, queue, t)  BY ScheduleDrainIs
  <1>2. s \in Channel /\ u = [s EXCEPT !.draining = u.draining]  BY <1>1 DEF Draining, Good
  <1>3. /\ u.cq = s.cq /\ u.activateQueued = s.activateQueued /\ u.effectiveRow = s.effectiveRow
        /\ u.active = s.active /\ u.array = s.array /\ u.calendar = s.calendar
    BY <1>2 DEF Channel
  <1>4. Rows(u)
    <2>1. \A b \in Bank, sa \in SubArray : SameHere(s, u, b, sa)  BY <1>3 DEF SameHere
    <2>2. ClosesOnce(u.calendar) /\ Closes(u.calendar) = Closes(s.calendar)  BY <1>3 DEF Rows
    <2> QED  BY <1>3, <2>1, <2>2, RowsKept
  <1> QED  BY <1>1, <1>4, ScheduleFromRows DEF Draining

\* and a cycle does so before it issues.
LEMMA CycleRows ==
    ASSUME QueuesHoldBanks, Submitted, NEW s, Good(s), Cleaned(s), Rows(s), NEW t, t = Cycle(s)
    PROVE  Rows(t)
  <1> DEFINE u == IF p.scheduler = "FRFCFS-WQF" THEN ScheduleDrain(s)
                  ELSE ScheduleFrom(s, DOMAIN s.tq)
             v == CycleCommandQueues(u)
  <1>1. Good(u) /\ Cleaned(u) /\ Rows(u)
    <2>1. CASE p.scheduler = "FRFCFS-WQF"
      <3>1. u = ScheduleDrain(s)  BY <2>1
      <3> HIDE DEF u
      <3> QED  BY <2>1, <3>1, ScheduleDrainKeeps, ScheduleDrainRows
    <2>2. CASE p.scheduler # "FRFCFS-WQF"
      <3>1. u = ScheduleFrom(s, DOMAIN s.tq) /\ TheirQueue(s, DOMAIN s.tq)
        BY <2>2 DEF TheirQueue
      <3> HIDE DEF u
      <3> QED  BY <3>1, ScheduleFromKeeps, ScheduleFromRows
    <2> QED  BY <2>1, <2>2
  <1>2. t = Recheck(v)  BY DEF Cycle
  <1> HIDE DEF u
  <1>3. Good(v) /\ Rows(v)  BY <1>1, CycleCommandQueuesKeeps, CycleCommandQueuesRows
  <1> HIDE DEF v
  <1>4. Nudges(v, t) /\ v \in Channel  BY <1>2, <1>3, RecheckNudges DEF Good
  <1> QED  BY <1>3, <1>4, NudgeRows

\* The wakeup for the command queues is the rest of a cycle.
LEMMA CommandQueueCallbackRows ==
    ASSUME QueuesHoldBanks, Submitted, NEW s, Good(s), Cleaned(s), Rows(s),
           NEW t, t = CommandQueueCallback(s)
    PROVE  Rows(t)
  <1> DEFINE u == ScheduleCommandWake(s)
  <1>1. Nudges(s, u) /\ s \in Channel  BY WakeNudges DEF Good
  <1>2. t = CycleCommandQueues(u)  BY DEF CommandQueueCallback
  <1> HIDE DEF u
  <1>3. Good(u) /\ Cleaned(u) /\ Rows(u)  BY <1>1, NudgeKeeps, NudgeRows
  <1> QED  BY <1>2, <1>3, CycleCommandQueuesRows

-----------------------------------------------------------------------------
(* What a refresh does to the rows.                                        *)

\* The commands that close the banks of a refresh.
LEMMA PrechargesLead ==
    ASSUME QueuesHoldBanks, Submitted, NEW s \in Channel, NEW g \in Groups, NEW b \in Bank,
           NEW sa \in SubArray, NEW q, q = GetCommandQueueId(b, sa), NEW open, NEW row,
           b \in OpenIn(s, g) => row = ROWS, b \notin OpenIn(s, g) => row = open
    PROVE  Leads(Precharges(s, g, q), open, row, b, sa)
  <1> DEFINE queue == Precharges(s, g, q)
  <1>0. q \in Queues /\ p \in Params  BY QueuesAre DEF Submitted
  <1>1. /\ queue \in Seq(Command)
        /\ \A c \in Elems(queue) : \E d \in OpenIn(s, g) : c = CloseAll(d)
        /\ \A d \in OpenIn(s, g) : q = GetCommandQueueId(d, 0) => CloseAll(d) \in Elems(queue)
    BY <1>0, RefreshCommandsAre
  <1> HIDE DEF queue
  <1>2. \A d : /\ CloseAll(d).op = "PRECHARGE_ALL" /\ ~CloseAll(d).issued /\ CloseAll(d).at.bank = d
    BY DEF CloseAll, Cmd, Place0
  <1>3. \A i \in DOMAIN queue : /\ queue[i].op = "PRECHARGE_ALL" /\ ~queue[i].issued
                                /\ queue[i].at.bank \in OpenIn(s, g)
    <2>1. \A i \in DOMAIN queue : queue[i] \in Elems(queue)  BY DEF Elems
    <2> QED  BY <1>1, <1>2, <2>1
  <1>4. Len(queue) \in Nat /\ DOMAIN queue = 1..Len(queue)  BY <1>1, LenProperties
  <1>5. \A i \in DOMAIN queue : \A after : Fits(queue[i], sa, after)  BY <1>3 DEF Fits
  <1>6. RowAfter(queue, open, Len(queue), b, sa) = row
    <2>1. CASE b \in OpenIn(s, g)
      <3>1. q = GetCommandQueueId(b, 0)
        <4>1. p.queueModel \in {"PerRank", "PerBank"}
          BY <1>0, <2>1, ParamsAre DEF OpenIn, QueuesHoldBanks
        <4> QED  BY <4>1 DEF GetCommandQueueId
      <3>2. PICK i \in DOMAIN queue : queue[i] = CloseAll(b)  BY <1>1, <2>1, <3>1 DEF Elems
      <3>3. i \in 1..Len(queue) /\ Moves(queue[i], b, sa)  BY <1>2, <1>4, <3>2 DEF Moves
      <3>4. ~Still(queue, 1, Len(queue), b, sa)  BY <3>3 DEF Still
      <3>5. PICK m \in 1..Len(queue) :
               Moves(queue[m], b, sa) /\ Still(queue, m + 1, Len(queue), b, sa)
        BY <1>4, <3>4, RowIs
      <3>6. RowAfter(queue, open, Len(queue), b, sa) = Leaves(queue[m])  BY <1>4, <3>5, RowMoved
      <3>7. Leaves(queue[m]) = ROWS  BY <1>3, <1>4 DEF Leaves
      <3> QED  BY <2>1, <3>6, <3>7
    <2>2. CASE b \notin OpenIn(s, g)
      <3>1. Still(queue, 1, Len(queue), b, sa)  BY <1>3, <1>4, <2>2 DEF Still, Moves
      <3> QED  BY <1>4, <2>2, <3>1, RowStill
    <2> QED  BY <2>1, <2>2
  <1> QED  BY <1>5, <1>6 DEF Leads, queue

\* The refresh finds the first subarray of its bank closed.
LEMMA RefreshLeads ==
    ASSUME Submitted, NEW g \in Groups, NEW b \in Bank, NEW sa \in SubArray, NEW q, NEW open,
           b = g /\ sa = 0 /\ p.UsePrecharge => open = ROWS
    PROVE  Leads(RefreshAt(g, q), open, open, b, sa)
  <1> DEFINE c == Cmd("REFRESH", None, Place0(g))
  <1>1. c \in Command /\ c.op = "REFRESH" /\ c.at.bank = g
    <2>1. g \in Bank /\ 0 \in SubArray  BY GroupsAre, Sizes DEF Submitted
    <2> QED  BY <2>1, Sizes DEF Cmd, Command, Place0
  <1>2. q = GetCommandQueueId(g, 0) => RefreshAt(g, q) = <<c>>  BY DEF RefreshAt
  <1>3. q # GetCommandQueueId(g, 0) => RefreshAt(g, q) = <<>>  BY DEF RefreshAt
  <1> HIDE DEF c
  <1>4. c.at.bank = b => Fits(c, sa, open)  BY <1>1 DEF Fits
  <1>5. ~Moves(c, b, sa)  BY <1>1 DEF Moves
  <1>6. Leads(<<c>>, open, open, b, sa)  BY <1>1, <1>4, <1>5, OneLeads
  <1>7. Leads(<<>>, open, open, b, sa)  BY NoneLeads
  <1> QED  BY <1>2, <1>3, <1>6, <1>7

\* The precharges of a refresh close every row that the controller then forgets.
LEMMA RefreshTakenRows ==
    ASSUME QueuesHoldBanks, Submitted, NEW s \in Channel, Rows(s), NEW g \in Groups,
           NEW t, t = RefreshTaken(s, g)
    PROVE  Rows(t)
  <1>0. /\ s.cq \in [Queues -> Seq(Command)] /\ s.effectiveRow \in [Bank \X SubArray -> 0..ROWS]
        /\ s.activateQueued \in [Bank -> BOOLEAN] /\ p \in Params /\ g \in Bank /\ g \in Group(g)
    BY ChannelIs, GroupsAre DEF Submitted, Group
  <1>1. /\ t.cq = [q \in Queues |-> s.cq[q] \o Precharges(s, g, q) \o RefreshAt(g, q)]
        /\ t.activateQueued = [b \in Bank |-> s.activateQueued[b] /\ b \notin OpenIn(s, g)]
        /\ t.effectiveRow = Forget(s.effectiveRow, OpenIn(s, g))
        /\ t.calendar = s.calendar /\ t.array = s.array /\ t.active = s.active
    BY DEF RefreshTaken, Channel
  <1>2. ASSUME NEW b \in Bank, NEW sa \in SubArray
        PROVE  /\ b \in OpenIn(s, g) => t.effectiveRow[b, sa] = ROWS
               /\ b \notin OpenIn(s, g) => t.effectiveRow[b, sa] = s.effectiveRow[b, sa]
    BY <1>1 DEF Forget
  <1>3. RowsForgotten(t)
    <2>1. SUFFICES ASSUME p.UsePrecharge, NEW b \in Bank, NEW sa \in SubArray, ~t.activateQueued[b]
                   PROVE  t.effectiveRow[b, sa] = ROWS
      BY DEF RowsForgotten
    <2>2. ~s.activateQueued[b] \/ b \in OpenIn(s, g)  BY <1>1, <2>1
    <2>3. ~s.activateQueued[b] => s.effectiveRow[b, sa] = ROWS  BY <2>1 DEF Rows, RowsForgotten
    <2> QED  BY <1>2, <2>2, <2>3
  <1>4. ASSUME NEW b \in Bank, NEW sa \in SubArray
        PROVE  Leads(t.cq[GetCommandQueueId(b, sa)], OpenRow(t, b, sa), t.effectiveRow[b, sa], b, sa)
    <2> DEFINE q == GetCommandQueueId(b, sa)
               open == OpenRow(s, b, sa)
               mid == s.effectiveRow[b, sa]
               row == t.effectiveRow[b, sa]
    <2>1. q \in Queues /\ OpenRow(t, b, sa) = open  BY <1>0, <1>1, QueuesAre DEF OpenRow
    <2>2. Leads(s.cq[q], open, mid, b, sa)  BY DEF Rows, RowsLead
    <2>3. b = g /\ sa = 0 /\ p.UsePrecharge => row = ROWS
      <3>1. b = g /\ p.UsePrecharge /\ ~s.activateQueued[b] => mid = ROWS
        BY DEF Rows, RowsForgotten
      <3>2. b = g /\ p.UsePrecharge /\ s.activateQueued[b] => b \in OpenIn(s, g)
        BY <1>0 DEF OpenIn
      <3> QED  BY <1>2, <3>1, <3>2
    <2>4. (b \in OpenIn(s, g) => row = ROWS) /\ (b \notin OpenIn(s, g) => row = mid)  BY <1>2
    <2>5. /\ s.cq[q] \in Seq(Command) /\ Precharges(s, g, q) \in Seq(Command)
          /\ RefreshAt(g, q) \in Seq(Command)
      BY <1>0, <2>1, RefreshCommandsAre
    <2>6. t.cq[q] = (s.cq[q] \o Precharges(s, g, q)) \o RefreshAt(g, q)  BY <1>1, <2>1
    <2>7. q = GetCommandQueueId(b, sa)  OBVIOUS
    <2> HIDE DEF q, open, mid, row
    <2>8. Leads(Precharges(s, g, q), mid, row, b, sa)  BY <2>4, <2>7, PrechargesLead
    <2>9. Leads(RefreshAt(g, q), row, row, b, sa)  BY <2>3, RefreshLeads
    <2>10. Leads(s.cq[q] \o Precharges(s, g, q), open, row, b, sa)  BY <2>2, <2>5, <2>8, LeadsOn
    <2>11. s.cq[q] \o Precharges(s, g, q) \in Seq(Command)  BY <2>5, ConcatIs
    <2>12. Leads((s.cq[q] \o Precharges(s, g, q)) \o RefreshAt(g, q), open, row, b, sa)
      BY <2>5, <2>9, <2>10, <2>11, LeadsOn
    <2> QED  BY <2>1, <2>6, <2>12 DEF q, row
  <1>5. RowsLead(t)  BY <1>4 DEF RowsLead
  <1>6. ClosesOnce(t.calendar) /\ ArraysAreClosed(t)
    <2>1. ClosesOnce(s.calendar) /\ ArraysAreClosed(s)  BY DEF Rows
    <2>2. ArraysAreClosed(t)
      <3>1. t.calendar = s.calendar /\ t.array = s.array /\ t.active = s.active  BY <1>1
      <3> QED  BY <2>1, <3>1 DEF ArraysAreClosed
    <2> QED  BY <1>1, <2>1, <2>2
  <1> QED  BY <1>3, <1>5, <1>6 DEF Rows

\* A refresh pulse only counts, until the refresh that is due is queued.
LEMMA RefreshCallbackRows ==
    ASSUME QueuesHoldBanks, Submitted, NEW s, Good(s), Rows(s), NEW g \in Groups,
           NEW t, t = RefreshCallback(s, g)
    PROVE  Rows(t)
  <1> DEFINE s0 == [s EXCEPT !.refreshCounter[g] = @ + 1]
  <1>0. s \in Channel  BY DEF Good
  <1>1. CASE NeedRefresh(s0, g)
    <2>2. t = ScheduleCommandWake(RefreshTaken(s, g))  BY <1>0, <1>1, RefreshCallbackIs
    <2>3. PICK u : u = RefreshTaken(s, g)  OBVIOUS
    <2>4. u \in Channel /\ Rows(u)  BY <1>0, <2>3, RefreshTakenKeeps, RefreshTakenRows DEF Good
    <2>5. Nudges(u, t)  BY <2>2, <2>3, <2>4, WakeNudges
    <2> QED  BY <2>4, <2>5, NudgeRows
  <1>2. CASE ~NeedRefresh(s0, g)
    <2>1. t = [s EXCEPT !.refreshCounter[g] = @ + 1]  BY <1>2 DEF RefreshCallback
    <2>2. /\ t.cq = s.cq /\ t.activateQueued = s.activateQueued /\ t.effectiveRow = s.effectiveRow
          /\ t.calendar = s.calendar /\ t.array = s.array /\ t.active = s.active
      BY <1>0, <2>1 DEF Channel
    <2> QED  BY <2>2, StandingRows
  <1> QED  BY <1>1, <1>2

-----------------------------------------------------------------------------
(* What the other handlers do to the rows.                                 *)

\* The cleanup takes out commands that no longer move a row.
LEMMA CleanupRows ==
    ASSUME Submitted, NEW s \in Channel, Rows(s), NEW t, t = CleanupCallback(s)
    PROVE  Rows(t)
  <1>0. s.cq \in [Queues -> Seq(Command)] /\ p \in Params  BY ChannelIs DEF Submitted
  <1>1. /\ t.cq = [q \in Queues |-> Unissued(s.cq[q])]
        /\ t.activateQueued = s.activateQueued /\ t.effectiveRow = s.effectiveRow
        /\ t.calendar = s.calendar /\ t.array = s.array /\ t.active = s.active
    BY DEF CleanupCallback, Channel
  <1>2. RowsForgotten(t)  BY <1>1 DEF Rows, RowsForgotten
  <1>3. ASSUME NEW b \in Bank, NEW sa \in SubArray
        PROVE  Leads(t.cq[GetCommandQueueId(b, sa)], OpenRow(t, b, sa), t.effectiveRow[b, sa], b, sa)
    <2> DEFINE q == GetCommandQueueId(b, sa)
               open == OpenRow(s, b, sa)
               row == s.effectiveRow[b, sa]
    <2>1. q \in Queues /\ OpenRow(t, b, sa) = open /\ t.effectiveRow[b, sa] = row
      BY <1>0, <1>1, QueuesAre DEF OpenRow
    <2>2. Leads(s.cq[q], open, row, b, sa)  BY DEF Rows, RowsLead
    <2> HIDE DEF q, open, row
    <2>3. s.cq[q] \in Seq(Command) /\ t.cq[q] = Unissued(s.cq[q])  BY <1>0, <1>1, <2>1
    <2>4. Leads(Unissued(s.cq[q]), open, row, b, sa)  BY <2>2, <2>3, UnissuedLeads
    <2> QED  BY <2>1, <2>3, <2>4 DEF q
  <1>4. RowsLead(t)  BY <1>3 DEF RowsLead
  <1>5. ClosesOnce(t.calendar) /\ ArraysAreClosed(t)
    <2>1. ClosesOnce(s.calendar) /\ ArraysAreClosed(s)  BY DEF Rows
    <2>2. ArraysAreClosed(t)  BY ZenonT(60), <1>1, <2>1 DEF ArraysAreClosed
    <2> QED  BY <1>1, <2>1, <2>2
  <1> QED  BY <1>2, <1>4, <1>5 DEF Rows

\* A subarray whose event has just been taken out of the calendar: it is still closing.
IsClosing(s, a) ==
    a \notin Closes(s.calendar) /\ a[2] \notin s.active[a[1]] /\ s.array[a].state # "closed"
TakeFirst(s) == [s EXCEPT !.calendar[0] = Tail(@)]

\* A report that is taken out of the calendar leaves its subarray about to close.
LEMMA PopRows ==
    ASSUME NEW s \in Channel, s.calendar[0] # <<>>, Rows(s), NEW t, t = TakeFirst(s)
    PROVE  /\ Rows(t)
           /\ s.calendar[0][1].kind \in Closings /\ p.UsePrecharge =>
                IsClosing(t, s.calendar[0][1].what)
           /\ ~p.UsePrecharge => s.calendar[0][1].kind \notin {"implicitPrecharge", "closed"}
  <1> DEFINE e == s.calendar[0][1]
  <1>0. s.calendar \in Calendar /\ ClosesOnce(s.calendar) /\ ArraysAreClosed(s)
    BY ChannelIs DEF Rows
  <1>1. /\ t.calendar = [s.calendar EXCEPT ![0] = Tail(@)]
        /\ t.cq = s.cq /\ t.activateQueued = s.activateQueued /\ t.effectiveRow = s.effectiveRow
        /\ t.array = s.array /\ t.active = s.active
    BY DEF TakeFirst, Channel
  <1>2. /\ ClosesOnce(t.calendar)
        /\ e.kind \notin Closings => Closes(t.calendar) = Closes(s.calendar)
        /\ e.kind \in Closings =>
             e.what \in Closes(s.calendar) /\ Closes(s.calendar) = Closes(t.calendar) \cup {e.what}
        /\ e.kind \in Closings /\ p.UsePrecharge => e.what \notin Closes(t.calendar)
        /\ ~p.UsePrecharge => e.kind \notin {"implicitPrecharge", "closed"}
    BY <1>0, <1>1, PopCloses
  <1> HIDE DEF e
  <1>3. Closes(t.calendar) \subseteq Closes(s.calendar)  BY <1>2
  <1>4. RowsForgotten(t)  BY <1>1 DEF Rows, RowsForgotten
  <1>5. RowsLead(t)
    <2>1. \A b, sa : OpenRow(t, b, sa) = OpenRow(s, b, sa)  BY <1>1 DEF OpenRow
    <2> QED  BY <1>1, <2>1 DEF Rows, RowsLead
  <1>6. ArraysAreClosed(t)  BY ZenonT(60), <1>0, <1>1, <1>3 DEF ArraysAreClosed
  <1>7. ASSUME e.kind \in Closings, p.UsePrecharge PROVE  IsClosing(t, e.what)
    <2>1. e.what \in Closes(s.calendar) /\ e.what \notin Closes(t.calendar)  BY <1>2, <1>7
    <2>2. e.what \in Bank \X SubArray  BY <2>1 DEF Closes
    <2>3. PICK b \in Bank, sa \in SubArray : e.what = <<b, sa>>  BY <2>2
    <2>4. sa \notin s.active[b] /\ s.array[b, sa].state # "closed"
      BY <1>0, <1>7, <2>1, <2>3 DEF ArraysAreClosed
    <2>5. /\ t.active[e.what[1]] = s.active[b] /\ e.what[2] = sa
          /\ t.array[e.what] = s.array[b, sa]
      <3>1. t.array = s.array /\ t.active = s.active  BY <1>1
      <3>2. e.what[1] = b /\ e.what[2] = sa  BY <2>3
      <3>3. s.array[e.what] = s.array[b, sa]  BY <2>3
      <3> QED  BY <3>1, <3>2, <3>3
    <2> QED  BY <2>1, <2>4, <2>5 DEF IsClosing
  <1> QED  BY <1>2, <1>4, <1>5, <1>6, <1>7 DEF Rows, e

\* An implicit precharge keeps a subarray that is closing closing,
LEMMA ImplicitPrechargeRows ==
    ASSUME p.UsePrecharge, NEW s \in Channel, Rows(s), NEW a \in Bank \X SubArray, IsClosing(s, a),
           NEW t, t = StartsClosing(s, a)
    PROVE  Rows(t)
  <1>0. /\ s.calendar \in Calendar /\ ClosesOnce(s.calendar) /\ ArraysAreClosed(s)
        /\ s.array \in [Bank \X SubArray -> ArrayState]
    BY ChannelIs DEF Rows
  <1>1. /\ t.array = [s.array EXCEPT ![a].state = "precharging"]
        /\ t.calendar = InsertEvent(s.calendar, "closed", a, tRP, 0)
        /\ t.cq = s.cq /\ t.activateQueued = s.activateQueued /\ t.effectiveRow = s.effectiveRow
        /\ t.active = s.active
    BY DEF StartsClosing, Channel
  <1>2. ClosesOnce(t.calendar) /\ Closes(t.calendar) = Closes(s.calendar) \cup {a}
    <2> DEFINE places == {a}
               kind == "closed"
    <2>1. Queued(s, t, kind, places, tRP)  BY <1>1, OneQueued
    <2>2. kind \in Closings /\ tRP \in 0..Horizon /\ \A d \in places : d \notin Closes(s.calendar)
      BY Numbers DEF Closings, IsClosing
    <2>3. ClosesOnce(t.calendar) /\ Closes(t.calendar) = Closes(s.calendar) \cup places
      <3> HIDE DEF places, kind
      <3> QED  BY <1>0, <2>1, <2>2, QueuedCloses
    <2> QED  BY <2>3
  <1>3. a[2] \notin t.active[a[1]] /\ t.array[a].state = "precharging"
    <2>1. t.array[a] = [s.array[a] EXCEPT !.state = "precharging"] /\ s.array[a] \in ArrayState
      BY <1>0, <1>1
    <2>2. t.array[a].state = "precharging"  BY <2>1 DEF ArrayState
    <2> QED  BY <1>1, <2>2 DEF IsClosing
  <1>4. ASSUME NEW b \in Bank, NEW sa \in SubArray, <<b, sa>> # a PROVE  SameHere(s, t, b, sa)
    <2>1. t.array[b, sa] = s.array[b, sa]  BY <1>0, <1>1, <1>4
    <2> QED  BY <1>1, <2>1 DEF SameHere
  <1> QED  BY <1>0, <1>1, <1>2, <1>3, <1>4, ClosingRows

\* and its report finds the subarray not active.
LEMMA ClosedRows ==
    ASSUME NEW s \in Channel, Rows(s), NEW a \in Bank \X SubArray,
           p.UsePrecharge => IsClosing(s, a),
           NEW t, p.UsePrecharge => t = HasClosed(s, a), ~p.UsePrecharge => t = StaysOpen(s, a)
    PROVE  Rows(t)
  <1>0. /\ ClosesOnce(s.calendar) /\ ArraysAreClosed(s)
        /\ s.array \in [Bank \X SubArray -> ArrayState] /\ s.array[a] \in ArrayState
    BY ChannelIs DEF Rows
  <1>1. /\ t.calendar = s.calendar /\ t.active = s.active
        /\ t.cq = s.cq /\ t.activateQueued = s.activateQueued /\ t.effectiveRow = s.effectiveRow
    BY DEF HasClosed, StaysOpen, Channel
  <1>2. PICK x : t.array = [s.array EXCEPT ![a] = x] /\ (~p.UsePrecharge => x.row = s.array[a].row)
    <2>1. CASE p.UsePrecharge  BY <2>1 DEF HasClosed, Channel
    <2>2. CASE ~p.UsePrecharge
      <3>1. t.array = [s.array EXCEPT ![a] = [s.array[a] EXCEPT !.state = "open"]]
        BY <1>0, <2>2 DEF StaysOpen, Channel
      <3>2. [s.array[a] EXCEPT !.state = "open"].row = s.array[a].row  BY <1>0 DEF ArrayState
      <3> QED  BY <2>2, <3>1, <3>2
    <2> QED  BY <2>1, <2>2
  <1>3. ASSUME NEW b \in Bank, NEW sa \in SubArray, <<b, sa>> # a PROVE  SameHere(s, t, b, sa)
    <2>1. t.array[b, sa] = s.array[b, sa]  BY <1>0, <1>2, <1>3
    <2> QED  BY <1>1, <2>1 DEF SameHere
  <1>4. PICK b0 \in Bank, sa0 \in SubArray : a = <<b0, sa0>>  OBVIOUS
  <1>5. \A b \in Bank, sa \in SubArray : OpenRow(t, b, sa) = OpenRow(s, b, sa)
    <2>1. ASSUME NEW b \in Bank, NEW sa \in SubArray, <<b, sa>> = a
          PROVE  OpenRow(t, b, sa) = OpenRow(s, b, sa)
      <3>1. CASE p.UsePrecharge  BY <1>1, <2>1, <3>1 DEF OpenRow, IsClosing
      <3>2. CASE ~p.UsePrecharge
        <4>1. t.array[b, sa].row = s.array[b, sa].row  BY <1>0, <1>2, <2>1, <3>2
        <4> QED  BY <1>1, <4>1 DEF OpenRow
      <3> QED  BY <3>1, <3>2
    <2> QED  BY <1>3, <2>1, SameHereRow
  <1>6. ArraysAreClosed(t)
    <2>1. ASSUME p.UsePrecharge, NEW b \in Bank, NEW sa \in SubArray
          PROVE  /\ sa \in t.active[b] =>
                      t.array[b, sa].state = "open" /\ <<b, sa>> \notin Closes(t.calendar)
                 /\ <<b, sa>> \in Closes(t.calendar) => t.array[b, sa].state # "closed"
      <3>1. CASE <<b, sa>> = a  BY <1>1, <2>1, <3>1 DEF IsClosing
      <3>2. CASE <<b, sa>> # a
        BY ZenonT(60), <1>0, <1>1, <1>3, <2>1, <3>2 DEF ArraysAreClosed, SameHere
      <3> QED  BY <3>1, <3>2
    <2> QED  BY <2>1 DEF ArraysAreClosed
  <1>7. RowsForgotten(t) /\ RowsLead(t)  BY <1>1, <1>5 DEF Rows, RowsForgotten, RowsLead
  <1> QED  BY <1>0, <1>1, <1>6, <1>7 DEF Rows

-----------------------------------------------------------------------------
(* The rows agree.                                                         *)

\* Nothing that Rows says depends on the requests.
LEMMA SameRows ==
    ASSUME p' = p, NEW s, Rows(s), ch' = s
    PROVE  RowInv'
  <1>1. \A queue, open, row, b, sa : Leads(queue, open, row, b, sa) => (Leads(queue, open, row, b, sa))'
    BY DEF Leads, Fits
  <1>2. \A b, sa : (GetCommandQueueId(b, sa))' = GetCommandQueueId(b, sa)
    BY DEF GetCommandQueueId
  <1>3. (RowsLead(s))'  BY <1>1, <1>2 DEF Rows, RowsLead
  <1>4. (RowsForgotten(s))' /\ (ClosesOnce(s.calendar))' /\ (ArraysAreClosed(s))'
    <2>1. (RowsForgotten(s))'  BY DEF Rows, RowsForgotten
    <2>2. (ClosesOnce(s.calendar))'
      <3>1. /\ p.UsePrecharge => Sorted(s.calendar, ClosingPairs)
            /\ ~p.UsePrecharge =>
                 \A i \in 0..Horizon : \A e \in Elems(s.calendar[i]) :
                     e.kind \notin {"implicitPrecharge", "closed"}
        BY DEF Rows, ClosesOnce
      <3>2. Sorted(s.calendar, ClosingPairs) => (Sorted(s.calendar, ClosingPairs))'
        <4>1. ClosingPairs' = ClosingPairs  BY SameQueues DEF ClosingPairs, Closings
        <4> QED  BY <4>1 DEF Sorted, Pairs
      <3>3. (\A i \in 0..Horizon : \A e \in Elems(s.calendar[i]) :
                e.kind \notin {"implicitPrecharge", "closed"})
            => (\A i \in 0..Horizon : \A e \in Elems(s.calendar[i]) :
                e.kind \notin {"implicitPrecharge", "closed"})'
        OBVIOUS
      <3> QED  BY <3>1, <3>2, <3>3 DEF ClosesOnce
    <2>3. (ArraysAreClosed(s))'  BY DEF Rows, ArraysAreClosed
    <2> QED  BY <2>1, <2>2, <2>3
  <1>5. (Rows(s))'  BY <1>3, <1>4 DEF Rows
  <1> QED  BY <1>5 DEF RowInv

\* Nothing is open and nothing is queued.
LEMMA InitRows ==
    ASSUME Init
    PROVE  RowInv
  <1>1. /\ p \in Params /\ ch.cq = [q \in Queues |-> <<>>]
        /\ ch.activateQueued = [b \in Bank |-> FALSE]
        /\ ch.effectiveRow = [a \in Bank \X SubArray |-> ROWS]
        /\ ch.active = [b \in Bank |-> {}] /\ ch.calendar = [i \in 0..Horizon |-> <<>>]
    BY DEF Init
  <1>2. /\ Elems(<<>>) = {} /\ \A R : Pairs(<<>>, R)  BY DEF Elems, Pairs
  <1>3. \A i \in 0..Horizon : ch.calendar[i] = <<>> /\ Elems(ch.calendar[i]) = {}  BY <1>1, <1>2
  <1>4. Closes(ch.calendar) = {}  BY <1>3 DEF Closes
  <1>5. ClosesOnce(ch.calendar)  BY <1>2, <1>3 DEF ClosesOnce, Sorted
  <1>6. RowsForgotten(ch)
    <2>1. \A b \in Bank, sa \in SubArray : ch.effectiveRow[b, sa] = ROWS  BY <1>1
    <2> QED  BY <2>1 DEF RowsForgotten
  <1>7. RowsLead(ch)
    <2>1. ASSUME NEW b \in Bank, NEW sa \in SubArray
          PROVE  /\ ch.cq[GetCommandQueueId(b, sa)] = <<>>
                 /\ OpenRow(ch, b, sa) = ROWS /\ ch.effectiveRow[b, sa] = ROWS
      <3>1. GetCommandQueueId(b, sa) \in Queues  BY <1>1, QueuesAre
      <3>2. sa \notin ch.active[b]  BY <1>1
      <3>3. ch.effectiveRow[b, sa] = ROWS  BY <1>1
      <3> QED  BY <1>1, <3>1, <3>2, <3>3 DEF OpenRow
    <2>2. \A b, sa : Leads(<<>>, ROWS, ROWS, b, sa)  BY NoneLeads
    <2> QED  BY <2>1, <2>2 DEF RowsLead
  <1>8. ArraysAreClosed(ch)
    <2>1. \A b \in Bank : ch.active[b] = {}  BY <1>1
    <2> QED  BY <1>4, <2>1 DEF ArraysAreClosed
  <1> QED  BY <1>5, <1>6, <1>7, <1>8 DEF Rows, RowInv

\* Each event keeps the rows in agreement.
LEMMA RunEventRows ==
    ASSUME QueuesHoldBanks, IInv, Rows(ch), RunEvent
    PROVE  RowInv'
  <1>0. /\ ch.calendar[0] # <<>> /\ p' = p
    BY DEF RunEvent, RunCycle, RunCommandQueues, RunCleanup, RunRefresh, RunResponse,
           RunImplicitPrecharge, RunClosed, RunRefreshed, Running, Handle
  <1>1. /\ Submitted /\ Good(ch) /\ Popped \in Channel /\ ch.calendar[0][1] \in Event
        /\ ch.calendar[0][1].kind # "response" => Good(Popped)
        /\ ch.calendar[0][1].kind # "CleanupCallback" => Cleaned(Popped)
    BY <1>0, PoppedIs
  <1>2. PICK u : u = Popped  OBVIOUS
  <1>3. PICK t : ch' = t  OBVIOUS
  <1>4. /\ Rows(u) /\ u \in Channel
        /\ ch.calendar[0][1].kind \in Closings /\ p.UsePrecharge => IsClosing(u, About)
        /\ ~p.UsePrecharge => ch.calendar[0][1].kind \notin {"implicitPrecharge", "closed"}
    <2>1. u = TakeFirst(ch) /\ ch \in Channel  BY <1>1, <1>2 DEF Popped, TakeFirst, Good
    <2>2. PICK s : s = ch  OBVIOUS
    <2>3. s \in Channel /\ s.calendar[0] # <<>> /\ Rows(s) /\ u = TakeFirst(s)
      BY <1>0, <2>1, <2>2
    <2>4. /\ Rows(u)
          /\ s.calendar[0][1].kind \in Closings /\ p.UsePrecharge =>
               IsClosing(u, s.calendar[0][1].what)
          /\ ~p.UsePrecharge => s.calendar[0][1].kind \notin {"implicitPrecharge", "closed"}
      BY <2>3, PopRows
    <2> QED  BY <1>1, <1>2, <2>2, <2>4 DEF About
  <1>5. SUFFICES Rows(t)  BY <1>0, <1>3, SameRows
  <1>6. CASE RunCycle
    <2>1. Good(u) /\ Cleaned(u) /\ t = Cycle(u)
      BY <1>1, <1>2, <1>3, <1>6 DEF RunCycle, Running, Handle
    <2> QED  BY <1>1, <1>4, <2>1, CycleRows
  <1>7. CASE RunCommandQueues
    <2>1. Good(u) /\ Cleaned(u) /\ t = CommandQueueCallback(u)
      BY <1>1, <1>2, <1>3, <1>7 DEF RunCommandQueues, Running, Handle
    <2> QED  BY <1>1, <1>4, <2>1, CommandQueueCallbackRows
  <1>8. CASE RunCleanup
    <2>1. t = CleanupCallback(u)  BY <1>2, <1>3, <1>8 DEF RunCleanup, Handle
    <2> QED  BY <1>1, <1>4, <2>1, CleanupRows
  <1>9. CASE RunRefresh
    <2>1. Good(u) /\ t = RefreshCallback(u, About) /\ About \in Groups
      BY <1>1, <1>2, <1>3, <1>9, EventIs DEF RunRefresh, Running, Handle, About
    <2> QED  BY <1>1, <1>4, <2>1, RefreshCallbackRows
  <1>10. CASE RunResponse
    <2>1. t = Hears(u, About)  BY <1>2, <1>3, <1>10 DEF RunResponse, Handle, Hears
    <2>2. /\ t.cq = u.cq /\ t.activateQueued = u.activateQueued /\ t.effectiveRow = u.effectiveRow
          /\ t.calendar = u.calendar /\ t.array = u.array /\ t.active = u.active
      BY <1>4, <2>1 DEF Hears, Channel
    <2> QED  BY <1>4, <2>2, StandingRows
  <1>11. CASE RunImplicitPrecharge
    <2>1. ch.calendar[0][1].kind = "implicitPrecharge" /\ t = StartsClosing(u, About)
      BY <1>2, <1>3, <1>11 DEF RunImplicitPrecharge, Running, Handle, StartsClosing
    <2>2. p.UsePrecharge /\ IsClosing(u, About) /\ About \in Bank \X SubArray
      BY <1>1, <1>4, <2>1, EventIs DEF Closings, About
    <2> QED  BY <1>4, <2>1, <2>2, ImplicitPrechargeRows
  <1>12. CASE RunClosed
    <2>1. ch.calendar[0][1].kind = "closed" /\ t = HasClosed(u, About)
      BY <1>2, <1>3, <1>12 DEF RunClosed, Running, Handle, HasClosed
    <2>2. p.UsePrecharge /\ IsClosing(u, About) /\ About \in Bank \X SubArray
      BY <1>1, <1>4, <2>1, EventIs DEF Closings, About
    <2> QED  BY <1>4, <2>1, <2>2, ClosedRows
  <1>13. CASE RunRefreshed
    <2>1. ch.calendar[0][1].kind = "refreshed"  BY <1>13 DEF RunRefreshed, Running
    <2>2. (p.UsePrecharge => IsClosing(u, About)) /\ About \in Bank \X SubArray
      BY <1>1, <1>4, <2>1, EventIs DEF Closings, About
    <2>3. p.UsePrecharge => t = HasClosed(u, About)
      BY <1>2, <1>3, <1>13 DEF RunRefreshed, Handle, HasClosed
    <2>4. ~p.UsePrecharge => t = StaysOpen(u, About)
      BY <1>2, <1>3, <1>13 DEF RunRefreshed, Handle, StaysOpen
    <2> QED  BY <1>4, <2>2, <2>3, <2>4, ClosedRows
  <1> QED  BY <1>6, <1>7, <1>8, <1>9, <1>10, <1>11, <1>12, <1>13 DEF RunEvent

\* A new request touches no row,
LEMMA SubmitRows ==
    ASSUME IInv, Rows(ch), Submit
    PROVE  RowInv'
  <1>0. Submitted /\ Good(ch) /\ p' = p /\ ch \in Channel  BY DEF IInv, Submit, Good
  <1>1. PICK a \in Address : \E writes, u : Submits(a, writes, u)  BY <1>0, SubmitIs
  <1>2. PICK writes, u : Submits(a, writes, u)  BY <1>1
  <1>3. Nudges(ch, u)  BY <1>2 DEF Submits
  <1>4. Rows(u) /\ u \in Channel  BY <1>0, <1>3, NudgeRows, NudgeKeeps DEF Good
  <1>5. PICK n, t : n = Len(address) + 1 /\ ch' = t  OBVIOUS
  <1>6. t = [u EXCEPT !.arrived = @ \cup {n}, !.writes = writes, !.tq = Append(@, n)]
    BY <1>2, <1>5 DEF Submits
  <1>7. /\ t.cq = u.cq /\ t.activateQueued = u.activateQueued /\ t.effectiveRow = u.effectiveRow
        /\ t.calendar = u.calendar /\ t.array = u.array /\ t.active = u.active
    BY ZenonT(60), <1>4, <1>6 DEF Channel
  <1>8. Rows(t)  BY <1>4, <1>7, StandingRows
  <1> QED  BY <1>0, <1>5, <1>8, SameRows

\* nor does the end of the trace,
LEMMA EndTraceRows ==
    ASSUME IInv, Rows(ch), EndTrace
    PROVE  RowInv'
  <1>0. ch \in Channel /\ p' = p /\ ch' = [ch EXCEPT !.force_drain = TRUE]
    BY DEF IInv, EndTrace, Good
  <1>1. PICK t : ch' = t  OBVIOUS
  <1>2. /\ t.cq = ch.cq /\ t.activateQueued = ch.activateQueued /\ t.effectiveRow = ch.effectiveRow
        /\ t.calendar = ch.calendar /\ t.array = ch.array /\ t.active = ch.active
    BY <1>0, <1>1 DEF Channel
  <1>3. Rows(t)  BY <1>2, StandingRows
  <1> QED  BY <1>0, <1>1, <1>3, SameRows

\* nor does time.
LEMMA NextCycleRows ==
    ASSUME IInv, Rows(ch), Tick
    PROVE  RowInv'
  <1>0. Submitted /\ ch \in Channel /\ p' = p /\ ch.calendar[0] = <<>>  BY DEF IInv, Tick, Good
  <1>1. PICK t : ch' = t  OBVIOUS
  <1>2. t = Ticked(ch)  BY <1>1 DEF Tick, Ticked
  <1>3. Rows(t)  BY <1>0, <1>2, TickRows
  <1> QED  BY <1>0, <1>1, <1>3, SameRows

\* The rows the controller believes open are those the banks will have open when they have carried
\* out what is queued, and every command that is queued will fit, where one queue holds the
\* commands of a bank that is precharged.
THEOREM RowsAreAgreed == QueuesHoldBanks => (Spec => []RowsAgree)
  <1> SUFFICES ASSUME QueuesHoldBanks PROVE Spec => []RowsAgree
    OBVIOUS
  <1>1. Init => RowInv  BY InitRows
  <1>2. IInv /\ RowInv /\ [Next]_vars => RowInv'
    <2> SUFFICES ASSUME IInv, RowInv, [Next]_vars PROVE RowInv'
      OBVIOUS
    <2>0. Rows(ch)  BY DEF RowInv
    <2>1. CASE Submit  BY <2>0, <2>1, SubmitRows
    <2>2. CASE EndTrace  BY <2>0, <2>2, EndTraceRows
    <2>3. CASE RunEvent  BY <2>0, <2>3, RunEventRows
    <2>4. CASE Tick  BY <2>0, <2>4, NextCycleRows
    <2>5. CASE UNCHANGED vars
      <3>1. p' = p /\ ch' = ch  BY <2>5 DEF vars
      <3>2. PICK s : s = ch  OBVIOUS
      <3> QED  BY <2>0, <3>1, <3>2, SameRows
    <2> QED  BY <2>1, <2>2, <2>3, <2>4, <2>5 DEF Next
  <1>3. RowInv => RowsAgree  BY DEF RowInv, Rows, RowsLead, RowsAgree
  <1> QED  BY <1>1, <1>2, <1>3, ChannelIsGood, PTL DEF Spec

-----------------------------------------------------------------------------
(* Waking: no queue is left without an event that looks at it.             *)

\* A calendar that has everything another has, and perhaps more.
Grows(old, new) == \A i \in 0..Horizon : Elems(old[i]) \subseteq Elems(new[i])

\* The members of a cycle are what Scheduled looks through.
LEMMA HoldsIs ==
    ASSUME NEW calendar \in Calendar, NEW kind, NEW when \in 0..Horizon
    PROVE  Holds(calendar, kind, when) <=> Scheduled(calendar, kind, when)
  <1>1. calendar[when] \in Seq(Event) /\ DOMAIN calendar[when] = 1..Len(calendar[when])
    BY DEF Calendar
  <1> QED  BY <1>1 DEF Holds, Scheduled, Elems

\* What is to come still comes in a calendar that has more.
LEMMA GrowthKeeps ==
    ASSUME NEW old, NEW new, Grows(old, new)
    PROVE  /\ WakeComes(old) => WakeComes(new)
           /\ CycleComes(old) => CycleComes(new)
  <1>1. \A kind : \A i \in 0..Horizon : Holds(old, kind, i) => Holds(new, kind, i)
    BY DEF Grows, Holds
  <1>2. WakeComes(old) => WakeComes(new)  BY <1>1 DEF WakeComes
  <1>3. CycleComes(old) => CycleComes(new)  BY <1>1, Numbers DEF CycleComes
  <1> QED  BY <1>2, <1>3

\* Calendars grow step by step.
LEMMA GrowsOn ==
    ASSUME NEW old, NEW mid, NEW new, Grows(old, mid), Grows(mid, new)
    PROVE  Grows(old, new)
  BY DEF Grows

\* An insertion takes nothing away, and what it inserts is there,
LEMMA InsertGrows ==
    ASSUME NEW old \in Calendar, NEW when \in 0..Horizon, NEW block \in Seq(Event),
           NEW priority, NEW n, NEW new, Inserted(old, when, block, priority, n, new)
    PROVE  /\ Grows(old, new)
           /\ \A e \in Elems(block) : Holds(new, e.kind, when)
  <1>1. \A i \in 0..Horizon :
           /\ i = when => Elems(new[i]) = Elems(old[i]) \cup Elems(block)
           /\ i # when => Elems(new[i]) = Elems(old[i])
    BY InsertedElems
  <1>2. Grows(old, new)  BY <1>1 DEF Grows
  <1>3. Elems(block) \subseteq Elems(new[when])  BY <1>1
  <1> QED  BY <1>2, <1>3 DEF Holds

\* Events of a kind that are inserted for some objects at a time.
LEMMA TypedGrows ==
    ASSUME NEW old \in Calendar, NEW when \in 0..Horizon, NEW kind, NEW what, NEW priority \in Int,
           TypedEvent(kind, what) \in Event, NEW new, new = InsertEvent(old, kind, what, when, priority)
    PROVE  new \in Calendar /\ Grows(old, new) /\ Holds(new, kind, when)
  <1> DEFINE e == TypedEvent(kind, what)
             block == <<e>>
  <1>1. block \in Seq(Event) /\ Elems(block) = {e} /\ e.kind = kind  BY DEF TypedEvent, Elems
  <1>2. e \in Event /\ e = TypedEvent(kind, what) /\ block = <<e>>  OBVIOUS
  <1> HIDE DEF block, e
  <1>3. PICK n \in 0..Len(old[when]) : Inserted(old, when, block, priority, n, new)
    BY <1>2, TypedInserts
  <1>4. Grows(old, new) /\ \A f \in Elems(block) : Holds(new, f.kind, when)
    BY <1>1, <1>3, InsertGrows
  <1>5. new \in Calendar  BY <1>3 DEF Inserted
  <1> QED  BY <1>1, <1>4, <1>5

\* a callback too,
LEMMA CallbackGrows ==
    ASSUME NEW old \in Calendar, NEW when \in 0..Horizon, NEW kind, NEW priority \in Int,
           Callback(kind, None, priority) \in Event,
           NEW new, new = InsertCallback(old, kind, None, when, priority)
    PROVE  Grows(old, new) /\ Holds(new, kind, when)
  <1> DEFINE e == Callback(kind, None, priority)
             block == <<e>>
  <1>1. block \in Seq(Event) /\ Elems(block) = {e} /\ e.kind = kind  BY DEF Callback, Elems
  <1>2. new = [old EXCEPT ![when] = Place(@, block, priority)]  BY DEF InsertCallback
  <1> HIDE DEF block, e
  <1>3. PICK n \in 0..Len(old[when]) : Inserted(old, when, block, priority, n, new)
    BY <1>1, <1>2, InsertedIs
  <1>4. Grows(old, new) /\ \A f \in Elems(block) : Holds(new, f.kind, when)
    BY <1>1, <1>3, InsertGrows
  <1> QED  BY <1>1, <1>4

\* and those for several subarrays.
LEMMA QueuedGrows ==
    ASSUME NEW s, s.calendar \in Calendar, NEW t, NEW kind \in Closings, NEW places,
           NEW when \in 0..Horizon, Queued(s, t, kind, places, when)
    PROVE  Grows(s.calendar, t.calendar)
  <1> DEFINE new == t.calendar
  <1>1. PICK whats \in Seq(Bank \X SubArray) : new = InsertEvents(s.calendar, kind, whats, when, 0)
    BY DEF Queued
  <1> HIDE DEF new
  <1>2. PICK n : \E block \in Seq(Event) : Inserted(s.calendar, when, block, 0, n, new)
    BY <1>1, ClosingsInsert
  <1>3. PICK block \in Seq(Event) : Inserted(s.calendar, when, block, 0, n, new)  BY <1>2
  <1>4. Grows(s.calendar, new)  BY <1>3, InsertGrows
  <1> QED  BY <1>4 DEF new

\* What only wakes the controller leaves the queues alone.
LEMMA NudgeGrows ==
    ASSUME NEW s \in Channel, NEW t, Nudges(s, t)
    PROVE  Grows(s.calendar, t.calendar) /\ t.cq = s.cq /\ t.tq = s.tq
  <1>0. s.calendar \in Calendar  BY ChannelIs
  <1>1. CASE t = s  BY <1>1 DEF Grows
  <1>2. CASE t # s
    <2>1. /\ t = [s EXCEPT !.calendar = t.calendar]
          /\ \E when \in 0..Horizon, priority \in Nat, e \in Event : \E n :
               Inserted(s.calendar, when, <<e>>, priority, n, t.calendar)
      BY <1>2 DEF Nudges
    <2>2. PICK when \in 0..Horizon, priority \in Nat, e \in Event : \E n :
               Inserted(s.calendar, when, <<e>>, priority, n, t.calendar)
      BY <2>1
    <2>3. PICK n : Inserted(s.calendar, when, <<e>>, priority, n, t.calendar)  BY <2>2
    <2> DEFINE block == <<e>>
    <2>4. block \in Seq(Event) /\ Inserted(s.calendar, when, block, priority, n, t.calendar)
      BY <2>3
    <2> HIDE DEF block
    <2>5. Grows(s.calendar, t.calendar)  BY <1>0, <2>4, InsertGrows
    <2> QED  BY <2>1, <2>5 DEF Channel
  <1> QED  BY <1>1, <1>2

-----------------------------------------------------------------------------
(* Waking and issuing.                                                     *)

\* ScheduleCommandWake leaves a wake behind wherever there are commands,
LEMMA ScheduleWakes ==
    ASSUME Submitted, NEW s \in Channel, NEW t, t = ScheduleCommandWake(s)
    PROVE  Woken(t)
  <1> DEFINE when == NextIssuable(s)
  <1>1. Nudges(s, t)  BY WakeNudges
  <1>2. Grows(s.calendar, t.calendar) /\ t.cq = s.cq /\ s.calendar \in Calendar
    BY <1>1, NudgeGrows, ChannelIs
  <1>3. SUFFICES ASSUME HasCommands(t) PROVE  WakeComes(t.calendar)
    BY DEF Woken
  <1>4. when # Never /\ when \in 0..Horizon
    <2>1. \E b \in Bank : s.cq[GetCommandQueueId(b, 0)] # <<>>  BY <1>2, <1>3 DEF HasCommands
    <2> QED  BY <2>1, NextIssuableIs
  <1>5. CASE Scheduled(s.calendar, "CommandQueueCallback", when)
    <2>1. Holds(s.calendar, "CommandQueueCallback", when)  BY <1>2, <1>4, <1>5, HoldsIs
    <2>2. WakeComes(s.calendar)  BY <1>4, <2>1 DEF WakeComes
    <2> QED  BY <1>2, <2>2, GrowthKeeps
  <1>6. CASE ~Scheduled(s.calendar, "CommandQueueCallback", when)
    <2>1. t = [s EXCEPT !.calendar = InsertCallback(@, "CommandQueueCallback", None, when,
                                                    commandQueuePriority)]
      BY <1>4, <1>6 DEF ScheduleCommandWake
    <2> HIDE DEF when
    <2>2. t.calendar = InsertCallback(s.calendar, "CommandQueueCallback", None, when,
                                      commandQueuePriority)
      BY <2>1 DEF Channel
    <2>3. Callback("CommandQueueCallback", None, commandQueuePriority) \in Event
          /\ commandQueuePriority \in Int
      BY DEF Event, Callback, commandQueuePriority
    <2>4. Holds(t.calendar, "CommandQueueCallback", when)
      BY <1>2, <1>4, <2>2, <2>3, CallbackGrows
    <2> QED  BY <1>4, <2>4 DEF WakeComes
  <1> QED  BY <1>5, <1>6

\* and Recheck an event that calls the scheduler wherever one may take something.
LEMMA RecheckCalls ==
    ASSUME NEW s \in Channel, NEW t, t = Recheck(s)
    PROVE  Called(t)
  <1>0. s.calendar \in Calendar /\ 1 \in 0..Horizon  BY ChannelIs, Numbers
  <1>1. t.cq = s.cq /\ t.tq = s.tq
    <2>1. Nudges(s, t)  BY RecheckNudges
    <2> QED  BY <2>1, NudgeGrows
  <1>2. SUFFICES ASSUME NEW q \in Queues, Idle(t, q) PROVE  CycleComes(t.calendar)
    BY DEF Called
  <1>3. EffectivelyEmpty(s, q) /\ TransactionAvailable(s, q)
    BY <1>1, <1>2 DEF Idle, EffectivelyEmpty, TransactionAvailable
  <1>4. CASE Scheduled(s.calendar, "Cycle", 1)
    <2>1. t = s  BY <1>4 DEF Recheck
    <2> QED  BY <1>0, <1>4, <2>1, HoldsIs DEF CycleComes
  <1>5. CASE ~Scheduled(s.calendar, "Cycle", 1)
    <2>1. t = [s EXCEPT !.calendar = InsertEvent(@, "Cycle", None, 1, transactionQueuePriority)]
      BY <1>3, <1>5 DEF Recheck
    <2>2. t.calendar = InsertEvent(s.calendar, "Cycle", None, 1, transactionQueuePriority)
      BY <2>1 DEF Channel
    <2>3. TypedEvent("Cycle", None) \in Event /\ transactionQueuePriority \in Int
      BY DEF Event, TypedEvent, StoredDefault, transactionQueuePriority
    <2>4. Holds(t.calendar, "Cycle", 1)  BY <1>0, <2>2, <2>3, TypedGrows
    <2> QED  BY <2>4 DEF CycleComes
  <1> QED  BY <1>4, <1>5

\* The answer to a read is inserted,
LEMMA AnswerGrows ==
    ASSUME NEW old \in Calendar, NEW r \in Req, NEW new,
           new = InsertEvent(old, "response", r, tCAS, 0)
    PROVE  Grows(old, new)
  <1>1. TypedEvent("response", r) \in Event /\ tCAS \in 0..Horizon /\ 0 \in Int
    BY Numbers DEF TypedEvent, Event, StoredDefault
  <1> QED  BY <1>1, TypedGrows

\* after the start of an implicit precharge,
LEMMA ReadGrows ==
    ASSUME Submitted, NEW s \in Channel, NEW c \in Command, c.op \in Reads, NEW x, CommandFits(x, c),
           NEW t, t = Read(s, c)
    PROVE  Grows(s.calendar, t.calendar)
  <1>0. s.calendar \in Calendar /\ At(c.at) \in Bank \X SubArray /\ c.of \in Req
    <2>1. c.of \in Known  BY DEF CommandFits
    <2> QED  BY <2>1, ChannelIs, CommandIs DEF Submitted
  <1> DEFINE new == t.calendar
  <1>1. /\ c.op = "READ_PRECHARGE" =>
             new = InsertEvent(InsertEvent(s.calendar, "implicitPrecharge", At(c.at), tRTP, 0),
                               "response", c.of, tCAS, 0)
        /\ c.op # "READ_PRECHARGE" => new = InsertEvent(s.calendar, "response", c.of, tCAS, 0)
    BY ReadIs
  <1> HIDE DEF new
  <1>2. CASE c.op # "READ_PRECHARGE"  BY <1>0, <1>1, <1>2, AnswerGrows DEF new
  <1>3. CASE c.op = "READ_PRECHARGE"
    <2> DEFINE mid == InsertEvent(s.calendar, "implicitPrecharge", At(c.at), tRTP, 0)
    <2>1. /\ TypedEvent("implicitPrecharge", At(c.at)) \in Event /\ tRTP \in 0..Horizon /\ 0 \in Int
      BY <1>0, Numbers DEF TypedEvent, Event, StoredDefault, Closings
    <2>2. mid \in Calendar /\ Grows(s.calendar, mid)  BY <1>0, <2>1, TypedGrows
    <2>3. new = InsertEvent(mid, "response", c.of, tCAS, 0)  BY <1>1, <1>3
    <2> HIDE DEF mid
    <2>4. Grows(mid, new)  BY <1>0, <2>2, <2>3, AnswerGrows
    <2> QED  BY <2>2, <2>4, GrowsOn DEF new
  <1> QED  BY <1>2, <1>3

\* and so is what any other command brings about,
LEMMA IssueCommandGrows ==
    ASSUME Submitted, NEW s \in Channel, NEW c \in Command, NEW x, CommandFits(x, c),
           NEW t, t = IssueCommand(s, c)
    PROVE  Grows(s.calendar, t.calendar)
  <1>0. /\ c.at.bank \in Bank /\ c.at.sa \in SubArray /\ c.at.row \in 0..ROWS
        /\ c.op \in {"ACTIVATE", "READ", "READ_PRECHARGE", "PRECHARGE", "PRECHARGE_ALL", "REFRESH"}
        /\ s.active \in [Bank -> SUBSET SubArray] /\ s.calendar \in Calendar /\ p \in Params
    BY ChannelIs, CommandIs DEF Submitted
  <1>1. CASE c.op = "ACTIVATE"
    <2>1. t = Activate(s, c)  BY <1>1 DEF IssueCommand
    <2>2. t.calendar = s.calendar  BY <1>0, <2>1, ActivateIs
    <2> QED  BY <2>2 DEF Grows
  <1>2. CASE c.op \in Reads
    <2>1. t = Read(s, c)  BY <1>2 DEF IssueCommand, Reads
    <2> QED  BY <1>2, <2>1, ReadGrows
  <1>3. ASSUME NEW closing \in SUBSET SubArray, t = Precharge(s, c.at.bank, closing)
        PROVE  Grows(s.calendar, t.calendar)
    <2>1. MAX(1, tRP) \in 1..Horizon
          /\ Queued(s, t, "closed", {c.at.bank} \X closing, MAX(1, tRP))
      BY <1>0, <1>3, PrechargeIs
    <2>2. MAX(1, tRP) \in 0..Horizon /\ "closed" \in Closings  BY <2>1, Numbers DEF Closings
    <2> QED  BY <1>0, <2>1, <2>2, QueuedGrows
  <1>4. CASE c.op = "PRECHARGE"
    <2>1. t = Precharge(s, c.at.bank, {c.at.sa}) /\ {c.at.sa} \in SUBSET SubArray
      BY <1>0, <1>4 DEF IssueCommand
    <2> QED  BY <1>3, <2>1
  <1>5. CASE c.op = "PRECHARGE_ALL"
    <2>1. t = Precharge(s, c.at.bank, s.active[c.at.bank]) /\ s.active[c.at.bank] \in SUBSET SubArray
      BY <1>0, <1>5 DEF IssueCommand
    <2> QED  BY <1>3, <2>1
  <1>6. CASE c.op = "REFRESH"
    <2>1. t = Refresh(s, Group(c.at.bank)) /\ Group(c.at.bank) \in SUBSET Bank
      BY <1>0, <1>6, GroupsAre DEF IssueCommand
    <2>2. Queued(s, t, "refreshed", Group(c.at.bank) \X {0}, tRFC)  BY <2>1, RefreshIs
    <2>3. tRFC \in 0..Horizon /\ "refreshed" \in Closings  BY Numbers DEF Closings
    <2> QED  BY <1>0, <2>2, <2>3, QueuedGrows
  <1> QED  BY <1>0, <1>1, <1>2, <1>4, <1>5, <1>6 DEF Reads

\* and the cleanup.
LEMMA CleanupSoonGrows ==
    ASSUME NEW t \in Channel, NEW u, u = CleanupSoon(t)
    PROVE  Grows(t.calendar, u.calendar)
  <1>0. t.calendar \in Calendar /\ 1 \in 0..Horizon  BY ChannelIs, Numbers
  <1>1. u.calendar = IF Scheduled(t.calendar, "CleanupCallback", 1) THEN t.calendar
                     ELSE InsertCallback(t.calendar, "CleanupCallback", None, 1, cleanupPriority)
    BY DEF CleanupSoon, Channel
  <1>2. CASE Scheduled(t.calendar, "CleanupCallback", 1)  BY <1>1, <1>2 DEF Grows
  <1>3. CASE ~Scheduled(t.calendar, "CleanupCallback", 1)
    <2>1. Callback("CleanupCallback", None, cleanupPriority) \in Event /\ cleanupPriority \in Int
      BY DEF Event, Callback, cleanupPriority
    <2>2. u.calendar = InsertCallback(t.calendar, "CleanupCallback", None, 1, cleanupPriority)
      BY <1>1, <1>3
    <2> QED  BY <1>0, <2>1, <2>2, CallbackGrows
  <1> QED  BY <1>2, <1>3

\* What issuing a head does to the queues and the calendar.
LEMMA IssueHeadGrows ==
    ASSUME Submitted, NEW s, Good(s), Cleaned(s), ~s.issuedNow,
           NEW x \in Queues, s.cq[x] # <<>>, NEW v, v = IssueHead(s, x)
    PROVE  /\ Grows(s.calendar, v.calendar) /\ v.tq = s.tq
           /\ v.cq = [s.cq EXCEPT ![x] = Issue(@)]
           /\ Len(s.cq[x]) = 1 /\ TransactionAvailable(s, x) => CycleComes(v.calendar)
  <1> DEFINE c == s.cq[x][1]
  <1>0. s \in Channel /\ s.cq \in [Queues -> Seq(Command)] /\ CommandsFit(s)
    BY ChannelIs DEF Good
  <1>1. c \in Command /\ CommandFits(x, c)
    <2>1. c \in Command /\ c \in Elems(s.cq[x])  BY <1>0, TailIs DEF Elems
    <2> QED  BY <1>0, <2>1 DEF CommandsFit
  <1>2. PICK t, u, w : IssuingHead(s, x, t, u, w, v)  BY IssueHeadIs
  <1>3. /\ t = IssueCommand(s, c) /\ t \in Channel /\ u = CleanupSoon(t) /\ u \in Channel
        /\ BanksOnly(s, u) /\ w = HeadIssued(s, x, u) /\ w \in Channel /\ Nudges(w, v)
    BY <1>2 DEF IssuingHead, Good
  <1> HIDE DEF c
  <1>4. Grows(s.calendar, u.calendar)
    <2>1. Grows(s.calendar, t.calendar)  BY <1>0, <1>1, <1>3, IssueCommandGrows
    <2>2. Grows(t.calendar, u.calendar)  BY <1>3, CleanupSoonGrows
    <2> QED  BY <2>1, <2>2, GrowsOn
  <1>5. w.calendar = u.calendar /\ w.tq = s.tq /\ w.cq = [s.cq EXCEPT ![x] = Issue(@)]
    BY <1>0, <1>3 DEF HeadIssued, BanksOnly, Channel
  <1>6. Grows(w.calendar, v.calendar) /\ v.cq = w.cq /\ v.tq = w.tq  BY <1>3, NudgeGrows
  <1>7. Grows(s.calendar, v.calendar)
    <2>1. Grows(u.calendar, v.calendar)  BY <1>5, <1>6
    <2> QED  BY <1>4, <2>1, GrowsOn
  <1>8. ASSUME Len(s.cq[x]) = 1, TransactionAvailable(s, x) PROVE  CycleComes(v.calendar)
    <2>1. v.calendar = InsertEvent(u.calendar, "Cycle", None, 1, transactionQueuePriority)
      <3>1. u.calendar = IF Scheduled(t.calendar, "CleanupCallback", 1) THEN t.calendar
                         ELSE InsertCallback(t.calendar, "CleanupCallback", None, 1, cleanupPriority)
        BY <1>3 DEF CleanupSoon, Channel
      <3>2. t = IssueCommand(s, s.cq[x][1])  BY <1>3 DEF c
      <3>3. DOMAIN t = DOMAIN s /\ "calendar" \in DOMAIN t  BY <1>0, <1>3 DEF Channel
      <3> DEFINE cleaned == IF Scheduled(t.calendar, "CleanupCallback", 1) THEN t.calendar
                            ELSE InsertCallback(t.calendar, "CleanupCallback", None, 1, cleanupPriority)
      <3>4. v = [t EXCEPT
                   !.cq[x][1].issued = TRUE,
                   !.refreshQueued = RefreshDone(@, s.cq[x][1]),
                   !.issuedNow = TRUE,
                   !.curQueue = MoveCurrentQueue(@),
                   !.calendar = InsertEvent(cleaned, "Cycle", None, 1, transactionQueuePriority)]
        BY <1>8, <3>2, Zenon DEF IssueHead
      <3> HIDE DEF cleaned
      <3>5. v.calendar = InsertEvent(cleaned, "Cycle", None, 1, transactionQueuePriority)
        BY <3>3, <3>4
      <3> QED  BY <3>1, <3>5 DEF cleaned
    <2>2. TypedEvent("Cycle", None) \in Event /\ transactionQueuePriority \in Int
      BY DEF Event, TypedEvent, StoredDefault, transactionQueuePriority
    <2>3. u.calendar \in Calendar /\ 1 \in 0..Horizon  BY <1>3, ChannelIs, Numbers
    <2>4. Holds(v.calendar, "Cycle", 1)  BY <2>1, <2>2, <2>3, TypedGrows
    <2> QED  BY <2>4 DEF CycleComes
  <1> QED  BY <1>5, <1>6, <1>7, <1>8

\* A head that is issued stays in its queue; if it is the last, the scheduler is called.
LEMMA IssueHeadWakes ==
    ASSUME Submitted, NEW s, Good(s), Cleaned(s), ~s.issuedNow,
           NEW x \in Queues, s.cq[x] # <<>>, NEW v, v = IssueHead(s, x)
    PROVE  /\ Woken(s) => Woken(v)
           /\ Called(s) => Called(v)
  <1>0. s \in Channel /\ s.cq \in [Queues -> Seq(Command)] /\ p \in Params
    BY ChannelIs DEF Good, Submitted
  <1>1. /\ Grows(s.calendar, v.calendar) /\ v.tq = s.tq
        /\ v.cq = [s.cq EXCEPT ![x] = Issue(@)]
        /\ Len(s.cq[x]) = 1 /\ TransactionAvailable(s, x) => CycleComes(v.calendar)
    BY IssueHeadGrows
  <1>2. /\ \A q \in Queues : q # x => v.cq[q] = s.cq[q]
        /\ v.cq[x] = Issue(s.cq[x]) /\ Len(v.cq[x]) = Len(s.cq[x]) /\ v.cq[x] # <<>>
    <2>1. /\ Issue(s.cq[x]) \in Seq(Command) /\ Len(Issue(s.cq[x])) = Len(s.cq[x])
          /\ Len(s.cq[x]) \in Nat /\ 1 \in DOMAIN s.cq[x] /\ DOMAIN s.cq[x] = 1..Len(s.cq[x])
      BY <1>0, IssueIs
    <2>2. Issue(s.cq[x]) # <<>>  BY <2>1
    <2> QED  BY <1>0, <1>1, <2>1, <2>2
  <1>3. ASSUME Woken(s) PROVE  Woken(v)
    <2>1. HasCommands(v) => HasCommands(s)
      <3>1. \A b \in Bank : GetCommandQueueId(b, 0) \in Queues  BY <1>0, QueuesAre, Sizes
      <3> QED  BY <1>2, <3>1 DEF HasCommands
    <2> QED  BY <1>1, <1>3, <2>1, GrowthKeeps DEF Woken
  <1>4. ASSUME Called(s), NEW q \in Queues, Idle(v, q) PROVE  CycleComes(v.calendar)
    <2>1. TransactionAvailable(s, q)  BY <1>1, <1>4 DEF Idle, TransactionAvailable
    <2>2. CASE q = x
      <3>1. Len(s.cq[x]) = 1  BY <1>2, <1>4, <2>2 DEF Idle, EffectivelyEmpty
      <3> QED  BY <1>1, <2>1, <2>2, <3>1
    <2>3. CASE q # x
      <3>1. Idle(s, q)  BY <1>2, <1>4, <2>1, <2>3 DEF Idle, EffectivelyEmpty
      <3>2. CycleComes(s.calendar)  BY <1>4, <3>1 DEF Called
      <3> QED  BY <1>1, <3>2, GrowthKeeps
    <2> QED  BY <2>2, <2>3
  <1> QED  BY <1>3, <1>4 DEF Called

\* A pass over the queues issues one head at most.
LEMMA CycleCommandQueuesWakes ==
    ASSUME Submitted, NEW s, Good(s), Cleaned(s), NEW t, t = CycleCommandQueues(s)
    PROVE  /\ Woken(s) => Woken(t)
           /\ Called(s) => Called(t)
  <1>1. CASE t = s  BY <1>1
  <1>2. CASE t # s
    <2>1. ~s.issuedNow  BY <1>2, CycleCommandQueuesIs
    <2>2. PICK x \in Queues : s.cq[x] # <<>> /\ t = IssueHead(s, x)
      BY <1>2, CycleCommandQueuesIs
    <2> QED  BY <2>1, <2>2, IssueHeadWakes
  <1> QED  BY <1>1, <1>2

\* A state whose queues are another's and whose calendar has more in it.
LEMMA MoreWakes ==
    ASSUME NEW s, NEW t, t.cq = s.cq, t.tq = s.tq, Grows(s.calendar, t.calendar)
    PROVE  /\ Woken(s) => Woken(t)
           /\ Called(s) => Called(t)
  <1>1. HasCommands(t) => HasCommands(s)  BY DEF HasCommands
  <1>2. \A q : Idle(t, q) => Idle(s, q)  BY DEF Idle, EffectivelyEmpty, TransactionAvailable
  <1>3. Woken(s) => Woken(t)  BY <1>1, GrowthKeeps DEF Woken
  <1>4. Called(s) => Called(t)  BY <1>2, GrowthKeeps DEF Called
  <1> QED  BY <1>3, <1>4

\* The events that wake the controller are more events.
LEMMA NudgeWakes ==
    ASSUME NEW s \in Channel, NEW t, Nudges(s, t)
    PROVE  /\ Woken(s) => Woken(t)
           /\ Called(s) => Called(t)
  BY NudgeGrows, MoreWakes

-----------------------------------------------------------------------------
(* Waking and the scheduler.                                               *)

\* Serving a request puts commands into a queue and a wake into the calendar,
LEMMA ScheduleFromWakes ==
    ASSUME Submitted, NEW s, Good(s), NEW queue, TheirQueue(s, queue),
           Woken(s), NEW t, t = ScheduleFrom(s, queue)
    PROVE  Woken(t)
  <1>1. CASE t = s  BY <1>1
  <1>2. CASE t # s
    <2>1. PICK r, last, tq, u : Scheduling(s, r, last, tq, u, t)  BY <1>2, ScheduleFromIs
    <2>2. t = ScheduleCommandWake(u) /\ u \in Channel  BY <2>1 DEF Scheduling, Good
    <2> QED  BY <2>2, ScheduleWakes
  <1> QED  BY <1>1, <1>2

\* from either queue.
LEMMA ScheduleDrainWakes ==
    ASSUME Submitted, NEW s, Good(s), p.scheduler = "FRFCFS-WQF", Woken(s),
           NEW t, t = ScheduleDrain(s)
    PROVE  Woken(t)
  <1>1. PICK u, queue : Draining(s, u, queue, t)  BY ScheduleDrainIs
  <1>2. s \in Channel /\ u = [s EXCEPT !.draining = u.draining]  BY <1>1 DEF Draining, Good
  <1>3. u.cq = s.cq /\ u.tq = s.tq /\ u.calendar = s.calendar  BY <1>2 DEF Channel
  <1>4. Woken(u)
    <2>1. Grows(s.calendar, u.calendar)  BY <1>3 DEF Grows
    <2> QED  BY <1>3, <2>1, MoreWakes
  <1> QED  BY <1>1, <1>4, ScheduleFromWakes DEF Draining

\* The last thing Cycle does is to see to it that it is called again.
LEMMA CycleWakes ==
    ASSUME Submitted, NEW s, Good(s), Cleaned(s), Woken(s), NEW t, t = Cycle(s)
    PROVE  Woken(t) /\ Called(t)
  <1> DEFINE u == IF p.scheduler = "FRFCFS-WQF" THEN ScheduleDrain(s)
                  ELSE ScheduleFrom(s, DOMAIN s.tq)
             v == CycleCommandQueues(u)
  <1>1. Good(u) /\ Cleaned(u) /\ Woken(u)
    <2>1. CASE p.scheduler = "FRFCFS-WQF"
      <3>1. u = ScheduleDrain(s)  BY <2>1
      <3> HIDE DEF u
      <3> QED  BY <2>1, <3>1, ScheduleDrainKeeps, ScheduleDrainWakes
    <2>2. CASE p.scheduler # "FRFCFS-WQF"
      <3>1. u = ScheduleFrom(s, DOMAIN s.tq) /\ TheirQueue(s, DOMAIN s.tq)
        BY <2>2 DEF TheirQueue
      <3> HIDE DEF u
      <3> QED  BY <3>1, ScheduleFromKeeps, ScheduleFromWakes
    <2> QED  BY <2>1, <2>2
  <1>2. t = Recheck(v)  BY DEF Cycle
  <1> HIDE DEF u
  <1>3. Good(v) /\ Woken(v)  BY <1>1, CycleCommandQueuesKeeps, CycleCommandQueuesWakes
  <1> HIDE DEF v
  <1>4. Nudges(v, t) /\ v \in Channel  BY <1>2, <1>3, RecheckNudges DEF Good
  <1>5. Called(t)  BY <1>2, <1>4, RecheckCalls
  <1> QED  BY <1>3, <1>4, <1>5, NudgeWakes

\* A wake sees to the next before it issues.
LEMMA CommandQueueCallbackWakes ==
    ASSUME Submitted, NEW s, Good(s), Cleaned(s), Called(s), NEW t, t = CommandQueueCallback(s)
    PROVE  Woken(t) /\ Called(t)
  <1> DEFINE u == ScheduleCommandWake(s)
  <1>1. Nudges(s, u) /\ s \in Channel  BY WakeNudges DEF Good
  <1>2. t = CycleCommandQueues(u)  BY DEF CommandQueueCallback
  <1>3. Woken(u)  BY <1>1, ScheduleWakes
  <1> HIDE DEF u
  <1>4. Good(u) /\ Cleaned(u) /\ Called(u)  BY <1>1, NudgeKeeps, NudgeWakes
  <1> QED  BY <1>2, <1>3, <1>4, CycleCommandQueuesWakes

-----------------------------------------------------------------------------
(* Waking, refreshes and cleanups.                                         *)

\* A queue that is empty once its issued command is cleaned.
Empties(list) == list = <<>> \/ (Len(list) = 1 /\ list[1].issued)

\* Commands that are put behind those of a queue do not leave it emptier.
LEMMA EmptiesAre ==
    ASSUME NEW a \in Seq(Command), NEW b \in Seq(Command), Empties(a \o b)
    PROVE  Empties(a)
  <1>1. /\ Len(a \o b) = Len(a) + Len(b) /\ Len(a) \in Nat /\ Len(b) \in Nat
        /\ \A i \in 1..Len(a) : (a \o b)[i] = a[i]
    BY ConcatIs
  <1>2. CASE Len(a) = 0
    <2>1. a = <<>>  BY <1>2
    <2> QED  BY <2>1 DEF Empties
  <1>3. CASE Len(a) # 0
    <2>1. Len(a \o b) # 0  BY <1>1, <1>3
    <2>2. a \o b # <<>>  BY <2>1
    <2>3. Len(a \o b) = 1 /\ (a \o b)[1].issued  BY <2>2 DEF Empties
    <2>4. Len(a) = 1
      <3>1. Len(a) + Len(b) = 1 /\ Len(a) \in Nat /\ Len(b) \in Nat  BY <1>1, <2>3
      <3> DEFINE m == Len(a)
                 n == Len(b)
      <3>2. m + n = 1 /\ m \in Nat /\ n \in Nat /\ m # 0  BY <1>3, <3>1
      <3> HIDE DEF m, n
      <3>3. m = 1  BY <3>2
      <3> QED  BY <3>3 DEF m
    <2>5. (a \o b)[1] = a[1]  BY <1>1, <2>4
    <2> QED  BY <2>3, <2>4, <2>5 DEF Empties
  <1> QED  BY <1>2, <1>3

\* A refresh puts commands behind those of its queues,
LEMMA RefreshTakenCalls ==
    ASSUME Submitted, NEW s \in Channel, Called(s), NEW g \in Groups, NEW t, t = RefreshTaken(s, g)
    PROVE  Called(t)
  <1>0. s.cq \in [Queues -> Seq(Command)]  BY ChannelIs
  <1>1. /\ t.cq = [q \in Queues |-> s.cq[q] \o Precharges(s, g, q) \o RefreshAt(g, q)]
        /\ t.tq = s.tq /\ t.calendar = s.calendar
    BY DEF RefreshTaken, Channel
  <1>2. ASSUME NEW q \in Queues, Idle(t, q) PROVE  CycleComes(t.calendar)
    <2>1. /\ Precharges(s, g, q) \in Seq(Command) /\ RefreshAt(g, q) \in Seq(Command)
          /\ s.cq[q] \in Seq(Command)
      BY <1>0, RefreshCommandsAre
    <2>2. Empties(s.cq[q] \o Precharges(s, g, q) \o RefreshAt(g, q))
      BY <1>1, <1>2 DEF Idle, EffectivelyEmpty, Empties
    <2>3. Empties(s.cq[q])
      <3> DEFINE a == s.cq[q]
                 b == Precharges(s, g, q)
                 c == RefreshAt(g, q)
      <3>1. a \in Seq(Command) /\ b \in Seq(Command) /\ c \in Seq(Command) /\ Empties((a \o b) \o c)
        BY <2>1, <2>2
      <3> HIDE DEF a, b, c
      <3>2. a \o b \in Seq(Command)  BY <3>1
      <3>3. Empties(a)  BY <3>1, <3>2, EmptiesAre
      <3> QED  BY <3>3 DEF a
    <2>4. Idle(s, q)
      BY <1>1, <1>2, <2>3 DEF Idle, EffectivelyEmpty, Empties, TransactionAvailable
    <2> QED  BY <1>1, <2>4 DEF Called
  <1> QED  BY <1>2 DEF Called

\* and schedules the wake that will look at them.
LEMMA RefreshCallbackWakes ==
    ASSUME Submitted, NEW s, Good(s), Woken(s), Called(s), NEW g \in Groups,
           NEW t, t = RefreshCallback(s, g)
    PROVE  Woken(t) /\ Called(t)
  <1> DEFINE s0 == [s EXCEPT !.refreshCounter[g] = @ + 1]
  <1>0. s \in Channel  BY DEF Good
  <1>1. CASE NeedRefresh(s0, g)
    <2>2. t = ScheduleCommandWake(RefreshTaken(s, g))  BY <1>0, <1>1, RefreshCallbackIs
    <2>3. PICK u : u = RefreshTaken(s, g)  OBVIOUS
    <2>4. u \in Channel /\ Called(u)
      BY <1>0, <2>3, RefreshTakenKeeps, RefreshTakenCalls DEF Good
    <2>5. Nudges(u, t)  BY <2>2, <2>3, <2>4, WakeNudges
    <2> QED  BY <2>2, <2>3, <2>4, <2>5, ScheduleWakes, NudgeWakes
  <1>2. CASE ~NeedRefresh(s0, g)
    <2>1. t = s0  BY <1>2 DEF RefreshCallback
    <2>2. t.cq = s.cq /\ t.tq = s.tq /\ t.calendar = s.calendar  BY <1>0, <2>1 DEF Channel
    <2>3. Grows(s.calendar, t.calendar)  BY <2>2 DEF Grows
    <2> QED  BY <2>2, <2>3, MoreWakes
  <1> QED  BY <1>1, <1>2

\* A queue whose commands are all issued has one at most.
LEMMA CleanupWakes ==
    ASSUME Submitted, NEW s, Good(s), Woken(s), Called(s), NEW t, t = CleanupCallback(s)
    PROVE  Woken(t) /\ Called(t)
  <1>0. s \in Channel /\ s.cq \in [Queues -> Seq(Command)] /\ p \in Params
    BY ChannelIs DEF Good, Submitted
  <1>1. t.cq = [q \in Queues |-> Unissued(s.cq[q])] /\ t.tq = s.tq /\ t.calendar = s.calendar
    BY <1>0 DEF CleanupCallback, Channel
  <1>2. ASSUME NEW q \in Queues
        PROVE  /\ s.cq[q] = <<>> => t.cq[q] = <<>>
               /\ Empties(t.cq[q]) => Empties(s.cq[q])
    <2> DEFINE old == s.cq[q]
               new == Unissued(s.cq[q])
    <2>1. old \in Seq(Command) /\ Pairs(old, CommandPairs(s)) /\ t.cq[q] = new
      BY <1>0, <1>1 DEF Good, QueuesSorted
    <2>2. new \in Seq(Command) /\ Elems(new) = {c \in Elems(old) : ~c.issued}
      BY <2>1, UnissuedIs
    <2> HIDE DEF old, new
    <2>3. ASSUME Empties(new) PROVE  Empties(old)
      <3>1. \A i \in DOMAIN new : ~new[i].issued  BY <2>2 DEF Elems
      <3>2. new = <<>>
        <4>1. SUFFICES ASSUME Len(new) = 1, new[1].issued PROVE FALSE
          BY <2>3 DEF Empties
        <4>2. 1 \in DOMAIN new  BY <2>2, <4>1
        <4> QED  BY <3>1, <4>1, <4>2
      <3>3. \A i \in DOMAIN old : old[i].issued
        <4>1. Elems(new) = {}  BY <3>2 DEF Elems
        <4> QED  BY <2>2, <4>1 DEF Elems
      <3>4. Len(old) \in Nat /\ DOMAIN old = 1..Len(old)  BY <2>1
      <3>5. ~(Len(old) >= 2)
        <4>1. SUFFICES ASSUME Len(old) >= 2 PROVE FALSE
          OBVIOUS
        <4>2. 1 \in DOMAIN old /\ 2 \in DOMAIN old  BY <3>4, <4>1
        <4>3. <<old[1], old[2]>> \in CommandPairs(s)  BY <2>1, <4>2 DEF Pairs
        <4>4. ~old[2].issued  BY <4>3 DEF CommandPairs
        <4> QED  BY <3>3, <4>2, <4>4
      <3>6. CASE Len(old) = 0
        <4>1. old = <<>>  BY <2>1, <3>6
        <4> QED  BY <4>1 DEF Empties
      <3>7. CASE Len(old) = 1  BY <3>3, <3>4, <3>7 DEF Empties
      <3> QED  BY <3>4, <3>5, <3>6, <3>7
    <2>4. ASSUME old = <<>> PROVE  new = <<>>
      <3>1. Elems(new) = {}  BY <2>2, <2>4 DEF Elems
      <3>2. DOMAIN new = {}  BY <3>1 DEF Elems
      <3>3. Len(new) = 0  BY <2>2, <3>2
      <3> QED  BY <2>2, <3>3
    <2> QED  BY <2>1, <2>3, <2>4 DEF old
  <1>3. HasCommands(t) => HasCommands(s)
    <2>1. \A b \in Bank : GetCommandQueueId(b, 0) \in Queues  BY <1>0, QueuesAre, Sizes
    <2> QED  BY <1>2, <2>1 DEF HasCommands
  <1>4. \A q \in Queues : Idle(t, q) => Idle(s, q)
    BY <1>1, <1>2 DEF Idle, EffectivelyEmpty, Empties, TransactionAvailable
  <1> QED  BY <1>1, <1>3, <1>4 DEF Woken, Called

-----------------------------------------------------------------------------
(* Waking and the event loop.                                              *)

\* An event that is taken out of the calendar is missed only by those who wait for its kind,
LEMMA PopWakes ==
    ASSUME NEW s \in Channel, s.calendar[0] # <<>>, NEW t, t = TakeFirst(s)
    PROVE  /\ t.cq = s.cq /\ t.tq = s.tq
           /\ s.calendar[0][1].kind # "CommandQueueCallback" /\ Woken(s) => Woken(t)
           /\ s.calendar[0][1].kind # "Cycle" /\ Called(s) => Called(t)
  <1> DEFINE e == s.calendar[0][1]
  <1>1. t.calendar = [s.calendar EXCEPT ![0] = Tail(@)] /\ t.cq = s.cq /\ t.tq = s.tq
    BY DEF TakeFirst, Channel
  <1>2. /\ Elems(s.calendar[0]) = Elems(t.calendar[0]) \cup {e}
        /\ \A i \in 0..Horizon : i # 0 => t.calendar[i] = s.calendar[i]
    BY <1>1, ChannelIs, PopSorted
  <1> HIDE DEF e
  <1>3. \A kind : e.kind # kind =>
           \A i \in 0..Horizon : Holds(s.calendar, kind, i) => Holds(t.calendar, kind, i)
    BY <1>2 DEF Holds
  <1>4. HasCommands(t) => HasCommands(s)  BY <1>1 DEF HasCommands
  <1>5. \A q : Idle(t, q) => Idle(s, q)
    BY <1>1 DEF Idle, EffectivelyEmpty, TransactionAvailable
  <1>6. ASSUME e.kind # "CommandQueueCallback", Woken(s) PROVE  Woken(t)
    <2>1. WakeComes(s.calendar) => WakeComes(t.calendar)  BY <1>3, <1>6 DEF WakeComes
    <2> QED  BY <1>4, <1>6, <2>1 DEF Woken
  <1>7. ASSUME e.kind # "Cycle", Called(s) PROVE  Called(t)
    <2>1. CycleComes(s.calendar) => CycleComes(t.calendar)
      BY <1>3, <1>7, Numbers DEF CycleComes
    <2> QED  BY <1>5, <1>7, <2>1 DEF Called
  <1> QED  BY <1>1, <1>6, <1>7 DEF e

\* and a tick brings the others one cycle closer.
LEMMA TickWakes ==
    ASSUME NEW s \in Channel, s.calendar[0] = <<>>, NEW t, t = Ticked(s), Woken(s), Called(s)
    PROVE  Woken(t) /\ Called(t)
  <1>1. /\ t.cq = s.cq /\ t.tq = s.tq
        /\ \A i \in 0..Horizon : i < Horizon => t.calendar[i] = s.calendar[i + 1]
    BY DEF Ticked, Channel
  <1>2. \A kind : ~Holds(s.calendar, kind, 0)
    <2>1. Elems(<<>>) = {}  BY DEF Elems
    <2> QED  BY <2>1 DEF Holds
  <1>3. ASSUME NEW kind, NEW i \in 0..Horizon, Holds(s.calendar, kind, i)
        PROVE  i - 1 \in 0..Horizon /\ Holds(t.calendar, kind, i - 1)
    <2>1. i # 0  BY <1>2, <1>3
    <2>2. i - 1 \in 0..Horizon /\ i - 1 < Horizon /\ (i - 1) + 1 = i  BY <2>1, Numbers
    <2>3. t.calendar[i - 1] = s.calendar[i]  BY <1>1, <2>2
    <2> QED  BY <1>3, <2>2, <2>3 DEF Holds
  <1>4. WakeComes(s.calendar) => WakeComes(t.calendar)  BY <1>3 DEF WakeComes
  <1>5. CycleComes(s.calendar) => CycleComes(t.calendar)
    <2>1. SUFFICES ASSUME CycleComes(s.calendar) PROVE CycleComes(t.calendar)
      OBVIOUS
    <2>2. Holds(s.calendar, "Cycle", 1)  BY <1>2, <2>1 DEF CycleComes
    <2>3. Holds(t.calendar, "Cycle", 1 - 1)  BY <1>3, <2>2, Numbers
    <2>4. 1 - 1 = 0  OBVIOUS
    <2> QED  BY <2>3, <2>4 DEF CycleComes
  <1>6. HasCommands(t) => HasCommands(s)  BY <1>1 DEF HasCommands
  <1>7. \A q : Idle(t, q) => Idle(s, q)
    BY <1>1 DEF Idle, EffectivelyEmpty, TransactionAvailable
  <1>8. Woken(t)  BY <1>4, <1>6 DEF Woken
  <1>9. Called(t)  BY <1>5, <1>7 DEF Called
  <1> QED  BY <1>8, <1>9

\* Between states that differ in nothing else the invariant is one of the channel.
LEMMA SameWakes ==
    ASSUME p' = p, address' = address, NEW s, Woken(s), Called(s), ch' = s
    PROVE  WakeInv'
  <1>1. \A b : (GetCommandQueueId(b, 0))' = GetCommandQueueId(b, 0)  BY DEF GetCommandQueueId
  <1>2. Queues' = Queues /\ \A r : (QueueOf(r))' = QueueOf(r)
    BY SameQueues DEF QueueOf, GetCommandQueueId
  <1>3. (Woken(s))'
    <2>1. (HasCommands(s))' => HasCommands(s)  BY <1>1 DEF HasCommands
    <2>2. WakeComes(s.calendar) => (WakeComes(s.calendar))'  BY DEF WakeComes, Holds
    <2> QED  BY <2>1, <2>2 DEF Woken
  <1>4. (Called(s))'
    <2>1. \A q : (Idle(s, q))' => Idle(s, q)
      BY <1>2 DEF Idle, EffectivelyEmpty, TransactionAvailable
    <2>2. CycleComes(s.calendar) => (CycleComes(s.calendar))'  BY DEF CycleComes, Holds
    <2> QED  BY <1>2, <2>1, <2>2 DEF Called
  <1> QED  BY <1>3, <1>4 DEF WakeInv

\* Nothing is queued and nothing waits.
LEMMA InitWakes ==
    ASSUME Init
    PROVE  WakeInv
  <1>1. p \in Params /\ ch.cq = [q \in Queues |-> <<>>] /\ ch.tq = <<>>  BY DEF Init
  <1>2. ~HasCommands(ch)
    <2>1. \A b \in Bank : GetCommandQueueId(b, 0) \in Queues  BY <1>1, QueuesAre, Sizes
    <2> QED  BY <1>1, <2>1 DEF HasCommands
  <1>3. \A q : ~Idle(ch, q)  BY <1>1 DEF Idle, TransactionAvailable
  <1> QED  BY <1>2, <1>3 DEF WakeInv, Woken, Called

\* An event that is neither of the two takes neither out of the calendar; the two see to it that
\* they come again.
LEMMA RunEventWakes ==
    ASSUME IInv, WakeInv, RunEvent
    PROVE  WakeInv'
  <1>0. /\ ch.calendar[0] # <<>> /\ p' = p /\ address' = address /\ Woken(ch) /\ Called(ch)
    BY DEF RunEvent, RunCycle, RunCommandQueues, RunCleanup, RunRefresh, RunResponse,
           RunImplicitPrecharge, RunClosed, RunRefreshed, Running, Handle, WakeInv
  <1>1. /\ Submitted /\ Good(ch) /\ Popped \in Channel /\ ch.calendar[0][1] \in Event
        /\ ch.calendar[0][1].kind # "response" => Good(Popped)
        /\ ch.calendar[0][1].kind # "CleanupCallback" => Cleaned(Popped)
    BY <1>0, PoppedIs
  <1>2. PICK u : u = Popped  OBVIOUS
  <1>3. PICK t : ch' = t  OBVIOUS
  <1>4. /\ u \in Channel
        /\ ch.calendar[0][1].kind # "CommandQueueCallback" => Woken(u)
        /\ ch.calendar[0][1].kind # "Cycle" => Called(u)
    <2>1. u = TakeFirst(ch) /\ ch \in Channel  BY <1>1, <1>2 DEF Popped, TakeFirst, Good
    <2>2. PICK s : s = ch  OBVIOUS
    <2>3. s \in Channel /\ s.calendar[0] # <<>> /\ Woken(s) /\ Called(s) /\ u = TakeFirst(s)
      BY <1>0, <2>1, <2>2
    <2>4. /\ s.calendar[0][1].kind # "CommandQueueCallback" => Woken(u)
          /\ s.calendar[0][1].kind # "Cycle" => Called(u)
      BY <2>3, PopWakes
    <2> QED  BY <1>1, <1>2, <2>2, <2>4
  <1>5. SUFFICES Woken(t) /\ Called(t)  BY <1>0, <1>3, SameWakes
  <1>6. ASSUME Woken(u), Called(u), t.cq = u.cq, t.tq = u.tq, Grows(u.calendar, t.calendar)
        PROVE  Woken(t) /\ Called(t)
    BY <1>6, MoreWakes
  <1>7. \A s : Grows(s, s)  BY DEF Grows
  <1>8. CASE RunCycle
    <2>1. Good(u) /\ Cleaned(u) /\ Woken(u) /\ t = Cycle(u)
      BY <1>1, <1>2, <1>3, <1>4, <1>8 DEF RunCycle, Running, Handle
    <2> QED  BY <1>1, <2>1, CycleWakes
  <1>9. CASE RunCommandQueues
    <2>1. Good(u) /\ Cleaned(u) /\ Called(u) /\ t = CommandQueueCallback(u)
      BY <1>1, <1>2, <1>3, <1>4, <1>9 DEF RunCommandQueues, Running, Handle
    <2> QED  BY <1>1, <2>1, CommandQueueCallbackWakes
  <1>10. CASE RunCleanup
    <2>1. Good(u) /\ Woken(u) /\ Called(u) /\ t = CleanupCallback(u)
      BY <1>1, <1>2, <1>3, <1>4, <1>10 DEF RunCleanup, Running, Handle
    <2> QED  BY <1>1, <2>1, CleanupWakes
  <1>11. CASE RunRefresh
    <2>1. /\ Good(u) /\ Woken(u) /\ Called(u) /\ t = RefreshCallback(u, About) /\ About \in Groups
      BY <1>1, <1>2, <1>3, <1>4, <1>11, EventIs DEF RunRefresh, Running, Handle, About
    <2> QED  BY <1>1, <2>1, RefreshCallbackWakes
  <1>12. CASE RunResponse
    <2>1. t = Hears(u, About) /\ Woken(u) /\ Called(u)
      BY <1>2, <1>3, <1>4, <1>12 DEF RunResponse, Running, Handle, Hears
    <2>2. t.cq = u.cq /\ t.tq = u.tq /\ t.calendar = u.calendar
      BY <1>4, <2>1 DEF Hears, Channel
    <2> QED  BY <1>6, <1>7, <2>1, <2>2
  <1>13. CASE RunImplicitPrecharge
    <2>1. /\ ch.calendar[0][1].kind = "implicitPrecharge" /\ t = StartsClosing(u, About)
          /\ Woken(u) /\ Called(u)
      BY <1>2, <1>3, <1>4, <1>13 DEF RunImplicitPrecharge, Running, Handle, StartsClosing
    <2>2. About \in Bank \X SubArray  BY <1>1, <2>1, EventIs DEF Closings, About
    <2>3. t.cq = u.cq /\ t.tq = u.tq /\ t.calendar = InsertEvent(u.calendar, "closed", About, tRP, 0)
      BY <1>4, <2>1 DEF StartsClosing, Channel
    <2>4. Grows(u.calendar, t.calendar)
      <3>1. TypedEvent("closed", About) \in Event
        BY <2>2 DEF TypedEvent, Event, StoredDefault, Closings
      <3>2. u.calendar \in Calendar /\ tRP \in 0..Horizon /\ 0 \in Int
        BY <1>4, ChannelIs, Numbers
      <3> QED  BY <2>3, <3>1, <3>2, TypedGrows
    <2> QED  BY <1>6, <2>1, <2>3, <2>4
  <1>14. CASE RunClosed
    <2>1. t = HasClosed(u, About) /\ Woken(u) /\ Called(u)
      BY <1>2, <1>3, <1>4, <1>14 DEF RunClosed, Running, Handle, HasClosed
    <2>2. t.cq = u.cq /\ t.tq = u.tq /\ t.calendar = u.calendar
      BY <1>4, <2>1 DEF HasClosed, Channel
    <2> QED  BY <1>6, <1>7, <2>1, <2>2
  <1>15. CASE RunRefreshed
    <2>1. /\ t = HasClosed(u, About) \/ t = StaysOpen(u, About)
          /\ Woken(u) /\ Called(u)
      BY <1>2, <1>3, <1>4, <1>15 DEF RunRefreshed, Running, Handle, HasClosed, StaysOpen
    <2>2. t.cq = u.cq /\ t.tq = u.tq /\ t.calendar = u.calendar
      BY <1>4, <2>1 DEF HasClosed, StaysOpen, Channel
    <2> QED  BY <1>6, <1>7, <2>1, <2>2
  <1> QED  BY <1>8, <1>9, <1>10, <1>11, <1>12, <1>13, <1>14, <1>15 DEF RunEvent

\* A request whose queue is empty has the scheduler called in this cycle.
LEMMA SubmitWakes ==
    ASSUME IInv, WakeInv, Submit
    PROVE  WakeInv'
  <1>0. /\ Submitted /\ p' = p /\ ch \in Channel /\ Woken(ch) /\ Called(ch)
        /\ Len(address) < Cardinality(Req)
    BY DEF IInv, Submit, Good, WakeInv
  <1>1. PICK request \in p.trace :
          /\ address' = Append(address, request.at)
          /\ ch' = [ch EXCEPT
                  !.arrived = @ \cup {Len(address) + 1},
                  !.writes = IF request.write THEN @ \cup {Len(address) + 1} ELSE @,
                  !.tq = Append(@, Len(address) + 1),
                  !.calendar =
                      IF /\ EffectivelyEmpty(ch, GetCommandQueueId(request.at.bank, request.at.sa))
                         /\ ~Scheduled(@, "Cycle", 0)
                      THEN InsertEvent(@, "Cycle", None, 0, transactionQueuePriority)
                      ELSE @]
    BY DEF Submit
  <1> DEFINE n == Len(address) + 1
             x == GetCommandQueueId(request.at.bank, request.at.sa)
             wakes == EffectivelyEmpty(ch, x) /\ ~Scheduled(ch.calendar, "Cycle", 0)
             new == IF wakes THEN InsertEvent(ch.calendar, "Cycle", None, 0, transactionQueuePriority)
                    ELSE ch.calendar
  <1>2. ch'.cq = ch.cq /\ ch'.tq = Append(ch.tq, n) /\ ch'.calendar = new
    BY <1>0, <1>1 DEF Channel
  <1>3. /\ Grows(ch.calendar, new)
        /\ EffectivelyEmpty(ch, x) => CycleComes(new)
    <2>0. ch.calendar \in Calendar /\ 0 \in 0..Horizon  BY <1>0, ChannelIs, Numbers
    <2>1. CASE wakes
      <3>1. TypedEvent("Cycle", None) \in Event /\ transactionQueuePriority \in Int
        BY DEF Event, TypedEvent, StoredDefault, transactionQueuePriority
      <3>2. new = InsertEvent(ch.calendar, "Cycle", None, 0, transactionQueuePriority)  BY <2>1
      <3> HIDE DEF new, wakes
      <3>3. Grows(ch.calendar, new) /\ Holds(new, "Cycle", 0)  BY <2>0, <3>1, <3>2, TypedGrows
      <3> QED  BY <3>3 DEF CycleComes
    <2>2. CASE ~wakes
      <3>1. new = ch.calendar  BY <2>2
      <3>2. EffectivelyEmpty(ch, x) => CycleComes(ch.calendar)
        <4>1. SUFFICES ASSUME EffectivelyEmpty(ch, x) PROVE CycleComes(ch.calendar)
          OBVIOUS
        <4>2. Scheduled(ch.calendar, "Cycle", 0)  BY <2>2, <4>1
        <4> QED  BY <2>0, <4>2, HoldsIs DEF CycleComes
      <3> HIDE DEF new
      <3> QED  BY <3>1, <3>2 DEF Grows
    <2> QED  BY <2>1, <2>2
  <1> HIDE DEF new
  <1>4. PICK t : ch' = t  OBVIOUS
  <1>5. t.cq = ch.cq /\ t.tq = Append(ch.tq, n) /\ t.calendar = new  BY <1>2, <1>4
  <1>6. (Woken(t))'
    <2>1. \A b : (GetCommandQueueId(b, 0))' = GetCommandQueueId(b, 0)
      BY <1>0 DEF GetCommandQueueId
    <2>2. (HasCommands(t))' => HasCommands(ch)  BY <1>5, <2>1 DEF HasCommands
    <2>3. WakeComes(ch.calendar) => WakeComes(t.calendar)  BY <1>3, <1>5, GrowthKeeps
    <2>4. WakeComes(t.calendar) => (WakeComes(t.calendar))'  BY DEF WakeComes, Holds
    <2> QED  BY <1>0, <2>2, <2>3, <2>4 DEF Woken
  <1>7. ASSUME NEW q \in Queues, (Idle(t, q))' PROVE  CycleComes(t.calendar)
    <2>1. EffectivelyEmpty(ch, q) /\ (TransactionAvailable(t, q))'
      BY <1>5, <1>7 DEF Idle, EffectivelyEmpty
    <2>2. ch.tq \in Seq(Req) /\ address \in Seq(Address) /\ request.at \in Address
          /\ \A i \in DOMAIN ch.tq : ch.tq[i] \in Known
      <3>1. Elems(ch.tq) \subseteq Known  BY DEF IInv, Good, InStages, Stages
      <3>2. request.at \in Address  BY <1>0, <1>1, ParamsAre DEF Submitted
      <3> QED  BY <1>0, <3>1, <3>2, ChannelIs DEF Elems, Submitted
    <2>3. PICK i \in 1..Len(t.tq) : (QueueOf(t.tq[i]))' = q  BY <2>1 DEF TransactionAvailable
    <2>4. \A r : (QueueOf(r))' = GetCommandQueueId(address'[r].bank, address'[r].sa)
      BY <1>0 DEF QueueOf, GetCommandQueueId
    <2>5. CASE i = Len(ch.tq) + 1
      <3>1. t.tq[i] = n /\ address'[n] = request.at  BY <1>1, <1>5, <2>2, <2>5
      <3>2. q = x  BY <2>3, <2>4, <3>1
      <3> QED  BY <1>3, <1>5, <2>1, <3>2
    <2>6. CASE i # Len(ch.tq) + 1
      <3>1. i \in 1..Len(ch.tq) /\ t.tq[i] = ch.tq[i] /\ i \in DOMAIN ch.tq  BY <1>5, <2>2, <2>6
      <3>2. ch.tq[i] \in Known  BY <2>2, <3>1
      <3>3. address'[ch.tq[i]] = address[ch.tq[i]]  BY <1>1, <2>2, <3>2 DEF Known
      <3>4. QueueOf(ch.tq[i]) = q  BY <2>3, <2>4, <3>1, <3>3 DEF QueueOf
      <3>5. Idle(ch, q)  BY <2>1, <3>1, <3>4 DEF Idle, TransactionAvailable
      <3>6. CycleComes(ch.calendar)  BY <1>0, <3>5 DEF Called
      <3> QED  BY <1>3, <1>5, <3>6, GrowthKeeps
    <2> QED  BY <2>5, <2>6
  <1>8. (Called(t))'
    <2>1. Queues' = Queues  BY <1>0, SameQueues
    <2>2. CycleComes(t.calendar) => (CycleComes(t.calendar))'  BY DEF CycleComes, Holds
    <2> QED  BY <1>7, <2>1, <2>2 DEF Called
  <1> QED  BY <1>4, <1>6, <1>8 DEF WakeInv

\* Neither the end of the trace touches queues or calendar,
LEMMA EndTraceWakes ==
    ASSUME IInv, WakeInv, EndTrace
    PROVE  WakeInv'
  <1>0. ch \in Channel /\ p' = p /\ address' = address /\ ch' = [ch EXCEPT !.force_drain = TRUE]
    BY DEF IInv, EndTrace, Good
  <1>1. PICK t : ch' = t  OBVIOUS
  <1>2. t.cq = ch.cq /\ t.tq = ch.tq /\ t.calendar = ch.calendar  BY <1>0, <1>1 DEF Channel
  <1>3. PICK s : s = ch  OBVIOUS
  <1>4. Woken(s) /\ Called(s) /\ Grows(s.calendar, t.calendar)  BY <1>2, <1>3 DEF WakeInv, Grows
  <1>5. Woken(t) /\ Called(t)  BY <1>2, <1>3, <1>4, MoreWakes
  <1> QED  BY <1>0, <1>1, <1>5, SameWakes

\* nor does the next cycle, but for the time.
LEMMA NextCycleWakes ==
    ASSUME IInv, WakeInv, Tick
    PROVE  WakeInv'
  <1>0. ch \in Channel /\ p' = p /\ address' = address /\ ch.calendar[0] = <<>>
    BY DEF IInv, Tick, Good
  <1>1. PICK t : ch' = t  OBVIOUS
  <1>2. t = Ticked(ch)  BY <1>1 DEF Tick, Ticked
  <1>3. PICK s : s = ch  OBVIOUS
  <1>4. Woken(s) /\ Called(s) /\ s \in Channel /\ s.calendar[0] = <<>> /\ t = Ticked(s)
    BY <1>0, <1>2, <1>3 DEF WakeInv
  <1>5. Woken(t) /\ Called(t)  BY <1>4, TickWakes
  <1> QED  BY <1>0, <1>1, <1>5, SameWakes

\* With a queue per bank or one for all, every queue is one of those that a wake looks at.
LEMMA QueuesLookedAt ==
    ASSUME p \in Params, p.queueModel # "PerSubArray", NEW q \in Queues
    PROVE  \E b \in Bank : GetCommandQueueId(b, 0) = q
  <1>1. p.queueModel = "PerRank" \/ p.queueModel = "PerBank"  BY ParamsAre
  <1>2. CASE p.queueModel = "PerRank"
    <2>1. q = 0 /\ 0 \in Bank  BY <1>2, Sizes DEF Queues, commandQueueCount
    <2>2. GetCommandQueueId(0, 0) = 0  BY <1>2 DEF GetCommandQueueId
    <2> QED  BY <2>1, <2>2
  <1>3. CASE p.queueModel = "PerBank"
    <2>1. q \in Bank  BY <1>3, Sizes DEF Queues, commandQueueCount
    <2>2. GetCommandQueueId(q, 0) = q  BY <1>3 DEF GetCommandQueueId
    <2> QED  BY <2>1, <2>2
  <1> QED  BY <1>1, <1>2, <1>3

\* The controller does not sleep on work: with a queue per bank or one for all, whatever is queued
\* has a wake ahead, and for a transaction whose queue is empty the scheduler is called by the next
\* cycle.
THEOREM ControllerWakes == Spec => []ControllerIsWoken
  <1>1. Init => WakeInv  BY InitWakes
  <1>2. IInv /\ WakeInv /\ [Next]_vars => WakeInv'
    <2> SUFFICES ASSUME IInv, WakeInv, [Next]_vars PROVE WakeInv'
      OBVIOUS
    <2>1. CASE Submit  BY <2>1, SubmitWakes
    <2>2. CASE EndTrace  BY <2>2, EndTraceWakes
    <2>3. CASE RunEvent  BY <2>3, RunEventWakes
    <2>4. CASE Tick  BY <2>4, NextCycleWakes
    <2>5. CASE UNCHANGED vars
      <3>1. p' = p /\ address' = address /\ ch' = ch  BY <2>5 DEF vars
      <3>2. PICK s : s = ch  OBVIOUS
      <3>3. Woken(s) /\ Called(s)  BY <3>2 DEF WakeInv
      <3> QED  BY <3>1, <3>2, <3>3, SameWakes
    <2> QED  BY <2>1, <2>2, <2>3, <2>4, <2>5 DEF Next
  <1>3. IInv /\ WakeInv => ControllerIsWoken
    <2> SUFFICES ASSUME IInv, WakeInv PROVE ControllerIsWoken
      OBVIOUS
    <2>0. p \in Params /\ ch.calendar \in Calendar  BY ChannelIs DEF IInv, Submitted, Good
    <2>1. ASSUME NEW q \in Queues, p.queueModel # "PerSubArray", ch.cq[q] # <<>>
          PROVE  \E i \in 0..Horizon : Scheduled(ch.calendar, "CommandQueueCallback", i)
      <3>1. HasCommands(ch)  BY <2>0, <2>1, QueuesLookedAt DEF HasCommands
      <3>2. WakeComes(ch.calendar)  BY <3>1 DEF WakeInv, Woken
      <3>3. PICK i \in 0..Horizon : Holds(ch.calendar, "CommandQueueCallback", i)
        BY <3>2 DEF WakeComes
      <3>4. Scheduled(ch.calendar, "CommandQueueCallback", i)  BY <2>0, <3>3, HoldsIs
      <3> QED  BY <3>4
    <2>2. ASSUME NEW q \in Queues, EffectivelyEmpty(ch, q) /\ TransactionAvailable(ch, q)
          PROVE  Scheduled(ch.calendar, "Cycle", 0) \/ Scheduled(ch.calendar, "Cycle", 1)
      <3>1. CycleComes(ch.calendar)  BY <2>2 DEF WakeInv, Called, Idle
      <3> QED  BY <2>0, <3>1, HoldsIs, Numbers DEF CycleComes
    <2> QED  BY <2>1, <2>2 DEF ControllerIsWoken
  <1> QED  BY <1>1, <1>2, <1>3, ChannelIsGood, PTL DEF Spec

=============================================================================
