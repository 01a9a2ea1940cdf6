------------------------ MODULE PriorityReplayProofs ------------------------
(***************************************************************************)
(* Theorems of PriorityReplay: what admission keeps, the order it is put in,   *)
(* the envelope made of it, and that a replay confirms it.  The sort is the     *)
(* heart of it: for a strict order its result does not depend on the order      *)
(* of its argument, which is why a shuffled snapshot replays to the same        *)
(* envelope and why the collection accepts what the ordering made.             *)
(***************************************************************************)
EXTENDS PriorityReplay, FiniteSetTheorems, SequenceTheorems, WellFoundedInduction, TLAPS

-----------------------------------------------------------------------------
(* Sorting.                                                                    *)

\* There are n positions up to n.
LEMMA Positions ==
  ASSUME NEW n \in Nat
  PROVE  IsFiniteSet(1..n) /\ Cardinality(1..n) = n
<1>1. IsFiniteSet(1..n) /\ Cardinality(1..n) = IF 1 > n THEN 0 ELSE n - 1 + 1
  BY FS_Interval
<1> QED
  BY <1>1

\* The comparison leaves no two positions of a sequence of n tied.
StrictOrder(n, less) ==
  /\ \A i \in 1..n : <<i, i>> \notin less
  /\ \A i, j \in 1..n : i # j => <<i, j>> \in less \/ <<j, i>> \in less
  /\ \A i, j, k \in 1..n : <<i, j>> \in less /\ <<j, k>> \in less => <<i, k>> \in less

Rank(seq, less, i) == Cardinality(Ahead(seq, less, i))

\* A strict order puts before a position exactly the positions that are less.
LEMMA AheadIsLess ==
  ASSUME NEW S, NEW seq \in Seq(S), NEW less, StrictOrder(Len(seq), less),
         NEW i \in 1..Len(seq)
  PROVE  Ahead(seq, less, i) = {j \in 1..Len(seq) : <<j, i>> \in less}
BY DEF Ahead, StrictOrder

\* A rank counts earlier positions: it is below the length and it grows along the order.
LEMMA RankBounds ==
  ASSUME NEW S, NEW seq \in Seq(S), NEW less, StrictOrder(Len(seq), less)
  PROVE  /\ \A i \in 1..Len(seq) : Rank(seq, less, i) \in 0..(Len(seq) - 1)
         /\ \A i, j \in 1..Len(seq) :
              <<i, j>> \in less => Rank(seq, less, i) < Rank(seq, less, j)
<1> DEFINE n == Len(seq)
<1>n. n \in Nat /\ IsFiniteSet(1..n) /\ Cardinality(1..n) = n
  BY Positions
<1>a. \A i \in 1..n : Ahead(seq, less, i) = {j \in 1..n : <<j, i>> \in less}
  BY AheadIsLess
<1>s. /\ \A i \in 1..n : <<i, i>> \notin less
      /\ \A i, j, k \in 1..n : <<i, j>> \in less /\ <<j, k>> \in less => <<i, k>> \in less
  BY DEF StrictOrder
<1> HIDE DEF n
<1>1. \A i \in 1..n : /\ Ahead(seq, less, i) \subseteq (1..n) \ {i}
                      /\ IsFiniteSet(Ahead(seq, less, i))
                      /\ Rank(seq, less, i) \in Nat
                      /\ Rank(seq, less, i) <= n - 1
  <2> TAKE i \in 1..n
  <2>1. Ahead(seq, less, i) \subseteq (1..n) \ {i}
    <3>1. Ahead(seq, less, i) = {j \in 1..n : <<j, i>> \in less}
      BY <1>a
    <3>2. \A j \in Ahead(seq, less, i) : j \in 1..n /\ j # i
      BY <3>1, <1>s, Zenon
    <3> QED
      BY <3>2, Zenon
  <2>2. IsFiniteSet((1..n) \ {i}) /\ Cardinality((1..n) \ {i}) = n - 1
    BY <1>n, FS_RemoveElement
  <2>3. /\ IsFiniteSet(Ahead(seq, less, i))
        /\ Cardinality(Ahead(seq, less, i)) <= n - 1
    <3>1. Ahead(seq, less, i) \in SUBSET ((1..n) \ {i})
      BY <2>1
    <3>2. IsFiniteSet(Ahead(seq, less, i)) /\ Cardinality(Ahead(seq, less, i)) <= Cardinality((1..n) \ {i})
      BY <3>1, <2>2, FS_Subset
    <3> QED
      BY <3>2, <2>2
  <2>4. Cardinality(Ahead(seq, less, i)) \in Nat
    BY <2>3, FS_CardinalityType
  <2> QED
    BY <2>1, <2>3, <2>4 DEF Rank
<1>2. ASSUME NEW i \in 1..n, NEW j \in 1..n, <<i, j>> \in less
      PROVE  Rank(seq, less, i) < Rank(seq, less, j)
  <2>1. Ahead(seq, less, i) \cup {i} \subseteq Ahead(seq, less, j)
    <3>1. ASSUME NEW x \in Ahead(seq, less, i)
          PROVE  x \in Ahead(seq, less, j)
      <4>1. x \in 1..n /\ <<x, i>> \in less
        BY <1>a
      <4>2. <<x, j>> \in less
        BY <4>1, <1>2, <1>s
      <4> QED
        BY <4>1, <4>2, <1>a
    <3>2. i \in Ahead(seq, less, j)
      BY <1>2, <1>a
    <3> QED
      BY <3>1, <3>2
  <2>2. i \notin Ahead(seq, less, i) /\ IsFiniteSet(Ahead(seq, less, i))
        /\ IsFiniteSet(Ahead(seq, less, j))
    BY <1>1
  <2>3. /\ IsFiniteSet(Ahead(seq, less, i) \cup {i})
        /\ Cardinality(Ahead(seq, less, i) \cup {i}) = Cardinality(Ahead(seq, less, i)) + 1
    BY <2>2, FS_AddElement, Zenon
  <2>4. Cardinality(Ahead(seq, less, i) \cup {i}) <= Cardinality(Ahead(seq, less, j))
    BY <2>1, <2>2, FS_Subset, Zenon
  <2> QED
    BY <2>3, <2>4, <1>1 DEF Rank
<1> QED
  BY <1>n, <1>1, <1>2 DEF n

\* Every place from first to last is taken by exactly one position.
LEMMA RankTakesEveryPlace ==
  ASSUME NEW S, NEW seq \in Seq(S), NEW less, StrictOrder(Len(seq), less)
  PROVE  /\ \A i, j \in 1..Len(seq) : Rank(seq, less, i) = Rank(seq, less, j) => i = j
         /\ \A k \in 1..Len(seq) : \E i \in 1..Len(seq) : Rank(seq, less, i) = k - 1
<1> DEFINE n == Len(seq)
           place == [i \in 1..n |-> Rank(seq, less, i) + 1]
<1>n. n \in Nat /\ IsFiniteSet(1..n)
  BY Positions
<1>2. \A i \in 1..n : Rank(seq, less, i) \in 0..(n - 1)
  BY RankBounds
<1>2a. \A i, j \in 1..n : <<i, j>> \in less => Rank(seq, less, i) < Rank(seq, less, j)
  BY RankBounds
<1>1. \A i, j \in 1..n : Rank(seq, less, i) = Rank(seq, less, j) => i = j
  <2> TAKE i, j \in 1..n
  <2> HAVE Rank(seq, less, i) = Rank(seq, less, j)
  <2>1. Rank(seq, less, i) \in Int
    BY <1>2, <1>n
  <2>2. ~(<<i, j>> \in less) /\ ~(<<j, i>> \in less)
    BY <1>2a, <2>1
  <2> QED
    BY <2>2 DEF StrictOrder
<1> HIDE DEF n
<1>3. place \in [1..n -> 1..n] /\ \A i, j \in 1..n : place[i] = place[j] => i = j
  <2>1. \A i \in 1..n : Rank(seq, less, i) \in Int /\ Rank(seq, less, i) + 1 \in 1..n
    BY <1>n, <1>2
  <2>2. place \in [1..n -> 1..n]
    BY <2>1, Zenon
  <2>3. ASSUME NEW i \in 1..n, NEW j \in 1..n, place[i] = place[j]
        PROVE  Rank(seq, less, i) = Rank(seq, less, j)
    BY <2>1, <2>3
  <2> QED
    BY <2>2, <2>3, <1>1
<1> HIDE DEF place
<1>4. place \in Injection(1..n, 1..n)
  BY <1>3 DEF Injection, IsInjective
<1>5. place \in Surjection(1..n, 1..n)
  BY <1>4, <1>n, FS_Injection
<1>6. \A k \in 1..n : \E i \in 1..n : place[i] = k
  BY <1>5, Zenon DEF Surjection
<1>7. \A k \in 1..n : \E i \in 1..n : Rank(seq, less, i) = k - 1
  <2> TAKE k \in 1..n
  <2>1. PICK i \in 1..n : place[i] = k
    BY <1>6
  <2>2. Rank(seq, less, i) + 1 = k /\ Rank(seq, less, i) \in Int
    BY <2>1, <1>2, <1>n DEF place
  <2> QED
    BY <2>2, <1>n
<1> QED
  BY <1>1, <1>7 DEF n

Places(n) == {p \in [1..n -> 1..n] : /\ \A k, l \in 1..n : p[k] = p[l] => k = l
                                     /\ \A i \in 1..n : \E k \in 1..n : p[k] = i}

\* The sorted sequence is the given one at permuted positions, and they ascend.
LEMMA SortedPermutes ==
  ASSUME NEW S, NEW seq \in Seq(S), NEW less, StrictOrder(Len(seq), less)
  PROVE  \E p \in Places(Len(seq)) :
           /\ Sorted(seq, less) = [k \in 1..Len(seq) |-> seq[p[k]]]
           /\ \A k \in 1..Len(seq) : Rank(seq, less, p[k]) = k - 1
           /\ \A k, l \in 1..Len(seq) : k < l => <<p[k], p[l]>> \in less
<1> DEFINE n == Len(seq)
           p == [k \in 1..n |-> CHOOSE i \in 1..n : Rank(seq, less, i) = k - 1]
<1>n. n \in Nat /\ DOMAIN seq = 1..n
  OBVIOUS
<1>1. Sorted(seq, less) = [k \in 1..n |-> seq[p[k]]]
  BY <1>n DEF Sorted, Rank
<1>2. /\ \A i, j \in 1..n : Rank(seq, less, i) = Rank(seq, less, j) => i = j
      /\ \A k \in 1..n : \E i \in 1..n : Rank(seq, less, i) = k - 1
      /\ \A i \in 1..n : Rank(seq, less, i) \in 0..(n - 1)
      /\ \A i, j \in 1..n : <<i, j>> \in less => Rank(seq, less, i) < Rank(seq, less, j)
  BY RankBounds, RankTakesEveryPlace
<1>s. \A i, j \in 1..n : i # j => <<i, j>> \in less \/ <<j, i>> \in less
  BY DEF StrictOrder
<1> HIDE DEF n
<1>3. \A k \in 1..n : p[k] \in 1..n /\ Rank(seq, less, p[k]) = k - 1
  BY <1>2
<1>3a. p \in [1..n -> 1..n]
  BY <1>3
<1> HIDE DEF p
<1>4. \A k, l \in 1..n : p[k] = p[l] => k = l
  <2> TAKE k, l \in 1..n
  <2> HAVE p[k] = p[l]
  <2>1. k - 1 = l - 1
    BY <1>3
  <2> QED
    BY <2>1, <1>n
<1>5. \A i \in 1..n : \E k \in 1..n : p[k] = i
  <2> TAKE i \in 1..n
  <2> DEFINE r == Rank(seq, less, i)
  <2>1. r \in 0..(n - 1)
    BY <1>2
  <2> HIDE DEF r
  <2>2. r + 1 \in 1..n /\ (r + 1) - 1 = r
    BY <2>1, <1>n
  <2>3. p[r + 1] \in 1..n /\ Rank(seq, less, p[r + 1]) = r
    BY <2>2, <1>3
  <2>4. p[r + 1] = i
    BY <2>3, <1>2 DEF r
  <2> QED
    BY <2>2, <2>4
<1>6. \A k, l \in 1..n : k < l => <<p[k], p[l]>> \in less
  <2> TAKE k, l \in 1..n
  <2> HAVE k < l
  <2>1. p[k] # p[l]
    BY <1>4, <1>n
  <2>2. <<p[k], p[l]>> \in less \/ <<p[l], p[k]>> \in less
    BY <2>1, <1>3, <1>s
  <2>3. <<p[l], p[k]>> \in less => l - 1 < k - 1
    <3>1. p[l] \in 1..n /\ p[k] \in 1..n
      BY <1>3
    <3>2. <<p[l], p[k]>> \in less => Rank(seq, less, p[l]) < Rank(seq, less, p[k])
      BY <3>1, <1>2
    <3>3. Rank(seq, less, p[l]) = l - 1 /\ Rank(seq, less, p[k]) = k - 1
      BY <1>3
    <3> QED
      BY <3>2, <3>3
  <2> QED
    BY <2>2, <2>3, <1>n
<1>7. p \in Places(n)
  BY <1>3a, <1>4, <1>5 DEF Places
<1> QED
  BY <1>1, <1>3, <1>6, <1>7 DEF n

\* The result of a sort is a matter of what is sorted, not of the order it comes in.
LEMMA SortedIgnoresOrder ==
  ASSUME NEW S, NEW seq \in Seq(S), NEW other \in Seq(S), Len(other) = Len(seq),
         NEW g \in Places(Len(seq)), \A i \in 1..Len(seq) : other[i] = seq[g[i]],
         NEW less, NEW lessOther,
         \A i, j \in 1..Len(seq) : <<i, j>> \in lessOther <=> <<g[i], g[j]>> \in less,
         StrictOrder(Len(seq), less), StrictOrder(Len(seq), lessOther)
  PROVE  Sorted(other, lessOther) = Sorted(seq, less)
<1> DEFINE n == Len(seq)
<1>n. n \in Nat /\ IsFiniteSet(1..n)
  BY Positions
<1>g. /\ g \in [1..n -> 1..n]
      /\ \A k, l \in 1..n : g[k] = g[l] => k = l
      /\ \A i \in 1..n : \E k \in 1..n : g[k] = i
  BY DEF Places
<1>o. DOMAIN other = 1..n /\ StrictOrder(Len(other), lessOther)
  OBVIOUS
<1>a. \A i \in 1..n : Ahead(seq, less, i) = {j \in 1..n : <<j, i>> \in less}
  BY AheadIsLess
<1>b. \A i \in 1..n : Ahead(other, lessOther, i) = {j \in 1..n : <<j, i>> \in lessOther}
  BY AheadIsLess, <1>o
<1>r. \A i, j \in 1..n : Rank(seq, less, i) = Rank(seq, less, j) => i = j
  BY RankTakesEveryPlace
<1>1. ASSUME NEW i \in 1..n
      PROVE  Rank(other, lessOther, i) = Rank(seq, less, g[i])
  <2> DEFINE A == Ahead(other, lessOther, i)
             B == Ahead(seq, less, g[i])
             f == [j \in A |-> g[j]]
  <2>1. A = {j \in 1..n : <<j, i>> \in lessOther} /\ B = {j \in 1..n : <<j, g[i]>> \in less}
    BY <1>a, <1>b, <1>g
  <2>2. IsFiniteSet(A)
    BY <2>1, <1>n, FS_Subset
  <2> HIDE DEF A, B
  <2>3. f \in [A -> B]
    BY <2>1, <1>g
  <2>4. \A x, y \in A : f[x] = f[y] => x = y
    BY <2>1, <1>g
  <2>5. \A y \in B : \E x \in A : f[x] = y
    BY <2>1, <1>g
  <2> HIDE DEF f
  <2>6. f \in Injection(A, B) /\ f \in Surjection(A, B)
    BY <2>3, <2>4, <2>5 DEF Injection, Surjection, IsInjective
  <2>7. Cardinality(A) = Cardinality(B)
    BY <2>2, <2>6, FS_Surjection
  <2> QED
    BY <2>7 DEF Rank, A, B
<1>p. /\ \E p \in Places(n) : /\ Sorted(seq, less) = [k \in 1..n |-> seq[p[k]]]
                              /\ \A k \in 1..n : Rank(seq, less, p[k]) = k - 1
  <2>1. \E p \in Places(Len(seq)) :
           /\ Sorted(seq, less) = [k \in 1..Len(seq) |-> seq[p[k]]]
           /\ \A k \in 1..Len(seq) : Rank(seq, less, p[k]) = k - 1
           /\ \A k, l \in 1..Len(seq) : k < l => <<p[k], p[l]>> \in less
    BY SortedPermutes
  <2> QED
    BY <2>1
<1>q. \E q \in Places(n) : /\ Sorted(other, lessOther) = [k \in 1..n |-> other[q[k]]]
                           /\ \A k \in 1..n : Rank(other, lessOther, q[k]) = k - 1
  <2>1. \E p \in Places(Len(other)) :
           /\ Sorted(other, lessOther) = [k \in 1..Len(other) |-> other[p[k]]]
           /\ \A k \in 1..Len(other) : Rank(other, lessOther, p[k]) = k - 1
           /\ \A k, l \in 1..Len(other) : k < l => <<p[k], p[l]>> \in lessOther
    BY SortedPermutes, <1>o
  <2> QED
    BY <2>1
<1>2. PICK p \in Places(n) :
        /\ Sorted(seq, less) = [k \in 1..n |-> seq[p[k]]]
        /\ \A k \in 1..n : Rank(seq, less, p[k]) = k - 1
  BY <1>p
<1>3. PICK q \in Places(n) :
        /\ Sorted(other, lessOther) = [k \in 1..n |-> other[q[k]]]
        /\ \A k \in 1..n : Rank(other, lessOther, q[k]) = k - 1
  BY <1>q
<1>4. p \in [1..n -> 1..n] /\ q \in [1..n -> 1..n]
  BY DEF Places
<1>5. \A k \in 1..n : p[k] = g[q[k]]
  <2> TAKE k \in 1..n
  <2>1. q[k] \in 1..n /\ p[k] \in 1..n
    BY <1>4
  <2>2. g[q[k]] \in 1..n /\ Rank(seq, less, g[q[k]]) = Rank(other, lessOther, q[k])
    BY <2>1, <1>g, <1>1
  <2>3. Rank(seq, less, p[k]) = Rank(seq, less, g[q[k]])
    BY <2>2, <1>2, <1>3
  <2> QED
    BY <2>1, <2>2, <2>3, <1>r
<1>6. \A k \in 1..n : other[q[k]] = seq[p[k]]
  BY <1>4, <1>5
<1> HIDE DEF n
<1> QED
  BY <1>2, <1>3, <1>6
-----------------------------------------------------------------------------
(* The comparisons.                                                            *)

\* A difference between two identifiers has a first place.
LEMMA FirstDifference ==
  ASSUME NEW D, D \subseteq Nat, D # {}
  PROVE  Min(D) \in D /\ \A y \in D : Min(D) <= y
<1>1. IsWellFoundedOn(OpToRel(<, Nat), Nat)
  BY NatLessThanWellFounded
<1>2. PICK x \in D : \A y \in D : ~(<<y, x>> \in OpToRel(<, Nat))
  BY <1>1, WFMin
<1>3. \A a, b \in Nat : a < b => <<a, b>> \in OpToRel(<, Nat)
  <2> SUFFICES ASSUME NEW a \in Nat, NEW b \in Nat, a < b
               PROVE  <<a, b>> \in {ss \in Nat \X Nat : ss[1] < ss[2]}
    BY Zenon DEF OpToRel
  <2>1. <<a, b>> \in Nat \X Nat /\ <<a, b>>[1] = a /\ <<a, b>>[2] = b
    OBVIOUS
  <2> QED
    BY <2>1, Zenon
<1>4. \A y \in D : x <= y
  <2> TAKE y \in D
  <2>1. x \in Nat /\ y \in Nat
    OBVIOUS
  <2>2. ~(y < x)
    BY <2>1, <1>2, <1>3, Zenon
  <2> QED
    BY <2>1, <2>2
<1> QED
  BY <1>4 DEF Min

\* The bytes of an identifier are numbers, and they make the identifier.
LEMMA UuidBytes ==
  /\ UuidLength \in Nat
  /\ \A x \in Threads : Uuid[x] \in [1..UuidLength -> 0..255]
  /\ \A x \in Threads, i \in 1..UuidLength : Uuid[x][i] \in Nat
  /\ \A s, t \in Threads : (\A i \in 1..UuidLength : Uuid[s][i] = Uuid[t][i]) => s = t
<1>1. \A x \in Threads : Uuid[x] \in [1..UuidLength -> 0..255]
  BY PolicyAssumption
<1>2. \A x \in Threads, i \in 1..UuidLength : Uuid[x][i] \in 0..255
  BY <1>1
<1>3. ASSUME NEW s \in Threads, NEW t \in Threads,
             \A i \in 1..UuidLength : Uuid[s][i] = Uuid[t][i]
      PROVE  s = t
  <2>1. /\ Uuid[s] = [i \in 1..UuidLength |-> Uuid[s][i]]
        /\ Uuid[t] = [i \in 1..UuidLength |-> Uuid[t][i]]
    BY <1>1
  <2>2. [i \in 1..UuidLength |-> Uuid[s][i]] = [i \in 1..UuidLength |-> Uuid[t][i]]
    BY <1>3
  <2>3. Uuid[s] = Uuid[t]
    BY <2>1, <2>2, Zenon
  <2> QED
    BY <2>3, PolicyAssumption
<1>4. \A x \in Threads, i \in 1..UuidLength : Uuid[x][i] \in Nat
  <2> TAKE x \in Threads, i \in 1..UuidLength
  <2>1. Uuid[x][i] \in 0..255
    BY <1>2, Zenon
  <2>2. \A n \in 0..255 : n \in Nat
    OBVIOUS
  <2> QED
    BY <2>1, <2>2, Zenon
<1>5. UuidLength \in Nat
  BY PolicyAssumption
<1> QED
  BY <1>1, <1>3, <1>4, <1>5

\* The bytewise comparison is the lexicographic order of the identifiers.
LEMMA ComparisonIsLexicographic ==
  ASSUME NEW s \in Threads, NEW t \in Threads
  PROVE  /\ CompareThreadIds(s, t) \in Int
         /\ CompareThreadIds(s, t) < 0 <=> IdPrecedes(s, t)
         /\ CompareThreadIds(s, t) > 0 <=> IdPrecedes(t, s)
         /\ CompareThreadIds(s, t) = 0 <=> s = t
<1> DEFINE D == {i \in 1..UuidLength : Uuid[s][i] # Uuid[t][i]}
           m == Min(D)
<1>u. /\ UuidLength \in Nat
      /\ \A x \in Threads : \A i \in 1..UuidLength : Uuid[x][i] \in Nat
      /\ (\A i \in 1..UuidLength : Uuid[s][i] = Uuid[t][i]) => s = t
  BY UuidBytes
<1>1. CASE D = {}
  <2>1. \A i \in 1..UuidLength : Uuid[s][i] = Uuid[t][i]
    BY <1>1
  <2>2. s = t
    BY <2>1, <1>u
  <2>3. CompareThreadIds(s, t) = 0
    BY <1>1 DEF CompareThreadIds
  <2>4. ~IdPrecedes(s, t) /\ ~IdPrecedes(t, s)
    BY <2>1, <1>u DEF IdPrecedes
  <2> QED
    BY <2>2, <2>3, <2>4
<1>2. CASE D # {}
  <2>1. D \subseteq Nat
    BY <1>u
  <2>2. m \in D /\ \A y \in D : m <= y
    BY <1>2, <2>1, FirstDifference
  <2>3. CompareThreadIds(s, t) = Uuid[s][m] - Uuid[t][m]
    BY <1>2 DEF CompareThreadIds
  <2> HIDE DEF m
  <2>4. m \in 1..UuidLength /\ Uuid[s][m] # Uuid[t][m]
        /\ \A j \in 1..(m - 1) : Uuid[s][j] = Uuid[t][j]
    BY <2>2, <1>u
  <2>5. Uuid[s][m] \in Nat /\ Uuid[t][m] \in Nat
    BY <2>4, <1>u
  <2>6. Uuid[s][m] < Uuid[t][m] => IdPrecedes(s, t) /\ ~IdPrecedes(t, s)
    <3> HAVE Uuid[s][m] < Uuid[t][m]
    <3>1. IdPrecedes(s, t)
      BY <2>4 DEF IdPrecedes
    <3>2. ASSUME NEW i \in 1..UuidLength, Uuid[t][i] < Uuid[s][i],
                 \A j \in 1..(i - 1) : Uuid[t][j] = Uuid[s][j]
          PROVE  FALSE
      <4>1. i < m \/ i = m \/ m \in 1..(i - 1)
        BY <2>4, <1>u
      <4>2. i < m => i \in 1..(m - 1)
        BY <2>4, <1>u
      <4>3. Uuid[s][i] \in Nat /\ Uuid[t][i] \in Nat
        BY <1>u
      <4> QED
        BY <3>2, <4>1, <4>2, <4>3, <2>4, <2>5
    <3> QED
      BY <3>1, <3>2 DEF IdPrecedes
  <2>7. Uuid[t][m] < Uuid[s][m] => IdPrecedes(t, s) /\ ~IdPrecedes(s, t)
    <3> HAVE Uuid[t][m] < Uuid[s][m]
    <3>1. IdPrecedes(t, s)
      BY <2>4 DEF IdPrecedes
    <3>2. ASSUME NEW i \in 1..UuidLength, Uuid[s][i] < Uuid[t][i],
                 \A j \in 1..(i - 1) : Uuid[s][j] = Uuid[t][j]
          PROVE  FALSE
      <4>1. i < m \/ i = m \/ m \in 1..(i - 1)
        BY <2>4, <1>u
      <4>2. i < m => i \in 1..(m - 1)
        BY <2>4, <1>u
      <4>3. Uuid[s][i] \in Nat /\ Uuid[t][i] \in Nat
        BY <1>u
      <4> QED
        BY <3>2, <4>1, <4>2, <4>3, <2>4, <2>5
    <3> QED
      BY <3>1, <3>2 DEF IdPrecedes
  <2>8. s # t
    BY <2>4
  <2> QED
    BY <2>3, <2>4, <2>5, <2>6, <2>7, <2>8
<1> QED
  BY <1>1, <1>2

\* The lexicographic order is transitive.
LEMMA IdPrecedesTransitive ==
  ASSUME NEW s \in Threads, NEW t \in Threads, NEW u \in Threads,
         IdPrecedes(s, t), IdPrecedes(t, u)
  PROVE  IdPrecedes(s, u)
<1>u. /\ UuidLength \in Nat
      /\ \A x \in Threads : \A i \in 1..UuidLength : Uuid[x][i] \in Nat
  BY UuidBytes
<1>1. PICK a \in 1..UuidLength : /\ Uuid[s][a] < Uuid[t][a]
                                 /\ \A j \in 1..(a - 1) : Uuid[s][j] = Uuid[t][j]
  BY DEF IdPrecedes
<1>2. PICK b \in 1..UuidLength : /\ Uuid[t][b] < Uuid[u][b]
                                 /\ \A j \in 1..(b - 1) : Uuid[t][j] = Uuid[u][j]
  BY DEF IdPrecedes
<1>3. CASE a < b
  <2>1. a \in 1..(b - 1) /\ \A j \in 1..(a - 1) : j \in 1..(b - 1)
    BY <1>3, <1>u
  <2>2. Uuid[s][a] < Uuid[u][a] /\ \A j \in 1..(a - 1) : Uuid[s][j] = Uuid[u][j]
    BY <2>1, <1>1, <1>2, <1>u
  <2> QED
    BY <2>2 DEF IdPrecedes
<1>4. CASE b < a
  <2>1. b \in 1..(a - 1) /\ \A j \in 1..(b - 1) : j \in 1..(a - 1)
    BY <1>4, <1>u
  <2>2. Uuid[s][b] < Uuid[u][b] /\ \A j \in 1..(b - 1) : Uuid[s][j] = Uuid[u][j]
    BY <2>1, <1>1, <1>2, <1>u
  <2> QED
    BY <2>2 DEF IdPrecedes
<1>5. CASE a = b
  <2>2. Uuid[s][a] < Uuid[u][a] /\ \A j \in 1..(a - 1) : Uuid[s][j] = Uuid[u][j]
    BY <1>5, <1>1, <1>2, <1>u
  <2> QED
    BY <2>2 DEF IdPrecedes
<1> QED
  BY <1>3, <1>4, <1>5, <1>u

\* The moment that counts for a candidate is an instant or unknown.
LEMMA EffectiveTimestampType ==
  ASSUME NEW c \in Candidates, NEW at \in Times
  PROVE  EffectiveTimestamp(c.timestamp, at) \in Times \cup {UnknownTime}
<1>1. c.timestamp \in Times \cup {UnknownTime}
  BY DEF Candidates
<1> QED
  BY <1>1 DEF EffectiveTimestamp

\* Newest first and unknown last is a total preorder of moments.
LEMMA TimesAreOrdered ==
  ASSUME NEW a \in Times \cup {UnknownTime}, NEW b \in Times \cup {UnknownTime},
         NEW c \in Times \cup {UnknownTime}
  PROVE  /\ CompareTimes(a, b) \in Int
         /\ CompareTimes(a, b) = 0 <=> a = b
         /\ CompareTimes(a, b) > 0 <=> CompareTimes(b, a) < 0
         /\ CompareTimes(a, b) < 0 /\ CompareTimes(b, c) < 0 => CompareTimes(a, c) < 0
<1>1. UnknownTime \notin Int /\ Times \subseteq Int
  BY PolicyAssumption DEF Times
<1>2. \A x, y \in Times \cup {UnknownTime} :
        CompareTimes(x, y) = IF x = UnknownTime THEN (IF y = UnknownTime THEN 0 ELSE 1)
                             ELSE (IF y = UnknownTime THEN -1 ELSE y - x)
  BY DEF CompareTimes
<1> HIDE DEF CompareTimes
<1> QED
  BY <1>1, <1>2

\* Admission compares candidates by moment, then by identifier: of two threads one
\* comes first.
LEMMA CandidatesAreOrdered ==
  ASSUME NEW at \in Times
  PROVE  /\ \A c, d \in Candidates : CompareCandidates(c, d, at) \in Int
         /\ \A c \in Candidates : ~(CompareCandidates(c, c, at) < 0)
         /\ \A c, d \in Candidates : c.thread # d.thread =>
              CompareCandidates(c, d, at) < 0 \/ CompareCandidates(d, c, at) < 0
         /\ \A c, d, e \in Candidates :
              CompareCandidates(c, d, at) < 0 /\ CompareCandidates(d, e, at) < 0 =>
                CompareCandidates(c, e, at) < 0
         /\ \A c, d \in Candidates : CompareCandidates(c, d, at) < 0 <=>
              LET times == CompareTimes(EffectiveTimestamp(c.timestamp, at),
                                        EffectiveTimestamp(d.timestamp, at))
              IN times < 0 \/ (times = 0 /\ IdPrecedes(c.thread, d.thread))
<1> DEFINE moment(c) == EffectiveTimestamp(c.timestamp, at)
           before(c, d) == \/ CompareTimes(moment(c), moment(d)) < 0
                           \/ moment(c) = moment(d) /\ IdPrecedes(c.thread, d.thread)
<1>1. \A c \in Candidates : moment(c) \in Times \cup {UnknownTime} /\ c.thread \in Threads
  BY EffectiveTimestampType DEF Candidates
<1>2. \A c, d \in Candidates :
        CompareCandidates(c, d, at) = IF CompareTimes(moment(c), moment(d)) # 0
                                      THEN CompareTimes(moment(c), moment(d))
                                      ELSE CompareThreadIds(c.thread, d.thread)
  BY DEF CompareCandidates
<1> HIDE DEF moment
<1>3. \A c, d \in Candidates : /\ CompareTimes(moment(c), moment(d)) \in Int
                               /\ CompareTimes(moment(c), moment(d)) = 0 <=> moment(c) = moment(d)
                               /\ CompareTimes(moment(c), moment(d)) > 0 <=> CompareTimes(moment(d), moment(c)) < 0
  BY <1>1, TimesAreOrdered
<1>3a. \A c, d, e \in Candidates :
         CompareTimes(moment(c), moment(d)) < 0 /\ CompareTimes(moment(d), moment(e)) < 0 =>
           CompareTimes(moment(c), moment(e)) < 0
  BY <1>1, TimesAreOrdered
<1>4. \A c, d \in Candidates :
        /\ CompareThreadIds(c.thread, d.thread) \in Int
        /\ CompareThreadIds(c.thread, d.thread) < 0 <=> IdPrecedes(c.thread, d.thread)
        /\ CompareThreadIds(c.thread, d.thread) > 0 <=> IdPrecedes(d.thread, c.thread)
        /\ CompareThreadIds(c.thread, d.thread) = 0 <=> c.thread = d.thread
  BY <1>1, ComparisonIsLexicographic
<1>5. \A c, d \in Candidates : CompareCandidates(c, d, at) \in Int
  BY <1>2, <1>3, <1>4
<1>6. \A c, d \in Candidates : CompareCandidates(c, d, at) < 0 <=> before(c, d)
  BY <1>2, <1>3, <1>4
<1>7. \A c \in Candidates : ~before(c, c)
  BY <1>3, <1>4
<1>8. ASSUME NEW c \in Candidates, NEW d \in Candidates, c.thread # d.thread
      PROVE  before(c, d) \/ before(d, c)
  BY <1>3, <1>4, <1>8
<1>9. ASSUME NEW c \in Candidates, NEW d \in Candidates, NEW e \in Candidates,
             before(c, d), before(d, e)
      PROVE  before(c, e)
  <2>1. IdPrecedes(c.thread, d.thread) /\ IdPrecedes(d.thread, e.thread) => IdPrecedes(c.thread, e.thread)
    BY <1>1, IdPrecedesTransitive
  <2> QED
    BY <2>1, <1>3, <1>3a, <1>9
<1>10. \A c, d \in Candidates : CompareCandidates(c, d, at) < 0 <=>
         \/ CompareTimes(moment(c), moment(d)) < 0
         \/ CompareTimes(moment(c), moment(d)) = 0 /\ IdPrecedes(c.thread, d.thread)
  BY <1>6, <1>3
<1> HIDE DEF before
<1> QED
  BY <1>5, <1>6, <1>7, <1>8, <1>9, <1>10 DEF moment
-----------------------------------------------------------------------------
(* Admission.                                                                  *)

\* The smaller and the larger of two numbers.
LEMMA OfTwo ==
  ASSUME NEW a \in Int, NEW b \in Int
  PROVE  /\ Min({a, b}) = IF b < a THEN b ELSE a
         /\ Max({a, b}) = IF b > a THEN b ELSE a
<1>1. /\ \A x \in {a, b} : x \in Int
      /\ (IF b < a THEN b ELSE a) \in {a, b}
      /\ (IF b > a THEN b ELSE a) \in {a, b}
  OBVIOUS
<1>2. \A x, y \in {a, b} : (\A z \in {a, b} : x <= z) /\ (\A z \in {a, b} : y <= z) => x = y
  BY <1>1
<1>3. \A x, y \in {a, b} : (\A z \in {a, b} : x >= z) /\ (\A z \in {a, b} : y >= z) => x = y
  BY <1>1
<1>4. \A z \in {a, b} : (IF b < a THEN b ELSE a) <= z /\ (IF b > a THEN b ELSE a) >= z
  OBVIOUS
<1>5. Min({a, b}) \in {a, b} /\ \A z \in {a, b} : Min({a, b}) <= z
  BY <1>1, <1>4 DEF Min
<1>6. Max({a, b}) \in {a, b} /\ \A z \in {a, b} : Max({a, b}) >= z
  BY <1>1, <1>4 DEF Max
<1> QED
  BY <1>1, <1>2, <1>3, <1>4, <1>5, <1>6

\* A prefix.
LEMMA UpToPrefix ==
  ASSUME NEW S, NEW seq \in Seq(S), NEW n \in Nat
  PROVE  /\ UpTo(seq, n) \in Seq(S)
         /\ Len(UpTo(seq, n)) = IF Len(seq) < n THEN Len(seq) ELSE n
         /\ \A i \in 1..Len(UpTo(seq, n)) : i \in 1..Len(seq) /\ UpTo(seq, n)[i] = seq[i]
<1> DEFINE m == IF Len(seq) < n THEN Len(seq) ELSE n
<1>1. m \in Nat /\ m <= Len(seq) /\ UpTo(seq, n) = SubSeq(seq, 1, m)
  BY DEF UpTo
<1> HIDE DEF m
<1>2. \A i \in 1..m : seq[i] \in S
  BY <1>1
<1>3. /\ SubSeq(seq, 1, m) \in Seq(S)
      /\ Len(SubSeq(seq, 1, m)) = m
      /\ \A i \in 1..m : SubSeq(seq, 1, m)[i] = seq[i]
  BY <1>1, <1>2, SubSeqProperties
<1> QED
  BY <1>1, <1>3 DEF m

\* Which positions the admission tells apart.
LEMMA AdmissionOrderPairs ==
  ASSUME NEW cs \in Seq(Candidates), NEW at
  PROVE  \A i, j \in 1..Len(cs) :
           <<i, j>> \in AdmissionOrder(cs, at) <=> CompareCandidates(cs[i], cs[j], at) < 0
<1> SUFFICES ASSUME NEW i \in 1..Len(cs), NEW j \in 1..Len(cs)
             PROVE  <<i, j>> \in {p \in (DOMAIN cs) \X (DOMAIN cs) :
                                   CompareCandidates(cs[p[1]], cs[p[2]], at) < 0}
                    <=> CompareCandidates(cs[i], cs[j], at) < 0
  BY Zenon DEF AdmissionOrder
<1>1. <<i, j>> \in (DOMAIN cs) \X (DOMAIN cs) /\ <<i, j>>[1] = i /\ <<i, j>>[2] = j
  OBVIOUS
<1> QED
  BY <1>1, Zenon

\* With one candidate per thread the admission leaves none tied.
LEMMA AdmissionOrderIsStrict ==
  ASSUME NEW cs \in Seq(Candidates), DistinctThreads(cs), NEW at \in Times
  PROVE  StrictOrder(Len(cs), AdmissionOrder(cs, at))
<1>1. \A i \in 1..Len(cs) : cs[i] \in Candidates
  OBVIOUS
<1>2. \A i, j \in 1..Len(cs) : i # j => cs[i].thread # cs[j].thread
  BY DEF DistinctThreads
<1>3. \A i, j \in 1..Len(cs) :
        <<i, j>> \in AdmissionOrder(cs, at) <=> CompareCandidates(cs[i], cs[j], at) < 0
  BY AdmissionOrderPairs
<1>4. /\ \A c \in Candidates : ~(CompareCandidates(c, c, at) < 0)
      /\ \A c, d \in Candidates : c.thread # d.thread =>
           CompareCandidates(c, d, at) < 0 \/ CompareCandidates(d, c, at) < 0
      /\ \A c, d, e \in Candidates :
           CompareCandidates(c, d, at) < 0 /\ CompareCandidates(d, e, at) < 0 =>
             CompareCandidates(c, e, at) < 0
  BY CandidatesAreOrdered
<1>5. \A i \in 1..Len(cs) : <<i, i>> \notin AdmissionOrder(cs, at)
  BY <1>1, <1>3, <1>4
<1>6. \A i, j \in 1..Len(cs) : i # j =>
        <<i, j>> \in AdmissionOrder(cs, at) \/ <<j, i>> \in AdmissionOrder(cs, at)
  BY <1>1, <1>2, <1>3, <1>4
<1>7. ASSUME NEW i \in 1..Len(cs), NEW j \in 1..Len(cs), NEW k \in 1..Len(cs),
             <<i, j>> \in AdmissionOrder(cs, at), <<j, k>> \in AdmissionOrder(cs, at)
      PROVE  <<i, k>> \in AdmissionOrder(cs, at)
  <2>1. CompareCandidates(cs[i], cs[j], at) < 0 /\ CompareCandidates(cs[j], cs[k], at) < 0
    BY <1>3, <1>7
  <2>2. CompareCandidates(cs[i], cs[k], at) < 0
    BY <2>1, <1>1, <1>4
  <2> QED
    BY <2>2, <1>3
<1> QED
  BY <1>5, <1>6, <1>7 DEF StrictOrder

CapLength(cs) == IF Len(cs) < CandidateLimit THEN Len(cs) ELSE CandidateLimit

\* A well scoped snapshot is admitted: the first of its candidates, in ascending order.
LEMMA AdmissionPlaces ==
  ASSUME NEW scope, NEW cs \in Seq(Candidates), NEW at \in Times, WellScoped(cs, scope),
         NEW adm, adm = AdmitPriorityPolicyCandidates(scope, cs, at)
  PROVE  /\ adm \in Seq(Candidates) /\ Len(adm) = CapLength(cs)
         /\ Len(adm) \in Nat /\ Len(adm) <= Len(cs) /\ Len(adm) <= CandidateLimit
         /\ \E p \in Places(Len(cs)) :
              /\ \A k \in 1..Len(adm) : adm[k] = cs[p[k]]
              /\ \A k, l \in 1..Len(cs) : k < l => CompareCandidates(cs[p[k]], cs[p[l]], at) < 0
<1> DEFINE n == Len(cs)
           sort == Sorted(cs, AdmissionOrder(cs, at))
<1>n. n \in Nat /\ CandidateLimit \in Nat
  BY CollectionAssumption
<1>1. StrictOrder(n, AdmissionOrder(cs, at))
  BY AdmissionOrderIsStrict DEF WellScoped
<1>2. PICK p \in Places(n) :
        /\ sort = [k \in 1..n |-> cs[p[k]]]
        /\ \A k, l \in 1..n : k < l => <<p[k], p[l]>> \in AdmissionOrder(cs, at)
  <2>1. \E p \in Places(Len(cs)) :
           /\ sort = [k \in 1..Len(cs) |-> cs[p[k]]]
           /\ \A k \in 1..Len(cs) : Rank(cs, AdmissionOrder(cs, at), p[k]) = k - 1
           /\ \A k, l \in 1..Len(cs) : k < l => <<p[k], p[l]>> \in AdmissionOrder(cs, at)
    BY <1>1, SortedPermutes
  <2> QED
    BY <2>1
<1>3. adm = UpTo(sort, CandidateLimit)
  BY DEF AdmitPriorityPolicyCandidates
<1>4. p \in [1..n -> 1..n]
  BY DEF Places
<1>5. \A k, l \in 1..n : k < l => CompareCandidates(cs[p[k]], cs[p[l]], at) < 0
  BY <1>2, <1>4, AdmissionOrderPairs
<1>6. \A k \in 1..n : cs[p[k]] \in Candidates
  BY <1>4
<1> HIDE DEF sort
<1>7. sort \in Seq(Candidates) /\ Len(sort) = n /\ \A k \in 1..n : sort[k] = cs[p[k]]
  BY <1>2, <1>6, <1>n
<1>8. /\ adm \in Seq(Candidates)
      /\ Len(adm) = IF n < CandidateLimit THEN n ELSE CandidateLimit
      /\ \A k \in 1..Len(adm) : k \in 1..n /\ adm[k] = sort[k]
  BY <1>3, <1>7, <1>n, UpToPrefix
<1> QED
  BY <1>5, <1>7, <1>8, <1>n DEF CapLength

\* What is admitted is well scoped in turn.
LEMMA AdmittedIsWellScoped ==
  ASSUME NEW scope, NEW cs \in Seq(Candidates), NEW at \in Times, WellScoped(cs, scope),
         NEW adm, adm = AdmitPriorityPolicyCandidates(scope, cs, at)
  PROVE  WellScoped(adm, scope)
<1>1. /\ adm \in Seq(Candidates)
      /\ Len(adm) \in Nat /\ Len(adm) <= Len(cs)
      /\ \E p \in Places(Len(cs)) : \A k \in 1..Len(adm) : adm[k] = cs[p[k]]
  BY AdmissionPlaces
<1>2. PICK p \in Places(Len(cs)) : \A k \in 1..Len(adm) : adm[k] = cs[p[k]]
  BY <1>1
<1>3a. p \in [1..Len(cs) -> 1..Len(cs)] /\ \A k, l \in 1..Len(cs) : p[k] = p[l] => k = l
  BY DEF Places
<1>3b. \A k \in 1..Len(adm) : k \in 1..Len(cs)
  BY <1>1
<1>3. /\ \A k \in 1..Len(adm) : k \in 1..Len(cs) /\ p[k] \in 1..Len(cs)
      /\ \A k, l \in 1..Len(cs) : p[k] = p[l] => k = l
  BY <1>3a, <1>3b
<1>4. DOMAIN adm = 1..Len(adm) /\ DOMAIN cs = 1..Len(cs)
  BY <1>1
<1>5. \A k \in 1..Len(adm) : adm[k].scope = scope /\ IsPriorityPolicyCandidateEligible(adm[k].location)
  BY <1>2, <1>3, <1>4 DEF WellScoped
<1>6. \A k, l \in 1..Len(adm) : adm[k].thread = adm[l].thread => k = l
  BY <1>2, <1>3, <1>4 DEF WellScoped, DistinctThreads
<1> QED
  BY <1>4, <1>5, <1>6 DEF WellScoped, DistinctThreads

\* A reversed snapshot is well scoped when the snapshot is, and admits the same.
LEMMA AdmissionIgnoresOrder ==
  ASSUME NEW scope, NEW cs \in Seq(Candidates), NEW at \in Times, WellScoped(cs, scope)
  PROVE  /\ Reverse(cs) \in Seq(Candidates)
         /\ WellScoped(Reverse(cs), scope)
         /\ AdmitPriorityPolicyCandidates(scope, Reverse(cs), at)
              = AdmitPriorityPolicyCandidates(scope, cs, at)
<1> DEFINE n == Len(cs)
           rev == Reverse(cs)
           g == [i \in 1..n |-> (n - i) + 1]
<1>n. n \in Nat /\ DOMAIN cs = 1..n /\ \A i \in 1..n : cs[i] \in Candidates
  OBVIOUS
<1>r. rev = [i \in 1..n |-> cs[(n - i) + 1]]
  BY DEF Reverse
<1>c. WellScoped(cs, scope)
  OBVIOUS
<1> HIDE DEF n, rev
<1>1. /\ \A i \in 1..n : (n - i) + 1 \in 1..n /\ g[i] = (n - i) + 1
      /\ \A k, l \in 1..n : g[k] = g[l] => k = l
      /\ \A i \in 1..n : g[(n - i) + 1] = i
  BY <1>n
<1>1a. g \in [1..n -> 1..n]
  BY <1>1
<1> HIDE DEF g
<1>2. g \in Places(n)
  <2>1. \A i \in 1..n : \E k \in 1..n : g[k] = i
    BY <1>1
  <2> QED
    BY <1>1, <1>1a, <2>1 DEF Places
<1>3. \A i \in 1..n : g[i] \in 1..n /\ rev[i] = cs[g[i]]
  BY <1>1, <1>r
<1>4. rev \in Seq(Candidates) /\ Len(rev) = n /\ DOMAIN rev = 1..n
  BY <1>r, <1>n, <1>1
<1>5. /\ \A i \in 1..n : rev[i].scope = scope /\ IsPriorityPolicyCandidateEligible(rev[i].location)
      /\ \A i, j \in 1..n : rev[i].thread = rev[j].thread => i = j
  <2>1. /\ \A i \in 1..n : cs[i].scope = scope /\ IsPriorityPolicyCandidateEligible(cs[i].location)
        /\ \A i, j \in 1..n : cs[i].thread = cs[j].thread => i = j
    BY <1>n, <1>c DEF WellScoped, DistinctThreads
  <2>2. \A i \in 1..n : rev[i].scope = scope /\ IsPriorityPolicyCandidateEligible(rev[i].location)
    BY <1>3, <2>1
  <2>3. ASSUME NEW i \in 1..n, NEW j \in 1..n, rev[i].thread = rev[j].thread
        PROVE  i = j
    <3>1. g[i] \in 1..n /\ g[j] \in 1..n /\ cs[g[i]].thread = cs[g[j]].thread
      BY <1>3, <2>3
    <3>2. g[i] = g[j]
      BY <2>1, <3>1
    <3> QED
      BY <1>1, <3>2
  <2> QED
    BY <2>2, <2>3
<1>6. WellScoped(rev, scope)
  BY <1>4, <1>5 DEF WellScoped, DistinctThreads
<1>7. StrictOrder(n, AdmissionOrder(cs, at)) /\ StrictOrder(n, AdmissionOrder(rev, at))
  <2>1. DistinctThreads(cs) /\ DistinctThreads(rev)
    BY <1>6, <1>c DEF WellScoped
  <2>2. StrictOrder(Len(cs), AdmissionOrder(cs, at)) /\ StrictOrder(Len(rev), AdmissionOrder(rev, at))
    BY <2>1, <1>4, AdmissionOrderIsStrict
  <2> QED
    BY <2>2, <1>4 DEF n
<1>8. \A i, j \in 1..n : <<i, j>> \in AdmissionOrder(rev, at) <=> <<g[i], g[j]>> \in AdmissionOrder(cs, at)
  <2>1. \A i, j \in 1..n : <<i, j>> \in AdmissionOrder(rev, at) <=> CompareCandidates(rev[i], rev[j], at) < 0
    BY <1>4, AdmissionOrderPairs
  <2>2. \A i, j \in 1..n : <<i, j>> \in AdmissionOrder(cs, at) <=> CompareCandidates(cs[i], cs[j], at) < 0
    BY AdmissionOrderPairs DEF n
  <2> QED
    BY <2>1, <2>2, <1>3
<1>9. Sorted(rev, AdmissionOrder(rev, at)) = Sorted(cs, AdmissionOrder(cs, at))
  <2> DEFINE less == AdmissionOrder(cs, at)
             lessRev == AdmissionOrder(rev, at)
  <2>1. /\ cs \in Seq(Candidates) /\ rev \in Seq(Candidates) /\ Len(rev) = Len(cs)
        /\ g \in Places(Len(cs))
        /\ \A i \in 1..Len(cs) : rev[i] = cs[g[i]]
        /\ \A i, j \in 1..Len(cs) : <<i, j>> \in lessRev <=> <<g[i], g[j]>> \in less
        /\ StrictOrder(Len(cs), less)
        /\ StrictOrder(Len(cs), lessRev)
    BY <1>2, <1>3, <1>4, <1>7, <1>8 DEF n
  <2> HIDE DEF less, lessRev
  <2>2. Sorted(rev, lessRev) = Sorted(cs, less)
    BY <2>1, SortedIgnoresOrder
  <2> QED
    BY <2>2 DEF less, lessRev
<1>10. AdmitPriorityPolicyCandidates(scope, rev, at) = AdmitPriorityPolicyCandidates(scope, cs, at)
  BY <1>6, <1>9, <1>c DEF AdmitPriorityPolicyCandidates
<1> QED
  BY <1>4, <1>6, <1>10 DEF rev
-----------------------------------------------------------------------------
(* Evaluation and the final order.                                             *)

\* A sequence of one, and of none.
LEMMA ShortSequences ==
  ASSUME NEW S, NEW x \in S
  PROVE  /\ <<x>> \in Seq(S) /\ Len(<<x>>) = 1 /\ <<x>>[1] = x
         /\ <<>> \in Seq(S) /\ Len(<<>>) = 0
OBVIOUS

\* The reasons of an evaluation are well formed for every star and every correction.
LEMMA ReasonsAreValid ==
  ASSUME NEW star \in Membership, NEW correction \in Corrections,
         NEW codes, codes = Reasons(star, correction)
  PROVE  /\ codes \in Seq(ReasonCodes) /\ Len(codes) \in Nat /\ IsInjective(codes)
         /\ Range(codes) \subseteq ReasonCodes
<1> DEFINE user == CASE correction = "PRIORITIZE" -> <<"USER_PRIORITIZE">>
                     [] correction = "NOT_IMPORTANT" -> <<"USER_NOT_IMPORTANT">>
                     [] OTHER -> <<>>
           tail == IF star = "VERIFIED_PRESENT" THEN <<"PROVIDER_STAR">> ELSE <<>>
<1>1. codes = user \o tail
  BY DEF Reasons
<1>2. /\ user \in Seq(ReasonCodes) /\ Len(user) \in {0, 1}
      /\ \A i \in 1..Len(user) : user[i] # "PROVIDER_STAR"
  <2>1. "USER_PRIORITIZE" \in ReasonCodes /\ "USER_NOT_IMPORTANT" \in ReasonCodes
    BY DEF ReasonCodes
  <2>2. CASE correction = "PRIORITIZE"
    <3>1. user = <<"USER_PRIORITIZE">>
      BY <2>2
    <3>2. /\ user \in Seq(ReasonCodes) /\ Len(user) = 1 /\ user[1] = "USER_PRIORITIZE"
      BY <3>1, <2>1, ShortSequences
    <3> QED
      BY <3>2
  <2>3. CASE correction = "NOT_IMPORTANT"
    <3>1. user = <<"USER_NOT_IMPORTANT">>
      BY <2>3
    <3>2. /\ user \in Seq(ReasonCodes) /\ Len(user) = 1 /\ user[1] = "USER_NOT_IMPORTANT"
      BY <3>1, <2>1, ShortSequences
    <3> QED
      BY <3>2
  <2>4. CASE correction # "PRIORITIZE" /\ correction # "NOT_IMPORTANT"
    <3>1. user = <<>>
      BY <2>4
    <3>2. user \in Seq(ReasonCodes) /\ Len(user) = 0
      BY <3>1, <2>1, ShortSequences
    <3> QED
      BY <3>2
  <2> QED
    BY <2>2, <2>3, <2>4
<1>3. /\ tail \in Seq(ReasonCodes) /\ Len(tail) \in {0, 1}
      /\ \A i \in 1..Len(tail) : tail[i] = "PROVIDER_STAR"
  <2>1. "PROVIDER_STAR" \in ReasonCodes
    BY DEF ReasonCodes
  <2>2. CASE star = "VERIFIED_PRESENT"
    <3>1. tail = <<"PROVIDER_STAR">>
      BY <2>2
    <3>2. /\ tail \in Seq(ReasonCodes) /\ Len(tail) = 1 /\ tail[1] = "PROVIDER_STAR"
      BY <3>1, <2>1, ShortSequences
    <3> QED
      BY <3>2
  <2>3. CASE star # "VERIFIED_PRESENT"
    <3>1. tail = <<>>
      BY <2>3
    <3>2. tail \in Seq(ReasonCodes) /\ Len(tail) = 0
      BY <3>1, <2>1, ShortSequences
    <3> QED
      BY <3>2
  <2> QED
    BY <2>2, <2>3
<1> HIDE DEF user, tail
<1>4. /\ codes \in Seq(ReasonCodes) /\ Len(codes) = Len(user) + Len(tail)
      /\ \A i \in 1..Len(codes) : codes[i] = IF i <= Len(user) THEN user[i] ELSE tail[i - Len(user)]
  BY <1>1, <1>2, <1>3
<1>5. ASSUME NEW i \in 1..Len(codes), NEW j \in 1..Len(codes), codes[i] = codes[j]
      PROVE  i = j
  <2>1. /\ i <= Len(user) => i \in 1..Len(user) /\ codes[i] # "PROVIDER_STAR" /\ i = 1
        /\ i > Len(user) => i - Len(user) \in 1..Len(tail) /\ codes[i] = "PROVIDER_STAR" /\ i - Len(user) = 1
    <3>1. i \in Int /\ i >= 1 /\ i <= Len(user) + Len(tail)
      BY <1>2, <1>3, <1>4
    <3>2. /\ i <= Len(user) => i \in 1..Len(user) /\ i = 1
          /\ i > Len(user) => i - Len(user) \in 1..Len(tail) /\ i - Len(user) = 1
      BY <1>2, <1>3, <3>1
    <3>3. codes[i] = IF i <= Len(user) THEN user[i] ELSE tail[i - Len(user)]
      BY <1>4
    <3> QED
      BY <1>2, <1>3, <3>2, <3>3
  <2>2. /\ j <= Len(user) => j \in 1..Len(user) /\ codes[j] # "PROVIDER_STAR" /\ j = 1
        /\ j > Len(user) => j - Len(user) \in 1..Len(tail) /\ codes[j] = "PROVIDER_STAR" /\ j - Len(user) = 1
    <3>1. j \in Int /\ j >= 1 /\ j <= Len(user) + Len(tail)
      BY <1>2, <1>3, <1>4
    <3>2. /\ j <= Len(user) => j \in 1..Len(user) /\ j = 1
          /\ j > Len(user) => j - Len(user) \in 1..Len(tail) /\ j - Len(user) = 1
      BY <1>2, <1>3, <3>1
    <3>3. codes[j] = IF j <= Len(user) THEN user[j] ELSE tail[j - Len(user)]
      BY <1>4
    <3> QED
      BY <1>2, <1>3, <3>2, <3>3
  <2> QED
    BY <2>1, <2>2, <1>2, <1>4, <1>5
<1>6. \A i \in 1..Len(codes) : codes[i] \in ReasonCodes
  BY <1>4
<1> QED
  BY <1>4, <1>5, <1>6 DEF IsInjective, Range

\* The tier is one of the three.
LEMMA TierType ==
  ASSUME NEW star, NEW correction
  PROVE  EvaluateCorrection(star, correction) \in Tiers
BY DEF EvaluateCorrection, Tiers

\* What the evaluation of a candidate makes passes the checks of the later stages.
LEMMA EvaluationIsValid ==
  ASSUME NEW c \in Candidates, NEW at \in Times,
         NEW e, e = EvaluatePriorityPolicy(c, at)
  PROVE  /\ e \in Evaluations
         /\ ValidEvaluation(e, at)
         /\ CanonicalCandidate(e, at)
         /\ e.thread = c.thread
         /\ e.tier = EvaluateCorrection(c.star, c.correction)
<1> DEFINE codes == Reasons(c.star, c.correction)
           roles == [i \in DOMAIN codes |-> IF i = 1 THEN "DETERMINING" ELSE "SUPPORTING"]
<1>c. c.star \in Membership /\ c.correction \in Corrections /\ c.thread \in Threads
  BY DEF Candidates
<1>1. /\ codes \in Seq(ReasonCodes) /\ Len(codes) \in Nat /\ IsInjective(codes)
      /\ Range(codes) \subseteq ReasonCodes
  BY <1>c, ReasonsAreValid
<1>2. EvaluateCorrection(c.star, c.correction) \in Tiers
  BY TierType
<1>3. e = [thread |-> c.thread, tier |-> EvaluateCorrection(c.star, c.correction),
           reasonCodes |-> codes, reasonRoles |-> roles, evaluatedAt |-> at]
  BY DEF EvaluatePriorityPolicy
<1> HIDE DEF codes
<1>4. DOMAIN codes = 1..Len(codes)
  BY <1>1
<1>5. /\ roles \in Seq(ReasonRoles) /\ Len(roles) = Len(codes)
      /\ \A i \in DOMAIN roles : roles[i] \in ReasonRoles
  BY <1>1, <1>4 DEF ReasonRoles
<1> HIDE DEF roles
<1>6. Range(roles) \subseteq ReasonRoles
  BY <1>5 DEF Range
<1>7. e \in Evaluations
  BY <1>c, <1>1, <1>2, <1>3, <1>5 DEF Evaluations
<1>8. ValidReasons(codes, roles)
  BY <1>1, <1>5, <1>6 DEF ValidReasons
<1> QED
  BY <1>2, <1>3, <1>7, <1>8 DEF ValidEvaluation, CanonicalCandidate

\* A tier has one rank.
LEMMA TierRanks ==
  /\ TierRank["NEEDS_ATTENTION"] = 0
  /\ TierRank["REVIEW_LATER"] = 1
  /\ TierRank["NO_IMMEDIATE_SIGNALS"] = 2
  /\ \A t \in Tiers : TierRank[t] \in 0..2
BY DEF TierRank, Tiers

Evaluated(adm, at) == [i \in DOMAIN adm |-> EvaluatePriorityPolicy(adm[i], at)]

WithEvaluation(c, at) == [candidate |-> c, evaluation |-> EvaluatePriorityPolicy(c, at)]

Evaluating(adm, at) == [i \in DOMAIN adm |-> WithEvaluation(adm[i], at)]

\* A candidate with its own evaluation.
LEMMA WithEvaluationType ==
  ASSUME NEW c \in Candidates, NEW at \in Times
  PROVE  /\ WithEvaluation(c, at) \in BoundCandidates
         /\ WithEvaluation(c, at).candidate = c
         /\ WithEvaluation(c, at).evaluation = EvaluatePriorityPolicy(c, at)
         /\ WithEvaluation(c, at).evaluation.tier = EvaluateCorrection(c.star, c.correction)
         /\ WithEvaluation(c, at).evaluation.tier \in Tiers
BY EvaluationIsValid, TierType DEF WithEvaluation, BoundCandidates

\* The final comparison is by tier, then as the admission compares: no tie between threads.
LEMMA BoundAreOrdered ==
  ASSUME NEW at \in Times
  PROVE  /\ \A c \in Candidates :
              ~(CompareBoundCandidates(WithEvaluation(c, at), WithEvaluation(c, at), at) < 0)
         /\ \A c, d \in Candidates : c.thread # d.thread =>
              \/ CompareBoundCandidates(WithEvaluation(c, at), WithEvaluation(d, at), at) < 0
              \/ CompareBoundCandidates(WithEvaluation(d, at), WithEvaluation(c, at), at) < 0
         /\ \A c, d, e \in Candidates :
              /\ CompareBoundCandidates(WithEvaluation(c, at), WithEvaluation(d, at), at) < 0
              /\ CompareBoundCandidates(WithEvaluation(d, at), WithEvaluation(e, at), at) < 0
              => CompareBoundCandidates(WithEvaluation(c, at), WithEvaluation(e, at), at) < 0
         /\ \A c, d \in Candidates :
              CompareBoundCandidates(WithEvaluation(c, at), WithEvaluation(d, at), at) < 0 =>
                LET rank(b) == TierRank[EvaluateCorrection(b.star, b.correction)] IN
                \/ rank(c) < rank(d)
                \/ rank(c) = rank(d) /\ CompareCandidates(c, d, at) < 0
<1> DEFINE rank(c) == TierRank[EvaluateCorrection(c.star, c.correction)]
           compare(c, d) == CompareBoundCandidates(WithEvaluation(c, at), WithEvaluation(d, at), at)
<1>1. \A c \in Candidates : rank(c) \in 0..2
  BY TierRanks, TierType
<1>2. \A c, d \in Candidates :
        compare(c, d) = IF rank(c) - rank(d) # 0 THEN rank(c) - rank(d) ELSE CompareCandidates(c, d, at)
  BY WithEvaluationType DEF CompareBoundCandidates, ComparePriorityTiers
<1> HIDE DEF rank, compare
<1>3. /\ \A c, d \in Candidates : CompareCandidates(c, d, at) \in Int
      /\ \A c \in Candidates : ~(CompareCandidates(c, c, at) < 0)
      /\ \A c, d \in Candidates : c.thread # d.thread =>
           CompareCandidates(c, d, at) < 0 \/ CompareCandidates(d, c, at) < 0
      /\ \A c, d, e \in Candidates :
           CompareCandidates(c, d, at) < 0 /\ CompareCandidates(d, e, at) < 0 =>
             CompareCandidates(c, e, at) < 0
  BY CandidatesAreOrdered
<1>4. \A c, d \in Candidates : compare(c, d) < 0 <=>
        rank(c) < rank(d) \/ (rank(c) = rank(d) /\ CompareCandidates(c, d, at) < 0)
  BY <1>1, <1>2, <1>3
<1>5. \A c \in Candidates : ~(compare(c, c) < 0)
  BY <1>1, <1>3, <1>4
<1>6. ASSUME NEW c \in Candidates, NEW d \in Candidates, c.thread # d.thread
      PROVE  compare(c, d) < 0 \/ compare(d, c) < 0
  <2>1. rank(c) \in Int /\ rank(d) \in Int
    BY <1>1
  <2>2. CompareCandidates(c, d, at) < 0 \/ CompareCandidates(d, c, at) < 0
    BY <1>3, <1>6
  <2> QED
    BY <2>1, <2>2, <1>4
<1>7. ASSUME NEW c \in Candidates, NEW d \in Candidates, NEW e \in Candidates,
             compare(c, d) < 0, compare(d, e) < 0
      PROVE  compare(c, e) < 0
  <2>1. rank(c) \in Int /\ rank(d) \in Int /\ rank(e) \in Int
    BY <1>1
  <2>2. CompareCandidates(c, d, at) < 0 /\ CompareCandidates(d, e, at) < 0 => CompareCandidates(c, e, at) < 0
    BY <1>3
  <2> QED
    BY <2>1, <2>2, <1>4, <1>7
<1> QED
  BY <1>4, <1>5, <1>6, <1>7 DEF rank, compare

\* Which positions the final order tells apart.
LEMMA FinalOrderPairs ==
  ASSUME NEW bound, NEW n \in Nat, DOMAIN bound = 1..n, NEW at
  PROVE  \A i, j \in 1..n :
           <<i, j>> \in FinalOrder(bound, at) <=> CompareBoundCandidates(bound[i], bound[j], at) < 0
<1> SUFFICES ASSUME NEW i \in 1..n, NEW j \in 1..n
             PROVE  <<i, j>> \in {p \in (DOMAIN bound) \X (DOMAIN bound) :
                                   CompareBoundCandidates(bound[p[1]], bound[p[2]], at) < 0}
                    <=> CompareBoundCandidates(bound[i], bound[j], at) < 0
  BY Zenon DEF FinalOrder
<1>1. <<i, j>> \in (DOMAIN bound) \X (DOMAIN bound) /\ <<i, j>>[1] = i /\ <<i, j>>[2] = j
  OBVIOUS
<1> QED
  BY <1>1, Zenon

\* With one candidate per thread the final order leaves none tied.
LEMMA FinalOrderIsStrict ==
  ASSUME NEW adm \in Seq(Candidates), DistinctThreads(adm), NEW at \in Times
  PROVE  /\ Evaluating(adm, at) \in Seq(BoundCandidates)
         /\ Len(Evaluating(adm, at)) = Len(adm)
         /\ StrictOrder(Len(adm), FinalOrder(Evaluating(adm, at), at))
<1> DEFINE n == Len(adm)
           bound == Evaluating(adm, at)
           less == FinalOrder(bound, at)
           compare(c, d) == CompareBoundCandidates(WithEvaluation(c, at), WithEvaluation(d, at), at)
<1>1. n \in Nat /\ \A i \in 1..n : adm[i] \in Candidates
  OBVIOUS
<1>2. DOMAIN bound = 1..n /\ \A i \in 1..n : bound[i] = WithEvaluation(adm[i], at)
  BY DEF Evaluating
<1>3. bound \in Seq(BoundCandidates) /\ Len(bound) = n
  <2>1. \A i \in 1..n : bound[i] \in BoundCandidates
    BY <1>1, <1>2, WithEvaluationType
  <2>2. bound = [i \in 1..n |-> WithEvaluation(adm[i], at)]
    BY DEF Evaluating
  <2> QED
    BY <2>1, <2>2, <1>1, <1>2
<1>4. \A i, j \in 1..n : i # j => adm[i].thread # adm[j].thread
  BY DEF DistinctThreads
<1> HIDE DEF n, bound
<1>5. \A i, j \in 1..n : <<i, j>> \in less <=> compare(adm[i], adm[j]) < 0
  <2>1. \A i, j \in 1..n : <<i, j>> \in less <=> CompareBoundCandidates(bound[i], bound[j], at) < 0
    BY <1>1, <1>2, FinalOrderPairs
  <2> QED
    BY <2>1, <1>2
<1>6. /\ \A c \in Candidates : ~(compare(c, c) < 0)
      /\ \A c, d \in Candidates : c.thread # d.thread => compare(c, d) < 0 \/ compare(d, c) < 0
      /\ \A c, d, e \in Candidates : compare(c, d) < 0 /\ compare(d, e) < 0 => compare(c, e) < 0
  BY BoundAreOrdered
<1> HIDE DEF less, compare
<1>7. \A i \in 1..n : <<i, i>> \notin less
  BY <1>1, <1>5, <1>6
<1>8. \A i, j \in 1..n : i # j => <<i, j>> \in less \/ <<j, i>> \in less
  BY <1>1, <1>4, <1>5, <1>6
<1>9. ASSUME NEW i \in 1..n, NEW j \in 1..n, NEW k \in 1..n, <<i, j>> \in less, <<j, k>> \in less
      PROVE  <<i, k>> \in less
  <2>1. compare(adm[i], adm[j]) < 0 /\ compare(adm[j], adm[k]) < 0
    BY <1>5, <1>9
  <2>2. compare(adm[i], adm[k]) < 0
    BY <2>1, <1>1, <1>6
  <2> QED
    BY <2>2, <1>5
<1>10. StrictOrder(n, less)
  BY <1>7, <1>8, <1>9 DEF StrictOrder
<1> QED
  BY <1>3, <1>10 DEF n, bound, less
\* The evaluation of a well scoped admission goes through, one by one.
LEMMA EvaluationGoesThrough ==
  ASSUME NEW scope, NEW adm \in Seq(Candidates), WellScoped(adm, scope), NEW at \in Times
  PROVE  /\ EvaluateAll(adm, at) = Evaluated(adm, at)
         /\ Evaluated(adm, at) \in Seq(Evaluations)
         /\ Len(Evaluated(adm, at)) = Len(adm)
         /\ \A i \in 1..Len(adm) : Evaluated(adm, at)[i] = EvaluatePriorityPolicy(adm[i], at)
<1>1. EvaluateAll(adm, at) = Evaluated(adm, at)
  BY DEF EvaluateAll, Evaluated, WellScoped
<1>2. /\ Len(adm) \in Nat /\ DOMAIN adm = 1..Len(adm)
      /\ \A i \in 1..Len(adm) : EvaluatePriorityPolicy(adm[i], at) \in Evaluations
  BY EvaluationIsValid
<1>3. Evaluated(adm, at) = [i \in 1..Len(adm) |-> EvaluatePriorityPolicy(adm[i], at)]
  BY <1>2 DEF Evaluated
<1> QED
  BY <1>1, <1>2, <1>3

\* The ordering accepts what the evaluation made and binds each candidate to its own.
LEMMA OrderingAccepts ==
  ASSUME NEW scope, NEW adm \in Seq(Candidates), WellScoped(adm, scope),
         Len(adm) <= CandidateLimit, NEW at \in Times
  PROVE  OrderPriorityPolicyCandidates(scope, adm, Evaluated(adm, at), at)
           = Sorted(Evaluating(adm, at), FinalOrder(Evaluating(adm, at), at))
<1> DEFINE n == Len(adm)
           evs == Evaluated(adm, at)
<1>1. n \in Nat /\ DOMAIN adm = 1..n /\ \A i \in 1..n : adm[i] \in Candidates
  OBVIOUS
<1>2. /\ evs \in Seq(Evaluations) /\ Len(evs) = n /\ DOMAIN evs = 1..n
      /\ \A i \in 1..n : evs[i] = EvaluatePriorityPolicy(adm[i], at)
  <2>1. /\ evs \in Seq(Evaluations) /\ Len(evs) = n
        /\ \A i \in 1..n : evs[i] = EvaluatePriorityPolicy(adm[i], at)
    BY EvaluationGoesThrough
  <2> QED
    BY <2>1
<1>l. n <= CandidateLimit
  OBVIOUS
<1> HIDE DEF n, evs
<1>3. \A i \in 1..n : ValidEvaluation(evs[i], at) /\ evs[i].thread = adm[i].thread
  BY <1>1, <1>2, EvaluationIsValid
<1>4. \A i, j \in 1..n : adm[i].thread = adm[j].thread => i = j
  BY <1>1 DEF WellScoped, DistinctThreads
<1>5. ValidOrderingInput(scope, adm, evs, at)
  <2>1. DistinctThreads(evs)
    BY <1>2, <1>3, <1>4 DEF DistinctThreads
  <2> QED
    BY <2>1, <1>1, <1>2, <1>3, <1>l DEF ValidOrderingInput, n
<1>6. \A i \in 1..n : (CHOOSE e \in Range(evs) : e.thread = adm[i].thread) = EvaluatePriorityPolicy(adm[i], at)
  <2> TAKE i \in 1..n
  <2>1. evs[i] \in Range(evs) /\ evs[i].thread = adm[i].thread
    BY <1>2, <1>3 DEF Range
  <2>2. \A e \in Range(evs) : e.thread = adm[i].thread => e = evs[i]
    BY <1>2, <1>3, <1>4 DEF Range
  <2>3. (CHOOSE e \in Range(evs) : e.thread = adm[i].thread) = evs[i]
    BY <2>1, <2>2
  <2> QED
    BY <2>3, <1>2
<1>7. Bind(adm, evs) = Evaluating(adm, at)
  BY <1>1, <1>6 DEF Bind, Evaluating, WithEvaluation
<1> QED
  BY <1>5, <1>7 DEF OrderPriorityPolicyCandidates, evs

\* The result of the ordering: every admitted candidate once, in ascending order.
LEMMA OrderedPlaces ==
  ASSUME NEW scope, NEW adm \in Seq(Candidates), WellScoped(adm, scope),
         Len(adm) <= CandidateLimit, NEW at \in Times,
         NEW ord, ord = OrderPriorityPolicyCandidates(scope, adm, Evaluated(adm, at), at)
  PROVE  /\ ord \in Seq(BoundCandidates) /\ Len(ord) = Len(adm)
         /\ \E p \in Places(Len(adm)) :
              /\ \A k \in 1..Len(adm) : ord[k] = WithEvaluation(adm[p[k]], at)
              /\ \A k, l \in 1..Len(adm) : k < l => CompareBoundCandidates(ord[k], ord[l], at) < 0
<1> DEFINE n == Len(adm)
           bound == Evaluating(adm, at)
           less == FinalOrder(bound, at)
<1>1. n \in Nat /\ DOMAIN adm = 1..n /\ \A i \in 1..n : adm[i] \in Candidates
  OBVIOUS
<1>2. /\ bound \in Seq(BoundCandidates) /\ Len(bound) = n /\ StrictOrder(n, less)
  BY FinalOrderIsStrict DEF WellScoped
<1>3. ord = Sorted(bound, less)
  BY OrderingAccepts
<1>4. \A i \in 1..n : bound[i] = WithEvaluation(adm[i], at)
  BY DEF Evaluating
<1>5. DOMAIN bound = 1..n
  BY <1>2
<1>6. \A i, j \in 1..n : <<i, j>> \in less <=> CompareBoundCandidates(bound[i], bound[j], at) < 0
  BY <1>1, <1>5, FinalOrderPairs
<1> HIDE DEF n, bound, less
<1>7. PICK p \in Places(n) :
        /\ ord = [k \in 1..n |-> bound[p[k]]]
        /\ \A k, l \in 1..n : k < l => <<p[k], p[l]>> \in less
  <2>1. StrictOrder(Len(bound), less)
    BY <1>2
  <2>2. \E p \in Places(Len(bound)) :
          /\ Sorted(bound, less) = [k \in 1..Len(bound) |-> bound[p[k]]]
          /\ \A k \in 1..Len(bound) : Rank(bound, less, p[k]) = k - 1
          /\ \A k, l \in 1..Len(bound) : k < l => <<p[k], p[l]>> \in less
    BY <2>1, <1>2, SortedPermutes
  <2> QED
    BY <2>2, <1>2, <1>3
<1>8. p \in [1..n -> 1..n]
  BY DEF Places
<1>9. \A k \in 1..n : p[k] \in 1..n /\ ord[k] = bound[p[k]] /\ bound[p[k]] \in BoundCandidates
  <2>1. \A i \in 1..n : bound[i] \in BoundCandidates
    BY <1>2
  <2>2. \A k \in 1..n : p[k] \in 1..n
    BY <1>8
  <2>3. \A k \in 1..n : ord[k] = bound[p[k]]
    BY <1>7
  <2> QED
    BY <2>1, <2>2, <2>3
<1>10. ord \in Seq(BoundCandidates) /\ Len(ord) = n
  BY <1>1, <1>7, <1>9
<1>11. \A k \in 1..n : ord[k] = WithEvaluation(adm[p[k]], at)
  BY <1>4, <1>9
<1>12. \A k, l \in 1..n : k < l => CompareBoundCandidates(ord[k], ord[l], at) < 0
  <2> TAKE k, l \in 1..n
  <2> HAVE k < l
  <2>1. <<p[k], p[l]>> \in less /\ p[k] \in 1..n /\ p[l] \in 1..n
    BY <1>7, <1>9
  <2> QED
    BY <2>1, <1>6, <1>9
<1> QED
  BY <1>10, <1>11, <1>12 DEF n

\* Ordered once more, the ordered candidates stay where they are: the collection
\* accepts the order.
LEMMA OrderIsAccepted ==
  ASSUME NEW scope, NEW adm \in Seq(Candidates), WellScoped(adm, scope),
         Len(adm) <= CandidateLimit, NEW at \in Times,
         NEW ord, ord = OrderPriorityPolicyCandidates(scope, adm, Evaluated(adm, at), at)
  PROVE  VerifyCanonicalOrder(scope, ord, at)
<1> DEFINE n == Len(adm)
           again == [i \in DOMAIN ord |-> ord[i].candidate]
           evals == [i \in DOMAIN ord |-> ord[i].evaluation]
<1>1. n \in Nat /\ DOMAIN adm = 1..n /\ \A i \in 1..n : adm[i] \in Candidates
  OBVIOUS
<1>2. /\ ord \in Seq(BoundCandidates) /\ Len(ord) = n
      /\ \E p \in Places(n) : \A k \in 1..n : ord[k] = WithEvaluation(adm[p[k]], at)
  <2>1. /\ ord \in Seq(BoundCandidates) /\ Len(ord) = Len(adm)
        /\ \E p \in Places(Len(adm)) :
              /\ \A k \in 1..Len(adm) : ord[k] = WithEvaluation(adm[p[k]], at)
              /\ \A k, l \in 1..Len(adm) : k < l => CompareBoundCandidates(ord[k], ord[l], at) < 0
    BY OrderedPlaces
  <2> QED
    BY <2>1
<1>3. PICK p \in Places(n) : \A k \in 1..n : ord[k] = WithEvaluation(adm[p[k]], at)
  BY <1>2
<1>s. ord = Sorted(Evaluating(adm, at), FinalOrder(Evaluating(adm, at), at))
  BY OrderingAccepts
<1>l. n <= CandidateLimit
  OBVIOUS
<1>4. /\ p \in [1..n -> 1..n] /\ \A k, l \in 1..n : p[k] = p[l] => k = l
  BY DEF Places
<1>5. DOMAIN ord = 1..n
  BY <1>2
<1> HIDE DEF n
<1>6. \A k \in 1..n : p[k] \in 1..n /\ adm[p[k]] \in Candidates
  BY <1>1, <1>4
<1>7. \A k \in 1..n : again[k] = adm[p[k]] /\ evals[k] = EvaluatePriorityPolicy(adm[p[k]], at)
  BY <1>3, <1>5, <1>6, WithEvaluationType
<1>8. again \in Seq(Candidates) /\ Len(again) = n /\ DOMAIN again = 1..n
  BY <1>1, <1>5, <1>6, <1>7
<1>8a. evals = [k \in 1..n |-> EvaluatePriorityPolicy(again[k], at)]
  BY <1>5, <1>7
<1> HIDE DEF again, evals
<1>9. WellScoped(again, scope)
  <2>1. \A k \in 1..n : again[k].scope = scope /\ IsPriorityPolicyCandidateEligible(again[k].location)
    BY <1>1, <1>6, <1>7 DEF WellScoped
  <2>2. \A k, l \in 1..n : again[k].thread = again[l].thread => k = l
    <3>1. \A i, j \in 1..n : adm[i].thread = adm[j].thread => i = j
      BY <1>1 DEF WellScoped, DistinctThreads
    <3>2. ASSUME NEW k \in 1..n, NEW l \in 1..n, again[k].thread = again[l].thread
          PROVE  k = l
      <4>1. p[k] \in 1..n /\ p[l] \in 1..n /\ adm[p[k]].thread = adm[p[l]].thread
        BY <1>6, <1>7, <3>2
      <4>2. p[k] = p[l]
        BY <3>1, <4>1
      <4> QED
        BY <1>4, <4>2
    <3> QED
      BY <3>2
  <2> QED
    BY <2>1, <2>2, <1>8 DEF WellScoped, DistinctThreads
<1>10. evals = Evaluated(again, at)
  BY <1>8, <1>8a DEF Evaluated
<1>11. OrderPriorityPolicyCandidates(scope, again, evals, at)
         = Sorted(Evaluating(again, at), FinalOrder(Evaluating(again, at), at))
  BY <1>8, <1>9, <1>10, <1>l, OrderingAccepts
<1>12. Sorted(Evaluating(again, at), FinalOrder(Evaluating(again, at), at)) = ord
  <2> DEFINE bound == Evaluating(adm, at)
             less == FinalOrder(bound, at)
             boundAgain == Evaluating(again, at)
             lessAgain == FinalOrder(boundAgain, at)
  <2>1. bound \in Seq(BoundCandidates) /\ Len(bound) = n /\ StrictOrder(n, less)
    BY FinalOrderIsStrict DEF WellScoped, n
  <2>2. boundAgain \in Seq(BoundCandidates) /\ Len(boundAgain) = n /\ StrictOrder(n, lessAgain)
    <3>1. DistinctThreads(again)
      BY <1>9 DEF WellScoped
    <3> QED
      BY <3>1, <1>8, FinalOrderIsStrict
  <2>3. \A i \in 1..n : bound[i] = WithEvaluation(adm[i], at)
    BY <1>1 DEF Evaluating
  <2>4. \A i \in 1..n : boundAgain[i] = WithEvaluation(adm[p[i]], at)
    BY <1>7, <1>8 DEF Evaluating
  <2>5. DOMAIN bound = 1..n /\ DOMAIN boundAgain = 1..n
    BY <2>1, <2>2
  <2>6. \A i, j \in 1..n : <<i, j>> \in less <=> CompareBoundCandidates(bound[i], bound[j], at) < 0
    BY <1>1, <2>5, FinalOrderPairs
  <2>7. \A i, j \in 1..n :
          <<i, j>> \in lessAgain <=> CompareBoundCandidates(boundAgain[i], boundAgain[j], at) < 0
    BY <1>1, <2>5, FinalOrderPairs
  <2> HIDE DEF bound, less, boundAgain, lessAgain
  <2>8. \A i \in 1..n : boundAgain[i] = bound[p[i]]
    BY <2>3, <2>4, <1>6
  <2>9. \A i, j \in 1..n : <<i, j>> \in lessAgain <=> <<p[i], p[j]>> \in less
    BY <2>6, <2>7, <2>8, <1>6
  <2>10. /\ bound \in Seq(BoundCandidates) /\ boundAgain \in Seq(BoundCandidates)
         /\ Len(boundAgain) = Len(bound)
         /\ p \in Places(Len(bound))
         /\ \A i \in 1..Len(bound) : boundAgain[i] = bound[p[i]]
         /\ \A i, j \in 1..Len(bound) : <<i, j>> \in lessAgain <=> <<p[i], p[j]>> \in less
         /\ StrictOrder(Len(bound), less)
         /\ StrictOrder(Len(bound), lessAgain)
    BY <2>1, <2>2, <2>8, <2>9
  <2>11. Sorted(boundAgain, lessAgain) = Sorted(bound, less)
    BY <2>10, SortedIgnoresOrder
  <2> QED
    BY <2>11, <1>s DEF bound, less, boundAgain, lessAgain
<1>13. OrderPriorityPolicyCandidates(scope, again, evals, at) = ord
  BY <1>11, <1>12
<1>14. ord # Invalid
  BY <1>2, CollectionAssumption
<1> QED
  BY <1>13, <1>14 DEF VerifyCanonicalOrder, again, evals
-----------------------------------------------------------------------------
(* The envelope.                                                               *)

Entries == [kind: Range(EvidenceKinds), count: Nat]

Entry(n, k) == IF n[k] > 0 THEN <<[kind |-> EvidenceKinds[k], count |-> n[k]]>> ELSE <<>>

\* The kinds of evidence, in the order of their disclosure.
LEMMA KindsOfEvidence ==
  /\ DOMAIN EvidenceKinds = 1..3
  /\ Range(EvidenceKinds) = {"CANDIDATE_TIMESTAMP", "POLICY_LABELS", "USER_CORRECTIONS"}
  /\ EvidenceKinds[1] = "CANDIDATE_TIMESTAMP"
  /\ EvidenceKinds[2] = "POLICY_LABELS"
  /\ EvidenceKinds[3] = "USER_CORRECTIONS"
  /\ \A k, l \in 1..3 : EvidenceKinds[k] = EvidenceKinds[l] => k = l
BY DEF EvidenceKinds, Range

Discloses(n, seq) ==
  /\ seq \in Seq(Entries) /\ Len(seq) \in Nat
  /\ \E place \in [1..Len(seq) -> 1..3] :
       /\ \A i \in 1..Len(seq) : /\ n[place[i]] > 0
                                 /\ seq[i].kind = EvidenceKinds[place[i]]
                                 /\ seq[i].count = n[place[i]]
       /\ \A i, j \in 1..Len(seq) : i < j => place[i] < place[j]
       /\ \A k \in 1..3 : n[k] > 0 => \E i \in 1..Len(seq) : place[i] = k

\* One entry for each kind with a gap, in the order of the kinds.
LEMMA EntriesInOrder ==
  ASSUME NEW n \in [1..3 -> Nat], NEW seq, seq = Entry(n, 1) \o Entry(n, 2) \o Entry(n, 3)
  PROVE  Discloses(n, seq)
<1> DEFINE size(k) == IF n[k] > 0 THEN 1 ELSE 0
           made(k) == [kind |-> EvidenceKinds[k], count |-> n[k]]
           a == size(1)
           b == size(2)
           c == size(3)
<1>1. \A k \in 1..3 : made(k) \in Entries /\ made(k).kind = EvidenceKinds[k] /\ made(k).count = n[k]
  <2>1. \A k \in 1..3 : EvidenceKinds[k] \in Range(EvidenceKinds)
    BY KindsOfEvidence DEF Range
  <2> QED
    BY <2>1 DEF Entries
<1> HIDE DEF made
<1>2. ASSUME NEW k \in 1..3
      PROVE  /\ Entry(n, k) \in Seq(Entries) /\ Len(Entry(n, k)) = size(k)
             /\ \A i \in 1..size(k) : n[k] > 0 /\ Entry(n, k)[i] = made(k)
  <2>1. CASE n[k] > 0
    <3>1. Entry(n, k) = <<made(k)>>
      BY <2>1 DEF Entry, made
    <3>2. Entry(n, k) \in Seq(Entries) /\ Len(Entry(n, k)) = 1 /\ Entry(n, k)[1] = made(k)
      BY <3>1, <1>1, ShortSequences
    <3> QED
      BY <3>2, <2>1
  <2>2. CASE ~(n[k] > 0)
    <3>1. Entry(n, k) = <<>>
      BY <2>2 DEF Entry
    <3>2. Entry(n, k) \in Seq(Entries) /\ Len(Entry(n, k)) = 0
      BY <3>1, <1>1, ShortSequences
    <3> QED
      BY <3>2, <2>2
  <2> QED
    BY <2>1, <2>2
<1>3. a \in {0, 1} /\ b \in {0, 1} /\ c \in {0, 1}
  OBVIOUS
<1>4. /\ Entry(n, 1) \in Seq(Entries) /\ Len(Entry(n, 1)) = a
      /\ \A i \in 1..a : n[1] > 0 /\ Entry(n, 1)[i] = made(1)
  BY <1>2
<1>5. /\ Entry(n, 2) \in Seq(Entries) /\ Len(Entry(n, 2)) = b
      /\ \A i \in 1..b : n[2] > 0 /\ Entry(n, 2)[i] = made(2)
  BY <1>2
<1>6. /\ Entry(n, 3) \in Seq(Entries) /\ Len(Entry(n, 3)) = c
      /\ \A i \in 1..c : n[3] > 0 /\ Entry(n, 3)[i] = made(3)
  BY <1>2
<1>7. /\ n[1] > 0 => a = 1
      /\ n[2] > 0 => b = 1
      /\ n[3] > 0 => c = 1
  OBVIOUS
<1> HIDE DEF a, b, c, size
<1> DEFINE two == Entry(n, 1) \o Entry(n, 2)
           place == [i \in 1..(a + b + c) |-> IF i <= a THEN 1 ELSE IF i <= a + b THEN 2 ELSE 3]
<1>8. /\ two \in Seq(Entries) /\ Len(two) = a + b
      /\ \A i \in 1..(a + b) : two[i] = IF i <= a THEN Entry(n, 1)[i] ELSE Entry(n, 2)[i - a]
  <2> DEFINE left == Entry(n, 1)
             right == Entry(n, 2)
  <2>1. left \in Seq(Entries) /\ Len(left) = a /\ right \in Seq(Entries) /\ Len(right) = b
    BY <1>4, <1>5
  <2>2. two = left \o right
    BY DEF two
  <2> HIDE DEF left, right, two
  <2>3. /\ left \o right \in Seq(Entries) /\ Len(left \o right) = Len(left) + Len(right)
        /\ \A i \in 1..(Len(left) + Len(right)) :
             (left \o right)[i] = IF i <= Len(left) THEN left[i] ELSE right[i - Len(left)]
    BY <2>1, ConcatProperties
  <2>4. /\ two \in Seq(Entries) /\ Len(two) = a + b
        /\ \A i \in 1..(a + b) : two[i] = IF i <= a THEN left[i] ELSE right[i - a]
    BY <2>1, <2>2, <2>3, Zenon
  <2> QED
    BY <2>4 DEF left, right
<1> HIDE DEF two
<1>9. /\ seq \in Seq(Entries) /\ Len(seq) = a + b + c
      /\ \A i \in 1..(a + b + c) : seq[i] = IF i <= a + b THEN two[i] ELSE Entry(n, 3)[i - (a + b)]
  <2> DEFINE last == Entry(n, 3)
  <2>1. seq = two \o last
    BY DEF two
  <2>2. last \in Seq(Entries) /\ Len(last) = c
    BY <1>6
  <2>a. a \in Int /\ b \in Int /\ c \in Int
    BY <1>3
  <2> HIDE DEF last
  <2>3. /\ two \o last \in Seq(Entries)
        /\ Len(two \o last) = Len(two) + Len(last)
        /\ \A i \in 1..(Len(two) + Len(last)) :
             (two \o last)[i] = IF i <= Len(two) THEN two[i] ELSE last[i - Len(two)]
    BY <1>8, <2>2, ConcatProperties
  <2>4. Len(two) + Len(last) = a + b + c
    BY <1>8, <2>2, <2>a
  <2> QED
    BY <2>1, <2>2, <2>3, <2>4, <1>8 DEF last
<1>10. place \in [1..(a + b + c) -> 1..3]
  OBVIOUS
<1>11. \A i \in 1..(a + b + c) : n[place[i]] > 0 /\ seq[i] = made(place[i])
  <2> TAKE i \in 1..(a + b + c)
  <2>1. CASE i <= a
    <3>1. i \in 1..a /\ i \in 1..(a + b) /\ place[i] = 1
      BY <2>1, <1>3
    <3> QED
      BY <3>1, <2>1, <1>3, <1>4, <1>8, <1>9
  <2>2. CASE a < i /\ i <= a + b
    <3>1. i - a \in 1..b /\ i \in 1..(a + b) /\ place[i] = 2 /\ ~(i <= a)
      BY <2>2, <1>3
    <3>2. seq[i] = Entry(n, 2)[i - a]
      BY <3>1, <2>2, <1>8, <1>9
    <3> QED
      BY <3>1, <3>2, <1>5
  <2>3. CASE a + b < i
    <3>1. i - (a + b) \in 1..c /\ place[i] = 3 /\ ~(i <= a + b)
      BY <2>3, <1>3
    <3>2. seq[i] = Entry(n, 3)[i - (a + b)]
      BY <3>1, <2>3, <1>9
    <3>3. n[3] > 0 /\ Entry(n, 3)[i - (a + b)] = made(3)
      BY <3>1, <1>6
    <3>4. n[place[i]] = n[3] /\ made(place[i]) = made(3)
      BY <3>1
    <3> QED
      BY <3>2, <3>3, <3>4
  <2>4. i <= a \/ (a < i /\ i <= a + b) \/ a + b < i
    BY <1>3
  <2> QED
    BY <2>1, <2>2, <2>3, <2>4, Zenon
<1>12. \A i, j \in 1..(a + b + c) : i < j => place[i] < place[j]
  BY <1>3
<1>13. \A k \in 1..3 : n[k] > 0 => \E i \in 1..(a + b + c) : place[i] = k
  <2>1. n[1] > 0 => 1 \in 1..(a + b + c) /\ place[1] = 1
    BY <1>3, <1>7
  <2>2. n[2] > 0 => a + 1 \in 1..(a + b + c) /\ place[a + 1] = 2
    BY <1>3, <1>7
  <2>3. n[3] > 0 => a + b + 1 \in 1..(a + b + c) /\ place[a + b + 1] = 3
    BY <1>3, <1>7
  <2> HIDE DEF place
  <2>4. \A k \in 1..3 : k = 1 \/ k = 2 \/ k = 3
    OBVIOUS
  <2> QED
    BY <2>1, <2>2, <2>3, <2>4
<1> HIDE DEF place
<1>14. \A i \in 1..(a + b + c) : /\ n[place[i]] > 0
                                 /\ seq[i].kind = EvidenceKinds[place[i]]
                                 /\ seq[i].count = n[place[i]]
  <2> TAKE i \in 1..(a + b + c)
  <2>1. place[i] \in 1..3
    BY <1>10
  <2> QED
    BY <2>1, <1>1, <1>11
<1>15. a + b + c \in Nat
  BY <1>3
<1> DEFINE m == a + b + c
<1>16. m \in Nat /\ Len(seq) = m /\ place \in [1..m -> 1..3]
  BY <1>9, <1>10, <1>15
<1>17. /\ \A i \in 1..m : /\ n[place[i]] > 0
                           /\ seq[i].kind = EvidenceKinds[place[i]]
                           /\ seq[i].count = n[place[i]]
       /\ \A i, j \in 1..m : i < j => place[i] < place[j]
       /\ \A k \in 1..3 : n[k] > 0 => \E i \in 1..m : place[i] = k
  BY <1>12, <1>13, <1>14
<1> HIDE DEF m
<1> QED
  BY <1>9, <1>16, <1>17 DEF Discloses

\* How many of the evaluated candidates have a gap of each kind.
Counts(ord, at) ==
  [k \in 1..3 |-> Cardinality({i \in DOMAIN ord : Affected(EvidenceKinds[k], ord[i].candidate, at)})]

\* The disclosure is made of those counts, none above the number of candidates.
LEMMA DisclosureIsCounts ==
  ASSUME NEW ord \in Seq(BoundCandidates), NEW at
  PROVE  /\ Counts(ord, at) \in [1..3 -> Nat]
         /\ \A k \in 1..3 : Counts(ord, at)[k] <= Len(ord)
         /\ IncompleteEvidence(ord, at)
              = Entry(Counts(ord, at), 1) \o Entry(Counts(ord, at), 2) \o Entry(Counts(ord, at), 3)
<1>1. ASSUME NEW k \in 1..3
      PROVE  Counts(ord, at)[k] \in Nat /\ Counts(ord, at)[k] <= Len(ord)
  <2> DEFINE D == {i \in DOMAIN ord : Affected(EvidenceKinds[k], ord[i].candidate, at)}
  <2>1. Len(ord) \in Nat /\ DOMAIN ord = 1..Len(ord) /\ D \in SUBSET (1..Len(ord))
    OBVIOUS
  <2>2. IsFiniteSet(1..Len(ord)) /\ Cardinality(1..Len(ord)) = Len(ord)
    BY <2>1, Positions
  <2> HIDE DEF D
  <2>3. IsFiniteSet(D) /\ Cardinality(D) <= Len(ord)
    <3>1. IsFiniteSet(D) /\ Cardinality(D) <= Cardinality(1..Len(ord))
      BY <2>1, <2>2, FS_Subset
    <3> QED
      BY <3>1, <2>2
  <2>4. Cardinality(D) \in Nat
    BY <2>3, FS_CardinalityType
  <2>5. Counts(ord, at)[k] = Cardinality(D)
    BY DEF Counts, D
  <2> QED
    BY <2>3, <2>4, <2>5
<1>2. Counts(ord, at) \in [1..3 -> Nat]
  BY <1>1 DEF Counts
<1>3. ASSUME NEW k \in 1..3, NEW kind, kind = EvidenceKinds[k]
      PROVE  Counts(ord, at)[k] = Cardinality({i \in DOMAIN ord : Affected(kind, ord[i].candidate, at)})
  <2>1. {i \in DOMAIN ord : Affected(EvidenceKinds[k], ord[i].candidate, at)}
          = {i \in DOMAIN ord : Affected(kind, ord[i].candidate, at)}
    BY <1>3
  <2> QED
    BY <2>1 DEF Counts
<1>4. /\ Counts(ord, at)[1] = Cardinality({i \in DOMAIN ord :
                                Affected("CANDIDATE_TIMESTAMP", ord[i].candidate, at)})
      /\ Counts(ord, at)[2] = Cardinality({i \in DOMAIN ord :
                                Affected("POLICY_LABELS", ord[i].candidate, at)})
      /\ Counts(ord, at)[3] = Cardinality({i \in DOMAIN ord :
                                Affected("USER_CORRECTIONS", ord[i].candidate, at)})
  BY <1>3, KindsOfEvidence
<1> QED
  BY <1>1, <1>2, <1>4, KindsOfEvidence, Zenon DEF IncompleteEvidence, Entry
\* Both in one: what the disclosure is made of.
LEMMA Disclosure ==
  ASSUME NEW ord \in Seq(BoundCandidates), NEW at,
         NEW inc, inc = IncompleteEvidence(ord, at),
         NEW n, n = Counts(ord, at)
  PROVE  /\ n \in [1..3 -> Nat] /\ \A k \in 1..3 : n[k] <= Len(ord)
         /\ Discloses(n, inc)
<1>1. /\ n \in [1..3 -> Nat] /\ \A k \in 1..3 : n[k] <= Len(ord)
      /\ inc = Entry(n, 1) \o Entry(n, 2) \o Entry(n, 3)
  BY DisclosureIsCounts
<1> QED
  BY <1>1, EntriesInOrder

\* What is evaluated, from the admission to the envelope.
Stages(scope, adm, at, ord, coverage, delivery, col) ==
  /\ adm \in Seq(Candidates) /\ WellScoped(adm, scope) /\ Len(adm) <= CandidateLimit
  /\ at \in Times
  /\ ord = OrderPriorityPolicyCandidates(scope, adm, Evaluated(adm, at), at)
  /\ coverage \in Coverages
  /\ delivery \in [returned: Nat, continuation: BOOLEAN]
  /\ col = CreatePriorityPolicyCollectionEvaluation(scope, ord, at, coverage, delivery)

Envelope(ord, at, coverage, delivery) ==
  [evaluatedAt |-> at,
   validThrough |-> at + EvaluationValidity,
   staleRetentionThrough |-> at + StaleRetention,
   candidateScope |-> CandidateScope,
   coverage |-> coverage,
   completeness |-> IF IncompleteEvidence(ord, at) = <<>> THEN "COMPLETE" ELSE "INCOMPLETE",
   incompleteEvidence |-> IncompleteEvidence(ord, at),
   delivery |-> [state |-> DeliveryState(Len(ord), delivery.returned),
                 evaluated |-> Len(ord),
                 returned |-> delivery.returned,
                 continuation |-> delivery.continuation],
   candidates |-> [i \in 1..delivery.returned |-> ord[i].evaluation]]

\* An envelope that is made is this one, with a possible delivery and boundaries that
\* can be written.
LEMMA AcceptedEnvelope ==
  ASSUME NEW scope, NEW adm, NEW at, NEW ord, NEW coverage, NEW delivery, NEW col,
         Stages(scope, adm, at, ord, coverage, delivery, col), col # Invalid
  PROVE  /\ col = Envelope(ord, at, coverage, delivery)
         /\ ValidDelivery(delivery, Len(ord))
         /\ at + EvaluationValidity \in Times /\ at + StaleRetention \in Times
<1>1. ~(\/ ~VerifyCanonicalOrder(scope, ord, at)
        \/ ~ValidDelivery(delivery, Len(ord))
        \/ CanonicalBoundary(at, EvaluationValidity) = Invalid
        \/ CanonicalBoundary(at, StaleRetention) = Invalid)
  BY DEF Stages, CreatePriorityPolicyCollectionEvaluation
<1>2. at \in Times /\ col = CreatePriorityPolicyCollectionEvaluation(scope, ord, at, coverage, delivery)
  BY DEF Stages
<1>3. /\ CanonicalBoundary(at, EvaluationValidity) = at + EvaluationValidity
      /\ CanonicalBoundary(at, StaleRetention) = at + StaleRetention
      /\ ~(at + EvaluationValidity > MaxTimestamp) /\ ~(at + StaleRetention > MaxTimestamp)
  BY <1>1 DEF CanonicalBoundary
<1>4. at + EvaluationValidity \in Times /\ at + StaleRetention \in Times
  BY <1>2, <1>3, PolicyAssumption, CollectionAssumption DEF Times
<1>5. col = Envelope(ord, at, coverage, delivery)
  BY <1>1, <1>2, <1>3 DEF CreatePriorityPolicyCollectionEvaluation, Envelope
<1> QED
  BY <1>1, <1>4, <1>5

\* An envelope is refused for its delivery or its boundaries only.
LEMMA RefusedEnvelope ==
  ASSUME NEW scope, NEW adm, NEW at, NEW ord, NEW coverage, NEW delivery, NEW col,
         Stages(scope, adm, at, ord, coverage, delivery, col), col = Invalid
  PROVE  \/ delivery.returned > Len(adm)
         \/ delivery.returned = Len(adm) /\ delivery.continuation
         \/ at + EvaluationValidity > MaxTimestamp
         \/ at + StaleRetention > MaxTimestamp
<1> SUFFICES ASSUME ~(at + EvaluationValidity > MaxTimestamp), ~(at + StaleRetention > MaxTimestamp),
                    ~(delivery.returned > Len(adm)),
                    delivery.returned = Len(adm) => ~delivery.continuation
             PROVE  FALSE
  OBVIOUS
<1>1. /\ adm \in Seq(Candidates) /\ Len(adm) \in Nat /\ at \in Times
      /\ delivery.returned \in Nat /\ delivery.continuation \in BOOLEAN
      /\ coverage \in Coverages
  BY DEF Stages
<1>2. ord \in Seq(BoundCandidates) /\ Len(ord) = Len(adm)
  BY OrderedPlaces DEF Stages
<1>3. VerifyCanonicalOrder(scope, ord, at)
  BY OrderIsAccepted DEF Stages
<1>4. ValidDelivery(delivery, Len(ord))
  BY <1>1, <1>2 DEF ValidDelivery
<1>5. /\ CanonicalBoundary(at, EvaluationValidity) = at + EvaluationValidity
      /\ CanonicalBoundary(at, StaleRetention) = at + StaleRetention
      /\ at + EvaluationValidity \in Times /\ at + StaleRetention \in Times
      /\ at + EvaluationValidity \in Int /\ at + StaleRetention \in Int
  BY <1>1, PolicyAssumption, CollectionAssumption DEF CanonicalBoundary, Times
<1>6. Invalid \notin Int
  BY CollectionAssumption
<1> DEFINE inc == IncompleteEvidence(ord, at)
           body == Envelope(ord, at, coverage, delivery)
<1>7. col = body
  <2>1. ~(\/ ~VerifyCanonicalOrder(scope, ord, at)
          \/ ~ValidDelivery(delivery, Len(ord))
          \/ CanonicalBoundary(at, EvaluationValidity) = Invalid
          \/ CanonicalBoundary(at, StaleRetention) = Invalid)
    BY <1>3, <1>4, <1>5, <1>6
  <2>2. col = CreatePriorityPolicyCollectionEvaluation(scope, ord, at, coverage, delivery)
    BY DEF Stages
  <2> QED
    BY <2>1, <2>2, <1>5 DEF CreatePriorityPolicyCollectionEvaluation, Envelope
<1>8. inc \in Seq(Entries)
  BY <1>2, Disclosure DEF Discloses
<1>9. [i \in 1..delivery.returned |-> ord[i].evaluation] \in Seq(Evaluations)
  <2>1. \A i \in 1..delivery.returned : i \in 1..Len(ord)
    BY <1>1, <1>2
  <2>2. \A i \in 1..Len(ord) : ord[i].evaluation \in Evaluations
    <3>1. \A i \in 1..Len(ord) : ord[i] \in BoundCandidates
      BY <1>2
    <3> QED
      BY <3>1 DEF BoundCandidates
  <2> QED
    BY <2>1, <2>2, <1>1
<1>10. [state |-> DeliveryState(Len(ord), delivery.returned), evaluated |-> Len(ord),
        returned |-> delivery.returned, continuation |-> delivery.continuation]
         \in [state: {"COMPLETE", "PARTIAL"}, evaluated: Nat, returned: Nat, continuation: BOOLEAN]
  BY <1>1, <1>2 DEF DeliveryState
<1>11. body \in Collections
  <2> QED
    BY <1>1, <1>5, <1>8, <1>9, <1>10, Zenon DEF Collections, Entries, Envelope
<1> QED
  BY <1>7, <1>11, CollectionAssumption
\* Whatever is evaluated can be recorded: the serialization of an envelope is canonical.
LEMMA EnvelopeIsCanonical ==
  ASSUME NEW scope, NEW adm, NEW at, NEW ord, NEW coverage, NEW delivery, NEW col,
         Stages(scope, adm, at, ord, coverage, delivery, col), col # Invalid
  PROVE  CanonicalReplaySerialization([canonicalText |-> TRUE, value |-> col])
<1> DEFINE inc == IncompleteEvidence(ord, at)
           n == Counts(ord, at)
<1>1. /\ adm \in Seq(Candidates) /\ Len(adm) \in Nat /\ at \in Times
      /\ delivery.returned \in Nat /\ delivery.continuation \in BOOLEAN
      /\ coverage \in Coverages
  BY DEF Stages
<1>2. /\ ord \in Seq(BoundCandidates) /\ Len(ord) = Len(adm)
      /\ \E p \in Places(Len(adm)) : \A k \in 1..Len(adm) : ord[k] = WithEvaluation(adm[p[k]], at)
  <2>1. /\ ord \in Seq(BoundCandidates) /\ Len(ord) = Len(adm)
        /\ \E p \in Places(Len(adm)) :
             /\ \A k \in 1..Len(adm) : ord[k] = WithEvaluation(adm[p[k]], at)
             /\ \A k, l \in 1..Len(adm) : k < l => CompareBoundCandidates(ord[k], ord[l], at) < 0
    BY OrderedPlaces DEF Stages
  <2> QED
    BY <2>1
<1>3. /\ col = Envelope(ord, at, coverage, delivery)
      /\ ValidDelivery(delivery, Len(ord))
      /\ at + EvaluationValidity \in Times /\ at + StaleRetention \in Times
  BY AcceptedEnvelope
<1>4. \A k \in 1..Len(ord) : CanonicalCandidate(ord[k].evaluation, at)
  <2>1. PICK p \in Places(Len(adm)) : \A k \in 1..Len(adm) : ord[k] = WithEvaluation(adm[p[k]], at)
    BY <1>2
  <2>2. p \in [1..Len(adm) -> 1..Len(adm)]
    BY DEF Places
  <2> TAKE k \in 1..Len(ord)
  <2>3. adm[p[k]] \in Candidates /\ ord[k] = WithEvaluation(adm[p[k]], at)
    BY <2>1, <2>2, <1>1, <1>2
  <2>4. ord[k].evaluation = EvaluatePriorityPolicy(adm[p[k]], at)
    BY <2>3 DEF WithEvaluation
  <2> QED
    BY <2>3, <2>4, <1>1, EvaluationIsValid
<1>5. CanonicalDelivery(col.delivery, col.candidates)
  <2> DEFINE given == [i \in 1..delivery.returned |-> ord[i].evaluation]
  <2>1. /\ col.delivery.evaluated = Len(ord) /\ col.delivery.returned = delivery.returned
        /\ col.delivery.state = DeliveryState(Len(ord), delivery.returned)
        /\ col.delivery.continuation = delivery.continuation
        /\ col.candidates = given
    BY <1>3 DEF Envelope
  <2>2. Len(given) = delivery.returned
    BY <1>1
  <2>3. /\ delivery.returned \in 0..Len(ord)
        /\ delivery.returned = Len(ord) => ~delivery.continuation
    BY <1>3 DEF ValidDelivery
  <2>4. DeliveryState(Len(ord), delivery.returned) = "COMPLETE" => Len(ord) = delivery.returned
    BY DEF DeliveryState
  <2> HIDE DEF given
  <2> QED
    BY <2>1, <2>2, <2>3, <2>4 DEF CanonicalDelivery
<1>6. CanonicalCompleteness(col.completeness, col.incompleteEvidence, col.delivery.evaluated)
  <2>1. /\ col.completeness = IF inc = <<>> THEN "COMPLETE" ELSE "INCOMPLETE"
        /\ col.incompleteEvidence = inc
        /\ col.delivery.evaluated = Len(ord)
    BY <1>3 DEF Envelope
  <2>2. /\ n \in [1..3 -> Nat] /\ \A k \in 1..3 : n[k] <= Len(ord)
        /\ Discloses(n, inc)
    BY <1>2, Disclosure
  <2>3. PICK place \in [1..Len(inc) -> 1..3] :
             /\ \A i \in 1..Len(inc) : /\ n[place[i]] > 0
                                       /\ inc[i].kind = EvidenceKinds[place[i]]
                                       /\ inc[i].count = n[place[i]]
             /\ \A i, j \in 1..Len(inc) : i < j => place[i] < place[j]
    BY <2>2 DEF Discloses
  <2>3a. inc \in Seq(Entries) /\ Len(inc) \in Nat
    BY <2>2 DEF Discloses
  <2> HIDE DEF inc, n
  <2>4. DOMAIN inc = 1..Len(inc) /\ DOMAIN EvidenceKinds = 1..3
    BY <2>3a, KindsOfEvidence
  <2>5. \A i \in DOMAIN inc : inc[i].count \in 1..Len(ord)
    BY <2>2, <2>3, <2>4
  <2>6. /\ place \in [DOMAIN inc -> DOMAIN EvidenceKinds]
        /\ \A i, j \in DOMAIN inc : /\ inc[i].kind = EvidenceKinds[place[i]]
                                    /\ i < j => place[i] < place[j]
    BY <2>3, <2>4
  <2>7. CASE inc = <<>>
    BY <2>1, <2>7 DEF CanonicalCompleteness
  <2>8. CASE inc # <<>>
    BY <2>1, <2>5, <2>6, <2>8 DEF CanonicalCompleteness
  <2> QED
    BY <2>7, <2>8
<1>7. \A i \in DOMAIN col.candidates : CanonicalCandidate(col.candidates[i], col.evaluatedAt)
  <2>1. col.candidates = [i \in 1..delivery.returned |-> ord[i].evaluation] /\ col.evaluatedAt = at
    BY <1>3 DEF Envelope
  <2>2. \A i \in 1..delivery.returned : i \in 1..Len(ord)
    BY <1>1, <1>2, <1>3 DEF ValidDelivery
  <2> QED
    BY <2>1, <2>2, <1>4
<1>8. /\ {col.evaluatedAt, col.validThrough, col.staleRetentionThrough} \subseteq Times
      /\ col.coverage \in Coverages /\ col.candidateScope = CandidateScope
  BY <1>1, <1>3 DEF Envelope
<1> QED
  BY <1>5, <1>6, <1>7, <1>8 DEF CanonicalReplaySerialization
-----------------------------------------------------------------------------
(* The product's words.                                                        *)

\* Newer, of the same time and untimely are what the comparison and the disclosure say.
LEMMA ChronologyIsTheComparison ==
  ASSUME input.evaluatedAt \in Times, NEW c \in Candidates, NEW d \in Candidates
  PROVE  LET at == input.evaluatedAt
             times == CompareTimes(EffectiveTimestamp(c.timestamp, at),
                                   EffectiveTimestamp(d.timestamp, at))
         IN /\ Newer(c, d) <=> times < 0
            /\ SameTime(c, d) <=> times = 0
            /\ Affected("CANDIDATE_TIMESTAMP", c, at) <=> ~Timely(c)
<1> DEFINE at == input.evaluatedAt
           moment(x) == EffectiveTimestamp(x.timestamp, at)
<1>1. /\ UnknownTime \notin Int /\ Times \subseteq Int /\ FutureSkewTolerance \in Int
      /\ at \in Times
  BY PolicyAssumption DEF Times
<1>2. /\ c.timestamp \in Times \cup {UnknownTime} /\ d.timestamp \in Times \cup {UnknownTime}
      /\ moment(c) \in Times \cup {UnknownTime} /\ moment(d) \in Times \cup {UnknownTime}
  BY EffectiveTimestampType DEF Candidates
<1>3. ASSUME NEW x \in Candidates
      PROVE  /\ moment(x) = UnknownTime <=> ~Timely(x)
             /\ Timely(x) => moment(x) \in Times /\ Age(x) \in Int /\ Age(x) = at - moment(x)
  <2> DEFINE t == x.timestamp
  <2>t. t \in Times \cup {UnknownTime}
    BY DEF Candidates
  <2>u. /\ moment(x) = IF t = UnknownTime \/ t > at + FutureSkewTolerance THEN UnknownTime
                       ELSE IF t < at THEN t ELSE at
        /\ Timely(x) <=> t # UnknownTime /\ t - FutureSkewTolerance <= at
        /\ Age(x) = IF t >= at THEN 0 ELSE at - t
    BY DEF Timely, Age, EffectiveTimestamp
  <2> HIDE DEF t, moment, at
  <2>1. CASE t = UnknownTime
    BY <2>1, <2>u
  <2>2. CASE t # UnknownTime
    <3>1. t \in Int /\ t \in Times /\ at \in Int
      BY <2>2, <2>t, <1>1
    <3>2. CASE t > at + FutureSkewTolerance
      BY <3>1, <3>2, <2>u, <1>1
    <3>3. CASE ~(t > at + FutureSkewTolerance) /\ t < at
      BY <3>1, <3>3, <2>2, <2>u, <1>1
    <3>4. CASE ~(t > at + FutureSkewTolerance) /\ ~(t < at)
      <4>1. moment(x) = at /\ Timely(x) /\ Age(x) = 0 /\ at - moment(x) = 0
        BY <3>1, <3>4, <2>2, <2>u, <1>1
      <4> QED
        BY <4>1, <1>1
    <3> QED
      BY <3>2, <3>3, <3>4
  <2> QED
    BY <2>1, <2>2
<1>4. CompareTimes(moment(c), moment(d)) =
        IF moment(c) = UnknownTime THEN (IF moment(d) = UnknownTime THEN 0 ELSE 1)
        ELSE (IF moment(d) = UnknownTime THEN -1 ELSE moment(d) - moment(c))
  BY DEF CompareTimes
<1>5. CompareTimes(moment(d), moment(c)) =
        IF moment(d) = UnknownTime THEN (IF moment(c) = UnknownTime THEN 0 ELSE 1)
        ELSE (IF moment(c) = UnknownTime THEN -1 ELSE moment(c) - moment(d))
  BY DEF CompareTimes
<1>6. Affected("CANDIDATE_TIMESTAMP", c, at) <=> moment(c) = UnknownTime
  BY DEF Affected
<1> HIDE DEF moment, at
<1>c. /\ moment(c) = UnknownTime <=> ~Timely(c)
      /\ Timely(c) => moment(c) \in Int /\ Age(c) = at - moment(c)
  BY <1>1, <1>3
<1>d. /\ moment(d) = UnknownTime <=> ~Timely(d)
      /\ Timely(d) => moment(d) \in Int /\ Age(d) = at - moment(d)
  BY <1>1, <1>3
<1>i. at \in Int
  BY <1>1
<1>7. Newer(c, d) <=> CompareTimes(moment(c), moment(d)) < 0
  <2>1. CASE Timely(c) /\ Timely(d)
    BY <2>1, <1>c, <1>d, <1>i, <1>4 DEF Newer
  <2>2. CASE ~Timely(c) \/ ~Timely(d)
    BY <2>2, <1>c, <1>d, <1>4 DEF Newer
  <2> QED
    BY <2>1, <2>2
<1>8. Newer(d, c) <=> CompareTimes(moment(d), moment(c)) < 0
  <2>1. CASE Timely(c) /\ Timely(d)
    BY <2>1, <1>c, <1>d, <1>i, <1>5 DEF Newer
  <2>2. CASE ~Timely(c) \/ ~Timely(d)
    BY <2>2, <1>c, <1>d, <1>5 DEF Newer
  <2> QED
    BY <2>1, <2>2
<1>9. SameTime(c, d) <=> CompareTimes(moment(c), moment(d)) = 0
  <2>1. SameTime(c, d) <=> ~(CompareTimes(moment(c), moment(d)) < 0) /\ ~(CompareTimes(moment(d), moment(c)) < 0)
    BY <1>7, <1>8 DEF SameTime
  <2>2. CASE Timely(c) /\ Timely(d)
    BY <2>1, <2>2, <1>c, <1>d, <1>4, <1>5
  <2>3. CASE ~Timely(c) \/ ~Timely(d)
    BY <2>1, <2>3, <1>c, <1>d, <1>4, <1>5
  <2> QED
    BY <2>2, <2>3
<1> QED
  BY <1>c, <1>6, <1>7, <1>9 DEF at, moment

\* A tier's rank is the group that the user's wish and the star put a thread in.
LEMMA TiersAreGroups ==
  ASSUME NEW c \in Candidates
  PROVE  Group(c) = TierRank[EvaluateCorrection(c.star, c.correction)] + 1
<1>1. CASE c.correction = "PRIORITIZE"
  <2>1. EvaluateCorrection(c.star, c.correction) = "NEEDS_ATTENTION"
    BY <1>1 DEF EvaluateCorrection
  <2>2. Group(c) = 1
    BY <1>1 DEF Group
  <2> QED
    BY <2>1, <2>2, TierRanks
<1>2. CASE c.correction = "NOT_IMPORTANT"
  <2>1. EvaluateCorrection(c.star, c.correction) = "NO_IMMEDIATE_SIGNALS"
    BY <1>2 DEF EvaluateCorrection
  <2>2. Group(c) = 3
    BY <1>2 DEF Group
  <2> QED
    BY <2>1, <2>2, TierRanks
<1>3. CASE c.correction \notin {"PRIORITIZE", "NOT_IMPORTANT"} /\ Starred(c)
  <2>1. c.correction # "PRIORITIZE" /\ c.correction # "NOT_IMPORTANT" /\ c.star = "VERIFIED_PRESENT"
    BY <1>3 DEF Starred
  <2>2. EvaluateCorrection(c.star, c.correction) = "REVIEW_LATER"
    BY <2>1 DEF EvaluateCorrection
  <2>3. Group(c) = 2
    BY <2>1 DEF Group, Starred
  <2> QED
    BY <2>2, <2>3, TierRanks
<1>4. CASE c.correction \notin {"PRIORITIZE", "NOT_IMPORTANT"} /\ ~Starred(c)
  <2>1. c.correction # "PRIORITIZE" /\ c.correction # "NOT_IMPORTANT" /\ c.star # "VERIFIED_PRESENT"
    BY <1>4 DEF Starred
  <2>2. EvaluateCorrection(c.star, c.correction) = "NO_IMMEDIATE_SIGNALS"
    BY <2>1 DEF EvaluateCorrection
  <2>3. Group(c) = 3
    BY <2>1 DEF Group, Starred
  <2> QED
    BY <2>2, <2>3, TierRanks
<1> QED
  BY <1>1, <1>2, <1>3, <1>4

\* The final comparison puts first what the product's words put first.
LEMMA OrderIsPrecedence ==
  ASSUME input.evaluatedAt \in Times, NEW c \in Candidates, NEW d \in Candidates,
         CompareBoundCandidates(WithEvaluation(c, input.evaluatedAt),
                                WithEvaluation(d, input.evaluatedAt), input.evaluatedAt) < 0
  PROVE  Precedes(c, d)
<1> DEFINE rank(b) == TierRank[EvaluateCorrection(b.star, b.correction)]
           times == CompareTimes(EffectiveTimestamp(c.timestamp, input.evaluatedAt),
                                 EffectiveTimestamp(d.timestamp, input.evaluatedAt))
<1>1. \/ rank(c) < rank(d)
      \/ rank(c) = rank(d) /\ CompareCandidates(c, d, input.evaluatedAt) < 0
  BY BoundAreOrdered
<1>2. CompareCandidates(c, d, input.evaluatedAt) < 0 =>
        times < 0 \/ (times = 0 /\ IdPrecedes(c.thread, d.thread))
  BY CandidatesAreOrdered
<1>3. /\ Newer(c, d) <=> times < 0
      /\ SameTime(c, d) <=> times = 0
  BY ChronologyIsTheComparison
<1>4. rank(c) \in 0..2 /\ rank(d) \in 0..2 /\ Group(c) = rank(c) + 1 /\ Group(d) = rank(d) + 1
  BY TierRanks, TierType, TiersAreGroups
<1> HIDE DEF rank, times
<1> QED
  BY <1>1, <1>2, <1>3, <1>4 DEF Precedes

Gaps(adm, at, k) == {c \in Range(adm) : Affected(EvidenceKinds[k], c, at)}

\* A gap is counted once for each candidate that has it.
LEMMA GapsAreCounted ==
  ASSUME NEW scope, NEW adm \in Seq(Candidates), WellScoped(adm, scope),
         Len(adm) <= CandidateLimit, NEW at \in Times,
         NEW ord, ord = OrderPriorityPolicyCandidates(scope, adm, Evaluated(adm, at), at),
         NEW k \in 1..3
  PROVE  Counts(ord, at)[k] = Cardinality(Gaps(adm, at, k))
<1> DEFINE n == Len(adm)
           D == {i \in DOMAIN ord : Affected(EvidenceKinds[k], ord[i].candidate, at)}
           C == {c \in Range(adm) : Affected(EvidenceKinds[k], c, at)}
           f == [i \in D |-> ord[i].candidate]
<1>1. n \in Nat /\ DOMAIN adm = 1..n /\ \A i \in 1..n : adm[i] \in Candidates
  OBVIOUS
<1>2. /\ ord \in Seq(BoundCandidates) /\ Len(ord) = n
      /\ \E p \in Places(n) : \A i \in 1..n : ord[i] = WithEvaluation(adm[p[i]], at)
  <2>1. /\ ord \in Seq(BoundCandidates) /\ Len(ord) = Len(adm)
        /\ \E p \in Places(Len(adm)) :
             /\ \A i \in 1..Len(adm) : ord[i] = WithEvaluation(adm[p[i]], at)
             /\ \A i, j \in 1..Len(adm) : i < j => CompareBoundCandidates(ord[i], ord[j], at) < 0
    BY OrderedPlaces
  <2> QED
    BY <2>1
<1>3. PICK p \in Places(n) : \A i \in 1..n : ord[i] = WithEvaluation(adm[p[i]], at)
  BY <1>2
<1>4. /\ p \in [1..n -> 1..n] /\ \A i, j \in 1..n : p[i] = p[j] => i = j
      /\ \A i \in 1..n : \E j \in 1..n : p[j] = i
  BY DEF Places
<1>5. DOMAIN ord = 1..n
  BY <1>2
<1>6. \A i, j \in 1..n : adm[i] = adm[j] => i = j
  BY DEF WellScoped, DistinctThreads
<1> HIDE DEF n
<1>7. \A i \in 1..n : p[i] \in 1..n /\ ord[i].candidate = adm[p[i]]
  <2> TAKE i \in 1..n
  <2>1. p[i] \in 1..n
    BY <1>4
  <2>2. adm[p[i]] \in Candidates /\ ord[i] = WithEvaluation(adm[p[i]], at)
    BY <2>1, <1>1, <1>3
  <2> QED
    BY <2>1, <2>2, WithEvaluationType
<1>8. D \in SUBSET (1..n) /\ IsFiniteSet(1..n)
  BY <1>1, <1>5, Positions
<1>9. \A i \in D : i \in 1..n /\ Affected(EvidenceKinds[k], adm[p[i]], at)
  BY <1>5, <1>7
<1>10. \A i \in 1..n : Affected(EvidenceKinds[k], adm[p[i]], at) => i \in D
  BY <1>5, <1>7
<1>11. \A c \in C : \E i \in 1..n : c = adm[i] /\ Affected(EvidenceKinds[k], adm[i], at)
  BY <1>1 DEF Range
<1>12. \A i \in 1..n : Affected(EvidenceKinds[k], adm[i], at) => adm[i] \in C
  BY <1>1 DEF Range
<1> HIDE DEF D, C
<1>13. \A i \in D : f[i] = adm[p[i]]
  BY <1>7, <1>9
<1>14. f \in [D -> C]
  BY <1>7, <1>9, <1>12
<1> HIDE DEF f
<1>15. \A i, j \in D : f[i] = f[j] => i = j
  <2> TAKE i, j \in D
  <2> HAVE f[i] = f[j]
  <2>1. i \in 1..n /\ j \in 1..n /\ adm[p[i]] = adm[p[j]]
    BY <1>9, <1>13
  <2>2. p[i] = p[j]
    BY <2>1, <1>6, <1>7
  <2> QED
    BY <2>1, <2>2, <1>4
<1>16. \A c \in C : \E i \in D : f[i] = c
  <2> TAKE c \in C
  <2>1. PICK i \in 1..n : c = adm[i] /\ Affected(EvidenceKinds[k], adm[i], at)
    BY <1>11
  <2>2. PICK j \in 1..n : p[j] = i
    BY <1>4
  <2>3. j \in D
    BY <2>1, <2>2, <1>10
  <2> QED
    BY <2>1, <2>2, <2>3, <1>13
<1>17. f \in Surjection(D, C) /\ f \in Injection(D, C)
  BY <1>14, <1>15, <1>16 DEF Surjection, Injection, IsInjective
<1>18. IsFiniteSet(D)
  BY <1>8, FS_Subset
<1>19. Cardinality(C) = Cardinality(D)
  BY <1>17, <1>18, FS_Surjection
<1> QED
  BY <1>19 DEF Counts, Gaps, D, C

\* With one candidate per thread there are as many candidates as places.
LEMMA CandidatesAreDistinct ==
  ASSUME NEW adm \in Seq(Candidates), DistinctThreads(adm)
  PROVE  Cardinality(Range(adm)) = Len(adm)
<1> DEFINE n == Len(adm)
<1>1. n \in Nat /\ DOMAIN adm = 1..n /\ adm \in [1..n -> Range(adm)]
  BY DEF Range
<1>2. \A i, j \in 1..n : adm[i] = adm[j] => i = j
  BY DEF DistinctThreads
<1>3. \A c \in Range(adm) : \E i \in 1..n : adm[i] = c
  BY <1>1 DEF Range
<1>4. IsFiniteSet(1..n) /\ Cardinality(1..n) = n
  BY <1>1, Positions
<1> HIDE DEF n
<1>5. adm \in Surjection(1..n, Range(adm)) /\ adm \in Injection(1..n, Range(adm))
  BY <1>1, <1>2, <1>3 DEF Surjection, Injection, IsInjective
<1>6. Cardinality(Range(adm)) = Cardinality(1..n)
  BY <1>4, <1>5, FS_Surjection
<1> QED
  BY <1>4, <1>6 DEF n

\* A snapshot is refused for a candidate out of scope or a thread listed twice.
LEMMA RefusedSnapshot ==
  ASSUME NEW scope, NEW cs \in Seq(Candidates), ~WellScoped(cs, scope)
  PROVE  \/ \E c \in Range(cs) : c.scope # scope \/ ~IsPriorityPolicyCandidateEligible(c.location)
         \/ Cardinality({c.thread : c \in Range(cs)}) < Len(cs)
<1> DEFINE n == Len(cs)
           T == {c.thread : c \in Range(cs)}
           f == [i \in 1..n |-> cs[i].thread]
<1>1. n \in Nat /\ DOMAIN cs = 1..n /\ \A i \in 1..n : cs[i] \in Range(cs)
  BY DEF Range
<1>2. IsFiniteSet(1..n) /\ Cardinality(1..n) = n
  BY <1>1, Positions
<1>3. CASE DistinctThreads(cs)
  BY <1>1, <1>3 DEF WellScoped
<1>4. CASE ~DistinctThreads(cs)
  <2>1. PICK i \in 1..n, j \in 1..n : f[i] = f[j] /\ i # j
    BY <1>1, <1>4 DEF DistinctThreads
  <2>2. f \in [1..n -> T] /\ \A t \in T : \E m \in 1..n : f[m] = t
    BY <1>1 DEF Range
  <2> HIDE DEF n, T, f
  <2>3. f \in Surjection(1..n, T) /\ f \notin Injection(1..n, T)
    BY <2>1, <2>2 DEF Surjection, Injection, IsInjective
  <2>4. IsFiniteSet(T) /\ Cardinality(T) <= Cardinality(1..n) /\ Cardinality(T) # Cardinality(1..n)
    BY <2>3, <1>2, FS_Surjection
  <2>5. Cardinality(T) \in Nat
    BY <2>4, FS_CardinalityType
  <2>6. Cardinality(T) < n
    BY <2>4, <2>5, <1>1, <1>2
  <2> QED
    BY <2>6 DEF n, T
<1> QED
  BY <1>3, <1>4
-----------------------------------------------------------------------------
(* The invariant: each variable holds what its stage makes of the input.         *)

Inputs == [scope: Scopes, candidates: Seq(Candidates), evaluatedAt: Times,
           coverage: Coverages, delivery: [returned: Nat, continuation: BOOLEAN]]

Replayable == {"recorded", "stored", "verified"}
AfterCollection == {"collected"} \cup Replayable
AfterOrdering == {"ordered"} \cup AfterCollection
AfterEvaluation == {"evaluated"} \cup AfterOrdering
AfterAdmission == {"admitted"} \cup AfterEvaluation

Pipeline ==
  /\ input \in Inputs
  /\ phase \in {"given", "rejected"} \cup AfterAdmission
  /\ phase \in AfterAdmission =>
       /\ WellScoped(input.candidates, input.scope)
       /\ admitted = AdmitPriorityPolicyCandidates(input.scope, input.candidates, input.evaluatedAt)
  /\ phase \in AfterEvaluation => evaluations = EvaluateAll(admitted, input.evaluatedAt)
  /\ phase \in AfterOrdering =>
       ordered = OrderPriorityPolicyCandidates(input.scope, admitted, evaluations, input.evaluatedAt)
  /\ phase \in AfterCollection =>
       /\ collection = CreatePriorityPolicyCollectionEvaluation(
                         input.scope, ordered, input.evaluatedAt, input.coverage, input.delivery)
       /\ collection # Invalid
  /\ phase \in Replayable =>
       /\ recorded = [canonicalText |-> recorded.canonicalText, value |-> recorded.value]
       /\ recorded.canonicalText \in BOOLEAN

IInv == Pipeline /\ StagesCompose /\ ReplayIsExact

\* What a stage was given is well formed.
LEMMA PipelineIsWellFormed ==
  ASSUME Pipeline
  PROVE  /\ input \in Inputs
         /\ phase \in AfterAdmission =>
              /\ admitted \in Seq(Candidates) /\ admitted # Invalid
              /\ WellScoped(admitted, input.scope)
              /\ Len(admitted) = CapLength(input.candidates) /\ Len(admitted) <= CandidateLimit
         /\ phase \in AfterEvaluation =>
              evaluations = Evaluated(admitted, input.evaluatedAt) /\ evaluations # Invalid
         /\ phase \in AfterOrdering =>
              /\ ordered = OrderPriorityPolicyCandidates(input.scope, admitted,
                             Evaluated(admitted, input.evaluatedAt), input.evaluatedAt)
              /\ ordered \in Seq(BoundCandidates) /\ ordered # Invalid
         /\ phase \in AfterCollection =>
              Stages(input.scope, admitted, input.evaluatedAt, ordered, input.coverage,
                     input.delivery, collection)
<1>1. /\ input \in Inputs /\ input.candidates \in Seq(Candidates) /\ input.evaluatedAt \in Times
      /\ input.coverage \in Coverages /\ input.delivery \in [returned: Nat, continuation: BOOLEAN]
  BY DEF Pipeline, Inputs
<1>2. ASSUME phase \in AfterAdmission
      PROVE  /\ admitted \in Seq(Candidates) /\ admitted # Invalid
             /\ WellScoped(admitted, input.scope)
             /\ Len(admitted) = CapLength(input.candidates) /\ Len(admitted) <= CandidateLimit
  <2>1. /\ WellScoped(input.candidates, input.scope)
        /\ admitted = AdmitPriorityPolicyCandidates(input.scope, input.candidates, input.evaluatedAt)
    BY <1>2 DEF Pipeline
  <2>2. /\ admitted \in Seq(Candidates) /\ Len(admitted) = CapLength(input.candidates)
        /\ Len(admitted) <= CandidateLimit
    BY <1>1, <2>1, AdmissionPlaces
  <2>3. WellScoped(admitted, input.scope)
    BY <1>1, <2>1, AdmittedIsWellScoped
  <2> QED
    BY <2>2, <2>3, CollectionAssumption
<1>3. ASSUME phase \in AfterEvaluation
      PROVE  evaluations = Evaluated(admitted, input.evaluatedAt) /\ evaluations # Invalid
  <2>1. phase \in AfterAdmission /\ evaluations = EvaluateAll(admitted, input.evaluatedAt)
    BY <1>3 DEF Pipeline, AfterAdmission
  <2>2. /\ evaluations = Evaluated(admitted, input.evaluatedAt)
        /\ evaluations \in Seq(Evaluations)
    BY <1>1, <1>2, <2>1, EvaluationGoesThrough
  <2> QED
    BY <2>2, CollectionAssumption
<1>4. ASSUME phase \in AfterOrdering
      PROVE  /\ ordered = OrderPriorityPolicyCandidates(input.scope, admitted,
                            Evaluated(admitted, input.evaluatedAt), input.evaluatedAt)
             /\ ordered \in Seq(BoundCandidates) /\ ordered # Invalid
  <2>1. /\ phase \in AfterAdmission /\ phase \in AfterEvaluation
        /\ ordered = OrderPriorityPolicyCandidates(input.scope, admitted, evaluations, input.evaluatedAt)
    BY <1>4 DEF Pipeline, AfterAdmission, AfterEvaluation
  <2>2. ordered = OrderPriorityPolicyCandidates(input.scope, admitted,
                    Evaluated(admitted, input.evaluatedAt), input.evaluatedAt)
    BY <2>1, <1>3
  <2>3. ordered \in Seq(BoundCandidates)
    BY <1>1, <1>2, <2>1, <2>2, OrderedPlaces
  <2> QED
    BY <2>2, <2>3, CollectionAssumption
<1>5. ASSUME phase \in AfterCollection
      PROVE  Stages(input.scope, admitted, input.evaluatedAt, ordered, input.coverage,
                    input.delivery, collection)
  <2>1. /\ phase \in AfterAdmission /\ phase \in AfterOrdering
        /\ collection = CreatePriorityPolicyCollectionEvaluation(
                          input.scope, ordered, input.evaluatedAt, input.coverage, input.delivery)
    BY <1>5 DEF Pipeline, AfterAdmission, AfterEvaluation, AfterOrdering
  <2> QED
    BY <1>1, <1>2, <1>4, <2>1 DEF Stages
<1> QED
  BY <1>1, <1>2, <1>3, <1>4, <1>5

\* The stages in a row make what was made stage by stage.
LEMMA RecomputeRepeats ==
  ASSUME Pipeline, phase \in AfterCollection
  PROVE  Recompute(input) = collection
<1>1. /\ phase \in AfterAdmission /\ phase \in AfterEvaluation /\ phase \in AfterOrdering
  BY DEF AfterAdmission, AfterEvaluation, AfterOrdering
<1>2. /\ admitted # Invalid /\ evaluations # Invalid /\ ordered # Invalid
  BY <1>1, PipelineIsWellFormed
<1>3. /\ admitted = AdmitPriorityPolicyCandidates(input.scope, input.candidates, input.evaluatedAt)
      /\ evaluations = EvaluateAll(admitted, input.evaluatedAt)
      /\ ordered = OrderPriorityPolicyCandidates(input.scope, admitted, evaluations, input.evaluatedAt)
      /\ collection = CreatePriorityPolicyCollectionEvaluation(
                        input.scope, ordered, input.evaluatedAt, input.coverage, input.delivery)
  BY <1>1 DEF Pipeline
<1> QED
  BY <1>2, <1>3 DEF Recompute

\* At most the cap, and all when they are fewer.
LEMMA CapIsMinimum ==
  ASSUME NEW cs \in Seq(Candidates)
  PROVE  CapLength(cs) = Min({CandidateLimit, Len(cs)})
<1>1. CandidateLimit \in Int /\ Len(cs) \in Int
  BY CollectionAssumption
<1> QED
  BY <1>1, OfTwo DEF CapLength

\* The first state: nothing has been evaluated.
LEMMA InitIsPipeline ==
  ASSUME Init
  PROVE  IInv
<1>1. input \in Inputs
  <2>1. /\ Snapshots \subseteq Seq(Candidates) /\ Instants \subseteq Times
        /\ Deliveries \subseteq [returned: Nat, continuation: BOOLEAN]
    BY ReplayAssumption
  <2>2. input \in [scope: Scopes, candidates: Snapshots, evaluatedAt: Instants,
                   coverage: Coverages, delivery: Deliveries]
    BY DEF Init
  <2> QED
    BY <2>1, <2>2 DEF Inputs
<1>2. phase = "given"
  BY DEF Init
<1> QED
  BY <1>1, <1>2 DEF IInv, Pipeline, StagesCompose, ReplayIsExact, AfterAdmission, AfterEvaluation,
                    AfterOrdering, AfterCollection, Replayable
-----------------------------------------------------------------------------
(* The steps.                                                                  *)

\* What may be wrong with an input.
Faulty(s) ==
  LET given == Range(s.candidates)
      evaluated == Min({CandidateLimit, Len(s.candidates)})
  IN
  \/ \E c \in given : c.scope # s.scope \/ ~IsPriorityPolicyCandidateEligible(c.location)
  \/ Cardinality({c.thread : c \in given}) < Len(s.candidates)
  \/ s.delivery.returned > evaluated
  \/ s.delivery.returned = evaluated /\ s.delivery.continuation
  \/ s.evaluatedAt + Max({EvaluationValidity, StaleRetention}) > MaxTimestamp

\* Admission refuses only a faulty snapshot.
LEMMA AdmitStep ==
  ASSUME IInv, Admit
  PROVE  IInv'
<1>1. /\ input \in Inputs /\ input.candidates \in Seq(Candidates) /\ input.evaluatedAt \in Times
  BY DEF IInv, Pipeline, Inputs
<1>2. /\ admitted' = AdmitPriorityPolicyCandidates(input.scope, input.candidates, input.evaluatedAt)
      /\ phase' = IF admitted' = Invalid THEN "rejected" ELSE "admitted"
      /\ input' = input
  BY DEF Admit, Reach
<1>3. CASE WellScoped(input.candidates, input.scope)
  <2>1. admitted' \in Seq(Candidates)
    BY <1>1, <1>2, <1>3, AdmissionPlaces
  <2>2. phase' = "admitted"
    BY <2>1, <1>2, CollectionAssumption
  <2> QED
    BY <1>1, <1>2, <1>3, <2>2
       DEF IInv, Pipeline, StagesCompose, ReplayIsExact, AfterAdmission, AfterEvaluation,
           AfterOrdering, AfterCollection, Replayable
<1>4. CASE ~WellScoped(input.candidates, input.scope)
  <2>1. phase' = "rejected"
    BY <1>2, <1>4 DEF AdmitPriorityPolicyCandidates
  <2>2. Faulty(input)
    BY <1>1, <1>4, RefusedSnapshot DEF Faulty
  <2>3. StagesCompose'
    BY <1>2, <2>2 DEF StagesCompose, Faulty, Given
  <2> QED
    BY <1>1, <1>2, <2>1, <2>3
       DEF IInv, Pipeline, ReplayIsExact, AfterAdmission, AfterEvaluation,
           AfterOrdering, AfterCollection, Replayable
<1> QED
  BY <1>3, <1>4

\* What is admitted is evaluated.
LEMMA EvaluateStep ==
  ASSUME IInv, Evaluate
  PROVE  IInv'
<1>1. Pipeline /\ phase = "admitted" /\ phase \in AfterAdmission
  BY DEF IInv, Evaluate, AfterAdmission
<1>2. /\ input \in Inputs /\ input.evaluatedAt \in Times
      /\ admitted \in Seq(Candidates) /\ WellScoped(admitted, input.scope)
  BY <1>1, PipelineIsWellFormed DEF Inputs
<1>3. /\ evaluations' = EvaluateAll(admitted, input.evaluatedAt)
      /\ phase' = IF evaluations' = Invalid THEN "rejected" ELSE "evaluated"
      /\ input' = input /\ admitted' = admitted
  BY DEF Evaluate, Reach
<1>4. evaluations' \in Seq(Evaluations)
  BY <1>2, <1>3, EvaluationGoesThrough
<1>5. phase' = "evaluated"
  BY <1>3, <1>4, CollectionAssumption
<1>6. /\ WellScoped(input.candidates, input.scope)
      /\ admitted = AdmitPriorityPolicyCandidates(input.scope, input.candidates, input.evaluatedAt)
  BY <1>1 DEF Pipeline
<1> QED
  BY <1>2, <1>3, <1>5, <1>6
     DEF IInv, Pipeline, StagesCompose, ReplayIsExact, AfterAdmission, AfterEvaluation,
         AfterOrdering, AfterCollection, Replayable

\* What is evaluated is ordered.
LEMMA OrderStep ==
  ASSUME IInv, Order
  PROVE  IInv'
<1>1. Pipeline /\ phase = "evaluated" /\ phase \in AfterAdmission /\ phase \in AfterEvaluation
  BY DEF IInv, Order, AfterAdmission, AfterEvaluation
<1>2. /\ input \in Inputs /\ input.evaluatedAt \in Times
      /\ admitted \in Seq(Candidates) /\ WellScoped(admitted, input.scope)
      /\ Len(admitted) <= CandidateLimit
      /\ evaluations = Evaluated(admitted, input.evaluatedAt)
  BY <1>1, PipelineIsWellFormed DEF Inputs
<1>3. /\ ordered' = OrderPriorityPolicyCandidates(input.scope, admitted, evaluations, input.evaluatedAt)
      /\ phase' = IF ordered' = Invalid THEN "rejected" ELSE "ordered"
      /\ input' = input /\ admitted' = admitted /\ evaluations' = evaluations
  BY DEF Order, Reach
<1>4. ordered' \in Seq(BoundCandidates)
  BY <1>2, <1>3, OrderedPlaces
<1>5. phase' = "ordered"
  BY <1>3, <1>4, CollectionAssumption
<1>6. /\ WellScoped(input.candidates, input.scope)
      /\ admitted = AdmitPriorityPolicyCandidates(input.scope, input.candidates, input.evaluatedAt)
      /\ evaluations = EvaluateAll(admitted, input.evaluatedAt)
  BY <1>1 DEF Pipeline
<1> QED
  BY <1>2, <1>3, <1>5, <1>6
     DEF IInv, Pipeline, StagesCompose, ReplayIsExact, AfterAdmission, AfterEvaluation,
         AfterOrdering, AfterCollection, Replayable

\* An envelope is refused only for the delivery or the instant it was asked for.
LEMMA CollectStep ==
  ASSUME IInv, Collect
  PROVE  IInv'
<1>1. /\ Pipeline /\ phase = "ordered" /\ phase \in AfterAdmission /\ phase \in AfterEvaluation
      /\ phase \in AfterOrdering
  BY DEF IInv, Collect, AfterAdmission, AfterEvaluation, AfterOrdering
<1>2. /\ input \in Inputs /\ input.evaluatedAt \in Times /\ input.candidates \in Seq(Candidates)
      /\ input.coverage \in Coverages /\ input.delivery \in [returned: Nat, continuation: BOOLEAN]
      /\ admitted \in Seq(Candidates) /\ WellScoped(admitted, input.scope)
      /\ Len(admitted) <= CandidateLimit /\ Len(admitted) = CapLength(input.candidates)
      /\ ordered = OrderPriorityPolicyCandidates(input.scope, admitted,
                     Evaluated(admitted, input.evaluatedAt), input.evaluatedAt)
  BY <1>1, PipelineIsWellFormed DEF Inputs
<1>3. /\ collection' = CreatePriorityPolicyCollectionEvaluation(
                         input.scope, ordered, input.evaluatedAt, input.coverage, input.delivery)
      /\ phase' = IF collection' = Invalid THEN "rejected" ELSE "collected"
      /\ input' = input /\ admitted' = admitted /\ evaluations' = evaluations /\ ordered' = ordered
  BY DEF Collect, Reach
<1>4. Stages(input.scope, admitted, input.evaluatedAt, ordered, input.coverage, input.delivery,
             collection')
  BY <1>2, <1>3 DEF Stages
<1>5. /\ WellScoped(input.candidates, input.scope)
      /\ admitted = AdmitPriorityPolicyCandidates(input.scope, input.candidates, input.evaluatedAt)
      /\ evaluations = EvaluateAll(admitted, input.evaluatedAt)
      /\ ordered = OrderPriorityPolicyCandidates(input.scope, admitted, evaluations, input.evaluatedAt)
  BY <1>1 DEF Pipeline
<1>6. CASE collection' # Invalid
  BY <1>2, <1>3, <1>5, <1>6
     DEF IInv, Pipeline, StagesCompose, ReplayIsExact, AfterAdmission, AfterEvaluation,
         AfterOrdering, AfterCollection, Replayable
<1>7. CASE collection' = Invalid
  <2>1. \/ input.delivery.returned > Len(admitted)
        \/ input.delivery.returned = Len(admitted) /\ input.delivery.continuation
        \/ input.evaluatedAt + EvaluationValidity > MaxTimestamp
        \/ input.evaluatedAt + StaleRetention > MaxTimestamp
    BY <1>4, <1>7, RefusedEnvelope
  <2>2. Len(admitted) = Min({CandidateLimit, Len(input.candidates)})
    BY <1>2, CapIsMinimum
  <2>3. \/ input.evaluatedAt + EvaluationValidity > MaxTimestamp
        \/ input.evaluatedAt + StaleRetention > MaxTimestamp
        => input.evaluatedAt + Max({EvaluationValidity, StaleRetention}) > MaxTimestamp
    <3>1. /\ EvaluationValidity \in Int /\ StaleRetention \in Int /\ MaxTimestamp \in Int
          /\ input.evaluatedAt \in Int
      BY <1>2, CollectionAssumption, PolicyAssumption DEF Times
    <3>2. Max({EvaluationValidity, StaleRetention}) =
            IF StaleRetention > EvaluationValidity THEN StaleRetention ELSE EvaluationValidity
      BY <3>1, OfTwo
    <3> QED
      BY <3>1, <3>2
  <2>4. Faulty(input)
    BY <2>1, <2>2, <2>3 DEF Faulty
  <2>5. StagesCompose'
    BY <1>3, <2>4 DEF StagesCompose, Faulty, Given
  <2>6. phase' = "rejected"
    BY <1>3, <1>7
  <2> QED
    BY <1>2, <1>3, <2>5, <2>6
       DEF IInv, Pipeline, ReplayIsExact, AfterAdmission, AfterEvaluation,
           AfterOrdering, AfterCollection, Replayable
<1> QED
  BY <1>6, <1>7

\* A recording and whatever is stored in its place are serializations.
LEMMA RecordingStep ==
  ASSUME IInv, Record \/ AlterRecording
  PROVE  IInv'
<1>1. /\ Pipeline /\ phase \in {"collected", "recorded"}
      /\ phase \in AfterAdmission /\ phase \in AfterEvaluation
      /\ phase \in AfterOrdering /\ phase \in AfterCollection
  BY DEF IInv, Record, AlterRecording, AfterAdmission, AfterEvaluation, AfterOrdering,
         AfterCollection, Replayable
<1>2. /\ input' = input /\ admitted' = admitted /\ evaluations' = evaluations
      /\ ordered' = ordered /\ collection' = collection /\ phase' \in {"recorded", "stored"}
  BY DEF Record, AlterRecording
<1>3. /\ recorded' = [canonicalText |-> recorded'.canonicalText, value |-> recorded'.value]
      /\ recorded'.canonicalText \in BOOLEAN
  <2>1. CASE Record
    BY <2>1 DEF Record
  <2>2. CASE AlterRecording
    <3>1. recorded = [canonicalText |-> recorded.canonicalText, value |-> recorded.value]
      BY <2>2 DEF AlterRecording, IInv, Pipeline, Replayable
    <3>2. CASE recorded' = Reworded
      <4>1. PICK b, v : recorded = [canonicalText |-> b, value |-> v]
        BY <3>1
      <4>2. recorded' = [canonicalText |-> FALSE, value |-> v]
        BY <3>2, <4>1 DEF Reworded
      <4> QED
        BY <4>2
    <3>3. CASE recorded' \in {[canonicalText |-> TRUE, value |-> e] : e \in AlteredEnvelopes(collection)}
      <4>1. \E e : recorded' = [canonicalText |-> TRUE, value |-> e]
        BY <3>3, Zenon
      <4>2. PICK e : recorded' = [canonicalText |-> TRUE, value |-> e]
        BY <4>1, Zenon
      <4> QED
        BY <4>2
    <3> QED
      BY <2>2, <3>2, <3>3 DEF AlterRecording
  <2> QED
    BY <2>1, <2>2
<1>4. /\ input \in Inputs
      /\ WellScoped(input.candidates, input.scope)
      /\ admitted = AdmitPriorityPolicyCandidates(input.scope, input.candidates, input.evaluatedAt)
      /\ evaluations = EvaluateAll(admitted, input.evaluatedAt)
      /\ ordered = OrderPriorityPolicyCandidates(input.scope, admitted, evaluations, input.evaluatedAt)
      /\ collection = CreatePriorityPolicyCollectionEvaluation(
                        input.scope, ordered, input.evaluatedAt, input.coverage, input.delivery)
      /\ collection # Invalid
  BY <1>1 DEF Pipeline
<1>5. phase' # "rejected" /\ phase' # "verified" /\ phase' \in AfterAdmission
  BY <1>2 DEF AfterAdmission, AfterEvaluation, AfterOrdering, AfterCollection, Replayable
<1>6. Pipeline'
  BY <1>2, <1>3, <1>4, <1>5 DEF Pipeline
<1> QED
  BY <1>5, <1>6 DEF IInv, StagesCompose, ReplayIsExact

\* A snapshot listed the other way round makes the same.
LEMMA ReorderStep ==
  ASSUME IInv, ReorderSnapshot
  PROVE  IInv'
<1>1. /\ Pipeline /\ phase = "recorded"
      /\ phase \in AfterAdmission /\ phase \in AfterEvaluation
      /\ phase \in AfterOrdering /\ phase \in AfterCollection /\ phase \in Replayable
  BY DEF IInv, ReorderSnapshot, AfterAdmission, AfterEvaluation, AfterOrdering,
         AfterCollection, Replayable
<1>2. /\ input' = [input EXCEPT !.candidates = Reverse(input.candidates)]
      /\ admitted' = admitted /\ evaluations' = evaluations
      /\ ordered' = ordered /\ collection' = collection /\ recorded' = recorded /\ phase' = "stored"
  BY DEF ReorderSnapshot
<1>3. /\ input \in Inputs /\ input.candidates \in Seq(Candidates) /\ input.evaluatedAt \in Times
      /\ WellScoped(input.candidates, input.scope)
      /\ admitted = AdmitPriorityPolicyCandidates(input.scope, input.candidates, input.evaluatedAt)
      /\ evaluations = EvaluateAll(admitted, input.evaluatedAt)
      /\ ordered = OrderPriorityPolicyCandidates(input.scope, admitted, evaluations, input.evaluatedAt)
      /\ collection = CreatePriorityPolicyCollectionEvaluation(
                        input.scope, ordered, input.evaluatedAt, input.coverage, input.delivery)
      /\ collection # Invalid
      /\ recorded = [canonicalText |-> recorded.canonicalText, value |-> recorded.value]
      /\ recorded.canonicalText \in BOOLEAN
  BY <1>1 DEF Pipeline, Inputs
<1>4. /\ Reverse(input.candidates) \in Seq(Candidates)
      /\ WellScoped(Reverse(input.candidates), input.scope)
      /\ AdmitPriorityPolicyCandidates(input.scope, Reverse(input.candidates), input.evaluatedAt)
           = admitted
  BY <1>3, AdmissionIgnoresOrder
<1>5. /\ input' \in Inputs
      /\ input'.candidates = Reverse(input.candidates) /\ input'.scope = input.scope
      /\ input'.evaluatedAt = input.evaluatedAt /\ input'.coverage = input.coverage
      /\ input'.delivery = input.delivery
  BY <1>2, <1>3, <1>4 DEF Inputs
<1>6. phase' # "rejected" /\ phase' # "verified" /\ phase' \in AfterAdmission
  BY <1>2 DEF AfterAdmission, AfterEvaluation, AfterOrdering, AfterCollection, Replayable
<1>7. Pipeline'
  BY <1>2, <1>3, <1>4, <1>5, <1>6 DEF Pipeline
<1> QED
  BY <1>6, <1>7 DEF IInv, StagesCompose, ReplayIsExact

\* The verdict of a replay is a comparison with what was evaluated.
LEMMA VerifyStep ==
  ASSUME IInv, VerifyPriorityPolicyReplay
  PROVE  IInv'
<1>1. /\ Pipeline /\ phase \in AfterAdmission /\ phase \in AfterEvaluation
      /\ phase \in AfterOrdering /\ phase \in AfterCollection /\ phase \in Replayable
  BY DEF IInv, VerifyPriorityPolicyReplay, AfterAdmission, AfterEvaluation, AfterOrdering,
         AfterCollection, Replayable
<1>2. /\ input' = input /\ admitted' = admitted /\ evaluations' = evaluations
      /\ ordered' = ordered /\ collection' = collection /\ recorded' = recorded
      /\ phase' = "verified"
  BY DEF VerifyPriorityPolicyReplay
<1>3. /\ input \in Inputs
      /\ WellScoped(input.candidates, input.scope)
      /\ admitted = AdmitPriorityPolicyCandidates(input.scope, input.candidates, input.evaluatedAt)
      /\ evaluations = EvaluateAll(admitted, input.evaluatedAt)
      /\ ordered = OrderPriorityPolicyCandidates(input.scope, admitted, evaluations, input.evaluatedAt)
      /\ collection = CreatePriorityPolicyCollectionEvaluation(
                        input.scope, ordered, input.evaluatedAt, input.coverage, input.delivery)
      /\ collection # Invalid
      /\ recorded = [canonicalText |-> recorded.canonicalText, value |-> recorded.value]
      /\ recorded.canonicalText \in BOOLEAN
  BY <1>1 DEF Pipeline
<1>4. ValidReplayFixture(input)
  BY <1>3 DEF ValidReplayFixture, WellScoped
<1>5. Recompute(input) = collection
  BY <1>1, RecomputeRepeats
<1>6. Stages(input.scope, admitted, input.evaluatedAt, ordered, input.coverage, input.delivery, collection)
  BY <1>1, PipelineIsWellFormed
<1>7. CanonicalReplaySerialization([canonicalText |-> TRUE, value |-> collection])
  BY <1>3, <1>6, EnvelopeIsCanonical
<1>8. collection.evaluatedAt = input.evaluatedAt
  <2>1. collection = Envelope(ordered, input.evaluatedAt, input.coverage, input.delivery)
    BY <1>3, <1>6, AcceptedEnvelope
  <2> QED
    BY <2>1 DEF Envelope
<1> DEFINE refused == \/ ~CanonicalReplaySerialization(recorded)
                      \/ recorded.value.evaluatedAt # input.evaluatedAt
<1>9. verdict' = IF refused THEN "SERIALIZATION_ERROR"
                 ELSE IF collection = recorded.value THEN "MATCH" ELSE "MISMATCH"
  BY <1>3, <1>4, <1>5 DEF VerifyPriorityPolicyReplay
<1>10. recorded = [canonicalText |-> TRUE, value |-> collection] => ~refused /\ collection = recorded.value
  BY <1>7, <1>8
<1>11. ~refused => recorded.canonicalText = TRUE
  BY <1>3 DEF CanonicalReplaySerialization
<1>12. ~refused /\ collection = recorded.value => recorded = [canonicalText |-> TRUE, value |-> collection]
  BY <1>3, <1>11
<1> HIDE DEF refused
<1>13. ReplayIsExact'
  BY <1>2, <1>9, <1>10, <1>12 DEF ReplayIsExact
<1>14. phase' # "rejected" /\ phase' \in AfterAdmission
  BY <1>2 DEF AfterAdmission, AfterEvaluation, AfterOrdering, AfterCollection, Replayable
<1>15. Pipeline'
  BY <1>2, <1>3, <1>14 DEF Pipeline
<1> QED
  BY <1>13, <1>14, <1>15 DEF IInv, StagesCompose

\* Each variable holds what its stage makes of the input, whatever was done to the
\* recording and to the snapshot's order.
THEOREM ReplayInvariant == Spec => []IInv
<1>1. Init => IInv
  BY InitIsPipeline
<1>2. IInv /\ [Next]_vars => IInv'
  <2> SUFFICES ASSUME IInv, [Next]_vars PROVE IInv'
    OBVIOUS
  <2>1. CASE Admit
    BY <2>1, AdmitStep
  <2>2. CASE Evaluate
    BY <2>2, EvaluateStep
  <2>3. CASE Order
    BY <2>3, OrderStep
  <2>4. CASE Collect
    BY <2>4, CollectStep
  <2>5. CASE Record \/ AlterRecording
    BY <2>5, RecordingStep
  <2>6. CASE ReorderSnapshot
    BY <2>6, ReorderStep
  <2>7. CASE VerifyPriorityPolicyReplay
    BY <2>7, VerifyStep
  <2>8. CASE UNCHANGED vars
    BY <2>8 DEF vars, IInv, Pipeline, StagesCompose, ReplayIsExact, Given
  <2> QED
    BY <2>1, <2>2, <2>3, <2>4, <2>5, <2>6, <2>7, <2>8 DEF Next
<1> QED
  BY <1>1, <1>2, PTL DEF Spec
-----------------------------------------------------------------------------
(* The properties.                                                             *)

\* The admitted candidates are the first of the snapshot by moment, and a moment before
\* another is what the product calls newer.
LEMMA AdmittedAreNewest ==
  ASSUME Pipeline
  PROVE  AdmissionKeepsNewest
<1> SUFFICES ASSUME phase = "admitted"
             PROVE  /\ Range(admitted) \subseteq Given
                    /\ Len(admitted) = Min({CandidateLimit, Len(input.candidates)})
                    /\ \A a \in Range(admitted), x \in Given \ Range(admitted) : ~Newer(x, a)
  BY DEF AdmissionKeepsNewest
<1> DEFINE at == input.evaluatedAt
           cs == input.candidates
           n == Len(cs)
<1>1. phase \in AfterAdmission
  BY DEF AfterAdmission
<1>2. /\ cs \in Seq(Candidates) /\ at \in Times /\ WellScoped(cs, input.scope)
      /\ admitted = AdmitPriorityPolicyCandidates(input.scope, cs, at)
  BY <1>1 DEF Pipeline, Inputs
<1>3. /\ admitted \in Seq(Candidates) /\ Len(admitted) = CapLength(cs)
      /\ Len(admitted) \in Nat /\ Len(admitted) <= n
      /\ \E p \in Places(n) :
           /\ \A k \in 1..Len(admitted) : admitted[k] = cs[p[k]]
           /\ \A k, l \in 1..n : k < l => CompareCandidates(cs[p[k]], cs[p[l]], at) < 0
  <2>1. /\ input.candidates \in Seq(Candidates) /\ input.evaluatedAt \in Times
        /\ WellScoped(input.candidates, input.scope)
        /\ admitted = AdmitPriorityPolicyCandidates(input.scope, input.candidates, input.evaluatedAt)
    BY <1>2
  <2>2. /\ admitted \in Seq(Candidates) /\ Len(admitted) = CapLength(input.candidates)
        /\ Len(admitted) \in Nat /\ Len(admitted) <= Len(input.candidates)
        /\ \E p \in Places(Len(input.candidates)) :
             /\ \A k \in 1..Len(admitted) : admitted[k] = input.candidates[p[k]]
             /\ \A k, l \in 1..Len(input.candidates) : k < l =>
                  CompareCandidates(input.candidates[p[k]], input.candidates[p[l]],
                                    input.evaluatedAt) < 0
    BY <2>1, AdmissionPlaces
  <2> QED
    BY <2>2
<1>4. PICK p \in Places(n) :
        /\ \A k \in 1..Len(admitted) : admitted[k] = cs[p[k]]
        /\ \A k, l \in 1..n : k < l => CompareCandidates(cs[p[k]], cs[p[l]], at) < 0
  BY <1>3
<1>5. p \in [1..n -> 1..n] /\ \A i \in 1..n : \E k \in 1..n : p[k] = i
  BY DEF Places
<1>6. n \in Nat /\ DOMAIN cs = 1..n /\ \A i \in 1..n : cs[i] \in Candidates
  BY <1>2
<1>7. Len(admitted) = Min({CandidateLimit, n})
  BY <1>2, <1>3, CapIsMinimum
<1> HIDE DEF at, cs, n
<1>8. \A k \in 1..Len(admitted) : k \in 1..n /\ p[k] \in 1..n
  BY <1>3, <1>5, <1>6
<1>9. \A a \in Range(admitted) : \E k \in 1..Len(admitted) : a = cs[p[k]]
  BY <1>3, <1>4 DEF Range
<1>10. \A k \in 1..Len(admitted) : cs[p[k]] \in Range(admitted)
  BY <1>3, <1>4 DEF Range
<1>11. Given = {cs[i] : i \in 1..n}
  BY <1>6 DEF Given, Range, cs
<1>12. Range(admitted) \subseteq Given
  BY <1>8, <1>9, <1>11
<1>13. ASSUME NEW a \in Range(admitted), NEW x \in Given \ Range(admitted)
       PROVE  ~Newer(x, a)
  <2>1. PICK k \in 1..Len(admitted) : a = cs[p[k]]
    BY <1>9
  <2>2. PICK i \in 1..n : x = cs[i]
    BY <1>11
  <2>3. PICK l \in 1..n : p[l] = i
    BY <1>5
  <2>4. l \notin 1..Len(admitted)
    BY <1>10, <2>2, <2>3
  <2>5. k < l
    BY <1>3, <1>6, <2>4
  <2>6. a \in Candidates /\ x \in Candidates /\ CompareCandidates(a, x, at) < 0
    BY <1>4, <1>6, <1>8, <2>1, <2>2, <2>3, <2>5
  <2> DEFINE here == CompareTimes(EffectiveTimestamp(a.timestamp, at), EffectiveTimestamp(x.timestamp, at))
             there == CompareTimes(EffectiveTimestamp(x.timestamp, at), EffectiveTimestamp(a.timestamp, at))
  <2>7. here < 0 \/ here = 0
    BY <1>2, <2>6, CandidatesAreOrdered
  <2>8. EffectiveTimestamp(a.timestamp, at) \in Times \cup {UnknownTime}
        /\ EffectiveTimestamp(x.timestamp, at) \in Times \cup {UnknownTime}
    BY <1>2, <2>6, EffectiveTimestampType
  <2>9. here \in Int /\ there \in Int /\ (here > 0 <=> there < 0)
    BY <2>8, TimesAreOrdered
  <2>10. Newer(x, a) <=> there < 0
    BY <1>2, <2>6, ChronologyIsTheComparison DEF at
  <2> HIDE DEF here, there
  <2> QED
    BY <2>7, <2>9, <2>10
<1> QED
  BY <1>7, <1>12, <1>13 DEF n, cs

\* What is ordered is what was admitted, and the comparison it is sorted by is the order
\* of groups, chronology and identifiers.
LEMMA OrderedAreCanonical ==
  ASSUME Pipeline
  PROVE  OrderIsCanonical
<1> SUFFICES ASSUME phase = "ordered"
             PROVE  /\ Range(admitted) = {ordered[i].candidate : i \in DOMAIN ordered}
                    /\ \A i, j \in DOMAIN ordered :
                         i < j => Precedes(ordered[i].candidate, ordered[j].candidate)
  BY DEF OrderIsCanonical
<1> DEFINE at == input.evaluatedAt
           n == Len(admitted)
<1>1. phase \in AfterAdmission /\ phase \in AfterOrdering
  BY DEF AfterAdmission, AfterEvaluation, AfterOrdering
<1>2. /\ admitted \in Seq(Candidates) /\ WellScoped(admitted, input.scope)
      /\ n <= CandidateLimit /\ at \in Times
      /\ ordered = OrderPriorityPolicyCandidates(input.scope, admitted, Evaluated(admitted, at), at)
  BY <1>1, PipelineIsWellFormed DEF Inputs
<1>3. /\ ordered \in Seq(BoundCandidates) /\ Len(ordered) = n
      /\ \E p \in Places(n) :
           /\ \A k \in 1..n : ordered[k] = WithEvaluation(admitted[p[k]], at)
           /\ \A k, l \in 1..n : k < l => CompareBoundCandidates(ordered[k], ordered[l], at) < 0
  BY <1>2, OrderedPlaces
<1>4. PICK p \in Places(n) :
        /\ \A k \in 1..n : ordered[k] = WithEvaluation(admitted[p[k]], at)
        /\ \A k, l \in 1..n : k < l => CompareBoundCandidates(ordered[k], ordered[l], at) < 0
  BY <1>3
<1>5. p \in [1..n -> 1..n] /\ \A i \in 1..n : \E k \in 1..n : p[k] = i
  BY DEF Places
<1>6. DOMAIN ordered = 1..n /\ DOMAIN admitted = 1..n /\ \A i \in 1..n : admitted[i] \in Candidates
  BY <1>2, <1>3
<1> HIDE DEF n, at
<1>7. \A k \in 1..n : /\ p[k] \in 1..n
                      /\ admitted[p[k]] \in Candidates
                      /\ ordered[k] = WithEvaluation(admitted[p[k]], at)
                      /\ ordered[k].candidate = admitted[p[k]]
  <2> TAKE k \in 1..n
  <2>1. p[k] \in 1..n
    BY <1>5
  <2>2. admitted[p[k]] \in Candidates /\ ordered[k] = WithEvaluation(admitted[p[k]], at)
    BY <1>4, <1>6, <2>1
  <2>3. WithEvaluation(admitted[p[k]], at).candidate = admitted[p[k]]
    BY <1>2, <2>2, WithEvaluationType
  <2> QED
    BY <2>1, <2>2, <2>3
<1>8. Range(admitted) = {ordered[i].candidate : i \in DOMAIN ordered}
  <2>1. \A c \in Range(admitted) : \E i \in 1..n : c = ordered[i].candidate
    <3> TAKE c \in Range(admitted)
    <3>1. PICK i \in 1..n : c = admitted[i]
      BY <1>6 DEF Range
    <3>2. PICK k \in 1..n : p[k] = i
      BY <1>5
    <3> QED
      BY <1>7, <3>1, <3>2
  <2>2. \A i \in 1..n : ordered[i].candidate \in Range(admitted)
    BY <1>6, <1>7 DEF Range
  <2> QED
    BY <1>6, <2>1, <2>2
<1>9. ASSUME NEW i \in 1..n, NEW j \in 1..n, i < j
      PROVE  Precedes(ordered[i].candidate, ordered[j].candidate)
  <2>1. CompareBoundCandidates(WithEvaluation(admitted[p[i]], at),
                               WithEvaluation(admitted[p[j]], at), at) < 0
    BY <1>4, <1>7, <1>9
  <2>2. Precedes(admitted[p[i]], admitted[p[j]])
    BY <1>2, <1>7, <2>1, OrderIsPrecedence DEF at
  <2> QED
    BY <1>7, <2>2
<1> QED
  BY <1>6, <1>8, <1>9
\* A disclosure names each kind with a gap, with its count, and no other.
LEMMA DisclosedAreTheGaps ==
  ASSUME NEW n \in [1..3 -> Nat], NEW seq, Discloses(n, seq),
         NEW gap \in [Range(EvidenceKinds) -> Nat], \A k \in 1..3 : gap[EvidenceKinds[k]] = n[k]
  PROVE  LET disclosed == {<<entry.kind, entry.count>> : entry \in Range(seq)}
         IN /\ disclosed = {<<k, gap[k]>> : k \in {k \in Range(EvidenceKinds) : gap[k] > 0}}
            /\ seq = <<>> <=> disclosed = {}
<1> DEFINE disclosed == {<<entry.kind, entry.count>> : entry \in Range(seq)}
           kinds == {k \in Range(EvidenceKinds) : gap[k] > 0}
<1>1. seq \in Seq(Entries) /\ Len(seq) \in Nat /\ DOMAIN seq = 1..Len(seq)
  BY DEF Discloses
<1>2. PICK place \in [1..Len(seq) -> 1..3] :
        /\ \A i \in 1..Len(seq) : /\ n[place[i]] > 0
                                  /\ seq[i].kind = EvidenceKinds[place[i]]
                                  /\ seq[i].count = n[place[i]]
        /\ \A k \in 1..3 : n[k] > 0 => \E i \in 1..Len(seq) : place[i] = k
  BY DEF Discloses
<1>3. \A k \in 1..3 : EvidenceKinds[k] \in Range(EvidenceKinds)
  BY KindsOfEvidence DEF Range
<1>4. \A i \in 1..Len(seq) : /\ seq[i].kind \in kinds
                             /\ seq[i].count = gap[seq[i].kind]
  <2> TAKE i \in 1..Len(seq)
  <2>1. place[i] \in 1..3
    OBVIOUS
  <2>2. /\ n[place[i]] > 0 /\ seq[i].kind = EvidenceKinds[place[i]] /\ seq[i].count = n[place[i]]
    BY <1>2
  <2>3. gap[EvidenceKinds[place[i]]] = n[place[i]] /\ EvidenceKinds[place[i]] \in Range(EvidenceKinds)
    BY <1>3, <2>1
  <2> QED
    BY <2>2, <2>3
<1>5. \A kind \in kinds : \E i \in 1..Len(seq) : seq[i].kind = kind
  <2> TAKE kind \in kinds
  <2>1. PICK k \in 1..3 : kind = EvidenceKinds[k]
    BY KindsOfEvidence DEF Range
  <2>2. n[k] > 0
    BY <2>1
  <2>3. PICK i \in 1..Len(seq) : place[i] = k
    BY <1>2, <2>2
  <2> QED
    BY <1>2, <2>1, <2>3
<1>6. \A entry : entry \in Range(seq) <=> \E i \in 1..Len(seq) : entry = seq[i]
  BY <1>1 DEF Range
<1> HIDE DEF kinds
<1>7. disclosed = {<<k, gap[k]>> : k \in kinds}
  <2>1. ASSUME NEW d \in disclosed
        PROVE  d \in {<<k, gap[k]>> : k \in kinds}
    <3>1. PICK i \in 1..Len(seq) : d = <<seq[i].kind, seq[i].count>>
      BY <1>6
    <3>2. d = <<seq[i].kind, gap[seq[i].kind]>> /\ seq[i].kind \in kinds
      BY <1>4, <3>1
    <3> QED
      BY <3>2
  <2>2. ASSUME NEW kind \in kinds
        PROVE  <<kind, gap[kind]>> \in disclosed
    <3>1. PICK i \in 1..Len(seq) : seq[i].kind = kind
      BY <1>5
    <3>2. seq[i] \in Range(seq) /\ <<kind, gap[kind]>> = <<seq[i].kind, seq[i].count>>
      BY <1>4, <1>6, <3>1
    <3> QED
      BY <3>2
  <2> QED
    BY <2>1, <2>2
<1>8. seq = <<>> <=> disclosed = {}
  <2>1. CASE Len(seq) = 0
    <3>1. seq = <<>>
      BY <1>1, <2>1
    <3>2. Range(seq) = {}
      BY <1>1, <2>1 DEF Range
    <3> QED
      BY <3>1, <3>2
  <2>2. CASE Len(seq) > 0
    <3>1. seq[1] \in Range(seq) /\ seq # <<>>
      <4>1. 1 \in 1..Len(seq)
        BY <1>1, <2>2
      <4>2. seq[1] \in Range(seq)
        BY <4>1, <1>6
      <4>3. Len(<<>>) = 0
        OBVIOUS
      <4> QED
        BY <4>2, <4>3, <2>2
    <3>2. <<seq[1].kind, seq[1].count>> \in disclosed
      BY <3>1
    <3> QED
      BY <3>1, <3>2
  <2> QED
    BY <1>1, <2>1, <2>2
<1> QED
  BY <1>7, <1>8 DEF kinds

\* An envelope that was made discloses the gaps of all that was admitted, counted by
\* candidate, and calls a delivery complete when it returns all of them.
LEMMA CollectedIsTruthful ==
  ASSUME Pipeline
  PROVE  TruthfulEnvelope
<1> DEFINE represented == Range(admitted)
           affected(kind) ==
             {c \in represented : CASE kind = "CANDIDATE_TIMESTAMP" -> ~Timely(c)
                                    [] kind = "POLICY_LABELS" -> c.star = "UNKNOWN"
                                    [] OTHER -> c.correction = "UNKNOWN"}
           gap(kind) == Cardinality(affected(kind))
           disclosed == {<<entry.kind, entry.count>> : entry \in Range(collection.incompleteEvidence)}
<1> SUFFICES ASSUME phase = "collected"
             PROVE  /\ \A c \in represented :
                         /\ \A l \in collection.candidateScope.required : c.location[l] = "VERIFIED_PRESENT"
                         /\ \A l \in collection.candidateScope.absent : c.location[l] = "VERIFIED_ABSENT"
                    /\ disclosed = {<<k, gap(k)>> : k \in {k \in Range(EvidenceKinds) : gap(k) > 0}}
                    /\ collection.completeness = "COMPLETE" <=> disclosed = {}
                    /\ Len(collection.candidates) < Cardinality(represented) =>
                         collection.delivery.state = "PARTIAL"
                    /\ collection.delivery.continuation =>
                         Len(collection.candidates) < Cardinality(represented)
  BY DEF TruthfulEnvelope
<1> DEFINE at == input.evaluatedAt
           n == Len(admitted)
           counts == Counts(ordered, at)
<1>1. phase \in AfterAdmission /\ phase \in AfterOrdering /\ phase \in AfterCollection
  BY DEF AfterAdmission, AfterEvaluation, AfterOrdering, AfterCollection
<1>2. /\ admitted \in Seq(Candidates) /\ WellScoped(admitted, input.scope)
      /\ n <= CandidateLimit /\ n \in Nat /\ at \in Times
      /\ ordered = OrderPriorityPolicyCandidates(input.scope, admitted, Evaluated(admitted, at), at)
      /\ input.delivery \in [returned: Nat, continuation: BOOLEAN]
  BY <1>1, PipelineIsWellFormed DEF Inputs
<1>3. Stages(input.scope, admitted, at, ordered, input.coverage, input.delivery, collection)
  BY <1>1, PipelineIsWellFormed
<1>4. /\ collection = Envelope(ordered, at, input.coverage, input.delivery)
      /\ ValidDelivery(input.delivery, Len(ordered))
  <2>1. collection # Invalid
    BY <1>1 DEF Pipeline
  <2> QED
    BY <1>3, <2>1, AcceptedEnvelope
<1>5. ordered \in Seq(BoundCandidates) /\ Len(ordered) = n
  BY <1>2, OrderedPlaces
<1>6. /\ collection.candidateScope = CandidateScope
      /\ collection.completeness = IF IncompleteEvidence(ordered, at) = <<>>
                                   THEN "COMPLETE" ELSE "INCOMPLETE"
      /\ collection.incompleteEvidence = IncompleteEvidence(ordered, at)
      /\ collection.delivery.state = DeliveryState(Len(ordered), input.delivery.returned)
      /\ collection.delivery.continuation = input.delivery.continuation
      /\ collection.candidates = [i \in 1..input.delivery.returned |-> ordered[i].evaluation]
  BY <1>4 DEF Envelope
<1>7. Len(collection.candidates) = input.delivery.returned
  BY <1>2, <1>6
<1>8. Cardinality(represented) = n
  BY <1>2, CandidatesAreDistinct DEF WellScoped
<1>9. \A c \in represented : c \in Candidates /\ IsPriorityPolicyCandidateEligible(c.location)
  BY <1>2 DEF WellScoped, Range
<1>10. ASSUME NEW c \in represented
       PROVE  /\ \A l \in collection.candidateScope.required : c.location[l] = "VERIFIED_PRESENT"
              /\ \A l \in collection.candidateScope.absent : c.location[l] = "VERIFIED_ABSENT"
  <2>1. /\ collection.candidateScope.required = {"INBOX"}
        /\ collection.candidateScope.absent = {"SPAM", "TRASH"}
    BY <1>6 DEF CandidateScope
  <2> QED
    BY <1>9, <2>1 DEF IsPriorityPolicyCandidateEligible
<1>11. \A kind \in Range(EvidenceKinds), c \in represented :
         c \in affected(kind) <=> Affected(kind, c, at)
  <2>1. ASSUME NEW c \in represented
        PROVE  /\ c \in affected("CANDIDATE_TIMESTAMP") <=> Affected("CANDIDATE_TIMESTAMP", c, at)
               /\ c \in affected("POLICY_LABELS") <=> Affected("POLICY_LABELS", c, at)
               /\ c \in affected("USER_CORRECTIONS") <=> Affected("USER_CORRECTIONS", c, at)
    <3>1. c \in affected("CANDIDATE_TIMESTAMP") <=> ~Timely(c)
      OBVIOUS
    <3>2. Affected("CANDIDATE_TIMESTAMP", c, at) <=> ~Timely(c)
      BY <1>2, <1>9, ChronologyIsTheComparison
    <3>3. c \in affected("POLICY_LABELS") <=> c.star = "UNKNOWN"
      OBVIOUS
    <3>4. Affected("POLICY_LABELS", c, at) <=> c.star = "UNKNOWN"
      BY DEF Affected
    <3>5. c \in affected("USER_CORRECTIONS") <=> c.correction = "UNKNOWN"
      OBVIOUS
    <3>6. Affected("USER_CORRECTIONS", c, at) <=> c.correction = "UNKNOWN"
      BY DEF Affected
    <3> QED
      BY <3>1, <3>2, <3>3, <3>4, <3>5, <3>6, Zenon
  <2> HIDE DEF affected
  <2> QED
    BY <2>1, KindsOfEvidence, Zenon
<1>12. /\ counts \in [1..3 -> Nat]
       /\ Discloses(counts, IncompleteEvidence(ordered, at))
  BY <1>5, Disclosure
<1>13. ASSUME NEW k \in 1..3
       PROVE  gap(EvidenceKinds[k]) = counts[k]
  <2>1. counts[k] = Cardinality({c \in represented : Affected(EvidenceKinds[k], c, at)})
    <3>1. /\ admitted \in Seq(Candidates) /\ WellScoped(admitted, input.scope)
          /\ Len(admitted) <= CandidateLimit /\ input.evaluatedAt \in Times
          /\ ordered = OrderPriorityPolicyCandidates(input.scope, admitted,
                         Evaluated(admitted, input.evaluatedAt), input.evaluatedAt)
      BY <1>2
    <3>2. Counts(ordered, input.evaluatedAt)[k] = Cardinality(Gaps(admitted, input.evaluatedAt, k))
      BY <3>1, GapsAreCounted
    <3> QED
      BY <3>2 DEF Gaps
  <2>2. EvidenceKinds[k] \in Range(EvidenceKinds)
    BY KindsOfEvidence DEF Range
  <2>3. \A c \in affected(EvidenceKinds[k]) : c \in represented
    OBVIOUS
  <2> HIDE DEF affected, represented
  <2>4. affected(EvidenceKinds[k]) = {c \in represented : Affected(EvidenceKinds[k], c, at)}
    BY <1>11, <2>2, <2>3
  <2> QED
    BY <2>1, <2>4
<1> DEFINE gaps == [kind \in Range(EvidenceKinds) |-> gap(kind)]
<1> HIDE DEF gap
<1>14. \A kind \in Range(EvidenceKinds) : gaps[kind] = gap(kind)
  OBVIOUS
<1>15. \A k \in 1..3 : gaps[EvidenceKinds[k]] = counts[k] /\ EvidenceKinds[k] \in Range(EvidenceKinds)
  BY <1>13, KindsOfEvidence DEF Range
<1>16. gaps \in [Range(EvidenceKinds) -> Nat]
  <2>1. \A kind \in Range(EvidenceKinds) : \E k \in 1..3 : kind = EvidenceKinds[k]
    BY KindsOfEvidence DEF Range
  <2>2. \A kind \in Range(EvidenceKinds) : gap(kind) \in Nat
    BY <1>12, <1>13, <2>1
  <2> QED
    BY <2>2
<1> HIDE DEF gaps, counts
<1>17. /\ disclosed = {<<k, gaps[k]>> : k \in {k \in Range(EvidenceKinds) : gaps[k] > 0}}
       /\ collection.incompleteEvidence = <<>> <=> disclosed = {}
  BY <1>6, <1>12, <1>15, <1>16, DisclosedAreTheGaps
<1>18. {<<k, gaps[k]>> : k \in {k \in Range(EvidenceKinds) : gaps[k] > 0}}
         = {<<k, gap(k)>> : k \in {k \in Range(EvidenceKinds) : gap(k) > 0}}
  <2>1. {k \in Range(EvidenceKinds) : gaps[k] > 0} = {k \in Range(EvidenceKinds) : gap(k) > 0}
    BY <1>14
  <2> QED
    BY <1>14, <2>1
<1> HIDE DEF disclosed, represented
<1>19. collection.completeness = "COMPLETE" <=> disclosed = {}
  BY <1>6, <1>17
<1>20. Len(collection.candidates) < Cardinality(represented) => collection.delivery.state = "PARTIAL"
  BY <1>2, <1>5, <1>6, <1>7, <1>8 DEF DeliveryState
<1>21. collection.delivery.continuation => Len(collection.candidates) < Cardinality(represented)
  BY <1>2, <1>4, <1>5, <1>6, <1>7, <1>8 DEF ValidDelivery
<1> QED
  BY <1>10, <1>17, <1>18, <1>19, <1>20, <1>21
-----------------------------------------------------------------------------
(* The theorems.                                                               *)

\* The cap keeps the newest, for every mailbox and every cap
\* (admit-priority-policy-candidates.ts:184-189).
THEOREM AdmissionKeepsTheNewest == Spec => []AdmissionKeepsNewest
<1>1. IInv => AdmissionKeepsNewest
  BY AdmittedAreNewest DEF IInv
<1> QED
  BY <1>1, ReplayInvariant, PTL

\* The result of the ordering is the one order of groups, chronology and identifiers,
\* with every admitted thread in it (order-priority-policy-candidates.ts:350-378).
THEOREM TheOrderIsCanonical == Spec => []OrderIsCanonical
<1>1. IInv => OrderIsCanonical
  BY OrderedAreCanonical DEF IInv
<1> QED
  BY <1>1, ReplayInvariant, PTL

\* No stage refuses what the stage before it made: an evaluation is refused only for
\* its input.
THEOREM TheStagesCompose == Spec => []StagesCompose
<1>1. IInv => StagesCompose
  BY DEF IInv
<1> QED
  BY <1>1, ReplayInvariant, PTL

\* The envelope says what is under it: scope, gaps and what is left to deliver
\* (create-priority-policy-collection-evaluation.ts:182-283).
THEOREM TheEnvelopeIsTruthful == Spec => []TruthfulEnvelope
<1>1. IInv => TruthfulEnvelope
  BY CollectedIsTruthful DEF IInv
<1> QED
  BY <1>1, ReplayInvariant, PTL

\* A replay matches the recording that was made and no other, in whatever order the
\* snapshot lists its candidates (verify-priority-policy-replay.ts:573-659).
THEOREM TheReplayIsExact == Spec => []ReplayIsExact
<1>1. IInv => ReplayIsExact
  BY DEF IInv
<1> QED
  BY <1>1, ReplayInvariant, PTL
=============================================================================
