--------------------------- MODULE SubsequenceProofs ---------------------------
(***************************************************************************)
(* What the proofs use of Subsequences: the k-th place exists and is the   *)
(* only one, the elements keep their order, and how a subsequence changes  *)
(* when the sequence grows at its end or loses its head.                   *)
(***************************************************************************)
EXTENDS Subsequences, FiniteSetTheorems, SequenceTheorems,
        WellFoundedInduction, TLAPS

-----------------------------------------------------------------------------
(* Numbers                                                                 *)

\* The induction that is left to the provers: a set of numbers has a least one.
LEMMA LeastNumber ==
    ASSUME NEW T, T \subseteq Nat, T # {}
    PROVE  \E x \in T : \A y \in T : x <= y
  <1> DEFINE R == OpToRel(<, Nat)
  <1>1. IsWellFoundedOn(R, Nat)
    BY NatLessThanWellFounded
  <1>2. \A x, y \in Nat : y < x => << y, x >> \in R
    BY DEF OpToRel
  <1> HIDE DEF R
  <1>3. PICK x \in T : \A y \in T : ~(<< y, x >> \in R)
    BY <1>1, WFMin
  <1>4. ASSUME NEW y \in T PROVE x <= y
    <2>1. x \in Nat /\ y \in Nat
      OBVIOUS
    <2>2. ~(y < x)
      BY <1>2, <1>3, <2>1, Zenon
    <2> QED
      BY <2>1, <2>2
  <1> QED
    BY <1>4

\* And one that is bounded has a greatest.
LEMMA GreatestNumber ==
    ASSUME NEW T, T \subseteq Nat, T # {}, NEW n \in Nat, \A x \in T : x <= n
    PROVE  \E x \in T : \A y \in T : y <= x
  <1> DEFINE U == {m \in Nat : \A x \in T : x <= m}
  <1>1. U \subseteq Nat /\ U # {}
    OBVIOUS
  <1>2. PICK m \in U : \A y \in U : m <= y
    BY <1>1, LeastNumber
  <1>3. CASE m \in T
    BY <1>3
  <1>4. CASE m \notin T
    <2>1. m \in Nat /\ \A x \in T : x <= m /\ x # m /\ x \in Nat
      BY <1>4
    <2>2. m # 0 /\ m - 1 \in Nat
      <3>1. PICK x \in T : TRUE
        OBVIOUS
      <3>2. x \in Nat /\ x <= m /\ x # m
        BY <2>1
      <3> QED
        BY <2>1, <3>2
    <2>3. m - 1 \in U
      BY <2>1, <2>2
    <2> QED
      BY <1>2, <2>1, <2>3
  <1> QED
    BY <1>3, <1>4

LEMMA Counting ==
    ASSUME NEW n \in Nat
    PROVE  IsFiniteSet(1..n) /\ Cardinality(1..n) = n
  <1>1. 1 \in Int /\ n \in Int
    OBVIOUS
  <1>2. IsFiniteSet(1..n) /\ Cardinality(1..n) = IF 1 > n THEN 0 ELSE n - 1 + 1
    BY <1>1, FS_Interval, Zenon
  <1>3. (IF 1 > n THEN 0 ELSE n - 1 + 1) = n
    OBVIOUS
  <1> QED
    BY <1>2, <1>3

-----------------------------------------------------------------------------
(* Ranks and places                                                        *)

LEMMA PlacesFinite ==
    ASSUME NEW n \in Nat, NEW P \in SUBSET (1..n)
    PROVE  IsFiniteSet(P) /\ Cardinality(P) \in 0..n
  <1>1. IsFiniteSet(1..n) /\ Cardinality(1..n) = n
    BY Counting
  <1>2. /\ IsFiniteSet(P) /\ Cardinality(P) <= Cardinality(1..n)
    BY <1>1, FS_Subset
  <1>3. Cardinality(P) \in Nat
    BY <1>2, FS_CardinalityType
  <1> QED
    BY <1>1, <1>2, <1>3

LEMMA RankFacts ==
    ASSUME NEW n \in Nat, NEW P \in SUBSET (1..n)
    PROVE  /\ \A i \in Nat : Rank(P, i) \in Nat
           /\ Rank(P, 0) = 0
           /\ \A i \in Nat : i >= n => Rank(P, i) = Cardinality(P)
           /\ \A i \in Nat : Rank(P, i + 1) =
                                IF i + 1 \in P THEN Rank(P, i) + 1 ELSE Rank(P, i)
           /\ \A i, j \in Nat : i <= j => Rank(P, i) <= Rank(P, j)
           /\ \A i, j \in Nat : i < j /\ j \in P => Rank(P, i) < Rank(P, j)
           /\ \A i \in Nat : Rank(P, i) <= Cardinality(P)
  <1> DEFINE Up(i) == {j \in P : j <= i}
  <1>p. \A j \in P : j \in Nat /\ 1 <= j /\ j <= n
    OBVIOUS
  <1>1. \A i : IsFiniteSet(Up(i)) /\ Cardinality(Up(i)) \in Nat
    <2> TAKE i
    <2>1. Up(i) \in SUBSET (1..n)
      OBVIOUS
    <2> HIDE DEF Up
    <2> QED
      BY <2>1, PlacesFinite
  <1>2. Rank(P, 0) = 0
    <2>0. \A j \in P : ~(j <= 0)
      BY <1>p
    <2>1. Up(0) = {}
      BY <2>0
    <2> QED
      BY <2>1, FS_EmptySet DEF Rank
  <1>3. \A i \in Nat : i >= n => Rank(P, i) = Cardinality(P)
    <2> TAKE i \in Nat
    <2>1. i >= n => \A j \in P : j <= i
      BY <1>p
    <2>2. i >= n => Up(i) = P
      BY <2>1
    <2> QED
      BY <2>2 DEF Rank
  <1>4. ASSUME NEW i \in Nat
        PROVE  Rank(P, i + 1) = IF i + 1 \in P THEN Rank(P, i) + 1 ELSE Rank(P, i)
    <2>1. CASE i + 1 \in P
      <3>0. \A j \in P : j <= i + 1 <=> j <= i \/ j = i + 1
        BY <1>p
      <3>a. ~(i + 1 <= i)
        OBVIOUS
      <3>1. Up(i + 1) = Up(i) \cup {i + 1} /\ i + 1 \notin Up(i)
        BY <2>1, <3>0, <3>a, Zenon
      <3>2. IsFiniteSet(Up(i))
        BY <1>1
      <3> HIDE DEF Up
      <3>3. Cardinality(Up(i) \cup {i + 1}) = Cardinality(Up(i)) + 1
        BY <3>1, <3>2, FS_AddElement
      <3> QED
        BY <2>1, <3>1, <3>3 DEF Rank, Up
    <2>2. CASE i + 1 \notin P
      <3>0. \A j \in P : j <= i + 1 <=> j <= i
        BY <1>p, <2>2
      <3>1. Up(i + 1) = Up(i)
        BY <3>0
      <3> QED
        BY <2>2, <3>1 DEF Rank
    <2> QED
      BY <2>1, <2>2
  <1>5. \A i \in Nat : Rank(P, i) \in Nat
    BY <1>1 DEF Rank
  <1>6. ASSUME NEW i \in Nat, NEW j \in Nat, i <= j
        PROVE  Rank(P, i) <= Rank(P, j)
    <2>0. \A k \in P : k <= i => k <= j
      BY <1>6, <1>p
    <2>1. Up(i) \subseteq Up(j)
      BY <2>0
    <2>2. IsFiniteSet(Up(j))
      BY <1>1
    <2> HIDE DEF Up
    <2>3. Cardinality(Up(i)) <= Cardinality(Up(j))
      BY <2>1, <2>2, FS_Subset
    <2> QED
      BY <2>3 DEF Rank, Up
  <1>7. ASSUME NEW i \in Nat, NEW j \in Nat, i < j, j \in P
        PROVE  Rank(P, i) < Rank(P, j)
    <2>1. j - 1 \in Nat /\ i <= j - 1 /\ j - 1 + 1 = j
      BY <1>7
    <2>2. Rank(P, j) = Rank(P, j - 1) + 1
      BY <1>4, <1>7, <2>1
    <2>3. Rank(P, i) <= Rank(P, j - 1)
      BY <1>6, <2>1
    <2>4. Rank(P, i) \in Nat /\ Rank(P, j - 1) \in Nat
      BY <1>5, <2>1
    <2> QED
      BY <2>2, <2>3, <2>4
  <1>8. ASSUME NEW i \in Nat PROVE Rank(P, i) <= Cardinality(P)
    <2>1. Up(i) \subseteq P /\ IsFiniteSet(P)
      BY PlacesFinite
    <2>2. Cardinality(Up(i)) <= Cardinality(P)
      BY <2>1, FS_Subset
    <2> QED
      BY <2>2 DEF Rank
  <1> HIDE DEF Up
  <1> QED
    BY <1>2, <1>3, <1>4, <1>5, <1>6, <1>7, <1>8

LEMMA RankStep ==
    ASSUME NEW n \in Nat, NEW P \in SUBSET (1..n), NEW i \in Nat
    PROVE  Rank(P, i + 1) = IF i + 1 \in P THEN Rank(P, i) + 1 ELSE Rank(P, i)
  BY RankFacts, ZenonT(30)

\* Every rank has a place, and a place is found by its rank.
LEMMA PlaceFacts ==
    ASSUME NEW n \in Nat, NEW P \in SUBSET (1..n)
    PROVE  /\ \A k \in 1..Cardinality(P) :
                 Place(P, k) \in P /\ Rank(P, Place(P, k)) = k
           /\ \A i \in P : Rank(P, i) \in 1..Cardinality(P)
           /\ \A i \in P : Place(P, Rank(P, i)) = i
           /\ \A k, l \in 1..Cardinality(P) : k < l => Place(P, k) < Place(P, l)
  <1> USE DEF Place
  <1>0. P \subseteq Nat /\ Cardinality(P) \in Nat
    BY PlacesFinite
  <1>r. /\ \A i \in Nat : Rank(P, i) \in Nat
        /\ Rank(P, 0) = 0 /\ Rank(P, n) = Cardinality(P)
    <2>1. n \in Nat /\ n >= n
      OBVIOUS
    <2> QED
      BY <2>1, RankFacts, ZenonT(30)
  <1>1. ASSUME NEW k \in 1..Cardinality(P)
        PROVE  \E i \in P : Rank(P, i) = k
    <2> DEFINE T == {i \in Nat : Rank(P, i) >= k}
    <2>1. T \subseteq Nat /\ n \in T
      BY <1>0, <1>r
    <2>2. PICK i \in T : \A j \in T : i <= j
      BY <2>1, LeastNumber
    <2>3. i \in Nat /\ Rank(P, i) >= k /\ i # 0
      BY <1>0, <1>r
    <2>4. i - 1 \in Nat /\ i - 1 \notin T
      BY <2>2, <2>3
    <2>5. Rank(P, i - 1) < k /\ Rank(P, i - 1) \in Nat
      BY <1>0, <1>r, <2>4
    <2>6. i - 1 + 1 = i
      BY <2>3
    <2>7. Rank(P, i) = IF i \in P THEN Rank(P, i - 1) + 1 ELSE Rank(P, i - 1)
      BY <2>4, <2>6, RankFacts
    <2>8. k \in Nat
      BY <1>0
    <2> QED
      BY <2>3, <2>5, <2>7, <2>8
  <1>2. ASSUME NEW i \in P, NEW j \in P, Rank(P, i) = Rank(P, j)
        PROVE  i = j
    <2>1. i \in Nat /\ j \in Nat
      BY <1>0
    <2>r. Rank(P, i) \in Nat /\ Rank(P, j) \in Nat
      BY <1>r, <2>1
    <2>2. ~(i < j) /\ ~(j < i)
      <3>1. /\ i < j => Rank(P, i) < Rank(P, j)
            /\ j < i => Rank(P, j) < Rank(P, i)
        BY <2>1, RankFacts
      <3> QED
        BY <1>2, <2>r, <3>1
    <2> QED
      BY <2>1, <2>2
  <1>3. \A k \in 1..Cardinality(P) : Place(P, k) \in P /\ Rank(P, Place(P, k)) = k
    BY <1>1
  <1>4. ASSUME NEW i \in P PROVE Rank(P, i) \in 1..Cardinality(P)
    <2>1. i \in Nat /\ 0 < i
      OBVIOUS
    <2>2. Rank(P, 0) < Rank(P, i) /\ Rank(P, i) <= Cardinality(P)
      BY <2>1, RankFacts
    <2> QED
      BY <1>0, <1>r, <2>1, <2>2
  <1>5. \A i \in P : Place(P, Rank(P, i)) = i
    BY <1>2
  <1> HIDE DEF Place
  <1>6. ASSUME NEW k \in 1..Cardinality(P), NEW l \in 1..Cardinality(P), k < l
        PROVE  Place(P, k) < Place(P, l)
    <2> DEFINE i == Place(P, k)
               j == Place(P, l)
    <2>1. i \in P /\ j \in P /\ Rank(P, i) = k /\ Rank(P, j) = l
      BY <1>3
    <2> HIDE DEF i, j
    <2>2. i \in Nat /\ j \in Nat
      BY <1>0, <2>1
    <2>3. j <= i => Rank(P, j) <= Rank(P, i)
      BY <2>2, RankFacts
    <2>4. k \in Nat /\ l \in Nat
      BY <1>0
    <2>5. ~(j <= i)
      BY <1>6, <2>1, <2>3, <2>4
    <2>6. i < j
      BY <2>2, <2>5
    <2> QED
      BY <2>6 DEF i, j
  <1> QED
    BY <1>3, <1>4, <1>5, <1>6

-----------------------------------------------------------------------------
(* Subsequences                                                            *)

LEMMA SubsequenceFacts ==
    ASSUME NEW S, NEW seq \in Seq(S), NEW P \in SUBSET (1..Len(seq))
    PROVE  LET sub == Subsequence(seq, P)
           IN  /\ sub \in Seq(S) /\ Len(sub) = Cardinality(P)
               /\ Len(sub) \in Nat /\ Len(sub) <= Len(seq)
               /\ \A k \in 1..Len(sub) :
                     Place(P, k) \in P /\ sub[k] = seq[Place(P, k)]
               /\ \A k, l \in 1..Len(sub) : k < l => Place(P, k) < Place(P, l)
               /\ \A i \in P : \E k \in 1..Len(sub) : Place(P, k) = i
  <1> DEFINE sub == Subsequence(seq, P)
             n == Cardinality(P)
  <1>0. Len(seq) \in Nat /\ \A i \in 1..Len(seq) : seq[i] \in S
    BY LenProperties, ElementOfSeq
  <1>1. n \in Nat /\ n <= Len(seq)
    BY <1>0, PlacesFinite
  <1>2. /\ \A k \in 1..n : Place(P, k) \in P
        /\ \A k, l \in 1..n : k < l => Place(P, k) < Place(P, l)
        /\ \A i \in P : \E k \in 1..n : Place(P, k) = i
    BY <1>0, PlaceFacts
  <1>3. \A k \in 1..n : seq[Place(P, k)] \in S
    BY <1>0, <1>2
  <1>4. sub = [k \in 1..n |-> seq[Place(P, k)]]
    BY DEF Subsequence
  <1> HIDE DEF n, sub
  <1>5. sub \in Seq(S) /\ Len(sub) = n
    BY <1>1, <1>3, <1>4
  <1>6. \A k \in 1..n : sub[k] = seq[Place(P, k)]
    BY <1>4
  <1> QED
    BY <1>1, <1>2, <1>5, <1>6 DEF sub, n

\* Two enumerations of places agree when their ranks do.
LEMMA SamePlace ==
    ASSUME NEW n \in Nat, NEW P \in SUBSET (1..n), NEW k, NEW i \in P,
           Rank(P, i) = k
    PROVE  Place(P, k) = i
  BY PlaceFacts

\* The sequence grows by an element that is left out ...
LEMMA AppendOutside ==
    ASSUME NEW S, NEW seq \in Seq(S), NEW x \in S, NEW P \in SUBSET (1..Len(seq))
    PROVE  Subsequence(Append(seq, x), P) = Subsequence(seq, P)
  <1>0. Len(seq) \in Nat
    BY LenProperties
  <1>1. \A i \in 1..Len(seq) : Append(seq, x)[i] = seq[i]
    BY AppendProperties
  <1>2. \A k \in 1..Cardinality(P) : Place(P, k) \in P
    BY <1>0, PlaceFacts
  <1>3. \A k \in 1..Cardinality(P) : Append(seq, x)[Place(P, k)] = seq[Place(P, k)]
    BY <1>1, <1>2
  <1> QED
    BY <1>3 DEF Subsequence

\* ... or by one that belongs to it.
LEMMA AppendInside ==
    ASSUME NEW S, NEW seq \in Seq(S), NEW x \in S, NEW P \in SUBSET (1..Len(seq))
    PROVE  Subsequence(Append(seq, x), P \cup {Len(seq) + 1})
              = Append(Subsequence(seq, P), x)
  <1> DEFINE n == Len(seq)
             Q == P \cup {n + 1}
             c == Cardinality(P)
             longer == Append(seq, x)
             new == Subsequence(longer, Q)
             old == Subsequence(seq, P)
  <1>0. n \in Nat /\ n + 1 \in Nat /\ IsFiniteSet(P) /\ c \in Nat
    BY LenProperties, PlacesFinite
  <1>1. longer \in Seq(S) /\ Len(longer) = n + 1
        /\ (\A i \in 1..n : longer[i] = seq[i])
        /\ longer[n + 1] = x
    BY AppendProperties
  <1>p. P \in SUBSET (1..n) /\ \A j \in P : j \in Nat /\ 1 <= j /\ j <= n
    BY <1>0
  <1>2. Q \in SUBSET (1..n + 1) /\ n + 1 \notin P /\ P \in SUBSET (1..n)
    <2>1. \A j \in Q : j \in 1..n + 1
      BY <1>0, <1>p
    <2>2. n + 1 \notin P
      BY <1>0, <1>p
    <2> QED
      BY <1>p, <2>1, <2>2
  <1>q. \A j : j \in Q <=> j \in P \/ j = n + 1
    OBVIOUS
  <1>3. Cardinality(Q) = c + 1
    BY <1>0, <1>2, FS_AddElement
  <1>4. ASSUME NEW i \in P
        PROVE  Rank(Q, i) = Rank(P, i)
    <2>1. \A j \in Q : j <= i <=> j \in P /\ j <= i
      BY <1>0, <1>p, <1>q
    <2>2. {j \in Q : j <= i} = {j \in P : j <= i}
      BY <1>q, <2>1
    <2> QED
      BY <2>2 DEF Rank
  <1> HIDE DEF n, Q, c, longer
  <1>5. Rank(Q, n + 1) = c + 1
    <2>1. n + 1 >= n + 1
      BY <1>0
    <2> QED
      BY <1>0, <1>2, <1>3, <2>1, RankFacts
  <1>6. /\ old \in Seq(S) /\ Len(old) = c
        /\ \A k \in 1..c : Place(P, k) \in P /\ old[k] = seq[Place(P, k)]
    BY SubsequenceFacts DEF n, c
  <1>7. /\ new \in Seq(S) /\ Len(new) = c + 1
        /\ \A k \in 1..c + 1 : new[k] = longer[Place(Q, k)]
    BY SMTT(30), <1>1, <1>2, <1>3, SubsequenceFacts
  <1>8. /\ Append(old, x) \in Seq(S) /\ Len(Append(old, x)) = c + 1
        /\ (\A k \in 1..c : Append(old, x)[k] = old[k])
        /\ Append(old, x)[c + 1] = x
    BY <1>6, AppendProperties
  <1>9. ASSUME NEW k \in 1..c
        PROVE  Place(Q, k) = Place(P, k)
    <2>1. Place(P, k) \in P /\ Rank(P, Place(P, k)) = k
      BY <1>0, <1>2, PlaceFacts DEF c
    <2>2. Place(P, k) \in Q /\ Rank(Q, Place(P, k)) = k
      BY <1>4, <1>q, <2>1
    <2> QED
      BY <1>0, <1>2, <2>2, SamePlace
  <1>10. Place(Q, c + 1) = n + 1
    BY <1>0, <1>2, <1>5, <1>q, SamePlace
  <1> HIDE DEF new, old
  <1>11. \A k \in 1..c + 1 : new[k] = Append(old, x)[k]
    <2> TAKE k \in 1..c + 1
    <2>1. k \in 1..c \/ k = c + 1
      BY <1>0
    <2>2. CASE k \in 1..c
      <3>1. Place(P, k) \in 1..n
        BY <1>2, <1>6, <2>2
      <3> QED
        BY <1>1, <1>6, <1>7, <1>8, <1>9, <2>2, <3>1
    <2>3. CASE k = c + 1
      BY <1>1, <1>7, <1>8, <1>10, <2>3
    <2> QED
      BY <2>1, <2>2, <2>3
  <1>12. new = Append(old, x)
    BY <1>7, <1>8, <1>11, SeqEqual
  <1> QED
    BY <1>12 DEF new, old, Q, n, longer

\* The places of the tail of a sequence.
TailPlaces(P) == {i - 1 : i \in P \ {1}}

\* The head of the sequence is taken off: everything moves up.
LEMMA TailFacts ==
    ASSUME NEW S, NEW seq \in Seq(S), seq # << >>, NEW P \in SUBSET (1..Len(seq))
    PROVE  /\ 1 \notin P =>
                Subsequence(Tail(seq), TailPlaces(P)) = Subsequence(seq, P)
           /\ 1 \in P =>
                /\ Subsequence(seq, P) # << >>
                /\ Head(Subsequence(seq, P)) = Head(seq)
                /\ Subsequence(Tail(seq), TailPlaces(P)) = Tail(Subsequence(seq, P))
  <1> DEFINE n == Len(seq) - 1
             Q == TailPlaces(P)
             c == Cardinality(Q)
             d == Rank(P, 1)
             rest == Tail(seq)
             new == Subsequence(rest, Q)
             old == Subsequence(seq, P)
  <1>0. /\ n \in Nat /\ n + 1 \in Nat /\ Len(seq) = n + 1
        /\ rest \in Seq(S) /\ Len(rest) = n
        /\ \A i \in 1..n : rest[i] = seq[i + 1]
        /\ Head(seq) = seq[1]
    BY HeadTailProperties, LenProperties
  <1>1. \A i \in Nat : i + 1 \in Q <=> i + 2 \in P
    <2>1. \A j \in P : j \in Nat /\ 1 <= j
      OBVIOUS
    <2> TAKE i \in Nat
    <2>2. i + 1 \in Q => i + 2 \in P
      <3> HAVE i + 1 \in Q
      <3>1. PICK j \in P \ {1} : j - 1 = i + 1
        BY DEF TailPlaces
      <3>2. j = i + 2
        BY <2>1, <3>1
      <3> QED
        BY <3>2
    <2>3. i + 2 \in P => i + 1 \in Q
      <3>1. i + 2 # 1 /\ i + 2 - 1 = i + 1
        OBVIOUS
      <3> QED
        BY <3>1 DEF TailPlaces
    <2> QED
      BY <2>2, <2>3
  <1>2. Q \in SUBSET (1..n)
    <2>1. \A j \in P \ {1} : j - 1 \in 1..n
      BY <1>0
    <2> QED
      BY <2>1 DEF TailPlaces
  <1>p. P \in SUBSET (1..n + 1)
    BY <1>0
  <1> HIDE DEF n, Q
  <1>3. d = IF 1 \in P THEN 1 ELSE 0
    <2>1. 0 \in Nat /\ 0 + 1 = 1
      OBVIOUS
    <2>2. Rank(P, 0) = 0 /\ Rank(P, 0 + 1) =
              IF 0 + 1 \in P THEN Rank(P, 0) + 1 ELSE Rank(P, 0)
      BY <1>0, <1>p, <2>1, RankFacts
    <2> QED
      BY <2>1, <2>2
  <1>r. \A i \in Nat : Rank(P, i + 1) =
             IF i + 1 \in P THEN Rank(P, i) + 1 ELSE Rank(P, i)
    BY <1>0, <1>p, RankStep, Zenon
  <1>s. \A i \in Nat : Rank(Q, i + 1) =
             IF i + 1 \in Q THEN Rank(Q, i) + 1 ELSE Rank(Q, i)
    BY <1>0, <1>2, RankStep, Zenon
  <1>4. \A i \in Nat : Rank(P, i + 1) = Rank(Q, i) + d
    <2> DEFINE T == {i \in Nat : Rank(P, i + 1) # Rank(Q, i) + d}
    <2>1. SUFFICES ASSUME T # {} PROVE FALSE
      OBVIOUS
    <2>2. T \subseteq Nat
      OBVIOUS
    <2>3. PICK i \in T : \A j \in T : i <= j
      BY <2>1, <2>2, LeastNumber
    <2>4. i \in Nat /\ Rank(P, i + 1) # Rank(Q, i) + d
      OBVIOUS
    <2>5. i # 0
      <3>1. Rank(Q, 0) = 0
        BY <1>0, <1>2, RankFacts
      <3>2. 0 + 1 = 1 /\ 0 + d = d
        BY <1>3
      <3> QED
        BY <2>4, <3>1, <3>2
    <2>6. i - 1 \in Nat /\ i - 1 \notin T /\ i - 1 + 1 = i /\ i - 1 + 2 = i + 1
      BY <2>3, <2>4, <2>5
    <2>7. Rank(P, i) = Rank(Q, i - 1) + d
      BY <2>6
    <2>8. Rank(Q, i) = IF i \in Q THEN Rank(Q, i - 1) + 1 ELSE Rank(Q, i - 1)
      BY <1>s, <2>6
    <2>9. Rank(P, i + 1) = IF i + 1 \in P THEN Rank(P, i) + 1 ELSE Rank(P, i)
      BY <1>r, <2>4
    <2>10. i \in Q <=> i + 1 \in P
      BY <1>1, <2>6
    <2>11. Rank(Q, i - 1) \in Nat /\ d \in Nat
      BY <1>0, <1>2, <1>3, <2>6, RankFacts
    <2> HIDE DEF d, T
    <2> QED
      BY <2>4, <2>7, <2>8, <2>9, <2>10, <2>11
  <1> HIDE DEF d
  <1>5. c \in Nat /\ d \in Nat /\ Cardinality(P) = c + d
    <2>1. n >= n /\ n + 1 >= n + 1
      BY <1>0
    <2>2. Rank(Q, n) = c /\ Rank(P, n + 1) = Cardinality(P)
      BY <1>0, <1>2, <1>p, <2>1, RankFacts
    <2>3. c \in Nat
      BY <1>0, <1>2, PlacesFinite
    <2> QED
      BY <1>0, <1>3, <1>4, <2>2, <2>3
  <1> HIDE DEF c, rest
  <1>6. ASSUME NEW k \in 1..c
        PROVE  Place(Q, k) \in 1..n /\ Place(P, k + d) = Place(Q, k) + 1
    <2> DEFINE i == Place(Q, k)
    <2>1. i \in Q /\ Rank(Q, i) = k
      BY <1>0, <1>2, PlaceFacts DEF c
    <2> HIDE DEF i
    <2>a. i \in 1..n
      BY <1>2, <2>1
    <2>2. i \in 1..n /\ i \in Nat /\ i - 1 \in Nat
      BY <1>0, <2>a
    <2>3. i + 1 \in P
      <3>1. i - 1 + 1 = i /\ i - 1 + 2 = i + 1
        BY <2>2
      <3> QED
        BY <1>1, <2>1, <2>2, <3>1
    <2>4. Rank(P, i + 1) = k + d
      BY <1>4, <2>1, <2>2
    <2>5. Place(P, k + d) = i + 1
      BY <1>0, <1>p, <2>3, <2>4, SamePlace
    <2> QED
      BY <2>2, <2>5 DEF i
  <1>7. /\ new \in Seq(S) /\ Len(new) = c
        /\ \A k \in 1..c : new[k] = rest[Place(Q, k)]
    BY <1>0, <1>2, SubsequenceFacts DEF c
  <1>8. /\ old \in Seq(S) /\ Len(old) = c + d
        /\ \A k \in 1..c + d : old[k] = seq[Place(P, k)]
    BY <1>5, SubsequenceFacts
  <1>9. \A k \in 1..c : new[k] = old[k + d]
    <2> TAKE k \in 1..c
    <2>1. k + d \in 1..c + d
      BY <1>5
    <2>2. Place(Q, k) \in 1..n /\ Place(P, k + d) = Place(Q, k) + 1
      BY <1>6
    <2> HIDE DEF new, old
    <2> QED
      BY <1>0, <1>7, <1>8, <2>1, <2>2
  <1>10. ASSUME 1 \notin P PROVE new = old
    <2>1. d = 0 /\ c + d = c
      BY <1>3, <1>5, <1>10
    <2>2. \A k \in 1..c : new[k] = old[k]
      BY <1>5, <1>9, <2>1
    <2> HIDE DEF new, old
    <2> QED
      BY <1>7, <1>8, <2>1, <2>2, SeqEqual
  <1>11. ASSUME 1 \in P
         PROVE  old # << >> /\ Head(old) = Head(seq) /\ new = Tail(old)
    <2>1. d = 1
      BY <1>3, <1>11
    <2>2. Place(P, 1) = 1
      <3>1. Rank(P, 1) = 1
        BY <2>1 DEF d
      <3> QED
        BY <1>0, <1>p, <1>11, <3>1, SamePlace
    <2> HIDE DEF new, old
    <2>3. old # << >> /\ Len(old) \in Nat /\ Len(old) - 1 = c
      BY <1>5, <1>8, <2>1
    <2>4. /\ Head(old) = old[1] /\ Tail(old) \in Seq(S) /\ Len(Tail(old)) = c
          /\ \A k \in 1..c : Tail(old)[k] = old[k + 1]
      BY <1>8, <2>3, HeadTailProperties
    <2>5. old[1] = seq[1]
      BY <1>5, <1>8, <2>1, <2>2
    <2>6. \A k \in 1..c : new[k] = Tail(old)[k]
      BY <1>9, <2>1, <2>4
    <2>7. new = Tail(old)
      BY <1>7, <2>4, <2>6, SeqEqual
    <2> QED
      BY <1>0, <2>3, <2>4, <2>5, <2>7
  <1> HIDE DEF new, old
  <1> QED
    BY <1>10, <1>11 DEF new, old, Q, rest
=============================================================================
