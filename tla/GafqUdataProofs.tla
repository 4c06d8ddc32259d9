--------------------------- MODULE GafqUdataProofs ---------------------------
(***************************************************************************)
(* The lists of udata for every set of udata: none is lost or duplicated,  *)
(* the sweep stays in the root list and ahead of what is dead, finalizers  *)
(* run in the reverse order of creation, and gafq_close runs them all.     *)
(***************************************************************************)
EXTENDS GafqUdata, FiniteSetTheorems, TLAPS

-----------------------------------------------------------------------------
(* Lists without duplicates: what unlinking and selecting keep.            *)

\* no element occurs twice
Once(s) == \A i, j \in DOMAIN s : s[i] = s[j] => i = j

\* the elements of a list, and the place of each
LEMMA Places ==
  ASSUME NEW S, NEW s \in Seq(S)
  PROVE  /\ Len(s) \in Nat /\ DOMAIN s = 1..Len(s) /\ s \in [1..Len(s) -> S]
         /\ Elems(s) \subseteq S
         /\ \A i \in 1..Len(s) : s[i] \in Elems(s)
         /\ \A x \in Elems(s) : Index(s, x) \in 1..Len(s) /\ s[Index(s, x)] = x
         /\ Once(s) => \A i \in 1..Len(s) : Index(s, s[i]) = i
         /\ s = <<>> <=> Elems(s) = {}
  <1>1. Len(s) \in Nat /\ DOMAIN s = 1..Len(s) /\ s \in [1..Len(s) -> S]
    OBVIOUS
  <1>2. /\ Elems(s) \subseteq S
        /\ \A i \in 1..Len(s) : s[i] \in Elems(s)
    BY <1>1, Zenon DEF Elems
  <1>3. \A x \in Elems(s) : Index(s, x) \in 1..Len(s) /\ s[Index(s, x)] = x
    BY <1>1, Zenon DEF Elems, Index
  <1>4. Once(s) => \A i \in 1..Len(s) : Index(s, s[i]) = i
    BY <1>1, <1>2, <1>3, Zenon DEF Once
  <1>5. ASSUME s # <<>>
        PROVE  Elems(s) # {}
    <2>1. 1 \in 1..Len(s)
      BY <1>1, <1>5
    <2> QED
      BY <1>2, <2>1, Zenon
  <1>6. ASSUME s = <<>>
        PROVE  Elems(s) = {}
    BY <1>6 DEF Elems
  <1> QED
    BY <1>1, <1>2, <1>3, <1>4, <1>5, <1>6, Zenon

\* a list without duplicates is as long as it has elements
LEMMA OnceLength ==
  ASSUME NEW S, NEW s \in Seq(S), Once(s)
  PROVE  Len(s) = Cardinality(Elems(s))
  <1>1. Len(s) \in Nat /\ DOMAIN s = 1..Len(s) /\ s \in [1..Len(s) -> S]
    BY Places, Zenon
  <1>2. s \in [1..Len(s) -> Elems(s)]
    BY <1>1 DEF Elems
  <1>3. s \in Bijection(1..Len(s), Elems(s))
    BY <1>1, <1>2, Zenon DEF Once, Elems, Bijection, Injection, Surjection, IsInjective
  <1>4. IsFiniteSet(1..Len(s)) /\ Cardinality(1..Len(s)) = Len(s)
    BY <1>1, FS_Interval
  <1> QED
    BY <1>3, <1>4, FS_Bijection, Zenon DEF ExistsBijection

\* two lists joined: the first comes before the second
LEMMA Joined ==
  ASSUME NEW S, NEW s \in Seq(S), NEW t \in Seq(S), Once(s), Once(t),
         Elems(s) \cap Elems(t) = {}
  PROVE  LET u == s \o t
         IN  /\ u \in Seq(S) /\ Len(u) = Len(s) + Len(t) /\ Once(u)
             /\ Elems(u) = Elems(s) \cup Elems(t)
             /\ \A i \in 1..Len(t) : u[Len(s) + i] = t[i]
             /\ \A x \in Elems(s) : Index(u, x) = Index(s, x)
             /\ \A x \in Elems(t) : Index(u, x) = Len(s) + Index(t, x)
  <1> DEFINE u == s \o t
             m == Len(s)
             n == Len(t)
  <1>1. /\ m \in Nat /\ DOMAIN s = 1..m /\ n \in Nat /\ DOMAIN t = 1..n
        /\ \A i \in 1..m : s[i] \in Elems(s)
        /\ \A i \in 1..n : t[i] \in Elems(t)
        /\ \A x \in Elems(s) : Index(s, x) \in 1..m /\ s[Index(s, x)] = x
        /\ \A x \in Elems(t) : Index(t, x) \in 1..n /\ t[Index(t, x)] = x
    BY Places, Zenon
  <1>2. /\ u \in Seq(S) /\ Len(u) = m + n
        /\ \A i \in 1..m : u[i] = s[i]
        /\ \A i \in 1..n : u[m + i] = t[i]
    OBVIOUS
  <1> HIDE DEF u, m, n
  <1>3. DOMAIN u = 1..m+n
    BY <1>2
  <1>4. ASSUME NEW i \in 1..m+n
        PROVE  i \in 1..m \/ \E k \in 1..n : i = m + k
    <2>1. i \in 1..m \/ (i - m \in 1..n /\ i = m + (i - m))
      BY <1>1
    <2> QED
      BY <2>1, Zenon
  <1>5. (\A i \in 1..m : i \in 1..m+n) /\ (\A i \in 1..n : m + i \in 1..m+n)
    BY <1>1
  <1>6. Elems(u) = Elems(s) \cup Elems(t)
    <2>1. ASSUME NEW x \in Elems(u)
          PROVE  x \in Elems(s) \cup Elems(t)
      <3>1. PICK i \in 1..m+n : u[i] = x
        BY <1>3, Zenon DEF Elems
      <3>2. CASE i \in 1..m
        BY <1>1, <1>2, <3>1, <3>2, Zenon
      <3>3. ASSUME NEW k \in 1..n, i = m + k
            PROVE  x \in Elems(t)
        BY <1>1, <1>2, <3>1, <3>3, Zenon
      <3> QED
        BY <1>4, <3>2, <3>3, Zenon
    <2>2. ASSUME NEW x \in Elems(s) \cup Elems(t)
          PROVE  x \in Elems(u)
      <3>1. \E i \in 1..m+n : u[i] = x
        BY <1>1, <1>2, <1>5, <2>2, Zenon
      <3> QED
        BY <1>3, <3>1, Zenon DEF Elems
    <2> QED
      BY <2>1, <2>2, Zenon
  <1>7. Once(u)
    <2>1. ASSUME NEW i \in 1..m+n, NEW j \in 1..m+n, u[i] = u[j]
          PROVE  i = j
      <3>1. CASE i \in 1..m /\ j \in 1..m
        BY <1>1, <1>2, <2>1, <3>1, Zenon DEF Once
      <3>2. ASSUME NEW k \in 1..n, NEW l \in 1..n, i = m + k, j = m + l
            PROVE  i = j
        <4>1. t[k] = t[l]
          BY <1>2, <2>1, <3>2, Zenon
        <4> QED
          BY <1>1, <3>2, <4>1, Zenon DEF Once
      <3>3. ASSUME NEW k \in 1..n, i \in 1..m, j = m + k
            PROVE  FALSE
        BY <1>1, <1>2, <2>1, <3>3, Zenon
      <3>4. ASSUME NEW k \in 1..n, j \in 1..m, i = m + k
            PROVE  FALSE
        BY <1>1, <1>2, <2>1, <3>4, Zenon
      <3> QED
        BY <1>4, <3>1, <3>2, <3>3, <3>4, Zenon
    <2> QED
      BY <1>3, <2>1, Zenon DEF Once
  <1>8. \A i \in 1..m+n : Index(u, u[i]) = i
    BY <1>2, <1>7, Places, Zenon
  <1>9. \A x \in Elems(s) : Index(u, x) = Index(s, x)
    BY <1>1, <1>2, <1>5, <1>8, Zenon
  <1>10. ASSUME NEW x \in Elems(t)
         PROVE  Index(u, x) = m + Index(t, x)
    <2>1. m + Index(t, x) \in 1..m+n /\ u[m + Index(t, x)] = x
      BY <1>1, <1>2, <1>5, Zenon
    <2> QED
      BY <1>8, <2>1, Zenon
  <1> QED
    BY <1>2, <1>6, <1>7, <1>9, <1>10, Zenon DEF u, m, n

\* a list of one element
LEMMA Single ==
  ASSUME NEW S, NEW x \in S
  PROVE  /\ <<x>> \in Seq(S) /\ Len(<<x>>) = 1 /\ Once(<<x>>) /\ Elems(<<x>>) = {x}
         /\ Index(<<x>>, x) = 1
  <1>1. <<x>> \in Seq(S) /\ Len(<<x>>) = 1 /\ DOMAIN <<x>> = {1} /\ <<x>>[1] = x
    OBVIOUS
  <1> QED
    BY <1>1, Zenon DEF Once, Elems, Index

\* a new first element
LEMMA Prepended ==
  ASSUME NEW S, NEW s \in Seq(S), NEW x \in S, Once(s), x \notin Elems(s)
  PROVE  LET t == <<x>> \o s
         IN  /\ t \in Seq(S) /\ Once(t) /\ Elems(t) = {x} \cup Elems(s)
             /\ Index(t, x) = 1
             /\ \A y \in Elems(s) : Index(t, y) = 1 + Index(s, y)
  <1> DEFINE q == <<x>>
             t == q \o s
  <1>1. q \in Seq(S) /\ Len(q) = 1 /\ Once(q) /\ Elems(q) = {x} /\ Index(q, x) = 1
    BY Single, Zenon
  <1> HIDE DEF q
  <1>2. Elems(q) \cap Elems(s) = {}
    BY <1>1, Zenon
  <1>3. /\ t \in Seq(S) /\ Once(t) /\ Elems(t) = Elems(q) \cup Elems(s)
        /\ \A y \in Elems(q) : Index(t, y) = Index(q, y)
        /\ \A y \in Elems(s) : Index(t, y) = Len(q) + Index(s, y)
    BY <1>1, <1>2, Joined
  <1> HIDE DEF t
  <1>4. Index(t, x) = 1 /\ \A y \in Elems(s) : Index(t, y) = 1 + Index(s, y)
    BY <1>1, <1>3, Zenon
  <1> QED
    BY <1>1, <1>3, <1>4, Zenon DEF t, q

\* a new last element
LEMMA Appended ==
  ASSUME NEW S, NEW s \in Seq(S), NEW x \in S, Once(s), x \notin Elems(s)
  PROVE  LET t == Append(s, x)
         IN  /\ t \in Seq(S) /\ Once(t) /\ Elems(t) = Elems(s) \cup {x}
             /\ Index(t, x) = Len(s) + 1
             /\ \A y \in Elems(s) : Index(t, y) = Index(s, y)
  <1> DEFINE q == <<x>>
             t == s \o q
  <1>1. q \in Seq(S) /\ Once(q) /\ Elems(q) = {x} /\ Index(q, x) = 1
    BY Single, Zenon
  <1>2. Append(s, x) = t
    OBVIOUS
  <1> HIDE DEF q
  <1>3. Elems(s) \cap Elems(q) = {}
    BY <1>1, Zenon
  <1>4. /\ t \in Seq(S) /\ Once(t) /\ Elems(t) = Elems(s) \cup Elems(q)
        /\ \A y \in Elems(s) : Index(t, y) = Index(s, y)
        /\ \A y \in Elems(q) : Index(t, y) = Len(s) + Index(q, y)
    BY <1>1, <1>3, Joined
  <1> HIDE DEF t
  <1>5. Index(t, x) = Len(s) + 1
    BY <1>1, <1>4, Zenon
  <1> QED
    BY <1>1, <1>2, <1>4, <1>5, Zenon

\* the first element goes
LEMMA Tailed ==
  ASSUME NEW S, NEW s \in Seq(S), Once(s), s # <<>>
  PROVE  /\ Head(s) \in Elems(s) /\ Tail(s) \in Seq(S) /\ Once(Tail(s))
         /\ Elems(Tail(s)) = Elems(s) \ {Head(s)}
  <1> DEFINE t == Tail(s)
             n == Len(s)
  <1>1. n \in Nat /\ DOMAIN s = 1..n /\ 1 \in 1..n /\ \A i \in 1..n : s[i] \in Elems(s)
    <2>1. n \in Nat /\ DOMAIN s = 1..n /\ \A i \in 1..n : s[i] \in Elems(s)
      BY Places, Zenon
    <2> QED
      BY <2>1
  <1>2. /\ t \in Seq(S) /\ Len(t) = n - 1 /\ DOMAIN t = 1..n-1
        /\ Head(s) = s[1] /\ \A i \in 1..n-1 : t[i] = s[i+1]
    OBVIOUS
  <1> HIDE DEF t, n
  <1>3. ASSUME NEW i \in 1..n
        PROVE  i = 1 \/ (i-1 \in 1..n-1 /\ i = (i-1)+1)
    BY <1>1
  <1>4. \A i \in 1..n-1 : i+1 \in 1..n /\ i+1 # 1
    BY <1>1
  <1>5. \A i, j \in 1..n-1 : i+1 = j+1 => i = j
    BY <1>1
  <1>6. Once(t)
    <2>1. ASSUME NEW i \in 1..n-1, NEW j \in 1..n-1, t[i] = t[j]
          PROVE  i = j
      <3>1. s[i+1] = s[j+1] /\ i+1 \in 1..n /\ j+1 \in 1..n
        BY <1>2, <1>4, <2>1, Zenon
      <3>2. i+1 = j+1
        BY <1>1, <3>1, Zenon DEF Once
      <3> QED
        BY <1>5, <3>2, Zenon
    <2> QED
      BY <1>2, <2>1, Zenon DEF Once
  <1>7. Elems(t) = Elems(s) \ {Head(s)}
    <2>1. ASSUME NEW x \in Elems(t)
          PROVE  x \in Elems(s) \ {Head(s)}
      <3>1. PICK i \in 1..n-1 : x = s[i+1]
        BY <1>2, Zenon DEF Elems
      <3> QED
        BY <1>1, <1>2, <1>4, <3>1, Zenon DEF Once
    <2>2. ASSUME NEW x \in Elems(s) \ {Head(s)}
          PROVE  x \in Elems(t)
      <3>1. PICK i \in 1..n : x = s[i]
        BY <1>1, Zenon DEF Elems
      <3>2. i-1 \in 1..n-1 /\ x = t[i-1]
        BY <1>2, <1>3, <3>1, Zenon
      <3> QED
        BY <1>2, <3>2, Zenon DEF Elems
    <2> QED
      BY <2>1, <2>2, Zenon
  <1> QED
    BY <1>1, <1>2, <1>6, <1>7, Zenon DEF t

\* an element is unlinked: the others keep their order
LEMMA Unlinked ==
  ASSUME NEW S, NEW s \in Seq(S), NEW x, Once(s)
  PROVE  LET t == Without(s, x)
         IN  /\ t \in Seq(S) /\ Once(t) /\ Elems(t) = Elems(s) \ {x}
             /\ \A y, z \in Elems(t) : Index(t, y) < Index(t, z) => Index(s, y) < Index(s, z)
             /\ \A y, z \in Elems(t) : Index(s, y) < Index(s, z) => Index(t, y) < Index(t, z)
             /\ Len(t) <= Len(s)
  <1> DEFINE t == Without(s, x)
             n == Len(s)
             k == Index(s, x)
             at(i) == IF i < k THEN i ELSE i+1
  <1>1. /\ n \in Nat /\ DOMAIN s = 1..n /\ s \in [1..n -> S]
        /\ \A i \in 1..n : s[i] \in Elems(s) /\ Index(s, s[i]) = i
    BY Places, Zenon
  <1>2. CASE x \notin Elems(s)
    <2>1. t = s
      BY <1>2, Zenon DEF Without
    <2>2. Elems(s) = Elems(s) \ {x}
      BY <1>2, Zenon
    <2>3. n <= n
      BY <1>1
    <2> HIDE DEF t, n
    <2> QED
      BY <2>1, <2>2, <2>3, Zenon DEF t, n
  <1>3. CASE x \in Elems(s)
    <2>1. k \in 1..n /\ s[k] = x /\ n - 1 \in Nat /\ n - 1 <= n
      <3>1. k \in 1..n /\ s[k] = x
        BY <1>3, Places, Zenon
      <3> QED
        BY <1>1, <3>1
    <2>2. t = [i \in 1..n-1 |-> IF i < k THEN s[i] ELSE s[i+1]]
      BY <1>3, Zenon DEF Without
    <2> HIDE DEF k, n, t
    <2>3. \A i \in 1..n-1 : at(i) \in 1..n /\ at(i) # k
      BY <1>1, <2>1
    <2>4. \A i, j \in 1..n-1 : (i < j <=> at(i) < at(j)) /\ (at(i) = at(j) => i = j)
      BY <1>1, <2>1
    <2>5. \A i \in 1..n-1 : t[i] = s[at(i)]
      BY <2>2
    <2>6. \A i \in 1..n : i = k \/ \E j \in 1..n-1 : i = at(j)
      <3>1. ASSUME NEW i \in 1..n
            PROVE  i = k \/ (i \in 1..n-1 /\ i = at(i)) \/ (i-1 \in 1..n-1 /\ i = at(i-1))
        BY <1>1, <2>1
      <3> HIDE DEF at
      <3> QED
        BY <3>1, Zenon
    <2>7. DOMAIN t = 1..n-1
      BY <2>2, Zenon
    <2> HIDE DEF at
    <2>8. t \in Seq(S) /\ Len(t) = n - 1
      <3>1. t \in [1..n-1 -> S]
        BY <1>1, <2>2, <2>3, <2>5, Zenon
      <3> QED
        BY <2>1, <3>1
    <2>9. Once(t)
      <3>1. ASSUME NEW i \in 1..n-1, NEW j \in 1..n-1, t[i] = t[j]
            PROVE  i = j
        <4>1. at(i) = at(j)
          BY <1>1, <2>3, <2>5, <3>1, Zenon DEF Once
        <4> QED
          BY <2>4, <4>1, Zenon
      <3> QED
        BY <2>7, <3>1, Zenon DEF Once
    <2>10. Elems(t) = Elems(s) \ {x}
      <3>1. ASSUME NEW y \in Elems(t)
            PROVE  y \in Elems(s) \ {x}
        <4>1. PICK i \in 1..n-1 : y = s[at(i)]
          BY <2>5, <2>7, Zenon DEF Elems
        <4>2. at(i) \in 1..n /\ at(i) # k
          BY <2>3, Zenon
        <4> QED
          BY <1>1, <2>1, <4>1, <4>2, Zenon DEF Once
      <3>2. ASSUME NEW y \in Elems(s) \ {x}
            PROVE  y \in Elems(t)
        <4>1. PICK i \in 1..n : y = s[i]
          BY <1>1, Zenon DEF Elems
        <4>2. PICK j \in 1..n-1 : i = at(j)
          BY <2>1, <2>6, <3>2, <4>1, Zenon
        <4>3. t[j] = y
          BY <2>5, <4>1, <4>2, Zenon
        <4> QED
          BY <2>7, <4>3, Zenon DEF Elems
      <3> QED
        BY <3>1, <3>2, Zenon
    <2>11. ASSUME NEW y \in Elems(t)
           PROVE  Index(t, y) \in 1..n-1 /\ Index(s, y) = at(Index(t, y))
      <3>1. Index(t, y) \in 1..n-1 /\ t[Index(t, y)] = y
        BY <2>8, Places, Zenon
      <3>2. s[at(Index(t, y))] = y /\ at(Index(t, y)) \in 1..n
        BY <2>3, <2>5, <3>1, Zenon
      <3> QED
        BY <1>1, <3>1, <3>2, Zenon
    <2>12. ASSUME NEW y \in Elems(t), NEW z \in Elems(t)
           PROVE  Index(t, y) < Index(t, z) <=> Index(s, y) < Index(s, z)
      <3>1. /\ Index(t, y) \in 1..n-1 /\ Index(s, y) = at(Index(t, y))
            /\ Index(t, z) \in 1..n-1 /\ Index(s, z) = at(Index(t, z))
        BY <2>11, Zenon
      <3>2. Index(t, y) < Index(t, z) <=> at(Index(t, y)) < at(Index(t, z))
        BY <2>4, <3>1, Zenon
      <3> QED
        BY <3>1, <3>2, Zenon
    <2> QED
      BY <2>1, <2>8, <2>9, <2>10, <2>12, Zenon DEF t, n
  <1> QED
    BY <1>2, <1>3, Zenon

\* a set of naturals that is not empty has a least element
LEMMA Least ==
  ASSUME NEW T, T \subseteq Nat, T # {}
  PROVE  \E x \in T : \A y \in T : ~(y < x)
  <1> DEFINE R == {ss \in Nat \X Nat : ss[1] < ss[2]}
  <1>1. IsWellFoundedOn(R, Nat)
    BY NatLessThanWellFounded, Zenon DEF OpToRel
  <1>2. \A x, y \in Nat : y < x => <<y, x>> \in R
    BY Zenon
  <1> HIDE DEF R
  <1>3. \E x \in T : \A y \in T : ~(<<y, x>> \in R)
    BY <1>1, WFMin, Zenon
  <1> QED
    BY <1>2, <1>3, Zenon

\* the ranks of the members of I are 1, 2 ... in their order
LEMMA Ranked ==
  ASSUME NEW n \in Nat, NEW I, I \subseteq 1..n
  PROVE  /\ Cardinality(I) \in Nat
         /\ \A k \in 1..Cardinality(I) : \E i \in I : Rank(I, i) = k
         /\ \A i \in I : Rank(I, i) \in 1..Cardinality(I)
         /\ \A i, j \in I : i < j => Rank(I, i) < Rank(I, j)
  <1> DEFINE upto(i) == {j \in I : j <= i}
  <1>0. \A i \in I : i \in Nat /\ 1 <= i /\ i <= n
    OBVIOUS
  <1>1. IsFiniteSet(I) /\ Cardinality(I) \in Nat
    <2>1. IsFiniteSet(1..n)
      BY FS_Interval
    <2> QED
      BY <2>1, FS_Subset, FS_CardinalityType, Zenon
  <1>2. ASSUME NEW i
        PROVE  /\ upto(i) \subseteq I /\ IsFiniteSet(upto(i))
               /\ Rank(I, i) = Cardinality(upto(i))
               /\ Rank(I, i) \in Nat /\ Rank(I, i) <= Cardinality(I)
    <2>1. upto(i) \in SUBSET I /\ Rank(I, i) = Cardinality(upto(i))
      BY Zenon DEF Rank
    <2> HIDE DEF upto
    <2> QED
      BY <1>1, <2>1, FS_Subset, FS_CardinalityType, Zenon
  <1>3. ASSUME NEW i \in I
        PROVE  Rank(I, i) \in 1..Cardinality(I)
    <2>1. i \in upto(i)
      OBVIOUS
    <2> HIDE DEF upto
    <2>2. Rank(I, i) # 0
      BY <1>2, <2>1, FS_EmptySet, Zenon
    <2> QED
      BY <1>1, <1>2, <2>2
  <1>4. ASSUME NEW i \in I, NEW j \in I, i < j
        PROVE  Rank(I, i) < Rank(I, j)
    <2>1. j \notin upto(i) /\ upto(i) \cup {j} \in SUBSET upto(j)
      <3>1. ~(j <= i) /\ j <= j /\ \A l \in I : l <= i => l <= j
        BY <1>0, <1>4
      <3> QED
        BY <3>1, Zenon
    <2> HIDE DEF upto
    <2>2. Cardinality(upto(i) \cup {j}) = Cardinality(upto(i)) + 1
      BY <1>2, <2>1, FS_AddElement, Zenon
    <2>3. Cardinality(upto(i) \cup {j}) <= Cardinality(upto(j))
      BY <1>2, <2>1, FS_Subset, Zenon
    <2> QED
      BY <1>2, <2>2, <2>3
  <1>5. ASSUME NEW k \in 1..Cardinality(I)
        PROVE  \E i \in I : Rank(I, i) = k
    <2> DEFINE E == {i \in 1..n : k <= Rank(I, i)}
    <2>1. upto(n) = I
      BY <1>0, Zenon
    <2>2. n # 0
      <3>1. SUFFICES ASSUME n = 0
                     PROVE  FALSE
        BY Zenon
      <3>2. I = {}
        BY <3>1
      <3>3. Cardinality(I) = 0
        BY <3>2, FS_EmptySet, Zenon
      <3> QED
        BY <3>3
    <2>3. n \in E
      <3>1. Rank(I, n) = Cardinality(I)
        BY <1>2, <2>1, Zenon
      <3> QED
        BY <1>1, <2>2, <3>1
    <2>4. PICK i \in E : \A j \in E : ~(j < i)
      <3>1. E \subseteq Nat /\ E # {}
        BY <2>3
      <3> HIDE DEF E
      <3> QED
        BY <3>1, Least, Zenon
    <2>5. i \in 1..n /\ k <= Rank(I, i)
      OBVIOUS
    <2>6. Rank(I, i-1) < k
      <3>1. CASE i = 1
        <4>1. upto(i-1) = {}
          <5>1. \A j \in I : ~(j <= i-1)
            BY <1>0, <3>1
          <5> QED
            BY <5>1, Zenon
        <4>2. Rank(I, i-1) = 0
          BY <1>2, <4>1, FS_EmptySet, Zenon
        <4> QED
          BY <1>1, <4>2
      <3>2. CASE i # 1
        <4>1. i-1 \in 1..n /\ i-1 < i
          BY <2>5, <3>2
        <4>2. ~(k <= Rank(I, i-1))
          BY <2>4, <4>1, Zenon
        <4>3. Rank(I, i-1) \in Nat
          BY <1>2, Zenon
        <4> QED
          BY <1>1, <4>2, <4>3
      <3> QED
        BY <3>1, <3>2, Zenon
    <2>7. upto(i) = IF i \in I THEN upto(i-1) \cup {i} ELSE upto(i-1)
      <3>1. i <= i /\ \A j \in I : j <= i <=> (j = i \/ j <= i-1)
        BY <1>0, <2>5
      <3>2. CASE i \in I
        BY <3>1, <3>2, Zenon
      <3>3. CASE i \notin I
        BY <3>1, <3>3, Zenon
      <3> QED
        BY <3>2, <3>3, Zenon
    <2>8. i \notin upto(i-1)
      BY <2>5
    <2> HIDE DEF upto, E
    <2>9. i \in I
      BY <1>1, <1>2, <2>5, <2>6, <2>7
    <2>10. Rank(I, i) = Rank(I, i-1) + 1
      <3>1. upto(i) = upto(i-1) \cup {i}
        BY <2>7, <2>9, Zenon
      <3>2. Cardinality(upto(i-1) \cup {i}) = Cardinality(upto(i-1)) + 1
        BY <1>2, <2>8, FS_AddElement, Zenon
      <3> QED
        BY <1>2, <3>1, <3>2, Zenon
    <2>11. Rank(I, i) = k
      BY <1>1, <1>2, <2>5, <2>6, <2>10
    <2> QED
      BY <2>9, <2>11, Zenon
  <1> QED
    BY <1>1, <1>3, <1>4, <1>5, Zenon

\* the elements that are selected keep their order
LEMMA Selected ==
  ASSUME NEW S, NEW s \in Seq(S), NEW T, Once(s)
  PROVE  LET t == Select(s, T)
         IN  /\ t \in Seq(S) /\ Once(t) /\ Elems(t) = Elems(s) \cap T
             /\ \A y, z \in Elems(t) : Index(t, y) < Index(t, z) => Index(s, y) < Index(s, z)
  <1> DEFINE t == Select(s, T)
             n == Len(s)
             I == {i \in DOMAIN s : s[i] \in T}
             m == Cardinality(I)
             at(k) == CHOOSE i \in I : Rank(I, i) = k
  <1>1. /\ n \in Nat /\ DOMAIN s = 1..n /\ s \in [1..n -> S]
        /\ \A i \in 1..n : s[i] \in Elems(s) /\ Index(s, s[i]) = i
    BY Places, Zenon
  <1>2. t = [k \in 1..m |-> s[at(k)]]
    BY Zenon DEF Select
  <1> HIDE DEF t, n
  <1>3. \A i \in I : i \in 1..n /\ s[i] \in T
    BY <1>1, Zenon
  <1>4. \A i \in 1..n : s[i] \in T => i \in I
    BY <1>1, Zenon
  <1>5. I \subseteq 1..n
    BY <1>1, Zenon
  <1> HIDE DEF I
  <1>6. /\ m \in Nat
        /\ \A k \in 1..m : \E i \in I : Rank(I, i) = k
        /\ \A i \in I : Rank(I, i) \in 1..m
        /\ \A i, j \in I : i < j => Rank(I, i) < Rank(I, j)
    BY <1>1, <1>5, Ranked, Zenon
  <1> HIDE DEF m
  <1>7. \A k \in 1..m : at(k) \in I /\ Rank(I, at(k)) = k
    BY <1>6, Zenon
  <1> HIDE DEF at
  <1>8. ASSUME NEW i \in I, NEW j \in I, Rank(I, i) = Rank(I, j)
        PROVE  i = j
    <2>1. ~(Rank(I, i) < Rank(I, j)) /\ ~(Rank(I, j) < Rank(I, i))
      BY <1>6, <1>8
    <2>2. ~(i < j) /\ ~(j < i)
      BY <1>6, <2>1, Zenon
    <2> QED
      BY <1>1, <1>3, <2>2
  <1>9. \A i \in I : Rank(I, i) \in 1..m /\ i = at(Rank(I, i))
    BY <1>6, <1>7, <1>8, Zenon
  <1>10. ASSUME NEW k \in 1..m, NEW l \in 1..m, k < l
         PROVE  at(k) < at(l)
    <2>1. /\ at(k) \in 1..n /\ at(l) \in 1..n
          /\ Rank(I, at(k)) = k /\ Rank(I, at(l)) = l
      BY <1>3, <1>7, Zenon
    <2>2. at(l) < at(k) => l < k
      BY <1>6, <1>7, <2>1, Zenon
    <2>3. at(k) = at(l) => k = l
      BY <2>1, Zenon
    <2> QED
      BY <1>1, <1>6, <1>10, <2>1, <2>2, <2>3
  <1>11. DOMAIN t = 1..m /\ \A k \in 1..m : t[k] = s[at(k)]
    BY <1>2, Zenon
  <1>12. t \in Seq(S) /\ Len(t) = m
    <2>1. t \in [1..m -> S]
      BY <1>1, <1>2, <1>3, <1>7, <1>11, Zenon
    <2> QED
      BY <1>6, <2>1
  <1>13. Once(t)
    <2>1. ASSUME NEW k \in 1..m, NEW l \in 1..m, t[k] = t[l]
          PROVE  k = l
      <3>1. at(k) = at(l)
        BY <1>1, <1>3, <1>7, <1>11, <2>1, Zenon
      <3> QED
        BY <1>7, <3>1, Zenon
    <2> QED
      BY <1>11, <2>1, Zenon DEF Once
  <1>14. Elems(t) = Elems(s) \cap T
    <2>1. ASSUME NEW y \in Elems(t)
          PROVE  y \in Elems(s) \cap T
      <3>1. PICK k \in 1..m : y = s[at(k)]
        BY <1>11, Zenon DEF Elems
      <3> QED
        BY <1>1, <1>3, <1>7, <3>1, Zenon
    <2>2. ASSUME NEW y \in Elems(s) \cap T
          PROVE  y \in Elems(t)
      <3>1. PICK i \in 1..n : y = s[i]
        BY <1>1, Zenon DEF Elems
      <3>2. i \in I
        BY <1>4, <2>2, <3>1, Zenon
      <3>3. Rank(I, i) \in 1..m /\ y = t[Rank(I, i)]
        BY <1>9, <1>11, <3>1, <3>2, Zenon
      <3> QED
        BY <1>11, <3>3, Zenon DEF Elems
    <2> QED
      BY <2>1, <2>2, Zenon
  <1>15. ASSUME NEW y \in Elems(t)
         PROVE  Index(t, y) \in 1..m /\ Index(s, y) = at(Index(t, y))
    <2>1. Index(t, y) \in 1..m /\ t[Index(t, y)] = y
      BY <1>12, Places, Zenon
    <2>2. s[at(Index(t, y))] = y /\ at(Index(t, y)) \in 1..n
      BY <1>3, <1>7, <1>11, <2>1, Zenon
    <2> QED
      BY <1>1, <2>1, <2>2, Zenon
  <1>16. ASSUME NEW y \in Elems(t), NEW z \in Elems(t), Index(t, y) < Index(t, z)
         PROVE  Index(s, y) < Index(s, z)
    <2>1. /\ Index(t, y) \in 1..m /\ Index(s, y) = at(Index(t, y))
          /\ Index(t, z) \in 1..m /\ Index(s, z) = at(Index(t, z))
      BY <1>15, Zenon
    <2>2. at(Index(t, y)) < at(Index(t, z))
      BY <1>10, <1>16, <2>1, Zenon
    <2> QED
      BY <2>1, <2>2, Zenon
  <1> QED
    BY <1>12, <1>13, <1>14, <1>16, Zenon DEF t

-----------------------------------------------------------------------------
(* The inductive invariant.                                                *)

TypeInv ==
  /\ root \in Seq(Udata) /\ tmudata \in Seq(Udata) /\ created \in Seq(Udata)
  /\ gcstate \in {"pause", "sweep", "finalize"} /\ phase \in {"run", "close", "closed"}
  /\ infin \in BOOLEAN

\* the two lists share what exists
Partition ==
  /\ Once(root) /\ Once(tmudata) /\ Once(created)
  /\ Elems(root) \cap Elems(tmudata) = {}
  /\ Elems(root) \cup Elems(tmudata) = Elems(created)

\* what waits for its finalizer is not looked at again, what is dead neither:
\* it stays in the root list until it is swept
Marks ==
  /\ Elems(tmudata) \subseteq finalized
  /\ dead \subseteq Elems(root) \cap finalized

\* the udata of rt that may still be separated are in the reverse order of
\* their creation
Reversed(rt, fin, cr) ==
  \A u, v \in Elems(rt) \ fin : Index(rt, u) < Index(rt, v) => Index(cr, v) < Index(cr, u)

\* the sweep at sw is in the list rt, and before what is dead
Ahead(rt, sw, dd) ==
  /\ sw \in {ROOT, MT} \cup Elems(rt)
  /\ sw \in Elems(rt) => \A u \in dd : Index(rt, sw) < Index(rt, u)

\* what gafq_close has to finalize is still in tmudata
Pending ==
  /\ infin => phase = "close"
  /\ phase # "run" => due \subseteq Elems(tmudata)
  /\ phase = "closed" => tmudata = <<>>

UInv ==
  /\ TypeInv /\ Partition /\ Marks /\ Pending
  /\ Reversed(root, finalized, created)
  /\ phase = "run" => Ahead(root, sweepgc, dead) /\ (gcstate = "sweep" \/ dead = {})

\* steps that move no udata
LEMMA Still ==
  ASSUME UInv, UNCHANGED <<root, tmudata, created, finalized, dead, due, phase>>,
         gcstate' \in {"pause", "sweep", "finalize"}, infin' \in BOOLEAN, infin' => infin,
         phase = "run" => sweepgc' \in {ROOT, sweepgc} /\ (gcstate' = "sweep" \/ dead = {})
  PROVE  UInv'
  <1>1. TypeInv' /\ Partition' /\ Marks' /\ Pending' /\ Reversed(root, finalized, created)'
    BY DEF UInv, TypeInv, Partition, Marks, Pending, Reversed
  <1>2. ROOT \notin Elems(root)
    <2>1. Elems(root) \subseteq Udata
      BY Places, Zenon DEF UInv, TypeInv
    <2> QED
      BY <2>1, UdataAssumption, Zenon
  <1>3. ASSUME phase' = "run"
        PROVE  Ahead(root, sweepgc, dead)' /\ (gcstate' = "sweep" \/ dead' = {})
    BY <1>2, <1>3, Zenon DEF UInv, Ahead
  <1> QED
    BY <1>1, <1>3, Zenon DEF UInv

\* a udata u that is put before the others leaves the sweep where it is
LEMMA AheadOfNew ==
  ASSUME NEW rt \in Seq(Udata), NEW rt1, NEW u \in Udata, NEW sw, NEW dd, dd \subseteq Elems(rt),
         Ahead(rt, sw, dd), u \notin Elems(rt), Elems(rt1) = {u} \cup Elems(rt),
         \A y \in Elems(rt) : Index(rt1, y) = 1 + Index(rt, y)
  PROVE  Ahead(rt1, sw, dd)
  <1>1. sw \in {ROOT, MT} \cup Elems(rt1)
    BY Zenon DEF Ahead
  <1>2. ASSUME sw \in Elems(rt1), NEW v \in dd
        PROVE  Index(rt1, sw) < Index(rt1, v)
    <2>1. sw \in Elems(rt) /\ v \in Elems(rt) /\ Index(rt, sw) < Index(rt, v)
      BY <1>2, UdataAssumption, Zenon DEF Ahead
    <2>2. Len(rt) \in Nat /\ Index(rt, sw) \in 1..Len(rt) /\ Index(rt, v) \in 1..Len(rt)
      BY <2>1, Places, Zenon
    <2> QED
      BY <2>1, <2>2
  <1> QED
    BY <1>1, <1>2, Zenon DEF Ahead

\* gafqS_newudata
LEMMA NewUdataInv ==
  ASSUME UInv, NEW u \in Udata, NewUdata(u)
  PROVE  UInv'
  <1>1. /\ root \in Seq(Udata) /\ tmudata \in Seq(Udata) /\ created \in Seq(Udata)
        /\ Once(root) /\ Once(created) /\ Elems(root) \cup Elems(tmudata) = Elems(created)
        /\ u \notin Elems(root) /\ u \notin Elems(tmudata) /\ u \notin Elems(created)
    BY Zenon DEF UInv, TypeInv, Partition, NewUdata
  <1>2. /\ root' \in Seq(Udata) /\ Once(root') /\ Elems(root') = {u} \cup Elems(root)
        /\ Index(root', u) = 1
        /\ \A y \in Elems(root) : Index(root', y) = 1 + Index(root, y)
    <2>1. root' = <<u>> \o root
      BY Zenon DEF NewUdata
    <2> QED
      BY <1>1, <2>1, Prepended
  <1>3. /\ created' \in Seq(Udata) /\ Once(created') /\ Elems(created') = Elems(created) \cup {u}
        /\ Index(created', u) = Len(created) + 1
        /\ \A y \in Elems(created) : Index(created', y) = Index(created, y)
    <2>1. created' = Append(created, u)
      BY Zenon DEF NewUdata
    <2> QED
      BY <1>1, <2>1, Appended
  <1>4. UNCHANGED <<tmudata, finalized, dead, gcstate, sweepgc, phase, infin, due>>
    BY Zenon DEF NewUdata
  <1>5. TypeInv' /\ Marks' /\ Pending'
    BY <1>2, <1>3, <1>4, Zenon DEF UInv, TypeInv, Marks, Pending
  <1>6. Partition'
    BY <1>1, <1>2, <1>3, <1>4, Zenon DEF UInv, Partition
  <1>7. /\ \A y \in Elems(root) : Index(root, y) \in Nat /\ Index(root, y) > 0
        /\ Len(created) \in Nat
        /\ \A y \in Elems(created) : Index(created, y) \in 1..Len(created)
    <2>1. /\ \A y \in Elems(root) : Index(root, y) \in 1..Len(root)
          /\ Len(root) \in Nat /\ Len(created) \in Nat
          /\ \A y \in Elems(created) : Index(created, y) \in 1..Len(created)
      BY <1>1, Places, Zenon
    <2> QED
      BY <2>1
  <1>8. Reversed(root', finalized', created')
    <2>1. ASSUME NEW v \in Elems(root') \ finalized', NEW w \in Elems(root') \ finalized',
                 Index(root', v) < Index(root', w)
          PROVE  Index(created', w) < Index(created', v)
      <3>1. CASE v = u
        <4>1. w \in Elems(root)
          BY <1>2, <2>1, <3>1
        <4>2. w \in Elems(created)
          BY <1>1, <4>1, Zenon
        <4> QED
          BY <1>3, <1>7, <3>1, <4>2
      <3>2. CASE v # u /\ w = u
        <4>1. v \in Elems(root)
          BY <1>2, <3>2, Zenon
        <4> QED
          BY <1>2, <1>7, <2>1, <3>2, <4>1
      <3>3. CASE v # u /\ w # u
        <4>1. /\ v \in Elems(root) \ finalized /\ w \in Elems(root) \ finalized
              /\ v \in Elems(created) /\ w \in Elems(created)
          BY <1>1, <1>2, <1>4, <3>3, Zenon
        <4>2. Index(root, v) < Index(root, w)
          BY <1>2, <1>7, <2>1, <4>1
        <4>3. Index(created, w) < Index(created, v)
          BY <4>1, <4>2, Zenon DEF UInv, Reversed
        <4> QED
          BY <1>3, <4>1, <4>3, Zenon
      <3> QED
        BY <3>1, <3>2, <3>3, Zenon
    <2> QED
      BY <2>1, Zenon DEF Reversed
  <1>9. ASSUME phase' = "run"
        PROVE  Ahead(root', sweepgc', dead') /\ (gcstate' = "sweep" \/ dead' = {})
    <2>1. Ahead(root, sweepgc, dead) /\ (gcstate = "sweep" \/ dead = {}) /\ dead \subseteq Elems(root)
      BY <1>4, <1>9, Zenon DEF UInv, Marks
    <2>2. Ahead(root', sweepgc, dead)
      BY <1>1, <1>2, <1>7, <2>1, AheadOfNew, Zenon
    <2> QED
      BY <1>4, <2>1, <2>2, Zenon
  <1> QED
    BY <1>5, <1>6, <1>8, <1>9, Zenon DEF UInv

\* gafqC_separateudata loses and duplicates none, and keeps the order
LEMMA Separates ==
  ASSUME UInv, NEW D, D \subseteq Elems(root), separateudata(D), created' = created
  PROVE  /\ root' \in Seq(Udata) /\ tmudata' \in Seq(Udata) /\ Partition'
         /\ Elems(tmudata) \subseteq Elems(tmudata')
         /\ Elems(tmudata') \subseteq finalized'
         /\ Elems(root') = Elems(root) \ ((D \cap hasgc) \ finalized)
         /\ Reversed(root', finalized', created')
         /\ \A i, j \in Len(tmudata) + 1 .. Len(tmudata') :
              i < j => Index(created, tmudata'[i]) > Index(created, tmudata'[j])
  <1> DEFINE C == (D \cap hasgc) \ finalized
             s == Select(root, C)
             rt == Select(root, Elems(root) \ C)
  <1>1. /\ root \in Seq(Udata) /\ tmudata \in Seq(Udata) /\ created \in Seq(Udata)
        /\ Once(root) /\ Once(tmudata) /\ Once(created)
        /\ Elems(root) \cap Elems(tmudata) = {}
        /\ Elems(root) \cup Elems(tmudata) = Elems(created)
        /\ Elems(tmudata) \subseteq finalized
        /\ Reversed(root, finalized, created)
    BY Zenon DEF UInv, TypeInv, Partition, Marks
  <1>2. root' = rt /\ tmudata' = tmudata \o s /\ finalized' = finalized \cup D
    BY Zenon DEF separateudata
  <1>3. C \subseteq D /\ C \subseteq Elems(root) /\ \A u \in C : u \notin finalized
    BY Zenon
  <1> HIDE DEF C
  <1>4. /\ s \in Seq(Udata) /\ Once(s) /\ Elems(s) = Elems(root) \cap C
        /\ \A y, z \in Elems(s) : Index(s, y) < Index(s, z) => Index(root, y) < Index(root, z)
    BY <1>1, Selected, Zenon
  <1>5. /\ rt \in Seq(Udata) /\ Once(rt) /\ Elems(rt) = Elems(root) \cap (Elems(root) \ C)
        /\ \A y, z \in Elems(rt) : Index(rt, y) < Index(rt, z) => Index(root, y) < Index(root, z)
    BY <1>1, Selected, Zenon
  <1> HIDE DEF s, rt
  <1>6. Elems(s) = C /\ Elems(rt) = Elems(root) \ C /\ Elems(tmudata) \cap Elems(s) = {}
    BY <1>1, <1>3, <1>4, <1>5, Zenon
  <1>7. /\ tmudata' \in Seq(Udata) /\ Once(tmudata') /\ Len(tmudata') = Len(tmudata) + Len(s)
        /\ Elems(tmudata') = Elems(tmudata) \cup Elems(s)
        /\ \A i \in 1..Len(s) : tmudata'[Len(tmudata) + i] = s[i]
    BY <1>1, <1>2, <1>4, <1>6, Joined
  <1>8. Partition'
    BY <1>1, <1>2, <1>3, <1>5, <1>6, <1>7, Zenon DEF Partition
  <1>9. Elems(tmudata') \subseteq finalized'
    BY <1>1, <1>2, <1>3, <1>6, <1>7, Zenon
  <1>10. Reversed(root', finalized', created')
    <2>1. \A u \in Elems(rt) \ finalized' : u \in Elems(root) \ finalized
      BY <1>2, <1>6, Zenon
    <2> QED
      BY <1>1, <1>2, <1>5, <2>1, Zenon DEF Reversed
  <1>11. ASSUME NEW i \in Len(tmudata) + 1 .. Len(tmudata'),
                NEW j \in Len(tmudata) + 1 .. Len(tmudata'), i < j
         PROVE  Index(created, tmudata'[i]) > Index(created, tmudata'[j])
    <2> DEFINE k == i - Len(tmudata)
               l == j - Len(tmudata)
               u == s[k]
               v == s[l]
    <2>1. /\ Len(tmudata) \in Nat /\ Len(s) \in Nat /\ Len(created) \in Nat
          /\ \A m \in 1..Len(s) : s[m] \in Elems(s) /\ Index(s, s[m]) = m
          /\ \A x \in Elems(created) : Index(created, x) \in 1..Len(created)
      BY <1>1, <1>4, Places, Zenon
    <2>2. /\ k \in 1..Len(s) /\ l \in 1..Len(s) /\ k < l
          /\ i = Len(tmudata) + k /\ j = Len(tmudata) + l
      BY <1>7, <1>11, <2>1
    <2> HIDE DEF k, l
    <2>3. tmudata'[i] = u /\ tmudata'[j] = v /\ u \in C /\ v \in C /\ Index(s, u) < Index(s, v)
      BY <1>6, <1>7, <2>1, <2>2, Zenon
    <2> HIDE DEF u, v
    <2>4. Index(root, u) < Index(root, v)
      BY <1>4, <1>6, <2>3, Zenon
    <2>5. u \in Elems(root) \ finalized /\ v \in Elems(root) \ finalized
      BY <1>3, <2>3, Zenon
    <2>6. Index(created, v) < Index(created, u) /\ u \in Elems(created) /\ v \in Elems(created)
      BY <1>1, <2>4, <2>5, Zenon DEF Reversed
    <2> QED
      BY <2>1, <2>3, <2>6
  <1> QED
    BY <1>2, <1>5, <1>6, <1>7, <1>8, <1>9, <1>10, <1>11, Zenon DEF C

\* markroot, the propagation and atomic
LEMMA MarkInv ==
  ASSUME UInv, Mark
  PROVE  UInv'
  <1>1. PICK D \in SUBSET Elems(root) : separateudata(D) /\ dead' = D \cap Elems(root')
    BY Zenon DEF Mark
  <1>2. sweepgc' = ROOT /\ gcstate' = "sweep" /\ UNCHANGED <<phase, infin, created, due>>
    BY Zenon DEF Mark, sweepstart
  <1>3. /\ root' \in Seq(Udata) /\ tmudata' \in Seq(Udata) /\ Partition'
        /\ Elems(tmudata) \subseteq Elems(tmudata')
        /\ Elems(tmudata') \subseteq finalized'
        /\ Reversed(root', finalized', created')
    BY <1>1, <1>2, Separates, Zenon
  <1>4. D \subseteq finalized' /\ (tmudata = <<>> /\ phase = "closed" => tmudata' = <<>>)
    BY <1>1, Zenon DEF separateudata, Mark, CollectorRuns, UInv, Pending
  <1>5. TypeInv' /\ Marks'
    BY <1>1, <1>2, <1>3, <1>4 DEF UInv, TypeInv, Marks
  <1>6. Pending'
    BY <1>2, <1>3, <1>4, Zenon DEF UInv, Pending
  <1>7. ROOT \notin Elems(root')
    <2>1. Elems(root') \subseteq Udata
      BY <1>3, Places, Zenon
    <2> QED
      BY <2>1, UdataAssumption, Zenon
  <1>8. Ahead(root', sweepgc', dead')
    BY <1>2, <1>7, Zenon DEF Ahead
  <1> QED
    BY <1>2, <1>3, <1>5, <1>6, <1>8, Zenon DEF UInv

\* gafq_close separates all udata
LEMMA CloseInv ==
  ASSUME UInv, Close
  PROVE  UInv'
  <1>1. /\ separateudata(Elems(root)) /\ phase' = "close" /\ due' = Elems(tmudata')
        /\ UNCHANGED <<dead, gcstate, sweepgc, infin, created>>
    BY Zenon DEF Close
  <1>2. /\ root' \in Seq(Udata) /\ tmudata' \in Seq(Udata) /\ Partition'
        /\ Elems(tmudata') \subseteq finalized'
        /\ Elems(root') = Elems(root) \ ((Elems(root) \cap hasgc) \ finalized)
        /\ Reversed(root', finalized', created')
    BY <1>1, Separates, Zenon
  <1>3. Marks'
    <2>1. finalized' = finalized \cup Elems(root)
      BY <1>1, Zenon DEF separateudata
    <2> QED
      BY <1>1, <1>2, <2>1, Zenon DEF UInv, Marks
  <1>4. TypeInv' /\ Pending'
    BY <1>1, <1>2 DEF UInv, TypeInv, Pending
  <1>5. phase' # "run"
    BY <1>1
  <1> QED
    BY <1>2, <1>3, <1>4, <1>5, Zenon DEF UInv

\* GCTM moves the first udata of tmudata to the head of the root list
LEMMA GctmInv ==
  ASSUME UInv, gctm, gcstate' = gcstate, infin' \in BOOLEAN, infin' => phase = "close"
  PROVE  UInv'
  <1>1. /\ root \in Seq(Udata) /\ tmudata \in Seq(Udata) /\ created \in Seq(Udata)
        /\ Once(root) /\ Once(tmudata) /\ Once(created)
        /\ Elems(root) \cap Elems(tmudata) = {}
        /\ Elems(root) \cup Elems(tmudata) = Elems(created)
        /\ Elems(tmudata) \subseteq finalized /\ dead \subseteq Elems(root) \cap finalized
        /\ Reversed(root, finalized, created) /\ Pending
    BY Zenon DEF UInv, TypeInv, Partition, Marks
  <1>2. tmudata # <<>>
    BY Zenon DEF gctm
  <1>3. PICK u \in Udata : /\ u = Head(tmudata) /\ u \in Elems(tmudata) /\ u \notin Elems(root)
                           /\ Tail(tmudata) \in Seq(Udata) /\ Once(Tail(tmudata))
                           /\ Elems(Tail(tmudata)) = Elems(tmudata) \ {u}
    <2>1. Elems(tmudata) \subseteq Udata
      BY <1>1, Places, Zenon
    <2> QED
      BY <1>1, <1>2, <2>1, Tailed, Zenon
  <1>4. /\ tmudata' = Tail(tmudata) /\ root' = <<u>> \o root
        /\ due' = due \ {u} /\ UNCHANGED <<finalized, dead, sweepgc, phase, created>>
    BY <1>3, Zenon DEF gctm
  <1>5. /\ root' \in Seq(Udata) /\ Once(root') /\ Elems(root') = {u} \cup Elems(root)
        /\ Index(root', u) = 1
        /\ \A y \in Elems(root) : Index(root', y) = 1 + Index(root, y)
    <2>1. /\ root \in Seq(Udata) /\ Once(root) /\ u \in Udata /\ u \notin Elems(root)
          /\ root' = <<u>> \o root
      BY <1>1, <1>3, <1>4, Zenon
    <2> QED
      BY <2>1, Prepended
  <1>6. Partition' /\ Marks'
    BY <1>1, <1>2, <1>4, <1>3, <1>5, Zenon DEF Partition, Marks
  <1>7. TypeInv'
    BY <1>2, <1>4, <1>3, <1>5, Zenon DEF UInv, TypeInv
  <1>8. Pending'
    BY <1>1, <1>2, <1>4, <1>3, Zenon DEF Pending
  <1>9. Reversed(root', finalized', created')
    <2>1. ASSUME NEW v \in Elems(root') \ finalized', NEW w \in Elems(root') \ finalized',
                 Index(root', v) < Index(root', w)
          PROVE  Index(created', w) < Index(created', v)
      <3>1. v \in Elems(root) \ finalized /\ w \in Elems(root) \ finalized
        BY <1>1, <1>2, <1>4, <1>3, <1>5, Zenon
      <3>2. Len(root) \in Nat /\ Index(root, v) \in 1..Len(root) /\ Index(root, w) \in 1..Len(root)
        BY <1>1, <3>1, Places, Zenon
      <3>3. Index(root, v) < Index(root, w)
        BY <1>5, <2>1, <3>1, <3>2
      <3> QED
        BY <1>1, <1>2, <1>4, <3>1, <3>3, Zenon DEF Reversed
    <2> QED
      BY <2>1, Zenon DEF Reversed
  <1>10. ASSUME phase' = "run"
         PROVE  Ahead(root', sweepgc', dead') /\ (gcstate' = "sweep" \/ dead' = {})
    <2>1. Ahead(root, sweepgc, dead) /\ (gcstate = "sweep" \/ dead = {}) /\ dead \subseteq Elems(root)
      BY <1>1, <1>2, <1>4, <1>10, Zenon DEF UInv
    <2>2. Ahead(root', sweepgc, dead)
      BY <1>1, <1>3, <1>5, <2>1, AheadOfNew, Zenon
    <2> QED
      BY <1>2, <1>4, <2>1, <2>2, Zenon
  <1> QED
    BY <1>6, <1>7, <1>8, <1>9, <1>10, Zenon DEF UInv

\* the object after sw in the root list
LEMMA NextObject ==
  ASSUME NEW rt \in Seq(Udata), Once(rt), NEW tm, NEW sw, NEW dd, dd \subseteq Elems(rt),
         Ahead(rt, sw, dd)
  PROVE  LET curr == deref(rt, tm, sw)
         IN  /\ curr = NULL => dd = {}
             /\ curr # NULL /\ curr \notin dd => Ahead(rt, curr, dd)
  <1> DEFINE curr == deref(rt, tm, sw)
             n == Len(rt)
  <1>1. /\ n \in Nat /\ Elems(rt) \subseteq Udata
        /\ \A i \in 1..n : rt[i] \in Elems(rt) /\ Index(rt, rt[i]) = i
        /\ \A x \in Elems(rt) : Index(rt, x) \in 1..n
        /\ rt = <<>> <=> Elems(rt) = {}
    BY Places, Zenon
  <1>2. rt # <<>> => 1 \in 1..n
    OBVIOUS
  <1> HIDE DEF n
  <1>3. ROOT \notin Elems(rt) /\ MT \notin Elems(rt) /\ NULL \notin Elems(rt)
    BY <1>1, UdataAssumption, Zenon
  <1>4. CASE sw = ROOT
    <2>1. curr = MT
      BY <1>3, <1>4, UdataAssumption DEF deref
    <2> HIDE DEF curr
    <2> QED
      BY <1>3, <2>1, UdataAssumption, Zenon DEF Ahead, curr
  <1>5. CASE sw = MT
    <2>1. curr = IF rt = <<>> THEN NULL ELSE rt[1]
      BY <1>3, <1>5, UdataAssumption DEF deref
    <2> HIDE DEF curr
    <2>2. CASE rt = <<>>
      BY <1>1, <2>1, <2>2, Zenon DEF curr
    <2>3. CASE rt # <<>>
      <3>1. curr = rt[1] /\ curr \in Elems(rt) /\ Index(rt, curr) = 1
        BY <1>1, <1>2, <2>1, <2>3, Zenon
      <3>2. ASSUME NEW u \in dd, curr \notin dd
            PROVE  Index(rt, curr) < Index(rt, u)
        <4>1. Index(rt, u) \in 1..n /\ Index(rt, u) # 1
          <5>1. u \in Elems(rt) /\ u # curr
            BY <3>2, Zenon
          <5>2. rt[Index(rt, u)] = u
            BY <5>1, Places, Zenon
          <5> QED
            BY <1>1, <3>1, <5>1, <5>2, Zenon
        <4> QED
          BY <1>1, <3>1, <4>1
      <3> QED
        BY <1>3, <3>1, <3>2, Zenon DEF Ahead, curr
    <2> QED
      BY <2>2, <2>3, Zenon DEF curr
  <1>6. CASE sw \in Elems(rt)
    <2> DEFINE k == Index(rt, sw)
    <2>1. curr = IF k = n THEN NULL ELSE rt[k + 1]
      BY <1>3, <1>6, Zenon DEF deref, n
    <2>2. k \in 1..n /\ \A u \in dd : k < Index(rt, u) /\ Index(rt, u) \in 1..n
      BY <1>1, <1>6, Zenon DEF Ahead
    <2> HIDE DEF curr, k
    <2>3. CASE k = n
      <3>1. curr = NULL
        BY <2>1, <2>3, Zenon
      <3>2. ASSUME NEW u \in dd
            PROVE  FALSE
        BY <1>1, <2>2, <2>3
      <3> QED
        BY <3>1, <3>2, Zenon DEF curr
    <2>4. CASE k # n
      <3>1. k + 1 \in 1..n
        BY <1>1, <2>2, <2>4
      <3>2. curr = rt[k + 1] /\ curr \in Elems(rt) /\ Index(rt, curr) = k + 1
        BY <1>1, <2>1, <2>4, <3>1, Zenon
      <3>3. ASSUME NEW u \in dd, curr \notin dd
            PROVE  Index(rt, curr) < Index(rt, u)
        <4>1. Index(rt, u) # k + 1
          <5>1. u \in Elems(rt) /\ u # curr
            BY <3>3, Zenon
          <5>2. rt[Index(rt, u)] = u
            BY <5>1, Places, Zenon
          <5> QED
            BY <3>2, <5>1, <5>2, Zenon
        <4> QED
          BY <1>1, <2>2, <3>2, <4>1
      <3> QED
        BY <1>3, <3>2, <3>3, Zenon DEF Ahead, curr
    <2> QED
      BY <2>3, <2>4, Zenon
  <1> QED
    BY <1>4, <1>5, <1>6, Zenon DEF Ahead

\* the sweep frees a dead udata
LEMMA FreeInv ==
  ASSUME UInv, Sweep, deref(root, tmudata, sweepgc) \in dead
  PROVE  /\ TypeInv' /\ Partition' /\ Marks' /\ Pending' /\ Reversed(root, finalized, created)'
         /\ phase = "run" => Ahead(root, sweepgc, dead)'
  <1> DEFINE c == deref(root, tmudata, sweepgc)
  <1>1. /\ root \in Seq(Udata) /\ tmudata \in Seq(Udata) /\ created \in Seq(Udata)
        /\ Once(root) /\ Once(tmudata) /\ Once(created)
        /\ Elems(root) \cap Elems(tmudata) = {}
        /\ Elems(root) \cup Elems(tmudata) = Elems(created)
        /\ Elems(tmudata) \subseteq finalized /\ dead \subseteq Elems(root) \cap finalized
        /\ Reversed(root, finalized, created) /\ Pending /\ c \in dead
    BY Zenon DEF UInv, TypeInv, Partition, Marks
  <1>2. /\ root' = Without(root, c) /\ tmudata' = Without(tmudata, c)
        /\ created' = Without(created, c) /\ dead' = dead \ {c} /\ finalized' = finalized \ {c}
        /\ UNCHANGED <<sweepgc, phase, infin, due>> /\ (phase = "run" \/ infin)
        /\ gcstate = "sweep"
    BY Zenon DEF Sweep, CollectorRuns
  <1>3. gcstate' \in {"pause", "sweep", "finalize"}
    BY <1>2, Zenon DEF Sweep
  <1> HIDE DEF c
  <1>4. /\ root' \in Seq(Udata) /\ Once(root') /\ Elems(root') = Elems(root) \ {c}
        /\ \A y, z \in Elems(root') : Index(root', y) < Index(root', z) => Index(root, y) < Index(root, z)
        /\ \A y, z \in Elems(root') : Index(root, y) < Index(root, z) => Index(root', y) < Index(root', z)
    BY <1>1, <1>2, Unlinked, Zenon
  <1>5. tmudata' \in Seq(Udata) /\ Once(tmudata') /\ Elems(tmudata') = Elems(tmudata) \ {c}
    BY <1>1, <1>2, Unlinked, Zenon
  <1>6. /\ created' \in Seq(Udata) /\ Once(created') /\ Elems(created') = Elems(created) \ {c}
        /\ \A y, z \in Elems(created') :
             Index(created, y) < Index(created, z) => Index(created', y) < Index(created', z)
    BY <1>1, <1>2, Unlinked, Zenon
  <1>7. TypeInv'
    BY <1>2, <1>3, <1>4, <1>5, <1>6, Zenon DEF UInv, TypeInv
  <1>8. Partition'
    BY <1>1, <1>4, <1>5, <1>6, Zenon DEF Partition
  <1>9. Marks'
    BY <1>1, <1>2, <1>4, <1>5, Zenon DEF Marks
  <1>10. Pending'
    <2>1. Elems(tmudata') = Elems(tmudata)
      BY <1>1, <1>5, Zenon
    <2>2. phase' # "closed"
      BY <1>1, <1>2 DEF Pending
    <2> QED
      BY <1>1, <1>2, <2>1, <2>2, Zenon DEF Pending
  <1>11. Reversed(root', finalized', created')
    <2>1. ASSUME NEW u \in Elems(root') \ finalized', NEW v \in Elems(root') \ finalized',
                 Index(root', u) < Index(root', v)
          PROVE  Index(created', v) < Index(created', u)
      <3>1. /\ u \in Elems(root) \ finalized /\ v \in Elems(root) \ finalized
            /\ u \in Elems(created') /\ v \in Elems(created')
        BY <1>1, <1>2, <1>4, <1>6, Zenon
      <3>2. Index(root, u) < Index(root, v)
        BY <1>4, <2>1, Zenon
      <3>3. Index(created, v) < Index(created, u)
        BY <1>1, <3>1, <3>2, Zenon DEF Reversed
      <3> QED
        BY <1>6, <3>1, <3>3, Zenon
    <2> QED
      BY <2>1, Zenon DEF Reversed
  <1>12. ASSUME phase = "run"
         PROVE  Ahead(root', sweepgc', dead')
    <2>1. Ahead(root, sweepgc, dead)
      BY <1>12, Zenon DEF UInv
    <2>2. sweepgc # c
      <3>1. SUFFICES ASSUME sweepgc = c PROVE FALSE
        OBVIOUS
      <3>2. Index(root, c) < Index(root, c)
        BY <1>1, <2>1, <3>1, Zenon DEF Ahead
      <3>3. Len(root) \in Nat /\ Index(root, c) \in 1..Len(root)
        BY <1>1, Places, Zenon
      <3> QED
        BY <3>2, <3>3
    <2> QED
      BY <1>1, <1>2, <1>4, <2>1, <2>2, Zenon DEF Ahead
  <1> QED
    BY <1>7, <1>8, <1>9, <1>10, <1>11, <1>12, Zenon

\* sweeplist
LEMMA SweepInv ==
  ASSUME UInv, Sweep
  PROVE  UInv'
  <1> DEFINE c == deref(root, tmudata, sweepgc)
  <1>1. /\ phase' = phase /\ gcstate = "sweep"
        /\ gcstate' = IF deref(root', tmudata', sweepgc') = NULL THEN "finalize" ELSE gcstate
    BY Zenon DEF Sweep
  <1>2. /\ TypeInv' /\ Partition' /\ Marks' /\ Pending' /\ Reversed(root, finalized, created)'
        /\ phase = "run" => Ahead(root, sweepgc, dead)'
    <2>1. CASE c \in dead
      BY <2>1, FreeInv, Zenon
    <2>2. CASE c \notin dead
      <3>1. /\ sweepgc' = IF c = NULL THEN sweepgc ELSE c
            /\ UNCHANGED <<root, tmudata, created, dead, finalized, infin, due>>
        BY <2>2, Zenon DEF Sweep, advance
      <3>2. gcstate' \in {"pause", "sweep", "finalize"}
        BY <1>1, Zenon
      <3>3. TypeInv' /\ Partition' /\ Marks' /\ Pending' /\ Reversed(root, finalized, created)'
        BY <1>1, <3>1, <3>2, Zenon DEF UInv, TypeInv, Partition, Marks, Pending, Reversed
      <3>4. ASSUME phase = "run"
            PROVE  Ahead(root', sweepgc', dead')
        <4>1. /\ Ahead(root, sweepgc, dead) /\ root \in Seq(Udata) /\ Once(root)
              /\ dead \subseteq Elems(root)
          BY <3>4, Zenon DEF UInv, TypeInv, Partition, Marks
        <4>2. c # NULL /\ c \notin dead => Ahead(root, c, dead)
          BY <4>1, NextObject, Zenon
        <4> QED
          BY <2>2, <3>1, <4>1, <4>2, Zenon
      <3> QED
        BY <3>3, <3>4, Zenon
    <2> QED
      BY <2>1, <2>2, Zenon
  <1>3. ASSUME phase' = "run"
        PROVE  gcstate' = "sweep" \/ dead' = {}
    <2>1. /\ Ahead(root', sweepgc', dead') /\ root' \in Seq(Udata) /\ Once(root')
          /\ dead' \subseteq Elems(root')
      BY <1>1, <1>2, <1>3, Zenon DEF TypeInv, Partition, Marks
    <2>2. deref(root', tmudata', sweepgc') = NULL => dead' = {}
      BY <2>1, NextObject, Zenon
    <2> QED
      BY <1>1, <2>2, Zenon
  <1> QED
    BY <1>1, <1>2, <1>3, Zenon DEF UInv

\* close_state frees everything
LEMMA CloseStateInv ==
  ASSUME UInv, CloseState
  PROVE  UInv'
  <1>1. /\ root' = <<>> /\ tmudata' = <<>> /\ created' = <<>> /\ dead' = {}
        /\ phase' = "closed" /\ tmudata = <<>> /\ phase = "close" /\ ~infin
        /\ UNCHANGED <<gcstate, infin, due>>
    BY Zenon DEF CloseState, allfinalized
  <1>2. <<>> \in Seq(Udata) /\ Elems(<<>>) = {} /\ Once(<<>>)
    BY DEF Elems, Once
  <1>3. TypeInv'
    BY <1>1, <1>2, Zenon DEF UInv, TypeInv
  <1>4. Partition' /\ Marks' /\ Reversed(root, finalized, created)'
    BY <1>1, <1>2, Zenon DEF Partition, Marks, Reversed
  <1>5. Pending' /\ phase' # "run"
    BY <1>1, Zenon DEF UInv, Pending
  <1> QED
    BY <1>3, <1>4, <1>5, Zenon DEF UInv

LEMMA InitInv == Init => UInv
  <1> SUFFICES ASSUME Init PROVE UInv
    OBVIOUS
  <1>1. /\ root = <<>> /\ tmudata = <<>> /\ created = <<>> /\ dead = {} /\ sweepgc = ROOT
        /\ phase = "run" /\ gcstate = "pause" /\ infin = FALSE
    BY Zenon DEF Init
  <1>2. <<>> \in Seq(Udata) /\ Elems(<<>>) = {} /\ Once(<<>>)
    BY DEF Elems, Once
  <1>3. TypeInv /\ Pending
    BY <1>1, <1>2 DEF TypeInv, Pending
  <1>4. Partition /\ Marks /\ Reversed(root, finalized, created)
    BY <1>1, <1>2, Zenon DEF Partition, Marks, Reversed
  <1>5. Ahead(root, sweepgc, dead)
    BY <1>1, Zenon DEF Ahead
  <1> QED
    BY <1>1, <1>3, <1>4, <1>5, Zenon DEF UInv

\* every step preserves the invariant
LEMMA NextInv ==
  ASSUME UInv, [Next]_vars
  PROVE  UInv'
  <1>0. gcstate \in {"pause", "sweep", "finalize"} /\ infin \in BOOLEAN
    BY Zenon DEF UInv, TypeInv
  <1>1. ASSUME NEW u \in Udata, NewUdata(u)
        PROVE  UInv'
    BY <1>1, NewUdataInv, Zenon
  <1>2. ASSUME NEW u \in Udata, SetMetatable(u)
        PROVE  UInv'
    BY <1>0, <1>2, Still, Zenon DEF SetMetatable, UInv
  <1>3. CASE Mark
    BY <1>3, MarkInv, Zenon
  <1>4. CASE Sweep
    BY <1>4, SweepInv, Zenon
  <1>5. CASE Finalize
    <2>1. gctm /\ gcstate' = gcstate /\ infin' = infin
      BY <1>5, Zenon DEF Finalize
    <2> QED
      BY <1>0, <2>1, GctmInv, Zenon DEF UInv, Pending
  <1>6. CASE EndCycle
    <2>1. /\ gcstate = "finalize" /\ gcstate' = "pause" /\ infin' = infin /\ sweepgc' = sweepgc
          /\ UNCHANGED <<root, tmudata, created, finalized, dead, due, phase>>
      BY <1>6, Zenon DEF EndCycle
    <2>2. phase = "run" => dead = {}
      BY <2>1 DEF UInv
    <2> QED
      BY <1>0, <2>1, <2>2, Still, Zenon
  <1>7. CASE FullGC
    <2>1. /\ infin' = infin /\ UNCHANGED <<root, tmudata, created, finalized, dead, due, phase>>
          /\ \/ gcstate' = "sweep" /\ sweepgc' = ROOT
             \/ gcstate' = gcstate /\ sweepgc' = sweepgc
      BY <1>7, Zenon DEF FullGC, sweepstart
    <2> QED
      BY <1>0, <2>1, Still, Zenon DEF UInv
  <1>8. CASE FullGCFails
    BY <1>0, <1>8, Still, Zenon DEF FullGCFails, UInv
  <1>9. CASE Close
    BY <1>9, CloseInv, Zenon
  <1>10. CASE CloseGCTM
    <2>1. gctm /\ gcstate' = gcstate /\ phase = "close" /\ infin' = (Head(tmudata) \in hasgc)
      BY <1>10, Zenon DEF CloseGCTM
    <2>2. infin' \in BOOLEAN
      BY <2>1
    <2> QED
      BY <2>1, <2>2, GctmInv, Zenon
  <1>11. CASE CloseFinalizerEnds
    BY <1>0, <1>11, Still, Zenon DEF CloseFinalizerEnds, UInv
  <1>12. CASE CloseState
    BY <1>12, CloseStateInv, Zenon
  <1>13. CASE UNCHANGED vars
    BY <1>0, <1>13, Still, Zenon DEF vars, UInv
  <1> QED
    BY <1>1, <1>2, <1>3, <1>4, <1>5, <1>6, <1>7, <1>8, <1>9, <1>10, <1>11, <1>12, <1>13, Zenon
       DEF Next, Collect

-----------------------------------------------------------------------------
(* The theorems.                                                           *)

\* The invariant: the two lists share the udata, the root list is in the reverse
\* order of creation as far as separateudata will look at it, and the sweep is in
\* the root list ahead of what is dead.
THEOREM Invariance == Spec => []UInv
<1>1. UInv /\ [Next]_vars => UInv'
  BY NextInv, Zenon
<1> QED BY <1>1, InitInv, PTL DEF Spec

\* Every udata is in exactly one of the two lists, once, however separateudata,
\* GCTM, sweeplist, gafqC_fullgc and gafq_close follow one another.
THEOREM NoneLost == Spec => []EachInOneList
<1>1. UInv => EachInOneList
  BY OnceLength, Zenon DEF UInv, TypeInv, Partition, EachInOneList
<1> QED BY <1>1, Invariance, PTL

\* While the state is open the sweep stays in the root list and has what is dead
\* ahead of it.
THEOREM SweepStaysInList == Spec => []SweepsRootList
<1>1. UInv => SweepsRootList
  <2> SUFFICES ASSUME UInv, phase = "run"
               PROVE  /\ sweepgc \in {ROOT, MT} \cup Elems(root)
                      /\ gcstate = "sweep" \/ dead = {}
                      /\ sweepgc \in Elems(root) =>
                           \A i \in DOMAIN root : (root[i] \in dead => i > Index(root, sweepgc))
    BY Zenon DEF SweepsRootList
  <2>1. Ahead(root, sweepgc, dead) /\ (gcstate = "sweep" \/ dead = {})
    BY Zenon DEF UInv
  <2>2. ASSUME sweepgc \in Elems(root), NEW i \in DOMAIN root, root[i] \in dead
        PROVE  i > Index(root, sweepgc)
    <3>1. root \in Seq(Udata) /\ Once(root)
      BY Zenon DEF UInv, TypeInv, Partition
    <3>2. /\ Len(root) \in Nat /\ DOMAIN root = 1..Len(root)
          /\ \A j \in 1..Len(root) : Index(root, root[j]) = j
          /\ Index(root, sweepgc) \in 1..Len(root)
      BY <2>2, <3>1, Places, Zenon
    <3>3. Index(root, sweepgc) < Index(root, root[i])
      BY <2>1, <2>2, Zenon DEF Ahead
    <3> QED BY <3>2, <3>3
  <2> QED BY <2>1, <2>2, Zenon DEF Ahead
<1> QED BY <1>1, Invariance, PTL

\* gafq_close ends only when all udata that had a pending finalizer have been
\* through GCTM.
THEOREM AllFinalized == Spec => []CloseFinalizesAll
<1>1. UInv => CloseFinalizesAll
  <2> SUFFICES ASSUME UInv, phase = "closed"
               PROVE  due = {}
    BY Zenon DEF CloseFinalizesAll
  <2>1. tmudata \in Seq(Udata) /\ tmudata = <<>> /\ due \subseteq Elems(tmudata)
    BY DEF UInv, TypeInv, Pending
  <2> QED BY <2>1, Places, Zenon
<1> QED BY <1>1, Invariance, PTL

\* only separateudata makes tmudata longer
LEMMA OthersShorten ==
  ASSUME UInv, [Next]_vars, ~Mark, ~Close
  PROVE  Len(tmudata) \in Nat /\ Len(tmudata') \in Nat /\ Len(tmudata') <= Len(tmudata)
  <1>1. tmudata \in Seq(Udata) /\ Once(tmudata) /\ Len(tmudata) \in Nat
    BY Places, Zenon DEF UInv, TypeInv, Partition
  <1>2. CASE tmudata' = tmudata
    BY <1>1, <1>2
  <1>3. CASE gctm
    BY <1>1, <1>3 DEF gctm
  <1>4. CASE Sweep
    <2>1. tmudata' \in {tmudata, Without(tmudata, deref(root, tmudata, sweepgc))}
      BY <1>4, Zenon DEF Sweep
    <2>2. /\ Without(tmudata, deref(root, tmudata, sweepgc)) \in Seq(Udata)
          /\ Len(Without(tmudata, deref(root, tmudata, sweepgc))) <= Len(tmudata)
      BY <1>1, Unlinked, Zenon
    <2> QED BY <1>1, <2>1, <2>2
  <1>5. CASE CloseState
    BY <1>1, <1>5 DEF CloseState
  <1> QED
    BY <1>2, <1>3, <1>4, <1>5, Zenon DEF Next, Collect, vars, NewUdata, SetMetatable, Finalize,
       EndCycle, FullGC, FullGCFails, CloseGCTM, CloseFinalizerEnds

\* The udata that one separateudata adds to tmudata wait there in the reverse
\* order of their creation, in which GCTM takes them.
THEOREM FinalizedNewestFirst == Spec => NewestFirst
<1>1. ASSUME UInv, [Next]_vars
      PROVE  \A i, j \in Len(tmudata) + 1 .. Len(tmudata') :
               i < j => Index(created, tmudata'[i]) > Index(created, tmudata'[j])
  <2>1. CASE Mark
    <3>1. PICK D \in SUBSET Elems(root) : separateudata(D) /\ created' = created
      BY <2>1, Zenon DEF Mark
    <3> QED BY <1>1, <3>1, Separates, Zenon
  <2>2. CASE Close
    <3>1. separateudata(Elems(root)) /\ created' = created
      BY <2>2, Zenon DEF Close
    <3> QED BY <1>1, <3>1, Separates, Zenon
  <2>3. CASE ~Mark /\ ~Close
    <3>1. Len(tmudata) \in Nat /\ Len(tmudata') \in Nat /\ Len(tmudata') <= Len(tmudata)
      BY <1>1, <2>3, OthersShorten, Zenon
    <3>2. Len(tmudata) + 1 .. Len(tmudata') = {}
      BY <3>1
    <3> QED BY <3>2, Zenon
  <2> QED BY <2>1, <2>2, <2>3, Zenon
<1>2. UInv /\ [Next]_vars =>
        [\A i, j \in Len(tmudata) + 1 .. Len(tmudata') :
           i < j => Index(created, tmudata'[i]) > Index(created, tmudata'[j])]_vars
  BY <1>1, Zenon
<1> QED BY <1>2, Invariance, PTL DEF Spec, NewestFirst
==============================================================================
