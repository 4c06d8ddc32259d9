--------------------------- MODULE GafqStringProofs ---------------------------
(***************************************************************************)
(* The string table for every set of strings, hash function and pair of    *)
(* size limits: strings are interned, the collector frees none that the    *)
(* program has, and it leaves no dead one behind.                          *)
(***************************************************************************)
EXTENDS GafqString, FiniteSetTheorems, TLAPS

\* every string is in the bucket of its hash value
Placed == \A i \in Bucket : \A o \in hash[i] : bucketof(str[o], size) = i

\* no bucket has two strings with the same content
Unique == \A i \in Bucket : \A o, p \in hash[i] : str[o] = str[p] => o = p

\* during the sweep, what the program has and what has been swept is not dead
SweepInv ==
  gcstate = "sweepstring" =>
    /\ sweepstrgc \in Bucket
    /\ \A o \in held : ~dead(o)
    /\ \A i \in Bucket : i < sweepstrgc => \A o \in hash[i] : ~dead(o)

IInv == TypeOK /\ Placed /\ Unique /\ HeldFound /\ NuseExact /\ SweptAll /\ SweepInv

LEMMA BucketInRange ==
  ASSUME NEW c \in Content, NEW sz \in Nat \ {0}
  PROVE  bucketof(c, sz) \in 0 .. sz - 1
  BY StringAssumption DEF bucketof

LEMMA InitIInv == Init => IInv
  <1> SUFFICES ASSUME Init PROVE IInv
    OBVIOUS
  <1> USE StringAssumption DEF Init, Bucket, alloc, dead, otherwhite
  <1>1. TypeOK
    BY DEF TypeOK
  <1>2. Placed /\ Unique /\ HeldFound /\ SweptAll /\ SweepInv
    BY DEF Placed, Unique, HeldFound, SweptAll, SweepInv
  <1>3. NuseExact
    <2>1. alloc = {}
      OBVIOUS
    <2> QED BY <2>1, FS_EmptySet DEF NuseExact
  <1> QED BY <1>1, <1>2, <1>3 DEF IInv

\* the strings of the table can be counted
LEMMA AllocFinite == IsFiniteSet(alloc) /\ Cardinality(alloc) \in Nat
  <1>1. alloc \subseteq String
    BY DEF alloc
  <1> QED BY <1>1, FS_Subset, FS_CardinalityType, StringAssumption

\* a step that leaves the table alone leaves the count right
LEMMA CountUnchanged ==
  ASSUME NuseExact, UNCHANGED <<hash, size, nuse>>
  PROVE  NuseExact'
  <1>1. alloc' = alloc
    BY DEF alloc, Bucket
  <1> QED BY <1>1 DEF NuseExact

\* gafqS_resize, when it does anything, puts every string of h into the bucket
\* of its hash value, and no other
LEMMA ResizeKeeps ==
  ASSUME NEW h \in [Bucket -> SUBSET String], NEW newsize \in Nat \ {0},
         NEW wanted \in BOOLEAN, size \in Nat \ {0},
         \A i \in Bucket : \A o \in h[i] : bucketof(str[o], size) = i,
         \A i \in Bucket : \A o, p \in h[i] : str[o] = str[p] => o = p,
         resize(h, newsize, wanted)
  PROVE  /\ size' \in Nat \ {0} /\ hash' \in [Bucket' -> SUBSET String]
         /\ Placed' /\ Unique'
         /\ \A i \in Bucket : \A o \in h[i] : o \in hash'[bucketof(str[o], size')]
         /\ \A i \in Bucket' : \A o \in hash'[i] : \E j \in Bucket : o \in h[j]
         /\ gcstate = "sweepstring" => hash' = h /\ size' = size
  <1>1. CASE ~(wanted /\ gcstate # "sweepstring")
    <2>1. hash' = h /\ size' = size
      BY <1>1 DEF resize
    <2> QED BY <2>1, StringAssumption DEF Placed, Unique, Bucket, bucketof
  <1>2. CASE wanted /\ gcstate # "sweepstring"
    <2>1. size' = newsize /\ hash' = rehash(h, size, newsize)
      BY <1>2 DEF resize
    <2>2. \A i \in 0 .. newsize - 1 :
             hash'[i] = {o \in String : bucketof(str[o], newsize) = i
                                        /\ \E j \in 0 .. size - 1 : o \in h[j]}
      BY <2>1 DEF rehash
    <2>3. hash' \in [Bucket' -> SUBSET String]
      BY <2>1 DEF rehash, Bucket
    <2>4. Placed'
      BY <2>1, <2>2 DEF Placed, Bucket, bucketof
    <2>5. ASSUME NEW i \in Bucket, NEW o \in h[i]
          PROVE  o \in hash'[bucketof(str[o], newsize)]
      <3>1. o \in String /\ str[o] \in Content
        BY StringAssumption
      <3>2. bucketof(str[o], newsize) \in 0 .. newsize - 1
        BY <3>1, BucketInRange
      <3> QED BY <2>2, <3>1, <3>2 DEF Bucket
    <2>6. \A i \in Bucket' : \A o \in hash'[i] : \E j \in Bucket : o \in h[j]
      BY <2>1, <2>2 DEF Bucket
    <2>7. Unique'
      <3> SUFFICES ASSUME NEW i \in Bucket', NEW o \in hash'[i], NEW p \in hash'[i],
                          str[o] = str[p]
                   PROVE  o = p
        BY DEF Unique
      <3>1. PICK j \in Bucket : o \in h[j]
        BY <2>6
      <3>2. PICK k \in Bucket : p \in h[k]
        BY <2>6
      <3>3. j = k
        BY <3>1, <3>2
      <3> QED BY <3>1, <3>2, <3>3
    <2> QED BY <1>2, <2>1, <2>3, <2>4, <2>5, <2>6, <2>7
  <1> QED BY <1>1, <1>2

\* searching the bucket finds a string of the table by its content
LEMMA LookupFinds ==
  ASSUME IInv, NEW c \in Content
  PROVE  /\ bucketof(c, size) \in Bucket
         /\ \A i \in Bucket : \A o \in hash[i] : str[o] = c => o \in lookup(c)
  BY BucketInRange DEF IInv, TypeOK, Placed, Bucket, lookup

-----------------------------------------------------------------------------
(* The steps preserve the invariant, action by action.                     *)

LEMMA FindStep ==
  ASSUME IInv, NEW c \in Content, Find(c)
  PROVE  IInv'
  <1>1. PICK o \in lookup(c) :
           /\ marked' = [marked EXCEPT ![o] = revived(o)]
           /\ held' = held \cup {o}
           /\ UNCHANGED <<hash, size, nuse, currentwhite, gcstate, sweepstrgc, full>>
    BY DEF Find
  <1>2. o \in String /\ o \in hash[bucketof(c, size)] /\ str[o] = c
        /\ bucketof(c, size) \in Bucket
    BY LookupFinds DEF lookup, IInv, TypeOK
  <1> USE DEF IInv
  <1>3. marked' \in [String -> {0, 1, 2}] /\ ~dead(o)'
        /\ \A p \in String : ~dead(p) => ~dead(p)'
    BY <1>1, <1>2 DEF TypeOK, revived, dead, otherwhite
  <1>4. TypeOK'
    BY <1>1, <1>2, <1>3 DEF TypeOK, Bucket
  <1>5. Placed' /\ Unique'
    BY <1>1 DEF Placed, Unique, Bucket, bucketof
  <1>6. HeldFound'
    BY <1>1, <1>2 DEF HeldFound, bucketof
  <1>7. SweptAll'
    BY <1>1, <1>3 DEF SweptAll, alloc, Bucket
  <1>8. SweepInv'
    BY <1>1, <1>3 DEF SweepInv, Bucket, TypeOK
  <1>9. NuseExact'
    BY <1>1, CountUnchanged
  <1> QED BY <1>4, <1>5, <1>6, <1>7, <1>8, <1>9

LEMMA NewStringStep ==
  ASSUME IInv, NEW c \in Content, NewString(c)
  PROVE  IInv'
  <1> DEFINE b == bucketof(c, size)
  <1>1. PICK o \in String \ alloc :
           /\ str[o] = c
           /\ marked' = [marked EXCEPT ![o] = currentwhite]
           /\ held' = held \cup {o}
           /\ nuse' = nuse + 1
           /\ resize([hash EXCEPT ![b] = @ \cup {o}], 2 * size, nuse + 1 > size /\ size <= MAXSIZE)
    BY DEF NewString
  <1>2. lookup(c) = {} /\ UNCHANGED <<currentwhite, gcstate, sweepstrgc, full>>
    BY DEF NewString
  <1> DEFINE h == [hash EXCEPT ![b] = @ \cup {o}]
  <1> USE DEF IInv
  <1>3. size \in Nat \ {0} /\ hash \in [Bucket -> SUBSET String] /\ b \in Bucket
    BY BucketInRange DEF TypeOK, Bucket
  <1>4. h \in [Bucket -> SUBSET String] /\ h[b] = hash[b] \cup {o}
        /\ \A i \in Bucket : i # b => h[i] = hash[i]
    BY <1>3
  <1>5. \A i \in Bucket : \A p \in h[i] : bucketof(str[p], size) = i
    BY <1>1, <1>3, <1>4 DEF Placed
  <1>6. \A i \in Bucket : \A p, q \in h[i] : str[p] = str[q] => p = q
    BY <1>1, <1>2, <1>3, <1>4 DEF Unique, lookup
  <1>7. 2 * size \in Nat \ {0} /\ (nuse + 1 > size /\ size <= MAXSIZE) \in BOOLEAN
    BY <1>3
  <1> HIDE DEF h
  <1>8. /\ size' \in Nat \ {0} /\ hash' \in [Bucket' -> SUBSET String]
        /\ Placed' /\ Unique'
        /\ \A i \in Bucket : \A p \in h[i] : p \in hash'[bucketof(str[p], size')]
        /\ \A i \in Bucket' : \A p \in hash'[i] : \E j \in Bucket : p \in h[j]
        /\ gcstate = "sweepstring" => hash' = h /\ size' = size
    BY <1>1, <1>3, <1>4, <1>5, <1>6, <1>7, ResizeKeeps DEF h
  <1>9. /\ marked' \in [String -> {0, 1, 2}] /\ ~dead(o)'
        /\ \A p \in String : ~dead(p) => ~dead(p)'
    BY <1>1, <1>2 DEF TypeOK, dead, otherwhite
  <1>10. TypeOK'
    BY <1>1, <1>2, <1>8, <1>9 DEF TypeOK
  <1>11. HeldFound'
    <2>1. ASSUME NEW p \in held PROVE \E i \in Bucket : p \in h[i]
      <3>1. p \in hash[bucketof(str[p], size)] /\ bucketof(str[p], size) \in Bucket
        BY <1>3, BucketInRange, StringAssumption DEF HeldFound, TypeOK, Bucket
      <3> QED BY <3>1, <1>4
    <2> QED BY <1>1, <1>3, <1>4, <1>8, <2>1 DEF HeldFound, bucketof
  <1>12. \A p \in alloc' : p = o \/ p \in alloc
    BY <1>4, <1>8 DEF alloc
  <1>13. SweptAll'
    BY <1>2, <1>9, <1>12 DEF SweptAll, alloc
  <1>14. SweepInv'
    <2> SUFFICES ASSUME gcstate = "sweepstring" PROVE SweepInv'
      BY <1>2 DEF SweepInv
    <2>1. hash' = h /\ size' = size
      BY <1>8
    <2>2. \A i \in Bucket : i < sweepstrgc => \A p \in h[i] : ~dead(p)'
      BY <1>3, <1>4, <1>9 DEF SweepInv
    <2> QED BY <1>1, <1>2, <1>9, <2>1, <2>2 DEF SweepInv, Bucket, TypeOK
  <1>15. NuseExact'
    <2>1. alloc' = alloc \cup {o}
      <3>1. \A p \in alloc \cup {o} : \E i \in Bucket : p \in h[i]
        BY <1>3, <1>4 DEF alloc
      <3>2. \A p \in alloc \cup {o} : bucketof(str[p], size') \in Bucket'
        BY <1>1, <1>8, BucketInRange, StringAssumption DEF alloc, Bucket
      <3> QED BY <1>1, <1>8, <1>12, <3>1, <3>2 DEF alloc
    <2>2. o \notin alloc
      BY <1>1
    <2>3. Cardinality(alloc \cup {o}) = Cardinality(alloc) + 1
      BY <2>2, AllocFinite, FS_AddElement
    <2> QED BY <1>1, <2>1, <2>3 DEF NuseExact
  <1> QED BY <1>8, <1>10, <1>11, <1>13, <1>14, <1>15

LEMMA DropStep ==
  ASSUME IInv, NEW o \in String, Drop(o)
  PROVE  IInv'
  <1> USE DEF IInv, Drop
  <1>1. TypeOK'
    BY DEF TypeOK, Bucket
  <1>2. Placed' /\ Unique' /\ HeldFound'
    BY DEF Placed, Unique, HeldFound, Bucket, bucketof
  <1>3. SweptAll' /\ SweepInv'
    BY DEF SweptAll, SweepInv, Bucket, alloc, dead, otherwhite
  <1>9. NuseExact'
    BY CountUnchanged
  <1> QED BY <1>1, <1>2, <1>3, <1>9

LEMMA MarkStep ==
  ASSUME IInv, NEW o \in String, Mark(o)
  PROVE  IInv'
  <1> USE DEF IInv, Mark
  <1>1. TypeOK'
    BY DEF TypeOK, Bucket
  <1>2. Placed' /\ Unique' /\ HeldFound'
    BY DEF Placed, Unique, HeldFound, Bucket, bucketof
  <1>3. \A p \in String : ~dead(p) => ~dead(p)'
    BY DEF TypeOK, dead, otherwhite
  <1>4. SweptAll' /\ SweepInv'
    BY <1>3 DEF SweptAll, SweepInv, Bucket, alloc
  <1>9. NuseExact'
    BY CountUnchanged
  <1> QED BY <1>1, <1>2, <1>4, <1>9

LEMMA MarkRootStep ==
  ASSUME IInv, MarkRoot
  PROVE  IInv'
  <1> USE DEF IInv, MarkRoot
  <1>1. TypeOK'
    BY DEF TypeOK, Bucket
  <1>2. Placed' /\ Unique' /\ HeldFound'
    BY DEF Placed, Unique, HeldFound, Bucket, bucketof
  <1>3. SweptAll' /\ SweepInv'
    BY DEF SweptAll, SweepInv, Bucket, alloc, dead, otherwhite
  <1>9. NuseExact'
    BY CountUnchanged
  <1> QED BY <1>1, <1>2, <1>3, <1>9

\* the white flips, and only what the program has is marked
LEMMA AtomicStep ==
  ASSUME IInv, Atomic
  PROVE  IInv'
  <1> USE DEF IInv, Atomic
  <1>1. TypeOK'
    BY DEF TypeOK, Bucket, otherwhite
  <1>2. Placed' /\ Unique' /\ HeldFound'
    BY DEF Placed, Unique, HeldFound, Bucket, bucketof
  <1>3. \A o \in held : ~dead(o)'
    BY <1>1 DEF TypeOK, dead, otherwhite
  <1>4. SweptAll' /\ SweepInv'
    BY <1>3 DEF SweptAll, SweepInv, Bucket, TypeOK
  <1>9. NuseExact'
    BY CountUnchanged
  <1> QED BY <1>1, <1>2, <1>4, <1>9

LEMMA SweepStringStep ==
  ASSUME IInv, SweepString
  PROVE  IInv'
  <1> DEFINE b == hash[sweepstrgc]
             freed == {o \in b : dead(o)}
  <1> USE DEF IInv
  <1>1. /\ gcstate = "sweepstring" /\ sweepstrgc \in Bucket
        /\ hash' = [hash EXCEPT ![sweepstrgc] = b \ freed]
        /\ nuse' = nuse - Cardinality(freed)
        /\ marked' = [o \in String |-> IF o \in b \ freed THEN currentwhite ELSE marked[o]]
        /\ sweepstrgc' = sweepstrgc + 1
        /\ gcstate' = IF sweepstrgc + 1 >= size THEN "sweep" ELSE "sweepstring"
        /\ UNCHANGED <<size, currentwhite, full, held>>
    BY DEF SweepString, SweepInv, makewhite, laststring
  <1>2. /\ hash' \in [Bucket -> SUBSET String] /\ Bucket' = Bucket
        /\ hash'[sweepstrgc] = b \ freed
        /\ \A i \in Bucket : i # sweepstrgc => hash'[i] = hash[i]
        /\ \A i \in Bucket : hash'[i] \subseteq hash[i]
    BY <1>1 DEF TypeOK, Bucket
  <1>3. marked' \in [String -> {0, 1, 2}]
        /\ \A o \in String : (o \in b \ freed \/ ~dead(o)) => ~dead(o)'
    BY <1>1 DEF TypeOK, dead, otherwhite
  <1>10. nuse' = Cardinality(alloc') /\ nuse' \in Nat
    <2>1. freed \subseteq alloc /\ b \subseteq alloc
      BY <1>1 DEF TypeOK, alloc, Bucket
    <2>2. ASSUME NEW o \in freed, NEW i \in Bucket, o \in hash[i] PROVE i = sweepstrgc
      BY <1>1, <2>2 DEF Placed
    <2>3. alloc' = alloc \ freed
      BY <1>1, <1>2, <2>2 DEF alloc
    <2>4. alloc \cap freed = freed
      BY <2>1
    <2>5. IsFiniteSet(alloc \ freed)
          /\ Cardinality(alloc \ freed) = Cardinality(alloc) - Cardinality(alloc \cap freed)
      BY AllocFinite, FS_Difference
    <2>6. Cardinality(alloc \ freed) \in Nat
      BY <2>5, FS_CardinalityType
    <2> QED BY <1>1, <2>3, <2>4, <2>5, <2>6 DEF NuseExact
  <1>4. TypeOK'
    BY <1>1, <1>2, <1>3, <1>10 DEF TypeOK, Bucket
  <1>5. Placed' /\ Unique'
    BY <1>1, <1>2 DEF Placed, Unique, bucketof
  <1>6. HeldFound'
    BY <1>1, <1>2 DEF HeldFound, SweepInv, bucketof
  <1>7. \A i \in Bucket : i < sweepstrgc + 1 => \A o \in hash'[i] : ~dead(o)'
    BY <1>1, <1>2, <1>3 DEF SweepInv, TypeOK, Bucket
  <1>8. SweptAll'
    BY <1>1, <1>2, <1>7 DEF SweptAll, alloc, Bucket, TypeOK
  <1>9. SweepInv'
    BY <1>1, <1>2, <1>3, <1>7 DEF SweepInv, Bucket, TypeOK
  <1> QED BY <1>4, <1>5, <1>6, <1>8, <1>9, <1>10 DEF NuseExact

\* checkSizes may shrink the table
LEMMA EndSweepStep ==
  ASSUME IInv, EndSweep
  PROVE  IInv'
  <1> DEFINE w == nuse < size \div 4 /\ size > MINSTRTABSIZE * 2
             newsize == IF w THEN size \div 2 ELSE size
  <1> USE DEF IInv
  <1>1. /\ gcstate = "sweep" /\ gcstate' \in {"pause", "propagate"} /\ full' \in 0 .. 2
        /\ resize(hash, newsize, w)
        /\ UNCHANGED <<nuse, marked, currentwhite, sweepstrgc, held>>
    BY DEF EndSweep, resize
  <1>2. newsize \in Nat \ {0} /\ w \in BOOLEAN
    BY StringAssumption DEF TypeOK
  <1>3. size \in Nat \ {0} /\ hash \in [Bucket -> SUBSET String]
    BY DEF TypeOK
  <1> HIDE DEF newsize, w
  <1>4. /\ size' \in Nat \ {0} /\ hash' \in [Bucket' -> SUBSET String]
        /\ Placed' /\ Unique'
        /\ \A i \in Bucket : \A o \in hash[i] : o \in hash'[bucketof(str[o], size')]
        /\ \A i \in Bucket' : \A o \in hash'[i] : \E j \in Bucket : o \in hash[j]
    BY <1>1, <1>2, <1>3, ResizeKeeps DEF Placed, Unique
  <1>5. TypeOK'
    BY <1>1, <1>4 DEF TypeOK
  <1>6. alloc' = alloc
    <2>1. \A o \in alloc : bucketof(str[o], size') \in Bucket'
      BY <1>4, BucketInRange, StringAssumption DEF alloc, Bucket
    <2> QED BY <1>4, <2>1 DEF alloc
  <1>7. HeldFound'
    <2>1. \A o \in held : bucketof(str[o], size) \in Bucket
      BY <1>3, BucketInRange, StringAssumption DEF TypeOK, Bucket
    <2> QED BY <1>1, <1>4, <2>1 DEF HeldFound, bucketof
  <1>8. NuseExact'
    BY <1>1, <1>6 DEF NuseExact
  <1>9. SweptAll' /\ SweepInv'
    BY <1>1, <1>6 DEF SweptAll, SweepInv, dead, otherwhite
  <1> QED BY <1>4, <1>5, <1>7, <1>8, <1>9

\* a sweep of everything, with no white flipped: nothing is dead
LEMMA FullGCStep ==
  ASSUME IInv, FullGC
  PROVE  IInv'
  <1> USE DEF IInv, FullGC
  <1>1. TypeOK'
    BY DEF TypeOK, Bucket
  <1>2. Placed' /\ Unique' /\ HeldFound'
    BY DEF Placed, Unique, HeldFound, Bucket, bucketof
  <1>3. SweptAll'
    BY DEF SweptAll, Bucket, alloc, dead, otherwhite
  <1>4. SweepInv'
    <2>1. CASE gcstate = "sweepstring"
      BY <2>1 DEF SweepInv, Bucket, dead, otherwhite
    <2>2. CASE gcstate = "sweep"
      BY <2>2 DEF SweepInv
    <2>3. CASE gcstate \in {"pause", "propagate"}
      <3>1. \A o \in held : o \in alloc
        BY BucketInRange, StringAssumption DEF HeldFound, TypeOK, alloc, Bucket
      <3> QED BY <2>3, <3>1 DEF SweepInv, SweptAll, Bucket, dead, otherwhite, TypeOK
    <2> QED BY <2>1, <2>2, <2>3 DEF TypeOK
  <1>9. NuseExact'
    BY CountUnchanged
  <1> QED BY <1>1, <1>2, <1>3, <1>4, <1>9

LEMMA Step == IInv /\ [Next]_vars => IInv'
  <1> SUFFICES ASSUME IInv, [Next]_vars PROVE IInv'
    OBVIOUS
  <1>1. CASE UNCHANGED vars
    BY <1>1 DEF vars, IInv, TypeOK, Placed, Unique, HeldFound, NuseExact, SweptAll, SweepInv,
                Bucket, alloc, dead, otherwhite, bucketof
  <1>2. ASSUME NEW c \in Content, Find(c) \/ NewString(c) PROVE IInv'
    BY <1>2, FindStep, NewStringStep
  <1>3. ASSUME NEW o \in String, Drop(o) \/ Mark(o) PROVE IInv'
    BY <1>3, DropStep, MarkStep
  <1>4. CASE Collect
    BY <1>4, MarkRootStep, AtomicStep, SweepStringStep, EndSweepStep DEF Collect
  <1>5. CASE FullGC
    BY <1>5, FullGCStep
  <1> QED BY <1>1, <1>2, <1>3, <1>4, <1>5 DEF Next

LEMMA Invariance == Spec => []IInv
  BY InitIInv, Step, PTL DEF Spec

-----------------------------------------------------------------------------
(* TypesCorrect: the table always has the buckets its size says, and the   *)
(* counters and marks their types (gafqS_resize, newlstr, the sweep).      *)
THEOREM TypesCorrect == Spec => []TypeOK
  BY Invariance, PTL DEF IInv

(* StringsInterned: gafqS_newlstr never makes a second string object for a *)
(* content that has one in the table, dead or alive, whatever resizes and  *)
(* sweeps happen in between; this is why strings are compared by address.  *)
THEOREM StringsInterned == Spec => []Interned
  <1>1. IInv => Interned
    <2> SUFFICES ASSUME IInv, NEW o \in alloc, NEW p \in alloc, str[o] = str[p] PROVE o = p
      BY DEF Interned
    <2>1. PICK i \in Bucket : o \in hash[i]
      BY DEF alloc
    <2>2. PICK j \in Bucket : p \in hash[j]
      BY DEF alloc
    <2>3. i = j
      BY <2>1, <2>2 DEF IInv, Placed
    <2> QED BY <2>1, <2>2, <2>3 DEF IInv, Unique
  <1> QED BY <1>1, Invariance, PTL

(* HeldStringsStay: a string the program has is never freed and stays where*)
(* it is found, even if it was dead when gafqS_newlstr gave it out during  *)
(* a sweep.                                                                *)
THEOREM HeldStringsStay == Spec => []HeldFound
  BY Invariance, PTL DEF IInv

(* CountsExact: nuse, which decides when newlstr doubles the table and     *)
(* checkSizes halves it, is the number of strings in the table.            *)
THEOREM CountsExact == Spec => []NuseExact
  BY Invariance, PTL DEF IInv

(* NoneLeftDead: when the string sweep is over no dead string is left, for *)
(* any growth of the table that was asked for while it went on.            *)
THEOREM NoneLeftDead == Spec => []SweptAll
  BY Invariance, PTL DEF IInv
==============================================================================
