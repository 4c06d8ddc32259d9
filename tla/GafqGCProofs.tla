---------------------------- MODULE GafqGCProofs ----------------------------
(***************************************************************************)
(* The end of atomic, which clears the weak tables and flips the white,    *)
(* keeps the invariant of GafqGCInv; with it, the theorems about the       *)
(* collector.                                                              *)
(***************************************************************************)
EXTENDS GafqGCSteps, FiniteSetTheorems

\* a set of naturals that is not empty has a least element
LEMMA Least ==
  ASSUME NEW T, T \subseteq Nat, T # {}
  PROVE  \E x \in T : \A y \in T : ~(y < x)
<1> DEFINE R == {ss \in Nat \X Nat : ss[1] < ss[2]}
<1>1. IsWellFoundedOn(R, Nat)
  BY NatLessThanWellFounded, Zenon DEF OpToRel
<1>2. \E x \in T : \A y \in T : ~(<<y, x>> \in R)
  <2> HIDE DEF R
  <2> QED BY <1>1, WFMin, Zenon
<1>3. \A x, y \in Nat : y < x => <<y, x>> \in R
  BY Zenon
<1> HIDE DEF R
<1> QED BY <1>2, <1>3, Zenon

\* the threads that wait for a resumed one are marked: the lowest is the main
\* thread, and each has the next one in its stack
LEMMA ThreadsMarked ==
  ASSUME IInv, AtomicAt(4)
  PROVE  \A i \in 1 .. Len(co) : Marked(co[i])
<1>0. co \in Seq(Thread) /\ Len(co) \in Nat /\ co[1] = mainthread /\ \A i \in 1 .. Len(co) : co[i] \in Thread
  BY DEF IInv, TypeOK, HeapOK
<1> DEFINE T == {i \in 1 .. Len(co) : ~Marked(co[i])}
<1> SUFFICES ASSUME T # {} PROVE FALSE
  BY Zenon
<1>1. PICK x \in T : \A y \in T : ~(y < x)
  <2>1. T \subseteq Nat
    BY <1>0
  <2> QED BY <2>1, Least, Zenon
<1>2. x - 1 \in 1 .. Len(co) /\ x - 1 \in 1 .. Len(co) - 1 /\ (x - 1) + 1 = x
  BY <1>0, AllMarked
<1>3. co[x - 1] \in alloc \cap Thread /\ ~iswhite(co[x - 1])
  BY <1>0, <1>1, <1>2 DEF Marked, Obj
<1> QED BY <1>1, <1>2, <1>3, AllMarked, Zenon DEF stackrefs

\* so no reference to a dead object remains when the whites are exchanged
LEMMA ClearSafe ==
  ASSUME IInv, NEW K, ClearStep(K)
  PROVE  Safe'
<1>0. TypeOK /\ HeapOK /\ ColorsOK /\ Safe
  BY Zenon DEF IInv
<1>1. /\ \A v : Marked(v) => Lives(v)'
      /\ \A v \in K : v \in alloc => v \in Live'
      /\ \A o \in Live' : o \in alloc /\ (~iswhite(o) \/ o \in K)
  BY ClearSurvivors, Zenon
<1>2. /\ Marked(mainthread) /\ Marked(registry) /\ Marked(basemt)
      /\ \A o \in alloc : isblack(o) => \A f \in Field : Marked(ref[o][f])
      /\ \A o \in alloc \cap Thread : ~iswhite(o) => \A v \in stackrefs(o) : Marked(v)
      /\ \A u \in alloc \cap Upval : ~iswhite(u) => Marked(upvalue(u))
      /\ \A o \in alloc \ (Upval \cup String \cup Thread) : isgray(o) => o \in weak
      /\ \A t \in weak : t \in Table /\ isgray(t)
  BY AllMarked, Zenon DEF ClearStep
<1>3. /\ UNCHANGED <<alloc, stack, loc, basemt, co>> /\ K \subseteq String
      /\ \A x \in Obj \ weak : ref'[x] = ref[x]
  BY ClearHeap, Zenon DEF ClearStep
<1>4. \A i \in 1 .. Len(co') : co'[i] \in Live'
  BY <1>0, <1>1, <1>3, ThreadsMarked DEF ClearStep, TypeOK, Obj, Lives
<1>5. ASSUME NEW o \in Live', NEW f \in Field, o \in Table /\ f = "key" => ref'[o]["val"] # NIL
      PROVE  Lives(ref[o][f])'
  <2>0. o \in Obj /\ o \in alloc /\ (~iswhite(o) \/ o \in K)
    BY <1>0, <1>1, Zenon DEF TypeOK
  <2>n. Lives(NIL)' /\ NIL \notin Obj
    BY TypesDisjoint, Zenon DEF Lives
  <2>1. CASE o \in weak
    BY <1>1, <1>2, <1>5, <2>1, ClearWeak, Zenon DEF Lives
  <2>2. CASE o \notin weak
    <3>1. ref'[o] = ref[o]
      BY <1>3, <2>0, <2>2, Zenon
    <3>2. CASE o \in String
      BY <1>0, <2>0, <2>n, <3>1, <3>2, Zenon DEF HeapOK, FieldsOK, Only
    <3>3. CASE o \notin String
      <4>1. o \notin K /\ ~iswhite(o) /\ (isblack(o) \/ isgray(o))
        BY <1>0, <1>3, <2>0, <3>3, Zenon DEF TypeOK, iswhite, isblack, isgray
      <4>2. CASE isblack(o)
        BY <1>1, <1>2, <2>0, <3>1, <4>2, Zenon
      <4>3. CASE isgray(o)
        BY <1>0, <1>1, <1>2, <2>0, <2>n, <2>2, <3>1, <3>3, <4>1, <4>3 DEF ColorsOK, HeapOK,
           FieldsOK, Only, stackrefs
      <4> QED BY <4>1, <4>2, <4>3, Zenon
    <3> QED BY <3>2, <3>3, Zenon
  <2> QED BY <2>1, <2>2, Zenon
<1>6. \A th \in Live' \cap Thread : \A i \in StkId : Lives(stack[th][i])'
  BY <1>1, <1>2, <1>3, TypesDisjoint DEF stackrefs
<1> QED
  BY <1>1, <1>2, <1>3, <1>4, <1>5, <1>6, RootsAssumption, TypesDisjoint DEF Safe, Lives, Obj,
     upvalue, isopen

\* the end of atomic keeps the invariant
LEMMA ClearTableAndFlipInv ==
  ASSUME IInv, ClearTableAndFlip, UNCHANGED prog
  PROVE  IInv'
<1>0. TypeOK /\ HeapOK /\ ColorsOK /\ Safe /\ CallsOK
  BY Zenon DEF IInv
<1>1. PICK K : ClearStep(K)
  BY ClearIs, Zenon
<1>2. /\ UNCHANGED <<alloc, stack, loc, basemt, co, finalized, gray, grayagain, weak, tmudata, ctx, calls, prog>>
      /\ currentwhite' = otherwhite(currentwhite)
      /\ sweepstrgc' = alloc \cap String
      /\ sweepgc' = {o \in alloc \ (String \cup tmudata) : o \in Upval => ~isopen(o)}
      /\ gcstate' = "sweepstring" /\ atomicpc' = 0 /\ K \subseteq String /\ AtomicAt(4)
  BY <1>1, Zenon DEF ClearStep
<1>3. ref' \in [Obj -> [Field -> Value]] /\ HeapOK'
  BY <1>1, ClearHeap, Zenon
<1>4. \A x \in Obj : color'[x] = IF x \in K THEN "gray" ELSE color[x]
  BY <1>1, ClearSurvivors, Zenon
<1>5. TypeOK'
  <2>1. color' \in [Obj -> White \cup {"gray", "black"}]
    BY <1>0, <1>1, Zenon DEF ClearStep, recolor, TypeOK
  <2>2. currentwhite' \in White
    BY <1>0, <1>2, Whites, Zenon
  <2>3. sweepstrgc' \subseteq String /\ sweepgc' \subseteq Obj
    BY <1>0, <1>2, Zenon DEF TypeOK
  <2> QED BY <1>0, <1>2, <1>3, <2>1, <2>2, <2>3 DEF TypeOK
<1>6. SweepOK'
  BY <1>2, SweepsAll, Zenon DEF SweepOK, Sweeping, isopen
<1>7. ColorsOK'
  <2>1. \A o \in alloc' \ tmudata' : Pending(o)'
    BY <1>2, SweepsAll, Zenon DEF Pending, isopen
  <2>2. \A u \in tmudata : isblack(u) /\ u \in Obj /\ u \notin K
    BY <1>0, <1>2, AllMarked, TypesDisjoint, Zenon DEF TypeOK, Obj
  <2>3. \A u \in tmudata' : isblack(u)'
    BY <1>2, <1>4, <2>2, Zenon DEF isblack
  <2>4. \A o \in alloc : o \in Obj /\ (o \in K => o \notin Udata /\ o \notin Upval /\ o \notin Thread)
    BY <1>0, <1>2, TypesDisjoint, Zenon DEF TypeOK
  <2>5. \A o \in alloc' : isblack(o)' => o \notin Thread /\ (o \in Upval => ~isopen(o)')
    BY <1>0, <1>2, <1>4, <2>4, Zenon DEF ColorsOK, isblack, isopen
  <2>6. \A o \in alloc' : isgray(o)' => o \notin Udata /\ (o \in Upval => isopen(o)')
    BY <1>0, <1>2, <1>4, <2>4, Zenon DEF ColorsOK, isgray, isopen
  <2> QED BY <1>2, <2>1, <2>3, <2>5, <2>6, Zenon DEF ColorsOK
<1>8. Safe'
  BY <1>1, ClearSafe, Zenon
<1>9. MarkOK' /\ GclistExclusive'
  BY <1>2, Zenon DEF MarkOK, GclistExclusive
<1>10. CallsOK'
  BY <1>0, <1>2, CallsKeep, Zenon
<1> QED BY <1>3, <1>5, <1>6, <1>7, <1>8, <1>9, <1>10, Zenon DEF IInv

\* the recursion in Reachable defines a function, as a machine has finitely many
\* objects
LEMMA ReachableRecursion ==
  LET Step(X) == UNION {{x} \cup children(x) : x \in X} IN
  \E r : /\ Reachable = r[Cardinality(Obj)]
         /\ r = [n \in 0 .. Cardinality(Obj) |-> Roots \cup (IF n = 0 THEN {} ELSE Step(r[n - 1]))]
<1> DEFINE Step(X) == UNION {{x} \cup children(x) : x \in X}
           N == Cardinality(Obj)
           Upto(m, r) == r = [n \in 0 .. m |-> Roots \cup (IF n = 0 THEN {} ELSE Step(r[n - 1]))]
           T == {m \in 0 .. N : ~ \E r : Upto(m, r)}
<1>0. N \in Nat
  BY HeapFinite, FS_CardinalityType, Zenon
<1>1. T = {}
  <2> SUFFICES ASSUME T # {} PROVE FALSE
    BY Zenon
  <2> HIDE DEF N, Step
  <2>1. PICK m \in T : \A y \in T : ~(y < m)
    <3>1. T \subseteq Nat
      BY <1>0
    <3> HIDE DEF T
    <3> QED BY <3>1, Least, Zenon
  <2>2. m \in 0 .. N /\ m \in Nat
    BY <1>0
  <2>3. CASE m = 0
    <3> DEFINE r == [n \in 0 .. 0 |-> Roots]
    <3>1. Upto(0, r)
      OBVIOUS
    <3> HIDE DEF r
    <3> QED BY <2>3, <3>1, Zenon
  <2>4. CASE m # 0
    <3>1. m - 1 \in 0 .. N /\ m - 1 \in Nat /\ m - 1 < m
      BY <1>0, <2>2, <2>4
    <3>2. PICK p : Upto(m - 1, p)
      BY <2>1, <3>1, Zenon
    <3> DEFINE r == [n \in 0 .. m |-> IF n < m THEN p[n] ELSE Roots \cup Step(p[m - 1])]
    <3>3. \A n \in 0 .. m - 1 : p[n] = Roots \cup (IF n = 0 THEN {} ELSE Step(p[n - 1]))
      BY <3>1, <3>2, Zenon
    <3>4. \A n \in 0 .. m : r[n] = Roots \cup (IF n = 0 THEN {} ELSE Step(r[n - 1]))
      BY <2>2, <2>4, <3>3
    <3>5. r = [n \in 0 .. m |-> r[n]]
      BY Zenon
    <3> HIDE DEF r
    <3> QED BY <2>1, <3>4, <3>5
  <2> QED BY <2>3, <2>4, Zenon
<1>2. \E r : Upto(N, r)
  <2> HIDE DEF N, Upto
  <2> QED BY <1>0, <1>1
<1> DEFINE R == CHOOSE r : Upto(N, r)
<1>3. Upto(N, R)
  <2> HIDE DEF Upto, N
  <2> QED BY <1>2, Zenon
<1>4. Reachable = R[N]
  BY Zenon DEF Reachable
<1> QED BY <1>3, <1>4, Zenon

\* Reachable lies within every set with the roots that its members' references do
\* not leave
LEMMA ReachableLeast ==
  ASSUME NEW T, Roots \subseteq T, \A x \in T : children(x) \subseteq T
  PROVE  Reachable \subseteq T
<1> DEFINE Step(X) == UNION {{x} \cup children(x) : x \in X}
           N == Cardinality(Obj)
<1>0. N \in Nat
  BY HeapFinite, FS_CardinalityType, Zenon
<1>1. PICK r : Reachable = r[N] /\ r = [n \in 0 .. N |-> Roots \cup (IF n = 0 THEN {} ELSE Step(r[n - 1]))]
  BY ReachableRecursion, Zenon
<1>2. \A X : X \subseteq T => Step(X) \subseteq T
  BY Zenon
<1> HIDE DEF Step, N
<1>3. \A n \in 0 .. N : r[n] = Roots \cup (IF n = 0 THEN {} ELSE Step(r[n - 1]))
  BY <1>1, Zenon
<1> DEFINE B == {n \in 0 .. N : ~(r[n] \subseteq T)}
<1>4. B = {}
  <2> SUFFICES ASSUME B # {} PROVE FALSE
    BY Zenon
  <2>1. PICK m \in B : \A y \in B : ~(y < m)
    <3>1. B \subseteq Nat
      BY <1>0
    <3> HIDE DEF B
    <3> QED BY <3>1, Least, Zenon
  <2> QED BY <1>0, <1>2, <1>3, <2>1
<1>5. N \in 0 .. N
  BY <1>0
<1> QED BY <1>1, <1>4, <1>5, Zenon

\* ... and is such a set: n objects are reached in n steps, if they are at all
LEMMA ReachableClosed ==
  /\ Roots \subseteq Reachable /\ Reachable \subseteq Obj
  /\ \A x \in Reachable : children(x) \subseteq Reachable
<1> DEFINE Step(X) == UNION {{x} \cup children(x) : x \in X}
           N == Cardinality(Obj)
<1>0. N \in Nat
  BY HeapFinite, FS_CardinalityType, Zenon
<1>1. PICK r : Reachable = r[N] /\ r = [n \in 0 .. N |-> Roots \cup (IF n = 0 THEN {} ELSE Step(r[n - 1]))]
  BY ReachableRecursion, Zenon
<1>2. /\ \A X : X \subseteq Obj => Step(X) \subseteq Obj
      /\ \A X : X \subseteq Step(X)
      /\ \A X : Step(X) \subseteq X => \A x \in X : children(x) \subseteq X
  BY DEF children
<1>3. Roots \subseteq Obj /\ mainthread \in Roots
  BY RootsAssumption, Zenon DEF Roots, Obj
<1>4. IsFiniteSet(Obj) /\ N = Cardinality(Obj)
  BY HeapFinite, Zenon
<1> HIDE DEF Step, N
<1>5. \A n \in 0 .. N : r[n] = Roots \cup (IF n = 0 THEN {} ELSE Step(r[n - 1]))
  BY <1>1, Zenon
<1>6. Reachable \subseteq Obj
  <2>1. \A x \in Obj : children(x) \subseteq Obj
    BY Zenon DEF children
  <2> QED BY <1>3, <2>1, ReachableLeast, Zenon
<1>7. \A n \in 0 .. N : n # 0 => n - 1 \in 0 .. N /\ r[n - 1] \subseteq r[n] /\ Step(r[n - 1]) \subseteq r[n]
  <2> TAKE n \in 0 .. N
  <2>1. n # 0 => n - 1 \in 0 .. N
    BY <1>0
  <2> QED BY <1>2, <1>5, <2>1, Zenon
<1>8. \A n \in 0 .. N : r[n] \subseteq Obj
  <2> DEFINE B == {n \in 0 .. N : ~(r[n] \subseteq Obj)}
  <2> SUFFICES ASSUME B # {} PROVE FALSE
    BY Zenon
  <2>1. PICK m \in B : \A y \in B : ~(y < m)
    <3>1. B \subseteq Nat
      BY <1>0
    <3> HIDE DEF B
    <3> QED BY <3>1, Least, Zenon
  <2>2. m \in 0 .. N /\ m \in Nat /\ ~(r[m] \subseteq Obj)
    BY <1>0
  <2>3. m # 0
    BY <1>3, <1>5, <2>2, Zenon
  <2>4. m - 1 \in 0 .. N /\ m - 1 < m
    BY <1>0, <2>2, <2>3
  <2>5. r[m - 1] \subseteq Obj
    BY <2>1, <2>4, Zenon
  <2> QED BY <1>2, <1>3, <1>5, <2>2, <2>5
<1>9. \A n \in 0 .. N : IsFiniteSet(r[n]) /\ Cardinality(r[n]) \in Nat /\ Cardinality(r[n]) <= N
  BY <1>4, <1>8, FS_Subset, FS_CardinalityType, Zenon
<1>10. \A n \in 0 .. N : Roots \subseteq r[n]
  BY <1>5, Zenon
<1>11. \E n \in 0 .. N : Step(r[n]) \subseteq r[n]
  <2> SUFFICES ASSUME \A n \in 0 .. N : ~(Step(r[n]) \subseteq r[n])
               PROVE  FALSE
    BY Zenon
  <2> DEFINE B == {n \in 0 .. N : ~(Cardinality(r[n]) > n)}
  <2>1. N \in B
    BY <1>0, <1>9
  <2>2. PICK m \in B : \A y \in B : ~(y < m)
    <3>1. B \subseteq Nat /\ B # {}
      BY <1>0, <2>1
    <3> HIDE DEF B
    <3> QED BY <3>1, Least, Zenon
  <2>3. m \in 0 .. N /\ m \in Nat /\ ~(Cardinality(r[m]) > m)
    BY <1>0
  <2>4. CASE m = 0
    <3>1. r[m] # {} /\ IsFiniteSet(r[m])
      BY <1>3, <1>9, <1>10, <2>3, Zenon
    <3>2. Cardinality(r[m]) # 0
      BY <3>1, FS_EmptySet, Zenon
    <3> QED BY <1>9, <2>3, <2>4, <3>2
  <2>5. CASE m # 0
    <3>1. m - 1 \in 0 .. N /\ m - 1 < m
      BY <1>0, <2>3, <2>5
    <3>2. Cardinality(r[m - 1]) > m - 1
      BY <2>2, <3>1, Zenon
    <3>3. r[m - 1] \subseteq r[m] /\ r[m - 1] # r[m]
      BY <1>7, <2>3, <2>5, <3>1, Zenon
    <3>4. Cardinality(r[m - 1]) < Cardinality(r[m])
      <4>1. IsFiniteSet(r[m])
        BY <1>9, <2>3, Zenon
      <4>2. /\ Cardinality(r[m - 1]) <= Cardinality(r[m])
            /\ Cardinality(r[m - 1]) = Cardinality(r[m]) => r[m - 1] = r[m]
        BY <3>3, <4>1, FS_Subset, Zenon
      <4>3. Cardinality(r[m - 1]) \in Nat /\ Cardinality(r[m]) \in Nat
        BY <1>9, <2>3, <3>1, Zenon
      <4> QED BY <3>3, <4>2, <4>3
    <3>5. Cardinality(r[m - 1]) \in Nat /\ Cardinality(r[m]) \in Nat
      BY <1>9, <2>3, <3>1, Zenon
    <3> QED BY <2>3, <3>2, <3>4, <3>5
  <2> QED BY <2>4, <2>5, Zenon
<1>12. PICK k \in 0 .. N : Step(r[k]) \subseteq r[k]
  BY <1>11, Zenon
<1>13. r[N] = r[k]
  <2> DEFINE B == {n \in k .. N : r[n] # r[k]}
  <2> SUFFICES ASSUME B # {} PROVE FALSE
    BY <1>0
  <2>1. PICK m \in B : \A y \in B : ~(y < m)
    <3>1. B \subseteq Nat
      BY <1>0
    <3> HIDE DEF B
    <3> QED BY <3>1, Least, Zenon
  <2>2. m \in k .. N /\ m \in Nat /\ r[m] # r[k] /\ m # k
    BY <1>0
  <2>3. m - 1 \in k .. N /\ m - 1 < m /\ m \in 0 .. N /\ m # 0
    BY <1>0, <2>2
  <2>4. r[m - 1] = r[k]
    BY <2>1, <2>3, Zenon
  <2>5. r[m] = Roots \cup Step(r[k])
    BY <1>5, <2>3, <2>4, Zenon
  <2>6. r[k] \subseteq Step(r[k]) /\ Roots \subseteq r[k]
    BY <1>2, <1>10, Zenon
  <2> QED BY <1>12, <2>2, <2>5, <2>6, Zenon
<1>14. N \in 0 .. N
  BY <1>0
<1>15. \A x \in Reachable : children(x) \subseteq Reachable
  BY <1>1, <1>2, <1>12, <1>13, Zenon
<1> QED BY <1>1, <1>6, <1>10, <1>14, <1>15, Zenon

\* a new state satisfies the invariant
LEMMA InitInv ==
  ASSUME Init
  PROVE  IInv
<1>0. /\ mainthread \in Thread /\ registry \in Table /\ globals \in Table /\ FixedStr \subseteq String
      /\ mainthread \in Obj /\ registry \in Obj /\ globals \in Obj
      /\ NIL \notin Obj /\ NIL \in Value /\ NIL \in Data /\ globals \in Value /\ MaxNest \in Nat
  BY TypesDisjoint, RootsAssumption, ModesAssumption, Zenon DEF Obj, Value, Data
<1>1. /\ alloc \subseteq Obj /\ alloc = {mainthread, registry, globals} \cup FixedStr
      /\ \A o \in Obj : color[o] = "white0"
      /\ gcstate = "pause" /\ atomicpc = 0 /\ currentwhite = "white0"
      /\ tmudata = {} /\ sweepgc = {} /\ sweepstrgc = {} /\ basemt = NIL /\ co = <<mainthread>>
      /\ \A u \in Upval : loc[u] = NIL
      /\ \A th \in Thread : \A i \in StkId : stack[th][i] = NIL
      /\ \A u \in Udata : calls[u] = 0
  BY <1>0, Zenon DEF Init, Obj
<1>2. \A o \in Obj : \A f \in Field :
        ref[o][f] = IF o = mainthread /\ f = "env" THEN globals ELSE NIL
  BY <1>0, Zenon DEF Init, NoRefs, Field
<1>3. TypeOK
  <2>1. ref \in [Obj -> [Field -> Value]]
    <3>1. NoRefs \in [Field -> Value] /\ [NoRefs EXCEPT !["env"] = globals] \in [Field -> Value]
      BY <1>0, Zenon DEF NoRefs
    <3> QED BY <3>1, Zenon DEF Init
  <2> QED BY <1>0, <1>1, <2>1 DEF Init, TypeOK, White
<1>4. HeapOK
  BY <1>0, <1>1, <1>2, TypesDisjoint DEF FieldsOK, Only, NILor, Field, isopen, HeapOK
<1> QED
  BY <1>0, <1>1, <1>2, <1>3, <1>4, TypesDisjoint DEF IInv, SweepOK, Sweeping, MarkOK,
     GclistExclusive, CallsOK, ColorsOK, isblack, isgray, Lives, Safe, Live, isdead, otherwhite

\* every step keeps it
LEMMA NextInv ==
  ASSUME IInv, [Next]_vars
  PROVE  IInv'
<1>1. CASE Collect
  BY <1>1, MarkRootInv, PropagateMarkInv, RemarkUpvalsInv, RemarkWeakInv, RemarkGrayAgainInv,
     SeparateUdataInv, ClearTableAndFlipInv, SweepInv, GCTMInv, EndCycleInv, ContextsInv, Zenon
     DEF Collect
<1>2. CASE Mutate
  <2>0. UNCHANGED prog
    BY <1>2, Zenon DEF Mutate
  <2>1. CASE NewObject
    BY <2>0, <2>1, NewObjectInv, Zenon
  <2>2. CASE NewString
    BY <2>0, <2>2, NewStringInv, Zenon
  <2>3. CASE NewClosureOverLocal
    BY <2>0, <2>3, NewClosureOverLocalInv, Zenon
  <2>4. CASE NewClosureOverUpval
    BY <2>0, <2>4, NewClosureOverUpvalInv, Zenon
  <2>5. CASE Move
    BY <2>0, <2>5, MoveInv, Zenon
  <2>6. CASE SetTable
    BY <2>0, <2>6, SetTableInv, Zenon
  <2>7. CASE SetArray
    BY <2>0, <2>7, SetArrayInv, Zenon
  <2>8. CASE SetMetatable
    BY <2>0, <2>8, SetMetatableInv, Zenon
  <2>9. CASE SetFenv
    BY <2>0, <2>9, SetFenvInv, Zenon
  <2>10. CASE SetField
    BY <2>0, <2>10, SetFieldInv, Zenon
  <2>11. CASE SetUpval
    BY <2>0, <2>11, SetUpvalInv, Zenon
  <2>12. CASE Close
    BY <2>0, <2>12, CloseInv, Zenon
  <2>13. CASE Resume
    BY <2>0, <2>13, ResumeInv, Zenon
  <2>14. CASE Yield
    BY <2>0, <2>14, YieldInv, Zenon
  <2>15. CASE FullGC
    BY <2>0, <2>15, FullGCInv, Zenon
  <2>16. CASE FinalizerReturns \/ FinalizerFails
    BY <2>0, <2>16, ContextsInv, Zenon
  <2> QED
    BY <1>2, <2>1, <2>2, <2>3, <2>4, <2>5, <2>6, <2>7, <2>8, <2>9, <2>10, <2>11, <2>12, <2>13,
       <2>14, <2>15, <2>16, Zenon DEF Mutate
<1>3. CASE UNCHANGED vars
  BY <1>3, HeapKeep, SafeKeep, SweepKeep, ColorsKeep, MarkKeep, ListsKeep, CallsKeep, Zenon DEF
     IInv, vars, TypeOK
<1> QED BY <1>1, <1>2, <1>3, Zenon DEF Next

\* Every state of the collector, the program and the finalizers satisfies the
\* inductive invariant, whatever the objects, the weak modes and the calls of
\* gafqC_fullgc in the middle of a cycle.
THEOREM Invariance == Spec => []IInv
<1>1. Init => IInv
  BY InitInv, Zenon
<1>2. IInv /\ [Next]_vars => IInv'
  BY NextInv, Zenon
<1> QED BY <1>1, <1>2, PTL DEF Spec

\* The state of the collector has its type: the lists hold objects of the types that
\* gclist and the macros of gobject.h expect, contexts nest MaxNest deep at most.
THEOREM TypesHold == Spec => []TypeOK
<1>1. IInv => TypeOK
  BY Zenon DEF IInv
<1> QED BY <1>1, Invariance, PTL

\* the invariant rules out dangling references ...
LEMMA InvDangling ==
  ASSUME IInv
  PROVE  NoDangling
<1>0. TypeOK /\ HeapOK /\ ColorsOK /\ Safe
  BY Zenon DEF IInv
<1>1. Roots \subseteq Live
  <2>1. L \in Live
    BY Named, Zenon
  <2>2. \A u \in tmudata : u \in Live
    <3>1. currentwhite # otherwhite(currentwhite) /\ otherwhite(currentwhite) # "black"
      BY <1>0, Whites, Zenon
    <3> QED BY <1>0, <3>1, Zenon DEF HeapOK, ColorsOK, Live, isdead, isblack
  <2> QED BY <1>0, <2>1, <2>2, Zenon DEF Roots, Safe, Lives
<1>2. ASSUME NEW o \in Live, NEW v \in fetch(o), v \in Obj
      PROVE  v \in Live
  <2>1. CASE o \in Closure /\ ref[o]["val"] \in Upval
    <3>1. ref[o]["val"] \in Live /\ Lives(ref[o]["env"])
      BY <1>0, <2>1, TypesDisjoint, Zenon DEF Safe, Lives, Obj, Field
    <3>2. Lives(upvalue(ref[o]["val"]))
      BY <1>0, <2>1, <3>1, Zenon DEF Safe
    <3> QED BY <1>2, <2>1, <3>1, <3>2, Zenon DEF fetch, Lives
  <2>2. CASE ~(o \in Closure /\ ref[o]["val"] \in Upval)
    <3>1. PICK f \in Field : v = ref[o][f] /\ (f = "key" => ref[o]["val"] # NIL)
      BY <1>2, <2>2, Zenon DEF fetch
    <3> QED BY <1>0, <1>2, <3>1, Zenon DEF Safe, Lives
  <2> QED BY <2>1, <2>2, Zenon
<1>3. \A o \in Live : children(o) \subseteq Live
  BY RefsLive, Zenon DEF children
<1> QED BY <1>1, <1>2, <1>3, Zenon DEF NoDangling

\* No pointer that the program or the collector can follow leads to an object that
\* is freed or about to be: barriers, resurrected strings and upvalues, the
\* exchange of the whites and every interrupted sweep included (gafqC_step,
\* gafqC_barrierf, gafqC_barrierback, gafqC_linkupval, gafqF_close).
THEOREM NothingDangles == Spec => []NoDangling
<1>1. IInv => NoDangling
  BY InvDangling, Zenon
<1> QED BY <1>1, Invariance, PTL

\* ... and references from black to white
LEMMA InvTricolor ==
  ASSUME IInv
  PROVE  Tricolor
  BY TypesDisjoint DEF IInv, Tricolor, children, MarkOK, ColorsOK, refs, tablerefs, Field,
     upvalue, Marked

\* While the collector marks, no black object refers to a white one, but for udata
\* that wait for their finalizers (the macros gafqC_barrier, gafqC_barriert,
\* gafqC_objbarrier and gafqC_objbarriert are called wherever they are needed).
THEOREM TricolorHolds == Spec => []Tricolor
<1>1. IInv => Tricolor
  BY InvTricolor, Zenon
<1> QED BY <1>1, Invariance, PTL

\* While the collector marks, an object is on at most one of the lists gray,
\* grayagain and weak, which share its field gclist, and every gray object that
\* has such a field is on one of them, so that atomic visits it.
THEOREM ListsExclusive == Spec => []GclistExclusive
<1>1. IInv => GclistExclusive
  BY Zenon DEF IInv
<1> QED BY <1>1, Invariance, PTL

\* Between cycles and while finalizers run every object but the udata of tmudata
\* has the current white, as gafqC_barrierf and gafqC_linkupval assert: a sweep
\* leaves nothing black or gray behind for the next markroot.
THEOREM WhiteBetweenCycles == Spec => []WhiteAtRest
<1>1. IInv => WhiteAtRest
  BY NoneDead, Zenon DEF IInv, WhiteAtRest, AtRest
<1> QED BY <1>1, Invariance, PTL

\* GCTM calls the finalizer of a udata once at most, errors in it included.
THEOREM FinalizersRunOnce == Spec => []FinalizedOnce
<1>1. IInv => FinalizedOnce
  BY Zenon DEF IInv, CallsOK, FinalizedOnce
<1> QED BY <1>1, Invariance, PTL

\* A step never frees an object that the program can reach: freeobj is only called
\* by sweeplist, and by gafqF_close for an upvalue that is dead already.
FreesOnlyGarbage == [][\A o \in alloc \ alloc' : o \notin Reachable]_vars

\* what a step frees was dead
LEMMA FreesDead ==
  ASSUME IInv, [Next]_vars, NEW o \in alloc \ alloc'
  PROVE  o \notin Live
<1>1. CASE SweepString \/ Sweep
  <2>0. UNCHANGED prog
    BY <1>1, Zenon DEF Next, Collect, Mutate, vars
  <2>1. PICK S, all, freed, closed : SweepStep(S, all, freed, closed)
    BY <1>1, <2>0, SweepIs, Zenon
  <2> QED BY <2>1, SweepFacts
<1>2. CASE Close
  <2>1. \E us : alloc' = alloc \ {u \in us : isdead(u)}
    BY <1>2, Zenon DEF Close
  <2> QED BY <2>1, Zenon DEF Live
<1>3. CASE ~(SweepString \/ Sweep \/ Close)
  <2>1. alloc \subseteq alloc'
    <3>1. CASE Collect
      BY <1>3, <3>1, Zenon DEF Collect, MarkRoot, PropagateMark, RemarkUpvals, RemarkWeak,
         RemarkGrayAgain, SeparateUdata, ClearTableAndFlip, GCTM, EndCycle, FullGCMark,
         FullGCEnd, atomicmark, heap
    <3>2. CASE NewObject \/ NewString \/ NewClosureOverLocal \/ NewClosureOverUpval
      BY <3>2, Zenon DEF NewObject, NewString, NewClosureOverLocal, NewClosureOverUpval, link
    <3>3. CASE Move \/ SetTable \/ SetArray \/ SetMetatable \/ SetFenv \/ SetField \/ SetUpval
               \/ Resume \/ Yield \/ FullGC \/ FinalizerReturns \/ FinalizerFails
      BY <3>3, Zenon DEF Move, SetTable, SetArray, SetMetatable, SetFenv, SetField, SetUpval,
         setupval, Resume, Yield, FullGC, FinalizerReturns, FinalizerFails, heap
    <3>4. CASE UNCHANGED vars
      BY <3>4, Zenon DEF vars
    <3> QED BY <1>3, <3>1, <3>2, <3>3, <3>4, Zenon DEF Next, Mutate
  <2> QED BY <2>1, Zenon
<1> QED BY <1>1, <1>2, <1>3, Zenon

\* No object that can be reached from the roots is ever freed, whether a sweep
\* (sweeplist) or gafqF_close frees it.
THEOREM OnlyGarbageFreed == Spec => FreesOnlyGarbage
<1>1. IInv /\ [Next]_vars => [\A o \in alloc \ alloc' : o \notin Reachable]_vars
  BY InvDangling, ReachableLeast, FreesDead, Zenon DEF NoDangling, children
<1> QED BY <1>1, Invariance, PTL DEF Spec, FreesOnlyGarbage

\* when atomic is about to clear the weak tables all that can be reached is marked
LEMMA MarkedClosed ==
  ASSUME IInv, AtomicAt(4)
  PROVE  \A o \in Reachable : o \in alloc /\ ~iswhite(o)
<1>0. TypeOK /\ HeapOK /\ ColorsOK
  BY Zenon DEF IInv
<1> DEFINE T == {o \in alloc : ~iswhite(o)}
<1>1. /\ Marked(mainthread) /\ Marked(registry) /\ Marked(basemt)
      /\ \A u \in tmudata : isblack(u)
      /\ \A t \in weak : \A v \in tablerefs(t) : Marked(v)
      /\ \A o \in alloc : isblack(o) => \A f \in Field : Marked(ref[o][f])
      /\ \A o \in alloc \cap Thread : ~iswhite(o) => \A v \in stackrefs(o) : Marked(v)
      /\ \A u \in alloc \cap Upval : ~iswhite(u) => Marked(upvalue(u))
      /\ \A o \in alloc \ (Upval \cup String \cup Thread) : isgray(o) => o \in weak
      /\ \A t \in weak : t \in Table
  BY AllMarked, Zenon
<1>2. Marked(L)
  BY <1>0, ThreadsMarked DEF TypeOK, L
<1>3. Roots \subseteq T
  BY <1>0, <1>1, <1>2, Whites, Zenon DEF HeapOK, isblack, iswhite, Roots, Marked
<1>4. ASSUME NEW o \in T, NEW v \in refs(o), v \in Obj
      PROVE  v \in T
  BY <1>0, <1>1, <1>4, TypesDisjoint DEF Marked, TypeOK, iswhite, isblack, isgray, refs,
     tablerefs, Field, HeapOK, FieldsOK, Only
<1>5. Reachable \subseteq T
  <2> HIDE DEF T
  <2> QED BY <1>3, <1>4, ReachableLeast, Zenon DEF children
<1> QED BY <1>5, Zenon

\* the end of atomic empties an entry of a weak table only when it may
LEMMA ClearsCollected ==
  ASSUME IInv, [Next]_vars, gcstate = "propagate", gcstate' = "sweepstring", ctx' = ctx, NEW t \in Table
  PROVE  /\ \/ ref'[t]["val"] = ref[t]["val"]
            \/ \E o \in {ref[t]["key"], ref[t]["val"]} \cap Obj : o \notin Reachable
            \/ ref[t]["val"] \in finalized
         /\ \/ ref'[t]["array"] = ref[t]["array"]
            \/ ref[t]["array"] \in (Obj \ Reachable) \cup finalized
<1>1. ClearTableAndFlip /\ UNCHANGED prog
  <2>1. ~FullGC
    <3>1. ctx \in Seq({"sweep", "mark", "finalizer"}) /\ Len(ctx) \in Nat
      BY DEF IInv, TypeOK
    <3>2. Append(ctx, "sweep") # ctx
      BY <3>1
    <3> QED BY <3>2, Zenon DEF FullGC
  <2>2. ~(MarkRoot \/ PropagateMark \/ RemarkUpvals \/ RemarkWeak \/ RemarkGrayAgain \/ SeparateUdata
          \/ SweepString \/ Sweep \/ GCTM \/ EndCycle \/ FullGCMark \/ FullGCEnd)
    BY Zenon DEF MarkRoot, PropagateMark, RemarkUpvals, RemarkWeak, RemarkGrayAgain,
       SeparateUdata, SweepString, Sweep, GCTM, EndCycle, FullGCMark, FullGCEnd, atomicmark
  <2>3. ~(NewObject \/ NewString \/ NewClosureOverLocal \/ NewClosureOverUpval \/ Move \/ SetTable
          \/ SetArray \/ SetMetatable \/ SetFenv \/ SetField \/ SetUpval \/ Close \/ Resume \/ Yield
          \/ FinalizerReturns \/ FinalizerFails)
    BY Zenon DEF NewObject, NewString, NewClosureOverLocal, NewClosureOverUpval, Move, SetTable,
       SetArray, SetMetatable, SetFenv, SetField, SetUpval, setupval, Close, Resume, Yield,
       FinalizerReturns, FinalizerFails, collector
  <2>4. ~UNCHANGED vars
    BY Zenon DEF vars
  <2>5. Collect
    BY <2>1, <2>3, <2>4, Zenon DEF Next, Mutate
  <2> QED BY <2>2, <2>5, Zenon DEF Collect
<1>2. PICK K : ClearStep(K)
  BY <1>1, ClearIs, Zenon
<1>3. AtomicAt(4) /\ t \in Obj
  BY <1>2, Zenon DEF ClearStep, Obj
<1>4. \A o \in Obj : iswhite(o) => o \notin Reachable
  BY <1>3, MarkedClosed, Zenon
<1>5. t \in weak => \A f \in Field :
        ref'[t][f] = IF \/ f = "val" /\ clearnode(t)
                        \/ f = "key" /\ clearnode(t) /\ ref[t]["key"] \in Obj
                        \/ f = "array" /\ cleararray(t)
                     THEN NIL ELSE ref[t][f]
  BY <1>2, ClearHeap, Zenon
<1>6. t \notin weak => ref'[t] = ref[t]
  BY <1>2, <1>3, ClearHeap, Zenon
<1>7. ASSUME t \in weak, clearnode(t)
      PROVE  \/ \E o \in {ref[t]["key"], ref[t]["val"]} \cap Obj : o \notin Reachable
             \/ ref[t]["val"] \in finalized
  <2>1. iscleared(ref[t]["key"], TRUE) \/ iscleared(ref[t]["val"], FALSE)
    BY <1>7, Zenon DEF clearnode
  <2>2. CASE iscleared(ref[t]["key"], TRUE)
    <3>1. ref[t]["key"] \in Obj /\ iswhite(ref[t]["key"])
      BY <2>2, Zenon DEF iscleared
    <3> QED BY <1>4, <3>1, Zenon
  <2>3. CASE iscleared(ref[t]["val"], FALSE)
    <3>1. ref[t]["val"] \in Obj /\ (iswhite(ref[t]["val"]) \/ ref[t]["val"] \in finalized)
      BY <2>3, Zenon DEF iscleared
    <3> QED BY <1>4, <3>1, Zenon
  <2> QED BY <2>1, <2>2, <2>3, Zenon
<1>8. ASSUME t \in weak, cleararray(t)
      PROVE  ref[t]["array"] \in (Obj \ Reachable) \cup finalized
  BY <1>4, <1>8, Zenon DEF cleararray, iscleared
<1>9. "val" \in Field /\ "array" \in Field /\ "val" # "array" /\ "val" # "key" /\ "array" # "key"
  BY DEF Field
<1>10. t \in weak /\ ~clearnode(t) => ref'[t]["val"] = ref[t]["val"]
  BY <1>5, <1>9, Zenon
<1>11. t \in weak /\ ~cleararray(t) => ref'[t]["array"] = ref[t]["array"]
  BY <1>5, <1>9, Zenon
<1> QED BY <1>6, <1>7, <1>8, <1>10, <1>11, Zenon

\* cleartable removes an entry only when its key or its value is out of reach or
\* its value is a udata about to be finalized; what can be reached stays.
THEOREM ClearingSound == Spec => ClearsOnlyCollected
<1>1. IInv /\ [Next]_vars =>
        [gcstate = "propagate" /\ gcstate' = "sweepstring" /\ ctx' = ctx =>
          \A t \in Table :
            /\ \/ ref'[t]["val"] = ref[t]["val"]
               \/ \E o \in {ref[t]["key"], ref[t]["val"]} \cap Obj : o \notin Reachable
               \/ ref[t]["val"] \in finalized
            /\ \/ ref'[t]["array"] = ref[t]["array"]
               \/ ref[t]["array"] \in (Obj \ Reachable) \cup finalized]_vars
  BY ClearsCollected, Zenon
<1> QED BY <1>1, Invariance, PTL DEF Spec, ClearsOnlyCollected

=============================================================================
