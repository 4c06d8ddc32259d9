---------------------------- MODULE GafqGCSteps ----------------------------
(***************************************************************************)
(* Marking, the steps of atomic that mark again, the sweep and the         *)
(* finalizers keep the invariant of GafqGCInv.                             *)
(***************************************************************************)
EXTENDS GafqGCInv

\* what a live object refers to is live
LEMMA RefsLive ==
  ASSUME IInv, NEW o \in Live, NEW v \in refs(o), v \in Obj
  PROVE  v \in Live
<1>0. TypeOK /\ HeapOK /\ Safe
  BY Zenon DEF IInv
<1>1. CASE o \in Table
  <2>1. v \in tablerefs(o)
    BY <1>1, TypesDisjoint, Zenon DEF refs
  <2>2. \E f \in {"metatable", "array", "val", "key"} :
          v = ref[o][f] /\ (f = "key" => ref[o]["val"] # NIL)
    BY <2>1, Zenon DEF tablerefs
  <2> QED BY <1>0, <2>2, Zenon DEF Safe, Lives, Field
<1>2. CASE o \in Thread
  <2>1. v \in stackrefs(o) /\ o \notin Table
    BY <1>2, TypesDisjoint, Zenon DEF refs
  <2>2. CASE v = ref[o]["env"]
    BY <1>0, <2>1, <2>2, Zenon DEF Safe, Lives, Field
  <2>3. CASE v \in {stack[o][i] : i \in StkId}
    BY <1>0, <1>2, <2>3, Zenon DEF Safe, Lives
  <2>4. CASE v \in {co[i + 1] : i \in {j \in 1 .. Len(co) - 1 : co[j] = o}}
    <3>1. Len(co) \in Nat
      BY <1>0 DEF TypeOK
    <3>2. PICK i \in 1 .. Len(co) - 1 : v = co[i + 1]
      BY <2>4, Zenon
    <3> QED BY <1>0, <3>1, <3>2 DEF Safe
  <2> QED BY <2>1, <2>2, <2>3, <2>4, Zenon DEF stackrefs
<1>3. CASE o \in Upval
  BY <1>0, <1>3, TypesDisjoint, Zenon DEF refs, Safe, Lives
<1>4. CASE o \notin Table \cup Thread \cup Upval
  BY <1>0, <1>4, Zenon DEF refs, Safe, Lives
<1> QED BY <1>1, <1>2, <1>3, <1>4, Zenon

\* no reference is to a dead object as long as nothing dies and nothing is stored
LEMMA SafeLive ==
  ASSUME Safe, UNCHANGED <<ref, stack, loc, basemt, co>>, Live' = Live
  PROVE  Safe'
  BY Zenon DEF Safe, Lives, upvalue, isopen

\* a step that only marks
LEMMA MarksOnly ==
  ASSUME IInv, NEW M, Marking(M, {}),
         UNCHANGED <<alloc, ref, stack, loc, basemt, co, sweepstrgc, sweepgc>>
  PROVE  /\ HeapOK' /\ SweepOK' /\ ColorsOK' /\ Safe' /\ Live = alloc
         /\ \A v : Marked(v) \/ v \in M => Marked(v)'
         /\ \A x \in alloc \ tmudata' : isblack(x)' => \A f \in Field : Marked(ref[x][f])'
         /\ {x \in alloc \cap Traversed : isgray(x)'} =
               {x \in alloc \cap Traversed : isgray(x)} \cup (M \cap Traversed)
<1>0. TypeOK /\ HeapOK /\ SweepOK /\ ColorsOK /\ Safe /\ MarkOK
  BY Zenon DEF IInv
<1>1. /\ ColorsOK'
      /\ Live' = Live /\ Live = alloc
      /\ \A v : Marked(v) \/ v \in M => Marked(v)'
      /\ \A x \in alloc \ (tmudata' \cup {}) :
            isblack(x)' /\ ref'[x] = ref[x] => \A f \in Field : Marked(ref[x][f])'
      /\ {x \in alloc \cap Traversed : isgray(x)'} =
            ({x \in alloc \cap Traversed : isgray(x)} \ {}) \cup (M \cap Traversed)
               \cup {x \in {} : color'[x] = "gray"}
  BY <1>0, MarkingOK, Zenon
<1> QED
  BY <1>0, <1>1, SafeLive DEF Marking, HeapOK, FieldsOK, Only, isopen, AtRest, SweepOK, Sweeping

\* marking the objects S is such a step
LEMMA MarkingReached ==
  ASSUME IInv, AtRest, gcstate' = "propagate", UNCHANGED <<alloc, stack, loc, currentwhite, tmudata>>,
         NEW S, color' = recolor(reached(S))
  PROVE  /\ Marking(reached(S), {})
         /\ \A v \in S : v \in alloc /\ iswhite(v) => v \in reached(S)
         /\ S \cap Upval = {} => reached(S) \cap Upval = {}
         /\ reached(S) \subseteq alloc
<1>0. TypeOK /\ HeapOK
  BY Zenon DEF IInv
<1> DEFINE M == reached(S)
<1>1. /\ M \subseteq alloc /\ \A o \in M : iswhite(o)
      /\ \A v \in S : v \in alloc /\ iswhite(v) => v \in M
      /\ \A u \in M \cap Upval : upvalue(u) \in alloc /\ iswhite(upvalue(u)) => upvalue(u) \in M
      /\ \A u \in M \cap Udata : \A f \in Field :
            ref[u][f] \in alloc /\ iswhite(ref[u][f]) => ref[u][f] \in M
      /\ S \cap Upval = {} => M \cap Upval = {}
  BY <1>0, MarkReach, Zenon
<1> HIDE DEF M
<1> QED BY <1>0, <1>1, Zenon DEF M, TypeOK, Marking, recolor

\* markroot starts a mark phase in which the roots are marked
LEMMA MarkRootOK ==
  ASSUME IInv, markroot, gcstate \in {"pause", "finalize"},
         ctx' \in Seq({"sweep", "mark", "finalizer"}), Len(ctx') <= MaxNest,
         UNCHANGED <<heap, atomicpc, currentwhite, finalized, tmudata, sweeps, calls, prog>>
  PROVE  IInv'
<1>0. TypeOK /\ HeapOK /\ SweepOK /\ ColorsOK /\ Safe /\ MarkOK /\ GclistExclusive /\ CallsOK
  BY Zenon DEF IInv
<1> DEFINE S == {mainthread, ref[mainthread]["env"], registry, basemt}
           M == reached(S)
<1>1. /\ color' = recolor(M) /\ gray' = M \cap Traversed
      /\ grayagain' = {} /\ weak' = {} /\ gcstate' = "propagate"
  BY Zenon DEF markroot
<1>2. UNCHANGED <<alloc, ref, stack, loc, basemt, co, atomicpc, currentwhite, finalized, tmudata,
                  sweepstrgc, sweepgc, calls, prog>> /\ AtRest
  BY Zenon DEF heap, sweeps, AtRest
<1>3. mainthread \in S /\ registry \in S
  BY Zenon
<1> HIDE DEF S
<1>4. /\ Marking(M, {}) /\ \A v \in S : v \in alloc /\ iswhite(v) => v \in M
      /\ M \subseteq alloc
  BY <1>1, <1>2, MarkingReached, Zenon
<1> HIDE DEF M
<1>5. /\ HeapOK' /\ SweepOK' /\ ColorsOK' /\ Safe' /\ Live = alloc
      /\ \A v : Marked(v) \/ v \in M => Marked(v)'
      /\ \A x \in alloc \ tmudata' : isblack(x)' => \A f \in Field : Marked(ref[x][f])'
      /\ {x \in alloc \cap Traversed : isgray(x)'} =
               {x \in alloc \cap Traversed : isgray(x)} \cup (M \cap Traversed)
  BY <1>2, <1>4, MarksOnly, Zenon
<1>6. TypeOK'
  <2>1. color' \in [Obj -> White \cup {"gray", "black"}]
    BY <1>4, Zenon DEF Marking
  <2> QED BY <1>0, <1>1, <1>2, <2>1, Zenon DEF TypeOK
<1>7. MarkOK'
  <2>1. atomicpc' = 0
    BY <1>0, <1>2, Zenon DEF ColorsOK
  <2>2. mainthread \in alloc /\ registry \in alloc
    BY <1>0, <1>5, Zenon DEF Safe
  <2>3. Marked(mainthread)' /\ Marked(registry)'
    <3>1. Marked(mainthread) \/ mainthread \in M
      BY <1>3, <1>4, <2>2, Zenon DEF Marked
    <3>2. Marked(registry) \/ registry \in M
      BY <1>3, <1>4, <2>2, Zenon DEF Marked
    <3> QED BY <1>5, <3>1, <3>2, Zenon
  <2> QED BY <1>2, <1>5, <2>1, <2>3, SMTT(30), Zenon DEF MarkOK
<1>8. GclistExclusive'
  <2>1. \A x \in alloc \cap Traversed : ~isgray(x)
    <3>1. \A x \in alloc \ tmudata : color[x] = currentwhite
      BY <1>0, <1>2, NoneDead, Zenon
    <3>2. currentwhite # "gray" /\ tmudata \cap Traversed = {}
      BY <1>0, Whites, TypesDisjoint, Zenon DEF TypeOK, Traversed
    <3> QED BY <3>1, <3>2, Zenon DEF isgray
  <2> QED BY <1>1, <1>2, <1>5, <2>1, Zenon DEF GclistExclusive
<1>9. CallsOK'
  BY <1>0, <1>2, CallsKeep, Zenon
<1> QED BY <1>5, <1>6, <1>7, <1>8, <1>9, Zenon DEF IInv

\* the start of a cycle, from the pause or from gafqC_fullgc, keeps the invariant
LEMMA MarkRootInv ==
  ASSUME IInv, MarkRoot \/ FullGCMark, UNCHANGED prog
  PROVE  IInv'
<1>1. CASE MarkRoot
  BY <1>1, MarkRootOK, Zenon DEF MarkRoot, IInv, TypeOK
<1>2. CASE FullGCMark
  BY <1>2, Replaced, MarkRootOK, Zenon DEF FullGCMark, top
<1> QED BY <1>1, <1>2, Zenon

\* all an object refers to is marked once its white children are
LEMMA MarkedRefs ==
  ASSUME IInv, AtRest, NEW M, NEW o \in alloc, NEW v \in refs(o),
         \A x \in children(o) : x \in alloc /\ iswhite(x) => x \in M
  PROVE  Marked(v) \/ v \in M
  BY NoneDead, RefsLive, Zenon DEF IInv, Marked, children

\* propagatemark on the gray object o, marking M
PropagateStep(o, M) ==
  /\ UNCHANGED <<alloc, stack, loc, basemt, co, gcstate, atomicpc, currentwhite,
                 finalized, tmudata, sweepstrgc, sweepgc, ctx, calls, prog>>
  /\ gcstate = "propagate" /\ o \in gray
  /\ Marking(M, {o})
  /\ M \subseteq alloc /\ (\A x \in M : iswhite(x))
  /\ \A x \in children(o) : x \in alloc /\ iswhite(x) => x \in M
  /\ color'[o] = IF o \in Thread \/ (o \in Table /\ weakmode(o) # {}) THEN "gray" ELSE "black"
  /\ gray' = (gray \ {o}) \cup (M \cap Traversed)
  /\ grayagain' = IF o \in Thread THEN grayagain \cup {o} ELSE grayagain
  /\ weak' = IF o \in Table /\ weakmode(o) # {} THEN weak \cup {o} ELSE weak
  /\ ref' = IF o \in Table /\ weakmode(o) # {"k", "v"} /\ ref[o]["val"] = NIL /\ ref[o]["key"] \in Obj
            THEN [ref EXCEPT ![o]["key"] = NIL] ELSE ref

\* PropagateMark is such a step
LEMMA PropagateIs ==
  ASSUME IInv, PropagateMark, UNCHANGED prog
  PROVE  \E o, M : PropagateStep(o, M)
<1>0. TypeOK /\ HeapOK /\ GclistExclusive
  BY Zenon DEF IInv
<1>1. PICK o \in gray : propagatemark(o)
  BY Zenon DEF PropagateMark
<1>2. /\ gcstate = "propagate"
      /\ UNCHANGED <<alloc, stack, loc, basemt, co, gcstate, atomicpc, currentwhite,
                 finalized, tmudata, sweepstrgc, sweepgc, ctx, calls, prog>>
  BY Zenon DEF PropagateMark, sweeps
<1>3. o \in alloc /\ o \in Traversed /\ isgray(o) /\ o \in Obj
  BY <1>0, <1>2, Zenon DEF GclistExclusive, TypeOK
<1> DEFINE S == children(o)
           M == reached(S)
<1>4. /\ color' = [recolor(M) EXCEPT ![o] =
                 IF o \in Thread \/ (IF o \in Table THEN weakmode(o) ELSE {}) # {} THEN "gray" ELSE "black"]
      /\ gray' = (gray \ {o}) \cup (M \cap Traversed)
      /\ grayagain' = IF o \in Thread THEN grayagain \cup {o} ELSE grayagain
      /\ weak' = IF (IF o \in Table THEN weakmode(o) ELSE {}) # {} THEN weak \cup {o} ELSE weak
      /\ ref' = IF o \in Table /\ (IF o \in Table THEN weakmode(o) ELSE {}) # {"k", "v"}
                              /\ ref[o]["val"] = NIL /\ ref[o]["key"] \in Obj
            THEN [ref EXCEPT ![o]["key"] = NIL] ELSE ref
  BY <1>1, Zenon DEF propagatemark
<1> HIDE DEF S
<1>5. /\ M \subseteq alloc /\ \A x \in M : iswhite(x)
      /\ \A v \in S : v \in alloc /\ iswhite(v) => v \in M
      /\ \A u \in M \cap Upval : upvalue(u) \in alloc /\ iswhite(upvalue(u)) => upvalue(u) \in M
      /\ \A u \in M \cap Udata : \A f \in Field :
            ref[u][f] \in alloc /\ iswhite(ref[u][f]) => ref[u][f] \in M
  BY <1>0, MarkReach, Zenon
<1> HIDE DEF M
<1>6. /\ recolor(M) \in [Obj -> White \cup {"gray", "black"}]
      /\ color' \in [Obj -> White \cup {"gray", "black"}]
      /\ color'[o] = IF o \in Thread \/ (o \in Table /\ weakmode(o) # {}) THEN "gray" ELSE "black"
      /\ \A x \in Obj \ {o} : color'[x] = recolor(M)[x]
  <2>1. recolor(M) \in [Obj -> White \cup {"gray", "black"}]
    BY <1>0, Zenon DEF recolor, TypeOK
  <2> QED BY <1>3, <1>4, <2>1, Zenon
<1>7. Marking(M, {o})
  <2>1. tmudata \subseteq Udata /\ AtRest /\ gcstate' = "propagate"
    BY <1>0, <1>2, Zenon DEF TypeOK, AtRest
  <2> QED BY <1>2, <1>3, <1>5, <1>6, <2>1, Zenon DEF Marking
<1>8. PropagateStep(o, M)
  <2>1. weak' = IF o \in Table /\ weakmode(o) # {} THEN weak \cup {o} ELSE weak
    BY <1>4, Zenon
  <2>2. ref' = IF o \in Table /\ weakmode(o) # {"k", "v"} /\ ref[o]["val"] = NIL /\ ref[o]["key"] \in Obj
            THEN [ref EXCEPT ![o]["key"] = NIL] ELSE ref
    BY <1>4, Zenon
  <2>3. \A x \in children(o) : x \in alloc /\ iswhite(x) => x \in M
    BY <1>5, Zenon DEF S
  <2> QED BY <1>2, <1>4, <1>5, <1>6, <1>7, <2>1, <2>2, <2>3, Zenon DEF PropagateStep
<1> QED BY <1>8, Zenon

\* it changes no field, but the key of an empty node, which dies
LEMMA PropagateHeap ==
  ASSUME IInv, NEW o, NEW M, PropagateStep(o, M)
  PROVE  /\ ref' \in [Obj -> [Field -> Value]]
         /\ \A x \in Obj : \A f \in Field :
              \/ ref'[x][f] = ref[x][f]
              \/ x = o /\ o \in Table /\ f = "key" /\ ref[x]["val"] = NIL /\ ref'[x][f] = NIL
         /\ \A x \in Obj \ Table : ref'[x] = ref[x]
         /\ o \in Table /\ weakmode(o) = {} /\ ref[o]["val"] = NIL => ref'[o]["key"] \notin Obj
         /\ HeapOK' /\ \A t \in Table : tablerefs(t)' = tablerefs(t)
<1>0. TypeOK /\ HeapOK /\ SweepOK /\ ColorsOK /\ GclistExclusive
  BY Zenon DEF IInv
<1>1. /\ o \in Obj
      /\ ref' = IF o \in Table /\ weakmode(o) # {"k", "v"} /\ ref[o]["val"] = NIL /\ ref[o]["key"] \in Obj
            THEN [ref EXCEPT ![o]["key"] = NIL] ELSE ref
  BY <1>0, Zenon DEF PropagateStep, TypeOK, Traversed, Obj
<1>2. ref \in [Obj -> [Field -> Value]] /\ NIL \in Value /\ "key" \in Field
  BY <1>0, Zenon DEF TypeOK, Value, Field
<1>3. ref' \in [Obj -> [Field -> Value]]
  BY <1>1, <1>2, Zenon
<1>4. \A x \in Obj : \A f \in Field :
              \/ ref'[x][f] = ref[x][f]
              \/ x = o /\ o \in Table /\ f = "key" /\ ref[x]["val"] = NIL /\ ref'[x][f] = NIL
  BY <1>1, <1>2, Zenon
<1>5. \A x \in Obj \ Table : ref'[x] = ref[x]
  BY <1>1, <1>2, Zenon
<1>6. NIL \in Data /\ "val" \in Field /\ "metatable" \in Field /\ "array" \in Field /\ "env" \in Field /\ "p" \in Field
  BY TypesDisjoint, Zenon DEF Data, Value, Field, Obj
<1>7. \A t \in Table : tablerefs(t)' = tablerefs(t)
  BY <1>2, <1>4, <1>6 DEF tablerefs, weakmode, Obj
<1> QED
  BY <1>0, <1>1, <1>2, <1>3, <1>4, <1>5, <1>6, <1>7, TypesDisjoint DEF FieldsOK, HeapOK, Only,
     isopen, PropagateStep

\* propagatemark keeps the invariant: it blackens an object once all that it
\* refers to is marked, and leaves threads and weak tables gray
LEMMA PropagateMarkInv ==
  ASSUME IInv, PropagateMark, UNCHANGED prog
  PROVE  IInv'
<1>0. TypeOK /\ HeapOK /\ SweepOK /\ ColorsOK /\ Safe /\ MarkOK /\ GclistExclusive /\ CallsOK
  BY Zenon DEF IInv
<1>1. PICK o, M : PropagateStep(o, M)
  BY PropagateIs, Zenon
<1>2. /\ UNCHANGED <<alloc, stack, loc, basemt, co, gcstate, atomicpc, currentwhite,
                 finalized, tmudata, sweepstrgc, sweepgc, ctx, calls, prog>>
      /\ gcstate = "propagate" /\ AtRest /\ Marking(M, {o})
  BY <1>1, Zenon DEF PropagateStep, AtRest
<1>3. /\ o \in gray /\ o \in Traversed /\ o \in alloc /\ o \in Obj /\ isgray(o)
      /\ o \notin Udata \cup Upval
  BY <1>0, <1>1, <1>2, TypesDisjoint DEF PropagateStep, GclistExclusive, TypeOK, Traversed
<1>4. /\ ColorsOK'
      /\ Live' = Live /\ Live = alloc
      /\ \A v : Marked(v) \/ v \in M => Marked(v)'
      /\ \A x \in alloc \ (tmudata' \cup {o}) :
               isblack(x)' /\ ref'[x] = ref[x] => \A f \in Field : Marked(ref[x][f])'
      /\ {x \in alloc \cap Traversed : isgray(x)'} =
               ({x \in alloc \cap Traversed : isgray(x)} \ {o}) \cup (M \cap Traversed)
                  \cup {x \in {o} : color'[x] = "gray"}
  BY <1>0, <1>2, MarkingOK, Zenon
<1>5. /\ ref' \in [Obj -> [Field -> Value]]
      /\ \A x \in Obj : \A f \in Field :
              \/ ref'[x][f] = ref[x][f]
              \/ x = o /\ o \in Table /\ f = "key" /\ ref[x]["val"] = NIL /\ ref'[x][f] = NIL
      /\ \A x \in Obj \ Table : ref'[x] = ref[x]
      /\ o \in Table /\ weakmode(o) = {} /\ ref[o]["val"] = NIL => ref'[o]["key"] \notin Obj
      /\ HeapOK' /\ \A t \in Table : tablerefs(t)' = tablerefs(t)
  BY <1>1, PropagateHeap, Zenon
<1>6. /\ M \subseteq alloc /\ (\A x \in M : iswhite(x))
      /\ \A x \in children(o) : x \in alloc /\ iswhite(x) => x \in M
      /\ color'[o] = IF o \in Thread \/ (o \in Table /\ weakmode(o) # {}) THEN "gray" ELSE "black"
      /\ gray' = (gray \ {o}) \cup (M \cap Traversed)
      /\ grayagain' = IF o \in Thread THEN grayagain \cup {o} ELSE grayagain
      /\ weak' = IF o \in Table /\ weakmode(o) # {} THEN weak \cup {o} ELSE weak
  BY <1>1, Zenon DEF PropagateStep
<1>7. TypeOK'
  <2>1. color' \in [Obj -> White \cup {"gray", "black"}]
    BY <1>2, Zenon DEF Marking
  <2>2. gray' \subseteq Traversed /\ grayagain' \subseteq Traversed /\ weak' \subseteq Table
    BY <1>0, <1>3, <1>6, Zenon DEF TypeOK
  <2> QED BY <1>0, <1>2, <1>5, <2>1, <2>2, Zenon DEF TypeOK
<1>8. SweepOK' /\ CallsOK'
  BY <1>0, <1>2, SweepKeep, CallsKeep, Zenon
<1>9. \A u \in Upval : upvalue(u)' = upvalue(u)
  <2>1. \A u \in Upval : ref'[u] = ref[u]
    BY <1>5, TypesDisjoint, Zenon DEF Obj
  <2> QED BY <1>2, <2>1, Zenon DEF upvalue, isopen
<1>10. Safe'
  <2>1. \A x \in Live : \A f \in Field :
          (x \in Table /\ f = "key" => ref'[x]["val"] # NIL) => Lives(ref'[x][f])
    <3> TAKE x \in Live
    <3> TAKE f \in Field
    <3>1. x \in Obj /\ "val" \in Field
      BY <1>0, Zenon DEF Live, TypeOK, Field
    <3>2. ref'[x]["val"] = ref[x]["val"]
      BY <1>5, <3>1, Zenon
    <3>3. Lives(NIL)
      BY TypesDisjoint, Zenon DEF Lives
    <3> QED BY <1>0, <1>5, <3>1, <3>2, <3>3, Zenon DEF Safe
  <2>2. /\ mainthread \in Live /\ registry \in Live /\ Lives(basemt')
        /\ \A i \in 1 .. Len(co') : co'[i] \in Live
        /\ \A th \in Live \cap Thread : \A i \in StkId : Lives(stack'[th][i])
    BY <1>0, <1>2, Zenon DEF Safe
  <2>3. \A u \in Live \cap Upval : Lives(upvalue(u)')
    BY <1>0, <1>9, Zenon DEF Safe
  <2> QED BY <1>4, <2>1, <2>2, <2>3, Zenon DEF Safe, Lives
<1>11. \A v \in refs(o) : Marked(v)'
  BY <1>0, <1>2, <1>3, <1>4, <1>6, MarkedRefs, Zenon DEF IInv
<1>12. \A x \in alloc \ tmudata : isblack(x)' => \A f \in Field : Marked(ref[x][f])'
  <2> TAKE x \in alloc \ tmudata
  <2> HAVE isblack(x)'
  <2> TAKE f \in Field
  <2>1. CASE x # o
    <3>1. ref'[x] = ref[x]
      <4>1. ref' = ref \/ ref' = [ref EXCEPT ![o]["key"] = NIL]
        BY <1>1, Zenon DEF PropagateStep
      <4> QED BY <1>0, <2>1, <4>1, Zenon DEF TypeOK
    <3> QED BY <1>2, <1>4, <2>1, <3>1, Zenon
  <2>2. CASE x = o
    <3>1. o \notin Thread /\ ~(o \in Table /\ weakmode(o) # {})
      BY <1>6, <2>2, Zenon DEF isblack
    <3>2. CASE ref'[o][f] \notin Obj
      BY <2>2, <3>2, Zenon DEF Marked
    <3>3. CASE ref'[o][f] \in Obj
      <4>1. ref'[o][f] = ref[o][f]
        BY <1>3, <1>5, <3>3, TypesDisjoint, Zenon
      <4>2. CASE o \in Table
        <5>1. f \in {"metatable", "array", "key", "val"}
          <6>1. NIL \notin Obj /\ Only(o, {"metatable", "array", "key", "val"})
            BY <1>0, <1>3, <4>2, TypesDisjoint, Zenon DEF HeapOK, FieldsOK
          <6> QED BY <3>3, <4>1, <6>1, Zenon DEF Only
        <5>2. f = "key" => ref[o]["val"] # NIL
          BY <1>5, <3>1, <3>3, <4>2, Zenon
        <5>3. ref[o][f] \in tablerefs(o)
          BY <3>1, <4>2, <5>1, <5>2, Zenon DEF tablerefs
        <5>4. ref[o][f] \in refs(o)
          BY <4>2, <5>3, TypesDisjoint, Zenon DEF refs
        <5> QED BY <1>11, <2>2, <4>1, <5>4, Zenon
      <4>3. CASE o \notin Table
        <5>1. ref[o][f] \in refs(o)
          BY <1>3, <3>1, <4>3, Zenon DEF refs
        <5> QED BY <1>11, <2>2, <4>1, <5>1, Zenon
      <4> QED BY <4>2, <4>3, Zenon
    <3> QED BY <3>2, <3>3, Zenon
  <2> QED BY <2>1, <2>2, Zenon
<1>13. MarkOK'
  <2>0. /\ Marked(mainthread) /\ Marked(registry)
        /\ atomicpc >= 1 => \A u \in alloc \cap Upval : isgray(u) => Marked(upvalue(u))
        /\ atomicpc >= 2 => /\ Marked(L) /\ Marked(basemt)
                            /\ \A t \in weak : \A v \in tablerefs(t) : Marked(v)
        /\ atomicpc >= 3 => /\ grayagain \subseteq Thread
                            /\ \A th \in grayagain : \A v \in stackrefs(th) : Marked(v)
        /\ atomicpc >= 4 => \A u \in tmudata : isblack(u) /\ \A f \in Field : Marked(ref[u][f])
    BY <1>0, <1>2, Zenon DEF MarkOK
  <2>c. /\ o \notin M /\ alloc' = alloc
        /\ \A x \in alloc \ (M \cup {o}) : color'[x] = color[x]
    BY <1>0, <1>2, MarkingColors, Zenon
  <2>1. Marked(mainthread)' /\ Marked(registry)'
    BY <1>4, <2>0, Zenon
  <2>2. atomicpc >= 1 => \A u \in alloc \cap Upval : isgray(u)' => Marked(upvalue(u))'
    <3> SUFFICES ASSUME atomicpc >= 1, NEW u \in alloc \cap Upval, isgray(u)'
                 PROVE  Marked(upvalue(u)) \/ upvalue(u) \in M
      BY <1>4, <1>9, Zenon
    <3>1. CASE u \in M
      <4>1. upvalue(u) \in alloc /\ iswhite(upvalue(u)) => upvalue(u) \in M
        BY <1>2, <3>1, Zenon DEF Marking
      <4>2. upvalue(u) \in Obj => upvalue(u) \in alloc
        BY <1>0, <1>4, Zenon DEF Safe, Lives
      <4> QED BY <4>1, <4>2, Zenon DEF Marked
    <3>2. CASE u \notin M
      <4>1. isgray(u)
        BY <1>3, <2>c, <3>2, Zenon DEF isgray
      <4> QED BY <2>0, <4>1, Zenon
    <3> QED BY <3>1, <3>2, Zenon
  <2>3. atomicpc >= 2 => /\ Marked(L)' /\ Marked(basemt)'
                         /\ \A t \in weak' : \A v \in tablerefs(t)' : Marked(v)'
    <3> SUFFICES ASSUME atomicpc >= 2
                 PROVE  /\ Marked(L)' /\ Marked(basemt)'
                        /\ \A t \in weak' : \A v \in tablerefs(t)' : Marked(v)'
      BY Zenon
    <3>1. L' = L /\ basemt' = basemt
      BY <1>2, Zenon DEF L
    <3>2. Marked(L)' /\ Marked(basemt)'
      BY <1>4, <2>0, <3>1, Zenon
    <3>3. ASSUME NEW t \in weak', NEW v \in tablerefs(t)' PROVE Marked(v)'
      <4>1. t \in Table /\ v \in tablerefs(t)
        BY <1>5, <1>7, <3>3, Zenon DEF TypeOK
      <4>2. CASE t \in weak
        BY <1>4, <2>0, <4>1, <4>2, Zenon
      <4>3. CASE t \notin weak
        <5>1. t = o /\ v \in refs(o)
          BY <1>6, <3>3, <4>1, <4>3, TypesDisjoint, Zenon DEF refs
        <5> QED BY <1>11, <5>1, Zenon
      <4> QED BY <4>2, <4>3, Zenon
    <3> QED BY <3>2, <3>3, Zenon
  <2>4. atomicpc >= 3 => /\ grayagain' \subseteq Thread
                         /\ \A th \in grayagain' : \A v \in stackrefs(th)' : Marked(v)'
    <3> SUFFICES ASSUME atomicpc >= 3
                 PROVE  /\ grayagain' \subseteq Thread
                        /\ \A th \in grayagain' : \A v \in stackrefs(th)' : Marked(v)'
      BY Zenon
    <3>1. grayagain' \subseteq Thread
      BY <1>6, <2>0, Zenon
    <3>2. ASSUME NEW th \in grayagain', NEW v \in stackrefs(th)' PROVE Marked(v)'
      <4>1. th \in Thread /\ ref'[th] = ref[th]
        BY <1>5, <3>1, <3>2, TypesDisjoint, Zenon DEF Obj
      <4>2. v \in stackrefs(th)
        <5>1. stackrefs(th)' = stackrefs(th)
          BY <1>2, <4>1, Zenon DEF stackrefs
        <5> QED BY <3>2, <5>1, Zenon
      <4>3. CASE th \in grayagain
        BY <1>4, <2>0, <4>2, <4>3, Zenon
      <4>4. CASE th \notin grayagain
        <5>1. th = o /\ v \in refs(o)
          BY <1>6, <3>2, <4>1, <4>2, <4>4, TypesDisjoint, Zenon DEF refs
        <5> QED BY <1>11, <5>1, Zenon
      <4> QED BY <4>3, <4>4, Zenon
    <3> QED BY <3>1, <3>2, Zenon
  <2>5. atomicpc >= 4 => \A u \in tmudata : isblack(u)' /\ \A f \in Field : Marked(ref[u][f])'
    <3> SUFFICES ASSUME atomicpc >= 4, NEW u \in tmudata
                 PROVE  isblack(u)' /\ \A f \in Field : Marked(ref[u][f])'
      BY Zenon
    <3>1. u \in Udata /\ u \in alloc /\ isblack(u) /\ ref'[u] = ref[u]
      BY <1>0, <1>5, <2>0, TypesDisjoint, Zenon DEF TypeOK, HeapOK, Obj
    <3>2. u \notin M /\ u # o
      BY <1>0, <1>3, <1>6, <3>1, Whites, Zenon DEF isblack, iswhite
    <3> QED BY <1>4, <2>0, <2>c, <3>1, <3>2, Zenon DEF isblack
  <2> QED BY <1>2, <1>12, <2>1, <2>2, <2>3, <2>4, <2>5, Zenon DEF MarkOK
<1>14. GclistExclusive'
  <2>1. \A x \in M : x \notin gray /\ x \notin grayagain /\ x \notin weak
    BY <1>0, <1>2, <1>6, Whites, Zenon DEF GclistExclusive, isgray, iswhite
  <2>2. o \notin grayagain /\ o \notin weak /\ ~(o \in Thread /\ o \in Table) /\ o \notin M
    BY <1>0, <1>2, <1>3, <2>1, TypesDisjoint, Zenon DEF GclistExclusive
  <2>3. /\ gray' \cap grayagain' = {} /\ gray' \cap weak' = {} /\ grayagain' \cap weak' = {}
    BY <1>0, <1>2, <1>6, <2>1, <2>2 DEF GclistExclusive
  <2>4. gray' \cup grayagain' \cup weak' = {x \in alloc' \cap Traversed : isgray(x)'}
    BY <1>0, <1>2, <1>4, <1>6, <2>2 DEF GclistExclusive
  <2> QED BY <2>3, <2>4, Zenon DEF GclistExclusive
<1> QED BY <1>4, <1>5, <1>7, <1>8, <1>10, <1>13, <1>14, Zenon DEF IInv

\* what the earlier parts of atomic promise, the later ones keep: only closed
\* upvalues become black, and there is none among what they mark
LEMMA AtomicKeeps ==
  ASSUME IInv, gcstate = "propagate", NEW M, Marking(M, {}), M \cap Upval = {},
         UNCHANGED <<alloc, ref, stack, loc, basemt, co>>,
         \A v : Marked(v) \/ v \in M => Marked(v)'
  PROVE  /\ Marked(mainthread)' /\ Marked(registry)'
         /\ atomicpc >= 1 => \A u \in alloc \cap Upval : isgray(u)' => Marked(upvalue(u))'
         /\ atomicpc >= 2 => /\ Marked(L)' /\ Marked(basemt)'
                             /\ \A t \in weak : \A v \in tablerefs(t)' : Marked(v)'
         /\ atomicpc >= 3 => /\ grayagain \subseteq Thread
                             /\ \A th \in grayagain : \A v \in stackrefs(th)' : Marked(v)'
<1>0. /\ Marked(mainthread) /\ Marked(registry)
      /\ atomicpc >= 1 => \A u \in alloc \cap Upval : isgray(u) => Marked(upvalue(u))
      /\ atomicpc >= 2 => /\ Marked(L) /\ Marked(basemt)
                          /\ \A t \in weak : \A v \in tablerefs(t) : Marked(v)
      /\ atomicpc >= 3 => /\ grayagain \subseteq Thread
                          /\ \A th \in grayagain : \A v \in stackrefs(th) : Marked(v)
  BY Zenon DEF IInv, MarkOK
<1>1. \A u \in alloc \cap Upval : isgray(u)' => isgray(u)
  <2>1. \A x \in alloc \ (M \cup {}) : color'[x] = color[x]
    BY MarkingColors DEF IInv
  <2> QED BY <2>1, Zenon DEF isgray
<1>2. /\ \A u : upvalue(u)' = upvalue(u)
      /\ L' = L /\ basemt' = basemt
  BY Zenon DEF upvalue, isopen, L
<1>3. \A t : tablerefs(t)' = tablerefs(t)
  BY Zenon DEF tablerefs, weakmode
<1>4. \A th : stackrefs(th)' = stackrefs(th)
  BY Zenon DEF stackrefs
<1>5. atomicpc >= 1 => \A u \in alloc \cap Upval : isgray(u)' => Marked(upvalue(u))'
  BY <1>0, <1>1, <1>2, Zenon
<1>6. atomicpc >= 2 => /\ Marked(L)' /\ Marked(basemt)'
                       /\ \A t \in weak : \A v \in tablerefs(t)' : Marked(v)'
  BY <1>0, <1>2, <1>3, Zenon
<1>7. atomicpc >= 3 => /\ grayagain \subseteq Thread
                       /\ \A th \in grayagain : \A v \in stackrefs(th)' : Marked(v)'
  BY <1>0, <1>4, Zenon
<1> QED BY <1>0, <1>5, <1>6, <1>7, Zenon

\* a part of atomic that marks S, and with it M
AtomicStep(S, M) ==
  /\ AtRest /\ gcstate = "propagate" /\ gray = {} /\ gcstate' = "propagate"
  /\ atomicpc' = atomicpc + 1 /\ atomicpc \in 0 .. 3
  /\ UNCHANGED <<alloc, ref, stack, loc, basemt, co, gcstate, currentwhite, sweepstrgc, sweepgc,
                 ctx, calls, prog>>
  /\ Marking(M, {}) /\ M \cap Upval = {} /\ M \subseteq alloc
  /\ \A v \in S : v \in alloc /\ iswhite(v) => v \in M

\* the parts that remark upvalues, weak tables and gray-again objects are such steps
LEMMA AtomicIs ==
  ASSUME IInv, NEW S, NEW list, NEW pc \in 0 .. 2, AtomicAt(pc), atomicmark(S, list), UNCHANGED prog,
         UNCHANGED <<finalized, tmudata>>, S \cap Upval = {}
  PROVE  AtomicStep(S, reached(S)) /\ gray' = list \cup (reached(S) \cap Traversed)
  BY MarkingReached DEF AtomicAt, atomicmark, heap, sweeps, AtRest, AtomicStep

\* such a part keeps what does not depend on the gray lists
LEMMA AtomicKept ==
  ASSUME IInv, NEW S, NEW M, AtomicStep(S, M), UNCHANGED <<finalized, tmudata>>,
         gray' \subseteq Traversed, grayagain' \subseteq Traversed, weak' \subseteq Table
  PROVE  /\ TypeOK' /\ HeapOK' /\ SweepOK' /\ ColorsOK' /\ Safe' /\ CallsOK' /\ Live = alloc
         /\ \A v : Marked(v) \/ v \in M => Marked(v)'
         /\ \A x \in alloc' \ tmudata' : isblack(x)' => \A f \in Field : Marked(ref[x][f])'
         /\ {x \in alloc' \cap Traversed : isgray(x)'} = grayagain \cup weak \cup (M \cap Traversed)
         /\ M \cap (grayagain \cup weak) = {}
<1>0. TypeOK /\ GclistExclusive /\ CallsOK
  BY Zenon DEF IInv
<1>1. /\ UNCHANGED <<alloc, ref, stack, loc, basemt, co, gcstate, currentwhite, sweepstrgc, sweepgc,
                 ctx, calls, prog>>
      /\ atomicpc' \in 0 .. 4 /\ Marking(M, {}) /\ gcstate = "propagate" /\ gray = {}
  BY DEF AtomicStep
<1>2. /\ HeapOK' /\ SweepOK' /\ ColorsOK' /\ Safe' /\ Live = alloc
      /\ \A v : Marked(v) \/ v \in M => Marked(v)'
      /\ \A x \in alloc \ tmudata' : isblack(x)' => \A f \in Field : Marked(ref[x][f])'
      /\ {x \in alloc \cap Traversed : isgray(x)'} =
               {x \in alloc \cap Traversed : isgray(x)} \cup (M \cap Traversed)
  BY <1>1, MarksOnly, Zenon
<1>3. TypeOK'
  <2>1. color' \in [Obj -> White \cup {"gray", "black"}]
    BY <1>1, Zenon DEF Marking
  <2> QED BY <1>0, <1>1, <2>1, Zenon DEF TypeOK
<1>4. CallsOK'
  BY <1>0, <1>1, CallsKeep, Zenon
<1>5. {x \in alloc \cap Traversed : isgray(x)} = grayagain \cup weak
  BY <1>0, <1>1, Zenon DEF GclistExclusive
<1>6. M \cap (grayagain \cup weak) = {}
  <2>1. \A x \in grayagain \cup weak : isgray(x) /\ x \in Traversed
    BY <1>5, Zenon
  <2>2. \A x \in M : iswhite(x) \/ x \in Udata
    BY <1>0, <1>1, Zenon DEF Marking
  <2> QED BY <1>0, <2>1, <2>2, Whites, TypesDisjoint, Zenon DEF isgray, iswhite, Traversed
<1>7. {x \in alloc' \cap Traversed : isgray(x)'} = grayagain \cup weak \cup (M \cap Traversed)
  BY <1>1, <1>2, <1>5, Zenon
<1>8. \A x \in alloc' \ tmudata' : isblack(x)' => \A f \in Field : Marked(ref[x][f])'
  BY <1>1, <1>2, Zenon
<1> QED BY <1>2, <1>3, <1>4, <1>6, <1>7, <1>8, Zenon

\* remarkupvals keeps the invariant ...
LEMMA RemarkUpvalsInv ==
  ASSUME IInv, RemarkUpvals, UNCHANGED prog
  PROVE  IInv'
<1>0. TypeOK /\ HeapOK /\ ColorsOK /\ Safe /\ GclistExclusive
  BY Zenon DEF IInv
<1> DEFINE S == {upvalue(u) : u \in {v \in alloc \cap Upval : isopen(v) /\ isgray(v)}}
           M == reached(S)
<1>1. S \cap Upval = {}
  BY <1>0, UpvalueData, Zenon DEF Data
<1>2. \A u \in alloc \cap Upval : isgray(u) => upvalue(u) \in S
  BY <1>0, Zenon DEF ColorsOK
<1>3. AtomicAt(0) /\ atomicmark(S, {}) /\ UNCHANGED <<grayagain, weak, finalized, tmudata>>
  BY Zenon DEF RemarkUpvals
<1> HIDE DEF S
<1>4. AtomicStep(S, M) /\ gray' = {} \cup (M \cap Traversed)
  BY <1>1, <1>3, AtomicIs
<1>5. atomicpc = 0
  BY <1>3, Zenon DEF AtomicAt
<1> HIDE DEF M
<1>6. gray' = M \cap Traversed /\ grayagain' \subseteq Traversed /\ weak' \subseteq Table
  BY <1>0, <1>3, <1>4, Zenon DEF TypeOK
<1>7. /\ TypeOK' /\ HeapOK' /\ SweepOK' /\ ColorsOK' /\ Safe' /\ CallsOK' /\ Live = alloc
      /\ \A v : Marked(v) \/ v \in M => Marked(v)'
      /\ \A x \in alloc' \ tmudata' : isblack(x)' => \A f \in Field : Marked(ref[x][f])'
      /\ {x \in alloc' \cap Traversed : isgray(x)'} = grayagain \cup weak \cup (M \cap Traversed)
      /\ M \cap (grayagain \cup weak) = {}
  BY <1>3, <1>4, <1>6, AtomicKept, Zenon
<1>8. GclistExclusive'
  <2>1. grayagain \cap weak = {}
    BY <1>0, <1>4, Zenon DEF GclistExclusive, AtomicStep
  <2> QED BY <1>3, <1>6, <1>7, <2>1, Zenon DEF GclistExclusive
<1>9. MarkOK'
  <2>1. /\ gcstate = "propagate" /\ M \cap Upval = {} /\ Marking(M, {}) /\ atomicpc' = 1
        /\ UNCHANGED <<alloc, ref, stack, loc, basemt, co>>
        /\ \A v \in S : v \in alloc /\ iswhite(v) => v \in M
    BY <1>4, <1>5, SMTT(30), Zenon DEF AtomicStep
  <2>2. Marked(mainthread)' /\ Marked(registry)'
    BY <1>7, <2>1, AtomicKeeps, Zenon
  <2>3. \A u \in alloc' \cap Upval : isgray(u)' => Marked(upvalue(u))'
    <3>0. \A u : upvalue(u)' = upvalue(u)
      BY <2>1, Zenon DEF upvalue, isopen
    <3> SUFFICES ASSUME NEW u \in alloc \cap Upval, isgray(u)'
                 PROVE  Marked(upvalue(u)) \/ upvalue(u) \in M
      BY <1>7, <2>1, <3>0, Zenon
    <3>1. isgray(u)
      <4>1. \A x \in alloc \ (M \cup {}) : color'[x] = color[x]
        BY <2>1, MarkingColors, SMTT(30), Zenon DEF IInv
      <4> QED BY <2>1, <4>1, Zenon DEF isgray
    <3>2. upvalue(u) \in Obj => upvalue(u) \in alloc
      BY <1>0, <1>7, Zenon DEF Safe, Lives
    <3> QED BY <1>2, <2>1, <3>1, <3>2, Zenon DEF Marked
  <2> QED BY <1>7, <2>1, <2>2, <2>3, SMTT(30), Zenon DEF MarkOK
<1> QED BY <1>7, <1>8, <1>9, Zenon DEF IInv

\* ... so does remarking the weak tables, the running thread and the metatables ...
LEMMA RemarkWeakInv ==
  ASSUME IInv, RemarkWeak, UNCHANGED prog
  PROVE  IInv'
<1>0. TypeOK /\ HeapOK /\ ColorsOK /\ Safe /\ GclistExclusive
  BY Zenon DEF IInv
<1> DEFINE S == {L, basemt}
           M == reached(S)
<1>1. S \cap Upval = {}
  BY <1>0, Named, TypesDisjoint, SMTT(30), Zenon DEF TypeOK, Obj
<1>2. L \in S /\ basemt \in S /\ L \in Live /\ Lives(basemt)
  BY <1>0, Named, Zenon DEF Safe
<1>3. AtomicAt(1) /\ atomicmark(S, weak) /\ weak' = {} /\ UNCHANGED <<grayagain, finalized, tmudata>>
  BY Zenon DEF RemarkWeak
<1> HIDE DEF S
<1>4. AtomicStep(S, M) /\ gray' = weak \cup (M \cap Traversed)
  BY <1>1, <1>3, AtomicIs, SMTT(30), Zenon
<1>5. atomicpc = 1
  BY <1>3, Zenon DEF AtomicAt
<1> HIDE DEF M
<1>6. gray' \subseteq Traversed /\ grayagain' \subseteq Traversed /\ weak' \subseteq Table
  BY <1>0, <1>3, <1>4, Zenon DEF TypeOK, Traversed
<1>7. /\ TypeOK' /\ HeapOK' /\ SweepOK' /\ ColorsOK' /\ Safe' /\ CallsOK' /\ Live = alloc
      /\ \A v : Marked(v) \/ v \in M => Marked(v)'
      /\ \A x \in alloc' \ tmudata' : isblack(x)' => \A f \in Field : Marked(ref[x][f])'
      /\ {x \in alloc' \cap Traversed : isgray(x)'} = grayagain \cup weak \cup (M \cap Traversed)
      /\ M \cap (grayagain \cup weak) = {}
  BY <1>3, <1>4, <1>6, AtomicKept, Zenon
<1>8. GclistExclusive'
  <2>1. grayagain \cap weak = {}
    BY <1>0, <1>4, Zenon DEF GclistExclusive, AtomicStep
  <2> QED BY <1>3, <1>4, <1>7, <2>1, Zenon DEF GclistExclusive
<1>9. MarkOK'
  <2>1. /\ gcstate = "propagate" /\ M \cap Upval = {} /\ Marking(M, {}) /\ atomicpc' = 2
        /\ UNCHANGED <<alloc, ref, stack, loc, basemt, co>>
        /\ \A v \in S : v \in alloc /\ iswhite(v) => v \in M
    BY <1>4, <1>5, SMTT(30), Zenon DEF AtomicStep
  <2>2. /\ Marked(mainthread)' /\ Marked(registry)'
        /\ \A u \in alloc \cap Upval : isgray(u)' => Marked(upvalue(u))'
    BY <1>5, <1>7, <2>1, AtomicKeeps, SMTT(30), Zenon
  <2>3. Marked(L) \/ L \in M
    BY <1>2, <1>7, <2>1, Zenon DEF Marked
  <2>4. Marked(basemt) \/ basemt \in M
    BY <1>2, <1>7, <2>1, Zenon DEF Marked, Lives
  <2>5. L' = L /\ basemt' = basemt
    BY <2>1, Zenon DEF L
  <2>6. Marked(L)' /\ Marked(basemt)'
    BY <1>7, <2>3, <2>4, <2>5, Zenon
  <2> QED BY <1>3, <1>7, <2>1, <2>2, <2>6, SMTT(30), Zenon DEF MarkOK
<1> QED BY <1>7, <1>8, <1>9, Zenon DEF IInv

\* ... and traversing again what is on the list grayagain
LEMMA RemarkGrayAgainInv ==
  ASSUME IInv, RemarkGrayAgain, UNCHANGED prog
  PROVE  IInv'
<1>0. TypeOK /\ GclistExclusive
  BY Zenon DEF IInv
<1> DEFINE S == {}
           M == reached(S)
<1>1. S \cap Upval = {}
  BY Zenon
<1>2. AtomicAt(2) /\ atomicmark(S, grayagain) /\ grayagain' = {} /\ UNCHANGED <<weak, finalized, tmudata>>
  BY Zenon DEF RemarkGrayAgain
<1> HIDE DEF S
<1>3. AtomicStep(S, M) /\ gray' = grayagain \cup (M \cap Traversed)
  BY <1>1, <1>2, AtomicIs
<1>4. atomicpc = 2
  BY <1>2, Zenon DEF AtomicAt
<1> HIDE DEF M
<1>5. gray' \subseteq Traversed /\ grayagain' \subseteq Traversed /\ weak' \subseteq Table
  BY <1>0, <1>2, <1>3, Zenon DEF TypeOK
<1>6. /\ TypeOK' /\ HeapOK' /\ SweepOK' /\ ColorsOK' /\ Safe' /\ CallsOK' /\ Live = alloc
      /\ \A v : Marked(v) \/ v \in M => Marked(v)'
      /\ \A x \in alloc' \ tmudata' : isblack(x)' => \A f \in Field : Marked(ref[x][f])'
      /\ {x \in alloc' \cap Traversed : isgray(x)'} = grayagain \cup weak \cup (M \cap Traversed)
      /\ M \cap (grayagain \cup weak) = {}
  BY <1>2, <1>3, <1>5, AtomicKept, Zenon
<1>7. GclistExclusive'
  <2>1. grayagain \cap weak = {}
    BY <1>0, <1>3, Zenon DEF GclistExclusive, AtomicStep
  <2> QED BY <1>2, <1>3, <1>6, <2>1, Zenon DEF GclistExclusive
<1>8. MarkOK'
  <2>1. /\ gcstate = "propagate" /\ M \cap Upval = {} /\ Marking(M, {}) /\ atomicpc' = 3
        /\ UNCHANGED <<alloc, ref, stack, loc, basemt, co>>
    BY <1>3, <1>4, SMTT(30), Zenon DEF AtomicStep
  <2>2. /\ Marked(mainthread)' /\ Marked(registry)'
        /\ \A u \in alloc \cap Upval : isgray(u)' => Marked(upvalue(u))'
        /\ Marked(L)' /\ Marked(basemt)'
        /\ \A t \in weak : \A v \in tablerefs(t)' : Marked(v)'
    BY <1>4, <1>6, <2>1, AtomicKeeps, SMTT(30), Zenon
  <2> QED BY <1>2, <1>6, <2>1, <2>2, SMTT(30), Zenon DEF MarkOK
<1> QED BY <1>6, <1>7, <1>8, Zenon DEF IInv

\* gafqC_separateudata and marktmu mark the udata to be finalized, and what they need
LEMMA SeparateIs ==
  ASSUME IInv, SeparateUdata, UNCHANGED prog
  PROVE  LET tmu == tmudata \cup {u \in unreached : gcTM(u)}
             M == marktmu(tmu)
         IN  /\ Marking(M, {}) /\ M \cap Upval = {} /\ M \subseteq alloc
             /\ tmu \subseteq Udata /\ tmu \subseteq M /\ M \cap (grayagain \cup weak) = {}
             /\ \A u \in tmu : \A f \in Field : Marked(ref[u][f]) \/ ref[u][f] \in M
<1>0. TypeOK /\ HeapOK /\ SweepOK /\ ColorsOK /\ Safe /\ GclistExclusive
  BY Zenon DEF IInv
<1> DEFINE tmu == tmudata \cup {u \in unreached : gcTM(u)}
           S == UNION {{ref[u]["metatable"], ref[u]["env"]} : u \in tmu}
           R == reached(S)
           M == marktmu(tmu)
<1>1. /\ AtRest /\ gcstate = "propagate" /\ gcstate' = "propagate" /\ gray = {}
      /\ UNCHANGED <<alloc, stack, loc, currentwhite>>
      /\ tmudata' = tmu /\ color' = recolor(M)
  BY Zenon DEF SeparateUdata, AtomicAt, heap, AtRest
<1>2. tmu \subseteq Udata /\ tmu \subseteq alloc
  BY <1>0, Zenon DEF TypeOK, HeapOK, unreached
<1>3. \A u \in tmu : u \in tmudata \/ iswhite(u)
  BY Zenon DEF unreached
<1> HIDE DEF tmu
<1>4. M = tmu \cup R
  BY Zenon DEF marktmu
<1>5. \A u \in tmu : ref[u]["metatable"] \in S /\ ref[u]["env"] \in S
  OBVIOUS
<1>6. S \cap Upval = {}
  <2>1. \A u \in tmu : ref[u]["metatable"] \notin Upval /\ ref[u]["env"] \notin Upval
    <3> TAKE u \in tmu
    <3>1. u \in Obj /\ u \in Udata
      BY <1>2, Zenon DEF Obj
    <3>2. ref[u]["metatable"] \in NILor(Table) /\ ref[u]["env"] \in NILor(Table)
      BY <1>0, <3>1, Zenon DEF HeapOK, FieldsOK
    <3>3. NILor(Table) \cap Upval = {}
      BY TypesDisjoint, Zenon DEF NILor, Obj
    <3> QED BY <3>2, <3>3, Zenon
  <2> QED BY <2>1
<1> HIDE DEF S
<1>7. /\ R \subseteq alloc /\ \A x \in R : iswhite(x)
      /\ \A v \in S : v \in alloc /\ iswhite(v) => v \in R
      /\ \A u \in R \cap Udata : \A f \in Field :
            ref[u][f] \in alloc /\ iswhite(ref[u][f]) => ref[u][f] \in R
      /\ R \cap Upval = {}
  BY <1>0, <1>6, MarkReach, Zenon
<1> HIDE DEF R, M
<1>8. M \cap Upval = {} /\ M \subseteq alloc /\ tmu \subseteq M
  BY <1>2, <1>4, <1>7, TypesDisjoint, Zenon
<1>9. color' \in [Obj -> White \cup {"gray", "black"}]
  BY <1>0, <1>1, Zenon DEF recolor, TypeOK
<1>10. Marking(M, {})
  <2>1. tmudata \subseteq tmudata' /\ tmudata' \subseteq tmudata \cup M /\ tmudata' \subseteq Udata
    BY <1>1, <1>2, <1>4, Zenon DEF tmu
  <2>2. \A x \in M : iswhite(x) \/ x \in tmudata'
    BY <1>1, <1>4, <1>7, Zenon
  <2>3. \A u \in (M \cap Udata) \ tmudata' : \A f \in Field :
          ref[u][f] \in alloc /\ iswhite(ref[u][f]) => ref[u][f] \in M
    BY <1>1, <1>4, <1>7, Zenon
  <2>4. \A u \in M \cap Upval : upvalue(u) \in alloc /\ iswhite(upvalue(u)) => upvalue(u) \in M
    BY <1>8, Zenon
  <2> QED BY <1>1, <1>8, <1>9, <2>1, <2>2, <2>3, <2>4, Zenon DEF Marking
<1>11. M \cap (grayagain \cup weak) = {}
  <2>1. \A x \in grayagain \cup weak : isgray(x) /\ x \in Traversed
    BY <1>0, <1>1, Zenon DEF GclistExclusive
  <2>2. \A x \in M : iswhite(x) \/ x \in Udata
    BY <1>2, <1>4, <1>7, Zenon
  <2> QED BY <1>0, <2>1, <2>2, Whites, TypesDisjoint, Zenon DEF isgray, iswhite, Traversed
<1>12. \A u \in tmu : \A f \in Field : Marked(ref[u][f]) \/ ref[u][f] \in M
  <2> TAKE u \in tmu
  <2> TAKE f \in Field
  <2>1. u \in Obj /\ u \in Udata /\ u \notin Table /\ u \in Live
    BY <1>0, <1>1, <1>2, NoneDead, TypesDisjoint, Zenon DEF Obj
  <2>2. ref[u][f] \in Obj => ref[u][f] \in alloc
    BY <1>0, <2>1, Zenon DEF Safe, Lives, Live
  <2>3. CASE f \in {"metatable", "env"}
    BY <1>4, <1>5, <1>7, <2>2, <2>3, Zenon DEF Marked
  <2>4. CASE f \notin {"metatable", "env"}
    <3>1. ref[u][f] = NIL
      BY <1>0, <2>1, <2>4, Zenon DEF HeapOK, FieldsOK, Only
    <3> QED BY <3>1, TypesDisjoint, Zenon DEF Marked
  <2> QED BY <2>3, <2>4, Zenon
<1> QED BY <1>2, <1>8, <1>10, <1>11, <1>12, Zenon DEF tmu, M

\* ... and keep the invariant
LEMMA SeparateUdataInv ==
  ASSUME IInv, SeparateUdata, UNCHANGED prog
  PROVE  IInv'
<1>0. TypeOK /\ HeapOK /\ SweepOK /\ ColorsOK /\ Safe /\ MarkOK /\ GclistExclusive /\ CallsOK
  BY Zenon DEF IInv
<1> DEFINE tmu == tmudata \cup {u \in unreached : gcTM(u)}
           M == marktmu(tmu)
<1>1. /\ gcstate = "propagate" /\ gray = {} /\ atomicpc = 3 /\ atomicpc' = 4
      /\ UNCHANGED <<alloc, ref, stack, loc, basemt, co, gcstate, currentwhite, grayagain, weak,
                     sweepstrgc, sweepgc, ctx, calls, prog>>
      /\ tmudata' = tmu /\ gray' = M \cap Traversed /\ finalized' = finalized \cup unreached
  BY Zenon DEF SeparateUdata, AtomicAt, heap, sweeps
<1>2. /\ Marking(M, {}) /\ M \cap Upval = {} /\ M \subseteq alloc
      /\ tmu \subseteq Udata /\ tmu \subseteq M /\ M \cap (grayagain \cup weak) = {}
      /\ \A u \in tmu : \A f \in Field : Marked(ref[u][f]) \/ ref[u][f] \in M
  BY SeparateIs, Zenon
<1>3. \A u \in tmu : u \in tmudata \/ (u \in unreached /\ u \notin finalized)
  BY Zenon DEF unreached
<1> HIDE DEF M, tmu
<1>4. /\ HeapOK' /\ SweepOK' /\ ColorsOK' /\ Safe' /\ Live = alloc
      /\ \A v : Marked(v) \/ v \in M => Marked(v)'
      /\ \A x \in alloc \ tmudata' : isblack(x)' => \A f \in Field : Marked(ref[x][f])'
      /\ {x \in alloc \cap Traversed : isgray(x)'} =
               {x \in alloc \cap Traversed : isgray(x)} \cup (M \cap Traversed)
  BY <1>1, <1>2, MarksOnly, Zenon
<1>5. TypeOK'
  <2>1. color' \in [Obj -> White \cup {"gray", "black"}]
    BY <1>2, Zenon DEF Marking
  <2>2. finalized' \subseteq Udata
    BY <1>0, <1>1, Zenon DEF TypeOK, unreached
  <2> QED BY <1>0, <1>1, <1>2, <2>1, <2>2, SMTT(30), Zenon DEF TypeOK
<1>6. CallsOK'
  <2> SUFFICES ASSUME NEW u \in Udata
               PROVE  /\ calls[u] <= 1
                      /\ calls[u] = 1 => u \in finalized'
                      /\ u \in tmu => u \in finalized' /\ calls[u] = 0
    BY <1>1, Zenon DEF CallsOK
  <2>1. calls[u] \in Nat
    BY <1>0, Zenon DEF TypeOK
  <2> QED BY <1>0, <1>1, <1>3, <2>1, SMTT(30), Zenon DEF CallsOK
<1>7. GclistExclusive'
  <2>1. {x \in alloc \cap Traversed : isgray(x)} = grayagain \cup weak /\ grayagain \cap weak = {}
    BY <1>0, <1>1, Zenon DEF GclistExclusive
  <2> QED BY <1>1, <1>2, <1>4, <2>1, Zenon DEF GclistExclusive
<1>8. MarkOK'
  <2>1. /\ Marked(mainthread)' /\ Marked(registry)'
        /\ \A u \in alloc \cap Upval : isgray(u)' => Marked(upvalue(u))'
        /\ Marked(L)' /\ Marked(basemt)'
        /\ \A t \in weak : \A v \in tablerefs(t)' : Marked(v)'
        /\ grayagain \subseteq Thread
        /\ \A th \in grayagain : \A v \in stackrefs(th)' : Marked(v)'
    BY <1>1, <1>2, <1>4, AtomicKeeps, SMTT(30), Zenon
  <2>2. \A u \in tmudata' : isblack(u)' /\ \A f \in Field : Marked(ref[u][f])'
    <3>1. \A x \in M : color'[x] = IF x \in Udata \/ (x \in Upval /\ ~isopen(x)) THEN "black" ELSE "gray"
      BY <1>0, <1>2, MarkingColors, Zenon
    <3>2. \A u \in tmu : color'[u] = "black"
      BY <1>2, <3>1, Zenon
    <3>3. \A u \in tmu : \A f \in Field : Marked(ref[u][f])'
      BY <1>1, <1>2, <1>4, Zenon
    <3> QED BY <1>1, <3>2, <3>3, Zenon DEF isblack
  <2> QED BY <1>1, <1>4, <2>1, <2>2, Zenon DEF MarkOK
<1> QED BY <1>4, <1>5, <1>6, <1>7, <1>8, Zenon DEF IInv

\* after the last mark of atomic: all is live, all that is not white refers to
\* nothing white but through a weak table, and the roots are marked
LEMMA AllMarked ==
  ASSUME IInv, AtomicAt(4)
  PROVE  /\ Live = alloc /\ \A o \in alloc : color[o] = currentwhite \/ ~iswhite(o)
         /\ Marked(mainthread) /\ Marked(registry) /\ Marked(basemt)
         /\ \A u \in tmudata : isblack(u)
         /\ \A t \in weak : t \in alloc /\ t \in Table /\ isgray(t) /\ \A v \in tablerefs(t) : Marked(v)
         /\ \A o \in alloc : isblack(o) => \A f \in Field : Marked(ref[o][f])
         /\ \A o \in alloc \cap Thread : ~iswhite(o) => \A v \in stackrefs(o) : Marked(v)
         /\ \A u \in alloc \cap Upval : ~iswhite(u) => Marked(upvalue(u))
         /\ \A o \in alloc \ (Upval \cup String \cup Thread) : isgray(o) => o \in weak
<1>0. TypeOK /\ HeapOK /\ SweepOK /\ ColorsOK /\ Safe /\ MarkOK /\ GclistExclusive
  BY Zenon DEF IInv
<1>1. gcstate = "propagate" /\ gray = {} /\ atomicpc = 4 /\ AtRest
  BY Zenon DEF AtomicAt, AtRest
<1>2. /\ Marked(mainthread) /\ Marked(registry)
      /\ \A o \in alloc \ tmudata : isblack(o) => \A f \in Field : Marked(ref[o][f])
      /\ \A u \in alloc \cap Upval : isgray(u) => Marked(upvalue(u))
      /\ Marked(L) /\ Marked(basemt)
      /\ \A t \in weak : \A v \in tablerefs(t) : Marked(v)
      /\ grayagain \subseteq Thread
      /\ \A th \in grayagain : \A v \in stackrefs(th) : Marked(v)
      /\ \A u \in tmudata : isblack(u) /\ \A f \in Field : Marked(ref[u][f])
  BY <1>0, <1>1 DEF MarkOK
<1>3. Live = alloc /\ \A o \in alloc : ~isdead(o)
  BY <1>0, <1>1, NoneDead, Zenon
<1>4. \A o \in alloc : isgray(o) \/ isblack(o) \/ iswhite(o)
  BY <1>0, Zenon DEF TypeOK, isgray, isblack, iswhite
<1>5. \A o \in alloc : color[o] = currentwhite \/ ~iswhite(o)
  BY <1>0, <1>3, Whites DEF isdead, iswhite
<1>6. grayagain \cup weak = {o \in alloc \cap Traversed : isgray(o)}
  BY <1>0, <1>1, Zenon DEF GclistExclusive
<1>7. \A o \in alloc : isblack(o) => \A f \in Field : Marked(ref[o][f])
  BY <1>2, Zenon
<1>8. \A t \in weak : t \in alloc /\ t \in Table /\ isgray(t) /\ \A v \in tablerefs(t) : Marked(v)
  BY <1>0, <1>2, <1>6, Zenon DEF TypeOK
<1>9. \A o \in alloc \cap Thread : ~iswhite(o) => \A v \in stackrefs(o) : Marked(v)
  <2> SUFFICES ASSUME NEW o \in alloc \cap Thread, ~iswhite(o)
               PROVE  o \in grayagain
    BY <1>2, Zenon
  <2>1. isgray(o) /\ o \in Traversed
    BY <1>0, <1>4, Zenon DEF ColorsOK, Traversed
  <2> QED BY <1>0, <1>6, <2>1, TypesDisjoint, Zenon DEF TypeOK
<1>10. \A u \in alloc \cap Upval : ~iswhite(u) => Marked(upvalue(u))
  <2> SUFFICES ASSUME NEW u \in alloc \cap Upval, isblack(u)
               PROVE  Marked(upvalue(u))
    BY <1>2, <1>4, Zenon
  <2>1. upvalue(u) = ref[u]["val"] /\ "val" \in Field
    BY <1>0, Zenon DEF ColorsOK, upvalue, Field
  <2> QED BY <1>7, <2>1, Zenon
<1>11. \A o \in alloc \ (Upval \cup String \cup Thread) : isgray(o) => o \in weak
  <2> SUFFICES ASSUME NEW o \in alloc \ (Upval \cup String \cup Thread), isgray(o)
               PROVE  o \in weak
    BY Zenon
  <2>1. o \in Traversed
    BY <1>0, Zenon DEF ColorsOK, TypeOK, Traversed, Obj
  <2> QED BY <1>2, <1>6, <2>1, Zenon
<1> QED BY <1>2, <1>3, <1>5, <1>7, <1>8, <1>9, <1>10, <1>11, Zenon

\* the end of atomic: cleartable on the weak tables, with the strings K marked, and
\* the exchange of the whites
ClearStep(K) ==
  /\ AtomicAt(4)
  /\ UNCHANGED <<alloc, stack, loc, basemt, co, finalized, gray, grayagain, weak, tmudata, ctx, calls, prog>>
  /\ ref' = [t \in Obj |->
        IF t \notin weak THEN ref[t]
        ELSE [f \in Field |->
                IF \/ f = "val" /\ clearnode(t)
                   \/ f = "key" /\ clearnode(t) /\ ref[t]["key"] \in Obj
                   \/ f = "array" /\ cleararray(t)
                THEN NIL ELSE ref[t][f]]]
  /\ color' = recolor(K)
  /\ K \subseteq String /\ \A t \in weak : keptstrings(t) \subseteq K
  /\ currentwhite' = otherwhite(currentwhite)
  /\ sweepstrgc' = alloc \cap String
  /\ sweepgc' = {o \in alloc \ (String \cup tmudata) : o \in Upval => ~isopen(o)}
  /\ gcstate' = "sweepstring" /\ atomicpc' = 0

\* ClearTableAndFlip is such a step
LEMMA ClearIs ==
  ASSUME IInv, ClearTableAndFlip, UNCHANGED prog
  PROVE  ClearStep(UNION {keptstrings(t) : t \in weak})
<1> DEFINE K == UNION {keptstrings(t) : t \in weak}
<1>1. K \subseteq String /\ \A t \in weak : keptstrings(t) \subseteq K
  BY Zenon DEF keptstrings
<1>2. UNCHANGED <<alloc, stack, loc, basemt, co, finalized, gray, grayagain, weak, tmudata, ctx, calls, prog>>
  BY Zenon DEF ClearTableAndFlip, lists
<1>3. AtomicAt(4) /\ color' = recolor(K)
  BY Zenon DEF ClearTableAndFlip
<1> HIDE DEF K
<1>4. ClearStep(K)
  BY <1>1, <1>2, <1>3, Zenon DEF ClearStep, ClearTableAndFlip
<1> QED BY <1>4, Zenon DEF K

\* it empties the entries of weak tables that iscleared says, and nothing else
LEMMA ClearHeap ==
  ASSUME IInv, NEW K, ClearStep(K)
  PROVE  /\ ref' \in [Obj -> [Field -> Value]] /\ HeapOK'
         /\ \A x \in Obj \ weak : ref'[x] = ref[x]
         /\ \A x \in weak : \A f \in Field :
              ref'[x][f] = IF \/ f = "val" /\ clearnode(x)
                              \/ f = "key" /\ clearnode(x) /\ ref[x]["key"] \in Obj
                              \/ f = "array" /\ cleararray(x)
                           THEN NIL ELSE ref[x][f]
<1>0. TypeOK /\ HeapOK
  BY Zenon DEF IInv
<1>1. weak \subseteq Table /\ weak \subseteq Obj /\ NIL \in Value /\ NIL \in Data
  BY <1>0, TypesDisjoint, Zenon DEF TypeOK, Obj, Value, Data
<1>2. /\ ref' = [t \in Obj |->
        IF t \notin weak THEN ref[t]
        ELSE [f \in Field |->
                IF \/ f = "val" /\ clearnode(t)
                   \/ f = "key" /\ clearnode(t) /\ ref[t]["key"] \in Obj
                   \/ f = "array" /\ cleararray(t)
                THEN NIL ELSE ref[t][f]]]
      /\ UNCHANGED <<alloc, stack, loc, tmudata, co>>
  BY Zenon DEF ClearStep
<1>3. \A x \in Obj \ weak : ref'[x] = ref[x]
  BY <1>2, Zenon
<1> QED BY <1>0, <1>1, <1>2, <1>3, TypesDisjoint DEF TypeOK, HeapOK, isopen, FieldsOK, Only, Field

\* what is live after it is what was marked, and the strings K
LEMMA ClearSurvivors ==
  ASSUME IInv, NEW K, ClearStep(K)
  PROVE  /\ \A v : Marked(v) => Lives(v)'
         /\ \A v \in K : v \in alloc => v \in Live'
         /\ \A o \in Live' : o \in alloc /\ (~iswhite(o) \/ o \in K)
         /\ \A x \in Obj : color'[x] = IF x \in K THEN "gray" ELSE color[x]
  BY TypesDisjoint, AllMarked, Whites DEF ClearStep, recolor, Live, Marked, Lives, isdead,
     iswhite, TypeOK, IInv

\* what remains in a weak table was marked, or is a string of K
LEMMA ClearWeak ==
  ASSUME IInv, NEW K, ClearStep(K), NEW t \in weak, NEW f \in Field, ref'[t][f] \in Obj,
         f = "key" => ref'[t]["val"] # NIL
  PROVE  Marked(ref'[t][f]) \/ (ref'[t][f] \in K /\ ref'[t][f] \in alloc)
<1>0. TypeOK /\ HeapOK /\ Safe
  BY Zenon DEF IInv
<1>1. /\ \A g \in Field :
              ref'[t][g] = IF \/ g = "val" /\ clearnode(t)
                              \/ g = "key" /\ clearnode(t) /\ ref[t]["key"] \in Obj
                              \/ g = "array" /\ cleararray(t)
                           THEN NIL ELSE ref[t][g]
      /\ NIL \notin Obj /\ "val" \in Field /\ "key" \in Field /\ "array" \in Field
  BY ClearHeap, TypesDisjoint, Zenon DEF Field
<1>2. /\ t \in Table /\ t \in Live /\ Live = alloc /\ \A v \in tablerefs(t) : Marked(v)
      /\ t \in Obj
  BY AllMarked, Zenon DEF ClearStep, Obj
<1>3. keptstrings(t) \subseteq K
  BY Zenon DEF ClearStep
<1>4. ref'[t][f] = ref[t][f] /\ ref[t][f] \in Obj
  BY <1>1, Zenon
<1>5. f \in {"metatable", "array", "key", "val"}
  <2>1. Only(t, {"metatable", "array", "key", "val"})
    BY <1>0, <1>2, Zenon DEF HeapOK, FieldsOK
  <2> QED BY <1>1, <1>4, <2>1, Zenon DEF Only
<1>6. f \in {"key", "val"} => ~clearnode(t) /\ ref[t]["val"] # NIL
  <2>1. CASE f = "val"
    BY <1>1, <1>4, <2>1, Zenon
  <2>2. CASE f = "key"
    BY <1>1, <1>4, <2>2, Zenon
  <2> QED BY <2>1, <2>2, Zenon
<1>7. ref[t][f] \in alloc
  BY <1>0, <1>2, <1>4, <1>6, Zenon DEF Safe, Lives
<1>8. CASE f = "metatable"
  BY <1>2, <1>4, <1>8, Zenon DEF tablerefs
<1>9. CASE f = "array"
  <2>1. CASE "v" \notin weakmode(t)
    BY <1>2, <1>4, <1>9, <2>1, Zenon DEF tablerefs
  <2>2. CASE "v" \in weakmode(t)
    <3>1. ~cleararray(t)
      BY <1>1, <1>4, <1>9, Zenon
    <3>2. CASE ref[t][f] \in String
      BY <1>3, <1>4, <1>7, <1>9, <2>2, <3>2, Zenon DEF keptstrings
    <3>3. CASE ref[t][f] \notin String
      BY <1>4, <1>7, <1>9, <2>2, <3>1, <3>3, Zenon DEF cleararray, iscleared, Marked
    <3> QED BY <3>2, <3>3, Zenon
  <2> QED BY <2>1, <2>2, Zenon
<1>10. CASE f \in {"key", "val"}
  <2>1. ~iscleared(ref[t]["key"], TRUE) /\ ~iscleared(ref[t]["val"], FALSE)
    BY <1>6, <1>10, Zenon DEF clearnode
  <2>2. CASE ref[t][f] \in String
    BY <1>3, <1>4, <1>6, <1>7, <1>10, <2>1, <2>2, Zenon DEF keptstrings
  <2>3. CASE ref[t][f] \notin String
    BY <1>4, <1>7, <1>10, <2>1, <2>3, Zenon DEF iscleared, Marked
  <2> QED BY <2>2, <2>3, Zenon
<1> QED BY <1>5, <1>8, <1>9, <1>10, Zenon

\* sweeplist on the objects S: with their threads' upvalues they are all; some are
\* freed, and upvalues that survive their thread are closed
SweepStep(S, all, freed, closed) ==
  /\ UNCHANGED <<basemt, co, atomicpc, currentwhite, gray, grayagain, weak, tmudata, ctx, prog>>
  /\ Sweeping /\ gcstate' \in {"sweepstring", "sweep", "finalize"}
  /\ S \subseteq sweepstrgc \cup sweepgc
  /\ sweepstrgc' = sweepstrgc \ S /\ sweepgc' = sweepgc \ S
  /\ gcstate' # "sweepstring" => sweepstrgc' = {}
  /\ gcstate' = "finalize" => sweepgc' = {}
  /\ all = withupvals(S)
  /\ freed = {o \in all : ~survives(o)}
  /\ closed = {u \in (all \cap Upval) \ freed : isopen(u) /\ loc[u][1] \in freed}
  /\ alloc' = alloc \ freed
  /\ color' = [o \in Obj |-> IF o \in freed THEN "white0"
                             ELSE IF o \in all THEN makewhite(o) ELSE color[o]]
  /\ ref' = [o \in Obj |-> IF o \in freed THEN NoRefs
                           ELSE IF o \in closed
                           THEN [NoRefs EXCEPT !["val"] = upvalue(o)] ELSE ref[o]]
  /\ loc' = [u \in Upval |-> IF u \in freed \cup closed THEN NIL ELSE loc[u]]
  /\ stack' = [th \in Thread |-> IF th \in freed THEN [i \in StkId |-> NIL] ELSE stack[th]]
  /\ finalized' = finalized \ freed
  /\ calls' = [u \in Udata |-> IF u \in freed THEN 0 ELSE calls[u]]

\* SweepString and Sweep are such steps
LEMMA SweepIs ==
  ASSUME IInv, SweepString \/ Sweep, UNCHANGED prog
  PROVE  \E S, all, freed, closed : SweepStep(S, all, freed, closed)
<1>0. SweepOK /\ TypeOK
  BY Zenon DEF IInv
<1>1. PICK S : /\ sweeplist(S) /\ Sweeping /\ gcstate' \in {"sweepstring", "sweep", "finalize"}
               /\ S \subseteq sweepstrgc \cup sweepgc
               /\ sweepstrgc' = sweepstrgc \ S /\ sweepgc' = sweepgc \ S
               /\ gcstate' # "sweepstring" => sweepstrgc' = {}
               /\ gcstate' = "finalize" => sweepgc' = {}
  <2>1. CASE SweepString
    BY <1>0, <2>1, Zenon DEF SweepString, SweepOK, Sweeping
  <2>2. CASE Sweep
    BY <1>0, <2>2, Zenon DEF Sweep, SweepOK, Sweeping
  <2> QED BY <2>1, <2>2, Zenon
<1> DEFINE all == withupvals(S)
           freed == {o \in all : ~survives(o)}
           closed == {u \in (all \cap Upval) \ freed : isopen(u) /\ loc[u][1] \in freed}
<1>2. /\ UNCHANGED <<basemt, co, atomicpc, currentwhite, gray, grayagain, weak, tmudata, ctx, prog>>
  BY <1>1, Zenon DEF sweeplist, lists
<1>3. SweepStep(S, all, freed, closed)
  BY <1>1, <1>2, Zenon DEF SweepStep, sweeplist
<1> QED BY <1>3, Zenon

\* what is freed was dead, and is of the lists that are being swept
LEMMA SweepFacts ==
  ASSUME IInv, NEW S, NEW all, NEW freed, NEW closed, SweepStep(S, all, freed, closed)
  PROVE  /\ UNCHANGED <<basemt, co, atomicpc, currentwhite, gray, grayagain, weak, tmudata, ctx, prog>>
         /\ atomicpc = 0 /\ gcstate # "propagate" /\ gcstate' # "propagate"
         /\ S \subseteq all /\ all \subseteq alloc /\ all \cap tmudata = {} /\ alloc \subseteq Obj
         /\ \A o \in all \ S : o \in Upval /\ isopen(o) /\ loc[o][1] \in S
         /\ \A u \in Upval : isopen(u) /\ loc[u][1] \in S => u \in all
         /\ freed \subseteq all /\ closed \subseteq all /\ closed \cap freed = {} /\ alloc' = alloc \ freed
         /\ \A u \in closed : u \in Upval /\ isopen(u) /\ u \in Live
         /\ \A u \in Upval : isopen(u) /\ loc[u][1] \in freed => u \in freed \cup closed
         /\ \A o \in freed : o \notin Live
         /\ Live \subseteq Live' /\ \A o \in Live' \ Live : o \in String /\ o \in all \ freed
         /\ \A o \in all \ freed : color'[o] = currentwhite
         /\ \A o \in alloc \ all : color'[o] = color[o]
<1>0. TypeOK /\ HeapOK /\ SweepOK /\ ColorsOK /\ Safe
  BY Zenon DEF IInv
<1>1. /\ UNCHANGED <<basemt, co, atomicpc, currentwhite, gray, grayagain, weak, tmudata, ctx, prog>>
      /\ gcstate # "propagate" /\ gcstate' # "propagate" /\ S \subseteq sweepstrgc \cup sweepgc
      /\ alloc' = alloc \ freed
  BY Zenon DEF SweepStep, Sweeping
<1>2. atomicpc = 0 /\ alloc \subseteq Obj
  BY <1>0, <1>1, Zenon DEF ColorsOK, TypeOK
<1>3. S \subseteq alloc /\ S \cap tmudata = {} /\ S \subseteq Obj
  <2>1. tmudata \cap String = {}
    BY <1>0, TypesDisjoint, Zenon DEF TypeOK
  <2> QED BY <1>0, <1>1, <1>2, <2>1, Zenon DEF SweepOK
<1>4. \A o : o \in all <=> o \in S \/ (o \in alloc /\ o \in Upval /\ isopen(o) /\ loc[o][1] \in S)
  <2>1. all = S \cup UNION {openupval(th) : th \in S \cap Thread}
    BY Zenon DEF SweepStep, withupvals
  <2>2. \A o : o \in alloc /\ o \in Upval /\ isopen(o) => loc[o][1] \in Thread
    BY <1>0, Zenon DEF TypeOK, isopen
  <2> QED BY <2>1, <2>2 DEF openupval
<1>5. /\ S \subseteq all /\ all \subseteq alloc
      /\ \A o \in all \ S : o \in Upval /\ isopen(o) /\ loc[o][1] \in S
      /\ \A u \in Upval : isopen(u) /\ loc[u][1] \in S => u \in all
  BY <1>0, <1>3, <1>4, Zenon DEF HeapOK
<1>6. all \cap tmudata = {}
  <2>1. tmudata \cap Upval = {}
    BY <1>0, TypesDisjoint, Zenon DEF TypeOK
  <2> QED BY <1>3, <1>5, <2>1, Zenon
<1>7. /\ \A o : o \in freed <=> o \in all /\ ~survives(o)
      /\ \A u : u \in closed <=> u \in all /\ u \in Upval /\ u \notin freed /\ isopen(u) /\ loc[u][1] \in freed
  BY Zenon DEF SweepStep
<1>8. freed \subseteq all /\ closed \subseteq all /\ closed \cap freed = {}
  BY <1>7, Zenon
<1>9. \A o \in freed : o \notin Live
  BY <1>7, Zenon DEF survives, Live
<1>10. \A u \in closed : u \in Upval /\ isopen(u) /\ u \in Live
  <2> TAKE u \in closed
  <2>1. u \in alloc /\ u \in Upval /\ isopen(u) /\ survives(u)
    BY <1>5, <1>7, Zenon
  <2>2. u # mainthread /\ u \notin FixedStr
    BY <2>1, TypesDisjoint, RootsAssumption, ModesAssumption, Zenon
  <2> QED BY <2>1, <2>2, Zenon DEF survives, Live
<1>11. \A u \in Upval : isopen(u) /\ loc[u][1] \in freed => u \in freed \cup closed
  <2> SUFFICES ASSUME NEW u \in Upval, isopen(u), loc[u][1] \in freed
               PROVE  u \in freed \cup closed
    BY Zenon
  <2>1. loc[u][1] \in Thread /\ loc[u][1] \in all
    BY <1>0, <1>8, Zenon DEF TypeOK, isopen
  <2>2. loc[u][1] \in S
    BY <1>5, <2>1, TypesDisjoint, Zenon
  <2> QED BY <1>5, <1>7, <2>2, Zenon
<1>12. /\ \A o \in all \ freed : color'[o] = currentwhite
       /\ \A o \in alloc \ all : color'[o] = color[o]
  <2>1. \A o \in Obj : color'[o] = IF o \in freed THEN "white0"
                             ELSE IF o \in all THEN currentwhite ELSE color[o]
    BY Zenon DEF SweepStep, makewhite
  <2> QED BY <1>2, <1>5, <1>8, <2>1, Zenon
<1>13. \A o \in Live : o \in Live'
  <2>1. currentwhite # otherwhite(currentwhite)
    BY <1>0, Whites, Zenon
  <2> QED BY <1>1, <1>9, <1>12, <2>1, Zenon DEF Live, isdead
<1>14. \A o \in Live' : o \notin Live => o \in String /\ o \in all \ freed
  <2> SUFFICES ASSUME NEW o \in Live', o \notin Live
               PROVE  o \in String /\ o \in all \ freed
    BY Zenon
  <2>1. o \in alloc \ freed /\ ~isdead(o)' /\ isdead(o)
    BY <1>1, Zenon DEF Live
  <2>2. o \in all
    BY <1>1, <1>12, <2>1, Zenon DEF isdead
  <2>3. survives(o)
    BY <1>7, <2>1, <2>2, Zenon
  <2>4. o # mainthread
    BY <1>0, Zenon DEF Safe
  <2> QED BY <2>1, <2>2, <2>3, <2>4, ModesAssumption, Zenon DEF survives
<1>15. Live \subseteq Live' /\ \A o \in Live' \ Live : o \in String /\ o \in all \ freed
  BY <1>13, <1>14, Zenon
<1> QED BY <1>1, <1>2, <1>5, <1>6, <1>8, <1>9, <1>10, <1>11, <1>12, <1>15, Zenon

\* the heap after it
LEMMA SweepHeap ==
  ASSUME IInv, NEW S, NEW all, NEW freed, NEW closed, SweepStep(S, all, freed, closed)
  PROVE  /\ TypeOK' /\ HeapOK'
         /\ \A x \in Obj \ (freed \cup closed) : ref'[x] = ref[x]
         /\ \A x \in freed : \A f \in Field : ref'[x][f] = NIL
         /\ \A x \in closed : ref'[x]["val"] = upvalue(x) /\ \A f \in Field \ {"val"} : ref'[x][f] = NIL
         /\ \A u \in Upval : loc'[u] = IF u \in freed \cup closed THEN NIL ELSE loc[u]
         /\ \A th \in Thread \ freed : stack'[th] = stack[th]
<1>0. TypeOK /\ HeapOK
  BY Zenon DEF IInv
<1>1. /\ UNCHANGED <<basemt, co, atomicpc, currentwhite, gray, grayagain, weak, tmudata, ctx, prog>>
      /\ all \subseteq alloc /\ all \cap tmudata = {} /\ alloc \subseteq Obj
      /\ freed \subseteq all /\ closed \subseteq all /\ closed \cap freed = {} /\ alloc' = alloc \ freed
      /\ \A u \in closed : u \in Upval /\ isopen(u) /\ u \in Live
      /\ \A u \in Upval : isopen(u) /\ loc[u][1] \in freed => u \in freed \cup closed
  BY SweepFacts
<1>2. ref' = [o \in Obj |-> IF o \in freed THEN NoRefs
                           ELSE IF o \in closed
                           THEN [NoRefs EXCEPT !["val"] = upvalue(o)] ELSE ref[o]]
  BY Zenon DEF SweepStep
<1>3. \A u \in closed : upvalue(u) \in Data
  BY <1>0, <1>1, UpvalueData, Zenon
<1>4. \A x \in Obj \ (freed \cup closed) : ref'[x] = ref[x]
  BY <1>2, Zenon
<1>5. \A x \in freed : \A f \in Field : ref'[x][f] = NIL
  <2>1. \A x \in freed : ref'[x] = NoRefs
    BY <1>1, <1>2, Zenon
  <2> QED BY <2>1, Zenon DEF NoRefs
<1>6. \A x \in closed : ref'[x]["val"] = upvalue(x) /\ \A f \in Field \ {"val"} : ref'[x][f] = NIL
  <2>1. \A x \in closed : ref'[x] = [NoRefs EXCEPT !["val"] = upvalue(x)]
    BY <1>1, <1>2, Zenon
  <2> QED BY <2>1, Zenon DEF NoRefs, Field
<1>7. \A u \in Upval : loc'[u] = IF u \in freed \cup closed THEN NIL ELSE loc[u]
  BY Zenon DEF SweepStep
<1>8. /\ \A th \in Thread \ freed : stack'[th] = stack[th]
      /\ \A th \in Thread \cap freed : \A i \in StkId : stack'[th][i] = NIL
  BY Zenon DEF SweepStep
<1>9. TypeOK'
  <2>1. ref' \in [Obj -> [Field -> Value]]
    <3>1. NIL \in Value
      BY Zenon DEF Value
    <3>2. NoRefs \in [Field -> Value] /\ \A o \in closed : [NoRefs EXCEPT !["val"] = upvalue(o)] \in [Field -> Value]
      BY <1>3, <3>1, Zenon DEF NoRefs, Field, Data
    <3>3. \A o \in Obj : ref[o] \in [Field -> Value]
      BY <1>0, Zenon DEF TypeOK
    <3> QED BY <1>2, <3>2, <3>3, Zenon
  <2>2. loc' \in [Upval -> (Thread \X StkId) \cup {NIL}]
    BY <1>0, Zenon DEF SweepStep, TypeOK
  <2>3. color' \in [Obj -> White \cup {"gray", "black"}]
    <3>1. "white0" \in White /\ currentwhite \in White
      BY <1>0, Zenon DEF White, TypeOK
    <3> QED BY <1>0, <3>1, Zenon DEF SweepStep, TypeOK, makewhite
  <2>4. stack' \in [Thread -> [StkId -> Data]]
    <3>1. NIL \in Data
      BY TypesDisjoint, Zenon DEF Data, Value, Obj
    <3>2. \A th \in Thread : stack[th] \in [StkId -> Data]
      BY <1>0, Zenon DEF TypeOK
    <3>3. [i \in StkId |-> NIL] \in [StkId -> Data]
      BY <3>1, Zenon
    <3> QED BY <3>2, <3>3, Zenon DEF SweepStep
  <2>5. calls' \in [Udata -> Nat] /\ finalized' \subseteq Udata
    BY <1>0, Zenon DEF SweepStep, TypeOK
  <2>6. /\ gcstate' \in {"pause", "propagate", "sweepstring", "sweep", "finalize"}
        /\ sweepstrgc' \subseteq String /\ sweepgc' \subseteq Obj /\ alloc' \subseteq Obj
    BY <1>0, <1>1, Zenon DEF SweepStep, TypeOK
  <2> QED BY <1>0, <1>1, <2>1, <2>2, <2>3, <2>4, <2>5, <2>6, Zenon DEF TypeOK
<1>10. FieldsOK'
  <2>1. SUFFICES ASSUME NEW x \in Obj
      PROVE
    /\ x \in Table => /\ Only(x, {"metatable", "array", "key", "val"})'
                      /\ ref'[x]["metatable"] \in NILor(Table)
                      /\ \A f \in {"array", "key", "val"} : ref'[x][f] \in Data
    /\ x \in Udata => /\ Only(x, {"metatable", "env"})'
                      /\ ref'[x]["metatable"] \in NILor(Table)
                      /\ ref'[x]["env"] \in NILor(Table)
    /\ x \in Closure => /\ Only(x, {"env", "val", "p"})'
                        /\ ref'[x]["env"] \in NILor(Table)
                        /\ ref'[x]["p"] \in NILor(Proto)
    /\ x \in Proto \cup Upval => Only(x, {"val"})' /\ ref'[x]["val"] \in Data
    /\ x \in Upval /\ isopen(x)' => ref'[x]["val"] = NIL
    /\ x \in Thread => Only(x, {"env"})' /\ ref'[x]["env"] \in NILor(Table)
    /\ x \in String \/ x \notin alloc' => Only(x, {})'
    BY Zenon DEF FieldsOK
  <2>2. CASE x \in closed
    <3>1. /\ x \in Upval /\ ~isopen(x)' /\ x \in alloc'
          /\ x \notin Table \cup Udata \cup Closure \cup Proto \cup Thread \cup String
      BY <1>1, <1>7, <2>2, TypesDisjoint, Zenon DEF isopen
    <3>2. ref'[x]["val"] \in Data /\ Only(x, {"val"})'
      BY <1>3, <1>6, <2>2, Zenon DEF Only
    <3> QED BY <3>1, <3>2, Zenon
  <2>3. CASE x \in freed
    <3>1. NIL \in Data /\ NIL \in NILor(Table) /\ NIL \in NILor(Proto)
      BY TypesDisjoint, Zenon DEF Data, Value, Obj, NILor
    <3> QED BY <1>5, <2>3, <3>1, Zenon DEF Only, Field
  <2>4. CASE x \notin freed \cup closed
    <3>1. ref'[x] = ref[x] /\ (x \in Upval => loc'[x] = loc[x]) /\ (x \notin alloc' => x \notin alloc)
      BY <1>1, <1>4, <1>7, <2>4, Zenon
    <3> QED BY <1>0, <3>1, SMTT(30), Zenon DEF HeapOK, FieldsOK, Only, isopen
  <2> QED BY <2>2, <2>3, <2>4, Zenon
<1>11. HeapOK'
  <2>1. \A th \in Thread \ alloc' : \A i \in StkId : stack'[th][i] = NIL
    BY <1>0, <1>1, <1>8 DEF HeapOK
  <2>2. \A u \in Upval : isopen(u)' => u \in alloc' /\ loc'[u][1] \in alloc'
    <3> TAKE u \in Upval
    <3> HAVE isopen(u)'
    <3>1. u \notin freed \cup closed /\ loc'[u] = loc[u] /\ isopen(u)
      BY <1>7, Zenon DEF isopen
    <3> QED BY <1>0, <1>1, <3>1, Zenon DEF HeapOK
  <2>3. tmudata' \subseteq alloc'
    BY <1>0, <1>1, Zenon DEF HeapOK
  <2> QED BY <1>0, <1>1, <1>10, <2>1, <2>2, <2>3, Zenon DEF HeapOK
<1> QED BY <1>4, <1>5, <1>6, <1>7, <1>8, <1>9, <1>11, Zenon

\* sweeping leaves no reference to what it freed
LEMMA SweepSafe ==
  ASSUME IInv, NEW S, NEW all, NEW freed, NEW closed, SweepStep(S, all, freed, closed)
  PROVE  Safe'
<1>0. TypeOK /\ HeapOK /\ Safe
  BY Zenon DEF IInv
<1>1. /\ UNCHANGED <<basemt, co>> /\ alloc \subseteq Obj
      /\ freed \subseteq all /\ closed \subseteq all /\ closed \cap freed = {}
      /\ \A u \in closed : u \in Upval /\ isopen(u) /\ u \in Live
      /\ \A u \in Upval : isopen(u) /\ loc[u][1] \in freed => u \in freed \cup closed
      /\ \A o \in freed : o \notin Live
      /\ Live \subseteq Live' /\ \A o \in Live' \ Live : o \in String /\ o \in all \ freed
      /\ all \subseteq alloc
  BY SweepFacts
<1>2. /\ \A x \in Obj \ (freed \cup closed) : ref'[x] = ref[x]
      /\ \A x \in closed : ref'[x]["val"] = upvalue(x) /\ \A f \in Field \ {"val"} : ref'[x][f] = NIL
      /\ \A u \in Upval : loc'[u] = IF u \in freed \cup closed THEN NIL ELSE loc[u]
      /\ \A th \in Thread \ freed : stack'[th] = stack[th]
  BY SweepHeap
<1>3. \A v : Lives(v) => Lives(v)'
  BY <1>1, Zenon DEF Lives
<1>4. Lives(NIL)
  BY TypesDisjoint, Zenon DEF Lives
<1>5. ASSUME NEW x \in Live', NEW f \in Field, x \in Table /\ f = "key" => ref'[x]["val"] # NIL
      PROVE  Lives(ref'[x][f])
  <2>1. CASE x \in closed
    <3>1. x \in Live \cap Upval
      BY <1>1, <2>1, Zenon
    <3>2. Lives(upvalue(x))
      BY <1>0, <3>1, Zenon DEF Safe
    <3> QED BY <1>2, <1>4, <2>1, <3>2, Zenon
  <2>2. CASE x \in Live /\ x \notin closed
    <3>1. x \in Obj /\ x \notin freed
      BY <1>0, <1>1, <2>2, Zenon DEF Live, TypeOK
    <3>2. ref'[x] = ref[x]
      BY <1>2, <2>2, <3>1, Zenon
    <3> QED BY <1>0, <1>5, <2>2, <3>2, Zenon DEF Safe
  <2>3. CASE x \notin Live /\ x \notin closed
    <3>1. x \in String /\ x \in Obj /\ x \notin freed
      BY <1>1, <2>3, Zenon DEF Obj
    <3>2. ref'[x] = ref[x]
      BY <1>2, <2>3, <3>1, Zenon
    <3>3. ref[x][f] = NIL
      BY <1>0, <3>1, Zenon DEF HeapOK, FieldsOK, Only
    <3> QED BY <1>4, <3>2, <3>3, Zenon
  <2> QED BY <2>1, <2>2, <2>3, Zenon
<1>6. \A th \in Live' \cap Thread : \A i \in StkId : Lives(stack'[th][i])
  <2> TAKE th \in Live' \cap Thread
  <2>1. th \in Live /\ th \notin freed
    BY <1>1, TypesDisjoint, Zenon
  <2> QED BY <1>0, <1>2, <2>1, Zenon DEF Safe
<1>7. \A u \in Live' \cap Upval : Lives(upvalue(u)')
  <2> TAKE u \in Live' \cap Upval
  <2>1. u \in Live /\ u \notin freed /\ u \in Obj
    BY <1>1, TypesDisjoint, Zenon DEF Obj
  <2>2. upvalue(u)' = upvalue(u)
    <3>1. CASE u \in closed
      BY <1>2, <3>1, Zenon DEF upvalue, isopen
    <3>2. CASE u \notin closed
      <4>1. loc'[u] = loc[u] /\ ref'[u] = ref[u]
        BY <1>2, <2>1, <3>2, Zenon
      <4>2. CASE isopen(u)
        <5>1. loc[u][1] \in Thread /\ loc[u][1] \notin freed
          BY <1>0, <1>1, <2>1, <3>2, <4>2, Zenon DEF TypeOK, isopen
        <5>2. stack'[loc[u][1]] = stack[loc[u][1]]
          BY <1>2, <5>1, Zenon
        <5> QED BY <4>1, <5>2, Zenon DEF upvalue, isopen
      <4>3. CASE ~isopen(u)
        BY <4>1, <4>3, Zenon DEF upvalue, isopen
      <4> QED BY <4>2, <4>3, Zenon
    <3> QED BY <3>1, <3>2, Zenon
  <2> QED BY <1>0, <2>1, <2>2, Zenon DEF Safe
<1>8. /\ mainthread \in Live' /\ registry \in Live' /\ Lives(basemt)
      /\ \A i \in 1 .. Len(co) : co[i] \in Live'
  BY <1>0, <1>1, Zenon DEF Safe
<1>9. /\ \A x \in Live' : \A f \in Field :
           (x \in Table /\ f = "key" => ref'[x]["val"] # NIL) => Lives(ref[x][f])'
      /\ \A th \in Live' \cap Thread : \A i \in StkId : Lives(stack[th][i])'
      /\ \A u \in Live' \cap Upval : Lives(upvalue(u))'
  BY <1>3, <1>5, <1>6, <1>7, Zenon
<1>10. Lives(basemt)'
  BY <1>1, <1>3, <1>8, Zenon
<1> QED BY <1>1, <1>8, <1>9, <1>10, Zenon DEF Safe

\* sweeping keeps the invariant
LEMMA SweepInv ==
  ASSUME IInv, SweepString \/ Sweep, UNCHANGED prog
  PROVE  IInv'
<1>0. TypeOK /\ HeapOK /\ SweepOK /\ ColorsOK /\ Safe /\ CallsOK
  BY Zenon DEF IInv
<1>1. PICK S, all, freed, closed : SweepStep(S, all, freed, closed)
  BY SweepIs, Zenon
<1>2. /\ UNCHANGED <<basemt, co, atomicpc, currentwhite, gray, grayagain, weak, tmudata, ctx, prog>>
      /\ atomicpc = 0 /\ gcstate # "propagate" /\ gcstate' # "propagate"
      /\ S \subseteq all /\ all \subseteq alloc /\ all \cap tmudata = {} /\ alloc \subseteq Obj
      /\ \A o \in all \ S : o \in Upval /\ isopen(o) /\ loc[o][1] \in S
      /\ \A u \in Upval : isopen(u) /\ loc[u][1] \in S => u \in all
      /\ freed \subseteq all /\ closed \subseteq all /\ alloc' = alloc \ freed
      /\ \A o \in all \ freed : color'[o] = currentwhite
      /\ \A o \in alloc \ all : color'[o] = color[o]
  BY <1>1, SweepFacts
<1>3. /\ TypeOK' /\ HeapOK'
      /\ \A u \in Upval : loc'[u] = IF u \in freed \cup closed THEN NIL ELSE loc[u]
  BY <1>1, SweepHeap, SMTT(30), Zenon
<1>4. /\ sweepstrgc' = sweepstrgc \ S /\ sweepgc' = sweepgc \ S
      /\ gcstate' # "sweepstring" => sweepstrgc' = {}
      /\ gcstate' \in {"sweepstring", "sweep", "finalize"}
      /\ gcstate' = "finalize" => sweepgc' = {}
      /\ finalized' = finalized \ freed
      /\ \A u \in Udata : calls'[u] = IF u \in freed THEN 0 ELSE calls[u]
  BY <1>1, Zenon DEF SweepStep
<1>5. SweepOK'
  <2>1. \A u \in Upval : isopen(u)' => isopen(u)
    BY <1>3, Zenon DEF isopen
  <2>2. sweepstrgc' \subseteq alloc' \cap String
    <3>1. \A o \in sweepstrgc \ S : o \in alloc /\ o \in String /\ o \notin Upval
      BY <1>0, TypesDisjoint, Zenon DEF SweepOK
    <3> QED BY <1>2, <1>4, <3>1, Zenon
  <2>3. sweepgc' \subseteq alloc' \ (String \cup tmudata')
    <3>1. \A o \in sweepgc \ S : o \in alloc /\ o \notin String \cup tmudata /\ ~(o \in Upval /\ isopen(o))
      BY <1>0, Zenon DEF SweepOK
    <3> QED BY <1>2, <1>4, <3>1, Zenon
  <2>4. \A u \in sweepgc' \cap Upval : ~isopen(u)'
    BY <1>0, <1>4, <2>1, Zenon DEF SweepOK
  <2>5. ~Sweeping' => sweepgc' = {}
    BY <1>4, Zenon DEF Sweeping
  <2> QED BY <1>4, <2>2, <2>3, <2>4, <2>5, Zenon DEF SweepOK
<1>6. ColorsOK'
  <2>0. currentwhite # "black" /\ currentwhite # "gray"
    BY <1>0, Whites, Zenon
  <2>1. \A o \in alloc' : isblack(o)' \/ isgray(o)' => o \in alloc \ all /\ color'[o] = color[o]
    BY <1>2, <2>0, Zenon DEF isblack, isgray
  <2>2. \A o \in alloc \ all : o \in Upval => loc'[o] = loc[o]
    BY <1>2, <1>3, Zenon
  <2>3. \A o \in alloc' : isblack(o)' => o \notin Thread /\ (o \in Upval => ~isopen(o)')
    BY <1>0, <2>1, <2>2, Zenon DEF ColorsOK, isblack, isopen
  <2>4. \A o \in alloc' : isgray(o)' => o \notin Udata /\ (o \in Upval => isopen(o)')
    BY <1>0, <2>1, <2>2, Zenon DEF ColorsOK, isgray, isopen
  <2>5. \A u \in tmudata' : isblack(u)' \/ color'[u] = currentwhite'
    <3>1. \A u \in tmudata : u \in alloc \ all
      BY <1>0, <1>2, Zenon DEF HeapOK
    <3> QED BY <1>0, <1>2, <3>1, Zenon DEF ColorsOK, isblack
  <2>6. ASSUME NEW o \in alloc' \ tmudata' PROVE color'[o] = currentwhite' \/ Pending(o)'
    <3>1. CASE o \in all
      BY <1>2, <2>6, <3>1, Zenon
    <3>2. CASE o \notin all
      <4>1. o \in alloc \ tmudata /\ color'[o] = color[o]
        BY <1>2, <2>6, <3>2, Zenon
      <4>2. color[o] = currentwhite \/ Pending(o)
        BY <1>0, <1>2, <4>1, Zenon DEF ColorsOK
      <4>3. CASE Pending(o)
        <5>1. CASE o \in sweepstrgc \cup sweepgc
          BY <1>2, <1>4, <3>2, <5>1, Zenon DEF Pending
        <5>2. CASE o \in Upval /\ isopen(o) /\ loc[o][1] \in sweepgc
          <6>1. loc[o][1] \notin S /\ loc'[o] = loc[o]
            BY <1>2, <2>2, <3>2, <4>1, <5>2, Zenon
          <6> QED BY <1>4, <5>2, <6>1, Zenon DEF Pending, isopen
        <5> QED BY <4>3, <5>1, <5>2, Zenon DEF Pending
      <4> QED BY <1>2, <4>1, <4>2, <4>3, Zenon
    <3> QED BY <3>1, <3>2, Zenon
  <2> QED BY <1>2, <2>3, <2>4, <2>5, <2>6, Zenon DEF ColorsOK
<1>7. Safe'
  BY <1>1, SweepSafe, Zenon
<1>8. MarkOK' /\ GclistExclusive'
  BY <1>2, Zenon DEF MarkOK, GclistExclusive
<1>9. CallsOK'
  <2> SUFFICES ASSUME NEW u \in Udata
               PROVE  /\ calls'[u] <= 1
                      /\ calls'[u] = 1 => u \in finalized'
                      /\ u \in tmudata => u \in finalized' /\ calls'[u] = 0
    BY <1>2, Zenon DEF CallsOK
  <2>1. CASE u \in freed
    BY <1>2, <1>4, <2>1
  <2>2. CASE u \notin freed
    BY <1>0, <1>4, <2>2, Zenon DEF CallsOK
  <2> QED BY <2>1, <2>2, Zenon
<1> QED BY <1>3, <1>5, <1>6, <1>7, <1>8, <1>9, Zenon DEF IInv

\* calling a finalizer keeps the invariant: the udata goes back to the list rootgc
\* in the current white
LEMMA GCTMInv ==
  ASSUME IInv, GCTM, UNCHANGED prog
  PROVE  IInv'
<1>0. TypeOK /\ HeapOK /\ SweepOK /\ ColorsOK /\ Safe /\ CallsOK
  BY Zenon DEF IInv
<1>1. PICK u \in tmudata, i \in prog.slots :
       /\ tmudata' = tmudata \ {u}
       /\ color' = [color EXCEPT ![u] = makewhite(u)]
       /\ IF gcTM(u)
          THEN /\ stack' = [stack EXCEPT ![L][i] = u]
               /\ calls' = [calls EXCEPT ![u] = @ + 1]
               /\ ctx' = IF top = "mark" THEN [ctx EXCEPT ![Len(ctx)] = "finalizer"] ELSE ctx
          ELSE UNCHANGED <<stack, calls, ctx>>
  BY Zenon DEF GCTM
<1>2. /\ gcstate = "finalize" /\ AtRest
      /\ UNCHANGED <<alloc, ref, loc, basemt, co, gcstate, atomicpc, currentwhite, finalized,
                     gray, grayagain, weak, sweepstrgc, sweepgc, prog>>
  BY Zenon DEF GCTM, lists, sweeps, AtRest
<1>3. /\ u \in Udata /\ u \in Obj /\ u \in alloc /\ u \in Data /\ u \notin Upval
      /\ L \in Thread /\ L \in alloc /\ i \in StkId
  <2>1. u \in Udata /\ u \in alloc
    BY <1>0, Zenon DEF TypeOK, HeapOK
  <2>2. u \in Obj /\ u \notin Upval
    BY <2>1, TypesDisjoint, Zenon DEF Obj
  <2>3. L \in Thread /\ L \in alloc /\ i \in StkId
    BY Named, Zenon DEF Live
  <2> QED BY <2>1, <2>2, <2>3, Zenon DEF Data, Value
<1>4. /\ Live = alloc /\ atomicpc = 0 /\ sweepstrgc = {} /\ sweepgc = {}
      /\ \A o \in alloc \ tmudata : color[o] = currentwhite
  BY <1>0, <1>2, NoneDead, Zenon DEF ColorsOK, SweepOK, Sweeping
<1>5. /\ \A x \in Obj : color'[x] = IF x = u THEN currentwhite ELSE color[x]
      /\ color' \in [Obj -> White \cup {"gray", "black"}]
  BY <1>0, <1>1, <1>3, Zenon DEF TypeOK, makewhite
<1>6. /\ stack' \in [Thread -> [StkId -> Data]]
      /\ \A th \in Thread : \A j \in StkId :
            stack'[th][j] = stack[th][j] \/ (th = L /\ stack'[th][j] = u)
  <2>1. stack' = stack \/ stack' = [stack EXCEPT ![L][i] = u]
    BY <1>1, Zenon
  <2>2. stack \in [Thread -> [StkId -> Data]]
    BY <1>0, Zenon DEF TypeOK
  <2>3. CASE stack' = stack
    BY <2>2, <2>3, Zenon
  <2>4. CASE stack' = [stack EXCEPT ![L][i] = u]
    BY <1>3, <2>2, <2>4, Zenon
  <2> QED BY <2>1, <2>3, <2>4, Zenon
<1>7. ctx' \in Seq({"sweep", "mark", "finalizer"}) /\ Len(ctx') <= MaxNest
  <2>1. CASE ctx' = ctx
    BY <1>0, <2>1, Zenon DEF TypeOK
  <2>2. CASE top = "mark" /\ ctx' = [ctx EXCEPT ![Len(ctx)] = "finalizer"]
    <3>1. ctx # <<>>
      BY <2>2, Zenon DEF top
    <3> QED BY <2>2, <3>1, Replaced, Zenon
  <2> QED BY <1>1, <2>1, <2>2, Zenon
<1>8. calls[u] = 0 /\ u \in finalized
  BY <1>0, <1>3, Zenon DEF CallsOK
<1>9. /\ calls' \in [Udata -> Nat]
      /\ \A x \in Udata : calls'[x] = calls[x] \/ (x = u /\ calls'[x] = 1)
  BY <1>0, <1>1, <1>3, <1>8, SMTT(30), Zenon DEF TypeOK
<1>10. TypeOK'
  <2>1. tmudata' \subseteq Udata
    BY <1>0, <1>1, Zenon DEF TypeOK
  <2> QED BY <1>0, <1>2, <1>5, <1>6, <1>7, <1>9, <2>1, Zenon DEF TypeOK
<1>11. HeapOK'
  <2>1. FieldsOK'
    BY <1>0, <1>2, Zenon DEF HeapOK, FieldsOK, Only, isopen
  <2>2. \A th \in Thread \ alloc' : \A j \in StkId : stack'[th][j] = NIL
    BY <1>0, <1>2, <1>3, <1>6, Zenon DEF HeapOK
  <2> QED BY <1>0, <1>1, <1>2, <2>1, <2>2, Zenon DEF HeapOK, isopen
<1>12. SweepOK'
  BY <1>2, <1>4, Zenon DEF SweepOK, Sweeping
<1>13. ColorsOK'
  <2>0. currentwhite # "black" /\ currentwhite # "gray"
    BY <1>0, Whites, Zenon
  <2>1. \A o \in alloc : o \in Obj
    BY <1>0, Zenon DEF TypeOK
  <2>2. \A o \in alloc' \ tmudata' : color'[o] = currentwhite'
    BY <1>1, <1>2, <1>4, <1>5, <2>1, Zenon
  <2>3. \A x \in tmudata' : isblack(x)' \/ color'[x] = currentwhite'
    <3>1. \A x \in tmudata : x \in Obj
      BY <1>0, Zenon DEF TypeOK, Obj
    <3> QED BY <1>0, <1>1, <1>2, <1>5, <3>1, Zenon DEF ColorsOK, isblack
  <2>4. \A o \in alloc' : isblack(o)' => o \notin Thread /\ (o \in Upval => ~isopen(o)')
    BY <1>0, <1>2, <1>5, <2>0, <2>1, Zenon DEF ColorsOK, isblack, isopen
  <2>5. \A o \in alloc' : isgray(o)' => o \notin Udata /\ (o \in Upval => isopen(o)')
    BY <1>0, <1>2, <1>5, <2>0, <2>1, Zenon DEF ColorsOK, isgray, isopen
  <2> QED BY <1>2, <1>4, <2>2, <2>3, <2>4, <2>5, Zenon DEF ColorsOK
<1>14. Safe'
  <2>1. Live' = Live
    <3>1. currentwhite # otherwhite(currentwhite)
      BY <1>0, Whites, Zenon
    <3>2. \A o \in alloc : ~isdead(o) /\ o \in Obj
      BY <1>0, <1>4, Zenon DEF Live, TypeOK
    <3> QED BY <1>2, <1>4, <1>5, <3>1, <3>2, Zenon DEF Live, isdead
  <2>2. \A th \in Live \cap Thread : \A j \in StkId : Lives(stack'[th][j])
    BY <1>0, <1>3, <1>4, <1>6, SMTT(30), Zenon DEF Safe, Lives
  <2>3. \A x \in Live \cap Upval : Lives(upvalue(x)')
    <3> TAKE x \in Live \cap Upval
    <3>1. CASE isopen(x)
      <4>1. loc[x][1] \in Thread /\ loc[x][2] \in StkId /\ loc[x][1] \in Live
        <5>1. x \in Upval /\ loc[x] \in Thread \X StkId
          BY <1>0, <3>1, Zenon DEF TypeOK, isopen
        <5>2. loc[x][1] \in alloc
          BY <1>0, <3>1, <5>1, Zenon DEF HeapOK
        <5> QED BY <1>4, <5>1, <5>2, Zenon
      <4>2. upvalue(x)' = stack'[loc[x][1]][loc[x][2]]
        BY <1>2, <3>1, Zenon DEF upvalue, isopen
      <4> QED BY <2>2, <4>1, <4>2, Zenon
    <3>2. CASE ~isopen(x)
      <4>1. upvalue(x)' = upvalue(x)
        BY <1>2, <3>2, Zenon DEF upvalue, isopen
      <4> QED BY <1>0, <4>1, Zenon DEF Safe
    <3> QED BY <3>1, <3>2, Zenon
  <2>4. /\ mainthread \in Live /\ registry \in Live /\ Lives(basemt')
        /\ \A j \in 1 .. Len(co') : co'[j] \in Live
        /\ \A x \in Live : \A f \in Field :
             (x \in Table /\ f = "key" => ref'[x]["val"] # NIL) => Lives(ref'[x][f])
    BY <1>0, <1>2, Zenon DEF Safe
  <2> QED BY <2>1, <2>2, <2>3, <2>4, Zenon DEF Safe, Lives
<1>15. MarkOK' /\ GclistExclusive'
  BY <1>2, Zenon DEF MarkOK, GclistExclusive
<1>16. CallsOK'
  <2> SUFFICES ASSUME NEW x \in Udata
               PROVE  /\ calls'[x] <= 1
                      /\ calls'[x] = 1 => x \in finalized
                      /\ x \in tmudata \ {u} => x \in finalized /\ calls'[x] = 0
    BY <1>1, <1>2, Zenon DEF CallsOK
  <2>1. /\ calls[x] <= 1 /\ (calls[x] = 1 => x \in finalized)
        /\ x \in tmudata => x \in finalized /\ calls[x] = 0
    BY <1>0, Zenon DEF CallsOK
  <2>2. calls'[x] = calls[x] \/ (x = u /\ calls'[x] = 1)
    BY <1>9, Zenon
  <2> QED BY <1>8, <2>1, <2>2
<1> QED BY <1>10, <1>11, <1>12, <1>13, <1>14, <1>15, <1>16, Zenon DEF IInv

=============================================================================
