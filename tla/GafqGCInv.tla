---------------------------- MODULE GafqGCInv ----------------------------
(***************************************************************************)
(* The inductive invariant of the collector (GafqGC), and the steps of the *)
(* program that allocate, move values, enter or leave threads, store and   *)
(* close upvalues: they keep it.                                           *)
(***************************************************************************)
EXTENDS GafqGC, TLAPS

\* a member of S, or nil
NILor(S) == S \cup {NIL}

\* o refers to nothing outside the fields F
Only(o, F) == \A f \in Field \ F : ref[o][f] = NIL

\* what each type of object may hold in its fields; an open upvalue holds its value
\* in the stack, and what is not allocated holds nothing
FieldsOK ==
  \A o \in Obj :
    /\ o \in Table => /\ Only(o, {"metatable", "array", "key", "val"})
                      /\ ref[o]["metatable"] \in NILor(Table)
                      /\ \A f \in {"array", "key", "val"} : ref[o][f] \in Data
    /\ o \in Udata => /\ Only(o, {"metatable", "env"})
                      /\ ref[o]["metatable"] \in NILor(Table)
                      /\ ref[o]["env"] \in NILor(Table)
    /\ o \in Closure => /\ Only(o, {"env", "val", "p"})
                        /\ ref[o]["env"] \in NILor(Table)
                        /\ ref[o]["p"] \in NILor(Proto)
    /\ o \in Proto \cup Upval => Only(o, {"val"}) /\ ref[o]["val"] \in Data
    /\ o \in Upval /\ isopen(o) => ref[o]["val"] = NIL
    /\ o \in Thread => Only(o, {"env"}) /\ ref[o]["env"] \in NILor(Table)
    /\ o \in String \/ o \notin alloc => Only(o, {})

\* the shape of the heap: fields, stacks, open upvalues of allocated threads, udata
\* awaiting their finalizers still allocated, the main thread at the bottom
HeapOK ==
  /\ FieldsOK
  /\ \A th \in Thread \ alloc : \A i \in StkId : stack[th][i] = NIL
  /\ \A u \in Upval : isopen(u) => u \in alloc /\ loc[u][1] \in alloc
  /\ tmudata \subseteq alloc
  /\ co[1] = mainthread

\* what is still to be swept
Pending(o) ==
  \/ o \in sweepstrgc \cup sweepgc
  \/ o \in Upval /\ isopen(o) /\ loc[o][1] \in sweepgc

\* the two phases in which objects are freed
Sweeping == gcstate \in {"sweepstring", "sweep"}

\* what remains to be swept is allocated, is swept at the right phase, and is
\* neither an open upvalue nor a udata of tmudata, which are not on the list
SweepOK ==
  /\ sweepstrgc \subseteq alloc \cap String
  /\ sweepgc \subseteq alloc \ (String \cup tmudata)
  /\ \A u \in sweepgc \cap Upval : ~isopen(u)
  /\ gcstate # "sweepstring" => sweepstrgc = {}
  /\ ~Sweeping => sweepgc = {}

\* colors: threads and open upvalues are never black, udata never gray; outside
\* the mark phase all that is not to be swept has the current white; in the mark
\* phase nothing is dead
ColorsOK ==
  /\ \A o \in alloc : isblack(o) => o \notin Thread /\ (o \in Upval => ~isopen(o))
  /\ \A o \in alloc : isgray(o) => o \notin Udata /\ (o \in Upval => isopen(o))
  /\ \A u \in tmudata : isblack(u) \/ color[u] = currentwhite
  /\ gcstate # "propagate" => \A o \in alloc \ tmudata : color[o] = currentwhite \/ Pending(o)
  /\ gcstate = "propagate" => \A o \in alloc : ~isdead(o)
  /\ atomicpc # 0 => gcstate = "propagate"

\* v is not an object, or it is a live one
Lives(v) == v \in Obj => v \in Live

\* every reference that can be followed is to a live object
Safe ==
  /\ mainthread \in Live /\ registry \in Live /\ Lives(basemt)
  /\ \A i \in 1 .. Len(co) : co[i] \in Live
  /\ \A o \in Live : \A f \in Field :
       (o \in Table /\ f = "key" => ref[o]["val"] # NIL) => Lives(ref[o][f])
  /\ \A th \in Live \cap Thread : \A i \in StkId : Lives(stack[th][i])
  /\ \A u \in Live \cap Upval : Lives(upvalue(u))

\* v is not an object, or it is an allocated one that is not white
Marked(v) == v \in Obj => v \in alloc /\ ~iswhite(v)

\* the mark phase: what is black refers to nothing white, and each part of atomic
\* that is done has left what it promises to the next ones
MarkOK ==
  gcstate = "propagate" =>
    /\ Marked(mainthread) /\ Marked(registry)
    /\ \A o \in alloc \ tmudata : isblack(o) => \A f \in Field : Marked(ref[o][f])
    /\ atomicpc >= 1 => \A u \in alloc \cap Upval : isgray(u) => Marked(upvalue(u))
    /\ atomicpc >= 2 => /\ Marked(L) /\ Marked(basemt)
                        /\ \A t \in weak : \A v \in tablerefs(t) : Marked(v)
    /\ atomicpc >= 3 => /\ grayagain \subseteq Thread
                        /\ \A th \in grayagain : \A v \in stackrefs(th) : Marked(v)
    /\ atomicpc >= 4 => \A u \in tmudata : isblack(u) /\ \A f \in Field : Marked(ref[u][f])

\* a finalizer that ran, or waits in tmudata, belongs to a udata marked finalized
CallsOK ==
  \A u \in Udata : /\ calls[u] <= 1
                   /\ calls[u] = 1 => u \in finalized
                   /\ u \in tmudata => u \in finalized /\ calls[u] = 0

\* the inductive invariant of the collector
IInv == TypeOK /\ HeapOK /\ SweepOK /\ ColorsOK /\ Safe /\ MarkOK /\ GclistExclusive /\ CallsOK

\* the value of an upvalue is a value of the language
LEMMA UpvalueData ==
  ASSUME TypeOK, HeapOK
  PROVE  \A u \in Upval : upvalue(u) \in Data
  BY TypesDisjoint DEF TypeOK, HeapOK, FieldsOK, upvalue, isopen, Obj

\* reached(S) is what reallymarkobject makes not white when it is given S: with a
\* udata its metatable and environment, with an upvalue its value
LEMMA MarkReach ==
  ASSUME TypeOK, HeapOK, NEW S
  PROVE  LET M == reached(S) IN
         /\ M \subseteq alloc /\ \A o \in M : iswhite(o)
         /\ \A v \in S : v \in alloc /\ iswhite(v) => v \in M
         /\ \A u \in M \cap Upval : upvalue(u) \in alloc /\ iswhite(upvalue(u)) => upvalue(u) \in M
         /\ \A u \in M \cap Udata : \A f \in Field :
               ref[u][f] \in alloc /\ iswhite(ref[u][f]) => ref[u][f] \in M
         /\ S \cap Upval = {} => M \cap Upval = {}
<1> DEFINE W(T) == {o \in T \cap alloc : iswhite(o)}
           A == W(S)
           B == A \cup W({upvalue(u) : u \in A \cap Upval})
           C == W(UNION {{ref[u]["metatable"], ref[u]["env"]} : u \in B \cap Udata})
           M == B \cup C
<1>1. reached(S) = M
  BY Zenon DEF reached
<1>2. \A u \in Udata : /\ ref[u]["metatable"] \in Table \cup {NIL}
                       /\ ref[u]["env"] \in Table \cup {NIL}
                       /\ \A f \in Field \ {"metatable", "env"} : ref[u][f] = NIL
  BY Zenon DEF HeapOK, FieldsOK, Only, NILor, Obj
<1>3. /\ M \subseteq alloc /\ \A o \in M : iswhite(o)
      /\ \A v \in S : v \in alloc /\ iswhite(v) => v \in M
  BY Zenon
<1>4. C \subseteq Table
  BY <1>2, TypesDisjoint DEF TypeOK, Obj
<1>5. M \cap Upval \subseteq A
  BY <1>4, TypesDisjoint, UpvalueData DEF Data
<1>6. \A u \in M \cap Upval : upvalue(u) \in alloc /\ iswhite(upvalue(u)) => upvalue(u) \in M
  BY <1>5, Zenon
<1>7. \A u \in M \cap Udata : u \in B
  BY <1>4, TypesDisjoint, Zenon
<1>8. \A u \in M \cap Udata : \A f \in Field :
               ref[u][f] \in alloc /\ iswhite(ref[u][f]) => ref[u][f] \in M
  BY <1>2, <1>7, TypesDisjoint DEF TypeOK
<1>9. S \cap Upval = {} => M \cap Upval = {}
  BY <1>5, Zenon
<1> HIDE DEF M
<1> QED BY <1>1, <1>3, <1>6, <1>8, <1>9, Zenon

\* each conjunct holds as long as the state it speaks of does not change: the heap,
LEMMA HeapKeep ==
  ASSUME HeapOK, UNCHANGED <<alloc, ref, stack, loc, tmudata, co>>
  PROVE  HeapOK'
  BY Zenon DEF HeapOK, FieldsOK, Only, isopen

\* ... the references,
LEMMA SafeKeep ==
  ASSUME Safe, UNCHANGED <<alloc, ref, stack, loc, basemt, co, color, currentwhite>>
  PROVE  Safe'
  BY Zenon DEF Safe, Lives, Live, isdead, upvalue, isopen

\* ... the sweep lists,
LEMMA SweepKeep ==
  ASSUME SweepOK, UNCHANGED <<alloc, loc, tmudata, gcstate, sweepstrgc, sweepgc>>
  PROVE  SweepOK'
  BY Zenon DEF SweepOK, Sweeping, isopen

\* ... the colors,
LEMMA ColorsKeep ==
  ASSUME ColorsOK, UNCHANGED <<alloc, loc, color, currentwhite, tmudata, gcstate,
                               atomicpc, sweepstrgc, sweepgc>>
  PROVE  ColorsOK'
  BY Zenon DEF ColorsOK, Pending, isopen, isblack, isgray, isdead

\* ... what is marked,
LEMMA MarkKeep ==
  ASSUME MarkOK, UNCHANGED <<alloc, ref, stack, loc, basemt, co, color, tmudata, gcstate,
                             atomicpc, weak, grayagain>>
  PROVE  MarkOK'
  BY DEF MarkOK, Marked, isopen, isblack, isgray, iswhite, upvalue, L, tablerefs, weakmode,
     stackrefs

\* ... the gray lists,
LEMMA ListsKeep ==
  ASSUME GclistExclusive, UNCHANGED <<alloc, color, gcstate, gray, grayagain, weak>>
  PROVE  GclistExclusive'
  BY Zenon DEF GclistExclusive, isgray

\* ... the finalizers
LEMMA CallsKeep ==
  ASSUME CallsOK, UNCHANGED <<calls, finalized, tmudata>>
  PROVE  CallsOK'
  BY Zenon DEF CallsOK

\* the end of the finalize phase keeps the invariant
LEMMA EndCycleInv ==
  ASSUME IInv, EndCycle, UNCHANGED prog
  PROVE  IInv'
<1> USE DEF EndCycle, heap, lists, sweeps, IInv
<1> QED
  BY HeapKeep, SafeKeep, CallsKeep, Zenon DEF TypeOK, SweepOK, Sweeping, isopen, ColorsOK,
     Pending, isblack, isgray, isdead, MarkOK, GclistExclusive

\* leaving a context leaves a sequence of contexts ...
LEMMA Returned ==
  ASSUME IInv, ctx # <<>>
  PROVE  LET c == SubSeq(ctx, 1, Len(ctx) - 1) IN
         c \in Seq({"sweep", "mark", "finalizer"}) /\ Len(c) <= MaxNest
  BY ModesAssumption DEF IInv, TypeOK

\* ... and so does replacing the innermost one
LEMMA Replaced ==
  ASSUME IInv, ctx # <<>>, NEW s \in {"sweep", "mark", "finalizer"}
  PROVE  LET c == [ctx EXCEPT ![Len(ctx)] = s] IN
         c \in Seq({"sweep", "mark", "finalizer"}) /\ Len(c) <= MaxNest
  BY ModesAssumption DEF IInv, TypeOK

\* the return of a finalizer, its error and the end of gafqC_fullgc keep the
\* invariant
LEMMA ContextsInv ==
  ASSUME IInv, FinalizerReturns \/ FinalizerFails \/ FullGCEnd, UNCHANGED prog
  PROVE  IInv'
<1> USE DEF FinalizerReturns, FinalizerFails, FullGCEnd, heap, lists, sweeps, IInv
<1>1. ctx' \in Seq({"sweep", "mark", "finalizer"}) /\ Len(ctx') <= MaxNest
  BY Returned, Replaced, Zenon DEF top
<1> QED
  BY <1>1, HeapKeep, SafeKeep, CallsKeep, SweepKeep, ColorsKeep, MarkKeep, ListsKeep, Zenon DEF
     TypeOK

\* the list rootgc with the string table and the stacks of its threads holds all
\* but the udata of tmudata: gafqC_fullgc sweeps all
LEMMA SweepsAll ==
  ASSUME IInv
  PROVE  LET S == {o \in alloc \ (String \cup tmudata) : o \in Upval => ~isopen(o)} IN
         /\ S \subseteq alloc \ (String \cup tmudata) /\ \A u \in S \cap Upval : ~isopen(u)
         /\ \A o \in alloc \ tmudata :
              o \in String \cup S \/ (o \in Upval /\ isopen(o) /\ loc[o][1] \in S)
  BY TypesDisjoint, Zenon DEF IInv, TypeOK, HeapOK, isopen

\* gafqC_fullgc keeps the invariant, from whatever phase it starts
LEMMA FullGCInv ==
  ASSUME IInv, FullGC, UNCHANGED prog
  PROVE  IInv'
<1> USE DEF FullGC, heap, lists, sweeps, IInv
<1>1. TypeOK'
  BY SweepsAll, ModesAssumption DEF TypeOK
<1>2. HeapOK' /\ Safe' /\ CallsOK'
  BY HeapKeep, SafeKeep, CallsKeep, Zenon
<1>3. CASE gcstate \in {"pause", "propagate"}
  BY <1>1, <1>2, <1>3, SweepsAll DEF SweepOK, Sweeping, isopen, Pending, ProgramRuns, ColorsOK,
     isblack, isgray, MarkOK, GclistExclusive
<1>4. CASE gcstate \notin {"pause", "propagate"}
  BY <1>1, <1>2, <1>4, SweepKeep, ColorsKeep, MarkKeep, ListsKeep, Zenon
<1> QED BY <1>3, <1>4, Zenon

\* what the program can name is live
LEMMA Named ==
  ASSUME IInv
  PROVE  /\ L \in Thread \cap Live
         /\ \A v \in instack : v \in Data /\ Lives(v)
         /\ \A v \in loaded : v \in Data /\ Lives(v)
         /\ \A o \in named : o \in Live /\ o \in Data /\ o \in Obj
         /\ ref[L]["env"] \in NILor(Table) /\ Lives(ref[L]["env"])
         /\ prog.slots \subseteq StkId /\ prog.values \subseteq Obj \cup Prim
<1>1. L \in Thread \cap Live
  BY DEF IInv, TypeOK, L, Safe
<1> QED
  BY <1>1, ModesAssumption, TypesDisjoint, RootsAssumption DEF IInv, TypeOK, loaded, Lives,
     Data, Value, Obj, named, Safe, NILor, instack, HeapOK, FieldsOK, Field

\* what it can fetch from a live object is live
LEMMA Fetched ==
  ASSUME IInv, NEW o \in Live, o \notin Proto, NEW v \in fetch(o)
  PROVE  v \in Data /\ Lives(v)
<1>1. o \in Obj
  BY Zenon DEF IInv, TypeOK, Live
<1>2. CASE o \in Closure /\ ref[o]["val"] \in Upval
  BY <1>1, <1>2, TypesDisjoint, UpvalueData DEF IInv, Safe, Lives, Obj, Field, HeapOK, FieldsOK,
     fetch, NILor, Data, Value
<1>3. CASE ~(o \in Closure /\ ref[o]["val"] \in Upval)
  BY <1>1, <1>3, TypesDisjoint DEF fetch, IInv, Safe, HeapOK, FieldsOK, Only, NILor, Obj, Field,
     Data, TypeOK
<1> QED BY <1>2, <1>3, Zenon

\* a store to a stack keeps the invariant without a barrier: threads are never black
LEMMA StackStore ==
  ASSUME IInv, atomicpc = 0,
         UNCHANGED <<alloc, ref, loc, basemt, color, gcstate, atomicpc, currentwhite, finalized,
                     gray, grayagain, weak, tmudata, sweepstrgc, sweepgc, ctx, calls, prog>>,
         stack' \in [Thread -> [StkId -> Data]],
         \A th \in Thread, i \in StkId :
            stack'[th][i] = stack[th][i] \/ (th \in alloc /\ Lives(stack'[th][i])),
         co' \in Seq(Thread), Len(co') > 0, co'[1] = mainthread,
         \A i \in 1 .. Len(co') : co'[i] \in Live
  PROVE  IInv'
<1> USE DEF IInv
<1>1. TypeOK'
  BY Zenon DEF TypeOK
<1>2. HeapOK'
  BY DEF HeapOK, FieldsOK, Only, isopen
<1>3. Live' = Live
  BY Zenon DEF Live, isdead
<1>4. Safe'
  <2>1. \A u \in Live \cap Upval : Lives(upvalue(u)')
    <3> TAKE u \in Live \cap Upval
    <3>1. CASE isopen(u)
      <4>1. loc[u][1] \in Thread /\ loc[u][2] \in StkId
        BY <3>1, Zenon DEF TypeOK, isopen
      <4> QED BY <3>1, <4>1, Zenon DEF Safe, upvalue, isopen
    <3>2. CASE ~isopen(u)
      BY <3>2, Zenon DEF Safe, upvalue, isopen
    <3> QED BY <3>1, <3>2, Zenon
  <2>2. \A th \in Live \cap Thread : \A i \in StkId : Lives(stack'[th][i])
    BY Zenon DEF Safe
  <2> QED BY <1>3, <2>1, <2>2, Zenon DEF Safe, Lives
<1>5. SweepOK' /\ ColorsOK' /\ GclistExclusive' /\ CallsOK'
  BY SweepKeep, ColorsKeep, ListsKeep, CallsKeep, Zenon
<1>6. MarkOK'
  <2>1. \A v : Marked(v)' <=> Marked(v)
    BY Zenon DEF Marked, iswhite
  <2>2. \A o : isblack(o)' <=> isblack(o)
    BY Zenon DEF isblack
  <2> QED BY <2>1, <2>2 DEF MarkOK
<1> QED BY <1>1, <1>2, <1>4, <1>5, <1>6, Zenon

\* ... so moving a value that the program can fetch to its stack does
LEMMA MoveInv ==
  ASSUME IInv, Move, UNCHANGED prog
  PROVE  IInv'
<1>1. PICK i \in prog.slots, v \in loaded \cup named \cup {basemt} \cup UNION {fetch(o) : o \in named \ Proto} :
        stack' = [stack EXCEPT ![L][i] = v]
  BY Zenon DEF Move
<1>2. v \in Data /\ Lives(v)
  <2>1. CASE v \in loaded \cup named
    BY <2>1, Named, Zenon DEF Lives
  <2>2. CASE v = basemt
    BY <2>2, TypesDisjoint, Zenon DEF IInv, Safe, TypeOK, Data, Value, Obj
  <2>3. CASE v \in UNION {fetch(o) : o \in named \ Proto}
    BY <2>3, Named, Fetched, Zenon
  <2> QED BY <2>1, <2>2, <2>3, Zenon
<1>3. L \in Thread /\ L \in alloc /\ i \in StkId
  BY Named, Zenon DEF Live
<1>4. /\ stack' \in [Thread -> [StkId -> Data]]
      /\ \A th \in Thread, j \in StkId :
            stack'[th][j] = stack[th][j] \/ (th \in alloc /\ Lives(stack'[th][j]))
  BY <1>1, <1>2, <1>3, Zenon DEF IInv, TypeOK
<1>5. /\ co' \in Seq(Thread) /\ Len(co') > 0 /\ co'[1] = mainthread
      /\ \A j \in 1 .. Len(co') : co'[j] \in Live
  BY Zenon DEF Move, IInv, TypeOK, HeapOK, Safe
<1> QED BY <1>4, <1>5, StackStore, Zenon DEF Move, collector, sweeps, Program, ProgramRuns

\* ... and resuming a thread
LEMMA ResumeInv ==
  ASSUME IInv, Resume, UNCHANGED prog
  PROVE  IInv'
<1>1. PICK th \in instack \cap Thread, v \in loaded \ Proto, i \in prog.slots :
        co' = Append(co, th) /\ stack' = [stack EXCEPT ![th][i] = v]
  BY Zenon DEF Resume
<1>2. v \in Data /\ Lives(v) /\ th \in Live /\ th \in alloc /\ i \in StkId
  BY Named, Zenon DEF Live, Lives, Obj
<1>3. /\ stack' \in [Thread -> [StkId -> Data]]
      /\ \A t \in Thread, j \in StkId :
            stack'[t][j] = stack[t][j] \/ (t \in alloc /\ Lives(stack'[t][j]))
  BY <1>1, <1>2, Zenon DEF IInv, TypeOK
<1> QED
  BY <1>1, <1>2, <1>3, StackStore DEF Resume, collector, sweeps, Program, ProgramRuns, IInv,
     TypeOK, HeapOK, Safe

\* ... and leaving it
LEMMA YieldInv ==
  ASSUME IInv, Yield, UNCHANGED prog
  PROVE  IInv'
<1>1. PICK v \in loaded \ Proto, i \in prog.slots :
        stack' = [stack EXCEPT ![co[Len(co) - 1]][i] = v]
  BY Zenon DEF Yield
<1>2. /\ co \in Seq(Thread) /\ Len(co) \in Nat /\ Len(co) > 1 /\ co[1] = mainthread
      /\ co' = SubSeq(co, 1, Len(co) - 1)
      /\ \A j \in 1 .. Len(co) : co[j] \in Live /\ co[j] \in Thread
  <2>1. co \in Seq(Thread) /\ Len(co) > 1 /\ co' = SubSeq(co, 1, Len(co) - 1)
    BY Zenon DEF Yield, IInv, TypeOK
  <2>2. co[1] = mainthread /\ \A j \in 1 .. Len(co) : co[j] \in Live
    BY Zenon DEF IInv, HeapOK, Safe
  <2>3. Len(co) \in Nat /\ \A j \in 1 .. Len(co) : co[j] \in Thread
    BY <2>1
  <2> QED BY <2>1, <2>2, <2>3, Zenon
<1>3. v \in Data /\ Lives(v) /\ i \in StkId
  BY Named, Zenon
<1>4. /\ stack' \in [Thread -> [StkId -> Data]]
      /\ \A t \in Thread, j \in StkId :
            stack'[t][j] = stack[t][j] \/ (t \in alloc /\ Lives(stack'[t][j]))
  BY <1>1, <1>2, <1>3, SMTT(30), Zenon DEF IInv, TypeOK, Live
<1>5. /\ co' \in Seq(Thread) /\ Len(co') > 0 /\ co'[1] = mainthread
      /\ \A j \in 1 .. Len(co') : co'[j] \in Live
  <2>1. /\ co' \in Seq(Thread) /\ Len(co') = Len(co) - 1
        /\ \A j \in 1 .. Len(co) - 1 : co'[j] = co[j]
    BY <1>2
  <2> QED BY <1>2, <2>1
<1> QED BY <1>4, <1>5, StackStore, Zenon DEF Yield, collector, sweeps, Program, ProgramRuns

\* the two whites differ from each other, from gray and from black
LEMMA Whites ==
  ASSUME TypeOK
  PROVE  /\ currentwhite \in White /\ otherwhite(currentwhite) \in White
         /\ currentwhite # otherwhite(currentwhite)
         /\ otherwhite(otherwhite(currentwhite)) = currentwhite
         /\ White = {currentwhite, otherwhite(currentwhite)}
         /\ "gray" \notin White /\ "black" \notin White
  BY Zenon DEF TypeOK, White, otherwhite

\* a step that adds the objects N, or revives them, in the current white
AllocStep(N) ==
  /\ N \subseteq Obj
  /\ UNCHANGED <<basemt, co, gcstate, atomicpc, currentwhite, finalized, gray, grayagain,
                 weak, tmudata, sweepstrgc, sweepgc, ctx, calls, prog>>
  /\ alloc' = alloc \cup N
  /\ color' \in [Obj -> White \cup {"gray", "black"}]
  /\ \A o \in Obj : color'[o] = IF o \in N THEN revived(o) ELSE color[o]
  /\ ref' \in [Obj -> [Field -> Value]]
  /\ \A o \in Obj : o \notin N \/ o \in alloc => ref'[o] = ref[o]
  /\ FieldsOK'
  /\ \A o \in N \ alloc : \A f \in Field : ref'[o][f] \in Obj => ref'[o][f] \in Live \cup N
  /\ stack' \in [Thread -> [StkId -> Data]]
  /\ \A th \in Thread, i \in StkId :
       stack'[th][i] = stack[th][i] \/ (th = L /\ stack'[th][i] \in N)
  /\ loc' \in [Upval -> (Thread \X StkId) \cup {NIL}]
  /\ \A u \in Upval : \/ loc'[u] = loc[u]
                      \/ u \in N \ alloc /\ loc'[u] \in Thread \X StkId /\ loc'[u][1] = L
  /\ N \cap alloc \subseteq String \cup openupval(L)

\* such a step keeps the invariant
LEMMA Allocates ==
  ASSUME IInv, atomicpc = 0, NEW N, AllocStep(N)
  PROVE  IInv'
<1>0. TypeOK /\ HeapOK /\ SweepOK /\ ColorsOK /\ Safe /\ MarkOK /\ GclistExclusive /\ CallsOK
  BY Zenon DEF IInv
<1>1. /\ alloc \subseteq Obj /\ L \in Thread /\ L \in alloc /\ L \in Live
  BY <1>0, Named, Zenon DEF TypeOK, Live
<1>2. TypeOK'
  BY <1>0, Zenon DEF TypeOK, AllocStep
<1>a. /\ \A u \in Upval : \/ loc'[u] = loc[u]
                          \/ u \in N \ alloc /\ loc'[u] \in Thread \X StkId /\ loc'[u][1] = L
      /\ \A th \in Thread, i \in StkId :
            stack'[th][i] = stack[th][i] \/ (th = L /\ stack'[th][i] \in N)
      /\ alloc' = alloc \cup N
  BY Zenon DEF AllocStep
<1>3. HeapOK'
  <2>1. \A th \in Thread \ alloc' : \A i \in StkId : stack'[th][i] = NIL
    BY <1>0, <1>a, <1>1 DEF HeapOK
  <2>2. \A u \in Upval : isopen(u)' => u \in alloc' /\ loc'[u][1] \in alloc'
    BY <1>0, <1>a, <1>1, Zenon DEF HeapOK, isopen
  <2>3. FieldsOK' /\ tmudata' \subseteq alloc' /\ co'[1] = mainthread
    BY <1>0, <1>a, Zenon DEF HeapOK, AllocStep
  <2> QED BY <2>1, <2>2, <2>3, Zenon DEF HeapOK
<1>4. \A o \in N : color'[o] = currentwhite \/ (o \in alloc /\ ~isdead(o) /\ color'[o] = color[o])
  BY Zenon DEF revived, AllocStep
<1>5. \A o \in alloc : o \notin N => color'[o] = color[o]
  BY <1>1, Zenon DEF AllocStep
<1>6. Live' = Live \cup N
  <2>1. currentwhite' = currentwhite
    BY Zenon DEF AllocStep
  <2>2. currentwhite # otherwhite(currentwhite)
    BY <1>0, Whites, Zenon
  <2> QED BY <1>a, <1>4, <1>5, <2>1, <2>2 DEF Live, isdead
<1>7. \A o \in alloc : ref'[o] = ref[o]
  BY <1>1, Zenon DEF AllocStep
<1>8. Safe'
  <2>1. \A o \in Live' : \A f \in Field :
          (o \in Table /\ f = "key" => ref'[o]["val"] # NIL) /\ ref'[o][f] \in Obj => ref'[o][f] \in Live'
    <3> TAKE o \in Live'
    <3> TAKE f \in Field
    <3>1. CASE o \in N \ alloc
      BY <1>6, <3>1, Zenon DEF AllocStep
    <3>2. CASE o \in Live
      BY <1>0, <1>6, <1>7, <3>2, Zenon DEF Safe, Lives, Live
    <3>3. CASE o \in N \cap alloc
      <4>1. ref'[o] = ref[o] /\ o \in Obj
        BY <1>1, <1>7, <3>3, Zenon
      <4>2. o \in String \/ (o \in Upval /\ isopen(o))
        BY <3>3, Zenon DEF AllocStep, openupval
      <4>3. ref[o][f] = NIL
        BY <1>0, <4>1, <4>2, Zenon DEF HeapOK, FieldsOK, Only
      <4> QED BY <4>1, <4>3, TypesDisjoint, Zenon
    <3> QED BY <1>6, <3>1, <3>2, <3>3, Zenon
  <2>2. \A th \in Live' \cap Thread : \A i \in StkId : stack'[th][i] \in Obj => stack'[th][i] \in Live'
    <3> TAKE th \in Live' \cap Thread
    <3> TAKE i \in StkId
    <3>1. CASE th \in Live
      BY <1>0, <1>a, <1>6, <3>1, Zenon DEF Safe, Lives
    <3>2. CASE th \notin Live
      <4>1. N \cap alloc \subseteq String \cup Upval
        BY Zenon DEF AllocStep, openupval
      <4>2. th \in N /\ th \notin alloc /\ th # L
        BY <1>1, <1>6, <3>2, <4>1, TypesDisjoint, Zenon
      <4>3. stack'[th][i] = NIL
        BY <1>0, <1>a, <4>2 DEF HeapOK
      <4> QED BY <4>3, TypesDisjoint, Zenon
    <3> QED BY <3>1, <3>2, Zenon
  <2>3. \A u \in Live' \cap Upval : upvalue(u)' \in Obj => upvalue(u)' \in Live'
    <3> TAKE u \in Live' \cap Upval
    <3>0. loc'[u] \in (Thread \X StkId) \cup {NIL}
      BY Zenon DEF AllocStep
    <3>1. CASE loc'[u] # NIL /\ loc'[u][1] = L
      <4>1. loc'[u][2] \in StkId
        BY <3>0, <3>1, Zenon
      <4>2. upvalue(u)' = stack'[L][loc'[u][2]]
        BY <3>1, Zenon DEF upvalue, isopen
      <4> QED BY <1>1, <1>6, <2>2, <4>1, <4>2, Zenon
    <3>2. CASE loc'[u] # NIL /\ loc'[u][1] # L
      <4>1. loc'[u] = loc[u] /\ u \in alloc
        BY <1>0, <1>a, <3>2, Zenon DEF HeapOK, isopen
      <4>2. loc[u][1] \in Thread /\ loc[u][2] \in StkId /\ loc[u][1] # L /\ loc[u] # NIL
        BY <3>0, <3>2, <4>1, Zenon
      <4>3. upvalue(u)' = upvalue(u)
        BY <1>a, <4>1, <4>2 DEF upvalue, isopen
      <4>4. u \notin N
        <5>1. u \notin String
          BY TypesDisjoint, Zenon
        <5> QED BY <4>1, <4>2, <5>1, Zenon DEF AllocStep, openupval
      <4>5. u \in Live
        BY <1>6, <4>4, Zenon
      <4> QED BY <1>0, <1>6, <4>3, <4>5, Zenon DEF Safe, Lives
    <3>3. CASE loc'[u] = NIL
      <4>1. upvalue(u)' = ref'[u]["val"] /\ u \notin Table /\ "val" \in Field
        BY <3>3, TypesDisjoint, Zenon DEF upvalue, isopen, Field
      <4> QED BY <2>1, <4>1, Zenon
    <3> QED BY <3>1, <3>2, <3>3, Zenon
  <2>4. /\ mainthread \in Live' /\ registry \in Live' /\ (basemt' \in Obj => basemt' \in Live')
        /\ \A i \in 1 .. Len(co') : co'[i] \in Live'
    BY <1>0, <1>6, Zenon DEF Safe, Lives, AllocStep
  <2> QED BY <2>1, <2>2, <2>3, <2>4, Zenon DEF Safe, Lives
<1>9. \A u \in Upval \cap alloc : loc'[u] = loc[u]
  BY <1>a, Zenon
<1>10. UNCHANGED <<gcstate, atomicpc, tmudata, sweepstrgc, sweepgc, currentwhite>>
  BY Zenon DEF AllocStep
<1>11. SweepOK'
  BY <1>0, <1>a, <1>9, <1>10, Zenon DEF SweepOK, Sweeping, isopen
<1>12. ColorsOK'
  <2>1. \A o \in alloc' : color'[o] = currentwhite \/ (o \in alloc /\ color'[o] = color[o])
    BY <1>a, <1>4, <1>5, Zenon
  <2>a. currentwhite \notin {"gray", "black"} /\ currentwhite # otherwhite(currentwhite)
    BY <1>0, Whites, Zenon
  <2>2. \A o \in alloc' : isblack(o)' => o \notin Thread /\ (o \in Upval => ~isopen(o)')
    BY <1>0, <1>9, <2>a, <2>1, Zenon DEF ColorsOK, isblack, isopen
  <2>3. \A o \in alloc' : isgray(o)' => o \notin Udata /\ (o \in Upval => isopen(o)')
    BY <1>0, <1>9, <2>a, <2>1, Zenon DEF ColorsOK, isgray, isopen
  <2>4. \A u \in tmudata : isblack(u)' \/ color'[u] = currentwhite
    BY <1>0, <1>a, <2>1, Zenon DEF ColorsOK, isblack, HeapOK
  <2>5. gcstate # "propagate" =>
          \A o \in alloc' \ tmudata : color'[o] = currentwhite \/ Pending(o)'
    <3>1. \A o \in alloc : Pending(o) => Pending(o)'
      BY <1>9, <1>10, Zenon DEF Pending, isopen
    <3> QED BY <1>0, <2>1, <3>1, Zenon DEF ColorsOK
  <2>6. gcstate = "propagate" => \A o \in alloc' : ~isdead(o)'
    BY <1>0, <1>10, <2>a, <2>1, Zenon DEF ColorsOK, isdead
  <2> QED BY <1>0, <1>10, <2>2, <2>3, <2>4, <2>5, <2>6, Zenon DEF ColorsOK
<1>13. gcstate = "propagate" => \A o \in alloc : color'[o] = color[o]
  <2>1. gcstate = "propagate" => \A o \in alloc : ~isdead(o)
    BY <1>0, Zenon DEF ColorsOK
  <2> QED BY <1>1, <1>5, <2>1, Zenon DEF AllocStep, revived
<1>14. MarkOK'
  <2> SUFFICES ASSUME gcstate = "propagate"
               PROVE  /\ Marked(mainthread)' /\ Marked(registry)'
                      /\ \A o \in alloc' \ tmudata : isblack(o)' => \A f \in Field : Marked(ref[o][f])'
    BY <1>10 DEF MarkOK
  <2>1. \A v : Marked(v) => (v \in Obj => v \in alloc' /\ ~(color'[v] \in White))
    BY <1>a, <1>13, Zenon DEF Marked, iswhite
  <2>2. \A o \in alloc' : isblack(o)' => o \in alloc /\ isblack(o)
    <3>1. currentwhite # "black"
      BY <1>0, Whites, Zenon
    <3> QED BY <1>a, <1>4, <1>13, <3>1, Zenon DEF isblack
  <2>3. /\ Marked(mainthread) /\ Marked(registry)
        /\ \A o \in alloc \ tmudata : isblack(o) => \A f \in Field : Marked(ref[o][f])
    BY <1>0, Zenon DEF MarkOK
  <2>4. Marked(mainthread)' /\ Marked(registry)'
    BY <2>1, <2>3, Zenon DEF Marked, iswhite
  <2> SUFFICES ASSUME NEW o \in alloc' \ tmudata, isblack(o)', NEW f \in Field
               PROVE  Marked(ref[o][f])'
    BY <2>4, Zenon
  <2>5. Marked(ref[o][f]) /\ ref'[o][f] = ref[o][f]
    BY <1>7, <2>2, <2>3, Zenon
  <2> QED BY <2>1, <2>5, Zenon DEF Marked, iswhite
<1>15. GclistExclusive'
  <2> SUFFICES ASSUME gcstate = "propagate"
               PROVE  {o \in alloc' \cap Traversed : isgray(o)'} = {o \in alloc \cap Traversed : isgray(o)}
    BY <1>0, Zenon DEF GclistExclusive, AllocStep
  <2>1. \A o \in alloc' \ alloc : ~isgray(o)'
    <3>1. currentwhite # "gray"
      BY <1>0, Whites, Zenon
    <3> QED BY <1>a, <1>4, <3>1, Zenon DEF isgray
  <2> QED BY <1>a, <1>13, <2>1, Zenon DEF isgray
<1>16. CallsOK'
  BY <1>0, CallsKeep, Zenon DEF AllocStep
<1> QED BY <1>2, <1>3, <1>8, <1>11, <1>12, <1>14, <1>15, <1>16, Zenon DEF IInv

\* the fields r are ones that an object o may have
NewRefs(o, r) ==
  /\ r \in [Field -> Value]
  /\ o \in Table => /\ \A f \in Field \ {"metatable", "array", "key", "val"} : r[f] = NIL
                    /\ r["metatable"] \in NILor(Table)
                    /\ \A f \in {"array", "key", "val"} : r[f] \in Data
  /\ o \in Udata => /\ \A f \in Field \ {"metatable", "env"} : r[f] = NIL
                    /\ r["metatable"] \in NILor(Table) /\ r["env"] \in NILor(Table)
  /\ o \in Closure => /\ \A f \in Field \ {"env", "val", "p"} : r[f] = NIL
                      /\ r["env"] \in NILor(Table) /\ r["p"] \in NILor(Proto)
  /\ o \in Proto \cup Upval => /\ \A f \in Field \ {"val"} : r[f] = NIL
                               /\ r["val"] \in Data
  /\ o \in Thread => /\ \A f \in Field \ {"env"} : r[f] = NIL
                     /\ r["env"] \in NILor(Table)
  /\ o \in String => \A f \in Field : r[f] = NIL

\* an object that gets such fields leaves the heap well formed
LEMMA NewFields ==
  ASSUME TypeOK, HeapOK, NEW o \in Obj, NEW r, NewRefs(o, r), o \notin Upval,
         ref' = [ref EXCEPT ![o] = r], o \in alloc', alloc \subseteq alloc',
         \A u \in Upval : isopen(u)' => isopen(u) \/ u \notin alloc
  PROVE  FieldsOK' /\ ref' \in [Obj -> [Field -> Value]]
  BY DEF TypeOK, NewRefs, FieldsOK, Only, HeapOK, Field

\* new tables, udata, functions and threads keep the invariant
LEMMA NewObjectInv ==
  ASSUME IInv, NewObject, UNCHANGED prog
  PROVE  IInv'
<1>0. PICK o \in (prog.values \cap (Traversed \cup Udata)) \ alloc, i \in prog.slots :
        \E v \in IF o \in Closure THEN loaded \ Proto ELSE {NIL} :
          /\ link(o, [NoRefs EXCEPT !["val"] = v,
                      !["env"] = IF o \in Table \cup Proto THEN NIL ELSE ref[L]["env"]], i)
          /\ color' = [color EXCEPT ![o] = currentwhite]
  BY Zenon DEF NewObject
<1>1. PICK v \in IF o \in Closure THEN loaded \ Proto ELSE {NIL} :
        /\ link(o, [NoRefs EXCEPT !["val"] = v,
                    !["env"] = IF o \in Table \cup Proto THEN NIL ELSE ref[L]["env"]], i)
        /\ color' = [color EXCEPT ![o] = currentwhite]
  BY <1>0, Zenon
<1> DEFINE r == [NoRefs EXCEPT !["val"] = v,
                    !["env"] = IF o \in Table \cup Proto THEN NIL ELSE ref[L]["env"]]
<1>2. /\ TypeOK /\ HeapOK /\ L \in Thread /\ L \in alloc /\ i \in StkId /\ o \in Obj /\ o \notin alloc
      /\ o \notin String \cup Upval /\ NIL \in Data /\ NIL \in Value /\ NIL \notin Obj
  BY <1>1, Named, TypesDisjoint, Zenon DEF IInv, Traversed, Obj, Live, Data, Value
<1>3. /\ v \in Data /\ Lives(v)
      /\ ref[L]["env"] \in NILor(Table) /\ Lives(ref[L]["env"]) /\ ref[L]["env"] \in Value
  BY <1>1, <1>2, Named, Zenon DEF Lives, NILor, Value, Obj
<1>4. /\ r["val"] = v /\ r["env"] = (IF o \in Table \cup Proto THEN NIL ELSE ref[L]["env"])
      /\ \A f \in Field \ {"val", "env"} : r[f] = NIL
      /\ r \in [Field -> Value]
  BY <1>2, <1>3, Zenon DEF NoRefs, Field, Data
<1>5. NewRefs(o, r)
  BY <1>1, <1>2, <1>3, <1>4, TypesDisjoint, Zenon DEF NewRefs, NILor, Field
<1>6. \A f \in Field : r[f] \in Obj => r[f] \in Live
  BY <1>2, <1>3, <1>4, Zenon DEF Lives
<1>7. /\ alloc' = alloc \cup {o} /\ ref' = [ref EXCEPT ![o] = r]
      /\ stack' = [stack EXCEPT ![L][i] = o] /\ loc' = loc
  BY <1>1, Zenon DEF link, NewObject
<1> HIDE DEF r
<1>8. FieldsOK' /\ ref' \in [Obj -> [Field -> Value]]
  BY <1>2, <1>5, <1>7, NewFields, Zenon DEF isopen
<1>9. /\ color' \in [Obj -> White \cup {"gray", "black"}]
      /\ \A x \in Obj : color'[x] = IF x \in {o} THEN revived(x) ELSE color[x]
  BY <1>1, <1>2, Whites, Zenon DEF TypeOK, revived
<1>10. /\ \A x \in Obj : x \notin {o} \/ x \in alloc => ref'[x] = ref[x]
       /\ \A x \in {o} \ alloc : \A f \in Field : ref'[x][f] \in Obj => ref'[x][f] \in Live \cup {o}
  BY <1>2, <1>6, <1>7, SMTT(30), Zenon DEF TypeOK
<1>11. AllocStep({o})
  BY <1>2, <1>7, <1>8, <1>9, <1>10 DEF NewObject, collector, sweeps, AllocStep, TypeOK, Data,
     Value
<1> QED BY <1>11, Allocates, Zenon DEF NewObject, Program, ProgramRuns

\* ... and strings, which gafqS_newlstr may revive in the middle of a sweep
LEMMA NewStringInv ==
  ASSUME IInv, NewString, UNCHANGED prog
  PROVE  IInv'
<1>1. PICK s \in String \cap prog.values, i \in prog.slots :
        /\ alloc' = alloc \cup {s}
        /\ stack' = [stack EXCEPT ![L][i] = s]
        /\ color' = [color EXCEPT ![s] = revived(s)]
        /\ ref' = ref /\ loc' = loc
  BY Zenon DEF NewString
<1>2. /\ TypeOK /\ HeapOK /\ L \in Thread /\ i \in StkId /\ s \in Obj /\ s \in Data
      /\ s \notin Upval
  BY <1>1, Named, TypesDisjoint, Zenon DEF IInv, Obj, Data, Value
<1>3. FieldsOK'
  BY <1>1, <1>2, Zenon DEF HeapOK, FieldsOK, Only, isopen
<1>4. /\ stack' \in [Thread -> [StkId -> Data]]
      /\ \A th \in Thread, j \in StkId :
           stack'[th][j] = stack[th][j] \/ (th = L /\ stack'[th][j] \in {s})
  BY <1>1, <1>2, Zenon DEF TypeOK
<1>5. /\ color' \in [Obj -> White \cup {"gray", "black"}]
      /\ \A x \in Obj : color'[x] = IF x \in {s} THEN revived(x) ELSE color[x]
  BY <1>1, <1>2, Whites, Zenon DEF TypeOK, revived
<1>6. \A f \in Field : ref'[s][f] = NIL /\ NIL \notin Obj
  BY <1>1, <1>2, TypesDisjoint, Zenon DEF HeapOK, FieldsOK, Only
<1>7. AllocStep({s})
  <2>1. UNCHANGED <<basemt, co, gcstate, atomicpc, currentwhite, finalized, gray, grayagain,
                    weak, tmudata, sweepstrgc, sweepgc, ctx, calls, prog>>
    BY Zenon DEF NewString, collector, sweeps
  <2>2. {s} \subseteq Obj /\ alloc' = alloc \cup {s} /\ {s} \cap alloc \subseteq String \cup openupval(L)
    BY <1>1, <1>2, Zenon
  <2>3. \A u \in Upval : \/ loc'[u] = loc[u]
                         \/ u \in {s} \ alloc /\ loc'[u] \in Thread \X StkId /\ loc'[u][1] = L
    BY <1>1, Zenon
  <2>4. /\ ref' \in [Obj -> [Field -> Value]] /\ loc' \in [Upval -> (Thread \X StkId) \cup {NIL}]
        /\ \A x \in Obj : x \notin {s} \/ x \in alloc => ref'[x] = ref[x]
        /\ \A x \in {s} \ alloc : \A f \in Field : ref'[x][f] \in Obj => ref'[x][f] \in Live \cup {s}
    BY <1>1, <1>2, <1>6, Zenon DEF TypeOK
  <2> QED BY <1>3, <1>4, <1>5, <2>1, <2>2, <2>3, <2>4, Zenon DEF AllocStep
<1> QED BY <1>7, Allocates, Zenon DEF NewString, Program, ProgramRuns

\* the fields that gafqF_newLclosure gives a closure
LEMMA ClosureRefs ==
  ASSUME TypeOK, NEW c \in Closure, NEW u \in Value, NEW p \in NILor(Proto), NEW e \in NILor(Table)
  PROVE  LET r == [NoRefs EXCEPT !["val"] = u, !["p"] = p, !["env"] = e] IN
         /\ NewRefs(c, r)
         /\ \A f \in Field : r[f] \in {u, p, e, NIL}
  BY TypesDisjoint DEF NoRefs, Field, NILor, Value, Obj, NewRefs

\* a closure over an upvalue of the running function keeps the invariant
LEMMA NewClosureOverUpvalInv ==
  ASSUME IInv, NewClosureOverUpval, UNCHANGED prog
  PROVE  IInv'
<1>1. PICK c \in (Closure \cap prog.values) \ alloc, d \in instack \cap Closure, i \in prog.slots :
        /\ ref[d]["val"] \in Upval
        /\ link(c, [NoRefs EXCEPT !["val"] = ref[d]["val"], !["p"] = ref[d]["p"],
                                  !["env"] = ref[d]["env"]], i)
        /\ color' = [color EXCEPT ![c] = currentwhite]
  BY Zenon DEF NewClosureOverUpval
<1>2. /\ TypeOK /\ HeapOK /\ L \in Thread /\ i \in StkId /\ c \in Obj /\ c \in Data /\ c \notin Upval
      /\ d \in Live /\ d \in Obj
  BY <1>1, Named, TypesDisjoint, Zenon DEF IInv, Obj, Data, Value, Lives
<1> DEFINE r == [NoRefs EXCEPT !["val"] = ref[d]["val"], !["p"] = ref[d]["p"], !["env"] = ref[d]["env"]]
<1>3. ref[d]["val"] \in Value /\ ref[d]["p"] \in NILor(Proto) /\ ref[d]["env"] \in NILor(Table)
  BY <1>1, <1>2, SMTT(30), Zenon DEF TypeOK, HeapOK, FieldsOK, Field
<1>4. NewRefs(c, r) /\ \A f \in Field : r[f] \in {ref[d]["val"], ref[d]["p"], ref[d]["env"], NIL}
  BY <1>1, <1>2, <1>3, ClosureRefs, Zenon
<1>5. /\ alloc' = alloc \cup {c} /\ ref' = [ref EXCEPT ![c] = r]
      /\ stack' = [stack EXCEPT ![L][i] = c] /\ loc' = loc
  BY <1>1, Zenon DEF link, NewClosureOverUpval
<1> HIDE DEF r
<1>6. \A f \in Field : r[f] \in Obj => r[f] \in Live
  BY <1>1, <1>2, <1>4, TypesDisjoint, Zenon DEF Field, IInv, Safe, Lives
<1>7. FieldsOK' /\ ref' \in [Obj -> [Field -> Value]]
  BY <1>2, <1>4, <1>5, NewFields, Zenon DEF isopen
<1>8. /\ color' \in [Obj -> White \cup {"gray", "black"}]
      /\ \A x \in Obj : color'[x] = IF x \in {c} THEN revived(x) ELSE color[x]
  BY <1>1, <1>2, Whites, Zenon DEF TypeOK, revived
<1>9. /\ \A x \in Obj : x \notin {c} \/ x \in alloc => ref'[x] = ref[x]
      /\ \A x \in {c} \ alloc : \A f \in Field : ref'[x][f] \in Obj => ref'[x][f] \in Live \cup {c}
  BY <1>1, <1>2, <1>5, <1>6, SMTT(30), Zenon DEF TypeOK
<1>10. AllocStep({c})
  BY <1>1, <1>2, <1>5, <1>7, <1>8, <1>9 DEF NewClosureOverUpval, collector, sweeps, AllocStep,
     TypeOK
<1> QED BY <1>10, Allocates, Zenon DEF NewClosureOverUpval, Program, ProgramRuns

\* ... and one over a local, for which gafqF_findupval makes, reuses or revives an
\* open upvalue
LEMMA NewClosureOverLocalInv ==
  ASSUME IInv, NewClosureOverLocal, UNCHANGED prog
  PROVE  IInv'
<1>1. PICK c \in (Closure \cap prog.values) \ alloc, i \in prog.slots, j \in prog.slots,
           p \in (instack \cap Proto) \cup {NIL}, u \in Upval \cap prog.values :
         /\ IF \E v \in openupval(L) : loc[v][2] = j
            THEN u \in openupval(L) /\ loc[u][2] = j
            ELSE u \notin alloc
         /\ alloc' = alloc \cup {c, u}
         /\ loc' = [loc EXCEPT ![u] = <<L, j>>]
         /\ ref' = [ref EXCEPT ![c] = [NoRefs EXCEPT !["val"] = u, !["p"] = p,
                                                    !["env"] = ref[L]["env"]]]
         /\ stack' = [stack EXCEPT ![L][i] = c]
         /\ color' = [color EXCEPT ![c] = currentwhite, ![u] = revived(u)]
  BY Zenon DEF NewClosureOverLocal
<1>2. /\ TypeOK /\ HeapOK /\ L \in Thread /\ L \in alloc /\ i \in StkId /\ j \in StkId
      /\ c \in Obj /\ c \in Data /\ c \notin Upval /\ u \in Obj /\ u # c /\ c \notin alloc
  BY <1>1, Named, TypesDisjoint, SMTT(30), Zenon DEF IInv, Obj, Data, Value, Live
<1>3. /\ u \in alloc => u \in openupval(L) /\ loc[u] = <<L, j>>
      /\ <<L, j>> \in Thread \X StkId /\ <<L, j>> # NIL
  BY <1>1, <1>2, TypesDisjoint, SMTT(30), Zenon DEF openupval, TypeOK, isopen
<1> DEFINE r == [NoRefs EXCEPT !["val"] = u, !["p"] = p, !["env"] = ref[L]["env"]]
<1>4. /\ u \in Value /\ p \in NILor(Proto) /\ ref[L]["env"] \in NILor(Table)
      /\ Lives(p) /\ Lives(ref[L]["env"])
  BY <1>1, <1>2, Named, TypesDisjoint, Zenon DEF NILor, Value, Lives
<1>5. NewRefs(c, r) /\ \A f \in Field : r[f] \in {u, p, ref[L]["env"], NIL}
  BY <1>1, <1>2, <1>4, ClosureRefs, Zenon
<1>6. ref' = [ref EXCEPT ![c] = r]
  BY <1>1, Zenon
<1> HIDE DEF r
<1>7. \A f \in Field : r[f] \in Obj => r[f] \in Live \cup {c, u}
  BY <1>4, <1>5, TypesDisjoint, Zenon DEF Lives
<1>8. \A v \in Upval : loc'[v] = IF v = u THEN <<L, j>> ELSE loc[v]
  BY <1>1, <1>2, Zenon DEF TypeOK
<1>9. FieldsOK' /\ ref' \in [Obj -> [Field -> Value]]
  <2>1. \A v \in Upval : isopen(v)' => isopen(v) \/ v \notin alloc
    BY <1>3, <1>8, Zenon DEF isopen
  <2>2. c \in alloc' /\ alloc \subseteq alloc'
    BY <1>1, Zenon
  <2> QED BY <1>2, <1>5, <1>6, <2>1, <2>2, NewFields, Zenon
<1>10. /\ stack' \in [Thread -> [StkId -> Data]]
       /\ \A th \in Thread, k \in StkId :
           stack'[th][k] = stack[th][k] \/ (th = L /\ stack'[th][k] \in {c, u})
  BY <1>1, <1>2, Zenon DEF TypeOK
<1>11. /\ color' \in [Obj -> White \cup {"gray", "black"}]
       /\ \A x \in Obj : color'[x] = IF x \in {c, u} THEN revived(x) ELSE color[x]
  <2>1. revived(c) = currentwhite /\ revived(u) \in White \cup {"gray", "black"}
    BY <1>2, Whites, Zenon DEF TypeOK, revived
  <2> QED BY <1>1, <1>2, <2>1, Whites, Zenon DEF TypeOK
<1>12. /\ \A x \in Obj : x \notin {c, u} \/ x \in alloc => ref'[x] = ref[x]
       /\ \A x \in {c, u} \ alloc : \A f \in Field : ref'[x][f] \in Obj => ref'[x][f] \in Live \cup {c, u}
  BY <1>2, <1>6, <1>7, TypesDisjoint DEF TypeOK, HeapOK, FieldsOK, Only
<1>13. /\ loc' \in [Upval -> (Thread \X StkId) \cup {NIL}]
       /\ \A v \in Upval : \/ loc'[v] = loc[v]
                           \/ v \in {c, u} \ alloc /\ loc'[v] \in Thread \X StkId /\ loc'[v][1] = L
  BY <1>1, <1>2, <1>3, <1>8, Zenon DEF TypeOK
<1>14. {c, u} \cap alloc \subseteq String \cup openupval(L)
  BY <1>2, <1>3, Zenon
<1>15. AllocStep({c, u})
  <2>1. UNCHANGED <<basemt, co, gcstate, atomicpc, currentwhite, finalized, gray, grayagain,
                    weak, tmudata, sweepstrgc, sweepgc, ctx, calls, prog>>
    BY Zenon DEF NewClosureOverLocal, collector, sweeps
  <2>2. {c, u} \subseteq Obj /\ alloc' = alloc \cup {c, u}
    BY <1>1, <1>2, Zenon
  <2> QED BY <1>9, <1>10, <1>11, <1>12, <1>13, <1>14, <2>1, <2>2, Zenon DEF AllocStep
<1> QED BY <1>15, Allocates, Zenon DEF NewClosureOverLocal, Program, ProgramRuns

\* an object has fields that it may have
LEMMA OldRefs ==
  ASSUME TypeOK, HeapOK, NEW o \in Obj
  PROVE  NewRefs(o, ref[o])
  BY TypesDisjoint, Zenon DEF TypeOK, HeapOK, FieldsOK, Only, NewRefs, Field

\* a store of live values to the fields of the live object o
StoreHeap(o) ==
  /\ UNCHANGED <<alloc, stack, loc, basemt, co, gcstate, atomicpc, currentwhite, finalized, weak,
                 tmudata, sweepstrgc, sweepgc, ctx, calls, prog>>
  /\ o \in Live /\ (o \in Upval => ~isopen(o))
  /\ ref' \in [Obj -> [Field -> Value]]
  /\ \A x \in Obj \ {o} : ref'[x] = ref[x]
  /\ NewRefs(o, ref'[o])
  /\ \A f \in Field : (o \in Table /\ f = "key" => ref'[o]["val"] # NIL) => Lives(ref'[o][f])

\* a store leaves the heap well formed ...
LEMMA StoreHeapOK ==
  ASSUME TypeOK, HeapOK, NEW o, StoreHeap(o)
  PROVE  HeapOK'
<1>1. o \in Obj /\ o \in alloc
  BY Zenon DEF StoreHeap, TypeOK, Live
<1>2. FieldsOK'
  BY <1>1 DEF FieldsOK, StoreHeap, NewRefs, Only, isopen, HeapOK
<1> QED BY <1>2, Zenon DEF StoreHeap, HeapOK, isopen

\* ... and no reference to a dead object
LEMMA StoreSafe ==
  ASSUME TypeOK, HeapOK, Safe, NEW o, StoreHeap(o), Live' = Live
  PROVE  Safe'
<1>1. UNCHANGED <<alloc, stack, loc, basemt, co>> /\ o \in Live /\ (o \in Upval => ~isopen(o))
  BY Zenon DEF StoreHeap
<1>2. \A x \in Live : x # o => ref'[x] = ref[x]
  BY Zenon DEF StoreHeap, TypeOK, Live
<1> QED BY <1>1, <1>2, TypesDisjoint DEF Safe, Lives, upvalue, isopen, Field, StoreHeap

\* a store that needs no barrier keeps the invariant
LEMMA StoreSame ==
  ASSUME IInv, atomicpc = 0, NEW o, StoreHeap(o), UNCHANGED <<color, gray, grayagain>>,
         gcstate = "propagate" /\ isblack(o) /\ o \notin tmudata => \A f \in Field : Marked(ref'[o][f])
  PROVE  IInv'
<1>0. TypeOK /\ HeapOK /\ SweepOK /\ ColorsOK /\ Safe /\ MarkOK /\ GclistExclusive /\ CallsOK
  BY Zenon DEF IInv
<1>1. UNCHANGED <<alloc, stack, loc, basemt, co, gcstate, atomicpc, currentwhite, finalized, weak,
                 tmudata, sweepstrgc, sweepgc, ctx, calls, prog>>
  BY Zenon DEF StoreHeap
<1>2. TypeOK'
  BY <1>0, <1>1, Zenon DEF TypeOK, StoreHeap
<1>3. HeapOK' /\ Safe'
  <2>1. Live' = Live
    BY <1>1, Zenon DEF Live, isdead
  <2> QED BY <1>0, <2>1, StoreHeapOK, StoreSafe, Zenon
<1>4. SweepOK' /\ ColorsOK' /\ GclistExclusive' /\ CallsOK'
  BY <1>0, <1>1, SweepKeep, ColorsKeep, ListsKeep, CallsKeep, Zenon
<1>5. MarkOK'
  <2> SUFFICES ASSUME gcstate = "propagate"
               PROVE  /\ Marked(mainthread) /\ Marked(registry)
                      /\ \A x \in alloc \ tmudata : isblack(x) => \A f \in Field : Marked(ref'[x][f])
    BY <1>1 DEF MarkOK, Marked, isblack, iswhite
  <2>1. \A x \in alloc : x # o => ref'[x] = ref[x]
    BY <1>0, Zenon DEF StoreHeap, TypeOK
  <2> QED BY <1>0, <2>1, Zenon DEF MarkOK
<1> QED BY <1>2, <1>3, <1>4, <1>5, Zenon DEF IInv

\* ... one that moves the collector back (gafqC_barrierback) does
LEMMA StoreBack ==
  ASSUME IInv, atomicpc = 0, NEW o, StoreHeap(o), o \in Table, isblack(o),
         color' = [color EXCEPT ![o] = "gray"], gray' = gray, grayagain' = grayagain \cup {o}
  PROVE  IInv'
<1>0. TypeOK /\ HeapOK /\ SweepOK /\ ColorsOK /\ Safe /\ MarkOK /\ GclistExclusive /\ CallsOK
  BY Zenon DEF IInv
<1>1. UNCHANGED <<alloc, stack, loc, basemt, co, gcstate, atomicpc, currentwhite, finalized, weak,
                 tmudata, sweepstrgc, sweepgc, ctx, calls, prog>>
  BY Zenon DEF StoreHeap
<1>a. /\ o \in Obj /\ o \in alloc /\ o \notin Udata \cup Upval /\ o \in Traversed /\ o \notin tmudata
      /\ \A x \in Obj : color'[x] = IF x = o THEN "gray" ELSE color[x]
  BY <1>0, TypesDisjoint, Zenon DEF StoreHeap, TypeOK, Live, Traversed
<1>b. /\ color[o] = "black" /\ currentwhite # "black" /\ currentwhite # "gray"
      /\ otherwhite(currentwhite) \notin {"black", "gray"} /\ "gray" \notin White /\ "black" \notin White
      /\ alloc \subseteq Obj
  BY <1>0, Whites, Zenon DEF isblack, TypeOK
<1>2. TypeOK'
  BY <1>0, <1>a, <1>1, Zenon DEF TypeOK, StoreHeap
<1>3. HeapOK' /\ Safe'
  <2>1. Live' = Live
    BY <1>a, <1>b, <1>1, Zenon DEF Live, isdead
  <2> QED BY <1>0, <2>1, StoreHeapOK, StoreSafe, Zenon
<1>4. SweepOK' /\ CallsOK'
  BY <1>0, <1>1, SweepKeep, CallsKeep, Zenon
<1>5. ColorsOK'
  BY <1>0, <1>a, <1>b, <1>1 DEF ColorsOK, Pending, isblack, isgray, isdead, isopen
<1>6. MarkOK'
  <2> SUFFICES ASSUME gcstate = "propagate"
               PROVE  /\ Marked(mainthread)' /\ Marked(registry)'
                      /\ \A x \in alloc \ tmudata : isblack(x)' => \A f \in Field : Marked(ref[x][f])'
    BY <1>1 DEF MarkOK
  <2>1. \A v : Marked(v) => (v \in Obj => v \in alloc' /\ ~(color'[v] \in White))
    BY <1>a, <1>b, <1>1, Zenon DEF Marked, iswhite
  <2>2. \A x \in alloc : isblack(x)' => isblack(x) /\ ref'[x] = ref[x]
    <3>1. \A x \in Obj \ {o} : ref'[x] = ref[x]
      BY Zenon DEF StoreHeap
    <3> QED BY <1>a, <1>b, <3>1 DEF isblack
  <2>3. /\ Marked(mainthread) /\ Marked(registry)
        /\ \A x \in alloc \ tmudata : isblack(x) => \A f \in Field : Marked(ref[x][f])
    BY <1>0, Zenon DEF MarkOK
  <2> QED BY <2>1, <2>2, <2>3, Zenon DEF Marked, iswhite
<1>7. GclistExclusive'
  BY <1>0, <1>a, <1>b, <1>1 DEF GclistExclusive, isgray
<1> QED BY <1>2, <1>3, <1>4, <1>5, <1>6, <1>7, Zenon DEF IInv

\* ... and one that finds the collector sweeping, and makes the object white
LEMMA StoreWhite ==
  ASSUME IInv, atomicpc = 0, NEW o, StoreHeap(o), gcstate # "propagate", isblack(o),
         color' = [color EXCEPT ![o] = currentwhite], UNCHANGED <<gray, grayagain>>
  PROVE  IInv'
<1>0. TypeOK /\ HeapOK /\ SweepOK /\ ColorsOK /\ Safe /\ MarkOK /\ GclistExclusive /\ CallsOK
  BY Zenon DEF IInv
<1>1. UNCHANGED <<alloc, stack, loc, basemt, co, gcstate, atomicpc, currentwhite, finalized, weak,
                 tmudata, sweepstrgc, sweepgc, ctx, calls, prog>>
  BY Zenon DEF StoreHeap
<1>a. o \in Obj /\ o \in alloc /\ \A x \in Obj : color'[x] = IF x = o THEN currentwhite ELSE color[x]
  BY <1>0, Zenon DEF StoreHeap, TypeOK, Live
<1>b. /\ color[o] = "black" /\ currentwhite # "black" /\ currentwhite # "gray"
      /\ currentwhite # otherwhite(currentwhite) /\ otherwhite(currentwhite) # "black"
      /\ alloc \subseteq Obj
  BY <1>0, Whites, Zenon DEF isblack, TypeOK
<1>2. TypeOK'
  BY <1>0, <1>a, <1>1, Zenon DEF TypeOK, StoreHeap
<1>3. HeapOK' /\ Safe'
  <2>1. Live' = Live
    BY <1>a, <1>b, <1>1, Zenon DEF Live, isdead
  <2> QED BY <1>0, <2>1, StoreHeapOK, StoreSafe, Zenon
<1>4. SweepOK' /\ CallsOK'
  BY <1>0, <1>1, SweepKeep, CallsKeep, Zenon
<1>5. ColorsOK'
  BY <1>0, <1>a, <1>b, <1>1 DEF ColorsOK, Pending, isblack, isgray, isdead, isopen
<1>6. MarkOK' /\ GclistExclusive'
  BY <1>1, Zenon DEF MarkOK, GclistExclusive
<1> QED BY <1>2, <1>3, <1>4, <1>5, <1>6, Zenon DEF IInv

\* the phases in which nothing is dead
AtRest == gcstate \in {"pause", "propagate", "finalize"}

\* ... indeed nothing is
LEMMA NoneDead ==
  ASSUME TypeOK, SweepOK, ColorsOK, AtRest
  PROVE  /\ \A o \in alloc : ~isdead(o)
         /\ Live = alloc
         /\ gcstate # "propagate" => \A o \in alloc \ tmudata : color[o] = currentwhite
  BY Whites, Zenon DEF ColorsOK, Live, AtRest, SweepOK, Sweeping, Pending, isdead, isblack

\* a step of the mark phase that marks M, and may blacken the gray objects P
Marking(M, P) ==
  /\ AtRest /\ gcstate' = "propagate"
  /\ UNCHANGED <<alloc, stack, loc, currentwhite>>
  /\ color' \in [Obj -> White \cup {"gray", "black"}]
  /\ \A x \in Obj \ P : color'[x] = recolor(M)[x]
  /\ \A x \in P : x \in alloc /\ x \in Traversed /\ isgray(x) /\ color'[x] \in {"gray", "black"}
                  /\ (x \in Thread => color'[x] = "gray")
  /\ tmudata \subseteq tmudata' /\ tmudata' \subseteq tmudata \cup M /\ tmudata' \subseteq Udata
  /\ M \subseteq alloc /\ \A x \in M : iswhite(x) \/ x \in tmudata'
  /\ \A u \in M \cap Upval : upvalue(u) \in alloc /\ iswhite(upvalue(u)) => upvalue(u) \in M
  /\ \A u \in (M \cap Udata) \ tmudata' : \A f \in Field :
        ref[u][f] \in alloc /\ iswhite(ref[u][f]) => ref[u][f] \in M

\* the colors after such a step
LEMMA MarkingColors ==
  ASSUME TypeOK, HeapOK, SweepOK, ColorsOK, NEW M, NEW P, Marking(M, P)
  PROVE  /\ P \cap M = {} /\ P \subseteq alloc /\ alloc' = alloc
         /\ \A x \in alloc \ (M \cup P) : color'[x] = color[x]
         /\ \A x \in M : color'[x] = IF x \in Udata \/ (x \in Upval /\ ~isopen(x)) THEN "black" ELSE "gray"
         /\ \A x \in P : color[x] = "gray" /\ color'[x] \in {"gray", "black"}
  BY Whites, TypesDisjoint DEF Marking, iswhite, isgray, Traversed, TypeOK, recolor

\* it keeps the colors right, kills nothing, and whatever it blackens outside P
\* refers to nothing white
LEMMA MarkingOK ==
  ASSUME TypeOK, HeapOK, SweepOK, ColorsOK, Safe, MarkOK, NEW M, NEW P, Marking(M, P)
  PROVE  /\ ColorsOK'
         /\ Live' = Live /\ Live = alloc
         /\ \A v : Marked(v) \/ v \in M => Marked(v)'
         /\ \A x \in alloc \ (tmudata' \cup P) :
               isblack(x)' /\ ref'[x] = ref[x] => \A f \in Field : Marked(ref[x][f])'
         /\ {x \in alloc \cap Traversed : isgray(x)'} =
               ({x \in alloc \cap Traversed : isgray(x)} \ P) \cup (M \cap Traversed)
                  \cup {x \in P : color'[x] = "gray"}
<1>1. /\ P \cap M = {} /\ P \subseteq alloc /\ alloc' = alloc
      /\ \A x \in alloc \ (M \cup P) : color'[x] = color[x]
      /\ \A x \in M : color'[x] = IF x \in Udata \/ (x \in Upval /\ ~isopen(x)) THEN "black" ELSE "gray"
      /\ \A x \in P : color[x] = "gray" /\ color'[x] \in {"gray", "black"}
  BY MarkingColors, Zenon
<1>2. /\ currentwhite \notin {"gray", "black"} /\ otherwhite(currentwhite) \notin {"gray", "black"}
      /\ "gray" \notin White /\ "black" \notin White
  BY Whites, Zenon
<1>3. /\ gcstate' = "propagate" /\ UNCHANGED <<alloc, stack, loc, currentwhite>>
      /\ tmudata \subseteq tmudata' /\ tmudata' \subseteq tmudata \cup M /\ tmudata' \subseteq Udata
      /\ M \subseteq alloc /\ \A x \in M : iswhite(x) \/ x \in tmudata'
      /\ \A x \in P : x \in Traversed /\ (x \in Thread => color'[x] = "gray")
  BY Zenon DEF Marking
<1>4. /\ \A o \in alloc : ~isdead(o)
      /\ Live = alloc
      /\ gcstate # "propagate" => \A o \in alloc \ tmudata : color[o] = currentwhite
  BY NoneDead, Zenon DEF Marking
<1>5. \A o \in alloc : ~isdead(o)'
  BY <1>1, <1>2, <1>3, <1>4, Zenon DEF isdead
<1>6. Live' = Live
  BY <1>3, <1>4, <1>5, Zenon DEF Live
<1>7. \A o \in Traversed : o \notin Udata \cup Upval
  BY TypesDisjoint, Zenon DEF Traversed
<1>8. ColorsOK'
  <2>1. \A o \in alloc : isblack(o)' => o \notin Thread /\ (o \in Upval => ~isopen(o)')
    <3> TAKE o \in alloc
    <3>1. CASE o \in M
      BY <1>1, <1>3, <3>1, TypesDisjoint, Zenon DEF isblack, isopen
    <3>2. CASE o \in P
      BY <1>3, <1>7, <3>2, Zenon DEF isblack
    <3>3. CASE o \notin M \cup P
      BY <1>1, <1>3, <3>3, Zenon DEF isblack, isopen, ColorsOK
    <3> QED BY <3>1, <3>2, <3>3, Zenon
  <2>2. \A o \in alloc : isgray(o)' => o \notin Udata /\ (o \in Upval => isopen(o)')
    <3> TAKE o \in alloc
    <3>1. CASE o \in M
      BY <1>1, <1>3, <3>1, Zenon DEF isgray, isopen
    <3>2. CASE o \in P
      BY <1>3, <1>7, <3>2, Zenon DEF isgray
    <3>3. CASE o \notin M \cup P
      BY <1>1, <1>3, <3>3, Zenon DEF isgray, isopen, ColorsOK
    <3> QED BY <3>1, <3>2, <3>3, Zenon
  <2>3. \A u \in tmudata' : isblack(u)' \/ color'[u] = currentwhite'
    <3> TAKE u \in tmudata'
    <3>1. CASE u \in M
      BY <1>1, <1>3, <3>1, Zenon DEF isblack
    <3>2. CASE u \notin M
      BY <1>1, <1>3, <1>7, <3>2, Zenon DEF isblack, ColorsOK, HeapOK
    <3> QED BY <3>1, <3>2, Zenon
  <2> QED BY <1>3, <1>5, <2>1, <2>2, <2>3, Zenon DEF ColorsOK
<1>9. \A v : Marked(v) \/ v \in M => Marked(v)'
  <2> SUFFICES ASSUME NEW v, Marked(v) \/ v \in M, v \in Obj
               PROVE  v \in alloc /\ color'[v] \notin White
    BY <1>3, Zenon DEF Marked, iswhite
  <2>1. CASE v \in M
    BY <1>1, <1>2, <1>3, <2>1, Zenon
  <2>2. CASE v \notin M
    BY <1>1, <1>2, <2>2, Zenon DEF Marked, iswhite
  <2> QED BY <2>1, <2>2, Zenon
<1>10. ASSUME NEW x \in alloc \ (tmudata' \cup P), isblack(x)', ref'[x] = ref[x], NEW f \in Field
       PROVE  Marked(ref[x][f])'
  <2>0. x \in Obj
    BY Zenon DEF TypeOK
  <2>1. CASE x \in M
    <3>1. x \in Udata \/ (x \in Upval /\ ~isopen(x))
      BY <1>1, <1>10, <2>1, Zenon DEF isblack
    <3>2. x \notin Table
      BY <3>1, TypesDisjoint, Zenon
    <3>3. ref[x][f] \in Obj => ref[x][f] \in alloc
      BY <1>4, <3>2, Zenon DEF Safe, Lives
    <3>4. ref[x][f] \in alloc /\ iswhite(ref[x][f]) => ref[x][f] \in M
      <4>1. CASE x \in Udata
        BY <1>10, <2>1, <4>1, Zenon DEF Marking
      <4>2. CASE x \in Upval /\ ~isopen(x)
        <5>1. f # "val" => ref[x][f] = NIL
          BY <2>0, <4>2, Zenon DEF HeapOK, FieldsOK, Only
        <5>2. upvalue(x) = ref[x]["val"]
          BY <4>2, Zenon DEF upvalue
        <5>3. NIL \notin alloc
          BY TypesDisjoint, Zenon DEF TypeOK
        <5>4. \A u \in M \cap Upval : upvalue(u) \in alloc /\ iswhite(upvalue(u)) => upvalue(u) \in M
          BY Zenon DEF Marking
        <5> QED BY <2>1, <4>2, <5>1, <5>2, <5>3, <5>4, Zenon
      <4> QED BY <3>1, <4>1, <4>2, Zenon
    <3>5. Marked(ref[x][f]) \/ ref[x][f] \in M
      BY <3>3, <3>4, Zenon DEF Marked
    <3> QED BY <1>9, <1>10, <3>5, Zenon DEF Marked, iswhite
  <2>2. CASE x \notin M
    <3>1. isblack(x) /\ x \notin tmudata
      BY <1>1, <1>3, <1>10, <2>2, Zenon DEF isblack
    <3>2. gcstate = "propagate"
      BY <1>2, <1>4, <3>1, Zenon DEF isblack
    <3>3. Marked(ref[x][f])
      BY <3>1, <3>2, Zenon DEF MarkOK
    <3> QED BY <1>9, <1>10, <3>3, Zenon DEF Marked, iswhite
  <2> QED BY <2>1, <2>2, Zenon
<1>11. {x \in alloc \cap Traversed : isgray(x)'} =
               ({x \in alloc \cap Traversed : isgray(x)} \ P) \cup (M \cap Traversed)
                  \cup {x \in P : color'[x] = "gray"}
  <2>1. \A x \in Traversed : x \in M => ~isgray(x) /\ isgray(x)'
    BY <1>1, <1>2, <1>3, <1>7, Zenon DEF isgray, iswhite
  <2>2. \A x \in alloc \ (M \cup P) : isgray(x)' = isgray(x)
    BY <1>1, Zenon DEF isgray
  <2> QED BY <1>1, <1>3, <2>1, <2>2, Zenon DEF isgray
<1> QED BY <1>4, <1>6, <1>8, <1>9, <1>10, <1>11, Zenon

\* a store whose barrier moves the collector forward (gafqC_barrierf, marking the
\* value) keeps the invariant
LEMMA StoreForward ==
  ASSUME IInv, atomicpc = 0, NEW o, StoreHeap(o), gcstate = "propagate", isblack(o), NEW v,
         color' = recolor(reached({v})), gray' = gray \cup (reached({v}) \cap Traversed),
         grayagain' = grayagain,
         \A f \in Field : \/ ref'[o][f] = v /\ Lives(v)
                          \/ o \notin tmudata => Marked(ref'[o][f])
  PROVE  IInv'
<1>0. TypeOK /\ HeapOK /\ SweepOK /\ ColorsOK /\ Safe /\ MarkOK /\ GclistExclusive /\ CallsOK
  BY Zenon DEF IInv
<1>1. UNCHANGED <<alloc, stack, loc, basemt, co, gcstate, atomicpc, currentwhite, finalized, weak,
                 tmudata, sweepstrgc, sweepgc, ctx, calls, prog>>
  BY Zenon DEF StoreHeap
<1> DEFINE M == reached({v})
<1>2. /\ M \subseteq alloc /\ \A x \in M : iswhite(x)
      /\ v \in alloc /\ iswhite(v) => v \in M
      /\ \A u \in M \cap Upval : upvalue(u) \in alloc /\ iswhite(upvalue(u)) => upvalue(u) \in M
      /\ \A u \in M \cap Udata : \A f \in Field :
            ref[u][f] \in alloc /\ iswhite(ref[u][f]) => ref[u][f] \in M
  BY <1>0, MarkReach, Zenon
<1>a. color' = recolor(M) /\ gray' = gray \cup (M \cap Traversed)
  BY Zenon
<1> HIDE DEF M
<1>3. /\ color' \in [Obj -> White \cup {"gray", "black"}]
      /\ \A x \in Obj : color'[x] = recolor(M)[x]
  BY <1>0, <1>a, Zenon DEF TypeOK, recolor
<1>4. tmudata \subseteq Udata
  BY <1>0, Zenon DEF TypeOK
<1>5. Marking(M, {})
  BY <1>1, <1>2, <1>3, <1>4, Zenon DEF Marking, AtRest
<1>6. /\ ColorsOK' /\ Live' = Live /\ Live = alloc
      /\ \A x : Marked(x) \/ x \in M => Marked(x)'
      /\ \A x \in alloc \ tmudata' :
            isblack(x)' /\ ref'[x] = ref[x] => \A f \in Field : Marked(ref[x][f])'
      /\ {x \in alloc \cap Traversed : isgray(x)'} =
            {x \in alloc \cap Traversed : isgray(x)} \cup (M \cap Traversed)
  <2> DEFINE P == {}
  <2>1. \A x : x \notin P
    BY Zenon
  <2>2. Marking(M, P)
    BY <1>5, Zenon
  <2> HIDE DEF M, P
  <2>3. /\ ColorsOK' /\ Live' = Live /\ Live = alloc
        /\ \A x : Marked(x) \/ x \in M => Marked(x)'
        /\ \A x \in alloc \ (tmudata' \cup P) :
              isblack(x)' /\ ref'[x] = ref[x] => \A f \in Field : Marked(ref[x][f])'
        /\ {x \in alloc \cap Traversed : isgray(x)'} =
              ({x \in alloc \cap Traversed : isgray(x)} \ P) \cup (M \cap Traversed)
                 \cup {x \in P : color'[x] = "gray"}
    BY <1>0, <2>2, MarkingOK, Zenon
  <2> QED BY <2>1, <2>3, Zenon
<1>7. TypeOK'
  BY <1>0, <1>a, <1>1, <1>3, Zenon DEF TypeOK, StoreHeap, Traversed, Obj
<1>8. HeapOK' /\ Safe' /\ SweepOK' /\ CallsOK'
  BY <1>0, <1>1, <1>6, StoreHeapOK, StoreSafe, SweepKeep, CallsKeep, Zenon
<1>9. MarkOK'
  <2> SUFFICES ASSUME NEW x \in alloc \ tmudata, isblack(x)', NEW f \in Field
               PROVE  Marked(ref[x][f])'
    <3>1. Marked(mainthread) /\ Marked(registry)
      BY <1>0, Zenon DEF MarkOK
    <3>2. Marked(mainthread)' /\ Marked(registry)'
      BY <1>6, <3>1, Zenon DEF Marked, iswhite
    <3> QED BY <1>1, <3>2, SMTT(30), Zenon DEF MarkOK
  <2>1. CASE x # o
    <3>1. ref'[x] = ref[x]
      BY <1>0, <2>1, Zenon DEF StoreHeap, TypeOK
    <3> QED BY <1>1, <1>6, <3>1, Zenon
  <2>2. CASE x = o
    <3>1. Marked(ref'[o][f]) \/ ref'[o][f] \in M
      BY <1>2, <1>6, <2>2, Zenon DEF Lives, Marked
    <3> QED BY <1>6, <2>2, <3>1, Zenon DEF Marked, iswhite
  <2> QED BY <2>1, <2>2, Zenon
<1>10. GclistExclusive'
  <2>1. M \cap (grayagain \cup weak) = {}
    BY <1>0, <1>2, Whites, Zenon DEF GclistExclusive, isgray, iswhite
  <2> QED BY <1>0, <1>a, <1>1, <1>6, <2>1, Zenon DEF GclistExclusive
<1> QED BY <1>6, <1>7, <1>8, <1>9, <1>10, Zenon DEF IInv

\* so a store followed by gafqC_barrier or gafqC_objbarrier keeps the invariant
LEMMA Barrier ==
  ASSUME IInv, atomicpc = 0, NEW o, StoreHeap(o), NEW v, Lives(v), barrier(o, v),
         \A f \in Field : ref'[o][f] = ref[o][f] \/ ref'[o][f] = v
  PROVE  IInv'
<1> DEFINE hit == v \in Obj /\ isblack(o) /\ iswhite(v)
<1>a. gcstate = "propagate" /\ isblack(o) /\ o \notin tmudata => \A f \in Field : Marked(ref[o][f])
  BY Zenon DEF IInv, MarkOK, StoreHeap, Live
<1>1. CASE hit /\ gcstate = "propagate"
  BY <1>a, <1>1, StoreForward, Zenon DEF barrier
<1>2. CASE hit /\ gcstate # "propagate"
  BY <1>2, StoreWhite, Zenon DEF barrier
<1>3. CASE ~hit
  BY <1>a, <1>3, StoreSame, Zenon DEF barrier, Marked, Lives, Live
<1> QED BY <1>1, <1>2, <1>3, Zenon

\* ... and one followed by gafqC_barriert
LEMMA BarrierT ==
  ASSUME IInv, atomicpc = 0, NEW o \in Table, StoreHeap(o), NEW V, \A v \in V : Lives(v),
         barriert(o, V), \A f \in Field : ref'[o][f] = ref[o][f] \/ ref'[o][f] \in V
  PROVE  IInv'
  BY StoreBack, StoreSame, Zenon DEF barriert, Marked, Lives, Live, IInv, MarkOK, StoreHeap

\* a store to a table's node keeps the invariant
LEMMA SetTableInv ==
  ASSUME IInv, SetTable, UNCHANGED prog
  PROVE  IInv'
<1>1. PICK t \in named \cap Table, k \in loaded \ ({NIL} \cup Proto), v \in loaded \ Proto :
       /\ ref' = [ref EXCEPT ![t]["key"] = k, ![t]["val"] = v]
       /\ barriert(t, {v} \cup (IF ref[t]["key"] = k THEN {} ELSE {k}))
  BY Zenon DEF SetTable
<1>2. /\ TypeOK /\ HeapOK /\ t \in Obj /\ t \in Live /\ k \in Data /\ v \in Data /\ Lives(k) /\ Lives(v)
  BY <1>1, Named, Zenon DEF IInv, Obj
<1>3. /\ ref' \in [Obj -> [Field -> Value]] /\ \A x \in Obj \ {t} : ref'[x] = ref[x]
      /\ ref'[t]["key"] = k /\ ref'[t]["val"] = v
      /\ \A f \in Field \ {"key", "val"} : ref'[t][f] = ref[t][f]
  <2> DEFINE r1 == [ref EXCEPT ![t]["key"] = k]
  <2>1. /\ r1 \in [Obj -> [Field -> Value]] /\ \A x \in Obj \ {t} : r1[x] = ref[x]
        /\ r1[t]["key"] = k /\ \A f \in Field \ {"key"} : r1[t][f] = ref[t][f]
    BY <1>2, SMTT(30), Zenon DEF TypeOK, Data, Field
  <2>2. ref' = [r1 EXCEPT ![t]["val"] = v]
    BY <1>1, Zenon
  <2> HIDE DEF r1
  <2>3. /\ ref' \in [Obj -> [Field -> Value]] /\ \A x \in Obj \ {t} : ref'[x] = r1[x]
        /\ ref'[t]["val"] = v /\ \A f \in Field \ {"val"} : ref'[t][f] = r1[t][f]
    BY <1>2, <2>1, <2>2, Zenon DEF Data, Field
  <2> QED BY <2>1, <2>3, Zenon DEF Field
<1>4. NewRefs(t, ref'[t])
  <2>1. NewRefs(t, ref[t])
    BY <1>2, OldRefs, Zenon
  <2> QED BY <1>1, <1>2, <1>3, <2>1, TypesDisjoint DEF NewRefs, Field
<1>5. t \notin Upval /\ \A f \in Field : f # "key" => Lives(ref[t][f])
  BY <1>1, <1>2, TypesDisjoint, Zenon DEF IInv, Safe
<1>6. StoreHeap(t)
  <2>1. UNCHANGED <<alloc, stack, loc, basemt, co, gcstate, atomicpc, currentwhite, finalized, weak,
                 tmudata, sweepstrgc, sweepgc, ctx, calls, prog>>
    BY Zenon DEF SetTable, collector, sweeps
  <2>2. \A f \in Field : Lives(ref'[t][f])
    BY <1>2, <1>3, <1>5, Zenon
  <2> QED BY <1>2, <1>3, <1>4, <1>5, <2>1, <2>2, Zenon DEF StoreHeap
<1> DEFINE V == {v} \cup (IF ref[t]["key"] = k THEN {} ELSE {k})
<1>7. /\ \A x \in V : Lives(x)
      /\ \A f \in Field : ref'[t][f] = ref[t][f] \/ ref'[t][f] \in V
  BY <1>2, <1>3, Zenon
<1> HIDE DEF V
<1>8. barriert(t, V) /\ atomicpc = 0
  BY <1>1, Zenon DEF V, SetTable, Program, ProgramRuns
<1> QED BY <1>1, <1>6, <1>7, <1>8, BarrierT, Zenon

\* a value v that a store may put in the field g of object o
Takes(o, g, v) ==
  /\ g \in Field /\ g # "key" /\ v \in Value /\ Lives(v)
  /\ o \in Upval => ~isopen(o)
  /\ o \in Table /\ g \in {"array", "val"} => v \in Data
  /\ o \in Table \cup Udata /\ g = "metatable" => v \in NILor(Table)
  /\ o \in Udata \cup Closure \cup Thread /\ g = "env" => v \in NILor(Table)
  /\ o \in Proto \cup Upval => v \in Data
  /\ \/ o \in Table /\ g \in {"array", "metatable"}
     \/ o \in Udata /\ g \in {"metatable", "env"}
     \/ o \in Closure /\ g \in {"env", "val"}
     \/ o \in Thread /\ g = "env"
     \/ o \in Proto \cup Upval /\ g = "val"

\* a store to one field, not a key, is a store of the kind the barriers expect
LEMMA SetOne ==
  ASSUME IInv, NEW o \in Obj, o \in Live, NEW g, NEW v, Takes(o, g, v),
         ref' = [ref EXCEPT ![o][g] = v],
         UNCHANGED <<alloc, stack, loc, basemt, co, gcstate, atomicpc, currentwhite, finalized, weak,
                 tmudata, sweepstrgc, sweepgc, ctx, calls, prog>>
  PROVE  StoreHeap(o) /\ \A f \in Field : ref'[o][f] = ref[o][f] \/ ref'[o][f] = v
<1> USE DEF Takes
<1>1. /\ ref' \in [Obj -> [Field -> Value]] /\ \A x \in Obj \ {o} : ref'[x] = ref[x]
      /\ \A f \in Field : ref'[o][f] = IF f = g THEN v ELSE ref[o][f]
  BY Zenon DEF IInv, TypeOK
<1>2. NewRefs(o, ref'[o])
  <2>1. NewRefs(o, ref[o])
    BY OldRefs, Zenon DEF IInv
  <2>2. ref'[o] \in [Field -> Value]
    BY <1>1, Zenon
  <2> QED BY <1>1, <2>1, <2>2, TypesDisjoint, SMTT(30), Zenon DEF NewRefs, Field
<1>3. \A f \in Field : (o \in Table /\ f = "key" => ref'[o]["val"] # NIL) => Lives(ref'[o][f])
  <2>1. \A f \in Field : (o \in Table /\ f = "key" => ref[o]["val"] # NIL) => Lives(ref[o][f])
    BY Zenon DEF IInv, Safe
  <2>2. o \in Table => ref'[o]["val"] = ref[o]["val"]
    BY <1>1, TypesDisjoint, Zenon DEF Field
  <2> QED BY <1>1, <2>1, <2>2, Zenon
<1> QED BY <1>1, <1>2, <1>3, Zenon DEF StoreHeap

\* a store to the array part of a table keeps the invariant
LEMMA SetArrayInv ==
  ASSUME IInv, SetArray, UNCHANGED prog
  PROVE  IInv'
<1>1. PICK t \in named \cap Table, v \in loaded \ Proto :
        ref' = [ref EXCEPT ![t]["array"] = v] /\ barriert(t, {v})
  BY Zenon DEF SetArray
<1>2. t \in Obj /\ t \in Live /\ t \notin Udata \cup Closure \cup Thread \cup Proto \cup Upval
      /\ v \in Data /\ v \in Value /\ Lives(v)
  BY <1>1, Named, TypesDisjoint, Zenon DEF Data
<1>3. /\ UNCHANGED <<alloc, stack, loc, basemt, co, gcstate, atomicpc, currentwhite, finalized, weak,
                     tmudata, sweepstrgc, sweepgc, ctx, calls, prog>>
      /\ atomicpc = 0
  BY Zenon DEF SetArray, collector, sweeps, Program, ProgramRuns
<1>4. StoreHeap(t) /\ \A f \in Field : ref'[t][f] = ref[t][f] \/ ref'[t][f] = v
  <2>1. Takes(t, "array", v)
    BY <1>1, <1>2, Zenon DEF Takes, Field
  <2> QED BY <1>1, <1>2, <1>3, <2>1, SetOne, Zenon
<1> QED BY <1>1, <1>2, <1>3, <1>4, BarrierT, SMTT(30), Zenon

\* ... and gafq_setmetatable, for tables, udata and the other types
LEMMA SetMetatableInv ==
  ASSUME IInv, SetMetatable, UNCHANGED prog
  PROVE  IInv'
<1>1. PICK m \in (named \cap Table) \cup {NIL} :
       \/ \E o \in named \cap (Table \cup Udata) :
            /\ ref' = [ref EXCEPT ![o]["metatable"] = m]
            /\ IF o \in Table THEN barriert(o, {m}) ELSE barrier(o, m)
            /\ UNCHANGED basemt
       \/ basemt' = m /\ UNCHANGED <<ref, color, gray, grayagain>>
  BY Zenon DEF SetMetatable
<1>2. m \in NILor(Table) /\ m \in Value /\ Lives(m)
  BY <1>1, Named, TypesDisjoint, Zenon DEF NILor, Value, Obj, Lives
<1>3. /\ UNCHANGED <<alloc, stack, loc, co, gcstate, atomicpc, currentwhite, finalized, weak,
                     tmudata, sweepstrgc, sweepgc, ctx, calls, prog>>
      /\ atomicpc = 0
  BY Zenon DEF SetMetatable, collector, sweeps, Program, ProgramRuns
<1>4. ASSUME NEW o \in named \cap (Table \cup Udata),
             ref' = [ref EXCEPT ![o]["metatable"] = m],
             IF o \in Table THEN barriert(o, {m}) ELSE barrier(o, m), UNCHANGED basemt
      PROVE  IInv'
  <2>1. o \in Obj /\ o \in Live /\ o \notin Closure \cup Thread \cup Proto \cup Upval
    BY Named, TypesDisjoint, Zenon
  <2>2. StoreHeap(o) /\ \A f \in Field : ref'[o][f] = ref[o][f] \/ ref'[o][f] = m
    <3>1. Takes(o, "metatable", m)
      BY <1>2, <1>4, <2>1, Zenon DEF Takes, Field
    <3> QED BY <1>3, <1>4, <2>1, <3>1, SetOne, Zenon
  <2>3. CASE o \in Table
    BY <1>2, <1>3, <1>4, <2>2, <2>3, BarrierT, SMTT(30), Zenon
  <2>4. CASE o \notin Table
    BY <1>2, <1>3, <1>4, <2>2, <2>4, Barrier, Zenon
  <2> QED BY <2>3, <2>4, Zenon
<1>5. CASE basemt' = m /\ UNCHANGED <<ref, color, gray, grayagain>>
  <2>0. TypeOK /\ HeapOK /\ SweepOK /\ ColorsOK /\ Safe /\ MarkOK /\ GclistExclusive /\ CallsOK
    BY Zenon DEF IInv
  <2>1. TypeOK'
    BY <1>2, <1>3, <1>5, <2>0, Zenon DEF TypeOK, NILor
  <2>2. HeapOK' /\ SweepOK' /\ ColorsOK' /\ GclistExclusive' /\ CallsOK'
    BY <1>3, <1>5, <2>0, HeapKeep, SweepKeep, ColorsKeep, ListsKeep, CallsKeep, Zenon
  <2>3. Safe'
    BY <1>2, <1>3, <1>5, <2>0, Zenon DEF Safe, Lives, Live, isdead, upvalue, isopen
  <2>4. MarkOK'
    BY <1>3, <1>5, <2>0, SMTT(30), Zenon DEF MarkOK, Marked, iswhite, isblack
  <2> QED BY <2>1, <2>2, <2>3, <2>4, Zenon DEF IInv
<1> QED BY <1>1, <1>4, <1>5, Zenon

\* ... and gafq_setfenv, for functions, udata and threads
LEMMA SetFenvInv ==
  ASSUME IInv, SetFenv, UNCHANGED prog
  PROVE  IInv'
<1>1. PICK o \in {L} \cup (named \cap (Closure \cup Udata \cup Thread)), e \in named \cap Table :
        ref' = [ref EXCEPT ![o]["env"] = e] /\ barrier(o, e)
  BY Zenon DEF SetFenv
<1>2. /\ o \in Obj /\ o \in Live /\ o \in Closure \cup Udata \cup Thread
      /\ o \notin Table \cup Proto \cup Upval
      /\ e \in NILor(Table) /\ e \in Value /\ Lives(e)
  BY <1>1, Named, TypesDisjoint, SMTT(30), Zenon DEF NILor, Value, Obj, Lives
<1>3. /\ UNCHANGED <<alloc, stack, loc, basemt, co, gcstate, atomicpc, currentwhite, finalized, weak,
                     tmudata, sweepstrgc, sweepgc, ctx, calls, prog>>
      /\ atomicpc = 0
  BY Zenon DEF SetFenv, collector, sweeps, Program, ProgramRuns
<1>4. StoreHeap(o) /\ \A f \in Field : ref'[o][f] = ref[o][f] \/ ref'[o][f] = e
  <2>1. Takes(o, "env", e)
    BY <1>2, Zenon DEF Takes, Field
  <2> QED BY <1>1, <1>2, <1>3, <2>1, SetOne, Zenon
<1> QED BY <1>1, <1>2, <1>3, <1>4, Barrier, Zenon

\* ... and the parser's stores to a prototype
LEMMA SetFieldInv ==
  ASSUME IInv, SetField, UNCHANGED prog
  PROVE  IInv'
<1>1. PICK o \in named \cap (Closure \cup Proto), v \in loaded :
        ref' = [ref EXCEPT ![o]["val"] = v] /\ barrier(o, v)
  BY Zenon DEF SetField
<1>2. /\ o \in Obj /\ o \in Live /\ o \in Closure \cup Proto
      /\ o \notin Table \cup Udata \cup Thread \cup Upval
      /\ v \in Data /\ v \in Value /\ Lives(v)
  BY <1>1, Named, TypesDisjoint, Zenon DEF Data
<1>3. /\ UNCHANGED <<alloc, stack, loc, basemt, co, gcstate, atomicpc, currentwhite, finalized, weak,
                     tmudata, sweepstrgc, sweepgc, ctx, calls, prog>>
      /\ atomicpc = 0
  BY Zenon DEF SetField, collector, sweeps, Program, ProgramRuns
<1>4. StoreHeap(o) /\ \A f \in Field : ref'[o][f] = ref[o][f] \/ ref'[o][f] = v
  <2>1. Takes(o, "val", v)
    BY <1>2, Zenon DEF Takes, Field
  <2> QED BY <1>1, <1>2, <1>3, <2>1, SetOne, Zenon
<1> QED BY <1>1, <1>2, <1>3, <1>4, Barrier, Zenon

\* ... and the stores to upvalues, open or closed
LEMMA SetUpvalInv ==
  ASSUME IInv, SetUpval, UNCHANGED prog
  PROVE  IInv'
<1>1. PICK c \in instack \cap Closure, v \in loaded \ Proto :
        ref[c]["val"] \in Upval /\ setupval(ref[c]["val"], v, ref[c]["val"])
  BY Zenon DEF SetUpval
<1> DEFINE u == ref[c]["val"]
<1>2. /\ v \in Data /\ v \in Value /\ Lives(v) /\ c \in Obj /\ c \in Live
  BY <1>1, Named, Zenon DEF Data, Obj, Lives
<1>3. u \in Upval /\ u \in Obj /\ u \in Live
  BY <1>1, <1>2, TypesDisjoint, Zenon DEF IInv, Safe, Lives, Obj, Field
<1>4. setupval(u, v, u) /\ atomicpc = 0
  BY <1>1, Zenon DEF SetUpval, Program, ProgramRuns
<1> HIDE DEF u
<1>5. /\ UNCHANGED <<alloc, loc, basemt, co, gcstate, atomicpc, currentwhite, finalized, weak,
                     tmudata, sweepstrgc, sweepgc, ctx, calls, prog>>
      /\ barrier(u, v)
  BY <1>4, Zenon DEF setupval, collector, sweeps
<1>6. CASE isopen(u)
  <2>1. stack' = [stack EXCEPT ![loc[u][1]][loc[u][2]] = v] /\ UNCHANGED ref
    BY <1>4, <1>6, Zenon DEF setupval
  <2>2. loc[u][1] \in Thread /\ loc[u][2] \in StkId /\ loc[u][1] \in alloc /\ ~isblack(u)
    BY <1>3, <1>6, Zenon DEF IInv, TypeOK, HeapOK, ColorsOK, isopen, Live
  <2> QED BY <1>2, <1>4, <1>5, <2>1, <2>2, StackStore, Zenon DEF barrier, IInv, TypeOK, HeapOK, Safe
<1>7. CASE ~isopen(u)
  <2>1. ref' = [ref EXCEPT ![u]["val"] = v] /\ UNCHANGED stack
    BY <1>4, <1>7, Zenon DEF setupval
  <2>2. StoreHeap(u) /\ \A f \in Field : ref'[u][f] = ref[u][f] \/ ref'[u][f] = v
    <3>1. Takes(u, "val", v)
      BY <1>2, <1>3, <1>7, TypesDisjoint, Zenon DEF Takes, Field
    <3> QED BY <1>3, <1>5, <2>1, <3>1, SetOne, Zenon
  <2> QED BY <1>2, <1>4, <1>5, <2>2, Barrier, Zenon
<1> QED BY <1>6, <1>7, Zenon

\* gafqF_close: of the open upvalues us the dead ones are freed; M is what closing
\* the others marks, B the ones it blackens
CloseStep(us, M, B) ==
  LET freed == {u \in us : isdead(u)} IN
  /\ UNCHANGED <<stack, basemt, co, gcstate, atomicpc, currentwhite, finalized, grayagain, weak,
                 tmudata, sweepstrgc, sweepgc, ctx, calls, prog>>
  /\ us \subseteq {u \in alloc \cap Upval : isopen(u)}
  /\ alloc' = alloc \ freed
  /\ ref' = [o \in Obj |-> IF o \in us \ freed
                           THEN [NoRefs EXCEPT !["val"] = upvalue(o)] ELSE ref[o]]
  /\ loc' = [u \in Upval |-> IF u \in us THEN NIL ELSE loc[u]]
  /\ color' = [o \in Obj |-> IF o \in B THEN "black"
                             ELSE IF o \in freed THEN "white0"
                             ELSE IF o \in us \ freed /\ isgray(o) THEN currentwhite
                             ELSE recolor(M)[o]]
  /\ gray' = gray \cup (M \cap Traversed)
  /\ B = IF gcstate = "propagate" THEN {u \in us : isgray(u)} ELSE {}
  /\ gcstate # "propagate" => M = {}
  /\ M \subseteq alloc /\ M \cap Upval = {} /\ \A o \in M : iswhite(o)
  /\ \A u \in B : upvalue(u) \in alloc /\ iswhite(upvalue(u)) => upvalue(u) \in M
  /\ \A u \in M \cap Udata : \A f \in Field :
        ref[u][f] \in alloc /\ iswhite(ref[u][f]) => ref[u][f] \in M

\* Close is such a step
LEMMA CloseIs ==
  ASSUME IInv, Close, UNCHANGED prog
  PROVE  \E us, M, B : CloseStep(us, M, B)
<1>1. PICK j \in prog.slots :
       LET us == {u \in openupval(L) : loc[u][2] >= j}
           freed == {u \in us : isdead(u)}
           closed == us \ freed
           blackened == IF gcstate = "propagate" THEN {u \in closed : isgray(u)} ELSE {}
           M == reached({upvalue(u) : u \in blackened})
       IN
       /\ us # {}
       /\ alloc' = alloc \ freed
       /\ ref' = [o \in Obj |-> IF o \in closed
                                THEN [NoRefs EXCEPT !["val"] = upvalue(o)] ELSE ref[o]]
       /\ loc' = [u \in Upval |-> IF u \in us THEN NIL ELSE loc[u]]
       /\ color' = [o \in Obj |-> IF o \in blackened THEN "black"
                                  ELSE IF o \in freed THEN "white0"
                                  ELSE IF o \in closed /\ isgray(o) THEN currentwhite
                                  ELSE recolor(M)[o]]
       /\ gray' = gray \cup (M \cap Traversed)
  BY Zenon DEF Close
<1> DEFINE us == {u \in openupval(L) : loc[u][2] >= j}
           freed == {u \in us : isdead(u)}
           closed == us \ freed
           B == IF gcstate = "propagate" THEN {u \in closed : isgray(u)} ELSE {}
           S == {upvalue(u) : u \in B}
           M == reached(S)
<1>2. us \subseteq {u \in alloc \cap Upval : isopen(u)}
  BY Zenon DEF openupval
<1>3. B = IF gcstate = "propagate" THEN {u \in us : isgray(u)} ELSE {}
  BY Whites, Zenon DEF IInv, isgray, isdead
<1>4. S \cap Upval = {}
  BY <1>2, UpvalueData, Zenon DEF IInv, Data
<1>5. S = {} => M = {}
  BY Zenon DEF reached
<1>6. /\ M \subseteq alloc /\ \A o \in M : iswhite(o)
      /\ \A v \in S : v \in alloc /\ iswhite(v) => v \in M
      /\ \A u \in M \cap Udata : \A f \in Field :
            ref[u][f] \in alloc /\ iswhite(ref[u][f]) => ref[u][f] \in M
      /\ M \cap Upval = {}
  BY <1>4, MarkReach, Zenon DEF IInv
<1>7. UNCHANGED <<stack, basemt, co, gcstate, atomicpc, currentwhite, finalized, grayagain, weak,
                 tmudata, sweepstrgc, sweepgc, ctx, calls, prog>>
  BY Zenon DEF Close, collector, sweeps
<1>8. /\ alloc' = alloc \ freed
      /\ ref' = [o \in Obj |-> IF o \in us \ freed
                                THEN [NoRefs EXCEPT !["val"] = upvalue(o)] ELSE ref[o]]
      /\ loc' = [u \in Upval |-> IF u \in us THEN NIL ELSE loc[u]]
      /\ color' = [o \in Obj |-> IF o \in B THEN "black"
                                  ELSE IF o \in freed THEN "white0"
                                  ELSE IF o \in us \ freed /\ isgray(o) THEN currentwhite
                                  ELSE recolor(M)[o]]
      /\ gray' = gray \cup (M \cap Traversed)
  BY <1>1, Zenon
<1>9. CloseStep(us, M, B)
  BY <1>2, <1>3, <1>5, <1>6, <1>7, <1>8, Zenon DEF CloseStep
<1> QED BY <1>9, Zenon

\* gafqF_close keeps the invariant: gafqC_linkupval blackens a gray upvalue only
\* with its value marked, and whitens it when sweeping
LEMMA CloseInv ==
  ASSUME IInv, Close, UNCHANGED prog
  PROVE  IInv'
<1>0. TypeOK /\ HeapOK /\ SweepOK /\ ColorsOK /\ Safe /\ MarkOK /\ GclistExclusive /\ CallsOK
      /\ atomicpc = 0
  BY Zenon DEF IInv, Close, Program, ProgramRuns
<1>1. PICK us, M, B : CloseStep(us, M, B)
  BY CloseIs, Zenon
<1> DEFINE freed == {u \in us : isdead(u)}
<1>2. UNCHANGED <<stack, basemt, co, gcstate, atomicpc, currentwhite, finalized, grayagain, weak,
                 tmudata, sweepstrgc, sweepgc, ctx, calls, prog>>
  BY <1>1, Zenon DEF CloseStep
<1>3. /\ us \subseteq alloc /\ us \subseteq Upval /\ \A u \in us : isopen(u)
      /\ B = IF gcstate = "propagate" THEN {u \in us : isgray(u)} ELSE {}
      /\ M \subseteq alloc /\ M \cap Upval = {} /\ \A o \in M : iswhite(o)
      /\ gcstate # "propagate" => M = {}
  BY <1>1, Zenon DEF CloseStep
<1>4. /\ alloc' = alloc \ freed
      /\ \A o \in Obj : ref'[o] = IF o \in us \ freed
                           THEN [NoRefs EXCEPT !["val"] = upvalue(o)] ELSE ref[o]
      /\ \A u \in Upval : loc'[u] = IF u \in us THEN NIL ELSE loc[u]
      /\ gray' = gray \cup (M \cap Traversed)
  BY <1>1, Zenon DEF CloseStep
<1>5. /\ currentwhite \in White /\ currentwhite # otherwhite(currentwhite)
      /\ "gray" \notin White /\ "black" \notin White /\ otherwhite(currentwhite) \in White
      /\ White = {currentwhite, otherwhite(currentwhite)}
      /\ alloc \subseteq Obj
  BY <1>0, Whites, Zenon DEF TypeOK
<1>6. \A u \in us : color[u] = "gray" \/ color[u] = currentwhite \/ isdead(u)
  BY <1>0, <1>3, <1>5, Zenon DEF ColorsOK, TypeOK, isblack, isdead
<1>7. gcstate = "propagate" => freed = {} /\ \A o \in alloc : ~isdead(o)
  BY <1>0, <1>3, Zenon DEF ColorsOK
<1>8. /\ \A o \in B : color'[o] = "black"
      /\ \A o \in us \ (freed \cup B) : color'[o] = currentwhite
      /\ \A o \in M : color'[o] = IF o \in Udata THEN "black" ELSE "gray"
      /\ \A o \in alloc \ (us \cup M) : color'[o] = color[o]
  <2>1. \A o \in Obj : color'[o] = IF o \in B THEN "black"
                             ELSE IF o \in freed THEN "white0"
                             ELSE IF o \in us \ freed /\ isgray(o) THEN currentwhite
                             ELSE recolor(M)[o]
    BY <1>1, Zenon DEF CloseStep
  <2>2. \A o \in Obj : recolor(M)[o] = IF o \notin M THEN color[o]
                 ELSE IF o \in Udata \/ (o \in Upval /\ ~isopen(o)) THEN "black" ELSE "gray"
    BY Zenon DEF recolor
  <2>3. B \subseteq us /\ us \subseteq Obj /\ M \subseteq Obj /\ us \cap M = {}
    BY <1>3, <1>5, Zenon
  <2>4. \A o \in M : color'[o] = IF o \in Udata THEN "black" ELSE "gray"
    BY <1>3, <2>1, <2>2, <2>3, Zenon
  <2>5. \A o \in us \ (freed \cup B) : color'[o] = currentwhite
    BY <1>6, <2>1, <2>2, <2>3, Zenon DEF isgray
  <2>6. \A o \in B : color'[o] = "black"
    BY <2>1, <2>3, Zenon
  <2>7. \A o \in alloc \ (us \cup M) : color'[o] = color[o]
    BY <1>5, <2>1, <2>2, <2>3, Zenon
  <2> QED BY <2>4, <2>5, <2>6, <2>7, Zenon
<1>9. \A u \in Upval : upvalue(u) \in Data
  BY <1>0, UpvalueData, Zenon
<1>10. \A u \in us \ freed : /\ ref'[u]["val"] = upvalue(u)
                             /\ \A f \in Field \ {"val"} : ref'[u][f] = NIL
  <2> TAKE u \in us \ freed
  <2>1. ref'[u] = [NoRefs EXCEPT !["val"] = upvalue(u)] /\ u \in Obj
    BY <1>3, <1>4, <1>5, Zenon
  <2> QED BY <2>1, Zenon DEF NoRefs, Field
<1>11. TypeOK'
  <2>1. ref' \in [Obj -> [Field -> Value]]
    <3>1. NIL \in Value
      BY Zenon DEF Value
    <3>2. \A o \in us : [NoRefs EXCEPT !["val"] = upvalue(o)] \in [Field -> Value]
      BY <1>3, <1>9, <3>1, Zenon DEF NoRefs, Field, Data
    <3>3. ref' = [o \in Obj |-> IF o \in us \ freed
                           THEN [NoRefs EXCEPT !["val"] = upvalue(o)] ELSE ref[o]]
      BY <1>1, Zenon DEF CloseStep
    <3>4. \A o \in Obj : ref[o] \in [Field -> Value]
      BY <1>0, Zenon DEF TypeOK
    <3> HIDE DEF freed
    <3> QED BY <3>2, <3>3, <3>4, Zenon
  <2>2. loc' \in [Upval -> (Thread \X StkId) \cup {NIL}]
    BY <1>0, <1>1, Zenon DEF CloseStep, TypeOK
  <2>3. color' \in [Obj -> White \cup {"gray", "black"}]
    <3>1. recolor(M) \in [Obj -> White \cup {"gray", "black"}]
      BY <1>0, Zenon DEF recolor, TypeOK
    <3>2. "white0" \in White
      BY Zenon DEF White
    <3> QED BY <1>1, <1>5, <3>1, <3>2, Zenon DEF CloseStep
  <2>4. gray' \subseteq Traversed /\ alloc' \subseteq Obj
    BY <1>0, <1>4, <1>5, Zenon DEF TypeOK
  <2> QED BY <1>0, <1>2, <2>1, <2>2, <2>3, <2>4, Zenon DEF TypeOK
<1> HIDE DEF freed
<1>12. freed \subseteq us /\ \A u \in us : u \in freed <=> isdead(u)
  BY Zenon DEF freed
<1>13. HeapOK'
  <2>1. FieldsOK'
    <3>1. SUFFICES ASSUME NEW x \in Obj
      PROVE
    /\ x \in Table => /\ Only(x, {"metatable", "array", "key", "val"})'
                      /\ ref'[x]["metatable"] \in NILor(Table)
                      /\ \A f \in {"array", "key", "val"} : ref'[x][f] \in Data
    /\ x \in Udata => /\ Only(x, {"metatable", "env"})'
                      /\ ref'[x]["metatable"] \in NILor(Table)
                      /\ ref'[x]["env"] \in NILor(Table)
    /\ x \in Closure => /\ Only(x, {"env", "val", "p"})'
                        /\ ref'[x]["env"] \in NILor(Table)
                        /\ ref'[x]["p"] \in NILor(Proto)
    /\ x \in Proto \cup Upval => Only(x, {"val"})' /\ ref'[x]["val"] \in Data
    /\ x \in Upval /\ isopen(x)' => ref'[x]["val"] = NIL
    /\ x \in Thread => Only(x, {"env"})' /\ ref'[x]["env"] \in NILor(Table)
    /\ x \in String \/ x \notin alloc' => Only(x, {})'
      BY Zenon DEF FieldsOK
    <3>2. CASE x \in us \ freed
      <4>1. /\ x \in Upval /\ ~isopen(x)' /\ x \in alloc'
            /\ x \notin Table \cup Udata \cup Closure \cup Proto \cup Thread \cup String
        BY <1>3, <1>4, <3>2, TypesDisjoint, Zenon DEF isopen
      <4>2. ref'[x]["val"] \in Data /\ Only(x, {"val"})'
        BY <1>3, <1>9, <1>10, <3>2, Zenon DEF Only
      <4> QED BY <4>1, <4>2, Zenon
    <3>3. CASE x \notin us \ freed
      <4>1. ref'[x] = ref[x]
        BY <1>4, <3>3, Zenon
      <4>2. x \in freed => Only(x, {})
        BY <1>0, <1>3, <1>12, Zenon DEF HeapOK, FieldsOK, Only
      <4>3. x \in Upval /\ isopen(x)' => isopen(x)
        BY <1>4, Zenon DEF isopen
      <4> QED BY <1>0, <1>4, <4>1, <4>2, <4>3, SMTT(30), Zenon DEF HeapOK, FieldsOK, Only
    <3> QED BY <3>2, <3>3, Zenon
  <2>2. \A th \in Thread : th \notin us
    BY <1>3, TypesDisjoint, Zenon
  <2>3. \A th \in Thread \ alloc' : \A i \in StkId : stack'[th][i] = NIL
    BY <1>0, <1>2, <1>4, <1>12, <2>2, Zenon DEF HeapOK
  <2>4. \A u \in Upval : isopen(u)' => u \in alloc' /\ loc'[u][1] \in alloc'
    <3> TAKE u \in Upval
    <3> HAVE isopen(u)'
    <3>1. u \notin us /\ loc'[u] = loc[u] /\ isopen(u)
      BY <1>4, Zenon DEF isopen
    <3>2. u \in alloc /\ loc[u][1] \in alloc /\ loc[u][1] \in Thread
      BY <1>0, <3>1, Zenon DEF HeapOK, TypeOK, isopen
    <3> QED BY <1>4, <1>12, <2>2, <3>1, <3>2, Zenon
  <2>5. tmudata' \subseteq alloc'
    <3>1. tmudata \cap us = {}
      BY <1>0, <1>3, TypesDisjoint, Zenon DEF TypeOK
    <3> QED BY <1>0, <1>2, <1>4, <1>12, <3>1, Zenon DEF HeapOK
  <2> QED BY <1>0, <1>2, <2>1, <2>3, <2>4, <2>5, Zenon DEF HeapOK
<1>14. \A o \in alloc' : isdead(o)' <=> isdead(o)
  <2> TAKE o \in alloc'
  <2>1. o \in alloc /\ o \notin freed
    BY <1>4, Zenon
  <2>2. CASE o \in us
    BY <1>2, <1>5, <1>8, <1>12, <2>1, <2>2, Zenon DEF isdead
  <2>3. CASE o \in M
    BY <1>2, <1>3, <1>5, <1>7, <1>8, <2>1, <2>3, Zenon DEF isdead
  <2>4. CASE o \notin us \cup M
    BY <1>2, <1>8, <2>1, <2>4, Zenon DEF isdead
  <2> QED BY <2>2, <2>3, <2>4, Zenon
<1>15. Live' = Live
  BY <1>4, <1>12, <1>14, Zenon DEF Live
<1>16. \A x \in Live : x \notin freed
  BY <1>12, Zenon DEF Live
<1>17. Safe'
  <2>1. \A x \in Live : \A f \in Field :
          (x \in Table /\ f = "key" => ref'[x]["val"] # NIL) => Lives(ref'[x][f])
    <3> TAKE x \in Live
    <3> TAKE f \in Field
    <3>0. x \in Obj
      BY <1>5, Zenon DEF Live
    <3>1. CASE x \in us
      <4>1. Lives(upvalue(x))
        BY <1>0, <1>3, <3>1, Zenon DEF Safe
      <4>2. Lives(NIL)
        BY TypesDisjoint, Zenon DEF Lives
      <4> QED BY <1>10, <1>16, <3>1, <4>1, <4>2, Zenon
    <3>2. CASE x \notin us
      <4>1. ref'[x] = ref[x]
        BY <1>4, <3>0, <3>2, Zenon
      <4> QED BY <1>0, <4>1, Zenon DEF Safe
    <3> QED BY <3>1, <3>2, Zenon
  <2>2. \A u \in Live \cap Upval : Lives(upvalue(u)')
    <3> TAKE u \in Live \cap Upval
    <3>1. upvalue(u)' = upvalue(u)
      <4>1. CASE u \in us
        BY <1>4, <1>10, <1>16, <4>1, Zenon DEF upvalue, isopen
      <4>2. CASE u \notin us
        <5>1. ref'[u] = ref[u] /\ loc'[u] = loc[u]
          BY <1>4, <1>5, <4>2, Zenon DEF Live
        <5> QED BY <1>2, <5>1, Zenon DEF upvalue, isopen
      <4> QED BY <4>1, <4>2, Zenon
    <3> QED BY <1>0, <3>1, Zenon DEF Safe
  <2>3. /\ mainthread \in Live /\ registry \in Live /\ Lives(basemt')
        /\ \A i \in 1 .. Len(co') : co'[i] \in Live
        /\ \A th \in Live \cap Thread : \A i \in StkId : Lives(stack'[th][i])
    BY <1>0, <1>2, Zenon DEF Safe
  <2> QED BY <1>15, <2>1, <2>2, <2>3, Zenon DEF Safe, Lives
<1>18. SweepOK'
  <2>1. sweepgc \cap us = {} /\ String \cap us = {}
    BY <1>0, <1>3, TypesDisjoint, Zenon DEF SweepOK
  <2> QED BY <1>0, <1>2, <1>4, <1>12, <2>1, Zenon DEF SweepOK, Sweeping, isopen
<1>19. ColorsOK'
  <2>1. \A o \in alloc' : isblack(o)' => o \notin Thread /\ (o \in Upval => ~isopen(o)')
    <3> TAKE o \in alloc'
    <3>1. o \in alloc /\ o \notin freed
      BY <1>4, Zenon
    <3>2. CASE o \in us
      BY <1>3, <1>4, <3>2, TypesDisjoint, Zenon DEF isopen
    <3>3. CASE o \in M
      BY <1>3, <1>8, <3>3, TypesDisjoint, Zenon DEF isblack
    <3>4. CASE o \notin us \cup M
      BY <1>0, <1>4, <1>8, <3>1, <3>4, Zenon DEF ColorsOK, isblack, isopen
    <3> QED BY <3>2, <3>3, <3>4, Zenon
  <2>2. \A o \in alloc' : isgray(o)' => o \notin Udata /\ (o \in Upval => isopen(o)')
    <3> TAKE o \in alloc'
    <3>1. o \in alloc /\ o \notin freed
      BY <1>4, Zenon
    <3>2. CASE o \in us
      BY <1>5, <1>8, <3>1, <3>2, Zenon DEF isgray
    <3>3. CASE o \in M
      BY <1>3, <1>8, <3>3, Zenon DEF isgray
    <3>4. CASE o \notin us \cup M
      BY <1>0, <1>4, <1>8, <3>1, <3>4, Zenon DEF ColorsOK, isgray, isopen
    <3> QED BY <3>2, <3>3, <3>4, Zenon
  <2>3. \A u \in tmudata' : isblack(u)' \/ color'[u] = currentwhite'
    <3> TAKE u \in tmudata'
    <3>1. u \in tmudata /\ u \in alloc /\ u \in Udata /\ u \notin us
      BY <1>0, <1>2, <1>3, TypesDisjoint, Zenon DEF TypeOK, HeapOK
    <3> QED BY <1>0, <1>2, <1>8, <3>1, Zenon DEF ColorsOK, isblack
  <2>4. gcstate' # "propagate" =>
          \A o \in alloc' \ tmudata' : color'[o] = currentwhite' \/ Pending(o)'
    <3> SUFFICES ASSUME gcstate # "propagate", NEW o \in alloc' \ tmudata
                 PROVE  color'[o] = currentwhite \/ Pending(o)'
      BY <1>2, Zenon
    <3>1. o \in alloc /\ o \notin freed /\ M = {} /\ B = {}
      BY <1>3, <1>4, Zenon
    <3>2. CASE o \in us
      BY <1>8, <3>1, <3>2, Zenon
    <3>3. CASE o \notin us
      <4>1. color'[o] = color[o] /\ (o \in Upval => loc'[o] = loc[o])
        BY <1>4, <1>8, <3>1, <3>3, Zenon
      <4>2. Pending(o) => Pending(o)'
        BY <1>2, <4>1, Zenon DEF Pending, isopen
      <4> QED BY <1>0, <3>1, <4>1, <4>2, Zenon DEF ColorsOK
    <3> QED BY <3>2, <3>3, Zenon
  <2>5. gcstate' = "propagate" => \A o \in alloc' : ~isdead(o)'
    BY <1>2, <1>4, <1>7, <1>14, Zenon
  <2> QED BY <1>0, <1>2, <2>1, <2>2, <2>3, <2>4, <2>5, Zenon DEF ColorsOK
<1>20. MarkOK'
  <2> SUFFICES ASSUME gcstate = "propagate"
               PROVE  /\ Marked(mainthread)' /\ Marked(registry)'
                      /\ \A x \in alloc' \ tmudata : isblack(x)' => \A f \in Field : Marked(ref[x][f])'
    BY <1>0, <1>2, SMTT(30), Zenon DEF MarkOK
  <2>1. freed = {} /\ alloc' = alloc
    BY <1>4, <1>7, Zenon
  <2>2. \A v : Marked(v) \/ v \in M => (v \in Obj => v \in alloc' /\ ~(color'[v] \in White))
    <3> SUFFICES ASSUME NEW v \in Obj, Marked(v) \/ v \in M
                 PROVE  v \in alloc /\ color'[v] \notin White
      BY <2>1, Zenon
    <3>1. v \in alloc
      BY <1>3, Zenon DEF Marked
    <3>2. CASE v \in M
      <4>1. color'[v] = "black" \/ color'[v] = "gray"
        BY <1>8, <3>2, Zenon
      <4> QED BY <1>5, <3>1, <4>1, Zenon
    <3>3. CASE v \in us /\ v \notin M
      <4>1. color[v] = "gray"
        BY <1>5, <1>6, <1>7, <3>1, <3>3, Zenon DEF Marked, iswhite
      <4> QED BY <1>3, <1>5, <1>8, <3>3, <4>1, Zenon DEF isgray
    <3>4. CASE v \notin us \cup M
      BY <1>8, <3>1, <3>4, Zenon DEF Marked, iswhite
    <3> QED BY <3>2, <3>3, <3>4, Zenon
  <2>3. Marked(mainthread)' /\ Marked(registry)'
    BY <1>0, <2>2, Zenon DEF MarkOK, Marked, iswhite
  <2> SUFFICES ASSUME NEW x \in alloc \ tmudata, isblack(x)', NEW f \in Field
               PROVE  Marked(ref'[x][f]) \/ ref'[x][f] \in M
    BY <2>1, <2>2, <2>3, Zenon DEF Marked, iswhite
  <2>4. x \in Obj
    BY <1>5, Zenon
  <2>5. CASE x \in us
    <3>1. x \in B
      BY <1>5, <1>8, <2>1, <2>5, Zenon DEF isblack
    <3>2. upvalue(x) \in Obj => upvalue(x) \in alloc
      <4>1. x \in Live
        BY <1>12, <2>1, <2>5, Zenon DEF Live
      <4> QED BY <1>0, <1>3, <2>5, <4>1, Zenon DEF Safe, Lives, Live
    <3>3. upvalue(x) \in alloc /\ iswhite(upvalue(x)) => upvalue(x) \in M
      BY <1>1, <3>1, Zenon DEF CloseStep
    <3>4. Marked(NIL)
      BY TypesDisjoint, Zenon DEF Marked
    <3> QED BY <1>10, <2>1, <2>5, <3>2, <3>3, <3>4, Zenon DEF Marked
  <2>6. CASE x \in M
    <3>1. x \in Udata /\ x \notin Table /\ x \notin us
      BY <1>3, <1>8, <2>6, TypesDisjoint, Zenon DEF isblack
    <3>2. x \in Live /\ ref'[x] = ref[x]
      BY <1>4, <1>7, <2>4, <3>1, Zenon DEF Live
    <3>3. ref[x][f] \in Obj => ref[x][f] \in alloc
      BY <1>0, <3>1, <3>2, Zenon DEF Safe, Lives, Live
    <3>4. ref[x][f] \in alloc /\ iswhite(ref[x][f]) => ref[x][f] \in M
      BY <1>1, <2>6, <3>1, Zenon DEF CloseStep
    <3> QED BY <3>2, <3>3, <3>4, Zenon DEF Marked
  <2>7. CASE x \notin us \cup M
    <3>1. isblack(x) /\ ref'[x] = ref[x]
      BY <1>4, <1>8, <2>4, <2>7, Zenon DEF isblack
    <3> QED BY <1>0, <3>1, Zenon DEF MarkOK
  <2> QED BY <2>5, <2>6, <2>7, Zenon
<1>21. GclistExclusive'
  <2> SUFFICES ASSUME gcstate = "propagate"
               PROVE  /\ gray' \cap grayagain = {} /\ gray' \cap weak = {} /\ grayagain \cap weak = {}
                      /\ gray' \cup grayagain \cup weak = {o \in alloc' \cap Traversed : isgray(o)'}
    BY <1>2, Zenon DEF GclistExclusive
  <2>1. freed = {} /\ alloc' = alloc
    BY <1>4, <1>7, Zenon
  <2>2. Traversed \cap us = {} /\ Traversed \cap Udata = {}
    BY <1>3, TypesDisjoint, Zenon DEF Traversed
  <2>3. \A o \in alloc \cap Traversed : isgray(o)' <=> isgray(o) \/ o \in M
    BY <1>8, <2>2, Zenon DEF isgray
  <2>4. \A o \in M : ~isgray(o)
    BY <1>3, <1>5, Zenon DEF isgray, iswhite
  <2> QED BY <1>0, <1>3, <1>4, <2>1, <2>3, <2>4, Zenon DEF GclistExclusive
<1>22. CallsOK'
  BY <1>0, <1>2, CallsKeep, Zenon
<1> QED BY <1>11, <1>13, <1>17, <1>18, <1>19, <1>20, <1>21, <1>22, Zenon DEF IInv

=============================================================================
