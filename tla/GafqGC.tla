------------------------------- MODULE GafqGC -------------------------------
(***************************************************************************)
(* The incremental tri-colour mark-and-sweep collector of ggc.c, together  *)
(* with every operation of the interpreter that creates a collectable      *)
(* object or stores a reference to one (gapi.c, gvm.c, gfunc.c, gstring.c, *)
(* gstate.c, the coroutine switches of gdo.c), that is, every place where a*)
(* barrier is, or is deliberately not, executed.                           *)
(*                                                                         *)
(* The program runs between any two single steps of the collector, so a    *)
(* behaviour interleaves program steps (one per store or allocation) with  *)
(* collector steps (one per `singlestep'; `atomic' is split at its calls   *)
(* of `propagateall', with the program blocked in between).                *)
(***************************************************************************)
EXTENDS Naturals, Sequences, FiniteSets

CONSTANTS
  Table, Udata, Closure, Proto, Upval, Thread, String,  \* addresses, by type
  mainthread, registry, globals,  \* global_State.mainthread, registry(L), gt(mainthread)
  NIL, Prim,        \* nil and the other non-collectable values
  StkId,            \* stack slots of a thread
  Mode,             \* Mode[t]: the weak letters in t.__mode, t used as a metatable
  HasGC,            \* the tables with a __gc field
  FixedStr,         \* strings with FIXEDBIT (reserved words, event names)
  GCSWEEPMAX,       \* objects swept per step
  MaxNest,          \* bound: gafqC_fullgc calls nested through finalizers
  Programs          \* bound: the kinds of program.  A program is [ops, values,
                    \* slots]: the operations it performs, the objects it creates
                    \* with the primitive values it loads, its stack slots

Obj == Table \cup Udata \cup Closure \cup Proto \cup Upval \cup Thread \cup String
Value == Obj \cup Prim \cup {NIL}
\* what a variable, a field or a stack slot may hold (upvalues and prototypes
\* are internal; a prototype under construction is anchored in the stack)
Data == Value \ Upval

\* the references an object holds: a table has a metatable, one array slot
\* and one hash node; a closure an environment and an upvalue (an UpVal for a
\* Gafq function, a value for a C function) and a Gafq function its prototype
Field == {"metatable", "env", "array", "key", "val", "p"}
White == {"white0", "white1"}

ASSUME TypesDisjoint ==
  /\ Table \cap (Udata \cup Closure \cup Proto \cup Upval \cup Thread \cup String) = {}
  /\ Udata \cap (Closure \cup Proto \cup Upval \cup Thread \cup String) = {}
  /\ Closure \cap (Proto \cup Upval \cup Thread \cup String) = {}
  /\ Proto \cap (Upval \cup Thread \cup String) = {}
  /\ Upval \cap (Thread \cup String) = {} /\ Thread \cap String = {}
  /\ Prim \cap Obj = {} /\ NIL \notin Obj \cup Prim \cup (Thread \X StkId)
\* a machine has finitely many addresses
ASSUME HeapFinite == IsFiniteSet(Obj)
ASSUME RootsAssumption ==
  /\ mainthread \in Thread /\ registry \in Table /\ globals \in Table
ASSUME ModesAssumption ==
  /\ Mode \in [Table -> SUBSET {"k", "v"}]
  /\ HasGC \subseteq Table /\ FixedStr \subseteq String
  /\ \A p \in Programs : p.values \subseteq Obj \cup Prim /\ p.slots \subseteq StkId
  /\ StkId \subseteq Nat /\ GCSWEEPMAX \in Nat \ {0} /\ MaxNest \in Nat

VARIABLES
  \* the heap as the program sees it
  alloc,        \* objects that are allocated
  ref,          \* ref[o][f]: the reference in field f of o
  stack,        \* stack[th][i]: the stacks
  loc,          \* loc[u]: <<th, i>> for an open upvalue, NIL once closed
  basemt,       \* global_State.mt: a metatable of a basic type
  co,           \* the threads that resumed one another; the last one runs
  \* global_State's collector fields
  gcstate,      \* "pause", "propagate", "sweepstring", "sweep", "finalize"
  atomicpc,     \* how far `atomic' has got (0: not in it)
  currentwhite,
  color,        \* white, gray and black bits of marked
  finalized,    \* udata with FINALIZEDBIT
  gray, grayagain, weak, tmudata,
  sweepstrgc, sweepgc,   \* what is still to be swept
  ctx,          \* the gafqC_fullgc calls in progress
  calls,        \* calls[u]: how often the finalizer of u was called (history)
  prog          \* the program that runs

heap == <<alloc, ref, stack, loc, basemt, co>>
lists == <<gray, grayagain, weak>>
sweeps == <<sweepstrgc, sweepgc>>
vars == <<alloc, ref, stack, loc, basemt, co, gcstate, atomicpc, currentwhite,
          color, finalized, gray, grayagain, weak, tmudata, sweepstrgc,
          sweepgc, ctx, calls, prog>>

-----------------------------------------------------------------------------
(* Colours and references.                                                 *)

NoRefs == [f \in Field |-> NIL]
L == co[Len(co)]                       \* the running thread

otherwhite(w) == IF w = "white0" THEN "white1" ELSE "white0"
iswhite(o) == color[o] \in White
isblack(o) == color[o] = "black"
isgray(o) == color[o] = "gray"
isdead(o) == color[o] = otherwhite(currentwhite)

\* objects with a gclist field: marking puts them in a list to be traversed
Traversed == Table \cup Closure \cup Proto \cup Thread

isopen(u) == loc[u] # NIL
\* *uv->v
upvalue(u) == IF isopen(u) THEN stack[loc[u][1]][loc[u][2]] ELSE ref[u]["val"]
openupval(th) == {u \in alloc \cap Upval : isopen(u) /\ loc[u][1] = th}

weakmode(t) == IF ref[t]["metatable"] \in Table THEN Mode[ref[t]["metatable"]] ELSE {}

\* the values that traversetable marks
tablerefs(t) ==
  LET live == ref[t]["val"] # NIL IN
  {ref[t]["metatable"]}
    \cup (IF "v" \in weakmode(t) THEN {} ELSE {ref[t]["array"], ref[t]["val"]})
    \cup (IF "k" \in weakmode(t) \/ ~live THEN {} ELSE {ref[t]["key"]})

\* the values that traversestack marks: gt(l) and the stack, in which a
\* thread that resumed another one holds it as the argument of resume
stackrefs(th) ==
  {ref[th]["env"]} \cup {stack[th][i] : i \in StkId}
    \cup {co[i + 1] : i \in {j \in 1 .. Len(co) - 1 : co[j] = th}}

\* the values an object keeps alive: what its traversal or its marking marks
refs(o) ==
  CASE o \in Table  -> tablerefs(o)
    [] o \in Thread -> stackrefs(o)
    [] o \in Upval  -> {upvalue(o)}
    [] OTHER        -> {ref[o][f] : f \in Field}
children(o) == refs(o) \cap Obj

-----------------------------------------------------------------------------
(* Marking.                                                                *)

\* the objects that markvalue/markobject on every value of S turn gray or
\* black: reallymarkobject goes on from an upvalue to its value and from a
\* udata to its metatable and environment, and no further
reached(S) ==
  LET W(T) == {o \in T \cap alloc : iswhite(o)}
      A == W(S)
      B == A \cup W({upvalue(u) : u \in A \cap Upval})
  IN  B \cup W(UNION {{ref[u]["metatable"], ref[u]["env"]} : u \in B \cap Udata})

\* the colours after marking the objects M (udata and closed upvalues turn
\* black at once)
recolor(M) ==
  [o \in Obj |-> IF o \notin M THEN color[o]
                 ELSE IF o \in Udata \/ (o \in Upval /\ ~isopen(o)) THEN "black"
                 ELSE "gray"]

markroot ==
  LET M == reached({mainthread, ref[mainthread]["env"], registry, basemt}) IN
  /\ color' = recolor(M)
  /\ gray' = M \cap Traversed
  /\ grayagain' = {} /\ weak' = {}
  /\ gcstate' = "propagate"

\* propagatemark on a gray object o of the list: a weak table stays gray and
\* goes to `weak', a thread stays gray and goes to `grayagain'; a table's
\* nodes without a value lose their keys (removeentry)
propagatemark(o) ==
  LET M == reached(children(o))
      w == IF o \in Table THEN weakmode(o) ELSE {}
  IN
  /\ color' = [recolor(M) EXCEPT ![o] =
                 IF o \in Thread \/ w # {} THEN "gray" ELSE "black"]
  /\ gray' = (gray \ {o}) \cup (M \cap Traversed)
  /\ grayagain' = IF o \in Thread THEN grayagain \cup {o} ELSE grayagain
  /\ weak' = IF w # {} THEN weak \cup {o} ELSE weak
  /\ ref' = IF o \in Table /\ w # {"k", "v"} /\ ref[o]["val"] = NIL
                              /\ ref[o]["key"] \in Obj
            THEN [ref EXCEPT ![o]["key"] = NIL] ELSE ref

-----------------------------------------------------------------------------
(* The single steps of the collector.                                      *)

\* a collector step runs inside gafqC_step (called by the program, a running
\* finalizer included) or in one of the two loops of gafqC_fullgc
top == IF ctx = <<>> THEN "none" ELSE ctx[Len(ctx)]
ProgramRuns == atomicpc = 0 /\ top \in {"none", "finalizer"}
CollectorRuns == /\ top = "sweep" => gcstate # "finalize"
                 /\ top = "mark" => gcstate # "pause"

MarkRoot ==
  /\ CollectorRuns /\ gcstate = "pause"
  /\ markroot
  /\ UNCHANGED <<heap, atomicpc, currentwhite, finalized, tmudata, sweeps, ctx, calls>>

\* one object: a step of the propagate phase, or of a propagateall in atomic
PropagateMark ==
  /\ CollectorRuns /\ gcstate = "propagate"
  /\ \E o \in gray : propagatemark(o)
  /\ UNCHANGED <<alloc, stack, loc, basemt, co, gcstate, atomicpc, currentwhite,
                 finalized, tmudata, sweeps, ctx, calls>>

\* what a part of atomic that only marks the values S leaves alone
atomicmark(S, list) ==
  LET M == reached(S) IN
  /\ color' = recolor(M)
  /\ gray' = list \cup (M \cap Traversed)
  /\ atomicpc' = atomicpc + 1
  /\ UNCHANGED <<heap, gcstate, currentwhite, sweeps, ctx, calls>>
AtomicAt(pc) == CollectorRuns /\ gcstate = "propagate" /\ gray = {} /\ atomicpc = pc

\* mutant: upvalues of threads that are not marked are not remarked
RemarkUpvals_None ==
  AtomicAt(0) /\ atomicmark({}, {}) /\ UNCHANGED <<grayagain, weak, finalized, tmudata>>

\* remarkupvals: a gray open upvalue may belong to a thread that is not marked
RemarkUpvals ==
  /\ AtomicAt(0)
  /\ atomicmark({upvalue(u) : u \in {v \in alloc \cap Upval : isopen(v) /\ isgray(v)}}, {})
  /\ UNCHANGED <<grayagain, weak, finalized, tmudata>>

RemarkWeak ==
  /\ AtomicAt(1)
  /\ atomicmark({L, basemt}, weak)
  /\ weak' = {}
  /\ UNCHANGED <<grayagain, finalized, tmudata>>

RemarkGrayAgain ==
  /\ AtomicAt(2)
  /\ atomicmark({}, grayagain)
  /\ grayagain' = {}
  /\ UNCHANGED <<weak, finalized, tmudata>>

gcTM(u) == ref[u]["metatable"] \in HasGC

\* mutant: FINALIZEDBIT is not tested
unreached_Again == {u \in (alloc \cap Udata) \ tmudata : iswhite(u)}

\* the udata that gafqC_separateudata(L, 0) takes: unreached for the first time
unreached == {u \in (alloc \cap Udata) \ tmudata : iswhite(u) /\ u \notin finalized}

\* mutant: only the new elements of tmudata are marked, not what they refer to
marktmu_Flat(tmu) == tmu

\* marktmu, on the whole list: its elements may still be black from the cycle
\* before, and are made white first
marktmu(tmu) == tmu \cup reached(UNION {{ref[u]["metatable"], ref[u]["env"]} : u \in tmu})

SeparateUdata ==
  LET tmu == tmudata \cup {u \in unreached : gcTM(u)}
      M == marktmu(tmu)
  IN
  /\ AtomicAt(3)
  /\ finalized' = finalized \cup unreached
  /\ tmudata' = tmu
  /\ color' = recolor(M)
  /\ gray' = M \cap Traversed
  /\ atomicpc' = 4
  /\ UNCHANGED <<heap, gcstate, currentwhite, grayagain, weak, sweeps, ctx, calls>>

\* mutant: a key that is kept for its finalizer counts as collected too
iscleared_Keys(v, iskey) ==
  v \in Obj \ String /\ (iswhite(v) \/ v \in finalized)

\* iscleared, but for the marking of strings
iscleared(v, iskey) ==
  v \in Obj \ String /\ (iswhite(v) \/ (~iskey /\ v \in finalized))

clearnode(t) == /\ ref[t]["val"] # NIL
                /\ iscleared(ref[t]["key"], TRUE) \/ iscleared(ref[t]["val"], FALSE)
cleararray(t) == "v" \in weakmode(t) /\ iscleared(ref[t]["array"], FALSE)
\* the strings iscleared marks in table t: those of array slots it looks at,
\* the key of a node and, unless the key settles the matter, its value
keptstrings(t) ==
  String \cap ((IF "v" \in weakmode(t) THEN {ref[t]["array"]} ELSE {})
     \cup (IF ref[t]["val"] = NIL THEN {}
           ELSE IF iscleared(ref[t]["key"], TRUE) THEN {}
           ELSE {ref[t]["key"], ref[t]["val"]}))

\* cleartable(g->weak), the flip of the current white, and the sweep set up;
\* open upvalues are swept with their threads, tmudata is not swept
ClearTableAndFlip ==
  /\ AtomicAt(4)
  /\ ref' = [t \in Obj |->
        IF t \notin weak THEN ref[t]
        ELSE [f \in Field |->
                IF \/ f = "val" /\ clearnode(t)
                   \/ f = "key" /\ clearnode(t) /\ ref[t]["key"] \in Obj
                   \/ f = "array" /\ cleararray(t)
                THEN NIL ELSE ref[t][f]]]
  /\ color' = recolor(UNION {keptstrings(t) : t \in weak})
  /\ currentwhite' = otherwhite(currentwhite)
  /\ sweepstrgc' = alloc \cap String
  /\ sweepgc' = {o \in alloc \ (String \cup tmudata) : o \in Upval => ~isopen(o)}
  /\ gcstate' = "sweepstring" /\ atomicpc' = 0
  /\ UNCHANGED <<alloc, stack, loc, basemt, co, finalized, lists, tmudata, ctx, calls>>

\* the test of sweeplist: (marked ^ WHITEBITS) & deadmask
survives(o) == ~isdead(o) \/ o = mainthread \/ o \in FixedStr

\* mutant: the colour stays
makewhite_Keep(o) == color[o]

makewhite(o) == currentwhite

\* a thread's open upvalues are swept with it
withupvals(S) == S \cup UNION {openupval(th) : th \in S \cap Thread}

\* sweeplist over the objects S: the survivors turn white, the others are
\* freed; upvalues that outlive their thread are closed (gafqE_freethread)
sweeplist(S) ==
  LET all == withupvals(S)
      freed == {o \in all : ~survives(o)}
      closed == {u \in (all \cap Upval) \ freed : isopen(u) /\ loc[u][1] \in freed}
  IN
  /\ alloc' = alloc \ freed
  /\ color' = [o \in Obj |-> IF o \in freed THEN "white0"
                             ELSE IF o \in all THEN makewhite(o) ELSE color[o]]
  /\ ref' = [o \in Obj |-> IF o \in freed THEN NoRefs
                           ELSE IF o \in closed
                           THEN [NoRefs EXCEPT !["val"] = upvalue(o)] ELSE ref[o]]
  /\ loc' = [u \in Upval |-> IF u \in freed \cup closed THEN NIL ELSE loc[u]]
  /\ stack' = [th \in Thread |-> IF th \in freed THEN [i \in StkId |-> NIL] ELSE stack[th]]
  /\ finalized' = finalized \ freed
  /\ calls' = [u \in Udata |-> IF u \in freed THEN 0 ELSE calls[u]]
  /\ UNCHANGED <<basemt, co, atomicpc, currentwhite, lists, tmudata, ctx>>

\* one bucket of the string table: any part of what is left
SweepString ==
  /\ CollectorRuns /\ gcstate = "sweepstring"
  /\ \E S \in SUBSET sweepstrgc :
       /\ S = {} => sweepstrgc = {}
       /\ sweeplist(S \cap alloc)
       /\ sweepstrgc' = sweepstrgc \ S
       /\ gcstate' = IF sweepstrgc = S THEN "sweep" ELSE gcstate
  /\ UNCHANGED sweepgc

\* up to GCSWEEPMAX objects of the root list, in any order
Sweep ==
  /\ CollectorRuns /\ gcstate = "sweep"
  /\ \E S \in SUBSET sweepgc :
       /\ Cardinality(S) <= GCSWEEPMAX
       /\ S # sweepgc => Cardinality(S) = GCSWEEPMAX
       /\ sweeplist(S)
       /\ sweepgc' = sweepgc \ S
       /\ gcstate' = IF sweepgc = S THEN "finalize" ELSE gcstate
  /\ UNCHANGED sweepstrgc

EndCycle ==
  /\ CollectorRuns /\ gcstate = "finalize" /\ tmudata = {}
  /\ gcstate' = "pause"
  /\ UNCHANGED <<heap, atomicpc, currentwhite, color, finalized, lists, tmudata,
                 sweeps, ctx, calls>>

\* GCTM: the udata goes back to the root list and its finalizer, if it still
\* has one, is called with the udata in slot i; called from gafqC_fullgc, the
\* finalizer runs before that call goes on
GCTM ==
  /\ CollectorRuns /\ gcstate = "finalize"
  /\ \E u \in tmudata, i \in prog.slots :
       /\ tmudata' = tmudata \ {u}
       /\ color' = [color EXCEPT ![u] = makewhite(u)]
       /\ IF gcTM(u)
          THEN /\ stack' = [stack EXCEPT ![L][i] = u]
               /\ calls' = [calls EXCEPT ![u] = @ + 1]
               /\ ctx' = IF top = "mark" THEN [ctx EXCEPT ![Len(ctx)] = "finalizer"] ELSE ctx
          ELSE UNCHANGED <<stack, calls, ctx>>
  /\ UNCHANGED <<alloc, ref, loc, basemt, co, gcstate, atomicpc, currentwhite,
                 finalized, lists, sweeps>>

\* a finalizer called by gafqC_fullgc returns; the loop goes on, or ends when
\* collector steps of the finalizer have finished the cycle
FinalizerReturns ==
  /\ ProgramRuns /\ top = "finalizer"
  /\ ctx' = [ctx EXCEPT ![Len(ctx)] = "mark"]
  /\ UNCHANGED <<heap, gcstate, atomicpc, currentwhite, color, finalized, lists,
                 tmudata, sweeps, calls>>

\* ... or raises an error, which abandons that gafqC_fullgc
FinalizerFails ==
  /\ ProgramRuns /\ top = "finalizer"
  /\ ctx' = SubSeq(ctx, 1, Len(ctx) - 1)
  /\ UNCHANGED <<heap, gcstate, atomicpc, currentwhite, color, finalized, lists,
                 tmudata, sweeps, calls>>

\* gafqC_fullgc, called by the program: a mark phase in progress is dropped
\* and everything is swept back to white
FullGC ==
  /\ "fullgc" \in prog.ops /\ ProgramRuns /\ Len(ctx) < MaxNest
  /\ ctx' = Append(ctx, "sweep")
  /\ IF gcstate \in {"pause", "propagate"}
     THEN /\ sweepstrgc' = alloc \cap String
          /\ sweepgc' = {o \in alloc \ (String \cup tmudata) : o \in Upval => ~isopen(o)}
          /\ gray' = {} /\ grayagain' = {} /\ weak' = {}
          /\ gcstate' = "sweepstring"
     ELSE UNCHANGED <<sweeps, lists, gcstate>>
  /\ UNCHANGED <<heap, atomicpc, currentwhite, color, finalized, tmudata, calls>>

\* ... its pending sweep is finished: a new cycle, with tmudata as it is
FullGCMark ==
  /\ top = "sweep" /\ gcstate = "finalize"
  /\ markroot
  /\ ctx' = [ctx EXCEPT ![Len(ctx)] = "mark"]
  /\ UNCHANGED <<heap, atomicpc, currentwhite, finalized, tmudata, sweeps, calls>>

FullGCEnd ==
  /\ top = "mark" /\ gcstate = "pause"
  /\ ctx' = SubSeq(ctx, 1, Len(ctx) - 1)
  /\ UNCHANGED <<heap, gcstate, atomicpc, currentwhite, color, finalized, lists,
                 tmudata, sweeps, calls>>

-----------------------------------------------------------------------------
(* Barriers.                                                               *)

\* gafqC_barrier and gafqC_objbarrier (o, v): v has been stored in o
barrier(o, v) ==
  LET hit == v \in Obj /\ isblack(o) /\ iswhite(v)
      M == reached({v})
  IN
  /\ IF hit /\ gcstate = "propagate"
     THEN color' = recolor(M) /\ gray' = gray \cup (M \cap Traversed)
     ELSE /\ color' = IF hit THEN [color EXCEPT ![o] = currentwhite] ELSE color
          /\ UNCHANGED gray
  /\ UNCHANGED grayagain

\* mutant: the table is linked into grayagain whatever its colour
barriert_Unguarded(t, V) ==
  /\ IF \E v \in V \cap Obj : iswhite(v)
     THEN color' = [color EXCEPT ![t] = "gray"] /\ grayagain' = grayagain \cup {t}
     ELSE UNCHANGED <<color, grayagain>>
  /\ UNCHANGED gray

\* gafqC_barriert and gafqC_objbarriert, for the values V stored in table t
barriert(t, V) ==
  /\ IF isblack(t) /\ \E v \in V \cap Obj : iswhite(v)
     THEN color' = [color EXCEPT ![t] = "gray"] /\ grayagain' = grayagain \cup {t}
     ELSE UNCHANGED <<color, grayagain>>
  /\ UNCHANGED gray

-----------------------------------------------------------------------------
(* The program.  It works on what the running thread can name: its stack,  *)
(* its globals and the registry.                                           *)

Program(op) == op \in prog.ops /\ ProgramRuns
instack == {stack[L][i] : i \in StkId}
named == (instack \cup {registry, ref[L]["env"]}) \cap Obj
loaded == instack \cup (Prim \cap prog.values) \cup {NIL}

\* what no program step but a fullgc changes
collector == <<gcstate, atomicpc, currentwhite, weak, tmudata, sweeps, ctx, calls>>

\* a new object o with references r, white, in slot i
link(o, r, i) ==
  /\ alloc' = alloc \cup {o}
  /\ ref' = [ref EXCEPT ![o] = r]
  /\ stack' = [stack EXCEPT ![L][i] = o]

\* gafqC_link and gafqS_newudata: tables, udata, C closures, prototypes and
\* threads; a udata and a closure get the current environment, a C closure
\* takes its upvalue from the stack, a thread the globals of its creator
NewObject ==
  /\ Program("new")
  /\ \E o \in (prog.values \cap (Traversed \cup Udata)) \ alloc, i \in prog.slots :
       \E v \in IF o \in Closure THEN loaded \ Proto ELSE {NIL} :
         link(o, [NoRefs EXCEPT !["val"] = v,
                    !["env"] = IF o \in Table \cup Proto THEN NIL ELSE ref[L]["env"]], i)
         /\ color' = [color EXCEPT ![o] = currentwhite]
  /\ UNCHANGED <<loc, basemt, co, gray, grayagain, finalized, collector>>

\* the colour of an object that is made, or found and perhaps dead (changewhite)
revived(o) == IF o \notin alloc \/ isdead(o) THEN currentwhite ELSE color[o]

\* gafqS_newlstr: an interned string may be found dead
NewString ==
  /\ Program("newstring")
  /\ \E s \in String \cap prog.values, i \in prog.slots :
       /\ alloc' = alloc \cup {s}
       /\ stack' = [stack EXCEPT ![L][i] = s]
       /\ color' = [color EXCEPT ![s] = revived(s)]
  /\ UNCHANGED <<ref, loc, basemt, co, gray, grayagain, finalized, collector>>

\* OP_CLOSURE, its upvalue a local of the running function: gafqF_findupval
\* finds the open upvalue of slot j, perhaps dead, or makes one
NewClosureOverLocal ==
  /\ Program("closure")
  /\ \E c \in (Closure \cap prog.values) \ alloc, i, j \in prog.slots, p \in (instack \cap Proto) \cup {NIL} :
       \E u \in Upval \cap prog.values :
         /\ IF \E v \in openupval(L) : loc[v][2] = j
            THEN u \in openupval(L) /\ loc[u][2] = j
            ELSE u \notin alloc
         /\ alloc' = alloc \cup {c, u}
         /\ loc' = [loc EXCEPT ![u] = <<L, j>>]
         /\ ref' = [ref EXCEPT ![c] = [NoRefs EXCEPT !["val"] = u, !["p"] = p,
                                                    !["env"] = ref[L]["env"]]]
         /\ stack' = [stack EXCEPT ![L][i] = c]
         /\ color' = [color EXCEPT ![c] = currentwhite, ![u] = revived(u)]
  /\ UNCHANGED <<basemt, co, gray, grayagain, finalized, collector>>

\* ... or an upvalue of the enclosing function d
NewClosureOverUpval ==
  /\ Program("closure")
  /\ \E c \in (Closure \cap prog.values) \ alloc, d \in instack \cap Closure, i \in prog.slots :
       /\ ref[d]["val"] \in Upval
       /\ link(c, [NoRefs EXCEPT !["val"] = ref[d]["val"], !["p"] = ref[d]["p"],
                                 !["env"] = ref[d]["env"]], i)
       /\ color' = [color EXCEPT ![c] = currentwhite]
  /\ UNCHANGED <<loc, basemt, co, gray, grayagain, finalized, collector>>

\* mutant: GETUPVAL that forgets to go through the UpVal
fetch_NoDeref(o) == {ref[o][f] : f \in Field \ {"p"}}

\* every move to a stack slot: from the stack, a constant, a global, the
\* registry, a field, a node's key (next), an upvalue.  No barrier: a stack
\* is never black
fetch(o) ==
  IF o \in Closure /\ ref[o]["val"] \in Upval
  THEN {upvalue(ref[o]["val"]), ref[o]["env"]}
  ELSE {ref[o][f] : f \in {g \in Field \ {"p"} : g = "key" => ref[o]["val"] # NIL}}
Move ==
  /\ Program("move")
  /\ \E i \in prog.slots, v \in loaded \cup named \cup {basemt} \cup UNION {fetch(o) : o \in named \ Proto} :
       stack' = [stack EXCEPT ![L][i] = v]
  /\ UNCHANGED <<alloc, ref, loc, basemt, co, color, gray, grayagain, finalized, collector>>

\* mutant: newkey without its barrier
SetTable_NoKeyBarrier ==
  /\ Program("settable")
  /\ \E t \in named \cap Table, k \in loaded \ ({NIL} \cup Proto), v \in loaded \ Proto :
       /\ ref' = [ref EXCEPT ![t]["key"] = k, ![t]["val"] = v]
       /\ barriert(t, {v})
  /\ UNCHANGED <<alloc, stack, loc, basemt, co, finalized, collector>>

\* the stores into a table: gafqV_settable, gafq_rawset and gafqH_set (the key
\* is barriered only by newkey, when it was not there); a nil value leaves the
\* key in its node
SetTable ==
  /\ Program("settable")
  /\ \E t \in named \cap Table, k \in loaded \ ({NIL} \cup Proto), v \in loaded \ Proto :
       /\ ref' = [ref EXCEPT ![t]["key"] = k, ![t]["val"] = v]
       /\ barriert(t, {v} \cup (IF ref[t]["key"] = k THEN {} ELSE {k}))
  /\ UNCHANGED <<alloc, stack, loc, basemt, co, finalized, collector>>

\* gafq_rawseti and OP_SETLIST
SetArray ==
  /\ Program("setarray")
  /\ \E t \in named \cap Table, v \in loaded \ Proto :
       /\ ref' = [ref EXCEPT ![t]["array"] = v]
       /\ barriert(t, {v})
  /\ UNCHANGED <<alloc, stack, loc, basemt, co, finalized, collector>>

\* gafq_setmetatable, on a table, on a udata or (for the programs that do so) on
\* a basic type
SetMetatable ==
  /\ Program("setmetatable")
  /\ \E m \in (named \cap Table) \cup {NIL} :
       \/ \E o \in named \cap (Table \cup Udata) :
            /\ ref' = [ref EXCEPT ![o]["metatable"] = m]
            /\ IF o \in Table THEN barriert(o, {m}) ELSE barrier(o, m)
            /\ UNCHANGED basemt
       \/ /\ "setbasemt" \in prog.ops
          /\ basemt' = m /\ UNCHANGED <<ref, color, gray, grayagain>>
  /\ UNCHANGED <<alloc, stack, loc, co, finalized, collector>>

\* gafq_setfenv, gafq_replace on the environment or the globals index
SetFenv ==
  /\ Program("setfenv")
  /\ \E o \in {L} \cup (named \cap (Closure \cup Udata \cup Thread)), e \in named \cap Table :
       /\ ref' = [ref EXCEPT ![o]["env"] = e]
       /\ barrier(o, e)
  /\ UNCHANGED <<alloc, stack, loc, basemt, co, finalized, collector>>

\* the stores with a forward barrier on their object: a C function's upvalue
\* (gafq_replace), a prototype's constants and nested prototypes (addk,
\* pushclosure, registerlocalvar)
SetField ==
  /\ Program("setfield")
  /\ \E o \in named \cap (Closure \cup Proto), v \in loaded :
       /\ o \in Closure => ref[o]["val"] \notin Upval /\ v \notin Proto
       /\ ref' = [ref EXCEPT ![o]["val"] = v]
       /\ barrier(o, v)
  /\ UNCHANGED <<alloc, stack, loc, basemt, co, finalized, collector>>

\* OP_SETUPVAL: *uv->v = v, with the barrier on the upvalue
setupval(u, v, o) ==
  /\ IF isopen(u)
     THEN stack' = [stack EXCEPT ![loc[u][1]][loc[u][2]] = v] /\ UNCHANGED ref
     ELSE ref' = [ref EXCEPT ![u]["val"] = v] /\ UNCHANGED stack
  /\ barrier(o, v)
  /\ UNCHANGED <<alloc, loc, basemt, co, finalized, collector>>
SetUpval ==
  /\ Program("setupval")
  /\ \E c \in instack \cap Closure, v \in loaded \ Proto :
       ref[c]["val"] \in Upval /\ setupval(ref[c]["val"], v, ref[c]["val"])

\* gafqF_close on the running thread down to slot j (OP_CLOSE, OP_RETURN, a
\* tail call, an error): dead upvalues are freed, the others get their own
\* copy; gafqC_linkupval makes a gray one black, with a barrier, or white
Close ==
  /\ Program("close")
  /\ \E j \in prog.slots :
       LET us == {u \in openupval(L) : loc[u][2] >= j}
           freed == {u \in us : isdead(u)}
           closed == us \ freed
           blackened == IF gcstate = "propagate" THEN {u \in closed : isgray(u)} ELSE {}
           M == reached({upvalue(u) : u \in blackened})
       IN
       /\ us # {}
       /\ alloc' = alloc \ freed
       /\ ref' = [o \in Obj |-> IF o \in closed
                                THEN [NoRefs EXCEPT !["val"] = upvalue(o)] ELSE ref[o]]
       /\ loc' = [u \in Upval |-> IF u \in us THEN NIL ELSE loc[u]]
       /\ color' = [o \in Obj |-> IF o \in blackened THEN "black"
                                  ELSE IF o \in freed THEN "white0"
                                  ELSE IF o \in closed /\ isgray(o) THEN currentwhite
                                  ELSE recolor(M)[o]]
       /\ gray' = gray \cup (M \cap Traversed)
  /\ UNCHANGED <<stack, basemt, co, grayagain, finalized, collector>>

\* coroutines: resume and yield move a value between the two stacks
\* (gafq_xmove); a thread that finishes yields for the last time
Resume ==
  /\ Program("resume")
  /\ \E th \in instack \cap Thread, v \in loaded \ Proto, i \in prog.slots :
       /\ \A j \in 1 .. Len(co) : co[j] # th
       /\ co' = Append(co, th)
       /\ stack' = [stack EXCEPT ![th][i] = v]
  /\ UNCHANGED <<alloc, ref, loc, basemt, color, gray, grayagain, finalized, collector>>
Yield ==
  /\ Program("resume") /\ Len(co) > 1
  /\ \E v \in loaded \ Proto, i \in prog.slots :
       stack' = [stack EXCEPT ![co[Len(co) - 1]][i] = v]
  /\ co' = SubSeq(co, 1, Len(co) - 1)
  /\ UNCHANGED <<alloc, ref, loc, basemt, color, gray, grayagain, finalized, collector>>

-----------------------------------------------------------------------------
\* gafq_newstate and f_gafqopen
Init ==
  /\ alloc = {mainthread, registry, globals} \cup FixedStr
  /\ ref = [o \in Obj |-> IF o = mainthread THEN [NoRefs EXCEPT !["env"] = globals]
                           ELSE NoRefs]
  /\ stack = [th \in Thread |-> [i \in StkId |-> NIL]]
  /\ loc = [u \in Upval |-> NIL]
  /\ basemt = NIL /\ co = <<mainthread>>
  /\ gcstate = "pause" /\ atomicpc = 0
  /\ currentwhite = "white0" /\ color = [o \in Obj |-> "white0"]
  /\ finalized = {}
  /\ gray = {} /\ grayagain = {} /\ weak = {} /\ tmudata = {}
  /\ sweepstrgc = {} /\ sweepgc = {}
  /\ ctx = <<>>
  /\ calls = [u \in Udata |-> 0]
  /\ prog \in Programs

Collect ==
  /\ UNCHANGED prog
  /\ \/ MarkRoot \/ PropagateMark
     \/ RemarkUpvals \/ RemarkWeak \/ RemarkGrayAgain \/ SeparateUdata \/ ClearTableAndFlip
     \/ SweepString \/ Sweep \/ GCTM \/ EndCycle
     \/ FullGCMark \/ FullGCEnd

Mutate ==
  /\ UNCHANGED prog
  /\ \/ NewObject \/ NewString \/ NewClosureOverLocal \/ NewClosureOverUpval
     \/ Move \/ SetTable \/ SetArray \/ SetMetatable \/ SetFenv \/ SetField \/ SetUpval
     \/ Close \/ Resume \/ Yield
     \/ FullGC \/ FinalizerReturns \/ FinalizerFails

Next == Collect \/ Mutate
Spec == Init /\ [][Next]_vars

-----------------------------------------------------------------------------
(* TypeOK: the types of the heap and of the collector's state; in          *)
(* particular a stack slot never holds an UpVal object, which is not a     *)
(* value of the language.                                                  *)
TypeOK ==
  /\ alloc \subseteq Obj
  /\ ref \in [Obj -> [Field -> Value]]
  /\ stack \in [Thread -> [StkId -> Data]]
  /\ loc \in [Upval -> (Thread \X StkId) \cup {NIL}]
  /\ basemt \in Table \cup {NIL}
  /\ co \in Seq(Thread) /\ Len(co) > 0
  /\ gcstate \in {"pause", "propagate", "sweepstring", "sweep", "finalize"}
  /\ atomicpc \in 0 .. 4
  /\ currentwhite \in White
  /\ color \in [Obj -> White \cup {"gray", "black"}]
  /\ finalized \subseteq Udata /\ tmudata \subseteq Udata
  /\ gray \subseteq Traversed /\ grayagain \subseteq Traversed /\ weak \subseteq Table
  /\ sweepstrgc \subseteq String /\ sweepgc \subseteq Obj
  /\ ctx \in Seq({"sweep", "mark", "finalizer"}) /\ Len(ctx) <= MaxNest
  /\ calls \in [Udata -> Nat]
  /\ prog \in Programs

\* what the program and the collector start from; a udata waiting for its
\* finalizer will be handed to it
Roots == ({mainthread, registry, basemt, L} \cup tmudata) \cap Obj
Reachable ==
  LET R[n \in 0 .. Cardinality(Obj)] ==
        Roots \cup (IF n = 0 THEN {} ELSE UNION {{x} \cup children(x) : x \in R[n - 1]})
  IN R[Cardinality(Obj)]
Live == {o \in alloc : ~isdead(o)}

(* NoDangling: no root, and no field of a live object that the program can *)
(* fetch or the collector will follow, weak or strong, refers to an object *)
(* that is freed or condemned by the current sweep.  This is what          *)
(* checkliveness (gobject.h) asserts at every store.                       *)
NoDangling ==
  /\ Roots \subseteq Live
  /\ \A o \in Live : (children(o) \cup fetch(o)) \cap Obj \subseteq Live

(* Tricolor: during marking no black object refers to a white one, unless  *)
(* it is a udata left in tmudata by an earlier cycle, which marktmu marks  *)
(* again.  This is the invariant that gafqC_barrierf "restores".           *)
Tricolor ==
  gcstate = "propagate" =>
    \A o \in alloc \ tmudata : isblack(o) => \A x \in children(o) : ~iswhite(x)

(* GclistExclusive: an object has one gclist field, so while it is in use  *)
(* no object is in two of the lists gray, grayagain and weak; and every    *)
(* gray object with such a field is in one of them, so that atomic will    *)
(* visit it.                                                               *)
GclistExclusive ==
  gcstate = "propagate" =>
    /\ gray \cap grayagain = {} /\ gray \cap weak = {} /\ grayagain \cap weak = {}
    /\ gray \cup grayagain \cup weak = {o \in alloc \cap Traversed : isgray(o)}

(* WhiteAtRest: between cycles and while finalizers run, every object is   *)
(* of the current white (so that no barrier can fire, as gafqC_barrierf    *)
(* and gafqC_linkupval assert) except the udata that wait in tmudata.      *)
WhiteAtRest ==
  gcstate \in {"pause", "finalize"} => \A o \in alloc \ tmudata : color[o] = currentwhite

(* FinalizedOnce: the finalizer of a udata is called at most once, whether *)
(* the finalizer resurrects it, fails, or starts another full collection.  *)
FinalizedOnce == \A u \in Udata : calls[u] <= 1

(* ClearsOnlyCollected: cleartable removes a node of a weak table only if  *)
(* its key or its value cannot be reached any more, or its value is a      *)
(* udata that has been selected for finalization, and an array slot only   *)
(* for the same reasons.  A key that atomic has just brought back for its  *)
(* finalizer keeps its node.                                               *)
ClearsOnlyCollected ==
  [][gcstate = "propagate" /\ gcstate' = "sweepstring" /\ ctx' = ctx =>
       \A t \in Table :
         /\ \/ ref'[t]["val"] = ref[t]["val"]
            \/ \E o \in {ref[t]["key"], ref[t]["val"]} \cap Obj : o \notin Reachable
            \/ ref[t]["val"] \in finalized
         /\ \/ ref'[t]["array"] = ref[t]["array"]
            \/ ref[t]["array"] \in (Obj \ Reachable) \cup finalized]_vars

\* the collector goes on as long as the program allocates; gafqC_fullgc and
\* finalizers end
Fairness == WF_vars(Collect) /\ WF_vars(FinalizerReturns /\ UNCHANGED prog)
FairSpec == Spec /\ Fairness

(* GarbageFreed: an object that becomes unreachable is eventually freed,   *)
(* unless a finalizer, an interned string looked up again, a weak table or *)
(* an open upvalue makes it reachable again.                               *)
GarbageFreed ==
  \A o \in Obj : (o \in alloc /\ o \notin Reachable) ~> (o \notin alloc \/ o \in Reachable)
=============================================================================
