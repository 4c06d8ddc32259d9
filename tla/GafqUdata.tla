------------------------------ MODULE GafqUdata ------------------------------
(***************************************************************************)
(* The two lists a udata lives in: the root list, in which all udata       *)
(* follow the main thread, and the circular list tmudata of those waiting  *)
(* for their finalizers; with the pointer sweepgc that the incremental     *)
(* sweep keeps into the root list, gafqC_fullgc and gafq_close.            *)
(*                                                                         *)
(* GafqGC abstracts these lists to sets.  Here they are sequences, and     *)
(* sweepgc is the object whose next field it points to, so that it follows *)
(* that object when the object moves to the other list.  Marking is        *)
(* abstracted to its result: any set of udata may be unreached.            *)
(***************************************************************************)
EXTENDS Naturals, Sequences, FiniteSets

CONSTANTS Udata,            \* addresses
          MT, ROOT, NULL    \* the main thread, &g->rootgc, a null pointer

ASSUME UdataAssumption ==
  {MT, ROOT, NULL} \cap Udata = {} /\ MT # ROOT /\ MT # NULL /\ ROOT # NULL

VARIABLES
  root,       \* the udata after the main thread, in list order
  tmudata,    \* the circular list from its first to its last element
  hasgc,      \* udata whose metatable has a __gc field
  finalized,  \* udata with FINALIZEDBIT
  dead,       \* what the last mark phase did not reach and is not yet swept
  gcstate,    \* "pause", "sweep", "finalize"; marking is one step from pause
  sweepgc,    \* x stands for the address of x's next field
  full,       \* in gafqC_fullgc: "sweep" (its first loop), "mark" (its second), or "no"
  phase,      \* "run", "close" (gafq_close), "closed"
  infin,      \* gafq_close has called a finalizer that has not ended
  created,    \* history: the udata in the order of their creation
  due         \* history: udata that gafq_close has still to finalize

vars == <<root, tmudata, hasgc, finalized, dead, gcstate, sweepgc, full, phase,
          infin, created, due>>

Elems(s) == {s[i] : i \in DOMAIN s}
Index(s, x) == CHOOSE i \in DOMAIN s : s[i] = x

\* s after the object x is unlinked from it
Without(s, x) ==
  IF x \notin Elems(s) THEN s
  ELSE [i \in 1..Len(s)-1 |-> IF i < Index(s, x) THEN s[i] ELSE s[i+1]]

\* the number of members of I up to i
Rank(I, i) == Cardinality({j \in I : j <= i})

\* the elements of s that are in T, in their order
Select(s, T) ==
  LET I == {i \in DOMAIN s : s[i] \in T}
  IN  [k \in 1..Cardinality(I) |-> s[CHOOSE i \in I : Rank(I, i) = k]]

\* *p, for p the address of x's next field
deref(rt, tm, x) ==
  CASE x = ROOT -> MT
    [] x = MT -> IF rt = <<>> THEN NULL ELSE rt[1]
    [] x \in Elems(rt) -> IF Index(rt, x) = Len(rt) THEN NULL ELSE rt[Index(rt, x) + 1]
    [] OTHER -> IF Index(tm, x) = Len(tm) THEN tm[1] ELSE tm[Index(tm, x) + 1]

-----------------------------------------------------------------------------
\* the program runs outside the collector, in a finalizer of gafqC_fullgc and
\* in the finalizers gafq_close calls
ProgramRuns == /\ phase = "run" \/ infin
               /\ full = "no" \/ (full = "mark" /\ gcstate = "finalize")
CollectorRuns == phase = "run" \/ infin

\* gafqS_newudata
NewUdata(u) ==
  /\ ProgramRuns /\ u \notin Elems(root) \cup Elems(tmudata)
  /\ root' = <<u>> \o root
  /\ created' = Append(created, u)
  /\ UNCHANGED <<tmudata, hasgc, finalized, dead, gcstate, sweepgc, full, phase, infin, due>>

\* gafq_setmetatable, with a metatable that has or has no __gc
SetMetatable(u) ==
  /\ ProgramRuns /\ u \in Elems(root) \cup Elems(tmudata) /\ u \notin dead
  /\ hasgc' = IF u \in hasgc THEN hasgc \ {u} ELSE hasgc \cup {u}
  /\ UNCHANGED <<root, tmudata, finalized, dead, gcstate, sweepgc, full, phase, infin,
                 created, due>>

\* mutant: the udata go to the front of tmudata, one by one
separateudata_Front(D) ==
  LET C == (D \cap hasgc) \ finalized
      s == Select(root, C)
  IN
  /\ root' = Select(root, Elems(root) \ C)
  /\ tmudata' = tmudata \o [i \in DOMAIN s |-> s[Len(s) + 1 - i]]
  /\ finalized' = finalized \cup D

\* gafqC_separateudata for the udata D that are to be looked at (the white
\* ones, or all): those with a finalizer go to the end of tmudata
separateudata(D) ==
  LET C == (D \cap hasgc) \ finalized IN
  /\ root' = Select(root, Elems(root) \ C)
  /\ tmudata' = tmudata \o Select(root, C)
  /\ finalized' = finalized \cup D

\* mutant: the sweep goes on from where the last one ended
sweepstart_Kept == sweepgc

\* g->sweepgc = &g->rootgc
sweepstart == ROOT

\* markroot, the propagation and atomic, from a pause or in gafqC_fullgc
Mark ==
  /\ CollectorRuns
  /\ IF full = "sweep" THEN gcstate = "finalize" /\ full' = "mark"
     ELSE full = "no" /\ gcstate = "pause" /\ UNCHANGED full
  /\ \E D \in SUBSET Elems(root) :
       /\ separateudata(D)
       /\ dead' = D \cap Elems(root')
  /\ sweepgc' = sweepstart /\ gcstate' = "sweep"
  /\ UNCHANGED <<hasgc, phase, infin, created, due>>

\* mutant: a survivor is visited again and again
advance_Stuck(curr) == sweepgc

\* where sweeplist goes from a survivor; it stops at the end of the list
advance(curr) == IF curr = NULL THEN sweepgc ELSE curr

\* sweeplist with a count of one
Sweep ==
  LET curr == deref(root, tmudata, sweepgc) IN
  /\ CollectorRuns /\ gcstate = "sweep"
  /\ IF curr \in dead
     THEN /\ root' = Without(root, curr) /\ tmudata' = Without(tmudata, curr)
          /\ created' = Without(created, curr)
          /\ dead' = dead \ {curr} /\ hasgc' = hasgc \ {curr}
          /\ finalized' = finalized \ {curr}
          /\ UNCHANGED sweepgc
     ELSE /\ sweepgc' = advance(curr)
          /\ UNCHANGED <<root, tmudata, created, dead, hasgc, finalized>>
  /\ gcstate' = IF deref(root', tmudata', sweepgc') = NULL THEN "finalize" ELSE gcstate
  /\ UNCHANGED <<full, phase, infin, due>>

\* mutant: the udata is not linked into the root list again
gctm_NotRelinked ==
  /\ tmudata # <<>>
  /\ tmudata' = Tail(tmudata)
  /\ due' = due \ {Head(tmudata)}
  /\ UNCHANGED <<root, hasgc, finalized, dead, sweepgc, phase, created>>

\* GCTM: the first element goes back to the root list
gctm ==
  /\ tmudata # <<>>
  /\ tmudata' = Tail(tmudata)
  /\ root' = <<Head(tmudata)>> \o root
  /\ due' = due \ {Head(tmudata)}
  /\ UNCHANGED <<hasgc, finalized, dead, sweepgc, phase, created>>

Finalize ==
  /\ CollectorRuns /\ gcstate = "finalize" /\ full # "sweep"
  /\ gctm
  /\ UNCHANGED <<gcstate, full, infin>>

EndCycle ==
  /\ CollectorRuns /\ gcstate = "finalize" /\ full # "sweep" /\ tmudata = <<>>
  /\ gcstate' = "pause"
  /\ full' = "no"
  /\ UNCHANGED <<root, tmudata, hasgc, finalized, dead, sweepgc, phase, infin, created, due>>

\* gafqC_fullgc (a mark phase is never in progress here); from pause, the
\* sweep marks are reset so that everything is swept
FullGC ==
  /\ ProgramRuns /\ full = "no"
  /\ full' = "sweep"
  /\ IF gcstate = "pause" THEN gcstate' = "sweep" /\ sweepgc' = sweepstart
     ELSE UNCHANGED <<gcstate, sweepgc>>
  /\ UNCHANGED <<root, tmudata, hasgc, finalized, dead, phase, infin, created, due>>

\* an error in a finalizer abandons the gafqC_fullgc that called it
FullGCFails ==
  /\ ProgramRuns /\ full = "mark"
  /\ full' = "no"
  /\ UNCHANGED <<root, tmudata, hasgc, finalized, dead, gcstate, sweepgc, phase, infin,
                 created, due>>

-----------------------------------------------------------------------------
\* gafq_close: all udata with a finalizer are separated, whatever the
\* collector was doing ...
Close ==
  /\ phase = "run" /\ full = "no"
  /\ separateudata(Elems(root))
  /\ phase' = "close"
  /\ due' = Elems(tmudata')
  /\ UNCHANGED <<hasgc, dead, gcstate, sweepgc, full, infin, created>>

\* ... and finalized; a finalizer that raises an error only ends that round
\* of the loop
CloseGCTM ==
  /\ phase = "close" /\ ~infin
  /\ gctm
  /\ infin' = (Head(tmudata) \in hasgc)
  /\ UNCHANGED <<gcstate, full>>

CloseFinalizerEnds ==
  /\ infin /\ ProgramRuns
  /\ infin' = FALSE
  /\ full' = "no"     \* "mark" here: the error came from a nested finalizer
  /\ UNCHANGED <<root, tmudata, hasgc, finalized, dead, gcstate, sweepgc, phase, created, due>>

\* mutant: the loop is not repeated after an error
allfinalized_Once == TRUE

\* the loop of gafqC_callGCTM, repeated by gafq_close until it ends normally
allfinalized == tmudata = <<>>

\* close_state: gafqC_freeall
CloseState ==
  /\ phase = "close" /\ ~infin /\ allfinalized
  /\ phase' = "closed"
  /\ root' = <<>> /\ tmudata' = <<>> /\ created' = <<>> /\ dead' = {} /\ hasgc' = {}
  /\ finalized' = {} /\ sweepgc' = ROOT
  /\ UNCHANGED <<gcstate, full, infin, due>>

Init ==
  /\ root = <<>> /\ tmudata = <<>> /\ hasgc = {} /\ finalized = {} /\ dead = {}
  /\ gcstate = "pause" /\ sweepgc = ROOT /\ full = "no" /\ phase = "run"
  /\ infin = FALSE /\ created = <<>> /\ due = {}

Collect == Mark \/ Sweep \/ Finalize \/ EndCycle
Next ==
  \/ \E u \in Udata : NewUdata(u) \/ SetMetatable(u)
  \/ Collect \/ FullGC \/ FullGCFails
  \/ Close \/ CloseGCTM \/ CloseFinalizerEnds \/ CloseState

\* the loops of gafqC_fullgc take their steps without giving control back
Spec == Init /\ [][Next]_vars /\ WF_vars(Collect)

-----------------------------------------------------------------------------
(* EachInOneList: every udata that exists is in exactly one of the two     *)
(* lists, once; separateudata, GCTM and the sweep lose and duplicate none. *)
EachInOneList ==
  /\ Len(root) = Cardinality(Elems(root)) /\ Len(tmudata) = Cardinality(Elems(tmudata))
  /\ Elems(root) \cap Elems(tmudata) = {}
  /\ Elems(root) \cup Elems(tmudata) = Elems(created)

(* SweepsRootList: while the state is open, sweepgc points into the root   *)
(* list, and what is dead is still ahead of it: separateudata, GCTM and    *)
(* new udata never carry the sweep out of the list or past a dead object.  *)
SweepsRootList ==
  phase = "run" =>
    /\ sweepgc \in {ROOT, MT} \cup Elems(root)
    /\ gcstate = "sweep" \/ dead = {}
    /\ sweepgc \in Elems(root) =>
         \A i \in DOMAIN root : (root[i] \in dead => i > Index(root, sweepgc))

(* NewestFirst: the udata that one call of separateudata adds to tmudata   *)
(* are finalized in the reverse order of their creation, although GCTM     *)
(* puts finalized udata back at the head of the root list.                 *)
NewestFirst ==
  [][\A i, j \in Len(tmudata) + 1 .. Len(tmudata') :
       i < j => Index(created, tmudata'[i]) > Index(created, tmudata'[j])]_vars

(* CloseFinalizesAll: gafq_close ends only when every udata that had a     *)
(* pending finalizer when it was called has been through GCTM, errors in   *)
(* finalizers and collections they start notwithstanding.                  *)
CloseFinalizesAll == phase = "closed" => due = {}

(* FullSweepEnds: the first loop of gafqC_fullgc, which is to "finish any  *)
(* pending sweep phase", ends.                                             *)
FullSweepEnds == (full = "sweep") ~> (full # "sweep")

(* FullSweepEndsOpen: ... when the state is not being closed.              *)
FullSweepEndsOpen == (full = "sweep" /\ phase = "run") ~> (full # "sweep")
==============================================================================
