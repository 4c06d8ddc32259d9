---------------------------- MODULE GafqDoFrames ----------------------------
(***************************************************************************)
(* Calls, errors and coroutines for every set of threads, of handlers and  *)
(* limits.  What holds of the C stack: which function lies on which, that  *)
(* the counter, the recovery point, the hook permission and the error      *)
(* function of the running thread are those its frames ask for, and that   *)
(* the CallInfos of a thread are those of its frames.  The operations of   *)
(* GafqDo (precall, call, pcall, returnto) keep it.                        *)
(***************************************************************************)
EXTENDS GafqDo, FiniteSetTheorems, TLAPS

\* the functions of the interpreter that have a frame
FName == {"pcall", "call", "execute", "cfun", "hook", "errormsg", "resume"}

\* error functions: none, a C or a Gafq function, a value that is no function
ErrFunc == {"none", "C", "G", "bad"}

\* kinds of functions, and of CallInfos
Kind == {"C", "G"}

\* the stages of an error that is being raised
Pending == {"none", "runerror", "ERRRUN", "ERRERR", "ERRMEM"}

\* what a recovery point saves
Old == [ci : Nat, nCcalls : Int, errfunc : ErrFunc, allowhook : BOOLEAN, errorJmp : Nat]

\* frames of the C stack
Frame == [f : FName, th : Thread, n : Nat, old : Old]

\* the record of a thread
ThreadState ==
  [status : {"ok", "yield", "error"}, fun : BOOLEAN, ci : Seq(Kind), size_ci : Nat,
   nCcalls : Int, baseCcalls : Int, errfunc : ErrFunc, allowhook : BOOLEAN, errorJmp : Nat]

\* the frames that count as C calls
CCall == {"call", "resume"}

\* the frames that errors jump to
Point == {"pcall", "resume"}

\* the C calls among the first i frames
Calls(cs, i) == Cardinality({k \in 1..i : cs[k].f \in CCall})

\* j is the innermost recovery point among the first i frames, 0 if i = 0
Innermost(cs, i, j) ==
  /\ j \in 0..i
  /\ j > 0 => cs[j].f \in Point /\ cs[j].th = cs[i].th
  /\ \A k \in j+1..i : cs[k].f \notin Point

\* no hook runs in the thread of frame i
Unhooked(cs, i) == \A k \in 1..i : cs[k].th = cs[i].th => cs[k].f # "hook"

\* an error that goes to a resume calls no error function
Handled(cs, r) == r.errorJmp > 0 /\ cs[r.errorJmp].f = "resume" => r.errfunc = "none"

\* the counter, the recovery point, the hook permission and the error function
\* in r are those of a thread that has the first i frames below it
At(cs, i, r) ==
  /\ r.nCcalls = Calls(cs, i)
  /\ Innermost(cs, i, r.errorJmp)
  /\ r.allowhook = Unhooked(cs, i)
  /\ Handled(cs, r)

\* which function of the interpreter calls which
MayCall(f, g) ==
  CASE g = "cfun" -> f \in {"execute", "call"}
    [] g = "hook" -> f \in {"execute", "cfun"}
    [] g = "execute" -> f \in {"call", "resume"}
    [] g = "call" -> f \in {"execute", "cfun", "hook", "pcall", "errormsg"}
    [] g = "pcall" -> f \in {"cfun", "hook"}
    [] g = "resume" -> f = "cfun"
    [] g = "errormsg" -> f \notin {"pcall", "errormsg", "resume"}

\* frame i of the stack cs, for threads with the records S: a function that may
\* call it lies below it, in the same thread or, below a resume, in another one
\* that is not on the stack above and waits as the resume found it; a protected
\* call has saved what its thread had; the thread is running
FrameOK(cs, S, i) ==
  /\ IF i = 1 THEN cs[i].f = "pcall" /\ cs[i].th = mainthread ELSE MayCall(cs[i-1].f, cs[i].f)
  /\ i > 1 /\ cs[i].f # "resume" => cs[i].th = cs[i-1].th
  /\ cs[i].f = "resume" =>
       /\ \A k \in 1..i-1, l \in i..Len(cs) : cs[k].th # cs[l].th
       /\ At(cs, i-1, S[cs[i-1].th])
       /\ S[cs[i].th].baseCcalls = Calls(cs, i)
  /\ cs[i].th = mainthread \/ \E p \in 1..i : cs[p].f = "resume" /\ cs[p].th = cs[i].th
  /\ cs[i].f = "pcall" => At(cs, i-1, cs[i].old)
  /\ cs[i].f = "hook" => Unhooked(cs, i-1)
  /\ S[cs[i].th].status = "ok" /\ ~S[cs[i].th].fun

\* a thread that may be resumed has the hook permission and no error function
ThreadOK(r) ==
  /\ r.status = "yield" => ~r.fun
  /\ r.status = "yield" \/ r.fun => r.allowhook /\ r.errfunc = "none"

\* a stack and the records of its threads
Frames(cs, S) ==
  /\ cs \in Seq(Frame) /\ S \in [Thread -> ThreadState]
  /\ \A i \in 1..Len(cs) : FrameOK(cs, S, i)
  /\ \A th \in Thread : ThreadOK(S[th])
  /\ S[mainthread].baseCcalls = 0 /\ S[mainthread].status = "ok" /\ ~S[mainthread].fun

\* the running thread
top(cs) == IF cs = <<>> THEN mainthread ELSE cs[Len(cs)].th

\* a stack whose running thread has what its frames ask for
Base(cs, S) == Frames(cs, S) /\ At(cs, Len(cs), S[top(cs)])

\* C calls within the limits: the last one is taken only by the error that says so
Bounded(cs, err) ==
  IF err \in {"none", "runerror"} THEN Calls(cs, Len(cs)) < MAXCCALLS + EXTRA_CCALLS
  ELSE Calls(cs, Len(cs)) <= MAXCCALLS + EXTRA_CCALLS

\* a stack, the records of the threads and the error that is being raised
Good(cs, S, err) ==
  /\ Base(cs, S) /\ Bounded(cs, err) /\ err \in Pending
  /\ cs = <<>> => err = "none"
  /\ cs # <<>> => cs[Len(cs)].f \notin {"pcall", "errormsg"}

\* the invariant, without the CallInfos
Inv == Good(cstack, T, pending)

\* the parts of a frame
LEMMA FrameType ==
  ASSUME NEW cs \in Seq(Frame), NEW i \in 1..Len(cs)
  PROVE  /\ cs[i] \in Frame /\ cs[i].th \in Thread /\ cs[i].f \in FName
         /\ cs[i].n \in Nat /\ cs[i].old \in Old
  <1>1. cs[i] \in Frame
    OBVIOUS
  <1> QED
    BY <1>1, Zenon DEF Frame

\* the running thread is a thread
LEMMA TopType ==
  ASSUME NEW cs \in Seq(Frame)
  PROVE  top(cs) \in Thread
  BY LimitsAssumption, FrameType DEF top

-----------------------------------------------------------------------------
(* Counting C calls.                                                       *)

\* frames are counted in any prefix
LEMMA CallsType ==
  ASSUME NEW cs, NEW i \in Nat
  PROVE  /\ IsFiniteSet({k \in 1..i : cs[k].f \in CCall})
         /\ Calls(cs, i) \in Nat
  <1>1. IsFiniteSet(1..i)
    BY FS_Interval
  <1> QED
    BY <1>1, FS_CardinalityType, FS_Subset, Zenon DEF Calls

\* without frames there is no call
LEMMA CallsZero ==
  ASSUME NEW cs
  PROVE  Calls(cs, 0) = 0
  BY FS_EmptySet DEF Calls

\* one more frame is one more call, or none
LEMMA CallsStep ==
  ASSUME NEW cs, NEW i \in Nat
  PROVE  Calls(cs, i + 1) = IF cs[i + 1].f \in CCall THEN Calls(cs, i) + 1 ELSE Calls(cs, i)
  <1> DEFINE S == {k \in 1..i : cs[k].f \in CCall}
             S1 == {k \in 1..i+1 : cs[k].f \in CCall}
  <1>1. CASE cs[i + 1].f \in CCall
    <2>1. S1 = S \cup {i + 1} /\ i + 1 \notin S
      BY <1>1
    <2> HIDE DEF S, S1
    <2>2. IsFiniteSet(S)
      BY CallsType, Zenon DEF S
    <2>3. Cardinality(S1) = Cardinality(S) + 1
      BY <2>1, <2>2, FS_AddElement, Zenon
    <2> QED
      BY <1>1, <2>3, Zenon DEF Calls, S, S1
  <1>2. CASE cs[i + 1].f \notin CCall
    BY <1>2 DEF Calls
  <1> QED
    BY <1>1, <1>2, Zenon

\* calls grow with the number of frames, and with a call strictly
LEMMA CallsGrow ==
  ASSUME NEW cs, NEW p \in Nat, NEW i \in Nat, p <= i
  PROVE  /\ Calls(cs, p) <= Calls(cs, i)
         /\ \A q \in p+1..i : cs[q].f \in CCall => Calls(cs, p) < Calls(cs, i)
  BY FS_CardinalityType, FS_Subset, CallsType DEF Calls

-----------------------------------------------------------------------------
(* Stacks that agree on some frames.                                       *)

\* cs and ds have the same first i frames, but for nexeccalls
Agree(cs, ds, i) == \A k \in 1..i : cs[k].f = ds[k].f /\ cs[k].th = ds[k].th /\ cs[k].old = ds[k].old

\* what is said of the first i frames depends on these only
LEMMA AtAgrees ==
  ASSUME NEW cs, NEW ds, NEW i \in Nat, NEW r, Agree(cs, ds, i), At(cs, i, r)
  PROVE  At(ds, i, r)
  <1>1. Handled(ds, r)
    BY DEF Agree, At, Innermost, Handled
  <1> QED
    BY <1>1 DEF At, Agree, Calls, Unhooked, Innermost

\* such stacks have the same calls and hooks
LEMMA CallsAgree ==
  ASSUME NEW cs, NEW ds, NEW i \in Nat, Agree(cs, ds, i)
  PROVE  /\ Calls(cs, i) = Calls(ds, i)
         /\ Unhooked(cs, i) = Unhooked(ds, i)
  BY DEF Agree, Unhooked, Calls

\* a prefix of a stack is a stack, whatever nexeccalls its frames have
LEMMA FramesCut ==
  ASSUME NEW cs, NEW S, NEW ds \in Seq(Frame), Frames(cs, S), Len(ds) <= Len(cs), Agree(cs, ds, Len(ds))
  PROVE  Frames(ds, S)
  <1>0. Len(ds) \in Nat /\ Len(cs) \in Nat
    BY DEF Frames
  <1>1. ASSUME NEW i \in 1..Len(ds)
        PROVE  FrameOK(ds, S, i)
    <2>1. FrameOK(cs, S, i)
      BY <1>0 DEF Frames
    <2>2. cs[i].f = ds[i].f /\ cs[i].th = ds[i].th /\ cs[i].old = ds[i].old
      BY Zenon DEF Agree
    <2>3. i > 1 => cs[i-1].f = ds[i-1].f /\ cs[i-1].th = ds[i-1].th
      BY <1>0 DEF Agree
    <2>4. i - 1 \in Nat /\ Agree(cs, ds, i - 1) /\ Agree(cs, ds, i)
      BY <1>0 DEF Agree
    <2>5. ASSUME cs[i].f = "resume"
          PROVE  /\ \A k \in 1..i-1, l \in i..Len(ds) : ds[k].th # ds[l].th
                 /\ At(ds, i-1, S[ds[i-1].th])
                 /\ S[ds[i].th].baseCcalls = Calls(ds, i)
      <3>1. i > 1
        BY <2>1, <2>5 DEF FrameOK
      <3>2. At(ds, i-1, S[ds[i-1].th])
        BY <2>1, <2>3, <2>4, <2>5, <3>1, AtAgrees, Zenon DEF FrameOK
      <3>3. S[ds[i].th].baseCcalls = Calls(ds, i)
        BY <2>1, <2>2, <2>4, <2>5, CallsAgree DEF FrameOK
      <3>4. \A k \in 1..i-1, l \in i..Len(ds) : ds[k].th # ds[l].th
        BY <1>0, <2>1, <2>5 DEF FrameOK, Agree
      <3> QED
        BY <3>2, <3>3, <3>4, Zenon
    <2>6. ds[i].th = mainthread \/ \E p \in 1..i : ds[p].f = "resume" /\ ds[p].th = ds[i].th
      BY <2>1, <2>2, <2>4 DEF FrameOK, Agree
    <2>7. cs[i].f = "pcall" => At(ds, i-1, ds[i].old)
      BY <2>1, <2>2, <2>4, AtAgrees, Zenon DEF FrameOK
    <2>8. cs[i].f = "hook" => Unhooked(ds, i-1)
      BY <2>1, <2>2, <2>4, CallsAgree, Zenon DEF FrameOK
    <2>9. IF i = 1 THEN ds[i].f = "pcall" /\ ds[i].th = mainthread ELSE MayCall(ds[i-1].f, ds[i].f)
      BY <2>1, <2>2, <2>3 DEF FrameOK
    <2>10. i > 1 /\ ds[i].f # "resume" => ds[i].th = ds[i-1].th
      BY <2>1, <2>2, <2>3, Zenon DEF FrameOK
    <2>11. S[ds[i].th].status = "ok" /\ ~S[ds[i].th].fun
      BY <2>1, <2>2, Zenon DEF FrameOK
    <2> QED
      BY <2>2, <2>5, <2>6, <2>7, <2>8, <2>9, <2>10, <2>11, Zenon DEF FrameOK
  <1> QED
    BY <1>1, Zenon DEF Frames

\* the running thread may change its own record, as long as it runs
LEMMA FramesUpdate ==
  ASSUME NEW cs, NEW S, Frames(cs, S), NEW r \in ThreadState,
         r.status = "ok", ~r.fun, r.baseCcalls = S[top(cs)].baseCcalls
  PROVE  Frames(cs, [S EXCEPT ![top(cs)] = r])
  <1> DEFINE S1 == [S EXCEPT ![top(cs)] = r]
  <1>0. Len(cs) \in Nat /\ S \in [Thread -> ThreadState] /\ cs \in Seq(Frame)
    BY DEF Frames
  <1>1. top(cs) \in Thread
    BY <1>0, TopType, Zenon
  <1>2. S1 \in [Thread -> ThreadState]
    BY <1>0, <1>1, Zenon
  <1>3. ASSUME NEW i \in 1..Len(cs)
        PROVE  FrameOK(cs, S1, i)
    <2>1. FrameOK(cs, S, i)
      BY Zenon DEF Frames
    <2>2. cs # <<>> /\ top(cs) = cs[Len(cs)].th
      BY <1>0 DEF top
    <2>3. cs[i].th \in Thread
      BY <1>0, FrameType, Zenon
    <2>4. S1[cs[i].th].status = "ok" /\ ~S1[cs[i].th].fun /\ S1[cs[i].th].baseCcalls = S[cs[i].th].baseCcalls
      BY <1>0, <2>1, <2>3, Zenon DEF FrameOK
    <2>5. ASSUME cs[i].f = "resume" PROVE S1[cs[i-1].th] = S[cs[i-1].th]
      <3>1. i > 1 /\ i - 1 \in 1..Len(cs)
        BY <2>1, <2>5 DEF FrameOK
      <3>2. cs[i-1].th # cs[Len(cs)].th /\ cs[i-1].th \in Thread
        BY <1>0, <2>1, <2>5, <3>1, FrameType DEF FrameOK
      <3> QED
        BY <1>0, <2>2, <3>2, Zenon
    <2> HIDE DEF S1
    <2> QED
      BY <2>1, <2>4, <2>5, Zenon DEF FrameOK
  <1>4. \A th \in Thread : ThreadOK(S1[th])
    BY <1>0, <1>1, Zenon DEF ThreadOK, Frames
  <1>5. S1[mainthread].baseCcalls = 0 /\ S1[mainthread].status = "ok" /\ ~S1[mainthread].fun
    BY <1>0, <1>1, LimitsAssumption, Zenon DEF Frames
  <1> HIDE DEF S1
  <1>6. Frames(cs, S1)
    BY <1>0, <1>2, <1>3, <1>4, <1>5, Zenon DEF Frames
  <1> QED
    BY <1>6, Zenon DEF S1

\* a thread that is not on the stack may change
LEMMA FramesOff ==
  ASSUME NEW cs, NEW S, Frames(cs, S), NEW co \in Thread, co # mainthread,
         \A i \in 1..Len(cs) : cs[i].th # co, NEW r \in ThreadState, ThreadOK(r)
  PROVE  Frames(cs, [S EXCEPT ![co] = r])
  <1> DEFINE S1 == [S EXCEPT ![co] = r]
  <1>0. Len(cs) \in Nat /\ S \in [Thread -> ThreadState] /\ cs \in Seq(Frame)
    BY DEF Frames
  <1>1. S1 \in [Thread -> ThreadState]
    BY <1>0, Zenon
  <1>2. ASSUME NEW i \in 1..Len(cs)
        PROVE  FrameOK(cs, S1, i)
    <2>1. FrameOK(cs, S, i)
      BY Zenon DEF Frames
    <2>2. S1[cs[i].th] = S[cs[i].th]
      BY <1>0, FrameType, Zenon
    <2>3. ASSUME cs[i].f = "resume" PROVE S1[cs[i-1].th] = S[cs[i-1].th]
      BY <1>0, <2>1, <2>3, FrameType DEF FrameOK
    <2> HIDE DEF S1
    <2> QED
      BY <2>1, <2>2, <2>3, Zenon DEF FrameOK
  <1>3. \A th \in Thread : ThreadOK(S1[th])
    BY <1>0, Zenon DEF Frames
  <1>4. S1[mainthread] = S[mainthread]
    BY <1>0, LimitsAssumption, Zenon
  <1> HIDE DEF S1
  <1>5. Frames(cs, S1)
    BY <1>0, <1>1, <1>2, <1>3, <1>4, Zenon DEF Frames
  <1> QED
    BY <1>5, Zenon DEF S1

-----------------------------------------------------------------------------
(* A frame more, and a frame less.                                         *)

\* the frames below a new one are as before
LEMMA Pushed ==
  ASSUME NEW cs \in Seq(Frame), NEW fr \in Frame
  PROVE  /\ Append(cs, fr) \in Seq(Frame)
         /\ Len(Append(cs, fr)) = Len(cs) + 1 /\ Len(cs) \in Nat
         /\ \A i \in 1..Len(cs) : Append(cs, fr)[i] = cs[i]
         /\ Append(cs, fr)[Len(cs) + 1] = fr
         /\ top(Append(cs, fr)) = fr.th /\ Append(cs, fr) # <<>>
         /\ Agree(cs, Append(cs, fr), Len(cs))
  BY DEF top, Agree

\* a frame that fits on top changes nothing below it
LEMMA FramesGrow ==
  ASSUME NEW cs, NEW S, Frames(cs, S), NEW fr \in Frame,
         fr.th = top(cs) \/ \A i \in 1..Len(cs) : cs[i].th # fr.th,
         FrameOK(Append(cs, fr), S, Len(cs) + 1)
  PROVE  Frames(Append(cs, fr), S)
  <1> DEFINE ds == Append(cs, fr)
             n == Len(cs)
  <1>1. /\ ds \in Seq(Frame) /\ Len(ds) = n + 1 /\ n \in Nat
        /\ \A i \in 1..n : ds[i] = cs[i]
        /\ ds[n + 1] = fr /\ Agree(cs, ds, n)
    BY Pushed, Zenon DEF Frames
  <1> HIDE DEF ds
  <1>2. ASSUME NEW i \in 1..n
        PROVE  FrameOK(ds, S, i)
    <2>1. FrameOK(cs, S, i)
      BY Zenon DEF Frames
    <2>2. i - 1 \in Nat /\ Agree(cs, ds, i - 1) /\ Agree(cs, ds, i)
      BY <1>1 DEF Agree
    <2>3. ds[i] = cs[i] /\ (i > 1 => ds[i-1] = cs[i-1])
      BY <1>1
    <2>4. ASSUME cs[i].f = "resume"
          PROVE  /\ \A k \in 1..i-1, l \in i..n+1 : ds[k].th # ds[l].th
                 /\ At(ds, i-1, S[ds[i-1].th])
                 /\ S[ds[i].th].baseCcalls = Calls(ds, i)
      <3>1. \A k \in 1..i-1, l \in i..n : cs[k].th # cs[l].th
        BY <2>1, <2>4, Zenon DEF FrameOK
      <3>2. \A k \in 1..i-1, l \in i..n+1 : ds[k].th # ds[l].th
        BY <1>1, <3>1 DEF top
      <3> QED
        BY <2>1, <2>2, <2>3, <2>4, <3>2, CallsAgree, AtAgrees DEF FrameOK
    <2> QED
      BY <1>1, <2>1, <2>2, <2>3, <2>4, AtAgrees, CallsAgree, SMTT(40) DEF FrameOK
  <1> QED
    BY <1>1, <1>2 DEF ds, Frames

\* a function that works for the running thread
LEMMA FramesPush ==
  ASSUME NEW cs, NEW S, Frames(cs, S), NEW fr \in Frame, fr.f # "resume", fr.th = top(cs),
         IF cs = <<>> THEN fr.f = "pcall" ELSE MayCall(cs[Len(cs)].f, fr.f),
         fr.f = "pcall" => At(cs, Len(cs), fr.old),
         fr.f = "hook" => Unhooked(cs, Len(cs))
  PROVE  Frames(Append(cs, fr), S)
  <1> DEFINE ds == Append(cs, fr)
             n == Len(cs)
  <1>0. cs \in Seq(Frame) /\ S \in [Thread -> ThreadState]
    BY Zenon DEF Frames
  <1>1. /\ ds \in Seq(Frame) /\ Len(ds) = n + 1 /\ n \in Nat
        /\ \A i \in 1..n : ds[i] = cs[i]
        /\ ds[n + 1] = fr /\ Agree(cs, ds, n)
    BY <1>0, Pushed, Zenon
  <1> HIDE DEF ds
  <1>2. FrameOK(ds, S, n + 1)
    BY <1>0, <1>1, AtAgrees, CallsAgree DEF Frames, top, FrameOK
  <1> QED
    BY <1>2, FramesGrow, Zenon DEF ds

\* the resumption of a thread that is not on the stack
LEMMA FramesResume ==
  ASSUME NEW cs, NEW S, Base(cs, S), cs # <<>>, cs[Len(cs)].f = "cfun",
         NEW fr \in Frame, fr.f = "resume", \A i \in 1..Len(cs) : cs[i].th # fr.th,
         S[fr.th].status = "ok", ~S[fr.th].fun, S[fr.th].baseCcalls = Calls(cs, Len(cs)) + 1
  PROVE  Frames(Append(cs, fr), S)
  <1> DEFINE ds == Append(cs, fr)
             n == Len(cs)
  <1>0. cs \in Seq(Frame) /\ S \in [Thread -> ThreadState] /\ Frames(cs, S)
    BY Zenon DEF Base, Frames
  <1>1. /\ ds \in Seq(Frame) /\ Len(ds) = n + 1 /\ n \in Nat
        /\ \A i \in 1..n : ds[i] = cs[i]
        /\ ds[n + 1] = fr /\ Agree(cs, ds, n)
    BY <1>0, Pushed, Zenon
  <1> HIDE DEF ds
  <1>2. FrameOK(ds, S, n + 1)
    <2>1. n > 0 /\ ds[n] = cs[n] /\ top(cs) = cs[n].th
      BY <1>0, <1>1 DEF top
    <2>2. MayCall(ds[n].f, fr.f)
      BY <2>1, Zenon DEF MayCall
    <2>3. S[fr.th].baseCcalls = Calls(ds, n + 1)
      BY <1>1, CallsAgree, CallsStep DEF CCall
    <2>4. n + 1 - 1 = n /\ n + 1 # 1 /\ n + 1 \in 1..n+1
      BY <1>1, <2>1
    <2> QED
      BY <1>1, <2>1, <2>2, <2>3, <2>4, AtAgrees DEF FrameOK, Base
  <1> QED
    BY <1>0, <1>2, FramesGrow, Zenon DEF ds

\* what a thread keeps in step with a new frame
LEMMA AtPush ==
  ASSUME NEW cs \in Seq(Frame), NEW fr \in Frame, fr.f # "resume", fr.th = top(cs),
         NEW r0, At(cs, Len(cs), r0), NEW r,
         r.nCcalls = IF fr.f \in CCall THEN r0.nCcalls + 1 ELSE r0.nCcalls,
         r.errorJmp = IF fr.f \in Point THEN Len(cs) + 1 ELSE r0.errorJmp,
         r.allowhook = (r0.allowhook /\ fr.f # "hook"),
         fr.f # "pcall" => r.errfunc = r0.errfunc
  PROVE  At(Append(cs, fr), Len(cs) + 1, r)
  <1> DEFINE ds == Append(cs, fr)
             n == Len(cs)
  <1>1. /\ Len(ds) = n + 1 /\ n \in Nat
        /\ \A i \in 1..n : ds[i] = cs[i]
        /\ ds[n + 1] = fr /\ Agree(cs, ds, n)
    BY Pushed, Zenon
  <1> HIDE DEF ds
  <1>2. n > 0 => fr.th = cs[n].th
    BY <1>1 DEF top
  <1>3. Innermost(ds, n + 1, r.errorJmp)
    BY <1>1, <1>2 DEF At, Innermost
  <1>4. r.allowhook = Unhooked(ds, n + 1)
    <2>1. ASSUME Unhooked(ds, n + 1) PROVE Unhooked(cs, n) /\ fr.f # "hook"
      BY <1>1, <1>2, <2>1 DEF Unhooked
    <2>2. ASSUME Unhooked(cs, n), fr.f # "hook" PROVE Unhooked(ds, n + 1)
      BY <1>1, <1>2, <2>2 DEF Unhooked
    <2>3. Unhooked(ds, n + 1) \in BOOLEAN /\ Unhooked(cs, n) \in BOOLEAN
      BY Zenon DEF Unhooked
    <2> QED
      BY <2>1, <2>2, <2>3, Zenon DEF At
  <1>5. Handled(ds, r)
    BY <1>1 DEF Handled, Point, At, Innermost
  <1>6. At(ds, n + 1, r)
    BY <1>1, <1>3, <1>4, <1>5, CallsAgree, CallsStep DEF At
  <1> QED
    BY <1>6, Zenon DEF ds

\* a prefix of a sequence
LEMMA Prefix ==
  ASSUME NEW X, NEW s \in Seq(X), NEW m \in 0..Len(s)
  PROVE  /\ SubSeq(s, 1, m) \in Seq(X) /\ Len(SubSeq(s, 1, m)) = m
         /\ \A i \in 1..m : SubSeq(s, 1, m)[i] = s[i]
  OBVIOUS

\* ... all but its last element
LEMMA FrontType ==
  ASSUME NEW X, NEW s \in Seq(X)
  PROVE  Front(s) \in Seq(X)
  BY DEF Front

\* the frames below the last one
LEMMA Popped ==
  ASSUME NEW cs \in Seq(Frame), cs # <<>>
  PROVE  /\ Len(cs) \in Nat \ {0} /\ Len(cs) - 1 \in Nat
         /\ Front(cs) \in Seq(Frame) /\ Len(Front(cs)) = Len(cs) - 1
         /\ \A i \in 1..Len(cs)-1 : Front(cs)[i] = cs[i]
         /\ Agree(cs, Front(cs), Len(cs) - 1)
         /\ Len(cs) > 1 => Front(cs) # <<>> /\ top(Front(cs)) = cs[Len(cs) - 1].th
         /\ Len(cs) = 1 => Front(cs) = <<>> /\ top(Front(cs)) = mainthread
  <1>1. /\ Len(cs) \in Nat \ {0} /\ Len(cs) - 1 \in Nat
        /\ Front(cs) \in Seq(Frame) /\ Len(Front(cs)) = Len(cs) - 1
        /\ \A i \in 1..Len(cs)-1 : Front(cs)[i] = cs[i]
    <2>1. Len(cs) \in Nat \ {0} /\ Len(cs) - 1 \in 0..Len(cs) /\ Len(cs) - 1 \in Nat
      OBVIOUS
    <2>2. /\ SubSeq(cs, 1, Len(cs) - 1) \in Seq(Frame)
          /\ Len(SubSeq(cs, 1, Len(cs) - 1)) = Len(cs) - 1
          /\ \A i \in 1..Len(cs)-1 : SubSeq(cs, 1, Len(cs) - 1)[i] = cs[i]
      BY <2>1, Prefix, Zenon
    <2> QED
      BY <2>1, <2>2, Zenon DEF Front
  <1> QED
    BY <1>1 DEF top, Agree

\* what a thread has when the last frame, not a recovery point, is gone
LEMMA AtPop ==
  ASSUME NEW cs, NEW S, Frames(cs, S), cs # <<>>, cs[Len(cs)].f \notin Point,
         NEW r0, At(cs, Len(cs), r0), NEW r,
         r.nCcalls = IF cs[Len(cs)].f \in CCall THEN r0.nCcalls - 1 ELSE r0.nCcalls,
         r.errorJmp = r0.errorJmp, r.errfunc = r0.errfunc,
         r.allowhook = (r0.allowhook \/ cs[Len(cs)].f = "hook")
  PROVE  /\ Len(cs) > 1 /\ cs[Len(cs)-1].th = cs[Len(cs)].th
         /\ At(cs, Len(cs) - 1, r)
  <1> DEFINE n == Len(cs)
  <1>1. cs \in Seq(Frame) /\ n \in Nat \ {0} /\ n - 1 \in Nat /\ FrameOK(cs, S, n)
    BY DEF Frames
  <1>2. n > 1 /\ cs[n-1].th = cs[n].th
    <2>1. cs[n].f # "pcall" /\ cs[n].f # "resume"
      BY Zenon DEF Point
    <2>2. n > 1
      <3> HIDE DEF n
      <3> QED
        BY <1>1, <2>1 DEF FrameOK
    <2> QED
      BY <1>1, <2>1, <2>2, Zenon DEF FrameOK
  <1>3. r.nCcalls = Calls(cs, n - 1)
    <2>1. Calls(cs, n-1) \in Nat
      BY <1>1, CallsType, Zenon
    <2> QED
      BY <1>1, <2>1, CallsStep DEF At
  <1>4. r.allowhook = Unhooked(cs, n - 1)
    <2>1. CASE cs[n].f = "hook"
      <3>1. Unhooked(cs, n-1)
        BY <1>1, <2>1, Zenon DEF FrameOK
      <3>2. r.allowhook = TRUE
        BY <2>1, Zenon
      <3>3. Unhooked(cs, n-1) \in BOOLEAN
        BY Zenon DEF Unhooked
      <3> QED
        BY <3>1, <3>2, <3>3, Zenon
    <2>2. CASE cs[n].f # "hook"
      <3>1. Unhooked(cs, n) <=> Unhooked(cs, n-1)
        BY <1>1, <1>2, <2>2 DEF Unhooked
      <3>2. Unhooked(cs, n-1) \in BOOLEAN /\ Unhooked(cs, n) \in BOOLEAN
        BY Zenon DEF Unhooked
      <3> QED
        BY <2>2, <3>1, <3>2, Zenon DEF At
    <2> QED
      BY <2>1, <2>2, Zenon
  <1> QED
    BY <1>1, <1>2, <1>3, <1>4 DEF At, Innermost, Handled

-----------------------------------------------------------------------------
(* The running thread.                                                     *)

\* r may be the record of the thread that runs on stack cs
Runs(cs, S, r) ==
  /\ Frames(cs, S) /\ r \in ThreadState /\ r.status = "ok" /\ ~r.fun
  /\ r.baseCcalls = S[top(cs)].baseCcalls
  /\ At(cs, Len(cs), r)

\* what a step may do to r besides what the new stack asks for
Same(r, r0) ==
  r \in ThreadState /\ r.status = r0.status /\ r.fun = r0.fun /\ r.baseCcalls = r0.baseCcalls

\* a record that may be the running thread's can be stored
LEMMA RunsBase ==
  ASSUME NEW cs, NEW S, NEW r, Runs(cs, S, r)
  PROVE  Base(cs, [S EXCEPT ![top(cs)] = r])
  <1>1. [S EXCEPT ![top(cs)] = r][top(cs)] = r
    BY TopType, Zenon DEF Runs, Frames
  <1> QED
    BY <1>1, FramesUpdate, Zenon DEF Base, Runs

\* ... and the one that is stored is one
LEMMA BaseRuns ==
  ASSUME NEW cs, NEW S, Base(cs, S)
  PROVE  /\ Runs(cs, S, S[top(cs)]) /\ top(cs) \in Thread
         /\ cs \in Seq(Frame) /\ S \in [Thread -> ThreadState] /\ S[top(cs)] \in ThreadState
  BY TopType DEF Runs, Base, top, Frames, FrameOK

\* a call
LEMMA RunsPush ==
  ASSUME NEW cs, NEW S, NEW r0, Runs(cs, S, r0),
         NEW fr \in Frame, fr.f # "resume", fr.th = top(cs),
         IF cs = <<>> THEN fr.f = "pcall" ELSE MayCall(cs[Len(cs)].f, fr.f),
         fr.f = "pcall" => At(cs, Len(cs), fr.old), fr.f = "hook" => r0.allowhook,
         NEW r, Same(r, r0),
         r.nCcalls = IF fr.f \in CCall THEN r0.nCcalls + 1 ELSE r0.nCcalls,
         r.errorJmp = IF fr.f \in Point THEN Len(cs) + 1 ELSE r0.errorJmp,
         r.allowhook = (r0.allowhook /\ fr.f # "hook"),
         fr.f # "pcall" => r.errfunc = r0.errfunc
  PROVE  Runs(Append(cs, fr), S, r)
  BY FramesPush, AtPush, Pushed DEF Runs, Frames, At, Same

\* a return
LEMMA RunsPop ==
  ASSUME NEW cs, NEW S, NEW r0, Runs(cs, S, r0), cs # <<>>, cs[Len(cs)].f \notin Point,
         NEW r, Same(r, r0),
         r.nCcalls = IF cs[Len(cs)].f \in CCall THEN r0.nCcalls - 1 ELSE r0.nCcalls,
         r.errorJmp = r0.errorJmp, r.errfunc = r0.errfunc,
         r.allowhook = (r0.allowhook \/ cs[Len(cs)].f = "hook")
  PROVE  /\ Len(cs) > 1 /\ Front(cs) # <<>> /\ top(Front(cs)) = top(cs)
         /\ Runs(Front(cs), S, r)
  <1>1. Frames(cs, S) /\ cs \in Seq(Frame) /\ At(cs, Len(cs), r0)
    BY Zenon DEF Runs, Frames
  <1> QED
    BY <1>1, FramesCut, AtAgrees, Popped, AtPop DEF Runs, Same, top

\* execute starts or ends a function: only its nexeccalls changes
Counted(cs, m) == [cs EXCEPT ![Len(cs)].n = m]

\* ... and nothing else depends on it
LEMMA RunsCount ==
  ASSUME NEW cs, NEW S, NEW r0, Runs(cs, S, r0), cs # <<>>, NEW m \in Nat,
         NEW r, Same(r, r0), r.nCcalls = r0.nCcalls, r.errorJmp = r0.errorJmp,
         r.allowhook = r0.allowhook, r.errfunc = r0.errfunc
  PROVE  LET ds == Counted(cs, m) IN
         /\ Runs(ds, S, r) /\ Runs(cs, S, r)
         /\ ds # <<>> /\ Len(ds) = Len(cs) /\ ds[Len(ds)].f = cs[Len(cs)].f
         /\ top(ds) = top(cs) /\ Calls(ds, Len(ds)) = Calls(cs, Len(cs))
  <1> DEFINE ds == Counted(cs, m)
  <1>1. Frames(cs, S) /\ cs \in Seq(Frame) /\ At(cs, Len(cs), r0)
    BY Zenon DEF Runs, Frames
  <1>2. Len(cs) \in Nat \ {0} /\ cs[Len(cs)] \in Frame
    BY <1>1
  <1>3. [cs[Len(cs)] EXCEPT !.n = m] \in Frame
    BY <1>2, Zenon DEF Frame
  <1>4. ds = [cs EXCEPT ![Len(cs)] = [cs[Len(cs)] EXCEPT !.n = m]]
    BY Zenon DEF Counted
  <1>5. ds \in Seq(Frame) /\ Len(ds) = Len(cs) /\ ds # <<>>
    BY <1>1, <1>2, <1>3, <1>4
  <1>6. \A i \in 1..Len(cs) : ds[i] = IF i = Len(cs) THEN [cs[i] EXCEPT !.n = m] ELSE cs[i]
    BY <1>1, <1>2, <1>4
  <1>7. Agree(cs, ds, Len(cs))
    <2>1. \A i \in 1..Len(cs) : cs[i] \in Frame
      BY <1>1
    <2> QED
      BY <1>6, <2>1, Zenon DEF Agree, Frame
  <1> HIDE DEF ds
  <1>8. top(ds) = top(cs) /\ ds[Len(ds)].f = cs[Len(cs)].f
    BY <1>2, <1>5, <1>7 DEF top, Agree
  <1> QED
    BY <1>1, <1>2, <1>5, <1>7, <1>8, CallsAgree, FramesCut, AtAgrees DEF ds, Runs, Same, At,
       Handled

-----------------------------------------------------------------------------
(* The operations.                                                         *)

\* what an operation returns for thread th: the stack fits the threads
Fits(s, S, th) == Good(s.cs, [S EXCEPT ![th] = s.r], s.err)

\* an operation after which the same thread runs
LEMMA RunsFits ==
  ASSUME NEW cs, NEW S, NEW r, NEW err \in Pending, Runs(cs, S, r), Bounded(cs, err),
         cs = <<>> => err = "none",
         cs # <<>> => cs[Len(cs)].f \notin {"pcall", "errormsg"}
  PROVE  Good(cs, [S EXCEPT ![top(cs)] = r], err)
  BY RunsBase, Zenon DEF Good

\* the call counter and the number of C calls are the same number
LEMMA RunsCalls ==
  ASSUME NEW cs, NEW S, NEW r, Runs(cs, S, r)
  PROVE  /\ r.nCcalls = Calls(cs, Len(cs)) /\ Calls(cs, Len(cs)) \in Nat
         /\ cs \in Seq(Frame) /\ Len(cs) \in Nat /\ top(cs) \in Thread
  <1>1. cs \in Seq(Frame)
    BY Zenon DEF Runs, Frames
  <1>2. Len(cs) \in Nat /\ top(cs) \in Thread
    BY <1>1, TopType
  <1> QED
    BY <1>1, <1>2, CallsType, Zenon DEF Runs, At

\* new frames are frames
LEMMA NewFrame ==
  ASSUME NEW f \in FName, NEW th \in Thread
  PROVE  /\ frame(f, th) \in Frame /\ frame(f, th).f = f /\ frame(f, th).th = th
         /\ frame(f, th).n = 0
  BY DEF NoOld, Old, ErrFunc, frame, Frame

\* the frame of an execute that has m Gafq functions
LEMMA NewExecute ==
  ASSUME NEW th \in Thread, NEW m \in Nat
  PROVE  LET fr == [frame("execute", th) EXCEPT !.n = m] IN
         fr \in Frame /\ fr.f = "execute" /\ fr.th = th /\ fr.n = m
  <1>1. NoOld \in Old
    BY DEF NoOld, Old, ErrFunc
  <1> QED
    BY <1>1, Zenon DEF frame, Frame, FName

\* a recovery point holds what it has to restore
LEMMA RecoveryFrame ==
  ASSUME NEW f \in FName, NEW th \in Thread, NEW r \in ThreadState
  PROVE  /\ recovery(f, th, r) \in Frame
         /\ recovery(f, th, r).f = f /\ recovery(f, th, r).th = th
         /\ recovery(f, th, r).old.nCcalls = r.nCcalls
         /\ recovery(f, th, r).old.errorJmp = r.errorJmp
         /\ recovery(f, th, r).old.allowhook = r.allowhook
         /\ recovery(f, th, r).old.errfunc = r.errfunc
         /\ recovery(f, th, r).old.ci = Len(r.ci) /\ recovery(f, th, r).n = 0
  BY DEF ThreadState, recovery, frame, NoOld, Frame, Old

\* gafqD_precall: it fails, or there is a new function on the stack
LEMMA PrecallRecord ==
  ASSUME NEW cs, NEW r \in ThreadState, NEW kind \in Kind
  PROVE  LET s == precall(cs, r, kind) IN
         /\ Same(s.r, r) /\ s.r.nCcalls = r.nCcalls /\ s.r.errorJmp = r.errorJmp
         /\ s.r.allowhook = r.allowhook /\ s.r.errfunc = r.errfunc
         /\ s.err \in {"none", "runerror", "ERRERR"}
         /\ s.err # "none" => s.cs = cs
         /\ s.err = "none" =>
              s.cs = IF kind = "C" THEN Append(cs, frame("cfun", Last(cs).th))
                     ELSE IF Last(cs).f = "execute" THEN [cs EXCEPT ![Len(cs)].n = @ + 1]
                     ELSE Append(cs, [frame("execute", Last(cs).th) EXCEPT !.n = 1])
  <1> DEFINE g == inc_ci(r)
             r1 == [r EXCEPT !.size_ci = g.size_ci]
             r2 == [r1 EXCEPT !.ci = Append(@, kind)]
  <1>1. g.size_ci \in Nat /\ g.err \in {"none", "runerror", "ERRERR"}
    BY DEF ThreadState, inc_ci
  <1> HIDE DEF g
  <1>2. /\ Same(r1, r) /\ r1.nCcalls = r.nCcalls /\ r1.errorJmp = r.errorJmp
        /\ r1.allowhook = r.allowhook /\ r1.errfunc = r.errfunc
    BY <1>1, Zenon DEF Same, ThreadState
  <1>3. /\ Same(r2, r) /\ r2.nCcalls = r.nCcalls /\ r2.errorJmp = r.errorJmp
        /\ r2.allowhook = r.allowhook /\ r2.errfunc = r.errfunc
    <2>1. Append(r.ci, kind) \in Seq(Kind)
      BY DEF ThreadState
    <2> QED
      BY <1>1, <2>1, Zenon DEF Same, ThreadState
  <1>4. CASE g.err # "none"
    <2>1. precall(cs, r, kind) = raise(cs, r1, g.err)
      BY <1>4, Zenon DEF precall, g
    <2> HIDE DEF r1
    <2> QED
      BY <1>1, <1>2, <1>4, <2>1 DEF raise
  <1>5. CASE g.err = "none"
    <2> DEFINE ds == IF kind = "C" THEN Append(cs, frame("cfun", Last(cs).th))
                     ELSE IF Last(cs).f = "execute" THEN [cs EXCEPT ![Len(cs)].n = @ + 1]
                     ELSE Append(cs, [frame("execute", Last(cs).th) EXCEPT !.n = 1])
    <2>1. precall(cs, r, kind) = done(ds, r2)
      BY <1>5, Zenon DEF precall, g
    <2> HIDE DEF r2, ds
    <2> QED
      BY <1>3, <2>1 DEF ds, done
  <1> QED
    BY <1>4, <1>5, Zenon

\* gafqD_precall of a C function, or of a Gafq function that an execute runs
LEMMA PrecallFits ==
  ASSUME NEW cs, NEW S, NEW r, Runs(cs, S, r), cs # <<>>, NEW kind \in Kind,
         cs[Len(cs)].f \in {"execute", "call", "resume"},
         kind = "C" => cs[Len(cs)].f # "resume",
         Calls(cs, Len(cs)) < MAXCCALLS + EXTRA_CCALLS
  PROVE  Fits(precall(cs, r, kind), S, top(cs))
  <1> DEFINE s == precall(cs, r, kind)
  <1>1. r \in ThreadState
    BY Zenon DEF Runs
  <1>2. /\ Same(s.r, r) /\ s.r.nCcalls = r.nCcalls /\ s.r.errorJmp = r.errorJmp
        /\ s.r.allowhook = r.allowhook /\ s.r.errfunc = r.errfunc
        /\ s.err \in {"none", "runerror", "ERRERR"}
        /\ s.err # "none" => s.cs = cs
        /\ s.err = "none" =>
             s.cs = IF kind = "C" THEN Append(cs, frame("cfun", Last(cs).th))
                    ELSE IF Last(cs).f = "execute" THEN [cs EXCEPT ![Len(cs)].n = @ + 1]
                    ELSE Append(cs, [frame("execute", Last(cs).th) EXCEPT !.n = 1])
    BY <1>1, PrecallRecord, Zenon
  <1>3. /\ r.nCcalls = Calls(cs, Len(cs)) /\ Calls(cs, Len(cs)) \in Nat
        /\ cs \in Seq(Frame) /\ Len(cs) \in Nat \ {0} /\ top(cs) \in Thread
        /\ Last(cs) = cs[Len(cs)] /\ Last(cs).th = top(cs)
    BY RunsCalls DEF Last, top
  <1> HIDE DEF s
  <1>4. ASSUME NEW m \in Nat
        PROVE  /\ Runs(cs, S, s.r)
               /\ LET ds == Counted(cs, m) IN
                  /\ Runs(ds, S, s.r) /\ ds # <<>> /\ ds[Len(ds)].f = cs[Len(cs)].f
                  /\ top(ds) = top(cs) /\ Calls(ds, Len(ds)) = Calls(cs, Len(cs))
    BY <1>2, RunsCount, Zenon
  <1>5. Runs(s.cs, S, s.r) /\ s.cs # <<>> /\ top(s.cs) = top(cs)
        /\ s.cs[Len(s.cs)].f \notin {"pcall", "errormsg"}
        /\ Calls(s.cs, Len(s.cs)) = Calls(cs, Len(cs))
    <2>1. CASE s.err # "none"
      BY <1>2, <1>4, <2>1, Zenon
    <2>2. CASE s.err = "none" /\ kind = "G" /\ Last(cs).f = "execute"
      <3>1. s.cs = Counted(cs, cs[Len(cs)].n + 1) /\ cs[Len(cs)].n + 1 \in Nat
        BY <1>2, <1>3, <2>2, FrameType DEF Counted
      <3> QED
        BY <1>3, <1>4, <2>2, <3>1, Zenon
    <2>3. ASSUME s.err = "none", NEW fr \in Frame, fr.f \in {"cfun", "execute"}, fr.th = top(cs),
                 MayCall(cs[Len(cs)].f, fr.f), s.cs = Append(cs, fr)
          PROVE  Runs(s.cs, S, s.r) /\ s.cs # <<>> /\ top(s.cs) = top(cs)
                 /\ s.cs[Len(s.cs)].f \notin {"pcall", "errormsg"}
                 /\ Calls(s.cs, Len(s.cs)) = Calls(cs, Len(cs))
      <3>1. fr.f # "resume" /\ fr.f # "pcall" /\ fr.f # "hook" /\ fr.f \notin CCall /\ fr.f \notin Point
        BY <2>3, Zenon DEF CCall, Point
      <3>2. s.r.allowhook = (r.allowhook /\ fr.f # "hook")
        BY <1>1, <1>2, <3>1, Zenon DEF ThreadState
      <3>3. /\ Len(Append(cs, fr)) = Len(cs) + 1 /\ Append(cs, fr)[Len(cs) + 1] = fr
            /\ top(Append(cs, fr)) = fr.th /\ Append(cs, fr) # <<>>
            /\ Agree(cs, Append(cs, fr), Len(cs))
        BY <1>3, Pushed, Zenon
      <3>4. Calls(Append(cs, fr), Len(cs) + 1) = Calls(cs, Len(cs))
        <4>1. Len(cs) \in Nat
          BY <1>3, Zenon
        <4>2. Calls(Append(cs, fr), Len(cs)) = Calls(cs, Len(cs))
          BY <3>3, <4>1, CallsAgree, Zenon
        <4>3. Append(cs, fr)[Len(cs) + 1].f \notin CCall
          BY <3>1, <3>3, Zenon
        <4> QED
          BY <4>1, <4>2, <4>3, CallsStep, Zenon
      <3> QED
        BY <1>2, <2>3, <3>1, <3>2, <3>3, <3>4, RunsPush
    <2>4. CASE s.err = "none" /\ kind = "C"
      <3> DEFINE fr == frame("cfun", top(cs))
      <3>1. fr \in Frame /\ fr.f = "cfun" /\ fr.th = top(cs)
        BY <1>3, NewFrame, Zenon DEF FName
      <3>2. s.cs = Append(cs, fr)
        BY <1>2, <1>3, <2>4, Zenon
      <3>3. MayCall(cs[Len(cs)].f, "cfun")
        BY <2>4, Zenon DEF MayCall
      <3> HIDE DEF fr
      <3> QED
        BY <2>3, <2>4, <3>1, <3>2, <3>3, Zenon
    <2>5. CASE s.err = "none" /\ kind = "G" /\ Last(cs).f # "execute"
      <3> DEFINE fr == [frame("execute", top(cs)) EXCEPT !.n = 1]
      <3>1. fr \in Frame /\ fr.f = "execute" /\ fr.th = top(cs)
        BY <1>3, NewExecute
      <3>2. s.cs = Append(cs, fr)
        BY <1>2, <1>3, <2>5, Zenon
      <3>3. MayCall(cs[Len(cs)].f, "execute")
        BY <1>3, <2>5, Zenon DEF MayCall
      <3> HIDE DEF fr
      <3> QED
        BY <2>3, <2>5, <3>1, <3>2, <3>3, Zenon
    <2> QED
      BY <2>1, <2>2, <2>4, <2>5, Zenon DEF Kind
  <1>6. Bounded(s.cs, s.err) /\ s.err \in Pending
    BY <1>2, <1>3, <1>5, LimitsAssumption DEF Bounded, Pending
  <1>7. Good(s.cs, [S EXCEPT ![top(s.cs)] = s.r], s.err)
    BY <1>5, <1>6, RunsFits, Zenon
  <1> QED
    BY <1>5, <1>7, Zenon DEF Fits, s

\* gafqD_call: there may be room for a call, and the call is then made
LEMMA CallFits ==
  ASSUME NEW cs, NEW S, NEW r, Runs(cs, S, r), cs # <<>>, NEW kind \in Kind,
         cs[Len(cs)].f \in {"execute", "cfun", "hook", "pcall", "errormsg"},
         Calls(cs, Len(cs)) < MAXCCALLS + EXTRA_CCALLS
  PROVE  Fits(call(cs, r, kind, top(cs)), S, top(cs))
  <1> DEFINE fr == frame("call", top(cs))
             cs1 == Append(cs, fr)
             r1 == [r EXCEPT !.nCcalls = @ + 1]
  <1>1. /\ r.nCcalls = Calls(cs, Len(cs)) /\ Calls(cs, Len(cs)) \in Nat
        /\ cs \in Seq(Frame) /\ Len(cs) \in Nat /\ top(cs) \in Thread /\ r \in ThreadState
    BY RunsCalls, Zenon DEF Runs
  <1>2. fr \in Frame /\ fr.f = "call" /\ fr.th = top(cs)
    BY <1>1, NewFrame DEF FName
  <1>3. MayCall(cs[Len(cs)].f, "call")
    BY Zenon DEF MayCall
  <1>4. /\ Same(r1, r) /\ r1.nCcalls = r.nCcalls + 1 /\ r1.errorJmp = r.errorJmp
        /\ r1.allowhook = r.allowhook /\ r.allowhook \in BOOLEAN /\ r1.errfunc = r.errfunc
    BY <1>1, SMTT(40) DEF Same, ThreadState
  <1> HIDE DEF fr
  <1>5. Len(cs1) = Len(cs) + 1 /\ cs1[Len(cs1)].f = "call" /\ top(cs1) = top(cs) /\ cs1 # <<>>
    BY <1>1, <1>2, Pushed
  <1> HIDE DEF r1
  <1>6. Runs(cs1, S, r1)
    BY <1>2, <1>3, <1>4, RunsPush, Zenon DEF CCall, Point
  <1> HIDE DEF cs1
  <1>7. r1.nCcalls = Calls(cs1, Len(cs1)) /\ Calls(cs1, Len(cs1)) = Calls(cs, Len(cs)) + 1
    BY <1>1, <1>4, <1>6, RunsCalls, Zenon
  <1>8. ASSUME NEW err \in {"runerror", "ERRERR"}, err = "runerror" => r1.nCcalls = MAXCCALLS
        PROVE  Fits(raise(cs1, r1, err), S, top(cs))
    <2>1. err \in Pending /\ Bounded(cs1, err)
      BY <1>1, <1>7, <1>8, LimitsAssumption DEF Bounded, Pending
    <2>2. cs1[Len(cs1)].f \notin {"pcall", "errormsg"}
      BY <1>5, Zenon
    <2>3. Good(cs1, [S EXCEPT ![top(cs1)] = r1], err)
      BY <1>5, <1>6, <2>1, <2>2, RunsFits, Zenon
    <2> QED
      BY <1>5, <2>3, Zenon DEF Fits, raise
  <1>9. CASE r1.nCcalls = MAXCCALLS
    BY <1>8, <1>9, Zenon DEF call, cs1, r1, fr
  <1>10. CASE r1.nCcalls # MAXCCALLS /\ r1.nCcalls >= MAXCCALLS + EXTRA_CCALLS
    BY <1>8, <1>10, Zenon DEF call, cs1, r1, fr
  <1>11. CASE r1.nCcalls # MAXCCALLS /\ ~(r1.nCcalls >= MAXCCALLS + EXTRA_CCALLS)
    <2>1. Fits(precall(cs1, r1, kind), S, top(cs1))
      BY <1>1, <1>5, <1>6, <1>7, <1>11, PrecallFits, LimitsAssumption
    <2> QED
      BY <1>5, <1>11, <2>1, Zenon DEF call, cs1, r1, fr
  <1> QED
    BY <1>9, <1>10, <1>11, Zenon

\* gafqD_pcall
LEMMA PcallFits ==
  ASSUME NEW cs, NEW S, NEW r, Runs(cs, S, r), NEW kind \in Kind, NEW handler \in ErrFunc,
         cs # <<>> => cs[Len(cs)].f \in {"cfun", "hook"},
         Calls(cs, Len(cs)) < MAXCCALLS + EXTRA_CCALLS
  PROVE  Fits(pcall(cs, r, kind, handler, top(cs)), S, top(cs))
  <1> DEFINE fr == recovery("pcall", top(cs), r)
             cs1 == Append(cs, fr)
             r1 == [r EXCEPT !.errorJmp = Len(cs) + 1, !.errfunc = handler]
  <1>1. /\ r.nCcalls = Calls(cs, Len(cs)) /\ Calls(cs, Len(cs)) \in Nat
        /\ cs \in Seq(Frame) /\ Len(cs) \in Nat /\ top(cs) \in Thread /\ r \in ThreadState
        /\ At(cs, Len(cs), r)
    BY RunsCalls, Zenon DEF Runs
  <1>2. fr \in Frame /\ fr.f = "pcall" /\ fr.th = top(cs) /\ At(cs, Len(cs), fr.old)
    BY <1>1, RecoveryFrame DEF FName, At, Handled
  <1>3. IF cs = <<>> THEN fr.f = "pcall" ELSE MayCall(cs[Len(cs)].f, fr.f)
    BY <1>2, Zenon DEF MayCall
  <1>4. /\ Same(r1, r) /\ r1.nCcalls = r.nCcalls /\ r1.errorJmp = Len(cs) + 1
        /\ r1.allowhook = r.allowhook /\ r.allowhook \in BOOLEAN
    <2>1. r \in ThreadState /\ Len(cs) + 1 \in Nat
      BY <1>1
    <2> QED
      BY <2>1, Zenon DEF Same, ThreadState
  <1> HIDE DEF fr
  <1>5. /\ Len(cs1) = Len(cs) + 1 /\ cs1[Len(cs1)].f = "pcall" /\ top(cs1) = top(cs)
        /\ cs1 # <<>>
    BY <1>1, <1>2, Pushed
  <1> HIDE DEF r1
  <1>6. Runs(cs1, S, r1)
    BY <1>2, <1>3, <1>4, RunsPush, Zenon DEF CCall, Point
  <1> HIDE DEF cs1
  <1>7. Fits(call(cs1, r1, kind, top(cs1)), S, top(cs1))
    BY <1>1, <1>4, <1>5, <1>6, CallFits, RunsCalls, Zenon
  <1> QED
    BY <1>5, <1>7, Zenon DEF pcall, cs1, r1, fr

\* the end of a resume, by a return, a yield or an error: the thread that
\* called it goes on where it was
LEMMA ResumeEnds ==
  ASSUME NEW cs, NEW S, Frames(cs, S), NEW j \in 1..Len(cs), cs[j].f = "resume",
         NEW r \in ThreadState, ThreadOK(r),
         Calls(cs, Len(cs)) <= MAXCCALLS + EXTRA_CCALLS
  PROVE  Good(SubSeq(cs, 1, j - 1), [S EXCEPT ![cs[j].th] = r], "none")
  <1> DEFINE ds == SubSeq(cs, 1, j - 1)
             co == cs[j].th
             S1 == [S EXCEPT ![co] = r]
  <1>1. /\ cs \in Seq(Frame) /\ S \in [Thread -> ThreadState] /\ FrameOK(cs, S, j)
        /\ Len(cs) \in Nat /\ j \in Nat
    BY DEF Frames
  <1>2. j > 1 /\ j - 1 \in 0..Len(cs) /\ j - 1 \in Nat
    BY <1>1 DEF FrameOK
  <1>3. ds \in Seq(Frame) /\ Len(ds) = j - 1 /\ \A i \in 1..j-1 : ds[i] = cs[i]
    BY <1>1, <1>2, Prefix, Zenon
  <1>4. Agree(cs, ds, j - 1)
    BY <1>3, Zenon DEF Agree
  <1>5. co \in Thread /\ cs[j-1].th \in Thread
    BY <1>1, <1>2, FrameType
  <1>6. (\A i \in 1..Len(ds) : ds[i].th # co) /\ cs[j-1].th # co /\ co # mainthread
    BY <1>1, <1>2, <1>3 DEF FrameOK, Frames
  <1> HIDE DEF ds, co
  <1>7. Frames(ds, S)
    BY <1>1, <1>2, <1>3, <1>4, FramesCut
  <1>8. Frames(ds, S1)
    BY <1>5, <1>6, <1>7, FramesOff, Zenon
  <1>9. ds # <<>> /\ top(ds) = cs[j-1].th
    BY <1>2, <1>3 DEF top
  <1>10. Bounded(ds, "none")
    <2>1. Calls(cs, j - 1) \in Nat /\ Calls(cs, Len(cs)) \in Nat
      BY <1>1, <1>2, CallsType, Zenon
    <2> QED
      BY <1>1, <1>2, <1>3, <1>4, <2>1, LimitsAssumption, CallsAgree, CallsGrow DEF Bounded,
         CCall
  <1> HIDE DEF S1
  <1> QED
    BY <1>1, <1>2, <1>3, <1>4, <1>5, <1>6, <1>8, <1>9, <1>10, AtAgrees DEF ds, S1, co, Good,
       Base, Pending, FrameOK, MayCall

\* the end of a protected call, by a return or by an error
LEMMA PcallEnds ==
  ASSUME NEW cs, NEW S, Frames(cs, S), NEW j \in 1..Len(cs), cs[j].f = "pcall",
         cs[j].th = top(cs), NEW r \in ThreadState, r.status = "ok", ~r.fun,
         r.baseCcalls = S[top(cs)].baseCcalls,
         r.nCcalls = cs[j].old.nCcalls, r.errorJmp = cs[j].old.errorJmp,
         r.allowhook = cs[j].old.allowhook, r.errfunc = cs[j].old.errfunc,
         Calls(cs, j - 1) < MAXCCALLS + EXTRA_CCALLS
  PROVE  Good(SubSeq(cs, 1, j - 1), [S EXCEPT ![cs[j].th] = r], "none")
  <1> DEFINE ds == SubSeq(cs, 1, j - 1)
  <1>1. /\ cs \in Seq(Frame) /\ S \in [Thread -> ThreadState] /\ FrameOK(cs, S, j)
        /\ Len(cs) \in Nat /\ j \in Nat
    BY DEF Frames
  <1>2. j - 1 \in 0..Len(cs) /\ j - 1 \in Nat
    BY <1>1
  <1>3. ds \in Seq(Frame) /\ Len(ds) = j - 1 /\ \A i \in 1..j-1 : ds[i] = cs[i]
    BY <1>1, <1>2, Prefix, Zenon
  <1>4. Agree(cs, ds, j - 1)
    BY <1>3, Zenon DEF Agree
  <1> HIDE DEF ds
  <1>5. top(ds) = cs[j].th
    BY <1>1, <1>2, <1>3 DEF top, FrameOK
  <1>6. Runs(ds, S, r)
    BY <1>1, <1>2, <1>3, <1>4, <1>5, FramesCut, AtAgrees DEF Runs, FrameOK, At, Handled
  <1>7. Bounded(ds, "none") /\ "none" \in Pending
    BY <1>2, <1>3, <1>4, CallsAgree, Zenon DEF Bounded, Pending
  <1>8. ds # <<>> => ds[Len(ds)].f \notin {"pcall", "errormsg"}
    BY <1>1, <1>2, <1>3 DEF FrameOK, MayCall
  <1>9. Good(ds, [S EXCEPT ![top(ds)] = r], "none")
    BY <1>6, <1>7, <1>8, RunsFits, Zenon
  <1> QED
    BY <1>5, <1>9, Zenon DEF ds

\* what follows the return of a function that a running thread called
LEMMA ReturnFits ==
  ASSUME NEW cs, NEW S, NEW r, Runs(cs, S, r), cs # <<>>, cs[Len(cs)].f \in {"execute", "call"},
         Calls(cs, Len(cs)) < MAXCCALLS + EXTRA_CCALLS
  PROVE  Fits(returnto(cs, r), S, top(cs))
  <1> DEFINE below == Front(cs)
             r1 == [r EXCEPT !.nCcalls = @ - 1]
             old == Last(below).old
  <1>0. /\ r.nCcalls = Calls(cs, Len(cs)) /\ Calls(cs, Len(cs)) \in Nat
        /\ cs \in Seq(Frame) /\ Len(cs) \in Nat /\ top(cs) \in Thread /\ r \in ThreadState
        /\ Last(cs) = cs[Len(cs)] /\ Frames(cs, S) /\ r.status = "ok" /\ ~r.fun
    BY RunsCalls, Zenon DEF Runs, Last
  <1>1. CASE cs[Len(cs)].f = "execute"
    <2>1. returnto(cs, r) = done(cs, r)
      BY <1>0, <1>1, Zenon DEF returnto
    <2>2. Good(cs, [S EXCEPT ![top(cs)] = r], "none")
      BY <1>1, RunsFits, Zenon DEF Bounded, Pending
    <2> QED
      BY <2>1, <2>2 DEF Fits, done
  <1>2. CASE cs[Len(cs)].f = "call"
    <2>1. /\ Same(r1, r) /\ r1.nCcalls = r.nCcalls - 1 /\ r1.errorJmp = r.errorJmp
          /\ r1.allowhook = r.allowhook /\ r.allowhook \in BOOLEAN /\ r1 \in ThreadState
          /\ r1.errfunc = r.errfunc
      BY <1>0 DEF Same, ThreadState
    <2> HIDE DEF r1
    <2>2. below # <<>> /\ top(below) = top(cs) /\ Runs(below, S, r1) /\ Len(cs) > 1
      BY <1>2, <2>1, RunsPop, Zenon DEF CCall, Point
    <2>3. /\ below \in Seq(Frame) /\ Len(below) = Len(cs) - 1 /\ Len(below) \in 1..Len(below)
          /\ below[Len(below)] = cs[Len(cs) - 1] /\ Len(below) \in Nat
      BY <1>0, <2>2, Popped
    <2>4. cs[Len(cs) - 1].f \in {"execute", "cfun", "hook", "pcall", "errormsg"}
      <3>1. MayCall(cs[Len(cs)-1].f, "call")
        BY <1>0, <1>2, <2>2 DEF FrameOK, Frames
      <3> QED
        BY <3>1, Zenon DEF MayCall
    <2> HIDE DEF below
    <2>5. Frames(below, S) /\ FrameOK(below, S, Len(below)) /\ Last(below) = below[Len(below)]
          /\ Last(below).f = cs[Len(cs) - 1].f
      BY <2>2, <2>3, Zenon DEF Runs, Frames, Last
    <2>6. r1.nCcalls = Calls(below, Len(below)) /\ Calls(below, Len(below)) < MAXCCALLS + EXTRA_CCALLS
      BY <1>0, <2>1, <2>2, RunsCalls, LimitsAssumption
    <2>7. CASE cs[Len(cs) - 1].f \in {"execute", "cfun", "hook"}
      <3>1. returnto(cs, r) = done(below, r1)
        BY <1>0, <1>2, <2>5, <2>7, Zenon DEF returnto, below, r1
      <3>2. Good(below, [S EXCEPT ![top(below)] = r1], "none")
        BY <2>2, <2>3, <2>6, <2>7, RunsFits, Zenon DEF Bounded, Pending
      <3> QED
        BY <2>2, <3>1, <3>2 DEF Fits, done
    <2>8. CASE cs[Len(cs) - 1].f = "errormsg"
      <3>1. returnto(cs, r) = raise(Front(below), r1, "ERRRUN")
        BY <1>0, <1>2, <2>5, <2>8, Zenon DEF returnto, below, r1
      <3>2. /\ Len(below) > 1 /\ Front(below) # <<>> /\ top(Front(below)) = top(below)
            /\ Runs(Front(below), S, r1)
        BY <2>1, <2>2, <2>3, <2>8, RunsPop, Zenon DEF Same, CCall, Point
      <3>3. Bounded(Front(below), "ERRRUN") /\ "ERRRUN" \in Pending
        BY <2>2, <2>6, <3>2, RunsCalls, LimitsAssumption DEF Bounded, Pending
      <3>4. Front(below)[Len(Front(below))].f \notin {"pcall", "errormsg"}
        <4>1. Front(below)[Len(Front(below))] = below[Len(below) - 1]
          <5>1. Len(below) - 1 \in 1..Len(below)-1
            BY <2>3, <3>2
          <5> QED
            BY <2>2, <2>3, <5>1, Popped, Zenon
        <4> QED
          BY <2>3, <2>5, <2>8, <3>2, <4>1, Zenon DEF MayCall, FrameOK
      <3>5. Good(Front(below), [S EXCEPT ![top(Front(below))] = r1], "ERRRUN")
        BY <3>2, <3>3, <3>4, RunsFits, Zenon
      <3> QED
        BY <2>2, <3>1, <3>2, <3>5 DEF Fits, raise
    <2>9. CASE cs[Len(cs) - 1].f = "pcall"
      <3> DEFINE r2 == [r1 EXCEPT !.errorJmp = old.errorJmp, !.errfunc = old.errfunc]
                 j == Len(below)
      <3>1. returnto(cs, r) = done(Front(below), r2)
        BY <1>0, <1>2, <2>5, <2>9, Zenon DEF returnto, below, r1
      <3>2. below[j].f = "pcall" /\ below[j].th = top(below) /\ old = below[j].old /\ old \in Old
        BY <2>2, <2>3, <2>5, <2>9, FrameType, Zenon DEF top
      <3> HIDE DEF old
      <3>3. /\ Same(r2, r1) /\ r2.nCcalls = r1.nCcalls /\ r2.errorJmp = old.errorJmp
            /\ r2.allowhook = r1.allowhook /\ r2 \in ThreadState /\ r2.errfunc = old.errfunc
        <4>1. old.errorJmp \in Nat /\ old.errfunc \in ErrFunc
          BY <3>2, Zenon DEF Old
        <4> QED
          BY <2>1, <4>1, Zenon DEF Same, ThreadState
      <3>4. Calls(below, j) = Calls(below, j - 1)
        <4>1. j - 1 \in Nat /\ j - 1 + 1 = j /\ below[j].f \notin CCall
          BY <2>3, <3>2 DEF CCall
        <4> QED
          BY <4>1, CallsStep, Zenon
      <3>5. Unhooked(below, j) = Unhooked(below, j - 1)
        <4>1. j > 1 => below[j].th = below[j-1].th
          BY <2>5, <3>2, Zenon DEF FrameOK
        <4> QED
          BY <2>3, <3>2, <4>1 DEF Unhooked
      <3>6. r2.status = "ok" /\ ~r2.fun /\ r2.baseCcalls = S[top(below)].baseCcalls
        BY <2>2, <3>3, Zenon DEF Runs, Same
      <3> HIDE DEF r2
      <3>7. Good(SubSeq(below, 1, j - 1), [S EXCEPT ![below[j].th] = r2], "none")
        BY <2>2, <2>3, <2>5, <2>6, <3>2, <3>3, <3>4, <3>5, <3>6, PcallEnds DEF At, FrameOK, Runs
      <3> QED
        BY <2>2, <3>1, <3>2, <3>7 DEF Fits, done, Front
    <2> QED
      BY <2>4, <2>7, <2>8, <2>9, Zenon
  <1> QED
    BY <1>1, <1>2, Zenon

\* ... or that a resume called: the function of the coroutine is left
LEMMA ReturnResume ==
  ASSUME NEW cs, NEW S, NEW r \in ThreadState, Frames(cs, S), cs # <<>>,
         cs[Len(cs)].f = "resume", ThreadOK(r),
         Calls(cs, Len(cs)) < MAXCCALLS + EXTRA_CCALLS
  PROVE  Fits(returnto(cs, r), S, top(cs)) /\ returnto(cs, r).cs = Front(cs)
  <1> DEFINE r1 == [[r EXCEPT !.nCcalls = @ - 1] EXCEPT !.errorJmp = Last(cs).old.errorJmp]
  <1>1. cs \in Seq(Frame) /\ Len(cs) \in 1..Len(cs) /\ Last(cs) = cs[Len(cs)] /\ top(cs) = cs[Len(cs)].th
    BY DEF Frames, Last, top
  <1>2. r1 \in ThreadState /\ ThreadOK(r1)
    <2> DEFINE e == Last(cs).old.errorJmp
    <2>1. e \in Nat
      BY <1>1, FrameType, Zenon DEF Old
    <2> HIDE DEF e
    <2> DEFINE r0 == [r EXCEPT !.nCcalls = @ - 1]
    <2>2. /\ r0 \in ThreadState
          /\ r0.status = r.status /\ r0.fun = r.fun /\ r0.allowhook = r.allowhook
          /\ r0.errfunc = r.errfunc
      BY DEF ThreadState
    <2>3. r1 = [r0 EXCEPT !.errorJmp = e]
      BY Zenon DEF e
    <2> HIDE DEF r0, r1
    <2>4. /\ r1 \in ThreadState
          /\ r1.status = r0.status /\ r1.fun = r0.fun /\ r1.allowhook = r0.allowhook
          /\ r1.errfunc = r0.errfunc
      BY <2>1, <2>2, <2>3, Zenon DEF ThreadState
    <2> QED
      BY <2>2, <2>4, Zenon DEF ThreadOK
  <1>3. returnto(cs, r) = done(Front(cs), r1)
    BY <1>1, Zenon DEF returnto
  <1> HIDE DEF r1
  <1>4. Calls(cs, Len(cs)) <= MAXCCALLS + EXTRA_CCALLS
    <2>1. Len(cs) \in Nat
      BY <1>1
    <2>2. Calls(cs, Len(cs)) \in Nat
      BY <2>1, CallsType, Zenon
    <2> QED
      BY <2>2, LimitsAssumption
  <1> QED
    BY <1>1, <1>2, <1>3, <1>4, ResumeEnds, SMTT(40) DEF Fits, done, Front

-----------------------------------------------------------------------------
(* The CallInfos of the threads and the frames of the C stack.  A frame    *)
(* has a level, the number of CallInfos of its thread that lie below it,   *)
(* and a weight, the number it has itself; the levels of a thread's frames *)
(* and its CallInfos add up.  It is what an error needs to cut the         *)
(* CallInfos at the place where the protected call began.                  *)

\* the CallInfos a frame has: one per Gafq function an execute runs, one for a
\* C function
weight(fr) == IF fr.f = "cfun" THEN 1 ELSE fr.n

\* m[i] CallInfos of its thread lie below frame i
LevelOK(cs, S, m, i) ==
  /\ IF cs[i].f = "execute" THEN cs[i].n > 0 ELSE cs[i].n = 0
  /\ cs[i].f = "pcall" => cs[i].old.ci = m[i]
  /\ m[i] = IF i = 1 \/ cs[i].f = "resume" THEN 0 ELSE m[i-1] + weight(cs[i-1])
  /\ \A k \in 1..i-1 : cs[k].th = cs[i].th => m[k] + weight(cs[k]) <= m[i]
  /\ cs[i].th # mainthread /\ cs[i].f # "resume" => m[i] + weight(cs[i]) > 0
  /\ i < Len(cs) /\ cs[i+1].f = "resume" => Len(S[cs[i].th].ci) = m[i] + weight(cs[i])
  /\ cs[i].th # top(cs) => S[cs[i].th].ci # <<>>

\* m gives the levels of all frames of cs
LevelsBy(cs, S, m) ==
  m \in [1..Len(cs) -> Nat] /\ \A i \in 1..Len(cs) : LevelOK(cs, S, m, i)

\* the CallInfos of all frames of the running thread
depth(cs, m) == IF cs = <<>> THEN 0 ELSE m[Len(cs)] + weight(cs[Len(cs)])

\* the CallInfos of a thread th with record r
Held(th, r) ==
  /\ Len(r.ci) < r.size_ci
  /\ th # mainthread /\ r.ci # <<>> => r.ci[1] = "G"
  /\ r.status = "yield" => r.ci # <<>>

\* the running thread, whose record is r, has the CallInfos of its frames
Leveled(cs, S, r) ==
  Held(top(cs), r) /\ \E m : LevelsBy(cs, S, m) /\ Len(r.ci) = depth(cs, m)

\* what an operation s of thread th leaves
LFits(s, S, th) ==
  LET S1 == [S EXCEPT ![th] = s.r]
  IN  Leveled(s.cs, S1, S1[top(s.cs)]) /\ Held(th, s.r)

\* the number of CallInfos of a frame
LEMMA WeightType ==
  ASSUME NEW fr \in Frame
  PROVE  weight(fr) \in Nat
  BY Zenon DEF weight, Frame

\* levels and weights are numbers
LEMMA LevelType ==
  ASSUME NEW cs \in Seq(Frame), NEW S, NEW m, LevelsBy(cs, S, m)
  PROVE  /\ \A i \in 1..Len(cs) : m[i] \in Nat /\ weight(cs[i]) \in Nat
         /\ depth(cs, m) \in Nat /\ Len(cs) \in Nat
  BY FrameType, WeightType DEF LevelsBy, depth

\* the frames up to a resume, or up to one of the running thread, keep their levels
LEMMA LevelsCut ==
  ASSUME NEW cs, NEW S, Frames(cs, S), NEW m, LevelsBy(cs, S, m), NEW ds \in Seq(Frame),
         Len(ds) <= Len(cs), \A i \in 1..Len(ds) : ds[i] = cs[i],
         top(ds) = top(cs) \/ (Len(ds) < Len(cs) /\ cs[Len(ds) + 1].f = "resume"),
         NEW S1, \A th \in Thread : th # top(cs) => S1[th].ci = S[th].ci
  PROVE  LevelsBy(ds, S1, [i \in 1..Len(ds) |-> m[i]])
  <1> DEFINE m1 == [i \in 1..Len(ds) |-> m[i]]
  <1>1. cs \in Seq(Frame) /\ Len(cs) \in Nat /\ Len(ds) \in Nat
    BY DEF Frames
  <1>2. \A i \in 1..Len(ds) : i \in 1..Len(cs) /\ m1[i] = m[i]
    BY <1>1
  <1>3. ASSUME NEW i \in 1..Len(ds)
        PROVE  LevelOK(ds, S1, m1, i)
    <2>1. /\ LevelOK(cs, S, m, i) /\ ds[i] = cs[i] /\ m1[i] = m[i] /\ i \in Nat
          /\ i \in 1..Len(cs)
      BY <1>1, <1>2 DEF LevelsBy
    <2>2. cs[i].th \in Thread
      BY <1>1, <2>1, FrameType, Zenon
    <2> HIDE DEF m1
    <2>3. ASSUME i < Len(ds), ds[i+1].f = "resume"
          PROVE  Len(S1[ds[i].th].ci) = m1[i] + weight(ds[i])
      <3>1. /\ i + 1 \in 1..Len(ds) /\ i + 1 \in 1..Len(cs) /\ i \in 1..(i+1)-1 /\ i < Len(cs)
            /\ Len(cs) \in i+1..Len(cs) /\ cs # <<>>
        BY <1>1, <2>3
      <3>2. cs[i+1].f = "resume"
        BY <2>3, <3>1, Zenon
      <3>3. \A k \in 1..(i+1)-1, l \in i+1..Len(cs) : cs[k].th # cs[l].th
        BY <3>1, <3>2, Zenon DEF FrameOK, Frames
      <3> QED
        BY <2>1, <2>2, <3>1, <3>2, <3>3, Zenon DEF top, LevelOK
    <2>4. ASSUME ds[i].th # top(ds)
          PROVE  S1[ds[i].th].ci # <<>>
      BY <1>1, <2>1, <2>2, <2>4 DEF LevelOK, Frames, FrameOK, top
    <2> QED
      BY <1>1, <1>2, <2>1, <2>3, <2>4 DEF LevelOK
  <1> QED
    BY <1>1, <1>2, <1>3, LevelType, Zenon DEF LevelsBy

\* a new frame of the running thread
LEMMA LevelsPush ==
  ASSUME NEW cs, NEW S, Frames(cs, S), NEW m, LevelsBy(cs, S, m),
         NEW fr \in Frame, fr.f # "resume", fr.th = top(cs),
         IF fr.f = "execute" THEN fr.n > 0 ELSE fr.n = 0,
         fr.f = "pcall" => fr.old.ci = depth(cs, m),
         cs = <<>> => fr.f = "pcall",
         cs # <<>> /\ cs[Len(cs)].f = "resume" => fr.f = "execute"
  PROVE  LET m1 == [i \in 1..Len(cs)+1 |-> IF i = Len(cs)+1 THEN depth(cs, m) ELSE m[i]]
         IN  /\ LevelsBy(Append(cs, fr), S, m1)
             /\ depth(Append(cs, fr), m1) = depth(cs, m) + weight(fr)
  <1> DEFINE n == Len(cs)
             ds == Append(cs, fr)
             m1 == [i \in 1..n+1 |-> IF i = n+1 THEN depth(cs, m) ELSE m[i]]
  <1>1. /\ cs \in Seq(Frame) /\ n \in Nat /\ depth(cs, m) \in Nat /\ weight(fr) \in Nat
        /\ \A i \in 1..n : m[i] \in Nat /\ weight(cs[i]) \in Nat
    BY LevelType, WeightType, Zenon DEF Frames
  <1>2. /\ ds \in Seq(Frame) /\ Len(ds) = n + 1 /\ ds # <<>> /\ top(ds) = top(cs)
        /\ \A i \in 1..n : ds[i] = cs[i]
        /\ ds[n + 1] = fr
    BY <1>1, Pushed, Zenon
  <1>3. /\ m1 \in [1..n+1 -> Nat] /\ m1[n+1] = depth(cs, m) /\ \A i \in 1..n : m1[i] = m[i]
    BY <1>1
  <1> HIDE DEF ds, m1
  <1>4. ASSUME NEW i \in 1..n
        PROVE  LevelOK(ds, S, m1, i)
    <2>1. /\ LevelOK(cs, S, m, i) /\ ds[i] = cs[i] /\ m1[i] = m[i] /\ i \in Nat
      BY <1>1, <1>2, <1>3 DEF LevelsBy
    <2>2. m1[i] = IF i = 1 \/ ds[i].f = "resume" THEN 0 ELSE m1[i-1] + weight(ds[i-1])
      <3>1. m[i] = IF i = 1 \/ cs[i].f = "resume" THEN 0 ELSE m[i-1] + weight(cs[i-1])
        BY <2>1, Zenon DEF LevelOK
      <3>2. CASE i = 1
        BY <2>1, <3>1, <3>2, Zenon
      <3>3. CASE i # 1
        <4>1. i - 1 \in 1..n
          BY <1>1, <3>3
        <4>2. ds[i-1] = cs[i-1] /\ m1[i-1] = m[i-1]
          BY <1>2, <1>3, <4>1, Zenon
        <4> QED
          BY <2>1, <3>1, <4>2, Zenon
      <3> QED
        BY <3>2, <3>3, Zenon
    <2>3. \A k \in 1..i-1 : ds[k].th = ds[i].th => m1[k] + weight(ds[k]) <= m1[i]
      <3>1. \A k \in 1..i-1 : k \in 1..n
        BY <1>1
      <3>2. \A k \in 1..i-1 : ds[k] = cs[k] /\ m1[k] = m[k]
        BY <1>2, <1>3, <3>1, Zenon
      <3>3. \A k \in 1..i-1 : cs[k].th = cs[i].th => m[k] + weight(cs[k]) <= m[i]
        BY <2>1, Zenon DEF LevelOK
      <3> QED
        BY <2>1, <3>2, <3>3, Zenon
    <2>4. ASSUME i < Len(ds), ds[i+1].f = "resume"
          PROVE  Len(S[ds[i].th].ci) = m1[i] + weight(ds[i])
      <3>1. i # n
        BY <1>2, <2>4, Zenon
      <3>2. i < n /\ i + 1 \in 1..n
        BY <1>1, <3>1
      <3>3. cs[i+1].f = "resume"
        BY <1>2, <2>4, <3>2, Zenon
      <3>4. Len(S[cs[i].th].ci) = m[i] + weight(cs[i])
        BY <2>1, <3>2, <3>3, Zenon DEF LevelOK
      <3> QED
        BY <2>1, <3>4, Zenon
    <2>5. ds[i].th # top(ds) => S[ds[i].th].ci # <<>>
      BY <1>2, <2>1, Zenon DEF LevelOK
    <2>6. /\ IF ds[i].f = "execute" THEN ds[i].n > 0 ELSE ds[i].n = 0
          /\ ds[i].f = "pcall" => ds[i].old.ci = m1[i]
          /\ ds[i].th # mainthread /\ ds[i].f # "resume" => m1[i] + weight(ds[i]) > 0
      BY <2>1, Zenon DEF LevelOK
    <2> QED
      BY <2>2, <2>3, <2>4, <2>5, <2>6, Zenon DEF LevelOK
  <1>5. LevelOK(ds, S, m1, n + 1)
    <2>1. /\ ds[n+1] = fr /\ m1[n+1] = depth(cs, m)
          /\ fr.th = top(ds) /\ ~(n + 1 < Len(ds))
      BY <1>1, <1>2, <1>3
    <2>2. m1[n+1] = IF n+1 = 1 \/ ds[n+1].f = "resume" THEN 0 ELSE m1[n+1-1] + weight(ds[n+1-1])
      <3>1. CASE n = 0
        <4>1. cs = <<>>
          BY <1>1, <3>1
        <4> QED
          BY <2>1, <3>1, <4>1 DEF depth
      <3>2. CASE n # 0
        <4>1. cs # <<>> /\ n \in 1..n /\ n + 1 - 1 = n /\ n + 1 # 1
          BY <1>1, <3>2
        <4>2. ds[n] = cs[n] /\ m1[n] = m[n]
          BY <1>2, <1>3, <4>1, Zenon
        <4>3. depth(cs, m) = m[n] + weight(cs[n])
          BY <4>1, Zenon DEF depth
        <4> QED
          BY <2>1, <4>1, <4>2, <4>3, Zenon
      <3> QED
        BY <3>1, <3>2, Zenon
    <2>3. ASSUME NEW k \in 1..n+1-1, ds[k].th = ds[n+1].th
          PROVE  m1[k] + weight(ds[k]) <= m1[n+1]
      <3>1. /\ k \in 1..n /\ n \in 1..n /\ cs # <<>> /\ ds[k] = cs[k] /\ m1[k] = m[k]
        BY <1>1, <1>2, <1>3, <2>3
      <3>2. depth(cs, m) = m[n] + weight(cs[n])
        BY <3>1, Zenon DEF depth
      <3>3. CASE k = n
        BY <1>1, <2>1, <3>1, <3>2, <3>3
      <3>4. CASE k # n
        <4>1. k \in 1..n-1
          BY <1>1, <3>1, <3>4
        <4>2. cs[k].th = cs[n].th
          BY <1>2, <2>1, <2>3, <3>1, Zenon DEF top
        <4>3. LevelOK(cs, S, m, n)
          BY <3>1, Zenon DEF LevelsBy
        <4>4. m[k] + weight(cs[k]) <= m[n]
          BY <4>1, <4>2, <4>3, Zenon DEF LevelOK
        <4>5. m[k] \in Nat /\ m[n] \in Nat /\ weight(cs[k]) \in Nat /\ weight(cs[n]) \in Nat
          BY <1>1, <3>1, Zenon
        <4>6. m[k] + weight(cs[k]) <= m[n] + weight(cs[n])
          BY <4>4, <4>5
        <4> QED
          BY <2>1, <3>1, <3>2, <4>6, Zenon
      <3> QED
        BY <3>3, <3>4, Zenon
    <2>4. ASSUME fr.th # mainthread
          PROVE  depth(cs, m) + weight(fr) > 0
      <3>1. CASE fr.f = "execute"
        <4>1. weight(fr) = fr.n /\ fr.n > 0
          BY <3>1, Zenon DEF weight
        <4> QED
          BY <1>1, <4>1
      <3>2. CASE fr.f # "execute"
        <4>1. cs # <<>> /\ n \in 1..n
          BY <1>1, <2>4 DEF top
        <4>2. cs[n].f # "resume" /\ cs[n].th # mainthread
          BY <2>4, <3>2, <4>1, Zenon DEF top
        <4>3. LevelOK(cs, S, m, n)
          BY <4>1, Zenon DEF LevelsBy
        <4>4. m[n] + weight(cs[n]) > 0
          BY <4>2, <4>3, Zenon DEF LevelOK
        <4>5. depth(cs, m) > 0
          BY <4>1, <4>4, Zenon DEF depth
        <4> QED
          BY <1>1, <4>5
      <3> QED
        BY <3>1, <3>2, Zenon
    <2> QED
      BY <2>1, <2>2, <2>3, <2>4 DEF LevelOK
  <1>6. \A i \in 1..Len(ds) : LevelOK(ds, S, m1, i)
    <2>1. \A i \in 1..n+1 : i \in 1..n \/ i = n + 1
      BY <1>1
    <2> QED
      BY <1>2, <1>4, <1>5, <2>1, Zenon
  <1>7. depth(ds, m1) = depth(cs, m) + weight(fr)
    BY <1>2, <1>3, Zenon DEF depth
  <1> QED
    BY <1>2, <1>3, <1>6, <1>7, Zenon DEF LevelsBy, ds, m1

\* the first frame of a coroutine that the running thread resumes
LEMMA LevelsResume ==
  ASSUME NEW cs, NEW S, Frames(cs, S), NEW m, LevelsBy(cs, S, m), cs # <<>>,
         NEW fr \in Frame, fr.f = "resume", fr.n = 0,
         \A i \in 1..Len(cs) : cs[i].th # fr.th,
         Len(S[top(cs)].ci) = depth(cs, m), S[top(cs)].ci # <<>>,
         NEW S1, \A th \in Thread : th # fr.th => S1[th].ci = S[th].ci
  PROVE  \E m1 : LevelsBy(Append(cs, fr), S1, m1) /\ depth(Append(cs, fr), m1) = 0
  <1> DEFINE n == Len(cs)
             ds == Append(cs, fr)
             m1 == [i \in 1..n+1 |-> IF i = n+1 THEN 0 ELSE m[i]]
  <1>1. /\ cs \in Seq(Frame) /\ n \in Nat /\ n \in 1..n
        /\ \A i \in 1..n : m[i] \in Nat /\ weight(cs[i]) \in Nat /\ cs[i].th \in Thread
    BY LevelType, FrameType DEF Frames
  <1>2. /\ ds \in Seq(Frame) /\ Len(ds) = n + 1 /\ ds # <<>> /\ top(ds) = fr.th
        /\ \A i \in 1..n : ds[i] = cs[i]
        /\ ds[n + 1] = fr
    BY <1>1, Pushed
  <1>3. /\ m1 \in [1..n+1 -> Nat] /\ m1[n+1] = 0 /\ \A i \in 1..n : m1[i] = m[i]
    BY <1>1
  <1>4. weight(fr) = 0 /\ top(cs) = cs[n].th
    BY Zenon DEF weight, top
  <1> HIDE DEF ds, m1
  <1>5. ASSUME NEW i \in 1..n
        PROVE  LevelOK(ds, S1, m1, i)
    <2>1. /\ LevelOK(cs, S, m, i) /\ ds[i] = cs[i] /\ m1[i] = m[i] /\ i \in Nat
          /\ S1[cs[i].th].ci = S[cs[i].th].ci
      BY <1>1, <1>2, <1>3 DEF LevelsBy
    <2>2. m1[i] = IF i = 1 \/ ds[i].f = "resume" THEN 0 ELSE m1[i-1] + weight(ds[i-1])
      <3>1. m[i] = IF i = 1 \/ cs[i].f = "resume" THEN 0 ELSE m[i-1] + weight(cs[i-1])
        BY <2>1, Zenon DEF LevelOK
      <3>2. CASE i = 1
        BY <2>1, <3>1, <3>2, Zenon
      <3>3. CASE i # 1
        <4>1. i - 1 \in 1..n
          BY <1>1, <3>3
        <4>2. ds[i-1] = cs[i-1] /\ m1[i-1] = m[i-1]
          BY <1>2, <1>3, <4>1, Zenon
        <4> QED
          BY <2>1, <3>1, <4>2, Zenon
      <3> QED
        BY <3>2, <3>3, Zenon
    <2>3. \A k \in 1..i-1 : ds[k].th = ds[i].th => m1[k] + weight(ds[k]) <= m1[i]
      <3>1. \A k \in 1..i-1 : ds[k] = cs[k] /\ m1[k] = m[k]
        BY <1>1, <1>2, <1>3
      <3> QED
        BY <2>1, <3>1, Zenon DEF LevelOK
    <2>4. ASSUME i < Len(ds), ds[i+1].f = "resume"
          PROVE  Len(S1[ds[i].th].ci) = m1[i] + weight(ds[i])
      <3>1. CASE i = n
        BY <1>4, <2>1, <3>1, Zenon DEF depth
      <3>2. CASE i # n
        <4>1. i < n /\ i + 1 \in 1..n
          BY <1>1, <3>2
        <4> QED
          BY <1>2, <2>1, <2>4, <4>1, Zenon DEF LevelOK
      <3> QED
        BY <3>1, <3>2, Zenon
    <2> QED
      BY <2>1, <2>2, <2>3, <2>4, Zenon DEF LevelOK
  <1>6. LevelOK(ds, S1, m1, n + 1)
    BY <1>1, <1>2, <1>3 DEF LevelOK
  <1> QED
    BY <1>1, <1>2, <1>3, <1>4, <1>5, <1>6 DEF ds, depth, LevelsBy

\* the running execute begins or ends a Gafq function
LEMMA LevelsCount ==
  ASSUME NEW cs, NEW S, Frames(cs, S), NEW m, LevelsBy(cs, S, m), cs # <<>>,
         cs[Len(cs)].f = "execute", NEW c \in Nat \ {0}
  PROVE  /\ LevelsBy(Counted(cs, c), S, m)
         /\ depth(Counted(cs, c), m) = m[Len(cs)] + c
         /\ depth(cs, m) = m[Len(cs)] + cs[Len(cs)].n
  <1> DEFINE n == Len(cs)
             ds == Counted(cs, c)
  <1>1. cs \in Seq(Frame) /\ n \in Nat /\ n \in 1..n /\ cs[n] \in Frame
    BY LevelType, FrameType DEF Frames
  <1>2. /\ Len(ds) = n /\ ds # <<>>
        /\ \A i \in 1..n : /\ ds[i].f = cs[i].f /\ ds[i].th = cs[i].th /\ ds[i].old = cs[i].old
                           /\ i # n => ds[i] = cs[i]
        /\ ds[n].n = c
    BY <1>1 DEF Counted, Frame
  <1> HIDE DEF ds
  <1>3. weight(ds[n]) = c /\ weight(cs[n]) = cs[n].n
    BY <1>1, <1>2, Zenon DEF weight
  <1>4. ASSUME NEW i \in 1..n
        PROVE  LevelOK(ds, S, m, i)
    <2>1. /\ LevelOK(cs, S, m, i) /\ i \in Nat
      BY <1>1 DEF LevelsBy
    <2>2. /\ IF ds[i].f = "execute" THEN ds[i].n > 0 ELSE ds[i].n = 0
          /\ ds[i].f = "pcall" => ds[i].old.ci = m[i]
          /\ ds[i].th # mainthread /\ ds[i].f # "resume" => m[i] + weight(ds[i]) > 0
      BY <1>1, <1>2, <1>3, <2>1 DEF LevelsBy, LevelOK
    <2> QED
      BY <1>1, <1>2, <2>1, <2>2 DEF LevelOK, top
  <1> QED
    BY <1>2, <1>3, <1>4, Zenon DEF LevelsBy, depth, ds

\* the fields that say which CallInfos a thread has
LEMMA HeldSame ==
  ASSUME NEW th, NEW r0, Held(th, r0), NEW r, r.ci = r0.ci, r.size_ci = r0.size_ci,
         r.status = r0.status
  PROVE  Held(th, r)
  BY Zenon DEF Held

\* only the number of CallInfos matters
LEMMA LeveledSame ==
  ASSUME NEW cs, NEW S, NEW r0, Leveled(cs, S, r0), NEW r, Len(r.ci) = Len(r0.ci), Held(top(cs), r)
  PROVE  Leveled(cs, S, r)
  BY Zenon DEF Leveled

\* a frame is pushed with the CallInfos of its function
LEMMA LeveledPush ==
  ASSUME NEW cs, NEW S, Frames(cs, S), NEW r0, Leveled(cs, S, r0),
         NEW fr \in Frame, fr.f # "resume", fr.th = top(cs),
         IF fr.f = "execute" THEN fr.n > 0 ELSE fr.n = 0,
         fr.f = "pcall" => fr.old.ci = Len(r0.ci),
         cs = <<>> => fr.f = "pcall",
         cs # <<>> /\ cs[Len(cs)].f = "resume" => fr.f = "execute",
         NEW r, Len(r.ci) = Len(r0.ci) + weight(fr), Held(top(cs), r)
  PROVE  Leveled(Append(cs, fr), S, r)
  <1>1. PICK m : LevelsBy(cs, S, m) /\ Len(r0.ci) = depth(cs, m)
    BY Zenon DEF Leveled
  <1> DEFINE m1 == [i \in 1..Len(cs)+1 |-> IF i = Len(cs)+1 THEN depth(cs, m) ELSE m[i]]
  <1>2. /\ LevelsBy(Append(cs, fr), S, m1)
        /\ depth(Append(cs, fr), m1) = depth(cs, m) + weight(fr)
    BY <1>1, LevelsPush
  <1> HIDE DEF m1
  <1> QED
    BY <1>1, <1>2, Pushed DEF Leveled, Frames

\* the frames below a frame
LEMMA FramesFront ==
  ASSUME NEW cs, NEW S, Frames(cs, S), cs # <<>>
  PROVE  Frames(Front(cs), S)
  <1>1. /\ Front(cs) \in Seq(Frame) /\ Len(Front(cs)) = Len(cs) - 1 /\ Len(cs) \in Nat
        /\ Agree(cs, Front(cs), Len(cs) - 1)
    BY Popped, Zenon DEF Frames
  <1> QED
    BY <1>1, FramesCut

\* a frame of the running thread is popped with its CallInfos
LEMMA LeveledPop ==
  ASSUME NEW cs, NEW S, Frames(cs, S), NEW r0, Leveled(cs, S, r0), Len(cs) > 1,
         cs[Len(cs)].f # "resume",
         NEW r, Len(r.ci) = Len(r0.ci) - weight(cs[Len(cs)]), Held(top(cs), r)
  PROVE  /\ Leveled(Front(cs), S, r) /\ top(Front(cs)) = top(cs) /\ Front(cs) # <<>>
         /\ Frames(Front(cs), S)
         /\ Len(Front(cs)) = Len(cs) - 1 /\ Front(cs)[Len(cs) - 1] = cs[Len(cs) - 1]
  <1> DEFINE n == Len(cs)
             ds == Front(cs)
  <1>1. PICK m : LevelsBy(cs, S, m) /\ Len(r0.ci) = depth(cs, m)
    BY Zenon DEF Leveled
  <1>2. cs \in Seq(Frame) /\ n \in Nat /\ n > 1
    BY DEF Frames
  <1>3. cs # <<>>
    BY <1>2
  <1>4. n \in 1..n /\ n - 1 \in 1..n-1 /\ n - 1 <= n /\ n - 1 < n /\ n # 1
    <2> HIDE DEF n
    <2> QED
      BY <1>2
  <1>5. /\ ds \in Seq(Frame) /\ Len(ds) = n - 1 /\ \A i \in 1..n-1 : ds[i] = cs[i]
        /\ ds # <<>> /\ top(ds) = cs[n-1].th
    BY <1>2, <1>3, Popped, Zenon
  <1>6. cs[n].th = cs[n-1].th
    <2>1. FrameOK(cs, S, n)
      BY <1>4, Zenon DEF Frames
    <2> QED
      BY <1>2, <2>1, Zenon DEF FrameOK
  <1>7. top(ds) = top(cs)
    BY <1>3, <1>5, <1>6, Zenon DEF top
  <1> DEFINE m1 == [i \in 1..Len(ds) |-> m[i]]
  <1>8. LevelsBy(ds, S, m1)
    <2>1. /\ Len(ds) <= Len(cs) /\ \A i \in 1..Len(ds) : ds[i] = cs[i]
          /\ \A th \in Thread : th # top(cs) => S[th].ci = S[th].ci
      BY <1>4, <1>5, Zenon
    <2> QED
      BY <1>1, <1>5, <1>7, <2>1, LevelsCut, Zenon
  <1>9. Len(r.ci) = depth(ds, m1)
    <2>1. LevelOK(cs, S, m, n)
      BY <1>1, <1>4, Zenon DEF LevelsBy
    <2>2. m[n] = m[n-1] + weight(cs[n-1])
      BY <1>4, <2>1, Zenon DEF LevelOK
    <2>3. depth(ds, m1) = m[n-1] + weight(cs[n-1])
      BY <1>4, <1>5, Zenon DEF depth
    <2>4. Len(r0.ci) = m[n] + weight(cs[n])
      BY <1>1, <1>3, Zenon DEF depth
    <2>5. m[n] \in Nat /\ weight(cs[n]) \in Nat
      BY <1>1, <1>2, <1>4, LevelType, Zenon
    <2> QED
      BY <2>2, <2>3, <2>4, <2>5
  <1>10. Leveled(ds, S, r)
    <2> HIDE DEF ds, m1
    <2> QED
      BY <1>7, <1>8, <1>9, Zenon DEF Leveled
  <1>11. Frames(ds, S)
    BY <1>3, FramesFront, Zenon
  <1> QED
    BY <1>4, <1>5, <1>7, <1>10, <1>11, Zenon

\* the running execute has c functions
LEMMA LeveledCount ==
  ASSUME NEW cs, NEW S, Frames(cs, S), NEW r0, Leveled(cs, S, r0), cs # <<>>,
         cs[Len(cs)].f = "execute", NEW c \in Nat \ {0},
         NEW r, Len(r.ci) = Len(r0.ci) - cs[Len(cs)].n + c, Held(top(cs), r)
  PROVE  Leveled(Counted(cs, c), S, r)
  <1>1. PICK m : LevelsBy(cs, S, m) /\ Len(r0.ci) = depth(cs, m)
    BY Zenon DEF Leveled
  <1>2. /\ LevelsBy(Counted(cs, c), S, m) /\ depth(Counted(cs, c), m) = m[Len(cs)] + c
        /\ depth(cs, m) = m[Len(cs)] + cs[Len(cs)].n
    BY <1>1, LevelsCount
  <1>3. Len(r.ci) = depth(Counted(cs, c), m)
    BY <1>1, <1>2, LevelType, FrameType DEF Frames
  <1> QED
    BY <1>2, <1>3, FrameType DEF Leveled, Frames, Frame, Counted, top

\* the record of the running thread is stored
LEMMA LeveledStored ==
  ASSUME NEW cs, NEW S, Frames(cs, S), NEW r, Leveled(cs, S, r)
  PROVE  LET S1 == [S EXCEPT ![top(cs)] = r] IN Leveled(cs, S1, S1[top(cs)])
  <1> DEFINE S1 == [S EXCEPT ![top(cs)] = r]
  <1>1. PICK m : LevelsBy(cs, S, m) /\ Len(r.ci) = depth(cs, m)
    BY Zenon DEF Leveled
  <1>2. cs \in Seq(Frame) /\ S \in [Thread -> ThreadState] /\ top(cs) \in Thread /\ Len(cs) \in Nat
    BY TopType DEF Frames
  <1>3. S1[top(cs)] = r /\ \A th \in Thread : th # top(cs) => S1[th].ci = S[th].ci
    BY <1>2, Zenon
  <1> HIDE DEF S1
  <1>4. LevelsBy(cs, S1, [i \in 1..Len(cs) |-> m[i]])
    BY <1>1, <1>2, <1>3, LevelsCut
  <1>5. [i \in 1..Len(cs) |-> m[i]] = m
    BY <1>1, Zenon DEF LevelsBy
  <1> QED
    BY <1>1, <1>3, <1>4, <1>5, Zenon DEF Leveled, S1

\* the count of a frame is not part of what Frames says
LEMMA FramesCount ==
  ASSUME NEW cs, NEW S, Frames(cs, S), cs # <<>>, NEW c \in Nat
  PROVE  /\ Frames(Counted(cs, c), S) /\ top(Counted(cs, c)) = top(cs)
         /\ Counted(cs, c) # <<>>
  <1> DEFINE n == Len(cs)
             ds == Counted(cs, c)
  <1>1. cs \in Seq(Frame) /\ n \in Nat /\ n \in 1..n /\ cs[n] \in Frame
    BY FrameType DEF Frames
  <1>2. ds = [cs EXCEPT ![n] = [cs[n] EXCEPT !.n = c]]
    BY Zenon DEF Counted
  <1>3. ds \in Seq(Frame) /\ Len(ds) = n
    BY <1>1, <1>2 DEF Frame
  <1>4. ds[n] = [cs[n] EXCEPT !.n = c] /\ \A i \in 1..n : i # n => ds[i] = cs[i]
    BY <1>1, <1>2
  <1>5. ds[n].f = cs[n].f /\ ds[n].th = cs[n].th /\ ds[n].old = cs[n].old
    BY <1>1, <1>4, Zenon DEF Frame
  <1> HIDE DEF ds
  <1>6. Agree(cs, ds, n)
    BY <1>4, <1>5, Zenon DEF Agree
  <1> QED
    BY <1>1, <1>3, <1>5, <1>6, FramesCut DEF ds, top

\* an operation after which the same thread runs
LEMMA LeveledFits ==
  ASSUME NEW cs, NEW S, NEW r, NEW s, s.cs = cs, s.r = r, Frames(cs, S), Leveled(cs, S, r)
  PROVE  LFits(s, S, top(cs))
  BY LeveledStored DEF Leveled, LFits

\* the CallInfos after gafqD_precall
LEMMA PrecallHeld ==
  ASSUME NEW cs, NEW r \in ThreadState, NEW kind \in Kind, NEW th, Held(th, r),
         th # mainthread /\ r.ci = <<>> => kind = "G", r.status = "ok"
  PROVE  LET s == precall(cs, r, kind)
         IN  /\ Held(th, s.r)
             /\ s.r.ci = IF s.err = "none" THEN Append(r.ci, kind) ELSE r.ci
  <1> DEFINE g == inc_ci(r)
             r1 == [r EXCEPT !.size_ci = g.size_ci]
             r2 == [r1 EXCEPT !.ci = Append(@, kind)]
  <1>1. /\ r.size_ci \in Nat /\ r.ci \in Seq(Kind) /\ Len(r.ci) \in Nat
        /\ Len(r.ci) < r.size_ci
    BY DEF ThreadState, Held
  <1>2. /\ Len(r.ci) < g.size_ci
        /\ g.err = "none" => Len(r.ci) + 1 < g.size_ci
    BY <1>1 DEF inc_ci
  <1> HIDE DEF g
  <1>3. r1.ci = r.ci /\ r1.size_ci = g.size_ci /\ r1.status = "ok"
    BY Zenon DEF ThreadState
  <1>4. r2.ci = Append(r.ci, kind) /\ r2.size_ci = g.size_ci /\ r2.status = "ok"
    BY Zenon DEF ThreadState
  <1> HIDE DEF r1, r2
  <1>5. CASE g.err # "none"
    <2>1. precall(cs, r, kind).r = r1 /\ precall(cs, r, kind).err = g.err
      BY <1>5, Zenon DEF raise, precall, g, r1
    <2> QED
      BY <1>2, <1>3, <1>5, <2>1, Zenon DEF Held
  <1>6. CASE g.err = "none"
    <2>1. precall(cs, r, kind).r = r2 /\ precall(cs, r, kind).err = "none"
      BY <1>6, Zenon DEF precall, g, r1, r2, done
    <2> QED
      BY <1>1, <1>2, <1>4, <1>6, <2>1 DEF Held
  <1> QED
    BY <1>5, <1>6, Zenon

\* a coroutine that runs has CallInfos
LEMMA CoroutineRuns ==
  ASSUME NEW cs, NEW S, Frames(cs, S), NEW r \in ThreadState, Leveled(cs, S, r),
         top(cs) # mainthread, cs # <<>>, cs[Len(cs)].f # "resume"
  PROVE  r.ci # <<>>
  BY DEF Leveled, Frames, LevelsBy, LevelOK, depth, top

\* gafqD_precall adds a CallInfo with the frame of its function, or neither
LEMMA PrecallLeveled ==
  ASSUME NEW cs, NEW S, Frames(cs, S), NEW r \in ThreadState, Leveled(cs, S, r), cs # <<>>,
         NEW kind \in Kind, r.status = "ok",
         cs[Len(cs)].f \in {"execute", "call", "resume"},
         kind = "C" => cs[Len(cs)].f # "resume"
  PROVE  LFits(precall(cs, r, kind), S, top(cs))
  <1> DEFINE s == precall(cs, r, kind)
             th == top(cs)
  <1>1. Held(th, s.r) /\ s.r.ci = IF s.err = "none" THEN Append(r.ci, kind) ELSE r.ci
    BY PrecallHeld, CoroutineRuns DEF Kind, Leveled
  <1>2. /\ Same(s.r, r) /\ s.r.nCcalls = r.nCcalls /\ s.r.errorJmp = r.errorJmp
        /\ s.r.allowhook = r.allowhook /\ s.r.errfunc = r.errfunc
        /\ s.err \in {"none", "runerror", "ERRERR"}
        /\ s.err # "none" => s.cs = cs
        /\ s.err = "none" =>
             s.cs = IF kind = "C" THEN Append(cs, frame("cfun", Last(cs).th))
                    ELSE IF Last(cs).f = "execute" THEN [cs EXCEPT ![Len(cs)].n = @ + 1]
                    ELSE Append(cs, [frame("execute", Last(cs).th) EXCEPT !.n = 1])
    BY PrecallRecord, Zenon
  <1>3. /\ cs \in Seq(Frame) /\ Len(cs) \in 1..Len(cs) /\ Last(cs) = cs[Len(cs)]
        /\ Last(cs).th = th /\ th \in Thread /\ r.ci \in Seq(Kind)
    BY TopType DEF Frames, Last, top, ThreadState
  <1>4. s.err = "none" => Len(s.r.ci) = Len(r.ci) + 1 /\ Len(r.ci) \in Nat
    BY <1>1, <1>3
  <1> HIDE DEF s
  <1>5. CASE s.err # "none"
    <2>1. Leveled(cs, S, s.r)
      BY <1>1, <1>5, LeveledSame, Zenon
    <2> QED
      BY <1>2, <1>5, <2>1, LeveledFits, Zenon DEF s
  <1>6. CASE s.err = "none" /\ kind = "C"
    <2> DEFINE fr == frame("cfun", th)
    <2>1. fr \in Frame /\ fr.f = "cfun" /\ fr.th = th /\ fr.n = 0
      BY <1>3, NewFrame, Zenon DEF FName
    <2>2. s.cs = Append(cs, fr)
      BY <1>2, <1>3, <1>6, Zenon
    <2> HIDE DEF fr
    <2>3. Leveled(Append(cs, fr), S, s.r)
      BY <1>1, <1>4, <1>6, <2>1, LeveledPush, Zenon DEF weight
    <2>4. MayCall(cs[Len(cs)].f, fr.f)
      BY <1>6, <2>1, Zenon DEF MayCall
    <2>5. Frames(Append(cs, fr), S) /\ top(Append(cs, fr)) = th
      BY <1>3, <2>1, <2>4, FramesPush, Pushed, Zenon
    <2> QED
      BY <2>2, <2>3, <2>5, LeveledFits, Zenon DEF s
  <1>7. CASE s.err = "none" /\ kind # "C" /\ cs[Len(cs)].f = "execute"
    <2> DEFINE c == cs[Len(cs)].n + 1
    <2>1. cs[Len(cs)].n \in Nat /\ c \in Nat \ {0}
      BY <1>3, FrameType
    <2>2. s.cs = Counted(cs, c)
      BY <1>2, <1>3, <1>7, Zenon DEF Counted
    <2>3. Len(s.r.ci) = Len(r.ci) - cs[Len(cs)].n + c
      BY <1>4, <1>7, <2>1
    <2> HIDE DEF c
    <2>4. Leveled(Counted(cs, c), S, s.r)
      BY <1>1, <1>7, <2>1, <2>3, LeveledCount, Zenon
    <2>5. Frames(Counted(cs, c), S) /\ top(Counted(cs, c)) = th
      BY <1>7, <2>1, FramesCount, Zenon
    <2> QED
      BY <2>2, <2>4, <2>5, LeveledFits, Zenon DEF s
  <1>8. CASE s.err = "none" /\ kind # "C" /\ cs[Len(cs)].f # "execute"
    <2> DEFINE fr == [frame("execute", th) EXCEPT !.n = 1]
    <2>1. fr \in Frame /\ fr.f = "execute" /\ fr.th = th /\ fr.n = 1
      BY <1>3, NewExecute, 1 \in Nat, Zenon
    <2>2. s.cs = Append(cs, fr)
      BY <1>2, <1>3, <1>8, Zenon
    <2> HIDE DEF fr
    <2>3. Leveled(Append(cs, fr), S, s.r)
      BY <1>1, <1>4, <1>8, <2>1, LeveledPush DEF weight
    <2>4. MayCall(cs[Len(cs)].f, fr.f)
      BY <1>8, <2>1, Zenon DEF MayCall
    <2>5. Frames(Append(cs, fr), S) /\ top(Append(cs, fr)) = th
      BY <1>3, <2>1, <2>4, FramesPush, Pushed, Zenon
    <2> QED
      BY <2>2, <2>3, <2>5, LeveledFits, Zenon DEF s
  <1> QED
    BY <1>5, <1>6, <1>7, <1>8, Zenon

\* gafqD_call
LEMMA CallLeveled ==
  ASSUME NEW cs, NEW S, Frames(cs, S), NEW r \in ThreadState, Leveled(cs, S, r), cs # <<>>,
         NEW kind \in Kind, r.status = "ok",
         cs[Len(cs)].f \in {"execute", "cfun", "hook", "pcall", "errormsg"}
  PROVE  LFits(call(cs, r, kind, top(cs)), S, top(cs))
  <1> DEFINE th == top(cs)
             fr == frame("call", th)
             cs1 == Append(cs, fr)
             r1 == [r EXCEPT !.nCcalls = @ + 1]
             s == call(cs, r, kind, th)
  <1>1. cs \in Seq(Frame) /\ th \in Thread
    BY TopType, Zenon DEF Frames
  <1>2. fr \in Frame /\ fr.f = "call" /\ fr.th = th /\ fr.n = 0
    BY <1>1, NewFrame, Zenon DEF FName
  <1>3. r1 \in ThreadState /\ r1.ci = r.ci /\ r1.size_ci = r.size_ci /\ r1.status = r.status
    BY DEF ThreadState
  <1>4. s = IF r1.nCcalls = MAXCCALLS THEN raise(cs1, r1, "runerror")
            ELSE IF r1.nCcalls >= MAXCCALLS + EXTRA_CCALLS THEN raise(cs1, r1, "ERRERR")
            ELSE precall(cs1, r1, kind)
    BY Zenon DEF call
  <1> HIDE DEF fr, r1, s
  <1>5. Leveled(cs1, S, r1)
    BY <1>2, <1>3, LeveledPush, HeldSame DEF ThreadState, weight, Leveled
  <1>6. MayCall(cs[Len(cs)].f, fr.f)
    BY <1>2, Zenon DEF MayCall
  <1>7. Frames(cs1, S)
    BY <1>2, <1>6, FramesPush, Zenon
  <1>8. top(cs1) = th /\ cs1 # <<>> /\ cs1[Len(cs1)].f = "call"
    BY <1>1, <1>2, Pushed, Zenon
  <1> HIDE DEF cs1
  <1>9. ASSUME NEW err
        PROVE  LFits(raise(cs1, r1, err), S, th)
    BY <1>5, <1>7, <1>8, LeveledFits, Zenon DEF raise
  <1> QED
    BY <1>3, <1>4, <1>5, <1>7, <1>8, <1>9, PrecallLeveled, Zenon DEF s

\* gafqD_pcall, which saves the number of CallInfos
LEMMA PcallLeveled ==
  ASSUME NEW cs, NEW S, Frames(cs, S), NEW r \in ThreadState, Leveled(cs, S, r),
         NEW kind \in Kind, NEW handler \in ErrFunc, r.status = "ok",
         At(cs, Len(cs), r),
         cs # <<>> => cs[Len(cs)].f \in {"cfun", "hook"}
  PROVE  LFits(pcall(cs, r, kind, handler, top(cs)), S, top(cs))
  <1> DEFINE th == top(cs)
             fr == recovery("pcall", th, r)
             cs1 == Append(cs, fr)
             r0 == [r EXCEPT !.errorJmp = Len(cs) + 1]
             r1 == [r0 EXCEPT !.errfunc = handler]
  <1>1. cs \in Seq(Frame) /\ th \in Thread /\ Len(cs) \in Nat
    BY TopType, SMTT(40) DEF Frames
  <1>2. /\ fr \in Frame /\ fr.f = "pcall" /\ fr.th = th /\ fr.n = 0 /\ fr.old.ci = Len(r.ci)
        /\ fr.old.nCcalls = r.nCcalls /\ fr.old.errorJmp = r.errorJmp
        /\ fr.old.allowhook = r.allowhook /\ fr.old.errfunc = r.errfunc
    BY <1>1, RecoveryFrame DEF FName
  <1>3. r0 \in ThreadState /\ r0.ci = r.ci /\ r0.size_ci = r.size_ci /\ r0.status = r.status
    BY <1>1 DEF ThreadState
  <1>4. pcall(cs, r, kind, handler, th) = call(cs1, r1, kind, th)
    BY Zenon DEF pcall
  <1> HIDE DEF r0
  <1>5. r1 \in ThreadState /\ r1.ci = r.ci /\ r1.size_ci = r.size_ci /\ r1.status = r.status
    BY <1>3, Zenon DEF ThreadState
  <1> HIDE DEF fr, r1
  <1>6. Leveled(cs1, S, r1)
    BY <1>2, <1>5, LeveledPush, HeldSame DEF ThreadState, weight, Leveled
  <1>7. Frames(cs1, S)
    <2>1. cs # <<>> => MayCall(cs[Len(cs)].f, fr.f)
      BY <1>2, Zenon DEF MayCall
    <2> QED
      BY <1>2, <2>1, FramesPush, Zenon DEF At, Handled
  <1>8. top(cs1) = th /\ cs1 # <<>> /\ cs1[Len(cs1)].f = "pcall"
    BY <1>1, <1>2, Pushed
  <1> HIDE DEF cs1
  <1> QED
    BY <1>4, <1>5, <1>6, <1>7, <1>8, CallLeveled, Zenon

\* gafq_resume ends: the thread that called it has the CallInfos of its frames
LEMMA ResumeEndsLeveled ==
  ASSUME NEW cs, NEW S, Frames(cs, S), NEW m, LevelsBy(cs, S, m), NEW j \in 1..Len(cs),
         cs[j].f = "resume", cs[j].th = top(cs), \A th \in Thread : Held(th, S[th]),
         NEW r
  PROVE  LET S1 == [S EXCEPT ![cs[j].th] = r]
             ds == SubSeq(cs, 1, j - 1)
         IN  Leveled(ds, S1, S1[top(ds)])
  <1> DEFINE S1 == [S EXCEPT ![cs[j].th] = r]
             ds == SubSeq(cs, 1, j - 1)
  <1>1. /\ cs \in Seq(Frame) /\ Len(cs) \in Nat /\ S \in [Thread -> ThreadState]
        /\ j \in Nat /\ FrameOK(cs, S, j) /\ top(cs) \in Thread
    BY TopType, SMTT(40) DEF Frames
  <1>2. j # 1 /\ j - 1 \in 0..Len(cs) /\ j - 1 \in 1..j-1 /\ j - 1 < Len(cs) /\ j - 1 + 1 = j
    BY <1>1 DEF FrameOK
  <1>3. ds \in Seq(Frame) /\ Len(ds) = j - 1 /\ \A i \in 1..j-1 : ds[i] = cs[i]
    BY <1>1, <1>2, Prefix, Zenon
  <1> HIDE DEF ds
  <1>4. ds # <<>> /\ top(ds) = cs[j-1].th
    BY <1>2, <1>3 DEF top
  <1>5. cs[j-1].th # cs[j].th /\ cs[j-1].th \in Thread
    BY <1>1, <1>2, FrameType DEF FrameOK
  <1>6. S1[cs[j-1].th] = S[cs[j-1].th] /\ \A th \in Thread : th # top(cs) => S1[th].ci = S[th].ci
    BY <1>1, <1>5, Zenon
  <1> HIDE DEF S1
  <1> DEFINE m1 == [i \in 1..Len(ds) |-> m[i]]
  <1>7. LevelsBy(ds, S1, m1)
    <2>1. Len(ds) <= Len(cs) /\ Len(ds) < Len(cs) /\ cs[Len(ds) + 1].f = "resume"
      BY <1>1, <1>2, <1>3
    <2> QED
      BY <1>3, <1>6, <2>1, LevelsCut
  <1>8. Len(S[cs[j-1].th].ci) = m[j-1] + weight(cs[j-1])
    BY <1>1, <1>2 DEF LevelsBy, LevelOK
  <1> QED
    BY <1>2, <1>3, <1>4, <1>5, <1>6, <1>7, <1>8 DEF S1, ds, Leveled, depth

\* a protected call knows the CallInfos below it
LEMMA PcallLevel ==
  ASSUME NEW cs, NEW S, Frames(cs, S), NEW m, LevelsBy(cs, S, m), NEW j \in 1..Len(cs),
         cs[j].f = "pcall", cs[j].th = top(cs)
  PROVE  cs[j].old.ci = m[j] /\ m[j] \in Nat /\ m[j] <= depth(cs, m)
  <1> DEFINE n == Len(cs)
  <1>1. cs \in Seq(Frame) /\ n \in Nat /\ n \in 1..n /\ j \in Nat
    BY DEF Frames
  <1>2. /\ m[j] \in Nat /\ m[n] \in Nat /\ weight(cs[j]) \in Nat /\ weight(cs[n]) \in Nat
    BY <1>1, LevelType, Zenon
  <1>3. LevelOK(cs, S, m, j) /\ LevelOK(cs, S, m, n)
    BY <1>1, Zenon DEF LevelsBy
  <1>4. cs[j].old.ci = m[j]
    BY <1>3, Zenon DEF LevelOK
  <1>5. depth(cs, m) = m[n] + weight(cs[n]) /\ cs[j].th = cs[n].th
    BY <1>1 DEF depth, top
  <1>6. CASE j = n
    BY <1>2, <1>4, <1>5, <1>6
  <1>7. CASE j # n
    <2>1. m[j] + weight(cs[j]) <= m[n]
      BY <1>1, <1>3, <1>5, <1>7 DEF LevelOK
    <2> QED
      BY <1>2, <1>4, <1>5, <2>1
  <1> QED
    BY <1>6, <1>7, Zenon

\* gafqD_pcall ends, with the CallInfos it began with
LEMMA PcallEndsLeveled ==
  ASSUME NEW cs, NEW S, Frames(cs, S), NEW m, LevelsBy(cs, S, m), NEW j \in 1..Len(cs),
         cs[j].f = "pcall", cs[j].th = top(cs), NEW r, Len(r.ci) = cs[j].old.ci,
         Held(top(cs), r)
  PROVE  LET S1 == [S EXCEPT ![cs[j].th] = r]
             ds == SubSeq(cs, 1, j - 1)
         IN  Leveled(ds, S1, S1[top(ds)])
  <1> DEFINE S1 == [S EXCEPT ![cs[j].th] = r]
             ds == SubSeq(cs, 1, j - 1)
  <1>1. /\ cs \in Seq(Frame) /\ Len(cs) \in Nat /\ S \in [Thread -> ThreadState]
        /\ j \in Nat /\ FrameOK(cs, S, j) /\ top(cs) \in Thread
    BY TopType, SMTT(40) DEF Frames
  <1>2. j - 1 \in 0..Len(cs) /\ j - 1 <= Len(cs)
    BY <1>1
  <1>3. ds \in Seq(Frame) /\ Len(ds) = j - 1 /\ \A i \in 1..j-1 : ds[i] = cs[i]
    BY <1>1, <1>2, Prefix, Zenon
  <1> HIDE DEF ds
  <1>4. S1[top(cs)] = r /\ \A th \in Thread : th # top(cs) => S1[th].ci = S[th].ci
    BY <1>1, Zenon
  <1> HIDE DEF S1
  <1> DEFINE m1 == [i \in 1..Len(ds) |-> m[i]]
  <1>5. m[j] = cs[j].old.ci /\ LevelOK(cs, S, m, j)
    BY PcallLevel DEF LevelsBy
  <1>6. top(ds) = top(cs) /\ depth(ds, m1) = m[j]
    BY <1>1, <1>3, <1>5 DEF FrameOK, LevelOK, top, depth
  <1>7. LevelsBy(ds, S1, m1)
    BY <1>2, <1>3, <1>4, <1>6, LevelsCut
  <1>8. Leveled(ds, S1, S1[top(ds)])
    BY <1>4, <1>5, <1>6, <1>7, Zenon DEF Leveled
  <1> QED
    BY <1>8, Zenon DEF S1, ds

\* a coroutine returns or yields to the resume that called it
LEMMA ReturnResumeLeveled ==
  ASSUME NEW cs, NEW S, Frames(cs, S), NEW m, LevelsBy(cs, S, m), cs # <<>>,
         cs[Len(cs)].f = "resume", \A th \in Thread : Held(th, S[th]),
         NEW r \in ThreadState, Held(top(cs), r)
  PROVE  LFits(returnto(cs, r), S, top(cs))
  <1> DEFINE e == Last(cs).old.errorJmp
             r0 == [r EXCEPT !.nCcalls = @ - 1]
             r1 == [r0 EXCEPT !.errorJmp = e]
  <1>1. Len(cs) \in 1..Len(cs) /\ Last(cs) = cs[Len(cs)] /\ top(cs) = cs[Len(cs)].th
    BY DEF Frames, Last, top
  <1>2. returnto(cs, r) = done(Front(cs), r1)
    BY <1>1, Zenon DEF returnto
  <1> HIDE DEF e
  <1>3. r0 \in ThreadState /\ r0.ci = r.ci /\ r0.size_ci = r.size_ci /\ r0.status = r.status
    BY DEF ThreadState
  <1> HIDE DEF r0
  <1>4. r1.ci = r.ci /\ r1.size_ci = r.size_ci /\ r1.status = r.status
    BY <1>3, Zenon DEF ThreadState
  <1> HIDE DEF r1
  <1>5. Held(top(cs), r1)
    BY <1>4, HeldSame, Zenon
  <1> DEFINE S1 == [S EXCEPT ![cs[Len(cs)].th] = r1]
             ds == SubSeq(cs, 1, Len(cs) - 1)
  <1>6. Leveled(ds, S1, S1[top(ds)])
    BY <1>1, ResumeEndsLeveled, Zenon
  <1>7. ds = Front(cs)
    BY Zenon DEF Front
  <1>8. done(Front(cs), r1).cs = Front(cs) /\ done(Front(cs), r1).r = r1
    BY Zenon DEF done
  <1> QED
    BY <1>1, <1>2, <1>5, <1>6, <1>7, <1>8, Zenon DEF LFits

\* the frames of protected calls that an operation leaves, and what it restores
Restores(cs, s, S) ==
  \A i \in 1..Len(cs) :
    cs[i].f = "pcall" /\ Len(s.cs) < i =>
      /\ cs[i].th = top(cs) /\ s.r.errfunc = cs[i].old.errfunc
      /\ s.r.allowhook = cs[i].old.allowhook /\ s.r.nCcalls = cs[i].old.nCcalls
      /\ Len(s.r.ci) = cs[i].old.ci

\* a function returns to an execute or to gafqD_call
LEMMA ReturnLeveled ==
  ASSUME NEW cs, NEW S, NEW r, Runs(cs, S, r), Leveled(cs, S, r), cs # <<>>,
         cs[Len(cs)].f \in {"execute", "call"}
  PROVE  LFits(returnto(cs, r), S, top(cs)) /\ Restores(cs, returnto(cs, r), S)
  <1> DEFINE below == Front(cs)
             r1 == [r EXCEPT !.nCcalls = @ - 1]
             old == Last(below).old
             n == Len(cs)
  <1>1. /\ cs \in Seq(Frame) /\ n \in Nat /\ top(cs) \in Thread /\ r \in ThreadState
        /\ Last(cs) = cs[n] /\ Frames(cs, S) /\ r.status = "ok" /\ Held(top(cs), r)
        /\ n \in 1..n /\ At(cs, n, r) /\ r.nCcalls = Calls(cs, n) /\ Calls(cs, n) \in Nat
    BY RunsCalls, SMTT(40) DEF Runs, Last, Leveled
  <1>2. CASE cs[n].f = "execute"
    <2>1. returnto(cs, r) = done(cs, r)
      BY <1>1, <1>2, Zenon DEF returnto
    <2>2. done(cs, r).cs = cs /\ done(cs, r).r = r
      BY Zenon DEF done
    <2>3. LFits(done(cs, r), S, top(cs))
      BY <1>1, <2>2, LeveledFits, Zenon
    <2>4. Restores(cs, done(cs, r), S)
      BY <1>1, <2>2 DEF Restores
    <2> QED
      BY <2>1, <2>3, <2>4, Zenon
  <1>3. CASE cs[n].f = "call"
    <2>1. /\ r1 \in ThreadState /\ r1.ci = r.ci /\ r1.size_ci = r.size_ci /\ r1.status = r.status
          /\ r1.nCcalls = r.nCcalls - 1 /\ r1.errorJmp = r.errorJmp /\ r1.errfunc = r.errfunc
          /\ r1.allowhook = r.allowhook /\ r.allowhook \in BOOLEAN /\ Same(r1, r)
      <3>1. r \in ThreadState
        BY <1>1, Zenon
      <3> QED
        BY <3>1 DEF ThreadState, Same
    <2> HIDE DEF r1
    <2>2. Held(top(cs), r1) /\ Len(r1.ci) = Len(r.ci) /\ Len(r.ci) \in Nat
      BY <1>1, <2>1, HeldSame DEF ThreadState
    <2>3. FrameOK(cs, S, n) /\ n # 1 /\ n > 1
      <3>1. FrameOK(cs, S, n)
        BY <1>1, Zenon DEF Frames
      <3>2. n # 1
        BY <1>3, <3>1, Zenon DEF FrameOK
      <3>3. n > 1
        <4> HIDE DEF n
        <4> QED
          BY <1>1, <3>2
      <3> QED
        BY <3>1, <3>2, <3>3, Zenon
    <2>4. weight(cs[n]) = 0
      <3>1. \E m : LevelsBy(cs, S, m)
        BY Zenon DEF Leveled
      <3>2. cs[n].n = 0
        BY <1>1, <1>3, <3>1, Zenon DEF LevelsBy, LevelOK
      <3> QED
        BY <1>3, <3>2, Zenon DEF weight
    <2>5. /\ Leveled(below, S, r1) /\ top(below) = top(cs) /\ below # <<>> /\ Frames(below, S)
          /\ Len(below) = n - 1 /\ below[n - 1] = cs[n - 1]
      <3>1. Len(r1.ci) = Len(r.ci) - weight(cs[n])
        BY <2>2, <2>4
      <3> QED
        BY <1>1, <1>3, <2>2, <2>3, <3>1, LeveledPop, Zenon
    <2>6. cs[n - 1].f \in {"execute", "cfun", "hook", "pcall", "errormsg"}
      <3>1. MayCall(cs[n-1].f, "call")
        BY <1>3, <2>3, Zenon DEF FrameOK
      <3> QED
        BY <3>1, Zenon DEF MayCall
    <2> HIDE DEF below
    <2>7. /\ below \in Seq(Frame) /\ Len(below) \in Nat \ {0} /\ Len(below) \in 1..Len(below)
          /\ Last(below) = below[Len(below)] /\ Last(below).f = cs[n - 1].f
      BY <1>1, <2>3, <2>5 DEF Frames, Last
    <2>8. CASE cs[n - 1].f \in {"execute", "cfun", "hook"}
      <3>1. returnto(cs, r) = done(below, r1)
        BY <1>1, <1>3, <2>7, <2>8, Zenon DEF returnto, below, r1
      <3>2. done(below, r1).cs = below /\ done(below, r1).r = r1
        BY Zenon DEF done
      <3>3. LFits(done(below, r1), S, top(cs))
        BY <2>5, <3>2, LeveledFits, Zenon
      <3>4. Restores(cs, done(below, r1), S)
        <4>1. \A i \in 1..n : n - 1 < i => i = n
          BY <1>1
        <4> QED
          BY <1>3, <2>5, <3>2, <4>1, Zenon DEF Restores
      <3> QED
        BY <3>1, <3>3, <3>4, Zenon
    <2>9. CASE cs[n - 1].f = "errormsg"
      <3>1. returnto(cs, r) = raise(Front(below), r1, "ERRRUN")
        BY <1>1, <1>3, <2>7, <2>9, Zenon DEF returnto, below, r1
      <3>2. raise(Front(below), r1, "ERRRUN").cs = Front(below) /\ raise(Front(below), r1, "ERRRUN").r = r1
        BY Zenon DEF raise
      <3>3. FrameOK(below, S, Len(below)) /\ below[Len(below)].f = "errormsg"
        BY <2>5, <2>7, <2>9, Zenon DEF Frames
      <3>4. Len(below) # 1 /\ Len(below) > 1
        <4>1. Len(below) # 1
          BY <3>3, Zenon DEF FrameOK
        <4> DEFINE k == Len(below)
        <4>2. k \in Nat /\ k # 0 /\ k # 1
          BY <2>7, <4>1, Zenon
        <4> HIDE DEF k
        <4>3. k # 1 /\ k > 1
          BY <4>2
        <4> QED
          BY <4>3, Zenon DEF k
      <3>5. weight(below[Len(below)]) = 0
        <4>1. \E m : LevelsBy(below, S, m)
          BY <2>5, Zenon DEF Leveled
        <4>2. below[Len(below)].n = 0
          BY <2>7, <3>3, <4>1, Zenon DEF LevelsBy, LevelOK
        <4> QED
          BY <3>3, <4>2, Zenon DEF weight
      <3>6. /\ Leveled(Front(below), S, r1) /\ top(Front(below)) = top(below)
            /\ Frames(Front(below), S) /\ Len(Front(below)) = Len(below) - 1
        <4>1. Len(r1.ci) = Len(r1.ci) - weight(below[Len(below)])
          BY <2>2, <3>5
        <4> QED
          BY <2>2, <2>5, <3>3, <3>4, <4>1, LeveledPop, Zenon
      <3>7. LFits(raise(Front(below), r1, "ERRRUN"), S, top(cs))
        BY <2>5, <3>2, <3>6, LeveledFits, Zenon
      <3>8. Restores(cs, raise(Front(below), r1, "ERRRUN"), S)
        <4>1. \A i \in 1..n : n - 1 - 1 < i => i = n \/ i = n - 1
          BY <1>1
        <4> QED
          BY <1>3, <2>5, <2>9, <3>2, <3>6, <4>1, Zenon DEF Restores
      <3> QED
        BY <3>1, <3>7, <3>8, Zenon
    <2>10. CASE cs[n - 1].f = "pcall"
      <3> DEFINE r0 == [r1 EXCEPT !.errorJmp = old.errorJmp]
                 r2 == [r0 EXCEPT !.errfunc = old.errfunc]
                 j == Len(below)
      <3>1. returnto(cs, r) = done(Front(below), r2)
        BY <1>1, <1>3, <2>7, <2>10, Zenon DEF returnto, below, r1
      <3>2. below[j].f = "pcall" /\ below[j].th = top(below) /\ old = below[j].old /\ old \in Old
        BY <2>5, <2>7, <2>10, FrameType, Zenon DEF top
      <3>3. old.errorJmp \in Nat /\ old.errfunc \in ErrFunc
        BY <3>2, Zenon DEF Old
      <3> HIDE DEF old
      <3>4. /\ r0 \in ThreadState /\ r0.ci = r1.ci /\ r0.size_ci = r1.size_ci
            /\ r0.status = r1.status /\ r0.nCcalls = r1.nCcalls /\ r0.allowhook = r1.allowhook
        BY <2>1, <3>3, Zenon DEF ThreadState
      <3> HIDE DEF r0
      <3>5. /\ r2.ci = r1.ci /\ r2.size_ci = r1.size_ci /\ r2.status = r1.status
            /\ r2.nCcalls = r1.nCcalls /\ r2.allowhook = r1.allowhook /\ r2.errfunc = old.errfunc
        BY <3>3, <3>4, Zenon DEF ThreadState
      <3> HIDE DEF r2
      <3>6. PICK m : LevelsBy(below, S, m) /\ Len(r1.ci) = depth(below, m)
        BY <2>5, Zenon DEF Leveled
      <3>7. Len(r2.ci) = old.ci
        <4>1. below[j].n = 0 /\ below[j].old.ci = m[j] /\ m[j] \in Nat
          BY <2>7, <3>2, <3>6, Zenon DEF LevelsBy, LevelOK
        <4>2. weight(below[j]) = 0
          BY <3>2, <4>1, Zenon DEF weight
        <4>3. depth(below, m) = m[j] + weight(below[j])
          BY <2>5, Zenon DEF depth
        <4> QED
          BY <3>2, <3>5, <3>6, <4>1, <4>2, <4>3
      <3>8. Held(top(below), r2)
        BY <2>2, <2>5, <3>5, HeldSame, Zenon
      <3>9. /\ Front(below) = SubSeq(below, 1, j - 1)
            /\ done(Front(below), r2).cs = Front(below) /\ done(Front(below), r2).r = r2
        BY Zenon DEF Front, done
      <3>10. LFits(done(Front(below), r2), S, top(cs))
        <4> DEFINE S1 == [S EXCEPT ![below[j].th] = r2]
                   ds == SubSeq(below, 1, j - 1)
        <4>1. Leveled(ds, S1, S1[top(ds)])
          BY <2>5, <2>7, <3>2, <3>6, <3>7, <3>8, PcallEndsLeveled, Zenon
        <4> QED
          BY <2>5, <3>2, <3>8, <3>9, <4>1, Zenon DEF LFits
      <3>11. r2.nCcalls = old.nCcalls /\ r2.allowhook = old.allowhook
        <4>1. Runs(below, S, r1)
          <5>1. cs[n].f \in CCall /\ cs[n].f \notin Point /\ cs[n].f # "hook"
            BY <1>3, Zenon DEF CCall, Point
          <5>2. r1.allowhook = (r.allowhook \/ cs[n].f = "hook")
            BY <2>1, <5>1, Zenon
          <5> QED
            BY <2>1, <5>1, <5>2, RunsPop, Zenon DEF below
        <4>2. At(below, j - 1, old) /\ At(below, j, r1)
          <5>1. FrameOK(below, S, j)
            BY <2>5, <2>7, Zenon DEF Frames
          <5> QED
            BY <3>2, <4>1, <5>1, Zenon DEF FrameOK, Runs
        <4>3. Calls(below, j) = Calls(below, j - 1)
          <5>1. j - 1 \in Nat /\ j - 1 + 1 = j /\ below[j].f \notin CCall
            BY <2>7, <3>2 DEF CCall
          <5> QED
            BY <5>1, CallsStep, Zenon
        <4>4. Unhooked(below, j) = Unhooked(below, j - 1)
          <5>1. FrameOK(below, S, j)
            BY <2>5, <2>7, Zenon DEF Frames
          <5>2. j > 1 => below[j].th = below[j-1].th
            BY <3>2, <5>1, Zenon DEF FrameOK
          <5>3. Unhooked(below, j) <=> Unhooked(below, j - 1)
            BY <2>7, <3>2, <5>2 DEF Unhooked
          <5>4. Unhooked(below, j) \in BOOLEAN /\ Unhooked(below, j-1) \in BOOLEAN
            BY Zenon DEF Unhooked
          <5> QED
            BY <5>3, <5>4
        <4> QED
          BY <3>5, <4>2, <4>3, <4>4, Zenon DEF At
      <3>12. Restores(cs, done(Front(below), r2), S)
        <4>1. Len(Front(below)) = n - 1 - 1
          <5>1. Len(Front(below)) = Len(below) - 1
            BY <2>5, <2>7, Popped, Zenon
          <5> QED
            BY <2>5, <5>1, Zenon
        <4>2. \A i \in 1..n : n - 1 - 1 < i => i = n \/ i = n - 1
          BY <1>1
        <4>3. cs[n-1] = below[j] /\ old = cs[n-1].old /\ cs[n-1].th = top(cs)
          BY <2>5, <3>2, Zenon
        <4> QED
          BY <1>3, <3>5, <3>7, <3>9, <3>11, <4>1, <4>2, <4>3, Zenon DEF Restores
      <3> QED
        BY <3>1, <3>10, <3>12, Zenon
    <2> QED
      BY <2>6, <2>8, <2>9, <2>10, Zenon
  <1> QED
    BY <1>2, <1>3, Zenon

\* the empty sequence is the one of length 0
LEMMA EmptyLen ==
  ASSUME NEW X, NEW s \in Seq(X)
  PROVE  s = <<>> <=> Len(s) = 0
  OBVIOUS

\* a thread that has no frame has no part in the levels
LEMMA LeveledOff ==
  ASSUME NEW cs, NEW S, NEW r, Leveled(cs, S, r), NEW co, \A i \in 1..Len(cs) : cs[i].th # co,
         NEW S1, \A th \in Thread : th # co => S1[th].ci = S[th].ci, Frames(cs, S)
  PROVE  Leveled(cs, S1, r)
  <1>1. PICK m : LevelsBy(cs, S, m) /\ Len(r.ci) = depth(cs, m)
    BY Zenon DEF Leveled
  <1>2. ASSUME NEW i \in 1..Len(cs)
        PROVE  LevelOK(cs, S1, m, i)
    BY <1>1, FrameType DEF Frames, LevelsBy, LevelOK
  <1> QED
    BY <1>1, <1>2, Zenon DEF Leveled, LevelsBy

\* the last CallInfo of a thread is left
LEMMA HeldPop ==
  ASSUME NEW th, NEW r0 \in ThreadState, Held(th, r0), r0.status = "ok", r0.ci # <<>>
  PROVE  LET r == [r0 EXCEPT !.ci = Front(@)]
         IN  Held(th, r) /\ Len(r.ci) = Len(r0.ci) - 1 /\ Len(r0.ci) \in Nat
  <1> DEFINE r == [r0 EXCEPT !.ci = Front(@)]
             k == Len(r0.ci)
  <1>1. r0.ci \in Seq(Kind) /\ r0.size_ci \in Nat /\ k \in Nat /\ k < r0.size_ci
    BY DEF ThreadState, Held
  <1>2. r.ci = SubSeq(r0.ci, 1, k - 1) /\ r.size_ci = r0.size_ci /\ r.status = "ok"
    BY Zenon DEF ThreadState, Front
  <1> HIDE DEF r
  <1>3. k - 1 \in 0..k
    BY <1>1
  <1>4. Len(r.ci) = k - 1 /\ \A i \in 1..k-1 : r.ci[i] = r0.ci[i]
    BY <1>1, <1>2, <1>3, Prefix, Zenon
  <1>5. ASSUME th # mainthread, r.ci # <<>>
        PROVE  r.ci[1] = "G"
    BY <1>1, <1>2, <1>3, <1>4, <1>5, Prefix, EmptyLen DEF Held
  <1> QED
    BY <1>1, <1>2, <1>4, <1>5 DEF r, Held

\* a set of naturals that is not empty has a least element
LEMMA LeastOf ==
  ASSUME NEW A, A \subseteq Nat, A # {}
  PROVE  \E x \in A : \A y \in A : ~(y < x)
  <1> DEFINE R == {ss \in Nat \X Nat : ss[1] < ss[2]}
  <1>1. IsWellFoundedOn(R, Nat)
    BY NatLessThanWellFounded, Zenon DEF OpToRel
  <1>2. \E x \in A : \A y \in A : ~(<<y, x>> \in R)
    <2> HIDE DEF R
    <2> QED
      BY <1>1, WFMin, Zenon
  <1>3. \A x, y \in Nat : y < x => <<y, x>> \in R
    BY Zenon
  <1> HIDE DEF R
  <1> QED
    BY <1>2, <1>3, Zenon

\* f[i] is the sum of the first i numbers of c
Sums(c, f, m) == f = [i \in 0..m |-> IF i = 0 THEN 0 ELSE f[i-1] + c[i]]

\* ... there is such a function
LEMMA SumsExist ==
  ASSUME NEW n \in Nat, NEW c
  PROVE  \E f : Sums(c, f, n)
  <1> DEFINE A == {m \in 0..n : ~ \E f : Sums(c, f, m)}
  <1>1. A = {}
    <2> SUFFICES ASSUME A # {} PROVE FALSE
      BY Zenon
    <2>1. PICK m \in A : \A y \in A : ~(y < m)
      <3>1. A \subseteq Nat
        OBVIOUS
      <3> HIDE DEF A
      <3> QED
        BY <3>1, LeastOf, Zenon
    <2>2. m \in 0..n /\ m \in Nat
      OBVIOUS
    <2>3. CASE m = 0
      <3> DEFINE r == [i \in 0..0 |-> 0]
      <3>1. Sums(c, r, 0)
        BY DEF Sums
      <3> HIDE DEF r
      <3> QED
        BY <2>3, <3>1, Zenon
    <2>4. CASE m # 0
      <3>1. m - 1 \in 0..n /\ m - 1 \in Nat /\ m - 1 < m
        BY <2>2, <2>4
      <3>2. PICK p : Sums(c, p, m - 1)
        BY <2>1, <3>1, Zenon
      <3> DEFINE r == [i \in 0..m |-> IF i < m THEN p[i] ELSE p[m-1] + c[m]]
      <3>3. \A i \in 0..m : r[i] = IF i = 0 THEN 0 ELSE r[i-1] + c[i]
        BY <2>2, <2>4, <3>1, <3>2 DEF Sums
      <3>4. r = [i \in 0..m |-> r[i]]
        BY Zenon
      <3> HIDE DEF r
      <3>5. Sums(c, r, m)
        BY <3>3, <3>4, Zenon DEF Sums
      <3> QED
        BY <2>1, <3>5, Zenon
    <2> QED
      BY <2>3, <2>4, Zenon
  <1> QED
    BY <1>1

\* the CallInfos that frame i accounts for, if it is one of thread th
share(th, i) == IF cstack[i].th # th THEN 0 ELSE IF cstack[i].f = "cfun" THEN 1 ELSE cstack[i].n

\* accounted adds them up
LEMMA AccountedIs ==
  ASSUME NEW th, Len(cstack) \in Nat
  PROVE  \E f : /\ accounted(th) = f[Len(cstack)]
                /\ f[0] = 0 /\ \A i \in 1..Len(cstack) : f[i] = f[i-1] + share(th, i)
  <1> DEFINE n == Len(cstack)
             c == [i \in 1..n |-> share(th, i)]
             Is(f) == f = [i \in 0..n |-> IF i = 0 THEN 0 ELSE f[i-1] + share(th, i)]
             F == CHOOSE f : Is(f)
  <1>1. PICK g : Sums(c, g, n)
    BY SumsExist, Zenon
  <1>2. Is(g)
    <2>1. \A i \in 0..n : i # 0 => c[i] = share(th, i)
      OBVIOUS
    <2>2. g = [i \in 0..n |-> IF i = 0 THEN 0 ELSE g[i-1] + c[i]]
      BY <1>1, Zenon DEF Sums
    <2> HIDE DEF n, c
    <2> QED
      BY <2>1, <2>2, Zenon
  <1>3. Is(F)
    <2> HIDE DEF Is
    <2> QED
      BY <1>2, Zenon
  <1>4. accounted(th) = F[n]
    BY Zenon DEF accounted, share
  <1>5. F[0] = 0 /\ \A i \in 1..n : F[i] = F[i-1] + share(th, i)
    <2> HIDE DEF F
    <2>1. F = [i \in 0..n |-> IF i = 0 THEN 0 ELSE F[i-1] + share(th, i)]
      BY <1>3, Zenon
    <2> HIDE DEF Is
    <2> QED
      BY <2>1
  <1> HIDE DEF F
  <1> QED
    BY <1>4, <1>5, Zenon

=============================================================================
