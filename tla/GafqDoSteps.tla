---------------------------- MODULE GafqDoSteps ----------------------------
(***************************************************************************)
(* The inductive invariant of GafqDo, and the actions that call, return,   *)
(* run hooks and raise errors: they keep it.                               *)
(***************************************************************************)
EXTENDS GafqDoFrames

-----------------------------------------------------------------------------
(* The actions.                                                            *)

\* what is known in a state: the running thread and its stack
LEMMA InvRuns ==
  ASSUME Inv
  PROVE  /\ L = top(cstack) /\ L \in Thread /\ Runs(cstack, T, T[L])
         /\ cstack \in Seq(Frame) /\ Len(cstack) \in Nat /\ T \in [Thread -> ThreadState]
         /\ T[L] \in ThreadState /\ Frames(cstack, T)
         /\ T[L].nCcalls = Calls(cstack, Len(cstack)) /\ Calls(cstack, Len(cstack)) \in Nat
         /\ pending \in {"none", "runerror"} =>
              Calls(cstack, Len(cstack)) < MAXCCALLS + EXTRA_CCALLS
         /\ Calls(cstack, Len(cstack)) <= MAXCCALLS + EXTRA_CCALLS
         /\ Last(cstack) = cstack[Len(cstack)]
         /\ cstack # <<>> => Len(cstack) \in 1..Len(cstack)
  BY BaseRuns, RunsCalls, LimitsAssumption DEF L, top, Last, Inv, Good, Base, Bounded

\* ... and its last frame, while a function runs
LEMMA InvIn ==
  ASSUME Inv, NEW f, in(f)
  PROVE  /\ cstack # <<>> /\ cstack[Len(cstack)].f = f /\ pending = "none"
         /\ Calls(cstack, Len(cstack)) < MAXCCALLS + EXTRA_CCALLS
  BY InvRuns, Zenon DEF in, Last

\* an operation that fits is an action that preserves Inv
LEMMA DoFits ==
  ASSUME Inv, NEW s, Fits(s, T, top(cstack)), Do(s)
  PROVE  Inv'
  BY InvRuns, Zenon DEF Do, Fits, Inv

\* the state of a new thread
LEMMA NewThread ==
  /\ newthread \in ThreadState /\ newthread.status = "ok" /\ newthread.fun = TRUE
  /\ newthread.nCcalls = 0 /\ newthread.baseCcalls = 0 /\ newthread.ci = <<>>
  /\ newthread.errorJmp = 0 /\ newthread.allowhook = TRUE /\ newthread.errfunc = "none"
  /\ newthread.size_ci = BASIC_CI_SIZE
  BY LimitsAssumption DEF newthread, ThreadState, ErrFunc

\* the host has called nothing: the stack is empty
LEMMA InitInv ==
  Init => Inv
  <1> SUFFICES ASSUME Init PROVE Inv
    BY Zenon
  <1>1. cstack = <<>> /\ cstack \in Seq(Frame) /\ Len(cstack) = 0 /\ pending = "none"
        /\ top(cstack) = mainthread
    BY DEF Init, top
  <1> DEFINE r == [newthread EXCEPT !.fun = FALSE]
  <1>2. r \in ThreadState /\ r.status = "ok" /\ ~r.fun /\ r.nCcalls = 0 /\ r.baseCcalls = 0
        /\ r.errorJmp = 0 /\ r.allowhook = TRUE /\ r.errfunc = "none"
    BY NewThread, Zenon DEF ThreadState
  <1> HIDE DEF r
  <1>3. T = [th \in Thread |-> r]
    BY Zenon DEF Init, r
  <1>4. At(cstack, 0, r)
    <2>1. Calls(cstack, 0) = 0
      BY CallsZero, Zenon
    <2>2. Innermost(cstack, 0, 0)
      BY DEF Innermost
    <2>3. Unhooked(cstack, 0) = TRUE
      BY DEF Unhooked
    <2> QED
      BY <1>2, <2>1, <2>2, <2>3, Zenon DEF At, Handled
  <1> QED
    BY <1>1, <1>2, <1>3, <1>4, CallsZero, LimitsAssumption DEF Inv, Good, Base, Pending,
       Bounded, Frames, ThreadOK

\* a function returns: execute or a C function
LEMMA LeaveFits ==
  ASSUME NEW cs, NEW S, NEW r0, Runs(cs, S, r0), cs # <<>>, cs[Len(cs)].f \in {"execute", "cfun"},
         Calls(cs, Len(cs)) < MAXCCALLS + EXTRA_CCALLS,
         NEW r, Same(r, r0), r.nCcalls = r0.nCcalls, r.errorJmp = r0.errorJmp,
         r.allowhook = r0.allowhook, r.allowhook \in BOOLEAN, r.errfunc = r0.errfunc
  PROVE  Fits(returnto(Front(cs), r), S, top(cs))
  <1>1. /\ Len(cs) > 1 /\ Front(cs) # <<>> /\ top(Front(cs)) = top(cs)
        /\ Runs(Front(cs), S, r)
    BY RunsPop, Zenon DEF Point, CCall
  <1>2. cs \in Seq(Frame) /\ Len(cs) \in Nat /\ FrameOK(cs, S, Len(cs)) /\ Len(cs) # 1
    BY <1>1, RunsCalls DEF Runs, Frames
  <1>3. MayCall(cs[Len(cs)-1].f, cs[Len(cs)].f)
    BY <1>2, Zenon DEF FrameOK
  <1>4. Front(cs)[Len(Front(cs))] = cs[Len(cs)-1]
    <2>1. Len(Front(cs)) = Len(cs) - 1 /\ \A i \in 1..Len(cs)-1 : Front(cs)[i] = cs[i]
      BY <1>2, Popped, Zenon
    <2> QED
      BY <1>1, <1>2, <2>1
  <1>5. Front(cs)[Len(Front(cs))].f \in {"execute", "call", "resume"}
    BY <1>3, <1>4, Zenon DEF MayCall
  <1>6. Calls(Front(cs), Len(Front(cs))) < MAXCCALLS + EXTRA_CCALLS
    BY <1>1, RunsCalls, Zenon
  <1>7. CASE Front(cs)[Len(Front(cs))].f = "resume"
    BY <1>1, <1>6, <1>7, ReturnResume, Zenon DEF Runs, ThreadOK
  <1>8. CASE Front(cs)[Len(Front(cs))].f \in {"execute", "call"}
    BY <1>1, <1>6, <1>8, ReturnFits, Zenon
  <1> QED
    BY <1>5, <1>7, <1>8, Zenon

\* the record of a thread after one of its functions returned
LEMMA PopCI ==
  ASSUME NEW r0 \in ThreadState
  PROVE  LET r == [r0 EXCEPT !.ci = Front(@)] IN
         /\ Same(r, r0) /\ r.nCcalls = r0.nCcalls /\ r.errorJmp = r0.errorJmp
         /\ r.allowhook = r0.allowhook /\ r.allowhook \in BOOLEAN
         /\ r.errfunc = r0.errfunc
  <1> QED
    BY FrontType, Zenon DEF Same, ThreadState

\* only what At, Frames and the like speak of matters
LEMMA BaseSame ==
  ASSUME NEW cs, NEW S, Base(cs, S), NEW S1 \in [Thread -> ThreadState],
         \A th \in Thread : /\ Same(S1[th], S[th]) /\ S1[th].nCcalls = S[th].nCcalls
                            /\ S1[th].errorJmp = S[th].errorJmp
                            /\ S1[th].allowhook = S[th].allowhook
                            /\ S1[th].errfunc = S[th].errfunc
  PROVE  Base(cs, S1)
  <1>0. cs \in Seq(Frame) /\ Len(cs) \in Nat /\ top(cs) \in Thread
    BY BaseRuns
  <1>1. ASSUME NEW i, NEW th \in Thread, At(cs, i, S[th])
        PROVE  At(cs, i, S1[th])
    BY <1>1, Zenon DEF At, Handled
  <1>2. ASSUME NEW i \in 1..Len(cs)
        PROVE  FrameOK(cs, S1, i)
    BY <1>0, <1>1, FrameType DEF Base, Frames, FrameOK, Same
  <1>3. ASSUME NEW th \in Thread
        PROVE  ThreadOK(S1[th])
    BY Zenon DEF Base, Frames, ThreadOK, Same
  <1> QED
    BY <1>0, <1>1, <1>2, <1>3, LimitsAssumption, Zenon DEF Base, Frames, Same

\* what a recovery point calls
LEMMA PcallCalls ==
  ASSUME NEW g \in FName
  PROVE  /\ MayCall("pcall", g) => g = "call"
         /\ MayCall("resume", g) => g = "execute"
  BY Zenon DEF MayCall, FName

\* a yield that is allowed comes from a C function or a hook called by the one
\* execute of a coroutine, with its resume below
LEMMA YieldStack ==
  ASSUME Inv, in("cfun") \/ in("hook"), canyield,
         cstack[Len(cstack)].f = "hook" => cstack[Len(cstack)-1].f = "execute"
  PROVE  LET n == Len(cstack) IN
         /\ n - 2 \in 2..n /\ cstack[n-2].f = "resume" /\ cstack[n-1].f = "execute"
         /\ cstack[n-2].th = L /\ cstack[n-1].th = L
         /\ \A k \in 1..n-3 : cstack[k].th # L
  <1> DEFINE n == Len(cstack)
  <1>1. /\ L = top(cstack) /\ L \in Thread /\ cstack \in Seq(Frame) /\ n \in Nat
        /\ T[L].nCcalls = Calls(cstack, n) /\ Calls(cstack, n) \in Nat
        /\ Frames(cstack, T) /\ T[L] \in ThreadState
    BY InvRuns, Zenon
  <1>2. cstack # <<>> /\ cstack[n].f \in {"cfun", "hook"} /\ L = cstack[n].th
    BY <1>1, InvIn, Zenon DEF top
  <1>3. \A i \in 1..n : FrameOK(cstack, T, i)
    BY <1>1, Zenon DEF Frames
  <1>4. n > 2 /\ cstack[1].f = "pcall" /\ cstack[2].f = "call"
    <2>1. n >= 1
      BY <1>1, <1>2
    <2>2. cstack[1].f = "pcall"
      BY <1>1, <1>3, <2>1 DEF FrameOK
    <2>3. n >= 2
      BY <1>1, <1>2, <2>1, <2>2
    <2>4. MayCall(cstack[2-1].f, cstack[2].f)
      BY <1>1, <1>3, <2>3 DEF FrameOK
    <2>5. cstack[2].f \in FName
      BY <1>1, <2>3, FrameType
    <2>6. cstack[2].f = "call"
      <3>1. MayCall("pcall", cstack[2].f)
        <4>1. 2 - 1 = 1
          OBVIOUS
        <4> QED
          BY <2>2, <2>4, <4>1, Zenon
      <3> QED
        BY <2>5, <3>1, PcallCalls, Zenon
    <2> QED
      BY <1>1, <1>2, <2>2, <2>3, <2>6
  <1>5. Calls(cstack, n) > 0
    <2>1. Calls(cstack, 0) < Calls(cstack, n)
      <3>1. 2 \in 0+1..n /\ cstack[2].f \in CCall
        BY <1>1, <1>4 DEF CCall
      <3> QED
        BY <1>1, <3>1, CallsGrow
    <2> QED
      BY <2>1, CallsZero, Zenon
  <1>6. PICK p \in 1..n : cstack[p].f = "resume" /\ cstack[p].th = L
    <2>1. L # mainthread
      <3>1. T[mainthread].baseCcalls = 0
        BY <1>1, Zenon DEF Frames
      <3> QED
        BY <1>1, <1>5, <3>1 DEF canyield
    <2>2. FrameOK(cstack, T, n)
      BY <1>1, <1>3, <1>4
    <2> QED
      BY <1>2, <2>1, <2>2, Zenon DEF FrameOK
  <1>7. \A q \in p+1..n : cstack[q].f \notin CCall
    <2>1. T[L].baseCcalls = Calls(cstack, p)
      BY <1>3, <1>6, Zenon DEF FrameOK
    <2>2. Calls(cstack, n) <= Calls(cstack, p) /\ Calls(cstack, p) \in Nat
      <3>1. Calls(cstack, p) \in Nat
        <4>1. p \in Nat
          BY <1>1, <1>6
        <4> QED
          BY <4>1, CallsType, Zenon
      <3> QED
        BY <1>1, <2>1, <3>1, Zenon DEF canyield
    <2>3. \A q \in p+1..n : cstack[q].f \in CCall => Calls(cstack, p) < Calls(cstack, n)
      BY <1>1, <1>6, CallsGrow
    <2> QED
      BY <1>1, <2>2, <2>3
  <1>8. p < n /\ cstack[n-1].f = "execute" /\ p < n - 1
    <2>1. p # n
      BY <1>2, <1>6, Zenon
    <2>2. MayCall(cstack[n-1].f, cstack[n].f)
      BY <1>1, <1>3, <1>4 DEF FrameOK
    <2>3. cstack[n-1].f \in {"execute", "call"}
      <3>1. CASE cstack[n].f = "cfun"
        BY <2>2, <3>1, Zenon DEF MayCall
      <3> QED
        BY <1>2, <3>1, Zenon
    <2>4. p # n - 1
      BY <1>6, <2>3, Zenon
    <2>5. p < n - 1
      BY <1>1, <1>6, <2>1, <2>4
    <2>6. cstack[n-1].f \notin CCall
      BY <1>1, <1>7, <2>5
    <2> QED
      BY <1>1, <2>3, <2>5, <2>6 DEF CCall
  <1>9. p = n - 2
    <2>1. MayCall(cstack[n-1-1].f, cstack[n-1].f)
      BY <1>1, <1>3, <1>4 DEF FrameOK
    <2>2. cstack[n-2].f \in CCall
      <3>1. n - 1 - 1 = n - 2
        BY <1>1
      <3> QED
        BY <1>8, <2>1, <3>1, Zenon DEF MayCall, CCall
    <2>3. ~(p < n - 2)
      BY <1>1, <1>7, <2>2
    <2> QED
      BY <1>1, <1>8, <2>3
  <1>10. \A k \in 1..p-1 : cstack[k].th # L
    BY <1>1, <1>3, <1>6 DEF FrameOK
  <1>11. cstack[n-1].th = cstack[n].th
    BY <1>1, <1>2, <1>3, <1>4 DEF FrameOK
  <1>12. p # 1
    BY <1>4, <1>6, Zenon
  <1> QED
    BY <1>1, <1>2, <1>4, <1>6, <1>8, <1>9, <1>10, <1>11, <1>12

\* a thread that can be resumed, or that is not started or ended, is not on the stack
LEMMA SuspendedOff ==
  ASSUME Inv, NEW co \in Thread, suspended(co)
  PROVE  /\ \A i \in 1..Len(cstack) : cstack[i].th # co
         /\ co # mainthread
         /\ T[co].allowhook /\ T[co].errfunc = "none"
         /\ T[co].status = "yield" => ~T[co].fun
         /\ T[co].status # "yield" => T[co].status = "ok" /\ T[co].fun
  BY InvRuns DEF Frames, FrameOK, suspended, ThreadOK

\* a change of a thread that is not on the stack
LEMMA OffInv ==
  ASSUME Inv, NEW co \in Thread, co # mainthread, \A i \in 1..Len(cstack) : cstack[i].th # co,
         NEW r \in ThreadState, ThreadOK(r)
  PROVE  Base(cstack, [T EXCEPT ![co] = r])
  BY InvRuns, FramesOff, Zenon DEF top, Base, Inv, Good

\* the resumption of a coroutine
LEMMA ResumeRuns ==
  ASSUME Inv, in("cfun"), NEW co \in Thread, \A i \in 1..Len(cstack) : cstack[i].th # co,
         co # mainthread, NEW fr \in Frame, fr.f = "resume", fr.th = co,
         NEW r \in ThreadState, r.status = "ok", ~r.fun, r.allowhook, r.errfunc = "none",
         r.nCcalls = T[L].nCcalls + 1, r.baseCcalls = T[L].nCcalls + 1,
         r.errorJmp = Len(cstack) + 1
  PROVE  /\ Runs(Append(cstack, fr), [T EXCEPT ![co] = r], r)
         /\ top(Append(cstack, fr)) = co
         /\ Calls(Append(cstack, fr), Len(Append(cstack, fr))) = T[L].nCcalls + 1
  <1> DEFINE n == Len(cstack)
             ds == Append(cstack, fr)
             S == [T EXCEPT ![co] = r]
  <1>1. /\ cstack \in Seq(Frame) /\ n \in Nat /\ T \in [Thread -> ThreadState]
        /\ T[L].nCcalls = Calls(cstack, n) /\ Calls(cstack, n) \in Nat
    BY InvRuns, Zenon
  <1>2. Base(cstack, S)
    BY OffInv, Zenon DEF ThreadOK
  <1>3. S[co] = r
    BY <1>1, Zenon
  <1>4. Frames(ds, S)
    <2> HIDE DEF S
    <2> QED
      BY <1>1, <1>2, <1>3, FramesResume, InvIn
  <1>5. /\ Len(ds) = n + 1 /\ \A i \in 1..n : ds[i] = cstack[i]
        /\ ds[n + 1] = fr /\ top(ds) = co /\ Agree(cstack, ds, n)
    BY <1>1, Pushed, Zenon
  <1> HIDE DEF ds, S
  <1>6. At(ds, n + 1, r)
    <2>1. Calls(ds, n + 1) = Calls(cstack, n) + 1
      BY <1>1, <1>5, CallsAgree, CallsStep DEF CCall
    <2>2. Innermost(ds, n + 1, n + 1)
      BY <1>1, <1>5 DEF Innermost, Point
    <2>3. Unhooked(ds, n + 1) = TRUE
      BY <1>1, <1>5 DEF Unhooked
    <2>4. r.allowhook = TRUE
      BY Zenon DEF ThreadState
    <2>5. Handled(ds, r)
      BY Zenon DEF Handled
    <2> QED
      BY <1>1, <2>1, <2>2, <2>3, <2>4, <2>5, Zenon DEF At
  <1>7. Calls(ds, Len(ds)) = T[L].nCcalls + 1
    BY <1>5, <1>6, Zenon DEF At
  <1> QED
    BY <1>3, <1>4, <1>5, <1>6, <1>7, Zenon DEF ds, S, Runs

\* The steps of the actions, but for those that need to know the CallInfos.
LEMMA CallActions ==
  ASSUME Inv, NEW kind \in Kind, NEW handler \in ErrFunc,
         HostCall(kind) \/ OpCall(kind) \/ Call(kind) \/ PCall(kind, handler)
  PROVE  Inv'
  BY InvRuns, LimitsAssumption, PcallFits, DoFits, InvIn, PrecallFits, CallFits DEF ErrFunc,
     HostCall, L, Inv, Good, OpCall, Call, PCall

\* ... the returns
LEMMA ReturnActions ==
  ASSUME Inv, OpTailcall \/ OpReturn \/ CReturn
  PROVE  Inv'
  <1>1. /\ L = top(cstack) /\ L \in Thread /\ Runs(cstack, T, T[L]) /\ T[L] \in ThreadState
        /\ cstack \in Seq(Frame) /\ Last(cstack) = cstack[Len(cstack)]
        /\ cstack # <<>> => Len(cstack) \in 1..Len(cstack)
    BY InvRuns, Zenon
  <1> DEFINE r == [T[L] EXCEPT !.ci = Front(@)]
  <1>2. /\ Same(r, T[L]) /\ r.nCcalls = T[L].nCcalls /\ r.errorJmp = T[L].errorJmp
        /\ r.allowhook = T[L].allowhook /\ r.allowhook \in BOOLEAN /\ r.errfunc = T[L].errfunc
    BY <1>1, PopCI, Zenon
  <1>3. CASE OpTailcall
    <2> DEFINE s == precall(cstack, T[L], "G")
               r1 == [s.r EXCEPT !.ci = Front(@)]
    <2>1. in("execute") /\ Do(IF s.err # "none" THEN s ELSE done(cstack, r1))
      BY <1>3, Zenon DEF OpTailcall
    <2>2. /\ cstack # <<>> /\ cstack[Len(cstack)].f = "execute"
          /\ Calls(cstack, Len(cstack)) < MAXCCALLS + EXTRA_CCALLS
      BY <2>1, InvIn, Zenon
    <2>3. "G" \in Kind
      BY Zenon DEF Kind
    <2>4. Fits(s, T, top(cstack))
      BY <1>1, <2>2, <2>3, PrecallFits, Zenon
    <2>5. /\ Same(s.r, T[L]) /\ s.r.nCcalls = T[L].nCcalls /\ s.r.errorJmp = T[L].errorJmp
          /\ s.r.allowhook = T[L].allowhook /\ s.r.errfunc = T[L].errfunc
      <3>1. T[L] \in ThreadState
        BY <1>1, Zenon
      <3>2. /\ Same(s.r, T[L]) /\ s.r.nCcalls = T[L].nCcalls /\ s.r.errorJmp = T[L].errorJmp
            /\ s.r.allowhook = T[L].allowhook /\ s.r.errfunc = T[L].errfunc
            /\ s.err \in {"none", "runerror", "ERRERR"}
            /\ s.err # "none" => s.cs = cstack
            /\ s.err = "none" =>
                 s.cs = IF "G" = "C" THEN Append(cstack, frame("cfun", Last(cstack).th))
                        ELSE IF Last(cstack).f = "execute"
                             THEN [cstack EXCEPT ![Len(cstack)].n = @ + 1]
                        ELSE Append(cstack, [frame("execute", Last(cstack).th) EXCEPT !.n = 1])
        BY <2>3, <3>1, PrecallRecord, Zenon
      <3> QED
        BY <3>2, Zenon
    <2> HIDE DEF s
    <2>6. /\ Same(r1, s.r) /\ r1.nCcalls = s.r.nCcalls /\ r1.errorJmp = s.r.errorJmp
          /\ r1.allowhook = s.r.allowhook /\ r1.errfunc = s.r.errfunc
      BY <2>5, PopCI, Zenon DEF Same
    <2> HIDE DEF r1
    <2>7. Runs(cstack, T, r1)
      BY <1>1, <2>2, <2>5, <2>6, RunsCount, 0 \in Nat, Zenon DEF Same
    <2>8. Fits(done(cstack, r1), T, top(cstack))
      <3>1. Good(cstack, [T EXCEPT ![top(cstack)] = r1], "none")
        BY <2>2, <2>7, RunsFits, Zenon DEF Bounded, Pending
      <3> QED
        BY <3>1, Zenon DEF Fits, done
    <2> QED
      BY <2>1, <2>4, <2>8, DoFits, Zenon
  <1>4. CASE OpReturn
    <2>1. in("execute") /\ Do(IF Last(cstack).n > 1
                              THEN done([cstack EXCEPT ![Len(cstack)].n = @ - 1], r)
                              ELSE returnto(Front(cstack), r))
      BY <1>4, Zenon DEF OpReturn
    <2>2. /\ cstack # <<>> /\ cstack[Len(cstack)].f = "execute"
          /\ Calls(cstack, Len(cstack)) < MAXCCALLS + EXTRA_CCALLS
      BY <2>1, InvIn, Zenon
    <2> HIDE DEF r
    <2>3. CASE Last(cstack).n > 1
      <3> DEFINE m == cstack[Len(cstack)].n - 1
                 ds == Counted(cstack, m)
      <3>1. m \in Nat
        BY <1>1, <2>2, <2>3, FrameType
      <3>2. Do(done(ds, r))
        BY <2>1, <2>3, Zenon DEF Counted
      <3> HIDE DEF m
      <3>3. /\ Runs(ds, T, r) /\ ds # <<>> /\ ds[Len(ds)].f = cstack[Len(cstack)].f
            /\ top(ds) = top(cstack) /\ Calls(ds, Len(ds)) = Calls(cstack, Len(cstack))
        BY <1>1, <1>2, <2>2, <3>1, RunsCount, Zenon
      <3> HIDE DEF ds
      <3>4. Good(ds, [T EXCEPT ![top(ds)] = r], "none")
        BY <2>2, <3>3, RunsFits, Zenon DEF Bounded, Pending
      <3> QED
        BY <3>2, <3>3, <3>4, DoFits, Zenon DEF Fits, done
    <2>4. CASE ~(Last(cstack).n > 1)
      BY <1>1, <1>2, <2>1, <2>2, <2>4, LeaveFits, DoFits, Zenon
    <2> QED
      BY <2>3, <2>4, Zenon
  <1>5. CASE CReturn
    <2>1. in("cfun") /\ Do(returnto(Front(cstack), r))
      BY <1>5, Zenon DEF CReturn
    <2> HIDE DEF r
    <2> QED
      BY <1>1, <1>2, <2>1, DoFits, LeaveFits, InvIn, Zenon
  <1> QED
    BY <1>3, <1>4, <1>5, Zenon

\* ... and the hooks
LEMMA HookActions ==
  ASSUME Inv, Hook \/ HookReturn
  PROVE  Inv'
  <1>1. /\ L = top(cstack) /\ L \in Thread /\ Runs(cstack, T, T[L]) /\ T[L] \in ThreadState
        /\ cstack \in Seq(Frame) /\ Len(cstack) \in Nat
        /\ T[L].nCcalls = Calls(cstack, Len(cstack))
    BY InvRuns, Zenon
  <1>2. CASE Hook
    <2> DEFINE fr == frame("hook", L)
               r == [T[L] EXCEPT !.allowhook = FALSE]
               ds == Append(cstack, fr)
    <2>1. (in("execute") \/ in("cfun")) /\ T[L].allowhook /\ Do(done(ds, r))
      BY <1>2, Zenon DEF Hook
    <2>2. /\ cstack # <<>> /\ cstack[Len(cstack)].f \in {"execute", "cfun"}
          /\ Calls(cstack, Len(cstack)) < MAXCCALLS + EXTRA_CCALLS
      BY <2>1, InvIn, Zenon
    <2>3. fr \in Frame /\ fr.f = "hook" /\ fr.th = L
      BY <1>1, NewFrame, Zenon DEF FName
    <2>4. /\ Same(r, T[L]) /\ r.nCcalls = T[L].nCcalls /\ r.errorJmp = T[L].errorJmp
          /\ r.allowhook = FALSE /\ r.errfunc = T[L].errfunc
      BY <1>1, Zenon DEF Same, ThreadState
    <2> HIDE DEF fr, r
    <2>5. MayCall(cstack[Len(cstack)].f, "hook") /\ "hook" \notin CCall /\ "hook" \notin Point
      BY <2>2, Zenon DEF MayCall, CCall, Point
    <2>6. r.allowhook = (T[L].allowhook /\ fr.f # "hook")
      BY <2>3, <2>4, Zenon
    <2>7. Runs(ds, T, r)
      BY <1>1, <2>1, <2>2, <2>3, <2>4, <2>5, <2>6, RunsPush, Zenon
    <2>8. ds # <<>> /\ ds[Len(ds)].f = "hook" /\ top(ds) = L
      BY <1>1, <2>3, Pushed
    <2> HIDE DEF ds
    <2>9. Calls(ds, Len(ds)) = Calls(cstack, Len(cstack))
      BY <1>1, <2>4, <2>7, RunsCalls, Zenon
    <2>10. Good(ds, [T EXCEPT ![top(ds)] = r], "none")
      BY <2>2, <2>7, <2>8, <2>9, RunsFits, Zenon DEF Bounded, Pending
    <2> QED
      BY <1>1, <2>1, <2>8, <2>10, DoFits, Zenon DEF Fits, done
  <1>3. CASE HookReturn
    <2> DEFINE r == [T[L] EXCEPT !.allowhook = TRUE]
               ds == Front(cstack)
               n == Len(cstack)
    <2>1. in("hook") /\ Do(done(ds, r))
      BY <1>3, Zenon DEF HookReturn
    <2>2. cstack # <<>> /\ cstack[n].f = "hook" /\ Calls(cstack, n) < MAXCCALLS + EXTRA_CCALLS
      BY <2>1, InvIn, Zenon
    <2>3. /\ Same(r, T[L]) /\ r.nCcalls = T[L].nCcalls /\ r.errorJmp = T[L].errorJmp
          /\ r.allowhook = TRUE /\ r.errfunc = T[L].errfunc
      BY <1>1, Zenon DEF Same, ThreadState
    <2> HIDE DEF r
    <2>4. r.allowhook = (T[L].allowhook \/ cstack[n].f = "hook")
      BY <2>2, <2>3, Zenon
    <2>5. n > 1 /\ ds # <<>> /\ top(ds) = L /\ Runs(ds, T, r)
      BY <1>1, <2>2, <2>3, <2>4, RunsPop, Zenon DEF CCall, Point
    <2>6. ds[Len(ds)].f \in {"execute", "cfun"}
      <3>1. FrameOK(cstack, T, n) /\ n # 1
        <4>1. n \in 1..n /\ n # 1
          <5>1. n \in Nat
            BY <1>1, Zenon
          <5> HIDE DEF n
          <5> QED
            BY <2>5, <5>1
        <4> QED
          BY <1>1, <4>1, Zenon DEF Runs, Frames
      <3>2. Len(ds) = n - 1 /\ \A i \in 1..n-1 : ds[i] = cstack[i]
        BY <1>1, <2>2, Popped, Zenon
      <3> QED
        BY <1>1, <2>2, <2>5, <3>1, <3>2 DEF MayCall, FrameOK
    <2> HIDE DEF ds
    <2>7. Calls(ds, Len(ds)) = Calls(cstack, n)
      BY <1>1, <2>3, <2>5, RunsCalls, Zenon
    <2>8. Good(ds, [T EXCEPT ![top(ds)] = r], "none")
      BY <2>2, <2>5, <2>6, <2>7, RunsFits, Zenon DEF Bounded, Pending
    <2> QED
      BY <1>1, <2>1, <2>5, <2>8, DoFits, Zenon DEF Fits, done
  <1> QED
    BY <1>2, <1>3, Zenon

\* the inductive invariant: the stack, and the CallInfos of its threads
IInv == Inv /\ Leveled(cstack, T, T[L]) /\ \A th \in Thread : Held(th, T[th])

\* an operation that leaves what it should is an action that preserves IInv
LEMMA DoLeveled ==
  ASSUME IInv, NEW s, LFits(s, T, top(cstack)), Do(s), Inv'
  PROVE  IInv'
  BY InvRuns, Zenon DEF IInv, Do, L, top, Last, LFits

\* a step that leaves no frame of a protected call
Kept == Len(cstack') >= Len(cstack)

\* the C call counter may grow
LEMMA CcallType ==
  ASSUME NEW r \in ThreadState
  PROVE  [r EXCEPT !.nCcalls = @ + 1] \in ThreadState
  BY DEF ThreadState

\* gafqD_precall, gafqD_call and gafqD_pcall only add frames
LEMMA CallsAdd ==
  ASSUME NEW cs \in Seq(Frame), NEW r \in ThreadState, NEW kind \in Kind, cs # <<>>
  PROVE  /\ Len(precall(cs, r, kind).cs) >= Len(cs)
         /\ \A th \in Thread : Len(call(cs, r, kind, th).cs) >= Len(cs)
  <1>1. ASSUME NEW ds \in Seq(Frame), NEW q \in ThreadState, ds # <<>>
        PROVE  Len(precall(ds, q, kind).cs) >= Len(ds)
    <2> DEFINE s == precall(ds, q, kind)
    <2>1. /\ Same(s.r, q) /\ s.r.nCcalls = q.nCcalls /\ s.r.errorJmp = q.errorJmp
          /\ s.r.allowhook = q.allowhook /\ s.r.errfunc = q.errfunc
          /\ s.err \in {"none", "runerror", "ERRERR"}
          /\ s.err # "none" => s.cs = ds
          /\ s.err = "none" =>
               s.cs = IF kind = "C" THEN Append(ds, frame("cfun", Last(ds).th))
                      ELSE IF Last(ds).f = "execute" THEN [ds EXCEPT ![Len(ds)].n = @ + 1]
                      ELSE Append(ds, [frame("execute", Last(ds).th) EXCEPT !.n = 1])
      BY PrecallRecord, Zenon
    <2>2. Len(ds) \in Nat /\ Len(ds) \in 1..Len(ds) /\ Last(ds) = ds[Len(ds)] /\ Last(ds).th \in Thread
      BY <1>1, FrameType DEF Last
    <2>3. Len(Append(ds, frame("cfun", Last(ds).th))) = Len(ds) + 1
      BY <2>2, NewFrame, Pushed DEF FName
    <2>4. Len(Append(ds, [frame("execute", Last(ds).th) EXCEPT !.n = 1])) = Len(ds) + 1
      BY <2>2, NewExecute, 1 \in Nat, Pushed, Zenon
    <2>5. Len([ds EXCEPT ![Len(ds)].n = @ + 1]) = Len(ds)
      OBVIOUS
    <2>6. Len(ds) + 1 >= Len(ds) /\ Len(ds) >= Len(ds)
      BY <2>2
    <2> HIDE DEF s
    <2>7. Len(s.cs) >= Len(ds)
      BY <2>1, <2>3, <2>4, <2>5, <2>6, Zenon
    <2> QED
      BY <2>7, Zenon DEF s
  <1>2. ASSUME NEW th \in Thread
        PROVE  Len(call(cs, r, kind, th).cs) >= Len(cs)
    <2> DEFINE fr == frame("call", th)
               cs1 == Append(cs, fr)
               r1 == [r EXCEPT !.nCcalls = @ + 1]
    <2>1. r1 \in ThreadState
      BY CcallType, Zenon
    <2>2. cs1 \in Seq(Frame) /\ cs1 # <<>> /\ Len(cs1) = Len(cs) + 1 /\ Len(cs) \in Nat
      BY Pushed, NewFrame DEF FName
    <2>3. call(cs, r, kind, th) =
            IF r1.nCcalls = MAXCCALLS THEN raise(cs1, r1, "runerror")
            ELSE IF r1.nCcalls >= MAXCCALLS + EXTRA_CCALLS THEN raise(cs1, r1, "ERRERR")
            ELSE precall(cs1, r1, kind)
      BY Zenon DEF call
    <2> HIDE DEF r1, cs1
    <2>4. Len(call(cs, r, kind, th).cs) >= Len(cs) + 1
      BY <1>1, <2>1, <2>2, <2>3 DEF raise
    <2> DEFINE k == Len(call(cs, r, kind, th).cs)
               n == Len(cs)
    <2> HIDE DEF k, n
    <2> QED
      BY <2>2, <2>4 DEF k, n
  <1> QED
    BY <1>1, <1>2, Zenon

\* What a step may do to the protected calls it leaves.
PcallLeft ==
  \A i \in DOMAIN cstack :
    (cstack[i].f = "pcall" /\ Len(cstack') < i) =>
      LET th == cstack[i].th IN
      /\ T'[th].errfunc = cstack[i].old.errfunc
      /\ T'[th].allowhook = cstack[i].old.allowhook
      /\ T'[th].nCcalls = cstack[i].old.nCcalls
      /\ Len(T'[th].ci) = cstack[i].old.ci

\* What a step other than a yield does to the status of the threads.
NoneYields == \A th \in Thread : T'[th].status = "yield" => T[th].status = "yield"

\* a step that leaves no frame leaves no protected call
LEMMA KeptLeft ==
  ASSUME IInv, Kept, Len(cstack') \in Nat
  PROVE  PcallLeft
  BY InvRuns DEF IInv, Kept, PcallLeft

\* what an operation restores is restored by its action
LEMMA DoLeft ==
  ASSUME IInv, NEW s, Do(s), Restores(cstack, s, T)
  PROVE  PcallLeft
  BY InvRuns DEF IInv, Do, Restores, PcallLeft

\* the calls add frames, and the CallInfos that go with them
LEMMA CallLevels ==
  ASSUME IInv, NEW kind \in Kind, NEW handler \in ErrFunc,
         HostCall(kind) \/ OpCall(kind) \/ Call(kind) \/ PCall(kind, handler)
  PROVE  IInv' /\ PcallLeft
  <1>1. /\ L = top(cstack) /\ L \in Thread /\ Frames(cstack, T) /\ T[L] \in ThreadState
        /\ Leveled(cstack, T, T[L]) /\ T[L].status = "ok" /\ At(cstack, Len(cstack), T[L])
        /\ cstack \in Seq(Frame) /\ Inv /\ Len(cstack) \in Nat
    BY InvRuns, Zenon DEF IInv, Runs
  <1>2. handler \in ErrFunc /\ "none" \in ErrFunc
    BY LimitsAssumption, Zenon DEF ErrFunc
  <1>3. Inv'
    BY <1>1, CallActions, Zenon
  <1>4. Len(cstack') \in Nat
    BY <1>3 DEF Inv, Good, Base, Frames
  <1>5. CASE HostCall(kind)
    BY <1>1, <1>2, <1>3, <1>4, <1>5, PcallLeveled, DoLeveled, KeptLeft DEF HostCall, L, Kept
  <1>6. CASE OpCall(kind)
    <2>1. in("execute") /\ Do(precall(cstack, T[L], kind))
      BY <1>6, Zenon DEF OpCall
    <2>2. cstack # <<>> /\ cstack[Len(cstack)].f = "execute"
      BY <1>1, <2>1, InvIn, Zenon
    <2>3. Kept
      BY <1>1, <2>1, <2>2, CallsAdd, Zenon DEF Do, Kept
    <2> QED
      BY <1>1, <1>3, <1>4, <2>1, <2>2, <2>3, DoLeveled, KeptLeft, PrecallLeveled, Zenon
  <1>7. CASE Call(kind)
    <2>1. (in("execute") \/ in("cfun") \/ in("hook")) /\ Do(call(cstack, T[L], kind, L))
      BY <1>7, Zenon DEF Call
    <2>2. cstack # <<>> /\ cstack[Len(cstack)].f \in {"execute", "cfun", "hook"}
      BY <1>1, <2>1, InvIn, Zenon
    <2>3. Kept
      BY <1>1, <2>1, <2>2, CallsAdd, Zenon DEF Do, Kept
    <2> QED
      BY <1>1, <1>3, <1>4, <2>1, <2>2, <2>3, DoLeveled, KeptLeft, CallLeveled, Zenon
  <1>8. CASE PCall(kind, handler)
    <2>1. (in("cfun") \/ in("hook")) /\ Do(pcall(cstack, T[L], kind, handler, L))
      BY <1>8, Zenon DEF PCall
    <2>2. Kept
      <3> DEFINE fr == recovery("pcall", L, T[L])
                 cs1 == Append(cstack, fr)
                 r0 == [T[L] EXCEPT !.errorJmp = Len(cstack) + 1]
                 r1 == [r0 EXCEPT !.errfunc = handler]
      <3>1. cs1 \in Seq(Frame) /\ cs1 # <<>> /\ Len(cs1) = Len(cstack) + 1
        BY <1>1, Pushed, RecoveryFrame DEF FName
      <3>2. r0 \in ThreadState
        <4> DEFINE k == Len(cstack)
        <4>1. k \in Nat /\ T[L] \in ThreadState
          BY <1>1, Zenon
        <4> HIDE DEF k
        <4>2. [T[L] EXCEPT !.errorJmp = k + 1] \in ThreadState
          BY <4>1 DEF ThreadState
        <4> QED
          BY <4>2, Zenon DEF k
      <3>3. pcall(cstack, T[L], kind, handler, L) = call(cs1, r1, kind, L)
        BY Zenon DEF pcall
      <3> HIDE DEF r0
      <3>4. r1 \in ThreadState
        BY <1>2, <3>2, Zenon DEF ThreadState
      <3> HIDE DEF r1, cs1
      <3> DEFINE k == Len(cstack)
                 k1 == Len(cstack')
      <3> HIDE DEF k, k1
      <3> QED
        BY <1>1, <1>4, <2>1, <3>1, <3>3, <3>4, CallsAdd DEF Kept, k, k1, Do
    <2> QED
      BY <1>1, <1>2, <1>3, <1>4, <2>1, <2>2, DoLeveled, KeptLeft, PcallLeveled, InvIn, Zenon
  <1> QED
    BY <1>5, <1>6, <1>7, <1>8, Zenon

\* a function is left: returnto of the frames below it
LEMMA LeaveLeveled ==
  ASSUME IInv, in("execute") \/ in("cfun"), in("execute") => ~(Last(cstack).n > 1)
  PROVE  LET s == returnto(Front(cstack), [T[L] EXCEPT !.ci = Front(@)])
         IN  LFits(s, T, top(cstack)) /\ Restores(cstack, s, T)
  <1> DEFINE n == Len(cstack)
             r == [T[L] EXCEPT !.ci = Front(@)]
             ds == Front(cstack)
             s == returnto(ds, r)
  <1>1. /\ L = top(cstack) /\ L \in Thread /\ Frames(cstack, T) /\ T[L] \in ThreadState
        /\ Leveled(cstack, T, T[L]) /\ T[L].status = "ok" /\ Runs(cstack, T, T[L])
        /\ cstack \in Seq(Frame) /\ Inv /\ n \in Nat /\ Last(cstack) = cstack[n]
        /\ Held(L, T[L])
    BY InvRuns, Zenon DEF IInv, Runs
  <1>2. cstack # <<>> /\ cstack[n].f \in {"execute", "cfun"} /\ n \in 1..n
    BY <1>1, InvIn
  <1>3. weight(cstack[n]) = 1
    <2>1. PICK m : LevelsBy(cstack, T, m)
      BY <1>1, Zenon DEF Leveled
    <2>2. LevelOK(cstack, T, m, n) /\ cstack[n].n \in Nat
      BY <1>1, <1>2, <2>1, FrameType, Zenon DEF LevelsBy
    <2>3. CASE cstack[n].f = "execute"
      <3>1. cstack[n].n > 0
        BY <2>2, <2>3, Zenon DEF LevelOK
      <3>2. in("execute")
        BY <1>1, <2>3, Zenon DEF in
      <3>3. ~(cstack[n].n > 1)
        BY <1>1, <3>2, Zenon
      <3> DEFINE c == cstack[n].n
      <3>4. c \in Nat /\ c > 0 /\ ~(c > 1)
        BY <2>2, <3>1, <3>3, Zenon
      <3> HIDE DEF c
      <3>5. c = 1
        BY <3>4
      <3> QED
        BY <2>3, <3>5, Zenon DEF weight, c
    <2>4. CASE cstack[n].f = "cfun"
      BY <2>4, Zenon DEF weight
    <2> QED
      BY <1>2, <2>3, <2>4, Zenon
  <1>4. T[L].ci # <<>>
    <2>1. PICK m : LevelsBy(cstack, T, m) /\ Len(T[L].ci) = depth(cstack, m)
      BY <1>1, Zenon DEF Leveled
    <2>2. m[n] \in Nat /\ depth(cstack, m) = m[n] + 1
      BY <1>1, <1>2, <1>3, <2>1, LevelType, Zenon DEF depth
    <2>3. Len(T[L].ci) # 0
      BY <2>1, <2>2
    <2>4. T[L].ci \in Seq(Kind)
      BY <1>1, Zenon DEF ThreadState
    <2> QED
      BY <2>3, <2>4, EmptyLen, Zenon
  <1>5. Held(L, r) /\ Len(r.ci) = Len(T[L].ci) - 1
    BY <1>1, <1>4, HeldPop, Zenon
  <1>6. /\ Same(r, T[L]) /\ r.nCcalls = T[L].nCcalls /\ r.errorJmp = T[L].errorJmp
        /\ r.allowhook = T[L].allowhook /\ r.allowhook \in BOOLEAN /\ r.errfunc = T[L].errfunc
    BY <1>1, PopCI, Zenon
  <1> HIDE DEF r
  <1>7. n > 1 /\ ds # <<>> /\ top(ds) = top(cstack) /\ Runs(ds, T, r)
    <2>1. /\ cstack[n].f \notin Point /\ cstack[n].f \notin CCall /\ cstack[n].f # "hook"
      BY <1>2, Zenon DEF Point, CCall
    <2>2. r.allowhook = (T[L].allowhook \/ cstack[n].f = "hook")
      BY <1>6, <2>1, Zenon
    <2> QED
      BY <1>1, <1>2, <1>6, <2>1, <2>2, RunsPop, Zenon
  <1>8. /\ Leveled(ds, T, r) /\ Frames(ds, T)
        /\ Len(ds) = n - 1 /\ ds[n - 1] = cstack[n - 1]
    <2>1. Len(r.ci) = Len(T[L].ci) - weight(cstack[n]) /\ cstack[n].f # "resume"
      BY <1>2, <1>3, <1>5, Zenon
    <2> QED
      BY <1>1, <1>5, <1>7, <2>1, LeveledPop, Zenon
  <1>9. cstack[n-1].f \in {"execute", "call", "resume"}
    <2>1. FrameOK(cstack, T, n)
      BY <1>1, <1>2, Zenon DEF Frames
    <2>2. n # 1
      BY <1>1, <1>7
    <2>3. MayCall(cstack[n-1].f, cstack[n].f)
      BY <2>1, <2>2, Zenon DEF FrameOK
    <2> QED
      BY <1>2, <2>3, Zenon DEF MayCall
  <1>10. /\ \A i \in 1..n : i # n => i \in 1..n-1 /\ ds[i] = cstack[i]
         /\ cstack[n].f # "pcall"
    <2>1. \A i \in 1..n-1 : ds[i] = cstack[i]
      BY <1>1, <1>2, Popped, Zenon
    <2>2. \A i \in 1..n : i # n => i \in 1..n-1
      <3>1. n \in Nat
        BY <1>1, Zenon
      <3> HIDE DEF n
      <3> QED
        BY <3>1
    <2> QED
      BY <1>2, <2>1, <2>2, Zenon
  <1> HIDE DEF ds
  <1>11. CASE cstack[n-1].f \in {"execute", "call"}
    <2>1. LFits(s, T, top(ds)) /\ Restores(ds, s, T)
      BY <1>7, <1>8, <1>11, ReturnLeveled, Zenon
    <2> HIDE DEF s
    <2>2. Restores(cstack, s, T)
      BY <1>7, <1>8, <1>10, <2>1, Zenon DEF Restores
    <2> QED
      BY <1>7, <2>1, <2>2, Zenon DEF s, r, ds
  <1>12. CASE cstack[n-1].f = "resume"
    <2>1. PICK m : LevelsBy(ds, T, m)
      BY <1>8, Zenon DEF Leveled
    <2>2. Held(top(ds), r) /\ r \in ThreadState /\ \A th \in Thread : Held(th, T[th])
      BY <1>1, <1>5, <1>6, <1>7, Zenon DEF Same, IInv
    <2>3. LFits(s, T, top(ds))
      BY <1>7, <1>8, <1>12, <2>1, <2>2, ReturnResumeLeveled, Zenon
    <2>4. s.cs = Front(ds)
      <3>1. Last(ds).f = "resume"
        BY <1>8, <1>12, Zenon DEF Last
      <3> QED
        BY <3>1, Zenon DEF returnto, done
    <2>5. Len(Front(ds)) = n - 1 - 1
      <3>1. ds \in Seq(Frame)
        BY <1>8, Zenon DEF Frames
      <3>2. Len(Front(ds)) = Len(ds) - 1
        BY <1>7, <3>1, Popped, Zenon
      <3> QED
        BY <1>8, <3>2, Zenon
    <2> HIDE DEF s
    <2>6. Restores(cstack, s, T)
      <3>1. \A i \in 1..n : n - 1 - 1 < i => i = n \/ i = n - 1
        <4>1. n \in Nat
          BY <1>1, Zenon
        <4> HIDE DEF n
        <4> QED
          BY <4>1
      <3> QED
        BY <1>10, <1>12, <2>4, <2>5, <3>1, Zenon DEF Restores
    <2> QED
      BY <1>7, <2>3, <2>6, Zenon DEF s, r, ds
  <1> QED
    BY <1>9, <1>11, <1>12, Zenon

\* the returns take back the CallInfos of the functions they leave, and only
\* those
LEMMA ReturnLevels ==
  ASSUME IInv, OpTailcall \/ OpReturn \/ CReturn
  PROVE  IInv' /\ PcallLeft
  <1> DEFINE n == Len(cstack)
             r == [T[L] EXCEPT !.ci = Front(@)]
  <1>1. /\ L = top(cstack) /\ L \in Thread /\ Frames(cstack, T) /\ T[L] \in ThreadState
        /\ Leveled(cstack, T, T[L]) /\ T[L].status = "ok" /\ Held(L, T[L])
        /\ cstack \in Seq(Frame) /\ Inv /\ n \in Nat /\ Last(cstack) = cstack[n]
    BY InvRuns, Zenon DEF IInv, Runs
  <1>2. Inv'
    BY <1>1, ReturnActions, Zenon
  <1>3. Len(cstack') \in Nat
    BY <1>2 DEF Inv, Good, Base, Frames
  <1>4. CASE OpTailcall
    <2> DEFINE s == precall(cstack, T[L], "G")
               r1 == [s.r EXCEPT !.ci = Front(@)]
    <2>1. in("execute") /\ Do(IF s.err # "none" THEN s ELSE done(cstack, r1))
      BY <1>4, Zenon DEF OpTailcall
    <2>2. /\ Same(s.r, T[L]) /\ s.r.nCcalls = T[L].nCcalls /\ s.r.errorJmp = T[L].errorJmp
          /\ s.r.allowhook = T[L].allowhook /\ s.r.errfunc = T[L].errfunc
          /\ s.err \in {"none", "runerror", "ERRERR"}
          /\ s.err # "none" => s.cs = cstack
          /\ s.err = "none" =>
               s.cs = IF "G" = "C" THEN Append(cstack, frame("cfun", Last(cstack).th))
                      ELSE IF Last(cstack).f = "execute" THEN [cstack EXCEPT ![Len(cstack)].n = @ + 1]
                      ELSE Append(cstack, [frame("execute", Last(cstack).th) EXCEPT !.n = 1])
      BY <1>1, PrecallRecord, Zenon DEF Kind
    <2>3. Held(L, s.r) /\ s.r.ci = IF s.err = "none" THEN Append(T[L].ci, "G") ELSE T[L].ci
      BY <1>1, PrecallHeld, Zenon DEF Kind
    <2>4. s.r \in ThreadState /\ s.r.status = "ok" /\ T[L].ci \in Seq(Kind)
      BY <1>1, <2>2, Zenon DEF Same, ThreadState
    <2> HIDE DEF s
    <2>5. Leveled(cstack, T, IF s.err # "none" THEN s.r ELSE r1)
      <3>1. CASE s.err # "none"
        BY <1>1, <2>3, <3>1, LeveledSame, Zenon
      <3>2. CASE s.err = "none"
        <4>1. s.r.ci # <<>> /\ Len(s.r.ci) = Len(T[L].ci) + 1 /\ Len(T[L].ci) \in Nat
          BY <2>3, <2>4, <3>2 DEF Kind
        <4>2. Held(L, r1) /\ Len(r1.ci) = Len(s.r.ci) - 1
          BY <2>3, <2>4, <4>1, HeldPop, Zenon
        <4> HIDE DEF r1
        <4> QED
          BY <1>1, <3>2, <4>1, <4>2, LeveledSame
      <3> QED
        BY <3>1, <3>2, Zenon
    <2> DEFINE s1 == IF s.err # "none" THEN s ELSE done(cstack, r1)
    <2>6. s1.cs = cstack /\ s1.r = IF s.err # "none" THEN s.r ELSE r1
      BY <2>2, Zenon DEF done
    <2>7. Do(s1)
      BY <2>1, Zenon
    <2> HIDE DEF s1, r1
    <2>8. LFits(s1, T, top(cstack))
      BY <1>1, <2>5, <2>6, LeveledFits, Zenon
    <2>9. Kept
      BY <1>1, <2>6, <2>7 DEF Do, Kept
    <2> QED
      BY <1>2, <1>3, <2>7, <2>8, <2>9, DoLeveled, KeptLeft, Zenon
  <1>5. CASE OpReturn
    <2>1. in("execute") /\ Do(IF Last(cstack).n > 1
                              THEN done([cstack EXCEPT ![Len(cstack)].n = @ - 1], r)
                              ELSE returnto(Front(cstack), r))
      BY <1>5, Zenon DEF OpReturn
    <2>2. cstack # <<>> /\ cstack[n].f = "execute" /\ n \in 1..n /\ cstack[n].n \in Nat
      BY <1>1, <2>1, InvIn, InvRuns, FrameType, Zenon
    <2>3. CASE cstack[n].n > 1
      <3> DEFINE c == cstack[n].n
                 s1 == done([cstack EXCEPT ![n].n = c - 1], r)
      <3>1. c \in Nat /\ c > 1
        BY <2>2, <2>3, Zenon
      <3>2. s1.cs = Counted(cstack, c - 1) /\ s1.r = r /\ Do(s1)
        BY <1>1, <2>1, <2>2, <2>3, Zenon DEF done, Counted
      <3>3. T[L].ci # <<>>
        <4>1. PICK m : LevelsBy(cstack, T, m) /\ Len(T[L].ci) = depth(cstack, m)
          BY <1>1, Zenon DEF Leveled
        <4> DEFINE k == m[n]
        <4>2. Len(T[L].ci) = k + c /\ k \in Nat
          BY <1>1, <2>2, <4>1, LevelType, Zenon DEF depth, weight
        <4> HIDE DEF k, c
        <4> QED
          BY <1>1, <3>1, <4>2, EmptyLen DEF ThreadState
      <3>4. Held(L, r) /\ Len(r.ci) = Len(T[L].ci) - 1 /\ Len(T[L].ci) \in Nat
        BY <1>1, <3>3, HeldPop, Zenon
      <3> HIDE DEF r
      <3>5. Len(r.ci) = Len(T[L].ci) - cstack[n].n + (c - 1) /\ c - 1 \in Nat \ {0}
        <4> DEFINE k == Len(T[L].ci)
        <4>1. k \in Nat /\ Len(r.ci) = k - 1
          BY <3>4, Zenon
        <4> HIDE DEF k, c
        <4>2. Len(r.ci) = k - c + (c - 1) /\ c - 1 \in Nat \ {0}
          BY <3>1, <4>1
        <4> QED
          BY <4>2, Zenon DEF k, c
      <3> HIDE DEF s1, c
      <3>6. Leveled(Counted(cstack, c - 1), T, r)
        BY <1>1, <2>2, <3>4, <3>5, LeveledCount, Zenon
      <3>7. Frames(Counted(cstack, c - 1), T) /\ top(Counted(cstack, c - 1)) = top(cstack)
        BY <1>1, <2>2, <3>5, FramesCount, Zenon
      <3>8. Kept
        BY <1>1, <3>2 DEF Do, Counted, Kept
      <3> QED
        BY <1>2, <1>3, <3>2, <3>6, <3>7, <3>8, DoLeveled, KeptLeft, LeveledFits, Zenon
    <2>4. CASE ~(cstack[n].n > 1)
      BY <1>1, <1>2, <2>1, <2>4, LeaveLeveled, DoLeveled, DoLeft, Zenon
    <2> QED
      BY <2>3, <2>4, Zenon
  <1>6. CASE CReturn
    BY <1>2, <1>6, LeaveLeveled, DoLeveled, DoLeft, Zenon DEF CReturn, in
  <1> QED
    BY <1>4, <1>5, <1>6, Zenon

\* a hook has no CallInfo
LEMMA HookLevels ==
  ASSUME IInv, Hook \/ HookReturn
  PROVE  IInv' /\ PcallLeft
  <1> DEFINE n == Len(cstack)
  <1>1. /\ L = top(cstack) /\ L \in Thread /\ Frames(cstack, T) /\ T[L] \in ThreadState
        /\ Leveled(cstack, T, T[L]) /\ Held(L, T[L])
        /\ cstack \in Seq(Frame) /\ Inv /\ n \in Nat /\ Last(cstack) = cstack[n]
    BY InvRuns, Zenon DEF IInv, Runs
  <1>2. Inv'
    BY <1>1, HookActions, Zenon
  <1>3. \A b : LET r == [T[L] EXCEPT !.allowhook = b]
               IN  r.ci = T[L].ci /\ r.size_ci = T[L].size_ci /\ r.status = T[L].status
    BY <1>1, Zenon DEF ThreadState
  <1>4. CASE Hook
    <2> DEFINE fr == frame("hook", L)
               r == [T[L] EXCEPT !.allowhook = FALSE]
               s == done(Append(cstack, fr), r)
    <2>1. (in("execute") \/ in("cfun")) /\ Do(s)
      BY <1>4, Zenon DEF Hook
    <2>2. cstack # <<>> /\ cstack[n].f \in {"execute", "cfun"}
      BY <1>1, <2>1, InvIn, Zenon
    <2>3. fr \in Frame /\ fr.f = "hook" /\ fr.th = L /\ fr.n = 0
      BY <1>1, NewFrame, Zenon DEF FName
    <2>4. s.cs = Append(cstack, fr) /\ s.r = r
      BY Zenon DEF done
    <2>5. r.ci = T[L].ci /\ r.size_ci = T[L].size_ci /\ r.status = T[L].status
      BY <1>3, Zenon
    <2> HIDE DEF fr, r, s
    <2>6. Leveled(Append(cstack, fr), T, r)
      BY <1>1, <2>2, <2>3, <2>5, LeveledPush, HeldSame DEF weight, ThreadState
    <2>7. /\ Len(Append(cstack, fr)) = n + 1 /\ top(Append(cstack, fr)) = top(cstack)
          /\ Append(cstack, fr) \in Seq(Frame)
      BY <1>1, <2>3, Pushed, Zenon
    <2>8. Frames(Append(cstack, fr), T)
      <3>1. MayCall(cstack[n].f, "hook")
        BY <2>2, Zenon DEF MayCall
      <3> QED
        BY <1>1, <1>4, <2>2, <2>3, <3>1, FramesPush, Zenon DEF Inv, Good, Base, At, Hook
    <2>9. LFits(s, T, top(cstack))
      BY <2>4, <2>6, <2>7, <2>8, LeveledFits, Zenon
    <2>10. Kept
      BY <1>1, <2>1, <2>4, <2>7 DEF Do, Kept
    <2> QED
      BY <1>2, <2>1, <2>9, <2>10, DoLeveled, KeptLeft DEF Inv, Good, Base, Frames
  <1>5. CASE HookReturn
    <2> DEFINE r == [T[L] EXCEPT !.allowhook = TRUE]
               s == done(Front(cstack), r)
    <2>1. in("hook") /\ Do(s)
      BY <1>5, Zenon DEF HookReturn
    <2>2. cstack # <<>> /\ cstack[n].f = "hook" /\ n \in 1..n
      BY <1>1, <2>1, InvIn, InvRuns, Zenon
    <2>3. s.cs = Front(cstack) /\ s.r = r
      BY Zenon DEF done
    <2>4. r.ci = T[L].ci /\ r.size_ci = T[L].size_ci /\ r.status = T[L].status
      BY <1>3, Zenon
    <2> HIDE DEF r, s
    <2>5. n > 1
      BY <1>1, <2>2 DEF Frames, FrameOK
    <2>6. Len(r.ci) = Len(T[L].ci) - weight(cstack[n]) /\ Held(top(cstack), r)
      BY <1>1, <2>2, <2>4, HeldSame DEF Leveled, LevelsBy, LevelOK, weight, ThreadState
    <2>7. /\ Leveled(Front(cstack), T, r) /\ top(Front(cstack)) = top(cstack)
          /\ Frames(Front(cstack), T) /\ Len(Front(cstack)) = n - 1
      BY <1>1, <2>2, <2>5, <2>6, LeveledPop, Zenon
    <2>8. Restores(cstack, s, T)
      BY <1>1, <2>2, <2>3, <2>7 DEF Restores
    <2> QED
      BY <1>2, <2>1, <2>3, <2>7, <2>8, DoLeveled, DoLeft, LeveledFits, Zenon
  <1> QED
    BY <1>4, <1>5, Zenon

\* an error leaves the stack alone
LEMMA ErrorLevels ==
  ASSUME IInv, NEW err, Error(err)
  PROVE  IInv' /\ PcallLeft
  BY InvIn, InvRuns, KeptLeft DEF Error, IInv, Inv, Good, Bounded, Pending, L, Kept

\* a CallInfo array that shrinks still holds its CallInfos
LEMMA ShrinkLevels ==
  ASSUME IInv, NEW th \in Thread, ShrinkCI(th)
  PROVE  IInv' /\ PcallLeft /\ NoneYields
  <1> DEFINE z == T[th].size_ci \div 2
             r == [T[th] EXCEPT !.size_ci = z]
  <1>1. /\ L = top(cstack) /\ L \in Thread /\ Frames(cstack, T) /\ T[th] \in ThreadState
        /\ Leveled(cstack, T, T[L]) /\ Base(cstack, T) /\ T \in [Thread -> ThreadState]
        /\ cstack \in Seq(Frame) /\ Inv /\ Len(cstack) \in Nat
        /\ \A t \in Thread : Held(t, T[t])
    BY InvRuns, Zenon DEF IInv, Inv, Good
  <1>2. /\ cstack' = cstack /\ pending' = pending /\ T' = [T EXCEPT ![th].size_ci = @ \div 2]
        /\ 4 * Len(T[th].ci) < T[th].size_ci /\ 2 * BASIC_CI_SIZE < T[th].size_ci
    BY Zenon DEF ShrinkCI
  <1>3. T' = [T EXCEPT ![th] = r]
    BY <1>1, <1>2, Zenon
  <1>4. T[th].size_ci \in Nat /\ T[th].ci \in Seq(Kind) /\ Len(T[th].ci) \in Nat
    BY <1>1 DEF ThreadState
  <1>5. z \in Nat /\ Len(T[th].ci) < z
    BY <1>2, <1>4, LimitsAssumption
  <1> HIDE DEF z
  <1>6. /\ r \in ThreadState /\ r.ci = T[th].ci /\ r.size_ci = z /\ r.status = T[th].status
        /\ r.nCcalls = T[th].nCcalls /\ r.errorJmp = T[th].errorJmp
        /\ r.allowhook = T[th].allowhook /\ r.errfunc = T[th].errfunc
        /\ r.baseCcalls = T[th].baseCcalls /\ r.fun = T[th].fun
    BY <1>1, <1>5, Zenon DEF ThreadState
  <1> HIDE DEF r
  <1>7. T' \in [Thread -> ThreadState] /\ T'[th] = r /\ \A t \in Thread : t # th => T'[t] = T[t]
    BY <1>1, <1>3, <1>6, Zenon
  <1>8. \A t \in Thread : Held(t, T'[t]) /\ T'[t].ci = T[t].ci
    BY <1>1, <1>5, <1>6, <1>7 DEF Held
  <1>9. Inv'
    <2>1. Base(cstack, T')
      BY <1>1, <1>6, <1>7, BaseSame DEF Same
    <2> QED
      BY <1>1, <1>2, <2>1, Zenon DEF Inv, Good
  <1>10. Leveled(cstack, T', T'[L])
    <2>1. PICK m : LevelsBy(cstack, T, m) /\ Len(T[L].ci) = depth(cstack, m)
      BY <1>1, Zenon DEF Leveled
    <2> DEFINE m1 == [i \in 1..Len(cstack) |-> m[i]]
    <2>2. LevelsBy(cstack, T', m1)
      BY <1>1, <1>8, <2>1, LevelsCut
    <2>3. depth(cstack, m1) = depth(cstack, m)
      BY <1>1, InvRuns, Zenon DEF depth
    <2> HIDE DEF m1
    <2> QED
      BY <1>1, <1>8, <2>1, <2>2, <2>3, Zenon DEF Leveled
  <1> QED
    BY <1>1, <1>2, <1>6, <1>7, <1>8, <1>9, <1>10, KeptLeft DEF Kept, IInv, L, NoneYields

\* the CallInfos, in the state after a step
LEMMA NewIInv ==
  ASSUME Inv', Leveled(cstack', T', T'[top(cstack')]), \A th \in Thread : Held(th, T'[th])
  PROVE  IInv'
  BY Zenon DEF L, top, Last, IInv

\* gafqG_errormsg calls the error function as gafqD_call does
LEMMA ErrorMsgLevels ==
  ASSUME IInv, ErrorMsg
  PROVE  IInv' /\ PcallLeft
  <1> DEFINE n == Len(cstack)
  <1>1. /\ L = top(cstack) /\ L \in Thread /\ Frames(cstack, T) /\ T[L] \in ThreadState
        /\ Leveled(cstack, T, T[L]) /\ Held(L, T[L]) /\ Runs(cstack, T, T[L])
        /\ cstack \in Seq(Frame) /\ Inv /\ n \in Nat /\ T \in [Thread -> ThreadState]
        /\ T[L].nCcalls = Calls(cstack, n) /\ Calls(cstack, n) \in Nat
    BY InvRuns, Zenon DEF IInv
  <1>2. /\ pending = "runerror"
        /\ Do(CASE T[L].errfunc = "none" -> raise(cstack, T[L], "ERRRUN")
                [] T[L].errfunc = "bad" -> raise(cstack, T[L], "ERRERR")
                [] OTHER -> call(Append(cstack, frame("errormsg", L)), T[L], T[L].errfunc, L))
    BY Zenon DEF ErrorMsg
  <1>3. /\ Calls(cstack, n) < MAXCCALLS + EXTRA_CCALLS /\ Calls(cstack, n) <= MAXCCALLS + EXTRA_CCALLS
        /\ cstack # <<>> /\ n \in 1..n
    BY <1>1, <1>2, InvRuns, Zenon DEF Inv, Good
  <1>4. ASSUME NEW err \in {"ERRRUN", "ERRERR"}, Do(raise(cstack, T[L], err))
        PROVE  IInv' /\ PcallLeft
    <2>1. cstack' = cstack /\ T' = T /\ pending' = err
      BY <1>1, <1>4, Zenon DEF Do, raise
    <2> QED
      BY <1>1, <1>3, <2>1, KeptLeft DEF Kept, IInv, Inv, Good, Bounded, Pending, L
  <1>5. CASE T[L].errfunc = "none"
    BY <1>2, <1>4, <1>5, Zenon
  <1>6. CASE T[L].errfunc = "bad"
    BY <1>2, <1>4, <1>6, Zenon
  <1>7. CASE T[L].errfunc \in {"C", "G"}
    <2> DEFINE fr == frame("errormsg", L)
               ds == Append(cstack, fr)
               kind == T[L].errfunc
               s == call(ds, T[L], kind, L)
    <2>1. Do(s) /\ kind \in Kind
      BY <1>2, <1>7, Zenon DEF Kind
    <2>2. fr \in Frame /\ fr.f = "errormsg" /\ fr.th = L /\ fr.n = 0
      BY <1>1, NewFrame, Zenon DEF FName
    <2>3. cstack[n].f # "resume"
      BY <1>1, <1>3, <1>7 DEF Runs, At, Innermost, Point, Handled
    <2>4. MayCall(cstack[n].f, "errormsg") /\ "errormsg" \notin CCall /\ "errormsg" \notin Point
      BY <1>1, <1>3, <2>3, Zenon DEF Inv, Good, MayCall, CCall, Point
    <2> HIDE DEF fr
    <2>5. Same(T[L], T[L]) /\ T[L].allowhook = (T[L].allowhook /\ fr.f # "hook")
      BY <1>1, <2>2, Zenon DEF ThreadState, Same
    <2>6. Runs(ds, T, T[L])
      BY <1>1, <1>3, <2>2, <2>4, <2>5, RunsPush, Zenon
    <2>7. /\ ds # <<>> /\ ds[Len(ds)].f = "errormsg" /\ top(ds) = L /\ ds \in Seq(Frame)
          /\ Len(ds) = n + 1
      BY <1>1, <2>2, Pushed
    <2>8. Leveled(ds, T, T[L])
      <3>1. Len(T[L].ci) = Len(T[L].ci) + weight(fr)
        BY <1>1, <2>2 DEF weight, ThreadState
      <3> QED
        BY <1>1, <1>3, <2>2, <2>3, <3>1, LeveledPush, Zenon
    <2> HIDE DEF ds, kind
    <2>9. Calls(ds, Len(ds)) < MAXCCALLS + EXTRA_CCALLS /\ T[L].status = "ok" /\ Frames(ds, T)
      BY <1>1, <1>3, <2>6, RunsCalls, Zenon DEF Runs
    <2>10. Fits(s, T, top(cstack))
      BY <1>1, <2>1, <2>6, <2>7, <2>9, CallFits, Zenon
    <2>11. LFits(s, T, top(cstack))
      BY <1>1, <2>1, <2>7, <2>8, <2>9, CallLeveled, Zenon
    <2>12. Len(s.cs) >= Len(ds)
      BY <1>1, <2>1, <2>7, CallsAdd, Zenon
    <2> HIDE DEF s
    <2>13. Inv'
      BY <1>1, <2>1, <2>10, DoFits, Zenon
    <2>14. Len(cstack') \in Nat
      BY <2>13 DEF Inv, Good, Base, Frames
    <2>15. Kept
      BY <1>1, <2>1, <2>7, <2>12, <2>14 DEF Do, Kept
    <2> QED
      BY <2>1, <2>11, <2>13, <2>14, <2>15, DoLeveled, KeptLeft, Zenon
  <1> QED
    BY <1>1, <1>5, <1>6, <1>7, Zenon DEF ThreadState, ErrFunc

=============================================================================
