---------------------------- MODULE GafqDoProofs ----------------------------
(***************************************************************************)
(* The theorems about calls, errors and coroutines: the longjmp of an      *)
(* error and the steps of the coroutines keep the inductive invariant, and *)
(* the properties of GafqDo follow from it.                                *)
(***************************************************************************)
EXTENDS GafqDoSteps

\* an error has a recovery point to go to: the innermost one, of its own thread
LEMMA JumpPoint ==
  ASSUME Inv, cstack # <<>>
  PROVE  LET n == Len(cstack)
             j == T[L].errorJmp
         IN  /\ j \in 1..n /\ cstack[j].f \in Point /\ cstack[j].th = L
             /\ \A i \in 1..n : j < i => cstack[i].f \notin Point
  <1> DEFINE n == Len(cstack)
             j == T[L].errorJmp
  <1>1. /\ L = top(cstack) /\ Frames(cstack, T) /\ n \in Nat /\ Innermost(cstack, n, j)
    BY InvRuns, Zenon DEF Runs, At
  <1>2. n \in 1..n
    BY InvRuns, Zenon
  <1>3. j \in 1..n /\ cstack[j].f \in Point /\ cstack[j].th = L
    <2>1. j \in 0..n /\ \A k \in j+1..n : cstack[k].f \notin Point
      BY <1>1, Zenon DEF Innermost
    <2>2. 1 \in 1..n /\ FrameOK(cstack, T, 1)
      BY <1>1, <1>2 DEF Frames
    <2>3. cstack[1].f \in Point
      BY <2>2, Zenon DEF FrameOK, Point
    <2>4. j # 0
      <3>1. ~(1 \in j+1..n)
        BY <2>1, <2>3, Zenon
      <3> HIDE DEF j, n
      <3> QED
        BY <1>2, <2>1, <3>1
    <2>5. j > 0 /\ j \in 1..n
      <3> HIDE DEF j, n
      <3> QED
        BY <1>1, <2>1, <2>4
    <2>6. top(cstack) = cstack[n].th
      BY Zenon DEF top
    <2> QED
      BY <1>1, <2>5, <2>6, Zenon DEF Innermost
  <1>4. \A i \in 1..n : j < i => cstack[i].f \notin Point
    <2>1. \A k \in j+1..n : cstack[k].f \notin Point
      BY <1>1, Zenon DEF Innermost
    <2>2. \A i \in 1..n : j < i => i \in j+1..n
      <3> HIDE DEF j, n
      <3> QED
        BY <1>1, <1>3
    <2> QED
      BY <2>1, <2>2, Zenon
  <1> QED
    BY <1>3, <1>4, Zenon

\* the stack is cut at the recovery point, and the CallInfos at the mark it keeps
LEMMA ThrowLevels ==
  ASSUME IInv, Throw
  PROVE  IInv' /\ PcallLeft /\ NoneYields
  <1> DEFINE n == Len(cstack)
             j == T[L].errorJmp
             old == cstack[j].old
             ds == SubSeq(cstack, 1, j - 1)
  <1>1. /\ L = top(cstack) /\ L \in Thread /\ Frames(cstack, T) /\ T[L] \in ThreadState
        /\ Leveled(cstack, T, T[L]) /\ Held(L, T[L]) /\ T[L].status = "ok" /\ ~T[L].fun
        /\ cstack \in Seq(Frame) /\ Inv /\ n \in Nat /\ T \in [Thread -> ThreadState]
        /\ Innermost(cstack, n, j) /\ Calls(cstack, n) <= MAXCCALLS + EXTRA_CCALLS
        /\ Calls(cstack, n) \in Nat /\ \A th \in Thread : Held(th, T[th])
    BY InvRuns, Zenon DEF IInv, Runs, At
  <1>2. /\ pending # "none" /\ cstack' = ds /\ pending' = "none"
        /\ T' = [T EXCEPT ![cstack[j].th] =
             IF cstack[j].f = "pcall"
             THEN [T[cstack[j].th] EXCEPT !.ci = SubSeq(T[cstack[j].th].ci, 1, old.ci),
                            !.nCcalls = old.nCcalls,
                            !.errfunc = old.errfunc, !.allowhook = old.allowhook,
                            !.errorJmp = old.errorJmp,
                            !.size_ci = restore_stack_limit(T[cstack[j].th].size_ci, old.ci)]
             ELSE [T[cstack[j].th] EXCEPT !.status = "error", !.errorJmp = old.errorJmp,
                            !.nCcalls = T[cstack[j].th].nCcalls - 1]]
    BY Zenon DEF Throw
  <1>3. cstack # <<>> /\ n \in 1..n
    BY <1>1, <1>2, InvRuns, Zenon DEF Inv, Good
  <1>4. j \in 1..n /\ cstack[j].f \in Point /\ cstack[j].th = L
    BY <1>1, <1>3, JumpPoint, Zenon
  <1>5. /\ cstack[j] \in Frame /\ old \in Old /\ ds \in Seq(Frame) /\ Len(ds) = j - 1
        /\ DOMAIN cstack = 1..n
    BY <1>1, <1>4, FrameType, Prefix
  <1>6. \A i \in DOMAIN cstack : Len(cstack') < i /\ cstack[i].f = "pcall" => i = j
    BY <1>1, <1>2, <1>3, <1>4, <1>5, JumpPoint DEF Point
  <1>7. PICK m : LevelsBy(cstack, T, m) /\ Len(T[L].ci) = depth(cstack, m)
    BY <1>1, Zenon DEF Leveled
  <1>8. CASE cstack[j].f = "resume"
    <2> DEFINE r0 == [T[L] EXCEPT !.status = "error"]
               r1 == [r0 EXCEPT !.errorJmp = old.errorJmp]
               r == [r1 EXCEPT !.nCcalls = T[L].nCcalls - 1]
    <2>1. r0 \in ThreadState /\ r0.status = "error" /\ r0.ci = T[L].ci /\ r0.size_ci = T[L].size_ci
          /\ r0.fun = T[L].fun
      BY <1>1, Zenon DEF ThreadState
    <2>2. T' = [T EXCEPT ![L] = r]
      BY <1>1, <1>2, <1>4, <1>8, Zenon
    <2> HIDE DEF r0
    <2>3. old.errorJmp \in Nat
      BY <1>5, Zenon DEF Old
    <2>4. r1 \in ThreadState /\ r1.status = "error" /\ r1.ci = T[L].ci /\ r1.size_ci = T[L].size_ci
          /\ r1.fun = T[L].fun
      BY <1>1, <2>1, <2>3, Zenon DEF ThreadState
    <2> HIDE DEF r1
    <2>5. r \in ThreadState /\ r.status = "error" /\ r.ci = T[L].ci /\ r.size_ci = T[L].size_ci
          /\ r.fun = T[L].fun
      <3>1. T[L].nCcalls - 1 \in Int
        BY <1>1 DEF ThreadState
      <3> QED
        BY <2>4, <3>1, Zenon DEF ThreadState
    <2> HIDE DEF r
    <2>6. ThreadOK(r) /\ Held(L, r)
      BY <1>1, <2>5, Zenon DEF ThreadOK, Held
    <2>7. Good(ds, T', "none")
      <3>1. Good(SubSeq(cstack, 1, j - 1), [T EXCEPT ![cstack[j].th] = r], "none")
        <4> HIDE DEF j
        <4> QED
          BY <1>1, <1>4, <1>8, <2>5, <2>6, ResumeEnds, Zenon
      <3> QED
        BY <1>4, <2>2, <3>1, Zenon
    <2>8. Leveled(ds, T', T'[top(ds)])
      BY <1>1, <1>4, <1>7, <1>8, <2>2, ResumeEndsLeveled, Zenon
    <2>9. \A th \in Thread : Held(th, T'[th])
      BY <1>1, <2>2, <2>6, Zenon
    <2>10. IInv'
      <3>1. Inv'
        BY <1>2, <2>7, Zenon DEF Inv
      <3> QED
        BY <1>2, <2>8, <2>9, <3>1, NewIInv, Zenon
    <2> QED
      BY <1>1, <1>6, <1>8, <2>2, <2>5, <2>10, Zenon DEF PcallLeft, NoneYields
  <1>9. CASE cstack[j].f = "pcall"
    <2> DEFINE c == old.ci
               z == restore_stack_limit(T[L].size_ci, c)
               q == SubSeq(T[L].ci, 1, c)
               r0 == [T[L] EXCEPT !.ci = q]
               r1 == [r0 EXCEPT !.nCcalls = old.nCcalls]
               r2 == [r1 EXCEPT !.errfunc = old.errfunc]
               r3 == [r2 EXCEPT !.allowhook = old.allowhook]
               r4 == [r3 EXCEPT !.errorJmp = old.errorJmp]
               r == [r4 EXCEPT !.size_ci = z]
    <2>1. T' = [T EXCEPT ![L] = r]
      BY <1>2, <1>4, <1>9, Zenon
    <2>2. c = m[j] /\ m[j] \in Nat /\ m[j] <= depth(cstack, m)
      BY <1>1, <1>4, <1>7, <1>9, PcallLevel, Zenon
    <2>3. c \in Nat /\ c <= Len(T[L].ci) /\ T[L].ci \in Seq(Kind) /\ T[L].size_ci \in Nat
          /\ Len(T[L].ci) < T[L].size_ci /\ Len(T[L].ci) \in Nat
      BY <1>1, <1>7, <2>2, SMTT(40) DEF ThreadState, Held
    <2>4. q \in Seq(Kind) /\ Len(q) = c /\ \A i \in 1..c : q[i] = T[L].ci[i]
      BY <2>3, Prefix
    <2>5. z \in Nat /\ c < z
      BY <2>3, LimitsAssumption DEF restore_stack_limit
    <2>6. /\ old.nCcalls \in Int /\ old.errfunc \in ErrFunc /\ old.allowhook \in BOOLEAN
          /\ old.errorJmp \in Nat
      BY <1>5, Zenon DEF Old
    <2> HIDE DEF c, z, q, old
    <2>7. /\ r0 \in ThreadState /\ r0.ci = q /\ r0.status = "ok" /\ ~r0.fun
          /\ r0.baseCcalls = T[L].baseCcalls
      BY <1>1, <2>4, Zenon DEF ThreadState
    <2> HIDE DEF r0
    <2>8. /\ r1 \in ThreadState /\ r1.ci = q /\ r1.status = "ok" /\ ~r1.fun
          /\ r1.baseCcalls = T[L].baseCcalls /\ r1.nCcalls = old.nCcalls
      BY <2>6, <2>7, Zenon DEF ThreadState
    <2> HIDE DEF r1
    <2>9. /\ r2 \in ThreadState /\ r2.ci = q /\ r2.status = "ok" /\ ~r2.fun
          /\ r2.baseCcalls = T[L].baseCcalls /\ r2.nCcalls = old.nCcalls
          /\ r2.errfunc = old.errfunc
      BY <2>6, <2>8, Zenon DEF ThreadState
    <2> HIDE DEF r2
    <2>10. /\ r3 \in ThreadState /\ r3.ci = q /\ r3.status = "ok" /\ ~r3.fun
           /\ r3.baseCcalls = T[L].baseCcalls /\ r3.nCcalls = old.nCcalls
           /\ r3.errfunc = old.errfunc /\ r3.allowhook = old.allowhook
      BY <2>6, <2>9, Zenon DEF ThreadState
    <2> HIDE DEF r3
    <2>11. /\ r4 \in ThreadState /\ r4.ci = q /\ r4.status = "ok" /\ ~r4.fun
           /\ r4.baseCcalls = T[L].baseCcalls /\ r4.nCcalls = old.nCcalls
           /\ r4.errfunc = old.errfunc /\ r4.allowhook = old.allowhook
           /\ r4.errorJmp = old.errorJmp
      BY <2>6, <2>10, Zenon DEF ThreadState
    <2> HIDE DEF r4
    <2>12. /\ r \in ThreadState /\ r.ci = q /\ r.status = "ok" /\ ~r.fun
           /\ r.baseCcalls = T[L].baseCcalls /\ r.nCcalls = old.nCcalls
           /\ r.errfunc = old.errfunc /\ r.allowhook = old.allowhook
           /\ r.errorJmp = old.errorJmp /\ r.size_ci = z
      BY <2>5, <2>11, Zenon DEF ThreadState
    <2> HIDE DEF r
    <2>13. Held(L, r)
      BY <1>1, <2>3, <2>4, <2>5, <2>12, EmptyLen DEF Held
    <2>14. Calls(cstack, j - 1) < MAXCCALLS + EXTRA_CCALLS
      <3>1. j # n
        BY <1>1, <1>3, <1>9, Zenon DEF Inv, Good
      <3>2. j + 1 \in 1..n /\ j + 1 # 1 /\ j - 1 \in Nat /\ j - 1 <= n /\ j + 1 \in (j - 1) + 1..n
            /\ (j + 1) - 1 = j
        <4> HIDE DEF j, n
        <4> QED
          BY <1>1, <1>4, <3>1
      <3>3. FrameOK(cstack, T, j + 1) /\ cstack[j + 1].f \in FName
        BY <1>1, <3>2, FrameType, Zenon DEF Frames
      <3>4. MayCall(cstack[j].f, cstack[j + 1].f)
        BY <3>2, <3>3, Zenon DEF FrameOK
      <3>5. Calls(cstack, j - 1) \in Nat
        BY <3>2, CallsType, Zenon
      <3> DEFINE a == Calls(cstack, j - 1)
                 b == Calls(cstack, n)
      <3> HIDE DEF a, b
      <3> QED
        BY <1>1, <1>9, <3>2, <3>3, <3>4, <3>5, LimitsAssumption, CallsGrow, PcallCalls DEF a,
           CCall
    <2>15. Good(ds, T', "none")
      <3>1. /\ r.nCcalls = cstack[j].old.nCcalls /\ r.errorJmp = cstack[j].old.errorJmp
            /\ r.allowhook = cstack[j].old.allowhook /\ r.errfunc = cstack[j].old.errfunc
            /\ r.baseCcalls = T[top(cstack)].baseCcalls /\ cstack[j].th = top(cstack)
        BY <1>1, <1>4, <2>12, Zenon DEF old
      <3>2. Good(SubSeq(cstack, 1, j - 1), [T EXCEPT ![cstack[j].th] = r], "none")
        <4> HIDE DEF j
        <4> QED
          BY <1>1, <1>4, <1>9, <2>12, <2>14, <3>1, PcallEnds, Zenon
      <3> QED
        BY <1>4, <2>1, <3>2, Zenon
    <2>16. Len(r.ci) = cstack[j].old.ci
      BY <2>4, <2>12, Zenon DEF c, old
    <2>17. Leveled(ds, T', T'[top(ds)])
      BY <1>1, <1>4, <1>7, <1>9, <2>1, <2>13, <2>16, PcallEndsLeveled, Zenon
    <2>18. T'[L] = r /\ \A th \in Thread : Held(th, T'[th])
      BY <1>1, <2>1, <2>13, Zenon
    <2>19. IInv'
      <3>1. Inv'
        BY <1>2, <2>15, Zenon DEF Inv
      <3> QED
        BY <1>2, <2>17, <2>18, <3>1, NewIInv, Zenon
    <2>20. PcallLeft
      <3>1. /\ T'[L].errfunc = cstack[j].old.errfunc /\ T'[L].allowhook = cstack[j].old.allowhook
            /\ T'[L].nCcalls = cstack[j].old.nCcalls /\ Len(T'[L].ci) = cstack[j].old.ci
        BY <2>12, <2>16, <2>18, Zenon DEF old
      <3> QED
        BY <1>4, <1>6, <3>1, Zenon DEF PcallLeft
    <2> QED
      BY <1>1, <2>1, <2>12, <2>19, <2>20, Zenon DEF NoneYields
  <1> QED
    BY <1>4, <1>8, <1>9, Zenon DEF Point

\* a yielded coroutine goes on in the Gafq functions it has
LEMMA ResumedCI ==
  ASSUME NEW q \in Seq(Kind), q # <<>>, q[1] = "G"
  PROVE  LET c == IF Last(q) = "C" THEN Front(q) ELSE q
         IN  /\ c \in Seq(Kind) /\ Len(c) \in Nat /\ Len(c) > 0 /\ Len(c) <= Len(q)
             /\ Len(q) \in Nat /\ c # <<>> /\ c[1] = "G"
  <1> DEFINE n == Len(q)
  <1>1. n \in Nat /\ n # 0 /\ Last(q) = q[n]
    BY EmptyLen DEF Last
  <1>2. CASE Last(q) = "C"
    <2>1. n # 1
      BY <1>1, <1>2, Zenon
    <2>2. n - 1 \in 0..n /\ n - 1 > 0 /\ 1 \in 1..n-1 /\ n - 1 <= n /\ n - 1 # 0
      <3> HIDE DEF n
      <3> QED
        BY <1>1, <2>1
    <2>3. Front(q) \in Seq(Kind) /\ Len(Front(q)) = n - 1 /\ Front(q)[1] = q[1]
      BY <2>2, Prefix, Zenon DEF Front
    <2> QED
      BY <1>1, <1>2, <2>2, <2>3, EmptyLen
  <1>3. CASE Last(q) # "C"
    BY <1>1, <1>3
  <1> QED
    BY <1>2, <1>3, Zenon

\* the thread that gafq_resume runs, counted from its caller's calls ...
From(r0, c) == [r0 EXCEPT !.nCcalls = c]

\* ... and its record in resume, above n frames
Entered(ra, n) ==
  [ra EXCEPT !.nCcalls = @ + 1, !.baseCcalls = ra.nCcalls + 1, !.errorJmp = n + 1]

\* these records change what they say and nothing else
LEMMA ResumeRecord ==
  ASSUME NEW k \in Nat, NEW c \in Int, NEW r0 \in ThreadState
  PROVE  /\ From(r0, c) \in ThreadState /\ From(r0, c).nCcalls = c
         /\ From(r0, c).status = r0.status /\ From(r0, c).ci = r0.ci
         /\ From(r0, c).size_ci = r0.size_ci
         /\ From(r0, c).allowhook = r0.allowhook /\ From(r0, c).errfunc = r0.errfunc
         /\ Entered(From(r0, c), k) \in ThreadState
         /\ Entered(From(r0, c), k).nCcalls = c + 1 /\ Entered(From(r0, c), k).baseCcalls = c + 1
         /\ Entered(From(r0, c), k).errorJmp = k + 1
         /\ Entered(From(r0, c), k).status = r0.status /\ Entered(From(r0, c), k).fun = r0.fun
         /\ Entered(From(r0, c), k).ci = r0.ci /\ Entered(From(r0, c), k).size_ci = r0.size_ci
         /\ Entered(From(r0, c), k).allowhook = r0.allowhook
         /\ Entered(From(r0, c), k).errfunc = r0.errfunc
  <1> DEFINE ra == From(r0, c)
             rb == [ra EXCEPT !.nCcalls = c + 1]
             rc == [rb EXCEPT !.baseCcalls = c + 1]
             r1 == [rc EXCEPT !.errorJmp = k + 1]
  <1>1. /\ ra \in ThreadState /\ ra.nCcalls = c /\ ra.status = r0.status /\ ra.ci = r0.ci
        /\ ra.size_ci = r0.size_ci /\ ra.fun = r0.fun
        /\ ra.allowhook = r0.allowhook /\ ra.errfunc = r0.errfunc
    BY Zenon DEF ThreadState, From
  <1>2. Entered(ra, k) = r1
    BY <1>1, Zenon DEF Entered
  <1> HIDE DEF ra
  <1>3. c + 1 \in Int /\ k + 1 \in Nat
    OBVIOUS
  <1>4. /\ rb \in ThreadState /\ rb.nCcalls = c + 1 /\ rb.status = r0.status /\ rb.ci = r0.ci
        /\ rb.size_ci = r0.size_ci /\ rb.fun = r0.fun
        /\ rb.allowhook = r0.allowhook /\ rb.errfunc = r0.errfunc
    <2>0. ra \in ThreadState /\ c + 1 \in Int
      BY <1>1, <1>3, Zenon
    <2>1. rb \in ThreadState
      BY <2>0, Zenon DEF ThreadState
    <2>2. rb.nCcalls = c + 1 /\ \A f \in DOMAIN ra : f # "nCcalls" => rb[f] = ra[f]
      BY <2>0, Zenon DEF ThreadState
    <2> HIDE DEF rb
    <2> QED
      BY <1>1, <1>3, <2>0, <2>1, <2>2, Zenon DEF ThreadState
  <1> HIDE DEF rb
  <1>5. /\ rc \in ThreadState /\ rc.nCcalls = c + 1 /\ rc.status = r0.status /\ rc.ci = r0.ci
        /\ rc.size_ci = r0.size_ci /\ rc.fun = r0.fun /\ rc.baseCcalls = c + 1
        /\ rc.allowhook = r0.allowhook /\ rc.errfunc = r0.errfunc
    <2>0. rb \in ThreadState /\ c + 1 \in Int
      BY <1>3, <1>4, Zenon
    <2>1. rc \in ThreadState
      BY <2>0, Zenon DEF ThreadState
    <2>2. rc.baseCcalls = c + 1 /\ \A f \in DOMAIN rb : f # "baseCcalls" => rc[f] = rb[f]
      BY <2>0, Zenon DEF ThreadState
    <2> HIDE DEF rc
    <2> QED
      BY <1>3, <1>4, <2>0, <2>1, <2>2, Zenon DEF ThreadState
  <1> HIDE DEF rc
  <1>6. /\ r1 \in ThreadState /\ r1.nCcalls = c + 1 /\ r1.status = r0.status /\ r1.ci = r0.ci
        /\ r1.size_ci = r0.size_ci /\ r1.fun = r0.fun /\ r1.baseCcalls = c + 1
        /\ r1.allowhook = r0.allowhook /\ r1.errfunc = r0.errfunc /\ r1.errorJmp = k + 1
    <2>0. rc \in ThreadState /\ k + 1 \in Nat
      BY <1>3, <1>5, Zenon
    <2>1. r1 \in ThreadState
      BY <2>0, Zenon DEF ThreadState
    <2>2. r1.errorJmp = k + 1 /\ \A f \in DOMAIN rc : f # "errorJmp" => r1[f] = rc[f]
      BY <2>0, Zenon DEF ThreadState
    <2> HIDE DEF r1
    <2> QED
      BY <1>3, <1>5, <2>0, <2>1, <2>2, Zenon DEF ThreadState
  <1> HIDE DEF r1
  <1> QED
    BY <1>1, <1>2, <1>6, Zenon DEF ra

\* gafqD_precall changes nothing of the record but its CallInfos
LEMMA PrecallSame ==
  ASSUME NEW cs, NEW r \in ThreadState, NEW kind \in Kind
  PROVE  Same(precall(cs, r, kind).r, r)
  BY PrecallRecord, Zenon

\* a coroutine that starts or goes on has no CallInfo below its resume
LEMMA ResumeLeveled ==
  ASSUME IInv, in("cfun"), NEW fr \in Frame, fr.f = "resume", fr.n = 0,
         \A i \in 1..Len(cstack) : cstack[i].th # fr.th,
         NEW S1, \A th \in Thread : th # fr.th => S1[th].ci = T[th].ci
  PROVE  \E m1 : LevelsBy(Append(cstack, fr), S1, m1) /\ depth(Append(cstack, fr), m1) = 0
  <1> DEFINE n == Len(cstack)
  <1>1. /\ L = top(cstack) /\ Frames(cstack, T) /\ T[L] \in ThreadState
        /\ Leveled(cstack, T, T[L]) /\ cstack \in Seq(Frame)
    BY InvRuns, Zenon DEF IInv
  <1>2. cstack # <<>> /\ cstack[n].f = "cfun" /\ n \in 1..n
    BY InvIn, InvRuns, Zenon DEF IInv
  <1>3. PICK m : LevelsBy(cstack, T, m) /\ Len(T[L].ci) = depth(cstack, m)
    BY <1>1, Zenon DEF Leveled
  <1>4. T[L].ci # <<>>
    BY <1>1, <1>2, <1>3, LevelType, EmptyLen DEF depth, weight, ThreadState
  <1> QED
    BY <1>1, <1>2, <1>3, <1>4, LevelsResume

\* gafq_resume, whether it refuses, starts the coroutine or continues it
LEMMA ResumeLevels ==
  ASSUME IInv, NEW co \in Thread, Resume(co)
  PROVE  IInv' /\ PcallLeft /\ NoneYields
  <1> DEFINE n == Len(cstack)
             k == T[L].nCcalls
             ra == [T[co] EXCEPT !.nCcalls = k]
             r1 == [ra EXCEPT !.nCcalls = @ + 1, !.baseCcalls = ra.nCcalls + 1,
                              !.errorJmp = n + 1]
             fr == recovery("resume", co, ra)
             cs1 == Append(cstack, fr)
  <1>1. /\ L = top(cstack) /\ L \in Thread /\ Frames(cstack, T) /\ T[L] \in ThreadState
        /\ Leveled(cstack, T, T[L]) /\ T[co] \in ThreadState
        /\ cstack \in Seq(Frame) /\ Inv /\ n \in Nat /\ T \in [Thread -> ThreadState]
        /\ \A th \in Thread : Held(th, T[th])
        /\ k \in Nat /\ k = Calls(cstack, n)
    BY InvRuns, Zenon DEF IInv
  <1>2. in("cfun") /\ co # L /\ suspended(co)
    BY Zenon DEF Resume
  <1>3. /\ \A i \in 1..n : cstack[i].th # co
        /\ co # mainthread /\ T[co].allowhook /\ T[co].errfunc = "none"
        /\ T[co].status = "yield" => ~T[co].fun
        /\ T[co].status # "yield" => T[co].status = "ok" /\ T[co].fun
    BY <1>1, <1>2, SuspendedOff, Zenon
  <1>4. cstack # <<>> /\ cstack[n].f = "cfun" /\ pending = "none" /\ k < MAXCCALLS + EXTRA_CCALLS
    BY <1>1, <1>2, InvIn, Zenon
  <1>5. /\ k >= MAXCCALLS => /\ cstack' = cstack /\ pending' = "none"
                             /\ T' = [T EXCEPT ![co] = [ra EXCEPT !.fun = FALSE]]
        /\ k < MAXCCALLS => LET s == resume(cs1, r1) IN
                            cstack' = s.cs /\ T' = [T EXCEPT ![co] = s.r] /\ pending' = s.err
    <2>1. ra.nCcalls = k
      BY <1>1, Zenon DEF ThreadState
    <2>2. k < MAXCCALLS => ~(k >= MAXCCALLS)
      BY <1>1, LimitsAssumption
    <2> QED
      BY <2>1, <2>2, Zenon DEF Resume, setlevel, done
  <1>6. /\ ra \in ThreadState /\ ra.nCcalls = k /\ ra.status = T[co].status /\ ra.ci = T[co].ci
        /\ ra.size_ci = T[co].size_ci
        /\ ra.allowhook = T[co].allowhook /\ ra.errfunc = T[co].errfunc
        /\ r1 \in ThreadState /\ r1.nCcalls = k + 1 /\ r1.baseCcalls = k + 1
        /\ r1.errorJmp = n + 1 /\ r1.status = T[co].status /\ r1.fun = T[co].fun
        /\ r1.ci = T[co].ci /\ r1.size_ci = T[co].size_ci
        /\ r1.allowhook = T[co].allowhook /\ r1.errfunc = T[co].errfunc
    <2>1. k \in Int /\ n \in Nat /\ T[co] \in ThreadState
      BY <1>1
    <2>2. ra = From(T[co], k)
      BY Zenon DEF From
    <2>3. r1 = Entered(ra, n)
      <3> HIDE DEF ra, n
      <3> QED
        BY Zenon DEF Entered
    <2> HIDE DEF k, n, ra, r1
    <2> QED
      BY <2>1, <2>2, <2>3, ResumeRecord
  <1>7. fr \in Frame /\ fr.f = "resume" /\ fr.th = co /\ fr.n = 0
    BY <1>6, RecoveryFrame DEF FName
  <1>8. /\ cs1 \in Seq(Frame) /\ cs1 # <<>> /\ Len(cs1) = n + 1 /\ top(cs1) = co
        /\ cs1[Len(cs1)] = fr /\ Last(cs1).th = co
    BY <1>1, <1>7, Pushed DEF Last
  <1>9. CASE k >= MAXCCALLS
    <2> HIDE DEF ra
    <2> DEFINE r == [ra EXCEPT !.fun = FALSE]
    <2>1. /\ r \in ThreadState /\ r.status = T[co].status /\ r.ci = T[co].ci /\ ~r.fun
          /\ r.size_ci = T[co].size_ci /\ r.allowhook /\ r.errfunc = "none"
      BY <1>3, <1>6, Zenon DEF ThreadState
    <2>2. cstack' = cstack /\ pending' = "none" /\ T' = [T EXCEPT ![co] = r]
      BY <1>5, <1>9, Zenon
    <2> HIDE DEF r
    <2>3. ThreadOK(r) /\ Held(co, r)
      BY <1>1, <2>1, HeldSame, Zenon DEF ThreadOK
    <2>4. Base(cstack, T')
      BY <1>1, <1>3, <2>1, <2>2, <2>3, OffInv, Zenon
    <2>5. Inv'
      BY <1>1, <1>4, <2>2, <2>4, Zenon DEF Inv, Good
    <2>6. T'[L] = T[L] /\ T'[co] = r /\ \A th \in Thread : th # co => T'[th] = T[th]
      BY <1>1, <1>2, <2>2, Zenon
    <2>7. Leveled(cstack, T', T'[L])
      BY <1>1, <1>3, <2>6, LeveledOff
    <2>8. \A th \in Thread : Held(th, T'[th])
      BY <1>1, <2>3, <2>6, Zenon
    <2>9. IInv'
      BY <1>1, <2>2, <2>5, <2>7, <2>8, NewIInv, Zenon
    <2>10. Kept /\ Len(cstack') \in Nat
      BY <1>1, <2>2 DEF Kept
    <2>11. NoneYields
      BY <2>1, <2>6, Zenon DEF NoneYields
    <2> QED
      BY <2>9, <2>10, <2>11, KeptLeft, Zenon
  <1>10. CASE k < MAXCCALLS /\ T[co].status = "ok"
    <2> HIDE DEF r1, fr
    <2> DEFINE r2 == [r1 EXCEPT !.fun = FALSE]
               S1 == [T EXCEPT ![co] = r2]
               s == precall(cs1, r2, "G")
    <2>1. cstack' = s.cs /\ T' = [T EXCEPT ![co] = s.r] /\ pending' = s.err
      BY <1>5, <1>6, <1>10, Zenon DEF resume
    <2>2. /\ r2 \in ThreadState /\ r2.status = "ok" /\ ~r2.fun /\ r2.allowhook /\ r2.errfunc = "none"
          /\ r2.nCcalls = k + 1 /\ r2.baseCcalls = k + 1 /\ r2.errorJmp = n + 1
          /\ r2.ci = T[co].ci /\ r2.size_ci = T[co].size_ci
      BY <1>3, <1>6, <1>10, Zenon DEF ThreadState
    <2> HIDE DEF r2
    <2>3. Runs(cs1, S1, r2) /\ Calls(cs1, Len(cs1)) = k + 1
      BY <1>1, <1>2, <1>3, <1>7, <2>2, ResumeRuns, Zenon
    <2>4. k + 1 < MAXCCALLS + EXTRA_CCALLS
      <3> HIDE DEF k
      <3> QED
        BY <1>1, <1>10, LimitsAssumption
    <2>5. "G" \in Kind /\ cs1[Len(cs1)].f = "resume"
      BY <1>7, <1>8, Zenon DEF Kind
    <2> HIDE DEF cs1
    <2>6. Fits(s, S1, co)
      <3>1. Fits(precall(cs1, r2, "G"), S1, top(cs1))
        BY <1>8, <2>3, <2>4, <2>5, PrecallFits, Zenon
      <3> QED
        BY <1>8, <3>1, Zenon
    <2>7. Leveled(cs1, S1, r2) /\ Frames(cs1, S1)
      <3>1. \A th \in Thread : th # fr.th => S1[th].ci = T[th].ci
        BY <1>1, <1>7, Zenon
      <3>2. PICK m1 : LevelsBy(cs1, S1, m1) /\ depth(cs1, m1) = 0
        BY <1>2, <1>3, <1>7, <3>1, ResumeLeveled, Zenon DEF cs1
      <3>3. Len(r2.ci) = 0
        BY <1>2, <1>10, <2>2 DEF suspended
      <3>4. Held(co, r2)
        BY <1>1, <1>10, <2>2, HeldSame, Zenon
      <3> QED
        BY <1>8, <2>3, <3>2, <3>3, <3>4, Zenon DEF Leveled, Runs
    <2>8. LFits(s, S1, co)
      <3>1. LFits(precall(cs1, r2, "G"), S1, top(cs1))
        BY <1>8, <2>2, <2>5, <2>7, PrecallLeveled, Zenon
      <3> QED
        BY <1>8, <3>1, Zenon
    <2>9. Len(s.cs) >= n + 1
      BY <1>8, <2>2, <2>5, CallsAdd, Zenon
    <2>10. s.r.status = "ok"
      <3>1. Same(precall(cs1, r2, "G").r, r2)
        <4>1. r2 \in ThreadState /\ "G" \in Kind
          BY <2>2, <2>5, Zenon
        <4> QED
          BY <4>1, PrecallSame, Zenon
      <3>2. s.r.status = r2.status
        BY <3>1, Zenon DEF Same
      <3> QED
        BY <2>2, <3>2, Zenon
    <2> HIDE DEF s
    <2>11. [S1 EXCEPT ![co] = s.r] = T'
      BY <1>1, <2>1, Zenon
    <2> HIDE DEF S1
    <2>12. Inv'
      BY <2>1, <2>6, <2>11, Zenon DEF Fits, Inv
    <2>13. Leveled(cstack', T', T'[top(cstack')]) /\ Held(co, s.r)
      BY <2>1, <2>8, <2>11, Zenon DEF LFits
    <2>14. \A th \in Thread : Held(th, T'[th])
      BY <1>1, <2>1, <2>13, Zenon
    <2>15. IInv'
      BY <2>12, <2>13, <2>14, NewIInv, Zenon
    <2>16. Len(cstack') \in Nat
      BY <2>12 DEF Inv, Good, Base, Frames
    <2>17. Kept
      BY <1>1, <2>1, <2>9, <2>16 DEF Kept
    <2>18. NoneYields
      BY <1>1, <2>1, <2>10, Zenon DEF NoneYields
    <2> QED
      BY <2>15, <2>16, <2>17, <2>18, KeptLeft, Zenon
  <1>11. CASE k < MAXCCALLS /\ T[co].status = "yield"
    <2> HIDE DEF r1, fr
    <2> DEFINE q == IF Last(T[co].ci) = "C" THEN Front(T[co].ci) ELSE T[co].ci
               ry == [r1 EXCEPT !.status = "ok"]
               r2 == [ry EXCEPT !.ci = q]
               fe == [frame("execute", co) EXCEPT !.n = Len(q)]
               S1 == [T EXCEPT ![co] = r2]
               cs2 == Append(cs1, fe)
    <2>1. cstack' = cs2 /\ T' = S1 /\ pending' = "none"
      BY <1>5, <1>6, <1>8, <1>11, Zenon DEF resume, done
    <2>2. /\ T[co].ci \in Seq(Kind) /\ T[co].ci # <<>> /\ T[co].ci[1] = "G"
          /\ Len(T[co].ci) < T[co].size_ci /\ T[co].size_ci \in Nat
      BY <1>1, <1>3, <1>11, Zenon DEF ThreadState, Held
    <2>3. /\ q \in Seq(Kind) /\ Len(q) \in Nat /\ Len(q) > 0 /\ Len(q) <= Len(T[co].ci)
          /\ Len(T[co].ci) \in Nat /\ q # <<>> /\ q[1] = "G"
      BY <2>2, ResumedCI, Zenon
    <2> HIDE DEF q
    <2>4. /\ ry \in ThreadState /\ ry.status = "ok" /\ ~ry.fun /\ ry.allowhook /\ ry.errfunc = "none"
          /\ ry.nCcalls = k + 1 /\ ry.baseCcalls = k + 1 /\ ry.errorJmp = n + 1
          /\ ry.size_ci = T[co].size_ci
      BY <1>3, <1>6, <1>11, Zenon DEF ThreadState
    <2> HIDE DEF ry
    <2>5. /\ r2 \in ThreadState /\ r2.status = "ok" /\ ~r2.fun /\ r2.allowhook /\ r2.errfunc = "none"
          /\ r2.nCcalls = k + 1 /\ r2.baseCcalls = k + 1 /\ r2.errorJmp = n + 1
          /\ r2.ci = q /\ r2.size_ci = T[co].size_ci
      BY <2>3, <2>4, Zenon DEF ThreadState
    <2> HIDE DEF r2
    <2>6. fe \in Frame /\ fe.f = "execute" /\ fe.th = co /\ fe.n = Len(q)
      <3> DEFINE c == Len(q)
      <3>1. c \in Nat
        BY <2>3, Zenon
      <3> HIDE DEF c
      <3>2. LET f == [frame("execute", co) EXCEPT !.n = c] IN
            f \in Frame /\ f.f = "execute" /\ f.th = co /\ f.n = c
        BY <3>1, NewExecute, Zenon
      <3> QED
        BY <3>2, Zenon DEF c
    <2> HIDE DEF fe
    <2>7. Runs(cs1, S1, r2) /\ Calls(cs1, Len(cs1)) = k + 1
      BY <1>1, <1>2, <1>3, <1>7, <2>5, ResumeRuns, Zenon
    <2>8. k + 1 < MAXCCALLS + EXTRA_CCALLS
      <3> HIDE DEF k
      <3> QED
        BY <1>1, <1>11, LimitsAssumption
    <2>9. cs1[Len(cs1)].f = "resume"
      BY <1>7, <1>8, Zenon
    <2>10. Held(co, r2)
      <3> DEFINE a == Len(q)
                 b == Len(T[co].ci)
                 d == T[co].size_ci
      <3>1. a \in Nat /\ b \in Nat /\ d \in Nat /\ a <= b /\ b < d
        BY <2>2, <2>3, Zenon
      <3> HIDE DEF a, b, d
      <3>2. a < d
        BY <3>1
      <3>3. Len(r2.ci) < r2.size_ci
        BY <2>5, <3>2, Zenon DEF a, d
      <3> QED
        BY <2>3, <2>5, <3>3, Zenon DEF Held
    <2>11. PICK m1 : LevelsBy(cs1, S1, m1) /\ depth(cs1, m1) = 0
      <3>1. \A th \in Thread : th # fr.th => S1[th].ci = T[th].ci
        BY <1>1, <1>7, Zenon
      <3> QED
        BY <1>2, <1>3, <1>7, <3>1, ResumeLeveled, Zenon
    <2> HIDE DEF cs1
    <2>12. Frames(cs1, S1)
      BY <2>7, Zenon DEF Runs
    <2>13. /\ cs2 # <<>> /\ cs2[Len(cs2)].f = "execute" /\ top(cs2) = co /\ Len(cs2) = n + 1 + 1
           /\ cs2 \in Seq(Frame)
      BY <1>8, <2>6, Pushed
    <2>14. Leveled(cs2, S1, r2)
      <3>1. /\ IF fe.f = "execute" THEN fe.n > 0 ELSE fe.n = 0
            /\ fe.f # "resume" /\ ~(fe.f = "pcall") /\ fe.th = top(cs1)
        BY <1>8, <2>3, <2>6, Zenon
      <3> DEFINE m2 == [i \in 1..Len(cs1)+1 |-> IF i = Len(cs1)+1 THEN depth(cs1, m1) ELSE m1[i]]
      <3>2. LevelsBy(cs2, S1, m2) /\ depth(cs2, m2) = depth(cs1, m1) + weight(fe)
        BY <1>8, <2>6, <2>11, <2>12, <3>1, LevelsPush
      <3> HIDE DEF m2
      <3>3. weight(fe) = Len(q)
        BY <2>6, Zenon DEF weight
      <3>4. Len(r2.ci) = depth(cs2, m2)
        BY <2>3, <2>5, <2>11, <3>2, <3>3
      <3> QED
        BY <2>10, <2>13, <3>2, <3>4, Zenon DEF Leveled
    <2>15. Runs(cs2, S1, r2)
      <3>1. Same(r2, r2) /\ r2.allowhook = (r2.allowhook /\ fe.f # "hook")
        <4>1. r2.allowhook \in BOOLEAN
          BY <2>5, Zenon DEF ThreadState
        <4> QED
          BY <2>5, <2>6, <4>1, Zenon DEF Same
      <3>2. MayCall("resume", "execute") /\ "execute" \notin CCall /\ "execute" \notin Point
        BY Zenon DEF MayCall, CCall, Point
      <3> QED
        BY <1>8, <2>6, <2>7, <2>9, <3>1, <3>2, RunsPush, Zenon
    <2>16. S1[co] = r2 /\ [S1 EXCEPT ![co] = r2] = S1 /\ \A th \in Thread : th # co => S1[th] = T[th]
      BY <1>1, Zenon
    <2> HIDE DEF S1, cs2
    <2>17. Inv'
      <3>1. Calls(cs2, Len(cs2)) < MAXCCALLS + EXTRA_CCALLS
        BY <2>5, <2>8, <2>15, RunsCalls, Zenon
      <3>2. Good(cs2, [S1 EXCEPT ![top(cs2)] = r2], "none")
        BY <2>13, <2>15, <3>1, RunsFits, Zenon DEF Bounded, Pending
      <3> QED
        BY <2>1, <2>13, <2>16, <3>2, Zenon DEF Inv
    <2>18. \A th \in Thread : Held(th, T'[th])
      BY <1>1, <2>1, <2>10, <2>16, Zenon
    <2>19. IInv'
      BY <2>1, <2>13, <2>14, <2>16, <2>17, <2>18, NewIInv, Zenon
    <2>20. Kept /\ Len(cstack') \in Nat
      BY <1>1, <2>1, <2>13 DEF Kept
    <2>21. NoneYields
      BY <2>1, <2>5, <2>16, Zenon DEF NoneYields
    <2> QED
      BY <2>19, <2>20, <2>21, KeptLeft, Zenon
  <1> QED
    <2>1. k >= MAXCCALLS \/ k < MAXCCALLS
      <3> HIDE DEF k
      <3> QED
        BY <1>1, LimitsAssumption
    <2> QED
      BY <1>3, <1>9, <1>10, <1>11, <2>1, Zenon

\* gafq_yield leaves three frames: of the function that yields, of the execute
\* that called it and of the resume
LEMMA YieldLevels ==
  ASSUME IInv, Yield
  PROVE  /\ IInv' /\ PcallLeft
         /\ NoneYields \/ ( /\ cstack' = SubSeq(cstack, 1, Len(cstack) - 3)
                            /\ cstack[Len(cstack) - 2].f = "resume")
  <1> DEFINE n == Len(cstack)
             es == Front(cstack)
             ds == Front(es)
             r == [T[L] EXCEPT !.status = "yield", !.allowhook = T[L].allowhook \/ in("hook")]
  <1>1. /\ L = top(cstack) /\ L \in Thread /\ Frames(cstack, T) /\ T[L] \in ThreadState
        /\ Leveled(cstack, T, T[L]) /\ T[L].status = "ok" /\ ~T[L].fun
        /\ cstack \in Seq(Frame) /\ Inv /\ n \in Nat /\ T \in [Thread -> ThreadState]
        /\ At(cstack, n, T[L]) /\ Calls(cstack, n) \in Nat
        /\ \A th \in Thread : Held(th, T[th])
    BY InvRuns, Zenon DEF IInv, Runs
  <1>2. /\ in("cfun") \/ (in("hook") /\ Last(es).f = "execute")
        /\ Do(IF ~canyield THEN raise(cstack, T[L], "runerror")
              ELSE returnto(IF Last(es).f = "execute" THEN Front(es) ELSE es, r))
    BY Zenon DEF Yield
  <1>3. /\ cstack # <<>> /\ cstack[n].f \in {"cfun", "hook"} /\ n \in 1..n
        /\ Calls(cstack, n) < MAXCCALLS + EXTRA_CCALLS
        /\ ~in("hook") => cstack[n].f = "cfun"
    BY <1>1, <1>2, InvIn, InvRuns, Zenon
  <1>4. CASE ~canyield
    <2>1. cstack' = cstack /\ T' = T /\ pending' = "runerror"
      BY <1>1, <1>2, <1>4, Zenon DEF Do, raise
    <2>2. Inv'
      BY <1>1, <1>3, <2>1, Zenon DEF Inv, Good, Bounded, Pending
    <2>3. L' = L
      BY <2>1, Zenon DEF L
    <2>4. IInv'
      BY <2>1, <2>2, <2>3, Zenon DEF IInv
    <2>5. Kept /\ Len(cstack') \in Nat /\ NoneYields
      BY <1>1, <2>1 DEF Kept, NoneYields
    <2> QED
      BY <2>4, <2>5, KeptLeft, Zenon
  <1>5. CASE canyield
    <2>1. /\ n - 2 \in 2..n /\ cstack[n-2].f = "resume" /\ cstack[n-1].f = "execute"
          /\ cstack[n-2].th = L /\ cstack[n-1].th = L
          /\ \A k \in 1..n-3 : cstack[k].th # L
      <3>1. ASSUME cstack[n].f = "hook"
            PROVE  cstack[n-1].f = "execute"
        <4>1. "hook" # "cfun"
          OBVIOUS
        <4>2. Last(es).f = "execute"
          BY <1>2, <3>1, <4>1, Zenon DEF in, Last
        <4>3. FrameOK(cstack, T, n) /\ n \in Nat \ {0}
          BY <1>1, <1>3, Popped, Zenon DEF Frames
        <4>4. n # 1
          BY <3>1, <4>3 DEF FrameOK
        <4>5. n - 1 \in 1..n-1
          <5> HIDE DEF n
          <5> QED
            BY <4>3, <4>4
        <4>6. Len(es) = n - 1 /\ es[n - 1] = cstack[n - 1]
          BY <1>1, <1>3, <4>5, Popped, Zenon
        <4> QED
          BY <4>2, <4>6, Zenon DEF Last
      <3> QED
        BY <1>1, <1>2, <1>5, <3>1, YieldStack, Zenon
    <2>2. /\ n > 3 /\ n - 1 \in 1..n /\ n - 2 \in 1..n /\ 1 \in 1..n-3 /\ 1 \in 1..n
          /\ n - 1 - 1 = n - 2 /\ n - 2 - 1 = n - 3 /\ n - 1 > 1 /\ n - 2 > 1
          /\ n - 3 \in 0..n /\ n - 2 \in Nat /\ n - 2 <= n /\ n - 2 \in 1..n-2 /\ n - 1 \in 1..n-1
          /\ \A i \in 1..n : i \in 1..n-3 \/ i = n - 2 \/ i = n - 1 \/ i = n
      <3> HIDE DEF n
      <3> QED
        BY <1>1, <2>1
    <2>3. /\ es \in Seq(Frame) /\ Len(es) = n - 1 /\ \A i \in 1..n-1 : es[i] = cstack[i]
          /\ es # <<>> /\ Frames(es, T)
      <3>1. n > 1
        <4> HIDE DEF n
        <4> QED
          BY <1>1, <2>2
      <3>2. /\ Front(cstack) \in Seq(Frame) /\ Len(Front(cstack)) = Len(cstack) - 1
            /\ \A i \in 1..Len(cstack)-1 : Front(cstack)[i] = cstack[i]
            /\ Len(cstack) > 1 => Front(cstack) # <<>>
        BY <1>1, <1>3, Popped, Zenon
      <3>3. Frames(Front(cstack), T)
        BY <1>1, <1>3, FramesFront, Zenon
      <3> QED
        BY <3>1, <3>2, <3>3, Zenon
    <2>4. Last(es).f = "execute"
      BY <2>1, <2>2, <2>3, Zenon DEF Last
    <2>5. Do(returnto(ds, r))
      BY <1>2, <1>5, <2>4, Zenon
    <2> HIDE DEF es
    <2>6. /\ ds \in Seq(Frame) /\ Len(ds) = n - 2 /\ \A i \in 1..n-2 : ds[i] = es[i]
          /\ ds # <<>> /\ Frames(ds, T)
      <3>1. Len(es) > 1
        BY <2>2, <2>3, Zenon
      <3>2. /\ Front(es) \in Seq(Frame) /\ Len(Front(es)) = Len(es) - 1
            /\ \A i \in 1..Len(es)-1 : Front(es)[i] = es[i] /\ Front(es) # <<>>
        BY <2>3, <3>1, Popped, Zenon
      <3>3. Frames(Front(es), T)
        BY <2>3, FramesFront, Zenon
      <3> QED
        BY <2>2, <2>3, <3>1, <3>2, <3>3, Popped, Zenon
    <2> HIDE DEF ds
    <2>7. \A i \in 1..n-2 : ds[i] = cstack[i]
      <3>1. \A i \in 1..n-2 : i \in 1..n-1
        BY <1>1
      <3> QED
        BY <2>3, <2>6, <3>1, Zenon
    <2>8. ds[Len(ds)].f = "resume" /\ top(ds) = L /\ Agree(cstack, ds, n - 2)
      BY <2>1, <2>2, <2>6, <2>7 DEF top, Agree
    <2>9. L # mainthread
      <3>1. FrameOK(cstack, T, 1)
        BY <1>1, <2>2, Zenon DEF Frames
      <3>2. cstack[1].th = mainthread
        BY <3>1, Zenon DEF FrameOK
      <3> QED
        BY <2>1, <2>2, <3>2, Zenon
    <2>10. T[L].ci # <<>>
      BY <1>1, <1>3, <2>9, CoroutineRuns, Zenon
    <2>11. T[L].allowhook \/ in("hook")
      <3>1. SUFFICES ASSUME ~in("hook") PROVE Unhooked(cstack, n)
        BY <1>1, Zenon DEF At
      <3>2. cstack[n].f = "cfun" /\ cstack[n].th = L
        BY <1>1, <1>3, <3>1, Zenon DEF top
      <3> QED
        BY <2>1, <2>2, <3>2, Zenon DEF Unhooked
    <2>12. T[L].errfunc = "none"
      <3> DEFINE j == T[L].errorJmp
      <3>1. j \in 0..n /\ (\A k \in j+1..n : cstack[k].f \notin Point)
            /\ (j > 0 => cstack[j].f \in Point)
        BY <1>1, Zenon DEF At, Innermost
      <3>2. n - 2 \notin j+1..n
        BY <2>1, <3>1, Zenon DEF Point
      <3>3. (j # n /\ j # n - 1) \/ ~(j > 0)
        BY <1>3, <2>1, <3>1, Zenon DEF Point
      <3>4. j = n - 2 /\ j > 0
        <4> HIDE DEF j, n
        <4> QED
          BY <1>1, <2>2, <3>1, <3>2, <3>3
      <3> QED
        BY <1>1, <2>1, <3>4, Zenon DEF At, Handled
    <2>13. /\ r \in ThreadState /\ r.status = "yield" /\ ~r.fun /\ r.allowhook /\ r.errfunc = "none"
           /\ r.ci = T[L].ci /\ r.size_ci = T[L].size_ci
      <3> DEFINE b == T[L].allowhook \/ in("hook")
                 ry == [T[L] EXCEPT !.status = "yield"]
      <3>1. b = TRUE
        BY <2>11, Zenon
      <3>2. r = [ry EXCEPT !.allowhook = TRUE]
        BY <3>1, Zenon
      <3>3. /\ ry \in ThreadState /\ ry.status = "yield" /\ ~ry.fun /\ ry.errfunc = "none"
            /\ ry.ci = T[L].ci /\ ry.size_ci = T[L].size_ci
        BY <1>1, <2>12, Zenon DEF ThreadState
      <3> HIDE DEF r, ry
      <3> QED
        BY <3>2, <3>3, Zenon DEF ThreadState
    <2> HIDE DEF r
    <2>14. ThreadOK(r) /\ Held(L, r)
      BY <1>1, <2>10, <2>13, Zenon DEF ThreadOK, Held
    <2>15. Calls(ds, Len(ds)) < MAXCCALLS + EXTRA_CCALLS
      <3>1. Calls(cstack, n - 2) <= Calls(cstack, n) /\ Calls(cstack, n - 2) = Calls(ds, n - 2)
        BY <1>1, <2>2, <2>8, CallsGrow, CallsAgree, Zenon
      <3>2. Calls(ds, n - 2) \in Nat
        BY <2>2, CallsType, Zenon
      <3> DEFINE a == Calls(ds, n - 2)
                 b == Calls(cstack, n)
      <3>3. a \in Nat /\ b \in Nat /\ a <= b /\ b < MAXCCALLS + EXTRA_CCALLS
        BY <1>1, <1>3, <3>1, <3>2, Zenon
      <3> HIDE DEF a, b
      <3>4. a < MAXCCALLS + EXTRA_CCALLS
        BY <3>3, LimitsAssumption
      <3> QED
        BY <2>6, <3>4, Zenon DEF a
    <2>16. Fits(returnto(ds, r), T, top(ds)) /\ returnto(ds, r).cs = Front(ds)
      BY <2>6, <2>8, <2>13, <2>14, <2>15, ReturnResume, Zenon
    <2>17. LFits(returnto(ds, r), T, top(ds))
      <3>1. PICK m : LevelsBy(cstack, T, m)
        BY <1>1, Zenon DEF Leveled
      <3>2. /\ Len(ds) <= Len(cstack) /\ \A i \in 1..Len(ds) : ds[i] = cstack[i]
            /\ top(ds) = top(cstack)
        BY <1>1, <2>2, <2>6, <2>7, <2>8, Zenon
      <3>3. \A th \in Thread : th # top(cstack) => T[th].ci = T[th].ci
        BY Zenon
      <3>4. LevelsBy(ds, T, [i \in 1..Len(ds) |-> m[i]])
        BY <1>1, <2>6, <3>1, <3>2, <3>3, LevelsCut, Zenon
      <3> DEFINE m1 == [i \in 1..Len(ds) |-> m[i]]
      <3> HIDE DEF m1
      <3>5. LevelsBy(ds, T, m1)
        BY <3>4, Zenon DEF m1
      <3> QED
        BY <1>1, <2>6, <2>8, <2>13, <2>14, <3>5, ReturnResumeLeveled, Zenon
    <2> DEFINE s == returnto(ds, r)
    <2>18. Do(s) /\ Fits(s, T, top(cstack)) /\ LFits(s, T, top(cstack)) /\ s.cs = Front(ds)
      BY <1>1, <2>5, <2>8, <2>16, <2>17, Zenon
    <2> HIDE DEF s
    <2>19. IInv'
      BY <1>1, <2>18, DoFits, DoLeveled, Zenon
    <2>20. Front(ds) \in Seq(Frame) /\ Len(Front(ds)) = n - 3 /\ \A i \in 1..n-3 : Front(ds)[i] = ds[i]
      <3>1. /\ Front(ds) \in Seq(Frame) /\ Len(Front(ds)) = Len(ds) - 1
            /\ \A i \in 1..Len(ds)-1 : Front(ds)[i] = ds[i]
        BY <2>6, Popped, Zenon
      <3>2. Len(ds) - 1 = n - 3
        BY <2>2, <2>6, Zenon
      <3> QED
        BY <3>1, <3>2, Zenon
    <2>21. PcallLeft
      <3>1. \A i \in 1..n : n - 3 < i => i = n - 2 \/ i = n - 1 \/ i = n
        <4> HIDE DEF n
        <4> QED
          BY <1>1, <2>2
      <3>2. Restores(cstack, s, T)
        BY <1>3, <2>1, <2>18, <2>20, <3>1, Zenon DEF Restores
      <3> QED
        BY <2>18, <3>2, DoLeft, Zenon
    <2>22. cstack' = SubSeq(cstack, 1, n - 3)
      <3>1. cstack' = Front(ds)
        BY <2>18, Zenon DEF Do
      <3>2. /\ SubSeq(cstack, 1, n - 3) \in Seq(Frame) /\ Len(SubSeq(cstack, 1, n - 3)) = n - 3
            /\ \A i \in 1..n-3 : SubSeq(cstack, 1, n - 3)[i] = cstack[i]
        BY <1>1, <2>2, Prefix
      <3>3. \A i \in 1..n-3 : i \in 1..n-2
        BY <1>1
      <3>4. \A i \in 1..Len(Front(ds)) : Front(ds)[i] = SubSeq(cstack, 1, n - 3)[i]
        BY <2>7, <2>20, <3>2, <3>3, Zenon
      <3> QED
        BY <2>20, <3>1, <3>2, <3>4
    <2> QED
      BY <2>1, <2>19, <2>21, <2>22, Zenon
  <1> QED
    BY <1>4, <1>5, Zenon

\* a thread that is dead has no frame, so that cocreate may take it
LEMMA CoCreateLevels ==
  ASSUME IInv, NEW co \in Thread, CoCreate(co)
  PROVE  IInv' /\ PcallLeft /\ NoneYields
  <1> DEFINE n == Len(cstack)
  <1>1. /\ L = top(cstack) /\ L \in Thread /\ Frames(cstack, T) /\ T[L] \in ThreadState
        /\ Leveled(cstack, T, T[L]) /\ cstack \in Seq(Frame) /\ Inv /\ n \in Nat
        /\ T \in [Thread -> ThreadState] /\ \A th \in Thread : Held(th, T[th])
    BY InvRuns, Zenon DEF IInv
  <1>2. /\ in("cfun") /\ co # mainthread /\ dead(co) /\ cstack' = cstack /\ pending' = pending
        /\ T' = [T EXCEPT ![co] = newthread]
    BY Zenon DEF CoCreate
  <1>3. cstack # <<>> /\ cstack[n].f = "cfun"
    BY <1>1, <1>2, InvIn, Zenon
  <1>4. ASSUME NEW i \in 1..n, cstack[i].th = co
        PROVE  FALSE
    <2>1. T[co].ci = <<>>
      BY <1>1, <1>2, <1>4, Zenon DEF dead, Frames, FrameOK
    <2>2. PICK m : LevelsBy(cstack, T, m)
      BY <1>1, Zenon DEF Leveled
    <2> QED
      BY <1>1, <1>2, <1>3, <1>4, <2>1, <2>2, CoroutineRuns DEF LevelOK, LevelsBy
  <1>5. ThreadOK(newthread) /\ newthread \in ThreadState /\ Held(co, newthread)
    BY LimitsAssumption, NewThread DEF ThreadOK, Held
  <1>6. T'[co] = newthread /\ \A th \in Thread : th # co => T'[th] = T[th]
    BY <1>1, <1>2, Zenon
  <1>7. Inv'
    <2>1. Base(cstack, T')
      BY <1>1, <1>2, <1>4, <1>5, OffInv, Zenon
    <2> QED
      BY <1>1, <1>2, <2>1, Zenon DEF Inv, Good
  <1>8. Leveled(cstack, T', T'[L])
    <2>1. T'[L] = T[L] /\ \A th \in Thread : th # co => T'[th].ci = T[th].ci
      BY <1>1, <1>3, <1>4, <1>6, InvRuns, Zenon DEF top
    <2> QED
      BY <1>1, <1>4, <2>1, LeveledOff, Zenon
  <1>9. NoneYields
    BY <1>6, NewThread, Zenon DEF NoneYields
  <1> QED
    BY <1>1, <1>2, <1>5, <1>6, <1>7, <1>8, <1>9, KeptLeft, NewIInv DEF Kept

\* without a frame there are no CallInfos
LEMMA InitIInv ==
  Init => IInv
  <1> SUFFICES ASSUME Init PROVE IInv
    BY Zenon
  <1> DEFINE r == [newthread EXCEPT !.fun = FALSE]
  <1>1. cstack = <<>> /\ T = [th \in Thread |-> r] /\ Inv /\ L = mainthread /\ mainthread \in Thread
    BY InitInv, LimitsAssumption, Zenon DEF Init, L
  <1>2. r.ci = <<>> /\ r.size_ci = BASIC_CI_SIZE /\ r.status = "ok"
    BY NewThread, Zenon DEF ThreadState
  <1> HIDE DEF r
  <1>3. Len(r.ci) = 0 /\ 0 < BASIC_CI_SIZE
    BY <1>2, LimitsAssumption
  <1>4. \A th \in Thread : Held(th, T[th])
    BY <1>1, <1>2, <1>3, Zenon DEF Held
  <1>5. Leveled(cstack, T, T[L])
    <2> DEFINE m == [i \in 1..Len(cstack) |-> 0]
    <2>1. Len(cstack) = 0 /\ top(cstack) = mainthread
      BY <1>1, Zenon DEF top
    <2>2. m \in [1..Len(cstack) -> Nat]
      BY Zenon
    <2> HIDE DEF m
    <2>3. LevelsBy(cstack, T, m)
      BY <2>1, <2>2 DEF LevelsBy
    <2> QED
      BY <1>1, <1>3, <1>4, <2>1, <2>3, Zenon DEF Leveled, depth
  <1> QED
    BY <1>1, <1>4, <1>5, Zenon DEF IInv

-----------------------------------------------------------------------------
(* Who yields.                                                             *)

\* an operation on the running thread that does not make it yield
LEMMA DoStatus ==
  ASSUME IInv, NEW s, Do(s), s.r.status = "ok"
  PROVE  NoneYields
  BY InvRuns, Zenon DEF IInv, Do, NoneYields

\* calls and returns keep the status
LEMMA PrecallStatus ==
  ASSUME NEW r \in ThreadState, NEW kind \in Kind, NEW cs
  PROVE  precall(cs, r, kind).r \in ThreadState /\ precall(cs, r, kind).r.status = r.status
  <1> DEFINE s == precall(cs, r, kind)
  <1>1. /\ Same(s.r, r) /\ s.r.nCcalls = r.nCcalls /\ s.r.errorJmp = r.errorJmp
        /\ s.r.allowhook = r.allowhook /\ s.r.errfunc = r.errfunc
        /\ s.err \in {"none", "runerror", "ERRERR"}
        /\ s.err # "none" => s.cs = cs
        /\ s.err = "none" =>
             s.cs = IF kind = "C" THEN Append(cs, frame("cfun", Last(cs).th))
                    ELSE IF Last(cs).f = "execute" THEN [cs EXCEPT ![Len(cs)].n = @ + 1]
                    ELSE Append(cs, [frame("execute", Last(cs).th) EXCEPT !.n = 1])
    BY PrecallRecord, Zenon
  <1> HIDE DEF s
  <1> QED
    BY <1>1, Zenon DEF s, Same

\* ... gafqD_call
LEMMA CallStatus ==
  ASSUME NEW r \in ThreadState, NEW kind \in Kind, NEW cs, NEW th
  PROVE  /\ precall(cs, r, kind).r.status = r.status
         /\ call(cs, r, kind, th).r.status = r.status
  <1> DEFINE r2 == [r EXCEPT !.nCcalls = @ + 1]
             ds == Append(cs, frame("call", th))
  <1>1. r2 \in ThreadState /\ r2.status = r.status
    BY CcallType, Zenon DEF ThreadState
  <1>2. \/ call(cs, r, kind, th) = precall(ds, r2, kind)
        \/ \E err : call(cs, r, kind, th) = raise(ds, r2, err)
    BY Zenon DEF call
  <1> HIDE DEF r2, ds
  <1> QED
    BY <1>1, <1>2, PrecallStatus DEF raise

\* ... gafqD_pcall
LEMMA PcallStatus ==
  ASSUME NEW r \in ThreadState, NEW kind \in Kind, NEW handler \in ErrFunc, NEW cs, NEW th,
         Len(cs) \in Nat
  PROVE  pcall(cs, r, kind, handler, th).r.status = r.status
  <1> DEFINE k == Len(cs) + 1
             r0 == [r EXCEPT !.errorJmp = k]
             r1 == [r0 EXCEPT !.errfunc = handler]
             ds == Append(cs, recovery("pcall", th, r))
  <1>1. k \in Nat
    OBVIOUS
  <1>2. pcall(cs, r, kind, handler, th) = call(ds, r1, kind, th)
    BY Zenon DEF pcall
  <1> HIDE DEF k
  <1>3. r0 \in ThreadState /\ r0.status = r.status
    BY <1>1, Zenon DEF ThreadState
  <1> HIDE DEF r0
  <1>4. r1 \in ThreadState /\ r1.status = r.status
    BY <1>3, Zenon DEF ThreadState
  <1> HIDE DEF r1, ds
  <1> QED
    BY <1>2, <1>4, CallStatus

\* ... and what follows a return
LEMMA ReturnStatus ==
  ASSUME NEW r \in ThreadState, NEW cs
  PROVE  returnto(cs, r).r.status = r.status
  BY Zenon DEF ThreadState, returnto, done, raise

\* only gafq_yield gives a thread the status of a yielded one
LEMMA OthersYieldNot ==
  ASSUME IInv,
         \/ \E kind \in Kind : HostCall(kind) \/ OpCall(kind) \/ Call(kind)
         \/ \E kind \in Kind, handler \in Handler : PCall(kind, handler)
         \/ OpTailcall \/ OpReturn \/ CReturn \/ Hook \/ HookReturn
         \/ \E err \in {"runerror", "ERRMEM"} : Error(err)
         \/ ErrorMsg
  PROVE  NoneYields
  <1> DEFINE r0 == [T[L] EXCEPT !.ci = Front(@)]
  <1>1. /\ L \in Thread /\ T \in [Thread -> ThreadState] /\ T[L] \in ThreadState
        /\ T[L].status = "ok" /\ Len(cstack) \in Nat /\ Inv /\ Handler \subseteq ErrFunc
        /\ "none" \in ErrFunc
    BY InvRuns, LimitsAssumption, Zenon DEF IInv, Runs, ErrFunc
  <1>2. r0 \in ThreadState /\ r0.status = "ok"
    BY <1>1, PopCI, Zenon DEF Same
  <1>3. ASSUME NEW kind \in Kind, HostCall(kind) \/ OpCall(kind) \/ Call(kind)
        PROVE  NoneYields
    BY <1>1, <1>3, PcallStatus, DoStatus, CallStatus DEF HostCall, L, OpCall, Call
  <1>4. ASSUME NEW kind \in Kind, NEW handler \in Handler, PCall(kind, handler)
        PROVE  NoneYields
    BY <1>1, <1>4, PcallStatus, DoStatus DEF PCall
  <1>5. CASE OpTailcall
    BY <1>1, <1>5, PrecallStatus, DoStatus DEF OpTailcall, Kind, ThreadState, done
  <1>6. CASE OpReturn
    <2> DEFINE s1 == IF Last(cstack).n > 1 THEN done([cstack EXCEPT ![Len(cstack)].n = @ - 1], r0)
                     ELSE returnto(Front(cstack), r0)
    <2>1. Do(s1)
      BY <1>6, Zenon DEF OpReturn
    <2> HIDE DEF r0
    <2>2. s1.r.status = "ok"
      BY <1>2, ReturnStatus, Zenon DEF done
    <2> HIDE DEF s1
    <2> QED
      BY <2>1, <2>2, DoStatus, Zenon
  <1>7. CASE CReturn
    <2>1. Do(returnto(Front(cstack), r0))
      BY <1>7, Zenon DEF CReturn
    <2> HIDE DEF r0
    <2> QED
      BY <1>2, <2>1, ReturnStatus, DoStatus, Zenon
  <1>8. CASE Hook \/ HookReturn
    BY <1>1, <1>8, DoStatus, Zenon DEF ThreadState, Hook, HookReturn, done
  <1>9. ASSUME NEW err, Error(err)
        PROVE  NoneYields
    BY <1>9, Zenon DEF Error, NoneYields
  <1>10. CASE ErrorMsg
    <2>1. CASE T[L].errfunc \in {"none", "bad"}
      BY <1>1, <1>10, <2>1, DoStatus, Zenon DEF ErrorMsg, raise
    <2>2. CASE T[L].errfunc \notin {"none", "bad"}
      <3>1. call(Append(cstack, frame("errormsg", L)), T[L], T[L].errfunc, L).r.status = "ok"
        BY <1>1, <2>2, CallStatus DEF ErrFunc, Kind, ThreadState
      <3> QED
        BY <1>10, <2>2, <3>1, DoStatus, Zenon DEF ErrorMsg
    <2> QED
      BY <2>1, <2>2, Zenon
  <1> QED
    BY <1>3, <1>4, <1>5, <1>6, <1>7, <1>8, <1>9, <1>10, Zenon

\* each frame of a thread has below it what the frames of the thread below it
\* account for, and a thread that waits has what all of them do
LEMMA LevelsAccounted ==
  ASSUME Inv, NEW m, LevelsBy(cstack, T, m), NEW th \in Thread, NEW f, f[0] = 0,
         \A i \in 1..Len(cstack) : f[i] = f[i-1] + share(th, i), NEW j \in 1..Len(cstack)
  PROVE  /\ cstack[j].th = th => f[j] = m[j] + weight(cstack[j])
         /\ (\A k \in 1..j : cstack[k].th # th) => f[j] = 0
         /\ cstack[j].th # th /\ (\E k \in 1..j : cstack[k].th = th) => f[j] = Len(T[th].ci)
  <1> DEFINE n == Len(cstack)
             P(i) == /\ cstack[i].th = th => f[i] = m[i] + weight(cstack[i])
                     /\ (\A k \in 1..i : cstack[k].th # th) => f[i] = 0
                     /\ cstack[i].th # th /\ (\E k \in 1..i : cstack[k].th = th) => f[i] = Len(T[th].ci)
             A == {i \in 1..n : ~P(i)}
  <1>0. n \in Nat /\ Frames(cstack, T) /\ cstack \in Seq(Frame)
    BY InvRuns, Zenon DEF Frames
  <1>1. \A i \in 1..n : FrameOK(cstack, T, i) /\ LevelOK(cstack, T, m, i)
    BY <1>0, Zenon DEF Frames, LevelsBy
  <1>2. \A i \in 1..n : m[i] \in Nat /\ weight(cstack[i]) \in Nat
    BY <1>0, LevelType, Zenon
  <1>3. \A i \in 1..n : share(th, i) = IF cstack[i].th = th THEN weight(cstack[i]) ELSE 0
    BY Zenon DEF share, weight
  <1>4. ASSUME NEW i \in A, \A y \in A : ~(y < i)
        PROVE  FALSE
    <2>0. i \in 1..n /\ f[i] = f[i-1] + share(th, i)
      BY Zenon
    <2>1. CASE i = 1
      <3>1. f[1] = share(th, 1) /\ m[1] = 0 /\ \A k \in 1..1 : k = 1
        BY <1>1, <1>2, <1>3, <2>0, <2>1 DEF LevelOK
      <3>2. P(1)
        BY <1>2, <1>3, <2>0, <2>1, <3>1
      <3> QED
        BY <2>1, <3>2, Zenon
    <2>2. CASE i # 1
      <3>1. i - 1 \in 1..n /\ i - 1 < i /\ i \in Nat /\ (i - 1) + 1 = i /\ i > 1
        BY <1>0, <2>0, <2>2
      <3>2. P(i-1)
        <4>1. i - 1 \notin A
          BY <1>4, <3>1, Zenon
        <4> HIDE DEF P
        <4> QED
          BY <3>1, <4>1, Zenon
      <3>3. \A k \in 1..i : k \in 1..i-1 \/ k = i
        BY <3>1
      <3>4. CASE cstack[i].th = th /\ cstack[i].f = "resume"
        <4>1. \A k \in 1..i-1 : cstack[k].th # th
          <5>1. \A k \in 1..i-1, l \in i..n : cstack[k].th # cstack[l].th
            BY <1>1, <2>0, <3>4, Zenon DEF FrameOK
          <5>2. i \in i..n
            BY <1>0, <2>0
          <5> QED
            BY <3>4, <5>1, <5>2, Zenon
        <4>2. f[i-1] = 0
          BY <3>2, <4>1, Zenon
        <4>3. m[i] = 0
          BY <1>1, <2>0, <3>4, Zenon DEF LevelOK
        <4>4. f[i] = m[i] + weight(cstack[i])
          BY <1>2, <1>3, <2>0, <3>4, <4>2, <4>3, Zenon
        <4>5. i \in 1..i
          BY <3>1
        <4> QED
          BY <3>4, <4>4, <4>5, Zenon
      <3>5. CASE cstack[i].th = th /\ cstack[i].f # "resume"
        <4>1. cstack[i-1].th = th
          BY <1>1, <2>0, <3>1, <3>5, Zenon DEF FrameOK
        <4>2. f[i-1] = m[i-1] + weight(cstack[i-1])
          BY <3>2, <4>1, Zenon
        <4>3. m[i] = m[i-1] + weight(cstack[i-1])
          BY <1>1, <2>0, <2>2, <3>5, Zenon DEF LevelOK
        <4>4. f[i] = m[i] + weight(cstack[i])
          BY <1>2, <1>3, <2>0, <3>5, <4>2, <4>3, Zenon
        <4>5. i \in 1..i
          BY <3>1
        <4> QED
          BY <3>5, <4>4, <4>5, Zenon
      <3>6. CASE cstack[i].th # th
        <4>0. f[i-1] \in Nat
          <5>1. T[th].ci \in Seq(Kind)
            BY <1>0, Zenon DEF Frames, ThreadState
          <5>2. Len(T[th].ci) \in Nat
            BY <5>1
          <5>3. cstack[i-1].th = th => f[i-1] \in Nat
            <6>1. m[i-1] \in Nat /\ weight(cstack[i-1]) \in Nat
              BY <1>2, <3>1, Zenon
            <6>2. m[i-1] + weight(cstack[i-1]) \in Nat
              BY <6>1
            <6> QED
              BY <3>2, <6>2, Zenon
          <5>4. f[i-1] \in Nat \/ f[i-1] = 0
            BY <3>2, <5>2, <5>3, Zenon
          <5> QED
            BY <5>4
        <4>1. f[i] = f[i-1]
          BY <1>3, <2>0, <3>6, <4>0
        <4>2. (\A k \in 1..i : cstack[k].th # th) => f[i] = 0
          <5>1. 1..i-1 \subseteq 1..i
            BY <3>1
          <5> QED
            BY <3>2, <4>1, <5>1, Zenon
        <4>3. (\E k \in 1..i : cstack[k].th = th) => f[i] = Len(T[th].ci)
          <5>1. CASE cstack[i-1].th = th
            <6>1. cstack[i].f = "resume"
              BY <1>1, <2>0, <3>1, <3>6, <5>1, Zenon DEF FrameOK
            <6>2. Len(T[cstack[i-1].th].ci) = m[i-1] + weight(cstack[i-1])
              <7>1. LevelOK(cstack, T, m, i - 1) /\ i - 1 < n
                BY <1>0, <1>1, <2>0, <3>1
              <7>2. cstack[(i - 1) + 1].f = "resume"
                BY <3>1, <6>1, Zenon
              <7> QED
                BY <7>1, <7>2, Zenon DEF LevelOK
            <6> QED
              BY <3>2, <4>1, <5>1, <6>2, Zenon
          <5>2. CASE cstack[i-1].th # th
            BY <3>2, <3>3, <3>6, <4>1, <5>2, Zenon
          <5> QED
            BY <5>1, <5>2, Zenon
        <4> QED
          BY <3>6, <4>2, <4>3, Zenon
      <3> QED
        BY <3>4, <3>5, <3>6, Zenon
    <2> QED
      BY <2>1, <2>2, Zenon
  <1>5. A = {}
    <2>1. A \subseteq Nat
      BY <1>0
    <2> HIDE DEF A
    <2> QED
      BY <1>4, <2>1, LeastOf, Zenon
  <1> QED
    BY <1>5, Zenon

\* the CallInfos of every thread on the stack
LEMMA InfosAccounted ==
  ASSUME IInv, NEW j \in 1..Len(cstack)
  PROVE  Len(T[cstack[j].th].ci) = accounted(cstack[j].th)
  <1> DEFINE n == Len(cstack)
             th == cstack[j].th
  <1>0. Inv /\ n \in Nat /\ L = top(cstack) /\ cstack \in Seq(Frame) /\ n \in 1..n /\ j \in 1..n
    BY InvRuns DEF IInv, Frames
  <1>1. th \in Thread
    BY <1>0, FrameType, Zenon DEF Frame
  <1>2. PICK m : LevelsBy(cstack, T, m) /\ Len(T[L].ci) = depth(cstack, m)
    BY Zenon DEF IInv, Leveled
  <1>3. PICK f : accounted(th) = f[n] /\ f[0] = 0 /\ \A i \in 1..n : f[i] = f[i-1] + share(th, i)
    BY <1>0, AccountedIs, Zenon
  <1>4. /\ cstack[n].th = th => f[n] = m[n] + weight(cstack[n])
        /\ cstack[n].th # th /\ (\E k \in 1..n : cstack[k].th = th) => f[n] = Len(T[th].ci)
    BY <1>0, <1>1, <1>2, <1>3, LevelsAccounted
  <1>5. CASE cstack[n].th = th
    <2>1. cstack # <<>> /\ L = th
      BY <1>0, <1>5 DEF top
    <2>2. Len(T[L].ci) = m[n] + weight(cstack[n])
      BY <1>2, <2>1, Zenon DEF depth
    <2> QED
      BY <1>3, <1>4, <1>5, <2>1, <2>2, Zenon
  <1>6. CASE cstack[n].th # th
    BY <1>0, <1>3, <1>4, <1>6, Zenon
  <1> QED
    BY <1>5, <1>6, Zenon

-----------------------------------------------------------------------------
(* The theorems.                                                           *)

\* every step preserves the invariant, and restores what a protected call that
\* it leaves began with
LEMMA Steps ==
  ASSUME IInv, Next
  PROVE  IInv' /\ PcallLeft
  <1>1. ASSUME NEW kind \in {"C", "G"}, HostCall(kind) \/ OpCall(kind) \/ Call(kind)
        PROVE  IInv' /\ PcallLeft
    BY <1>1, CallLevels, Zenon DEF ErrFunc, Kind
  <1>2. ASSUME NEW kind \in {"C", "G"}, NEW handler \in Handler, PCall(kind, handler)
        PROVE  IInv' /\ PcallLeft
    BY <1>2, LimitsAssumption, CallLevels, Zenon DEF ErrFunc, Kind
  <1>3. CASE OpTailcall \/ OpReturn \/ CReturn
    BY <1>3, ReturnLevels, Zenon
  <1>4. CASE Hook \/ HookReturn
    BY <1>4, HookLevels, Zenon
  <1>5. ASSUME NEW err, Error(err)
        PROVE  IInv' /\ PcallLeft
    BY <1>5, ErrorLevels, Zenon
  <1>6. CASE ErrorMsg
    BY <1>6, ErrorMsgLevels, Zenon
  <1>7. CASE Throw
    BY <1>7, ThrowLevels, Zenon
  <1>8. CASE Yield
    BY <1>8, YieldLevels, Zenon
  <1>9. ASSUME NEW th \in Thread, ShrinkCI(th) \/ Resume(th) \/ CoCreate(th)
        PROVE  IInv' /\ PcallLeft
    BY <1>9, ShrinkLevels, ResumeLevels, CoCreateLevels, Zenon
  <1> QED
    BY <1>1, <1>2, <1>3, <1>4, <1>5, <1>6, <1>7, <1>8, <1>9, Zenon DEF Next

\* What a step that makes a thread yield does to the C stack.
YieldCut ==
  \A th \in Thread :
    (T[th].status # "yield" /\ T'[th].status = "yield") =>
      /\ cstack' = SubSeq(cstack, 1, Len(cstack) - 3)
      /\ cstack[Len(cstack) - 2].f = "resume"

\* a step makes a thread yield only as gafq_yield does
LEMMA YieldSteps ==
  ASSUME IInv, Next
  PROVE  YieldCut
  BY YieldLevels, ThrowLevels, ShrinkLevels, ResumeLevels, CoCreateLevels, OthersYieldNot, Zenon
     DEF NoneYields, YieldCut, Next, Kind

\* the two kinds of C calls, counted apart
LEMMA CallsCounted ==
  ASSUME Inv
  PROVE  count("call") + count("resume") = Calls(cstack, Len(cstack))
  <1> DEFINE n == Len(cstack)
             A == {i \in DOMAIN cstack : cstack[i].f = "call"}
             B == {i \in DOMAIN cstack : cstack[i].f = "resume"}
             C == {k \in 1..n : cstack[k].f \in CCall}
  <1>1. n \in Nat /\ DOMAIN cstack = 1..n
    BY InvRuns
  <1>2. IsFiniteSet(C)
    BY <1>1, CallsType, Zenon
  <1>3. A \in SUBSET C /\ B \in SUBSET C /\ C = A \cup B /\ A \cap B = {}
    BY <1>1, Zenon DEF CCall
  <1>4. Cardinality(C) = Calls(cstack, n) /\ Cardinality(A) = count("call")
        /\ Cardinality(B) = count("resume")
    BY Zenon DEF Calls, count
  <1> HIDE DEF A, B, C
  <1>5. IsFiniteSet(A) /\ IsFiniteSet(B)
    BY <1>2, <1>3, FS_Subset, Zenon
  <1>6. Cardinality(A \cup B) = Cardinality(A) + Cardinality(B) - Cardinality(A \cap B)
    BY <1>5, FS_Union, Zenon
  <1>7. Cardinality(A) \in Nat /\ Cardinality(B) \in Nat /\ Cardinality(A \cap B) = 0
    BY <1>3, <1>5, FS_CardinalityType, FS_EmptySet, Zenon
  <1> QED
    BY <1>3, <1>4, <1>6, <1>7

\* a thread has one resume on the stack at most, and none when it may be resumed
LEMMA OneResume ==
  ASSUME Inv
  PROVE  ResumedOnce
  <1> SUFFICES ASSUME NEW th \in Thread
               PROVE  /\ Cardinality({i \in framesof(th) : cstack[i].f = "resume"}) <= 1
                      /\ suspended(th) => framesof(th) = {}
    BY Zenon DEF ResumedOnce
  <1> DEFINE n == Len(cstack)
             A == {i \in framesof(th) : cstack[i].f = "resume"}
  <1>1. n \in Nat /\ DOMAIN cstack = 1..n /\ Frames(cstack, T)
    BY InvRuns
  <1>2. ASSUME NEW i \in A, NEW k \in A, i < k
        PROVE  FALSE
    BY <1>1, <1>2 DEF framesof, Frames, FrameOK
  <1>3. \A i \in A, k \in A : i = k
    BY <1>1, <1>2 DEF framesof
  <1> HIDE DEF A
  <1>4. Cardinality(A) <= 1
    <2>1. CASE A = {}
      BY <2>1, FS_EmptySet
    <2>2. CASE A # {}
      <3>1. PICK x : x \in A
        BY <2>2, Zenon
      <3>2. Cardinality({x}) = 1
        BY FS_Singleton, Zenon
      <3> QED
        BY <1>3, <3>1, <3>2
    <2> QED
      BY <2>1, <2>2, Zenon
  <1> QED
    BY <1>1, <1>4, SuspendedOff, Zenon DEF A, framesof

(* Invariance: the frames on the C stack, the record of each thread and the *)
(* CallInfos of each thread fit together in every reachable state.          *)
THEOREM Invariance == Spec => []IInv
  <1>1. Init => IInv
    BY InitIInv, Zenon
  <1>2. IInv /\ [Next]_vars => IInv'
    BY Steps, Zenon DEF vars, L, IInv, Inv
  <1> QED
    BY <1>1, <1>2, PTL DEF Spec

(* ErrorsGoInward: an error of the running thread goes to the innermost    *)
(* recovery point on the C stack, which is one of its own thread.          *)
THEOREM ErrorsGoInward == Spec => []JumpsInnermost
  <1>1. IInv => JumpsInnermost
    BY JumpPoint, InvRuns DEF JumpsInnermost, IInv, Point
  <1> QED
    BY <1>1, Invariance, PTL

(* CountersExact: nCcalls of the running thread is the number of C calls   *)
(* in progress in all threads.                                             *)
THEOREM CountersExact == Spec => []CcallsCounted
  <1>1. IInv => CcallsCounted
    BY CallsCounted, InvRuns, Zenon DEF IInv, CcallsCounted
  <1> QED
    BY <1>1, Invariance, PTL

(* RecursionBounded: C recursion stays within the two limits of gafqD_call *)
(* whatever nests: metamethods, error handlers that fail, coroutines.      *)
THEOREM RecursionBounded == Spec => []CStackBounded
  <1>1. IInv => CStackBounded
    BY CallsCounted, InvRuns, Zenon DEF IInv, CStackBounded
  <1> QED
    BY <1>1, Invariance, PTL

(* NeverResumedTwice: no coroutine is resumed while it is on the C stack.  *)
THEOREM NeverResumedTwice == Spec => []ResumedOnce
  <1>1. IInv => ResumedOnce
    BY OneResume, Zenon DEF IInv
  <1> QED
    BY <1>1, Invariance, PTL

(* CallInfosAgree: the CallInfos of each thread are those of its functions *)
(* on the C stack, also where an error has cut the stack or a coroutine    *)
(* waits, and no CallInfo array is overrun, although gafqD_growCI doubles  *)
(* it, checkstacksizes halves it and restore_stack_limit cuts it.          *)
THEOREM CallInfosAgree == Spec => []CallInfosMatch
  <1>1. IInv => CallInfosMatch
    BY InvRuns, InfosAccounted DEF IInv, Held, Frames, CallInfosMatch
  <1> QED
    BY <1>1, Invariance, PTL

(* ProtectedCallsRestore: control comes back from a protected call, by a   *)
(* return or by an error, with the error function, the hook permission,    *)
(* the C call counter and the CallInfos it began with.                     *)
THEOREM ProtectedCallsRestore == Spec => PcallRestores
  <1>1. IInv /\ [Next]_vars => [PcallLeft]_vars
    BY Steps, Zenon
  <1> QED
    BY <1>1, Invariance, PTL DEF Spec, PcallRestores, PcallLeft

(* YieldsLoseNothing: a yield leaves the C function that asked for it, one *)
(* execute and the resume, and no C call in progress with them.            *)
THEOREM YieldsLoseNothing == Spec => YieldCutsNothing
  <1>1. IInv /\ [Next]_vars => [YieldCut]_vars
    BY YieldSteps, Zenon
  <1> QED
    BY <1>1, Invariance, PTL DEF Spec, YieldCutsNothing, YieldCut

=============================================================================
