-------------------------------- MODULE GafqDo --------------------------------
(***************************************************************************)
(* Calls, errors and coroutines (gdo.c, with the callers that decide how   *)
(* they nest: gafqV_execute's OP_CALL, OP_TAILCALL and OP_RETURN, gafq_call,*)
(* gafq_pcall, the error handler of gafqG_errormsg, and auxresume of the   *)
(* coroutine library).                                                     *)
(*                                                                         *)
(* All threads of a state share one C stack, on which the functions of the *)
(* interpreter that are in progress lie: this is cstack.  Each thread has  *)
(* its own CallInfo array, counters and chain of error recovery points.    *)
(* An error is a longjmp: it cuts cstack back to the recovery point of the *)
(* running thread, whatever lies above it.                                 *)
(***************************************************************************)
EXTENDS Integers, Sequences, FiniteSets

CONSTANTS
  Thread, mainthread,
  Handler,          \* kinds of error functions programs give to gafq_pcall
  MAXCALLS,         \* GAFQI_MAXCALLS: limit of a CallInfo array
  BASIC_CI_SIZE,    \* its first size
  MAXCCALLS,        \* GAFQI_MAXCCALLS: limit of nested C calls
  EXTRA_CCALLS      \* GAFQI_MAXCCALLS>>3: what error handling may add to it

ASSUME LimitsAssumption ==
  /\ mainthread \in Thread /\ Handler \subseteq {"none", "C", "G", "bad"}
  /\ MAXCALLS \in Nat /\ BASIC_CI_SIZE \in 1 .. MAXCALLS
  /\ MAXCCALLS \in Nat \ {0} /\ EXTRA_CCALLS \in Nat \ {0}

VARIABLES
  cstack,    \* C functions in progress
  T,         \* per thread state
  pending    \* "none", or the stage of the error that is being raised

vars == <<cstack, T, pending>>

\* a stack without its top, and the top
Front(s) == SubSeq(s, 1, Len(s) - 1)
Last(s) == s[Len(s)]

-----------------------------------------------------------------------------
(* A frame of cstack is [f, th, n, old]: the function f working for thread *)
(* th.  n is nexeccalls of an `execute'; old is what a recovery point      *)
(* (`pcall' or `resume') saved.  A `cfun' is a C function called by        *)
(* gafqD_precall, a `hook' one called by gafqD_callhook, `call' is         *)
(* gafqD_call and `errormsg' is gafqG_errormsg waiting for its handler.    *)

NoOld == [ci |-> 0, nCcalls |-> 0, errfunc |-> "none", allowhook |-> TRUE, errorJmp |-> 0]
frame(f, th) == [f |-> f, th |-> th, n |-> 0, old |-> NoOld]

\* mutant: the chain of recovery points is not saved
recovery_NoJmp(f, th, r) ==
  [frame(f, th) EXCEPT !.old = [ci |-> Len(r.ci), nCcalls |-> r.nCcalls, errfunc |-> r.errfunc,
                                allowhook |-> r.allowhook, errorJmp |-> 0]]

\* mutant: the hook permission is not saved
recovery_NoHook(f, th, r) ==
  [frame(f, th) EXCEPT !.old = [ci |-> Len(r.ci), nCcalls |-> r.nCcalls, errfunc |-> r.errfunc,
                                allowhook |-> TRUE, errorJmp |-> r.errorJmp]]

recovery(f, th, r) ==
  [frame(f, th) EXCEPT !.old = [ci |-> Len(r.ci), nCcalls |-> r.nCcalls, errfunc |-> r.errfunc,
                                allowhook |-> r.allowhook, errorJmp |-> r.errorJmp]]

L == IF cstack = <<>> THEN mainthread ELSE Last(cstack).th
in(f) == cstack # <<>> /\ Last(cstack).f = f /\ pending = "none"

\* preinit_state, stack_init; fun: whether a function waits to be started
newthread == [status |-> "ok", fun |-> TRUE, ci |-> <<>>, size_ci |-> BASIC_CI_SIZE,
              nCcalls |-> 0, baseCcalls |-> 0, errfunc |-> "none", allowhook |-> TRUE,
              errorJmp |-> 0]

\* Operations take the C stack cs and the record r of the running thread and
\* return [cs, r, err], where err is the error they raise.
done(cs, r) == [cs |-> cs, r |-> r, err |-> "none"]
raise(cs, r, err) == [cs |-> cs, r |-> r, err |-> err]
Do(s) == cstack' = s.cs /\ T' = [T EXCEPT ![L] = s.r] /\ pending' = s.err

-----------------------------------------------------------------------------
(* Calls.                                                                  *)

\* inc_ci: [size_ci, err] (growCI doubles the array when it is full)
inc_ci(r) ==
  IF Len(r.ci) < r.size_ci - 1 THEN [size_ci |-> r.size_ci, err |-> "none"]
  ELSE IF r.size_ci > MAXCALLS THEN [size_ci |-> r.size_ci, err |-> "ERRERR"]
  ELSE [size_ci |-> 2 * r.size_ci,
        err |-> IF 2 * r.size_ci > MAXCALLS THEN "runerror" ELSE "none"]

\* gafqD_precall of a Gafq ("G") or C function: execute runs a Gafq function
\* itself, when it is the caller, or is called to do so
precall(cs, r, kind) ==
  LET g == inc_ci(r)
      r1 == [r EXCEPT !.size_ci = g.size_ci]
      th == Last(cs).th
  IN IF g.err # "none" THEN raise(cs, r1, g.err)
     ELSE done(IF kind = "C" THEN Append(cs, frame("cfun", th))
               ELSE IF Last(cs).f = "execute" THEN [cs EXCEPT ![Len(cs)].n = @ + 1]
               ELSE Append(cs, [frame("execute", th) EXCEPT !.n = 1]),
               [r1 EXCEPT !.ci = Append(@, kind)])

\* mutant: without the second limit
call_NoErrErr(cs, r, kind, th) ==
  LET cs1 == Append(cs, frame("call", th))
      r1 == [r EXCEPT !.nCcalls = @ + 1]
  IN IF r1.nCcalls = MAXCCALLS THEN raise(cs1, r1, "runerror") ELSE precall(cs1, r1, kind)

\* gafqD_call
call(cs, r, kind, th) ==
  LET cs1 == Append(cs, frame("call", th))
      r1 == [r EXCEPT !.nCcalls = @ + 1]
  IN IF r1.nCcalls = MAXCCALLS THEN raise(cs1, r1, "runerror")
     ELSE IF r1.nCcalls >= MAXCCALLS + EXTRA_CCALLS THEN raise(cs1, r1, "ERRERR")
     ELSE precall(cs1, r1, kind)

\* gafqD_pcall with f_call
pcall(cs, r, kind, handler, th) ==
  call(Append(cs, recovery("pcall", th, r)),
       [r EXCEPT !.errorJmp = Len(cs) + 1, !.errfunc = handler], kind, th)

\* the function called by the last frame of cs has returned, normally or by a
\* yield: what follows in that frame, and in the one below a gafqD_call
returnto(cs, r) ==
  LET below == Front(cs)
      r1 == [r EXCEPT !.nCcalls = @ - 1]
      old == Last(below).old
  IN CASE Last(cs).f = "execute" -> done(cs, r)
       [] Last(cs).f = "resume" -> done(below, [r1 EXCEPT !.errorJmp = Last(cs).old.errorJmp])
       [] Last(cs).f = "call" /\ Last(below).f = "pcall" ->
            done(Front(below), [r1 EXCEPT !.errorJmp = old.errorJmp, !.errfunc = old.errfunc])
       [] Last(cs).f = "call" /\ Last(below).f = "errormsg" -> raise(Front(below), r1, "ERRRUN")
       [] OTHER -> done(below, r1)

\* the host (gafq.c) calls a C function in protected mode
HostCall(kind) ==
  /\ cstack = <<>>
  /\ Do(pcall(<<>>, T[mainthread], kind, "none", mainthread))

\* OP_CALL
OpCall(kind) == in("execute") /\ Do(precall(cstack, T[L], kind))

\* mutant: the caller's CallInfo stays
OpTailcall_NoPop ==
  LET s == precall(cstack, T[L], "G") IN
  /\ in("execute")
  /\ Do(IF s.err # "none" THEN s ELSE done(cstack, s.r))

\* OP_TAILCALL of a Gafq function: the new CallInfo replaces the caller's
OpTailcall ==
  LET s == precall(cstack, T[L], "G") IN
  /\ in("execute")
  /\ Do(IF s.err # "none" THEN s ELSE done(cstack, [s.r EXCEPT !.ci = Front(@)]))

\* OP_RETURN
OpReturn ==
  LET r == [T[L] EXCEPT !.ci = Front(@)] IN
  /\ in("execute")
  /\ Do(IF Last(cstack).n > 1 THEN done([cstack EXCEPT ![Len(cstack)].n = @ - 1], r)
        ELSE returnto(Front(cstack), r))

\* a C function returns; gafqD_poscall
CReturn == in("cfun") /\ Do(returnto(Front(cstack), [T[L] EXCEPT !.ci = Front(@)]))

\* gafq_call in a C function or a hook, and metamethods called by execute
Call(kind) ==
  /\ in("execute") \/ in("cfun") \/ in("hook")
  /\ Do(call(cstack, T[L], kind, L))

\* gafq_pcall in a C function or a hook
PCall(kind, handler) ==
  /\ in("cfun") \/ in("hook")
  /\ Do(pcall(cstack, T[L], kind, handler, L))

\* gafqD_callhook, and its return: the line and count hooks of execute, and the
\* call and return hooks, which run at the two ends of a Gafq or C function with
\* its CallInfo in place
Hook ==
  /\ in("execute") \/ in("cfun")
  /\ T[L].allowhook
  /\ Do(done(Append(cstack, frame("hook", L)), [T[L] EXCEPT !.allowhook = FALSE]))
HookReturn ==
  in("hook") /\ Do(done(Front(cstack), [T[L] EXCEPT !.allowhook = TRUE]))

\* checkstacksizes, when the collector traverses thread th
ShrinkCI(th) ==
  LET r == T[th] IN
  /\ pending = "none" /\ r.size_ci <= MAXCALLS
  /\ 4 * Len(r.ci) < r.size_ci /\ 2 * BASIC_CI_SIZE < r.size_ci
  /\ T' = [T EXCEPT ![th].size_ci = @ \div 2]
  /\ UNCHANGED <<cstack, pending>>

-----------------------------------------------------------------------------
(* Errors.                                                                 *)

\* gafqG_runerror, gafq_error; gafqM_realloc_ throws without calling a handler
Error(err) ==
  /\ in("execute") \/ in("cfun") \/ in("hook")
  /\ err \in {"runerror", "ERRMEM"}
  /\ pending' = err
  /\ UNCHANGED <<cstack, T>>

\* gafqG_errormsg
ErrorMsg ==
  /\ pending = "runerror"
  /\ Do(CASE T[L].errfunc = "none" -> raise(cstack, T[L], "ERRRUN")
          [] T[L].errfunc = "bad" -> raise(cstack, T[L], "ERRERR")
          [] OTHER -> call(Append(cstack, frame("errormsg", L)), T[L], T[L].errfunc, L))

\* gafqD_throw to the recovery point j, and what gafqD_pcall or gafq_resume,
\* which set it, do with the error
restore_stack_limit(size, inuse) ==
  IF size > MAXCALLS /\ inuse + 1 < MAXCALLS THEN MAXCALLS ELSE size
Throw ==
  LET j == T[L].errorJmp
      th == cstack[j].th
      r == T[th]
      old == cstack[j].old
  IN
  /\ pending \in {"ERRRUN", "ERRERR", "ERRMEM"}
  /\ cstack' = SubSeq(cstack, 1, j - 1)
  /\ pending' = "none"
  /\ T' = [T EXCEPT ![th] =
             IF cstack[j].f = "pcall"
             THEN [r EXCEPT !.ci = SubSeq(r.ci, 1, old.ci), !.nCcalls = old.nCcalls,
                            !.errfunc = old.errfunc, !.allowhook = old.allowhook,
                            !.errorJmp = old.errorJmp,
                            !.size_ci = restore_stack_limit(r.size_ci, old.ci)]
             ELSE [r EXCEPT !.status = "error", !.errorJmp = old.errorJmp,
                            !.nCcalls = r.nCcalls - 1]]

-----------------------------------------------------------------------------
(* Coroutines.                                                             *)

\* mutant: gafq_getstack is not asked
suspended_NoFrames(co) ==
  T[co].status = "yield" \/ (T[co].status = "ok" /\ (T[co].fun \/ T[co].ci # <<>>))

\* costatus, for a coroutine other than the running one
suspended(co) == T[co].status = "yield" \/ (T[co].status = "ok" /\ T[co].ci = <<>> /\ T[co].fun)
dead(co) == T[co].status = "error" \/ (T[co].status = "ok" /\ T[co].ci = <<>> /\ ~T[co].fun)

\* resume, in the protected mode of gafq_resume: starts the function, or ends
\* the interrupted call of yield; or continues a function a hook interrupted
resume(cs, r) ==
  LET ci == IF Last(r.ci) = "C" THEN Front(r.ci) ELSE r.ci
      th == Last(cs).th
  IN IF r.status = "ok" THEN precall(cs, [r EXCEPT !.fun = FALSE], "G")
     ELSE done(Append(cs, [frame("execute", th) EXCEPT !.n = Len(ci)]),
               [r EXCEPT !.status = "ok", !.ci = ci])

\* mutant: without effect
setlevel_Not(from, r) == r

\* gafq_setlevel
setlevel(from, r) == [r EXCEPT !.nCcalls = from.nCcalls]

\* auxresume with gafq_setlevel and gafq_resume; resume_error pops the function
\* of a coroutine that was not started
Resume(co) ==
  LET r == setlevel(T[L], T[co])
      r1 == [r EXCEPT !.nCcalls = @ + 1, !.baseCcalls = r.nCcalls + 1,
                      !.errorJmp = Len(cstack) + 1]
      s == IF r.nCcalls >= MAXCCALLS THEN done(cstack, [r EXCEPT !.fun = FALSE])
           ELSE resume(Append(cstack, recovery("resume", co, r)), r1)
  IN /\ in("cfun") /\ co # L /\ suspended(co)
     /\ cstack' = s.cs /\ T' = [T EXCEPT ![co] = s.r] /\ pending' = s.err

\* mutant: off by one
canyield_OneMore == T[L].nCcalls <= T[L].baseCcalls + 1

canyield == T[L].nCcalls <= T[L].baseCcalls

\* gafq_yield: its -1 makes gafqD_precall return PCRYIELD, on which execute
\* returns and gafqD_call goes on as after a return.  A hook may yield only where
\* execute can stop, in traceexec
Yield ==
  LET r == [T[L] EXCEPT !.status = "yield", !.allowhook = T[L].allowhook \/ in("hook")]
      cs == Front(cstack)
  IN /\ in("cfun") \/ (in("hook") /\ Last(cs).f = "execute")
     /\ Do(IF ~canyield THEN raise(cstack, T[L], "runerror")
           ELSE returnto(IF Last(cs).f = "execute" THEN Front(cs) ELSE cs, r))

\* gafqB_cocreate; a dead coroutine's thread stands for a new one
CoCreate(co) ==
  /\ in("cfun") /\ co # mainthread /\ dead(co)
  /\ T' = [T EXCEPT ![co] = newthread]
  /\ UNCHANGED <<cstack, pending>>

-----------------------------------------------------------------------------
Init ==
  /\ cstack = <<>> /\ pending = "none"
  /\ T = [th \in Thread |-> [newthread EXCEPT !.fun = FALSE]]

Next ==
  \/ \E kind \in {"C", "G"} : HostCall(kind) \/ OpCall(kind) \/ Call(kind)
  \/ \E kind \in {"C", "G"}, handler \in Handler : PCall(kind, handler)
  \/ OpTailcall \/ OpReturn \/ CReturn \/ Hook \/ HookReturn
  \/ \E err \in {"runerror", "ERRMEM"} : Error(err)
  \/ ErrorMsg \/ Throw \/ Yield
  \/ \E th \in Thread : ShrinkCI(th) \/ Resume(th) \/ CoCreate(th)

Spec == Init /\ [][Next]_vars

-----------------------------------------------------------------------------
(* Properties.                                                             *)

framesof(th) == {i \in DOMAIN cstack : cstack[i].th = th}
count(f) == Cardinality({i \in DOMAIN cstack : cstack[i].f = f})

\* the counter of the running thread counts the C calls in progress in all
\* threads: gafq_setlevel hands it to a coroutine, and every return, error and
\* yield takes it back
CcallsCounted == cstack # <<>> => T[L].nCcalls = count("call") + count("resume")

\* C recursion is bounded by GAFQI_MAXCCALLS + (GAFQI_MAXCCALLS>>3), through
\* metamethods, error handlers that fail and coroutines within coroutines
CStackBounded == count("call") + count("resume") <= MAXCCALLS + EXTRA_CCALLS

\* an error of the running thread goes to the innermost recovery point on the C
\* stack: it never jumps over one of another thread, nor into a frame that is gone
JumpsInnermost ==
  LET points == {i \in DOMAIN cstack : cstack[i].f \in {"pcall", "resume"}} IN
  cstack # <<>> => /\ T[L].errorJmp \in points /\ cstack[T[L].errorJmp].th = L
                   /\ \A i \in points : i <= T[L].errorJmp

\* the CallInfos that the frames of thread th account for: each execute for its
\* nexeccalls, each C function for one
accounted(th) ==
  LET sum[i \in 0 .. Len(cstack)] ==
        IF i = 0 THEN 0
        ELSE sum[i-1] + (IF cstack[i].th # th THEN 0
                         ELSE IF cstack[i].f = "cfun" THEN 1 ELSE cstack[i].n)
  IN  sum[Len(cstack)]

\* the CallInfos of a thread are those of the functions on the C stack, and no
\* CallInfo array is overrun
CallInfosMatch ==
  /\ \A th \in Thread : Len(T[th].ci) < T[th].size_ci
  /\ \A th \in {cstack[i].th : i \in DOMAIN cstack} : Len(T[th].ci) = accounted(th)

\* no coroutine is resumed while it is on the C stack
ResumedOnce ==
  \A th \in Thread :
    /\ Cardinality({i \in framesof(th) : cstack[i].f = "resume"}) <= 1
    /\ suspended(th) => framesof(th) = {}

\* a yield leaves the C function that asked for it, one execute and the resume:
\* no C call in progress is lost ("attempt to yield across metamethod/C-call
\* boundary")
YieldCutsNothing ==
  [][\A th \in Thread :
       (T[th].status # "yield" /\ T'[th].status = "yield") =>
         /\ cstack' = SubSeq(cstack, 1, Len(cstack) - 3)
         /\ cstack[Len(cstack) - 2].f = "resume"]_vars

\* control comes back from a protected call, after an error or not, with the
\* error function and the hook permission it began with
PcallRestores ==
  [][\A i \in DOMAIN cstack :
       (cstack[i].f = "pcall" /\ Len(cstack') < i) =>
         LET th == cstack[i].th IN
         /\ T'[th].errfunc = cstack[i].old.errfunc
         /\ T'[th].allowhook = cstack[i].old.allowhook
         /\ T'[th].nCcalls = cstack[i].old.nCcalls
         /\ Len(T'[th].ci) = cstack[i].old.ci]_vars
==============================================================================
