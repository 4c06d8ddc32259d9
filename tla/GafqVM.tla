-------------------------------- MODULE GafqVM --------------------------------
(***************************************************************************)
(* The interpreter (gafqV_execute in gvm.c, with the calls and returns of  *)
(* gdo.c and the upvalues of gfunc.c): one action for each kind of         *)
(* instruction, over one stack that holds the registers of all the         *)
(* functions that run.                                                     *)
(*                                                                         *)
(* A value is <<"nil">>, <<"bool", b>>, <<"num", term>>, <<"str", parts>>, *)
(* <<"tab", n>>, <<"fn", n>> or <<"ext", name>>, a C function.  Numbers    *)
(* are terms, so that two computations are the same only when they do the  *)
(* same operations; <<"junk">> is a slot nobody wrote.  There are no       *)
(* metatables, hooks or coroutines here.                                   *)
(***************************************************************************)
EXTENDS GafqCode

CONSTANT STACKSIZE      \* slots of the stack

VARIABLES
  stack,      \* [0..STACKSIZE-1 -> value]
  top,        \* L->top
  ci,         \* the frames [func, base, top, savedpc, nresults, fresh]
  upvals,     \* all upvalues [open, slot, v]; those open are in openupval
  closures,   \* all functions [p, upvals], by creation
  tables,     \* all tables, by creation: functions from keys to values
  out,        \* the calls of C functions so far, with their arguments
  status,     \* run, done, error
  holds       \* all assertions met so far held

vm == <<stack, top, ci, upvals, closures, tables, out, status, holds>>

-----------------------------------------------------------------------------
(* The frame that runs.                                                    *)

frame == Last(ci)
base == frame.base
cl == closures[stack[frame.func][2]]
npc == frame.savedpc
i == cl.p.code[npc + 1]
Kst(x) == cl.p.k[x + 1]
R(x) == stack[base + x]
RK(x) == IF ISK(x) THEN Kst(x - BITRK) ELSE R(x)

Op(ops) == status = "run" /\ i.o \in ops
Goto(n) == ci' = [ci EXCEPT ![Len(ci)].savedpc = n]
\* what every instruction asserts, and more
Asserts(b) ==
  holds' = (holds /\ b /\ base <= top /\ top <= STACKSIZE /\ (top = frame.top \/ checkopenop(i)))
Executes(ops) == Op(ops) /\ Asserts(TRUE)

\* register r gets v, and the next instruction follows
SetReg(r, v) ==
  /\ stack' = [stack EXCEPT ![base + r] = v]
  /\ Goto(npc + 1)
  /\ UNCHANGED <<top, upvals, closures, tables, out, status>>
Error ==
  /\ status' = "error"
  /\ UNCHANGED <<stack, top, ci, upvals, closures, tables, out>>

-----------------------------------------------------------------------------
(* Loads and stores.                                                       *)

Move == Executes({"MOVE"}) /\ SetReg(i.a, R(i.b))
LoadK == Executes({"LOADK"}) /\ SetReg(i.a, Kst(i.b))
LoadBool ==
  /\ Executes({"LOADBOOL"})
  /\ stack' = [stack EXCEPT ![base + i.a] = Bool(i.b = 1)]
  /\ Goto(npc + 1 + i.c)
  /\ UNCHANGED <<top, upvals, closures, tables, out, status>>
LoadNil ==
  /\ Executes({"LOADNIL"})
  /\ stack' = [s \in DOMAIN stack |-> IF s \in base+i.a..base+i.b THEN Nil ELSE stack[s]]
  /\ Goto(npc + 1)
  /\ UNCHANGED <<top, upvals, closures, tables, out, status>>

upvalue(u) == IF u.open THEN stack[u.slot] ELSE u.v
GetUpval == Executes({"GETUPVAL"}) /\ SetReg(i.a, upvalue(upvals[cl.upvals[i.b + 1]]))
SetUpval ==
  /\ Executes({"SETUPVAL"})
  /\ LET n == cl.upvals[i.b + 1] IN
       IF upvals[n].open
       THEN stack' = [stack EXCEPT ![upvals[n].slot] = R(i.a)] /\ UNCHANGED upvals
       ELSE upvals' = [upvals EXCEPT ![n].v = R(i.a)] /\ UNCHANGED stack
  /\ Goto(npc + 1)
  /\ UNCHANGED <<top, closures, tables, out, status>>

\* gafqV_gettable and gafqV_settable without metatables
GetTable(t, k) ==
  IF t[1] = "tab" THEN SetReg(i.a, get(tables[t[2]], k)) ELSE Error
SetTable(t, k, v) ==
  IF t[1] = "tab" /\ validkey(k)
  THEN /\ tables' = [tables EXCEPT ![t[2]] = put(@, k, v)]
       /\ Goto(npc + 1)
       /\ UNCHANGED <<stack, top, upvals, closures, out, status>>
  ELSE Error
GetGlobal == Op({"GETGLOBAL"}) /\ Asserts(Kst(i.b)[1] = "str") /\ GetTable(<<"tab", 1>>, Kst(i.b))
SetGlobal == Op({"SETGLOBAL"}) /\ Asserts(Kst(i.b)[1] = "str") /\ SetTable(<<"tab", 1>>, Kst(i.b), R(i.a))
GetIndex == Executes({"GETTABLE"}) /\ GetTable(R(i.b), RK(i.c))
SetIndex == Executes({"SETTABLE"}) /\ SetTable(R(i.a), RK(i.b), RK(i.c))
NewTable ==
  /\ Executes({"NEWTABLE"})
  /\ stack' = [stack EXCEPT ![base + i.a] = <<"tab", Len(tables) + 1>>]
  /\ tables' = Append(tables, [x \in {} |-> Nil])
  /\ Goto(npc + 1)
  /\ UNCHANGED <<top, upvals, closures, out, status>>
\* the object is copied before its method is looked up
Self ==
  /\ Executes({"SELF"})
  /\ IF R(i.b)[1] = "tab"
     THEN /\ stack' = [stack EXCEPT ![base + i.a + 1] = R(i.b),
                                    ![base + i.a] = get(tables[R(i.b)[2]], RK(i.c))]
          /\ Goto(npc + 1)
          /\ UNCHANGED <<top, upvals, closures, tables, out, status>>
     ELSE Error
SetList ==
  LET n == IF i.b = 0 THEN top - (base + i.a) - 1 ELSE i.b
      c == IF i.c = 0 THEN wordvalue(cl.p.code[npc + 2]) ELSE i.c
      t == R(i.a)[2]
      items == [x \in {int((c - 1) * LFIELDS_PER_FLUSH + j) : j \in 1..n} |->
                  R(i.a + val(x[2]) - (c - 1) * LFIELDS_PER_FLUSH)]
      h == tables[t]
      all == [x \in DOMAIN h \cup DOMAIN items |-> IF x \in DOMAIN items THEN items[x] ELSE h[x]]
  IN /\ Executes({"SETLIST"})
     /\ tables' = [tables EXCEPT ![t] = [x \in {y \in DOMAIN all : all[y] # Nil} |-> all[x]]]
     /\ top' = IF i.b = 0 THEN frame.top ELSE top
     /\ Goto(npc + (IF i.c = 0 THEN 2 ELSE 1))
     /\ UNCHANGED <<stack, upvals, closures, out, status>>

-----------------------------------------------------------------------------
(* Operators.                                                              *)

Arithmetic ==
  /\ Executes({"ADD", "SUB", "MUL", "DIV", "MOD", "POW"})
  /\ IF canarith(RK(i.b), RK(i.c)) THEN SetReg(i.a, Arith(i.o, RK(i.b), RK(i.c))) ELSE Error
Unm ==
  /\ Executes({"UNM"})
  /\ IF isnumber(R(i.b)) THEN SetReg(i.a, Arith("UNM", R(i.b), R(i.b))) ELSE Error
Not == Executes({"NOT"}) /\ SetReg(i.a, Bool(l_isfalse(R(i.b))))
Length ==
  /\ Executes({"LEN"})
  /\ CASE R(i.b)[1] = "tab" -> SetReg(i.a, int(length(tables[R(i.b)[2]])))
       [] R(i.b)[1] = "str" -> SetReg(i.a, int(Len(R(i.b)[2])))
       [] ~canlength(R(i.b)) -> Error
\* gafqV_concat works from the last register and leaves pieces in those before
Concat ==
  LET pieces(j) == FlattenSeq([m \in 1..i.c - j + 1 |-> parts(R(j + m - 1))]) IN
  /\ Executes({"CONCAT"})
  /\ IF \A r \in i.b..i.c : isstring(R(r))
     THEN /\ stack' = [stack EXCEPT ![base + i.b] = <<"str", pieces(i.b)>>,
                                    ![base + i.a] = <<"str", pieces(i.b)>>]
          /\ Goto(npc + 1)
          /\ UNCHANGED <<top, upvals, closures, tables, out, status>>
     ELSE Error

-----------------------------------------------------------------------------
(* Jumps.  A test is followed by a jump, which it does itself.             *)

Follow(b) ==
  /\ Goto(npc + 2 + (IF b THEN cl.p.code[npc + 2].b ELSE 0))
  /\ UNCHANGED <<top, upvals, closures, tables, out, status>>
Jmp == Executes({"JMP"}) /\ Goto(npc + 1 + i.b)
       /\ UNCHANGED <<stack, top, upvals, closures, tables, out, status>>
Eq == Executes({"EQ"}) /\ Follow(bit(equalobj(RK(i.b), RK(i.c))) = i.a) /\ UNCHANGED stack
Order ==
  LET less(v, w) == IF i.o = "LT" THEN lessthan(v, w) ELSE lessequal(v, w) IN
  /\ Executes({"LT", "LE"})
  /\ IF comparable(RK(i.b), RK(i.c))
     THEN Follow(bit(less(RK(i.b), RK(i.c))) = i.a) /\ UNCHANGED stack
     ELSE Error
Test == Executes({"TEST"}) /\ Follow(bit(l_isfalse(R(i.a))) # i.c) /\ UNCHANGED stack
TestSet ==
  /\ Executes({"TESTSET"})
  /\ LET b == bit(l_isfalse(R(i.b))) # i.c IN
       Follow(b) /\ stack' = IF b THEN [stack EXCEPT ![base + i.a] = R(i.b)] ELSE stack

-----------------------------------------------------------------------------
(* Closures.                                                               *)

isopen(u, slot) == u.open /\ u.slot = slot
\* gafqF_findupval for the captured register r, and its index in all upvalues
findupval(us, r) ==
  IF \E n \in DOMAIN us : isopen(us[n], base + r) THEN us
  ELSE Append(us, [open |-> TRUE, slot |-> base + r, v |-> Nil])
Closure ==
  LET p == cl.p.p[i.b + 1]
      capture == [j \in 1..p.nups |-> cl.p.code[npc + 1 + j]]
      us == FoldLeft(LAMBDA u, x : IF x.o = "MOVE" THEN findupval(u, x.b) ELSE u, upvals, capture)
      index(x) == IF x.o = "GETUPVAL" THEN cl.upvals[x.b + 1]
                  ELSE CHOOSE n \in DOMAIN us : isopen(us[n], base + x.b)
  IN /\ Op({"CLOSURE"})
     /\ Asserts(\A j \in DOMAIN capture : capture[j].o \in {"GETUPVAL", "MOVE"})
     /\ upvals' = us
     /\ closures' = Append(closures, [p |-> p, upvals |-> [j \in DOMAIN capture |-> index(capture[j])]])
     /\ stack' = [stack EXCEPT ![base + i.a] = <<"fn", Len(closures) + 1>>]
     /\ Goto(npc + 1 + p.nups)
     /\ UNCHANGED <<top, tables, out, status>>

\* mutant: the variable at level stays open
closed_Above(s, level) ==
  [n \in DOMAIN upvals |->
     IF upvals[n].open /\ upvals[n].slot > level
     THEN [open |-> FALSE, slot |-> 0, v |-> s[upvals[n].slot]] ELSE upvals[n]]

\* gafqF_close: the values of the upvalues at level and above move to them
closed(s, level) ==
  [n \in DOMAIN upvals |->
     IF upvals[n].open /\ upvals[n].slot >= level
     THEN [open |-> FALSE, slot |-> 0, v |-> s[upvals[n].slot]] ELSE upvals[n]]
Close ==
  /\ Executes({"CLOSE"})
  /\ upvals' = closed(stack, base + i.a)
  /\ Goto(npc + 1)
  /\ UNCHANGED <<stack, top, closures, tables, out, status>>

-----------------------------------------------------------------------------
(* Calls.                                                                  *)

\* adjust_varargs: the fixed parameters move above the extra arguments
adjust_varargs(s, t, p, func) ==
  LET actual == t - func - 1
      nfix == p.numparams
      b == IF actual < nfix THEN func + 1 + nfix ELSE t
      extra == [j \in 1..b - func - 1 - nfix |-> s[func + nfix + j]]
      arg == [x \in {int(j) : j \in DOMAIN extra} \cup {literal("n")} |->
                IF x = literal("n") THEN int(Len(extra)) ELSE extra[val(x[2])]]
      needsarg == "NEEDSARG" \in p.is_vararg
      param(j) == IF j < actual THEN s[func + 1 + j] ELSE Nil
  IN [stack |-> [n \in DOMAIN s |->
        IF n \in b..b+nfix-1 THEN param(n - b)
        ELSE IF needsarg /\ n = b + nfix THEN <<"tab", Len(tables) + 1>>
        ELSE IF n \in func+1..func+nfix THEN Nil ELSE s[n]],
      top |-> b + nfix + (IF needsarg THEN 1 ELSE 0), base |-> b,
      tables |-> IF needsarg
                 THEN Append(tables, [x \in {y \in DOMAIN arg : arg[y] # Nil} |-> arg[x]])
                 ELSE tables]

\* gafqD_precall for a function of the language: its frame and its registers
precall(s, t, func, nresults, fresh) ==
  LET p == closures[s[func][2]].p
      fixed == [stack |-> s, base |-> func + 1, tables |-> tables,
                top |-> IF t > func + 1 + p.numparams THEN func + 1 + p.numparams ELSE t]
      v == IF p.is_vararg = {} THEN fixed ELSE adjust_varargs(s, t, p, func)
      last == v.base + p.maxstacksize
  IN [stack |-> [n \in DOMAIN s |-> IF n \in v.top..last-1 THEN Nil ELSE v.stack[n]],
      top |-> last, tables |-> v.tables,
      frame |-> [func |-> func, base |-> v.base, top |-> last, savedpc |-> 0,
                 nresults |-> nresults, fresh |-> fresh]]

\* gafqD_poscall: results in slots from first up to t go to where func was
poscall(s, t, first, func, wanted) ==
  LET n == IF wanted = MULTRET THEN t - first ELSE wanted IN
  [stack |-> [x \in DOMAIN s |->
     IF x \notin func..func+n-1 THEN s[x]
     ELSE IF first + (x - func) < t THEN s[first + (x - func)] ELSE Nil],
   top |-> func + n]

\* a C function with its arguments up to t pushes its results and returns
Ccall(s, t, func, wanted) ==
  LET args == [j \in 1..t - func - 1 |-> s[func + j]]
      rs == answers(s[func][2], args, Len(out))
      pushed == [x \in DOMAIN s |-> IF x \in t..t+Len(rs)-1 THEN rs[x - t + 1] ELSE s[x]]
  IN poscall(pushed, t + Len(rs), t, func, wanted)
Event(s, t, func) == Append(out, <<s[func][2], [j \in 1..t - func - 1 |-> s[func + j]]>>)

\* where the arguments of a call end
calltop == IF i.b # 0 THEN base + i.a + i.b ELSE top
func == base + i.a
callee == R(i.a)[1]

CallC ==
  /\ Executes({"CALL", "TAILCALL"}) /\ callee = "ext"
  /\ out' = Event(stack, calltop, func)
  /\ \E r \in {Ccall(stack, calltop, func, i.c - 1)} :
       /\ stack' = r.stack
       /\ top' = IF i.o = "CALL" /\ i.c # 0 THEN frame.top ELSE r.top
  /\ Goto(npc + 1)
  /\ UNCHANGED <<upvals, closures, tables, status>>
Call ==
  /\ Executes({"CALL"}) /\ callee = "fn"
  /\ \E r \in {precall(stack, calltop, func, i.c - 1, FALSE)} :
       /\ stack' = r.stack /\ top' = r.top /\ tables' = r.tables
       /\ ci' = Append([ci EXCEPT ![Len(ci)].savedpc = npc + 1], r.frame)
  /\ UNCHANGED <<upvals, closures, out, status>>
CallError == Executes({"CALL", "TAILCALL"}) /\ callee \notin {"ext", "fn"} /\ Error

\* the new frame is moved down over the one it replaces
TailCall ==
  LET old == frame.func
      down == func - old
      p == closures[R(i.a)[2]].p
  IN /\ Op({"TAILCALL"}) /\ callee = "fn"
     /\ \E r \in {precall(stack, calltop, func, MULTRET, frame.fresh)} :
          /\ Asserts(i.c - 1 = MULTRET /\ r.top - down = r.frame.base - down + p.maxstacksize)
          /\ upvals' = closed(r.stack, base)
          /\ stack' = [x \in DOMAIN stack |->
                         IF x \in old..r.top-1-down THEN r.stack[x + down] ELSE r.stack[x]]
          /\ top' = r.top - down
          /\ tables' = r.tables
          /\ ci' = [ci EXCEPT ![Len(ci)].base = r.frame.base - down, ![Len(ci)].top = r.top - down,
                              ![Len(ci)].savedpc = 0]
     /\ UNCHANGED <<closures, out, status>>

\* what OP_TFORLOOP does after its call, which left its results at slot cb
caller == ci[Len(ci) - 1]
forloop(s, cs, f, cb) ==
  LET n == f.savedpc
      code1 == closures[s[f.func][2]].p.code
  IN /\ top' = f.top
     /\ IF s[cb] = Nil
        THEN stack' = s /\ ci' = [cs EXCEPT ![Len(cs)].savedpc = n + 2]
        ELSE stack' = [s EXCEPT ![cb - 1] = s[cb]]
             /\ ci' = [cs EXCEPT ![Len(cs)].savedpc = n + 2 + code1[n + 2].b]

\* a fresh frame was called by gafqD_call: from outside, or by OP_TFORLOOP; any
\* other by the instruction before the one its caller goes on with
calledby == closures[stack[caller.func][2]].p.code[caller.savedpc].o
Return ==
  LET t == IF i.b # 0 THEN base + i.a + i.b - 1 ELSE top IN
  /\ Op({"RETURN"})
  /\ Asserts(frame.fresh \/ (stack[caller.func][1] = "fn" /\ calledby = "CALL"))
  /\ upvals' = closed(stack, base)
  /\ UNCHANGED <<closures, tables, out>>
  /\ \E r \in {poscall(stack, t, base + i.a, frame.func, frame.nresults)} :
        \/ /\ ~frame.fresh
           /\ stack' = r.stack
           /\ top' = IF frame.nresults # MULTRET THEN caller.top ELSE r.top
           /\ ci' = Front(ci)
           /\ UNCHANGED status
        \/ /\ frame.fresh /\ Len(ci) > 1
           /\ forloop(r.stack, Front(ci), caller, frame.func)
           /\ UNCHANGED status
        \/ /\ Len(ci) = 1
           /\ stack' = r.stack /\ top' = r.top
           /\ status' = "done"
           /\ UNCHANGED ci

-----------------------------------------------------------------------------
(* Loops and variable arguments.                                           *)

ForPrep ==
  /\ Executes({"FORPREP"})
  /\ IF \A r \in i.a..i.a+2 : isnumber(R(r))
     THEN /\ stack' = [stack EXCEPT ![base + i.a] = int(val(@[2]) - val(R(i.a + 2)[2]))]
          /\ Goto(npc + 1 + i.b)
          /\ UNCHANGED <<top, upvals, closures, tables, out, status>>
     ELSE Error

ForLoop ==
  LET step == val(R(i.a + 2)[2])
      idx == val(R(i.a)[2]) + step
      limit == val(R(i.a + 1)[2])
      continues == IF 0 < step THEN idx <= limit ELSE limit <= idx
  IN /\ Executes({"FORLOOP"})
     /\ stack' = IF continues THEN [stack EXCEPT ![base + i.a] = int(idx), ![base + i.a + 3] = int(idx)]
                 ELSE stack
     /\ Goto(npc + 1 + (IF continues THEN i.b ELSE 0))
     /\ UNCHANGED <<top, upvals, closures, tables, out, status>>

TForLoop ==
  LET cb == base + i.a + 3
      s == [stack EXCEPT ![cb] = R(i.a), ![cb + 1] = R(i.a + 1), ![cb + 2] = R(i.a + 2)]
  IN /\ Executes({"TFORLOOP"})
     /\ UNCHANGED <<upvals, closures>>
     /\ \/ /\ callee = "ext"
           /\ \E c \in {Ccall(s, cb + 3, cb, i.c)} : forloop(c.stack, ci, frame, cb)
           /\ out' = Event(s, cb + 3, cb)
           /\ UNCHANGED <<tables, status>>
        \/ /\ callee = "fn"
           /\ \E r \in {precall(s, cb + 3, cb, i.c, TRUE)} :
                /\ stack' = r.stack /\ top' = r.top /\ tables' = r.tables
                /\ ci' = Append(ci, r.frame)
           /\ UNCHANGED <<out, status>>
        \/ /\ callee \notin {"ext", "fn"}
           /\ status' = "error"
           /\ UNCHANGED <<stack, top, ci, tables, out>>

VarArg ==
  LET n == frame.base - frame.func - cl.p.numparams - 1
      b == IF i.b = 0 THEN n ELSE i.b - 1
  IN /\ Executes({"VARARG"})
     /\ stack' = [x \in DOMAIN stack |->
                    IF x \notin base+i.a..base+i.a+b-1 THEN stack[x]
                    ELSE IF x - base - i.a < n THEN stack[x - i.a - n] ELSE Nil]
     /\ top' = IF i.b = 0 THEN base + i.a + n ELSE top
     /\ Goto(npc + 1)
     /\ UNCHANGED <<upvals, closures, tables, out, status>>

-----------------------------------------------------------------------------
\* the main function p is called with no arguments, the globals in table 1
Start(p, globals) ==
  /\ closures' = <<[p |-> p, upvals |-> <<>>]>>
  /\ tables' = <<globals>>
  /\ LET last == 1 + p.maxstacksize IN
       /\ stack' = [n \in 0..STACKSIZE-1 |-> IF n = 0 THEN <<"fn", 1>>
                                              ELSE IF n < last THEN Nil ELSE <<"junk">>]
       /\ top' = last
       /\ ci' = <<[func |-> 0, base |-> 1, top |-> last, savedpc |-> 0, nresults |-> MULTRET,
                   fresh |-> TRUE]>>
  /\ upvals' = <<>> /\ out' = <<>> /\ status' = "run" /\ holds' = TRUE

Execute ==
  \/ Move \/ LoadK \/ LoadBool \/ LoadNil \/ GetUpval \/ SetUpval \/ GetGlobal \/ SetGlobal
  \/ GetIndex \/ SetIndex \/ NewTable \/ Self \/ SetList
  \/ Arithmetic \/ Unm \/ Not \/ Length \/ Concat
  \/ Jmp \/ Eq \/ Order \/ Test \/ TestSet
  \/ Closure \/ Close \/ CallC \/ Call \/ CallError \/ TailCall \/ Return
  \/ ForPrep \/ ForLoop \/ TForLoop \/ VarArg
==============================================================================
