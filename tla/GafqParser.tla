------------------------------ MODULE GafqParser ------------------------------
(***************************************************************************)
(* The parser (gparser.c): one pass over the source that emits code while  *)
(* it recognises it.  The source is given as a tree of what the lexer and  *)
(* the grammar make of it, except that an expression is the sequence of    *)
(* its tokens, which subexpr groups by priority.  A token is               *)
(*   <<op>>, <<"nil">>, <<"true">>, <<"false">>, <<"...">>, <<"num", n>>,  *)
(*   <<"str", s>>, <<"name", n>>, <<"primary", prefix, suffixes>>,         *)
(*   <<"paren", expr>>, <<"table", items>> or <<"function", body>>         *)
(* where a body is [params, dots, block] and a block a sequence of         *)
(* statements; dots tells a vararg function that uses `...' ("used") from  *)
(* one that does not ("arg") and from any other ("no").  Lines and the     *)
(* names of upvalues in prototypes, for debugging, are left out.           *)
(***************************************************************************)
EXTENDS GafqCode

CONSTANTS
  MAXVARS,        \* limit of active local variables
  MAXUPVALUES,    \* limit of upvalues of a function
  MAXCCALLS       \* limit of nested levels of syntax

ASSUME ParserAssumption == {MAXVARS, MAXUPVALUES, MAXCCALLS} \subseteq Nat

enterlevel(fs) == [checklimit(fs, fs.level + 1, MAXCCALLS) EXCEPT !.level = @ + 1]
leavelevel(fs) == [fs EXCEPT !.level = @ - 1]
hasmultret(k) == k \in {"VCALL", "VVARARG"}
setmultret(r) == setreturns(r, MULTRET)

codestring(fs, s) == Both(addk(fs, literal(s)), Exp("VK", indexk(fs, literal(s))))

-----------------------------------------------------------------------------
(* Variables and blocks.                                                   *)

\* new_localvar, n times
new_localvars(fs, n) == checklimit(fs, nactvar(fs) + n, MAXVARS)
\* actvar has the places in locvars of the active ones
adjustlocalvars(fs, names) ==
  [fs EXCEPT
     !.actvar = @ \o [j \in DOMAIN names |-> Len(fs.locvars) + j],
     !.locvars = @ \o [j \in DOMAIN names |-> [varname |-> names[j], startpc |-> pc(fs), endpc |-> 0]]]
removevars(fs, tolevel) ==
  LET removed == {fs.actvar[i] : i \in tolevel+1..nactvar(fs)} IN
  [fs EXCEPT
     !.actvar = SubSeq(@, 1, tolevel),
     !.locvars = [j \in DOMAIN @ |-> IF j \in removed THEN [@[j] EXCEPT !.endpc = pc(fs)] ELSE @[j]]]

searchvar(fs, n) == SelectLastInSeq(fs.actvar, LAMBDA j : fs.locvars[j].varname = n) - 1

\* the innermost block that variable l was declared in must close it
markupval(fs, l) ==
  LET i == SelectLastInSeq(fs.bl, LAMBDA bl : bl.nactvar <= l) IN
  IF i = 0 THEN fs ELSE [fs EXCEPT !.bl[i].upval = TRUE]

\* the index of the upvalue is indexup
indexup(fs, v) ==
  LET i == SelectInSeq(fs.upvalues, LAMBDA u : u.k = v.k /\ u.info = v.info) IN
  IF i = 0 THEN Len(fs.upvalues) ELSE i - 1
indexupvalue(fs, n, v) ==
  LET i == indexup(fs, v) IN
  IF i < Len(fs.upvalues) THEN assert(fs, fs.upvalues[i + 1].name = n)
  ELSE [checklimit(assert(fs, v.k \in {"VLOCAL", "VUPVAL"}), i + 1, MAXUPVALUES)
          EXCEPT !.upvalues = Append(@, [k |-> v.k, info |-> v.info, name |-> n])]

RECURSIVE singlevaraux(_, _, _)
singlevaraux(fs, n, base) ==
  LET v == searchvar(fs, n)
      outer == singlevaraux(fs.prev[1], n, FALSE)
      s == [fs EXCEPT !.prev = <<outer.fs>>]
  IN IF v >= 0 THEN Both(IF base THEN fs ELSE markupval(fs, v), Exp("VLOCAL", v))
     ELSE IF fs.prev = <<>> \/ outer.e.k = "VGLOBAL" THEN Both(fs, Exp("VGLOBAL", NO_REG))
     ELSE Both(indexupvalue(s, n, outer.e), Exp("VUPVAL", indexup(s, outer.e)))
\* the name of a global variable is a constant
globalname(r, n) ==
  IF r.e.k # "VGLOBAL" THEN r
  ELSE Both(addk(r.fs, literal(n)), [r.e EXCEPT !.info = indexk(r.fs, literal(n))])
singlevar(fs, n) == globalname(singlevaraux(fs, n, TRUE), n)

enterblock(fs, isbreakable) ==
  [assert(fs, fs.freereg = nactvar(fs)) EXCEPT !.bl = Append(@,
     [breaklist |-> NO_JUMP, isbreakable |-> isbreakable, nactvar |-> nactvar(fs), upval |-> FALSE])]
closeblock(fs, bl) ==
  patchtohere([assert(IF bl.upval THEN code(fs, "CLOSE", bl.nactvar, 0, 0) ELSE fs,
                      (~bl.isbreakable \/ ~bl.upval) /\ bl.nactvar = nactvar(fs))
                 EXCEPT !.freereg = bl.nactvar], bl.breaklist)
leaveblock(fs) ==
  LET bl == Last(fs.bl) IN
  IF fs.error THEN fs ELSE closeblock(removevars([fs EXCEPT !.bl = Front(@)], bl.nactvar), bl)

\* nexps expressions, the last of which is r, are to be nvars values
padded(fs, extra) == IF extra > 0 THEN nil(reserveregs(fs, extra), fs.freereg, extra) ELSE fs
adjust_assign(r, nvars, nexps) ==
  LET extra == nvars - nexps
      more == IF extra + 1 < 0 THEN 0 ELSE extra + 1     \* includes the call itself
  IN IF r.fs.error THEN r.fs
     ELSE IF ~hasmultret(r.e.k) THEN padded(IF r.e.k = "VVOID" THEN r.fs ELSE exp2nextreg(r).fs, extra)
     ELSE IF more > 1 THEN reserveregs(setreturns(r, more), more - 1)
     ELSE setreturns(r, more)

-----------------------------------------------------------------------------
(* Functions.                                                              *)

open_func(prev, level) ==
  [code |-> <<>>, k |-> <<>>, p |-> <<>>, lasttarget |-> -1, jpc |-> NO_JUMP, freereg |-> 0,
   maxstacksize |-> 2, locvars |-> <<>>, actvar |-> <<>>, bl |-> <<>>, upvalues |-> <<>>,
   numparams |-> 0, is_vararg |-> {}, prev |-> prev, level |-> level, error |-> FALSE, asserts |-> TRUE]

\* the prototype that is left when the function is closed
proto(fs) ==
  [code |-> fs.code, k |-> fs.k, p |-> fs.p, maxstacksize |-> fs.maxstacksize,
   nups |-> Len(fs.upvalues), numparams |-> fs.numparams, is_vararg |-> fs.is_vararg,
   locvars |-> fs.locvars]
checked(fs) == assert(fs, fs.bl = <<>> /\ checkcode(proto(fs)))
close_func(fs) == IF fs.error THEN fs ELSE checked(ret(removevars(fs, 0), 0, 0))

\* the closure is made by the function around func, which goes on
captures(fs, upvalues) ==
  Both(FoldLeft(LAMBDA x, u : code(x, IF u.k = "VLOCAL" THEN "MOVE" ELSE "GETUPVAL", 0, u.info, 0),
                fs, upvalues),
       Exp("VRELOCABLE", pc(fs) - 1))
pushclosure(func) ==
  LET fs == [func.prev[1] EXCEPT !.level = func.level, !.asserts = @ /\ func.asserts] IN
  IF func.error THEN Both([fs EXCEPT !.error = TRUE], Exp("VVOID", 0))
  ELSE captures(code([checklimit(fs, Len(fs.p) + 1, MAXARG_Bx) EXCEPT !.p = Append(@, proto(func))],
                     "CLOSURE", 0, Len(fs.p), 0), func.upvalues)

\* parlist; the parameter arg of a vararg function is for compatibility
parlist(fs, params, dots) ==
  LET names == params \o (IF dots THEN <<"arg">> ELSE <<>>)
      s == adjustlocalvars(new_localvars(fs, Len(names)), names)
  IN [reserveregs(s, nactvar(s))
        EXCEPT !.is_vararg = IF dots THEN {"HASARG", "NEEDSARG", "ISVARARG"} ELSE {},
               !.numparams = nactvar(s) - (IF dots THEN 1 ELSE 0)]

\* the functions that call each other: parse(f, fs, x) is function f on the
\* source x, and gives [fs, e]
RECURSIVE parse(_, _, _)
expr(fs, toks) == parse("expr", fs, toks)
primaryexp(fs, x) == parse("primaryexp", fs, x)
chunk(fs, stats) == parse("chunk", fs, stats).fs

body(fs, b, needself) ==
  LET new == open_func(<<fs>>, fs.level)
      s == IF needself THEN adjustlocalvars(new_localvars(new, 1), <<"self">>) ELSE new
  IN pushclosure(close_func(chunk(parlist(s, b.params, b.dots # "no"), b.block)))

-----------------------------------------------------------------------------
(* Expressions.                                                            *)

\* all but the last expression are put in registers
RECURSIVE explist1(_, _)
listrest(r, es) == IF es = <<>> \/ r.fs.error THEN r ELSE explist1(exp2nextreg(r).fs, es)
explist1(fs, es) == listrest(expr(fs, es[1]), Tail(es))

\* t is the register of the table
setfield(r, t, key, reg) ==
  IF r.fs.error THEN r.fs ELSE [code(r.fs, "SETTABLE", t, key, rk(r.e)) EXCEPT !.freereg = reg]
fieldvalue(r, t, x, reg) == IF r.fs.error THEN r.fs ELSE setfield(exp2RK(expr(r.fs, x)), t, rk(r.e), reg)
recfield(fs, t, kind, key, x) ==
  fieldvalue(exp2RK(IF kind = "named" THEN codestring(fs, key) ELSE exp2val(expr(fs, key))),
             t, x, fs.freereg)

\* cc is [fs, v, na, nh, tostore]
flushed(cc, t) ==
  IF cc.tostore # LFIELDS_PER_FLUSH THEN cc
  ELSE [cc EXCEPT !.fs = setlist(@, t, cc.na, cc.tostore), !.tostore = 0]
closelistfield(cc, t) ==
  IF cc.v.k = "VVOID" THEN cc
  ELSE flushed([cc EXCEPT !.fs = exp2nextreg(Both(@, cc.v)).fs, !.v = Exp("VVOID", 0)], t)
lastlistfield(cc, t) ==
  IF cc.tostore = 0 THEN cc
  ELSE IF hasmultret(cc.v.k)
  THEN [cc EXCEPT !.fs = setlist(setmultret(Both(@, cc.v)), t, cc.na, MULTRET), !.na = @ - 1]
  ELSE [cc EXCEPT !.fs = setlist(IF cc.v.k = "VVOID" THEN @ ELSE exp2nextreg(Both(@, cc.v)).fs,
                                 t, cc.na, cc.tostore)]
additem(cc, item, t) ==
  LET v == expr(cc.fs, item[2]) IN
  IF item[1] = "item" THEN [cc EXCEPT !.fs = v.fs, !.v = v.e, !.na = @ + 1, !.tostore = @ + 1]
  ELSE [cc EXCEPT !.fs = recfield(@, t, item[1], item[2], item[3]), !.nh = @ + 1]
RECURSIVE constructoritems(_, _, _)
constructoritems(cc, items, t) ==
  IF items = <<>> \/ cc.fs.error THEN cc
  ELSE constructoritems(
         additem(closelistfield([cc EXCEPT !.fs = assert(@, cc.v.k = "VVOID" \/ cc.tostore > 0)], t),
                 items[1], t), Tail(items), t)
\* the instruction at p is told how many items there are
sized(cc, e, p) ==
  Both([cc.fs EXCEPT !.code[p + 1].b = int2fb(cc.na), !.code[p + 1].c = int2fb(cc.nh)], e)
filled(t, items, p) ==
  LET cc == [fs |-> t.fs, v |-> Exp("VVOID", 0), na |-> 0, nh |-> 0, tostore |-> 0] IN
  sized(lastlistfield(constructoritems(cc, items, t.e.info), t.e.info), t.e, p)
constructor(fs, items) ==
  filled(exp2nextreg(relocatable(Both(fs, Exp("VVOID", 0)), "NEWTABLE", 0, 0)), items, pc(fs))

\* the arguments of a call of f; a string or a table alone is a list of one
emitcall(fs, f, nparams) ==
  Both([code(assert(fs, f.k = "VNONRELOC"), "CALL", f.info, nparams + 1, 2) EXCEPT !.freereg = f.info + 1],
       Exp("VCALL", pc(fs)))
callclosed(fs, f) == emitcall(fs, f, fs.freereg - (f.info + 1))
lastarg(r, f) ==
  IF hasmultret(r.e.k) THEN emitcall(setmultret(r), f, MULTRET)
  ELSE callclosed(exp2nextreg(r).fs, f)
funcargs(r, args) ==
  IF r.fs.error THEN r
  ELSE IF args = <<>> THEN callclosed(r.fs, r.e) ELSE lastarg(explist1(r.fs, args), r.e)

prefixexp(fs, x) ==
  IF x[1] = "paren" THEN dischargevars(expr(fs, x[2])) ELSE singlevar(fs, x[2])

fieldof(r, n) == indexed(codestring(r.fs, n), r.e)
field(r, n) == fieldof(exp2anyreg(r), n)
\* yindex
itemof(r, x) == indexed(exp2val(expr(r.fs, x)), r.e)

suffixexp(r, x) ==
  CASE x[1] = "." -> field(r, x[2])
    [] x[1] = "[" -> itemof(exp2anyreg(r), x[2])
    [] x[1] = ":" -> funcargs(self(codestring(r.fs, x[2]), r.e), x[3])
    [] x[1] = "(" -> funcargs(exp2nextreg(r), x[2])
RECURSIVE suffixed(_, _)
suffixed(r, suffixes) ==
  IF suffixes = <<>> \/ r.fs.error THEN r ELSE suffixed(suffixexp(r, suffixes[1]), Tail(suffixes))
primary(fs, x) ==
  IF x[1] = "primary" THEN suffixed(prefixexp(fs, x[2]), x[3]) ELSE prefixexp(fs, x)

simpleexp(fs, x) ==
  CASE x[1] = "num" -> Both(fs, [Exp("VKNUM", 0) EXCEPT !.nval = <<x[2]>>])
    [] x[1] = "str" -> codestring(fs, x[2])
    [] x[1] = "nil" -> Both(fs, Exp("VNIL", 0))
    [] x[1] = "true" -> Both(fs, Exp("VTRUE", 0))
    [] x[1] = "false" -> Both(fs, Exp("VFALSE", 0))
    [] x[1] = "..." -> Both([code(fs, "VARARG", 0, 1, 0)
                               EXCEPT !.error = @ \/ fs.is_vararg = {},
                                      !.is_vararg = @ \ {"NEEDSARG"}],
                            Exp("VVARARG", pc(fs)))
    [] x[1] = "table" -> constructor(fs, x[2])
    [] x[1] = "function" -> body(fs, x[2], FALSE)
    [] OTHER -> primaryexp(fs, x)

unopr == {"not", "-", "#"}
priority(op) ==
  CASE op \in {"+", "-"} -> [left |-> 6, right |-> 6]
    [] op \in {"*", "/", "%"} -> [left |-> 7, right |-> 7]
    [] op = "^" -> [left |-> 10, right |-> 9]
    [] op = ".." -> [left |-> 5, right |-> 4]
    [] op \in {"==", "~=", "<", "<=", ">", ">="} -> [left |-> 3, right |-> 3]
    [] op = "and" -> [left |-> 2, right |-> 2]
    [] op = "or" -> [left |-> 1, right |-> 1]
UNARY_PRIORITY == 8

\* the result has the tokens that are left, an operator first
RECURSIVE subexpr(_, _, _), binaries(_, _)
withrest(r, rest) == [fs |-> r.fs, e |-> r.e, rest |-> rest]
combined(r, op, e1) ==
  IF r.fs.error THEN r ELSE withrest(posfix(Both(r.fs, r.e), op, e1), r.rest)
rightoperand(r, op, toks) ==
  IF r.fs.error THEN withrest(r, <<>>)
  ELSE combined(subexpr(r.fs, toks, priority(op).right), op, r.e)
binaries(r, limit) ==
  LET op == r.rest[1][1] IN
  IF r.rest = <<>> \/ priority(op).left <= limit THEN r
  ELSE binaries(rightoperand(infix(Both(r.fs, r.e), op), op, Tail(r.rest)), limit)
negative(r, op) == IF r.fs.error THEN r ELSE withrest(prefix(Both(r.fs, r.e), op), r.rest)
operand(fs, toks) ==
  IF toks[1][1] \in unopr THEN negative(subexpr(fs, Tail(toks), UNARY_PRIORITY), toks[1][1])
  ELSE withrest(simpleexp(fs, toks[1]), Tail(toks))
subexpr(fs, toks, limit) ==
  [binaries(operand(enterlevel(fs), toks), limit) EXCEPT !.fs = leavelevel(@)]

-----------------------------------------------------------------------------
(* Statements.                                                             *)

block(fs, stats) ==
  LET s == chunk(enterblock(fs, FALSE), stats) IN
  IF s.error THEN s ELSE leaveblock(assert(s, Last(s.bl).breaklist = NO_JUMP))

\* the list of jumps to take when the condition is false is in e.f
cond(fs, c) ==
  LET v == expr(fs, c) IN
  IF v.fs.error THEN v ELSE goiftrue(IF v.e.k = "VNIL" THEN [v EXCEPT !.e.k = "VFALSE"] ELSE v)

\* mutant: the copy is not made
check_conflict_None(fs, lhs, v) == [lhs |-> lhs, fs |-> fs]

\* a local variable assigned to after it is used as table or index is copied
check_conflict(fs, lhs, v) ==
  LET extra == fs.freereg
      safe(x) == IF x.k # "VINDEXED" THEN x
                 ELSE [x EXCEPT !.info = IF @ = v.info THEN extra ELSE @,
                                !.aux = IF @ = v.info THEN extra ELSE @]
      copied == [i \in DOMAIN lhs |-> safe(lhs[i])]
  IN [lhs |-> copied,
      fs |-> IF copied = lhs THEN fs ELSE reserveregs(code(fs, "MOVE", extra, v.info, 0), 1)]

RECURSIVE targets(_, _, _)
\* the left-hand sides, each parsed after the ones before it
targets(fs, lhs, xs) ==
  LET v == primaryexp(fs, xs[1])
      c == IF v.e.k = "VLOCAL" THEN check_conflict(v.fs, lhs, v.e) ELSE [lhs |-> lhs, fs |-> v.fs]
      s == IF lhs = <<>> THEN c.fs ELSE checklimit(c.fs, Len(lhs), MAXCCALLS - fs.level)
  IN IF xs = <<>> THEN [lhs |-> lhs, fs |-> fs]
     ELSE targets(s, Append(c.lhs, v.e), Tail(xs))

\* stores the values on top of the registers, the last one first
storeall(fs, lhs) ==
  FoldRight(LAMBDA v, s : storevar(Both(s, Exp("VNONRELOC", s.freereg - 1)), v), lhs, fs)

\* r is the last of nexps expressions
dropped(fs, n) == IF n > 0 THEN [fs EXCEPT !.freereg = @ - n] ELSE fs
assign(r, lhs, nexps) ==
  LET nvars == Len(lhs) IN
  IF r.fs.error THEN r.fs
  ELSE IF nexps = nvars THEN storeall(storevar(setoneret(r), Last(lhs)), Front(lhs))
  ELSE storeall(dropped(adjust_assign(r, nvars, nexps), nexps - nvars), lhs)
values(l, es) == assign(explist1(l.fs, es), l.lhs, Len(es))
assignment(fs, xs, es) == values(targets(fs, <<>>, xs), es)

addbreak(fs, i) ==
  [concat(jump(fs), fs.bl[i].breaklist, pc(fs)) EXCEPT !.bl[i].breaklist = headof(@, pc(fs))]
breakstat(fs) ==
  LET i == SelectLastInSeq(fs.bl, LAMBDA bl : bl.isbreakable)
      upval == \E j \in i+1..Len(fs.bl) : fs.bl[j].upval
  IN IF i = 0 THEN [fs EXCEPT !.error = TRUE]
     ELSE addbreak(IF upval THEN code(fs, "CLOSE", fs.bl[i].nactvar, 0, 0) ELSE fs, i)

jumpback(fs, init) == patchlist(jump(fs), pc(fs), init)
whileend(fs, init, exits) ==
  IF fs.error THEN fs ELSE patchtohere(leaveblock(jumpback(fs, init)), exits)
whilebody(exit, stats, init) ==
  IF exit.fs.error THEN exit.fs
  ELSE whileend(block(enterblock(exit.fs, TRUE), stats), init, exit.e.f)
whilestat(fs, c, stats) == whilebody(cond(getlabel(fs), c), stats, pc(fs))

\* when variables of the body are upvalues, leaving the loop is a break
repeatend(exit, init) ==
  IF exit.fs.error THEN exit.fs
  ELSE leaveblock(IF ~Last(exit.fs.bl).upval THEN patchlist(leaveblock(exit.fs), exit.e.f, init)
                  ELSE jumpback(leaveblock(patchtohere(breakstat(exit.fs), exit.e.f)), init))
repeatstat(fs, stats, c) ==
  repeatend(cond(chunk(enterblock(enterblock(getlabel(fs), TRUE), FALSE), stats), c), pc(fs))

exp1(fs, x) == exp2nextreg(expr(fs, x)).fs

forend(fs, base, nvars, isnum, prep) ==
  IF fs.error THEN fs
  ELSE patchlist(IF isnum THEN code(fs, "FORLOOP", base, NO_JUMP, 0)
                 ELSE jump(code(fs, "TFORLOOP", base, 0, nvars)),
                 IF isnum THEN pc(fs) ELSE pc(fs) + 1, prep + 1)
forblock(fs, names, stats) ==
  block(reserveregs(adjustlocalvars(enterblock(fs, FALSE), names), Len(names)), stats)
leavefor(fs, prep) == patchtohere(leaveblock(fs), prep)
forbody(fs0, base, names, stats, isnum) ==
  LET fs == adjustlocalvars(fs0, <<"(for)", "(for)", "(for)">>) IN
  IF fs0.error THEN fs0
  ELSE forend(leavefor(forblock(IF isnum THEN code(fs, "FORPREP", base, NO_JUMP, 0) ELSE jump(fs),
                           names, stats), pc(fs)),
         base, Len(names), isnum, pc(fs))

withstep(fs, given) ==
  LET one == <<"num", <<1>>>> IN
  IF given THEN fs ELSE reserveregs(code(addk(fs, one), "LOADK", fs.freereg, indexk(fs, one), 0), 1)
fornum(fs, name, es, stats) ==
  forbody(withstep(FoldLeft(exp1, new_localvars(fs, 4), es), Len(es) = 3),
          fs.freereg, <<name>>, stats, TRUE)

forlist(fs, names, es, stats) ==
  forbody(checkstack(adjust_assign(explist1(new_localvars(fs, 3 + Len(names)), es), 3, Len(es)), 3),
          fs.freereg, names, stats, FALSE)

\* if and elseif: each block but the last escapes from what follows
RECURSIVE ifstat(_, _, _, _)
escape(fs, flist, escapelist) == patchtohere(concat(jump(fs), escapelist, pc(fs)), flist)
afterthen(fs, flist, escapelist, clauses, else) ==
  LET escapes == headof(escapelist, pc(fs)) IN
  CASE fs.error -> fs
    [] ~fs.error /\ clauses # <<>> -> ifstat(escape(fs, flist, escapelist), escapes, clauses, else)
    [] ~fs.error /\ clauses = <<>> /\ else # <<>> ->
         patchtohere(block(escape(fs, flist, escapelist), else[1]), escapes)
    [] OTHER -> patchtohere(concat(fs, escapelist, flist), headof(escapelist, flist))
test_then_block(exit, escapelist, clauses, else) ==
  IF exit.fs.error THEN exit.fs
  ELSE afterthen(block(exit.fs, clauses[1][2]), exit.e.f, escapelist, Tail(clauses), else)
ifstat(fs, escapelist, clauses, else) ==
  test_then_block(cond(fs, clauses[1][1]), escapelist, clauses, else)

\* debug information will only see the variable after this point
seen(fs) == [fs EXCEPT !.locvars[Last(fs.actvar)].startpc = pc(fs)]
localfunc(fs, name, b) ==
  seen(storevar(body(adjustlocalvars(reserveregs(new_localvars(fs, 1), 1), <<name>>), b, FALSE),
                Exp("VLOCAL", fs.freereg)))

localstat(fs, names, es) ==
  LET s == new_localvars(fs, Len(names)) IN
  adjustlocalvars(adjust_assign(IF es = <<>> THEN Both(s, Exp("VVOID", 0)) ELSE explist1(s, es),
                                Len(names), Len(es)), names)

\* names is NAME {field} [: NAME], the last when needself
function(r, needself, b) == storevar(body(r.fs, b, needself), r.e)
funcstat(fs, names, needself, b) ==
  function(FoldLeft(field, singlevar(fs, names[1]), Tail(names)), needself, b)

\* a call as a statement keeps no result
callstat(fs, x) ==
  LET v == primaryexp(fs, x) IN
  IF v.fs.error THEN v.fs ELSE [v.fs EXCEPT !.code[v.e.info + 1].c = 1]

\* r is the last of nret expressions
retmult(fs, e, nret) ==
  ret(IF e.k # "VCALL" \/ nret # 1 THEN fs
      ELSE [assert(fs, at(fs, e.info).a = nactvar(fs)) EXCEPT !.code[e.info + 1].o = "TAILCALL"],
      nactvar(fs), MULTRET)
retone(r) == ret(r.fs, r.e.info, 1)
retall(fs, nret) == ret(assert(fs, nret = fs.freereg - nactvar(fs)), nactvar(fs), nret)
returned(r, nret) ==
  IF hasmultret(r.e.k) THEN retmult(setmultret(r), r.e, nret)
  ELSE IF nret = 1 THEN retone(exp2anyreg(r))
  ELSE retall(exp2nextreg(r).fs, nret)
retstat(fs, es) == IF es = <<>> THEN ret(fs, 0, 0) ELSE returned(explist1(fs, es), Len(es))

\* the block around a for loop
forstat(fs, st) ==
  leaveblock(IF st[1] = "fornum" THEN fornum(enterblock(fs, TRUE), st[2], st[3], st[4])
             ELSE forlist(enterblock(fs, TRUE), st[2], st[3], st[4]))
statement(fs, st) ==
  CASE st[1] = "if" -> ifstat(fs, NO_JUMP, st[2], st[3])
    [] st[1] = "while" -> whilestat(fs, st[2], st[3])
    [] st[1] = "do" -> block(fs, st[2])
    [] st[1] \in {"fornum", "forlist"} -> forstat(fs, st)
    [] st[1] = "repeat" -> repeatstat(fs, st[2], st[3])
    [] st[1] = "function" -> funcstat(fs, st[2], st[3], st[4])
    [] st[1] = "localfunction" -> localfunc(fs, st[2], st[3])
    [] st[1] = "local" -> localstat(fs, st[2], st[3])
    [] st[1] = "return" -> retstat(fs, st[2])
    [] st[1] = "break" -> breakstat(fs)
    [] st[1] = "call" -> callstat(fs, st[2])
    [] st[1] = "assign" -> assignment(fs, st[2], st[3])

\* the statements of a block; an error ends the compilation
RECURSIVE statements(_, _)
afterstatement(fs) ==
  IF fs.error THEN fs
  ELSE [assert(fs, fs.maxstacksize >= fs.freereg /\ fs.freereg >= nactvar(fs)) EXCEPT !.freereg = nactvar(fs)]
statements(fs, stats) ==
  IF stats = <<>> \/ fs.error THEN fs
  ELSE statements(afterstatement(statement(fs, stats[1])), Tail(stats))

parse(f, fs, x) ==
  IF fs.error THEN Both(fs, Exp("VVOID", 0))
  ELSE CASE f = "expr" -> subexpr(fs, x, 0)
    [] f = "primaryexp" -> primary(fs, x)
    [] f = "statement" -> Both(afterstatement(statement(fs, x)), Exp("VVOID", 0))
    [] f = "chunk" -> Both(leavelevel(statements(enterlevel(fs), x)), Exp("VVOID", 0))

\* gafqY_parser: the main function is opened, its statements are parsed one by
\* one, and it is closed
openmain == enterlevel([open_func(<<>>, 0) EXCEPT !.is_vararg = {"ISVARARG"}])
parser(fs, st) == parse("statement", fs, st).fs
mainclosed(fs) == assert(fs, fs.upvalues = <<>>)
closemain(fs) == mainclosed(close_func(leavelevel(fs)))
==============================================================================
