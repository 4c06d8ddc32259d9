------------------------------- MODULE GafqCode -------------------------------
(***************************************************************************)
(* The code generator (gcode.c), as functions on the state fs of the       *)
(* function being compiled and on expression descriptors.  An expression   *)
(* is turned into code as late as possible: a descriptor e says where its  *)
(* value is or will be, and holds two lists of jumps that leave it when it *)
(* is true and when it is false; the lists are chained through the jump    *)
(* instructions themselves and patched when their target is known.         *)
(*                                                                         *)
(* fs is [code, k, p, lasttarget, jpc, freereg, maxstacksize, locvars,     *)
(* actvar, bl, upvalues, numparams, is_vararg, prev, level, error,         *)
(* asserts]; program counters start at 0, and pc(fs) is the next one.      *)
(* nactvar is the length of actvar.  error: a limit was exceeded and a     *)
(* syntax error raised, which ends the compilation: nothing more is done   *)
(* to fs; asserts: all assertions met until then held.                     *)
(***************************************************************************)
EXTENDS GafqDebug, GafqValues

CONSTANTS
  MAXINDEXRK,          \* largest constant index that fits in an operand
  MAXARG_sBx,          \* largest jump
  MAXARG_Bx,           \* most constants, and most functions, of a function
  MAXARG_C             \* largest operand C

ASSUME CodeAssumption == {MAXINDEXRK, MAXARG_sBx, MAXARG_Bx, MAXARG_C} \subseteq Nat

\* init_exp
Exp(k, info) ==
  [k |-> k, info |-> info, aux |-> 0, nval |-> <<>>, t |-> NO_JUMP, f |-> NO_JUMP]
Both(fs, e) == [fs |-> fs, e |-> e]

pc(fs) == Len(fs.code)
nactvar(fs) == Len(fs.actvar)
at(fs, p) == fs.code[p + 1]
assert(fs, holds) == IF fs.error \/ holds THEN fs ELSE [fs EXCEPT !.asserts = FALSE]
checklimit(fs, v, l) == [fs EXCEPT !.error = @ \/ v > l]
hasjumps(e) == e.t # e.f
isnumeral(e) == e.k = "VKNUM" /\ e.t = NO_JUMP /\ e.f = NO_JUMP

-----------------------------------------------------------------------------
(* Jump lists.                                                             *)

\* a jump to itself ends the list
getjump(fs, p) ==
  IF at(fs, p).b = NO_JUMP THEN NO_JUMP ELSE p + 1 + at(fs, p).b
RECURSIVE jumps(_, _)
jumps(fs, list) ==
  IF list = NO_JUMP THEN <<>> ELSE <<list>> \o jumps(fs, getjump(fs, list))

fixjump(fs, p, dest) ==
  LET offset == dest - (p + 1) IN
  [checklimit(assert(fs, dest # NO_JUMP), IF offset < 0 THEN -offset ELSE offset, MAXARG_sBx)
     EXCEPT !.code[p + 1].b = offset]

\* the lists l1 and l2 become one, whose head is headof(l1, l2)
headof(l1, l2) == IF l1 = NO_JUMP THEN l2 ELSE l1
concat(fs, l1, l2) ==
  IF l1 = NO_JUMP \/ l2 = NO_JUMP THEN fs ELSE fixjump(fs, Last(jumps(fs, l1)), l2)

\* the instruction that decides whether jump p is taken
getjumpcontrol(fs, p) == IF p >= 1 /\ testTMode(at(fs, p - 1).o) THEN p - 1 ELSE p
istestset(fs, p) == at(fs, getjumpcontrol(fs, p)).o = "TESTSET"
need_value(fs, list) == \E p \in ToSet(jumps(fs, list)) : ~istestset(fs, p)

\* a TESTSET gets its register, or becomes a TEST
patchtestreg(fs, p, reg) ==
  LET c == getjumpcontrol(fs, p)
      i == at(fs, c)
  IN IF ~istestset(fs, p) THEN fs
     ELSE [fs EXCEPT !.code[c + 1] =
             IF reg # NO_REG /\ reg # i.b THEN [i EXCEPT !.a = reg]
             ELSE instr("TEST", i.b, 0, i.c)]
RECURSIVE removevalues(_, _)
removevalues(fs, list) ==
  IF list = NO_JUMP THEN fs
  ELSE removevalues(patchtestreg(fs, list, NO_REG), getjump(fs, list))

\* jumps that produce a value go to vtarget, the others to dtarget
RECURSIVE patchlistaux(_, _, _, _, _)
patchlistaux(fs, list, vtarget, reg, dtarget) ==
  IF list = NO_JUMP THEN fs
  ELSE patchlistaux(fixjump(patchtestreg(fs, list, reg), list,
                            IF istestset(fs, list) THEN vtarget ELSE dtarget),
                    getjump(fs, list), vtarget, reg, dtarget)
dischargejpc(fs) ==
  IF fs.jpc = NO_JUMP THEN fs
  ELSE [patchlistaux(fs, fs.jpc, pc(fs), NO_REG, pc(fs)) EXCEPT !.jpc = NO_JUMP]

\* gafqK_code: the new instruction is at pc(fs)
code(fs, o, a, b, c) ==
  IF fs.error THEN fs
  ELSE [assert(dischargejpc(fs), (getBMode(o) = "OpArgN" => b = 0) /\ (getCMode(o) = "OpArgN" => c = 0))
          EXCEPT !.code = Append(@, instr(o, a, b, c))]

\* gafqK_getlabel; the label is pc(fs)
getlabel(fs) == [fs EXCEPT !.lasttarget = pc(fs)]
patchtohere(fs, list) ==
  LET s == getlabel(fs) IN
  IF fs.error THEN fs ELSE [concat(s, s.jpc, list) EXCEPT !.jpc = headof(@, list)]
patchlist(fs, list, target) ==
  IF target = pc(fs) THEN patchtohere(fs, list)
  ELSE patchlistaux(assert(fs, target < pc(fs)), list, target, NO_REG, target)

\* gafqK_jump; the jump is at pc(fs), and jumps to here join its list
jump(fs) == concat(code([fs EXCEPT !.jpc = NO_JUMP], "JMP", 0, NO_JUMP, 0), pc(fs), fs.jpc)
condjump(fs, o, a, b, c) == jump(code(fs, o, a, b, c))

-----------------------------------------------------------------------------
(* Registers and constants.                                                *)

checkstack(fs, n) ==
  LET newstack == fs.freereg + n IN
  [checklimit(fs, newstack, MAXSTACK - 1)
     EXCEPT !.maxstacksize = IF newstack > @ THEN newstack ELSE @]
reserveregs(fs, n) == IF fs.error THEN fs ELSE [checkstack(fs, n) EXCEPT !.freereg = @ + n]
freereg(fs, reg) ==
  IF ISK(reg) \/ reg < nactvar(fs) THEN fs
  ELSE [assert(fs, reg = fs.freereg - 1) EXCEPT !.freereg = @ - 1]
freeexp(fs, e) == IF e.k = "VNONRELOC" THEN freereg(fs, e.info) ELSE fs

\* addk: the constant v, and its index; gafqH_set takes no NaN for a key
addk(fs, v) ==
  IF Contains(fs.k, v) THEN fs
  ELSE [checklimit(fs, Len(fs.k) + 1, MAXARG_Bx)
          EXCEPT !.k = Append(@, v), !.error = @ \/ (isnumber(v) /\ isnan(v[2]))]
indexk(fs, v) == IF Contains(fs.k, v) THEN SelectInSeq(fs.k, LAMBDA x : x = v) - 1 ELSE Len(fs.k)

\* the value of a constant expression
constant(e) ==
  CASE e.k = "VNIL" -> <<"nil">>
    [] e.k = "VTRUE" -> <<"bool", TRUE>>
    [] e.k = "VFALSE" -> <<"bool", FALSE>>
    [] e.k = "VKNUM" -> <<"num", e.nval>>

\* gafqK_nil: registers are clean at the start of a function, and an adjacent
\* LOADNIL is extended, unless a jump leads here
nil(fs, from, n) ==
  LET p == at(fs, pc(fs) - 1)
      last == from + n - 1
  IN IF pc(fs) > fs.lasttarget /\ pc(fs) = 0 /\ from >= nactvar(fs) THEN fs
     ELSE IF pc(fs) > fs.lasttarget /\ pc(fs) > 0
             /\ p.o = "LOADNIL" /\ p.a <= from /\ from <= p.b + 1
     THEN [fs EXCEPT !.code[pc(fs)].b = IF last > @ THEN last ELSE @]
     ELSE code(fs, "LOADNIL", from, last, 0)

ret(fs, first, nret) == code(fs, "RETURN", first, nret + 1, 0)

\* gafqK_setlist; a large block number is a word of its own after the instruction
setlist(fs, base, nelems, tostore) ==
  LET c == (nelems - 1) \div LFIELDS_PER_FLUSH + 1
      b == IF tostore = MULTRET THEN 0 ELSE tostore
  IN [code(assert(fs, tostore # 0), "SETLIST", base, b, IF c <= MAXARG_C THEN c ELSE 0)
        EXCEPT !.code = IF c <= MAXARG_C THEN @ ELSE Append(@, word(c)), !.freereg = base + 1]

\* gafqO_int2fb, gafqO_fb2int: a size as mantissa and exponent, rounded up
int2fb(x) ==
  LET halve[<<m, e>> \in Nat \X Nat] == IF m < 16 THEN <<m, e>> ELSE halve[<<(m + 1) \div 2, e + 1>>]
      r == halve[<<x, 0>>]
  IN IF r[1] < 8 THEN r[1] ELSE (r[2] + 1) * 8 + (r[1] - 8)
fb2int(x) == IF x \div 8 = 0 THEN x ELSE ((x % 8) + 8) * 2^(x \div 8 - 1)

-----------------------------------------------------------------------------
(* Expressions into registers.  r is [fs, e]: the function and the         *)
(* expression that has just been parsed.                                   *)

freed(r) == [r EXCEPT !.fs = freeexp(r.fs, r.e)]

\* the function, the results of the call or vararg being adjusted
setreturns(r, nresults) ==
  CASE r.e.k = "VCALL" -> [r.fs EXCEPT !.code[r.e.info + 1].c = nresults + 1]
    [] r.e.k = "VVARARG" ->
         reserveregs([r.fs EXCEPT !.code[r.e.info + 1] = [@ EXCEPT !.b = nresults + 1,
                                                                   !.a = r.fs.freereg]], 1)
    [] OTHER -> r.fs
setoneret(r) ==
  CASE r.e.k = "VCALL" -> [r EXCEPT !.e.k = "VNONRELOC", !.e.info = at(r.fs, @).a]
    [] r.e.k = "VVARARG" -> [r EXCEPT !.fs.code[r.e.info + 1].b = 2, !.e.k = "VRELOCABLE"]
    [] OTHER -> r

\* an instruction whose result register is not known yet
relocatable(r, o, b, c) ==
  Both(code(r.fs, o, 0, b, c), [r.e EXCEPT !.k = "VRELOCABLE", !.info = pc(r.fs)])

dischargevars(r) ==
  CASE r.e.k = "VLOCAL" -> [r EXCEPT !.e.k = "VNONRELOC"]
    [] r.e.k = "VUPVAL" -> relocatable(r, "GETUPVAL", r.e.info, 0)
    [] r.e.k = "VGLOBAL" -> relocatable(r, "GETGLOBAL", r.e.info, 0)
    [] r.e.k = "VINDEXED" ->
         relocatable([r EXCEPT !.fs = freereg(freereg(@, r.e.aux), r.e.info)],
                     "GETTABLE", r.e.info, r.e.aux)
    [] r.e.k \in {"VVARARG", "VCALL"} -> setoneret(r)
    [] OTHER -> r

\* the value of a discharged expression goes to reg
load(fs, e, reg) ==
  CASE e.k = "VNIL" -> nil(fs, reg, 1)
    [] e.k \in {"VFALSE", "VTRUE"} ->
         code(fs, "LOADBOOL", reg, IF e.k = "VTRUE" THEN 1 ELSE 0, 0)
    [] e.k = "VK" -> code(fs, "LOADK", reg, e.info, 0)
    [] e.k = "VKNUM" -> code(addk(fs, constant(e)), "LOADK", reg, indexk(fs, constant(e)), 0)
    [] e.k = "VRELOCABLE" -> [fs EXCEPT !.code[e.info + 1].a = reg]
    [] e.k = "VNONRELOC" /\ reg # e.info -> code(fs, "MOVE", reg, e.info, 0)
    [] OTHER -> fs
loaded(r, reg) ==
  IF r.fs.error \/ r.e.k \in {"VVOID", "VJMP"} THEN r
  ELSE Both(load(r.fs, r.e, reg), [r.e EXCEPT !.k = "VNONRELOC", !.info = reg])
discharge2reg(r, reg) == loaded(dischargevars(r), reg)
discharge2anyreg(r) ==
  IF r.e.k = "VNONRELOC" THEN r
  ELSE discharge2reg([r EXCEPT !.fs = reserveregs(@, 1)], r.fs.freereg)

\* code_label
label(fs, a, b, skip) == code(getlabel(fs), "LOADBOOL", a, b, skip)

\* a jump goes to its own list of true
withjump(r) ==
  IF r.e.k # "VJMP" THEN r
  ELSE Both(concat(r.fs, r.e.t, r.e.info), [r.e EXCEPT !.t = headof(@, r.e.info)])
\* false and true are loaded, and jumped over by code that gets here otherwise
loadbools(r, reg) ==
  IF r.e.k = "VJMP" THEN label(label(r.fs, reg, 0, 1), reg, 1, 0)
  ELSE patchtohere(label(label(jump(r.fs), reg, 0, 1), reg, 1, 0), pc(r.fs))
patchjumps(fs, e, reg, p_f, p_t) ==
  patchlistaux(patchlistaux(fs, e.f, pc(fs), reg, p_f), e.t, pc(fs), reg, p_t)
\* the jumps of r all come here with a value in reg; some may have none yet
joinjumps(r, reg) ==
  LET p_f == IF r.e.k = "VJMP" THEN pc(r.fs) ELSE pc(r.fs) + 1 IN
  IF ~hasjumps(r.e) THEN r.fs
  ELSE IF need_value(r.fs, r.e.t) \/ need_value(r.fs, r.e.f)
  THEN patchjumps(getlabel(loadbools(r, reg)), r.e, reg, p_f, p_f + 1)
  ELSE patchjumps(getlabel(r.fs), r.e, reg, NO_JUMP, NO_JUMP)
inreg(r, reg) == IF r.fs.error THEN r ELSE Both(joinjumps(r, reg), Exp("VNONRELOC", reg))
exp2reg(r, reg) == inreg(withjump(discharge2reg(r, reg)), reg)

tonextreg(r) == IF r.fs.error THEN r ELSE exp2reg([r EXCEPT !.fs = reserveregs(@, 1)], r.fs.freereg)
exp2nextreg(r) == IF r.fs.error THEN r ELSE tonextreg(freed(dischargevars(r)))

toanyreg(r) ==
  IF r.e.k = "VNONRELOC" /\ ~hasjumps(r.e) THEN r
  ELSE IF r.e.k = "VNONRELOC" /\ r.e.info >= nactvar(r.fs) THEN exp2reg(r, r.e.info)
  ELSE exp2nextreg(r)
exp2anyreg(r) == IF r.fs.error THEN r ELSE toanyreg(dischargevars(r))
exp2val(r) == IF ~r.fs.error /\ hasjumps(r.e) THEN exp2anyreg(r) ELSE dischargevars(r)

\* the result's e.info is the register, or e.k = VK; rk is the operand
toRK(r) ==
  IF r.e.k \in {"VKNUM", "VTRUE", "VFALSE", "VNIL"} /\ Len(r.fs.k) <= MAXINDEXRK
  THEN Both(addk(r.fs, constant(r.e)), [r.e EXCEPT !.k = "VK", !.info = indexk(r.fs, constant(r.e))])
  ELSE IF r.e.k = "VK" /\ r.e.info <= MAXINDEXRK THEN r
  ELSE exp2anyreg(r)
exp2RK(r) == IF r.fs.error THEN r ELSE toRK(exp2val(r))
rk(e) == IF e.k = "VK" THEN RKASK(e.info) ELSE e.info

-----------------------------------------------------------------------------
(* Variables.                                                              *)

\* the expression r is stored in var; only the function is left
storereg(r, var) ==
  freeexp(code(r.fs, IF var.k = "VUPVAL" THEN "SETUPVAL" ELSE "SETGLOBAL", r.e.info, var.info, 0), r.e)
storeindexed(r, var) == freeexp(code(r.fs, "SETTABLE", var.info, var.aux, rk(r.e)), r.e)
storevar(r, var) ==
  CASE r.fs.error -> r.fs
    [] ~r.fs.error /\ var.k = "VLOCAL" -> exp2reg(freed(r), var.info).fs
    [] ~r.fs.error /\ var.k \in {"VUPVAL", "VGLOBAL"} -> storereg(exp2anyreg(r), var)
    [] ~r.fs.error /\ var.k = "VINDEXED" -> storeindexed(exp2RK(r), var)

\* table t indexed by the key in register or constant r
indexby(r, t) == Both(r.fs, [t EXCEPT !.aux = rk(r.e), !.k = "VINDEXED"])
indexed(r, t) == indexby(exp2RK(r), t)

\* the method whose name is r of object e
emitself(r, e, func) ==
  Both(freeexp(code(r.fs, "SELF", func, e.info, rk(r.e)), r.e), Exp("VNONRELOC", func))
methodof(r, key) == emitself(exp2RK(Both(reserveregs(r.fs, 2), key)), r.e, r.fs.freereg)
self(r, e) == methodof(freed(exp2anyreg(Both(r.fs, e))), r.e)

-----------------------------------------------------------------------------
(* Operators.                                                              *)

invertjump(r) ==
  LET c == getjumpcontrol(r.fs, r.e.info) IN
  [assert(r.fs, testTMode(at(r.fs, c).o) /\ at(r.fs, c).o \notin {"TESTSET", "TEST"})
     EXCEPT !.code[c + 1].a = 1 - @]

\* the function, a jump on the value of r at its end; an OP_NOT is removed
testset(r, cond) == condjump(r.fs, "TESTSET", NO_REG, r.e.info, cond)
jumponcond(r, cond) ==
  LET ie == at(r.fs, r.e.info) IN
  IF r.e.k = "VRELOCABLE" /\ ie.o = "NOT"
  THEN condjump([r.fs EXCEPT !.code = Front(@)], "TEST", ie.b, 0, 1 - cond)
  ELSE testset(freed(discharge2anyreg(r)), cond)

\* with the jump that leaves r when its value is not cond, or none
atend(fs) == Both(fs, pc(fs) - 1)
exitjump(r, constants, cond) ==
  CASE r.e.k \in constants -> Both(r.fs, NO_JUMP)
    [] r.e.k = "VJMP" -> Both(IF cond = 0 THEN invertjump(r) ELSE r.fs, r.e.info)
    [] OTHER -> atend(jumponcond(r, cond))
ontrue(e, j) ==
  Both(patchtohere(concat(j.fs, e.f, j.e), e.t), [e EXCEPT !.f = headof(@, j.e), !.t = NO_JUMP])
onfalse(e, j) ==
  Both(patchtohere(concat(j.fs, e.t, j.e), e.f), [e EXCEPT !.t = headof(@, j.e), !.f = NO_JUMP])
iftrue(r) == ontrue(r.e, exitjump(r, {"VK", "VKNUM", "VTRUE"}, 0))
iffalse(r) == onfalse(r.e, exitjump(r, {"VNIL", "VFALSE"}, 1))
goiftrue(r) == iftrue(dischargevars(r))
goiffalse(r) == iffalse(dischargevars(r))

notof(r) == relocatable(r, "NOT", r.e.info, 0)
negated(r) ==
  CASE r.e.k \in {"VNIL", "VFALSE"} -> [r EXCEPT !.e.k = "VTRUE"]
    [] r.e.k \in {"VK", "VKNUM", "VTRUE"} -> [r EXCEPT !.e.k = "VFALSE"]
    [] r.e.k = "VJMP" -> [r EXCEPT !.fs = invertjump(r)]
    [] OTHER -> notof(freed(discharge2anyreg(r)))
exchanged(r) ==
  Both(removevalues(removevalues(r.fs, r.e.t), r.e.f), [r.e EXCEPT !.t = r.e.f, !.f = r.e.t])
codenot(r) == exchanged(negated(dischargevars(r)))

constfolding(op, e1, e2) ==
  /\ isnumeral(e1) /\ isnumeral(e2) /\ op \notin {"LEN", "CONCAT"}
  /\ ~(op \in {"DIV", "MOD"} /\ val(e2.nval) = 0)
  /\ ~isnan(folded(op, e1.nval, e2.nval))

\* codearith: the second operand e2 is put in a register first, and of the two
\* the one in the higher register is freed first
unary(op) == op \in {"UNM", "LEN"}
\* mutant: the first operand is always freed first
emitarith_FreeOrder(r, op, e2) ==
  LET o2 == IF unary(op) THEN 0 ELSE rk(e2) IN
  relocatable([r EXCEPT !.fs = freeexp(freeexp(@, r.e), e2)], op, rk(r.e), o2)

emitarith(r, op, e2) ==
  LET o2 == IF unary(op) THEN 0 ELSE rk(e2) IN
  relocatable([r EXCEPT !.fs = IF rk(r.e) > o2 THEN freeexp(freeexp(@, r.e), e2)
                               ELSE freeexp(freeexp(@, e2), r.e)], op, rk(r.e), o2)
firstoperand(r, op, e1) == emitarith(exp2RK(Both(r.fs, e1)), op, r.e)
codearith(r, op, e1) ==
  IF constfolding(op, e1, r.e) THEN Both(r.fs, [e1 EXCEPT !.nval = folded(op, @, r.e.nval)])
  ELSE firstoperand(IF unary(op) THEN r ELSE exp2RK(r), op, e1)

\* codecomp: > and >= are < and <= with their operands exchanged
emitcomp(r, op, cond, e1) ==
  LET swap == cond = 0 /\ op # "EQ"
      b == IF swap THEN r.e ELSE e1
      c == IF swap THEN e1 ELSE r.e
  IN Both(condjump(freeexp(freeexp(r.fs, r.e), e1), op, IF swap THEN 1 ELSE cond, rk(b), rk(c)),
          [e1 EXCEPT !.k = "VJMP", !.info = pc(r.fs) + 1])
secondoperand(r, op, cond, e2) == emitcomp(exp2RK(Both(r.fs, e2)), op, cond, r.e)
codecomp(r, op, cond, e1) == secondoperand(exp2RK(Both(r.fs, e1)), op, cond, r.e)

\* a unary operator, after its operand
unaryarith(r, op) == codearith(Both(r.fs, [Exp("VKNUM", 0) EXCEPT !.nval = <<0>>]), op, r.e)
prefix(r, op) ==
  CASE op = "not" -> codenot(r)
    [] op \in {"-", "#"} ->
         unaryarith(IF op = "-" /\ isnumeral(r.e) THEN r ELSE exp2anyreg(r),
                    IF op = "-" THEN "UNM" ELSE "LEN")

\* between the operands of a binary operator
infix(r, op) ==
  CASE op = "and" -> goiftrue(r)
    [] op = "or" -> goiffalse(r)
    [] op = ".." -> exp2nextreg(r)
    [] op \in DOMAIN arith /\ isnumeral(r.e) -> r
    [] OTHER -> exp2RK(r)

\* after them: r is the second operand and e1 the first
andor(r, op, e1) ==
  IF op = "and"
  THEN Both(concat(assert(r.fs, e1.t = NO_JUMP), r.e.f, e1.f), [r.e EXCEPT !.f = headof(@, e1.f)])
  ELSE Both(concat(assert(r.fs, e1.f = NO_JUMP), r.e.t, e1.t), [r.e EXCEPT !.t = headof(@, e1.t)])
\* a .. (b .. c) is one instruction
concatenation(r, e1) ==
  LET i == at(r.fs, r.e.info) IN
  IF r.e.k = "VRELOCABLE" /\ i.o = "CONCAT"
  THEN Both([freeexp(assert(r.fs, e1.info = i.b - 1), e1) EXCEPT !.code[r.e.info + 1].b = e1.info],
            [e1 EXCEPT !.k = "VRELOCABLE", !.info = r.e.info])
  ELSE codearith(exp2nextreg(r), "CONCAT", e1)
posfix(r, op, e1) ==
  CASE op \in {"and", "or"} -> andor(dischargevars(r), op, e1)
    [] op = ".." -> concatenation(exp2val(r), e1)
    [] op \in DOMAIN arith -> codearith(r, arith[op], e1)
    [] OTHER -> codecomp(r, CASE op \in {"==", "~="} -> "EQ"
                              [] op \in {"<", ">"} -> "LT"
                              [] op \in {"<=", ">="} -> "LE",
                         IF op \in {"==", "<", "<="} THEN 1 ELSE 0, e1)
==============================================================================
