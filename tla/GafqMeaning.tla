----------------------------- MODULE GafqMeaning ------------------------------
(***************************************************************************)
(* What a program means, with no code, registers or stack: the reference   *)
(* the compiler and the interpreter are checked against.  Each variable is *)
(* a cell of its own; an expression is grouped by looking for the operator *)
(* that binds loosest.                                                     *)
(*                                                                         *)
(* A state is [cells, tabs, fns, out, st, rets]: the values of all         *)
(* variables made so far, the tables, the functions [body, env, needself], *)
(* the calls of C functions, what goes on (run, break, return or error)    *)
(* and the values being returned.  env is [vars, dots]: the variables in   *)
(* scope as pairs <<name, cell>>, innermost last, and the values of `...'. *)
(* Evaluation gives [s, v]: the state after it, and the values.            *)
(***************************************************************************)
EXTENDS GafqValues, SequencesExt

Running(s) == s.st = "run"
Fail(s) == [s EXCEPT !.st = "error"]
Val(s, v) == [s |-> s, v |-> v]
First(vs) == IF vs = <<>> THEN Nil ELSE vs[1]
Adjust(vs, n) == [j \in 1..n |-> IF j <= Len(vs) THEN vs[j] ELSE Nil]

\* new variables, the values of which go to new cells
Bind(env, s, names) ==
  [env EXCEPT !.vars = @ \o [j \in DOMAIN names |-> <<names[j], Len(s.cells) + j>>]]
DeclareAll(s, vs) == [s EXCEPT !.cells = @ \o vs]
CellOf(env, name) ==
  LET j == SelectLastInSeq(env.vars, LAMBDA x : x[1] = name) IN
  IF j = 0 THEN 0 ELSE env.vars[j][2]

Globals == <<"tab", 1>>
Read(s, env, name) ==
  IF CellOf(env, name) = 0 THEN get(s.tabs[1], literal(name)) ELSE s.cells[CellOf(env, name)]

Index(s, t, k) == IF t[1] = "tab" THEN Val(s, <<get(s.tabs[t[2]], k)>>) ELSE Val(Fail(s), <<Nil>>)
Store(s, t, k, v) ==
  IF t[1] = "tab" /\ validkey(k) THEN [s EXCEPT !.tabs[t[2]] = put(@, k, v)] ELSE Fail(s)
NewTable(s, h) == Val([s EXCEPT !.tabs = Append(@, h)], <<<<"tab", Len(s.tabs) + 1>>>>)
NewFunction(s, env, b, needself) ==
  Val([s EXCEPT !.fns = Append(@, [body |-> b, env |-> env, needself |-> needself])],
      <<<<"fn", Len(s.fns) + 1>>>>)

\* applying an operator that is not `and' or `or'
Binary(s, op, v, w) ==
  CASE op \in DOMAIN arith ->
         IF canarith(v, w) THEN Val(s, <<Arith(arith[op], v, w)>>) ELSE Val(Fail(s), <<Nil>>)
    [] op = ".." -> IF isstring(v) /\ isstring(w) THEN Val(s, <<<<"str", parts(v) \o parts(w)>>>>)
                    ELSE Val(Fail(s), <<Nil>>)
    [] op = "==" -> Val(s, <<Bool(equalobj(v, w))>>)
    [] op = "~=" -> Val(s, <<Bool(~equalobj(v, w))>>)
    [] OTHER ->
         IF ~comparable(v, w) THEN Val(Fail(s), <<Nil>>)
         ELSE Val(s, <<Bool(CASE op = "<" -> lessthan(v, w) [] op = "<=" -> lessequal(v, w)
                              [] op = ">" -> lessthan(w, v) [] op = ">=" -> lessequal(w, v))>>)
Unary(s, op, v) ==
  CASE op = "not" -> Val(s, <<Bool(l_isfalse(v))>>)
    [] op = "-" -> IF isnumber(v) THEN Val(s, <<Arith("UNM", v, v)>>) ELSE Val(Fail(s), <<Nil>>)
    [] op = "#" -> CASE v[1] = "tab" -> Val(s, <<int(length(s.tabs[v[2]]))>>)
                     [] v[1] = "str" -> Val(s, <<int(Len(v[2]))>>)
                     [] OTHER -> Val(Fail(s), <<Nil>>)

\* how tightly a binary operator binds, and whether it groups to the right
Level(op) ==
  CASE op = "or" -> 1 [] op = "and" -> 2 [] op \in {"==", "~=", "<", "<=", ">", ">="} -> 3
    [] op = ".." -> 4 [] op \in {"+", "-"} -> 5 [] op \in {"*", "/", "%"} -> 6 [] op = "^" -> 8
Rightwards(op) == op \in {"..", "^"}
Operators == DOMAIN arith \cup {"or", "and", "==", "~=", "<", "<=", ">", ">=", ".."}

\* the binary operators of a sequence of tokens: those that follow an operand
IsOperator(x) == x[1] \in Operators \cup {"not", "#"}
BinaryAt(toks) == {j \in 2..Len(toks) : IsOperator(toks[j]) /\ ~IsOperator(toks[j - 1])}
\* the one applied last, or 0 when the first token is applied last
MainOperator(toks) ==
  LET at0 == BinaryAt(toks)
      loosest == {j \in at0 : \A k \in at0 : Level(toks[j][1]) <= Level(toks[k][1])}
      unary == IsOperator(toks[1])
      m == CHOOSE j \in loosest : \A k \in loosest :
             IF Rightwards(toks[j][1]) THEN j <= k ELSE k <= j
  IN IF at0 = {} \/ (unary /\ Level(toks[m][1]) = 8) THEN 0 ELSE m

RECURSIVE EvalMulti(_, _, _), Exec(_, _, _), Apply(_, _, _)

\* one value of an expression
Eval1(s, env, toks) == LET r == EvalMulti(s, env, toks) IN Val(r.s, <<First(r.v)>>)

\* a list of expressions: the last one gives all its values
RECURSIVE EvalRest(_, _, _)
Joined(r, x) == Val(x.s, r.v \o x.v)
EvalRest(r, env, es) ==
  CASE ~Running(r.s) \/ Len(es) = 0 -> r
    [] Running(r.s) /\ Len(es) = 1 -> Joined(r, EvalMulti(r.s, env, es[1]))
    [] OTHER -> EvalRest(Joined(r, Eval1(r.s, env, es[1])), env, Tail(es))
EvalList(s, env, es) == EvalRest(Val(s, <<>>), env, es)

\* the fields of a constructor in order; n list items are before item j
RECURSIVE Fields(_, _, _, _, _, _)
Fields(s, env, t, items, j, n) ==
  LET item == items[j]
      last == j = Len(items) /\ item[1] = "item"
      x == IF last THEN EvalMulti(s, env, item[2]) ELSE Eval1(s, env, item[2])
      stored == FoldLeft(LAMBDA h, m : put(h, int(n + m), x.v[m]), x.s.tabs[t],
                         [m \in 1..Len(x.v) |-> m])
  IN IF j > Len(items) \/ ~Running(s) THEN s
     ELSE IF item[1] = "item"
     THEN Fields([x.s EXCEPT !.tabs[t] = stored], env, t, items, j + 1, n + 1)
     ELSE LET k == IF item[1] = "named" THEN Val(s, <<literal(item[2])>>)
                   ELSE Eval1(s, env, item[2])
              v == Eval1(k.s, env, item[3])
          IN Fields(Store(v.s, <<"tab", t>>, k.v[1], v.v[1]), env, t, items, j + 1, n)

Suffix(s, env, v, x) ==
  LET k == Eval1(s, env, x[2])
      m == Index(s, v, literal(x[2]))
      margs == EvalList(m.s, env, x[3])
      args == EvalList(s, env, x[2])
  IN CASE x[1] = "." -> Index(s, v, literal(x[2]))
       [] x[1] = "[" -> Index(k.s, v, k.v[1])
       [] x[1] = ":" -> Apply(margs.s, m.v[1], <<v>> \o margs.v)
       [] x[1] = "(" -> Apply(args.s, v, args.v)

Prefix(s, env, x) == IF x[1] = "paren" THEN Eval1(s, env, x[2]) ELSE Val(s, <<Read(s, env, x[2])>>)
RECURSIVE Suffixed(_, _, _)
Suffixed(r, env, suffixes) ==
  IF suffixes = <<>> \/ ~Running(r.s) THEN r
  ELSE Suffixed(Suffix(r.s, env, First(r.v), suffixes[1]), env, Tail(suffixes))
Primary(s, env, x, suffixes) == Suffixed(Prefix(s, env, x), env, suffixes)

Simple(s, env, x) ==
  LET t == NewTable(s, [k \in {} |-> Nil]) IN
  CASE x[1] = "num" -> Val(s, <<int(x[2])>>)
    [] x[1] = "str" -> Val(s, <<literal(x[2])>>)
    [] x[1] = "nil" -> Val(s, <<Nil>>)
    [] x[1] = "true" -> Val(s, <<Bool(TRUE)>>)
    [] x[1] = "false" -> Val(s, <<Bool(FALSE)>>)
    [] x[1] = "..." -> Val(s, env.dots)
    [] x[1] = "table" -> Val(Fields(t.s, env, t.v[1][2], x[2], 1, 0), t.v)
    [] x[1] = "function" -> NewFunction(s, env, x[2], FALSE)
    [] x[1] \in {"name", "paren"} -> Prefix(s, env, x)
    [] x[1] = "primary" -> Primary(s, env, x[2], x[3])

EvalMulti(s, env, toks) ==
  LET m == MainOperator(toks)
      op == toks[IF m = 0 THEN 1 ELSE m][1]
      l == Eval1(s, env, SubSeq(toks, 1, m - 1))
      r == Eval1(l.s, env, SubSeq(toks, m + 1, Len(toks)))
      u == Eval1(s, env, Tail(toks))
  IN IF ~Running(s) THEN Val(s, <<Nil>>)
     ELSE IF Len(toks) = 1 THEN Simple(s, env, toks[1])
     ELSE IF m = 0 THEN (IF Running(u.s) THEN Unary(u.s, op, u.v[1]) ELSE u)
     ELSE IF op \in {"and", "or"}
     THEN (IF ~Running(l.s) \/ l_isfalse(l.v[1]) = (op = "and") THEN l ELSE r)
     ELSE IF ~Running(r.s) THEN r ELSE Binary(r.s, op, l.v[1], r.v[1])

\* the call of a function with the values args
Apply(s, f, args) ==
  LET fn == s.fns[f[2]]
      b == fn.body
      names == (IF fn.needself THEN <<"self">> ELSE <<>>) \o b.params
      extra == SubSeq(args, Len(names) + 1, Len(args))
      \* a vararg function that does not use `...' has its values in a table arg
      arg == NewTable(s, [k \in {x \in {int(j) : j \in DOMAIN extra} : extra[val(x[2])] # Nil}
                                \cup {literal("n")} |->
                            IF k = literal("n") THEN int(Len(extra)) ELSE extra[val(k[2])]])
      all == IF b.dots = "no" THEN names ELSE Append(names, "arg")
      s0 == IF b.dots = "arg" THEN arg.s ELSE s
      vs == Adjust(args, Len(names)) \o (CASE b.dots = "no" -> <<>> [] b.dots = "used" -> <<Nil>>
                                           [] b.dots = "arg" -> arg.v)
      env == [Bind(fn.env, s0, all) EXCEPT !.dots = extra]
      r == Exec(DeclareAll(s0, vs), env, b.block).s
  IN CASE ~Running(s) -> Val(s, <<>>)
       [] Running(s) /\ f[1] = "ext" ->
            Val([s EXCEPT !.out = Append(@, <<f[2], args>>)], answers(f[2], args, Len(s.out)))
       [] Running(s) /\ f[1] = "fn" ->
            IF r.st = "error" THEN Val(r, <<>>)
            ELSE Val([r EXCEPT !.st = "run", !.rets = <<>>], r.rets)
       [] OTHER -> Val(Fail(s), <<>>)

-----------------------------------------------------------------------------
(* Statements.  Exec gives [s, env]: the variables of a block are in scope *)
(* after it for the condition of a repeat.                                 *)

Block(s, env, stats) == Exec(s, env, stats).s
AfterLoop(s) == IF s.st = "break" THEN [s EXCEPT !.st = "run"] ELSE s

RECURSIVE While(_, _, _, _), Repeat(_, _, _, _), ForNum(_, _, _, _, _, _, _), ForIn(_, _, _, _, _),
          If(_, _, _, _)
While(s, env, c, stats) ==
  LET v == Eval1(s, env, c)
      b == Block(v.s, env, stats)
  IN IF ~Running(v.s) \/ l_isfalse(v.v[1]) THEN v.s
     ELSE IF Running(b) THEN While(b, env, c, stats) ELSE AfterLoop(b)
Repeat(s, env, stats, c) ==
  LET b == Exec(s, env, stats)
      v == Eval1(b.s, b.env, c)
  IN IF ~Running(b.s) THEN AfterLoop(b.s)
     ELSE IF ~Running(v.s) \/ ~l_isfalse(v.v[1]) THEN v.s
     ELSE Repeat(v.s, env, stats, c)
ForNum(s, env, name, n, limit, step, stats) ==
  LET b == Block(DeclareAll(s, <<int(n)>>), Bind(env, s, <<name>>), stats) IN
  IF (IF step > 0 THEN n > limit ELSE n < limit) THEN s
  ELSE IF Running(b) THEN ForNum(b, env, name, n + step, limit, step, stats) ELSE AfterLoop(b)
\* ctl is <<f, state, control>>
ForIn(s, env, names, ctl, stats) ==
  LET r == Apply(s, ctl[1], <<ctl[2], ctl[3]>>)
      vs == Adjust(r.v, Len(names))
      b == Block(DeclareAll(r.s, vs), Bind(env, r.s, names), stats)
  IN IF ~Running(r.s) \/ vs[1] = Nil THEN r.s
     ELSE IF Running(b) THEN ForIn(b, env, names, <<ctl[1], ctl[2], vs[1]>>, stats)
     ELSE AfterLoop(b)
If(s, env, clauses, else) ==
  LET v == Eval1(s, env, clauses[1][1]) IN
  IF clauses = <<>> THEN (IF else = <<>> THEN s ELSE Block(s, env, else[1]))
  ELSE IF ~Running(v.s) THEN v.s
  ELSE IF ~l_isfalse(v.v[1]) THEN Block(v.s, env, clauses[1][2])
  ELSE If(v.s, env, Tail(clauses), else)

\* where an assignment stores: <<"cell", n>> or <<"index", table, key>>
Target(s, env, x) ==
  LET object == Primary(s, env, x[2], Front(x[3]))
      suffix == Last(x[3])
      k == IF suffix[1] = "." THEN Val(object.s, <<literal(suffix[2])>>)
           ELSE Eval1(object.s, env, suffix[2])
  IN IF x[1] = "primary" THEN Val(k.s, <<"index", First(object.v), k.v[1]>>)
     ELSE IF CellOf(env, x[2]) # 0 THEN Val(s, <<"cell", CellOf(env, x[2])>>)
     ELSE Val(s, <<"index", Globals, literal(x[2])>>)
AssignTo(s, target, v) ==
  IF target[1] = "cell" THEN [s EXCEPT !.cells[target[2]] = v] ELSE Store(s, target[2], target[3], v)
\* all is evaluated before anything is assigned; the last target comes first
RECURSIVE Targets(_, _, _), StoreAll(_, _, _)
Targets(r, env, xs) ==
  IF xs = <<>> \/ ~Running(r.s) THEN r
  ELSE LET t == Target(r.s, env, xs[1]) IN Targets(Val(t.s, Append(r.v, t.v)), env, Tail(xs))
StoreAll(s, ts, vs) ==
  IF ts = <<>> \/ ~Running(s) THEN s
  ELSE StoreAll(AssignTo(s, Last(ts), vs[Len(ts)]), Front(ts), vs)
Assign(s, env, xs, es) ==
  LET ts == Targets(Val(s, <<>>), env, xs)
      r == EvalList(ts.s, env, es)
  IN StoreAll(r.s, ts.v, Adjust(r.v, Len(xs)))

Statement(s, env, st) ==
  LET es == EvalList(s, env, IF st[1] \in {"local", "forlist", "fornum"} THEN st[3] ELSE <<>>)
      same(x) == [s |-> x, env |-> env]
      rets == EvalList(s, env, st[2])
      call == Simple(s, env, st[2])
      inner == Bind(env, s, <<st[2]>>)
      names == st[2]
      object == Primary(s, env, <<"name", names[1]>>,
                         [j \in 1..Len(names) - 2 |-> <<".", names[j + 1]>>])
      f == IF st[1] = "localfunction" THEN NewFunction(DeclareAll(s, <<Nil>>), inner, st[3], FALSE)
           ELSE NewFunction(IF Len(names) > 1 THEN object.s ELSE s, env, st[4], st[3])
      target == IF Len(names) > 1 THEN <<"index", First(object.v), literal(Last(names))>>
                ELSE Target(s, env, <<"name", names[1]>>).v
      n(j) == val(es.v[j][2])
  IN CASE st[1] = "if" -> same(If(s, env, st[2], st[3]))
       [] st[1] = "while" -> same(While(s, env, st[2], st[3]))
       [] st[1] = "repeat" -> same(Repeat(s, env, st[2], st[3]))
       [] st[1] = "do" -> same(Block(s, env, st[2]))
       [] st[1] = "fornum" ->
            same(IF ~Running(es.s) THEN es.s
                 ELSE IF \E j \in 1..Len(st[3]) : ~isnumber(es.v[j]) THEN Fail(es.s)
                 ELSE ForNum(es.s, env, st[2], n(1), n(2), IF Len(st[3]) = 3 THEN n(3) ELSE 1, st[4]))
       [] st[1] = "forlist" ->
            same(IF Running(es.s) THEN ForIn(es.s, env, st[2], Adjust(es.v, 3), st[4]) ELSE es.s)
       [] st[1] = "local" ->
            [s |-> DeclareAll(es.s, Adjust(es.v, Len(names))), env |-> Bind(env, es.s, names)]
       [] st[1] = "localfunction" ->
            [s |-> [f.s EXCEPT !.cells[Len(s.cells) + 1] = f.v[1]], env |-> inner]
       [] st[1] = "function" -> same(StoreAll(f.s, <<target>>, f.v))
       [] st[1] = "return" ->
            same(IF Running(rets.s) THEN [rets.s EXCEPT !.st = "return", !.rets = rets.v] ELSE rets.s)
       [] st[1] = "break" -> same([s EXCEPT !.st = "break"])
       [] st[1] = "call" -> same(call.s)
       [] st[1] = "assign" -> same(Assign(s, env, st[2], st[3]))

RECURSIVE ExecRest(_, _)
ExecRest(r, stats) ==
  IF stats = <<>> \/ ~Running(r.s) THEN r
  ELSE ExecRest(Statement(r.s, r.env, stats[1]), Tail(stats))
Exec(s, env, stats) == ExecRest([s |-> s, env |-> env], stats)

\* what a program does: the calls it makes, the tables it leaves, how it ends
Meaning(stats, globals) ==
  LET r == Block([cells |-> <<>>, tabs |-> <<globals>>, fns |-> <<"main">>, out |-> <<>>,
                  st |-> "run", rets |-> <<>>],
                 [vars |-> <<>>, dots |-> <<>>], stats)
  IN [out |-> r.out, tabs |-> r.tabs, rets |-> r.rets,
      status |-> IF r.st = "error" THEN "error" ELSE "done"]
==============================================================================
