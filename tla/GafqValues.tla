------------------------------ MODULE GafqValues ------------------------------
(***************************************************************************)
(* Values and the operations on them (gobject.c, gvm.c) that the compiler, *)
(* the interpreter and the meaning of programs share.  A value is          *)
(* <<"nil">>, <<"bool", b>>, <<"num", term>>, <<"str", parts>>,            *)
(* <<"tab", n>>, <<"fn", n>> or <<"ext", name>>, a C function.  A number   *)
(* is a term, so that two results are the same only when the same          *)
(* operations gave them; a string is a sequence of parts.                  *)
(***************************************************************************)
EXTENDS Integers, Sequences, FiniteSets

literal(s) == <<"str", <<<<"literal", s>>>>>>
folded(op, x, y) == IF op = "UNM" THEN <<op, x>> ELSE <<op, x, y>>
arith == [x \in {"+", "-", "*", "/", "%", "^"} |->
            CASE x = "+" -> "ADD" [] x = "-" -> "SUB" [] x = "*" -> "MUL"
              [] x = "/" -> "DIV" [] x = "%" -> "MOD" [] x = "^" -> "POW"]

Nil == <<"nil">>
Bool(b) == <<"bool", b>>
l_isfalse(v) == v \in {Nil, Bool(FALSE)}
bit(b) == IF b THEN 1 ELSE 0

divides(m, n) == m # 0 /\ n % (IF m < 0 THEN -m ELSE m) = 0

\* a number that decides comparisons: quotients, remainders and powers are told
\* apart only from 0
RECURSIVE val(_)
val(x) ==
  CASE Len(x) = 1 -> x[1]
    [] x[1] = "ADD" -> val(x[2]) + val(x[3])
    [] x[1] = "SUB" -> val(x[2]) - val(x[3])
    [] x[1] = "MUL" -> val(x[2]) * val(x[3])
    [] x[1] = "UNM" -> -val(x[2])
    [] x[1] = "MOD" -> IF divides(val(x[3]), val(x[2])) THEN 0 ELSE 1
    [] x[1] = "DIV" -> IF val(x[2]) = 0 THEN 0 ELSE 1
    [] x[1] = "POW" -> IF val(x[2]) = 0 /\ val(x[3]) > 0 THEN 0 ELSE 1

\* gafqi_numisnan: of numbers that are not infinite, and without a division by
\* zero, only a power can be NaN, of a negative number to a fraction
isfraction(x) == x[1] = "DIV" /\ ~divides(val(x[3]), val(x[2]))
isnan(x) ==
  /\ Len(x) = 3 /\ x[1] = "POW" /\ val(x[2]) < 0
  /\ Len(x[3]) = 3 /\ isfraction(x[3])

isnumber(v) == v[1] = "num"
isstring(v) == v[1] \in {"num", "str"}      \* has a string form
\* the key of a table that v is
keyof(v) == IF isnumber(v) THEN <<"num", <<val(v[2])>>>> ELSE v
parts(v) == IF isnumber(v) THEN <<<<"number", v[2]>>>> ELSE v[2]

canarith(v, w) == isnumber(v) /\ isnumber(w)
Arith(op, v, w) == <<"num", folded(op, v[2], w[2])>>

\* gafqV_equalval and the order of numbers and of strings
equalobj(v, w) == keyof(v) = keyof(w)
comparable(v, w) == v[1] = w[1] /\ v[1] \in {"num", "str"}
lessthan(v, w) ==
  IF isnumber(v) THEN val(v[2]) < val(w[2]) ELSE Len(v[2]) < Len(w[2])
lessequal(v, w) ==
  IF isnumber(v) THEN val(v[2]) <= val(w[2]) ELSE Len(v[2]) <= Len(w[2])

get(h, k) == IF keyof(k) \in DOMAIN h THEN h[keyof(k)] ELSE Nil
\* a key with value nil is absent
put(h, k, v) ==
  [x \in (DOMAIN h \cup {keyof(k)}) \ (IF v = Nil THEN {keyof(k)} ELSE {}) |->
     IF x = keyof(k) THEN v ELSE h[x]]
validkey(k) == k # Nil
int(n) == <<"num", <<n>>>>
length(h) ==
  CHOOSE n \in 0..Cardinality(DOMAIN h) :
    int(n + 1) \notin DOMAIN h /\ \A j \in 1..n : int(j) \in DOMAIN h
canlength(v) == v[1] \in {"tab", "str"}

\* what the C function n answers to its k-th call of all; c is true at first
answers(n, args, k) ==
  CASE n = "f" -> <<int(10 + k)>>
    [] n = "two" -> <<int(20 + k), int(30 + k)>>
    [] n = "none" -> <<>>
    [] n = "c" -> <<Bool(k < 3)>>
    [] n = "iter" -> IF k < 4 THEN <<int(40 + k), int(50 + k)>> ELSE <<Nil>>
==============================================================================
