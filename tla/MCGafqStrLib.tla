----------------------------- MODULE MCGafqStrLib -----------------------------
(***************************************************************************)
(* The calls that are tried: all patterns of some shapes on all subjects   *)
(* up to a length, with their items; and all short texts as patterns.      *)
(***************************************************************************)
EXTENDS GafqStrLib

\* the characters of subjects
Letter == {"a", "b"}
Every == {"a", "b", "1", "(", ")"}

Item(text, kind, set, k) == [text |-> text, kind |-> kind, set |-> set, k |-> k]
Class(text, set) == [text |-> text, set |-> set]
A == Class(<<"a">>, {"a"})
Dot == Class(<<".">>, Every)
NotA == Class(<<"[", "^", "a", "]">>, Every \ {"a"})
OneOf == Class(<<"[", "%", "d", "a", "-", "b", "]">>, {"1", "a", "b"})
NotLetter == Class(<<"%", "A">>, Every \ Letter)

One(c) == <<Item(c.text, "one", c.set, 0)>>
Opt(c) == <<Item(Append(c.text, "?"), "opt", c.set, 0)>>
Star(c) == <<Item(Append(c.text, "*"), "star", c.set, 0)>>
Plus(c) == <<Item(Append(c.text, "+"), "plus", c.set, 0)>>
Lazy(c) == <<Item(Append(c.text, "-"), "minus", c.set, 0)>>
Open == Item(<<"(">>, "open", {}, 0)
Close == Item(<<")">>, "close", {}, 0)
Group(is) == <<Open>> \o is \o <<Close>>
Place == <<Item(<<"(", ")">>, "pos", {}, 0)>>
Again == <<Item(<<"%", "1">>, "back", {}, 1)>>
Pair == <<Item(<<"%", "b", "(", ")">>, "balance", {}, 0)>>
Edge == <<Item(<<"%", "f", "[", "a", "]">>, "frontier", {"a"}, 0)>>
Leave == <<Item(<<"%", "f", "[", "^", "a", "]">>, "frontier", {"b", "1", "(", ")", ""}, 0)>>
AtEnd == <<Item(<<"$">>, "end", {}, 0)>>

Repeats(c) == {One(c), Opt(c), Star(c), Plus(c), Lazy(c)}
Few == {One(A), Star(A), Lazy(Dot), Plus(Dot), Opt(NotA)}
Plain1 == UNION {Repeats(c) : c \in {A, Dot, NotA, OneOf, NotLetter}}
Plain == Plain1 \cup {x \o y : x \in Few, y \in Plain1} \cup {x \o y \o AtEnd : x, y \in Few}
         \cup {x \o y \o z : x, y, z \in Few}
Captured ==
  UNION {{Group(x) \o y, Group(x) \o Group(y), Group(x \o Group(y)), Place \o x \o Place \o y,
          Group(x) \o y \o Again, Group(x) \o Again \o y, x \o Group(y) \o AtEnd} : x, y \in Few}
  \cup {Group(x) \o y \o Group(z) : x, y, z \in Few}
Edges == {Edge \o x : x \in Few} \cup {x \o Leave \o y : x, y \in Few} \cup {Edge \o Group(x) \o Leave : x \in Few}
Pairs == {Pair} \cup {x \o Pair : x \in Few} \cup {Group(Pair \o x) : x \in Few}

Strings(cs, k) == UNION {[1..j -> cs] : j \in 0..k}
\* patterns with their text
Written(patterns) ==
  {[items |-> is, text |-> FlattenSeq([i \in DOMAIN is |-> is[i].text])] : is \in patterns}

None == [t |-> "none"]
Call(f, s, pat, anchor, start, repl, max_s) ==
  [f |-> f, s |-> s, p |-> IF anchor THEN <<"^">> \o pat.text ELSE pat.text, items |-> pat.items,
   init |-> start, plain |-> FALSE, repl |-> repl, max_s |-> max_s, wild |-> FALSE]
Searches(ss, patterns) ==
  {IF f = "find" THEN Call(f, s, pat, TRUE, -2, None, 0) ELSE Call(f, s, pat, FALSE, 1, None, 9) :
     f \in {"find", "match", "gmatch"}, s \in ss, pat \in Written(patterns)}
Template == [t |-> "string", text |-> <<"%", "1", "b", "%", "%", "%", "0">>,
             items |-> <<<<"cap", 1>>, <<"char", "b">>, <<"char", "%">>, <<"cap", 0>>>>]
Map == [t |-> "table", map |-> [k \in {Text(<<"a">>), Text(<<>>), Number(1)} |->
          IF k = Text(<<>>) THEN <<"text", <<"1">>>> ELSE <<"text", <<>>>>]]
Func == [t |-> "function"]
Substitutions(ss, patterns, repls) ==
  {Call("gsub", s, pat, anchor, 1, repl, IF repl = Map THEN 2 ELSE Len(s) + 1) :
     s \in ss, pat \in Written(patterns), anchor \in BOOLEAN, repl \in repls}

\* plain searches, also of text that is no pattern
Texts == {[Call("find", s, [items |-> <<>>, text |-> p], FALSE, i, None, 0) EXCEPT !.plain = TRUE] :
            s \in Strings({"a", "("}, 4), p \in Strings({"a", "("}, 2), i \in {-3, 0, 1, 2, 6}}

\* all short texts as patterns
Wild(f, s, p, repl) ==
  [f |-> f, s |-> s, p |-> p, items |-> <<>>, init |-> 1, plain |-> FALSE, repl |-> repl, max_s |-> 3, wild |-> TRUE]
Specials == {"(", ")", "%", "[", "]", "^", "-", "*", "a", "1", "b", "f", "$", "?"}
Wilds ==
  {{Wild("match", <<"a", "a">>, p, None) : p \in Strings(Specials, 3)},
   {Wild("match", <<"a", "a">>, p, None) : p \in [1..4 -> {"(", ")", "%", "[", "]", "-", "1"}]},
   {Wild("gmatch", <<"a", "1">>, p, None) : p \in Strings({"(", ")", "a", "?"}, 4)},
   {Wild("gsub", <<"a">>, p, repl) : p \in Strings({"(", ")", "a", "?"}, 4),
      repl \in {[t |-> "string", text |-> <<"%", "2", "%">>], Map, Func}},
   {Wild("gsub", <<"a">>, <<"a">>, [t |-> "other"])}}

Given ==
  {Searches(Strings({"a", "b"}, 4), Plain \cup Captured \cup Edges),
   Searches(Strings({"a", "(", ")"}, 4), Pairs),
   Substitutions(Strings({"a", "1"}, 3), Plain1 \cup Captured \cup Edges, {Template, Map}),
   Substitutions(Strings({"a", "b"}, 3), Few \cup {Place \o Group(x) : x \in Few}, {Func}),
   {[c EXCEPT !.max_s = 0] : c \in Substitutions(Strings({"a", "1"}, 2), Few, {Template, Func})},
   Texts} \cup Wilds
Replies == {<<"text", <<"1", "1">>>>, <<"no">>, <<"other">>, <<"error">>}
==============================================================================
