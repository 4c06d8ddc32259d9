---------------------------- MODULE MCGafqCompile -----------------------------
(***************************************************************************)
(* The programs that are compiled and run: families of all the programs of *)
(* a shape.                                                                *)
(***************************************************************************)
EXTENDS GafqCompile

Name(x) == <<"name", x>>
Num(n) == <<"num", n>>
CallOf(n, args) == <<"primary", Name(n), <<<<"(", args>>>>>>
E1(x) == <<x>>
fcall == CallOf("f", <<>>)

\* sequences of tokens with n operands
Operand(unops, xs) == {<<x>> : x \in xs} \cup {<<<<u>>, x>> : u \in unops, x \in xs}
Binary2(unops, binops, xs, ys) ==
  {x \o <<<<o>>>> \o y : o \in binops, x \in Operand(unops, xs), y \in ys}
Two(unops, binops, xs) == Binary2(unops, binops, xs, Operand(unops, xs))
Three(unops, binops, xs) == Binary2(unops, binops, xs, Two(unops, binops, xs))

\* the places of an expression; a is a local number, b a local nil
Places(e) ==
  {<<<<"return", <<e>>>>>>,
   <<<<"if", <<<<e, <<<<"call", fcall>>>>>>>>, <<<<<<"call", CallOf("none", <<>>)>>>>>>>>>>,
   <<<<"assign", <<Name("a")>>, <<e>>>>, <<"return", <<E1(Name("b")), E1(Name("a"))>>>>>>}
MorePlaces(e) ==
  {<<<<"local", <<"x">>, <<e>>>>, <<"return", <<E1(Name("x")), E1(Name("b"))>>>>>>,
   <<<<"assign", <<Name("g")>>, <<e>>>>>>,
   <<<<"while", e, <<<<"call", fcall>>, <<"break">>>>>>>>,
   <<<<"repeat", <<<<"call", CallOf("c", <<>>)>>>>, <<<<"paren", e>>, <<"or">>, <<"true">>>>>>>>,
   <<<<"call", CallOf("f", <<e, e>>)>>>>,
   <<<<"if", <<<<e, <<>>>>, <<E1(Name("b")), <<>>>>, <<e \o <<<<"or">>, Num(1)>>, <<<<"call", fcall>>>>>>>>, <<>>>>>>,
   <<<<"local", <<"x">>, <<E1(<<"table", <<<<"item", e>>, <<"keyed", E1(<<"true">>), e>>, <<"item", e>>>>>>)>>>>,
     <<"assign", <<<<"primary", Name("x"), <<<<"[", e \o <<<<"or">>, Num(1)>>>>>>>>>>, <<e>>>>,
     <<"return", <<<<<<"#">>, Name("x")>>>>>>>>}
Prelude == <<<<"local", <<"a", "b">>, <<E1(Name("g"))>>>>>>

\* `and', `or', `not' and comparisons, in every place and, longer, in some
Booleans(xs) ==
  {Prelude \o p : p \in UNION {Places(e) \cup MorePlaces(e) :
                                 e \in Two({"not"}, {"and", "or", "=="}, xs)}}
  \cup {Prelude \o p : p \in UNION {Places(e) :
                                 e \in Three({"not"}, {"and", "or"}, xs \ {<<"nil">>, Num(1)})
                                       \cup Three({}, {"and", "or", "<"}, xs \ {<<"nil">>})}}

\* all pairs of binary operators, with unary ones
Operations(unops) ==
  {Prelude \o <<<<"return", <<u \o <<Name("a"), <<o>>>> \o v \o <<Num(2), <<q>>, fcall>>>>>>>> :
     o \in DOMAIN arith \cup {"..", "==", "~=", "<=", ">", "and"},
     q \in DOMAIN arith \cup {"..", "==", "<", ">=", "or"}, u \in unops, v \in unops}
  \cup {Prelude \o <<<<"return", <<<<<<"#">>, Name("a"), <<"..">>, <<"str", "s">>>>>>>>>>}

\* arithmetic on constants, which is folded unless it divides by zero or has no
\* number for a result
Paren(e) == E1(<<"paren", e>>)
Constants(unops, ns) ==
  {Prelude \o <<<<"return", <<Paren(u \o E1(Num(x))) \o <<<<o>>>> \o Paren(<<Num(y), <<q>>, Num(z)>>)>>>>>> :
     o \in DOMAIN arith, q \in DOMAIN arith, u \in unops, x \in ns, y \in ns, z \in ns}

\* loops around declarations, closures, breaks and loops
Do(x) == <<"call", x>>
Fn(params, stats) == <<"function", [params |-> params, dots |-> "no", block |-> stats]>>
Local(x, e) == <<"local", <<x>>, <<e>>>>
Set(x, e) == <<"assign", <<Name(x)>>, <<e>>>>
Guarded(c, stat) == <<"if", <<<<E1(CallOf(c, <<>>)), <<stat>>>>>>, <<>>>>
Loops(stats) ==
  {<<"while", E1(CallOf("c", <<>>)), stats>>,
   <<"repeat", stats, <<<<"not">>, CallOf("c", <<E1(Name("x"))>>)>>>>,
   <<"fornum", "x", <<E1(Num(1)), E1(Num(2))>>, stats>>,
   <<"fornum", "i", <<E1(Num(2)), E1(Num(1)), <<<<"-">>, Num(1)>>>>, stats>>,
   <<"forlist", <<"x", "y">>, <<E1(Name("iter"))>>, stats>>,
   <<"do", stats>>}
Counts == Local("x", <<Name("x"), <<"or">>, fcall>>)
Captures ==
  Set("g", E1(Fn(<<>>, <<Set("x", <<Name("x"), <<"or">>, Num(3)>>), Set("x", <<Name("x"), <<"+">>, Num(1)>>),
                            <<"return", <<E1(Name("x"))>>>>>>)))
Breaks == Guarded("c", <<"break">>)
Statements(pieces) ==
  LET blocks == {<<p>> : p \in pieces} \cup {<<p, q>> : p, q \in pieces} \cup {<<Counts, p, q>> : p, q \in pieces}
      loops == UNION {{l \in Loops(b) : l[1] = "do" => ~Contains(b, Breaks)} : b \in blocks}
      after == <<<<"local", <<"y", "z">>, <<>>>>,
                 <<"return", <<E1(CallOf("g", <<>>)), E1(CallOf("g", <<>>)), E1(Name("z"))>>>>>>
  IN {before \o <<Captures, l>> \o after : before \in {<<>>, <<Local("x", E1(Num(9)))>>}, l \in loops}
     \cup {<<Captures, Local("h", E1(Fn(<<"x">>, <<Captures, r>>))), Do(CallOf("h", <<E1(Num(9))>>))>> \o after :
             r \in {<<"return", <<>>>>, Do(CallOf("g", <<>>))}}

\* assignments to several variables, one of which may be a table or an index of
\* another: in the main function, and in one where they are upvalues
Index(x, k) == <<"primary", Name(x), <<<<"[", E1(k)>>>>>>
Lists(xs, n) == UNION {[1..m -> {E1(x) : x \in xs}] : m \in 1..n}
Assignments(vs) ==
  LET before == <<<<"local", <<"i", "t">>, <<E1(Num(1)), E1(<<"table", <<>>>>)>>>>>>
      after == <<<<"return", <<E1(Name("i")), E1(Name("t")), E1(Name("g"))>>>>>>
      assigns == {<<"assign", xs, es>> : xs \in [1..1 -> vs] \cup [1..2 -> vs],
                                         es \in Lists({CallOf("two", <<>>), Name("i"), Name("t")}, 3)}
                 \cup {<<"assign", xs, <<E1(Num(2)), E1(Num(3)), E1(Name("t"))>>>> : xs \in [1..3 -> vs]}
  IN {before \o <<a>> \o after : a \in assigns}
     \cup {before \o <<<<"localfunction", "h", [params |-> <<>>, dots |-> "no", block |-> <<a>>]>>, Do(CallOf("h", <<>>))>>
             \o after : a \in {b \in assigns : Len(b[2]) = 2 /\ Len(b[3]) = 2}}

\* functions of all shapes, called in all ways
Calls(args) ==
  LET bodies == {[params |-> ps, dots |-> "no", block |-> <<<<"return", es>>>>] :
                   ps \in {<<>>, <<"p">>, <<"p", "q">>},
                   es \in {<<>>, E1(E1(Name("p"))), E1(E1(CallOf("two", <<E1(Name("q"))>>))),
                           <<E1(Name("q")), E1(CallOf("two", <<>>))>>,
                           E1(E1(<<"paren", E1(CallOf("two", <<>>))>>))}}
                \cup {[params |-> ps, dots |-> "used", block |-> <<<<"return", es>>>>] :
                        ps \in {<<>>, <<"p">>},
                        es \in {E1(E1(<<"...">>)), <<E1(<<"...">>), E1(Name("arg"))>>,
                                E1(E1(<<"table", <<<<"item", E1(<<"...">>)>>>>>>)),
                                E1(E1(CallOf("f", <<E1(Name("p")), E1(<<"...">>)>>)))}}
                \cup {[params |-> ps, dots |-> "arg", block |-> <<<<"return", E1(E1(Name("arg")))>>>>] :
                        ps \in {<<>>, <<"p">>}}
      uses(x) == {<<Do(x)>>, <<<<"return", <<E1(x)>>>>>>, <<<<"return", <<E1(x), E1(x)>>>>>>,
                  <<<<"local", <<"u", "v", "w">>, <<E1(x)>>>>, <<"return", <<E1(Name("w")), E1(Name("u"))>>>>>>,
                  <<<<"return", <<E1(<<"table", <<<<"item", E1(x)>>, <<"item", E1(x)>>>>>>)>>>>>>}
  IN {<<<<"localfunction", "h", b>>>> \o u : b \in bodies, u \in UNION {uses(CallOf("h", as)) : as \in args}}
     \cup {<<Local("o", E1(<<"table", <<>>>>)), <<"function", <<"o", "m">>, method, b>>>> \o u :
             b \in bodies, method \in BOOLEAN,
             u \in UNION {uses(<<"primary", Name("o"), <<<<":", "m", as>>>>>>) :
                            as \in {x \in args : Len(x) # 1}}}

\* constructors with up to seven items, a flush being two
Constructors(items) ==
  LET five == [j \in 1..5 |-> <<"item", E1(Num(j))>>]
  IN {Prelude \o <<Local("t", E1(<<"table", is>>)), <<"return", <<<<<<"#">>, Name("t")>>>>>>>> :
        is \in UNION {[1..n -> items] : n \in 0..4} \cup {five \o x : x \in [1..2 -> items] \cup [1..3 -> items]}}

\* programs that fail, and other calls
Others(exprs, stats) ==
  {<<Local("a", E1(Num(1))), <<"return", <<e>>>>>> : e \in exprs}
  \cup {<<Local("t", E1(<<"table", <<>>>>)), st>> : st \in stats}

All ==
  Booleans({<<"nil">>, Num(1), Name("b"), fcall})
  \cup Operations({<<>>, <<<<"-">>>>, <<<<"not">>>>})
  \cup Constants({<<>>, <<<<"-">>>>}, {0, 1, 2})
  \cup Statements({Counts, Captures, Breaks, Guarded("c", <<"return", <<E1(Name("x"))>>>>),
                   <<"while", E1(CallOf("c", <<>>)), <<Counts, Breaks>>>>})
  \cup Assignments({Name("i"), Name("t"), Name("g"), Index("t", Name("i")),
                    <<"primary", Name("t"), <<<<".", "x">>>>>>})
  \cup Calls({<<>>, E1(E1(Num(1))), <<E1(Num(1)), E1(<<"nil">>), E1(Num(3))>>,
              E1(E1(CallOf("two", <<>>))), <<E1(Name("b")), E1(CallOf("two", <<>>))>>})
  \cup Constructors({<<"item", E1(Num(1))>>, <<"item", E1(CallOf("two", <<>>))>>, <<"named", "x", E1(fcall)>>,
                     <<"keyed", E1(fcall), <<Name("b"), <<"or">>, Num(2)>>>>})
  \cup Others(
    {E1(CallOf("a", <<>>)), E1(Index("a", Num(1))), E1(Index("g", Num(1))), <<<<"#">>, Name("a")>>,
     <<<<"-">>, Name("f")>>, <<Name("a"), <<"<">>, <<"nil">>>>, <<Name("a"), <<"..">>, Name("f")>>,
     <<<<"str", "x">>, <<"<">>, <<"str", "y">>>>, <<<<"str", "x">>, <<">=">>, Name("a")>>},
    {<<"fornum", "i", <<E1(Num(1)), E1(<<"true">>)>>, <<>>>>,
     <<"assign", <<Index("t", <<"nil">>)>>, <<E1(Num(1))>>>>,
     <<"assign", <<Index("f", Num(1))>>, <<E1(Num(1))>>>>,
     <<"forlist", <<"k">>, <<E1(Name("t"))>>, <<>>>>,
     <<"forlist", <<"k", "v">>,
       <<E1(Fn(<<"s", "c">>, <<<<"return", <<<<Name("c"), <<"or">>, Name("s")>>, E1(CallOf("c", <<>>))>>>>>>)),
         E1(Num(1)), E1(Num(2))>>, <<Breaks, <<"return", <<E1(Name("k"))>>>>>>>>,
     <<"function", <<"t", "x", "y">>, FALSE, [params |-> <<>>, dots |-> "no", block |-> <<>>]>>})

\* a constructor in a loop whose last block number has the form of a TESTSET
Counted == {<<<<"while", E1(CallOf("c", <<>>)),
              <<Local("t", E1(<<"table", [j \in 1..53 |-> <<"item", E1(Num(j))>>]>>))>>>>>>}
==============================================================================
