------------------------------ MODULE GafqStrLib ------------------------------
(***************************************************************************)
(* The functions of the string library that search (gstrlib.c): find,      *)
(* match, gmatch and gsub.  find and match are one step; the iterator that *)
(* gmatch makes is called step by step; so is the loop of gsub, which may  *)
(* call a function of the program each time round.                         *)
(*                                                                         *)
(* A call is [f, s, p, init, plain, repl, max_s].  repl is [t, ...]: a     *)
(* string (or number) with its text, a function, whose answers are any, a  *)
(* table with its map, or something else.  What is captured or answered is *)
(* [text, number]: a number is the text of its numeral.                    *)
(***************************************************************************)
EXTENDS GafqPattern

CONSTANTS
  Calls,          \* the calls that are made, as sets of calls of a kind
  Answers         \* what functions answer: <<"text", t>>, <<"no">>, <<"other">> or <<"error">>

VARIABLES
  call,           \* the call
  ms,             \* the match state, kept from one attempt to the next
  src,            \* where the next match is tried
  b,              \* the results so far: for gmatch the captures of each match, for
                  \*   gsub the characters of the buffer
  n,              \* how many substitutions gsub made
  answers,        \* what the function that gsub calls has answered
  status          \* called, run, done, or the error raised

vars == <<call, ms, src, b, n, answers, status>>

Text(t) == [text |-> t, number |-> FALSE]
Number(k) == [text |-> <<<<"0", "1", "2", "3", "4", "5", "6", "7">>[k + 1]>>, number |-> TRUE]
Piece(x, i, j) == SubSeq(x, i + 1, j)

posrelat(pos, len) ==
  LET p == IF pos < 0 THEN pos + len + 1 ELSE pos IN IF p >= 0 THEN p ELSE 0

\* the position of s2 in s1 from position i on, or NULL; memchr finds its first character
RECURSIVE gmemfind(_, _, _)
gmemfind(s1, i, s2) ==
  LET last == Len(s1) - Len(s2)
      firsts == {j \in i..last : at(s1, j) = s2[1]}
  IN IF s2 = <<>> THEN i
     ELSE IF firsts = {} THEN NULL
     ELSE IF Piece(s1, Min(firsts) + 1, Min(firsts) + Len(s2)) = Tail(s2) THEN Min(firsts)
     ELSE gmemfind(s1, Min(firsts) + 1, s2)

-----------------------------------------------------------------------------
(* Captures.  A list of captures is [v, error].                            *)

captured(m, c) == IF c.len = CAP_POSITION THEN Number(c.init + 1) ELSE Text(Piece(m.src, c.init, c.init + c.len))
push_onecapture(m, i, s, e) ==
  CASE i >= m.level /\ i = 0 -> [v |-> <<Text(Piece(m.src, s, e))>>, error |-> "none"]
    [] i >= m.level /\ i # 0 -> [v |-> <<>>, error |-> "invalid capture index"]
    [] i < m.level /\ m.capture[i].len = CAP_UNFINISHED -> [v |-> <<>>, error |-> "unfinished capture"]
    [] OTHER -> [v |-> <<captured(m, m.capture[i])>>, error |-> "none"]

\* of two lists the second counts only if the first had no error
joined(r, x) == IF r.error # "none" THEN r ELSE [v |-> r.v \o x.v, error |-> x.error]
\* s is NULL when the whole match is not wanted
push_captures(m, s, e) ==
  LET nlevels == IF m.level = 0 /\ s # NULL THEN 1 ELSE m.level IN
  FoldLeft(LAMBDA r, i : joined(r, push_onecapture(m, i - 1, s, e)),
           [v |-> <<>>, error |-> "none"], [i \in 1..nlevels |-> i])

-----------------------------------------------------------------------------
(* find and match.                                                         *)

anchored(pat) == at(pat, 0) = "^"
unanchored(pat) == IF anchored(pat) THEN Tail(pat) ELSE pat

\* an attempt at s; the level is reset, the captures are not
attempt_NoReset(m, s, pat) == match(m, s, pat, 0)
attempt(m, s, pat) == match([m EXCEPT !.level = 0], s, pat, 0)

\* the first position from s1 on with a match, as [r, s]; r.s is NULL when there is none
RECURSIVE search(_, _, _, _)
found(r, s1, pat, anchor) ==
  IF Fails(r) /\ s1 < Len(r.m.src) /\ ~anchor THEN search(r.m, s1 + 1, pat, anchor) ELSE [r |-> r, s |-> s1]
search(m, s1, pat, anchor) == found(attempt(m, s1, pat), s1, pat, anchor)

init0(c) ==
  LET i == posrelat(c.init, Len(c.s)) - 1 IN
  IF i < 0 THEN 0 ELSE IF i > Len(c.s) THEN Len(c.s) ELSE i

ended(e) == IF e = "none" THEN "done" ELSE e
\* find gives the place of what x says was found before its captures
answer(x, isfind) ==
  LET cs == push_captures(x.r.m, IF isfind THEN NULL ELSE x.s, x.r.s) IN
  /\ ms' = x.r.m
  /\ IF x.r.m.error # "none" THEN b' = <<>> /\ status' = x.r.m.error
     ELSE IF x.r.s = NULL THEN b' = <<>> /\ status' = "done"
     ELSE /\ b' = (IF isfind THEN <<Number(x.s + 1), Number(x.r.s)>> ELSE <<>>) \o cs.v
          /\ status' = ended(cs.error)
plainfind(i) ==
  LET s2 == gmemfind(call.s, i, call.p) IN
  /\ b' = IF s2 = NULL THEN <<>> ELSE <<Number(s2 + 1), Number(s2 + Len(call.p))>>
  /\ status' = "done" /\ UNCHANGED ms
str_find_aux ==
  /\ status = "called" /\ call.f \in {"find", "match"}
  /\ IF call.f = "find" /\ (call.plain \/ ToSet(call.p) \cap SPECIALS = {}) THEN plainfind(init0(call))
     ELSE answer(search(ms, init0(call), unanchored(call.p), anchored(call.p)), call.f = "find")
  /\ UNCHANGED <<call, src, n, answers>>

-----------------------------------------------------------------------------
(* gmatch and its iterator, which the loop calls until it gives nothing.   *)

gmatch ==
  /\ status = "called" /\ call.f = "gmatch"
  /\ status' = "run" /\ src' = 0
  /\ UNCHANGED <<call, ms, b, n, answers>>

yield_Stuck(x) ==
  LET cs == push_captures(x.r.m, x.s, x.r.s) IN
  /\ ms' = x.r.m
  /\ IF x.r.m.error # "none" THEN status' = x.r.m.error /\ UNCHANGED <<src, b>>
     ELSE IF x.r.s = NULL THEN status' = "done" /\ UNCHANGED <<src, b>>
     ELSE /\ src' = x.r.s
          /\ b' = Append(b, cs.v)
          /\ status' = IF cs.error = "none" THEN "run" ELSE cs.error
yield(x) ==
  LET cs == push_captures(x.r.m, x.s, x.r.s) IN
  /\ ms' = x.r.m
  /\ IF x.r.m.error # "none" THEN status' = x.r.m.error /\ UNCHANGED <<src, b>>
     ELSE IF x.r.s = NULL THEN status' = "done" /\ UNCHANGED <<src, b>>
     ELSE /\ src' = IF x.r.s = x.s THEN x.r.s + 1 ELSE x.r.s
          /\ b' = Append(b, cs.v)
          /\ status' = IF cs.error = "none" THEN "run" ELSE cs.error
gmatch_aux ==
  /\ status = "run" /\ call.f = "gmatch"
  /\ IF src > Len(call.s) THEN status' = "done" /\ UNCHANGED <<ms, src, b>>
     ELSE yield(search(ms, src, call.p, FALSE))
  /\ UNCHANGED <<call, n, answers>>

-----------------------------------------------------------------------------
(* gsub.                                                                   *)

\* the replacement text from position i on
RECURSIVE add_s(_, _, _, _, _)
add_s(m, news, i, s, e) ==
  LET c == at(news, i + 1)
      one(x) == joined([v |-> x, error |-> "none"], add_s(m, news, i + 1, s, e))
      two(x) == joined(x, add_s(m, news, i + 2, s, e))
  IN IF i >= Len(news) THEN [v |-> <<>>, error |-> "none"]
     ELSE IF at(news, i) # L_ESC THEN one(<<at(news, i)>>)
     ELSE IF c \notin Digits THEN two([v |-> <<c>>, error |-> "none"])
     ELSE IF c = "0" THEN two([v |-> Piece(m.src, s, e), error |-> "none"])
     ELSE LET x == push_onecapture(m, digit(c) - 1, s, e) IN
          two([v |-> IF x.error = "none" THEN x.v[1].text ELSE <<>>, error |-> x.error])

\* what replaces the match from s to e, the function or table having given a
replaced(m, s, e, a) ==
  CASE a[1] = "text" -> [v |-> a[2], error |-> "none"]
    [] a[1] = "no" -> [v |-> Piece(m.src, s, e), error |-> "none"]
    [] a[1] = "other" -> [v |-> <<>>, error |-> "invalid replacement value"]
    [] a[1] = "error" -> [v |-> <<>>, error |-> "error in function"]
looked(x) == IF x.error # "none" THEN <<"no">> ELSE IF x.v[1] \in DOMAIN call.repl.map THEN call.repl.map[x.v[1]] ELSE <<"no">>

\* v is what the match at src is replaced by; the loop goes on, or ends with the rest
goon(r, v, k) ==
  LET empty == r.s = NULL \/ r.s = src
      pos == IF ~empty THEN r.s ELSE IF src < Len(call.s) THEN src + 1 ELSE src
      out == b \o v \o (IF empty THEN Piece(call.s, src, pos) ELSE <<>>)
      over == (empty /\ src = Len(call.s)) \/ anchored(call.p) \/ k >= call.max_s
  IN /\ src' = pos /\ n' = k
     /\ b' = IF over THEN out \o Piece(call.s, pos, Len(call.s)) ELSE out
     /\ status' = IF over THEN "done" ELSE "run"
raise(e) == status' = e /\ UNCHANGED <<src, n, b>>
add_value(r, x) == IF x.error = "none" THEN goon(r, x.v, n + 1) ELSE raise(x.error)
substitute(r) ==
  LET t == call.repl.t
      args == IF t = "function" THEN push_captures(r.m, src, r.s) ELSE push_onecapture(r.m, 0, src, r.s)
  IN CASE t = "string" -> add_value(r, add_s(r.m, call.repl.text, 0, src, r.s)) /\ UNCHANGED answers
       [] t # "string" /\ args.error # "none" -> raise(args.error) /\ UNCHANGED answers
       [] t = "table" /\ args.error = "none" ->
            add_value(r, replaced(r.m, src, r.s, looked(args))) /\ UNCHANGED answers
       [] t = "function" /\ args.error = "none" ->
            \E a \in Answers : /\ add_value(r, replaced(r.m, src, r.s, a))
                               /\ answers' = Append(answers, [args |-> args.v, a |-> a])

str_gsub ==
  /\ status = "called" /\ call.f = "gsub"
  /\ IF call.repl.t = "other" THEN status' = "string/function/table expected" /\ UNCHANGED b
     ELSE IF call.max_s <= 0 THEN status' = "done" /\ b' = call.s
     ELSE status' = "run" /\ UNCHANGED b
  /\ UNCHANGED <<call, ms, src, n, answers>>
gsubstep ==
  /\ status = "run" /\ call.f = "gsub"
  /\ \E r \in {attempt(ms, src, unanchored(call.p))} :
       /\ ms' = r.m
       /\ CASE r.m.error # "none" -> raise(r.m.error) /\ UNCHANGED answers
            [] Fails(r) -> goon(r, <<>>, n) /\ UNCHANGED answers
            [] OTHER -> substitute(r)
  /\ UNCHANGED call

-----------------------------------------------------------------------------
Init ==
  /\ \E kind \in Calls : call \in kind
  /\ ms = MatchState(call.s)
  /\ src = 0 /\ b = <<>> /\ n = 0 /\ answers = <<>> /\ status = "called"
Returned == status \notin {"called", "run"}
Next == str_find_aux \/ gmatch \/ gmatch_aux \/ str_gsub \/ gsubstep
        \/ (Returned /\ UNCHANGED vars)
Spec == Init /\ [][Next]_vars

-----------------------------------------------------------------------------
(* Correctness.  A call also has the items of its pattern and of its       *)
(* replacement text; wild ones have not, and may be malformed.             *)

R == INSTANCE GafqMatches

Value(c) == IF c[1] = "position" THEN Number(c[2]) ELSE Text(c[2])
Values(cs) == [k \in DOMAIN cs |-> Value(cs[k])]
\* in gmatch a `^' is an ordinary character
Anchor == call.f # "gmatch" /\ anchored(call.p)
CapturesAt(w) == Values(R!Captures(call.s, call.items, w))
CapturesOrAll(w) ==
  IF CapturesAt(w) = <<>> THEN <<Text(Piece(call.s, w[1], Last(w)))>> ELSE CapturesAt(w)

\* the text that replaces the match w, the k-th
NewText(w, k) ==
  LET t == call.repl.t
      first == CapturesOrAll(w)[1]
      a == IF t = "function" THEN answers[k].a
           ELSE IF first \in DOMAIN call.repl.map THEN call.repl.map[first] ELSE <<"no">>
      whole == Piece(call.s, w[1], Last(w))
      part(x) == IF x[1] = "char" THEN <<x[2]>> ELSE IF x[2] = 0 THEN whole ELSE CapturesOrAll(w)[x[2]].text
  IN IF t = "string" THEN FlattenSeq([j \in DOMAIN call.repl.items |-> part(call.repl.items[j])])
     ELSE IF a[1] = "text" THEN a[2] ELSE whole

\* string.find and string.match (str_find_aux) give the first match from init
\* on, and of the matches there the one that the items prefer, left to right:
\* longest for `*', `+' and `?', shortest for `-'.  The captures are those of
\* that match, whatever attempts were made and undone before.  A plain search
\* gives the first place where the text is.
FirstMatch ==
  LET starts == R!Matching(call.s, call.items, init0(call), Anchor)
      places == {p \in init0(call)..Len(call.s) - Len(call.p) : Piece(call.s, p, p + Len(call.p)) = call.p}
      w == R!Best(call.s, call.items, Min(starts))
      place(p, q) == <<Number(p + 1), Number(q)>>
  IN (~call.wild /\ call.f \in {"find", "match"} /\ Returned) =>
       /\ status = "done"
       /\ b = CASE call.plain -> IF places = {} THEN <<>> ELSE place(Min(places), Min(places) + Len(call.p))
                [] ~call.plain /\ starts = {} -> <<>>
                [] ~call.plain /\ starts # {} /\ call.f = "match" -> CapturesOrAll(w)
                [] OTHER -> place(w[1], Last(w)) \o CapturesAt(w)

\* gmatch and gsub meet every match that does not begin inside an earlier one,
\* once and in order: gmatch gives the captures of each, and gsub replaces each
\* of the first max_s and leaves all other text as it was.  A function called
\* for the replacements has the captures as its arguments; if it fails, or gives
\* what is no text, so does gsub.
AllMatches ==
  LET all == R!Occurrences(call.s, call.items, Anchor)
      ways == IF Len(all) > call.max_s THEN SubSeq(all, 1, call.max_s) ELSE all
  IN (~call.wild /\ call.f \in {"gmatch", "gsub"} /\ Returned) =>
       /\ call.f = "gmatch" => status = "done" /\ b = [k \in DOMAIN all |-> CapturesOrAll(all[k])]
       /\ call.f = "gsub" /\ status = "done" =>
            /\ n = Len(ways)
            /\ call.repl.t = "function" => Len(answers) = n
            /\ b = R!Rewritten(call.s, ways, [k \in DOMAIN ways |-> NewText(ways[k], k)])
       /\ \A k \in DOMAIN answers : answers[k].args = CapturesOrAll(ways[k])
       /\ (status # "done") <=> \E k \in DOMAIN answers : answers[k].a[1] \in {"other", "error"}

\* Every call of the iterator of gmatch, and every round of the loop of gsub,
\* ends the search or goes forward in the subject, also when the match is
\* empty: with InsideSubject, which bounds the position, no loop is endless.
GoesForward == [][status = "run" => Returned' \/ src' > src]_vars

\* No attempt, of whatever pattern, leaves the subject or the pattern: the
\* positions reached stay between their ends, as do the captures that are
\* complete, and they are as many as the array has room for.
InsideSubject ==
  /\ status # "out of bounds"
  /\ src <= Len(call.s) + 1
  /\ ms.level <= MAXCAPTURES
  /\ \A l \in 0..ms.level-1 :
       LET c == ms.capture[l] IN
       /\ c.init \in 0..Len(call.s)
       /\ c.len \in {CAP_UNFINISHED, CAP_POSITION} \/ c.len \in 0..Len(call.s) - c.init
==============================================================================
