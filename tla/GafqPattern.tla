----------------------------- MODULE GafqPattern ------------------------------
(***************************************************************************)
(* The pattern matcher of the string library (gstrlib.c): match, which     *)
(* backtracks over one record of captures, and the functions that use it.  *)
(* A string is a sequence of characters; positions count from 0, as the    *)
(* pointers of the code do from the start of their string.  A string ends  *)
(* in a NUL that can be read; to read beyond it has no meaning here, and   *)
(* is an error of TLC.                                                     *)
(***************************************************************************)
EXTENDS Integers, Sequences, SequencesExt

CONSTANT MAXCAPTURES        \* GAFQ_MAXCAPTURES
ASSUME MaxCapturesAssumption == MAXCAPTURES \in Nat \ {0}

NUL == ""                   \* the character that ends a C string
L_ESC == "%"
SPECIALS == {"^", "$", "*", "+", "?", ".", "(", "[", "%", "-"}
at(x, k) == IF k = Len(x) THEN NUL ELSE x[k + 1]

\* ctype.h for the characters that occur, in the order of their codes
Chars == <<NUL, "$", "%", "(", ")", "*", "+", "-", ".", "0", "1", "2", "?", "A", "[", "]", "^", "a", "b", "d", "f">>
uchar(c) == CHOOSE k \in 1..Len(Chars) : Chars[k] = c
digits == <<"0", "1", "2">>
Digits == ToSet(digits)
digit(c) == SelectInSeq(digits, LAMBDA x : x = c) - 1
Letters == {"A", "a", "b", "d", "f"}
tolower(c) == IF c = "A" THEN "a" ELSE c
islower(c) == c \in Letters \ {"A"}
ctype == [k \in {"a", "d"} |-> IF k = "a" THEN Letters ELSE Digits]

\* A match in progress: the captures so far, and whether an error was raised.
\* What match returns is such a record m with a position s, or NULL.
NULL == -1
CAP_UNFINISHED == -1
CAP_POSITION == -2
MatchState(src) ==
  [src |-> src, level |-> 0, error |-> "none",
   capture |-> [l \in 0..MAXCAPTURES-1 |-> [init |-> 0, len |-> 0]]]
Found(m, s) == [m |-> m, s |-> s]
Raised(m, e) == [m |-> [m EXCEPT !.error = e], s |-> NULL]
Fails(r) == r.s = NULL /\ r.m.error = "none"

-----------------------------------------------------------------------------
(* Single characters.                                                      *)

\* the end of the class at p, or NULL when the pattern is malformed
RECURSIVE setend(_, _)
afteritem(pat, q) == IF at(pat, q) = "]" THEN q + 1 ELSE setend(pat, q)
setend(pat, q) ==
  IF at(pat, q) = NUL THEN NULL
  ELSE afteritem(pat, IF at(pat, q) = L_ESC /\ at(pat, q + 1) # NUL THEN q + 2 ELSE q + 1)
classend(pat, p) ==
  CASE at(pat, p) = L_ESC -> IF at(pat, p + 1) = NUL THEN NULL ELSE p + 2
    [] at(pat, p) = "[" -> setend(pat, IF at(pat, p + 1) = "^" THEN p + 2 ELSE p + 1)
    [] OTHER -> p + 1

match_class(c, cl) ==
  IF tolower(cl) \in DOMAIN ctype THEN (c \in ctype[tolower(cl)]) = islower(cl) ELSE cl = c

RECURSIVE inset(_, _, _, _)
inset(c, pat, p, ec) ==
  /\ p < ec
  /\ IF at(pat, p) = L_ESC THEN match_class(c, at(pat, p + 1)) \/ inset(c, pat, p + 2, ec)
     ELSE IF at(pat, p + 1) = "-" /\ p + 2 < ec
     THEN uchar(c) \in uchar(at(pat, p))..uchar(at(pat, p + 2)) \/ inset(c, pat, p + 3, ec)
     ELSE at(pat, p) = c \/ inset(c, pat, p + 1, ec)
matchbracketclass(c, pat, p, ec) ==
  IF at(pat, p + 1) = "^" THEN ~inset(c, pat, p + 2, ec) ELSE inset(c, pat, p + 1, ec)

singlematch(c, pat, p, ep) ==
  CASE at(pat, p) = "." -> TRUE
    [] at(pat, p) = L_ESC -> match_class(c, at(pat, p + 1))
    [] at(pat, p) = "[" -> matchbracketclass(c, pat, p, ep - 1)
    [] OTHER -> at(pat, p) = c
\* the character at s exists and is of the class at p
matchesat(m, s, pat, p, ep) == s < Len(m.src) /\ singlematch(at(m.src, s), pat, p, ep)

-----------------------------------------------------------------------------
(* Captures, and items that match more than one character.                 *)

\* the capture that %l refers to, and the one that ")" closes, or NULL
check_capture(m, l) ==
  LET k == digit(l) - 1 IN
  IF k < 0 \/ k >= m.level \/ m.capture[k].len = CAP_UNFINISHED THEN NULL ELSE k
capture_to_close(m) ==
  LET open == {l \in 0..m.level-1 : m.capture[l].len = CAP_UNFINISHED} IN
  IF open = {} THEN NULL ELSE Max(open)

\* the position after the capture repeated at s; as a size_t, the length of a
\* position capture is larger than any string
repeated(m, s, c) ==
  IF /\ c.len # CAP_POSITION /\ Len(m.src) - s >= c.len
     /\ \A k \in 0..c.len-1 : at(m.src, c.init + k) = at(m.src, s + k)
  THEN s + c.len ELSE NULL

RECURSIVE balance(_, _, _, _, _)
balance(src, s, b, e, cont) ==
  IF s >= Len(src) THEN NULL
  ELSE IF at(src, s) = e THEN IF cont = 1 THEN s + 1 ELSE balance(src, s + 1, b, e, cont - 1)
  ELSE balance(src, s + 1, b, e, IF at(src, s) = b THEN cont + 1 ELSE cont)
matchbalance(src, s, b, e) == IF at(src, s) # b THEN NULL ELSE balance(src, s + 1, b, e, 1)

RECURSIVE expansion(_, _, _, _, _)
expansion(m, s, pat, p, ep) ==
  IF matchesat(m, s, pat, p, ep) THEN 1 + expansion(m, s + 1, pat, p, ep) ELSE 0

-----------------------------------------------------------------------------
(* match(ms, s, p): a call that fails leaves the captures as they were.    *)

RECURSIVE match(_, _, _, _)

undolevel(r) == IF Fails(r) THEN [r EXCEPT !.m.level = @ - 1] ELSE r
start_capture(m, s, pat, p, what) ==
  IF m.level >= MAXCAPTURES THEN Raised(m, "too many captures")
  ELSE undolevel(match([m EXCEPT !.capture[m.level] = [init |-> s, len |-> what],
                                 !.level = @ + 1], s, pat, p))

undoclose_Not(r, l) == r
undoclose(r, l) == IF Fails(r) THEN [r EXCEPT !.m.capture[l].len = CAP_UNFINISHED] ELSE r
closecapture(m, s, pat, p, l) ==
  IF l = NULL THEN Raised(m, "invalid pattern capture")
  ELSE undoclose(match([m EXCEPT !.capture[l].len = s - m.capture[l].init], s, pat, p), l)
end_capture(m, s, pat, p) == closecapture(m, s, pat, p, capture_to_close(m))

\* the rest of the pattern, if the item before it matched up to s
continue(m, s, pat, p) == IF s = NULL THEN Found(m, NULL) ELSE match(m, s, pat, p)

match_capture(m, s, pat, p, l) ==
  IF l = NULL THEN Raised(m, "invalid capture index")
  ELSE continue(m, repeated(m, s, m.capture[l]), pat, p)

frontier(m, s, pat, p, ep) ==
  IF at(pat, p) # "[" THEN Raised(m, "missing [")
  ELSE IF ep = NULL THEN Raised(m, "malformed pattern")
  ELSE IF \/ matchbracketclass(IF s = 0 THEN NUL ELSE at(m.src, s - 1), pat, p, ep - 1)
          \/ ~matchbracketclass(at(m.src, s), pat, p, ep - 1)
  THEN Found(m, NULL) ELSE match(m, s, pat, ep)

\* i repetitions and then fewer
RECURSIVE max_expand(_, _, _, _, _)
fewer(r, s, pat, ep, i) ==
  IF Fails(r) /\ i > 0 THEN max_expand(r.m, s, pat, ep, i - 1) ELSE r
max_expand(m, s, pat, ep, i) == fewer(match(m, s + i, pat, ep + 1), s, pat, ep, i)

RECURSIVE min_expand(_, _, _, _, _)
onemore_NoEnd(r, s, pat, p, ep) ==
  IF Fails(r) /\ singlematch(at(r.m.src, s), pat, p, ep) THEN min_expand(r.m, s + 1, pat, p, ep) ELSE r
onemore(r, s, pat, p, ep) ==
  IF Fails(r) /\ matchesat(r.m, s, pat, p, ep) THEN min_expand(r.m, s + 1, pat, p, ep) ELSE r
min_expand(m, s, pat, p, ep) == onemore(match(m, s, pat, ep + 1), s, pat, p, ep)

without(r, s, pat, ep) == IF Fails(r) THEN match(r.m, s, pat, ep + 1) ELSE r

\* a single character class and what follows it
item(m, s, pat, p, ep) ==
  CASE ep = NULL -> Raised(m, "malformed pattern")
    [] at(pat, ep) = "?" ->
         without(continue(m, IF matchesat(m, s, pat, p, ep) THEN s + 1 ELSE NULL, pat, ep + 1),
                 s, pat, ep)
    [] at(pat, ep) = "*" -> max_expand(m, s, pat, ep, expansion(m, s, pat, p, ep))
    [] at(pat, ep) = "+" ->
         IF matchesat(m, s, pat, p, ep)
         THEN max_expand(m, s + 1, pat, ep, expansion(m, s + 1, pat, p, ep)) ELSE Found(m, NULL)
    [] at(pat, ep) = "-" -> min_expand(m, s, pat, p, ep)
    [] OTHER -> continue(m, IF matchesat(m, s, pat, p, ep) THEN s + 1 ELSE NULL, pat, ep)

match(m, s, pat, p) ==
  CASE s > Len(m.src) \/ p > Len(pat) -> Raised(m, "out of bounds")
    [] at(pat, p) = "(" /\ at(pat, p + 1) = ")" -> start_capture(m, s, pat, p + 2, CAP_POSITION)
    [] at(pat, p) = "(" /\ at(pat, p + 1) # ")" -> start_capture(m, s, pat, p + 1, CAP_UNFINISHED)
    [] at(pat, p) = ")" -> end_capture(m, s, pat, p + 1)
    [] at(pat, p) = L_ESC /\ at(pat, p + 1) = "b" ->
         IF at(pat, p + 2) = NUL \/ at(pat, p + 3) = NUL THEN Raised(m, "unbalanced pattern")
         ELSE continue(m, matchbalance(m.src, s, at(pat, p + 2), at(pat, p + 3)), pat, p + 4)
    [] at(pat, p) = L_ESC /\ at(pat, p + 1) = "f" -> frontier(m, s, pat, p + 2, classend(pat, p + 2))
    [] at(pat, p) = L_ESC /\ at(pat, p + 1) \in Digits ->
         match_capture(m, s, pat, p + 2, check_capture(m, at(pat, p + 1)))
    [] at(pat, p) = NUL -> Found(m, s)
    [] at(pat, p) = "$" /\ at(pat, p + 1) = NUL -> Found(m, IF s = Len(m.src) THEN s ELSE NULL)
    [] OTHER -> item(m, s, pat, p, classend(pat, p))
==============================================================================
