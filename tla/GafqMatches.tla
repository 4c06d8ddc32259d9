----------------------------- MODULE GafqMatches ------------------------------
(***************************************************************************)
(* What a pattern means, without backtracking: the reference the matcher   *)
(* of gstrlib.c is checked against.  A pattern is a sequence of items      *)
(* [kind, set, k]; a way to match it is the sequence of the positions      *)
(* before its items and after the last; of all the ways the best is the    *)
(* one in which the first item that differs took most, or least when it    *)
(* is a "minus".                                                           *)
(***************************************************************************)
EXTENDS Integers, Sequences, FiniteSets, SequencesExt

Between(x, i, j) == SubSeq(x, i + 1, j)
AllIn(x, i, j, set) == ToSet(Between(x, i, j)) \subseteq set

\* the character before position p and the one at p; "" outside the string
Before(x, p) == IF p = 0 THEN "" ELSE x[p]
After(x, p) == IF p = Len(x) THEN "" ELSE x[p + 1]

\* the captures of a pattern are opened by these items, in order
Openers(items) == SelectSeq([i \in DOMAIN items |-> i], LAMBDA i : items[i].kind \in {"open", "pos"})
\* the item that closes the capture opened by item i
Balance(items, i, j) ==
  Cardinality({k \in i..j : items[k].kind = "open"}) - Cardinality({k \in i..j : items[k].kind = "close"})
Closer(items, i) == CHOOSE j \in i..Len(items) : Balance(items, i, j) = 0 /\ \A k \in i..j-1 : Balance(items, i, k) > 0
CapturedBy(x, items, w, i) == Between(x, w[i], w[Closer(items, i)])

\* a string from p to q in which "(" and ")" balance for the first time
Depth(x, i, j) ==
  Cardinality({k \in i+1..j : x[k] = "("}) - Cardinality({k \in i+1..j : x[k] = ")"})
Balanced(x, p, q) ==
  /\ q > p /\ x[p + 1] = "(" /\ Depth(x, p, q) = 0
  /\ \A k \in p+1..q-1 : Depth(x, p, k) > 0

\* item i, after the way w so far, may take x up to q
Fits(x, items, w, i, q) ==
  LET p == w[i]
      item == items[i]
  IN CASE item.kind = "one" -> q = p + 1 /\ AllIn(x, p, q, item.set)
       [] item.kind = "opt" -> q <= p + 1 /\ AllIn(x, p, q, item.set)
       [] item.kind \in {"star", "minus"} -> AllIn(x, p, q, item.set)
       [] item.kind = "plus" -> q > p /\ AllIn(x, p, q, item.set)
       [] item.kind \in {"open", "close", "pos"} -> q = p
       [] item.kind = "back" -> Between(x, p, q) = CapturedBy(x, items, w, Openers(items)[item.k])
       [] item.kind = "balance" -> Balanced(x, p, q)
       [] item.kind = "frontier" -> q = p /\ Before(x, p) \notin item.set /\ After(x, p) \in item.set
       [] item.kind = "end" -> q = p /\ p = Len(x)

Ways(x, items, start) ==
  LET upto[i \in 0..Len(items)] ==
        IF i = 0 THEN {<<start>>}
        ELSE UNION {{Append(w, q) : q \in {r \in w[i]..Len(x) : Fits(x, items, w, i, r)}} : w \in upto[i - 1]}
  IN upto[Len(items)]
Preferred(items, w, v) ==
  \E i \in DOMAIN items :
    /\ \A j \in 1..i : w[j] = v[j]
    /\ IF items[i].kind = "minus" THEN w[i + 1] < v[i + 1] ELSE w[i + 1] > v[i + 1]
Best(x, items, start) ==
  LET ways == Ways(x, items, start) IN
  CHOOSE w \in ways : \A v \in ways \ {w} : Preferred(items, w, v)

\* what is captured: pieces of x, and positions as <<"position", p>>
Captures(x, items, w) ==
  [k \in DOMAIN Openers(items) |->
     LET i == Openers(items)[k] IN
     IF items[i].kind = "pos" THEN <<"position", w[i] + 1>> ELSE <<"text", CapturedBy(x, items, w, i)>>]

\* the positions where a pattern matches; an anchored one only at the first
Matching(x, items, from, anchored) ==
  {p \in from..Len(x) : (anchored => p = from) /\ Ways(x, items, p) # {}}
\* the matches that are found one after the other, as ways: a match that begins
\* inside an earlier one is none of them
Occurrences(x, items, anchored) ==
  LET all == {Best(x, items, p) : p \in Matching(x, items, 0, anchored)} IN
  SetToSortSeq(CHOOSE S \in SUBSET all :
                 \A w \in all : w \in S <=> ~\E v \in S : v[1] < w[1] /\ w[1] < Last(v),
               LAMBDA v, w : v[1] < w[1])

\* x with the piece of the k-th of some matches replaced by news[k]
Rewritten(x, ways, news) ==
  LET upto[k \in 0..Len(ways)] ==
        IF k = 0 THEN <<>>
        ELSE upto[k - 1] \o Between(x, IF k = 1 THEN 0 ELSE Last(ways[k - 1]), ways[k][1]) \o news[k]
  IN upto[Len(ways)] \o Between(x, IF ways = <<>> THEN 0 ELSE Last(Last(ways)), Len(x))
==============================================================================
