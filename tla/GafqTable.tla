------------------------------ MODULE GafqTable ------------------------------
(***************************************************************************)
(* The tables of gtable.c: an array part, and a hash part that is a chained*)
(* scatter table with Brent's variation, with free positions handed out    *)
(* downwards, rehashing when they run out, and keys that the collector     *)
(* marks dead when their entries are empty; the traversal `next', during   *)
(* which a program may assign to existing fields and the collector runs;   *)
(* and the length operator.                                                *)
(***************************************************************************)
EXTENDS Integers, Sequences, FiniteSets

CONSTANTS
  IntKey, ObjKey,   \* integer keys, and collectable keys (strings, objects)
  StrKey,           \* the strings among ObjKey: they hash by a power of two
  Hash,             \* Hash[k]: the hash value of a key
  Val, NIL,
  MAXBITS,          \* 2^MAXBITS is the largest size of either part
  MAX_INT,          \* largest int (unbound_search)
  NewSizes,         \* initial sizes of either part, from gafqH_new's arguments
  ListSizes,        \* bound: sizes a list constructor asks the array part to have
  Traversals        \* bound: whether there are traversals

Key == IntKey \cup ObjKey
ASSUME KeyAssumption ==
  /\ IntKey \subseteq 0 .. MAX_INT /\ StrKey \subseteq ObjKey
  /\ Hash \in [Key -> Nat] /\ NIL \notin Key \cup Val
  /\ NewSizes \subseteq 0 .. 2 ^ MAXBITS

VARIABLES
  t,         \* the Table
  trav,      \* "idle", or "on" during a traversal, or "error" after next raised one
  cur,       \* the key last returned by next in this traversal, NIL at its start
  visited,   \* history: keys returned by this traversal
  expected,  \* history: keys present ever since this traversal began
  content    \* history: the map that the operations so far make

vars == <<t, trav, cur, visited, expected, content>>

Map == INSTANCE GafqMap WITH map <- content

-----------------------------------------------------------------------------
(* A table t is [array, node, lastfree, dummy, error]: node is a function  *)
(* on 0 .. 2^lsizenode - 1 to nodes [key, dead, val, next], next = -1 at   *)
(* the end of a chain; with dummy, node is the common dummynode; error     *)
(* says that the operation has raised one.                                 *)

FreeNode == [key |-> NIL, dead |-> FALSE, val |-> NIL, next |-> -1]
sizearray(h) == Len(h.array)
sizenode(h) == Cardinality(DOMAIN h.node)

ceillog2(x) == CHOOSE l \in 0 .. MAXBITS + 1 : 2 ^ l >= x /\ \A m \in 0 .. l - 1 : 2 ^ m < x

\* hashnum and hashpointer take the modulus by an odd number, strings by the
\* size; zero always goes to the first node
mainposition(h, k) ==
  IF k = 0 THEN 0
  ELSE IF k \in StrKey THEN Hash[k] % sizenode(h)
  ELSE Hash[k] % (IF sizenode(h) = 1 THEN 1 ELSE sizenode(h) - 1)

\* the positions of the chain that starts at p
chain(h, p) ==
  LET c[n \in 0 .. sizenode(h)] ==
        {p} \cup (IF n = 0 THEN {} ELSE {h.node[q].next : q \in c[n - 1]} \ {-1})
  IN c[sizenode(h)]

\* the first of the positions ps on one chain
firstof(h, ps) == CHOOSE p \in ps : ps \subseteq chain(h, p)

inarray(h, k) == k \in IntKey /\ 1 <= k /\ k <= sizearray(h)
\* the positions at which gafqH_get, gafqH_getnum, gafqH_getstr find key k
found(h, k) ==
  {p \in chain(h, mainposition(h, k)) : h.node[p].key = k /\ ~h.node[p].dead}
get(h, k) ==
  IF inarray(h, k) THEN h.array[k]
  ELSE IF found(h, k) = {} THEN NIL
  ELSE h.node[CHOOSE p \in found(h, k) : TRUE].val

-----------------------------------------------------------------------------
(* Insertion.                                                              *)

\* the position getfreepos returns, or -1
getfreepos(h) ==
  LET free == {p \in 0 .. h.lastfree - 1 : h.node[p].key = NIL} IN
  IF free = {} THEN -1 ELSE CHOOSE p \in free : \A q \in free : q <= p

\* computesizes, where nums[i] is the number of candidate keys in (2^(i-1), 2^i]
\* and n their total: the size for the array part, and how many go there
computesizes(nums, n) ==
  LET a[i \in 0 .. MAXBITS] == nums[i] + (IF i = 0 THEN 0 ELSE a[i - 1])
      best == {i \in 0 .. MAXBITS : /\ 2 ^ i < 2 * n
                                    /\ \A j \in 0 .. i - 1 : a[j] # n
                                    /\ nums[i] > 0 /\ 2 * a[i] > 2 ^ i}
  IN IF best = {} THEN [size |-> 0, na |-> 0]
     ELSE LET i == CHOOSE j \in best : \A m \in best : m <= j
          IN [size |-> 2 ^ i, na |-> a[i]]

\* setnodevector on a table: "table overflow" when the size is too large
setnodevector(h, size) ==
  IF size = 0
  THEN [h EXCEPT !.node = [p \in {0} |-> FreeNode], !.lastfree = 0, !.dummy = TRUE]
  ELSE IF ceillog2(size) > MAXBITS THEN [h EXCEPT !.error = TRUE]
  ELSE LET n == 2 ^ ceillog2(size) IN
       [h EXCEPT !.node = [p \in 0 .. n - 1 |-> FreeNode], !.lastfree = n, !.dummy = FALSE]

newtable(narray, nhash) ==
  setnodevector([array |-> [i \in 1 .. narray |-> NIL], node |-> [p \in {0} |-> FreeNode],
                 lastfree |-> 0, dummy |-> TRUE, error |-> FALSE], nhash)

RECURSIVE set(_, _, _), newkey(_, _, _), resize(_, _, _), reinsert(_, _, _)

\* *gafqH_set(h, k) = v (gafqH_setnum and gafqH_setstr alike)
set(h, k, v) ==
  IF h.error THEN h
  ELSE IF inarray(h, k) THEN [h EXCEPT !.array[k] = v]
  ELSE IF found(h, k) # {}
  THEN LET p == CHOOSE q \in found(h, k) : TRUE IN [h EXCEPT !.node[p].val = v]
  ELSE newkey(h, k, v)

\* rehash counts the elements in use and the new key, which numusearray,
\* numusehash and countint do slice by slice
usedarray(h) == {i \in DOMAIN h.array : h.array[i] # NIL}
usednodes(h) == {p \in DOMAIN h.node : h.node[p].val # NIL}

\* mutant: without the new key
totaluse_NoKey(h) == Cardinality(usedarray(h)) + Cardinality(usednodes(h))

totaluse(h) == Cardinality(usedarray(h)) + Cardinality(usednodes(h)) + 1
newsizes(h, k) ==
  LET candidate(x) == x \in IntKey /\ 1 <= x /\ x <= 2 ^ MAXBITS
      inslice(x, i) == candidate(x) /\ 2 ^ i >= x /\ 2 * x > 2 ^ i
      ints == {p \in usednodes(h) : candidate(h.node[p].key)}
      nums == [i \in 0 .. MAXBITS |->
                 Cardinality({x \in usedarray(h) : inslice(x, i)})
                 + Cardinality({p \in ints : inslice(h.node[p].key, i)})
                 + (IF inslice(k, i) THEN 1 ELSE 0)]
      c == computesizes(nums, Cardinality(usedarray(h)) + Cardinality(ints)
                              + (IF candidate(k) THEN 1 ELSE 0))
  IN [array |-> c.size, na |-> c.na, hash |-> totaluse(h) - c.na]
rehash(h, k) == resize(h, newsizes(h, k).array, newsizes(h, k).hash)

\* newkey, the colliding node in its main position: the new one goes to the
\* free position n, into the chain after it
chainnew(h, k, v, mp, n) ==
  [h EXCEPT !.lastfree = n,
     !.node = [@ EXCEPT ![n] = [FreeNode EXCEPT !.key = k, !.val = v,
                                                !.next = h.node[mp].next],
                        ![mp].next = n]]

\* mutant: the colliding node is never moved
movecolliding_Not(h, k, v, mp, n) == chainnew(h, k, v, mp, n)

\* mutant: its predecessor is not linked to the new position
movecolliding_NoRelink(h, k, v, mp, n) ==
  [h EXCEPT !.lastfree = n,
     !.node = [@ EXCEPT ![n] = h.node[mp], ![mp] = [FreeNode EXCEPT !.key = k, !.val = v]]]

\* ... or out of it: it moves to the free position
movecolliding(h, k, v, mp, n) ==
  LET prev == CHOOSE p \in chain(h, mainposition(h, h.node[mp].key)) : h.node[p].next = mp
  IN [h EXCEPT !.lastfree = n,
        !.node = [@ EXCEPT ![prev].next = n, ![n] = h.node[mp],
                           ![mp] = [FreeNode EXCEPT !.key = k, !.val = v]]]

newkey(h, k, v) ==
  LET mp == mainposition(h, k)
      n == getfreepos(h)
  IN
  IF h.node[mp].val = NIL /\ ~h.dummy
  THEN [h EXCEPT !.node[mp] = [@ EXCEPT !.key = k, !.dead = FALSE, !.val = v]]
  ELSE IF n = -1 THEN set(rehash(h, k), k, v)
  ELSE IF mainposition(h, h.node[mp].key) # mp THEN movecolliding(h, k, v, mp, n)
  ELSE chainnew(h, k, v, mp, n)

\* insert the pairs of s into h, in order
reinsert(h, s, i) == IF i > Len(s) THEN h ELSE reinsert(set(h, s[i][1], s[i][2]), s, i + 1)

\* mutant: the elements the array part loses are lost
vanishing_Lost(h, nasize) == <<>>

\* the elements of the array part that do not fit into the new one
vanishing(h, nasize) ==
  [j \in 1 .. (IF sizearray(h) > nasize THEN sizearray(h) - nasize ELSE 0) |->
     <<nasize + j, h.array[nasize + j]>>]

\* setarrayvector, or the shrinking of the array
setarray(h, n) ==
  [h EXCEPT !.array = [i \in 1 .. n |-> IF i <= sizearray(h) THEN h.array[i] ELSE NIL]]

\* resize: the array grows before the nodes are allocated, which may fail, and
\* shrinks after; the vanishing slice of the array upwards and then the old nodes
\* downwards are inserted again
resize(h, nasize, nhsize) ==
  LET h1 == setnodevector(IF nasize > sizearray(h) THEN setarray(h, nasize) ELSE h, nhsize)
      n == sizenode(h)
      nodes == [j \in 1 .. n |-> <<h.node[n - j].key, h.node[n - j].val>>]
  IN IF h1.error THEN h1
     ELSE reinsert(setarray(h1, nasize),
                   SelectSeq(vanishing(h, nasize) \o nodes, LAMBDA kv : kv[2] # NIL), 1)

-----------------------------------------------------------------------------
(* Traversal and length.                                                   *)

\* mutant: dead keys are not recognized
findindex_Live(h, k) ==
  IF k = NIL THEN 0
  ELSE IF inarray(h, k) THEN k
  ELSE IF found(h, k) = {} THEN -1 ELSE 1 + sizearray(h) + CHOOSE p \in found(h, k) : TRUE

\* mutant: the array part is not counted
findindex_NoOffset(h, k) ==
  IF k = NIL THEN 0
  ELSE IF inarray(h, k) THEN k
  ELSE LET ps == {p \in chain(h, mainposition(h, k)) : h.node[p].key = k} IN
       IF ps = {} THEN -1 ELSE 1 + firstof(h, ps)

\* findindex, 0 for the start and -1 when the key is not found; elements are
\* numbered from 1, array first.  A dead key is recognized by its address, and
\* may be in the chain together with a new entry for the same key
findindex(h, k) ==
  IF k = NIL THEN 0
  ELSE IF inarray(h, k) THEN k
  ELSE LET ps == {p \in chain(h, mainposition(h, k)) : h.node[p].key = k} IN
       IF ps = {} THEN -1 ELSE 1 + sizearray(h) + firstof(h, ps)

\* gafqH_next: the element after index i, or NIL
element(h, i) ==
  IF i <= sizearray(h) THEN <<i, h.array[i]>>
  ELSE LET n == h.node[i - sizearray(h) - 1] IN <<n.key, n.val>>
next(h, i) ==
  LET later == {j \in i + 1 .. sizearray(h) + sizenode(h) : element(h, j)[2] # NIL} IN
  IF later = {} THEN NIL
  ELSE element(h, CHOOSE j \in later : \A m \in later : j <= m)[1]

\* binary search for i present, j absent, j = i + 1
RECURSIVE bisect(_, _, _), double(_, _, _)
getnum(h, i) == IF i \in IntKey THEN get(h, i) ELSE NIL
bisect(h, i, j) ==
  IF j - i <= 1 THEN i
  ELSE LET m == (i + j) \div 2 IN
       IF getnum(h, m) = NIL THEN bisect(h, i, m) ELSE bisect(h, m, j)
\* unbound_search
double(h, i, j) ==
  IF getnum(h, j) = NIL THEN bisect(h, i, j)
  ELSE IF 2 * j > MAX_INT
  THEN (CHOOSE n \in 1 .. MAX_INT + 1 :
          getnum(h, n) = NIL /\ \A m \in 1 .. n - 1 : getnum(h, m) # NIL) - 1
  ELSE double(h, j, 2 * j)
\* mutant: the hash part is not looked at
getn_NoHash(h) ==
  LET j == sizearray(h) IN IF j > 0 /\ h.array[j] = NIL THEN bisect(h, 0, j) ELSE j

getn(h) ==
  LET j == sizearray(h) IN
  IF j > 0 /\ h.array[j] = NIL THEN bisect(h, 0, j)
  ELSE IF h.dummy THEN j
  ELSE double(h, j, j + 1)

-----------------------------------------------------------------------------
(* Actions.                                                                *)

\* gafqV_settable, gafq_rawset, ...: t[k] = v.  During a traversal a program
\* only assigns to fields that exist, which `next' requires of it
Set(k, v) ==
  /\ trav # "error"
  /\ trav = "on" => get(t, k) # NIL
  /\ LET h == set(t, k, v) IN
     /\ t' = [h EXCEPT !.error = FALSE]
     /\ IF h.error THEN Map!Same ELSE Map!Set(k, v)
  /\ expected' = IF v = NIL THEN expected \ {k} ELSE expected
  /\ UNCHANGED <<trav, cur, visited>>

\* gafqH_resizearray, which OP_SETLIST calls to make room for its elements
ResizeArray(n) ==
  /\ trav = "idle" /\ n > sizearray(t)
  /\ t' = resize(t, n, IF t.dummy THEN 0 ELSE sizenode(t))
  /\ Map!Same
  /\ UNCHANGED <<trav, cur, visited, expected>>

\* a collection: cleartable empties the entries S of a weak table whose key or
\* value was collected; traversetable and cleartable turn the collectable keys
\* of empty nodes dead
Collect(S) ==
  /\ trav # "error"
  /\ t' = LET gone(n) == n.val = NIL \/ n.key \in S IN
          [t EXCEPT
            !.array = [i \in DOMAIN @ |-> IF i \in S THEN NIL ELSE @[i]],
            !.node = [p \in DOMAIN @ |->
                        LET n == @[p] IN
                        IF gone(n)
                        THEN [n EXCEPT !.val = NIL, !.dead = n.key \in ObjKey]
                        ELSE n]]
  /\ Map!Clear(S)
  /\ expected' = expected \ S
  /\ UNCHANGED <<trav, cur, visited>>

\* next(t, nil)
BeginTraversal ==
  /\ Traversals /\ trav = "idle"
  /\ trav' = "on" /\ cur' = NIL /\ visited' = {} /\ expected' = {k \in Key : get(t, k) # NIL}
  /\ Map!Same /\ UNCHANGED t

\* k, v = next(t, k): an error when the key is not found, the end of the
\* traversal when there is no further element
Next1 ==
  /\ trav = "on"
  /\ LET i == findindex(t, cur)
         k == next(t, i)
     IN \/ i = -1 /\ trav' = "error" /\ UNCHANGED <<cur, visited>>
        \/ i # -1 /\ k # NIL /\ cur' = k /\ visited' = visited \cup {k} /\ UNCHANGED trav
        \/ i # -1 /\ k = NIL /\ trav' = "idle" /\ cur' = NIL /\ visited' = {}
  /\ expected' = IF trav' = "idle" THEN {} ELSE expected
  /\ Map!Same /\ UNCHANGED t

Init ==
  /\ \E narray, nhash \in NewSizes : t = newtable(narray, nhash)
  /\ trav = "idle" /\ cur = NIL /\ visited = {} /\ expected = {}
  /\ Map!Init

Next ==
  \/ \E k \in Key, v \in Val \cup {NIL} : Set(k, v)
  \/ \E n \in ListSizes : ResizeArray(n)
  \/ \E S \in SUBSET {k \in Key : get(t, k) # NIL} : Collect(S)
  \/ BeginTraversal
  \/ Next1

Spec == Init /\ [][Next]_vars

-----------------------------------------------------------------------------
(* Properties.                                                             *)

\* a table implements a map, operation by operation: an assignment, through
\* collisions, moved nodes, reused empty nodes and rehashes, gives its value to its
\* key and changes no other key; growing the array and a traversal change
\* nothing; a collection clears the entries it is to clear and no others
IsMap == content = [k \in Key |-> get(t, k)]

\* "if an element is not in its main position, then the colliding element is in
\* its own main position" (gtable.c:15): newkey moves a colliding node only then,
\* and otherwise chains the new one behind it
MainInvariant ==
  \A p \in usednodes(t) :
    LET mp == mainposition(t, t.node[p].key) IN
    mp # p /\ ~t.node[mp].dead => t.node[mp].key # NIL /\ mainposition(t, t.node[mp].key) = mp

\* every entry of the hash part is found from its main position, at one place,
\* and not hidden by the array part: newkey's loop that looks for the previous
\* node of a colliding one (gtable.c:412) ends; and no chain has a cycle, so
\* that the search for an absent key ends
EntriesFound ==
  /\ \A p \in usednodes(t) :
       /\ ~t.node[p].dead /\ ~inarray(t, t.node[p].key)
       /\ found(t, t.node[p].key) = {p}
  /\ \A p \in DOMAIN t.node :
       t.node[p].next # -1 => p \notin chain(t, t.node[p].next)

\* a rehash, which counts keys slice by slice, leaves exactly as much room in the
\* hash part as the keys need that do not go to the array, the new one included:
\* no rehash runs inside a rehash, and none is followed by another
RehashFits ==
  \A k \in Key :
    found(t, k) = {} /\ ~inarray(t, k) =>
      LET s == newsizes(t, k)
          keys == {x \in Key : x = k \/ get(t, x) # NIL}
      IN Cardinality({x \in keys : ~(x \in IntKey /\ x \in 1 .. s.array)}) = s.hash

\* next raises no error during a traversal that only assigns to existing
\* fields, even when the collector has made the current key dead
NextFindsKey == trav # "error"

\* such a traversal returns no element twice, and when it ends it has returned
\* every element that stayed in the table
Traverses ==
  [][/\ cur' # cur /\ cur' # NIL => cur' \notin visited
     /\ trav = "on" /\ trav' = "idle" => expected \subseteq visited]_vars

\* gafqH_getn returns a border: "an integer index such that t[i] is non-nil
\* and t[i+1] is nil (and 0 if t[1] is nil)"
LengthIsBorder ==
  LET n == getn(t) IN (n = 0 \/ getnum(t, n) # NIL) /\ getnum(t, n + 1) = NIL
==============================================================================
