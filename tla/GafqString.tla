------------------------------ MODULE GafqString ------------------------------
(***************************************************************************)
(* The string table (gstring.c): every string of the state is in it once,  *)
(* so that strings are equal exactly when they are the same object.  The   *)
(* table grows while the program creates strings and shrinks after a sweep;*)
(* the collector sweeps it bucket by bucket, between steps of the program, *)
(* which may ask for a string that is dead and not yet swept.              *)
(***************************************************************************)
EXTENDS Integers, FiniteSets

CONSTANTS
  String,          \* string objects
  Content,         \* character sequences
  str,             \* str[o]: the content of object o
  Hash,            \* Hash[c]: its hash value
  MINSTRTABSIZE,   \* first and smallest size of the table
  MAXSIZE          \* MAX_INT / 2: no larger table is doubled

ASSUME StringAssumption ==
  /\ IsFiniteSet(String)
  /\ str \in [String -> Content] /\ Hash \in [Content -> Nat]
  /\ MINSTRTABSIZE \in Nat \ {0} /\ MAXSIZE \in Nat

VARIABLES
  hash, size, nuse,   \* the table: hash[i] is the list in bucket i, as a set
  marked,             \* marked[o]: 0 or 1 for the two whites, 2 when marked
  currentwhite,
  gcstate,            \* "pause", "propagate", "sweepstring" or "sweep"
  sweepstrgc,         \* the next bucket to sweep
  full,               \* stage of gafqC_fullgc: 0, 1 while it ends a pending sweep, 2
                      \* during its own cycle; the program waits for its end
  held                \* strings the program can reach

vars == <<hash, size, nuse, marked, currentwhite, gcstate, sweepstrgc, full, held>>

-----------------------------------------------------------------------------
otherwhite == 1 - currentwhite
Bucket == 0 .. size - 1
alloc == {o \in String : \E i \in Bucket : o \in hash[i]}
dead(o) == marked[o] = otherwhite
bucketof(c, sz) == Hash[c] % sz      \* lmod, for sizes that are powers of two

\* gafqS_resize of the table h, of size sz, which is refused while buckets are
\* being swept
rehash(h, sz, newsize) ==
  [i \in 0 .. newsize - 1 |->
     {o \in String : bucketof(str[o], newsize) = i /\ \E j \in 0 .. sz - 1 : o \in h[j]}]

resize(h, newsize, wanted) ==
  IF wanted /\ gcstate # "sweepstring"
  THEN hash' = rehash(h, size, newsize) /\ size' = newsize
  ELSE hash' = h /\ size' = size

\* mutant: a dead string is not considered
lookup_Live(c) == {o \in hash[bucketof(c, size)] : str[o] = c /\ ~dead(o)}

\* the search of gafqS_newlstr
lookup(c) == {o \in hash[bucketof(c, size)] : str[o] = c}

\* mutant: a dead string is returned as it is
revived_Not(o) == marked[o]

\* what the search finds may be dead (changewhite)
revived(o) == IF dead(o) THEN currentwhite ELSE marked[o]

\* gafqS_newlstr finds content c
Find(c) ==
  \E o \in lookup(c) :
    /\ full = 0
    /\ marked' = [marked EXCEPT ![o] = revived(o)]
    /\ held' = held \cup {o}
    /\ UNCHANGED <<hash, size, nuse, currentwhite, gcstate, sweepstrgc, full>>

\* gafqS_newlstr does not find it: newlstr
NewString(c) ==
  /\ full = 0 /\ lookup(c) = {}
  /\ \E o \in String \ alloc :
       /\ str[o] = c
       /\ marked' = [marked EXCEPT ![o] = currentwhite]
       /\ held' = held \cup {o}
       /\ nuse' = nuse + 1
       /\ resize([hash EXCEPT ![bucketof(c, size)] = @ \cup {o}], 2 * size,
                 nuse + 1 > size /\ size <= MAXSIZE)
  /\ UNCHANGED <<currentwhite, gcstate, sweepstrgc, full>>

\* the program drops its last reference to o
Drop(o) ==
  /\ full = 0 /\ o \in held /\ held' = held \ {o}
  /\ UNCHANGED <<hash, size, nuse, marked, currentwhite, gcstate, sweepstrgc, full>>

-----------------------------------------------------------------------------
(* The steps of the collector that concern strings.                        *)

\* markroot, and reallymarkobject for a string
MarkRoot ==
  /\ gcstate = "pause" /\ gcstate' = "propagate"
  /\ UNCHANGED <<hash, size, nuse, marked, currentwhite, sweepstrgc, full, held>>
Mark(o) ==
  /\ gcstate = "propagate" /\ o \in held
  /\ marked' = [marked EXCEPT ![o] = 2]
  /\ UNCHANGED <<hash, size, nuse, currentwhite, gcstate, sweepstrgc, full, held>>

\* atomic: every string the program can reach is marked when the white flips
Atomic ==
  /\ gcstate = "propagate"
  /\ marked' = [o \in String |-> IF o \in held THEN 2 ELSE marked[o]]
  /\ currentwhite' = otherwhite
  /\ gcstate' = "sweepstring" /\ sweepstrgc' = 0
  /\ UNCHANGED <<hash, size, nuse, full, held>>

\* mutant: the mark stays
makewhite_Keep(o) == marked[o]

\* what sweeplist does to a survivor
makewhite(o) == currentwhite

\* mutant: off by one
laststring_Early == sweepstrgc + 2 >= size

laststring == sweepstrgc + 1 >= size

\* mutant: freeobj does not count the strings it frees
SweepString_NoCount ==
  LET b == hash[sweepstrgc]
      freed == {o \in b : dead(o)}
  IN
  /\ gcstate = "sweepstring"
  /\ hash' = [hash EXCEPT ![sweepstrgc] = b \ freed]
  /\ marked' = [o \in String |-> IF o \in b \ freed THEN makewhite(o) ELSE marked[o]]
  /\ sweepstrgc' = sweepstrgc + 1
  /\ gcstate' = IF laststring THEN "sweep" ELSE "sweepstring"
  /\ UNCHANGED <<size, nuse, currentwhite, full, held>>

\* singlestep in GCSsweepstring: frees the dead strings of one bucket
SweepString ==
  LET b == hash[sweepstrgc]
      freed == {o \in b : dead(o)}
  IN
  /\ gcstate = "sweepstring"
  /\ hash' = [hash EXCEPT ![sweepstrgc] = b \ freed]
  /\ nuse' = nuse - Cardinality(freed)
  /\ marked' = [o \in String |-> IF o \in b \ freed THEN makewhite(o) ELSE marked[o]]
  /\ sweepstrgc' = sweepstrgc + 1
  /\ gcstate' = IF laststring THEN "sweep" ELSE "sweepstring"
  /\ UNCHANGED <<size, currentwhite, full, held>>

\* the end of GCSsweep: checkSizes; then gafqC_fullgc starts its own cycle, or
\* ends it
EndSweep ==
  /\ gcstate = "sweep"
  /\ gcstate' = IF full = 1 THEN "propagate" ELSE "pause"
  /\ full' = IF full = 1 THEN 2 ELSE 0
  /\ resize(hash, size \div 2, nuse < size \div 4 /\ size > MINSTRTABSIZE * 2)
  /\ UNCHANGED <<nuse, marked, currentwhite, sweepstrgc, held>>

\* gafqC_fullgc: it gives up a mark phase and makes everything white again, or
\* ends the sweep in progress
FullGC ==
  /\ full = 0 /\ full' = 1
  /\ IF gcstate \in {"pause", "propagate"}
     THEN gcstate' = "sweepstring" /\ sweepstrgc' = 0
     ELSE UNCHANGED <<gcstate, sweepstrgc>>
  /\ UNCHANGED <<hash, size, nuse, marked, currentwhite, held>>

-----------------------------------------------------------------------------
Init ==
  /\ size = MINSTRTABSIZE /\ nuse = 0 /\ hash = [i \in 0 .. MINSTRTABSIZE - 1 |-> {}]
  /\ marked = [o \in String |-> 0] /\ currentwhite = 0
  /\ gcstate = "pause" /\ sweepstrgc = 0 /\ full = 0 /\ held = {}

Collect == MarkRoot \/ Atomic \/ SweepString \/ EndSweep
Next == \/ \E c \in Content : Find(c) \/ NewString(c)
        \/ \E o \in String : Drop(o) \/ Mark(o)
        \/ Collect \/ FullGC
Spec == Init /\ [][Next]_vars

\* the collector goes on: gafqC_checkGC calls it from every allocation
FairSpec == Spec /\ WF_vars(Collect)

-----------------------------------------------------------------------------
(* Properties.                                                             *)

\* the types of the table and of the collector's marks; the buckets are those of
\* the size the table has
TypeOK ==
  /\ size \in Nat \ {0} /\ hash \in [Bucket -> SUBSET String] /\ nuse \in Nat
  /\ marked \in [String -> {0, 1, 2}] /\ currentwhite \in {0, 1}
  /\ gcstate \in {"pause", "propagate", "sweepstring", "sweep"}
  /\ sweepstrgc \in Nat /\ full \in 0 .. 2 /\ held \subseteq String

\* strings are interned: two strings of the table with the same content are the
\* same object, although the table is resized and a dead string may still be in it
Interned == \A o, p \in alloc : str[o] = str[p] => o = p

\* a string the program has is in the table, where it is found again: the sweep
\* does not free one that gafqS_newlstr gave out after the mark phase
HeldFound == \A o \in held : o \in hash[bucketof(str[o], size)]

\* nuse, on which growing and shrinking depend, counts the strings of the table
NuseExact == nuse = Cardinality(alloc)

\* between sweeps no string is dead: no bucket was left out, although the table
\* may have been asked to grow during the sweep
SweptAll == gcstate # "sweepstring" => \A o \in alloc : ~dead(o)

\* a string the program has dropped is freed or used again
StringsFreed ==
  \A o \in String : (o \in alloc /\ o \notin held) ~> (o \notin alloc \/ o \in held)
==============================================================================
