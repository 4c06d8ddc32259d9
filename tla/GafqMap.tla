------------------------------- MODULE GafqMap -------------------------------
(***************************************************************************)
(* What a table is to a program: a map from keys to values, in which an    *)
(* absent key has the value NIL.  A table runs in step with this map, each *)
(* operation with its own here, and always shows the same content.         *)
(***************************************************************************)
CONSTANTS Key, Val, NIL
VARIABLE map

Init == map = [k \in Key |-> NIL]

\* an assignment changes its key and nothing else
Set(k, v) == map' = [map EXCEPT ![k] = v]
\* the collector clears entries of a weak table
Clear(S) == map' = [k \in Key |-> IF k \in S THEN NIL ELSE map[k]]
\* making room, and looking, change nothing
Same == UNCHANGED map

Next == \/ \E k \in Key, v \in Val \cup {NIL} : Set(k, v)
        \/ \E S \in SUBSET Key : Clear(S)
        \/ Same
Spec == Init /\ [][Next]_map
==============================================================================
