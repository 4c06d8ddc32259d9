---------------------------- MODULE GafqGCBarrier ----------------------------
(***************************************************************************)
(* A use of the forward barrier that disagrees with the assertions of the  *)
(* code, as an extension of GafqGC: gafq_setupvalue (gapi.c) stores into   *)
(* the UpVal of a Gafq function but applies the barrier to the closure.    *)
(***************************************************************************)
EXTENDS MCGafqGC

\* gafq_setupvalue on a Gafq function or, with the closure itself as the
\* place of the upvalue, on a C function
SetUpvalueAPI ==
  /\ Program("setupvalue")
  /\ \E c \in instack \cap Closure, v \in loaded \ Proto :
       IF ref[c]["val"] \in Upval
       THEN setupval(ref[c]["val"], v, c)
       ELSE /\ ref' = [ref EXCEPT ![c]["val"] = v]
            /\ barrier(c, v)
            /\ UNCHANGED <<alloc, stack, loc, basemt, co, finalized, collector>>

SetUpvalueSpec == Init /\ [][Next \/ (SetUpvalueAPI /\ UNCHANGED prog)]_vars
=============================================================================
