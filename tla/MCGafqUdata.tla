----------------------------- MODULE MCGafqUdata -----------------------------
(* GafqUdata with three udata: one in each list and one being swept. *)
EXTENDS GafqUdata, TLC

CONSTANTS u1, u2, u3
MCUdata == {u1, u2, u3}
Symmetric == Permutations(MCUdata)
==============================================================================
