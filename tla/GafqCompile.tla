----------------------------- MODULE GafqCompile ------------------------------
(***************************************************************************)
(* A program is compiled (GafqParser) and run (GafqVM), and what it does   *)
(* is compared with what it means (GafqMeaning).                           *)
(***************************************************************************)
EXTENDS GafqParser, GafqVM

CONSTANT Programs       \* the programs that are tried

VARIABLES prog,         \* the program
          todo,         \* its statements that are still to be parsed
          main          \* the main function, as far as it is compiled

M == INSTANCE GafqMeaning

Ended == status \in {"done", "error"}
source == <<prog, todo, main>>
vars == <<source, vm>>

\* the C functions and a number
Globals ==
  [k \in {literal(n) : n \in {"f", "two", "none", "c", "iter", "g"}} |->
     IF k = literal("g") THEN int(7) ELSE <<"ext", k[2][1][2]>>]

Init ==
  /\ prog \in Programs /\ todo = prog /\ main = openmain
  /\ stack = <<>> /\ top = 0 /\ ci = <<>> /\ upvals = <<>> /\ closures = <<>> /\ tables = <<>>
  /\ out = <<>> /\ status = "source" /\ holds = TRUE

\* a statement is parsed; at the end the main function is closed and called
Parse ==
  /\ todo # <<>>
  /\ main' = parser(main, todo[1])
  /\ todo' = Tail(todo)
  /\ UNCHANGED <<prog, vm>>
Load ==
  /\ status = "source" /\ todo = <<>>
  /\ main' = closemain(main)
  /\ Start(proto(main'), Globals)
  /\ UNCHANGED <<prog, todo>>
Run == Execute /\ UNCHANGED source
Ends == Ended /\ UNCHANGED vars
Next == Parse \/ Load \/ Run \/ Ends
Spec == Init /\ [][Next]_vars /\ WF_vars(Run)

-----------------------------------------------------------------------------
\* The assertions of gcode.c and gparser.c hold for every program compiled: the
\* registers are freed in the order they were taken, jump lists are closed, and
\* the code passes gafqG_checkcode.  So do those of gafqV_execute as it runs.
AssertionsHold == main.asserts /\ ~main.error /\ holds

\* An upvalue is open only as long as its variable is in scope: its slot is that
\* of a local variable that the debug information (gafqF_getlocalname) shows to
\* be active in some frame, up to and including the instruction at which the
\* block ends, and no two open upvalues are of one slot.  Every way out of a
\* block (its end, break, return, a tail call) closes what was captured in it, before
\* its registers are used again.
Active(pt, x) == {j \in DOMAIN pt.locvars : x \in pt.locvars[j].startpc..pt.locvars[j].endpc}
OpenUpvaluesLive ==
  \A m, n \in DOMAIN upvals :
    upvals[m].open =>
      /\ status = "run" =>
           \E f \in DOMAIN ci :
             upvals[m].slot - ci[f].base \in 0..Cardinality(Active(closures[stack[ci[f].func][2]].p, ci[f].savedpc))-1
      /\ m # n => ~isopen(upvals[n], upvals[m].slot)

\* The code that gparser.c and gcode.c make of a program does, when gafqV_execute
\* runs it, what the program means: once started it ends, having called the same
\* functions with the same values in the same order, with the same tables and
\* the same results, and with an error if and only if the program has one.
Means ==
  status = "run" ~>
    /\ Ended
    /\ LET m == M!Meaning(prog, Globals) IN
       /\ m.status = status
       /\ m.out = out
       /\ m.tabs = tables
       /\ status = "done" => m.rets = [j \in 1..top |-> stack[j - 1]]
==============================================================================
