------------------------------ MODULE MCGafqGC ------------------------------
(* Small instances of GafqGC: one kind of program for each part of the     *)
(* collector that a program can disturb.                                   *)
EXTENDS GafqGC

CONSTANTS m, th, reg, t1, u1, c1, c2, p1, v1, s1, one
CONSTANTS WeakLetters   \* letters of the __mode field of reg

MCMode == [t \in Table |-> IF t = reg THEN WeakLetters ELSE {}]
program(o, v, s) == [ops |-> o, values |-> v, slots |-> s]

\* tables, one of which may be its own and the other's weak metatable
Tables == program({"new", "move", "settable", "setmetatable", "setbasemt"}, {t1}, {1})
\* a registry that is its own weak metatable and the metatable of a udata with a
\* finalizer, which is a key, a value or an array element of it
Weak == program({"new", "move", "settable", "setarray", "setmetatable"}, {u1, one}, {1})
\* tables with primitive values too, all strong
Strong == program({"new", "move", "settable"}, {t1, one}, {1})
\* closures that share an upvalue, open or closed
Upvalues == program({"closure", "move", "setupval", "close"}, {c1, c2, v1}, {1, 2})
\* a coroutine whose stack a closure refers to
Coroutines == program({"new", "closure", "move", "resume"}, {c1, th, v1}, {1, 2})
\* C functions and their environments, arrays and strings
Functions == program({"new", "newstring", "move", "setfenv", "setarray"}, {c1, s1}, {1, 2})
\* a prototype under construction and its constants and inner functions
Prototypes == program({"new", "newstring", "move", "setfield"}, {p1, s1}, {1, 2})
\* a udata and its metatable, full collections
Finalizers == program({"new", "move", "setmetatable", "fullgc"}, {t1, u1}, {1, 2})
Finalizer == program({"new", "move", "setmetatable", "fullgc"}, {u1}, {1})
Setupvalue == program({"new", "closure", "move", "close", "setupvalue"}, {t1, c1, c2, v1}, {1, 2})

Mutators == {Tables, Weak, Strong, Upvalues, Coroutines, Functions, Prototypes}
Finalizing == {Finalizers}
Finalizing1 == {Finalizer}
Setters == {Setupvalue}
=============================================================================
