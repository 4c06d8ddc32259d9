# A TLA+ model of gafq

gafq is a C implementation of a small scripting language: a register machine,
a one-pass compiler, an incremental garbage collector, coroutines and a C
interface.  This directory models its parts in TLA+, checks them with TLC on
small instances, and proves theorems about them with TLAPS for every instance.

Names in the modules are those of the source wherever TLA+ allows it.
`PROJECT.json` maps each definition to the lines it models.

## The system and its hard behaviours

| part | files | state | what is hard |
|---|---|---|---|
| garbage collector | ggc.c, gfunc.c, gstate.h | colours, gray lists, phase, sweep pointers | the program changes the object graph between any two steps of the collector |
| userdata and finalizers | ggc.c, gstate.c | root list, `tmudata` | finalizers run program code, fail, and start collections themselves |
| string table | gstring.c | buckets, `nuse` | resized, swept and searched by turns; a search may find a condemned string |
| tables | gtable.c | array, node vector, `lastfree` | collisions move nodes; rehash happens inside an assignment; traversal goes on while entries die |
| calls, errors, coroutines | gdo.c, gapi.c, gdebug.c | C stack, CallInfo arrays, recovery points | an error is a `longjmp` across frames of several threads |
| compiler | glex.c, gparser.c, gcode.c | registers, jump lists, blocks | code is emitted before its context is known and patched later |
| virtual machine | gvm.c | registers, pc | every instruction may call back into a program |
| binary chunks | gdump.c, gundump.c | none | two programs that have to agree on a format |
| libraries | gbaselib.c, gstrlib.c, gtablib.c, giolib.c, loadlib.c, gauxlib.c | handles, registry, buffers | program code runs in the middle of their loops |

How they interact: every allocation may run the collector (`gafqC_checkGC`); the
collector calls finalizers through `gafqD_call`; tables are searched by string
identity, so they depend on interning; the compiler's prototypes and the
machine's upvalues are objects of the collector; errors leave any of them
through `gafqD_throw`.

`PROJECT.json` lists every component with its status, and the hazards of the code
with the properties that cover them.

## Modules

| module | models | extends or uses |
|---|---|---|
| `GafqGC` | the collector, object by object, and every operation that allocates or stores a reference | |
| `GafqGCInv`, `GafqGCSteps`, `GafqGCProofs` | its inductive invariant and the steps of the program, the steps of the collector, the theorems | `GafqGC` |
| `GafqGCBarrier` | `gafq_setupvalue`, kept apart because of its barrier | `MCGafqGC` |
| `GafqUdata` | the root list and `tmudata` as linked lists, `gafq_close` | |
| `GafqUdataProofs` | theorems about `GafqUdata` | `GafqUdata` |
| `GafqString` | the string table and its sweep | |
| `GafqStringProofs` | theorems about `GafqString` | `GafqString` |
| `GafqTable` | tables, traversal, length | runs in step with `GafqMap` |
| `GafqMap` | what a table promises: a map | |
| `GafqDo` | calls, errors, hooks, coroutines | |
| `GafqDoFrames`, `GafqDoSteps`, `GafqDoProofs` | what holds of the C stack, the actions, the theorems | `GafqDo` |
| `GafqOpcodes` | instructions and their fields | |
| `GafqCode` | code generation: expressions, registers, jump lists, constants | `GafqDebug`, `GafqValues` |
| `GafqParser` | statements, scopes, blocks, upvalues, function bodies | `GafqCode` |
| `GafqDebug` | the verifier of code | `GafqOpcodes` |
| `GafqValues` | values, tables and the C functions that programs call | |
| `GafqVM` | every instruction of the machine, one step at a time | `GafqCode` |
| `GafqMeaning` | what a program means, by its syntax: the reference | `GafqValues` |
| `GafqCompile` | parser and machine composed: a program is compiled and its code is run | the six above |
| `GafqPattern` | the pattern matcher | |
| `GafqStrLib` | find, match, gmatch and gsub | `GafqPattern`, `GafqMatches` |
| `GafqMatches` | what a pattern matches, without backtracking: the reference | |
| `MCGafqGC`, `MCGafqUdata`, `MCGafqString`, `MCGafqTable`, `MCGafqCompile`, `MCGafqStrLib` | instances for TLC | |

### GafqGC

State: `alloc` is the set of objects, `color` their marks, `ref` their fields,
`stack` the slots of each thread.  `gray`, `grayagain`, `weak` are the lists
threaded through `gclist`; `gcstate` is the phase; `sweepstrgc` and `sweepgc` hold
what the two sweeps have still to visit.  `ctx` is the stack of nested finalizers and
full collections: while one runs, the code below it waits.

Actions: each case of `singlestep` is an action; `atomic` is split at its
`propagateall` calls into five actions, between which nothing else can happen
(`gcstate` says so).  `FullGC`, `FullGCMark` and `FullGCEnd` are `gafqC_fullgc`.
Program operations are the instructions and API functions that create objects
(`NewObject`, `NewString`, `NewClosureOverLocal`, `NewClosureOverUpval`), store references
(`SetTable`, `SetArray`, `SetMetatable`, `SetFenv`, `SetField`, `SetUpval`), move values,
close upvalues and switch threads.  Each executes the barrier that its code executes.

Abstractions: an object has a few fields instead of many; the pace of the collector
(threshold, estimate, `gcdept`) is left out, a step may happen at any time, which
includes every pace.  `prog` chooses one of several kinds of program
at the start, so that one run covers programs with different operations and the
state space is the sum and not the product of theirs.

### GafqUdata

The root list and the circular list `tmudata` are sequences, the sweep pointer is a
position.  `separateudata`, `gctm`, `sweepstart` and `advance` follow the pointer
manipulations of ggc.c; `Close` is `gafq_close`, with finalizers that raise errors.

### GafqString

Buckets are sets.  `Find` and `NewString` are the two outcomes of `gafqS_newlstr`;
`SweepString` sweeps one bucket; `EndSweep` runs `checkSizes`.  The rest of the
collector appears as `MarkRoot`, `Mark`, `Atomic` and `FullGC`.

### GafqTable

A table is a record of array part, node vector, `lastfree`, the dummy flag and whether an
operation has raised an error.  `set`, `newkey`, `rehash` and `resize` are recursive exactly as
the code is: `resize` grows the array, then allocates the nodes (`setnodevector`, which fails
with "table overflow" beyond 2^`MAXBITS`), then shrinks the array and inserts again.
`Collect` is what `traversetable` and `cleartable` do to a table.  `BeginTraversal` and `Next1`
are `next`.

The variable `content` is the map the program thinks it has.  Every action of the table takes
the step of `GafqMap` that belongs to it: an assignment `Set` of its key and value, `Collect`
the `Clear` of the entries the collector took, and `Same` everything else: making room,
traversing, and an assignment that raised an error.  `IsMap` says that `gafqH_get` finds, for
every key, exactly the value of `content`; so no operation may change, lose or revive another
entry.

### GafqDo

All threads share one C stack, `cstack`, a sequence of the interpreter functions in
progress.  Each thread has its CallInfo array, its counters and its chain of recovery
points.  An operation computes the new C stack and thread record and an error;
`Throw` cuts the C stack back to the recovery point as `longjmp` does.

`Hook` is `gafqD_callhook`: from `traceexec` (line and count hooks), from `gafqD_precall` and
from `callrethooks`.  A hook may run whenever a function runs, of the language or in C,
which includes the moments just after it is entered and just before it returns.  A hook may call
functions and raise errors.  It may yield only when it was called from `gafqV_execute`, as
`traceexec` is the only caller of a hook that looks for a yield.

### The compiler: GafqCode, GafqParser, GafqDebug, GafqVM, GafqCompile

A program is a syntax tree.  `GafqParser` has one operator per function of gparser.c; each
takes the state of the function being compiled (`fs`: code, constants, free register, blocks,
active variables, upvalues, pending jumps) and returns the next one, and visits
the tree in the order in which the one-pass parser meets its tokens.  `GafqCode` does the same
for gcode.c.  The assertions of the source are kept: `assert` records in `fs.asserts` that one
failed.  `checklimit` records in `fs.error` that a limit is exceeded (registers, upvalues, active
variables, constants, functions, jumps, levels); operators look at `error` first, as the code
would have left by then.

`GafqVM` has one action per instruction over a stack of frames, with open and closed upvalues
and the heap of tables; `Asserts` are the assertions of gvm.c: for every instruction that the top
of the stack is above the base, within the stack, and the top of the frame unless the instruction
takes an open list; for `OP_TAILCALL` its operands; for `OP_RETURN` that the caller was
left at an `OP_CALL`.  `GafqMeaning` evaluates the
same tree directly, with scopes instead of registers; it is written from what each construct
is for and not from the compiler.  `GafqCompile` composes them: `Parse` compiles one statement
of the main function, `Load` closes it and makes the closure, `Run` executes an instruction,
and `Means` compares what was called, with which arguments and globals, and how the
program ended.

Abstractions: names and literals are model values or small numbers.  A number is the term of
the operations that made it, so that two numbers are equal only if they were made in the same
way, folded or not; constants like `2` and `1+1` are two entries of the constant table.
Comparisons, and the checks of `constfolding` for a zero divisor and for NaN, look at the value of
the term; of the small numbers in the programs only a power of a negative number to a fraction
is NaN, and `addk` fails on it as `gafqH_set` does.  Arithmetic takes numbers only, a string is an error; `length` chooses the same border in both; there are no
metatables, hooks or coroutines here (`GafqDo` has them); the C functions a program calls
are given by their answers.  `LFIELDS_PER_FLUSH` is a constant and small.

### The string library: GafqPattern, GafqStrLib

A string is a sequence of characters and a pointer a position.  `match` and the functions it
calls are recursive as in gstrlib.c; `match` returns the one `MatchState`, with what
the attempts have left in it, and a position or NULL.  `at` reads a character, the
final NUL included, and is undefined beyond it.  `str_find_aux` is one step; `gmatch_aux` is
one call of the iterator; `gsubstep` is one round of the loop of `str_gsub`, and the function
it may call answers anything of `Answers` or fails.

Abstractions: of the classes only letters and digits (`%a`, `%d` and their complements);
the buffer of gsub is the sequence of its characters; a number given as replacement
is its text.  In `GafqMatches` a pattern is a sequence of items, a way to match is a sequence
of positions, and the best way is the first in an order of preference; nothing is
undone there.

## Runs

| run | question |
|---|---|
| `gc_mutators` | Is anything freed or cleared that a program can still reach, whatever the program does between two steps? |
| `gc_finalize` | Do finalizers run once, also when they fail or collect? |
| `gc_live` | Is garbage freed in the end? |
| `gc_setupvalue` | Does `gafq_setupvalue` keep the invariant of the collector?  No: see below. |
| `udata_lists` | Are the linked lists intact through separation, finalization and closing? |
| `udata_close` | Does a full collection during `gafq_close` end?  No: see below. |
| `table` | Is a table a map, and its traversal complete? |
| `do` | Do errors, yields and hooks leave every thread consistent? |
| `string` | Are strings unique, and freed in the end? |
| `compile` | Does the code do what the program means, and keep every assertion? |
| `compile_count` | The same for a constructor with a large count at the end of a loop.  No: see below. |
| `strlib` | Do searches find the match that the pattern prefers, all matches, and nothing outside the subject? |

Bounds.  `gc_mutators`: two tables, two closures, one upvalue, one prototype, two
threads, one string, one userdata, one primitive value and two stack slots, divided among seven
kinds of program.  A violation of the tricolour scheme needs a black object, a white
one and a place that holds the white one; each program has these and one more.
In one program the registry may become its own metatable, with weak keys and values, and that of a userdata
with a finalizer; so it turns weak and back while the collector runs, and it holds the userdata as a key,
as a value or in its array.  The userdata is resurrected for its finalizer before `cleartable` runs, and its entry must go
if it is a value and stay if it is a key.
`gc_finalize`: a userdata, its metatable and the registry, two slots, a full
collection and another one nested in a finalizer that it calls; the second slot lets
a resurrected object be stored while another is in use.  `GCSWEEPMAX` is 1, the finest interleaving.
`table`: keys 1 to 4 and two objects, hashes chosen so that three of them collide, both
parts up to eight entries, two values.  `MAX_INT` is 4, so that `unbound_search` doubles, bisects and,
beyond it, searches one by one.  No table overflows: where that error comes after the array
has grown, the code leaves integer keys where no lookup finds them (a hazard in `PROJECT.json`).
`do`: three threads, CallInfo arrays
of at most three entries, three nested C calls and one extra for error handling; every
limit is reached.  `string`: three contents that share buckets, two objects for two of
them, sizes 1 to 4.
`compile`: some 10,000 programs in families, each around one hazard: conditions built
from all values, comparisons, `and`, `or` and `not` up to three deep in every context; two operators
of every pair of priorities; two operators on constants, with divisions by zero and powers that
are NaN; multiple assignments to variables, fields and indices that depend on each other; calls,
returns and varargs with zero to two values in every position; constructors around multiples
of `LFIELDS_PER_FLUSH`, which is 2; loops with breaks and closures that capture variables of inner and
outer blocks and use them after the block; local and recursive functions; programs
that fail.  No limit of the compiler is reached.
`strlib`: some 90,000 calls: patterns of one to three repeated items of five classes, with up to two
captures, nested and side by side, references, frontiers, pairs and anchors, on all
subjects up to four characters of two or three kinds; all texts up to three of
fourteen characters, and up to four of seven, as patterns, most of them malformed.
`MAXCAPTURES` is 2 so that it is reached.  A failed attempt that leaves something behind needs
two alternatives and a capture between them; three items have both.

Fairness.  `gc_live` and `string` assume weak fairness of the collector: `gafqC_checkGC`
runs a step at every allocation once the threshold is passed, and a program that
allocates nothing creates no garbage to free.  `gc_live` also assumes
that a finalizer which can return does so in the end.  `udata_lists` and `udata_close` assume weak fairness
of `Collect`: the loops of `gafqC_fullgc` go on without giving control back.  `compile` assumes weak fairness
of `Run`: the loop of `gafqV_execute` does not stop.  That the loops of gmatch and gsub
end is shown without fairness: `GoesForward` says that each round moves on, and `InsideSubject`
that there is an end.

## Findings

* `gafq_setupvalue` (gapi.c:1083) executes the barrier on the closure while the value
  is stored in the UpVal.  A closed upvalue that is already black, reached through
  another closure, keeps a white value that the sweep frees (`gc_setupvalue`).
* `gafq_close` (gstate.c:204) separates all userdata whatever the collector is doing.
  During a sweep the object that `sweepgc` points into moves to the circular list; a
  finalizer that asks for a full collection never returns (`udata_close`).
* `getjumpcontrol` (gcode.c:111) takes the word before a jump for an instruction.  After
  an `OP_SETLIST` with C = 0 it is the count; when its low bits are those of `OP_TESTSET`
  it is rewritten, and the items of the constructor go to other indices
  (`compile_count`).

## Theorems

TLC checks each invariant on the instances above; TLAPS proves the following ones for every
value of the constants that the named assumptions allow.  No invariant below is inductive by
itself.  In each proof there is an inductive invariant, a lemma for every action that preserves it,
and a last step of temporal logic.

**Strings** (`GafqStringProofs`, from `StringAssumption`: finitely many string objects, any contents,
hash function and sizes).  Types are correct, strings are interned, a string the program
holds is found in its bucket, `nuse` is exact, and no dead string remains after a
sweep.  A string is found only if it lies in the bucket of its hash; it is not freed only if it is
not dead; and that it is not dead outside a sweep needs that the sweep has passed every
bucket below `sweepstrgc`.  The inductive invariant joins them: types, every string in
its bucket, no two with one content, the exact count, held strings not dead while
buckets are swept, and dead strings only in the buckets still to be swept.

**The collector** (`GafqGCProofs`, from `TypesDisjoint`, `HeapFinite`, `RootsAssumption` and
`ModesAssumption`: a finite heap of any size with any stacks, programs, weak modes and
depth of nested finalizers).  `NoDangling`, `Tricolor`, `GclistExclusive`, `WhiteAtRest`,
`FinalizedOnce`, `ClearsOnlyCollected`, `TypeOK`, and that no step frees what can be reached from
the roots.  The inductive invariant `IInv` (in `GafqGCInv`) says which fields each type of object has
(`HeapOK`), that what remains to be swept is allocated and on the right list (`SweepOK`), that
outside the mark phase everything not yet swept over has the current white, and that threads
and open upvalues are never black (`ColorsOK`), that every reference in a live object is to a
live one (`Safe`), and, in the mark phase, what each finished part of `atomic` promises to the
next (`MarkOK`): after `remarkupvals` the values of gray open upvalues are marked, after the weak lists the running
thread and the strong parts of weak tables, after `grayagain` the stacks, after `marktmu` the
udata to be finalized.  When `atomic` ends these add up to: everything that a marked object
refers to is marked, so turning the other white into the dead one leaves `Safe`.  That
everything reachable is live follows because the roots are live and `Safe` takes every round of the
search that defines `Reachable` from live objects to live ones.  `gafq_setupvalue` is not part of this specification: with it the theorem is
false (`gc_setupvalue`).

**Userdata** (`GafqUdataProofs`, from `UdataAssumption`: any udata).  Every udata is in exactly
one of the two lists (`EachInOneList`), the sweep stays in the root list while the state is open
(`SweepsRootList`), `gafq_close` leaves no pending finalizer (`CloseFinalizesAll`), and finalizers
are queued newest first (`NewestFirst`).  The inductive invariant `UInv` has the partition of the
udata, that what `separateudata` may still take from the root list is there in the reverse order of creation
(GCTM puts back only udata that it will not take again), that `tmudata` holds
what `gafq_close` still has to finalize, and that what is dead lies ahead of the sweep.

**Calls, errors and coroutines** (`GafqDoProofs`, from `LimitsAssumption`: any threads and limits).
`JumpsInnermost`, `CcallsCounted`, `CStackBounded`, `ResumedOnce`, `PcallRestores`,
`YieldCutsNothing` and `CallInfosMatch`.  The inductive invariant describes the whole C stack, not only its top:
which function of the interpreter lies on which; that a recovery point has saved what its
thread had when the frames below were the whole stack; that a thread waiting below a
`resume` has the counter, recovery point and hook permission of its own frames; and that
the CallInfos of each thread are those of its frames (`GafqDoFrames`).  It must say this of every frame
because an error makes any of them the top.

Only model-checked: liveness (`GarbageFreed`, `StringsFreed`, `FullSweepEndsOpen`, and that programs
and searches end), which is out of the reach of TLAPS; and tables, the compiler, the machine
and patterns, whose operators are recursive over data of any length, for which the installed
provers have no induction.

## Not modelled

* The lexer and input streams: the parser reads trees, so characters and tokens do not occur.
* Binary chunks (gdump.c, gundump.c): an encoding, byte by byte, without other state.
* Metamethods in the machine and the absence bits of gtm.c.
* The memory of the value stack (reallocation and saved offsets) and allocation failures.
* gauxlib.c, gtablib.c, giolib.c, loadlib.c, goslib.c, gmathlib.c, gafq.c, and the parts of gstrlib.c
  without patterns: sequential code over the C API or the platform.
* Formatting and number conversion (gobject.c in part, print.c, gafqc.c).
