------------------------------ MODULE GafqDebug -------------------------------
(***************************************************************************)
(* The code checker (gdebug.c): what symbexec, run over a whole function   *)
(* with no register to trace, requires of every instruction.  The parser   *)
(* asserts it of each function it closes.                                  *)
(***************************************************************************)
EXTENDS GafqOpcodes

CONSTANT MAXSTACK             \* limit of registers

ASSUME DebugAssumption == MAXSTACK \in Nat

precheck(pt) ==
  /\ pt.maxstacksize <= MAXSTACK
  /\ pt.numparams + (IF "HASARG" \in pt.is_vararg THEN 1 ELSE 0) <= pt.maxstacksize
  /\ "NEEDSARG" \in pt.is_vararg => "HASARG" \in pt.is_vararg
  /\ pt.code # <<>> /\ Last(pt.code).o = "RETURN"

\* what may follow an instruction that leaves an open number of values
checkopenop(i) == i.o \in {"CALL", "TAILCALL", "RETURN", "SETLIST"} /\ i.b = 0

checkreg(pt, r) == r < pt.maxstacksize
checkArgMode(pt, r, mode) ==
  CASE mode = "OpArgN" -> r = 0
    [] mode = "OpArgU" -> TRUE
    [] mode = "OpArgR" -> checkreg(pt, r)
    [] mode = "OpArgK" -> IF ISK(r) THEN INDEXK(r) < Len(pt.k) ELSE checkreg(pt, r)

\* a jump must not lead to the count of a SETLIST; what looks like a SETLIST
\* with such a count may itself be a count, so their number decides
islong(i) == i.o = "SETLIST" /\ i.c = 0
notcount(pt, dest) ==
  LET short == {p \in 0..dest-1 : ~islong(pt.code[p + 1])}
      run == IF short = {} THEN dest ELSE dest - 1 - (CHOOSE p \in short : \A q \in short : q <= p)
  IN run % 2 = 0

checkoperands(pt, pc, i) ==
  LET dest == pc + 1 + i.b IN
  /\ checkreg(pt, i.a)
  /\ CASE getOpMode(i.o) = "iABC" -> /\ checkArgMode(pt, i.b, getBMode(i.o))
                                     /\ checkArgMode(pt, i.c, getCMode(i.o))
       [] getOpMode(i.o) = "iABx" -> getBMode(i.o) = "OpArgK" => i.b < Len(pt.k)
       [] getOpMode(i.o) = "iAsBx" -> dest \in 0..Len(pt.code)-1 /\ notcount(pt, dest)
  /\ testTMode(i.o) => pc + 2 < Len(pt.code) /\ pt.code[pc + 2].o = "JMP"

checkinstr(pt, pc, i) ==
  LET next == pt.code[pc + 2] IN
  CASE i.o = "LOADBOOL" -> i.c = 1 => pc + 2 < Len(pt.code) /\ ~islong(next)
    [] i.o \in {"GETUPVAL", "SETUPVAL"} -> i.b < pt.nups
    [] i.o \in {"GETGLOBAL", "SETGLOBAL"} -> pt.k[i.b + 1][1] = "str"
    [] i.o = "SELF" -> checkreg(pt, i.a + 1)
    [] i.o = "CONCAT" -> i.b < i.c
    [] i.o = "TFORLOOP" -> i.c >= 1 /\ checkreg(pt, i.a + 2 + i.c)
    [] i.o \in {"FORLOOP", "FORPREP"} -> checkreg(pt, i.a + 3)
    [] i.o \in {"CALL", "TAILCALL"} ->
         /\ i.b # 0 => checkreg(pt, i.a + i.b - 1)
         /\ IF i.c = 0 THEN checkopenop(next) ELSE i.c > 1 => checkreg(pt, i.a + i.c - 2)
    [] i.o = "RETURN" -> i.b > 1 => checkreg(pt, i.a + i.b - 2)
    [] i.o = "SETLIST" -> /\ i.b > 0 => checkreg(pt, i.a + i.b)
                          /\ i.c = 0 => pc + 1 < Len(pt.code) - 1
    [] i.o = "CLOSURE" ->
         /\ i.b < Len(pt.p)
         /\ pc + pt.p[i.b + 1].nups < Len(pt.code)
         /\ \A j \in 1..pt.p[i.b + 1].nups : pt.code[pc + 1 + j].o \in {"GETUPVAL", "MOVE"}
    [] i.o = "VARARG" ->
         /\ "ISVARARG" \in pt.is_vararg /\ "NEEDSARG" \notin pt.is_vararg
         /\ i.b = 0 => checkopenop(next)
         /\ checkreg(pt, i.a + i.b - 2)
    [] OTHER -> TRUE

\* the counts of long SETLISTs are passed over
symbexec(pt) ==
  \A pc \in 0..Len(pt.code)-1 :
    LET i == pt.code[pc + 1] IN
    notcount(pt, pc) => checkoperands(pt, pc, i) /\ checkinstr(pt, pc, i)
checkcode(pt) == precheck(pt) /\ symbexec(pt)
==============================================================================
