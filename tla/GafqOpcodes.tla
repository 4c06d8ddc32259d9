----------------------------- MODULE GafqOpcodes ------------------------------
(***************************************************************************)
(* The instructions (gopcodes.h, gopcodes.c): their fields, which of them  *)
(* are tests, and what their operands are.  An instruction is a record     *)
(* [o, a, b, c] with Bx and sBx in b.                                      *)
(***************************************************************************)
EXTENDS Integers, Sequences, SequencesExt

CONSTANT LFIELDS_PER_FLUSH    \* list items stored by one OP_SETLIST

ASSUME OpcodesAssumption == LFIELDS_PER_FLUSH \in Nat \ {0}

NO_JUMP == -1
NO_REG == 255
MULTRET == -1
BITRK == 256
ISK(x) == x >= BITRK
RKASK(x) == x + BITRK
INDEXK(x) == x - BITRK

opnames ==
  <<"MOVE", "LOADK", "LOADBOOL", "LOADNIL", "GETUPVAL", "GETGLOBAL", "GETTABLE", "SETGLOBAL",
    "SETUPVAL", "SETTABLE", "NEWTABLE", "SELF", "ADD", "SUB", "MUL", "DIV", "MOD", "POW", "UNM",
    "NOT", "LEN", "CONCAT", "JMP", "EQ", "LT", "LE", "TEST", "TESTSET", "CALL", "TAILCALL",
    "RETURN", "FORLOOP", "FORPREP", "TFORLOOP", "SETLIST", "CLOSE", "CLOSURE", "VARARG">>

instr(o, a, b, c) == [o |-> o, a |-> a, b |-> b, c |-> c]

\* a number in the place of an instruction, read as one, and the number again;
\* the fields are 6, 8, 9 and 9 bits from the lowest: opcode, a, c, b
word(n) == instr(opnames[(n % 64) + 1], (n \div 64) % 256, n \div 2^23, (n \div 2^14) % 512)
wordvalue(i) ==
  SelectInSeq(opnames, LAMBDA o : o = i.o) - 1 + 64 * i.a + 2^14 * i.c + 2^23 * i.b

\* the columns of gafqP_opmodes
testTMode(o) == o \in {"EQ", "LT", "LE", "TEST", "TESTSET", "TFORLOOP"}
BinaryOps == {"ADD", "SUB", "MUL", "DIV", "MOD", "POW", "EQ", "LT", "LE"}
getBMode(o) ==
  CASE o \in {"MOVE", "LOADNIL", "GETTABLE", "SELF", "UNM", "NOT", "LEN", "CONCAT", "JMP", "TEST",
              "TESTSET", "FORLOOP", "FORPREP"} -> "OpArgR"
    [] o \in BinaryOps \cup {"LOADK", "GETGLOBAL", "SETGLOBAL", "SETTABLE"} -> "OpArgK"
    [] o \in {"TFORLOOP", "CLOSE"} -> "OpArgN"
    [] OTHER -> "OpArgU"
getCMode(o) ==
  CASE o \in BinaryOps \cup {"GETTABLE", "SETTABLE", "SELF"} -> "OpArgK"
    [] o = "CONCAT" -> "OpArgR"
    [] o \in {"LOADBOOL", "NEWTABLE", "TEST", "TESTSET", "CALL", "TAILCALL", "TFORLOOP",
              "SETLIST"} -> "OpArgU"
    [] OTHER -> "OpArgN"
getOpMode(o) ==
  CASE o \in {"LOADK", "GETGLOBAL", "SETGLOBAL", "CLOSURE"} -> "iABx"
    [] o \in {"JMP", "FORLOOP", "FORPREP"} -> "iAsBx"
    [] OTHER -> "iABC"
==============================================================================
