-------------------------------- MODULE Isa --------------------------------
(***************************************************************************)
(* What the instructions the test programs and the benchmark kernels use   *)
(* compute: execute.v, vector_alu.v and data_memory.v as operators on      *)
(* words.                                                                  *)
(***************************************************************************)
EXTENDS TestBuilder, FiniteSets, FiniteSetsExt

----------------------------------------------------------------------------
(* Integer arithmetic on w-bit words (execute.v, vector_alu.v). *)

LessU(a, b)    == a # b /\ Max(Xor(a, b)) \in b
Less(a, b, w)  == LessU(Xor(a, {w - 1}), Xor(b, {w - 1}))
Truth(p)       == IF p THEN {0} ELSE {}

Negate(a, w)    == Minus({}, a, w)
Magnitude(a, w) == IF w - 1 \in a THEN Negate(a, w) ELSE a

\* The product modulo 2^w, from the partial products of the bits hi .. lo; for a
\* factor with more ones than zeros, from those of its negative.
Times(a, b, w) ==
  LET few    == IF Cardinality(a) < Cardinality(b) THEN a ELSE b
      many   == IF few = a THEN b ELSE a
      flip   == 2 * Cardinality(few) > w
      digits == IF flip THEN Negate(few, w) ELSE few
      part[hi \in 0 .. w - 1, lo \in 0 .. w - 1] ==
        LET mid == (hi + lo) \div 2
        IN  IF hi > lo THEN Plus(part[hi, mid + 1], part[mid, lo], w)
            ELSE IF lo \in digits THEN Move(many, w - 1 - lo, 0, lo) ELSE {}
      sum    == part[Max(digits \cup {0}), 0]
  IN  IF flip THEN Negate(sum, w) ELSE sum

\* Quotient and remainder: s after the bits hi .. lo, where b * 2^lo fits or not.
DivRem(a, b, w) ==
  LET bits[s \in [q : SUBSET Int, r : SUBSET Int], hi \in 0 .. w - 1, lo \in 0 .. w - 1] ==
        LET mid == (hi + lo) \div 2
            d   == {k + lo : k \in b}
        IN  IF hi > lo THEN bits[bits[s, hi, mid + 1], mid, lo]
            ELSE IF LessU(s.r, d) THEN s
                 ELSE [q |-> s.q \cup {lo}, r |-> Minus(s.r, d, w)]
  IN  bits[[q |-> {}, r |-> a], w - 1, 0]
Div(a, b, w) == DivRem(a, b, w).q
Mod(a, b, w) == DivRem(a, b, w).r
Signing(neg, a, w) == IF neg THEN Negate(a, w) ELSE a

Alu(op, a, b, w) ==
  LET n == Unsigned(b, IF w = 64 THEN 6 ELSE 5)
  IN CASE op = "add"  -> Plus(a, b, w)
       [] op = "sub"  -> Minus(a, b, w)
       [] op = "and"  -> a \cap b
       [] op = "or"   -> a \cup b
       [] op = "xor"  -> Xor(a, b)
       [] op = "sll"  -> Move(a, w - 1 - n, 0, n)
       [] op = "srl"  -> Move(a, w - 1, n, 0)
       [] op = "sra"  -> Extend(Move(a, w - 1, n, 0), w - n, w)
       [] op = "slt"  -> Truth(Less(a, b, w))
       [] op = "sltu" -> Truth(LessU(a, b))
       [] op = "mul"  -> Times(a, b, w)
       [] op = "mulh"   -> Field(Times(Extend(a, w, 2 * w), Extend(b, w, 2 * w), 2 * w), 2 * w - 1, w)
       [] op = "mulhsu" -> Field(Times(Extend(a, w, 2 * w), b, 2 * w), 2 * w - 1, w)
       [] op = "mulhu"  -> Field(Times(a, b, 2 * w), 2 * w - 1, w)
       [] op \in {"div", "divu"} /\ b = {} -> 0 .. w - 1
       [] op \in {"rem", "remu"} /\ b = {} -> a
       [] op = "divu" /\ b # {} -> Div(a, b, w)
       [] op = "remu" /\ b # {} -> Mod(a, b, w)
       [] op = "div" /\ b # {} ->
            Signing((w - 1 \in a) # (w - 1 \in b), Div(Magnitude(a, w), Magnitude(b, w), w), w)
       [] op = "rem" /\ b # {} -> Signing(w - 1 \in a, Mod(Magnitude(a, w), Magnitude(b, w), w), w)

REG   == {"add", "sub", "and", "or", "xor", "sll", "srl", "sra", "slt", "sltu", "mul", "mulh",
          "mulhsu", "mulhu", "div", "divu", "rem", "remu"}
REG_W == [addw |-> "add", subw |-> "sub", sllw |-> "sll", srlw |-> "srl", sraw |-> "sra",
          mulw |-> "mul", divw |-> "div", remw |-> "rem"]
IMM   == [addi |-> "add", andi |-> "and", slli |-> "sll", srli |-> "srl", srai |-> "sra"]
IMM_W == [addiw |-> "add", slliw |-> "sll"]

\* A *W operation works on the low words and sign-extends what comes out.
AluW(op, a, b) == Extend(Alu(op, Field(a, 31, 0), Field(b, 31, 0), 32), 32, XLEN)

\* What line computes from the registers r at the address here.
Result(line, r, here) ==
  LET op == line[1]
  IN CASE op \in REG          -> Alu(op, r[line[3]], r[line[4]], XLEN)
       [] op \in DOMAIN REG_W -> AluW(REG_W[op], r[line[3]], r[line[4]])
       [] op \in DOMAIN IMM   -> Alu(IMM[op], r[line[3]], Word(line[4]), XLEN)
       [] op \in DOMAIN IMM_W -> AluW(IMM_W[op], r[line[3]], Word(line[4]))
       [] op = "lui"          -> Extend(At(line[3], 20, 12), 32, XLEN)
       [] op = "auipc"        -> Plus(Word(here), Extend(At(line[3], 20, 12), 32, XLEN), XLEN)

COMPUTES == REG \cup DOMAIN REG_W \cup DOMAIN IMM \cup DOMAIN IMM_W \cup {"lui", "auipc"}

Write(r, rd, value) == IF rd = 0 THEN r ELSE [r EXCEPT ![rd] = value]

\* The eight words of li: the constant's low half passes through x28.
li64(r, rd, c) == Write(Write(r, 28, Field(c, 31, 0)), rd, IF rd = 28 THEN Field(c, 31, 0) ELSE c)

----------------------------------------------------------------------------
(* Data memory (data_memory.v): doublewords, 4096 of them, zero at first. *)

DMEM_BITS   == 12
Dword(m, d) == IF d \in DOMAIN m THEN m[d] ELSE {}
Index(a)    == Unsigned(Field(a, DMEM_BITS + 2, 3), DMEM_BITS)

WIDTH    == [lb |-> 8, lbu |-> 8, lh |-> 16, lhu |-> 16, lw |-> 32, lwu |-> 32, ld |-> 64,
             sb |-> 8, sh |-> 16, sw |-> 32, sd |-> 64]
LOADS    == {"lb", "lbu", "lh", "lhu", "lw", "lwu", "ld"}
UNSIGNED == {"lbu", "lhu", "lwu"}
STORES   == {"sb", "sh", "sw", "sd"}

\* Where in its doubleword an access of w bits starts: low bits are dropped.
Lane(a, w) == w * ((8 * Unsigned(a, 3)) \div w)

Read(op, m, a) ==
  LET w   == WIDTH[op]
      raw == Field(Dword(m, Index(a)), Lane(a, w) + w - 1, Lane(a, w))
  IN  IF op \in UNSIGNED THEN raw ELSE Extend(raw, w, XLEN)

\* Mutant of Merged: the rest of the doubleword is lost.
Replaced(op, m, a, value) == Move(value, WIDTH[op] - 1, 0, Lane(a, WIDTH[op]))

Merged(op, m, a, value) ==
  LET w == WIDTH[op]
  IN  (Dword(m, Index(a)) \ (Lane(a, w) .. Lane(a, w) + w - 1)) \cup Move(value, w - 1, 0, Lane(a, w))

\* What an atomic operation leaves in memory (riscv64_proc.v): min and max
\* compare the w bits that they act on.
AmoValue(op, old, operand, w) ==
  LET o == Field(old, w - 1, 0)
      n == Field(operand, w - 1, 0)
  IN  CASE op = "swap" -> operand
        [] op \in {"add", "and", "or", "xor"} -> Alu(op, old, operand, XLEN)
        [] op = "min"  -> IF Less(o, n, w) THEN old ELSE operand
        [] op = "max"  -> IF Less(n, o, w) THEN old ELSE operand
        [] op = "minu" -> IF LessU(o, n) THEN old ELSE operand
        [] op = "maxu" -> IF LessU(n, o) THEN old ELSE operand

\* Thirty-two bits of memory: element i of the vector at doubleword d.
Element(m, d, i) == Field(Dword(m, d + (i \div 2)), 32 * (i % 2) + 31, 32 * (i % 2))

----------------------------------------------------------------------------
(* Branches. *)

BRANCHES  == {"beq", "bne", "blt", "bltu"}
RAS_DEPTH == 8

Taken(op, a, b) ==
  CASE op = "beq"  -> a = b
    [] op = "bne"  -> a # b
    [] op = "blt"  -> Less(a, b, XLEN)
    [] op = "bltu" -> LessU(a, b)
=============================================================================
