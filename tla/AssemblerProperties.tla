------------------------ MODULE AssemblerProperties ------------------------
(***************************************************************************)
(* What the assemblers owe their users, stated against the CORE: the words *)
(* in instruction memory, fetched, expanded and decoded the way the        *)
(* hardware does it (module Decoding), are the instructions of the source. *)
(***************************************************************************)
EXTENDS Assembler, Decoding, FiniteSetsExt

\* The file that was written, as one word of halfwords per address.
Imem == IF tool = "asm64" THEN memory
        ELSE [h \in 1 .. 2 * Len(memory) |->
                IF h % 2 = 1 THEN Field(memory[h \div 2 + 1], 15, 0)
                ELSE Field(memory[h \div 2], 31, 16)]

InsnAt(pc) == Decode(Expand(Fetch(Imem, pc)))

\* The lines that define a label, by position in the source.
Definitions(label) == {i \in 1 .. Len(lines) : lines[i].label = label}

\* Where line i of the source ends up: the bytes of what is written before it.
SizeOf(line) == IF line.mnem = "" THEN 0 ELSE instr_size(line)
Position(i)  == MapThenSumSet(LAMBDA j : SizeOf(lines[j]), 1 .. i - 1)

\* How far a jump is meant to go.
Distance(e) ==
  IF ~IsJump(e.line) THEN 0
  ELSE IF e.line.to = "" THEN e.line.args[Len(e.line.args)]
  ELSE Position(CHOOSE i \in Definitions(e.line.to) : TRUE) - e.addr

----------------------------------------------------------------------------
(* What a line means to its author, in the terms of Decode. *)

MeansC(m, a, off) ==
  LET I(op, rd, rs1, rs2, v) == Insn(op, "", rd, rs1, rs2, v)
  IN CASE m = "addi4spn"          -> I("addi", a[1], 2, 0, a[2])
       [] m \in {"lw", "ld"}      -> I(m, a[1], a[3], 0, a[2])
       [] m \in {"sw", "sd"}      -> I(m, 0, a[3], a[1], a[2])
       [] m = "nop"               -> I("addi", 0, 0, 0, 0)
       [] m = "li"                -> I("addi", a[1], 0, 0, a[2])
       [] m = "addi16sp"          -> I("addi", 2, 2, 0, a[1])
       [] m = "lui"               -> I("lui", a[1], 0, 0, Signed(Bits(a[2], 6), 6))
       [] m \in {"addi", "addiw", "slli", "srli", "srai", "andi"} -> I(m, a[1], a[1], 0, a[2])
       [] m \in DOMAIN C_RARA     -> I(m, a[1], a[1], a[2], 0)
       [] m = "j"                 -> I("jal", 0, 0, 0, off)
       [] m = "beqz"              -> I("beq", 0, a[1], 0, off)
       [] m = "bnez"              -> I("bne", 0, a[1], 0, off)
       [] m \in {"lwsp", "ldsp"}  -> I(IF m = "lwsp" THEN "lw" ELSE "ld", a[1], 2, 0, a[2])
       [] m \in {"swsp", "sdsp"}  -> I(IF m = "swsp" THEN "sw" ELSE "sd", 0, 2, a[1], a[2])
       [] m = "jr"                -> I("jalr", 0, a[1], 0, 0)
       [] m = "jalr"              -> I("jalr", 1, a[1], 0, 0)
       [] m = "mv"                -> I("add", a[1], 0, a[2], 0)
       [] m = "add"               -> I("add", a[1], a[1], a[2], 0)
       [] m = "ebreak"            -> I("system", 0, 0, 0, 0)

Means(line, off) ==
  LET m == line.mnem
      a == line.args
      I(op, rd, rs1, rs2, v) == Insn(op, "", rd, rs1, rs2, v)
      O(rd, rs1, rs2, v)     == Insn(m, line.form, rd, rs1, rs2, v)
  IN CASE line.form = "c" -> MeansC(m, a, off)
       [] m \in DOMAIN R_OPS \cup DOMAIN OP32_OPS \cup DOMAIN M_OPS \cup DOMAIN M_OPS_32 ->
            I(m, a[1], a[2], a[3], 0)
       [] m \in DOMAIN I_OPS \cup DOMAIN SHIFT_I_OPS_64 \cup DOMAIN SHIFT_IW_OPS \cup {"addiw"} ->
            I(m, a[1], a[2], 0, a[3])
       [] m \in DOMAIN LOAD_OPS \cup {"flw", "fld"}  -> I(m, a[1], a[3], 0, a[2])
       [] m \in DOMAIN STORE_OPS \cup {"fsw", "fsd"} -> I(m, 0, a[3], a[1], a[2])
       [] m \in {"lui", "auipc"} -> I(m, a[1], 0, 0, Signed(Bits(a[2], 20), 20))
       [] m = "jalr" -> I(m, IF Len(a) = 1 THEN 1 ELSE a[1], IF Len(a) = 1 THEN a[1] ELSE a[2], 0,
                          IF Len(a) = 3 THEN a[3] ELSE 0)
       [] m = "mv"  -> I("addi", a[1], a[2], 0, 0)
       [] m = "nop" -> I("addi", 0, 0, 0, 0)
       [] m \in {"ecall", "ebreak"} -> I("system", 0, 0, 0, 0)
       [] m \in DOMAIN BRANCH_OPS   -> I(m, 0, a[1], a[2], off)
       [] m = "beqz" -> I("beq", 0, a[1], 0, off)
       [] m = "bnez" -> I("bne", 0, a[1], 0, off)
       [] m = "j"    -> I("jal", 0, 0, 0, off)
       [] m = "jal"  -> I("jal", LinkRegister(line), 0, 0, off)
       [] m = "lr"   -> O(a[1], a[2], 0, 0)
       [] m \in AtomicMnems \ {"lr"} -> O(a[1], a[3], a[2], 0)
       [] m \in DOMAIN F_R4_OPS -> [O(a[1], a[2], a[3], 0) EXCEPT !.rs3 = a[4]]
       [] m \in (DOMAIN F_OP_OPS \cup DOMAIN F_CMP_OPS) \ {"fsqrt"} -> O(a[1], a[2], a[3], 0)
       [] m \in {"fsqrt", "fclass", "fcvt", "fmv", "vsetvli", "vle32", "vse32"} ->
            O(a[1], a[2], 0, 0)
       [] m \in DOMAIN V_RED_FUNCT6 \cup DOMAIN V_FUNCT6 ->
            [IF line.form = "vi" THEN O(a[1], 0, a[2], a[3]) ELSE O(a[1], a[3], a[2], 0)
               EXCEPT !.vm = a[4]]

\* The operands the encoders' comments ask for and nothing checks: offsets
\* that are multiples of their scale, shift amounts of the operand's width,
\* an unsigned comparison's immediate in the signed range, registers that
\* do not select another instruction of the same encoding.
Scale == [addi4spn |-> 4, lw |-> 4, sw |-> 4, ld |-> 8, sd |-> 8,
          lwsp |-> 4, swsp |-> 4, ldsp |-> 8, sdsp |-> 8]
Documented(line, off) ==
  LET m == line.mnem
      a == line.args
  IN  /\ off % 2 = 0
      /\ m = "sltiu" => fits(a[3], 12)
      /\ line.form = "" /\ m \in {"lui", "auipc"} => a[2] <= 1048575
      /\ line.form = "" /\ m \in DOMAIN SHIFT_I_OPS => a[3] \in 0 .. IF tool = "asm" THEN 31 ELSE 63
      /\ m \in DOMAIN SHIFT_IW_OPS => a[3] \in 0 .. 31
      /\ line.form = "c" =>
           /\ m \in DOMAIN Scale => a[2] % Scale[m] = 0
           /\ m = "addi16sp" => a[1] % 16 = 0
           /\ m = "lui" => a[1] # 2
           /\ m \in {"mv", "add"} => a[2] # 0
           /\ m = "jalr" => a[1] # 0
      /\ line.to # "" => \E i \in 1 .. Len(lines) : Definitions(line.to) = {i}

Plain(line) == line.mnem \notin {".word"} /\ (line.mnem = "li" => line.form = "c")

----------------------------------------------------------------------------
(* The properties. *)

Bytes(s) == MapThenSumSet(LAMBDA i : s[i].size, DOMAIN s)

\* Assembler64.assemble's two passes agree (asm64.py:391-409): when the second
\* pass comes to a line, the bytes it has emitted are the address the first
\* pass gave the line, and the file holds that many bytes in the end.  A
\* pseudo-instruction sized one way and expanded another breaks it.
LayoutAgrees ==
  /\ stage = "pass2" /\ at <= Len(expanded) => Bytes(items) = expanded[at].addr
  /\ stage \in {"write", "done"} => Bytes(items) = addr
  /\ stage = "done" => 2 * Len(Imem) = addr

\* Encoder and hardware are inverses: the halfwords at a line's address,
\* fetched, expanded and decoded by the core, are the instruction its author
\* wrote, and a branch or jump decodes to the distance at which the line that
\* carries its label really starts, across every mix of 2, 4, 8 and 32 bytes.
CoreReadsTheSource ==
  stage = "done" =>
    \A k \in 1 .. Len(expanded) :
      LET e == expanded[k]
      IN  Plain(e.line) /\ Documented(e.line, Distance(e))
            => InsnAt(e.addr) = Means(e.line, Distance(e))

\* A jump is refused only if no jump of its format reaches that far: the
\* distance is not what the hardware reads back from the field (imm, c_field).
RefusesOnlyTooFar ==
  stage = "refused" /\ IsJump(expanded[at].line) /\ known(expanded[at].line, labels) =>
    LET line == expanded[at].line
        off  == Distance(expanded[at])
        word == CASE line.form = "c" /\ line.mnem = "j" -> c_j(Bits(off, 12))
                  [] line.form = "c" /\ line.mnem # "j" -> c_branch(6, 8, Bits(off, 9))
                  [] line.form = "" /\ line.mnem \in {"j", "jal"} -> j_type(111, 0, Bits(off, 21))
                  [] line.form = "" /\ line.mnem \notin {"j", "jal"} -> b_type(99, 0, 0, 0, Bits(off, 13))
    IN  \/ Decode(Expand(word)).imm # off
        \/ line.form = "c" /\ line.mnem # "j" /\ ~is_creg(line.args[1])

\* The registers after the n instructions at pc, each a word of `width' bits.
XLEN == IF tool = "asm64" THEN 64 ELSE 32
Execute(regs, i) ==
  LET x == regs[i.rs1]
      r == CASE i.op = "lui"  -> Extend(At(i.imm, 20, 12), 32, XLEN)
             [] i.op = "addi" -> Plus(x, Extend(Bits(i.imm, 12), 12, XLEN), XLEN)
             [] i.op = "slli" -> Move(x, XLEN - 1 - i.imm, 0, i.imm)
             [] i.op = "srli" -> Move(x, XLEN - 1, i.imm, 0)
             [] i.op = "or"   -> x \cup regs[i.rs2]
  IN  IF i.rd = 0 THEN regs ELSE [regs EXCEPT ![i.rd] = r]
After(e) ==
  LET start == [r \in 0 .. 31 |-> IF r = 0 THEN {} ELSE {r, XLEN - 1}]
      run[n \in 0 .. instr_size(e.line) \div 4] ==
        IF n = 0 THEN start ELSE Execute(run[n - 1], InsnAt(e.addr + 4 * (n - 1)))
  IN  [before |-> start, regs |-> run[instr_size(e.line) \div 4]]

LoadsConstant(e) ==
  LET m == After(e)
  IN  \A r \in 1 .. 31 :
        m.regs[r] = IF r = e.line.args[1] THEN Move(e.line.val, XLEN - 1, 0, 0)
                    ELSE IF r = SCRATCH /\ tool = "asm64" THEN m.regs[r]
                    ELSE m.before[r]

\* li (asm64.py:425, asm.py:229): whatever the constant, executing the two or
\* eight words leaves it in rd and leaves every other register but the
\* documented scratch x28 alone: the sign a low half carries into the upper
\* half, and the borrow of a negative addi, are undone.
LiLoads ==
  stage = "done" =>
    \A k \in 1 .. Len(expanded) :
      LET line == expanded[k].line
      IN  line.mnem = "li" /\ line.form = "" /\ line.args[1] # SCRATCH => LoadsConstant(expanded[k])

\* A compressed instruction as the port prints it, as a line of assembly.
PortLine(d) ==
  [label |-> "", mnem |-> d[1], form |-> "c", to |-> "", val |-> {},
   args |-> CASE d[1] = "addi4spn" -> <<d[2], d[4]>>
              [] d[1] \in {"lw", "ld", "sw", "sd"} -> <<d[2], d[4], d[3]>>
              [] d[1] = "lui" -> <<d[2], d[3] \div 4096>>
              [] OTHER -> Tail(d)]

\* c_roundtrip_check.decode ("mechanical transcription" of the Verilog) reads
\* every sixteen-bit instruction as the core does, and knows no instruction
\* exactly where the core falls back to its NOP: a check that passes with the
\* port would pass with the hardware.
PortAgrees ==
  stage = "write" /\ at = 1 =>
    \A k \in 1 .. Len(items) :
      LET c == Field(items[k].bits, 15, 0)
          d == decode(c)
      IN  IsCompressed(c) =>
            IF d[1] \in {"UNKNOWN", "reserved"} THEN Expand(c) = NOP
            ELSE Decode(Expand(c)) = Means(PortLine(d), d[Len(d)])
=============================================================================
