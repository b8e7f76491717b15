------------------------------ MODULE Decoding ------------------------------
(***************************************************************************)
(* How the core reads an instruction: the fetch window, the expansion of a *)
(* sixteen-bit instruction (compressed_decoder.v) and the fields and       *)
(* operation decode_control_unit.v derives, written from the Verilog and   *)
(* independently of module Encoding.  `decode' is the Python port of the   *)
(* expansion in verify/c_roundtrip_check.py, which the repository uses in  *)
(* place of the Verilog to check its encoders.                             *)
(***************************************************************************)
EXTENDS Words, Sequences, TLC

F(w, hi, lo) == Unsigned(Field(w, hi, lo), hi - lo + 1)

\* {c[hi:lo], ...}: fields <<hi, lo>> from the most significant down, then
\* `zeros' zero bits.
Gather(c, fields, zeros) ==
  LET width(i) == fields[i][1] - fields[i][2] + 1
      pos[i \in 1 .. Len(fields)] ==
        IF i = Len(fields) THEN zeros ELSE pos[i + 1] + width(i + 1)
  IN  UNION {Move(c, fields[i][1], fields[i][2], pos[i]) : i \in 1 .. Len(fields)}

----------------------------------------------------------------------------
(* compressed_decoder.v: a sixteen-bit instruction as a 32-bit one. *)

mk_r(opc, fn3, fn7, rd, rs1, rs2) ==
  At(opc, 7, 0) \cup At(rd, 5, 7) \cup At(fn3, 3, 12) \cup At(rs1, 5, 15)
    \cup At(rs2, 5, 20) \cup At(fn7, 7, 25)
mk_i(opc, fn3, rd, rs1, immv) ==
  At(opc, 7, 0) \cup At(rd, 5, 7) \cup At(fn3, 3, 12) \cup At(rs1, 5, 15) \cup Move(immv, 11, 0, 20)
mk_s(fn3, rs1, rs2, immv) ==
  At(35, 7, 0) \cup At(fn3, 3, 12) \cup At(rs1, 5, 15) \cup At(rs2, 5, 20)
    \cup Move(immv, 11, 5, 25) \cup Move(immv, 4, 0, 7)
mk_b(fn3, rs1, immv) ==               \* rs2 = x0
  At(99, 7, 0) \cup At(fn3, 3, 12) \cup At(rs1, 5, 15)
    \cup Move(immv, 12, 12, 31) \cup Move(immv, 10, 5, 25)
    \cup Move(immv, 4, 1, 8) \cup Move(immv, 11, 11, 7)
mk_u(rd, immv) == At(55, 7, 0) \cup At(rd, 5, 7) \cup Move(immv, 19, 0, 12)
mk_j(immv) ==                         \* rd = x0
  At(111, 7, 0) \cup Move(immv, 20, 20, 31) \cup Move(immv, 10, 1, 21)
    \cup Move(immv, 11, 11, 20) \cup Move(immv, 19, 12, 12)

NOP == mk_i(19, 0, 0, 0, {})

\* The jump and branch offsets, as the 21 and 13 bits the expansion needs.
GatherJ(c) ==
  Move(c, 12, 12, 11) \cup Move(c, 8, 8, 10) \cup Move(c, 10, 9, 8) \cup Move(c, 6, 6, 7)
    \cup Move(c, 7, 7, 6) \cup Move(c, 2, 2, 5) \cup Move(c, 11, 11, 4) \cup Move(c, 5, 3, 1)
GatherB(c) ==
  Move(c, 12, 12, 8) \cup Move(c, 6, 5, 6) \cup Move(c, 2, 2, 5) \cup Move(c, 11, 10, 3)
    \cup Move(c, 4, 3, 1)
j_offset(c) == Extend(GatherJ(c), 12, 21)
b_offset(c) == Extend(GatherB(c), 9, 13)

ExpandQ0(c) ==
  LET rd3  == 8 + F(c, 4, 2)
      rs1p == 8 + F(c, 9, 7)
      word == Gather(c, << <<5, 5>>, <<12, 10>>, <<6, 6>> >>, 2)
      dbl  == Gather(c, << <<6, 5>>, <<12, 10>> >>, 3)
  IN CASE F(c, 15, 13) = 0 ->
            mk_i(19, 0, rd3, 2, Gather(c, << <<10, 7>>, <<12, 11>>, <<5, 5>>, <<6, 6>> >>, 2))
       [] F(c, 15, 13) = 2 -> mk_i(3, 2, rd3, rs1p, word)
       [] F(c, 15, 13) = 3 -> mk_i(3, 3, rd3, rs1p, dbl)
       [] F(c, 15, 13) = 6 -> mk_s(2, rs1p, rd3, word)
       [] F(c, 15, 13) = 7 -> mk_s(3, rs1p, rd3, dbl)
       [] OTHER -> NOP

ExpandQ1(c) ==
  LET rd   == F(c, 11, 7)
      rs1p == 8 + F(c, 9, 7)
      rs2p == 8 + F(c, 4, 2)
      six  == Gather(c, << <<12, 12>>, <<6, 2>> >>, 0)
      imm6 == Extend(six, 6, 12)
      alu(f3, f7, opc) == mk_r(opc, f3, f7, rs1p, rs1p, rs2p)
  IN CASE F(c, 15, 13) = 0 -> mk_i(19, 0, rd, rd, imm6)
       [] F(c, 15, 13) = 1 -> mk_i(27, 0, rd, rd, imm6)
       [] F(c, 15, 13) = 2 -> mk_i(19, 0, rd, 0, imm6)
       [] F(c, 15, 13) = 3 /\ rd = 2 ->
            mk_i(19, 0, 2, 2, Extend(Gather(c, << <<12, 12>>, <<4, 3>>, <<5, 5>>, <<2, 2>>, <<6, 6>> >>,
                                            4), 10, 12))
       [] F(c, 15, 13) = 3 /\ rd # 2 -> mk_u(rd, Extend(six, 6, 20))
       [] F(c, 15, 13) = 4 /\ F(c, 11, 10) = 0 -> mk_i(19, 5, rs1p, rs1p, six)
       [] F(c, 15, 13) = 4 /\ F(c, 11, 10) = 1 -> mk_i(19, 5, rs1p, rs1p, six \cup {10})
       [] F(c, 15, 13) = 4 /\ F(c, 11, 10) = 2 -> mk_i(19, 7, rs1p, rs1p, imm6)
       [] F(c, 15, 13) = 4 /\ F(c, 11, 10) = 3 ->
           (CASE F(c, 12, 12) = 0 /\ F(c, 6, 5) = 0 -> alu(0, 32, 51)
              [] F(c, 12, 12) = 0 /\ F(c, 6, 5) = 1 -> alu(4, 0, 51)
              [] F(c, 12, 12) = 0 /\ F(c, 6, 5) = 2 -> alu(6, 0, 51)
              [] F(c, 12, 12) = 0 /\ F(c, 6, 5) = 3 -> alu(7, 0, 51)
              [] F(c, 12, 12) = 1 /\ F(c, 6, 5) = 0 -> alu(0, 32, 59)
              [] F(c, 12, 12) = 1 /\ F(c, 6, 5) = 1 -> alu(0, 0, 59)
              [] OTHER -> NOP)
       [] F(c, 15, 13) = 5 -> mk_j(j_offset(c))
       [] F(c, 15, 13) = 6 -> mk_b(0, rs1p, b_offset(c))
       [] F(c, 15, 13) = 7 -> mk_b(1, rs1p, b_offset(c))

ExpandQ2(c) ==
  LET rd  == F(c, 11, 7)
      rs2 == F(c, 6, 2)
  IN CASE F(c, 15, 13) = 0 -> mk_i(19, 1, rd, rd, Gather(c, << <<12, 12>>, <<6, 2>> >>, 0))
       [] F(c, 15, 13) = 2 ->
            mk_i(3, 2, rd, 2, Gather(c, << <<3, 2>>, <<12, 12>>, <<6, 4>> >>, 2))
       [] F(c, 15, 13) = 3 ->
            mk_i(3, 3, rd, 2, Gather(c, << <<4, 2>>, <<12, 12>>, <<6, 5>> >>, 3))
       [] F(c, 15, 13) = 4 ->
           (CASE 12 \notin c /\ rs2 = 0 -> mk_i(103, 0, 0, rd, {})                   \* C.JR
              [] 12 \notin c /\ rs2 # 0 -> mk_r(51, 0, 0, rd, 0, rs2)                \* C.MV
              [] 12 \in c /\ rs2 = 0 /\ rd = 0 -> mk_i(115, 0, 0, 0, {0})            \* C.EBREAK
              [] 12 \in c /\ rs2 = 0 /\ rd # 0 -> mk_i(103, 0, 1, rd, {})            \* C.JALR
              [] 12 \in c /\ rs2 # 0 -> mk_r(51, 0, 0, rd, rd, rs2))                 \* C.ADD
       [] F(c, 15, 13) = 6 -> mk_s(2, 2, rs2, Gather(c, << <<8, 7>>, <<12, 9>> >>, 2))
       [] F(c, 15, 13) = 7 -> mk_s(3, 2, rs2, Gather(c, << <<9, 7>>, <<12, 10>> >>, 3))
       [] OTHER -> NOP

IsCompressed(w) == F(w, 1, 0) # 3
Expand(fetch32) ==
  CASE F(fetch32, 1, 0) = 0 -> ExpandQ0(fetch32)
    [] F(fetch32, 1, 0) = 1 -> ExpandQ1(fetch32)
    [] F(fetch32, 1, 0) = 2 -> ExpandQ2(fetch32)
    [] F(fetch32, 1, 0) = 3 -> fetch32

\* instruction_fetch.v: the window {memory[hw + 1], memory[hw]} at pc.
Fetch(memory, pc) ==
  memory[pc \div 2 + 1]
    \cup IF pc \div 2 + 2 \in DOMAIN memory THEN Move(memory[pc \div 2 + 2], 15, 0, 16) ELSE {}

----------------------------------------------------------------------------
(* decode_control_unit.v: operation, registers and immediate.  A register  *)
(* field the operation does not use reads 0; `op' names the control        *)
(* signals: alu_op, muldiv_op and word_op, fp_op and is_double, v_op and   *)
(* v_form, the access width, or the condition of a branch.                 *)

ALU_R == (<<0, 0>> :> "add") @@ (<<0, 32>> :> "sub") @@ (<<7, 0>> :> "and") @@ (<<6, 0>> :> "or")
           @@ (<<4, 0>> :> "xor") @@ (<<1, 0>> :> "sll") @@ (<<5, 0>> :> "srl")
           @@ (<<5, 32>> :> "sra") @@ (<<2, 0>> :> "slt") @@ (<<3, 0>> :> "sltu")
ALU_RW == (<<0, 0>> :> "addw") @@ (<<0, 32>> :> "subw") @@ (<<1, 0>> :> "sllw")
            @@ (<<5, 0>> :> "srlw") @@ (<<5, 32>> :> "sraw")
MULDIV == <<"mul", "mulh", "mulhsu", "mulhu", "div", "divu", "rem", "remu">>
MULDIV_W == <<"mulw", "mulw", "mulw", "mulw", "divw", "divuw", "remw", "remuw">>
ALU_I == <<"addi", "slli", "slti", "sltiu", "xori", "", "ori", "andi">>
LOADS == <<"lb", "lh", "lw", "ld", "lbu", "lhu", "lwu", "">>
STORES == <<"sb", "sh", "sw", "sd", "", "", "", "">>
BRANCHES == <<"beq", "bne", "", "", "blt", "bge", "bltu", "bgeu">>
AMOS == 0 :> "amoadd" @@ 1 :> "amoswap" @@ 2 :> "lr" @@ 3 :> "sc" @@ 4 :> "amoxor" @@ 8 :> "amoor"
          @@ 12 :> "amoand" @@ 16 :> "amomin" @@ 20 :> "amomax" @@ 24 :> "amominu" @@ 28 :> "amomaxu"
FP_ARITH == 0 :> "fadd" @@ 4 :> "fsub" @@ 8 :> "fmul" @@ 12 :> "fdiv" @@ 44 :> "fsqrt"
FP_BY_F3 == (<<16, 0>> :> "fsgnj") @@ (<<16, 1>> :> "fsgnjn") @@ (<<16, 2>> :> "fsgnjx")
              @@ (<<20, 0>> :> "fmin") @@ (<<20, 1>> :> "fmax")
              @@ (<<80, 2>> :> "feq") @@ (<<80, 1>> :> "flt") @@ (<<80, 0>> :> "fle")
VRED == <<"vredsum", "vredand", "vredor", "vredxor", "vredminu", "vredmin", "vredmaxu", "vredmax">>
VMULDIV == 37 :> "vmul" @@ 32 :> "vdivu" @@ 33 :> "vdiv" @@ 34 :> "vremu" @@ 35 :> "vrem"
VALU == 0 :> "vadd" @@ 2 :> "vsub" @@ 9 :> "vand" @@ 10 :> "vor" @@ 11 :> "vxor" @@ 24 :> "vmseq"
          @@ 25 :> "vmsne" @@ 27 :> "vmslt" @@ 26 :> "vmsltu" @@ 29 :> "vmsle" @@ 28 :> "vmsleu"
          @@ 5 :> "vmin" @@ 4 :> "vminu" @@ 7 :> "vmax" @@ 6 :> "vmaxu"
          @@ 37 :> "vsll" @@ 40 :> "vsrl" @@ 41 :> "vsra"
VFORM == 0 :> "vv" @@ 4 :> "vx" @@ 3 :> "vi" @@ 2 :> "vv" @@ 6 :> "vx"

DecodeFp(f7, f3, rs2) ==     \* OP_FP: <<fp_op, the format fields>>
  LET odd  == f7 % 2
      base == f7 - odd
      fmt  == <<"s", "d">>[odd + 1]
  IN CASE f7 = 32 -> <<"fcvt", "s.d">>
       [] f7 = 33 -> <<"fcvt", "d.s">>
       [] f7 \notin {32, 33} /\ base \in DOMAIN FP_ARITH -> <<FP_ARITH[base], fmt>>
       [] base \in {16, 20, 80} -> <<FP_BY_F3[<<base, f3>>], fmt>>
       [] base = 96  -> <<"fcvt", <<"w.s", "wu.s", "l.s", "lu.s", "w.d", "wu.d", "l.d", "lu.d">>
                                    [rs2 + 1 + 4 * odd]>>
       [] base = 104 -> <<"fcvt", <<"s.w", "s.wu", "s.l", "s.lu", "d.w", "d.wu", "d.l", "d.lu">>
                                    [rs2 + 1 + 4 * odd]>>
       [] base = 112 -> IF f3 = 1 THEN <<"fclass", fmt>>
                        ELSE <<"fmv", <<"x.w", "x.d">>[odd + 1]>>
       [] base = 120 -> <<"fmv", <<"w.x", "d.x">>[odd + 1]>>

DecodeV(f6, f3) ==           \* OP_V: <<v_op, v_form>>
  CASE f3 = 7 -> <<"vsetvli", "">>
    [] f3 = 2 /\ f6 < 8 -> <<VRED[f6 + 1], "vs">>
    [] f3 \in {2, 6} /\ ~(f3 = 2 /\ f6 < 8) -> <<VMULDIV[f6], VFORM[f3]>>
    [] f3 \in {0, 3, 4} -> <<VALU[f6], VFORM[f3]>>

\* The immediate generator, one word per format, and as a number.
i_imm(w) == Field(w, 31, 20)
s_imm(w) == Move(w, 31, 25, 5) \cup Move(w, 11, 7, 0)
b_imm(w) == Move(w, 31, 31, 12) \cup Move(w, 7, 7, 11) \cup Move(w, 30, 25, 5) \cup Move(w, 11, 8, 1)
u_imm(w) == Move(w, 31, 12, 12)
j_imm(w) == Move(w, 31, 31, 20) \cup Move(w, 19, 12, 12) \cup Move(w, 20, 20, 11) \cup Move(w, 30, 21, 1)

imm_i(w) == Signed(i_imm(w), 12)
imm_s(w) == Signed(s_imm(w), 12)
imm_b(w) == Signed(b_imm(w), 13)
imm_j(w) == Signed(j_imm(w), 21)
imm_u(w) == Signed(Field(u_imm(w), 31, 12), 20)      \* in units of 4096

Insn(op, form, rd, rs1, rs2, imm) ==
  [op |-> op, form |-> form, rd |-> rd, rs1 |-> rs1, rs2 |-> rs2, rs3 |-> 0, imm |-> imm, vm |-> 1]

Decode(w) ==
  LET opcode == F(w, 6, 0)
      rd  == F(w, 11, 7)
      f3  == F(w, 14, 12)
      rs1 == F(w, 19, 15)
      rs2 == F(w, 24, 20)
      f7  == F(w, 31, 25)
      Op(op, s2, imm) == Insn(op, "", rd, rs1, s2, imm)
  IN CASE opcode = 51 -> Op(IF f7 = 1 THEN MULDIV[f3 + 1] ELSE ALU_R[<<f3, f7>>], rs2, 0)
       [] opcode = 59 -> Op(IF f7 = 1 THEN MULDIV_W[f3 + 1] ELSE ALU_RW[<<f3, f7>>], rs2, 0)
       [] opcode = 19 /\ f3 \notin {1, 5} -> Op(ALU_I[f3 + 1], 0, imm_i(w))
       [] opcode = 19 /\ f3 = 1 -> Op("slli", 0, F(w, 25, 20))
       [] opcode = 19 /\ f3 = 5 -> Op(IF 30 \in w THEN "srai" ELSE "srli", 0, F(w, 25, 20))
       [] opcode = 27 /\ f3 = 0 -> Op("addiw", 0, imm_i(w))
       [] opcode = 27 /\ f3 = 1 -> Op("slliw", 0, rs2)
       [] opcode = 27 /\ f3 = 5 -> Op(IF f7 = 32 THEN "sraiw" ELSE "srliw", 0, rs2)
       [] opcode = 3   -> Op(LOADS[f3 + 1], 0, imm_i(w))
       [] opcode = 35  -> Insn(STORES[f3 + 1], "", 0, rs1, rs2, imm_s(w))
       [] opcode = 99  -> Insn(BRANCHES[f3 + 1], "", 0, rs1, rs2, imm_b(w))
       [] opcode = 111 -> Insn("jal", "", rd, 0, 0, imm_j(w))
       [] opcode = 103 -> Op("jalr", 0, imm_i(w))
       [] opcode = 55  -> Insn("lui", "", rd, 0, 0, imm_u(w))
       [] opcode = 23  -> Insn("auipc", "", rd, 0, 0, imm_u(w))
       [] opcode = 47  -> Insn(AMOS[F(w, 31, 27)], <<"", "", "w", "d">>[f3 + 1], rd, rs1, rs2, 0)
       [] opcode = 7   -> IF f3 = 6 THEN Op("vle32", 0, 0)
                          ELSE Op(IF f3 = 3 THEN "fld" ELSE "flw", 0, imm_i(w))
       [] opcode = 39  -> IF f3 = 6 THEN Op("vse32", 0, 0)        \* the data register is rd here
                          ELSE Insn(IF f3 = 3 THEN "fsd" ELSE "fsw", "", 0, rs1, rs2, imm_s(w))
       [] opcode \in {67, 71, 75, 79} ->
            [Insn((67 :> "fmadd" @@ 71 :> "fmsub" @@ 75 :> "fnmsub" @@ 79 :> "fnmadd")[opcode],
                  IF F(w, 26, 25) = 1 THEN "d" ELSE "s", rd, rs1, rs2, 0)
               EXCEPT !.rs3 = F(w, 31, 27)]
       [] opcode = 83  -> LET o == DecodeFp(f7, f3, rs2)
                          IN  Insn(o[1], o[2], rd, rs1,
                                   IF F(w, 31, 26) \in {0, 2, 4, 6, 8, 10, 40} THEN rs2 ELSE 0, 0)
       [] opcode = 87  -> LET o == DecodeV(F(w, 31, 26), f3)
                          IN  IF o[1] = "vsetvli" THEN Op("vsetvli", 0, 0)
                              ELSE [Insn(o[1], o[2], rd, IF o[2] = "vi" THEN 0 ELSE rs1, rs2,
                                         IF o[2] = "vi" THEN Signed(Field(w, 19, 15), 5) ELSE 0)
                                      EXCEPT !.vm = F(w, 25, 25)]
       [] OTHER -> Insn("system", "", 0, 0, 0, 0)

----------------------------------------------------------------------------
(* c_roundtrip_check.py: decode(c16), the mnemonic and its operands in the *)
(* order they are printed.  sext is Signed.                                *)

\* Mutant of branch_offset: c[2] and c[5] swapped.
branch_offset_swapped(c) ==
  Signed(Move(c, 12, 12, 8) \cup Move(c, 6, 6, 7) \cup Move(c, 2, 2, 6) \cup Move(c, 5, 5, 5)
           \cup Move(c, 11, 10, 3) \cup Move(c, 4, 3, 1), 9)
branch_offset(c) ==
  Signed(Move(c, 12, 12, 8) \cup Move(c, 6, 5, 6) \cup Move(c, 2, 2, 5)
           \cup Move(c, 11, 10, 3) \cup Move(c, 4, 3, 1), 9)
jump_offset(c) ==
  Signed(Move(c, 12, 12, 11) \cup Move(c, 8, 8, 10) \cup Move(c, 10, 9, 8)
           \cup Move(c, 6, 6, 7) \cup Move(c, 7, 7, 6) \cup Move(c, 2, 2, 5)
           \cup Move(c, 11, 11, 4) \cup Move(c, 5, 3, 1), 12)

decode(c) ==
  LET f3   == F(c, 15, 13)
      rd   == F(c, 11, 7)
      rs2  == F(c, 6, 2)
      rs1p == 8 + F(c, 9, 7)
      rs2p == 8 + F(c, 4, 2)
      six    == Move(c, 12, 12, 5) \cup Move(c, 6, 2, 0)
      word   == Unsigned(Move(c, 5, 5, 6) \cup Move(c, 12, 10, 3) \cup Move(c, 6, 6, 2), 7)
      dbl    == Unsigned(Move(c, 6, 5, 6) \cup Move(c, 12, 10, 3), 8)
      sp16   == Signed(Move(c, 12, 12, 9) \cup Move(c, 4, 3, 7) \cup Move(c, 5, 5, 6)
                         \cup Move(c, 2, 2, 5) \cup Move(c, 6, 6, 4), 10)
      Q0 == CASE f3 = 0 -> <<"addi4spn", rs2p, 2,
                              Unsigned(Move(c, 10, 7, 6) \cup Move(c, 12, 11, 4)
                                         \cup Move(c, 5, 5, 3) \cup Move(c, 6, 6, 2), 10)>>
              [] f3 = 2 -> <<"lw", rs2p, rs1p, word>>
              [] f3 = 3 -> <<"ld", rs2p, rs1p, dbl>>
              [] f3 = 6 -> <<"sw", rs2p, rs1p, word>>
              [] f3 = 7 -> <<"sd", rs2p, rs1p, dbl>>
              [] OTHER  -> <<"UNKNOWN">>
      Q1 == CASE f3 = 0 -> <<"addi", rd, Signed(six, 6)>>
              [] f3 = 1 -> <<"addiw", rd, Signed(six, 6)>>
              [] f3 = 2 -> <<"li", rd, Signed(six, 6)>>
              [] f3 = 3 /\ rd = 2 -> <<"addi16sp", sp16>>
              [] f3 = 3 /\ rd # 2 -> <<"lui", rd, Signed(Move(six, 5, 0, 12), 18)>>
              [] f3 = 4 -> (CASE F(c, 11, 10) = 0 -> <<"srli", rs1p, Unsigned(six, 6)>>
                             [] F(c, 11, 10) = 1 -> <<"srai", rs1p, Unsigned(six, 6)>>
                             [] F(c, 11, 10) = 2 -> <<"andi", rs1p, Signed(six, 6)>>
                             [] F(c, 11, 10) = 3 ->
                                  <<IF 12 \in c
                                    THEN <<"subw", "addw", "reserved", "reserved">>[F(c, 6, 5) + 1]
                                    ELSE <<"sub", "xor", "or", "and">>[F(c, 6, 5) + 1], rs1p, rs2p>>)
              [] f3 = 5 -> <<"j", jump_offset(c)>>
              [] f3 = 6 -> <<"beqz", rs1p, branch_offset(c)>>
              [] f3 = 7 -> <<"bnez", rs1p, branch_offset(c)>>
      Q2 == CASE f3 = 0 -> <<"slli", rd, Unsigned(six, 6)>>
              [] f3 = 2 -> <<"lwsp", rd, Unsigned(Move(c, 3, 2, 6) \cup Move(c, 12, 12, 5)
                                                    \cup Move(c, 6, 4, 2), 8)>>
              [] f3 = 3 -> <<"ldsp", rd, Unsigned(Move(c, 4, 2, 6) \cup Move(c, 12, 12, 5)
                                                    \cup Move(c, 6, 5, 3), 9)>>
              [] f3 = 4 /\ 12 \notin c -> IF rs2 = 0 THEN <<"jr", rd>> ELSE <<"mv", rd, rs2>>
              [] f3 = 4 /\ 12 \in c -> IF rd = 0 /\ rs2 = 0 THEN <<"ebreak">>
                                       ELSE IF rs2 = 0 THEN <<"jalr", rd>> ELSE <<"add", rd, rs2>>
              [] f3 = 6 -> <<"swsp", rs2, Unsigned(Move(c, 8, 7, 6) \cup Move(c, 12, 9, 2), 8)>>
              [] f3 = 7 -> <<"sdsp", rs2, Unsigned(Move(c, 9, 7, 6) \cup Move(c, 12, 10, 3), 9)>>
              [] OTHER  -> <<"UNKNOWN">>
  IN CASE F(c, 1, 0) = 0 -> Q0
       [] F(c, 1, 0) = 1 -> Q1
       [] F(c, 1, 0) = 2 -> Q2
       [] F(c, 1, 0) = 3 -> <<"UNKNOWN">>
=============================================================================
