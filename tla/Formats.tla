------------------------------ MODULE Formats ------------------------------
(***************************************************************************)
(* The bit layouts of the instruction formats, as the assemblers build     *)
(* them: src/verify/asm.py (the six base formats), asm64.py (AMO, fused    *)
(* multiply-add, vector, and the sixteen-bit formats of RV64C).  Operators *)
(* have the names and the parameters of the Python functions; a register   *)
(* or a selector is a number, an immediate is the word imm() or c_field()  *)
(* leaves of it.  What those two REFUSE is in module Encoding.             *)
(***************************************************************************)
EXTENDS Words

----------------------------------------------------------------------------
(* The base formats (asm.py). *)

\* funct3 << 12 | rd << 7 | opcode
Base(opcode, funct3, rd) == At(opcode, 7, 0) \cup At(rd, 5, 7) \cup At(funct3, 3, 12)

r_type(opcode, funct3, funct7, rd, rs1, rs2) ==
  Base(opcode, funct3, rd) \cup At(rs1, 5, 15) \cup At(rs2, 5, 20) \cup At(funct7, 7, 25)

i_type(opcode, funct3, rd, rs1, immv) ==
  Base(opcode, funct3, rd) \cup At(rs1, 5, 15) \cup Move(immv, 11, 0, 20)

s_type(opcode, funct3, rs1, rs2, immv) ==
  At(opcode, 7, 0) \cup At(funct3, 3, 12) \cup At(rs1, 5, 15) \cup At(rs2, 5, 20)
    \cup Move(immv, 11, 5, 25) \cup Move(immv, 4, 0, 7)

b_type(opcode, funct3, rs1, rs2, immv) ==
  At(opcode, 7, 0) \cup At(funct3, 3, 12) \cup At(rs1, 5, 15) \cup At(rs2, 5, 20)
    \cup Move(immv, 12, 12, 31) \cup Move(immv, 10, 5, 25)
    \cup Move(immv, 4, 1, 8) \cup Move(immv, 11, 11, 7)

u_type(opcode, rd, immv) == At(opcode, 7, 0) \cup At(rd, 5, 7) \cup Move(immv, 31, 12, 12)

j_type(opcode, rd, immv) ==
  At(opcode, 7, 0) \cup At(rd, 5, 7)
    \cup Move(immv, 20, 20, 31) \cup Move(immv, 10, 1, 21)
    \cup Move(immv, 11, 11, 20) \cup Move(immv, 19, 12, 12)

----------------------------------------------------------------------------
(* The formats asm64.py adds. *)

OPCODE_OP_V == 87      \* 0b1010111

a_type(opcode, funct3, funct5, rd, rs1, rs2) ==       \* aq = rl = 0
  Base(opcode, funct3, rd) \cup At(rs1, 5, 15) \cup At(rs2, 5, 20) \cup At(funct5, 5, 27)

r4_type(opcode, rm, rs3, fmt, rs2, rs1, rd) ==
  Base(opcode, rm, rd) \cup At(rs1, 5, 15) \cup At(rs2, 5, 20)
    \cup At(fmt, 2, 25) \cup At(rs3, 5, 27)

v_type(funct6, vm, vs2, rs1_field, funct3, vd) ==
  Base(OPCODE_OP_V, funct3, vd) \cup Move(rs1_field, 4, 0, 15) \cup At(vs2, 5, 20)
    \cup At(vm, 1, 25) \cup At(funct6, 6, 26)

----------------------------------------------------------------------------
(* RV64C: sixteen bits, quadrant in bits 1..0, funct3 in bits 15..13. *)

C(quadrant, funct3) == At(quadrant, 2, 0) \cup At(funct3, 3, 13)
creg(r, k) == At(r - 8, 3, k)                  \* only x8-x15 have a three-bit name

c_addi4spn(rd, u) ==
  C(0, 0) \cup Move(u, 5, 4, 11) \cup Move(u, 9, 6, 7) \cup Move(u, 2, 2, 6)
    \cup Move(u, 3, 3, 5) \cup creg(rd, 2)

c_lw_sw(f3, rd_or_rs2, rs1, o) ==
  C(0, f3) \cup Move(o, 6, 6, 5) \cup Move(o, 5, 3, 10) \cup Move(o, 2, 2, 6)
    \cup creg(rs1, 7) \cup creg(rd_or_rs2, 2)

c_ld_sd(f3, rd_or_rs2, rs1, o) ==
  C(0, f3) \cup Move(o, 7, 6, 5) \cup Move(o, 5, 3, 10) \cup creg(rs1, 7) \cup creg(rd_or_rs2, 2)

c_i_imm6(f3, rd_rs1, v) ==
  C(1, f3) \cup Move(v, 5, 5, 12) \cup At(rd_rs1, 5, 7) \cup Move(v, 4, 0, 2)

c_addi16sp(v) ==
  C(1, 3) \cup At(2, 5, 7) \cup Move(v, 9, 9, 12) \cup Move(v, 8, 7, 3)
    \cup Move(v, 6, 6, 5) \cup Move(v, 5, 5, 2) \cup Move(v, 4, 4, 6)

c_lui(rd, v) == C(1, 3) \cup Move(v, 17, 17, 12) \cup At(rd, 5, 7) \cup Move(v, 16, 12, 2)

c_shift_imm(rd_rs1_3, f2, s) ==
  C(1, 4) \cup Move(s, 5, 5, 12) \cup At(f2, 2, 10) \cup creg(rd_rs1_3, 7) \cup Move(s, 4, 0, 2)

c_andi(rd_rs1_3, v) == c_shift_imm(rd_rs1_3, 2, v)

c_ra_ra(rd_rs1_3, rs2_3, bit12, f2) ==
  C(1, 4) \cup At(bit12, 1, 12) \cup At(3, 2, 10) \cup creg(rd_rs1_3, 7)
    \cup At(f2, 2, 5) \cup creg(rs2_3, 2)

\* Mutant of c_j: offset bits 6 and 7 swapped.
c_j_swapped(o) ==
  C(1, 5) \cup Move(o, 11, 11, 12) \cup Move(o, 4, 4, 11) \cup Move(o, 9, 8, 9)
    \cup Move(o, 10, 10, 8) \cup Move(o, 7, 6, 6) \cup Move(o, 3, 1, 3) \cup Move(o, 5, 5, 2)
c_j(o) ==
  C(1, 5) \cup Move(o, 11, 11, 12) \cup Move(o, 4, 4, 11) \cup Move(o, 9, 8, 9)
    \cup Move(o, 10, 10, 8) \cup Move(o, 6, 6, 7) \cup Move(o, 7, 7, 6)
    \cup Move(o, 3, 1, 3) \cup Move(o, 5, 5, 2)

c_branch(f3, rs1_3, o) ==
  C(1, f3) \cup Move(o, 8, 8, 12) \cup Move(o, 4, 3, 10) \cup creg(rs1_3, 7)
    \cup Move(o, 7, 6, 5) \cup Move(o, 2, 1, 3) \cup Move(o, 5, 5, 2)

c_lwsp(rd, o) ==
  C(2, 2) \cup Move(o, 5, 5, 12) \cup At(rd, 5, 7) \cup Move(o, 4, 2, 4) \cup Move(o, 7, 6, 2)

c_ldsp(rd, o) ==
  C(2, 3) \cup Move(o, 5, 5, 12) \cup At(rd, 5, 7) \cup Move(o, 4, 3, 5) \cup Move(o, 8, 6, 2)

c_swsp(rs2, o) == C(2, 6) \cup Move(o, 5, 2, 9) \cup Move(o, 7, 6, 7) \cup At(rs2, 5, 2)

c_sdsp(rs2, o) == C(2, 7) \cup Move(o, 5, 3, 10) \cup Move(o, 8, 6, 7) \cup At(rs2, 5, 2)

c_slli(rd, s) == C(2, 0) \cup Move(s, 5, 5, 12) \cup At(rd, 5, 7) \cup Move(s, 4, 0, 2)

c_cr(bit15_12, rd_rs1, rs2) ==
  At(2, 2, 0) \cup At(bit15_12, 4, 12) \cup At(rd_rs1, 5, 7) \cup At(rs2, 5, 2)
=============================================================================
