------------------------------ MODULE Encoding ------------------------------
(***************************************************************************)
(* What one line of assembly becomes: the mnemonic tables and the second   *)
(* pass of Assembler64 (src/RV64I/verify/asm64.py) and of Assembler        *)
(* (src/verify/asm.py).  A line is                                         *)
(*   label  the label in front of it, "" for none;                         *)
(*   mnem   the mnemonic, "" for a line that is only a label; a mnemonic   *)
(*          with a suffix ("vadd.vv", "c.lw", "fcvt.w.s") is split into    *)
(*          mnem and form ("vadd" "vv", "lw" "c", "fcvt" "w.s");           *)
(*   args   its operands as numbers, registers by number, "off(base)" as   *)
(*          off, base; a trailing ",v0.t" is vm = 0, its absence vm = 1;   *)
(*   to     the label a branch names, "" if it gives an offset in args;    *)
(*   val    the constant of li or .word, a word of 64 or 32 bits.          *)
(* A line encodes to a sequence of items [bits, size]; ValueError, the     *)
(* empty sequence, stands for the exception that ends the assembly.        *)
(***************************************************************************)
EXTENDS Formats, Sequences, TLC

ValueError == <<>>
Word(w)    == <<[bits |-> w, size |-> 4]>>
Half(w)    == <<[bits |-> w, size |-> 2]>>
If(ok, items) == IF ok THEN items ELSE ValueError

\* imm(x, bits): a signed immediate out of range is refused, an accepted one
\* is masked; unsigned operands (sltiu) are masked without a check.
\* Mutant of fits: a symmetric range.
fits_symmetric(v, bits) == v \in -(2^(bits - 1)) + 1 .. 2^(bits - 1) - 1
fits(v, bits) == v \in -(2^(bits - 1)) .. 2^(bits - 1) - 1

\* c_field(v, bits, signed): both kinds are checked.
fits_c(v, bits, signed) == IF signed THEN fits(v, bits) ELSE v \in 0 .. 2^bits - 1
is_creg(r) == r \in 8 .. 15

\* _resolve: the distance to a label, else the operand itself.
known(line, labels) == line.to = "" \/ line.to \in DOMAIN labels
resolve(line, labels, cur_addr) ==
  IF line.to = "" THEN line.args[Len(line.args)] ELSE labels[line.to] - cur_addr

----------------------------------------------------------------------------
(* Mnemonic tables: <<funct3, funct7>>, or the one field that varies. *)

R_OPS == [add |-> <<0, 0>>, sub |-> <<0, 32>>, sll |-> <<1, 0>>, slt |-> <<2, 0>>,
          sltu |-> <<3, 0>>, xor |-> <<4, 0>>, srl |-> <<5, 0>>, sra |-> <<5, 32>>,
          or |-> <<6, 0>>, and |-> <<7, 0>>]
OP32_OPS == [addw |-> <<0, 0>>, subw |-> <<0, 32>>, sllw |-> <<1, 0>>,
             srlw |-> <<5, 0>>, sraw |-> <<5, 32>>]
M_OPS == [mul |-> 0, mulh |-> 1, mulhsu |-> 2, mulhu |-> 3,
          div |-> 4, divu |-> 5, rem |-> 6, remu |-> 7]
M_OPS_32 == [mulw |-> 0, divw |-> 4, divuw |-> 5, remw |-> 6, remuw |-> 7]
I_OPS == [addi |-> 0, slti |-> 2, sltiu |-> 3, xori |-> 4, ori |-> 6, andi |-> 7]
SHIFT_I_OPS_64 == [slli |-> <<1, 0>>, srli |-> <<5, 0>>, srai |-> <<5, 16>>]
SHIFT_I_OPS == [slli |-> <<1, 0>>, srli |-> <<5, 0>>, srai |-> <<5, 32>>]
SHIFT_IW_OPS == [slliw |-> <<1, 0>>, srliw |-> <<5, 0>>, sraiw |-> <<5, 32>>]
LOAD_OPS == [lb |-> 0, lh |-> 1, lw |-> 2, ld |-> 3, lbu |-> 4, lhu |-> 5, lwu |-> 6]
STORE_OPS == [sb |-> 0, sh |-> 1, sw |-> 2, sd |-> 3]
BRANCH_OPS == [beq |-> 0, bne |-> 1, blt |-> 4, bge |-> 5, bltu |-> 6, bgeu |-> 7]
A_WIDTH == [w |-> 2, d |-> 3]
A_OPS_AMO == [amoswap |-> 1, amoadd |-> 0, amoxor |-> 4, amoand |-> 12, amoor |-> 8,
              amomin |-> 16, amomax |-> 20, amominu |-> 24, amomaxu |-> 28]
FMT == [s |-> 0, d |-> 1]
F_MEM_OPS == [flw |-> <<7, 2>>, fld |-> <<7, 3>>, fsw |-> <<39, 2>>, fsd |-> <<39, 3>>]
F_R4_OPS == [fmadd |-> 67, fmsub |-> 71, fnmsub |-> 75, fnmadd |-> 79]
F_OP_OPS == [fadd |-> <<0, 0>>, fsub |-> <<0, 4>>, fmul |-> <<0, 8>>, fdiv |-> <<0, 12>>,
             fsqrt |-> <<0, 44>>, fsgnj |-> <<0, 16>>, fsgnjn |-> <<1, 16>>,
             fsgnjx |-> <<2, 16>>, fmin |-> <<0, 20>>, fmax |-> <<1, 20>>]
F_CMP_OPS == [feq |-> 2, flt |-> 1, fle |-> 0]
F_UNARY_OPS ==           \* form of fcvt or fmv -> <<rs2 field, funct7>>
  "w.s" :> <<0, 96>> @@ "wu.s" :> <<1, 96>> @@ "l.s" :> <<2, 96>> @@ "lu.s" :> <<3, 96>> @@
  "w.d" :> <<0, 97>> @@ "wu.d" :> <<1, 97>> @@ "l.d" :> <<2, 97>> @@ "lu.d" :> <<3, 97>> @@
  "s.w" :> <<0, 104>> @@ "s.wu" :> <<1, 104>> @@ "s.l" :> <<2, 104>> @@ "s.lu" :> <<3, 104>> @@
  "d.w" :> <<0, 105>> @@ "d.wu" :> <<1, 105>> @@ "d.l" :> <<2, 105>> @@ "d.lu" :> <<3, 105>> @@
  "s.d" :> <<1, 32>> @@ "d.s" :> <<0, 33>> @@
  "x.w" :> <<0, 112>> @@ "x.d" :> <<0, 113>> @@ "w.x" :> <<0, 120>> @@ "d.x" :> <<0, 121>>
V_FUNCT6 == [vadd |-> 0, vsub |-> 2, vand |-> 9, vor |-> 10, vxor |-> 11, vmul |-> 37,
             vmseq |-> 24, vmsne |-> 25, vmslt |-> 27, vmsltu |-> 26, vmsle |-> 29,
             vmsleu |-> 28, vmin |-> 5, vminu |-> 4, vmax |-> 7, vmaxu |-> 6,
             vdivu |-> 32, vdiv |-> 33, vremu |-> 34, vrem |-> 35,
             vsll |-> 37, vsrl |-> 40, vsra |-> 41]
V_RED_FUNCT6 == [vredsum |-> 0, vredand |-> 1, vredor |-> 2, vredxor |-> 3,
                 vredminu |-> 4, vredmin |-> 5, vredmaxu |-> 6, vredmax |-> 7]
V_MULDIV == {"vmul", "vdivu", "vdiv", "vremu", "vrem"}
V_NO_VI == V_MULDIV \cup {"vsub", "vmin", "vminu", "vmax", "vmaxu"}
V_FORM_FUNC3(base, form) ==
  IF base \in V_MULDIV THEN [vv |-> 2, vx |-> 6][form] ELSE [vv |-> 0, vx |-> 4, vi |-> 3][form]

----------------------------------------------------------------------------
(* _encode, one operator per group of mnemonics.  m is the mnemonic, a the *)
(* operands.                                                               *)

RegisterMnems == DOMAIN R_OPS \cup DOMAIN OP32_OPS \cup DOMAIN M_OPS \cup DOMAIN M_OPS_32
EncodeRegister(m, a) ==
  CASE m \in DOMAIN R_OPS    -> Word(r_type(51, R_OPS[m][1], R_OPS[m][2], a[1], a[2], a[3]))
    [] m \in DOMAIN OP32_OPS -> Word(r_type(59, OP32_OPS[m][1], OP32_OPS[m][2], a[1], a[2], a[3]))
    [] m \in DOMAIN M_OPS    -> Word(r_type(51, M_OPS[m], 1, a[1], a[2], a[3]))
    [] m \in DOMAIN M_OPS_32 -> Word(r_type(59, M_OPS_32[m], 1, a[1], a[2], a[3]))

ImmediateMnems == DOMAIN I_OPS \cup {"addiw"} \cup DOMAIN SHIFT_I_OPS_64 \cup DOMAIN SHIFT_IW_OPS
EncodeImmediate(m, a) ==
  CASE m \in DOMAIN I_OPS ->
         If(m = "sltiu" \/ fits(a[3], 12), Word(i_type(19, I_OPS[m], a[1], a[2], Bits(a[3], 12))))
    [] m = "addiw" -> If(fits(a[3], 12), Word(i_type(27, 0, a[1], a[2], Bits(a[3], 12))))
    [] m \in DOMAIN SHIFT_I_OPS_64 ->       \* & 0x3F: never refused
         LET op == SHIFT_I_OPS_64[m]
         IN  Word(i_type(19, op[1], a[1], a[2], At(op[2], 6, 6) \cup Bits(a[3], 6)))
    [] m \in DOMAIN SHIFT_IW_OPS ->         \* & 0x1F
         LET op == SHIFT_IW_OPS[m]
         IN  Word(i_type(27, op[1], a[1], a[2], At(op[2], 7, 5) \cup Bits(a[3], 5)))

MemoryMnems == DOMAIN LOAD_OPS \cup DOMAIN STORE_OPS
EncodeMemory(m, a) ==
  If(fits(a[2], 12),
     IF m \in DOMAIN LOAD_OPS THEN Word(i_type(3, LOAD_OPS[m], a[1], a[3], Bits(a[2], 12)))
     ELSE Word(s_type(35, STORE_OPS[m], a[3], a[1], Bits(a[2], 12))))

JumpMnems == DOMAIN BRANCH_OPS \cup {"beqz", "bnez", "jal", "j"}
EncodeJump(m, a, off, rd) ==
  IF m \in {"jal", "j"}
  THEN If(fits(off, 21), Word(j_type(111, IF m = "j" THEN 0 ELSE rd, Bits(off, 21))))
  ELSE If(fits(off, 13),
          Word(CASE m \in DOMAIN BRANCH_OPS -> b_type(99, BRANCH_OPS[m], a[1], a[2], Bits(off, 13))
                 [] m = "beqz" -> b_type(99, 0, a[1], 0, Bits(off, 13))
                 [] m = "bnez" -> b_type(99, 1, a[1], 0, Bits(off, 13))))

OtherMnems == {"jalr", "lui", "auipc", "mv", "nop", "ecall", "ebreak"}
EncodeOther(m, a) ==
  CASE m = "jalr" ->                 \* rs1 | rd, rs1 | rd, rs1, offset
         LET rd  == IF Len(a) = 1 THEN 1 ELSE a[1]
             rs1 == IF Len(a) = 1 THEN a[1] ELSE a[2]
             off == IF Len(a) = 3 THEN a[3] ELSE 0
         IN  If(fits(off, 12), Word(i_type(103, 0, rd, rs1, Bits(off, 12))))
    [] m \in {"lui", "auipc"} ->     \* v << 12 if v <= 0xFFFFF else v
         Word(u_type(IF m = "lui" THEN 55 ELSE 23, a[1],
                     IF a[2] <= 1048575 THEN At(a[2], 20, 12) ELSE Bits(a[2], 31)))
    [] m = "mv"     -> Word(i_type(19, 0, a[1], a[2], {}))
    [] m = "nop"    -> Word(i_type(19, 0, 0, 0, {}))
    [] m = "ecall"  -> Word(i_type(115, 0, 0, 0, {}))
    [] m = "ebreak" -> Word(i_type(115, 0, 0, 0, {0}))

AtomicMnems == {"lr", "sc"} \cup DOMAIN A_OPS_AMO
EncodeAtomic(m, form, a) ==
  LET f3 == A_WIDTH[form]
  IN  Word(CASE m = "lr" -> a_type(47, f3, 2, a[1], a[2], 0)
             [] m = "sc" -> a_type(47, f3, 3, a[1], a[3], a[2])
             [] OTHER    -> a_type(47, f3, A_OPS_AMO[m], a[1], a[3], a[2]))

FloatMnems == DOMAIN F_MEM_OPS \cup DOMAIN F_R4_OPS \cup DOMAIN F_OP_OPS \cup DOMAIN F_CMP_OPS
                \cup {"fcvt", "fmv", "fclass"}
EncodeFloat(m, form, a) ==
  CASE m \in {"flw", "fld"} ->
         If(fits(a[2], 12), Word(i_type(7, F_MEM_OPS[m][2], a[1], a[3], Bits(a[2], 12))))
    [] m \in {"fsw", "fsd"} ->
         If(fits(a[2], 12), Word(s_type(39, F_MEM_OPS[m][2], a[3], a[1], Bits(a[2], 12))))
    [] m \in DOMAIN F_R4_OPS -> Word(r4_type(F_R4_OPS[m], 0, a[4], FMT[form], a[3], a[2], a[1]))
    [] m \in DOMAIN F_OP_OPS ->
         Word(r_type(83, F_OP_OPS[m][1], F_OP_OPS[m][2] + FMT[form], a[1], a[2],
                     IF m = "fsqrt" THEN 0 ELSE a[3]))
    [] m \in DOMAIN F_CMP_OPS -> Word(r_type(83, F_CMP_OPS[m], 80 + FMT[form], a[1], a[2], a[3]))
    [] m = "fclass" -> Word(r_type(83, 1, 112 + FMT[form], a[1], a[2], 0))
    [] OTHER ->
         Word(r_type(83, 0, F_UNARY_OPS[form][2], a[1], a[2], F_UNARY_OPS[form][1]))

VectorMnems == {"vsetvli", "vle32", "vse32"} \cup DOMAIN V_RED_FUNCT6 \cup DOMAIN V_FUNCT6
EncodeVector(m, form, a) ==
  CASE m = "vsetvli" -> Word(i_type(OPCODE_OP_V, 7, a[1], a[2], {4}))     \* SEW=32, LMUL=1
    [] m = "vle32" -> Word(Base(7, 6, a[1]) \cup At(a[2], 5, 15) \cup {25})
    [] m = "vse32" -> Word(Base(39, 6, a[1]) \cup At(a[2], 5, 15) \cup {25})
    [] m \in DOMAIN V_RED_FUNCT6 ->
         Word(v_type(V_RED_FUNCT6[m], a[4], a[2], Bits(a[3], 5), 2, a[1]))
    [] OTHER ->
         If(/\ ~(form = "vi" /\ m \in V_NO_VI)
            /\ form = "vi" => fits(a[3], 5),
            Word(v_type(V_FUNCT6[m], a[4], a[2], Bits(a[3], 5), V_FORM_FUNC3(m, form), a[1])))

\* _build32_pair and _li64_words: the eight words of a 64-bit constant.
SCRATCH == 28
\* Mutant of build32_pair: the upper half is not rounded up.
build32_pair_truncated(rd, v32) ==
  Word(u_type(55, rd, v32)) \o Word(i_type(19, 0, rd, rd, Field(v32, 11, 0)))
build32_pair(rd, v32) ==
  Word(u_type(55, rd, Plus(v32, {11}, 32))) \o Word(i_type(19, 0, rd, rd, Field(v32, 11, 0)))
li64_words(rd, v) ==
  build32_pair(rd, Field(v, 63, 32)) \o Word(i_type(19, 1, rd, rd, {5}))       \* slli 32
    \o build32_pair(SCRATCH, Field(v, 31, 0))
    \o Word(i_type(19, 1, SCRATCH, SCRATCH, {5})) \o Word(i_type(19, 5, SCRATCH, SCRATCH, {5}))
    \o Word(r_type(51, 6, 0, rd, rd, SCRATCH))

----------------------------------------------------------------------------
(* _encode_compressed: refused when the immediate does not fit its field   *)
(* or a three-bit register field cannot name the register; an immediate    *)
(* that fits but is not a multiple of the scale loses its low bits.        *)

C_MEM == [lw |-> 2, sw |-> 6, ld |-> 3, sd |-> 7]
C_RARA == [sub |-> <<0, 0>>, xor |-> <<0, 1>>, or |-> <<0, 2>>, and |-> <<0, 3>>,
           subw |-> <<1, 0>>, addw |-> <<1, 1>>]
C_IMM6 == [addi |-> 0, addiw |-> 1, li |-> 2]
C_JUMPS == {"j", "beqz", "bnez"}
EncodeCompressed(m, a, off) ==
  LET C2(ok, w)   == If(ok, Half(w))
      S(v, n)     == fits_c(v, n, TRUE)
      U(v, n)     == fits_c(v, n, FALSE)
  IN CASE m = "addi4spn" -> C2(U(a[2], 10) /\ is_creg(a[1]), c_addi4spn(a[1], Bits(a[2], 10)))
       [] m \in {"lw", "sw"} ->
            C2(U(a[2], 7) /\ is_creg(a[1]) /\ is_creg(a[3]),
               c_lw_sw(C_MEM[m], a[1], a[3], Bits(a[2], 7)))
       [] m \in {"ld", "sd"} ->
            C2(U(a[2], 8) /\ is_creg(a[1]) /\ is_creg(a[3]),
               c_ld_sd(C_MEM[m], a[1], a[3], Bits(a[2], 8)))
       [] m = "nop" -> Half(c_i_imm6(0, 0, {}))
       [] m \in DOMAIN C_IMM6 -> C2(S(a[2], 6), c_i_imm6(C_IMM6[m], a[1], Bits(a[2], 6)))
       [] m = "addi16sp" -> C2(S(a[1], 10), c_addi16sp(Bits(a[1], 10)))
       [] m = "lui" -> Half(c_lui(a[1], At(a[2], 6, 12)))
       [] m \in {"srli", "srai"} ->
            C2(U(a[2], 6) /\ is_creg(a[1]),
               c_shift_imm(a[1], IF m = "srli" THEN 0 ELSE 1, Bits(a[2], 6)))
       [] m = "andi" -> C2(S(a[2], 6) /\ is_creg(a[1]), c_andi(a[1], Bits(a[2], 6)))
       [] m \in DOMAIN C_RARA ->
            C2(is_creg(a[1]) /\ is_creg(a[2]), c_ra_ra(a[1], a[2], C_RARA[m][1], C_RARA[m][2]))
       [] m = "j" -> C2(S(off, 12), c_j(Bits(off, 12)))
       [] m \in {"beqz", "bnez"} ->
            C2(S(off, 9) /\ is_creg(a[1]),
               c_branch(IF m = "beqz" THEN 6 ELSE 7, a[1], Bits(off, 9)))
       [] m = "slli" -> C2(U(a[2], 6), c_slli(a[1], Bits(a[2], 6)))
       [] m = "lwsp" -> C2(U(a[2], 8), c_lwsp(a[1], Bits(a[2], 8)))
       [] m = "ldsp" -> C2(U(a[2], 9), c_ldsp(a[1], Bits(a[2], 9)))
       [] m = "swsp" -> C2(U(a[2], 8), c_swsp(a[1], Bits(a[2], 8)))
       [] m = "sdsp" -> C2(U(a[2], 9), c_sdsp(a[1], Bits(a[2], 9)))
       [] m = "jr"   -> Half(c_cr(8, a[1], 0))
       [] m = "jalr" -> Half(c_cr(9, a[1], 0))
       [] m = "mv"   -> Half(c_cr(8, a[1], a[2]))
       [] m = "add"  -> Half(c_cr(9, a[1], a[2]))
       [] m = "ebreak" -> Half(c_cr(9, 0, 0))

----------------------------------------------------------------------------
(* _encode of the two assemblers.  A label in a branch resolves against    *)
(* the ADDRESS the first pass gave the line.                               *)

IsJump(line) == IF line.form = "c" THEN line.mnem \in C_JUMPS ELSE line.mnem \in JumpMnems
LinkRegister(line) ==       \* jal label | jal rd, label
  IF Len(line.args) = (IF line.to = "" THEN 1 ELSE 0) THEN 1 ELSE line.args[1]

encode64(addr, labels, line) ==
  LET m   == line.mnem
      a   == line.args
      off == IF IsJump(line) THEN resolve(line, labels, addr) ELSE 0
  IN IF ~known(line, labels) THEN ValueError
     ELSE CASE line.form = "c"      -> EncodeCompressed(m, a, off)
            [] m = ".word"          -> Word(line.val)
            [] m = "li"             -> li64_words(a[1], line.val)
            [] m \in RegisterMnems  -> EncodeRegister(m, a)
            [] m \in ImmediateMnems -> EncodeImmediate(m, a)
            [] m \in MemoryMnems    -> EncodeMemory(m, a)
            [] m \in JumpMnems      -> EncodeJump(m, a, off, LinkRegister(line))
            [] m \in OtherMnems     -> EncodeOther(m, a)
            [] m \in AtomicMnems    -> EncodeAtomic(m, line.form, a)
            [] m \in FloatMnems     -> EncodeFloat(m, line.form, a)
            [] m \in VectorMnems    -> EncodeVector(m, line.form, a)
            [] OTHER                -> ValueError        \* unknown mnemonic

encode32(addr, labels, line) ==
  LET m   == line.mnem
      a   == line.args
      off == IF IsJump(line) THEN resolve(line, labels, addr) ELSE 0
  IN IF ~known(line, labels) \/ line.form # "" \/ m \in {"ld", "lwu", "sd"} THEN ValueError
     ELSE CASE m = "li"                 -> build32_pair(a[1], Field(line.val, 31, 0))
            [] m \in DOMAIN SHIFT_I_OPS ->               \* & 0x1F
                 LET op == SHIFT_I_OPS[m]
                 IN  Word(i_type(19, op[1], a[1], a[2], At(op[2], 7, 5) \cup Bits(a[3], 5)))
            [] m \in DOMAIN R_OPS       -> EncodeRegister(m, a)
            [] m \in DOMAIN I_OPS       -> EncodeImmediate(m, a)
            [] m \in MemoryMnems        -> EncodeMemory(m, a)
            [] m \in JumpMnems          -> EncodeJump(m, a, off, LinkRegister(line))
            [] m \in OtherMnems         -> EncodeOther(m, a)
            [] OTHER                    -> ValueError
=============================================================================
