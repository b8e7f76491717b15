---------------------------- MODULE MCAssembler ----------------------------
(***************************************************************************)
(* Sources for TLC: every mnemonic of both assemblers with operands at the *)
(* corners of its fields, the halfwords a .word can spell, li of constants *)
(* whose halves carry into each other, and short programs in which labels  *)
(* and branches of every reach stand between lines of every size.          *)
(***************************************************************************)
EXTENDS AssemblerProperties

L(mnem, form, args) ==
  [label |-> "", mnem |-> mnem, form |-> form, args |-> args, to |-> "", val |-> {}]
V(mnem, rd, val) == [L(mnem, "", <<rd>>) EXCEPT !.val = val]
To(label, line)  == [line EXCEPT !.to = label]
One(tools, ls)   == tools \X {<<l>> : l \in ls}
Both == {"asm", "asm64"}
A64  == {"asm64"}

Triples == {<<1, 2, 3>>, <<31, 30, 29>>, <<8, 16, 4>>, <<0, 21, 10>>}
Pairs   == {<<1, 2>>, <<31, 16>>, <<10, 21>>}
Near    == {-2049, -2048, -1366, -1, 0, 1, 31, 64, 1365, 2047, 2048, 4095}
Cregs   == {8, 10, 13, 15}
Small   == {-33, -32, -1, 0, 1, 4, 21, 31, 32, 63, 64}
Scaled  == {-4, 0, 4, 8, 16, 40, 64, 84, 124, 128, 168, 252, 256, 504, 512, 1020, 1024}
Jumps   == {-2050, -2048, -1366, -258, -256, -2, 0, 2, 84, 170, 254, 256, 1364, 2046, 2048,
            -4098, -4096, 4094, 4096, -1048576, -1048578, 1048574, 1048576, 699050}

Registers ==
  One(Both, {L(m, "", t) : m \in DOMAIN R_OPS, t \in Triples})
    \cup One(A64, {L(m, "", t) : m \in DOMAIN OP32_OPS \cup DOMAIN M_OPS \cup DOMAIN M_OPS_32,
                                 t \in Triples})
    \cup One(A64, {L(m, f, t) : m \in AtomicMnems \ {"lr"}, f \in {"w", "d"}, t \in Triples})
    \cup One(A64, {L("lr", f, p) : f \in {"w", "d"}, p \in Pairs})
    \cup One(A64, {L(m, f, t \o <<5>>) : m \in DOMAIN F_R4_OPS, f \in {"s", "d"}, t \in Triples})
    \cup One(A64, {L(m, f, t) : m \in DOMAIN F_OP_OPS \cup DOMAIN F_CMP_OPS \cup {"fclass"},
                                f \in {"s", "d"}, t \in Triples})
    \cup One(A64, {L("fcvt", f, p) : f \in {"w.s", "wu.s", "l.s", "lu.s", "w.d", "wu.d", "l.d",
                     "lu.d", "s.w", "s.wu", "s.l", "s.lu", "d.w", "d.wu", "d.l", "d.lu", "s.d",
                     "d.s"}, p \in Pairs})
    \cup One(A64, {L("fmv", f, p) : f \in {"x.w", "x.d", "w.x", "d.x"}, p \in Pairs})
    \cup One(A64, {L(m, "", p) : m \in {"vsetvli", "vle32", "vse32"}, p \in Pairs})
    \cup One(A64, {L(m, "vs", t \o <<b>>) : m \in DOMAIN V_RED_FUNCT6, t \in Triples, b \in {0, 1}})
    \cup One(A64, {L(m, f, t \o <<b>>) : m \in DOMAIN V_FUNCT6, f \in {"vv", "vx"},
                                         t \in Triples, b \in {0, 1}})
    \cup One(A64, {L(m, "vi", <<3, 9, v, 1>>) : m \in DOMAIN V_FUNCT6, v \in {-17, -16, -1, 5, 15, 16}})
    \cup One(Both, {L("mv", "", p) : p \in Pairs})
    \cup One(Both, {L(m, "", <<>>) : m \in {"nop", "ecall", "ebreak"}})

Immediates ==
  One(Both, {L(m, "", <<p[1], p[2], v>>) : m \in DOMAIN I_OPS, p \in Pairs, v \in Near})
    \cup One(A64, {L("addiw", "", <<p[1], p[2], v>>) : p \in Pairs, v \in Near})
    \cup One(Both, {L(m, "", <<5, 9, v>>) : m \in DOMAIN SHIFT_I_OPS, v \in Small})
    \cup One(A64, {L(m, "", <<5, 9, v>>) : m \in DOMAIN SHIFT_IW_OPS, v \in Small})
    \cup One(Both, {L(m, "", <<p[1], v, p[2]>>) : m \in DOMAIN LOAD_OPS \cup DOMAIN STORE_OPS,
                                                  p \in Pairs, v \in Near})
    \cup One(A64, {L(m, "", <<p[1], v, p[2]>>) : m \in DOMAIN F_MEM_OPS, p \in Pairs, v \in Near})
    \cup One(Both, {L(m, "", <<5, v>>) : m \in {"lui", "auipc"},
                                         v \in {0, 1, 699050, 524288, 1048575, 1048576}})
    \cup One(Both, {L("jalr", "", <<r>>) : r \in {1, 20}} \cup {L("jalr", "", p) : p \in Pairs}
                     \cup {L("jalr", "", <<1, 2, v>>) : v \in Near})
    \cup One(Both, {L(m, "", <<3, 20, v>>) : m \in DOMAIN BRANCH_OPS, v \in Jumps})
    \cup One(Both, {L(m, "", <<20, v>>) : m \in {"beqz", "bnez", "jal"}, v \in Jumps})
    \cup One(Both, {L(m, "", <<v>>) : m \in {"j", "jal"}, v \in Jumps})

CompressedOnes ==
  One(A64,
    {L(m, "c", <<r, v>>) : m \in {"addi4spn", "srli", "srai", "andi"}, r \in {7, 8, 15},
                           v \in Small \cup Scaled}
    \cup {L(m, "c", <<r, v, b>>) : m \in DOMAIN C_MEM, r \in {9, 15}, b \in {8, 14, 16}, v \in Scaled}
    \cup {L(m, "c", <<r, v>>) : m \in DOMAIN C_IMM6 \cup {"lui", "slli"}, r \in {2, 5, 31}, v \in Small}
    \cup {L("addi16sp", "c", <<v>>) : v \in {-528, -512, -496, -32, 16, 48, 176, 336, 496, 512}}
    \cup {L(m, "c", <<r, s>>) : m \in DOMAIN C_RARA, r \in Cregs, s \in Cregs}
    \cup {L(m, "c", <<r, v>>) : m \in {"lwsp", "ldsp", "swsp", "sdsp"}, r \in {5, 26}, v \in Scaled}
    \cup {L(m, "c", <<r, s>>) : m \in {"mv", "add"}, r \in {1, 30}, s \in {0, 9, 22}}
    \cup {L(m, "c", <<r>>) : m \in {"jr", "jalr"}, r \in {0, 1, 21}}
    \cup {L(m, "c", <<>>) : m \in {"nop", "ebreak"}}
    \cup {L("j", "c", <<v>>) : v \in Jumps}
    \cup {L(m, "c", <<r, v>>) : m \in {"beqz", "bnez"}, r \in {7, 9, 14}, v \in Jumps})

\* All the compressed halfwords there are.
Halfwords == {Bits(q, 2) \cup h : q \in 0 .. 2, h \in SUBSET (2 .. 15)}
Halves == One(A64, {V(".word", 0, h) : h \in Halfwords})

Constants32 == {{}, {0}, {11}, {31}, 0 .. 11, 11 .. 31, 0 .. 31, {31, 11}, 12 .. 31, 1 .. 30}
Constants ==
  One(A64, {V("li", rd, lo \cup {i + 32 : i \in hi}) :
              rd \in {0, 7, 31}, lo \in Constants32, hi \in Constants32})
    \cup One({"asm"}, {V("li", rd, lo) : rd \in {0, 7, 28, 31}, lo \in Constants32})

\* Programs of three lines of different sizes, a label on one of them or after
\* the last, jumped to from each of them; and a program that defines it twice.
Shapes == {L("nop", "", <<>>), L("nop", "c", <<>>), V("li", 9, {3, 40}),
           To("a", L("beqz", "", <<4>>)), To("a", L("j", "c", <<>>)),
           To("a", L("jal", "", <<5>>)), To("a", L("bnez", "c", <<12>>))}
Shapes32 == {L("nop", "", <<>>), V("li", 9, {3}), To("a", L("bne", "", <<4, 5>>)),
             To("a", L("jal", "", <<>>)), To("a", L("j", "", <<>>))}
Mark == [L("", "", <<>>) EXCEPT !.label = "a"]
Programs(shapes) ==
  {[s EXCEPT ![k].label = "a"] : s \in [1 .. 3 -> shapes], k \in 1 .. 3}
    \cup {s \o <<Mark>> : s \in [1 .. 3 -> shapes]}
Layouts == A64 \X (Programs(Shapes) \cup {s \o <<Mark>> \o s \o <<Mark>> : s \in [1 .. 1 -> Shapes]})
             \cup {"asm"} \X Programs(Shapes32)

Jobs_All == Registers \cup Immediates \cup CompressedOnes \cup Halves \cup Constants \cup Layouts
=============================================================================
