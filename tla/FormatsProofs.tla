--------------------------- MODULE FormatsProofs ---------------------------
(***************************************************************************)
(* Scatter and gather: for EVERY immediate, what the immediate generator   *)
(* of the decoder reads back from the word an encoder built is the         *)
(* immediate that was put in.  TLC checks the corners of each field        *)
(* (asm_core); a permutation of bits is right on corners and wrong between *)
(* them, so the theorems quantify over all of them.                        *)
(***************************************************************************)
EXTENDS Formats, Decoding, TLAPS

\* A number of w bits put at position k stays within its field.
LEMMA AtInField ==
  ASSUME NEW n, NEW w \in Nat, NEW k \in Nat
  PROVE  At(n, w, k) \subseteq k .. k + w - 1
BY DEF At, Move

\* What a format leaves to the opcode, the registers and the selectors.
LEMMA Fixed ==
  ASSUME NEW opcode, NEW f3, NEW rd, NEW rs1, NEW rs2
  PROVE  /\ At(opcode, 7, 0) \subseteq 0 .. 6 /\ At(rd, 5, 7) \subseteq 7 .. 11
         /\ At(f3, 3, 12) \subseteq 12 .. 14 /\ At(rs1, 5, 15) \subseteq 15 .. 19
         /\ At(rs2, 5, 20) \subseteq 20 .. 24
BY AtInField

\* The branch offset of asm.py's b_type (imm12 | imm10_5 | imm4_1 | imm11) is
\* what decode_control_unit.v reads from a B-format word.
THEOREM BranchRoundTrip ==
  ASSUME NEW opcode, NEW f3, NEW rs1, NEW rs2, NEW immv \in SUBSET (1 .. 12)
  PROVE  b_imm(b_type(opcode, f3, rs1, rs2, immv)) = immv
<1> DEFINE rest == At(opcode, 7, 0) \cup At(f3, 3, 12) \cup At(rs1, 5, 15) \cup At(rs2, 5, 20)
           imms == Move(immv, 12, 12, 31) \cup Move(immv, 10, 5, 25)
                     \cup Move(immv, 4, 1, 8) \cup Move(immv, 11, 11, 7)
<1>1. b_type(opcode, f3, rs1, rs2, immv) = rest \cup imms
  BY DEF b_type
<1>2. rest \subseteq 0 .. 6 \cup 12 .. 24
  BY Fixed, AtInField
<1>3. \A e : e \in imms <=> \/ e = 31 /\ 12 \in immv
                            \/ e \in 25 .. 30 /\ e - 20 \in immv
                            \/ e \in 8 .. 11 /\ e - 7 \in immv
                            \/ e = 7 /\ 11 \in immv
  BY DEF Move
<1>4. ASSUME NEW w, \A e : e \in w <=> e \in rest \/ e \in imms
      PROVE  b_imm(w) = immv
  <2> HIDE DEF rest, imms
  <2>1. /\ 31 \in w <=> 12 \in immv
        /\ \A e \in 5 .. 10 : e + 20 \in w <=> e \in immv
        /\ \A e \in 1 .. 4 : e + 7 \in w <=> e \in immv
        /\ 7 \in w <=> 11 \in immv
    BY <1>2, <1>3, <1>4
  <2>2. \A e : e \in b_imm(w) <=> \/ e = 12 /\ 31 \in w
                                  \/ e \in 5 .. 10 /\ e + 20 \in w
                                  \/ e \in 1 .. 4 /\ e + 7 \in w
                                  \/ e = 11 /\ 7 \in w
    BY DEF b_imm, Move
  <2>3. \A e \in immv : e = 12 \/ e = 11 \/ e \in 5 .. 10 \/ e \in 1 .. 4
    OBVIOUS
  <2>4. ASSUME NEW e \in b_imm(w) PROVE e \in immv
    BY <2>1, <2>2, <2>4
  <2>5. ASSUME NEW e \in immv PROVE e \in b_imm(w)
    BY <2>1, <2>2, <2>3, <2>5
  <2> QED
    BY <2>4, <2>5
<1> QED
  BY <1>1, <1>4

\* The offset of a store, split by s_type into imm11_5 and imm4_0.
THEOREM StoreRoundTrip ==
  ASSUME NEW opcode, NEW f3, NEW rs1, NEW rs2, NEW immv \in SUBSET (0 .. 11)
  PROVE  s_imm(s_type(opcode, f3, rs1, rs2, immv)) = immv
<1> DEFINE rest == At(opcode, 7, 0) \cup At(f3, 3, 12) \cup At(rs1, 5, 15) \cup At(rs2, 5, 20)
           imms == Move(immv, 11, 5, 25) \cup Move(immv, 4, 0, 7)
<1>1. s_type(opcode, f3, rs1, rs2, immv) = rest \cup imms
  BY DEF s_type
<1>2. rest \subseteq 0 .. 6 \cup 12 .. 24
  BY Fixed, AtInField
<1>3. \A e : e \in imms <=> \/ e \in 25 .. 31 /\ e - 20 \in immv
                            \/ e \in 7 .. 11 /\ e - 7 \in immv
  BY DEF Move
<1>4. ASSUME NEW w, \A e : e \in w <=> e \in rest \/ e \in imms
      PROVE  s_imm(w) = immv
  <2> HIDE DEF rest, imms
  <2>1. /\ \A e \in 5 .. 11 : e + 20 \in w <=> e \in immv
        /\ \A e \in 0 .. 4 : e + 7 \in w <=> e \in immv
    BY <1>2, <1>3, <1>4
  <2>2. \A e : e \in s_imm(w) <=> \/ e \in 5 .. 11 /\ e + 20 \in w
                                  \/ e \in 0 .. 4 /\ e + 7 \in w
    BY DEF s_imm, Move
  <2>3. \A e \in immv : e \in 5 .. 11 \/ e \in 0 .. 4
    OBVIOUS
  <2>4. ASSUME NEW e \in s_imm(w) PROVE e \in immv
    BY <2>1, <2>2, <2>4
  <2>5. ASSUME NEW e \in immv PROVE e \in s_imm(w)
    BY <2>1, <2>2, <2>3, <2>5
  <2> QED
    BY <2>4, <2>5
<1> QED
  BY <1>1, <1>4

\* The immediate of an I-format word.
THEOREM ImmediateRoundTrip ==
  ASSUME NEW opcode, NEW f3, NEW rd, NEW rs1, NEW immv \in SUBSET (0 .. 11)
  PROVE  i_imm(i_type(opcode, f3, rd, rs1, immv)) = immv
<1> DEFINE rest == At(opcode, 7, 0) \cup At(rd, 5, 7) \cup At(f3, 3, 12) \cup At(rs1, 5, 15)
           imms == Move(immv, 11, 0, 20)
<1>1. i_type(opcode, f3, rd, rs1, immv) = rest \cup imms
  BY DEF i_type, Base
<1>2. rest \subseteq 0 .. 19
  BY Fixed, AtInField
<1>3. \A e : e \in imms <=> e \in 20 .. 31 /\ e - 20 \in immv
  BY DEF Move
<1>4. ASSUME NEW w, \A e : e \in w <=> e \in rest \/ e \in imms
      PROVE  i_imm(w) = immv
  <2> HIDE DEF rest, imms
  <2>1. \A e \in 0 .. 11 : e + 20 \in w <=> e \in immv
    BY <1>2, <1>3, <1>4
  <2>2. \A e : e \in i_imm(w) <=> e \in 0 .. 11 /\ e + 20 \in w
    BY DEF i_imm, Field, Move
  <2>3. \A e \in immv : e \in 0 .. 11
    OBVIOUS
  <2>4. ASSUME NEW e \in i_imm(w) PROVE e \in immv
    BY <2>1, <2>2, <2>4
  <2>5. ASSUME NEW e \in immv PROVE e \in i_imm(w)
    BY <2>1, <2>2, <2>3, <2>5
  <2> QED
    BY <2>4, <2>5
<1> QED
  BY <1>1, <1>4

\* The distance of a jump, which j_type scatters in four pieces.
THEOREM JumpRoundTrip ==
  ASSUME NEW opcode, NEW rd, NEW immv \in SUBSET (1 .. 20)
  PROVE  j_imm(j_type(opcode, rd, immv)) = immv
<1> DEFINE rest == At(opcode, 7, 0) \cup At(rd, 5, 7)
           imms == Move(immv, 20, 20, 31) \cup Move(immv, 10, 1, 21)
                     \cup Move(immv, 11, 11, 20) \cup Move(immv, 19, 12, 12)
<1>1. j_type(opcode, rd, immv) = rest \cup imms
  BY DEF j_type
<1>2. rest \subseteq 0 .. 11
  BY Fixed, AtInField
<1>3. \A e : e \in imms <=> \/ e = 31 /\ 20 \in immv
                            \/ e \in 21 .. 30 /\ e - 20 \in immv
                            \/ e = 20 /\ 11 \in immv
                            \/ e \in 12 .. 19 /\ e \in immv
  BY DEF Move
<1>4. ASSUME NEW w, \A e : e \in w <=> e \in rest \/ e \in imms
      PROVE  j_imm(w) = immv
  <2> HIDE DEF rest, imms
  <2>1. /\ 31 \in w <=> 20 \in immv
        /\ \A e \in 1 .. 10 : e + 20 \in w <=> e \in immv
        /\ 20 \in w <=> 11 \in immv
        /\ \A e \in 12 .. 19 : e \in w <=> e \in immv
    BY <1>2, <1>3, <1>4
  <2>2. \A e : e \in j_imm(w) <=> \/ e = 20 /\ 31 \in w
                                  \/ e \in 1 .. 10 /\ e + 20 \in w
                                  \/ e = 11 /\ 20 \in w
                                  \/ e \in 12 .. 19 /\ e \in w
    BY DEF j_imm, Move
  <2>3. \A e \in immv : e = 20 \/ e \in 12 .. 19 \/ e = 11 \/ e \in 1 .. 10
    OBVIOUS
  <2>4. ASSUME NEW e \in j_imm(w) PROVE e \in immv
    BY <2>1, <2>2, <2>4
  <2>5. ASSUME NEW e \in immv PROVE e \in j_imm(w)
    BY <2>1, <2>2, <2>3, <2>5
  <2> QED
    BY <2>4, <2>5
<1> QED
  BY <1>1, <1>4

\* The eleven bits of a compressed jump, which c_j scatters in eight pieces, are
\* gathered and sign-extended by compressed_decoder.v to the offset put in.
THEOREM CompressedJumpRoundTrip ==
  ASSUME NEW o \in SUBSET (1 .. 11)
  PROVE  j_offset(c_j(o)) = Extend(o, 12, 21)
<1> DEFINE rest == At(1, 2, 0) \cup At(5, 3, 13)
           imms == Move(o, 11, 11, 12) \cup Move(o, 4, 4, 11) \cup Move(o, 9, 8, 9)
                     \cup Move(o, 10, 10, 8) \cup Move(o, 6, 6, 7) \cup Move(o, 7, 7, 6)
                     \cup Move(o, 3, 1, 3) \cup Move(o, 5, 5, 2)
<1>1. c_j(o) = rest \cup imms
  BY DEF c_j, C
<1>2. rest \subseteq 0 .. 1 \cup 13 .. 15
  BY Fixed, AtInField
<1>3. \A e : e \in imms <=> \/ e = 12 /\ 11 \in o
                            \/ e = 11 /\ 4 \in o
                            \/ e \in 9 .. 10 /\ e - 1 \in o
                            \/ e = 8 /\ 10 \in o
                            \/ e = 7 /\ 6 \in o
                            \/ e = 6 /\ 7 \in o
                            \/ e \in 3 .. 5 /\ e - 2 \in o
                            \/ e = 2 /\ 5 \in o
  BY DEF Move
<1>4. ASSUME NEW w, \A e : e \in w <=> e \in rest \/ e \in imms
      PROVE  GatherJ(w) = o
  <2> HIDE DEF rest, imms
  <2>1. /\ 12 \in w <=> 11 \in o
        /\ 11 \in w <=> 4 \in o
        /\ \A e \in 8 .. 9 : e + 1 \in w <=> e \in o
        /\ 8 \in w <=> 10 \in o
        /\ 7 \in w <=> 6 \in o
        /\ 6 \in w <=> 7 \in o
        /\ \A e \in 1 .. 3 : e + 2 \in w <=> e \in o
        /\ 2 \in w <=> 5 \in o
    BY <1>2, <1>3, <1>4
  <2>2. \A e : e \in GatherJ(w) <=> \/ e = 11 /\ 12 \in w
                                    \/ e = 4 /\ 11 \in w
                                    \/ e \in 8 .. 9 /\ e + 1 \in w
                                    \/ e = 10 /\ 8 \in w
                                    \/ e = 6 /\ 7 \in w
                                    \/ e = 7 /\ 6 \in w
                                    \/ e \in 1 .. 3 /\ e + 2 \in w
                                    \/ e = 5 /\ 2 \in w
    BY DEF GatherJ, Move
  <2>3. \A e \in o : e = 11 \/ e = 10 \/ e \in 8 .. 9 \/ e = 7 \/ e = 6 \/ e = 5 \/ e = 4 \/ e \in 1 .. 3
    OBVIOUS
  <2>4. ASSUME NEW e \in GatherJ(w) PROVE e \in o
    BY <2>1, <2>2, <2>4
  <2>5. ASSUME NEW e \in o PROVE e \in GatherJ(w)
    BY <2>1, <2>2, <2>3, <2>5
  <2> QED
    BY <2>4, <2>5
<1> QED
  BY <1>1, <1>4 DEF j_offset

\* The same for the eight bits of a compressed branch.
THEOREM CompressedBranchRoundTrip ==
  ASSUME NEW f3, NEW rs1, NEW o \in SUBSET (1 .. 8)
  PROVE  b_offset(c_branch(f3, rs1, o)) = Extend(o, 9, 13)
<1> DEFINE rest == At(1, 2, 0) \cup At(f3, 3, 13) \cup At(rs1 - 8, 3, 7)
           imms == Move(o, 8, 8, 12) \cup Move(o, 4, 3, 10) \cup Move(o, 7, 6, 5)
                     \cup Move(o, 2, 1, 3) \cup Move(o, 5, 5, 2)
<1>1. c_branch(f3, rs1, o) = rest \cup imms
  BY DEF c_branch, C, creg
<1>2. rest \subseteq 0 .. 1 \cup 7 .. 9 \cup 13 .. 15
  BY Fixed, AtInField
<1>3. \A e : e \in imms <=> \/ e = 12 /\ 8 \in o
                            \/ e \in 10 .. 11 /\ e - 7 \in o
                            \/ e \in 5 .. 6 /\ e + 1 \in o
                            \/ e \in 3 .. 4 /\ e - 2 \in o
                            \/ e = 2 /\ 5 \in o
  BY DEF Move
<1>4. ASSUME NEW w, \A e : e \in w <=> e \in rest \/ e \in imms
      PROVE  GatherB(w) = o
  <2> HIDE DEF rest, imms
  <2>1. /\ 12 \in w <=> 8 \in o
        /\ \A e \in 3 .. 4 : e + 7 \in w <=> e \in o
        /\ \A e \in 6 .. 7 : e - 1 \in w <=> e \in o
        /\ \A e \in 1 .. 2 : e + 2 \in w <=> e \in o
        /\ 2 \in w <=> 5 \in o
    BY <1>2, <1>3, <1>4
  <2>2. \A e : e \in GatherB(w) <=> \/ e = 8 /\ 12 \in w
                                    \/ e \in 3 .. 4 /\ e + 7 \in w
                                    \/ e \in 6 .. 7 /\ e - 1 \in w
                                    \/ e \in 1 .. 2 /\ e + 2 \in w
                                    \/ e = 5 /\ 2 \in w
    BY DEF GatherB, Move
  <2>3. \A e \in o : e = 8 \/ e \in 6 .. 7 \/ e = 5 \/ e \in 3 .. 4 \/ e \in 1 .. 2
    OBVIOUS
  <2>4. ASSUME NEW e \in GatherB(w) PROVE e \in o
    BY <2>1, <2>2, <2>4
  <2>5. ASSUME NEW e \in o PROVE e \in GatherB(w)
    BY <2>1, <2>2, <2>3, <2>5
  <2> QED
    BY <2>4, <2>5
<1> QED
  BY <1>1, <1>4 DEF b_offset

\* The branch mk_b of compressed_decoder.v builds reads back as its offset.
THEOREM ExpandedBranchRoundTrip ==
  ASSUME NEW f3, NEW rs1, NEW immv \in SUBSET (1 .. 12)
  PROVE  b_imm(mk_b(f3, rs1, immv)) = immv
<1> DEFINE rest == At(99, 7, 0) \cup At(f3, 3, 12) \cup At(rs1, 5, 15)
           imms == Move(immv, 12, 12, 31) \cup Move(immv, 10, 5, 25)
                     \cup Move(immv, 4, 1, 8) \cup Move(immv, 11, 11, 7)
<1>1. mk_b(f3, rs1, immv) = rest \cup imms
  BY DEF mk_b
<1>2. rest \subseteq 0 .. 6 \cup 12 .. 24
  BY Fixed, AtInField
<1>3. \A e : e \in imms <=> \/ e = 31 /\ 12 \in immv
                            \/ e \in 25 .. 30 /\ e - 20 \in immv
                            \/ e \in 8 .. 11 /\ e - 7 \in immv
                            \/ e = 7 /\ 11 \in immv
  BY DEF Move
<1>4. ASSUME NEW w, \A e : e \in w <=> e \in rest \/ e \in imms
      PROVE  b_imm(w) = immv
  <2> HIDE DEF rest, imms
  <2>1. /\ 31 \in w <=> 12 \in immv
        /\ \A e \in 5 .. 10 : e + 20 \in w <=> e \in immv
        /\ \A e \in 1 .. 4 : e + 7 \in w <=> e \in immv
        /\ 7 \in w <=> 11 \in immv
    BY <1>2, <1>3, <1>4
  <2>2. \A e : e \in b_imm(w) <=> \/ e = 12 /\ 31 \in w
                                  \/ e \in 5 .. 10 /\ e + 20 \in w
                                  \/ e \in 1 .. 4 /\ e + 7 \in w
                                  \/ e = 11 /\ 7 \in w
    BY DEF b_imm, Move
  <2>3. \A e \in immv : e = 12 \/ e = 11 \/ e \in 5 .. 10 \/ e \in 1 .. 4
    OBVIOUS
  <2>4. ASSUME NEW e \in b_imm(w) PROVE e \in immv
    BY <2>1, <2>2, <2>4
  <2>5. ASSUME NEW e \in immv PROVE e \in b_imm(w)
    BY <2>1, <2>2, <2>3, <2>5
  <2> QED
    BY <2>4, <2>5
<1> QED
  BY <1>1, <1>4

\* The jump mk_j builds reads back as its offset.
THEOREM ExpandedJumpRoundTrip ==
  ASSUME NEW immv \in SUBSET (1 .. 20)
  PROVE  j_imm(mk_j(immv)) = immv
<1> DEFINE rest == At(111, 7, 0)
           imms == Move(immv, 20, 20, 31) \cup Move(immv, 10, 1, 21)
                     \cup Move(immv, 11, 11, 20) \cup Move(immv, 19, 12, 12)
<1>1. mk_j(immv) = rest \cup imms
  BY DEF mk_j
<1>2. rest \subseteq 0 .. 11
  BY Fixed, AtInField
<1>3. \A e : e \in imms <=> \/ e = 31 /\ 20 \in immv
                            \/ e \in 21 .. 30 /\ e - 20 \in immv
                            \/ e = 20 /\ 11 \in immv
                            \/ e \in 12 .. 19 /\ e \in immv
  BY DEF Move
<1>4. ASSUME NEW w, \A e : e \in w <=> e \in rest \/ e \in imms
      PROVE  j_imm(w) = immv
  <2> HIDE DEF rest, imms
  <2>1. /\ 31 \in w <=> 20 \in immv
        /\ \A e \in 1 .. 10 : e + 20 \in w <=> e \in immv
        /\ 20 \in w <=> 11 \in immv
        /\ \A e \in 12 .. 19 : e \in w <=> e \in immv
    BY <1>2, <1>3, <1>4
  <2>2. \A e : e \in j_imm(w) <=> \/ e = 20 /\ 31 \in w
                                  \/ e \in 1 .. 10 /\ e + 20 \in w
                                  \/ e = 11 /\ 20 \in w
                                  \/ e \in 12 .. 19 /\ e \in w
    BY DEF j_imm, Move
  <2>3. \A e \in immv : e = 20 \/ e \in 12 .. 19 \/ e = 11 \/ e \in 1 .. 10
    OBVIOUS
  <2>4. ASSUME NEW e \in j_imm(w) PROVE e \in immv
    BY <2>1, <2>2, <2>4
  <2>5. ASSUME NEW e \in immv PROVE e \in j_imm(w)
    BY <2>1, <2>2, <2>3, <2>5
  <2> QED
    BY <2>4, <2>5
<1> QED
  BY <1>1, <1>4

\* From source to core: a compressed branch of offset o, expanded and
\* decoded, goes exactly as far as o says, whatever o is.
THEOREM CompressedBranchReaches ==
  ASSUME NEW f3, NEW g3, NEW rs1, NEW rs, NEW o \in SUBSET (1 .. 8)
  PROVE  b_imm(mk_b(g3, rs, b_offset(c_branch(f3, rs1, o)))) = Extend(o, 9, 13)
<1>1. Extend(o, 9, 13) \in SUBSET (1 .. 12)
  BY DEF Extend
<1> QED
  BY <1>1, CompressedBranchRoundTrip, ExpandedBranchRoundTrip

\* The same for a jump.
THEOREM CompressedJumpReaches ==
  ASSUME NEW o \in SUBSET (1 .. 11)
  PROVE  j_imm(mk_j(j_offset(c_j(o)))) = Extend(o, 12, 21)
<1>1. Extend(o, 12, 21) \in SUBSET (1 .. 20)
  BY DEF Extend
<1> QED
  BY <1>1, CompressedJumpRoundTrip, ExpandedJumpRoundTrip
=============================================================================
