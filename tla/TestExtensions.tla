--------------------------- MODULE TestExtensions --------------------------
(***************************************************************************)
(* The suites of the M, A and C extensions for the single-cycle core:      *)
(* RV64I/verify/build_tests_m.py, build_tests_a.py and build_tests_c.py.   *)
(***************************************************************************)
EXTENDS TestPrograms

MIN_INT64 == {63}

----------------------------------------------------------------------------
(* M: multiplication and division. *)

t_mul ==
  <<li(1, 6), li(2, 7), <<"mul", 3, 1, 2>>, eq(3, 42),
    li(1, -6), li(2, 7), <<"mul", 3, 1, 2>>, eq(3, -42),
    li(1, -6), li(2, -7), <<"mul", 3, 1, 2>>, eq(3, 42),
    lui64(1, 0 .. 30), <<"slli", 1, 1, 32>>, lui64(4, 0 .. 31), <<"or", 1, 1, 4>>, <<"mul", 3, 1, 1>> >>

t_mulh ==
  <<li(1, -1), <<"mulhu", 3, 1, 1>>, eqw(3, 1 .. 63), li(1, -1), <<"mulh", 3, 1, 1>>, eq(3, 0),
    li(1, -1), <<"mulhsu", 3, 1, 1>>, eqw(3, ONES),
    li(1, -2), lui64(2, 0 .. 30), <<"slli", 2, 2, 32>>, <<"mulh", 3, 1, 2>>, <<"mulhu", 4, 1, 2>>,
    eqw(3, ONES), eqw(4, 0 .. 62 \ {32})>>

t_div_rem ==
  <<li(1, 17), li(2, 5), <<"div", 3, 1, 2>>, <<"rem", 4, 1, 2>>, eq(3, 3), eq(4, 2),
    li(1, -17), li(2, 5), <<"div", 3, 1, 2>>, <<"rem", 4, 1, 2>>, eq(3, -3), eq(4, -2),
    li(1, 42), li(2, 0), <<"div", 3, 1, 2>>, <<"divu", 4, 1, 2>>, <<"rem", 5, 1, 2>>,
    <<"remu", 6, 1, 2>>, eqw(3, ONES), eqw(4, ONES), eq(5, 42), eq(6, 42),
    lui64(1, {31}), <<"slli", 1, 1, 32>>, li(2, -1), <<"div", 3, 1, 2>>, <<"rem", 4, 1, 2>>,
    eqw(3, MIN_INT64), eq(4, 0),
    li(1, -1), li(2, 2), <<"divu", 3, 1, 2>>, <<"remu", 4, 1, 2>>, eqw(3, 0 .. 62), eq(4, 1)>>

m_word_ops ==
  <<li(1, 65536), li(2, 65536), <<"mulw", 3, 1, 2>>, eq(3, 0),
    li(1, 200000), li(2, 100000), <<"mulw", 3, 1, 2>>, eq(3, -1474836480),
    lui64(1, {31}), li(2, -1), <<"divw", 3, 1, 2>>, <<"remw", 4, 1, 2>>, eqw(3, 31 .. 63), eq(4, 0),
    li(1, 7), li(2, 0), <<"divw", 3, 1, 2>>, <<"remw", 4, 1, 2>>, eqw(3, ONES), eq(4, 7)>>

t_app_factorial_real_mul ==
  <<li(1, 15), li(2, 1), at("loop"), <<"beq", 1, 0, "done">>, <<"mul", 2, 2, 1>>,
    <<"addi", 1, 1, -1>>, j("loop"), at("done"), eqw(2, Halves64(Word32(304), Word32(2004310016)))>>

----------------------------------------------------------------------------
(* A: read-modify-write and load-reserved, store-conditional. *)

DOUBLE == [load |-> "ld", store |-> "sd"]
SINGLE == [load |-> "lw", store |-> "sw"]
amo_d(op, rd, rs2, rs1) == <<"amo", op, DOUBLE, rd, rs2, rs1>>
amo_w(op, rd, rs2, rs1) == <<"amo", op, SINGLE, rd, rs2, rs1>>

\* rs2 onto the n stored at address a, and what memory has then.
OnTo(op, a, n, rs2) ==
  <<li(2, a), li(1, n), <<"sd", 1, 0, 2>>, li(3, rs2), amo_d(op, 4, 3, 2), <<"ld", 5, 0, 2>> >>

t_amo_arith ==
  <<li(1, 100), li(2, 0), <<"sd", 1, 0, 2>>, li(3, 5), amo_d("add", 4, 3, 2), <<"ld", 5, 0, 2>>,
    eq(4, 100), eq(5, 105),
    li(1, 7), li(2, 8), <<"sd", 1, 8, 2>>, li(3, 99), <<"addi", 6, 2, 8>>, amo_d("swap", 4, 3, 6),
    <<"ld", 5, 8, 2>>, eq(4, 7), eq(5, 99)>>
  \o OnTo("xor", 16, 240, 15) \o <<eq(4, 240), eq(5, 255)>>
  \o OnTo("and", 24, 255, 15) \o <<eq(5, 15)>> \o OnTo("or", 32, 240, 15) \o <<eq(5, 255)>>

t_amo_minmax ==
  OnTo("min", 0, -1, 1) \o <<eqw(5, ONES)>> \o OnTo("minu", 8, -1, 1) \o <<eq(5, 1)>>
    \o OnTo("max", 16, -1, 1) \o <<eq(5, 1)>> \o OnTo("maxu", 24, -1, 1) \o <<eqw(5, ONES)>>

t_amo_word ==
  <<li(2, 0), lui64(1, {31}), li(6, 5), <<"slli", 6, 6, 32>>, <<"or", 1, 1, 6>>, <<"sd", 1, 0, 2>>,
    li(3, 1), amo_w("add", 4, 3, 2), <<"ld", 5, 0, 2>>, eqw(4, 31 .. 63), eqw(5, {0, 31, 32, 34})>>

Reserve == <<li(1, 42), <<"sd", 1, 0, 2>>, <<"lr.d", 3, 2>> >>

t_lr_sc_success ==
  <<li(2, 0)>> \o Reserve
    \o <<li(4, 99), <<"sc.d", 5, 4, 2>>, <<"ld", 6, 0, 2>>, eq(3, 42), eq(5, 0), eq(6, 99)>>

t_lr_sc_fail_other_store ==
  <<li(2, 0)>> \o Reserve
    \o <<li(7, 0), li(8, 999), <<"sd", 8, 8, 7>>, li(4, 99), <<"sc.d", 5, 4, 2>>, <<"ld", 6, 0, 2>>,
         eq(5, 1), eq(6, 42)>>

t_lr_sc_fail_wrong_addr ==
  <<li(2, 0), li(9, 8), li(1, 42), <<"sd", 1, 0, 2>>, li(1, 77), <<"sd", 1, 8, 2>>, <<"lr.d", 3, 2>>,
    li(4, 99), <<"sc.d", 5, 4, 9>>, <<"ld", 6, 0, 2>>, <<"ld", 7, 8, 2>>, eq(5, 1), eq(6, 42), eq(7, 77)>>

----------------------------------------------------------------------------
(* C: each compressed line by the line its decoder expands it to. *)

c_li(rd, imm)      == rvc(<<"addi", rd, 0, imm>>)
c_mv(rd, rs2)      == rvc(<<"add", rd, 0, rs2>>)
c_op(op, rd, rs2)  == rvc(<<op, rd, rd, rs2>>)
c_imm(op, rd, imm) == rvc(<<op, rd, rd, imm>>)
c_j(label)         == rvc(j(label))

t_c_arith ==
  <<c_li(5, 10), c_imm("addi", 5, 5), c_li(6, 0), c_mv(6, 5), c_op("add", 6, 5), eq(6, 30),
    c_li(8, 20), c_li(9, 8), c_op("sub", 8, 9), eq(8, 12),
    li(1, 240), c_mv(10, 1), li(1, 15), c_mv(11, 1), c_op("xor", 10, 11), eq(10, 255),
    li(1, 240), c_mv(10, 1), li(1, 255), c_mv(11, 1), c_op("and", 10, 11), eq(10, 240),
    li(1, 240), c_mv(10, 1), li(1, 15), c_mv(11, 1), c_op("or", 10, 11), eq(10, 255)>>

t_c_word_ops ==
  <<li(1, 100), c_mv(5, 1), c_imm("addiw", 5, 23), eq(5, 123),
    li(1, 100), c_mv(8, 1), c_li(9, 23), c_op("addw", 8, 9), eq(8, 123),
    li(1, 100), c_mv(8, 1), c_li(9, 23), c_op("subw", 8, 9), eq(8, 77),
    lui64(1, 0 .. 30), c_mv(8, 1), c_li(9, 1), c_op("addw", 8, 9), eqw(8, 31 .. 63)>>

t_c_shift_upper ==
  <<c_li(5, 1), c_imm("slli", 5, 10), eq(5, 1024), li(1, 128), c_mv(8, 1), c_imm("srli", 8, 4), eq(8, 8),
    lui64(1, {63}), c_mv(8, 1), c_imm("srai", 8, 4), eqw(8, 59 .. 63),
    li(1, 255), c_mv(8, 1), c_imm("andi", 8, 15), eq(8, 15), rvc(<<"lui", 5, 5>>), eq(5, 20480),
    c_mv(9, 2), c_imm("addi", 2, -32), <<"addi", 10, 2, 32>>, c_mv(2, 9), eq(10, 0)>>

t_c_mem ==
  <<rvc(<<"addi", 8, 2, 16>>), li(1, 4660), c_mv(9, 1), rvc(<<"sw", 9, 0, 8>>), rvc(<<"lw", 10, 0, 8>>),
    eq(10, 4660),
    rvc(<<"addi", 8, 2, 24>>), lui64(1, Halves64(W1, W2)), <<"sd", 1, 0, 8>>, rvc(<<"ld", 9, 0, 8>>),
    eqw(9, Halves64(W1, W2)),
    li(1, 43981), c_mv(5, 1), rvc(<<"sw", 5, 32, 2>>), rvc(<<"lw", 6, 32, 2>>), eq(6, 43981),
    lui64(1, Halves64(W1, W2)), rvc(<<"sd", 1, 40, 2>>), rvc(<<"ld", 7, 40, 2>>), eqw(7, Halves64(W1, W2))>>

\* The label bad is there twice: the first branch means the first of them.
t_c_branch_jump ==
  <<c_li(8, 0), c_li(9, 5), rvc(<<"beq", 9, 0, "bad">>), c_li(8, 1), c_j("done"), at("bad"), c_li(8, 2),
    at("done"), eq(8, 1),
    c_li(8, 0), c_li(9, 0), rvc(<<"bne", 9, 0, "bad">>), c_li(8, 1), c_j("done2"), at("bad"), c_li(8, 2),
    at("done2"), eq(8, 1),
    c_li(10, 0), <<"auipc", 11, 0>>, <<"addi", 11, 11, 14>>, rvc(<<"jalr", 0, 11, 0>>), c_li(10, 1),
    c_j("jr_done"), c_li(10, 2), at("jr_done"), eq(10, 2)>>

t_c_mixed_program ==
  <<li(8, 462), li(9, 1071), at("loop"), <<"beq", 8, 9, "done">>, <<"blt", 8, 9, "swap">>,
    c_op("sub", 8, 9), c_j("loop"), at("swap"), <<"sub", 9, 9, 8>>, c_j("loop"), at("done"), eq(8, 21)>>

----------------------------------------------------------------------------

SuiteMAC ==
  [m_mul |-> Test64(t_mul, <<>>), m_mulh |-> Test64(t_mulh, <<>>), m_div_rem |-> Test64(t_div_rem, <<>>),
   m_word |-> Test64(m_word_ops, <<>>), m_app_factorial |-> Test64(t_app_factorial_real_mul, <<>>),
   a_amo_arith |-> Test64(t_amo_arith, <<>>), a_amo_minmax |-> Test64(t_amo_minmax, <<>>),
   a_amo_word |-> Test64(t_amo_word, <<>>), a_lr_sc_success |-> Test64(t_lr_sc_success, <<>>),
   a_lr_sc_fail_store |-> Test64(t_lr_sc_fail_other_store, <<>>),
   a_lr_sc_fail_addr |-> Test64(t_lr_sc_fail_wrong_addr, <<>>),
   c_arith |-> Test64(t_c_arith, <<>>), c_word_ops |-> Test64(t_c_word_ops, <<>>),
   c_shift_upper |-> Test64(t_c_shift_upper, <<>>), c_mem |-> Test64(t_c_mem, <<>>),
   c_branch_jump |-> [Test64(t_c_branch_jump, <<>>) EXCEPT !.twice = {"bad"}],
   c_mixed_gcd |-> Test64(t_c_mixed_program, <<>>)]
=============================================================================
