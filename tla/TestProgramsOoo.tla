-------------------------- MODULE TestProgramsOoo --------------------------
(***************************************************************************)
(* The directed tests of RV64I_OOO/verify/build_tests_ooo.py, for the out- *)
(* of-order SMT core: the bodies their functions build, the jobs           *)
(* build_and_run, run_branch_free, run_vec_test and run_smt_test make of   *)
(* them, and the broken cores their comments say they would expose.        *)
(***************************************************************************)
EXTENDS TestExtensions

----------------------------------------------------------------------------
(* Integer arithmetic, with its result read from the register dump. *)

t_single_alu == <<li(5, 7), li(6, 3), <<"add", 7, 5, 6>> >>
t_raw_chain  == <<li(5, 1), <<"addi", 6, 5, 1>>, <<"addi", 7, 6, 1>>, <<"addi", 8, 7, 1>>,
                  <<"addi", 9, 8, 1>> >>
t_word_add   == <<lui64(5, 0 .. 30), <<"addiw", 6, 5, 1>> >>

(* Branches, calls and returns. *)

t_branch_taken_not_taken ==
  <<li(5, 5), li(6, 5), <<"beq", 5, 6, "taken">>, li(7, 111), j("after"), at("taken"), li(7, 222),
    at("after"), li(8, 5), li(9, 6), <<"bne", 8, 9, "taken2">>, li(10, 333), j("after2"),
    at("taken2"), li(10, 444), at("after2"), eq(7, 222), eq(10, 444)>>

\* A call through link to func, which returns by jalr x0, link, skip.
call(link, start, cont, func, skip, end) ==
  <<li(5, start), <<"jal", link, "funcA">>, <<"addi", 5, 5, cont>>, j("end"),
    at("funcA"), <<"addi", 5, 5, func>>, <<"jalr", 0, link, skip>>, at("end"), eq(5, end)>>

t_jal_jalr == call(1, 10, 1000, 5, 0, 1015)

t_ras_nested_calls ==
  <<li(5, 1), <<"jal", 1, "funcA">>, <<"addi", 5, 5, 1000>>, j("end"),
    at("funcA"), <<"addi", 9, 1, 0>>, <<"addi", 5, 5, 10>>, <<"jal", 1, "funcB">>,
    <<"addi", 5, 5, 100>>, <<"addi", 1, 9, 0>>, <<"jalr", 0, 1, 0>>,
    at("funcB"), <<"addi", 5, 5, 2>>, <<"jalr", 0, 1, 0>>, at("end"), eq(5, 1113)>>

\* Mutant of t_ras_misprediction: an ordinary return.
t_ras_prediction == call(1, 1, 1000, 10, 0, 1011)

\* Returns one instruction further than the return address stack says.
t_ras_misprediction    == call(1, 1, 1000, 10, 4, 11)
t_ras_nonlink_fallback == call(2, 1, 1000, 10, 0, 1011)

t_btb_indirect_call ==
  <<li(5, 1), li(6, 0), <<"jal", 3, "loop_start">>, at("jt"), <<"addi", 5, 5, 10>>, j("loop_end"),
    at("loop_start"), <<"addi", 6, 6, 1>>, <<"jalr", 2, 3, 0>>, at("loop_end"), li(7, 2),
    <<"bne", 6, 7, "loop_start">>, eq(5, 21), eq(6, 2)>>

t_btb_misprediction ==
  <<li(5, 1), li(6, 0), <<"jal", 2, "past_a">>, at("jt_a"), <<"addi", 5, 5, 10>>, j("loop_end"),
    at("past_a"), <<"jal", 4, "past_b">>, at("jt_b"), <<"addi", 5, 5, 200>>, j("loop_end"),
    at("past_b"), <<"addi", 3, 2, 0>>, at("loop_start"), <<"addi", 6, 6, 1>>, li(7, 1),
    <<"beq", 6, 7, "use_a">>, <<"addi", 9, 4, 0>>, j("do_jump"), at("use_a"), <<"addi", 9, 3, 0>>,
    at("do_jump"), <<"jalr", 2, 9, 0>>, at("loop_end"), li(8, 2), <<"bne", 6, 8, "loop_start">>,
    eq(5, 211), eq(6, 2)>>

(* Hazards between registers. *)

t_war_hazard ==
  <<li(5, 100), <<"addi", 7, 5, 0>>, <<"addi", 10, 0, 1>>, <<"addi", 11, 10, 1>>,
    <<"addi", 12, 11, 1>>, <<"addi", 13, 12, 1>>, li(5, 999), eq(7, 100), eq(5, 999)>>

t_waw_hazard ==
  <<li(5, 1), <<"addi", 5, 5, 1>>, <<"addi", 5, 5, 1>>, <<"addi", 3, 5, 0>>, li(3, 777), eq(3, 777)>>

t_backward_branch_loop ==
  <<li(5, 0), li(6, 1), at("loop"), <<"add", 5, 5, 6>>, <<"addi", 6, 6, 1>>, li(7, 6),
    <<"bne", 6, 7, "loop">>, eq(5, 15)>>

t_stable_operand_loop ==
  <<li(10, 5), li(5, 0), li(6, 1), at("loop"), <<"add", 5, 5, 6>>, <<"addi", 6, 6, 1>>,
    <<"bne", 6, 10, "loop">>, eq(5, 10)>>

t_dual_intra_forward ==
  <<li(5, 10), <<"add", 6, 5, 5>>, <<"add", 7, 6, 6>>, eq(6, 20), eq(7, 40)>>
t_dual_intra_waw == <<li(5, 1), <<"addi", 6, 5, 100>>, <<"addi", 6, 5, 200>>, eq(6, 201)>>

\* x10 .. x_last = a + b, and a look at the last of them.
adds(a, b, last) ==
  <<li(1, a), li(2, b)>> \o [i \in 1 .. last - 9 |-> <<"add", 9 + i, 1, 2>>] \o <<eq(last, a + b)>>

t_dual_issue_throughput == adds(1, 2, 17)

(* Multiplication and division. *)

t_mul_basic ==
  <<li(5, 6), li(6, 7), <<"mul", 7, 5, 6>>, li(8, -3), <<"mulh", 9, 8, 6>>, lui64(10, ONES),
    <<"mulhu", 11, 10, 6>>, <<"mulhsu", 12, 8, 6>>, eq(7, 42), eq(9, -1), eq(11, 6), eq(12, -1)>>

t_mulw == <<lui64(5, {0, 32}), li(6, 3), <<"mulw", 7, 5, 6>>, eq(7, 3)>>

t_mul_rs_exhaustion ==
  <<li(5, 2), li(6, 3), li(7, 4), li(8, 5), li(9, 6), li(10, 7), <<"mul", 11, 5, 6>>,
    <<"mul", 12, 7, 8>>, <<"mul", 13, 9, 10>>, eq(11, 6), eq(12, 20), eq(13, 42)>>

t_div_basic ==
  <<li(5, 100), li(6, 7), <<"div", 7, 5, 6>>, <<"rem", 8, 5, 6>>, <<"divu", 9, 5, 6>>,
    <<"remu", 10, 5, 6>>, li(11, -100), <<"div", 12, 11, 6>>, <<"rem", 13, 11, 6>>,
    eq(7, 14), eq(8, 2), eq(9, 14), eq(10, 2), eq(12, -14), eq(13, -2)>>

t_div_by_zero ==
  <<li(5, 42), li(6, 0), <<"div", 7, 5, 6>>, <<"divu", 8, 5, 6>>, <<"rem", 9, 5, 6>>,
    eq(7, -1), eqw(8, ONES), eq(9, 42)>>

t_divw ==
  <<lui64(5, {33} \cup Word(100)), li(6, 7), <<"divw", 7, 5, 6>>, <<"remw", 8, 5, 6>>,
    eq(7, 14), eq(8, 2)>>

t_div_back_to_back ==
  <<li(5, 50), li(6, 5), <<"div", 7, 5, 6>>, li(8, 90), li(9, 9), <<"div", 10, 8, 9>>,
    eq(7, 10), eq(10, 10)>>

t_div_long_latency_overlap ==
  <<li(1, 3), li(2, 4), li(10, 100), li(11, 7), <<"div", 5, 10, 11>>, <<"add", 6, 1, 2>>,
    <<"add", 7, 2, 1>>, <<"add", 8, 6, 7>>, eq(5, 14), eq(6, 7), eq(7, 7), eq(8, 14)>>

(* Memory. *)

t_store_load_alias == <<li(5, 32), li(6, 1234), <<"sd", 6, 0, 5>>, <<"ld", 7, 0, 5>>, eq(7, 1234)>>

t_store_load_no_alias ==
  <<li(5, 32), li(6, 777), <<"sd", 6, 0, 5>>, li(8, 40), li(9, 999), <<"sd", 9, 0, 8>>,
    <<"ld", 10, 0, 8>>, <<"ld", 11, 0, 5>>, eq(10, 999), eq(11, 777)>>

t_store_load_widths ==
  <<li(5, 48), li(6, -1), <<"sb", 6, 0, 5>>, <<"lb", 7, 0, 5>>, <<"lbu", 8, 0, 5>>, li(9, 4660),
    <<"sh", 9, 8, 5>>, <<"lh", 10, 8, 5>>, eq(7, -1), eq(8, 255), eq(10, 4660)>>

(* Mispredicted branches. *)

forward(b, x11, y11, taken) ==
  <<li(5, 5), li(6, b), <<"beq", 5, 6, "taken">>, li(11, x11), j("after"), at("taken"),
    li(11, y11), at("after"), eq(11, IF taken THEN y11 ELSE x11)>>

t_mispredict_forward_taken == forward(5, 999, 42, TRUE)
t_mispredict_not_taken     == forward(6, 42, 999, FALSE)

t_mispredict_squashes_store ==
  <<li(5, 5), li(6, 5), li(20, 80), li(21, 12345), <<"beq", 5, 6, "taken">>, <<"sd", 21, 0, 20>>,
    j("after"), at("taken"), li(22, 1), at("after"), <<"ld", 23, 0, 20>>, eq(23, 0)>>

(* Vectors, read from the dump of v1..v4. *)

Broadcasts(a, b) == <<li(5, a), li(6, b), <<"vmv", 1, 5>>, <<"vmv", 2, 6>> >>
t_vec_add     == Broadcasts(10, 20) \o << <<"vv", "add", 3, 1, 2>> >>
t_vec_sub_mul == Broadcasts(20, 6) \o << <<"vv", "sub", 3, 1, 2>>, <<"vv", "mul", 4, 1, 2>> >>
t_vec_dependency_chain ==
  Broadcasts(3, 4) \o << <<"vv", "add", 3, 1, 2>>, <<"vv", "mul", 4, 3, 1>> >>
t_vec_divide  == Broadcasts(100, 7) \o << <<"vv", "divu", 3, 1, 2>>, <<"vv", "remu", 4, 1, 2>> >>

(* Two programs at once. *)

t_smt_mul    == <<li(5, 6), li(6, 7), <<"mul", 7, 5, 6>>, eq(7, 42)>>
t_smt_loop   == <<li(5, 0), li(6, 1), at("loop"), <<"add", 5, 5, 6>>, <<"addi", 6, 6, 1>>, li(7, 4),
                  <<"bne", 6, 7, "loop">>, eq(5, 6)>>
t_smt_divide == <<li(20, 100), li(21, 7), <<"div", 5, 20, 21>>, eq(5, 14)>>

----------------------------------------------------------------------------
(* Jobs. *)

run_smt_test(body0, body1) ==
  [threads |-> <<source(body0), source(body1)>>, mem |-> <<>>, golden |-> <<>>, scratch |-> {},
   fault |-> "none", twice |-> {}, regs |-> <<>>, vregs |-> <<>>]

build_and_run(body) == [run_smt_test(body, <<>>) EXCEPT !.threads[2] = idle_thread]
run_branch_free(body, reg, word) == [build_and_run(body) EXCEPT !.regs = << <<reg, word>> >>]
run_vec_test(body, expected) ==
  [build_and_run(body) EXCEPT !.vregs = [e \in DOMAIN expected |->
                                          <<expected[e][1], Word32(expected[e][2])>>]]

SuiteOoo ==
  [ooo_single_alu |-> run_branch_free(t_single_alu, 7, Word(10)),
   ooo_raw_chain |-> run_branch_free(t_raw_chain, 9, Word(5)),
   ooo_word_ops |-> run_branch_free(t_word_add, 6, 31 .. 63),
   ooo_vec_add |-> run_vec_test(t_vec_add, << <<1, 10>>, <<2, 20>>, <<3, 30>> >>),
   ooo_vec_sub_mul |-> run_vec_test(t_vec_sub_mul, << <<3, 14>>, <<4, 120>> >>),
   ooo_vec_dependency_chain |-> run_vec_test(t_vec_dependency_chain, << <<3, 7>>, <<4, 21>> >>),
   ooo_vec_divide |-> run_vec_test(t_vec_divide, << <<3, 14>>, <<4, 2>> >>),
   ooo_branch |-> build_and_run(t_branch_taken_not_taken), ooo_jal_jalr |-> build_and_run(t_jal_jalr),
   ooo_ras_nested_calls |-> build_and_run(t_ras_nested_calls),
   ooo_ras_misprediction |-> build_and_run(t_ras_misprediction),
   ooo_ras_nonlink_fallback |-> build_and_run(t_ras_nonlink_fallback),
   ooo_btb_indirect_call |-> build_and_run(t_btb_indirect_call),
   ooo_btb_misprediction |-> build_and_run(t_btb_misprediction),
   ooo_war |-> build_and_run(t_war_hazard), ooo_waw |-> build_and_run(t_waw_hazard),
   ooo_loop |-> build_and_run(t_backward_branch_loop),
   ooo_stable_operand_loop |-> build_and_run(t_stable_operand_loop),
   ooo_mul_basic |-> build_and_run(t_mul_basic), ooo_mulw |-> build_and_run(t_mulw),
   ooo_mul_rs_exhaust |-> build_and_run(t_mul_rs_exhaustion),
   ooo_div_basic |-> build_and_run(t_div_basic), ooo_div_by_zero |-> build_and_run(t_div_by_zero),
   ooo_divw |-> build_and_run(t_divw), ooo_div_back_to_back |-> build_and_run(t_div_back_to_back),
   ooo_div_overlap |-> build_and_run(t_div_long_latency_overlap),
   ooo_store_load_alias |-> build_and_run(t_store_load_alias),
   ooo_store_load_no_alias |-> build_and_run(t_store_load_no_alias),
   ooo_store_load_widths |-> build_and_run(t_store_load_widths),
   ooo_mispredict_taken |-> build_and_run(t_mispredict_forward_taken),
   ooo_mispredict_squash_store |-> build_and_run(t_mispredict_squashes_store),
   ooo_correctly_predicted_not_taken |-> build_and_run(t_mispredict_not_taken),
   ooo_dual_intra_forward |-> build_and_run(t_dual_intra_forward),
   ooo_dual_intra_waw |-> build_and_run(t_dual_intra_waw),
   ooo_dual_throughput |-> build_and_run(t_dual_issue_throughput),
   smt_independent |-> run_smt_test(t_smt_mul, t_smt_loop),
   smt_collide |-> run_smt_test(adds(10, 20, 17), adds(100, 200, 17)),
   smt_starvation |-> run_smt_test(t_smt_divide, adds(1, 2, 13))]

----------------------------------------------------------------------------
(* The broken cores.  A source read too late, a result written too late, a *)
(* value not forwarded or a load that overtakes a store all show as one    *)
(* line taking effect after others that follow it; a recovery that does    *)
(* not squash or does not redirect is the machine's own.                   *)

\* Line i of the body takes effect k lines late.
Delay(body, i, k) ==
  SubSeq(body, 1, i - 1) \o SubSeq(body, i + 1, i + k) \o <<body[i]>>
    \o SubSeq(body, i + k + 1, Len(body))

Late(body, i, k)   == [build_and_run(Delay(body, i, k)) EXCEPT !.fault = "late"]
Faulty(body, how)  == [Test64(body, <<>>) EXCEPT !.fault = how]
Recovery(body, how) == [build_and_run(body) EXCEPT !.fault = how]

Directed ==
  [war_source_late |-> Late(t_war_hazard, 2, 5),         \* build_tests_ooo.py:475
   waw_older_last |-> Late(t_waw_hazard, 4, 1),          \* :495
   forward_stale |-> Late(t_dual_intra_forward, 2, 1),   \* :847
   intra_older_last |-> Late(t_dual_intra_waw, 2, 1),    \* :866
   load_overtakes |-> Late(t_store_load_alias, 3, 1),    \* :712
   store_not_squashed |-> Recovery(t_mispredict_squashes_store, "no_squash"),  \* :799
   ras_not_squashed |-> Recovery(t_ras_misprediction, "no_squash"),            \* :349
   ras_believed |-> Recovery(t_ras_misprediction, "trusts_ras"),               \* :349
   btb_believed |-> Recovery(t_btb_misprediction, "trusts_btb"),               \* :430
   btb_not_squashed |-> Recovery(t_btb_misprediction, "no_squash"),            \* :430
   sc_after_store |-> Faulty(t_lr_sc_fail_other_store, "keeps_reservation"),   \* build_tests_a.py:171
   sc_elsewhere |-> Faulty(t_lr_sc_fail_wrong_addr, "any_address"),            \* :191
   amo_neighbour |-> Faulty(t_amo_word, "wide_amo"),                           \* :122
   word_sign |-> Faulty(t_word_ops, "zero_extends")]                           \* build_tests64.py:175
=============================================================================
