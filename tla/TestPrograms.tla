---------------------------- MODULE TestPrograms ---------------------------
(***************************************************************************)
(* The test programs of RV64I/verify/build_tests64.py, for the single-     *)
(* cycle core, as the bodies their t_ functions build.                     *)
(***************************************************************************)
EXTENDS Isa

ONES == 0 .. 63                          \* -1

t_alu_rtype ==
  <<li(1, 5), li(2, 3), <<"add", 3, 1, 2>>, eq(3, 8),
    lui64(1, 0 .. 30), <<"slli", 1, 1, 32>>, lui64(4, 0 .. 31), <<"or", 1, 1, 4>>,
    <<"addi", 1, 1, 1>>, eqw(1, {63}),
    li(1, 1), li(2, 63), <<"sll", 3, 1, 2>>, eqw(3, {63}),
    li(1, -1), li(2, 1), <<"slt", 3, 1, 2>>, <<"sltu", 4, 1, 2>>, eq(3, 1), eq(4, 0),
    <<"addi", 0, 1, 5>>, eq(0, 0)>>

t_alu_itype ==
  << <<"addi", 1, 0, 2047>>, eq(1, 2047), <<"addi", 1, 0, -2048>>, eqw(1, 11 .. 63),
     li(1, 1), <<"slli", 1, 1, 40>>, eqw(1, {40}),
     lui64(1, {63}), <<"srli", 1, 1, 4>>, eqw(1, {59}),
     lui64(1, {63}), <<"srai", 1, 1, 4>>, eqw(1, 59 .. 63)>>

t_word_ops ==
  <<lui64(1, 0 .. 30), li(2, 1), <<"addw", 3, 1, 2>>, eqw(3, 31 .. 63),
    lui64(4, 0 .. 30), <<"slli", 5, 4, 32>>, <<"or", 4, 4, 5>>, li(2, 1), <<"addw", 3, 4, 2>>,
    eqw(3, 31 .. 63),
    li(1, 5), li(2, 8), <<"subw", 3, 1, 2>>, eq(3, -3),
    li(1, 1), li(2, 31), <<"sllw", 3, 1, 2>>, eqw(3, 31 .. 63),
    lui64(1, {31}), <<"srlw", 3, 1, 0>>, eqw(3, 31 .. 63),
    lui64(1, {31}), li(2, 4), <<"sraw", 3, 1, 2>>, eqw(3, 27 .. 63),
    <<"addiw", 3, 0, -1>>, eqw(3, ONES),
    li(1, 1), <<"slliw", 3, 1, 31>>, eqw(3, 31 .. 63)>>

t_branch ==
  <<li(1, -1), li(2, 1), li(5, 0), <<"bltu", 1, 2, "bad">>, <<"addi", 5, 0, 1>>, j("done"),
    at("bad"), <<"addi", 5, 0, 2>>, at("done"), eq(5, 1),
    li(1, -1), li(2, 1), li(5, 0), <<"blt", 1, 2, "ok">>, <<"addi", 5, 0, 1>>, at("ok"), eq(5, 0)>>

t_jump ==
  <<li(5, 0), <<"jal", 1, "target">>, <<"addi", 5, 0, 1>>, j("done"),
    at("target"), <<"addi", 5, 0, 2>>, at("done"), eq(5, 2)>>

t_upper == << <<"lui", 1, 1048575>>, eqw(1, 12 .. 63), <<"lui", 1, 524287>>, eqw(1, 12 .. 30)>>

\* The words a, b in the high and low half.
Halves64(a, b) == Move(a, 31, 0, 32) \cup b
W1 == Word32(287454020)                  \* 0x11223344
W2 == Word32(1432778632)                 \* 0x55667788

t_mem ==
  <<lui64(1, W1), <<"slli", 1, 1, 32>>, lui64(6, W2), <<"or", 1, 1, 6>>, li(2, 0),
    <<"sd", 1, 0, 2>>, <<"ld", 3, 0, 2>>, eqw(3, Halves64(W1, W2)),
    lui64(1, {0, 31}), li(2, 8), <<"sw", 1, 0, 2>>, <<"lw", 4, 0, 2>>, <<"lwu", 5, 0, 2>>,
    eqw(4, {0} \cup 31 .. 63), eqw(5, {0, 31}),
    li(1, 255), li(2, 16), <<"sb", 1, 0, 2>>, <<"lb", 6, 0, 2>>, <<"lbu", 7, 0, 2>>,
    eqw(6, ONES), eq(7, 255)>>

\* Mutant of t_gcd: the second subtraction goes into the wrong register.
t_gcd_astray ==
  <<li(1, 462), li(2, 1071), at("loop"), <<"beq", 1, 2, "done">>, <<"blt", 1, 2, "swap">>,
    <<"sub", 1, 1, 2>>, j("loop"), at("swap"), <<"sub", 1, 2, 1>>, j("loop"), at("done"),
    eq(1, 21)>>

t_gcd ==
  <<li(1, 462), li(2, 1071), at("loop"), <<"beq", 1, 2, "done">>, <<"blt", 1, 2, "swap">>,
    <<"sub", 1, 1, 2>>, j("loop"), at("swap"), <<"sub", 2, 2, 1>>, j("loop"), at("done"),
    eq(1, 21)>>

\* result = a * b by shift and add, through copies: result may be a or b.
shift_add_multiply_asm(a, b, result, s1, s2, label) ==
  LET loop == label \o "_loop"
      skip == label \o "_skip"
      done == label \o "_done"
  IN  << <<"addi", s1, a, 0>>, <<"addi", s2, b, 0>>, li(result, 0), at(loop), <<"beq", s2, 0, done>>,
         <<"andi", 29, s2, 1>>, <<"beq", 29, 0, skip>>, <<"add", result, result, s1>>, at(skip),
         <<"slli", s1, s1, 1>>, <<"srli", s2, s2, 1>>, j(loop), at(done)>>

\* 15! is 1307674368000 = 304 * 2^32 + 2004310016.
t_factorial ==
  <<li(1, 15), li(2, 1), at("fact_loop"), <<"beq", 1, 0, "fact_done">> >>
    \o shift_add_multiply_asm(2, 1, 2, 10, 11, "mul1")
    \o << <<"addi", 1, 1, -1>>, j("fact_loop"), at("fact_done"),
          eqw(2, Halves64(Word32(304), Word32(2004310016)))>>

\* fib(50) is 12586269025 = 2 * 2^32 + 3996334433 (the low half as a negative).
t_fibonacci ==
  <<li(1, 0), li(2, 1), li(3, 50), li(4, 0), at("loop"), <<"beq", 4, 3, "done">>,
    <<"add", 5, 1, 2>>, <<"add", 1, 2, 0>>, <<"add", 2, 5, 0>>, <<"addi", 4, 4, 1>>, j("loop"),
    at("done"), eqw(1, Halves64(Word32(2), Word32(-298632863)))>>

sum_data == <<3, 7, 1, 9, 2, 8, 4, 6, 5, 10>>
t_sum_array ==
  <<li(1, 0), li(2, 0), li(3, Len(sum_data)), li(4, 0), at("loop"), <<"beq", 4, 3, "done">>,
    <<"slli", 5, 4, 3>>, <<"add", 5, 5, 1>>, <<"ld", 6, 0, 5>>, <<"add", 2, 2, 6>>,
    <<"addi", 4, 4, 1>>, j("loop"), at("done"), eq(2, 55)>>

\* write_mem: a doubleword per element, its low 32 bits.
write_mem(words) == [d \in 0 .. Len(words) - 1 |-> Word32(words[d + 1])]

\* A test of the single-cycle core as a job of one thread.
Test64(body, mem) ==
  [threads |-> <<source(body)>>, mem |-> mem, golden |-> <<>>, scratch |-> {},
   fault |-> "none", twice |-> {}, regs |-> <<>>, vregs |-> <<>>]

Suite64 ==
  [alu_rtype64 |-> Test64(t_alu_rtype, <<>>), alu_itype64 |-> Test64(t_alu_itype, <<>>),
   word_ops |-> Test64(t_word_ops, <<>>), branch64 |-> Test64(t_branch, <<>>),
   mem64 |-> Test64(t_mem, <<>>), jump64 |-> Test64(t_jump, <<>>), upper64 |-> Test64(t_upper, <<>>),
   app_gcd64 |-> Test64(t_gcd, <<>>), app_factorial64 |-> Test64(t_factorial, <<>>),
   app_fibonacci64 |-> Test64(t_fibonacci, <<>>),
   app_sum_array64 |-> Test64(t_sum_array, write_mem(sum_data))]
=============================================================================
