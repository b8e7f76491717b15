------------------------------ MODULE Kernels ------------------------------
(***************************************************************************)
(* The benchmark kernels of RV64I/verify/bench_rvv.py (levels 1 and 2) and *)
(* bench_level3.py, each as the text its generator writes for given bases  *)
(* and dimensions, and as the job its run_ function checks: the kernel and *)
(* check_eq of its results, the preloaded memory, and what memory must be  *)
(* in the end, computed by the formulas the Python golden values have.     *)
(***************************************************************************)
EXTENDS Isa

\* The stripmined loop every vector kernel shares: vsetvli, the body, and the
\* pointers in ptrs moved on by vl elements until x9 counts down to zero.
Strip(label, body, ptrs) ==
  <<at(label), <<"vsetvli", 10, 9>> >> \o body
    \o << <<"slli", 11, 10, 2>>, <<"sub", 9, 9, 10>> >>
    \o [i \in 1 .. Len(ptrs) |-> <<"add", ptrs[i], ptrs[i], 11>>]
    \o << <<"bne", 9, 0, label>> >>

Bump(regs) == [i \in 1 .. Len(regs) |-> <<"addi", regs[i], regs[i], 4>>]

\* A job of one thread: the text, then a check of each word of `result', a
\* sequence of <<address, word>>; x6 holds the base of an output out of reach
\* of x0.  golden is memory in the end, scratch the doublewords that are free.
Checking(result, base) ==
  FlattenSeq([i \in 1 .. Len(result) |->
    << <<"lw", 8, result[i][1], base>>, eqw(8, result[i][2])>>])

Kernel(text, checks, mem, golden, scratch) ==
  [threads |-> <<source(text \o checks)>>, mem |-> mem, golden |-> golden @@ mem,
   scratch |-> scratch, fault |-> "none", twice |-> {}, regs |-> <<>>, vregs |-> <<>>]

\* Indices as the generators count them, the values f[0] to f[n - 1] in order,
\* and words at consecutive addresses.
Upto(n)          == 0 .. n - 1
Values(f, n)     == [i \in 1 .. n |-> f[i - 1]]
Out(base, words) == [i \in 1 .. Len(words) |-> <<base + 4 * (i - 1), words[i]>>]
Region(base, words) ==
  LET half(k) == IF k \in 1 .. Len(words) THEN words[k] ELSE {}
      lo == base \div 8
      hi == (base + 4 * Len(words) - 4) \div 8
  IN  [d \in lo .. hi |-> LET k == (8 * d - base) \div 4 + 1
                          IN  half(k) \cup Move(half(k + 1), 31, 0, 32)]
Sum(f, n) == LET sum[i \in 0 .. n] == IF i = 0 THEN 0 ELSE sum[i - 1] + f[i - 1] IN sum[n]

----------------------------------------------------------------------------
(* Level 1: c[i] = a[i] op b[i]. *)

scalar_binop(op, a, b, c, n) ==
  <<li(5, a), li(6, b), li(7, c), li(8, a + 4 * n), at("sb"),
    <<"lw", 28, 0, 5>>, <<"lw", 29, 0, 6>>, <<op, 28, 28, 29>>, <<"sw", 28, 0, 7>> >>
    \o Bump(<<5, 6, 7>>) \o << <<"bne", 5, 8, "sb">> >>

vector_binop(op, a, b, c, n) ==
  <<li(5, a), li(6, b), li(7, c), li(9, n)>>
    \o Strip("vb", << <<"vle32", 1, 5>>, <<"vle32", 2, 6>>, <<"vv", op, 1, 1, 2>>,
                      <<"vse32", 1, 7>> >>, <<5, 6, 7>>)

run_level1(vector, op, n) ==
  LET a == [i \in Upto(n) |-> 100 + i]
      b == [i \in Upto(n) |-> i + 1]
      c == Values([i \in Upto(n) |-> Alu(op, Word32(a[i]), Word32(b[i]), 32)], n)
  IN  Kernel(IF vector THEN vector_binop(op, 0, 64, 128, n) ELSE scalar_binop(op, 0, 64, 128, n),
             Checking(Out(128, c), 0),
             preload_mem(<< <<0, Values(a, n)>>, <<64, Values(b, n)>> >>), Region(128, c), {})

----------------------------------------------------------------------------
(* Level 2: dot product, a * x + y, sum.  A vector sum starts from the zero *)
(* at 3000 and is read back through 3200. *)

Seed      == <<li(21, 3000), <<"vle32", 3, 21>> >>
ReadBack  == <<li(22, 3200), <<"vse32", 3, 22>>, <<"lw", 8, 0, 22>> >>
SCRATCH_2 == {3200 \div 8, 3200 \div 8 + 1}

dot_scalar(a, b, n) ==
  <<li(5, a), li(6, b), li(8, a + 4 * n), li(20, 0), at("dot_scalar"),
    <<"lw", 28, 0, 5>>, <<"lw", 29, 0, 6>>, <<"mul", 28, 28, 29>>, <<"add", 20, 20, 28>> >>
    \o Bump(<<5, 6>>) \o << <<"bne", 5, 8, "dot_scalar">> >>

dot_vector(a, b, n) ==
  <<li(5, a), li(6, b), li(9, n)>> \o Seed
    \o Strip("dot_vector", << <<"vle32", 1, 5>>, <<"vle32", 2, 6>>, <<"vv", "mul", 1, 1, 2>>,
                              <<"vredsum", 3, 1, 3>> >>, <<5, 6>>)

axpy_scalar(xb, yb, a, n) ==
  <<li(5, xb), li(6, yb), li(8, xb + 4 * n), li(9, a), at("axpy_scalar"),
    <<"lw", 28, 0, 5>>, <<"mul", 28, 28, 9>>, <<"lw", 29, 0, 6>>, <<"add", 28, 28, 29>>,
    <<"sw", 28, 0, 6>> >> \o Bump(<<5, 6>>) \o << <<"bne", 5, 8, "axpy_scalar">> >>

axpy_vector(xb, yb, a, n) ==
  <<li(5, xb), li(6, yb), li(9, n), li(12, a)>>
    \o Strip("axpy_vector", << <<"vle32", 1, 5>>, <<"vle32", 2, 6>>, <<"vx", "mul", 1, 1, 12>>,
                               <<"vv", "add", 1, 1, 2>>, <<"vse32", 1, 6>> >>, <<5, 6>>)

red_scalar(a, n) ==
  <<li(5, a), li(8, a + 4 * n), li(20, 0), at("red_scalar"),
    <<"lw", 28, 0, 5>>, <<"add", 20, 20, 28>>, <<"addi", 5, 5, 4>>, <<"bne", 5, 8, "red_scalar">> >>

red_vector(a, n) ==
  <<li(5, a), li(9, n)>> \o Seed
    \o Strip("red_vector", << <<"vle32", 1, 5>>, <<"vredsum", 3, 1, 3>> >>, <<5>>)

run_dot(vector, n) ==
  LET a   == [i \in Upto(n) |-> 1 + i]
      b   == [i \in Upto(n) |-> 2 + i]
      sum == Sum([i \in Upto(n) |-> a[i] * b[i]], n)
  IN  Kernel(IF vector THEN dot_vector(0, 64, n) \o ReadBack ELSE dot_scalar(0, 64, n),
             <<eq(IF vector THEN 8 ELSE 20, sum)>>,
             preload_mem(<< <<0, Values(a, n)>>, <<64, Values(b, n)>> >>), <<>>, SCRATCH_2)

run_axpy(vector, n) ==
  LET xs == [i \in Upto(n) |-> 1 + i]
      ys == [i \in Upto(n) |-> 10 + i]
      y  == Values([i \in Upto(n) |-> Word32(3 * xs[i] + ys[i])], n)
  IN  Kernel(IF vector THEN axpy_vector(0, 64, 3, n) ELSE axpy_scalar(0, 64, 3, n),
             Checking(Out(64, y), 0),
             preload_mem(<< <<0, Values(xs, n)>>, <<64, Values(ys, n)>> >>), Region(64, y), {})

run_reduction(vector, n) ==
  LET a == [i \in Upto(n) |-> 1 + i]
  IN  Kernel(IF vector THEN red_vector(0, n) \o ReadBack ELSE red_scalar(0, n),
             <<eq(IF vector THEN 8 ELSE 20, Sum(a, n))>>,
             preload_mem(<< <<0, Values(a, n)>> >>), <<>>, SCRATCH_2)
=============================================================================
