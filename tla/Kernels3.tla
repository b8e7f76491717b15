----------------------------- MODULE Kernels3 ------------------------------
(***************************************************************************)
(* The level 3 kernels (RV64I/verify/bench_level3.py): matrix-vector and   *)
(* matrix-matrix products, a 1D convolution and a separable image filter,  *)
(* laid out around a vector unit that only knows unit stride from an       *)
(* address that is a multiple of eight.                                    *)
(***************************************************************************)
EXTENDS Kernels

\* Rows of the matrix f, one after the other.
Flat(f, rows, cols) == [e \in 1 .. rows * cols |-> f[(e - 1) \div cols, (e - 1) % cols]]
Words32(s) == [i \in 1 .. Len(s) |-> Word32(s[i])]

----------------------------------------------------------------------------
(* y = A x: a dot product per row. *)

matvec_scalar(a, xb, y, m, k) ==
  <<li(5, a), li(6, xb), li(7, y), li(8, xb + 4 * k), li(24, a + 4 * m * k),
    at("mv_scalar_outer"), <<"add", 20, 0, 0>>, at("mv_scalar_inner"),
    <<"lw", 28, 0, 5>>, <<"lw", 29, 0, 6>>, <<"mul", 28, 28, 29>>, <<"add", 20, 20, 28>> >>
    \o Bump(<<5, 6>>)
    \o << <<"bne", 6, 8, "mv_scalar_inner">>, <<"sw", 20, 0, 7>>, <<"addi", 7, 7, 4>>,
          <<"addi", 6, 6, -4 * k>>, <<"bne", 5, 24, "mv_scalar_outer">> >>

\* Every row starts from the zero at 4096; what the rows before it left at
\* 4104 comes along in the upper elements, which vredsum does not read.
matvec_vector(a, xb, y, m, k) ==
  <<li(5, a), li(6, xb), li(7, y), li(24, a + 4 * m * k), li(21, 4096), li(22, 4104),
    at("mv_vector_outer"), li(9, k), <<"vle32", 3, 21>> >>
    \o Strip("mv_vector_inner", << <<"vle32", 1, 5>>, <<"vle32", 2, 6>>, <<"vv", "mul", 1, 1, 2>>,
                                   <<"vredsum", 3, 1, 3>> >>, <<5, 6>>)
    \o << <<"vse32", 3, 22>>, <<"lw", 28, 0, 22>>, <<"sw", 28, 0, 7>>, <<"addi", 7, 7, 4>>,
          <<"addi", 6, 6, -4 * k>>, <<"bne", 5, 24, "mv_vector_outer">> >>

run_matvec(vector, m, k) ==
  LET A  == [i \in Upto(m), c \in Upto(k) |-> 1 + ((i * k + c) % 13)]
      xs == [i \in Upto(k) |-> 2 + i]
      y  == Values([i \in Upto(m) |-> Word32(Sum([c \in Upto(k) |-> A[i, c] * xs[c]], k))], m)
  IN  Kernel(IF vector THEN matvec_vector(0, 512, 576, m, k) ELSE matvec_scalar(0, 512, 576, m, k),
             Checking(Out(576, y), 0),
             preload_mem(<< <<0, Flat(A, m, k)>>, <<512, Values(xs, k)>> >>),
             Region(576, y), {4104 \div 8, 4104 \div 8 + 1})

----------------------------------------------------------------------------
(* C = A B, by rows: C[i,:] += A[i,k] * B[k,:]. *)

matmul_scalar(a, b, c, m, k, n) ==
  <<li(5, a), li(26, c), li(25, a + 4 * m * k), at("mm_scalar_outer_i"),
    li(19, b), li(27, k), at("mm_scalar_k"),
    <<"lw", 28, 0, 5>>, <<"addi", 5, 5, 4>>, <<"add", 16, 26, 0>>, <<"addi", 8, 16, 4 * n>>,
    at("mm_scalar_j"),
    <<"lw", 29, 0, 19>>, <<"mul", 29, 29, 28>>, <<"lw", 30, 0, 16>>, <<"add", 30, 30, 29>>,
    <<"sw", 30, 0, 16>> >> \o Bump(<<19, 16>>)
    \o << <<"bne", 16, 8, "mm_scalar_j">>, <<"addi", 27, 27, -1>>, <<"bne", 27, 0, "mm_scalar_k">>,
          <<"addi", 26, 26, 4 * n>>, <<"bne", 5, 25, "mm_scalar_outer_i">> >>

\* The loop over k: x9 is set before x28 is loaded, because li goes through x28.
matmul_step(n) == <<li(9, n), <<"lw", 28, 0, 5>>, <<"addi", 5, 5, 4>>, <<"add", 16, 26, 0>> >>

\* Mutant of matmul_vector: the same lines, x9 set after x28 is loaded.
matmul_vector_trap(a, b, c, m, k, n) ==
  <<li(5, a), li(26, c), li(25, a + 4 * m * k), at("mm_vector_outer_i"),
    li(19, b), li(27, k), at("mm_vector_k")>> \o Tail(matmul_step(n)) \o <<li(9, n)>>
    \o Strip("mm_vector_j", << <<"vle32", 1, 19>>, <<"vx", "mul", 1, 1, 28>>, <<"vle32", 2, 16>>,
                               <<"vv", "add", 1, 1, 2>>, <<"vse32", 1, 16>> >>, <<19, 16>>)
    \o << <<"addi", 27, 27, -1>>, <<"bne", 27, 0, "mm_vector_k">>,
          <<"addi", 26, 26, 4 * n>>, <<"bne", 5, 25, "mm_vector_outer_i">> >>

matmul_vector(a, b, c, m, k, n) ==
  <<li(5, a), li(26, c), li(25, a + 4 * m * k), at("mm_vector_outer_i"),
    li(19, b), li(27, k), at("mm_vector_k")>> \o matmul_step(n)
    \o Strip("mm_vector_j", << <<"vle32", 1, 19>>, <<"vx", "mul", 1, 1, 28>>, <<"vle32", 2, 16>>,
                               <<"vv", "add", 1, 1, 2>>, <<"vse32", 1, 16>> >>, <<19, 16>>)
    \o << <<"addi", 27, 27, -1>>, <<"bne", 27, 0, "mm_vector_k">>,
          <<"addi", 26, 26, 4 * n>>, <<"bne", 5, 25, "mm_vector_outer_i">> >>

run_matmul(vector, m, k, n) ==
  LET A == [i \in Upto(m), c \in Upto(k) |-> 1 + ((i * k + c) % 5)]
      B == [i \in Upto(k), c \in Upto(n) |-> 1 + ((i * n + c) % 7)]
      C == Words32(Flat([i \in Upto(m), c \in Upto(n) |->
                           Sum([s \in Upto(k) |-> A[i, s] * B[s, c]], k)], m, n))
  IN  Kernel(IF vector THEN matmul_vector(0, 512, 1024, m, k, n)
                       ELSE matmul_scalar(0, 512, 1024, m, k, n), Checking(Out(1024, C), 0),
             preload_mem(<< <<0, Flat(A, m, k)>>, <<512, Flat(B, k, n)>> >>), Region(1024, C), {})

----------------------------------------------------------------------------
(* y[i] = sum_k w[k] x[i + k], three taps. *)

KTAPS == 3

weights(w) == <<li(20, w[1]), li(21, w[2]), li(22, w[3])>>

\* The three taps at x5, x5 + 4 and x5 + 8 into the word at x7.
ThreeTaps ==
  << <<"lw", 28, 0, 5>>, <<"mul", 28, 28, 20>>, <<"lw", 29, 4, 5>>, <<"mul", 29, 29, 21>>,
     <<"add", 28, 28, 29>>, <<"lw", 29, 8, 5>>, <<"mul", 29, 29, 22>>, <<"add", 28, 28, 29>>,
     <<"sw", 28, 0, 7>> >> \o Bump(<<5, 7>>)

\* One vector tap: y[:] = w * x[:], added to y[:] unless it is the first.
VectorTap(label, first, base, w, y, n) ==
  <<li(5, base), li(7, y), li(9, n)>>
    \o Strip(label, << <<"vle32", 1, 5>>, <<"vx", "mul", 1, 1, w>> >>
                      \o (IF first THEN <<>> ELSE << <<"vle32", 2, 7>>, <<"vv", "add", 1, 1, 2>> >>)
                      \o << <<"vse32", 1, 7>> >>, <<5, 7>>)

conv1d_scalar(xb, shifts, w, y, n) ==
  weights(w) \o <<li(5, xb), li(7, y), li(24, y + 4 * n), at("conv_scalar_loop")>>
    \o ThreeTaps \o << <<"bne", 7, 24, "conv_scalar_loop">> >>

conv1d_vector(xb, shifts, w, y, n) ==
  weights(w) \o FlattenSeq([k \in 1 .. KTAPS |->
                  VectorTap("cv_vector_tap" \o ToString(k), k = 1, shifts[k], 19 + k, y, n)])

\* Mutant of shift_bases: no copies, each tap at its place in x itself.
shift_bases_in_place(n) == [k \in 1 .. KTAPS |-> 4 * (k - 1)]

\* The copies of x the vector taps read, one after the other from 256.
shift_bases(n) == [k \in 1 .. KTAPS |-> 256 + (k - 1) * (4 * n)]

run_conv1d(vector, n) ==
  LET w  == <<1, 2, 1>>
      xs == [i \in 1 .. n + KTAPS - 1 |-> i]
      y  == Values([i \in Upto(n) |->
                     Word32(Sum([k \in Upto(KTAPS) |-> w[k + 1] * xs[i + k + 1]], KTAPS))], n)
  IN  Kernel(IF vector THEN conv1d_vector(0, shift_bases(n), w, 448, n)
                       ELSE conv1d_scalar(0, shift_bases(n), w, 448, n), Checking(Out(448, y), 0),
             preload_mem(<< <<0, xs>> >> \o
               [k \in 1 .. KTAPS |-> <<shift_bases(n)[k], SubSeq(xs, k, k + n - 1)>>]),
             Region(448, y), {})

----------------------------------------------------------------------------
(* The separable 3x3 box filter: a horizontal and a vertical pass. *)

\* Mutant of tap_label: the labels before the tag was added to them.
tap_label_untagged(unit, tag, k) == "ft_" \o unit \o "_tap" \o ToString(k)

\* The labels of a tap: one flat namespace per program, so each pass has a tag.
tap_label(unit, tag, k) == "ft_" \o unit \o "_" \o tag \o "_tap" \o ToString(k)

flat_tap_scalar(bases, y, n, tag) ==
  FlattenSeq([k \in 1 .. KTAPS |->
    <<li(5, bases[k]), li(7, y), li(24, y + 4 * n), at(tap_label("scalar", tag, k)),
      <<"lw", 28, 0, 5>>, <<"mul", 28, 28, 19 + k>> >>
      \o (IF k = 1 THEN <<>> ELSE << <<"lw", 29, 0, 7>>, <<"add", 28, 28, 29>> >>)
      \o << <<"sw", 28, 0, 7>> >> \o Bump(<<5, 7>>)
      \o << <<"bne", 7, 24, tap_label("scalar", tag, k)>> >>])

flat_tap_vector(bases, y, n, tag) ==
  FlattenSeq([k \in 1 .. KTAPS |->
    VectorTap(tap_label("vector", tag, k), k = 1, bases[k], 19 + k, y, n)])

imgfilter_horizontal_scalar(img, interm, r, c_in, n) ==
  weights(<<1, 1, 1>>)
    \o <<li(5, img), li(7, interm), li(25, img + 4 * r * c_in), at("imf_h_scalar_outer"),
         li(8, n), at("imf_h_scalar_inner")>>
    \o ThreeTaps
    \o << <<"addi", 8, 8, -1>>, <<"bne", 8, 0, "imf_h_scalar_inner">>,
          <<"addi", 5, 5, 4 * (c_in - n)>>, <<"bne", 5, 25, "imf_h_scalar_outer">> >>

\* An r by c_in image at 0, the vector copies from 4096, the intermediate
\* image at 16384, the result at 20480; five of the results are checked.
run_imgfilter(vector, r, c_in) ==
  LET n       == c_in - KTAPS + 1
      rows    == r - KTAPS + 1
      img     == [i \in Upto(r), c \in Upto(c_in) |-> 1 + ((i * c_in + c) % 11)]
      interm  == [i \in Upto(r), c \in Upto(n) |-> Sum([k \in Upto(KTAPS) |-> img[i, c + k]], KTAPS)]
      result  == [i \in Upto(rows), c \in Upto(n) |->
                   Sum([d \in Upto(KTAPS) |-> interm[i + d, c]], KTAPS)]
      h_bases == [k \in 1 .. KTAPS |-> 4096 + (k - 1) * (r * n * 4)]
      v_bases == [k \in 1 .. KTAPS |-> 16384 + (k - 1) * (n * 4)]
      copies  == [k \in 1 .. KTAPS |->
                    <<h_bases[k], Flat([i \in Upto(r), c \in Upto(n) |-> img[i, c + k - 1]], r, n)>>]
      samples == << <<0, 0>>, <<0, n - 1>>, <<rows - 1, 0>>, <<rows - 1, n - 1>>,
                    <<rows \div 2, n \div 2>> >>
      checked == [s \in 1 .. 5 |-> <<4 * (samples[s][1] * n + samples[s][2]),
                                     Word32(result[samples[s]])>>]
      text    == IF vector
                 THEN weights(<<1, 1, 1>>) \o flat_tap_vector(h_bases, 16384, r * n, "h")
                        \o weights(<<1, 1, 1>>) \o flat_tap_vector(v_bases, 20480, rows * n, "v")
                 ELSE imgfilter_horizontal_scalar(0, 16384, r, c_in, n)
                        \o weights(<<1, 1, 1>>) \o flat_tap_scalar(v_bases, 20480, rows * n, "v")
  IN  Kernel(text, <<li(6, 20480)>> \o Checking(checked, 6),
             preload_mem(<< <<0, Flat(img, r, c_in)>> >> \o copies),
             Region(20480, Words32(Flat(result, rows, n))) @@
               Region(16384, Words32(Flat(interm, r, n))), {})
=============================================================================
