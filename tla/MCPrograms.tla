----------------------------- MODULE MCPrograms ----------------------------
(***************************************************************************)
(* Every test program, every kernel at the size the benches run it, the    *)
(* kernels at every small size with its tail, and the broken cores.        *)
(***************************************************************************)
EXTENDS ProgramProperties, Kernels3, TestProgramsOoo

\* A function on tuples as jobs with names.
Named(prefix, S, job_of(_)) == [n \in {<<prefix, s>> : s \in S} |->
                              job_of(n[2]) @@ [name |-> n]]

OPS == {"add", "sub", "mul", "and", "or", "xor"}
EvenUpTo(n) == {k \in 1 .. n : k % 2 = 0}

Level1 ==
  Named("sb", {<<op, 16>> : op \in OPS}, LAMBDA p : run_level1(FALSE, p[1], p[2]))
    @@ Named("vb", {<<op, 16>> : op \in OPS} \cup {<<"sub", n>> : n \in 1 .. 9},
             LAMBDA p : run_level1(TRUE, p[1], p[2]))

Level2 ==
  Named("dot", BOOLEAN \X (1 .. 9 \cup {16}), LAMBDA p : run_dot(p[1], p[2]))
    @@ Named("axpy", BOOLEAN \X (1 .. 9 \cup {16}), LAMBDA p : run_axpy(p[1], p[2]))
    @@ Named("red", BOOLEAN \X (1 .. 9 \cup {16}), LAMBDA p : run_reduction(p[1], p[2]))

\* A matrix of more than one row needs rows of whole doublewords.
Shapes2 == {<<1, 3>>, <<1, 5>>, <<2, 2>>, <<3, 6>>, <<2, 10>>, <<4, 16>>}
Shapes3 == {<<1, 1, 4>>, <<2, 3, 2>>, <<2, 2, 6>>, <<1, 3, 8>>, <<4, 4, 8>>}

Level3 ==
  Named("mvs", Shapes2, LAMBDA p : run_matvec(FALSE, p[1], p[2]))
    @@ Named("mvv", Shapes2, LAMBDA p : run_matvec(TRUE, p[1], p[2]))
    @@ Named("mms", Shapes3, LAMBDA p : run_matmul(FALSE, p[1], p[2], p[3]))
    @@ Named("mmv", Shapes3, LAMBDA p : run_matmul(TRUE, p[1], p[2], p[3]))
    @@ Named("cvs", 1 .. 6 \cup {16}, LAMBDA n : run_conv1d(FALSE, n))
    @@ Named("cvv", EvenUpTo(6) \cup {16}, LAMBDA n : run_conv1d(TRUE, n))
    @@ Named("img", BOOLEAN \X {<<3, 4>>, <<4, 6>>, <<4, 8>>, <<10, 18>>},
             LAMBDA p : run_imgfilter(p[1], p[2][1], p[2][2]))

Renamed(suite) == Named("test", DOMAIN suite, LAMBDA s : suite[s])

AllJobs == Level1 @@ Level2 @@ Level3 @@ Renamed(Suite64) @@ Renamed(SuiteMAC) @@
              Renamed(SuiteOoo) @@ Renamed(Directed)
=============================================================================
