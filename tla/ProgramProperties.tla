------------------------- MODULE ProgramProperties -------------------------
(***************************************************************************)
(* What the suites promise: on a core that does what the instruction set   *)
(* says every program ends in its pass code with the right results, its    *)
(* text is one the assembler takes as written, its vector accesses are     *)
(* ones the vector unit can make, and the directed tests tell a broken     *)
(* core from a sound one.                                                  *)
(***************************************************************************)
EXTENDS Machine

Sound == job.fault = "none"
AllHalted == \A t \in Threads : halted[t]

\* What the test looks at: the pass codes, and the registers it dumps.
Passed ==
  /\ \A t \in Threads : x[t][31] = PASS
  /\ \A e \in DOMAIN job.regs : x[1][job.regs[e][1]] = job.regs[e][2]
  /\ \A e \in DOMAIN job.vregs :
       \A i \in LANE : v[1][job.vregs[e][1]][i] = job.vregs[e][2]

\* Every test and every kernel passes on a sound core, however the dispatcher
\* interleaves the two threads: no check compares with a register an earlier
\* line (x28 under li, x30 under check_eq) has overwritten, no branch or return
\* goes past a check.
SoundCorePasses == AllHalted /\ Sound => Passed

\* What a kernel leaves in memory is what its Python golden values say, in EVERY
\* element and not only the sampled ones, for every number of elements around
\* the vector length, and nothing else has changed outside its scratch words:
\* the masked tail of the last strip neither reads nor writes past the array.
KernelsCompute ==
  AllHalted /\ Sound /\ DOMAIN job.golden # {} =>
    \A d \in (DOMAIN mem \cup DOMAIN job.golden) \ job.scratch :
      Dword(mem, d) = Dword(job.golden, d)

\* The address and size of the access a thread is about to make.
ATOMIC == {"lr.d", "sc.d", "amo"}
VECTOR == {"vle32", "vse32"}
Accesses(t) == ~halted[t] /\ Op(t) \in LOADS \cup STORES \cup ATOMIC \cup VECTOR
Reached(t)  == CASE Op(t) \in LOADS \cup STORES -> Address(t)
                 [] Op(t) \in {"vle32", "vse32", "lr.d"} -> Reg(t, 3)
                 [] Op(t) = "sc.d" -> Reg(t, 4)
                 [] Op(t) = "amo" -> Reg(t, 6)
Alignment(t) == CASE Op(t) \in LOADS \cup STORES -> WIDTH[Op(t)] \div 8
                  [] Op(t) = "amo" -> WIDTH[Line(t)[3].load] \div 8
                  [] OTHER -> 8

\* data_memory drops the low bits of an address: on a sound core no program
\* makes an access that they would change (a vector access must be a multiple of
\* eight, bench_level3.py:211), and none leaves the 4096 doublewords.
AccessesAligned ==
  Sound => \A t \in Threads :
    Accesses(t) =>
      /\ Unsigned(Reached(t), 3) % Alignment(t) = 0
      /\ Reached(t) \subseteq 0 .. DMEM_BITS + 2

\* Assembler64 takes the text as its author wrote it: its one table of labels
\* holds every label once (bench_level3.py:341), a branch reaches its handler in
\* thirteen bits (bench_level3.py:475), no immediate is folded into twelve.
TextAssembles ==
  (\A t \in Threads : pc[t] = 0) => \A t \in Threads :
    LET src   == job.threads[t]
        image == imem[t]
    IN  /\ \A l \in DOMAIN image.labels \ job.twice :
             Cardinality({i \in 1 .. Len(src) : src[i][1] = "at" /\ src[i][2] = l}) = 1
        /\ \A a \in DOMAIN image.code :
             LET line == image.code[a].line
             IN  /\ line[1] \in BRANCHES =>
                      line[4] \in DOMAIN image.labels /\ image.labels[line[4]] - a \in -4096 .. 4094
                 /\ line[1] = "jal" => line[3] \in DOMAIN image.labels
                 /\ line[1] \in LOADS \cup STORES => line[3] \in -2048 .. 2047
                 /\ line[1] \in DOMAIN IMM \cup {"jalr"} => line[4] \in -2048 .. 2047

\* A directed test fails on the core whose fault its comment names.
FaultsCaught == AllHalted /\ ~Sound => ~Passed

\* Every program ends, on a sound core and on the broken ones.
Ends == <>AllHalted
=============================================================================
