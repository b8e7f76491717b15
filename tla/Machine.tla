------------------------------ MODULE Machine ------------------------------
(***************************************************************************)
(* The test programs and the benchmark kernels, executed a source line at  *)
(* a time by one thread (the single-cycle RV64 core) or two (the SMT       *)
(* core): 64-bit registers, four 32-bit vector lanes under vl, a shared    *)
(* data memory of doublewords, and the predictors of the out-of-order      *)
(* front end.  A correct core never shows its predictions; a job may ask   *)
(* for a core with one of the faults the tests are there to find.          *)
(***************************************************************************)
EXTENDS Isa

CONSTANTS
  Jobs,     \* name |-> [threads: sources, mem: data memory, fault, ...]
  Window    \* lines of a wrong path that take effect if nothing squashes it

ASSUME WindowAssumption == Window \in Nat \ {0}

VARIABLES job,     \* the job that runs
          imem,    \* each thread's assembled program
          pc,      \* the address each thread is at
          x,       \* the integer registers of each thread
          v,       \* the vector registers v1..v4 of each thread
          vl,      \* the vector length of each thread
          mem,     \* the data memory
          reserved,  \* the address LR reserved for each thread, if any
          halted,  \* the threads at their ecall
          shadow,  \* a wrong path: <<lines left, the right address>>, or <<>>
          bht,     \* two-bit counters, by index
          btb,     \* targets, by index
          ras      \* the return addresses of each thread

vars == <<job, imem, pc, x, v, vl, mem, reserved, halted, shadow, bht, btb, ras>>

Threads == DOMAIN pc
LANES   == 4
LANE    == 0 .. LANES - 1

----------------------------------------------------------------------------
(* The assembled program: addresses, and labels in one flat namespace. *)

Size(line) ==
  CASE line[1] = "at" -> 0 [] line[1] = "li" -> 32 [] line[1] = "c" -> 2 [] OTHER -> 4

Build(src) ==
  LET pos[i \in 1 .. Len(src) + 1] == IF i = 1 THEN 0 ELSE pos[i - 1] + Size(src[i - 1])
      marks == {i \in 1 .. Len(src) : src[i][1] = "at"}
      lines == 1 .. Len(src) \ marks
      addr  == [i \in 1 .. Len(src) |-> pos[i]]
      fetch(a) == src[CHOOSE i \in lines : addr[i] = a]
  IN  [code   |-> [a \in {addr[i] : i \in lines} |->
                     [line |-> IF fetch(a)[1] = "c" THEN fetch(a)[2] ELSE fetch(a),
                      next |-> a + Size(fetch(a))]],
       labels |-> [l \in {src[i][2] : i \in marks} |->
                     addr[Max({i \in marks : src[i][2] = l})]]]

Line(t)   == imem[t].code[pc[t]].line
Fall(t)   == imem[t].code[pc[t]].next
To(t, l)  == imem[t].labels[l]

Init ==
  /\ \E n \in DOMAIN Jobs : job = Jobs[n]
  /\ imem = [t \in DOMAIN job.threads |-> Build(job.threads[t])]
  /\ LET T == DOMAIN job.threads
     IN  /\ pc = [t \in T |-> 0]
         /\ x = [t \in T |-> [r \in 0 .. 31 |-> {}]]
         /\ v = [t \in T |-> [r \in 1 .. 4 |-> [i \in LANE |-> {}]]]
         /\ vl = [t \in T |-> LANES]
         /\ reserved = [t \in T |-> {}]
         /\ halted = [t \in T |-> FALSE]
         /\ shadow = [t \in T |-> <<>>]
         /\ ras = [t \in T |-> <<>>]
  /\ mem = job.mem
  /\ bht = [i \in 0 .. 63 |-> 1]
  /\ btb = [i \in 0 .. 63 |-> -1]

----------------------------------------------------------------------------
(* The program counter. *)

\* One line done: a wrong path ends after Window of them.
Advance(t) ==
  LET next == Fall(t)
  IN  IF shadow[t] = <<>>
      THEN pc' = [pc EXCEPT ![t] = next] /\ UNCHANGED shadow
      ELSE LET left == shadow[t][1]
               real == shadow[t][2]
           IN  /\ pc' = [pc EXCEPT ![t] = IF left = 1 THEN real ELSE next]
               /\ shadow' = [shadow EXCEPT ![t] = IF left = 1 THEN <<>> ELSE <<left - 1, real>>]

Entry(a)  == (a \div 4) % 64
IsLink(r) == r \in {1, 5}
Pushes(line) == line[1] \in {"jal", "jalr"} /\ IsLink(line[2])
Pops(t)      == /\ Line(t)[1] = "jalr" /\ IsLink(Line(t)[3]) /\ ~IsLink(Line(t)[2])
                /\ ras[t] # <<>>

\* Where the front end goes before the branch is resolved.
Predicted(t, target, fall) ==
  CASE Line(t)[1] \notin {"jal", "jalr"} -> IF bht[Entry(pc[t])] >= 2 THEN target ELSE fall
    [] Line(t)[1] = "jal" -> target
    [] Line(t)[1] = "jalr" /\ Pops(t) -> ras[t][Len(ras[t])]
    [] Line(t)[1] = "jalr" /\ ~Pops(t) -> IF btb[Entry(pc[t])] >= 0 THEN btb[Entry(pc[t])] ELSE target

\* The table after the branch at a went that way.
Trained(a, taken) ==
  [bht EXCEPT ![Entry(a)] = IF taken THEN Min({@ + 1, 3}) ELSE Max({@ - 1, 0})]

\* What the core does not check, when it trusts its return address stack or its
\* table of targets.
Believes(t) == \/ job.fault = "trusts_ras" /\ Line(t)[1] = "jalr" /\ Pops(t)
               \/ job.fault = "trusts_btb" /\ Line(t)[1] = "jalr" /\ ~Pops(t)

\* A control transfer to `real': mispredicted, a core without squash runs on
\* from the guess for a while, a core that believes it for good.
Transfer(t, real, guess) ==
  CASE shadow[t] # <<>> -> /\ pc' = [pc EXCEPT ![t] = shadow[t][2]]
                           /\ shadow' = [shadow EXCEPT ![t] = <<>>]
    [] shadow[t] = <<>> /\ Believes(t) -> pc' = [pc EXCEPT ![t] = guess] /\ UNCHANGED shadow
    [] shadow[t] = <<>> /\ guess # real /\ job.fault = "no_squash" ->
         /\ pc' = [pc EXCEPT ![t] = guess]
         /\ shadow' = [shadow EXCEPT ![t] = <<Window, real>>]
    [] OTHER -> pc' = [pc EXCEPT ![t] = real] /\ UNCHANGED shadow

----------------------------------------------------------------------------
(* The lines. *)

Op(t)  == Line(t)[1]
Reg(t, k) == x[t][Line(t)[k]]
Set(t, rd, value) == x' = [x EXCEPT ![t] = Write(x[t], rd, value)]

Compute(t) ==
  /\ Op(t) \in COMPUTES
  /\ LET result == Result(Line(t), x[t], pc[t])
         narrow == Op(t) \in DOMAIN REG_W \cup DOMAIN IMM_W
     IN  Set(t, Line(t)[2],
             IF narrow /\ job.fault = "zero_extends" THEN Field(result, 31, 0) ELSE result)
  /\ Advance(t)
  /\ UNCHANGED <<job, imem, v, vl, mem, reserved, halted, bht, btb, ras>>

LoadConstant(t) ==
  /\ Op(t) = "li"
  /\ x' = [x EXCEPT ![t] = li64(x[t], Line(t)[2], Line(t)[3])]
  /\ Advance(t)
  /\ UNCHANGED <<job, imem, v, vl, mem, reserved, halted, bht, btb, ras>>

Address(t) == Plus(Reg(t, 4), Word(Line(t)[3]), XLEN)

Load(t) ==
  /\ Op(t) \in LOADS
  /\ Set(t, Line(t)[2], Read(Op(t), mem, Address(t)))
  /\ Advance(t)
  /\ UNCHANGED <<job, imem, v, vl, mem, reserved, halted, bht, btb, ras>>

Stored(op, a, value) == mem' = (Index(a) :> Merged(op, mem, a, value)) @@ mem

\* Every store drops the reservation (riscv64_proc.v:276), a vector store not.
Store(t) ==
  /\ Op(t) \in STORES
  /\ Stored(Op(t), Address(t), Reg(t, 2))
  /\ reserved' = IF job.fault = "keeps_reservation" THEN reserved ELSE [reserved EXCEPT ![t] = {}]
  /\ Advance(t)
  /\ UNCHANGED <<job, imem, x, v, vl, halted, bht, btb, ras>>

\* <<form, rd, rs1>> and <<form, rd, rs2, rs1>>: the address is rs1 alone.
LoadReserved(t) ==
  /\ Op(t) = "lr.d"
  /\ Set(t, Line(t)[2], Read("ld", mem, Reg(t, 3)))
  /\ reserved' = [reserved EXCEPT ![t] = {Reg(t, 3)}]
  /\ Advance(t)
  /\ UNCHANGED <<job, imem, v, vl, mem, halted, bht, btb, ras>>

StoreConditional(t) ==
  /\ Op(t) = "sc.d"
  /\ LET success == IF job.fault = "any_address" THEN reserved[t] # {}
                    ELSE reserved[t] = {Reg(t, 4)}
     IN  /\ Set(t, Line(t)[2], Truth(~success))
         /\ IF success THEN Stored("sd", Reg(t, 4), Reg(t, 3)) ELSE UNCHANGED mem
  /\ reserved' = [reserved EXCEPT ![t] = {}]
  /\ Advance(t)
  /\ UNCHANGED <<job, imem, v, vl, halted, bht, btb, ras>>

\* <<"amo", op, width, rd, rs2, rs1>>: rd gets the old value, memory the new.
Amo(t) ==
  /\ Op(t) = "amo"
  /\ LET line == Line(t)
         a    == Reg(t, 6)
         old  == Read(line[3].load, mem, a)
         new  == AmoValue(line[2], old, Reg(t, 5), WIDTH[line[3].load])
     IN  /\ Set(t, line[4], old)
         /\ Stored(IF job.fault = "wide_amo" THEN "sd" ELSE line[3].store, a, new)
  /\ reserved' = [reserved EXCEPT ![t] = {}]
  /\ Advance(t)
  /\ UNCHANGED <<job, imem, v, vl, halted, bht, btb, ras>>

\* vsetvli rd, rs1: at most LANES elements, LANES of them for x0.
SetVl(t) ==
  /\ Op(t) = "vsetvli"
  /\ LET avl == Reg(t, 3)
         new == IF Line(t)[3] = 0 \/ LessU(Word(LANES), avl) THEN LANES ELSE Unsigned(avl, 3)
     IN  vl' = [vl EXCEPT ![t] = new] /\ Set(t, Line(t)[2], Word(new))
  /\ Advance(t)
  /\ UNCHANGED <<job, imem, v, mem, reserved, halted, bht, btb, ras>>

\* The elements below vl take those of `result', the others are cleared.
SetV(t, vd, result) ==
  v' = [v EXCEPT ![t][vd] = [i \in LANE |-> IF i < vl[t] THEN result[i] ELSE {}]]

VectorLoad(t) ==
  /\ Op(t) = "vle32"
  /\ LET d == Index(Reg(t, 3)) IN SetV(t, Line(t)[2], [i \in LANE |-> Element(mem, d, i)])
  /\ Advance(t)
  /\ UNCHANGED <<job, imem, x, vl, mem, reserved, halted, bht, btb, ras>>

\* A tail element keeps what memory held.
VectorStore(t) ==
  /\ Op(t) = "vse32"
  /\ LET d == Index(Reg(t, 3))
         e(i) == IF i < vl[t] THEN v[t][Line(t)[2]][i] ELSE Element(mem, d, i)
     IN  mem' = (d :> e(0) \cup Move(e(1), 31, 0, 32)) @@
                (d + 1 :> e(2) \cup Move(e(3), 31, 0, 32)) @@ mem
  /\ Advance(t)
  /\ UNCHANGED <<job, imem, x, v, vl, reserved, halted, bht, btb, ras>>

\* <<form, op, vd, vs2, operand>>: a vector, or an integer register broadcast.
VectorCompute(t) ==
  /\ Op(t) \in {"vv", "vx"}
  /\ LET operand(i) == IF Op(t) = "vv" THEN v[t][Line(t)[5]][i] ELSE Field(Reg(t, 5), 31, 0)
     IN  SetV(t, Line(t)[3], [i \in LANE |-> Alu(Line(t)[2], v[t][Line(t)[4]][i], operand(i), 32)])
  /\ Advance(t)
  /\ UNCHANGED <<job, imem, x, vl, mem, reserved, halted, bht, btb, ras>>

\* vmv.v.x: the out-of-order core's broadcast.
Broadcast(t) ==
  /\ Op(t) = "vmv"
  /\ SetV(t, Line(t)[2], [i \in LANE |-> Field(Reg(t, 3), 31, 0)])
  /\ Advance(t)
  /\ UNCHANGED <<job, imem, x, vl, mem, reserved, halted, bht, btb, ras>>

\* vredsum.vs vd, vs2, vs1: the active elements onto element 0 of vs1.
Reduce(t) ==
  /\ Op(t) = "vredsum"
  /\ LET vs2 == v[t][Line(t)[3]]
         acc[i \in 0 .. LANES] ==
           IF i = 0 THEN v[t][Line(t)[4]][0]
           ELSE IF i - 1 < vl[t] THEN Plus(acc[i - 1], vs2[i - 1], 32) ELSE acc[i - 1]
     IN  v' = [v EXCEPT ![t][Line(t)[2]] =
                 [i \in LANE |-> IF i = 0 THEN acc[LANES] ELSE {}]]
  /\ Advance(t)
  /\ UNCHANGED <<job, imem, x, vl, mem, reserved, halted, bht, btb, ras>>

Branch(t) ==
  /\ Op(t) \in BRANCHES
  /\ LET taken  == Taken(Op(t), Reg(t, 2), Reg(t, 3))
         target == To(t, Line(t)[4])
     IN  /\ Transfer(t, IF taken THEN target ELSE Fall(t), Predicted(t, target, Fall(t)))
         /\ bht' = IF shadow[t] # <<>> THEN bht ELSE Trained(pc[t], taken)
  /\ UNCHANGED <<job, imem, x, v, vl, mem, reserved, halted, btb, ras>>

\* A predicted jalr trains the branch counters too (riscv64_ooo_proc.v:1677),
\* with a comparison of operands it does not have.
Speculates(t) == Op(t) = "jalr" /\ (Pops(t) \/ btb[Entry(pc[t])] >= 0)

Jump(t) ==
  /\ Op(t) \in {"jal", "jalr"}
  /\ LET line   == Line(t)
         target == IF Op(t) = "jal" THEN To(t, line[3])
                   ELSE Unsigned(Plus(Reg(t, 3), Word(line[4]), XLEN) \ {0}, 30)
     IN  /\ Transfer(t, target, Predicted(t, target, target))
         /\ IF shadow[t] # <<>> THEN UNCHANGED <<x, ras, btb, bht>>
            ELSE /\ IF Speculates(t) THEN \E taken \in BOOLEAN : bht' = Trained(pc[t], taken)
                    ELSE UNCHANGED bht
                 /\ Set(t, line[2], Word(Fall(t)))
                 /\ ras' = [ras EXCEPT ![t] =
                              CASE Pops(t) -> Front(@)
                                [] ~Pops(t) /\ Pushes(line) /\ Len(@) < RAS_DEPTH -> Append(@, Fall(t))
                                [] OTHER -> @]
                 /\ btb' = IF Op(t) = "jalr" /\ ~Pops(t)
                           THEN [btb EXCEPT ![Entry(pc[t])] = target] ELSE btb
  /\ UNCHANGED <<job, imem, v, vl, mem, reserved, halted>>

\* The end; in a wrong path, only the end of the path.
Ecall(t) ==
  /\ Op(t) = "ecall"
  /\ IF shadow[t] = <<>>
     THEN halted' = [halted EXCEPT ![t] = TRUE] /\ UNCHANGED <<pc, shadow>>
     ELSE Transfer(t, pc[t], pc[t]) /\ UNCHANGED halted
  /\ UNCHANGED <<job, imem, x, v, vl, mem, reserved, bht, btb, ras>>

Step(t) ==
  /\ ~halted[t]
  /\ \/ Compute(t) \/ LoadConstant(t) \/ Load(t) \/ Store(t)
     \/ LoadReserved(t) \/ StoreConditional(t) \/ Amo(t)
     \/ SetVl(t) \/ VectorLoad(t) \/ VectorStore(t) \/ VectorCompute(t) \/ Broadcast(t) \/ Reduce(t)
     \/ Branch(t) \/ Jump(t) \/ Ecall(t)

\* The testbench stops the clock when every thread has halted.
Finish == (\A t \in Threads : halted[t]) /\ UNCHANGED vars

Next == (\E t \in Threads : Step(t)) \/ Finish

\* The single-cycle core retires an instruction a cycle, and the dispatcher of
\* the SMT core turns to each thread again and again: weak fairness of Step(t),
\* which is enabled until t has halted (anything else shows as a deadlock).
Fairness == \A t \in 1 .. 2 : []<>(t \in Threads => halted[t]) \/ []<><<t \in Threads /\ Step(t)>>_vars

Spec == Init /\ [][Next]_vars /\ Fairness
=============================================================================
