-------------------------------- MODULE Insn --------------------------------
(***************************************************************************)
(* What one instruction is to the out-of-order machinery: which unit takes *)
(* it, the register it writes (0: none) and the register it reads (0: x0). *)
(* The arithmetic is abstracted to two total functions of the operand: the *)
(* result put on the CDB, and the way a branch or an indirect jump goes.   *)
(* Two values and two ways are enough to tell a right operand from a stale *)
(* one. An instruction has ONE register operand here: rs1 and rs2 are read *)
(* by textually identical logic (riscv64_ooo_proc.v:1958-2065).            *)
(***************************************************************************)
EXTENDS Naturals, Sequences, SequencesExt

CONSTANTS NRegs,   \* architectural registers besides x0
          NVals    \* values a register holds

ASSUME InsnAssumption == NRegs \in Nat \ {0} /\ NVals \in Nat \ {0, 1}

Regs   == 1 .. NRegs
Values == 0 .. NVals - 1
Paths  == {0, 1}              \* ways out of a branch or an indirect jump

\* "alu" stands for every unit whose result is broadcast (ALU, multiplier,
\* divider, load); "ecall" is routed to the ALU as ADD(0,0).
Kinds == {"alu", "store", "branch", "jal", "jalr", "ecall"}

\* Instructions that go to branch_rs, and only in lane 0.
BranchClass == {"branch", "jal", "jalr"}

\* Instructions that put a result on the CDB.
Broadcasts == {"alu", "ecall", "jal", "jalr"}

Insns == [kind : Kinds, rd : 0 .. NRegs, src : 0 .. NRegs]

\* A return address does not depend on the operand; an ALU result does.
Result(i, v) == IF i.kind \in {"jal", "jalr"} THEN 0 ELSE (v + 1) % NVals

\* The way a branch or an indirect jump goes, from its operand.
Outcome(v) == v % 2

(***************************************************************************)
(* In-order execution of one instruction from an architectural state       *)
(* m = [regs, path, ok]: path is the way the program counter has gone last, *)
(* ok stays true as long as each instruction was fetched on that way.      *)
(***************************************************************************)
Operand(m, i) == IF i.src = 0 THEN 0 ELSE m.regs[i.src]

Execute(m, i) ==
  [regs |-> IF i.rd = 0 THEN m.regs
            ELSE [m.regs EXCEPT ![i.rd] = Result(i, Operand(m, i))],
   path |-> IF i.kind \in {"branch", "jalr"} THEN Outcome(Operand(m, i)) ELSE m.path,
   ok   |-> m.ok /\ i.path = m.path]

\* In-order execution of s, one instruction after another, from m.
ExecuteAll(m, s) ==
  LET after[i \in 0 .. Len(s)] == IF i = 0 THEN m ELSE Execute(after[i - 1], s[i])
  IN  after[Len(s)]
=============================================================================
