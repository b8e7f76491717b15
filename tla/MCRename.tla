------------------------------ MODULE MCRename ------------------------------
(***************************************************************************)
(* Instances of the renaming core for TLC.                                 *)
(***************************************************************************)
EXTENDS RenameProperties

Alu(d, s)   == [kind |-> "alu", rd |-> d, src |-> s]
Store(s)    == [kind |-> "store", rd |-> 0, src |-> s]
Branch(s)   == [kind |-> "branch", rd |-> 0, src |-> s]
Jal(d)      == [kind |-> "jal", rd |-> d, src |-> 0]
Jalr(d, s)  == [kind |-> "jalr", rd |-> d, src |-> s]
Ecall       == [kind |-> "ecall", rd |-> 0, src |-> 0]

Core  == {Alu(1, 2), Alu(2, 1), Store(1), Branch(1), Jal(1), Jalr(0, 1), Ecall}
Loop  == {Alu(1, 0), Alu(1, 1), Branch(1)}

\* What the core can still read while its tables are in step (WindowOK,
\* RenamingOK, NoLostWakeup): states that agree on it are the same state.
\* Left out are entries out of flight, results not yet written, tags of idle
\* mappings, a checkpoint or a prediction nobody will use, the last group.
Known(t) ==
  LET e == rob[t]
  IN  IF ~InFlight(t) THEN <<>>
      ELSE <<e.insn, e.done,
             IF e.done /\ Kind(t) \in Broadcasts THEN e.value ELSE 0,
             IF e.done /\ Kind(t) \in {"branch", "jalr"} THEN e.went ELSE 0>>
Mapped(m) == [r \in Regs |-> IF m[r].busy THEN m[r].tag ELSE NoTag]

View == <<head, count, [t \in Tags |-> Known(t)], Mapped(rat), rf, rs, br,
          IF spec_active THEN <<Mapped(cp), predicted>> ELSE <<>>, jalr_stall,
          active, pc, pc_latched, fetch_valid, path, torn>>

\* Exploration stops at a torn rollback; runs without it show what follows.
Settled == ~torn
=============================================================================
