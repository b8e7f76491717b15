------------------------------- MODULE InOrder -------------------------------
(***************************************************************************)
(* What the core promises its program, whatever it does inside: at each    *)
(* cycle it retires a group of at most Width instructions, each of which   *)
(* was fetched on the way the program really went and leaves in the        *)
(* registers what executing the program one instruction at a time would    *)
(* leave there. The out-of-order core (module Rename) implements this.     *)
(***************************************************************************)
EXTENDS Insn

CONSTANTS Width      \* instructions retired in one cycle at most

VARIABLES regs,      \* the architectural registers
          path,      \* the way the last retired branch or indirect jump went
          retired    \* the instructions retired in the last cycle, in order

vars == <<regs, path, retired>>

Fetched == [kind : Kinds, rd : 0 .. NRegs, src : 0 .. NRegs, path : Paths]

Init == regs = [r \in Regs |-> 0] /\ path = 0 /\ retired = <<>>

Retire ==
  /\ retired' \in Seq(Fetched) /\ Len(retired') <= Width
  /\ LET m == ExecuteAll([regs |-> regs, path |-> path, ok |-> TRUE], retired')
     IN  m.ok /\ regs' = m.regs /\ path' = m.path

Spec == Init /\ [][Retire]_vars
=============================================================================
