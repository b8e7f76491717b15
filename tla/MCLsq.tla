------------------------------- MODULE MCLsq -------------------------------
(***************************************************************************)
(* Instances of the load/store queue for TLC.                              *)
(***************************************************************************)
EXTENDS LsqProperties

\* Stores of two values to the doubleword that is loaded, and one elsewhere
\* for loads to overtake.
Load(d)     == Insn("load", d, "lo", 0)
Store(d, v) == Insn("store", d, "lo", v)
Memory == {Load(0), Store(0, 0), Store(0, 1), Store(1, 1)}

\* Stores of one half, and of both, of the same doubleword.
Widths == {Store(0, 0), Insn("store", 0, "all", 1)}

\* Branches as well, to squash loads that are out and stores that wait.
Branchy == {Branch, Load(0), Store(0, 1)}
Full    == Memory \cup {Branch}

\* What a later edge or a property can read: contents of idle registers and
\* of entries out of flight are left out.
View ==
    <<head, count,
      [t \in Threads |-> [tag \in Tags |->
         IF ~InFlight(t, tag) THEN <<>>
         ELSE <<rob[t][tag].insn, rob[t][tag].done,
                IF rob[t][tag].insn.kind = "load" /\ rob[t][tag].done
                THEN rob[t][tag].value ELSE <<>> >>]],
      slots, [b \in Buffer |-> IF sbuf[b].valid THEN sbuf[b] ELSE <<>>],
      IF out.valid THEN out ELSE <<>>, IF drain.valid THEN drain ELSE <<>>,
      IF l1.fsm \in {"IDLE", "OTHER"} THEN <<l1.fsm>> ELSE <<l1>>, mem, arch, torn>>

\* Exploration stops at a collision; runs without it show what follows.
Settled == ~torn
=============================================================================
