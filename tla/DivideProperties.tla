-------------------------- MODULE DivideProperties --------------------------
(***************************************************************************)
(* What the divider owes the program: each division gets the quotient or   *)
(* remainder of its own operands, as the single-cycle core computes it,    *)
(* whatever was squashed while the divider could not be stopped.  It does  *)
(* not do so always: DivisionsRight fails in two ways, UndisputedRight is  *)
(* what is left.                                                           *)
(***************************************************************************)
EXTENDS Divide, Sequences

TypeOK ==
    /\ fu \in [fsm : {"IDLE", "RUN", "FINISH"}, done : BOOLEAN, word : BOOLEAN, qneg : BOOLEAN,
               rneg : BOOLEAN, zero : BOOLEAN, over : BOOLEAN, dividend : Regs,
               target : {0, HALF, XLEN}, count : 0 .. XLEN, R : 0 .. 2^(XLEN + 1) - 1, Q : Regs,
               D : Regs, quotient : Regs, remainder : Regs]
    /\ rs \in [busy : BOOLEAN, tid : {0, 1}, op : Ops, word : BOOLEAN, ready : Seq(BOOLEAN),
               val : Seq(Regs), tag : Seq(Tags), dest : Tags, started : BOOLEAN,
               have : BOOLEAN, q : Regs, r : Regs]
    /\ Len(rs.ready) = 2 /\ Len(rs.val) = 2 /\ Len(rs.tag) = 2
    /\ head \in [Threads -> Tags] /\ count \in [Threads -> 0 .. Depth]
    /\ rob \in [Threads -> [Tags -> [kind : {"div", "other"}, op : Ops, word : BOOLEAN, a : Regs,
                                     b : Regs, late : BOOLEAN, value : Regs, done : BOOLEAN]]]
    /\ program \in Programs

(***************************************************************************)
(* execute.v, the reference: the division of the low w bits, rounded       *)
(* towards zero, sign-extended in the *W forms.                            *)
(***************************************************************************)
Integer(x, w)     == IF x >= 2^(w - 1) THEN x - 2^w ELSE x
Abs(n)            == IF n < 0 THEN -n ELSE n
Towards0(m, n)    == LET q == Abs(m) \div Abs(n) IN IF (m < 0) # (n < 0) THEN -q ELSE q
Quotient(m, n)    == IF n = 0 THEN -1 ELSE Towards0(m, n)
Remainder(m, n)   == IF n = 0 THEN m ELSE m - n * Towards0(m, n)

Reference(e) ==
    LET w == IF e.word THEN HALF ELSE XLEN
        m == IF Signed(e.op) THEN Integer(e.a % 2^w, w) ELSE e.a % 2^w
        n == IF Signed(e.op) THEN Integer(e.b % 2^w, w) ELSE e.b % 2^w
        v == (IF e.op \in {"div", "divu"} THEN Quotient(m, n) ELSE Remainder(m, n)) % 2^w
    IN  IF e.word THEN SignWord(v) ELSE v

\* The quotient bits found so far times the divisor, and the remainder so far,
\* are the bits of the dividend seen so far (div_fu.v, "Restoring-division
\* datapath"; "hand-tracing a small (n=2, register=4) example"): at each step
\* the remainder is below the divisor, so that one subtraction is enough.
PartialDivision ==
    fu.fsm # "IDLE" /\ ~fu.zero /\ ~fu.over =>
        LET a    == IF fu.rneg THEN Negate(fu.dividend) ELSE fu.dividend
            seen == a \div 2^(fu.target - fu.count)
        IN  /\ fu.R < fu.D
            /\ seen = (fu.Q % 2^fu.count) * fu.D + fu.R

\* The slot holds exactly the division in flight that has no result yet, or
\* nothing: a squashed division has left it, so it never asks for the CDB with
\* a tag that is somebody else's by then (div_rs.v:60-65).
SlotMatchesWindow ==
    /\ rs.busy => /\ InFlight(rs.tid, rs.dest)
                  /\ LET e == rob[rs.tid][rs.dest]
                     IN  e.kind = "div" /\ ~e.done /\ e.op = rs.op /\ e.word = rs.word
    /\ \A t \in Threads, g \in Tags :
          InFlight(t, g) /\ rob[t][g].kind = "div" /\ ~rob[t][g].done =>
              rs.busy /\ rs.tid = t /\ rs.dest = g

Finished(t, g) == InFlight(t, g) /\ rob[t][g].kind = "div" /\ rob[t][g].done

\* A division that has finished holds the result of its own operands, "same
\* convention already implemented for the scalar M extension
\* (RV64I/src/execute.v)" (div_fu.v:22), although the divider cannot be aborted
\* and may still have worked on a squashed one when it was dispatched: Full
\* lasts "until that stale completion has nowhere left to land" (div_rs.v:90).
DivisionsRight ==
    \A t \in Threads, g \in Tags : Finished(t, g) => rob[t][g].value = Reference(rob[t][g])

\* remuw by zero of a word with its top bit set: execute.v sign-extends the
\* word it returns (131, 221), the divider does not (div_fu.v:72, 158).
Disputed(e) == e.op = "remu" /\ e.word /\ e.b % 2^HALF = 0 /\ e.a % 2^HALF >= 2^(HALF - 1)

\* DivisionsRight for every division but the two kinds that break it: those on
\* which the two cores disagree, and those dispatched in the very cycle in
\* which a squashed one finished, when Full has already fallen.
UndisputedRight ==
    \A t \in Threads, g \in Tags :
        LET e == rob[t][g]
        IN  Finished(t, g) /\ ~e.late /\ ~Disputed(e) => e.value = Reference(e)

(***************************************************************************)
(* Progress.  The clock ticks; units other than the divider take finite    *)
(* time, and the arbiter grants the oldest instruction of a thread when it *)
(* has a result (riscv64_ooo_proc.v:1032-1107): WF of the edges at which   *)
(* it is granted, spelled out, since a result waits until it is granted.   *)
(***************************************************************************)
Answerable(t) == \/ <<t, head[t]>> \in Running
                 \/ ReqValid /\ rs.tid = t /\ rs.dest = head[t]

LiveSpec == Spec /\ []<><<TRUE>>_vars /\ \A t \in Threads : []<>~Answerable(t)

\* The oldest instruction of a thread retires: no division waits for ever for
\* the divider to be done with a squashed one, for an operand, or for the other
\* thread, which shares the slot.
OldestRetires ==
    \A t \in Threads, g \in Tags :
        (count[t] > 0 /\ head[t] = g) ~> (count[t] = 0 \/ head[t] # g)
=============================================================================
