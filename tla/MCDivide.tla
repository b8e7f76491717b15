------------------------------ MODULE MCDivide ------------------------------
(***************************************************************************)
(* An instance of the divider for TLC.                                     *)
(***************************************************************************)
EXTENDS DivideProperties

Div(o, w, x, y) == [op |-> o, word |-> w, a |-> x, b |-> y]
Program(divs, others) == [divs |-> divs, others |-> others]

\* Every division there is, again and again; and divisions of different
\* lengths and results among instructions that feed and squash them.
EachAlone == {Program({d}, {}) : d \in Divs}
Mixed     == Program({Div("remu", TRUE, 7, 2), Div("divu", FALSE, 7, 0)}, {7})
All       == EachAlone \cup {Mixed}

\* What a later edge or a property can read: registers that are idle and
\* entries out of flight are left out.
View ==
    <<CASE fu.fsm # "IDLE" -> fu
        [] fu.fsm = "IDLE" /\ fu.done -> [quotient |-> fu.quotient, remainder |-> fu.remainder]
        [] OTHER -> <<>>,
      IF ~rs.busy THEN <<>>
      ELSE <<rs.tid, rs.op, rs.word, rs.dest, rs.started, rs.have,
             [i \in 1 .. 2 |-> IF rs.ready[i] THEN rs.val[i] ELSE rs.tag[i]], rs.ready,
             IF rs.have THEN ReqValue ELSE 0>>,
      head, count,
      [t \in Threads |-> [g \in Tags |-> IF InFlight(t, g) THEN rob[t][g] ELSE <<>>]], program>>
=============================================================================
