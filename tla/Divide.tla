------------------------------- MODULE Divide -------------------------------
(***************************************************************************)
(* The iterative divider (div_fu.v) and its one-entry reservation station  *)
(* (div_rs.v), which both hardware threads share, with the windows of the  *)
(* reorder buffers that dispatch to it and squash it.                      *)
(*                                                                         *)
(* One step is one clock edge.  Chosen at each edge: what is dispatched,   *)
(* which of the other instructions finish and which of those are branches  *)
(* that were mispredicted, and whether the CDB takes the quotient.         *)
(* A cycle dispatches one instruction, and a thread retires one, where the *)
(* core does up to three.  Registers hold naturals below 2^XLEN; the words *)
(* of the W forms are their low halves.  div_fu.v has XLEN = 64.           *)
(***************************************************************************)
EXTENDS Integers, FiniteSets

CONSTANTS
    Threads,    \* the hardware threads, a subset of {0, 1}
    Depth,      \* entries of each reorder buffer (ROB_DEPTH)
    XLEN,       \* bits of a register, even
    Programs    \* what the threads run: the divisions, and the results of others

ASSUME DivideAssumption ==
    /\ Threads \subseteq {0, 1} /\ Threads # {}
    /\ Depth \in Nat \ {0}
    /\ XLEN \in Nat \ {0} /\ XLEN % 2 = 0

VARIABLES
    fu,           \* the registers of div_fu.v; its busy is fsm # "IDLE"
    rs,           \* the registers of div_rs.v
    head, count,  \* head[t], count[t]: the window of thread t's rob
    rob,          \* rob[t]: its entries, with what the program means by them
    program       \* the program, one of Programs

vars == <<fu, rs, head, count, rob, program>>

Tags  == 0 .. Depth - 1
Regs  == 0 .. 2^XLEN - 1
Ones  == 2^XLEN - 1
HALF  == XLEN \div 2
Ops   == {"div", "divu", "rem", "remu"}
Divs  == [op : Ops, word : BOOLEAN, a : Regs, b : Regs]

ASSUME ProgramsAssumption == Programs \subseteq [divs : SUBSET Divs, others : SUBSET Regs]

Plus(tag, n)     == IF tag + n < Depth THEN tag + n ELSE tag + n - Depth
Age(t, tag)      == IF tag >= head[t] THEN tag - head[t] ELSE tag + Depth - head[t]
InFlight(t, tag) == Age(t, tag) < count[t]
Free(t)          == Plus(head[t], count[t])

(***************************************************************************)
(* div_fu.v: set-up, one iteration, the result.                            *)
(***************************************************************************)
Negative(x) == x >= 2^(XLEN - 1)
Negate(x)   == (2^XLEN - x) % 2^XLEN
SignWord(x) == LET w == x % 2^HALF IN IF w >= 2^(HALF - 1) THEN w + 2^XLEN - 2^HALF ELSE w

Signed(op) == op \in {"div", "rem"}
Effective(op, word, x) ==
    CASE word /\ Signed(op)  -> SignWord(x)
      [] word /\ ~Signed(op) -> x % 2^HALF
      [] ~word               -> x
Least(word) == IF word THEN SignWord(2^(HALF - 1)) ELSE 2^(XLEN - 1)

\* Mutant of Justified: a word is left where it is, padding first.
JustifiedLow(word, A) == A

\* The dividend stands at the top of Q, from where it is shifted into R.
Justified(word, A) == IF word THEN (A % 2^HALF) * 2^HALF ELSE A

\* The registers after start is accepted.  R, Q and D keep their old values
\* on the two paths that skip the iteration.
Accept(op, word, x, y) ==
    LET a    == Effective(op, word, x)
        b    == Effective(op, word, y)
        aneg == Signed(op) /\ Negative(a)
        bneg == Signed(op) /\ Negative(b)
        A    == IF aneg THEN Negate(a) ELSE a
        B    == IF bneg THEN Negate(b) ELSE b
        zero == b = 0
        over == Signed(op) /\ a = Least(word) /\ b = Ones
        set  == [fu EXCEPT !.done = FALSE, !.word = word, !.qneg = aneg # bneg, !.rneg = aneg,
                           !.zero = zero, !.over = over, !.dividend = a]
    IN  IF zero \/ over THEN [set EXCEPT !.fsm = "FINISH"]
        ELSE [set EXCEPT !.fsm = "RUN", !.R = 0, !.D = B, !.count = 0,
                         !.Q = Justified(word, A),
                         !.target = IF word THEN HALF ELSE XLEN]

\* Mutant of LastStep: one iteration too many.
LastStepLate == fu.count = fu.target
LastStep     == fu.count = fu.target - 1

\* {R, Q} << 1, trial subtraction of D, restore if it borrows.
Iterate ==
    LET high  == (2 * fu.R + fu.Q \div 2^(XLEN - 1)) % 2^(XLEN + 1)
        low   == (2 * fu.Q) % 2^XLEN
        trial == (high - fu.D) % 2^(XLEN + 1)
        step  == [fu EXCEPT !.done = FALSE, !.count = @ + 1,
                            !.fsm = IF LastStep THEN "FINISH" ELSE "RUN"]
    IN  IF trial >= 2^XLEN THEN [step EXCEPT !.R = high, !.Q = low]
        ELSE [step EXCEPT !.R = trial, !.Q = low + 1]

Finish ==
    LET q == IF fu.qneg THEN Negate(fu.Q) ELSE fu.Q
        r == IF fu.rneg THEN Negate(fu.R % 2^XLEN) ELSE fu.R % 2^XLEN
        Give(x, y) == [fu EXCEPT !.done = TRUE, !.fsm = "IDLE", !.quotient = x, !.remainder = y]
    IN  CASE fu.zero -> Give(Ones, fu.dividend)
          [] ~fu.zero /\ fu.over -> Give(fu.dividend, 0)
          [] ~fu.zero /\ ~fu.over /\ fu.word  -> Give(SignWord(q), SignWord(r))
          [] ~fu.zero /\ ~fu.over /\ ~fu.word -> Give(q, r)

(***************************************************************************)
(* div_rs.v.                                                               *)
(***************************************************************************)
FuBusy == fu.fsm # "IDLE"

\* Mutant of Full: only the slot counts, not the divider behind it.
FullSlotOnly == rs.busy

\* No allocation while the divider finishes a division that was squashed.
Full == rs.busy \/ FuBusy

Start    == rs.busy /\ rs.ready[1] /\ rs.ready[2] /\ ~rs.started /\ ~FuBusy
ReqValid == rs.busy /\ rs.have
ReqValue == IF rs.op \in {"rem", "remu"} THEN rs.r ELSE rs.q

FuNext ==
    fu' = CASE fu.fsm = "IDLE" /\ Start  -> Accept(rs.op, rs.word, rs.val[1], rs.val[2])
            [] fu.fsm = "IDLE" /\ ~Start -> [fu EXCEPT !.done = FALSE]
            [] fu.fsm = "RUN"    -> Iterate
            [] fu.fsm = "FINISH" -> Finish

\* Mutant of Younger: tags are compared without their age.
YoungerByTag(t, tag, than) == tag > than
Younger(t, tag, than) == Age(t, tag) > Age(t, than)

\* Mutant of Allocated: started keeps its value.
AllocatedStarted(t, op, word, src) ==
    [rs EXCEPT !.busy = TRUE, !.tid = t, !.op = op, !.word = word, !.dest = Free(t),
               !.ready = [i \in 1 .. 2 |-> src[i].ready], !.val = [i \in 1 .. 2 |-> src[i].val],
               !.tag = [i \in 1 .. 2 |-> src[i].tag], !.have = FALSE]
Allocated(t, op, word, src) ==
    [rs EXCEPT !.busy = TRUE, !.tid = t, !.op = op, !.word = word, !.dest = Free(t),
               !.ready = [i \in 1 .. 2 |-> src[i].ready], !.val = [i \in 1 .. 2 |-> src[i].val],
               !.tag = [i \in 1 .. 2 |-> src[i].tag], !.started = FALSE, !.have = FALSE]

\* What the slot takes from the broadcasts: operand i's producer may be there.
Heard(cdb, i) == {c \in cdb : rs.busy /\ ~rs.ready[i] /\ c.tid = rs.tid /\ c.tag = rs.tag[i]}
Snooped(cdb) ==
    [rs EXCEPT !.ready = [i \in 1 .. 2 |-> rs.ready[i] \/ Heard(cdb, i) # {}],
               !.val   = [i \in 1 .. 2 |-> IF Heard(cdb, i) = {} THEN rs.val[i]
                                           ELSE (CHOOSE c \in Heard(cdb, i) : TRUE).value]]

\* The assignments of the always block in their order: the slot as allocation
\* or snooping leaves it, start, the answer of the divider, grant, squash.
\* missed[t] is the tag of the branch t mispredicted, or -1.
SlotNext(slot, grant, missed) ==
    rs' = [slot EXCEPT
             !.started = @ \/ Start,
             !.have    = @ \/ fu.done,
             !.q       = IF fu.done THEN fu.quotient ELSE @,
             !.r       = IF fu.done THEN fu.remainder ELSE @,
             !.busy    = /\ @
                         /\ ~(ReqValid /\ grant)
                         /\ ~(rs.busy /\ missed[rs.tid] >= 0
                                      /\ Younger(rs.tid, rs.dest, missed[rs.tid]))]

(***************************************************************************)
(* The windows.                                                            *)
(***************************************************************************)
Other(v) == [kind |-> "other", op |-> "div", word |-> FALSE, a |-> 0, b |-> 0, late |-> FALSE,
             value |-> v, done |-> FALSE]
\* late: the divider raised done for another division in the cycle in which
\* this one was dispatched.
Division(d) ==
    [kind |-> "div", op |-> d.op, word |-> d.word, a |-> d.a, b |-> d.b, late |-> fu.done,
     value |-> 0, done |-> FALSE]

Running == {p \in Threads \X Tags : /\ InFlight(p[1], p[2]) /\ rob[p[1]][p[2]].kind = "other"
                                    /\ ~rob[p[1]][p[2]].done}

\* Where an operand v of thread t may come from: the register file, or an
\* instruction in flight, whose result may be broadcast at this very edge.
Ready(t, g, finished) == rob[t][g].done \/ <<t, g>> \in finished
Sources(t, v, finished) ==
    {[ready |-> TRUE, val |-> v, tag |-> 0]}
    \cup {[ready |-> Ready(t, g, finished), val |-> IF Ready(t, g, finished) THEN v ELSE 0, tag |-> g] :
             g \in {x \in Tags : InFlight(t, x) /\ rob[t][x].kind = "other" /\ rob[t][x].value = v}}

Retired(t) == IF count[t] > 0 /\ rob[t][head[t]].done THEN 1 ELSE 0
Kept(t, missed) == (IF missed[t] >= 0 THEN Age(t, missed[t]) + 1 ELSE count[t]) - Retired(t)

\* An entry that was dispatched earlier, once the buses have carried results.
Completed(t, g, finished, grant) ==
    IF <<t, g>> \in finished THEN [rob[t][g] EXCEPT !.done = TRUE]
    ELSE IF ReqValid /\ grant /\ rs.tid = t /\ rs.dest = g
         THEN [rob[t][g] EXCEPT !.done = TRUE, !.value = ReqValue]
         ELSE rob[t][g]

\* The windows after an edge; fresh[t] is the entry dispatched, if any.
WindowNext(finished, grant, missed, fresh) ==
    /\ head'  = [t \in Threads |-> Plus(head[t], Retired(t))]
    /\ count' = [t \in Threads |-> Kept(t, missed) + Cardinality(fresh[t])]
    /\ rob'   = [t \in Threads |-> [g \in Tags |->
                   IF fresh[t] # {} /\ g = Free(t) THEN CHOOSE e \in fresh[t] : TRUE
                   ELSE Completed(t, g, finished, grant)]]

None == [t \in Threads |-> {}]
Broadcasts(finished) == {[tid |-> p[1], tag |-> p[2], value |-> rob[p[1]][p[2]].value] : p \in finished}

\* A thread that mispredicts in this cycle does not dispatch.
Room(t, missed) == count[t] < Depth /\ missed[t] < 0

Quiet(finished, grant, missed) ==
    /\ SlotNext(Snooped(Broadcasts(finished)), grant, missed)
    /\ WindowNext(finished, grant, missed, None)

DispatchOther(finished, grant, missed) ==
    \E t \in Threads, v \in program.others :
        /\ Room(t, missed)
        /\ SlotNext(Snooped(Broadcasts(finished)), grant, missed)
        /\ WindowNext(finished, grant, missed, [None EXCEPT ![t] = {Other(v)}])

DispatchDivision(finished, grant, missed) ==
    \E t \in Threads, d \in program.divs :
        /\ Room(t, missed) /\ ~Full
        /\ \E x \in Sources(t, d.a, finished), y \in Sources(t, d.b, finished) :
              SlotNext(Allocated(t, d.op, d.word, <<x, y>>), grant, missed)
        /\ WindowNext(finished, grant, missed, [None EXCEPT ![t] = {Division(d)}])

\* One edge.  Two of the three buses carry other results.
Edge(finished, grant, missed) ==
    /\ FuNext
    /\ UNCHANGED program
    /\ \/ Quiet(finished, grant, missed)
       \/ DispatchOther(finished, grant, missed)
       \/ DispatchDivision(finished, grant, missed)

Finishing == {F \in SUBSET Running : Cardinality(F) <= 2}
Misses(F) == {m \in [Threads -> Tags \cup {-1}] : \A t \in Threads : m[t] >= 0 => <<t, m[t]>> \in F}

Next == \E F \in Finishing, grant \in BOOLEAN : \E missed \in Misses(F) : Edge(F, grant, missed)

Init ==
    /\ program \in Programs
    /\ fu = [fsm |-> "IDLE", done |-> FALSE, word |-> FALSE, qneg |-> FALSE, rneg |-> FALSE,
             zero |-> FALSE, over |-> FALSE, dividend |-> 0, target |-> 0, count |-> 0,
             R |-> 0, Q |-> 0, D |-> 0, quotient |-> 0, remainder |-> 0]
    /\ rs = [busy |-> FALSE, tid |-> 0, op |-> "div", word |-> FALSE,
             ready |-> <<FALSE, FALSE>>, val |-> <<0, 0>>, tag |-> <<0, 0>>, dest |-> 0,
             started |-> FALSE, have |-> FALSE, q |-> 0, r |-> 0]
    /\ head = [t \in Threads |-> 0] /\ count = [t \in Threads |-> 0]
    /\ rob = [t \in Threads |-> [g \in Tags |-> Other(0)]]

Spec == Init /\ [][Next]_vars
=============================================================================
