------------------------------ MODULE L1Cache ------------------------------
(***************************************************************************)
(* One private L1 data cache (RV64I_OOO/src/l1_cache.v) as a clocked       *)
(* machine: L1Clock gives the registers after a clock edge from the        *)
(* registers before it and the values on the input ports.                  *)
(*                                                                         *)
(* A byte address is abstracted to the number of the line that holds it;   *)
(* a line is a function from its words to data, so that merge_write really *)
(* replaces one word and keeps the others.  A tag register holds the line  *)
(* number it stands for.  Faults of the stored data are not modelled: the  *)
(* ECC decoders return what was written.                                   *)
(***************************************************************************)
EXTENDS Naturals

CONSTANTS
    NLines,    \* lines of the address space
    L1Sets,    \* parameter LINES of l1_cache.v: direct-mapped sets
    Words,     \* the words of a line that stores and loads name
    Data       \* the values of a word

ASSUME GeometryAssumption ==
    /\ NLines \in Nat \ {0}
    /\ L1Sets \in Nat \ {0}
    /\ Words # {}
    /\ Data # {}

Lines == 0 .. NLines - 1
LineData == [Words -> Data]
L1Index == 0 .. L1Sets - 1
L1IndexOf(line) == line % L1Sets
\* The lines are the whole address space, so that the sum wraps at its end as a
\* sum of ADDR_BITS bits does.  Mutant of NextLine: the sum is one bit longer.
NextLineUnbounded(line) == line + 1
NextLine(line) == (line + 1) % NLines

MESI == {"I", "S", "E", "M"}
L1States == {"IDLE", "EVICT_WB", "WAIT", "DONE_R", "DONE_W"}
ReqTypes == {"BUSRD", "BUSRDX", "WB", "UPGR"}

AnyWord == CHOOSE w \in Words : TRUE
AnyData == CHOOSE d \in Data : TRUE
AnyLineData == [w \in Words |-> AnyData]

(* What the CPU side presents at an edge: nothing, a load, or the store   *)
(* that drains from the store buffer (never both: lsq.v raises one).      *)
NoOp == [kind |-> "none", line |-> 0, word |-> AnyWord, data |-> AnyData]
CpuOp == [kind : {"none", "read", "write"}, line : Lines, word : Words, data : Data]
CpuReads == {[kind |-> "read", line |-> l, word |-> AnyWord, data |-> AnyData] : l \in Lines}
CpuWrites == {[kind |-> "write", line |-> l, word |-> w, data |-> d] :
                 l \in Lines, w \in Words, d \in Data}
CpuOps == {NoOp} \cup CpuReads \cup CpuWrites

Request == [valid : BOOLEAN, type : ReqTypes, line : Lines, wb : LineData]
Response == [valid : BOOLEAN, data : LineData, exclusive : BOOLEAN]
Snoop == [valid : BOOLEAN, invalidate : BOOLEAN, line : Lines]

L1Type ==
    [state : [L1Index -> MESI], tag : [L1Index -> Lines], line : [L1Index -> LineData],
     fsm : L1States, op : CpuOp, req : Request,
     is_prefetch : BOOLEAN, prefetch_pending : BOOLEAN, prefetch_line : Lines]

(* Reset state.  The arrays tag and line have no reset value; they are    *)
(* never read while the set is I, so any value serves.                    *)
L1Reset ==
    [state |-> [i \in L1Index |-> "I"], tag |-> [i \in L1Index |-> 0],
     line |-> [i \in L1Index |-> AnyLineData], fsm |-> "IDLE", op |-> NoOp,
     req |-> [valid |-> FALSE, type |-> "BUSRD", line |-> 0, wb |-> AnyLineData],
     is_prefetch |-> FALSE, prefetch_pending |-> FALSE, prefetch_line |-> 0]

Holds(s, line) == s.state[L1IndexOf(line)] # "I" /\ s.tag[L1IndexOf(line)] = line
StateOf(s, line) == IF Holds(s, line) THEN s.state[L1IndexOf(line)] ELSE "I"
MergeWrite(line, op) == [line EXCEPT ![op.word] = op.data]

(***************************************************************************)
(* The two combinational ports: the snoop port, which L2 reads and which   *)
(* answers whatever the FSM is doing, and the hit-only second load port.   *)
(***************************************************************************)
SnoopHit(s, snoop) == snoop.valid /\ Holds(s, snoop.line)
SnoopDirty(s, snoop) == SnoopHit(s, snoop) /\ StateOf(s, snoop.line) = "M"
SnoopData(s, snoop) == s.line[L1IndexOf(snoop.line)]
Read2Hit(s, line) == Holds(s, line)
Read2Data(s, line) == s.line[L1IndexOf(line)]

(* State bits once the snoop of this cycle is applied; the assignments of *)
(* the FSM to the same set come later in the always block and override it.*)
Downgraded(s, snoop) ==
    LET i == L1IndexOf(snoop.line) IN
    IF ~SnoopHit(s, snoop) THEN s.state
    ELSE [s.state EXCEPT ![i] = IF snoop.invalidate THEN "I" ELSE "S"]

(***************************************************************************)
(* ST_IDLE: the operation presented by the CPU is decided on the state     *)
(* before the edge; st is the state array with the snoop applied.          *)
(***************************************************************************)
Ask(s, type, line) == [s.req EXCEPT !.valid = TRUE, !.type = type, !.line = line]

WriteHit(s, op, st) ==
    LET i == L1IndexOf(op.line) IN
    [s EXCEPT !.state = [st EXCEPT ![i] = "M"],
              !.line[i] = MergeWrite(@, op),
              !.fsm = "DONE_W"]

UpgradeShared(s, op, st) ==
    [s EXCEPT !.state = st, !.op = op, !.req = Ask(s, "UPGR", op.line), !.fsm = "WAIT"]

\* Mutant of MissClean: the old copy stays visible while the miss is out.
MissCleanKeepsCopy(s, op, st, prefetch) ==
    [s EXCEPT !.state = st, !.op = op,
              !.is_prefetch = IF op.kind = "read" THEN prefetch ELSE @,
              !.req = Ask(s, IF op.kind = "write" THEN "BUSRDX" ELSE "BUSRD", op.line),
              !.fsm = "WAIT"]

(* Fetch op.line over a set whose old copy is clean: dropped silently.    *)
MissClean(s, op, st, prefetch) ==
    [s EXCEPT !.state = [st EXCEPT ![L1IndexOf(op.line)] = "I"], !.op = op,
              !.is_prefetch = IF op.kind = "read" THEN prefetch ELSE @,
              !.req = Ask(s, IF op.kind = "write" THEN "BUSRDX" ELSE "BUSRD", op.line),
              !.fsm = "WAIT"]

(* The set holds a dirty copy of another line: write it back first.       *)
MissDirty(s, op, st) ==
    LET i == L1IndexOf(op.line) IN
    [s EXCEPT !.state = [st EXCEPT ![i] = "I"], !.op = op,
              !.is_prefetch = IF op.kind = "read" THEN FALSE ELSE @,
              !.req = [valid |-> TRUE, type |-> "WB", line |-> s.tag[i], wb |-> s.line[i]],
              !.fsm = "EVICT_WB"]

PrefetchOp(s) == [NoOp EXCEPT !.kind = "read", !.line = s.prefetch_line]
PrefetchWorks(s) == StateOf(s, s.prefetch_line) = "I"
                    /\ s.state[L1IndexOf(s.prefetch_line)] # "M"

VictimDirty(s, line) == s.state[L1IndexOf(line)] = "M"

Accept(s, op, st) ==
    CASE op.kind = "read" /\ Holds(s, op.line) ->
            [s EXCEPT !.state = st, !.is_prefetch = FALSE, !.fsm = "DONE_R"]
      [] op.kind = "write" /\ StateOf(s, op.line) \in {"M", "E"} -> WriteHit(s, op, st)
      [] op.kind = "write" /\ StateOf(s, op.line) = "S" -> UpgradeShared(s, op, st)
      [] op.kind # "none" /\ ~Holds(s, op.line) /\ VictimDirty(s, op.line) ->
            MissDirty(s, op, st)
      [] op.kind # "none" /\ ~Holds(s, op.line) /\ ~VictimDirty(s, op.line) ->
            MissClean(s, op, st, FALSE)
      [] op.kind = "none" /\ s.prefetch_pending /\ PrefetchWorks(s) ->
            [MissClean(s, PrefetchOp(s), st, TRUE) EXCEPT !.prefetch_pending = FALSE]
      [] op.kind = "none" /\ ~(s.prefetch_pending /\ PrefetchWorks(s)) ->
            [s EXCEPT !.state = st, !.prefetch_pending = FALSE]

(***************************************************************************)
(* ST_EVICT_WB and ST_WAIT: the answer of L2.                              *)
(***************************************************************************)
\* Mutant of WritebackDone: the refill is not requested.
WritebackDoneDropsRefill(s, st) ==
    [s EXCEPT !.state = st, !.fsm = "WAIT", !.req.valid = FALSE]

WritebackDone(s, st) ==
    [s EXCEPT !.state = st, !.fsm = "WAIT",
              !.req = Ask(s, IF s.op.kind = "write" THEN "BUSRDX" ELSE "BUSRD", s.op.line)]

(* op_write_value: an upgrade merges into the stored copy of this L1, a   *)
(* write fill into the line L2 returns; a read fill takes that line as is.*)
FillValue(s, resp) ==
    IF s.req.type = "UPGR" THEN MergeWrite(s.line[L1IndexOf(s.op.line)], s.op)
    ELSE IF s.op.kind = "write" THEN MergeWrite(resp.data, s.op)
    ELSE resp.data

Filled(s, resp, st) ==
    LET i == L1IndexOf(s.op.line) IN
    [s EXCEPT
        !.state = [st EXCEPT ![i] = IF s.op.kind = "write" THEN "M"
                                    ELSE IF resp.exclusive THEN "E" ELSE "S"],
        !.tag = IF s.req.type = "UPGR" THEN @ ELSE [@ EXCEPT ![i] = s.op.line],
        !.line = [@ EXCEPT ![i] = FillValue(s, resp)],
        !.req = [@ EXCEPT !.valid = FALSE],
        !.fsm = IF s.op.kind = "write" THEN "DONE_W" ELSE "DONE_R"]

(* A demand fill arms the prefetch of the line after it.                  *)
ArmPrefetch(s, t) ==
    IF s.op.kind = "read" /\ ~s.is_prefetch
    THEN [t EXCEPT !.prefetch_pending = TRUE, !.prefetch_line = NextLine(s.op.line)]
    ELSE t

L1Clock(s, op, snoop, resp) ==
    LET st == Downgraded(s, snoop) IN
    CASE s.fsm = "IDLE" -> Accept(s, op, st)
      [] s.fsm = "EVICT_WB" /\ resp.valid -> WritebackDone(s, st)
      [] s.fsm = "WAIT" /\ resp.valid -> ArmPrefetch(s, Filled(s, resp, st))
      [] s.fsm \in {"EVICT_WB", "WAIT"} /\ ~resp.valid -> [s EXCEPT !.state = st]
      [] s.fsm \in {"DONE_R", "DONE_W"} -> [s EXCEPT !.state = st, !.fsm = "IDLE"]

(* The store whose data reaches the line array at this edge, if any.      *)
CompletesWrite(s, op, resp) ==
    \/ s.fsm = "IDLE" /\ op.kind = "write" /\ StateOf(s, op.line) \in {"M", "E"}
    \/ s.fsm = "WAIT" /\ resp.valid /\ s.op.kind = "write"
CompletedWrite(s, op) == IF s.fsm = "IDLE" THEN op ELSE s.op
=============================================================================
