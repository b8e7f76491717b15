---------------------------- MODULE MCCoherence ----------------------------
(***************************************************************************)
(* Instances of CoherenceProperties for TLC.  Live is the part of the      *)
(* registers that a later step or a property can still read: two states    *)
(* that agree on it behave alike, so the runs tell states apart by it.     *)
(***************************************************************************)
EXTENDS CoherenceProperties

LiveSets(s) == [i \in L1Index |->
    [state |-> s.state[i],
     tag |-> IF s.state[i] = "I" THEN 0 ELSE s.tag[i],
     line |-> IF /\ s.state[i] = "I"
                 /\ ~(s.fsm = "WAIT" /\ s.req.type = "UPGR" /\ L1IndexOf(s.op.line) = i)
              THEN AnyLineData ELSE s.line[i]]]

LiveL1(s) ==
    LET waiting == s.fsm \in {"EVICT_WB", "WAIT"} IN
    [sets |-> LiveSets(s), fsm |-> s.fsm,
     op |-> IF waiting THEN s.op ELSE NoOp,
     req |-> IF s.req.valid
             THEN <<s.req.type, s.req.line, IF s.req.type = "WB" THEN s.req.wb ELSE AnyLineData>>
             ELSE <<>>,
     is_prefetch |-> /\ s.fsm = "DONE_R" \/ (waiting /\ s.op.kind = "read")
                     /\ s.is_prefetch,
     prefetch |-> IF s.prefetch_pending THEN <<s.prefetch_line>> ELSE <<>>]

LiveL2 ==
    [fsm |-> fsm,
     req |-> IF fsm = "IDLE" THEN <<>>
             ELSE <<req.core, req.type, req.line,
                    IF req.type = "WB" THEN req.wb ELSE AnyLineData>>,
     dirty |-> IF fsm = "EVICT_MEMWR" /\ dirty.had THEN <<dirty.data>> ELSE <<>>,
     fetch |-> fsm = "MEM_FETCH" /\ need_mem_fetch,
     array |-> [i \in L2Index |-> IF array[i].valid THEN array[i]
                                  ELSE [array[i] EXCEPT !.tag = 0, !.data = AnyLineData]],
     resp |-> [a \in Agents |-> IF resp[a].valid THEN resp[a] ELSE NoResponse],
     write |-> IF mem_write.valid THEN <<mem_write.line, mem_write.data>> ELSE <<>>]

Live == <<[a \in Agents |-> LiveL1(l1[a])], LiveL2, mem, latest>>
=============================================================================
