----------------------------- MODULE Coherence -----------------------------
(***************************************************************************)
(* The shared L2 and coherence director (RV64I_OOO/src/l2_cache.v), its    *)
(* backing memory, and the L1s wired to it (dual_core_riscv64_ooo.v, and   *)
(* the third port of tb_l2_three_way.v).  One step is one clock edge: L2,  *)
(* every L1 and the memory move together, on the values their registers    *)
(* and combinational outputs had before the edge.                          *)
(*                                                                         *)
(* Agents are numbered as their arbitration ranks: core 0 wins over core   *)
(* 1, which wins over the third agent.  The CPU behind each L1 is the      *)
(* environment: while its L1 is idle it may present any load or store.     *)
(***************************************************************************)
EXTENDS L1Cache, FiniteSets

CONSTANTS
    NAgents,   \* number of L1s
    L2Sets     \* parameter L2_LINES of l2_cache.v

ASSUME FabricAssumption ==
    /\ NAgents \in Nat \ {0}
    /\ L2Sets \in Nat \ {0}

Agents == 0 .. NAgents - 1
L2Index == 0 .. L2Sets - 1
L2IndexOf(line) == line % L2Sets
L2States == {"IDLE", "EVICT_SNOOP", "EVICT_MEMWR", "MEM_FETCH", "MEM_WAIT", "MEM_WAIT2",
             "SNOOP_OTHER", "RESPOND", "COOLDOWN"}

VARIABLES
    l1,        \* l1[a]: the registers of agent a's L1
    fsm,       \* L2 state register
    req,       \* the latched request: req_core, req_type_r, req_addr_r, req_wbdata_r
    dirty,     \* other_had_dirty, other_dirty_data
    need_mem_fetch,
    array,     \* l2_valid, l2_tag, l2_data and the presence bits of each set
    resp,      \* resp[a]: cX_resp_valid, cX_resp_data, cX_resp_exclusive
    mem_write, \* mem_vwrite, mem_vaddr, mem_vwdata
    mem,       \* the backing memory, one entry per line
    latest     \* history: the value of each word of each line last stored by a CPU

vars == <<l1, fsm, req, dirty, need_mem_fetch, array, resp, mem_write, mem, latest>>

L2Set == [valid : BOOLEAN, tag : Lines, data : LineData, presence : SUBSET Agents]
L2Request == [core : Agents, type : ReqTypes, line : Lines, wb : LineData]
MemWrite == [valid : BOOLEAN, line : Lines, data : LineData]

TypeOK ==
    /\ l1 \in [Agents -> L1Type]
    /\ fsm \in L2States
    /\ req \in L2Request
    /\ dirty \in [had : BOOLEAN, data : LineData]
    /\ need_mem_fetch \in BOOLEAN
    /\ array \in [L2Index -> L2Set]
    /\ resp \in [Agents -> Response]
    /\ mem_write \in MemWrite
    /\ mem \in [Lines -> LineData]
    /\ latest \in [Lines -> LineData]

NoResponse == [valid |-> FALSE, data |-> AnyLineData, exclusive |-> FALSE]

Init ==
    /\ l1 = [a \in Agents |-> L1Reset]
    /\ fsm = "IDLE"
    /\ req = [core |-> 0, type |-> "BUSRD", line |-> 0, wb |-> AnyLineData]
    /\ dirty = [had |-> FALSE, data |-> AnyLineData]
    /\ need_mem_fetch = FALSE
    /\ array = [i \in L2Index |-> [valid |-> FALSE, tag |-> 0, data |-> AnyLineData,
                                   presence |-> {}]]
    /\ resp = [a \in Agents |-> NoResponse]
    /\ mem_write = [valid |-> FALSE, line |-> 0, data |-> AnyLineData]
    /\ mem = [l \in Lines |-> AnyLineData]
    /\ latest = mem

(***************************************************************************)
(* Combinational wires of L2.                                              *)
(***************************************************************************)
ReqSet == L2IndexOf(req.line)
Slot == array[ReqSet]
L2Hit == Slot.valid /\ Slot.tag = req.line
EvictNeeded == fsm = "EVICT_SNOOP" /\ req.type # "WB" /\ Slot.valid /\ Slot.tag # req.line

\* Mutants of Snooped: a replacement that leaves the copies alone, and a
\* coherence snoop that stops at the first of the other agents.
SnoopedNotOnEviction ==
    IF fsm = "SNOOP_OTHER" THEN Slot.presence \ {req.core} ELSE {}
SnoopedFirstOnly ==
    IF EvictNeeded THEN Slot.presence
    ELSE IF fsm = "SNOOP_OTHER"
    THEN {a \in Slot.presence \ {req.core} : \A b \in Slot.presence \ {req.core} : a =< b}
    ELSE {}

(* The agents snooped this cycle: on the replacement of an L2 line every   *)
(* agent present, on the coherence snoop every one but the requester.      *)
Snooped ==
    IF EvictNeeded THEN Slot.presence
    ELSE IF fsm = "SNOOP_OTHER" THEN Slot.presence \ {req.core}
    ELSE {}

SnoopOf(a) ==
    [valid |-> a \in Snooped,
     invalidate |-> EvictNeeded \/ req.type # "BUSRD",
     line |-> IF EvictNeeded THEN Slot.tag ELSE req.line]

DirtyAnswers == {a \in Agents : SnoopDirty(l1[a], SnoopOf(a))}
DirtyAnswerData ==
    LET a == CHOOSE a \in DirtyAnswers : \A b \in DirtyAnswers : a =< b
    IN SnoopData(l1[a], SnoopOf(a))

Requesters == {a \in Agents : l1[a].req.valid}
Winner == CHOOSE a \in Requesters : \A b \in Requesters : a =< b

(***************************************************************************)
(* What every edge does besides L2's own state: the L1s, the memory port,  *)
(* the response pulses (they last one cycle) and the history of stores.    *)
(* in[a] is what the CPU of agent a presents.                              *)
(***************************************************************************)
ClockL1s(in) == l1' = [a \in Agents |-> L1Clock(l1[a], in[a], SnoopOf(a), resp[a])]

(* The memory once the write on its port has landed.                      *)
MemNow == IF mem_write.valid THEN [mem EXCEPT ![mem_write.line] = mem_write.data] ELSE mem
CommitMemWrite == mem' = MemNow

Writers(in, l) == {a \in Agents : /\ CompletesWrite(l1[a], in[a], resp[a])
                                  /\ CompletedWrite(l1[a], in[a]).line = l}
RecordWrites(in) ==
    latest' = [l \in Lines |->
                 IF Writers(in, l) = {} THEN latest[l]
                 ELSE LET a == CHOOSE a \in Writers(in, l) : TRUE
                      IN MergeWrite(latest[l], CompletedWrite(l1[a], in[a]))]

Edge(in) == ClockL1s(in) /\ CommitMemWrite /\ RecordWrites(in)

NoResponses == resp' = [a \in Agents |-> [resp[a] EXCEPT !.valid = FALSE]]
NoMemWrite == mem_write' = [mem_write EXCEPT !.valid = FALSE]
WriteMem(line, data) == mem_write' = [valid |-> TRUE, line |-> line, data |-> data]

(***************************************************************************)
(* The states of the L2 FSM.                                               *)
(***************************************************************************)
Idle ==
    /\ fsm = "IDLE"
    /\ IF Requesters = {} THEN UNCHANGED <<fsm, req>>
       ELSE LET r == l1[Winner].req IN
            /\ req' = [core |-> Winner, type |-> r.type, line |-> r.line, wb |-> r.wb]
            /\ fsm' = "EVICT_SNOOP"
    /\ NoMemWrite /\ NoResponses
    /\ UNCHANGED <<dirty, need_mem_fetch, array>>

(* A writeback is absorbed in the array and the memory.                   *)
AbsorbWriteback ==
    /\ fsm = "EVICT_SNOOP" /\ req.type = "WB"
    /\ array' = [array EXCEPT ![ReqSet] = [valid |-> TRUE, tag |-> req.line, data |-> req.wb,
                                           presence |-> @.presence \cup {req.core}]]
    /\ WriteMem(req.line, req.wb)
    /\ fsm' = "RESPOND"
    /\ NoResponses
    /\ UNCHANGED <<req, dirty, need_mem_fetch>>

(* The set is held by another line that some L1 may still have: every     *)
(* copy is invalidated by the snoops of this cycle.                       *)
EvictPresent ==
    /\ EvictNeeded /\ Slot.presence # {}
    /\ array' = [array EXCEPT ![ReqSet].presence = {}]
    /\ dirty' = [had |-> DirtyAnswers # {},
                 data |-> IF DirtyAnswers = {} THEN dirty.data ELSE DirtyAnswerData]
    /\ fsm' = "EVICT_MEMWR"
    /\ NoMemWrite /\ NoResponses
    /\ UNCHANGED <<req, need_mem_fetch>>

LookUp ==
    /\ fsm = "EVICT_SNOOP" /\ req.type # "WB"
    /\ ~(EvictNeeded /\ Slot.presence # {})
    /\ need_mem_fetch' = ~L2Hit
    /\ fsm' = IF L2Hit THEN "SNOOP_OTHER" ELSE "MEM_FETCH"
    /\ NoMemWrite /\ NoResponses
    /\ UNCHANGED <<req, dirty, array>>

\* Mutant of EvictMemWr: the dirty data of the replaced line is dropped.
EvictMemWrDropped ==
    /\ fsm = "EVICT_MEMWR" /\ fsm' = "MEM_FETCH" /\ need_mem_fetch' = TRUE
    /\ NoMemWrite /\ NoResponses
    /\ UNCHANGED <<req, dirty, array>>

EvictMemWr ==
    /\ fsm = "EVICT_MEMWR"
    /\ IF dirty.had THEN WriteMem(Slot.tag, dirty.data) ELSE NoMemWrite
    /\ need_mem_fetch' = TRUE
    /\ fsm' = "MEM_FETCH"
    /\ NoResponses
    /\ UNCHANGED <<req, dirty, array>>

(* MEM_FETCH raises mem_vread, MEM_WAIT lets a registered memory answer.  *)
(* MEM_FETCH is only entered with need_mem_fetch set.                     *)
MemFetch ==
    /\ fsm = "MEM_FETCH"
    /\ fsm' = IF need_mem_fetch THEN "MEM_WAIT" ELSE "SNOOP_OTHER"
    /\ NoMemWrite /\ NoResponses
    /\ UNCHANGED <<req, dirty, need_mem_fetch, array>>

MemWait ==
    /\ fsm = "MEM_WAIT"
    /\ fsm' = "MEM_WAIT2"
    /\ NoMemWrite /\ NoResponses
    /\ UNCHANGED <<req, dirty, need_mem_fetch, array>>

Install ==
    /\ fsm = "MEM_WAIT2"
    /\ array' = [array EXCEPT ![ReqSet] = [@ EXCEPT !.valid = TRUE, !.tag = req.line,
                                                    !.data = mem[req.line]]]
    /\ fsm' = "SNOOP_OTHER"
    /\ NoMemWrite /\ NoResponses
    /\ UNCHANGED <<req, dirty, need_mem_fetch>>

\* Mutants of SnoopOther: the dirty answer is dropped, or kept from memory.
SnoopOtherDirtyDropped ==
    /\ fsm = "SNOOP_OTHER" /\ fsm' = "RESPOND"
    /\ LET kept == IF req.type = "BUSRD" THEN Slot.presence ELSE Slot.presence \ Snooped IN
       array' = [array EXCEPT ![ReqSet].presence = kept \cup {req.core}]
    /\ NoMemWrite /\ NoResponses
    /\ UNCHANGED <<req, dirty, need_mem_fetch>>
SnoopOtherNotThrough ==
    /\ fsm = "SNOOP_OTHER" /\ fsm' = "RESPOND"
    /\ LET kept == IF req.type = "BUSRD" THEN Slot.presence ELSE Slot.presence \ Snooped IN
       array' = [array EXCEPT ![ReqSet] =
                    [@ EXCEPT !.presence = kept \cup {req.core},
                              !.data = IF DirtyAnswers = {} THEN Slot.data ELSE DirtyAnswerData]]
    /\ NoMemWrite /\ NoResponses
    /\ UNCHANGED <<req, dirty, need_mem_fetch>>

SnoopOther ==
    /\ fsm = "SNOOP_OTHER"
    /\ LET kept == IF req.type = "BUSRD" THEN Slot.presence ELSE Slot.presence \ Snooped IN
       array' = [array EXCEPT ![ReqSet] =
                    [@ EXCEPT !.presence = kept \cup {req.core},
                              !.data = IF DirtyAnswers = {} THEN Slot.data ELSE DirtyAnswerData]]
    /\ IF DirtyAnswers = {} THEN NoMemWrite ELSE WriteMem(req.line, DirtyAnswerData)
    /\ fsm' = "RESPOND"
    /\ NoResponses
    /\ UNCHANGED <<req, dirty, need_mem_fetch>>

\* Mutant of Respond: no cooldown cycle.
RespondNoCooldown ==
    /\ fsm = "RESPOND" /\ fsm' = "IDLE"
    /\ resp' = [a \in Agents |-> [valid |-> a = req.core, data |-> Slot.data,
                                  exclusive |-> Slot.presence \subseteq {req.core}]]
    /\ NoMemWrite
    /\ UNCHANGED <<req, dirty, need_mem_fetch, array>>

Respond ==
    /\ fsm = "RESPOND"
    /\ resp' = [a \in Agents |->
                  IF a = req.core
                  THEN [valid |-> TRUE, data |-> Slot.data,
                        exclusive |-> Slot.presence \subseteq {req.core}]
                  ELSE [resp[a] EXCEPT !.valid = FALSE]]
    /\ fsm' = "COOLDOWN"
    /\ NoMemWrite
    /\ UNCHANGED <<req, dirty, need_mem_fetch, array>>

(* The cycle in which the requester sees its answer and drops its request.*)
Cooldown ==
    /\ fsm = "COOLDOWN"
    /\ fsm' = "IDLE"
    /\ NoMemWrite /\ NoResponses
    /\ UNCHANGED <<req, dirty, need_mem_fetch, array>>

L2Step ==
    \/ Idle \/ AbsorbWriteback \/ EvictPresent \/ LookUp \/ EvictMemWr \/ MemFetch
    \/ MemWait \/ Install \/ SnoopOther \/ Respond \/ Cooldown

(* A CPU presents an operation only while its L1 is not busy.             *)
Inputs == {in \in [Agents -> CpuOps] : \A a \in Agents : l1[a].fsm # "IDLE" => in[a] = NoOp}

Next == \E in \in Inputs : L2Step /\ Edge(in)

Spec == Init /\ [][Next]_vars
FairSpec == Spec /\ WF_vars(Next)      \* the clock keeps ticking
=============================================================================
