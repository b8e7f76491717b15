-------------------------- MODULE CoherenceProofs --------------------------
(***************************************************************************)
(* Theorems about the cache hierarchy, for any number of agents and lines  *)
(* and any geometry of the caches: the request protocol and write-through, *)
(* for CPUs that present any operation; coherence, for scripted CPUs; what *)
(* a CPU is owed that shares no line with another, for CPUs that run       *)
(* freely on lines of their own.                                           *)
(***************************************************************************)
EXTENDS CoherenceProperties, WellFoundedInduction, TLAPS

(***************************************************************************)
(* Typing of the operators of one L1.                                      *)
(***************************************************************************)
LEMMA AnyTypes == AnyWord \in Words /\ AnyData \in Data /\ AnyLineData \in LineData
<1>1. AnyWord \in Words
  BY GeometryAssumption DEF AnyWord
<1>2. AnyData \in Data
  BY GeometryAssumption DEF AnyData
<1> QED
  BY <1>1, <1>2 DEF AnyLineData, LineData

\* A line maps to a set of each cache.
LEMMA IndexTypes ==
    /\ 0 \in Lines
    /\ \A l \in Lines : L1IndexOf(l) \in L1Index /\ NextLine(l) \in Lines
BY GeometryAssumption DEF Lines, L1Index, L1IndexOf, NextLine

\* The operations that a CPU may give are operations.
LEMMA OpTypes == NoOp \in CpuOp /\ CpuOps \subseteq CpuOp
BY AnyTypes, IndexTypes DEF NoOp, CpuOp, CpuOps, CpuReads, CpuWrites

\* Merging a store into a line gives line data.
LEMMA MergeType ==
    ASSUME NEW line \in LineData, NEW op \in CpuOp
    PROVE  MergeWrite(line, op) \in LineData
BY DEF MergeWrite, LineData, CpuOp

\* An L1 out of reset is an L1.
LEMMA ResetType == L1Reset \in L1Type
<1>1. NoOp \in CpuOp /\ 0 \in Lines /\ AnyLineData \in LineData
  BY OpTypes, IndexTypes, AnyTypes
<1>2. L1Reset.req \in Request
  BY <1>1 DEF L1Reset, Request, ReqTypes
<1> QED
  BY <1>1, <1>2 DEF L1Reset, L1Type, MESI, L1States

\* A snoop leaves every line in a MESI state.
LEMMA DowngradedType ==
    ASSUME NEW s \in L1Type, NEW snoop \in Snoop
    PROVE  Downgraded(s, snoop) \in [L1Index -> MESI]
BY IndexTypes DEF Downgraded, L1Type, Snoop, MESI

\* A request that an L1 makes is one.
LEMMA AskType ==
    ASSUME NEW s \in L1Type, NEW type \in ReqTypes, NEW line \in Lines
    PROVE  Ask(s, type, line) \in Request
BY DEF Ask, L1Type, Request

\* An L1 that starts a miss without a writeback is an L1.
LEMMA MissCleanType ==
    ASSUME NEW s \in L1Type, NEW op \in CpuOp, NEW st \in [L1Index -> MESI],
           NEW prefetch \in BOOLEAN
    PROVE  MissClean(s, op, st, prefetch) \in L1Type
<1> DEFINE i == L1IndexOf(op.line)
<1>1. op.line \in Lines /\ i \in L1Index
  BY IndexTypes DEF CpuOp
<1>2. \A t \in ReqTypes : Ask(s, t, op.line) \in Request
  BY <1>1, AskType
<1>3. [st EXCEPT ![i] = "I"] \in [L1Index -> MESI]
  BY <1>1 DEF MESI
<1> HIDE DEF i
<1> QED
  BY <1>2, <1>3 DEF MissClean, L1Type, L1States, ReqTypes, i

\* An L1 that starts a miss with a writeback is an L1.
LEMMA MissDirtyType ==
    ASSUME NEW s \in L1Type, NEW op \in CpuOp, NEW st \in [L1Index -> MESI]
    PROVE  MissDirty(s, op, st) \in L1Type
<1> DEFINE i == L1IndexOf(op.line)
<1>1. i \in L1Index
  BY IndexTypes DEF CpuOp
<1>2. [valid |-> TRUE, type |-> "WB", line |-> s.tag[i], wb |-> s.line[i]] \in Request
  BY <1>1 DEF L1Type, Request, ReqTypes
<1>3. [st EXCEPT ![i] = "I"] \in [L1Index -> MESI]
  BY <1>1 DEF MESI
<1> HIDE DEF i
<1> QED
  BY <1>2, <1>3 DEF MissDirty, L1Type, L1States, i

\* An L1 that hits with a store is an L1.
LEMMA WriteHitType ==
    ASSUME NEW s \in L1Type, NEW op \in CpuOp, NEW st \in [L1Index -> MESI]
    PROVE  WriteHit(s, op, st) \in L1Type
<1> DEFINE i == L1IndexOf(op.line)
<1>1. i \in L1Index
  BY IndexTypes DEF CpuOp
<1>2. MergeWrite(s.line[i], op) \in LineData
  BY <1>1, MergeType DEF L1Type
<1>3. [st EXCEPT ![i] = "M"] \in [L1Index -> MESI]
  BY <1>1 DEF MESI
<1>4. [s.line EXCEPT ![i] = MergeWrite(s.line[i], op)] \in [L1Index -> LineData]
  BY <1>1, <1>2 DEF L1Type
<1> HIDE DEF i
<1> QED
  BY <1>3, <1>4 DEF WriteHit, L1Type, L1States, i

\* An L1 that takes an operation is an L1.
LEMMA AcceptType ==
    ASSUME NEW s \in L1Type, NEW op \in CpuOp, NEW st \in [L1Index -> MESI]
    PROVE  Accept(s, op, st) \in L1Type
<1> DEFINE Hit == Holds(s, op.line)
           Victim == VictimDirty(s, op.line)
           Prefetch == s.prefetch_pending /\ PrefetchWorks(s)
<1>1. [s EXCEPT !.state = st, !.is_prefetch = FALSE, !.fsm = "DONE_R"] \in L1Type
  BY DEF L1Type, L1States
<1>2. WriteHit(s, op, st) \in L1Type
  BY WriteHitType
<1>3. UpgradeShared(s, op, st) \in L1Type
  BY AskType DEF UpgradeShared, L1Type, L1States, CpuOp, ReqTypes
<1>4. MissDirty(s, op, st) \in L1Type
  BY MissDirtyType
<1>5. MissClean(s, op, st, FALSE) \in L1Type
  BY MissCleanType
<1>6. [MissClean(s, PrefetchOp(s), st, TRUE) EXCEPT !.prefetch_pending = FALSE] \in L1Type
  <2>1. PrefetchOp(s) \in CpuOp
    BY OpTypes DEF PrefetchOp, CpuOp, L1Type
  <2>2. MissClean(s, PrefetchOp(s), st, TRUE) \in L1Type
    BY <2>1, MissCleanType
  <2> QED
    BY <2>2 DEF L1Type
<1>7. [s EXCEPT !.state = st, !.prefetch_pending = FALSE] \in L1Type
  BY DEF L1Type
<1>8. op.kind \in {"none", "read", "write"}
  BY DEF CpuOp
<1>9. Hit => StateOf(s, op.line) \in {"S", "E", "M"}
  BY IndexTypes DEF Holds, StateOf, L1Type, MESI, CpuOp
<1> HIDE DEF Hit, Victim, Prefetch
<1> QED
  BY <1>1, <1>2, <1>3, <1>4, <1>5, <1>6, <1>7, <1>8, <1>9 DEF Accept, Hit, Victim, Prefetch

\* An L1 that takes its fill is an L1.
LEMMA FilledType ==
    ASSUME NEW s \in L1Type, NEW answer \in Response, NEW st \in [L1Index -> MESI]
    PROVE  ArmPrefetch(s, Filled(s, answer, st)) \in L1Type
<1> DEFINE i == L1IndexOf(s.op.line)
           t == Filled(s, answer, st)
<1>1. s.op \in CpuOp /\ s.op.line \in Lines /\ i \in L1Index
  BY IndexTypes DEF CpuOp, L1Type
<1>2. FillValue(s, answer) \in LineData
  BY <1>1, MergeType DEF FillValue, L1Type, Response
<1>3. t \in L1Type
  <2>1. \A m \in MESI : [st EXCEPT ![i] = m] \in [L1Index -> MESI]
    BY <1>1
  <2>2. [s.line EXCEPT ![i] = FillValue(s, answer)] \in [L1Index -> LineData]
    BY <1>1, <1>2 DEF L1Type
  <2>3. [s.tag EXCEPT ![i] = s.op.line] \in [L1Index -> Lines]
    BY <1>1 DEF L1Type
  <2>4. [s.req EXCEPT !.valid = FALSE] \in Request
    BY DEF L1Type, Request
  <2> HIDE DEF i
  <2> QED
    BY <2>1, <2>2, <2>3, <2>4 DEF Filled, L1Type, L1States, MESI, i
<1>4. NextLine(s.op.line) \in Lines
  BY <1>1, IndexTypes
<1> HIDE DEF t
<1> QED
  BY <1>3, <1>4 DEF ArmPrefetch, L1Type, t

\* An L1 whose writeback was answered is an L1.
LEMMA WritebackDoneType ==
    ASSUME NEW s \in L1Type, NEW st \in [L1Index -> MESI]
    PROVE  WritebackDone(s, st) \in L1Type
<1>1. s.op.line \in Lines
  BY DEF L1Type, CpuOp
<1> QED
  BY <1>1, AskType DEF WritebackDone, L1Type, L1States, ReqTypes

(* An L1 stays an L1 across an edge.                                      *)
LEMMA L1ClockType ==
    ASSUME NEW s \in L1Type, NEW op \in CpuOp, NEW snoop \in Snoop, NEW answer \in Response
    PROVE  L1Clock(s, op, snoop, answer) \in L1Type
<1> DEFINE st == Downgraded(s, snoop)
<1>1. st \in [L1Index -> MESI]
  BY DowngradedType
<1>2. Accept(s, op, st) \in L1Type
  BY <1>1, AcceptType
<1>3. WritebackDone(s, st) \in L1Type
  BY <1>1, WritebackDoneType
<1>4. ArmPrefetch(s, Filled(s, answer, st)) \in L1Type
  BY <1>1, FilledType
<1>5. [s EXCEPT !.state = st] \in L1Type /\ [s EXCEPT !.state = st, !.fsm = "IDLE"] \in L1Type
  BY <1>1 DEF L1Type, L1States
<1>6. s.fsm \in L1States /\ answer.valid \in BOOLEAN
  BY DEF L1Type, Response
<1> HIDE DEF st
<1> QED
  BY <1>2, <1>3, <1>4, <1>5, <1>6 DEF L1Clock, L1States, st

(***************************************************************************)
(* Typing of the wires of L2.                                              *)
(***************************************************************************)
LEMMA LeastAgent ==
    ASSUME NEW S \in SUBSET Agents, S # {}
    PROVE  \E a \in S : \A b \in S : a =< b
<1>1. S \subseteq Nat
  BY FabricAssumption DEF Agents
<1>2. PICK a \in S : \A b \in S : <<b, a>> \notin OpToRel(<, Nat)
  BY <1>1, WFMin, NatLessThanWellFounded
<1>3. \A x, y \in Nat : x < y => <<x, y>> \in OpToRel(<, Nat)
  BY DEF OpToRel
<1>4. \A b \in S : a \in Nat /\ b \in Nat /\ ~(b < a)
  BY <1>1, <1>2, <1>3
<1> QED
  BY <1>4

\* What L2 reads of its arrays, and the request it works on, are of their types.
LEMMA WireTypes ==
    ASSUME TypeOK
    PROVE  /\ ReqSet \in L2Index /\ Slot \in L2Set
           /\ \A a \in Agents : SnoopOf(a) \in Snoop
           /\ DirtyAnswers # {} => DirtyAnswerData \in LineData
<1>1. ReqSet \in L2Index
  BY FabricAssumption DEF TypeOK, L2Request, ReqSet, L2IndexOf, L2Index, Lines
<1>2. Slot \in L2Set
  BY <1>1 DEF TypeOK, Slot
<1>3. ASSUME NEW a \in Agents
      PROVE  SnoopOf(a) \in Snoop
  BY <1>2 DEF SnoopOf, Snoop, TypeOK, L2Set, L2Request
<1>4. ASSUME NEW a \in Agents
      PROVE  SnoopData(l1[a], SnoopOf(a)) \in LineData
  BY <1>3, IndexTypes DEF SnoopData, Snoop, TypeOK, L1Type
<1>5. DirtyAnswers \in SUBSET Agents
  BY DEF DirtyAnswers
<1>6. DirtyAnswers # {} => DirtyAnswerData \in LineData
  BY <1>4, <1>5, LeastAgent DEF DirtyAnswerData
<1> QED
  BY <1>1, <1>2, <1>3, <1>6

\* Arbitration picks an L1.
LEMMA WinnerType ==
    ASSUME Requesters # {}
    PROVE  Winner \in Requesters /\ Winner \in Agents
<1>1. Requesters \in SUBSET Agents
  BY DEF Requesters
<1> QED
  BY <1>1, LeastAgent DEF Winner

\* An edge of the L1s keeps the types.
LEMMA EdgeType ==
    ASSUME TypeOK, NEW in \in Inputs, Edge(in)
    PROVE  /\ l1' \in [Agents -> L1Type]
           /\ mem' \in [Lines -> LineData]
           /\ latest' \in [Lines -> LineData]
<1>1. \A a \in Agents : in[a] \in CpuOp
  BY OpTypes DEF Inputs
<1>2. \A a \in Agents : L1Clock(l1[a], in[a], SnoopOf(a), resp[a]) \in L1Type
  BY <1>1, WireTypes, L1ClockType DEF TypeOK
<1>3. mem' \in [Lines -> LineData]
  BY DEF Edge, CommitMemWrite, MemNow, TypeOK, MemWrite
<1>4. \A a \in Agents : CompletedWrite(l1[a], in[a]) \in CpuOp
  BY <1>1 DEF CompletedWrite, TypeOK, L1Type
<1>5. \A l \in Lines, a \in Agents :
         MergeWrite(latest[l], CompletedWrite(l1[a], in[a])) \in LineData
  BY <1>4, MergeType DEF TypeOK
<1>6. \A l \in Lines : Writers(in, l) \subseteq Agents
  BY DEF Writers
<1>7. latest' \in [Lines -> LineData]
  BY <1>5, <1>6 DEF Edge, RecordWrites, TypeOK
<1> QED
  BY <1>2, <1>3, <1>7 DEF Edge, ClockL1s

\* Idle ports are of their types.
LEMMA QuietPortTypes ==
    ASSUME TypeOK
    PROVE  /\ NoResponses => resp' \in [Agents -> Response]
           /\ NoMemWrite => mem_write' \in MemWrite
           /\ \A l \in Lines, d \in LineData : WriteMem(l, d) => mem_write' \in MemWrite
<1>1. ASSUME NoResponses
      PROVE  resp' \in [Agents -> Response]
  <2>1. \A a \in Agents : [resp[a] EXCEPT !.valid = FALSE] \in Response
    BY DEF TypeOK, Response
  <2> QED
    BY <1>1, <2>1 DEF NoResponses
<1>2. NoMemWrite => mem_write' \in MemWrite
  BY DEF TypeOK, NoMemWrite, MemWrite
<1>3. \A l \in Lines, d \in LineData : WriteMem(l, d) => mem_write' \in MemWrite
  BY DEF WriteMem, MemWrite
<1> QED
  BY <1>1, <1>2, <1>3

(***************************************************************************)
(* The registers of the hierarchy keep their types.                        *)
(***************************************************************************)
L2TypeOK ==
    /\ fsm \in L2States
    /\ req \in L2Request
    /\ dirty \in [had : BOOLEAN, data : LineData]
    /\ need_mem_fetch \in BOOLEAN
    /\ array \in [L2Index -> L2Set]
    /\ resp \in [Agents -> Response]
    /\ mem_write \in MemWrite

\* A step of L2 keeps the types.
LEMMA L2StepType ==
    ASSUME TypeOK, L2Step
    PROVE  L2TypeOK'
<1> USE DEF TypeOK, L2TypeOK
<1>0. /\ req.core \in Agents /\ req.line \in Lines /\ req.wb \in LineData
      /\ Slot.tag \in Lines /\ Slot.data \in LineData /\ Slot.presence \subseteq Agents
      /\ ReqSet \in L2Index
  BY WireTypes DEF L2Request, L2Set
<1>1. CASE Idle
  <2>1. CASE Requesters = {}
    BY <1>1, <2>1, QuietPortTypes DEF Idle
  <2>2. CASE Requesters # {}
    <3>1. l1[Winner].req \in Request /\ Winner \in Agents
      BY <2>2, WinnerType DEF L1Type
    <3> QED
      BY <1>1, <2>2, <3>1, QuietPortTypes DEF Idle, Request, L2Request, L2States
  <2> QED
    BY <2>1, <2>2
<1>2. CASE AbsorbWriteback
  <2>1. [valid |-> TRUE, tag |-> req.line, data |-> req.wb,
         presence |-> Slot.presence \cup {req.core}] \in L2Set
    BY <1>0 DEF L2Set
  <2> QED
    BY <1>0, <1>2, <2>1, QuietPortTypes DEF AbsorbWriteback, L2States, Slot
<1>3. CASE EvictPresent
  BY <1>0, <1>3, QuietPortTypes, WireTypes DEF EvictPresent, L2States, L2Set
<1>4. CASE LookUp
  BY <1>4, QuietPortTypes DEF LookUp, L2States
<1>5. CASE EvictMemWr
  BY <1>0, <1>5, QuietPortTypes DEF EvictMemWr, L2States
<1>6. CASE MemFetch
  BY <1>6, QuietPortTypes DEF MemFetch, L2States
<1>7. CASE MemWait
  BY <1>7, QuietPortTypes DEF MemWait, L2States
<1>8. CASE Install
  <2>1. [array[ReqSet] EXCEPT !.valid = TRUE, !.tag = req.line, !.data = mem[req.line]] \in L2Set
    BY <1>0 DEF L2Set
  <2> QED
    BY <1>0, <1>8, <2>1, QuietPortTypes DEF Install, L2States
<1>9. CASE SnoopOther
  <2> DEFINE kept == IF req.type = "BUSRD" THEN Slot.presence ELSE Slot.presence \ Snooped
             data == IF DirtyAnswers = {} THEN Slot.data ELSE DirtyAnswerData
  <2>1. data \in LineData /\ kept \cup {req.core} \subseteq Agents
    <3>1. data \in LineData
      BY <1>0, WireTypes
    <3>2. kept \subseteq Agents
      BY <1>0
    <3> QED BY <1>0, <3>1, <3>2
  <2>2. \A p \in SUBSET Agents, x \in LineData :
          [array[ReqSet] EXCEPT !.presence = p, !.data = x] \in L2Set
    BY <1>0 DEF L2Set
  <2>3. array' \in [L2Index -> L2Set]
    <3>1. array' = [array EXCEPT ![ReqSet] =
                      [array[ReqSet] EXCEPT !.presence = kept \cup {req.core}, !.data = data]]
      BY <1>9 DEF SnoopOther
    <3> HIDE DEF kept, data
    <3>2. kept \cup {req.core} \in SUBSET Agents /\ data \in LineData
      BY <2>1
    <3>3. PICK e \in L2Set :
            e = [array[ReqSet] EXCEPT !.presence = kept \cup {req.core}, !.data = data]
      BY <2>2, <3>2
    <3> QED BY <1>0, <3>1, <3>3
  <2> QED
    BY <1>0, <1>9, <2>3, QuietPortTypes, WireTypes DEF SnoopOther, L2States
<1>10. CASE Respond
  <2>1. \A a \in Agents : /\ [resp[a] EXCEPT !.valid = FALSE] \in Response
                          /\ [valid |-> TRUE, data |-> Slot.data,
                              exclusive |-> Slot.presence \subseteq {req.core}] \in Response
    BY <1>0 DEF Response
  <2>2. resp' \in [Agents -> Response]
    BY <1>10, <2>1 DEF Respond
  <2>3. /\ fsm' = "COOLDOWN" /\ NoMemWrite
        /\ UNCHANGED <<req, dirty, need_mem_fetch, array>>
    BY <1>10 DEF Respond
  <2>4. mem_write' \in MemWrite
    BY <2>3, QuietPortTypes
  <2> QED
    BY <2>2, <2>3, <2>4 DEF L2States
<1>11. CASE Cooldown
  BY <1>11, QuietPortTypes DEF Cooldown, L2States
<1> QED
  BY <1>1, <1>2, <1>3, <1>4, <1>5, <1>6, <1>7, <1>8, <1>9, <1>10, <1>11 DEF L2Step

(* Type correctness of the hierarchy (l1_cache.v, l2_cache.v).            *)
THEOREM TypeCorrect == Spec => []TypeOK
<1>1. Init => TypeOK
  <2> SUFFICES ASSUME Init PROVE TypeOK
    OBVIOUS
  <2>1. AnyLineData \in LineData /\ 0 \in Lines /\ 0 \in Agents /\ L1Reset \in L1Type
    BY ResetType, AnyTypes, IndexTypes, FabricAssumption DEF Agents
  <2>2. l1 \in [Agents -> L1Type] /\ fsm \in L2States /\ need_mem_fetch \in BOOLEAN
    BY <2>1 DEF Init, L2States
  <2>3. req \in L2Request /\ dirty \in [had : BOOLEAN, data : LineData] /\ mem_write \in MemWrite
    BY <2>1 DEF Init, L2Request, ReqTypes, MemWrite
  <2>4. array \in [L2Index -> L2Set]
    BY <2>1 DEF Init, L2Set
  <2>5. resp \in [Agents -> Response]
    BY <2>1 DEF Init, NoResponse, Response
  <2>6. mem \in [Lines -> LineData] /\ latest \in [Lines -> LineData]
    BY <2>1 DEF Init
  <2> QED
    BY <2>2, <2>3, <2>4, <2>5, <2>6 DEF TypeOK
<1>2. TypeOK /\ [Next]_vars => TypeOK'
  <2>1. ASSUME TypeOK, NEW in \in Inputs, L2Step, Edge(in)
        PROVE  TypeOK'
    BY <2>1, EdgeType, L2StepType DEF TypeOK, L2TypeOK
  <2>2. ASSUME TypeOK, UNCHANGED vars
        PROVE  TypeOK'
    BY <2>2 DEF TypeOK, vars
  <2> QED
    BY <2>1, <2>2 DEF Next
<1> QED
  BY <1>1, <1>2, PTL DEF Spec

(***************************************************************************)
(* The request protocol.  The inductive invariant says, of one L1, that it *)
(* requests exactly while its FSM waits, that EVICT_WB waits for a         *)
(* writeback, and that the set of a miss is Invalid; of L2, that the       *)
(* latched request is still the requester's own, and that the one answer   *)
(* pulse falls in COOLDOWN.                                                *)
(***************************************************************************)
Waiting(s) == s.fsm \in {"EVICT_WB", "WAIT"}

L1Inv(s) ==
    /\ s.req.valid <=> Waiting(s)
    /\ s.fsm = "EVICT_WB" => s.req.type = "WB"
    /\ Waiting(s) /\ s.req.type # "UPGR" => s.state[L1IndexOf(s.op.line)] = "I"

LatchedRequest == [valid |-> TRUE, type |-> req.type, line |-> req.line, wb |-> req.wb]

ProtocolInv ==
    /\ \A a \in Agents : L1Inv(l1[a])
    /\ fsm # "IDLE" => l1[req.core].req = LatchedRequest
    /\ \A a \in Agents : resp[a].valid <=> fsm = "COOLDOWN" /\ a = req.core

\* A snoop makes no invalid line valid.
LEMMA DowngradedKeepsInvalid ==
    ASSUME NEW s \in L1Type, NEW snoop \in Snoop, NEW i \in L1Index, s.state[i] = "I"
    PROVE  Downgraded(s, snoop)[i] = "I"
BY IndexTypes DEF Downgraded, SnoopHit, Holds, L1Type, Snoop

\* Taking an operation keeps the part of the invariant that is about one L1.
LEMMA AcceptProtocol ==
    ASSUME NEW s \in L1Type, NEW op \in CpuOp, NEW st \in [L1Index -> MESI],
           L1Inv(s), s.fsm = "IDLE"
    PROVE  L1Inv(Accept(s, op, st))
<1> DEFINE t == Accept(s, op, st)
<1>0. ~s.req.valid
  BY DEF L1Inv, Waiting
<1>1. \A l \in Lines : L1IndexOf(l) \in L1Index
  BY IndexTypes
<1>2. L1Inv([s EXCEPT !.state = st, !.is_prefetch = FALSE, !.fsm = "DONE_R"])
  BY <1>0 DEF L1Inv, Waiting, L1Type
<1>3. L1Inv(WriteHit(s, op, st))
  BY <1>0 DEF L1Inv, Waiting, L1Type, WriteHit
<1>4. L1Inv(UpgradeShared(s, op, st))
  BY DEF L1Inv, Waiting, L1Type, UpgradeShared, Ask, Request
<1>5. L1Inv(MissDirty(s, op, st))
  BY <1>1 DEF L1Inv, Waiting, L1Type, MissDirty, CpuOp
<1>6. ASSUME NEW o \in CpuOp, NEW p \in BOOLEAN PROVE L1Inv(MissClean(s, o, st, p))
  <2> DEFINE m == MissClean(s, o, st, p)
  <2>1. m.fsm = "WAIT" /\ m.req.valid = TRUE /\ m.op = o
    BY DEF MissClean, Ask, L1Type, Request
  <2>2. m.state[L1IndexOf(m.op.line)] = "I"
    BY <1>1, <2>1 DEF MissClean, L1Type, CpuOp
  <2> HIDE DEF m
  <2>3. L1Inv(m)
    BY <2>1, <2>2 DEF L1Inv, Waiting
  <2> QED BY <2>3 DEF m
<1>7. L1Inv([MissClean(s, PrefetchOp(s), st, TRUE) EXCEPT !.prefetch_pending = FALSE])
  <2>1. PrefetchOp(s) \in CpuOp
    BY OpTypes DEF PrefetchOp, CpuOp, L1Type
  <2>2. MissClean(s, PrefetchOp(s), st, TRUE) \in L1Type
    BY <2>1, MissCleanType
  <2> QED
    BY <2>1, <2>2, <1>6 DEF L1Inv, Waiting, L1Type
<1>8. L1Inv([s EXCEPT !.state = st, !.prefetch_pending = FALSE])
  BY <1>0 DEF L1Inv, Waiting, L1Type
<1>9. Holds(s, op.line) => StateOf(s, op.line) \in {"S", "E", "M"}
  BY IndexTypes DEF Holds, StateOf, L1Type, MESI, CpuOp
<1>10. op.kind \in {"none", "read", "write"}
  BY DEF CpuOp
<1> HIDE DEF L1Inv
<1> QED
  BY <1>2, <1>3, <1>4, <1>5, <1>6, <1>7, <1>8, <1>9, <1>10 DEF Accept

\* So does any edge of it, and a waiting L1 repeats its request.
LEMMA L1ClockProtocol ==
    ASSUME NEW s \in L1Type, NEW op \in CpuOp, NEW snoop \in Snoop, NEW resp1 \in Response,
           L1Inv(s)
    PROVE  /\ L1Inv(L1Clock(s, op, snoop, resp1))
           /\ Waiting(s) /\ ~resp1.valid => L1Clock(s, op, snoop, resp1).req = s.req
<1> DEFINE st == Downgraded(s, snoop)
           i == L1IndexOf(s.op.line)
<1>1. st \in [L1Index -> MESI] /\ i \in L1Index /\ s.op.line \in Lines
  BY DowngradedType, IndexTypes DEF L1Type, CpuOp
<1>2. s.state[i] = "I" => st[i] = "I"
  BY <1>1, DowngradedKeepsInvalid
<1>3. s.fsm = "IDLE" => L1Inv(Accept(s, op, st))
  BY <1>1, AcceptProtocol
<1>4. s.fsm = "EVICT_WB" => L1Inv(WritebackDone(s, st))
  BY <1>1, <1>2 DEF L1Inv, Waiting, WritebackDone, Ask, L1Type, Request
<1>5. L1Inv(ArmPrefetch(s, Filled(s, resp1, st)))
  BY DEF L1Inv, Waiting, ArmPrefetch, Filled, L1Type, Request
<1>6. Waiting(s) => L1Inv([s EXCEPT !.state = st])
  BY <1>1, <1>2 DEF L1Inv, Waiting, L1Type
<1>7. s.fsm \in {"DONE_R", "DONE_W"} => L1Inv([s EXCEPT !.state = st, !.fsm = "IDLE"])
  BY DEF L1Inv, Waiting, L1Type
<1>8. s.fsm \in L1States /\ resp1.valid \in BOOLEAN
  BY DEF L1Type, Response
<1>9. Waiting(s) /\ ~resp1.valid => L1Clock(s, op, snoop, resp1).req = s.req
  BY <1>8 DEF L1Clock, Waiting, L1Type
<1>10. L1Inv(L1Clock(s, op, snoop, resp1))
  <2> HIDE DEF st
  <2> QED
    BY <1>3, <1>4, <1>5, <1>6, <1>7, <1>8 DEF L1Clock, L1States, Waiting, st
<1> QED
  BY <1>9, <1>10

\* Nothing is asked or answered at reset.
LEMMA ProtocolInit == Init => ProtocolInv
<1> SUFFICES ASSUME Init PROVE ProtocolInv
  OBVIOUS
<1>1. \A a \in Agents : L1Inv(l1[a])
  BY DEF Init, L1Reset, L1Inv, Waiting
<1>2. \A a \in Agents : ~resp[a].valid
  BY DEF Init, NoResponse
<1> QED
  BY <1>1, <1>2 DEF Init, ProtocolInv

\* An edge of the L1s keeps their part of the invariant.
LEMMA EdgeProtocol ==
    ASSUME TypeOK, ProtocolInv, NEW in \in Inputs, Edge(in)
    PROVE  /\ \A a \in Agents : L1Inv(l1'[a])
           /\ \A a \in Agents : l1[a].req.valid /\ ~resp[a].valid => l1'[a].req = l1[a].req
<1>1. SUFFICES ASSUME NEW a \in Agents
               PROVE  /\ L1Inv(l1'[a])
                      /\ l1[a].req.valid /\ ~resp[a].valid => l1'[a].req = l1[a].req
  OBVIOUS
<1>2. l1'[a] = L1Clock(l1[a], in[a], SnoopOf(a), resp[a])
  BY DEF Edge, ClockL1s
<1>3. /\ l1[a] \in L1Type /\ in[a] \in CpuOp /\ SnoopOf(a) \in Snoop /\ resp[a] \in Response
      /\ L1Inv(l1[a])
  BY OpTypes, WireTypes DEF TypeOK, Inputs, ProtocolInv
<1>4. l1[a].req.valid => Waiting(l1[a])
  BY <1>3 DEF L1Inv
<1> QED
  BY <1>2, <1>3, <1>4, L1ClockProtocol

(* Every state of the FSM but IDLE, RESPOND and COOLDOWN keeps the latched*)
(* request and raises no answer.                                          *)
Keeps == /\ fsm \notin {"IDLE", "RESPOND", "COOLDOWN"}
         /\ fsm' \notin {"IDLE", "COOLDOWN"}
         /\ req' = req
         /\ NoResponses

\* What a step of L2 does to the request and the responses takes one of four forms.
LEMMA StepShapes == L2Step => Idle \/ Respond \/ Cooldown \/ Keeps
<1>1. AbsorbWriteback => Keeps
  BY DEF AbsorbWriteback, Keeps
<1>2. EvictPresent => Keeps
  BY DEF EvictPresent, Keeps, EvictNeeded
<1>3. LookUp => Keeps
  BY DEF LookUp, Keeps
<1>4. EvictMemWr => Keeps
  BY DEF EvictMemWr, Keeps
<1>5. MemFetch => Keeps
  BY DEF MemFetch, Keeps
<1>6. MemWait => Keeps
  BY DEF MemWait, Keeps
<1>7. Install => Keeps
  BY DEF Install, Keeps
<1>8. SnoopOther => Keeps
  BY DEF SnoopOther, Keeps
<1> QED
  BY <1>1, <1>2, <1>3, <1>4, <1>5, <1>6, <1>7, <1>8 DEF L2Step

\* A step that answers no one leaves no valid response.
LEMMA NoResponsesValid ==
    ASSUME TypeOK, NoResponses
    PROVE  \A a \in Agents : resp'[a].valid = FALSE
BY DEF TypeOK, NoResponses, Response

\* Each step of L2 with its edge keeps the protocol invariant.
LEMMA ProtocolStep ==
    ASSUME TypeOK, ProtocolInv, NEW in \in Inputs, L2Step, Edge(in)
    PROVE  ProtocolInv'
<1>1. /\ \A a \in Agents : L1Inv(l1'[a])
      /\ \A a \in Agents : l1[a].req.valid /\ ~resp[a].valid => l1'[a].req = l1[a].req
  BY EdgeProtocol
<1>2. req.core \in Agents
  BY DEF TypeOK, L2Request
<1>3. CASE Idle
  <2>1. \A a \in Agents : ~resp[a].valid /\ ~resp'[a].valid
    BY <1>3, NoResponsesValid DEF Idle, ProtocolInv
  <2>2. CASE Requesters = {}
    BY <1>1, <1>3, <2>1, <2>2 DEF Idle, ProtocolInv
  <2>3. CASE Requesters # {}
    <3>1. Winner \in Agents /\ l1[Winner].req.valid
      BY <2>3, WinnerType DEF Requesters
    <3>2. l1'[Winner].req = l1[Winner].req /\ l1[Winner].req \in Request
      BY <1>1, <2>1, <3>1 DEF TypeOK, L1Type
    <3>3. /\ req' = [core |-> Winner, type |-> l1[Winner].req.type,
                     line |-> l1[Winner].req.line, wb |-> l1[Winner].req.wb]
          /\ fsm' = "EVICT_SNOOP"
      BY <1>3, <2>3 DEF Idle
    <3>4. l1'[req'.core].req = LatchedRequest'
      BY <3>1, <3>2, <3>3 DEF LatchedRequest, Request
    <3> QED
      BY <1>1, <2>1, <3>3, <3>4 DEF ProtocolInv
  <2> QED
    BY <2>2, <2>3
<1>4. CASE Respond
  <2>1. l1[req.core].req = LatchedRequest /\ ~resp[req.core].valid
    BY <1>2, <1>4 DEF ProtocolInv, Respond
  <2>2. l1'[req.core].req = LatchedRequest
    BY <1>1, <1>2, <2>1 DEF LatchedRequest
  <2>3. \A a \in Agents : resp'[a].valid <=> a = req.core
    BY <1>4 DEF Respond, TypeOK, Response
  <2> QED
    BY <1>1, <1>4, <2>2, <2>3 DEF ProtocolInv, Respond, LatchedRequest
<1>5. CASE Cooldown
  BY <1>1, <1>5, NoResponsesValid DEF ProtocolInv, Cooldown
<1>6. CASE Keeps
  <2>1. l1[req.core].req = LatchedRequest /\ ~resp[req.core].valid
    BY <1>2, <1>6 DEF ProtocolInv, Keeps
  <2>2. l1'[req.core].req = LatchedRequest
    BY <1>1, <1>2, <2>1 DEF LatchedRequest
  <2> QED
    BY <1>1, <1>6, <2>2, NoResponsesValid DEF ProtocolInv, Keeps, LatchedRequest
<1> QED
  BY <1>3, <1>4, <1>5, <1>6, StepShapes

\* The protocol invariant is more than the two properties of the runs.
LEMMA ProtocolImplies == TypeOK /\ ProtocolInv => ServesWaitingRequest /\ MissSetInvalid
BY DEF TypeOK, L2Request, ProtocolInv, L1Inv, Waiting, Busy, LatchedRequest, ServesWaitingRequest,
       MissSetInvalid

\* The request protocol is inductive, whatever the CPUs do.
LEMMA ProtocolInvariant == Spec => [](TypeOK /\ ProtocolInv)
<1>1. TypeOK /\ ProtocolInv /\ [Next]_vars => ProtocolInv'
  <2>1. ASSUME TypeOK, ProtocolInv, UNCHANGED vars
        PROVE  ProtocolInv'
    BY <2>1 DEF ProtocolInv, LatchedRequest, vars
  <2> QED
    BY <2>1, ProtocolStep DEF Next
<1> QED
  BY <1>1, ProtocolInit, TypeCorrect, PTL DEF Spec

(* Whatever the CPUs do, L2 works only on a request that its L1 still     *)
(* makes, and answers only an L1 that waits (ST_COOLDOWN of l2_cache.v).  *)
THEOREM RequestProtocol == Spec => []ServesWaitingRequest
BY ProtocolInvariant, ProtocolImplies, PTL

(* Whatever the CPUs do, the set of a miss shows no valid line until the  *)
(* fill (l1_cache.v header).                                              *)
THEOREM MissSetAlwaysInvalid == Spec => []MissSetInvalid
BY ProtocolInvariant, ProtocolImplies, PTL

(***************************************************************************)
(* L2 is write-through.  The invariant adds where the tags of the array    *)
(* lie, and that no memory write is pending when a line is installed.      *)
(***************************************************************************)
Tagged == \A i \in L2Index : array[i].valid => L2IndexOf(array[i].tag) = i

WriteThroughInv ==
    /\ Tagged
    /\ fsm = "EVICT_MEMWR" => Slot.valid
    /\ fsm = "MEM_FETCH" => need_mem_fetch
    /\ fsm \in {"MEM_WAIT", "MEM_WAIT2"} => ~mem_write.valid
    /\ fsm = "SNOOP_OTHER" => Slot.valid /\ Slot.tag = req.line
    /\ WriteThrough

\* What an edge does to memory as L2 sees it.
LEMMA MemoryEdge ==
    ASSUME TypeOK, CommitMemWrite
    PROVE  /\ NoMemWrite => MemNow' = MemNow
           /\ \A k \in Lines, d \in LineData :
                 WriteMem(k, d) =>
                    \A l \in Lines : MemNow'[l] = IF l = k THEN d ELSE MemNow[l]
<1>1. mem' = MemNow /\ MemNow \in [Lines -> LineData]
  BY DEF TypeOK, CommitMemWrite, MemNow, MemWrite
<1>2. NoMemWrite => MemNow' = MemNow
  BY <1>1 DEF NoMemWrite, MemNow, TypeOK, MemWrite
<1>3. ASSUME NEW k \in Lines, NEW d \in LineData, WriteMem(k, d), NEW l \in Lines
      PROVE  MemNow'[l] = IF l = k THEN d ELSE MemNow[l]
  BY <1>1, <1>3 DEF WriteMem, MemNow
<1> QED
  BY <1>2, <1>3

\* Each step of L2 keeps the invariant that clean lines equal memory.
LEMMA WriteThroughStep ==
    ASSUME TypeOK, WriteThroughInv, L2Step, CommitMemWrite
    PROVE  WriteThroughInv'
<1>0. /\ req.line \in Lines /\ req.wb \in LineData /\ ReqSet \in L2Index
      /\ Slot \in L2Set /\ Slot.tag \in Lines /\ Slot.data \in LineData
      /\ L2IndexOf(req.line) = ReqSet
      /\ \A i \in L2Index : array[i] \in L2Set /\ array[i].tag \in Lines
  BY WireTypes DEF TypeOK, L2Request, L2Set, ReqSet
<1>1. CASE /\ NoMemWrite /\ array' = array
           /\ fsm \notin {"MEM_WAIT", "MEM_WAIT2", "EVICT_MEMWR", "MEM_FETCH"}
           /\ fsm' \in {"IDLE", "EVICT_SNOOP", "COOLDOWN"}
  <2>1. MemNow' = MemNow
    BY <1>1, MemoryEdge
  <2>2. WriteThrough'
    BY <1>0, <1>1, <2>1 DEF WriteThroughInv, WriteThrough, Replacing
  <2> QED
    BY <1>1, <2>2 DEF WriteThroughInv, Tagged
<1>2. CASE AbsorbWriteback
  <2>1. \A l \in Lines : MemNow'[l] = IF l = req.line THEN req.wb ELSE MemNow[l]
    BY <1>0, <1>2, MemoryEdge DEF AbsorbWriteback
  <2>2. /\ array'[ReqSet].tag = req.line /\ array'[ReqSet].data = req.wb
        /\ \A i \in L2Index \ {ReqSet} : array'[i] = array[i]
    BY <1>0, <1>2 DEF AbsorbWriteback, TypeOK
  <2>3. Tagged'
    BY <1>0, <2>2 DEF WriteThroughInv, Tagged
  <2>4. ASSUME NEW i \in L2Index, array'[i].valid
        PROVE  array'[i].data = MemNow'[array'[i].tag]
    <3>1. i # ReqSet => array[i].tag # req.line /\ ~Replacing(i)
      BY <1>0, <2>2, <2>4 DEF WriteThroughInv, Tagged, Replacing
    <3> QED
      BY <1>0, <2>1, <2>2, <2>4, <3>1 DEF WriteThroughInv, WriteThrough
  <2> QED
    BY <1>2, <2>3, <2>4 DEF AbsorbWriteback, WriteThroughInv, WriteThrough
<1>3. CASE EvictPresent
  <2>1. MemNow' = MemNow
    BY <1>3, MemoryEdge DEF EvictPresent
  <2>2. \A i \in L2Index : /\ array'[i].tag = array[i].tag /\ array'[i].data = array[i].data
                           /\ array'[i].valid = array[i].valid
    BY <1>0, <1>3 DEF EvictPresent, TypeOK, L2Set
  <2>3. fsm = "EVICT_SNOOP" /\ fsm' = "EVICT_MEMWR" /\ Slot.valid /\ ReqSet' = ReqSet
    BY <1>3 DEF EvictPresent, EvictNeeded, ReqSet
  <2>4. WriteThrough'
    BY <1>0, <2>1, <2>2, <2>3 DEF WriteThroughInv, WriteThrough, Replacing
  <2> QED
    BY <1>0, <2>2, <2>3, <2>4 DEF WriteThroughInv, Tagged, Slot
<1>4. CASE LookUp
  <2>1. MemNow' = MemNow
    BY <1>4, MemoryEdge DEF LookUp
  <2>2. /\ fsm = "EVICT_SNOOP" /\ array' = array /\ ReqSet' = ReqSet /\ req' = req
        /\ \/ fsm' = "SNOOP_OTHER" /\ Slot.valid /\ Slot.tag = req.line
           \/ fsm' = "MEM_FETCH" /\ need_mem_fetch'
    BY <1>4 DEF LookUp, ReqSet, L2Hit
  <2>3. WriteThrough'
    BY <1>0, <2>1, <2>2 DEF WriteThroughInv, WriteThrough, Replacing
  <2> QED
    BY <1>0, <2>2, <2>3 DEF WriteThroughInv, Tagged, Slot
<1>5. CASE EvictMemWr
  <2>1. /\ fsm = "EVICT_MEMWR" /\ fsm' = "MEM_FETCH" /\ need_mem_fetch'
        /\ array' = array /\ ReqSet' = ReqSet /\ dirty.data \in LineData
    BY <1>5 DEF EvictMemWr, ReqSet, TypeOK
  <2>2. \A l \in Lines : l # Slot.tag => MemNow'[l] = MemNow[l]
    BY <1>0, <1>5, <2>1, MemoryEdge DEF EvictMemWr
  <2>3. \A i \in L2Index : i # ReqSet /\ array[i].valid => array[i].tag # Slot.tag
    BY <1>0, <2>1 DEF WriteThroughInv, Tagged, Slot
  <2>4. WriteThrough'
    BY <1>0, <2>1, <2>2, <2>3 DEF WriteThroughInv, WriteThrough, Replacing
  <2> QED
    BY <1>0, <2>1, <2>4 DEF WriteThroughInv, Tagged
<1>6. CASE MemFetch
  <2>1. MemNow' = MemNow
    BY <1>6, MemoryEdge DEF MemFetch
  <2>2. /\ fsm = "MEM_FETCH" /\ fsm' = "MEM_WAIT" /\ array' = array /\ ReqSet' = ReqSet
        /\ ~mem_write'.valid
    BY <1>6 DEF MemFetch, ReqSet, WriteThroughInv, NoMemWrite, TypeOK, MemWrite
  <2>3. WriteThrough'
    BY <1>0, <2>1, <2>2 DEF WriteThroughInv, WriteThrough, Replacing
  <2> QED
    BY <1>0, <2>2, <2>3 DEF WriteThroughInv, Tagged
<1>7. CASE Install
  <2>1. /\ fsm = "MEM_WAIT2" /\ fsm' = "SNOOP_OTHER" /\ ReqSet' = ReqSet /\ req' = req
        /\ array'[ReqSet].tag = req.line /\ array'[ReqSet].data = mem[req.line]
        /\ array'[ReqSet].valid
        /\ \A i \in L2Index \ {ReqSet} : array'[i] = array[i]
    BY <1>0, <1>7 DEF Install, ReqSet, TypeOK, L2Set
  <2>2. MemNow' = MemNow
    BY <1>7, MemoryEdge DEF Install
  <2>3. MemNow[req.line] = mem[req.line]
    BY <2>1 DEF WriteThroughInv, MemNow
  <2>4. Tagged'
    BY <1>0, <2>1 DEF WriteThroughInv, Tagged
  <2>5. WriteThrough'
    BY <1>0, <2>1, <2>2, <2>3 DEF WriteThroughInv, WriteThrough, Replacing
  <2> QED
    BY <2>1, <2>4, <2>5 DEF WriteThroughInv, Slot
<1>8. CASE SnoopOther
  <2> DEFINE data == IF DirtyAnswers = {} THEN Slot.data ELSE DirtyAnswerData
  <2>1. /\ fsm = "SNOOP_OTHER" /\ fsm' = "RESPOND"
        /\ array'[ReqSet].tag = req.line /\ array'[ReqSet].data = data
        /\ \A i \in L2Index \ {ReqSet} : array'[i] = array[i]
    BY <1>0, <1>8 DEF SnoopOther, TypeOK, L2Set, WriteThroughInv, Slot
  <2>2. Slot.valid /\ Slot.tag = req.line /\ Slot.data = MemNow[req.line]
    BY <1>0, <2>1 DEF WriteThroughInv, WriteThrough, Replacing, Slot
  <2>3. MemNow'[req.line] = data
    BY <1>0, <1>8, <2>2, WireTypes, MemoryEdge DEF SnoopOther
  <2>4. \A l \in Lines : l # req.line => MemNow'[l] = MemNow[l]
    BY <1>0, <1>8, WireTypes, MemoryEdge DEF SnoopOther
  <2>5. Tagged'
    BY <1>0, <2>1 DEF WriteThroughInv, Tagged
  <2>6. ASSUME NEW i \in L2Index, array'[i].valid
        PROVE  array'[i].data = MemNow'[array'[i].tag]
    <3>1. i # ReqSet => array[i].tag # req.line /\ ~Replacing(i)
      BY <1>0, <2>1, <2>6 DEF WriteThroughInv, Tagged, Replacing
    <3> QED
      BY <1>0, <2>1, <2>3, <2>4, <2>6, <3>1 DEF WriteThroughInv, WriteThrough
  <2> QED
    BY <2>1, <2>5, <2>6 DEF WriteThroughInv, WriteThrough
<1>9. CASE Idle \/ Respond \/ Cooldown
  BY <1>1, <1>9 DEF Idle, Respond, Cooldown, TypeOK, L2States
<1>10. CASE MemWait
  <2>1. MemNow' = MemNow
    BY <1>10, MemoryEdge DEF MemWait
  <2>2. /\ fsm = "MEM_WAIT" /\ fsm' = "MEM_WAIT2" /\ array' = array /\ ReqSet' = ReqSet
        /\ ~mem_write'.valid
    BY <1>10 DEF MemWait, ReqSet, NoMemWrite, TypeOK, MemWrite
  <2>3. WriteThrough'
    BY <1>0, <2>1, <2>2 DEF WriteThroughInv, WriteThrough, Replacing
  <2> QED
    BY <2>2, <2>3 DEF WriteThroughInv, Tagged
<1> QED
  BY <1>2, <1>3, <1>4, <1>5, <1>6, <1>7, <1>8, <1>9, <1>10 DEF L2Step

\* The invariant that clean lines equal memory, whatever the CPUs do.
LEMMA WriteThroughInvariant == Spec => []WriteThroughInv
<1>1. Init => WriteThroughInv
  BY DEF Init, WriteThroughInv, Tagged, WriteThrough
<1>2. TypeOK /\ WriteThroughInv /\ [Next]_vars => WriteThroughInv'
  <2>1. ASSUME WriteThroughInv, UNCHANGED vars
        PROVE  WriteThroughInv'
    BY <2>1 DEF WriteThroughInv, Tagged, WriteThrough, Replacing, MemNow, Slot, ReqSet, vars
  <2> QED
    BY <2>1, WriteThroughStep DEF Next, Edge
<1> QED
  BY <1>1, <1>2, TypeCorrect, PTL DEF Spec

(* l2_cache.v: "an L2 line is never itself dirty relative to memory", but *)
(* in the set it is replacing.                                            *)
THEOREM L2WriteThrough == Spec => []WriteThrough
<1>1. WriteThroughInv => WriteThrough
  BY DEF WriteThroughInv
<1> QED
  BY <1>1, WriteThroughInvariant, PTL

(***************************************************************************)
(* Coherence when the CPUs follow the discipline of ScriptedSpec.  The     *)
(* four properties that cache_scripted checks are not inductive: between   *)
(* the request of an L1 and its answer the data of a line travels, and     *)
(* the presence bits run ahead of the copies.  CInv adds                   *)
(*   OneActive       one agent at most is in a transaction, so the L1 that *)
(*                   L2 serves is the only one that moves by itself;       *)
(*   Sound           what an L1 that waits has asked for is what its       *)
(*                   operation needs, and a line is in the set of its      *)
(*                   index;                                                *)
(*   WritebacksHeld  the line of an L1 that writes back is in L2, has no   *)
(*                   other copy, and carries the last store;               *)
(*   Backed          the last store to a line is always in one place: a    *)
(*                   Modified copy, a writeback L2 has not absorbed, the   *)
(*                   buffer of L2's eviction, or memory;                   *)
(*   Fetching        the set L2 is filling belongs to nobody;              *)
(*   Answering       when L2 raises its answer the other copies are        *)
(*                   already downgraded, and the answer is what the array  *)
(*                   holds.                                                *)
(***************************************************************************)
\* An agent in the middle of a transaction, or about to start one by itself.
Active(a)   == l1[a].fsm # "IDLE" \/ l1[a].prefetch_pending
OneActive   == \A a, b \in Agents : Active(a) /\ Active(b) => a = b

\* The L1 s is consistent with the operation it serves and with its index.
Steady(s) ==
    /\ \A i \in L1Index : s.state[i] # "I" => L1IndexOf(s.tag[i]) = i
    /\ s.fsm = "WAIT" => /\ s.op.kind \in {"read", "write"} /\ s.req.type # "WB"
                         /\ s.op.kind = "read" <=> s.req.type = "BUSRD"
                         /\ s.req.line = s.op.line
    /\ s.fsm = "EVICT_WB" => s.op.kind \in {"read", "write"}
Sound(s) ==
    /\ Steady(s)
    /\ s.fsm = "WAIT" /\ s.req.type = "UPGR" => StateOf(s, s.op.line) = "S"

\* A copy that may be written is the only one.
Sole == \A l \in Lines, a, b \in Agents :
           StateOf(l1[a], l) \in {"M", "E"} /\ Holds(l1[b], l) => b = a

\* L2 has done its work for the request, and answers it.
Absorbed == fsm \in {"RESPOND", "COOLDOWN"}
WritesBack(a, l) == l1[a].fsm = "EVICT_WB" /\ l1[a].req.line = l
WritebacksHeld ==
    \A a \in Agents, l \in Lines : WritesBack(a, l) =>
        /\ l1[a].req.wb = latest[l]
        /\ array[L2IndexOf(l)].valid /\ array[L2IndexOf(l)].tag = l
        /\ \A b \in Agents : ~Holds(l1[b], l)

\* The last store to every line is somewhere.
Backed ==
    \A l \in Lines :
        \/ \E a \in Agents : StateOf(l1[a], l) = "M"
        \/ ~Absorbed /\ \E a \in Agents : WritesBack(a, l)
        \/ fsm = "EVICT_MEMWR" /\ dirty.had /\ Slot.tag = l
        \/ MemNow[l] = latest[l]

\* The set L2 replaces or fills is nobody's, and its dirty data is the last.
Fetching ==
    /\ \A i \in L2Index : ~array[i].valid => array[i].presence = {}
    /\ fsm \in {"EVICT_MEMWR", "MEM_FETCH", "MEM_WAIT", "MEM_WAIT2"} =>
          Slot.presence = {} /\ req.type # "WB"
    /\ fsm = "EVICT_MEMWR" /\ dirty.had => dirty.data = latest[Slot.tag]
    /\ fsm = "SNOOP_OTHER" => req.type # "WB"

\* The agents that do not make the request, and what their copies are once it is
\* served.
Others == Agents \ {req.core}
Answering ==
    /\ Absorbed =>
         /\ L2Hit /\ req.core \in Slot.presence
         /\ req.type = "BUSRD" => \A b \in Others : StateOf(l1[b], req.line) \notin {"M", "E"}
         /\ req.type \in {"BUSRDX", "UPGR"} => \A b \in Others : ~Holds(l1[b], req.line)
    /\ fsm = "COOLDOWN" =>
         /\ resp[req.core].data = Slot.data
         /\ resp[req.core].exclusive => Slot.presence \subseteq {req.core}

\* The inductive invariant.
Coherent == Sole /\ Inclusive /\ CopiesLatest
CInv == /\ OneActive /\ (\A a \in Agents : Sound(l1[a]))
        /\ Coherent /\ WritebacksHeld /\ Backed /\ Fetching /\ Answering
AllInv == TypeOK /\ ProtocolInv /\ WriteThroughInv /\ CInv

----------------------------------------------------------------------------
\* A line is held exactly when its state is not Invalid.
LEMMA StateHolds ==
  ASSUME NEW s \in L1Type, NEW l \in Lines
  PROVE  /\ StateOf(s, l) \in MESI
         /\ StateOf(s, l) = "I" <=> ~Holds(s, l)
         /\ Holds(s, l) => StateOf(s, l) = s.state[L1IndexOf(l)]
<1>1. s.state[L1IndexOf(l)] \in MESI
  BY IndexTypes DEF L1Type
<1> QED BY <1>1 DEF StateOf, Holds, MESI

\* What a snoop does to the copies of an L1: to the line it names, and to no other.
LEMMA SnoopedCopies ==
  ASSUME NEW s \in L1Type, NEW t \in L1Type, NEW snoop \in Snoop,
         t.state = Downgraded(s, snoop), t.tag = s.tag, t.line = s.line, NEW l \in Lines
  PROVE  /\ Holds(t, l) <=> Holds(s, l) /\ ~(snoop.valid /\ snoop.invalidate /\ snoop.line = l)
         /\ StateOf(t, l) = IF ~(snoop.valid /\ snoop.line = l /\ Holds(s, l)) THEN StateOf(s, l)
                            ELSE IF snoop.invalidate THEN "I" ELSE "S"
         /\ Read2Data(t, l) = Read2Data(s, l)
<1>1. /\ L1IndexOf(l) \in L1Index /\ snoop.line \in Lines /\ L1IndexOf(snoop.line) \in L1Index
      /\ s.state \in [L1Index -> MESI]
  BY IndexTypes DEF Snoop, L1Type
<1>2. CASE snoop.valid /\ Holds(s, snoop.line)
  <2>1. /\ t.state = [s.state EXCEPT ![L1IndexOf(snoop.line)] = IF snoop.invalidate THEN "I" ELSE "S"]
        /\ s.tag[L1IndexOf(snoop.line)] = snoop.line /\ s.state[L1IndexOf(snoop.line)] # "I"
    BY <1>2 DEF Downgraded, SnoopHit, Holds
  <2>2. CASE L1IndexOf(l) = L1IndexOf(snoop.line)
    <3>1. t.state[L1IndexOf(l)] = IF snoop.invalidate THEN "I" ELSE "S"
      BY <1>1, <2>1, <2>2
    <3> QED BY <1>2, <2>1, <2>2, <3>1 DEF Holds, StateOf, Read2Data
  <2>3. CASE L1IndexOf(l) # L1IndexOf(snoop.line)
    <3>1. t.state[L1IndexOf(l)] = s.state[L1IndexOf(l)] /\ l # snoop.line
      BY <1>1, <2>1, <2>3
    <3> QED BY <3>1 DEF Holds, StateOf, Read2Data
  <2> QED BY <2>2, <2>3
<1>3. CASE ~(snoop.valid /\ Holds(s, snoop.line))
  <2>1. t.state = s.state
    BY <1>3 DEF Downgraded, SnoopHit
  <2> QED BY <1>3, <2>1 DEF Holds, StateOf, Read2Data
<1> QED BY <1>2, <1>3

\* At an edge one agent at most, c, does anything: the one L2 serves while it
\* works, and the only one a CPU gives an operation to.
Alone(c, in) ==
    /\ \A b \in Agents : b # c => ~Active(b) /\ in[b].kind = "none"
    /\ fsm # "IDLE" => c = req.core /\ in[c].kind = "none"
    /\ in[c].kind # "none" => l1[c].fsm = "IDLE"

\* There is such an agent at every edge of scripted CPUs.
LEMMA OneActs ==
  ASSUME TypeOK, ProtocolInv, OneActive, NEW in \in ScriptedInputs
  PROVE  \E c \in Agents : Alone(c, in)
<1>1. 0 \in Agents /\ req.core \in Agents
  BY FabricAssumption DEF Agents, TypeOK, L2Request
<1>2. /\ \A a \in Agents : in[a] \in CpuOps
      /\ \A a \in Agents : l1[a].fsm # "IDLE" => in[a] = NoOp
      /\ \/ \A a \in Agents : in[a] = NoOp
         \/ Quiet /\ \E a \in Agents : \A b \in Agents \ {a} : in[b] = NoOp
  BY DEF ScriptedInputs, Inputs
<1>3. NoOp.kind = "none"
  BY DEF NoOp
<1>4. CASE fsm # "IDLE"
  <2>1. l1[req.core].req.valid
    BY <1>1, <1>4 DEF ProtocolInv, LatchedRequest
  <2>2. Active(req.core)
    BY <1>1, <2>1 DEF ProtocolInv, L1Inv, Waiting, Active
  <2>3. \A a \in Agents : in[a] = NoOp
    BY <1>2, <1>4 DEF Quiet
  <2> QED BY <1>1, <1>3, <2>2, <2>3 DEF OneActive, Alone
<1>5. CASE fsm = "IDLE" /\ \E a \in Agents : Active(a)
  <2>1. PICK a \in Agents : Active(a)
    BY <1>5
  <2>2. \A b \in Agents : in[b] = NoOp
    BY <1>2, <2>1 DEF Quiet, Active
  <2> QED BY <1>3, <1>5, <2>1, <2>2 DEF OneActive, Alone
<1>6. CASE fsm = "IDLE" /\ ~\E a \in Agents : Active(a)
  <2>1. PICK a \in Agents : \A b \in Agents \ {a} : in[b] = NoOp
    BY <1>1, <1>2
  <2> QED BY <1>3, <1>6, <2>1 DEF Active, Alone
<1> QED BY <1>4, <1>5, <1>6

\* An inactive L1 only follows the snoop.
LEMMA InactiveStep ==
  ASSUME NEW s \in L1Type, NEW op \in CpuOp, NEW snoop \in Snoop, NEW answer \in Response,
         s.fsm = "IDLE", ~s.prefetch_pending, op.kind = "none",
         NEW t, t = L1Clock(s, op, snoop, answer)
  PROVE  /\ t.state = Downgraded(s, snoop) /\ t.tag = s.tag /\ t.line = s.line
         /\ t.fsm = "IDLE" /\ t.prefetch_pending = s.prefetch_pending /\ t.req = s.req /\ t.op = s.op
<1> DEFINE st == Downgraded(s, snoop)
<1>1. L1Clock(s, op, snoop, answer) = Accept(s, op, st)
  BY DEF L1Clock
<1>2. Accept(s, op, st) = [s EXCEPT !.state = st, !.prefetch_pending = FALSE]
  BY DEF Accept
<1>3. s.prefetch_pending = FALSE
  BY DEF L1Type
<1> HIDE DEF st
<1> QED BY <1>1, <1>2, <1>3 DEF L1Type, st

\* So does one that waits, until its answer comes.
LEMMA WaitingStep ==
  ASSUME NEW s \in L1Type, NEW op \in CpuOp, NEW snoop \in Snoop, NEW answer \in Response,
         Waiting(s), ~answer.valid,
         NEW t, t = L1Clock(s, op, snoop, answer)
  PROVE  /\ t.state = Downgraded(s, snoop) /\ t.tag = s.tag /\ t.line = s.line
         /\ t.fsm = s.fsm /\ t.prefetch_pending = s.prefetch_pending
         /\ t.req = s.req /\ t.op = s.op
<1> DEFINE st == Downgraded(s, snoop)
<1>1. L1Clock(s, op, snoop, answer) = [s EXCEPT !.state = st]
  BY DEF L1Clock, Waiting
<1> HIDE DEF st
<1> QED BY <1>1 DEF L1Type, st

\* Nothing snoops, and nothing is answered, but in these states of L2.
LEMMA SnoopedWhen ==
  ASSUME TypeOK, ProtocolInv
  PROVE  /\ fsm \notin {"EVICT_SNOOP", "SNOOP_OTHER"} => Snooped = {}
         /\ \A a \in Agents : SnoopOf(a).valid <=> a \in Snooped
         /\ Snooped = {} => \A a \in Agents : Downgraded(l1[a], SnoopOf(a)) = l1[a].state
         /\ fsm # "COOLDOWN" => \A a \in Agents : ~resp[a].valid
<1>1. \A a \in Agents : SnoopOf(a).valid <=> a \in Snooped
  BY DEF SnoopOf
<1>2. Snooped = {} => \A a \in Agents : Downgraded(l1[a], SnoopOf(a)) = l1[a].state
  BY <1>1 DEF Downgraded, SnoopHit
<1>3. fsm \notin {"EVICT_SNOOP", "SNOOP_OTHER"} => Snooped = {}
  BY DEF Snooped, EvictNeeded
<1> QED BY <1>1, <1>2, <1>3 DEF ProtocolInv


\* While L2 works, the L1s only follow its snoops: nothing is stored, and
\* every agent keeps its FSM and its request.
LEMMA WorkingEdge ==
  ASSUME AllInv, NEW in \in ScriptedInputs, Edge(in), fsm \notin {"IDLE", "COOLDOWN"}
  PROVE  /\ latest' = latest
         /\ \A a \in Agents :
              /\ l1'[a].fsm = l1[a].fsm /\ l1'[a].prefetch_pending = l1[a].prefetch_pending
              /\ l1'[a].req = l1[a].req /\ l1'[a].op = l1[a].op
              /\ l1'[a].tag = l1[a].tag /\ l1'[a].line = l1[a].line
              /\ l1'[a].state = Downgraded(l1[a], SnoopOf(a))
         /\ Waiting(l1[req.core]) /\ \A a \in Agents : a # req.core => ~Active(a)
<1>0. TypeOK /\ ProtocolInv /\ OneActive /\ in \in Inputs
  BY DEF AllInv, CInv, ScriptedInputs
<1>1. Alone(req.core, in) /\ req.core \in Agents
  BY <1>0, OneActs DEF Alone, TypeOK, L2Request
<1>2. \A a \in Agents : ~resp[a].valid
  BY <1>0, SnoopedWhen
<1>3. Waiting(l1[req.core])
  BY <1>0, <1>1 DEF ProtocolInv, L1Inv, LatchedRequest
<1>4. \A a \in Agents : /\ l1[a] \in L1Type /\ in[a] \in CpuOp /\ in[a].kind = "none"
                        /\ SnoopOf(a) \in Snoop /\ resp[a] \in Response
  BY <1>0, <1>1, OpTypes, WireTypes DEF TypeOK, Inputs, Alone
<1>5. \A a \in Agents : l1'[a] = L1Clock(l1[a], in[a], SnoopOf(a), resp[a])
  BY DEF Edge, ClockL1s
<1>6. ASSUME NEW a \in Agents
      PROVE  /\ l1'[a].fsm = l1[a].fsm /\ l1'[a].prefetch_pending = l1[a].prefetch_pending
             /\ l1'[a].req = l1[a].req /\ l1'[a].op = l1[a].op
             /\ l1'[a].tag = l1[a].tag /\ l1'[a].line = l1[a].line
             /\ l1'[a].state = Downgraded(l1[a], SnoopOf(a))
  <2>1. CASE a = req.core
    BY <1>2, <1>3, <1>4, <1>5, <2>1, WaitingStep
  <2>2. CASE a # req.core
    <3>1. l1[a].fsm = "IDLE" /\ ~l1[a].prefetch_pending
      BY <1>1, <2>2 DEF Alone, Active
    <3> QED BY <1>4, <1>5, <3>1, InactiveStep
  <2> QED BY <2>1, <2>2
<1>7. \A l \in Lines : Writers(in, l) = {}
  BY <1>2, <1>4 DEF Writers, CompletesWrite
<1>8. latest' = latest
  BY <1>0, <1>7 DEF Edge, RecordWrites, TypeOK
<1> QED BY <1>1, <1>3, <1>6, <1>8 DEF Alone

\* The parts of the invariant that such an edge keeps whatever L2 does.
LEMMA WorkingKeeps ==
  ASSUME AllInv, NEW in \in ScriptedInputs, L2Step, Edge(in), fsm \notin {"IDLE", "COOLDOWN"}
  PROVE  /\ \A a \in Agents, l \in Lines :
              /\ Holds(l1'[a], l) <=> Holds(l1[a], l)
                    /\ ~(a \in Snooped /\ SnoopOf(a).invalidate /\ SnoopOf(a).line = l)
              /\ StateOf(l1'[a], l) =
                    IF ~(a \in Snooped /\ SnoopOf(a).line = l /\ Holds(l1[a], l))
                    THEN StateOf(l1[a], l) ELSE IF SnoopOf(a).invalidate THEN "I" ELSE "S"
              /\ Read2Data(l1'[a], l) = Read2Data(l1[a], l)
              /\ StateOf(l1[a], l) \in MESI
              /\ Holds(l1[a], l) <=> StateOf(l1[a], l) # "I"
              /\ Holds(l1'[a], l) <=> StateOf(l1'[a], l) # "I"
              /\ WritesBack(a, l)' <=> WritesBack(a, l)
         /\ OneActive'
         /\ CopiesLatest'
         /\ Sole'
<1>0. TypeOK /\ ProtocolInv /\ OneActive /\ in \in Inputs
  BY DEF AllInv, CInv, ScriptedInputs
<1>1. /\ latest' = latest
      /\ \A a \in Agents :
              /\ l1'[a].fsm = l1[a].fsm /\ l1'[a].prefetch_pending = l1[a].prefetch_pending
              /\ l1'[a].req = l1[a].req /\ l1'[a].op = l1[a].op
              /\ l1'[a].tag = l1[a].tag /\ l1'[a].line = l1[a].line
              /\ l1'[a].state = Downgraded(l1[a], SnoopOf(a))
  BY WorkingEdge
<1>2. \A a \in Agents : /\ l1[a] \in L1Type /\ l1'[a] \in L1Type
                        /\ SnoopOf(a) \in Snoop /\ (SnoopOf(a).valid <=> a \in Snooped)
  BY <1>0, EdgeType, WireTypes, SnoopedWhen DEF TypeOK
<1>3. \A a \in Agents, l \in Lines :
         /\ Holds(l1'[a], l) <=> Holds(l1[a], l)
               /\ ~(a \in Snooped /\ SnoopOf(a).invalidate /\ SnoopOf(a).line = l)
         /\ StateOf(l1'[a], l) =
               IF ~(a \in Snooped /\ SnoopOf(a).line = l /\ Holds(l1[a], l))
               THEN StateOf(l1[a], l) ELSE IF SnoopOf(a).invalidate THEN "I" ELSE "S"
         /\ Read2Data(l1'[a], l) = Read2Data(l1[a], l)
  <2> SUFFICES ASSUME NEW a \in Agents, NEW l \in Lines
               PROVE  /\ Holds(l1'[a], l) <=> Holds(l1[a], l)
                           /\ ~(a \in Snooped /\ SnoopOf(a).invalidate /\ SnoopOf(a).line = l)
                      /\ StateOf(l1'[a], l) =
                           IF ~(a \in Snooped /\ SnoopOf(a).line = l /\ Holds(l1[a], l))
                           THEN StateOf(l1[a], l) ELSE IF SnoopOf(a).invalidate THEN "I" ELSE "S"
                      /\ Read2Data(l1'[a], l) = Read2Data(l1[a], l)
    OBVIOUS
  <2>1. /\ l1[a] \in L1Type /\ l1'[a] \in L1Type /\ SnoopOf(a) \in Snoop
        /\ l1'[a].state = Downgraded(l1[a], SnoopOf(a))
        /\ l1'[a].tag = l1[a].tag /\ l1'[a].line = l1[a].line
    BY <1>1, <1>2
  <2>2. /\ Holds(l1'[a], l) <=> Holds(l1[a], l)
               /\ ~(SnoopOf(a).valid /\ SnoopOf(a).invalidate /\ SnoopOf(a).line = l)
        /\ StateOf(l1'[a], l) =
               IF ~(SnoopOf(a).valid /\ SnoopOf(a).line = l /\ Holds(l1[a], l))
               THEN StateOf(l1[a], l) ELSE IF SnoopOf(a).invalidate THEN "I" ELSE "S"
        /\ Read2Data(l1'[a], l) = Read2Data(l1[a], l)
    BY <2>1, SnoopedCopies
  <2> QED BY <1>2, <2>2
<1>4. \A a \in Agents, l \in Lines :
         /\ StateOf(l1[a], l) \in MESI
         /\ Holds(l1[a], l) <=> StateOf(l1[a], l) # "I"
         /\ Holds(l1'[a], l) <=> StateOf(l1'[a], l) # "I"
  BY <1>2, StateHolds
<1>5. \A a \in Agents, l \in Lines : WritesBack(a, l)' <=> WritesBack(a, l)
  BY <1>1 DEF WritesBack
<1>6. OneActive'
  BY <1>0, <1>1 DEF OneActive, Active
<1>7. CopiesLatest'
  BY <1>1, <1>3 DEF CopiesLatest, CopyLatest, Read2Hit, AllInv, CInv, Coherent
<1>8. Sole'
  BY <1>3, <1>4 DEF Sole, AllInv, CInv, Coherent
<1> QED BY <1>3, <1>4, <1>5, <1>6, <1>7, <1>8


\* What is known of the transaction L2 works on.
LEMMA Requester ==
  ASSUME AllInv, fsm # "IDLE"
  PROVE  /\ req.core \in Agents /\ req.line \in Lines /\ req.type \in ReqTypes
         /\ l1[req.core].req.type = req.type /\ l1[req.core].req.line = req.line
         /\ l1[req.core].req.wb = req.wb
         /\ req.type = "WB" <=> l1[req.core].fsm = "EVICT_WB"
         /\ req.type # "WB" => /\ l1[req.core].fsm = "WAIT" /\ l1[req.core].op.line = req.line
                               /\ l1[req.core].op.kind = IF req.type = "BUSRD" THEN "read" ELSE "write"
         /\ req.type = "UPGR" => /\ StateOf(l1[req.core], req.line) = "S"
                                 /\ Holds(l1[req.core], req.line)
                                 /\ L2Hit /\ req.core \in Slot.presence
         /\ req.type \in {"BUSRD", "BUSRDX"} => ~Holds(l1[req.core], req.line)
         /\ \A a \in Agents : a # req.core => ~Active(a)
         /\ \A a \in Agents, l \in Lines :
               WritesBack(a, l) <=> a = req.core /\ req.type = "WB" /\ l = req.line
<1>1. /\ req.core \in Agents /\ req.line \in Lines /\ req.type \in ReqTypes
      /\ l1[req.core] \in L1Type
  BY DEF AllInv, TypeOK, L2Request
<1>2. /\ l1[req.core].req.type = req.type /\ l1[req.core].req.line = req.line
      /\ l1[req.core].req.wb = req.wb /\ l1[req.core].req.valid
  BY DEF AllInv, ProtocolInv, LatchedRequest
<1>3. Waiting(l1[req.core]) /\ L1Inv(l1[req.core]) /\ Sound(l1[req.core])
  BY <1>1, <1>2 DEF AllInv, ProtocolInv, L1Inv, CInv
<1>4. req.type = "WB" <=> l1[req.core].fsm = "EVICT_WB"
  BY <1>2, <1>3 DEF Waiting, L1Inv, Sound, Steady
<1>5. req.type # "WB" => /\ l1[req.core].fsm = "WAIT" /\ l1[req.core].op.line = req.line
                         /\ l1[req.core].op.kind = IF req.type = "BUSRD" THEN "read" ELSE "write"
  BY <1>1, <1>2, <1>3, <1>4 DEF Waiting, Sound, Steady
<1>6. req.type = "UPGR" => StateOf(l1[req.core], req.line) = "S"
  BY <1>2, <1>3, <1>5 DEF Sound, Steady
<1>7. req.type = "UPGR" => Holds(l1[req.core], req.line)
  BY <1>1, <1>6, StateHolds
<1>8. req.type = "UPGR" => L2Hit /\ req.core \in Slot.presence
  BY <1>1, <1>7 DEF AllInv, CInv, Coherent, Inclusive, L2Hit, Slot, ReqSet
<1>9. req.type \in {"BUSRD", "BUSRDX"} => ~Holds(l1[req.core], req.line)
  BY <1>2, <1>3, <1>5 DEF L1Inv, Holds
<1>10. \A a \in Agents : a # req.core => ~Active(a)
  BY <1>1, <1>3 DEF AllInv, CInv, OneActive, Active, Waiting
<1>11. \A a \in Agents, l \in Lines :
         WritesBack(a, l) <=> a = req.core /\ req.type = "WB" /\ l = req.line
  BY <1>2, <1>4, <1>10 DEF WritesBack, Active
<1> QED BY <1>1, <1>2, <1>4, <1>5, <1>6, <1>7, <1>8, <1>9, <1>10, <1>11

\* The tags of an L1, and its request, stay sound while L2 works.
LEMMA WorkingSound ==
  ASSUME AllInv, NEW in \in ScriptedInputs, L2Step, Edge(in), fsm \notin {"IDLE", "COOLDOWN"},
         NEW a \in Agents
  PROVE  Sound(l1'[a])
<1>1. /\ l1'[a].fsm = l1[a].fsm /\ l1'[a].req = l1[a].req /\ l1'[a].op = l1[a].op
      /\ l1'[a].tag = l1[a].tag /\ l1'[a].state = Downgraded(l1[a], SnoopOf(a))
  BY WorkingEdge
<1>2. Sound(l1[a]) /\ l1[a] \in L1Type /\ SnoopOf(a) \in Snoop
  BY WireTypes DEF AllInv, CInv, TypeOK
<1>3. \A i \in L1Index : l1'[a].state[i] # "I" => L1IndexOf(l1'[a].tag[i]) = i
  BY <1>1, <1>2, DowngradedKeepsInvalid DEF Sound, Steady
<1>4. ASSUME l1'[a].fsm = "WAIT", l1'[a].req.type = "UPGR"
      PROVE  StateOf(l1'[a], l1'[a].op.line) = "S"
  <2>1. a = req.core
    BY <1>1, <1>4, Requester DEF Active
  <2>2. req.type = "UPGR" /\ l1[a].op.line = req.line /\ req.line \in Lines
    BY <1>1, <1>4, <2>1, Requester
  <2>3. a \notin Snooped
    BY <2>1, <2>2, Requester DEF Snooped, EvictNeeded, L2Hit
  <2>4. StateOf(l1'[a], req.line) = StateOf(l1[a], req.line)
    BY <2>2, <2>3, WorkingKeeps
  <2> QED BY <1>1, <2>1, <2>2, <2>4, Requester
<1> QED BY <1>1, <1>2, <1>3, <1>4 DEF Sound, Steady


\* The rest of the invariant, which depends on what L2 does.
L2Part == Inclusive /\ WritebacksHeld /\ Backed /\ Fetching /\ Answering

\* A writeback is absorbed.
LEMMA AbsorbKeeps ==
  ASSUME AllInv, NEW in \in ScriptedInputs, L2Step, Edge(in), AbsorbWriteback
  PROVE  L2Part'
<1>0. /\ TypeOK /\ fsm = "EVICT_SNOOP" /\ req.type = "WB" /\ req' = req /\ fsm' = "RESPOND"
      /\ CommitMemWrite
  BY DEF AbsorbWriteback, AllInv, Edge
<1>1. /\ ReqSet \in L2Index /\ array \in [L2Index -> L2Set] /\ req.line \in Lines
      /\ req.wb \in LineData /\ req.core \in Agents /\ ReqSet = L2IndexOf(req.line)
      /\ ReqSet' = ReqSet /\ Slot = array[ReqSet]
  BY <1>0, WireTypes DEF TypeOK, L2Request, ReqSet, Slot
<1>2. WritesBack(req.core, req.line)
  BY <1>0, <1>1, Requester
<1>3. /\ req.wb = latest[req.line] /\ Slot.valid /\ Slot.tag = req.line
      /\ \A b \in Agents : ~Holds(l1[b], req.line)
  BY <1>0, <1>1, <1>2, Requester DEF AllInv, CInv, WritebacksHeld, WritesBack
<1>4. /\ latest' = latest
      /\ \A a \in Agents : l1'[a].req = l1[a].req
  BY <1>0, WorkingEdge
<1>5. Snooped = {}
  BY <1>0 DEF Snooped, EvictNeeded
<1>6. \A a \in Agents, l \in Lines : /\ Holds(l1'[a], l) <=> Holds(l1[a], l)
                                     /\ StateOf(l1'[a], l) = StateOf(l1[a], l)
                                     /\ WritesBack(a, l)' <=> WritesBack(a, l)
  BY <1>0, <1>5, WorkingKeeps
<1>7. /\ \A l \in Lines : MemNow'[l] = IF l = req.line THEN req.wb ELSE MemNow[l]
  BY <1>0, <1>1, MemoryEdge DEF AbsorbWriteback
<1>8. /\ array'[ReqSet].valid /\ array'[ReqSet].tag = req.line
      /\ array'[ReqSet].presence = Slot.presence \cup {req.core}
      /\ \A i \in L2Index : i # ReqSet => array'[i] = array[i]
  BY <1>0, <1>1 DEF AbsorbWriteback, Slot
<1>9. \A l \in Lines : L2IndexOf(l) \in L2Index
  BY FabricAssumption DEF L2IndexOf, L2Index, Lines
<1>10. Inclusive'
  <2> SUFFICES ASSUME NEW l \in Lines, NEW a \in Agents, Holds(l1'[a], l)
               PROVE  /\ array'[L2IndexOf(l)].valid /\ array'[L2IndexOf(l)].tag = l
                      /\ a \in array'[L2IndexOf(l)].presence
    BY DEF Inclusive
  <2>1. /\ array[L2IndexOf(l)].valid /\ array[L2IndexOf(l)].tag = l
        /\ a \in array[L2IndexOf(l)].presence
    BY <1>6 DEF AllInv, CInv, Coherent, Inclusive
  <2> QED BY <1>1, <1>3, <1>8, <1>9, <2>1
<1>11. WritebacksHeld'
  <2> SUFFICES ASSUME NEW a \in Agents, NEW l \in Lines, WritesBack(a, l)'
               PROVE  /\ l1'[a].req.wb = latest'[l]
                      /\ array'[L2IndexOf(l)].valid /\ array'[L2IndexOf(l)].tag = l
                      /\ \A b \in Agents : ~Holds(l1'[b], l)
    BY DEF WritebacksHeld
  <2>1. WritesBack(a, l)
    BY <1>6
  <2>2. a = req.core /\ l = req.line
    BY <1>0, <2>1, Requester
  <2>3. l1[a].req.wb = latest[l]
    BY <2>1 DEF AllInv, CInv, WritebacksHeld
  <2> QED BY <1>1, <1>3, <1>4, <1>6, <1>8, <2>2, <2>3
<1>12. Backed'
  <2> SUFFICES ASSUME NEW l \in Lines,
                      ~\E a \in Agents : StateOf(l1'[a], l) = "M"
               PROVE  MemNow'[l] = latest'[l]
    BY DEF Backed
  <2>1. CASE l = req.line
    BY <1>3, <1>4, <1>7, <2>1
  <2>2. CASE l # req.line
    <3>1. ~\E a \in Agents : WritesBack(a, l)
      BY <1>0, <2>2, Requester
    <3>2. MemNow[l] = latest[l]
      BY <1>0, <1>6, <3>1 DEF AllInv, CInv, Backed
    <3> QED BY <1>4, <1>7, <2>2, <3>2
  <2> QED BY <2>1, <2>2
<1>13. Fetching'
  BY <1>0, <1>1, <1>8 DEF Fetching, AllInv, CInv
<1>14. Answering'
  BY <1>0, <1>1, <1>8 DEF Answering, L2Hit, Slot
<1> QED BY <1>10, <1>11, <1>12, <1>13, <1>14 DEF L2Part


\* A step that touches neither the array nor memory, and snoops nobody.
LEMMA StillKeeps ==
  ASSUME AllInv, NEW in \in ScriptedInputs, L2Step, Edge(in),
         fsm \notin {"IDLE", "COOLDOWN", "EVICT_MEMWR"}, Snooped = {}, NoMemWrite,
         array' = array, Absorbed' <=> Absorbed
  PROVE  /\ Inclusive' /\ WritebacksHeld' /\ Backed'
         /\ \A a \in Agents, l \in Lines : /\ Holds(l1'[a], l) <=> Holds(l1[a], l)
                                           /\ StateOf(l1'[a], l) = StateOf(l1[a], l)
<1>1. \A a \in Agents, l \in Lines : /\ Holds(l1'[a], l) <=> Holds(l1[a], l)
                                     /\ StateOf(l1'[a], l) = StateOf(l1[a], l)
                                     /\ WritesBack(a, l)' <=> WritesBack(a, l)
  BY WorkingKeeps
<1>2. /\ latest' = latest
      /\ \A a \in Agents : l1'[a].req = l1[a].req
  BY WorkingEdge
<1>3. MemNow' = MemNow
  BY MemoryEdge DEF AllInv, Edge
<1>4. Inclusive'
  BY <1>1 DEF Inclusive, AllInv, CInv, Coherent
<1>5. WritebacksHeld'
  BY <1>1, <1>2 DEF WritebacksHeld, AllInv, CInv
<1>6. Backed'
  <2> SUFFICES ASSUME NEW l \in Lines,
                      ~\E a \in Agents : StateOf(l1'[a], l) = "M",
                      Absorbed' \/ ~\E a \in Agents : WritesBack(a, l)'
               PROVE  MemNow'[l] = latest'[l]
    BY DEF Backed
  <2>1. MemNow[l] = latest[l]
    BY <1>1 DEF AllInv, CInv, Backed
  <2> QED BY <1>2, <1>3, <2>1
<1> QED BY <1>1, <1>4, <1>5, <1>6

\* The array is looked up: the line is there, or its set is free to be filled.
LEMMA LookUpKeeps ==
  ASSUME AllInv, NEW in \in ScriptedInputs, L2Step, Edge(in), LookUp
  PROVE  L2Part'
<1>1. /\ fsm = "EVICT_SNOOP" /\ NoMemWrite /\ array' = array /\ req' = req /\ dirty' = dirty
      /\ req.type # "WB" /\ ~(EvictNeeded /\ Slot.presence # {})
      /\ fsm' = IF L2Hit THEN "SNOOP_OTHER" ELSE "MEM_FETCH"
  BY DEF LookUp
<1>2. Snooped = {} /\ ~Absorbed /\ ~Absorbed'
  BY <1>1 DEF Snooped, Absorbed
<1>3. Inclusive' /\ WritebacksHeld' /\ Backed'
  BY <1>1, <1>2, StillKeeps
<1>4. ~L2Hit => Slot.presence = {}
  BY <1>1, WireTypes DEF L2Hit, EvictNeeded, Slot, AllInv, CInv, Fetching
<1>5. Fetching'
  BY <1>1, <1>4 DEF Fetching, AllInv, CInv, Slot, ReqSet
<1>6. Answering'
  BY <1>1, <1>2 DEF Answering
<1> QED BY <1>3, <1>5, <1>6 DEF L2Part

\* The line is asked of memory, and waited for.
LEMMA FetchKeeps ==
  ASSUME AllInv, NEW in \in ScriptedInputs, L2Step, Edge(in), MemFetch \/ MemWait
  PROVE  L2Part'
<1>1. /\ fsm \in {"MEM_FETCH", "MEM_WAIT"} /\ NoMemWrite /\ array' = array /\ req' = req
      /\ fsm' \in {"MEM_WAIT", "MEM_WAIT2"}
  BY DEF MemFetch, MemWait, AllInv, WriteThroughInv
<1>2. Snooped = {} /\ ~Absorbed /\ ~Absorbed'
  BY <1>1 DEF Snooped, EvictNeeded, Absorbed
<1>3. Inclusive' /\ WritebacksHeld' /\ Backed'
  BY <1>1, <1>2, StillKeeps
<1>4. Fetching'
  BY <1>1 DEF Fetching, AllInv, CInv, Slot, ReqSet
<1>5. Answering'
  BY <1>1, <1>2 DEF Answering
<1> QED BY <1>3, <1>4, <1>5 DEF L2Part

\* The answer is raised.
LEMMA RespondKeeps ==
  ASSUME AllInv, NEW in \in ScriptedInputs, L2Step, Edge(in), Respond
  PROVE  L2Part'
<1>1. /\ fsm = "RESPOND" /\ NoMemWrite /\ array' = array /\ req' = req /\ fsm' = "COOLDOWN"
      /\ req.core \in Agents /\ req.line \in Lines
      /\ resp'[req.core] = [valid |-> TRUE, data |-> Slot.data,
                            exclusive |-> Slot.presence \subseteq {req.core}]
  BY DEF Respond, AllInv, TypeOK, L2Request
<1>2. Snooped = {} /\ Absorbed /\ Absorbed'
  BY <1>1 DEF Snooped, EvictNeeded, Absorbed
<1>3. /\ Inclusive' /\ WritebacksHeld' /\ Backed'
      /\ \A a \in Agents, l \in Lines : /\ Holds(l1'[a], l) <=> Holds(l1[a], l)
                                        /\ StateOf(l1'[a], l) = StateOf(l1[a], l)
  BY <1>1, <1>2, StillKeeps
<1>4. Fetching'
  BY <1>1 DEF Fetching, AllInv, CInv
<1>5. Slot' = Slot /\ (L2Hit' <=> L2Hit) /\ Others' = Others /\ Others \subseteq Agents
  BY <1>1 DEF Slot, ReqSet, L2Hit, Others
<1>6. /\ L2Hit /\ req.core \in Slot.presence
      /\ req.type = "BUSRD" => \A b \in Others : StateOf(l1[b], req.line) \notin {"M", "E"}
      /\ req.type \in {"BUSRDX", "UPGR"} => \A b \in Others : ~Holds(l1[b], req.line)
  BY <1>2 DEF Answering, AllInv, CInv
<1>7. /\ L2Hit' /\ req'.core \in Slot'.presence
      /\ req'.type = "BUSRD" => \A b \in Others' : StateOf(l1'[b], req'.line) \notin {"M", "E"}
      /\ req'.type \in {"BUSRDX", "UPGR"} => \A b \in Others' : ~Holds(l1'[b], req'.line)
  BY <1>1, <1>3, <1>5, <1>6
<1>8. resp'[req'.core].data = Slot'.data
      /\ (resp'[req'.core].exclusive => Slot'.presence \subseteq {req'.core})
  <2>1. /\ resp'[req'.core].data = Slot.data
        /\ resp'[req'.core].exclusive = (Slot.presence \subseteq {req.core})
    BY <1>1
  <2>2. Slot'.data = Slot.data /\ Slot'.presence = Slot.presence /\ req'.core = req.core
    BY <1>1, <1>5
  <2> QED BY <2>1, <2>2, Zenon
<1>9. Answering'
  BY <1>7, <1>8 DEF Answering
<1> QED BY <1>3, <1>4, <1>9 DEF L2Part

\* The dirty data of the replaced line goes to memory.
LEMMA EvictMemWrKeeps ==
  ASSUME AllInv, NEW in \in ScriptedInputs, L2Step, Edge(in), EvictMemWr
  PROVE  L2Part'
<1>0. /\ TypeOK /\ fsm = "EVICT_MEMWR" /\ fsm' = "MEM_FETCH" /\ array' = array /\ req' = req
      /\ CommitMemWrite
      /\ IF dirty.had THEN WriteMem(Slot.tag, dirty.data) ELSE NoMemWrite
  BY DEF EvictMemWr, AllInv, Edge
<1>1. Slot.tag \in Lines /\ dirty.data \in LineData
  BY <1>0, WireTypes DEF TypeOK, L2Set
<1>2. Snooped = {} /\ ~Absorbed /\ ~Absorbed'
  BY <1>0 DEF Snooped, EvictNeeded, Absorbed
<1>3. \A a \in Agents, l \in Lines : /\ Holds(l1'[a], l) <=> Holds(l1[a], l)
                                     /\ StateOf(l1'[a], l) = StateOf(l1[a], l)
                                     /\ WritesBack(a, l)' <=> WritesBack(a, l)
  BY <1>0, <1>2, WorkingKeeps
<1>4. /\ latest' = latest
      /\ \A a \in Agents : l1'[a].req = l1[a].req
  BY <1>0, WorkingEdge
<1>5. Inclusive'
  BY <1>0, <1>3 DEF Inclusive, AllInv, CInv, Coherent
<1>6. WritebacksHeld'
  BY <1>0, <1>3, <1>4 DEF WritebacksHeld, AllInv, CInv
<1>7. Backed'
  <2> SUFFICES ASSUME NEW l \in Lines,
                      ~\E a \in Agents : StateOf(l1'[a], l) = "M",
                      ~\E a \in Agents : WritesBack(a, l)'
               PROVE  MemNow'[l] = latest'[l]
    BY <1>2 DEF Backed
  <2>1. CASE dirty.had /\ Slot.tag = l
    <3>1. MemNow'[l] = dirty.data
      BY <1>0, <1>1, <2>1, MemoryEdge
    <3> QED BY <1>0, <1>4, <2>1, <3>1 DEF AllInv, CInv, Fetching
  <2>2. CASE ~(dirty.had /\ Slot.tag = l)
    <3>1. MemNow[l] = latest[l]
      BY <1>3, <2>2 DEF AllInv, CInv, Backed
    <3>2. MemNow'[l] = MemNow[l]
      BY <1>0, <1>1, <2>2, MemoryEdge
    <3> QED BY <1>4, <3>1, <3>2
  <2> QED BY <2>1, <2>2
<1>8. Fetching'
  BY <1>0 DEF Fetching, AllInv, CInv, Slot, ReqSet
<1>9. Answering'
  BY <1>0, <1>2 DEF Answering
<1> QED BY <1>5, <1>6, <1>7, <1>8, <1>9 DEF L2Part


\* Nobody holds a line of the set L2 is filling.
LEMMA SetFree ==
  ASSUME AllInv, fsm \in {"EVICT_MEMWR", "MEM_FETCH", "MEM_WAIT", "MEM_WAIT2"},
         NEW a \in Agents, NEW l \in Lines, Holds(l1[a], l)
  PROVE  L2IndexOf(l) # ReqSet
BY DEF AllInv, CInv, Coherent, Inclusive, Fetching, Slot

\* The line that memory gave is installed.
LEMMA InstallKeeps ==
  ASSUME AllInv, NEW in \in ScriptedInputs, L2Step, Edge(in), Install
  PROVE  L2Part'
<1>0. /\ TypeOK /\ fsm = "MEM_WAIT2" /\ fsm' = "SNOOP_OTHER" /\ req' = req
      /\ NoMemWrite /\ CommitMemWrite /\ req.type # "WB"
  BY DEF Install, AllInv, Edge, CInv, Fetching
<1>1. /\ ReqSet \in L2Index /\ array \in [L2Index -> L2Set] /\ req.line \in Lines
      /\ ReqSet = L2IndexOf(req.line)
  BY <1>0, WireTypes DEF TypeOK, L2Request, ReqSet
<1>2. Snooped = {} /\ ~Absorbed /\ ~Absorbed'
  BY <1>0 DEF Snooped, EvictNeeded, Absorbed
<1>3. \A a \in Agents, l \in Lines : /\ Holds(l1'[a], l) <=> Holds(l1[a], l)
                                     /\ StateOf(l1'[a], l) = StateOf(l1[a], l)
                                     /\ WritesBack(a, l)' <=> WritesBack(a, l)
  BY <1>0, <1>2, WorkingKeeps
<1>4. latest' = latest /\ MemNow' = MemNow
  BY <1>0, WorkingEdge, MemoryEdge
<1>5. \A i \in L2Index : i # ReqSet => array'[i] = array[i]
  BY <1>0, <1>1 DEF Install
<1>6. array'[ReqSet].valid /\ array'[ReqSet].presence = array[ReqSet].presence
  BY <1>0, <1>1 DEF Install, L2Set
<1>7. \A a \in Agents, l \in Lines : ~WritesBack(a, l)
  BY <1>0, Requester
<1>8. \A l \in Lines : L2IndexOf(l) \in L2Index
  BY FabricAssumption DEF L2IndexOf, L2Index, Lines
<1>9. Inclusive'
  <2> SUFFICES ASSUME NEW l \in Lines, NEW a \in Agents, Holds(l1'[a], l)
               PROVE  /\ array'[L2IndexOf(l)].valid /\ array'[L2IndexOf(l)].tag = l
                      /\ a \in array'[L2IndexOf(l)].presence
    BY DEF Inclusive
  <2>1. L2IndexOf(l) # ReqSet
    BY <1>0, <1>3, SetFree
  <2>2. /\ array[L2IndexOf(l)].valid /\ array[L2IndexOf(l)].tag = l
        /\ a \in array[L2IndexOf(l)].presence
    BY <1>3 DEF AllInv, CInv, Coherent, Inclusive
  <2> QED BY <1>5, <1>8, <2>1, <2>2
<1>10. WritebacksHeld'
  BY <1>3, <1>7 DEF WritebacksHeld
<1>11. Backed'
  <2> SUFFICES ASSUME NEW l \in Lines,
                      ~\E a \in Agents : StateOf(l1'[a], l) = "M"
               PROVE  MemNow'[l] = latest'[l]
    BY DEF Backed
  <2>1. MemNow[l] = latest[l]
    BY <1>0, <1>3, <1>7 DEF AllInv, CInv, Backed
  <2> QED BY <1>4, <2>1
<1>12. Fetching'
  BY <1>0, <1>1, <1>5, <1>6 DEF Fetching, AllInv, CInv
<1>13. Answering'
  BY <1>0, <1>2 DEF Answering
<1> QED BY <1>9, <1>10, <1>11, <1>12, <1>13 DEF L2Part

\* A line is replaced, and every copy of it with it.
LEMMA EvictPresentKeeps ==
  ASSUME AllInv, NEW in \in ScriptedInputs, L2Step, Edge(in), EvictPresent
  PROVE  L2Part'
<1>0. /\ TypeOK /\ EvictNeeded /\ fsm = "EVICT_SNOOP" /\ fsm' = "EVICT_MEMWR" /\ req' = req
      /\ req.type # "WB" /\ Slot.valid /\ Slot.tag # req.line
      /\ NoMemWrite /\ CommitMemWrite
  BY DEF EvictPresent, EvictNeeded, AllInv, Edge
<1>1. /\ ReqSet \in L2Index /\ array \in [L2Index -> L2Set] /\ req.line \in Lines
      /\ Slot = array[ReqSet] /\ Slot.tag \in Lines /\ ReqSet' = ReqSet
      /\ L2IndexOf(Slot.tag) = ReqSet
  BY <1>0, WireTypes DEF TypeOK, L2Request, ReqSet, Slot, L2Set, AllInv, WriteThroughInv, Tagged
<1>2. /\ Snooped = Slot.presence /\ ~Absorbed /\ ~Absorbed'
      /\ \A a \in Agents : SnoopOf(a).invalidate /\ SnoopOf(a).line = Slot.tag
  BY <1>0 DEF Snooped, Absorbed, SnoopOf
<1>3. \A a \in Agents, l \in Lines :
         /\ Holds(l1[a], l) =>
              /\ array[L2IndexOf(l)].valid /\ array[L2IndexOf(l)].tag = l
              /\ a \in array[L2IndexOf(l)].presence
         /\ l = Slot.tag => ~Holds(l1'[a], l)
         /\ l # Slot.tag => /\ Holds(l1'[a], l) <=> Holds(l1[a], l)
                            /\ StateOf(l1'[a], l) = StateOf(l1[a], l)
         /\ Holds(l1'[a], l) => Holds(l1[a], l)
         /\ WritesBack(a, l)' <=> WritesBack(a, l)
  <2>1. \A a \in Agents, l \in Lines : Holds(l1[a], l) =>
           /\ array[L2IndexOf(l)].valid /\ array[L2IndexOf(l)].tag = l
           /\ a \in array[L2IndexOf(l)].presence
    BY DEF AllInv, CInv, Coherent, Inclusive
  <2> QED BY <1>0, <1>1, <1>2, <2>1, WorkingKeeps
<1>4. latest' = latest /\ MemNow' = MemNow
  BY <1>0, WorkingEdge, MemoryEdge
<1>5. /\ \A i \in L2Index : /\ i # ReqSet => array'[i] = array[i]
                            /\ array'[i].valid = array[i].valid
      /\ array'[ReqSet].presence = {} /\ array'[ReqSet].tag = Slot.tag
  BY <1>0, <1>1 DEF EvictPresent, L2Set
<1>6. \A a \in Agents, l \in Lines : ~WritesBack(a, l)
  BY <1>0, Requester
<1>7. \A l \in Lines : L2IndexOf(l) \in L2Index
  BY FabricAssumption DEF L2IndexOf, L2Index, Lines
<1>8. Inclusive'
  <2> SUFFICES ASSUME NEW l \in Lines, NEW a \in Agents, Holds(l1'[a], l)
               PROVE  /\ array'[L2IndexOf(l)].valid /\ array'[L2IndexOf(l)].tag = l
                      /\ a \in array'[L2IndexOf(l)].presence
    BY DEF Inclusive
  <2>1. L2IndexOf(l) # ReqSet
    BY <1>1, <1>3
  <2> QED BY <1>3, <1>5, <1>7, <2>1
<1>9. WritebacksHeld'
  BY <1>3, <1>6 DEF WritebacksHeld
<1>10. \A a \in Agents : StateOf(l1[a], Slot.tag) = "M" <=> a \in DirtyAnswers
  <2> SUFFICES ASSUME NEW a \in Agents
               PROVE  StateOf(l1[a], Slot.tag) = "M" <=> a \in DirtyAnswers
    OBVIOUS
  <2>1. l1[a] \in L1Type
    BY <1>0 DEF TypeOK
  <2>2. StateOf(l1[a], Slot.tag) = "M" => Holds(l1[a], Slot.tag)
    BY <1>1, <2>1, StateHolds
  <2>3. Holds(l1[a], Slot.tag) => SnoopOf(a).valid
    BY <1>0, <1>1, <1>2, <1>3 DEF SnoopOf
  <2>4. SnoopDirty(l1[a], SnoopOf(a)) <=>
           SnoopOf(a).valid /\ Holds(l1[a], Slot.tag) /\ StateOf(l1[a], Slot.tag) = "M"
    BY <1>2 DEF SnoopDirty, SnoopHit
  <2> QED BY <2>2, <2>3, <2>4 DEF DirtyAnswers
<1>11. DirtyAnswers # {} => DirtyAnswerData = latest[Slot.tag]
  <2> SUFFICES ASSUME DirtyAnswers # {} PROVE DirtyAnswerData = latest[Slot.tag]
    OBVIOUS
  <2>1. PICK a \in DirtyAnswers : DirtyAnswerData = SnoopData(l1[a], SnoopOf(a))
    <3>1. DirtyAnswers \in SUBSET Agents
      BY DEF DirtyAnswers
    <3> QED BY <3>1, LeastAgent DEF DirtyAnswerData
  <2>2. a \in Agents /\ l1[a] \in L1Type
    BY <1>0, <2>1 DEF DirtyAnswers, TypeOK
  <2>3. Holds(l1[a], Slot.tag)
    BY <1>1, <1>10, <2>1, <2>2, StateHolds
  <2>4. Read2Data(l1[a], Slot.tag) = latest[Slot.tag]
    BY <1>1, <2>2, <2>3 DEF AllInv, CInv, Coherent, CopiesLatest, CopyLatest, Read2Hit
  <2> QED BY <1>2, <2>1, <2>2, <2>4 DEF SnoopData, Read2Data
<1>12. /\ dirty'.had <=> DirtyAnswers # {}
       /\ DirtyAnswers # {} => dirty'.data = DirtyAnswerData
  BY DEF EvictPresent
<1>13. Backed'
  <2> SUFFICES ASSUME NEW l \in Lines,
                      ~\E a \in Agents : StateOf(l1'[a], l) = "M",
                      ~(fsm' = "EVICT_MEMWR" /\ dirty'.had /\ Slot'.tag = l)
               PROVE  MemNow'[l] = latest'[l]
    BY DEF Backed
  <2>1. Slot'.tag = Slot.tag
    BY <1>1, <1>5 DEF Slot
  <2>2. ~\E a \in Agents : StateOf(l1[a], l) = "M"
    BY <1>0, <1>3, <1>10, <1>12, <2>1
  <2>3. MemNow[l] = latest[l]
    BY <1>0, <1>6, <2>2 DEF AllInv, CInv, Backed
  <2> QED BY <1>4, <2>3
<1>14. Fetching'
  <2>1. Slot'.presence = {} /\ Slot'.tag = Slot.tag
    BY <1>1, <1>5 DEF Slot
  <2>2. \A i \in L2Index : ~array'[i].valid => array'[i].presence = {}
    BY <1>1, <1>5 DEF AllInv, CInv, Fetching
  <2>3. dirty'.had => dirty'.data = latest'[Slot'.tag]
    BY <1>4, <1>11, <1>12, <2>1
  <2> QED BY <1>0, <2>1, <2>2, <2>3 DEF Fetching
<1>15. Answering'
  BY <1>0, <1>2 DEF Answering
<1> QED BY <1>8, <1>9, <1>13, <1>14, <1>15 DEF L2Part


\* The other copies are snooped: a dirty one gives its data to L2 and memory.
LEMMA SnoopOtherKeeps ==
  ASSUME AllInv, NEW in \in ScriptedInputs, L2Step, Edge(in), SnoopOther
  PROVE  L2Part'
<1>0. /\ TypeOK /\ fsm = "SNOOP_OTHER" /\ fsm' = "RESPOND" /\ req' = req
      /\ req.type # "WB" /\ Slot.valid /\ Slot.tag = req.line /\ CommitMemWrite
      /\ IF DirtyAnswers = {} THEN NoMemWrite ELSE WriteMem(req.line, DirtyAnswerData)
  BY DEF SnoopOther, AllInv, Edge, CInv, Fetching, WriteThroughInv
<1> DEFINE kept == IF req.type = "BUSRD" THEN Slot.presence ELSE Slot.presence \ Snooped
<1>1. /\ ReqSet \in L2Index /\ array \in [L2Index -> L2Set] /\ req.line \in Lines
      /\ Slot = array[ReqSet] /\ ReqSet' = ReqSet /\ req.core \in Agents
      /\ ReqSet = L2IndexOf(req.line)
  BY <1>0, WireTypes DEF TypeOK, L2Request, ReqSet, Slot
<1>2. /\ Snooped = Slot.presence \ {req.core}
      /\ \A a \in Agents : /\ SnoopOf(a).invalidate <=> req.type # "BUSRD"
                           /\ SnoopOf(a).line = req.line
                           /\ SnoopOf(a).valid <=> a \in Snooped
  BY <1>0 DEF Snooped, EvictNeeded, SnoopOf
<1>3. \A a \in Agents, l \in Lines :
         /\ Holds(l1[a], l) =>
              /\ array[L2IndexOf(l)].valid /\ array[L2IndexOf(l)].tag = l
              /\ a \in array[L2IndexOf(l)].presence
         /\ Holds(l1'[a], l) => Holds(l1[a], l)
         /\ l # req.line => /\ Holds(l1'[a], l) <=> Holds(l1[a], l)
                            /\ StateOf(l1'[a], l) = StateOf(l1[a], l)
         /\ WritesBack(a, l)' <=> WritesBack(a, l)
  <2>1. \A a \in Agents, l \in Lines : Holds(l1[a], l) =>
           /\ array[L2IndexOf(l)].valid /\ array[L2IndexOf(l)].tag = l
           /\ a \in array[L2IndexOf(l)].presence
    BY DEF AllInv, CInv, Coherent, Inclusive
  <2> QED BY <1>0, <1>1, <1>2, <2>1, WorkingKeeps
<1>4. \A a \in Agents : a # req.core =>
         /\ req.type = "BUSRD" => StateOf(l1'[a], req.line) \notin {"M", "E"}
         /\ req.type # "BUSRD" => ~Holds(l1'[a], req.line)
  <2> SUFFICES ASSUME NEW a \in Agents, a # req.core
               PROVE  /\ req.type = "BUSRD" => StateOf(l1'[a], req.line) \notin {"M", "E"}
                      /\ req.type # "BUSRD" => ~Holds(l1'[a], req.line)
    OBVIOUS
  <2>1. Holds(l1[a], req.line) => a \in Snooped
    BY <1>1, <1>2, <1>3
  <2> QED BY <1>0, <1>1, <1>2, <2>1, WorkingKeeps DEF MESI
<1>5. latest' = latest
  BY <1>0, WorkingEdge
<1>6. /\ \A i \in L2Index : i # ReqSet => array'[i] = array[i]
      /\ array'[ReqSet].presence = kept \cup {req.core}
      /\ array'[ReqSet].tag = Slot.tag /\ array'[ReqSet].valid = Slot.valid
  <2> HIDE DEF kept
  <2>1. array' = [array EXCEPT ![ReqSet] =
                    [@ EXCEPT !.presence = kept \cup {req.core},
                              !.data = IF DirtyAnswers = {} THEN Slot.data ELSE DirtyAnswerData]]
    BY DEF SnoopOther, kept
  <2> QED BY <1>1, <2>1 DEF L2Set
<1>7. \A a \in Agents, l \in Lines : ~WritesBack(a, l)
  BY <1>0, Requester
<1>8. \A l \in Lines : L2IndexOf(l) \in L2Index
  BY FabricAssumption DEF L2IndexOf, L2Index, Lines
<1>9. Inclusive'
  <2> SUFFICES ASSUME NEW l \in Lines, NEW a \in Agents, Holds(l1'[a], l)
               PROVE  /\ array'[L2IndexOf(l)].valid /\ array'[L2IndexOf(l)].tag = l
                      /\ a \in array'[L2IndexOf(l)].presence
    BY DEF Inclusive
  <2>1. CASE L2IndexOf(l) # ReqSet
    BY <1>3, <1>6, <1>8, <2>1
  <2>2. CASE L2IndexOf(l) = ReqSet
    <3>1. Slot.valid /\ Slot.tag = l /\ a \in Slot.presence
      BY <1>1, <1>3, <2>2
    <3>2. a \in kept \cup {req.core}
      BY <1>0, <1>2, <1>4, <3>1
    <3> QED BY <1>6, <2>2, <3>1, <3>2
  <2> QED BY <2>1, <2>2
<1>10. WritebacksHeld'
  BY <1>3, <1>7 DEF WritebacksHeld
<1>11. \A a \in Agents : StateOf(l1[a], req.line) = "M" <=> a \in DirtyAnswers
  <2> SUFFICES ASSUME NEW a \in Agents
               PROVE  StateOf(l1[a], req.line) = "M" <=> a \in DirtyAnswers
    OBVIOUS
  <2>1. l1[a] \in L1Type
    BY <1>0 DEF TypeOK
  <2>2. StateOf(l1[a], req.line) = "M" => Holds(l1[a], req.line)
    BY <1>1, <2>1, StateHolds
  <2>3. StateOf(l1[a], req.line) = "M" => a # req.core
    BY <1>0, <1>1, <2>2, Requester DEF ReqTypes
  <2>4. StateOf(l1[a], req.line) = "M" => SnoopOf(a).valid
    BY <1>1, <1>2, <1>3, <2>2, <2>3
  <2>5. SnoopDirty(l1[a], SnoopOf(a)) <=>
           SnoopOf(a).valid /\ Holds(l1[a], req.line) /\ StateOf(l1[a], req.line) = "M"
    BY <1>2 DEF SnoopDirty, SnoopHit
  <2> QED BY <2>2, <2>4, <2>5 DEF DirtyAnswers
<1>12. DirtyAnswers # {} => DirtyAnswerData = latest[req.line]
  <2> SUFFICES ASSUME DirtyAnswers # {} PROVE DirtyAnswerData = latest[req.line]
    OBVIOUS
  <2>1. PICK a \in DirtyAnswers : DirtyAnswerData = SnoopData(l1[a], SnoopOf(a))
    <3>1. DirtyAnswers \in SUBSET Agents
      BY DEF DirtyAnswers
    <3> QED BY <3>1, LeastAgent DEF DirtyAnswerData
  <2>2. a \in Agents /\ l1[a] \in L1Type
    BY <1>0, <2>1 DEF DirtyAnswers, TypeOK
  <2>3. Holds(l1[a], req.line)
    BY <1>1, <1>11, <2>1, <2>2, StateHolds
  <2>4. Read2Data(l1[a], req.line) = latest[req.line]
    BY <1>1, <2>2, <2>3 DEF AllInv, CInv, Coherent, CopiesLatest, CopyLatest, Read2Hit
  <2> QED BY <1>2, <2>1, <2>2, <2>4 DEF SnoopData, Read2Data
<1>13. Backed'
  <2> SUFFICES ASSUME NEW l \in Lines,
                      ~\E a \in Agents : StateOf(l1'[a], l) = "M"
               PROVE  MemNow'[l] = latest'[l]
    BY DEF Backed
  <2>1. CASE DirtyAnswers # {}
    <3>1. MemNow'[l] = IF l = req.line THEN DirtyAnswerData ELSE MemNow[l]
      BY <1>0, <1>1, <2>1, WireTypes, MemoryEdge
    <3>2. l # req.line => MemNow[l] = latest[l]
      BY <1>0, <1>3, <1>7 DEF AllInv, CInv, Backed
    <3> QED BY <1>5, <1>12, <2>1, <3>1, <3>2
  <2>2. CASE DirtyAnswers = {}
    <3>1. MemNow' = MemNow
      BY <1>0, <2>2, MemoryEdge
    <3>2. ~\E a \in Agents : StateOf(l1[a], l) = "M"
      BY <1>3, <1>11, <2>2
    <3> QED BY <1>0, <1>5, <1>7, <3>1, <3>2 DEF AllInv, CInv, Backed
  <2> QED BY <2>1, <2>2
<1>14. Fetching'
  BY <1>0, <1>1, <1>6 DEF Fetching, AllInv, CInv
<1>15. Answering'
  <2>1. L2Hit' /\ req'.core \in Slot'.presence
    BY <1>0, <1>1, <1>6 DEF L2Hit, Slot
  <2>2. Others' = Agents \ {req.core}
    BY <1>0 DEF Others
  <2>3. /\ req'.type = "BUSRD" => \A b \in Others' : StateOf(l1'[b], req'.line) \notin {"M", "E"}
        /\ req'.type \in {"BUSRDX", "UPGR"} => \A b \in Others' : ~Holds(l1'[b], req'.line)
    BY <1>0, <1>4, <2>2
  <2> QED BY <1>0, <2>1, <2>3 DEF Answering
<1> QED BY <1>9, <1>10, <1>13, <1>14, <1>15 DEF L2Part

\* While L2 works, between the request and the answer, every step keeps the invariant.
LEMMA WorkingStep ==
  ASSUME AllInv, NEW in \in ScriptedInputs, L2Step, Edge(in), fsm \notin {"IDLE", "COOLDOWN"}
  PROVE  CInv'
<1>1. L2Part'
  BY AbsorbKeeps, LookUpKeeps, FetchKeeps, RespondKeeps, EvictMemWrKeeps, InstallKeeps,
     EvictPresentKeeps, SnoopOtherKeeps DEF L2Step, Idle, Cooldown
<1>2. OneActive' /\ CopiesLatest' /\ Sole'
  BY WorkingKeeps
<1>3. \A a \in Agents : Sound(l1'[a])
  BY WorkingSound
<1> QED BY <1>1, <1>2, <1>3 DEF CInv, Coherent, L2Part


\* What an L1 that is neither snooped nor answered may do to its copies: keep
\* them but for a clean one, store to one of its own, or evict a dirty one.
Drops(s, t) ==
    /\ \A l \in Lines :
          /\ Holds(t, l) => /\ Holds(s, l) /\ StateOf(t, l) = StateOf(s, l)
                            /\ Read2Data(t, l) = Read2Data(s, l)
          /\ StateOf(s, l) = "M" => StateOf(t, l) = "M"
    /\ t.fsm = "EVICT_WB" <=> s.fsm = "EVICT_WB"
    /\ s.fsm = "EVICT_WB" => t.req = s.req
Stores(s, t, op) ==
    /\ s.fsm = "IDLE" /\ op.kind = "write" /\ StateOf(s, op.line) \in {"M", "E"}
    /\ t.fsm # "EVICT_WB"
    /\ Holds(t, op.line) /\ StateOf(t, op.line) = "M"
    /\ Read2Data(t, op.line) = MergeWrite(Read2Data(s, op.line), op)
    /\ \A l \in Lines : l # op.line => /\ Holds(t, l) <=> Holds(s, l)
                                       /\ StateOf(t, l) = StateOf(s, l)
                                       /\ Holds(s, l) => Read2Data(t, l) = Read2Data(s, l)
Evicts(s, t) ==
    \E v \in Lines :
       /\ StateOf(s, v) = "M" /\ s.fsm = "IDLE" /\ t.fsm = "EVICT_WB"
       /\ t.req.line = v /\ t.req.wb = Read2Data(s, v)
       /\ ~Holds(t, v)
       /\ \A l \in Lines : l # v => /\ Holds(t, l) <=> Holds(s, l)
                                    /\ StateOf(t, l) = StateOf(s, l)
                                    /\ Read2Data(t, l) = Read2Data(s, l)

\* The copies when the set of a line k is made Invalid.
LEMMA DroppedCopies ==
  ASSUME NEW s \in L1Type, NEW t \in L1Type, NEW k \in Lines,
         t.state = [s.state EXCEPT ![L1IndexOf(k)] = "I"], t.tag = s.tag, t.line = s.line,
         NEW l \in Lines
  PROVE  /\ Holds(t, l) <=> Holds(s, l) /\ L1IndexOf(l) # L1IndexOf(k)
         /\ L1IndexOf(l) # L1IndexOf(k) => StateOf(t, l) = StateOf(s, l)
         /\ Read2Data(t, l) = Read2Data(s, l)
<1>1. L1IndexOf(l) \in L1Index /\ L1IndexOf(k) \in L1Index /\ s.state \in [L1Index -> MESI]
  BY IndexTypes DEF L1Type
<1>2. t.state[L1IndexOf(l)] = IF L1IndexOf(l) = L1IndexOf(k) THEN "I" ELSE s.state[L1IndexOf(l)]
  BY <1>1
<1> QED BY <1>2 DEF Holds, StateOf, Read2Data

\* A miss over a clean set drops one clean copy at most, and asks for the line.
LEMMA MissCleanShape ==
  ASSUME NEW s \in L1Type, NEW op \in CpuOp, NEW t \in L1Type,
         Sound(s), s.fsm = "IDLE", op.kind \in {"read", "write"},
         s.state[L1IndexOf(op.line)] # "M",
         t.state = [s.state EXCEPT ![L1IndexOf(op.line)] = "I"], t.tag = s.tag, t.line = s.line,
         t.op = op, t.fsm = "WAIT", t.req.line = op.line,
         t.req.type = IF op.kind = "write" THEN "BUSRDX" ELSE "BUSRD"
  PROVE  Sound(t) /\ Drops(s, t)
<1>1. op.line \in Lines /\ L1IndexOf(op.line) \in L1Index /\ s.state \in [L1Index -> MESI]
  BY IndexTypes DEF CpuOp, L1Type
<1>2. Sound(t)
  <2>1. \A i \in L1Index : t.state[i] # "I" => s.state[i] # "I"
    BY <1>1
  <2> QED BY <2>1 DEF Sound, Steady
<1>3. \A l \in Lines : StateOf(s, l) = "M" => Holds(s, l) /\ L1IndexOf(l) # L1IndexOf(op.line)
  BY StateHolds
<1>4. \A l \in Lines :
         /\ Holds(t, l) <=> Holds(s, l) /\ L1IndexOf(l) # L1IndexOf(op.line)
         /\ L1IndexOf(l) # L1IndexOf(op.line) => StateOf(t, l) = StateOf(s, l)
         /\ Read2Data(t, l) = Read2Data(s, l)
  BY <1>1, DroppedCopies
<1> QED BY <1>2, <1>3, <1>4 DEF Drops

\* A step that leaves the copies alone.
LEMMA SameShape ==
  ASSUME NEW s \in L1Type, NEW t \in L1Type,
         t.state = s.state, t.tag = s.tag, t.line = s.line,
         t.fsm = "EVICT_WB" <=> s.fsm = "EVICT_WB", s.fsm = "EVICT_WB" => t.req = s.req
  PROVE  /\ Drops(s, t)
         /\ \A l \in Lines : /\ Holds(t, l) <=> Holds(s, l)
                             /\ StateOf(t, l) = StateOf(s, l)
                             /\ Read2Data(t, l) = Read2Data(s, l)
BY DEF Drops, Holds, StateOf, Read2Data

\* The operation an idle L1 takes has one of the three effects.
LEMMA AcceptShape ==
  ASSUME NEW s \in L1Type, NEW op \in CpuOp, NEW t \in L1Type, Sound(s), s.fsm = "IDLE",
         t = Accept(s, op, s.state)
  PROVE  /\ Sound(t)
         /\ \/ Drops(s, t) /\ ~(op.kind = "write" /\ StateOf(s, op.line) \in {"M", "E"})
            \/ Stores(s, t, op)
            \/ Evicts(s, t) /\ StateOf(s, op.line) = "I"
<1>1. op.line \in Lines /\ L1IndexOf(op.line) \in L1Index /\ s.state \in [L1Index -> MESI]
      /\ s.req \in Request /\ s.prefetch_line \in Lines
  BY IndexTypes DEF CpuOp, L1Type
<1>2. StateOf(s, op.line) \in MESI /\ (StateOf(s, op.line) = "I" <=> ~Holds(s, op.line))
  BY <1>1, StateHolds
<1>3. CASE op.kind = "read" /\ Holds(s, op.line)
  <2>1. t = [s EXCEPT !.state = s.state, !.is_prefetch = FALSE, !.fsm = "DONE_R"]
    BY <1>3 DEF Accept
  <2>2. t.state = s.state /\ t.tag = s.tag /\ t.line = s.line /\ t.fsm = "DONE_R"
    BY <2>1 DEF L1Type
  <2>3. Drops(s, t)
    BY <2>2, SameShape
  <2>4. Sound(t)
    BY <2>2 DEF Sound, Steady
  <2> QED BY <1>3, <2>3, <2>4
<1>4. CASE op.kind = "write" /\ StateOf(s, op.line) \in {"M", "E"}
  <2> DEFINE i == L1IndexOf(op.line)
  <2>1. t = WriteHit(s, op, s.state)
    <3>1. op.kind # "read" /\ op.kind # "none" /\ Holds(s, op.line)
      BY <1>2, <1>4
    <3>2. StateOf(s, op.line) # "S"
      BY <1>4
    <3> QED BY <1>4, <3>1, <3>2 DEF Accept
  <2> HIDE DEF i
  <2>2. /\ t.state = [s.state EXCEPT ![i] = "M"] /\ t.tag = s.tag /\ t.fsm = "DONE_W"
        /\ t.line = [s.line EXCEPT ![i] = MergeWrite(s.line[i], op)]
    BY <2>1 DEF WriteHit, L1Type, i
  <2>3. i \in L1Index /\ s.line \in [L1Index -> LineData]
    BY <1>1 DEF i, L1Type
  <2>4. Holds(s, op.line) /\ s.tag[i] = op.line /\ s.state[i] # "I"
    BY <1>2, <1>4 DEF Holds, i
  <2>5. Sound(t)
    BY <1>1, <2>2, <2>3, <2>4 DEF Sound, Steady
  <2>6. /\ t.state[i] = "M" /\ t.line[i] = MergeWrite(s.line[i], op)
        /\ \A k \in L1Index : k # i => t.state[k] = s.state[k] /\ t.line[k] = s.line[k]
    BY <1>1, <2>2, <2>3
  <2>7. \A l \in Lines : l # op.line => /\ Holds(t, l) <=> Holds(s, l)
                                        /\ StateOf(t, l) = StateOf(s, l)
                                        /\ Holds(s, l) => Read2Data(t, l) = Read2Data(s, l)
    <3> SUFFICES ASSUME NEW l \in Lines, l # op.line
                 PROVE  /\ Holds(t, l) <=> Holds(s, l)
                        /\ StateOf(t, l) = StateOf(s, l)
                        /\ Holds(s, l) => Read2Data(t, l) = Read2Data(s, l)
      OBVIOUS
    <3>1. L1IndexOf(l) \in L1Index
      BY IndexTypes
    <3> QED BY <2>2, <2>4, <2>6, <3>1 DEF Holds, StateOf, Read2Data
  <2>8. Holds(t, op.line) /\ StateOf(t, op.line) = "M"
    BY <2>2, <2>4, <2>6 DEF Holds, StateOf, i
  <2>9. Read2Data(t, op.line) = MergeWrite(Read2Data(s, op.line), op)
    BY <2>6 DEF Read2Data, i
  <2>10. s.fsm = "IDLE" /\ t.fsm # "EVICT_WB"
    BY <2>2
  <2> QED BY <1>4, <2>5, <2>7, <2>8, <2>9, <2>10, Zenon DEF Stores
<1>5. CASE op.kind = "write" /\ StateOf(s, op.line) = "S"
  <2>1. t = UpgradeShared(s, op, s.state)
    <3>1. op.kind # "read" /\ op.kind # "none" /\ Holds(s, op.line)
      BY <1>2, <1>5
    <3>2. StateOf(s, op.line) \notin {"M", "E"}
      BY <1>5
    <3> QED BY <1>5, <3>1, <3>2 DEF Accept
  <2>2. /\ t.state = s.state /\ t.tag = s.tag /\ t.line = s.line /\ t.fsm = "WAIT" /\ t.op = op
        /\ t.req.type = "UPGR" /\ t.req.line = op.line
    <3>1. t.req = Ask(s, "UPGR", op.line)
      BY <2>1 DEF UpgradeShared, L1Type
    <3>2. t.req.type = "UPGR" /\ t.req.line = op.line
      BY <1>1, <3>1 DEF Ask, Request
    <3> QED BY <2>1, <3>2 DEF UpgradeShared, L1Type
  <2>3. /\ Drops(s, t)
        /\ StateOf(t, op.line) = StateOf(s, op.line)
    BY <1>1, <2>2, SameShape
  <2>4. Sound(t)
    BY <1>5, <2>2, <2>3 DEF Sound, Steady
  <2> QED BY <1>5, <2>3, <2>4
<1>6. CASE op.kind # "none" /\ ~Holds(s, op.line) /\ VictimDirty(s, op.line)
  <2> DEFINE i == L1IndexOf(op.line)
  <2>1. t = MissDirty(s, op, s.state)
    BY <1>2, <1>6 DEF Accept
  <2> HIDE DEF i
  <2>2. /\ t.state = [s.state EXCEPT ![i] = "I"] /\ t.tag = s.tag /\ t.line = s.line
        /\ t.fsm = "EVICT_WB" /\ t.op = op
        /\ t.req.line = s.tag[i] /\ t.req.wb = s.line[i]
    BY <2>1 DEF MissDirty, L1Type, i
  <2>3. i \in L1Index /\ s.tag[i] \in Lines /\ s.state[i] = "M" /\ L1IndexOf(s.tag[i]) = i
    BY <1>1, <1>6 DEF i, VictimDirty, Sound, Steady, L1Type
  <2> DEFINE v == s.tag[i]
  <2>4. Holds(s, v) /\ StateOf(s, v) = "M" /\ Read2Data(s, v) = s.line[i]
    BY <2>3 DEF Holds, StateOf, Read2Data
  <2>5. \A l \in Lines :
           /\ Holds(t, l) <=> Holds(s, l) /\ L1IndexOf(l) # i
           /\ L1IndexOf(l) # i => StateOf(t, l) = StateOf(s, l)
           /\ Read2Data(t, l) = Read2Data(s, l)
    BY <2>2, <2>3, DroppedCopies
  <2>6. \A l \in Lines : Holds(s, l) /\ L1IndexOf(l) = i => l = v
    BY DEF Holds
  <2>7. \A l \in Lines : StateOf(t, l) = IF Holds(t, l) THEN t.state[L1IndexOf(l)] ELSE "I"
    BY DEF StateOf
  <2>8. \A l \in Lines : StateOf(s, l) = IF Holds(s, l) THEN s.state[L1IndexOf(l)] ELSE "I"
    BY DEF StateOf
  <2>9. Evicts(s, t)
    <3> HIDE DEF v
    <3>1. v \in Lines /\ t.req.line = v /\ t.req.wb = Read2Data(s, v)
      BY <2>2, <2>3, <2>4 DEF v
    <3>2. ~Holds(t, v)
      BY <2>3, <2>5 DEF v
    <3>3. \A l \in Lines : l # v => /\ Holds(t, l) <=> Holds(s, l)
                                    /\ StateOf(t, l) = StateOf(s, l)
                                    /\ Read2Data(t, l) = Read2Data(s, l)
      BY <2>5, <2>6, <2>7, <2>8
    <3> QED BY <2>2, <2>4, <3>1, <3>2, <3>3 DEF Evicts
  <2>10. Sound(t)
    <3>1. \A k \in L1Index : t.state[k] # "I" => s.state[k] # "I"
      BY <1>1, <2>2, <2>3
    <3>2. op.kind \in {"read", "write"}
      BY <1>6 DEF CpuOp
    <3> QED BY <2>2, <3>1, <3>2 DEF Sound, Steady
  <2> QED BY <1>2, <1>6, <2>9, <2>10
<1>7. CASE op.kind # "none" /\ ~Holds(s, op.line) /\ ~VictimDirty(s, op.line)
  <2>1. t = MissClean(s, op, s.state, FALSE)
    BY <1>2, <1>7 DEF Accept
  <2>2. /\ t.state = [s.state EXCEPT ![L1IndexOf(op.line)] = "I"]
        /\ t.tag = s.tag /\ t.line = s.line /\ t.op = op /\ t.fsm = "WAIT"
        /\ t.req.line = op.line
        /\ t.req.type = IF op.kind = "write" THEN "BUSRDX" ELSE "BUSRD"
    <3>1. \A ty \in ReqTypes : Ask(s, ty, op.line).line = op.line /\ Ask(s, ty, op.line).type = ty
      BY <1>1 DEF Ask, Request
    <3> QED BY <1>1, <2>1, <3>1 DEF MissClean, L1Type, ReqTypes
  <2>3. op.kind \in {"read", "write"} /\ s.state[L1IndexOf(op.line)] # "M"
    BY <1>7 DEF CpuOp, VictimDirty
  <2>4. Sound(t) /\ Drops(s, t)
    BY <2>2, <2>3, MissCleanShape
  <2> QED BY <1>2, <1>7, <2>4
<1>8. CASE op.kind = "none" /\ s.prefetch_pending /\ PrefetchWorks(s)
  <2> DEFINE o == PrefetchOp(s)
             m == MissClean(s, o, s.state, TRUE)
  <2>1. t = [m EXCEPT !.prefetch_pending = FALSE]
    BY <1>8 DEF Accept
  <2>2. o \in CpuOp /\ o.kind = "read" /\ o.line = s.prefetch_line
    BY <1>1, OpTypes DEF PrefetchOp, CpuOp
  <2>3. m \in L1Type
    BY <1>1, <2>2, MissCleanType
  <2>4. /\ t.state = m.state /\ t.tag = m.tag /\ t.line = m.line /\ t.op = m.op
        /\ t.fsm = m.fsm /\ t.req = m.req
    <3> HIDE DEF m
    <3> QED BY <2>1, <2>3 DEF L1Type
  <2>5. /\ m.state = [s.state EXCEPT ![L1IndexOf(o.line)] = "I"]
        /\ m.tag = s.tag /\ m.line = s.line /\ m.op = o /\ m.fsm = "WAIT"
        /\ m.req.line = o.line
        /\ m.req.type = IF o.kind = "write" THEN "BUSRDX" ELSE "BUSRD"
    <3> HIDE DEF o
    <3>1. \A ty \in ReqTypes : Ask(s, ty, o.line).line = o.line /\ Ask(s, ty, o.line).type = ty
      BY <1>1, <2>2 DEF Ask, Request
    <3> QED BY <1>1, <2>2, <3>1 DEF MissClean, L1Type, ReqTypes
  <2>6. s.state[L1IndexOf(o.line)] # "M"
    BY <1>8, <2>2 DEF PrefetchWorks
  <2> HIDE DEF o, m
  <2>7. /\ t.state = [s.state EXCEPT ![L1IndexOf(o.line)] = "I"]
        /\ t.tag = s.tag /\ t.line = s.line /\ t.op = o /\ t.fsm = "WAIT"
        /\ t.req.line = o.line
        /\ t.req.type = IF o.kind = "write" THEN "BUSRDX" ELSE "BUSRD"
        /\ o.kind \in {"read", "write"}
    BY <2>2, <2>4, <2>5
  <2>8. Sound(t) /\ Drops(s, t)
    BY <2>2, <2>6, <2>7, MissCleanShape
  <2> QED BY <1>8, <2>8
<1>9. CASE op.kind = "none" /\ ~(s.prefetch_pending /\ PrefetchWorks(s))
  <2>1. t = [s EXCEPT !.state = s.state, !.prefetch_pending = FALSE]
    BY <1>9 DEF Accept
  <2>2. t.state = s.state /\ t.tag = s.tag /\ t.line = s.line /\ t.fsm = "IDLE"
    BY <2>1 DEF L1Type
  <2>3. Drops(s, t)
    BY <2>2, SameShape
  <2>4. Sound(t)
    BY <2>2 DEF Sound, Steady
  <2> QED BY <1>9, <2>3, <2>4
<1>10. op.kind \in {"none", "read", "write"}
  BY DEF CpuOp
<1> QED BY <1>2, <1>3, <1>4, <1>5, <1>6, <1>7, <1>8, <1>9, <1>10 DEF MESI


\* What an edge does to an L1 that is neither snooped nor answered.
LEMMA QuietShape ==
  ASSUME NEW s \in L1Type, NEW op \in CpuOp, NEW snoop \in Snoop, NEW answer \in Response,
         Downgraded(s, snoop) = s.state, ~answer.valid, Sound(s),
         op.kind # "none" => s.fsm = "IDLE",
         NEW t \in L1Type, t = L1Clock(s, op, snoop, answer)
  PROVE  /\ Sound(t)
         /\ \/ Drops(s, t) /\ ~CompletesWrite(s, op, answer)
            \/ Stores(s, t, op)
            \/ Evicts(s, t) /\ ~CompletesWrite(s, op, answer)
<1>1. CASE s.fsm = "IDLE"
  <2>1. t = Accept(s, op, s.state)
    BY <1>1 DEF L1Clock
  <2> QED BY <1>1, <2>1, AcceptShape DEF CompletesWrite
<1>2. CASE s.fsm \in {"EVICT_WB", "WAIT"}
  <2>1. t = [s EXCEPT !.state = s.state]
    BY <1>2 DEF L1Clock
  <2>2. t = s
    BY <2>1 DEF L1Type
  <2>3. Drops(s, t)
    BY <2>2 DEF Drops
  <2> QED BY <1>2, <2>2, <2>3 DEF CompletesWrite
<1>3. CASE s.fsm \in {"DONE_R", "DONE_W"}
  <2>1. t = [s EXCEPT !.state = s.state, !.fsm = "IDLE"]
    BY <1>3 DEF L1Clock
  <2>2. t.state = s.state /\ t.tag = s.tag /\ t.line = s.line /\ t.fsm = "IDLE"
    BY <2>1 DEF L1Type
  <2>3. Drops(s, t)
    BY <1>3, <2>2, SameShape
  <2>4. Sound(t)
    BY <2>2 DEF Sound, Steady
  <2> QED BY <1>3, <2>3, <2>4 DEF CompletesWrite
<1> QED BY <1>1, <1>2, <1>3 DEF L1Type, L1States

\* The history of stores when agent c alone may store.
LEMMA HistoryStep ==
  ASSUME TypeOK, NEW c \in Agents, NEW in \in Inputs, Edge(in),
         \A b \in Agents : b # c => ~CompletesWrite(l1[b], in[b], resp[b])
  PROVE  /\ ~CompletesWrite(l1[c], in[c], resp[c]) => latest' = latest
         /\ CompletesWrite(l1[c], in[c], resp[c]) =>
               \A l \in Lines :
                  latest'[l] = IF l = CompletedWrite(l1[c], in[c]).line
                               THEN MergeWrite(latest[l], CompletedWrite(l1[c], in[c]))
                               ELSE latest[l]
<1>1. latest' = [l \in Lines |->
                   IF Writers(in, l) = {} THEN latest[l]
                   ELSE LET a == CHOOSE a \in Writers(in, l) : TRUE
                        IN MergeWrite(latest[l], CompletedWrite(l1[a], in[a]))]
  BY DEF Edge, RecordWrites
<1>2. CASE ~CompletesWrite(l1[c], in[c], resp[c])
  <2>1. \A l \in Lines : Writers(in, l) = {}
    BY <1>2 DEF Writers
  <2> QED BY <1>1, <1>2, <2>1 DEF TypeOK
<1>3. CASE CompletesWrite(l1[c], in[c], resp[c])
  <2> SUFFICES ASSUME NEW l \in Lines
               PROVE  latest'[l] = IF l = CompletedWrite(l1[c], in[c]).line
                                   THEN MergeWrite(latest[l], CompletedWrite(l1[c], in[c]))
                                   ELSE latest[l]
    BY <1>3
  <2>1. CASE l = CompletedWrite(l1[c], in[c]).line
    <3>1. Writers(in, l) = {c}
      BY <1>3, <2>1 DEF Writers
    <3>2. (CHOOSE a \in Writers(in, l) : TRUE) = c
      BY <3>1
    <3> QED BY <1>1, <2>1, <3>1, <3>2
  <2>2. CASE l # CompletedWrite(l1[c], in[c]).line
    <3>1. Writers(in, l) = {}
      BY <2>2 DEF Writers
    <3> QED BY <1>1, <2>2, <3>1
  <2> QED BY <2>1, <2>2
<1> QED BY <1>2, <1>3


\* While L2 is idle, one agent at most does anything.
LEMMA IdleEdge ==
  ASSUME AllInv, NEW in \in ScriptedInputs, Edge(in), fsm = "IDLE", NEW c \in Agents, Alone(c, in)
  PROVE  /\ Sound(l1'[c]) /\ l1'[c] \in L1Type
         /\ \A b \in Agents : b # c =>
              /\ ~Active(b) /\ l1'[b].fsm = "IDLE" /\ ~l1'[b].prefetch_pending
              /\ Sound(l1'[b])
              /\ \A l \in Lines : /\ Holds(l1'[b], l) <=> Holds(l1[b], l)
                                  /\ StateOf(l1'[b], l) = StateOf(l1[b], l)
                                  /\ Read2Data(l1'[b], l) = Read2Data(l1[b], l)
         /\ \/ Drops(l1[c], l1'[c]) /\ latest' = latest
            \/ /\ Stores(l1[c], l1'[c], in[c]) /\ in[c] \in CpuOp
               /\ \A l \in Lines : latest'[l] = IF l = in[c].line THEN MergeWrite(latest[l], in[c])
                                                ELSE latest[l]
            \/ Evicts(l1[c], l1'[c]) /\ latest' = latest
<1>0. TypeOK /\ ProtocolInv /\ in \in Inputs
  BY DEF AllInv, ScriptedInputs
<1>1. \A a \in Agents : /\ l1[a] \in L1Type /\ in[a] \in CpuOp /\ l1'[a] \in L1Type
                        /\ SnoopOf(a) \in Snoop /\ resp[a] \in Response
                        /\ Sound(l1[a])
                        /\ l1'[a] = L1Clock(l1[a], in[a], SnoopOf(a), resp[a])
                        /\ ~resp[a].valid
                        /\ Downgraded(l1[a], SnoopOf(a)) = l1[a].state
  <2>1. \A a \in Agents : /\ ~resp[a].valid
                          /\ Downgraded(l1[a], SnoopOf(a)) = l1[a].state
    BY <1>0, SnoopedWhen
  <2>2. \A a \in Agents : /\ l1[a] \in L1Type /\ in[a] \in CpuOp /\ l1'[a] \in L1Type
                          /\ SnoopOf(a) \in Snoop /\ resp[a] \in Response
    BY <1>0, OpTypes, WireTypes, EdgeType DEF TypeOK, Inputs
  <2> QED BY <2>1, <2>2 DEF AllInv, CInv, Edge, ClockL1s
<1>2. /\ Sound(l1'[c])
      /\ \/ Drops(l1[c], l1'[c]) /\ ~CompletesWrite(l1[c], in[c], resp[c])
         \/ Stores(l1[c], l1'[c], in[c])
         \/ Evicts(l1[c], l1'[c]) /\ ~CompletesWrite(l1[c], in[c], resp[c])
  BY <1>1, QuietShape DEF Alone
<1>3. ASSUME NEW b \in Agents, b # c
      PROVE  /\ ~Active(b) /\ l1'[b].fsm = "IDLE" /\ ~l1'[b].prefetch_pending
             /\ Sound(l1'[b])
             /\ \A l \in Lines : /\ Holds(l1'[b], l) <=> Holds(l1[b], l)
                                 /\ StateOf(l1'[b], l) = StateOf(l1[b], l)
                                 /\ Read2Data(l1'[b], l) = Read2Data(l1[b], l)
  <2>1. ~Active(b) /\ l1[b].fsm = "IDLE" /\ ~l1[b].prefetch_pending /\ in[b].kind = "none"
    BY <1>3 DEF Alone, Active
  <2>2. /\ l1'[b].state = l1[b].state /\ l1'[b].tag = l1[b].tag /\ l1'[b].line = l1[b].line
        /\ l1'[b].fsm = "IDLE" /\ l1'[b].prefetch_pending = l1[b].prefetch_pending
    BY <1>1, <2>1, InactiveStep
  <2>3. Sound(l1'[b])
    BY <1>1, <2>2 DEF Sound, Steady
  <2> QED BY <2>1, <2>2, <2>3 DEF Holds, StateOf, Read2Data
<1>4. \A b \in Agents : b # c => ~CompletesWrite(l1[b], in[b], resp[b])
  BY <1>1 DEF Alone, CompletesWrite
<1>5. CASE Stores(l1[c], l1'[c], in[c])
  <2>1. CompletesWrite(l1[c], in[c], resp[c]) /\ CompletedWrite(l1[c], in[c]) = in[c]
    BY <1>5 DEF Stores, CompletesWrite, CompletedWrite
  <2>2. \A l \in Lines : latest'[l] = IF l = in[c].line THEN MergeWrite(latest[l], in[c])
                                      ELSE latest[l]
    BY <1>0, <1>4, <2>1, HistoryStep
  <2> QED BY <1>1, <1>2, <1>3, <1>5, <2>2
<1>6. CASE ~CompletesWrite(l1[c], in[c], resp[c])
  <2>1. latest' = latest
    BY <1>0, <1>4, <1>6, HistoryStep
  <2>2. ~Stores(l1[c], l1'[c], in[c])
    BY <1>6 DEF Stores, CompletesWrite
  <2> QED BY <1>1, <1>2, <1>3, <2>1, <2>2
<1> QED BY <1>2, <1>5, <1>6

\* An edge at which L2 is idle keeps the invariant.
LEMMA IdleStep ==
  ASSUME AllInv, NEW in \in ScriptedInputs, Edge(in), Idle
  PROVE  CInv'
<1>0. /\ TypeOK /\ fsm = "IDLE" /\ fsm' \in {"IDLE", "EVICT_SNOOP"}
      /\ array' = array /\ NoMemWrite /\ CommitMemWrite
  BY DEF Idle, AllInv, Edge
<1>1. PICK c \in Agents : Alone(c, in)
  BY OneActs DEF AllInv, CInv
<1>2. /\ Sound(l1'[c]) /\ l1'[c] \in L1Type /\ l1[c] \in L1Type
      /\ \A b \in Agents : b # c =>
           /\ ~Active(b) /\ l1'[b].fsm = "IDLE" /\ ~l1'[b].prefetch_pending
           /\ Sound(l1'[b])
           /\ \A l \in Lines : /\ Holds(l1'[b], l) <=> Holds(l1[b], l)
                               /\ StateOf(l1'[b], l) = StateOf(l1[b], l)
                               /\ Read2Data(l1'[b], l) = Read2Data(l1[b], l)
  BY <1>0, <1>1, IdleEdge DEF TypeOK
<1>3. MemNow' = MemNow /\ ~Absorbed /\ ~Absorbed'
  BY <1>0, MemoryEdge DEF Absorbed
<1>4. OneActive'
  BY <1>2 DEF OneActive, Active
<1>5. \A a \in Agents : Sound(l1'[a])
  BY <1>2
<1>6. Fetching' /\ Answering'
  <2>1. Answering'
    BY <1>0, <1>3 DEF Answering
  <2> QED BY <1>0, <2>1 DEF Fetching, AllInv, CInv
<1>7. /\ Sole /\ Inclusive /\ CopiesLatest /\ WritebacksHeld /\ Backed
      /\ \A a \in Agents, l \in Lines : /\ StateOf(l1[a], l) \in MESI
                                        /\ Holds(l1[a], l) <=> StateOf(l1[a], l) # "I"
                                        /\ Holds(l1'[a], l) <=> StateOf(l1'[a], l) # "I"
  <2>1. \A a \in Agents : l1'[a] \in L1Type
    <3>1. in \in Inputs
      BY DEF ScriptedInputs
    <3> QED BY <1>0, <3>1, EdgeType
  <2> QED BY <1>0, <2>1, StateHolds DEF AllInv, CInv, Coherent, TypeOK
<1>8. \A a \in Agents, l \in Lines : a # c => ~WritesBack(a, l) /\ ~WritesBack(a, l)'
  BY <1>2 DEF WritesBack, Active
<1>9. CASE Drops(l1[c], l1'[c]) /\ latest' = latest
  <2>1. \A a \in Agents, l \in Lines :
          /\ Holds(l1'[a], l) => /\ Holds(l1[a], l) /\ StateOf(l1'[a], l) = StateOf(l1[a], l)
                                 /\ Read2Data(l1'[a], l) = Read2Data(l1[a], l)
          /\ StateOf(l1[a], l) = "M" => StateOf(l1'[a], l) = "M"
    BY <1>2, <1>9 DEF Drops
  <2>2. \A a \in Agents, l \in Lines : /\ WritesBack(a, l)' <=> WritesBack(a, l)
                                       /\ WritesBack(a, l) => l1'[a].req = l1[a].req
    BY <1>8, <1>9 DEF Drops, WritesBack
  <2>3. Sole' /\ Inclusive' /\ CopiesLatest'
    <3>1. Sole'
      BY <1>7, <2>1 DEF Sole, MESI
    <3>2. Inclusive'
      BY <1>0, <1>7, <2>1 DEF Inclusive
    <3>3. CopiesLatest'
      BY <1>7, <1>9, <2>1 DEF CopiesLatest, CopyLatest, Read2Hit
    <3> QED BY <3>1, <3>2, <3>3
  <2>4. WritebacksHeld'
    BY <1>0, <1>7, <1>9, <2>1, <2>2 DEF WritebacksHeld
  <2>5. Backed'
    <3> SUFFICES ASSUME NEW l \in Lines,
                        ~\E a \in Agents : StateOf(l1'[a], l) = "M",
                        ~\E a \in Agents : WritesBack(a, l)'
                 PROVE  MemNow'[l] = latest'[l]
      BY <1>3 DEF Backed
    <3> QED BY <1>0, <1>3, <1>7, <1>9, <2>1, <2>2 DEF Backed
  <2> QED BY <1>4, <1>5, <1>6, <2>3, <2>4, <2>5 DEF CInv, Coherent
<1>10. CASE /\ Stores(l1[c], l1'[c], in[c]) /\ in[c] \in CpuOp
            /\ \A l \in Lines : latest'[l] = IF l = in[c].line THEN MergeWrite(latest[l], in[c])
                                             ELSE latest[l]
  <2> DEFINE k == in[c].line
  <2>1. k \in Lines
    BY <1>10 DEF CpuOp
  <2>2. /\ StateOf(l1[c], k) \in {"M", "E"} /\ StateOf(l1'[c], k) = "M" /\ Holds(l1'[c], k)
        /\ Holds(l1[c], k)
        /\ Read2Data(l1'[c], k) = MergeWrite(Read2Data(l1[c], k), in[c])
        /\ \A l \in Lines : l # k => /\ Holds(l1'[c], l) <=> Holds(l1[c], l)
                                     /\ StateOf(l1'[c], l) = StateOf(l1[c], l)
                                     /\ Holds(l1[c], l) => Read2Data(l1'[c], l) = Read2Data(l1[c], l)
        /\ latest'[k] = MergeWrite(latest[k], in[c])
        /\ \A l \in Lines : l # k => latest'[l] = latest[l]
    BY <1>7, <1>10, <2>1 DEF Stores
  <2> HIDE DEF k
  <2>3. \A a \in Agents, l \in Lines : ~WritesBack(a, l)'  /\ ~WritesBack(a, l)
    BY <1>8, <1>10 DEF Stores, WritesBack
  <2>4. \A b \in Agents : b # c => ~Holds(l1[b], k) /\ ~Holds(l1'[b], k)
    BY <1>2, <1>7, <2>1, <2>2 DEF Sole
  <2>5. Sole'
    BY <1>2, <1>7, <2>1, <2>2, <2>4 DEF Sole, MESI
  <2>6. Inclusive'
    BY <1>0, <1>2, <1>7, <2>1, <2>2 DEF Inclusive
  <2>7. CopiesLatest'
    <3> SUFFICES ASSUME NEW a \in Agents, NEW l \in Lines, Holds(l1'[a], l)
                 PROVE  Read2Data(l1'[a], l) = latest'[l]
      BY DEF CopiesLatest, CopyLatest, Read2Hit
    <3>1. Holds(l1[a], l)
      BY <1>2, <2>1, <2>2
    <3>2. Read2Data(l1[a], l) = latest[l]
      BY <1>7, <3>1 DEF CopiesLatest, CopyLatest, Read2Hit
    <3>3. CASE a = c /\ l = k
      BY <2>2, <3>2, <3>3
    <3>4. CASE a = c /\ l # k
      BY <2>2, <3>1, <3>2, <3>4
    <3>5. CASE a # c
      BY <1>2, <2>2, <2>4, <3>1, <3>2, <3>5
    <3> QED BY <3>3, <3>4, <3>5
  <2>8. WritebacksHeld'
    BY <2>3 DEF WritebacksHeld
  <2>9. Backed'
    <3> SUFFICES ASSUME NEW l \in Lines,
                        ~\E a \in Agents : StateOf(l1'[a], l) = "M"
                 PROVE  MemNow'[l] = latest'[l]
      BY <1>3 DEF Backed
    <3>1. l # k
      BY <2>2
    <3>2. ~\E a \in Agents : StateOf(l1[a], l) = "M"
      BY <1>2, <2>2, <3>1
    <3> QED BY <1>0, <1>3, <1>7, <2>2, <2>3, <3>1, <3>2 DEF Backed
  <2> QED BY <1>4, <1>5, <1>6, <2>5, <2>6, <2>7, <2>8, <2>9 DEF CInv, Coherent
<1>11. CASE Evicts(l1[c], l1'[c]) /\ latest' = latest
  <2>1. PICK v \in Lines :
          /\ StateOf(l1[c], v) = "M" /\ l1[c].fsm = "IDLE" /\ l1'[c].fsm = "EVICT_WB"
          /\ l1'[c].req.line = v /\ l1'[c].req.wb = Read2Data(l1[c], v)
          /\ ~Holds(l1'[c], v)
          /\ \A l \in Lines : l # v => /\ Holds(l1'[c], l) <=> Holds(l1[c], l)
                                       /\ StateOf(l1'[c], l) = StateOf(l1[c], l)
                                       /\ Read2Data(l1'[c], l) = Read2Data(l1[c], l)
    BY <1>11 DEF Evicts
  <2>2. Holds(l1[c], v) /\ \A b \in Agents : b # c => ~Holds(l1[b], v) /\ ~Holds(l1'[b], v)
    BY <1>2, <1>7, <2>1 DEF Sole
  <2>3. \A a \in Agents, l \in Lines :
          Holds(l1'[a], l) => /\ l # v /\ Holds(l1[a], l) /\ StateOf(l1'[a], l) = StateOf(l1[a], l)
                              /\ Read2Data(l1'[a], l) = Read2Data(l1[a], l)
    BY <1>2, <2>1, <2>2
  <2>4. \A a \in Agents, l \in Lines : WritesBack(a, l)' <=> a = c /\ l = v
    BY <1>8, <2>1 DEF WritesBack
  <2>5. Sole'
    BY <1>7, <2>3 DEF Sole, MESI
  <2>6. Inclusive'
    BY <1>0, <1>7, <2>3 DEF Inclusive
  <2>7. CopiesLatest'
    BY <1>7, <1>11, <2>3 DEF CopiesLatest, CopyLatest, Read2Hit
  <2>8. WritebacksHeld'
    <3> SUFFICES ASSUME NEW a \in Agents, NEW l \in Lines, WritesBack(a, l)'
                 PROVE  /\ l1'[a].req.wb = latest'[l]
                        /\ array'[L2IndexOf(l)].valid /\ array'[L2IndexOf(l)].tag = l
                        /\ \A b \in Agents : ~Holds(l1'[b], l)
      BY DEF WritebacksHeld
    <3>1. a = c /\ l = v
      BY <2>4
    <3>2. Read2Data(l1[c], v) = latest[v]
      BY <1>7, <2>2 DEF CopiesLatest, CopyLatest, Read2Hit
    <3>3. array[L2IndexOf(v)].valid /\ array[L2IndexOf(v)].tag = v
      BY <1>7, <2>2 DEF Inclusive
    <3> QED BY <1>0, <1>11, <2>1, <2>3, <3>1, <3>2, <3>3
  <2>9. Backed'
    <3> SUFFICES ASSUME NEW l \in Lines,
                        ~\E a \in Agents : StateOf(l1'[a], l) = "M",
                        ~\E a \in Agents : WritesBack(a, l)'
                 PROVE  MemNow'[l] = latest'[l]
      BY <1>3 DEF Backed
    <3>1. l # v
      BY <2>4
    <3>2. ~\E a \in Agents : StateOf(l1[a], l) = "M"
      BY <1>2, <2>1, <3>1
    <3>3. ~\E a \in Agents : WritesBack(a, l)
      BY <1>8, <2>1 DEF WritesBack
    <3> QED BY <1>0, <1>3, <1>7, <1>11, <3>2, <3>3 DEF Backed
  <2> QED BY <1>4, <1>5, <1>6, <2>5, <2>6, <2>7, <2>8, <2>9 DEF CInv, Coherent
<1> QED BY <1>0, <1>1, <1>9, <1>10, <1>11, IdleEdge


\* The state a fill gives.
Given(s, answer) == IF s.op.kind = "write" THEN "M" ELSE IF answer.exclusive THEN "E" ELSE "S"

\* The copies when a line is filled: the one asked for is there, the others stay.
LEMMA FillShape ==
  ASSUME NEW s \in L1Type, NEW op \in CpuOp, NEW snoop \in Snoop, NEW answer \in Response,
         Downgraded(s, snoop) = s.state, answer.valid, Steady(s), L1Inv(s), s.fsm = "WAIT",
         s.req.type = "UPGR" => s.tag[L1IndexOf(s.op.line)] = s.op.line,
         NEW t \in L1Type, t = L1Clock(s, op, snoop, answer)
  PROVE  /\ Sound(t) /\ t.fsm \in {"DONE_R", "DONE_W"}
         /\ Holds(t, s.op.line) /\ StateOf(t, s.op.line) = Given(s, answer)
         /\ Read2Data(t, s.op.line) = FillValue(s, answer)
         /\ \A l \in Lines : l # s.op.line =>
               /\ Holds(t, l) <=> Holds(s, l)
               /\ StateOf(t, l) = StateOf(s, l)
               /\ Holds(s, l) => Read2Data(t, l) = Read2Data(s, l)
<1> DEFINE f == Filled(s, answer, s.state)
           k == s.op.line
           i == L1IndexOf(k)
           g == Given(s, answer)
           v == FillValue(s, answer)
<1>1. k \in Lines /\ i \in L1Index /\ s.state \in [L1Index -> MESI] /\ s.op \in CpuOp
  BY IndexTypes DEF CpuOp, L1Type
<1>2. t = ArmPrefetch(s, f)
  BY DEF L1Clock
<1>3. /\ f.state = [s.state EXCEPT ![i] = g]
      /\ f.tag = IF s.req.type = "UPGR" THEN s.tag ELSE [s.tag EXCEPT ![i] = k]
      /\ f.line = [s.line EXCEPT ![i] = v]
      /\ f.fsm = IF s.op.kind = "write" THEN "DONE_W" ELSE "DONE_R"
  <2>1. f = [s EXCEPT
               !.state = [s.state EXCEPT ![i] = g],
               !.tag = IF s.req.type = "UPGR" THEN s.tag ELSE [s.tag EXCEPT ![i] = k],
               !.line = [s.line EXCEPT ![i] = v],
               !.req = [s.req EXCEPT !.valid = FALSE],
               !.fsm = IF s.op.kind = "write" THEN "DONE_W" ELSE "DONE_R"]
    BY DEF Filled, Given
  <2> HIDE DEF f, i, k, g, v
  <2> QED BY <2>1 DEF L1Type
<1>4. f.state = t.state /\ f.tag = t.tag /\ f.line = t.line /\ f.fsm = t.fsm
  <2>1. t = f \/ t = [f EXCEPT !.prefetch_pending = TRUE, !.prefetch_line = NextLine(s.op.line)]
    BY <1>2 DEF ArmPrefetch
  <2>2. CASE t = f
    BY <2>2
  <2>3. CASE t = [f EXCEPT !.prefetch_pending = TRUE, !.prefetch_line = NextLine(s.op.line)]
    <3>1. DOMAIN f = DOMAIN s
      BY DEF Filled
    <3>2. {"state", "tag", "line", "fsm"} \subseteq DOMAIN f
      BY <3>1 DEF L1Type
    <3> HIDE DEF f
    <3> QED BY <2>3, <3>2
  <2> QED BY <2>1, <2>2, <2>3
<1>5. g \in {"M", "E", "S"}
  BY DEF Given
<1>6. s.req.type = "UPGR" => s.tag[i] = k
  OBVIOUS
<1>7. s.req.type # "UPGR" => s.state[i] = "I"
  BY DEF L1Inv, Waiting
<1> HIDE DEF f, i, k, g, v
<1>8. /\ t.state[i] = g /\ t.tag[i] = k /\ t.line[i] = v
      /\ \A j \in L1Index : j # i => /\ t.state[j] = s.state[j] /\ t.tag[j] = s.tag[j]
                                     /\ t.line[j] = s.line[j]
  <2>1. s.tag \in [L1Index -> Lines] /\ s.line \in [L1Index -> LineData]
    BY DEF L1Type
  <2>2. f.tag[i] = k /\ \A j \in L1Index : j # i => f.tag[j] = s.tag[j]
    BY <1>1, <1>3, <1>6, <2>1
  <2> QED BY <1>1, <1>3, <1>4, <2>1, <2>2
<1>9. Sound(t)
  <2>1. \A j \in L1Index : t.state[j] # "I" => L1IndexOf(t.tag[j]) = j
    BY <1>8 DEF Sound, Steady, i
  <2>2. t.fsm \in {"DONE_R", "DONE_W"}
    BY <1>3, <1>4
  <2> QED BY <2>1, <2>2 DEF Sound, Steady
<1>10. Holds(t, k) /\ StateOf(t, k) = g /\ Read2Data(t, k) = v
  BY <1>5, <1>8 DEF Holds, StateOf, Read2Data, i
<1>11. ASSUME NEW l \in Lines, l # k
       PROVE  /\ Holds(t, l) <=> Holds(s, l)
              /\ StateOf(t, l) = StateOf(s, l)
              /\ Holds(s, l) => Read2Data(t, l) = Read2Data(s, l)
  <2>1. L1IndexOf(l) \in L1Index
    BY IndexTypes
  <2>2. CASE L1IndexOf(l) = i
    <3>1. ~Holds(t, l)
      BY <1>8, <1>11, <2>2 DEF Holds
    <3>2. ~Holds(s, l)
      BY <1>6, <1>7, <1>11, <2>2 DEF Holds, i
    <3> QED BY <3>1, <3>2 DEF StateOf
  <2>3. CASE L1IndexOf(l) # i
    BY <1>8, <2>1, <2>3 DEF Holds, StateOf, Read2Data
  <2> QED BY <2>2, <2>3
<1> QED BY <1>3, <1>4, <1>9, <1>10, <1>11 DEF k, g, v

\* The L1 when its writeback is answered: its copies stay, and it asks for the line.
LEMMA WritebackShape ==
  ASSUME NEW s \in L1Type, NEW op \in CpuOp, NEW snoop \in Snoop, NEW answer \in Response,
         Downgraded(s, snoop) = s.state, answer.valid, Steady(s), s.fsm = "EVICT_WB",
         NEW t \in L1Type, t = L1Clock(s, op, snoop, answer)
  PROVE  /\ Sound(t) /\ t.fsm = "WAIT" /\ t.op = s.op /\ t.req.type # "UPGR"
         /\ \A l \in Lines : /\ Holds(t, l) <=> Holds(s, l)
                             /\ StateOf(t, l) = StateOf(s, l)
                             /\ Read2Data(t, l) = Read2Data(s, l)
<1>1. t = WritebackDone(s, s.state)
  BY DEF L1Clock
<1>2. \A ty \in ReqTypes : /\ Ask(s, ty, s.op.line).line = s.op.line
                           /\ Ask(s, ty, s.op.line).type = ty
  BY DEF Ask, Request, L1Type
<1>3. /\ t.state = s.state /\ t.tag = s.tag /\ t.line = s.line /\ t.op = s.op /\ t.fsm = "WAIT"
      /\ t.req.line = s.op.line
      /\ t.req.type = IF s.op.kind = "write" THEN "BUSRDX" ELSE "BUSRD"
  BY <1>1, <1>2 DEF WritebackDone, L1Type, ReqTypes
<1>4. Sound(t)
  BY <1>3 DEF Sound, Steady
<1> QED BY <1>3, <1>4 DEF Holds, StateOf, Read2Data


\* The line L2 answers with holds every store made so far.
LEMMA AnswerLatest ==
  ASSUME AllInv, fsm = "COOLDOWN", req.type \in {"BUSRD", "BUSRDX"}
  PROVE  /\ resp[req.core].data = latest[req.line] /\ MemNow[req.line] = latest[req.line]
<1>1. /\ req.line \in Lines /\ req.core \in Agents /\ L2Hit /\ Slot.data = resp[req.core].data
      /\ ReqSet \in L2Index /\ ~\E a \in Agents : WritesBack(a, req.line) /\ ~Absorbed
      /\ \A b \in Others : StateOf(l1[b], req.line) \notin {"M", "E"}
  <2>1. /\ L2Hit /\ Slot.data = resp[req.core].data /\ Absorbed
        /\ req.type = "BUSRD" => \A b \in Others : StateOf(l1[b], req.line) \notin {"M", "E"}
        /\ req.type = "BUSRDX" => \A b \in Others : ~Holds(l1[b], req.line)
    BY DEF AllInv, CInv, Answering, Absorbed
  <2>2. req.line \in Lines /\ req.core \in Agents /\ \A b \in Agents : l1[b] \in L1Type
    BY Requester DEF AllInv, TypeOK
  <2> QED BY <2>1, <2>2, WireTypes, StateHolds DEF AllInv, Others
<1>2. ~\E a \in Agents : StateOf(l1[a], req.line) = "M"
  <2>1. StateOf(l1[req.core], req.line) # "M"
    BY <1>1, Requester, StateHolds DEF AllInv, TypeOK
  <2> QED BY <1>1, <2>1 DEF Others
<1>3. MemNow[req.line] = latest[req.line]
  BY <1>1, <1>2 DEF AllInv, CInv, Backed, Absorbed
<1>4. Slot.data = MemNow[req.line]
  BY <1>1 DEF AllInv, WriteThroughInv, WriteThrough, Replacing, L2Hit, Slot
<1> QED BY <1>1, <1>3, <1>4

\* The edge at which the requester sees its answer keeps the invariant.
LEMMA CooldownStep ==
  ASSUME AllInv, NEW in \in ScriptedInputs, Edge(in), Cooldown
  PROVE  CInv'
<1>0. /\ TypeOK /\ ProtocolInv /\ in \in Inputs /\ fsm = "COOLDOWN" /\ fsm' = "IDLE"
      /\ array' = array /\ NoMemWrite /\ CommitMemWrite
  BY DEF Cooldown, AllInv, Edge, ScriptedInputs
<1> DEFINE c == req.core
           s == l1[c]
           k == req.line
<1>1. /\ c \in Agents /\ k \in Lines /\ Alone(c, in)
      /\ \A b \in Agents : b # c => ~Active(b)
  BY <1>0, OneActs, Requester DEF Alone, AllInv, CInv
<1>2. \A a \in Agents : /\ l1[a] \in L1Type /\ in[a] \in CpuOp /\ l1'[a] \in L1Type
                        /\ SnoopOf(a) \in Snoop /\ resp[a] \in Response
                        /\ Sound(l1[a]) /\ L1Inv(l1[a])
                        /\ l1'[a] = L1Clock(l1[a], in[a], SnoopOf(a), resp[a])
                        /\ resp[a].valid <=> a = c
                        /\ Downgraded(l1[a], SnoopOf(a)) = l1[a].state
                        /\ in[a].kind = "none"
  <2>1. \A a \in Agents : /\ resp[a].valid <=> a = c
                          /\ Downgraded(l1[a], SnoopOf(a)) = l1[a].state
    BY <1>0, SnoopedWhen DEF ProtocolInv
  <2>2. \A a \in Agents : /\ l1[a] \in L1Type /\ in[a] \in CpuOp /\ l1'[a] \in L1Type
                          /\ SnoopOf(a) \in Snoop /\ resp[a] \in Response
    BY <1>0, OpTypes, WireTypes, EdgeType DEF TypeOK, Inputs
  <2>3. \A a \in Agents : in[a].kind = "none"
    BY <1>0, <1>1 DEF Alone
  <2> QED BY <1>0, <2>1, <2>2, <2>3 DEF AllInv, CInv, Edge, ClockL1s, ProtocolInv
<1>3. \A b \in Agents : b # c =>
         /\ l1'[b].fsm = "IDLE" /\ ~l1'[b].prefetch_pending /\ l1[b].fsm = "IDLE"
         /\ Sound(l1'[b])
         /\ \A l \in Lines : /\ Holds(l1'[b], l) <=> Holds(l1[b], l)
                             /\ StateOf(l1'[b], l) = StateOf(l1[b], l)
                             /\ Read2Data(l1'[b], l) = Read2Data(l1[b], l)
  <2> SUFFICES ASSUME NEW b \in Agents, b # c
               PROVE  /\ l1'[b].fsm = "IDLE" /\ ~l1'[b].prefetch_pending /\ l1[b].fsm = "IDLE"
                      /\ Sound(l1'[b])
                      /\ \A l \in Lines : /\ Holds(l1'[b], l) <=> Holds(l1[b], l)
                                          /\ StateOf(l1'[b], l) = StateOf(l1[b], l)
                                          /\ Read2Data(l1'[b], l) = Read2Data(l1[b], l)
    OBVIOUS
  <2>1. l1[b].fsm = "IDLE" /\ ~l1[b].prefetch_pending
    BY <1>1 DEF Active
  <2>2. /\ l1'[b].state = l1[b].state /\ l1'[b].tag = l1[b].tag /\ l1'[b].line = l1[b].line
        /\ l1'[b].fsm = "IDLE" /\ l1'[b].prefetch_pending = l1[b].prefetch_pending
    BY <1>2, <2>1, InactiveStep
  <2>3. Sound(l1'[b])
    BY <1>2, <2>2 DEF Sound, Steady
  <2> QED BY <2>1, <2>2, <2>3 DEF Holds, StateOf, Read2Data
<1>4. MemNow' = MemNow /\ Absorbed /\ ~Absorbed'
  BY <1>0, MemoryEdge DEF Absorbed
<1>5. OneActive'
  BY <1>3 DEF OneActive, Active
<1>6. Fetching' /\ Answering'
  <2>1. Answering'
    BY <1>0, <1>4 DEF Answering
  <2> QED BY <1>0, <2>1 DEF Fetching, AllInv, CInv
<1>7. /\ Sole /\ Inclusive /\ CopiesLatest /\ WritebacksHeld /\ Backed
      /\ \A a \in Agents, l \in Lines : /\ StateOf(l1[a], l) \in MESI
                                        /\ Holds(l1[a], l) <=> StateOf(l1[a], l) # "I"
                                        /\ Holds(l1'[a], l) <=> StateOf(l1'[a], l) # "I"
  BY <1>2, StateHolds DEF AllInv, CInv, Coherent
<1>8. \A b \in Agents : b # c => ~CompletesWrite(l1[b], in[b], resp[b])
  BY <1>2 DEF CompletesWrite
<1>9. CASE req.type = "WB"
  <2>1. s.fsm = "EVICT_WB"
    BY <1>0, <1>9, Requester
  <2>2. /\ Sound(l1'[c]) /\ l1'[c].fsm = "WAIT"
        /\ \A l \in Lines : /\ Holds(l1'[c], l) <=> Holds(s, l)
                            /\ StateOf(l1'[c], l) = StateOf(s, l)
                            /\ Read2Data(l1'[c], l) = Read2Data(s, l)
    BY <1>1, <1>2, <2>1, WritebackShape DEF Sound
  <2>3. latest' = latest
    <3>1. ~CompletesWrite(l1[c], in[c], resp[c])
      BY <2>1 DEF CompletesWrite
    <3> QED BY <1>0, <1>1, <1>8, <3>1, HistoryStep
  <2>4. \A a \in Agents, l \in Lines :
          /\ Holds(l1'[a], l) <=> Holds(l1[a], l)
          /\ StateOf(l1'[a], l) = StateOf(l1[a], l)
          /\ Read2Data(l1'[a], l) = Read2Data(l1[a], l)
          /\ ~WritesBack(a, l)'
    BY <1>3, <2>2 DEF WritesBack
  <2>5. Sole' /\ Inclusive' /\ CopiesLatest' /\ WritebacksHeld'
    <3>1. Sole'
      BY <1>7, <2>4 DEF Sole
    <3>2. Inclusive'
      BY <1>0, <1>7, <2>4 DEF Inclusive
    <3>3. CopiesLatest'
      BY <1>7, <2>3, <2>4 DEF CopiesLatest, CopyLatest, Read2Hit
    <3>4. WritebacksHeld'
      BY <2>4 DEF WritebacksHeld
    <3> QED BY <3>1, <3>2, <3>3, <3>4
  <2>6. Backed'
    <3> SUFFICES ASSUME NEW l \in Lines,
                        ~\E a \in Agents : StateOf(l1'[a], l) = "M"
                 PROVE  MemNow'[l] = latest'[l]
      BY DEF Backed
    <3> QED BY <1>0, <1>4, <1>7, <2>3, <2>4 DEF Backed
  <2>7. \A a \in Agents : Sound(l1'[a])
    BY <1>3, <2>2
  <2> QED BY <1>5, <1>6, <2>5, <2>6, <2>7 DEF CInv, Coherent
<1>10. CASE req.type # "WB"
  <2>1. /\ s.fsm = "WAIT" /\ s.op.line = k /\ s.req.type = req.type
        /\ s.op.kind = IF req.type = "BUSRD" THEN "read" ELSE "write"
        /\ s \in L1Type /\ s.op \in CpuOp
    BY <1>0, <1>1, <1>2, <1>10, Requester DEF L1Type
  <2> DEFINE g == Given(s, resp[c])
             v == FillValue(s, resp[c])
  <2>2. /\ Sound(l1'[c]) /\ l1'[c].fsm \in {"DONE_R", "DONE_W"}
        /\ Holds(l1'[c], k) /\ StateOf(l1'[c], k) = g /\ Read2Data(l1'[c], k) = v
        /\ \A l \in Lines : l # k =>
              /\ Holds(l1'[c], l) <=> Holds(s, l)
              /\ StateOf(l1'[c], l) = StateOf(s, l)
              /\ Holds(s, l) => Read2Data(l1'[c], l) = Read2Data(s, l)
    <3>1. s.req.type = "UPGR" => s.tag[L1IndexOf(s.op.line)] = s.op.line
      BY <1>0, <2>1, Requester DEF Holds
    <3> QED BY <1>1, <1>2, <2>1, <3>1, FillShape DEF Sound
  <2>3. /\ req.type \in {"BUSRD", "BUSRDX", "UPGR"}
        /\ req.type = "UPGR" => Holds(s, k)
    BY <1>0, <1>10, Requester DEF ReqTypes
  <2>4. /\ req.type # "BUSRD" => /\ g = "M" /\ latest'[k] = MergeWrite(latest[k], s.op)
                                 /\ \A l \in Lines : l # k => latest'[l] = latest[l]
        /\ req.type = "BUSRD" => /\ g = IF resp[c].exclusive THEN "E" ELSE "S"
                                 /\ latest' = latest
    <3>1. /\ CompletesWrite(l1[c], in[c], resp[c]) <=> req.type # "BUSRD"
          /\ CompletedWrite(l1[c], in[c]) = s.op
      BY <1>1, <1>2, <2>1 DEF CompletesWrite, CompletedWrite
    <3>2. CASE req.type # "BUSRD"
      <4>1. \A l \in Lines : latest'[l] = IF l = k THEN MergeWrite(latest[l], s.op) ELSE latest[l]
        BY <1>0, <1>1, <1>8, <2>1, <3>1, <3>2, HistoryStep
      <4> QED BY <1>1, <2>1, <3>2, <4>1 DEF Given
    <3>3. CASE req.type = "BUSRD"
      <4>1. latest' = latest
        BY <1>0, <1>1, <1>8, <3>1, <3>3, HistoryStep
      <4> QED BY <2>1, <3>3, <4>1 DEF Given
    <3> QED BY <3>2, <3>3
  <2>5. v = latest'[k]
    <3>1. CASE req.type = "UPGR"
      <4>1. Read2Data(s, k) = latest[k]
        BY <1>1, <1>7, <2>3, <3>1 DEF CopiesLatest, CopyLatest, Read2Hit
      <4> QED BY <2>1, <2>4, <3>1, <4>1 DEF FillValue, Read2Data
    <3>2. CASE req.type \in {"BUSRD", "BUSRDX"}
      <4>1. resp[c].data = latest[k]
        BY <1>0, <3>2, AnswerLatest
      <4> QED BY <2>1, <2>4, <3>2, <4>1 DEF FillValue
    <3> QED BY <2>3, <3>1, <3>2
  <2>6. /\ req.type = "BUSRD" => \A b \in Agents \ {c} : StateOf(l1[b], k) \notin {"M", "E"}
        /\ req.type # "BUSRD" => \A b \in Agents \ {c} : ~Holds(l1[b], k)
        /\ g = "E" => \A b \in Agents \ {c} : ~Holds(l1[b], k)
        /\ Slot.valid /\ Slot.tag = k /\ c \in Slot.presence /\ Slot = array[L2IndexOf(k)]
    <3>1. /\ L2Hit /\ c \in Slot.presence
          /\ req.type = "BUSRD" => \A b \in Others : StateOf(l1[b], k) \notin {"M", "E"}
          /\ req.type \in {"BUSRDX", "UPGR"} => \A b \in Others : ~Holds(l1[b], k)
          /\ resp[c].exclusive => Slot.presence \subseteq {c}
      BY <1>0, <1>4 DEF AllInv, CInv, Answering
    <3>2. \A b \in Agents : Holds(l1[b], k) => b \in Slot.presence
      BY <1>1, <1>7 DEF Inclusive, Slot, ReqSet
    <3>3. g = "E" => resp[c].exclusive
      BY <2>1 DEF Given
    <3> QED BY <2>3, <3>1, <3>2, <3>3 DEF Others, L2Hit, Slot, ReqSet
  <2>7. g \in {"M", "E", "S"} /\ (g \in {"M", "E"} => \A b \in Agents \ {c} : ~Holds(l1[b], k))
    BY <2>4, <2>6 DEF Given
  <2> HIDE DEF g, v, c, s, k
  <2>8. Sole'
    <3> SUFFICES ASSUME NEW l \in Lines, NEW a \in Agents, NEW b \in Agents,
                        StateOf(l1'[a], l) \in {"M", "E"}, Holds(l1'[b], l)
                 PROVE  b = a
      BY DEF Sole
    <3>1. CASE l = k
      <4>1. ~Holds(l1[b], k) \/ b = c \/ ~(g \in {"M", "E"})
        BY <2>7
      <4>2. a = c
        <5>1. a # c => StateOf(l1[a], k) \in {"M", "E"}
          BY <1>3, <3>1
        <5> QED BY <1>7, <2>6, <3>1, <5>1
      <4> QED BY <1>3, <2>2, <3>1, <4>1, <4>2
    <3>2. CASE l # k
      <4>1. StateOf(l1[a], l) \in {"M", "E"} /\ Holds(l1[b], l)
        BY <1>3, <2>2, <3>2 DEF s
      <4> QED BY <1>7, <4>1 DEF Sole
    <3> QED BY <3>1, <3>2
  <2>9. Inclusive'
    <3> SUFFICES ASSUME NEW l \in Lines, NEW a \in Agents, Holds(l1'[a], l)
                 PROVE  /\ array[L2IndexOf(l)].valid /\ array[L2IndexOf(l)].tag = l
                        /\ a \in array[L2IndexOf(l)].presence
      BY <1>0 DEF Inclusive
    <3>1. CASE l = k /\ a = c
      BY <2>6, <3>1
    <3>2. CASE ~(l = k /\ a = c)
      <4>1. Holds(l1[a], l)
        BY <1>3, <2>2, <3>2 DEF s
      <4> QED BY <1>7, <4>1 DEF Inclusive
    <3> QED BY <3>1, <3>2
  <2>10. CopiesLatest'
    <3> SUFFICES ASSUME NEW a \in Agents, NEW l \in Lines, Holds(l1'[a], l)
                 PROVE  Read2Data(l1'[a], l) = latest'[l]
      BY DEF CopiesLatest, CopyLatest, Read2Hit
    <3>1. CASE l = k /\ a = c
      BY <2>2, <2>5, <3>1
    <3>2. CASE ~(l = k /\ a = c)
      <4>1. Holds(l1[a], l) /\ Read2Data(l1'[a], l) = Read2Data(l1[a], l)
        BY <1>3, <2>2, <3>2 DEF s
      <4>2. Read2Data(l1[a], l) = latest[l]
        BY <1>7, <4>1 DEF CopiesLatest, CopyLatest, Read2Hit
      <4>3. l = k => req.type = "BUSRD"
        BY <2>6, <3>2, <4>1
      <4> QED BY <2>4, <4>1, <4>2, <4>3
    <3> QED BY <3>1, <3>2
  <2>11. \A a \in Agents, l \in Lines : ~WritesBack(a, l)'
    BY <1>3, <2>2 DEF WritesBack
  <2>12. WritebacksHeld'
    BY <2>11 DEF WritebacksHeld
  <2>13. Backed'
    <3> SUFFICES ASSUME NEW l \in Lines,
                        ~\E a \in Agents : StateOf(l1'[a], l) = "M"
                 PROVE  MemNow'[l] = latest'[l]
      BY DEF Backed
    <3>1. CASE l = k
      <4>1. req.type = "BUSRD"
        BY <1>1, <2>2, <2>4, <3>1
      <4>2. MemNow[k] = latest[k]
        BY <1>0, <4>1, AnswerLatest DEF k
      <4> QED BY <1>4, <2>4, <3>1, <4>1, <4>2
    <3>2. CASE l # k
      <4>1. ~\E a \in Agents : StateOf(l1[a], l) = "M"
        BY <1>3, <2>2, <3>2 DEF s
      <4>2. MemNow[l] = latest[l]
        BY <1>0, <1>4, <1>7, <4>1 DEF Backed
      <4> QED BY <1>4, <2>4, <3>2, <4>2
    <3> QED BY <3>1, <3>2
  <2>14. \A a \in Agents : Sound(l1'[a])
    BY <1>3, <2>2
  <2> QED BY <1>5, <1>6, <2>8, <2>9, <2>10, <2>12, <2>13, <2>14 DEF CInv, Coherent
<1> QED BY <1>9, <1>10


\* The invariant holds at reset, when no L1 holds a line.
LEMMA CoherentInit == Init => CInv
<1> SUFFICES ASSUME Init PROVE CInv
  OBVIOUS
<1>1. \A a \in Agents : /\ l1[a].fsm = "IDLE" /\ l1[a].prefetch_pending = FALSE
                        /\ \A i \in L1Index : l1[a].state[i] = "I"
  BY DEF Init, L1Reset
<1>2. \A a \in Agents, l \in Lines : ~Holds(l1[a], l) /\ StateOf(l1[a], l) = "I"
  BY <1>1, IndexTypes DEF Holds, StateOf
<1>3. OneActive /\ \A a \in Agents : Sound(l1[a])
  BY <1>1 DEF OneActive, Active, Sound, Steady
<1>4. Coherent
  BY <1>2 DEF Coherent, Sole, Inclusive, CopiesLatest, CopyLatest, Read2Hit
<1>5. WritebacksHeld
  BY <1>1 DEF WritebacksHeld, WritesBack
<1>6. Backed
  BY DEF Init, Backed, MemNow
<1>7. Fetching /\ Answering
  BY DEF Init, Fetching, Answering, Absorbed
<1> QED BY <1>3, <1>4, <1>5, <1>6, <1>7 DEF CInv

\* Under scripted CPUs the invariant is inductive.
LEMMA ScriptedInvariant == ScriptedSpec => []AllInv
<1>1. ScriptedSpec => Spec
  <2>1. [ScriptedNext]_vars => [Next]_vars
    BY DEF ScriptedNext, Next, ScriptedInputs
  <2> QED BY <2>1, PTL DEF ScriptedSpec, Spec
<1>2. Init => ProtocolInv /\ WriteThroughInv /\ CInv
  <2>1. Init => WriteThroughInv
    BY DEF Init, WriteThroughInv, Tagged, WriteThrough
  <2> QED BY <2>1, ProtocolInit, CoherentInit
<1>3. TypeOK /\ ProtocolInv /\ WriteThroughInv /\ CInv /\ [ScriptedNext]_vars
         => ProtocolInv' /\ WriteThroughInv' /\ CInv'
  <2> SUFFICES ASSUME TypeOK, ProtocolInv, WriteThroughInv, CInv, [ScriptedNext]_vars
               PROVE  ProtocolInv' /\ WriteThroughInv' /\ CInv'
    OBVIOUS
  <2>1. ASSUME NEW in \in ScriptedInputs, L2Step, Edge(in)
        PROVE  ProtocolInv' /\ WriteThroughInv' /\ CInv'
    <3>1. AllInv /\ in \in Inputs
      BY DEF AllInv, ScriptedInputs
    <3>2. ProtocolInv'
      BY <2>1, <3>1, ProtocolStep
    <3>3. WriteThroughInv'
      BY <2>1, WriteThroughStep DEF Edge
    <3>4. CASE fsm = "IDLE"
      <4>1. Idle
        BY <2>1, <3>4 DEF L2Step, AbsorbWriteback, EvictPresent, EvictNeeded, LookUp, EvictMemWr,
             MemFetch, MemWait, Install, SnoopOther, Respond, Cooldown
      <4> QED BY <2>1, <3>1, <3>2, <3>3, <4>1, IdleStep
    <3>5. CASE fsm = "COOLDOWN"
      <4>1. Cooldown
        BY <2>1, <3>5 DEF L2Step, AbsorbWriteback, EvictPresent, EvictNeeded, LookUp, EvictMemWr,
             MemFetch, MemWait, Install, SnoopOther, Respond, Idle
      <4> QED BY <2>1, <3>1, <3>2, <3>3, <4>1, CooldownStep
    <3>6. CASE fsm \notin {"IDLE", "COOLDOWN"}
      BY <2>1, <3>1, <3>2, <3>3, <3>6, WorkingStep
    <3> QED BY <3>4, <3>5, <3>6
  <2>2. CASE UNCHANGED vars
    <3>1. ProtocolInv'
      BY <2>2 DEF ProtocolInv, LatchedRequest, vars
    <3>2. WriteThroughInv'
      BY <2>2 DEF WriteThroughInv, Tagged, WriteThrough, Replacing, MemNow, Slot, ReqSet, vars
    <3>3. /\ (\A a \in Agents : Sound(l1'[a])) /\ OneActive'
          /\ Sole' /\ Inclusive' /\ CopiesLatest'
      <4>1. \A a \in Agents : Sound(l1'[a])
        BY <2>2 DEF CInv, vars
      <4>2. OneActive'
        BY <2>2 DEF CInv, OneActive, Active, vars
      <4>3. Sole'
        BY <2>2 DEF CInv, Coherent, Sole, vars
      <4>4. Inclusive'
        BY <2>2 DEF CInv, Coherent, Inclusive, vars
      <4>5. CopiesLatest'
        BY <2>2 DEF CInv, Coherent, CopiesLatest, CopyLatest, Read2Hit, vars
      <4> QED BY <4>1, <4>2, <4>3, <4>4, <4>5
    <3>4. WritebacksHeld'
      BY <2>2 DEF CInv, WritebacksHeld, WritesBack, vars
    <3>5. Backed'
      BY <2>2 DEF CInv, Backed, Absorbed, WritesBack, Slot, ReqSet, MemNow, vars
    <3>6. Fetching'
      BY <2>2 DEF CInv, Fetching, Slot, ReqSet, vars
    <3>7. Answering'
      BY <2>2 DEF CInv, Answering, Absorbed, Others, L2Hit, Slot, ReqSet, vars
    <3> QED BY <3>1, <3>2, <3>3, <3>4, <3>5, <3>6, <3>7 DEF CInv, Coherent
  <2> QED BY <2>1, <2>2 DEF ScriptedNext
<1> QED BY <1>1, <1>2, <1>3, TypeCorrect, PTL DEF ScriptedSpec, AllInv

\* Under scripted CPUs at most one L1 may write a line, and no other copy exists
\* beside it (l1_cache.v, l2_cache.v: MESI), however many L1s and sets there are.
THEOREM ScriptedSingleWriter == ScriptedSpec => []SingleWriter
<1>1. AllInv => SingleWriter
  <2> SUFFICES ASSUME AllInv, NEW l \in Lines, NEW a \in Agents, a \in Owners(l)
               PROVE  Copies(l) = {a}
    BY DEF SingleWriter
  <2>1. StateOf(l1[a], l) \in {"M", "E"}
    BY DEF Owners
  <2>2. Holds(l1[a], l)
    BY <2>1, StateHolds DEF AllInv, TypeOK
  <2> QED BY <2>1, <2>2 DEF Copies, AllInv, CInv, Coherent, Sole
<1> QED BY <1>1, ScriptedInvariant, PTL

\* Under scripted CPUs an L1 holds only what L2 tracks (l2_cache.v: "an L1 can
\* only ever hold what L2 currently tracks").
THEOREM ScriptedInclusive == ScriptedSpec => []Inclusive
<1>1. AllInv => Inclusive
  BY DEF AllInv, CInv, Coherent
<1> QED BY <1>1, ScriptedInvariant, PTL

\* Under scripted CPUs a load hits the last value stored, in whichever L1, on
\* either port.
THEOREM ScriptedCopiesLatest == ScriptedSpec => []CopiesLatest
<1>1. AllInv => CopiesLatest
  BY DEF AllInv, CInv, Coherent
<1> QED BY <1>1, ScriptedInvariant, PTL

\* Under scripted CPUs no store is lost on its way to memory: through evictions
\* from an L1, replacements in L2, and snoops.
THEOREM ScriptedNothingLost == ScriptedSpec => []NothingLost
<1>1. AllInv => NothingLost
  <2> SUFFICES ASSUME AllInv, NEW l \in Lines
               PROVE  \/ \E a \in Agents : StateOf(l1[a], l) = "M" /\ CopyLatest(a, l)
                      \/ WaitingWriteback(l)
                      \/ FlushedByL2(l)
                      \/ MemNow[l] = latest[l]
    BY DEF NothingLost
  <2>1. CASE \E a \in Agents : StateOf(l1[a], l) = "M"
    BY <2>1 DEF AllInv, CInv, Coherent, CopiesLatest
  <2>2. CASE \E a \in Agents : WritesBack(a, l)
    BY <2>2 DEF AllInv, CInv, WritebacksHeld, WritesBack, WaitingWriteback
  <2>3. CASE fsm = "EVICT_MEMWR" /\ dirty.had /\ Slot.tag = l
    BY <2>3 DEF AllInv, CInv, Fetching, FlushedByL2
  <2> QED BY <2>1, <2>2, <2>3 DEF AllInv, CInv, Backed
<1> QED BY <1>1, ScriptedInvariant, PTL

(***************************************************************************)
(* CPUs that name only lines of their own run freely: operations overlap,  *)
(* prefetches cross into the lines of others, and an L1 may store to a     *)
(* line at the very edge at which L2 takes it away.  Inclusion and the     *)
(* single writer are lost; what the home of a line reads is not.  The      *)
(* invariant says of the home that                                         *)
(*   Own        only it has the line Modified, stores to it or writes it   *)
(*              back, with the last value;                                 *)
(*   Upgrading  the value its upgrade merges into is still the last one,   *)
(*              although the copy may be gone;                             *)
(*   Secured    the last value is in its Modified copy, its writeback, the *)
(*              buffer of L2's eviction, or memory;                        *)
(*   Flushing   that buffer is the last value unless the home stored again *)
(*              at the edge at which its copy was taken;                   *)
(*   Serving    L2 answers with the line its array holds, and a writeback  *)
(*              is in memory by then.                                      *)
(***************************************************************************)
Own(a) ==
    /\ Waiting(l1[a]) /\ l1[a].op.kind = "write" => Home(l1[a].op.line) = a
    /\ \A l \in Lines : StateOf(l1[a], l) = "M" => Home(l) = a
    /\ l1[a].fsm = "EVICT_WB" =>
          Home(l1[a].req.line) = a /\ l1[a].req.wb = latest[l1[a].req.line]

Upgrading(a) ==
    l1[a].fsm = "WAIT" /\ l1[a].req.type = "UPGR" =>
        LET i == L1IndexOf(l1[a].op.line)
        IN  l1[a].tag[i] = l1[a].op.line /\ l1[a].line[i] = latest[l1[a].op.line]

Secured(l) ==
    \/ StateOf(l1[Home(l)], l) = "M"
    \/ WritesBack(Home(l), l)
    \/ FlushedByL2(l)
    \/ MemNow[l] = latest[l]

Flushing ==
    fsm = "EVICT_MEMWR" /\ dirty.had =>
        \/ dirty.data = latest[Slot.tag]
        \/ StateOf(l1[Home(Slot.tag)], Slot.tag) = "M"

Serving ==
    /\ fsm \in {"EVICT_MEMWR", "MEM_FETCH", "MEM_WAIT", "MEM_WAIT2", "SNOOP_OTHER"} => req.type # "WB"
    /\ Absorbed => L2Hit
    /\ Absorbed /\ req.type = "WB" => MemNow[req.line] = latest[req.line]
    /\ fsm = "COOLDOWN" => resp[req.core].data = Slot.data

HomeInv ==
    /\ \A a \in Agents : Steady(l1[a]) /\ Own(a) /\ Upgrading(a)
    /\ HomeCopyLatest
    /\ \A l \in Lines : Secured(l)
    /\ Flushing
    /\ Serving
PrivateInv == TypeOK /\ ProtocolInv /\ WriteThroughInv /\ HomeInv

----------------------------------------------------------------------------
\* Every line has a home.
LEMMA HomeType == \A l \in Lines : Home(l) \in Agents
BY FabricAssumption DEF Home, Lines, Agents

\* What an edge without an answer does to the copy of a line that the L1 neither
\* stores to nor writes back: it may vanish, and is Modified no more only if the
\* snoop names it.
Follows(s, t, snoop, l) ==
    /\ Holds(t, l) => /\ Holds(s, l) /\ Read2Data(t, l) = Read2Data(s, l)
                      /\ StateOf(t, l) = "M" => StateOf(s, l) = "M"
    /\ StateOf(s, l) = "M" /\ ~(snoop.valid /\ snoop.line = l) => StateOf(t, l) = "M"

\* So it does to a line whose set is only snooped.
LEMMA SnoopedFollows ==
  ASSUME NEW s \in L1Type, NEW t \in L1Type, NEW snoop \in Snoop, NEW l \in Lines,
         t.tag[L1IndexOf(l)] = s.tag[L1IndexOf(l)], t.line[L1IndexOf(l)] = s.line[L1IndexOf(l)],
         t.state[L1IndexOf(l)] = Downgraded(s, snoop)[L1IndexOf(l)]
  PROVE  Follows(s, t, snoop, l)
<1> DEFINE j == L1IndexOf(l)
<1>1. /\ j \in L1Index /\ snoop.line \in Lines /\ L1IndexOf(snoop.line) \in L1Index
      /\ s.state \in [L1Index -> MESI]
  BY IndexTypes DEF Snoop, L1Type
<1>2. CASE SnoopHit(s, snoop) /\ L1IndexOf(snoop.line) = j
  <2>1. t.state[j] \in {"I", "S"} /\ s.tag[j] = snoop.line /\ snoop.valid
    BY <1>1, <1>2 DEF Downgraded, SnoopHit, Holds
  <2>2. StateOf(t, l) # "M"
    BY <2>1 DEF StateOf
  <2>3. CASE snoop.line = l
    <3>1. Holds(s, l) /\ Read2Data(t, l) = Read2Data(s, l)
      BY <1>2, <2>3 DEF SnoopHit, Read2Data
    <3> QED BY <2>1, <2>2, <2>3, <3>1 DEF Follows
  <2>4. CASE snoop.line # l
    <3>1. ~Holds(s, l) /\ ~Holds(t, l)
      BY <2>1, <2>4 DEF Holds
    <3> QED BY <3>1 DEF Follows, StateOf
  <2> QED BY <2>3, <2>4
<1>3. CASE ~(SnoopHit(s, snoop) /\ L1IndexOf(snoop.line) = j)
  <2>1. t.state[j] = s.state[j]
    BY <1>1, <1>3 DEF Downgraded
  <2> QED BY <2>1 DEF Follows, Holds, StateOf, Read2Data
<1> QED BY <1>2, <1>3

\* A line whose set is made Invalid was not Modified, or is the one written back.
LEMMA InvalidFollows ==
  ASSUME NEW s \in L1Type, NEW t \in L1Type, NEW snoop \in Snoop, NEW l \in Lines,
         t.state[L1IndexOf(l)] = "I", StateOf(s, l) # "M"
  PROVE  Follows(s, t, snoop, l)
BY DEF Follows, Holds

\* The three effects an edge without an answer has on an L1: on its copies, and on
\* what it waits for.
Idles(s, t, snoop) ==
    /\ t.fsm = "EVICT_WB" <=> s.fsm = "EVICT_WB"
    /\ s.fsm = "EVICT_WB" => t.req = s.req
    /\ \A l \in Lines : Follows(s, t, snoop, l)
HitsWrite(s, t, snoop, op) ==
    /\ s.fsm = "IDLE" /\ op.kind = "write" /\ StateOf(s, op.line) \in {"M", "E"}
    /\ t.fsm = "DONE_W"
    /\ StateOf(t, op.line) = "M"
    /\ Read2Data(t, op.line) = MergeWrite(Read2Data(s, op.line), op)
    /\ \A l \in Lines : l # op.line => Follows(s, t, snoop, l)
Ejects(s, t, snoop) ==
    \E v \in Lines :
       /\ StateOf(s, v) = "M" /\ s.fsm = "IDLE"
       /\ t.fsm = "EVICT_WB" /\ t.req.line = v /\ t.req.wb = Read2Data(s, v)
       /\ ~Holds(t, v)
       /\ \A l \in Lines : l # v => Follows(s, t, snoop, l)
Pursues(s, t, op) ==
    /\ Waiting(t) /\ t.op.kind = "write" => \/ Waiting(s) /\ t.op = s.op
                                            \/ op.kind = "write" /\ t.op = op
    /\ t.fsm = "WAIT" /\ t.req.type = "UPGR" =>
          /\ t.tag = s.tag /\ t.line = s.line
          /\ \/ s.fsm = "WAIT" /\ s.req.type = "UPGR" /\ t.op = s.op
             \/ Holds(s, op.line) /\ op.kind = "write" /\ t.op = op

\* A miss over a set that is not Modified, at the edge of a snoop.
LEMMA MissCleanFollows ==
  ASSUME NEW s \in L1Type, NEW op \in CpuOp, NEW t \in L1Type, NEW snoop \in Snoop,
         NEW st \in [L1Index -> MESI], st = Downgraded(s, snoop),
         Steady(s), s.fsm = "IDLE", op.kind \in {"read", "write"},
         s.state[L1IndexOf(op.line)] # "M",
         t.state = [st EXCEPT ![L1IndexOf(op.line)] = "I"], t.tag = s.tag, t.line = s.line,
         t.op = op, t.fsm = "WAIT", t.req.line = op.line,
         t.req.type = IF op.kind = "write" THEN "BUSRDX" ELSE "BUSRD"
  PROVE  Steady(t) /\ Idles(s, t, snoop)
<1> DEFINE i == L1IndexOf(op.line)
<1>1. i \in L1Index
  BY IndexTypes DEF CpuOp
<1>2. Steady(t)
  <2>1. \A k \in L1Index : t.state[k] # "I" => s.state[k] # "I"
    BY <1>1, DowngradedKeepsInvalid
  <2> QED BY <2>1 DEF Steady
<1>3. ASSUME NEW l \in Lines PROVE Follows(s, t, snoop, l)
  <2>1. L1IndexOf(l) \in L1Index
    BY IndexTypes
  <2>2. CASE L1IndexOf(l) = i
    BY <1>1, <2>2, InvalidFollows DEF StateOf
  <2>3. CASE L1IndexOf(l) # i
    BY <2>1, <2>3, SnoopedFollows
  <2> QED BY <2>2, <2>3
<1> QED BY <1>2, <1>3 DEF Idles

\* The operation an idle L1 takes at the edge of a snoop has one of the effects.
LEMMA AcceptFollows ==
  ASSUME NEW s \in L1Type, NEW op \in CpuOp, NEW t \in L1Type, NEW snoop \in Snoop,
         NEW st \in [L1Index -> MESI], st = Downgraded(s, snoop),
         Steady(s), s.fsm = "IDLE", t = Accept(s, op, st)
  PROVE  /\ Steady(t) /\ Pursues(s, t, op)
         /\ \/ Idles(s, t, snoop) /\ ~(op.kind = "write" /\ StateOf(s, op.line) \in {"M", "E"})
            \/ HitsWrite(s, t, snoop, op)
            \/ Ejects(s, t, snoop) /\ StateOf(s, op.line) = "I"
<1>1. /\ op.line \in Lines /\ L1IndexOf(op.line) \in L1Index /\ s.req \in Request
      /\ s.prefetch_line \in Lines
      /\ \A l \in Lines : L1IndexOf(l) \in L1Index
  BY IndexTypes DEF CpuOp, L1Type
<1>2. StateOf(s, op.line) \in MESI /\ (StateOf(s, op.line) = "I" <=> ~Holds(s, op.line))
  BY <1>1, StateHolds
<1>3. \A k \in L1Index : st[k] # "I" => s.state[k] # "I"
  BY DowngradedKeepsInvalid
\* The copies are left alone but for the snoop.
<1>4. ASSUME t.state = st, t.tag = s.tag, t.line = s.line, t.fsm # "EVICT_WB",
             t.fsm = "WAIT" => /\ t.op.kind = "write" /\ t.req.type = "UPGR"
                               /\ t.req.line = t.op.line
      PROVE  Steady(t) /\ Idles(s, t, snoop)
  <2>1. Steady(t)
    BY <1>3, <1>4 DEF Steady
  <2>2. \A l \in Lines : Follows(s, t, snoop, l)
    BY <1>4, SnoopedFollows
  <2> QED BY <1>4, <2>1, <2>2 DEF Idles
<1>5. CASE op.kind = "read" /\ Holds(s, op.line)
  <2>1. t = [s EXCEPT !.state = st, !.is_prefetch = FALSE, !.fsm = "DONE_R"]
    BY <1>5 DEF Accept
  <2>2. t.state = st /\ t.tag = s.tag /\ t.line = s.line /\ t.fsm = "DONE_R"
    BY <2>1 DEF L1Type
  <2>3. Pursues(s, t, op)
    BY <2>2 DEF Pursues, Waiting
  <2> QED BY <1>4, <1>5, <2>2, <2>3
<1>6. CASE op.kind = "write" /\ StateOf(s, op.line) \in {"M", "E"}
  <2> DEFINE i == L1IndexOf(op.line)
  <2>1. t = WriteHit(s, op, st)
    <3>1. op.kind # "read" /\ op.kind # "none" /\ Holds(s, op.line)
      BY <1>2, <1>6
    <3>2. StateOf(s, op.line) # "S"
      BY <1>6
    <3> QED BY <1>6, <3>1, <3>2 DEF Accept
  <2> HIDE DEF i
  <2>2. /\ t.state = [st EXCEPT ![i] = "M"] /\ t.tag = s.tag /\ t.fsm = "DONE_W"
        /\ t.line = [s.line EXCEPT ![i] = MergeWrite(s.line[i], op)]
    BY <2>1 DEF WriteHit, L1Type, i
  <2>3. i \in L1Index /\ s.line \in [L1Index -> LineData]
    BY <1>1 DEF i, L1Type
  <2>4. s.tag[i] = op.line /\ s.state[i] # "I"
    BY <1>2, <1>6 DEF Holds, i
  <2>5. Steady(t)
    BY <1>3, <2>2, <2>3, <2>4 DEF Steady
  <2>6. /\ t.state[i] = "M" /\ t.line[i] = MergeWrite(s.line[i], op)
        /\ \A k \in L1Index : k # i => t.state[k] = st[k] /\ t.line[k] = s.line[k]
    BY <2>2, <2>3
  <2>7. ASSUME NEW l \in Lines, l # op.line PROVE Follows(s, t, snoop, l)
    <3>1. CASE L1IndexOf(l) = i
      <4>1. ~Holds(s, l) /\ ~Holds(t, l)
        BY <2>2, <2>4, <2>7, <3>1 DEF Holds
      <4> QED BY <4>1 DEF Follows, StateOf
    <3>2. CASE L1IndexOf(l) # i
      BY <1>1, <2>2, <2>6, <3>2, SnoopedFollows
    <3> QED BY <3>1, <3>2
  <2>8. StateOf(t, op.line) = "M"
    BY <2>2, <2>4, <2>6 DEF Holds, StateOf, i
  <2>9. Read2Data(t, op.line) = MergeWrite(Read2Data(s, op.line), op)
    BY <2>6 DEF Read2Data, i
  <2>10. Pursues(s, t, op)
    BY <2>2 DEF Pursues, Waiting
  <2> QED BY <1>6, <2>2, <2>5, <2>7, <2>8, <2>9, <2>10, Zenon DEF HitsWrite
<1>7. CASE op.kind = "write" /\ StateOf(s, op.line) = "S"
  <2>1. t = UpgradeShared(s, op, st)
    <3>1. op.kind # "read" /\ op.kind # "none" /\ Holds(s, op.line)
      BY <1>2, <1>7
    <3>2. StateOf(s, op.line) \notin {"M", "E"}
      BY <1>7
    <3> QED BY <1>7, <3>1, <3>2 DEF Accept
  <2>2. /\ t.state = st /\ t.tag = s.tag /\ t.line = s.line /\ t.fsm = "WAIT" /\ t.op = op
        /\ t.req.type = "UPGR" /\ t.req.line = op.line
    <3>1. t.req = Ask(s, "UPGR", op.line)
      BY <2>1 DEF UpgradeShared, L1Type
    <3>2. t.req.type = "UPGR" /\ t.req.line = op.line
      BY <1>1, <3>1 DEF Ask, Request
    <3> QED BY <2>1, <3>2 DEF UpgradeShared, L1Type
  <2>3. Steady(t) /\ Idles(s, t, snoop)
    BY <1>4, <1>7, <2>2
  <2>4. Pursues(s, t, op)
    BY <1>2, <1>7, <2>2 DEF Pursues
  <2> QED BY <1>7, <2>3, <2>4
<1>8. CASE op.kind # "none" /\ ~Holds(s, op.line) /\ VictimDirty(s, op.line)
  <2> DEFINE i == L1IndexOf(op.line)
             v == s.tag[i]
  <2>1. t = MissDirty(s, op, st)
    BY <1>2, <1>8 DEF Accept
  <2> HIDE DEF i
  <2>2. /\ t.state = [st EXCEPT ![i] = "I"] /\ t.tag = s.tag /\ t.line = s.line
        /\ t.fsm = "EVICT_WB" /\ t.op = op
        /\ t.req.line = s.tag[i] /\ t.req.wb = s.line[i]
    BY <2>1 DEF MissDirty, L1Type, i
  <2>3. i \in L1Index /\ s.tag[i] \in Lines /\ s.state[i] = "M" /\ L1IndexOf(s.tag[i]) = i
    BY <1>1, <1>8 DEF i, VictimDirty, Steady, L1Type
  <2>4. StateOf(s, v) = "M" /\ Read2Data(s, v) = s.line[i]
    BY <2>3 DEF Holds, StateOf, Read2Data
  <2>5. t.state[i] = "I" /\ \A k \in L1Index : k # i => t.state[k] = st[k]
    BY <2>2, <2>3
  <2>6. ~Holds(t, v)
    BY <2>3, <2>5 DEF Holds
  <2>7. ASSUME NEW l \in Lines, l # v PROVE Follows(s, t, snoop, l)
    <3>1. CASE L1IndexOf(l) = i
      <4>1. StateOf(s, l) # "M" /\ t.state[L1IndexOf(l)] = "I"
        BY <2>5, <2>7, <3>1 DEF Holds, StateOf
      <4> QED BY <4>1, InvalidFollows
    <3>2. CASE L1IndexOf(l) # i
      BY <1>1, <2>2, <2>5, <3>2, SnoopedFollows
    <3> QED BY <3>1, <3>2
  <2>8. Steady(t)
    <3>1. \A k \in L1Index : t.state[k] # "I" => s.state[k] # "I"
      BY <1>3, <2>3, <2>5
    <3>2. op.kind \in {"read", "write"}
      BY <1>8 DEF CpuOp
    <3> QED BY <2>2, <3>1, <3>2 DEF Steady
  <2>9. Ejects(s, t, snoop)
    <3> HIDE DEF v
    <3>1. v \in Lines /\ t.req.line = v /\ t.req.wb = Read2Data(s, v)
      BY <2>2, <2>3, <2>4 DEF v
    <3> QED BY <2>2, <2>4, <2>6, <2>7, <3>1 DEF Ejects
  <2>10. Pursues(s, t, op)
    BY <2>2 DEF Pursues
  <2> QED BY <1>2, <1>8, <2>8, <2>9, <2>10
<1>9. CASE op.kind # "none" /\ ~Holds(s, op.line) /\ ~VictimDirty(s, op.line)
  <2>1. t = MissClean(s, op, st, FALSE)
    BY <1>2, <1>9 DEF Accept
  <2>2. /\ t.state = [st EXCEPT ![L1IndexOf(op.line)] = "I"]
        /\ t.tag = s.tag /\ t.line = s.line /\ t.op = op /\ t.fsm = "WAIT"
        /\ t.req.line = op.line
        /\ t.req.type = IF op.kind = "write" THEN "BUSRDX" ELSE "BUSRD"
    <3>1. \A ty \in ReqTypes : Ask(s, ty, op.line).line = op.line /\ Ask(s, ty, op.line).type = ty
      BY <1>1 DEF Ask, Request
    <3> QED BY <1>1, <2>1, <3>1 DEF MissClean, L1Type, ReqTypes
  <2>3. op.kind \in {"read", "write"} /\ s.state[L1IndexOf(op.line)] # "M"
    BY <1>9 DEF CpuOp, VictimDirty
  <2>4. Steady(t) /\ Idles(s, t, snoop)
    BY <2>2, <2>3, MissCleanFollows
  <2>5. Pursues(s, t, op)
    BY <2>2 DEF Pursues
  <2> QED BY <1>2, <1>9, <2>4, <2>5
<1>10. CASE op.kind = "none" /\ s.prefetch_pending /\ PrefetchWorks(s)
  <2> DEFINE o == PrefetchOp(s)
             m == MissClean(s, o, st, TRUE)
  <2>1. t = [m EXCEPT !.prefetch_pending = FALSE]
    BY <1>10 DEF Accept
  <2>2. o \in CpuOp /\ o.kind = "read" /\ o.line = s.prefetch_line
    BY <1>1, OpTypes DEF PrefetchOp, CpuOp
  <2>3. m \in L1Type
    BY <1>1, <2>2, MissCleanType
  <2>4. /\ t.state = m.state /\ t.tag = m.tag /\ t.line = m.line /\ t.op = m.op
        /\ t.fsm = m.fsm /\ t.req = m.req
    <3> HIDE DEF m
    <3> QED BY <2>1, <2>3 DEF L1Type
  <2>5. /\ m.state = [st EXCEPT ![L1IndexOf(o.line)] = "I"]
        /\ m.tag = s.tag /\ m.line = s.line /\ m.op = o /\ m.fsm = "WAIT"
        /\ m.req.line = o.line /\ m.req.type = "BUSRD"
    <3> HIDE DEF o
    <3>1. \A ty \in ReqTypes : Ask(s, ty, o.line).line = o.line /\ Ask(s, ty, o.line).type = ty
      BY <1>1, <2>2 DEF Ask, Request
    <3> QED BY <1>1, <2>2, <3>1 DEF MissClean, L1Type, ReqTypes
  <2>6. s.state[L1IndexOf(o.line)] # "M"
    BY <1>10, <2>2 DEF PrefetchWorks
  <2> HIDE DEF o, m
  <2>7. /\ t.state = [st EXCEPT ![L1IndexOf(o.line)] = "I"]
        /\ t.tag = s.tag /\ t.line = s.line /\ t.op = o /\ t.fsm = "WAIT"
        /\ t.req.line = o.line /\ t.req.type = "BUSRD" /\ o.kind = "read"
    BY <2>2, <2>4, <2>5
  <2>8. Steady(t) /\ Idles(s, t, snoop)
    BY <2>2, <2>6, <2>7, MissCleanFollows
  <2>9. Pursues(s, t, op)
    BY <2>7 DEF Pursues
  <2> QED BY <1>10, <2>8, <2>9
<1>11. CASE op.kind = "none" /\ ~(s.prefetch_pending /\ PrefetchWorks(s))
  <2>1. t = [s EXCEPT !.state = st, !.prefetch_pending = FALSE]
    BY <1>11 DEF Accept
  <2>2. t.state = st /\ t.tag = s.tag /\ t.line = s.line /\ t.fsm = "IDLE"
    BY <2>1 DEF L1Type
  <2>3. Pursues(s, t, op)
    BY <2>2 DEF Pursues, Waiting
  <2> QED BY <1>4, <1>11, <2>2, <2>3
<1>12. op.kind \in {"none", "read", "write"}
  BY DEF CpuOp
<1> QED BY <1>2, <1>5, <1>6, <1>7, <1>8, <1>9, <1>10, <1>11, <1>12 DEF MESI

\* What an edge without an answer does to an L1.
LEMMA UnansweredEdge ==
  ASSUME NEW s \in L1Type, NEW op \in CpuOp, NEW snoop \in Snoop, NEW answer \in Response,
         ~answer.valid, Steady(s), op.kind # "none" => s.fsm = "IDLE",
         NEW t \in L1Type, t = L1Clock(s, op, snoop, answer)
  PROVE  /\ Steady(t) /\ Pursues(s, t, op)
         /\ \/ Idles(s, t, snoop) /\ ~CompletesWrite(s, op, answer)
            \/ HitsWrite(s, t, snoop, op)
            \/ Ejects(s, t, snoop) /\ ~CompletesWrite(s, op, answer)
<1> DEFINE st == Downgraded(s, snoop)
<1>1. st \in [L1Index -> MESI] /\ \A k \in L1Index : st[k] # "I" => s.state[k] # "I"
  BY DowngradedType, DowngradedKeepsInvalid
<1>2. \A l \in Lines : L1IndexOf(l) \in L1Index
  BY IndexTypes
<1>3. CASE s.fsm = "IDLE"
  <2>1. t = Accept(s, op, st)
    BY <1>3 DEF L1Clock
  <2> HIDE DEF st
  <2>2. st = Downgraded(s, snoop)
    BY DEF st
  <2> QED BY <1>1, <1>3, <2>1, <2>2, AcceptFollows DEF CompletesWrite
<1>4. CASE s.fsm \in {"EVICT_WB", "WAIT", "DONE_R", "DONE_W"}
  <2>1. /\ t.state = st /\ t.tag = s.tag /\ t.line = s.line /\ t.op = s.op /\ t.req = s.req
        /\ s.fsm \in {"EVICT_WB", "WAIT"} => t.fsm = s.fsm
        /\ s.fsm \in {"DONE_R", "DONE_W"} => t.fsm = "IDLE"
    <3>1. CASE s.fsm \in {"EVICT_WB", "WAIT"}
      <4>1. t = [s EXCEPT !.state = st]
        BY <3>1 DEF L1Clock
      <4> HIDE DEF st
      <4> QED BY <3>1, <4>1 DEF L1Type
    <3>2. CASE s.fsm \in {"DONE_R", "DONE_W"}
      <4>1. t = [s EXCEPT !.state = st, !.fsm = "IDLE"]
        BY <3>2 DEF L1Clock
      <4> HIDE DEF st
      <4> QED BY <3>2, <4>1 DEF L1Type
    <3> QED BY <1>4, <3>1, <3>2
  <2>2. Steady(t)
    BY <1>1, <1>4, <2>1 DEF Steady
  <2>3. Pursues(s, t, op)
    BY <1>4, <2>1 DEF Pursues, Waiting
  <2>4. Idles(s, t, snoop)
    <3>1. \A l \in Lines : Follows(s, t, snoop, l)
      BY <1>2, <2>1, SnoopedFollows
    <3> QED BY <1>4, <2>1, <3>1 DEF Idles
  <2> QED BY <1>4, <2>2, <2>3, <2>4 DEF CompletesWrite
<1> QED BY <1>3, <1>4 DEF L1Type, L1States

----------------------------------------------------------------------------
\* The request L2 works on.
LEMMA PrivateRequester ==
  ASSUME PrivateInv, fsm # "IDLE"
  PROVE  /\ req.core \in Agents /\ req.line \in Lines /\ req.type \in ReqTypes
         /\ l1[req.core].req.type = req.type /\ l1[req.core].req.line = req.line
         /\ l1[req.core].req.wb = req.wb
         /\ Waiting(l1[req.core])
         /\ req.type = "WB" <=> l1[req.core].fsm = "EVICT_WB"
         /\ req.type # "WB" => /\ l1[req.core].fsm = "WAIT" /\ l1[req.core].op.line = req.line
                               /\ l1[req.core].op.kind = IF req.type = "BUSRD" THEN "read" ELSE "write"
         /\ req.type \in {"BUSRD", "BUSRDX"} => ~Holds(l1[req.core], req.line)
<1>1. /\ req.core \in Agents /\ req.line \in Lines /\ req.type \in ReqTypes
      /\ l1[req.core] \in L1Type
  BY DEF PrivateInv, TypeOK, L2Request
<1>2. /\ l1[req.core].req.type = req.type /\ l1[req.core].req.line = req.line
      /\ l1[req.core].req.wb = req.wb /\ l1[req.core].req.valid
  BY DEF PrivateInv, ProtocolInv, LatchedRequest
<1>3. Waiting(l1[req.core]) /\ L1Inv(l1[req.core]) /\ Steady(l1[req.core])
  BY <1>1, <1>2 DEF PrivateInv, ProtocolInv, L1Inv, HomeInv
<1>4. req.type = "WB" <=> l1[req.core].fsm = "EVICT_WB"
  BY <1>2, <1>3 DEF Waiting, L1Inv, Steady
<1>5. req.type # "WB" => /\ l1[req.core].fsm = "WAIT" /\ l1[req.core].op.line = req.line
                         /\ l1[req.core].op.kind = IF req.type = "BUSRD" THEN "read" ELSE "write"
  BY <1>1, <1>2, <1>3, <1>4 DEF Waiting, Steady
<1>6. req.type \in {"BUSRD", "BUSRDX"} => ~Holds(l1[req.core], req.line)
  BY <1>2, <1>3, <1>5 DEF L1Inv, Holds
<1> QED BY <1>1, <1>2, <1>3, <1>4, <1>5, <1>6

\* What an edge of private CPUs is for one agent.
LEMMA PrivateEdge ==
  ASSUME PrivateInv, NEW in \in PrivateInputs, Edge(in), NEW a \in Agents
  PROVE  /\ l1[a] \in L1Type /\ in[a] \in CpuOp /\ l1'[a] \in L1Type
         /\ SnoopOf(a) \in Snoop /\ resp[a] \in Response
         /\ l1'[a] = L1Clock(l1[a], in[a], SnoopOf(a), resp[a])
         /\ resp[a].valid <=> fsm = "COOLDOWN" /\ a = req.core
         /\ in[a].kind # "none" => l1[a].fsm = "IDLE" /\ Home(in[a].line) = a
         /\ Steady(l1[a]) /\ Own(a) /\ Upgrading(a) /\ L1Inv(l1[a])
         /\ fsm = "COOLDOWN" => Downgraded(l1[a], SnoopOf(a)) = l1[a].state
<1>1. TypeOK /\ ProtocolInv /\ HomeInv /\ in \in Inputs
  BY DEF PrivateInv, PrivateInputs
<1>2. in[a].kind # "none" => l1[a].fsm = "IDLE" /\ Home(in[a].line) = a
  BY <1>1 DEF PrivateInputs, Inputs, NoOp
<1>3. /\ l1[a] \in L1Type /\ in[a] \in CpuOp /\ l1'[a] \in L1Type
      /\ SnoopOf(a) \in Snoop /\ resp[a] \in Response
  BY <1>1, OpTypes, WireTypes, EdgeType DEF TypeOK, Inputs
<1>4. l1'[a] = L1Clock(l1[a], in[a], SnoopOf(a), resp[a])
  BY DEF Edge, ClockL1s
<1>5. fsm = "COOLDOWN" => Downgraded(l1[a], SnoopOf(a)) = l1[a].state
  BY <1>1, SnoopedWhen
<1>6. /\ resp[a].valid <=> fsm = "COOLDOWN" /\ a = req.core
      /\ Steady(l1[a]) /\ Own(a) /\ Upgrading(a) /\ L1Inv(l1[a])
  BY <1>1 DEF ProtocolInv, HomeInv
<1> QED BY <1>2, <1>3, <1>4, <1>5, <1>6

\* A line is stored to by its home alone.
LEMMA HomeHistory ==
  ASSUME PrivateInv, NEW in \in PrivateInputs, Edge(in), NEW a \in Agents, NEW l \in Lines,
         Home(l) = a
  PROVE  latest'[l] = IF /\ CompletesWrite(l1[a], in[a], resp[a])
                         /\ CompletedWrite(l1[a], in[a]).line = l
                      THEN MergeWrite(latest[l], CompletedWrite(l1[a], in[a]))
                      ELSE latest[l]
<1>1. ASSUME NEW b \in Agents, CompletesWrite(l1[b], in[b], resp[b])
      PROVE  Home(CompletedWrite(l1[b], in[b]).line) = b
  <2>1. CASE l1[b].fsm = "IDLE"
    BY <1>1, <2>1, PrivateEdge DEF CompletesWrite, CompletedWrite
  <2>2. CASE l1[b].fsm # "IDLE"
    <3>1. Waiting(l1[b]) /\ l1[b].op.kind = "write" /\ CompletedWrite(l1[b], in[b]) = l1[b].op
      BY <1>1, <2>2 DEF CompletesWrite, CompletedWrite, Waiting
    <3> QED BY <3>1, PrivateEdge DEF Own
  <2> QED BY <2>1, <2>2
<1>2. Writers(in, l) \subseteq {a}
  BY <1>1 DEF Writers
<1>3. latest'[l] = IF Writers(in, l) = {} THEN latest[l]
                   ELSE LET b == CHOOSE b \in Writers(in, l) : TRUE
                        IN MergeWrite(latest[l], CompletedWrite(l1[b], in[b]))
  BY DEF Edge, RecordWrites
<1>4. CASE Writers(in, l) = {}
  <2>1. ~(/\ CompletesWrite(l1[a], in[a], resp[a]) /\ CompletedWrite(l1[a], in[a]).line = l)
    BY <1>4 DEF Writers
  <2> QED BY <1>3, <1>4, <2>1
<1>5. CASE Writers(in, l) # {}
  <2>1. a \in Writers(in, l) /\ (CHOOSE b \in Writers(in, l) : TRUE) = a
    BY <1>2, <1>5
  <2> QED BY <1>3, <1>5, <2>1 DEF Writers
<1> QED BY <1>4, <1>5

\* L2 answers the home of a line with the last value.
LEMMA HomeAnswer ==
  ASSUME PrivateInv, fsm = "COOLDOWN", req.type \in {"BUSRD", "BUSRDX"}, req.core = Home(req.line)
  PROVE  resp[req.core].data = latest[req.line] /\ MemNow[req.line] = latest[req.line]
<1>1. /\ req.core \in Agents /\ req.line \in Lines /\ l1[req.core].fsm = "WAIT"
      /\ ~Holds(l1[req.core], req.line)
  BY PrivateRequester
<1>2. Secured(req.line) /\ L2Hit /\ resp[req.core].data = Slot.data
  BY <1>1 DEF PrivateInv, HomeInv, Serving, Absorbed
<1>3. MemNow[req.line] = latest[req.line]
  BY <1>1, <1>2 DEF Secured, StateOf, WritesBack, FlushedByL2
<1>4. Slot.data = MemNow[req.line]
  BY <1>2, WireTypes DEF PrivateInv, WriteThroughInv, WriteThrough, Replacing, L2Hit, Slot
<1> QED BY <1>2, <1>3, <1>4

\* What an edge leaves of the invariant that is about one agent and its lines.
AgentInv(a) ==
    /\ Steady(l1[a]) /\ Own(a) /\ Upgrading(a)
    /\ \A l \in Lines : Home(l) = a => CopyLatest(a, l)

\* An agent that is not answered keeps its part of the invariant.
LEMMA UnansweredAgent ==
  ASSUME PrivateInv, NEW in \in PrivateInputs, Edge(in), NEW a \in Agents, ~resp[a].valid
  PROVE  AgentInv(a)'
<1> DEFINE s == l1[a]
           t == l1'[a]
           op == in[a]
           snoop == SnoopOf(a)
<1>1. /\ s \in L1Type /\ op \in CpuOp /\ t \in L1Type /\ snoop \in Snoop
      /\ op.kind # "none" => s.fsm = "IDLE" /\ Home(op.line) = a
      /\ Steady(s) /\ Own(a) /\ Upgrading(a)
  BY PrivateEdge
<1>2. /\ Steady(t) /\ Pursues(s, t, op)
      /\ \/ Idles(s, t, snoop) /\ ~CompletesWrite(s, op, resp[a])
         \/ HitsWrite(s, t, snoop, op)
         \/ Ejects(s, t, snoop) /\ ~CompletesWrite(s, op, resp[a])
  BY PrivateEdge, UnansweredEdge
<1>3. \A l \in Lines : Home(l) = a => (Holds(s, l) => Read2Data(s, l) = latest[l])
  BY DEF PrivateInv, HomeInv, HomeCopyLatest, CopyLatest, Read2Hit
<1>4. ~CompletesWrite(s, op, resp[a]) => \A l \in Lines : Home(l) = a => latest'[l] = latest[l]
  BY HomeHistory
<1>5. HitsWrite(s, t, snoop, op) =>
        \A l \in Lines : Home(l) = a =>
           latest'[l] = IF l = op.line THEN MergeWrite(latest[l], op) ELSE latest[l]
  <2> SUFFICES ASSUME HitsWrite(s, t, snoop, op), NEW l \in Lines, Home(l) = a
               PROVE  latest'[l] = IF l = op.line THEN MergeWrite(latest[l], op) ELSE latest[l]
    OBVIOUS
  <2>1. CompletesWrite(s, op, resp[a]) /\ CompletedWrite(s, op) = op
    BY DEF HitsWrite, CompletesWrite, CompletedWrite
  <2> QED BY <2>1, HomeHistory
<1>6. \A l \in Lines : /\ StateOf(t, l) = "M" => Holds(t, l)
                       /\ StateOf(s, l) = "M" => Holds(s, l)
  BY DEF StateOf
<1>7. op.line \in Lines /\ s.op.line \in Lines /\ s.req.line \in Lines /\ t.op.line \in Lines
  BY <1>1 DEF CpuOp, L1Type, Request
<1> HIDE DEF s, t, op, snoop
<1>8. Own(a)'
  <2>1. Waiting(t) /\ t.op.kind = "write" => Home(t.op.line) = a
    BY <1>1, <1>2 DEF Pursues, Own, s
  <2>2. ASSUME NEW l \in Lines, StateOf(t, l) = "M" PROVE Home(l) = a
    <3>1. CASE StateOf(s, l) = "M"
      BY <1>1, <3>1 DEF Own, s
    <3>2. CASE StateOf(s, l) # "M"
      <4>1. ~Follows(s, t, snoop, l)
        BY <1>6, <2>2, <3>2 DEF Follows
      <4>2. ~Idles(s, t, snoop) /\ ~Ejects(s, t, snoop)
        BY <1>6, <2>2, <4>1 DEF Idles, Ejects
      <4>3. l = op.line /\ op.kind = "write"
        BY <1>2, <4>1, <4>2 DEF HitsWrite
      <4> QED BY <1>1, <4>3
    <3> QED BY <3>1, <3>2
  <2>3. ASSUME t.fsm = "EVICT_WB" PROVE Home(t.req.line) = a /\ t.req.wb = latest'[t.req.line]
    <3>1. CASE Idles(s, t, snoop) /\ ~CompletesWrite(s, op, resp[a])
      <4>1. s.fsm = "EVICT_WB" /\ t.req = s.req
        BY <2>3, <3>1 DEF Idles
      <4>2. Home(s.req.line) = a /\ s.req.wb = latest[s.req.line]
        BY <1>1, <4>1 DEF Own, s
      <4> QED BY <1>4, <1>7, <3>1, <4>1, <4>2
    <3>2. CASE Ejects(s, t, snoop) /\ ~CompletesWrite(s, op, resp[a])
      <4>1. PICK v \in Lines : /\ StateOf(s, v) = "M"
                               /\ t.req.line = v /\ t.req.wb = Read2Data(s, v)
        BY <3>2 DEF Ejects
      <4>2. Home(v) = a
        BY <1>1, <4>1 DEF Own, s
      <4> QED BY <1>3, <1>4, <1>6, <3>2, <4>1, <4>2
    <3> QED BY <1>2, <2>3, <3>1, <3>2 DEF HitsWrite
  <2> QED BY <2>1, <2>2, <2>3 DEF Own, t
<1>9. Upgrading(a)'
  <2> SUFFICES ASSUME t.fsm = "WAIT", t.req.type = "UPGR"
               PROVE  /\ t.tag[L1IndexOf(t.op.line)] = t.op.line
                      /\ t.line[L1IndexOf(t.op.line)] = latest'[t.op.line]
    BY DEF Upgrading, t
  <2>1. ~CompletesWrite(s, op, resp[a])
    BY <1>2 DEF HitsWrite
  <2>2. /\ t.tag = s.tag /\ t.line = s.line
        /\ \/ s.fsm = "WAIT" /\ s.req.type = "UPGR" /\ t.op = s.op
           \/ Holds(s, op.line) /\ op.kind = "write" /\ t.op = op
    BY <1>2 DEF Pursues
  <2>3. CASE s.fsm = "WAIT" /\ s.req.type = "UPGR" /\ t.op = s.op
    <3>1. Home(s.op.line) = a
      BY <1>1, <2>3 DEF Own, Steady, Waiting, s
    <3>2. latest'[s.op.line] = latest[s.op.line]
      BY <1>4, <1>7, <2>1, <3>1
    <3> QED BY <1>1, <2>2, <2>3, <3>2 DEF Upgrading, s
  <2>4. CASE Holds(s, op.line) /\ op.kind = "write" /\ t.op = op
    <3>1. Home(op.line) = a /\ Read2Data(s, op.line) = latest[op.line]
      BY <1>1, <1>3, <1>7, <2>4
    <3>2. latest'[op.line] = latest[op.line]
      BY <1>4, <1>7, <2>1, <3>1
    <3> QED BY <2>2, <2>4, <3>1, <3>2 DEF Holds, Read2Data
  <2> QED BY <2>2, <2>3, <2>4
<1>10. ASSUME NEW l \in Lines, Home(l) = a, Holds(t, l) PROVE Read2Data(t, l) = latest'[l]
  <2>1. CASE Follows(s, t, snoop, l) /\ latest'[l] = latest[l]
    BY <1>3, <1>10, <2>1 DEF Follows
  <2>2. CASE HitsWrite(s, t, snoop, op)
    <3>1. CASE l = op.line
      <4>1. Read2Data(t, l) = MergeWrite(Read2Data(s, l), op) /\ StateOf(s, l) \in {"M", "E"}
        BY <2>2, <3>1 DEF HitsWrite
      <4>2. Holds(s, l)
        BY <4>1 DEF StateOf
      <4> QED BY <1>3, <1>5, <1>10, <2>2, <3>1, <4>1, <4>2
    <3>2. CASE l # op.line
      <4>1. Follows(s, t, snoop, l)
        BY <2>2, <3>2 DEF HitsWrite
      <4>2. latest'[l] = latest[l]
        BY <1>5, <1>10, <2>2, <3>2
      <4> QED BY <2>1, <4>1, <4>2
    <3> QED BY <3>1, <3>2
  <2>3. CASE Idles(s, t, snoop) /\ ~CompletesWrite(s, op, resp[a])
    BY <1>4, <1>10, <2>1, <2>3 DEF Idles
  <2>4. CASE Ejects(s, t, snoop) /\ ~CompletesWrite(s, op, resp[a])
    BY <1>4, <1>10, <2>1, <2>4 DEF Ejects
  <2> QED BY <1>2, <2>2, <2>3, <2>4
<1>11. \A l \in Lines : Home(l) = a => CopyLatest(a, l)'
  BY <1>10 DEF CopyLatest, Read2Hit, t
<1> QED BY <1>2, <1>8, <1>9, <1>11 DEF AgentInv, t

\* An agent that sees its answer keeps its part of the invariant.
LEMMA AnsweredAgent ==
  ASSUME PrivateInv, NEW in \in PrivateInputs, Edge(in), NEW a \in Agents, resp[a].valid
  PROVE  /\ AgentInv(a)'
         /\ l1'[a].fsm # "EVICT_WB"
         /\ \A l \in Lines : l # l1[a].op.line => StateOf(l1'[a], l) = StateOf(l1[a], l)
         /\ l1[a].fsm = "EVICT_WB" => \A l \in Lines : StateOf(l1'[a], l) = StateOf(l1[a], l)
         /\ l1[a].fsm = "WAIT" /\ l1[a].op.kind = "write" => StateOf(l1'[a], l1[a].op.line) = "M"
<1> DEFINE s == l1[a]
           t == l1'[a]
           op == in[a]
           snoop == SnoopOf(a)
           answer == resp[a]
<1>1. /\ s \in L1Type /\ op \in CpuOp /\ t \in L1Type /\ snoop \in Snoop /\ answer \in Response
      /\ t = L1Clock(s, op, snoop, answer)
      /\ Steady(s) /\ Own(a) /\ Upgrading(a) /\ L1Inv(s)
      /\ fsm = "COOLDOWN" /\ a = req.core
      /\ Downgraded(s, snoop) = s.state
  BY PrivateEdge
<1>2. Waiting(s) /\ (req.type = "WB" <=> s.fsm = "EVICT_WB") /\ s.req.type = req.type
  BY <1>1, PrivateRequester
<1>3. \A l \in Lines : Home(l) = a => (Holds(s, l) => Read2Data(s, l) = latest[l])
  BY DEF PrivateInv, HomeInv, HomeCopyLatest, CopyLatest, Read2Hit
<1>4. \A l \in Lines : Home(l) = a =>
         latest'[l] = IF s.fsm = "WAIT" /\ s.op.kind = "write" /\ l = s.op.line
                      THEN MergeWrite(latest[l], s.op) ELSE latest[l]
  <2>1. CompletesWrite(s, op, answer) <=> s.fsm = "WAIT" /\ s.op.kind = "write"
    BY <1>2 DEF CompletesWrite, Waiting
  <2>2. CompletedWrite(s, op) = s.op
    BY <1>2 DEF CompletedWrite, Waiting
  <2> QED BY <2>1, <2>2, HomeHistory
<1>5. s.op.line \in Lines /\ s.op \in CpuOp
  BY <1>1 DEF CpuOp, L1Type
<1>6. CASE s.fsm = "EVICT_WB"
  <2>1. /\ Steady(t) /\ t.fsm = "WAIT" /\ t.op = s.op /\ t.req.type # "UPGR"
        /\ \A l \in Lines : /\ Holds(t, l) <=> Holds(s, l)
                            /\ StateOf(t, l) = StateOf(s, l)
                            /\ Read2Data(t, l) = Read2Data(s, l)
    BY <1>1, <1>6, WritebackShape DEF Sound
  <2> HIDE DEF s, t, op, snoop, answer
  <2>2. Own(a)'
    BY <1>1, <1>2, <2>1 DEF Own, Waiting, s, t
  <2>3. Upgrading(a)'
    BY <2>1 DEF Upgrading, t
  <2>4. \A l \in Lines : Home(l) = a => CopyLatest(a, l)'
    BY <1>3, <1>4, <1>6, <2>1 DEF CopyLatest, Read2Hit, t
  <2> QED BY <1>6, <2>1, <2>2, <2>3, <2>4 DEF AgentInv, s, t
<1>7. CASE s.fsm = "WAIT"
  <2> DEFINE k == s.op.line
  <2>1. s.req.type = "UPGR" => s.tag[L1IndexOf(k)] = k /\ s.line[L1IndexOf(k)] = latest[k]
    BY <1>1, <1>7 DEF Upgrading
  <2>2. /\ Steady(t) /\ t.fsm \in {"DONE_R", "DONE_W"}
        /\ Holds(t, k) /\ StateOf(t, k) = Given(s, answer)
        /\ Read2Data(t, k) = FillValue(s, answer)
        /\ \A l \in Lines : l # k => /\ Holds(t, l) <=> Holds(s, l)
                                     /\ StateOf(t, l) = StateOf(s, l)
                                     /\ Holds(s, l) => Read2Data(t, l) = Read2Data(s, l)
    BY <1>1, <1>7, <2>1, FillShape DEF Sound
  <2>3. req.line = k /\ s.op.kind = IF req.type = "BUSRD" THEN "read" ELSE "write"
    BY <1>1, <1>2, <1>7, PrivateRequester
  <2>4. Home(k) = a => FillValue(s, answer) = latest'[k]
    <3> SUFFICES ASSUME Home(k) = a PROVE FillValue(s, answer) = latest'[k]
      OBVIOUS
    <3>1. s.req.type \in ReqTypes /\ s.req.type # "WB"
      BY <1>1, <1>7 DEF Steady, L1Type, Request
    <3>2. s.req.type # "UPGR" => answer.data = latest[k]
      BY <1>1, <1>2, <2>3, <3>1, HomeAnswer DEF ReqTypes
    <3>3. latest'[k] = IF s.op.kind = "write" THEN MergeWrite(latest[k], s.op) ELSE latest[k]
      BY <1>4, <1>5, <1>7
    <3>4. s.req.type = "UPGR" => s.op.kind = "write"
      BY <1>2, <2>3
    <3> QED BY <2>1, <3>2, <3>3, <3>4 DEF FillValue
  <2>5. s.op.kind = "write" => Home(k) = a
    BY <1>1, <1>7 DEF Own, Waiting
  <2>6. Given(s, answer) = "M" <=> s.op.kind = "write"
    BY DEF Given
  <2> HIDE DEF s, t, op, snoop, answer
  <2>7. Own(a)'
    <3>1. \A l \in Lines : StateOf(t, l) = "M" => Home(l) = a
      BY <1>1, <2>2, <2>5, <2>6 DEF Own, s
    <3> QED BY <2>2, <3>1 DEF Own, Waiting, t
  <2>8. Upgrading(a)'
    BY <2>2 DEF Upgrading, t
  <2>9. ASSUME NEW l \in Lines, Home(l) = a, Holds(t, l) PROVE Read2Data(t, l) = latest'[l]
    BY <1>3, <1>4, <2>2, <2>4, <2>9
  <2>10. \A l \in Lines : Home(l) = a => CopyLatest(a, l)'
    BY <2>9 DEF CopyLatest, Read2Hit, t
  <2> QED BY <1>7, <2>2, <2>6, <2>7, <2>8, <2>10 DEF AgentInv, s, t
<1> QED BY <1>2, <1>6, <1>7 DEF Waiting

----------------------------------------------------------------------------
\* An edge for a line and its home: the home ends up with the line Modified, or
\* nothing is stored to it, and then a Modified copy goes only to a writeback or to
\* the snoop that names it, a writeback only by its answer.
LEMMA HomeEdge ==
  ASSUME PrivateInv, NEW in \in PrivateInputs, Edge(in), NEW l \in Lines
  PROVE  \/ StateOf(l1'[Home(l)], l) = "M"
         \/ /\ latest'[l] = latest[l]
            /\ \/ l1'[Home(l)].fsm = "EVICT_WB" /\ l1'[Home(l)].req.line = l
               \/ /\ StateOf(l1[Home(l)], l) = "M" =>
                        SnoopOf(Home(l)).valid /\ SnoopOf(Home(l)).line = l
                  /\ WritesBack(Home(l), l) => fsm = "COOLDOWN" /\ req.core = Home(l)
<1> DEFINE a == Home(l)
           s == l1[a]
           t == l1'[a]
           op == in[a]
           snoop == SnoopOf(a)
<1>1. /\ a \in Agents
      /\ s \in L1Type /\ op \in CpuOp /\ t \in L1Type /\ snoop \in Snoop /\ resp[a] \in Response
      /\ t = L1Clock(s, op, snoop, resp[a])
      /\ resp[a].valid <=> fsm = "COOLDOWN" /\ a = req.core
      /\ op.kind # "none" => s.fsm = "IDLE"
      /\ Steady(s)
  BY HomeType, PrivateEdge
<1>2. latest'[l] = IF CompletesWrite(s, op, resp[a]) /\ CompletedWrite(s, op).line = l
                   THEN MergeWrite(latest[l], CompletedWrite(s, op)) ELSE latest[l]
  BY <1>1, HomeHistory
<1>3. WritesBack(a, l) <=> s.fsm = "EVICT_WB" /\ s.req.line = l
  BY DEF WritesBack
<1>4. CASE ~resp[a].valid
  <2>1. \/ Idles(s, t, snoop) /\ ~CompletesWrite(s, op, resp[a])
        \/ HitsWrite(s, t, snoop, op)
        \/ Ejects(s, t, snoop) /\ ~CompletesWrite(s, op, resp[a])
    BY <1>1, <1>4, UnansweredEdge
  <2>2. CASE Idles(s, t, snoop) /\ ~CompletesWrite(s, op, resp[a])
    <3> HIDE DEF a, s, t, op, snoop
    <3>1. latest'[l] = latest[l] /\ Follows(s, t, snoop, l)
      BY <1>2, <2>2 DEF Idles
    <3>2. s.fsm = "EVICT_WB" => t.fsm = "EVICT_WB" /\ t.req = s.req
      BY <2>2 DEF Idles
    <3>3. \/ StateOf(t, l) = "M"
          \/ t.fsm = "EVICT_WB" /\ t.req.line = l
          \/ /\ StateOf(s, l) = "M" => snoop.valid /\ snoop.line = l
             /\ ~WritesBack(a, l)
      BY <1>3, <3>1, <3>2 DEF Follows
    <3> QED BY <3>1, <3>3 DEF a, s, t, snoop
  <2>3. CASE HitsWrite(s, t, snoop, op)
    <3> HIDE DEF a, s, t, op, snoop
    <3>1. l = op.line => StateOf(t, l) = "M"
      BY <2>3 DEF HitsWrite
    <3>2. l # op.line => Follows(s, t, snoop, l) /\ latest'[l] = latest[l]
      BY <1>2, <2>3 DEF HitsWrite, CompletedWrite
    <3>3. ~WritesBack(a, l)
      BY <1>3, <2>3 DEF HitsWrite
    <3>4. \/ StateOf(t, l) = "M"
          \/ /\ latest'[l] = latest[l]
             /\ StateOf(s, l) = "M" => snoop.valid /\ snoop.line = l
      BY <3>1, <3>2 DEF Follows
    <3> QED BY <3>3, <3>4 DEF a, s, t, snoop
  <2>4. CASE Ejects(s, t, snoop) /\ ~CompletesWrite(s, op, resp[a])
    <3> HIDE DEF a, s, t, op, snoop
    <3>1. PICK v \in Lines : /\ s.fsm = "IDLE" /\ t.fsm = "EVICT_WB" /\ t.req.line = v
                             /\ l # v => Follows(s, t, snoop, l)
      BY <2>4 DEF Ejects
    <3>2. latest'[l] = latest[l] /\ ~WritesBack(a, l)
      BY <1>2, <1>3, <2>4, <3>1
    <3>3. \/ StateOf(t, l) = "M"
          \/ t.fsm = "EVICT_WB" /\ t.req.line = l
          \/ StateOf(s, l) = "M" => snoop.valid /\ snoop.line = l
      BY <3>1 DEF Follows
    <3> QED BY <3>2, <3>3 DEF a, s, t, snoop
  <2> QED BY <2>1, <2>2, <2>3, <2>4
<1>5. CASE resp[a].valid
  <2>1. /\ \A m \in Lines : m # s.op.line => StateOf(t, m) = StateOf(s, m)
        /\ s.fsm = "EVICT_WB" => \A m \in Lines : StateOf(t, m) = StateOf(s, m)
        /\ s.fsm = "WAIT" /\ s.op.kind = "write" => StateOf(t, s.op.line) = "M"
    BY <1>1, <1>5, AnsweredAgent
  <2>2. /\ fsm = "COOLDOWN" /\ a = req.core /\ Waiting(s)
        /\ s.fsm = "WAIT" => s.op.line = req.line
        /\ s.fsm = "WAIT" /\ s.op.kind # "write" => ~Holds(s, req.line)
    BY <1>1, <1>5, PrivateRequester
  <2> HIDE DEF a, s, t, op, snoop
  <2>3. CASE s.fsm = "WAIT" /\ s.op.kind = "write" /\ l = s.op.line
    BY <2>1, <2>3 DEF s, t, a
  <2>4. CASE ~(s.fsm = "WAIT" /\ s.op.kind = "write" /\ l = s.op.line)
    <3>1. latest'[l] = latest[l]
      BY <1>2, <2>2, <2>4 DEF CompletesWrite, CompletedWrite, Waiting
    <3>2. StateOf(s, l) = "M" => StateOf(t, l) = "M"
      BY <2>1, <2>2, <2>4 DEF Waiting, StateOf
    <3> QED BY <2>2, <3>1, <3>2 DEF a, s, t
  <2> QED BY <2>3, <2>4
<1> QED BY <1>4, <1>5

\* The L1 that answers a snoop with dirty data is the home of the line, and its data
\* is the last value.
LEMMA DirtyAnswer ==
  ASSUME PrivateInv, DirtyAnswers # {},
         NEW k \in Lines, k = IF EvictNeeded THEN Slot.tag ELSE req.line
  PROVE  StateOf(l1[Home(k)], k) = "M" /\ DirtyAnswerData = latest[k]
<1>1. \A b \in Agents : SnoopOf(b).line = k
  BY DEF SnoopOf
<1>2. \A b \in DirtyAnswers : /\ b \in Agents /\ StateOf(l1[b], k) = "M" /\ Home(k) = b
                              /\ SnoopData(l1[b], SnoopOf(b)) = latest[k]
  <2> SUFFICES ASSUME NEW b \in DirtyAnswers
               PROVE  /\ b \in Agents /\ StateOf(l1[b], k) = "M" /\ Home(k) = b
                      /\ SnoopData(l1[b], SnoopOf(b)) = latest[k]
    OBVIOUS
  <2>1. b \in Agents /\ StateOf(l1[b], k) = "M"
    BY <1>1 DEF DirtyAnswers, SnoopDirty
  <2>2. Home(k) = b
    BY <2>1 DEF PrivateInv, HomeInv, Own
  <2>3. Holds(l1[b], k)
    BY <2>1 DEF StateOf
  <2>4. CopyLatest(b, k)
    BY <2>1, <2>2 DEF PrivateInv, HomeInv, HomeCopyLatest
  <2> QED BY <1>1, <2>1, <2>2, <2>3, <2>4 DEF CopyLatest, Read2Hit, Read2Data, SnoopData
<1>3. DirtyAnswers \in SUBSET Agents
  BY DEF DirtyAnswers
<1>4. (CHOOSE b \in DirtyAnswers : \A c \in DirtyAnswers : b =< c) \in DirtyAnswers
  BY <1>3, LeastAgent
<1> QED BY <1>2, <1>4 DEF DirtyAnswerData

\* An L1 is snooped for a line it has Modified only when L2 takes its data.
LEMMA SnoopTaken ==
  ASSUME PrivateInv, L2Step, CommitMemWrite, NEW l \in Lines,
         StateOf(l1[Home(l)], l) = "M", SnoopOf(Home(l)).valid, SnoopOf(Home(l)).line = l
  PROVE  \/ EvictPresent /\ Slot.tag = l /\ Slot'.tag = l /\ dirty'.had /\ dirty'.data = latest[l]
         \/ MemNow'[l] = latest[l]
<1> DEFINE a == Home(l)
<1>1. /\ a \in Agents /\ TypeOK /\ ReqSet \in L2Index
      /\ Slot.tag \in Lines /\ req.line \in Lines
  BY HomeType, WireTypes DEF PrivateInv, TypeOK, L2Set, L2Request
<1>2. a \in Snooped /\ a \in DirtyAnswers
  BY <1>1, StateHolds DEF DirtyAnswers, SnoopDirty, SnoopHit, StateOf, SnoopOf
<1>3. l = IF EvictNeeded THEN Slot.tag ELSE req.line
  BY DEF SnoopOf
<1>4. DirtyAnswerData = latest[l]
  BY <1>2, <1>3, DirtyAnswer DEF PrivateInv
<1>5. CASE EvictNeeded
  <2>1. Slot.presence # {} /\ Slot.tag = l
    BY <1>2, <1>3, <1>5 DEF Snooped
  <2>2. EvictPresent
    BY <1>5, <2>1 DEF L2Step, EvictNeeded, Idle, AbsorbWriteback, LookUp, EvictMemWr, MemFetch,
         MemWait, Install, SnoopOther, Respond, Cooldown
  <2>3. dirty'.had /\ dirty'.data = latest[l]
    BY <1>2, <1>4, <2>2 DEF EvictPresent
  <2>4. Slot'.tag = l
    BY <1>1, <2>1, <2>2 DEF EvictPresent, Slot, ReqSet, TypeOK, L2Set
  <2> QED BY <2>1, <2>2, <2>3, <2>4
<1>6. CASE ~EvictNeeded
  <2>1. fsm = "SNOOP_OTHER" /\ req.line = l
    BY <1>2, <1>3, <1>6 DEF Snooped
  <2>2. SnoopOther
    BY <2>1 DEF L2Step, EvictNeeded, Idle, AbsorbWriteback, LookUp, EvictPresent, EvictMemWr,
         MemFetch, MemWait, Install, Respond, Cooldown
  <2>3. WriteMem(l, latest[l])
    BY <1>2, <1>4, <2>1, <2>2 DEF SnoopOther
  <2>4. latest[l] \in LineData
    BY <1>1 DEF TypeOK
  <2> QED BY <1>1, <2>3, <2>4, MemoryEdge
<1> QED BY <1>5, <1>6

\* Memory keeps the last value of a line, whatever L2 writes.
LEMMA MemoryKeeps ==
  ASSUME PrivateInv, L2Step, CommitMemWrite, NEW l \in Lines, MemNow[l] = latest[l],
         StateOf(l1[Home(l)], l) = "M" => SnoopOf(Home(l)).valid /\ SnoopOf(Home(l)).line = l
  PROVE  MemNow'[l] = latest[l]
<1>1. /\ TypeOK /\ Home(l) \in Agents /\ req.line \in Lines /\ req.wb \in LineData
      /\ Slot.tag \in Lines /\ dirty.data \in LineData
      /\ DirtyAnswers # {} => DirtyAnswerData \in LineData
  BY HomeType, WireTypes DEF PrivateInv, TypeOK, L2Set, L2Request
<1>2. CASE NoMemWrite
  BY <1>1, <1>2, MemoryEdge
<1>3. CASE AbsorbWriteback
  <2>1. fsm = "EVICT_SNOOP" /\ req.type = "WB" /\ WriteMem(req.line, req.wb)
    BY <1>3 DEF AbsorbWriteback
  <2>2. req.wb = latest[req.line]
    BY <2>1, PrivateRequester DEF PrivateInv, HomeInv, Own
  <2> QED BY <1>1, <2>1, <2>2, MemoryEdge
<1>4. CASE EvictMemWr /\ dirty.had
  <2>1. fsm = "EVICT_MEMWR" /\ WriteMem(Slot.tag, dirty.data)
    BY <1>4 DEF EvictMemWr
  <2>2. ~SnoopOf(Home(l)).valid
    BY <2>1 DEF SnoopOf, Snooped, EvictNeeded
  <2>3. l = Slot.tag => dirty.data = latest[l]
    BY <1>4, <2>1, <2>2 DEF PrivateInv, HomeInv, Flushing
  <2> QED BY <1>1, <2>1, <2>3, MemoryEdge
<1>5. CASE SnoopOther /\ DirtyAnswers # {}
  <2>1. fsm = "SNOOP_OTHER" /\ WriteMem(req.line, DirtyAnswerData)
    BY <1>5 DEF SnoopOther
  <2>2. DirtyAnswerData = latest[req.line]
    BY <1>1, <1>5, <2>1, DirtyAnswer DEF EvictNeeded
  <2> QED BY <1>1, <1>5, <2>1, <2>2, MemoryEdge
<1>6. NoMemWrite \/ AbsorbWriteback \/ (EvictMemWr /\ dirty.had) \/ (SnoopOther /\ DirtyAnswers # {})
  BY DEF L2Step, Idle, EvictPresent, LookUp, EvictMemWr, MemFetch, MemWait, Install, SnoopOther,
     Respond, Cooldown
<1> QED BY <1>2, <1>3, <1>4, <1>5, <1>6

\* An edge keeps the last value of every line somewhere.
LEMMA SecuredStep ==
  ASSUME PrivateInv, NEW in \in PrivateInputs, L2Step, Edge(in), NEW l \in Lines
  PROVE  Secured(l)'
<1> DEFINE a == Home(l)
<1>1. CommitMemWrite
  BY DEF Edge
<1>2. CASE StateOf(l1'[a], l) = "M"
  BY <1>2 DEF Secured
<1>3. CASE latest'[l] = latest[l] /\ l1'[a].fsm = "EVICT_WB" /\ l1'[a].req.line = l
  BY <1>3 DEF Secured, WritesBack
<1>4. CASE /\ latest'[l] = latest[l]
           /\ StateOf(l1[a], l) = "M" => SnoopOf(a).valid /\ SnoopOf(a).line = l
           /\ WritesBack(a, l) => fsm = "COOLDOWN" /\ req.core = a
  <2>1. CASE StateOf(l1[a], l) = "M"
    <3>1. CASE EvictPresent /\ Slot.tag = l /\ Slot'.tag = l /\ dirty'.had /\ dirty'.data = latest[l]
      <4>1. fsm' = "EVICT_MEMWR"
        BY <3>1 DEF EvictPresent
      <4>2. FlushedByL2(l)'
        BY <1>4, <3>1, <4>1 DEF FlushedByL2
      <4> QED BY <4>2 DEF Secured
    <3>2. CASE MemNow'[l] = latest[l]
      BY <1>4, <3>2 DEF Secured
    <3> QED BY <1>1, <1>4, <2>1, <3>1, <3>2, SnoopTaken
  <2>2. CASE WritesBack(a, l)
    <3>1. fsm = "COOLDOWN" /\ req.core = a /\ req.type = "WB" /\ req.line = l
      BY <1>4, <2>2, PrivateRequester DEF WritesBack
    <3>2. MemNow[l] = latest[l]
      BY <3>1 DEF PrivateInv, HomeInv, Serving, Absorbed
    <3> QED BY <1>1, <1>4, <3>2, MemoryKeeps DEF Secured
  <2>3. CASE FlushedByL2(l) /\ StateOf(l1[a], l) # "M"
    <3>1. EvictMemWr /\ dirty.had /\ Slot.tag = l /\ dirty.data = latest[l]
      BY <2>3 DEF FlushedByL2, L2Step, EvictNeeded, Idle, AbsorbWriteback, LookUp, EvictPresent,
         EvictMemWr, MemFetch, MemWait, Install, SnoopOther, Respond, Cooldown
    <3>2. WriteMem(l, latest[l]) /\ latest[l] \in LineData
      BY <3>1 DEF EvictMemWr, PrivateInv, TypeOK
    <3>3. MemNow'[l] = latest[l]
      BY <1>1, <3>2, MemoryEdge DEF PrivateInv
    <3> QED BY <1>4, <3>3 DEF Secured
  <2>4. CASE MemNow[l] = latest[l]
    BY <1>1, <1>4, <2>4, MemoryKeeps DEF Secured
  <2> QED BY <2>1, <2>2, <2>3, <2>4 DEF PrivateInv, HomeInv, Secured
<1> QED BY <1>2, <1>3, <1>4, HomeEdge

\* The buffer of L2's eviction is filled with the last value.
LEMMA FlushingStep ==
  ASSUME PrivateInv, NEW in \in PrivateInputs, L2Step, Edge(in)
  PROVE  Flushing'
<1>1. SUFFICES ASSUME fsm' = "EVICT_MEMWR", dirty'.had
               PROVE  \/ dirty'.data = latest'[Slot'.tag]
                      \/ StateOf(l1'[Home(Slot'.tag)], Slot'.tag) = "M"
  BY DEF Flushing
<1>2. EvictPresent
  BY <1>1 DEF L2Step, Idle, AbsorbWriteback, LookUp, EvictMemWr, MemFetch, MemWait, Install,
     SnoopOther, Respond, Cooldown
<1>3. TypeOK /\ ReqSet \in L2Index /\ Slot.tag \in Lines
  BY WireTypes DEF PrivateInv, L2Set
<1>4. Slot'.tag = Slot.tag
  BY <1>2, <1>3 DEF EvictPresent, Slot, ReqSet, TypeOK, L2Set
<1>5. DirtyAnswers # {} /\ dirty'.data = DirtyAnswerData /\ EvictNeeded
  BY <1>1, <1>2 DEF EvictPresent
<1>6. dirty'.data = latest[Slot.tag]
  BY <1>3, <1>5, DirtyAnswer
<1>7. StateOf(l1'[Home(Slot.tag)], Slot.tag) = "M" \/ latest'[Slot.tag] = latest[Slot.tag]
  BY <1>3, HomeEdge
<1> QED BY <1>4, <1>6, <1>7

\* L2 answers with what its array holds, and a writeback once it is in memory.
LEMMA ServingStep ==
  ASSUME PrivateInv, NEW in \in PrivateInputs, L2Step, Edge(in)
  PROVE  Serving'
<1>1. /\ TypeOK /\ ReqSet \in L2Index /\ req.line \in Lines /\ req.wb \in LineData
      /\ req.core \in Agents /\ CommitMemWrite /\ Serving
  BY WireTypes DEF PrivateInv, HomeInv, TypeOK, L2Set, L2Request, Edge
<1>2. fsm # "IDLE" /\ fsm # "COOLDOWN" /\ req.type = "WB" => latest'[req.line] = latest[req.line]
  <2> SUFFICES ASSUME fsm # "IDLE", fsm # "COOLDOWN", req.type = "WB"
               PROVE  latest'[req.line] = latest[req.line]
    OBVIOUS
  <2>1. l1[req.core].fsm = "EVICT_WB" /\ l1[req.core].req.line = req.line
    BY PrivateRequester
  <2>2. Home(req.line) = req.core
    BY <1>1, <2>1 DEF PrivateInv, HomeInv, Own
  <2>3. ~CompletesWrite(l1[req.core], in[req.core], resp[req.core])
    BY <2>1 DEF CompletesWrite
  <2> QED BY <1>1, <2>2, <2>3, HomeHistory
<1>3. CASE AbsorbWriteback
  <2>1. /\ fsm = "EVICT_SNOOP" /\ req.type = "WB" /\ WriteMem(req.line, req.wb)
        /\ fsm' = "RESPOND" /\ req' = req
    BY <1>3 DEF AbsorbWriteback
  <2>2. req.wb = latest[req.line]
    BY <2>1, PrivateRequester DEF PrivateInv, HomeInv, Own
  <2>3. MemNow'[req.line] = latest'[req.line]
    BY <1>1, <1>2, <2>1, <2>2, MemoryEdge
  <2>4. array'[ReqSet].valid /\ array'[ReqSet].tag = req.line
    BY <1>1, <1>3 DEF AbsorbWriteback, TypeOK
  <2>5. L2Hit'
    BY <2>1, <2>4 DEF L2Hit, Slot, ReqSet
  <2> QED BY <2>1, <2>3, <2>5 DEF Serving
<1>4. CASE SnoopOther
  <2>1. /\ fsm = "SNOOP_OTHER" /\ req.type # "WB" /\ fsm' = "RESPOND" /\ req' = req
        /\ Slot.valid /\ Slot.tag = req.line
    BY <1>1, <1>4 DEF SnoopOther, Serving, PrivateInv, WriteThroughInv
  <2>2. array'[ReqSet].valid /\ array'[ReqSet].tag = req.line
    BY <1>1, <1>4, <2>1 DEF SnoopOther, TypeOK, Slot, L2Set
  <2>3. L2Hit'
    BY <2>1, <2>2 DEF L2Hit, Slot, ReqSet
  <2> QED BY <2>1, <2>3 DEF Serving
<1>5. CASE Respond
  <2>1. /\ fsm = "RESPOND" /\ fsm' = "COOLDOWN" /\ req' = req /\ array' = array /\ NoMemWrite
        /\ resp'[req.core].data = Slot.data
    BY <1>1, <1>5 DEF Respond
  <2>2. L2Hit' /\ Slot' = Slot
    BY <1>1, <2>1 DEF Serving, Absorbed, L2Hit, Slot, ReqSet
  <2>3. req.type = "WB" => MemNow'[req.line] = latest'[req.line]
    BY <1>1, <1>2, <2>1, MemoryEdge DEF Serving, Absorbed
  <2> QED BY <2>1, <2>2, <2>3 DEF Serving
<1>6. CASE Idle \/ Cooldown
  BY <1>6 DEF Idle, Cooldown, Serving, Absorbed
<1>7. CASE EvictPresent \/ LookUp \/ EvictMemWr \/ MemFetch \/ MemWait \/ Install
  <2>1. fsm' \notin {"RESPOND", "COOLDOWN"} /\ req' = req /\ req.type # "WB"
    BY <1>1, <1>7 DEF EvictPresent, EvictNeeded, LookUp, EvictMemWr, MemFetch, MemWait, Install,
       Serving
  <2> QED BY <2>1 DEF Serving, Absorbed
<1> QED BY <1>3, <1>4, <1>5, <1>6, <1>7 DEF L2Step

----------------------------------------------------------------------------
\* At reset no copy is anywhere, and memory holds the last value of every line.
LEMMA HomeInit == Init => HomeInv
<1> SUFFICES ASSUME Init PROVE HomeInv
  OBVIOUS
<1>1. \A b \in Agents : l1[b] = L1Reset
  BY DEF Init
<1>2. \A l \in Lines : ~Holds(L1Reset, l) /\ StateOf(L1Reset, l) = "I"
  BY IndexTypes DEF Holds, StateOf, L1Reset
<1>3. Steady(L1Reset)
  BY DEF Steady, L1Reset
<1>4. \A b \in Agents : Steady(l1[b]) /\ Own(b) /\ Upgrading(b)
  <2>1. L1Reset.fsm = "IDLE"
    BY DEF L1Reset
  <2> HIDE DEF Init
  <2> QED BY <1>1, <1>2, <1>3, <2>1 DEF Own, Upgrading, Waiting
<1>5. HomeCopyLatest
  BY <1>1, <1>2 DEF HomeCopyLatest, CopyLatest, Read2Hit
<1>6. \A l \in Lines : Secured(l)
  <2>1. MemNow = latest
    BY DEF Init, MemNow
  <2> QED BY <2>1 DEF Secured
<1>7. Flushing /\ Serving
  BY DEF Init, Flushing, Serving, Absorbed
<1> QED BY <1>4, <1>5, <1>6, <1>7 DEF HomeInv

\* The invariant of private CPUs.
LEMMA PrivateInvariant == PrivateSpec => []PrivateInv
<1>1. PrivateSpec => Spec
  <2>1. [PrivateNext]_vars => [Next]_vars
    BY DEF PrivateNext, Next, PrivateInputs
  <2> QED BY <2>1, PTL DEF PrivateSpec, Spec
<1>2. Init => HomeInv
  BY HomeInit
<1>3. TypeOK /\ ProtocolInv /\ WriteThroughInv /\ HomeInv /\ [PrivateNext]_vars => HomeInv'
  <2> SUFFICES ASSUME TypeOK, ProtocolInv, WriteThroughInv, HomeInv, [PrivateNext]_vars
               PROVE  HomeInv'
    OBVIOUS
  <2>1. PrivateInv
    BY DEF PrivateInv
  <2>2. CASE PrivateNext
    <3>1. PICK in \in PrivateInputs : L2Step /\ Edge(in)
      BY <2>2 DEF PrivateNext
    <3>2. \A a \in Agents : AgentInv(a)'
      BY <2>1, <3>1, AnsweredAgent, UnansweredAgent
    <3>3. HomeCopyLatest'
      BY <3>2, HomeType DEF AgentInv, HomeCopyLatest
    <3>4. \A a \in Agents : (Steady(l1[a]) /\ Own(a) /\ Upgrading(a))'
      BY <3>2 DEF AgentInv
    <3>5. \A l \in Lines : Secured(l)'
      BY <2>1, <3>1, SecuredStep
    <3>6. Flushing' /\ Serving'
      BY <2>1, <3>1, FlushingStep, ServingStep
    <3> QED BY <3>3, <3>4, <3>5, <3>6 DEF HomeInv
  <2>3. CASE UNCHANGED vars
    <3> USE <2>3 DEF vars
    <3>1. \A a \in Agents : (Steady(l1[a]) /\ Own(a) /\ Upgrading(a))'
      BY DEF HomeInv, Own, Upgrading
    <3>2. HomeCopyLatest'
      BY DEF HomeInv, HomeCopyLatest, CopyLatest
    <3>3. \A l \in Lines : Secured(l)'
      BY DEF HomeInv, Secured, WritesBack, FlushedByL2, MemNow, Slot, ReqSet
    <3>4. Flushing'
      BY DEF HomeInv, Flushing, Slot, ReqSet
    <3>5. Serving'
      BY DEF HomeInv, Serving, Absorbed, L2Hit, Slot, ReqSet, MemNow
    <3> QED BY <3>1, <3>2, <3>3, <3>4, <3>5 DEF HomeInv
  <2> QED BY <2>2, <2>3
<1> QED BY <1>1, <1>2, <1>3, TypeCorrect, ProtocolInvariant, WriteThroughInvariant, PTL DEF PrivateSpec, PrivateInv

\* What an L1 reads of a line of its own CPU is the last value that CPU stored,
\* although L2 and the prefetches of others may take its copy at any edge.
THEOREM PrivateHomeCopyLatest == PrivateSpec => []HomeCopyLatest
<1>1. PrivateInv => HomeCopyLatest
  BY DEF PrivateInv, HomeInv
<1> QED BY <1>1, PrivateInvariant, PTL

\* No store of a private CPU is lost on its way to memory.
THEOREM PrivateNothingLost == PrivateSpec => []NothingLost
<1>1. PrivateInv => NothingLost
  <2> SUFFICES ASSUME PrivateInv, NEW l \in Lines
               PROVE  \/ \E a \in Agents : StateOf(l1[a], l) = "M" /\ CopyLatest(a, l)
                      \/ WaitingWriteback(l)
                      \/ FlushedByL2(l)
                      \/ MemNow[l] = latest[l]
    BY DEF NothingLost
  <2>1. Home(l) \in Agents /\ Secured(l) /\ CopyLatest(Home(l), l) /\ Own(Home(l))
    BY HomeType DEF PrivateInv, HomeInv, HomeCopyLatest
  <2>2. CASE StateOf(l1[Home(l)], l) = "M"
    BY <2>1, <2>2
  <2>3. CASE WritesBack(Home(l), l)
    BY <2>1, <2>3 DEF Own, WritesBack, WaitingWriteback
  <2> QED BY <2>1, <2>2, <2>3 DEF Secured
<1> QED BY <1>1, PrivateInvariant, PTL

=============================================================================
