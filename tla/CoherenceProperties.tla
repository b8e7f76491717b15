------------------------ MODULE CoherenceProperties ------------------------
(***************************************************************************)
(* What the cache hierarchy of Coherence promises, and the disciplines of  *)
(* the CPUs under which it promises it.                                    *)
(***************************************************************************)
EXTENDS Coherence

(***************************************************************************)
(* Disciplines.  Nothing in dual_core_riscv64_ooo.v restrains the CPUs:    *)
(* Spec is the real environment.  The others are narrower.                 *)
(***************************************************************************)
Quiet == /\ \A a \in Agents : l1[a].fsm = "IDLE" /\ ~l1[a].prefetch_pending
         /\ fsm = "IDLE"

(* Scripted: an operation starts once every earlier one has completed (as *)
(* the tasks of tb_cache_mesi.v wait for valid/done) and every prefetch   *)
(* has drained.                                                           *)
ScriptedInputs ==
    {in \in Inputs : \/ \A a \in Agents : in[a] = NoOp
                     \/ Quiet /\ \E a \in Agents : \A b \in Agents \ {a} : in[b] = NoOp}
ScriptedNext == \E in \in ScriptedInputs : L2Step /\ Edge(in)
ScriptedSpec == Init /\ [][ScriptedNext]_vars

(* OneAtATime: as Scripted, but prefetches are not waited for; exactly    *)
(* what the tasks of tb_cache_mesi.v and tb_l2_three_way.v enforce.       *)
Prefetching(a) == /\ l1[a].is_prefetch
                  /\ \/ l1[a].fsm = "DONE_R"
                     \/ l1[a].fsm = "WAIT" /\ l1[a].op.kind = "read"
OneAtATimeInputs ==
    {in \in Inputs : \/ \A a \in Agents : in[a] = NoOp
                     \/ /\ \A a \in Agents : l1[a].fsm = "IDLE" \/ Prefetching(a)
                        /\ \E a \in Agents : \A b \in Agents \ {a} : in[b] = NoOp}
OneAtATimeNext == \E in \in OneAtATimeInputs : L2Step /\ Edge(in)
OneAtATimeSpec == Init /\ [][OneAtATimeNext]_vars

(* Private: the CPUs run freely, but a CPU names only lines of its own, as*)
(* unrelated programs do.  Prefetches still cross into the lines of others*)
Home(line) == line % NAgents
PrivateInputs == {in \in Inputs : \A a \in Agents : in[a] # NoOp => Home(in[a].line) = a}
PrivateNext == \E in \in PrivateInputs : L2Step /\ Edge(in)
PrivateSpec == Init /\ [][PrivateNext]_vars

(***************************************************************************)
(* The request protocol, whatever the CPUs do.                             *)
(***************************************************************************)
Busy(a) == l1[a].fsm \in {"EVICT_WB", "WAIT"}

(* The transaction L2 is working on is the one its requester is still     *)
(* waiting for, with the same type, line and writeback data until the     *)
(* answer, and an answer reaches only the L1 that waits for it: nothing is*)
(* served twice.  ST_COOLDOWN is there for this (l2_cache.v: "a spurious  *)
(* extra transaction replaying the just-completed one").                  *)
ServesWaitingRequest ==
    /\ \A a \in Agents : l1[a].req.valid <=> Busy(a)
    /\ fsm # "IDLE" => l1[req.core].req = [valid |-> TRUE, type |-> req.type,
                                          line |-> req.line, wb |-> req.wb]
    /\ \A a \in Agents : resp[a].valid => Busy(a) /\ a = req.core

(* While a miss is outstanding its set is Invalid, so the second port and *)
(* the snoop port see no half-installed line (l1_cache.v header); only an *)
(* upgrade leaves its copy in place.                                      *)
MissSetInvalid ==
    \A a \in Agents :
        Busy(a) /\ l1[a].req.type # "UPGR" => l1[a].state[L1IndexOf(l1[a].op.line)] = "I"

(* L2 never holds a value the memory does not have or is not about to     *)
(* have, except in the set it is replacing (l2_cache.v: write-through).   *)
Replacing(i) == /\ i = ReqSet
                /\ fsm \in {"EVICT_MEMWR", "MEM_FETCH", "MEM_WAIT", "MEM_WAIT2"}
WriteThrough ==
    \A i \in L2Index :
        array[i].valid /\ ~Replacing(i) => array[i].data = MemNow[array[i].tag]

(* Every miss, upgrade and writeback is answered: with two agents the     *)
(* fixed priority of L2 starves neither, because the winner cannot raise  *)
(* its next request before the loser has been sampled, bar the refill that*)
(* follows its own writeback.                                             *)
RequestsAnswered == \A a \in Agents : Busy(a) ~> ~Busy(a)

(***************************************************************************)
(* Coherence.                                                              *)
(***************************************************************************)
Copies(line) == {a \in Agents : Holds(l1[a], line)}
Owners(line) == {a \in Agents : StateOf(l1[a], line) \in {"M", "E"}}

(* At most one L1 may write a line, and no other copy exists beside it.   *)
SingleWriter == \A l \in Lines, a \in Agents : a \in Owners(l) => Copies(l) = {a}

(* l2_cache.v: "an L1 can only ever hold what L2 currently tracks".       *)
Inclusive ==
    \A l \in Lines, a \in Agents :
        Holds(l1[a], l) =>
            LET s == array[L2IndexOf(l)] IN s.valid /\ s.tag = l /\ a \in s.presence

(* A valid copy holds every store made so far to its line: what a load    *)
(* reads from it, on either port, is the last value stored.               *)
CopyLatest(a, line) == Read2Hit(l1[a], line) => Read2Data(l1[a], line) = latest[line]
CopiesLatest == \A a \in Agents, l \in Lines : CopyLatest(a, l)
HomeCopyLatest == \A a \in Agents, l \in Lines : Home(l) = a => CopyLatest(a, l)

(* No store is lost on its way to memory: the last value of a line is in  *)
(* a dirty copy, in a writeback that waits for L2, in the line L2 is      *)
(* flushing, or in memory.                                                *)
WaitingWriteback(line) ==
    \E a \in Agents : /\ l1[a].fsm = "EVICT_WB" /\ l1[a].req.line = line
                     /\ l1[a].req.wb = latest[line]
FlushedByL2(line) == fsm = "EVICT_MEMWR" /\ dirty.had /\ Slot.tag = line
                     /\ dirty.data = latest[line]
NothingLost ==
    \A l \in Lines :
        \/ \E a \in Agents : StateOf(l1[a], l) = "M" /\ CopyLatest(a, l)
        \/ WaitingWriteback(l)
        \/ FlushedByL2(l)
        \/ MemNow[l] = latest[l]

(***************************************************************************)
(* Claims of the comments that the unrestrained CPUs break.                *)
(***************************************************************************)
(* l1_cache.v, at the answer to an upgrade: "Already had the data (was S);*)
(* just needed the other core invalidated."  The line the upgrade merges  *)
(* its store into holds every earlier store.                              *)
UpgradeMergesLatest ==
    \A a \in Agents :
        l1[a].fsm = "WAIT" /\ l1[a].req.type = "UPGR" /\ resp[a].valid =>
            l1[a].line[L1IndexOf(l1[a].op.line)] = latest[l1[a].op.line]
=============================================================================
