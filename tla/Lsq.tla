-------------------------------- MODULE Lsq --------------------------------
(***************************************************************************)
(* The load/store queue and the store buffer of the RV64I_OOO core         *)
(* (lsq.v), with what it is wired to: the reorder buffers that allocate,   *)
(* retire and squash its entries, the CDB that takes the values of loads,  *)
(* and the CPU side of the L1 (l1_cache.v), which serves one request at a  *)
(* time and answers hits on a second port.                                 *)
(*                                                                         *)
(* One step is one clock edge.  What lsq.v does not decide is chosen at    *)
(* each edge: which operands arrive, what is dispatched, whether a branch  *)
(* resolves and how, whether the L1 finishes or hits, whether the CDB      *)
(* grants.  Memory is counted in doublewords of two halves, an access      *)
(* covers one half or both.  Each thread has doublewords of its own:       *)
(* ordering between threads is out of the scope of lsq.v.                  *)
(***************************************************************************)
EXTENDS Naturals, Sequences, FiniteSets, FiniteSetsExt, Functions

CONSTANTS
    Threads,    \* the hardware threads, a subset of {0, 1}
    Depth,      \* entries of each reorder buffer (ROB_DEPTH)
    Width,      \* instructions dispatched, and retired, in a cycle at most
    NSlots,     \* entries of the queue (parameter DEPTH of lsq.v)
    NBuffer,    \* entries of the store buffer (SBUF_DEPTH)
    NDwords,    \* doublewords of each thread
    NData,      \* values of a half
    Mix         \* the instructions that programs are made of

ASSUME LsqAssumption ==
    /\ Threads \subseteq {0, 1} /\ Threads # {}
    /\ Depth \in Nat \ {0} /\ Width \in 1 .. Depth
    /\ NSlots \in Nat \ {0} /\ NBuffer \in Nat \ {0}
    /\ NDwords \in Nat \ {0} /\ NData \in Nat \ {0}

VARIABLES
    head, count,  \* head[t], count[t]: the window of thread t's rob
    rob,          \* rob[t]: its entries
    slots,        \* the queue
    sbuf,         \* the store buffer
    out,          \* load_outstanding and the outstanding_* registers
    drain,        \* store_draining, draining_idx
    l1,           \* the request the L1 is working on
    mem,          \* mem[t]: memory as the L1 sees it
    arch,         \* history: mem[t] if every retired store had reached it
    torn          \* history: see Torn

vars == <<head, count, rob, slots, sbuf, out, drain, l1, mem, arch, torn>>

Tags   == 0 .. Depth - 1
Slots  == 0 .. NSlots - 1
Buffer == 0 .. NBuffer - 1
Dwords == 0 .. NDwords - 1
Halves == {0, 1}
Data   == 0 .. NData - 1
Covers(part) == IF part = "all" THEN Halves ELSE IF part = "hi" THEN {1} ELSE {0}

Insn(kind, d, p, v) == [kind |-> kind, dword |-> d, part |-> p, data |-> v]
Parts    == {"lo", "hi", "all"}
Branch   == Insn("branch", 0, "lo", 0)
Loads    == {Insn("load", d, p, 0) : d \in Dwords, p \in Parts}
Stores   == {Insn("store", d, p, v) : d \in Dwords, p \in Parts, v \in Data}
Insns    == {Branch} \cup Mix

ASSUME MixAssumption == Mix \subseteq {Branch} \cup Loads \cup Stores

Plus(t, n)      == IF t + n < Depth THEN t + n ELSE t + n - Depth
Age(t, tag)     == IF tag >= head[t] THEN tag - head[t] ELSE tag + Depth - head[t]
InFlight(t, tag) == Age(t, tag) < count[t]

Written(m, i)  == [m EXCEPT ![i.dword] = [b \in Halves |-> IF b \in Covers(i.part) THEN i.data
                                                           ELSE @[b]]]
ReadOf(m, i)   == [b \in Halves |-> IF b \in Covers(i.part) THEN m[i.dword][b] ELSE 0]

(***************************************************************************)
(* Disambiguation and the two load paths.                                  *)
(***************************************************************************)
Resident(kind) == {i \in Slots : slots[i].busy /\ slots[i].insn.kind = kind}

\* Mutant of Blocked: a store of unknown address lets loads pass.
BlockedByKnown(i) ==
    LET l == slots[i] IN
    \/ \E s \in Resident("store") :
          /\ slots[s].tid = l.tid
          /\ Age(l.tid, slots[s].tag) < Age(l.tid, l.tag)
          /\ slots[s].base /\ slots[s].insn.dword = l.insn.dword
    \/ \E b \in Buffer : /\ sbuf[b].valid /\ sbuf[b].tid = l.tid
                         /\ sbuf[b].insn.dword = l.insn.dword

\* A load waits for older stores of its thread whose address is unknown or in
\* its doubleword, and for buffered stores to its doubleword.
Blocked(i) ==
    LET l == slots[i] IN
    \/ \E s \in Resident("store") :
          /\ slots[s].tid = l.tid
          /\ Age(l.tid, slots[s].tag) < Age(l.tid, l.tag)
          /\ ~slots[s].base \/ slots[s].insn.dword = l.insn.dword
    \/ \E b \in Buffer : /\ sbuf[b].valid /\ sbuf[b].tid = l.tid
                         /\ sbuf[b].insn.dword = l.insn.dword

Candidates == {i \in Resident("load") : slots[i].base /\ ~Blocked(i)}

\* The primary port takes the candidate in the lowest slot, before any drain.
IssueLoad == l1.fsm = "IDLE" /\ ~out.valid /\ Candidates # {}
Issued    == Min(Candidates)

OutstandingSlot == IF out.valid THEN {out.idx} ELSE {}

\* While it is occupied, another candidate may hit on the second port.
Second    == Candidates \ OutstandingSlot
Port2Req  == (l1.fsm # "IDLE" \/ out.valid \/ drain.valid) /\ Second # {}
Probed    == Min(Second)

\* The store buffer drains its lowest entry when no load wants the port.
Buffered   == {b \in Buffer : sbuf[b].valid}
DrainStore == l1.fsm = "IDLE" /\ ~out.valid /\ ~IssueLoad /\ ~drain.valid /\ Buffered # {}
Draining   == Min(Buffered)

\* The answer to the outstanding load, and whether it is still wanted.
Answered    == out.valid /\ l1.fsm = "DONE_R"
PrimaryFire == Answered /\ ~out.squashed

\* What reaches the CDB, at most one value; the answer goes first.
Broadcast(hit, grant) ==
    IF ~grant THEN {}
    ELSE IF PrimaryFire
    THEN {[tid |-> out.tid, tag |-> out.tag, value |-> ReadOf(mem[l1.tid], l1.insn)]}
    ELSE IF Port2Req /\ hit
    THEN LET p == slots[Probed]
         IN  {[tid |-> p.tid, tag |-> p.tag, value |-> ReadOf(mem[p.tid], p.insn)]}
    ELSE {}

(***************************************************************************)
(* Retirement: the finished entries at the head, at most one store in all, *)
(* which needs room in the buffer or an entry of its footprint to merge    *)
(* with, thread 0 first.                                                   *)
(***************************************************************************)
StoreReady == {i \in Resident("store") : slots[i].base /\ slots[i].data}
SlotOf(t, tag) == {i \in Resident("store") : slots[i].tid = t /\ slots[i].tag = tag}

\* Mutant of Mergeable: the entry that drains may be merged into.
MergeableDraining(t, i) ==
    {b \in Buffered : /\ sbuf[b].tid = t
                      /\ sbuf[b].insn.dword = i.dword /\ sbuf[b].insn.part = i.part}

Mergeable(t, i) ==
    {b \in Buffered : /\ ~(drain.valid /\ drain.idx = b)
                      /\ sbuf[b].tid = t
                      /\ sbuf[b].insn.dword = i.dword /\ sbuf[b].insn.part = i.part}

At(t, k) == rob[t][Plus(head[t], k)]
Retirable(t, n, ok) ==
    /\ n <= count[t]
    /\ \A k \in 0 .. n - 1 :
         /\ At(t, k).done
         /\ At(t, k).insn.kind = "store" =>
              ok /\ \A j \in 0 .. k - 1 : At(t, j).insn.kind # "store"
RetireCount(t, ok) == Max({n \in 0 .. Width : Retirable(t, n, ok)})
Retiring(t, n) == {Plus(head[t], k) : k \in 0 .. n - 1}
StoresIn(t, n) == {tag \in Retiring(t, n) : rob[t][tag].insn.kind = "store"}

\* Whether thread t gets its store through.  store_buffer_full depends on the
\* merge candidate, which depends on the commit it gates: with a full buffer
\* and an entry to merge with, both values of that loop are stable.
StoreOK(t) ==
    LET s == StoresIn(t, RetireCount(t, TRUE)) IN
    IF s = {} \/ Buffered # Buffer THEN {TRUE}
    ELSE IF \E tag \in s : Mergeable(t, rob[t][tag].insn) # {} THEN BOOLEAN
    ELSE {FALSE}
Retires ==
    {n \in [Threads -> 0 .. Width] :
        /\ \A t \in Threads : \E ok \in BOOLEAN :
             /\ n[t] = RetireCount(t, ok)
             /\ ok \in IF t = 1 /\ 0 \in Threads /\ StoresIn(0, n[0]) # {} THEN {FALSE}
                       ELSE StoreOK(t)}

\* The store pushed at this edge, if any: its thread and tag.
Pushed(n) == {p \in Threads \X Tags : p[2] \in StoresIn(p[1], n[p[1]])}

(***************************************************************************)
(* Branches: each thread has at most one unresolved; a wrong one squashes  *)
(* what is younger.  br[t] is what happens to it at this edge.             *)
(***************************************************************************)
Unresolved(t) == {tag \in Tags : /\ InFlight(t, tag) /\ ~rob[t][tag].done
                                 /\ rob[t][tag].insn.kind = "branch"}
Resolutions == {br \in [Threads -> {"wait", "right", "wrong"}] :
                    \A t \in Threads : Unresolved(t) = {} => br[t] = "wait"}

Younger(br, t, tag) == br[t] = "wrong" /\ \E b \in Unresolved(t) : Age(t, tag) > Age(t, b)
Squashed(br) == {i \in Slots : slots[i].busy /\ Younger(br, slots[i].tid, slots[i].tag)}

(***************************************************************************)
(* Dispatch of the group g of thread t: memory instructions take the free  *)
(* slots from the lowest; a branch goes in lane 0 when none is unresolved. *)
(***************************************************************************)
Free == {i \in Slots : ~slots[i].busy}
IsMem(i) == i.kind \in {"load", "store"}
MemLanes(g) == {k \in DOMAIN g : IsMem(g[k])}
SlotFor(g, k) == CHOOSE i \in Free : Cardinality({f \in Free : f < i})
                                   = Cardinality({j \in MemLanes(g) : j < k})
LaneTag(t, k) == Plus(Plus(head[t], count[t]), k - 1)

Groups == {g \in UNION {[1 .. n -> Mix] : n \in 1 .. Width} :
             \A k \in 2 .. Len(g) : g[k].kind # "branch"}
\* Mutant of Accepts: one entry more than the reorder buffer has.
AcceptsOneMore(t, g) ==
    /\ count[t] + Len(g) <= Depth + 1
    /\ Cardinality(MemLanes(g)) <= Cardinality(Free)
    /\ g[1].kind = "branch" => Unresolved(t) = {}

Accepts(t, g) ==
    /\ count[t] + Len(g) <= Depth
    /\ Cardinality(MemLanes(g)) <= Cardinality(Free)
    /\ g[1].kind = "branch" => Unresolved(t) = {}

\* One thread dispatches, or none; not one that is being rolled back.
Dispatches(br) ==
    {[tid |-> CHOOSE t \in Threads : TRUE, group |-> <<>>, known |-> FALSE]} \cup
    {d \in [tid : Threads, group : Groups, known : BOOLEAN] :
        br[d.tid] # "wrong" /\ Accepts(d.tid, d.group)}

\* The lane of d that takes reorder-buffer entry tag of thread t.
LanesAt(d, t, tag) == IF t # d.tid THEN {}
                      ELSE {k \in DOMAIN d.group : LaneTag(t, k) = tag}

(***************************************************************************)
(* The registers after the edge.                                           *)
(***************************************************************************)
\* The operands that may arrive; k is those that do.
Pending == {<<i, "base">> : i \in {j \in Slots : slots[j].busy /\ ~slots[j].base}} \cup
           {<<i, "data">> : i \in {j \in Slots : slots[j].busy /\ ~slots[j].data}}

PushedSlots(n) == UNION {SlotOf(p[1], p[2]) : p \in Pushed(n)}

\* Mutant of Vacated: a squash frees the slot of the load that is out as well.
VacatedOutstanding(n, br, hit, grant) ==
    (IF Answered THEN {out.idx} ELSE {})
    \cup (IF grant /\ ~PrimaryFire /\ Port2Req /\ hit THEN {Probed} ELSE {})
    \cup PushedSlots(n) \cup Squashed(br)

\* Slots freed: by the answer of the outstanding load, granted or not; by a
\* granted hit; by a commit; by a squash, unless its load is outstanding.
Vacated(n, br, hit, grant) ==
    (IF Answered THEN {out.idx} ELSE {})
    \cup (IF grant /\ ~PrimaryFire /\ Port2Req /\ hit THEN {Probed} ELSE {})
    \cup PushedSlots(n)
    \cup (Squashed(br) \ OutstandingSlot)

Empty == [busy |-> FALSE, tid |-> 0, tag |-> 0, base |-> FALSE, data |-> FALSE, insn |-> Branch]
Filled(d, k) == [busy |-> TRUE, tid |-> d.tid, tag |-> LaneTag(d.tid, k), base |-> d.known,
                 data |-> d.known \/ d.group[k].kind = "load", insn |-> d.group[k]]
SlotsNext(n, br, hit, grant, d) ==
    LET gone == Vacated(n, br, hit, grant)
        into == [l \in MemLanes(d.group) |-> SlotFor(d.group, l)]
    IN
    \E k \in SUBSET {p \in Pending : p[1] \notin gone} :
    slots' = [i \in Slots |->
                IF i \in gone THEN Empty
                ELSE IF i \in Range(into)
                THEN Filled(d, CHOOSE l \in DOMAIN into : into[l] = i)
                ELSE [slots[i] EXCEPT !.base = @ \/ <<i, "base">> \in k,
                                      !.data = @ \/ <<i, "data">> \in k]]

\* A squash marks the load that is out already, not one that goes out now.
OutNext(br) ==
    out' = IF IssueLoad
           THEN [valid |-> TRUE, squashed |-> FALSE, idx |-> Issued,
                 tid |-> slots[Issued].tid, tag |-> slots[Issued].tag]
           ELSE [out EXCEPT !.valid = @ /\ ~Answered,
                            !.squashed = @ \/ (out.valid /\ Younger(br, out.tid, out.tag))]

\* The entry of the store buffer that takes a pushed store.
Target(t, i) == IF Mergeable(t, i) # {} THEN Max(Mergeable(t, i))
                ELSE Min(Buffer \ Buffered)
Goes(n) == {p \in Pushed(n) : SlotOf(p[1], p[2]) # {}}
Pushes(n, b) == {p \in Goes(n) : Target(p[1], rob[p[1]][p[2]].insn) = b}
SbufNext(n) ==
    sbuf' = [b \in Buffer |->
               IF drain.valid /\ l1.fsm = "DONE_W" /\ b = drain.idx
               THEN [sbuf[b] EXCEPT !.valid = FALSE]
               ELSE IF Pushes(n, b) # {}
               THEN LET p == CHOOSE p \in Pushes(n, b) : TRUE
                    IN  [valid |-> TRUE, tid |-> p[1], insn |-> rob[p[1]][p[2]].insn]
               ELSE sbuf[b]]
DrainNext ==
    drain' = IF DrainStore THEN [valid |-> TRUE, idx |-> Draining]
             ELSE [drain EXCEPT !.valid = @ /\ l1.fsm # "DONE_W"]

\* What the environment may answer, where it is asked.
Asked(p) == IF p THEN BOOLEAN ELSE {FALSE}

\* The L1 serves a request at once or after any time, or fetches ahead; it
\* says for one edge that it is done.
L1Step == {<<"IDLE", "IDLE">>, <<"IDLE", "OTHER">>, <<"OTHER", "OTHER">>, <<"OTHER", "IDLE">>,
           <<"READ", "READ">>, <<"READ", "DONE_R">>, <<"DONE_R", "IDLE">>,
           <<"WRITE", "WRITE">>, <<"WRITE", "DONE_W">>, <<"DONE_W", "IDLE">>}
L1Request ==
    IF IssueLoad THEN [fsm |-> "READ", tid |-> slots[Issued].tid, insn |-> slots[Issued].insn]
    ELSE IF DrainStore
    THEN [fsm |-> "WRITE", tid |-> sbuf[Draining].tid, insn |-> sbuf[Draining].insn]
    ELSE l1
L1Next ==
    \E step \in L1Step :
    LET r == L1Request IN
    /\ step[1] = r.fsm
    /\ l1' = [r EXCEPT !.fsm = step[2]]
    /\ mem' = IF step[2] = "DONE_W" THEN [mem EXCEPT ![r.tid] = Written(@, r.insn)] ELSE mem

RobNext(br, hit, grant, d) ==
    LET results == Broadcast(hit, grant)
        stores  == {<<slots[i].tid, slots[i].tag>> : i \in StoreReady}
    IN
    rob' = [t \in Threads |-> [tag \in Tags |->
        LET new == LanesAt(d, t, tag)
            res == {r \in results : r.tid = t /\ r.tag = tag}
        IN  [insn  |-> IF new # {} THEN d.group[Max(new)] ELSE rob[t][tag].insn,
             done  |-> \/ res # {}
                       \/ <<t, tag>> \in stores
                       \/ br[t] # "wait" /\ tag \in Unresolved(t)
                       \/ rob[t][tag].done /\ new = {},
             value |-> IF res # {} THEN (CHOOSE r \in res : TRUE).value
                       ELSE rob[t][tag].value]]]

WindowNext(n, br, d) ==
    /\ head' = [t \in Threads |-> Plus(head[t], n[t])]
    /\ count' = [t \in Threads |->
                   IF br[t] = "wrong" THEN Age(t, CHOOSE b \in Unresolved(t) : TRUE) + 1 - n[t]
                   ELSE count[t] + (IF t = d.tid THEN Len(d.group) ELSE 0) - n[t]]
    /\ arch' = [t \in Threads |->
                  IF StoresIn(t, n[t]) = {} THEN arch[t]
                  ELSE Written(arch[t], rob[t][CHOOSE s \in StoresIn(t, n[t]) : TRUE].insn)]

(***************************************************************************)
(* Three collisions at one edge that lsq.v gets wrong: a store merges into *)
(* the entry that goes out to the L1; a load goes out as it is squashed;   *)
(* the answer to a wanted load finds no free CDB.                          *)
(***************************************************************************)
Torn(n, br, grant) ==
    \/ DrainStore /\ Pushes(n, Draining) # {}
    \/ IssueLoad /\ Issued \in Squashed(br)
    \/ PrimaryFire /\ ~grant

-----------------------------------------------------------------------------
Zero == [d \in Dwords |-> [b \in Halves |-> 0]]

Init ==
    /\ head = [t \in Threads |-> 0] /\ count = [t \in Threads |-> 0]
    /\ rob = [t \in Threads |-> [tag \in Tags |->
                [insn |-> Branch, done |-> FALSE, value |-> [b \in Halves |-> 0]]]]
    /\ slots = [i \in Slots |-> Empty]
    /\ sbuf = [b \in Buffer |-> [valid |-> FALSE, tid |-> 0, insn |-> Branch]]
    /\ out = [valid |-> FALSE, squashed |-> FALSE, idx |-> 0, tid |-> 0, tag |-> 0]
    /\ drain = [valid |-> FALSE, idx |-> 0]
    /\ l1 = [fsm |-> "IDLE", tid |-> 0, insn |-> Branch]
    /\ mem = [t \in Threads |-> Zero] /\ arch = mem /\ torn = FALSE

Next ==
    \E n \in Retires, br \in Resolutions :
      /\ OutNext(br) /\ SbufNext(n) /\ DrainNext
      /\ \E d \in Dispatches(br) :
           /\ WindowNext(n, br, d)
           /\ \E hit \in Asked(Port2Req) : \E grant \in Asked(PrimaryFire \/ hit) :
                /\ torn' = (torn \/ Torn(n, br, grant))
                /\ RobNext(br, hit, grant, d)
                /\ SlotsNext(n, br, hit, grant, d)
      /\ L1Next

Spec == Init /\ [][Next]_vars
=============================================================================
