--------------------------- MODULE LsqProperties ---------------------------
(***************************************************************************)
(* What the load/store queue promises to the thread whose memory it is.    *)
(***************************************************************************)
EXTENDS Lsq

Entry == [insn : Insns, done : BOOLEAN, value : [Halves -> Data]]

TypeOK ==
    /\ head \in [Threads -> Tags] /\ count \in [Threads -> 0 .. Depth]
    /\ rob \in [Threads -> [Tags -> Entry]]
    /\ slots \in [Slots -> [busy : BOOLEAN, tid : {0, 1}, tag : Tags, base : BOOLEAN,
                            data : BOOLEAN, insn : Insns]]
    /\ sbuf \in [Buffer -> [valid : BOOLEAN, tid : {0, 1}, insn : Insns]]
    /\ out \in [valid : BOOLEAN, squashed : BOOLEAN, idx : Slots, tid : {0, 1}, tag : Tags]
    /\ drain \in [valid : BOOLEAN, idx : Buffer]
    /\ l1 \in [fsm : {"IDLE", "READ", "WRITE", "OTHER", "DONE_R", "DONE_W"},
               tid : {0, 1}, insn : Insns]
    /\ mem \in [Threads -> [Dwords -> [Halves -> Data]]]
    /\ arch \in [Threads -> [Dwords -> [Halves -> Data]]] /\ torn \in BOOLEAN

(***************************************************************************)
(* The queue and the windows of the threads agree: a slot holds the        *)
(* instruction its tag names, each unfinished memory instruction in flight *)
(* has one slot and a store keeps it until it retires.  The only other     *)
(* slot is that of a squashed load whose answer is still out, which is     *)
(* marked: it is "silently discarded, never broadcast onto a tag that may  *)
(* since have been reused" (lsq.v:540-545).                                *)
(***************************************************************************)
Names(i, t, tag) == slots[i].busy /\ slots[i].tid = t /\ slots[i].tag = tag
Discarded(i) == out.valid /\ out.squashed /\ out.idx = i

SlotsAgree ==
    /\ \A i \in Slots : slots[i].busy /\ ~Discarded(i) =>
          /\ InFlight(slots[i].tid, slots[i].tag)
          /\ slots[i].insn = rob[slots[i].tid][slots[i].tag].insn
    /\ \A t \in Threads, tag \in Tags :
          LET e == rob[t][tag]
              held == {i \in Slots : Names(i, t, tag) /\ ~Discarded(i)}
          IN  InFlight(t, tag) =>
                /\ Cardinality(held) <= 1
                /\ e.insn.kind = "store" \/ (e.insn.kind = "load" /\ ~e.done) => held # {}
    /\ out.valid => slots[out.idx].busy /\ (out.squashed \/ Names(out.idx, out.tid, out.tag))

\* The same, until one of the collisions of Torn.
SlotsMatchWindow == torn \/ SlotsAgree

\* In-flight stores of thread t older than tag that write half b of dword d.
OlderStores(t, tag, d, b) ==
    {s \in Tags : /\ InFlight(t, s) /\ Age(t, s) < Age(t, tag)
                  /\ rob[t][s].insn.kind = "store" /\ rob[t][s].insn.dword = d
                  /\ b \in Covers(rob[t][s].insn.part)}

\* What program order makes of half b of dword d before instruction tag.
Before(t, tag, d, b) ==
    LET S == OlderStores(t, tag, d, b) IN
    IF S = {} THEN arch[t][d][b]
    ELSE rob[t][CHOOSE s \in S : \A u \in S : Age(t, u) <= Age(t, s)].insn.data

\* A load returns what the stores before it in program order leave, although
\* it runs ahead of other loads and of stores elsewhere (lsq.v:400-434).
LoadsSeeProgramOrder ==
    torn \/ \A t \in Threads, tag \in Tags :
        LET e == rob[t][tag] IN
        InFlight(t, tag) /\ e.insn.kind = "load" /\ e.done =>
            \A b \in Covers(e.insn.part) : e.value[b] = Before(t, tag, e.insn.dword, b)

\* A retired store is never lost and never overtaken by an older one: a half
\* that no buffered store covers has the last value stored to it, and a half
\* that one covers has it in the buffer.  "every entry is already
\* unconditionally safe to drain in any order" (lsq.v:515-521).
Buffering(t, d, b) == {x \in Buffered : /\ sbuf[x].tid = t /\ sbuf[x].insn.dword = d
                                        /\ b \in Covers(sbuf[x].insn.part)}
StoresSettle ==
    \A t \in Threads, d \in Dwords, b \in Halves :
        LET X == Buffering(t, d, b) IN
        /\ X = {} => mem[t][d][b] = arch[t][d][b]
        /\ \A x \in X : X = {x} => sbuf[x].insn.data = arch[t][d][b]

\* The same, until one of the collisions of Torn.
StoresSettleInOrder == torn \/ StoresSettle
=============================================================================
