--------------------------- MODULE LsqMemoryProofs ---------------------------
(***************************************************************************)
(* For every number of threads, entries, slots and doublewords: retired    *)
(* stores reach memory in order and loads return what the stores before    *)
(* them leave, if no two stores of the program overlap in part.            *)
(***************************************************************************)
EXTENDS LsqProofs

\* Stores that write a half in common write the same halves.  Without this
\* the buffer reorders them (run lsq_width).
Overlap(i, j) == i.dword = j.dword /\ Covers(i.part) \cap Covers(j.part) # {}
StoresNest == \A i, j \in Mix : i.kind = "store" /\ j.kind = "store" /\ Overlap(i, j) => i.part = j.part

(***************************************************************************)
(* The invariant.  The buffer holds stores, the draining one is at the L1, *)
(* and of the others no two of a thread overlap; so at most two entries    *)
(* cover a half, and the one that does not drain is the later.             *)
(***************************************************************************)
InDrain(x) == drain.valid /\ drain.idx = x

HoldsStores == \A x \in Buffered : sbuf[x].insn \in Mix /\ sbuf[x].insn.kind = "store"
DrainAtL1 == drain.valid => /\ drain.idx \in Buffered
                            /\ l1.tid = sbuf[drain.idx].tid /\ l1.insn = sbuf[drain.idx].insn
NoOverlap == \A x, y \in Buffered :
               /\ sbuf[x].tid = sbuf[y].tid /\ Overlap(sbuf[x].insn, sbuf[y].insn)
               /\ ~InDrain(x) /\ ~InDrain(y)
               => x = y
BufferOK == HoldsStores /\ DrainAtL1 /\ NoOverlap

\* What the buffer and memory hold of half b of doubleword d of thread t.
SettledAt(t, d, b) ==
    LET X == Buffering(t, d, b) IN
    /\ X = {} => mem[t][d][b] = arch[t][d][b]
    /\ \A x \in X : ~InDrain(x) => sbuf[x].insn.data = arch[t][d][b]
    /\ \A x \in X : (\A y \in X : InDrain(y)) => sbuf[x].insn.data = arch[t][d][b]
    /\ l1.fsm = "DONE_W" => \A x \in X : InDrain(x) => mem[t][d][b] = sbuf[x].insn.data
AllSettled == \A t \in Threads, d \in Dwords, b \in Halves : SettledAt(t, d, b)

\* Between memory and a load that is out, or finished and in flight, no
\* store of its thread stands.
Clear(t, tag, d) ==
    \A s \in Tags : InFlight(t, s) /\ Age(t, s) < Age(t, tag) /\ rob[t][s].insn.kind = "store" =>
                      rob[t][s].insn.dword # d
Unbuffered(t, d) == \A x \in Buffered : ~(sbuf[x].tid = t /\ sbuf[x].insn.dword = d)

OutClear == \A t \in Threads, tag \in Tags, w \in Dwords :
              /\ out.valid /\ ~out.squashed /\ out.tid = t /\ out.tag = tag
              /\ slots[out.idx].insn.dword = w
              => /\ l1.tid = t /\ l1.insn = slots[out.idx].insn
                 /\ Clear(t, tag, w) /\ Unbuffered(t, w)
LoadsDone == \A t \in Threads, tag \in Tags, w \in Dwords :
               /\ InFlight(t, tag) /\ rob[t][tag].insn.kind = "load" /\ rob[t][tag].done
               /\ rob[t][tag].insn.dword = w
               => /\ Clear(t, tag, w)
                  /\ \A b \in Covers(rob[t][tag].insn.part) : rob[t][tag].value[b] = arch[t][w][b]

MemoryHolds == BufferOK /\ AllSettled /\ OutClear /\ LoadsDone

MInv == SInv /\ (torn \/ MemoryHolds)

(***************************************************************************)
(* The store that retires.                                                 *)
(***************************************************************************)

\* A store in flight has a slot, which SlotOf finds.
LEMMA StoreHasSlot ==
  ASSUME PInv, SlotsHold, NEW t \in Threads, NEW tag \in Tags, InFlight(t, tag),
         rob[t][tag].insn.kind = "store"
  PROVE  \E i \in Resident("store") : /\ slots[i].tid = t /\ slots[i].tag = tag
                                      /\ slots[i].insn = rob[t][tag].insn
<1>1. PICK i \in Slots : Held(i, t, tag)
  BY DEF SlotsHold, HeldOnce
<1>2. slots[i].busy /\ slots[i].tid = t /\ slots[i].tag = tag /\ ~Discarded(i)
  BY <1>1 DEF Held, Names
<1>3. slots[i].insn = rob[t][tag].insn
  BY <1>2 DEF SlotsHold, SlotsNamed
<1>4. i \in Resident("store")
  BY <1>2, <1>3 DEF Resident
<1> QED BY <1>2, <1>3, <1>4

\* At most one store retires, of all threads, and it finds an entry to merge
\* with or a free one.
LEMMA OneStore ==
  ASSUME PInv, NEW n \in Retires, NEW t \in Threads, NEW tag \in StoresIn(t, n[t])
  PROVE  /\ \A u \in Threads : StoresIn(u, n[u]) # {} => u = t
         /\ \A s \in StoresIn(t, n[t]) : s = tag
         /\ Mergeable(t, rob[t][tag].insn) # {} \/ Buffered # Buffer
         /\ tag \in Tags /\ InFlight(t, tag) /\ Age(t, tag) < n[t]
         /\ rob[t][tag].insn \in Mix /\ rob[t][tag].insn.kind = "store"
<1>1. TypeOK
  BY DEF PInv
<1>2. ASSUME NEW u \in Threads, StoresIn(u, n[u]) # {}, NEW ok \in BOOLEAN, n[u] = RetireCount(u, ok)
      PROVE  ok = TRUE
  <2>1. n[u] \in 0 .. Width /\ Retirable(u, n[u], ok)
    BY <1>1, <1>2, RetireCountIs DEF TypeOK
  <2>2. PICK k \in 0 .. n[u] - 1 : At(u, k).insn.kind = "store"
    BY <1>2 DEF StoresIn, Retiring, At
  <2> QED BY <2>1, <2>2 DEF Retirable
<1>3. ASSUME NEW u \in Threads, StoresIn(u, n[u]) # {}
      PROVE  /\ n[u] = RetireCount(u, TRUE)
             /\ TRUE \in IF u = 1 /\ 0 \in Threads /\ StoresIn(0, n[0]) # {} THEN {FALSE} ELSE StoreOK(u)
  <2>1. PICK ok \in BOOLEAN :
          /\ n[u] = RetireCount(u, ok)
          /\ ok \in IF u = 1 /\ 0 \in Threads /\ StoresIn(0, n[0]) # {} THEN {FALSE} ELSE StoreOK(u)
    BY DEF Retires
  <2>2. ok = TRUE
    BY <1>2, <1>3, <2>1
  <2> QED BY <2>1, <2>2
<1>4. \A u \in Threads : StoresIn(u, n[u]) # {} =>
        /\ n[u] = RetireCount(u, TRUE) /\ TRUE \in StoreOK(u)
        /\ ~(u = 1 /\ 0 \in Threads /\ StoresIn(0, n[0]) # {})
  BY <1>3
<1>5. \A u \in Threads : StoresIn(u, n[u]) # {} => u = t
  <2> SUFFICES ASSUME NEW u \in Threads, StoresIn(u, n[u]) # {}, u # t PROVE FALSE
    OBVIOUS
  <2>1. StoresIn(t, n[t]) # {}
    OBVIOUS
  <2>2. (u = 0 /\ t = 1) \/ (u = 1 /\ t = 0)
    BY LsqAssumption
  <2>3. CASE u = 0 /\ t = 1
    BY <1>4, <2>3
  <2>4. CASE u = 1 /\ t = 0
    BY <1>4, <2>1, <2>4
  <2> QED BY <2>2, <2>3, <2>4
<1>6. \A s \in StoresIn(t, n[t]) : s = tag
  BY <1>1, RetiringIs
<1>7. Mergeable(t, rob[t][tag].insn) # {} \/ Buffered # Buffer
  <2>1. TRUE \in StoreOK(t) /\ StoresIn(t, RetireCount(t, TRUE)) = StoresIn(t, n[t])
    BY <1>4
  <2>2. \/ Buffered # Buffer
        \/ \E s \in StoresIn(t, n[t]) : Mergeable(t, rob[t][s].insn) # {}
    BY <2>1 DEF StoreOK
  <2> QED BY <1>6, <2>2
<1>8. tag \in Tags /\ InFlight(t, tag) /\ Age(t, tag) < n[t] /\ rob[t][tag].insn.kind = "store"
  <2>1. tag \in Retiring(t, n[t]) /\ rob[t][tag].insn.kind = "store"
    BY DEF StoresIn
  <2> QED BY <1>1, <2>1, RetiringIs
<1>9. rob[t][tag].insn \in Mix
  <2>1. rob[t][tag].insn \in Insns
    BY <1>1, <1>8 DEF TypeOK, Entry
  <2> QED BY <1>8, <2>1, InsnIs
<1> QED BY <1>5, <1>6, <1>7, <1>8, <1>9

\* The entry that takes it.
LEMMA TargetIs ==
  ASSUME PInv, SlotsHold, NEW n \in Retires, NEW t \in Threads, NEW tag \in StoresIn(t, n[t])
  PROVE  \E x \in Buffer :
           /\ x \in Mergeable(t, rob[t][tag].insn) \/ (x \notin Buffered /\ Mergeable(t, rob[t][tag].insn) = {})
           /\ \A y \in Buffer : Pushes(n, y) # {} <=> y = x
           /\ \A p \in Pushes(n, x) : p[1] = t /\ p[2] = tag
<1> DEFINE i == rob[t][tag].insn
           x == Target(t, i)
<1>1. /\ \A u \in Threads : StoresIn(u, n[u]) # {} => u = t
      /\ \A s \in StoresIn(t, n[t]) : s = tag
      /\ Mergeable(t, i) # {} \/ Buffered # Buffer
      /\ tag \in Tags /\ InFlight(t, tag) /\ i.kind = "store"
  BY OneStore
<1>2. x \in Buffer /\ (x \in Mergeable(t, i) \/ (x \notin Buffered /\ Mergeable(t, i) = {}))
  <2>1. Buffered \subseteq Buffer /\ Mergeable(t, i) \subseteq Buffered
    BY DEF Buffered, Mergeable
  <2>2. CASE Mergeable(t, i) # {}
    <3>1. NBuffer \in Nat /\ Mergeable(t, i) \in SUBSET (0 .. NBuffer)
      <4>1. NBuffer \in Nat /\ \A y \in Buffer : y \in 0 .. NBuffer
        BY LsqAssumption DEF Buffer
      <4> QED BY <2>1, <4>1, Zenon
    <3>2. x \in Mergeable(t, i)
      BY <2>2, <3>1, MaxIs DEF Target
    <3> QED BY <2>1, <3>2
  <2>3. CASE Mergeable(t, i) = {}
    <3>1. Buffer \ Buffered # {} /\ Buffer \ Buffered \in SUBSET Nat
      <4>1. \A y \in Buffer : y \in Nat
        BY DEF Buffer
      <4>2. Buffered # Buffer
        BY <1>1, <2>3
      <4> QED BY <2>1, <4>1, <4>2, Zenon
    <3>2. x \in Buffer \ Buffered
      BY <2>3, <3>1, MinIs DEF Target
    <3> QED BY <2>3, <3>2
  <2> QED BY <2>2, <2>3
<1>3. \A p \in Goes(n) : p[1] = t /\ p[2] = tag
  BY <1>1 DEF Goes, Pushed
<1>4. \E p \in Goes(n) : p[1] = t /\ p[2] = tag
  <2>1. <<t, tag>> \in Threads \X Tags /\ <<t, tag>>[1] = t /\ <<t, tag>>[2] = tag
    BY <1>1
  <2>2. PICK p \in Threads \X Tags : p[1] = t /\ p[2] = tag
    BY <2>1
  <2>3. p \in Pushed(n)
    BY <2>2 DEF Pushed
  <2>4. SlotOf(t, tag) # {}
    BY <1>1, StoreHasSlot DEF SlotOf
  <2> QED BY <2>2, <2>3, <2>4 DEF Goes
<1> HIDE DEF x
<1>5. \A y \in Buffer : Pushes(n, y) # {} <=> y = x
  <2>1. \A p \in Goes(n) : Target(p[1], rob[p[1]][p[2]].insn) = x
    BY <1>3 DEF x
  <2> QED BY <1>4, <2>1 DEF Pushes
<1>6. \A p \in Pushes(n, x) : p[1] = t /\ p[2] = tag
  BY <1>3 DEF Pushes
<1> QED BY <1>2, <1>5, <1>6

\* What a push puts into an entry: the store that retires, over one of its
\* footprint that does not drain, or into a free entry.
LEMMA PushedTo ==
  ASSUME PInv, SlotsHold, BufferOK, NEW n \in Retires, SbufNext(n),
         NEW y \in Buffer, Pushes(n, y) # {}
  PROVE  /\ ~InDrain(y) /\ ~Freed(y)
         /\ \E t \in Threads : \E tag \in StoresIn(t, n[t]) :
              /\ sbuf'[y].valid /\ sbuf'[y].tid = t /\ sbuf'[y].insn = rob[t][tag].insn
              /\ \/ y \in Mergeable(t, rob[t][tag].insn)
                 \/ y \notin Buffered /\ Mergeable(t, rob[t][tag].insn) = {}
<1>1. PICK t \in Threads : \E tag \in StoresIn(t, n[t]) : TRUE
  BY DEF Pushes, Goes, Pushed
<1>2. PICK tag \in StoresIn(t, n[t]) : TRUE
  BY <1>1
<1>3. PICK x \in Buffer :
        /\ x \in Mergeable(t, rob[t][tag].insn) \/ (x \notin Buffered /\ Mergeable(t, rob[t][tag].insn) = {})
        /\ \A z \in Buffer : Pushes(n, z) # {} <=> z = x
        /\ \A p \in Pushes(n, x) : p[1] = t /\ p[2] = tag
  BY TargetIs
<1>4. y = x
  BY <1>3
<1>5. ~InDrain(y)
  <2>1. y \in Mergeable(t, rob[t][tag].insn) => ~InDrain(y)
    BY DEF Mergeable, InDrain
  <2>2. y \notin Buffered => ~InDrain(y)
    BY DEF InDrain, BufferOK, DrainAtL1
  <2> QED BY <1>3, <1>4, <2>1, <2>2
<1>6. ~Freed(y)
  BY <1>5 DEF Freed, InDrain
<1>7. /\ sbuf'[y].valid
      /\ \E p \in Pushes(n, y) : sbuf'[y].tid = p[1] /\ sbuf'[y].insn = rob[p[1]][p[2]].insn
  BY <1>6, SbufAfter
<1>8. sbuf'[y].tid = t /\ sbuf'[y].insn = rob[t][tag].insn
  BY <1>3, <1>4, <1>7
<1> QED BY <1>3, <1>4, <1>5, <1>6, <1>7, <1>8

\* The entries of the buffer after the edge, and which of them drains.
LEMMA BufferAfter ==
  ASSUME PInv, SlotsHold, BufferOK, NEW n, NEW br, NEW d, NEW hit, NEW grant,
         Edge(n, br, d, hit, grant), ~Torn(n, br, grant), NEW y \in Buffer
  PROVE  /\ y \in Buffered' <=> (y \in Buffered /\ ~Freed(y)) \/ Pushes(n, y) # {}
         /\ y \in Buffered' /\ Pushes(n, y) = {} =>
              /\ sbuf'[y].valid /\ sbuf[y].valid
              /\ sbuf'[y].tid = sbuf[y].tid /\ sbuf'[y].insn = sbuf[y].insn
         /\ InDrain(y)' <=> (DrainStore /\ y = Draining) \/ (InDrain(y) /\ ~Freed(y))
         /\ Pushes(n, y) # {} => ~InDrain(y) /\ ~InDrain(y)' /\ ~Freed(y)
<1>1. n \in Retires /\ SbufNext(n) /\ DrainNext
  BY DEF Edge
<1>2. /\ Freed(y) => ~sbuf'[y].valid
      /\ ~Freed(y) /\ Pushes(n, y) = {} => sbuf'[y] = sbuf[y]
      /\ ~Freed(y) /\ Pushes(n, y) # {} => sbuf'[y].valid
  BY <1>1, SbufAfter
<1>3. Pushes(n, y) # {} => ~InDrain(y) /\ ~Freed(y)
  BY <1>1, PushedTo
<1>4. y \in Buffered' <=> (y \in Buffered /\ ~Freed(y)) \/ Pushes(n, y) # {}
  <2>1. y \in Buffered' <=> sbuf'[y].valid
    BY DEF Buffered
  <2>2. y \in Buffered <=> sbuf[y].valid
    BY DEF Buffered
  <2>3. sbuf'[y] = sbuf[y] => (sbuf'[y].valid <=> sbuf[y].valid)
    OBVIOUS
  <2> QED BY <1>2, <1>3, <2>1, <2>2, <2>3, Zenon
<1>5. y \in Buffered' /\ Pushes(n, y) = {} =>
        /\ sbuf'[y].valid /\ sbuf[y].valid
        /\ sbuf'[y].tid = sbuf[y].tid /\ sbuf'[y].insn = sbuf[y].insn
  BY <1>2 DEF Buffered
<1>6. InDrain(y)' <=> (DrainStore /\ y = Draining) \/ (InDrain(y) /\ ~Freed(y))
  <2>1. CASE DrainStore
    <3>1. drain'.valid /\ drain'.idx = Draining
      BY <1>1, <2>1, DrainAfter
    <3>2. ~drain.valid
      BY <2>1 DEF DrainStore
    <3> QED BY <2>1, <3>1, <3>2 DEF InDrain
  <2>2. CASE ~DrainStore
    <3>1. /\ drain'.idx = drain.idx
          /\ drain'.valid <=> drain.valid /\ l1.fsm # "DONE_W"
      BY <1>1, <2>2, DrainAfter
    <3> QED BY <2>2, <3>1 DEF InDrain, Freed
  <2> QED BY <2>1, <2>2
<1>7. Pushes(n, y) # {} => ~(DrainStore /\ y = Draining)
  BY DEF Torn
<1> QED BY <1>3, <1>4, <1>5, <1>6, <1>7

\* The buffer stays in order.
LEMMA NextBuffer ==
  ASSUME StoresNest, PInv, SlotsHold, BufferOK, NEW n, NEW br, NEW d, NEW hit, NEW grant,
         Edge(n, br, d, hit, grant), ~Torn(n, br, grant)
  PROVE  BufferOK'
<1>1. n \in Retires /\ SbufNext(n) /\ DrainNext /\ L1Next /\ TypeOK
  BY DEF Edge, PInv
<1>2. ASSUME NEW y \in Buffered'
      PROVE  y \in Buffer /\ sbuf'[y].insn \in Mix /\ sbuf'[y].insn.kind = "store"
  <2>1. y \in Buffer
    BY <1>2 DEF Buffered
  <2>2. CASE Pushes(n, y) = {}
    <3>1. sbuf[y].valid /\ sbuf'[y].insn = sbuf[y].insn
      BY <1>2, <2>1, <2>2, BufferAfter
    <3> QED BY <2>1, <3>1 DEF BufferOK, HoldsStores, Buffered
  <2>3. CASE Pushes(n, y) # {}
    <3>1. PICK t \in Threads : \E tag \in StoresIn(t, n[t]) : sbuf'[y].insn = rob[t][tag].insn
      BY <1>1, <2>1, <2>3, PushedTo
    <3>2. PICK tag \in StoresIn(t, n[t]) : sbuf'[y].insn = rob[t][tag].insn
      BY <3>1
    <3> QED BY <1>1, <2>1, <3>2, OneStore
  <2> QED BY <2>2, <2>3
<1>3. HoldsStores'
  BY <1>2 DEF HoldsStores
<1>4. DrainAtL1'
  <2> SUFFICES ASSUME drain'.valid
               PROVE  /\ drain'.idx \in Buffered'
                      /\ l1'.tid = sbuf'[drain'.idx].tid /\ l1'.insn = sbuf'[drain'.idx].insn
    BY DEF DrainAtL1
  <2>1. CASE DrainStore
    <3>1. drain'.idx = Draining /\ Draining \in Buffered /\ Draining \in Buffer
      BY <1>1, <2>1, DrainAfter, L1After
    <3>2. Pushes(n, Draining) = {}
      BY <2>1 DEF Torn
    <3>3. ~Freed(Draining)
      BY <2>1 DEF DrainStore, Freed
    <3>4. PICK y \in Buffer : y = Draining
      BY <3>1
    <3>5. y \in Buffered' /\ sbuf'[y].tid = sbuf[y].tid /\ sbuf'[y].insn = sbuf[y].insn
      BY <3>1, <3>2, <3>3, <3>4, BufferAfter
    <3>6. l1'.tid = sbuf[Draining].tid /\ l1'.insn = sbuf[Draining].insn
      BY <1>1, <2>1, L1After
    <3> QED BY <3>1, <3>4, <3>5, <3>6
  <2>2. CASE ~DrainStore
    <3>1. drain'.idx = drain.idx /\ drain.valid /\ l1.fsm # "DONE_W"
      BY <1>1, <2>2, DrainAfter
    <3>2. /\ drain.idx \in Buffered
          /\ l1.tid = sbuf[drain.idx].tid /\ l1.insn = sbuf[drain.idx].insn
      BY <3>1 DEF BufferOK, DrainAtL1
    <3>3. PICK y \in Buffer : y = drain.idx
      BY <3>2 DEF Buffered
    <3>4. InDrain(y) /\ ~Freed(y)
      BY <3>1, <3>3 DEF InDrain, Freed
    <3>5. Pushes(n, y) = {}
      BY <3>4, BufferAfter
    <3>6. y \in Buffered' /\ sbuf'[y].tid = sbuf[y].tid /\ sbuf'[y].insn = sbuf[y].insn
      BY <3>2, <3>3, <3>4, <3>5, BufferAfter
    <3>7. ~IssueLoad
      <4>1. l1.fsm = "WRITE"
        BY <3>1 DEF PInv, PortOK
      <4> QED BY <4>1 DEF IssueLoad
    <3>8. l1'.tid = l1.tid /\ l1'.insn = l1.insn
      BY <1>1, <2>2, <3>7, L1After
    <3> QED BY <3>1, <3>2, <3>3, <3>6, <3>8
  <2> QED BY <2>1, <2>2
<1>5. ASSUME NEW x \in Buffered', NEW y \in Buffered', sbuf'[x].tid = sbuf'[y].tid,
             Overlap(sbuf'[x].insn, sbuf'[y].insn), ~InDrain(x)', ~InDrain(y)',
             Pushes(n, y) = {}
      PROVE  x = y
  <2>1. x \in Buffer /\ y \in Buffer
    BY <1>2
  <2>2. y \in Buffered /\ ~InDrain(y) /\ sbuf'[y].tid = sbuf[y].tid /\ sbuf'[y].insn = sbuf[y].insn
    BY <1>5, <2>1, BufferAfter DEF Buffered
  <2>3. CASE Pushes(n, x) = {}
    <3>1. x \in Buffered /\ ~InDrain(x) /\ sbuf'[x].tid = sbuf[x].tid /\ sbuf'[x].insn = sbuf[x].insn
      BY <1>5, <2>1, <2>3, BufferAfter DEF Buffered
    <3> QED BY <1>5, <2>2, <3>1 DEF BufferOK, NoOverlap
  <2>4. CASE Pushes(n, x) # {}
    <3>1. PICK t \in Threads : \E tag \in StoresIn(t, n[t]) :
              /\ sbuf'[x].valid /\ sbuf'[x].tid = t /\ sbuf'[x].insn = rob[t][tag].insn
              /\ \/ x \in Mergeable(t, rob[t][tag].insn)
                 \/ x \notin Buffered /\ Mergeable(t, rob[t][tag].insn) = {}
      BY <1>1, <2>1, <2>4, PushedTo
    <3>2. PICK tag \in StoresIn(t, n[t]) :
              /\ sbuf'[x].tid = t /\ sbuf'[x].insn = rob[t][tag].insn
              /\ \/ x \in Mergeable(t, rob[t][tag].insn)
                 \/ x \notin Buffered /\ Mergeable(t, rob[t][tag].insn) = {}
      BY <3>1
    <3>3. PICK i \in Mix : i = rob[t][tag].insn /\ i.kind = "store"
      BY <1>2, <3>2
    <3>4. Overlap(i, sbuf[y].insn) /\ sbuf[y].tid = t
      BY <1>5, <2>2, <3>2, <3>3
    <3>5. sbuf[y].insn \in Mix /\ sbuf[y].insn.kind = "store"
      BY <2>2 DEF BufferOK, HoldsStores
    <3>6. i.part = sbuf[y].insn.part /\ i.dword = sbuf[y].insn.dword
      BY <3>3, <3>4, <3>5 DEF StoresNest, Overlap
    <3>7. y \in Mergeable(t, i)
      BY <2>2, <3>4, <3>6 DEF Mergeable, InDrain
    <3>8. x \in Mergeable(t, i)
      BY <3>2, <3>3, <3>7
    <3>9. x \in Buffered /\ ~InDrain(x) /\ sbuf[x].tid = t
          /\ sbuf[x].insn.dword = i.dword /\ sbuf[x].insn.part = i.part
      BY <3>8 DEF Mergeable, InDrain
    <3>10. Overlap(sbuf[x].insn, sbuf[y].insn)
      BY <3>4, <3>9 DEF Overlap
    <3> QED BY <2>2, <3>4, <3>9, <3>10 DEF BufferOK, NoOverlap
  <2> QED BY <2>3, <2>4
<1>6. NoOverlap'
  <2> SUFFICES ASSUME NEW x \in Buffered', NEW y \in Buffered', sbuf'[x].tid = sbuf'[y].tid,
                      Overlap(sbuf'[x].insn, sbuf'[y].insn), ~InDrain(x)', ~InDrain(y)'
               PROVE  x = y
    BY DEF NoOverlap
  <2>1. CASE Pushes(n, y) = {}
    BY <1>5, <2>1
  <2>2. CASE Pushes(n, x) = {}
    <3>1. Overlap(sbuf'[y].insn, sbuf'[x].insn)
      BY DEF Overlap
    <3> QED BY <1>5, <2>2, <3>1
  <2>3. CASE Pushes(n, x) # {} /\ Pushes(n, y) # {}
    <3>1. PICK t \in Threads : \E tag \in StoresIn(t, n[t]) : TRUE
      BY <2>3 DEF Pushes, Goes, Pushed
    <3>2. PICK tag \in StoresIn(t, n[t]) : TRUE
      BY <3>1
    <3>3. \E z \in Buffer : \A v \in Buffer : Pushes(n, v) # {} <=> v = z
      BY <1>1, <3>2, TargetIs
    <3>4. x \in Buffer /\ y \in Buffer
      BY <1>2
    <3> QED BY <2>3, <3>3, <3>4
  <2> QED BY <2>1, <2>2, <2>3
<1> QED BY <1>3, <1>4, <1>6 DEF BufferOK

(***************************************************************************)
(* What the buffer and memory hold of a half.                              *)
(***************************************************************************)

\* What should be in memory changes with a push to the half.
LEMMA ArchAfter ==
  ASSUME PInv, SlotsHold, BufferOK, NEW n, NEW br, NEW d, NEW hit, NEW grant,
         Edge(n, br, d, hit, grant), NEW t \in Threads, NEW w \in Dwords, NEW b \in Halves
  PROVE  /\ \A y \in Buffer : Pushes(n, y) # {} /\ y \in Buffering(t, w, b)' =>
              arch'[t][w][b] = sbuf'[y].insn.data
         /\ (\A y \in Buffer : Pushes(n, y) # {} => y \notin Buffering(t, w, b)') =>
              arch'[t][w][b] = arch[t][w][b]
<1>1. n \in Retires /\ SbufNext(n) /\ arch \in [Threads -> [Dwords -> [Halves -> Data]]]
  BY DEF Edge, PInv, TypeOK
<1>2. ASSUME NEW tag \in StoresIn(t, n[t])
      PROVE  /\ rob[t][tag].insn \in Insns
             /\ w = rob[t][tag].insn.dword /\ b \in Covers(rob[t][tag].insn.part) =>
                  arch'[t][w][b] = rob[t][tag].insn.data
             /\ ~(w = rob[t][tag].insn.dword /\ b \in Covers(rob[t][tag].insn.part)) =>
                  arch'[t][w][b] = arch[t][w][b]
  <2>1. PICK i \in Insns : i = rob[t][tag].insn /\ arch'[t] = Written(arch[t], i)
    BY MemoryAfter
  <2>2. arch[t] \in [Dwords -> [Halves -> Data]]
    BY <1>1
  <2>3. \A x \in Dwords, c \in Halves :
              /\ x = i.dword /\ c \in Covers(i.part) => Written(arch[t], i)[x][c] = i.data
              /\ ~(x = i.dword /\ c \in Covers(i.part)) => Written(arch[t], i)[x][c] = arch[t][x][c]
    BY <2>2, MemoryIs
  <2> QED BY <2>1, <2>3
<1>3. ASSUME NEW y \in Buffer, Pushes(n, y) # {}, y \in Buffering(t, w, b)'
      PROVE  arch'[t][w][b] = sbuf'[y].insn.data
  <2>1. sbuf'[y].tid = t /\ sbuf'[y].insn.dword = w /\ b \in Covers(sbuf'[y].insn.part)
    BY <1>3 DEF Buffering
  <2>2. PICK u \in Threads : \E tag \in StoresIn(u, n[u]) :
          sbuf'[y].tid = u /\ sbuf'[y].insn = rob[u][tag].insn
    BY <1>1, <1>3, PushedTo
  <2>3. PICK tag \in StoresIn(t, n[t]) : sbuf'[y].insn = rob[t][tag].insn
    BY <2>1, <2>2
  <2> QED BY <1>2, <2>1, <2>3
<1>4. ASSUME \A y \in Buffer : Pushes(n, y) # {} => y \notin Buffering(t, w, b)'
      PROVE  arch'[t][w][b] = arch[t][w][b]
  <2>1. CASE StoresIn(t, n[t]) = {}
    <3>1. arch'[t] = arch[t]
      BY <2>1, MemoryAfter
    <3> QED BY <3>1
  <2>2. CASE StoresIn(t, n[t]) # {}
    <3>1. PICK tag \in StoresIn(t, n[t]) : TRUE
      BY <2>2
    <3>2. PICK x \in Buffer : Pushes(n, x) # {}
      <4>1. PICK y \in Buffer :
              /\ y \in Mergeable(t, rob[t][tag].insn)
                 \/ (y \notin Buffered /\ Mergeable(t, rob[t][tag].insn) = {})
              /\ \A z \in Buffer : Pushes(n, z) # {} <=> z = y
              /\ \A p \in Pushes(n, y) : p[1] = t /\ p[2] = tag
        BY <1>1, <3>1, TargetIs, Zenon
      <4> QED BY <4>1
    <3>3. PICK u \in Threads : \E s \in StoresIn(u, n[u]) :
            sbuf'[x].valid /\ sbuf'[x].tid = u /\ sbuf'[x].insn = rob[u][s].insn
      BY <1>1, <3>2, PushedTo
    <3>4. u = t /\ \A s \in StoresIn(t, n[t]) : s = tag
      <4>1. StoresIn(u, n[u]) # {}
        BY <3>3
      <4>2. /\ \A v \in Threads : StoresIn(v, n[v]) # {} => v = t
            /\ \A s \in StoresIn(t, n[t]) : s = tag
        BY <1>1, <3>1, OneStore
      <4> QED BY <4>1, <4>2
    <3>5. sbuf'[x].valid /\ sbuf'[x].tid = t /\ sbuf'[x].insn = rob[t][tag].insn
      BY <3>3, <3>4
    <3>6. x \notin Buffering(t, w, b)'
      BY <1>4, <3>2
    <3>7. ~(w = rob[t][tag].insn.dword /\ b \in Covers(rob[t][tag].insn.part))
      BY <3>5, <3>6 DEF Buffering, Buffered
    <3> QED BY <1>2, <3>1, <3>7
  <2> QED BY <2>1, <2>2
<1> QED BY <1>3, <1>4

\* Memory changes with a drained entry that covers the half.
LEMMA MemAfter ==
  ASSUME PInv, BufferOK', PInv', NEW n, NEW br, NEW d, NEW hit, NEW grant,
         Edge(n, br, d, hit, grant), NEW t \in Threads, NEW w \in Dwords, NEW b \in Halves
  PROVE  /\ l1'.fsm = "DONE_W" => \A y \in Buffering(t, w, b)' : InDrain(y)' =>
              mem'[t][w][b] = sbuf'[y].insn.data
         /\ (\A y \in Buffering(t, w, b)' : ~InDrain(y)') => mem'[t][w][b] = mem[t][w][b]
<1>1. L1Next /\ TypeOK /\ mem \in [Threads -> [Dwords -> [Halves -> Data]]]
  BY DEF Edge, PInv, TypeOK
<1>2. l1'.fsm # "DONE_W" => mem' = mem
  BY <1>1, L1After
<1>3. ASSUME l1'.fsm = "DONE_W"
      PROVE  \E z \in Buffer : /\ drain'.valid /\ drain'.idx = z /\ z \in Buffered'
                               /\ sbuf'[z].tid = t /\ sbuf'[z].insn.dword = w /\ b \in Covers(sbuf'[z].insn.part)
                                    => mem'[t][w][b] = sbuf'[z].insn.data
                               /\ ~(sbuf'[z].tid = t /\ sbuf'[z].insn.dword = w /\ b \in Covers(sbuf'[z].insn.part))
                                    => mem'[t][w][b] = mem[t][w][b]
  <2>1. drain'.valid
    BY <1>3 DEF PInv, PortOK
  <2>2. /\ drain'.idx \in Buffered'
        /\ l1'.tid = sbuf'[drain'.idx].tid /\ l1'.insn = sbuf'[drain'.idx].insn
    BY <2>1 DEF BufferOK, DrainAtL1
  <2>3. PICK z \in Buffer : z = drain'.idx
    BY <2>2 DEF Buffered
  <2>4. PICK u \in Threads, i \in Insns : u = l1'.tid /\ i = l1'.insn
    BY <1>1, <1>3, L1After DEF PInv, ThreadsOK
  <2>5. mem' = [mem EXCEPT ![u] = Written(mem[u], i)]
    BY <1>1, <1>3, <2>4, L1After
  <2>6. mem[u] \in [Dwords -> [Halves -> Data]]
    BY <1>1
  <2>7. \A x \in Dwords, c \in Halves :
              /\ x = i.dword /\ c \in Covers(i.part) => Written(mem[u], i)[x][c] = i.data
              /\ ~(x = i.dword /\ c \in Covers(i.part)) => Written(mem[u], i)[x][c] = mem[u][x][c]
    BY <2>6, MemoryIs
  <2>8. mem'[t] = IF u = t THEN Written(mem[u], i) ELSE mem[t]
    BY <1>1, <2>5
  <2>9. sbuf'[z].tid = u /\ sbuf'[z].insn = i
    BY <2>2, <2>3, <2>4
  <2> QED BY <2>1, <2>2, <2>3, <2>7, <2>8, <2>9
<1>4. ASSUME l1'.fsm = "DONE_W", NEW y \in Buffering(t, w, b)', InDrain(y)'
      PROVE  mem'[t][w][b] = sbuf'[y].insn.data
  BY <1>3, <1>4 DEF Buffering, InDrain
<1>5. ASSUME \A y \in Buffering(t, w, b)' : ~InDrain(y)'
      PROVE  mem'[t][w][b] = mem[t][w][b]
  <2>1. CASE l1'.fsm # "DONE_W"
    BY <1>2, <2>1
  <2>2. CASE l1'.fsm = "DONE_W"
    <3>1. PICK z \in Buffer :
            /\ drain'.valid /\ drain'.idx = z /\ z \in Buffered'
            /\ ~(sbuf'[z].tid = t /\ sbuf'[z].insn.dword = w /\ b \in Covers(sbuf'[z].insn.part))
                 => mem'[t][w][b] = mem[t][w][b]
      BY <1>3, <2>2
    <3>2. z \notin Buffering(t, w, b)'
      BY <1>5, <3>1 DEF InDrain
    <3> QED BY <3>1, <3>2 DEF Buffering
  <2> QED BY <2>1, <2>2
<1> QED BY <1>4, <1>5

\* The half is as it should be after the edge.
LEMMA SettledAfter ==
  ASSUME StoresNest, PInv, SlotsHold, BufferOK, AllSettled, BufferOK', PInv',
         NEW n, NEW br, NEW d, NEW hit, NEW grant, Edge(n, br, d, hit, grant),
         ~Torn(n, br, grant), NEW t \in Threads, NEW w \in Dwords, NEW b \in Halves
  PROVE  SettledAt(t, w, b)'
<1> DEFINE X == Buffering(t, w, b)
           Y == Buffering(t, w, b)'
<1>1. n \in Retires /\ SbufNext(n)
  BY DEF Edge
<1>2. /\ X = {} => mem[t][w][b] = arch[t][w][b]
      /\ \A x \in X : ~InDrain(x) => sbuf[x].insn.data = arch[t][w][b]
      /\ \A x \in X : (\A y \in X : InDrain(y)) => sbuf[x].insn.data = arch[t][w][b]
      /\ l1.fsm = "DONE_W" => \A x \in X : InDrain(x) => mem[t][w][b] = sbuf[x].insn.data
  BY DEF AllSettled, SettledAt
<1>3. /\ \A y \in Buffer : Pushes(n, y) # {} /\ y \in Y => arch'[t][w][b] = sbuf'[y].insn.data
      /\ (\A y \in Buffer : Pushes(n, y) # {} => y \notin Y) => arch'[t][w][b] = arch[t][w][b]
  BY ArchAfter
<1>4. /\ l1'.fsm = "DONE_W" => \A y \in Y : InDrain(y)' => mem'[t][w][b] = sbuf'[y].insn.data
      /\ (\A y \in Y : ~InDrain(y)') => mem'[t][w][b] = mem[t][w][b]
  BY MemAfter
<1>5. \A y \in Buffer :
         /\ y \in Buffered' <=> (y \in Buffered /\ ~Freed(y)) \/ Pushes(n, y) # {}
         /\ y \in Buffered' /\ Pushes(n, y) = {} =>
              /\ sbuf'[y].valid /\ sbuf[y].valid
              /\ sbuf'[y].tid = sbuf[y].tid /\ sbuf'[y].insn = sbuf[y].insn
         /\ InDrain(y)' <=> (DrainStore /\ y = Draining) \/ (InDrain(y) /\ ~Freed(y))
         /\ Pushes(n, y) # {} => ~InDrain(y) /\ ~InDrain(y)' /\ ~Freed(y)
  BY BufferAfter
<1>6. \A y \in X \cup Y : y \in Buffer
  BY DEF Buffering, Buffered
\* An entry that neither drains away nor is pushed to stays.
<1>7. \A y \in Buffer : ~Freed(y) /\ Pushes(n, y) = {} => (y \in Y <=> y \in X)
  BY <1>5 DEF Buffering, Buffered
<1>8. \A y \in Y : ~Freed(y) /\ (Pushes(n, y) = {} => y \in X /\ sbuf'[y].insn = sbuf[y].insn)
  BY <1>5, <1>6 DEF Buffering
\* An entry that is merged into covers what it covered.
<1>9. ASSUME NEW y \in X, Pushes(n, y) # {} PROVE y \in Y
  <2>1. y \in Buffer /\ sbuf[y].tid = t /\ sbuf[y].insn.dword = w /\ b \in Covers(sbuf[y].insn.part)
        /\ y \in Buffered
    BY <1>6 DEF Buffering
  <2>2. PICK u \in Threads : \E tag \in StoresIn(u, n[u]) :
              /\ sbuf'[y].valid /\ sbuf'[y].tid = u /\ sbuf'[y].insn = rob[u][tag].insn
              /\ \/ y \in Mergeable(u, rob[u][tag].insn)
                 \/ y \notin Buffered /\ Mergeable(u, rob[u][tag].insn) = {}
    BY <1>1, <1>9, <2>1, PushedTo
  <2>3. PICK tag \in StoresIn(u, n[u]) :
              /\ sbuf'[y].valid /\ sbuf'[y].tid = u /\ sbuf'[y].insn = rob[u][tag].insn
              /\ y \in Mergeable(u, rob[u][tag].insn)
    BY <2>1, <2>2
  <2>4. sbuf'[y].tid = t /\ sbuf'[y].insn.dword = w /\ b \in Covers(sbuf'[y].insn.part)
    BY <2>1, <2>3 DEF Mergeable
  <2> QED BY <2>1, <2>3, <2>4 DEF Buffering, Buffered
\* A push to the half goes to the entry that covers it, unless that drains.
<1>10. ASSUME NEW y \in Y, Pushes(n, y) # {}, NEW x \in Y, Pushes(n, x) = {}
       PROVE  InDrain(x)'
  <2>1. /\ y \in Buffered' /\ x \in Buffered' /\ sbuf'[x].tid = sbuf'[y].tid
        /\ sbuf'[x].insn.dword = sbuf'[y].insn.dword
        /\ b \in Covers(sbuf'[x].insn.part) \cap Covers(sbuf'[y].insn.part)
    BY DEF Buffering
  <2>2. Overlap(sbuf'[x].insn, sbuf'[y].insn)
    BY <2>1 DEF Overlap
  <2>3. ~InDrain(y)' /\ x # y
    BY <1>5, <1>6, <1>10
  <2> QED BY <2>1, <2>2, <2>3 DEF BufferOK, NoOverlap
<1> HIDE DEF X, Y
<1>11. ASSUME NEW x \in Y, ~InDrain(x)' PROVE sbuf'[x].insn.data = arch'[t][w][b]
  <2>1. CASE Pushes(n, x) # {}
    BY <1>3, <1>6, <2>1
  <2>2. CASE Pushes(n, x) = {}
    <3>1. \A y \in Buffer : Pushes(n, y) # {} => y \notin Y
      BY <1>10, <1>11, <2>2
    <3>2. x \in X /\ sbuf'[x].insn = sbuf[x].insn /\ ~InDrain(x)
      BY <1>5, <1>6, <1>8, <1>11, <2>2
    <3> QED BY <1>2, <1>3, <3>1, <3>2
  <2> QED BY <2>1, <2>2
<1>12. ASSUME NEW x \in Y, \A y \in Y : InDrain(y)' PROVE sbuf'[x].insn.data = arch'[t][w][b]
  <2>1. \A y \in Buffer : Pushes(n, y) # {} => y \notin Y
    BY <1>5, <1>12
  <2>2. arch'[t][w][b] = arch[t][w][b] /\ x \in X /\ sbuf'[x].insn = sbuf[x].insn
    BY <1>3, <1>6, <1>8, <2>1
  <2>3. CASE ~InDrain(x)
    BY <1>2, <2>2, <2>3
  <2>4. CASE InDrain(x)
    <3>1. ~DrainStore
      BY <2>4 DEF InDrain, DrainStore
    <3>2. \A y \in X : InDrain(y)
      <4> SUFFICES ASSUME NEW y \in X, ~InDrain(y) PROVE FALSE
        OBVIOUS
      <4>1. ~Freed(y)
        BY DEF InDrain, Freed
      <4>2. y \in Y
        BY <1>6, <1>7, <1>9, <4>1
      <4>3. InDrain(y)'
        BY <1>12, <4>2
      <4> QED BY <1>5, <1>6, <3>1, <4>3
    <3> QED BY <1>2, <2>2, <3>2
  <2> QED BY <2>3, <2>4
<1>13. ASSUME Y = {} PROVE mem'[t][w][b] = arch'[t][w][b]
  <2>1. mem'[t][w][b] = mem[t][w][b] /\ arch'[t][w][b] = arch[t][w][b]
    BY <1>3, <1>4, <1>13
  <2>2. \A x \in X : Freed(x)
    BY <1>6, <1>7, <1>9, <1>13
  <2>3. \A x \in X : InDrain(x) /\ l1.fsm = "DONE_W"
    BY <2>2 DEF Freed, InDrain
  <2>4. CASE X = {}
    BY <1>2, <2>1, <2>4
  <2>5. CASE X # {}
    BY <1>2, <2>1, <2>3, <2>5
  <2> QED BY <2>4, <2>5
<1> QED BY <1>4, <1>11, <1>12, <1>13 DEF SettledAt, Y

(***************************************************************************)
(* Loads.                                                                  *)
(***************************************************************************)

\* A load that may go has no store of its thread before it to the doubleword.
LEMMA CandidateClear ==
  ASSUME PInv, SlotsHold, NEW i \in Candidates, NEW t \in Threads, NEW tag \in Tags,
         slots[i].tid = t, slots[i].tag = tag
  PROVE  Clear(t, tag, slots[i].insn.dword) /\ Unbuffered(t, slots[i].insn.dword)
<1>1. ~Blocked(i)
  BY DEF Candidates
<1>2. \A s \in Resident("store") : slots[s].tid = t /\ Age(t, slots[s].tag) < Age(t, tag) =>
        slots[s].insn.dword # slots[i].insn.dword
  BY <1>1 DEF Blocked
<1>3. \A x \in Buffer : ~(sbuf[x].valid /\ sbuf[x].tid = t /\ sbuf[x].insn.dword = slots[i].insn.dword)
  BY <1>1 DEF Blocked
<1>4. Unbuffered(t, slots[i].insn.dword)
  BY <1>3 DEF Unbuffered, Buffered
<1>5. ASSUME NEW s \in Tags, InFlight(t, s), Age(t, s) < Age(t, tag), rob[t][s].insn.kind = "store"
      PROVE  rob[t][s].insn.dword # slots[i].insn.dword
  <2>1. PICK j \in Resident("store") : /\ slots[j].tid = t /\ slots[j].tag = s
                                       /\ slots[j].insn = rob[t][s].insn
    BY <1>5, StoreHasSlot
  <2> QED BY <1>2, <1>5, <2>1
<1> QED BY <1>4, <1>5 DEF Clear

\* Of an entry that stays: no store comes between, and none that retires was.
LEMMA ClearAfter ==
  ASSUME PInv, NEW n, NEW br, NEW d, NEW hit, NEW grant, Edge(n, br, d, hit, grant),
         NEW t \in Threads, NEW tag \in Tags, Stays(n, br, t, tag), NEW w \in Dwords, Clear(t, tag, w)
  PROVE  /\ Clear(t, tag, w)'
         /\ \A s \in StoresIn(t, n[t]) : rob[t][s].insn.dword # w
         /\ \A b \in Halves : arch'[t][w][b] = arch[t][w][b]
<1>1. n \in Retires /\ TypeOK
  BY DEF Edge, PInv
<1>2. /\ head[t] \in Tags /\ count[t] \in 0 .. Depth /\ Depth \in Nat
      /\ n[t] \in 0 .. Depth /\ \A s \in Tags : Age(t, s) \in 0 .. Depth - 1
  BY <1>1, AgesIs, RetiringIs, LsqAssumption DEF TypeOK
<1>3. InFlight(t, tag) /\ Age(t, tag) >= n[t] /\ Age(t, tag) < count[t]
  BY DEF Stays, InFlight
<1>4. Age(t, tag)' = Age(t, tag) - n[t]
  BY WindowAfter
<1>5. ASSUME NEW s \in Tags, InFlight(t, s)', Age(t, s)' < Age(t, tag)', rob'[t][s].insn.kind = "store"
      PROVE  rob'[t][s].insn.dword # w
  <2>1. LanesAt(d, t, s) # {} => Age(t, s)' >= count[t] - n[t]
    BY WindowAfter
  <2>2. PICK a : a = Age(t, s)'
    OBVIOUS
  <2>3. a < Age(t, tag) - n[t]
    BY <1>4, <1>5, <2>2
  <2>4. LanesAt(d, t, s) = {}
    <3> SUFFICES ASSUME LanesAt(d, t, s) # {} PROVE FALSE
      OBVIOUS
    <3>1. a >= count[t] - n[t]
      BY <2>1, <2>2
    <3>2. a \in Int
      <4>1. head'[t] \in Tags
        BY WindowAfter
      <4> QED BY <2>2, <4>1, <1>2 DEF Age, Tags
    <3> QED BY <1>2, <1>3, <2>3, <3>1, <3>2
  <2>5. Stays(n, br, t, s) /\ rob'[t][s].insn = rob[t][s].insn
    BY <1>5, <2>4, WindowAfter, RobAfter
  <2>6. a = Age(t, s) - n[t] /\ InFlight(t, s)
    BY <2>2, <2>5, WindowAfter DEF Stays
  <2>7. Age(t, s) < Age(t, tag)
    BY <1>2, <2>3, <2>6
  <2> QED BY <1>5, <2>5, <2>6, <2>7 DEF Clear
<1>6. ASSUME NEW s \in StoresIn(t, n[t])
      PROVE  rob[t][s].insn.dword # w
  <2>1. s \in Tags /\ InFlight(t, s) /\ Age(t, s) < n[t] /\ rob[t][s].insn.kind = "store"
    BY <1>1, OneStore
  <2>2. Age(t, s) < Age(t, tag)
    BY <1>2, <1>3, <2>1
  <2> QED BY <2>1, <2>2 DEF Clear
<1>7. ASSUME NEW b \in Halves PROVE arch'[t][w][b] = arch[t][w][b]
  <2>1. CASE StoresIn(t, n[t]) = {}
    <3>1. arch'[t] = arch[t]
      BY <2>1, MemoryAfter
    <3> QED BY <3>1
  <2>2. CASE StoresIn(t, n[t]) # {}
    <3>1. PICK s \in StoresIn(t, n[t]) : TRUE
      BY <2>2
    <3>2. PICK i \in Insns : i = rob[t][s].insn /\ arch'[t] = Written(arch[t], i)
      BY <3>1, MemoryAfter
    <3>3. arch[t] \in [Dwords -> [Halves -> Data]]
      BY <1>1 DEF TypeOK
    <3>4. \A x \in Dwords, c \in Halves :
            ~(x = i.dword /\ c \in Covers(i.part)) => Written(arch[t], i)[x][c] = arch[t][x][c]
      BY <3>3, MemoryIs
    <3> QED BY <1>6, <3>1, <3>2, <3>4
  <2> QED BY <2>1, <2>2
<1>8. Clear(t, tag, w)'
  BY <1>5 DEF Clear
<1> QED BY <1>6, <1>7, <1>8

\* Nor does a store to the doubleword enter the buffer.
LEMMA UnbufferedAfter ==
  ASSUME PInv, SlotsHold, BufferOK, NEW n, NEW br, NEW d, NEW hit, NEW grant,
         Edge(n, br, d, hit, grant), ~Torn(n, br, grant), NEW t \in Threads, NEW w,
         Unbuffered(t, w), \A s \in StoresIn(t, n[t]) : rob[t][s].insn.dword # w
  PROVE  Unbuffered(t, w)'
<1>1. n \in Retires /\ SbufNext(n)
  BY DEF Edge
<1>2. ASSUME NEW x \in Buffered', sbuf'[x].tid = t, sbuf'[x].insn.dword = w
      PROVE  FALSE
  <2>1. x \in Buffer
    BY <1>2 DEF Buffered
  <2>2. CASE Pushes(n, x) = {}
    <3>1. sbuf[x].valid /\ sbuf'[x].tid = sbuf[x].tid /\ sbuf'[x].insn = sbuf[x].insn
      BY <1>2, <2>1, <2>2, BufferAfter
    <3> QED BY <1>2, <2>1, <3>1 DEF Unbuffered, Buffered
  <2>3. CASE Pushes(n, x) # {}
    <3>1. PICK u \in Threads : \E s \in StoresIn(u, n[u]) :
            sbuf'[x].tid = u /\ sbuf'[x].insn = rob[u][s].insn
      BY <1>1, <2>1, <2>3, PushedTo
    <3> QED BY <1>2, <3>1
  <2> QED BY <2>2, <2>3
<1> QED BY <1>2 DEF Unbuffered

\* What memory has of an unbuffered doubleword is what it should have.
LEMMA UnbufferedReads ==
  ASSUME AllSettled, NEW t \in Threads, NEW w \in Dwords, NEW b \in Halves, Unbuffered(t, w)
  PROVE  mem[t][w][b] = arch[t][w][b]
<1>1. Buffering(t, w, b) = {}
  BY DEF Unbuffered, Buffering
<1> QED BY <1>1 DEF AllSettled, SettledAt

\* The load that is out has nothing between it and memory.
LEMMA OutClearAfter ==
  ASSUME PInv, SlotsHold, BufferOK, OutClear, NEW n, NEW br, NEW d, NEW hit, NEW grant,
         Edge(n, br, d, hit, grant), ~Torn(n, br, grant)
  PROVE  OutClear'
<1>1. /\ n \in Retires /\ SbufNext(n) /\ OutNext(br) /\ L1Next /\ TypeOK
      /\ OutHeld /\ d \in Dispatches(br)
  BY DEF Edge, PInv, SlotsHold
<1> SUFFICES ASSUME NEW t \in Threads, NEW tag \in Tags, NEW w \in Dwords,
                    out'.valid, ~out'.squashed, out'.tid = t, out'.tag = tag,
                    slots'[out'.idx].insn.dword = w
             PROVE  /\ l1'.tid = t /\ l1'.insn = slots'[out'.idx].insn
                    /\ Clear(t, tag, w)' /\ Unbuffered(t, w)'
  BY DEF OutClear
<1>2. /\ out'.idx \in Slots /\ slots[out'.idx].busy /\ slots[out'.idx].insn.kind = "load"
      /\ out'.idx \notin Vacated(n, br, hit, grant)
      /\ slots[out'.idx].tid = out'.tid /\ slots[out'.idx].tag = out'.tag
  BY OutHeldAfter
<1>3. PICK i \in Slots : i = out'.idx
  BY <1>2
<1>4. /\ slots[i].tid = t /\ slots[i].tag = tag /\ slots[i].busy
      /\ slots'[i].busy /\ slots'[i].insn = slots[i].insn
  BY <1>1, <1>2, <1>3, KeptSlot
<1>5. Stays(n, br, t, tag)
  BY <1>3, <1>4, KeptStays
<1>6. w = slots[i].insn.dword
  BY <1>3, <1>4
<1>7. /\ l1'.tid = t /\ l1'.insn = slots[i].insn
      /\ Clear(t, tag, w) /\ Unbuffered(t, w)
  <2>1. CASE IssueLoad
    <3>1. Issued = i /\ i \in Candidates
      BY <1>1, <1>3, <2>1, OutAfter
    <3>2. l1'.tid = slots[i].tid /\ l1'.insn = slots[i].insn
      BY <1>1, <2>1, <3>1, L1After
    <3> QED BY <1>4, <1>6, <3>1, <3>2, CandidateClear
  <2>2. CASE ~IssueLoad
    <3>1. /\ out.valid /\ ~out.squashed /\ out'.idx = out.idx
          /\ out'.tid = out.tid /\ out'.tag = out.tag
      BY <1>1, <2>2, OutAfter
    <3>2. /\ l1.tid = t /\ l1.insn = slots[i].insn
          /\ Clear(t, tag, w) /\ Unbuffered(t, w)
      BY <1>3, <1>6, <3>1 DEF OutClear
    <3>3. ~DrainStore
      BY <3>1 DEF DrainStore
    <3>4. l1'.tid = l1.tid /\ l1'.insn = l1.insn
      BY <1>1, <2>2, <3>3, L1After
    <3> QED BY <3>2, <3>4
  <2> QED BY <2>1, <2>2
<1>8. Clear(t, tag, w)' /\ \A s \in StoresIn(t, n[t]) : rob[t][s].insn.dword # w
  BY <1>5, <1>7, ClearAfter
<1>9. Unbuffered(t, w)'
  BY <1>7, <1>8, UnbufferedAfter
<1> QED BY <1>3, <1>4, <1>7, <1>8, <1>9

\* The value that reaches the CDB is what its load should return.
LEMMA ResultHolds ==
  ASSUME PInv, SlotsHold, AllSettled, OutClear, NEW n, NEW br, NEW d, NEW hit, NEW grant,
         Edge(n, br, d, hit, grant), NEW t \in Threads, NEW tag \in Tags, NEW w \in Dwords,
         InFlight(t, tag), rob[t][tag].insn.dword = w,
         NEW r \in Broadcast(hit, grant), r.tid = t, r.tag = tag
  PROVE  /\ Clear(t, tag, w)
         /\ \A b \in Covers(rob[t][tag].insn.part) : b \in Halves /\ r.value[b] = arch[t][w][b]
<1>1. TypeOK /\ rob[t][tag].insn \in Insns /\ mem[t] \in [Dwords -> [Halves -> Data]]
  BY DEF PInv, TypeOK, Entry
<1>2. /\ grant
      /\ \/ /\ PrimaryFire /\ r.tid = out.tid /\ r.tag = out.tag
            /\ r.value = ReadOf(mem[l1.tid], l1.insn)
         \/ /\ ~PrimaryFire /\ Port2Req /\ hit
            /\ r.tid = slots[Probed].tid /\ r.tag = slots[Probed].tag
            /\ r.value = ReadOf(mem[slots[Probed].tid], slots[Probed].insn)
  BY BroadcastIs
<1>3. /\ r.value = ReadOf(mem[t], rob[t][tag].insn)
      /\ Clear(t, tag, w) /\ Unbuffered(t, w)
  <2>1. CASE /\ PrimaryFire /\ r.tid = out.tid /\ r.tag = out.tag
             /\ r.value = ReadOf(mem[l1.tid], l1.insn)
    <3>1. out.valid /\ ~out.squashed /\ out.tid = t /\ out.tag = tag
      BY <2>1 DEF PrimaryFire, Answered
    <3>2. PICK i \in Slots : i = out.idx
      BY <1>1 DEF TypeOK
    <3>3. slots[i].busy /\ slots[i].tid = t /\ slots[i].tag = tag /\ ~Discarded(i)
      BY <3>1, <3>2 DEF SlotsHold, OutHeld, Names, Discarded
    <3>4. slots[i].insn = rob[t][tag].insn
      BY <3>3 DEF SlotsHold, SlotsNamed
    <3>5. l1.tid = t /\ l1.insn = slots[i].insn /\ Clear(t, tag, w) /\ Unbuffered(t, w)
      BY <3>1, <3>2, <3>4 DEF OutClear
    <3> QED BY <2>1, <3>4, <3>5
  <2>2. CASE /\ ~PrimaryFire /\ Port2Req /\ hit
             /\ r.tid = slots[Probed].tid /\ r.tag = slots[Probed].tag
             /\ r.value = ReadOf(mem[slots[Probed].tid], slots[Probed].insn)
    <3>1. PICK i \in Slots : i = Probed /\ i \in Candidates /\ i \notin OutstandingSlot
      BY <2>2, BroadcastIs DEF Second
    <3>2. slots[i].busy /\ slots[i].tid = t /\ slots[i].tag = tag /\ ~Discarded(i)
      BY <2>2, <3>1 DEF Candidates, Resident, OutstandingSlot, Discarded
    <3>3. slots[i].insn = rob[t][tag].insn
      BY <3>2 DEF SlotsHold, SlotsNamed
    <3>4. Clear(t, tag, w) /\ Unbuffered(t, w)
      BY <3>1, <3>2, <3>3, CandidateClear
    <3> QED BY <2>2, <3>1, <3>2, <3>3, <3>4
  <2> QED BY <1>2, <2>1, <2>2, Zenon
<1>4. PICK i \in Insns : i = rob[t][tag].insn
  BY <1>1
<1>5. \A b \in Covers(i.part) : b \in Halves /\ ReadOf(mem[t], i)[b] = mem[t][w][b]
  BY <1>1, <1>4, MemoryIs
<1>6. \A b \in Halves : mem[t][w][b] = arch[t][w][b]
  BY <1>3, UnbufferedReads
<1> QED BY <1>3, <1>4, <1>5, <1>6

\* An instruction that is dispatched is not finished by the same edge.
LEMMA NewUnfinished ==
  ASSUME PInv, SlotsHold, NEW n, NEW br, NEW d, NEW hit, NEW grant, Edge(n, br, d, hit, grant),
         NEW t \in Threads, NEW tag \in Tags, LanesAt(d, t, tag) # {}
  PROVE  ~rob'[t][tag].done
<1>1. ~InFlight(t, tag)
  <2>1. d \in Dispatches(br) /\ TypeOK
    BY DEF Edge, PInv
  <2> QED BY <2>1, LanesAre
<1>2. \A i \in Slots : ~Held(i, t, tag)
  BY <1>1 DEF Held, Names, SlotsHold, SlotsNamed
<1>3. /\ ~(\E r \in Broadcast(hit, grant) : r.tid = t /\ r.tag = tag)
      /\ ~(\E i \in StoreReady : slots[i].tid = t /\ slots[i].tag = tag)
  BY <1>2, ResultIs
<1>4. tag \notin Unresolved(t)
  BY <1>1 DEF Unresolved
<1>5. rob'[t][tag].done <=>
        \/ \E r \in Broadcast(hit, grant) : r.tid = t /\ r.tag = tag
        \/ \E i \in StoreReady : slots[i].tid = t /\ slots[i].tag = tag
        \/ br[t] # "wait" /\ tag \in Unresolved(t)
        \/ rob[t][tag].done /\ LanesAt(d, t, tag) = {}
  BY RobAfter
<1> QED BY <1>3, <1>4, <1>5, Zenon

\* A load that is finished after the edge has the value it should have.
LEMMA LoadsDoneAfter ==
  ASSUME PInv, SlotsHold, AllSettled, OutClear, LoadsDone,
         NEW n, NEW br, NEW d, NEW hit, NEW grant, Edge(n, br, d, hit, grant)
  PROVE  LoadsDone'
<1> SUFFICES ASSUME NEW t \in Threads, NEW tag \in Tags, NEW w \in Dwords,
                    InFlight(t, tag)', rob'[t][tag].insn.kind = "load", rob'[t][tag].done,
                    rob'[t][tag].insn.dword = w
             PROVE  /\ Clear(t, tag, w)'
                    /\ \A b \in Covers(rob'[t][tag].insn.part) : rob'[t][tag].value[b] = arch'[t][w][b]
  BY DEF LoadsDone
<1>1. LanesAt(d, t, tag) = {}
  BY NewUnfinished
<1>2. Stays(n, br, t, tag) /\ InFlight(t, tag) /\ rob'[t][tag].insn = rob[t][tag].insn
  BY <1>1, WindowAfter, RobAfter DEF Stays
<1>3. \A b \in Covers(rob[t][tag].insn.part) : b \in Halves
  <2>1. rob[t][tag].insn.part \in Parts
    <3>1. rob[t][tag].insn \in Insns
      BY DEF PInv, TypeOK, Entry
    <3> QED BY <3>1, InsnIs
  <2> QED BY <2>1 DEF Covers, Parts, Halves
<1>4. /\ Clear(t, tag, w)
      /\ \A b \in Covers(rob[t][tag].insn.part) : rob'[t][tag].value[b] = arch[t][w][b]
  <2>1. CASE \E r \in Broadcast(hit, grant) : r.tid = t /\ r.tag = tag
    <3>1. PICK r \in Broadcast(hit, grant) : r.tid = t /\ r.tag = tag
      BY <2>1
    <3>2. rob'[t][tag].value = r.value
      BY <3>1, RobAfter
    <3>3. /\ Clear(t, tag, w)
          /\ \A b \in Covers(rob[t][tag].insn.part) : r.value[b] = arch[t][w][b]
      BY <1>2, <3>1, ResultHolds
    <3> QED BY <3>2, <3>3
  <2>2. CASE ~(\E r \in Broadcast(hit, grant) : r.tid = t /\ r.tag = tag)
    <3>1. rob'[t][tag].value = rob[t][tag].value
      BY <2>2, RobAfter
    <3>2. ~(\E i \in StoreReady : slots[i].tid = t /\ slots[i].tag = tag)
      <4> SUFFICES ASSUME \E i \in StoreReady : slots[i].tid = t /\ slots[i].tag = tag PROVE FALSE
        OBVIOUS
      <4>1. PICK i \in Slots : Held(i, t, tag) /\ slots[i].insn.kind = "store"
        BY ResultIs
      <4>2. slots[i].insn = rob[t][tag].insn
        BY <4>1 DEF Held, Names, SlotsHold, SlotsNamed
      <4> QED BY <1>2, <4>1, <4>2
    <3>3. tag \notin Unresolved(t)
      BY <1>2 DEF Unresolved
    <3>4. rob'[t][tag].done <=>
            \/ \E r \in Broadcast(hit, grant) : r.tid = t /\ r.tag = tag
            \/ \E i \in StoreReady : slots[i].tid = t /\ slots[i].tag = tag
            \/ br[t] # "wait" /\ tag \in Unresolved(t)
            \/ rob[t][tag].done /\ LanesAt(d, t, tag) = {}
      BY RobAfter
    <3>5. rob[t][tag].done
      BY <2>2, <3>2, <3>3, <3>4, Zenon
    <3>6. /\ Clear(t, tag, w)
          /\ \A b \in Covers(rob[t][tag].insn.part) : rob[t][tag].value[b] = arch[t][w][b]
      BY <1>2, <3>5 DEF LoadsDone
    <3> QED BY <3>1, <3>6
  <2> QED BY <2>1, <2>2
<1>5. Clear(t, tag, w)' /\ \A b \in Halves : arch'[t][w][b] = arch[t][w][b]
  BY <1>2, <1>4, ClearAfter
<1> QED BY <1>2, <1>3, <1>4, <1>5

(***************************************************************************)
(* MInv is inductive.                                                      *)
(***************************************************************************)

\* It holds at reset.
LEMMA InitMemory ==
  ASSUME Init
  PROVE  MInv
<1>1. SInv /\ TypeOK
  BY InitSlots DEF SInv, PInv
<1>2. /\ Buffered = {} /\ ~drain.valid /\ ~out.valid /\ mem = arch
  BY DEF Init, Buffered
<1>3. \A t \in Threads, tag \in Tags : ~InFlight(t, tag)
  <2> SUFFICES ASSUME NEW t \in Threads, NEW tag \in Tags PROVE ~InFlight(t, tag)
    OBVIOUS
  <2>1. head[t] \in Tags /\ count[t] = 0
    BY <1>1 DEF Init, TypeOK
  <2>2. Age(t, tag) \in 0 .. Depth - 1
    BY <2>1, AgesIs
  <2> QED BY <2>1, <2>2, LsqAssumption DEF InFlight
<1>4. BufferOK
  BY <1>2 DEF BufferOK, HoldsStores, DrainAtL1, NoOverlap
<1>5. AllSettled
  BY <1>2 DEF AllSettled, SettledAt, Buffering
<1>6. OutClear /\ LoadsDone
  BY <1>2, <1>3 DEF OutClear, LoadsDone
<1> QED BY <1>1, <1>4, <1>5, <1>6 DEF MInv, MemoryHolds

\* Every edge preserves it, or is a collision.
LEMMA NextMemory ==
  ASSUME StoresNest, MInv, Next
  PROVE  MInv'
<1>1. PICK n, br, d, hit, grant : Edge(n, br, d, hit, grant)
  BY NextIs
<1>2. SInv /\ SInv' /\ PInv /\ PInv'
  BY NextSlots DEF MInv, SInv
<1>3. SUFFICES ASSUME ~torn' PROVE MemoryHolds'
  BY <1>2 DEF MInv
<1>4. ~torn /\ ~Torn(n, br, grant)
  BY <1>1, <1>3 DEF Edge
<1>5. SlotsHold /\ BufferOK /\ AllSettled /\ OutClear /\ LoadsDone
  BY <1>2, <1>4 DEF SInv, MInv, MemoryHolds
<1>6. BufferOK'
  BY <1>1, <1>2, <1>4, <1>5, NextBuffer
<1>7. ASSUME NEW t \in Threads, NEW w \in Dwords, NEW b \in Halves PROVE SettledAt(t, w, b)'
  BY <1>1, <1>2, <1>4, <1>5, <1>6, SettledAfter
<1>8. AllSettled'
  BY <1>7 DEF AllSettled
<1>9. OutClear' /\ LoadsDone'
  BY <1>1, <1>2, <1>4, <1>5, OutClearAfter, LoadsDoneAfter
<1> QED BY <1>6, <1>8, <1>9 DEF MemoryHolds

\* Nor does an edge on which nothing happens change it.
LEMMA IdleMemory ==
  ASSUME MInv, UNCHANGED vars
  PROVE  MInv'
<1>1. PInv'
  BY DEF vars, MInv, SInv, PInv, TypeOK, ThreadsOK, OneBranch, PortOK, Unresolved, InFlight, Age
<1>2. SlotsHold => SlotsHold'
  <2>1. SlotsNamed => SlotsNamed'
    BY DEF vars, SlotsNamed, Discarded, InFlight, Age
  <2>2. HeldOnce => HeldOnce'
    BY DEF vars, HeldOnce, Held, Names, Discarded, InFlight, Age
  <2>3. MemoryOnly /\ OutHeld => MemoryOnly' /\ OutHeld'
    BY DEF vars, MemoryOnly, OutHeld, Names
  <2> QED BY <2>1, <2>2, <2>3 DEF SlotsHold
<1>3. BufferOK => BufferOK'
  BY DEF vars, BufferOK, HoldsStores, DrainAtL1, NoOverlap, Buffered, InDrain
<1>4. AllSettled => AllSettled'
  BY DEF vars, AllSettled, SettledAt, Buffering, Buffered, InDrain
<1>5. OutClear /\ LoadsDone => OutClear' /\ LoadsDone'
  BY DEF vars, OutClear, LoadsDone, Clear, Unbuffered, InFlight, Age, Buffered
<1>6. torn' = torn
  BY DEF vars
<1> QED BY <1>1, <1>2, <1>3, <1>4, <1>5, <1>6 DEF MInv, SInv, MemoryHolds

\* Until a collision no retired store is lost or overtaken on its way to
\* memory, if the stores of the program nest.
\* (StoresSettleInOrder of LsqProperties.)
THEOREM StoresAlwaysSettle == StoresNest => (Spec => []StoresSettleInOrder)
<1> SUFFICES ASSUME StoresNest PROVE Spec => []StoresSettleInOrder
  OBVIOUS
<1>1. Init => MInv
  BY InitMemory
<1>2. MInv /\ [Next]_vars => MInv'
  BY NextMemory, IdleMemory
<1>3. MInv => StoresSettleInOrder
  <2> SUFFICES ASSUME MInv, ~torn, NEW t \in Threads, NEW d \in Dwords, NEW b \in Halves
               PROVE  LET X == Buffering(t, d, b) IN
                      /\ X = {} => mem[t][d][b] = arch[t][d][b]
                      /\ \A x \in X : X = {x} => sbuf[x].insn.data = arch[t][d][b]
    BY DEF StoresSettleInOrder, StoresSettle
  <2>1. SettledAt(t, d, b)
    BY DEF MInv, MemoryHolds, AllSettled
  <2> QED BY <2>1 DEF SettledAt
<1> QED BY <1>1, <1>2, <1>3, PTL DEF Spec

\* Until a collision a load that is finished has what the stores before it in
\* program order leave, although it ran ahead of them.
\* (LoadsSeeProgramOrder of LsqProperties.)
THEOREM LoadsAlwaysSeeProgramOrder == StoresNest => (Spec => []LoadsSeeProgramOrder)
<1> SUFFICES ASSUME StoresNest PROVE Spec => []LoadsSeeProgramOrder
  OBVIOUS
<1>1. Init => MInv
  BY InitMemory
<1>2. MInv /\ [Next]_vars => MInv'
  BY NextMemory, IdleMemory
<1>3. MInv => LoadsSeeProgramOrder
  <2> SUFFICES ASSUME MInv, ~torn, NEW t \in Threads, NEW tag \in Tags,
                      InFlight(t, tag), rob[t][tag].insn.kind = "load", rob[t][tag].done,
                      NEW b \in Covers(rob[t][tag].insn.part)
               PROVE  rob[t][tag].value[b] = Before(t, tag, rob[t][tag].insn.dword, b)
    BY DEF LoadsSeeProgramOrder
  <2>1. PICK w \in Dwords : w = rob[t][tag].insn.dword
    <3>1. rob[t][tag].insn \in Insns
      BY DEF MInv, SInv, PInv, TypeOK, Entry
    <3> QED BY <3>1, InsnIs
  <2>2. Clear(t, tag, w) /\ rob[t][tag].value[b] = arch[t][w][b]
    BY <2>1 DEF MInv, MemoryHolds, LoadsDone
  <2>3. OlderStores(t, tag, w, b) = {}
    BY <2>2 DEF OlderStores, Clear
  <2> QED BY <2>1, <2>2, <2>3 DEF Before
<1> QED BY <1>1, <1>2, <1>3, PTL DEF Spec
=============================================================================
