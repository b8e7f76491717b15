------------------------------- MODULE Rename -------------------------------
(***************************************************************************)
(* Register renaming, speculation and in-order retirement of one hardware  *)
(* thread of the RV64I_OOO core: its reorder buffer (rob.v), its register  *)
(* alias table with the one checkpoint (rat.v), its branch station         *)
(* (branch_rs.v), the dispatch, misprediction and commit logic of          *)
(* riscv64_ooo_proc.v and the part of the reservation stations that all    *)
(* units share: wait for an operand's tag, capture it from the CDB,        *)
(* broadcast, be squashed by age (alu_rs.v, mul_rs.v).                     *)
(*                                                                         *)
(* One step is one clock edge: every primed variable is computed from the  *)
(* registers before the edge. What the thread does not control is chosen   *)
(* at each edge: which ready results the CDB carries, whether the store    *)
(* port is free, what is fetched and whether a station has room for it.    *)
(* The other thread has its own rob, rat and branch_rs and shows only in   *)
(* those choices and in active, the dispatch turn.                         *)
(*                                                                         *)
(* Some things are not in the hardware: what an rob entry's instruction    *)
(* reads and where it was fetched (in rob[t].insn), the way it went        *)
(* (rob[t].went), and the histories retired, path and torn.                *)
(***************************************************************************)
EXTENDS Insn, Integers, FiniteSets

CONSTANTS Depth,      \* reorder-buffer entries (ROB_DEPTH)
          Width,      \* instructions dispatched, and retired, in a cycle at most
          CdbWidth,   \* results broadcast in a cycle at most
          Program     \* the instructions fetch may deliver

ASSUME RenameAssumption ==
  /\ Depth \in Nat \ {0} /\ Width \in 1 .. Depth /\ CdbWidth \in Nat \ {0}
  /\ Program \subseteq Insns
  /\ \A i \in Program : i.kind \in {"store", "branch", "ecall"} => i.rd = 0

VARIABLES head, tail, count,         \* rob.v: the ring
          rob,                       \* rob.v: its entries
          rat, cp,                   \* rat.v: the table and its checkpoint
          rf,                        \* the architectural register file
          rs,                        \* the station entry of each tag
          br,                        \* branch_rs.v: tag of its entry, or NoTag
          spec_active, predicted,    \* a prediction is outstanding; which way
          jalr_stall,                \* an unpredicted JALR is outstanding
          active,                    \* it is this thread's turn to dispatch
          pc, pc_latched,            \* the way of the fetch now asked for, and of
                                     \* the one now visible to dispatch
          fetch_valid,               \* the visible fetch is not a leftover
          halt,                      \* ecall_halt
          retired,                   \* history: what the last edge retired
          path,                      \* history: the way of the last branch-class
                                     \* instruction that retired
          torn                       \* history: see TornRestore

ring  == <<head, tail, count, rob>>
table == <<rat, cp, rf>>
front == <<active, pc, pc_latched, fetch_valid>>
vars  == <<ring, table, front, rs, br, spec_active, predicted, jalr_stall,
           halt, retired, path, torn>>

Tags    == 0 .. Depth - 1
NoTag   == Depth
NoWay   == 2
Fetched == [kind : Kinds, rd : 0 .. NRegs, src : 0 .. NRegs, path : Paths]

(***************************************************************************)
(* Ring arithmetic: tags wrap at Depth, ages are distances from head.      *)
(***************************************************************************)
Plus(t, n)  == IF t + n < Depth THEN t + n ELSE t + n - Depth
Age(t)      == IF t >= head THEN t - head ELSE t - head + Depth
InFlight(t) == t \in Tags /\ Age(t) < count
FreePlusOne == Depth - count + 1   \* mutant of Free
Free        == Depth - count
Kind(t)     == rob[t].insn.kind

(***************************************************************************)
(* Issue. Ready entries that produce a value ask for the CDB; a            *)
(* conditional branch resolves as soon as its operand is known, a jump     *)
(* when its return address is granted.                                     *)
(***************************************************************************)
Ready     == {t \in Tags : rs[t].busy /\ rs[t].ready}
Requests  == {t \in Ready : Kind(t) \in Broadcasts}
Grants    == {B \in SUBSET Requests : Cardinality(B) <= CdbWidth}
CdbVal(t) == Result(rob[t].insn, rs[t].val)

Resolved(B) == br # NoTag /\ IF Kind(br) = "branch" THEN rs[br].ready ELSE br \in B
Target      == Outcome(rs[br].val)
Mispredict(B) == spec_active /\ Resolved(B) /\ Target # predicted
Redirect(B)   == Mispredict(B) \/ (jalr_stall /\ Resolved(B))

\* Mutant of Squashed: the instruction right behind the branch stays.
SquashedFromSecond == {t \in Tags : rs[t].busy /\ Age(t) > Age(br) + 1}

\* Entries the squash of the branch at br removes from the stations.
Squashed == {t \in Tags : rs[t].busy /\ Age(t) > Age(br)}

(***************************************************************************)
(* Commit: the longest run of finished entries at the head, at most Width  *)
(* of them, with at most one store, which needs the store port, and with   *)
(* nothing behind an ecall.                                                *)
(***************************************************************************)
Position(i) == Plus(head, i)
\* Mutant of Retirable: an ecall is no barrier.
RetirableNoBarrier(n, ok) ==
  /\ n <= count
  /\ \A i \in 0 .. n - 1 :
       /\ rob[Position(i)].done
       /\ Kind(Position(i)) = "store" =>
            ok /\ \A j \in 0 .. i - 1 : Kind(Position(j)) # "store"

Retirable(n, ok) ==
  /\ n <= count
  /\ \A i \in 0 .. n - 1 :
       /\ rob[Position(i)].done
       /\ Kind(Position(i)) = "store" =>
            ok /\ \A j \in 0 .. i - 1 : Kind(Position(j)) # "store"
       /\ Kind(Position(i)) = "ecall" => i = n - 1
RetireCount(ok) == CHOOSE n \in 0 .. Width :
                     /\ Retirable(n, ok)
                     /\ \A m \in n + 1 .. Width : ~Retirable(m, ok)

\* How many retire at an edge, with the store port free or not, and which.
Retires == {RetireCount(ok) : ok \in BOOLEAN}
Retiring(n) == {Position(i) : i \in 0 .. n - 1}

\* Retiring tags with destination register r.
Writers(n, r) == {t \in Retiring(n) : rob[t].insn.rd = r}

Youngest(T) == CHOOSE t \in T : \A u \in T : Age(u) <= Age(t)

\* Commit writes the register file in order: the youngest writer wins.
Committed(n) ==
  [r \in Regs |-> IF Writers(n, r) = {} THEN rf[r]
                  ELSE rob[Youngest(Writers(n, r))].value]

\* Retiring instructions that decide which way the program goes.
Turns(n) == {t \in Retiring(n) : Kind(t) \in {"branch", "jalr"}}

\* Mutant of Cleared: whoever writes r at commit frees it.
ClearedAnyway(m, n) ==
  [r \in Regs |-> IF Writers(n, r) # {} THEN [m[r] EXCEPT !.busy = FALSE] ELSE m[r]]

\* Commit frees a register's mapping if it still names the retiring tag.
Cleared(m, n) ==
  [r \in Regs |-> IF m[r].tag \in Writers(n, r) THEN [m[r] EXCEPT !.busy = FALSE]
                  ELSE m[r]]

(***************************************************************************)
(* Dispatch of the group g, g[i] in lane i - 1 with tag Plus(tail, i - 1). *)
(***************************************************************************)
LaneTag(i) == Plus(tail, i - 1)
Allocated(g) == {LaneTag(i) : i \in DOMAIN g}
Lane(g, t) == CHOOSE i \in DOMAIN g : LaneTag(i) = t

\* Mutant of Feeders: no bypass from earlier lanes.
FeedersNone(g, i, r) == {}

\* Earlier lanes of the group that write register r.
Feeders(g, i, r) == {j \in 1 .. i - 1 : r # 0 /\ g[j].rd = r}

Waiting(t) == [busy |-> TRUE, ready |-> FALSE, val |-> 0, tag |-> t]
Holding(v) == [busy |-> TRUE, ready |-> TRUE, val |-> v, tag |-> 0]
Idle       == [busy |-> FALSE, ready |-> FALSE, val |-> 0, tag |-> 0]

\* Mutant of Capture: no look into the rob.
CaptureNoLookup(B, g, i) ==
  LET r == g[i].src
      f == Feeders(g, i, r)
  IN  IF g[i].kind \in {"jal", "ecall"} \/ r = 0 THEN Holding(0)
      ELSE IF f # {}           THEN Waiting(LaneTag(Max(f)))
      ELSE IF ~rat[r].busy     THEN Holding(rf[r])
      ELSE IF rat[r].tag \in B THEN Holding(CdbVal(rat[r].tag))
      ELSE Waiting(rat[r].tag)

\* The station entry of lane i: where it finds, or awaits, its operand.
Capture(B, g, i) ==
  LET r == g[i].src
      f == Feeders(g, i, r)
  IN  IF g[i].kind \in {"jal", "ecall"} \/ r = 0 THEN Holding(0)
      ELSE IF f # {}             THEN Waiting(LaneTag(Max(f)))
      ELSE IF ~rat[r].busy       THEN Holding(rf[r])
      ELSE IF rat[r].tag \in B   THEN Holding(CdbVal(rat[r].tag))
      ELSE IF rob[rat[r].tag].done THEN Holding(rob[rat[r].tag].value)
      ELSE Waiting(rat[r].tag)

Renamed(m, g) ==
  [r \in Regs |-> LET w == {i \in DOMAIN g : g[i].rd = r}
                  IN  IF w = {} THEN m[r] ELSE [busy |-> TRUE, tag |-> LaneTag(Max(w))]]

\* What lane 0 is predicted to do: a conditional branch goes the way the
\* branch history says, a JALR the way the return stack or the target buffer
\* says, or, if neither knows it, no way: fetch then stalls.
Predictions(i) == CASE i.kind = "branch" -> Paths
                    [] i.kind = "jalr"   -> Paths \cup {NoWay}
                    [] OTHER             -> {NoWay}

\* Lane 0 sends fetch elsewhere, so what lies behind it is not dispatched.
BreaksFlow(i, way) == i.kind \in {"jal", "jalr"} \/ (i.kind = "branch" /\ way = 1)

\* The groups dispatch may accept with lane 0 predicted to go way.
Groups == UNION {[1 .. n -> Program] : n \in 1 .. Width}
Accepts(g, way) ==
  /\ Len(g) <= Free
  /\ g[1].kind \in BranchClass => br = NoTag
  /\ \A i \in 2 .. Len(g) : g[i].kind \notin BranchClass
  /\ Len(g) > 1 => ~BreaksFlow(g[1], way)

\* The group as fetched: along pc_latched, and behind a branch along way.
OnPath(g, way) ==
  [i \in DOMAIN g |->
     [kind |-> g[i].kind, rd |-> g[i].rd, src |-> g[i].src,
      path |-> IF i > 1 /\ g[1].kind = "branch" THEN way ELSE pc_latched]]

(***************************************************************************)
(* What an edge does whether or not it dispatches or rolls back.           *)
(***************************************************************************)
\* rob entries marked done: broadcasts, a resolved branch, ready stores.
Marked(B) == B \cup {t \in Ready : Kind(t) \in {"store", "branch"}}

RobNext(B, g) ==
  [t \in Tags |->
     [done  |-> t \in Marked(B) \/ (rob[t].done /\ t \notin Allocated(g)),
      value |-> IF t \in B THEN CdbVal(t) ELSE rob[t].value,
      went  |-> IF Resolved(B) /\ t = br THEN Target ELSE rob[t].went,
      insn  |-> IF t \in Allocated(g) THEN g[Lane(g, t)] ELSE rob[t].insn]]

\* Stations: a result leaves when broadcast, a branch when resolved, a store
\* when retired; a waiting operand is captured from the CDB.
Vacated(B, n) == B \cup (IF Resolved(B) THEN {br} ELSE {})
                   \cup {t \in Retiring(n) : Kind(t) = "store"}

Snooped(B, t) == IF rs[t].busy /\ ~rs[t].ready /\ rs[t].tag \in B
                 THEN Holding(CdbVal(rs[t].tag)) ELSE rs[t]

Stations(B, n, gone, g) ==
  [t \in Tags |-> IF t \in Allocated(g) THEN Capture(B, g, Lane(g, t))
                  ELSE IF t \in Vacated(B, n) \cup gone THEN Idle
                  ELSE Snooped(B, t)]

Commit(n) ==
  /\ head' = Plus(head, n)
  /\ rf' = Committed(n)
  /\ halt' = \E t \in Retiring(n) : Kind(t) = "ecall"
  /\ retired' = [i \in 1 .. n |-> rob[Position(i - 1)].insn]
  /\ path' = IF Turns(n) = {} THEN path ELSE rob[Youngest(Turns(n))].went

\* The two ways this code's rollback can leave a wrong alias table: the
\* checkpoint maps a register to a tag that retires at this very edge, or the
\* rolled-back instruction is a JALR whose own destination was renamed.
TornRestore(B, n) ==
  /\ Mispredict(B)
  /\ \/ \E r \in Regs : cp[r].busy /\ cp[r].tag \in Writers(n, r)
     \/ rob[br].insn.rd # 0

Edge(B, n) ==
  /\ Commit(n)
  /\ torn' = (torn \/ TornRestore(B, n))
  /\ active' = ~active
  /\ pc_latched' = pc
  /\ fetch_valid' = ~Redirect(B)

(***************************************************************************)
(* The three kinds of edge.                                                *)
(***************************************************************************)
\* The group g is accepted, with lane 0 predicted to go way.
Accept(B, n, g, way) ==
  LET d == OnPath(g, way)
      speculates == way # NoWay
  IN
  /\ Edge(B, n)
  /\ tail' = Plus(tail, Len(g))
  /\ count' = count + Len(g) - n
  /\ rob' = RobNext(B, d)
  /\ rat' = Renamed(Cleared(rat, n), d)
  /\ cp' = IF speculates THEN Cleared(rat, n) ELSE Cleared(cp, n)
  /\ rs' = Stations(B, n, {}, d)
  /\ br' = IF g[1].kind \in BranchClass THEN tail
           ELSE IF Resolved(B) THEN NoTag ELSE br
  /\ spec_active' = (speculates \/ (spec_active /\ ~Resolved(B)))
  /\ predicted' = IF speculates THEN way ELSE predicted
  /\ jalr_stall' = (g[1].kind = "jalr" /\ ~speculates)
  /\ pc' = IF speculates THEN way ELSE pc_latched

Dispatch(B, n) ==
  /\ active /\ fetch_valid /\ ~jalr_stall /\ ~Mispredict(B)
  /\ \E g \in Groups : \E way \in Predictions(g[1]) :
       Accepts(g, way) /\ Accept(B, n, g, way)

\* Nothing is dispatched: not this thread's turn, nothing fetched, no room
\* in a station, or a branch-class instruction behind an unresolved one.
Hold(B, n) ==
  /\ ~Mispredict(B)
  /\ Edge(B, n)
  /\ count' = count - n
  /\ rob' = RobNext(B, <<>>)
  /\ rat' = Cleared(rat, n)
  /\ cp' = Cleared(cp, n)
  /\ rs' = Stations(B, n, {}, <<>>)
  /\ br' = IF Resolved(B) THEN NoTag ELSE br
  /\ spec_active' = (spec_active /\ ~Resolved(B))
  /\ jalr_stall' = (jalr_stall /\ ~Resolved(B))
  /\ pc' = IF Redirect(B) THEN Target ELSE pc
  /\ UNCHANGED <<tail, predicted>>

\* The branch resolves against its prediction: everything younger goes, and
\* the checkpoint, as it was before this edge, becomes the alias table.
Rollback(B, n) ==
  /\ Mispredict(B)
  /\ Edge(B, n)
  /\ tail' = Plus(br, 1)
  /\ count' = Age(br) + 1 - n
  /\ rob' = RobNext(B, <<>>)
  /\ rat' = cp
  /\ cp' = Cleared(cp, n)
  /\ rs' = Stations(B, n, Squashed, <<>>)
  /\ br' = NoTag
  /\ spec_active' = FALSE /\ jalr_stall' = FALSE
  /\ pc' = Target
  /\ UNCHANGED predicted

-----------------------------------------------------------------------------
NoInsn == [kind |-> "alu", rd |-> 0, src |-> 0, path |-> 0]
Unmapped == [r \in Regs |-> [busy |-> FALSE, tag |-> 0]]

Init ==
  /\ head = 0 /\ tail = 0 /\ count = 0
  /\ rob = [t \in Tags |-> [done |-> FALSE, value |-> 0, went |-> 0, insn |-> NoInsn]]
  /\ rat = Unmapped /\ cp = Unmapped
  /\ rf = [r \in Regs |-> 0]
  /\ rs = [t \in Tags |-> Idle] /\ br = NoTag
  /\ spec_active = FALSE /\ predicted = 0 /\ jalr_stall = FALSE
  /\ active \in BOOLEAN /\ pc = 0 /\ pc_latched = 0 /\ fetch_valid = FALSE
  /\ halt = FALSE /\ retired = <<>> /\ path = 0 /\ torn = FALSE

Step(B, n) == Dispatch(B, n) \/ Hold(B, n) \/ Rollback(B, n)

Next == \E B \in Grants, n \in Retires : Step(B, n)

Spec == Init /\ [][Next]_vars
=============================================================================
