---------------------------- MODULE InOrderProofs ----------------------------
(***************************************************************************)
(* For every depth, width, number of registers and program: the core of    *)
(* one thread, seen from its register file, executes its program in order, *)
(* as long as no rollback was torn.                                        *)
(***************************************************************************)
EXTENDS RenameProofs

(***************************************************************************)
(* What an instruction in flight must hold is what the instructions before *)
(* it leave: in the rob entry of the youngest of them that writes the      *)
(* register, in the register file if there is none.  The same for the way  *)
(* the program counter goes, which until the youngest branch or indirect   *)
(* jump has resolved is the predicted one.                                 *)
(***************************************************************************)
Before(r, a) == {u \in Tags : InFlight(u) /\ Age(u) < a /\ rob[u].insn.rd = r}
ValueBefore(r, a) == IF Before(r, a) = {} THEN rf[r] ELSE rob[Youngest(Before(r, a))].value
KnownBefore(r, a) == Before(r, a) = {} \/ rob[Youngest(Before(r, a))].done

Turning == {"branch", "jalr"}
TurnsBefore(a) == {u \in Tags : InFlight(u) /\ Age(u) < a /\ Kind(u) \in Turning}
WayBefore(a) ==
  IF TurnsBefore(a) = {} THEN path
  ELSE IF rob[Youngest(TurnsBefore(a))].done THEN rob[Youngest(TurnsBefore(a))].went ELSE predicted

Source(t) == rob[t].insn.src
OperandKnown(t) == Source(t) = 0 \/ KnownBefore(Source(t), Age(t))
OperandIs(t) == IF Source(t) = 0 THEN 0 ELSE ValueBefore(Source(t), Age(t))

\* A waiting operand awaits the youngest older writer of its register.
Awaits(t) == rs[t].busy /\ ~rs[t].ready =>
  \A u \in Before(Source(t), Age(t)) : Age(u) <= Age(rs[t].tag)

\* An operand that is held is the one of in-order execution.
Holds(t) == rs[t].busy /\ rs[t].ready /\ Kind(t) \notin {"jal", "ecall"} =>
  OperandKnown(t) /\ rs[t].val = OperandIs(t)

\* So is every result.
Finishes(t) == InFlight(t) /\ rob[t].done =>
  /\ Kind(t) \in {"alu", "branch", "jalr"} => OperandKnown(t)
  /\ rob[t].insn.rd # 0 => rob[t].value = Result(rob[t].insn, OperandIs(t))
  /\ Kind(t) \in Turning => rob[t].went = Outcome(OperandIs(t))

OperandsOK == \A t \in Tags : Awaits(t) /\ Holds(t) /\ Finishes(t)

\* Everything in flight was fetched on the way predicted, or taken, before it.
WaysOK == \A t \in Tags : InFlight(t) => rob[t].insn.path = WayBefore(Age(t))

\* So is what is fetched next, unless fetch waits for a jump.
FrontOK ==
  /\ ~jalr_stall => pc = WayBefore(count)
  /\ ~jalr_stall /\ fetch_valid /\ active => pc_latched = WayBefore(count)
  /\ jalr_stall => Kind(br) = "jalr" /\ Age(br) = count - 1
  /\ spec_active => Kind(br) \in Turning
  /\ br # NoTag /\ Kind(br) \in Turning => spec_active \/ jalr_stall

Exact == OperandsOK /\ WaysOK /\ FrontOK

EInv == RInv /\ (torn \/ Exact)

(***************************************************************************)
(* In-order execution, unfolded.                                           *)
(***************************************************************************)
\* States that follow one from another are those in-order execution reaches.
LEMMA Executed ==
  ASSUME NEW m, NEW s \in Seq(Fetched), NEW A, A = [i \in 0 .. Len(s) |-> A[i]],
         A[0] = m, \A i \in 1 .. Len(s) : A[i] = Architecture!Execute(A[i - 1], s[i])
  PROVE  Architecture!ExecuteAll(m, s) = A[Len(s)]
<1> DEFINE F(g) == [i \in 0 .. Len(s) |-> IF i = 0 THEN m ELSE Architecture!Execute(g[i - 1], s[i])]
<1>1. Len(s) \in Nat
  OBVIOUS
<1>2. A = F(A)
  BY <1>1
<1>3. ASSUME NEW g, g = F(g) PROVE g[Len(s)] = A[Len(s)]
  <2> DEFINE S == {i \in Nat : i <= Len(s) => g[i] = A[i]}
  <2>1. 0 \in S
    BY <1>1, <1>3
  <2>2. ASSUME NEW k \in Nat, k \in S PROVE k + 1 \in S
    <3> SUFFICES ASSUME k + 1 <= Len(s) PROVE g[k + 1] = A[k + 1]
      OBVIOUS
    <3>1. k + 1 \in 1 .. Len(s) /\ k + 1 \in 0 .. Len(s) /\ k + 1 # 0 /\ (k + 1) - 1 = k
      BY <1>1
    <3>2. g[k] = A[k]
      BY <1>1, <2>2
    <3>3. g[k + 1] = Architecture!Execute(g[(k + 1) - 1], s[k + 1])
      BY <1>3, <3>1
    <3>4. A[k + 1] = Architecture!Execute(A[(k + 1) - 1], s[k + 1])
      BY <3>1
    <3> QED BY <3>1, <3>2, <3>3, <3>4
  <2>3. Nat \subseteq S
    <3> HIDE DEF S
    <3> QED BY <2>1, <2>2, SetInduction
  <2>4. Len(s) \in S
    BY <1>1, <2>3
  <2> QED BY <1>1, <2>4
<1>4. \A g : g = F(g) => g[Len(s)] = A[Len(s)]
  BY <1>3
<1>5. PICK h : h = CHOOSE g : g = F(g)
  OBVIOUS
<1>6. h = F(h)
  <2> HIDE DEF F
  <2> QED BY <1>2, <1>5
<1>7. h[Len(s)] = A[Len(s)]
  BY <1>4, <1>6
<1>8. Architecture!ExecuteAll(m, s) = h[Len(s)]
  BY <1>5 DEF Architecture!ExecuteAll
<1> QED BY <1>7, <1>8

(***************************************************************************)
(* The youngest of some instructions, across an edge.                      *)
(***************************************************************************)
\* The youngest of those in flight stays the youngest of those left; if none
\* is left it has retired.
LEMMA YoungestAfter ==
  ASSUME WInv, NEW B, NEW n, NEW d, NEW miss, Moves(B, n, d, miss),
         NEW P \in SUBSET Tags, P # {}, \A t \in P : InFlight(t),
         \A t \in P : Age(t) >= n => Stays(t, n, miss),
         NEW Q, Q = {t \in P : Age(t) >= n}
  PROVE  /\ Youngest(P) \in P
         /\ Q # {} => Youngest(P) \in Q /\ Youngest(Q)' = Youngest(P)
         /\ Q = {} => P \subseteq Retiring(n)
<1>1. head \in Tags /\ count \in 0 .. Depth /\ n \in Retires /\ n \in 0 .. Depth
  BY RetiringIs DEF WInv, TypeOK, Moves
<1>2. /\ \A t \in Tags : Age(t) \in 0 .. Depth - 1
      /\ \A t, u \in Tags : Age(t) = Age(u) => t = u
  BY <1>1, Ages
<1>3. Youngest(P) \in P /\ \A u \in P : Age(u) <= Age(Youngest(P))
  BY <1>1, YoungestIs
<1>4. ASSUME Q # {} PROVE Youngest(P) \in Q /\ Youngest(Q)' = Youngest(P)
  <2>1. PICK y \in P : y = Youngest(P)
    BY <1>3
  <2>2. y \in Q
    <3>1. PICK q \in Q : TRUE
      BY <1>4
    <3>2. Age(q) >= n /\ Age(q) <= Age(y) /\ q \in Tags /\ y \in Tags
      BY <1>3, <2>1, <3>1
    <3> QED BY <1>1, <1>2, <3>2
  <2>3. \A t \in Q : Age(t)' = Age(t) - n
    BY WindowAfter
  <2>4. \A u \in Q : Age(u)' <= Age(y)'
    BY <1>1, <1>2, <1>3, <2>1, <2>2, <2>3
  <2>5. ASSUME NEW z \in Q, \A u \in Q : Age(u)' <= Age(z)' PROVE z = y
    <3>1. Age(y)' <= Age(z)' /\ Age(z)' <= Age(y)'
      BY <2>2, <2>4, <2>5
    <3>2. Age(y)' = Age(y) - n /\ Age(z)' = Age(z) - n /\ y \in Tags /\ z \in Tags
      BY <2>2, <2>3, <2>5
    <3>3. Age(y) = Age(z)
      BY <1>1, <1>2, <3>1, <3>2
    <3> QED BY <1>2, <3>2, <3>3
  <2>6. Youngest(Q)' = CHOOSE t \in Q : \A u \in Q : Age(u)' <= Age(t)'
    BY DEF Youngest
  <2>7. Youngest(Q)' = y
    BY <2>2, <2>4, <2>5, <2>6
  <2> QED BY <2>1, <2>2, <2>7
<1>5. ASSUME Q = {} PROVE P \subseteq Retiring(n)
  <2>1. ASSUME NEW t \in P PROVE Age(t) < n
    BY <1>1, <1>2, <1>5, <2>1
  <2> QED BY <1>1, <2>1, RetiringIs
<1> QED BY <1>3, <1>4, <1>5

\* What comes before an age is, after the edge, what is left of it.
LEMMA OlderAfter ==
  ASSUME WInv, NEW B, NEW n, NEW d, NEW miss, Moves(B, n, d, miss), NEW a \in Int, a <= count,
         \A u \in Tags : InFlight(u) /\ Age(u) >= n /\ Age(u) < a => Stays(u, n, miss),
         NEW t \in Tags
  PROVE  InFlight(t)' /\ Age(t)' < a - n <=> InFlight(t) /\ Age(t) < a /\ Age(t) >= n
<1>1. head \in Tags /\ count \in 0 .. Depth /\ n \in Retires /\ n \in 0 .. Depth
      /\ Len(d) <= Free /\ d \in Seq(Fetched)
  BY RetiringIs DEF WInv, TypeOK, Moves
<1>2. Age(t) \in 0 .. Depth - 1
  BY <1>1, Ages
<1>3. /\ InFlight(t)' <=> t \in Allocated(d) \/ Stays(t, n, miss)
      /\ t \in Allocated(d) => Age(t)' = count - n + Lane(d, t) - 1
      /\ Stays(t, n, miss) => Age(t)' = Age(t) - n
  BY WindowAfter
<1>4. t \in Allocated(d) => ~InFlight(t) /\ Lane(d, t) \in 1 .. Len(d)
  BY <1>1, LaneIs
<1>5. Stays(t, n, miss) => InFlight(t) /\ Age(t) >= n
  BY DEF Stays
<1>6. CASE t \in Allocated(d)
  <2>1. Age(t)' = count - n + Lane(d, t) - 1 /\ Lane(d, t) >= 1 /\ Lane(d, t) \in Int
    BY <1>3, <1>4, <1>6
  <2>2. ~(Age(t)' < a - n)
    BY <1>1, <2>1
  <2> QED BY <1>4, <1>6, <2>2
<1>7. CASE Stays(t, n, miss)
  <2>1. Age(t)' < a - n <=> Age(t) < a
    BY <1>1, <1>2, <1>3, <1>7
  <2> QED BY <1>3, <1>5, <1>7, <2>1
<1>8. CASE t \notin Allocated(d) /\ ~Stays(t, n, miss)
  <2>1. ~InFlight(t)'
    BY <1>3, <1>8
  <2> QED BY <1>8, <2>1
<1> QED BY <1>6, <1>7, <1>8

\* The same for the writers of a register and for the turns.
LEMMA BeforeAfter ==
  ASSUME WInv, NEW B, NEW n, NEW d, NEW miss, Moves(B, n, d, miss), NEW a \in Int, a <= count,
         \A u \in Tags : InFlight(u) /\ Age(u) >= n /\ Age(u) < a => Stays(u, n, miss)
  PROVE  /\ \A r \in Regs : Before(r, a - n)' = {u \in Before(r, a) : Age(u) >= n}
         /\ TurnsBefore(a - n)' = {u \in TurnsBefore(a) : Age(u) >= n}
<1>1. \A t \in Tags : InFlight(t)' /\ Age(t)' < a - n <=> InFlight(t) /\ Age(t) < a /\ Age(t) >= n
  BY OlderAfter
<1>2. ASSUME NEW t \in Tags, InFlight(t) PROVE rob'[t].insn = rob[t].insn
  <2>1. t \notin Allocated(d)
    BY <1>2, LaneIs DEF Moves
  <2> QED BY <2>1, EntryAfter
<1>3. ASSUME NEW r \in Regs PROVE Before(r, a - n)' = {u \in Before(r, a) : Age(u) >= n}
  <2>1. ASSUME NEW t \in Tags
        PROVE  InFlight(t)' /\ Age(t)' < a - n /\ rob'[t].insn.rd = r <=>
               InFlight(t) /\ Age(t) < a /\ rob[t].insn.rd = r /\ Age(t) >= n
    BY <1>1, <1>2
  <2>2. Before(r, a - n)' = {t \in Tags : InFlight(t)' /\ Age(t)' < a - n /\ rob'[t].insn.rd = r}
    BY DEF Before, Tags
  <2>3. {u \in Before(r, a) : Age(u) >= n} =
          {t \in Tags : InFlight(t) /\ Age(t) < a /\ rob[t].insn.rd = r /\ Age(t) >= n}
    BY DEF Before
  <2> QED BY <2>1, <2>2, <2>3
<1>4. TurnsBefore(a - n)' = {u \in TurnsBefore(a) : Age(u) >= n}
  <2>1. ASSUME NEW t \in Tags
        PROVE  InFlight(t)' /\ Age(t)' < a - n /\ rob'[t].insn.kind \in Turning <=>
               InFlight(t) /\ Age(t) < a /\ Kind(t) \in Turning /\ Age(t) >= n
    BY <1>1, <1>2 DEF Kind
  <2>2. TurnsBefore(a - n)' =
          {t \in Tags : InFlight(t)' /\ Age(t)' < a - n /\ rob'[t].insn.kind \in Turning}
    BY DEF TurnsBefore, Tags, Kind, Turning
  <2>3. {u \in TurnsBefore(a) : Age(u) >= n} =
          {t \in Tags : InFlight(t) /\ Age(t) < a /\ Kind(t) \in Turning /\ Age(t) >= n}
    BY DEF TurnsBefore
  <2> QED BY <2>1, <2>2, <2>3
<1> QED BY <1>3, <1>4

\* What retires of the writers of r is the part of them older than n.
LEMMA WritersAre ==
  ASSUME WInv, NEW n \in Retires, NEW i \in 0 .. n
  PROVE  /\ Retiring(i) = {t \in Tags : Age(t) < i}
         /\ \A r : Before(r, i) = Writers(i, r)
         /\ TurnsBefore(i) = Turns(i)
         /\ \A t \in Retiring(i) : t \in Tags /\ InFlight(t) /\ rob[t].done
<1>1. head \in Tags /\ count \in 0 .. Depth /\ n \in 0 .. count /\ n \in 0 .. Depth
      /\ Retiring(n) = {t \in Tags : Age(t) < n}
      /\ \A t \in Retiring(n) : t \in Tags /\ InFlight(t) /\ rob[t].done
  BY RetiringIs DEF WInv, TypeOK
<1>2. /\ \A t \in Tags : Age(t) \in 0 .. Depth - 1 /\ Position(Age(t)) = t
      /\ \A j \in 0 .. Depth - 1 : Position(j) \in Tags /\ Age(Position(j)) = j
  BY <1>1, Ages
<1>3. Retiring(i) = {t \in Tags : Age(t) < i}
  <2>1. ASSUME NEW t \in Retiring(i) PROVE t \in Tags /\ Age(t) < i
    <3>1. PICK j \in 0 .. i - 1 : t = Position(j)
      BY DEF Retiring
    <3>2. j \in 0 .. Depth - 1 /\ j < i
      BY <1>1, RenameAssumption
    <3> QED BY <1>2, <3>1, <3>2
  <2>2. ASSUME NEW t \in Tags, Age(t) < i PROVE t \in Retiring(i)
    <3>1. Age(t) \in 0 .. i - 1
      BY <1>1, <1>2, <2>2
    <3> QED BY <3>1, <1>2 DEF Retiring
  <2> QED BY <2>1, <2>2
<1>4. \A t \in Tags : Age(t) < i => Age(t) < n /\ Age(t) < count
  BY <1>1, <1>2
<1>5. \A t \in Retiring(i) : t \in Tags /\ InFlight(t) /\ rob[t].done
  BY <1>1, <1>3, <1>4
<1>6. \A t \in Tags : InFlight(t) /\ Age(t) < i <=> t \in Retiring(i)
  BY <1>3, <1>5
<1>7. \A r : Before(r, i) = Writers(i, r)
  BY <1>3, <1>6 DEF Before, Writers
<1>8. TurnsBefore(i) = Turns(i)
  BY <1>3, <1>6 DEF TurnsBefore, Turns, Turning
<1> QED BY <1>3, <1>5, <1>7, <1>8

(***************************************************************************)
(* Operands.  A value known before an age stays known and stays the same,  *)
(* whether its writer waits in the rob or retires.                         *)
(***************************************************************************)
\* What the youngest writer before an age is after the edge.
LEMMA WriterAfter ==
  ASSUME WInv, NEW B, NEW n, NEW d, NEW miss, Moves(B, n, d, miss), rf' = Committed(n),
         NEW a \in Int, n <= a, a <= count,
         \A u \in Tags : InFlight(u) /\ Age(u) >= n /\ Age(u) < a => Stays(u, n, miss),
         NEW r \in Regs, NEW P, P = Before(r, a), NEW y, y = Youngest(P)
  PROVE  /\ P = {} => /\ KnownBefore(r, a - n)' /\ ValueBefore(r, a - n)' = rf[r]
         /\ P # {} => /\ y \in P
                      /\ \/ /\ KnownBefore(r, a - n)' /\ ValueBefore(r, a - n)' = rob[y].value
                            /\ rob[y].done
                         \/ /\ KnownBefore(r, a - n)' <=> rob'[y].done
                            /\ ValueBefore(r, a - n)' = rob'[y].value
                            /\ Stays(y, n, miss)
<1>1. PICK Q : Q = Before(r, a - n)'
  OBVIOUS
<1>2. /\ KnownBefore(r, a - n)' <=> Q = {} \/ rob'[Youngest(Q)'].done
      /\ ValueBefore(r, a - n)' = IF Q = {} THEN rf'[r] ELSE rob'[Youngest(Q)'].value
  <2>1. Youngest(Before(r, a - n))' = Youngest(Q)'
    BY <1>1 DEF Youngest
  <2> QED BY <1>1, <2>1 DEF KnownBefore, ValueBefore
<1>3. Q = {t \in P : Age(t) >= n}
  BY <1>1, BeforeAfter
<1>4. P \in SUBSET Tags /\ \A t \in P : InFlight(t) /\ Age(t) < a /\ rob[t].insn.rd = r
  BY DEF Before
<1>5. \A t \in P : Age(t) >= n => Stays(t, n, miss)
  BY <1>4
<1>6. rf'[r] = IF Writers(n, r) = {} THEN rf[r] ELSE rob[Youngest(Writers(n, r))].value
  BY DEF Committed
<1>7. Writers(n, r) = {t \in P : Age(t) < n}
  <2>1. n \in Retires /\ n \in 0 .. n /\ n \in 0 .. count /\ head \in Tags /\ count \in 0 .. Depth
        /\ Depth \in Int
    BY RetiringIs, RenameAssumption DEF Moves, WInv, TypeOK
  <2>2. Writers(n, r) = Before(r, n)
    BY <2>1, WritersAre
  <2>3. \A t \in Tags : Age(t) \in 0 .. Depth - 1
    BY <2>1, Ages
  <2>4. \A t \in Tags : Age(t) < n => Age(t) < a
    BY <2>1, <2>3
  <2> QED BY <2>2, <2>4 DEF Before
<1>8. ASSUME P = {}
      PROVE  KnownBefore(r, a - n)' /\ ValueBefore(r, a - n)' = rf[r]
  <2>1. Q = {} /\ Writers(n, r) = {}
    BY <1>3, <1>7, <1>8
  <2> QED BY <1>2, <1>6, <2>1
<1>9. ASSUME P # {}
      PROVE  /\ y \in P
             /\ Q # {} => y \in Q /\ Youngest(Q)' = y
             /\ Q = {} => P \subseteq Retiring(n)
  BY <1>3, <1>4, <1>5, <1>9, YoungestAfter
<1>10. ASSUME P # {}, Q = {}
       PROVE  /\ KnownBefore(r, a - n)' /\ ValueBefore(r, a - n)' = rob[y].value
              /\ rob[y].done
  <2>1. P \subseteq Retiring(n)
    BY <1>9, <1>10
  <2>2. n \in Retires /\ head \in Tags /\ count \in 0 .. Depth
    BY DEF Moves, WInv, TypeOK
  <2>3. \A t \in Retiring(n) : t \in Tags /\ Age(t) < n /\ rob[t].done
    BY <2>2, RetiringIs
  <2>4. Writers(n, r) = P
    BY <1>7, <2>1, <2>3
  <2> QED BY <1>2, <1>6, <1>9, <1>10, <2>1, <2>3, <2>4
<1>11. ASSUME P # {}, Q # {}
       PROVE  /\ KnownBefore(r, a - n)' <=> rob'[y].done
              /\ ValueBefore(r, a - n)' = rob'[y].value
              /\ Stays(y, n, miss)
  BY <1>2, <1>3, <1>5, <1>9, <1>11
<1> QED BY <1>8, <1>9, <1>10, <1>11

\* A known value stays what it is.
LEMMA ValueKept ==
  ASSUME WInv, NEW B, NEW n, NEW d, NEW miss, Moves(B, n, d, miss), rf' = Committed(n),
         NEW a \in Int, n <= a, a <= count,
         \A u \in Tags : InFlight(u) /\ Age(u) >= n /\ Age(u) < a => Stays(u, n, miss),
         NEW r \in Regs, KnownBefore(r, a)
  PROVE  KnownBefore(r, a - n)' /\ ValueBefore(r, a - n)' = ValueBefore(r, a)
<1>1. PICK P : P = Before(r, a)
  OBVIOUS
<1>2. PICK y : y = Youngest(P)
  OBVIOUS
<1>3. /\ KnownBefore(r, a) <=> P = {} \/ rob[y].done
      /\ ValueBefore(r, a) = IF P = {} THEN rf[r] ELSE rob[y].value
  BY <1>1, <1>2 DEF KnownBefore, ValueBefore
<1>4. /\ P = {} => KnownBefore(r, a - n)' /\ ValueBefore(r, a - n)' = rf[r]
      /\ P # {} => /\ y \in P
                   /\ \/ /\ KnownBefore(r, a - n)' /\ ValueBefore(r, a - n)' = rob[y].value
                         /\ rob[y].done
                      \/ /\ KnownBefore(r, a - n)' <=> rob'[y].done
                         /\ ValueBefore(r, a - n)' = rob'[y].value
                         /\ Stays(y, n, miss)
  BY <1>1, <1>2, WriterAfter
<1>5. CASE P = {}
  BY <1>3, <1>4, <1>5
<1>6. CASE P # {}
  <2>1. y \in Tags /\ InFlight(y) /\ rob[y].done /\ y \in P
    BY <1>1, <1>3, <1>4, <1>6 DEF Before
  <2>2. y \notin B
    <3> SUFFICES ASSUME y \in B PROVE FALSE
      OBVIOUS
    <3>1. B \in Grants /\ y \in Marked(B)
      BY DEF Moves, Marked
    <3>2. Kind(y) \in Broadcasts /\ (Kind(y) # "store" => ~rob[y].done)
      BY <3>1, MarkedIs
    <3> QED BY <2>1, <3>2 DEF Broadcasts
  <2>3. y \notin Allocated(d)
    BY <2>1, LaneIs DEF Moves
  <2>4. rob'[y].done = (y \in Marked(B) \/ (rob[y].done /\ y \notin Allocated(d)))
        /\ rob'[y].value = rob[y].value
    BY <2>1, <2>2, EntryAfter
  <2>5. rob'[y].done
    BY <2>1, <2>3, <2>4
  <2> QED BY <1>3, <1>4, <1>6, <2>4, <2>5
<1> QED BY <1>5, <1>6

\* A value that is broadcast becomes known, as what is broadcast.
LEMMA ValueBroadcast ==
  ASSUME WInv, NEW B, NEW n, NEW d, NEW miss, Moves(B, n, d, miss), rf' = Committed(n),
         NEW a \in Int, n <= a, a <= count,
         \A u \in Tags : InFlight(u) /\ Age(u) >= n /\ Age(u) < a => Stays(u, n, miss),
         NEW r \in Regs, NEW y \in Before(r, a), \A u \in Before(r, a) : Age(u) <= Age(y), y \in B
  PROVE  KnownBefore(r, a - n)' /\ ValueBefore(r, a - n)' = CdbVal(y)
<1>1. PICK P : P = Before(r, a)
  OBVIOUS
<1>2. P \in SUBSET Tags /\ y \in P
  BY <1>1 DEF Before
<1>3. head \in Tags /\ count \in 0 .. Depth /\ B \in Grants
  BY DEF WInv, TypeOK, Moves
<1>4. y = Youngest(P)
  <2>1. PICK z : z = Youngest(P)
    OBVIOUS
  <2>2. z \in P /\ \A u \in P : Age(u) <= Age(z)
    BY <1>2, <1>3, <2>1, YoungestIs
  <2>3. Age(z) <= Age(y) /\ Age(y) <= Age(z) /\ Age(z) \in 0 .. Depth - 1 /\ Age(y) \in 0 .. Depth - 1
    BY <1>1, <1>2, <1>3, <2>2, Ages
  <2>4. Age(z) = Age(y)
    BY <2>3
  <2> QED BY <1>2, <1>3, <2>1, <2>2, <2>4, Ages
<1>5. \/ /\ KnownBefore(r, a - n)' /\ ValueBefore(r, a - n)' = rob[y].value
         /\ rob[y].done
      \/ /\ KnownBefore(r, a - n)' <=> rob'[y].done
         /\ ValueBefore(r, a - n)' = rob'[y].value
         /\ Stays(y, n, miss)
  BY <1>1, <1>2, <1>4, WriterAfter
<1>6. ~rob[y].done /\ y \in Marked(B)
  <2>1. y \in Marked(B)
    BY DEF Marked
  <2>2. Kind(y) \in Broadcasts /\ (Kind(y) # "store" => ~rob[y].done)
    BY <1>3, <2>1, MarkedIs
  <2> QED BY <2>1, <2>2 DEF Broadcasts
<1>7. rob'[y].done /\ rob'[y].value = CdbVal(y)
  <2>1. y \in Tags
    BY <1>2
  <2> QED BY <1>6, <2>1, EntryAfter
<1> QED BY <1>5, <1>6, <1>7

\* What is before two ages being the same, so is the value.
LEMMA SameBefore ==
  ASSUME NEW r, NEW a, NEW b, Before(r, a)' = Before(r, b)'
  PROVE  /\ KnownBefore(r, a)' <=> KnownBefore(r, b)'
         /\ ValueBefore(r, a)' = ValueBefore(r, b)'
<1>1. PICK Q : Q = Before(r, a)'
  OBVIOUS
<1>2. Youngest(Before(r, a))' = Youngest(Q)' /\ Youngest(Before(r, b))' = Youngest(Q)'
  BY <1>1 DEF Youngest
<1> QED BY <1>1, <1>2 DEF KnownBefore, ValueBefore

\* Earlier lanes that do not write r leave what is before the group.
LEMMA NoFeeders ==
  ASSUME WInv, NEW B, NEW n, NEW d, NEW miss, ~miss, Moves(B, n, d, miss),
         NEW i \in 1 .. Len(d), NEW r \in Regs, Feeders(d, i, r) = {}, NEW c, c = count - n
  PROVE  Before(r, c + i - 1)' = Before(r, c)'
<1>1. head \in Tags /\ count \in 0 .. Depth /\ n \in Retires /\ n \in 0 .. Depth
      /\ Len(d) <= Free /\ d \in Seq(Fetched) /\ Len(d) \in Nat /\ Depth \in Int
  BY RetiringIs, RenameAssumption DEF WInv, TypeOK, Moves
<1>2. ASSUME NEW u \in Tags, InFlight(u)', rob'[u].insn.rd = r, Age(u)' < c + i - 1 PROVE Age(u)' < c
  <2>1. CASE u \in Allocated(d)
    <3>1. PICK j \in 1 .. Len(d) : j = Lane(d, u)
      BY <1>1, <2>1, LaneIs
    <3>2. Age(u)' = c + j - 1
      BY <1>1, <2>1, <3>1, WindowAfter
    <3>3. j < i
      BY <1>1, <1>2, <3>2
    <3>4. d[j].rd = r
      BY <1>2, <2>1, <3>1, EntryAfter
    <3>5. j \in 1 .. i - 1 /\ r # 0
      BY <3>3 DEF Regs
    <3> QED BY <3>4, <3>5 DEF Feeders
  <2>2. CASE u \notin Allocated(d)
    <3>1. Stays(u, n, miss) /\ Age(u)' = Age(u) - n
      BY <1>2, <2>2, WindowAfter
    <3>2. Age(u) < count /\ Age(u) \in 0 .. Depth - 1
      BY <1>1, <3>1, Ages DEF Stays, InFlight
    <3> QED BY <1>1, <3>1, <3>2
  <2> QED BY <2>1, <2>2
<1>3. ASSUME NEW u \in Tags, InFlight(u)', Age(u)' < c PROVE Age(u)' < c + i - 1
  <2>1. head' \in Tags
    BY WindowAfter
  <2>2. Age(u)' \in Int
    BY <2>1, RenameAssumption DEF Age, Tags
  <2> QED BY <1>1, <1>3, <2>2
<1>4. \A x : Before(r, x)' = {u \in Tags : InFlight(u)' /\ Age(u)' < x /\ rob'[u].insn.rd = r}
  BY DEF Before, Tags
<1> QED BY <1>2, <1>3, <1>4

\* The operand of a tag after the edge, from its source and age then.
LEMMA OperandAfter ==
  ASSUME NEW t, NEW r, r = Source(t)', NEW x, x = Age(t)'
  PROVE  /\ OperandKnown(t)' <=> r = 0 \/ KnownBefore(r, x)'
         /\ OperandIs(t)' = IF r = 0 THEN 0 ELSE ValueBefore(r, x)'
         /\ Before(Source(t), Age(t))' = Before(r, x)'
<1>1. PICK Q : Q = Before(r, x)'
  OBVIOUS
<1>2. Before(Source(t), Age(t))' = Q
  BY <1>1 DEF Before
<1>3. Youngest(Before(r, x))' = Youngest(Q)' /\ Youngest(Before(Source(t), Age(t)))' = Youngest(Q)'
  BY <1>1, <1>2 DEF Youngest
<1>4. /\ KnownBefore(r, x)' <=> Q = {} \/ rob'[Youngest(Q)'].done
      /\ ValueBefore(r, x)' = IF Q = {} THEN rf'[r] ELSE rob'[Youngest(Q)'].value
  BY <1>1, <1>3 DEF KnownBefore, ValueBefore
<1>5. /\ KnownBefore(Source(t), Age(t))' <=> Q = {} \/ rob'[Youngest(Q)'].done
      /\ ValueBefore(Source(t), Age(t))' =
           IF Q = {} THEN rf'[Source(t)'] ELSE rob'[Youngest(Q)'].value
  BY <1>2, <1>3 DEF KnownBefore, ValueBefore
<1>6. /\ OperandKnown(t)' <=> Source(t)' = 0 \/ KnownBefore(Source(t), Age(t))'
      /\ OperandIs(t)' = IF Source(t)' = 0 THEN 0 ELSE ValueBefore(Source(t), Age(t))'
  BY DEF OperandKnown, OperandIs
<1> QED BY <1>1, <1>2, <1>4, <1>5, <1>6

\* The alias table leads dispatch to the youngest writer in flight.
LEMMA TableLeads ==
  ASSUME RInv, ~torn, NEW r \in Regs
  PROVE  /\ ~rat[r].busy => Before(r, count) = {}
         /\ rat[r].busy => /\ rat[r].tag \in Before(r, count)
                           /\ \A u \in Before(r, count) : Age(u) <= Age(rat[r].tag)
<1>1. head \in Tags /\ count \in 0 .. Depth /\ Depth \in Int /\ Names(rat, r, Depth)
  BY RenameAssumption DEF RInv, WInv, TypeOK, RenamingOK, RatNamesYoungest
<1>2. \A t \in Tags : Age(t) \in 0 .. Depth - 1
  BY <1>1, Ages
<1>3. \A t \in Tags : Age(t) <= Depth
  BY <1>1, <1>2
<1>4. Producers(r, Depth) = Before(r, count)
  BY <1>3 DEF Producers, Before, InFlight
<1> QED BY <1>1, <1>4 DEF Names

\* A new entry awaits, or holds, the operand of in-order execution.
LEMMA NewOperand ==
  ASSUME RInv, ~torn, NEW B, NEW n, NEW d, NEW miss, ~miss, Moves(B, n, d, miss), rf' = Committed(n),
         NEW t \in Allocated(d)
  PROVE  Awaits(t)' /\ Holds(t)' /\ Finishes(t)'
<1>1. /\ WInv /\ head \in Tags /\ count \in 0 .. Depth /\ n \in Retires /\ n \in 0 .. count
      /\ n \in 0 .. Depth /\ Len(d) <= Free /\ d \in Seq(Fetched) /\ Len(d) \in Nat /\ Depth \in Int
      /\ B \in Grants
  BY RetiringIs, RenameAssumption DEF RInv, WInv, TypeOK, Moves
<1>2. PICK i \in 1 .. Len(d) : i = Lane(d, t)
  BY <1>1, LaneIs
<1>3. t \in Tags /\ ~InFlight(t) /\ LaneTag(i) = t /\ Age(t)' = count - n + i - 1
  BY <1>1, <1>2, LaneIs, WindowAfter
<1>4. PICK c : c = count - n
  OBVIOUS
<1>5. PICK r : r = d[i].src
  OBVIOUS
<1>6. r # 0 <=> r \in Regs
  <2>1. d[i] \in Fetched
    BY <1>1
  <2>2. r \in 0 .. NRegs /\ NRegs \in Nat
    BY <1>5, <2>1, InsnAssumption DEF Fetched
  <2> QED BY <2>2 DEF Regs
<1>7. rob'[t].insn = d[i] /\ rob'[t].done = (t \in Marked(B) \/ (rob[t].done /\ t \notin Allocated(d)))
      /\ rs'[t] = Capture(B, d, i)
  BY <1>1, <1>2, <1>3, EntryAfter, StationAfter
<1>8. ~rob'[t].done
  BY <1>1, <1>3, <1>7, MarkedIs
<1>9. PICK x : x = c + i - 1
  OBVIOUS
<1>10. r = Source(t)' /\ x = Age(t)'
  BY <1>3, <1>4, <1>5, <1>7, <1>9 DEF Source
<1>11. /\ OperandKnown(t)' <=> r = 0 \/ KnownBefore(r, x)'
       /\ OperandIs(t)' = IF r = 0 THEN 0 ELSE ValueBefore(r, x)'
       /\ Before(Source(t), Age(t))' = Before(r, x)'
  BY <1>10, OperandAfter
<1>12. \A u \in Tags : InFlight(u) /\ Age(u) >= n => Stays(u, n, miss)
  BY DEF Stays
<1>13. PICK k : k = count
  OBVIOUS
<1>14. k \in Int /\ n <= k /\ k <= count /\ c = k - n /\ c \in Int
  BY <1>1, <1>4, <1>13
<1>15. ASSUME r \in Regs, Feeders(d, i, r) = {}
       PROVE  /\ Before(r, x)' = {u \in Before(r, count) : Age(u) >= n}
              /\ KnownBefore(r, k) => KnownBefore(r, x)' /\ ValueBefore(r, x)' = ValueBefore(r, k)
              /\ \A y \in Before(r, k) :
                   (\A u \in Before(r, k) : Age(u) <= Age(y)) /\ y \in B
                     => KnownBefore(r, x)' /\ ValueBefore(r, x)' = CdbVal(y)
  <2>1. Before(r, x)' = Before(r, c)'
    BY <1>1, <1>4, <1>9, <1>15, NoFeeders
  <2>2. /\ KnownBefore(r, x)' <=> KnownBefore(r, c)'
        /\ ValueBefore(r, x)' = ValueBefore(r, c)'
    BY <2>1, SameBefore
  <2>3. Before(r, k - n)' = {u \in Before(r, k) : Age(u) >= n}
    BY <1>1, <1>12, <1>14, <1>15, BeforeAfter
  <2>4. KnownBefore(r, k) => KnownBefore(r, k - n)' /\ ValueBefore(r, k - n)' = ValueBefore(r, k)
    BY <1>1, <1>12, <1>14, <1>15, ValueKept
  <2>5. \A y \in Before(r, k) :
          (\A u \in Before(r, k) : Age(u) <= Age(y)) /\ y \in B
            => KnownBefore(r, k - n)' /\ ValueBefore(r, k - n)' = CdbVal(y)
    BY <1>1, <1>12, <1>14, <1>15, ValueBroadcast
  <2> QED BY <1>13, <1>14, <2>1, <2>2, <2>3, <2>4, <2>5
<1>16. Finishes(t)'
  BY <1>8 DEF Finishes
<1>17. /\ rs'[t].ready => Awaits(t)'
       /\ \A p : p = rs'[t].tag /\ (\A u \in Before(r, x)' : Age(u)' <= Age(p)') => Awaits(t)'
  <2>1. rs'[t].ready => Awaits(t)'
    BY DEF Awaits
  <2>2. ASSUME NEW p, p = rs'[t].tag, \A u \in Before(r, x)' : Age(u)' <= Age(p)'
        PROVE  Awaits(t)'
    <3>1. Age(rs[t].tag)' = Age(p)'
      BY <2>2 DEF Age
    <3> QED BY <1>11, <2>2, <3>1 DEF Awaits
  <2> QED BY <2>1, <2>2
<1>18. Holds(t)' <=> (rs'[t].busy /\ rs'[t].ready /\ d[i].kind \notin {"jal", "ecall"} =>
                        OperandKnown(t)' /\ rs'[t].val = OperandIs(t)')
  BY <1>7 DEF Holds, Kind
<1>19. /\ \A v : Holding(v).ready /\ Holding(v).val = v
       /\ \A p : ~Waiting(p).ready /\ Waiting(p).tag = p
  BY DEF Holding, Waiting
<1>20. CASE d[i].kind \in {"jal", "ecall"} \/ r = 0
  <2>1. rs'[t] = Holding(0)
    BY <1>5, <1>7, <1>20 DEF Capture
  <2> QED BY <1>11, <1>16, <1>17, <1>18, <1>19, <1>20, <2>1
<1>21. ASSUME ~(d[i].kind \in {"jal", "ecall"} \/ r = 0), Feeders(d, i, r) # {}
       PROVE  Awaits(t)' /\ Holds(t)'
  <2>1. rs'[t] = Waiting(LaneTag(Max(Feeders(d, i, r))))
    BY <1>5, <1>7, <1>21 DEF Capture
  <2>2. PICK m \in 1 .. i - 1 : m = Max(Feeders(d, i, r)) /\ \A j \in Feeders(d, i, r) : j <= m
    <3>1. r \in 1 .. NRegs
      BY <1>6, <1>21 DEF Regs
    <3> QED BY <1>1, <1>21, <3>1, CaptureTypes
  <2>3. PICK p : p = LaneTag(m)
    OBVIOUS
  <2>4. p \in Allocated(d) /\ p \in Tags /\ Lane(d, p) = m
    <3>1. m \in 1 .. Len(d)
      BY <1>1, <2>2
    <3> QED BY <1>1, <2>3, <3>1, LaneIs
  <2>5. Age(p)' = c + m - 1
    BY <1>1, <1>4, <2>4, WindowAfter
  <2>6. ASSUME NEW u \in Before(r, x)' PROVE Age(u)' <= Age(p)'
    <3>1. u \in Tags /\ InFlight(u)' /\ Age(u)' < x /\ rob'[u].insn.rd = r
      BY DEF Before, Tags
    <3>2. CASE u \in Allocated(d)
      <4>1. PICK j \in 1 .. Len(d) : j = Lane(d, u)
        BY <1>1, <3>2, LaneIs
      <4>2. Age(u)' = c + j - 1
        BY <1>1, <1>4, <3>1, <3>2, <4>1, WindowAfter
      <4>3. j \in 1 .. i - 1
        BY <1>9, <1>14, <3>1, <4>2
      <4>4. d[j].rd = r
        BY <3>1, <3>2, <4>1, EntryAfter
      <4>5. j \in Feeders(d, i, r)
        BY <1>21, <4>3, <4>4 DEF Feeders
      <4> QED BY <1>14, <2>2, <2>5, <4>2, <4>5
    <3>3. CASE u \notin Allocated(d)
      <4>1. Stays(u, n, miss) /\ Age(u)' = Age(u) - n
        BY <1>1, <3>1, <3>3, WindowAfter
      <4>2. Age(u) < count /\ Age(u) \in 0 .. Depth - 1
        BY <1>1, <3>1, <4>1, Ages DEF Stays, InFlight
      <4> QED BY <1>1, <1>4, <1>14, <2>2, <2>5, <4>1, <4>2
    <3> QED BY <3>2, <3>3
  <2>7. rs'[t].tag = p /\ ~rs'[t].ready
    BY <1>19, <2>1, <2>2, <2>3
  <2> QED BY <1>17, <1>18, <2>6, <2>7
<1>22. ASSUME ~(d[i].kind \in {"jal", "ecall"} \/ r = 0), Feeders(d, i, r) = {}
       PROVE  Awaits(t)' /\ Holds(t)'
  <2>1. r \in Regs
    BY <1>6, <1>22
  <2>2. PICK y : y = rat[r].tag
    OBVIOUS
  <2>3. /\ ~rat[r].busy => Before(r, k) = {}
        /\ rat[r].busy => y \in Before(r, k) /\ \A u \in Before(r, k) : Age(u) <= Age(y)
    BY <1>13, <2>1, <2>2, TableLeads
  <2>4. rs'[t] = IF ~rat[r].busy     THEN Holding(rf[r])
                 ELSE IF y \in B     THEN Holding(CdbVal(y))
                 ELSE IF rob[y].done THEN Holding(rob[y].value)
                 ELSE Waiting(y)
    BY <1>5, <1>7, <1>22, <2>2 DEF Capture
  <2>5. CASE ~rat[r].busy
    <3>1. KnownBefore(r, k) /\ ValueBefore(r, k) = rf[r]
      BY <2>3, <2>5 DEF KnownBefore, ValueBefore
    <3>2. rs'[t] = Holding(rf[r])
      BY <2>4, <2>5
    <3> QED BY <1>11, <1>15, <1>17, <1>18, <1>19, <1>22, <2>1, <3>1, <3>2
  <2>6. CASE rat[r].busy /\ y \in B
    <3>1. rs'[t] = Holding(CdbVal(y))
      BY <2>4, <2>6
    <3> QED BY <1>11, <1>15, <1>17, <1>18, <1>19, <1>22, <2>1, <2>3, <2>6, <3>1
  <2>7. CASE rat[r].busy /\ y \notin B /\ rob[y].done
    <3>1. rs'[t] = Holding(rob[y].value)
      BY <2>4, <2>7
    <3>2. y = Youngest(Before(r, k)) /\ Before(r, k) # {}
      <4>1. Before(r, k) \in SUBSET Tags
        BY DEF Before
      <4>2. PICK z : z = Youngest(Before(r, k))
        OBVIOUS
      <4>3. z \in Before(r, k) /\ Age(y) <= Age(z)
        BY <1>1, <2>3, <2>7, <4>1, <4>2, YoungestIs
      <4>4. Age(z) <= Age(y) /\ z \in Tags /\ y \in Tags
        BY <2>3, <2>7, <4>1, <4>3
      <4>5. Age(z) \in 0 .. Depth - 1 /\ Age(y) \in 0 .. Depth - 1
        BY <1>1, <4>4, Ages
      <4>6. Age(z) = Age(y)
        BY <1>1, <4>3, <4>4, <4>5
      <4> QED BY <1>1, <4>2, <4>3, <4>4, <4>6, Ages
    <3>3. KnownBefore(r, k) /\ ValueBefore(r, k) = rob[y].value
      BY <2>7, <3>2 DEF KnownBefore, ValueBefore
    <3> QED BY <1>11, <1>15, <1>17, <1>18, <1>19, <1>22, <2>1, <3>1, <3>3
  <2>8. CASE rat[r].busy /\ y \notin B /\ ~rob[y].done
    <3>1. rs'[t] = Waiting(y)
      BY <2>4, <2>8
    <3>2. rs'[t].tag = y /\ ~rs'[t].ready
      BY <1>19, <3>1
    <3>3. ASSUME NEW u \in Before(r, x)' PROVE Age(u)' <= Age(y)'
      <4>1. u \in Before(r, k) /\ Age(u) >= n
        BY <1>13, <1>15, <1>22, <2>1
      <4>2. Age(u) <= Age(y) /\ u \in Tags /\ y \in Tags /\ InFlight(u) /\ InFlight(y)
        BY <2>3, <2>8, <4>1 DEF Before
      <4>3. Age(u) \in 0 .. Depth - 1 /\ Age(y) \in 0 .. Depth - 1
        BY <1>1, <4>2, Ages
      <4>4. Age(y) >= n
        BY <1>1, <4>1, <4>2, <4>3
      <4>5. Age(u)' = Age(u) - n /\ Age(y)' = Age(y) - n
        BY <1>1, <1>12, <4>1, <4>2, <4>4, WindowAfter
      <4> QED BY <1>1, <4>2, <4>3, <4>5
    <3> QED BY <1>17, <1>18, <3>2, <3>3
  <2> QED BY <2>5, <2>6, <2>7, <2>8
<1> QED BY <1>16, <1>20, <1>21, <1>22

\* What is older than an entry that stays retires or stays.
LEMMA OlderStay ==
  ASSUME WInv, NEW n, NEW miss \in BOOLEAN, NEW t \in Tags, Stays(t, n, miss), NEW u \in Tags, InFlight(u),
         Age(u) >= n, Age(u) < Age(t)
  PROVE  Stays(u, n, miss)
<1>1. head \in Tags /\ Age(u) \in Int /\ Age(t) \in Int /\ Age(br) \in Int
  BY RenameAssumption DEF WInv, TypeOK, Tags, NoTag, Age
<1>2. CASE ~miss
  BY <1>2 DEF Stays
<1>3. CASE miss
  <2>1. Age(t) <= Age(br)
    BY <1>3 DEF Stays
  <2>2. Age(u) <= Age(br)
    BY <1>1, <2>1
  <2> QED BY <2>2 DEF Stays
<1> QED BY <1>2, <1>3

\* An entry that stays keeps its operand.
LEMMA OperandKept ==
  ASSUME WInv, NEW B, NEW n, NEW d, NEW miss, Moves(B, n, d, miss), rf' = Committed(n),
         NEW t \in Tags, Stays(t, n, miss),
         NEW r, r = Source(t), r \in 0 .. NRegs, NEW a, a = Age(t)
  PROVE  /\ rob'[t].insn = rob[t].insn /\ Age(t)' = a - n
         /\ OperandKnown(t) => OperandKnown(t)' /\ OperandIs(t)' = OperandIs(t)
         /\ r # 0 => /\ Before(Source(t), Age(t))' = {u \in Before(r, a) : Age(u) >= n}
                     /\ \A y \in Before(r, a) : (\A u \in Before(r, a) : Age(u) <= Age(y)) /\ y \in B
                          => OperandKnown(t)' /\ OperandIs(t)' = CdbVal(y)
<1>1. /\ head \in Tags /\ count \in 0 .. Depth /\ n \in Retires /\ n \in 0 .. count /\ Depth \in Int
      /\ miss \in BOOLEAN
  BY RetiringIs, RenameAssumption DEF WInv, TypeOK, Moves
<1>2. InFlight(t) /\ Age(t) >= n
  BY DEF Stays
<1>3. a \in Int /\ n <= a /\ a <= count
  <2>1. Age(t) \in 0 .. Depth - 1
    BY <1>1, Ages
  <2> QED BY <1>1, <1>2, <2>1 DEF InFlight
<1>4. \A u \in Tags : InFlight(u) /\ Age(u) >= n /\ Age(u) < a => Stays(u, n, miss)
  BY <1>1, OlderStay
<1>5. t \notin Allocated(d)
  BY <1>2, LaneIs DEF Moves
<1>6. rob'[t].insn = rob[t].insn /\ Age(t)' = a - n
  BY <1>5, EntryAfter, WindowAfter
<1>7. PICK x : x = a - n
  OBVIOUS
<1>8. r = Source(t)' /\ x = Age(t)'
  BY <1>6, <1>7 DEF Source
<1>9. /\ OperandKnown(t)' <=> r = 0 \/ KnownBefore(r, x)'
      /\ OperandIs(t)' = IF r = 0 THEN 0 ELSE ValueBefore(r, x)'
      /\ Before(Source(t), Age(t))' = Before(r, x)'
  BY <1>8, OperandAfter
<1>10. /\ OperandKnown(t) <=> r = 0 \/ KnownBefore(r, a)
       /\ OperandIs(t) = IF r = 0 THEN 0 ELSE ValueBefore(r, a)
  BY DEF OperandKnown, OperandIs
<1>11. ASSUME r # 0
       PROVE  /\ Before(r, x)' = {u \in Before(r, a) : Age(u) >= n}
              /\ KnownBefore(r, a) => KnownBefore(r, x)' /\ ValueBefore(r, x)' = ValueBefore(r, a)
              /\ \A y \in Before(r, a) : (\A u \in Before(r, a) : Age(u) <= Age(y)) /\ y \in B
                   => KnownBefore(r, x)' /\ ValueBefore(r, x)' = CdbVal(y)
  <2>1. r \in Regs
    BY <1>11, InsnAssumption DEF Regs
  <2>2. Before(r, a - n)' = {u \in Before(r, a) : Age(u) >= n}
    BY <1>3, <1>4, <2>1, BeforeAfter
  <2>3. KnownBefore(r, a) => KnownBefore(r, a - n)' /\ ValueBefore(r, a - n)' = ValueBefore(r, a)
    BY <1>3, <1>4, <2>1, ValueKept
  <2>4. \A y \in Before(r, a) : (\A u \in Before(r, a) : Age(u) <= Age(y)) /\ y \in B
          => KnownBefore(r, a - n)' /\ ValueBefore(r, a - n)' = CdbVal(y)
    BY <1>3, <1>4, <2>1, ValueBroadcast
  <2> QED BY <1>7, <2>2, <2>3, <2>4
<1> QED BY <1>6, <1>9, <1>10, <1>11

\* An old entry goes on awaiting, or holding, its operand, and what it
\* finishes with is the result of in-order execution.
LEMMA OldOperand ==
  ASSUME RInv, ~torn, OperandsOK, NEW B, NEW n, NEW d, NEW miss, Moves(B, n, d, miss),
         rf' = Committed(n), NEW t \in Tags, t \notin Allocated(d)
  PROVE  Awaits(t)' /\ Holds(t)' /\ Finishes(t)'
<1>1. /\ WInv /\ head \in Tags /\ count \in 0 .. Depth /\ n \in Retires /\ Depth \in Int
      /\ miss \in BOOLEAN /\ B \in Grants /\ n \in 0 .. Depth
  BY RetiringIs, RenameAssumption DEF RInv, WInv, TypeOK, Moves
<1>2. ASSUME ~InFlight(t)' PROVE Awaits(t)' /\ Holds(t)' /\ Finishes(t)'
  <2>1. ~rs'[t].busy
    BY <1>1, <1>2, StationsKept
  <2> QED BY <1>2, <2>1 DEF Awaits, Holds, Finishes
<1>3. SUFFICES ASSUME InFlight(t)' PROVE Awaits(t)' /\ Holds(t)' /\ Finishes(t)'
  BY <1>2
<1>4. Stays(t, n, miss) /\ InFlight(t)
  BY <1>1, <1>3, WindowAfter DEF Stays
<1>5. PICK r : r = Source(t)
  OBVIOUS
<1>6. PICK a : a = Age(t)
  OBVIOUS
<1>7. r \in 0 .. NRegs
  <2>1. rob[t].insn \in Fetched
    BY <1>1 DEF WInv, TypeOK
  <2> QED BY <1>5, <2>1 DEF Source, Fetched
<1>8. /\ rob'[t].insn = rob[t].insn /\ Age(t)' = a - n
      /\ OperandKnown(t) => OperandKnown(t)' /\ OperandIs(t)' = OperandIs(t)
      /\ r # 0 => /\ Before(Source(t), Age(t))' = {u \in Before(r, a) : Age(u) >= n}
                  /\ \A y \in Before(r, a) : (\A u \in Before(r, a) : Age(u) <= Age(y)) /\ y \in B
                       => OperandKnown(t)' /\ OperandIs(t)' = CdbVal(y)
  BY <1>1, <1>4, <1>5, <1>6, <1>7, OperandKept
<1>9. Awaits(t) /\ Holds(t) /\ Finishes(t)
  BY DEF OperandsOK
<1>10. rs'[t].busy => rs[t].busy /\ rs'[t] = Snooped(B, t)
  BY <1>1, StationAfter
<1>11. ASSUME rs[t].busy, ~rs[t].ready
       PROVE  /\ r # 0 /\ rs[t].tag \in Before(r, a)
              /\ \A u \in Before(r, a) : Age(u) <= Age(rs[t].tag)
  <2>1. /\ InFlight(rs[t].tag) /\ Age(rs[t].tag) < Age(t)
        /\ rob[rs[t].tag].insn.rd = rob[t].insn.src /\ rob[t].insn.src # 0
    BY <1>11 DEF RInv, NoLostWakeup
  <2> QED BY <1>5, <1>6, <1>9, <1>11, <2>1 DEF Awaits, Before, Source, InFlight
<1>12. Awaits(t)' /\ Holds(t)'
  <2>1. CASE ~rs'[t].busy
    BY <2>1 DEF Awaits, Holds
  <2>2. CASE rs'[t].busy /\ ~rs[t].ready /\ rs[t].tag \in B
    <3>1. rs'[t] = Holding(CdbVal(rs[t].tag))
      BY <1>10, <2>2 DEF Snooped
    <3>2. OperandKnown(t)' /\ OperandIs(t)' = CdbVal(rs[t].tag)
      BY <1>8, <1>10, <1>11, <2>2
    <3> QED BY <3>1, <3>2 DEF Awaits, Holds, Holding
  <2>3. CASE rs'[t].busy /\ ~rs[t].ready /\ rs[t].tag \notin B
    <3>1. rs'[t] = rs[t]
      BY <1>10, <2>3 DEF Snooped
    <3>2. PICK p : p = rs[t].tag
      OBVIOUS
    <3>3. /\ r # 0 /\ p \in Before(r, a) /\ \A u \in Before(r, a) : Age(u) <= Age(p)
      BY <1>10, <1>11, <2>3, <3>2
    <3>4. ASSUME NEW u \in Before(Source(t), Age(t))' PROVE Age(u)' <= Age(p)'
      <4>1. u \in Before(r, a) /\ Age(u) >= n
        BY <1>8, <3>3
      <4>2. /\ u \in Tags /\ p \in Tags /\ InFlight(u) /\ InFlight(p) /\ Age(u) <= Age(p)
            /\ Age(u) < a /\ Age(p) < a
        BY <3>3, <4>1 DEF Before
      <4>3. Age(u) \in 0 .. Depth - 1 /\ Age(p) \in 0 .. Depth - 1
        BY <1>1, <4>2, Ages
      <4>4. Age(p) >= n
        BY <1>1, <4>1, <4>2, <4>3
      <4>5. Stays(u, n, miss) /\ Stays(p, n, miss)
        BY <1>1, <1>4, <1>6, <4>1, <4>2, <4>4, OlderStay
      <4>6. Age(u)' = Age(u) - n /\ Age(p)' = Age(p) - n
        BY <1>1, <4>2, <4>5, WindowAfter
      <4> QED BY <1>1, <4>2, <4>3, <4>6
    <3>5. Age(rs[t].tag)' = Age(p)'
      BY <3>1, <3>2 DEF Age
    <3>6. Awaits(t)'
      BY <3>4, <3>5 DEF Awaits
    <3> QED BY <2>3, <3>1, <3>6 DEF Holds
  <2>4. CASE rs'[t].busy /\ rs[t].ready
    <3>1. rs'[t] = rs[t] /\ rs[t].busy
      BY <1>10, <2>4 DEF Snooped
    <3>2. Kind(t) \notin {"jal", "ecall"} => OperandKnown(t) /\ rs[t].val = OperandIs(t)
      BY <1>9, <2>4, <3>1 DEF Holds
    <3>3. Awaits(t)'
      BY <2>4, <3>1 DEF Awaits
    <3>4. Holds(t)'
      BY <1>8, <3>1, <3>2 DEF Holds, Kind
    <3> QED BY <3>3, <3>4
  <2> QED BY <2>1, <2>2, <2>3, <2>4
<1>13. ASSUME t \in Marked(B) PROVE Finishes(t)'
  <2>1. /\ rs[t].busy /\ rs[t].ready
        /\ t \in B => Kind(t) \in Broadcasts
        /\ Kind(t) # "store" => ~rob[t].done
        /\ t \in B \/ Kind(t) = "store" \/ (Kind(t) = "branch" /\ t = br /\ Resolved(B))
    BY <1>1, <1>13, MarkedIs
  <2>2. Kind(t) \notin {"jal", "ecall"} => OperandKnown(t) /\ rs[t].val = OperandIs(t)
    BY <1>9, <2>1 DEF Holds
  <2>3. Kind(t) \in {"store", "branch", "ecall"} => rob[t].insn.rd = 0
    BY DEF RInv, NoRd
  <2>4. /\ rob'[t].value = IF t \in B THEN CdbVal(t) ELSE rob[t].value
        /\ rob'[t].went = IF Resolved(B) /\ t = br THEN Target ELSE rob[t].went
    BY EntryAfter
  <2>5. ASSUME rob[t].insn.rd # 0 PROVE rob'[t].value = Result(rob'[t].insn, OperandIs(t)')
    <3>1. t \in B /\ Kind(t) \notin {"store", "branch", "ecall"}
      BY <2>1, <2>3, <2>5
    <3>2. rob'[t].value = Result(rob[t].insn, rs[t].val)
      BY <2>4, <3>1 DEF CdbVal
    <3>3. CASE Kind(t) = "jal"
      BY <1>8, <3>2, <3>3 DEF Result, Kind
    <3>4. CASE Kind(t) # "jal"
      BY <1>8, <2>2, <3>1, <3>2, <3>4
    <3> QED BY <3>3, <3>4
  <2>6. ASSUME Kind(t) \in Turning PROVE rob'[t].went = Outcome(OperandIs(t)')
    <3>1. t = br /\ Resolved(B)
      <4>1. CASE Kind(t) = "branch"
        BY <2>1, <4>1 DEF Broadcasts
      <4>2. CASE Kind(t) = "jalr"
        <5>1. t \in B /\ ~rob[t].done
          BY <2>1, <4>2
        <5>2. t = br
          BY <1>1, <1>4, <4>2, <5>1 DEF WInv, WindowOK, BranchClass
        <5>3. br # NoTag
          BY <5>2, RenameAssumption DEF NoTag, Tags
        <5> QED BY <4>2, <5>1, <5>2, <5>3 DEF Resolved
      <4> QED BY <2>6, <4>1, <4>2 DEF Turning
    <3>2. rob'[t].went = Outcome(rs[t].val)
      BY <2>4, <3>1 DEF Target
    <3> QED BY <1>8, <2>2, <2>6, <3>2 DEF Turning
  <2>7. Kind(t) \in {"alu", "branch", "jalr"} => OperandKnown(t)'
    BY <1>8, <2>2
  <2> QED BY <1>8, <2>5, <2>6, <2>7 DEF Finishes, Kind
<1>14. ASSUME t \notin Marked(B) PROVE Finishes(t)'
  <2> SUFFICES ASSUME rob'[t].done PROVE Finishes(t)'
    BY DEF Finishes
  <2>1. rob[t].done
    BY <1>14, EntryAfter
  <2>2. ~(Resolved(B) /\ t = br)
    BY <1>1, <1>14, ResolvedIs
  <2>3. rob'[t].value = rob[t].value /\ rob'[t].went = rob[t].went
    BY <1>14, <2>2, EntryAfter DEF Marked
  <2>4. /\ Kind(t) \in {"alu", "branch", "jalr"} => OperandKnown(t)
        /\ rob[t].insn.rd # 0 => rob[t].value = Result(rob[t].insn, OperandIs(t))
        /\ Kind(t) \in Turning => rob[t].went = Outcome(OperandIs(t))
    BY <1>4, <1>9, <2>1 DEF Finishes
  <2>5. ASSUME rob[t].insn.rd # 0 PROVE rob'[t].value = Result(rob'[t].insn, OperandIs(t)')
    <3>1. Kind(t) \in {"alu", "jal", "jalr"}
      <4>1. rob[t].insn \in Fetched
        BY <1>1 DEF WInv, TypeOK
      <4>2. Kind(t) \in Kinds
        BY <4>1 DEF Fetched, Kind
      <4> QED BY <2>5, <4>2 DEF RInv, NoRd, Kinds
    <3>2. CASE Kind(t) = "jal"
      BY <1>8, <2>3, <2>4, <2>5, <3>2 DEF Result, Kind
    <3>3. CASE Kind(t) # "jal"
      BY <1>8, <2>3, <2>4, <2>5, <3>1, <3>3
    <3> QED BY <3>2, <3>3
  <2>6. Kind(t) \in Turning => rob'[t].went = Outcome(OperandIs(t)')
    BY <1>8, <2>3, <2>4 DEF Turning
  <2> QED BY <1>8, <2>4, <2>5, <2>6 DEF Finishes, Kind
<1> QED BY <1>12, <1>13, <1>14

(***************************************************************************)
(* Ways.                                                                   *)
(***************************************************************************)
\* The way before an age stays, when a branch that resolves goes as predicted.
LEMMA WayKept ==
  ASSUME WInv, NEW B, NEW n, NEW d, NEW miss, Moves(B, n, d, miss),
         path' = IF Turns(n) = {} THEN path ELSE rob[Youngest(Turns(n))].went,
         NEW a \in Int, n <= a, a <= count,
         \A u \in Tags : InFlight(u) /\ Age(u) >= n /\ Age(u) < a => Stays(u, n, miss),
         br \in TurnsBefore(a) => (Resolved(B) => Target = predicted) /\ predicted' = predicted
  PROVE  WayBefore(a - n)' = WayBefore(a)
<1>1. PICK T : T = TurnsBefore(a)
  OBVIOUS
<1>2. PICK Q : Q = TurnsBefore(a - n)'
  OBVIOUS
<1>3. PICK y : y = Youngest(T)
  OBVIOUS
<1>4. WayBefore(a) = IF T = {} THEN path ELSE IF rob[y].done THEN rob[y].went ELSE predicted
  BY <1>1, <1>3 DEF WayBefore
<1>5. WayBefore(a - n)' = IF Q = {} THEN path'
                          ELSE IF rob'[Youngest(Q)'].done THEN rob'[Youngest(Q)'].went ELSE predicted'
  <2>1. Youngest(TurnsBefore(a - n))' = Youngest(Q)'
    BY <1>2 DEF Youngest
  <2> QED BY <1>2, <2>1 DEF WayBefore
<1>6. Q = {t \in T : Age(t) >= n}
  BY <1>1, <1>2, BeforeAfter
<1>7. T \in SUBSET Tags /\ \A t \in T : InFlight(t) /\ Age(t) < a /\ Kind(t) \in Turning
  BY <1>1 DEF TurnsBefore
<1>8. \A t \in T : Age(t) >= n => Stays(t, n, miss)
  BY <1>7
<1>9. T # {} => /\ y \in T
                /\ Q # {} => y \in Q /\ Youngest(Q)' = y
                /\ Q = {} => T \subseteq Retiring(n)
  BY <1>3, <1>6, <1>7, <1>8, YoungestAfter
<1>10. /\ head \in Tags /\ count \in 0 .. Depth /\ n \in Retires /\ Depth \in Int
       /\ B \in Grants /\ n \in 0 .. n /\ n \in 0 .. count
  BY RetiringIs, RenameAssumption DEF WInv, TypeOK, Moves
<1>11. Turns(n) = {t \in T : Age(t) < n}
  <2>1. Turns(n) = TurnsBefore(n)
    BY <1>10, WritersAre
  <2>2. \A t \in Tags : Age(t) \in 0 .. Depth - 1
    BY <1>10, Ages
  <2>3. \A t \in Tags : Age(t) < n => Age(t) < a
    BY <1>10, <2>2
  <2> QED BY <1>1, <2>1, <2>3 DEF TurnsBefore
<1>12. CASE Q = {}
  <2>1. CASE T = {}
    BY <1>4, <1>5, <1>11, <1>12, <2>1
  <2>2. CASE T # {}
    <3>1. y \in T /\ T \subseteq Retiring(n)
      BY <1>9, <1>12, <2>2
    <3>2. \A t \in Retiring(n) : t \in Tags /\ Age(t) < n /\ rob[t].done
      BY <1>10, RetiringIs
    <3>3. Turns(n) = T /\ rob[y].done
      BY <1>11, <3>1, <3>2
    <3> QED BY <1>3, <1>4, <1>5, <1>12, <2>2, <3>3
  <2> QED BY <2>1, <2>2
<1>13. CASE Q # {}
  <2>1. T # {} /\ y \in T /\ Youngest(Q)' = y /\ y \in Tags /\ InFlight(y) /\ Kind(y) \in Turning
    BY <1>6, <1>7, <1>9, <1>13
  <2>2. y \notin Allocated(d)
    BY <2>1, LaneIs DEF Moves
  <2>3. /\ rob'[y].done = (y \in Marked(B) \/ rob[y].done)
        /\ rob'[y].went = IF Resolved(B) /\ y = br THEN Target ELSE rob[y].went
    <3>1. rob'[y].done = (y \in Marked(B) \/ (rob[y].done /\ y \notin Allocated(d)))
          /\ rob'[y].went = IF Resolved(B) /\ y = br THEN Target ELSE rob[y].went
      BY <2>1, EntryAfter
    <3> QED BY <2>2, <3>1
  <2>4. CASE rob[y].done
    <3>1. ~(Resolved(B) /\ y = br)
      BY <1>10, <2>4, ResolvedIs
    <3> QED BY <1>4, <1>5, <1>13, <2>1, <2>3, <2>4, <3>1
  <2>5. CASE ~rob[y].done
    <3>1. y = br /\ br # NoTag
      <4>1. y = br
        BY <2>1, <2>5 DEF WInv, WindowOK, BranchClass, Turning
      <4> QED BY <2>1, <4>1, RenameAssumption DEF NoTag, Tags
    <3>2. (Resolved(B) => Target = predicted) /\ predicted' = predicted
      BY <1>1, <2>1, <3>1
    <3>3. y \in Marked(B) => Resolved(B)
      <4> SUFFICES ASSUME y \in Marked(B) PROVE Resolved(B)
        OBVIOUS
      <4>1. /\ y \in B => Kind(y) \in Broadcasts
            /\ y \in B \/ Kind(y) = "store" \/ (Kind(y) = "branch" /\ y = br /\ Resolved(B))
        BY <1>10, MarkedIs
      <4>2. y \in B \/ Resolved(B)
        BY <2>1, <4>1 DEF Turning
      <4>3. y \in B => Kind(y) # "branch"
        BY <4>1 DEF Broadcasts
      <4> QED BY <3>1, <4>2, <4>3 DEF Resolved
    <3>4. Resolved(B) => y \in Marked(B)
      BY <1>10, <3>1, ResolvedIs
    <3> QED BY <1>4, <1>5, <1>13, <2>1, <2>3, <2>5, <3>1, <3>2, <3>3, <3>4
  <2> QED BY <2>4, <2>5
<1> QED BY <1>12, <1>13

\* The way is that of the last turn, for any set of turns.
LEMMA WayAfter ==
  ASSUME NEW x, NEW Q, Q = TurnsBefore(x)'
  PROVE  WayBefore(x)' = IF Q = {} THEN path'
                         ELSE IF rob'[Youngest(Q)'].done THEN rob'[Youngest(Q)'].went ELSE predicted'
<1>1. Youngest(TurnsBefore(x))' = Youngest(Q)'
  BY DEF Youngest
<1> QED BY <1>1 DEF WayBefore

\* Of a group only its first lane can turn.
LEMMA LaneTurns ==
  ASSUME WInv, NEW B, NEW n, NEW d, NEW miss, ~miss, Moves(B, n, d, miss),
         NEW i \in 1 .. Len(d) + 1, NEW c, c = count - n
  PROVE  /\ i = 1 \/ d[1].kind \notin Turning => TurnsBefore(c + i - 1)' = TurnsBefore(c)'
         /\ i > 1 /\ d[1].kind \in Turning
              => TurnsBefore(c + i - 1)' = TurnsBefore(c)' \cup {LaneTag(1)}
<1> DEFINE L == IF i > 1 /\ d[1].kind \in Turning THEN {LaneTag(1)} ELSE {}
<1>1. head \in Tags /\ count \in 0 .. Depth /\ n \in Retires /\ n \in 0 .. Depth
      /\ Len(d) <= Free /\ d \in Seq(Fetched) /\ Len(d) \in Nat /\ Depth \in Int
  BY RetiringIs, RenameAssumption DEF WInv, TypeOK, Moves
<1>2. \A x : TurnsBefore(x)' = {u \in Tags : InFlight(u)' /\ Age(u)' < x /\ rob'[u].insn.kind \in Turning}
  BY DEF TurnsBefore, Tags, Kind, Turning
<1>3. ASSUME NEW u \in Tags, InFlight(u)', rob'[u].insn.kind \in Turning, Age(u)' < c + i - 1
      PROVE  Age(u)' < c \/ u \in L
  <2>1. CASE u \in Allocated(d)
    <3>1. PICK j \in 1 .. Len(d) : j = Lane(d, u) /\ LaneTag(j) = u
      BY <1>1, <2>1, LaneIs
    <3>2. Age(u)' = c + j - 1
      BY <1>1, <2>1, <3>1, WindowAfter
    <3>3. j < i
      BY <1>1, <1>3, <3>2
    <3>4. d[j].kind \in Turning
      BY <1>3, <2>1, <3>1, EntryAfter
    <3>5. j = 1
      <4>1. \A k \in 2 .. Len(d) : d[k].kind \notin BranchClass
        BY DEF Moves
      <4>2. d[j].kind \in BranchClass
        BY <3>4 DEF Turning, BranchClass
      <4> QED BY <1>1, <4>1, <4>2
    <3> QED BY <3>1, <3>3, <3>4, <3>5
  <2>2. CASE u \notin Allocated(d)
    <3>1. Stays(u, n, miss) /\ Age(u)' = Age(u) - n
      BY <1>3, <2>2, WindowAfter
    <3>2. Age(u) < count /\ Age(u) \in 0 .. Depth - 1
      BY <1>1, <3>1, Ages DEF Stays, InFlight
    <3> QED BY <1>1, <3>1, <3>2
  <2> QED BY <2>1, <2>2
<1>4. ASSUME NEW u \in Tags, Age(u)' < c PROVE Age(u)' < c + i - 1
  <2>1. head' \in Tags
    BY WindowAfter
  <2>2. Age(u)' \in Int
    BY <2>1, RenameAssumption DEF Age, Tags
  <2> QED BY <1>1, <1>4, <2>2
<1>5. ASSUME i > 1, d[1].kind \in Turning
      PROVE  /\ LaneTag(1) \in Tags /\ \A u \in Tags : u = LaneTag(1) =>
                    InFlight(u)' /\ rob'[u].insn.kind \in Turning /\ Age(u)' < c + i - 1
  <2>1. 1 \in 1 .. Len(d)
    BY <1>1, <1>5
  <2>2. PICK u : u = LaneTag(1)
    OBVIOUS
  <2>3. u \in Allocated(d) /\ u \in Tags /\ Lane(d, u) = 1
    BY <1>1, <2>1, <2>2, LaneIs
  <2>4. InFlight(u)' /\ Age(u)' = count - n + 1 - 1
    BY <2>3, WindowAfter
  <2>5. rob'[u].insn.kind \in Turning
    BY <1>5, <2>3, EntryAfter
  <2>6. Age(u)' < c + i - 1
    BY <1>1, <1>5, <2>4
  <2> QED BY <2>2, <2>3, <2>4, <2>5, <2>6
<1>6. ASSUME NEW u \in L PROVE /\ i > 1 /\ d[1].kind \in Turning /\ u = LaneTag(1)
  BY <1>6
<1>7. ASSUME NEW u \in TurnsBefore(c + i - 1)' PROVE u \in TurnsBefore(c)' \cup L
  BY <1>2, <1>3
<1>8. ASSUME NEW u \in TurnsBefore(c)' \cup L PROVE u \in TurnsBefore(c + i - 1)'
  BY <1>2, <1>4, <1>5, <1>6
<1>9. TurnsBefore(c + i - 1)' = TurnsBefore(c)' \cup L
  <2> HIDE DEF L
  <2> QED BY <1>7, <1>8
<1>10. CASE i = 1 \/ d[1].kind \notin Turning
  <2>1. ~(i > 1 /\ d[1].kind \in Turning) /\ L = {}
    BY <1>10
  <2> QED BY <1>9, <2>1
<1>11. CASE i > 1 /\ d[1].kind \in Turning
  <2>1. L = {LaneTag(1)} /\ ~(i = 1)
    BY <1>11
  <2> QED BY <1>9, <1>11, <2>1
<1> QED BY <1>1, <1>10, <1>11

\* Behind a first lane that turns lies the predicted way.
LEMMA WayPredicted ==
  ASSUME WInv, NEW B, NEW n, NEW d, NEW miss, ~miss, Moves(B, n, d, miss),
         NEW i \in 2 .. Len(d) + 1, NEW c, c = count - n, d[1].kind \in Turning
  PROVE  WayBefore(c + i - 1)' = predicted'
<1>1. head \in Tags /\ count \in 0 .. Depth /\ n \in Retires /\ n \in 0 .. count /\ B \in Grants
      /\ Len(d) <= Free /\ d \in Seq(Fetched) /\ Len(d) \in Nat /\ Depth \in Int
  BY RetiringIs, RenameAssumption DEF WInv, TypeOK, Moves
<1>2. PICK y : y = LaneTag(1)
  OBVIOUS
<1>3. i \in 1 .. Len(d) + 1 /\ i > 1 /\ 1 \in 1 .. Len(d)
  BY <1>1
<1>4. y \in Allocated(d) /\ y \in Tags /\ Lane(d, y) = 1 /\ ~InFlight(y)
  BY <1>1, <1>2, <1>3, LaneIs
<1>5. Age(y)' = c /\ ~rob'[y].done
  <2>1. Age(y)' = c
    <3>1. Age(y)' = count - n + Lane(d, y) - 1
      BY <1>4, WindowAfter
    <3> QED BY <1>1, <1>4, <3>1
  <2>2. y \notin Marked(B)
    BY <1>1, <1>4, MarkedIs
  <2>3. rob'[y].done = (y \in Marked(B) \/ (rob[y].done /\ y \notin Allocated(d)))
    BY <1>4, EntryAfter
  <2>4. ~rob'[y].done
    BY <1>4, <2>2, <2>3
  <2> QED BY <2>1, <2>4
<1>6. PICK Q : Q = TurnsBefore(c + i - 1)'
  OBVIOUS
<1>7. Q = TurnsBefore(c)' \cup {y}
  <2>1. TurnsBefore(c + i - 1)' = TurnsBefore(c)' \cup {LaneTag(1)}
    BY <1>3, LaneTurns
  <2> QED BY <1>2, <1>6, <2>1
<1>8. \A u \in TurnsBefore(c)' : u \in Tags /\ Age(u)' < c
  BY DEF TurnsBefore, Tags
<1>9. Youngest(Q)' = y
  <2>1. Youngest(Q)' = CHOOSE t \in Q : \A u \in Q : Age(u)' <= Age(t)'
    BY DEF Youngest
  <2>2. head' \in Tags
    BY WindowAfter
  <2>3. \A u \in Tags : Age(u)' \in Int
    BY <2>2, RenameAssumption DEF Age, Tags
  <2>4. c \in Int
    BY <1>1
  <2>5. y \in Q /\ \A u \in Q : Age(u)' <= Age(y)'
    BY <1>4, <1>5, <1>7, <1>8, <2>3, <2>4
  <2>6. ASSUME NEW z \in Q, \A u \in Q : Age(u)' <= Age(z)' PROVE z = y
    BY <1>4, <1>5, <1>7, <1>8, <2>3, <2>4, <2>5, <2>6
  <2> QED BY <2>1, <2>5, <2>6
<1>10. PICK x : x = c + i - 1
  OBVIOUS
<1>11. WayBefore(x)' = predicted'
  <2>1. Q = TurnsBefore(x)' /\ Q # {}
    BY <1>6, <1>7, <1>10
  <2> QED BY <1>5, <1>9, <2>1, WayAfter
<1> QED BY <1>10, <1>11

\* The way before an age that is the count, or the age of a tag.
LEMMA WayOf ==
  /\ \A x : x = count' => WayBefore(count)' = WayBefore(x)'
  /\ \A t, x : x = Age(t)' => WayBefore(Age(t))' = WayBefore(x)'
<1>1. ASSUME NEW x, x = count' PROVE WayBefore(count)' = WayBefore(x)'
  <2>1. PICK Q : Q = TurnsBefore(x)'
    OBVIOUS
  <2>2. TurnsBefore(count)' = Q
    BY <1>1, <2>1 DEF TurnsBefore
  <2>3. Youngest(TurnsBefore(count))' = Youngest(Q)' /\ Youngest(TurnsBefore(x))' = Youngest(Q)'
    BY <2>1, <2>2 DEF Youngest
  <2> QED BY <2>1, <2>2, <2>3 DEF WayBefore
<1>2. ASSUME NEW t, NEW x, x = Age(t)' PROVE WayBefore(Age(t))' = WayBefore(x)'
  <2>1. PICK Q : Q = TurnsBefore(x)'
    OBVIOUS
  <2>2. TurnsBefore(Age(t))' = Q
    BY <1>2, <2>1 DEF TurnsBefore
  <2>3. Youngest(TurnsBefore(Age(t)))' = Youngest(Q)' /\ Youngest(TurnsBefore(x))' = Youngest(Q)'
    BY <2>1, <2>2 DEF Youngest
  <2> QED BY <2>1, <2>2, <2>3 DEF WayBefore
<1> QED BY <1>1, <1>2

\* A branch that is not mispredicted goes as predicted, unless fetch waits.
LEMMA GoesAsPredicted ==
  ASSUME WInv, FrontOK, NEW B, br # NoTag, Kind(br) \in Turning, ~jalr_stall, Resolved(B),
         ~Mispredict(B)
  PROVE  Target = predicted
<1>1. spec_active
  BY DEF FrontOK
<1> QED BY <1>1 DEF Mispredict

\* An entry that stays was fetched on the way before it.
LEMMA OldWay ==
  ASSUME WInv, FrontOK, WaysOK, NEW B, NEW n, NEW d, NEW miss, Moves(B, n, d, miss),
         path' = IF Turns(n) = {} THEN path ELSE rob[Youngest(Turns(n))].went,
         br # NoTag => predicted' = predicted,
         NEW t \in Tags, Stays(t, n, miss), Mispredict(B) => Age(t) <= Age(br)
  PROVE  rob'[t].insn.path = WayBefore(Age(t))'
<1>1. /\ head \in Tags /\ count \in 0 .. Depth /\ n \in Retires /\ n \in 0 .. count /\ Depth \in Int
      /\ miss \in BOOLEAN
  BY RetiringIs, RenameAssumption DEF WInv, TypeOK, Moves
<1>2. InFlight(t) /\ Age(t) >= n
  BY DEF Stays
<1>3. PICK a : a = Age(t)
  OBVIOUS
<1>4. a \in Int /\ n <= a /\ a <= count /\ a < count
  <2>1. Age(t) \in 0 .. Depth - 1
    BY <1>1, Ages
  <2> QED BY <1>1, <1>2, <1>3, <2>1 DEF InFlight
<1>5. \A u \in Tags : InFlight(u) /\ Age(u) >= n /\ Age(u) < a => Stays(u, n, miss)
  BY <1>1, <1>3, OlderStay
<1>6. ASSUME br \in TurnsBefore(a)
      PROVE  (Resolved(B) => Target = predicted) /\ predicted' = predicted
  <2>1. br \in Tags /\ Age(br) < a /\ Kind(br) \in Turning
    BY <1>6 DEF TurnsBefore
  <2>2. br # NoTag /\ Age(br) \in Int
    <3>1. br # NoTag
      BY <2>1, RenameAssumption DEF NoTag, Tags
    <3>2. Age(br) \in 0 .. Depth - 1
      BY <1>1, <2>1, Ages
    <3> QED BY <1>1, <3>1, <3>2
  <2>3. ~Mispredict(B)
    BY <1>3, <1>4, <2>1, <2>2
  <2>4. ~jalr_stall
    <3> SUFFICES ASSUME jalr_stall PROVE FALSE
      OBVIOUS
    <3>1. Age(br) = count - 1
      BY DEF FrontOK
    <3> QED BY <1>1, <1>4, <2>1, <3>1
  <2> QED BY <2>1, <2>2, <2>3, <2>4, GoesAsPredicted
<1>7. WayBefore(a - n)' = WayBefore(a)
  BY <1>4, <1>5, <1>6, WayKept
<1>8. rob'[t].insn = rob[t].insn /\ Age(t)' = a - n
  <2>1. t \notin Allocated(d)
    BY <1>2, LaneIs DEF Moves
  <2> QED BY <1>3, <2>1, EntryAfter, WindowAfter
<1>9. PICK x : x = a - n
  OBVIOUS
<1>10. WayBefore(Age(t))' = WayBefore(x)'
  BY <1>8, <1>9, WayOf
<1>11. rob[t].insn.path = WayBefore(a)
  BY <1>2, <1>3 DEF WaysOK
<1> QED BY <1>7, <1>8, <1>9, <1>10, <1>11

\* The way before what is dispatched next stays, when nothing is mispredicted.
LEMMA FrontWay ==
  ASSUME WInv, FrontOK, ~jalr_stall, NEW B, NEW n, NEW d, NEW miss, ~miss, Moves(B, n, d, miss),
         path' = IF Turns(n) = {} THEN path ELSE rob[Youngest(Turns(n))].went,
         br # NoTag => predicted' = predicted, ~Mispredict(B),
         NEW k, k = count, NEW c, c = count - n
  PROVE  WayBefore(c)' = WayBefore(k)
<1>1. head \in Tags /\ count \in 0 .. Depth /\ n \in Retires /\ n \in 0 .. count /\ Depth \in Int
  BY RetiringIs, RenameAssumption DEF WInv, TypeOK, Moves
<1>2. k \in Int /\ n <= k /\ k <= count /\ c = k - n
  BY <1>1
<1>3. \A u \in Tags : InFlight(u) /\ Age(u) >= n /\ Age(u) < k => Stays(u, n, miss)
  BY DEF Stays
<1>4. ASSUME br \in TurnsBefore(k)
      PROVE  (Resolved(B) => Target = predicted) /\ predicted' = predicted
  <2>1. br \in Tags /\ Kind(br) \in Turning
    BY <1>4 DEF TurnsBefore
  <2>2. br # NoTag
    BY <2>1, RenameAssumption DEF NoTag, Tags
  <2> QED BY <2>1, <2>2, GoesAsPredicted
<1>5. WayBefore(k - n)' = WayBefore(k)
  BY <1>2, <1>3, <1>4, WayKept
<1> QED BY <1>2, <1>5

(***************************************************************************)
(* The three kinds of edge.                                                *)
(***************************************************************************)
\* A branch that neither resolves nor is dropped keeps its kind and its place.
LEMMA BranchStays ==
  ASSUME WInv, NEW B, NEW n, NEW d, NEW miss, ~miss, Moves(B, n, d, miss),
         br # NoTag, ~Resolved(B), ~Leads(d)
  PROVE  br' = br /\ Kind(br)' = Kind(br) /\ Age(br)' = Age(br) - n
<1>1. br' = br
  BY DEF Moves
<1>2. PICK p : p = br
  OBVIOUS
<1>3. p \in Tags /\ InFlight(p) /\ ~rob[p].done
  BY <1>2 DEF WInv, WindowOK, TypeOK
<1>4. Age(p) >= n
  BY <1>3, WindowAfter
<1>5. Stays(p, n, miss) /\ p \notin Allocated(d)
  BY <1>3, <1>4, LaneIs DEF Stays, Moves
<1>6. Age(p)' = Age(p) - n /\ rob'[p].insn = rob[p].insn
  BY <1>3, <1>5, WindowAfter, EntryAfter
<1>7. Age(br)' = Age(p)'
  BY <1>1, <1>2 DEF Age
<1> QED BY <1>1, <1>2, <1>6, <1>7 DEF Kind

\* Behind a branch that resolves with nothing after it lies the way it went.
LEMMA WayResolved ==
  ASSUME WInv, NEW B, NEW n, NEW d, NEW miss, Moves(B, n, d, miss), Len(d) = 0, Resolved(B),
         Kind(br) \in Turning, count' = Age(br) + 1 - n
  PROVE  WayBefore(count)' = Target
<1>1. /\ head \in Tags /\ count \in 0 .. Depth /\ n \in Retires /\ n \in 0 .. count /\ Depth \in Int
      /\ miss \in BOOLEAN /\ B \in Grants /\ d \in Seq(Fetched) /\ Len(d) <= Free
  BY RetiringIs, RenameAssumption DEF WInv, TypeOK, Moves
<1>2. PICK p : p = br
  OBVIOUS
<1>3. p \in Tags /\ InFlight(p) /\ ~rob[p].done /\ p \in Marked(B)
  BY <1>1, <1>2, ResolvedIs
<1>4. Age(p) >= n /\ Age(p) \in 0 .. Depth - 1
  BY <1>1, <1>3, WindowAfter, Ages
<1>5. Stays(p, n, miss)
  <2>1. Age(p) <= Age(br)
    BY <1>1, <1>2, <1>4
  <2> QED BY <1>3, <1>4, <2>1 DEF Stays
<1>6. ASSUME NEW t \in Tags PROVE t \notin Allocated(d)
  <2>1. 1 .. Len(d) = {}
    OBVIOUS
  <2>2. t \in Allocated(d) => Lane(d, t) \in 1 .. Len(d)
    BY <1>1, LaneIs
  <2> QED BY <2>1, <2>2
<1>7. Age(p)' = Age(p) - n /\ InFlight(p)'
  BY <1>3, <1>5, WindowAfter
<1>8. rob'[p].done /\ rob'[p].went = Target /\ rob'[p].insn = rob[p].insn
  BY <1>2, <1>3, <1>6, EntryAfter
<1>9. PICK x : x = count'
  OBVIOUS
<1>10. PICK Q : Q = TurnsBefore(x)'
  OBVIOUS
<1>11. \A u \in Q : u \in Tags /\ InFlight(u)' /\ Age(u)' < x
  BY <1>10 DEF TurnsBefore, Tags
<1>12. p \in Q
  <2>1. Age(p)' < x
    BY <1>1, <1>2, <1>4, <1>7, <1>9
  <2> QED BY <1>2, <1>3, <1>7, <1>8, <1>10, <2>1 DEF TurnsBefore, Tags, Kind
<1>13. ASSUME NEW u \in Q PROVE /\ u \in Tags /\ Age(u)' = Age(u) - n /\ Age(u) \in 0 .. Depth - 1
                               /\ Age(u)' <= Age(p)'
  <2>1. u \in Tags /\ Stays(u, n, miss)
    BY <1>6, <1>11, WindowAfter
  <2>2. Age(u)' = Age(u) - n /\ Age(u) \in 0 .. Depth - 1
    BY <1>1, <2>1, WindowAfter, Ages
  <2>3. Age(u)' < x /\ x = Age(p) + 1 - n
    BY <1>2, <1>9, <1>11
  <2> QED BY <1>1, <1>4, <1>7, <2>1, <2>2, <2>3
<1>14. Youngest(Q)' = p
  <2>1. Youngest(Q)' = CHOOSE t \in Q : \A u \in Q : Age(u)' <= Age(t)'
    BY DEF Youngest
  <2>2. ASSUME NEW z \in Q, \A u \in Q : Age(u)' <= Age(z)' PROVE z = p
    <3>1. Age(p)' <= Age(z)' /\ Age(z)' <= Age(p)' /\ z \in Tags
      BY <1>12, <1>13, <2>2
    <3>2. Age(p) = Age(z)
      BY <1>1, <1>4, <1>7, <1>13, <3>1
    <3> QED BY <1>1, <1>3, <3>1, <3>2, Ages
  <2> QED BY <1>12, <1>13, <2>1, <2>2
<1>15. WayBefore(x)' = Target
  BY <1>8, <1>10, <1>12, <1>14, WayAfter
<1> QED BY <1>9, <1>15, WayOf

\* Dispatch leaves every operand, result and way that of in-order execution.
LEMMA DispatchExact ==
  ASSUME RInv, ~torn, Exact, NEW B \in Grants, NEW n \in Retires, Dispatch(B, n), WInv'
  PROVE  Exact'
<1>1. PICK g \in Groups :
        \E way \in Predictions(g[1]) : Accepts(g, way) /\ Accept(B, n, g, way)
  BY DEF Dispatch
<1>2. PICK way \in Predictions(g[1]) : Accepts(g, way) /\ Accept(B, n, g, way)
  BY <1>1
<1>3. PICK d : d = OnPath(g, way)
  OBVIOUS
<1>4. PICK miss : miss = FALSE
  OBVIOUS
<1>5. Moves(B, n, d, miss) /\ ~miss /\ WInv
  BY <1>2, <1>3, <1>4, DispatchMoves DEF RInv
<1>6. /\ d \in Seq(Fetched) /\ Len(d) = Len(g) /\ Len(g) \in Nat /\ Len(g) >= 1
      /\ \A i \in 1 .. Len(g) : d[i].kind = g[i].kind
      /\ d[1].path = pc_latched
      /\ \A i \in 2 .. Len(g) : d[i].path = IF g[1].kind = "branch" THEN way ELSE pc_latched
      /\ way # NoWay => g[1].kind \in {"branch", "jalr"}
      /\ g[1].kind = "branch" => way \in Paths
  <2>1. pc_latched \in Paths
    BY DEF RInv, WInv, TypeOK
  <2> QED BY <1>3, <2>1, GroupIs, RenameAssumption
<1>7. /\ active /\ fetch_valid /\ ~jalr_stall /\ ~Mispredict(B)
  BY DEF Dispatch
<1>8. /\ rf' = Committed(n)
      /\ path' = IF Turns(n) = {} THEN path ELSE rob[Youngest(Turns(n))].went
      /\ active' = ~active
      /\ count' = count + Len(d) - n
      /\ br' = IF g[1].kind \in BranchClass THEN tail ELSE IF Resolved(B) THEN NoTag ELSE br
      /\ spec_active' = (way # NoWay \/ (spec_active /\ ~Resolved(B)))
      /\ predicted' = IF way # NoWay THEN way ELSE predicted
      /\ jalr_stall' = (g[1].kind = "jalr" /\ way = NoWay)
      /\ pc' = IF way # NoWay THEN way ELSE pc_latched
  BY <1>2, <1>6 DEF Accept, Edge, Commit
<1>9. /\ g[1].kind \in BranchClass => br = NoTag
      /\ Len(g) > 1 => g[1].kind # "jalr"
  BY <1>2 DEF Accepts, BreaksFlow
<1>10. OperandsOK /\ WaysOK /\ FrontOK
  BY DEF Exact
<1>11. /\ head \in Tags /\ count \in 0 .. Depth /\ n \in 0 .. count /\ n \in 0 .. Depth /\ Depth \in Int
       /\ Len(d) <= Free /\ tail \in Tags
  BY <1>5, RetiringIs, RenameAssumption DEF WInv, TypeOK, Moves
<1>12. br # NoTag => predicted' = predicted /\ way = NoWay /\ g[1].kind \notin BranchClass
  BY <1>6, <1>8, <1>9 DEF BranchClass
<1>13. PICK c : c = count - n
  OBVIOUS
<1>14. PICK k : k = count
  OBVIOUS
<1>15. WayBefore(c)' = pc_latched
  <2>1. WayBefore(c)' = WayBefore(k)
    BY <1>5, <1>7, <1>8, <1>10, <1>12, <1>13, <1>14, FrontWay
  <2>2. pc_latched = WayBefore(k)
    BY <1>7, <1>10, <1>14 DEF FrontOK
  <2> QED BY <2>1, <2>2
<1>16. d[1].kind \in Turning <=> g[1].kind \in {"branch", "jalr"}
  BY <1>6 DEF Turning
<1>17. ASSUME NEW i \in 1 .. Len(d) + 1
       PROVE  WayBefore(c + i - 1)' =
                IF i = 1 \/ d[1].kind \notin Turning THEN pc_latched ELSE predicted'
  <2>1. CASE i = 1 \/ d[1].kind \notin Turning
    <3>1. TurnsBefore(c + i - 1)' = TurnsBefore(c)'
      BY <1>5, <1>13, <2>1, LaneTurns
    <3>2. PICK x : x = c + i - 1
      OBVIOUS
    <3>3. PICK Q : Q = TurnsBefore(c)'
      OBVIOUS
    <3>4. WayBefore(x)' = WayBefore(c)'
      BY <3>1, <3>2, <3>3, WayAfter
    <3> QED BY <1>15, <2>1, <3>2, <3>4
  <2>2. CASE ~(i = 1 \/ d[1].kind \notin Turning)
    <3>1. i \in 2 .. Len(d) + 1 /\ d[1].kind \in Turning
      BY <1>6, <2>2
    <3>2. WayBefore(c + i - 1)' = predicted'
      BY <1>5, <1>13, <3>1, WayPredicted
    <3> QED BY <2>2, <3>2
  <2> QED BY <2>1, <2>2
<1>18. OperandsOK'
  <2>1. ASSUME NEW t \in Tags PROVE Awaits(t)' /\ Holds(t)' /\ Finishes(t)'
    <3>1. CASE t \in Allocated(d)
      BY <1>5, <1>8, <3>1, NewOperand
    <3>2. CASE t \notin Allocated(d)
      BY <1>5, <1>8, <1>10, <3>2, OldOperand
    <3> QED BY <3>1, <3>2
  <2> QED BY <2>1 DEF OperandsOK, Tags
<1>19. WaysOK'
  <2> SUFFICES ASSUME NEW t \in Tags, InFlight(t)' PROVE rob'[t].insn.path = WayBefore(Age(t))'
    BY DEF WaysOK, Tags
  <2>1. CASE t \in Allocated(d)
    <3>1. PICK i \in 1 .. Len(d) : i = Lane(d, t)
      BY <1>5, <1>6, <1>11, <2>1, LaneIs
    <3>2. Age(t)' = c + i - 1 /\ rob'[t].insn = d[i]
      BY <1>5, <1>13, <2>1, <3>1, WindowAfter, EntryAfter
    <3>3. PICK x : x = c + i - 1
      OBVIOUS
    <3>4. WayBefore(Age(t))' = WayBefore(x)'
      BY <3>2, <3>3, WayOf
    <3>5. i \in 1 .. Len(d) + 1
      BY <1>6
    <3>6. WayBefore(x)' = IF i = 1 \/ d[1].kind \notin Turning THEN pc_latched ELSE predicted'
      BY <1>17, <3>3, <3>5
    <3>7. CASE i = 1
      BY <1>6, <3>2, <3>4, <3>6, <3>7
    <3>8. CASE i # 1
      <4>1. i \in 2 .. Len(g) /\ Len(g) > 1
        BY <1>6, <3>8
      <4>2. d[i].path = IF g[1].kind = "branch" THEN way ELSE pc_latched
        BY <1>6, <4>1
      <4>3. d[1].kind \in Turning <=> g[1].kind = "branch"
        BY <1>9, <1>16, <4>1
      <4>4. g[1].kind = "branch" => predicted' = way
        BY <1>6, <1>8 DEF Paths, NoWay
      <4> QED BY <3>2, <3>4, <3>6, <3>8, <4>2, <4>3, <4>4
    <3> QED BY <3>7, <3>8
  <2>2. CASE t \notin Allocated(d)
    <3>1. Stays(t, n, miss)
      BY <1>5, <2>2, WindowAfter
    <3> QED BY <1>5, <1>7, <1>8, <1>10, <1>12, <3>1, OldWay
  <2> QED BY <2>1, <2>2
<1>20. FrontOK'
  <2>1. WayBefore(count)' = IF d[1].kind \notin Turning THEN pc_latched ELSE predicted'
    <3>1. PICK i \in 1 .. Len(d) + 1 : i = Len(d) + 1 /\ i # 1
      BY <1>6
    <3>2. PICK x : x = c + i - 1
      OBVIOUS
    <3>3. x = count'
      BY <1>6, <1>8, <1>11, <1>13, <3>1, <3>2
    <3>4. WayBefore(count)' = WayBefore(x)'
      BY <3>3, WayOf
    <3> QED BY <1>17, <3>1, <3>2, <3>4
  <2>2. ~jalr_stall' => pc' = WayBefore(count)'
    <3>1. CASE way # NoWay
      BY <1>6, <1>8, <1>16, <2>1, <3>1
    <3>2. CASE way = NoWay
      <4>1. g[1].kind # "branch"
        BY <1>6, <3>2 DEF Paths, NoWay
      <4> QED BY <1>8, <1>16, <2>1, <3>2, <4>1
    <3> QED BY <3>1, <3>2
  <2>3. ~active'
    BY <1>7, <1>8
  <2>4. ASSUME g[1].kind \in BranchClass
        PROVE  Age(br)' = c /\ Kind(br)' = g[1].kind
    <3>1. LaneTag(1) = tail /\ 1 \in 1 .. Len(d)
      BY <1>6, <1>11 DEF LaneTag, Plus, Tags
    <3>2. PICK u : u = tail
      OBVIOUS
    <3>3. u \in Allocated(d) /\ Lane(d, u) = 1 /\ u \in Tags
      BY <1>5, <1>6, <1>11, <3>1, <3>2, LaneIs
    <3>4. Age(u)' = count - n + Lane(d, u) - 1 /\ rob'[u].insn = d[1]
      BY <1>5, <3>3, WindowAfter, EntryAfter
    <3>5. Age(u)' = c
      BY <1>11, <1>13, <3>3, <3>4
    <3>6. br' = u
      BY <1>8, <2>4, <3>2
    <3>7. Age(br)' = Age(u)'
      BY <3>6 DEF Age
    <3>8. 1 \in 1 .. Len(g)
      BY <1>6
    <3> QED BY <1>6, <3>4, <3>5, <3>6, <3>7, <3>8 DEF Kind
  <2>5. jalr_stall' => Kind(br)' = "jalr" /\ Age(br)' = count' - 1
    <3> SUFFICES ASSUME jalr_stall' PROVE Kind(br)' = "jalr" /\ Age(br)' = count' - 1
      OBVIOUS
    <3>1. g[1].kind = "jalr" /\ g[1].kind \in BranchClass
      BY <1>8 DEF BranchClass
    <3>2. Len(d) = 1
      BY <1>6, <1>9, <3>1
    <3>3. count' = c + 1
      BY <1>8, <1>11, <1>13, <3>2
    <3>4. c \in Int
      BY <1>11, <1>13
    <3> QED BY <2>4, <3>1, <3>3, <3>4
  <2>6. ASSUME g[1].kind \notin BranchClass, br' # NoTag
        PROVE  br # NoTag /\ ~Resolved(B) /\ Kind(br)' = Kind(br)
    <3>1. br # NoTag /\ ~Resolved(B)
      BY <1>8, <2>6
    <3>2. ~Leads(d)
      <4>1. 1 \in 1 .. Len(g)
        BY <1>6
      <4> QED BY <1>6, <2>6, <4>1 DEF Leads
    <3> QED BY <1>5, <3>1, <3>2, BranchStays
  <2>7. spec_active' => Kind(br)' \in Turning
    <3>1. CASE way # NoWay
      BY <1>6, <2>4, <3>1 DEF BranchClass, Turning
    <3>2. CASE way = NoWay
      <4> SUFFICES ASSUME spec_active' PROVE Kind(br)' \in Turning
        OBVIOUS
      <4>1. spec_active /\ ~Resolved(B)
        BY <1>8, <3>2
      <4>2. br # NoTag /\ Kind(br) \in Turning
        BY <1>5, <1>10, <4>1 DEF WInv, WindowOK, FrontOK
      <4>3. g[1].kind \notin BranchClass /\ br' = br
        BY <1>8, <1>9, <4>1, <4>2
      <4> QED BY <2>6, <4>2, <4>3
    <3> QED BY <3>1, <3>2
  <2>8. br' # NoTag /\ Kind(br)' \in Turning => spec_active' \/ jalr_stall'
    <3> SUFFICES ASSUME br' # NoTag, Kind(br)' \in Turning PROVE spec_active' \/ jalr_stall'
      OBVIOUS
    <3>1. CASE g[1].kind \in BranchClass
      <4>1. g[1].kind \in {"branch", "jalr"}
        BY <2>4, <3>1 DEF Turning
      <4>2. g[1].kind = "branch" => way # NoWay
        BY <1>6 DEF Paths, NoWay
      <4> QED BY <1>8, <4>1, <4>2
    <3>2. CASE g[1].kind \notin BranchClass
      <4>1. br # NoTag /\ ~Resolved(B) /\ Kind(br) \in Turning
        BY <2>6, <3>2
      <4>2. spec_active
        BY <1>7, <1>10, <4>1 DEF FrontOK
      <4> QED BY <1>8, <4>1, <4>2
    <3> QED BY <3>1, <3>2
  <2> QED BY <2>2, <2>3, <2>5, <2>7, <2>8 DEF FrontOK
<1> QED BY <1>18, <1>19, <1>20 DEF Exact

\* So does an edge at which nothing is dispatched.
LEMMA HoldExact ==
  ASSUME RInv, ~torn, Exact, NEW B \in Grants, NEW n \in Retires, Hold(B, n), WInv'
  PROVE  Exact'
<1>1. PICK d : d = <<>>
  OBVIOUS
<1>2. PICK miss : miss = FALSE
  OBVIOUS
<1>3. Moves(B, n, d, miss) /\ ~miss /\ WInv
  BY <1>1, <1>2, HoldMoves DEF RInv
<1>4. Len(d) = 0 /\ Allocated(d) = {} /\ ~Leads(d)
  BY <1>1 DEF Allocated, Leads
<1>5. /\ ~Mispredict(B)
      /\ rf' = Committed(n)
      /\ path' = IF Turns(n) = {} THEN path ELSE rob[Youngest(Turns(n))].went
      /\ active' = ~active /\ pc_latched' = pc /\ fetch_valid' = ~Redirect(B)
      /\ count' = count - n
      /\ br' = IF Resolved(B) THEN NoTag ELSE br
      /\ spec_active' = (spec_active /\ ~Resolved(B))
      /\ jalr_stall' = (jalr_stall /\ ~Resolved(B))
      /\ pc' = IF Redirect(B) THEN Target ELSE pc
      /\ predicted' = predicted
  BY DEF Hold, Edge, Commit
<1>6. OperandsOK /\ WaysOK /\ FrontOK
  BY DEF Exact
<1>7. /\ head \in Tags /\ count \in 0 .. Depth /\ n \in 0 .. count /\ n \in 0 .. Depth /\ Depth \in Int
  BY <1>3, RetiringIs, RenameAssumption DEF WInv, TypeOK
<1>8. OperandsOK'
  <2>1. ASSUME NEW t \in Tags PROVE Awaits(t)' /\ Holds(t)' /\ Finishes(t)'
    BY <1>3, <1>4, <1>5, <1>6, OldOperand
  <2> QED BY <2>1 DEF OperandsOK, Tags
<1>9. WaysOK'
  <2> SUFFICES ASSUME NEW t \in Tags, InFlight(t)' PROVE rob'[t].insn.path = WayBefore(Age(t))'
    BY DEF WaysOK, Tags
  <2>1. Stays(t, n, miss)
    BY <1>3, <1>4, WindowAfter
  <2> QED BY <1>3, <1>5, <1>6, <2>1, OldWay
<1>10. PICK c : c = count - n
  OBVIOUS
<1>11. WayBefore(count)' = WayBefore(c)'
  BY <1>5, <1>10, WayOf
<1>12. PICK k : k = count
  OBVIOUS
<1>13. ~jalr_stall => WayBefore(count)' = WayBefore(count)
  <2> SUFFICES ASSUME ~jalr_stall PROVE WayBefore(count)' = WayBefore(count)
    OBVIOUS
  <2>1. WayBefore(c)' = WayBefore(k)
    BY <1>3, <1>5, <1>6, <1>10, <1>12, FrontWay
  <2> QED BY <1>11, <1>12, <2>1
<1>14. ASSUME jalr_stall, Resolved(B) PROVE WayBefore(count)' = Target
  <2>1. Kind(br) \in Turning /\ Age(br) = count - 1
    BY <1>6, <1>14 DEF FrontOK, Turning
  <2>2. count' = Age(br) + 1 - n
    BY <1>5, <1>7, <2>1
  <2> QED BY <1>3, <1>4, <1>14, <2>1, <2>2, WayResolved
<1>15. FrontOK'
  <2>1. ~jalr_stall' => pc' = WayBefore(count)'
    <3>1. CASE ~jalr_stall
      BY <1>5, <1>6, <1>13, <3>1 DEF FrontOK, Redirect
    <3>2. CASE jalr_stall
      BY <1>5, <1>14, <3>2 DEF Redirect
    <3> QED BY <3>1, <3>2
  <2>2. ~jalr_stall' /\ fetch_valid' => pc_latched' = WayBefore(count)'
    <3>1. CASE ~jalr_stall
      BY <1>5, <1>6, <1>13, <3>1 DEF FrontOK
    <3>2. CASE jalr_stall
      BY <1>5, <3>2 DEF Redirect
    <3> QED BY <3>1, <3>2
  <2>3. ASSUME br' # NoTag
        PROVE  br # NoTag /\ ~Resolved(B) /\ Kind(br)' = Kind(br) /\ Age(br)' = Age(br) - n
    <3>1. br # NoTag /\ ~Resolved(B)
      BY <1>5, <2>3
    <3> QED BY <1>3, <1>4, <3>1, BranchStays
  <2>4. spec_active' \/ jalr_stall' => br' # NoTag
    BY <1>3, <1>5 DEF WInv, WindowOK
  <2>5. jalr_stall' => Kind(br)' = "jalr" /\ Age(br)' = count' - 1
    <3> SUFFICES ASSUME jalr_stall' PROVE Kind(br)' = "jalr" /\ Age(br)' = count' - 1
      OBVIOUS
    <3>1. jalr_stall /\ Kind(br)' = Kind(br) /\ Age(br)' = Age(br) - n
      BY <1>5, <2>3, <2>4
    <3>2. Kind(br) = "jalr" /\ Age(br) = count - 1
      BY <1>6, <3>1 DEF FrontOK
    <3> QED BY <1>5, <1>7, <3>1, <3>2
  <2>6. spec_active' => Kind(br)' \in Turning
    BY <1>5, <1>6, <2>3, <2>4 DEF FrontOK
  <2>7. br' # NoTag /\ Kind(br)' \in Turning => spec_active' \/ jalr_stall'
    BY <1>5, <1>6, <2>3 DEF FrontOK
  <2> QED BY <2>1, <2>2, <2>5, <2>6, <2>7 DEF FrontOK
<1> QED BY <1>8, <1>9, <1>15 DEF Exact

\* So does a rollback.
LEMMA RollbackExact ==
  ASSUME RInv, ~torn, Exact, NEW B \in Grants, NEW n \in Retires, Rollback(B, n), WInv'
  PROVE  Exact'
<1>1. PICK d : d = <<>>
  OBVIOUS
<1>2. PICK miss : miss = TRUE
  OBVIOUS
<1>3. Moves(B, n, d, miss) /\ WInv
  BY <1>1, <1>2, RollbackMoves DEF RInv
<1>4. Len(d) = 0 /\ Allocated(d) = {}
  BY <1>1 DEF Allocated
<1>5. /\ Mispredict(B)
      /\ rf' = Committed(n)
      /\ path' = IF Turns(n) = {} THEN path ELSE rob[Youngest(Turns(n))].went
      /\ fetch_valid' = ~Redirect(B)
      /\ count' = Age(br) + 1 - n
      /\ br' = NoTag /\ spec_active' = FALSE /\ jalr_stall' = FALSE
      /\ pc' = Target /\ predicted' = predicted
  BY DEF Rollback, Edge, Commit
<1>6. OperandsOK /\ WaysOK /\ FrontOK
  BY DEF Exact
<1>7. spec_active /\ Resolved(B)
  BY <1>5 DEF Mispredict
<1>8. OperandsOK'
  <2>1. ASSUME NEW t \in Tags PROVE Awaits(t)' /\ Holds(t)' /\ Finishes(t)'
    BY <1>3, <1>4, <1>5, <1>6, OldOperand
  <2> QED BY <2>1 DEF OperandsOK, Tags
<1>9. WaysOK'
  <2> SUFFICES ASSUME NEW t \in Tags, InFlight(t)' PROVE rob'[t].insn.path = WayBefore(Age(t))'
    BY DEF WaysOK, Tags
  <2>1. Stays(t, n, miss)
    BY <1>3, <1>4, WindowAfter
  <2>2. Age(t) <= Age(br)
    BY <1>2, <2>1 DEF Stays
  <2> QED BY <1>3, <1>5, <1>6, <2>1, <2>2, OldWay
<1>10. FrontOK'
  <2>1. Kind(br) \in Turning
    BY <1>6, <1>7 DEF FrontOK
  <2>2. WayBefore(count)' = Target
    BY <1>3, <1>4, <1>5, <1>7, <2>1, WayResolved
  <2>3. ~fetch_valid'
    BY <1>5 DEF Redirect
  <2> QED BY <1>5, <2>2, <2>3 DEF FrontOK
<1> QED BY <1>8, <1>9, <1>10 DEF Exact

\* Nothing has been fetched, nothing is in flight.
LEMMA InitExact == Init => EInv
<1> SUFFICES ASSUME Init PROVE EInv
  OBVIOUS
<1>1. RInv
  BY InitRenaming
<1>2. count = 0 /\ \A t \in Tags : ~InFlight(t)
  BY RenameAssumption DEF Init, InFlight, Age, Tags
<1>3. \A t \in Tags : ~rs[t].busy
  BY DEF Init, Idle
<1>4. OperandsOK /\ WaysOK
  BY <1>2, <1>3 DEF OperandsOK, Awaits, Holds, Finishes, WaysOK
<1>5. WayBefore(count) = path
  BY <1>2 DEF WayBefore, TurnsBefore
<1>6. FrontOK
  BY <1>5 DEF Init, FrontOK
<1> QED BY <1>1, <1>4, <1>6 DEF EInv, Exact

\* Every edge keeps it, until a rollback is torn.
LEMMA NextExact == EInv /\ [Next]_vars => EInv'
<1> SUFFICES ASSUME EInv, [Next]_vars PROVE EInv'
  OBVIOUS
<1>1. RInv' /\ WInv'
  BY NextRenaming DEF EInv, RInv
<1>2. CASE Next
  <2>1. PICK B \in Grants : \E n \in Retires : Step(B, n)
    BY <1>2 DEF Next
  <2>2. PICK n \in Retires : Step(B, n)
    BY <2>1
  <2>3. torn => torn'
    BY <2>2 DEF Step, Dispatch, Accept, Hold, Rollback, Edge
  <2>4. ASSUME ~torn PROVE Exact'
    BY <1>1, <2>2, <2>4, DispatchExact, HoldExact, RollbackExact DEF EInv, Step
  <2> QED BY <1>1, <2>3, <2>4 DEF EInv
<1>3. CASE UNCHANGED vars
  <2>1. /\ head' = head /\ count' = count /\ rob' = rob /\ rf' = rf /\ rs' = rs /\ br' = br
        /\ spec_active' = spec_active /\ predicted' = predicted /\ jalr_stall' = jalr_stall
        /\ active' = active /\ pc' = pc /\ pc_latched' = pc_latched /\ fetch_valid' = fetch_valid
        /\ path' = path /\ torn' = torn
    BY <1>3 DEF vars, ring, table, front
  <2>2. ASSUME Exact PROVE Exact'
    <3>1. ASSUME NEW t \in Tags
          PROVE  /\ Age(t)' = Age(t) /\ Kind(t)' = Kind(t) /\ InFlight(t)' = InFlight(t)
                 /\ OperandKnown(t)' = OperandKnown(t) /\ OperandIs(t)' = OperandIs(t)
                 /\ Before(Source(t), Age(t))' = Before(Source(t), Age(t))
                 /\ WayBefore(Age(t))' = WayBefore(Age(t))
                 /\ \A u : Age(u)' = Age(u)
      BY <2>1 DEF OperandKnown, OperandIs, ValueBefore, KnownBefore, WayBefore, Before, TurnsBefore,
                  Youngest, Source, Age, InFlight, Kind, Tags, Turning
    <3>2. WayBefore(count)' = WayBefore(count)
      BY <2>1 DEF WayBefore, TurnsBefore, Youngest, Age, InFlight, Kind, Tags, Turning
    <3>3. OperandsOK'
      <4> SUFFICES ASSUME NEW t \in Tags PROVE Awaits(t)' /\ Holds(t)' /\ Finishes(t)'
        BY DEF OperandsOK, Tags
      <4>1. Awaits(t) /\ Holds(t) /\ Finishes(t)
        BY <2>2 DEF Exact, OperandsOK
      <4>2. Awaits(t)'
        <5>1. Age(rs[t].tag)' = Age(rs[t].tag)
          BY <2>1 DEF Age
        <5> QED BY <2>1, <3>1, <4>1, <5>1 DEF Awaits
      <4>3. Holds(t)'
        BY <2>1, <3>1, <4>1 DEF Holds
      <4>4. Finishes(t)'
        BY <2>1, <3>1, <4>1 DEF Finishes
      <4> QED BY <4>2, <4>3, <4>4
    <3>4. WaysOK'
      BY <2>1, <2>2, <3>1 DEF Exact, WaysOK, Tags
    <3>5. FrontOK'
      BY <2>1, <2>2, <3>2 DEF Exact, FrontOK, Kind, Age
    <3> QED BY <3>3, <3>4, <3>5 DEF Exact
  <2> QED BY <1>1, <2>1, <2>2 DEF EInv
<1> QED BY <1>2, <1>3

(***************************************************************************)
(* Retirement is in-order execution.                                       *)
(***************************************************************************)
\* The way after the first i instructions that retire.
PathAfter(i) == IF Turns(i) = {} THEN path ELSE rob[Youngest(Turns(i))].went

\* The next to retire is the youngest of those that have.
LEMMA NextRetiring ==
  ASSUME WInv, NEW n \in Retires, NEW i \in 1 .. n, NEW t, t = Position(i - 1)
  PROVE  /\ t \in Tags /\ Age(t) = i - 1 /\ InFlight(t) /\ rob[t].done
         /\ Retiring(i) = Retiring(i - 1) \cup {t} /\ t \notin Retiring(i - 1)
         /\ \A T \in SUBSET Retiring(i) : t \in T => Youngest(T) = t
<1>1. /\ head \in Tags /\ count \in 0 .. Depth /\ n \in 0 .. count /\ n \in 0 .. Depth /\ Depth \in Int
  BY RetiringIs, RenameAssumption DEF WInv, TypeOK
<1>2. i - 1 \in 0 .. Depth - 1 /\ i \in 0 .. n /\ i - 1 \in 0 .. n
  BY <1>1
<1>3. t \in Tags /\ Age(t) = i - 1
  BY <1>1, <1>2, Ages
<1>4. /\ Retiring(i) = {u \in Tags : Age(u) < i}
      /\ Retiring(i - 1) = {u \in Tags : Age(u) < i - 1}
      /\ \A u \in Retiring(i) : InFlight(u) /\ rob[u].done
  BY <1>2, WritersAre
<1>5. \A u \in Tags : Age(u) \in 0 .. Depth - 1 /\ (Age(u) = Age(t) => u = t)
  BY <1>1, <1>3, Ages
<1>6. Retiring(i) = Retiring(i - 1) \cup {t} /\ t \notin Retiring(i - 1)
  BY <1>1, <1>3, <1>4, <1>5
<1>7. ASSUME NEW T \in SUBSET Retiring(i), t \in T PROVE Youngest(T) = t
  <2>1. PICK z : z = Youngest(T)
    OBVIOUS
  <2>2. z \in T /\ \A u \in T : Age(u) <= Age(z)
    <3>1. T \in SUBSET Tags /\ T # {}
      BY <1>4, <1>7
    <3> QED BY <1>1, <2>1, <3>1, YoungestIs
  <2>3. Age(t) <= Age(z) /\ z \in Tags /\ Age(z) < i
    BY <1>4, <1>7, <2>2
  <2>4. Age(z) = Age(t)
    BY <1>1, <1>3, <1>5, <2>3
  <2> QED BY <1>5, <2>1, <2>3, <2>4
<1> QED BY <1>3, <1>4, <1>6, <1>7

\* Each instruction that retires does to the register file, and to the way,
\* what executing it after those before it does.
LEMMA RetiresInOrder ==
  ASSUME WInv, OperandsOK, WaysOK, NEW n \in Retires, NEW i \in 1 .. n,
         NEW t, t = Position(i - 1), NEW e, e = rob[t].insn, NEW j, j = i - 1
  PROVE  /\ Committed(i) = IF e.rd = 0 THEN Committed(j)
                           ELSE [Committed(j) EXCEPT ![e.rd] =
                                   Result(e, IF e.src = 0 THEN 0 ELSE Committed(j)[e.src])]
         /\ PathAfter(i) = IF e.kind \in Turning
                           THEN Outcome(IF e.src = 0 THEN 0 ELSE Committed(j)[e.src])
                           ELSE PathAfter(j)
         /\ e.path = PathAfter(j)
<1>1. /\ t \in Tags /\ Age(t) = i - 1 /\ InFlight(t) /\ rob[t].done
      /\ Retiring(i) = Retiring(j) \cup {t} /\ t \notin Retiring(j)
      /\ \A T \in SUBSET Retiring(i) : t \in T => Youngest(T) = t
  BY NextRetiring
<1>2. j \in 0 .. n
  <2>1. n \in 0 .. Width /\ Width \in Nat
    BY RetiringIs, RenameAssumption DEF WInv, TypeOK
  <2> QED BY <2>1
<1>3. /\ \A r : Before(r, j) = Writers(j, r)
      /\ TurnsBefore(j) = Turns(j)
      /\ \A u \in Retiring(j) : rob[u].done
      /\ Retiring(j) \subseteq Tags
  BY <1>2, WritersAre
<1>4. e.rd \in 0 .. NRegs /\ e.src \in 0 .. NRegs /\ NRegs \in Nat
  <2>1. e \in Fetched
    BY <1>1 DEF WInv, TypeOK
  <2> QED BY <2>1, InsnAssumption DEF Fetched
<1>5. OperandIs(t) = IF e.src = 0 THEN 0 ELSE Committed(j)[e.src]
  <2>1. ASSUME e.src # 0 PROVE OperandIs(t) = Committed(j)[e.src]
    <3>1. e.src \in Regs
      BY <1>4, <2>1 DEF Regs
    <3>2. Committed(j)[e.src] = ValueBefore(e.src, j)
      BY <1>3, <3>1 DEF Committed, ValueBefore
    <3> QED BY <1>1, <2>1, <3>2 DEF OperandIs, Source
  <2>2. ASSUME e.src = 0 PROVE OperandIs(t) = 0
    BY <2>2 DEF OperandIs, Source
  <2> QED BY <2>1, <2>2
<1>6. /\ e.rd # 0 => rob[t].value = Result(e, OperandIs(t))
      /\ e.kind \in Turning => rob[t].went = Outcome(OperandIs(t))
  BY <1>1 DEF OperandsOK, Finishes, Kind
<1>7. \A r \in Regs : Writers(i, r) = Writers(j, r) \cup {u \in {t} : e.rd = r}
  BY <1>1 DEF Writers
<1>8. Turns(i) = Turns(j) \cup {u \in {t} : e.kind \in Turning}
  BY <1>1 DEF Turns, Kind, Turning
<1>9. ASSUME NEW r \in Regs
      PROVE  Committed(i)[r] = IF e.rd = r THEN Result(e, OperandIs(t)) ELSE Committed(j)[r]
  <2>1. CASE e.rd = r
    <3>1. t \in Writers(i, r) /\ Writers(i, r) \in SUBSET Retiring(i)
      BY <1>7, <2>1 DEF Writers
    <3>2. Youngest(Writers(i, r)) = t /\ e.rd # 0
      BY <1>1, <2>1, <3>1 DEF Regs
    <3> QED BY <1>6, <2>1, <3>1, <3>2 DEF Committed
  <2>2. CASE e.rd # r
    BY <1>7, <2>2 DEF Committed
  <2> QED BY <2>1, <2>2
<1>10. Committed(i) = IF e.rd = 0 THEN Committed(j)
                      ELSE [Committed(j) EXCEPT ![e.rd] = Result(e, OperandIs(t))]
  <2>1. /\ Committed(i) = [r \in Regs |-> Committed(i)[r]]
        /\ Committed(j) = [r \in Regs |-> Committed(j)[r]]
    BY DEF Committed
  <2>2. CASE e.rd = 0
    <3>1. \A r \in Regs : e.rd # r
      BY <2>2 DEF Regs
    <3> QED BY <1>9, <2>1, <2>2, <3>1
  <2>3. CASE e.rd # 0
    BY <1>9, <2>1, <2>3
  <2> QED BY <2>2, <2>3
<1>11. PathAfter(i) = IF e.kind \in Turning THEN Outcome(OperandIs(t)) ELSE PathAfter(j)
  <2>1. CASE e.kind \in Turning
    <3>1. t \in Turns(i) /\ Turns(i) \in SUBSET Retiring(i)
      BY <1>8, <2>1 DEF Turns
    <3>2. Youngest(Turns(i)) = t
      BY <1>1, <3>1
    <3> QED BY <1>6, <2>1, <3>1, <3>2 DEF PathAfter
  <2>2. CASE e.kind \notin Turning
    BY <1>8, <2>2 DEF PathAfter
  <2> QED BY <2>1, <2>2
<1>12. e.path = PathAfter(j)
  <2>1. e.path = WayBefore(j)
    BY <1>1 DEF WaysOK
  <2>2. TurnsBefore(j) # {} => rob[Youngest(TurnsBefore(j))].done
    <3> SUFFICES ASSUME Turns(j) # {} PROVE rob[Youngest(Turns(j))].done
      BY <1>3
    <3>1. Turns(j) \in SUBSET Retiring(j)
      BY DEF Turns
    <3>2. Youngest(Turns(j)) \in Turns(j)
      BY <1>3, <3>1, YoungestIs DEF WInv, TypeOK
    <3> QED BY <1>3, <3>1, <3>2
  <2> QED BY <1>3, <2>1, <2>2 DEF WayBefore, PathAfter
<1> QED BY <1>5, <1>10, <1>11, <1>12

\* Until a torn rollback, what an edge retires is a step of in-order execution.
LEMMA RetireStep ==
  ASSUME WInv, OperandsOK, WaysOK, NEW n \in Retires, Commit(n)
  PROVE  Architecture!Retire
<1>1. retired' \in Seq(Fetched) /\ Len(retired') = n /\ n <= Width /\ n \in Nat
  BY CommitTypes, RetiringIs DEF WInv, TypeOK
<1>2. Architecture!Fetched = Fetched
  BY DEF Architecture!Fetched, Fetched, Architecture!Kinds, Kinds, Architecture!Paths, Paths
<1>3. PICK s : s = retired'
  OBVIOUS
<1>4. PICK m : m = [regs |-> rf, path |-> path, ok |-> TRUE]
  OBVIOUS
<1>5. PICK A : A = [i \in 0 .. n |-> [regs |-> Committed(i), path |-> PathAfter(i), ok |-> TRUE]]
  OBVIOUS
<1>6. s \in Seq(Fetched) /\ Len(s) = n
  BY <1>1, <1>3
<1>7. A = [i \in 0 .. Len(s) |-> A[i]]
  BY <1>5, <1>6
<1>8. A[0] = m
  <2>1. Retiring(0) = {}
    <3>1. 0 .. 0 - 1 = {}
      OBVIOUS
    <3> QED BY <3>1 DEF Retiring
  <2>2. Committed(0) = rf
    BY <2>1 DEF Committed, Writers, WInv, TypeOK
  <2>3. PathAfter(0) = path
    BY <2>1 DEF PathAfter, Turns
  <2>4. 0 \in 0 .. n
    BY <1>1
  <2> QED BY <1>4, <1>5, <2>2, <2>3, <2>4
<1>9. ASSUME NEW i \in 1 .. Len(s) PROVE A[i] = Architecture!Execute(A[i - 1], s[i])
  <2>1. PICK t : t = Position(i - 1)
    OBVIOUS
  <2>2. PICK e : e = rob[t].insn
    OBVIOUS
  <2>3. PICK j : j = i - 1
    OBVIOUS
  <2>4. i \in 1 .. n /\ i \in 0 .. n /\ j \in 0 .. n
    BY <1>1, <1>6, <2>3
  <2>5. s[i] = e
    BY <1>3, <2>1, <2>2, <2>4 DEF Commit
  <2>6. PICK v : v = IF e.src = 0 THEN 0 ELSE Committed(j)[e.src]
    OBVIOUS
  <2>7. /\ Committed(i) = IF e.rd = 0 THEN Committed(j) ELSE [Committed(j) EXCEPT ![e.rd] = Result(e, v)]
        /\ PathAfter(i) = IF e.kind \in Turning THEN Outcome(v) ELSE PathAfter(j)
        /\ e.path = PathAfter(j)
    BY <2>1, <2>2, <2>3, <2>4, <2>6, RetiresInOrder
  <2>8. /\ A[i] = [regs |-> Committed(i), path |-> PathAfter(i), ok |-> TRUE]
        /\ A[j] = [regs |-> Committed(j), path |-> PathAfter(j), ok |-> TRUE]
    BY <1>5, <2>4
  <2>9. Architecture!Operand(A[j], e) = v
    BY <2>6, <2>8 DEF Architecture!Operand
  <2>10. /\ \A x, y : Architecture!Result(x, y) = Result(x, y)
         /\ \A y : Architecture!Outcome(y) = Outcome(y)
    BY DEF Architecture!Result, Result, Architecture!Outcome, Outcome
  <2>11. Architecture!Execute(A[j], e) =
           [regs |-> Committed(i), path |-> PathAfter(i), ok |-> TRUE]
    <3>1. /\ A[j].regs = Committed(j) /\ A[j].path = PathAfter(j)
          /\ A[j].ok = TRUE
      BY <2>8
    <3>2. Architecture!Execute(A[j], e) =
            [regs |-> IF e.rd = 0 THEN A[j].regs
                      ELSE [A[j].regs EXCEPT ![e.rd] = Result(e, v)],
             path |-> IF e.kind \in Turning THEN Outcome(v) ELSE A[j].path,
             ok   |-> A[j].ok /\ e.path = A[j].path]
      BY <2>9, <2>10 DEF Architecture!Execute, Turning
    <3>3. (A[j].ok /\ e.path = A[j].path) = TRUE
      BY <2>7, <3>1
    <3>4. /\ (IF e.rd = 0 THEN A[j].regs ELSE [A[j].regs EXCEPT ![e.rd] = Result(e, v)]) = Committed(i)
          /\ (IF e.kind \in Turning THEN Outcome(v) ELSE A[j].path) = PathAfter(i)
      BY <2>7, <3>1
    <3> QED BY <3>2, <3>3, <3>4
  <2> QED BY <2>3, <2>5, <2>8, <2>11
<1>10. Architecture!ExecuteAll(m, s) = A[n]
  BY <1>6, <1>7, <1>8, <1>9, Executed
<1>11. A[n] = [regs |-> rf', path |-> path', ok |-> TRUE]
  <2>1. n \in 0 .. n
    BY <1>1
  <2> QED BY <1>5, <2>1 DEF Commit, PathAfter
<1> QED BY <1>1, <1>2, <1>3, <1>4, <1>10, <1>11 DEF Architecture!Retire

\* Until a torn rollback every edge is a step of in-order execution, the edge
\* of the torn rollback itself included.
THEOREM InOrderUntilTorn ==
  Spec => Architecture!Init /\ [][~torn => Architecture!Retire]_(Architecture!vars)
<1>1. Init => Architecture!Init
  BY DEF Init, Architecture!Init, Regs, Architecture!Regs
<1>2. ASSUME EInv, [Next]_vars PROVE [~torn => Architecture!Retire]_(Architecture!vars)
  <2>1. CASE UNCHANGED vars
    BY <2>1 DEF vars, table, Architecture!vars
  <2>2. CASE Next /\ ~torn
    <3>1. PICK B \in Grants : \E n \in Retires : Step(B, n)
      BY <2>2 DEF Next
    <3>2. PICK n \in Retires : Step(B, n)
      BY <3>1
    <3>3. Commit(n)
      BY <3>2 DEF Step, Dispatch, Accept, Hold, Rollback, Edge
    <3>4. WInv /\ OperandsOK /\ WaysOK
      BY <1>2, <2>2 DEF EInv, Exact, RInv
    <3> QED BY <3>3, <3>4, RetireStep
  <2> QED BY <1>2, <2>1, <2>2
<1> QED BY <1>1, <1>2, InitExact, NextExact, PTL DEF Spec

\* A core whose rollbacks are never torn executes its program in order, on
\* the way the program takes, however it renames, speculates and reorders.
THEOREM CoreExecutesInOrder == Spec /\ []~torn => ExecutesInOrder
BY InOrderUntilTorn, PTL DEF ExecutesInOrder, Architecture!Spec
=============================================================================
