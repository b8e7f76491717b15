---------------------------- MODULE RenameProofs ----------------------------
(***************************************************************************)
(* For every depth, width, number of registers and program: the ring and   *)
(* the stations agree, the alias table names the youngest writer, no       *)
(* operand waits for a broadcast that does not come, and the halt line     *)
(* rises with an ecall as the last instruction retired.                    *)
(***************************************************************************)
EXTENDS RenameProperties, WellOrder

(***************************************************************************)
(* The ring.                                                               *)
(***************************************************************************)

\* A step of at most Depth stays within the ring.
LEMMA PlusTypes ==
  ASSUME NEW t \in Tags, NEW n \in 0 .. Depth
  PROVE  Plus(t, n) \in Tags
BY RenameAssumption DEF Plus, Tags

\* Ages count up from the head; each tag has its own, and Position finds the
\* tag of an age.
LEMMA Ages ==
  ASSUME head \in Tags
  PROVE  /\ \A t \in Tags : Age(t) \in 0 .. Depth - 1 /\ Position(Age(t)) = t
         /\ \A t, u \in Tags : Age(t) = Age(u) => t = u
         /\ \A i \in 0 .. Depth - 1 : Position(i) \in Tags /\ Age(Position(i)) = i
BY RenameAssumption DEF Age, Position, Plus, Tags

\* The tags given to a group come after all that are in flight, lane by lane.
LEMMA LaneAges ==
  ASSUME head \in Tags, count \in 0 .. Depth, tail = Plus(head, count), NEW i \in 1 .. Free
  PROVE  LaneTag(i) \in Tags /\ Age(LaneTag(i)) = count + i - 1
BY RenameAssumption DEF LaneTag, Age, Plus, Free, Tags

\* When n retire, all others are n younger; the n come last.
LEMMA AgesAfter ==
  ASSUME head \in Tags, NEW n \in 0 .. Depth, head' = Plus(head, n), NEW t \in Tags
  PROVE  /\ head' \in Tags
         /\ Age(t)' = IF Age(t) >= n THEN Age(t) - n ELSE Age(t) - n + Depth
BY RenameAssumption DEF Plus, Age, Tags

\* Of some tags, one is the youngest.
LEMMA YoungestIs ==
  ASSUME head \in Tags, NEW T \in SUBSET Tags, T # {}
  PROVE  Youngest(T) \in T /\ \A u \in T : Age(u) <= Age(Youngest(T))
<1> DEFINE A == {Age(t) : t \in T}
<1>1. \A t \in Tags : Age(t) \in 0 .. Depth - 1
  BY Ages
<1>2. A \in SUBSET Int /\ A # {} /\ Depth \in Int /\ \A a \in A : a <= Depth
  BY <1>1, RenameAssumption
<1>3. PICK m \in A : \A a \in A : a <= m
  <2> HIDE DEF A
  <2> QED BY <1>2, GreatestElement
<1>4. \E t \in T : \A u \in T : Age(u) <= Age(t)
  BY <1>3
<1> QED BY <1>4 DEF Youngest

\* Of some lanes, one is the last.
LEMMA MaxIs ==
  ASSUME NEW k \in Nat, NEW S \in SUBSET (1 .. k), S # {}
  PROVE  Max(S) \in S /\ \A i \in S : i <= Max(S)
<1>1. \E m \in S : \A i \in S : i <= m
  <2>1. S \in SUBSET Int /\ k \in Int /\ \A i \in S : i <= k
    OBVIOUS
  <2> QED BY <2>1, GreatestElement
<1>2. \E m \in S : \A i \in S : m >= i
  BY <1>1
<1>3. Max(S) \in S /\ \A i \in S : Max(S) >= i
  BY <1>2 DEF Max
<1> QED BY <1>3

(***************************************************************************)
(* Commit: some run of finished entries retires, possibly the empty one.   *)
(***************************************************************************)
LEMMA RetireCountIs ==
  ASSUME NEW ok, count \in 0 .. Depth
  PROVE  RetireCount(ok) \in 0 .. Width /\ Retirable(RetireCount(ok), ok)
<1> DEFINE R == {n \in 0 .. Width : Retirable(n, ok)}
<1>1. Width \in Nat /\ Width \in Int
  BY RenameAssumption
<1>2. Retirable(0, ok)
  <2>1. 0 <= count /\ 0 .. 0 - 1 = {}
    BY RenameAssumption
  <2> QED BY <2>1 DEF Retirable
<1>3. R \in SUBSET Int /\ R # {} /\ \A n \in R : n <= Width
  BY <1>1, <1>2
<1>4. PICK m \in R : \A n \in R : n <= m
  <2> HIDE DEF R
  <2> QED BY <1>1, <1>3, GreatestElement
<1>5. \A k \in m + 1 .. Width : ~Retirable(k, ok)
  BY <1>1, <1>4
<1>6. \E n \in 0 .. Width : /\ Retirable(n, ok)
                            /\ \A k \in n + 1 .. Width : ~Retirable(k, ok)
  BY <1>4, <1>5
<1> QED BY <1>6 DEF RetireCount

\* What retires is in flight, finished and older than whatever stays.
LEMMA RetiringIs ==
  ASSUME head \in Tags, count \in 0 .. Depth, NEW n \in Retires
  PROVE  /\ n \in 0 .. Width /\ n \in 0 .. count /\ n \in 0 .. Depth
         /\ Retiring(n) = {t \in Tags : Age(t) < n}
         /\ \A t \in Retiring(n) : t \in Tags /\ InFlight(t) /\ rob[t].done
<1>1. PICK ok \in BOOLEAN : n = RetireCount(ok)
  BY DEF Retires
<1>2. n \in 0 .. Width /\ Retirable(n, ok)
  BY <1>1, RetireCountIs
<1>3. n \in 0 .. count /\ n \in 0 .. Depth /\ n \in Nat /\ Depth \in Nat
  BY <1>2, RenameAssumption DEF Retirable
<1>4. \A i \in 0 .. n - 1 : Position(i) \in Tags /\ Age(Position(i)) = i
  BY <1>3, Ages
<1>5. \A t \in Tags : Age(t) \in 0 .. Depth - 1 /\ Position(Age(t)) = t
  BY Ages
<1>6. Retiring(n) = {t \in Tags : Age(t) < n}
  <2>1. ASSUME NEW t \in Retiring(n) PROVE t \in Tags /\ Age(t) < n
    BY <1>3, <1>4 DEF Retiring
  <2>2. ASSUME NEW t \in Tags, Age(t) < n PROVE t \in Retiring(n)
    <3>1. Age(t) \in 0 .. n - 1
      BY <1>3, <1>5, <2>2
    <3> QED BY <3>1, <1>5 DEF Retiring
  <2> QED BY <2>1, <2>2
<1>7. \A t \in Retiring(n) : rob[t].done
  BY <1>2 DEF Retiring, Retirable
<1>8. \A t \in Retiring(n) : InFlight(t)
  BY <1>3, <1>5, <1>6 DEF InFlight
<1> QED BY <1>2, <1>3, <1>6, <1>7, <1>8

(***************************************************************************)
(* The invariant of the ring and the stations.  Beside types and WindowOK  *)
(* it says that only a store stays in its station once it is finished: so  *)
(* whatever retires leaves no station entry behind.                        *)
(***************************************************************************)
DoneIdle == \A t \in Tags : rs[t].busy /\ rob[t].done => Kind(t) = "store"

WInv == TypeOK /\ WindowOK /\ DoneIdle

\* The group starts with an instruction for branch_rs.
Leads(d) == Len(d) > 0 /\ d[1].kind \in BranchClass

\* What the three kinds of edge share: the group d is dispatched (none if it
\* is empty), and if miss holds everything younger than the branch is dropped.
Moves(B, n, d, miss) ==
  /\ B \in Grants /\ n \in Retires
  /\ d \in Seq(Fetched) /\ Len(d) <= Free
  /\ miss \in BOOLEAN /\ (miss => d = <<>> /\ Mispredict(B))
  /\ head' = Plus(head, n)
  /\ tail' = Plus(IF miss THEN Plus(br, 1) ELSE tail, Len(d))
  /\ count' = (IF miss THEN Age(br) + 1 ELSE count) + Len(d) - n
  /\ rob' = RobNext(B, d)
  /\ rs' = Stations(B, n, IF miss THEN Squashed ELSE {}, d)
  /\ Leads(d) => br = NoTag
  /\ \A i \in 2 .. Len(d) : d[i].kind \notin BranchClass
  /\ br' = IF Leads(d) THEN tail ELSE IF Resolved(B) THEN NoTag ELSE br

Stays(t, n, miss) == InFlight(t) /\ Age(t) >= n /\ (miss => Age(t) <= Age(br))

\* Lanes and the tags allocated to them correspond.
LEMMA LaneIs ==
  ASSUME WInv, NEW d \in Seq(Fetched), Len(d) <= Free
  PROVE  /\ \A i \in 1 .. Len(d) : LaneTag(i) \in Allocated(d) /\ Lane(d, LaneTag(i)) = i
         /\ \A t \in Allocated(d) : /\ t \in Tags /\ ~InFlight(t)
                                   /\ Lane(d, t) \in 1 .. Len(d) /\ LaneTag(Lane(d, t)) = t
                                   /\ Age(t) = count + Lane(d, t) - 1
         /\ \A t \in Tags : t \in Allocated(d) <=> Age(t) >= count /\ Age(t) < count + Len(d)
<1>1. head \in Tags /\ count \in 0 .. Depth /\ tail = Plus(head, count)
  BY DEF WInv, TypeOK, WindowOK
<1>2. Len(d) \in Nat /\ Depth \in Nat /\ Len(d) <= Depth - count /\ DOMAIN d = 1 .. Len(d)
  BY RenameAssumption DEF Free
<1>3. \A i \in 1 .. Len(d) : LaneTag(i) \in Tags /\ Age(LaneTag(i)) = count + i - 1
  <2>1. 1 .. Len(d) \subseteq 1 .. Free
    BY <1>1, <1>2 DEF Free
  <2> QED BY <1>1, <2>1, LaneAges
<1>4. \A i \in 1 .. Len(d) : LaneTag(i) \in Allocated(d) /\ Lane(d, LaneTag(i)) = i
  <2>1. ASSUME NEW i \in 1 .. Len(d), NEW j \in 1 .. Len(d), LaneTag(i) = LaneTag(j)
        PROVE  i = j
    BY <1>1, <1>3, <2>1
  <2> QED BY <1>2, <2>1 DEF Allocated, Lane
<1>5. ASSUME NEW t \in Allocated(d)
      PROVE  /\ t \in Tags /\ ~InFlight(t)
             /\ Lane(d, t) \in 1 .. Len(d) /\ LaneTag(Lane(d, t)) = t
             /\ Age(t) = count + Lane(d, t) - 1
  <2>1. PICK i \in 1 .. Len(d) : t = LaneTag(i)
    BY <1>2 DEF Allocated
  <2>2. Lane(d, t) = i
    BY <1>4, <2>1
  <2> QED BY <1>1, <1>2, <1>3, <2>1, <2>2 DEF InFlight
<1>6. ASSUME NEW t \in Tags
      PROVE  t \in Allocated(d) <=> Age(t) >= count /\ Age(t) < count + Len(d)
  <2>1. Age(t) \in 0 .. Depth - 1
    BY <1>1, Ages
  <2>2. t \in Allocated(d) => Age(t) >= count /\ Age(t) < count + Len(d)
    BY <1>1, <1>2, <1>5
  <2>3. ASSUME Age(t) >= count, Age(t) < count + Len(d) PROVE t \in Allocated(d)
    <3>1. Age(t) - count + 1 \in 1 .. Len(d)
      BY <1>1, <1>2, <2>1, <2>3
    <3>2. PICK i \in 1 .. Len(d) : i = Age(t) - count + 1
      BY <3>1
    <3>3. LaneTag(i) \in Tags /\ Age(LaneTag(i)) = Age(t)
      BY <1>1, <1>2, <1>3, <2>1, <3>2
    <3>4. LaneTag(i) = t
      BY <1>1, <3>3, Ages
    <3> QED BY <1>4, <3>4
  <2> QED BY <2>2, <2>3
<1> QED BY <1>4, <1>5, <1>6

\* In flight after the edge are the new entries and, of the old ones, those
\* that neither retire nor are dropped; an unfinished entry does not retire.
LEMMA WindowAfter ==
  ASSUME WInv, NEW B, NEW n, NEW d, NEW miss, Moves(B, n, d, miss)
  PROVE  /\ \A t \in Tags : InFlight(t)' <=> t \in Allocated(d) \/ Stays(t, n, miss)
         /\ \A t \in Tags : t \in Allocated(d) => Age(t)' = count - n + Lane(d, t) - 1
         /\ \A t \in Tags : Stays(t, n, miss) => Age(t)' = Age(t) - n
         /\ \A t \in Tags : InFlight(t) /\ ~rob[t].done => Age(t) >= n
         /\ head' \in Tags /\ count' \in 0 .. Depth /\ tail' = Plus(head', count')
<1> DEFINE kept == IF miss THEN Age(br) + 1 ELSE count
<1>1. head \in Tags /\ count \in 0 .. Depth /\ tail = Plus(head, count) /\ Depth \in Nat \ {0}
  BY RenameAssumption DEF WInv, TypeOK, WindowOK
<1>2. /\ n \in 0 .. count /\ n \in 0 .. Depth
      /\ \A t \in Tags : Age(t) < n => rob[t].done
  BY <1>1, RetiringIs DEF Moves
<1>3. \A t \in Tags : Age(t) \in 0 .. Depth - 1
  BY <1>1, Ages
<1>4. Len(d) \in Nat /\ Len(d) <= Depth - count /\ d \in Seq(Fetched) /\ Len(d) <= Free
  BY DEF Moves, Free
<1>5. miss => Len(d) = 0 /\ br \in Tags /\ Age(br) \in n .. count - 1
  <2> SUFFICES ASSUME miss PROVE Len(d) = 0 /\ br \in Tags /\ Age(br) \in n .. count - 1
    OBVIOUS
  <2>1. d = <<>> /\ br # NoTag
    BY DEF Moves, Mispredict, Resolved
  <2>2. br \in Tags /\ InFlight(br) /\ ~rob[br].done
    BY <2>1 DEF WInv, TypeOK, WindowOK
  <2>3. Age(br) < count /\ Age(br) >= n
    BY <1>1, <1>2, <1>3, <2>2 DEF InFlight
  <2> QED BY <1>1, <1>2, <1>3, <2>1, <2>2, <2>3
<1>6. /\ head' = Plus(head, n) /\ count' = kept + Len(d) - n
      /\ kept \in n .. Depth /\ kept + Len(d) <= Depth
      /\ (miss => kept = Age(br) + 1) /\ (~miss => kept = count)
  BY <1>1, <1>2, <1>3, <1>4, <1>5 DEF Moves
<1>7. tail' = Plus(Plus(head, kept), Len(d))
  <2>1. CASE miss
    <3>1. Plus(br, 1) = Plus(head, Age(br) + 1)
      BY <1>1, <1>5, <2>1 DEF Plus, Age, Tags
    <3> QED BY <1>6, <2>1, <3>1 DEF Moves
  <2>2. CASE ~miss
    BY <1>1, <2>2 DEF Moves
  <2> QED BY <2>1, <2>2 DEF Moves
<1>8. \A t \in Tags : Age(t)' = IF Age(t) >= n THEN Age(t) - n ELSE Age(t) - n + Depth
  BY <1>1, <1>2, <1>6, AgesAfter
<1>9. \A t \in Tags : t \in Allocated(d) <=> Age(t) >= count /\ Age(t) < count + Len(d)
  BY <1>4, LaneIs
<1> HIDE DEF kept
<1>10. ASSUME NEW t \in Tags
       PROVE  InFlight(t)' <=> t \in Allocated(d) \/ Stays(t, n, miss)
  <2>1. InFlight(t)' <=> Age(t)' < count'
    BY DEF InFlight
  <2>2. Stays(t, n, miss) <=> Age(t) < count /\ Age(t) >= n /\ (miss => Age(t) <= Age(br))
    BY DEF Stays, InFlight
  <2>3. Age(t) \in 0 .. Depth - 1
    BY <1>3
  <2>4. CASE miss
    <3>1. t \notin Allocated(d) /\ Age(br) \in n .. count - 1
      BY <1>1, <1>5, <1>9, <2>3, <2>4
    <3>2. count' = Age(br) + 1 - n
      BY <1>1, <1>2, <1>5, <1>6, <2>4, <3>1
    <3>3. Stays(t, n, miss) <=> Age(t) >= n /\ Age(t) <= Age(br)
      <4>1. Stays(t, n, miss) <=> Age(t) < count /\ Age(t) >= n /\ Age(t) <= Age(br)
        BY <2>2, <2>4, Zenon
      <4> QED BY <1>1, <1>2, <2>3, <3>1, <4>1
    <3>4. Age(t)' = IF Age(t) >= n THEN Age(t) - n ELSE Age(t) - n + Depth
      BY <1>8
    <3>5. Age(t)' < Age(br) + 1 - n <=> Age(t) >= n /\ Age(t) <= Age(br)
      BY <1>1, <1>2, <2>3, <3>1, <3>4
    <3> QED BY <2>1, <3>1, <3>2, <3>3, <3>5
  <2>5. CASE ~miss
    BY <1>1, <1>2, <1>3, <1>4, <1>6, <1>8, <1>9, <2>1, <2>2, <2>5
  <2> QED BY <2>4, <2>5 DEF Moves
<1>11. ASSUME NEW t \in Tags, t \in Allocated(d) PROVE Age(t)' = count - n + Lane(d, t) - 1
  <2>1. Age(t) = count + Lane(d, t) - 1 /\ Lane(d, t) \in Int
    BY <1>4, <1>11, LaneIs
  <2> QED BY <1>1, <1>2, <1>3, <1>4, <1>8, <1>9, <1>11, <2>1
<1>12. ASSUME NEW t \in Tags, Stays(t, n, miss) PROVE Age(t)' = Age(t) - n
  BY <1>8, <1>12 DEF Stays
<1>13. ASSUME NEW t \in Tags, InFlight(t), ~rob[t].done PROVE Age(t) >= n
  BY <1>2, <1>3, <1>13
<1>14. head' \in Tags /\ count' \in 0 .. Depth /\ tail' = Plus(head', count')
  <2>1. head' \in Tags
    BY <1>1, <1>2, <1>6 DEF Plus, Tags
  <2>2. count' \in 0 .. Depth
    BY <1>1, <1>2, <1>4, <1>6
  <2>3. kept \in Nat /\ Len(d) \in Nat /\ n \in Nat /\ head \in Nat /\ head < Depth
    BY <1>1, <1>2, <1>4, <1>6 DEF Tags
  <2>4. tail' = Plus(head', count')
    BY <1>1, <1>2, <1>6, <1>7, <2>3 DEF Plus
  <2> QED BY <2>1, <2>2, <2>4
<1> QED BY <1>10, <1>11, <1>12, <1>13, <1>14

\* What the CDB carries and what is marked done at an edge was ready in its
\* station; unless it is a store it had no result yet, and it is then gone.
LEMMA MarkedIs ==
  ASSUME WInv, NEW B \in Grants, NEW t \in Marked(B)
  PROVE  /\ t \in Tags /\ rs[t].busy /\ rs[t].ready /\ InFlight(t)
         /\ t \in B => Kind(t) \in Broadcasts
         /\ Kind(t) # "store" => ~rob[t].done
         /\ t \in B \/ Kind(t) = "store" \/ (Kind(t) = "branch" /\ t = br /\ Resolved(B))
<1>1. t \in Ready /\ (t \in B => Kind(t) \in Broadcasts)
  BY DEF Marked, Grants, Requests
<1>2. t \in Tags /\ rs[t].busy /\ rs[t].ready
  BY <1>1 DEF Ready
<1>3. InFlight(t)
  BY <1>2 DEF WInv, WindowOK
<1>4. Kind(t) # "store" => ~rob[t].done
  BY <1>2 DEF WInv, DoneIdle
<1>5. ASSUME t \notin B, Kind(t) # "store"
      PROVE  Kind(t) = "branch" /\ t = br /\ Resolved(B)
  <2>1. Kind(t) = "branch"
    BY <1>5 DEF Marked
  <2>2. t = br
    BY <1>2, <1>3, <1>4, <2>1 DEF WInv, WindowOK, BranchClass
  <2>3. br # NoTag
    BY <1>2, <2>2, RenameAssumption DEF NoTag, Tags
  <2> QED BY <1>2, <2>1, <2>2, <2>3 DEF Resolved
<1> QED BY <1>1, <1>2, <1>3, <1>4, <1>5

\* When the branch resolves it is marked done and leaves its station.
LEMMA ResolvedIs ==
  ASSUME WInv, NEW B \in Grants, Resolved(B)
  PROVE  br \in Tags /\ InFlight(br) /\ rs[br].busy /\ ~rob[br].done /\ br \in Marked(B)
<1>1. br # NoTag /\ br \in Tags /\ InFlight(br) /\ rs[br].busy /\ ~rob[br].done
  BY DEF Resolved, WInv, WindowOK, TypeOK
<1>2. CASE Kind(br) = "branch"
  BY <1>1, <1>2 DEF Resolved, Marked, Ready
<1>3. CASE Kind(br) # "branch"
  BY <1>1, <1>3 DEF Resolved, Marked
<1> QED BY <1>1, <1>2, <1>3

\* The rob entry of a tag after the edge.
LEMMA EntryAfter ==
  ASSUME NEW B, NEW n, NEW d, NEW miss, Moves(B, n, d, miss), NEW t \in Tags
  PROVE  /\ rob'[t].done = (t \in Marked(B) \/ (rob[t].done /\ t \notin Allocated(d)))
         /\ rob'[t].value = IF t \in B THEN CdbVal(t) ELSE rob[t].value
         /\ rob'[t].went = IF Resolved(B) /\ t = br THEN Target ELSE rob[t].went
         /\ rob'[t].insn = IF t \in Allocated(d) THEN d[Lane(d, t)] ELSE rob[t].insn
BY DEF Moves, RobNext

\* The station entry of a tag after the edge: new, gone, or as it was but for
\* an operand that the CDB carried.
LEMMA StationAfter ==
  ASSUME WInv, NEW B, NEW n, NEW d, NEW miss, Moves(B, n, d, miss), NEW t \in Tags
  PROVE  /\ t \in Allocated(d) => rs'[t] = Capture(B, d, Lane(d, t)) /\ rs'[t].busy
         /\ t \notin Allocated(d) =>
              /\ rs'[t].busy = (rs[t].busy /\ t \notin Vacated(B, n) /\ ~(miss /\ Age(t) > Age(br)))
              /\ rs'[t].busy => rs'[t] = Snooped(B, t)
<1>1. rs'[t] = IF t \in Allocated(d) THEN Capture(B, d, Lane(d, t))
               ELSE IF t \in Vacated(B, n) \cup (IF miss THEN Squashed ELSE {}) THEN Idle
               ELSE Snooped(B, t)
  BY DEF Moves, Stations
<1>2. Capture(B, d, Lane(d, t)).busy
  BY DEF Capture, Waiting, Holding
<1>3. Idle.busy = FALSE /\ rs[t].busy \in BOOLEAN
  BY DEF Idle, WInv, TypeOK
<1>4. Snooped(B, t).busy = rs[t].busy
  BY <1>3 DEF Snooped, Holding
<1>5. t \in Squashed <=> rs[t].busy /\ Age(t) > Age(br)
  BY DEF Squashed
<1>6. ASSUME t \notin Allocated(d)
      PROVE  /\ rs'[t].busy = (rs[t].busy /\ t \notin Vacated(B, n) /\ ~(miss /\ Age(t) > Age(br)))
             /\ rs'[t].busy => rs'[t] = Snooped(B, t)
  <2>1. CASE t \in Vacated(B, n) \cup (IF miss THEN Squashed ELSE {})
    <3>1. rs'[t] = Idle
      BY <1>1, <1>6, <2>1
    <3>2. t \in Vacated(B, n) \/ (miss /\ Age(t) > Age(br))
      BY <1>5, <2>1
    <3> QED BY <1>3, <3>1, <3>2
  <2>2. CASE t \notin Vacated(B, n) \cup (IF miss THEN Squashed ELSE {})
    <3>1. rs'[t] = Snooped(B, t)
      BY <1>1, <1>6, <2>2
    <3>2. t \notin Vacated(B, n) /\ (rs[t].busy => ~(miss /\ Age(t) > Age(br)))
      BY <1>5, <2>2
    <3> QED BY <1>3, <1>4, <3>1, <3>2
  <2> QED BY <2>1, <2>2
<1> QED BY <1>1, <1>2, <1>6

\* An entry in flight after the edge has a station entry if it has no result,
\* and only then, or if it is a store.
LEMMA StationsKept ==
  ASSUME WInv, NEW B, NEW n, NEW d, NEW miss, Moves(B, n, d, miss), NEW t \in Tags
  PROVE  /\ rs'[t].busy => InFlight(t)'
         /\ InFlight(t)' /\ ~rob'[t].done => rs'[t].busy
         /\ rs'[t].busy /\ rob'[t].done => rob'[t].insn.kind = "store"
<1>1. /\ InFlight(t)' <=> t \in Allocated(d) \/ Stays(t, n, miss)
      /\ InFlight(t) /\ ~rob[t].done => Age(t) >= n
      /\ rob'[t].done = (t \in Marked(B) \/ (rob[t].done /\ t \notin Allocated(d)))
      /\ t \notin Allocated(d) => rob'[t].insn = rob[t].insn
  BY WindowAfter, EntryAfter
<1>2. B \in Grants /\ n \in Retires /\ d \in Seq(Fetched) /\ Len(d) <= Free
  BY DEF Moves
<1>3. head \in Tags /\ count \in 0 .. Depth /\ rs[t].busy \in BOOLEAN /\ rob[t].done \in BOOLEAN
  BY DEF WInv, TypeOK
<1>4. /\ n \in Nat /\ Age(t) \in Nat
      /\ t \in Retiring(n) <=> Age(t) < n
      /\ t \in Retiring(n) => rob[t].done
  BY <1>2, <1>3, RetiringIs, Ages
<1>5. CASE t \in Allocated(d)
  <2>1. ~InFlight(t) /\ t \notin Marked(B)
    BY <1>2, <1>5, LaneIs, MarkedIs
  <2>2. ~rob'[t].done /\ InFlight(t)'
    BY <1>1, <1>5, <2>1
  <2> QED BY <1>5, <2>2, StationAfter
<1>6. CASE t \notin Allocated(d)
  <2>1. rs'[t].busy = (rs[t].busy /\ t \notin Vacated(B, n) /\ ~(miss /\ Age(t) > Age(br)))
    BY <1>6, StationAfter
  <2>2. rob'[t].done = (t \in Marked(B) \/ rob[t].done) /\ rob'[t].insn = rob[t].insn
    BY <1>1, <1>6
  <2>3. t \in Vacated(B, n) => t \in Marked(B) \/ (t \in Retiring(n) /\ Kind(t) = "store")
    BY <1>2, ResolvedIs DEF Vacated, Marked
  <2>4. ASSUME rs'[t].busy PROVE InFlight(t)'
    <3>1. rs[t].busy /\ t \notin Vacated(B, n) /\ ~(miss /\ Age(t) > Age(br))
      BY <2>1, <2>4
    <3>2. InFlight(t)
      BY <3>1 DEF WInv, WindowOK
    <3>3. ASSUME t \in Retiring(n) PROVE FALSE
      <4>1. Kind(t) = "store"
        BY <1>4, <3>1, <3>3 DEF WInv, DoneIdle
      <4> QED BY <3>1, <3>3, <4>1 DEF Vacated
    <3>4. miss => Age(t) <= Age(br)
      <4>1. miss => br \in Tags
        BY <1>2, ResolvedIs DEF Moves, Mispredict
      <4>2. miss => Age(br) \in Nat
        BY <1>3, <4>1, Ages
      <4> QED BY <1>4, <3>1, <4>2
    <3>5. Age(t) >= n
      BY <1>4, <3>3
    <3> QED BY <1>1, <3>2, <3>4, <3>5 DEF Stays
  <2>5. ASSUME InFlight(t)', ~rob'[t].done PROVE rs'[t].busy
    <3>1. Stays(t, n, miss) /\ t \notin Marked(B) /\ ~rob[t].done
      BY <1>1, <1>6, <2>2, <2>5
    <3>2. rs[t].busy
      BY <3>1 DEF Stays, WInv, WindowOK
    <3>3. t \notin Vacated(B, n)
      BY <1>4, <2>3, <3>1
    <3>4. ~(miss /\ Age(t) > Age(br))
      <4>1. miss => br \in Tags
        BY <1>2, ResolvedIs DEF Moves, Mispredict
      <4>2. miss => Age(br) \in Nat
        BY <1>3, <4>1, Ages
      <4> QED BY <1>4, <3>1, <4>2 DEF Stays
    <3> QED BY <2>1, <3>2, <3>3, <3>4
  <2>6. ASSUME rs'[t].busy, rob'[t].done PROVE rob'[t].insn.kind = "store"
    <3>1. rs[t].busy /\ t \notin Vacated(B, n)
      BY <2>1, <2>6
    <3>2. CASE rob[t].done
      BY <2>2, <3>1, <3>2 DEF WInv, DoneIdle, Kind
    <3>3. CASE t \in Marked(B)
      BY <1>2, <2>2, <3>1, <3>3, MarkedIs DEF Vacated, Kind
    <3> QED BY <2>2, <2>6, <3>2, <3>3
  <2> QED BY <2>4, <2>5, <2>6
<1> QED BY <1>5, <1>6

\* branch_rs holds the one unfinished branch in flight, before and after.
LEMMA BranchKept ==
  ASSUME WInv, NEW B, NEW n, NEW d, NEW miss, Moves(B, n, d, miss)
  PROVE  /\ br' # NoTag =>
              /\ br' \in Tags
              /\ \A t \in Tags : t = br' =>
                   /\ InFlight(t)' /\ rs'[t].busy /\ ~rob'[t].done
                   /\ rob'[t].insn.kind \in BranchClass
         /\ \A t \in Tags : InFlight(t)' /\ ~rob'[t].done /\ rob'[t].insn.kind \in BranchClass
                              => t = br'
<1>1. /\ B \in Grants /\ n \in Retires /\ d \in Seq(Fetched) /\ Len(d) <= Free
      /\ br' = IF Leads(d) THEN tail ELSE IF Resolved(B) THEN NoTag ELSE br
      /\ Leads(d) => br = NoTag
      /\ \A i \in 2 .. Len(d) : d[i].kind \notin BranchClass
      /\ miss => Resolved(B)
  BY DEF Moves, Mispredict
<1>2. \A t \in Tags :
        /\ InFlight(t)' <=> t \in Allocated(d) \/ Stays(t, n, miss)
        /\ InFlight(t) /\ ~rob[t].done => Age(t) >= n
        /\ rob'[t].done = (t \in Marked(B) \/ (rob[t].done /\ t \notin Allocated(d)))
        /\ rob'[t].insn = IF t \in Allocated(d) THEN d[Lane(d, t)] ELSE rob[t].insn
  BY WindowAfter, EntryAfter
<1>3. \A t \in Tags : InFlight(t)' /\ ~rob'[t].done => rs'[t].busy
  BY StationsKept
<1>4. /\ head \in Tags /\ count \in 0 .. Depth /\ tail \in Tags /\ br \in Tags \cup {NoTag}
      /\ \A t \in Tags : rob[t].done \in BOOLEAN
  BY DEF WInv, TypeOK
<1>5. \A t \in Tags : t \in Allocated(d) => t \notin Marked(B)
  BY <1>1, LaneIs, MarkedIs
<1>6. Len(d) \in Nat
  BY <1>1
<1>7. LaneTag(1) = tail
  BY <1>4, RenameAssumption DEF LaneTag, Plus, Tags
<1>8. ASSUME Leads(d) PROVE tail \in Allocated(d) /\ Lane(d, tail) = 1
  BY <1>1, <1>6, <1>7, <1>8, LaneIs DEF Leads
<1>9. ASSUME br' # NoTag, NEW t \in Tags, t = br'
      PROVE  /\ InFlight(t)' /\ rs'[t].busy /\ ~rob'[t].done
             /\ rob'[t].insn.kind \in BranchClass
  <2>1. CASE Leads(d)
    <3>1. t = tail /\ t \in Allocated(d) /\ Lane(d, t) = 1
      BY <1>1, <1>8, <1>9, <2>1
    <3>2. rob'[t].insn = d[1] /\ InFlight(t)' /\ ~rob'[t].done
      BY <1>2, <1>5, <3>1
    <3> QED BY <1>3, <2>1, <3>2 DEF Leads
  <2>2. CASE ~Leads(d)
    <3>1. t = br /\ ~Resolved(B) /\ br # NoTag
      BY <1>1, <1>9, <2>2
    <3>2. InFlight(t) /\ rs[t].busy /\ ~rob[t].done /\ rob[t].insn.kind \in BranchClass
      BY <3>1 DEF WInv, WindowOK, Kind
    <3>3. t \notin Allocated(d)
      BY <1>1, <3>2, LaneIs
    <3>4. t \notin Marked(B)
      <4>1. Kind(t) # "store"
        BY <3>2 DEF BranchClass, Kind
      <4>2. t \in B => Resolved(B)
        <5> SUFFICES ASSUME t \in B PROVE Resolved(B)
          OBVIOUS
        <5>1. Kind(t) \in Broadcasts
          BY <1>1, MarkedIs DEF Marked
        <5> QED BY <3>1, <5>1 DEF Resolved, Broadcasts
      <4> QED BY <1>1, <3>1, <4>1, <4>2, MarkedIs
    <3>5. InFlight(t)'
      <4>1. miss => Age(t) <= Age(br)
        BY <1>1, <3>1
      <4> QED BY <1>2, <3>2, <4>1 DEF Stays
    <3>6. ~rob'[t].done /\ rob'[t].insn = rob[t].insn
      BY <1>2, <3>2, <3>3, <3>4
    <3> QED BY <1>3, <3>2, <3>5, <3>6
  <2> QED BY <2>1, <2>2
<1>10. ASSUME NEW t \in Tags, InFlight(t)', ~rob'[t].done, rob'[t].insn.kind \in BranchClass
       PROVE  t = br'
  <2>1. CASE t \in Allocated(d)
    <3>1. Lane(d, t) \in 1 .. Len(d) /\ LaneTag(Lane(d, t)) = t
      BY <1>1, <2>1, LaneIs
    <3>2. d[Lane(d, t)].kind \in BranchClass
      BY <1>2, <1>10, <2>1
    <3>3. Lane(d, t) = 1
      BY <1>1, <1>6, <3>1, <3>2
    <3> QED BY <1>1, <1>6, <1>7, <3>1, <3>2, <3>3 DEF Leads
  <2>2. CASE t \notin Allocated(d)
    <3>1. InFlight(t) /\ ~rob[t].done /\ Kind(t) \in BranchClass /\ t \notin Marked(B)
      BY <1>2, <1>4, <1>10, <2>2 DEF Stays, Kind
    <3>2. t = br /\ br # NoTag
      BY <3>1, RenameAssumption DEF WInv, WindowOK, NoTag, Tags
    <3>3. ~Resolved(B)
      BY <1>1, <3>1, <3>2, ResolvedIs
    <3> QED BY <1>1, <3>2, <3>3
  <2> QED BY <2>1, <2>2
<1>11. br' \in Tags \cup {NoTag}
  BY <1>1, <1>4
<1> QED BY <1>9, <1>10, <1>11

(***************************************************************************)
(* Types.                                                                  *)
(***************************************************************************)

\* A group as fetched is the group chosen, with the way it was fetched on.
LEMMA GroupIs ==
  ASSUME pc_latched \in Paths, NEW g \in Groups, NEW way \in Predictions(g[1])
  PROVE  /\ OnPath(g, way) \in Seq(Fetched) /\ Len(OnPath(g, way)) = Len(g)
         /\ Len(g) \in 1 .. Width /\ g[1] \in Program
         /\ \A i \in 1 .. Len(g) :
              LET e == OnPath(g, way)[i]
              IN  e.kind = g[i].kind /\ e.rd = g[i].rd /\ e.src = g[i].src /\ g[i] \in Program
         /\ OnPath(g, way)[1].path = pc_latched
         /\ \A i \in 2 .. Len(g) :
              OnPath(g, way)[i].path = IF g[1].kind = "branch" THEN way ELSE pc_latched
         /\ way \in Paths \cup {NoWay} /\ (g[1].kind = "branch" => way \in Paths)
         /\ way # NoWay => g[1].kind \in {"branch", "jalr"}
<1>1. PICK k \in 1 .. Width : g \in [1 .. k -> Program]
  BY DEF Groups
<1>2. k \in Nat /\ k >= 1 /\ g \in Seq(Program) /\ Len(g) = k /\ DOMAIN g = 1 .. k
  BY <1>1, RenameAssumption
<1>3. way \in Paths \cup {NoWay} /\ (g[1].kind = "branch" => way \in Paths)
      /\ (way # NoWay => g[1].kind \in {"branch", "jalr"})
  BY DEF Predictions, Paths, NoWay
<1>4. \A i \in 1 .. k : g[i] \in Program /\ g[i] \in Insns
  BY <1>1, RenameAssumption
<1>5. \A i \in 1 .. k : OnPath(g, way)[i] =
        [kind |-> g[i].kind, rd |-> g[i].rd, src |-> g[i].src,
         path |-> IF i > 1 /\ g[1].kind = "branch" THEN way ELSE pc_latched]
  BY <1>2 DEF OnPath
<1>6. ASSUME NEW i \in 1 .. k
      PROVE  /\ OnPath(g, way)[i] \in Fetched
             /\ OnPath(g, way)[i].kind = g[i].kind /\ OnPath(g, way)[i].rd = g[i].rd
             /\ OnPath(g, way)[i].src = g[i].src
             /\ OnPath(g, way)[i].path = IF i > 1 /\ g[1].kind = "branch" THEN way ELSE pc_latched
  <2> DEFINE w == IF i > 1 /\ g[1].kind = "branch" THEN way ELSE pc_latched
  <2>1. w \in Paths
    BY <1>3
  <2>2. /\ g[i].kind \in Kinds /\ g[i].rd \in 0 .. NRegs /\ g[i].src \in 0 .. NRegs
    BY <1>4 DEF Insns
  <2>3. OnPath(g, way)[i] = [kind |-> g[i].kind, rd |-> g[i].rd, src |-> g[i].src, path |-> w]
    BY <1>5
  <2> HIDE DEF w
  <2>4. OnPath(g, way)[i] \in Fetched
    BY <2>1, <2>2, <2>3 DEF Fetched
  <2>5. OnPath(g, way)[i].path = w
    BY <2>3
  <2> QED BY <2>3, <2>4, <2>5 DEF w
<1>7. DOMAIN OnPath(g, way) = 1 .. k
  BY <1>2 DEF OnPath
<1>8. OnPath(g, way) \in [1 .. k -> Fetched]
  BY <1>6, <1>7 DEF OnPath
<1>9. OnPath(g, way) \in Seq(Fetched) /\ Len(OnPath(g, way)) = k
  BY <1>2, <1>8
<1>10. OnPath(g, way)[1].path = pc_latched
  BY <1>2, <1>6
<1>11. \A i \in 2 .. k : OnPath(g, way)[i].path = IF g[1].kind = "branch" THEN way ELSE pc_latched
  BY <1>2, <1>6
<1> QED BY <1>1, <1>2, <1>3, <1>4, <1>6, <1>9, <1>10, <1>11

\* Accepting a group is such a move.
LEMMA DispatchMoves ==
  ASSUME WInv, NEW B \in Grants, NEW n \in Retires, NEW g \in Groups,
         NEW way \in Predictions(g[1]), Accepts(g, way), Accept(B, n, g, way)
  PROVE  Moves(B, n, OnPath(g, way), FALSE)
<1> DEFINE d == OnPath(g, way)
<1>1. /\ d \in Seq(Fetched) /\ Len(d) = Len(g) /\ Len(g) \in Nat /\ Len(g) >= 1
      /\ \A i \in 1 .. Len(g) : d[i].kind = g[i].kind
  BY GroupIs, RenameAssumption DEF WInv, TypeOK
<1>2. Leads(d) <=> g[1].kind \in BranchClass
  BY <1>1 DEF Leads
<1>3. \A i \in 2 .. Len(d) : d[i].kind \notin BranchClass
  BY <1>1 DEF Accepts
<1> HIDE DEF d
<1>4. /\ head' = Plus(head, n) /\ tail' = Plus(tail, Len(d)) /\ count' = count + Len(d) - n
      /\ rob' = RobNext(B, d) /\ rs' = Stations(B, n, {}, d)
      /\ br' = IF g[1].kind \in BranchClass THEN tail ELSE IF Resolved(B) THEN NoTag ELSE br
  BY <1>1 DEF Accept, Edge, Commit, d
<1>5. Len(d) <= Free /\ (Leads(d) => br = NoTag)
  BY <1>1, <1>2 DEF Accepts
<1> QED BY <1>1, <1>2, <1>3, <1>4, <1>5 DEF Moves, d

\* An edge without a dispatch is such a move with an empty group.
LEMMA HoldMoves ==
  ASSUME WInv, NEW B \in Grants, NEW n \in Retires, Hold(B, n)
  PROVE  Moves(B, n, <<>>, FALSE)
<1>1. << >> \in Seq(Fetched) /\ Len(<< >>) = 0 /\ ~Leads(<< >>)
  BY DEF Leads
<1>2. count \in 0 .. Depth /\ tail \in Tags /\ Depth \in Nat
  BY RenameAssumption DEF WInv, TypeOK
<1>3. n \in Int
  BY <1>2, RetiringIs DEF WInv, TypeOK
<1>4. /\ head' = Plus(head, n) /\ tail' = Plus(tail, Len(<< >>))
      /\ count' = count + Len(<< >>) - n
  BY <1>1, <1>2, <1>3 DEF Hold, Edge, Commit, Plus, Tags
<1>5. Len(<< >>) <= Free
  BY <1>1, <1>2 DEF Free
<1>6. rob' = RobNext(B, << >>) /\ rs' = Stations(B, n, {}, << >>)
      /\ br' = IF Resolved(B) THEN NoTag ELSE br
  BY DEF Hold
<1> QED BY <1>1, <1>4, <1>5, <1>6 DEF Moves

\* A rollback is such a move with an empty group that squashes.
LEMMA RollbackMoves ==
  ASSUME WInv, NEW B \in Grants, NEW n \in Retires, Rollback(B, n)
  PROVE  Moves(B, n, <<>>, TRUE)
<1>1. << >> \in Seq(Fetched) /\ Len(<< >>) = 0 /\ ~Leads(<< >>)
  BY DEF Leads
<1>2. count \in 0 .. Depth /\ head \in Tags /\ Depth \in Nat
  BY RenameAssumption DEF WInv, TypeOK
<1>3. n \in Int
  BY <1>2, RetiringIs
<1>4. Mispredict(B) /\ Resolved(B)
  BY DEF Rollback, Mispredict
<1>5. br \in Tags
  BY <1>4, ResolvedIs
<1>6. Age(br) \in Int /\ Plus(br, 1) \in Tags
  BY <1>2, <1>5, Ages, RenameAssumption DEF Plus, Tags
<1>7. /\ head' = Plus(head, n) /\ tail' = Plus(Plus(br, 1), Len(<< >>))
      /\ count' = Age(br) + 1 + Len(<< >>) - n
  BY <1>1, <1>2, <1>3, <1>6 DEF Rollback, Edge, Commit, Plus, Tags
<1>8. Len(<< >>) <= Free
  BY <1>1, <1>2 DEF Free
<1>9. rob' = RobNext(B, << >>) /\ rs' = Stations(B, n, Squashed, << >>) /\ br' = NoTag
  BY DEF Rollback
<1> QED BY <1>1, <1>4, <1>7, <1>8, <1>9 DEF Moves

\* Results are values and outcomes are ways.
LEMMA ResultTypes ==
  ASSUME TypeOK, NEW t \in Tags
  PROVE  CdbVal(t) \in Values /\ Outcome(rs[t].val) \in Paths
<1>1. rs[t].val \in Nat /\ NVals \in Nat /\ NVals > 0
  BY InsnAssumption DEF TypeOK, Values
<1>2. 0 \in Values /\ (rs[t].val + 1) % NVals \in Values
  BY <1>1 DEF Values
<1>3. rs[t].val % 2 \in {0, 1}
  BY <1>1
<1> QED BY <1>2, <1>3 DEF CdbVal, Result, Outcome, Paths

\* A move keeps the types of the reorder buffer.
LEMMA RobTypes ==
  ASSUME WInv, NEW B, NEW n, NEW d, NEW miss, Moves(B, n, d, miss)
  PROVE  rob' \in [Tags -> [done : BOOLEAN, value : Values, went : Paths, insn : Fetched]]
<1>1. /\ B \in Grants /\ d \in Seq(Fetched) /\ Len(d) <= Free /\ rob' = RobNext(B, d)
      /\ B \subseteq Tags
  BY DEF Moves, Grants, Requests, Ready
<1>2. ASSUME NEW t \in Tags
      PROVE  RobNext(B, d)[t] \in [done : BOOLEAN, value : Values, went : Paths, insn : Fetched]
  <2> DEFINE done  == t \in Marked(B) \/ (rob[t].done /\ t \notin Allocated(d))
             value == IF t \in B THEN CdbVal(t) ELSE rob[t].value
             went  == IF Resolved(B) /\ t = br THEN Target ELSE rob[t].went
             insn  == IF t \in Allocated(d) THEN d[Lane(d, t)] ELSE rob[t].insn
  <2>1. rob[t] \in [done : BOOLEAN, value : Values, went : Paths, insn : Fetched]
    BY DEF WInv, TypeOK
  <2>2. done \in BOOLEAN
    OBVIOUS
  <2>3. value \in Values
    BY <2>1, ResultTypes DEF WInv
  <2>4. went \in Paths
    BY <1>1, <2>1, ResolvedIs, ResultTypes DEF WInv, Target
  <2>5. insn \in Fetched
    BY <1>1, <2>1, LaneIs
  <2>6. RobNext(B, d)[t] = [done |-> done, value |-> value, went |-> went, insn |-> insn]
    BY DEF RobNext
  <2> HIDE DEF done, value, went, insn
  <2> QED BY <2>2, <2>3, <2>4, <2>5, <2>6
<1>3. DOMAIN RobNext(B, d) = Tags
  BY DEF RobNext
<1> QED BY <1>1, <1>2, <1>3 DEF RobNext

Slot == [busy : BOOLEAN, ready : BOOLEAN, val : Values, tag : Tags]

\* The three contents that a station slot is given are slots.
LEMMA SlotTypes ==
  /\ Idle \in Slot
  /\ \A v \in Values : Holding(v) \in Slot
  /\ \A t \in Tags : Waiting(t) \in Slot
<1>1. 0 \in Tags /\ 0 \in Values
  BY RenameAssumption, InsnAssumption DEF Tags, Values
<1> QED BY <1>1 DEF Slot, Idle, Holding, Waiting

\* The operand a new station entry is given.
LEMMA CaptureTypes ==
  ASSUME WInv, NEW B \in Grants, NEW d \in Seq(Fetched), Len(d) <= Free, NEW i \in 1 .. Len(d)
  PROVE  /\ Capture(B, d, i) \in Slot
         /\ \A r \in 1 .. NRegs : Feeders(d, i, r) # {} =>
              /\ Max(Feeders(d, i, r)) \in 1 .. i - 1 /\ d[Max(Feeders(d, i, r))].rd = r
              /\ \A j \in Feeders(d, i, r) : j <= Max(Feeders(d, i, r))
<1>1. ASSUME NEW r \in 1 .. NRegs, Feeders(d, i, r) # {}
      PROVE  /\ Max(Feeders(d, i, r)) \in 1 .. i - 1 /\ d[Max(Feeders(d, i, r))].rd = r
             /\ \A j \in Feeders(d, i, r) : j <= Max(Feeders(d, i, r))
  <2>1. Feeders(d, i, r) \in SUBSET (1 .. i - 1) /\ i - 1 \in Nat
    BY DEF Feeders
  <2>2. Max(Feeders(d, i, r)) \in Feeders(d, i, r)
        /\ \A j \in Feeders(d, i, r) : j <= Max(Feeders(d, i, r))
    BY <1>1, <2>1, MaxIs
  <2> QED BY <2>2 DEF Feeders
<1> DEFINE r == d[i].src
           f == Feeders(d, i, r)
<1>2. d[i] \in Fetched /\ r \in 0 .. NRegs /\ NRegs \in Nat
  <2>1. d[i] \in Fetched
    OBVIOUS
  <2>2. d[i].src \in 0 .. NRegs
    BY <2>1 DEF Fetched
  <2> QED BY <2>1, <2>2, InsnAssumption
<1>3. 0 \in Values
  BY InsnAssumption DEF Values
<1>4. /\ rat \in [Regs -> Mapping] /\ rf \in [Regs -> Values]
      /\ \A t \in Tags : rob[t].value \in Values
  BY DEF WInv, TypeOK
<1>5. Capture(B, d, i) =
        IF d[i].kind \in {"jal", "ecall"} \/ r = 0 THEN Holding(0)
        ELSE IF f # {}             THEN Waiting(LaneTag(Max(f)))
        ELSE IF ~rat[r].busy       THEN Holding(rf[r])
        ELSE IF rat[r].tag \in B   THEN Holding(CdbVal(rat[r].tag))
        ELSE IF rob[rat[r].tag].done THEN Holding(rob[rat[r].tag].value)
        ELSE Waiting(rat[r].tag)
  BY DEF Capture
<1>6. CASE d[i].kind \in {"jal", "ecall"} \/ r = 0
  <2>1. Capture(B, d, i) = Holding(0)
    BY <1>5, <1>6
  <2> QED BY <1>1, <1>3, <2>1, SlotTypes
<1>7. CASE ~(d[i].kind \in {"jal", "ecall"} \/ r = 0)
  <2>1. r \in Regs
    BY <1>2, <1>7 DEF Regs
  <2>2. /\ rat[r].tag \in Tags /\ rf[r] \in Values /\ rob[rat[r].tag].value \in Values
        /\ CdbVal(rat[r].tag) \in Values
    BY <1>4, <2>1, ResultTypes DEF WInv, Mapping
  <2>3. f # {} => LaneTag(Max(f)) \in Tags
    <3>1. f # {} => Max(f) \in 1 .. Len(d)
      BY <1>1, <2>1 DEF Regs
    <3> QED BY <3>1, LaneIs
  <2> HIDE DEF r, f
  <2>4. \/ Capture(B, d, i) = Waiting(LaneTag(Max(f))) /\ f # {}
        \/ Capture(B, d, i) = Holding(rf[r])
        \/ Capture(B, d, i) = Holding(CdbVal(rat[r].tag))
        \/ Capture(B, d, i) = Holding(rob[rat[r].tag].value)
        \/ Capture(B, d, i) = Waiting(rat[r].tag)
    BY <1>5, <1>7
  <2> QED BY <1>1, <2>2, <2>3, <2>4, SlotTypes
<1> QED BY <1>6, <1>7

\* A move keeps the types of the stations.
LEMMA StationTypes ==
  ASSUME WInv, NEW B, NEW n, NEW d, NEW miss, Moves(B, n, d, miss)
  PROVE  rs' \in [Tags -> Slot]
<1> DEFINE gone == IF miss THEN Squashed ELSE {}
<1>1. /\ B \in Grants /\ d \in Seq(Fetched) /\ Len(d) <= Free
      /\ rs' = Stations(B, n, gone, d)
  BY DEF Moves
<1> HIDE DEF gone
<1>2. ASSUME NEW t \in Tags PROVE Stations(B, n, gone, d)[t] \in Slot
  <2>1. t \in Allocated(d) => Capture(B, d, Lane(d, t)) \in Slot
    BY <1>1, LaneIs, CaptureTypes
  <2>2. rs[t] \in Slot /\ CdbVal(rs[t].tag) \in Values
    BY ResultTypes DEF WInv, TypeOK, Slot
  <2>3. Snooped(B, t) \in Slot
    BY <2>2, SlotTypes DEF Snooped
  <2> QED BY <2>1, <2>3, SlotTypes DEF Stations
<1>3. DOMAIN Stations(B, n, gone, d) = Tags
  BY DEF Stations
<1> QED BY <1>1, <1>2, <1>3 DEF Stations

\* The tables keep their types through commit and dispatch.
LEMMA TableTypes ==
  ASSUME WInv, NEW n \in Retires, NEW m \in [Regs -> Mapping]
  PROVE  Cleared(m, n) \in [Regs -> Mapping]
<1>1. ASSUME NEW r \in Regs PROVE [m[r] EXCEPT !.busy = FALSE] \in Mapping /\ m[r] \in Mapping
  BY DEF Mapping
<1> QED BY <1>1 DEF Cleared

\* Renaming a group keeps the types of the map; the last writer of a register is defined.
LEMMA RenamedTypes ==
  ASSUME WInv, NEW m \in [Regs -> Mapping], NEW d \in Seq(Fetched), Len(d) <= Free
  PROVE  /\ Renamed(m, d) \in [Regs -> Mapping]
         /\ \A r \in Regs :
              LET w == {i \in DOMAIN d : d[i].rd = r}
              IN  w # {} => Max(w) \in w /\ Max(w) \in 1 .. Len(d) /\ \A i \in w : i <= Max(w)
<1>1. ASSUME NEW r \in Regs, NEW w, w = {i \in DOMAIN d : d[i].rd = r}, w # {}
      PROVE  /\ Max(w) \in w /\ Max(w) \in 1 .. Len(d) /\ \A i \in w : i <= Max(w)
             /\ [busy |-> TRUE, tag |-> LaneTag(Max(w))] \in Mapping
  <2>1. w \in SUBSET (1 .. Len(d)) /\ Len(d) \in Nat
    BY <1>1
  <2>2. Max(w) \in w /\ \A i \in w : i <= Max(w)
    BY <1>1, <2>1, MaxIs
  <2>3. LaneTag(Max(w)) \in Tags
    BY <2>1, <2>2, LaneIs
  <2> QED BY <2>1, <2>2, <2>3 DEF Mapping
<1>2. \A r \in Regs : m[r] \in Mapping
  OBVIOUS
<1>3. Renamed(m, d) \in [Regs -> Mapping]
  BY <1>1, <1>2 DEF Renamed
<1> QED BY <1>1, <1>3

\* What commit writes and remembers.
LEMMA CommitTypes ==
  ASSUME WInv, NEW n \in Retires, Commit(n)
  PROVE  /\ rf' \in [Regs -> Values] /\ path' \in Paths /\ halt' \in BOOLEAN
         /\ retired' \in Seq(Fetched) /\ Len(retired') = n /\ n <= Width
<1>1. /\ head \in Tags /\ count \in 0 .. Depth /\ rf \in [Regs -> Values] /\ path \in Paths
      /\ rob \in [Tags -> [done : BOOLEAN, value : Values, went : Paths, insn : Fetched]]
  BY DEF WInv, TypeOK
<1>2. n \in 0 .. Width /\ n \in 0 .. Depth /\ n \in Nat /\ \A t \in Retiring(n) : t \in Tags
  BY <1>1, RetiringIs
<1>3. \A i \in 0 .. n - 1 : Position(i) \in Tags
  BY <1>2 DEF Retiring
<1>4. rf' \in [Regs -> Values]
  <2>1. ASSUME NEW r \in Regs, Writers(n, r) # {} PROVE rob[Youngest(Writers(n, r))].value \in Values
    <3>1. Writers(n, r) \in SUBSET Tags
      BY <1>2 DEF Writers
    <3> QED BY <1>1, <2>1, <3>1, YoungestIs
  <2> QED BY <1>1, <2>1 DEF Commit, Committed
<1>5. path' \in Paths
  <2>1. Turns(n) \in SUBSET Tags
    BY <1>2 DEF Turns
  <2>2. Turns(n) # {} => Youngest(Turns(n)) \in Tags
    BY <1>1, <2>1, YoungestIs
  <2> QED BY <1>1, <2>2 DEF Commit
<1>6. retired' \in [1 .. n -> Fetched]
  <2>1. \A i \in 1 .. n : Position(i - 1) \in Tags
    BY <1>2, <1>3
  <2> QED BY <1>1, <2>1 DEF Commit
<1>7. retired' \in Seq(Fetched) /\ Len(retired') = n
  BY <1>2, <1>6
<1>8. halt' \in BOOLEAN
  BY DEF Commit
<1> QED BY <1>2, <1>4, <1>5, <1>7, <1>8

(***************************************************************************)
(* The invariant of the window holds initially and at every edge.          *)
(***************************************************************************)
LEMMA InitWindow == Init => WInv
<1> SUFFICES ASSUME Init PROVE WInv
  OBVIOUS
<1>1. 0 \in Tags /\ 0 \in 0 .. Depth /\ 0 \in Values /\ 0 \in Paths /\ 0 \in Nat
      /\ Width \in Nat
  BY RenameAssumption, InsnAssumption DEF Tags, Values, Paths
<1>2. NoInsn \in Fetched
  BY InsnAssumption DEF NoInsn, Fetched, Kinds, Paths
<1>3. /\ rob = [t \in Tags |-> [done |-> FALSE, value |-> 0, went |-> 0, insn |-> NoInsn]]
      /\ rs = [t \in Tags |-> Idle] /\ rat = Unmapped /\ cp = Unmapped
  BY DEF Init
<1>4. Unmapped \in [Regs -> Mapping]
  BY <1>1 DEF Unmapped, Mapping
<1>5. rob \in [Tags -> [done : BOOLEAN, value : Values, went : Paths, insn : Fetched]]
  BY <1>1, <1>2, <1>3
<1>6. rs \in [Tags -> [busy : BOOLEAN, ready : BOOLEAN, val : Values, tag : Tags]]
  BY <1>1, <1>3 DEF Idle
<1>7. retired = <<>> /\ retired \in Seq(Fetched) /\ Len(retired) <= Width
  BY <1>1 DEF Init
<1>8. TypeOK
  BY <1>1, <1>3, <1>4, <1>5, <1>6, <1>7 DEF Init, TypeOK
<1>9. \A t \in Tags : rs[t].busy = FALSE
  BY <1>3 DEF Idle
<1>10. \A t \in Tags : ~InFlight(t)
  <2>1. head \in Tags /\ count = 0
    BY <1>8 DEF TypeOK, Init
  <2> QED BY <2>1, Ages DEF InFlight
<1>11. tail = Plus(head, count)
  <2>1. Plus(0, 0) = 0
    BY RenameAssumption DEF Plus
  <2> QED BY <2>1 DEF Init
<1>12. WindowOK /\ DoneIdle
  BY <1>9, <1>10, <1>11 DEF WindowOK, DoneIdle, Init
<1> QED BY <1>8, <1>12 DEF WInv

\* Every edge of the ring and the stations, given what the front end does.
LEMMA MovesKeep ==
  ASSUME WInv, NEW B, NEW n, NEW d, NEW miss, Moves(B, n, d, miss), Edge(B, n),
         rat' \in [Regs -> Mapping], cp' \in [Regs -> Mapping],
         spec_active' \in BOOLEAN, jalr_stall' \in BOOLEAN, predicted' \in Paths, pc' \in Paths,
         spec_active' \/ jalr_stall' => br' # NoTag, ~(spec_active' /\ jalr_stall')
  PROVE  WInv'
<1>1. n \in Retires /\ Commit(n)
  BY DEF Moves, Edge
<1>2. head' \in Tags /\ count' \in 0 .. Depth /\ tail' = Plus(head', count')
  BY WindowAfter
<1>3. tail' \in Tags
  BY <1>2, PlusTypes
<1>4. rob' \in [Tags -> [done : BOOLEAN, value : Values, went : Paths, insn : Fetched]]
  BY RobTypes
<1>5. rs' \in [Tags -> [busy : BOOLEAN, ready : BOOLEAN, val : Values, tag : Tags]]
  BY StationTypes DEF Slot
<1>6. /\ rf' \in [Regs -> Values] /\ path' \in Paths /\ halt' \in BOOLEAN
      /\ retired' \in Seq(Fetched) /\ Len(retired') <= Width
  BY <1>1, CommitTypes
<1>7. br' \in Tags \cup {NoTag}
  BY BranchKept
<1>8. /\ active' \in BOOLEAN /\ torn' \in BOOLEAN /\ fetch_valid' \in BOOLEAN
      /\ pc_latched' \in Paths
  BY DEF Edge, WInv, TypeOK
<1>9. TypeOK'
  BY <1>2, <1>3, <1>4, <1>5, <1>6, <1>7, <1>8 DEF TypeOK
<1>10. WindowOK'
  <2>1. /\ \A t \in Tags : rs'[t].busy => InFlight(t)'
        /\ \A t \in Tags : InFlight(t)' /\ ~rob'[t].done => rs'[t].busy
    BY StationsKept
  <2>2. \A t \in Tags : InFlight(t)' /\ ~rob'[t].done /\ Kind(t)' \in BranchClass => t = br'
    BY BranchKept DEF Kind
  <2>3. br' # NoTag => InFlight(br)' /\ rs'[br'].busy /\ ~rob'[br'].done /\ Kind(br)' \in BranchClass
    <3> SUFFICES ASSUME br' # NoTag
                 PROVE  InFlight(br)' /\ rs'[br'].busy /\ ~rob'[br'].done /\ Kind(br)' \in BranchClass
      OBVIOUS
    <3>1. PICK b \in Tags : b = br'
      BY BranchKept
    <3>2. InFlight(b)' /\ rs'[b].busy /\ ~rob'[b].done /\ rob'[b].insn.kind \in BranchClass
      BY <3>1, BranchKept
    <3>3. InFlight(b)' <=> InFlight(br)'
      BY <3>1 DEF InFlight, Age
    <3> QED BY <3>1, <3>2, <3>3 DEF Kind
  <2> QED BY <1>2, <2>1, <2>2, <2>3 DEF WindowOK
<1>11. DoneIdle'
  BY StationsKept DEF DoneIdle, Kind
<1> QED BY <1>9, <1>10, <1>11 DEF WInv

\* Every edge preserves the window invariant.
LEMMA NextWindow == WInv /\ [Next]_vars => WInv'
<1> SUFFICES ASSUME WInv, [Next]_vars PROVE WInv'
  OBVIOUS
<1>1. /\ rat \in [Regs -> Mapping] /\ cp \in [Regs -> Mapping]
      /\ spec_active \in BOOLEAN /\ jalr_stall \in BOOLEAN /\ predicted \in Paths
      /\ pc \in Paths /\ pc_latched \in Paths /\ tail \in Tags
      /\ spec_active \/ jalr_stall => br # NoTag
      /\ ~(spec_active /\ jalr_stall)
  BY DEF WInv, TypeOK, WindowOK
<1>2. NoTag \notin Tags
  BY RenameAssumption DEF NoTag, Tags
<1>3. ASSUME NEW B \in Grants, NEW n \in Retires, Dispatch(B, n) PROVE WInv'
  <2>a. PICK g \in Groups :
          \E way \in Predictions(g[1]) : Accepts(g, way) /\ Accept(B, n, g, way)
    BY <1>3 DEF Dispatch
  <2>1. PICK way \in Predictions(g[1]) : Accepts(g, way) /\ Accept(B, n, g, way)
    BY <2>a
  <2> DEFINE d == OnPath(g, way)
  <2>2. Moves(B, n, d, FALSE) /\ d \in Seq(Fetched) /\ Len(d) <= Free
    BY <2>1, DispatchMoves DEF Moves
  <2>3. /\ way \in Paths \cup {NoWay} /\ (way # NoWay => g[1].kind \in {"branch", "jalr"})
    BY <1>1, GroupIs
  <2>4. /\ rat' = Renamed(Cleared(rat, n), d)
        /\ cp' = IF way # NoWay THEN Cleared(rat, n) ELSE Cleared(cp, n)
    BY <2>1 DEF Accept
  <2> HIDE DEF d
  <2>5. rat' \in [Regs -> Mapping] /\ cp' \in [Regs -> Mapping]
    <3>1. Cleared(rat, n) \in [Regs -> Mapping] /\ Cleared(cp, n) \in [Regs -> Mapping]
      BY <1>1, TableTypes
    <3> QED BY <2>2, <2>4, <3>1, RenamedTypes
  <2>6. /\ Edge(B, n)
        /\ br' = IF g[1].kind \in BranchClass THEN tail ELSE IF Resolved(B) THEN NoTag ELSE br
        /\ spec_active' = (way # NoWay \/ (spec_active /\ ~Resolved(B)))
        /\ predicted' = IF way # NoWay THEN way ELSE predicted
        /\ jalr_stall' = (g[1].kind = "jalr" /\ ~(way # NoWay))
        /\ pc' = IF way # NoWay THEN way ELSE pc_latched
        /\ (g[1].kind \in BranchClass => br = NoTag)
    BY <2>1 DEF Accept, Accepts
  <2>7. spec_active' \in BOOLEAN /\ jalr_stall' \in BOOLEAN /\ predicted' \in Paths /\ pc' \in Paths
    BY <1>1, <2>3, <2>6
  <2>8. (spec_active' \/ jalr_stall' => br' # NoTag) /\ ~(spec_active' /\ jalr_stall')
    BY <1>1, <1>2, <2>3, <2>6 DEF BranchClass
  <2> QED BY <2>2, <2>5, <2>6, <2>7, <2>8, MovesKeep
<1>4. ASSUME NEW B \in Grants, NEW n \in Retires, Hold(B, n) PROVE WInv'
  <2>1. Moves(B, n, <<>>, FALSE)
    BY <1>4, HoldMoves
  <2>2. rat' \in [Regs -> Mapping] /\ cp' \in [Regs -> Mapping]
    BY <1>1, <1>4, TableTypes DEF Hold
  <2>3. Redirect(B) => Target \in Paths
    <3>1. Redirect(B) => br \in Tags
      BY ResolvedIs DEF Redirect, Mispredict
    <3> QED BY <3>1, ResultTypes DEF Target, WInv
  <2>4. spec_active' \in BOOLEAN /\ jalr_stall' \in BOOLEAN /\ predicted' \in Paths /\ pc' \in Paths
    BY <1>1, <1>4, <2>3 DEF Hold
  <2>5. (spec_active' \/ jalr_stall' => br' # NoTag) /\ ~(spec_active' /\ jalr_stall')
    BY <1>1, <1>4 DEF Hold
  <2> QED BY <1>4, <2>1, <2>2, <2>4, <2>5, MovesKeep DEF Hold
<1>5. ASSUME NEW B \in Grants, NEW n \in Retires, Rollback(B, n) PROVE WInv'
  <2>1. Moves(B, n, <<>>, TRUE)
    BY <1>5, RollbackMoves
  <2>2. rat' \in [Regs -> Mapping] /\ cp' \in [Regs -> Mapping]
    BY <1>1, <1>5, TableTypes DEF Rollback
  <2>3. Target \in Paths
    <3>1. br \in Tags
      BY <1>5, ResolvedIs DEF Rollback, Mispredict
    <3> QED BY <3>1, ResultTypes DEF Target, WInv
  <2>4. spec_active' \in BOOLEAN /\ jalr_stall' \in BOOLEAN /\ predicted' \in Paths /\ pc' \in Paths
    BY <1>1, <1>5, <2>3 DEF Rollback
  <2>5. (spec_active' \/ jalr_stall' => br' # NoTag) /\ ~(spec_active' /\ jalr_stall')
    BY <1>5 DEF Rollback
  <2> QED BY <1>5, <2>1, <2>2, <2>4, <2>5, MovesKeep DEF Rollback
<1>6. CASE UNCHANGED vars
  BY <1>6 DEF vars, ring, table, front, WInv, TypeOK, WindowOK, DoneIdle, InFlight, Age, Kind
<1> QED BY <1>3, <1>4, <1>5, <1>6 DEF Next, Step

\* Every register of the thread holds what its width allows, and at most Width
\* instructions retire at an edge.
THEOREM TypesOK == Spec => []TypeOK
<1>1. WInv => TypeOK
  BY DEF WInv
<1> QED BY <1>1, InitWindow, NextWindow, PTL DEF Spec

\* The ring and the stations agree at every edge, torn or not.
THEOREM WindowAlwaysOK == Spec => []WindowOK
<1>1. WInv => WindowOK
  BY DEF WInv
<1> QED BY <1>1, InitWindow, NextWindow, PTL DEF Spec

(***************************************************************************)
(* The halt line.                                                          *)
(***************************************************************************)

\* Nothing retires behind an ecall, so whenever the halt line rises the ecall
\* is the last instruction retired (riscv64_ooo_proc.v:2188-2207).
THEOREM HaltAlwaysPrecise == Spec => HaltIsPrecise
<1>1. WInv /\ [Next]_vars => [halt' => retired' # <<>> /\ Last(retired').kind = "ecall"]_vars
  <2> SUFFICES ASSUME WInv, Next, halt' PROVE retired' # <<>> /\ Last(retired').kind = "ecall"
    OBVIOUS
  <2>1. PICK B \in Grants, n \in Retires : Step(B, n)
    BY DEF Next
  <2>2. Commit(n)
    BY <2>1 DEF Step, Dispatch, Accept, Hold, Rollback, Edge
  <2>3. /\ Len(retired') = n /\ n \in 0 .. Width /\ n \in Nat
        /\ retired' = [i \in 1 .. n |-> rob[Position(i - 1)].insn]
    <3>1. head \in Tags /\ count \in 0 .. Depth
      BY DEF WInv, TypeOK
    <3> QED BY <2>2, <3>1, CommitTypes, RetiringIs DEF Commit
  <2>4. PICK i \in 0 .. n - 1 : Kind(Position(i)) = "ecall"
    BY <2>2 DEF Commit, Retiring
  <2>5. PICK ok \in BOOLEAN : Retirable(n, ok)
    <3>1. PICK ok \in BOOLEAN : n = RetireCount(ok)
      BY DEF Retires
    <3> QED BY <3>1, RetireCountIs DEF WInv, TypeOK
  <2>6. i = n - 1
    BY <2>4, <2>5 DEF Retirable
  <2>7. n >= 1 /\ i = n - 1 /\ n \in 1 .. n
    BY <2>3, <2>4, <2>6
  <2>8. retired'[n].kind = "ecall"
    BY <2>3, <2>4, <2>7 DEF Kind
  <2> QED BY <2>3, <2>7, <2>8 DEF Last
<1> QED BY <1>1, InitWindow, NextWindow, PTL DEF Spec, HaltIsPrecise

(***************************************************************************)
(* The tables.                                                             *)
(***************************************************************************)

\* What the decoder never gives a destination has none.
NoRd == \A t \in Tags : Kind(t) \in {"store", "branch", "ecall"} => rob[t].insn.rd = 0

RInv == WInv /\ NoRd /\ RenamingOK /\ NoLostWakeup

\* A table that named the youngest producer names, once commit has cleared it,
\* the youngest of the producers that have not retired.
LEMMA ClearedNames ==
  ASSUME WInv, NEW n \in Retires, NEW m \in [Regs -> Mapping], NEW r \in Regs, NEW a \in Int,
         n <= a, Names(m, r, a), NEW Q, Q = {t \in Producers(r, a) : Age(t) >= n}
  PROVE  IF Q = {} THEN ~Cleared(m, n)[r].busy
         ELSE /\ Cleared(m, n)[r].busy /\ Cleared(m, n)[r].tag \in Q
              /\ \A t \in Q : Age(t) <= Age(Cleared(m, n)[r].tag)
<1> DEFINE P == Producers(r, a)
           c == Cleared(m, n)[r]
<1>1. head \in Tags /\ count \in 0 .. Depth
  BY DEF WInv, TypeOK
<1>2. /\ n \in Nat /\ Retiring(n) = {t \in Tags : Age(t) < n}
      /\ \A t \in Retiring(n) : InFlight(t)
  BY <1>1, RetiringIs
<1>3. \A t \in Tags : Age(t) \in Nat
  BY <1>1, Ages
<1>4. Writers(n, r) = {t \in P : Age(t) < n}
  <2>1. \A t \in Tags : Age(t) < n => Age(t) <= a
    BY <1>2, <1>3
  <2> QED BY <1>2, <2>1 DEF Writers, Producers
<1>5. m[r].busy \in BOOLEAN /\ m[r].tag \in Tags /\ DOMAIN m[r] = {"busy", "tag"}
  BY DEF Mapping
<1>6. /\ m[r].tag \in Writers(n, r) => c.busy = FALSE
      /\ m[r].tag \notin Writers(n, r) => c = m[r]
  BY <1>5 DEF Cleared
<1>7. \A t \in P : t \in Tags
  BY DEF Producers
<1>8. CASE P = {}
  <2>1. ~m[r].busy /\ Q = {} /\ m[r].tag \notin Writers(n, r)
    BY <1>4, <1>8 DEF Names
  <2> QED BY <1>6, <2>1
<1>9. CASE P # {}
  <2>1. m[r].busy /\ m[r].tag \in P /\ \A t \in P : Age(t) <= Age(m[r].tag)
    BY <1>9 DEF Names
  <2> HIDE DEF P, c
  <2>2. CASE m[r].tag \in Writers(n, r)
    <3>1. \A t \in P : Age(t) < n
      BY <1>2, <1>3, <1>4, <1>7, <2>1, <2>2
    <3>2. Q = {}
      BY <1>2, <1>3, <1>7, <3>1 DEF P
    <3> QED BY <1>6, <2>2, <3>2 DEF c
  <2>3. CASE m[r].tag \notin Writers(n, r)
    <3>1. Age(m[r].tag) >= n
      BY <1>2, <1>3, <1>4, <1>7, <2>1, <2>3
    <3>2. m[r].tag \in Q /\ \A t \in Q : t \in P
      BY <2>1, <3>1 DEF P
    <3> QED BY <1>6, <2>1, <2>3, <3>2 DEF c
  <2> QED BY <2>2, <2>3
<1> QED BY <1>8, <1>9

\* Names after an edge whose table maps r to c, in terms of the tags that write
\* r after it.
LEMMA NamesAfter ==
  ASSUME NEW m, NEW r, NEW a, NEW c, NEW Q, c = m[r],
         \A t \in Tags : t \in Q <=> InFlight(t)' /\ Age(t)' <= a /\ rob'[t].insn.rd = r,
         Q \subseteq Tags,
         IF Q = {} THEN ~c.busy
         ELSE c.busy /\ c.tag \in Q /\ \A t \in Q, u \in Q : u = c.tag => Age(t)' <= Age(u)'
  PROVE  Names(m, r, a)'
<1>1. Producers(r, a)' = Q
  BY DEF Producers, Kind
<1>2. ASSUME Q # {}, NEW t \in Q PROVE Age(t)' <= Age(m[r].tag)'
  <2>1. PICK u \in Q : u = c.tag
    BY <1>2
  <2>2. Age(u)' = Age(m[r].tag)'
    BY <2>1 DEF Age
  <2> QED BY <1>2, <2>1, <2>2
<1> QED BY <1>1, <1>2 DEF Names

\* The producers of r after the edge: those that stay, and new ones.
LEMMA ProducersAfter ==
  ASSUME WInv, NEW B, NEW n, NEW d, NEW miss, Moves(B, n, d, miss), NEW r, NEW t \in Tags
  PROVE  InFlight(t)' /\ rob'[t].insn.rd = r <=>
           \/ t \in Allocated(d) /\ d[Lane(d, t)].rd = r
           \/ Stays(t, n, miss) /\ rob[t].insn.rd = r
<1>1. /\ InFlight(t)' <=> t \in Allocated(d) \/ Stays(t, n, miss)
      /\ rob'[t].insn = IF t \in Allocated(d) THEN d[Lane(d, t)] ELSE rob[t].insn
  BY WindowAfter, EntryAfter
<1>2. t \in Allocated(d) => ~Stays(t, n, miss)
  BY LaneIs DEF Moves, Stays
<1> QED BY <1>1, <1>2

\* A table that names the youngest of those that stay names the youngest after
\* the edge, if nothing else writes r.
LEMMA StayingNames ==
  ASSUME WInv, NEW B, NEW n, NEW d, NEW miss, Moves(B, n, d, miss), NEW m, NEW r, NEW a,
         NEW Q, Q \subseteq Tags, \A t \in Q : Stays(t, n, miss),
         \A t \in Tags : t \in Q <=> InFlight(t)' /\ Age(t)' <= a /\ rob'[t].insn.rd = r,
         IF Q = {} THEN ~m[r].busy
         ELSE m[r].busy /\ m[r].tag \in Q /\ \A t \in Q : Age(t) <= Age(m[r].tag)
  PROVE  Names(m, r, a)'
<1>1. head \in Tags /\ count \in 0 .. Depth /\ n \in Retires
  BY DEF WInv, TypeOK, Moves
<1>2. n \in Nat
  BY <1>1, RetiringIs
<1>3. \A t \in Q : Age(t)' = Age(t) - n /\ Age(t) \in Nat
  BY <1>1, WindowAfter, Ages
<1>4. ASSUME NEW t \in Q, NEW u \in Q, u = m[r].tag PROVE Age(t)' <= Age(u)'
  <2>1. Age(t) <= Age(u)
    BY <1>4
  <2> QED BY <1>2, <1>3, <2>1
<1> QED BY <1>4, NamesAfter

\* Commit and dispatch keep the table on the youngest writer.
LEMMA TableKept ==
  ASSUME RInv, ~torn, NEW B, NEW n, NEW d, NEW miss, ~miss, Moves(B, n, d, miss),
         rat' = Renamed(Cleared(rat, n), d), NEW r \in Regs
  PROVE  Names(rat, r, Depth)'
<1>1. /\ WInv /\ Names(rat, r, Depth) /\ rat \in [Regs -> Mapping]
      /\ head \in Tags /\ count \in 0 .. Depth /\ Depth \in Nat /\ Depth \in Int
  BY RenameAssumption DEF RInv, WInv, TypeOK, RenamingOK, RatNamesYoungest
<1>2. d \in Seq(Fetched) /\ Len(d) <= Free /\ n \in Retires /\ n \in Nat /\ n <= Depth
      /\ n <= count /\ Len(d) \in Nat
  <2>1. d \in Seq(Fetched) /\ Len(d) <= Free /\ n \in Retires
    BY DEF Moves
  <2> QED BY <1>1, <2>1, RetiringIs
<1>3. Cleared(rat, n) \in [Regs -> Mapping]
  BY <1>1, <1>2, TableTypes
<1>4. \A t \in Tags : Age(t) \in Nat /\ Age(t) < Depth
  BY <1>1, Ages
<1>5. \A t \in Tags : Stays(t, n, miss) <=> InFlight(t) /\ Age(t) >= n
  BY DEF Stays
<1>6. head' \in Tags /\ \A t \in Tags : Age(t)' \in Nat /\ Age(t)' < Depth
  <2>1. head' \in Tags /\ head' = Plus(head, n) /\ n \in 0 .. Depth
    <3>1. head' \in Tags
      BY <1>1, WindowAfter
    <3>2. head' = Plus(head, n)
      BY DEF Moves
    <3> QED BY <1>1, <1>2, <3>1, <3>2
  <2>2. ASSUME NEW t \in Tags PROVE Age(t)' \in Nat /\ Age(t)' < Depth
    <3>1. Age(t)' = IF Age(t) >= n THEN Age(t) - n ELSE Age(t) - n + Depth
      BY <1>1, <2>1, AgesAfter
    <3> QED BY <1>1, <1>2, <1>4, <3>1
  <2> QED BY <2>1, <2>2
<1> DEFINE w == {i \in DOMAIN d : d[i].rd = r}
           New(t) == t \in Allocated(d) /\ d[Lane(d, t)].rd = r
           Old(t) == Stays(t, n, miss) /\ rob[t].insn.rd = r
           Q == {t \in Tags : New(t) \/ Old(t)}
<1>7. \A t \in Tags : t \in Q <=> InFlight(t)' /\ Age(t)' <= Depth /\ rob'[t].insn.rd = r
  <2>1. ASSUME NEW t \in Tags
        PROVE  t \in Q <=> InFlight(t)' /\ Age(t)' <= Depth /\ rob'[t].insn.rd = r
    <3>1. Age(t)' <= Depth
      BY <1>1, <1>6
    <3> QED BY <1>1, <3>1, ProducersAfter
  <2> QED BY <2>1
<1>8. CASE w # {}
  <2>1. Max(w) \in w /\ Max(w) \in 1 .. Len(d) /\ \A i \in w : i <= Max(w)
    BY <1>1, <1>2, <1>3, <1>8, RenamedTypes
  <2>2. rat'[r] = [busy |-> TRUE, tag |-> LaneTag(Max(w))]
    BY <1>8 DEF Renamed
  <2> DEFINE g == LaneTag(Max(w))
  <2>3. g \in Allocated(d) /\ Lane(d, g) = Max(w) /\ g \in Tags
    BY <1>1, <1>2, <2>1, LaneIs
  <2>4. g \in Q
    BY <2>1, <2>3
  <2>5. ASSUME NEW t \in Q, NEW u \in Q, u = g PROVE Age(t)' <= Age(u)'
    <3>1. Age(u)' = count - n + Max(w) - 1
      BY <1>1, <2>3, <2>5, WindowAfter
    <3>2. CASE t \in Allocated(d) /\ d[Lane(d, t)].rd = r
      <4>1. Lane(d, t) \in 1 .. Len(d) /\ t \in Tags
        BY <1>1, <1>2, <3>2, LaneIs
      <4>2. Lane(d, t) \in w
        BY <3>2, <4>1
      <4>3. Age(t)' = count - n + Lane(d, t) - 1
        BY <1>1, <3>2, <4>1, WindowAfter
      <4> HIDE DEF w, g, Q
      <4> QED BY <1>1, <1>2, <2>1, <3>1, <4>1, <4>2, <4>3
    <3>3. CASE Stays(t, n, miss)
      <4>1. Age(t)' = Age(t) - n /\ Age(t) < count
           /\ Age(t) \in Nat
        BY <1>1, <1>4, <3>3, WindowAfter DEF Stays, InFlight
      <4> HIDE DEF w, g, Q
      <4> QED BY <1>1, <1>2, <1>4, <2>1, <3>1, <4>1
    <3> QED BY <3>2, <3>3
  <2> HIDE DEF w, g, Q
  <2>6. PICK m : m = rat'
    OBVIOUS
  <2>7. Q \subseteq Tags
    BY DEF Q
  <2>8. m[r].busy /\ m[r].tag = g
    BY <2>2, <2>6 DEF g
  <2>9. Names(m, r, Depth)'
    BY <1>7, <2>4, <2>5, <2>7, <2>8, NamesAfter
  <2> QED BY <2>6, <2>9 DEF Names
<1>9. CASE w = {}
  <2>1. rat'[r] = Cleared(rat, n)[r]
    BY <1>9 DEF Renamed
  <2>2. Q = {t \in Producers(r, Depth) : Age(t) >= n}
    <3>1. \A t \in Allocated(d) : d[Lane(d, t)].rd # r
      BY <1>1, <1>2, <1>9, LaneIs
    <3>2. \A t \in Tags : Age(t) <= Depth
      BY <1>1, <1>4
    <3> QED BY <1>5, <3>1, <3>2 DEF Producers
  <2> HIDE DEF w, Q
  <2>3. IF Q = {} THEN ~Cleared(rat, n)[r].busy
        ELSE /\ Cleared(rat, n)[r].busy /\ Cleared(rat, n)[r].tag \in Q
             /\ \A t \in Q : Age(t) <= Age(Cleared(rat, n)[r].tag)
    BY <1>1, <1>2, <2>2, ClearedNames
  <2>4. Q \subseteq Tags /\ \A t \in Q : Stays(t, n, miss)
    BY <1>5, <2>2 DEF Producers
  <2>5. PICK m : m = rat'
    OBVIOUS
  <2>6. m[r] = Cleared(rat, n)[r]
    BY <2>1, <2>5
  <2>7. Names(m, r, Depth)'
    BY <1>1, <1>7, <2>3, <2>4, <2>6, StayingNames
  <2> QED BY <2>5, <2>7 DEF Names
<1> QED BY <1>8, <1>9

\* A checkpoint taken at dispatch is the table without what is dispatched.
LEMMA CheckpointTaken ==
  ASSUME RInv, ~torn, NEW B, NEW n, NEW d, NEW miss, ~miss, Moves(B, n, d, miss),
         Leads(d), d[1].rd = 0, cp' = Cleared(rat, n), NEW r \in Regs
  PROVE  Names(cp, r, Age(br))'
<1>1. /\ WInv /\ Names(rat, r, Depth) /\ rat \in [Regs -> Mapping] /\ tail \in Tags
      /\ head \in Tags /\ count \in 0 .. Depth /\ Depth \in Nat /\ Depth \in Int
  BY RenameAssumption DEF RInv, WInv, TypeOK, RenamingOK, RatNamesYoungest
<1>2. /\ d \in Seq(Fetched) /\ Len(d) <= Free /\ n \in Retires /\ br' = tail
      /\ Len(d) \in Nat /\ 1 \in 1 .. Len(d)
  BY DEF Moves, Leads
<1>3. n \in Nat /\ n <= Depth /\ n <= count
  BY <1>1, <1>2, RetiringIs
<1>4. r # 0
  BY DEF Regs
<1>5. LaneTag(1) = tail
  BY <1>1, RenameAssumption DEF LaneTag, Plus, Tags
<1>6. PICK b \in Tags : b = tail
  BY <1>1
<1>7. b \in Allocated(d) /\ Lane(d, b) = 1
  BY <1>1, <1>2, <1>5, <1>6, LaneIs
<1>8. PICK a \in Int : a = count - n
  BY <1>1, <1>3
<1>9. Age(b)' = a
  <2>1. Age(b)' = count - n + Lane(d, b) - 1
    BY <1>1, <1>6, <1>7, WindowAfter
  <2> QED BY <1>1, <1>3, <1>7, <1>8, <2>1
<1> DEFINE Q == {t \in Producers(r, Depth) : Age(t) >= n}
<1>10. Q \subseteq Tags /\ \A t \in Q : Stays(t, n, miss)
  BY DEF Producers, Stays
<1>11. ASSUME NEW t \in Tags
       PROVE  t \in Q <=> InFlight(t)' /\ Age(t)' <= a /\ rob'[t].insn.rd = r
  <2>1. Age(t) \in Nat /\ Age(t) <= Depth
    BY <1>1, Ages
  <2>2. t \in Q <=> Stays(t, n, miss) /\ rob[t].insn.rd = r
    BY <2>1 DEF Producers, Stays
  <2>3. InFlight(t)' /\ rob'[t].insn.rd = r <=>
           \/ t \in Allocated(d) /\ d[Lane(d, t)].rd = r
           \/ Stays(t, n, miss) /\ rob[t].insn.rd = r
    BY <1>1, ProducersAfter
  <2>4. Stays(t, n, miss) => Age(t)' <= a
    <3>1. Stays(t, n, miss) => Age(t)' = Age(t) - n /\ Age(t) < count
      BY <1>1, WindowAfter DEF Stays, InFlight
    <3> QED BY <1>1, <1>3, <1>8, <2>1, <3>1
  <2>5. ASSUME t \in Allocated(d), Age(t)' <= a PROVE d[Lane(d, t)].rd # r
    <3>1. Age(t)' = count - n + Lane(d, t) - 1 /\ Lane(d, t) \in 1 .. Len(d)
      BY <1>1, <1>2, <2>5, WindowAfter, LaneIs
    <3>2. Lane(d, t) = 1
      BY <1>1, <1>2, <1>3, <1>8, <2>5, <3>1
    <3> QED BY <1>4, <3>2
  <2> HIDE DEF Q
  <2> QED BY <2>2, <2>3, <2>4, <2>5
<1>12. IF Q = {} THEN ~Cleared(rat, n)[r].busy
       ELSE /\ Cleared(rat, n)[r].busy /\ Cleared(rat, n)[r].tag \in Q
            /\ \A t \in Q : Age(t) <= Age(Cleared(rat, n)[r].tag)
  BY <1>1, <1>2, <1>3, ClearedNames
<1> HIDE DEF Q
<1>13. PICK m : m = cp'
  OBVIOUS
<1>14. Names(m, r, a)'
  BY <1>1, <1>10, <1>11, <1>12, <1>13, StayingNames
<1>15. Age(br)' = a
  BY <1>2, <1>6, <1>9 DEF Age
<1> QED BY <1>13, <1>14, <1>15 DEF Names

\* An outstanding checkpoint is kept current through commit.
LEMMA CheckpointKept ==
  ASSUME RInv, ~torn, NEW B, NEW n, NEW d, NEW miss, ~miss, Moves(B, n, d, miss),
         spec_active, ~Resolved(B), ~Leads(d), rob[br].insn.rd = 0, cp' = Cleared(cp, n),
         NEW r \in Regs
  PROVE  Names(cp, r, Age(br))'
<1>1. /\ WInv /\ cp \in [Regs -> Mapping] /\ br # NoTag /\ br \in Tags /\ spec_active
      /\ head \in Tags /\ count \in 0 .. Depth /\ Depth \in Nat
      /\ InFlight(br) /\ ~rob[br].done
  BY RenameAssumption DEF RInv, WInv, TypeOK, WindowOK
<1>2. d \in Seq(Fetched) /\ Len(d) <= Free /\ n \in Retires /\ br' = br /\ Len(d) \in Nat
  BY DEF Moves
<1>3. n \in Nat /\ n <= count
  BY <1>1, <1>2, RetiringIs
<1>4. PICK b \in Tags : b = br
  BY <1>1
<1>5. Age(b) \in Nat /\ Age(b) >= n /\ Age(b) < count /\ Stays(b, n, miss) /\ Age(b) \in Int
  BY <1>1, <1>4, Ages, WindowAfter DEF InFlight, Stays
<1>6. Names(cp, r, Age(b))
  BY <1>1, <1>4 DEF RInv, RenamingOK, CheckpointNamesOlder
<1>7. PICK a \in Int : a = Age(b) - n
  BY <1>3, <1>5
<1>8. Age(b)' = a
  BY <1>1, <1>5, <1>7, WindowAfter
<1> DEFINE Q == {t \in Producers(r, Age(b)) : Age(t) >= n}
<1>9. Q \subseteq Tags /\ \A t \in Q : Stays(t, n, miss)
  BY DEF Producers, Stays
<1>10. ASSUME NEW t \in Tags
       PROVE  t \in Q <=> InFlight(t)' /\ Age(t)' <= a /\ rob'[t].insn.rd = r
  <2>1. Age(t) \in Nat
    BY <1>1, Ages
  <2>2. t \in Q <=> Stays(t, n, miss) /\ rob[t].insn.rd = r /\ Age(t) <= Age(b)
    BY DEF Producers, Stays
  <2>3. InFlight(t)' /\ rob'[t].insn.rd = r <=>
           \/ t \in Allocated(d) /\ d[Lane(d, t)].rd = r
           \/ Stays(t, n, miss) /\ rob[t].insn.rd = r
    BY <1>1, ProducersAfter
  <2>4. Stays(t, n, miss) => (Age(t)' <= a <=> Age(t) <= Age(b))
    <3>1. Stays(t, n, miss) => Age(t)' = Age(t) - n
      BY <1>1, WindowAfter
    <3> QED BY <1>3, <1>5, <1>7, <2>1, <3>1
  <2>5. t \in Allocated(d) => ~(Age(t)' <= a)
    <3>1. t \in Allocated(d) => Age(t)' = count - n + Lane(d, t) - 1 /\ Lane(d, t) \in 1 .. Len(d)
      BY <1>1, <1>2, WindowAfter, LaneIs
    <3> QED BY <1>1, <1>2, <1>3, <1>5, <1>7, <3>1
  <2> HIDE DEF Q
  <2> QED BY <2>2, <2>3, <2>4, <2>5
<1>11. IF Q = {} THEN ~Cleared(cp, n)[r].busy
       ELSE /\ Cleared(cp, n)[r].busy /\ Cleared(cp, n)[r].tag \in Q
            /\ \A t \in Q : Age(t) <= Age(Cleared(cp, n)[r].tag)
  BY <1>1, <1>2, <1>5, <1>6, ClearedNames
<1> HIDE DEF Q
<1>12. PICK m : m = cp'
  OBVIOUS
<1>13. Names(m, r, a)'
  BY <1>1, <1>9, <1>10, <1>11, <1>12, StayingNames
<1>14. Age(br)' = a
  BY <1>2, <1>4, <1>8 DEF Age
<1> QED BY <1>12, <1>13, <1>14 DEF Names

\* Rolled back to the checkpoint, the table names the youngest of what is left.
LEMMA TableRestored ==
  ASSUME RInv, ~torn, NEW B, NEW n, NEW d, d = <<>>, NEW miss, Moves(B, n, d, miss), Mispredict(B),
         \A t \in Tags : Stays(t, n, miss) <=> InFlight(t) /\ Age(t) >= n /\ Age(t) <= Age(br),
         ~TornRestore(B, n), rat' = cp, NEW r \in Regs
  PROVE  Names(rat, r, Depth)'
<1>1. /\ WInv /\ head \in Tags /\ count \in 0 .. Depth /\ Depth \in Nat
      /\ d = <<>> /\ n \in Retires /\ Mispredict(B) /\ B \in Grants
  BY RenameAssumption DEF RInv, WInv, TypeOK, Moves
<1>2. spec_active /\ Resolved(B) /\ br \in Tags /\ InFlight(br) /\ ~rob[br].done
  BY <1>1, ResolvedIs DEF Mispredict
<1>3. rob[br].insn.rd = 0 /\ ~(cp[r].busy /\ cp[r].tag \in Writers(n, r))
  BY <1>1 DEF TornRestore
<1>4. Names(cp, r, Age(br))
  BY <1>2, <1>3 DEF RInv, RenamingOK, CheckpointNamesOlder
<1>5. n \in Nat /\ n <= count /\ n <= Depth /\ Retiring(n) = {t \in Tags : Age(t) < n}
  BY <1>1, RetiringIs
<1>6. \A t \in Tags : Age(t) \in Nat /\ Age(t) < Depth
  BY <1>1, Ages
<1> DEFINE Q == {t \in Producers(r, Age(br)) : Age(t) >= n}
<1>7. Q \subseteq Tags /\ \A t \in Q : Stays(t, n, miss)
  BY DEF Producers
<1>8. ASSUME NEW t \in Tags
      PROVE  t \in Q <=> InFlight(t)' /\ Age(t)' <= Depth /\ rob'[t].insn.rd = r
  <2>1. t \in Q <=> Stays(t, n, miss) /\ rob[t].insn.rd = r
    BY DEF Producers
  <2>2. t \notin Allocated(d)
    BY <1>1 DEF Allocated
  <2>3. InFlight(t)' /\ rob'[t].insn.rd = r <=> Stays(t, n, miss) /\ rob[t].insn.rd = r
    <3>1. InFlight(t)' /\ rob'[t].insn.rd = r <=>
             \/ t \in Allocated(d) /\ d[Lane(d, t)].rd = r
             \/ Stays(t, n, miss) /\ rob[t].insn.rd = r
      BY <1>1, ProducersAfter
    <3> QED BY <2>2, <3>1
  <2>4. Stays(t, n, miss) => Age(t)' <= Depth
    <3>1. Stays(t, n, miss) => Age(t)' = Age(t) - n
      BY <1>1, WindowAfter
    <3> QED BY <1>1, <1>5, <1>6, <3>1
  <2> HIDE DEF Q
  <2> QED BY <2>1, <2>3, <2>4
<1>9. IF Q = {} THEN ~cp[r].busy
      ELSE cp[r].busy /\ cp[r].tag \in Q /\ \A t \in Q : Age(t) <= Age(cp[r].tag)
  <2>1. CASE Producers(r, Age(br)) = {}
    <3>1. ~cp[r].busy
      BY <1>4, <2>1 DEF Names
    <3> QED BY <2>1, <3>1
  <2>2. CASE Producers(r, Age(br)) # {}
    <3>1. /\ cp[r].busy /\ cp[r].tag \in Producers(r, Age(br))
          /\ \A t \in Producers(r, Age(br)) : Age(t) <= Age(cp[r].tag)
      BY <1>4, <2>2 DEF Names
    <3>2. cp[r].tag \in Tags /\ rob[cp[r].tag].insn.rd = r
      BY <3>1 DEF Producers
    <3>3. Age(cp[r].tag) >= n
      BY <1>3, <1>5, <1>6, <3>1, <3>2 DEF Writers
    <3> QED BY <3>1, <3>3
  <2> QED BY <2>1, <2>2
<1> HIDE DEF Q
<1>10. PICK m : m = rat'
  OBVIOUS
<1>11. Names(m, r, Depth)'
  BY <1>1, <1>7, <1>8, <1>9, <1>10, StayingNames
<1> QED BY <1>10, <1>11 DEF Names

(***************************************************************************)
(* Operands.                                                               *)
(***************************************************************************)

\* The result an operand waits for is in flight, and whoever makes it will
\* broadcast it: a store or a branch, which does not, has no destination.
LEMMA WaitsForBroadcast ==
  ASSUME RInv, NEW B \in Grants, NEW p \in Tags, rob[p].insn.rd # 0, p \notin B
  PROVE  p \notin Marked(B)
<1>1. Kind(p) \notin {"store", "branch"}
  BY DEF RInv, NoRd
<1> QED BY <1>1 DEF Marked

\* An entry that waits after the edge waits for an older one without a result.
LEMMA WakeupKept ==
  ASSUME RInv, ~torn, NEW B, NEW n, NEW d, NEW miss, Moves(B, n, d, miss),
         NEW t \in Tags, rs'[t].busy, ~rs'[t].ready, NEW p, p = rs'[t].tag
  PROVE  /\ InFlight(p)' /\ Age(p)' < Age(t)' /\ ~rob'[p].done
         /\ rob'[p].insn.rd = rob'[t].insn.src /\ rob'[t].insn.src # 0
<1>1. /\ WInv /\ head \in Tags /\ count \in 0 .. Depth /\ rat \in [Regs -> Mapping]
      /\ \A u \in Tags : rob[u].done \in BOOLEAN /\ rs[u] \in Slot
  BY DEF RInv, WInv, TypeOK, Slot
<1>2. /\ d \in Seq(Fetched) /\ Len(d) <= Free /\ n \in Retires /\ B \in Grants
      /\ miss => d = <<>>
  BY DEF Moves
<1>3. n \in Nat /\ n <= count
  BY <1>1, <1>2, RetiringIs
<1>4. \A u \in Tags : Age(u) \in Nat
  BY <1>1, Ages
<1>5. /\ \A u \in Tags : InFlight(u)' <=> u \in Allocated(d) \/ Stays(u, n, miss)
      /\ \A u \in Tags : u \in Allocated(d) => Age(u)' = count - n + Lane(d, u) - 1
      /\ \A u \in Tags : Stays(u, n, miss) => Age(u)' = Age(u) - n
      /\ \A u \in Tags : InFlight(u) /\ ~rob[u].done => Age(u) >= n
  BY <1>1, WindowAfter
<1>6. \A u \in Tags :
        /\ rob'[u].done = (u \in Marked(B) \/ (rob[u].done /\ u \notin Allocated(d)))
        /\ rob'[u].insn = IF u \in Allocated(d) THEN d[Lane(d, u)] ELSE rob[u].insn
  BY EntryAfter
\* A producer in flight without a result that the CDB does not carry stays so.
<1>7. ASSUME p \in Tags, InFlight(p), ~rob[p].done, rob[p].insn.rd # 0, p \notin B,
             miss => Age(p) <= Age(br)
      PROVE  Stays(p, n, miss) /\ InFlight(p)' /\ ~rob'[p].done /\ rob'[p].insn = rob[p].insn
             /\ Age(p)' = Age(p) - n /\ Age(p) < count
  <2>1. p \notin Marked(B)
    BY <1>2, <1>7, WaitsForBroadcast
  <2>2. p \notin Allocated(d)
    BY <1>1, <1>2, <1>7, LaneIs
  <2>3. Stays(p, n, miss)
    BY <1>5, <1>7 DEF Stays
  <2> QED BY <1>5, <1>6, <1>7, <2>1, <2>2, <2>3 DEF InFlight
<1>8. CASE t \in Allocated(d)
  <2> DEFINE i == Lane(d, t)
             r == d[i].src
             f == Feeders(d, i, r)
  <2>1. i \in 1 .. Len(d) /\ ~miss
    BY <1>1, <1>2, <1>8, LaneIs DEF Allocated
  <2>2. /\ Age(t)' = count - n + i - 1 /\ rob'[t].insn.src = r
        /\ rs'[t] = Capture(B, d, i)
    BY <1>1, <1>5, <1>6, <1>8, StationAfter
  <2>3. d[i] \in Fetched
    BY <1>2, <2>1
  <2>4. r \in 0 .. NRegs
    BY <2>3 DEF Fetched
  <2>5. \A v : Holding(v).ready
    BY DEF Holding
  <2>6. \/ r # 0 /\ f # {} /\ rs'[t] = Waiting(LaneTag(Max(f)))
        \/ /\ r # 0 /\ rs'[t] = Waiting(rat[r].tag)
           /\ rat[r].busy /\ rat[r].tag \notin B /\ ~rob[rat[r].tag].done
    BY <2>2, <2>5 DEF Capture
  <2>7. CASE r # 0 /\ f # {} /\ rs'[t] = Waiting(LaneTag(Max(f)))
    <3>1. r \in 1 .. NRegs
      BY <2>4, <2>7, InsnAssumption
    <3>2. Max(f) \in 1 .. i - 1 /\ d[Max(f)].rd = r
      BY <1>1, <1>2, <2>1, <2>7, <3>1, CaptureTypes
    <3>3. p = LaneTag(Max(f))
      BY <2>7 DEF Waiting
    <3>4. Max(f) \in 1 .. Len(d)
      BY <1>2, <2>1, <3>2
    <3> HIDE DEF f
    <3>5. p \in Allocated(d) /\ p \in Tags /\ Lane(d, p) = Max(f)
      BY <1>1, <1>2, <3>3, <3>4, LaneIs
    <3>6. p \notin Marked(B)
      BY <1>1, <1>2, <3>5, LaneIs, MarkedIs
    <3>7. InFlight(p)' /\ ~rob'[p].done /\ rob'[p].insn = d[Max(f)]
          /\ Age(p)' = count - n + Max(f) - 1
      BY <1>5, <1>6, <3>5, <3>6
    <3>8. Age(p)' < Age(t)'
      <4> HIDE DEF i
      <4> QED BY <1>1, <1>3, <2>1, <2>2, <3>2, <3>7
    <3> QED BY <2>2, <2>7, <3>2, <3>7, <3>8
  <2>8. CASE /\ r # 0 /\ rs'[t] = Waiting(rat[r].tag)
             /\ rat[r].busy /\ rat[r].tag \notin B /\ ~rob[rat[r].tag].done
    <3>1. p = rat[r].tag
      BY <2>8 DEF Waiting
    <3>2. r \in Regs
      BY <2>4, <2>8, InsnAssumption DEF Regs
    <3>3. p \in Tags /\ InFlight(p) /\ rob[p].insn.rd = r
      BY <2>8, <3>1, <3>2 DEF RInv, RenamingOK, RatNamesYoungest, Names, Producers
    <3>4. InFlight(p)' /\ ~rob'[p].done /\ rob'[p].insn = rob[p].insn
          /\ Age(p)' = Age(p) - n /\ Age(p) < count
      BY <1>7, <2>1, <2>8, <3>1, <3>3
    <3>5. Age(p)' < Age(t)'
      <4> HIDE DEF i, r
      <4> QED BY <1>1, <1>3, <1>4, <2>1, <2>2, <3>3, <3>4
    <3> QED BY <2>2, <2>8, <3>3, <3>4, <3>5
  <2> QED BY <2>6, <2>7, <2>8
<1>9. CASE t \notin Allocated(d)
  <2>1. rs'[t] = Snooped(B, t) /\ rs[t].busy /\ ~(miss /\ Age(t) > Age(br))
    BY <1>1, <1>9, StationAfter
  <2>2. rs'[t] = rs[t] /\ ~rs[t].ready /\ p = rs[t].tag /\ p \notin B
    BY <2>1 DEF Snooped, Holding
  <2>3. /\ InFlight(p) /\ Age(p) < Age(t) /\ ~rob[p].done
        /\ rob[p].insn.rd = rob[t].insn.src /\ rob[t].insn.src # 0
    BY <2>1, <2>2 DEF RInv, NoLostWakeup
  <2>4. InFlight(t)'
    BY <1>1, StationsKept
  <2>5. Stays(t, n, miss)
    BY <1>5, <1>9, <2>4
  <2>6. p \in Tags
    BY <2>3 DEF InFlight
  <2>7. miss => Age(p) <= Age(br)
    <3>1. miss => br \in Tags
      BY <1>2, ResolvedIs, <1>1 DEF Moves, Mispredict
    <3>2. miss => Age(br) \in Nat
      BY <1>4, <3>1
    <3> QED BY <1>4, <2>1, <2>3, <2>6, <3>2
  <2>8. InFlight(p)' /\ ~rob'[p].done /\ rob'[p].insn = rob[p].insn /\ Age(p)' = Age(p) - n
    BY <1>7, <2>2, <2>3, <2>6, <2>7
  <2>9. Age(t)' = Age(t) - n /\ rob'[t].insn = rob[t].insn
    BY <1>5, <1>6, <1>9, <2>5
  <2>10. Age(p)' < Age(t)'
    BY <1>3, <1>4, <2>3, <2>6, <2>8, <2>9
  <2> QED BY <2>3, <2>8, <2>9, <2>10
<1> QED BY <1>8, <1>9

\* What the decoder ensures is kept.
LEMMA NoRdKept ==
  ASSUME RInv, NEW B, NEW n, NEW d, NEW miss, Moves(B, n, d, miss),
         \A i \in 1 .. Len(d) : d[i].kind \in {"store", "branch", "ecall"} => d[i].rd = 0
  PROVE  NoRd'
<1>1. ASSUME NEW t \in Tags, rob'[t].insn.kind \in {"store", "branch", "ecall"}
      PROVE  rob'[t].insn.rd = 0
  <2>1. rob'[t].insn = IF t \in Allocated(d) THEN d[Lane(d, t)] ELSE rob[t].insn
    BY EntryAfter
  <2>2. CASE t \in Allocated(d)
    <3>1. Lane(d, t) \in 1 .. Len(d)
      BY <2>2, LaneIs DEF RInv, Moves
    <3> QED BY <1>1, <2>1, <2>2, <3>1
  <2>3. CASE t \notin Allocated(d)
    BY <1>1, <2>1, <2>3 DEF RInv, NoRd, Kind
  <2> QED BY <2>2, <2>3
<1> QED BY <1>1 DEF NoRd, Kind

\* A move that is no collision loses no wakeup.
LEMMA LostWakeupKept ==
  ASSUME RInv, NEW B, NEW n, NEW d, NEW miss, Moves(B, n, d, miss), torn => torn'
  PROVE  NoLostWakeup'
<1> SUFFICES ASSUME ~torn', NEW t \in Tags, rs'[t].busy, ~rs'[t].ready
             PROVE  /\ InFlight(rs[t].tag)' /\ Age(rs[t].tag)' < Age(t)' /\ ~rob'[rs'[t].tag].done
                    /\ rob'[rs'[t].tag].insn.rd = rob'[t].insn.src /\ rob'[t].insn.src # 0
  BY DEF NoLostWakeup
<1>1. PICK p : p = rs'[t].tag
  OBVIOUS
<1>2. /\ InFlight(p)' /\ Age(p)' < Age(t)' /\ ~rob'[p].done
      /\ rob'[p].insn.rd = rob'[t].insn.src /\ rob'[t].insn.src # 0
  BY <1>1, WakeupKept
<1>3. (InFlight(p)' <=> InFlight(rs[t].tag)') /\ Age(p)' = Age(rs[t].tag)'
  BY <1>1 DEF InFlight, Age
<1> QED BY <1>1, <1>2, <1>3

\* The renaming invariant holds at reset.
LEMMA InitRenaming == Init => RInv
<1> SUFFICES ASSUME Init PROVE RInv
  OBVIOUS
<1>1. WInv
  BY InitWindow
<1>2. \A t \in Tags : ~InFlight(t)
  <2>1. head \in Tags /\ count = 0
    BY <1>1 DEF WInv, TypeOK, Init
  <2> QED BY <2>1, Ages DEF InFlight
<1>3. \A r \in Regs : rat[r].busy = FALSE
  BY DEF Init, Unmapped
<1>4. RenamingOK
  BY <1>2, <1>3 DEF RenamingOK, RatNamesYoungest, CheckpointNamesOlder, Names, Producers, Init
<1>5. NoLostWakeup
  BY DEF NoLostWakeup, Init, Idle
<1>6. NoRd
  BY DEF NoRd, Init, Kind, NoInsn
<1> QED BY <1>1, <1>4, <1>5, <1>6 DEF RInv

\* Accepting a group preserves it.
LEMMA DispatchRenaming ==
  ASSUME RInv, NEW B \in Grants, NEW n \in Retires, Dispatch(B, n), WInv'
  PROVE  RInv'
<1>1. PICK g \in Groups :
        \E way \in Predictions(g[1]) : Accepts(g, way) /\ Accept(B, n, g, way)
  BY DEF Dispatch
<1>2. PICK way \in Predictions(g[1]) : Accepts(g, way) /\ Accept(B, n, g, way)
  BY <1>1
<1>3. PICK d : d = OnPath(g, way)
  OBVIOUS
<1>4. PICK miss : miss = FALSE
  OBVIOUS
<1>5. Moves(B, n, d, miss) /\ ~miss
  BY <1>2, <1>3, <1>4, DispatchMoves DEF RInv
<1>6. /\ d \in Seq(Fetched) /\ Len(d) = Len(g) /\ Len(g) \in Nat /\ Len(g) >= 1
      /\ \A i \in 1 .. Len(g) : d[i].kind = g[i].kind /\ d[i].rd = g[i].rd /\ g[i] \in Program
      /\ way # NoWay => g[1].kind \in {"branch", "jalr"}
  <2>1. pc_latched \in Paths
    BY DEF RInv, WInv, TypeOK
  <2> QED BY <1>3, <2>1, GroupIs, RenameAssumption
<1>7. /\ torn' = (torn \/ TornRestore(B, n))
      /\ rat' = Renamed(Cleared(rat, n), d)
      /\ cp' = IF way # NoWay THEN Cleared(rat, n) ELSE Cleared(cp, n)
      /\ spec_active' = (way # NoWay \/ (spec_active /\ ~Resolved(B)))
      /\ br' = IF g[1].kind \in BranchClass THEN tail ELSE IF Resolved(B) THEN NoTag ELSE br
      /\ g[1].kind \in BranchClass => br = NoTag
  BY <1>2, <1>3 DEF Accept, Edge, Accepts
<1>8. NoRd'
  <2>1. \A i \in 1 .. Len(d) : d[i].kind \in {"store", "branch", "ecall"} => d[i].rd = 0
    BY <1>6, RenameAssumption
  <2> QED BY <1>5, <2>1, NoRdKept
<1>9. NoLostWakeup'
  BY <1>5, <1>7, LostWakeupKept
<1>10. RenamingOK'
  <2> SUFFICES ASSUME ~torn'
               PROVE  /\ RatNamesYoungest'
                      /\ spec_active' /\ rob'[br'].insn.rd = 0 => CheckpointNamesOlder'
    BY DEF RenamingOK
  <2>1. ~torn
    BY <1>7
  <2>2. ASSUME NEW r \in Regs PROVE Names(rat, r, Depth)'
    BY <1>5, <1>7, <2>1, TableKept
  <2>3. ASSUME spec_active', rob'[br'].insn.rd = 0, NEW r \in Regs PROVE Names(cp, r, Age(br))'
    <3>1. Leads(d) <=> g[1].kind \in BranchClass
      BY <1>6 DEF Leads
    <3>2. CASE way # NoWay
      <4>1. Leads(d) /\ br' = tail
        BY <1>6, <1>7, <3>1, <3>2 DEF BranchClass
      <4>2. d[1].rd = 0
        <5>1. LaneTag(1) = tail /\ 1 \in 1 .. Len(d)
          <6>1. tail \in Tags
            BY DEF RInv, WInv, TypeOK
          <6> QED BY <1>6, <6>1, RenameAssumption DEF LaneTag, Plus, Tags
        <5>2. tail \in Allocated(d) /\ Lane(d, tail) = 1 /\ tail \in Tags
          BY <1>5, <5>1, LaneIs DEF Moves, RInv
        <5>3. rob'[tail].insn = d[1]
          BY <1>5, <5>2, EntryAfter
        <5> QED BY <2>3, <4>1, <5>3
      <4> QED BY <1>5, <1>7, <2>1, <3>2, <4>1, <4>2, CheckpointTaken
    <3>3. CASE way = NoWay
      <4>1. spec_active /\ ~Resolved(B)
        BY <1>7, <2>3, <3>3
      <4>2. br # NoTag /\ br \in Tags /\ InFlight(br)
        BY <4>1 DEF RInv, WInv, WindowOK, TypeOK
      <4>3. ~Leads(d) /\ br' = br /\ cp' = Cleared(cp, n)
        BY <1>7, <3>1, <3>3, <4>1, <4>2
      <4>4. rob[br].insn.rd = 0
        <5>1. br \notin Allocated(d)
          BY <1>5, <4>2, LaneIs DEF RInv, Moves
        <5>2. rob'[br].insn = rob[br].insn
          BY <1>5, <4>2, <5>1, EntryAfter
        <5> QED BY <2>3, <4>3, <5>2
      <4> QED BY <1>5, <2>1, <4>1, <4>3, <4>4, CheckpointKept
    <3> QED BY <3>2, <3>3
  <2> QED BY <2>2, <2>3 DEF RatNamesYoungest, CheckpointNamesOlder
<1> QED BY <1>8, <1>9, <1>10 DEF RInv

\* An edge without a dispatch preserves it.
LEMMA HoldRenaming ==
  ASSUME RInv, NEW B \in Grants, NEW n \in Retires, Hold(B, n), WInv'
  PROVE  RInv'
<1>1. PICK d : d = <<>>
  OBVIOUS
<1>2. PICK miss : miss = FALSE
  OBVIOUS
<1>3. Moves(B, n, d, miss) /\ ~miss
  BY <1>1, <1>2, HoldMoves DEF RInv
<1>4. Len(d) = 0 /\ DOMAIN d = {} /\ ~Leads(d)
  BY <1>1 DEF Leads
<1>5. /\ torn' = (torn \/ TornRestore(B, n)) /\ rat' = Cleared(rat, n) /\ cp' = Cleared(cp, n)
      /\ spec_active' = (spec_active /\ ~Resolved(B))
      /\ br' = IF Resolved(B) THEN NoTag ELSE br
  BY DEF Hold, Edge
<1>6. rat' = Renamed(Cleared(rat, n), d)
  <2>1. Cleared(rat, n) \in [Regs -> Mapping]
    BY TableTypes DEF RInv, WInv, TypeOK
  <2> QED BY <1>4, <1>5, <2>1 DEF Renamed
<1>7. NoRd'
  BY <1>3, <1>4, NoRdKept
<1>8. NoLostWakeup'
  BY <1>3, <1>5, LostWakeupKept
<1>9. RenamingOK'
  <2> SUFFICES ASSUME ~torn'
               PROVE  /\ RatNamesYoungest'
                      /\ spec_active' /\ rob'[br'].insn.rd = 0 => CheckpointNamesOlder'
    BY DEF RenamingOK
  <2>1. ~torn
    BY <1>5
  <2>2. ASSUME NEW r \in Regs PROVE Names(rat, r, Depth)'
    BY <1>3, <1>6, <2>1, TableKept
  <2>3. ASSUME spec_active', rob'[br'].insn.rd = 0, NEW r \in Regs PROVE Names(cp, r, Age(br))'
    <3>1. spec_active /\ ~Resolved(B) /\ br' = br
      BY <1>5, <2>3
    <3>2. br # NoTag /\ br \in Tags /\ InFlight(br)
      BY <3>1 DEF RInv, WInv, WindowOK, TypeOK
    <3>3. rob'[br].insn = rob[br].insn
      <4>1. br \notin Allocated(d)
        BY <1>3, <3>2, LaneIs DEF RInv, Moves
      <4> QED BY <1>3, <3>2, <4>1, EntryAfter
    <3> QED BY <1>3, <1>4, <1>5, <2>1, <2>3, <3>1, <3>3, CheckpointKept
  <2> QED BY <2>2, <2>3 DEF RatNamesYoungest, CheckpointNamesOlder
<1> QED BY <1>7, <1>8, <1>9 DEF RInv

\* A rollback preserves it.
LEMMA RollbackRenaming ==
  ASSUME RInv, NEW B \in Grants, NEW n \in Retires, Rollback(B, n), WInv'
  PROVE  RInv'
<1>1. PICK d : d = <<>>
  OBVIOUS
<1>2. PICK miss : miss = TRUE
  OBVIOUS
<1>3. Moves(B, n, d, miss)
  BY <1>1, <1>2, RollbackMoves DEF RInv
<1>4. Len(d) = 0
  BY <1>1
<1>5. /\ torn' = (torn \/ TornRestore(B, n)) /\ rat' = cp /\ spec_active' = FALSE
      /\ Mispredict(B)
  BY DEF Rollback, Edge
<1>6. \A t \in Tags : Stays(t, n, miss) <=> InFlight(t) /\ Age(t) >= n /\ Age(t) <= Age(br)
  BY <1>2 DEF Stays
<1>7. NoRd'
  BY <1>3, <1>4, NoRdKept
<1>8. NoLostWakeup'
  BY <1>3, <1>5, LostWakeupKept
<1>9. RenamingOK'
  <2> SUFFICES ASSUME ~torn' PROVE RatNamesYoungest'
    BY <1>5 DEF RenamingOK
  <2>1. ~torn /\ ~TornRestore(B, n)
    BY <1>5
  <2>2. ASSUME NEW r \in Regs PROVE Names(rat, r, Depth)'
    BY <1>1, <1>3, <1>5, <1>6, <2>1, TableRestored
  <2> QED BY <2>2 DEF RatNamesYoungest
<1> QED BY <1>7, <1>8, <1>9 DEF RInv

\* Every edge preserves the renaming invariant.
LEMMA NextRenaming == RInv /\ [Next]_vars => RInv'
<1> SUFFICES ASSUME RInv, [Next]_vars PROVE RInv'
  OBVIOUS
<1>1. WInv'
  BY NextWindow DEF RInv
<1>2. CASE Next
  BY <1>1, <1>2, DispatchRenaming, HoldRenaming, RollbackRenaming DEF Next, Step
<1>3. CASE UNCHANGED vars
  <2>1. /\ head' = head /\ count' = count /\ rob' = rob /\ rs' = rs /\ rat' = rat
        /\ cp' = cp /\ br' = br /\ spec_active' = spec_active /\ torn' = torn
    BY <1>3 DEF vars, ring, table, front
  <2>2. NoRd'
    BY <2>1 DEF RInv, NoRd, Kind
  <2>3. NoLostWakeup'
    BY <2>1 DEF RInv, NoLostWakeup, InFlight, Age
  <2>4. RatNamesYoungest' <=> RatNamesYoungest
    BY <2>1 DEF RatNamesYoungest, Names, Producers, InFlight, Age
  <2>5. CheckpointNamesOlder' <=> CheckpointNamesOlder
    BY <2>1 DEF CheckpointNamesOlder, Names, Producers, InFlight, Age
  <2>6. RenamingOK'
    BY <2>1, <2>4, <2>5 DEF RInv, RenamingOK
  <2> QED BY <1>1, <2>2, <2>3, <2>6 DEF RInv
<1> QED BY <1>2, <1>3

\* Until a torn rollback both tables map each register to the youngest writer
\* in flight: the one of now and the one as of the predicted branch.
THEOREM RenamingAlwaysOK == Spec => []RenamingOK
<1>1. RInv => RenamingOK
  BY DEF RInv
<1> QED BY <1>1, InitRenaming, NextRenaming, PTL DEF Spec

\* Until a torn rollback no operand waits for a broadcast that will not come.
THEOREM WakeupNeverLost == Spec => []NoLostWakeup
<1>1. RInv => NoLostWakeup
  BY DEF RInv
<1> QED BY <1>1, InitRenaming, NextRenaming, PTL DEF Spec
=============================================================================
