------------------------------ MODULE LsqProofs ------------------------------
(***************************************************************************)
(* For every number of threads, entries, slots and doublewords and every   *)
(* mix of instructions: the queue and the windows of the threads agree.    *)
(***************************************************************************)
EXTENDS LsqProperties, WellOrder

(***************************************************************************)
(* Rings, and extremes of sets of numbers.                                 *)
(***************************************************************************)

\* A step of at most Depth stays within the ring.
LEMMA PlusIs ==
  ASSUME NEW h \in Tags, NEW n \in 0 .. Depth
  PROVE  Plus(h, n) \in Tags
BY LsqAssumption DEF Plus, Tags

\* Ages count up from the head; each tag of a thread has its own, and the
\* tags at the head are reached by counting.
LEMMA AgesIs ==
  ASSUME NEW t \in Threads, head[t] \in Tags
  PROVE  /\ \A tag \in Tags : Age(t, tag) \in 0 .. Depth - 1 /\ Plus(head[t], Age(t, tag)) = tag
         /\ \A a, b \in Tags : Age(t, a) = Age(t, b) => a = b
         /\ \A k \in 0 .. Depth - 1 : Plus(head[t], k) \in Tags /\ Age(t, Plus(head[t], k)) = k
BY LsqAssumption DEF Age, Plus, Tags

\* When n retire, the others are n younger and the n come last.
LEMMA AgesAfter ==
  ASSUME NEW t \in Threads, head[t] \in Tags, NEW n \in 0 .. Depth,
         head'[t] = Plus(head[t], n), NEW tag \in Tags
  PROVE  /\ head'[t] \in Tags
         /\ Age(t, tag)' = IF Age(t, tag) >= n THEN Age(t, tag) - n
                           ELSE Age(t, tag) - n + Depth
BY LsqAssumption DEF Age, Plus, Tags

\* A lane's tag has the age of the lane.
LEMMA LaneAge ==
  ASSUME NEW t \in Threads, head[t] \in Tags, count[t] \in 0 .. Depth,
         NEW k \in 1 .. Depth - count[t]
  PROVE  LaneTag(t, k) \in Tags /\ Age(t, LaneTag(t, k)) = count[t] + k - 1
BY LsqAssumption DEF LaneTag, Age, Plus, Tags

\* Of numbers up to b, one is the greatest.
LEMMA MaxIs ==
  ASSUME NEW b \in Nat, NEW S \in SUBSET (0 .. b), S # {}
  PROVE  Max(S) \in S /\ \A i \in S : i <= Max(S)
<1>1. \E m \in S : \A i \in S : i <= m
  <2>1. S \in SUBSET Int /\ b \in Int /\ \A i \in S : i <= b
    OBVIOUS
  <2> QED BY <2>1, GreatestElement
<1>2. \E m \in S : \A i \in S : m >= i
  BY <1>1
<1>3. Max(S) \in S /\ \A i \in S : Max(S) >= i
  BY <1>2 DEF Max
<1> QED BY <1>3

\* Of numbers, one is the least.
LEMMA MinIs ==
  ASSUME NEW S \in SUBSET Nat, S # {}
  PROVE  Min(S) \in S /\ \A i \in S : Min(S) <= i
<1>1. \E m \in S : \A i \in S : m <= i
  BY LeastElement
<1> QED BY <1>1 DEF Min

(***************************************************************************)
(* The invariant that holds of every state, collisions or not: types, that *)
(* what is in use names a thread of the core, one unresolved branch a      *)
(* thread, and the L1 at work for the load or the store that is out.       *)
(***************************************************************************)
ThreadsOK ==
    /\ \A i \in Slots : slots[i].busy => slots[i].tid \in Threads
    /\ \A b \in Buffer : sbuf[b].valid => sbuf[b].tid \in Threads
    /\ l1.fsm \notin {"IDLE", "OTHER"} => l1.tid \in Threads

OneBranch == \A t \in Threads : \A a, b \in Unresolved(t) : a = b

PortOK ==
    /\ out.valid <=> l1.fsm \in {"READ", "DONE_R"}
    /\ drain.valid <=> l1.fsm \in {"WRITE", "DONE_W"}

PInv == TypeOK /\ ThreadsOK /\ OneBranch /\ PortOK

(***************************************************************************)
(* Retirement.                                                             *)
(***************************************************************************)

\* What one thread retires is in flight and finished.
LEMMA RetireCountIs ==
  ASSUME NEW t \in Threads, NEW ok, count[t] \in 0 .. Depth
  PROVE  RetireCount(t, ok) \in 0 .. Width /\ Retirable(t, RetireCount(t, ok), ok)
<1> DEFINE R == {n \in 0 .. Width : Retirable(t, n, ok)}
<1>1. Width \in Nat
  BY LsqAssumption
<1>2. 0 \in R
  <2>1. 0 .. 0 - 1 = {} /\ 0 <= count[t]
    BY LsqAssumption
  <2> QED BY <1>1, <2>1 DEF Retirable
<1>3. Max(R) \in R
  <2>1. R \in SUBSET (0 .. Width) /\ R # {}
    BY <1>2
  <2> HIDE DEF R
  <2> QED BY <1>1, <2>1, MaxIs
<1> QED BY <1>3 DEF RetireCount

\* What retires is the oldest entries, finished ones; among those of one
\* thread there is at most one store.
LEMMA RetiringIs ==
  ASSUME TypeOK, NEW n \in Retires, NEW t \in Threads
  PROVE  /\ n[t] \in 0 .. Width /\ n[t] \in 0 .. count[t] /\ n[t] \in 0 .. Depth
         /\ Retiring(t, n[t]) = {tag \in Tags : Age(t, tag) < n[t]}
         /\ \A tag \in Retiring(t, n[t]) : InFlight(t, tag) /\ rob[t][tag].done
         /\ \A a, b \in StoresIn(t, n[t]) : a = b
<1>1. head[t] \in Tags /\ count[t] \in 0 .. Depth
  BY DEF TypeOK
<1>2. PICK ok \in BOOLEAN : n[t] = RetireCount(t, ok)
  BY DEF Retires
<1>3. n[t] \in 0 .. Width /\ Retirable(t, n[t], ok)
  BY <1>1, <1>2, RetireCountIs
<1>4. n[t] \in 0 .. count[t] /\ n[t] \in 0 .. Depth /\ n[t] \in Nat /\ Depth \in Nat
  BY <1>1, <1>3, LsqAssumption DEF Retirable
<1>5. \A k \in 0 .. n[t] - 1 : Plus(head[t], k) \in Tags /\ Age(t, Plus(head[t], k)) = k
  BY <1>1, <1>4, AgesIs
<1>6. \A tag \in Tags : Age(t, tag) \in 0 .. Depth - 1 /\ Plus(head[t], Age(t, tag)) = tag
  BY <1>1, AgesIs
<1>7. Retiring(t, n[t]) = {tag \in Tags : Age(t, tag) < n[t]}
  <2>1. ASSUME NEW tag \in Retiring(t, n[t]) PROVE tag \in Tags /\ Age(t, tag) < n[t]
    BY <1>4, <1>5 DEF Retiring
  <2>2. ASSUME NEW tag \in Tags, Age(t, tag) < n[t] PROVE tag \in Retiring(t, n[t])
    <3>1. Age(t, tag) \in 0 .. n[t] - 1
      BY <1>4, <1>6, <2>2
    <3> QED BY <3>1, <1>6 DEF Retiring
  <2> QED BY <2>1, <2>2
<1>8. \A tag \in Retiring(t, n[t]) : rob[t][tag].done
  BY <1>3 DEF Retiring, Retirable, At
<1>9. \A tag \in Retiring(t, n[t]) : InFlight(t, tag)
  BY <1>1, <1>4, <1>6, <1>7 DEF InFlight
<1>10. ASSUME NEW a \in StoresIn(t, n[t]), NEW b \in StoresIn(t, n[t]) PROVE a = b
  <2>1. PICK i \in 0 .. n[t] - 1 : a = Plus(head[t], i) /\ At(t, i).insn.kind = "store"
    BY <1>10 DEF StoresIn, Retiring, At
  <2>2. PICK j \in 0 .. n[t] - 1 : b = Plus(head[t], j) /\ At(t, j).insn.kind = "store"
    BY <1>10 DEF StoresIn, Retiring, At
  <2>3. ~(i < j) /\ ~(j < i)
    <3>1. \A k \in 0 .. n[t] - 1 : At(t, k).insn.kind = "store" =>
            \A x \in 0 .. k - 1 : At(t, x).insn.kind # "store"
      BY <1>3 DEF Retirable
    <3> QED BY <2>1, <2>2, <3>1, <1>4
  <2> QED BY <2>1, <2>2, <2>3, <1>4
<1> QED BY <1>3, <1>4, <1>7, <1>8, <1>9, <1>10

(***************************************************************************)
(* One edge, with its choices: n retire, br happens to the branches, d is  *)
(* dispatched, the second port hits or not, the CDB grants or not.         *)
(***************************************************************************)
Edge(n, br, d, hit, grant) ==
  /\ n \in Retires /\ br \in Resolutions /\ d \in Dispatches(br)
  /\ OutNext(br) /\ SbufNext(n) /\ DrainNext /\ L1Next
  /\ WindowNext(n, br, d)
  /\ hit \in Asked(Port2Req) /\ grant \in Asked(PrimaryFire \/ hit)
  /\ torn' = (torn \/ Torn(n, br, grant))
  /\ RobNext(br, hit, grant, d)
  /\ SlotsNext(n, br, hit, grant, d)

\* A step of the system is such an edge.
LEMMA NextIs ==
  ASSUME Next
  PROVE  \E n, br, d, hit, grant : Edge(n, br, d, hit, grant)
<1>1. PICK n \in Retires, br \in Resolutions :
        /\ OutNext(br) /\ SbufNext(n) /\ DrainNext
        /\ \E d \in Dispatches(br) :
             /\ WindowNext(n, br, d)
             /\ \E hit \in Asked(Port2Req) : \E grant \in Asked(PrimaryFire \/ hit) :
                  /\ torn' = (torn \/ Torn(n, br, grant))
                  /\ RobNext(br, hit, grant, d)
                  /\ SlotsNext(n, br, hit, grant, d)
        /\ L1Next
  BY DEF Next
<1>2. PICK d \in Dispatches(br) :
        /\ WindowNext(n, br, d)
        /\ \E hit \in Asked(Port2Req) : \E grant \in Asked(PrimaryFire \/ hit) :
             /\ torn' = (torn \/ Torn(n, br, grant))
             /\ RobNext(br, hit, grant, d)
             /\ SlotsNext(n, br, hit, grant, d)
  BY <1>1
<1>3. PICK hit \in Asked(Port2Req) : \E grant \in Asked(PrimaryFire \/ hit) :
        /\ torn' = (torn \/ Torn(n, br, grant))
        /\ RobNext(br, hit, grant, d)
        /\ SlotsNext(n, br, hit, grant, d)
  BY <1>2
<1>4. PICK grant \in Asked(PrimaryFire \/ hit) :
        /\ torn' = (torn \/ Torn(n, br, grant))
        /\ RobNext(br, hit, grant, d)
        /\ SlotsNext(n, br, hit, grant, d)
  BY <1>3
<1>5. Edge(n, br, d, hit, grant)
  BY <1>1, <1>2, <1>3, <1>4 DEF Edge
<1> QED BY <1>5

\* What is dispatched fits, and no branch comes while one is unresolved.
LEMMA DispatchIs ==
  ASSUME TypeOK, NEW br, NEW d \in Dispatches(br)
  PROVE  /\ d.tid \in Threads /\ d.known \in BOOLEAN
         /\ Len(d.group) \in Nat /\ DOMAIN d.group = 1 .. Len(d.group)
         /\ \A k \in 1 .. Len(d.group) : d.group[k] \in Mix
         /\ Len(d.group) <= Depth - count[d.tid]
         /\ Len(d.group) > 0 => br[d.tid] # "wrong"
         /\ \A k \in 1 .. Len(d.group) : d.group[k].kind = "branch" =>
              k = 1 /\ Unresolved(d.tid) = {}
         /\ Len(d.group) > 0 => Cardinality(MemLanes(d.group)) <= Cardinality(Free)
<1> DEFINE none == [tid |-> CHOOSE t \in Threads : TRUE, group |-> <<>>, known |-> FALSE]
<1>1. CASE d = none
  <2>1. (CHOOSE t \in Threads : TRUE) \in Threads
    BY LsqAssumption
  <2>2. d.tid \in Threads /\ d.group = <<>> /\ d.known = FALSE
    BY <1>1, <2>1
  <2>3. count[d.tid] \in 0 .. Depth /\ Depth \in Nat
    BY <2>2, LsqAssumption DEF TypeOK
  <2>4. Len(d.group) = 0 /\ DOMAIN d.group = 1 .. Len(d.group)
    BY <2>2
  <2>5. 1 .. Len(d.group) = {} /\ ~(Len(d.group) > 0) /\ Len(d.group) <= Depth - count[d.tid]
    BY <2>3, <2>4
  <2>6. Len(d.group) \in Nat /\ d.known \in BOOLEAN
    BY <2>2, <2>4
  <2> QED BY <2>2, <2>4, <2>5, <2>6, Zenon
<1>2. CASE d # none
  <2>1. /\ d \in [tid : Threads, group : Groups, known : BOOLEAN]
        /\ br[d.tid] # "wrong" /\ Accepts(d.tid, d.group)
    BY <1>2 DEF Dispatches
  <2>2. d.group \in Groups
    BY <2>1
  <2>3. PICK m \in 1 .. Width : d.group \in [1 .. m -> Mix]
    BY <2>2 DEF Groups
  <2>4. m \in Nat /\ Width \in Nat /\ d.group \in Seq(Mix)
    BY <2>3, LsqAssumption
  <2>5. Len(d.group) = m /\ DOMAIN d.group = 1 .. m
    BY <2>3, <2>4
  <2>6. \A k \in 2 .. Len(d.group) : d.group[k].kind # "branch"
    BY <2>2 DEF Groups
  <2>7. count[d.tid] \in 0 .. Depth /\ Depth \in Nat
    BY <2>1, LsqAssumption DEF TypeOK
  <2> QED BY <2>1, <2>3, <2>4, <2>5, <2>6, <2>7 DEF Accepts
<1> QED BY <1>1, <1>2

\* Of an entry in flight: it neither retires nor is squashed at this edge.
Stays(n, br, t, tag) == InFlight(t, tag) /\ Age(t, tag) >= n[t] /\ ~Younger(br, t, tag)

\* Lanes and the tags they take correspond, and those tags are not in flight.
LEMMA LanesAre ==
  ASSUME TypeOK, NEW br, NEW d \in Dispatches(br), NEW t \in Threads, NEW tag \in Tags
  PROVE  /\ \A k \in LanesAt(d, t, tag) :
              /\ t = d.tid /\ k \in 1 .. Len(d.group) /\ LaneTag(t, k) = tag
              /\ LanesAt(d, t, tag) = {k} /\ Max(LanesAt(d, t, tag)) = k
              /\ Age(t, tag) = count[t] + k - 1 /\ ~InFlight(t, tag)
         /\ t = d.tid => \A k \in 1 .. Len(d.group) : LaneTag(t, k) = tag => k \in LanesAt(d, t, tag)
         /\ LanesAt(d, t, tag) # {} <=>
              t = d.tid /\ Age(t, tag) >= count[t] /\ Age(t, tag) < count[t] + Len(d.group)
<1>1. /\ Len(d.group) \in Nat /\ DOMAIN d.group = 1 .. Len(d.group)
      /\ Len(d.group) <= Depth - count[d.tid]
  BY DispatchIs
<1>2. head[t] \in Tags /\ count[t] \in 0 .. Depth /\ Depth \in Nat
  BY LsqAssumption DEF TypeOK
<1>3. t = d.tid => \A k \in 1 .. Len(d.group) :
        LaneTag(t, k) \in Tags /\ Age(t, LaneTag(t, k)) = count[t] + k - 1
  <2> SUFFICES ASSUME t = d.tid, NEW k \in 1 .. Len(d.group)
               PROVE  LaneTag(t, k) \in Tags /\ Age(t, LaneTag(t, k)) = count[t] + k - 1
    OBVIOUS
  <2>1. k \in 1 .. Depth - count[t]
    BY <1>1, <1>2
  <2> QED BY <1>2, <2>1, LaneAge
<1>4. \A k : k \in LanesAt(d, t, tag) <=> t = d.tid /\ k \in 1 .. Len(d.group) /\ LaneTag(t, k) = tag
  BY <1>1 DEF LanesAt
<1>5. ASSUME NEW k \in LanesAt(d, t, tag)
      PROVE  /\ LanesAt(d, t, tag) = {k} /\ Max(LanesAt(d, t, tag)) = k
             /\ Age(t, tag) = count[t] + k - 1 /\ ~InFlight(t, tag)
  <2>1. \A j \in LanesAt(d, t, tag) : j = k
    BY <1>1, <1>2, <1>3, <1>4, <1>5
  <2>2. LanesAt(d, t, tag) = {k} /\ k \in Nat
    BY <1>1, <1>4, <1>5, <2>1
  <2>3. Max({k}) = k
    BY <2>2 DEF Max
  <2> QED BY <1>1, <1>2, <1>3, <1>4, <1>5, <2>2, <2>3 DEF InFlight
<1>6. ASSUME t = d.tid, Age(t, tag) >= count[t], Age(t, tag) < count[t] + Len(d.group)
      PROVE  LanesAt(d, t, tag) # {}
  <2>1. Age(t, tag) \in 0 .. Depth - 1
    BY <1>2, AgesIs
  <2>2. PICK k \in 1 .. Len(d.group) : k = Age(t, tag) - count[t] + 1
    BY <1>1, <1>2, <1>6, <2>1
  <2>3. LaneTag(t, k) \in Tags /\ Age(t, LaneTag(t, k)) = Age(t, tag)
    BY <1>2, <1>3, <1>6, <2>1, <2>2
  <2>4. LaneTag(t, k) = tag
    BY <1>2, <2>3, AgesIs
  <2> QED BY <1>4, <1>6, <2>4
<1>7. LanesAt(d, t, tag) # {} => t = d.tid /\ Age(t, tag) >= count[t] /\ Age(t, tag) < count[t] + Len(d.group)
  BY <1>1, <1>2, <1>4, <1>5
<1> QED BY <1>4, <1>5, <1>6, <1>7

\* After the edge are in flight the new entries and, of the old ones, those
\* that stay, younger by what retired.  An unfinished entry does not retire.
LEMMA WindowAfter ==
  ASSUME PInv, NEW n, NEW br, NEW d, NEW hit, NEW grant, Edge(n, br, d, hit, grant),
         NEW t \in Threads
  PROVE  /\ head'[t] \in Tags /\ count'[t] \in 0 .. Depth
         /\ \A tag \in Tags : InFlight(t, tag)' <=> LanesAt(d, t, tag) # {} \/ Stays(n, br, t, tag)
         /\ \A tag \in Tags : Stays(n, br, t, tag) => Age(t, tag)' = Age(t, tag) - n[t]
         /\ \A tag \in Tags : LanesAt(d, t, tag) # {} => Age(t, tag)' >= count[t] - n[t]
         /\ \A tag \in Tags : InFlight(t, tag) /\ ~rob[t][tag].done => Age(t, tag) >= n[t]
<1> DEFINE len == IF t = d.tid THEN Len(d.group) ELSE 0
           wrong == br[t] = "wrong"
<1>1. head[t] \in Tags /\ count[t] \in 0 .. Depth /\ Depth \in Nat \ {0} /\ TypeOK
  BY LsqAssumption DEF PInv, TypeOK
<1>2. n \in Retires /\ br \in Resolutions /\ d \in Dispatches(br) /\ WindowNext(n, br, d)
  BY DEF Edge
<1>3. /\ n[t] \in 0 .. count[t] /\ n[t] \in 0 .. Depth
      /\ \A tag \in Tags : Age(t, tag) < n[t] => rob[t][tag].done
  BY <1>1, <1>2, RetiringIs
<1>4. \A tag \in Tags : Age(t, tag) \in 0 .. Depth - 1
  BY <1>1, AgesIs
<1>5. len \in Nat /\ len <= Depth - count[t] /\ (len > 0 => ~wrong)
  BY <1>1, <1>2, DispatchIs
<1>6. ASSUME wrong
      PROVE  \E b \in Tags : /\ b \in Unresolved(t) /\ Age(t, b) \in n[t] .. count[t] - 1
                             /\ (CHOOSE c \in Unresolved(t) : TRUE) = b
                             /\ \A tag \in Tags : Younger(br, t, tag) <=> Age(t, tag) > Age(t, b)
  <2>1. Unresolved(t) # {}
    BY <1>2, <1>6 DEF Resolutions
  <2>2. PICK b \in Unresolved(t) : b = CHOOSE c \in Unresolved(t) : TRUE
    BY <2>1
  <2>3. b \in Tags /\ InFlight(t, b) /\ ~rob[t][b].done
    BY <2>2 DEF Unresolved
  <2>4. Age(t, b) \in n[t] .. count[t] - 1
    BY <1>1, <1>3, <1>4, <2>3 DEF InFlight
  <2>5. \A c \in Unresolved(t) : c = b
    BY <2>2 DEF PInv, OneBranch
  <2>6. \A tag \in Tags : Younger(br, t, tag) <=> Age(t, tag) > Age(t, b)
    BY <1>6, <2>2, <2>5 DEF Younger
  <2> QED BY <2>2, <2>3, <2>4, <2>6
<1>7. \E kept \in n[t] .. count[t] :
        /\ count'[t] = kept + len - n[t]
        /\ \A tag \in Tags : InFlight(t, tag) /\ ~Younger(br, t, tag) <=> Age(t, tag) < kept
        /\ wrong \/ kept = count[t]
  <2>1. CASE wrong
    <3>1. PICK b \in Tags : /\ b \in Unresolved(t) /\ Age(t, b) \in n[t] .. count[t] - 1
                            /\ (CHOOSE c \in Unresolved(t) : TRUE) = b
                            /\ \A tag \in Tags : Younger(br, t, tag) <=> Age(t, tag) > Age(t, b)
      BY <1>6, <2>1
    <3>2. count'[t] = Age(t, b) + 1 - n[t] /\ len = 0
      BY <1>2, <1>5, <2>1, <3>1 DEF WindowNext
    <3>3. Age(t, b) + 1 \in n[t] .. count[t] /\ count'[t] = (Age(t, b) + 1) + len - n[t]
      BY <1>1, <1>3, <3>1, <3>2
    <3>4. \A tag \in Tags : InFlight(t, tag) /\ ~Younger(br, t, tag) <=> Age(t, tag) < Age(t, b) + 1
      BY <1>1, <1>3, <1>4, <3>1 DEF InFlight
    <3> QED BY <2>1, <3>3, <3>4
  <2>2. CASE ~wrong
    <3>1. count'[t] = count[t] + len - n[t]
      BY <1>2, <2>2 DEF WindowNext
    <3>2. \A tag \in Tags : ~Younger(br, t, tag)
      BY <2>2 DEF Younger
    <3>3. count[t] \in n[t] .. count[t]
      BY <1>1, <1>3
    <3> QED BY <3>1, <3>2, <3>3 DEF InFlight
  <2> QED BY <2>1, <2>2
<1>8. PICK kept \in n[t] .. count[t] :
        /\ count'[t] = kept + len - n[t]
        /\ \A tag \in Tags : InFlight(t, tag) /\ ~Younger(br, t, tag) <=> Age(t, tag) < kept
        /\ wrong \/ kept = count[t]
  BY <1>7
<1>9. head'[t] = Plus(head[t], n[t])
  BY <1>2 DEF WindowNext
<1>10. \A tag \in Tags : /\ head'[t] \in Tags
                         /\ Age(t, tag)' = IF Age(t, tag) >= n[t] THEN Age(t, tag) - n[t]
                                           ELSE Age(t, tag) - n[t] + Depth
  <2> SUFFICES ASSUME NEW tag \in Tags
               PROVE  /\ head'[t] \in Tags
                      /\ Age(t, tag)' = IF Age(t, tag) >= n[t] THEN Age(t, tag) - n[t]
                                        ELSE Age(t, tag) - n[t] + Depth
    OBVIOUS
  <2>1. PICK m \in 0 .. Depth : m = n[t]
    BY <1>3
  <2> QED BY <1>1, <1>9, <2>1, AgesAfter
<1>11. \A tag \in Tags : LanesAt(d, t, tag) # {} <=>
         Age(t, tag) >= count[t] /\ Age(t, tag) < count[t] + len
  BY <1>1, <1>2, <1>4, LanesAre
<1> HIDE DEF len, wrong
<1>12. ASSUME NEW tag \in Tags
       PROVE  InFlight(t, tag)' <=> LanesAt(d, t, tag) # {} \/ Stays(n, br, t, tag)
  <2>1. InFlight(t, tag)' <=> Age(t, tag)' < count'[t]
    BY DEF InFlight
  <2>2. Stays(n, br, t, tag) <=> Age(t, tag) < kept /\ Age(t, tag) >= n[t]
    BY <1>8 DEF Stays
  <2>3. len = 0 \/ kept = count[t]
    BY <1>5, <1>8
  <2> QED BY <1>1, <1>3, <1>4, <1>5, <1>8, <1>10, <1>11, <2>1, <2>2, <2>3
<1>13. \A tag \in Tags : Stays(n, br, t, tag) => Age(t, tag)' = Age(t, tag) - n[t]
  BY <1>10 DEF Stays
<1>14. \A tag \in Tags : LanesAt(d, t, tag) # {} => Age(t, tag)' >= count[t] - n[t]
  BY <1>1, <1>3, <1>4, <1>10, <1>11
<1>15. head'[t] \in Tags /\ count'[t] \in 0 .. Depth
  <2>1. head'[t] \in Tags
    BY <1>1, <1>10
  <2> QED BY <1>1, <1>3, <1>5, <1>8, <2>1
<1>16. \A tag \in Tags : InFlight(t, tag) /\ ~rob[t][tag].done => Age(t, tag) >= n[t]
  BY <1>1, <1>3, <1>4
<1> QED BY <1>12, <1>13, <1>14, <1>15, <1>16

(***************************************************************************)
(* The slots of a group.                                                   *)
(***************************************************************************)

\* A finite set of numbers has an element of each rank.
LEMMA RanksAre ==
  ASSUME NEW b \in Nat, NEW F \in SUBSET (0 .. b), NEW r \in Nat, r < Cardinality(F)
  PROVE  \E i \in F : Cardinality({f \in F : f < i}) = r
<1> DEFINE Below(i) == {f \in F : f < i}
           Low == {i \in F : Cardinality(Below(i)) <= r}
<1>0. F \in SUBSET Nat /\ (\A f \in F : f \in Int) /\ (\A f \in F : f <= b) /\ b \in Int
  OBVIOUS
<1>1. IsFiniteSet(F) /\ Cardinality(F) \in Nat
  <2>1. IsFiniteSet(0 .. b)
    BY FS_Interval
  <2> QED BY <2>1, FS_Subset, FS_CardinalityType
<1>2. \A i \in F : IsFiniteSet(Below(i)) /\ Cardinality(Below(i)) \in Nat
  <2> SUFFICES ASSUME NEW i \in F
               PROVE  IsFiniteSet(Below(i)) /\ Cardinality(Below(i)) \in Nat
    OBVIOUS
  <2>1. Below(i) \subseteq F
    OBVIOUS
  <2> QED BY <1>1, <2>1, FS_Subset, FS_CardinalityType
<1>3. \A i, j \in F : i < j /\ (\A f \in F : ~(i < f /\ f < j)) =>
        Cardinality(Below(j)) = Cardinality(Below(i)) + 1
  <2> SUFFICES ASSUME NEW i \in F, NEW j \in F, i < j, \A f \in F : ~(i < f /\ f < j)
               PROVE  Cardinality(Below(j)) = Cardinality(Below(i)) + 1
    OBVIOUS
  <2>1. Below(j) = Below(i) \cup {i} /\ i \notin Below(i)
    <3>1. \A x \in F : (x < j <=> x < i \/ x = i) /\ ~(i < i)
      BY <1>0
    <3> QED BY <3>1, Zenon
  <2> QED BY <1>2, <2>1, FS_AddElement
<1>4. Low # {}
  <2>1. F # {}
    BY FS_EmptySet
  <2>2. PICK m \in F : \A f \in F : m <= f
    BY <1>0, <2>1, LeastElement
  <2>3. Below(m) = {}
    <3>1. \A x \in F : ~(x < m)
      BY <1>0, <2>2
    <3> QED BY <3>1, Zenon
  <2>4. Cardinality(Below(m)) = 0
    BY <2>3, FS_EmptySet
  <2> QED BY <2>2, <2>4
<1>5. PICK i \in Low : \A l \in Low : l <= i
  <2>1. Low \in SUBSET Int /\ b \in Int /\ \A l \in Low : l <= b
    BY <1>0, Zenon
  <2> HIDE DEF Low
  <2> QED BY <1>4, <2>1, GreatestElement
<1>6. ASSUME Cardinality(Below(i)) # r PROVE FALSE
  <2>1. Cardinality(Below(i)) + 1 <= r /\ i \in F
    BY <1>2, <1>6
  <2>2. {f \in F : i < f} # {}
    <3> SUFFICES ASSUME {f \in F : i < f} = {} PROVE FALSE
      OBVIOUS
    <3>1. F = Below(i) \cup {i} /\ i \notin Below(i)
      <4>1. \A x \in F : ~(i < x)
        OBVIOUS
      <4>2. \A x \in F : (x < i \/ x = i) /\ ~(i < i)
        BY <1>0, <2>1, <4>1
      <4> QED BY <2>1, <4>2, Zenon
    <3>2. Cardinality(F) = Cardinality(Below(i)) + 1
      BY <1>2, <2>1, <3>1, FS_AddElement
    <3> QED BY <1>1, <2>1, <3>2
  <2>3. PICK j \in {f \in F : i < f} : \A f \in {e \in F : i < e} : j <= f
    <3>1. {f \in F : i < f} \in SUBSET Nat
      BY <1>0
    <3> QED BY <2>2, <3>1, LeastElement
  <2>4. j \in F /\ i < j /\ \A f \in F : ~(i < f /\ f < j)
    BY <1>0, <2>3
  <2>5. Cardinality(Below(j)) = Cardinality(Below(i)) + 1
    BY <1>3, <2>1, <2>4
  <2>6. j \in Low
    BY <2>1, <2>4, <2>5
  <2> QED BY <1>5, <2>1, <2>4, <2>6
<1> QED BY <1>6

\* Elements of a finite set of numbers that differ have ranks that differ,
\* all below the number of elements.
LEMMA RanksDiffer ==
  ASSUME NEW b \in Nat, NEW F \in SUBSET (0 .. b)
  PROVE  /\ \A i \in F : /\ Cardinality({f \in F : f < i}) \in Nat
                         /\ Cardinality({f \in F : f < i}) < Cardinality(F)
         /\ \A i, j \in F : Cardinality({f \in F : f < i}) = Cardinality({f \in F : f < j}) => i = j
<1> DEFINE Below(i) == {f \in F : f < i}
<1>0. F \in SUBSET Nat /\ (\A f \in F : f \in Int) /\ (\A f \in F : f <= b) /\ b \in Int
  OBVIOUS
<1>1. IsFiniteSet(F) /\ Cardinality(F) \in Nat
  <2>1. IsFiniteSet(0 .. b)
    BY FS_Interval
  <2> QED BY <2>1, FS_Subset, FS_CardinalityType
<1>2. ASSUME NEW i \in F
      PROVE  /\ IsFiniteSet(Below(i)) /\ Cardinality(Below(i)) \in Nat
             /\ Cardinality(Below(i)) < Cardinality(F)
  <2>1. Below(i) \subseteq F /\ Below(i) # F
    OBVIOUS
  <2>2. IsFiniteSet(Below(i)) /\ Cardinality(Below(i)) \in Nat
    BY <1>1, <2>1, FS_Subset, FS_CardinalityType
  <2>3. Cardinality(Below(i)) <= Cardinality(F) /\ Cardinality(Below(i)) # Cardinality(F)
    BY <1>1, <2>1, FS_Subset
  <2> QED BY <1>1, <2>2, <2>3
<1>3. ASSUME NEW i \in F, NEW j \in F, i < j
      PROVE  Cardinality(Below(i)) # Cardinality(Below(j))
  <2>1. Below(i) \subseteq Below(j) /\ i \in Below(j) /\ i \notin Below(i)
    <3>1. (\A x \in F : x < i => x < j) /\ ~(i < i)
      BY <1>0, <1>3
    <3> QED BY <1>3, <3>1, Zenon
  <2>2. Below(i) # Below(j)
    BY <2>1
  <2> QED BY <1>2, <2>1, <2>2, FS_Subset
<1>4. \A i, j \in F : Cardinality(Below(i)) = Cardinality(Below(j)) => i = j
  <2> SUFFICES ASSUME NEW i \in F, NEW j \in F, Cardinality(Below(i)) = Cardinality(Below(j))
               PROVE  i = j
    OBVIOUS
  <2>1. ~(i < j) /\ ~(j < i)
    BY <1>3
  <2>2. i \in Nat /\ j \in Nat
    OBVIOUS
  <2> QED BY <2>1, <2>2
<1> QED BY <1>2, <1>4

\* Each memory instruction of a group gets a free slot of its own.
LEMMA SlotForIs ==
  ASSUME TypeOK, NEW br, NEW d \in Dispatches(br)
  PROVE  /\ \A k \in MemLanes(d.group) : SlotFor(d.group, k) \in Free
         /\ \A k, l \in MemLanes(d.group) : SlotFor(d.group, k) = SlotFor(d.group, l) => k = l
<1> DEFINE M == MemLanes(d.group)
           Rank(k) == Cardinality({j \in M : j < k})
<1>1. /\ Len(d.group) \in Nat /\ DOMAIN d.group = 1 .. Len(d.group)
      /\ Len(d.group) > 0 => Cardinality(M) <= Cardinality(Free)
  BY DispatchIs
<1>2. M \in SUBSET (0 .. Len(d.group)) /\ (M # {} => Len(d.group) > 0)
  BY <1>1 DEF MemLanes
<1>3. Free \in SUBSET (0 .. NSlots) /\ NSlots \in Nat
  BY LsqAssumption DEF Free, Slots
<1>4. \A k \in M : Rank(k) \in Nat /\ Rank(k) < Cardinality(M)
  BY <1>1, <1>2, RanksDiffer
<1>5. \A k, l \in M : Rank(k) = Rank(l) => k = l
  BY <1>1, <1>2, RanksDiffer
<1>6. Cardinality(M) \in Nat /\ Cardinality(Free) \in Nat
  <2>1. IsFiniteSet(0 .. Len(d.group)) /\ IsFiniteSet(0 .. NSlots)
    BY <1>1, <1>3, FS_Interval
  <2> QED BY <1>2, <1>3, <2>1, FS_Subset, FS_CardinalityType
<1>7. ASSUME NEW k \in M
      PROVE  /\ SlotFor(d.group, k) \in Free
             /\ Cardinality({f \in Free : f < SlotFor(d.group, k)}) = Rank(k)
  <2>1. PICK r \in Nat : r = Rank(k)
    BY <1>4
  <2>2. r < Cardinality(Free)
    BY <1>1, <1>2, <1>4, <1>6, <2>1
  <2>3. \E i \in Free : Cardinality({f \in Free : f < i}) = r
    BY <1>3, <2>2, RanksAre
  <2>4. \E i \in Free : Cardinality({f \in Free : f < i}) = Rank(k)
    BY <2>1, <2>3
  <2>5. SlotFor(d.group, k) = CHOOSE i \in Free : Cardinality({f \in Free : f < i}) = Rank(k)
    BY DEF SlotFor
  <2> HIDE DEF M, Rank
  <2> QED BY <2>4, <2>5, Zenon
<1> QED BY <1>5, <1>7

\* Some lane of d takes slot i.
Taken(d, i) == \E l \in MemLanes(d.group) : SlotFor(d.group, l) = i

Slot == [busy : BOOLEAN, tid : {0, 1}, tag : Tags, base : BOOLEAN, data : BOOLEAN, insn : Insns]

\* After the edge a slot is empty, or filled by a lane, or holds what it
\* held, with more operands.
LEMMA SlotsAfter ==
  ASSUME TypeOK, NEW n, NEW br, NEW d, NEW hit, NEW grant, Edge(n, br, d, hit, grant)
  PROVE  /\ slots' \in [Slots -> Slot]
         /\ \A i \in Slots : i \in Vacated(n, br, hit, grant) => slots'[i] = Empty
         /\ \A i \in Slots : i \notin Vacated(n, br, hit, grant) /\ Taken(d, i) =>
              \E l \in MemLanes(d.group) : SlotFor(d.group, l) = i /\ slots'[i] = Filled(d, l)
         /\ \A i \in Slots : i \notin Vacated(n, br, hit, grant) /\ ~Taken(d, i) =>
              /\ slots'[i].busy = slots[i].busy /\ slots'[i].tid = slots[i].tid
              /\ slots'[i].tag = slots[i].tag /\ slots'[i].insn = slots[i].insn
<1> DEFINE gone == Vacated(n, br, hit, grant)
           into == [l \in MemLanes(d.group) |-> SlotFor(d.group, l)]
<1>1. PICK k \in SUBSET {p \in Pending : p[1] \notin gone} :
        slots' = [i \in Slots |->
                IF i \in gone THEN Empty
                ELSE IF i \in Range(into)
                THEN Filled(d, CHOOSE l \in DOMAIN into : into[l] = i)
                ELSE [slots[i] EXCEPT !.base = @ \/ <<i, "base">> \in k,
                                      !.data = @ \/ <<i, "data">> \in k]]
  BY DEF Edge, SlotsNext
<1>2. \A i : i \in Range(into) <=> Taken(d, i)
  BY DEF Range, Taken
<1>3. /\ d.tid \in Threads /\ d.known \in BOOLEAN
      /\ Len(d.group) \in Nat /\ DOMAIN d.group = 1 .. Len(d.group)
      /\ \A l \in 1 .. Len(d.group) : d.group[l] \in Mix
      /\ Len(d.group) <= Depth - count[d.tid]
  <2>1. d \in Dispatches(br)
    BY DEF Edge
  <2> QED BY <2>1, DispatchIs
<1>4. \A l \in MemLanes(d.group) : Filled(d, l) \in Slot
  <2> SUFFICES ASSUME NEW l \in MemLanes(d.group) PROVE Filled(d, l) \in Slot
    OBVIOUS
  <2>1. l \in 1 .. Len(d.group)
    BY <1>3 DEF MemLanes
  <2>2. head[d.tid] \in Tags /\ count[d.tid] \in 0 .. Depth /\ Depth \in Nat
    BY <1>3, LsqAssumption DEF TypeOK
  <2>3. l \in 1 .. Depth - count[d.tid]
    BY <1>3, <2>1, <2>2
  <2>4. LaneTag(d.tid, l) \in Tags
    BY <1>3, <2>2, <2>3, LaneAge
  <2>5. d.group[l] \in Insns /\ d.tid \in {0, 1}
    BY <1>3, <2>1, LsqAssumption DEF Insns
  <2>6. (d.known \/ d.group[l].kind = "load") \in BOOLEAN
    OBVIOUS
  <2> QED BY <1>3, <2>4, <2>5, <2>6 DEF Filled, Slot
<1>5. Empty \in Slot
  <2>1. 0 \in Tags /\ 0 \in {0, 1} /\ Branch \in Insns
    BY LsqAssumption DEF Tags, Insns
  <2> QED BY <2>1 DEF Empty, Slot
<1>6. slots \in [Slots -> Slot]
  BY DEF TypeOK, Slot
<1>7. ASSUME NEW i \in Slots, i \notin gone, Taken(d, i)
      PROVE  \E l \in MemLanes(d.group) : SlotFor(d.group, l) = i /\ slots'[i] = Filled(d, l)
  <2>1. \E l \in DOMAIN into : into[l] = i
    BY <1>7 DEF Taken
  <2>2. PICK l \in DOMAIN into : l = CHOOSE m \in DOMAIN into : into[m] = i
    BY <2>1
  <2>3. into[l] = i
    BY <2>1, <2>2
  <2>4. slots'[i] = Filled(d, l)
    BY <1>1, <1>2, <1>7, <2>2
  <2> QED BY <2>2, <2>3, <2>4
<1>8. ASSUME NEW i \in Slots, i \notin gone, ~Taken(d, i)
      PROVE  /\ slots'[i].busy = slots[i].busy /\ slots'[i].tid = slots[i].tid
             /\ slots'[i].tag = slots[i].tag /\ slots'[i].insn = slots[i].insn
             /\ slots'[i] \in Slot
  <2>1. PICK s \in Slot : s = slots[i]
    BY <1>6
  <2>2. PICK p \in BOOLEAN, q \in BOOLEAN :
          /\ p = (s.base \/ <<i, "base">> \in k) /\ q = (s.data \/ <<i, "data">> \in k)
    OBVIOUS
  <2>3. slots'[i] = [s EXCEPT !.base = s.base \/ <<i, "base">> \in k,
                              !.data = s.data \/ <<i, "data">> \in k]
    BY <1>1, <1>2, <1>8, <2>1
  <2>4. slots'[i] = [s EXCEPT !.base = p, !.data = q]
    BY <2>2, <2>3
  <2> QED BY <2>1, <2>4 DEF Slot
<1>9. \A i \in Slots : i \in gone => slots'[i] = Empty
  BY <1>1
<1>10. slots' \in [Slots -> Slot]
  <2>1. slots' = [i \in Slots |-> slots'[i]]
    <3> DEFINE After(i) == IF i \in gone THEN Empty
                           ELSE IF i \in Range(into)
                           THEN Filled(d, CHOOSE l \in DOMAIN into : into[l] = i)
                           ELSE [slots[i] EXCEPT !.base = @ \/ <<i, "base">> \in k,
                                                 !.data = @ \/ <<i, "data">> \in k]
    <3>1. slots' = [i \in Slots |-> After(i)]
      BY <1>1, Zenon
    <3> HIDE DEF After
    <3> QED BY <3>1
  <2>2. \A i \in Slots : slots'[i] \in Slot
    <3> HIDE DEF gone
    <3> QED BY <1>4, <1>5, <1>7, <1>8, <1>9
  <2> QED BY <2>1, <2>2
<1> QED BY <1>7, <1>8, <1>9, <1>10

(***************************************************************************)
(* The ports.                                                              *)
(***************************************************************************)
Fsms == {"IDLE", "READ", "WRITE", "OTHER", "DONE_R", "DONE_W"}

\* What an instruction of the programs is made of.
LEMMA InsnIs ==
  ASSUME NEW i \in Insns
  PROVE  /\ i.kind \in {"branch", "load", "store"}
         /\ i.dword \in Dwords /\ i.part \in Parts /\ i.data \in Data
         /\ i.kind # "branch" => i \in Mix
<1>1. i \in {Branch} \cup Loads \cup Stores /\ (i = Branch \/ i \in Mix)
  BY MixAssumption DEF Insns
<1>2. 0 \in Dwords /\ 0 \in Data /\ "lo" \in Parts
  BY LsqAssumption DEF Dwords, Data, Parts
<1>3. CASE i = Branch
  BY <1>2, <1>3 DEF Branch, Insn
<1>4. CASE i \in Loads
  BY <1>1, <1>2, <1>4 DEF Loads, Insn, Branch
<1>5. CASE i \in Stores
  BY <1>1, <1>2, <1>5 DEF Stores, Insn, Branch
<1> QED BY <1>1, <1>3, <1>4, <1>5

\* Reading and writing memory.
LEMMA MemoryIs ==
  ASSUME NEW m \in [Dwords -> [Halves -> Data]], NEW i \in Insns
  PROVE  /\ ReadOf(m, i) \in [Halves -> Data]
         /\ \A b \in Covers(i.part) : b \in Halves /\ ReadOf(m, i)[b] = m[i.dword][b]
         /\ Written(m, i) \in [Dwords -> [Halves -> Data]]
         /\ \A x \in Dwords, b \in Halves :
              /\ x = i.dword /\ b \in Covers(i.part) => Written(m, i)[x][b] = i.data
              /\ ~(x = i.dword /\ b \in Covers(i.part)) => Written(m, i)[x][b] = m[x][b]
<1>1. i.dword \in Dwords /\ i.part \in Parts /\ i.data \in Data
  BY InsnIs
<1>2. 0 \in Data
  BY LsqAssumption DEF Data
<1>3. \A b \in Covers(i.part) : b \in Halves
  BY <1>1 DEF Covers, Parts, Halves
<1>4. ReadOf(m, i) \in [Halves -> Data] /\ \A b \in Covers(i.part) : ReadOf(m, i)[b] = m[i.dword][b]
  BY <1>1, <1>2, <1>3 DEF ReadOf
<1>5. PICK w \in [Halves -> Data] :
        w = [b \in Halves |-> IF b \in Covers(i.part) THEN i.data ELSE m[i.dword][b]]
  BY <1>1
<1>6. Written(m, i) = [m EXCEPT ![i.dword] = w]
  BY <1>5 DEF Written
<1> QED BY <1>1, <1>3, <1>4, <1>5, <1>6

\* The L1 takes the load or the store that is handed to it, and tells that
\* it is done for one edge; memory changes as a write is done.
LEMMA L1After ==
  ASSUME TypeOK, L1Next
  PROVE  /\ l1' \in [fsm : Fsms, tid : {0, 1}, insn : Insns]
         /\ IssueLoad => /\ l1'.fsm \in {"READ", "DONE_R"}
                         /\ l1'.tid = slots[Issued].tid /\ l1'.insn = slots[Issued].insn
         /\ DrainStore => /\ l1'.fsm \in {"WRITE", "DONE_W"}
                          /\ l1'.tid = sbuf[Draining].tid /\ l1'.insn = sbuf[Draining].insn
         /\ ~IssueLoad /\ ~DrainStore =>
              /\ l1'.tid = l1.tid /\ l1'.insn = l1.insn
              /\ l1.fsm \in {"IDLE", "OTHER", "DONE_R", "DONE_W"} => l1'.fsm \in {"IDLE", "OTHER"}
              /\ l1.fsm = "READ" => l1'.fsm \in {"READ", "DONE_R"}
              /\ l1.fsm = "WRITE" => l1'.fsm \in {"WRITE", "DONE_W"}
         /\ l1'.fsm = "DONE_W" =>
              mem' = [mem EXCEPT ![l1'.tid] = Written(mem[l1'.tid], l1'.insn)]
         /\ l1'.fsm # "DONE_W" => mem' = mem
         /\ IssueLoad => ~DrainStore
         /\ IssueLoad => Issued \in Slots
         /\ DrainStore => Draining \in Buffer /\ Draining \in Buffered
<1>1. IssueLoad => Issued \in Candidates /\ Issued \in Slots
  <2> SUFFICES ASSUME IssueLoad PROVE Issued \in Candidates /\ Issued \in Slots
    OBVIOUS
  <2>1. Candidates \in SUBSET Nat /\ Candidates # {} /\ Candidates \subseteq Slots
    BY DEF Candidates, Resident, Slots, IssueLoad
  <2> QED BY <2>1, MinIs DEF Issued
<1>2. DrainStore => Draining \in Buffered /\ Draining \in Buffer
  <2> SUFFICES ASSUME DrainStore PROVE Draining \in Buffered /\ Draining \in Buffer
    OBVIOUS
  <2>1. Buffered \in SUBSET Nat /\ Buffered # {} /\ Buffered \subseteq Buffer
    BY DEF Buffered, Buffer, DrainStore
  <2> QED BY <2>1, MinIs DEF Draining
<1>3. IssueLoad => ~DrainStore
  BY DEF DrainStore
<1>4. l1 \in [fsm : Fsms, tid : {0, 1}, insn : Insns]
  BY DEF TypeOK, Fsms
<1>5. PICK r \in [fsm : Fsms, tid : {0, 1}, insn : Insns] : r = L1Request
  <2>1. CASE IssueLoad
    BY <1>1, <2>1 DEF L1Request, TypeOK, Fsms
  <2>2. CASE ~IssueLoad /\ DrainStore
    BY <1>2, <2>2 DEF L1Request, TypeOK, Fsms
  <2>3. CASE ~IssueLoad /\ ~DrainStore
    BY <1>4, <2>3 DEF L1Request
  <2> QED BY <2>1, <2>2, <2>3
<1>6. /\ IssueLoad => r.fsm = "READ" /\ r.tid = slots[Issued].tid /\ r.insn = slots[Issued].insn
      /\ DrainStore => r.fsm = "WRITE" /\ r.tid = sbuf[Draining].tid /\ r.insn = sbuf[Draining].insn
      /\ ~IssueLoad /\ ~DrainStore => r = l1
  BY <1>3, <1>5 DEF L1Request
<1>7. PICK step \in L1Step :
        /\ step[1] = r.fsm
        /\ l1' = [r EXCEPT !.fsm = step[2]]
        /\ mem' = IF step[2] = "DONE_W" THEN [mem EXCEPT ![r.tid] = Written(@, r.insn)] ELSE mem
  BY <1>5 DEF L1Next
<1>8. /\ step[2] \in Fsms
      /\ r.fsm \in {"IDLE", "OTHER", "DONE_R", "DONE_W"} => step[2] \in {"IDLE", "OTHER"}
      /\ r.fsm = "READ" => step[2] \in {"READ", "DONE_R"}
      /\ r.fsm = "WRITE" => step[2] \in {"WRITE", "DONE_W"}
  BY <1>7 DEF L1Step, Fsms
<1>9. /\ l1' \in [fsm : Fsms, tid : {0, 1}, insn : Insns]
      /\ l1'.fsm = step[2] /\ l1'.tid = r.tid /\ l1'.insn = r.insn
  BY <1>5, <1>7, <1>8
<1>10. /\ l1'.fsm = "DONE_W" => mem' = [mem EXCEPT ![l1'.tid] = Written(mem[l1'.tid], l1'.insn)]
       /\ l1'.fsm # "DONE_W" => mem' = mem
  BY <1>7, <1>9
<1> QED BY <1>1, <1>2, <1>3, <1>6, <1>8, <1>9, <1>10

\* What the CDB carries: the answer to the load that is out, or the value of
\* the load that hit.
LEMMA BroadcastIs ==
  ASSUME PInv, NEW hit, NEW grant
  PROVE  /\ \A r \in Broadcast(hit, grant) :
              /\ grant /\ r.value \in [Halves -> Data] /\ Broadcast(hit, grant) = {r}
              /\ \/ /\ PrimaryFire /\ r.tid = out.tid /\ r.tag = out.tag
                    /\ r.value = ReadOf(mem[l1.tid], l1.insn)
                 \/ /\ ~PrimaryFire /\ Port2Req /\ hit
                    /\ r.tid = slots[Probed].tid /\ r.tag = slots[Probed].tag
                    /\ r.value = ReadOf(mem[slots[Probed].tid], slots[Probed].insn)
         /\ grant /\ PrimaryFire =>
              \E r \in Broadcast(hit, grant) : r.tid = out.tid /\ r.tag = out.tag
         /\ grant /\ ~PrimaryFire /\ Port2Req /\ hit =>
              \E r \in Broadcast(hit, grant) : r.tid = slots[Probed].tid /\ r.tag = slots[Probed].tag
         /\ Port2Req => Probed \in Second /\ Probed \in Slots
<1>1. Port2Req => Probed \in Second /\ Probed \in Slots
  <2> SUFFICES ASSUME Port2Req PROVE Probed \in Second /\ Probed \in Slots
    OBVIOUS
  <2>1. Second \in SUBSET Nat /\ Second # {} /\ Second \subseteq Slots
    BY DEF Second, Candidates, Resident, Slots, Port2Req
  <2> QED BY <2>1, MinIs DEF Probed
<1>2. PrimaryFire => ReadOf(mem[l1.tid], l1.insn) \in [Halves -> Data]
  <2> SUFFICES ASSUME PrimaryFire PROVE ReadOf(mem[l1.tid], l1.insn) \in [Halves -> Data]
    OBVIOUS
  <2>1. l1.tid \in Threads /\ l1.insn \in Insns
    BY DEF PInv, ThreadsOK, TypeOK, PrimaryFire, Answered
  <2>2. mem[l1.tid] \in [Dwords -> [Halves -> Data]]
    BY <2>1 DEF PInv, TypeOK
  <2> QED BY <2>1, <2>2, MemoryIs
<1>3. Port2Req => ReadOf(mem[slots[Probed].tid], slots[Probed].insn) \in [Halves -> Data]
  <2> SUFFICES ASSUME Port2Req
               PROVE  ReadOf(mem[slots[Probed].tid], slots[Probed].insn) \in [Halves -> Data]
    OBVIOUS
  <2>1. slots[Probed].tid \in Threads /\ slots[Probed].insn \in Insns
    BY <1>1 DEF PInv, ThreadsOK, TypeOK, Second, Candidates, Resident
  <2>2. mem[slots[Probed].tid] \in [Dwords -> [Halves -> Data]]
    BY <2>1 DEF PInv, TypeOK
  <2> QED BY <2>1, <2>2, MemoryIs
<1>4. CASE ~grant
  BY <1>1, <1>4 DEF Broadcast
<1>5. CASE grant /\ PrimaryFire
  <2>1. Broadcast(hit, grant) =
          {[tid |-> out.tid, tag |-> out.tag, value |-> ReadOf(mem[l1.tid], l1.insn)]}
    BY <1>5 DEF Broadcast
  <2>2. PICK q : q = [tid |-> out.tid, tag |-> out.tag, value |-> ReadOf(mem[l1.tid], l1.insn)]
    OBVIOUS
  <2>3. /\ Broadcast(hit, grant) = {q} /\ q.tid = out.tid /\ q.tag = out.tag
        /\ q.value = ReadOf(mem[l1.tid], l1.insn)
    BY <2>1, <2>2
  <2>4. \A r \in Broadcast(hit, grant) : r = q
    BY <2>3
  <2> QED BY <1>1, <1>2, <1>5, <2>3, <2>4, Zenon
<1>6. CASE grant /\ ~PrimaryFire /\ Port2Req /\ hit
  <2>1. Broadcast(hit, grant) =
          {[tid |-> slots[Probed].tid, tag |-> slots[Probed].tag,
            value |-> ReadOf(mem[slots[Probed].tid], slots[Probed].insn)]}
    BY <1>6 DEF Broadcast
  <2>2. PICK q : q = [tid |-> slots[Probed].tid, tag |-> slots[Probed].tag,
                      value |-> ReadOf(mem[slots[Probed].tid], slots[Probed].insn)]
    OBVIOUS
  <2>3. /\ Broadcast(hit, grant) = {q}
        /\ q.tid = slots[Probed].tid /\ q.tag = slots[Probed].tag
        /\ q.value = ReadOf(mem[slots[Probed].tid], slots[Probed].insn)
    BY <2>1, <2>2
  <2>4. \A r \in Broadcast(hit, grant) : r = q
    BY <2>3
  <2> QED BY <1>1, <1>3, <1>6, <2>3, <2>4, Zenon
<1>7. CASE grant /\ ~PrimaryFire /\ ~(Port2Req /\ hit)
  <2>1. Broadcast(hit, grant) = {}
    BY <1>7 DEF Broadcast
  <2> QED BY <1>1, <1>7, <2>1
<1> QED BY <1>4, <1>5, <1>6, <1>7

\* The entry of a tag after the edge: new, or as it was, perhaps finished.
LEMMA RobAfter ==
  ASSUME PInv, NEW n, NEW br, NEW d, NEW hit, NEW grant, Edge(n, br, d, hit, grant)
  PROVE  /\ rob' \in [Threads -> [Tags -> Entry]]
         /\ \A t \in Threads, tag \in Tags :
              /\ \A k \in LanesAt(d, t, tag) : rob'[t][tag].insn = d.group[k]
              /\ LanesAt(d, t, tag) = {} => rob'[t][tag].insn = rob[t][tag].insn
              /\ rob'[t][tag].done <=>
                   \/ \E r \in Broadcast(hit, grant) : r.tid = t /\ r.tag = tag
                   \/ \E i \in StoreReady : slots[i].tid = t /\ slots[i].tag = tag
                   \/ br[t] # "wait" /\ tag \in Unresolved(t)
                   \/ rob[t][tag].done /\ LanesAt(d, t, tag) = {}
              /\ \A r \in Broadcast(hit, grant) : r.tid = t /\ r.tag = tag =>
                   rob'[t][tag].value = r.value
              /\ (\A r \in Broadcast(hit, grant) : ~(r.tid = t /\ r.tag = tag)) =>
                   rob'[t][tag].value = rob[t][tag].value
<1> DEFINE results == Broadcast(hit, grant)
           stores  == {<<slots[i].tid, slots[i].tag>> : i \in StoreReady}
           res(t, tag) == {r \in results : r.tid = t /\ r.tag = tag}
           After(t, tag) ==
             [insn  |-> IF LanesAt(d, t, tag) # {} THEN d.group[Max(LanesAt(d, t, tag))]
                        ELSE rob[t][tag].insn,
              done  |-> \/ res(t, tag) # {}
                        \/ <<t, tag>> \in stores
                        \/ br[t] # "wait" /\ tag \in Unresolved(t)
                        \/ rob[t][tag].done /\ LanesAt(d, t, tag) = {},
              value |-> IF res(t, tag) # {} THEN (CHOOSE r \in res(t, tag) : TRUE).value
                        ELSE rob[t][tag].value]
<1>1. d \in Dispatches(br) /\ TypeOK
  BY DEF Edge, PInv
<1>2. rob' = [t \in Threads |-> [tag \in Tags |-> After(t, tag)]]
  BY Zenon DEF Edge, RobNext
<1>3. \A t \in Threads, tag \in Tags : rob'[t][tag] = After(t, tag)
  <2> HIDE DEF After
  <2> QED BY <1>2
<1>4. ASSUME NEW t \in Threads, NEW tag \in Tags
      PROVE  /\ \A k \in LanesAt(d, t, tag) : k \in 1 .. Len(d.group) /\ Max(LanesAt(d, t, tag)) = k
             /\ \A k \in LanesAt(d, t, tag) : d.group[k] \in Insns
  <2>1. \A k \in LanesAt(d, t, tag) : k \in 1 .. Len(d.group) /\ Max(LanesAt(d, t, tag)) = k
    BY <1>1, LanesAre
  <2>2. \A k \in 1 .. Len(d.group) : d.group[k] \in Mix
    BY <1>1, DispatchIs
  <2> QED BY <2>1, <2>2 DEF Insns
<1>5. \A r, q \in results : r = q
  BY BroadcastIs
<1>6. ASSUME NEW t \in Threads, NEW tag \in Tags
      PROVE  /\ \A r \in res(t, tag) : (CHOOSE q \in res(t, tag) : TRUE) = r
             /\ \A r \in res(t, tag) : r.value \in [Halves -> Data]
  <2>1. ASSUME NEW r \in res(t, tag) PROVE (CHOOSE q \in res(t, tag) : TRUE) = r
    <3>1. (CHOOSE q \in res(t, tag) : TRUE) \in res(t, tag)
      BY <2>1
    <3> QED BY <1>5, <2>1, <3>1
  <2>2. \A r \in res(t, tag) : r.value \in [Halves -> Data]
    BY BroadcastIs
  <2> QED BY <2>1, <2>2
<1> HIDE DEF results
<1>7. ASSUME NEW t \in Threads, NEW tag \in Tags
      PROVE  /\ \A k \in LanesAt(d, t, tag) : After(t, tag).insn = d.group[k]
             /\ LanesAt(d, t, tag) = {} => After(t, tag).insn = rob[t][tag].insn
             /\ After(t, tag).insn \in Insns
  <2>1. CASE LanesAt(d, t, tag) = {}
    <3>1. After(t, tag).insn = rob[t][tag].insn
      BY <2>1
    <3>2. rob[t][tag].insn \in Insns
      BY <1>1 DEF TypeOK, Entry
    <3> QED BY <2>1, <3>1, <3>2
  <2>2. CASE LanesAt(d, t, tag) # {}
    <3>1. PICK k \in LanesAt(d, t, tag) : TRUE
      BY <2>2
    <3>2. After(t, tag).insn = d.group[Max(LanesAt(d, t, tag))]
      BY <2>2
    <3> QED BY <1>4, <2>2, <3>1, <3>2
  <2> QED BY <2>1, <2>2
<1>8. ASSUME NEW t \in Threads, NEW tag \in Tags
      PROVE  /\ \A r \in res(t, tag) : After(t, tag).value = r.value
             /\ res(t, tag) = {} => After(t, tag).value = rob[t][tag].value
             /\ After(t, tag).value \in [Halves -> Data]
  <2>1. rob[t][tag].value \in [Halves -> Data]
    BY <1>1 DEF TypeOK, Entry
  <2>2. CASE res(t, tag) = {}
    BY <2>1, <2>2
  <2>3. CASE res(t, tag) # {}
    <3>1. PICK r \in res(t, tag) : TRUE
      BY <2>3
    <3>2. After(t, tag).value = (CHOOSE q \in res(t, tag) : TRUE).value
      BY <2>3
    <3> QED BY <1>6, <2>3, <3>1, <3>2
  <2> QED BY <2>2, <2>3
<1>9. ASSUME NEW t \in Threads, NEW tag \in Tags
      PROVE  /\ After(t, tag).done <=>
                   \/ \E r \in results : r.tid = t /\ r.tag = tag
                   \/ \E i \in StoreReady : slots[i].tid = t /\ slots[i].tag = tag
                   \/ br[t] # "wait" /\ tag \in Unresolved(t)
                   \/ rob[t][tag].done /\ LanesAt(d, t, tag) = {}
             /\ After(t, tag).done \in BOOLEAN
  <2>1. res(t, tag) # {} <=> \E r \in results : r.tid = t /\ r.tag = tag
    OBVIOUS
  <2>2. <<t, tag>> \in stores <=> \E i \in StoreReady : slots[i].tid = t /\ slots[i].tag = tag
    OBVIOUS
  <2>3. After(t, tag).done = (\/ res(t, tag) # {}
                              \/ <<t, tag>> \in stores
                              \/ br[t] # "wait" /\ tag \in Unresolved(t)
                              \/ rob[t][tag].done /\ LanesAt(d, t, tag) = {})
    OBVIOUS
  <2> HIDE DEF After, res, stores
  <2> QED BY <2>1, <2>2, <2>3, Zenon
<1>10. \A t \in Threads, tag \in Tags : After(t, tag) \in Entry
  <2> SUFFICES ASSUME NEW t \in Threads, NEW tag \in Tags PROVE After(t, tag) \in Entry
    OBVIOUS
  <2>1. PICK f \in Insns, g \in BOOLEAN, h \in [Halves -> Data] :
          f = After(t, tag).insn /\ g = After(t, tag).done /\ h = After(t, tag).value
    <3> HIDE DEF After
    <3> QED BY <1>7, <1>8, <1>9
  <2>2. After(t, tag) = [insn |-> f, done |-> g, value |-> h]
    BY <2>1, Zenon
  <2> QED BY <2>2 DEF Entry
<1>11. rob' \in [Threads -> [Tags -> Entry]]
  <2> HIDE DEF After
  <2> QED BY <1>2, <1>10
<1> HIDE DEF After
<1>12. ASSUME NEW t \in Threads, NEW tag \in Tags
       PROVE  /\ \A r \in results : r.tid = t /\ r.tag = tag => rob'[t][tag].value = r.value
              /\ (\A r \in results : ~(r.tid = t /\ r.tag = tag)) =>
                   rob'[t][tag].value = rob[t][tag].value
  BY <1>3, <1>8
<1>13. ASSUME NEW t \in Threads, NEW tag \in Tags
       PROVE  /\ \A k \in LanesAt(d, t, tag) : rob'[t][tag].insn = d.group[k]
              /\ LanesAt(d, t, tag) = {} => rob'[t][tag].insn = rob[t][tag].insn
              /\ rob'[t][tag].done <=>
                   \/ \E r \in results : r.tid = t /\ r.tag = tag
                   \/ \E i \in StoreReady : slots[i].tid = t /\ slots[i].tag = tag
                   \/ br[t] # "wait" /\ tag \in Unresolved(t)
                   \/ rob[t][tag].done /\ LanesAt(d, t, tag) = {}
  <2>1. /\ rob'[t][tag].insn = After(t, tag).insn
        /\ rob'[t][tag].done = After(t, tag).done
    BY <1>3, Zenon
  <2>2. rob'[t][tag].done <=> After(t, tag).done
    BY <2>1, Zenon
  <2>3. After(t, tag).done <=>
          \/ \E r \in results : r.tid = t /\ r.tag = tag
          \/ \E i \in StoreReady : slots[i].tid = t /\ slots[i].tag = tag
          \/ br[t] # "wait" /\ tag \in Unresolved(t)
          \/ rob[t][tag].done /\ LanesAt(d, t, tag) = {}
    BY <1>9
  <2>4. /\ \A k \in LanesAt(d, t, tag) : After(t, tag).insn = d.group[k]
        /\ LanesAt(d, t, tag) = {} => After(t, tag).insn = rob[t][tag].insn
    BY <1>7
  <2>5. /\ \A k \in LanesAt(d, t, tag) : rob'[t][tag].insn = d.group[k]
        /\ LanesAt(d, t, tag) = {} => rob'[t][tag].insn = rob[t][tag].insn
    BY <2>1, <2>4, Zenon
  <2> HIDE DEF results
  <2>6. rob'[t][tag].done <=>
          \/ \E r \in results : r.tid = t /\ r.tag = tag
          \/ \E i \in StoreReady : slots[i].tid = t /\ slots[i].tag = tag
          \/ br[t] # "wait" /\ tag \in Unresolved(t)
          \/ rob[t][tag].done /\ LanesAt(d, t, tag) = {}
    BY <2>2, <2>3, Zenon
  <2> QED BY <2>5, <2>6, Zenon
<1> QED BY <1>11, <1>12, <1>13, ZenonT(40) DEF results

\* The registers of the load that is out.
LEMMA OutAfter ==
  ASSUME PInv, NEW br, OutNext(br)
  PROVE  /\ out' \in [valid : BOOLEAN, squashed : BOOLEAN, idx : Slots, tid : {0, 1}, tag : Tags]
         /\ IssueLoad => /\ out'.valid /\ ~out'.squashed /\ out'.idx = Issued
                         /\ out'.tid = slots[Issued].tid /\ out'.tag = slots[Issued].tag
                         /\ Issued \in Candidates /\ Issued \in Slots
         /\ ~IssueLoad => /\ out'.idx = out.idx /\ out'.tid = out.tid /\ out'.tag = out.tag
                          /\ out'.valid <=> out.valid /\ ~Answered
                          /\ out'.squashed <=> out.squashed \/ (out.valid /\ Younger(br, out.tid, out.tag))
<1>1. PICK o \in [valid : BOOLEAN, squashed : BOOLEAN, idx : Slots, tid : {0, 1}, tag : Tags] : o = out
  BY DEF PInv, TypeOK
<1>2. CASE IssueLoad
  <2>1. Candidates \in SUBSET Nat /\ Candidates # {} /\ Candidates \subseteq Slots
    BY <1>2 DEF Candidates, Resident, Slots, IssueLoad
  <2>2. Issued \in Candidates /\ Issued \in Slots
    BY <2>1, MinIs DEF Issued
  <2>3. slots[Issued].tid \in {0, 1} /\ slots[Issued].tag \in Tags
    BY <2>2 DEF PInv, TypeOK
  <2>4. out' = [valid |-> TRUE, squashed |-> FALSE, idx |-> Issued,
                tid |-> slots[Issued].tid, tag |-> slots[Issued].tag]
    BY <1>2 DEF OutNext
  <2> QED BY <1>2, <2>2, <2>3, <2>4
<1>3. CASE ~IssueLoad
  <2>1. PICK p \in BOOLEAN, q \in BOOLEAN :
          /\ p = (o.valid /\ ~Answered)
          /\ q = (o.squashed \/ (out.valid /\ Younger(br, out.tid, out.tag)))
    OBVIOUS
  <2>2. out' = [o EXCEPT !.valid = o.valid /\ ~Answered,
                         !.squashed = o.squashed \/ (out.valid /\ Younger(br, out.tid, out.tag))]
    BY <1>1, <1>3 DEF OutNext
  <2>3. out' = [o EXCEPT !.valid = p, !.squashed = q]
    BY <2>1, <2>2
  <2>4. /\ out' \in [valid : BOOLEAN, squashed : BOOLEAN, idx : Slots, tid : {0, 1}, tag : Tags]
        /\ out'.idx = out.idx /\ out'.tid = out.tid /\ out'.tag = out.tag
        /\ out'.valid = p /\ out'.squashed = q
    BY <1>1, <2>3
  <2>5. out'.valid <=> out.valid /\ ~Answered
    BY <1>1, <2>1, <2>4
  <2>6. out'.squashed <=> out.squashed \/ (out.valid /\ Younger(br, out.tid, out.tag))
    BY <1>1, <2>1, <2>4
  <2> QED BY <1>3, <2>4, <2>5, <2>6
<1> QED BY <1>2, <1>3

\* The registers of the store that drains.
LEMMA DrainAfter ==
  ASSUME PInv, DrainNext
  PROVE  /\ drain' \in [valid : BOOLEAN, idx : Buffer]
         /\ DrainStore => drain'.valid /\ drain'.idx = Draining /\ Draining \in Buffered
         /\ ~DrainStore => /\ drain'.idx = drain.idx
                           /\ drain'.valid <=> drain.valid /\ l1.fsm # "DONE_W"
<1>1. PICK r \in [valid : BOOLEAN, idx : Buffer] : r = drain
  BY DEF PInv, TypeOK
<1>2. CASE DrainStore
  <2>1. Buffered \in SUBSET Nat /\ Buffered # {} /\ Buffered \subseteq Buffer
    BY <1>2 DEF Buffered, Buffer, DrainStore
  <2>2. Draining \in Buffered /\ Draining \in Buffer
    BY <2>1, MinIs DEF Draining
  <2>3. drain' = [valid |-> TRUE, idx |-> Draining]
    BY <1>2 DEF DrainNext
  <2> QED BY <1>2, <2>2, <2>3
<1>3. CASE ~DrainStore
  <2>1. PICK p \in BOOLEAN : p = (r.valid /\ l1.fsm # "DONE_W")
    OBVIOUS
  <2>2. drain' = [r EXCEPT !.valid = r.valid /\ l1.fsm # "DONE_W"]
    BY <1>1, <1>3 DEF DrainNext
  <2>3. drain' = [r EXCEPT !.valid = p]
    BY <2>1, <2>2
  <2>4. drain' \in [valid : BOOLEAN, idx : Buffer] /\ drain'.idx = drain.idx /\ drain'.valid = p
    BY <1>1, <2>3
  <2>5. drain'.valid <=> drain.valid /\ l1.fsm # "DONE_W"
    BY <1>1, <2>1, <2>4
  <2> QED BY <1>3, <2>4, <2>5
<1> QED BY <1>2, <1>3

\* The entry of the store that drained is free again.
Freed(b) == drain.valid /\ l1.fsm = "DONE_W" /\ b = drain.idx

\* An entry of the store buffer after the edge: free again, taken by a
\* retiring store, or as it was.
LEMMA SbufAfter ==
  ASSUME PInv, NEW n \in Retires, SbufNext(n)
  PROVE  /\ sbuf' \in [Buffer -> [valid : BOOLEAN, tid : {0, 1}, insn : Insns]]
         /\ \A b \in Buffer : Freed(b) =>
              ~sbuf'[b].valid /\ sbuf'[b].tid = sbuf[b].tid /\ sbuf'[b].insn = sbuf[b].insn
         /\ \A b \in Buffer : ~Freed(b) /\ Pushes(n, b) # {} =>
              /\ sbuf'[b].valid
              /\ \E p \in Pushes(n, b) : sbuf'[b].tid = p[1] /\ sbuf'[b].insn = rob[p[1]][p[2]].insn
         /\ \A b \in Buffer : ~Freed(b) /\ Pushes(n, b) = {} => sbuf'[b] = sbuf[b]
<1> DEFINE After(b) ==
             IF drain.valid /\ l1.fsm = "DONE_W" /\ b = drain.idx
             THEN [sbuf[b] EXCEPT !.valid = FALSE]
             ELSE IF Pushes(n, b) # {}
             THEN LET p == CHOOSE p \in Pushes(n, b) : TRUE
                  IN  [valid |-> TRUE, tid |-> p[1], insn |-> rob[p[1]][p[2]].insn]
             ELSE sbuf[b]
           Kept == [valid : BOOLEAN, tid : {0, 1}, insn : Insns]
<1>1. sbuf' = [b \in Buffer |-> After(b)]
  BY DEF SbufNext
<1>2. \A b \in Buffer : sbuf[b] \in Kept
  BY DEF PInv, TypeOK
<1>3. ASSUME NEW b \in Buffer, Freed(b)
      PROVE  /\ After(b) \in Kept /\ ~After(b).valid
             /\ After(b).tid = sbuf[b].tid /\ After(b).insn = sbuf[b].insn
  <2>1. After(b) = [sbuf[b] EXCEPT !.valid = FALSE]
    BY <1>3 DEF Freed
  <2> HIDE DEF After
  <2> QED BY <1>2, <2>1
<1>4. ASSUME NEW b \in Buffer, ~Freed(b), Pushes(n, b) # {}
      PROVE  /\ After(b) \in Kept /\ After(b).valid
             /\ \E p \in Pushes(n, b) : After(b).tid = p[1] /\ After(b).insn = rob[p[1]][p[2]].insn
  <2>1. PICK p \in Pushes(n, b) : p = CHOOSE q \in Pushes(n, b) : TRUE
    BY <1>4
  <2>2. After(b) = [valid |-> TRUE, tid |-> p[1], insn |-> rob[p[1]][p[2]].insn]
    BY <1>4, <2>1 DEF Freed
  <2>3. p[1] \in Threads /\ p[2] \in Tags
    BY DEF Pushes, Goes, Pushed
  <2>4. p[1] \in {0, 1} /\ rob[p[1]][p[2]].insn \in Insns
    <3>1. rob \in [Threads -> [Tags -> Entry]]
      BY DEF PInv, TypeOK
    <3>2. \A t \in Threads, tag \in Tags : rob[t][tag].insn \in Insns
      BY <3>1 DEF Entry
    <3> QED BY <2>3, <3>2, LsqAssumption
  <2> HIDE DEF After
  <2> QED BY <2>2, <2>4
<1>5. ASSUME NEW b \in Buffer, ~Freed(b), Pushes(n, b) = {}
      PROVE  After(b) = sbuf[b]
  BY <1>5 DEF Freed
<1> HIDE DEF After
<1>6. \A b \in Buffer : sbuf'[b] = After(b)
  BY <1>1
<1>7. \A b \in Buffer : After(b) \in Kept
  BY <1>2, <1>3, <1>4, <1>5
<1>8. sbuf' \in [Buffer -> Kept]
  BY <1>1, <1>7
<1>9. ASSUME NEW b \in Buffer, Freed(b)
      PROVE  ~sbuf'[b].valid /\ sbuf'[b].tid = sbuf[b].tid /\ sbuf'[b].insn = sbuf[b].insn
  BY <1>3, <1>6, <1>9
<1>10. ASSUME NEW b \in Buffer, ~Freed(b), Pushes(n, b) # {}
       PROVE  /\ sbuf'[b].valid
              /\ \E p \in Pushes(n, b) : sbuf'[b].tid = p[1] /\ sbuf'[b].insn = rob[p[1]][p[2]].insn
  BY <1>4, <1>6, <1>10
<1>11. \A b \in Buffer : ~Freed(b) /\ Pushes(n, b) = {} => sbuf'[b] = sbuf[b]
  BY <1>5, <1>6
<1> QED BY <1>8, <1>9, <1>10, <1>11

(***************************************************************************)
(* PInv is inductive.                                                      *)
(***************************************************************************)

\* It holds at reset.
LEMMA InitPorts ==
  ASSUME Init
  PROVE  PInv
<1>1. /\ 0 \in Tags /\ 0 \in Slots /\ 0 \in Buffer /\ 0 \in {0, 1} /\ 0 \in Data
      /\ Branch \in Insns /\ 0 \in 0 .. Depth
  BY LsqAssumption DEF Tags, Slots, Buffer, Data, Insns
<1>2. head \in [Threads -> Tags] /\ count \in [Threads -> 0 .. Depth]
  BY <1>1 DEF Init
<1>3. rob \in [Threads -> [Tags -> Entry]]
  BY <1>1 DEF Init, Entry
<1>4. slots \in [Slots -> Slot] /\ \A i \in Slots : ~slots[i].busy
  BY <1>1 DEF Init, Slot, Empty
<1>5. /\ sbuf \in [Buffer -> [valid : BOOLEAN, tid : {0, 1}, insn : Insns]]
      /\ \A b \in Buffer : ~sbuf[b].valid
  BY <1>1 DEF Init
<1>6. /\ out \in [valid : BOOLEAN, squashed : BOOLEAN, idx : Slots, tid : {0, 1}, tag : Tags]
      /\ drain \in [valid : BOOLEAN, idx : Buffer] /\ ~out.valid /\ ~drain.valid
  BY <1>1 DEF Init
<1>7. l1 \in [fsm : {"IDLE", "READ", "WRITE", "OTHER", "DONE_R", "DONE_W"},
               tid : {0, 1}, insn : Insns] /\ l1.fsm = "IDLE"
  BY <1>1 DEF Init
<1>8. /\ mem \in [Threads -> [Dwords -> [Halves -> Data]]]
      /\ arch \in [Threads -> [Dwords -> [Halves -> Data]]] /\ torn \in BOOLEAN
  BY <1>1 DEF Init, Zero
<1>9. TypeOK
  BY <1>2, <1>3, <1>4, <1>5, <1>6, <1>7, <1>8 DEF TypeOK, Slot
<1>10. ThreadsOK /\ PortOK
  BY <1>4, <1>5, <1>6, <1>7 DEF ThreadsOK, PortOK
<1>11. OneBranch
  <2>1. \A t \in Threads, tag \in Tags : ~InFlight(t, tag)
    <3> SUFFICES ASSUME NEW t \in Threads, NEW tag \in Tags PROVE ~InFlight(t, tag)
      OBVIOUS
    <3>1. head[t] \in Tags /\ count[t] = 0
      BY <1>2 DEF Init
    <3>2. Age(t, tag) \in 0 .. Depth - 1
      BY <3>1, AgesIs
    <3> QED BY <3>1, <3>2, LsqAssumption DEF InFlight
  <2> QED BY <2>1 DEF OneBranch, Unresolved
<1> QED BY <1>9, <1>10, <1>11 DEF PInv

\* The states of memory that a thread sees and that it should see.
LEMMA MemoryAfter ==
  ASSUME PInv, NEW n, NEW br, NEW d, NEW hit, NEW grant, Edge(n, br, d, hit, grant)
  PROVE  /\ l1'.fsm \notin {"IDLE", "OTHER"} => l1'.tid \in Threads
         /\ mem' \in [Threads -> [Dwords -> [Halves -> Data]]]
         /\ arch' \in [Threads -> [Dwords -> [Halves -> Data]]]
         /\ \A t \in Threads : StoresIn(t, n[t]) = {} => arch'[t] = arch[t]
         /\ \A t \in Threads : \A s \in StoresIn(t, n[t]) :
              /\ arch'[t] = Written(arch[t], rob[t][s].insn)
              /\ s \in Tags /\ rob[t][s].insn \in Insns
<1>1. TypeOK /\ L1Next /\ WindowNext(n, br, d) /\ n \in Retires
  BY DEF PInv, Edge
<1>2. l1'.fsm \notin {"IDLE", "OTHER"} => l1'.tid \in Threads
  <2>1. CASE IssueLoad
    <3>1. l1'.tid = slots[Issued].tid
      BY <1>1, <2>1, L1After
    <3>2. Candidates \in SUBSET Nat /\ Candidates # {}
      BY <2>1 DEF Candidates, Resident, Slots, IssueLoad
    <3>3. Issued \in Candidates
      BY <3>2, MinIs DEF Issued
    <3> QED BY <3>1, <3>3 DEF Candidates, Resident, PInv, ThreadsOK
  <2>2. CASE DrainStore
    <3>1. l1'.tid = sbuf[Draining].tid /\ Draining \in Buffered
      BY <1>1, <2>2, L1After
    <3> QED BY <3>1 DEF Buffered, PInv, ThreadsOK
  <2>3. CASE ~IssueLoad /\ ~DrainStore
    <3>1. /\ l1'.tid = l1.tid
          /\ l1.fsm \in {"IDLE", "OTHER"} => l1'.fsm \in {"IDLE", "OTHER"}
      BY <1>1, <2>3, L1After
    <3> QED BY <3>1 DEF PInv, ThreadsOK
  <2> QED BY <2>1, <2>2, <2>3
<1>3. mem' \in [Threads -> [Dwords -> [Halves -> Data]]]
  <2>1. mem \in [Threads -> [Dwords -> [Halves -> Data]]]
    BY <1>1 DEF TypeOK
  <2>2. CASE l1'.fsm # "DONE_W"
    <3>1. mem' = mem
      BY <1>1, <2>2, L1After
    <3> QED BY <2>1, <3>1
  <2>3. CASE l1'.fsm = "DONE_W"
    <3>1. PICK t \in Threads, i \in Insns : t = l1'.tid /\ i = l1'.insn
      BY <1>1, <1>2, <2>3, L1After
    <3>2. mem' = [mem EXCEPT ![t] = Written(mem[t], i)]
      BY <1>1, <2>3, <3>1, L1After
    <3>3. Written(mem[t], i) \in [Dwords -> [Halves -> Data]]
      BY <2>1, MemoryIs
    <3> QED BY <2>1, <3>2, <3>3
  <2> QED BY <2>2, <2>3
<1>4. ASSUME NEW t \in Threads, NEW s \in StoresIn(t, n[t])
      PROVE  /\ arch'[t] = Written(arch[t], rob[t][s].insn)
             /\ s \in Tags /\ rob[t][s].insn \in Insns
  <2>1. Retiring(t, n[t]) \subseteq Tags /\ \A a, b \in StoresIn(t, n[t]) : a = b
    BY <1>1, RetiringIs
  <2>2. s \in Tags /\ (CHOOSE a \in StoresIn(t, n[t]) : TRUE) = s
    <3>1. (CHOOSE a \in StoresIn(t, n[t]) : TRUE) \in StoresIn(t, n[t])
      BY <1>4
    <3> QED BY <2>1, <3>1, <1>4 DEF StoresIn
  <2>3. arch'[t] = IF StoresIn(t, n[t]) = {} THEN arch[t]
                   ELSE Written(arch[t], rob[t][CHOOSE a \in StoresIn(t, n[t]) : TRUE].insn)
    BY <1>1 DEF WindowNext
  <2>4. rob[t][s] \in Entry
    BY <1>1, <2>2 DEF TypeOK
  <2> QED BY <1>4, <2>2, <2>3, <2>4 DEF Entry
<1>5. \A t \in Threads : StoresIn(t, n[t]) = {} => arch'[t] = arch[t]
  BY <1>1 DEF WindowNext
<1>6. arch' \in [Threads -> [Dwords -> [Halves -> Data]]]
  <2>1. arch \in [Threads -> [Dwords -> [Halves -> Data]]]
    BY <1>1 DEF TypeOK
  <2>2. \A t \in Threads : arch'[t] \in [Dwords -> [Halves -> Data]]
    <3> SUFFICES ASSUME NEW t \in Threads PROVE arch'[t] \in [Dwords -> [Halves -> Data]]
      OBVIOUS
    <3>1. CASE StoresIn(t, n[t]) = {}
      BY <1>5, <2>1, <3>1
    <3>2. CASE StoresIn(t, n[t]) # {}
      <4>1. PICK s \in StoresIn(t, n[t]) : TRUE
        BY <3>2
      <4>2. PICK i \in Insns : i = rob[t][s].insn
        BY <1>4
      <4>3. arch'[t] = Written(arch[t], i)
        BY <1>4, <4>2
      <4> QED BY <2>1, <4>3, MemoryIs
    <3> QED BY <3>1, <3>2
  <2>3. \E f : arch' = [t \in Threads |-> f[t]]
    <3>1. PICK f : f = [t \in Threads |->
                          IF StoresIn(t, n[t]) = {} THEN arch[t]
                          ELSE Written(arch[t], rob[t][CHOOSE s \in StoresIn(t, n[t]) : TRUE].insn)]
      OBVIOUS
    <3>2. arch' = f
      BY <1>1, <3>1 DEF WindowNext
    <3>3. f = [t \in Threads |-> f[t]]
      BY <3>1
    <3> QED BY <3>2, <3>3
  <2> QED BY <2>2, <2>3
<1> QED BY <1>2, <1>3, <1>4, <1>5, <1>6

\* Every edge preserves it.
LEMMA NextPorts ==
  ASSUME PInv, Next
  PROVE  PInv'
<1>1. PICK n, br, d, hit, grant : Edge(n, br, d, hit, grant)
  BY NextIs
<1>2. /\ TypeOK /\ n \in Retires /\ br \in Resolutions /\ d \in Dispatches(br)
      /\ OutNext(br) /\ SbufNext(n) /\ DrainNext /\ L1Next /\ WindowNext(n, br, d)
  BY <1>1 DEF PInv, Edge
<1>3. /\ head' \in [Threads -> Tags] /\ count' \in [Threads -> 0 .. Depth]
  <2>1. \A t \in Threads : head'[t] \in Tags /\ count'[t] \in 0 .. Depth
    BY <1>1, WindowAfter
  <2>2. head' = [t \in Threads |-> head'[t]]
    BY <1>2 DEF WindowNext
  <2>3. count' = [t \in Threads |-> count'[t]]
    <3>1. PICK f : f = [t \in Threads |->
            IF br[t] = "wrong" THEN Age(t, CHOOSE b \in Unresolved(t) : TRUE) + 1 - n[t]
            ELSE count[t] + (IF t = d.tid THEN Len(d.group) ELSE 0) - n[t]]
      OBVIOUS
    <3>2. count' = f /\ f = [t \in Threads |-> f[t]]
      BY <1>2, <3>1 DEF WindowNext
    <3> QED BY <3>2
  <2> QED BY <2>1, <2>2, <2>3
<1>4. rob' \in [Threads -> [Tags -> Entry]]
  BY <1>1, RobAfter
<1>5. slots' \in [Slots -> Slot]
  BY <1>1, <1>2, SlotsAfter
<1>6. sbuf' \in [Buffer -> [valid : BOOLEAN, tid : {0, 1}, insn : Insns]]
  BY <1>2, SbufAfter
<1>7. /\ out' \in [valid : BOOLEAN, squashed : BOOLEAN, idx : Slots, tid : {0, 1}, tag : Tags]
      /\ drain' \in [valid : BOOLEAN, idx : Buffer]
  BY <1>2, OutAfter, DrainAfter
<1>8. l1' \in [fsm : Fsms, tid : {0, 1}, insn : Insns]
  BY <1>2, L1After
<1>9. /\ mem' \in [Threads -> [Dwords -> [Halves -> Data]]]
      /\ arch' \in [Threads -> [Dwords -> [Halves -> Data]]]
      /\ l1'.fsm \notin {"IDLE", "OTHER"} => l1'.tid \in Threads
  BY <1>1, MemoryAfter
<1>10. torn' \in BOOLEAN
  BY <1>1 DEF Edge
<1>11. TypeOK'
  BY <1>3, <1>4, <1>5, <1>6, <1>7, <1>8, <1>9, <1>10 DEF TypeOK, Slot, Fsms, Entry
<1>12. ThreadsOK'
  <2>1. ASSUME NEW i \in Slots, slots'[i].busy PROVE slots'[i].tid \in Threads
    <3>1. CASE i \in Vacated(n, br, hit, grant)
      <4>1. slots'[i] = Empty
        BY <1>1, <1>2, <3>1, SlotsAfter
      <4> QED BY <2>1, <4>1 DEF Empty
    <3>2. CASE i \notin Vacated(n, br, hit, grant) /\ Taken(d, i)
      <4>1. PICK l \in MemLanes(d.group) : slots'[i] = Filled(d, l)
        BY <1>1, <1>2, <3>2, SlotsAfter
      <4>2. d.tid \in Threads
        BY <1>2, DispatchIs
      <4> QED BY <4>1, <4>2 DEF Filled
    <3>3. CASE i \notin Vacated(n, br, hit, grant) /\ ~Taken(d, i)
      <4>1. slots'[i].busy = slots[i].busy /\ slots'[i].tid = slots[i].tid
        BY <1>1, <1>2, <3>3, SlotsAfter
      <4> QED BY <2>1, <4>1 DEF PInv, ThreadsOK
    <3> QED BY <3>1, <3>2, <3>3
  <2>2. ASSUME NEW b \in Buffer, sbuf'[b].valid PROVE sbuf'[b].tid \in Threads
    <3>1. ~Freed(b)
      BY <1>2, <2>2, SbufAfter
    <3>2. CASE Pushes(n, b) # {}
      <4>1. PICK p \in Pushes(n, b) : sbuf'[b].tid = p[1]
        BY <1>2, <3>1, <3>2, SbufAfter
      <4> QED BY <4>1 DEF Pushes, Goes, Pushed
    <3>3. CASE Pushes(n, b) = {}
      <4>1. sbuf'[b] = sbuf[b]
        BY <1>2, <3>1, <3>3, SbufAfter
      <4> QED BY <2>2, <4>1 DEF PInv, ThreadsOK
    <3> QED BY <3>2, <3>3
  <2> QED BY <1>9, <2>1, <2>2 DEF ThreadsOK
<1>13. OneBranch'
  <2>1. ASSUME NEW t \in Threads, NEW a \in Tags, a \in Unresolved(t)'
        PROVE  \/ a \in Unresolved(t) /\ LanesAt(d, t, a) = {}
               \/ Unresolved(t) = {} /\ t = d.tid /\ LaneTag(t, 1) = a
    <3>1. InFlight(t, a)' /\ ~rob'[t][a].done /\ rob'[t][a].insn.kind = "branch"
      BY <2>1 DEF Unresolved
    <3>2. CASE LanesAt(d, t, a) = {}
      <4>1. Stays(n, br, t, a) /\ rob'[t][a].insn = rob[t][a].insn
        BY <1>1, <3>1, <3>2, WindowAfter, RobAfter
      <4>2. rob[t][a].done => rob'[t][a].done
        <5>1. rob'[t][a].done <=>
                \/ \E r \in Broadcast(hit, grant) : r.tid = t /\ r.tag = a
                \/ \E i \in StoreReady : slots[i].tid = t /\ slots[i].tag = a
                \/ br[t] # "wait" /\ a \in Unresolved(t)
                \/ rob[t][a].done /\ LanesAt(d, t, a) = {}
          BY <1>1, RobAfter
        <5> QED BY <3>2, <5>1, Zenon
      <4> QED BY <3>1, <3>2, <4>1, <4>2 DEF Stays, Unresolved
    <3>3. CASE LanesAt(d, t, a) # {}
      <4>1. PICK k \in LanesAt(d, t, a) : TRUE
        BY <3>3
      <4>2. t = d.tid /\ k \in 1 .. Len(d.group) /\ LaneTag(t, k) = a
        BY <1>2, <4>1, LanesAre
      <4>3. rob'[t][a].insn = d.group[k]
        BY <1>1, <4>1, RobAfter
      <4>4. k = 1 /\ Unresolved(t) = {}
        BY <1>2, <3>1, <4>2, <4>3, DispatchIs
      <4> QED BY <4>2, <4>4
    <3> QED BY <3>2, <3>3
  <2>2. ASSUME NEW t \in Threads, NEW a \in Unresolved(t)', NEW b \in Unresolved(t)'
        PROVE  a = b
    <3>1. a \in Tags /\ b \in Tags
      BY <2>2 DEF Unresolved
    <3>2. CASE Unresolved(t) = {}
      BY <2>1, <2>2, <3>1, <3>2
    <3>3. CASE Unresolved(t) # {}
      BY <2>1, <2>2, <3>1, <3>3 DEF PInv, OneBranch
    <3> QED BY <3>2, <3>3
  <2> QED BY <2>2 DEF OneBranch
<1>14. PortOK'
  <2>1. l1.fsm \in Fsms
    BY <1>2 DEF TypeOK, Fsms
  <2>2. CASE IssueLoad
    <3>1. l1.fsm = "IDLE" /\ ~DrainStore
      BY <2>2 DEF IssueLoad, DrainStore
    <3>2. l1'.fsm \in {"READ", "DONE_R"} /\ out'.valid
      BY <1>2, <2>2, L1After, OutAfter
    <3>3. ~drain'.valid
      <4>1. ~drain.valid
        BY <3>1 DEF PInv, PortOK
      <4> QED BY <1>2, <3>1, <4>1, DrainAfter
    <3> QED BY <3>2, <3>3 DEF PortOK
  <2>3. CASE DrainStore
    <3>1. l1.fsm = "IDLE" /\ ~IssueLoad /\ ~out.valid
      BY <2>3 DEF DrainStore
    <3>2. l1'.fsm \in {"WRITE", "DONE_W"} /\ drain'.valid /\ ~out'.valid
      BY <1>2, <2>3, <3>1, L1After, OutAfter, DrainAfter
    <3> QED BY <3>2 DEF PortOK
  <2>4. CASE ~IssueLoad /\ ~DrainStore
    <3>1. /\ l1.fsm \in {"IDLE", "OTHER", "DONE_R", "DONE_W"} => l1'.fsm \in {"IDLE", "OTHER"}
          /\ l1.fsm = "READ" => l1'.fsm \in {"READ", "DONE_R"}
          /\ l1.fsm = "WRITE" => l1'.fsm \in {"WRITE", "DONE_W"}
      BY <1>2, <2>4, L1After
    <3>2. (out'.valid <=> out.valid /\ ~Answered) /\ (Answered <=> out.valid /\ l1.fsm = "DONE_R")
      BY <1>2, <2>4, OutAfter DEF Answered
    <3>3. drain'.valid <=> drain.valid /\ l1.fsm # "DONE_W"
      BY <1>2, <2>4, DrainAfter
    <3>4. (out.valid <=> l1.fsm \in {"READ", "DONE_R"}) /\ (drain.valid <=> l1.fsm \in {"WRITE", "DONE_W"})
      BY DEF PInv, PortOK
    <3> QED BY <2>1, <3>1, <3>2, <3>3, <3>4 DEF PortOK, Fsms
  <2> QED BY <2>2, <2>3, <2>4
<1> QED BY <1>11, <1>12, <1>13, <1>14 DEF PInv

\* The queue, the windows and the ports always are in states of their types.
\* (TypeOK of LsqProperties.)
THEOREM QueueTypesOK == Spec => []TypeOK
<1>1. Init => PInv
  BY InitPorts
<1>2. PInv /\ [Next]_vars => PInv'
  <2>1. PInv /\ UNCHANGED vars => PInv'
    BY DEF vars, PInv, TypeOK, ThreadsOK, OneBranch, PortOK, Unresolved, InFlight, Age
  <2> QED BY <2>1, NextPorts
<1>3. PInv => TypeOK
  BY DEF PInv
<1> QED BY <1>1, <1>2, <1>3, PTL DEF Spec

(***************************************************************************)
(* The queue and the windows.  SlotsAgree is inductive with three facts    *)
(* added: a slot holds a memory instruction, the slot of the load that is  *)
(* out holds a load, and a load that is finished has left its slot.  The   *)
(* last is what keeps a slot from outliving the entry it names.            *)
(***************************************************************************)
Held(i, t, tag) == Names(i, t, tag) /\ ~Discarded(i)

SlotsNamed == \A i \in Slots : slots[i].busy /\ ~Discarded(i) =>
                /\ InFlight(slots[i].tid, slots[i].tag)
                /\ slots[i].insn = rob[slots[i].tid][slots[i].tag].insn
MemoryOnly == \A i \in Slots : slots[i].busy => slots[i].insn.kind \in {"load", "store"}
HeldOnce == \A t \in Threads, tag \in Tags : InFlight(t, tag) =>
              /\ \A i, j \in Slots : Held(i, t, tag) /\ Held(j, t, tag) => i = j
              /\ rob[t][tag].insn.kind = "load" /\ rob[t][tag].done => \A i \in Slots : ~Held(i, t, tag)
              /\ rob[t][tag].insn.kind = "store" => \E i \in Slots : Held(i, t, tag)
              /\ rob[t][tag].insn.kind = "load" /\ ~rob[t][tag].done => \E i \in Slots : Held(i, t, tag)
OutHeld == out.valid => /\ slots[out.idx].busy /\ slots[out.idx].insn.kind = "load"
                        /\ out.squashed \/ Names(out.idx, out.tid, out.tag)

SlotsHold == SlotsNamed /\ MemoryOnly /\ HeldOnce /\ OutHeld

SInv == PInv /\ (torn \/ SlotsHold)

\* Why a slot is freed; and one that is was busy.
LEMMA VacatedAre ==
  ASSUME PInv, OutHeld, NEW n \in Retires, NEW br, NEW hit, NEW grant, NEW i \in Slots
  PROVE  /\ i \in Vacated(n, br, hit, grant) <=>
              \/ Answered /\ i = out.idx
              \/ grant /\ ~PrimaryFire /\ Port2Req /\ hit /\ i = Probed
              \/ \E t \in Threads : \E tag \in StoresIn(t, n[t]) : i \in SlotOf(t, tag)
              \/ i \in Squashed(br) /\ ~(out.valid /\ i = out.idx)
         /\ i \in Vacated(n, br, hit, grant) => slots[i].busy
         /\ Port2Req => /\ Probed \in Slots /\ slots[Probed].busy /\ slots[Probed].insn.kind = "load"
                        /\ ~(out.valid /\ Probed = out.idx)
<1>1. /\ Port2Req => /\ Probed \in Slots /\ slots[Probed].busy /\ slots[Probed].insn.kind = "load"
                     /\ ~(out.valid /\ Probed = out.idx)
  <2>1. Port2Req => Probed \in Second /\ Probed \in Slots
    BY BroadcastIs
  <2> QED BY <2>1 DEF Second, Candidates, Resident, OutstandingSlot
<1>2. i \in PushedSlots(n) <=> \E t \in Threads : \E tag \in StoresIn(t, n[t]) : i \in SlotOf(t, tag)
  <2>1. ASSUME i \in PushedSlots(n)
        PROVE  \E t \in Threads : \E tag \in StoresIn(t, n[t]) : i \in SlotOf(t, tag)
    <3>1. PICK p \in Pushed(n) : i \in SlotOf(p[1], p[2])
      BY <2>1 DEF PushedSlots
    <3>2. p[1] \in Threads /\ p[2] \in StoresIn(p[1], n[p[1]])
      BY <3>1 DEF Pushed
    <3> QED BY <3>1, <3>2
  <2>2. ASSUME NEW t \in Threads, NEW tag \in StoresIn(t, n[t]), i \in SlotOf(t, tag)
        PROVE  i \in PushedSlots(n)
    <3>1. tag \in Tags
      BY RetiringIs DEF StoresIn, PInv
    <3>2. <<t, tag>> \in Threads \X Tags /\ <<t, tag>>[1] = t /\ <<t, tag>>[2] = tag
      BY <3>1
    <3>3. PICK p \in Threads \X Tags : p[1] = t /\ p[2] = tag
      BY <3>2
    <3>4. p \in Pushed(n)
      BY <3>3, <2>2 DEF Pushed
    <3> QED BY <2>2, <3>3, <3>4 DEF PushedSlots
  <2> QED BY <2>1, <2>2
<1>3. /\ i \in Squashed(br) \ OutstandingSlot <=> i \in Squashed(br) /\ ~(out.valid /\ i = out.idx)
      /\ i \in (IF Answered THEN {out.idx} ELSE {}) <=> Answered /\ i = out.idx
      /\ i \in (IF grant /\ ~PrimaryFire /\ Port2Req /\ hit THEN {Probed} ELSE {}) <=>
           grant /\ ~PrimaryFire /\ Port2Req /\ hit /\ i = Probed
  BY DEF OutstandingSlot
<1>4. i \in Vacated(n, br, hit, grant) <=>
        \/ i \in (IF Answered THEN {out.idx} ELSE {})
        \/ i \in (IF grant /\ ~PrimaryFire /\ Port2Req /\ hit THEN {Probed} ELSE {})
        \/ i \in PushedSlots(n)
        \/ i \in Squashed(br) \ OutstandingSlot
  BY Zenon DEF Vacated
<1>5. i \in Vacated(n, br, hit, grant) <=>
        \/ Answered /\ i = out.idx
        \/ grant /\ ~PrimaryFire /\ Port2Req /\ hit /\ i = Probed
        \/ \E t \in Threads : \E tag \in StoresIn(t, n[t]) : i \in SlotOf(t, tag)
        \/ i \in Squashed(br) /\ ~(out.valid /\ i = out.idx)
  BY <1>2, <1>3, <1>4, Zenon
<1>6. /\ Answered /\ i = out.idx => slots[i].busy
      /\ \A t \in Threads : \A tag \in StoresIn(t, n[t]) : i \in SlotOf(t, tag) => slots[i].busy
      /\ i \in Squashed(br) => slots[i].busy
  BY DEF Answered, OutHeld, SlotOf, Resident, Squashed
<1> QED BY <1>1, <1>5, <1>6, Zenon

\* A slot that was busy before the edge and is busy after it holds what it
\* held; of one that was not, a lane fills it.
LEMMA KeptSlot ==
  ASSUME PInv, OutHeld, NEW n, NEW br, NEW d, NEW hit, NEW grant, Edge(n, br, d, hit, grant),
         NEW i \in Slots
  PROVE  /\ slots[i].busy /\ i \notin Vacated(n, br, hit, grant) =>
              /\ ~Taken(d, i) /\ slots'[i].busy /\ slots'[i].tid = slots[i].tid
              /\ slots'[i].tag = slots[i].tag /\ slots'[i].insn = slots[i].insn
         /\ slots[i].busy /\ slots'[i].busy => i \notin Vacated(n, br, hit, grant)
         /\ ~slots[i].busy /\ slots'[i].busy =>
              \E l \in MemLanes(d.group) : SlotFor(d.group, l) = i /\ slots'[i] = Filled(d, l)
         /\ Taken(d, i) => /\ ~slots[i].busy
                           /\ \E l \in MemLanes(d.group) : SlotFor(d.group, l) = i /\ slots'[i] = Filled(d, l)
<1>1. TypeOK /\ n \in Retires /\ d \in Dispatches(br)
  BY DEF PInv, Edge
<1>2. Taken(d, i) => ~slots[i].busy
  <2>1. \A l \in MemLanes(d.group) : SlotFor(d.group, l) \in Free
    BY <1>1, SlotForIs
  <2> QED BY <2>1 DEF Taken, Free
<1>3. i \in Vacated(n, br, hit, grant) => slots[i].busy /\ slots'[i] = Empty
  BY <1>1, VacatedAre, SlotsAfter
<1>4. ~Empty.busy
  BY DEF Empty
<1>5. i \notin Vacated(n, br, hit, grant) /\ Taken(d, i) =>
        \E l \in MemLanes(d.group) : SlotFor(d.group, l) = i /\ slots'[i] = Filled(d, l)
  BY <1>1, SlotsAfter
<1>6. i \notin Vacated(n, br, hit, grant) /\ ~Taken(d, i) =>
        /\ slots'[i].busy = slots[i].busy /\ slots'[i].tid = slots[i].tid
        /\ slots'[i].tag = slots[i].tag /\ slots'[i].insn = slots[i].insn
  BY <1>1, SlotsAfter
<1>7. /\ i \in Vacated(n, br, hit, grant) => ~slots'[i].busy
      /\ i \notin Vacated(n, br, hit, grant) /\ ~Taken(d, i) => (slots'[i].busy <=> slots[i].busy)
  <2>1. slots'[i] = Empty => ~slots'[i].busy
    BY <1>4
  <2> QED BY <1>3, <1>6, <2>1, Zenon
<1> QED BY <1>2, <1>3, <1>5, <1>6, <1>7, Zenon

\* The slot of the load that is out after the edge was busy with it.
LEMMA OutHeldAfter ==
  ASSUME PInv, SlotsHold, NEW n, NEW br, NEW d, NEW hit, NEW grant, Edge(n, br, d, hit, grant),
         ~Torn(n, br, grant), out'.valid
  PROVE  /\ out'.idx \in Slots /\ slots[out'.idx].busy /\ slots[out'.idx].insn.kind = "load"
         /\ out'.idx \notin Vacated(n, br, hit, grant)
         /\ out'.squashed \/ (slots[out'.idx].tid = out'.tid /\ slots[out'.idx].tag = out'.tag)
<1>1. PInv /\ OutHeld /\ n \in Retires /\ OutNext(br)
  BY DEF SlotsHold, Edge
<1>2. CASE IssueLoad
  <2>1. /\ out'.idx = Issued /\ out'.tid = slots[Issued].tid /\ out'.tag = slots[Issued].tag
        /\ Issued \in Candidates /\ Issued \in Slots
    BY <1>1, <1>2, OutAfter
  <2>2. slots[Issued].busy /\ slots[Issued].insn.kind = "load"
    BY <2>1 DEF Candidates, Resident
  <2>3. l1.fsm = "IDLE" /\ ~out.valid /\ ~drain.valid
    BY <1>2 DEF IssueLoad, PInv, PortOK
  <2>4. ~Answered /\ ~Port2Req
    BY <2>3 DEF Answered, Port2Req
  <2>5. \A t \in Threads : \A tag \in StoresIn(t, n[t]) : Issued \notin SlotOf(t, tag)
    BY <2>2 DEF SlotOf, Resident
  <2>6. Issued \notin Squashed(br)
    BY <1>2 DEF Torn
  <2>7. PICK i \in Slots : i = Issued
    BY <2>1
  <2>8. i \notin Vacated(n, br, hit, grant)
    <3>1. i \in Vacated(n, br, hit, grant) <=>
              \/ Answered /\ i = out.idx
              \/ grant /\ ~PrimaryFire /\ Port2Req /\ hit /\ i = Probed
              \/ \E t \in Threads : \E tag \in StoresIn(t, n[t]) : i \in SlotOf(t, tag)
              \/ i \in Squashed(br) /\ ~(out.valid /\ i = out.idx)
      BY <1>1, VacatedAre
    <3> QED BY <2>4, <2>5, <2>6, <2>7, <3>1
  <2> QED BY <2>1, <2>2, <2>7, <2>8
<1>3. CASE ~IssueLoad
  <2>1. out.valid /\ ~Answered
    BY <1>1, <1>3, OutAfter
  <2>2. out'.idx = out.idx /\ out'.tid = out.tid /\ out'.tag = out.tag
    BY <1>1, <1>3, OutAfter
  <2>3. out.squashed => out'.squashed
    BY <1>1, <1>3, OutAfter
  <2>4. /\ slots[out.idx].busy /\ slots[out.idx].insn.kind = "load"
        /\ out.squashed \/ (slots[out.idx].tid = out.tid /\ slots[out.idx].tag = out.tag)
    BY <2>1 DEF SlotsHold, OutHeld, Names
  <2>5. PICK i \in Slots : i = out.idx
    BY DEF PInv, TypeOK
  <2>6. i \notin Vacated(n, br, hit, grant)
    <3>1. i \in Vacated(n, br, hit, grant) <=>
              \/ Answered /\ i = out.idx
              \/ grant /\ ~PrimaryFire /\ Port2Req /\ hit /\ i = Probed
              \/ \E t \in Threads : \E tag \in StoresIn(t, n[t]) : i \in SlotOf(t, tag)
              \/ i \in Squashed(br) /\ ~(out.valid /\ i = out.idx)
      BY <1>1, VacatedAre
    <3>2. Port2Req => ~(out.valid /\ Probed = out.idx)
      BY <1>1, VacatedAre
    <3>3. \A t \in Threads : \A tag \in StoresIn(t, n[t]) : i \notin SlotOf(t, tag)
      BY <2>4, <2>5 DEF SlotOf, Resident
    <3> QED BY <2>1, <2>5, <3>1, <3>2, <3>3
  <2> QED BY <2>2, <2>3, <2>4, <2>5, <2>6
<1> QED BY <1>2, <1>3

\* Which tags a result or a finished store names: those that a slot holds,
\* which is freed if it is a load's.
LEMMA ResultIs ==
  ASSUME PInv, SlotsHold, NEW n, NEW br, NEW d, NEW hit, NEW grant, Edge(n, br, d, hit, grant),
         NEW t \in Threads, NEW tag \in Tags
  PROVE  /\ (\E r \in Broadcast(hit, grant) : r.tid = t /\ r.tag = tag) =>
              \E i \in Slots : /\ Held(i, t, tag) /\ i \in Vacated(n, br, hit, grant)
                               /\ slots[i].insn.kind = "load"
         /\ (\E i \in StoreReady : slots[i].tid = t /\ slots[i].tag = tag) =>
              \E i \in Slots : Held(i, t, tag) /\ slots[i].insn.kind = "store"
<1>1. n \in Retires /\ OutHeld
  BY DEF Edge, SlotsHold
<1>2. ASSUME NEW r \in Broadcast(hit, grant), r.tid = t, r.tag = tag
      PROVE  \E i \in Slots : /\ Held(i, t, tag) /\ i \in Vacated(n, br, hit, grant)
                              /\ slots[i].insn.kind = "load"
  <2>1. /\ grant
        /\ \/ PrimaryFire /\ r.tid = out.tid /\ r.tag = out.tag
           \/ /\ ~PrimaryFire /\ Port2Req /\ hit
              /\ r.tid = slots[Probed].tid /\ r.tag = slots[Probed].tag
    BY BroadcastIs
  <2>2. CASE PrimaryFire /\ r.tid = out.tid /\ r.tag = out.tag
    <3>1. Answered /\ ~out.squashed /\ out.valid
      BY <2>2 DEF PrimaryFire, Answered
    <3>2. PICK i \in Slots : i = out.idx
      BY DEF PInv, TypeOK
    <3>3. i \in Vacated(n, br, hit, grant)
      BY <1>1, <3>1, <3>2, VacatedAre
    <3>4. Names(i, out.tid, out.tag) /\ ~Discarded(i) /\ slots[i].insn.kind = "load"
      BY <3>1, <3>2, <1>1 DEF OutHeld, Discarded
    <3> QED BY <1>2, <2>2, <3>3, <3>4 DEF Held
  <2>3. CASE /\ ~PrimaryFire /\ Port2Req /\ hit
             /\ r.tid = slots[Probed].tid /\ r.tag = slots[Probed].tag
    <3>1. /\ Probed \in Slots /\ slots[Probed].busy /\ slots[Probed].insn.kind = "load"
          /\ ~(out.valid /\ Probed = out.idx)
      <4>1. PICK j \in Slots : j = Probed
        BY <2>3, BroadcastIs
      <4> QED BY <1>1, <2>3, <4>1, VacatedAre
    <3>2. PICK i \in Slots : i = Probed
      BY <3>1
    <3>3. i \in Vacated(n, br, hit, grant)
      BY <1>1, <2>1, <2>3, <3>2, VacatedAre
    <3>4. Names(i, t, tag) /\ ~Discarded(i)
      BY <1>2, <2>3, <3>1, <3>2 DEF Names, Discarded
    <3> QED BY <3>1, <3>2, <3>3, <3>4 DEF Held
  <2> QED BY <2>1, <2>2, <2>3, Zenon
<1>3. ASSUME NEW i \in StoreReady, slots[i].tid = t, slots[i].tag = tag
      PROVE  i \in Slots /\ Held(i, t, tag) /\ slots[i].insn.kind = "store"
  <2>1. i \in Slots /\ slots[i].busy /\ slots[i].insn.kind = "store"
    BY DEF StoreReady, Resident
  <2>2. ~Discarded(i)
    BY <1>1, <2>1 DEF Discarded, OutHeld
  <2> QED BY <1>3, <2>1, <2>2 DEF Held, Names
<1> QED BY <1>2, <1>3, Zenon

\* A slot that is kept and not marked names an entry that stays.
LEMMA KeptStays ==
  ASSUME PInv, SlotsHold, NEW n, NEW br, NEW d, NEW hit, NEW grant, Edge(n, br, d, hit, grant),
         NEW i \in Slots, slots[i].busy, slots'[i].busy,
         ~(out'.valid /\ out'.squashed /\ out'.idx = i)
  PROVE  ~Discarded(i) /\ Stays(n, br, slots[i].tid, slots[i].tag)
<1>1. n \in Retires /\ OutHeld /\ OutNext(br) /\ TypeOK
  BY DEF Edge, SlotsHold, PInv
<1>2. /\ i \notin Vacated(n, br, hit, grant)
      /\ ~(Answered /\ i = out.idx)
      /\ \A t \in Threads : \A tag \in StoresIn(t, n[t]) : i \notin SlotOf(t, tag)
      /\ ~(i \in Squashed(br) /\ ~(out.valid /\ i = out.idx))
  <2>1. i \notin Vacated(n, br, hit, grant)
    BY <1>1, KeptSlot
  <2>2. i \in Vacated(n, br, hit, grant) <=>
              \/ Answered /\ i = out.idx
              \/ grant /\ ~PrimaryFire /\ Port2Req /\ hit /\ i = Probed
              \/ \E t \in Threads : \E tag \in StoresIn(t, n[t]) : i \in SlotOf(t, tag)
              \/ i \in Squashed(br) /\ ~(out.valid /\ i = out.idx)
    BY <1>1, VacatedAre
  <2> QED BY <2>1, <2>2, Zenon
<1>3. out.valid /\ i = out.idx =>
        /\ out'.valid /\ out'.idx = i
        /\ out'.squashed <=> out.squashed \/ Younger(br, out.tid, out.tag)
  <2> SUFFICES ASSUME out.valid, i = out.idx
               PROVE  /\ out'.valid /\ out'.idx = i
                      /\ out'.squashed <=> out.squashed \/ Younger(br, out.tid, out.tag)
    OBVIOUS
  <2>1. ~IssueLoad
    BY DEF IssueLoad
  <2>2. ~Answered
    BY <1>2
  <2> QED BY <1>1, <2>1, <2>2, OutAfter
<1>4. ~Discarded(i)
  BY <1>3 DEF Discarded
<1>5. PICK t \in Threads, tag \in Tags : t = slots[i].tid /\ tag = slots[i].tag
  BY <1>1 DEF PInv, ThreadsOK, TypeOK
<1>6. InFlight(t, tag) /\ slots[i].insn = rob[t][tag].insn /\ slots[i].insn.kind \in {"load", "store"}
  BY <1>4, <1>5 DEF SlotsHold, SlotsNamed, MemoryOnly
<1>7. Held(i, t, tag)
  BY <1>4, <1>5 DEF Held, Names
<1>8. ~Younger(br, t, tag)
  <2> SUFFICES ASSUME Younger(br, t, tag) PROVE FALSE
    OBVIOUS
  <2>1. i \in Squashed(br)
    BY <1>5 DEF Squashed
  <2>2. out.valid /\ i = out.idx
    BY <1>2, <2>1
  <2>3. ~out.squashed
    BY <1>4, <2>2 DEF Discarded
  <2>4. out.tid = t /\ out.tag = tag
    BY <1>1, <1>5, <2>2, <2>3 DEF OutHeld, Names
  <2> QED BY <1>3, <2>2, <2>4
<1>9. Age(t, tag) >= n[t]
  <2>1. head[t] \in Tags /\ n[t] \in 0 .. Depth
    BY <1>1, RetiringIs DEF TypeOK
  <2>2. Age(t, tag) \in 0 .. Depth - 1
    BY <2>1, AgesIs
  <2> SUFFICES ASSUME Age(t, tag) < n[t] PROVE FALSE
    BY <2>1, <2>2
  <2>3. tag \in Retiring(t, n[t]) /\ rob[t][tag].done
    BY <1>1, RetiringIs
  <2>4. CASE slots[i].insn.kind = "load"
    BY <1>6, <1>7, <2>3, <2>4 DEF SlotsHold, HeldOnce
  <2>5. CASE slots[i].insn.kind = "store"
    <3>1. tag \in StoresIn(t, n[t])
      BY <1>6, <2>3, <2>5 DEF StoresIn
    <3>2. i \in SlotOf(t, tag)
      BY <1>5, <2>5 DEF SlotOf, Resident
    <3> QED BY <1>2, <3>1, <3>2
  <2> QED BY <1>6, <2>4, <2>5
<1>10. Stays(n, br, t, tag)
  BY <1>6, <1>8, <1>9 DEF Stays
<1> QED BY <1>4, <1>5, <1>10

\* A slot of an entry that stays is kept, unless a result takes it.
LEMMA StaysKept ==
  ASSUME PInv, SlotsHold, NEW n, NEW br, NEW d, NEW hit, NEW grant, Edge(n, br, d, hit, grant),
         ~Torn(n, br, grant), NEW t \in Threads, NEW tag \in Tags, Stays(n, br, t, tag),
         NEW i \in Slots, Held(i, t, tag), rob[t][tag].insn.kind = "store" \/ ~rob'[t][tag].done
  PROVE  /\ i \notin Vacated(n, br, hit, grant)
         /\ ~(out'.valid /\ out'.squashed /\ out'.idx = i)
<1>1. n \in Retires /\ OutHeld /\ OutNext(br) /\ TypeOK
  BY DEF Edge, SlotsHold, PInv
<1>2. slots[i].busy /\ slots[i].tid = t /\ slots[i].tag = tag /\ ~Discarded(i)
  BY DEF Held, Names
<1>3. slots[i].insn = rob[t][tag].insn /\ slots[i].insn.kind \in {"load", "store"}
  BY <1>2 DEF SlotsHold, SlotsNamed, MemoryOnly
<1>4. slots[i].insn.kind = "load" => ~rob'[t][tag].done
  BY <1>3
<1>5. ASSUME NEW r \in Broadcast(hit, grant), r.tid = t, r.tag = tag PROVE rob'[t][tag].done
  <2>1. rob'[t][tag].done <=>
                   \/ \E q \in Broadcast(hit, grant) : q.tid = t /\ q.tag = tag
                   \/ \E j \in StoreReady : slots[j].tid = t /\ slots[j].tag = tag
                   \/ br[t] # "wait" /\ tag \in Unresolved(t)
                   \/ rob[t][tag].done /\ LanesAt(d, t, tag) = {}
    BY RobAfter
  <2> QED BY <1>5, <2>1, Zenon
<1>6. ~(Answered /\ i = out.idx)
  <2> SUFFICES ASSUME Answered, i = out.idx PROVE FALSE
    OBVIOUS
  <2>1. out.valid /\ ~out.squashed /\ slots[i].insn.kind = "load"
    BY <1>1, <1>2 DEF Answered, Discarded, OutHeld
  <2>2. PrimaryFire /\ out.tid = t /\ out.tag = tag
    BY <1>1, <1>2, <2>1 DEF PrimaryFire, OutHeld, Names
  <2>3. grant
    BY <2>2 DEF Torn
  <2>4. \E r \in Broadcast(hit, grant) : r.tid = out.tid /\ r.tag = out.tag
    BY <2>2, <2>3, BroadcastIs
  <2> QED BY <1>4, <1>5, <2>1, <2>2, <2>4
<1>7. ~(grant /\ ~PrimaryFire /\ Port2Req /\ hit /\ i = Probed)
  <2> SUFFICES ASSUME grant /\ ~PrimaryFire /\ Port2Req /\ hit /\ i = Probed PROVE FALSE
    OBVIOUS
  <2>1. slots[Probed].insn.kind = "load"
    BY <1>1, VacatedAre
  <2>2. \E r \in Broadcast(hit, grant) : r.tid = slots[Probed].tid /\ r.tag = slots[Probed].tag
    BY BroadcastIs
  <2> QED BY <1>2, <1>4, <1>5, <2>1, <2>2
<1>8. ASSUME NEW u \in Threads, NEW s \in StoresIn(u, n[u]) PROVE i \notin SlotOf(u, s)
  <2> SUFFICES ASSUME i \in SlotOf(u, s) PROVE FALSE
    OBVIOUS
  <2>1. u = t /\ s = tag
    BY <1>2 DEF SlotOf
  <2>2. tag \in Retiring(t, n[t])
    BY <1>8, <2>1 DEF StoresIn
  <2>3. Age(t, tag) < n[t] /\ n[t] \in 0 .. Depth
    BY <1>1, <2>2, RetiringIs
  <2>4. Age(t, tag) >= n[t] /\ Age(t, tag) \in 0 .. Depth - 1
    <3>1. head[t] \in Tags
      BY <1>1 DEF TypeOK
    <3> QED BY <3>1, AgesIs DEF Stays
  <2> QED BY <2>3, <2>4, LsqAssumption
<1>9. i \notin Squashed(br)
  BY <1>2 DEF Squashed, Stays
<1>10. i \notin Vacated(n, br, hit, grant)
  <2>1. i \in Vacated(n, br, hit, grant) <=>
              \/ Answered /\ i = out.idx
              \/ grant /\ ~PrimaryFire /\ Port2Req /\ hit /\ i = Probed
              \/ \E u \in Threads : \E s \in StoresIn(u, n[u]) : i \in SlotOf(u, s)
              \/ i \in Squashed(br) /\ ~(out.valid /\ i = out.idx)
    BY <1>1, VacatedAre
  <2> QED BY <1>6, <1>7, <1>8, <1>9, <2>1, Zenon
<1>11. ASSUME out'.valid, out'.squashed, out'.idx = i PROVE FALSE
  <2>1. ~IssueLoad
    BY <1>1, <1>11, OutAfter
  <2>2. out.valid /\ out.idx = i /\ (out.squashed \/ Younger(br, out.tid, out.tag))
    BY <1>1, <1>11, <2>1, OutAfter
  <2>3. ~out.squashed
    BY <1>2, <2>2 DEF Discarded
  <2>4. out.tid = t /\ out.tag = tag
    BY <1>1, <1>2, <2>2, <2>3 DEF OutHeld, Names
  <2> QED BY <2>2, <2>3, <2>4 DEF Stays
<1> QED BY <1>10, <1>11

\* A slot that is filled names the entry of its lane.
LEMMA FilledIs ==
  ASSUME PInv, NEW br, NEW d \in Dispatches(br), NEW l \in MemLanes(d.group)
  PROVE  /\ d.tid \in Threads /\ LaneTag(d.tid, l) \in Tags
         /\ l \in LanesAt(d, d.tid, LaneTag(d.tid, l))
         /\ Filled(d, l).busy /\ Filled(d, l).tid = d.tid /\ Filled(d, l).tag = LaneTag(d.tid, l)
         /\ Filled(d, l).insn = d.group[l] /\ d.group[l].kind \in {"load", "store"}
<1>1. /\ d.tid \in Threads /\ Len(d.group) \in Nat /\ DOMAIN d.group = 1 .. Len(d.group)
      /\ Len(d.group) <= Depth - count[d.tid]
  BY DispatchIs DEF PInv
<1>2. l \in 1 .. Len(d.group) /\ d.group[l].kind \in {"load", "store"}
  BY <1>1 DEF MemLanes, IsMem
<1>3. head[d.tid] \in Tags /\ count[d.tid] \in 0 .. Depth /\ Depth \in Nat
  BY <1>1, LsqAssumption DEF PInv, TypeOK
<1>4. l \in 1 .. Depth - count[d.tid]
  BY <1>1, <1>2, <1>3
<1>5. LaneTag(d.tid, l) \in Tags
  BY <1>1, <1>3, <1>4, LaneAge
<1>6. l \in LanesAt(d, d.tid, LaneTag(d.tid, l))
  BY <1>1, <1>2 DEF LanesAt
<1> QED BY <1>1, <1>2, <1>5, <1>6 DEF Filled

\* After an edge without a collision the slots name entries in flight.
LEMMA NamedAfter ==
  ASSUME PInv, SlotsHold, NEW n, NEW br, NEW d, NEW hit, NEW grant, Edge(n, br, d, hit, grant),
         ~Torn(n, br, grant)
  PROVE  SlotsNamed' /\ MemoryOnly' /\ OutHeld'
<1>1. n \in Retires /\ d \in Dispatches(br) /\ OutHeld /\ TypeOK
  BY DEF Edge, SlotsHold, PInv
<1>2. ASSUME NEW i \in Slots, slots'[i].busy, ~slots[i].busy
      PROVE  \E t \in Threads, tag \in Tags :
               /\ slots'[i].tid = t /\ slots'[i].tag = tag /\ InFlight(t, tag)'
               /\ slots'[i].insn = rob'[t][tag].insn /\ slots'[i].insn.kind \in {"load", "store"}
  <2>1. PICK l \in MemLanes(d.group) : slots'[i] = Filled(d, l)
    BY <1>1, <1>2, KeptSlot
  <2>2. PICK t \in Threads, tag \in Tags : t = d.tid /\ tag = LaneTag(d.tid, l)
    BY <1>1, FilledIs
  <2>3. /\ l \in LanesAt(d, t, tag)
        /\ Filled(d, l).tid = t /\ Filled(d, l).tag = tag
        /\ Filled(d, l).insn = d.group[l] /\ d.group[l].kind \in {"load", "store"}
    BY <1>1, <2>2, FilledIs
  <2>4. InFlight(t, tag)'
    BY <2>3, WindowAfter
  <2>5. rob'[t][tag].insn = d.group[l]
    BY <2>3, RobAfter
  <2> QED BY <2>1, <2>3, <2>4, <2>5
<1>3. ASSUME NEW i \in Slots, slots'[i].busy, slots[i].busy
      PROVE  /\ slots'[i].tid = slots[i].tid /\ slots'[i].tag = slots[i].tag
             /\ slots'[i].insn = slots[i].insn /\ slots[i].insn.kind \in {"load", "store"}
  BY <1>1, <1>3, KeptSlot DEF SlotsHold, MemoryOnly
<1>4. ASSUME NEW i \in Slots, slots'[i].busy, slots[i].busy,
             ~(out'.valid /\ out'.squashed /\ out'.idx = i)
      PROVE  \E t \in Threads, tag \in Tags :
               /\ slots'[i].tid = t /\ slots'[i].tag = tag /\ InFlight(t, tag)'
               /\ slots'[i].insn = rob'[t][tag].insn
  <2>1. PICK t \in Threads, tag \in Tags : t = slots[i].tid /\ tag = slots[i].tag
    BY <1>1, <1>4 DEF PInv, ThreadsOK, TypeOK
  <2>2. ~Discarded(i) /\ Stays(n, br, t, tag)
    BY <1>4, <2>1, KeptStays
  <2>3. InFlight(t, tag) /\ slots[i].insn = rob[t][tag].insn
    BY <1>4, <2>1, <2>2 DEF SlotsHold, SlotsNamed
  <2>4. LanesAt(d, t, tag) = {}
    BY <1>1, <2>3, LanesAre
  <2>5. rob'[t][tag].insn = rob[t][tag].insn /\ InFlight(t, tag)'
    BY <2>2, <2>4, RobAfter, WindowAfter
  <2> QED BY <1>3, <1>4, <2>1, <2>3, <2>5
<1>5. SlotsNamed'
  <2>1. ASSUME NEW i \in Slots, slots'[i].busy, ~(out'.valid /\ out'.squashed /\ out'.idx = i)
        PROVE  \E t \in Threads, tag \in Tags :
                 /\ slots'[i].tid = t /\ slots'[i].tag = tag /\ InFlight(t, tag)'
                 /\ slots'[i].insn = rob'[t][tag].insn
    <3>1. CASE slots[i].busy
      BY <1>4, <2>1, <3>1
    <3>2. CASE ~slots[i].busy
      BY <1>2, <2>1, <3>2
    <3> QED BY <3>1, <3>2
  <2> QED BY <2>1 DEF SlotsNamed, Discarded, InFlight, Age
<1>6. MemoryOnly'
  BY <1>2, <1>3 DEF MemoryOnly
<1>7. OutHeld'
  <2>1. ASSUME out'.valid
        PROVE  /\ slots'[out'.idx].busy /\ slots'[out'.idx].insn.kind = "load"
               /\ out'.squashed \/ (slots'[out'.idx].tid = out'.tid /\ slots'[out'.idx].tag = out'.tag)
    <3>1. /\ out'.idx \in Slots /\ slots[out'.idx].busy /\ slots[out'.idx].insn.kind = "load"
          /\ out'.idx \notin Vacated(n, br, hit, grant)
          /\ out'.squashed \/ (slots[out'.idx].tid = out'.tid /\ slots[out'.idx].tag = out'.tag)
      BY <2>1, OutHeldAfter
    <3>2. PICK i \in Slots : i = out'.idx
      BY <3>1
    <3>3. /\ slots'[i].busy /\ slots'[i].tid = slots[i].tid
          /\ slots'[i].tag = slots[i].tag /\ slots'[i].insn = slots[i].insn
      BY <1>1, <3>1, <3>2, KeptSlot
    <3> QED BY <3>1, <3>2, <3>3
  <2> QED BY <2>1 DEF OutHeld, Names
<1> QED BY <1>5, <1>6, <1>7

\* And each unfinished memory instruction in flight has one slot.
LEMMA HeldAfter ==
  ASSUME PInv, SlotsHold, NEW n, NEW br, NEW d, NEW hit, NEW grant, Edge(n, br, d, hit, grant),
         ~Torn(n, br, grant), NEW t \in Threads, NEW tag \in Tags, InFlight(t, tag)'
  PROVE  /\ \A i, j \in Slots : Held(i, t, tag)' /\ Held(j, t, tag)' => i = j
         /\ rob'[t][tag].insn.kind = "load" /\ rob'[t][tag].done => \A i \in Slots : ~Held(i, t, tag)'
         /\ rob'[t][tag].insn.kind = "store" => \E i \in Slots : Held(i, t, tag)'
         /\ rob'[t][tag].insn.kind = "load" /\ ~rob'[t][tag].done => \E i \in Slots : Held(i, t, tag)'
<1>1. n \in Retires /\ d \in Dispatches(br) /\ OutHeld /\ TypeOK
  BY DEF Edge, SlotsHold, PInv
<1>2. rob'[t][tag].done <=>
                   \/ \E r \in Broadcast(hit, grant) : r.tid = t /\ r.tag = tag
                   \/ \E i \in StoreReady : slots[i].tid = t /\ slots[i].tag = tag
                   \/ br[t] # "wait" /\ tag \in Unresolved(t)
                   \/ rob[t][tag].done /\ LanesAt(d, t, tag) = {}
  BY RobAfter
<1>3. \A i \in Slots : Held(i, t, tag)' <=>
        /\ slots'[i].busy /\ slots'[i].tid = t /\ slots'[i].tag = tag
        /\ ~(out'.valid /\ out'.squashed /\ out'.idx = i)
  BY DEF Held, Names, Discarded
<1>4. \A i \in Slots : Held(i, t, tag)' /\ slots[i].busy => Held(i, t, tag) /\ Stays(n, br, t, tag)
  <2> SUFFICES ASSUME NEW i \in Slots, slots[i].busy, slots'[i].busy, slots'[i].tid = t, slots'[i].tag = tag,
                      ~(out'.valid /\ out'.squashed /\ out'.idx = i)
               PROVE  Held(i, t, tag) /\ Stays(n, br, t, tag)
    BY <1>3
  <2>1. slots'[i].tid = slots[i].tid /\ slots'[i].tag = slots[i].tag
    BY <1>1, KeptSlot
  <2>2. ~Discarded(i) /\ Stays(n, br, slots[i].tid, slots[i].tag)
    BY KeptStays
  <2> QED BY <2>1, <2>2 DEF Held, Names
<1>5. ASSUME NEW i \in Slots, slots'[i].busy, ~slots[i].busy, slots'[i].tid = t, slots'[i].tag = tag
      PROVE  \E l \in LanesAt(d, t, tag) : l \in MemLanes(d.group) /\ SlotFor(d.group, l) = i
  <2>1. PICK l \in MemLanes(d.group) : SlotFor(d.group, l) = i /\ slots'[i] = Filled(d, l)
    BY <1>1, <1>5, KeptSlot
  <2>2. /\ l \in LanesAt(d, d.tid, LaneTag(d.tid, l))
        /\ Filled(d, l).tid = d.tid /\ Filled(d, l).tag = LaneTag(d.tid, l)
    BY <1>1, FilledIs
  <2> QED BY <1>5, <2>1, <2>2
<1>6. CASE LanesAt(d, t, tag) # {}
  <2>1. PICK k \in LanesAt(d, t, tag) : TRUE
    BY <1>6
  <2>2. LanesAt(d, t, tag) = {k} /\ ~InFlight(t, tag) /\ k \in 1 .. Len(d.group) /\ t = d.tid
        /\ LaneTag(t, k) = tag
    BY <1>1, <2>1, LanesAre
  <2>3. rob'[t][tag].insn = d.group[k]
    BY <2>1, RobAfter
  <2>4. \A i \in Slots : ~Held(i, t, tag)
    BY <2>2 DEF Held, Names, SlotsHold, SlotsNamed
  <2>5. ~rob'[t][tag].done
    <3>1. ~(\E r \in Broadcast(hit, grant) : r.tid = t /\ r.tag = tag)
      BY <2>4, ResultIs
    <3>2. ~(\E i \in StoreReady : slots[i].tid = t /\ slots[i].tag = tag)
      BY <2>4, ResultIs
    <3>3. tag \notin Unresolved(t)
      BY <2>2 DEF Unresolved
    <3> QED BY <1>2, <1>6, <3>1, <3>2, <3>3, Zenon
  <2>6. \A i \in Slots : Held(i, t, tag)' => i = SlotFor(d.group, k)
    <3> SUFFICES ASSUME NEW i \in Slots, Held(i, t, tag)' PROVE i = SlotFor(d.group, k)
      OBVIOUS
    <3>1. ~slots[i].busy
      BY <1>4, <2>4
    <3> QED BY <1>3, <1>5, <2>2, <3>1
  <2>7. ASSUME d.group[k].kind \in {"load", "store"} PROVE \E i \in Slots : Held(i, t, tag)'
    <3>1. k \in MemLanes(d.group)
      BY <1>1, <2>2, <2>7, DispatchIs DEF MemLanes, IsMem
    <3>2. PICK i \in Slots : i = SlotFor(d.group, k) /\ ~slots[i].busy
      BY <1>1, <3>1, SlotForIs DEF Free
    <3>3. Taken(d, i)
      BY <3>1, <3>2 DEF Taken
    <3>4. PICK l \in MemLanes(d.group) : SlotFor(d.group, l) = i /\ slots'[i] = Filled(d, l)
      BY <1>1, <3>3, KeptSlot
    <3>5. l = k
      BY <1>1, <3>1, <3>2, <3>4, SlotForIs
    <3>6. slots'[i].busy /\ slots'[i].tid = t /\ slots'[i].tag = tag
      BY <1>1, <2>2, <3>1, <3>4, <3>5, FilledIs
    <3>7. ~(out'.valid /\ out'.idx = i)
      BY <3>2, OutHeldAfter
    <3> QED BY <1>3, <3>6, <3>7
  <2> QED BY <2>3, <2>5, <2>6, <2>7
<1>7. CASE LanesAt(d, t, tag) = {}
  <2>1. Stays(n, br, t, tag) /\ InFlight(t, tag)
    BY <1>7, WindowAfter DEF Stays
  <2>2. rob'[t][tag].insn = rob[t][tag].insn
    BY <1>7, RobAfter
  <2>3. \A i \in Slots : Held(i, t, tag)' => Held(i, t, tag) /\ slots[i].busy
    BY <1>3, <1>4, <1>5, <1>7
  <2>4. \A i, j \in Slots : Held(i, t, tag) /\ Held(j, t, tag) => i = j
    BY <2>1 DEF SlotsHold, HeldOnce
  <2>5. \A i \in Slots : Held(i, t, tag) => slots[i].insn = rob[t][tag].insn
    BY DEF Held, Names, SlotsHold, SlotsNamed
  <2>6. ASSUME rob'[t][tag].insn.kind = "load", rob'[t][tag].done, NEW i \in Slots, Held(i, t, tag)'
        PROVE  FALSE
    <3>1. Held(i, t, tag) /\ slots[i].busy /\ slots'[i].busy
      BY <1>3, <2>3, <2>6
    <3>2. i \notin Vacated(n, br, hit, grant)
      BY <1>1, <3>1, KeptSlot
    <3>3. ~rob[t][tag].done
      BY <2>1, <2>2, <2>6, <3>1 DEF SlotsHold, HeldOnce
    <3>4. ~(\E r \in Broadcast(hit, grant) : r.tid = t /\ r.tag = tag)
      BY <2>4, <3>1, <3>2, ResultIs
    <3>5. ~(\E j \in StoreReady : slots[j].tid = t /\ slots[j].tag = tag)
      BY <2>2, <2>5, <2>6, ResultIs
    <3>6. tag \notin Unresolved(t)
      BY <2>2, <2>6 DEF Unresolved
    <3> QED BY <1>2, <2>6, <3>3, <3>4, <3>5, <3>6, Zenon
  <2>7. ASSUME NEW i \in Slots, Held(i, t, tag), rob[t][tag].insn.kind = "store" \/ ~rob'[t][tag].done
        PROVE  Held(i, t, tag)'
    <3>1. /\ i \notin Vacated(n, br, hit, grant)
          /\ ~(out'.valid /\ out'.squashed /\ out'.idx = i)
      BY <2>1, <2>7, StaysKept
    <3>2. slots'[i].busy /\ slots'[i].tid = slots[i].tid /\ slots'[i].tag = slots[i].tag
      BY <1>1, <2>7, <3>1, KeptSlot DEF Held, Names
    <3> QED BY <1>3, <2>7, <3>1, <3>2 DEF Held, Names
  <2>8. rob'[t][tag].insn.kind = "store" => \E i \in Slots : Held(i, t, tag)'
    <3>1. rob[t][tag].insn.kind = "store" => \E i \in Slots : Held(i, t, tag)
      BY <2>1 DEF SlotsHold, HeldOnce
    <3> QED BY <2>2, <2>7, <3>1
  <2>9. rob'[t][tag].insn.kind = "load" /\ ~rob'[t][tag].done => \E i \in Slots : Held(i, t, tag)'
    <3>1. ~rob'[t][tag].done => ~rob[t][tag].done
      BY <1>2, <1>7, Zenon
    <3>2. rob[t][tag].insn.kind = "load" /\ ~rob[t][tag].done => \E i \in Slots : Held(i, t, tag)
      BY <2>1 DEF SlotsHold, HeldOnce
    <3> QED BY <2>2, <2>7, <3>1, <3>2
  <2> QED BY <2>3, <2>4, <2>6, <2>8, <2>9
<1> QED BY <1>6, <1>7

\* The queue starts empty.
LEMMA InitSlots ==
  ASSUME Init
  PROVE  SInv
<1>1. PInv
  BY InitPorts
<1>2. (\A i \in Slots : ~slots[i].busy) /\ ~out.valid
  BY DEF Init, Empty
<1>3. \A t \in Threads, tag \in Tags : ~InFlight(t, tag)
  <2> SUFFICES ASSUME NEW t \in Threads, NEW tag \in Tags PROVE ~InFlight(t, tag)
    OBVIOUS
  <2>1. head[t] \in Tags /\ count[t] = 0
    BY <1>1 DEF Init, PInv, TypeOK
  <2>2. Age(t, tag) \in 0 .. Depth - 1
    BY <2>1, AgesIs
  <2> QED BY <2>1, <2>2, LsqAssumption DEF InFlight
<1>4. SlotsHold
  BY <1>2, <1>3 DEF SlotsHold, SlotsNamed, MemoryOnly, HeldOnce, OutHeld
<1> QED BY <1>1, <1>4 DEF SInv

\* Every edge preserves it, or is a collision.
LEMMA NextSlots ==
  ASSUME SInv, Next
  PROVE  SInv'
<1>1. PICK n, br, d, hit, grant : Edge(n, br, d, hit, grant)
  BY NextIs
<1>2. PInv /\ PInv'
  BY NextPorts DEF SInv
<1>3. SUFFICES ASSUME ~torn' PROVE SlotsHold'
  BY <1>2 DEF SInv
<1>4. ~torn /\ ~Torn(n, br, grant)
  BY <1>1, <1>3 DEF Edge
<1>5. SlotsHold
  BY <1>4 DEF SInv
<1>6. SlotsNamed' /\ MemoryOnly' /\ OutHeld'
  BY <1>1, <1>2, <1>4, <1>5, NamedAfter
<1>7. ASSUME NEW t \in Threads, NEW tag \in Tags, InFlight(t, tag)'
      PROVE  /\ \A i, j \in Slots : Held(i, t, tag)' /\ Held(j, t, tag)' => i = j
             /\ rob'[t][tag].insn.kind = "load" /\ rob'[t][tag].done => \A i \in Slots : ~Held(i, t, tag)'
             /\ rob'[t][tag].insn.kind = "store" => \E i \in Slots : Held(i, t, tag)'
             /\ rob'[t][tag].insn.kind = "load" /\ ~rob'[t][tag].done => \E i \in Slots : Held(i, t, tag)'
  BY <1>1, <1>2, <1>4, <1>5, <1>7, HeldAfter
<1>8. HeldOnce'
  BY <1>7 DEF HeldOnce
<1> QED BY <1>6, <1>8 DEF SlotsHold

\* SInv is more than the agreement that the runs check.
LEMMA HoldAgrees ==
  ASSUME PInv, SlotsHold
  PROVE  SlotsAgree
<1>1. ASSUME NEW t \in Threads, NEW tag \in Tags, InFlight(t, tag)
      PROVE  LET e == rob[t][tag]
                 held == {i \in Slots : Names(i, t, tag) /\ ~Discarded(i)}
             IN  /\ Cardinality(held) <= 1
                 /\ e.insn.kind = "store" \/ (e.insn.kind = "load" /\ ~e.done) => held # {}
  <2> DEFINE held == {i \in Slots : Names(i, t, tag) /\ ~Discarded(i)}
  <2>1. \A i, j \in held : i = j
    BY <1>1 DEF SlotsHold, HeldOnce, Held
  <2>2. Cardinality(held) <= 1
    <3>1. CASE held = {}
      BY <3>1, FS_EmptySet
    <3>2. CASE held # {}
      <4>1. PICK i \in held : held = {i}
        BY <2>1, <3>2
      <4>2. Cardinality({i}) = 1
        BY FS_Singleton
      <4> QED BY <4>1, <4>2
    <3> QED BY <3>1, <3>2
  <2>3. /\ rob[t][tag].insn.kind = "store" => held # {}
        /\ rob[t][tag].insn.kind = "load" /\ ~rob[t][tag].done => held # {}
    BY <1>1 DEF SlotsHold, HeldOnce, Held
  <2> QED BY <2>2, <2>3, Zenon
<1>2. /\ \A i \in Slots : slots[i].busy /\ ~Discarded(i) =>
            /\ InFlight(slots[i].tid, slots[i].tag)
            /\ slots[i].insn = rob[slots[i].tid][slots[i].tag].insn
      /\ out.valid => slots[out.idx].busy /\ (out.squashed \/ Names(out.idx, out.tid, out.tag))
  BY DEF SlotsHold, SlotsNamed, OutHeld
<1> QED BY <1>1, <1>2, Zenon DEF SlotsAgree

\* Until a collision, a slot holds the instruction in flight that its tag
\* names, each unfinished one has one slot, a store keeps it until it retires,
\* and the answer that is out belongs to its slot or is marked as unwanted.
\* (SlotsMatchWindow of LsqProperties.)
THEOREM SlotsAlwaysMatch == Spec => []SlotsMatchWindow
<1>1. Init => SInv
  BY InitSlots
<1>2. SInv /\ [Next]_vars => SInv'
  <2>1. PInv /\ UNCHANGED vars => PInv'
    BY DEF vars, PInv, TypeOK, ThreadsOK, OneBranch, PortOK, Unresolved, InFlight, Age
  <2>2. SlotsHold /\ UNCHANGED vars => SlotsHold'
    <3>1. SlotsNamed /\ UNCHANGED vars => SlotsNamed'
      BY DEF vars, SlotsNamed, Discarded, InFlight, Age
    <3>2. HeldOnce /\ UNCHANGED vars => HeldOnce'
      BY DEF vars, HeldOnce, Held, Names, Discarded, InFlight, Age
    <3>3. MemoryOnly /\ OutHeld /\ UNCHANGED vars => MemoryOnly' /\ OutHeld'
      BY DEF vars, MemoryOnly, OutHeld, Names
    <3> QED BY <3>1, <3>2, <3>3 DEF SlotsHold
  <2>3. UNCHANGED vars => torn' = torn
    BY DEF vars
  <2> QED BY <2>1, <2>2, <2>3, NextSlots DEF SInv
<1>3. SInv => SlotsMatchWindow
  BY HoldAgrees DEF SInv, SlotsMatchWindow
<1> QED BY <1>1, <1>2, <1>3, PTL DEF Spec
=============================================================================
