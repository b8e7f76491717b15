---------------------------- MODULE DivideProofs ----------------------------
(***************************************************************************)
(* For every depth of the reorder buffers, every width and every program:  *)
(* the slot of the divider and the windows agree on which division has no  *)
(* result yet; the divider's registers hold a long division in the middle  *)
(* of it; and what a division is given is what the program means by it.    *)
(***************************************************************************)
EXTENDS DivideProperties, WellOrder, TLAPS

(***************************************************************************)
(* Part 1: which division is where, whatever it computes.                  *)
(***************************************************************************)

\* What this part needs of the types: which fields there are, and that tags
\* are tags.  Nothing of the numbers the divider computes with.
EntryFields == {"kind", "op", "word", "a", "b", "late", "value", "done"}
SlotFields  == {"busy", "tid", "op", "word", "ready", "val", "tag", "dest", "started", "have",
                "q", "r"}

Shape ==
    /\ head \in [Threads -> Tags]
    /\ count \in [Threads -> 0 .. Depth]
    /\ DOMAIN rob = Threads
    /\ \A t \in Threads : DOMAIN rob[t] = Tags
    /\ \A t \in Threads, g \in Tags : /\ DOMAIN rob[t][g] = EntryFields
                                      /\ rob[t][g].done \in BOOLEAN
    /\ DOMAIN rs = SlotFields
    /\ rs.busy \in BOOLEAN
    /\ rs.busy => rs.tid \in Threads /\ rs.dest \in Tags

IInv == Shape /\ SlotMatchesWindow

\* Ages count up from the head, and no two entries have the same age.
LEMMA Ages ==
  ASSUME head \in [Threads -> Tags], NEW t \in Threads
  PROVE  /\ \A g \in Tags : Age(t, g) \in 0 .. Depth - 1
         /\ \A g, h \in Tags : Age(t, g) = Age(t, h) => g = h
BY DivideAssumption DEF Age, Tags

\* The entry dispatched next comes after all that are in flight.
LEMMA FreeIsNext ==
  ASSUME head \in [Threads -> Tags], count \in [Threads -> 0 .. Depth],
         NEW t \in Threads, count[t] < Depth
  PROVE  Free(t) \in Tags /\ Age(t, Free(t)) = count[t]
BY DivideAssumption DEF Free, Plus, Age, Tags

\* When the oldest retires, all others are one younger; it comes last.
LEMMA AgesAfter ==
  ASSUME head \in [Threads -> Tags], NEW t \in Threads, NEW g \in Tags, NEW n \in {0, 1},
         head'[t] = Plus(head[t], n)
  PROVE  /\ head'[t] \in Tags
         /\ Age(t, g)' = IF Age(t, g) >= n THEN Age(t, g) - n ELSE Depth - 1
BY DivideAssumption DEF Plus, Age, Tags

----------------------------------------------------------------------------
(* One edge of the windows, whatever is dispatched. *)

\* The choices of an edge, and what is dispatched at it: at most one entry for
\* a thread that has room for it.
Choices(F, missed, fresh) ==
    /\ F \in Finishing /\ missed \in Misses(F)
    /\ DOMAIN fresh = Threads
    /\ \A t \in Threads : \/ fresh[t] = {}
                          \/ \E e : fresh[t] = {e} /\ Room(t, missed) /\ DOMAIN e = EntryFields
                                                   /\ e.done \in BOOLEAN

Dispatched(t, g, fresh) == fresh[t] # {} /\ g = Free(t)
Squashed(t, g, missed)  == missed[t] >= 0 /\ Younger(t, g, missed[t])

\* A branch that is found mispredicted is an unfinished one in flight.
LEMMA MissedInFlight ==
  ASSUME NEW F, NEW missed, F \in Finishing, missed \in Misses(F), NEW t \in Threads,
         missed[t] >= 0
  PROVE  /\ missed[t] \in Tags /\ InFlight(t, missed[t])
         /\ rob[t][missed[t]].kind = "other" /\ ~rob[t][missed[t]].done
BY DEF Finishing, Misses, Running, Tags

\* What the window counts after the edge.
LEMMA CountAfter ==
  ASSUME NEW F, NEW grant, NEW missed, NEW fresh, Shape, Choices(F, missed, fresh),
         WindowNext(F, grant, missed, fresh), NEW t \in Threads
  PROVE  /\ Retired(t) \in {0, 1}
         /\ head'[t] = Plus(head[t], Retired(t))
         /\ fresh[t] = {} => count'[t] = Kept(t, missed)
         /\ fresh[t] # {} => /\ missed[t] < 0 /\ count[t] < Depth
                             /\ count'[t] = count[t] - Retired(t) + 1
         /\ count'[t] \in 0 .. Depth
<1>1. Retired(t) \in {0, 1}
  BY DEF Retired
<1>2. /\ head'[t] = Plus(head[t], Retired(t))
      /\ count'[t] = Kept(t, missed) + Cardinality(fresh[t])
  BY DEF WindowNext
<1>3. Retired(t) = 1 => /\ count[t] > 0 /\ rob[t][head[t]].done
                        /\ head[t] \in Tags
  BY DEF Retired, Shape
<1>4. count[t] \in 0 .. Depth /\ Depth \in Nat
  BY DivideAssumption DEF Shape
<1>5. Kept(t, missed) \in 0 .. count[t] - Retired(t) \/ missed[t] < 0
  <2> SUFFICES ASSUME ~(missed[t] < 0) PROVE Kept(t, missed) \in 0 .. count[t] - Retired(t)
    OBVIOUS
  <2>1. missed[t] >= 0
    <3>1. missed \in [Threads -> Tags \cup {-1}]
      BY DEF Choices, Misses
    <3> QED BY <3>1, DivideAssumption DEF Tags
  <2>2. /\ missed[t] \in Tags /\ InFlight(t, missed[t]) /\ ~rob[t][missed[t]].done
    BY <2>1, MissedInFlight DEF Choices
  <2>3. Age(t, missed[t]) \in 0 .. count[t] - 1
    BY <2>2, <1>4, Ages DEF InFlight, Shape
  <2>4. Retired(t) = 1 => Age(t, missed[t]) # 0
    <3>1. Retired(t) = 1 => Age(t, head[t]) = 0
      BY <1>3, DivideAssumption DEF Age, Tags
    <3> QED BY <3>1, <1>3, <2>2, Ages DEF Shape
  <2>5. Kept(t, missed) = Age(t, missed[t]) + 1 - Retired(t)
    BY <2>1, <2>2, <2>3, <1>1, DivideAssumption DEF Kept, Tags
  <2> QED BY <2>3, <2>4, <2>5, <1>1, <1>4
<1>6. missed[t] < 0 => Kept(t, missed) = count[t] - Retired(t)
  <2>1. missed \in [Threads -> Tags \cup {-1}]
    BY DEF Choices, Misses
  <2> QED BY <2>1, DivideAssumption DEF Kept, Tags
<1>7. CASE fresh[t] = {}
  <2>1. Cardinality(fresh[t]) = 0
    BY <1>7, FS_EmptySet
  <2>2. Kept(t, missed) \in 0 .. count[t] - Retired(t)
    BY <1>1, <1>3, <1>4, <1>5, <1>6
  <2>3. count'[t] = Kept(t, missed)
    BY <1>2, <2>1, <2>2, <1>1, <1>4
  <2> QED BY <1>1, <1>2, <1>4, <1>7, <2>2, <2>3
<1>8. CASE fresh[t] # {}
  <2>1. PICK e : fresh[t] = {e} /\ Room(t, missed)
    BY <1>8 DEF Choices
  <2>2. Cardinality(fresh[t]) = 1
    BY <2>1, FS_Singleton
  <2>3. missed[t] < 0 /\ count[t] < Depth
    BY <2>1 DEF Room
  <2> QED BY <1>1, <1>2, <1>3, <1>4, <1>6, <1>8, <2>2, <2>3
<1> QED BY <1>7, <1>8

\* In flight after the edge are the entries dispatched at it and, of those
\* before it, no squashed one; an entry without a result only leaves by being
\* squashed.
LEMMA WindowAfter ==
  ASSUME NEW F, NEW grant, NEW missed, NEW fresh, Shape, Choices(F, missed, fresh),
         WindowNext(F, grant, missed, fresh), NEW t \in Threads, NEW g \in Tags
  PROVE  /\ InFlight(t, g)' => \/ Dispatched(t, g, fresh)
                               \/ InFlight(t, g) /\ ~Squashed(t, g, missed)
         /\ Dispatched(t, g, fresh) => InFlight(t, g)' /\ ~InFlight(t, g)
         /\ InFlight(t, g) /\ ~rob[t][g].done /\ ~Squashed(t, g, missed) => InFlight(t, g)'
<1> DEFINE n == Retired(t)
<1>1. /\ n \in {0, 1} /\ head'[t] = Plus(head[t], n)
      /\ fresh[t] = {} => count'[t] = Kept(t, missed)
      /\ fresh[t] # {} => /\ missed[t] < 0 /\ count[t] < Depth
                          /\ count'[t] = count[t] - n + 1
  BY CountAfter
<1>2. /\ count[t] \in 0 .. Depth /\ Depth \in Nat \ {0} /\ head[t] \in Tags
      /\ head \in [Threads -> Tags] /\ count \in [Threads -> 0 .. Depth]
  BY DivideAssumption DEF Shape
<1>3. Age(t, g)' = IF Age(t, g) >= n THEN Age(t, g) - n ELSE Depth - 1
  BY <1>1, <1>2, AgesAfter
<1>4. Age(t, g) \in 0 .. Depth - 1
  BY <1>2, Ages
<1>5. n = 1 => count[t] > 0 /\ (Age(t, g) = 0 => rob[t][g].done)
  <2>1. Age(t, head[t]) = 0
    BY <1>2, DivideAssumption DEF Age, Tags
  <2>2. n = 1 => count[t] > 0 /\ rob[t][head[t]].done
    BY DEF Retired
  <2> QED BY <2>1, <2>2, <1>2, Ages
<1>6. InFlight(t, g) <=> Age(t, g) < count[t]
  BY DEF InFlight
<1>7. InFlight(t, g)' <=> Age(t, g)' < count'[t]
  BY DEF InFlight
<1>8. CASE fresh[t] # {}
  <2>1. Age(t, g) = count[t] <=> g = Free(t)
    BY <1>1, <1>2, <1>8, FreeIsNext, Ages
  <2>2. ~Squashed(t, g, missed)
    <3>1. missed \in [Threads -> Tags \cup {-1}]
      BY DEF Choices, Misses
    <3> QED BY <1>1, <1>8, <3>1, DivideAssumption DEF Squashed, Tags
  <2>3. Dispatched(t, g, fresh) <=> Age(t, g) = count[t]
    BY <2>1, <1>8 DEF Dispatched
  <2> HIDE DEF n
  <2> QED BY <1>1, <1>2, <1>3, <1>4, <1>5, <1>6, <1>7, <1>8, <2>2, <2>3
<1>9. CASE fresh[t] = {}
  <2>1. ~Dispatched(t, g, fresh)
    BY <1>9 DEF Dispatched
  <2>2. missed[t] >= 0 => /\ Age(t, missed[t]) \in 0 .. count[t] - 1
                          /\ Kept(t, missed) = Age(t, missed[t]) + 1 - n
                          /\ Squashed(t, g, missed) <=> Age(t, g) > Age(t, missed[t])
    <3> SUFFICES ASSUME missed[t] >= 0
                 PROVE  /\ Age(t, missed[t]) \in 0 .. count[t] - 1
                        /\ Kept(t, missed) = Age(t, missed[t]) + 1 - n
                        /\ Squashed(t, g, missed) <=> Age(t, g) > Age(t, missed[t])
      OBVIOUS
    <3>1. missed[t] \in Tags /\ InFlight(t, missed[t])
      BY MissedInFlight DEF Choices
    <3>2. Age(t, missed[t]) \in 0 .. count[t] - 1
      BY <3>1, <1>2, Ages DEF InFlight
    <3>3. missed[t] \in Int /\ Age(t, g) \in Int /\ Retired(t) \in Int
      BY <3>1, <1>1, <1>4, DivideAssumption DEF Tags
    <3>4. Squashed(t, g, missed) <=> Age(t, g) > Age(t, missed[t])
      BY DEF Squashed, Younger
    <3> HIDE DEF n
    <3>5. Kept(t, missed) = Age(t, missed[t]) + 1 - Retired(t)
      BY <3>2, <3>3, <1>2 DEF Kept
    <3> QED BY <3>2, <3>4, <3>5 DEF n
  <2>3. ~(missed[t] >= 0) => Kept(t, missed) = count[t] - n /\ ~Squashed(t, g, missed)
    BY DEF Kept, Squashed
  <2> HIDE DEF n
  <2>4. CASE missed[t] >= 0
    BY <1>1, <1>2, <1>3, <1>4, <1>5, <1>6, <1>7, <1>9, <2>1, <2>2, <2>4
  <2>5. CASE ~(missed[t] >= 0)
    BY <1>1, <1>2, <1>3, <1>4, <1>5, <1>6, <1>7, <1>9, <2>1, <2>3, <2>5
  <2> QED BY <2>4, <2>5
<1> QED BY <1>8, <1>9

\* What an entry is after the edge: the dispatched one, or the old one with
\* its result if a broadcast carries it.
Answered(t, g, F, grant) ==
    <<t, g>> \in F \/ (ReqValid /\ grant /\ rs.tid = t /\ rs.dest = g)

\* A window entry after the edge: new, or as it was, perhaps finished.
LEMMA EntryAfter ==
  ASSUME NEW F, NEW grant, NEW missed, NEW fresh, Shape, Choices(F, missed, fresh),
         WindowNext(F, grant, missed, fresh), NEW t \in Threads, NEW g \in Tags
  PROVE  /\ DOMAIN rob'[t][g] = EntryFields /\ rob'[t][g].done \in BOOLEAN
         /\ Dispatched(t, g, fresh) => rob'[t][g] \in fresh[t]
         /\ ~Dispatched(t, g, fresh) =>
              /\ rob'[t][g].kind = rob[t][g].kind /\ rob'[t][g].op = rob[t][g].op
              /\ rob'[t][g].word = rob[t][g].word
              /\ rob'[t][g].done <=> rob[t][g].done \/ Answered(t, g, F, grant)
<1>1. DOMAIN rob[t][g] = EntryFields /\ rob[t][g].done \in BOOLEAN
  BY DEF Shape
<1>2. CASE Dispatched(t, g, fresh)
  <2>1. rob'[t][g] = CHOOSE e \in fresh[t] : TRUE
    BY <1>2 DEF WindowNext, Dispatched
  <2>2. PICK e : fresh[t] = {e} /\ DOMAIN e = EntryFields /\ e.done \in BOOLEAN
    BY <1>2 DEF Choices, Dispatched
  <2>3. rob'[t][g] = e
    BY <2>1, <2>2
  <2> QED BY <1>2, <2>2, <2>3
<1>3. CASE ~Dispatched(t, g, fresh) /\ Answered(t, g, F, grant)
  <2>1. \/ rob'[t][g] = [rob[t][g] EXCEPT !.done = TRUE]
        \/ rob'[t][g] = [rob[t][g] EXCEPT !.done = TRUE, !.value = ReqValue]
    BY <1>3 DEF WindowNext, Completed, Dispatched, Answered
  <2> QED BY <1>1, <1>3, <2>1 DEF EntryFields
<1>4. CASE ~Dispatched(t, g, fresh) /\ ~Answered(t, g, F, grant)
  <2>1. rob'[t][g] = rob[t][g]
    BY <1>4 DEF WindowNext, Completed, Dispatched, Answered
  <2> QED BY <1>1, <1>4, <2>1
<1> QED BY <1>2, <1>3, <1>4

\* The types of the windows after an edge.
LEMMA WindowShape ==
  ASSUME NEW F, NEW grant, NEW missed, NEW fresh, Shape, Choices(F, missed, fresh),
         WindowNext(F, grant, missed, fresh)
  PROVE  /\ head' \in [Threads -> Tags] /\ count' \in [Threads -> 0 .. Depth]
         /\ DOMAIN rob' = Threads /\ \A t \in Threads : DOMAIN rob'[t] = Tags
         /\ \A t \in Threads, g \in Tags : /\ DOMAIN rob'[t][g] = EntryFields
                                           /\ rob'[t][g].done \in BOOLEAN
<1>1. head' = [t \in Threads |-> Plus(head[t], Retired(t))]
  BY DEF WindowNext
<1>2. ASSUME NEW t \in Threads PROVE head'[t] \in Tags /\ count'[t] \in 0 .. Depth
  <2>1. head[t] \in Tags /\ Retired(t) \in {0, 1} /\ head'[t] = Plus(head[t], Retired(t))
    BY CountAfter DEF Shape
  <2>2. head'[t] \in Tags
    BY <2>1, DivideAssumption DEF Plus, Tags
  <2> QED BY <2>2, CountAfter
<1>3. head' \in [Threads -> Tags]
  BY <1>1, <1>2
<1>4. count' \in [Threads -> 0 .. Depth]
  <2>1. count' = [t \in Threads |-> Kept(t, missed) + Cardinality(fresh[t])]
    BY DEF WindowNext
  <2> HIDE DEF Choices
  <2> QED BY <2>1, <1>2
<1>5. DOMAIN rob' = Threads /\ \A t \in Threads : DOMAIN rob'[t] = Tags
  BY DEF WindowNext
<1> QED BY <1>3, <1>4, <1>5, EntryAfter

----------------------------------------------------------------------------
(* One edge of the slot. *)

\* Where nothing is allocated, the slot keeps its division until the CDB takes
\* the result or the division is squashed.
LEMMA SlotKeeps ==
  ASSUME NEW cdb, NEW grant, NEW missed, Shape, SlotNext(Snooped(cdb), grant, missed)
  PROVE  /\ DOMAIN rs' = SlotFields
         /\ rs'.tid = rs.tid /\ rs'.dest = rs.dest /\ rs'.op = rs.op /\ rs'.word = rs.word
         /\ rs'.busy \in BOOLEAN
         /\ rs'.busy <=> rs.busy /\ ~(ReqValid /\ grant) /\ ~Squashed(rs.tid, rs.dest, missed)
<1> DEFINE slot == Snooped(cdb)
<1>1. /\ DOMAIN slot = SlotFields /\ slot.busy = rs.busy
      /\ slot.tid = rs.tid /\ slot.dest = rs.dest /\ slot.op = rs.op /\ slot.word = rs.word
  BY DEF Shape, Snooped, SlotFields
<1>2. /\ DOMAIN rs' = DOMAIN slot
      /\ rs'.tid = slot.tid /\ rs'.dest = slot.dest /\ rs'.op = slot.op /\ rs'.word = slot.word
  BY <1>1 DEF SlotNext, SlotFields
<1>3. rs'.busy = (/\ slot.busy
                  /\ ~(ReqValid /\ grant)
                  /\ ~(rs.busy /\ missed[rs.tid] >= 0
                               /\ Younger(rs.tid, rs.dest, missed[rs.tid])))
  BY <1>1 DEF SlotNext, SlotFields
<1> HIDE DEF slot
<1>4. rs.busy \in BOOLEAN
  BY DEF Shape
<1> QED BY <1>1, <1>2, <1>3, <1>4, Zenon DEF Squashed

\* An empty slot takes the division that is dispatched.
LEMMA SlotTakes ==
  ASSUME NEW t \in Threads, NEW op, NEW word, NEW src, NEW grant, NEW missed, Shape, ~rs.busy,
         SlotNext(Allocated(t, op, word, src), grant, missed)
  PROVE  /\ DOMAIN rs' = SlotFields
         /\ rs'.busy = TRUE /\ rs'.tid = t /\ rs'.dest = Free(t) /\ rs'.op = op /\ rs'.word = word
<1> DEFINE slot == Allocated(t, op, word, src)
<1>1. /\ DOMAIN slot = SlotFields /\ slot.busy = TRUE
      /\ slot.tid = t /\ slot.dest = Free(t) /\ slot.op = op /\ slot.word = word
  BY DEF Shape, Allocated, SlotFields
<1>2. /\ DOMAIN rs' = DOMAIN slot
      /\ rs'.tid = slot.tid /\ rs'.dest = slot.dest /\ rs'.op = slot.op /\ rs'.word = slot.word
  BY <1>1 DEF SlotNext, SlotFields
<1>3. rs'.busy = (/\ slot.busy
                  /\ ~(ReqValid /\ grant)
                  /\ ~(rs.busy /\ missed[rs.tid] >= 0
                               /\ Younger(rs.tid, rs.dest, missed[rs.tid])))
  BY <1>1 DEF SlotNext, SlotFields
<1> HIDE DEF slot
<1> QED BY <1>1, <1>2, <1>3, Zenon DEF ReqValid

----------------------------------------------------------------------------
(* Slot and windows together. *)

\* SlotMatchesWindow after the edge, entry by entry.
LEMMA SlotMatches ==
  ASSUME rs'.busy => rs'.tid \in Threads /\ rs'.dest \in Tags,
         \A t \in Threads, g \in Tags : rs'.busy /\ t = rs'.tid /\ g = rs'.dest =>
            /\ InFlight(t, g)'
            /\ rob'[t][g].kind = "div" /\ ~rob'[t][g].done
            /\ rob'[t][g].op = rs'.op /\ rob'[t][g].word = rs'.word,
         \A t \in Threads, g \in Tags :
            InFlight(t, g)' /\ rob'[t][g].kind = "div" /\ ~rob'[t][g].done =>
               rs'.busy /\ rs'.tid = t /\ rs'.dest = g
  PROVE  SlotMatchesWindow'
BY DEF SlotMatchesWindow, InFlight, Age

\* No division is dispatched: whatever leaves the slot leaves the window's list
\* of divisions without a result, and the other way round.
LEMMA MatchKept ==
  ASSUME NEW F, NEW grant, NEW missed, NEW fresh, NEW cdb, IInv, Choices(F, missed, fresh),
         \A t \in Threads : \A e \in fresh[t] : e.kind = "other",
         SlotNext(Snooped(cdb), grant, missed), WindowNext(F, grant, missed, fresh)
  PROVE  IInv'
<1>1. Shape /\ SlotMatchesWindow
  BY DEF IInv
<1>2. /\ DOMAIN rs' = SlotFields
      /\ rs'.tid = rs.tid /\ rs'.dest = rs.dest /\ rs'.op = rs.op /\ rs'.word = rs.word
      /\ rs'.busy \in BOOLEAN
      /\ rs'.busy <=> rs.busy /\ ~(ReqValid /\ grant) /\ ~Squashed(rs.tid, rs.dest, missed)
  BY <1>1, SlotKeeps
<1>3. Shape'
  <2>1. rs'.busy => rs'.tid \in Threads /\ rs'.dest \in Tags
    BY <1>1, <1>2 DEF Shape
  <2> QED BY <1>1, <1>2, <2>1, WindowShape DEF Shape
<1>4. ASSUME NEW t \in Threads, NEW g \in Tags, rs'.busy, t = rs.tid, g = rs.dest
      PROVE  /\ InFlight(t, g)'
             /\ rob'[t][g].kind = "div" /\ ~rob'[t][g].done
             /\ rob'[t][g].op = rs.op /\ rob'[t][g].word = rs.word
  <2>1. rs.busy /\ ~(ReqValid /\ grant) /\ ~Squashed(t, g, missed)
    BY <1>2, <1>4
  <2>2. /\ InFlight(t, g) /\ rob[t][g].kind = "div" /\ ~rob[t][g].done
        /\ rob[t][g].op = rs.op /\ rob[t][g].word = rs.word
    BY <1>1, <1>4, <2>1 DEF SlotMatchesWindow
  <2>3. InFlight(t, g)' /\ ~Dispatched(t, g, fresh)
    BY <1>1, <2>1, <2>2, WindowAfter
  <2>4. ~Answered(t, g, F, grant)
    BY <2>1, <2>2 DEF Answered, Choices, Finishing, Running
  <2> QED BY <1>1, <2>2, <2>3, <2>4, EntryAfter
<1>5. ASSUME NEW t \in Threads, NEW g \in Tags,
             InFlight(t, g)', rob'[t][g].kind = "div", ~rob'[t][g].done
      PROVE  rs'.busy /\ rs'.tid = t /\ rs'.dest = g
  <2>1. ~Dispatched(t, g, fresh)
    BY <1>1, <1>5, EntryAfter
  <2>2. InFlight(t, g) /\ ~Squashed(t, g, missed)
    BY <1>1, <1>5, <2>1, WindowAfter
  <2>3. rob[t][g].kind = "div" /\ ~rob[t][g].done /\ ~Answered(t, g, F, grant)
    BY <1>1, <1>5, <2>1, EntryAfter
  <2>4. rs.busy /\ rs.tid = t /\ rs.dest = g
    BY <1>1, <2>2, <2>3 DEF SlotMatchesWindow
  <2>5. ~(ReqValid /\ grant)
    BY <2>3, <2>4 DEF Answered
  <2> QED BY <1>2, <2>2, <2>4, <2>5
<1>6. SlotMatchesWindow'
  <2>1. rs'.busy => rs'.tid \in Threads /\ rs'.dest \in Tags
    BY <1>3 DEF Shape
  <2>2. ASSUME NEW t \in Threads, NEW g \in Tags, rs'.busy, t = rs'.tid, g = rs'.dest
        PROVE  /\ InFlight(t, g)'
               /\ rob'[t][g].kind = "div" /\ ~rob'[t][g].done
               /\ rob'[t][g].op = rs'.op /\ rob'[t][g].word = rs'.word
    BY <1>2, <1>4, <2>2
  <2> QED BY <1>5, <2>1, <2>2, SlotMatches
<1> QED BY <1>3, <1>6 DEF IInv

\* A division is dispatched, to an empty slot: until then every division in
\* flight had its result.
LEMMA MatchDispatched ==
  ASSUME NEW F, NEW grant, NEW missed, NEW fresh, NEW src, NEW t \in Threads, NEW d, IInv,
         Choices(F, missed, fresh), fresh = [None EXCEPT ![t] = {Division(d)}], ~Full,
         SlotNext(Allocated(t, d.op, d.word, src), grant, missed),
         WindowNext(F, grant, missed, fresh)
  PROVE  IInv'
<1>1. Shape /\ SlotMatchesWindow /\ ~rs.busy
  BY DEF IInv, Full
<1>2. /\ DOMAIN rs' = SlotFields /\ rs'.busy = TRUE
      /\ rs'.tid = t /\ rs'.dest = Free(t) /\ rs'.op = d.op /\ rs'.word = d.word
  BY <1>1, SlotTakes
<1>3. fresh[t] = {Division(d)} /\ \A u \in Threads : u # t => fresh[u] = {}
  BY DEF None
<1>4. Free(t) \in Tags /\ Dispatched(t, Free(t), fresh)
  <2>1. count[t] < Depth
    BY <1>1, <1>3, CountAfter
  <2> QED BY <1>1, <1>3, <2>1, FreeIsNext DEF Shape, Dispatched
<1>5. Shape'
  BY <1>1, <1>2, <1>4, WindowShape DEF Shape
<1>6. ASSUME NEW g \in Tags, g = Free(t) PROVE InFlight(t, g)' /\ rob'[t][g] = Division(d)
  <2>1. Dispatched(t, g, fresh)
    BY <1>3, <1>6 DEF Dispatched
  <2>2. InFlight(t, g)'
    BY <1>1, <2>1, WindowAfter
  <2>3. rob'[t][g] \in fresh[t]
    BY <1>1, <2>1, EntryAfter
  <2> QED BY <1>3, <2>2, <2>3
<1>7. ASSUME NEW u \in Threads, NEW g \in Tags,
             InFlight(u, g)', rob'[u][g].kind = "div", ~rob'[u][g].done
      PROVE  u = t /\ g = Free(t)
  <2>1. CASE Dispatched(u, g, fresh)
    BY <1>3, <2>1 DEF Dispatched
  <2>2. CASE ~Dispatched(u, g, fresh)
    <3>1. InFlight(u, g)
      BY <1>1, <1>7, <2>2, WindowAfter
    <3>2. rob[u][g].kind = "div" /\ ~rob[u][g].done
      BY <1>1, <1>7, <2>2, EntryAfter
    <3> QED BY <1>1, <3>1, <3>2 DEF SlotMatchesWindow
  <2> QED BY <2>1, <2>2
<1>8. /\ Division(d).kind = "div" /\ ~Division(d).done
      /\ Division(d).op = d.op /\ Division(d).word = d.word
  BY DEF Division
<1>9. SlotMatchesWindow'
  <2>1. ASSUME NEW u \in Threads, NEW g \in Tags, rs'.busy, u = rs'.tid, g = rs'.dest
        PROVE  /\ InFlight(u, g)'
               /\ rob'[u][g].kind = "div" /\ ~rob'[u][g].done
               /\ rob'[u][g].op = rs'.op /\ rob'[u][g].word = rs'.word
    BY <1>2, <1>6, <1>8, <2>1
  <2> QED BY <1>2, <1>4, <1>7, <2>1, SlotMatches
<1> QED BY <1>5, <1>9 DEF IInv

----------------------------------------------------------------------------

\* The invariant holds at reset.
LEMMA InitEstablishes == Init => IInv
<1> SUFFICES ASSUME Init PROVE IInv
  OBVIOUS
<1>1. 0 \in Tags /\ 0 \in 0 .. Depth
  BY DivideAssumption DEF Tags
<1>2. DOMAIN Other(0) = EntryFields /\ Other(0).done = FALSE
  BY DEF Other, EntryFields
<1>3. DOMAIN rs = SlotFields /\ rs.busy = FALSE
  BY DEF Init, SlotFields
<1>4. Shape
  BY <1>1, <1>2, <1>3 DEF Init, Shape
<1>5. ASSUME NEW t \in Threads, NEW g \in Tags PROVE ~InFlight(t, g)
  <2>1. Age(t, g) \in 0 .. Depth - 1 /\ count[t] = 0
    BY <1>4, Ages DEF Shape, Init
  <2> QED BY <2>1 DEF InFlight
<1>6. SlotMatchesWindow
  BY <1>3, <1>5 DEF SlotMatchesWindow
<1> QED BY <1>4, <1>6 DEF IInv

\* Every edge preserves it.
LEMMA NextPreserves == IInv /\ [Next]_vars => IInv'
<1> SUFFICES ASSUME IInv, [Next]_vars PROVE IInv'
  OBVIOUS
<1>1. ASSUME NEW F \in Finishing, NEW grant \in BOOLEAN, NEW missed \in Misses(F),
             Edge(F, grant, missed)
      PROVE  IInv'
  <2>1. CASE Quiet(F, grant, missed)
    <3>1. Choices(F, missed, None) /\ \A t \in Threads : None[t] = {}
      BY DEF Choices, None
    <3> QED BY <2>1, <3>1, MatchKept DEF Quiet
  <2>2. CASE DispatchOther(F, grant, missed)
    <3>1. PICK t \in Threads, v \in program.others :
            /\ Room(t, missed)
            /\ SlotNext(Snooped(Broadcasts(F)), grant, missed)
            /\ WindowNext(F, grant, missed, [None EXCEPT ![t] = {Other(v)}])
      BY <2>2 DEF DispatchOther
    <3> DEFINE fresh == [None EXCEPT ![t] = {Other(v)}]
    <3>2. DOMAIN Other(v) = EntryFields /\ Other(v).done = FALSE /\ Other(v).kind = "other"
      BY DEF Other, EntryFields
    <3>3. /\ DOMAIN fresh = Threads
          /\ \A u \in Threads : fresh[u] = IF u = t THEN {Other(v)} ELSE {}
      BY DEF None
    <3> HIDE DEF fresh
    <3>4. /\ Choices(F, missed, fresh)
          /\ \A u \in Threads : \A e \in fresh[u] : e.kind = "other"
      BY <3>1, <3>2, <3>3 DEF Choices
    <3>5. WindowNext(F, grant, missed, fresh)
      BY <3>1 DEF fresh
    <3> QED BY <3>1, <3>4, <3>5, MatchKept
  <2>3. CASE DispatchDivision(F, grant, missed)
    <3>1. PICK t \in Threads, d \in program.divs :
            /\ Room(t, missed) /\ ~Full
            /\ \E x \in Sources(t, d.a, F), y \in Sources(t, d.b, F) :
                  SlotNext(Allocated(t, d.op, d.word, <<x, y>>), grant, missed)
            /\ WindowNext(F, grant, missed, [None EXCEPT ![t] = {Division(d)}])
      BY <2>3 DEF DispatchDivision
    <3>2. PICK src : SlotNext(Allocated(t, d.op, d.word, src), grant, missed)
      BY <3>1
    <3> DEFINE fresh == [None EXCEPT ![t] = {Division(d)}]
    <3>3. DOMAIN Division(d) = EntryFields /\ Division(d).done = FALSE
      BY DEF Division, EntryFields
    <3>4. /\ DOMAIN fresh = Threads
          /\ \A u \in Threads : fresh[u] = IF u = t THEN {Division(d)} ELSE {}
      BY DEF None
    <3> HIDE DEF fresh
    <3>5. Choices(F, missed, fresh)
      BY <3>1, <3>3, <3>4 DEF Choices
    <3>6. WindowNext(F, grant, missed, fresh) /\ fresh = [None EXCEPT ![t] = {Division(d)}]
      BY <3>1 DEF fresh
    <3> QED BY <3>1, <3>2, <3>5, <3>6, MatchDispatched
  <2> QED BY <1>1, <2>1, <2>2, <2>3 DEF Edge
<1>2. CASE UNCHANGED vars
  BY <1>2 DEF vars, IInv, Shape, SlotMatchesWindow, InFlight, Age
<1> QED BY <1>1, <1>2 DEF Next

\* The slot of the divider and the windows agree at every edge (div_rs.v:
\* 60-65, 149-190): whatever is squashed, granted and dispatched at the same
\* edge, the slot asks for the CDB only on behalf of the division it holds.
THEOREM SlotAlwaysMatches == Spec => []SlotMatchesWindow
<1>1. IInv => SlotMatchesWindow
  BY DEF IInv
<1> QED BY <1>1, InitEstablishes, NextPreserves, PTL DEF Spec

(***************************************************************************)
(* Part 2: the arithmetic.  Powers of two, what an operand stands for, one *)
(* step of a long division, and what is made of its result.                *)
(***************************************************************************)

\* Powers of two are natural numbers: the number of subsets of a finite set.
LEMMA PowerNat == ASSUME NEW n \in Nat PROVE 2^n \in Nat /\ 2^n = Cardinality(SUBSET (1 .. n))
<1>1. IsFiniteSet(1 .. n) /\ Cardinality(1 .. n) = n
  BY FS_Interval
<1>2. IsFiniteSet(SUBSET (1 .. n)) /\ Cardinality(SUBSET (1 .. n)) = 2^n
  BY <1>1, FS_SUBSET
<1> QED BY <1>2, FS_CardinalityType

\* The first power: the empty set has one subset.
LEMMA PowerZero == 2^0 = 1
<1>1. 2^0 = Cardinality(SUBSET (1 .. 0))
  BY PowerNat
<1>2. SUBSET (1 .. 0) = {{}}
  OBVIOUS
<1> QED BY <1>1, <1>2, FS_Singleton

\* The next power is twice the last: a subset has the new element or not.
LEMMA PowerNext == ASSUME NEW n \in Nat PROVE 2^(n + 1) = 2 * 2^n
<1> DEFINE A == SUBSET (1 .. n)
           B == {T \cup {n + 1} : T \in A}
<1>1. n + 1 \in Nat /\ 2^(n + 1) = Cardinality(SUBSET (1 .. n + 1)) /\ 2^n = Cardinality(A) /\ 2^n \in Nat
  BY PowerNat
<1>2. SUBSET (1 .. n + 1) = A \cup B
  <2>1. ASSUME NEW U \in SUBSET (1 .. n + 1), n + 1 \in U PROVE U \in B
    <3>1. U \ {n + 1} \in A /\ (U \ {n + 1}) \cup {n + 1} = U
      BY <2>1
    <3> QED BY <3>1
  <2>2. ASSUME NEW U \in SUBSET (1 .. n + 1), n + 1 \notin U PROVE U \in A
    BY <2>2
  <2>3. ASSUME NEW U \in A PROVE U \in SUBSET (1 .. n + 1)
    OBVIOUS
  <2>4. ASSUME NEW U \in B PROVE U \in SUBSET (1 .. n + 1)
    <3>1. PICK T \in A : U = T \cup {n + 1}
      OBVIOUS
    <3> QED BY <3>1
  <2> HIDE DEF A, B
  <2> QED BY <2>1, <2>2, <2>3, <2>4
<1>3. A \cap B = {}
  OBVIOUS
<1>4. IsFiniteSet(A)
  <2>1. IsFiniteSet(1 .. n)
    BY FS_Interval
  <2> QED BY <2>1, FS_SUBSET
<1>5. IsFiniteSet(B) /\ Cardinality(B) = Cardinality(A)
  <2> DEFINE f == [T \in A |-> T \cup {n + 1}]
  <2>1. f \in Bijection(A, B)
    <3>1. f \in [A -> B] /\ \A U \in B : \E T \in A : f[T] = U
      OBVIOUS
    <3>2. ASSUME NEW T \in A, NEW U \in A, f[T] = f[U] PROVE T = U
      <4>1. n + 1 \notin T /\ n + 1 \notin U /\ T \cup {n + 1} = U \cup {n + 1}
        BY <3>2
      <4> QED BY <4>1
    <3> HIDE DEF f, A, B
    <3> QED BY <3>1, <3>2 DEF Bijection, Injection, Surjection, IsInjective
  <2>2. ExistsBijection(A, B)
    BY <2>1 DEF ExistsBijection
  <2> QED BY <1>4, <2>2, FS_Bijection
<1> HIDE DEF A, B
<1>6. Cardinality(A \cup B) = Cardinality(A) + Cardinality(B) - Cardinality(A \cap B)
  BY <1>4, <1>5, FS_Union
<1>7. Cardinality(A \cap B) = 0
  BY <1>3, FS_EmptySet
<1>8. Cardinality(A \cup B) = 2^n + 2^n
  BY <1>1, <1>5, <1>6, <1>7
<1>9. Cardinality(SUBSET (1 .. n + 1)) = Cardinality(A \cup B)
  BY <1>2, Zenon
<1>10. 2^(n + 1) = 2^n + 2^n
  BY <1>1, <1>8, <1>9, Zenon
<1> QED BY <1>1, <1>10

\* No power of two is zero.
LEMMA PowerPositive == \A n \in Nat : 2^n >= 1
<1> DEFINE S == {n \in Nat : 2^n >= 1}
<1>1. 0 \in S
  BY PowerZero
<1>2. ASSUME NEW n \in Nat, n \in S PROVE n + 1 \in S
  BY <1>2, PowerNext, PowerNat
<1> HIDE DEF S
<1>3. Nat \subseteq S
  BY <1>1, <1>2, SetInduction
<1> QED BY <1>3 DEF S

\* Exponents add up.
LEMMA PowerSum == ASSUME NEW m \in Nat, NEW n \in Nat PROVE 2^(m + n) = 2^m * 2^n
<1> DEFINE S == {i \in Nat : 2^(m + i) = 2^m * 2^i}
<1>1. 0 \in S
  BY PowerZero, PowerNat
<1>2. ASSUME NEW i \in Nat, i \in S PROVE i + 1 \in S
  <2>1. 2^(m + (i + 1)) = 2 * 2^(m + i)
    <3>1. m + (i + 1) = (m + i) + 1 /\ m + i \in Nat
      OBVIOUS
    <3> QED BY <3>1, PowerNext
  <2>2. 2^(i + 1) = 2 * 2^i /\ 2^i \in Nat /\ 2^m \in Nat
    BY PowerNext, PowerNat
  <2> QED BY <1>2, <2>1, <2>2
<1> HIDE DEF S
<1>3. Nat \subseteq S
  BY <1>1, <1>2, SetInduction
<1> QED BY <1>3 DEF S

\* Quotient and remainder of a division are the only ones.
LEMMA DivisionUnique ==
  ASSUME NEW a \in Int, NEW b \in Nat \ {0}, NEW q \in Int, NEW r \in Int,
         a = b * q + r, 0 <= r, r < b
  PROVE  a \div b = q /\ a % b = r
OBVIOUS

----------------------------------------------------------------------------

\* The widths of a division, and the integer a register stands for in it.
Width(word) == IF word THEN HALF ELSE XLEN
Meaning(op, word, x) ==
    LET w == Width(word) IN IF Signed(op) THEN Integer(x % 2^w, w) ELSE x % 2^w

\* The powers that the divider works with.
LEMMA Powers ==
  /\ HALF \in Nat \ {0} /\ XLEN = HALF + HALF /\ XLEN - 1 \in Nat /\ HALF - 1 \in Nat
  /\ 2^(HALF - 1) \in Nat \ {0} /\ 2^HALF = 2 * 2^(HALF - 1)
  /\ 2^(XLEN - 1) = 2^(HALF - 1) * 2^HALF /\ 2^XLEN = 2^HALF * 2^HALF
  /\ 2^(XLEN - 1) \in Nat \ {0} /\ 2^XLEN = 2 * 2^(XLEN - 1)
  /\ 2^(HALF - 1) <= 2^(XLEN - 1) /\ 2^(XLEN + 1) = 2 * 2^XLEN
<1>1. HALF \in Nat \ {0} /\ XLEN = HALF + HALF
  BY DivideAssumption DEF HALF
<1>2. XLEN - 1 \in Nat /\ HALF - 1 \in Nat /\ XLEN - 1 = (HALF - 1) + HALF /\ XLEN \in Nat /\ HALF \in Nat
  BY <1>1
<1>3. 2^XLEN = 2^HALF * 2^HALF /\ 2^(XLEN - 1) = 2^(HALF - 1) * 2^HALF
  BY <1>1, <1>2, PowerSum
<1>4. 2^HALF = 2 * 2^(HALF - 1) /\ 2^XLEN = 2 * 2^(XLEN - 1)
  <2>1. (HALF - 1) + 1 = HALF /\ (XLEN - 1) + 1 = XLEN
    BY <1>1
  <2> QED BY <1>2, <2>1, PowerNext
<1>5. 2^(XLEN + 1) = 2 * 2^XLEN
  BY <1>2, PowerNext
<1>6. /\ 2^(HALF - 1) \in Nat \ {0} /\ 2^(XLEN - 1) \in Nat \ {0} /\ 2^HALF \in Nat \ {0}
  BY <1>2, PowerNat, PowerPositive
<1>7. 2^(HALF - 1) <= 2^(XLEN - 1)
  <2>1. \A g, h \in Nat \ {0} : g <= g * h
    OBVIOUS
  <2> QED BY <1>3, <1>6, <2>1
<1> QED BY <1>1, <1>2, <1>3, <1>4, <1>5, <1>6, <1>7

\* What the set-up makes of an operand: its sign, and its absolute value.
LEMMA EffectiveMeans ==
  ASSUME NEW op \in Ops, NEW word \in BOOLEAN, NEW x \in Regs,
         NEW e, e = Effective(op, word, x), NEW m, m = Meaning(op, word, x)
  PROVE  /\ e \in Regs /\ m \in Int
         /\ e = IF m < 0 THEN m + 2^XLEN ELSE m
         /\ Signed(op) /\ Negative(e) <=> m < 0
         /\ (IF Signed(op) /\ Negative(e) THEN Negate(e) ELSE e) = Abs(m)
         /\ Abs(m) < 2^Width(word)
         /\ Signed(op) => -(2^(Width(word) - 1)) <= m /\ m < 2^(Width(word) - 1)
<1> DEFINE M == 2^XLEN
           W == 2^(XLEN - 1)
           H == 2^HALF
           G == 2^(HALF - 1)
<1>1. G \in Nat \ {0} /\ H = 2 * G /\ W \in Nat \ {0} /\ M = 2 * W /\ G <= W /\ H <= M
  BY Powers
<1>2. x \in 0 .. M - 1 /\ Regs = 0 .. M - 1
  BY DEF Regs
<1>3. x % M = x /\ x % H \in 0 .. H - 1
  <2> HIDE DEF M, H, G, W
  <2> QED BY <1>1, <1>2
<1>4. CASE ~word
  <2>1. e = x /\ m = IF Signed(op) /\ x >= W THEN x - M ELSE x
    BY <1>3, <1>4 DEF Effective, Meaning, Width, Integer
  <2>2. Negative(e) <=> e >= W
    BY DEF Negative
  <2>3. Negate(e) = (M - e) % M
    BY DEF Negate
  <2>4. 2^Width(word) = M /\ 2^(Width(word) - 1) = W
    BY <1>4 DEF Width
  <2> HIDE DEF M, H, G, W
  <2>5. e >= W => Negate(e) = M - e
    BY <1>1, <1>2, <2>1, <2>3
  <2>6. Signed(op) /\ Negative(e) <=> m < 0
    <3>1. Signed(op) => (m < 0 <=> e >= W)
      BY <1>1, <1>2, <2>1
    <3>2. ~Signed(op) => ~(m < 0)
      BY <1>2, <2>1
    <3> QED BY <2>2, <3>1, <3>2
  <2>7. /\ m < 0 => e = m + M /\ Abs(m) = M - e /\ e >= W
        /\ ~(m < 0) => e = m /\ Abs(m) = e
        /\ e \in Regs /\ m \in Int /\ Abs(m) < M
    BY <1>1, <1>2, <2>1 DEF Abs
  <2>8. Signed(op) => -W <= m /\ m < W
    BY <1>1, <1>2, <2>1
  <2> QED BY <2>4, <2>5, <2>6, <2>7, <2>8 DEF M, W
<1>5. CASE word /\ ~Signed(op)
  <2>1. e = x % H /\ m = x % H
    BY <1>5 DEF Effective, Meaning, Width
  <2>2. 2^Width(word) = H
    BY <1>5 DEF Width
  <2> HIDE DEF M, H, G, W
  <2>3. m = e /\ m \in Int /\ e \in Regs /\ ~(m < 0) /\ Abs(m) = m /\ m < H
    BY <1>1, <1>2, <1>3, <2>1 DEF Abs
  <2> QED BY <1>5, <2>2, <2>3 DEF H
<1>6. CASE word /\ Signed(op)
  <2> DEFINE r == x % H
  <2>1. /\ e = IF r >= G THEN r + M - H ELSE r
        /\ m = IF r >= G THEN r - H ELSE r
    BY <1>6 DEF Effective, SignWord, Meaning, Width, Integer
  <2>2. Negative(e) <=> e >= W
    BY DEF Negative
  <2>3. Negate(e) = (M - e) % M
    BY DEF Negate
  <2>4. 2^Width(word) = H /\ 2^(Width(word) - 1) = G
    BY <1>6 DEF Width
  <2> HIDE DEF M, H, G, W, r
  <2>5. r \in 0 .. H - 1
    BY <1>3 DEF r
  <2>6. e >= W => Negate(e) = M - e
    BY <1>1, <2>1, <2>3, <2>5
  <2>7. m < 0 <=> e >= W
    BY <1>1, <2>1, <2>5
  <2>8. /\ m < 0 => e = m + M /\ Abs(m) = M - e /\ e >= W
        /\ ~(m < 0) => e = m /\ Abs(m) = e
        /\ e \in Regs /\ m \in Int /\ Abs(m) < H
    BY <1>1, <1>2, <2>1, <2>5 DEF Abs
  <2>9. -G <= m /\ m < G
    BY <1>1, <2>1, <2>5
  <2>10. Signed(op) /\ Negative(e) <=> m < 0
    BY <1>6, <2>2, <2>7
  <2> QED BY <2>4, <2>6, <2>8, <2>9, <2>10 DEF M, H, G
<1> QED BY <1>4, <1>5, <1>6

----------------------------------------------------------------------------

\* The long division in the middle: hi divided by D gives q and R so far, rest
\* is still to be divided and stands S places up in Q.  T is the weight of the
\* bit that is brought down next.
Aligned(T, S, W, M, hi, rest, q, R, D, Q) ==
    /\ T \in Nat \ {0} /\ S \in Nat \ {0} /\ W \in Nat /\ W = T * S /\ M = 2 * W
    /\ hi \in Nat /\ rest \in Nat /\ q \in Nat /\ R \in Nat /\ D \in Nat
    /\ rest < 2 * T /\ q < S /\ hi = q * D + R /\ R < D /\ D < M
    /\ Q = rest * S + q

\* What shifting, subtracting and restoring make of it (Iterate).
BroughtDown(T, S, W, M, hi, rest, q, R, D, Q) ==
    LET high  == (2 * R + Q \div W) % (2 * M)
        low   == (2 * Q) % M
        trial == (high - D) % (2 * M)
        bit   == IF rest < T THEN 0 ELSE 1
        left  == rest - bit * T
    IN  /\ left \in Nat /\ left < T
        /\ hi * (2 * T) + rest = (2 * hi + bit) * T + left
        /\ low = left * (2 * S) + 2 * q /\ low + 1 < M /\ low \in Nat
        /\ high = 2 * R + bit
        /\ trial >= M <=> high < D
        /\ ~(trial >= M) => trial = high - D
        /\ high < D => 2 * hi + bit = (2 * q) * D + high
        /\ ~(high < D) => 2 * hi + bit = (2 * q + 1) * D + (high - D) /\ high - D < D

\* One step of the long division, on naturals.
LEMMA BringDown ==
  ASSUME NEW T, NEW S, NEW W, NEW M, NEW hi, NEW rest, NEW q, NEW R, NEW D, NEW Q,
         Aligned(T, S, W, M, hi, rest, q, R, D, Q)
  PROVE  BroughtDown(T, S, W, M, hi, rest, q, R, D, Q)
<1> DEFINE high  == (2 * R + Q \div W) % (2 * M)
           low   == (2 * Q) % M
           trial == (high - D) % (2 * M)
           bit   == IF rest < T THEN 0 ELSE 1
           left  == rest - bit * T
<1>a. /\ T \in Nat \ {0} /\ S \in Nat \ {0} /\ W \in Nat /\ W = T * S /\ M = 2 * W
      /\ hi \in Nat /\ rest \in Nat /\ q \in Nat /\ R \in Nat /\ D \in Nat
      /\ rest < 2 * T /\ q < S /\ hi = q * D + R /\ R < D /\ D < M
      /\ Q = rest * S + q
  BY DEF Aligned
<1>b. /\ high = (2 * R + Q \div W) % (2 * M) /\ low = (2 * Q) % M
      /\ trial = (high - D) % (2 * M) /\ bit = (IF rest < T THEN 0 ELSE 1)
      /\ left = rest - bit * T
  OBVIOUS
<1> HIDE DEF high, low, trial, bit, left
<1>1. bit \in {0, 1} /\ left \in Nat /\ left < T /\ rest = bit * T + left
  BY <1>a, <1>b
<1>2. hi * (2 * T) + rest = (2 * hi + bit) * T + left
  BY <1>a, <1>1
<1>3. left * S + q \in Nat /\ left * S + q < W
  <2>1. left \in 0 .. T - 1
    BY <1>a, <1>1
  <2>2. left * S <= (T - 1) * S
    BY <1>a, <2>1
  <2>3. (T - 1) * S = W - S
    BY <1>a
  <2>4. left * S \in Nat
    BY <1>a, <2>1
  <2> QED BY <1>a, <2>2, <2>3, <2>4
<1> DEFINE c == left * S + q
<1>4. Q = W * bit + c /\ Q \in Nat /\ c \in Nat /\ c < W
  <2>1. (bit * T + left) * S = bit * (T * S) + left * S
    BY <1>a, <1>1
  <2> QED BY <1>a, <1>1, <1>3, <2>1
<1>5. W \in Nat \ {0} /\ M \in Nat \ {0} /\ 2 * M \in Nat \ {0}
  BY <1>a, <1>3
<1>6. Q \div W = bit
  <2> HIDE DEF c
  <2>1. Q \in Int /\ Q = W * bit + c /\ bit \in Int /\ c \in Int /\ 0 <= c /\ c < W
    BY <1>1, <1>4
  <2> QED BY <1>5, <2>1, DivisionUnique
<1>7. low = 2 * c
  <2> HIDE DEF c
  <2> DEFINE d == 2 * c
             P == 2 * Q
  <2>1. P = M * bit + d /\ P \in Int /\ bit \in Int /\ d \in Int /\ 0 <= d /\ d < M
    BY <1>a, <1>1, <1>4
  <2>2. low = P % M
    BY <1>b
  <2> HIDE DEF d, P
  <2>3. P % M = d
    BY <1>5, <2>1, DivisionUnique
  <2> QED BY <2>2, <2>3 DEF d
<1>8. low = left * (2 * S) + 2 * q /\ low + 1 < M /\ low \in Nat
  <2>1. 2 * c = left * (2 * S) + 2 * q
    BY <1>a, <1>1
  <2> HIDE DEF c
  <2> QED BY <1>a, <1>4, <1>7, <2>1
<1>9. high = 2 * R + bit
  <2> DEFINE h == 2 * R + bit
             N == 2 * M
  <2>1. h \in Int /\ 0 <= h /\ h < N /\ N \in Nat \ {0}
    BY <1>a, <1>1, <1>5
  <2>2. high = h % N
    BY <1>b, <1>6
  <2> HIDE DEF h, N
  <2>3. h % N = h
    BY <2>1
  <2> QED BY <2>2, <2>3 DEF h
<1> DEFINE z == high - D
           N == 2 * M
<1>10. z \in Int /\ N \in Nat \ {0} /\ trial = z % N /\ -N < z /\ z < N /\ high \in Nat
  BY <1>a, <1>b, <1>1, <1>5, <1>9
<1>11. high < D => trial = z + N
  <2> SUFFICES ASSUME high < D PROVE trial = z + N
    OBVIOUS
  <2>0. z < 0
    BY <1>a, <1>10
  <2> HIDE DEF z, N
  <2> DEFINE y == z + N
             k == -1
  <2>1. z = N * k + y /\ k \in Int /\ y \in Int /\ 0 <= y /\ y < N
    BY <1>10, <2>0
  <2> HIDE DEF y, k
  <2>2. z % N = y
    BY <1>10, <2>1, DivisionUnique
  <2> QED BY <1>10, <2>2 DEF y
<1>12. ~(high < D) => trial = z
  <2> SUFFICES ASSUME ~(high < D) PROVE trial = z
    OBVIOUS
  <2>0. 0 <= z
    BY <1>a, <1>10
  <2> HIDE DEF z, N
  <2> QED BY <1>10, <2>0
<1>13. ~(high < D) => high - D < D
  BY <1>a, <1>1, <1>9
<1>14. trial >= M <=> high < D
  BY <1>a, <1>1, <1>5, <1>9, <1>10, <1>11, <1>12
<1>15. high < D => 2 * hi + bit = (2 * q) * D + high
  BY <1>a, <1>1, <1>9
<1>16. ~(high < D) => 2 * hi + bit = (2 * q + 1) * D + (high - D)
  BY <1>a, <1>1, <1>9
<1>17. /\ left \in Nat /\ left < T
       /\ hi * (2 * T) + rest = (2 * hi + bit) * T + left
       /\ low = left * (2 * S) + 2 * q /\ low + 1 < M /\ low \in Nat
       /\ high = 2 * R + bit
       /\ trial >= M <=> high < D
       /\ ~(trial >= M) => trial = high - D
       /\ high < D => 2 * hi + bit = (2 * q) * D + high
       /\ ~(high < D) => 2 * hi + bit = (2 * q + 1) * D + (high - D) /\ high - D < D
  BY <1>1, <1>2, <1>8, <1>9, <1>12, <1>13, <1>14, <1>15, <1>16
<1> QED BY <1>17 DEF high, low, trial, bit, left, BroughtDown

----------------------------------------------------------------------------

\* A register extended from the width of the division.
Extend(word, v) == LET u == v % 2^Width(word) IN IF word THEN SignWord(u) ELSE u

\* There are such a quotient and remainder.
LEMMA DivisionExists ==
  ASSUME NEW a \in Int, NEW b \in Nat \ {0}
  PROVE  /\ a % b \in Nat /\ a % b < b /\ a % b \in 0 .. b - 1
         /\ \E d \in Int : a = b * d + (a % b)
<1>1. a \div b \in Int /\ a % b \in 0 .. b - 1 /\ a = b * (a \div b) + (a % b)
  OBVIOUS
<1>2. \E d \in Int : a = b * d + (a % b)
  <2> DEFINE c == a \div b
             r == a % b
  <2>1. c \in Int /\ a = b * c + r
    BY <1>1
  <2> HIDE DEF c, r
  <2>2. \E d \in Int : a = b * d + r
    BY <2>1
  <2> QED BY <2>2 DEF r
<1>3. a % b \in Nat /\ a % b < b
  BY <1>1
<1> QED BY <1>1, <1>2, <1>3, Zenon

\* The low bits of a number, and the low bits of those.
LEMMA LowBits ==
  ASSUME NEW v \in Int
  PROVE  /\ v % 2^XLEN \in Regs /\ v % 2^HALF \in 0 .. 2^HALF - 1
         /\ (v % 2^XLEN) % 2^HALF = v % 2^HALF
         /\ (v % 2^HALF) % 2^HALF = v % 2^HALF
<1> DEFINE M == 2^XLEN
           H == 2^HALF
<1>1. M \in Nat \ {0} /\ H \in Nat \ {0} /\ M = H * H
  BY Powers
<1> HIDE DEF M, H
<1> DEFINE r == v % M
           u == r % H
<1>2. r \in 0 .. M - 1 /\ r \in Int
  BY <1>1
<1>3. PICK d \in Int : v = M * d + r
  BY <1>1, DivisionExists
<1>4. u \in 0 .. H - 1 /\ u \in Nat /\ u < H
  <2> HIDE DEF r
  <2> QED BY <1>1, <1>2, DivisionExists
<1>5. PICK c \in Int : r = H * c + u
  <2> HIDE DEF r
  <2> QED BY <1>1, <1>2, DivisionExists
<1> HIDE DEF r, u
<1>6. v = H * (H * d + c) + u /\ H * d + c \in Int
  BY <1>1, <1>2, <1>3, <1>4, <1>5
<1>7. v % H = u
  BY <1>1, <1>4, <1>6, DivisionUnique
<1>8. u = H * 0 + u
  BY <1>1, <1>4
<1>9. u % H = u
  BY <1>1, <1>4, <1>8, DivisionUnique
<1>10. v % M \in 0 .. M - 1 /\ v % H \in 0 .. H - 1 /\ (v % M) % H = v % H /\ (v % H) % H = v % H
  BY <1>2, <1>4, <1>7, <1>9 DEF r, u
<1> QED BY <1>10 DEF M, H, Regs

\* What FINISH makes of a value left in a register.
LEMMA Extended ==
  ASSUME NEW word \in BOOLEAN, NEW v \in Int
  PROVE  (IF word THEN SignWord(v % 2^XLEN) ELSE v % 2^XLEN) = Extend(word, v)
<1>1. CASE word
  BY <1>1, LowBits DEF Extend, Width, SignWord
<1>2. CASE ~word
  BY <1>2 DEF Extend, Width
<1> QED BY <1>1, <1>2

\* Negation of a register.
LEMMA NegateMod == ASSUME NEW v \in Regs PROVE Negate(v) = (-v) % 2^XLEN /\ v % 2^XLEN = v
<1> DEFINE M == 2^XLEN
<1>1. M \in Nat \ {0}
  BY Powers
<1>2. v \in 0 .. M - 1 /\ Negate(v) = (M - v) % M
  BY DEF Regs, Negate
<1> HIDE DEF M
<1>3. v % M = v
  BY <1>1, <1>2
<1>4. (M - v) % M = (-v) % M
  <2> DEFINE r == (-v) % M
  <2>1. -v \in Int /\ M - v \in Int
    BY <1>1, <1>2
  <2>2. r \in Nat /\ r < M
    BY <1>1, <2>1, DivisionExists
  <2>3. PICK d \in Int : -v = M * d + r
    BY <1>1, <2>1, DivisionExists
  <2> DEFINE z == M - v
             c == d + 1
  <2> HIDE DEF r
  <2>4. z = M * c + r /\ c \in Int /\ z \in Int
    BY <1>1, <1>2, <2>2, <2>3
  <2> HIDE DEF z, c
  <2>5. z % M = r
    BY <1>1, <2>2, <2>4, DivisionUnique
  <2> QED BY <2>5 DEF r, z
<1> QED BY <1>2, <1>3, <1>4 DEF M

\* The reference, as the extension of a division of integers.
LEMMA ReferenceIs ==
  ASSUME NEW e, NEW m, m = Meaning(e.op, e.word, e.a), NEW n, n = Meaning(e.op, e.word, e.b)
  PROVE  Reference(e) = Extend(e.word, IF e.op \in {"div", "divu"} THEN Quotient(m, n) ELSE Remainder(m, n))
BY DEF Reference, Extend, Meaning, Width

\* The division of the absolute values, with the signs put back.
LEMMA SignsBack ==
  ASSUME NEW m \in Int, NEW n \in Int, n # 0, Abs(m) \in Regs,
         NEW D, D = Abs(n), NEW Q \in Nat, NEW R \in Nat, Abs(m) = Q * D + R, R < D
  PROVE  /\ Q \in Regs /\ R \in Regs
         /\ (IF (m < 0) # (n < 0) THEN Negate(Q) ELSE Q) = Quotient(m, n) % 2^XLEN
         /\ (IF m < 0 THEN Negate(R) ELSE R) = Remainder(m, n) % 2^XLEN
         /\ Quotient(m, n) \in Int /\ Remainder(m, n) \in Int
<1> DEFINE A == Abs(m)
<1>1. /\ A \in Nat /\ D \in Nat \ {0}
      /\ A = IF m < 0 THEN -m ELSE m
      /\ D = IF n < 0 THEN -n ELSE n
  BY DEF Abs
<1>2. A \div D = Q
  <2>1. A \in Int /\ D \in Nat \ {0} /\ A = D * Q + R /\ 0 <= R /\ R < D
    BY <1>1
  <2> HIDE DEF A
  <2> QED BY <2>1, DivisionUnique
<1>3. Q <= A /\ R <= A
  <2>1. Q <= Q * D /\ Q * D \in Nat
    BY <1>1
  <2> HIDE DEF A
  <2> QED BY <1>1, <2>1 DEF A
<1>4. Q \in Regs /\ R \in Regs
  BY <1>1, <1>3, Powers DEF Regs
<1>5. Quotient(m, n) = IF (m < 0) # (n < 0) THEN -Q ELSE Q
  BY <1>2 DEF Quotient, Towards0
<1>6. Remainder(m, n) = IF m < 0 THEN -R ELSE R
  <2>1. Remainder(m, n) = m - n * (IF (m < 0) # (n < 0) THEN -Q ELSE Q)
    BY <1>2 DEF Remainder, Towards0
  <2>2. CASE m < 0 /\ n < 0
    <3>1. Remainder(m, n) = m - n * Q /\ -m = Q * (-n) + R
      BY <1>1, <2>1, <2>2
    <3> QED BY <3>1, <2>2
  <2>3. CASE m < 0 /\ ~(n < 0)
    <3>1. Remainder(m, n) = m - n * (-Q) /\ -m = Q * n + R
      BY <1>1, <2>1, <2>3
    <3> QED BY <3>1, <2>3
  <2>4. CASE ~(m < 0) /\ n < 0
    <3>1. Remainder(m, n) = m - n * (-Q) /\ m = Q * (-n) + R
      BY <1>1, <2>1, <2>4
    <3> QED BY <3>1, <2>4
  <2>5. CASE ~(m < 0) /\ ~(n < 0)
    <3>1. Remainder(m, n) = m - n * Q /\ m = Q * n + R
      BY <1>1, <2>1, <2>5
    <3> QED BY <3>1, <2>5
  <2> QED BY <2>2, <2>3, <2>4, <2>5
<1>7. /\ Negate(Q) = (-Q) % 2^XLEN /\ Q % 2^XLEN = Q
      /\ Negate(R) = (-R) % 2^XLEN /\ R % 2^XLEN = R
  BY <1>4, NegateMod
<1> QED BY <1>4, <1>5, <1>6, <1>7

----------------------------------------------------------------------------

\* The registers that hold the set-up of the division e.
SetFor(f, e) ==
    LET a    == Effective(e.op, e.word, e.a)
        b    == Effective(e.op, e.word, e.b)
        aneg == Signed(e.op) /\ Negative(a)
        bneg == Signed(e.op) /\ Negative(b)
    IN  /\ f.word = e.word /\ f.dividend = a
        /\ f.qneg = (aneg # bneg) /\ f.rneg = aneg
        /\ f.zero = (b = 0) /\ f.over = (Signed(e.op) /\ a = Least(e.word) /\ b = Ones)
        /\ ~f.zero /\ ~f.over => f.D = IF bneg THEN Negate(b) ELSE b

Selected(op, q, r) == IF op \in {"rem", "remu"} THEN r ELSE q

\* What the divider returns for a division: where it departs from execute.v,
\* the dividend zero-extended (div_fu.v:72, 158).
Returned(e) == IF Disputed(e) THEN e.a % 2^HALF ELSE Reference(e)

\* The range of an operand, for both widths.
LEMMA PowerOrder ==
  ASSUME NEW word \in BOOLEAN
  PROVE  /\ 2^Width(word) \in Nat /\ 2^Width(word) <= 2^XLEN
         /\ 2^(Width(word) - 1) \in Nat \ {0} /\ 2^(Width(word) - 1) <= 2^(XLEN - 1)
         /\ 2^Width(word) = 2 * 2^(Width(word) - 1)
<1>1. CASE word
  <2>1. 2^HALF <= 2^XLEN
    BY Powers
  <2> QED BY <1>1, <2>1, Powers DEF Width
<1>2. CASE ~word
  BY <1>2, Powers DEF Width
<1> QED BY <1>1, <1>2

\* A division by zero gives all ones and the dividend.
LEMMA ZeroRight ==
  ASSUME NEW e, e.op \in Ops, e.word \in BOOLEAN, e.a \in Regs, e.b \in Regs,
         NEW a, a = Effective(e.op, e.word, e.a), Effective(e.op, e.word, e.b) = 0
  PROVE  Selected(e.op, Ones, a) = Returned(e)
<1> DEFINE m == Meaning(e.op, e.word, e.a)
           n == Meaning(e.op, e.word, e.b)
           M == 2^XLEN
           H == 2^HALF
           G == 2^(HALF - 1)
           r == e.a % H
<1>1. H = 2 * G /\ G \in Nat \ {0} /\ M \in Nat \ {0} /\ H <= M /\ M >= 2
  BY Powers
<1>2. n = 0
  <2>1. 0 = (IF n < 0 THEN n + M ELSE n) /\ n \in Int /\ Abs(n) < 2^Width(e.word)
    BY EffectiveMeans
  <2>2. 2^Width(e.word) <= M /\ 2^Width(e.word) \in Nat
    BY PowerOrder
  <2> HIDE DEF n, M
  <2> QED BY <1>1, <2>1, <2>2 DEF Abs
<1>3. CASE e.op \in {"div", "divu"}
  <2>1. Selected(e.op, Ones, a) = M - 1 /\ ~Disputed(e)
    BY <1>3 DEF Selected, Ones, Disputed
  <2>2. Reference(e) = Extend(e.word, -1)
    BY <1>2, <1>3, ReferenceIs DEF Quotient
  <2>3. Extend(e.word, -1) = M - 1
    <3>1. -1 = M * (-1) + (M - 1) /\ -1 = H * (-1) + (H - 1) /\ M - 1 \in Int /\ H - 1 \in Int
      BY <1>1
    <3>2. (-1) % M = M - 1 /\ (-1) % H = H - 1
      <4> HIDE DEF M, H, G
      <4>1. -1 \in Int /\ -1 = M * (-1) + (M - 1) /\ M - 1 \in Int /\ 0 <= M - 1 /\ M - 1 < M
        BY <1>1
      <4>2. -1 = H * (-1) + (H - 1) /\ H - 1 \in Int /\ 0 <= H - 1 /\ H - 1 < H /\ H \in Nat \ {0}
        BY <1>1
      <4>3. (-1) % M = M - 1
        BY <1>1, <4>1, DivisionUnique
      <4> QED BY <4>2, <4>3, DivisionUnique
    <3>3. CASE ~e.word
      BY <3>2, <3>3 DEF Extend, Width
    <3>4. CASE e.word
      <4>1. Extend(e.word, -1) = SignWord(H - 1) /\ (H - 1) % H = H - 1
        BY <3>2, <3>4, LowBits DEF Extend, Width
      <4>2. SignWord(H - 1) = IF H - 1 >= G THEN H - 1 + M - H ELSE H - 1
        BY <4>1 DEF SignWord
      <4> HIDE DEF M, H, G
      <4> QED BY <1>1, <4>1, <4>2
    <3> QED BY <3>3, <3>4
  <2> QED BY <2>1, <2>2, <2>3 DEF Returned
<1>4. CASE e.op \in {"rem", "remu"}
  <2>1. Selected(e.op, Ones, a) = a
    BY <1>4 DEF Selected
  <2>2. Reference(e) = Extend(e.word, m)
    BY <1>2, <1>4, ReferenceIs DEF Remainder
  <2>3. CASE ~e.word
    <3>1. m % M = a
      <4>1. a \in Regs /\ m \in Int /\ a = IF m < 0 THEN m + M ELSE m
        BY EffectiveMeans
      <4>2. a = M * 0 + a /\ a \in Int /\ 0 <= a /\ a < M
        BY <1>1, <4>1 DEF Regs
      <4>3. m < 0 => m = M * (-1) + a
        BY <1>1, <4>1
      <4> HIDE DEF m, M
      <4>4. CASE m < 0
        <5> DEFINE k == -1
        <5>1. m \in Int /\ M \in Nat \ {0} /\ m = M * k + a /\ k \in Int /\ a \in Int /\ 0 <= a /\ a < M
          BY <1>1, <4>1, <4>2, <4>3, <4>4
        <5> HIDE DEF k
        <5> QED BY <5>1, DivisionUnique
      <4>5. CASE ~(m < 0)
        <5>1. m = a /\ M \in Nat \ {0} /\ a \in Int /\ 0 <= a /\ a < M
          BY <1>1, <4>1, <4>2, <4>5
        <5> QED BY <5>1
      <4> QED BY <4>4, <4>5
    <3>2. ~Disputed(e)
      BY <2>3 DEF Disputed
    <3> QED BY <2>1, <2>2, <2>3, <3>1, <3>2 DEF Returned, Extend, Width
  <2>4. CASE e.word /\ e.op = "rem"
    <3>1. a = SignWord(e.a) /\ m = IF r >= G THEN r - H ELSE r
      BY <2>4 DEF Effective, Signed, Meaning, Width, Integer
    <3>2. m % H = r
      <4>1. r \in 0 .. H - 1 /\ e.a \in Int
        BY LowBits DEF Regs
      <4>2. /\ r >= G => m = H * (-1) + r
            /\ ~(r >= G) => m = H * 0 + r
            /\ m \in Int
        BY <1>1, <3>1, <4>1
      <4> HIDE DEF m, H, r, G
      <4> QED BY <1>1, <4>1, <4>2, DivisionUnique
    <3>3. Extend(e.word, m) = SignWord(r) /\ SignWord(r) = SignWord(e.a)
      <4>1. e.a \in Int
        BY Powers DEF Regs
      <4> QED BY <2>4, <3>2, <4>1, LowBits DEF Extend, Width, SignWord
    <3>4. ~Disputed(e)
      BY <2>4 DEF Disputed
    <3> QED BY <2>1, <2>2, <3>1, <3>3, <3>4 DEF Returned
  <2>5. CASE e.word /\ e.op = "remu"
    <3>1. a = r /\ m = r /\ e.b % H = 0
      BY <1>2, <2>5 DEF Effective, Signed, Meaning, Width
    <3>2. Disputed(e) <=> r >= G
      BY <2>5, <3>1 DEF Disputed
    <3>3. e.a \in Int /\ r \in 0 .. H - 1 /\ r % H = r
      <4>1. e.a \in Int
        BY Powers DEF Regs
      <4> QED BY <4>1, LowBits
    <3>4. Reference(e) = IF r >= G THEN r + M - H ELSE r
      BY <2>2, <2>5, <3>1, <3>3 DEF Extend, Width, SignWord
    <3> QED BY <2>1, <3>1, <3>2, <3>4 DEF Returned
  <2> QED BY <1>4, <2>3, <2>4, <2>5
<1> QED BY <1>3, <1>4 DEF Ops

----------------------------------------------------------------------------

\* What a signed operand stands for.
LEMMA SignedMeans ==
  ASSUME NEW op \in Ops, NEW word \in BOOLEAN, NEW x \in Regs, Signed(op)
  PROVE  /\ Meaning(op, word, x) \in Int
         /\ Effective(op, word, x) = IF Meaning(op, word, x) < 0 THEN Meaning(op, word, x) + 2^XLEN
                                    ELSE Meaning(op, word, x)
         /\ Meaning(op, word, x) < 2^(Width(word) - 1)
<1> DEFINE e == Effective(op, word, x)
           m == Meaning(op, word, x)
<1>1. e = Effective(op, word, x) /\ m = Meaning(op, word, x)
  OBVIOUS
<1> HIDE DEF e, m
<1>2. /\ m \in Int /\ e = IF m < 0 THEN m + 2^XLEN ELSE m
      /\ Signed(op) => -(2^(Width(word) - 1)) <= m /\ m < 2^(Width(word) - 1)
  BY <1>1, EffectiveMeans
<1> QED BY <1>2 DEF e, m

\* The least number divided by minus one is itself, without a remainder.
LEMMA OverRight ==
  ASSUME NEW e, e.op \in Ops, e.word \in BOOLEAN, e.a \in Regs, e.b \in Regs, Signed(e.op),
         NEW a, a = Effective(e.op, e.word, e.a), a = Least(e.word),
         Effective(e.op, e.word, e.b) = Ones
  PROVE  Selected(e.op, a, 0) = Returned(e)
<1> DEFINE m == Meaning(e.op, e.word, e.a)
           n == Meaning(e.op, e.word, e.b)
           M == 2^XLEN
           H == 2^HALF
           G == 2^(HALF - 1)
           W == 2^(XLEN - 1)
           g == 2^(Width(e.word) - 1)
<1>1. /\ H = 2 * G /\ G \in Nat \ {0} /\ M \in Nat \ {0} /\ H <= M /\ M = 2 * W /\ W \in Nat \ {0}
      /\ H \in Nat \ {0} /\ g \in Nat \ {0} /\ g <= W
  BY Powers, PowerOrder
<1>2. /\ m \in Int /\ a = (IF m < 0 THEN m + M ELSE m) /\ m < g
      /\ n \in Int /\ M - 1 = (IF n < 0 THEN n + M ELSE n) /\ n < g
  <2>1. /\ m \in Int /\ Effective(e.op, e.word, e.a) = (IF m < 0 THEN m + M ELSE m) /\ m < g
    BY SignedMeans
  <2>2. /\ n \in Int /\ Effective(e.op, e.word, e.b) = (IF n < 0 THEN n + M ELSE n) /\ n < g
    BY SignedMeans
  <2> HIDE DEF m, n, g, M
  <2>3. a = Effective(e.op, e.word, e.a) /\ Ones = Effective(e.op, e.word, e.b) /\ Ones = M - 1
    BY DEF Ones, M
  <2> QED BY <2>1, <2>2, <2>3
<1>3. Extend(e.word, g) = a /\ Extend(e.word, 0) = 0 /\ a = M - g
  <2>0. G % H = G /\ W % M = W /\ 0 % H = 0 /\ 0 % M = 0
    <3> HIDE DEF G, H, M, W
    <3>1. G \in Int /\ G = H * 0 + G /\ 0 <= G /\ G < H
      BY <1>1
    <3>2. W \in Int /\ W = M * 0 + W /\ 0 <= W /\ W < M
      BY <1>1
    <3>3. G % H = G
      BY <1>1, <3>1, DivisionUnique
    <3>4. W % M = W
      BY <1>1, <3>2, DivisionUnique
    <3>5. 0 % H = 0
      BY <1>1
    <3>6. 0 % M = 0
      BY <1>1
    <3> QED BY <3>3, <3>4, <3>5, <3>6
  <2>1. CASE e.word
    <3>1. /\ Extend(e.word, g) = SignWord(G) /\ a = SignWord(G) /\ g = G
          /\ Extend(e.word, 0) = SignWord(0)
      BY <2>0, <2>1 DEF Extend, Width, Least
    <3>2. SignWord(G) = (IF G >= G THEN G + M - H ELSE G) /\ SignWord(0) = (IF 0 >= G THEN 0 + M - H ELSE 0)
      BY <2>0 DEF SignWord
    <3> HIDE DEF m, n, M, H, G, W, g
    <3> QED BY <1>1, <3>1, <3>2
  <2>2. CASE ~e.word
    <3>1. Extend(e.word, g) = W /\ a = W /\ g = W /\ Extend(e.word, 0) = 0
      BY <2>0, <2>2 DEF Extend, Width, Least
    <3> HIDE DEF m, n, M, H, G, W, g
    <3> QED BY <1>1, <3>1
  <2> QED BY <2>1, <2>2
<1>4. m = -g /\ n = -1
  <2> HIDE DEF m, n, M, H, G, W, g
  <2> QED BY <1>1, <1>2, <1>3
<1>5. Quotient(m, n) = g /\ Remainder(m, n) = 0
  <2> HIDE DEF m, n, M, H, G, W, g
  <2>1. Abs(m) = g /\ Abs(n) = 1 /\ g \div 1 = g
    <3>1. g \in Int /\ 1 \in Nat \ {0} /\ g = 1 * g + 0 /\ 0 <= 0 /\ 0 < 1
      BY <1>1
    <3>2. g \div 1 = g
      BY <3>1, DivisionUnique
    <3>3. Abs(m) = -m /\ Abs(n) = -n
      BY <1>1, <1>4 DEF Abs
    <3> QED BY <1>1, <1>4, <3>2, <3>3
  <2>2. m < 0 /\ n < 0 /\ n # 0
    BY <1>1, <1>4
  <2>3. Towards0(m, n) = g
    <3>1. ((m < 0) # (n < 0)) = FALSE
      BY <1>2, <2>2
    <3> QED BY <2>1, <3>1 DEF Towards0
  <2> QED BY <1>1, <1>4, <2>2, <2>3 DEF Quotient, Remainder
<1>6. ~Disputed(e)
  BY DEF Disputed, Signed
<1>7. Returned(e) = Extend(e.word, IF e.op \in {"div", "divu"} THEN g ELSE 0)
  <2>1. Reference(e) = Extend(e.word, IF e.op \in {"div", "divu"} THEN Quotient(m, n) ELSE Remainder(m, n))
    BY ReferenceIs
  <2> HIDE DEF m, n, g
  <2> QED BY <1>5, <1>6, <2>1 DEF Returned
<1> HIDE DEF g
<1> QED BY <1>3, <1>7 DEF Selected, Ops

\* Any other division: the long division of the absolute values, when it is
\* complete.
LEMMA DivideRight ==
  ASSUME NEW e, e.op \in Ops, e.word \in BOOLEAN, e.a \in Regs, e.b \in Regs,
         NEW f, SetFor(f, e), ~f.zero, ~f.over,
         NEW Q \in Nat, NEW R \in Nat, R < f.D,
         (IF f.rneg THEN Negate(f.dividend) ELSE f.dividend) = Q * f.D + R,
         NEW q, q = (IF f.qneg THEN Negate(Q) ELSE Q),
         NEW r, r = (IF f.rneg THEN Negate(R) ELSE R)
  PROVE  /\ Q \in Regs /\ R \in Regs
         /\ (IF f.word THEN Selected(e.op, SignWord(q), SignWord(r)) ELSE Selected(e.op, q, r)) = Returned(e)
<1> DEFINE m == Meaning(e.op, e.word, e.a)
           n == Meaning(e.op, e.word, e.b)
           a == Effective(e.op, e.word, e.a)
           b == Effective(e.op, e.word, e.b)
           M == 2^XLEN
<1>1. /\ a \in Regs /\ m \in Int
      /\ (Signed(e.op) /\ Negative(a)) <=> m < 0
      /\ (IF Signed(e.op) /\ Negative(a) THEN Negate(a) ELSE a) = Abs(m)
      /\ Abs(m) < 2^Width(e.word)
  BY EffectiveMeans
<1>2. /\ b \in Regs /\ n \in Int
      /\ b = (IF n < 0 THEN n + M ELSE n)
      /\ (Signed(e.op) /\ Negative(b)) <=> n < 0
      /\ (IF Signed(e.op) /\ Negative(b) THEN Negate(b) ELSE b) = Abs(n)
  BY EffectiveMeans
<1>3. /\ f.word = e.word /\ f.dividend = a /\ b # 0
      /\ f.rneg = (Signed(e.op) /\ Negative(a))
      /\ f.qneg = ((Signed(e.op) /\ Negative(a)) # (Signed(e.op) /\ Negative(b)))
      /\ f.D = IF Signed(e.op) /\ Negative(b) THEN Negate(b) ELSE b
  BY DEF SetFor
<1>4. f.rneg = (m < 0)
  <2> HIDE DEF m, a
  <2> QED BY <1>1, <1>3
<1>5. f.qneg = ((m < 0) # (n < 0))
  <2> HIDE DEF m, n, a, b
  <2>1. (Signed(e.op) /\ Negative(a)) = (m < 0)
    BY <1>1
  <2>2. (Signed(e.op) /\ Negative(b)) = (n < 0)
    BY <1>2
  <2> QED BY <1>3, <2>1, <2>2, Zenon
<1>6. Abs(m) = Q * f.D + R /\ f.D = Abs(n)
  BY <1>1, <1>2, <1>3
<1>7. Abs(m) \in Regs
  <2>1. Abs(m) \in Nat
    BY <1>1 DEF Abs
  <2>2. 2^Width(e.word) <= M /\ 2^Width(e.word) \in Nat /\ M \in Nat
    BY Powers, PowerOrder
  <2> HIDE DEF m, M
  <2> QED BY <1>1, <2>1, <2>2 DEF M, Regs
<1>8. n # 0
  BY <1>2, <1>3
<1>9. /\ Q \in Regs /\ R \in Regs
      /\ q = Quotient(m, n) % M /\ r = Remainder(m, n) % M
      /\ Quotient(m, n) \in Int /\ Remainder(m, n) \in Int
  <2> HIDE DEF m, n
  <2>1. /\ Q \in Regs /\ R \in Regs
        /\ (IF (m < 0) # (n < 0) THEN Negate(Q) ELSE Q) = Quotient(m, n) % M
        /\ (IF m < 0 THEN Negate(R) ELSE R) = Remainder(m, n) % M
        /\ Quotient(m, n) \in Int /\ Remainder(m, n) \in Int
    BY <1>1, <1>2, <1>6, <1>7, <1>8, SignsBack
  <2>2. q = IF (m < 0) # (n < 0) THEN Negate(Q) ELSE Q
    BY <1>5
  <2>3. r = IF m < 0 THEN Negate(R) ELSE R
    BY <1>4
  <2> QED BY <2>1, <2>2, <2>3
<1>10. ~Disputed(e)
  BY <1>8 DEF Disputed, Meaning, Width, Signed
<1>11. /\ (IF e.word THEN SignWord(q) ELSE q) = Extend(e.word, Quotient(m, n))
       /\ (IF e.word THEN SignWord(r) ELSE r) = Extend(e.word, Remainder(m, n))
  <2> HIDE DEF m, n
  <2> QED BY <1>9, Extended
<1>12. Reference(e) = Extend(e.word, IF e.op \in {"div", "divu"} THEN Quotient(m, n) ELSE Remainder(m, n))
  BY ReferenceIs
<1>13. Returned(e) = Extend(e.word, IF e.op \in {"div", "divu"} THEN Quotient(m, n) ELSE Remainder(m, n))
  BY <1>10, <1>12 DEF Returned
<1> HIDE DEF m, n
<1> QED BY <1>3, <1>9, <1>11, <1>13 DEF Selected, Ops

(***************************************************************************)
(* Part 3: the divider.  Between two edges it holds a division that has    *)
(* been carried out as far as count says.                                  *)
(***************************************************************************)

\* The types of the divider's registers.
Registers ==
    [fsm : {"IDLE", "RUN", "FINISH"}, done : BOOLEAN, word : BOOLEAN, qneg : BOOLEAN,
     rneg : BOOLEAN, zero : BOOLEAN, over : BOOLEAN, dividend : Regs, target : {0, HALF, XLEN},
     count : 0 .. XLEN, R : 0 .. 2^(XLEN + 1) - 1, Q : Regs, D : Regs, quotient : Regs,
     remainder : Regs]

\* The number that is being divided.
Whole(f) == IF f.rneg THEN Negate(f.dividend) ELSE f.dividend

\* The long division in the middle: hi is what has been divided, q times the
\* divisor and R; rest is what has not, and stands above q in Q.
Halfway(f) ==
    \E hi, rest, q \in Nat :
        /\ Whole(f) = hi * 2^(f.target - f.count) + rest /\ rest < 2^(f.target - f.count)
        /\ f.Q = rest * 2^(XLEN - f.target + f.count) + q /\ q < 2^f.count
        /\ hi = q * f.D + f.R /\ f.R < f.D

Dividing(f) == f.fsm # "IDLE" /\ ~f.zero /\ ~f.over

\* The divider's registers between two edges.
Steps(f) ==
    /\ f \in Registers
    /\ f.done => f.fsm = "IDLE"
    /\ Dividing(f) => /\ f.target = Width(f.word) /\ Halfway(f)
                      /\ IF f.fsm = "RUN" THEN f.count < f.target ELSE f.count = f.target
    /\ f.fsm = "RUN" => ~f.zero /\ ~f.over

\* In the middle, quotient and remainder are those of the part that was seen.
LEMMA HalfwayPartial ==
  ASSUME NEW f, Steps(f), Dividing(f)
  PROVE  /\ f.R < f.D
         /\ Whole(f) \div 2^(f.target - f.count) = (f.Q % 2^f.count) * f.D + f.R
<1> DEFINE T == 2^(f.target - f.count)
           S == 2^(XLEN - f.target + f.count)
           C == 2^f.count
           B == 2^(XLEN - f.target)
<1>1. PICK hi \in Nat, rest \in Nat, q \in Nat :
        /\ Whole(f) = hi * T + rest /\ rest < T
        /\ f.Q = rest * S + q /\ q < C
        /\ hi = q * f.D + f.R /\ f.R < f.D
  BY DEF Steps, Halfway
<1>2. f.count \in Nat /\ f.target \in Nat /\ f.count <= f.target /\ f.target <= XLEN /\ XLEN \in Nat
  <2>1. f.target = Width(f.word) /\ (IF f.fsm = "RUN" THEN f.count < f.target ELSE f.count = f.target)
        /\ f.word \in BOOLEAN /\ f.count \in 0 .. XLEN
    BY DEF Steps, Registers
  <2>2. Width(f.word) \in Nat /\ Width(f.word) <= XLEN /\ XLEN \in Nat
    BY Powers DEF Width
  <2> QED BY <2>1, <2>2
<1>3. T \in Nat \ {0} /\ C \in Nat \ {0} /\ B \in Nat \ {0} /\ S = B * C
  <2>1. f.target - f.count \in Nat /\ XLEN - f.target \in Nat
        /\ XLEN - f.target + f.count = (XLEN - f.target) + f.count
    BY <1>2
  <2>2. S = B * C
    BY <1>2, <2>1, PowerSum
  <2> QED BY <1>2, <2>1, <2>2, PowerNat, PowerPositive
<1> HIDE DEF T, S, C, B
<1>4. Whole(f) \div T = hi
  <2>1. Whole(f) = T * hi + rest /\ Whole(f) \in Int
    BY <1>1, <1>3
  <2> QED BY <1>1, <1>3, <2>1, DivisionUnique
<1>5. f.Q % C = q
  <2> DEFINE p == rest * B
  <2>1. f.Q = C * p + q /\ f.Q \in Int /\ p \in Int
    <3>1. rest * (B * C) = C * (rest * B) /\ rest * B \in Int
      BY <1>3
    <3> QED BY <1>1, <1>3, <3>1
  <2> HIDE DEF p
  <2>2. /\ f.Q \in Int /\ C \in Nat \ {0} /\ p \in Int /\ q \in Int /\ f.Q = C * p + q
        /\ 0 <= q /\ q < C
    BY <1>1, <1>3, <2>1
  <2> QED BY <2>2, DivisionUnique
<1> QED BY <1>1, <1>4, <1>5 DEF T, C

----------------------------------------------------------------------------

\* The registers an iteration writes.
Stepped(f, s, c, x, y) == [[f EXCEPT !.done = FALSE, !.count = c, !.fsm = s] EXCEPT !.R = x, !.Q = y]

\* The registers that only set-up writes.
Keeps(g, f) ==
    /\ g.word = f.word /\ g.qneg = f.qneg /\ g.rneg = f.rneg /\ g.zero = f.zero
    /\ g.over = f.over /\ g.dividend = f.dividend /\ g.D = f.D

Written(g, f, s, c, x, y) ==
    /\ g.fsm = s /\ g.done = FALSE /\ g.count = c /\ g.R = x /\ g.Q = y
    /\ Keeps(g, f) /\ g.target = f.target

Fits(f, s, c, x, y) ==
    /\ f \in Registers /\ s \in {"IDLE", "RUN", "FINISH"} /\ c \in 0 .. XLEN
    /\ x \in 0 .. 2^(XLEN + 1) - 1 /\ y \in Regs

\* They keep their types; the others keep their values.
LEMMA IterateTyped ==
  ASSUME NEW f, NEW s, NEW c, NEW x, NEW y, Fits(f, s, c, x, y)
  PROVE  Stepped(f, s, c, x, y) \in Registers /\ Written(Stepped(f, s, c, x, y), f, s, c, x, y)
BY DEF Registers, Stepped, Fits, Keeps, Written

\* An iteration brings down one bit.
LEMMA IterateKeeps ==
  ASSUME Steps(fu), fu.fsm = "RUN", NEW g, g = Iterate
  PROVE  /\ Steps(g) /\ g.fsm # "IDLE" /\ g.done = FALSE
         /\ Keeps(g, fu)
<1> DEFINE n == fu.target
           k == fu.count
           T == 2^(n - (k + 1))
           S == 2^(XLEN - n + k)
           C == 2^k
           M == 2^XLEN
           W == 2^(XLEN - 1)
           high == (2 * fu.R + fu.Q \div W) % 2^(XLEN + 1)
           low == (2 * fu.Q) % M
           trial == (high - fu.D) % 2^(XLEN + 1)
           s == IF k = n - 1 THEN "FINISH" ELSE "RUN"
           x == IF trial >= M THEN high ELSE trial
           y == IF trial >= M THEN low ELSE low + 1
<1>1. fu \in Registers /\ Halfway(fu) /\ n = Width(fu.word) /\ k < n /\ ~fu.zero /\ ~fu.over
  BY DEF Steps, Dividing
<1>2. k \in Nat /\ n \in Nat /\ n <= XLEN /\ XLEN \in Nat /\ k + 1 \in 0 .. XLEN
  <2>1. fu.word \in BOOLEAN /\ k \in 0 .. XLEN
    BY <1>1 DEF Registers
  <2>2. Width(fu.word) \in Nat /\ Width(fu.word) <= XLEN /\ XLEN \in Nat
    BY <2>1, Powers DEF Width
  <2> HIDE DEF n, k
  <2> QED BY <1>1, <2>1, <2>2
<1>3. /\ T \in Nat \ {0} /\ S \in Nat \ {0} /\ C \in Nat \ {0} /\ C <= S
      /\ W = T * S /\ 2^(n - k) = 2 * T /\ 2^(XLEN - n + (k + 1)) = 2 * S /\ 2^(k + 1) = 2 * C
  <2> DEFINE i == n - (k + 1)
             j == XLEN - n + k
             l == XLEN - n
  <2>1. /\ i \in Nat /\ j \in Nat /\ l \in Nat /\ n - k = i + 1 /\ XLEN - n + (k + 1) = j + 1
        /\ XLEN - 1 = i + j /\ j = l + k
    BY <1>1, <1>2
  <2>2. T = 2^i /\ S = 2^j
    OBVIOUS
  <2> HIDE DEF i, j, l, n, k, T, S
  <2>3. T \in Nat \ {0} /\ S \in Nat \ {0} /\ C \in Nat \ {0}
    BY <1>2, <2>1, <2>2, PowerNat, PowerPositive
  <2>4. W = T * S
    BY <2>1, <2>2, PowerSum
  <2>5. 2^(n - k) = 2 * T /\ 2^(XLEN - n + (k + 1)) = 2 * S /\ 2^(k + 1) = 2 * C
    BY <1>2, <2>1, <2>2, PowerNext
  <2>6. C <= S
    <3>1. S = 2^l * C /\ 2^l \in Nat \ {0}
      BY <1>2, <2>1, <2>2, PowerSum, PowerNat, PowerPositive
    <3>2. \A b \in Nat \ {0}, c \in Nat \ {0} : c <= b * c
      OBVIOUS
    <3> QED BY <2>3, <3>1, <3>2
  <2> QED BY <2>3, <2>4, <2>5, <2>6
<1>4. PICK hi \in Nat, rest \in Nat, q \in Nat :
        /\ Whole(fu) = hi * 2^(n - k) + rest /\ rest < 2^(n - k)
        /\ fu.Q = rest * S + q /\ q < C
        /\ hi = q * fu.D + fu.R /\ fu.R < fu.D
  BY <1>1 DEF Halfway
<1>5. /\ fu.R \in Nat /\ fu.D \in Nat /\ fu.D < M /\ M = 2 * W /\ 2^(XLEN + 1) = 2 * M
      /\ W \in Nat \ {0} /\ fu.Q \in Nat
  <2>1. fu.R \in 0 .. 2^(XLEN + 1) - 1 /\ fu.D \in 0 .. M - 1 /\ fu.Q \in 0 .. M - 1
    BY <1>1 DEF Registers, Regs
  <2>2. M = 2 * W /\ 2^(XLEN + 1) = 2 * M /\ W \in Nat \ {0}
    BY Powers
  <2> HIDE DEF M, W
  <2> QED BY <2>1, <2>2
<1> DEFINE bit == IF rest < T THEN 0 ELSE 1
           left == rest - bit * T
<1>6. /\ left \in Nat /\ left < T
      /\ hi * (2 * T) + rest = (2 * hi + bit) * T + left
      /\ low = left * (2 * S) + 2 * q /\ low + 1 < M /\ low \in Nat
      /\ high = 2 * fu.R + bit
      /\ trial >= M <=> high < fu.D
      /\ ~(trial >= M) => trial = high - fu.D
      /\ high < fu.D => 2 * hi + bit = (2 * q) * fu.D + high
      /\ ~(high < fu.D) => 2 * hi + bit = (2 * q + 1) * fu.D + (high - fu.D) /\ high - fu.D < fu.D
  <2>1. Aligned(T, S, W, M, hi, rest, q, fu.R, fu.D, fu.Q)
    <3>1. q < S
      <4>1. q < C /\ C <= S /\ C \in Nat /\ S \in Nat
        BY <1>3, <1>4
      <4> HIDE DEF C, S
      <4> QED BY <4>1
    <3>2. rest < 2 * T
      BY <1>3, <1>4
    <3> HIDE DEF T, S, W, M, n, k, C
    <3> QED BY <1>3, <1>4, <1>5, <3>1, <3>2 DEF Aligned
  <2>2. /\ high = (2 * fu.R + fu.Q \div W) % (2 * M) /\ trial = (high - fu.D) % (2 * M)
        /\ low = (2 * fu.Q) % M
    BY <1>5
  <2>3. bit = (IF rest < T THEN 0 ELSE 1) /\ left = rest - bit * T
    OBVIOUS
  <2> HIDE DEF T, S, W, M, high, low, trial, bit, left, n, k, C
  <2>4. BroughtDown(T, S, W, M, hi, rest, q, fu.R, fu.D, fu.Q)
    BY <2>1, BringDown
  <2> QED BY <2>2, <2>3, <2>4 DEF BroughtDown
<1>7. g = [[fu EXCEPT !.done = FALSE, !.count = k + 1, !.fsm = s] EXCEPT !.R = x, !.Q = y]
  BY DEF Iterate, LastStep
<1>8. bit \in {0, 1}
  OBVIOUS
<1> HIDE DEF T, S, W, M, high, low, trial, bit, left
<1> DEFINE p == IF high < fu.D THEN 2 * q ELSE 2 * q + 1
<1>9. /\ x \in Nat /\ x < fu.D /\ y \in Nat /\ y < M /\ y = left * (2 * S) + p
      /\ 2 * hi + bit = p * fu.D + x /\ p \in Nat /\ p < 2 * C
  <2>1. CASE high < fu.D
    BY <1>3, <1>4, <1>5, <1>6, <1>8, <2>1
  <2>2. CASE ~(high < fu.D)
    BY <1>3, <1>4, <1>5, <1>6, <1>8, <2>2
  <2> QED BY <2>1, <2>2
<1>10. x \in 0 .. 2^(XLEN + 1) - 1 /\ y \in Regs
  <2>1. Regs = 0 .. M - 1 /\ M \in Nat
    BY <1>5 DEF Regs, M
  <2> HIDE DEF x, y
  <2>2. x \in Nat /\ x < fu.D /\ y \in Nat /\ y < M
    BY <1>9
  <2>3. fu.D \in Nat /\ fu.D < M /\ 2^(XLEN + 1) = 2 * M
    BY <1>5
  <2> QED BY <2>1, <2>2, <2>3
<1> HIDE DEF x, y
<1>11. /\ g \in Registers
       /\ g.fsm = s /\ g.done = FALSE /\ g.count = k + 1 /\ g.R = x /\ g.Q = y
       /\ Keeps(g, fu) /\ g.target = fu.target
  <2>1. s \in {"IDLE", "RUN", "FINISH"} /\ k + 1 \in 0 .. XLEN
    BY <1>2
  <2> DEFINE c == k + 1
  <2>2. c \in 0 .. XLEN /\ g = Stepped(fu, s, c, x, y)
    BY <1>7, <2>1 DEF Stepped
  <2> HIDE DEF s, c, k, n
  <2>3. /\ g \in Registers
        /\ g.fsm = s /\ g.done = FALSE /\ g.count = c /\ g.R = x /\ g.Q = y
        /\ Keeps(g, fu) /\ g.target = fu.target
    <3>1. fu \in Registers
      BY <1>1
    <3>2. Fits(fu, s, c, x, y)
      BY <1>10, <2>1, <2>2, <3>1 DEF Fits
    <3>3. g \in Registers /\ Written(g, fu, s, c, x, y)
      BY <2>2, <3>2, IterateTyped
    <3> QED BY <3>3 DEF Written
  <2> QED BY <2>3 DEF c
<1>12. Halfway(g)
  <2> DEFINE h == 2 * hi + bit
  <2>1. Whole(g) = Whole(fu)
    BY <1>11 DEF Whole, Keeps
  <2>2. Whole(fu) = h * T + left
    BY <1>3, <1>4, <1>6
  <2>3. 2^(g.target - g.count) = T /\ 2^(XLEN - g.target + g.count) = 2 * S /\ 2^g.count = 2 * C
    BY <1>3, <1>11 DEF T
  <2>4. h \in Nat /\ p \in Nat /\ left \in Nat
    BY <1>4, <1>6, <1>8, <1>9
  <2>5. h = p * g.D + g.R /\ g.R < g.D /\ g.Q = left * (2 * S) + p
    BY <1>9, <1>11 DEF Keeps
  <2> HIDE DEF h, p, C
  <2>6. /\ Whole(g) = h * 2^(g.target - g.count) + left /\ left < 2^(g.target - g.count)
        /\ g.Q = left * 2^(XLEN - g.target + g.count) + p /\ p < 2^g.count
        /\ h = p * g.D + g.R /\ g.R < g.D
    BY <1>6, <1>9, <2>1, <2>2, <2>3, <2>5
  <2> QED BY <2>4, <2>6 DEF Halfway
<1>13. IF g.fsm = "RUN" THEN g.count < g.target ELSE g.count = g.target
  BY <1>1, <1>2, <1>11
<1>14. g.fsm # "IDLE"
  BY <1>11
<1> QED BY <1>1, <1>11, <1>12, <1>13, <1>14 DEF Steps, Dividing, Keeps

----------------------------------------------------------------------------

\* A division the program may ask for.
Asked(e) == e.op \in Ops /\ e.word \in BOOLEAN /\ e.a \in Regs /\ e.b \in Regs

\* The extension of a word is a register.
LEMMA SignWordReg == ASSUME NEW v \in Int PROVE SignWord(v) \in Regs
<1> DEFINE H == 2^HALF
           G == 2^(HALF - 1)
           M == 2^XLEN
           u == v % H
<1>1. H = 2 * G /\ G \in Nat \ {0} /\ M \in Nat \ {0} /\ H <= M
  BY Powers
<1>2. u \in 0 .. H - 1
  BY LowBits
<1>3. SignWord(v) = (IF u >= G THEN u + M - H ELSE u) /\ Regs = 0 .. M - 1
  BY DEF SignWord, Regs
<1> HIDE DEF H, G, M, u
<1> QED BY <1>1, <1>2, <1>3

\* So is what negation gives.
LEMMA NegateReg == ASSUME NEW v \in Regs PROVE Negate(v) \in Regs
<1>1. v \in Int /\ -v \in Int
  BY Powers DEF Regs
<1> QED BY <1>1, NegateMod, LowBits

\* The registers when FINISH gives x and y.
Given(f, x, y) == [f EXCEPT !.done = TRUE, !.fsm = "IDLE", !.quotient = x, !.remainder = y]
Holds(g, x, y) ==
    /\ g \in Registers /\ g.done = TRUE /\ g.fsm = "IDLE" /\ g.quotient = x /\ g.remainder = y

\* The registers have their types then.
LEMMA GivenTyped ==
  ASSUME NEW f, NEW x, NEW y, f \in Registers, x \in Regs, y \in Regs
  PROVE  Holds(Given(f, x, y), x, y)
BY DEF Registers, Given, Holds

\* FINISH ends a division: whichever division the set-up was for, the result is
\* the one the program means.
LEMMA FinishGives ==
  ASSUME Steps(fu), fu.fsm = "FINISH", NEW g, g = Finish
  PROVE  /\ Steps(g) /\ g.fsm = "IDLE" /\ g.done = TRUE
         /\ \A e : Asked(e) /\ SetFor(fu, e) => Selected(e.op, g.quotient, g.remainder) = Returned(e)
<1>1. fu \in Registers /\ fu.zero \in BOOLEAN /\ fu.over \in BOOLEAN /\ fu.word \in BOOLEAN
      /\ fu.dividend \in Regs
  BY DEF Steps, Registers
<1> SUFFICES \E x, y \in Regs : /\ g = Given(fu, x, y)
                                /\ \A e : Asked(e) /\ SetFor(fu, e) => Selected(e.op, x, y) = Returned(e)
  <2>1. PICK x \in Regs, y \in Regs :
          /\ g = Given(fu, x, y)
          /\ \A e : Asked(e) /\ SetFor(fu, e) => Selected(e.op, x, y) = Returned(e)
    OBVIOUS
  <2>2. Holds(g, x, y)
    BY <1>1, <2>1, GivenTyped
  <2>3. g \in Registers /\ g.done = TRUE /\ g.fsm = "IDLE" /\ g.quotient = x /\ g.remainder = y
    BY <2>2 DEF Holds
  <2>4. Steps(g)
    BY <2>3 DEF Steps, Dividing
  <2>5. ASSUME NEW e, Asked(e), SetFor(fu, e) PROVE Selected(e.op, g.quotient, g.remainder) = Returned(e)
    BY <2>1, <2>3, <2>5
  <2> QED BY <2>3, <2>4, <2>5
<1>2. 0 \in Regs /\ Ones \in Regs
  BY Powers DEF Regs, Ones
<1>3. CASE fu.zero
  <2>1. g = Given(fu, Ones, fu.dividend)
    BY <1>3 DEF Finish, Given
  <2>2. ASSUME NEW e, Asked(e), SetFor(fu, e) PROVE Selected(e.op, Ones, fu.dividend) = Returned(e)
    <3>1. fu.dividend = Effective(e.op, e.word, e.a) /\ Effective(e.op, e.word, e.b) = 0
      BY <1>3, <2>2 DEF SetFor
    <3>2. e.op \in Ops /\ e.word \in BOOLEAN /\ e.a \in Regs /\ e.b \in Regs
      BY <2>2 DEF Asked
    <3> QED BY <3>1, <3>2, ZeroRight
  <2> QED BY <1>1, <1>2, <2>1, <2>2
<1>4. CASE ~fu.zero /\ fu.over
  <2>1. g = Given(fu, fu.dividend, 0)
    BY <1>4 DEF Finish, Given
  <2>2. ASSUME NEW e, Asked(e), SetFor(fu, e) PROVE Selected(e.op, fu.dividend, 0) = Returned(e)
    <3>1. /\ fu.dividend = Effective(e.op, e.word, e.a) /\ Signed(e.op)
          /\ Effective(e.op, e.word, e.a) = Least(e.word) /\ Effective(e.op, e.word, e.b) = Ones
      BY <1>4, <2>2 DEF SetFor
    <3>2. e.op \in Ops /\ e.word \in BOOLEAN /\ e.a \in Regs /\ e.b \in Regs
      BY <2>2 DEF Asked
    <3> QED BY <3>1, <3>2, OverRight
  <2> QED BY <1>1, <1>2, <2>1, <2>2
<1>5. CASE ~fu.zero /\ ~fu.over
  <2>1. /\ fu.R < fu.D /\ fu.count = fu.target /\ Halfway(fu) /\ fu.target = Width(fu.word)
    BY <1>5 DEF Steps, Dividing, Halfway
  <2>2. fu.target - fu.count = 0 /\ XLEN - fu.target + fu.count = XLEN /\ fu.target \in Nat
    <3>1. fu.target \in Nat /\ XLEN \in Nat
      BY <1>1, <2>1, Powers DEF Width
    <3> QED BY <2>1, <3>1
  <2>3. PICK hi \in Nat, rest \in Nat, Q \in Nat :
          /\ Whole(fu) = hi * 2^0 + rest /\ rest < 2^0
          /\ fu.Q = rest * 2^XLEN + Q
          /\ hi = Q * fu.D + fu.R
    <3>1. PICK hi \in Nat, rest \in Nat, Q \in Nat :
          /\ Whole(fu) = hi * 2^(fu.target - fu.count) + rest /\ rest < 2^(fu.target - fu.count)
          /\ fu.Q = rest * 2^(XLEN - fu.target + fu.count) + Q
          /\ hi = Q * fu.D + fu.R
      BY <2>1 DEF Halfway
    <3> QED BY <2>2, <3>1
  <2>4. rest = 0 /\ Whole(fu) = hi /\ fu.Q = Q
    <3>1. rest = 0
      BY <2>3, PowerZero
    <3>2. 0 * 2^XLEN = 0
      BY Powers
    <3> QED BY <2>3, <3>1, <3>2, PowerZero
  <2>5. Whole(fu) = fu.Q * fu.D + fu.R /\ fu.Q \in Nat
    BY <2>3, <2>4
  <2>6. fu.R \in Nat /\ fu.D \in Regs /\ fu.R \in Regs /\ fu.Q \in Regs /\ fu.R % 2^XLEN = fu.R
    <3>1. fu.R \in 0 .. 2^(XLEN + 1) - 1 /\ fu.D \in Regs /\ fu.Q \in Regs
      BY <1>1 DEF Registers
    <3>2. fu.R \in Nat /\ fu.R \in Regs
      BY <2>1, <3>1, Powers DEF Regs
    <3> QED BY <3>1, <3>2, NegateMod
  <2> DEFINE q == IF fu.qneg THEN Negate(fu.Q) ELSE fu.Q
             r == IF fu.rneg THEN Negate(fu.R) ELSE fu.R
             x == IF fu.word THEN SignWord(q) ELSE q
             y == IF fu.word THEN SignWord(r) ELSE r
  <2>7. q \in Regs /\ r \in Regs
    BY <2>6, NegateReg
  <2>8. x \in Regs /\ y \in Regs
    <3>1. q \in Int /\ r \in Int
      BY <2>7, Powers DEF Regs
    <3> HIDE DEF q, r
    <3> QED BY <2>7, <3>1, SignWordReg
  <2>9. g = Given(fu, x, y)
    <3>1. fu.rneg \in BOOLEAN /\ fu.qneg \in BOOLEAN
      BY <1>1 DEF Registers
    <3>2. CASE fu.word
      BY <1>5, <2>6, <3>2 DEF Finish, Given
    <3>3. CASE ~fu.word
      BY <1>5, <2>6, <3>3 DEF Finish, Given
    <3> QED BY <3>2, <3>3
  <2>10. ASSUME NEW e, Asked(e), SetFor(fu, e) PROVE Selected(e.op, x, y) = Returned(e)
    <3>1. e.op \in Ops /\ e.word \in BOOLEAN /\ e.a \in Regs /\ e.b \in Regs
      BY <2>10 DEF Asked
    <3>2. (IF fu.rneg THEN Negate(fu.dividend) ELSE fu.dividend) = fu.Q * fu.D + fu.R
      BY <2>5 DEF Whole
    <3>3. q = (IF fu.qneg THEN Negate(fu.Q) ELSE fu.Q) /\ r = (IF fu.rneg THEN Negate(fu.R) ELSE fu.R)
      OBVIOUS
    <3>4. (IF fu.word THEN Selected(e.op, SignWord(q), SignWord(r)) ELSE Selected(e.op, q, r)) = Returned(e)
      <4> HIDE DEF q, r
      <4> QED BY <1>5, <2>1, <2>5, <2>6, <2>10, <3>1, <3>2, <3>3, DivideRight
    <3> HIDE DEF q, r
    <3>5. Selected(e.op, x, y) = IF fu.word THEN Selected(e.op, SignWord(q), SignWord(r)) ELSE Selected(e.op, q, r)
      OBVIOUS
    <3> QED BY <3>4, <3>5
  <2> HIDE DEF x, y
  <2> QED BY <2>8, <2>9, <2>10
<1> QED BY <1>1, <1>3, <1>4, <1>5

----------------------------------------------------------------------------

\* A word moved to the top of its register, in front of as many zeros.
LEMMA JustifiedIs ==
  ASSUME NEW word \in BOOLEAN, NEW A \in Nat, A < 2^Width(word)
  PROVE  Justified(word, A) = A * 2^(XLEN - Width(word)) /\ Justified(word, A) \in Regs
<1> DEFINE H == 2^HALF
           M == 2^XLEN
<1>1. CASE word
  <2>1. A < H /\ H \in Nat \ {0} /\ M = H * H /\ Justified(word, A) = (A % H) * H
        /\ 2^(XLEN - Width(word)) = H
    <3>1. XLEN - HALF = HALF
      BY Powers
    <3> QED BY <1>1, <3>1, Powers DEF Justified, Width
  <2> HIDE DEF H, M
  <2>2. A % H = A /\ A \in 0 .. H - 1
    BY <2>1
  <2>3. A * H \in Nat /\ A * H <= (H - 1) * H /\ (H - 1) * H = M - H
    BY <2>1, <2>2
  <2>4. A * H < M
    BY <2>1, <2>3
  <2> QED BY <2>1, <2>2, <2>3, <2>4 DEF Regs, M
<1>2. CASE ~word
  <2>1. Justified(word, A) = A /\ A < M /\ M \in Nat
    BY <1>2, Powers DEF Justified, Width
  <2>2. 2^(XLEN - Width(word)) = 1
    <3>1. XLEN - XLEN = 0
      BY Powers
    <3> QED BY <1>2, <3>1, PowerZero DEF Width
  <2> QED BY <2>1, <2>2 DEF Regs
<1> QED BY <1>1, <1>2

\* The registers the set-up writes, with and without an iteration to follow.
Skipped(f, w, qn, rn, z, o, a) ==
    [[f EXCEPT !.done = FALSE, !.word = w, !.qneg = qn, !.rneg = rn, !.zero = z, !.over = o,
               !.dividend = a] EXCEPT !.fsm = "FINISH"]
Begun(f, w, qn, rn, z, o, a, B, A, n) ==
    [[f EXCEPT !.done = FALSE, !.word = w, !.qneg = qn, !.rneg = rn, !.zero = z, !.over = o,
               !.dividend = a] EXCEPT !.fsm = "RUN", !.R = 0, !.D = B, !.count = 0, !.Q = A,
                                      !.target = n]
SetUp(g, w, qn, rn, z, o, a) ==
    /\ g \in Registers /\ g.done = FALSE /\ g.word = w /\ g.qneg = qn /\ g.rneg = rn
    /\ g.zero = z /\ g.over = o /\ g.dividend = a
Loaded(g, B, A, n) == g.fsm = "RUN" /\ g.R = 0 /\ g.D = B /\ g.count = 0 /\ g.Q = A /\ g.target = n
Flags(f, w, qn, rn, z, o, a) ==
    /\ f \in Registers /\ w \in BOOLEAN /\ qn \in BOOLEAN /\ rn \in BOOLEAN /\ z \in BOOLEAN
    /\ o \in BOOLEAN /\ a \in Regs

\* The flags keep their types.
LEMMA FlagsTyped ==
  ASSUME NEW f, NEW w, NEW qn, NEW rn, NEW z, NEW o, NEW a, Flags(f, w, qn, rn, z, o, a)
  PROVE  [f EXCEPT !.done = FALSE, !.word = w, !.qneg = qn, !.rneg = rn, !.zero = z,
                   !.over = o, !.dividend = a] \in Registers
<1> DEFINE h == [f EXCEPT !.done = FALSE, !.word = w, !.qneg = qn]
           i == [h EXCEPT !.rneg = rn, !.zero = z]
           j == [i EXCEPT !.over = o, !.dividend = a]
<1>1. h \in Registers
  BY DEF Registers, Flags
<1>2. i \in Registers
  <2> HIDE DEF h
  <2> QED BY <1>1 DEF Registers, Flags
<1>3. j \in Registers
  <2> HIDE DEF i
  <2> QED BY <1>2 DEF Registers, Flags
<1> QED BY <1>3

\* What the set-up without an iteration leaves in the registers.
LEMMA SkippedTyped ==
  ASSUME NEW f, NEW w, NEW qn, NEW rn, NEW z, NEW o, NEW a, Flags(f, w, qn, rn, z, o, a),
         NEW g, g = Skipped(f, w, qn, rn, z, o, a)
  PROVE  SetUp(g, w, qn, rn, z, o, a) /\ g.fsm = "FINISH"
<1> DEFINE h == [f EXCEPT !.done = FALSE, !.word = w, !.qneg = qn, !.rneg = rn, !.zero = z,
                         !.over = o, !.dividend = a]
<1>1. g \in Registers
  <2>1. h \in Registers
    BY FlagsTyped
  <2>2. g = [h EXCEPT !.fsm = "FINISH"]
    BY DEF Skipped
  <2> HIDE DEF h
  <2> QED BY <2>1, <2>2 DEF Registers
<1>2. g.done = FALSE /\ g.word = w /\ g.qneg = qn /\ g.rneg = rn
  BY DEF Registers, Flags, Skipped
<1>3. g.zero = z /\ g.over = o /\ g.dividend = a /\ g.fsm = "FINISH"
  BY DEF Registers, Flags, Skipped
<1> QED BY <1>1, <1>2, <1>3 DEF SetUp

\* What the set-up before an iteration leaves in the registers.
LEMMA BegunTyped ==
  ASSUME NEW f, NEW w, NEW qn, NEW rn, NEW z, NEW o, NEW a, Flags(f, w, qn, rn, z, o, a),
         NEW B, NEW A, NEW n, B \in Regs, A \in Regs, n \in {0, HALF, XLEN},
         NEW g, g = Begun(f, w, qn, rn, z, o, a, B, A, n)
  PROVE  SetUp(g, w, qn, rn, z, o, a) /\ Loaded(g, B, A, n)
<1>1. 0 \in 0 .. 2^(XLEN + 1) - 1 /\ 0 \in 0 .. XLEN
  BY Powers
<1> DEFINE h == [f EXCEPT !.done = FALSE, !.word = w, !.qneg = qn, !.rneg = rn, !.zero = z,
                         !.over = o, !.dividend = a]
<1>2. g \in Registers
  <2>1. h \in Registers
    BY FlagsTyped
  <2>2. g = [h EXCEPT !.fsm = "RUN", !.R = 0, !.D = B, !.count = 0, !.Q = A, !.target = n]
    BY DEF Begun
  <2> HIDE DEF h
  <2> DEFINE i == [h EXCEPT !.fsm = "RUN", !.R = 0, !.D = B]
  <2>3. i \in Registers
    BY <1>1, <2>1 DEF Registers
  <2>4. g = [i EXCEPT !.count = 0, !.Q = A, !.target = n]
    BY <2>2
  <2> HIDE DEF i
  <2> QED BY <1>1, <2>3, <2>4 DEF Registers
<1>3. g.done = FALSE /\ g.word = w /\ g.qneg = qn /\ g.rneg = rn
  BY DEF Registers, Flags, Begun
<1>4. g.zero = z /\ g.over = o /\ g.dividend = a
  BY DEF Registers, Flags, Begun
<1>5. Loaded(g, B, A, n)
  BY DEF Registers, Flags, Begun, Loaded
<1> QED BY <1>2, <1>3, <1>4, <1>5 DEF SetUp

\* Set-up leaves either nothing to be done but to answer, or the long division
\* of the absolute values with nothing divided yet.
LEMMA AcceptStarts ==
  ASSUME fu \in Registers, NEW e, Asked(e), NEW g, g = Accept(e.op, e.word, e.a, e.b)
  PROVE  Steps(g) /\ g.fsm # "IDLE" /\ g.done = FALSE /\ SetFor(g, e)
<1> DEFINE a == Effective(e.op, e.word, e.a)
           b == Effective(e.op, e.word, e.b)
           m == Meaning(e.op, e.word, e.a)
           n == Meaning(e.op, e.word, e.b)
           aneg == Signed(e.op) /\ Negative(a)
           bneg == Signed(e.op) /\ Negative(b)
           qneg == aneg # bneg
           A == IF aneg THEN Negate(a) ELSE a
           B == IF bneg THEN Negate(b) ELSE b
           zero == b = 0
           over == Signed(e.op) /\ a = Least(e.word) /\ b = Ones
           w == Width(e.word)
<1>1. e.op \in Ops /\ e.word \in BOOLEAN /\ e.a \in Regs /\ e.b \in Regs
  BY DEF Asked
<1>2. a \in Regs /\ b \in Regs /\ A = Abs(m) /\ B = Abs(n) /\ m \in Int /\ n \in Int
      /\ Abs(m) < 2^w /\ b = (IF n < 0 THEN n + 2^XLEN ELSE n)
  <2>1. a \in Regs /\ A = Abs(m) /\ m \in Int /\ Abs(m) < 2^w
    BY <1>1, EffectiveMeans
  <2>2. b \in Regs /\ B = Abs(n) /\ n \in Int /\ b = (IF n < 0 THEN n + 2^XLEN ELSE n)
    BY <1>1, EffectiveMeans
  <2> QED BY <2>1, <2>2
<1>3. aneg \in BOOLEAN /\ qneg \in BOOLEAN /\ zero \in BOOLEAN /\ over \in BOOLEAN
  BY DEF Signed
<1>4. Flags(fu, e.word, qneg, aneg, zero, over, a)
  BY <1>1, <1>2, <1>3 DEF Flags
<1>5. ASSUME SetUp(g, e.word, qneg, aneg, zero, over, a), zero \/ over \/ g.D = B PROVE SetFor(g, e)
  BY <1>5 DEF SetUp, SetFor
<1>6. CASE zero \/ over
  <2>1. g = Skipped(fu, e.word, qneg, aneg, zero, over, a)
    BY <1>6 DEF Accept, Skipped
  <2>2. SetUp(g, e.word, qneg, aneg, zero, over, a) /\ g.fsm = "FINISH"
    <3> HIDE DEF qneg, aneg, zero, over, a
    <3> QED BY <1>4, <2>1, SkippedTyped
  <2>3. g \in Registers /\ g.done = FALSE /\ (g.zero \/ g.over)
    BY <1>6, <2>2 DEF SetUp
  <2>4. Steps(g)
    BY <2>2, <2>3 DEF Steps, Dividing
  <2> QED BY <1>5, <1>6, <2>2, <2>3, <2>4
<1>7. CASE ~zero /\ ~over
  <2>1. g = Begun(fu, e.word, qneg, aneg, zero, over, a, B, Justified(e.word, A), w)
    BY <1>7 DEF Accept, Begun, Width
  <2>2. Justified(e.word, A) = A * 2^(XLEN - w) /\ Justified(e.word, A) \in Regs /\ A \in Nat /\ A < 2^w
    <3>1. A \in Nat /\ A < 2^w
      <4> HIDE DEF A, m
      <4> QED BY <1>2 DEF Abs
    <3> HIDE DEF A
    <3> QED BY <1>1, <3>1, JustifiedIs
  <2>3. B \in Regs /\ B \in Nat \ {0}
    <3>1. B \in Regs
      BY <1>2, NegateReg
    <3>2. n # 0
      BY <1>2, <1>7
    <3> HIDE DEF B, n
    <3> QED BY <1>2, <3>1, <3>2 DEF Abs
  <2>4. w \in {0, HALF, XLEN} /\ w \in Nat \ {0}
    BY Powers DEF Width
  <2>5. SetUp(g, e.word, qneg, aneg, zero, over, a) /\ Loaded(g, B, Justified(e.word, A), w)
    <3> HIDE DEF qneg, aneg, zero, over, a, B, A, w
    <3> QED BY <1>4, <2>1, <2>2, <2>3, <2>4, BegunTyped
  <2>6. /\ g \in Registers /\ g.done = FALSE /\ ~g.zero /\ ~g.over /\ g.word = e.word
        /\ g.rneg = aneg /\ g.dividend = a
        /\ g.fsm = "RUN" /\ g.R = 0 /\ g.D = B /\ g.count = 0 /\ g.target = w
        /\ g.Q = A * 2^(XLEN - w)
    BY <1>7, <2>2, <2>5 DEF SetUp, Loaded
  <2>7. Halfway(g)
    <3>1. Whole(g) = A
      BY <2>6 DEF Whole
    <3>2. 2^(g.target - g.count) = 2^w /\ 2^(XLEN - g.target + g.count) = 2^(XLEN - w) /\ 2^g.count = 1
      <4>1. g.target - g.count = w /\ XLEN - g.target + g.count = XLEN - w
        BY <2>4, <2>6, Powers
      <4> QED BY <2>6, <4>1, PowerZero
    <3> HIDE DEF A, B, w, aneg, a, n, m
    <3>3. 2^w \in Nat /\ 2^(XLEN - w) \in Nat
      <4>1. XLEN - w \in Nat
        BY Powers DEF Width, w
      <4> QED BY <2>4, <4>1, PowerNat
    <3>4. /\ Whole(g) = 0 * 2^(g.target - g.count) + A /\ A < 2^(g.target - g.count)
          /\ g.Q = A * 2^(XLEN - g.target + g.count) + 0 /\ 0 < 2^g.count
          /\ 0 = 0 * g.D + g.R /\ g.R < g.D
      BY <2>2, <2>3, <2>6, <3>1, <3>2, <3>3
    <3> QED BY <2>2, <3>4 DEF Halfway
  <2>8. Steps(g)
    BY <2>4, <2>6, <2>7 DEF Steps, Dividing
  <2> QED BY <1>5, <2>5, <2>6, <2>8
<1> QED BY <1>3, <1>6, <1>7

(***************************************************************************)
(* Part 4: the divisions.  What the slot holds, what the divider works on  *)
(* for it, and what the windows are given.                                 *)
(***************************************************************************)

\* The slot of the station: the types of its registers.
Slots ==
    [busy : BOOLEAN, tid : {0, 1}, op : Ops, word : BOOLEAN, ready : [1 .. 2 -> BOOLEAN],
     val : [1 .. 2 -> Regs], tag : [1 .. 2 -> Tags], dest : Tags, started : BOOLEAN,
     have : BOOLEAN, q : Regs, r : Regs]
Entries ==
    [kind : {"div", "other"}, op : Ops, word : BOOLEAN, a : Regs, b : Regs, late : BOOLEAN,
     value : Regs, done : BOOLEAN]

Types == rs \in Slots /\ rob \in [Threads -> [Tags -> Entries]] /\ program \in Programs

\* An operand that is not there yet comes from an older instruction of the
\* thread that is still in flight: were it squashed, so would the division be.
Operand(e, i) == IF i = 1 THEN e.a ELSE e.b
Awaited(t, g, v, d) ==
    /\ InFlight(t, g) /\ rob[t][g].kind = "other" /\ ~rob[t][g].done /\ rob[t][g].value = v
    /\ Age(t, g) < Age(t, d)
OperandsRight(t, d) ==
    \A i \in 1 .. 2 : IF rs.ready[i] THEN rs.val[i] = Operand(rob[t][d], i)
                      ELSE Awaited(t, rs.tag[i], Operand(rob[t][d], i), d)

\* Where the division of the slot is: not begun, in the divider, answered, held.
Served(e) ==
    /\ ~rs.started => ~rs.have /\ fu.fsm = "IDLE" /\ ~fu.done
    /\ rs.started /\ ~rs.have => \/ fu.fsm # "IDLE" /\ SetFor(fu, e)
                                 \/ fu.done /\ Selected(e.op, fu.quotient, fu.remainder) = Returned(e)
    /\ rs.have => rs.started /\ fu.fsm = "IDLE" /\ ~fu.done /\ ReqValue = Returned(e)

SlotRight ==
    rs.busy => /\ OperandsRight(rs.tid, rs.dest)
               /\ ~rob[rs.tid][rs.dest].late => Served(rob[rs.tid][rs.dest])

DivisionsReturned ==
    \A t \in Threads, g \in Tags :
        Finished(t, g) /\ ~rob[t][g].late => rob[t][g].value = Returned(rob[t][g])

DInv == IInv /\ Steps(fu) /\ Types /\ SlotRight /\ DivisionsReturned

\* What the divider does at an edge.
LEMMA DividerStep ==
  ASSUME Steps(fu), rs \in Slots, FuNext
  PROVE  /\ Steps(fu')
         /\ fu.fsm = "IDLE" /\ ~Start => fu'.fsm = "IDLE" /\ ~fu'.done
         /\ fu.fsm = "IDLE" /\ Start =>
              /\ fu'.fsm # "IDLE"
              /\ \A e : Asked(e) /\ e.op = rs.op /\ e.word = rs.word /\ e.a = rs.val[1] /\ e.b = rs.val[2]
                          => SetFor(fu', e)
         /\ fu.fsm = "RUN" => fu'.fsm # "IDLE" /\ \A e : SetFor(fu, e) => SetFor(fu', e)
         /\ fu.fsm = "FINISH" =>
              /\ fu'.fsm = "IDLE" /\ fu'.done
              /\ \A e : Asked(e) /\ SetFor(fu, e) => Selected(e.op, fu'.quotient, fu'.remainder) = Returned(e)
<1>1. fu \in Registers /\ fu.fsm \in {"IDLE", "RUN", "FINISH"}
  BY DEF Steps, Registers
<1>2. CASE fu.fsm = "IDLE" /\ ~Start
  <2>1. fu' = [fu EXCEPT !.done = FALSE]
    BY <1>2 DEF FuNext
  <2>2. fu' \in Registers /\ fu'.fsm = "IDLE" /\ fu'.done = FALSE
    BY <1>1, <1>2, <2>1 DEF Registers
  <2>3. Steps(fu')
    BY <2>2 DEF Steps, Dividing
  <2> QED BY <1>2, <2>2, <2>3
<1>3. CASE fu.fsm = "IDLE" /\ Start
  <2> DEFINE o == [op |-> rs.op, word |-> rs.word, a |-> rs.val[1], b |-> rs.val[2]]
  <2>1. fu' = Accept(o.op, o.word, o.a, o.b)
    BY <1>3 DEF FuNext
  <2>2. Asked(o)
    BY DEF Asked, Slots
  <2>3. Steps(fu') /\ fu'.fsm # "IDLE" /\ fu'.done = FALSE /\ SetFor(fu', o)
    <3> HIDE DEF o
    <3> QED BY <1>1, <2>1, <2>2, AcceptStarts
  <2>4. ASSUME NEW e, Asked(e), e.op = rs.op, e.word = rs.word, e.a = rs.val[1], e.b = rs.val[2]
        PROVE  SetFor(fu', e)
    BY <2>3, <2>4 DEF SetFor
  <2> QED BY <1>3, <2>3, <2>4
<1>4. CASE fu.fsm = "RUN"
  <2>1. fu' = Iterate
    BY <1>4 DEF FuNext
  <2>2. Steps(fu') /\ fu'.fsm # "IDLE" /\ Keeps(fu', fu)
    BY <1>4, <2>1, IterateKeeps
  <2>3. ASSUME NEW e, SetFor(fu, e) PROVE SetFor(fu', e)
    BY <2>2, <2>3 DEF Keeps, SetFor
  <2> QED BY <1>4, <2>2, <2>3
<1>5. CASE fu.fsm = "FINISH"
  <2>1. fu' = Finish
    BY <1>5 DEF FuNext
  <2>2. /\ Steps(fu') /\ fu'.fsm = "IDLE" /\ fu'.done = TRUE
        /\ \A e : Asked(e) /\ SetFor(fu, e) => Selected(e.op, fu'.quotient, fu'.remainder) = Returned(e)
    BY <1>5, <2>1, FinishGives
  <2> QED BY <1>5, <2>2
<1> QED BY <1>1, <1>2, <1>3, <1>4, <1>5

\* What an entry is after an edge, unless it is dispatched at it.
Carried(t, g, F, grant) ==
    /\ rob'[t][g].kind = rob[t][g].kind /\ rob'[t][g].op = rob[t][g].op
    /\ rob'[t][g].word = rob[t][g].word /\ rob'[t][g].late = rob[t][g].late
    /\ rob'[t][g].a = rob[t][g].a /\ rob'[t][g].b = rob[t][g].b
    /\ rob'[t][g].done <=> rob[t][g].done \/ Answered(t, g, F, grant)
    /\ rob'[t][g].value = IF <<t, g>> \notin F /\ ReqValid /\ grant /\ rs.tid = t /\ rs.dest = g
                          THEN ReqValue ELSE rob[t][g].value

\* Entries keep their operands, and change their result only with an answer.
LEMMA DataAfter ==
  ASSUME NEW F, NEW grant, NEW missed, NEW fresh, Shape, Choices(F, missed, fresh),
         WindowNext(F, grant, missed, fresh), NEW t \in Threads, NEW g \in Tags,
         ~Dispatched(t, g, fresh)
  PROVE  Carried(t, g, F, grant)
<1>1. DOMAIN rob[t][g] = EntryFields /\ rob[t][g].done \in BOOLEAN
  BY DEF Shape
<1>2. CASE <<t, g>> \in F
  <2>1. rob'[t][g] = [rob[t][g] EXCEPT !.done = TRUE]
    BY <1>2 DEF WindowNext, Completed, Dispatched
  <2> QED BY <1>1, <1>2, <2>1 DEF EntryFields, Answered, Carried
<1>3. CASE <<t, g>> \notin F /\ ReqValid /\ grant /\ rs.tid = t /\ rs.dest = g
  <2>1. rob'[t][g] = [rob[t][g] EXCEPT !.done = TRUE, !.value = ReqValue]
    BY <1>3 DEF WindowNext, Completed, Dispatched
  <2> QED BY <1>1, <1>3, <2>1 DEF EntryFields, Answered, Carried
<1>4. CASE <<t, g>> \notin F /\ ~(ReqValid /\ grant /\ rs.tid = t /\ rs.dest = g)
  <2>1. rob'[t][g] = rob[t][g]
    BY <1>4 DEF WindowNext, Completed, Dispatched
  <2> QED BY <1>1, <1>4, <2>1 DEF Answered, Carried
<1> QED BY <1>2, <1>3, <1>4

\* What the program means by an entry depends on what the entry keeps.
LEMMA ReturnedSame ==
  ASSUME NEW e, NEW f, e.op = f.op, e.word = f.word, e.a = f.a, e.b = f.b
  PROVE  Returned(e) = Returned(f)
BY DEF Returned, Disputed, Reference

\* The slot after an edge, from the slot as allocation or snooping leaves it.
LEMMA SlotAfter ==
  ASSUME NEW slot, slot \in Slots, NEW grant, NEW missed, SlotNext(slot, grant, missed), fu \in Registers
  PROVE  /\ rs' \in Slots
         /\ rs'.ready = slot.ready /\ rs'.val = slot.val /\ rs'.tag = slot.tag
         /\ rs'.op = slot.op /\ rs'.tid = slot.tid /\ rs'.dest = slot.dest /\ rs'.word = slot.word
         /\ rs'.started <=> slot.started \/ Start
         /\ rs'.have <=> slot.have \/ fu.done
         /\ rs'.q = (IF fu.done THEN fu.quotient ELSE slot.q)
         /\ rs'.r = (IF fu.done THEN fu.remainder ELSE slot.r)
<1> DEFINE st == slot.started \/ Start
           hv == slot.have \/ fu.done
           qq == IF fu.done THEN fu.quotient ELSE slot.q
           rr == IF fu.done THEN fu.remainder ELSE slot.r
           bs == /\ slot.busy
                 /\ ~(ReqValid /\ grant)
                 /\ ~(rs.busy /\ missed[rs.tid] >= 0
                              /\ Younger(rs.tid, rs.dest, missed[rs.tid]))
<1>1. fu.done \in BOOLEAN /\ fu.quotient \in Regs /\ fu.remainder \in Regs
  BY DEF Registers
<1>2. slot.started \in BOOLEAN /\ slot.have \in BOOLEAN /\ slot.q \in Regs /\ slot.r \in Regs
      /\ slot.busy \in BOOLEAN
  BY DEF Slots
<1>3. st \in BOOLEAN /\ hv \in BOOLEAN /\ qq \in Regs /\ rr \in Regs /\ bs \in BOOLEAN
  <2>1. st \in BOOLEAN /\ hv \in BOOLEAN /\ bs \in BOOLEAN
    OBVIOUS
  <2>2. qq \in Regs /\ rr \in Regs
    BY <1>1, <1>2
  <2> QED BY <2>1, <2>2
<1>4. rs' = [slot EXCEPT !.started = st, !.have = hv, !.q = qq, !.r = rr, !.busy = bs]
  BY DEF SlotNext
<1> HIDE DEF st, hv, qq, rr, bs
<1>5. rs' \in Slots
  BY <1>3, <1>4 DEF Slots
<1>6. /\ rs'.ready = slot.ready /\ rs'.val = slot.val /\ rs'.tag = slot.tag
      /\ rs'.op = slot.op /\ rs'.tid = slot.tid /\ rs'.dest = slot.dest /\ rs'.word = slot.word
  BY <1>4 DEF Slots
<1>7. rs'.started = st /\ rs'.have = hv
  BY <1>4 DEF Slots
<1>8. rs'.q = qq /\ rs'.r = rr
  BY <1>4 DEF Slots
<1> QED BY <1>5, <1>6, <1>7, <1>8 DEF st, hv, qq, rr

\* The slot as snooping leaves it.
LEMMA SnoopedSlot ==
  ASSUME NEW cdb, rs \in Slots, \A c \in cdb : c.value \in Regs
  PROVE  /\ Snooped(cdb) \in Slots
         /\ Snooped(cdb).tag = rs.tag /\ Snooped(cdb).started = rs.started /\ Snooped(cdb).have = rs.have
         /\ Snooped(cdb).q = rs.q /\ Snooped(cdb).r = rs.r /\ Snooped(cdb).op = rs.op
         /\ Snooped(cdb).tid = rs.tid /\ Snooped(cdb).dest = rs.dest /\ Snooped(cdb).word = rs.word
         /\ \A i \in 1 .. 2 :
              /\ Snooped(cdb).ready[i] <=> rs.ready[i] \/ Heard(cdb, i) # {}
              /\ IF Heard(cdb, i) = {} THEN Snooped(cdb).val[i] = rs.val[i]
                 ELSE \E c \in Heard(cdb, i) : Snooped(cdb).val[i] = c.value
<1> DEFINE rd == [i \in 1 .. 2 |-> rs.ready[i] \/ Heard(cdb, i) # {}]
           vl == [i \in 1 .. 2 |-> IF Heard(cdb, i) = {} THEN rs.val[i]
                                   ELSE (CHOOSE c \in Heard(cdb, i) : TRUE).value]
<1>1. rs.ready \in [1 .. 2 -> BOOLEAN] /\ rs.val \in [1 .. 2 -> Regs]
  BY DEF Slots
<1>2. ASSUME NEW i \in 1 .. 2, Heard(cdb, i) # {}
      PROVE  \E c \in Heard(cdb, i) : c.value = vl[i] /\ c.value \in Regs
  <2>1. (CHOOSE c \in Heard(cdb, i) : TRUE) \in Heard(cdb, i)
    BY <1>2
  <2>2. (CHOOSE c \in Heard(cdb, i) : TRUE) \in cdb
    BY <2>1 DEF Heard
  <2> QED BY <1>2, <2>1, <2>2
<1>3. rd \in [1 .. 2 -> BOOLEAN]
  BY <1>1
<1>4. vl \in [1 .. 2 -> Regs]
  <2>1. ASSUME NEW i \in 1 .. 2 PROVE vl[i] \in Regs
    <3>1. CASE Heard(cdb, i) = {}
      BY <1>1, <3>1
    <3>2. CASE Heard(cdb, i) # {}
      <4> HIDE DEF vl
      <4> QED BY <1>2, <3>2
    <3> QED BY <3>1, <3>2
  <2>2. vl = [i \in 1 .. 2 |-> vl[i]]
    OBVIOUS
  <2> HIDE DEF vl
  <2> QED BY <2>1, <2>2
<1>5. \A i \in 1 .. 2 : /\ rd[i] <=> rs.ready[i] \/ Heard(cdb, i) # {}
                        /\ Heard(cdb, i) = {} => vl[i] = rs.val[i]
  OBVIOUS
<1>6. Snooped(cdb) = [rs EXCEPT !.ready = rd, !.val = vl]
  BY DEF Snooped
<1> HIDE DEF rd, vl
<1>7. Snooped(cdb) \in Slots
  BY <1>3, <1>4, <1>6 DEF Slots
<1>8. Snooped(cdb).ready = rd /\ Snooped(cdb).val = vl
  BY <1>6 DEF Slots
<1>9. /\ Snooped(cdb).tag = rs.tag /\ Snooped(cdb).started = rs.started /\ Snooped(cdb).have = rs.have
      /\ Snooped(cdb).q = rs.q /\ Snooped(cdb).r = rs.r /\ Snooped(cdb).op = rs.op
      /\ Snooped(cdb).tid = rs.tid /\ Snooped(cdb).dest = rs.dest /\ Snooped(cdb).word = rs.word
  BY <1>6 DEF Slots
<1>10. ASSUME NEW i \in 1 .. 2
       PROVE  /\ Snooped(cdb).ready[i] <=> rs.ready[i] \/ Heard(cdb, i) # {}
              /\ IF Heard(cdb, i) = {} THEN Snooped(cdb).val[i] = rs.val[i]
                 ELSE \E c \in Heard(cdb, i) : Snooped(cdb).val[i] = c.value
  BY <1>2, <1>5, <1>8
<1> QED BY <1>7, <1>9, <1>10

\* What an operand is, when an instruction is dispatched.
SourceRight(t, v, F, x) ==
    /\ x.ready \in BOOLEAN /\ x.val \in Regs /\ x.tag \in Tags
    /\ x.ready => x.val = v
    /\ ~x.ready => /\ InFlight(t, x.tag) /\ rob[t][x.tag].kind = "other" /\ ~rob[t][x.tag].done
                   /\ rob[t][x.tag].value = v /\ <<t, x.tag>> \notin F

\* Whatever source an operand is taken from, it is that operand.
LEMMA SourcesRight ==
  ASSUME NEW t \in Threads, NEW v \in Regs, NEW F, NEW x, x \in Sources(t, v, F),
         \A g \in Tags : rob[t][g].done \in BOOLEAN
  PROVE  SourceRight(t, v, F, x)
<1>1. 0 \in Tags /\ 0 \in Regs
  BY DivideAssumption, Powers DEF Tags, Regs
<1>2. CASE x = [ready |-> TRUE, val |-> v, tag |-> 0]
  BY <1>1, <1>2 DEF SourceRight
<1>3. ASSUME NEW g \in Tags, InFlight(t, g), rob[t][g].kind = "other", rob[t][g].value = v,
             x = [ready |-> Ready(t, g, F), val |-> IF Ready(t, g, F) THEN v ELSE 0, tag |-> g]
      PROVE  SourceRight(t, v, F, x)
  <2>1. x.ready = Ready(t, g, F) /\ x.val = (IF Ready(t, g, F) THEN v ELSE 0) /\ x.tag = g
    BY <1>3
  <2>2. Ready(t, g, F) \in BOOLEAN /\ (Ready(t, g, F) <=> rob[t][g].done \/ <<t, g>> \in F)
    BY DEF Ready
  <2> QED BY <1>1, <1>3, <2>1, <2>2 DEF SourceRight
<1> QED BY <1>2, <1>3 DEF Sources

\* The slot as allocation leaves it, with operands x and y.
Taken(slot, x, y) ==
    /\ slot \in Slots
    /\ slot.started = FALSE /\ slot.have = FALSE
    /\ slot.ready[1] = x.ready /\ slot.ready[2] = y.ready
    /\ slot.val[1] = x.val /\ slot.val[2] = y.val /\ slot.tag[1] = x.tag /\ slot.tag[2] = y.tag

\* Allocation takes the operands as the sources give them.
LEMMA AllocatedSlot ==
  ASSUME NEW t \in Threads, NEW op \in Ops, NEW word \in BOOLEAN, NEW x, NEW y, NEW v \in Regs, NEW u \in Regs,
         NEW F, SourceRight(t, v, F, x), SourceRight(t, u, F, y), rs \in Slots, Free(t) \in Tags
  PROVE  Taken(Allocated(t, op, word, <<x, y>>), x, y)
<1> DEFINE slot == Allocated(t, op, word, <<x, y>>)
<1> DEFINE src == <<x, y>>
           rd == [i \in 1 .. 2 |-> src[i].ready]
           vl == [i \in 1 .. 2 |-> src[i].val]
           tg == [i \in 1 .. 2 |-> src[i].tag]
<1>1. /\ x.ready \in BOOLEAN /\ x.val \in Regs /\ x.tag \in Tags
      /\ y.ready \in BOOLEAN /\ y.val \in Regs /\ y.tag \in Tags
  BY DEF SourceRight
<1>2. src[1] = x /\ src[2] = y /\ \A i \in 1 .. 2 : i = 1 \/ i = 2
  OBVIOUS
<1>3. /\ rd[1] = x.ready /\ rd[2] = y.ready /\ vl[1] = x.val /\ vl[2] = y.val
      /\ tg[1] = x.tag /\ tg[2] = y.tag
  BY <1>2
<1>4. rd \in [1 .. 2 -> BOOLEAN] /\ vl \in [1 .. 2 -> Regs] /\ tg \in [1 .. 2 -> Tags]
  <2> HIDE DEF src
  <2>1. \A i \in 1 .. 2 : src[i].ready \in BOOLEAN /\ src[i].val \in Regs /\ src[i].tag \in Tags
    BY <1>1, <1>2
  <2> QED BY <2>1
<1>5. slot = [rs EXCEPT !.busy = TRUE, !.tid = t, !.op = op, !.word = word, !.dest = Free(t),
               !.ready = rd, !.val = vl, !.tag = tg, !.started = FALSE, !.have = FALSE]
  BY DEF Allocated
<1> HIDE DEF rd, vl, tg, slot
<1>6. t \in {0, 1}
  BY DivideAssumption
<1>7. slot \in Slots
  BY <1>4, <1>5, <1>6 DEF Slots
<1>8. slot.started = FALSE /\ slot.have = FALSE /\ slot.ready = rd /\ slot.val = vl /\ slot.tag = tg
  BY <1>5 DEF Slots
<1> QED BY <1>3, <1>7, <1>8 DEF Taken, slot

\* An instruction whose result is still awaited, before one of age n, and that
\* is neither squashed nor broadcast at this edge; and what it is afterwards.
Pending(F, missed, t, g, d) ==
    /\ g \in Tags /\ InFlight(t, g) /\ rob[t][g].kind = "other" /\ ~rob[t][g].done
    /\ <<t, g>> \notin F /\ ~Squashed(t, g, missed) /\ Age(t, g) < Age(t, d)
StillPending(t, g, d) ==
    /\ InFlight(t, g)' /\ rob'[t][g].kind = "other" /\ ~rob'[t][g].done
    /\ rob'[t][g].value = rob[t][g].value
    /\ Age(t, g)' < Age(t, d)'

\* Such an instruction stays what and where it is.
LEMMA AwaitedAfter ==
  ASSUME NEW F, NEW grant, NEW missed, NEW fresh, Shape, SlotMatchesWindow, Choices(F, missed, fresh),
         WindowNext(F, grant, missed, fresh), NEW t \in Threads, NEW d \in Tags,
         NEW g, Pending(F, missed, t, g, d)
  PROVE  StillPending(t, g, d)
<1>0. /\ g \in Tags /\ InFlight(t, g) /\ rob[t][g].kind = "other" /\ ~rob[t][g].done
      /\ <<t, g>> \notin F /\ ~Squashed(t, g, missed) /\ Age(t, g) < Age(t, d)
  BY DEF Pending
<1>1. InFlight(t, g)' /\ ~Dispatched(t, g, fresh)
  BY <1>0, WindowAfter
<1>2. ~(ReqValid /\ grant /\ rs.tid = t /\ rs.dest = g)
  <2>1. ReqValid => rs.busy
    BY DEF ReqValid
  <2> QED BY <1>0, <2>1 DEF SlotMatchesWindow
<1>3. rob'[t][g].kind = "other" /\ ~rob'[t][g].done /\ rob'[t][g].value = rob[t][g].value
  <2>1. Carried(t, g, F, grant)
    BY <1>0, <1>1, DataAfter
  <2> QED BY <1>0, <1>2, <2>1 DEF Answered, Carried
<1>4. Age(t, g)' < Age(t, d)'
  <2> DEFINE n == Retired(t)
  <2>1. n \in {0, 1} /\ head'[t] = Plus(head[t], n)
    BY CountAfter
  <2>2. head \in [Threads -> Tags] /\ head[t] \in Tags
    BY DEF Shape
  <2>3. /\ Age(t, g)' = IF Age(t, g) >= n THEN Age(t, g) - n ELSE Depth - 1
        /\ Age(t, d)' = IF Age(t, d) >= n THEN Age(t, d) - n ELSE Depth - 1
    BY <1>0, <2>1, <2>2, AgesAfter
  <2>4. Age(t, g) \in 0 .. Depth - 1 /\ Age(t, d) \in 0 .. Depth - 1
    BY <1>0, <2>2, Ages
  <2>5. n = 1 => Age(t, g) # 0
    <3>1. Age(t, head[t]) = 0
      BY <2>2, DivideAssumption DEF Age, Tags
    <3>2. n = 1 => rob[t][head[t]].done
      BY DEF Retired
    <3> QED BY <1>0, <3>1, <3>2, <2>2, Ages
  <2> HIDE DEF n
  <2> QED BY <1>0, <2>1, <2>3, <2>4, <2>5
<1> QED BY <1>1, <1>3, <1>4 DEF StillPending

\* The entries keep their types.
LEMMA EntriesAfter ==
  ASSUME NEW F, NEW grant, NEW missed, NEW fresh, Types,
         \A t \in Threads : fresh[t] # {} => \E e \in Entries : fresh[t] = {e},
         WindowNext(F, grant, missed, fresh)
  PROVE  rob' \in [Threads -> [Tags -> Entries]]
<1>1. ReqValue \in Regs
  BY DEF ReqValue, Types, Slots
<1>2. ASSUME NEW t \in Threads, NEW g \in Tags
      PROVE  (IF fresh[t] # {} /\ g = Free(t) THEN CHOOSE e \in fresh[t] : TRUE
              ELSE Completed(t, g, F, grant)) \in Entries
  <2>1. CASE fresh[t] # {} /\ g = Free(t)
    BY <2>1
  <2>2. rob[t][g] \in Entries
    BY DEF Types
  <2>3. [rob[t][g] EXCEPT !.done = TRUE] \in Entries
    BY <2>2 DEF Entries
  <2>4. [rob[t][g] EXCEPT !.done = TRUE, !.value = ReqValue] \in Entries
    BY <1>1, <2>2 DEF Entries
  <2>5. Completed(t, g, F, grant) \in Entries
    BY <2>2, <2>3, <2>4 DEF Completed
  <2> QED BY <2>1, <2>5
<1>3. rob' = [t \in Threads |-> [g \in Tags |->
                IF fresh[t] # {} /\ g = Free(t) THEN CHOOSE e \in fresh[t] : TRUE
                ELSE Completed(t, g, F, grant)]]
  BY DEF WindowNext
<1> QED BY <1>2, <1>3

\* A division is finished by the CDB alone, with the result of the slot, which
\* is its own.
LEMMA RightAfter ==
  ASSUME NEW F, NEW grant, NEW missed, NEW fresh, Shape, SlotMatchesWindow, SlotRight, DivisionsReturned,
         Choices(F, missed, fresh), WindowNext(F, grant, missed, fresh),
         \A t \in Threads : \A e \in fresh[t] : ~e.done
  PROVE  DivisionsReturned'
<1>1. ASSUME NEW t \in Threads, NEW g \in Tags,
             InFlight(t, g)', rob'[t][g].kind = "div", rob'[t][g].done, ~rob'[t][g].late
      PROVE  rob'[t][g].value = Returned(rob'[t][g])
  <2>1. ~Dispatched(t, g, fresh)
    BY <1>1, EntryAfter
  <2>2. InFlight(t, g)
    BY <1>1, <2>1, WindowAfter
  <2>3. /\ rob[t][g].kind = "div" /\ ~rob[t][g].late
        /\ rob'[t][g].op = rob[t][g].op /\ rob'[t][g].word = rob[t][g].word
        /\ rob'[t][g].a = rob[t][g].a /\ rob'[t][g].b = rob[t][g].b
        /\ (rob[t][g].done \/ Answered(t, g, F, grant))
        /\ rob'[t][g].value = IF <<t, g>> \notin F /\ ReqValid /\ grant /\ rs.tid = t /\ rs.dest = g
                              THEN ReqValue ELSE rob[t][g].value
    <3>1. Carried(t, g, F, grant)
      BY <2>1, DataAfter
    <3> QED BY <1>1, <3>1 DEF Carried
  <2>4. Returned(rob'[t][g]) = Returned(rob[t][g])
    BY <2>3, ReturnedSame
  <2>5. <<t, g>> \notin F
    BY <2>3 DEF Choices, Finishing, Running
  <2>6. ReqValid => rs.busy /\ rs.have
    BY DEF ReqValid
  <2>7. CASE ReqValid /\ grant /\ rs.tid = t /\ rs.dest = g
    <3>1. ReqValue = Returned(rob[t][g])
      BY <2>3, <2>6, <2>7 DEF SlotRight, Served
    <3> QED BY <2>3, <2>4, <2>5, <2>7, <3>1
  <2>8. CASE ~(ReqValid /\ grant /\ rs.tid = t /\ rs.dest = g)
    <3>1. rob[t][g].done /\ rob'[t][g].value = rob[t][g].value
      BY <2>3, <2>5, <2>8 DEF Answered
    <3>2. rob[t][g].value = Returned(rob[t][g])
      BY <2>2, <2>3, <3>1 DEF DivisionsReturned, Finished
    <3> QED BY <2>4, <3>1, <3>2
  <2> QED BY <2>7, <2>8
<1> QED BY <1>1 DEF DivisionsReturned, Finished, InFlight, Age

\* Awaited after an edge.
AwaitedNext(t, g, v, d) ==
    /\ InFlight(t, g)' /\ rob'[t][g].kind = "other" /\ ~rob'[t][g].done /\ rob'[t][g].value = v
    /\ Age(t, g)' < Age(t, d)'

\* SlotRight after an edge, field by field.
LEMMA SlotRightNext ==
  ASSUME NEW t, NEW d, rs'.busy => rs'.tid = t /\ rs'.dest = d,
         rs'.busy => \A i \in 1 .. 2 :
            /\ rs'.ready[i] => rs'.val[i] = Operand(rob'[t][d], i)
            /\ ~rs'.ready[i] => \E g : g = rs'.tag[i] /\ AwaitedNext(t, g, Operand(rob'[t][d], i), d),
         rs'.busy /\ ~rob'[t][d].late =>
            /\ ~rs'.started => ~rs'.have /\ fu'.fsm = "IDLE" /\ ~fu'.done
            /\ rs'.started /\ ~rs'.have =>
                 \/ fu'.fsm # "IDLE" /\ SetFor(fu', rob'[t][d])
                 \/ fu'.done /\ Selected(rob'[t][d].op, fu'.quotient, fu'.remainder) = Returned(rob'[t][d])
            /\ rs'.have => rs'.started /\ fu'.fsm = "IDLE" /\ ~fu'.done /\ ReqValue' = Returned(rob'[t][d])
  PROVE  SlotRight'
<1> SUFFICES ASSUME rs'.busy
             PROVE  /\ OperandsRight(rs.tid, rs.dest)'
                    /\ (~rob[rs.tid][rs.dest].late => Served(rob[rs.tid][rs.dest]))'
  BY DEF SlotRight
<1>1. rs'.tid = t /\ rs'.dest = d
  OBVIOUS
<1>2. OperandsRight(rs.tid, rs.dest)'
  <2>1. ASSUME NEW i \in 1 .. 2
        PROVE  (IF rs.ready[i] THEN rs.val[i] = Operand(rob[rs.tid][rs.dest], i)
                ELSE Awaited(rs.tid, rs.tag[i], Operand(rob[rs.tid][rs.dest], i), rs.dest))'
    BY <1>1 DEF Awaited, AwaitedNext, InFlight, Age
  <2> QED BY <2>1 DEF OperandsRight
<1>3. ASSUME ~rob'[t][d].late PROVE Served(rob[rs.tid][rs.dest])'
  BY <1>1, <1>3 DEF Served
<1> QED BY <1>1, <1>2, <1>3

\* A division in the program is one that can be asked for.
LEMMA AskedEntry == ASSUME NEW e \in Entries PROVE Asked(e)
BY DEF Entries, Asked

\* The entry the slot works for.
SlotOf(t, d) == rs.tid = t /\ rs.dest = d

\* The operands of the division in the slot, when nothing is allocated.
LEMMA OperandsKept ==
  ASSUME DInv, NEW F, NEW grant, NEW missed, NEW fresh, Choices(F, missed, fresh),
         SlotNext(Snooped(Broadcasts(F)), grant, missed), WindowNext(F, grant, missed, fresh),
         rs'.busy, NEW t \in Threads, NEW d \in Tags, SlotOf(t, d), NEW i \in 1 .. 2
  PROVE  /\ rs'.ready[i] => rs'.val[i] = Operand(rob'[t][d], i)
         /\ ~rs'.ready[i] => \E g : g = rs'.tag[i] /\ AwaitedNext(t, g, Operand(rob'[t][d], i), d)
<1> DEFINE cdb == Broadcasts(F)
           v == Operand(rob[t][d], i)
<1>1. Shape /\ SlotMatchesWindow /\ SlotRight
  BY DEF DInv, IInv
<1>t. rs \in Slots /\ fu \in Registers /\ rob \in [Threads -> [Tags -> Entries]]
  BY DEF DInv, Types, Steps
<1>2. rs.busy /\ ~(ReqValid /\ grant) /\ ~Squashed(t, d, missed)
  BY <1>1, SlotKeeps DEF SlotOf
<1>3. t \in Threads /\ d \in Tags /\ InFlight(t, d) /\ rob[t][d].kind = "div" /\ ~rob[t][d].done
  BY <1>1, <1>2 DEF Shape, SlotMatchesWindow, SlotOf
<1>4. ~Dispatched(t, d, fresh)
  BY <1>1, <1>3, WindowAfter
<1>5. Operand(rob'[t][d], i) = v
  <2>1. Carried(t, d, F, grant)
    BY <1>1, <1>3, <1>4, DataAfter
  <2> QED BY <2>1 DEF Operand, Carried
<1>6. IF rs.ready[i] THEN rs.val[i] = v ELSE Awaited(t, rs.tag[i], v, d)
  BY <1>1, <1>2 DEF SlotRight, OperandsRight, SlotOf
<1>7. \A c \in cdb : c.value \in Regs
  <2>1. ASSUME NEW p \in F PROVE rob[p[1]][p[2]].value \in Regs
    <3>1. p[1] \in Threads /\ p[2] \in Tags
      BY DEF Choices, Finishing, Running
    <3> QED BY <1>t, <3>1 DEF Entries
  <2> QED BY <2>1 DEF Broadcasts
<1>8. /\ Snooped(cdb) \in Slots /\ Snooped(cdb).tag = rs.tag
      /\ Snooped(cdb).ready[i] <=> rs.ready[i] \/ Heard(cdb, i) # {}
      /\ IF Heard(cdb, i) = {} THEN Snooped(cdb).val[i] = rs.val[i]
         ELSE \E c \in Heard(cdb, i) : Snooped(cdb).val[i] = c.value
  <2> HIDE DEF cdb
  <2> QED BY <1>t, <1>7, SnoopedSlot
<1>9. rs'.ready = Snooped(cdb).ready /\ rs'.val = Snooped(cdb).val /\ rs'.tag = Snooped(cdb).tag
  BY <1>t, <1>8, SlotAfter
<1>10. CASE rs.ready[i]
  <2>1. Heard(cdb, i) = {}
    BY <1>10 DEF Heard
  <2> QED BY <1>5, <1>6, <1>8, <1>9, <1>10, <2>1
<1>11. CASE ~rs.ready[i] /\ Heard(cdb, i) # {}
  <2>1. PICK c \in Heard(cdb, i) : Snooped(cdb).val[i] = c.value
    BY <1>8, <1>11
  <2>2. c \in cdb /\ c.tid = t /\ c.tag = rs.tag[i]
    BY <2>1 DEF Heard, SlotOf
  <2>3. PICK p \in F : c = [tid |-> p[1], tag |-> p[2], value |-> rob[p[1]][p[2]].value]
    BY <2>2 DEF Broadcasts
  <2>4. c.value = rob[t][rs.tag[i]].value
    BY <2>2, <2>3
  <2>5. rob[t][rs.tag[i]].value = v
    BY <1>6, <1>11 DEF Awaited
  <2> HIDE DEF cdb, v
  <2> QED BY <1>5, <1>8, <1>9, <1>11, <2>1, <2>4, <2>5
<1>12. CASE ~rs.ready[i] /\ Heard(cdb, i) = {}
  <2> DEFINE g == rs.tag[i]
  <2>1. /\ InFlight(t, g) /\ rob[t][g].kind = "other" /\ ~rob[t][g].done /\ rob[t][g].value = v
        /\ Age(t, g) < Age(t, d)
    BY <1>6, <1>12 DEF Awaited
  <2>2. g \in Tags
    BY <1>t DEF Slots
  <2>3. <<t, g>> \notin F
    <3> SUFFICES ASSUME <<t, g>> \in F PROVE FALSE
      OBVIOUS
    <3> DEFINE c == [tid |-> t, tag |-> g, value |-> rob[t][g].value]
    <3>1. c \in cdb
      <4>1. <<t, g>>[1] = t /\ <<t, g>>[2] = g
        OBVIOUS
      <4>2. c = [tid |-> <<t, g>>[1], tag |-> <<t, g>>[2], value |-> rob[<<t, g>>[1]][<<t, g>>[2]].value]
        BY <4>1
      <4> QED BY <4>2 DEF Broadcasts
    <3>2. c.tid = rs.tid /\ c.tag = rs.tag[i]
      BY DEF SlotOf
    <3> HIDE DEF c, cdb
    <3> QED BY <1>2, <1>12, <3>1, <3>2 DEF Heard, SlotOf
  <2>4. ~Squashed(t, g, missed)
    <3>1. head \in [Threads -> Tags] /\ (missed[t] >= 0 => missed[t] \in Tags)
      BY <1>1, <1>3, MissedInFlight DEF Shape, Choices
    <3>2. Age(t, g) \in Int /\ Age(t, d) \in Int /\ (missed[t] >= 0 => Age(t, missed[t]) \in Int)
      BY <1>3, <2>2, <3>1, Ages
    <3> HIDE DEF g
    <3> QED BY <1>2, <2>1, <3>2 DEF Squashed, Younger
  <2>5. /\ InFlight(t, g)' /\ rob'[t][g].kind = "other" /\ ~rob'[t][g].done
        /\ rob'[t][g].value = rob[t][g].value /\ Age(t, g)' < Age(t, d)'
    <3> HIDE DEF g
    <3>1. Pending(F, missed, t, g, d)
      BY <2>1, <2>2, <2>3, <2>4 DEF Pending
    <3>2. StillPending(t, g, d)
      BY <1>1, <3>1, AwaitedAfter
    <3> QED BY <3>2 DEF StillPending
  <2>6. ~rs'.ready[i] /\ rs'.tag[i] = g
    BY <1>8, <1>9, <1>12
  <2> HIDE DEF g, v, cdb
  <2>7. rob'[t][g].value = Operand(rob'[t][d], i)
    BY <1>5, <2>1, <2>5
  <2>8. AwaitedNext(t, g, Operand(rob'[t][d], i), d)
    BY <2>5, <2>7 DEF AwaitedNext
  <2> QED BY <2>6, <2>8, Zenon
<1> QED BY <1>10, <1>11, <1>12

\* Set-up depends on the operation and the operands alone.
LEMMA SetForSame ==
  ASSUME NEW g, NEW e, NEW f, e.op = f.op, e.word = f.word, e.a = f.a, e.b = f.b, SetFor(g, e)
  PROVE  SetFor(g, f)
BY DEF SetFor

\* The division in the slot, when nothing is allocated.
LEMMA ServedKept ==
  ASSUME DInv, NEW F, NEW grant, NEW missed, NEW fresh, Choices(F, missed, fresh), FuNext,
         SlotNext(Snooped(Broadcasts(F)), grant, missed), WindowNext(F, grant, missed, fresh),
         rs'.busy, NEW t \in Threads, NEW d \in Tags, SlotOf(t, d), ~rob'[t][d].late
  PROVE  /\ ~rs'.started => ~rs'.have /\ fu'.fsm = "IDLE" /\ ~fu'.done
         /\ rs'.started /\ ~rs'.have =>
              \/ fu'.fsm # "IDLE" /\ SetFor(fu', rob'[t][d])
              \/ fu'.done /\ Selected(rob'[t][d].op, fu'.quotient, fu'.remainder) = Returned(rob'[t][d])
         /\ rs'.have => rs'.started /\ fu'.fsm = "IDLE" /\ ~fu'.done /\ ReqValue' = Returned(rob'[t][d])
<1> DEFINE e == rob[t][d]
           f == rob'[t][d]
           cdb == Broadcasts(F)
<1>1. Shape /\ SlotMatchesWindow /\ SlotRight /\ Steps(fu)
  BY DEF DInv, IInv
<1>2. rs \in Slots /\ fu \in Registers /\ rob \in [Threads -> [Tags -> Entries]]
  BY DEF DInv, Types, Steps
<1>3. rs.busy
  BY <1>1, SlotKeeps
<1>4. InFlight(t, d) /\ e.kind = "div" /\ ~e.done /\ e.op = rs.op /\ e.word = rs.word
  BY <1>1, <1>3 DEF SlotMatchesWindow, SlotOf
<1>5. /\ f.op = e.op /\ f.word = e.word /\ f.a = e.a /\ f.b = e.b /\ ~e.late
      /\ Returned(f) = Returned(e)
  <2>1. ~Dispatched(t, d, fresh)
    BY <1>1, <1>4, WindowAfter
  <2>2. Carried(t, d, F, grant)
    BY <1>1, <2>1, DataAfter
  <2>3. f.op = e.op /\ f.word = e.word /\ f.a = e.a /\ f.b = e.b /\ ~e.late
    BY <2>2 DEF Carried
  <2> QED BY <2>3, ReturnedSame
<1>6. Asked(e)
  <2>1. e \in Entries
    BY <1>2
  <2> HIDE DEF e
  <2> QED BY <2>1, AskedEntry
<1>7. OperandsRight(t, d) /\ Served(e)
  BY <1>1, <1>3, <1>5 DEF SlotRight, SlotOf
<1>8. /\ ~rs.started => ~rs.have /\ fu.fsm = "IDLE" /\ ~fu.done
      /\ rs.started /\ ~rs.have => \/ fu.fsm # "IDLE" /\ SetFor(fu, e)
                                   \/ fu.done /\ Selected(e.op, fu.quotient, fu.remainder) = Returned(e)
      /\ rs.have => rs.started /\ fu.fsm = "IDLE" /\ ~fu.done /\ ReqValue = Returned(e)
  <2> HIDE DEF e
  <2> QED BY <1>7 DEF Served
<1>9. /\ rs'.started <=> rs.started \/ Start
      /\ rs'.have <=> rs.have \/ fu.done
      /\ rs'.q = (IF fu.done THEN fu.quotient ELSE rs.q)
      /\ rs'.r = (IF fu.done THEN fu.remainder ELSE rs.r)
      /\ rs'.op = rs.op
  <2>1. \A c \in cdb : c.value \in Regs
    <3>1. ASSUME NEW p \in F PROVE rob[p[1]][p[2]].value \in Regs
      <4>1. p[1] \in Threads /\ p[2] \in Tags
        BY DEF Choices, Finishing, Running
      <4> QED BY <1>2, <4>1 DEF Entries
    <3> QED BY <3>1 DEF Broadcasts
  <2> HIDE DEF cdb
  <2>2. /\ Snooped(cdb) \in Slots
        /\ Snooped(cdb).started = rs.started /\ Snooped(cdb).have = rs.have
        /\ Snooped(cdb).q = rs.q /\ Snooped(cdb).r = rs.r /\ Snooped(cdb).op = rs.op
    BY <1>2, <2>1, SnoopedSlot
  <2> DEFINE slot == Snooped(cdb)
  <2>3. SlotNext(slot, grant, missed)
    BY DEF cdb
  <2>4. slot \in Slots /\ slot.started = rs.started /\ slot.have = rs.have
        /\ slot.q = rs.q /\ slot.r = rs.r /\ slot.op = rs.op
    BY <2>2
  <2> HIDE DEF slot
  <2>5. /\ rs'.started <=> slot.started \/ Start
        /\ rs'.have <=> slot.have \/ fu.done
        /\ rs'.q = (IF fu.done THEN fu.quotient ELSE slot.q)
        /\ rs'.r = (IF fu.done THEN fu.remainder ELSE slot.r)
        /\ rs'.op = slot.op
    BY <1>2, <2>3, <2>4, SlotAfter
  <2> QED BY <2>4, <2>5
<1>10. /\ fu.fsm = "IDLE" /\ ~Start => fu'.fsm = "IDLE" /\ ~fu'.done
       /\ fu.fsm = "IDLE" /\ Start =>
            /\ fu'.fsm # "IDLE"
            /\ \A o : Asked(o) /\ o.op = rs.op /\ o.word = rs.word /\ o.a = rs.val[1] /\ o.b = rs.val[2]
                        => SetFor(fu', o)
       /\ fu.fsm = "RUN" => fu'.fsm # "IDLE" /\ \A o : SetFor(fu, o) => SetFor(fu', o)
       /\ fu.fsm = "FINISH" =>
            /\ fu'.fsm = "IDLE" /\ fu'.done
            /\ \A o : Asked(o) /\ SetFor(fu, o) => Selected(o.op, fu'.quotient, fu'.remainder) = Returned(o)
  BY <1>1, <1>2, DividerStep
<1>11. fu.fsm \in {"IDLE", "RUN", "FINISH"} /\ (fu.done => fu.fsm = "IDLE")
  BY <1>1, <1>2 DEF Registers, Steps
<1>12. ReqValue = Selected(rs.op, rs.q, rs.r) /\ ReqValue' = Selected(rs'.op, rs'.q, rs'.r)
  BY DEF ReqValue, Selected
<1>13. Start => ~rs.started /\ rs.ready[1] /\ rs.ready[2]
  BY DEF Start
<1>14. ASSUME SetFor(fu', e) PROVE SetFor(fu', f)
  <2> HIDE DEF e, f
  <2> QED BY <1>5, <1>14, SetForSame
<1> HIDE DEF e, f
<1>15. CASE ~rs.started /\ ~Start
  BY <1>8, <1>9, <1>10, <1>15
<1>16. CASE ~rs.started /\ Start
  <2>1. rs.val[1] = e.a /\ rs.val[2] = e.b
    BY <1>7, <1>13, <1>16 DEF OperandsRight, Operand, e
  <2>2. fu'.fsm # "IDLE" /\ SetFor(fu', e)
    BY <1>4, <1>6, <1>8, <1>10, <1>16, <2>1
  <2> QED BY <1>8, <1>9, <1>14, <1>16, <2>2 DEF f
<1>17. CASE rs.started /\ ~rs.have /\ fu.fsm # "IDLE" /\ SetFor(fu, e)
  <2>1. ~fu.done /\ rs'.started /\ ~rs'.have
    BY <1>9, <1>11, <1>17
  <2>2. CASE fu.fsm = "RUN"
    <3>1. fu'.fsm # "IDLE" /\ SetFor(fu', e)
      BY <1>10, <1>17, <2>2
    <3> QED BY <1>14, <2>1, <3>1 DEF f
  <2>3. CASE fu.fsm = "FINISH"
    <3>1. fu'.done /\ Selected(e.op, fu'.quotient, fu'.remainder) = Returned(e)
      BY <1>6, <1>10, <1>17, <2>3
    <3> QED BY <1>5, <2>1, <3>1 DEF f
  <2> QED BY <1>11, <1>17, <2>2, <2>3
<1>18. CASE rs.started /\ ~rs.have /\ fu.done /\ Selected(e.op, fu.quotient, fu.remainder) = Returned(e)
  <2>1. fu.fsm = "IDLE" /\ ~Start
    BY <1>11, <1>13, <1>18
  <2>2. fu'.fsm = "IDLE" /\ ~fu'.done
    BY <1>10, <2>1
  <2>3. rs'.started /\ rs'.have /\ rs'.q = fu.quotient /\ rs'.r = fu.remainder
    BY <1>9, <1>18
  <2>4. ReqValue' = Returned(f)
    BY <1>4, <1>5, <1>9, <1>12, <1>18, <2>3
  <2> QED BY <2>2, <2>3, <2>4 DEF f
<1>19. CASE rs.have
  <2>1. rs.started /\ fu.fsm = "IDLE" /\ ~fu.done /\ ReqValue = Returned(e)
    BY <1>8, <1>19
  <2>2. fu'.fsm = "IDLE" /\ ~fu'.done
    BY <1>10, <1>13, <2>1
  <2>3. rs'.started /\ rs'.have /\ rs'.q = rs.q /\ rs'.r = rs.r
    BY <1>9, <1>19, <2>1
  <2>4. ReqValue' = Returned(f)
    BY <1>5, <1>9, <1>12, <2>1, <2>3
  <2> QED BY <2>2, <2>3, <2>4 DEF f
<1> QED BY <1>8, <1>15, <1>16, <1>17, <1>18, <1>19

\* No division is dispatched.
LEMMA RightKept ==
  ASSUME DInv, NEW F, NEW grant, NEW missed, NEW fresh, Choices(F, missed, fresh), FuNext,
         SlotNext(Snooped(Broadcasts(F)), grant, missed), WindowNext(F, grant, missed, fresh),
         \A t \in Threads : \A e \in fresh[t] : e.kind = "other" /\ ~e.done,
         \A t \in Threads : fresh[t] # {} => \E e \in Entries : fresh[t] = {e},
         program' = program
  PROVE  DInv'
<1> DEFINE cdb == Broadcasts(F)
<1>1. IInv /\ Shape /\ SlotMatchesWindow /\ SlotRight /\ Steps(fu) /\ DivisionsReturned /\ Types
  BY DEF DInv, IInv
<1>2. rs \in Slots /\ fu \in Registers /\ rob \in [Threads -> [Tags -> Entries]] /\ program \in Programs
  BY <1>1 DEF Types, Steps
<1>3. IInv'
  BY <1>1, MatchKept
<1>4. Steps(fu')
  BY <1>1, <1>2, DividerStep
<1>5. Types'
  <2>1. \A c \in cdb : c.value \in Regs
    <3>1. ASSUME NEW p \in F PROVE rob[p[1]][p[2]].value \in Regs
      <4>1. p[1] \in Threads /\ p[2] \in Tags
        BY DEF Choices, Finishing, Running
      <4> QED BY <1>2, <4>1 DEF Entries
    <3> QED BY <3>1 DEF Broadcasts
  <2> DEFINE slot == Snooped(cdb)
  <2>2. slot \in Slots
    <3> HIDE DEF cdb
    <3> QED BY <1>2, <2>1, SnoopedSlot
  <2>3. SlotNext(slot, grant, missed)
    OBVIOUS
  <2> HIDE DEF slot, cdb
  <2>4. rs' \in Slots
    BY <1>2, <2>2, <2>3, SlotAfter
  <2>5. rob' \in [Threads -> [Tags -> Entries]]
    BY <1>1, EntriesAfter
  <2> QED BY <1>2, <2>4, <2>5 DEF Types
<1>6. SlotRight'
  <2>1. CASE rs'.busy
    <3> DEFINE t == rs.tid
               d == rs.dest
    <3>1. rs.busy /\ rs'.tid = t /\ rs'.dest = d
      BY <1>1, <2>1, SlotKeeps
    <3>2. t \in Threads /\ d \in Tags /\ SlotOf(t, d)
      BY <1>1, <3>1 DEF Shape, SlotOf
    <3> SUFFICES ASSUME NEW u \in Threads, NEW h \in Tags, SlotOf(u, h), rs'.tid = u, rs'.dest = h
                 PROVE  SlotRight'
      BY <3>1, <3>2
    <3> HIDE DEF t, d
    <3>3. ASSUME NEW i \in 1 .. 2
          PROVE  /\ rs'.ready[i] => rs'.val[i] = Operand(rob'[u][h], i)
                 /\ ~rs'.ready[i] => \E g : g = rs'.tag[i] /\ AwaitedNext(u, g, Operand(rob'[u][h], i), h)
      BY <2>1, OperandsKept
    <3>4. ASSUME ~rob'[u][h].late
          PROVE  /\ ~rs'.started => ~rs'.have /\ fu'.fsm = "IDLE" /\ ~fu'.done
                 /\ rs'.started /\ ~rs'.have =>
                      \/ fu'.fsm # "IDLE" /\ SetFor(fu', rob'[u][h])
                      \/ fu'.done /\ Selected(rob'[u][h].op, fu'.quotient, fu'.remainder) = Returned(rob'[u][h])
                 /\ rs'.have => rs'.started /\ fu'.fsm = "IDLE" /\ ~fu'.done /\ ReqValue' = Returned(rob'[u][h])
      BY <2>1, <3>4, ServedKept
    <3> QED BY <3>3, <3>4, SlotRightNext
  <2>2. CASE ~rs'.busy
    BY <2>2 DEF SlotRight
  <2> QED BY <2>1, <2>2
<1>7. DivisionsReturned'
  BY <1>1, RightAfter
<1> QED BY <1>3, <1>4, <1>5, <1>6, <1>7 DEF DInv

\* A division is dispatched, to an idle divider.
LEMMA RightDispatched ==
  ASSUME DInv, NEW F, NEW grant, NEW missed, NEW fresh, NEW t \in Threads, NEW d \in Divs,
         NEW x, NEW y, x \in Sources(t, d.a, F), y \in Sources(t, d.b, F),
         Choices(F, missed, fresh), fresh = [None EXCEPT ![t] = {Division(d)}], ~Full, Room(t, missed),
         FuNext, SlotNext(Allocated(t, d.op, d.word, <<x, y>>), grant, missed),
         WindowNext(F, grant, missed, fresh), program' = program
  PROVE  DInv'
<1>1. IInv /\ Shape /\ SlotMatchesWindow /\ SlotRight /\ Steps(fu) /\ DivisionsReturned /\ Types
  BY DEF DInv, IInv
<1>2. rs \in Slots /\ fu \in Registers /\ rob \in [Threads -> [Tags -> Entries]] /\ program \in Programs
  BY <1>1 DEF Types, Steps
<1>3. ~rs.busy /\ fu.fsm = "IDLE" /\ ~Start
  BY DEF Full, FuBusy, Start
<1>4. d.op \in Ops /\ d.word \in BOOLEAN /\ d.a \in Regs /\ d.b \in Regs
  BY DEF Divs
<1>5. IInv'
  BY <1>1, MatchDispatched
<1>6. Steps(fu') /\ fu'.fsm = "IDLE" /\ ~fu'.done
  BY <1>1, <1>2, <1>3, DividerStep
<1>7. SourceRight(t, d.a, F, x) /\ SourceRight(t, d.b, F, y)
  <2>1. \A g \in Tags : rob[t][g].done \in BOOLEAN
    BY <1>1 DEF Shape
  <2>2. ASSUME NEW v \in Regs, NEW z, z \in Sources(t, v, F) PROVE SourceRight(t, v, F, z)
    BY <2>1, <2>2, SourcesRight
  <2> QED BY <1>4, <2>2
<1>8. /\ head \in [Threads -> Tags] /\ count \in [Threads -> 0 .. Depth] /\ count[t] < Depth
      /\ ~(missed[t] >= 0)
  <2>1. missed \in [Threads -> Tags \cup {-1}]
    BY DEF Choices, Misses
  <2> QED BY <1>1, <2>1, DivideAssumption DEF Shape, Room, Tags
<1> DEFINE h == Free(t)
<1>9. h \in Tags /\ Age(t, h) = count[t]
  BY <1>8, FreeIsNext
<1>10. fresh[t] = {Division(d)} /\ \A u \in Threads : u # t => fresh[u] = {}
  BY DEF None
<1>11. rob'[t][h] = Division(d)
  <2>1. Dispatched(t, h, fresh)
    BY <1>10 DEF Dispatched
  <2> HIDE DEF h
  <2>2. rob'[t][h] \in fresh[t]
    BY <1>1, <1>9, <2>1, EntryAfter
  <2> QED BY <1>10, <2>2
<1>12. /\ Division(d) \in Entries /\ Division(d).a = d.a /\ Division(d).b = d.b
       /\ Division(d).late = fu.done /\ Division(d).done = FALSE
  <2>1. 0 \in Regs /\ fu.done \in BOOLEAN
    BY <1>2, Powers DEF Regs, Registers
  <2> QED BY <1>4, <2>1 DEF Division, Entries
<1> DEFINE slot == Allocated(t, d.op, d.word, <<x, y>>)
<1>13. /\ slot \in Slots /\ slot.started = FALSE /\ slot.have = FALSE
       /\ slot.ready[1] = x.ready /\ slot.ready[2] = y.ready
       /\ slot.val[1] = x.val /\ slot.val[2] = y.val /\ slot.tag[1] = x.tag /\ slot.tag[2] = y.tag
  <2>1. Taken(slot, x, y)
    BY <1>2, <1>4, <1>7, <1>9, AllocatedSlot
  <2> HIDE DEF slot
  <2> QED BY <2>1 DEF Taken
<1>14. SlotNext(slot, grant, missed)
  OBVIOUS
<1> HIDE DEF slot
<1>15. /\ rs' \in Slots
       /\ rs'.ready = slot.ready /\ rs'.val = slot.val /\ rs'.tag = slot.tag
       /\ rs'.started <=> slot.started \/ Start
       /\ rs'.have <=> slot.have \/ fu.done
  BY <1>2, <1>13, <1>14, SlotAfter
<1>16. rs'.tid = t /\ rs'.dest = h
  BY <1>1, <1>3, SlotTakes
<1>17. Types'
  <2>1. \A u \in Threads : fresh[u] # {} => \E e \in Entries : fresh[u] = {e}
    BY <1>10, <1>12
  <2>2. rob' \in [Threads -> [Tags -> Entries]]
    BY <1>1, <2>1, EntriesAfter
  <2> QED BY <1>2, <1>15, <2>2 DEF Types
<1>18. ASSUME NEW v, NEW z, SourceRight(t, v, F, z), ~z.ready
       PROVE  AwaitedNext(t, z.tag, v, h)
  <2> DEFINE g == z.tag
  <2>1. /\ g \in Tags /\ InFlight(t, g) /\ rob[t][g].kind = "other" /\ ~rob[t][g].done
        /\ rob[t][g].value = v /\ <<t, g>> \notin F
    BY <1>18 DEF SourceRight
  <2> HIDE DEF g, h
  <2>2. Age(t, g) < Age(t, h) /\ ~Squashed(t, g, missed)
    BY <1>8, <1>9, <2>1 DEF InFlight, Squashed
  <2>3. Pending(F, missed, t, g, h)
    BY <2>1, <2>2 DEF Pending
  <2>4. StillPending(t, g, h)
    BY <1>1, <1>9, <2>3, AwaitedAfter
  <2>5. AwaitedNext(t, g, v, h)
    BY <2>1, <2>4 DEF StillPending, AwaitedNext
  <2> QED BY <2>5 DEF g
<1>19. Operand(rob'[t][h], 1) = d.a /\ Operand(rob'[t][h], 2) = d.b
  BY <1>11, <1>12 DEF Operand
<1>20. SlotRight'
  <2>1. ASSUME NEW i \in 1 .. 2
        PROVE  /\ rs'.ready[i] => rs'.val[i] = Operand(rob'[t][h], i)
               /\ ~rs'.ready[i] => \E g : g = rs'.tag[i] /\ AwaitedNext(t, g, Operand(rob'[t][h], i), h)
    <3> HIDE DEF h
    <3>1. CASE i = 1
      <4>1. x.ready => x.val = d.a
        BY <1>7 DEF SourceRight
      <4>2. ~x.ready => AwaitedNext(t, x.tag, d.a, h)
        BY <1>7, <1>18
      <4> QED BY <1>13, <1>15, <1>19, <3>1, <4>1, <4>2
    <3>2. CASE i = 2
      <4>1. y.ready => y.val = d.b
        BY <1>7 DEF SourceRight
      <4>2. ~y.ready => AwaitedNext(t, y.tag, d.b, h)
        BY <1>7, <1>18
      <4> QED BY <1>13, <1>15, <1>19, <3>2, <4>1, <4>2
    <3> QED BY <3>1, <3>2
  <2>2. ASSUME ~rob'[t][h].late PROVE ~rs'.started /\ ~rs'.have
    BY <1>3, <1>11, <1>12, <1>13, <1>15, <2>2
  <2> HIDE DEF h
  <2> QED BY <1>6, <1>16, <2>1, <2>2, SlotRightNext
<1>21. DivisionsReturned'
  <2>1. \A u \in Threads : \A e \in fresh[u] : ~e.done
    BY <1>10, <1>12
  <2> QED BY <1>1, <2>1, RightAfter
<1> QED BY <1>5, <1>6, <1>17, <1>20, <1>21 DEF DInv

\* A tuple of two is a function on 1 .. 2.
LEMMA TupleTyped == ASSUME NEW S, NEW a \in S, NEW b \in S PROVE <<a, b>> \in [1 .. 2 -> S]
OBVIOUS

\* The numbers' invariant holds at reset.
LEMMA RightInit == Init => DInv
<1> SUFFICES ASSUME Init PROVE DInv
  OBVIOUS
<1>1. IInv
  BY InitEstablishes
<1>2. 0 \in Tags /\ 0 \in Regs /\ 0 \in 0 .. XLEN /\ 0 \in 0 .. 2^(XLEN + 1) - 1
  <2>1. 2^(XLEN + 1) \in Nat \ {0} /\ 2^XLEN \in Nat \ {0} /\ XLEN \in Nat
    <3>1. XLEN \in Nat /\ XLEN + 1 \in Nat
      BY DivideAssumption
    <3> QED BY <3>1, PowerNat, PowerPositive
  <2> QED BY <2>1, DivideAssumption DEF Tags, Regs
<1>3. Steps(fu)
  <2>1. fu.fsm = "IDLE" /\ fu.done = FALSE
    BY DEF Init
  <2>2. fu \in Registers
    BY <1>2 DEF Init, Registers
  <2> QED BY <2>1, <2>2 DEF Steps, Dividing
<1>4. Types
  <2>1. /\ <<FALSE, FALSE>> \in [1 .. 2 -> BOOLEAN] /\ <<0, 0>> \in [1 .. 2 -> Regs]
        /\ <<0, 0>> \in [1 .. 2 -> Tags]
    BY <1>2, TupleTyped
  <2>2. rs \in Slots
    BY <1>2, <2>1 DEF Init, Slots, Ops
  <2>3. Other(0) \in Entries
    BY <1>2 DEF Other, Entries, Ops
  <2>4. rob \in [Threads -> [Tags -> Entries]]
    BY <2>3 DEF Init
  <2> QED BY <2>2, <2>4 DEF Types, Init
<1>5. SlotRight
  BY DEF SlotRight, Init
<1>6. DivisionsReturned
  <2>1. ASSUME NEW t \in Threads, NEW g \in Tags PROVE ~rob[t][g].done
    BY DEF Init, Other
  <2> QED BY <2>1 DEF DivisionsReturned, Finished
<1> QED BY <1>1, <1>3, <1>4, <1>5, <1>6 DEF DInv

\* Every edge preserves it.
LEMMA RightNext == DInv /\ [Next]_vars => DInv'
<1> SUFFICES ASSUME DInv, [Next]_vars PROVE DInv'
  OBVIOUS
<1>1. ASSUME NEW F \in Finishing, NEW grant \in BOOLEAN, NEW missed \in Misses(F),
             Edge(F, grant, missed)
      PROVE  DInv'
  <2>0. FuNext /\ program' = program /\ program \in Programs
    BY <1>1 DEF Edge, DInv, Types
  <2>1. CASE Quiet(F, grant, missed)
    <3>1. /\ Choices(F, missed, None)
          /\ \A t \in Threads : \A e \in None[t] : e.kind = "other" /\ ~e.done
          /\ \A t \in Threads : None[t] # {} => \E e \in Entries : None[t] = {e}
      BY DEF Choices, None
    <3>2. SlotNext(Snooped(Broadcasts(F)), grant, missed) /\ WindowNext(F, grant, missed, None)
      BY <2>1 DEF Quiet
    <3> QED BY <2>0, <3>1, <3>2, RightKept
  <2>2. CASE DispatchOther(F, grant, missed)
    <3>1. PICK t \in Threads, v \in program.others :
            /\ Room(t, missed)
            /\ SlotNext(Snooped(Broadcasts(F)), grant, missed)
            /\ WindowNext(F, grant, missed, [None EXCEPT ![t] = {Other(v)}])
      BY <2>2 DEF DispatchOther
    <3> DEFINE fresh == [None EXCEPT ![t] = {Other(v)}]
    <3>2. /\ DOMAIN Other(v) = EntryFields /\ Other(v).done = FALSE /\ Other(v).kind = "other"
          /\ Other(v) \in Entries
      <4>1. v \in Regs /\ 0 \in Regs
        BY <2>0, ProgramsAssumption, Powers DEF Regs
      <4> QED BY <4>1 DEF Other, EntryFields, Entries, Ops
    <3>3. /\ DOMAIN fresh = Threads
          /\ \A u \in Threads : fresh[u] = IF u = t THEN {Other(v)} ELSE {}
      BY DEF None
    <3> HIDE DEF fresh
    <3>4. /\ Choices(F, missed, fresh)
          /\ \A u \in Threads : \A e \in fresh[u] : e.kind = "other" /\ ~e.done
          /\ \A u \in Threads : fresh[u] # {} => \E e \in Entries : fresh[u] = {e}
      BY <3>1, <3>2, <3>3 DEF Choices
    <3>5. WindowNext(F, grant, missed, fresh) /\ SlotNext(Snooped(Broadcasts(F)), grant, missed)
      BY <3>1 DEF fresh
    <3> QED BY <2>0, <3>4, <3>5, RightKept
  <2>3. CASE DispatchDivision(F, grant, missed)
    <3>1. PICK t \in Threads, d \in program.divs :
            /\ Room(t, missed) /\ ~Full
            /\ \E x \in Sources(t, d.a, F), y \in Sources(t, d.b, F) :
                  SlotNext(Allocated(t, d.op, d.word, <<x, y>>), grant, missed)
            /\ WindowNext(F, grant, missed, [None EXCEPT ![t] = {Division(d)}])
      BY <2>3 DEF DispatchDivision
    <3>2. PICK x \in Sources(t, d.a, F), y \in Sources(t, d.b, F) :
             SlotNext(Allocated(t, d.op, d.word, <<x, y>>), grant, missed)
      BY <3>1
    <3> DEFINE fresh == [None EXCEPT ![t] = {Division(d)}]
    <3>3. DOMAIN Division(d) = EntryFields /\ Division(d).done = FALSE
      BY DEF Division, EntryFields
    <3>4. /\ DOMAIN fresh = Threads
          /\ \A u \in Threads : fresh[u] = IF u = t THEN {Division(d)} ELSE {}
      BY DEF None
    <3> HIDE DEF fresh
    <3>5. Choices(F, missed, fresh)
      BY <3>1, <3>3, <3>4 DEF Choices
    <3>6. WindowNext(F, grant, missed, fresh) /\ fresh = [None EXCEPT ![t] = {Division(d)}]
      BY <3>1 DEF fresh
    <3>7. d \in Divs
      BY <2>0, ProgramsAssumption
    <3> QED BY <2>0, <3>1, <3>2, <3>5, <3>6, <3>7, RightDispatched
  <2> QED BY <1>1, <2>1, <2>2, <2>3 DEF Edge
<1>2. CASE UNCHANGED vars
  <2>1. IInv'
    BY <1>2, NextPreserves DEF DInv
  <2>2. Steps(fu') /\ Types'
    BY <1>2 DEF vars, DInv, Types
  <2>3. SlotRight'
    BY <1>2 DEF vars, DInv, SlotRight, OperandsRight, Awaited, InFlight, Age, Served, ReqValue
  <2>4. DivisionsReturned'
    BY <1>2 DEF vars, DInv, DivisionsReturned, Finished, InFlight, Age
  <2> QED BY <2>1, <2>2, <2>3, <2>4 DEF DInv
<1> QED BY <1>1, <1>2 DEF Next

\* A pair of operands' fields is a sequence of two.
LEMMA PairSeq == ASSUME NEW S, NEW f \in [1 .. 2 -> S] PROVE f \in Seq(S) /\ Len(f) = 2
<1>1. f = <<f[1], f[2]>>
  OBVIOUS
<1>2. f[1] \in S /\ f[2] \in S
  OBVIOUS
<1>3. <<f[1], f[2]>> \in Seq(S)
  BY <1>2
<1>4. f \in Seq(S)
  BY <1>1, <1>3
<1> QED BY <1>4

\* The invariant gives the types.
LEMMA TypesHold == DInv => TypeOK
<1> SUFFICES ASSUME DInv PROVE TypeOK
  OBVIOUS
<1>1. Shape /\ fu \in Registers /\ rs \in Slots /\ rob \in [Threads -> [Tags -> Entries]] /\ program \in Programs
  BY DEF DInv, IInv, Types, Steps
<1>2. /\ rs.ready \in Seq(BOOLEAN) /\ Len(rs.ready) = 2
      /\ rs.val \in Seq(Regs) /\ Len(rs.val) = 2 /\ rs.tag \in Seq(Tags) /\ Len(rs.tag) = 2
  <2>1. rs.ready \in [1 .. 2 -> BOOLEAN] /\ rs.val \in [1 .. 2 -> Regs] /\ rs.tag \in [1 .. 2 -> Tags]
    BY <1>1 DEF Slots
  <2> QED BY <2>1, PairSeq
<1>3. rs \in [busy : BOOLEAN, tid : {0, 1}, op : Ops, word : BOOLEAN, ready : Seq(BOOLEAN),
               val : Seq(Regs), tag : Seq(Tags), dest : Tags, started : BOOLEAN,
               have : BOOLEAN, q : Regs, r : Regs]
  BY <1>1, <1>2 DEF Slots
<1> QED BY <1>1, <1>2, <1>3 DEF TypeOK, Registers, Entries, Shape

\* The registers of the divider and of its slot keep their widths (div_fu.v:
\* 39-62, div_rs.v:67-76): R needs its 65th bit and no more, and the counter
\* never passes the width of a register.
THEOREM TypesAlways == Spec => []TypeOK
BY TypesHold, RightInit, RightNext, PTL DEF Spec

\* Between two clock edges of the iteration the quotient bits found so far times
\* the divisor, and the remainder so far, are the bits of the dividend seen so
\* far, and the remainder is below the divisor (div_fu.v): one subtraction is
\* enough at each step, whatever the width.
THEOREM DivisionPartial == Spec => []PartialDivision
<1>1. DInv => PartialDivision
  <2> SUFFICES ASSUME DInv, Dividing(fu)
               PROVE  /\ fu.R < fu.D
                      /\ Whole(fu) \div 2^(fu.target - fu.count) = (fu.Q % 2^fu.count) * fu.D + fu.R
    BY DEF PartialDivision, Dividing, Whole
  <2> QED BY HalfwayPartial DEF DInv
<1> QED BY <1>1, RightInit, RightNext, PTL DEF Spec

\* The exception of the next theorem takes out no division that is right: on a
\* disputed one what the divider returns is never what execute.v computes
\* (div_fu.v:72 and 158 against execute.v:131 and 221).
LEMMA DisputedWrong ==
  ASSUME NEW e, e.a \in Regs, Disputed(e)
  PROVE  Returned(e) # Reference(e)
<1> DEFINE M == 2^XLEN
           H == 2^HALF
           G == 2^(HALF - 1)
           r == e.a % H
<1>1. H = 2 * G /\ G \in Nat \ {0} /\ M = H * H
  BY Powers
<1>2. M > H
  <2>1. M = H * (2 * G) /\ H \in Nat \ {0, 1}
    BY <1>1
  <2> HIDE DEF M, H, G
  <2>2. H * H > H
    BY <2>1
  <2> QED BY <1>1, <2>2
<1>3. e.op = "remu" /\ e.word /\ e.b % H = 0 /\ r >= G
  BY DEF Disputed
<1>4. r \in 0 .. H - 1 /\ r % H = r
  <2>1. e.a \in Int
    BY Powers DEF Regs
  <2> QED BY <2>1, LowBits
<1>5. Reference(e) = SignWord(r % H)
  BY <1>3 DEF Reference, Signed, Remainder
<1>6. SignWord(r % H) = r + M - H
  BY <1>3, <1>4 DEF SignWord
<1>7. Returned(e) = r
  BY DEF Returned
<1> HIDE DEF M, H, G, r
<1> QED BY <1>1, <1>2, <1>4, <1>5, <1>6, <1>7

\* A division that has its result has that of its own operands, as the
\* single-cycle core computes it (div_fu.v, div_rs.v, execute.v): although the
\* divider cannot be aborted and finishes divisions that were squashed, whatever
\* instruction an operand comes from and at whatever edge it arrives.  Excepted
\* are a division dispatched in the very cycle in which a squashed one finished,
\* and remuw by zero of a word with its top bit set.
THEOREM UndisputedAlwaysRight == Spec => []UndisputedRight
<1>1. DInv => UndisputedRight
  BY DEF DInv, DivisionsReturned, UndisputedRight, Finished, Returned
<1> QED BY <1>1, RightInit, RightNext, PTL DEF Spec

\* On those the divider returns the word zero-extended, never what execute.v
\* computes: the disagreement is there for every width and every such word.
THEOREM DisputedAlwaysWrong ==
  Spec => [](\A t \in Threads, g \in Tags :
                Finished(t, g) /\ ~rob[t][g].late /\ Disputed(rob[t][g]) =>
                    /\ rob[t][g].value = rob[t][g].a % 2^HALF
                    /\ rob[t][g].value # Reference(rob[t][g]))
<1> DEFINE Departs ==
      \A t \in Threads, g \in Tags :
          Finished(t, g) /\ ~rob[t][g].late /\ Disputed(rob[t][g]) =>
              /\ rob[t][g].value = rob[t][g].a % 2^HALF
              /\ rob[t][g].value # Reference(rob[t][g])
<1>1. DInv => Departs
  <2> SUFFICES ASSUME DInv, NEW t \in Threads, NEW g \in Tags,
                      Finished(t, g), ~rob[t][g].late, Disputed(rob[t][g])
               PROVE  /\ rob[t][g].value = rob[t][g].a % 2^HALF
                      /\ rob[t][g].value # Reference(rob[t][g])
    OBVIOUS
  <2>1. rob[t][g].a \in Regs
    BY DEF DInv, Types, Entries
  <2>2. rob[t][g].value = Returned(rob[t][g])
    BY DEF DInv, DivisionsReturned
  <2>3. Returned(rob[t][g]) # Reference(rob[t][g])
    BY <2>1, DisputedWrong
  <2> QED BY <2>2, <2>3 DEF Returned
<1> HIDE DEF Departs
<1>2. Spec => []Departs
  BY <1>1, RightInit, RightNext, PTL DEF Spec
<1> QED BY <1>2 DEF Departs
=============================================================================
