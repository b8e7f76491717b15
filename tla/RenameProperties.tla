-------------------------- MODULE RenameProperties --------------------------
(***************************************************************************)
(* What the out-of-order core of one thread must keep true.                *)
(***************************************************************************)
EXTENDS Rename

Mapping == [busy : BOOLEAN, tag : Tags]

\* Every register of the thread holds what its width allows, and the history
\* of the last edge holds at most a commit group.
TypeOK ==
  /\ head \in Tags /\ tail \in Tags /\ count \in 0 .. Depth
  /\ rob \in [Tags -> [done : BOOLEAN, value : Values, went : Paths, insn : Fetched]]
  /\ rat \in [Regs -> Mapping] /\ cp \in [Regs -> Mapping]
  /\ rf \in [Regs -> Values]
  /\ rs \in [Tags -> [busy : BOOLEAN, ready : BOOLEAN, val : Values, tag : Tags]]
  /\ br \in Tags \cup {NoTag}
  /\ spec_active \in BOOLEAN /\ jalr_stall \in BOOLEAN /\ active \in BOOLEAN
  /\ predicted \in Paths /\ path \in Paths /\ pc \in Paths /\ pc_latched \in Paths
  /\ fetch_valid \in BOOLEAN /\ halt \in BOOLEAN /\ torn \in BOOLEAN
  /\ retired \in Seq(Fetched) /\ Len(retired) <= Width

(***************************************************************************)
(* The ring and the stations agree: tail is count entries past head, and   *)
(* every tag a station or branch_rs holds names an entry between them. So  *)
(* a squash tag lies "within [head_ptr, head_ptr+count)" (rob.v:492), no   *)
(* squashed instruction is left behind to broadcast on a tag that has been *)
(* given out again, and every unfinished entry still has a station entry   *)
(* to finish it.                                                           *)
(***************************************************************************)
WindowOK ==
  /\ tail = Plus(head, count)
  /\ \A t \in Tags : rs[t].busy => InFlight(t)
  /\ \A t \in Tags : InFlight(t) /\ ~rob[t].done => rs[t].busy
  /\ br # NoTag => InFlight(br) /\ rs[br].busy /\ ~rob[br].done /\ Kind(br) \in BranchClass
  /\ \A t \in Tags : InFlight(t) /\ ~rob[t].done /\ Kind(t) \in BranchClass => t = br
  /\ spec_active \/ jalr_stall => br # NoTag
  /\ ~(spec_active /\ jalr_stall)

\* In-flight instructions that write r, no younger than age a.
Producers(r, a) == {t \in Tags : InFlight(t) /\ Age(t) <= a /\ rob[t].insn.rd = r}

Names(m, r, a) ==
  LET P == Producers(r, a)
  IN  IF P = {} THEN ~m[r].busy
      ELSE m[r].busy /\ m[r].tag \in P /\ \A t \in P : Age(t) <= Age(m[r].tag)

\* The alias table maps each register to the youngest instruction in flight
\* that writes it, and to the register file when there is none: "RAT's
\* busy/tag is kept in sync with an actual outstanding (allocated, not-yet-
\* committed) ROB entry by construction" (rob.v:169-172).
RatNamesYoungest == \A r \in Regs : Names(rat, r, Depth)

\* While a prediction is outstanding the checkpoint maps each register to
\* the youngest writer no younger than the predicted instruction, kept
\* current through every commit since (rat.v:127-158): a rollback discards
\* "every rename caused by the now-squashed speculative instructions" and
\* none besides.
CheckpointNamesOlder ==
  spec_active => \A r \in Regs : Names(cp, r, Age(br))

\* Both tables, until a rollback of the two kinds TornRestore describes.
RenamingOK ==
  torn \/ /\ RatNamesYoungest
          /\ spec_active /\ rob[br].insn.rd = 0 => CheckpointNamesOlder

\* An instruction never waits for a broadcast that will not come: the tag it
\* waits for is in flight, older than itself, unfinished and a producer of
\* the register it reads (the lost wake-up of rob.v:159-171).
NoLostWakeup ==
  torn \/ \A t \in Tags : rs[t].busy /\ ~rs[t].ready =>
            LET p == rs[t].tag
            IN  /\ InFlight(p) /\ Age(p) < Age(t) /\ ~rob[p].done
                /\ rob[p].insn.rd = rob[t].insn.src /\ rob[t].insn.src # 0

\* When the halt line rises, the ecall is the last instruction that has
\* retired: what a testbench reads from the registers then is "corrupted
\* precise state" if anything behind the ecall retired with it
\* (riscv64_ooo_proc.v:1464-1473, 2188-2207).
HaltIsPrecise ==
  [][halt' => retired' # <<>> /\ Last(retired').kind = "ecall"]_vars

(***************************************************************************)
(* Seen from outside, the core executes its program in order, on the path  *)
(* the program takes, however it renamed, speculated and reordered inside. *)
(***************************************************************************)
Architecture == INSTANCE InOrder WITH regs <- rf

ExecutesInOrder == Architecture!Spec

(***************************************************************************)
(* Progress. The clock ticks; units take finite time and the CDB arbiter   *)
(* grants a request of its own thread's oldest instruction before any      *)
(* other (riscv64_ooo_proc.v:1032-1107); thread 0 stores as soon as the    *)
(* store buffer has a slot (:1459-1463).  Nothing more is assumed fair.    *)
(* The last two are WF of the edges at which the oldest instruction is     *)
(* granted or its store taken, spelled out: until then it waits.           *)
(***************************************************************************)
AwaitsGrant == head \in Requests
AwaitsPort  == count > 0 /\ Kind(head) = "store" /\ rob[head].done

LiveSpec == Spec /\ []<><<TRUE>>_vars /\ []<>~AwaitsGrant /\ []<>~AwaitsPort

\* The oldest instruction retires, whatever it waits for.
OldestRetires == \A t \in Tags : (count > 0 /\ head = t) ~> (head # t \/ count = 0 \/ torn)
=============================================================================
