# A TLA+ model of the out-of-order RISC-V core and of its programs

This directory holds TLA+ modules, TLC configurations and TLAPS proofs for the
Verilog of this repository, for the assemblers, and for the test programs and
benchmark kernels that are run on it. Each definition is translated from the source, and
`PROJECT.json` says which lines it stands for. Paths without a directory are
under `src/RV64I_OOO/src/`.

## 1. The system

The repository holds three generations of a RISC-V core: a single-cycle RV32I
(`src/RISC_V.srcs`), a single-cycle RV64IMACFDV (`src/RV64I`) and the one that
has behaviour over time, `src/RV64I_OOO`: three-wide, out-of-order, two hardware
threads, two cores on a MESI cache hierarchy.

| Part | State | Operations | Talks to | What makes it right |
|---|---|---|---|---|
| `l1_cache.v` | state, tag and line of each set; FSM; latched request; prefetch | load, store, miss, upgrade, writeback, prefetch, second load port, snoop | LSQ, L2 | one writer per line; a copy holds every store so far |
| `l2_cache.v` | line and presence bits of each set; FSM; latched request | arbitration, snoop of the others, eviction, fetch, write-through, answer | L1s, memory | serves each request once; inclusion; never the only copy |
| `rob.v` | ring of entries, head, tail, count | allocate up to 3, mark, commit up to 3, squash the tail | everything | tail = head + count; commits in order |
| `rat.v` | busy and tag per register, one checkpoint | rename up to 3, clear on commit, save, restore | ROB, dispatch | names the youngest writer in flight |
| `alu_rs.v`, `mul_rs.v`, `branch_rs.v` | waiting instructions | capture, snoop the CDB, request the CDB, resolve, squash by age | CDB, ROB | no wake-up is lost; nothing squashed broadcasts |
| `riscv64_ooo_proc.v` | fetch PC, thread turn, speculation, stall | dispatch gates, CDB arbiter, mispredict, redirect, commit gates, halt | all of the above | in-order semantics; precise halt; progress |
| `lsq.v` | slots, store buffer, outstanding load, draining store | allocate, disambiguate, issue, hit under miss, commit, merge, drain, squash | ROB, CDB, L1 | loads see program order; stores settle in order |
| `div_fu.v`, `div_rs.v` | R, Q, D, count; one slot for both threads | start, iterate, finish, squash | CDB | quotient; a result belongs to its slot |
| `icache.v`, `bht.v`, `btb.v`, `ras.v` | lines, miss timers, counters, targets | look up, fill, predict, update | fetch | a prediction is only a hint |
| `vec_rat.v`, `vec_rs.v` | as `rat.v`, one lane | rename, wake up, roll back | ROB | as `rat.v` |
| `ecc64.v`, `ecc_line.v`, `ecc_register_file.v` | check bits beside data | encode, correct, flag | arrays | one fault corrected, two flagged |
| `axi_ooo_ctrl.v` | handshakes, sticky halts, staged writes | register reads and writes | host | one response per transaction |
| `lockstep_dual_core.v` | sticky mismatch | compare | two cores | - |
| `asm64.py`, `src/verify/asm.py` | lines, labels, address; words or halfwords | pass 1, pass 2, write | the instruction memory | the hardware reads what the source says |
| `decode_control_unit.v`, `compressed_decoder.v`, `c_roundtrip_check.py` | - | expand, decode | fetch | inverse of the assembler; the port is the Verilog |
| `build_tests*.py`, `bench_*.py` | a program's text, memory and golden values | check_eq, source, kernels | assembler, core | a sound core passes, a broken one does not |

**Interaction.** Everything is synchronous: one clock, registers, and wires that
depend on them. What is concurrent is what happens at one edge. The dangerous
edges are those at which two mechanisms meet that were written apart: a commit
and a rollback; a squash and a cache request; a merge and a drain; a snoop and a
store. These, and the orders in which unrelated latencies finish, are what the
directed tests of the repository hardly reach and what the models enumerate.
`PROJECT.json` lists them as hazards, each at its line. The Python side has no
concurrency: its hazards are bit fields at their ends, two passes that must agree,
names that collide in generated text, tails of vectors, and tests that cannot fail.

## 2. The shape of the models

One TLA+ step is one clock edge. The next value of every register is computed
from the values before it, as non-blocking assignments do; several sources of one
register are resolved in the order of the assignments in the `always` block.
What the modelled part does not decide (latencies, operand values, the order in
which the bus is granted, predictions, what the CPU asks for) is chosen anew at
each edge. Arithmetic is reduced to a few values; ECC is left out of every data
path (it is transparent without faults); thread 1 and the vector unit are left
out of `Rename`.

| Module | Models |
|---|---|
| `L1Cache` | one L1 as a function: `L1Clock(s, op, snoop, resp)` is its registers after an edge |
| `Coherence` | EXTENDS `L1Cache`: `NAgents` L1s, the L2 (an action per FSM state, combined with `Edge`, the rest of the edge), the memory |
| `CoherenceProperties` | the disciplines under which the CPUs may run, and the properties |
| `CoherenceProofs` | the theorems about the caches |
| `Insn` | the instructions of a thread reduced to class, destination and source; paths |
| `InOrder` | the abstract machine: it retires the program's instructions one after the other |
| `Rename` | EXTENDS `Insn`: ROB, RAT with checkpoint, stations, branch station, fetch PC, dispatch, CDB, commit |
| `RenameProperties` | properties, and the refinement of `InOrder` (`Architecture`) |
| `WellOrder` | sets of numbers have a least and a greatest element: induction, for the provers |
| `RenameProofs`, `InOrderProofs` | the theorems about `Rename`: its invariants; that it implements `InOrder` |
| `Lsq` | queue, store buffer, the windows of the reorder buffers, the CPU side of the L1 |
| `LsqProperties` | its properties |
| `LsqProofs`, `LsqMemoryProofs` | the theorems about slots and windows; about what loads and stores do to memory |
| `Divide`, `DivideProperties` | the iterative divider, its one slot, the windows of both threads; what a division is owed |
| `DivideProofs` | the theorems about slot and windows, the iteration, and the results |
| `Words` | machine words as sets of bit positions |
| `Formats`, `Encoding`, `Assembler` | the instruction formats; each mnemonic's encoding; the two passes of `asm64.py` and `asm.py` over a source |
| `Decoding` | fetch, `compressed_decoder.v`, `decode_control_unit.v`; `c_roundtrip_check.decode` |
| `AssemblerProperties`, `FormatsProofs` | what the assemblers owe their users; theorems about the formats |
| `TestBuilder`, `Isa` | how a test program's text is put together; what an instruction computes |
| `TestPrograms`, `TestExtensions`, `TestProgramsOoo` | the programs of the RV64 base suite, of the M, A and C suites, of the out-of-order suite |
| `Kernels`, `Kernels3` | the kernels of `bench_rvv.py` and `bench_level3.py` with their data and golden values |
| `Machine`, `ProgramProperties` | one or two threads that run a program line by line, with predictors and, on request, a fault; what the suites promise |
| `MCCoherence`, `MCRename`, `MCLsq`, `MCDivide`, `MCAssembler`, `MCPrograms` | programs, sources, jobs and VIEWs for TLC |

The correspondence of state and code is in the comments on the VARIABLES of each
module and in `map`.

* `Coherence.Next`: `\E in \in Inputs : L2Step /\ Edge(in)`. `L2Step` is the
  `case (fsm)` of `l2_cache.v`, an action per state: `Idle`, `LookUp`, `Install`,
  `SnoopOther`, `Respond` and so on. `Edge` clocks every L1 against the wires L2 drives at
  that moment (`SnoopOf`, `resp`) and commits the memory write registered before.
* `Rename.Step(B, n)`: `B` is the set of results granted the CDB, `n` the number
  of instructions retired. It includes every consequence at the edge: marks,
  captures, table updates, redirect or fetch, dispatch of a group or not. `torn`
  is a history variable, see 5.
* `Lsq.Next`: commit count, branch outcome, dispatch, hit on the second port, CDB
  grant, L1 progress and arriving operands are chosen; `SlotsNext`, `OutNext`,
  `SbufNext`, `DrainNext`, `L1Next`, `RobNext` and `WindowNext` give the registers.
* `Divide.Next`: `Edge(finished, grant, missed)` with the other instructions that
  finish, whether the CDB takes the result, and the branches that were mispredicted.
  `FuNext` is the `case (state)` of `div_fu.v`, `SlotNext` the always block of
  `div_rs.v`. An entry of `rob` also says what the program means by the instruction
  (operation, operands), which is what a result is compared with. `program` is
  chosen in Init.
* `Assembler`: `stage` walks through `pass1` (an action per line: label, address),
  `pass2` (an action per line: the words of `_encode`), `write`, `done` or `refused`
  (ValueError). A source line is a record of mnemonic, operands, target; splitting
  text into tokens is not modelled. Words are sets, so that 64-bit constants need
  no integers beyond TLC's and the formats can be proved about.
* `Machine.Next`: some thread that is not halted executes its next line (`Step`);
  `Finish` stutters when all have. A `job` is a program per thread, data memory,
  golden results, and `fault`: the defect of the core it runs on, `"none"` for a
  sound one. On a sound core predictions have no effect; on one with
  `fault = "no_squash"` a mispredicted path runs on for `Window` lines.

## 3. Runs

A run with a VIEW tells states apart only by what a later edge or a property can
still read (the VIEWs drop idle registers and entries that are out of flight);
smaller instances of `Rename` and `Lsq` gave the same verdicts without one.

| Run | Instance | Shows |
|---|---|---|
| `cache_free` | 2 agents, 2 lines in 1 set | CPUs do anything: types, `ServesWaitingRequest`, `MissSetInvalid`, and (with a ticking clock) `RequestsAnswered` |
| `cache_scripted` | 3 agents, 3 lines, 2 sets | operations one after the other, prefetches drained: MESI, inclusion, latest data, no store lost |
| `cache_private` | 2 agents, 3 lines, 2 sets | CPUs run freely on lines of their own, prefetches cross over: own data is the latest, nothing is lost, L2 writes through |
| `cache_upgrade` | 2 agents, 2 words | **violation**: see 5 |
| `rename_core` | 2 registers, ROB 3, 3-wide, 2 buses, every class of instruction | window, renaming, wake-up; refinement of `InOrder`, with links broadcast once and fetch resumed on the right path; precise halt; the oldest instruction retires |
| `rename_rollback` | 1 register | **violation**: see 5 |
| `lsq_order` | window 2, 2 slots, 2 buffer entries, 2 doublewords | loads read what program order says; queue and window agree; stores settle in order |
| `lsq_width` | window 3 | **violation**: see 5 |
| `divide` | 2 threads, window 2, 4-bit registers, 2-bit words | all 2048 divisions alone; two of different length among instructions that feed and squash them: iteration invariant, slot and window agree, results are those of `execute.v` but for the two kinds of division named in 5, the oldest instruction retires |
| `divide_zero` | 1 thread, each division alone | **violation**: see 5 |
| `asm_core` | both assemblers; every mnemonic with operands at the corners of its fields, all 49152 halfwords of the compressed quadrants, li of 100 constants, 1800 programs of three lines | layout of pass 1 is that of pass 2; the core decodes what the source says; only jumps that cannot reach are refused; li loads; the port agrees |
| `programs` | 202 jobs: every program of five suites, every kernel at bench size and at every small size with its tail, 14 broken cores | a sound core passes under every interleaving of two threads; kernels leave the golden memory; accesses aligned; the text assembles; each fault is caught; everything ends |

**Why the bounds suffice.** The caches are direct-mapped, so two sets are all
the interaction there is between sets, and one line more than sets gives
conflicts, evictions and back-invalidations; three agents are the largest fabric
the repository builds (`tb_l2_three_way.v`). With one word per line a store
replaces the line; `cache_upgrade` needs two, and a one-agent instance with two
words was checked for `CopiesLatest`. In `Rename` the head moves on by one,
two or three, so that groups wrap around a ring of three, two buses for three results make
results wait, and two registers that read each other make every renaming chain
of length two. Without jumps the same properties, and with one register every
class of instruction, were checked at ROB depth 4 (152 610 and 501 154 states);
all but the progress are proved for every depth (4). In
`Lsq` two slots let one load overtake another access, two buffer entries let a
new store stand beside one that drains, and a third doubleword would only repeat the second. The
same properties were checked with a window of three without branches (444 864
states), with branches and one doubleword (369 024 states), and with two threads
on one slot (52 640 states); they are not kept as runs because they ask nothing
new. `NData`, `NVals` = 2 tell a stale value from a fresh one.

In `Divide` a window of two holds a branch or producer and the division that
depends on it, and two threads with one slot make each squash meet a dispatch of
the other; four-bit registers have words of two bits with sign, overflow and
padding. A mix with a third division and two producer values (691 412 states)
gave the same verdicts. `asm_core` takes register numbers and immediates at the
ends of every field and alternating bits in between; each bit of a field is set in
one and clear in another, and the theorems of `FormatsProofs` cover the formats for
every offset. In `programs` nothing is bounded but `Window` = 2, the lines of a
wrong path that take effect on a core without squash: the directed tests put the
damage there. The benches run sizes that are multiples of the four lanes, so their
tails never run; the jobs add every size from 1 to 9.

**Fairness.** `RequestsAnswered` needs only WF of `Next`: the clock ticks, and
everything in the hierarchy takes a bounded number of ticks. With three agents
it fails: the fixed priority of L2 lets the first two starve the third.
`OldestRetires` needs the clock, the CDB arbiter to grant the oldest instruction
(what the age scan of riscv64_ooo_proc.v:1032-1107 does) and the store buffer
not to stay full for ever (`AwaitsGrant` and `AwaitsPort` spell WF out: a result
waits until it is granted, a store until it is taken, and some edge always changes
something). `Divide`'s `OldestRetires` assumes the same of the arbiter, for each
thread (`Answerable`). `Ends` needs every thread to go
on, and spells out WF of each thread's `Step` in the same way, because a step is
possible exactly until the thread halts. No liveness property assumes strong
fairness.

**Deadlock** is checked in every run but `asm_core`, where an assembly ends.
`programs` has a `Finish` step for threads that have all halted, so a thread
without a next line would be a deadlock.

## 4. Proofs

A passing run shows a property on a small instance, a theorem for every value of the
constants. 23 of the properties of the runs are theorems.

| Module | Theorem | States |
|---|---|---|
| `CoherenceProofs` | `TypeCorrect`, `RequestProtocol`, `MissSetAlwaysInvalid`, `L2WriteThrough` | `TypeOK`, `ServesWaitingRequest`, `MissSetInvalid`, `WriteThrough`, whatever the CPUs do |
| | `ScriptedSingleWriter`, `ScriptedInclusive`, `ScriptedCopiesLatest`, `ScriptedNothingLost` | `SingleWriter`, `Inclusive`, `CopiesLatest`, `NothingLost`, under `ScriptedSpec` |
| | `PrivateHomeCopyLatest`, `PrivateNothingLost` | `HomeCopyLatest`, `NothingLost`, under `PrivateSpec` |
| `RenameProofs` | `TypesOK`, `WindowAlwaysOK`, `HaltAlwaysPrecise`, `RenamingAlwaysOK`, `WakeupNeverLost` | `TypeOK`, `WindowOK`, `HaltIsPrecise`, `RenamingOK`, `NoLostWakeup` |
| `InOrderProofs` | `InOrderUntilTorn`, `CoreExecutesInOrder` | `ExecutesInOrder`: the core implements `InOrder` |
| `LsqProofs` | `QueueTypesOK`, `SlotsAlwaysMatch` | `TypeOK`, `SlotsMatchWindow` |
| `LsqMemoryProofs` | `LoadsAlwaysSeeProgramOrder`, `StoresAlwaysSettle` | `LoadsSeeProgramOrder`, `StoresSettleInOrder`, if overlapping stores have one width |
| `DivideProofs` | `SlotAlwaysMatches`, `TypesAlways`, `DivisionPartial`, `UndisputedAlwaysRight`, `DisputedAlwaysWrong` | `SlotMatchesWindow`, `TypeOK`, `PartialDivision`, `UndisputedRight`; on the divisions it excepts as disputed the two cores always differ |
| `FormatsProofs` | ten round trips | the formats of assembler and decoder are inverse |

They assume the ASSUMEs of their models (at least one agent and set, non-empty data; a
window of at least one entry, threads 0 and 1; one bus; TLC evaluates them on each run),
and a hypothesis where the theorem states one.

**Caches, whatever the CPUs do.** `TypeCorrect` goes through the operators of `L1Cache`
one lemma each, then `EdgeType` and `L2StepType`. The inductive invariant `ProtocolInv`
of `RequestProtocol` and `MissSetAlwaysInvalid` adds the state of L2's own latches:
while L2 works on a request the requester's registers equal its latch, no answer is on
the wires, and the one answer is on them exactly in ST_COOLDOWN. Without that last part
the induction fails where an L1 drops its request and L2 is idle again: it is what
ST_COOLDOWN is for. `L2WriteThrough` follows from `WriteThroughInv`, which says what the
registered memory write holds in each FSM state. So L2's own copy is never the only one
of a store, even on the paths on which coherence itself is lost (5).

**Caches under scripted CPUs.** Coherence is what the free CPUs break (5), so its
theorems are about `ScriptedSpec`: an operation is given when no L1 is in a transaction
or about to prefetch. The four properties are not inductive, since between request and
answer data travels and the presence bits run ahead of the copies. `CInv`, checked by
TLC on three instances first (217 106, 322 329 and 9979 states), adds `OneActive` (one
agent at most is in a transaction), `Sound` (what an L1 waits for is what its operation
needs), `WritebacksHeld` (a line being written back is in L2, carries the last store and
has no copy), `Backed` (the last store is in a Modified copy, in a writeback not yet
absorbed, in the buffer of L2's eviction or in memory), `Fetching` (the set L2 fills is
nobody's) and `Answering` (once L2 answers, the other copies are already downgraded, and
the answer is what the array holds). The proof is by the state of L2: idle (`IdleStep`,
where one CPU acts: `AcceptShape` gives what an operation does to the copies as one of
`Drops`, `Stores`, `Evicts`), at work (`WorkingStep`, where the L1s only follow its
snoops) and answering (`CooldownStep`, the fill). `EvictPresentKeeps` and
`SnoopOtherKeeps` are the steps at which dirty data changes hands.

**Caches under private CPUs.** Under `PrivateSpec` each CPU runs freely, but only loads
and stores lines of which it is the home; prefetches still reach into the lines of
others. Now several L1s are in transactions at a time and requests queue at L2, so
inclusion and the presence bits say nothing any more, and neither does single writership
for lines that are only prefetched. The invariant speaks of each line and its home:
`PrivateInv` adds to types, protocol and write-through that a store that waits, a Modified
copy and a writeback are at the home (`Own`); a store that waits for BusUpgr still has the
last data under its tag, though the copy may be gone (`Upgrading`): it is with a second
writer that this fails, in `cache_upgrade`; the last store is in the home's Modified copy, in
its writeback, in the buffer of L2's eviction or in memory (`Secured`); that buffer is the
last value unless the home stored again (`Flushing`); and L2 answers with what its array
holds (`Serving`). TLC checked it first (342 058 states). `AgentInv` puts together what
concerns one L1: `UnansweredAgent` and `AnsweredAgent` follow it through an edge without
and with its answer, `HomeEdge` what that does to the last store, `SnoopTaken` what L2
takes by a snoop, `MemoryKeeps` what is in memory. The delicate case is a store at the very
edge at which a replacement in L2 takes the line: the snoop collects the value before the
store, the copy stays Modified with the one after it (`Flushing`), and it is by the later
writeback, not by L2, that the store survives.

**Rename.** `WInv` is `TypeOK`, `WindowOK` and `DoneIdle`: only a store stays in its
station once it is finished. Without `DoneIdle` an instruction could retire and leave a
station entry behind that broadcasts with a tag that is somebody else's. What the three
kinds of edge share is one relation, `Moves(B, n, d, miss)`: results `B` broadcast, `n`
retire, the group `d` enters, and on a miss everything younger than the branch goes; the
preservation of `WindowOK` is proved of it once, and `Dispatch`, `Hold` and `Rollback`
are shown to be instances. `RInv` adds `NoRd` (a store, branch or ecall names no
destination, so it can never be the youngest writer), `RenamingOK` and `NoLostWakeup`.
`RenamingOK` at a rollback rests on the checkpoint having followed every commit since it
was taken (`ClearedNames`); the one edge where it has not is `torn`.

**The refinement of `InOrder`.** `EInv` adds `Exact`: every operand in flight that is
known is what the instructions before it leave in program order, every path taken is the
one those instructions lead to, and fetch is on the path the newest instruction leads
to, as far as it is resolved. `InOrderUntilTorn` then says that each edge at which
`torn` is still false retires zero or more instructions of the program with their right
results, the edge of the torn rollback included, because what retires there is older
than the branch. `CoreExecutesInOrder` has `[]~torn` as its hypothesis: after a torn
rollback the core does compute wrong results (`rename_rollback`), and `torn` is exactly
that collision, nothing more.

**Load/store queue.** `PInv` holds of all states, after collisions too: types, that what
is in use names a thread, one unresolved branch a thread, and the L1 at work for the
load or the store that is out. `SInv` adds `SlotsHold`, until a collision: a slot names
an access in flight (`SlotsNamed`), a load or a store (`MemoryOnly`); a store in flight
and a load without a result are in exactly one slot, and a load that is finished has
left its slot (`HeldOnce`), without which a slot could outlive the entry it names and be
taken for that of a later access; the load that is out has its slot (`OutHeld`). `MInv`
adds `MemoryHolds`: the buffer holds stores, of which no two of a thread that wait
overlap (`BufferOK`); for each half of a doubleword the memory and the buffer together
hold the retired stores (`AllSettled`); and no older store of its thread stands between
memory and a load that is out or has finished (`OutClear`, `LoadsDone`). `StoresNest` is
the hypothesis: stores that overlap write the same bytes. It is needed, since
`lsq_width` is the counterexample without it, and the instance of `lsq_order` satisfies
it.

**Induction.** The provers here cannot use the induction theorems of the library that
take an operator. `WellOrder` derives from the well-founded order of finite sets that a
set of naturals has a least element; the proofs take the least counterexample. That is
how "the youngest writer" and "the oldest that waits" are found, and how in-order
execution (`ExecuteAll`, a recursive function) is followed instruction by instruction
(`Executed`).

`FormatsProofs` proves about the instruction formats, for every offset and every
register: what `b_type`, `j_type`, `s_type`, `i_type` scatter, the immediate generators
of `decode_control_unit.v` gather (`BranchRoundTrip`, `JumpRoundTrip`, `StoreRoundTrip`,
`ImmediateRoundTrip`); `compressed_decoder.v` reads the offset that `c_j` and `c_branch`
wrote (`CompressedJumpRoundTrip`, `CompressedBranchRoundTrip`), and after expansion to a
32-bit jump the core still has it, sign-extended (`CompressedJumpReaches`,
`CompressedBranchReaches`). A word is a set of bit positions, so each is a set equation:
every field is a range of positions, ranges of different fields are disjoint
(`AtInField`, `Fixed`), and the bits of the offset are followed through one field at a
time. They assume nothing. `asm_core` checks the same on whole instructions.

**The divider.** `SlotAlwaysMatches` comes first: the property is inductive together with
`Shape` (tags are tags, a window holds at most `Depth` entries, which fields there are), so
nothing of the numbers the divider computes with is needed. `WindowAfter` says who is in
flight after an edge in terms of ages, with retirement, squash and dispatch at the same
edge; `SlotKeeps` and `SlotTakes` what the always block of `div_rs.v` leaves in the slot;
`MatchKept` and `MatchDispatched` put the two sides together. The delicate case is a
misprediction at the edge at which the oldest entry retires, where the ages shift while
the survivors are counted.

The numbers need powers of two, of which the provers know no law. `PowerNat` takes 2^n for
the number of subsets of 1 .. n, a fact of the library; `PowerNext` counts them, and
`PowerSum` follows by induction. `EffectiveMeans` says which integer an operand of a
signed or unsigned, long or word division stands for, and that set-up finds its sign and
absolute value. `Steps` is the state of the divider between two edges: while it works,
`Halfway` says that the dividend is a part that has been divided, which is the quotient so
far times D plus R, and a rest that stands above that quotient in Q. `AcceptStarts` shows
that set-up begins so, with nothing divided; `IterateKeeps` (from `BringDown`, one step of
long division on naturals: the bit shifted out of Q is the next bit of the dividend, the
trial subtraction borrows exactly when the divisor does not fit, no shift overflows) that
RUN goes on so; `FinishGives` that FINISH gives what `Returned` says, by `ZeroRight`,
`OverRight` and `DivideRight`. `PartialDivision` is a consequence of `Steps`
(`HalfwayPartial`) that is not inductive alone: it says nothing of the bits that are still
to come.

`DInv` ties this to the slot. An operand that is not there comes from an older instruction
of the same thread that is in flight and not finished (`Awaited`): were it squashed, so
would the division be, and no tag is waited for that becomes somebody else's
(`AwaitedAfter`). And the division of the slot has not begun, or the divider holds the
set-up of its operands, or is giving its result, or the slot has it (`Served`), unless it
was dispatched at the edge at which a squashed one finished (5). TLC checked `DInv` on the
instance of `divide` first (179 964 states). `RightKept` and `RightDispatched` are its
preservation, without and with a division dispatched. `DInv` states the answer of every
division that is not late (`DivisionsReturned`), the disputed ones included: there it is
the zero-extended word, not what `execute.v` computes, and `UndisputedRight` leaves them
out. `DisputedWrong` shows that it leaves out no division that is right.

**Only model-checked.** Liveness (`RequestsAnswered`, both `OldestRetires`, `Ends`), which
TLAPS does not reach. The assemblers' layout and li, and the results of programs, are
folds over sources and kernels that are given as data: nothing there is general but the
formats, which are proved.

## 5. What the code does against its own comments

`violation` runs, each with a finding in `PROJECT.json`:

* **Upgrade race** (`cache_upgrade`, l1_cache.v:468). Two cores upgrade one shared
  line. The loser has been invalidated by the time its answer comes, and merges its
  store into the line it no longer owns; the store of the winner is lost.
* **Rollback against commit** (`rename_rollback`, rat.v:252). At the edge of a
  rollback the checkpoint does not yet hold the commit of that same edge.
* **Merge across widths** (`lsq_width`, lsq.v:386). After `sw`, `sd`, `sw` to one
  doubleword the last `sw` merges into the entry of the first and drains before the
  `sd`. No collision at an edge is needed. The drain by lowest index alone
  (lsq.v:522) has the same effect once a younger store takes a lower slot.
* **Word remainder by zero** (`divide_zero`, div_fu.v:158). `remuw` by zero of a word
  with its top bit set: the divider returns the word zero-extended ("already in the
  right width-extended form", div_fu.v:53), execute.v:131 and 221 sign-extend it,
  and div_fu.v:22 says "same convention". One division alone shows it;
  `DisputedAlwaysWrong` says that it is so for every width and every such word.
  `DivisionsRight` is the claim without exceptions; `divide` checks `UndisputedRight`,
  which leaves out these divisions (`Disputed`) and the late ones below.

Collisions of two mechanisms at one edge, found with the same models; the passing
runs go up to them or except them by name:

* **Snoop against store hit** (l1_cache.v:406). A store hits at the edge of a snoop
  of the same line; the later assignment wins and the snoop has no effect, against
  l1_cache.v:22. A prefetch of the other core is enough.
* **Merge against drain** (lsq.v:384). A store merges into an entry at the edge at
  which that entry goes out, and is lost.
* **Squash against issue** (lsq.v:656). A load goes out at the edge at which it is
  squashed, and its answer counts.
* **Dispatch against a squashed division** (div_rs.v:91). `div_fu` drops busy at the
  edge that raises done, so in the cycle of done the slot is not full. A division
  dispatched in it (by the other thread, say) takes the result of the squashed
  one: the capture at div_rs.v:156 comes after `have_result <= 0` at 149. The
  comment at 84-90 says full stays up until "that stale completion has nowhere left
  to land". `UndisputedRight` excepts such a division (`late`): on the mix of `divide`
  alone, where no division is disputed, `DivisionsRight` fails because of it.

Passing runs go up to such an edge: `torn` becomes TRUE in the step in which a
collision happens, the properties say `torn \/ ...`, and the CONSTRAINT `Settled`
stops exploration there. `torn` marks precisely the collisions listed (in `Rename`,
`TornRestore`; in `Lsq`, `Torn`), so that everything else is checked. `Lsq!Torn`
has one more case: the answer of the cache to a load lasts one cycle, and the slot
is freed whether or not the CDB grants it (lsq.v:661-664); "would be lost forever if
not consumed exactly this cycle" is the comment's own wording (lsq.v:548-550).

Other differences seen while modelling:

* A jalr that links and mispredicts restores a checkpoint taken before its own
  rename (riscv64_ooo_proc.v:1864, rat.v:143), so its link register is not mapped to
  it: `ExecutesInOrder` fails for programs with one, and the instances use jalr
  without a link.
* With CPUs that run freely, "nobody else can hold M" (l2_cache.v:365) and the
  inclusion argument (l2_cache.v:379) do not hold either, by the same races; even
  one CPU operation at a time is not enough once a prefetch is in flight. That is
  why `cache_scripted` also waits for prefetches.
* With a full store buffer and an entry to merge with, `store_buffer_full` depends
  on the commit it gates (lsq.v:397, riscv64_ooo_proc.v:1455-1543): a combinational
  loop with two stable values. `Lsq!StoreOK` allows both.
* When both threads resolve a branch at one edge, the history table takes thread
  0's update only (riscv64_ooo_proc.v:1675). Accuracy only.
* asm64.py:213 says each compressed encoder mirrors the decoder "exactly, in
  reverse"; operands that select another instruction (`c.mv rd, x0`) or lose low bits
  (an offset that is no multiple of its scale) are encoded without complaint.
  `Documented` lists what a caller must respect.
* asm64.py:426: li builds any constant "into rd"; not if rd is its scratch x28.
* The comment of `t_mispredict_forward_taken` (build_tests_ooo.py:774-783) says it
  fails without squash; the taken path overwrites the register the wrong path
  wrote, so it passes on a core that redirects but does not squash. And since the
  branch of `check_eq` is forward and predicted not taken, a core that never
  redirects a mispredicted conditional branch passes every check of every suite.
  The directed jobs leave both out.
* `t_mul_rs_exhaustion` (build_tests_ooo.py:591) says each mul depends on an li in
  flight; an li is eight instructions and the ROB has eight entries.
  `t_smt_tag_collision_stress` (1010) looks at one register of each thread only.
* `t_c_branch_jump` (build_tests_c.py:163) defines the label `bad` twice; the second
  definition serves both branches. `job.twice` excepts it from `TextAssembles`.
* riscv64_proc.v:257-277: "so does any other store" drops the reservation; `vse32.v`
  does not raise `mem_write` (decode_control_unit.v:357) and keeps it.

## 6. Not modelled, and the plan

Done, in this order: coherence (checked; proved under scripted CPUs), renaming with its
refinement (checked and proved), the load/store queue (checked and proved), the assemblers
(checked and, for the formats, proved), the test programs and kernels (checked), the
divider (checked and proved), private lines under free CPUs (checked and proved). Next:

1. The CDB arbiter and the banks of stations shared by two threads, to replace the
   free choice of `Grants` and the fairness it stands for; the commit port for stores
   shared by two threads is in `Lsq`, but the kept run has one thread.
2. The front end: `icache` and the predictors' ports as suppliers of `Predictions`.
3. `axi_ooo_ctrl`, the SECDED code over a short word, `vec_rat` with `vec_rs`.

Left out for good: the synthesis copies and the RV32I core; floating point and the
vector arithmetic the benches do not use, with their suites (`build_tests_f.py`,
`build_tests_d.py`, `build_tests_v*.py`, `build_tests_lanes8.py`); `bench_ooo.py` and
the builders that only drive a simulator; instruction memories and board wiring;
`lockstep_dual_core.v` (a comparison of two deterministic copies). `PROJECT.json`
gives the reason for each.
