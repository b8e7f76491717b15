---------------------------- MODULE TestBuilder ----------------------------
(***************************************************************************)
(* How the suites under verify/ put a program together: its text as a      *)
(* sequence of lines, check_eq's comparisons, the pass code and the fail   *)
(* handlers behind it, and the preloaded data memory.  A line is the tuple *)
(* of a mnemonic and its operands in assembly order, registers by number,  *)
(* <<"at", l>> the label l; bnez, mv and j are written as bne, addi, jal.  *)
(***************************************************************************)
EXTENDS Words, Sequences, SequencesExt

XLEN == 64
Word(n)   == Bits(n, 31) \cup IF n < 0 THEN 31 .. XLEN - 1 ELSE {}
Word32(n) == Field(Word(n), 31, 0)

\* Constants are words; the other immediates are integers.
li(rd, n)    == <<"li", rd, Word(n)>>
lui64(rd, w) == <<"li", rd, w>>          \* li of a constant beyond 31 bits
at(label)    == <<"at", label>>
j(label)     == <<"jal", 0, label>>
rvc(line)    == <<"c", line>>            \* line, in its compressed form

PASS == 16 .. 31                         \* 0xFFFF0000

----------------------------------------------------------------------------
(* TestBuilder (build_tests64.py, build_tests_ooo.py). *)

\* check_eq(reg, expected) as a line of the body; source() expands it.
eq(reg, n)   == <<"check", reg, Word(n)>>
eqw(reg, w)  == <<"check", reg, w>>
fail(cid)    == "fail" \o ToString(cid)

check_eq(reg, expected, cid) == << <<"li", 30, expected>>, <<"bne", reg, 30, fail(cid)>> >>

Checks(body) == {i \in 1 .. Len(body) : body[i][1] = "check"}
Cid(body, i) == Cardinality({k \in Checks(body) : k <= i})

Handlers(n) ==
  FlattenSeq([cid \in 1 .. n |-> <<at(fail(cid)), li(31, cid), <<"ecall">> >>])

source(body) ==
  FlattenSeq([i \in 1 .. Len(body) |->
                IF i \in Checks(body) THEN check_eq(body[i][2], body[i][3], Cid(body, i))
                ELSE <<body[i]>>])
    \o <<lui64(31, PASS), <<"ecall">> >> \o Handlers(Cardinality(Checks(body)))

\* The program thread 1 runs when a test is about thread 0.
idle_thread == <<lui64(31, PASS), <<"ecall">> >>

----------------------------------------------------------------------------
(* Preloaded data memory: doubleword index |-> word. *)

\* bench_common.pack_i32_array: two elements to a doubleword, the even one low.
pack_i32_array(values) ==
  [k \in 0 .. (Len(values) - 1) \div 2 |->
     Word32(values[2 * k + 1])
       \cup IF 2 * k + 2 <= Len(values) THEN Move(Word32(values[2 * k + 2]), 31, 0, 32) ELSE {}]

array(base, values) ==
  LET packed == pack_i32_array(values)
  IN  [d \in {base \div 8 + k : k \in DOMAIN packed} |-> packed[d - base \div 8]]

\* preload_mem: arrays at their bases, a later one over an earlier one.
preload_mem(arrays) ==
  FoldLeft(LAMBDA dmem, a : array(a[1], a[2]) @@ dmem, <<>>, arrays)
=============================================================================
