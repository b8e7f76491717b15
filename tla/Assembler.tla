----------------------------- MODULE Assembler -----------------------------
(***************************************************************************)
(* The two assemblers of the repository, Assembler64 (RV64I/verify/        *)
(* asm64.py) and Assembler (verify/asm.py), as the state machine assemble  *)
(* and the file writers are: a first pass over the parsed lines gives each *)
(* its address and each label a value, a second pass encodes each line at  *)
(* that address, the writer lays the items down in instruction memory.     *)
(* The passes agree only because the SIZE the first one assumes is the     *)
(* size of what the second one emits.  Splitting a text into lines (parse) *)
(* is abstracted: the sources are sequences of lines (module Encoding).    *)
(***************************************************************************)
EXTENDS Encoding

CONSTANT Jobs        \* the pairs <<tool, source>> to assemble

VARIABLES tool,      \* "asm64" or "asm"
          lines,     \* the parsed source (self.lines)
          stage,     \* the loop of assemble being run, or how it ended
          at,        \* the position of that loop
          addr,      \* the first pass's running address
          labels,    \* self.labels
          expanded,  \* the lines that emit code, with their addresses
          items,     \* the encoded items, in order
          memory     \* the lines of the .mem file

vars == <<tool, lines, stage, at, addr, labels, expanded, items, memory>>

Init ==
  /\ \E job \in Jobs : tool = job[1] /\ lines = job[2]
  /\ stage = "pass1" /\ at = 1 /\ addr = 0 /\ labels = <<>>
  /\ expanded = <<>> /\ items = <<>> /\ memory = <<>>

\* Mutant of instr_size: li counted as lui and addi by both tools.
instr_size_pair(line) == IF line.form = "c" THEN 2 ELSE IF line.mnem = "li" THEN 8 ELSE 4

\* Assembler64._instr_size and 4 * Assembler._expansion_count.
instr_size(line) ==
  CASE line.form = "c" -> 2
    [] line.form # "c" /\ line.mnem = "li" -> IF tool = "asm64" THEN 32 ELSE 8
    [] line.form # "c" /\ line.mnem # "li" -> 4

\* The first pass, one line.  A label seen before is silently moved here.
PassOne ==
  /\ stage = "pass1" /\ at <= Len(lines)
  /\ LET line == lines[at]
     IN  /\ labels' = IF line.label = "" THEN labels ELSE (line.label :> addr) @@ labels
         /\ IF line.mnem = ""
            THEN UNCHANGED <<expanded, addr>>
            ELSE /\ expanded' = Append(expanded, [addr |-> addr, line |-> line])
                 /\ addr' = addr + instr_size(line)
  /\ at' = at + 1
  /\ UNCHANGED <<tool, lines, stage, items, memory>>

EndOfPassOne ==
  /\ stage = "pass1" /\ at > Len(lines)
  /\ stage' = "pass2" /\ at' = 1
  /\ UNCHANGED <<tool, lines, addr, labels, expanded, items, memory>>

Encoded(e) ==
  IF tool = "asm64" THEN encode64(e.addr, labels, e.line) ELSE encode32(e.addr, labels, e.line)

\* The second pass, one line: a ValueError ends the assembly, nothing is written.
PassTwo ==
  /\ stage = "pass2" /\ at <= Len(expanded)
  /\ LET new == Encoded(expanded[at])
     IN  IF new = ValueError
         THEN stage' = "refused" /\ UNCHANGED <<items, at>>
         ELSE items' = items \o new /\ at' = at + 1 /\ UNCHANGED stage
  /\ UNCHANGED <<tool, lines, addr, labels, expanded, memory>>

EndOfPassTwo ==
  /\ stage = "pass2" /\ at > Len(expanded)
  /\ stage' = "write" /\ at' = 1
  /\ UNCHANGED <<tool, lines, addr, labels, expanded, items, memory>>

\* write_imem_halfwords: a 32-bit item is two lines, the low half first.
write_imem_halfwords(item) ==
  IF item.size = 2 THEN <<Field(item.bits, 15, 0)>>
  ELSE <<Field(item.bits, 15, 0), Field(item.bits, 31, 16)>>

\* write_mem: one line of 32 bits per word.
write_mem(item) == <<Field(item.bits, 31, 0)>>

Write ==
  /\ stage = "write" /\ at <= Len(items)
  /\ memory' = memory \o (IF tool = "asm64" THEN write_imem_halfwords(items[at])
                          ELSE write_mem(items[at]))
  /\ at' = at + 1
  /\ UNCHANGED <<tool, lines, stage, addr, labels, expanded, items>>

EndOfWrite ==
  /\ stage = "write" /\ at > Len(items)
  /\ stage' = "done" /\ at' = 1
  /\ UNCHANGED <<tool, lines, addr, labels, expanded, items, memory>>

Next == PassOne \/ EndOfPassOne \/ PassTwo \/ EndOfPassTwo \/ Write \/ EndOfWrite

Spec == Init /\ [][Next]_vars
=============================================================================
