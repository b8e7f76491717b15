------------------------------- MODULE Words -------------------------------
(***************************************************************************)
(* Machine words as the sets of the positions of their one bits: OR is     *)
(* union, a shift or a bit field moves positions.  A word has no width of  *)
(* its own; the operators that need one take it.  (A 32-bit word as an     *)
(* integer would not fit the integers of TLC, and a theorem about a bit    *)
(* field of a set is a theorem about membership.)                          *)
(***************************************************************************)
EXTENDS Integers

\* The low w bits of the integer n, in two's complement: n & ((1 << w) - 1).
Bits(n, w) == {i \in 0 .. w - 1 : (n \div 2^i) % 2 = 1}

\* The bits hi..lo of x with bit lo moved to position to:
\* ((x >> lo) & mask) << to, or x[hi:lo] inside a concatenation.
Move(x, hi, lo, to) == {e \in to .. to + hi - lo : e - to + lo \in x}

\* The bits hi..lo of x, as a word.
Field(x, hi, lo) == Move(x, hi, lo, 0)

\* The w-bit number n at position k: n << k.
At(n, w, k) == Move(Bits(n, w), w - 1, 0, k)

\* {(to - w){x[w-1]}}, x}: bit w - 1 of x repeated up to position to - 1.
Extend(x, w, to) == x \cup (IF w - 1 \in x THEN w .. to - 1 ELSE {})

\* The integer two's complement reads from the low w bits of x (w < 31).
Unsigned(x, w) == LET sum[i \in -1 .. w - 1] ==
                        IF i = -1 THEN 0
                        ELSE sum[i - 1] + IF i \in x THEN 2^i ELSE 0
                  IN  sum[w - 1]
Signed(x, w)   == Unsigned(x, w) - IF w - 1 \in x THEN 2^w ELSE 0

Xor(x, y) == {i \in x \cup y : ~(i \in x /\ i \in y)}

\* The low w bits of x + y and x - y: the digits without the carries (the
\* borrows), then those carries one position up.
Plus(x, y, w) ==
  LET add[p \in (SUBSET Int) \X (SUBSET Int)] ==
        IF p[2] = {} THEN p[1]
        ELSE add[<<Xor(p[1], p[2]), {i + 1 : i \in {k \in p[2] : k \in p[1] /\ k < w - 1}}>>]
  IN  add[<<{i \in x : i < w}, {i \in y : i < w}>>]

Minus(x, y, w) ==
  LET sub[p \in (SUBSET Int) \X (SUBSET Int)] ==
        IF p[2] = {} THEN p[1]
        ELSE sub[<<Xor(p[1], p[2]), {i + 1 : i \in {k \in p[2] : k \notin p[1] /\ k < w - 1}}>>]
  IN  sub[<<{i \in x : i < w}, {i \in y : i < w}>>]
=============================================================================
