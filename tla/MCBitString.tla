---------------------------- MODULE MCBitString ----------------------------
(***************************************************************************)
(* Inputs for TLC: strings of up to 20 bytes, of which a few bits matter.  *)
(***************************************************************************)
EXTENDS BitString

CONSTANTS
  Starts,   \* the first bit of a range
  Ends,     \* its end; those at a byte are also the ends of keys
  Marks,    \* the bits that may be the first difference or the first set bit
  Places,   \* the addresses of the first string
  Offsets   \* how much further the second one is

Ranges == {r \in Starts \X Ends : r[1] < r[2]}
Within(r) == {m \in Marks : r[1] <= m /\ m < r[2]} \union {r[2]}
After(r) == {r[2], r[2] + 1, r[2] + 6}
Before(r) == IF r[1] = 0 THEN {} ELSE {r[1] - 1}

\* A string whose first set bit in the range is m; there are others out of it.
\* A range of find_fs is what is left of a key, or as long as the key.
Keys == {k \in Ends : k % 8 = 0}
Find(m, p, r, len) ==
  [fn |-> "find_fs", a |-> {m, m + 3} \union After(<<r[1], r[1] + len>>) \union Before(r), b |-> {},
   adr_a |-> p, adr_b |-> 0, start |-> r[1], len |-> len, key |-> r[2]]
FindInputs ==
  UNION {UNION {
    {Find(m, p, r, len) : m \in Within(<<r[1], r[1] + len>>), p \in Places} :
    len \in {r[2] - r[1], r[2]}} : r \in {q \in Starts \X Keys : q[1] <= q[2]}}

\* Two strings equal up to bit d, all zeros or with some ones; the smaller
\* one's next set bit is q.
Ones(d, some) == IF some THEN {i \in 0 .. d - 1 : i % 11 = 2} ELSE {}
Low(r, d, q, some) ==
  Ones(d, some) \union (IF q = r[2] THEN {q + 1} ELSE {q, q + 2}) \union Before(r)
High(r, d, some) == (Ones(d, some) \ Before(r)) \union {d, d + 1} \union After(r)
Pair(r, p, o, low, high, swap) ==
  [fn |-> "diff_identify", a |-> IF swap THEN high ELSE low, b |-> IF swap THEN low ELSE high,
   adr_a |-> p, adr_b |-> (p + o) % 8, start |-> r[1], len |-> r[2] - r[1]]
DiffInputs ==
  UNION {UNION {
    {Pair(r, p, o, Low(r, d, q, some), High(r, d, some), swap) :
       q \in {m \in Within(r) : d < m} \union {r[2]},
       p \in Places, o \in Offsets, some \in BOOLEAN, swap \in BOOLEAN} :
    d \in Within(r)} : r \in Ranges}

MCInputs == FindInputs \union DiffInputs
=============================================================================
