----------------------------- MODULE BitString -----------------------------
(***************************************************************************)
(* The comparison of keys as strings of bits, in splitter.c:               *)
(*                                                                         *)
(*   find_fs(a, start, len): the first set bit of a in a range;            *)
(*   diff_identify(a, b, start, len): the first bit where a and b differ,  *)
(*   and the first set bit of the smaller one from there on.               *)
(*                                                                         *)
(* Both go through memory from the most significant bit of a byte to its   *)
(* least, in words of 8, 4, 2 and 1 bytes as the addresses and the bytes   *)
(* left allow.  One step is one turn of a loop.  A string is the set of    *)
(* the positions of its set bits; addresses count modulo 8.                *)
(***************************************************************************)
EXTENDS Integers, FiniteSetsExt

CONSTANT
  Inputs    \* the calls: records of fn, a, b, adr_a, adr_b, start and len,
            \* and for find_fs key, where the key in a ends

\* A key is a number of whole bytes.  find_fs is given the bits that are left
\* of it for a length, or at line 2214 the length of the key: that range goes
\* past the key, to what follows it in memory, and may end inside a byte.
ASSUME InputsAssumption ==
  \A i \in Inputs :
    /\ i.fn \in {"find_fs", "diff_identify"}
    /\ i.a \subseteq Nat /\ i.b \subseteq Nat
    /\ i.adr_a \in 0 .. 7 /\ i.adr_b \in 0 .. 7
    /\ i.start \in Nat /\ i.len \in Nat
    /\ i.fn = "find_fs" => /\ i.key \in Nat /\ i.key % 8 = 0 /\ i.start <= i.key
                           /\ i.len \in {i.key - i.start, i.key}

VARIABLES
  in,       \* the call
  pc,       \* "find_fs", "diff_identify"; "plan", "compare", "scan", "done"
  at,       \* the byte the pointers stand on
  n, bits,  \* bytes and then bits left in this loop
  rest,     \* bytes left after it, with the last bits, or None
  width,    \* bytes of a word in this loop
  wide,     \* and when the rest is scanned
  str,      \* the string scanned for its first set bit
  out,      \* the result of find_fs; smallfs of diff_identify
  pos,      \* pos of diff_identify: all before it is equal
  ret       \* -1, 0 or 1: a is smaller, equal so far, b is smaller

vars == <<in, pc, at, n, bits, rest, width, wide, str, out, pos, ret>>

None == -1

\* The word of w bytes at byte k of s, and its first k bits.
Word(s, k, w) == {i \in s : 8 * k <= i /\ i < 8 * (k + w)}
Lead(s, k, nr) == {i \in s : 8 * k <= i /\ i < 8 * k + nr}
From(s, i) == {j \in s : i <= j}
Differ(s, t) == (s \ t) \union (t \ s)

End == in.start + in.len
BitStart == in.start % 8
BitEnd == (BitStart + in.len) % 8
LenByte == (BitStart + in.len) \div 8

\* How many bytes to the next address that is a multiple of w.
Gap(adr, k, w) == (w - ((adr + k) % w)) % w

Init ==
  /\ in \in Inputs
  /\ pc = in.fn
  /\ at = in.start \div 8
  /\ n = 0 /\ bits = 0 /\ rest = None /\ width = 1 /\ wide = 8
  /\ str = in.a
  /\ out = in.start /\ pos = in.start /\ ret = 0
-----------------------------------------------------------------------------
\* A loop over k bytes in words of w, and nr bits; then r bytes, if any.
Loop(ph, k, nr, w, r) ==
  pc' = ph /\ n' = k /\ bits' = nr /\ width' = w /\ rest' = r

Finish == pc' = "done" /\ UNCHANGED <<n, bits, width, rest>>

\* A loop over left bytes and the last bits, one byte at a time up to the
\* next multiple of w.  The last bits are dropped if that comes too late.
ToAligned(ph, gap, left, w, last) ==
  IF gap = 0 THEN Loop(ph, left, BitEnd, w, None)
  ELSE IF left < gap THEN Loop(ph, left, last, 1, None)
  ELSE Loop(ph, gap, 0, 1, left - gap)

\* find_fs, up to the first whole byte
FindHead ==
  LET first == From(Word(str, at, 1), in.start)
      k == IF BitStart = 0 THEN at ELSE at + 1
      left == IF BitStart = 0 THEN LenByte ELSE LenByte - 1
  IN  /\ pc = "find_fs"
      /\ IF LenByte = 0
         THEN /\ out' = IF first \intersect Lead(str, at, BitEnd) = {} THEN End ELSE Min(first)
              /\ Finish
              /\ UNCHANGED at
         ELSE IF BitStart # 0 /\ first # {}
         THEN out' = Min(first) /\ Finish /\ UNCHANGED at
         ELSE /\ out' = IF BitStart = 0 THEN out ELSE out + 8 - BitStart
              /\ at' = k
              /\ ToAligned("scan", Gap(in.adr_a, k, 8), left, 8, 0)
      /\ UNCHANGED <<in, wide, str, pos, ret>>

\* a word counts as one byte
MutScan ==
  /\ pc = "scan" /\ n >= width
  /\ IF Word(str, at, width) # {}
     THEN out' = out + (Min(Word(str, at, width)) - 8 * at) /\ Finish /\ UNCHANGED at
     ELSE /\ out' = out + 8
          /\ at' = at + width
          /\ Loop("scan", n - width, bits, width, rest)
  /\ UNCHANGED <<in, wide, str, pos, ret>>

\* the loop runs once too often
MutScanBound ==
  /\ pc = "scan" /\ n >= width - 1
  /\ IF Word(str, at, width) # {}
     THEN out' = out + (Min(Word(str, at, width)) - 8 * at) /\ Finish /\ UNCHANGED at
     ELSE /\ out' = out + 8 * width
          /\ at' = at + width
          /\ Loop("scan", n - width, bits, width, rest)
  /\ UNCHANGED <<in, wide, str, pos, ret>>

\* The loops of find_fs and find_smallfs: a word with a set bit has the
\* answer, a word of zeros is passed.
Scan ==
  /\ pc = "scan" /\ n >= width
  /\ IF Word(str, at, width) # {}
     THEN out' = out + (Min(Word(str, at, width)) - 8 * at) /\ Finish /\ UNCHANGED at
     ELSE /\ out' = out + 8 * width
          /\ at' = at + width
          /\ Loop("scan", n - width, bits, width, rest)
  /\ UNCHANGED <<in, wide, str, pos, ret>>

\* a last odd byte has no case
MutNarrow ==
  /\ pc \in {"scan", "compare"} /\ n < width /\ width > 2
  /\ width' = width \div 2
  /\ UNCHANGED <<in, pc, at, n, bits, rest, wide, str, out, pos, ret>>

\* The next smaller word: the cases of a switch that fall through.
Narrow ==
  /\ pc \in {"scan", "compare"} /\ n < width /\ width > 1
  /\ width' = width \div 2
  /\ UNCHANGED <<in, pc, at, n, bits, rest, wide, str, out, pos, ret>>

\* a bit that follows the range is taken for an answer
MutScanBits ==
  LET last == Word(str, at, 1)
  IN  /\ pc = "scan" /\ n = 0 /\ width = 1
      /\ out' = IF bits = 0 THEN out
                ELSE IF last = {} THEN out + bits ELSE out + (Min(last) - 8 * at)
      /\ IF rest = None THEN Finish ELSE Loop("scan", rest, BitEnd, wide, None)
      /\ UNCHANGED <<in, at, wide, str, pos, ret>>

\* The last bits, and the bytes after the gap.
ScanBits ==
  LET last == Lead(str, at, bits)
  IN  /\ pc = "scan" /\ n = 0 /\ width = 1
      /\ out' = IF last = {} THEN out + bits ELSE out + (Min(last) - 8 * at)
      /\ IF rest = None THEN Finish ELSE Loop("scan", rest, BitEnd, wide, None)
      /\ UNCHANGED <<in, at, wide, str, pos, ret>>
-----------------------------------------------------------------------------
\* A difference at bit d: the string without it is the smaller one.
Smaller(d) == IF d \in in.a THEN in.b ELSE in.a
Sign(d) == IF d \in in.a THEN 1 ELSE -1

\* It lies in a byte, whose bits end at e: the smaller string's next set bit
\* may be there; if not, more says what is done.
Mismatch(d, e, more) ==
  LET s == {i \in Smaller(d) : d <= i /\ i < e}
  IN  /\ pos' = d
      /\ ret' = Sign(d)
      /\ str' = Smaller(d)
      /\ IF s # {} THEN out' = Min(s) /\ Finish /\ UNCHANGED at
         ELSE out' = e /\ more

\* diff_identify, up to the first whole byte; bit_inbyte_cmp
DiffHead ==
  LET e == IF LenByte = 0 THEN End ELSE 8 * (at + 1)
      diff == {i \in Differ(in.a, in.b) : in.start <= i /\ i < e}
      Rest(d) ==
        IF LenByte = 0 THEN Finish /\ UNCHANGED at
        ELSE /\ at' = at + 1
             /\ ToAligned("scan",
                  Gap(IF d \in in.a THEN in.adr_b ELSE in.adr_a, at + 1, 8), LenByte - 1, 8, BitEnd)
  IN  /\ pc = "diff_identify"
      /\ IF LenByte # 0 /\ BitStart = 0
         THEN Loop("plan", LenByte, 0, 1, None) /\ UNCHANGED <<at, str, out, pos, ret>>
         ELSE IF diff # {} THEN Mismatch(Min(diff), e, Rest(Min(diff)))
         ELSE /\ pos' = e
              /\ IF LenByte = 0 THEN Finish /\ UNCHANGED at
                 ELSE at' = at + 1 /\ Loop("plan", LenByte - 1, 0, 1, None)
              /\ UNCHANGED <<str, out, ret>>
      /\ UNCHANGED <<in, wide>>

\* The widest word on which both addresses can be aligned.
Plan ==
  LET fits == {w \in {1, 2, 4, 8} : (in.adr_a + at) % w = (in.adr_b + at) % w}
  IN  /\ pc = "plan"
      /\ ToAligned("compare", Gap(in.adr_a, at, Max(fits)), n, Max(fits), BitEnd)
      /\ wide' = Max(fits)
      /\ UNCHANGED <<in, at, str, out, pos, ret>>

\* align_compare: equal words are passed; words that differ are gone through
\* byte by byte.
CompareWord ==
  /\ pc = "compare" /\ n >= width
  /\ IF Word(in.a, at, width) = Word(in.b, at, width)
     THEN /\ pos' = pos + 8 * width
          /\ at' = at + width
          /\ Loop("compare", n - width, bits, width, rest)
     ELSE width > 1 /\ Loop("compare", n, bits, 1, rest) /\ UNCHANGED <<at, pos>>
  /\ UNCHANGED <<in, wide, str, out, ret>>

\* the byte that differs is scanned again
MutCompareByte ==
  LET diff == Word(Differ(in.a, in.b), at, 1)
  IN  /\ pc = "compare" /\ n >= 1 /\ width = 1 /\ diff # {}
      /\ Mismatch(Min(diff), 8 * (at + 1),
                  UNCHANGED at /\ Loop("scan", n - 1, bits, 1, rest))
      /\ UNCHANGED <<in, wide>>

CompareByte ==
  LET diff == Word(Differ(in.a, in.b), at, 1)
  IN  /\ pc = "compare" /\ n >= 1 /\ width = 1 /\ diff # {}
      /\ Mismatch(Min(diff), pos + 8,
                  at' = at + 1 /\ Loop("scan", n - 1, bits, 1, rest))
      /\ UNCHANGED <<in, wide>>

\* the bits after the range are compared too
MutCompareBits ==
  LET diff == IF bits = 0 THEN {} ELSE Word(Differ(in.a, in.b), at, 1)
  IN  /\ pc = "compare" /\ n = 0 /\ width = 1
      /\ IF diff # {} THEN Mismatch(Min(diff), pos + bits, Finish /\ UNCHANGED at)
         ELSE /\ pos' = pos + bits
              /\ out' = IF bits = 0 THEN out ELSE pos + bits
              /\ IF rest = None THEN Finish ELSE Loop("compare", rest, BitEnd, IF wide = 4 THEN 8 ELSE wide, None)
              /\ UNCHANGED <<at, str, ret>>
      /\ UNCHANGED <<in, wide>>

\* The last bits, and the bytes after the gap.
CompareBits ==
  LET diff == Lead(Differ(in.a, in.b), at, bits)
  IN  /\ pc = "compare" /\ n = 0 /\ width = 1
      /\ IF diff # {} THEN Mismatch(Min(diff), pos + bits, Finish /\ UNCHANGED at)
         ELSE /\ pos' = pos + bits
              /\ out' = IF bits = 0 THEN out ELSE pos + bits
              /\ IF rest = None THEN Finish ELSE Loop("compare", rest, BitEnd, IF wide = 4 THEN 8 ELSE wide, None)
              /\ UNCHANGED <<at, str, ret>>
      /\ UNCHANGED <<in, wide>>

Step ==
  \/ FindHead \/ Scan \/ Narrow \/ ScanBits
  \/ DiffHead \/ Plan \/ CompareWord \/ CompareByte \/ CompareBits

Done == pc = "done" /\ UNCHANGED vars

Next == Step \/ Done

\* The loops run on.
Spec == Init /\ [][Next]_vars /\ WF_vars(Step)
-----------------------------------------------------------------------------
(* Properties.                                                              *)

TypeOK ==
  /\ in \in Inputs
  /\ pc \in {"find_fs", "diff_identify", "plan", "compare", "scan", "done"}
  /\ {at, n, out, pos} \subseteq Nat
  /\ bits \in 0 .. 7 /\ rest \in Nat \union {None}
  /\ {width, wide} \subseteq {1, 2, 4, 8}
  /\ ret \in {-1, 0, 1}

\* The first element of s in a range, or the range's end.
First(s, i, e) ==
  LET r == {j \in s : i <= j /\ j < e} IN IF r = {} THEN e ELSE Min(r)

\* The whole bytes of the range, and the first of them.
WholeBytes == IF BitStart = 0 THEN LenByte ELSE LenByte - 1
FirstWhole == in.start \div 8 + (IF BitStart = 0 THEN 0 ELSE 1)

\* Where find_fs and diff_identify stop looking.  find_fs leaves out the last
\* bits, fewer than a byte, when the whole bytes end before an aligned address.
Searched ==
  IF /\ in.fn = "find_fs" /\ LenByte # 0
     /\ WholeBytes < Gap(in.adr_a, FirstWhole, 8)
  THEN End - BitEnd ELSE End

\* find_fs: the first set bit of what it searches, or the first bit past that,
\* wherever the string lies in memory.
FindRight ==
  pc = "done" /\ in.fn = "find_fs" => out = First(in.a, in.start, Searched)

\* find_fs, as the walk down the tree uses it: the first set bit of the rest of
\* the key; if that is all zeros, no bit of the key.  So it is for a range
\* that goes past the key too, whatever follows the key in memory, and
\* although the last bits may not be looked at.
KeyFound ==
  pc = "done" /\ in.fn = "find_fs" =>
    LET f == First(in.a, in.start, in.key)
    IN  IF f < in.key THEN out = f ELSE out \in in.key .. End

\* diff_identify: the first difference in the range and which string is
\* smaller, or that the strings are equal there.
DiffRight ==
  pc = "done" /\ in.fn = "diff_identify" =>
    LET d == First(Differ(in.a, in.b), in.start, End)
    IN  pos = d /\ ret = IF d = End THEN 0 ELSE Sign(d)

\* diff_identify: smallfs, where the smaller string has its next set bit: the
\* walk down the tree begins there.
SmallRight ==
  pc = "done" /\ in.fn = "diff_identify" /\ ret # 0 => out = First(Smaller(pos), pos, End)

\* What is before the pointers and what the loops have still to look at are
\* all that is to be searched: no byte is passed over, no bit but the last
\* ones of find_fs, and none after the range is used.
Covered ==
  pc \in {"scan", "compare"} =>
    8 * (at + n) + bits + (IF rest = None THEN 0 ELSE 8 * rest + BitEnd) = Searched

\* Every call returns.
Returns == <>(pc = "done")
=============================================================================
