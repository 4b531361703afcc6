------------------------------ MODULE PowHash ------------------------------
(***************************************************************************)
(* The arithmetic of pkg/nogopow/engine.go as operators: targets, hashes   *)
(* of 32 bytes, fixed-point numbers, and how the matrices and blocks of    *)
(* the proof of work are taken apart and put together.  Keccak, Salsa20    *)
(* and FNV are left out: what matters is what they are applied to.  Sizes  *)
(* are parameters: 256 in the code, small numbers in a check.              *)
(***************************************************************************)
EXTENDS Integers, Sequences, FiniteSetsExt

(***************************************************************************)
(* Targets.                                                                *)
(***************************************************************************)

\* The target of a difficulty, of which nil and numbers below 1 give the
\* easiest, and numbers above the maximum the hardest.
DifficultyToTarget(difficulty, maxTarget) ==
    IF difficulty < 1 THEN maxTarget
    ELSE LET target == maxTarget \div difficulty
         IN IF target = 0 THEN 1 ELSE target

\* A hash shorter or longer than length bytes: as numbers, byte by byte, the
\* low end counts.
BytesToHash(b, length) ==
    IF Len(b) > length
    THEN SubSeq(b, Len(b) - length + 1, Len(b))
    ELSE [i \in 1 .. length - Len(b) |-> 0] \o b

\* Reference: the number that bytes stand for, the first the most significant.
Number(b, base) ==
    LET upTo[i \in 0 .. Len(b)] == IF i = 0 THEN 0 ELSE upTo[i - 1] * base + b[i]
    IN upTo[Len(b)]

\* Reference: how many numbers have n digits.
Power(base, n) ==
    LET upTo[i \in 0 .. n] == IF i = 0 THEN 1 ELSE upTo[i - 1] * base
    IN upTo[n]

(***************************************************************************)
(* Fixed-point numbers: factor is 2^24, and half of it is added to round.  *)
(***************************************************************************)
Rounded(val, factor) == (val + factor \div 2) \div factor

FromFixed(val, factor) ==
    LET rounded == Rounded(val, factor)
    IN IF rounded > 127 THEN 127 ELSE IF rounded < -128 THEN -128 ELSE rounded

ToFixedShift(v, factor) == v * factor

(***************************************************************************)
(* Matrices: functions from <<row, col>>, counted from 0.                  *)
(***************************************************************************)
Starts(size, block) == {x \in 0 .. size - 1 : x % block = 0}

\* The indices a loop visits from start on, the last block being shorter.
Block(start, size, block) ==
    start .. (IF start + block > size THEN size ELSE start + block) - 1

\* What one pass of the innermost loop adds; rows with valA = 0 are skipped.
Product(valA, valB, factor) ==
    IF valA = 0 THEN 0 ELSE Rounded(valA * valB, factor)

\* When the innermost loop is at entry ij: in <<i0, k0, j0, k>> the starts of
\* the blocks and the index that the product is over.
Visits(ij, size, block) ==
    LET starts == Starts(size, block)
    IN {v \in starts \X starts \X starts \X (0 .. size - 1) :
          /\ ij[1] \in Block(v[1], size, block)
          /\ v[4] \in Block(v[2], size, block)
          /\ ij[2] \in Block(v[3], size, block)}

\* What is added up in one entry of dst, in any order.
SumOver(f) == MapThenSumSet(LAMBDA x : f[x], DOMAIN f)

\* Block by block, each visit adds a product to an entry.
MulMatrixBlocked(a, b, size, block, factor) ==
    [ij \in (0 .. size - 1) \X (0 .. size - 1) |->
        SumOver([v \in Visits(ij, size, block) |->
                   Product(a[<<ij[1], v[4]>>], b[<<v[4], ij[2]>>], factor)])]

\* Reference: the sum of rounded products of the textbook.
TextbookProduct(a, b, size, factor) ==
    [ij \in (0 .. size - 1) \X (0 .. size - 1) |->
        SumOver([k \in 0 .. size - 1 |->
                   Rounded(a[<<ij[1], k>>] * b[<<k, ij[2]>>], factor)])]

\* mulMatrix first splits each chunk of the cache, of 2 * lines words of width
\* words, in two: the halves of every pair of words.  Which word of the cache
\* comes to a place.
CacheWord(place, lines, width) ==
    LET chunk  == place \div (2 * lines * width)
        inside == place % (2 * lines * width)
        half   == inside \div (lines * width)
        line   == (inside % (lines * width)) \div width
    IN chunk * 2 * lines * width + line * 2 * width + half * width + (place % width)

(***************************************************************************)
(* hashMatrix.                                                             *)
(***************************************************************************)

\* The four bytes of a row that make word j: columns a quarter apart.
WordColumns(j, size) == {j + q * (size \div 4) : q \in 0 .. 3}

\* The rows are folded by halves until row 0 holds the result: with k rows
\* left, row j is mixed with row j + k.  For the FNV of two rows stands the
\* sequence of the rows in them.
FoldRows(size) ==
    LET left[k \in 1 .. size, j \in 0 .. size - 1] ==
          IF k = size THEN <<j>> ELSE left[2 * k, j] \o left[2 * k, j + k]
    IN left[1, 0]

(***************************************************************************)
(* blockMix: where the i-th of the 2 * r blocks goes, even ones first.     *)
(***************************************************************************)
BlockPlace(i, r) == ((i % 2) * r) + (i \div 2)

=============================================================================
