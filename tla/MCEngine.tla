------------------------------ MODULE MCEngine ------------------------------
(***************************************************************************)
(* Small instances of PowEngine, whose callers and jobs are                *)
(* interchangeable, and the operators of PowHash against what they should  *)
(* compute, on small sizes.                                                *)
(***************************************************************************)
EXTENDS PowEngine, PowHash, TLC

Symmetry == Permutations(Callers) \cup Permutations(Jobs)

\* A target is never 0, which no hash would meet, and never above the
\* maximum; it is the quotient, so a harder job never has an easier target.
ASSUME TargetIsQuotient ==
    \A max \in 1 .. 12, d \in -1 .. 14 :
        LET target == DifficultyToTarget(d, max)
        IN /\ target \in 1 .. max
           /\ d < 1 => target = max
           /\ d \in 1 .. max => target * d <= max /\ max < (target + 1) * d
           /\ d >= 1 => DifficultyToTarget(d + 1, max) <= target

\* A hash is the number of its bytes modulo the numbers of its length.
ASSUME HashIsNumber ==
    \A n \in 0 .. 4 : \A b \in [1 .. n -> 0 .. 2] :
        Number(BytesToHash(b, 2), 3) = Number(b, 3) % Power(3, 2)

\* Fixed-point numbers keep an int8, and saturate outside of its range.
ASSUME FixedKeepsInt8 ==
    /\ \A v \in -128 .. 127 : FromFixed(ToFixedShift(v, 4), 4) = v
    /\ \A v \in -600 .. 600 : FromFixed(v, 4) \in -128 .. 127
    /\ \A v \in -600 .. 600 : FromFixed(v, 4) <= FromFixed(v + 1, 4)

\* Multiplying by blocks, the last ones shorter, and skipping zeros gives the
\* sum of rounded products of the textbook.
Matrix(size, s, t) ==
    [ij \in (0 .. size - 1) \X (0 .. size - 1) |->
        ((s * ij[1] + t * ij[2] + ij[1] * ij[2]) % 5) - 2]

ASSUME BlockedIsProduct ==
    \A size \in 1 .. 4, block \in 1 .. 3, s, t \in 1 .. 3 :
        LET a == Matrix(size, s, t)
            b == Matrix(size, t, s)
        IN MulMatrixBlocked(a, b, size, block, 4) = TextbookProduct(a, b, size, 4)

\* Each word of the cache comes to exactly one place of the matrices, each
\* byte of a row to one word, each row into the final mix once, and each
\* block to one place, the even ones first.
ASSUME CacheWordsAllUsed ==
    \A lines \in 1 .. 3, width \in 1 .. 3 :
        LET places == 0 .. 4 * lines * width - 1
        IN {CacheWord(p, lines, width) : p \in places} = places

ASSUME RowBytesAllUsed ==
    \A size \in {4, 8, 16} :
        /\ UNION {WordColumns(j, size) : j \in 0 .. (size \div 4) - 1} = 0 .. size - 1
        /\ \A i, j \in 0 .. (size \div 4) - 1 :
             WordColumns(i, size) \cap WordColumns(j, size) # {} => i = j

ASSUME RowsAllMixedOnce ==
    \A size \in {1, 2, 4, 8, 16, 32, 64, 128, 256} :
        LET mixed == FoldRows(size)
        IN Len(mixed) = size /\ {mixed[i] : i \in 1 .. size} = 0 .. size - 1

ASSUME BlocksEvenFirst ==
    \A r \in 1 .. 4 :
        /\ {BlockPlace(i, r) : i \in 0 .. 2 * r - 1} = 0 .. 2 * r - 1
        /\ \A i, j \in 0 .. 2 * r - 1 :
             BlockPlace(i, r) < BlockPlace(j, r) <=>
                 i % 2 < j % 2 \/ (i % 2 = j % 2 /\ i < j)

=============================================================================
