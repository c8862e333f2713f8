------------------------------- MODULE GoSort -------------------------------
(***************************************************************************)
(* Go's sorts as crates/udiff/src/gosort.rs has them (crates/view has a    *)
(* copy of the first): sort.Slice, a pattern-defeating quicksort that      *)
(* falls back to heapsort, and sort.Stable.  `data` is a function on       *)
(* 0..n-1; a range [a, b) does not contain b.                              *)
(*                                                                         *)
(* The lengths at which the algorithm changes its ways are parameters, so  *)
(* that short arrays take every path; the numbers that break patterns may  *)
(* be any.                                                                 *)
(***************************************************************************)
EXTENDS Integers, FiniteSetsExt, SequencesExt

CONSTANTS
    Less(_, _),
    Random(_, _),      \* the i-th random number for a length, below the mask
    MaxInsertion,      \* MAX_INSERTION: 12
    Balance,           \* a side below 1/Balance of the range is unbalanced: 8
    Few,               \* shorter ranges get a static pivot, unshuffled: 8
    ShortestNinther,   \* SHORTEST_NINTHER: 50
    ShortestShifting,  \* SHORTEST_SHIFTING: 50
    MaxSteps,          \* MAX_STEPS: 5
    BlockSize          \* block_size of stable_func: 20

\* The indices a, a + 1, ..., b - 1 in order.
Upto(a, b) == [i \in 1..(b - a) |-> a + i - 1]

Swap(d, i, j) == [d EXCEPT ![i] = d[j], ![j] = d[i]]

SwapRange(d, a, b, n) == FoldLeft(LAMBDA e, i : Swap(e, a + i, b + i), d, Upto(0, n))

ReverseRange(d, a, b) ==
    [i \in DOMAIN d |-> IF i >= a /\ i < b THEN d[a + b - 1 - i] ELSE d[i]]

\* The smaller element at j moves left while it is less than its neighbour.
RECURSIVE SinkLeft(_, _, _)
SinkLeft(d, a, j) ==
    IF j > a /\ Less(d[j], d[j - 1]) THEN SinkLeft(Swap(d, j, j - 1), a, j - 1) ELSE d

RECURSIVE SinkRight(_, _, _)
SinkRight(d, j, b) ==
    IF j < b /\ Less(d[j], d[j - 1]) THEN SinkRight(Swap(d, j, j - 1), j + 1, b) ELSE d

InsertionSort(d, a, b) == FoldLeft(LAMBDA e, i : SinkLeft(e, a, i), d, Upto(a + 1, b))

-----------------------------------------------------------------------------
RECURSIVE SiftDown(_, _, _, _)
SiftDown(d, root, hi, first) ==
    LET left == 2 * root + 1
        child == IF left + 1 < hi /\ Less(d[first + left], d[first + left + 1])
                 THEN left + 1 ELSE left
    IN IF left >= hi \/ ~Less(d[first + root], d[first + child])
       THEN d
       ELSE SiftDown(Swap(d, first + root, first + child), child, hi, first)

HeapSort(d, a, b) ==
    LET hi == b - a
        heap == FoldLeft(LAMBDA e, i : SiftDown(e, i, hi, a), d,
                         Reverse(Upto(0, (hi - 1) \div 2 + 1)))
    IN FoldLeft(LAMBDA e, i : SiftDown(Swap(e, a, a + i), 0, i, a), heap, Reverse(Upto(0, hi)))

-----------------------------------------------------------------------------
(***************************************************************************)
(* The steps of a quicksort round.                                         *)
(***************************************************************************)
\* The loops of a partition: i moves up over what belongs left (the elements
\* in `left`), j down over what does not, and the two that stop them change
\* places.
RECURSIVE Crossed(_, _, _, _, _)
Crossed(d, i, j, left, swapped) ==
    LET high == {m \in i..j : d[m] \notin left}
        up == Min(high \cup {IF j < i THEN i ELSE j + 1})
        down == Max({m \in up..j : d[m] \in left} \cup {IF j < up THEN j ELSE up - 1})
    IN IF up > down
       THEN [data |-> d, i |-> up, j |-> down, swapped |-> swapped]
       ELSE Crossed(Swap(d, up, down), up + 1, down - 1, left, TRUE)

Elements(d) == {d[i] : i \in DOMAIN d}

Partition(d, a, b, pivot) ==
    LET e == Swap(d, a, pivot)
        c == Crossed(e, a + 1, b - 1, {x \in Elements(e) : Less(x, e[a])}, FALSE)
    IN [data |-> Swap(c.data, c.j, a), mid |-> c.j, already |-> ~c.swapped]

\* Elements equal to the pivot, then greater ones.
PartitionEqual(d, a, b, pivot) ==
    LET e == Swap(d, a, pivot)
        c == Crossed(e, a + 1, b - 1, {x \in Elements(e) : ~Less(e[a], x)}, FALSE)
    IN [data |-> c.data, mid |-> c.i]

\* partial_insertion_sort_func from position i on, with so many steps left.
RECURSIVE Shifted(_, _, _, _, _)
Shifted(d, a, b, i, steps) ==
    LET at == Min({m \in i..(b - 1) : Less(d[m], d[m - 1])} \cup {b})
        left(e) == IF at - a >= 2 THEN SinkLeft(e, 0, at - 1) ELSE e
        right(e) == IF b - at >= 2 THEN SinkRight(e, at + 1, b) ELSE e
    IN IF steps = 0 THEN [data |-> d, sorted |-> FALSE]
       ELSE IF at = b THEN [data |-> d, sorted |-> TRUE]
       ELSE IF b - a < ShortestShifting THEN [data |-> d, sorted |-> FALSE]
       ELSE Shifted(right(left(Swap(d, at, at - 1))), a, b, at, steps - 1)

PartialInsertionSort(d, a, b) == Shifted(d, a, b, a + 1, MaxSteps)

BreakPatterns(d, a, b) ==
    LET l == b - a
        other(i) == IF Random(l, i) >= l THEN Random(l, i) - l ELSE Random(l, i)
        mid == a + (l \div 4) * 2
    IN IF l < Few THEN d
       ELSE FoldLeft(LAMBDA e, i : Swap(e, mid - 2 + i, a + other(i)), d, <<1, 2, 3>>)

\* order2_func: the two positions in order, and whether they were swapped.
Order2(d, a, b) == IF Less(d[b], d[a]) THEN <<b, a, 1>> ELSE <<a, b, 0>>

Median(d, a, b, c) ==
    LET p == Order2(d, a, b)
        q == Order2(d, p[2], c)
        r == Order2(d, p[1], q[1])
    IN [at |-> r[2], swaps |-> p[3] + q[3] + r[3]]

ChoosePivot(d, a, b) ==
    LET l == b - a
        at(i) == a + (l \div 4) * i
        near(i) == IF l >= ShortestNinther
                   THEN Median(d, at(i) - 1, at(i), at(i) + 1)
                   ELSE [at |-> at(i), swaps |-> 0]
        m == Median(d, near(1).at, near(2).at, near(3).at)
        swaps == near(1).swaps + near(2).swaps + near(3).swaps + m.swaps
        hint(s) == CASE s = 0 -> "increasing" [] s = 12 -> "decreasing" [] OTHER -> "unknown"
    IN IF l >= Few THEN [pivot |-> m.at, hint |-> hint(swaps)]
       ELSE [pivot |-> at(2), hint |-> hint(0)]

-----------------------------------------------------------------------------
(***************************************************************************)
(* pdqsort_func.  `balanced` and `partitioned` are about the last round;   *)
(* after `limit` unbalanced rounds the range is left to heapsort.          *)
(***************************************************************************)
RECURSIVE Pdqsort(_, _, _, _, _, _)

\* The range and its pivot, the other way round when it seems to be descending.
Turned(d, a, b, c) ==
    IF c.hint = "decreasing" THEN [data |-> ReverseRange(d, a, b), pivot |-> (b - 1) - (c.pivot - a)]
    ELSE [data |-> d, pivot |-> c.pivot]

\* The sides of a partition, the shorter one first.
Sides(p, a, b, limit) ==
    LET threshold == (b - a) \div Balance IN
    IF p.mid - a < b - p.mid
    THEN Pdqsort(Pdqsort(p.data, a, p.mid, limit, TRUE, TRUE),
                 p.mid + 1, b, limit, p.mid - a >= threshold, p.already)
    ELSE Pdqsort(Pdqsort(p.data, p.mid + 1, b, limit, TRUE, TRUE),
                 a, p.mid, limit, b - p.mid >= threshold, p.already)

\* The rest of a round, after the attempt s to do without a partition.
Divided(s, a, b, pivot, limit, balanced, partitioned) ==
    LET eq == PartitionEqual(s.data, a, b, pivot) IN
    IF s.sorted THEN s.data
    ELSE IF a > 0 /\ ~Less(s.data[a - 1], s.data[pivot])
         THEN Pdqsort(eq.data, eq.mid, b, limit, balanced, partitioned)
         ELSE Sides(Partition(s.data, a, b, pivot), a, b, limit)

\* A round with the pivot chosen.
Round(t, a, b, limit, likely, balanced, partitioned) ==
    Divided(IF likely THEN PartialInsertionSort(t.data, a, b) ELSE [data |-> t.data, sorted |-> FALSE],
            a, b, t.pivot, limit, balanced, partitioned)

Pdqsort(data, a, b, limit, balanced, partitioned) ==
    LET d == IF balanced THEN data ELSE BreakPatterns(data, a, b)
        c == ChoosePivot(d, a, b)
    IN IF b - a <= MaxInsertion THEN InsertionSort(data, a, b)
       ELSE IF limit = 0 THEN HeapSort(data, a, b)
       ELSE Round(Turned(d, a, b, c), a, b, IF balanced THEN limit ELSE limit - 1,
                  balanced /\ partitioned /\ c.hint # "unknown", balanced, partitioned)

\* bits_len.
BitsLen(n) == CHOOSE m \in 0..n : 2 ^ m > n /\ (m = 0 \/ 2 ^ (m - 1) <= n)

Slice(d) == Pdqsort(d, 0, Cardinality(DOMAIN d), BitsLen(Cardinality(DOMAIN d)), TRUE, TRUE)

-----------------------------------------------------------------------------
(***************************************************************************)
(* stable_func: sorted blocks, merged in place.                            *)
(***************************************************************************)
\* The lowest position in i..j that stops the search, or j, by halving.
RECURSIVE Halved(_, _, _)
Halved(i, j, stops) ==
    LET h == (i + j) \div 2 IN
    IF i >= j THEN i ELSE IF h \in stops THEN Halved(i, h, stops) ELSE Halved(h + 1, j, stops)

\* rotate_func: the blocks of i elements before m and j from m on change places.
RECURSIVE Rotated(_, _, _, _)
Rotated(d, m, i, j) ==
    IF i = j THEN SwapRange(d, m - i, m, i)
    ELSE IF i > j THEN Rotated(SwapRange(d, m - i, m, j), m, i - j, j)
    ELSE Rotated(SwapRange(d, m - i, m + j - i, i), m, i, j - i)

RECURSIVE SymMerge(_, _, _, _)
SymMerge(d, a, m, b) ==
    LET first == Halved(m, b, {h \in m..(b - 1) : ~Less(d[h], d[a])})
        last == Halved(a, m, {h \in a..(m - 1) : Less(d[m], d[h])})
        mid == (a + b) \div 2
        n == mid + m
        low == IF m > mid THEN n - b ELSE a
        high == IF m > mid THEN mid ELSE m
        start == Halved(low, high, {c \in low..(high - 1) : Less(d[n - 1 - c], d[c])})
        end == n - start
        r == IF start < m /\ m < end THEN Rotated(d, m, m - start, end - m) ELSE d
        half == IF a < start /\ start < mid THEN SymMerge(r, a, start, mid) ELSE r
    IN CASE m - a = 1 -> FoldLeft(LAMBDA e, k : Swap(e, k, k + 1), d, Upto(a, first - 1))
         [] m - a # 1 /\ b - m = 1 ->
                FoldLeft(LAMBDA e, k : Swap(e, k, k - 1), d, Reverse(Upto(last + 1, m + 1)))
         [] OTHER -> IF mid < end /\ end < b THEN SymMerge(half, mid, end, b) ELSE half

\* One pass over the blocks of a size, from a on.
RECURSIVE MergedBlocks(_, _, _, _)
MergedBlocks(d, a, n, size) ==
    IF a + 2 * size <= n THEN MergedBlocks(SymMerge(d, a, a + size, a + 2 * size), a + 2 * size, n, size)
    ELSE IF a + size < n THEN SymMerge(d, a, a + size, n)
    ELSE d

RECURSIVE Merged(_, _, _)
Merged(d, n, size) ==
    IF size < n THEN Merged(MergedBlocks(d, 0, n, size), n, 2 * size) ELSE d

\* Mutant: a last block that is not full is not sorted.
StableFullBlocks(d) ==
    LET n == Cardinality(DOMAIN d)
        blocks == FoldLeft(LAMBDA e, i : InsertionSort(e, i * BlockSize, (i + 1) * BlockSize),
                           d, Upto(0, n \div BlockSize))
    IN Merged(blocks, n, BlockSize)

Stable(d) ==
    LET n == Cardinality(DOMAIN d)
        blocks == FoldLeft(LAMBDA e, i : InsertionSort(e, i * BlockSize,
                                IF (i + 1) * BlockSize < n THEN (i + 1) * BlockSize ELSE n),
                           d, Upto(0, n \div BlockSize + 1))
    IN Merged(blocks, n, BlockSize)

\* is_sorted
InOrder(d) == \A i \in DOMAIN d : i > 0 => ~Less(d[i], d[i - 1])

-----------------------------------------------------------------------------
Place(d, x) == CHOOSE i \in DOMAIN d : d[i] = x

(***************************************************************************)
(* Of elements that differ, Slice makes an ordered array and loses none,   *)
(* whatever path the array sends it down, and Stable moreover leaves equal *)
(* ones in the order they came in.                                         *)
(***************************************************************************)
Sorts(d) ==
    LET unstable == Slice(d)
        stable == Stable(d)
    IN /\ \A s \in {unstable, stable} :
            DOMAIN s = DOMAIN d /\ Elements(s) = Elements(d) /\ InOrder(s)
       /\ \A i, j \in DOMAIN d :
            i < j /\ ~Less(stable[i], stable[j]) => Place(d, stable[i]) < Place(d, stable[j])
=============================================================================
