------------------------------ MODULE MCLocal ------------------------------
(***************************************************************************)
(* What a command meets on its own machine, in one run: the pull of a tree *)
(* over the working directory, the files a scan reads, the life of the     *)
(* working copy on disk, and the sorts and line diffs it works with.  A    *)
(* behaviour is one of them, next to the others at rest.                   *)
(*                                                                         *)
(* Pull: as MCPull, from a directory with a file in it.                    *)
(* Racy window: a file system whose mtimes are as coarse as the window.    *)
(* Lifecycle: three commands and one fault.                                *)
(* Sorts: arrays of up to six elements with three keys, and of seven keys  *)
(* in any order, at lengths and with blocks so small that every path is    *)
(* taken, heapsort included.                                               *)
(* Diffs: texts of up to three one-letter lines over two letters, with and *)
(* without the last newline, and the longer pairs the comments of lcs.rs   *)
(* give for the cases of twolcs, searched to depth 1, 2 and MAX_DIFFS / 2; *)
(* two edits of a text of three characters that need not keep to lines.    *)
(***************************************************************************)
EXTENDS Local, MCPull, TLC

CONSTANTS newline, la, lb, lc

VARIABLES
    part,       \* which of them runs
    sample      \* what is sorted or compared

KeyLess(r, s) == r.key < s.key
Stirred(l, i) == (3 * i + 3) % l

Sorting == INSTANCE GoSort WITH
    Less <- KeyLess, Random <- Stirred, MaxInsertion <- 1, Balance <- 2, Few <- 5,
    ShortestNinther <- 6, ShortestShifting <- 4, MaxSteps <- 2, BlockSize <- 3

Diffing == INSTANCE LineDiff WITH Newline <- newline, Context <- 1

Orders == UNION {[0..(n - 1) -> 0..2] : n \in 0..6} \cup Permutations(0..6)
Unsorted ==
    \E f \in Orders : sample = [i \in DOMAIN f |-> [key |-> f[i], tag |-> i]]

Words(n, letters) == UNION {[1..i -> letters] : i \in 0..n}
OneToALine(w) == [i \in 1..(2 * Len(w)) |-> IF i % 2 = 1 THEN w[(i + 1) \div 2] ELSE newline]
Short == {OneToALine(w) : w \in Words(3, {la, lb})}
ShortCut == Short \cup {SubSeq(t, 1, Len(t) - 1) : t \in Short \ {<<>>}}
CasesOfTwolcs == {
    <<<<lb, la, lb, la, la, lb>>, <<lc, lc, lc, la, lb, la>>>>,
    <<<<la, la, lb, lb, la, lb>>, <<lc, lb, lc, la, lb, lc>>>>,
    <<<<la, lb, la, la, lb, lb>>, <<lb, lc, la, lc, la, lb>>>>,
    <<<<la, lb, la, la, lb, lb>>, <<la, lb, la, la, la, la>>>>,
    <<<<lb, la, lb, la, lb, lb>>, <<lb, la, la, la, lb, lb>>>>,
    <<<<la, lb, lb, lb, la, la>>, <<lc, la, lb, la, lc, lc>>>>,
    <<<<la, la, lb, lb, la, la>>, <<la, la, lc, la, lb, la>>>>}
Longer == {<<OneToALine(p[1]), OneToALine(p[2])>> : p \in CasesOfTwolcs}
Compared ==
    \E old, new \in ShortCut \cup UNION {{p[1], p[2]} : p \in Longer}, limit \in {1, 2, 50} :
        /\ {old, new} \subseteq ShortCut \/ <<old, new>> \in Longer
        /\ sample = [old |-> old, new |-> new, limit |-> limit]

EditsOf3 == {e \in [start : 0..3, end : 0..3, new : Words(1, {lc, newline})] : e.start <= e.end}
Replaced ==
    \E text \in [1..3 -> {la, newline}], e, f \in EditsOf3 :
        /\ e.end <= f.start \/ f.end <= e.start
        /\ sample = [text |-> text, edits |-> <<e, f>>]

\* The others at rest.
Apart(p) ==
    /\ part = p
    /\ p = "pull" \/ (Init /\ base = DirWithFile)
    /\ p = "racy" \/ Racy!Over
    /\ p = "life" \/ Life!Over
    /\ p \in {"sort", "diff", "edit"} \/ sample = <<>>

MCInit ==
    \/ Apart("pull") /\ Init
    \/ Apart("racy") /\ Racy!Init
    \/ Apart("life") /\ Life!Init
    \/ Apart("sort") /\ Unsorted
    \/ Apart("diff") /\ Compared
    \/ Apart("edit") /\ Replaced

MCNext ==
    \/ part = "pull" /\ Next /\ UNCHANGED <<part, racyVars, lifeVars, sample>>
    \/ part = "racy" /\ Racy!Next /\ UNCHANGED <<part, vars, lifeVars, sample>>
    \/ part = "life" /\ Life!Next /\ UNCHANGED <<part, vars, racyVars, sample>>
    \/ part \in {"sort", "diff", "edit"}
       /\ UNCHANGED <<part, vars, racyVars, lifeVars, sample>>

MCSpec == MCInit /\ [][MCNext]_<<part, vars, racyVars, lifeVars, sample>>

\* Sorting!Sorts, of every array of the sample.
SortsRight == part = "sort" => Sorting!Sorts(sample)

\* A diff shown to the user says what happened: Diffing!UnifiedPatches and
\* Diffing!EditsPatch, of every pair of texts and every pair of edits.
DiffsPatch ==
    /\ part = "diff" => Diffing!UnifiedPatches(sample.old, sample.new, sample.limit)
    /\ part = "edit" => Diffing!EditsPatch(sample.text, sample.edits)
=============================================================================
