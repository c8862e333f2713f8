------------------------------ MODULE LineDiff ------------------------------
(***************************************************************************)
(* Unified diffs: the two-sided search for a longest common subsequence    *)
(* (crates/udiff/src/lcs.rs), its edits (diff.rs) and the hunks made of    *)
(* them (unified.rs).                                                      *)
(*                                                                         *)
(* Positions count from 0, as in the code.  A label table maps <<D, k>> to *)
(* how far a path of D edits has come on diagonal k.  The rectangle's      *)
(* lower corner (lx, ly) is never moved from 0.                            *)
(***************************************************************************)
EXTENDS Integers, FiniteSetsExt, SequencesExt, TLC

CONSTANTS
    Newline,
    Context     \* DEFAULT_CONTEXT_LINES: 3

Unrandom(l, i) == 0
LeftOf(a, b) == IF a.x # b.x THEN a.x < b.x ELSE a.len > b.len
LongerThan(a, b) == a.len > b.len
EditsLess(a, b) == a.start < b.start \/ (a.start = b.start /\ a.end < b.end)

ByPlace == INSTANCE GoSort WITH
    Less <- LeftOf, Random <- Unrandom, MaxInsertion <- 12, Balance <- 8, Few <- 8,
    ShortestNinther <- 50, ShortestShifting <- 50, MaxSteps <- 5, BlockSize <- 20
ByLength == INSTANCE GoSort WITH
    Less <- LongerThan, Random <- Unrandom, MaxInsertion <- 12, Balance <- 8, Few <- 8,
    ShortestNinther <- 50, ShortestShifting <- 50, MaxSteps <- 5, BlockSize <- 20
ByOffset == INSTANCE GoSort WITH
    Less <- EditsLess, Random <- Unrandom, MaxInsertion <- 12, Balance <- 8, Few <- 8,
    ShortestNinther <- 50, ShortestShifting <- 50, MaxSteps <- 5, BlockSize <- 20

\* Between a sequence and the 0-based array the sorts take.
Array(s) == [i \in 0..(Len(s) - 1) |-> s[i + 1]]
Seq0(d) == [i \in 1..Cardinality(DOMAIN d) |-> d[i - 1]]

-----------------------------------------------------------------------------
(***************************************************************************)
(* Labels.                                                                 *)
(***************************************************************************)
Graph(a, b, limit) == [a |-> a, b |-> b, ux |-> Len(a), uy |-> Len(b), limit |-> limit]
Delta(e) == Len(e.a) - Len(e.b)

Diagonals(d) == {k \in (-d)..d : (k + d) % 2 = 0}
Ok(d, k) == d >= 0 /\ -d <= k /\ k <= d

LookForward(e, k, x) ==
    LET y == x - k
        common == {n \in 0..Min({e.ux - x, e.uy - y}) : \A m \in 1..n : e.a[x + m] = e.b[y + m]}
    IN IF x < e.ux /\ y < e.uy THEN x + Max(common) ELSE x

LookBackward(e, k, x) ==
    LET y == x - (k + Delta(e))
        common == {n \in 0..Min({x, y}) : \A m \in 0..(n - 1) : e.a[x - m] = e.b[y - m]}
    IN IF x > 0 /\ y > 0 THEN x - Max(common) ELSE x

FirstForward(e) == <<0, 0>> :> LookForward(e, 0, 0)
FirstBackward(e) == <<0, 0>> :> LookBackward(e, 0, e.ux)

\* The labels of D + 1 from those of D.
ForwardPass(e, v, d) ==
    LET lookv(k) == LookForward(e, k, v[<<d, k - 1>>] + 1)
        lookh(k) == LookForward(e, k, v[<<d, k + 1>>])
        from(k) == CASE k = -(d + 1) -> v[<<d, -d>>]
                     [] k = d + 1 -> v[<<d, d>>] + 1
                     [] OTHER -> IF lookv(k) > lookh(k) THEN lookv(k) ELSE lookh(k)
    IN [p \in {d + 1} \X Diagonals(d + 1) |-> LookForward(e, p[2], from(p[2]))] @@ v

BackwardPass(e, v, d) ==
    LET lookv(k) == LookBackward(e, k, v[<<d, k - 1>>])
        lookh(k) == LookBackward(e, k, v[<<d, k + 1>>] - 1)
        from(k) == CASE k = -(d + 1) -> v[<<d, -d>>] - 1
                     [] k = d + 1 -> v[<<d, d>>]
                     [] OTHER -> IF lookv(k) < lookh(k) THEN lookv(k) ELSE lookh(k)
    IN [p \in {d + 1} \X Diagonals(d + 1) |-> LookBackward(e, p[2], from(p[2]))] @@ v

-----------------------------------------------------------------------------
(***************************************************************************)
(* A common subsequence is a sequence of diagonals.                        *)
(***************************************************************************)
Diag(x, y, len) == [x |-> x, y |-> y, len |-> len]

Prepend(l, x, y) ==
    IF l # <<>> /\ l[1].x = x + 1 /\ l[1].y = y + 1
    THEN <<Diag(x, y, l[1].len + 1)>> \o Tail(l)
    ELSE <<Diag(x, y, 1)>> \o l

AppendDiag(l, x, y) ==
    IF l # <<>> /\ Last(l).x + Last(l).len = x /\ Last(l).y + Last(l).len = y
    THEN Front(l) \o <<Diag(Last(l).x, Last(l).y, Last(l).len + 1)>>
    ELSE l \o <<Diag(x, y, 1)>>

\* Back from a label to the start, or on to the end, over labels of D - 1.
RECURSIVE BackToStart(_, _, _, _, _)
BackToStart(v, d, k, x, ans) ==
    IF x = 0 /\ x - k = 0 THEN ans
    ELSE IF Ok(d - 1, k - 1) /\ x - 1 = v[<<d - 1, k - 1>>]
         THEN BackToStart(v, d - 1, k - 1, x - 1, ans)
    ELSE IF Ok(d - 1, k + 1) /\ x = v[<<d - 1, k + 1>>]
         THEN BackToStart(v, d - 1, k + 1, x, ans)
    ELSE BackToStart(v, d, k, x - 1, Prepend(ans, x - 1, x - k - 1))

RECURSIVE OnToEnd(_, _, _, _, _, _)
OnToEnd(e, v, d, k, x, ans) ==
    IF x = e.ux /\ x - (k + Delta(e)) = e.uy THEN ans
    ELSE IF Ok(d - 1, k - 1) /\ x = v[<<d - 1, k - 1>>]
         THEN OnToEnd(e, v, d - 1, k - 1, x, ans)
    ELSE IF Ok(d - 1, k + 1) /\ x + 1 = v[<<d - 1, k + 1>>]
         THEN OnToEnd(e, v, d - 1, k + 1, x + 1, ans)
    ELSE OnToEnd(e, v, d, k, x + 1, AppendDiag(ans, x, x - (k + Delta(e))))

ForwardLcs(v, d, k) == BackToStart(v, d, k, v[<<d, k>>], <<>>)
BackwardLcs(e, v, d, k) == OnToEnd(e, v, d, k, v[<<d, k>>], <<>>)
Sorted(l) == Seq0(ByPlace!Slice(Array(l)))

\* The diagonals with a label in the rectangle, and the first of those that
\* have come farthest.
Farthest(e, v) ==
    LET sum(k) == 2 * v[<<e.limit, k>>] - k
        inside == {k \in Diagonals(e.limit) :
                      v[<<e.limit, k>>] <= e.ux /\ v[<<e.limit, k>>] - k <= e.uy /\ sum(k) > -1}
    IN Min({k \in inside : \A j \in inside : sum(j) <= sum(k)})

Nearest(e, v, otherwise) ==
    LET y(k) == v[<<e.limit, k>>] - (k + Delta(e))
        sum(k) == v[<<e.limit, k>>] + y(k)
        inside == {k \in Diagonals(e.limit) : v[<<e.limit, k>>] >= 0 /\ y(k) >= 0}
    IN IF inside = {} THEN otherwise
       ELSE Min({k \in inside : \A j \in inside : sum(j) >= sum(k)})

\* forward: one-sided, until the upper corner is reached or up to the limit.
RECURSIVE ForwardFrom(_, _, _)
ForwardFrom(e, v, d) ==
    IF e.ux - e.uy \in Diagonals(d) /\ v[<<d, e.ux - e.uy>>] = e.ux
    THEN ForwardLcs(v, d, e.ux - e.uy)
    ELSE IF d = e.limit THEN ForwardLcs(v, d, Farthest(e, v))
    ELSE ForwardFrom(e, ForwardPass(e, v, d), d + 1)

-----------------------------------------------------------------------------
(***************************************************************************)
(* twosided: forward and backward passes in turn until they meet.          *)
(***************************************************************************)
\* two_done: the diagonals on which the passes have met, and the one chosen.
Met(e, vf, vb, df, db) ==
    LET lowest == Max({-df, -db + Delta(e)})
        highest == Min({df, db + Delta(e)})
    IN {k \in lowest..highest :
            (df + db + Delta(e)) % 2 = 0 /\ (k - lowest) % 2 = 0
            /\ vb[<<db, k - Delta(e)>>] <= vf[<<df, k>>]}

Meeting(e, vf, vb, df, db) ==
    LET first == Min(Met(e, vf, vb, df, db))
        rest == {l \in first..Min({df, db + Delta(e)}) : (l - first) % 2 = 0}
        cheap == {l \in rest :
                    LET x == vf[<<df, l>>] u == vb[<<db, l - Delta(e)>>]
                    IN x = u \/ u = 0 \/ u - l = 0 \/ x - l = e.uy \/ x = e.ux}
    IN IF cheap = {} THEN first ELSE Min(cheap)

TwoLcs(e, vf, vb, df, db, kf) ==
    LET x == vf[<<df, kf>>]
        y == x - kf
        kb == kf - Delta(e)
        u == vb[<<db, kb>>]
        v == u - kf
        labelled(w, d, k, at) == Ok(d, k) /\ w[<<d, k>>] = at
        front(d, k) == ForwardLcs(vf, d, k) \o BackwardLcs(e, vb, db, kb)
        back(d, k) == BackwardLcs(e, vb, d, k) \o ForwardLcs(vf, df, kf)
        inner == [e EXCEPT !.ux = u, !.uy = v]
        left == u > 0 /\ labelled(vf, df - 1, u - 1 - v, u - 1)
        down == v > 0 /\ labelled(vf, df - 1, u - (v - 1), u)
        right == x < e.ux /\ labelled(vb, db - 1, x + 1 - y - Delta(e), x + 1)
        up == y < e.uy /\ labelled(vb, db - 1, x - (y + 1) - Delta(e), x)
        joined == IF x = u THEN front(df, kf)
                  ELSE IF left THEN front(df - 1, u - 1 - v)
                  ELSE IF down THEN front(df - 1, u - (v - 1))
                  ELSE IF right THEN back(db - 1, kb + 1)
                  ELSE IF up THEN back(db - 1, kb - 1)
                  ELSE BackwardLcs(e, vb, db, kb)
                       \o ForwardFrom(inner, FirstForward(inner), 0)
        alone == x # u /\ ~left /\ ~down /\ (u = 0 \/ v = 0 \/ x = e.ux \/ y = e.uy)
    IN IF ~alone THEN Sorted(joined)
       ELSE IF u = 0 \/ v = 0 THEN BackwardLcs(e, vb, db, kb)
       ELSE ForwardLcs(vf, df, kf)

\* Mutant: two partial subsequences are taken as they are.
FixOnlySorts(l) == Sorted(l)

\* lcs.fix: what of two partial subsequences can stand together, the longest
\* diagonals first.  overlap trims one diagonal against one that stands.
Overlap(exist, diag) ==
    LET gone(p) == p.len <= 0
        shift(p, by) == Diag(p.x + by, p.y + by, p.len - by)
        endX(p) == IF p.x <= exist.x /\ exist.x < p.x + p.len
                   THEN [p EXCEPT !.len = exist.x - p.x] ELSE p
        startX(p) == IF ~gone(p) /\ exist.x <= p.x /\ p.x < exist.x + exist.len
                     THEN shift(p, exist.x + exist.len - p.x) ELSE p
        endY(p) == IF ~gone(p) /\ p.y <= exist.y /\ exist.y < p.y + p.len
                   THEN [p EXCEPT !.len = exist.y - p.y] ELSE p
        startY(p) == IF ~gone(p) /\ exist.y <= p.y /\ p.y < exist.y + exist.len
                     THEN shift(p, exist.y + exist.len - p.y) ELSE p
        trimmed == startY(endY(startX(endX(diag))))
        leftdown == trimmed.x + trimmed.len <= exist.x /\ trimmed.y + trimmed.len <= exist.y
        rightup == exist.x + exist.len <= trimmed.x /\ exist.y + exist.len <= trimmed.y
    IN [fits |-> ~gone(trimmed) /\ (leftdown \/ rightup), diag |-> trimmed]

Fix(l) ==
    LET placed(tmp, item) ==
            FoldLeft(LAMBDA acc, exist : IF acc.fits THEN Overlap(exist, acc.diag) ELSE acc,
                     [fits |-> TRUE, diag |-> item], tmp)
        add(tmp, item) == IF placed(tmp, item).fits THEN Append(tmp, placed(tmp, item).diag) ELSE tmp
    IN Sorted(FoldLeft(add, <<>>, Seq0(ByLength!Slice(Array(l)))))

RECURSIVE TwosidedFrom(_, _, _, _)

\* A round after its forward pass: the check, the backward pass.
AfterForward(e, vf, vb, d) ==
    IF Met(e, vf, vb, d + 1, d) # {}
    THEN TwoLcs(e, vf, vb, d + 1, d, Meeting(e, vf, vb, d + 1, d))
    ELSE TwosidedFrom(e, vf, BackwardPass(e, vb, d), d + 1)

TwosidedFrom(e, vf, vb, d) ==
    IF d = e.limit
    THEN Fix(ForwardLcs(vf, d, Farthest(e, vf))
             \o BackwardLcs(e, vb, d, Nearest(e, vb, Farthest(e, vf))))
    ELSE IF Met(e, vf, vb, d, d) # {} THEN TwoLcs(e, vf, vb, d, d, Meeting(e, vf, vb, d, d))
    ELSE AfterForward(e, ForwardPass(e, vf, d), vb, d)

Twosided(e) == TwosidedFrom(e, FirstForward(e), FirstBackward(e), 0)

\* to_diffs: what lies between the diagonals.
ToDiffs(l, alen, blen) ==
    LET gap(pa, pb, x, y) ==
            IF pa < x \/ pb < y
            THEN <<[start |-> pa, end |-> x, replStart |-> pb, replEnd |-> y]>> ELSE <<>>
        step(acc, d) == [pa |-> d.x + d.len, pb |-> d.y + d.len,
                         diffs |-> acc.diffs \o gap(acc.pa, acc.pb, d.x, d.y)]
        done == FoldLeft(step, [pa |-> 0, pb |-> 0, diffs |-> <<>>], l)
    IN done.diffs \o gap(done.pa, done.pb, alen, blen)

-----------------------------------------------------------------------------
(***************************************************************************)
(* Texts are sequences of characters, edits replace a range of offsets.    *)
(***************************************************************************)
Offsets(text) ==
    SetToSortSeq({0, Len(text)} \cup {i \in 1..Len(text) : text[i] = Newline}, <)

SplitLines(text) ==
    LET at == Offsets(text)
    IN [i \in 1..(Len(at) - 1) |-> SubSeq(text, at[i] + 1, at[i + 1])]

CountNewlines(text, end) == Cardinality({i \in 1..end : text[i] = Newline})
EndsLine(text, end) == end = 0 \/ text[end] = Newline

\* diff_lines, up to its common subsequence.
LineDiffs(before, after, limit) ==
    Twosided(Graph(SplitLines(before), SplitLines(after), limit))

\* lines: the edits that turn before into after.
EditsOf(diffs, offsets, new) ==
    [i \in 1..Len(diffs) |->
        [start |-> offsets[diffs[i].start + 1], end |-> offsets[diffs[i].end + 1],
         new |-> FlattenSeq(SubSeq(new, diffs[i].replStart + 1, diffs[i].replEnd))]]

Lines(before, after, limit) ==
    EditsOf(ToDiffs(LineDiffs(before, after, limit), Len(SplitLines(before)), Len(SplitLines(after))),
            Offsets(before), SplitLines(after))

\* validate: the edits in order, and whether they fit the text.
InOffsetOrder(edits) ==
    IF ByOffset!InOrder(Array(edits)) THEN edits ELSE Seq0(ByOffset!Stable(Array(edits)))

Valid(src, edits) ==
    \A i \in 1..Len(edits) :
        /\ edits[i].start <= edits[i].end /\ edits[i].end <= Len(src)
        /\ i > 1 => edits[i - 1].end <= edits[i].start

\* expand_edit: out to whole lines.
ExpandEdit(edit, src) ==
    LET start == Max({0} \cup {i \in 1..edit.start : src[i] = Newline})
        new == SubSeq(src, start + 1, edit.start) \o edit.new
        end == IF EndsLine(src, edit.end) /\ EndsLine(new, Len(new)) THEN edit.end
               ELSE Min({Len(src)} \cup {i \in (edit.end + 1)..Len(src) : src[i] = Newline})
    IN [start |-> start, end |-> end, new |-> new \o SubSeq(src, edit.end + 1, end)]

\* line_edits, for edits in order: edits that meet on a line become one.
LineEdits(src, edits) ==
    LET aligned == \A i \in 1..Len(edits) :
            /\ edits[i].start < Len(src)
            /\ EndsLine(src, edits[i].start) /\ EndsLine(src, edits[i].end)
            /\ EndsLine(edits[i].new, Len(edits[i].new))
        between(prev, edit) == SubSeq(src, prev.end + 1, edit.start)
        merge(acc, edit) ==
            LET prev == Last(acc) IN
            IF Newline \notin Range(between(prev, edit))
            THEN Front(acc) \o <<[start |-> prev.start, end |-> edit.end,
                                  new |-> prev.new \o between(prev, edit) \o edit.new]>>
            ELSE Append(acc, edit)
        merged == FoldLeft(merge, <<Head(edits)>>, Tail(edits))
    IN IF aligned THEN edits ELSE [i \in 1..Len(merged) |-> ExpandEdit(merged[i], src)]

-----------------------------------------------------------------------------
(***************************************************************************)
(* Hunks: runs of edits with their context.                                *)
(***************************************************************************)
Line(kind, text) == [kind |-> kind, text |-> text]

\* add_equal_lines: the lines start..end - 1 that there are.
EqualLines(lines, start, end) ==
    [i \in 1..Max({0, Min({end, Len(lines)}) - Max({start, 0})}) |->
        Line("equal", lines[Max({start, 0}) + i])]

Extended(hunks, lines) ==
    Front(hunks) \o <<[Last(hunks) EXCEPT !.lines = @ \o lines]>>

\* One edit, in whole lines, of to_hunks.
AddEdit(content, lines, acc, edit) ==
    LET start == CountNewlines(content, edit.start)
        end == CountNewlines(content, edit.end)
               + (IF edit.end = Len(content) /\ ~EndsLine(content, Len(content)) THEN 1 ELSE 0)
        open == acc.hunks # <<>>
        before == EqualLines(lines, start - Context, start)
        closed == IF open THEN Extended(acc.hunks, EqualLines(lines, acc.last, acc.last + Context))
                          ELSE <<>>
        toLine == acc.toLine + start - acc.last
        fresh == [from |-> start + 1 - Len(before), to |-> toLine + 1 - Len(before),
                  lines |-> before]
        apart == ~open \/ (start # acc.last /\ start > acc.last + 2 * Context)
        hunks == IF apart THEN Append(closed, fresh)
                 ELSE IF start = acc.last THEN acc.hunks
                 ELSE Extended(acc.hunks, EqualLines(lines, acc.last, start))
        deleted == [i \in 1..(end - start) |-> Line("delete", lines[start + i])]
        new == SplitLines(edit.new)
        inserted == [i \in 1..Len(new) |-> Line("insert", new[i])]
    IN [hunks |-> Extended(hunks, deleted \o inserted),
        last |-> start + Len(deleted),
        toLine |-> (IF apart THEN toLine ELSE acc.toLine) + Len(inserted)]

ToHunks(content, edits) ==
    LET lines == SplitLines(content)
        done == FoldLeft(LAMBDA acc, edit : AddEdit(content, lines, acc, edit),
                         [hunks |-> <<>>, last |-> 0, toLine |-> 0], edits)
    IN IF done.hunks = <<>> THEN <<>>
       ELSE Extended(done.hunks, EqualLines(lines, done.last, done.last + Context))

\* render: a hunk with its header as it reads, a count left out being 1.
Rendered(hunk) ==
    LET count(kind) == Cardinality({i \in 1..Len(hunk.lines) : hunk.lines[i].kind \in {kind, "equal"}})
        at(line, n) == IF n = 0 /\ line = 1 THEN <<0, 0>> ELSE <<line, IF n > 1 THEN n ELSE 1>>
    IN [from |-> at(hunk.from, count("delete")), to |-> at(hunk.to, count("insert")),
        lines |-> hunk.lines]

\* to_unified: an empty diff when nothing is edited, nothing on bad edits.
ToUnified(content, edits) ==
    LET sorted == InOffsetOrder(edits)
        hunks == ToHunks(content, LineEdits(content, sorted))
    IN IF edits = <<>> THEN <<>> ELSE [i \in 1..Len(hunks) |-> Rendered(hunks[i])]

-----------------------------------------------------------------------------
(***************************************************************************)
(* What a diff promises: patching the old text with it gives the new one.  *)
(***************************************************************************)
\* The edited text, and the one a reader of the hunks puts together, line by
\* line.  A hunk that takes nothing stands behind the line it names.
Edited(src, edits) ==
    LET put(acc, e) == [out |-> acc.out \o SubSeq(src, acc.pos + 1, e.start) \o e.new, pos |-> e.end]
        done == FoldLeft(put, [out |-> <<>>, pos |-> 0], edits)
    IN done.out \o SubSeq(src, done.pos + 1, Len(src))

Side(hunk, kind) == SelectSeq(hunk.lines, LAMBDA l : l.kind \in {kind, "equal"})
Texts(lines) == [i \in 1..Len(lines) |-> lines[i].text]
Behind(at) == IF at[2] = 0 THEN at[1] ELSE at[1] - 1

Patches(old, hunks, new) ==
    LET lines == SplitLines(old)
        out == SplitLines(new)
        starts(h) == Behind(h.from)
        stops(h) == Behind(h.from) + h.from[2]
        kept == [i \in 0..Len(hunks) |->
                    SubSeq(lines, IF i = 0 THEN 1 ELSE stops(hunks[i]) + 1,
                           IF i = Len(hunks) THEN Len(lines) ELSE starts(hunks[i + 1]))]
        taken(i) == Texts(Side(hunks[i], "insert"))
    IN /\ \A i \in 1..Len(hunks) :
            /\ stops(hunks[i]) <= Len(lines)
            /\ Behind(hunks[i].to) + hunks[i].to[2] <= Len(out)
            /\ SubSeq(lines, starts(hunks[i]) + 1, stops(hunks[i])) = Texts(Side(hunks[i], "delete"))
            /\ SubSeq(out, Behind(hunks[i].to) + 1, Behind(hunks[i].to) + hunks[i].to[2]) = taken(i)
            /\ i > 1 => stops(hunks[i - 1]) < starts(hunks[i])
       /\ new = FlattenSeq(kept[0] \o FlattenSeq([i \in 1..Len(hunks) |-> taken(i) \o kept[i]]))

EditsTurn(old, edits, new) ==
    Valid(old, InOffsetOrder(edits)) /\ Patches(old, ToUnified(old, edits), new)

\* How long a common subsequence can be.
Longest(a, b) ==
    LET lcs[i \in 0..Len(a), j \in 0..Len(b)] ==
            IF i = 0 \/ j = 0 THEN 0
            ELSE IF a[i] = b[j] THEN lcs[i - 1, j - 1] + 1
            ELSE Max({lcs[i - 1, j], lcs[i, j - 1]})
    IN lcs[Len(a), Len(b)]

(***************************************************************************)
(* The hunks of any two texts patch the first into the second, however     *)
(* soon the search gives up (MAX_DIFFS, the search limit of lcs.rs), and   *)
(* the lines they leave alone are as many as can be left alone when it     *)
(* does not have to.                                                       *)
(***************************************************************************)
UnifiedPatches(old, new, limit) ==
    /\ EditsTurn(old, Lines(old, new, limit), new)
    /\ limit >= Len(SplitLines(old)) + Len(SplitLines(new)) =>
        FoldLeft(LAMBDA n, d : n + d.len, 0, LineDiffs(old, new, limit))
            = Longest(SplitLines(old), SplitLines(new))

(***************************************************************************)
(* Edits that begin and end inside lines, given in any order, come out as  *)
(* hunks of whole lines that make the same text (line_edits, expand_edit). *)
(***************************************************************************)
EditsPatch(src, edits) ==
    LET sorted == InOffsetOrder(edits) IN
    Valid(src, sorted) => Patches(src, ToUnified(src, edits), Edited(src, sorted))
=============================================================================
