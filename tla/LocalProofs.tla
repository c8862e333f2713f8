---------------------------- MODULE LocalProofs ----------------------------
(***************************************************************************)
(* What a command can rely on on its own machine.                          *)
(*                                                                         *)
(* Pull without --force, for any paths, contents, edits and crashes: local *)
(* changes are kept at every moment, what is left in the end is a three-   *)
(* way merge, nothing the apply does makes a later step of it fail but in  *)
(* the case of a read-only directory, and no edit is hidden from the next  *)
(* scan.                                                                   *)
(*                                                                         *)
(* Lifecycle, for any number of commands and of faults: one command at a   *)
(* time has the working copy open, a copy that says it was cloned has      *)
(* every file, and a finished copy is removed only by a command that was   *)
(* running when it was finished.                                           *)
(*                                                                         *)
(* RacyWindow, for any window, any granule of the file system's mtimes and *)
(* any number of writes: an edit is read by the next scan, unless it was   *)
(* made so long before the end of the command that ran meanwhile that the  *)
(* window does not reach back to it.                                       *)
(***************************************************************************)
EXTENDS Local, SequenceTheorems, Integers, TLAPS

-----------------------------------------------------------------------------
(***************************************************************************)
(* The pull.  The lemmas: entries and paths; what each step does to a      *)
(* tree; what a change that is not in conflict tells of the three trees;   *)
(* the invariant, path by path; the steps, first away from their own       *)
(* paths. --force is left out with reason: a file with local changes then  *)
(* keeps them under the cluster's mtime, and later scans do not read it.   *)
(***************************************************************************)

\* An entry, or none.
Entries == Entry \cup {Gone}

\* The same entry, but for a directory's time.
Kin(a, b) ==
    /\ b.type = a.type
    /\ a.type = "file" => b = a
    /\ a.type = "dir" => b.mode = a.mode

-----------------------------------------------------------------------------
\* The fields of an entry.
LEMMA EntryFacts ==
    ASSUME NEW e \in Entries
    PROVE  /\ e.type \in {"file", "dir", "gone"}
           /\ e = Gone <=> e.type = "gone"
           /\ e # Gone => e \in Entry /\ e.mode \in Modes /\ e.meta \in Times
           /\ e.type = "file" => e.data \in Data
<1>1. CASE e = Gone
    BY <1>1 DEF Gone
<1>2. CASE e \in [type : {"file"}, data : Data, mode : Modes, meta : Times]
    BY <1>2 DEF Gone, Entry
<1>3. CASE e \in [type : {"dir"}, mode : Modes, meta : Times]
    BY <1>3 DEF Gone, Entry
<1> QED
    BY <1>1, <1>2, <1>3 DEF Entries, Entry

\* A file is an entry.
LEMMA FileFacts ==
    ASSUME NEW d \in Data, NEW m \in Modes, NEW n \in Times
    PROVE  /\ File(d, m, n) \in Entries /\ File(d, m, n) # Gone
           /\ File(d, m, n).type = "file" /\ File(d, m, n).data = d
           /\ File(d, m, n).mode = m /\ File(d, m, n).meta = n
    BY DEF File, Entries, Entry, Gone

\* A directory is an entry.
LEMMA DirFacts ==
    ASSUME NEW m \in Modes, NEW n \in Times
    PROVE  /\ Dir(m, n) \in Entries /\ Dir(m, n) # Gone
           /\ Dir(m, n).type = "dir" /\ IsDir(Dir(m, n))
           /\ Dir(m, n).mode = m /\ Dir(m, n).meta = n
    BY DEF Dir, Entries, Entry, Gone, IsDir

\* chmod.
LEMMA ModeFacts ==
    ASSUME NEW e \in Entries, NEW m \in Modes
    PROVE  /\ [e EXCEPT !.mode = m] \in Entries
           /\ [e EXCEPT !.mode = m].type = e.type
           /\ e.type = "file" => [e EXCEPT !.mode = m].data = e.data
           /\ e # Gone => [e EXCEPT !.mode = m].mode = m /\ [e EXCEPT !.mode = m].meta = e.meta
<1>1. CASE e = Gone
    BY <1>1 DEF Gone, Entries
<1>2. CASE e \in [type : {"file"}, data : Data, mode : Modes, meta : Times]
    BY <1>2 DEF Gone, Entry, Entries
<1>3. CASE e \in [type : {"dir"}, mode : Modes, meta : Times]
    BY <1>3 DEF Gone, Entry, Entries
<1> QED
    BY <1>1, <1>2, <1>3 DEF Entries, Entry

\* utimes.
LEMMA TimeFacts ==
    ASSUME NEW e \in Entries, NEW n \in Times
    PROVE  /\ [e EXCEPT !.meta = n] \in Entries
           /\ [e EXCEPT !.meta = n].type = e.type
           /\ e.type = "file" => [e EXCEPT !.meta = n].data = e.data
           /\ e # Gone => [e EXCEPT !.meta = n].meta = n /\ [e EXCEPT !.meta = n].mode = e.mode
<1>1. CASE e = Gone
    BY <1>1 DEF Gone, Entries
<1>2. CASE e \in [type : {"file"}, data : Data, mode : Modes, meta : Times]
    BY <1>2 DEF Gone, Entry, Entries
<1>3. CASE e \in [type : {"dir"}, mode : Modes, meta : Times]
    BY <1>3 DEF Gone, Entry, Entries
<1> QED
    BY <1>1, <1>2, <1>3 DEF Entries, Entry

-----------------------------------------------------------------------------
\* The order of paths.
LEMMA PathFacts ==
    /\ \A p \in Paths : p \in Seq(Names) /\ Len(p) \in Nat /\ Len(p) >= 1
    /\ \A p \in Paths : Len(p) > 1 =>
        Parent(p) \in Above(p) /\ Parent(p) # p /\ Parent(p) \notin Below(p)
    /\ \A p \in Paths : p \notin Below(p) /\ p \notin Above(p)
    /\ \A p \in Paths : Above(p) \subseteq Paths /\ Below(p) \subseteq Paths
    /\ \A p, q \in Paths : q \in Above(p) <=> p \in Below(q)
    /\ \A p, q \in Paths : ~(p \in Below(q) /\ q \in Below(p))
<1>1. ASSUME NEW p \in Paths
      PROVE  /\ p \in Seq(Names) /\ Len(p) \in Nat /\ Len(p) >= 1
             /\ Len(p) > 1 => Parent(p) \in Paths
  <2>1. p \in Seq(Names) /\ Len(p) > 0 /\ (Len(p) > 1 => Parent(p) \in Paths)
    BY PullAssumption, Zenon DEF Parent
  <2> QED
    BY <2>1
<1>2. ASSUME NEW p \in Paths, Len(p) > 1
      PROVE  Parent(p) \in Above(p) /\ Parent(p) # p /\ Parent(p) \notin Below(p)
  <2>1. Parent(p) \in Paths
    BY <1>1, <1>2
  <2>2. Len(Parent(p)) = Len(p) - 1
    BY <1>1, <1>2 DEF Parent
  <2>3. SubSeq(p, 1, Len(Parent(p))) = Parent(p)
    BY <2>2 DEF Parent
  <2> QED
    BY <1>1, <1>2, <2>1, <2>2, <2>3 DEF Above, Below
<1>3. \A p, q \in Paths : ~(p \in Below(q) /\ q \in Below(p))
    BY <1>1 DEF Below
<1> QED
    BY <1>1, <1>2, <1>3 DEF Above, Below

\* It is transitive.
LEMMA BelowBelow ==
    ASSUME NEW p \in Paths, NEW q \in Below(p), NEW r \in Below(q)
    PROVE  r \in Below(p)
<1>1. /\ p \in Seq(Names) /\ q \in Seq(Names) /\ r \in Seq(Names)
      /\ Len(p) \in Nat /\ Len(q) \in Nat /\ Len(r) \in Nat
      /\ Len(p) < Len(q) /\ Len(q) < Len(r)
      /\ SubSeq(q, 1, Len(p)) = p /\ SubSeq(r, 1, Len(q)) = q /\ r \in Paths
    BY PathFacts DEF Below
<1>2. SubSeq(r, 1, Len(p)) = SubSeq(SubSeq(r, 1, Len(q)), 1, Len(p))
  <2> DEFINE a == SubSeq(r, 1, Len(p))
             b == SubSeq(SubSeq(r, 1, Len(q)), 1, Len(p))
  <2>1. a \in Seq(Names) /\ Len(a) = Len(p) /\ \A i \in 1..Len(p) : a[i] = r[i]
    BY <1>1
  <2>2. b \in Seq(Names) /\ Len(b) = Len(p) /\ \A i \in 1..Len(p) : b[i] = r[i]
    BY <1>1
  <2> HIDE DEF a, b
  <2> QED
    BY <1>1, <2>1, <2>2, SeqEqual
<1> QED
    BY <1>1, <1>2 DEF Below

\* What is above a path is its parent or above its parent.
LEMMA AboveParent ==
    ASSUME NEW p \in Paths, NEW q \in Above(p)
    PROVE  Len(p) > 1 /\ (q = Parent(p) \/ q \in Above(Parent(p)))
<1>1. /\ p \in Seq(Names) /\ q \in Seq(Names) /\ q \in Paths /\ p \in Paths
      /\ Len(p) \in Nat /\ Len(q) \in Nat /\ Len(q) >= 1 /\ Len(q) < Len(p)
      /\ SubSeq(p, 1, Len(q)) = q
    BY PathFacts DEF Above, Below
<1>2. /\ Parent(p) \in Paths /\ Parent(p) \in Seq(Names) /\ Len(Parent(p)) = Len(p) - 1
      /\ \A i \in 1..(Len(p) - 1) : Parent(p)[i] = p[i]
    BY <1>1, PathFacts DEF Parent, Above
<1>3. CASE Len(q) = Len(p) - 1
    BY <1>1, <1>3 DEF Parent
<1>4. CASE Len(q) # Len(p) - 1
  <2> DEFINE a == SubSeq(Parent(p), 1, Len(q))
  <2>1. a \in Seq(Names) /\ Len(a) = Len(q) /\ \A i \in 1..Len(q) : a[i] = p[i]
    BY <1>1, <1>2, <1>4
  <2>2. \A i \in 1..Len(q) : q[i] = p[i]
    BY <1>1
  <2>3. a = q
    <3> HIDE DEF a
    <3> QED
      BY <1>1, <2>1, <2>2, SeqEqual
  <2> QED
    BY <1>1, <1>2, <1>4, <2>3 DEF Above, Below
<1> QED
    BY <1>1, <1>3, <1>4

-----------------------------------------------------------------------------
\* What a tree has at a path.
LEMMA TreeFacts ==
    ASSUME NEW t \in Tree, NEW q \in Paths
    PROVE  t[q] \in Entries
    BY DEF Tree, Entries

\* Being whole is a matter of types.
LEMMA WholeByType ==
    ASSUME NEW t \in Tree, NEW u \in Tree, Whole(t), \A q \in Paths : u[q].type = t[q].type
    PROVE  Whole(u)
<1> SUFFICES ASSUME NEW p \in Paths, NEW q \in Above(p), u[p] # Gone PROVE IsDir(u[q])
    BY DEF Whole
<1>1. q \in Paths /\ t[p] # Gone
    BY TreeFacts, EntryFacts, PathFacts
<1> QED
    BY <1>1 DEF Whole, IsDir

\* All directories above a path are there when its parent is.
LEMMA AboveThere ==
    ASSUME NEW t \in Tree, NEW p \in Paths, Whole(t), InDir(t, p), NEW q \in Above(p)
    PROVE  IsDir(t[q])
<1>1. Len(p) > 1 /\ (q = Parent(p) \/ q \in Above(Parent(p)))
    BY AboveParent
<1>2. IsDir(t[Parent(p)]) /\ Parent(p) \in Paths
    BY <1>1, PathFacts DEF InDir
<1>3. t[Parent(p)] # Gone
    BY <1>2, TreeFacts, EntryFacts DEF IsDir
<1> QED
    BY <1>1, <1>2, <1>3 DEF Whole

\* What is there has its parent.
LEMMA WholeIsInDir ==
    ASSUME NEW t \in Tree, Whole(t)
    PROVE  \A p \in Paths : t[p] # Gone => InDir(t, p)
    BY PathFacts DEF Whole, InDir

\* A directory's time.
LEMMA TouchedEffect ==
    ASSUME NEW t \in Tree, NEW p \in Paths, NEW time \in Times
    PROVE  /\ Touched(t, p, time) \in Tree
           /\ Touched(t, p, time)[p] = t[p]
           /\ \A q \in Paths : Kin(t[q], Touched(t, p, time)[q])
<1>1. CASE ~(Len(p) > 1 /\ IsDir(t[Parent(p)]))
    BY <1>1, TreeFacts, EntryFacts DEF Touched, Kin
<1>2. CASE Len(p) > 1 /\ IsDir(t[Parent(p)])
  <2> DEFINE d == Parent(p)
             e == [t[d] EXCEPT !.meta = time]
  <2>1. d \in Paths /\ d # p /\ t[d] \in Entries /\ t[d].type = "dir"
    BY <1>2, PathFacts, TreeFacts DEF IsDir
  <2>2. e \in Entries /\ e.type = "dir" /\ e.mode = t[d].mode
    BY <2>1, TimeFacts, EntryFacts
  <2>3. Touched(t, p, time) = [t EXCEPT ![d] = e]
    BY <1>2 DEF Touched
  <2> HIDE DEF d, e
  <2> QED
    BY <2>1, <2>2, <2>3 DEF Tree, Entries, Kin
<1> QED
    BY <1>1, <1>2

\* An entry placed or removed, with all below it.
LEMMA PlacedEffect ==
    ASSUME NEW t \in Tree, NEW p \in Paths, NEW e \in Entries, NEW time \in Times, Whole(t),
           e # Gone => \A q \in Above(p) : IsDir(t[q])
    PROVE  /\ Placed(t, p, e, time) \in Tree
           /\ Whole(Placed(t, p, e, time))
           /\ Placed(t, p, e, time)[p] = e
           /\ \A q \in Below(p) : Placed(t, p, e, time)[q] = Gone
           /\ \A q \in Paths : q # p /\ q \notin Below(p) => Kin(t[q], Placed(t, p, e, time)[q])
<1> DEFINE u == [q \in Paths |-> IF q = p THEN e ELSE IF q \in Below(p) THEN Gone ELSE t[q]]
           w == Touched(u, p, time)
<1>1. u \in Tree
    BY DEF Tree, Entries
<1>2. Whole(u)
  <2> SUFFICES ASSUME NEW a \in Paths, NEW b \in Above(a), u[a] # Gone PROVE IsDir(u[b])
    BY DEF Whole
  <2>1. b \in Paths /\ a \in Below(b) /\ a \notin Below(p)
    BY PathFacts
  <2>2. b # p /\ b \notin Below(p)
    BY <2>1, BelowBelow
  <2>3. u[b] = t[b]
    BY <2>1, <2>2
  <2>4. CASE a = p
    BY <2>3, <2>4
  <2>5. CASE a # p
    BY <2>1, <2>3, <2>5 DEF Whole
  <2> QED
    BY <2>4, <2>5
<1>3. /\ u[p] = e /\ \A q \in Below(p) : u[q] = Gone
      /\ \A q \in Paths : q # p /\ q \notin Below(p) => u[q] = t[q]
    BY PathFacts
<1> HIDE DEF u
<1>4. w \in Tree /\ w[p] = e /\ \A q \in Paths : Kin(u[q], w[q])
    BY <1>1, <1>3, TouchedEffect
<1>5. Placed(t, p, e, time) = w
    BY DEF Placed, u
<1> HIDE DEF w
<1>6. Whole(w)
    BY <1>1, <1>2, <1>4, WholeByType DEF Kin
<1>7. ASSUME NEW q \in Below(p) PROVE w[q] = Gone
  <2>1. q \in Paths
    BY PathFacts
  <2>2. w[q].type = "gone"
    BY <2>1, <1>3, <1>4 DEF Kin, Gone
  <2> QED
    BY <1>4, <2>1, <2>2, TreeFacts, EntryFacts
<1> QED
    BY <1>3, <1>4, <1>5, <1>6, <1>7

\* writable: one directory is opened.
LEMMA OpenedEffect ==
    ASSUME NEW t \in Tree, NEW p \in Paths, Whole(t)
    PROVE  /\ Opened(t, p) \in Tree /\ Whole(Opened(t, p))
           /\ \A q \in Paths : q \notin Opens(t, p) => Opened(t, p)[q] = t[q]
           /\ \A q \in Opens(t, p) :
                /\ q \in Paths /\ q \in Above(p) /\ q \notin DOMAIN restore
                /\ IsDir(t[q]) /\ t[q].mode = "ro"
                /\ IsDir(Opened(t, p)[q]) /\ Opened(t, p)[q].mode = "all"
<1>1. ASSUME NEW q \in Opens(t, p)
      PROVE  /\ q \in Paths /\ q \in Above(p) /\ q \notin DOMAIN restore
             /\ IsDir(t[q]) /\ t[q].mode = "ro"
    BY PathFacts DEF Opens
<1>2. ASSUME NEW q \in Paths
      PROVE  /\ [t[q] EXCEPT !.mode = "all"] \in Entries
             /\ [t[q] EXCEPT !.mode = "all"].type = t[q].type
             /\ t[q] # Gone => [t[q] EXCEPT !.mode = "all"].mode = "all"
  <2>1. "all" \in Modes /\ t[q] \in Entries
    BY TreeFacts DEF Modes
  <2> QED
    BY <2>1, ModeFacts
<1>3. /\ Opened(t, p) \in Tree
      /\ \A q \in Paths : q \notin Opens(t, p) => Opened(t, p)[q] = t[q]
      /\ \A q \in Paths : Opened(t, p)[q].type = t[q].type
    BY <1>2 DEF Opened, Tree, Entries
<1>4. Whole(Opened(t, p))
    BY <1>3, WholeByType
<1>5. ASSUME NEW q \in Opens(t, p)
      PROVE  IsDir(Opened(t, p)[q]) /\ Opened(t, p)[q].mode = "all"
  <2>1. q \in Paths /\ t[q] # Gone /\ IsDir(t[q])
    BY <1>1, TreeFacts, EntryFacts DEF IsDir
  <2>2. Opened(t, p)[q] = [t[q] EXCEPT !.mode = "all"]
    BY <2>1 DEF Opened
  <2> QED
    BY <2>1, <2>2, <1>2 DEF IsDir
<1> QED
    BY <1>1, <1>3, <1>4, <1>5

\* apply_meta: mode and time.
LEMMA WithMetaEffect ==
    ASSUME NEW t \in Tree, NEW c, c.path \in Paths, c.new \in Entry, Whole(t)
    PROVE  /\ WithMeta(t, c) \in Tree /\ Whole(WithMeta(t, c))
           /\ \A q \in Paths : q # c.path => WithMeta(t, c)[q] = t[q]
           /\ WithMeta(t, c)[c.path].type = t[c.path].type
           /\ t[c.path].type = "file" => WithMeta(t, c)[c.path].data = t[c.path].data
           /\ t[c.path] # Gone => /\ WithMeta(t, c)[c.path].mode = c.new.mode
                                  /\ WithMeta(t, c)[c.path].meta = c.new.meta
<1> DEFINE e == t[c.path]
           f == [e EXCEPT !.mode = c.new.mode]
           g == [f EXCEPT !.meta = c.new.meta]
<1>1. e \in Entries /\ c.new.mode \in Modes /\ c.new.meta \in Times
  <2>1. c.new \in Entries /\ c.new # Gone
    BY DEF Entries, Entry, Gone
  <2> QED
    BY <2>1, TreeFacts, EntryFacts
<1>2. /\ f \in Entries /\ f.type = e.type /\ (e.type = "file" => f.data = e.data)
      /\ e # Gone => f.mode = c.new.mode
    BY <1>1, ModeFacts
<1>3. WithMeta(t, c) = [t EXCEPT ![c.path] = g]
    BY DEF WithMeta
<1>4. e # Gone => f # Gone
    BY <1>1, <1>2, EntryFacts
<1> HIDE DEF f, e
<1>5. /\ g \in Entries /\ g.type = f.type /\ (f.type = "file" => g.data = f.data)
      /\ f # Gone => g.meta = c.new.meta /\ g.mode = f.mode
    BY <1>1, <1>2, TimeFacts
<1> HIDE DEF g
<1>6. /\ WithMeta(t, c) \in Tree /\ WithMeta(t, c)[c.path] = g
      /\ \A q \in Paths : q # c.path => WithMeta(t, c)[q] = t[q]
    BY <1>3, <1>5 DEF Tree, Entries
<1>7. Whole(WithMeta(t, c))
    BY <1>2, <1>5, <1>6, WholeByType DEF e
<1> QED
    BY <1>2, <1>4, <1>5, <1>6, <1>7 DEF e

-----------------------------------------------------------------------------
\* What the cluster and the user changed since base.
Incoming == DiffTrees(from, remote)
Mine == DiffTrees(from, start)

\* What the kind of a change says.
LEMMA KindFacts ==
    ASSUME NEW a \in Entries, NEW b \in Entries
    PROVE  /\ Kind(a, b) = "same" <=> a = b
           /\ Kind(a, b) = "deleted" <=> a # Gone /\ b = Gone
           /\ Kind(a, b) = "type" <=> a # Gone /\ b # Gone /\ a.type # b.type
           /\ Kind(a, b) = "meta" => a # Gone /\ b # Gone /\ a.type = b.type /\ SameContent(a, b)
           /\ Kind(a, b) \in {"mode", "meta"} =>
                a # Gone /\ b # Gone /\ a.type = b.type /\ SameContent(a, b)
           /\ ~Equivalent(a, b) => Kind(a, b) \notin {"same", "meta"}
           /\ Equivalent(a, b) => Kind(a, b) \in {"same", "meta"}
           /\ Kind(a, b) \in {"same", "added", "deleted", "type", "modified", "mode", "meta"}
<1>1. a = Gone <=> a.type = "gone"
    BY EntryFacts
<1>2. b = Gone <=> b.type = "gone"
    BY EntryFacts
<1> QED
    BY <1>1, <1>2 DEF Kind, Equivalent, SameContent

\* A change of a diff.
LEMMA ChangeFacts ==
    ASSUME NEW a \in Tree, NEW b \in Tree, NEW c \in DiffTrees(a, b)
    PROVE  /\ c.path \in Paths /\ c.old = a[c.path] /\ c.new = b[c.path]
           /\ c.kind = Kind(a[c.path], b[c.path]) /\ a[c.path] # b[c.path]
           /\ a[c.path] \in Entries /\ b[c.path] \in Entries
           /\ c.kind = "deleted" <=> b[c.path] = Gone
           /\ c = Change(c.path, a[c.path], b[c.path])
<1>1. PICK p \in Paths : c = Change(p, a[p], b[p]) /\ c.kind # "same"
    BY DEF DiffTrees
<1>2. c.path = p /\ c.old = a[p] /\ c.new = b[p] /\ c.kind = Kind(a[p], b[p])
    BY <1>1 DEF Change
<1>3. a[p] \in Entries /\ b[p] \in Entries
    BY TreeFacts
<1> QED
    BY <1>1, <1>2, <1>3, KindFacts

\* Every difference is in the diff.
LEMMA DiffHas ==
    ASSUME NEW a \in Tree, NEW b \in Tree, NEW p \in Paths, a[p] # b[p]
    PROVE  \E c \in DiffTrees(a, b) : c.path = p
<1>1. a[p] \in Entries /\ b[p] \in Entries
    BY TreeFacts
<1>2. Change(p, a[p], b[p]).kind # "same" /\ Change(p, a[p], b[p]).path = p
    BY <1>1, KindFacts DEF Change
<1> QED
    BY <1>2 DEF DiffTrees

\* Two changes of one path are one.
LEMMA OneChange ==
    ASSUME NEW a \in Tree, NEW b \in Tree, NEW c \in DiffTrees(a, b), NEW d \in DiffTrees(a, b),
           c.path = d.path
    PROVE  c = d
    BY ChangeFacts

\* Base, what is here and what the cluster has.
Three(f, s, m) == f \in Tree /\ s \in Tree /\ m \in Tree /\ Whole(s) /\ Whole(m)

\* merge looks at the local change of the same path first.
LEMMA VerdictFacts ==
    ASSUME NEW f, NEW s, NEW m, Three(f, s, m), NEW c \in DiffTrees(f, m)
    PROVE  /\ f[c.path] # s[c.path] =>
                \E l \in DiffTrees(f, s) : l.path = c.path /\ Verdict(DiffTrees(f, s), c) = AtSamePath(l, c)
           /\ f[c.path] = s[c.path] => At(DiffTrees(f, s), c.path) = {}
<1>1. c.path \in Paths /\ f \in Tree /\ s \in Tree
    BY ChangeFacts DEF Three
<1>2. CASE f[c.path] # s[c.path]
  <2>1. At(DiffTrees(f, s), c.path) # {}
    BY <1>1, <1>2, DiffHas DEF At
  <2> DEFINE l == CHOOSE k \in At(DiffTrees(f, s), c.path) : TRUE
  <2>2. l \in At(DiffTrees(f, s), c.path)
    BY <2>1
  <2>3. Verdict(DiffTrees(f, s), c) = AtSamePath(l, c)
    BY <2>1 DEF Verdict
  <2> HIDE DEF l
  <2> QED
    BY <1>2, <2>2, <2>3 DEF At
<1>3. CASE f[c.path] = s[c.path]
    BY <1>1, <1>3, ChangeFacts DEF At
<1> QED
    BY <1>2, <1>3

\* An incoming change that puts something somewhere is applied or in conflict;
\* one that is applied over a local change finds the same entry there.
LEMMA AppliedChange ==
    ASSUME NEW f, NEW s, NEW m, Three(f, s, m),
           NEW c \in DiffTrees(f, m), c.kind # "deleted", Verdict(DiffTrees(f, s), c) # "conflict"
    PROVE  /\ Verdict(DiffTrees(f, s), c) = "apply"
           /\ ~Equivalent(f[c.path], s[c.path]) =>
                Equivalent(s[c.path], m[c.path]) /\ s[c.path] # Gone
           /\ c.kind \in {"mode", "meta"} => SameData(s[c.path], m[c.path])
<1> DEFINE r == c.path
<1>1. /\ f \in Tree /\ s \in Tree /\ m \in Tree /\ r \in Paths
      /\ f[r] \in Entries /\ s[r] \in Entries /\ m[r] \in Entries
      /\ c.new = m[r] /\ c.kind = Kind(f[r], m[r])
    BY ChangeFacts, TreeFacts DEF Three
<1>2. c.kind \in {"mode", "meta"} => SameData(f[r], m[r]) /\ f[r] # Gone
    BY <1>1, KindFacts DEF SameData
<1>3. CASE f[r] = s[r]
  <2>1. Equivalent(f[r], s[r])
    BY <1>3 DEF Equivalent, SameContent
  <2>2. Verdict(DiffTrees(f, s), c) = "apply"
    BY <1>3, VerdictFacts DEF Verdict
  <2> QED
    BY <1>2, <1>3, <2>1, <2>2
<1>4. CASE f[r] # s[r]
  <2>1. PICK l \in DiffTrees(f, s) : l.path = r /\ Verdict(DiffTrees(f, s), c) = AtSamePath(l, c)
    BY <1>4, VerdictFacts
  <2>2. l.kind = Kind(f[r], s[r]) /\ l.new = s[r]
    BY <1>1, <2>1, ChangeFacts
  <2>3. CASE l.kind = "meta"
    <3>1. Equivalent(f[r], s[r])
      BY <1>1, <2>2, <2>3, KindFacts
    <3>2. SameData(f[r], s[r])
      <4>1. Kind(f[r], s[r]) = "meta" /\ f[r] \in Entries /\ s[r] \in Entries
        BY <1>1, <2>2, <2>3
      <4> QED
        BY <4>1, KindFacts DEF SameData
    <3>3. Verdict(DiffTrees(f, s), c) = "apply"
      BY <2>1, <2>3 DEF AtSamePath
    <3>4. c.kind \in {"mode", "meta"} => SameData(s[r], m[r])
      BY <3>2, <1>2 DEF SameData, SameContent
    <3> QED
      BY <3>1, <3>3, <3>4
  <2>4. CASE l.kind # "meta"
    <3>1. Equivalent(s[r], m[r]) /\ Verdict(DiffTrees(f, s), c) = "apply" /\ l.kind # "deleted"
      BY <1>1, <2>1, <2>2, <2>4 DEF AtSamePath
    <3>2. s[r] # Gone
      BY <1>1, <1>4, <2>2, <3>1, KindFacts DEF Equivalent
    <3>3. SameData(s[r], m[r])
      BY <3>1, <3>2 DEF Equivalent, SameData
    <3> QED
      BY <3>1, <3>2, <3>3
  <2> QED
    BY <2>3, <2>4
<1> QED
    BY <1>3, <1>4

\* What an incoming change is put into was not removed here.
LEMMA AppliedAbove ==
    ASSUME NEW f, NEW s, NEW m, Three(f, s, m),
           NEW c \in DiffTrees(f, m), c.kind # "deleted", Verdict(DiffTrees(f, s), c) # "conflict",
           NEW q \in Above(c.path), IsDir(f[q])
    PROVE  IsDir(s[q])
<1> DEFINE r == c.path
<1>1. /\ f \in Tree /\ s \in Tree /\ r \in Paths /\ q \in Paths
      /\ f[r] \in Entries /\ s[r] \in Entries /\ f[q] \in Entries /\ s[q] \in Entries
      /\ c.kind = Kind(f[r], m[r])
    BY ChangeFacts, TreeFacts, PathFacts DEF Three
<1> SUFFICES ASSUME ~IsDir(s[q]) PROVE FALSE
    OBVIOUS
<1>2. f[q] # s[q] /\ f[q] # Gone
    BY <1>1, EntryFacts DEF IsDir
<1>3. PICK l \in DiffTrees(f, s) : l.path = q
    BY <1>1, <1>2, DiffHas
<1>4. l.kind = Kind(f[q], s[q]) /\ l.old = f[q]
    BY <1>1, <1>3, ChangeFacts
<1>5. l.kind = "deleted" \/ (l.kind = "type" /\ IsDir(l.old))
    BY <1>1, <1>2, <1>4, KindFacts DEF IsDir
<1>6. GoneAbove(DiffTrees(f, s), r)
    BY <1>3, <1>5 DEF GoneAbove
<1>7. s[r] = Gone
    BY <1>1 DEF Three, Whole
<1>8. CASE f[r] = s[r]
    BY <1>6, <1>8, VerdictFacts DEF Verdict
<1>9. CASE f[r] # s[r]
  <2>1. PICK k \in DiffTrees(f, s) : k.path = r /\ Verdict(DiffTrees(f, s), c) = AtSamePath(k, c)
    BY <1>9, VerdictFacts
  <2>2. k.kind = Kind(f[r], s[r])
    BY <1>1, <2>1, ChangeFacts
  <2>3. k.kind = "deleted"
    BY <1>1, <1>7, <1>9, <2>2, KindFacts
  <2> QED
    BY <2>1, <2>3 DEF AtSamePath
<1> QED
    BY <1>8, <1>9

\* A file takes the place of a directory with local changes in it only when the
\* directory's time is all that changed of it.
LEMMA AppliedOverDir ==
    ASSUME NEW f, NEW s, NEW m, Three(f, s, m),
           NEW c \in DiffTrees(f, m), Verdict(DiffTrees(f, s), c) # "conflict",
           m[c.path].type = "file", IsDir(s[c.path]), NEW p \in Below(c.path), ~Equivalent(f[p], s[p])
    PROVE  IsDir(f[c.path]) /\ Kind(f[c.path], s[c.path]) = "meta"
<1> DEFINE r == c.path
<1>1. /\ f \in Tree /\ s \in Tree /\ r \in Paths /\ p \in Paths /\ c.old = f[r]
      /\ f[r] \in Entries /\ s[r] \in Entries /\ m[r] \in Entries
      /\ f[p] \in Entries /\ s[p] \in Entries
      /\ c.kind = Kind(f[r], m[r])
    BY ChangeFacts, TreeFacts, PathFacts DEF Three
<1>2. c.kind # "deleted"
    BY <1>1, KindFacts, EntryFacts
<1>3. Equivalent(f[r], s[r])
    BY <1>2, AppliedChange DEF Equivalent, IsDir
<1>4. IsDir(f[r]) /\ Kind(f[r], s[r]) \in {"same", "meta"}
    BY <1>1, <1>3, KindFacts DEF Equivalent, IsDir
<1>5. CASE f[r] = s[r]
  <2>1. f[p] # s[p]
    BY <1>1 DEF Equivalent, SameContent
  <2>2. ChangedBelow(DiffTrees(f, s), r)
    BY <1>1, <2>1, DiffHas DEF ChangedBelow
  <2>3. c.kind = "type" /\ IsDir(c.old)
    BY <1>1, <1>4, KindFacts, EntryFacts DEF IsDir
  <2> QED
    BY <1>5, <2>2, <2>3, VerdictFacts DEF Verdict
<1>6. CASE f[r] # s[r]
    BY <1>1, <1>4, <1>6, KindFacts
<1> QED
    BY <1>5, <1>6

\* A deletion is applied to what was not changed here, and dropped only when
\* there is nothing left to delete.
LEMMA AppliedDeletion ==
    ASSUME NEW f, NEW s, NEW m, Three(f, s, m), NEW c \in DiffTrees(f, m), c.kind = "deleted"
    PROVE  /\ Verdict(DiffTrees(f, s), c) = "apply" => Equivalent(f[c.path], s[c.path])
           /\ Verdict(DiffTrees(f, s), c) \in {"apply", "drop", "conflict"}
           /\ Verdict(DiffTrees(f, s), c) = "drop" => s[c.path] = Gone
<1> DEFINE r == c.path
<1>1. /\ f \in Tree /\ s \in Tree /\ r \in Paths
      /\ f[r] \in Entries /\ s[r] \in Entries
    BY ChangeFacts, TreeFacts DEF Three
<1>2. CASE f[r] = s[r]
  <2>1. Equivalent(f[r], s[r])
    BY <1>2 DEF Equivalent, SameContent
  <2>2. Verdict(DiffTrees(f, s), c) \in {"apply", "drop", "conflict"}
    BY <1>2, VerdictFacts DEF Verdict
  <2>3. ASSUME Verdict(DiffTrees(f, s), c) = "drop" PROVE s[r] = Gone
    <3>1. GoneAbove(DiffTrees(f, s), r)
      BY <1>2, <2>3, VerdictFacts DEF Verdict
    <3>2. PICK l \in DiffTrees(f, s) :
            l.path \in Above(r) /\ (l.kind = "deleted" \/ (l.kind = "type" /\ IsDir(l.old)))
      BY <3>1 DEF GoneAbove
    <3>3. /\ l.path \in Paths /\ l.kind = Kind(f[l.path], s[l.path]) /\ l.old = f[l.path]
          /\ f[l.path] \in Entries /\ s[l.path] \in Entries
      BY <1>1, <3>2, ChangeFacts
    <3>4. ~IsDir(s[l.path])
      BY <3>2, <3>3, KindFacts, EntryFacts DEF IsDir
    <3> QED
      BY <1>1, <3>2, <3>4 DEF Three, Whole
  <2> QED
    BY <2>1, <2>2, <2>3
<1>3. CASE f[r] # s[r]
  <2>1. PICK l \in DiffTrees(f, s) : l.path = r /\ Verdict(DiffTrees(f, s), c) = AtSamePath(l, c)
    BY <1>3, VerdictFacts
  <2>2. l.kind = Kind(f[r], s[r])
    BY <1>1, <2>1, ChangeFacts
  <2>3. CASE l.kind = "meta"
    BY <1>1, <2>1, <2>2, <2>3, KindFacts DEF AtSamePath
  <2>4. CASE l.kind = "deleted"
    <3>1. s[r] = Gone
      BY <1>1, <2>2, <2>4, KindFacts
    <3>2. Verdict(DiffTrees(f, s), c) = "drop"
      BY <2>1, <2>4 DEF AtSamePath
    <3> QED
      BY <3>1, <3>2
  <2>5. CASE l.kind \notin {"meta", "deleted"}
    BY <2>1, <2>5 DEF AtSamePath
  <2> QED
    BY <2>3, <2>4, <2>5
<1> QED
    BY <1>2, <1>3

-----------------------------------------------------------------------------
\* What entries of a kin share.
LEMMA KinFacts ==
    ASSUME NEW a \in Entries, NEW b \in Entries, Kin(a, b)
    PROVE  /\ a = Gone <=> b = Gone
           /\ SameData(b, a) /\ SameData(a, b)
           /\ \A e \in Entries : Kin(b, e) => Kin(a, e)
           /\ b.type = "file" => b = a
           /\ IsDir(b) <=> IsDir(a)
           /\ b # Gone => b.mode = a.mode
<1>1. a.type \in {"file", "dir", "gone"} /\ (a = Gone <=> a.type = "gone") /\ (b = Gone <=> b.type = "gone")
    BY EntryFacts
<1> QED
    BY <1>1 DEF Kin, SameData, SameContent, IsDir

\* An entry is its own kin.
LEMMA KinSelf ==
    ASSUME NEW a
    PROVE  Kin(a, a)
    BY DEF Kin

\* clear_target.
LEMMA ClearedEffect ==
    ASSUME NEW t \in Tree, Whole(t), NEW c, c.path \in Paths, c.new \in Entry
    PROVE  LET u == Cleared(t, c)
               r == c.path
           IN  /\ u \in Tree /\ Whole(u)
               /\ u[r] # Gone => u[r] = t[r] /\ u[r].type = c.new.type
               /\ t[r].type = c.new.type => u = t
               /\ \A q \in Paths : q # r =>
                    Kin(t[q], u[q]) \/ (q \in Below(r) /\ u[q] = Gone /\ IsDir(t[r]) /\ c.new.type = "file")
<1> DEFINE u == Cleared(t, c)
           r == c.path
<1>1. t[r] \in Entries /\ c.new.type \in {"file", "dir"}
    BY TreeFacts DEF Entry
<1>2. CASE ~(t[r] # Gone /\ t[r].type # c.new.type)
  <2>1. u = t
    BY <1>2 DEF Cleared
  <2> QED
    BY <1>2, <2>1, KinSelf
<1>3. CASE t[r] # Gone /\ t[r].type # c.new.type
  <2>1. u = Placed(t, r, Gone, Now)
    BY <1>3 DEF Cleared, Removed
  <2>2. Gone \in Entries /\ Now \in Times
    BY PullAssumption DEF Entries, Now, Times
  <2>3. /\ u \in Tree /\ Whole(u) /\ u[r] = Gone
        /\ \A q \in Below(r) : u[q] = Gone
        /\ \A q \in Paths : q # r /\ q \notin Below(r) => Kin(t[q], u[q])
    BY <2>1, <2>2, PlacedEffect
  <2>4. ASSUME NEW q \in Paths, q \in Below(r), ~(IsDir(t[r]) /\ c.new.type = "file")
        PROVE  Kin(t[q], u[q])
    <3>1. ~IsDir(t[r])
      BY <1>1, <1>3, <2>4, EntryFacts DEF IsDir
    <3>2. t[q] = Gone
      BY <2>4, <3>1, PathFacts DEF Whole
    <3> QED
      BY <2>3, <2>4, <3>2, KinSelf
  <2> QED
    BY <1>3, <2>3, <2>4
<1> QED
    BY <1>2, <1>3

\* mkdir, or the file written.
LEMMA CreatedEffect ==
    ASSUME NEW t \in Tree, Whole(t), NEW c, c.path \in Paths, c.new \in Entry,
           t[c.path] # Gone => t[c.path].type = c.new.type,
           \A q \in Above(c.path) : IsDir(t[q])
    PROVE  LET u == Created(t, c)
               r == c.path
           IN  /\ u \in Tree /\ Whole(u)
               /\ \A q \in Paths : q # r => Kin(t[q], u[q])
               /\ IsDir(c.new) => IsDir(u[r]) /\ (u[r] = t[r] \/ u[r].mode = "own")
               /\ IsDir(c.new) /\ t[r] # Gone => u[r] = t[r]
               /\ ~IsDir(c.new) /\ c.kind \in {"mode", "meta"} => u = t
               /\ ~IsDir(c.new) /\ c.kind \notin {"mode", "meta"} =>
                    u[r].type = "file" /\ u[r].data = c.new.data /\ u[r].meta = Now
<1> DEFINE u == Created(t, c)
           r == c.path
           a == Dir("own", Now)
           b == File(c.new.data, "own", Now)
<1>1. /\ t[r] \in Entries /\ c.new \in Entries /\ c.new # Gone
      /\ Now \in Times /\ "own" \in Modes
    BY TreeFacts, PullAssumption DEF Entry, Entries, Gone, Now, Times, Modes
<1>2. c.new.type \in {"file", "dir"} /\ (c.new.type = "file" => c.new.data \in Data)
    BY <1>1, EntryFacts
<1>3. ASSUME NEW e \in Entries, e # Gone, ~IsDir(t[r]), u = Placed(t, r, e, Now)
      PROVE  u \in Tree /\ Whole(u) /\ u[r] = e /\ \A q \in Paths : q # r => Kin(t[q], u[q])
  <2>1. /\ u \in Tree /\ Whole(u) /\ u[r] = e
        /\ \A q \in Below(r) : u[q] = Gone
        /\ \A q \in Paths : q # r /\ q \notin Below(r) => Kin(t[q], u[q])
    BY <1>1, <1>3, PlacedEffect
  <2>2. ASSUME NEW q \in Paths, q \in Below(r) PROVE t[q] = Gone
    BY <1>3, <2>2, PathFacts DEF Whole
  <2> QED
    BY <2>1, <2>2, KinSelf
<1>4. CASE IsDir(c.new) /\ t[r] = Gone
  <2>1. a \in Entries /\ a # Gone /\ IsDir(a) /\ a.mode = "own"
    BY <1>1, DirFacts
  <2>2. u = Placed(t, r, a, Now) /\ ~IsDir(t[r])
    BY <1>1, <1>4, EntryFacts DEF Created, IsDir
  <2> HIDE DEF u, a
  <2>3. u \in Tree /\ Whole(u) /\ u[r] = a /\ \A q \in Paths : q # r => Kin(t[q], u[q])
    BY <1>3, <2>1, <2>2
  <2> QED
    BY <1>4, <2>1, <2>3 DEF u
<1>5. CASE IsDir(c.new) /\ t[r] # Gone
  <2>1. u = t /\ IsDir(t[r])
    BY <1>5 DEF Created, IsDir
  <2> QED
    BY <1>5, <2>1, KinSelf
<1>6. CASE ~IsDir(c.new) /\ c.kind \in {"mode", "meta"}
  <2>1. u = t
    BY <1>6 DEF Created
  <2> QED
    BY <1>6, <2>1, KinSelf
<1>7. CASE ~IsDir(c.new) /\ c.kind \notin {"mode", "meta"}
  <2>1. b \in Entries /\ b # Gone /\ b.type = "file" /\ b.data = c.new.data /\ b.meta = Now
    BY <1>1, <1>2, <1>7, FileFacts DEF IsDir
  <2>2. u = Placed(t, r, b, Now) /\ ~IsDir(t[r])
    BY <1>1, <1>7, EntryFacts DEF Created, IsDir
  <2> HIDE DEF u, b
  <2>3. u \in Tree /\ Whole(u) /\ u[r] = b /\ \A q \in Paths : q # r => Kin(t[q], u[q])
    BY <1>3, <2>1, <2>2
  <2> QED
    BY <1>7, <2>1, <2>3 DEF u
<1> QED
    BY <1>4, <1>5, <1>6, <1>7

\* An edit writes files at its time; a chmod leaves the time.
LEMMA EditedEffect ==
    ASSUME NEW t \in Tree, Whole(t), NEW time \in Times, NEW u \in Edited(t, time)
    PROVE  /\ u \in Tree /\ Whole(u)
           /\ \A q \in Paths : u[q].type = "file" =>
                \/ u[q].meta = time
                \/ t[q].type = "file" /\ u[q].data = t[q].data /\ u[q].meta = t[q].meta
<1>1. PICK p \in Paths :
        /\ InDir(t, p)
        /\ \/ \E e \in {File(d, "all", time) : d \in Data} \cup {Dir("all", time), Gone} :
                u = Placed(t, p, e, time)
           \/ t[p].type = "file" /\ \E d \in Data : u = [t EXCEPT ![p] = File(d, t[p].mode, time)]
           \/ t[p] # Gone /\ \E m \in Chmods : u = [t EXCEPT ![p].mode = m]
  <2> DEFINE A(p) == {Placed(t, p, e, time) :
                        e \in {File(d, "all", time) : d \in Data} \cup {Dir("all", time), Gone}}
             B(p) == {[t EXCEPT ![p] = File(d, t[p].mode, time)] : d \in Data}
             C(p) == {[t EXCEPT ![p].mode = m] : m \in Chmods}
             F(p) == A(p) \cup (IF t[p].type = "file" THEN B(p) ELSE {})
                          \cup (IF t[p] # Gone THEN C(p) ELSE {})
  <2>1. u \in UNION {F(p) : p \in {q \in Paths : InDir(t, q)}}
    BY DEF Edited
  <2> HIDE DEF F
  <2>2. PICK p \in Paths : InDir(t, p) /\ u \in F(p)
    BY <2>1
  <2>3. u \in A(p) \/ (t[p].type = "file" /\ u \in B(p)) \/ (t[p] # Gone /\ u \in C(p))
    <3> HIDE DEF A, B, C
    <3> QED
      BY <2>2 DEF F
  <2> QED
    BY <2>2, <2>3
<1>2. t[p] \in Entries /\ "all" \in Modes
    BY TreeFacts DEF Modes
<1>3. ASSUME NEW e \in {File(d, "all", time) : d \in Data} \cup {Dir("all", time), Gone},
             u = Placed(t, p, e, time)
      PROVE  /\ u \in Tree /\ Whole(u)
             /\ \A q \in Paths : u[q].type = "file" => u[q].meta = time \/ u[q] = t[q]
  <2>1. e \in Entries /\ (e.type = "file" => e.meta = time)
    <3>1. ASSUME NEW d \in Data, e = File(d, "all", time) PROVE e \in Entries /\ e.meta = time
      BY <1>2, <3>1, FileFacts
    <3>2. CASE e = Dir("all", time)
      BY <1>2, <3>2, DirFacts
    <3>3. CASE e = Gone
      BY <3>3, EntryFacts DEF Entries, Gone
    <3> QED
      BY <3>1, <3>2, <3>3
  <2>2. \A q \in Above(p) : IsDir(t[q])
    BY <1>1, AboveThere
  <2>3. /\ u \in Tree /\ Whole(u) /\ u[p] = e
        /\ \A q \in Below(p) : u[q] = Gone
        /\ \A q \in Paths : q # p /\ q \notin Below(p) => Kin(t[q], u[q])
    BY <1>3, <2>1, <2>2, PlacedEffect
  <2>4. ASSUME NEW q \in Paths, u[q].type = "file" PROVE u[q].meta = time \/ u[q] = t[q]
    <3>1. u[q] # Gone
      BY <2>3, <2>4, TreeFacts, EntryFacts
    <3>2. t[q] \in Entries /\ u[q] \in Entries
      BY <2>3, TreeFacts
    <3> QED
      BY <2>1, <2>3, <2>4, <3>1, <3>2, KinFacts
  <2> QED
    BY <2>3, <2>4
<1>4. ASSUME NEW d \in Data, t[p].type = "file", u = [t EXCEPT ![p] = File(d, t[p].mode, time)]
      PROVE  /\ u \in Tree /\ Whole(u)
             /\ \A q \in Paths : u[q].type = "file" => u[q].meta = time \/ u[q] = t[q]
  <2> DEFINE e == File(d, t[p].mode, time)
  <2>1. e \in Entries /\ e.type = "file" /\ e.meta = time
    BY <1>2, <1>4, EntryFacts, FileFacts
  <2> HIDE DEF e
  <2>2. u \in Tree /\ u[p] = e /\ \A q \in Paths : q # p => u[q] = t[q]
    BY <1>4, <2>1 DEF Tree, Entries, e
  <2>3. Whole(u)
    <3>1. \A q \in Paths : u[q].type = t[q].type
      BY <1>4, <2>1, <2>2
    <3> QED
      BY <2>2, <3>1, WholeByType
  <2> QED
    BY <2>1, <2>2, <2>3
<1>5. ASSUME NEW m \in Chmods, t[p] # Gone, u = [t EXCEPT ![p].mode = m]
      PROVE  /\ u \in Tree /\ Whole(u)
             /\ \A q \in Paths : u[q].type = "file" =>
                    t[q].type = "file" /\ u[q].data = t[q].data /\ u[q].meta = t[q].meta
  <2> DEFINE e == [t[p] EXCEPT !.mode = m]
  <2>1. m \in Modes
    BY FirstAssumption
  <2>2. /\ e \in Entries /\ e.type = t[p].type /\ (t[p].type = "file" => e.data = t[p].data)
        /\ e.meta = t[p].meta
    BY <1>2, <1>5, <2>1, ModeFacts
  <2>3. u = [t EXCEPT ![p] = e]
    BY <1>5
  <2> HIDE DEF e
  <2>4. u \in Tree /\ u[p] = e /\ \A q \in Paths : q # p => u[q] = t[q]
    BY <2>2, <2>3 DEF Tree, Entries
  <2>5. Whole(u)
    BY <2>2, <2>4, WholeByType
  <2> QED
    BY <2>2, <2>4, <2>5
<1>6. \A q \in Paths : u[q] = t[q] /\ u[q].type = "file" =>
            t[q].type = "file" /\ u[q].data = t[q].data /\ u[q].meta = t[q].meta
    OBVIOUS
<1> QED
    BY <1>1, <1>3, <1>4, <1>5, <1>6

-----------------------------------------------------------------------------
Pulling == phase # "idle"
To(cs, p) == \E c \in cs : c.path = p
Guarded(p) == \A q \in Above(p) : ~Unguarded(q)

\* Files of one time, not written here, have one content.
Agree(a, b) ==
    a.type = "file" /\ b.type = "file" /\ a.meta = b.meta /\ a.meta # Now => a.data = b.data

DatedAt(p) ==
    /\ base[p].type = "file" => base[p].meta <= edits.remote
    /\ remote[p].type = "file" => remote[p].meta <= edits.remote
    /\ disk[p].type = "file" => disk[p].meta <= edits.remote \/ disk[p].meta = Now
    /\ Agree(base[p], remote[p]) /\ Agree(base[p], disk[p]) /\ Agree(remote[p], disk[p])

KeptAt(p) == LocallyChanged(p) /\ Guarded(p) => SameData(disk[p], start[p])

\* What is still to be applied comes from base and the cluster's tree, and the
\* merge found no conflict.
Planned ==
    IF Pulling
    THEN /\ from = base /\ outcome = "none"
         /\ \A c \in Incoming : Verdict(Mine, c) # "conflict"
         /\ \A c \in dels : c \in Incoming /\ c.kind = "deleted" /\ Verdict(Mine, c) = "apply"
         /\ \A c \in rest : c \in Incoming /\ c.kind # "deleted"
         /\ \A c \in dirs : c \in Incoming /\ IsDir(c.new)
         /\ phase = "dels" => dirs = {}
         /\ phase # "dels" => dels = {}
         /\ phase = "restore" => rest = {}
    ELSE dels = {} /\ rest = {} /\ dirs = {} /\ DOMAIN restore = {}

\* A file of which only the mode or the time changed still has its content.
MetaAt(p) ==
    \A c \in rest : c.path = p /\ c.kind \in {"mode", "meta"} /\ c.new.type = "file" =>
        SameData(disk[p], start[p])

\* The cluster's directories are made in turn, and those here at the start stay.
DirAt(p) ==
    IsDir(remote[p]) /\ (IsDir(start[p]) \/ (from[p] # remote[p] /\ ~To(rest, p))) => IsDir(disk[p])

\* Nothing is there but what was there, or is the cluster's.
FoundAt(p) == disk[p] # Gone => start[p] # Gone \/ (remote[p] # Gone /\ phase # "dels")

\* Only what was read-only at the start is, and is opened.
ReadOnlyAt(p) ==
    /\ phase # "restore" /\ IsDir(disk[p]) /\ disk[p].mode = "ro" => IsDir(start[p]) /\ start[p].mode = "ro"
    /\ p \in DOMAIN restore => IsDir(start[p]) /\ start[p].mode = "ro" /\ restore[p] = "ro"

\* A deletion that was made left nothing, or a directory with local changes.
DeletedAt(p) ==
    remote[p] = Gone /\ from[p] # Gone /\ ~To(dels, p) =>
        disk[p] = Gone \/ (IsDir(disk[p]) /\ \E q \in Below(p) : LocallyChanged(q))

\* A directory that was finished has the cluster's mode.
DirDoneAt(p) ==
    IsDir(remote[p]) /\ from[p] # remote[p] /\ ~To(rest, p) /\ ~To(dirs, p) =>
        phase = "restore" /\ DOMAIN restore = {} /\ disk[p].mode = remote[p].mode

\* A file that was applied is the cluster's.
FileDoneAt(p) ==
    remote[p].type = "file" /\ from[p] # remote[p] /\ ~To(rest, p) /\ ~ReplacesReadOnly =>
        Equivalent(disk[p], remote[p])

\* What nobody changed is as it was, or open for the time of the apply.
SameAt(p) ==
    ~RemotelyChanged(p) /\ ~LocallyChanged(p) =>
        /\ SameData(disk[p], start[p])
        /\ disk[p] # Gone => disk[p].mode = start[p].mode \/ p \in DOMAIN restore

ApplyAt(p) ==
    /\ MetaAt(p) /\ DirAt(p) /\ FoundAt(p) /\ ReadOnlyAt(p)
    /\ DeletedAt(p) /\ DirDoneAt(p) /\ FileDoneAt(p) /\ SameAt(p)

PullInv ==
    /\ TypeOK /\ forced = FALSE
    /\ Whole(remote) /\ Whole(disk) /\ Whole(start)
    /\ Planned
    /\ PullIsThreeWay /\ FailsOnlyAtReadOnly
    /\ \A p \in Paths : DatedAt(p) /\ KeptAt(p)
    /\ Pulling => \A p \in Paths : ApplyAt(p)

-----------------------------------------------------------------------------
\* The empty tree.
LEMMA NowhereFacts ==
    /\ Nowhere \in Tree /\ Whole(Nowhere) /\ \A p \in Paths : Nowhere[p] = Gone
    /\ \A p \in Paths : Equivalent(Nowhere[p], Nowhere[p]) 
    BY DEF Nowhere, Tree, Whole, Equivalent

\* Times.
LEMMA TimesFacts ==
    /\ MaxEdits \in Nat /\ MaxCrashes \in Nat /\ Now \in Times /\ Now = MaxEdits + 1 /\ 0 \in Times
    /\ \A n \in 0..MaxEdits : n \in Times
    BY PullAssumption DEF Now, Times

\* A list of changes has its type.
LEMMA DiffTyped ==
    ASSUME NEW a \in Tree, NEW b \in Tree
    PROVE  DiffTrees(a, b) \subseteq Changes
<1> SUFFICES ASSUME NEW c \in DiffTrees(a, b) PROVE c \in Changes
    OBVIOUS
<1>1. /\ c = Change(c.path, a[c.path], b[c.path]) /\ c.path \in Paths
      /\ a[c.path] \in Entries /\ b[c.path] \in Entries /\ a[c.path] # b[c.path]
    BY ChangeFacts
<1> DEFINE k == Kind(a[c.path], b[c.path])
<1>2. k \in {"added", "deleted", "type", "modified", "mode", "meta"}
    BY <1>1, KindFacts
<1> HIDE DEF k
<1> QED
    BY <1>1, <1>2 DEF Change, Changes, Entries, k

\* Init.
LEMMA PullInvInit ==
    ASSUME Init
    PROVE  PullInv
<1> USE DEF Init
<1>1. /\ base \in Tree /\ Whole(base) /\ remote = base /\ disk = base
      /\ \A p \in Paths : base[p] # Gone => base[p].meta = 0
    BY FirstAssumption
<1>2. TypeOK
  <2>1. \A p \in Paths : disk[p] # Gone => InDir(disk, p)
    BY <1>1, WholeIsInDir
  <2>2. DOMAIN restore = {}
    OBVIOUS
  <2>3. edits \in [local : 0..MaxEdits, remote : 0..MaxEdits, crashes : 0..MaxCrashes]
    BY TimesFacts
  <2>4. forced \in BOOLEAN
    OBVIOUS
  <2> QED
    BY <1>1, <2>1, <2>2, <2>3, <2>4, NowhereFacts DEF TypeOK
<1>3. Planned
    BY DEF Planned, Pulling
<1>4. ASSUME NEW p \in Paths PROVE DatedAt(p) /\ KeptAt(p)
  <2>1. KeptAt(p)
    BY NowhereFacts DEF KeptAt, LocallyChanged
  <2>2. base[p].type = "file" => base[p].meta = 0
    BY <1>1, TreeFacts, EntryFacts
  <2> QED
    BY <1>1, <2>1, <2>2 DEF DatedAt, Agree
<1>5. PullIsThreeWay /\ FailsOnlyAtReadOnly
    BY DEF PullIsThreeWay, FailsOnlyAtReadOnly
<1> QED
    BY <1>1, <1>2, <1>3, <1>4, <1>5, NowhereFacts DEF PullInv, Pulling

\* What the invariant says of the variables.
LEMMA PullTypes ==
    ASSUME PullInv
    PROVE  /\ base \in Tree /\ remote \in Tree /\ disk \in Tree /\ start \in Tree /\ from \in Tree
           /\ Three(from, start, remote) /\ Whole(disk) /\ Whole(remote) /\ Whole(start)
           /\ edits \in [local : 0..MaxEdits, remote : 0..MaxEdits, crashes : 0..MaxCrashes]
           /\ edits.local \in Nat /\ edits.remote \in 0..MaxEdits /\ edits.crashes \in Nat
           /\ DOMAIN restore \subseteq Paths
    BY TimesFacts DEF PullInv, TypeOK, Three

\* A step to an idle state has little to keep.
LEMMA IdleStep ==
    ASSUME base' \in Tree, remote' \in Tree, disk' \in Tree, start' \in Tree, from' \in Tree,
           edits' \in [local : 0..MaxEdits, remote : 0..MaxEdits, crashes : 0..MaxCrashes],
           Whole(disk'), Whole(remote'), Whole(start'), phase' = "idle", forced' = FALSE,
           dels' = {}, rest' = {}, dirs' = {}, DOMAIN restore' = {},
           outcome' \in {"none", "uptodate", "conflict", "ok", "failed", "interrupted"},
           \A p \in Paths : DatedAt(p)' /\ KeptAt(p)',
           PullIsThreeWay', FailsOnlyAtReadOnly'
    PROVE  PullInv'
<1>1. \A p \in Paths : disk'[p] # Gone => InDir(disk', p)
    BY WholeIsInDir
<1>2. forced' \in BOOLEAN
    OBVIOUS
<1>3. TypeOK'
    BY <1>1, <1>2 DEF TypeOK
<1>4. Planned'
    BY DEF Planned, Pulling
<1> QED
    BY <1>3, <1>4 DEF PullInv, Pulling

\* An edit here.
LEMMA LocalEditStep ==
    ASSUME PullInv, LocalEdit
    PROVE  PullInv'
<1> USE PullTypes DEF LocalEdit, Forget
<1>1. /\ disk' \in Tree /\ Whole(disk')
      /\ \A q \in Paths : disk'[q].type = "file" =>
            \/ disk'[q].meta = Now
            \/ disk[q].type = "file" /\ disk'[q].data = disk[q].data /\ disk'[q].meta = disk[q].meta
    BY TimesFacts, EditedEffect
<1>2. /\ edits' \in [local : 0..MaxEdits, remote : 0..MaxEdits, crashes : 0..MaxCrashes]
      /\ edits'.remote = edits.remote /\ edits.remote \in Nat /\ edits.remote < Now
    BY TimesFacts
<1>3. ASSUME NEW p \in Paths PROVE DatedAt(p)'
  <2>1. DatedAt(p)
    BY DEF PullInv
  <2>2. base' = base /\ remote' = remote
    OBVIOUS
  <2>3. base[p].type = "file" => base[p].meta \in Nat
    BY TreeFacts, EntryFacts, TimesFacts DEF Times
  <2>4. remote[p].type = "file" => remote[p].meta \in Nat
    BY TreeFacts, EntryFacts, TimesFacts DEF Times
  <2> QED
    BY <1>1, <1>2, <2>1, <2>2, <2>3, <2>4 DEF DatedAt, Agree
<1>4. ASSUME NEW p \in Paths PROVE KeptAt(p)'
    BY NowhereFacts DEF KeptAt, LocallyChanged
<1>5. PullIsThreeWay' /\ FailsOnlyAtReadOnly'
    BY DEF PullIsThreeWay, FailsOnlyAtReadOnly
<1>6. dels' = {} /\ rest' = {} /\ dirs' = {} /\ DOMAIN restore' = {}
    BY DEF PullInv, Planned, Pulling
<1> QED
    BY <1>1, <1>2, <1>3, <1>4, <1>5, <1>6, NowhereFacts, IdleStep

\* An edit by others.
LEMMA RemoteEditStep ==
    ASSUME PullInv, RemoteEdit
    PROVE  PullInv'
<1> USE PullTypes DEF RemoteEdit, Forget
<1> DEFINE time == edits.remote + 1
<1>1. /\ edits' \in [local : 0..MaxEdits, remote : 0..MaxEdits, crashes : 0..MaxCrashes]
      /\ edits'.remote = time /\ edits.remote \in Nat /\ time \in Times /\ time < Now
    BY TimesFacts DEF Times
<1> HIDE DEF time
<1>2. /\ remote' \in Tree /\ Whole(remote')
      /\ \A q \in Paths : remote'[q].type = "file" =>
            \/ remote'[q].meta = time
            \/ /\ remote[q].type = "file" /\ remote'[q].data = remote[q].data
               /\ remote'[q].meta = remote[q].meta
    BY <1>1, EditedEffect DEF time
<1>3. ASSUME NEW p \in Paths PROVE DatedAt(p)'
  <2>1. DatedAt(p)
    BY DEF PullInv
  <2>2. base' = base /\ disk' = disk /\ time = edits.remote + 1
    BY DEF time
  <2>3. base[p].type = "file" => base[p].meta \in Nat
    BY TreeFacts, EntryFacts, TimesFacts DEF Times
  <2>4. remote[p].type = "file" => remote[p].meta \in Nat
    BY TreeFacts, EntryFacts, TimesFacts DEF Times
  <2>5. disk[p].type = "file" => disk[p].meta \in Nat
    BY TreeFacts, EntryFacts, TimesFacts DEF Times
  <2> QED
    BY <1>1, <1>2, <2>1, <2>2, <2>3, <2>4, <2>5, TimesFacts DEF DatedAt, Agree
<1>4. ASSUME NEW p \in Paths PROVE KeptAt(p)'
    BY NowhereFacts DEF KeptAt, LocallyChanged
<1>5. PullIsThreeWay' /\ FailsOnlyAtReadOnly'
    BY DEF PullIsThreeWay, FailsOnlyAtReadOnly
<1>6. dels' = {} /\ rest' = {} /\ dirs' = {} /\ DOMAIN restore' = {}
    BY DEF PullInv, Planned, Pulling
<1> QED
    BY <1>1, <1>2, <1>3, <1>4, <1>5, <1>6, NowhereFacts, IdleStep

\* Nothing to pull.
LEMMA PullUpToDateStep ==
    ASSUME PullInv, PullUpToDate
    PROVE  PullInv'
<1> USE PullTypes DEF PullUpToDate
<1>1. ASSUME NEW p \in Paths PROVE DatedAt(p)'
  <2>1. DatedAt(p) /\ base' = base /\ remote' = remote /\ disk' = disk /\ edits' = edits
    BY DEF PullInv
  <2> QED
    BY <2>1 DEF DatedAt
<1>2. ASSUME NEW p \in Paths PROVE KeptAt(p)'
    BY NowhereFacts DEF KeptAt, LocallyChanged
<1>3. PullIsThreeWay' /\ FailsOnlyAtReadOnly'
    BY DEF PullIsThreeWay, FailsOnlyAtReadOnly
<1>4. dels' = {} /\ rest' = {} /\ dirs' = {} /\ DOMAIN restore' = {}
    BY DEF PullInv, Planned, Pulling
<1> QED
    BY <1>1, <1>2, <1>3, <1>4, NowhereFacts, IdleStep

\* The scan sees every edit: what it does not read is base's.
LEMMA ScanSees ==
    ASSUME PullInv
    PROVE  Scan(base, disk) = DiffTrees(base, disk)
<1> USE PullTypes
<1>1. ASSUME NEW p \in Paths PROVE Scanned(base[p], disk[p]) = disk[p]
  <2>1. CASE ~(base[p].type = "file" /\ disk[p].type = "file" /\ disk[p].meta = base[p].meta)
    BY <2>1 DEF Scanned
  <2>2. CASE base[p].type = "file" /\ disk[p].type = "file" /\ disk[p].meta = base[p].meta
    <3>1. base[p].meta # Now
      <4>1. base[p].meta <= edits.remote
        BY <2>2 DEF PullInv, DatedAt
      <4>2. base[p].meta \in Nat
        BY <2>2, TreeFacts, EntryFacts, TimesFacts DEF Times
      <4> QED
        BY <4>1, <4>2, TimesFacts
    <3>2. base[p].data = disk[p].data
      BY <2>2, <3>1 DEF PullInv, DatedAt, Agree
    <3>3. disk[p] \in [type : {"file"}, data : Data, mode : Modes, meta : Times]
      BY <2>2, TreeFacts DEF Entries, Entry, Gone
    <3> QED
      BY <2>2, <3>2, <3>3 DEF Scanned
  <2> QED
    BY <2>1, <2>2
<1>2. [p \in Paths |-> Scanned(base[p], disk[p])] = disk
    BY <1>1 DEF Tree
<1> QED
    BY <1>2 DEF Scan

\* An entry is like itself.
LEMMA SelfSame ==
    ASSUME NEW e
    PROVE  SameData(e, e) /\ Equivalent(e, e)
    BY DEF SameData, Equivalent, SameContent

\* The merge, and the plan it makes.
LEMMA PullBeginsStep ==
    ASSUME PullInv, PullBegins(FALSE)
    PROVE  PullInv'
<1> DEFINE local == DiffTrees(base, disk)
           incoming == DiffTrees(base, remote)
           conflicts == Merged(local, incoming, "conflict")
           todo == Merged(local, incoming, "apply") \cup conflicts
<1>1. /\ phase = "idle" /\ remote # base /\ start' = disk /\ from' = base /\ forced' = FALSE
      /\ IF conflicts # {}
         THEN outcome' = "conflict" /\ UNCHANGED <<phase, dels, rest>>
         ELSE /\ phase' = "dels" /\ outcome' = "none"
              /\ dels' = {c \in todo : c.kind = "deleted"}
              /\ rest' = {c \in todo : c.kind # "deleted"}
      /\ UNCHANGED <<base, remote, disk, dirs, restore, edits>>
    BY ScanSees DEF PullBegins
<1>2. Incoming' = incoming /\ Mine' = local
    BY <1>1 DEF Incoming, Mine
<1>3. dels = {} /\ rest = {} /\ dirs = {} /\ DOMAIN restore = {}
    BY <1>1 DEF PullInv, Planned, Pulling
<1>4. ASSUME NEW p \in Paths PROVE DatedAt(p)' /\ KeptAt(p)'
  <2>1. KeptAt(p)'
    BY <1>1, SelfSame DEF KeptAt
  <2>2. DatedAt(p)
    BY DEF PullInv
  <2> QED
    BY <1>1, <2>1, <2>2 DEF DatedAt
<1>5. CASE conflicts # {}
  <2> HIDE DEF local, incoming, conflicts, todo
  <2>1. /\ outcome' = "conflict" /\ phase' = "idle"
        /\ dels' = {} /\ rest' = {} /\ dirs' = {} /\ DOMAIN restore' = {}
    BY <1>1, <1>3, <1>5
  <2>2. PullIsThreeWay' /\ FailsOnlyAtReadOnly'
    BY <2>1 DEF PullIsThreeWay, FailsOnlyAtReadOnly
  <2> QED
    BY <1>1, <1>4, <2>1, <2>2, PullTypes, IdleStep
<1>6. CASE conflicts = {}
  <2>1. phase' = "dels" /\ outcome' = "none" /\ dirs' = {} /\ DOMAIN restore' = {}
    BY <1>1, <1>3, <1>6
  <2>2. Three(base, disk, remote)
    BY PullTypes DEF Three
  <2>3. incoming \subseteq Changes
    BY PullTypes, DiffTyped
  <2>4. \A c \in incoming : Verdict(local, c) # "conflict"
    BY <1>6 DEF Merged
  <2>5. /\ \A c \in dels' : c \in incoming /\ c.kind = "deleted" /\ Verdict(local, c) = "apply"
        /\ \A c \in incoming : c.kind = "deleted" /\ Verdict(local, c) = "apply" => c \in dels'
        /\ \A c \in rest' : c \in incoming /\ c.kind # "deleted"
        /\ \A c \in incoming : c.kind # "deleted" /\ Verdict(local, c) = "apply" => c \in rest'
    BY <1>1, <1>6 DEF Merged
  <2>6. ASSUME NEW p \in Paths, base[p] # remote[p], remote[p] # Gone PROVE To(rest', p)
    <3>1. PICK c \in incoming : c.path = p
      BY <2>6, PullTypes, DiffHas
    <3>2. c.kind # "deleted"
      BY <2>6, <3>1, PullTypes, ChangeFacts
    <3>3. Verdict(local, c) = "apply"
      BY <2>2, <2>4, <3>2, AppliedChange
    <3> QED
      BY <2>5, <3>1, <3>2, <3>3 DEF To
  <2>7. ASSUME NEW p \in Paths, base[p] # Gone, remote[p] = Gone, ~To(dels', p) PROVE disk[p] = Gone
    <3>1. PICK c \in incoming : c.path = p
      BY <2>7, PullTypes, DiffHas
    <3>2. c.kind = "deleted"
      BY <2>7, <3>1, PullTypes, ChangeFacts
    <3>3. Verdict(local, c) = "drop"
      BY <2>2, <2>4, <2>5, <2>7, <3>1, <3>2, AppliedDeletion DEF To
    <3> QED
      BY <2>2, <3>1, <3>2, <3>3, AppliedDeletion
  <2> HIDE DEF local, incoming, conflicts, todo
  <2>8. TypeOK'
    <3>1. \A p \in Paths : disk[p] # Gone => InDir(disk, p)
      BY PullTypes, WholeIsInDir
    <3>2. forced' \in BOOLEAN
      BY <1>1
    <3>3. dels' \subseteq Changes /\ rest' \subseteq Changes
      BY <2>3, <2>5
    <3> QED
      BY <1>1, <2>1, <3>1, <3>2, <3>3, PullTypes DEF TypeOK
  <2>9. Planned'
    BY <1>1, <1>2, <2>1, <2>4, <2>5 DEF Planned, Pulling
  <2>10. PullIsThreeWay' /\ FailsOnlyAtReadOnly'
    BY <2>1 DEF PullIsThreeWay, FailsOnlyAtReadOnly
  <2>11. ASSUME NEW p \in Paths PROVE ApplyAt(p)'
    <3>1. /\ disk' = disk /\ start' = disk /\ remote' = remote /\ from' = base
          /\ remote[p] \in Entries /\ disk[p] \in Entries /\ base[p] \in Entries
          /\ remote[p].type \in {"file", "dir"} => remote[p] # Gone
          /\ IsDir(remote[p]) => remote[p] # Gone
      BY <1>1, PullTypes, TreeFacts, EntryFacts DEF IsDir
    <3>2. MetaAt(p)'
      BY <3>1, SelfSame DEF MetaAt
    <3>3. DirAt(p)' /\ FoundAt(p)'
      BY <2>6, <3>1 DEF DirAt, FoundAt
    <3>4. ReadOnlyAt(p)'
      BY <2>1, <3>1 DEF ReadOnlyAt
    <3>5. DeletedAt(p)'
      BY <2>7, <3>1 DEF DeletedAt
    <3>6. DirDoneAt(p)' /\ FileDoneAt(p)'
      BY <2>6, <3>1 DEF DirDoneAt, FileDoneAt
    <3>7. SameAt(p)'
      BY <3>1, SelfSame DEF SameAt
    <3> QED
      BY <3>2, <3>3, <3>4, <3>5, <3>6, <3>7 DEF ApplyAt
  <2> QED
    BY <1>1, <1>4, <2>8, <2>9, <2>10, <2>11, PullTypes DEF PullInv
<1> QED
    BY <1>5, <1>6

\* What a step of the apply that does not end it has to keep.
LEMMA ApplyStep ==
    ASSUME PullInv, Pulling, phase' \in {"dels", "rest", "restore"},
           UNCHANGED <<base, remote, start, from, forced, outcome, edits>>,
           disk' \in Tree, Whole(disk'),
           dels' \subseteq dels, rest' \subseteq rest, dirs' \subseteq dirs \cup rest,
           \A c \in dirs' : IsDir(c.new),
           DOMAIN restore' \subseteq Paths, \A p \in DOMAIN restore' : restore'[p] \in Modes,
           phase' = "dels" => dirs' = {}, phase' # "dels" => dels' = {}, phase' = "restore" => rest' = {},
           \A p \in Paths : DatedAt(p)' /\ KeptAt(p)' /\ ApplyAt(p)'
    PROVE  PullInv'
<1>1. TypeOK'
  <2>1. \A p \in Paths : disk'[p] # Gone => InDir(disk', p)
    BY WholeIsInDir
  <2>2. dels' \subseteq Changes /\ rest' \subseteq Changes /\ dirs' \subseteq Changes
    BY DEF PullInv, TypeOK
  <2>3. forced' = FALSE /\ FALSE \in BOOLEAN /\ outcome' = outcome
    BY DEF PullInv
  <2>4. outcome \in {"none", "uptodate", "conflict", "ok", "failed", "interrupted"}
    BY DEF PullInv, TypeOK
  <2> QED
    BY <2>1, <2>2, <2>3, <2>4, PullTypes DEF TypeOK
<1>2. Planned'
  <2>1. Incoming' = Incoming /\ Mine' = Mine
    BY DEF Incoming, Mine
  <2>2. Planned /\ Pulling
    BY DEF PullInv
  <2>3. /\ from = base /\ outcome = "none"
        /\ \A c \in Incoming : Verdict(Mine, c) # "conflict"
        /\ \A c \in dels : c \in Incoming /\ c.kind = "deleted" /\ Verdict(Mine, c) = "apply"
        /\ \A c \in rest : c \in Incoming /\ c.kind # "deleted"
        /\ \A c \in dirs : c \in Incoming
    BY <2>2 DEF Planned
  <2>4. \A c \in dirs' : c \in Incoming
    BY <2>3
  <2> QED
    BY <2>1, <2>3, <2>4 DEF Planned, Pulling
<1>3. outcome' = "none"
    BY DEF PullInv, Planned
<1>4. PullIsThreeWay' /\ FailsOnlyAtReadOnly'
    BY <1>3 DEF PullIsThreeWay, FailsOnlyAtReadOnly
<1> QED
    BY <1>1, <1>2, <1>4, PullTypes DEF PullInv

\* The end of a phase changes nothing else.
LEMMA PhaseStep ==
    ASSUME PullInv, DeletionsDone \/ EntriesDone
    PROVE  PullInv'
<1>1. /\ Pulling /\ phase' \in {"rest", "restore"} /\ phase # "restore"
      /\ UNCHANGED <<base, remote, disk, dels, rest, dirs, restore, forced, outcome, start, from, edits>>
      /\ phase' = "restore" => rest = {}
    BY DEF DeletionsDone, EntriesDone, Pulling
<1>2. dels = {} /\ \A c \in dirs : IsDir(c.new)
    BY <1>1 DEF PullInv, Planned, DeletionsDone, EntriesDone
<1>3. ASSUME NEW p \in Paths PROVE DatedAt(p)' /\ KeptAt(p)' /\ ApplyAt(p)'
  <2>1. DatedAt(p) /\ KeptAt(p) /\ ApplyAt(p)
    BY <1>1 DEF PullInv
  <2>2. DatedAt(p)'
    BY <1>1, <2>1 DEF DatedAt
  <2>3. /\ Guarded(p)' = Guarded(p) /\ LocallyChanged(p)' = LocallyChanged(p)
        /\ RemotelyChanged(p)' = RemotelyChanged(p)
    BY <1>1 DEF Guarded, Unguarded, LocallyChanged, RemotelyChanged
  <2>4. KeptAt(p)'
    BY <1>1, <2>1, <2>3 DEF KeptAt
  <2>5. MetaAt(p)' /\ DirAt(p)'
    BY <1>1, <2>1 DEF ApplyAt, MetaAt, DirAt, To
  <2>6. FoundAt(p)' /\ ReadOnlyAt(p)'
    BY <1>1, <2>1 DEF ApplyAt, FoundAt, ReadOnlyAt
  <2>7. DeletedAt(p)'
    BY <1>1, <2>1 DEF ApplyAt, DeletedAt, To, LocallyChanged
  <2>8. DirDoneAt(p)' /\ FileDoneAt(p)'
    BY <1>1, <2>1 DEF ApplyAt, DirDoneAt, FileDoneAt, To, ReplacesReadOnly
  <2>9. SameAt(p)'
    BY <1>1, <2>1, <2>3 DEF ApplyAt, SameAt
  <2> QED
    BY <2>2, <2>4, <2>5, <2>6, <2>7, <2>8, <2>9 DEF ApplyAt
<1>4. \A p \in DOMAIN restore : restore[p] \in Modes
    BY DEF PullInv, TypeOK
<1>5. /\ disk' \in Tree /\ Whole(disk') /\ DOMAIN restore' \subseteq Paths
      /\ \A p \in DOMAIN restore' : restore'[p] \in Modes
      /\ dels' \subseteq dels /\ rest' \subseteq rest /\ dirs' \subseteq dirs \cup rest
      /\ \A c \in dirs' : IsDir(c.new)
    BY <1>1, <1>2, <1>4, PullTypes
<1> QED
    BY <1>1, <1>2, <1>3, <1>5, ApplyStep

\* The end: all that was done makes a three-way merge.
LEMMA PullSavedStep ==
    ASSUME PullInv, PullSaved
    PROVE  PullInv'
<1> USE DEF PullSaved
<1>1. Pulling /\ dels = {} /\ rest = {} /\ dirs = {} /\ DOMAIN restore = {} /\ from = base /\ forced = FALSE
    BY DEF PullInv, Planned, Pulling
<1>2. ASSUME NEW p \in Paths PROVE DatedAt(p)' /\ KeptAt(p)'
  <2>1. DatedAt(p) /\ KeptAt(p)
    BY DEF PullInv
  <2>2. DatedAt(p)'
    BY <2>1 DEF DatedAt, Agree
  <2>3. Guarded(p)' = Guarded(p) /\ LocallyChanged(p)' = LocallyChanged(p)
    BY DEF Guarded, Unguarded, LocallyChanged
  <2> QED
    BY <2>1, <2>2, <2>3 DEF KeptAt
<1>3. ASSUME ~ReplacesReadOnly, NEW p \in Paths
      PROVE  /\ RemotelyChanged(p) =>
                  \/ Equivalent(disk[p], remote[p])
                  \/ remote[p] = Gone /\ IsDir(disk[p]) /\ \E q \in Below(p) : LocallyChanged(q)
             /\ ~RemotelyChanged(p) /\ ~LocallyChanged(p) => Equivalent(disk[p], start[p])
  <2>1. ApplyAt(p) /\ ~To(dels, p) /\ ~To(rest, p) /\ ~To(dirs, p)
    BY <1>1 DEF PullInv, To
  <2>2. /\ disk[p] \in Entries /\ remote[p] \in Entries /\ from[p] \in Entries
        /\ remote[p].type \in {"file", "dir", "gone"} /\ (remote[p] = Gone <=> remote[p].type = "gone")
        /\ disk[p] = Gone <=> disk[p].type = "gone"
    BY PullTypes, TreeFacts, EntryFacts
  <2>3. RemotelyChanged(p) => from[p] # remote[p]
    BY SelfSame DEF RemotelyChanged
  <2>4. ~RemotelyChanged(p) /\ ~LocallyChanged(p) => Equivalent(disk[p], start[p])
    BY <1>1, <2>1, <2>2 DEF ApplyAt, SameAt, Equivalent, SameData
  <2>5. ASSUME from[p] # remote[p]
        PROVE  \/ Equivalent(disk[p], remote[p])
               \/ remote[p] = Gone /\ IsDir(disk[p]) /\ \E q \in Below(p) : LocallyChanged(q)
    <3>1. CASE remote[p].type = "file"
      BY <1>3, <2>1, <2>5, <3>1 DEF ApplyAt, FileDoneAt
    <3>2. CASE remote[p].type = "dir"
      <4>1. IsDir(disk[p]) /\ disk[p].mode = remote[p].mode
        BY <2>1, <2>5, <3>2 DEF ApplyAt, DirAt, DirDoneAt, IsDir
      <4> QED
        BY <3>2, <4>1 DEF Equivalent, SameContent, IsDir
    <3>3. CASE remote[p].type = "gone"
      BY <2>1, <2>2, <2>5, <3>3 DEF ApplyAt, DeletedAt, Equivalent
    <3> QED
      BY <2>2, <3>1, <3>2, <3>3
  <2> QED
    BY <2>3, <2>4, <2>5
<1>4. PullIsThreeWay'
  <2>1. /\ ReplacesReadOnly' = ReplacesReadOnly /\ remote' = remote /\ disk' = disk /\ start' = start
        /\ \A p \in Paths :
            RemotelyChanged(p)' = RemotelyChanged(p) /\ LocallyChanged(p)' = LocallyChanged(p)
    BY DEF ReplacesReadOnly, RemotelyChanged, LocallyChanged
  <2>2. \A p \in Paths : \A q \in Below(p) : LocallyChanged(q)' = LocallyChanged(q)
    BY <2>1, PathFacts
  <2> QED
    BY <1>3, <2>1, <2>2 DEF PullIsThreeWay
<1>5. FailsOnlyAtReadOnly'
    BY DEF FailsOnlyAtReadOnly
<1> QED
    BY <1>1, <1>2, <1>4, <1>5, PullTypes, IdleStep

\* An apply that stops leaves base and what it was about.
LEMMA StoppedKeeps ==
    ASSUME PullInv, NEW how, Stops(how), disk' = disk, edits'.remote = edits.remote, NEW p \in Paths
    PROVE  DatedAt(p)' /\ KeptAt(p)'
<1> USE DEF Stops
<1>1. DatedAt(p) /\ KeptAt(p)
    BY DEF PullInv
<1>2. DatedAt(p)'
    BY <1>1 DEF DatedAt
<1>3. Guarded(p)' = Guarded(p) /\ LocallyChanged(p)' = LocallyChanged(p)
    BY DEF Guarded, Unguarded, LocallyChanged
<1> QED
    BY <1>1, <1>2, <1>3 DEF KeptAt

\* A mode given back.
LEMMA ApplyRestoreStep ==
    ASSUME PullInv, ApplyRestore
    PROVE  PullInv'
<1>1. PICK r \in DOMAIN restore :
        IF disk[r] = Gone
        THEN Stops("failed") /\ UNCHANGED disk
        ELSE /\ disk' = [disk EXCEPT ![r].mode = restore[r]]
             /\ restore' = [q \in DOMAIN restore \ {r} |-> restore[q]]
             /\ UNCHANGED <<base, remote, phase, dels, rest, dirs, forced, outcome, start, from>>
    BY DEF ApplyRestore
<1>2. /\ Pulling /\ phase = "restore" /\ edits' = edits /\ r \in Paths
      /\ dels = {} /\ rest = {} /\ \A c \in dirs : IsDir(c.new)
    BY <1>1, PullTypes DEF PullInv, Planned, Pulling, ApplyRestore
<1>3. /\ disk[r] \in Entries /\ restore[r] = "ro" /\ "ro" \in Modes
      /\ IsDir(start[r]) /\ start[r].mode = "ro"
  <2>1. ReadOnlyAt(r)
    BY <1>2 DEF PullInv, ApplyAt
  <2> QED
    BY <1>2, <2>1, PullTypes, TreeFacts DEF ReadOnlyAt, Modes
<1>4. CASE disk[r] = Gone
  <2>1. Stops("failed") /\ UNCHANGED disk
    BY <1>1, <1>4
  <2>2. ~IsDir(disk[r]) /\ DirAt(r)
    BY <1>2, <1>3, <1>4, EntryFacts DEF IsDir, PullInv, ApplyAt
  <2>3. ~IsDir(remote[r])
    BY <1>3, <2>2 DEF DirAt
  <2>4. FailsOnlyAtReadOnly'
    BY <1>2, <1>3, <2>1, <2>3 DEF FailsOnlyAtReadOnly, ReplacesReadOnly, Stops
  <2>5. PullIsThreeWay'
    BY <2>1 DEF PullIsThreeWay, Stops
  <2>6. ASSUME NEW p \in Paths PROVE DatedAt(p)' /\ KeptAt(p)'
    BY <1>2, <2>1, StoppedKeeps
  <2>7. forced' = FALSE /\ DOMAIN restore' = {}
    BY <2>1 DEF Stops, PullInv
  <2> QED
    BY <1>2, <2>1, <2>4, <2>5, <2>6, <2>7, PullTypes, IdleStep DEF Stops
<1>5. CASE disk[r] # Gone
  <2> DEFINE e == [disk[r] EXCEPT !.mode = "ro"]
  <2>1. /\ UNCHANGED <<base, remote, phase, dels, rest, dirs, forced, outcome, start, from>>
        /\ restore' = [q \in DOMAIN restore \ {r} |-> restore[q]]
        /\ disk' = [disk EXCEPT ![r] = e]
    BY <1>1, <1>3, <1>5
  <2>2. /\ e \in Entries /\ e.type = disk[r].type /\ (disk[r].type = "file" => e.data = disk[r].data)
        /\ e.mode = "ro" /\ e.meta = disk[r].meta
    BY <1>3, <1>5, ModeFacts
  <2> HIDE DEF e
  <2>3. disk' \in Tree /\ disk'[r] = e /\ \A q \in Paths : q # r => disk'[q] = disk[q]
    BY <1>2, <2>1, <2>2, PullTypes DEF Tree, Entries
  <2>4. Whole(disk')
    <3>1. \A q \in Paths : disk'[q].type = disk[q].type
      BY <1>2, <2>2, <2>3
    <3> QED
      BY <2>3, <3>1, PullTypes, WholeByType
  <2>5. DOMAIN restore' = DOMAIN restore \ {r} /\ \A q \in DOMAIN restore' : restore'[q] = restore[q]
    BY <2>1
  <2>6. ASSUME NEW p \in Paths PROVE DatedAt(p)' /\ KeptAt(p)' /\ ApplyAt(p)'
    <3>1. DatedAt(p) /\ KeptAt(p) /\ ApplyAt(p)
      BY <1>2 DEF PullInv
    <3>2. /\ Guarded(p)' = Guarded(p) /\ LocallyChanged(p)' = LocallyChanged(p)
          /\ RemotelyChanged(p)' = RemotelyChanged(p)
      BY <2>1 DEF Guarded, Unguarded, LocallyChanged, RemotelyChanged
    <3>3. /\ disk'[p].type = disk[p].type /\ disk'[p] \in Entries /\ disk[p] \in Entries
          /\ disk[p].type = "file" => disk'[p].data = disk[p].data /\ disk'[p].meta = disk[p].meta
      BY <2>2, <2>3, PullTypes, TreeFacts
    <3>4. disk'[p] = Gone <=> disk[p] = Gone
      BY <3>3, EntryFacts
    <3>5. \A a : SameData(disk[p], a) => SameData(disk'[p], a)
      BY <3>3 DEF SameData, SameContent
    <3>6. IsDir(disk'[p]) <=> IsDir(disk[p])
      BY <3>3 DEF IsDir
    <3>7. DatedAt(p)'
      BY <1>2, <2>1, <3>1, <3>3 DEF DatedAt, Agree
    <3>8. KeptAt(p)'
      BY <2>1, <3>1, <3>2, <3>5 DEF KeptAt
    <3>9. MetaAt(p)'
      BY <1>2, <2>1 DEF MetaAt
    <3>10. DirAt(p)' /\ FoundAt(p)'
      BY <2>1, <3>1, <3>4, <3>6 DEF ApplyAt, DirAt, FoundAt, To
    <3>11. ReadOnlyAt(p)'
      BY <1>2, <2>1, <2>5, <3>1 DEF ApplyAt, ReadOnlyAt
    <3>12. DeletedAt(p)'
      BY <2>1, <3>1, <3>4, <3>6 DEF ApplyAt, DeletedAt, To, LocallyChanged
    <3>13. DirDoneAt(p)'
      BY <1>1, <2>1, <3>1 DEF ApplyAt, DirDoneAt, To
    <3>14. FileDoneAt(p)'
      <4>1. CASE p = r
        BY <1>2, <1>3, <2>1, <4>1 DEF FileDoneAt, ReplacesReadOnly, IsDir
      <4>2. CASE p # r
        BY <2>1, <2>3, <3>1, <4>2 DEF ApplyAt, FileDoneAt, ReplacesReadOnly, To
      <4> QED
        BY <4>1, <4>2
    <3>15. SameAt(p)'
      <4>1. CASE p = r
        BY <1>3, <2>1, <2>2, <2>3, <3>1, <3>2, <3>5, <4>1 DEF ApplyAt, SameAt
      <4>2. CASE p # r
        BY <2>1, <2>3, <2>5, <3>1, <3>2, <3>5, <4>2 DEF ApplyAt, SameAt
      <4> QED
        BY <4>1, <4>2
    <3> QED
      BY <3>7, <3>8, <3>9, <3>10, <3>11, <3>12, <3>13, <3>14, <3>15 DEF ApplyAt
  <2>7. DOMAIN restore' \subseteq Paths /\ \A p \in DOMAIN restore' : restore'[p] \in Modes
    BY <2>5, PullTypes DEF PullInv, TypeOK
  <2>8. /\ dels' \subseteq dels /\ rest' \subseteq rest /\ dirs' \subseteq dirs \cup rest
        /\ \A c \in dirs' : IsDir(c.new)
        /\ phase' = "restore" /\ rest' = {} /\ dels' = {}
    BY <1>2, <2>1
  <2> QED
    BY <1>2, <2>1, <2>3, <2>4, <2>6, <2>7, <2>8, ApplyStep
<1> QED
    BY <1>4, <1>5

\* A directory's metadata.
LEMMA ApplyDirMetaStep ==
    ASSUME PullInv, ApplyDirMeta
    PROVE  PullInv'
<1>1. PICK c \in dirs : disk' = WithMeta(disk, c) /\ dirs' = dirs \ {c}
    BY DEF ApplyDirMeta
<1> DEFINE r == c.path
<1>2. /\ Pulling /\ phase = "restore" /\ DOMAIN restore = {}
      /\ UNCHANGED <<base, remote, phase, dels, rest, restore, forced, outcome, start, from, edits>>
      /\ dels = {} /\ rest = {} /\ \A d \in dirs : IsDir(d.new) /\ d \in Incoming
    BY DEF PullInv, Planned, Pulling, ApplyDirMeta
<1>3. /\ r \in Paths /\ c.new = remote[r] /\ from[r] # remote[r] /\ IsDir(remote[r])
      /\ remote[r] \in Entries /\ disk[r] \in Entries
    BY <1>1, <1>2, PullTypes, ChangeFacts, TreeFacts DEF Incoming
<1>4. c.new \in Entry /\ remote[r] # Gone
    BY <1>3, EntryFacts DEF IsDir
<1>5. IsDir(disk[r])
    BY <1>2, <1>3 DEF PullInv, ApplyAt, DirAt, To
<1>6. disk[r] # Gone
    BY <1>3, <1>5, EntryFacts DEF IsDir
<1>7. /\ disk' \in Tree /\ Whole(disk') /\ \A q \in Paths : q # r => disk'[q] = disk[q]
      /\ IsDir(disk'[r]) /\ disk'[r].mode = remote[r].mode
    BY <1>1, <1>3, <1>4, <1>5, <1>6, PullTypes, WithMetaEffect DEF IsDir
<1>8. ASSUME NEW p \in Paths, p # r PROVE To(dirs', p) <=> To(dirs, p)
    BY <1>1, <1>8 DEF To
<1> HIDE DEF r
<1>9. ASSUME NEW p \in Paths PROVE DatedAt(p)' /\ KeptAt(p)' /\ ApplyAt(p)'
  <2>1. DatedAt(p) /\ KeptAt(p) /\ ApplyAt(p)
    BY <1>2 DEF PullInv
  <2>2. /\ Guarded(p)' = Guarded(p) /\ LocallyChanged(p)' = LocallyChanged(p)
        /\ RemotelyChanged(p)' = RemotelyChanged(p)
    BY <1>2 DEF Guarded, Unguarded, LocallyChanged, RemotelyChanged
  <2>3. /\ disk'[p].type = disk[p].type /\ (disk[p].type = "file" => disk'[p] = disk[p])
        /\ disk'[p] \in Entries /\ disk[p] \in Entries
    BY <1>5, <1>7, PullTypes, TreeFacts DEF IsDir
  <2>4. disk'[p] = Gone <=> disk[p] = Gone
    BY <2>3, EntryFacts
  <2>5. \A a : SameData(disk[p], a) => SameData(disk'[p], a)
    BY <2>3 DEF SameData, SameContent
  <2>6. IsDir(disk'[p]) <=> IsDir(disk[p])
    BY <2>3 DEF IsDir
  <2>7. DatedAt(p)'
    BY <1>2, <2>1, <2>3 DEF DatedAt, Agree
  <2>8. KeptAt(p)'
    BY <1>2, <2>1, <2>2, <2>5 DEF KeptAt
  <2>9. MetaAt(p)'
    BY <1>2 DEF MetaAt
  <2>10. DirAt(p)' /\ FoundAt(p)'
    BY <1>2, <2>1, <2>4, <2>6 DEF ApplyAt, DirAt, FoundAt, To
  <2>11. ReadOnlyAt(p)'
    BY <1>2, <2>1 DEF ApplyAt, ReadOnlyAt
  <2>12. DeletedAt(p)'
    BY <1>2, <2>1, <2>4, <2>6 DEF ApplyAt, DeletedAt, To, LocallyChanged
  <2>13. DirDoneAt(p)'
    <3>1. CASE p = r
      BY <1>2, <1>7, <3>1 DEF DirDoneAt
    <3>2. CASE p # r
      BY <1>2, <1>7, <1>8, <2>1, <3>2 DEF ApplyAt, DirDoneAt
    <3> QED
      BY <3>1, <3>2
  <2>14. FileDoneAt(p)'
    <3>1. CASE p = r
      BY <1>2, <1>3, <3>1 DEF FileDoneAt, IsDir
    <3>2. CASE p # r
      BY <1>2, <1>7, <2>1, <3>2 DEF ApplyAt, FileDoneAt, ReplacesReadOnly, To
    <3> QED
      BY <3>1, <3>2
  <2>15. SameAt(p)'
    <3>1. CASE p = r
      <4>1. ~RemotelyChanged(r) /\ ~LocallyChanged(r) => remote[r].mode = start[r].mode
        BY <1>3, <1>4, PullTypes, TreeFacts, EntryFacts
           DEF RemotelyChanged, LocallyChanged, Equivalent, IsDir
      <4> QED
        BY <1>2, <1>7, <2>1, <2>2, <2>5, <3>1, <4>1 DEF ApplyAt, SameAt
    <3>2. CASE p # r
      BY <1>2, <1>7, <2>1, <2>2, <3>2 DEF ApplyAt, SameAt
    <3> QED
      BY <3>1, <3>2
  <2> QED
    BY <2>7, <2>8, <2>9, <2>10, <2>11, <2>12, <2>13, <2>14, <2>15 DEF ApplyAt
<1>10. \A p \in DOMAIN restore : restore[p] \in Modes
    BY DEF PullInv, TypeOK
<1>11. /\ DOMAIN restore' \subseteq Paths /\ \A p \in DOMAIN restore' : restore'[p] \in Modes
       /\ dels' \subseteq dels /\ rest' \subseteq rest /\ dirs' \subseteq dirs \cup rest
       /\ \A d \in dirs' : IsDir(d.new)
       /\ phase' = "restore" /\ rest' = {} /\ dels' = {}
    BY <1>1, <1>2, <1>10, PullTypes
<1> QED
    BY <1>2, <1>7, <1>9, <1>11, ApplyStep

-----------------------------------------------------------------------------
\* What a step at r does elsewhere: the time of a directory changes, the
\* directory of r is opened, and a file takes the place of what is below it.
Lost(u, r, q) == q \in Below(r) /\ u[q] = Gone /\ remote[r].type = "file"

Moved(u, r) ==
    \A q \in Paths : q # r =>
        \/ Kin(disk[q], u[q])
        \/ q \in Opens(disk, r) /\ IsDir(disk[q]) /\ IsDir(u[q]) /\ u[q].mode = "all"
        \/ Lost(u, r, q)

\* What that leaves of another path.
LEMMA MovedFacts ==
    ASSUME NEW u \in Tree, disk \in Tree, NEW r \in Paths, Moved(u, r), NEW q \in Paths, q # r
    PROVE  \/ Lost(u, r, q)
           \/ /\ disk[q] = Gone <=> u[q] = Gone
              /\ SameData(u[q], disk[q])
              /\ u[q].type = "file" \/ disk[q].type = "file" => u[q] = disk[q]
              /\ IsDir(u[q]) <=> IsDir(disk[q])
              /\ u[q] # Gone => u[q].mode = disk[q].mode \/ (q \in Opens(disk, r) /\ u[q].mode = "all")
<1>1. disk[q] \in Entries /\ u[q] \in Entries
    BY TreeFacts
<1>2. CASE Kin(disk[q], u[q])
    BY <1>1, <1>2, KinFacts DEF Kin
<1>3. CASE q \in Opens(disk, r) /\ IsDir(disk[q]) /\ IsDir(u[q]) /\ u[q].mode = "all"
  <2>1. disk[q] # Gone /\ u[q] # Gone
    BY <1>1, <1>3, EntryFacts DEF IsDir
  <2> QED
    BY <1>3, <2>1 DEF IsDir, SameData, SameContent
<1> QED
    BY <1>2, <1>3 DEF Moved

\* What is lost was not the cluster's, nor a local change that merge guards.
LEMMA LostFacts ==
    ASSUME PullInv, Pulling, NEW c \in Incoming, NEW u \in Tree, NEW q \in Paths, Lost(u, c.path, q)
    PROVE  /\ remote[q] = Gone /\ u[q] = Gone
           /\ LocallyChanged(q) /\ Guarded(q) => start[q] = Gone
<1> DEFINE r == c.path
<1>1. /\ from \in Tree /\ start \in Tree /\ remote \in Tree /\ r \in Paths /\ r \in Above(q)
      /\ Three(from, start, remote) /\ Verdict(Mine, c) # "conflict"
    BY PullTypes, ChangeFacts, PathFacts DEF Incoming, Lost, PullInv, Planned
<1>2. remote[q] = Gone
    BY <1>1, PullTypes DEF Lost, Whole, IsDir
<1>3. ASSUME LocallyChanged(q), Guarded(q), start[q] # Gone PROVE FALSE
  <2>1. IsDir(start[r])
    BY <1>1, <1>3, PullTypes DEF Whole
  <2>2. IsDir(from[r]) /\ Kind(from[r], start[r]) = "meta"
    BY <1>1, <1>3, <2>1, AppliedOverDir DEF Lost, Incoming, Mine, LocallyChanged
  <2> QED
    BY <1>1, <1>3, <2>2 DEF Guarded, Unguarded, Lost
<1> QED
    BY <1>2, <1>3 DEF Lost

\* A step at one path keeps local changes and files of known times elsewhere.
LEMMA ElsewhereKept ==
    ASSUME PullInv, Pulling, NEW c \in Incoming, disk' \in Tree, Moved(disk', c.path),
           UNCHANGED <<base, remote, start, from>>, edits'.remote = edits.remote,
           NEW p \in Paths, p # c.path
    PROVE  DatedAt(p)' /\ KeptAt(p)'
<1> DEFINE r == c.path
<1>1. r \in Paths
    BY PullTypes, ChangeFacts DEF Incoming
<1>2. DatedAt(p) /\ KeptAt(p)
    BY DEF PullInv
<1>3. Guarded(p)' = Guarded(p) /\ LocallyChanged(p)' = LocallyChanged(p)
    BY DEF Guarded, Unguarded, LocallyChanged
<1>4. CASE Lost(disk', r, p)
  <2>1. disk'[p] = Gone /\ (LocallyChanged(p) /\ Guarded(p) => start[p] = Gone)
    BY <1>4, LostFacts
  <2>2. disk'[p].type # "file"
    BY <2>1 DEF Gone
  <2>3. KeptAt(p)'
    BY <1>3, <2>1, SelfSame DEF KeptAt
  <2> QED
    BY <1>2, <2>2, <2>3 DEF DatedAt, Agree
<1>5. CASE ~Lost(disk', r, p)
  <2>1. SameData(disk'[p], disk[p]) /\ (disk'[p].type = "file" => disk'[p] = disk[p])
    BY <1>1, <1>5, PullTypes, MovedFacts
  <2>2. KeptAt(p)'
    BY <1>2, <1>3, <2>1 DEF KeptAt, SameData, SameContent
  <2> QED
    BY <1>2, <2>1, <2>2 DEF DatedAt, Agree
<1> QED
    BY <1>4, <1>5

\* The modes kept for the end are those of directories read-only at the start.
LEMMA RestoringFacts ==
    ASSUME PullInv, phase \in {"dels", "rest"}, NEW r \in Paths, restore' = Restoring(disk, r)
    PROVE  /\ DOMAIN restore' = DOMAIN restore \cup Opens(disk, r)
           /\ DOMAIN restore' \subseteq Paths
           /\ \A q \in DOMAIN restore' :
                IsDir(start[q]) /\ start[q].mode = "ro" /\ restore'[q] = "ro" /\ restore'[q] \in Modes
<1>1. /\ DOMAIN restore' = DOMAIN restore \cup Opens(disk, r)
      /\ \A q \in DOMAIN restore' : restore'[q] = IF q \in DOMAIN restore THEN restore[q] ELSE disk[q].mode
    BY DEF Restoring
<1>2. ASSUME NEW q \in Opens(disk, r) PROVE q \in Paths /\ IsDir(disk[q]) /\ disk[q].mode = "ro"
    BY PullTypes, OpenedEffect
<1>3. ASSUME NEW q \in Paths PROVE ReadOnlyAt(q)
    BY DEF PullInv, ApplyAt, Pulling
<1> QED
    BY <1>1, <1>2, <1>3, PullTypes DEF ReadOnlyAt, Modes

\* ... and all that the apply has done elsewhere so far.
LEMMA ElsewhereApplied ==
    ASSUME PullInv, phase \in {"dels", "rest"}, NEW c \in Incoming, disk' \in Tree, Moved(disk', c.path),
           UNCHANGED <<base, remote, phase, start, from>>, restore' = Restoring(disk, c.path),
           rest' \subseteq rest,
           NEW p \in Paths, p # c.path,
           To(dels', p) <=> To(dels, p), To(rest', p) <=> To(rest, p), To(dirs', p) <=> To(dirs, p)
    PROVE  ApplyAt(p)'
<1> DEFINE r == c.path
<1>1. r \in Paths /\ Pulling /\ phase # "restore" /\ phase' # "restore"
    BY PullTypes, ChangeFacts DEF Incoming, Pulling
<1>2. ApplyAt(p)
    BY <1>1 DEF PullInv
<1>3. LocallyChanged(p)' = LocallyChanged(p) /\ RemotelyChanged(p)' = RemotelyChanged(p)
    BY DEF LocallyChanged, RemotelyChanged
<1>4. /\ DOMAIN restore' = DOMAIN restore \cup Opens(disk, r)
      /\ p \in DOMAIN restore' => IsDir(start[p]) /\ start[p].mode = "ro" /\ restore'[p] = "ro"
    BY <1>1, RestoringFacts
<1>5. /\ disk[p] \in Entries /\ disk'[p] \in Entries /\ remote[p] \in Entries
      /\ from[p] \in Entries /\ start[p] \in Entries
    BY PullTypes, TreeFacts
<1>6. CASE Lost(disk', r, p)
  <2>1. disk'[p] = Gone /\ remote[p] = Gone
    BY <1>1, <1>6, LostFacts
  <2>2. disk'[p].type = "gone" /\ remote[p].type = "gone" /\ ~IsDir(disk'[p]) /\ ~IsDir(remote[p])
    BY <2>1 DEF Gone, IsDir
  <2>3. MetaAt(p)'
    <3>1. ASSUME NEW d \in rest', d.path = p PROVE FALSE
      <4>1. d \in Incoming /\ d.kind # "deleted"
        BY <1>1, <3>1 DEF PullInv, Planned
      <4> QED
        BY <2>1, <3>1, <4>1, PullTypes, ChangeFacts DEF Incoming
    <3> QED
      BY <3>1 DEF MetaAt
  <2>4. DirAt(p)' /\ FoundAt(p)'
    BY <2>1, <2>2 DEF DirAt, FoundAt
  <2>5. ReadOnlyAt(p)'
    BY <1>4, <2>2 DEF ReadOnlyAt
  <2>6. DeletedAt(p)'
    BY <2>1 DEF DeletedAt
  <2>7. DirDoneAt(p)' /\ FileDoneAt(p)'
    BY <2>2 DEF DirDoneAt, FileDoneAt
  <2>8. SameAt(p)'
    <3>1. ~RemotelyChanged(p) /\ ~LocallyChanged(p) => start[p] = Gone
      BY <1>5, <2>2, EntryFacts DEF RemotelyChanged, LocallyChanged, Equivalent
    <3> QED
      BY <1>3, <2>1, <3>1, SelfSame DEF SameAt
  <2> QED
    BY <2>3, <2>4, <2>5, <2>6, <2>7, <2>8 DEF ApplyAt
<1>7. CASE ~Lost(disk', r, p)
  <2>1. /\ disk[p] = Gone <=> disk'[p] = Gone
        /\ SameData(disk'[p], disk[p])
        /\ disk[p].type = "file" => disk'[p] = disk[p]
        /\ IsDir(disk'[p]) <=> IsDir(disk[p])
        /\ disk'[p] # Gone =>
            disk'[p].mode = disk[p].mode \/ (p \in Opens(disk, r) /\ disk'[p].mode = "all")
    BY <1>1, <1>7, PullTypes, MovedFacts
  <2>2. \A a : SameData(disk[p], a) => SameData(disk'[p], a)
    BY <2>1 DEF SameData, SameContent
  <2>3. MetaAt(p)'
    BY <1>2, <2>2 DEF ApplyAt, MetaAt
  <2>4. DirAt(p)' /\ FoundAt(p)'
    BY <1>2, <2>1 DEF ApplyAt, DirAt, FoundAt
  <2>5. ReadOnlyAt(p)'
    BY <1>1, <1>2, <1>4, <1>5, <2>1, EntryFacts DEF ApplyAt, ReadOnlyAt, IsDir
  <2>6. DeletedAt(p)'
    BY <1>2, <2>1 DEF ApplyAt, DeletedAt, LocallyChanged
  <2>7. DirDoneAt(p)'
    BY <1>1, <1>2 DEF ApplyAt, DirDoneAt
  <2>8. FileDoneAt(p)'
    BY <1>2, <2>1 DEF ApplyAt, FileDoneAt, ReplacesReadOnly, Equivalent
  <2>9. SameAt(p)'
    BY <1>2, <1>3, <1>4, <2>1, <2>2 DEF ApplyAt, SameAt
  <2> QED
    BY <2>3, <2>4, <2>5, <2>6, <2>7, <2>8, <2>9 DEF ApplyAt
<1> QED
    BY <1>6, <1>7

-----------------------------------------------------------------------------
\* A deletion removes at most its own path.
LEMMA DeletionEffect ==
    ASSUME disk \in Tree, Whole(disk), NEW r \in Paths
    PROVE  LET u == RemovedIfEmpty(Opened(disk, r), r)
           IN  /\ u \in Tree /\ Whole(u) /\ Moved(u, r)
               /\ u[r] = Gone \/ (u[r] = disk[r] /\ \E q \in Below(r) : disk[q] # Gone)
<1> DEFINE t == Opened(disk, r)
           u == RemovedIfEmpty(t, r)
<1>1. /\ t \in Tree /\ Whole(t)
      /\ \A q \in Paths : q \notin Opens(disk, r) => t[q] = disk[q]
      /\ \A q \in Opens(disk, r) :
            q \in Paths /\ q \in Above(r) /\ IsDir(disk[q]) /\ IsDir(t[q]) /\ t[q].mode = "all"
    BY OpenedEffect
<1> HIDE DEF t
<1>2. t[r] = disk[r] /\ \A q \in Below(r) : t[q] = disk[q]
    BY <1>1, PathFacts
<1>3. CASE ~(t[r] # Gone /\ \A q \in Below(r) : t[q] = Gone)
  <2>1. u = t
    BY <1>3 DEF RemovedIfEmpty
  <2>2. Moved(u, r)
    BY <1>1, <2>1, KinSelf DEF Moved
  <2> QED
    BY <1>1, <1>2, <1>3, <2>1, <2>2 DEF t
<1>4. CASE t[r] # Gone /\ \A q \in Below(r) : t[q] = Gone
  <2>1. u = Placed(t, r, Gone, Now)
    BY <1>4 DEF RemovedIfEmpty, Removed
  <2>2. Gone \in Entries /\ Now \in Times
    BY TimesFacts DEF Entries
  <2>3. /\ u \in Tree /\ Whole(u) /\ u[r] = Gone
        /\ \A q \in Below(r) : u[q] = Gone
        /\ \A q \in Paths : q # r /\ q \notin Below(r) => Kin(t[q], u[q])
    BY <1>1, <2>1, <2>2, PlacedEffect
  <2> HIDE DEF u
  <2>4. ASSUME NEW q \in Paths, q # r
        PROVE  \/ Kin(disk[q], u[q])
               \/ q \in Opens(disk, r) /\ IsDir(disk[q]) /\ IsDir(u[q]) /\ u[q].mode = "all"
    <3>1. CASE q \in Below(r)
      BY <1>2, <1>4, <2>3, <3>1, KinSelf
    <3>2. CASE q \notin Below(r) /\ q \notin Opens(disk, r)
      BY <1>1, <2>3, <2>4, <3>2
    <3>3. CASE q \notin Below(r) /\ q \in Opens(disk, r)
      <4>1. Kin(t[q], u[q]) /\ IsDir(t[q]) /\ t[q].mode = "all" /\ IsDir(disk[q])
        BY <1>1, <2>3, <2>4, <3>3
      <4> QED
        BY <3>3, <4>1 DEF Kin, IsDir
    <3> QED
      BY <3>1, <3>2, <3>3
  <2>5. Moved(u, r)
    BY <2>4 DEF Moved
  <2> QED
    BY <2>3, <2>5 DEF u, t
<1> QED
    BY <1>3, <1>4

\* A deletion, whose own path is left empty or with local changes in it.
LEMMA ApplyDeletionStep ==
    ASSUME PullInv, ApplyDeletion
    PROVE  PullInv'
<1>1. PICK c \in dels :
        /\ \A o \in dels : o.path \notin Below(c.path)
        /\ dels' = dels \ {c}
        /\ IF Blocked(disk, c.path)
           THEN UNCHANGED <<disk, restore>>
           ELSE /\ restore' = Restoring(disk, c.path)
                /\ disk' = RemovedIfEmpty(Opened(disk, c.path), c.path)
    BY DEF ApplyDeletion
<1> DEFINE r == c.path
<1>2. /\ Pulling /\ phase = "dels" /\ phase' = "dels"
      /\ UNCHANGED <<base, remote, phase, rest, dirs, forced, outcome, start, from, edits>>
      /\ \A d \in dels : d \in Incoming /\ d.kind = "deleted" /\ Verdict(Mine, d) = "apply"
      /\ dirs = {}
    BY DEF PullInv, Planned, Pulling, ApplyDeletion
<1>3. c \in Incoming /\ r \in Paths /\ remote[r] = Gone /\ from[r] # Gone /\ ~LocallyChanged(r)
  <2>1. /\ c \in DiffTrees(from, remote) /\ Three(from, start, remote)
        /\ c.kind = "deleted" /\ Verdict(DiffTrees(from, start), c) = "apply"
    BY <1>1, <1>2, PullTypes DEF Incoming, Mine
  <2>2. r \in Paths /\ remote[r] = Gone /\ from[r] # remote[r]
    BY <2>1, PullTypes, ChangeFacts
  <2>3. ~LocallyChanged(r)
    BY <2>1, AppliedDeletion DEF LocallyChanged
  <2> QED
    BY <2>1, <2>2, <2>3 DEF Incoming
<1>4. ASSUME NEW p \in Paths, p # r PROVE To(dels', p) <=> To(dels, p)
    BY <1>1, <1>4 DEF To
<1>5. ASSUME NEW p \in Paths PROVE To(rest', p) <=> To(rest, p)
    BY <1>2 DEF To
<1>6. ASSUME NEW p \in Paths PROVE To(dirs', p) <=> To(dirs, p)
    BY <1>2 DEF To
<1>7. /\ disk' \in Tree /\ Whole(disk') /\ DOMAIN restore' \subseteq Paths
      /\ \A q \in DOMAIN restore' : restore'[q] \in Modes
      /\ \A q \in DOMAIN restore' : IsDir(start[q]) /\ start[q].mode = "ro" /\ restore'[q] = "ro"
      /\ disk'[r] = Gone \/ (disk'[r] = disk[r] /\ \E q \in Below(r) : disk[q] # Gone)
      /\ \A p \in Paths : p # r => DatedAt(p)' /\ KeptAt(p)' /\ ApplyAt(p)'
  <2>1. CASE Blocked(disk, r)
    <3>1. disk' = disk /\ restore' = restore
      BY <1>1, <2>1
    <3>2. disk[r] = Gone
      BY <1>3, <2>1, PullTypes DEF Blocked, Whole, IsDir
    <3>3. \A q \in Paths : ReadOnlyAt(q)
      BY <1>2 DEF PullInv, ApplyAt
    <3>4. ASSUME NEW p \in Paths, p # r PROVE DatedAt(p)' /\ KeptAt(p)' /\ ApplyAt(p)'
      <4>1. DatedAt(p) /\ KeptAt(p) /\ ApplyAt(p)
        BY <1>2 DEF PullInv
      <4>2. /\ LocallyChanged(p)' = LocallyChanged(p) /\ RemotelyChanged(p)' = RemotelyChanged(p)
            /\ Guarded(p)' = Guarded(p)
        BY <1>2 DEF LocallyChanged, RemotelyChanged, Guarded, Unguarded
      <4>3. DatedAt(p)' /\ KeptAt(p)'
        BY <1>2, <3>1, <4>1, <4>2 DEF DatedAt, KeptAt
      <4>4. MetaAt(p)' /\ DirAt(p)' /\ FoundAt(p)' /\ ReadOnlyAt(p)'
        BY <1>2, <1>5, <3>1, <4>1 DEF ApplyAt, MetaAt, DirAt, FoundAt, ReadOnlyAt
      <4>5. DeletedAt(p)'
        BY <1>2, <1>4, <3>1, <3>4, <4>1 DEF ApplyAt, DeletedAt, LocallyChanged
      <4>6. DirDoneAt(p)' /\ FileDoneAt(p)'
        BY <1>2, <1>5, <1>6, <3>1, <4>1 DEF ApplyAt, DirDoneAt, FileDoneAt, ReplacesReadOnly
      <4>7. SameAt(p)'
        BY <1>2, <3>1, <4>1, <4>2 DEF ApplyAt, SameAt
      <4> QED
        BY <4>3, <4>4, <4>5, <4>6, <4>7 DEF ApplyAt
    <3> QED
      BY <3>1, <3>2, <3>3, <3>4, PullTypes DEF ReadOnlyAt, PullInv, TypeOK
  <2>2. CASE ~Blocked(disk, r)
    <3>1. restore' = Restoring(disk, r) /\ disk' = RemovedIfEmpty(Opened(disk, r), r)
      BY <1>1, <2>2
    <3>2. /\ disk' \in Tree /\ Whole(disk') /\ Moved(disk', r)
          /\ disk'[r] = Gone \/ (disk'[r] = disk[r] /\ \E q \in Below(r) : disk[q] # Gone)
      BY <1>3, <3>1, PullTypes, DeletionEffect
    <3>3. ASSUME NEW p \in Paths, p # r PROVE DatedAt(p)' /\ KeptAt(p)'
      BY <1>2, <1>3, <3>2, <3>3, ElsewhereKept
    <3>4. ASSUME NEW p \in Paths, p # r PROVE ApplyAt(p)'
      BY <1>2, <1>3, <1>4, <1>5, <1>6, <3>1, <3>2, <3>4, ElsewhereApplied
    <3> QED
      BY <1>2, <1>3, <3>1, <3>2, <3>3, <3>4, RestoringFacts
  <2> QED
    BY <2>1, <2>2
<1>8. DatedAt(r)' /\ KeptAt(r)' /\ ApplyAt(r)'
  <2>1. DatedAt(r) /\ ApplyAt(r)
    BY <1>2, <1>3 DEF PullInv
  <2>2. disk'[r] = Gone \/ disk'[r] = disk[r]
    BY <1>7
  <2>3. DatedAt(r)'
    BY <1>2, <2>1, <2>2 DEF DatedAt, Agree, Gone
  <2>4. KeptAt(r)'
    BY <1>2, <1>3 DEF KeptAt, LocallyChanged
  <2>5. remote[r].type = "gone" /\ ~IsDir(remote[r]) /\ from[r].type # "gone" /\ RemotelyChanged(r)
    BY <1>3, PullTypes, TreeFacts, EntryFacts DEF IsDir, Gone, RemotelyChanged, Equivalent
  <2>6. MetaAt(r)'
    <3>1. ASSUME NEW d \in rest', d.path = r PROVE FALSE
      <4>1. d \in Incoming /\ d.kind # "deleted"
        BY <1>2, <3>1 DEF PullInv, Planned
      <4> QED
        BY <1>3, <3>1, <4>1, PullTypes, ChangeFacts DEF Incoming
    <3> QED
      BY <3>1 DEF MetaAt
  <2>7. DirAt(r)' /\ FoundAt(r)'
    BY <1>2, <2>1, <2>2, <2>5 DEF ApplyAt, DirAt, FoundAt
  <2>8. ReadOnlyAt(r)'
    BY <1>2, <1>7, <2>1, <2>2 DEF ApplyAt, ReadOnlyAt, IsDir, Gone
  <2>9. ASSUME disk'[r] # Gone
        PROVE  IsDir(disk'[r]) /\ \E q \in Below(r) : LocallyChanged(q)
    <3>1. PICK q \in Below(r) : disk'[r] = disk[r] /\ disk[q] # Gone
      BY <1>7, <2>9
    <3>2. q \in Paths /\ r \in Above(q)
      BY <1>3, PathFacts
    <3>3. IsDir(disk[r])
      BY <3>1, <3>2, PullTypes DEF Whole
    <3>4. start[q] # Gone
      BY <1>2, <3>1, <3>2 DEF PullInv, ApplyAt, FoundAt
    <3>5. remote[q] = Gone
      BY <2>5, <3>2, PullTypes DEF Whole
    <3>6. CASE LocallyChanged(q)
      BY <3>1, <3>3, <3>6
    <3>7. CASE ~LocallyChanged(q)
      <4>1. from[q] # Gone
        BY <3>2, <3>4, <3>7, PullTypes, TreeFacts, EntryFacts DEF LocallyChanged, Equivalent
      <4>2. ~To(dels, q)
        BY <1>1 DEF To
      <4>3. \E k \in Below(q) : LocallyChanged(k)
        BY <1>2, <3>1, <3>2, <3>5, <4>1, <4>2 DEF PullInv, ApplyAt, DeletedAt
      <4> QED
        BY <1>3, <3>1, <3>3, <4>3, BelowBelow
    <3> QED
      BY <3>6, <3>7
  <2>10. DeletedAt(r)'
    BY <1>2, <2>9 DEF DeletedAt, LocallyChanged
  <2>11. DirDoneAt(r)' /\ FileDoneAt(r)'
    BY <1>2, <2>5 DEF DirDoneAt, FileDoneAt
  <2>12. SameAt(r)'
    BY <1>2, <2>5 DEF SameAt, RemotelyChanged
  <2> QED
    BY <2>3, <2>4, <2>6, <2>7, <2>8, <2>10, <2>11, <2>12 DEF ApplyAt
<1>9. \A p \in Paths : DatedAt(p)' /\ KeptAt(p)' /\ ApplyAt(p)'
    BY <1>7, <1>8
<1>10. dels' \subseteq dels /\ rest' \subseteq rest /\ dirs' = {}
    BY <1>1, <1>2
<1> QED
    BY <1>2, <1>7, <1>9, <1>10, ApplyStep

-----------------------------------------------------------------------------
\* An entry in turn: nothing above it is still to be applied.
InTurn(c) == c \in rest /\ \A o \in rest : o.path \notin Above(c.path)

\* What the plan says of it.
LEMMA InTurnFacts ==
    ASSUME PullInv, phase = "rest", NEW c, InTurn(c)
    PROVE  /\ c \in Incoming /\ c.path \in Paths /\ c.new = remote[c.path] /\ c.new \in Entry
           /\ remote[c.path] # Gone /\ from[c.path] # remote[c.path] /\ c.kind # "deleted"
           /\ Verdict(Mine, c) # "conflict"
           /\ LocallyChanged(c.path) => Equivalent(start[c.path], remote[c.path]) /\ start[c.path] # Gone
           /\ c.kind \in {"mode", "meta"} => SameData(start[c.path], remote[c.path])
<1>1. c \in Incoming /\ c.kind # "deleted" /\ Verdict(Mine, c) # "conflict"
    BY DEF InTurn, PullInv, Planned, Pulling
<1>2. /\ c.path \in Paths /\ c.new = remote[c.path] /\ remote[c.path] # Gone
      /\ from[c.path] # remote[c.path]
    BY <1>1, PullTypes, ChangeFacts DEF Incoming
<1>3. c.new \in Entry
    BY <1>2, PullTypes, TreeFacts, EntryFacts
<1> QED
    BY <1>1, <1>2, <1>3, PullTypes, AppliedChange DEF Incoming, Mine, LocallyChanged

\* Its directories are there: the cluster's, made before, or those of the
\* start, which no local change removed.
LEMMA ParentsThere ==
    ASSUME PullInv, phase = "rest", NEW c, InTurn(c)
    PROVE  /\ \A q \in Above(c.path) : IsDir(disk[q])
           /\ ~Blocked(disk, c.path) /\ WithParents(disk, c.path) = disk
<1>1. ASSUME NEW q \in Above(c.path) PROVE IsDir(disk[q]) /\ disk[q] # Gone
  <2>1. c \in Incoming /\ c.path \in Paths /\ remote[c.path] # Gone /\ q \in Paths
        /\ c.kind # "deleted" /\ Verdict(Mine, c) # "conflict"
    BY InTurnFacts, PathFacts
  <2>2. IsDir(remote[q])
    BY <2>1, PullTypes DEF Whole
  <2>3. ~To(rest, q) /\ DirAt(q)
    BY <2>1 DEF InTurn, To, PullInv, ApplyAt, Pulling
  <2>4. ASSUME from[q] # remote[q] PROVE IsDir(disk[q])
    BY <2>2, <2>3, <2>4 DEF DirAt
  <2>5. ASSUME from[q] = remote[q] PROVE IsDir(disk[q])
    <3>1. IsDir(start[q])
      BY <2>1, <2>2, <2>5, PullTypes, AppliedAbove DEF Incoming, Mine
    <3> QED
      BY <2>2, <2>3, <3>1 DEF DirAt
  <2>6. IsDir(disk[q])
    BY <2>4, <2>5
  <2> QED
    BY <2>1, <2>6, PullTypes, TreeFacts, EntryFacts DEF IsDir
<1>2. ~Blocked(disk, c.path)
    BY <1>1 DEF Blocked, IsDir
<1>3. WithParents(disk, c.path) = disk
  <2>1. \A q \in Paths : WithParents(disk, c.path)[q] = disk[q]
    BY <1>1 DEF WithParents
  <2>2. /\ disk \in [Paths -> Entries]
        /\ WithParents(disk, c.path) = [q \in Paths |-> WithParents(disk, c.path)[q]]
    BY PullTypes DEF Tree, Entries, WithParents
  <2> QED
    BY <2>1, <2>2
<1> QED
    BY <1>1, <1>2, <1>3

\* The entry cleared, and created without its metadata.
LEMMA EntryEffect ==
    ASSUME PullInv, phase = "rest", NEW c, InTurn(c)
    PROVE  LET r == c.path
               t == Cleared(Prepared(c), c)
               u == Created(t, c)
           IN  /\ t \in Tree /\ Whole(t) /\ Moved(t, r)
               /\ t[r] # Gone => t[r] = disk[r]
               /\ disk[r].type = remote[r].type => t[r] = disk[r]
               /\ u \in Tree /\ Whole(u) /\ Moved(u, r)
               /\ u[r].type = remote[r].type
               /\ IsDir(remote[r]) => u[r] = disk[r] \/ (u[r].mode = "own" /\ ~IsDir(disk[r]))
               /\ remote[r].type = "file" =>
                    u[r].data = remote[r].data /\ (u[r].meta = Now \/ u[r] = disk[r])
<1> DEFINE r == c.path
           w == Opened(disk, r)
           t == Cleared(w, c)
           u == Created(t, c)
<1>1. /\ r \in Paths /\ c.new = remote[r] /\ c.new \in Entry /\ c \in rest
      /\ c.kind \in {"mode", "meta"} => SameData(start[r], remote[r])
    BY InTurnFacts DEF InTurn
<1>2. Prepared(c) = w /\ \A q \in Above(r) : IsDir(disk[q])
    BY ParentsThere DEF Prepared
<1>3. /\ w \in Tree /\ Whole(w)
      /\ \A q \in Paths : q \notin Opens(disk, r) => w[q] = disk[q]
      /\ \A q \in Opens(disk, r) :
            q \in Paths /\ q \in Above(r) /\ IsDir(disk[q]) /\ IsDir(w[q]) /\ w[q].mode = "all"
    BY <1>1, PullTypes, OpenedEffect
<1> HIDE DEF w
<1>4. w[r] = disk[r] /\ \A q \in Above(r) : IsDir(w[q])
    BY <1>1, <1>2, <1>3, PathFacts
<1>5. /\ t \in Tree /\ Whole(t)
      /\ t[r] # Gone => t[r] = w[r] /\ t[r].type = c.new.type
      /\ w[r].type = c.new.type => t = w
      /\ \A q \in Paths : q # r =>
            Kin(w[q], t[q]) \/ (q \in Below(r) /\ t[q] = Gone /\ IsDir(w[r]) /\ c.new.type = "file")
    BY <1>1, <1>3, ClearedEffect
<1> HIDE DEF t
<1>6. \A q \in Above(r) : IsDir(t[q])
  <2> SUFFICES ASSUME NEW q \in Above(r) PROVE IsDir(t[q])
    OBVIOUS
  <2>1. q \in Paths /\ q # r /\ q \notin Below(r)
    BY <1>1, PathFacts
  <2>2. Kin(w[q], t[q]) /\ IsDir(w[q])
    BY <1>4, <1>5, <2>1
  <2> QED
    BY <2>2 DEF Kin, IsDir
<1>7. /\ u \in Tree /\ Whole(u)
      /\ \A q \in Paths : q # r => Kin(t[q], u[q])
      /\ IsDir(c.new) => IsDir(u[r]) /\ (u[r] = t[r] \/ u[r].mode = "own")
      /\ IsDir(c.new) /\ t[r] # Gone => u[r] = t[r]
      /\ ~IsDir(c.new) /\ c.kind \in {"mode", "meta"} => u = t
      /\ ~IsDir(c.new) /\ c.kind \notin {"mode", "meta"} =>
            u[r].type = "file" /\ u[r].data = c.new.data /\ u[r].meta = Now
    BY <1>1, <1>5, <1>6, CreatedEffect
<1> HIDE DEF u
<1>8. ASSUME NEW x \in Tree, NEW y \in Tree, Moved(x, r),
             \A q \in Paths : q # r => Kin(x[q], y[q]) \/ Lost(y, r, q)
      PROVE  Moved(y, r)
  <2> SUFFICES ASSUME NEW q \in Paths, q # r, ~Lost(y, r, q)
               PROVE  \/ Kin(disk[q], y[q])
                      \/ q \in Opens(disk, r) /\ IsDir(disk[q]) /\ IsDir(y[q]) /\ y[q].mode = "all"
    BY DEF Moved
  <2>1. Kin(x[q], y[q]) /\ x[q] \in Entries /\ y[q] \in Entries /\ disk[q] \in Entries
    BY <1>8, PullTypes, TreeFacts
  <2>2. CASE Kin(disk[q], x[q])
    BY <2>1, <2>2, KinFacts
  <2>3. CASE q \in Opens(disk, r) /\ IsDir(disk[q]) /\ IsDir(x[q]) /\ x[q].mode = "all"
    BY <2>1, <2>3 DEF Kin, IsDir
  <2>4. CASE Lost(x, r, q)
    <3>1. x[q] = Gone
      BY <2>4 DEF Lost
    <3>2. y[q] = Gone
      BY <2>1, <3>1, KinFacts
    <3> QED
      BY <2>4, <3>2 DEF Lost
  <2> QED
    BY <1>8, <2>2, <2>3, <2>4 DEF Moved
<1>9. Moved(w, r)
    BY <1>3, KinSelf DEF Moved
<1>10. Moved(t, r)
  <2>1. \A q \in Paths : q # r => Kin(w[q], t[q]) \/ Lost(t, r, q)
    BY <1>1, <1>5 DEF Lost
  <2> QED
    BY <1>3, <1>5, <1>8, <1>9, <2>1
<1>11. Moved(u, r)
    BY <1>5, <1>7, <1>8, <1>10
<1>12. /\ disk[r] \in Entries /\ remote[r] \in Entries
       /\ remote[r] # Gone /\ remote[r].type \in {"file", "dir"}
    BY <1>1, PullTypes, TreeFacts, InTurnFacts DEF Entry
<1>13. disk[r].type = remote[r].type => t[r] = disk[r] /\ t[r] # Gone
    BY <1>1, <1>4, <1>5, <1>12, EntryFacts
<1>14. CASE IsDir(remote[r])
  <2>1. IsDir(u[r]) /\ u[r] \in Entries /\ (u[r] = t[r] \/ u[r].mode = "own")
    BY <1>1, <1>7, <1>14, TreeFacts
  <2>2. u[r].type = remote[r].type /\ u[r] # Gone
    BY <1>14, <2>1, EntryFacts DEF IsDir
  <2>3. CASE IsDir(disk[r])
    <3>1. u[r] = disk[r]
      BY <1>1, <1>7, <1>13, <1>14, <2>3 DEF IsDir
    <3> QED
      BY <1>2, <1>4, <1>5, <1>7, <1>10, <1>11, <1>13, <1>14, <2>2, <3>1 DEF IsDir, t, u
  <2>4. CASE ~IsDir(disk[r])
    <3>1. t[r] = Gone
      BY <1>1, <1>4, <1>5, <1>14, <2>4 DEF IsDir
    <3>2. u[r].mode = "own"
      BY <2>1, <2>2, <3>1
    <3> QED
      BY <1>2, <1>5, <1>7, <1>10, <1>11, <1>13, <1>14, <2>2, <2>4, <3>1, <3>2 DEF IsDir, t, u
  <2> QED
    BY <2>3, <2>4
<1>15. CASE remote[r].type = "file" /\ c.kind \notin {"mode", "meta"}
    BY <1>1, <1>2, <1>4, <1>5, <1>7, <1>10, <1>11, <1>13, <1>15 DEF IsDir, t, u
<1>16. CASE remote[r].type = "file" /\ c.kind \in {"mode", "meta"}
  <2>1. SameData(disk[r], start[r])
    BY <1>1, <1>16 DEF PullInv, ApplyAt, MetaAt, Pulling
  <2>2. disk[r].type = "file" /\ disk[r].data = remote[r].data
    BY <1>1, <1>16, <2>1 DEF SameData, SameContent
  <2>3. u = t /\ t[r] = disk[r]
    BY <1>1, <1>7, <1>13, <1>16, <2>2 DEF IsDir
  <2> QED
    BY <1>2, <1>5, <1>7, <1>10, <1>11, <1>16, <2>2, <2>3 DEF IsDir, t, u
<1> QED
    BY <1>12, <1>14, <1>15, <1>16 DEF IsDir

\* An entry, which never fails.
LEMMA ApplyEntryStep ==
    ASSUME PullInv, ApplyEntry
    PROVE  PullInv'
<1>1. phase = "rest" /\ edits' = edits
    BY DEF ApplyEntry
<1>2. PICK c \in rest :
        /\ \A o \in rest : o.path \notin Above(c.path)
        /\ LET t == Created(Cleared(Prepared(c), c), c) IN
           CASE Blocked(disk, c.path) -> Stops("failed") /\ UNCHANGED disk
             [] ~Blocked(disk, c.path) /\ t[c.path] = Gone -> Stops("failed") /\ disk' = t
             [] OTHER ->
                    /\ rest' = rest \ {c}
                    /\ restore' = Restoring(WithParents(disk, c.path), c.path)
                    /\ disk' = IF IsDir(c.new) THEN t ELSE WithMeta(t, c)
                    /\ dirs' = IF IsDir(c.new) THEN dirs \cup {c} ELSE dirs
                    /\ UNCHANGED <<base, remote, phase, dels, forced, outcome, start, from>>
    BY DEF ApplyEntry
<1> DEFINE r == c.path
           u == Created(Cleared(Prepared(c), c), c)
<1>3. InTurn(c)
    BY <1>2 DEF InTurn
<1>4. /\ c \in Incoming /\ r \in Paths /\ c.new = remote[r] /\ c.new \in Entry
      /\ remote[r] # Gone /\ from[r] # remote[r] /\ c.kind # "deleted"
      /\ LocallyChanged(r) => Equivalent(start[r], remote[r]) /\ start[r] # Gone
    BY <1>1, <1>3, InTurnFacts
<1>5. /\ u \in Tree /\ Whole(u) /\ Moved(u, r) /\ u[r].type = remote[r].type
      /\ IsDir(remote[r]) => u[r] = disk[r] \/ (u[r].mode = "own" /\ ~IsDir(disk[r]))
      /\ remote[r].type = "file" => u[r].data = remote[r].data
    BY <1>1, <1>3, EntryEffect
<1>6. ~Blocked(disk, r) /\ WithParents(disk, r) = disk
    BY <1>1, <1>3, ParentsThere
<1>7. /\ remote[r] \in Entries /\ disk[r] \in Entries /\ u[r] \in Entries
      /\ from[r] \in Entries /\ start[r] \in Entries
      /\ remote[r].type \in {"file", "dir"} /\ u[r] # Gone
    BY <1>4, <1>5, PullTypes, TreeFacts, EntryFacts
<1>8. /\ rest' = rest \ {c} /\ restore' = Restoring(disk, r)
      /\ disk' = IF IsDir(c.new) THEN u ELSE WithMeta(u, c)
      /\ dirs' = IF IsDir(c.new) THEN dirs \cup {c} ELSE dirs
      /\ UNCHANGED <<base, remote, phase, dels, forced, outcome, start, from>>
    BY <1>2, <1>6, <1>7
<1> HIDE DEF u
<1>9. /\ disk' \in Tree /\ Whole(disk') /\ Moved(disk', r) /\ disk'[r].type = remote[r].type
      /\ IsDir(remote[r]) => disk'[r] = disk[r] \/ (disk'[r].mode = "own" /\ ~IsDir(disk[r]))
      /\ remote[r].type = "file" =>
            /\ disk'[r].data = remote[r].data /\ disk'[r].mode = remote[r].mode
            /\ disk'[r].meta = remote[r].meta
  <2>1. CASE IsDir(c.new)
    BY <1>4, <1>5, <1>8, <2>1 DEF IsDir
  <2>2. CASE ~IsDir(c.new)
    <3>1. /\ disk' \in Tree /\ Whole(disk')
          /\ \A q \in Paths : q # r => disk'[q] = u[q]
          /\ disk'[r].type = u[r].type
          /\ u[r].type = "file" => disk'[r].data = u[r].data
          /\ disk'[r].mode = c.new.mode /\ disk'[r].meta = c.new.meta
      BY <1>4, <1>5, <1>7, <1>8, <2>2, WithMetaEffect
    <3>2. Moved(disk', r)
      BY <1>5, <3>1 DEF Moved, Lost
    <3> QED
      BY <1>4, <1>5, <2>2, <3>1, <3>2
  <2> QED
    BY <2>1, <2>2
<1>10. ASSUME NEW p \in Paths, p # r
       PROVE  /\ To(dels', p) <=> To(dels, p)
              /\ To(rest', p) <=> To(rest, p)
              /\ To(dirs', p) <=> To(dirs, p)
    BY <1>8, <1>10 DEF To
<1>11. Pulling /\ rest' \subseteq rest /\ dels = {} /\ \A d \in dirs : IsDir(d.new)
    BY <1>1, <1>8 DEF PullInv, Planned, Pulling
<1>12. ASSUME NEW p \in Paths, p # r PROVE DatedAt(p)' /\ KeptAt(p)' /\ ApplyAt(p)'
  <2>1. DatedAt(p)' /\ KeptAt(p)'
    BY <1>1, <1>4, <1>8, <1>9, <1>11, <1>12, ElsewhereKept
  <2>2. ApplyAt(p)'
    BY <1>1, <1>4, <1>8, <1>9, <1>10, <1>11, <1>12, ElsewhereApplied
  <2> QED
    BY <2>1, <2>2
<1>13. /\ DOMAIN restore' \subseteq Paths
       /\ \A q \in DOMAIN restore' :
            IsDir(start[q]) /\ start[q].mode = "ro" /\ restore'[q] = "ro" /\ restore'[q] \in Modes
       /\ DOMAIN restore \subseteq DOMAIN restore'
    BY <1>1, <1>4, <1>8, RestoringFacts
<1>14. DatedAt(r)' /\ KeptAt(r)' /\ ApplyAt(r)'
  <2>1. DatedAt(r) /\ ApplyAt(r)
    BY <1>4, <1>11 DEF PullInv
  <2>2. DatedAt(r)'
    BY <1>1, <1>8, <1>9, <2>1 DEF DatedAt, Agree
  <2>3. SameData(disk'[r], remote[r])
    BY <1>9 DEF SameData, SameContent
  <2>4. KeptAt(r)'
    <3>1. LocallyChanged(r) => SameData(disk'[r], start[r])
      BY <1>4, <1>7, <2>3 DEF Equivalent, SameData, SameContent
    <3> QED
      BY <1>8, <3>1 DEF KeptAt, LocallyChanged
  <2>5. ~To(rest', r)
    <3>1. ASSUME NEW d \in rest', d.path = r PROVE FALSE
      <4>1. d \in Incoming /\ d # c
        BY <1>1, <1>8, <3>1 DEF PullInv, Planned, Pulling
      <4> QED
        BY <1>4, <3>1, <4>1, PullTypes, OneChange DEF Incoming
    <3> QED
      BY <3>1 DEF To
  <2>6. MetaAt(r)'
    BY <2>5 DEF MetaAt, To
  <2>7. DirAt(r)' /\ FoundAt(r)'
    BY <1>1, <1>4, <1>8, <1>9 DEF DirAt, FoundAt, IsDir
  <2>8. ReadOnlyAt(r)'
    BY <1>1, <1>8, <1>9, <1>13, <2>1 DEF ApplyAt, ReadOnlyAt, IsDir
  <2>9. DeletedAt(r)'
    BY <1>4, <1>8 DEF DeletedAt
  <2>10. DirDoneAt(r)'
    BY <1>4, <1>8 DEF DirDoneAt, To
  <2>11. FileDoneAt(r)'
    BY <1>8, <1>9, <2>3 DEF FileDoneAt, Equivalent, SameData
  <2>12. SameAt(r)'
    <3>1. ASSUME ~RemotelyChanged(r), ~LocallyChanged(r)
          PROVE  /\ SameData(disk'[r], start[r])
                 /\ disk'[r].mode = start[r].mode \/ r \in DOMAIN restore'
      <4>1. from[r] # Gone
        BY <1>4, <1>7, <3>1, EntryFacts DEF RemotelyChanged, Equivalent
      <4>2. /\ from[r].type = remote[r].type /\ from[r].mode = remote[r].mode
            /\ from[r].type = start[r].type /\ from[r].mode = start[r].mode
            /\ from[r].type = "file" => from[r].data = remote[r].data /\ from[r].data = start[r].data
        BY <3>1, <4>1 DEF RemotelyChanged, LocallyChanged, Equivalent, SameContent
      <4>3. SameData(disk'[r], start[r])
        BY <1>9, <4>2 DEF SameData, SameContent
      <4>4. CASE remote[r].type = "file"
        BY <1>9, <4>2, <4>3, <4>4
      <4>5. CASE IsDir(remote[r])
        <5>1. IsDir(disk[r])
          BY <2>1, <4>2, <4>5 DEF ApplyAt, DirAt, IsDir
        <5>2. disk'[r] = disk[r]
          BY <1>9, <4>5, <5>1
        <5>3. disk[r] # Gone
          BY <1>7, <5>1, EntryFacts DEF IsDir
        <5> QED
          BY <1>13, <2>1, <3>1, <4>3, <5>2, <5>3 DEF ApplyAt, SameAt
      <4> QED
        BY <1>7, <4>4, <4>5 DEF IsDir
    <3> QED
      BY <1>8, <3>1 DEF SameAt, RemotelyChanged, LocallyChanged
  <2> QED
    BY <2>2, <2>4, <2>6, <2>7, <2>8, <2>9, <2>10, <2>11, <2>12 DEF ApplyAt
<1>15. \A p \in Paths : DatedAt(p)' /\ KeptAt(p)' /\ ApplyAt(p)'
    BY <1>12, <1>14
<1>16. dirs' \subseteq dirs \cup rest /\ \A d \in dirs' : IsDir(d.new)
    BY <1>8, <1>11
<1> QED
    BY <1>1, <1>8, <1>9, <1>11, <1>13, <1>15, <1>16, ApplyStep

\* A crash, with the entry in hand half made.
LEMMA InterruptedStep ==
    ASSUME PullInv, Interrupted
    PROVE  PullInv'
<1>1. /\ Pulling /\ Stops("interrupted") /\ edits'.remote = edits.remote
      /\ edits' \in [local : 0..MaxEdits, remote : 0..MaxEdits, crashes : 0..MaxCrashes]
    BY PullTypes, TimesFacts DEF Interrupted, Pulling
<1>2. /\ disk' \in Tree /\ Whole(disk')
      /\ \A p \in Paths : DatedAt(p)' /\ KeptAt(p)'
  <2>1. CASE disk' = disk
    BY <1>1, <2>1, PullTypes, StoppedKeeps
  <2>2. ASSUME phase = "rest", NEW c, InTurn(c),
               disk' \in {Cleared(Prepared(c), c), Created(Cleared(Prepared(c), c), c)}
        PROVE  /\ disk' \in Tree /\ Whole(disk')
               /\ \A p \in Paths : DatedAt(p)' /\ KeptAt(p)'
    <3> DEFINE r == c.path
    <3>1. /\ c \in Incoming /\ r \in Paths /\ remote[r] # Gone
          /\ LocallyChanged(r) => Equivalent(start[r], remote[r]) /\ start[r] # Gone
      BY <2>2, InTurnFacts
    <3>2. /\ disk' \in Tree /\ Whole(disk') /\ Moved(disk', r)
          /\ \/ disk'[r] = disk[r] \/ (disk'[r] = Gone /\ disk[r].type # remote[r].type)
             \/ /\ disk'[r].type = remote[r].type
                /\ remote[r].type = "file" =>
                    disk'[r].data = remote[r].data /\ (disk'[r].meta = Now \/ disk'[r] = disk[r])
      BY <2>2, EntryEffect
    <3>3. base' = base /\ remote' = remote /\ start' = start /\ from' = from
      BY <1>1 DEF Stops
    <3>4. ASSUME NEW p \in Paths, p # r PROVE DatedAt(p)' /\ KeptAt(p)'
      BY <1>1, <3>1, <3>2, <3>3, <3>4, ElsewhereKept
    <3>5. DatedAt(r) /\ KeptAt(r) /\ disk[r] \in Entries /\ remote[r] \in Entries /\ start[r] \in Entries
      BY <3>1, PullTypes, TreeFacts DEF PullInv
    <3>6. DatedAt(r)'
      <4>1. /\ base[r].type = "file" => base[r].meta \in Nat
            /\ remote[r].type = "file" => remote[r].meta \in Nat
        BY <3>1, PullTypes, TreeFacts, EntryFacts, TimesFacts DEF Times
      <4>2. edits.remote \in Nat /\ edits.remote < Now
        BY PullTypes, TimesFacts
      <4>3. disk'[r].type = "file" =>
              \/ disk'[r] = disk[r]
              \/ disk'[r].meta = Now
        <5>1. disk'[r] = Gone => disk'[r].type # "file"
          BY DEF Gone
        <5> QED
          BY <3>2, <5>1
      <4> QED
        BY <1>1, <3>3, <3>5, <4>1, <4>2, <4>3 DEF DatedAt, Agree
    <3>7. KeptAt(r)'
      <4>1. Guarded(r)' = Guarded(r) /\ LocallyChanged(r)' = LocallyChanged(r)
        BY <3>3 DEF Guarded, Unguarded, LocallyChanged
      <4>2. ASSUME LocallyChanged(r), Guarded(r) PROVE SameData(disk'[r], start[r])
        <5>1. SameData(disk[r], start[r]) /\ Equivalent(start[r], remote[r]) /\ start[r] # Gone
          BY <3>1, <3>5, <4>2 DEF KeptAt
        <5>2. disk[r].type = remote[r].type /\ start[r].type = remote[r].type
          BY <5>1 DEF SameData, Equivalent
        <5>3. start[r].type = "file" => start[r].data = remote[r].data
          BY <5>1 DEF Equivalent, SameContent
        <5>4. CASE disk'[r] = disk[r]
          BY <5>1, <5>4
        <5>5. CASE /\ disk'[r].type = remote[r].type
                   /\ remote[r].type = "file" => disk'[r].data = remote[r].data
          BY <5>2, <5>3, <5>5 DEF SameData, SameContent
        <5> QED
          BY <3>2, <5>2, <5>4, <5>5
      <4> QED
        BY <3>3, <4>1, <4>2 DEF KeptAt
    <3> QED
      BY <3>2, <3>4, <3>6, <3>7
  <2>3. CASE disk' # disk
    <3> DEFINE F(c) == {Cleared(Prepared(c), c), Created(Cleared(Prepared(c), c), c)}
    <3>1. phase = "rest" /\ disk' \in UNION {F(c) : c \in {d \in rest : ~Blocked(disk, d.path)
                                                      /\ \A o \in rest : o.path \notin Above(d.path)}}
      BY <2>3 DEF Interrupted
    <3> HIDE DEF F
    <3>2. PICK c \in rest : (\A o \in rest : o.path \notin Above(c.path)) /\ disk' \in F(c)
      BY <3>1
    <3>3. InTurn(c)
      BY <3>2 DEF InTurn
    <3> QED
      BY <2>2, <3>1, <3>2, <3>3 DEF F
  <2> QED
    BY <2>1, <2>3
<1>3. PullIsThreeWay' /\ FailsOnlyAtReadOnly'
    BY <1>1 DEF Stops, PullIsThreeWay, FailsOnlyAtReadOnly
<1>4. forced' = FALSE /\ DOMAIN restore' = {}
    BY <1>1 DEF Stops, PullInv
<1> QED
    BY <1>1, <1>2, <1>3, <1>4, PullTypes, IdleStep DEF Stops

\* Stuttering.
LEMMA StutterStep ==
    ASSUME PullInv, UNCHANGED vars
    PROVE  PullInv'
<1> USE DEF vars, pullVars
<1>1. /\ UNCHANGED <<base, remote, disk, phase, dels, rest, dirs, restore, forced, outcome, start, from>>
      /\ edits' = edits
    OBVIOUS
<1>2. TypeOK' = TypeOK /\ Planned' = Planned
    BY <1>1 DEF TypeOK, InDir, Planned, Pulling, Incoming, Mine
<1>3. ASSUME NEW p \in Paths PROVE DatedAt(p)' = DatedAt(p) /\ KeptAt(p)' = KeptAt(p)
    BY <1>1 DEF DatedAt, KeptAt, LocallyChanged, Guarded, Unguarded
<1>4. ASSUME NEW p \in Paths PROVE ApplyAt(p)' = ApplyAt(p)
    BY <1>1 DEF ApplyAt, MetaAt, DirAt, FoundAt, ReadOnlyAt, DeletedAt, DirDoneAt, FileDoneAt, SameAt,
                LocallyChanged, RemotelyChanged, ReplacesReadOnly, To
<1>5. PullIsThreeWay' = PullIsThreeWay /\ FailsOnlyAtReadOnly' = FailsOnlyAtReadOnly
    BY <1>1 DEF PullIsThreeWay, FailsOnlyAtReadOnly, LocallyChanged, RemotelyChanged, ReplacesReadOnly
<1> QED
    BY <1>1, <1>2, <1>3, <1>4, <1>5 DEF PullInv, Pulling

-----------------------------------------------------------------------------
\* The inductive invariant, of copies that never pull with --force.
THEOREM PullInvariant ==
    ASSUME Forces \subseteq {FALSE}
    PROVE  Spec => []PullInv
<1>1. Init => PullInv
    BY PullInvInit
<1>2. PullInv /\ [Next]_vars => PullInv'
  <2> SUFFICES ASSUME PullInv, [Next]_vars PROVE PullInv'
    OBVIOUS
  <2>1. CASE LocalEdit
    BY <2>1, LocalEditStep
  <2>2. CASE RemoteEdit
    BY <2>2, RemoteEditStep
  <2>3. CASE PullUpToDate
    BY <2>3, PullUpToDateStep
  <2>4. CASE \E force \in Forces : PullBegins(force)
    BY <2>4, PullBeginsStep
  <2>5. CASE ApplyDeletion
    BY <2>5, ApplyDeletionStep
  <2>6. CASE DeletionsDone \/ EntriesDone
    BY <2>6, PhaseStep
  <2>7. CASE ApplyEntry
    BY <2>7, ApplyEntryStep
  <2>8. CASE ApplyRestore
    BY <2>8, ApplyRestoreStep
  <2>9. CASE ApplyDirMeta
    BY <2>9, ApplyDirMetaStep
  <2>10. CASE PullSaved
    BY <2>10, PullSavedStep
  <2>11. CASE Interrupted
    BY <2>11, InterruptedStep
  <2>12. CASE UNCHANGED vars
    BY <2>12, StutterStep
  <2> QED
    BY <2>1, <2>2, <2>3, <2>4, <2>5, <2>6, <2>7, <2>8, <2>9, <2>10, <2>11, <2>12 DEF Next
<1> QED
    BY <1>1, <1>2, PTL DEF Spec

\* A pull keeps what the user changed, at every moment of the apply and when it
\* is interrupted, but below a directory whose time is all that changed of it.
THEOREM PullKeepsChanges ==
    ASSUME Forces \subseteq {FALSE}
    PROVE  Spec => []GuardedChangesKept
<1>1. PullInv => GuardedChangesKept
    BY DEF PullInv, GuardedChangesKept, KeptAt, Guarded
<1> QED
    BY <1>1, PullInvariant, PTL

\* A pull that ends well leaves a three-way merge in the directory.
THEOREM PullMerges ==
    ASSUME Forces \subseteq {FALSE}
    PROVE  Spec => []PullIsThreeWay
<1>1. PullInv => PullIsThreeWay
    BY DEF PullInv
<1> QED
    BY <1>1, PullInvariant, PTL

\* No step of the apply makes a later one fail, but for the mode of a read-only
\* directory that is gone (Applier::finish).
THEOREM PullFailsOnlyAtReadOnly ==
    ASSUME Forces \subseteq {FALSE}
    PROVE  Spec => []FailsOnlyAtReadOnly
<1>1. PullInv => FailsOnlyAtReadOnly
    BY DEF PullInv
<1> QED
    BY <1>1, PullInvariant, PTL

\* The next scan sees every edit, whatever pulls were interrupted before.
THEOREM ScanMissesNothing ==
    ASSUME Forces \subseteq {FALSE}
    PROVE  Spec => []NoHiddenEdit
<1>1. ASSUME PullInv PROVE NoHiddenEdit
  <2> SUFFICES ASSUME NEW p \in Paths, base[p].type = "file", disk[p].type = "file",
                      base[p].meta = disk[p].meta
               PROVE  base[p].data = disk[p].data
    BY DEF NoHiddenEdit
  <2>1. DatedAt(p)
    BY <1>1 DEF PullInv
  <2>2. base[p].meta \in Nat /\ edits.remote \in 0..MaxEdits
    BY <1>1, PullTypes, TreeFacts, EntryFacts, TimesFacts DEF Times
  <2>3. base[p].meta # Now
    BY <2>1, <2>2, TimesFacts DEF DatedAt
  <2> QED
    BY <2>1, <2>3 DEF DatedAt, Agree
<1> QED
    BY <1>1, PullInvariant, PTL

-----------------------------------------------------------------------------
(***************************************************************************)
(* The life of a working copy.                                             *)
(***************************************************************************)


\* The commands that hold a lock.
Active(p) == pc[p] \in {"config", "apply", "save", "close"}

Places == {"idle", "stat", "mkdir", "find", "mkmeta", "lock", "flock", "config", "apply", "save",
           "close", "remove", "ok", "failed"}

Shape ==
    /\ inodes \in Nat /\ config \in BOOLEAN /\ robbed \in BOOLEAN
    /\ pc \in [Processes -> Places]
    /\ cmd \in [Processes -> {"none", "clone", "init", "open"}]
    /\ created \in [Processes -> BOOLEAN]
    /\ mine \in [Processes -> 0..inodes] /\ fd \in [Processes -> 0..inodes]
    /\ \A p \in Processes : /\ pc[p] # "idle" => cmd[p] # "none"
                            /\ pc[p] = "apply" => cmd[p] = "clone"

\* A command has the lock file open from OpenLock to the end of its work.
LockFiles == \A p \in Processes : fd[p] # 0 <=> pc[p] = "flock" \/ Active(p)

\* Unless .dstore was removed under one of them, all have the same lock file
\* open, and what they found under the lock still holds.
Sound ==
    ~robbed =>
        /\ \A p \in Processes : fd[p] # 0 => fd[p] = meta
        /\ \A p, q \in Processes : Active(p) /\ Active(q) => p = q
        /\ \A p \in Processes : pc[p] = "save" =>
            /\ cmd[p] = "open" => state # "none"
            /\ cmd[p] = "clone" => dir = "full"
        /\ state # "open"
        /\ state = "clone" => dir = "full"

\* A command that was not running when the copy was finished has not made the
\* directory and does not come to remove it.
Late ==
    state # "none" => \A p \in Processes \ early :
        \/ pc[p] \in {"idle", "stat", "find"} /\ ~created[p]
        \/ pc[p] \in {"ok", "failed", "close"}
        \/ cmd[p] = "open" /\ pc[p] # "remove"

Fresh == \A p \in Processes : pc[p] = "idle" => ~created[p]

LifeInv == Life!TypeOK /\ Shape /\ LockFiles /\ Sound /\ Late /\ Fresh

-----------------------------------------------------------------------------
LEMMA LifeInit ==
    ASSUME MaxFaults \in Nat, Life!Init
    PROVE  LifeInv
<1> USE DEF Life!Init
<1>1. Life!TypeOK
    BY DEF Life!TypeOK
<1>2. Shape
  <2>1. config \in BOOLEAN /\ robbed \in BOOLEAN /\ created \in [Processes -> BOOLEAN]
    OBVIOUS
  <2>2. /\ inodes \in Nat /\ pc \in [Processes -> Places]
        /\ cmd \in [Processes -> {"none", "clone", "init", "open"}]
        /\ mine \in [Processes -> 0..inodes] /\ fd \in [Processes -> 0..inodes]
    BY DEF Places
  <2> QED
    BY <2>1, <2>2 DEF Shape
<1>3. LockFiles /\ Sound /\ Late /\ Fresh
    BY DEF LockFiles, Sound, Late, Fresh, Active
<1> QED
    BY <1>1, <1>2, <1>3 DEF LifeInv

\* The types of the files and of the commands.
LEMMA LifeTypeStep ==
    ASSUME MaxFaults \in Nat, LifeInv, [Life!Next]_Life!vars
    PROVE  Life!TypeOK' /\ Shape'
<1> USE DEF LifeInv, Life!diskVars, Life!procVars, Life!Goto, Life!Step
<1>1. ASSUME NEW p \in Processes, Life!Start(p) PROVE Life!TypeOK' /\ Shape'
    BY <1>1 DEF Life!Start, Life!TypeOK, Shape, Places
<1>2. ASSUME NEW p \in Processes, Life!Stat(p) PROVE Life!TypeOK' /\ Shape'
    BY <1>2 DEF Life!Stat, Life!TypeOK, Shape, Places
<1>3. ASSUME NEW p \in Processes, Life!MakeDir(p) PROVE Life!TypeOK' /\ Shape'
    BY <1>3 DEF Life!MakeDir, Life!TypeOK, Shape, Places
<1>4. ASSUME NEW p \in Processes, Life!Find(p) PROVE Life!TypeOK' /\ Shape'
    BY <1>4 DEF Life!Find, Life!CreateFails, Life!TypeOK, Shape, Places
<1>5. ASSUME NEW p \in Processes, Life!MakeMeta(p) PROVE Life!TypeOK' /\ Shape'
    BY <1>5 DEF Life!MakeMeta, Life!TypeOK, Shape, Places
<1>6. ASSUME NEW p \in Processes, Life!OpenLock(p) PROVE Life!TypeOK' /\ Shape'
    BY <1>6 DEF Life!OpenLock, Life!TypeOK, Shape, Places
<1>7. ASSUME NEW p \in Processes, Life!OpenLockFails(p) PROVE Life!TypeOK' /\ Shape'
    BY <1>7 DEF Life!OpenLockFails, Life!OnRefusal, Life!CreateFails, Life!TypeOK, Shape, Places
<1>8. ASSUME NEW p \in Processes, Life!Flock(p) PROVE Life!TypeOK' /\ Shape'
    BY <1>8 DEF Life!Flock, Life!Locked, Life!TypeOK, Shape, Places
<1>9. ASSUME NEW p \in Processes, Life!FlockRefused(p) PROVE Life!TypeOK' /\ Shape'
    BY <1>9 DEF Life!FlockRefused, Life!Locked, Life!OnRefusal, Life!CreateFails, Life!TypeOK,
       Shape, Places
<1>10. ASSUME NEW p \in Processes, Life!WriteConfig(p) PROVE Life!TypeOK' /\ Shape'
    BY <1>10 DEF Life!WriteConfig, Life!TypeOK, Shape, Places
<1>11. ASSUME NEW p \in Processes, Life!WriteConfigFails(p) PROVE Life!TypeOK' /\ Shape'
    BY <1>11 DEF Life!WriteConfigFails, Life!CreateFails, Life!TypeOK, Shape, Places
<1>12. ASSUME NEW p \in Processes, Life!OpenReads(p) PROVE Life!TypeOK' /\ Shape'
    BY <1>12 DEF Life!OpenReads, Life!TypeOK, Shape, Places
<1>13. ASSUME NEW p \in Processes, Life!OpenFails(p) PROVE Life!TypeOK' /\ Shape'
    BY <1>13 DEF Life!OpenFails, Life!TypeOK, Shape, Places
<1>14. ASSUME NEW p \in Processes, Life!Apply(p) PROVE Life!TypeOK' /\ Shape'
    BY <1>14 DEF Life!Apply, Life!TypeOK, Shape, Places
<1>15. ASSUME NEW p \in Processes, Life!Applied(p) PROVE Life!TypeOK' /\ Shape'
    BY <1>15 DEF Life!Applied, Life!TypeOK, Shape, Places
<1>16. ASSUME NEW p \in Processes, Life!SaveState(p) PROVE Life!TypeOK' /\ Shape'
    BY <1>16 DEF Life!SaveState, Life!Running, Life!TypeOK, Shape, Places
<1>17. ASSUME NEW p \in Processes, Life!WorkFails(p) PROVE Life!TypeOK' /\ Shape'
    BY <1>17 DEF Life!WorkFails, Life!TypeOK, Shape, Places
<1>18. ASSUME NEW p \in Processes, Life!Remove(p) PROVE Life!TypeOK' /\ Shape'
    BY <1>18 DEF Life!Remove, Life!Removed, Life!TypeOK, Shape, Places
<1>19. ASSUME NEW p \in Processes, Life!Close(p) PROVE Life!TypeOK' /\ Shape'
    BY <1>19 DEF Life!Close, Life!TypeOK, Shape, Places
<1>20. ASSUME NEW p \in Processes, Life!Kill(p) PROVE Life!TypeOK' /\ Shape'
    BY <1>20 DEF Life!Kill, Life!Running, Life!TypeOK, Shape, Places
<1>21. CASE Life!Finished \/ UNCHANGED Life!vars
    BY <1>21 DEF Life!Finished, Life!vars, Life!TypeOK, Shape, Places
<1> QED
    BY <1>1, <1>2, <1>3, <1>4, <1>5, <1>6, <1>7, <1>8, <1>9, <1>10, <1>11, <1>12,
       <1>13, <1>14, <1>15, <1>16, <1>17, <1>18, <1>19, <1>20, <1>21
       DEF Life!Next, Life!Process

\* The lock keeps commands apart, and what they found in place.
LEMMA LifeSoundStep ==
    ASSUME MaxFaults \in Nat, LifeInv, [Life!Next]_Life!vars
    PROVE  LockFiles' /\ Sound'
<1> USE DEF LifeInv, Life!diskVars, Life!procVars, Life!Goto, Life!Step
<1>1. ASSUME NEW p \in Processes, Life!Start(p) PROVE LockFiles' /\ Sound'
    BY <1>1 DEF Life!Start, Life!TypeOK, Shape, LockFiles, Sound, Active
<1>2. ASSUME NEW p \in Processes, Life!Stat(p) PROVE LockFiles' /\ Sound'
    BY <1>2 DEF Life!Stat, Life!TypeOK, Shape, LockFiles, Sound, Active
<1>3. ASSUME NEW p \in Processes, Life!MakeDir(p) PROVE LockFiles' /\ Sound'
    BY <1>3 DEF Life!MakeDir, Life!TypeOK, Shape, LockFiles, Sound, Active
<1>4. ASSUME NEW p \in Processes, Life!Find(p) PROVE LockFiles' /\ Sound'
    BY <1>4 DEF Life!Find, Life!CreateFails, Life!TypeOK, Shape, LockFiles, Sound, Active
<1>5. ASSUME NEW p \in Processes, Life!MakeMeta(p) PROVE LockFiles' /\ Sound'
    BY <1>5 DEF Life!MakeMeta, Life!TypeOK, Shape, LockFiles, Sound, Active
<1>6. ASSUME NEW p \in Processes, Life!OpenLock(p) PROVE LockFiles' /\ Sound'
    BY <1>6 DEF Life!OpenLock, Life!TypeOK, Shape, LockFiles, Sound, Active
<1>7. ASSUME NEW p \in Processes, Life!OpenLockFails(p) PROVE LockFiles' /\ Sound'
    BY <1>7 DEF Life!OpenLockFails, Life!OnRefusal, Life!CreateFails, Life!TypeOK, Shape,
       LockFiles, Sound, Active
<1>8. ASSUME NEW p \in Processes, Life!Flock(p) PROVE LockFiles' /\ Sound'
    BY <1>8 DEF Life!Flock, Life!Locked, Life!TypeOK, Shape, LockFiles, Sound, Active
<1>9. ASSUME NEW p \in Processes, Life!FlockRefused(p) PROVE LockFiles' /\ Sound'
    BY <1>9 DEF Life!FlockRefused, Life!Locked, Life!OnRefusal, Life!CreateFails, Life!TypeOK,
       Shape, LockFiles, Sound, Active
<1>10. ASSUME NEW p \in Processes, Life!WriteConfig(p) PROVE LockFiles' /\ Sound'
    BY <1>10 DEF Life!WriteConfig, Life!TypeOK, Shape, LockFiles, Sound, Active
<1>11. ASSUME NEW p \in Processes, Life!WriteConfigFails(p) PROVE LockFiles' /\ Sound'
    BY <1>11 DEF Life!WriteConfigFails, Life!CreateFails, Life!TypeOK, Shape, LockFiles, Sound,
       Active
<1>12. ASSUME NEW p \in Processes, Life!OpenReads(p) PROVE LockFiles' /\ Sound'
    BY <1>12 DEF Life!OpenReads, Life!TypeOK, Shape, LockFiles, Sound, Active
<1>13. ASSUME NEW p \in Processes, Life!OpenFails(p) PROVE LockFiles' /\ Sound'
    BY <1>13 DEF Life!OpenFails, Life!TypeOK, Shape, LockFiles, Sound, Active
<1>14. ASSUME NEW p \in Processes, Life!Apply(p) PROVE LockFiles' /\ Sound'
    BY <1>14 DEF Life!Apply, Life!TypeOK, Shape, LockFiles, Sound, Active
<1>15. ASSUME NEW p \in Processes, Life!Applied(p) PROVE LockFiles' /\ Sound'
    BY <1>15 DEF Life!Applied, Life!TypeOK, Shape, LockFiles, Sound, Active
<1>16. ASSUME NEW p \in Processes, Life!SaveState(p) PROVE LockFiles' /\ Sound'
    BY <1>16 DEF Life!SaveState, Life!Running, Life!TypeOK, Shape, LockFiles, Sound, Active
<1>17. ASSUME NEW p \in Processes, Life!WorkFails(p) PROVE LockFiles' /\ Sound'
    BY <1>17 DEF Life!WorkFails, Life!TypeOK, Shape, LockFiles, Sound, Active
<1>18. ASSUME NEW p \in Processes, Life!Remove(p) PROVE LockFiles' /\ Sound'
    BY <1>18 DEF Life!Remove, Life!Removed, Life!TypeOK, Shape, LockFiles, Sound, Active
<1>19. ASSUME NEW p \in Processes, Life!Close(p) PROVE LockFiles' /\ Sound'
    BY <1>19 DEF Life!Close, Life!TypeOK, Shape, LockFiles, Sound, Active
<1>20. ASSUME NEW p \in Processes, Life!Kill(p) PROVE LockFiles' /\ Sound'
    BY <1>20 DEF Life!Kill, Life!Running, Life!TypeOK, Shape, LockFiles, Sound, Active
<1>21. CASE Life!Finished \/ UNCHANGED Life!vars
    BY <1>21 DEF Life!Finished, Life!vars, Life!TypeOK, Shape, LockFiles, Sound, Active
<1> QED
    BY <1>1, <1>2, <1>3, <1>4, <1>5, <1>6, <1>7, <1>8, <1>9, <1>10, <1>11, <1>12,
       <1>13, <1>14, <1>15, <1>16, <1>17, <1>18, <1>19, <1>20, <1>21
       DEF Life!Next, Life!Process

\* A finished copy is out of reach of the commands that come after.
LEMMA LifeLateStep ==
    ASSUME MaxFaults \in Nat, LifeInv, [Life!Next]_Life!vars
    PROVE  Late' /\ Fresh'
<1> USE DEF LifeInv, Life!diskVars, Life!procVars, Life!Goto, Life!Step
<1>1. ASSUME NEW p \in Processes, Life!Start(p) PROVE Late' /\ Fresh'
    BY <1>1 DEF Life!Start, Life!TypeOK, Shape, Late, Fresh
<1>2. ASSUME NEW p \in Processes, Life!Stat(p) PROVE Late' /\ Fresh'
    BY <1>2 DEF Life!Stat, Life!TypeOK, Shape, Late, Fresh
<1>3. ASSUME NEW p \in Processes, Life!MakeDir(p) PROVE Late' /\ Fresh'
    BY <1>3 DEF Life!MakeDir, Life!TypeOK, Shape, Late, Fresh
<1>4. ASSUME NEW p \in Processes, Life!Find(p) PROVE Late' /\ Fresh'
    BY <1>4 DEF Life!Find, Life!CreateFails, Life!TypeOK, Shape, Late, Fresh
<1>5. ASSUME NEW p \in Processes, Life!MakeMeta(p) PROVE Late' /\ Fresh'
    BY <1>5 DEF Life!MakeMeta, Life!TypeOK, Shape, Late, Fresh
<1>6. ASSUME NEW p \in Processes, Life!OpenLock(p) PROVE Late' /\ Fresh'
    BY <1>6 DEF Life!OpenLock, Life!TypeOK, Shape, Late, Fresh
<1>7. ASSUME NEW p \in Processes, Life!OpenLockFails(p) PROVE Late' /\ Fresh'
    BY <1>7 DEF Life!OpenLockFails, Life!OnRefusal, Life!CreateFails, Life!TypeOK, Shape, Late,
       Fresh
<1>8. ASSUME NEW p \in Processes, Life!Flock(p) PROVE Late' /\ Fresh'
    BY <1>8 DEF Life!Flock, Life!Locked, Life!TypeOK, Shape, Late, Fresh
<1>9. ASSUME NEW p \in Processes, Life!FlockRefused(p) PROVE Late' /\ Fresh'
    BY <1>9 DEF Life!FlockRefused, Life!Locked, Life!OnRefusal, Life!CreateFails, Life!TypeOK,
       Shape, Late, Fresh
<1>10. ASSUME NEW p \in Processes, Life!WriteConfig(p) PROVE Late' /\ Fresh'
    BY <1>10 DEF Life!WriteConfig, Life!TypeOK, Shape, Late, Fresh
<1>11. ASSUME NEW p \in Processes, Life!WriteConfigFails(p) PROVE Late' /\ Fresh'
    BY <1>11 DEF Life!WriteConfigFails, Life!CreateFails, Life!TypeOK, Shape, Late, Fresh
<1>12. ASSUME NEW p \in Processes, Life!OpenReads(p) PROVE Late' /\ Fresh'
    BY <1>12 DEF Life!OpenReads, Life!TypeOK, Shape, Late, Fresh
<1>13. ASSUME NEW p \in Processes, Life!OpenFails(p) PROVE Late' /\ Fresh'
    BY <1>13 DEF Life!OpenFails, Life!TypeOK, Shape, Late, Fresh
<1>14. ASSUME NEW p \in Processes, Life!Apply(p) PROVE Late' /\ Fresh'
    BY <1>14 DEF Life!Apply, Life!TypeOK, Shape, Late, Fresh
<1>15. ASSUME NEW p \in Processes, Life!Applied(p) PROVE Late' /\ Fresh'
    BY <1>15 DEF Life!Applied, Life!TypeOK, Shape, Late, Fresh
<1>16. ASSUME NEW p \in Processes, Life!SaveState(p) PROVE Late' /\ Fresh'
    BY <1>16 DEF Life!SaveState, Life!Running, Life!TypeOK, Shape, Late, Fresh
<1>17. ASSUME NEW p \in Processes, Life!WorkFails(p) PROVE Late' /\ Fresh'
    BY <1>17 DEF Life!WorkFails, Life!TypeOK, Shape, Late, Fresh
<1>18. ASSUME NEW p \in Processes, Life!Remove(p) PROVE Late' /\ Fresh'
    BY <1>18 DEF Life!Remove, Life!Removed, Life!TypeOK, Shape, Late, Fresh
<1>19. ASSUME NEW p \in Processes, Life!Close(p) PROVE Late' /\ Fresh'
    BY <1>19 DEF Life!Close, Life!TypeOK, Shape, Late, Fresh
<1>20. ASSUME NEW p \in Processes, Life!Kill(p) PROVE Late' /\ Fresh'
    BY <1>20 DEF Life!Kill, Life!Running, Life!TypeOK, Shape, Late, Fresh
<1>21. CASE Life!Finished \/ UNCHANGED Life!vars
    BY <1>21 DEF Life!Finished, Life!vars, Life!TypeOK, Shape, Late, Fresh
<1> QED
    BY <1>1, <1>2, <1>3, <1>4, <1>5, <1>6, <1>7, <1>8, <1>9, <1>10, <1>11, <1>12,
       <1>13, <1>14, <1>15, <1>16, <1>17, <1>18, <1>19, <1>20, <1>21
       DEF Life!Next, Life!Process

LEMMA LifeStep ==
    ASSUME MaxFaults \in Nat
    PROVE  LifeInv /\ [Life!Next]_Life!vars => LifeInv'
    BY LifeTypeStep, LifeSoundStep, LifeLateStep DEF LifeInv

-----------------------------------------------------------------------------
\* tree.rs, lock_working_copy, and flow.rs, clone_fill: one command at a time
\* has the working copy open and a copy that says it was cloned has every
\* file, whatever fails or is killed, unless .dstore was removed under a
\* command that had its lock file open.
THEOREM LifecycleCopyIsSound ==
    ASSUME MaxFaults \in Nat
    PROVE  Life!Spec => []CopyIsSound
<1>1. LifeInv => CopyIsSound
    BY DEF LifeInv, Sound, Active, CopyIsSound, Life!CopyIsSound
<1>2. Life!Init => LifeInv
    BY LifeInit
<1> QED
    BY <1>1, <1>2, LifeStep, PTL DEF Life!Spec

\* flow.rs, what clone and init remove when they fail: a finished working copy
\* is removed only by a command that was running when it was finished.
THEOREM LifecycleCopyKept ==
    ASSUME MaxFaults \in Nat
    PROVE  Life!Spec => CopyKept
<1>1. ASSUME LifeInv, [Life!Next]_Life!vars, meta # 0, state # "none", meta' = 0
      PROVE  \E p \in early : pc[p] = "remove" /\ pc'[p] = "failed"
  <2> USE DEF Life!diskVars, Life!procVars
  <2>1. PICK p \in Processes : Life!Remove(p)
    BY <1>1 DEF Life!Next, Life!Process, Life!Finished, Life!vars, Life!Start, Life!Stat,
                Life!MakeDir, Life!Find, Life!MakeMeta, Life!OpenLock, Life!OpenLockFails,
                Life!Flock, Life!FlockRefused, Life!WriteConfig, Life!WriteConfigFails,
                Life!OpenReads, Life!OpenFails, Life!Apply, Life!Applied, Life!SaveState,
                Life!WorkFails, Life!Close, Life!Kill, Life!Step, LifeInv, Shape
  <2>2. pc[p] = "remove" /\ pc'[p] = "failed"
    BY <1>1, <2>1 DEF Life!Remove, Life!Goto, LifeInv, Shape
  <2> QED
    BY <1>1, <2>2 DEF LifeInv, Late
<1>2. Life!Init => LifeInv
    BY LifeInit
<1> QED
    BY <1>1, <1>2, LifeStep, PTL DEF Life!Spec, CopyKept, Life!CopyKept

-----------------------------------------------------------------------------
(***************************************************************************)
(* RacyWindow                                                              *)
(***************************************************************************)
Stamped == [data : Nat, mtime : Int]

RacyTypes ==
    /\ now \in Nat /\ synced \in Nat /\ wrote \in Nat /\ writes \in Nat
    /\ file \in Stamped /\ entry \in Stamped /\ taken \in Stamped

\* A file the user wrote carries an mtime of less than a granule ago.
StampIsRecent == file.data # Racy!Theirs => file.mtime > wrote - Granule

LEMMA RacyInit ==
    ASSUME Racy!Init
    PROVE  RacyTypes /\ StampIsRecent
    BY DEF Racy!Init, Racy!Entry, Racy!Theirs, RacyTypes, Stamped, StampIsRecent

LEMMA RacyStep ==
    ASSUME Granule \in Nat \ {0}, MaxTime \in Nat,
           RacyTypes, StampIsRecent, [Racy!Next]_Racy!vars
    PROVE  RacyTypes' /\ StampIsRecent'
<1> USE DEF RacyTypes, Stamped, StampIsRecent, Racy!Theirs, Racy!Entry
<1>1. CASE Racy!Write
  <2>1. now % Granule \in 0..(Granule - 1)
    OBVIOUS
  <2>2. Racy!Stamp \in Int /\ Racy!Stamp > now - Granule
    BY <2>1 DEF Racy!Stamp
  <2> QED
    BY <1>1, <2>2 DEF Racy!Write
<1>2. CASE Racy!Tick
    BY <1>2 DEF Racy!Tick
<1>3. CASE Racy!PushIngests
    BY <1>3 DEF Racy!PushIngests
<1>4. ASSUME NEW t \in 0..MaxTime, Racy!PullPlaces(t) PROVE RacyTypes' /\ StampIsRecent'
    BY <1>4 DEF Racy!PullPlaces
<1>5. CASE Racy!Saved
    BY <1>5 DEF Racy!Saved
<1>6. CASE Racy!Fails
    BY <1>6 DEF Racy!Fails
<1>7. CASE Racy!Finished \/ UNCHANGED Racy!vars
    BY <1>7 DEF Racy!Finished, Racy!vars
<1> QED
    BY <1>1, <1>2, <1>3, <1>4, <1>5, <1>6, <1>7 DEF Racy!Next

\* scan.rs, Scanner::both, and synced_at as push and pull write it: whatever
\* the user wrote is read by the next scan, if a command that ran meanwhile
\* was over less than Window - Granule after it, for every window and granule.
THEOREM RacyEditsAreRead ==
    ASSUME Window \in Int, Granule \in Nat \ {0}, MaxTime \in Nat
    PROVE  Racy!Spec => []Racy!EditsAreRead
<1>1. RacyTypes /\ StampIsRecent => Racy!EditsAreRead
    BY DEF RacyTypes, Stamped, StampIsRecent, Racy!EditsAreRead, Racy!Reads
<1>2. RacyTypes /\ StampIsRecent /\ [Racy!Next]_Racy!vars => RacyTypes' /\ StampIsRecent'
    BY RacyStep
<1>3. Racy!Init => RacyTypes /\ StampIsRecent
    BY RacyInit
<1> QED
    BY <1>1, <1>2, <1>3, PTL DEF Racy!Spec

\* No edit is hidden from the next scan: neither by the pulls of a copy that
\* never forces one, interrupted or not, nor by the shortcut over mtimes.
THEOREM ScansReadEdits ==
    ASSUME Forces \subseteq {FALSE},
           Window \in Int, Granule \in Nat \ {0}, MaxTime \in Nat
    PROVE  Spec /\ Racy!Spec => []EditsAreRead
<1>1. NoHiddenEdit /\ Racy!EditsAreRead => EditsAreRead
    BY DEF EditsAreRead
<1> QED
    BY <1>1, ScanMissesNothing, RacyEditsAreRead, PTL
=============================================================================
