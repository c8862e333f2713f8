------------------------------- MODULE Pull -------------------------------
(***************************************************************************)
(* What a pull does to the working directory: the scan of the directory    *)
(* against base (worktree/src/scan.rs), the tree diff (change.rs), the     *)
(* three-way merge (merge.rs), the applier (apply.rs) and the part of      *)
(* Tree::pull that puts them together (flow.rs).                           *)
(*                                                                         *)
(* A tree maps every path to an entry, or to Gone.  An entry keeps what    *)
(* Compare tells apart: its type, a file's content, its permission bits    *)
(* and its metadata, of which only the mtime matters here.  The recursive  *)
(* walks visit every path, so a list of changes is a set with at most one  *)
(* change of each path.  Links and devices behave like files; ignored      *)
(* names are outside the model.                                            *)
(***************************************************************************)
EXTENDS Naturals, Sequences, FiniteSets

CONSTANTS
    Names,        \* file names
    Paths,        \* sequences of names, closed under parents
    Data,         \* contents of files
    Chmods,       \* permission bits that users give
    FirstTrees,   \* what the copy may start from
    Forces,       \* values of the --force flag
    MaxEdits,     \* bound: edits made in the directory or pushed by others
    MaxCrashes    \* bound: interrupted applies

ASSUME PullAssumption ==
    /\ Paths \subseteq Seq(Names)
    /\ \A p \in Paths : Len(p) > 0 /\ (Len(p) > 1 => SubSeq(p, 1, Len(p) - 1) \in Paths)
    /\ Forces \subseteq BOOLEAN
    /\ MaxEdits \in Nat /\ MaxCrashes \in Nat

\* own: 0700 or 0600, as mkdir and CreateTemp give; all: 0755, 0644; ro: 0555.
Modes == {"own", "all", "ro"}

\* When an entry was written: 0 before everything, k by the k-th edit of the
\* others, Now in this copy.
Now == MaxEdits + 1
Times == 0..Now

Gone == [type |-> "gone"]
Entry == [type : {"file"}, data : Data, mode : Modes, meta : Times]
         \cup [type : {"dir"}, mode : Modes, meta : Times]
Tree == [Paths -> Entry \cup {Gone}]

IsDir(e) == e.type = "dir"
File(data, mode, meta) == [type |-> "file", data |-> data, mode |-> mode, meta |-> meta]
Dir(mode, meta) == [type |-> "dir", mode |-> mode, meta |-> meta]

Parent(p) == SubSeq(p, 1, Len(p) - 1)
Below(p) == {q \in Paths : Len(q) > Len(p) /\ SubSeq(q, 1, Len(p)) = p}
Above(p) == {q \in Paths : p \in Below(q)}

\* The parent directory is there (the root always is).
InDir(t, p) == Len(p) > 1 => IsDir(t[Parent(p)])

\* What is there is in directories, all the way up.
Whole(t) == \A p \in Paths : \A q \in Above(p) : t[p] # Gone => IsDir(t[q])

\* A copy starts from a tree written before everything.
ASSUME FirstAssumption ==
    /\ Chmods \subseteq Modes
    /\ \A t \in FirstTrees :
        t \in Tree /\ Whole(t) /\ \A p \in Paths : t[p] # Gone => t[p].meta = 0

VARIABLES
    base,      \* State.base, as saved
    remote,    \* State.remote: the reference's tree
    disk,      \* the working directory
    phase,     \* of the apply in progress, or "idle"
    dels,      \* deletions still to make
    rest,      \* other changes still to make
    dirs,      \* directories whose metadata is still to be set
    restore,   \* Applier.restore: directories opened for writing
    forced,    \* the pull was given --force
    outcome,   \* how the last pull ended; "none" after an edit
    start,     \* the directory when the last pull scanned it
    from,      \* base at that time
    edits      \* how many edits and crashes there have been

pullVars == <<phase, dels, rest, dirs, restore, forced, outcome, start, from>>
vars == <<base, remote, disk, pullVars, edits>>

Nowhere == [p \in Paths |-> Gone]

Init ==
    /\ base \in FirstTrees
    /\ remote = base
    /\ disk = base
    /\ phase = "idle"
    /\ dels = {} /\ rest = {} /\ dirs = {}
    /\ restore = <<>>
    /\ forced = FALSE
    /\ outcome = "none"
    /\ start = Nowhere /\ from = Nowhere
    /\ edits = [local |-> 0, remote |-> 0, crashes |-> 0]

-----------------------------------------------------------------------------
(***************************************************************************)
(* Edits of a tree, at a time.  Adding or removing a name changes the time *)
(* of its directory; writing a file in place or chmod does not.            *)
(***************************************************************************)
Touched(t, p, time) ==
    IF Len(p) > 1 /\ IsDir(t[Parent(p)]) THEN [t EXCEPT ![Parent(p)].meta = time] ELSE t

\* t with e at p, and nothing below p.
Placed(t, p, e, time) ==
    Touched([q \in Paths |-> IF q = p THEN e ELSE IF q \in Below(p) THEN Gone ELSE t[q]], p, time)

Removed(t, p, time) == Placed(t, p, Gone, time)

Edited(t, time) ==
    (UNION {
        {Placed(t, p, e, time) : e \in {File(d, "all", time) : d \in Data} \cup {Dir("all", time), Gone}}
        \cup (IF t[p].type = "file" THEN {[t EXCEPT ![p] = File(d, t[p].mode, time)] : d \in Data} ELSE {})
        \cup (IF t[p] # Gone THEN {[t EXCEPT ![p].mode = m] : m \in Chmods} ELSE {})
        : p \in {q \in Paths : InDir(t, q)}}) \ {t}

Forget ==
    /\ outcome' = "none"
    /\ forced' = FALSE
    /\ start' = Nowhere /\ from' = Nowhere

LocalEdit ==
    /\ phase = "idle"
    /\ edits.local + edits.remote < MaxEdits
    /\ edits' = [edits EXCEPT !.local = @ + 1]
    /\ disk' \in Edited(disk, Now)
    /\ Forget
    /\ UNCHANGED <<base, remote, phase, dels, rest, dirs, restore>>

\* Another copy pushes an edit, and the next pull fetches it.
RemoteEdit ==
    /\ phase = "idle"
    /\ edits.local + edits.remote < MaxEdits
    /\ edits' = [edits EXCEPT !.remote = @ + 1]
    /\ remote' \in Edited(remote, edits.remote + 1)
    /\ Forget
    /\ UNCHANGED <<base, disk, phase, dels, rest, dirs, restore>>

-----------------------------------------------------------------------------
\* change.rs: what two entries differ in.
SameContent(a, b) == a.type = "file" => a.data = b.data

Equivalent(a, b) ==
    a.type = b.type /\ (a # Gone => SameContent(a, b) /\ a.mode = b.mode)

Kind(old, new) ==
    IF      old = new               THEN "same"
    ELSE IF old = Gone              THEN "added"
    ELSE IF new = Gone              THEN "deleted"
    ELSE IF old.type # new.type     THEN "type"
    ELSE IF ~SameContent(old, new)  THEN "modified"
    ELSE IF old.mode # new.mode     THEN "mode"
    ELSE                                 "meta"

Change(p, old, new) == [path |-> p, kind |-> Kind(old, new), old |-> old, new |-> new]

\* DiffTrees: a retyped or removed directory loses all that is below it.
DiffTrees(a, b) == {c \in {Change(p, a[p], b[p]) : p \in Paths} : c.kind # "same"}

\* Scan: the content of a file whose time (and size) is its base entry's is
\* not read.
Scanned(b, e) ==
    IF b.type = "file" /\ e.type = "file" /\ e.meta = b.meta THEN [e EXCEPT !.data = b.data] ELSE e

Scan(b, d) == DiffTrees(b, [p \in Paths |-> Scanned(b[p], d[p])])

(***************************************************************************)
(* Merge: an incoming change is applied, dropped or in conflict, given the *)
(* local changes.                                                          *)
(***************************************************************************)
At(cs, p) == {c \in cs : c.path = p}

GoneAbove(local, p) ==
    \E l \in local :
        /\ l.path \in Above(p)
        /\ l.kind = "deleted" \/ (l.kind = "type" /\ IsDir(l.old))

ChangedBelow(local, p) == \E l \in local : l.path \in Below(p)

\* Mutant: a deletion on either side ends the matter.
AtSamePathDeletedWins(l, inc) ==
    IF      l.kind = "meta"                                 THEN "apply"
    ELSE IF l.kind = "deleted" \/ inc.kind = "deleted"      THEN "drop"
    ELSE IF Equivalent(l.new, inc.new)                      THEN "apply"
    ELSE                                                         "conflict"

\* Mutant: incoming metadata is no conflict with a local edit.
AtSamePathMetaApplies(l, inc) ==
    IF      l.kind = "meta"                                 THEN "apply"
    ELSE IF l.kind = "deleted" /\ inc.kind = "deleted"      THEN "drop"
    ELSE IF l.kind = "deleted" \/ inc.kind = "deleted"      THEN "conflict"
    ELSE IF Equivalent(l.new, inc.new) \/ inc.kind = "meta" THEN "apply"
    ELSE                                                         "conflict"

\* Mutant: what was deleted here and changed there comes back.
AtSamePathBringsBack(l, inc) ==
    IF      l.kind = "meta"                                 THEN "apply"
    ELSE IF l.kind = "deleted" /\ inc.kind = "deleted"      THEN "drop"
    ELSE IF inc.kind = "deleted"                            THEN "conflict"
    ELSE IF l.kind = "deleted" \/ Equivalent(l.new, inc.new) THEN "apply"
    ELSE                                                         "conflict"

AtSamePath(l, inc) ==
    IF      l.kind = "meta"                                 THEN "apply"
    ELSE IF l.kind = "deleted" /\ inc.kind = "deleted"      THEN "drop"
    ELSE IF l.kind = "deleted" \/ inc.kind = "deleted"      THEN "conflict"
    ELSE IF Equivalent(l.new, inc.new)                      THEN "apply"
    ELSE                                                         "conflict"

Verdict(local, inc) ==
    IF At(local, inc.path) # {}
    THEN AtSamePath(CHOOSE l \in At(local, inc.path) : TRUE, inc)
    ELSE IF GoneAbove(local, inc.path)
    THEN IF inc.kind = "deleted" THEN "drop" ELSE "conflict"
    ELSE IF inc.kind = "type" /\ IsDir(inc.old) /\ ChangedBelow(local, inc.path)
    THEN "conflict" ELSE "apply"

Merged(local, incoming, verdict) == {inc \in incoming : Verdict(local, inc) = verdict}

(***************************************************************************)
(* Tree::pull after the fetch.                                             *)
(***************************************************************************)
PullUpToDate ==
    /\ phase = "idle"
    /\ remote = base
    /\ outcome' = "uptodate"
    /\ forced' = FALSE
    /\ start' = Nowhere /\ from' = Nowhere
    /\ UNCHANGED <<base, remote, disk, phase, dels, rest, dirs, restore, edits>>

PullBegins(force) ==
    LET local     == Scan(base, disk)
        incoming  == DiffTrees(base, remote)
        conflicts == Merged(local, incoming, "conflict")
        todo      == Merged(local, incoming, "apply") \cup conflicts
    IN
    /\ phase = "idle"
    /\ remote # base
    /\ start' = disk /\ from' = base
    /\ forced' = force
    /\ IF conflicts # {} /\ ~force
       THEN outcome' = "conflict" /\ UNCHANGED <<phase, dels, rest>>
       ELSE /\ phase' = "dels"
            /\ dels' = {c \in todo : c.kind = "deleted"}
            /\ rest' = {c \in todo : c.kind # "deleted"}
            /\ outcome' = "none"
    /\ UNCHANGED <<base, remote, disk, dirs, restore, edits>>

-----------------------------------------------------------------------------
\* Apply.  An entry above p is there and is not a directory.
Blocked(t, p) == \E q \in Above(p) : t[q].type = "file"

\* writable: the directory of p is opened (0555 becomes 0755), its mode kept.
Opens(t, p) ==
    IF Len(p) > 1 /\ IsDir(t[Parent(p)]) /\ t[Parent(p)].mode = "ro" /\ Parent(p) \notin DOMAIN restore
    THEN {Parent(p)} ELSE {}

Opened(t, p) == [q \in Paths |-> IF q \in Opens(t, p) THEN [t[q] EXCEPT !.mode = "all"] ELSE t[q]]

Restoring(t, p) ==
    [q \in DOMAIN restore \cup Opens(t, p) |-> IF q \in DOMAIN restore THEN restore[q] ELSE t[q].mode]

Stops(how) ==
    /\ phase' = "idle"
    /\ outcome' = how
    /\ dels' = {} /\ rest' = {} /\ dirs' = {}
    /\ restore' = <<>>
    /\ UNCHANGED <<base, remote, forced, start, from>>

\* os.Remove: a directory goes only when it is empty.
\* Mutant: os.RemoveAll.
RemovedAll(t, p) == IF t[p] # Gone THEN Removed(t, p, Now) ELSE t

RemovedIfEmpty(t, p) ==
    IF t[p] # Gone /\ \A q \in Below(p) : t[q] = Gone THEN Removed(t, p, Now) ELSE t

\* One deletion, of a path below which none is left.
ApplyDeletion ==
    /\ phase = "dels"
    /\ \E c \in dels :
        /\ \A o \in dels : o.path \notin Below(c.path)
        /\ dels' = dels \ {c}
        /\ IF Blocked(disk, c.path)
           THEN UNCHANGED <<disk, restore>>
           ELSE /\ restore' = Restoring(disk, c.path)
                /\ disk' = RemovedIfEmpty(Opened(disk, c.path), c.path)
    /\ UNCHANGED <<base, remote, phase, rest, dirs, forced, outcome, start, from, edits>>

DeletionsDone ==
    /\ phase = "dels" /\ dels = {}
    /\ phase' = "rest"
    /\ UNCHANGED <<base, remote, disk, dels, rest, dirs, restore, forced, outcome, start, from, edits>>

\* mkdir_all of the directories above p.
WithParents(t, p) ==
    [q \in Paths |->
        IF q \in Above(p) /\ t[q] = Gone THEN Dir("all", Now)
        ELSE IF IsDir(t[q]) /\ \E r \in Above(p) : t[r] = Gone /\ Len(r) > 1 /\ Parent(r) = q
        THEN [t[q] EXCEPT !.meta = Now] ELSE t[q]]

\* clear_target: what has another type goes, with all below it.
Cleared(t, c) ==
    IF t[c.path] # Gone /\ t[c.path].type # c.new.type THEN Removed(t, c.path, Now) ELSE t

\* mkdir, or the content written to a temporary file and renamed.
Created(t, c) ==
    IF IsDir(c.new)
    THEN IF t[c.path] = Gone THEN Placed(t, c.path, Dir("own", Now), Now) ELSE t
    ELSE IF c.kind \notin {"mode", "meta"}
         THEN Placed(t, c.path, File(c.new.data, "own", Now), Now) ELSE t

\* apply_meta.
WithMeta(t, c) ==
    [t EXCEPT ![c.path] = [[t[c.path] EXCEPT !.mode = c.new.mode] EXCEPT !.meta = c.new.meta]]

Prepared(c) == Opened(WithParents(disk, c.path), c.path)

ApplyEntry ==
    /\ phase = "rest"
    /\ \E c \in rest :
        /\ \A o \in rest : o.path \notin Above(c.path)
        /\ LET t == Created(Cleared(Prepared(c), c), c) IN
           CASE Blocked(disk, c.path) -> Stops("failed") /\ UNCHANGED disk
             [] ~Blocked(disk, c.path) /\ t[c.path] = Gone ->
                    Stops("failed") /\ disk' = t     \* apply_meta has no file
             [] OTHER ->
                    /\ rest' = rest \ {c}
                    /\ restore' = Restoring(WithParents(disk, c.path), c.path)
                    /\ disk' = IF IsDir(c.new) THEN t ELSE WithMeta(t, c)
                    /\ dirs' = IF IsDir(c.new) THEN dirs \cup {c} ELSE dirs
                    /\ UNCHANGED <<base, remote, phase, dels, forced, outcome, start, from>>
    /\ UNCHANGED edits

EntriesDone ==
    /\ phase = "rest" /\ rest = {}
    /\ phase' = "restore"
    /\ UNCHANGED <<base, remote, disk, dels, rest, dirs, restore, forced, outcome, start, from, edits>>

\* The saved modes are given back, deepest directory first.
ApplyRestore ==
    /\ phase = "restore"
    /\ \E p \in DOMAIN restore :
        /\ \A q \in DOMAIN restore : q \notin Below(p)
        /\ IF disk[p] = Gone
           THEN Stops("failed") /\ UNCHANGED disk
           ELSE /\ disk' = [disk EXCEPT ![p].mode = restore[p]]
                /\ restore' = [q \in DOMAIN restore \ {p} |-> restore[q]]
                /\ UNCHANGED <<base, remote, phase, dels, rest, dirs, forced, outcome, start, from>>
    /\ UNCHANGED edits

\* The directories' metadata, deepest first; then base moves and is saved.
ApplyDirMeta ==
    /\ phase = "restore" /\ DOMAIN restore = {}
    /\ \E c \in dirs :
        /\ \A o \in dirs : o.path \notin Below(c.path)
        /\ disk' = WithMeta(disk, c)
        /\ dirs' = dirs \ {c}
    /\ UNCHANGED <<base, remote, phase, dels, rest, restore, forced, outcome, start, from, edits>>

PullSaved ==
    /\ phase = "restore" /\ DOMAIN restore = {} /\ dirs = {}
    /\ base' = remote
    /\ phase' = "idle"
    /\ outcome' = "ok"
    /\ UNCHANGED <<remote, disk, dels, rest, dirs, restore, forced, start, from, edits>>

(***************************************************************************)
(* The process dies, or a system call fails: base stays, and so does what  *)
(* was done, the entry in hand cleared, or created without its metadata.   *)
(***************************************************************************)
Interrupted ==
    /\ phase # "idle"
    /\ edits.crashes < MaxCrashes
    /\ edits' = [edits EXCEPT !.crashes = @ + 1]
    /\ disk' \in {disk} \cup
          IF phase # "rest" THEN {}
          ELSE UNION {{Cleared(Prepared(c), c), Created(Cleared(Prepared(c), c), c)} :
                        c \in {d \in rest : ~Blocked(disk, d.path)
                                            /\ \A o \in rest : o.path \notin Above(d.path)}}
    /\ Stops("interrupted")

Next ==
    \/ LocalEdit
    \/ RemoteEdit
    \/ PullUpToDate
    \/ \E force \in Forces : PullBegins(force)
    \/ ApplyDeletion
    \/ DeletionsDone
    \/ ApplyEntry
    \/ EntriesDone
    \/ ApplyRestore
    \/ ApplyDirMeta
    \/ PullSaved
    \/ Interrupted

Spec == Init /\ [][Next]_vars

-----------------------------------------------------------------------------
Changes == [path : Paths, kind : {"added", "deleted", "type", "modified", "mode", "meta"},
            old : Entry \cup {Gone}, new : Entry \cup {Gone}]

TypeOK ==
    /\ base \in Tree /\ remote \in Tree /\ disk \in Tree
    /\ start \in Tree /\ from \in Tree
    /\ phase \in {"idle", "dels", "rest", "restore"}
    /\ dels \subseteq Changes /\ rest \subseteq Changes /\ dirs \subseteq Changes
    /\ DOMAIN restore \subseteq Paths /\ \A p \in DOMAIN restore : restore[p] \in Modes
    /\ forced \in BOOLEAN
    /\ outcome \in {"none", "uptodate", "conflict", "ok", "failed", "interrupted"}
    /\ edits \in [local : 0..MaxEdits, remote : 0..MaxEdits, crashes : 0..MaxCrashes]
    /\ \A p \in Paths : disk[p] # Gone => InDir(disk, p)

LocallyChanged(p) == ~Equivalent(from[p], start[p])
RemotelyChanged(p) == ~Equivalent(from[p], remote[p])
SameData(a, b) == a.type = b.type /\ SameContent(a, b)

\* A pull without --force keeps local changes: what the user added, edited,
\* retyped or deleted is so at every moment of the apply, and after it.
LocalChangesKept ==
    ~forced => \A p \in Paths : LocallyChanged(p) => SameData(disk[p], start[p])

\* merge looks below a directory that the cluster replaced only when the
\* directory itself shows no local change; one whose time changed is replaced.
Unguarded(q) ==
    IsDir(from[q]) /\ remote[q].type = "file" /\ Kind(from[q], start[q]) = "meta"

\* Apart from that, local changes are kept at every moment of the apply, and
\* when it is interrupted.
GuardedChangesKept ==
    /\ TypeOK
    /\ ~forced => \A p \in Paths :
        LocallyChanged(p) /\ (\A q \in Above(p) : ~Unguarded(q)) => SameData(disk[p], start[p])

\* The cluster removed or replaced a directory that is read-only here.
ReplacesReadOnly ==
    \E p \in Paths : IsDir(start[p]) /\ start[p].mode = "ro" /\ ~IsDir(remote[p])

\* A pull that ends well without --force leaves a three-way merge: every change
\* of the cluster since base is in the directory (a directory it removed stays
\* while local changes are in it), and what neither side changed is as before.
\* (A file in place of a read-only directory gets the directory's mode.)
PullIsThreeWay ==
    outcome = "ok" /\ ~forced /\ ~ReplacesReadOnly =>
        \A p \in Paths :
            /\ RemotelyChanged(p) =>
                  \/ Equivalent(disk[p], remote[p])
                  \/ remote[p] = Gone /\ IsDir(disk[p]) /\ \E q \in Below(p) : LocallyChanged(q)
            /\ ~RemotelyChanged(p) /\ ~LocallyChanged(p) => Equivalent(disk[p], start[p])

\* A pull that finds no conflicts applies the cluster's changes and nothing it
\* does itself makes a later step of the apply fail, but for one case: a
\* read-only directory that is removed or replaced, whose mode cannot be given
\* back (apply.rs:147).
FailsOnlyAtReadOnly == ~forced /\ outcome = "failed" => ReplacesReadOnly

\* With --force, conflicts take the cluster's side.
ForceTakesTheirs ==
    forced /\ outcome = "ok" =>
        \A p \in Paths : RemotelyChanged(p) /\ remote[p].type = "file" => SameData(disk[p], remote[p])

\* The scan does not read a file whose time is its base entry's: such a file
\* has the base entry's content, whatever pulls were interrupted before.
NoHiddenEdit ==
    phase = "idle" /\ ~forced =>
        \A p \in Paths :
            base[p].type = "file" /\ disk[p].type = "file" /\ base[p].meta = disk[p].meta
            => base[p].data = disk[p].data
=============================================================================
