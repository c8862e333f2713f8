----------------------------- MODULE RacyWindow -----------------------------
(***************************************************************************)
(* When a scan reads a file (crates/worktree/src/scan.rs, Scanner::both):  *)
(* its size and mtime being those of the base entry, only if the entry is  *)
(* younger than RACY_WINDOW_NS before the time of the last sync, which a   *)
(* push or a pull (flow.rs) writes when it is over.                        *)
(*                                                                         *)
(* One file of one size.  The file system stamps a write with the start of *)
(* the clock's current granule; the user writes at any moment, while a     *)
(* command runs too.                                                       *)
(***************************************************************************)
EXTENDS Integers

CONSTANTS
    Window,     \* RACY_WINDOW_NS
    Granule,    \* of the file system's mtimes
    MaxTime,    \* bound: the clock
    MaxWrites   \* bound: writes of the user

VARIABLES
    now,
    file,       \* the file: what the user wrote last, by number, or 0
    entry,      \* its base entry
    synced,     \* State.synced_at
    task, taken,    \* the command that runs, and the entry it has made or placed
    writes, wrote   \* number and time of the user's last write

vars == <<now, file, entry, synced, task, taken, writes, wrote>>

Entry(d, t) == [data |-> d, mtime |-> t]
Theirs == 0
Stamp == now - (now % Granule)

Init ==
    /\ now = 0 /\ synced = 0 /\ writes = 0 /\ wrote = 0
    /\ file = Entry(Theirs, 0) /\ entry = file /\ taken = file /\ task = "none"

Over ==
    /\ now = MaxTime /\ synced = 0 /\ writes = MaxWrites /\ wrote = 0
    /\ file = Entry(Theirs, 0) /\ entry = file /\ taken = file /\ task = "none"

Tick == now < MaxTime /\ now' = now + 1 /\ UNCHANGED <<file, entry, synced, task, taken, writes, wrote>>

Write ==
    /\ writes < MaxWrites
    /\ writes' = writes + 1 /\ wrote' = now
    /\ file' = Entry(writes', Stamp)
    /\ UNCHANGED <<now, entry, synced, task, taken>>

\* Mutant: an entry is old as soon as it is not newer than the sync.
ReadsNoWindow == file.mtime # entry.mtime \/ entry.mtime > synced

\* Scanner::both hashes the file.
Reads == file.mtime # entry.mtime \/ entry.mtime > synced - Window

\* push ingests the directory, whatever a scan would say, and has nothing to
\* do when the tree is base's.
PushIngests ==
    /\ task = "none"
    /\ taken' = file
    /\ task' = IF file = entry THEN "none" ELSE "push"
    /\ UNCHANGED <<now, file, entry, synced, writes, wrote>>

\* pull places a newer entry over a file that shows no local change.  The
\* entry has the mtime it got where it was written, by another clock.
PullPlaces(t) ==
    /\ task = "none" /\ ~(Reads /\ file.data # entry.data)
    /\ file' = Entry(Theirs, t) /\ taken' = file' /\ task' = "pull"
    /\ UNCHANGED <<now, entry, synced, writes, wrote>>

Saved ==
    /\ task # "none"
    /\ entry' = taken /\ synced' = now /\ task' = "none"
    /\ UNCHANGED <<now, file, taken, writes, wrote>>

Fails ==
    /\ task # "none"
    /\ task' = "none" /\ taken' = entry
    /\ UNCHANGED <<now, file, entry, synced, writes, wrote>>

Finished == now = MaxTime /\ writes = MaxWrites /\ UNCHANGED vars

Next ==
    \/ Tick \/ Write \/ PushIngests \/ Saved \/ Fails \/ Finished
    \/ \E t \in 0..MaxTime : PullPlaces(t)

Spec == Init /\ [][Next]_vars

-----------------------------------------------------------------------------
(***************************************************************************)
(* What the user wrote is read by the next scan, unless it was written     *)
(* while a command ran that took at least Window - Granule more to be      *)
(* over: synced_at is the end of a push or a pull, and not the time it     *)
(* looked at the file, so a longer one makes the entry look old although   *)
(* the file was written again in the same granule.                         *)
(***************************************************************************)
EditsAreRead ==
    file.data # Theirs /\ file.data # entry.data /\ wrote >= synced - (Window - Granule) => Reads
=============================================================================
