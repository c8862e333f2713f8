------------------------------- MODULE Local -------------------------------
(***************************************************************************)
(* What a command meets on its own machine: the pull of a tree over the    *)
(* working directory (Pull), the files a scan reads (RacyWindow) and the   *)
(* life of the working copy on disk (Lifecycle).  The last two are models  *)
(* of their own, of one file and of one directory; what they promise is    *)
(* said here next to what Pull does.                                       *)
(***************************************************************************)
EXTENDS Pull

CONSTANTS
    Window, Granule, MaxTime, MaxWrites,    \* see RacyWindow
    Processes, MaxFaults                    \* see Lifecycle

VARIABLES
    now, file, entry, synced, task, taken, writes, wrote,
    dir, meta, config, state, inodes, pc, cmd, created, mine, fd, early, robbed, faults

racyVars == <<now, file, entry, synced, task, taken, writes, wrote>>
lifeVars == <<dir, meta, config, state, inodes, pc, cmd, created, mine, fd, early, robbed, faults>>

Racy == INSTANCE RacyWindow
Life == INSTANCE Lifecycle

\* No edit is hidden from the next scan, by an interrupted pull (NoHiddenEdit)
\* or by the shortcut over mtimes (Racy!EditsAreRead).
EditsAreRead == NoHiddenEdit /\ Racy!EditsAreRead

\* One command at a time has the working copy open, and a copy that was cloned
\* has every file (Life!CopyIsSound).
CopyIsSound == Life!CopyIsSound

\* A finished working copy is never removed by a command started later
\* (Life!CopyKept).
CopyKept == Life!CopyKept
=============================================================================
