----------------------------- MODULE Lifecycle -----------------------------
(***************************************************************************)
(* The life of one working copy on disk: clone, init and the commands that *)
(* open it (crates/worktree/src/tree.rs and flow.rs), run by processes     *)
(* that know nothing of each other but what they find in the directory.    *)
(*                                                                         *)
(* Files are reached by path, the lock belongs to the inode it was taken   *)
(* on: a process that holds the lock of a .dstore that was removed shares  *)
(* the path, and not the lock, with whoever made the next one.  A call to  *)
(* the file system is one step (os::remove_all too).                       *)
(***************************************************************************)
EXTENDS Naturals, FiniteSets

CONSTANTS
    Processes,
    MaxFaults   \* bound: disk errors, failed fetches, cancels and kills

VARIABLES
    dir,        \* the directory: "absent", "empty", "partial" or "full"
    meta,       \* the inode of .dstore; 0 when there is none
    config,     \* .dstore/config is there
    state,      \* .dstore/state: "none", "clone" or "init", who wrote it first
    inodes,     \* how many .dstore directories there have been
    pc, cmd,    \* of each process: where it is, which command it runs
    created,    \* of each clone: it made the directory
    mine,       \* the .dstore a process has made, or 0
    fd,         \* the .dstore whose lock file a process has open, or 0
    early,      \* history: commands that were running when `state` was written
    robbed,     \* history: a .dstore was removed under a process with its lock file open
    faults

diskVars == <<dir, meta, config, state, inodes>>
procVars == <<pc, cmd, created, mine, fd>>
vars == <<diskVars, procVars, early, robbed, faults>>

Init ==
    /\ dir \in {"absent", "empty", "partial"}
    /\ meta = 0 /\ config = FALSE /\ state = "none" /\ inodes = 0
    /\ pc = [p \in Processes |-> "idle"]
    /\ cmd = [p \in Processes |-> "none"]
    /\ created = [p \in Processes |-> FALSE]
    /\ mine = [p \in Processes |-> 0]
    /\ fd = [p \in Processes |-> 0]
    /\ early = {} /\ robbed = FALSE /\ faults = 0

\* Every command is over.
Over ==
    /\ dir = "empty" /\ meta = 0 /\ config = FALSE /\ state = "none" /\ inodes = 0
    /\ pc = [p \in Processes |-> "ok"]
    /\ cmd = [p \in Processes |-> "open"]
    /\ created = [p \in Processes |-> FALSE]
    /\ mine = [p \in Processes |-> 0]
    /\ fd = [p \in Processes |-> 0]
    /\ early = {} /\ robbed = FALSE /\ faults = 0

-----------------------------------------------------------------------------
Running == {p \in Processes : pc[p] \notin {"idle", "ok", "failed"}}

Goto(p, l) == pc' = [pc EXCEPT ![p] = l]

\* A step of p that goes to l and changes no file.
Step(p, l) ==
    /\ Goto(p, l)
    /\ UNCHANGED <<diskVars, cmd, created, mine, fd, early, robbed, faults>>

\* .dstore is removed by p, with all or without the rest of the directory.
Removed(p, d) ==
    /\ dir' = d
    /\ meta' = 0 /\ config' = FALSE /\ state' = "none"
    /\ robbed' = (robbed \/ (meta # 0 /\ \E q \in Processes \ {p} : fd[q] = meta))
    /\ UNCHANGED <<inodes, early>>

Start(p) ==
    /\ pc[p] = "idle"
    /\ \E c \in {"clone", "init", "open"} :
        /\ cmd' = [cmd EXCEPT ![p] = c]
        /\ Goto(p, IF c = "clone" THEN "stat" ELSE "find")
        /\ c = "init" => dir # "absent"
    /\ UNCHANGED <<diskVars, created, mine, fd, early, robbed, faults>>

-----------------------------------------------------------------------------
(***************************************************************************)
(* prepare_clone.                                                          *)
(***************************************************************************)
\* Mutant: a directory that is there is not looked into.
StatNotEmptied(p) ==
    /\ pc[p] = "stat"
    /\ Step(p, "mkdir")

Stat(p) ==
    /\ pc[p] = "stat"
    /\ Step(p, CASE dir = "absent" -> "mkdir"
                 [] dir = "empty" /\ meta = 0 -> "find"
                 [] OTHER -> "failed")

MakeDir(p) ==
    /\ pc[p] = "mkdir"
    /\ dir' = IF dir = "absent" THEN "empty" ELSE dir
    /\ created' = [created EXCEPT ![p] = TRUE]
    /\ Goto(p, "find")
    /\ UNCHANGED <<meta, config, state, inodes, cmd, mine, fd, early, robbed, faults>>

\* Tree::create failed: a clone removes the directory if it has made it.
CreateFails(p) == IF cmd[p] = "clone" /\ created[p] THEN "remove" ELSE "failed"

OnRefusal(p) == IF cmd[p] = "open" THEN "failed" ELSE CreateFails(p)

-----------------------------------------------------------------------------
(***************************************************************************)
(* Tree::create (of clone and init) and Tree::open.                        *)
(***************************************************************************)
Find(p) ==
    /\ pc[p] = "find"
    /\ Step(p, IF cmd[p] = "open"
               THEN IF meta # 0 THEN "lock" ELSE "failed"
               ELSE IF meta # 0 THEN CreateFails(p) ELSE "mkmeta")

\* mkdir_all of .dstore, which makes the directory again if it has gone.
MakeMeta(p) ==
    /\ pc[p] = "mkmeta"
    /\ dir' = IF dir = "absent" THEN "empty" ELSE dir
    /\ IF meta # 0
       THEN UNCHANGED <<meta, inodes, mine>>
       ELSE /\ inodes' = inodes + 1
            /\ meta' = inodes'
            /\ mine' = [mine EXCEPT ![p] = inodes']
    /\ Goto(p, "lock")
    /\ UNCHANGED <<config, state, cmd, created, fd, early, robbed, faults>>

\* lock_working_copy: the lock file is opened, or .dstore is gone; flock then
\* takes the lock or finds it held.
OpenLock(p) ==
    /\ pc[p] = "lock" /\ meta # 0
    /\ fd' = [fd EXCEPT ![p] = meta]
    /\ Goto(p, "flock")
    /\ UNCHANGED <<diskVars, cmd, created, mine, early, robbed, faults>>

OpenLockFails(p) ==
    /\ pc[p] = "lock" /\ meta = 0
    /\ Step(p, OnRefusal(p))

Locked(i) == \E q \in Processes : fd[q] = i /\ pc[q] # "flock"

\* Mutant: a lock that is held does not stop the command.
FlockShared(p) ==
    /\ pc[p] = "flock"
    /\ Step(p, "config")

Flock(p) ==
    /\ pc[p] = "flock" /\ ~Locked(fd[p])
    /\ Step(p, "config")

\* Error::InUse
FlockRefused(p) ==
    /\ pc[p] = "flock" /\ Locked(fd[p])
    /\ fd' = [fd EXCEPT ![p] = 0]
    /\ Goto(p, OnRefusal(p))
    /\ UNCHANGED <<diskVars, cmd, created, mine, early, robbed, faults>>

\* create writes the config, opens the store and puts the empty tree.  When
\* one of these fails the lock is dropped with the error.
WriteConfig(p) ==
    /\ pc[p] = "config" /\ cmd[p] # "open" /\ meta # 0
    /\ config' = TRUE
    /\ Goto(p, IF cmd[p] = "clone" THEN "apply" ELSE "save")
    /\ UNCHANGED <<dir, meta, state, inodes, cmd, created, mine, fd, early, robbed, faults>>

WriteConfigFails(p) ==
    /\ pc[p] = "config" /\ cmd[p] # "open"
    /\ meta = 0 \/ faults < MaxFaults
    /\ faults' = IF meta = 0 THEN faults ELSE faults + 1
    /\ fd' = [fd EXCEPT ![p] = 0]
    /\ Goto(p, CreateFails(p))
    /\ UNCHANGED <<diskVars, cmd, created, mine, early, robbed>>

\* open reads the config and the state under the lock.
OpenReads(p) ==
    /\ pc[p] = "config" /\ cmd[p] = "open"
    /\ config /\ state # "none"
    /\ Step(p, "save")

OpenFails(p) ==
    /\ pc[p] = "config" /\ cmd[p] = "open"
    /\ ~config \/ state = "none"
    /\ fd' = [fd EXCEPT ![p] = 0]
    /\ Goto(p, "failed")
    /\ UNCHANGED <<diskVars, cmd, created, mine, early, robbed, faults>>

-----------------------------------------------------------------------------
(***************************************************************************)
(* clone_fill, init after create, and a command that opened the copy.      *)
(***************************************************************************)
\* The fetch, then the apply: file by file.
Apply(p) ==
    /\ pc[p] = "apply" /\ dir \in {"empty", "partial"}
    /\ dir' = IF dir = "empty" THEN "partial" ELSE "full"
    /\ UNCHANGED <<meta, config, state, inodes, procVars, early, robbed, faults>>

Applied(p) ==
    /\ pc[p] = "apply" /\ dir = "full"
    /\ Step(p, "save")

\* save_state, by path: last in a clone and an init.
SaveState(p) ==
    /\ pc[p] = "save" /\ meta # 0
    /\ state' = IF cmd[p] = "open" /\ state # "none" THEN state ELSE cmd[p]
    /\ early' = IF state = "none" THEN Running \ {p} ELSE early
    /\ Goto(p, "close")
    /\ UNCHANGED <<dir, meta, config, inodes, cmd, created, mine, fd, robbed, faults>>

\* The fetch fails or is cancelled, or a write finds the directory gone: the
\* tree is closed first; clone and init then remove what they have made.
WorkFails(p) ==
    /\ pc[p] \in {"apply", "save"}
    /\ \/ faults < MaxFaults /\ faults' = faults + 1
       \/ (meta = 0 \/ dir = "absent") /\ UNCHANGED faults
    /\ fd' = [fd EXCEPT ![p] = 0]
    /\ Goto(p, IF cmd[p] = "open" THEN "failed" ELSE "remove")
    /\ UNCHANGED <<diskVars, cmd, created, mine, early, robbed>>

Remove(p) ==
    /\ pc[p] = "remove"
    /\ Removed(p, IF cmd[p] = "clone" /\ created[p] THEN "absent" ELSE dir)
    /\ Goto(p, "failed")
    /\ UNCHANGED <<cmd, created, mine, fd, faults>>

Close(p) ==
    /\ pc[p] = "close"
    /\ fd' = [fd EXCEPT ![p] = 0]
    /\ Goto(p, "ok")
    /\ UNCHANGED <<diskVars, cmd, created, mine, early, robbed, faults>>

\* The process is killed: the system lets go of its lock, nothing is removed.
Kill(p) ==
    /\ p \in Running /\ faults < MaxFaults
    /\ faults' = faults + 1
    /\ fd' = [fd EXCEPT ![p] = 0]
    /\ mine' = [mine EXCEPT ![p] = 0]
    /\ Goto(p, "failed")
    /\ UNCHANGED <<diskVars, cmd, created, early, robbed>>

Process(p) ==
    \/ Start(p) \/ Stat(p) \/ MakeDir(p) \/ Find(p) \/ MakeMeta(p)
    \/ OpenLock(p) \/ OpenLockFails(p) \/ Flock(p) \/ FlockRefused(p)
    \/ WriteConfig(p) \/ WriteConfigFails(p)
    \/ OpenReads(p) \/ OpenFails(p) \/ Apply(p) \/ Applied(p) \/ SaveState(p)
    \/ WorkFails(p) \/ Remove(p) \/ Close(p) \/ Kill(p)

Finished == (\A p \in Processes : pc[p] \in {"ok", "failed"}) /\ UNCHANGED vars

Next == (\E p \in Processes : Process(p)) \/ Finished

Spec == Init /\ [][Next]_vars

-----------------------------------------------------------------------------
TypeOK ==
    /\ dir \in {"absent", "empty", "partial", "full"}
    /\ meta \in {0, inodes} /\ (meta = 0 => ~config /\ state = "none")
    /\ (dir = "absent" => meta = 0)
    /\ state \in {"none", "clone", "init", "open"}
    /\ \A p \in Processes : fd[p] \in 0..inodes /\ mine[p] \in 0..inodes
    /\ early \subseteq Processes /\ faults \in 0..MaxFaults

\* One command at a time has the working copy open, and a copy whose state
\* says it was cloned has every file, whatever fails or is killed; unless a
\* clone or an init that failed removed .dstore, its lock already released,
\* under a command that had taken the lock since.
CopyIsSound ==
    /\ TypeOK
    /\ ~robbed =>
        /\ \A p, q \in Processes :
            p # q => ~({pc[p], pc[q]} \subseteq {"config", "apply", "save", "close"})
        /\ state # "open"
        /\ state = "clone" => dir = "full"

\* A working copy that is finished stays: a command that was started later
\* never removes it, whichever way it fails.
CopyKept ==
    [][ meta # 0 /\ state # "none" /\ meta' = 0
          => \E p \in early : pc[p] = "remove" /\ pc'[p] = "failed" ]_vars
=============================================================================
