--------------------------- MODULE WorkingCopy ---------------------------
(***************************************************************************)
(* Working copies of one reference: fetch, pull and push (worktree/src/    *)
(* flow.rs), the reference client (client/src/refs.rs) and the catalog of  *)
(* the cluster as the repository's fake cluster implements it (testkit/src/*)
(* fake.rs).                                                               *)
(*                                                                         *)
(* A tree is the set of items in it, so that a merge and a lost update can *)
(* be spoken of; how one directory is merged and written is Pull.  A key   *)
(* names a tree, or a commit of a tree on a parent.  Commands of one copy  *)
(* exclude each other (.dstore/lock); users edit a copy while a push of it *)
(* runs.  A put of the reference may be executed although its sender       *)
(* stopped waiting (it asks the next node, fails, or dies), even later.    *)
(***************************************************************************)
EXTENDS Naturals, Sequences

CONSTANTS
    Copies,       \* working copies
    Nobody,       \* in place of a copy, in the request that is none
    Items,        \* what a tree may hold
    MaxPushes,    \* bound on the pushes that reach the cluster
    MaxVersions,  \* bound on the changes of the reference
    MaxEdits,     \* bound on the users' edits
    MaxFaults     \* bound on crashes, lost answers and late requests

ASSUME NobodyAssumption == Nobody \notin Copies

VARIABLES
    ref,      \* the catalog's entry: its version (0: no such name) and the put it came from
    history,  \* what every version of the reference named
    late,     \* puts nobody waits for any more
    state,    \* .dstore/state of each copy
    store,    \* the keys in each copy's packstore with all they reach
    wd,       \* the tree of each working directory
    dropped,  \* items a user removed from a copy, or a pull that did not end
    pc,       \* where each copy's command is
    req,      \* the put of its push
    got,      \* the catalog's entry as it was answered to the command
    pushes,   \* pushes so far; numbers the records, which carry a time
    edits, faults

cluster == <<ref, history, late>>
copy == <<state, store, wd, dropped>>
command == <<pc, req, got>>
bounds == <<pushes, edits, faults>>
vars == <<cluster, copy, command, bounds>>

Tree == SUBSET Items
Key == [tree : Tree, commit : Nat, parent : Nat]

\* A tree stands for itself; a commit carries the number of the push that made
\* it and that of its parent (0: none).
TreeKey(t) == [tree |-> t, commit |-> 0, parent |-> 0]
ZeroKey == TreeKey({})

State == [base : Tree, hasRemote : BOOLEAN, remote : Key, version : Nat]
Request == [by : Copies \cup {Nobody}, n : Nat, key : Key, expected : Nat, force : BOOLEAN, drop : Tree]
NoRequest == [by |-> Nobody, n |-> 0, key |-> ZeroKey, expected |-> 0, force |-> FALSE, drop |-> {}]
Entry == [version : Nat, put : Request]
Absent == [version |-> 0, put |-> NoRequest]

IsBranch(s) == s.hasRemote /\ s.remote.commit # 0
Synced(s) == IF s.hasRemote THEN s.remote.tree = s.base ELSE s.base = {}

\* Every copy was made by init while the name did not exist.
Init ==
    /\ ref = Absent
    /\ history = <<>>
    /\ late = {}
    /\ state = [c \in Copies |-> [base |-> {}, hasRemote |-> FALSE, remote |-> ZeroKey, version |-> 0]]
    /\ store = [c \in Copies |-> {TreeKey({})}]
    /\ wd = [c \in Copies |-> {}]
    /\ dropped = [c \in Copies |-> {}]
    /\ pc = [c \in Copies |-> "idle"]
    /\ req = [c \in Copies |-> NoRequest]
    /\ got = [c \in Copies |-> Absent]
    /\ pushes = 0 /\ edits = 0 /\ faults = 0

Resting(c) == pc[c] \in {"idle", "refchanged"}
Pushing(c) == pc[c] \in {"put", "answered"}
Goes(c, to) == pc' = [pc EXCEPT ![c] = to]

\* The command ends, and what it knew goes with it.
Ends(c) ==
    /\ Goes(c, "idle")
    /\ req' = [req EXCEPT ![c] = NoRequest]
    /\ got' = [got EXCEPT ![c] = Absent]

Fault == faults < MaxFaults /\ faults' = faults + 1

-----------------------------------------------------------------------------
(***************************************************************************)
(* The users.  Nothing guards against an edit made while a pull writes.    *)
(***************************************************************************)
AddItem(c, i) ==
    /\ i \notin wd[c]
    /\ wd' = [wd EXCEPT ![c] = @ \cup {i}]
    /\ dropped' = [dropped EXCEPT ![c] = @ \ {i}]

RemoveItem(c, i) ==
    /\ i \in wd[c]
    /\ wd' = [wd EXCEPT ![c] = @ \ {i}]
    /\ dropped' = [dropped EXCEPT ![c] = @ \cup {i}]

Edit(c) ==
    /\ pc[c] # "applied"
    /\ edits < MaxEdits
    /\ edits' = edits + 1
    /\ \E i \in Items : AddItem(c, i) \/ RemoveItem(c, i)
    /\ UNCHANGED <<cluster, state, store, command, pushes, faults>>

-----------------------------------------------------------------------------
(***************************************************************************)
(* The catalog.                                                            *)
(***************************************************************************)
\* Mutant: the expected tree instead of the expected version.
AdmitsByTree(r) ==
    r.force \/ r.expected = ref.version
    \/ (r.expected # 0 /\ ref.version # 0 /\ history[r.expected].tree = ref.put.key.tree)

\* Cond.check: forced, or the version is the expected one (none: a new name).
Admits(r) == r.force \/ r.expected = ref.version

CatalogPut(r) ==
    IF Admits(r)
    THEN /\ Len(history) < MaxVersions
         /\ ref' = [version |-> Len(history) + 1, put |-> r]
         /\ history' = Append(history, r.key)
    ELSE UNCHANGED <<ref, history>>

\* Someone deletes the reference.
RefDelete ==
    /\ ref.version # 0
    /\ Len(history) < MaxVersions
    /\ ref' = Absent
    /\ history' = Append(history, ZeroKey)
    /\ UNCHANGED <<late, copy, command, bounds>>

\* A put is executed that nobody waits for.
LateServed(r) ==
    /\ r \in late
    /\ CatalogPut(r)
    /\ late' = late \ {r}
    /\ UNCHANGED <<copy, command, bounds>>

-----------------------------------------------------------------------------
(***************************************************************************)
(* Fetch, and pull after its fetch.                                        *)
(***************************************************************************)
RefGet(c) ==
    /\ Resting(c)
    /\ got' = [got EXCEPT ![c] = ref]
    /\ req' = [req EXCEPT ![c] = NoRequest]
    /\ Goes(c, "got")
    /\ UNCHANGED <<cluster, copy, bounds>>

\* fetch_state and save_state when the name is unknown.
FetchGone(c) ==
    /\ pc[c] = "got"
    /\ got[c].version = 0
    /\ state' = [state EXCEPT ![c] =
          [base |-> state[c].base, hasRemote |-> FALSE, remote |-> ZeroKey, version |-> 0]]
    /\ Goes(c, "saved")
    /\ UNCHANGED <<cluster, store, wd, dropped, req, got, bounds>>

Known(c) == state[c].hasRemote /\ state[c].remote = got[c].put.key

\* The same key under a new version: nothing is pulled into the packstore.
FetchSame(c) ==
    /\ pc[c] = "got"
    /\ got[c].version # 0
    /\ Known(c)
    /\ state' = [state EXCEPT ![c].version = got[c].version]
    /\ Goes(c, "saved")
    /\ UNCHANGED <<cluster, store, wd, dropped, req, got, bounds>>

\* Mutant: a tree the packstore has is not pulled again, a commit of it neither.
PullTreeShared(c) ==
    /\ pc[c] = "got"
    /\ got[c].version # 0
    /\ ~Known(c)
    /\ store' = [store EXCEPT ![c] =
          IF TreeKey(got[c].put.key.tree) \in @ THEN @
          ELSE @ \cup {got[c].put.key, TreeKey(got[c].put.key.tree)}]
    /\ Goes(c, "fetched")
    /\ UNCHANGED <<cluster, state, wd, dropped, req, got, bounds>>

PullTree(c) ==
    /\ pc[c] = "got"
    /\ got[c].version # 0
    /\ ~Known(c)
    /\ store' = [store EXCEPT ![c] = @ \cup {got[c].put.key, TreeKey(got[c].put.key.tree)}]
    /\ Goes(c, "fetched")
    /\ UNCHANGED <<cluster, state, wd, dropped, req, got, bounds>>

FetchMoved(c) ==
    /\ pc[c] = "fetched"
    /\ state' = [state EXCEPT ![c] =
          [base |-> state[c].base, hasRemote |-> TRUE, remote |-> got[c].put.key, version |-> got[c].version]]
    /\ Goes(c, "saved")
    /\ UNCHANGED <<cluster, store, wd, dropped, req, got, bounds>>

\* The command was a fetch, or a pull without a remote, up to date or with
\* conflicts.
FetchDone(c) ==
    /\ pc[c] = "saved"
    /\ Ends(c)
    /\ UNCHANGED <<cluster, copy, bounds>>

\* The changes from base to remote over the directory.
Merge(c, removed, added) == (wd[c] \ removed) \cup added
Outgoing(c) == state[c].base \ state[c].remote.tree
Incoming(c) == state[c].remote.tree \ state[c].base
HasChanges(c) == state[c].hasRemote /\ state[c].remote.tree # state[c].base

PullApplied(c) ==
    /\ pc[c] = "saved"
    /\ HasChanges(c)
    /\ wd' = [wd EXCEPT ![c] = Merge(c, Outgoing(c), Incoming(c))]
    /\ dropped' = [dropped EXCEPT ![c] = @ \ wd'[c]]
    /\ Goes(c, "applied")
    /\ UNCHANGED <<cluster, state, store, req, got, bounds>>

\* The apply stops half way, deletions made first.
PullTorn(c) ==
    /\ pc[c] = "saved"
    /\ HasChanges(c)
    /\ Fault
    /\ \E gone \in SUBSET Outgoing(c), come \in SUBSET Incoming(c) :
        /\ come # {} => gone = Outgoing(c)
        /\ wd' = [wd EXCEPT ![c] = Merge(c, gone, come)]
        /\ dropped' = [dropped EXCEPT ![c] = (@ \cup gone) \ wd'[c]]
    /\ Ends(c)
    /\ UNCHANGED <<cluster, state, store, pushes, edits>>

PullSaved(c) ==
    /\ pc[c] = "applied"
    /\ state' = [state EXCEPT ![c].base = state[c].remote.tree]
    /\ Ends(c)
    /\ UNCHANGED <<cluster, store, wd, dropped, bounds>>

-----------------------------------------------------------------------------
(***************************************************************************)
(* Push: the tree is built and committed, then the reference is put.       *)
(***************************************************************************)
Target(c, message) ==
    [tree   |-> wd[c],
     commit |-> IF IsBranch(state[c]) \/ message THEN pushes + 1 ELSE 0,
     parent |-> IF IsBranch(state[c]) THEN state[c].remote.commit ELSE 0]

\* Mutant: whether base is the remote's tree is left to the put's condition.
MayPushAlways(c, force) == TRUE

MayPush(c, force) == Synced(state[c]) \/ force
Unchanged(c) == wd[c] = state[c].base /\ Synced(state[c])

\* Mutant: the commit is stored when the push is done.
PushBuildsUnstored(c, force, message) ==
    /\ Resting(c)
    /\ MayPush(c, force)
    /\ ~Unchanged(c)
    /\ pushes < MaxPushes
    /\ pushes' = pushes + 1
    /\ store' = [store EXCEPT ![c] = @ \cup {TreeKey(wd[c])}]
    /\ req' = [req EXCEPT ![c] =
          [by |-> c, n |-> pushes + 1, key |-> Target(c, message), force |-> force,
           expected |-> IF force THEN 0 ELSE state[c].version, drop |-> dropped[c]]]
    /\ got' = [got EXCEPT ![c] = Absent]
    /\ Goes(c, "put")
    /\ UNCHANGED <<cluster, state, wd, dropped, edits, faults>>

PushBuilds(c, force, message) ==
    /\ Resting(c)
    /\ MayPush(c, force)
    /\ ~Unchanged(c)
    /\ pushes < MaxPushes
    /\ pushes' = pushes + 1
    /\ store' = [store EXCEPT ![c] = @ \cup {Target(c, message), TreeKey(wd[c])}]
    /\ req' = [req EXCEPT ![c] =
          [by |-> c, n |-> pushes + 1, key |-> Target(c, message), force |-> force,
           expected |-> IF force THEN 0 ELSE state[c].version, drop |-> dropped[c]]]
    /\ got' = [got EXCEPT ![c] = Absent]
    /\ Goes(c, "put")
    /\ UNCHANGED <<cluster, state, wd, dropped, edits, faults>>

\* catalog_put answers with the entry the put leaves: its own record (made now
\* or by an earlier try), or another one, a mismatch.
PutServed(c) ==
    /\ pc[c] = "put"
    /\ CatalogPut(req[c])
    /\ got' = [got EXCEPT ![c] = ref']
    /\ Goes(c, "answered")
    /\ UNCHANGED <<late, copy, req, bounds>>

\* any_node: the answer is lost, and the next node asked.
PutAnswerLost(c) ==
    /\ pc[c] = "answered"
    /\ Fault
    /\ got' = [got EXCEPT ![c] = Absent]
    /\ Goes(c, "put")
    /\ UNCHANGED <<cluster, copy, req, pushes, edits>>

\* any_node: the node is given up, and the next one asked.
PutLate(c) ==
    /\ pc[c] = "put"
    /\ Fault
    /\ late' = late \cup {req[c]}
    /\ UNCHANGED <<ref, history, copy, command, pushes, edits>>

\* same_push: what the name holds is what this push would have written, or the
\* commit of an earlier try of it, which is in the packstore.
SamePush(c, cur) ==
    \/ cur = req[c].key
    \/ /\ cur.commit # 0 /\ req[c].key.commit # 0
       /\ cur \in store[c]
       /\ cur.tree = req[c].key.tree
       /\ cur.parent = req[c].key.parent

Succeeded(c) == got[c].version # 0 /\ SamePush(c, got[c].put.key)

\* Mutant: a recovered push records the commit it has just made.
PushDoneOwnKey(c) ==
    /\ pc[c] = "answered"
    /\ Succeeded(c)
    /\ state' = [state EXCEPT ![c] =
          [base |-> req[c].key.tree, hasRemote |-> TRUE,
           remote |-> req[c].key, version |-> got[c].version]]
    /\ Ends(c)
    /\ UNCHANGED <<cluster, store, wd, dropped, bounds>>

\* The put is in place, or an earlier one is recovered.
PushDone(c) ==
    /\ pc[c] = "answered"
    /\ Succeeded(c)
    /\ state' = [state EXCEPT ![c] =
          [base |-> req[c].key.tree, hasRemote |-> TRUE,
           remote |-> got[c].put.key, version |-> got[c].version]]
    /\ Ends(c)
    /\ UNCHANGED <<cluster, store, wd, dropped, bounds>>

\* Error::RefChanged.
PushRefChanged(c) ==
    /\ pc[c] = "answered"
    /\ ~Succeeded(c)
    /\ Goes(c, "refchanged")
    /\ UNCHANGED <<cluster, copy, req, got, bounds>>

(***************************************************************************)
(* The process dies or the command fails.  A put may still be on its way;  *)
(* what a pull has written stays.                                          *)
(***************************************************************************)
Crash(c) ==
    /\ pc[c] \in {"got", "fetched", "applied", "put", "answered"}
    /\ Fault
    /\ late' \in {late} \cup (IF pc[c] = "put" THEN {late \cup {req[c]}} ELSE {})
    /\ dropped' = [dropped EXCEPT ![c] =
          IF pc[c] = "applied" THEN @ \cup (state[c].base \ wd[c]) ELSE @]
    /\ Ends(c)
    /\ UNCHANGED <<ref, history, state, store, wd, pushes, edits>>

Next ==
    \/ RefDelete
    \/ \E r \in late : LateServed(r)
    \/ \E c \in Copies :
        \/ Edit(c)
        \/ RefGet(c) \/ FetchGone(c) \/ FetchSame(c) \/ PullTree(c) \/ FetchMoved(c) \/ FetchDone(c)
        \/ PullApplied(c) \/ PullTorn(c) \/ PullSaved(c)
        \/ \E force, message \in BOOLEAN : PushBuilds(c, force, message)
        \/ PutServed(c) \/ PutAnswerLost(c) \/ PutLate(c)
        \/ PushDone(c) \/ PushRefChanged(c)
        \/ Crash(c)

Spec == Init /\ [][Next]_vars

-----------------------------------------------------------------------------
TypeOK ==
    /\ ref \in Entry /\ history \in Seq(Key) /\ late \subseteq Request
    /\ state \in [Copies -> State]
    /\ store \in [Copies -> SUBSET Key]
    /\ wd \in [Copies -> Tree] /\ dropped \in [Copies -> Tree]
    /\ pc \in [Copies -> {"idle", "refchanged", "got", "fetched", "saved", "applied", "put", "answered"}]
    /\ req \in [Copies -> Request] /\ got \in [Copies -> Entry]
    /\ pushes \in Nat /\ edits \in Nat /\ faults \in Nat

\* The state file is never torn from the cluster: the version a copy would
\* write over is one that named exactly the tree or commit it has as remote,
\* whatever crashed, was retried or was recovered.
VersionNamesRemote ==
    \A c \in Copies : state[c].hasRemote =>
        state[c].version \in 1..Len(history) /\ history[state[c].version] = state[c].remote

\* A push without --force loses nobody's work: of the tree it replaces it drops
\* only what was removed in its own directory (by the user, or by a pull that
\* was interrupted).  A put that is executed late, or twice, does neither.
NoUpdateLost ==
    [][ref.version # 0 /\ ref'.version \notin {0, ref.version} /\ ~ref'.put.force
       => ref.put.key.tree \ ref'.put.key.tree \subseteq ref'.put.drop]_vars

\* On a branch, such a push makes a commit whose parent is the one it replaces:
\* no commit falls out of the history.
HistoryKept ==
    [][ref.version # 0 /\ ref'.version \notin {0, ref.version} /\ ~ref'.put.force
       => ref'.put.key.parent = ref.put.key.commit]_vars

\* What a copy's state names is in its packstore: scan, diff and the fetch that
\* pulls nothing when the key is known read it from there.
StoreHoldsState ==
    \A c \in Copies :
        /\ TreeKey(state[c].base) \in store[c]
        /\ state[c].hasRemote => state[c].remote \in store[c] /\ TreeKey(state[c].remote.tree) \in store[c]

\* A push is told that the reference changed only when it did: the entry that
\* stands in its way is not this copy's own earlier put of the same work.
OwnPushRecognised ==
    \A c \in Copies : pc[c] = "refchanged" =>
        LET own == got[c].put IN
        ~ /\ got[c].version # 0
          /\ own.by = c
          /\ own.key.tree = req[c].key.tree /\ own.key.parent = req[c].key.parent
          /\ (own.key.commit = 0) = (req[c].key.commit = 0)
=============================================================================
