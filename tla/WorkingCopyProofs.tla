------------------------ MODULE WorkingCopyProofs ------------------------
(***************************************************************************)
(* For any number of copies, items, pushes, versions, edits and faults:    *)
(* the state file names what the cluster held, a push without --force      *)
(* loses nobody's work, and a push recognises its own interrupted attempt. *)
(***************************************************************************)
EXTENDS WorkingCopy, TLAPS

\* What an entry of the catalog says, the reference did name at its version.
Names(h, e) == e.version # 0 => e.version \in 1..Len(h) /\ h[e.version] = e.put.key
EntriesName == Names(history, ref) /\ \A c \in Copies : Names(history, got[c])

\* A copy without a remote expects a new name.
NoVersion == \A c \in Copies : ~state[c].hasRemote => state[c].version = 0

\* A directory holds its base but for what was dropped in it; after an apply,
\* which has yet to move base, it holds the remote's tree.  A push's tree was
\* the directory's, and edits made since are in dropped.
Kept ==
    \A c \in Copies :
        /\ (IF pc[c] = "applied" THEN state[c].remote.tree ELSE state[c].base) \subseteq wd[c] \cup dropped[c]
        /\ Pushing(c) => req[c].key.tree \subseteq wd[c] \cup dropped[c]

\* A put with an expected version was built on what that version named.
Sound(h, r) ==
    ~r.force /\ r.expected # 0 =>
        /\ r.expected \in 1..Len(h)
        /\ h[r.expected].tree \ r.key.tree \subseteq r.drop
        /\ h[r.expected].commit = r.key.parent
PutsSound == (\A r \in late : Sound(history, r)) /\ \A c \in Copies : Sound(history, req[c])

\* What a copy ever asked to put is in its packstore.
Owned(r) == r.by \in Copies => r.key \in store[r.by]
PutsOwned ==
    /\ Owned(ref.put)
    /\ \A r \in late : Owned(r)
    /\ \A c \in Copies : Owned(req[c]) /\ Owned(got[c].put)

\* There is a remote while its changes are applied.
AppliedRemote == \A c \in Copies : pc[c] = "applied" => state[c].hasRemote

\* What a command is about to write to the state file is in the packstore.
Holds(s, k) == k \in s /\ TreeKey(k.tree) \in s
CommandHolds ==
    \A c \in Copies :
        /\ pc[c] = "fetched" => got[c].version # 0 /\ Holds(store[c], got[c].put.key)
        /\ Pushing(c) => req[c].by = c /\ Holds(store[c], req[c].key)

IInv ==
    /\ TypeOK
    /\ EntriesName
    /\ NoVersion
    /\ VersionNamesRemote
    /\ Kept
    /\ PutsSound
    /\ PutsOwned
    /\ AppliedRemote
    /\ CommandHolds
    /\ StoreHoldsState
    /\ OwnPushRecognised

-----------------------------------------------------------------------------
\* The records the model is made of have their types.
LEMMA Records ==
    /\ ZeroKey \in Key
    /\ \A t \in Tree : TreeKey(t) \in Key
    /\ NoRequest \in Request
    /\ Absent \in Entry
    BY DEF ZeroKey, TreeKey, Key, Tree, NoRequest, Request, Absent, Entry

\* A key is what it names.
LEMMA SameKey ==
    ASSUME NEW k \in Key, NEW q \in Key, k.tree = q.tree, k.commit = q.commit, k.parent = q.parent
    PROVE  k = q
    BY DEF Key

\* A history only grows: what a version named, it names for ever.
LEMMA Grows ==
    ASSUME history \in Seq(Key), NEW k \in Key
    PROVE  /\ Append(history, k) \in Seq(Key)
           /\ Len(history) \in Nat
           /\ Len(Append(history, k)) = Len(history) + 1
           /\ Append(history, k)[Len(history) + 1] = k
           /\ \A v \in 1..Len(history) : Append(history, k)[v] = history[v]
    OBVIOUS

\* The key a push makes.
LEMMA Targets ==
    ASSUME TypeOK, NEW c \in Copies, NEW m \in BOOLEAN
    PROVE  Target(c, m) \in Key /\ Target(c, m).tree = wd[c] /\ TreeKey(wd[c]) \in Key
<1>1. state[c].remote.commit \in Nat /\ wd[c] \in Tree /\ pushes + 1 \in Nat
    BY DEF TypeOK, State, Key
<1> QED
    BY <1>1, Records DEF Target, Key

\* The copies' first state satisfies the invariant.
LEMMA InitInv == Init => IInv
<1> SUFFICES ASSUME Init PROVE IInv
    OBVIOUS
<1> USE Records DEF Init
<1>1. TypeOK
    BY DEF TypeOK, State, Tree
<1>2. EntriesName /\ NoVersion /\ VersionNamesRemote
    BY DEF EntriesName, Names, NoVersion, VersionNamesRemote, Absent
<1>3. Kept /\ PutsSound
    BY DEF Kept, PutsSound, Sound, NoRequest, Pushing
<1>4. PutsOwned
    BY NobodyAssumption DEF PutsOwned, Owned, Absent, NoRequest
<1>5. AppliedRemote /\ CommandHolds /\ StoreHoldsState /\ OwnPushRecognised
    BY DEF AppliedRemote, CommandHolds, Pushing, StoreHoldsState, OwnPushRecognised
<1> QED
    BY <1>1, <1>2, <1>3, <1>4, <1>5 DEF IInv

-----------------------------------------------------------------------------
\* A put that the catalog executes or refuses keeps the types.
LEMMA PutType ==
    ASSUME TypeOK, NEW r \in Request, CatalogPut(r)
    PROVE  ref' \in Entry /\ history' \in Seq(Key)
<1>1. r.key \in Key
    BY DEF Request
<1>2. CASE Admits(r)
    <2>1. history \in Seq(Key) /\ Len(history) + 1 \in Nat
        BY DEF TypeOK
    <2> QED
        BY <1>1, <1>2, <2>1, Grows DEF CatalogPut, Entry
<1>3. CASE ~Admits(r)
    BY <1>3 DEF CatalogPut, TypeOK
<1> QED
    BY <1>2, <1>3

\* Every step keeps the types.
LEMMA TypeStep == TypeOK /\ [Next]_vars => TypeOK'
<1> SUFFICES ASSUME TypeOK, [Next]_vars PROVE TypeOK'
    OBVIOUS
<1> USE DEF TypeOK
<1>1. CASE RefDelete
    BY <1>1, Records, Grows DEF RefDelete, copy, command, bounds
<1>2. ASSUME NEW r \in late, LateServed(r) PROVE TypeOK'
    BY <1>2, PutType DEF LateServed, copy, command, bounds
<1>3. ASSUME NEW c \in Copies, Edit(c) PROVE TypeOK'
    BY <1>3 DEF Edit, AddItem, RemoveItem, Tree, cluster, command
<1>4. ASSUME NEW c \in Copies, RefGet(c) PROVE TypeOK'
    BY <1>4, Records DEF RefGet, Goes, cluster, copy, bounds
<1>5. ASSUME NEW c \in Copies, FetchGone(c) PROVE TypeOK'
    BY <1>5, Records DEF FetchGone, Goes, State, cluster, bounds
<1>6. ASSUME NEW c \in Copies, FetchSame(c) PROVE TypeOK'
    <2>1. state[c] \in State /\ got[c].version \in Nat
        BY DEF Entry
    <2>2. [state[c] EXCEPT !.version = got[c].version] \in State
        BY <2>1 DEF State
    <2> QED
        BY <1>6, <2>2 DEF FetchSame, Goes, cluster, bounds
<1>7. ASSUME NEW c \in Copies, PullTree(c) PROVE TypeOK'
    <2>1. got[c].put.key \in Key /\ got[c].put.key.tree \in Tree
        BY DEF Entry, Request, Key
    <2> QED
        BY <1>7, <2>1, Records DEF PullTree, Goes, cluster, bounds
<1>8. ASSUME NEW c \in Copies, FetchMoved(c) PROVE TypeOK'
    BY <1>8 DEF FetchMoved, Goes, State, Entry, Request, cluster, bounds
<1>9. ASSUME NEW c \in Copies, FetchDone(c) PROVE TypeOK'
    BY <1>9, Records DEF FetchDone, Ends, Goes, cluster, copy, bounds
<1>10. ASSUME NEW c \in Copies, PullApplied(c) PROVE TypeOK'
    BY <1>10 DEF PullApplied, Goes, Merge, Incoming, Outgoing, State, Key, Tree, cluster, bounds
<1>11. ASSUME NEW c \in Copies, PullTorn(c) PROVE TypeOK'
    BY <1>11, Records DEF PullTorn, Ends, Goes, Merge, Incoming, Outgoing, Fault, State, Key, Tree,
       cluster
<1>12. ASSUME NEW c \in Copies, PullSaved(c) PROVE TypeOK'
    <2>1. state[c] \in State /\ state[c].remote.tree \in Tree
        BY DEF State, Key
    <2>2. [state[c] EXCEPT !.base = state[c].remote.tree] \in State
        BY <2>1 DEF State
    <2>3. state' \in [Copies -> State]
        BY <1>12, <2>2 DEF PullSaved
    <2> QED
        BY <1>12, <2>3, Records DEF PullSaved, Ends, Goes, cluster, bounds
<1>13. ASSUME NEW c \in Copies, NEW f \in BOOLEAN, NEW m \in BOOLEAN, PushBuilds(c, f, m) PROVE TypeOK'
    <2>1. Target(c, m) \in Key /\ TreeKey(wd[c]) \in Key
        BY Targets
    <2>2. [by |-> c, n |-> pushes + 1, key |-> Target(c, m), force |-> f,
           expected |-> IF f THEN 0 ELSE state[c].version, drop |-> dropped[c]] \in Request
        BY <2>1 DEF Request, State
    <2> QED
        BY <1>13, <2>1, <2>2, Records DEF PushBuilds, Goes, cluster
<1>14. ASSUME NEW c \in Copies, PutServed(c) PROVE TypeOK'
    BY <1>14, PutType DEF PutServed, Goes, copy, bounds
<1>15. ASSUME NEW c \in Copies, PutAnswerLost(c) \/ PutLate(c) PROVE TypeOK'
    BY <1>15, Records DEF PutAnswerLost, PutLate, Goes, Fault, cluster, copy, command
<1>16. ASSUME NEW c \in Copies, PushDone(c) PROVE TypeOK'
    BY <1>16, Records DEF PushDone, Ends, Goes, State, Entry, Request, Key, cluster, bounds
<1>17. ASSUME NEW c \in Copies, PushRefChanged(c) PROVE TypeOK'
    BY <1>17 DEF PushRefChanged, Goes, cluster, copy, bounds
<1>18. ASSUME NEW c \in Copies, Crash(c) PROVE TypeOK'
    BY <1>18, Records DEF Crash, Ends, Goes, Fault, State, Tree
<1>19. CASE UNCHANGED vars
    BY <1>19 DEF vars, cluster, copy, command, bounds
<1> QED
    BY <1>1, <1>2, <1>3, <1>4, <1>5, <1>6, <1>7, <1>8, <1>9, <1>10, <1>11, <1>12, <1>13, <1>14,
       <1>15, <1>16, <1>17, <1>18, <1>19
    DEF Next

-----------------------------------------------------------------------------
\* The history is the same or longer by one.
Longer(h, g) == g = h \/ \E k \in Key : g = Append(h, k)

\* So what was true of a version stays true.
LEMMA StillThere ==
    ASSUME NEW h \in Seq(Key), NEW g, Longer(h, g)
    PROVE  /\ \A v \in 1..Len(h) : v \in 1..Len(g) /\ g[v] = h[v]
           /\ \A e \in Entry : Names(h, e) => Names(g, e)
           /\ \A r \in Request : Sound(h, r) => Sound(g, r)
<1>1. \A v \in 1..Len(h) : v \in 1..Len(g) /\ g[v] = h[v]
    BY DEF Longer
<1> QED
    BY <1>1 DEF Names, Sound

\* The catalog's answer to a put: a new entry for it, or the one it has.
LEMMA PutEntry ==
    ASSUME TypeOK, NEW r \in Request, CatalogPut(r), Names(history, ref)
    PROVE  /\ Longer(history, history')
           /\ Names(history', ref')
           /\ ref' = ref \/ ref'.put = r
<1>1. r.key \in Key /\ history \in Seq(Key)
    BY DEF TypeOK, Request
<1>2. CASE Admits(r)
    <2>1. ref' = [version |-> Len(history) + 1, put |-> r] /\ history' = Append(history, r.key)
        BY <1>2 DEF CatalogPut
    <2> QED
        BY <1>1, <2>1, Grows DEF Longer, Names
<1>3. CASE ~Admits(r)
    BY <1>3 DEF CatalogPut, Longer
<1> QED
    BY <1>2, <1>3

\* What a step does to the history, the catalog's entry and the answers.
LEMMA EntryStep ==
    ASSUME TypeOK, EntriesName, [Next]_vars
    PROVE  /\ Longer(history, history')
           /\ Names(history', ref')
           /\ \A c \in Copies : got'[c] \in {got[c], Absent, ref, ref'}
<1> USE DEF TypeOK, EntriesName
<1>1. CASE RefDelete
    BY <1>1, Records DEF RefDelete, Longer, Names, Absent, command
<1>2. ASSUME NEW r \in late, LateServed(r)
      PROVE  Longer(history, history') /\ Names(history', ref') /\ got' = got
    BY <1>2, PutEntry DEF LateServed, command
<1>3. ASSUME NEW c \in Copies, PutServed(c)
      PROVE  /\ Longer(history, history') /\ Names(history', ref')
             /\ \A d \in Copies : got'[d] \in {got[d], ref'}
    BY <1>3, PutEntry DEF PutServed
<1>4. ASSUME NEW c \in Copies,
             \/ Edit(c) \/ FetchGone(c) \/ FetchSame(c) \/ PullTree(c) \/ FetchMoved(c)
             \/ PullApplied(c) \/ PutLate(c) \/ PushRefChanged(c)
      PROVE  UNCHANGED <<ref, history, got>>
    BY <1>4 DEF Edit, FetchGone, FetchSame, PullTree, FetchMoved, PullApplied, PutLate, PushRefChanged,
                cluster, command
<1>5. ASSUME NEW c \in Copies,
             \/ RefGet(c) \/ FetchDone(c) \/ PullTorn(c) \/ PullSaved(c) \/ PutAnswerLost(c)
             \/ PushDone(c) \/ Crash(c) \/ \E f, m \in BOOLEAN : PushBuilds(c, f, m)
      PROVE  UNCHANGED <<ref, history>> /\ \A d \in Copies : got'[d] \in {got[d], Absent, ref}
    BY <1>5 DEF RefGet, FetchDone, PullTorn, PullSaved, PutAnswerLost, PushDone, Crash, PushBuilds,
       Ends, cluster
<1>6. CASE UNCHANGED vars
    BY <1>6 DEF vars, cluster, command, Longer
<1> QED
    BY <1>1, <1>2, <1>3, <1>4, <1>5, <1>6 DEF Next, Longer

\* Every step keeps the entries true.
LEMMA NamesStep == TypeOK /\ EntriesName /\ [Next]_vars => EntriesName'
<1> SUFFICES ASSUME TypeOK, EntriesName, [Next]_vars PROVE EntriesName'
    OBVIOUS
<1>1. Longer(history, history') /\ Names(history', ref')
      /\ \A c \in Copies : got'[c] \in {got[c], Absent, ref, ref'}
    BY EntryStep
<1>2. \A e \in Entry : Names(history, e) => Names(history', e)
    BY <1>1, StillThere DEF TypeOK
<1>3. Names(history', Absent)
    BY DEF Names, Absent
<1> QED
    BY <1>1, <1>2, <1>3 DEF EntriesName, TypeOK

\* Every step keeps a copy's version and remote together.
LEMMA RemoteStep ==
    ASSUME TypeOK, EntriesName, NoVersion, VersionNamesRemote, CommandHolds, [Next]_vars
    PROVE  NoVersion' /\ VersionNamesRemote'
<1>1. Longer(history, history')
    BY EntryStep
<1>2. \A v \in 1..Len(history) : v \in 1..Len(history') /\ history'[v] = history[v]
    BY <1>1, StillThere DEF TypeOK
<1> DEFINE Fine(s) == /\ ~s.hasRemote => s.version = 0
                      /\ s.hasRemote => s.version \in 1..Len(history) /\ history[s.version] = s.remote
<1> SUFFICES \A c \in Copies : Fine(state'[c])
    BY <1>2 DEF NoVersion, VersionNamesRemote
<1>3. \A c \in Copies : Fine(state[c])
    BY DEF NoVersion, VersionNamesRemote
<1> HIDE DEF Fine
<1>4. ASSUME NEW c \in Copies, FetchGone(c) PROVE \A d \in Copies : Fine(state'[d])
    BY <1>3, <1>4 DEF FetchGone, TypeOK, Fine
<1>5. ASSUME NEW c \in Copies, FetchSame(c) PROVE \A d \in Copies : Fine(state'[d])
    BY <1>3, <1>5 DEF FetchSame, Known, TypeOK, State, Fine, EntriesName, Names
<1>6. ASSUME NEW c \in Copies, FetchMoved(c) PROVE \A d \in Copies : Fine(state'[d])
    BY <1>3, <1>6 DEF FetchMoved, TypeOK, Fine, EntriesName, Names, CommandHolds
<1>7. ASSUME NEW c \in Copies, PullSaved(c) PROVE \A d \in Copies : Fine(state'[d])
    BY <1>3, <1>7 DEF PullSaved, TypeOK, State, Fine
<1>8. ASSUME NEW c \in Copies, PushDone(c) PROVE \A d \in Copies : Fine(state'[d])
    BY <1>3, <1>8 DEF PushDone, Succeeded, TypeOK, Fine, EntriesName, Names
<1>9. ASSUME state' = state PROVE \A d \in Copies : Fine(state'[d])
    BY <1>3, <1>9
<1> QED
    BY <1>4, <1>5, <1>6, <1>7, <1>8, <1>9 
    DEF Next, RefDelete, LateServed, Edit, RefGet, PullTree, FetchDone, PullApplied, PullTorn, PushBuilds,
        PutServed, PutAnswerLost, PutLate, PushRefChanged, Crash, vars, copy

\* Every step keeps a directory's base, or what it is about to become, in the
\* directory or in what was dropped from it.
LEMMA KeptStep == TypeOK /\ Kept /\ [Next]_vars => Kept'
<1> SUFFICES ASSUME TypeOK, Kept, [Next]_vars PROVE Kept'
    OBVIOUS
<1> USE DEF Kept, Pushing, TypeOK
<1>1. ASSUME NEW c \in Copies, Edit(c) PROVE Kept'
    <2>1. PICK i \in Items : AddItem(c, i) \/ RemoveItem(c, i)
        BY <1>1 DEF Edit
    <2>2. \A d \in Copies : wd[d] \cup dropped[d] \subseteq wd'[d] \cup dropped'[d]
        BY <2>1 DEF AddItem, RemoveItem
    <2>3. UNCHANGED <<state, pc, req>>
        BY <1>1 DEF Edit, command
    <2> QED
        BY <2>2, <2>3
<1>2. ASSUME NEW c \in Copies, FetchGone(c) PROVE Kept'
    BY <1>2 DEF FetchGone, Goes
<1>3. ASSUME NEW c \in Copies, FetchSame(c) PROVE Kept'
    BY <1>3 DEF FetchSame, Goes, State
<1>4. ASSUME NEW c \in Copies, FetchMoved(c) PROVE Kept'
    BY <1>4 DEF FetchMoved, Goes
<1>5. ASSUME NEW c \in Copies, PullApplied(c) PROVE Kept'
    <2>1. wd'[c] = (wd[c] \ Outgoing(c)) \cup Incoming(c) /\ dropped'[c] = dropped[c] \ wd'[c]
        BY <1>5 DEF PullApplied, Merge
    <2>2. state[c].base \subseteq wd[c] \cup dropped[c]
        BY <1>5 DEF PullApplied
    <2>3. state[c].remote.tree \subseteq wd'[c] \cup dropped'[c]
        BY <2>1, <2>2 DEF Incoming, Outgoing
    <2> QED
        BY <1>5, <2>3 DEF PullApplied, Goes
<1>6. ASSUME NEW c \in Copies, PullTorn(c) PROVE Kept'
    <2>1. PICK gone \in SUBSET Outgoing(c), come \in SUBSET Incoming(c) :
            wd'[c] = (wd[c] \ gone) \cup come /\ dropped'[c] = (dropped[c] \cup gone) \ wd'[c]
        BY <1>6 DEF PullTorn, Merge
    <2>2. state[c].base \subseteq wd[c] \cup dropped[c]
        BY <1>6 DEF PullTorn
    <2>3. state[c].base \subseteq wd'[c] \cup dropped'[c]
        BY <2>1, <2>2
    <2> QED
        BY <1>6, <2>3 DEF PullTorn, Ends, Goes
<1>7. ASSUME NEW c \in Copies, PullSaved(c) PROVE Kept'
    BY <1>7 DEF PullSaved, Ends, Goes, State
<1>8. ASSUME NEW c \in Copies, NEW f \in BOOLEAN, NEW m \in BOOLEAN, PushBuilds(c, f, m) PROVE Kept'
    <2>1. req'[c].key.tree = wd[c]
        BY <1>8, Targets DEF PushBuilds
    <2> QED
        BY <1>8, <2>1 DEF PushBuilds, Goes, Resting
<1>9. ASSUME NEW c \in Copies, PutServed(c) \/ PutAnswerLost(c) \/ PutLate(c) PROVE Kept'
    BY <1>9 DEF PutServed, PutAnswerLost, PutLate, Goes, copy, command
<1>10. ASSUME NEW c \in Copies, PushDone(c) PROVE Kept'
    BY <1>10 DEF PushDone, Ends, Goes
<1>11. ASSUME NEW c \in Copies, Crash(c) PROVE Kept'
    <2>1. state[c].base \subseteq wd[c] \cup dropped'[c]
        BY <1>11 DEF Crash
    <2> QED
        BY <1>11, <2>1 DEF Crash, Ends, Goes
<1>12. ASSUME NEW c \in Copies, RefGet(c) \/ FetchDone(c) \/ PushRefChanged(c) PROVE Kept'
    BY <1>12 DEF RefGet, FetchDone, PushRefChanged, Resting, Ends, Goes, copy
<1>13. ASSUME NEW c \in Copies, PullTree(c) PROVE Kept'
    BY <1>13 DEF PullTree, Goes
<1>14. CASE RefDelete \/ (\E r \in late : LateServed(r)) \/ UNCHANGED vars
    BY <1>14 DEF RefDelete, LateServed, vars, copy, command
<1> QED
    BY <1>1, <1>2, <1>3, <1>4, <1>5, <1>6, <1>7, <1>8, <1>9, <1>10, <1>11, <1>12, <1>13, <1>14 DEF Next

\* Every put is built on what its expected version names.
LEMMA SoundStep ==
    ASSUME TypeOK, EntriesName, NoVersion, VersionNamesRemote, Kept, PutsSound, [Next]_vars
    PROVE  PutsSound'
<1>1. \A r \in Request : Sound(history, r) => Sound(history', r)
    BY EntryStep, StillThere DEF TypeOK
<1>2. Sound(history', NoRequest)
    BY DEF Sound, NoRequest
<1>3. ASSUME NEW c \in Copies, NEW f \in BOOLEAN, NEW m \in BOOLEAN, PushBuilds(c, f, m) PROVE PutsSound'
    <2>1. /\ req' = [req EXCEPT ![c] = req'[c]]
          /\ req'[c].key = Target(c, m) /\ req'[c].force = f
          /\ req'[c].expected = IF f THEN 0 ELSE state[c].version
          /\ req'[c].drop = dropped[c]
        BY <1>3 DEF PushBuilds, TypeOK
    <2>2. Sound(history, req'[c])
        <3> SUFFICES ASSUME ~f, state[c].version # 0
                     PROVE  /\ state[c].version \in 1..Len(history)
                            /\ history[state[c].version].tree \ wd[c] \subseteq dropped[c]
                            /\ history[state[c].version].commit = Target(c, m).parent
            BY <2>1, Targets DEF Sound
        <3>1. state[c].hasRemote
            BY DEF NoVersion
        <3>2. state[c].version \in 1..Len(history) /\ history[state[c].version] = state[c].remote
            BY <3>1 DEF VersionNamesRemote
        <3>3. state[c].remote.tree = state[c].base /\ pc[c] # "applied"
            BY <1>3, <3>1 DEF PushBuilds, MayPush, Synced, Resting
        <3>4. state[c].remote.commit = Target(c, m).parent
            BY <3>1 DEF Target, IsBranch
        <3> QED
            BY <3>2, <3>3, <3>4 DEF Kept
    <2>3. UNCHANGED <<history, late>>
        BY <1>3 DEF PushBuilds, cluster
    <2> QED
        BY <2>1, <2>2, <2>3 DEF PutsSound, TypeOK
<1>4. ASSUME NEW c \in Copies, req' = req, late' \subseteq late \cup {req[c]} PROVE PutsSound'
    BY <1>1, <1>4 DEF PutsSound, TypeOK
<1>5. ASSUME NEW c \in Copies, req' = [req EXCEPT ![c] = NoRequest], late' \subseteq late \cup {req[c]}
      PROVE  PutsSound'
    BY <1>1, <1>2, <1>5 DEF PutsSound, TypeOK
<1>6. ASSUME req' = req, late' \subseteq late PROVE PutsSound'
    BY <1>1, <1>6 DEF PutsSound, TypeOK
<1>7. ASSUME NEW c \in Copies, PutLate(c) PROVE PutsSound'
    BY <1>7, <1>4 DEF PutLate, command
<1>8. ASSUME NEW c \in Copies,
             RefGet(c) \/ FetchDone(c) \/ PullTorn(c) \/ PullSaved(c) \/ PushDone(c) \/ Crash(c)
      PROVE  PutsSound'
    <2>1. req' = [req EXCEPT ![c] = NoRequest] /\ late' \subseteq late \cup {req[c]}
        BY <1>8 DEF RefGet, FetchDone, PullTorn, PullSaved, PushDone, Crash, Ends, cluster
    <2> QED
        BY <1>5, <2>1
<1>9. CASE \/ RefDelete \/ (\E r \in late : LateServed(r)) \/ UNCHANGED vars
           \/ \E c \in Copies :
                \/ Edit(c) \/ FetchGone(c) \/ FetchSame(c) \/ PullTree(c) \/ FetchMoved(c) \/ PullApplied(c)
                \/ PutServed(c) \/ PutAnswerLost(c) \/ PushRefChanged(c)
    <2>1. req' = req /\ late' \subseteq late
        BY <1>9 DEF RefDelete, LateServed, vars, Edit, FetchGone, FetchSame, PullTree, FetchMoved,
                    PullApplied, PutServed, PutAnswerLost, PushRefChanged, cluster, command
    <2> QED
        BY <1>6, <2>1
<1> QED
    BY <1>3, <1>7, <1>8, <1>9 DEF Next

\* A packstore only grows.
LEMMA StoreGrows ==
    ASSUME TypeOK, [Next]_vars
    PROVE  \A c \in Copies : store[c] \subseteq store'[c]
    BY DEF TypeOK, Next, RefDelete, LateServed, Edit, RefGet, FetchGone, FetchSame, PullTree, FetchMoved,
           FetchDone, PullApplied, PullTorn, PullSaved, PushBuilds, PutServed, PutAnswerLost, PutLate,
           PushDone, PushRefChanged, Crash, vars, copy

\* Every put's key is in the packstore of the copy that asked for it.
LEMMA OwnedStep ==
    ASSUME TypeOK, EntriesName, PutsOwned, [Next]_vars
    PROVE  PutsOwned'
<1> DEFINE Own(r) == r.by \in Copies => r.key \in store'[r.by]
<1>1. \A r \in Request : Owned(r) => Own(r)
    BY StoreGrows DEF Owned
<1>2. Own(NoRequest)
    BY NobodyAssumption DEF NoRequest
<1> SUFFICES Own(ref'.put) /\ (\A r \in late' : Own(r)) /\ \A c \in Copies : Own(req'[c]) /\ Own(got'[c].put)
    BY DEF PutsOwned, Owned
<1>3. /\ Own(ref.put) /\ Own(Absent.put)
      /\ \A r \in late : Own(r)
      /\ \A c \in Copies : Own(req[c]) /\ Own(got[c].put)
    <2>1. ref.put \in Request /\ \A c \in Copies : got[c].put \in Request
        BY DEF TypeOK, Entry
    <2> QED
        BY <1>1, <1>2, <2>1 DEF PutsOwned, TypeOK, Absent
<1> HIDE DEF Own
<1>4. Own(ref'.put) /\ \A r \in late' : Own(r)
    <2>1. ASSUME NEW r \in late \cup {req[c] : c \in Copies}, CatalogPut(r) PROVE Own(ref'.put)
        <3>1. Own(r) /\ r \in Request
            BY <1>3 DEF TypeOK
        <3> QED
            BY <1>3, <2>1, <3>1, PutEntry DEF EntriesName
    <2>2. CASE RefDelete
        BY <1>3, <2>2 DEF RefDelete
    <2>3. ASSUME NEW r \in late, LateServed(r) PROVE Own(ref'.put) /\ late' \subseteq late
        BY <2>1, <2>3 DEF LateServed
    <2>4. ASSUME NEW c \in Copies, PutServed(c) PROVE Own(ref'.put) /\ late' = late
        BY <2>1, <2>4 DEF PutServed
    <2>5. ASSUME NEW c \in Copies, PutLate(c) \/ Crash(c) PROVE ref' = ref /\ late' \subseteq late \cup {req[c]}
        BY <2>5 DEF PutLate, Crash
    <2>6. CASE UNCHANGED vars \/ \E c \in Copies :
                \/ Edit(c) \/ RefGet(c) \/ FetchGone(c) \/ FetchSame(c) \/ PullTree(c) \/ FetchMoved(c)
                \/ FetchDone(c) \/ PullApplied(c) \/ PullTorn(c) \/ PullSaved(c) \/ PutAnswerLost(c)
                \/ PushDone(c) \/ PushRefChanged(c) \/ \E f, m \in BOOLEAN : PushBuilds(c, f, m)
        <3>1. ref' = ref /\ late' = late
            BY <2>6 DEF Edit, RefGet, FetchGone, FetchSame, PullTree, FetchMoved, FetchDone, PullApplied,
                        PullTorn, PullSaved, PutAnswerLost, PushDone, PushRefChanged, PushBuilds, vars, cluster
        <3> QED
            BY <1>3, <3>1
    <2> QED
        BY <1>3, <2>2, <2>3, <2>4, <2>5, <2>6 DEF Next, RefDelete
<1>5. \A c \in Copies : Own(got'[c].put)
    BY <1>3, <1>4, EntryStep
<1>6. \A c \in Copies : Own(req'[c])
    <2>1. ASSUME NEW c \in Copies, NEW f \in BOOLEAN, NEW m \in BOOLEAN, PushBuilds(c, f, m)
          PROVE  \A d \in Copies : Own(req'[d])
        <3>1. req' = [req EXCEPT ![c] = req'[c]] /\ req'[c].by = c /\ req'[c].key \in store'[c]
            BY <2>1 DEF PushBuilds, TypeOK
        <3>2. Own(req'[c])
            BY <3>1 DEF Own
        <3> QED
            BY <1>3, <3>1, <3>2 DEF TypeOK
    <2>2. CASE RefDelete \/ (\E r \in late : LateServed(r)) \/ UNCHANGED vars
        BY <1>3, <2>2 DEF RefDelete, LateServed, vars, command
    <2>3. ASSUME NEW c \in Copies,
                 \/ RefGet(c) \/ FetchDone(c) \/ PullTorn(c) \/ PullSaved(c) \/ PushDone(c) \/ Crash(c)
          PROVE  req' = [req EXCEPT ![c] = NoRequest]
        BY <2>3 DEF RefGet, FetchDone, PullTorn, PullSaved, PushDone, Crash, Ends
    <2>4. ASSUME NEW c \in Copies,
                 \/ Edit(c) \/ FetchGone(c) \/ FetchSame(c) \/ PullTree(c) \/ FetchMoved(c) \/ PullApplied(c)
                 \/ PutServed(c) \/ PutAnswerLost(c) \/ PutLate(c) \/ PushRefChanged(c)
          PROVE  req' = req
        BY <2>4 DEF Edit, FetchGone, FetchSame, PullTree, FetchMoved, PullApplied, PutServed,
           PutAnswerLost,
                    PutLate, PushRefChanged, command
    <2>5. ASSUME NEW c \in Copies, req' = [req EXCEPT ![c] = NoRequest]
          PROVE  \A d \in Copies : Own(req'[d])
        BY <1>2, <1>3, <2>5 DEF TypeOK, Own
    <2> QED
        BY <1>3, <2>1, <2>2, <2>3, <2>4, <2>5 DEF Next
<1> QED
    BY <1>4, <1>5, <1>6

\* What a command is about to record is in the packstore.
LEMMA HoldsStep ==
    ASSUME TypeOK, CommandHolds, [Next]_vars
    PROVE  CommandHolds'
<1> USE DEF TypeOK, Pushing
<1> DEFINE Fine(p, g, r, s, c) ==
                /\ p = "fetched" => g.version # 0 /\ Holds(s, g.put.key)
                /\ p \in {"put", "answered"} => r.by = c /\ Holds(s, r.key)
<1> SUFFICES \A d \in Copies : Fine(pc'[d], got'[d], req'[d], store'[d], d)
    BY DEF CommandHolds
<1>1. \A d \in Copies : Fine(pc[d], got[d], req[d], store'[d], d)
    BY StoreGrows DEF CommandHolds, Holds
<1>2. \A d \in Copies, p \in {"idle", "refchanged", "got", "saved", "applied"} :
        Fine(p, got'[d], req'[d], store'[d], d)
    OBVIOUS
<1> HIDE DEF Fine
<1>3. ASSUME UNCHANGED <<pc, got, req>> PROVE \A d \in Copies : Fine(pc'[d], got'[d], req'[d],
                         store'[d], d)
    BY <1>1, <1>3
<1>4. ASSUME NEW c \in Copies, NEW p \in {"idle", "refchanged", "got", "saved", "applied"},
             pc' = [pc EXCEPT ![c] = p],
             \A d \in Copies \ {c} : got'[d] = got[d] /\ req'[d] = req[d]
      PROVE  \A d \in Copies : Fine(pc'[d], got'[d], req'[d], store'[d], d)
    BY <1>1, <1>2, <1>4
<1>5. ASSUME NEW c \in Copies,
             \/ RefGet(c) \/ FetchGone(c) \/ FetchSame(c) \/ FetchMoved(c) \/ FetchDone(c) \/ PullApplied(c)
             \/ PullTorn(c) \/ PullSaved(c) \/ PushDone(c) \/ PushRefChanged(c) \/ Crash(c)
      PROVE  /\ \E p \in {"idle", "refchanged", "got", "saved", "applied"} : pc' = [pc EXCEPT ![c] = p]
             /\ \A d \in Copies \ {c} : got'[d] = got[d] /\ req'[d] = req[d]
    BY <1>5 DEF RefGet, FetchGone, FetchSame, FetchMoved, FetchDone, PullApplied, PullTorn, PullSaved,
                PushDone, PushRefChanged, Crash, Ends, Goes
<1>6. ASSUME NEW c \in Copies, PullTree(c)
      PROVE  \A d \in Copies : Fine(pc'[d], got'[d], req'[d], store'[d], d)
    <2>1. Fine("fetched", got[c], req[c], store'[c], c)
        BY <1>6 DEF PullTree, Fine, Holds
    <2> QED
        BY <1>1, <1>6, <2>1 DEF PullTree, Goes
<1>7. ASSUME NEW c \in Copies, NEW f \in BOOLEAN, NEW m \in BOOLEAN, PushBuilds(c, f, m)
      PROVE  \A d \in Copies : Fine(pc'[d], got'[d], req'[d], store'[d], d)
    <2>1. req'[c].by = c /\ req'[c].key.tree = wd[c]
          /\ req'[c].key \in store'[c] /\ TreeKey(wd[c]) \in store'[c]
        BY <1>7, Targets DEF PushBuilds
    <2>2. Fine("put", got'[c], req'[c], store'[c], c)
        BY <2>1 DEF Fine, Holds
    <2> QED
        BY <1>1, <1>7, <2>2 DEF PushBuilds, Goes
<1>8. ASSUME NEW c \in Copies, PutServed(c) \/ PutAnswerLost(c)
      PROVE  \A d \in Copies : Fine(pc'[d], got'[d], req'[d], store'[d], d)
    <2>1. \A p \in {"put", "answered"} : Fine(p, got'[c], req[c], store'[c], c)
        BY <1>1, <1>8 DEF PutServed, PutAnswerLost, Fine
    <2> QED
        BY <1>1, <1>8, <2>1 DEF PutServed, PutAnswerLost, Goes
<1>9. CASE \/ RefDelete \/ (\E r \in late : LateServed(r)) \/ UNCHANGED vars
           \/ \E c \in Copies : Edit(c) \/ PutLate(c)
    BY <1>3, <1>9 DEF RefDelete, LateServed, Edit, PutLate, vars, command
<1> QED
    BY <1>4, <1>5, <1>6, <1>7, <1>8, <1>9 DEF Next

\* A copy's state does not change between the apply and the save.
LEMMA AppliedStep ==
    ASSUME TypeOK, AppliedRemote, [Next]_vars
    PROVE  AppliedRemote'
<1> USE DEF TypeOK, AppliedRemote
<1>1. ASSUME NEW c \in Copies, PullApplied(c) PROVE AppliedRemote'
    BY <1>1 DEF PullApplied, HasChanges, Goes
<1>2. ASSUME NEW c \in Copies,
             \/ RefGet(c) \/ FetchGone(c) \/ FetchSame(c) \/ PullTree(c) \/ FetchMoved(c) \/ FetchDone(c)
             \/ PullTorn(c) \/ PullSaved(c) \/ PutServed(c) \/ PutAnswerLost(c)
             \/ PushDone(c) \/ PushRefChanged(c) \/ Crash(c) \/ \E f, m \in BOOLEAN : PushBuilds(c, f, m)
      PROVE  pc'[c] # "applied" /\ \A d \in Copies \ {c} : pc'[d] = pc[d] /\ state'[d] = state[d]
    BY <1>2 DEF RefGet, FetchGone, FetchSame, PullTree, FetchMoved, FetchDone, PullTorn, PullSaved,
                PutServed, PutAnswerLost, PushDone, PushRefChanged, Crash, PushBuilds, Ends, Goes, copy
<1>3. CASE \/ RefDelete \/ (\E r \in late : LateServed(r)) \/ UNCHANGED vars
           \/ \E c \in Copies : Edit(c) \/ PutLate(c)
    BY <1>3 DEF RefDelete, LateServed, Edit, PutLate, vars, command, copy
<1> QED
    BY <1>1, <1>2, <1>3 DEF Next

\* What the state file names is in the packstore.
LEMMA StateStep ==
    ASSUME TypeOK, AppliedRemote, CommandHolds, StoreHoldsState, [Next]_vars
    PROVE  StoreHoldsState'
<1> USE DEF TypeOK
<1> DEFINE Fine(s, t) == /\ TreeKey(t.base) \in s
                         /\ t.hasRemote => t.remote \in s /\ TreeKey(t.remote.tree) \in s
<1> SUFFICES \A d \in Copies : Fine(store'[d], state'[d])
    BY DEF StoreHoldsState
<1>1. \A d \in Copies : Fine(store'[d], state[d])
    BY StoreGrows DEF StoreHoldsState
<1> HIDE DEF Fine
<1>2. ASSUME NEW c \in Copies, FetchGone(c) PROVE \A d \in Copies : Fine(store'[d], state'[d])
    BY <1>1, <1>2 DEF FetchGone, Fine
<1>3. ASSUME NEW c \in Copies, FetchSame(c) PROVE \A d \in Copies : Fine(store'[d], state'[d])
    BY <1>1, <1>3 DEF FetchSame, Fine, State
<1>4. ASSUME NEW c \in Copies, FetchMoved(c) PROVE \A d \in Copies : Fine(store'[d], state'[d])
    BY <1>1, <1>4 DEF FetchMoved, Fine, CommandHolds, Holds
<1>5. ASSUME NEW c \in Copies, PullSaved(c) PROVE \A d \in Copies : Fine(store'[d], state'[d])
    <2>1. state[c].hasRemote
        BY <1>5 DEF PullSaved, AppliedRemote
    <2>2. TreeKey(state[c].remote.tree) \in store'[c]
        BY <1>1, <2>1 DEF Fine
    <2> QED
        BY <1>1, <1>5, <2>2 DEF PullSaved, Fine, State
<1>6. ASSUME NEW c \in Copies, PushDone(c) PROVE \A d \in Copies : Fine(store'[d], state'[d])
    <2>1. Holds(store[c], req[c].key)
        BY <1>6 DEF PushDone, CommandHolds, Pushing
    <2>2. got[c].put.key \in store[c] /\ got[c].put.key.tree = req[c].key.tree
        BY <1>6, <2>1 DEF PushDone, Succeeded, SamePush, Holds
    <2>3. store' = store
        BY <1>6 DEF PushDone
    <2> QED
        BY <1>1, <1>6, <2>1, <2>2, <2>3 DEF PushDone, Fine, Holds
<1>7. CASE state' = state
    BY <1>1, <1>7
<1> QED
    BY <1>2, <1>3, <1>4, <1>5, <1>6, <1>7
    DEF Next, RefDelete, LateServed, Edit, RefGet, PullTree, FetchDone, PullApplied, PullTorn, PushBuilds,
        PutServed, PutAnswerLost, PutLate, PushRefChanged, Crash, vars, copy

\* A push that is refused was not in place already.
LEMMA OwnStep ==
    ASSUME TypeOK, PutsOwned, CommandHolds, OwnPushRecognised, [Next]_vars
    PROVE  OwnPushRecognised'
<1> USE DEF TypeOK
<1> DEFINE Own(g, r, c) == /\ g.version # 0 /\ g.put.by = c
                           /\ g.put.key.tree = r.key.tree /\ g.put.key.parent = r.key.parent
                           /\ (g.put.key.commit = 0) = (r.key.commit = 0)
<1> SUFFICES \A d \in Copies : pc'[d] = "refchanged" => ~Own(got'[d], req'[d], d)
    BY DEF OwnPushRecognised
<1>1. \A d \in Copies : pc[d] = "refchanged" => ~Own(got[d], req[d], d)
    BY DEF OwnPushRecognised
<1>2. ASSUME NEW c \in Copies, PushRefChanged(c) PROVE ~Own(got[c], req[c], c)
    <2> SUFFICES ASSUME Own(got[c], req[c], c) PROVE FALSE
        OBVIOUS
    <2>1. got[c].put.key \in Key /\ req[c].key \in Key
        BY DEF Entry, Request
    <2>2. got[c].put.key \in store[c]
        BY DEF PutsOwned, Owned
    <2>3. CASE req[c].key.commit = 0
        <3>0. got[c].put.key.commit = 0
            BY <2>3
        <3>1. got[c].put.key = req[c].key
            BY <2>1, <2>3, <3>0, SameKey
        <3> QED
            BY <1>2, <3>1 DEF PushRefChanged, Succeeded, SamePush
    <2>4. CASE req[c].key.commit # 0
        BY <1>2, <2>2, <2>4 DEF PushRefChanged, Succeeded, SamePush
    <2> QED
        BY <2>3, <2>4
<1> HIDE DEF Own
<1>3. ASSUME NEW c \in Copies,
             \/ RefGet(c) \/ FetchGone(c) \/ FetchSame(c) \/ PullTree(c) \/ FetchMoved(c) \/ FetchDone(c)
             \/ PullApplied(c) \/ PullTorn(c) \/ PullSaved(c) \/ PutServed(c) \/ PutAnswerLost(c)
             \/ PushDone(c) \/ Crash(c) \/ \E f, m \in BOOLEAN : PushBuilds(c, f, m)
      PROVE  /\ pc'[c] # "refchanged"
             /\ \A d \in Copies \ {c} : pc'[d] = pc[d] /\ got'[d] = got[d] /\ req'[d] = req[d]
    BY <1>3 DEF RefGet, FetchGone, FetchSame, PullTree, FetchMoved, FetchDone, PullApplied, PullTorn,
                PullSaved, PutServed, PutAnswerLost, PushDone, Crash, PushBuilds, Ends, Goes
<1>4. ASSUME NEW c \in Copies, PushRefChanged(c)
      PROVE  got' = got /\ req' = req /\ \A d \in Copies \ {c} : pc'[d] = pc[d]
    BY <1>4 DEF PushRefChanged, Goes
<1>5. CASE \/ RefDelete \/ (\E r \in late : LateServed(r)) \/ UNCHANGED vars
           \/ \E c \in Copies : Edit(c) \/ PutLate(c)
    BY <1>1, <1>5 DEF RefDelete, LateServed, Edit, PutLate, vars, command
<1> QED
    BY <1>1, <1>2, <1>3, <1>4, <1>5 DEF Next

-----------------------------------------------------------------------------
\* Every step keeps the invariant.
LEMMA NextInv == IInv /\ [Next]_vars => IInv'
    BY TypeStep, NamesStep, RemoteStep, KeptStep, SoundStep, OwnedStep, AppliedStep, HoldsStep,
       StateStep, OwnStep
    DEF IInv

\* The inductive invariant holds in every reachable state.
LEMMA Invariant == Spec => []IInv
    BY InitInv, NextInv, PTL DEF Spec

\* A put without --force that replaces an entry was built on that entry.
LEMMA Replaces ==
    ASSUME IInv, [Next]_vars, ref.version # 0, ref'.version \notin {0, ref.version}, ~ref'.put.force
    PROVE  /\ ref.put.key.tree \ ref'.put.key.tree \subseteq ref'.put.drop
           /\ ref'.put.key.parent = ref.put.key.commit
<1>1. ASSUME NEW r \in Request, Sound(history, r), CatalogPut(r)
      PROVE  /\ ref.put.key.tree \ ref'.put.key.tree \subseteq ref'.put.drop
             /\ ref'.put.key.parent = ref.put.key.commit
    <2>1. Admits(r) /\ ref'.put = r
        BY <1>1 DEF CatalogPut
    <2>2. ~r.force /\ r.expected = ref.version
        BY <2>1 DEF Admits
    <2>3. history[ref.version] = ref.put.key
        BY DEF IInv, EntriesName, Names
    <2> QED
        BY <1>1, <2>1, <2>2, <2>3 DEF Sound
<1>2. ASSUME NEW r \in late, LateServed(r) PROVE r \in Request /\ Sound(history, r) /\ CatalogPut(r)
    BY <1>2 DEF LateServed, IInv, TypeOK, PutsSound
<1>3. ASSUME NEW c \in Copies, PutServed(c)
      PROVE  req[c] \in Request /\ Sound(history, req[c]) /\ CatalogPut(req[c])
    BY <1>3 DEF PutServed, IInv, TypeOK, PutsSound
<1>4. ~RefDelete
    BY DEF RefDelete, Absent
<1>5. ref' # ref
    OBVIOUS
<1> QED
    BY <1>1, <1>2, <1>3, <1>4, <1>5
    DEF Next, Edit, RefGet, FetchGone, FetchSame, PullTree, FetchMoved, FetchDone, PullApplied, PullTorn,
        PullSaved, PushBuilds, PutAnswerLost, PutLate, PushDone, PushRefChanged, Crash, vars, cluster

\* Every variable keeps its type, for every value of the constants.
THEOREM TypeCorrect == Spec => []TypeOK
<1>1. IInv => TypeOK
    BY DEF IInv
<1> QED
    BY <1>1, Invariant, PTL

\* flow.rs `fetch_state` and `push`: the version a copy expects in its next put
\* named the tree or commit the copy has as remote.
THEOREM StateIsTrue == Spec => []VersionNamesRemote
<1>1. IInv => VersionNamesRemote
    BY DEF IInv
<1> QED
    BY <1>1, Invariant, PTL

\* flow.rs `push`: without --force nobody's work is lost, whatever the copies
\* do at the same time and whatever is crashed, retried or delivered late.
THEOREM PushesLoseNothing == Spec => NoUpdateLost
<1>1. IInv /\ [Next]_vars =>
        [ref.version # 0 /\ ref'.version \notin {0, ref.version} /\ ~ref'.put.force
         => ref.put.key.tree \ ref'.put.key.tree \subseteq ref'.put.drop]_vars
    BY Replaces
<1> QED
    BY <1>1, Invariant, PTL DEF Spec, NoUpdateLost

\* flow.rs `push` on a branch: the parent of the commit is the one it replaces.
THEOREM BranchesKeepHistory == Spec => HistoryKept
<1>1. IInv /\ [Next]_vars =>
        [ref.version # 0 /\ ref'.version \notin {0, ref.version} /\ ~ref'.put.force
         => ref'.put.key.parent = ref.put.key.commit]_vars
    BY Replaces
<1> QED
    BY <1>1, Invariant, PTL DEF Spec, HistoryKept

\* flow.rs `fetch_state`: what the state file names can be read from the
\* packstore, so a fetch of a known key need not pull it again.
THEOREM StateIsStored == Spec => []StoreHoldsState
<1>1. IInv => StoreHoldsState
    BY DEF IInv
<1> QED
    BY <1>1, Invariant, PTL

\* flow.rs `same_push`: a push interrupted after its put is recovered by the
\* next one, not reported as somebody else's change.
THEOREM PushRecovers == Spec => []OwnPushRecognised
<1>1. IInv => OwnPushRecognised
    BY DEF IInv
<1> QED
    BY <1>1, Invariant, PTL
=============================================================================
