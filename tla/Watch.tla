------------------------------- MODULE Watch -------------------------------
(***************************************************************************)
(* Watching references: the generator of crates/client/src/watch.rs, which *)
(* keeps one watch stream open, reconnects when it dies and tells the next *)
(* node what it already knows, against the node's side of a watch stream   *)
(* as crates/testkit/src/fake.rs has it (reconcile, hints, heartbeat).     *)
(*                                                                         *)
(* A reference is a name with a key; versions are numbered in commit       *)
(* order.  Hints about a commit travel to the nodes on their own: late,    *)
(* out of order or never.  Frames of one stream arrive in order until the  *)
(* stream breaks; what is still on its way is then lost.  The lengths of   *)
(* the pauses between rounds are left out.                                 *)
(***************************************************************************)
EXTENDS Naturals, Sequences, FiniteSets, SequencesExt

CONSTANTS
    Nodes,          \* the nodes of the view
    Names,          \* reference names that match the pattern
    Keys,           \* keys a reference may name
    NoKey,          \* no such reference
    WatchAttempts,  \* WATCH_ATTEMPTS
    HintBatch,      \* bound: hints a stream drains before it flushes
    MaxFrames,      \* bound: frames in flight when the node sends more
    MaxCommits,     \* bound: commits of the catalog
    MaxFaults       \* bound: failed opens, refusals and broken streams

ASSUME WatchAssumption ==
    /\ Nodes # {} /\ IsFiniteSet(Nodes) /\ IsFiniteSet(Names)
    /\ NoKey \notin Keys
    /\ {WatchAttempts, HintBatch, MaxFrames, MaxCommits} \subseteq Nat \ {0}
    /\ MaxFaults \in Nat

MaybeKey == Keys \cup {NoKey}
Row == [key : MaybeKey, ver : Nat]
NoRow == [key |-> NoKey, ver |-> 0]
Held == [Names -> MaybeKey]

VARIABLES
    catalog,    \* the committed row of each name; NoKey once deleted
    commits,    \* commits so far; those before the watch count as one
    inFlight,   \* hints on their way to a node's watchers
    stream,     \* the node's side of the stream: "none", "start", "live", "refused"
    known,      \* what the stream believes its client holds (refState)
    listed,     \* names the pages of this reconcile have covered; {} between two
    seen,       \* those of them the catalog held
    queued,     \* references queued by this reconcile and not yet flushed
    frames,     \* frames sent and not yet read
    state,      \* the names the watcher holds and their keys
    held,       \* what the consumer has been told
    pending,    \* events of the current frame not yet yielded
    synced,     \* WatchSession.synced
    pc, todo,   \* the generator: where it is, the nodes of this round left
    attempts,   \* watchOnce calls at the current node
    current,    \* history: what each name held since the stream was opened
    crossed,    \* history: names one frame of this stream wrote and deleted
    cancelled,  \* the ctx has ended
    faults

scanVars == <<listed, seen, queued>>
nodeVars == <<catalog, commits, inFlight, stream, known, scanVars>>
historyVars == <<current, crossed>>
clientVars == <<state, held, pending, synced, pc, todo, attempts>>
vars == <<nodeVars, frames, clientVars, historyVars, cancelled, faults>>

Contents == [n \in Names |-> catalog[n].key]

\* The order preferred() puts the nodes in: any.
Rankings == SetToSeqs(Nodes)

NoFrames == <<>>
Synced == [typ |-> "synced"]
Err(code) == [typ |-> "err", code |-> code]
Changes(refs, deleted) == [typ |-> "changes", refs |-> refs, deleted |-> deleted]

Init ==
    /\ catalog \in [Names -> {[key |-> k, ver |-> 1] : k \in Keys} \cup {NoRow}]
    /\ commits = 1
    /\ inFlight = {}
    /\ stream = "none"
    /\ known = [n \in Names |-> NoRow]
    /\ listed = {} /\ seen = {} /\ queued = <<>>
    /\ frames = NoFrames
    /\ state \in Held
    /\ held = state
    /\ pending = <<>>
    /\ synced = FALSE
    /\ pc = "round"
    /\ todo = <<>>
    /\ attempts = 0
    /\ current = [n \in Names |-> {}] /\ crossed = {}
    /\ cancelled = FALSE
    /\ faults = 0

----------------------------------------------------------------------------
(* The cluster.                                                            *)

\* A commit of the catalog; ref_changed sends every node the hint.  A hint
\* that never arrives is a lost one.
Commit(n, k) ==
    /\ commits < MaxCommits
    /\ catalog[n].key # NoKey \/ k # NoKey
    /\ commits' = commits + 1
    /\ catalog' = [catalog EXCEPT ![n] = [key |-> k, ver |-> commits']]
    /\ inFlight' = inFlight \cup
            {[node |-> d, name |-> n, key |-> k, ver |-> commits'] : d \in Nodes}
    /\ current' = IF stream = "none" THEN current ELSE [current EXCEPT ![n] = @ \cup {k}]
    /\ UNCHANGED <<stream, known, scanVars, frames, clientVars, crossed, cancelled, faults>>

\* reconcile takes the lock for one page of the catalog at a time: the names
\* of a page come from one state of it, those of another page from a later
\* one.  Which names share a page is left open, and so is when a batch grows
\* past MAX_PAGE_BYTES and is flushed before its time.
Stale(n) == catalog[n].ver < known[n].ver /\ catalog[n].key # NoKey

\* A batch is flushed as one frame, an empty one not at all.
Flush(refs, deleted) == IF refs = <<>> /\ deleted = <<>> THEN <<>> ELSE <<Changes(refs, deleted)>>

\* Mutant: every page begins a new set of names seen.
SeenOnPage(present) == present

Seen(present) == seen \cup present

ReconcilePage(page) ==
    LET present == {n \in page : catalog[n].key # NoKey}
        taken == {n \in present : ~Stale(n)}
        changed == {n \in taken : catalog[n].key # known[n].key}
        refs == queued \o SetToSeq({[name |-> n, key |-> catalog[n].key] : n \in changed})
    IN /\ stream \in {"start", "live"}
       /\ listed' = listed \cup page
       /\ seen' = Seen(present)
       /\ known' = [n \in Names |-> IF n \in taken THEN catalog[n] ELSE known[n]]
       /\ \/ queued' = refs /\ UNCHANGED frames
          \/ /\ refs # <<>> /\ Len(frames) < MaxFrames
             /\ queued' = <<>> /\ frames' = Append(frames, Changes(refs, <<>>))
       /\ UNCHANGED <<catalog, commits, inFlight, stream, clientVars, historyVars, cancelled, faults>>

\* After the last page: the names no page held are gone; then the flush, and
\* the heartbeat.
ReconcileEnds ==
    LET gone == {n \in Names \ seen : known[n].key # NoKey}
    IN /\ stream \in {"start", "live"}
       /\ listed = Names
       /\ Len(frames) < MaxFrames
       /\ known' = [n \in Names |-> IF n \in seen THEN known[n] ELSE NoRow]
       /\ frames' = frames \o Flush(queued, SetToSeq(gone)) \o <<Synced>>
       /\ stream' = "live"
       /\ listed' = {} /\ seen' = {} /\ queued' = <<>>
       /\ UNCHANGED <<catalog, commits, inFlight, clientVars, historyVars, cancelled, faults>>

Reconcile == ReconcileEnds \/ \E page \in SUBSET (Names \ listed) : page # {} /\ ReconcilePage(page)

\* apply_hint: the stream's belief and the batch after one more hint.
Fresh(kn, h) == kn[h.name].ver = 0 \/ h.ver > kn[h.name].ver

ApplyHint(acc, h) ==
    LET kn == acc.known
        knownNow == [kn EXCEPT ![h.name] = [key |-> h.key, ver |-> h.ver]]
    IN IF ~Fresh(kn, h) THEN acc
       ELSE [known |-> knownNow,
             refs |-> IF h.key \notin {NoKey, kn[h.name].key}
                      THEN Append(acc.refs, [name |-> h.name, key |-> h.key]) ELSE acc.refs,
             deleted |-> IF h.key = NoKey /\ kn[h.name].key # NoKey
                         THEN Append(acc.deleted, h.name) ELSE acc.deleted]

\* The hints waiting in the queue, drained and flushed as one frame.  The
\* loop that drains them is the one that reconciles, so no hint is applied
\* between two pages.
Hints(q) ==
    LET out == FoldLeft(ApplyHint, [known |-> known, refs |-> <<>>, deleted |-> <<>>], q)
    IN /\ stream = "live"
       /\ listed = {}
       /\ Len(frames) < MaxFrames
       /\ \A i \in DOMAIN q : q[i].node = Head(todo)
       /\ inFlight' = inFlight \ ToSet(q)
       /\ known' = out.known
       /\ frames' = frames \o Flush(out.refs, out.deleted)
       /\ crossed' = crossed \cup
             ({out.refs[i].name : i \in DOMAIN out.refs} \cap ToSet(out.deleted))
       /\ UNCHANGED <<catalog, commits, stream, scanVars, clientVars, current, cancelled, faults>>

\* The node answers with an error frame: stale view, a refused request, or
\* anything else, a first reconcile that fails half-way included.
Refuse(code) ==
    /\ stream = "start"
    /\ code = "refused" \/ listed = {}
    /\ faults < MaxFaults
    /\ faults' = faults + 1
    /\ frames' = Append(frames, Err(code))
    /\ stream' = "refused"
    /\ UNCHANGED <<catalog, commits, inFlight, known, scanVars, clientVars, historyVars, cancelled>>

----------------------------------------------------------------------------
(* The generator.                                                          *)

\* Mutant: the loop over rounds never looks at the ctx.
StartRoundUnchecked ==
    /\ pc = "round"
    /\ pc' = "open" /\ todo' \in Rankings
    /\ attempts' = 0
    /\ UNCHANGED <<nodeVars, frames, state, held, pending, synced, historyVars, cancelled, faults>>

StartRound ==
    /\ pc = "round"
    /\ IF cancelled THEN pc' = "ended" /\ UNCHANGED todo
                    ELSE pc' = "open" /\ todo' \in Rankings
    /\ attempts' = 0
    /\ UNCHANGED <<nodeVars, frames, state, held, pending, synced, historyVars, cancelled, faults>>

\* The end of the loop over attempts: retry, reconnect, or the next node.
Leave(res) ==
    /\ stream' = "none"
    /\ known' = [n \in Names |-> NoRow]
    /\ listed' = {} /\ seen' = {} /\ queued' = <<>>
    /\ frames' = NoFrames
    /\ synced' = FALSE
    /\ current' = [n \in Names |-> {}] /\ crossed' = {}
    /\ IF res = "retry" /\ attempts + 1 < WatchAttempts
       THEN attempts' = attempts + 1 /\ pc' = "open" /\ UNCHANGED todo
       ELSE /\ attempts' = 0
            /\ todo' = IF res = "served" THEN <<>> ELSE Tail(todo)
            /\ pc' = CASE res \in {"stop", "fatal"} -> "ended"
                       [] res = "served" -> "pause"
                       [] OTHER -> IF todo' = <<>> THEN "backoff" ELSE "open"

\* Mutant: a reconnect tells the node nothing.
KnownListEmpty == [n \in Names |-> NoRow]

\* watch_open: the request carries the names held and their keys.
KnownList == [n \in Names |-> [key |-> state[n], ver |-> 0]]

Open ==
    /\ pc = "open"
    /\ ~cancelled
    /\ stream' = "start"
    /\ known' = KnownList
    /\ current' = [n \in Names |-> {catalog[n].key}]
    /\ pc' = "stream"
    /\ UNCHANGED <<catalog, commits, inFlight, scanVars, frames, state, held, pending, synced,
                   todo, attempts, crossed, cancelled, faults>>

OpenFails ==
    /\ pc = "open"
    /\ IF cancelled THEN UNCHANGED faults ELSE faults < MaxFaults /\ faults' = faults + 1
    /\ Leave("failed")
    /\ UNCHANGED <<catalog, commits, inFlight, state, held, pending, cancelled>>

\* Mutant: a deletion is reported and the name stays in the state.
YieldKeepsDeleted ==
    /\ pc = "stream"
    /\ pending # <<>>
    /\ LET e == Head(pending) IN
        CASE e.typ = "change" -> /\ state' = [state EXCEPT ![e.name] = e.key]
                                 /\ held' = [held EXCEPT ![e.name] = e.key]
          [] e.typ = "deleted" -> /\ held' = [held EXCEPT ![e.name] = NoKey]
                                  /\ UNCHANGED state
          [] e.typ = "synced" -> UNCHANGED <<state, held>>
    /\ pending' = Tail(pending)
    /\ UNCHANGED <<nodeVars, frames, synced, pc, todo, attempts, historyVars, cancelled, faults>>

\* WatchSession.next with an event left: the state and the consumer learn it.
Yield ==
    /\ pc = "stream"
    /\ pending # <<>>
    /\ LET e == Head(pending) IN
        CASE e.typ = "change" -> /\ state' = [state EXCEPT ![e.name] = e.key]
                                 /\ held' = [held EXCEPT ![e.name] = e.key]
          [] e.typ = "deleted" -> /\ state' = [state EXCEPT ![e.name] = NoKey]
                                  /\ held' = [held EXCEPT ![e.name] = NoKey]
          [] e.typ = "synced" -> UNCHANGED <<state, held>>
    /\ pending' = Tail(pending)
    /\ UNCHANGED <<nodeVars, frames, synced, pc, todo, attempts, historyVars, cancelled, faults>>

Written(refs) ==
    [i \in DOMAIN refs |-> [typ |-> "change", name |-> refs[i].name, key |-> refs[i].key]]
Gone(deleted) == [i \in DOMAIN deleted |-> [typ |-> "deleted", name |-> deleted[i]]]

\* The events of a ref-changes frame: the references, then the deletions.
EventsOf(m) == Written(m.refs) \o Gone(m.deleted)

\* served(): a stream that synced is worth reconnecting to at once.
Ended == IF synced THEN "served" ELSE "failed"

NextFrame ==
    /\ pc = "stream"
    /\ pending = <<>>
    /\ frames # NoFrames
    /\ frames[1].typ # "err"
    /\ pending' = IF frames[1].typ = "changes" THEN EventsOf(frames[1])
                  ELSE IF synced THEN <<>> ELSE <<Synced>>
    /\ synced' = (synced \/ frames[1].typ = "synced")
    /\ frames' = Tail(frames)
    /\ UNCHANGED <<nodeVars, state, held, pc, todo, attempts, historyVars, cancelled, faults>>

ErrFrame ==
    /\ pc = "stream"
    /\ pending = <<>>
    /\ frames # NoFrames
    /\ frames[1].typ = "err"
    /\ Leave(CASE frames[1].code = "stale" -> "retry"
               [] frames[1].code = "bad" -> "fatal"
               [] OTHER -> "failed")
    /\ UNCHANGED <<catalog, commits, inFlight, state, held, pending, cancelled, faults>>

\* Mutant: the session does not notice that its stream is gone.
StreamDiesUnnoticed ==
    /\ pc = "stream"
    /\ pending = <<>>
    /\ faults < MaxFaults
    /\ faults' = faults + 1
    /\ stream' = "none"
    /\ frames' = NoFrames
    /\ UNCHANGED <<catalog, commits, inFlight, known, scanVars, clientVars, historyVars, cancelled>>

\* A read error, an unexpected frame, or the idle timer, which runs on while
\* the consumer handles an event.
StreamDies ==
    /\ pc = "stream"
    /\ pending = <<>>
    /\ faults < MaxFaults
    /\ faults' = faults + 1
    /\ Leave(Ended)
    /\ UNCHANGED <<catalog, commits, inFlight, state, held, pending, cancelled>>

StreamStops ==
    /\ pc = "stream"
    /\ pending = <<>>
    /\ cancelled
    /\ Leave("stop")
    /\ UNCHANGED <<catalog, commits, inFlight, state, held, pending, cancelled, faults>>

\* The pause after a served stream; the view refresh and the backoff after a
\* round no node served.  The ctx may end them.
Wait ==
    /\ pc \in {"pause", "backoff"}
    /\ pc' \in {"round"} \cup (IF cancelled THEN {"ended"} ELSE {})
    /\ UNCHANGED <<nodeVars, frames, state, held, pending, synced, todo, attempts,
                   historyVars, cancelled, faults>>

Cancel ==
    /\ ~cancelled
    /\ cancelled' = TRUE
    /\ UNCHANGED <<nodeVars, frames, clientVars, historyVars, faults>>

----------------------------------------------------------------------------

HintQueues == UNION {[1..m -> inFlight] : m \in 1..HintBatch}

Generator ==
    \/ StartRound \/ Open \/ OpenFails \/ Yield
    \/ NextFrame \/ ErrFrame \/ StreamStops \/ Wait

Cluster ==
    \/ \E n \in Names, k \in MaybeKey : Commit(n, k)
    \/ \E q \in HintQueues : IsInjective(q) /\ Hints(q)
    \/ \E code \in {"stale", "bad", "refused"} : Refuse(code)

Next == Generator \/ Cluster \/ Reconcile \/ StreamDies \/ Cancel

\* The consumer keeps polling and the node's ticker keeps ticking; select!
\* picks at random among its ready branches, so a ctx that has ended is seen
\* in the end.  Faults, hints and commits are never owed.
Fairness == WF_vars(Generator) /\ WF_vars(Reconcile) /\ SF_vars(StreamStops)

Spec == Init /\ [][Next]_vars /\ Fairness

----------------------------------------------------------------------------
(* Properties.                                                             *)

Event == [typ : {"change"}, name : Names, key : Keys]
         \cup [typ : {"deleted"}, name : Names] \cup {Synced}

TypeOK ==
    /\ catalog \in [Names -> Row] /\ known \in [Names -> Row]
    /\ commits \in 1..MaxCommits /\ faults \in 0..MaxFaults
    /\ inFlight \subseteq [node : Nodes, name : Names, key : MaybeKey, ver : 1..MaxCommits]
    /\ stream \in {"none", "start", "live", "refused"}
    /\ state \in Held /\ held \in Held
    /\ current \in [Names -> SUBSET MaybeKey] /\ crossed \subseteq Names
    /\ seen \subseteq listed /\ listed \subseteq Names
    /\ ToSet(queued) \subseteq [name : Names, key : Keys]
    /\ ToSet(pending) \subseteq Event
    /\ pc \in {"round", "open", "stream", "pause", "backoff", "ended"}
    /\ ToSet(todo) \subseteq Nodes
    /\ attempts \in 0..(WatchAttempts - 1)
    /\ synced \in BOOLEAN /\ cancelled \in BOOLEAN

\* What the consumer will hold once it has read everything on its way.
Told(h, e) ==
    CASE e.typ = "change" -> [h EXCEPT ![e.name] = e.key]
      [] e.typ = "deleted" -> [h EXCEPT ![e.name] = NoKey]
      [] OTHER -> h

OnItsWay ==
    LET sent == Append(frames, Changes(queued, <<>>))
    IN pending \o FlattenSeq([i \in DOMAIN sent |->
                    IF sent[i].typ = "changes" THEN EventsOf(sent[i]) ELSE <<>>])

\* The node's belief is true: when the consumer has taken every event of
\* the pending frame, of the frames in flight and of the batch, it holds for
\* each name exactly what the stream believes ("What a watch stream believes
\* its client holds", fake.rs:2731), across reconnects to any node, between
\* the pages of a reconcile and however many hints a frame carries.  The
\* exception is a name that one frame of this stream both wrote and deleted
\* (watch_batch), until the stream is reopened.
BeliefHolds ==
    /\ TypeOK
    /\ stream \in {"start", "live"} =>
          \A n \in Names \ crossed : FoldLeft(Told, held, OnItsWay)[n] = known[n].key

\* When a session's first synced event is handed out, the consumer holds for
\* each name something the catalog held while this stream was open: nothing
\* changed or deleted while the client was away is missing, although the
\* pages of the listing come from different states of the catalog.
SyncedIsCurrent ==
    (pc = "stream" /\ pending # <<>> /\ Head(pending).typ = "synced")
        => \A n \in Names : held[n] \in current[n]

\* No event is news twice: an event always changes what the consumer holds,
\* whatever was reported before a reconnect.  Excepted is an event about a
\* name that one frame of this stream both wrote and deleted.
EventsAreNews ==
    [][(/\ pending # <<>> /\ pending' = Tail(pending)
        /\ Head(pending).typ # "synced" /\ Head(pending).name \notin crossed)
            => held' # held]_vars

\* Lost hints, broken streams and refusals only delay the news: unless the
\* watch ends, the consumer comes to hold the catalog for good, except for
\* names that one frame of the stream both wrote and deleted.
ConsumerCatchesUp ==
    <>[](pc = "ended" \/ \A n \in Names \ crossed : held[n] = catalog[n].key)

\* The heartbeat's promise, "the client holds the current state"
\* (fake.rs:2962), without that exception.
HeartbeatsMeanCurrent == <>[](pc = "ended" \/ held = Contents)

\* Once the ctx ends, so does the watch, whatever it was doing.
CancelEndsWatch == cancelled ~> (pc = "ended")

=============================================================================
