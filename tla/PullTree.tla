------------------------------ MODULE PullTree ------------------------------
(***************************************************************************)
(* Cluster::pull_tree (crates/client/src/tree.rs): the walk that asks for  *)
(* keys as it discovers them, and the writer task that stores the records  *)
(* in batches, joined by a channel of one batch.  The fetcher is what      *)
(* FetchPromise says of it.                                                *)
(*                                                                         *)
(* The stack of `want` and the queue of keys to send are sets: their order *)
(* decides only what is fetched first.  The 16 MiB at which a batch is     *)
(* handed over is a free choice.                                           *)
(***************************************************************************)
EXTENDS Naturals, FiniteSets

CONSTANTS
    Keys,       \* objects
    Root,       \* the object the reference names
    Kids,       \* key -> the child keys of an object; {} for blobs and xattr sets
    Fragile,    \* the interior objects whose child keys may not be decodable
    Held,       \* the keys the cluster holds
    ResultsCap  \* RESULTS_CAP

VARIABLES
    store,      \* the local store
    malformed,  \* objects whose child keys cannot be decoded
    first,      \* history: the store when the pull began
    pc,         \* where the walk stands
    res,        \* what pull_tree returns
    todo,       \* the stack of `want`
    cur,        \* the record being written
    seen, queue, pending, \* struct Walk
    batch,      \* LocalWriter.batch
    chan,       \* the batches in the writer's channel
    open,       \* LocalWriter.tx is Some
    wtask, writing, \* the writer task, and what it has still to store
    err,        \* the error slot holds an error
    failed,     \* the `failed` token
    given, room, closed, results, received, stopped, hung, over \* see FetchPromise

walkVars == <<pc, res, todo, cur, seen, queue, pending, batch>>
writerVars == <<store, wtask, writing, failed>>
constVars == <<first, malformed>>
fetchVars == <<given, room, closed, results, received, stopped, hung, over>>
vars == <<walkVars, writerVars, fetchVars, constVars, chan, open, err>>

Fetch == INSTANCE FetchPromise

None == "none"

\* The keys at and below k, however deep: the least set that holds k and the
\* children of what it holds.
HoldsKids(S) == \A j \in S : Kids[j] \subseteq S

Below(k) == {j \in Keys : \A S \in SUBSET Keys : k \in S /\ HoldsKids(S) => j \in S}

Leaves == {k \in Keys : Kids[k] = {}}

\* subtree_complete and, at the end, fstree::check_complete.
Complete(k) == Below(k) \subseteq store /\ Below(k) \cap malformed = {}

Init ==
    /\ store \in SUBSET Keys
    /\ malformed \in SUBSET Fragile
    /\ first = store
    /\ pc = "start" /\ res = None
    /\ todo = {Root}
    /\ cur = None
    /\ seen = {} /\ queue = {} /\ pending = 0
    /\ batch = {} /\ chan = {} /\ open = TRUE
    /\ wtask = "recv" /\ writing = {}
    /\ err = FALSE /\ failed = FALSE
    /\ Fetch!Init

\* A pull that had nothing to fetch and is over.
Over ==
    /\ store = Keys /\ first = Keys /\ malformed = {}
    /\ pc = "returned" /\ res = "ok"
    /\ todo = {} /\ cur = None
    /\ seen = {Root} /\ queue = {} /\ pending = 0
    /\ batch = {} /\ chan = {} /\ open = FALSE
    /\ wtask = "done" /\ writing = {}
    /\ err = FALSE /\ failed = FALSE
    /\ given = {} /\ results = {} /\ received = {}
    /\ room = TRUE /\ closed = TRUE /\ stopped = TRUE /\ hung = FALSE /\ over = TRUE

-----------------------------------------------------------------------------
(***************************************************************************)
(* want: one key of the stack at a time; the writer stores records         *)
(* meanwhile.                                                              *)
(***************************************************************************)
Wanting == pc \in {"start", "want"}

WantSeen(k) ==
    /\ Wanting /\ k \in todo \cap seen
    /\ todo' = todo \ {k}
    /\ UNCHANGED <<pc, res, cur, seen, queue, pending, batch>>

\* Held: nothing to do if complete below, else on to its children.
\* Mutant: a key that is held is taken for complete.
WantHeldIsEnough(k) ==
    /\ Wanting /\ k \in (todo \ seen) \cap store
    /\ seen' = seen \cup {k}
    /\ todo' = todo \ {k}
    /\ UNCHANGED <<pc, res, cur, queue, pending, batch>>

WantHeld(k) ==
    /\ Wanting /\ k \in (todo \ seen) \cap store
    /\ k \notin malformed
    /\ seen' = seen \cup {k}
    /\ todo' = (todo \ {k}) \cup IF k \in Leaves \/ Complete(k) THEN {} ELSE Kids[k]
    /\ UNCHANGED <<pc, res, cur, queue, pending, batch>>

\* Not held, or held and not decodable: fetch it.
WantMissing(k) ==
    /\ Wanting /\ k \in todo \ seen
    /\ k \notin store \/ k \in malformed
    /\ seen' = seen \cup {k}
    /\ todo' = todo \ {k}
    /\ queue' = queue \cup {k}
    /\ pending' = pending + 1
    /\ UNCHANGED <<pc, res, cur, batch>>

\* want returns: to the loop, which it was called from but for the root.
WantDone ==
    /\ Wanting /\ todo = {}
    /\ pending' = IF pc = "want" THEN pending - 1 ELSE pending
    /\ pc' = "loop"
    /\ UNCHANGED <<res, todo, cur, seen, queue, batch>>

Want ==
    /\ WantDone \/ \E k \in todo : WantSeen(k) \/ WantHeld(k) \/ WantMissing(k)
    /\ UNCHANGED <<writerVars, fetchVars, constVars, chan, open, err>>

-----------------------------------------------------------------------------
(***************************************************************************)
(* The loop of pull_tree_run: a select over the four branches.             *)
(***************************************************************************)
Looping == pc = "loop" /\ pending > 0

\* pull_tree_run returns r; `input` is dropped.
Return(r) ==
    /\ pc' = "stop" /\ res' = r
    /\ UNCHANGED <<todo, cur, seen, queue, pending>>

SendKey ==
    /\ Looping /\ ~over
    /\ \E k \in queue :
        /\ Fetch!Give(k)
        /\ queue' = queue \ {k}
    /\ UNCHANGED <<pc, res, todo, cur, seen, pending, batch, writerVars, constVars, chan, open, err>>

\* The fetcher is gone: input = None.
SendRefused ==
    /\ Looping /\ over /\ queue # {}
    /\ Fetch!Close
    /\ UNCHANGED <<walkVars, writerVars, constVars, chan, open, err>>

\* Mutant: the keys are handed over first.
RecvAfterSending ==
    /\ Looping /\ queue = {}
    /\ \E f \in results :
        /\ Fetch!Receive /\ results' = results \ {f}
        /\ IF f.found
           THEN /\ pc' = "write" /\ cur' = f.key
                /\ batch' = batch \cup {f.key}
                /\ UNCHANGED <<res, todo, seen, queue, pending>>
           ELSE Return("not found") /\ UNCHANGED batch
    /\ UNCHANGED <<writerVars, constVars, chan, open, err>>

Recv ==
    /\ Looping
    /\ \E f \in results :
        /\ Fetch!Receive /\ results' = results \ {f}
        /\ IF f.found
           THEN /\ pc' = "write" /\ cur' = f.key
                /\ batch' = batch \cup {f.key}
                /\ UNCHANGED <<res, todo, seen, queue, pending>>
           ELSE Return("not found") /\ UNCHANGED batch
    /\ UNCHANGED <<writerVars, constVars, chan, open, err>>

RecvEnd ==
    /\ Looping
    /\ over /\ results = {}
    /\ Return(IF stopped THEN "ctx" ELSE "ended early")
    /\ UNCHANGED <<batch, writerVars, fetchVars, constVars, chan, open, err>>

\* writer.failed(): return writer.close(), which starts with a flush.
WriterFailed ==
    /\ Looping /\ failed
    /\ pc' = "close"
    /\ UNCHANGED <<res, todo, cur, seen, queue, pending, batch, writerVars, fetchVars, constVars, chan,
                   open, err>>

CtxDone ==
    /\ Looping /\ stopped
    /\ Return("ctx")
    /\ UNCHANGED <<batch, writerVars, fetchVars, constVars, chan, open, err>>

\* Every outcome is in: finish the fetcher's input, close the writer.
LoopDone ==
    /\ pc = "loop" /\ pending = 0
    /\ pc' = "close"
    /\ closed' = TRUE
    /\ UNCHANGED <<res, todo, cur, seen, queue, pending, batch, writerVars,
                   given, room, results, received, stopped, hung, over, constVars, chan, open, err>>

-----------------------------------------------------------------------------
(***************************************************************************)
(* LocalWriter: write, flush, close and stop, called by the walk.          *)
(***************************************************************************)
\* The record is stored on the way; only then is it looked at.
Written ==
    IF cur \in malformed
    THEN Return("malformed")
    ELSE /\ pc' = "want" /\ todo' = Kids[cur]
         /\ UNCHANGED <<res, cur, seen, queue, pending>>

WriteBuffers ==
    /\ pc = "write"
    /\ Written
    /\ UNCHANGED <<batch, chan, err>>

WriteFlushes ==
    /\ pc = "write"
    /\ chan = {}
    /\ chan' = {batch} /\ batch' = {}
    /\ Written
    /\ UNCHANGED err

\* The flush gives up: the batch is dropped and the error taken.
WriteFails ==
    /\ pc = "write" /\ failed
    /\ batch' = {} /\ err' = FALSE
    /\ Return("write")
    /\ UNCHANGED chan

CloseFlushes ==
    /\ pc = "close"
    /\ batch # {} => chan = {}
    /\ chan' = IF batch = {} THEN chan ELSE {batch}
    /\ batch' = {}
    /\ pc' = "join"
    /\ UNCHANGED <<res, todo, cur, seen, queue, pending, err>>

CloseFails ==
    /\ pc = "close" /\ failed /\ batch # {}
    /\ batch' = {} /\ err' = FALSE
    /\ pc' = "join" /\ res' = "write"
    /\ UNCHANGED <<todo, cur, seen, queue, pending, chan>>

\* The writer has ended.  The close of a failed writer is what the loop
\* returns; otherwise the gate follows.
\* Mutant: the error slot is not looked at again.
CloseReturnsNoErr ==
    /\ pc = "join" /\ wtask = "done"
    /\ IF res # None \/ pending > 0
       THEN pc' = "stop" /\ res' = IF res # None THEN res ELSE "ok"
       ELSE pc' = "gate" /\ UNCHANGED res
    /\ err' = FALSE
    /\ UNCHANGED <<todo, cur, seen, queue, pending, batch, chan>>

CloseReturns ==
    /\ pc = "join" /\ wtask = "done"
    /\ IF res # None \/ err \/ pending > 0
       THEN pc' = "stop" /\ res' = IF res # None THEN res ELSE IF err THEN "write" ELSE "ok"
       ELSE pc' = "gate" /\ UNCHANGED res
    /\ err' = FALSE
    /\ UNCHANGED <<todo, cur, seen, queue, pending, batch, chan>>

LocalWriter ==
    /\ WriteBuffers \/ WriteFlushes \/ WriteFails \/ CloseFlushes \/ CloseFails \/ CloseReturns
    /\ open' = (open /\ pc' # "join")
    /\ UNCHANGED <<writerVars, fetchVars, constVars>>

Gate ==
    /\ pc = "gate"
    /\ Return(IF Complete(Root) THEN "ok" ELSE "incomplete")
    /\ UNCHANGED <<batch, writerVars, fetchVars, constVars, chan, open, err>>

\* pull_tree on its way out: writer.stop(), fetcher.stop(), cancel.
StopWriter ==
    /\ pc = "stop"
    /\ open' = FALSE /\ closed' = TRUE
    /\ pc' = "stopping"
    /\ UNCHANGED <<res, todo, cur, seen, queue, pending, batch, writerVars,
                   given, room, results, received, stopped, hung, over, constVars, chan, err>>

StopFetcher ==
    /\ pc = "stopping" /\ wtask = "done"
    /\ stopped' = TRUE /\ hung' = FALSE
    /\ pc' = "leaving"
    /\ UNCHANGED <<res, todo, cur, seen, queue, pending, batch, writerVars,
                   given, room, closed, results, received, over, constVars, chan, open, err>>

Leave ==
    /\ pc = "leaving" /\ over
    /\ pc' = "returned"
    /\ UNCHANGED <<res, todo, cur, seen, queue, pending, batch, writerVars, fetchVars, constVars, chan,
                   open, err>>

Walk ==
    \/ Want
    \/ SendKey \/ SendRefused \/ Recv \/ RecvEnd \/ WriterFailed \/ CtxDone \/ LoopDone
    \/ LocalWriter \/ Gate
    \/ StopWriter \/ StopFetcher \/ Leave

-----------------------------------------------------------------------------
(***************************************************************************)
(* The writer task.                                                        *)
(***************************************************************************)
\* A batch after an error is drained and not written.
TakeBatch ==
    /\ wtask = "recv" /\ chan # {}
    /\ chan' = {}
    /\ IF err THEN UNCHANGED <<wtask, writing>>
              ELSE wtask' = "write" /\ writing' = UNION chan
    /\ UNCHANGED <<store, failed, walkVars, fetchVars, constVars, open, err>>

StoreOne ==
    /\ wtask = "write"
    /\ \E k \in writing : store' = store \cup {k} /\ writing' = writing \ {k}
    /\ UNCHANGED <<wtask, failed, walkVars, fetchVars, constVars, chan, open, err>>

BatchStored ==
    /\ wtask = "write" /\ writing = {}
    /\ wtask' = "recv"
    /\ UNCHANGED <<store, writing, failed, walkVars, fetchVars, constVars, chan, open, err>>

\* The store fails with some of the batch written: first the error is put in
\* its slot, then the token is cancelled.
StoreFails ==
    /\ wtask = "write" /\ writing # {}
    /\ err' = TRUE
    /\ wtask' = "fail" /\ writing' = {}
    /\ UNCHANGED <<store, failed, walkVars, fetchVars, constVars, chan, open>>

CancelFailed ==
    /\ wtask = "fail"
    /\ failed' = TRUE
    /\ wtask' = "recv"
    /\ UNCHANGED <<store, writing, walkVars, fetchVars, constVars, chan, open, err>>

WriterEnds ==
    /\ wtask = "recv" /\ chan = {} /\ ~open
    /\ wtask' = "done"
    /\ UNCHANGED <<store, writing, failed, walkVars, fetchVars, constVars, chan, open, err>>

Writer == TakeBatch \/ StoreOne \/ BatchStored \/ StoreFails \/ CancelFailed \/ WriterEnds

-----------------------------------------------------------------------------
FetcherStep(A) == A /\ UNCHANGED <<walkVars, writerVars, constVars, chan, open, err>>

\* The caller's ctx ends.
Cancel == pc # "returned" /\ FetcherStep(Fetch!Stop)

Finished == pc = "returned" /\ UNCHANGED vars

Next ==
    \/ Walk
    \/ Writer
    \/ FetcherStep(Fetch!Accept) \/ FetcherStep(Fetch!Answer)
    \/ FetcherStep(Fetch!Hang) \/ FetcherStep(Fetch!End)
    \/ Cancel
    \/ Finished

(***************************************************************************)
(* The two tasks run and a write of the store ends; of the fetcher exactly *)
(* what FetchPromise promises: no key is taken while the results are full. *)
(***************************************************************************)
Fairness ==
    /\ WF_vars(Walk)
    /\ WF_vars(Writer)
    /\ WF_vars(Fetch!CanAnswer /\ FetcherStep(Fetch!Answer))
    /\ WF_vars(Fetch!CanAccept /\ FetcherStep(Fetch!Accept))
    /\ WF_vars(Fetch!CanEnd /\ FetcherStep(Fetch!End))

Spec == Init /\ [][Next]_vars /\ Fairness

-----------------------------------------------------------------------------
TypeOK ==
    /\ store \subseteq Keys /\ first \subseteq store
    /\ pc \in {"start", "want", "loop", "write", "close", "join", "gate",
               "stop", "stopping", "leaving", "returned"}
    /\ todo \subseteq Keys /\ queue \subseteq seen /\ seen \subseteq Keys
    /\ cur \in Keys \cup {None}
    /\ pending \in 0..Cardinality(Keys)
    /\ wtask \in {"recv", "write", "fail", "done"}
    /\ Cardinality(chan) <= 1 /\ writing \subseteq Keys /\ batch \subseteq Keys
    /\ given \subseteq seen

\* The gate never has to fire: when the walk is through, without an error,
\* everything below the root is in the local store, and what was fetched is
\* exactly what was missing when the pull began, each object once, however the
\* writer's batches interleaved with the walk's looks into the store.
GateHolds ==
    /\ TypeOK
    /\ pc = "gate" => /\ Complete(Root)
                      /\ given = Below(Root) \ first

\* A batch that could not be stored makes the pull fail, although the error is
\* kept in a slot that flush and close both empty, and the loop's last write
\* may be over before the failure is known.
FailedWriteFails == res = "ok" => ~failed /\ wtask # "fail" /\ Complete(Root)

\* The pull returns: the walk, the writer and the fetcher never wait for each
\* other for ever, with every channel full, after a failed write or a cancel.
\* Only an exchange that hangs for ever can hold it up, until a cancel.
PullReturns == <>(pc = "returned") \/ <>[]hung
=============================================================================
