# Verification of dstore-client-rs in TLA+

dstore-client-rs is the client of a replicated, content-addressed store: it keeps
a cached view of a cluster of nodes, uploads and downloads trees of objects, reads,
writes and watches references (named roots), and keeps working copies of them on
disk. This directory holds TLA+ models of its concurrent and failure-prone parts,
the TLC instances that check them, and TLAPS proofs of what matters most. Paths
below are relative to `src/crates/` unless they say otherwise.

## The system

| Part | Keeps | Operations | Talks to |
|---|---|---|---|
| Connection pool, `transport/src/pool.rs` | per (peer, ALPN): conns, round-robin counter, time of the last failed dial, dial lock | `get`, `call`, `open`, `drop_peer`, `close` | the endpoint, which dials; callers are all requests |
| iroh transport, `transport-iroh/src/` | configuration, mDNS cache, sockets | `dial` in phases, discovery, `close` | iroh; the pool calls it |
| In-memory network, `transport/src/mem.rs` | a bounded buffer and two wakers per stream half | poll, close, cancel | the tests' stand-in for iroh |
| Packs on streams, `wire/src/pack.rs`, `frame.rs` | a write buffer, a chunk, the frame and record being read | `add_record`, `finish`, `next`, `drain` | streams; put and get use them |
| Cluster client, `client/src/cluster.rs`, `rank.rs` | cached view and placement, unreachable hints, backoffs | `dial`, `adopt`, `call`, `call_retry`, `any_node`, `refresh_view`, spawned refreshes, `probe_hinted` | pool; every operation below |
| Fetcher, `client/src/fetch.rs` | queues of keys per owner, batches in flight, one refresh, channels between tasks | `add_key`, dispatcher, workers, `recv`, `stop` | cluster client for the read order; `get` and `pull_tree` use it |
| Pulling a tree, `client/src/tree.rs` | the walk's sets, the writer's batch and error slot | `pull_tree`, `want`, `LocalWriter` | fetcher, the local store |
| Push, `client/src/tree.rs`, `objects.rs` | who is known to hold each object, over three rounds | `missing`, `put`, `placed`, `direct_fill`, `push` | cluster client, `ref_put` |
| References, `client/src/refs.rs` | nothing | `ref_get`, `ref_put`, `ref_delete`, `ref_list` | any node, tried in turn |
| Watching, `client/src/watch.rs` | what the consumer holds, the session, pending events | `watch_refs` (a generator), `next` | one node at a time |
| Working copy, `worktree/src/flow.rs`, `tree.rs` | `.dstore`: config, state (base, remote, version), packstore, lock | `init`, `clone`, `fetch`, `pull`, `push`, `same_push` | references, push, fetcher, working directory |
| Working directory, `worktree/src/scan.rs`, `change.rs`, `merge.rs`, `apply.rs` | the files themselves | scan, tree diff, three-way merge, apply | the working copy's commands |
| Views and placement, `view/src/` | membership, pending membership, replication factors | owners, write set, read order, `validate_change` | cluster client, fetcher, push |
| Contexts, `gocompat/src/ctx.rs` | a tree of deadlines, cancels and latched causes | `with_cancel`, `with_timeout`, `cancel`, `err`, `done` | everything that can be given up |
| Sorts and diffs, `udiff/src/`, `view/src/gosort.rs` | nothing | `sort.Slice`, `sort.SliceStable`, `unified` | placement, the `diff` command |
| Fake cluster, `testkit/src/fake.rs` | the nodes' side, as the tests run it | put, missing, references, watch streams, completeness | everything above, in the tests |
| Codec, ticket, addresses, gocompat, gocli, cli | little or nothing | encodings, formatting, parsing, adapters | all of the above |

What is hard in it:

* **Interleaving.** Callers of one pool key look at the list of conns, wait for the
  dial lock and look again, while others drop and close conns. Replies of
  concurrent requests carry views of different age. The fetcher's dispatcher and
  workers, the walk it feeds and the writer behind the walk send to each other over
  bounded channels. Two copies of one reference push over each other; two commands
  make, lock and remove one `.dstore`. A cancel races a deadline.
* **Failure and retry.** Nodes come and go in the middle of a put; the answer to a
  reference write is lost and the write is executed all the same, perhaps later,
  perhaps twice; watch streams break and are reopened at another node; a pack is cut
  short anywhere; a node moves while it is dialled; the garbage collector takes an
  object between the negotiation that found it and the reference that needs it.
* **Crashes.** A push that dies between the cluster's write and the state file; a
  pull that dies in the middle of writing a directory; a clone that is killed.
* **Ordering.** Deletions and additions within an apply and within a watch frame;
  hints that overtake each other.
* **Liveness.** Refreshes that spawn refreshes, retry rounds without end, channels
  on which everyone may wait for everyone, sleepers nobody wakes.
* **Boundaries.** Sorts that change their ways with length and luck, a diff that gives
  up its search, mtimes as coarse as the window that is to tell them apart.

What makes each part correct: the pool is bounded, leaks nothing and every `get`
returns; a clean end of a pack means all of it; a dial fails only without a way; the
cached view only moves forward and catches up; a fetch delivers one outcome per key
and ends; a pulled tree is complete or an error; a reference is written only after
its objects are acknowledged; a watch's consumer ends up with what the catalog holds;
a push loses nobody's work and is recognised when it is repeated; a pull is a
three-way merge that keeps local changes, and no edit hides from a scan; a working
copy has one command at a time and is not removed by a later one; placement moves no
more than it must.

## Modules

Each component is one module; `MC*` modules and `.cfg` files give TLC its
instances; `*Proofs` hold the theorems. A critical section, or a stretch of code
between two awaits that other tasks cannot see into, is one action.

**Pool** is one key of the pool; only `close` touches several, and it treats each
alike, so the keys are independent copies. `GetPooled`, `GetRefused` and
the wait for the dial lock are `get`'s first critical section; `GetGrown` and
`DialStart` are the second look under the dial lock; `DialOk`/`DialErr` the third.
The counter wraps at `CounterMod` (2^64 in the code).

**MemPipe** is one direction of an in-memory stream: the buffer, the two flags and the
tasks asleep in `poll_read` and `poll_write`. **PackStream** runs a pack over it:
`buffered_write` and `chunk_write` decide which frames the sender writes, each
`write_all` goes through the pipe piece by piece, and the reader fills, parses and
drains as `PackReader` and `PackRecords` do. A unit of data stands for a run of
bytes. The sender may fail with an error frame, drop its half or finish; the reader's
caller may let go at any moment.

**IrohDial** is the dial of one node that moves: the direct phase, the phase over all
addresses, then discovery by mDNS (its cache, its two read loops, its end) and DNS.
Iroh's own connect is external: it can only succeed where the node is, and can be
slower than its phase.

**Cluster** is the view cache. A view is its triple (incarnation, epoch, version).
A request is stamped (`Send`), served with what the node knows (`Serve`), then its
reply is looked at in the code's order: `ReplyOk`, `CheckEpoch` (which may spawn a
refresh), `AdoptReply`, `ReplaceHints`. The kinds of request differ in whom they
ask and how often they retry a stale view.

**FetchPromise** is the abstract specification of the fetcher: keys go in, one outcome
for each comes out, the outcomes end when the input is closed or the fetch stopped. No
key is promised to be taken while the results are full, and nothing while an exchange
with a node hangs, but that a stop ends it.
**Fetcher** has the dispatcher's loop as a program counter (`disp`), each
worker's as another, and the channels as bounded sets, a key being in at most one.
Sizes only choose batches, so a batch is any choice of at most `BatchKeys` keys.
The read order is recomputed at each attempt from what `rank_owners` sorts by at that
moment: penalty, relayed or direct path, class of the round-trip time and position in the
placement's order, the first three as one number per owner (`score`). Any owner's number
may change at any step (`RankChanges`): by another request's failure or success, a hint,
a backoff that ends, a connection that is made, lost or finds another path. The history
variable `moved` has the keys whose own order has changed since. An exchange may stall for
good (`StreamStalls`): the timeout covers the opening of the stream, not the exchange. Its
instance of the promise maps the keys the feeder has handed over to `given`, the results
channel to `results` and the end of everyone who sends on it to `over`; `FetchPromised` is the whole
of `Promise!Spec`, fairness included.
**PullTree** is the walk of `pull_tree` (`want`, the queue of keys to send, the loop's
`select!`), the writer's task with its channel of one batch and its error slot, and
`close`, `stop` and the final gate, with exactly FetchPromise as the fetcher.

**Push** follows one push: negotiation per object (`Ask` … `Answered`), one put
per node (`PutReply` … `PutRefused`), the acknowledgement rule (`Check`), the
direct fill, the reference write against the completeness gate (`RefPut`) and the
renegotiations. Nodes answer as the fake cluster does. Garbage collection is not
in this repository: it may take whatever is not pinned or new during the rounds,
and anything after them. A node stores a batch record by record and forwards it after
the last: it may die, or break the pack off, with any part stored and nothing forwarded,
or with everything stored and forwarded and the reply lost (`PutLost`, `PutRefused`), and
an owner may refuse the forward for lack of space (`PutNoSpace`).

**Placement** holds rank, owners by zone, write set, read order and
`validate_change` as operators. The number that the 64-bit hash gives a node for a
key is a parameter of which nothing is assumed.

**WorkingCopy** is several copies of one reference against the catalog. A tree is
a set of items, a key names a tree or a commit, a put of the reference is a request
that may be executed late although its sender has moved on. Every command is cut
where it can die with something on disk or on the cluster: `got`, `fetched`,
`saved`, `applied`, `put`, `answered`.

**Pull** is what one pull does to a directory: scan, the merge as a set of
changes per path, and the applier one file-system step at a time, which may be
interrupted before any of them. Links and devices behave like files here; ignored
names, xattrs and owners are left out, and every edit has a new mtime.
**RacyWindow** drops that last assumption for one file: a clock, a file system that
stamps writes with the start of a granule, a user who writes while a push or a pull
runs, and the scan's shortcut over size and mtime.

**Lifecycle** is one directory and the commands that clone into it, init it or open
it, one system call per step. Files are found by path, but a lock belongs to the inode
it was taken on, so a `.dstore` that is removed and made again has two locks.

**Watch** is the generator with its rounds over ranked nodes, attempts, sessions
and pending events, and the node's stream: reconcile against what the client says
it knows, hints in any order or never and as many to a frame as were waiting, heartbeats.
A reconcile lists the catalog page by page with commits in between (`ReconcilePage`,
`ReconcileEnds`); which names share a page, and whether a batch is flushed before the end,
is left open. One frame that writes and deletes a name leaves the consumer with the wrong
one of the two; the history variable `crossed` has those names of the stream, and the
properties but the violated one except them until the stream is reopened.

**Ctx** is a tree of contexts: what is recorded, what is latched, and a look that reads
the clock before it resolves. **GoSort** and **LineDiff** are pure: pdqsort and the
stable merge sort over arrays from 0, with the lengths at which they change their ways
as parameters; the two-sided search with its label tables, `fix`, the edits and the
hunks, its sorts being GoSort's.

### How they fit together

Cluster rests on what Pool promises (an exchange answers or fails); Pool on a dial that
ends (IrohDial) and a stream that does not hang (PackStream over MemPipe). Fetcher, Push
and Watch take from Cluster that rankings and views may change at any moment and
that the view only moves forward. PullTree is composed with FetchPromise, and Fetcher is
shown to implement it. WorkingCopy takes from Push that an acknowledged
reference has its objects, and from PullTree that a pull of a tree ends with all of
it or an error; its own merge is abstract, and Pull is that merge in detail.

Five runs put components side by side that share no state: **Transport** (Pool, PackStream,
IrohDial), **Get** (Fetcher, Ctx), MCPullTree (PullTree, Fetcher), MCLocal and **Placing** (Push,
Placement) have a variable `part` that says which of them a behaviour is of, while the others
rest in a state of theirs. **Local** puts Pull, RacyWindow and Lifecycle side by side for
MCLocal and for the proofs, as MCGet is the instance of Get and MCPush of Placing. Placement
has no steps: there a behaviour is one of a set of views, with the numbers of their nodes for
a key. The properties are the components' own.

## Runs

| Run | Shows | Instance |
|---|---|---|
| `transport` | at most `per_peer` conns, no live conn forgotten; records arrive whole and in order and a clean end comes after all; a receiver of a whole pack never resets its sender; a failed dial had no way; every `get`, pack and dial ends | pool: 3 callers, 2 conns per peer, 3 dials, a closer; packs of up to 3 records of 0, 1 or 4 units in chunks of 3 through a buffer and a pipe of 2, so that each fills and splits records; a direct address and a relay, 1 move, 1 late announcement |
| `cluster` | the view never goes back; a request that ends in stale-view met a new epoch for each of its attempts; the client reaches a quiet cluster's epoch; refreshes die out | 2 nodes, a user and a refresh: the smallest with two replies of different age; the second view may be a restored cluster's (higher incarnation, lower epoch) |
| `fetcher` | every key in exactly one place; for a key whose read order stood still, missing means all owners were asked; contexts agree on why they ended | 2 keys, 2 owners, each near, far or in a backoff, 2 views (in the second a key has no owner), 1 worker, channels of 1 slot, so all of them fill up; 3 nested contexts, 2 cancels |
| `fetcher_missing` | **violation**, see below | 2 keys, 2 owners, 1 worker |
| `pull_tree` | the fetcher implements its promise; a pull of a tree that passes its gate has all of it and fetched each missing object once; a failed write fails the pull; the pull returns, unless an exchange hangs and nobody cancels | fetcher with 2 keys, 1 owner, 2 workers and channels of 1 slot; 4 objects with a shared child, any subset stored already, one object perhaps malformed, all channels of 1 |
| `push` | holders have held; the reference waits for the acknowledgements; neither one unsteady node nor two losses fail a push; placement spreads over zones, moves no more than it must and finds what the old view wrote | 2 objects at any subset of 3 owners, a transition to a fourth node, 2 faults of any kind; 3 nodes of weights 0 to 2, zones that may be shared or collide with an id, 1 or 2 replicas, transitions |
| `working_copy` | the state file names what its version named and what the packstore has; pushes without `--force` lose no work and no history; an interrupted push is recognised | 2 copies, 2 items, 3 pushes (a put, another copy's over it, a retry), 1 fault |
| `local` | local changes survive at every step of a pull; a pull that ends well is the three-way merge; it fails only at a read-only directory that goes away; no edit hides from the next scan; one command at a time, a clone is whole, a finished copy is never removed by a command started later; both sorts sort; a unified diff patches the old text into the new | 4 paths, 3 edits, 1 interrupted apply; a window of 2 ticks and granules of 2; 3 commands with 1 fault; arrays of up to 7; texts of up to 3 lines and the cases named in `lcs.rs`, at search limits 1, 2 and 50 |
| `pull_local`, `pull_force` | **violations** | the same paths |
| `watch` | the node's belief about its client is true, `synced` hides nothing, no event twice, the consumer catches up, a cancelled watch ends | 2 nodes, 3 commits (one before the watch), frames of up to 2 hints; 1 name with 2 keys, 2 faults and a cancel, or 2 names with 1 key and 1 fault whose listing takes 1 or 2 pages |
| `watch_batch` | **violation** | as `watch`, without faults |

Every bound is a named constant. Reliable steps are never bounded; the bounds are on
what happens *to* the system: faults, edits, view changes, commits, pushes, moves of a
node, ticks of a clock. Deadlock is checked where the system must go on (transport,
cluster, fetcher, pull_tree, local); push, working copies and watch end, by success,
failure or their bounds, and say so. A sort or a diff is one state: the run asks one
question of each input.

`PutAttempts` is 2 in the push run where the code has 4: attempts after the first
differ only in how many are left. The sorts run with thresholds of 1 to 6 where the code
has 5 to 50, so that arrays of seven take every path, heapsort and the ninther included;
LineDiff uses the code's. Symmetry is used for keys, copies, items
and nodes that the instance does not tell apart, in runs without liveness properties.
The type invariant of a module is a conjunct of one of its run's properties, or, for
Pool, Fetcher and WorkingCopy, a theorem.

## Fairness

* Pool: a task holding the dial lock goes on and a dial ends; every caller's ctx has
  a timeout. Nothing is assumed of closes, drops or failing conns.
* PackStream: the two tasks run when they are awake; a task that sleeps needs its waker.
* IrohDial: a connect is capped at its phase and a lookup at its timeout.
* Cluster: tasks run, nodes learn the newest view (they gossip), the user keeps
  making requests. Faults and view changes are bounded, so the cluster is quiet in
  the end; `EpochCatchesUp` and `RefreshesEnd` are about that.
* Fetcher: tasks run, the opening of a stream ends (it has a timeout), and an open
  exchange goes on, ends or breaks, or is one that stalls. The exchange has no timeout
  (`client/src/fetch.rs:422`) and a keep-alive holds its connection: a worker in a stalled
  one stays there until the fetch is stopped. The caller receives until it stops the
  fetch and not necessarily after. Nothing is assumed of the feeder.
* PullTree: the walk's task and the writer's run and a write to the store ends; of the
  fetcher, exactly the fairness in FetchPromise, which the same run shows the fetcher has. Nothing
  ends an exchange that hangs but a cancel, so `PullReturns` excepts a pull that is left
  hanging in one for good.
* Watch: the generator and the node's reconcile ticker are weakly fair. A stream that
  stops on a cancelled ctx is strongly fair: `select!` picks at random among its
  ready branches, so it cannot ignore one that is ready again and again. No hint is
  owed.

Push, Pull, WorkingCopy, Lifecycle, Ctx and RacyWindow are checked for safety only.

## What the runs found

* `fetcher_missing` (`client/src/fetch.rs:308`): a key's position in its read order
  is kept while penalties, paths and round-trip times reorder it, so an owner can be
  skipped: a key is reported missing although the owner that holds it was never asked.
  A failing owner does it, and so does a connection that turns out to be slow.
* `pull_local` (`worktree/src/merge.rs:64`): adding a file to a directory changes the
  directory's mtime, and a metadata-only local change lets every incoming change of
  that path through. When the cluster replaced the directory by a file, the local
  additions are deleted without `--force`.
* `pull_force` (`worktree/src/apply.rs:83`): a forced pull of a mode or metadata
  change over a local edit keeps the local content, and later scans may not see it.
* `watch_batch` (`testkit/src/fake.rs:2951`, `client/src/watch.rs:386`): a deletion and
  a new write of one name in the same frame are applied in the wrong order, and the
  heartbeat that promises the current state goes on.

Seen while modelling, with no run of their own; where a property has to make an
exception for one of these, its comment says so:

* Callers queued behind a failing dial dial again one after the other; the 2 s window
  of `transport/src/pool.rs:11` only refuses those that arrive after the failure.
* A stale mDNS announcement is answered from the cache without a new query, for good
  once the listener has stopped; and the first service that answers is the one that is
  dialled, even if another knows a live address.
* A node that stops in the middle of an answer and keeps its connection alive holds a
  fetch worker, and in the end the pull, until it is cancelled (`client/src/fetch.rs:422`).
* A fetch worker passes on every record of an answer whose hash is right
  (`client/src/fetch.rs:459`), whether or not its key was asked for; the models' nodes
  answer with records they were asked for, each at most once.
* An object its primary has, but too few owners, is not sent again within a round, and
  the direct fill happens once, after the second round (`client/src/tree.rs:244`);
  moreover each negotiation replaces what was known, the fill's acknowledgements
  included. `OneNodeMayFlap` therefore speaks of objects that were at all their owners
  or nowhere. Objects lost after the rounds are found at the completeness gate, and each
  such loss takes one of the three attempts at the reference: `ReapedIsResent` allows two.
* A stale view is retried at the same primary, which may own the object no longer
  (`client/src/objects.rs:387`); the record is then sent in the next round.
* An answer "held everywhere" is read with the view of the moment it is handled
  (`client/src/objects.rs:325`); when the view has changed since the node looked, the
  holders are a guess (`raced` in Push). The completeness gate catches it.
* `validate_change` lets every owner of a key go at once when there are fewer weighted
  nodes than replicas.
* A pull scans before it writes: an edit made between the scan and the apply of that
  path is overwritten (`worktree/src/flow.rs:235`).
* A pull that dies after its deletions (`worktree/src/flow.rs:253`) leaves base where it
  was; if the cluster brings the items back before the next pull, that pull is up to date
  and the next push deletes them for everyone. `NoUpdateLost` counts such items as
  dropped by the copy.
* `synced_at` is the end of a push or pull. An edit in the same mtime granule as the
  ingest of its file is hidden from later scans when the command then takes the racy
  window or longer. `diff --remote` scans with the present as `synced_at`
  (`cli/src/cmd_wc.rs:869`) and may hide an edit that `diff` shows.
* `same_push` compares tree and parents and not the message (`worktree/src/flow.rs:430`).
* A read-only directory that is removed or replaced makes the apply fail at the end
  (`worktree/src/apply.rs:147`), with everything else applied.
* Two clones into one directory that is not there may both count as its creator
  (`worktree/src/flow.rs:498`): the one that loses the lock removes the directory, the
  winner's files with it. `CopyKept` excuses commands that were running already
  (`early`).
* A failed clone or init lets go of the lock before it removes `.dstore`
  (`worktree/src/flow.rs:572`); whoever takes the lock in between works in a directory
  that is going away. `CopyIsSound` excuses such a robbed process. An error inside
  `Tree::create` leaves `.dstore` behind although the doc of `init` says it is removed.
* A look at a context that read the clock before the deadline and is delayed may latch a
  cancel made after the deadline, against the promise at `gocompat/src/ctx.rs:22`;
  `ContextsAgree` excuses the nodes so latched (`stale`).

## Proofs

The proofs hold for every value of the constants that the stated assumptions allow: any
number of callers, conns, nodes, keys, workers, objects, copies, commands and faults, and
any sizes of channels, batches and buffers. Each invariant was first checked by TLC on the
instance of its run. Every proof has the same plan: the inductive invariant, one lemma per
action or group of actions, then the theorems.

**TransportProofs.** *Pool* assumes `PoolAssumption` (`per_peer` is at least 1, as `max(1)`
makes it; the closer is not a caller). `AtMostPerPeer` is not inductive: a dial that ends
adds a conn without looking. The invariant adds that whoever dials holds the dial lock
(`DialerHoldsLock`) and that the room it found is still there (`DialerHasRoom`), since
nobody else can add; that conns are numbered as they are pushed; and that a caller has
conns left to close only inside `drop_peer`. Theorems: `TypeCorrect`, `BoundedPool`,
`NothingLeaks`. *IrohDial*, without assumptions: behind the phases over the given addresses
an undisturbed dial has tried them all (`GivenTried`), behind a lookup also the hint
(`HintTried`), and the mDNS listener still runs (`Listening`); then `DialFailedHadNoWay`.
*PackStream* assumes `StreamAssumption`, the types of the sizes (a chunk has at least one
unit). Nothing follows a unit that closes the pack, in the writes, the pipe or the frame
(`ClosesLast`), and a reader that saw the end is through with everything
(`EndedIsThrough`); then `StreamNoReset`.

That a clean end means that the whole pack has come, in order, is about all that was ever
sent, and the model, like the code, keeps no history. So the invariant `PackInv` says that
there is one: the pack as a stream of units (`Layout`), and the log of all that was written
on the wire, frame after frame with the next units of the pack (`Log`). Everything the two
ends hold are pieces of these: the sender's buffers what the log does not have yet
(`Sending`), its pending writes and the pipe the end of the log (`Laid`), the reader's frame
what it has read of the next frame and its chunk the units it has not parsed (`Reading`).
Each step then extends the log or moves a boundary in it. That a layout exists, and the
frames into which `chunk_write` cuts a buffer, are inductions by the least counterexample
(see WatchProofs). Theorem: `StreamCleanEndMeansAll`, from `StreamAssumption` alone.

**ClusterProofs**, on `Cluster`'s own assumptions. Every view about was issued by the cluster and one of them is
the newest (`Views`); each attempt of a request has seen one epoch more than the attempt
before (`Climbs`), because a stale-view error carries the view that the next attempt is
stamped with. Theorems: `ClusterViewNeverGoesBack`, `ClusterStaleNeedsChurn`.

**FetcherProofs** assumes `FetcherAssumption` (finitely many keys and workers, at least one
worker, channels and batches of at least one slot). That a key is in one place says little
about the next step, so the invariant is `Placed`: a function `spot` tells of every key
where it is, and nothing is anywhere else; a step moves one key's, or one batch's, spots.
With it, batches are counted (`Counted`), workers have a batch exactly while they are busy
(`Working`), the tasks know when the others are through (`Phases`), and a key's attempt
counts the owners it was asked of while its own read order stands still (`Asked`); which
scores there are, beyond that one is a backoff's and that clearing a penalty gives one, is
not assumed. Theorems:
`FetcherTypeOK`, `FetcherOnePlace`, `FetcherMissingMeansAllAsked`, and
`FetcherImplementsPromise`: every step is a step of FetchPromise or a stutter, which is
`FetchPromised` without its fairness.

*Ctx*, in the same module, assumes `PathAssumption`: contexts are a tree with one root, of
any size and depth. A look latches a whole path at once, each node from the one above it, so
`FirstEventSays` first tells what that recursion computes: whoever is newly latched has on
its path something that ended it, and says what its parent says unless its own cancel or
deadline was earlier. The recursion is a function over places on the path; that it has a
solution, and what holds at each place, come from the least place where it would not
(`EventsThere`, `EventsSay`). The invariant `CtxInv` then says why a node may be latched
(`Touched`: its deadline has passed, its token is cancelled, or a cancel is under way above
it), that whoever has a cancelled token has a cause to find on its path, and, until a
stale look, that a node and a parent with the same deadline agree (`Agrees`); a parent latched
alone must hold something the deadline they share will not displace later. Theorem:
`GetContextsAgree`.

**PullTreeProofs** assumes `IsTree` (finitely many objects, among them the root and all
children; sharing is allowed). `pending` counts the keys queued, asked for and in hand
(`Waited`); the children of whatever the walk is through with are seen or still to do, or
their subtree was complete (`Walked`); what came is stored or on its way while there was
no error (`Kept`); an error is in its slot or returned (`Errors`). Below the root is the
least set closed under children, so once nothing is waited for, `seen` covers it. Theorems:
`PullTreeGateHolds`, `PullTreeFailedWriteFails`.

**PushProofs** assumes `PushAssumption`. What a node stores it has held (`Recorded`), and
so have all whom an answer, a round or a put names, unless an answer was read under another
view than it was given (`Truthful`); the direct fill is not in the last round. Theorems:
`PushHoldersHaveHeld`, `PushAckedBeforeRef`, both for pushes without such an answer (`raced`).
That a push does not fail takes two assumptions more: for each object the owners other than
Flaky are enough (`OthersSuffice`), and there are three rounds, as in the code. While the view stands still and nobody refuses (`Quiet`), a
negotiation tries every owner but Flaky before it gives up, and a put that went to one of
the others reached them all (`QuietInv`). With flaps only, an object that is anywhere is
at Flaky alone, which died before it forwarded it, or at all the others; who asks is told
which (`Named`), with two replicas Flaky alone is short, and once the direct fill is past
the object is known to be at all the others (`Spread`, `FlapInv`): `PushOneNodeMayFlap`, for
any number of flaps, from `MinReplicas >= 2` (with one replica what Flaky alone has is
acknowledged, and is gone when Flaky is). With losses only, whoever is counted as
a holder is one until something is reaped (`Sound`), the rounds end with every object placed
(`Filled`), and every loss since has had its renegotiation (`Intact`, `ResentInv`):
`PushReapedIsResent`.

*Placement*, in the same module: of the nodes with a weight, `Chosen` are the r highest
among the best of each zone, for any order of the nodes. What happens when one node leaves,
is drained or gains weight are facts about two such orders that differ in that node only
(`ChosenWithout`, `ChosenRises`, `RiseDisplacesAtMostOne`). Then the code is led to it:
`rank_order` is a strict order where the weights are positive, L = 0 and ties included
(`ScoreOrders`); a rank exists, which numbers every node by how many are higher (`RankIs`);
and to go down the rank and take one node per zone takes the chosen ones and nobody else
(`TakesChosen`, `OwnersAreChosen`). Theorem: `PushPlacedRight`, for any number of
nodes, weights, zones and replicas and any numbers the hash gives. Its one assumption,
`SamplesAssumption`, is that no two nodes of a view have the same id: with two of one id in
different zones they may both be owners, and the key has one replica less than it seems.

**WorkingCopyProofs** assumes `NobodyAssumption` only. Its `IInv` says that every entry
of the catalog, and every answer a command carries, names what the history has at its
version (`EntriesName`); that a copy without a remote expects a new name (`NoVersion`);
that a directory holds its base but for what was dropped in it (`Kept`); that every put
in flight, also one nobody waits for, drops only what its copy dropped from the version
it expects and has that version's commit as parent (`PutsSound`); and that what a copy
ever asked to put, or is about to write to its state, is in its packstore (`PutsOwned`,
`CommandHolds`). The compare-and-set of the catalog then gives the action properties:
the entry replaced *is* the version expected. Theorems: `TypeCorrect`, `StateIsTrue`,
`StateIsStored`, `PushRecovers`, `PushesLoseNothing`, `BranchesKeepHistory`.

**LocalProofs**, in three parts. *Lifecycle*, for any natural `MaxFaults`: a command has the lock file open
from `OpenLock` to the end of its work (`LockFiles`); unless `.dstore` was removed under
one of them all have the same one open, and what they found under the lock still holds
(`Sound`); a command that was not running when the copy was finished does not come to
remove it (`Late`). Theorems: `LifecycleCopyIsSound`, `LifecycleCopyKept`. *RacyWindow*, for
every window and every granule of at least one tick: a file the user wrote carries an mtime
of less than a granule ago (`StampIsRecent`); then `RacyEditsAreRead`. Together with Pull's
`ScanMissesNothing` it gives `ScansReadEdits`, the run's `EditsAreRead`.

*Pull*, for any set of paths closed under parents, any contents, first trees, edits
and crashes (`PullAssumption`, `FirstAssumption`), and for pulls without `--force`: a forced
pull can leave a local edit under the cluster's mtime (the finding of pull_force), after
which a scan misses it and what follows is promised to nobody. A pull is many file-system
steps, each of which changes one path, its parent's mtime and, where a directory becomes a
file, everything below; so the invariant is stated path by path. Between pulls it says that
files of one time that were not written here have one content (`DatedAt`), which is what the
scan's shortcut needs. During a pull, what is still to be applied comes from the diff of base
and the cluster's tree and was not in conflict (`Planned`), and for every path: what has been
applied is the cluster's (`FileDoneAt`, `DirDoneAt`, `DeletedAt`), what nobody changed is as
it was (`SameAt`), a change of metadata still finds the content it is for (`MetaAt`),
the parents of what is to come are directories or will be (`DirAt`, `FoundAt`), and only what
was read-only is opened for the time of the apply (`ReadOnlyAt`). Four lemmas on the merge
tell what the verdict "apply" says of the three trees, at the path (`AppliedChange`), above it
(`AppliedAbove`), below a replaced directory (`AppliedOverDir`) and of deletions
(`AppliedDeletion`); each step is then shown to keep the invariant at its own path, at
its parent and elsewhere. Theorems: `PullInvariant`, `PullKeepsChanges`, `PullMerges`,
`PullFailsOnlyAtReadOnly`, `ScanMissesNothing`.

**WatchProofs** assumes `WatchAssumption` (finitely many names; the bounds are numbers).
`SyncedIsCurrent` is about the first synced event of a session, so the invariant `WatchInv`
says what there is before it: a name a page has shown is believed to be what it was then, one
its page did not show was not there then (`FirstListing`); exactly what the first reconcile
of the stream sent is on its way, frames of changes, if any, and the synced frame, and reading
them takes the consumer, name by name, to something the catalog held since the stream was
opened (`FirstSync`); what the node then adds comes behind. `Session` says what the two sides
of a stream have before, at and after its beginning.

`BeliefHolds` is a fold over the events on their way, and its proof an induction over data.
The prover cannot instantiate the library's induction theorems, but a set of numbers has a
least element, and the look at the least counterexample (`Least`, `Induction`) gives, from
the definitions of `FoldLeft` and `FlattenSeq`, what they compute step by step. `FoldIsLastWord`
then replaces the fold by the last word about each name (`LastWord`), and with it goes that
every event about the name will be news when its turn comes: together `Leads`, which appending
events (`LeadsConcat`) and taking one (`LeadsTail`) follow. `Belief`, the last conjunct of
`WatchInv`, says that what is on its way leads from what the consumer holds to what the node
believes. A page queues what it changes (`PageSends`), and however many hints are drained, the
references of the batch lead to the belief about each name it does not delete and the deletions
about each it does not write (`Truthful`, `ApplyHintTruthful`, `HintsSend`). A name with both
is the exception (`crossed`): the frame lists references before deletions, and their order is
lost, which is the finding of watch_batch. Theorems: `WatchInvariant`, `WatchSyncedIsCurrent`,
without exception; `WatchBeliefHolds`, `WatchEventsAreNews`, for the other names.

Only model-checked:

* all liveness (`CallsReturn`, `EpochCatchesUp`, `RefreshesEnd`, `PullReturns`, what Watch
  owes its consumer) and the fair form of `FetchPromised`: they need fairness and ENABLED,
  which the prover does not have;
* `SortsRight` and `DiffsPatch`: GoSort and LineDiff are recursive operators, which the
  prover cannot reason about.

## Not modelled

* Encodings (CBOR codec, messages, tickets, addresses, mDNS packets), Go-compatible
  number and error formatting with its tables, argument parsing, progress output: pure
  functions over bytes and text with golden vectors of their own in the repository. They
  are most of its lines, together with the tests kept inside the source files; a model of
  them would repeat them and not abstract from them.
* The command line: it calls the operations modelled here one after the other and prints.
* The hash of placement: 64-bit arithmetic, replaced by any numbers.
* Iroh itself, the file system beyond the calls used, garbage collection on the nodes:
  external, modelled from their use.
* Faults of the fake cluster's own (delays, partitions, admin, status).
* Power failures (renames are not followed by fsync): crashes are those of processes.
* Time is abstract: except in Ctx and RacyWindow a timeout may fire at any moment.

## Plan

Done: Pool, Cluster, FetchPromise, Fetcher, PullTree, Pull, RacyWindow, WorkingCopy,
Lifecycle, Watch, Push, Placement, MemPipe, PackStream, IrohDial, Ctx, GoSort and LineDiff,
and the proofs above. Next, in this order:

1. An atomic compare-and-set register as the abstract specification of WorkingCopy's
   pushes, and a bounded pool for Pool.
2. Dialling and partitions within the in-memory network; the adapter of iroh streams.
