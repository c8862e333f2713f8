------------------------------- MODULE Fetcher -------------------------------
(***************************************************************************)
(* The fetcher behind Cluster::get and Cluster::pull_tree                  *)
(* (crates/client/src/fetch.rs): a feeder, the dispatcher, `jobs` workers  *)
(* and the bounded channels between them.                                  *)
(*                                                                         *)
(* Record sizes only decide how many keys a batch takes and which          *)
(* accumulator goes first, so a batch here is any non-empty choice of at   *)
(* most BatchKeys keys queued at one owner.  Channels are sets: a key is   *)
(* in at most one of them and their order decides nothing else.            *)
(***************************************************************************)
EXTENDS Naturals, Sequences, FiniteSets

CONSTANTS
    Keys,       \* the distinct keys handed to the fetcher
    Owners,     \* nodes
    BaseOrder,  \* placement read order: view number -> key -> sequence of owners
    Replicas,   \* view number -> its replicas
    Scores,     \* what an owner can be ranked by, see Ahead
    Holds,      \* key -> the owners that hold a copy that passes verify_record
    Workers,    \* the `jobs` worker tasks
    InputCap, RetryCap, ResultsCap, \* INPUT_CAP, RETRY_CAP, RESULTS_CAP
    BatchKeys   \* GET_BATCH_KEYS

Views == DOMAIN BaseOrder
Jobs == Cardinality(Workers)

ASSUME FetcherAssumption ==
    /\ IsFiniteSet(Keys) /\ "none" \notin Keys
    /\ IsFiniteSet(Workers) /\ Workers # {}
    /\ BaseOrder \in Seq([Keys -> Seq(Owners)]) /\ Len(BaseOrder) > 0
    /\ Replicas \in [Views -> Nat]
    /\ Scores \subseteq 0..31 /\ \A s \in Scores : s % 8 \in Scores
    /\ \E s \in Scores : s >= 16
    /\ Holds \in [Keys -> SUBSET Owners]
    /\ InputCap \in Nat \ {0} /\ RetryCap \in Nat \ {0} /\ ResultsCap \in Nat \ {0}
    /\ BatchKeys \in Nat \ {0}

FetchKey == [key : Keys, attempt : Nat]
Fetched == [key : Keys, found : BOOLEAN]
Batch == [node : Owners, keys : SUBSET FetchKey]
NoJob == [node |-> "none", keys |-> {}]
None == [key |-> "none", attempt |-> 0]

VARIABLES
    unfed,      \* keys the feeder has still to add
    inputClosed,\* the feeder has dropped the input channel's sender
    input,      \* the input channel
    inOpen,     \* the dispatcher has not seen the input closed
    routing,    \* the key `route` is working on
    acc,        \* keys queued per owner
    inflight,   \* batches dispatched and not reported done
    refreshed,  \* the fetcher's one view refresh is used up
    disp,       \* where the dispatcher is
    jobq,       \* the job channel (one slot)
    retry,      \* the retry channel
    doneq,      \* reports in the job_done channel
    wpc, job, got, \* of each worker: where it is, its batch, the keys it emitted
    out,        \* the results channel
    delivered,  \* outcomes the consumer has received
    cancelled,  \* the fetch's ctx has ended
    view,       \* number of the client's current view
    score,      \* what rank_owners sorts each owner by
    moved,      \* history: keys whose read order changed since the fetch began
    asked       \* history: owners each key was asked of

dispVars == <<inOpen, routing, acc, inflight, refreshed, disp>>
workVars == <<wpc, job, got>>
chanVars == <<input, jobq, retry, doneq, out>>
envVars == <<unfed, inputClosed, delivered, cancelled, view, score, asked, moved>>
vars == <<dispVars, workVars, chanVars, envVars>>

InitAt(at, ranks) ==
    /\ unfed = Keys
    /\ inputClosed = FALSE
    /\ input = {}
    /\ inOpen = TRUE
    /\ routing = None
    /\ acc = [o \in Owners |-> {}]
    /\ inflight = 0
    /\ refreshed = FALSE
    /\ disp = at
    /\ jobq = {}
    /\ retry = {}
    /\ doneq = 0
    /\ wpc = [w \in Workers |-> "idle"]
    /\ job = [w \in Workers |-> NoJob]
    /\ got = [w \in Workers |-> {}]
    /\ out = {}
    /\ delivered = {}
    /\ cancelled = FALSE
    /\ view = 1
    /\ score = ranks
    /\ asked = [k \in Keys |-> {}]
    /\ moved = {}

\* Earlier requests of the client may have left any ranking.
Init == \E ranks \in [Owners -> Scores] : InitAt("input", ranks)

\* A fetcher that was just started and has seen that its channels are empty.
Waiting == InitAt("select", [o \in Owners |-> 0])

(***************************************************************************)
(* read_order: the placement's order, the first R of it stably sorted by   *)
(* rank_owners, told by who comes before whom.  The sort goes by penalty   *)
(* (2 for a backoff, 1 for an unreachable hint), then by the path of the   *)
(* live connection: relayed or not, and the RTT class from 0 to 3; no      *)
(* connection counts as direct and near.  The three are one number,        *)
(* 8 * penalty + 4 * relayed + class.                                      *)
(***************************************************************************)
OwnersOf(k) == BaseOrder[view][k]

Ahead(k, i) ==
    LET owner == OwnersOf(k)
        R == Replicas[view]
        first(j) == IF j > R \/ i > R \/ score[owner[j]] = score[owner[i]]
                    THEN j < i ELSE score[owner[j]] < score[owner[i]]
    IN {j \in DOMAIN owner : first(j)}

\* The owner with n others ahead of it.
ReadOrder(k, n) ==
    {OwnersOf(k)[i] : i \in {j \in DOMAIN OwnersOf(k) : Cardinality(Ahead(k, j)) = n}}

\* The read order as a whole: the owners and their ranking.
Order(k) == <<OwnersOf(k), [i \in DOMAIN OwnersOf(k) |-> Ahead(k, i)]>>

\* History, in every step that changes the view or a score.
Watched == moved' = moved \cup {k \in Keys : Order(k)' # Order(k)}

-----------------------------------------------------------------------------
\* add_key: the feeder task hands over one key, and drops the sender at the end.
AddKey ==
    /\ ~inputClosed
    /\ Cardinality(input) < InputCap
    /\ \E k \in unfed :
        /\ unfed' = unfed \ {k}
        /\ input' = input \cup {k}
    /\ UNCHANGED <<dispVars, workVars, jobq, retry, doneq, out,
                   inputClosed, delivered, cancelled, view, score, asked, moved>>

\* The feeder is through, or gave up when the fetch was stopped, and drops the
\* sender (pull_tree does so only once it has every outcome).
CloseInput ==
    /\ ~inputClosed
    /\ unfed = {} \/ cancelled
    /\ inputClosed' = TRUE
    /\ UNCHANGED <<dispVars, workVars, chanVars,
                   unfed, delivered, cancelled, view, score, asked, moved>>

-----------------------------------------------------------------------------
(***************************************************************************)
(* Dispatcher.  `route` runs between taking a key and going on: while      *)
(* routing is not None nothing else of the dispatcher happens.             *)
(***************************************************************************)
TakeInput(at, k) ==
    /\ disp = at
    /\ routing = None
    /\ inOpen
    /\ k \in input
    /\ input' = input \ {k}
    /\ routing' = [key |-> k, attempt |-> 0]
    /\ UNCHANGED <<inOpen, acc, inflight, refreshed, jobq, retry, doneq, out, workVars, envVars>>

TakeRetry(at, r) ==
    /\ disp = at
    /\ routing = None
    /\ r \in retry
    /\ retry' = retry \ {r}
    /\ routing' = r
    /\ UNCHANGED <<inOpen, acc, inflight, refreshed, input, jobq, doneq, out, workVars, envVars>>

\* while in_open { input.try_recv() }
DrainInput == (\E k \in Keys : TakeInput("input", k)) /\ UNCHANGED disp

InputDrained ==
    /\ disp = "input"
    /\ routing = None
    /\ input = {} \/ ~inOpen
    /\ inOpen' = (inOpen /\ ~inputClosed)
    /\ disp' = "retry"
    /\ UNCHANGED <<routing, acc, inflight, refreshed, chanVars, workVars, envVars>>

\* while let Ok(r) = retry.try_recv()
DrainRetry == (\E r \in retry : TakeRetry("retry", r)) /\ UNCHANGED disp

RetryDrained ==
    /\ disp = "retry"
    /\ routing = None
    /\ retry = {}
    /\ disp' = "dispatch"
    /\ UNCHANGED <<inOpen, routing, acc, inflight, refreshed, chanVars, workVars, envVars>>

\* Past the end of the read order the view is refreshed, once per fetcher, and
\* the key starts over.  The refresh may fail or bring another view; the nodes
\* it asks are penalised or cleared, and the reply replaces the hints.
RouteRefresh ==
    /\ routing # None
    /\ routing.attempt >= Len(OwnersOf(routing.key))
    /\ ~refreshed
    /\ refreshed' = TRUE
    /\ routing' = [routing EXCEPT !.attempt = 0]
    /\ \E v \in {w \in Views : w >= view} : view' = v
    /\ score' \in [Owners -> Scores]
    /\ UNCHANGED <<inOpen, acc, inflight, disp, chanVars, workVars,
                   unfed, inputClosed, delivered, cancelled, asked>>
    /\ Watched

\* No owner left: a missing outcome, once the results channel has room.
\* Mutant: the key is dropped when the channel is full.
RouteMissingTrySend ==
    /\ routing # None
    /\ routing.attempt >= Len(OwnersOf(routing.key))
    /\ refreshed
    /\ out' = IF Cardinality(out) < ResultsCap
              THEN out \cup {[key |-> routing.key, found |-> FALSE]} ELSE out
    /\ routing' = None
    /\ UNCHANGED <<inOpen, acc, inflight, refreshed, disp, input, jobq, retry, doneq, workVars, envVars>>

RouteMissing ==
    /\ routing # None
    /\ routing.attempt >= Len(OwnersOf(routing.key))
    /\ refreshed
    /\ Cardinality(out) < ResultsCap
    /\ out' = out \cup {[key |-> routing.key, found |-> FALSE]}
    /\ routing' = None
    /\ UNCHANGED <<inOpen, acc, inflight, refreshed, disp, input, jobq, retry, doneq, workVars, envVars>>

\* Mutant: the attempt indexes the order from 1, so the first owner is skipped.
RouteQueueOffByOne ==
    /\ routing # None
    /\ routing.attempt < Len(OwnersOf(routing.key))
    /\ LET last == Len(OwnersOf(routing.key)) - 1
           n == IF routing.attempt < last THEN routing.attempt + 1 ELSE last IN
       \E o \in ReadOrder(routing.key, n) : acc' = [acc EXCEPT ![o] = @ \cup {routing}]
    /\ routing' = None
    /\ UNCHANGED <<inOpen, inflight, refreshed, disp, chanVars, workVars, envVars>>

RouteQueue ==
    /\ routing # None
    /\ routing.attempt < Len(OwnersOf(routing.key))
    /\ \E o \in ReadOrder(routing.key, routing.attempt) :
        acc' = [acc EXCEPT ![o] = @ \cup {routing}]
    /\ routing' = None
    /\ UNCHANGED <<inOpen, inflight, refreshed, disp, chanVars, workVars, envVars>>

\* pick_batch and the send on the job channel.
Dispatch ==
    /\ disp = "dispatch"
    /\ inflight < Jobs
    /\ jobq = {}
    /\ \E o \in Owners : \E ks \in SUBSET acc[o] :
        /\ ks # {} /\ Cardinality(ks) <= BatchKeys
        /\ jobq' = {[node |-> o, keys |-> ks]}
        /\ acc' = [acc EXCEPT ![o] = @ \ ks]
    /\ inflight' = inflight + 1
    /\ UNCHANGED <<inOpen, routing, refreshed, disp, input, retry, doneq, out, workVars, envVars>>

Idle == ~inOpen /\ inflight = 0 /\ \A o \in Owners : acc[o] = {}

\* Nothing (more) to dispatch: the loop is over, or waits in its select.
Dispatched ==
    /\ disp = "dispatch"
    /\ inflight = Jobs \/ \A o \in Owners : acc[o] = {}
    /\ disp' = IF Idle THEN "over" ELSE "select"
    /\ UNCHANGED <<inOpen, routing, acc, inflight, refreshed, chanVars, workVars, envVars>>

SelectInput == (\E k \in Keys : TakeInput("select", k)) /\ disp' = "input"

SelectInputClosed ==
    /\ disp = "select"
    /\ inOpen /\ input = {} /\ inputClosed
    /\ inOpen' = FALSE
    /\ disp' = "input"
    /\ UNCHANGED <<routing, acc, inflight, refreshed, chanVars, workVars, envVars>>

SelectRetry == (\E r \in retry : TakeRetry("select", r)) /\ disp' = "input"

SelectDone ==
    /\ disp = "select"
    /\ doneq > 0
    /\ doneq' = doneq - 1
    /\ inflight' = inflight - 1
    /\ disp' = "input"
    /\ UNCHANGED <<inOpen, routing, acc, refreshed, input, jobq, retry, out, workVars, envVars>>

\* Mutant: the send of a missing outcome does not watch the ctx.
DispatcherStopsNotInRoute ==
    /\ cancelled
    /\ routing = None /\ disp \in {"dispatch", "select"}
    /\ disp' = "over"
    /\ UNCHANGED <<inOpen, routing, acc, inflight, refreshed, chanVars, workVars, envVars>>

\* ctx.done() wherever the dispatcher waits; a missing outcome is given up.
DispatcherStops ==
    /\ cancelled
    /\ disp # "over"
    /\ \/ routing = None /\ disp \in {"dispatch", "select"} /\ disp' = "over" /\ UNCHANGED routing
       \/ routing # None /\ routing' = None /\ UNCHANGED disp
    /\ UNCHANGED <<inOpen, acc, inflight, refreshed, chanVars, workVars, envVars>>

-----------------------------------------------------------------------------
(***************************************************************************)
(* Workers.                                                                *)
(***************************************************************************)
Unanswered(w) == {fk \in job[w].keys : fk.key \notin got[w]}

TakeJob(w) ==
    /\ wpc[w] = "idle"
    /\ \E j \in jobq :
        /\ jobq' = jobq \ {j}
        /\ job' = [job EXCEPT ![w] = j]
        /\ asked' = [k \in Keys |-> IF ~cancelled /\ \E fk \in j.keys : fk.key = k
                                    THEN asked[k] \cup {j.node} ELSE asked[k]]
    /\ wpc' = [wpc EXCEPT ![w] = IF cancelled THEN "report" ELSE "stream"]
    /\ UNCHANGED <<dispVars, got, input, retry, doneq, out,
                   unfed, inputClosed, delivered, cancelled, view, score, moved>>

\* get_stream: the stream cannot be opened or the absent list not read; the
\* owner gets a backoff (handle_err) ...
OpenFails(w) ==
    /\ wpc[w] = "stream"
    /\ got[w] = {}
    /\ \E s \in {t \in Scores : t >= 16} : score' = [score EXCEPT ![job[w].node] = s]
    /\ wpc' = [wpc EXCEPT ![w] = "retry"]
    /\ UNCHANGED <<dispVars, chanVars, job, got, unfed, inputClosed, delivered, cancelled, view, asked>>
    /\ Watched

\* ... a verified record is emitted, once the results channel has room ...
EmitRecord(w) ==
    /\ wpc[w] = "stream"
    /\ Cardinality(out) < ResultsCap
    /\ \E fk \in Unanswered(w) :
        /\ job[w].node \in Holds[fk.key]
        /\ got' = [got EXCEPT ![w] = @ \cup {fk.key}]
        /\ out' = out \cup {[key |-> fk.key, found |-> TRUE]}
    /\ UNCHANGED <<dispVars, wpc, job, input, jobq, retry, doneq, envVars>>

\* ... the stream breaks, or the node answers with an error: no penalty ...
StreamBreaks(w) ==
    /\ wpc[w] = "stream"
    /\ wpc' = [wpc EXCEPT ![w] = "retry"]
    /\ UNCHANGED <<dispVars, chanVars, job, got, envVars>>

\* ... or ends after every record the owner has: ok clears the penalty.
StreamEnds(w) ==
    /\ wpc[w] = "stream"
    /\ \A fk \in Unanswered(w) : job[w].node \notin Holds[fk.key]
    /\ score' = [score EXCEPT ![job[w].node] = @ % 8]
    /\ wpc' = [wpc EXCEPT ![w] = "retry"]
    /\ UNCHANGED <<dispVars, chanVars, job, got, unfed, inputClosed, delivered, cancelled, view, asked>>
    /\ Watched

\* Or nothing more comes of it, ever: only the open has a timeout, and the
\* connection is kept alive.
StreamStalls(w) ==
    /\ wpc[w] = "stream"
    /\ wpc' = [wpc EXCEPT ![w] = "stalled"]
    /\ UNCHANGED <<dispVars, chanVars, job, got, envVars>>

\* A key the owner did not return goes back for the next owner.
SendRetry(w) ==
    /\ wpc[w] = "retry"
    /\ Cardinality(retry) < RetryCap
    /\ \E fk \in Unanswered(w) :
        /\ retry' = retry \cup {[fk EXCEPT !.attempt = @ + 1]}
        /\ job' = [job EXCEPT ![w].keys = @ \ {fk}]
    /\ UNCHANGED <<dispVars, wpc, got, input, jobq, doneq, out, envVars>>

ReportDone(w) ==
    /\ wpc[w] = "report" \/ (wpc[w] = "retry" /\ Unanswered(w) = {})
    /\ doneq < Jobs
    /\ doneq' = doneq + 1
    /\ wpc' = [wpc EXCEPT ![w] = "idle"]
    /\ job' = [job EXCEPT ![w] = NoJob]
    /\ got' = [got EXCEPT ![w] = {}]
    /\ UNCHANGED <<dispVars, input, jobq, retry, out, envVars>>

\* The fetch was stopped: ctx.run drops the exchange, the sends give up.
WorkerStops(w) ==
    /\ cancelled
    /\ wpc[w] \in {"stream", "stalled", "retry"}
    /\ wpc' = [wpc EXCEPT ![w] = "report"]
    /\ UNCHANGED <<dispVars, chanVars, job, got, envVars>>

\* Dispatcher::run closed the job channel, and it is empty.
WorkerExits(w) ==
    /\ wpc[w] = "idle"
    /\ disp = "over" /\ jobq = {}
    /\ wpc' = [wpc EXCEPT ![w] = "exited"]
    /\ UNCHANGED <<dispVars, chanVars, job, got, envVars>>

-----------------------------------------------------------------------------
\* Fetcher::recv by the caller.
Receive ==
    /\ \E f \in out :
        /\ out' = out \ {f}
        /\ delivered' = delivered \cup {f}
    /\ UNCHANGED <<dispVars, workVars, input, jobq, retry, doneq,
                   unfed, inputClosed, cancelled, view, score, asked, moved>>

\* The caller stops the fetch, or its own ctx ends.
Stop ==
    /\ ~cancelled
    /\ cancelled' = TRUE
    /\ UNCHANGED <<dispVars, workVars, chanVars, unfed, inputClosed, delivered, view, score, asked, moved>>

\* Other requests of the client, and time: a view is adopted; an owner is
\* penalised, hinted or cleared, a backoff ends, a connection is made, lost or
\* finds another path.
ViewChanges ==
    /\ view + 1 \in Views
    /\ view' = view + 1
    /\ UNCHANGED <<dispVars, workVars, chanVars, unfed, inputClosed, delivered, cancelled, score, asked>>
    /\ Watched

RankChanges ==
    /\ \E o \in Owners : \E s \in Scores \ {score[o]} : score' = [score EXCEPT ![o] = s]
    /\ UNCHANGED <<dispVars, workVars, chanVars, unfed, inputClosed, delivered, cancelled, view, asked>>
    /\ Watched

Dispatcher ==
    \/ DrainInput \/ InputDrained \/ DrainRetry \/ RetryDrained
    \/ RouteRefresh \/ RouteMissing \/ RouteQueue
    \/ Dispatch \/ Dispatched
    \/ SelectInput \/ SelectInputClosed \/ SelectRetry \/ SelectDone
    \/ DispatcherStops

Stream(w) ==
    EmitRecord(w) \/ OpenFails(w) \/ StreamBreaks(w) \/ StreamEnds(w) \/ StreamStalls(w)
Worker(w) == TakeJob(w) \/ Stream(w) \/ SendRetry(w) \/ ReportDone(w) \/ WorkerStops(w) \/ WorkerExits(w)

\* A worker waits for a node that will not go on, and nothing ends its wait.
Hung == ~cancelled /\ \E w \in Workers : wpc[w] = "stalled"

Over == disp = "over" /\ \A w \in Workers : wpc[w] = "exited"

\* The results channel is closed and empty: the caller sees the end.
Finished == Over /\ out = {} /\ UNCHANGED vars

Next ==
    \/ AddKey
    \/ CloseInput
    \/ Dispatcher
    \/ \E w \in Workers : Worker(w)
    \/ Receive
    \/ Stop
    \/ ViewChanges
    \/ RankChanges
    \/ Finished

Spec == Init /\ [][Next]_vars

(***************************************************************************)
(* The tasks run; an exchange goes on, ends or breaks, or is one that      *)
(* stalls for good, which only a stop gets a worker out of; the caller     *)
(* keeps receiving until it stops the fetch, and need not receive after    *)
(* that.  Nothing is assumed of the feeder, which pull_tree drives by what *)
(* it receives, nor of Stop, ViewChanges or RankChanges.                   *)
(***************************************************************************)
Fairness ==
    /\ WF_vars(Dispatcher)
    /\ \A w \in Workers : WF_vars(Worker(w))
    /\ WF_vars(Receive /\ ~cancelled)

FairSpec == Spec /\ Fairness

-----------------------------------------------------------------------------
TypeOK ==
    /\ unfed \subseteq Keys /\ input \subseteq Keys
    /\ inOpen \in BOOLEAN /\ inputClosed \in BOOLEAN /\ refreshed \in BOOLEAN
    /\ cancelled \in BOOLEAN /\ moved \subseteq Keys
    /\ routing = None \/ routing \in FetchKey
    /\ acc \in [Owners -> SUBSET FetchKey]
    /\ inflight \in 0..Jobs /\ doneq \in 0..Jobs
    /\ disp \in {"input", "retry", "dispatch", "select", "over"}
    /\ jobq \subseteq Batch
    /\ retry \subseteq FetchKey
    /\ wpc \in [Workers -> {"idle", "stream", "stalled", "retry", "report", "exited"}]
    /\ job \in [Workers -> {NoJob} \cup Batch]
    /\ got \in [Workers -> SUBSET Keys]
    /\ out \subseteq Fetched /\ delivered \subseteq Fetched
    /\ view \in Views /\ score \in [Owners -> Scores]
    /\ asked \in [Keys -> SUBSET Owners]

KeysOf(S) == {x.key : x \in S}

\* Every key is in one place at a time: no channel, accumulator or worker holds
\* it twice, and unless the fetch was stopped none of them loses it.
Places(k) ==
    {<<"unfed">> : x \in {k} \cap unfed}
    \cup {<<"input">> : x \in {k} \cap input}
    \cup {<<"routing">> : x \in {k} \cap (IF routing = None THEN {} ELSE {routing.key})}
    \cup {<<"acc", o>> : o \in {p \in Owners : k \in KeysOf(acc[p])}}
    \cup {<<"job">> : j \in {i \in jobq : k \in KeysOf(i.keys)}}
    \cup {<<"worker", w>> : w \in {v \in Workers : k \in KeysOf(Unanswered(v))}}
    \cup {<<"retry">> : x \in {k} \cap KeysOf(retry)}
    \cup {<<"out">> : x \in {k} \cap KeysOf(out)}
    \cup {<<"delivered">> : x \in {k} \cap KeysOf(delivered)}

OnePlace ==
    /\ TypeOK
    /\ \A k \in Keys : Cardinality(Places(k)) \in IF cancelled THEN {0, 1} ELSE {1}

\* A key is reported missing only when every owner of its read order was
\* asked, as long as its own order stood still: absent copies, corrupt copies,
\* broken streams, the orders of other keys and a ranking that moves owners but
\* not this key's move nothing.
AllOwnersAsked(k) ==
    \A i \in DOMAIN BaseOrder[view][k] : BaseOrder[view][k][i] \in asked[k]

MissingMeansAllAsked ==
    \A f \in out \cup delivered : ~f.found /\ f.key \notin moved => AllOwnersAsked(f.key)

-----------------------------------------------------------------------------
Promise == INSTANCE FetchPromise WITH
    Held <- {k \in Keys : Holds[k] # {}},
    given <- Keys \ unfed,
    room <- Cardinality(input) < InputCap,
    closed <- inputClosed,
    results <- out,
    received <- delivered,
    stopped <- cancelled,
    hung <- Hung,
    over <- Over

\* The fetcher keeps its promise: one outcome for every key handed over, found
\* only if an owner holds it; outcomes keep coming as long as the caller
\* receives them, whether or not it hands over more; and the results end only
\* when everything is answered or the fetch was stopped, but then always, even
\* if the caller receives no more and the channels are full.  An exchange that
\* hangs takes the promise of outcomes back, never that of the end after a stop.
FetchPromised == Promise!Spec

\* What the head of fetch.rs says without that condition: a key an owner did
\* not return is re-asked down its read order.
ReaskedDownTheOrder == \A f \in out \cup delivered : ~f.found => AllOwnersAsked(f.key)
=============================================================================
