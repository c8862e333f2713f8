----------------------------- MODULE MCPullTree -----------------------------
(***************************************************************************)
(* The fetcher against what it promises, and the pull of a tree on that    *)
(* promise, in one run: a behaviour is one or the other, next to a fetcher *)
(* that waits for its first key or a pull that is over.                    *)
(*                                                                         *)
(* Fetcher: two keys of one owner, which holds the first of them.          *)
(* Tree: r holds a and x, a holds x and y; a may be malformed.             *)
(***************************************************************************)
EXTENDS PullTree, TLC

CONSTANTS
    o1, k1, k2, r, a, x, y,
    Owners, Scores, Workers, InputCap, RetryCap, BatchKeys      \* see Fetcher

VARIABLES
    part,       \* which of the two runs
    unfed, inputClosed, input, inOpen, routing, acc, inflight, refreshed, disp,
    jobq, retry, doneq, wpc, job, got, out, delivered, cancelled, view, score, moved, asked

fetcherVars == <<unfed, inputClosed, input, inOpen, routing, acc, inflight, refreshed, disp,
                 jobq, retry, doneq, wpc, job, got, out, delivered, cancelled, view, score,
                 moved, asked>>

MCOrder == << (k1 :> <<o1>>) @@ (k2 :> <<o1>>) >>
MCHolds == (k1 :> {o1}) @@ (k2 :> {})
MCKids == (r :> {a, x}) @@ (a :> {x, y}) @@ (x :> {}) @@ (y :> {})

Fetching == INSTANCE Fetcher WITH Keys <- {k1, k2}, BaseOrder <- MCOrder, Replicas <- <<1>>,
    Holds <- MCHolds

MCInit ==
    \/ part = "fetch" /\ Fetching!Init /\ Over
    \/ part = "tree" /\ Fetching!Waiting /\ Init

MCNext ==
    \/ part = "fetch" /\ Fetching!Next /\ UNCHANGED <<part, vars>>
    \/ part = "tree" /\ Next /\ UNCHANGED <<part, fetcherVars>>

MCSpec == MCInit /\ [][MCNext]_<<part, vars, fetcherVars>> /\ Fairness /\ Fetching!Fairness

\* The fetcher implements what pull_tree relies on: one outcome for every key
\* it takes, and an end (FetchPromise, with its fairness).
FetchPromised == Fetching!FetchPromised
=============================================================================
