---------------------------- MODULE FetchPromise ----------------------------
(***************************************************************************)
(* What the fetcher (crates/client/src/fetch.rs) promises its callers,     *)
(* Cluster::get and Cluster::pull_tree: keys go in, each once; for every   *)
(* key one outcome comes out, in any order; the outcomes end when the      *)
(* input was closed and everything is answered, or after a stop.  Owners,  *)
(* batches, retries, workers and all channels but the results are gone.    *)
(*                                                                         *)
(* Fetcher implements this specification; PullTree is built on it.         *)
(***************************************************************************)
EXTENDS Naturals, FiniteSets

CONSTANTS
    Keys,       \* what can be asked for
    Held,       \* the keys some owner holds a good copy of
    ResultsCap  \* RESULTS_CAP

VARIABLES
    given,      \* keys handed over
    room,       \* the input channel has a free slot
    closed,     \* the caller has dropped the input
    results,    \* outcomes waiting for the caller
    received,  \* outcomes the caller has received
    stopped,    \* the fetch's ctx has ended
    hung,       \* an exchange with a node hangs, and only a stop can end it
    over        \* the results channel is closed

vars == <<given, room, closed, results, received, stopped, hung, over>>

Init ==
    /\ given = {} /\ results = {} /\ received = {}
    /\ room = TRUE
    /\ closed = FALSE /\ stopped = FALSE /\ hung = FALSE /\ over = FALSE

Outcome(k, found) == [key |-> k, found |-> found]
Answered == {f.key : f \in results \cup received}
Free == Cardinality(results) < ResultsCap

-----------------------------------------------------------------------------
\* The caller.
Give(k) ==
    /\ ~closed /\ room
    /\ k \in Keys \ given
    /\ given' = given \cup {k}
    /\ room' \in BOOLEAN
    /\ UNCHANGED <<closed, results, received, stopped, hung, over>>

Close ==
    /\ ~closed
    /\ closed' = TRUE
    /\ UNCHANGED <<given, room, results, received, stopped, hung, over>>

Receive ==
    /\ \E f \in results :
        /\ results' = results \ {f}
        /\ received' = received \cup {f}
    /\ UNCHANGED <<given, room, closed, stopped, hung, over>>

Stop ==
    /\ ~stopped
    /\ stopped' = TRUE /\ hung' = FALSE
    /\ UNCHANGED <<given, room, closed, results, received, over>>

-----------------------------------------------------------------------------
\* The fetcher.
Accept ==
    /\ ~room
    /\ room' = TRUE
    /\ UNCHANGED <<given, closed, results, received, stopped, hung, over>>

Answer ==
    /\ ~over /\ Free
    /\ \E k \in given \ Answered, found \in BOOLEAN :
        /\ found => k \in Held
        /\ results' = results \cup {Outcome(k, found)}
    /\ UNCHANGED <<given, room, closed, received, stopped, hung, over>>

MayEnd == stopped \/ (closed /\ given \subseteq Answered)

End ==
    /\ ~over
    /\ MayEnd
    /\ over' = TRUE
    /\ UNCHANGED <<given, room, closed, results, received, stopped, hung>>

Hang ==
    /\ ~over /\ ~stopped /\ ~hung
    /\ hung' = TRUE
    /\ UNCHANGED <<given, room, closed, results, received, stopped, over>>

Next ==
    \/ \E k \in Keys : Give(k)
    \/ Close \/ Receive \/ Stop
    \/ Accept \/ Answer \/ Hang \/ End

(***************************************************************************)
(* Weak fairness, with the enabling condition of each action written out   *)
(* (TLC cannot compute ENABLED under a refinement mapping).  A caller that *)
(* neither hands over keys nor closes the input still gets its outcomes;   *)
(* while an exchange hangs nothing is promised, after a stop only the end. *)
(***************************************************************************)
CanAnswer == ~stopped /\ ~hung /\ ~over /\ Free /\ given \ Answered # {}
CanAccept == ~stopped /\ ~hung /\ ~over /\ Free /\ ~room
CanEnd == ~hung /\ ~over /\ MayEnd

Promises ==
    /\ []<>(~CanAnswer) \/ []<><<Answer>>_vars
    /\ []<>(~CanAccept) \/ []<><<Accept>>_vars
    /\ []<>(~CanEnd) \/ []<><<End>>_vars

\* What holds of every step, and with it what must happen.
Safe == Init /\ [][Next]_vars
Spec == Safe /\ Promises
=============================================================================
