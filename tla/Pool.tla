-------------------------------- MODULE Pool --------------------------------
(***************************************************************************)
(* The connection pool of crates/transport/src/pool.rs, for ONE key        *)
(* (peer, ALPN).  Every map of PoolState is indexed by that key and no     *)
(* operation but close reads or writes two keys, so the keys of a pool are *)
(* independent copies of this module.                                      *)
(*                                                                         *)
(* A critical section under the pool lock (`self.state()`) is one action;  *)
(* what happens between two critical sections (waiting for the per-key     *)
(* dial lock, dialing, closing the conns drop_peer took) is where callers  *)
(* interleave.                                                             *)
(***************************************************************************)
EXTENDS Naturals, Sequences, FiniteSets

CONSTANTS
    Callers,    \* tasks running Pool.call / Pool.open for the key
    Closer,     \* the task running Pool.close
    PerPeer,    \* per_peer after `max(1)`
    MaxConns,   \* bound: successful dials in one behaviour
    CounterMod  \* modulus of the round-robin counter (2^64 in the code)

ASSUME PoolAssumption ==
    /\ PerPeer \in Nat \ {0}
    /\ MaxConns \in Nat
    /\ CounterMod \in Nat \ {0}
    /\ Closer \notin Callers

Actors == Callers \cup {Closer}
ConnId == 1..MaxConns
NoConn == 0

VARIABLES
    conns,    \* st.conns[k]: the conns of the key; the list is their ascending order,
              \* since a conn is numbered and pushed in one step
    next,     \* st.next[k]: the round-robin counter
    failed,   \* st.failed[k]: "none", a mark younger than 2 s, or an older one
    queue,    \* the fair dial lock st.dialing[k]: its holder, then its waiters
    dialled,  \* conns dialled so far; conn n is the n-th
    closed,   \* conns whose is_closed() is true
    pc,       \* where each caller stands
    conn,     \* the conn `get` returned to a caller
    toClose   \* conns drop_peer / close took out of the map and has yet to close

vars == <<conns, next, failed, queue, dialled, closed, pc, conn, toClose>>

\* The conns that pass the filter `!c.is_closed()`.
Live == conns \ closed

\* k is element i (from 0) of the list whose conns are the set s.
IsAt(s, i, k) == k \in s /\ Cardinality({j \in s : j < k}) = i

Init ==
    /\ conns = {}
    /\ next = 0
    /\ failed = "none"
    /\ queue = <<>>
    /\ dialled = 0
    /\ closed = {}
    /\ pc = [c \in Callers |-> "idle"]
    /\ conn = [c \in Callers |-> NoConn]
    /\ toClose = [a \in Actors |-> {}]

-----------------------------------------------------------------------------
(***************************************************************************)
(* get, first critical section: filter the list in place, then return a    *)
(* conn round robin, refuse, or go and wait for the dial lock.             *)
(***************************************************************************)
GetPooled(c) ==
    /\ pc[c] = "idle"
    /\ Cardinality(Live) >= PerPeer
    /\ conns' = Live
    /\ next' = (next + 1) % CounterMod
    /\ \E k \in Live :
        /\ IsAt(Live, next % Cardinality(Live), k)
        /\ conn' = [conn EXCEPT ![c] = k]
    /\ pc' = [pc EXCEPT ![c] = "open"]
    /\ UNCHANGED <<failed, queue, dialled, closed, toClose>>

\* TransportError::RecentlyUnreachable
GetRefused(c) ==
    /\ pc[c] = "idle"
    /\ Live = {}
    /\ failed = "recent"
    /\ conns' = Live
    /\ UNCHANGED <<next, failed, queue, dialled, closed, pc, conn, toClose>>

GetQueue(c) ==
    /\ pc[c] = "idle"
    /\ Cardinality(Live) < PerPeer
    /\ ~(Live = {} /\ failed = "recent")
    /\ conns' = Live
    /\ queue' = Append(queue, c)
    /\ pc' = [pc EXCEPT ![c] = "wait"]
    /\ UNCHANGED <<next, failed, dialled, closed, conn, toClose>>

HoldsDialLock(c) == queue # <<>> /\ Head(queue) = c

(***************************************************************************)
(* get, second critical section, with the dial lock held: the unfiltered   *)
(* list, and no round robin.  The caller returns the first conn or dials.  *)
(***************************************************************************)
GetGrown(c) ==
    /\ pc[c] = "wait"
    /\ HoldsDialLock(c)
    /\ Cardinality(conns) >= PerPeer
    /\ \E k \in conns : IsAt(conns, 0, k) /\ conn' = [conn EXCEPT ![c] = k]
    /\ pc' = [pc EXCEPT ![c] = "open"]
    /\ queue' = Tail(queue)
    /\ UNCHANGED <<conns, next, failed, dialled, closed, toClose>>

\* Mutant: the list is not looked at again once the dial lock is held.
DialStartNoRecheck(c) ==
    /\ pc[c] = "wait"
    /\ HoldsDialLock(c)
    /\ pc' = [pc EXCEPT ![c] = "dial"]
    /\ UNCHANGED <<conns, next, failed, queue, dialled, closed, conn, toClose>>

DialStart(c) ==
    /\ pc[c] = "wait"
    /\ HoldsDialLock(c)
    /\ Cardinality(conns) < PerPeer
    /\ pc' = [pc EXCEPT ![c] = "dial"]
    /\ UNCHANGED <<conns, next, failed, queue, dialled, closed, conn, toClose>>

\* Mutant: the error return leaks the guard of the dial lock.
DialErrKeepsLock(c) ==
    /\ pc[c] = "dial"
    /\ failed' = "recent"
    /\ pc' = [pc EXCEPT ![c] = "idle"]
    /\ UNCHANGED <<conns, next, queue, dialled, closed, conn, toClose>>

\* The peer is unreachable, or the dialing caller's own ctx ended.
DialErr(c) ==
    /\ pc[c] = "dial"
    /\ failed' = "recent"
    /\ queue' = Tail(queue)
    /\ pc' = [pc EXCEPT ![c] = "idle"]
    /\ UNCHANGED <<conns, next, dialled, closed, conn, toClose>>

DialOk(c) ==
    /\ pc[c] = "dial"
    /\ dialled < MaxConns
    /\ dialled' = dialled + 1
    /\ failed' = "none"
    /\ conns' = conns \cup {dialled'}
    /\ conn' = [conn EXCEPT ![c] = dialled']
    /\ queue' = Tail(queue)
    /\ pc' = [pc EXCEPT ![c] = "open"]
    /\ UNCHANGED <<next, closed, toClose>>

-----------------------------------------------------------------------------
(***************************************************************************)
(* call and open after get: a stream opens on the conn, or the peer is     *)
(* dropped.  The exchange on the stream touches no pool state.             *)
(***************************************************************************)
OpenStream(c) ==
    /\ pc[c] = "open"
    /\ conn[c] \notin closed
    /\ conn' = [conn EXCEPT ![c] = NoConn]
    /\ pc' = [pc EXCEPT ![c] = "idle"]
    /\ UNCHANGED <<conns, next, failed, queue, dialled, closed, toClose>>

\* open_stream failed (on a closed conn it must, on a live one it may):
\* drop_peer forgets every conn of the key and the failed mark ...
DropPeer(c) ==
    /\ pc[c] = "open"
    /\ conns' = {}
    /\ failed' = "none"
    /\ toClose' = [toClose EXCEPT ![c] = conns]
    /\ conn' = [conn EXCEPT ![c] = NoConn]
    /\ pc' = [pc EXCEPT ![c] = "closing"]
    /\ UNCHANGED <<next, queue, dialled, closed>>

\* ... and then closes them, outside the pool lock.  Also the loop of close.
CloseConn(a) ==
    /\ \E k \in toClose[a] :
        /\ closed' = closed \cup {k}
        /\ toClose' = [toClose EXCEPT ![a] = @ \ {k}]
    /\ UNCHANGED <<conns, next, failed, queue, dialled, pc, conn>>

DropDone(c) ==
    /\ pc[c] = "closing"
    /\ toClose[c] = {}
    /\ pc' = [pc EXCEPT ![c] = "idle"]
    /\ UNCHANGED <<conns, next, failed, queue, dialled, closed, conn, toClose>>

\* Mutant: the conns are forgotten and never closed.
CloseForgets ==
    /\ toClose[Closer] = {}
    /\ conns' = {}
    /\ UNCHANGED <<next, failed, queue, dialled, closed, pc, conn, toClose>>

\* Pool.close: takes every conn; marks, counters and dial locks are kept.
Close ==
    /\ toClose[Closer] = {}
    /\ conns' = {}
    /\ toClose' = [toClose EXCEPT ![Closer] = conns]
    /\ UNCHANGED <<next, failed, queue, dialled, closed, pc, conn>>

-----------------------------------------------------------------------------
\* The peer or the network closes a conn.
ConnFails ==
    /\ \E k \in 1..dialled : k \notin closed /\ closed' = closed \cup {k}
    /\ UNCHANGED <<conns, next, failed, queue, dialled, pc, conn, toClose>>

\* FAILED_DIAL_WINDOW has passed since the mark was set.
WindowPasses ==
    /\ failed = "recent"
    /\ failed' = "expired"
    /\ UNCHANGED <<conns, next, queue, dialled, closed, pc, conn, toClose>>

Get(c) == GetPooled(c) \/ GetRefused(c) \/ GetQueue(c) \/ GetGrown(c)
Dial(c) == DialStart(c) \/ DialErr(c) \/ DialOk(c)
Use(c) == OpenStream(c) \/ DropPeer(c) \/ DropDone(c)

Next ==
    \/ \E c \in Callers : Get(c) \/ Dial(c) \/ Use(c)
    \/ \E a \in Actors : CloseConn(a)
    \/ Close
    \/ ConnFails
    \/ WindowPasses

Spec == Init /\ [][Next]_vars

(***************************************************************************)
(* A task holding the dial lock runs on, and a dial ends: every caller's   *)
(* ctx carries a timeout (DIAL_TIMEOUT, CALL_TIMEOUT in client/cluster.rs) *)
(* or is ended by its command, and Endpoint::dial returns when it ends.    *)
(***************************************************************************)
Fairness == \A c \in Callers : WF_vars(GetGrown(c) \/ Dial(c))

FairSpec == Spec /\ Fairness

-----------------------------------------------------------------------------
TypeOK ==
    /\ conns \subseteq ConnId
    /\ next \in 0..(CounterMod - 1)
    /\ failed \in {"none", "recent", "expired"}
    /\ queue \in Seq(Callers)
    /\ dialled \in 0..MaxConns
    /\ closed \subseteq ConnId
    /\ pc \in [Callers -> {"idle", "wait", "dial", "open", "closing"}]
    /\ conn \in [Callers -> ConnId \cup {NoConn}]
    /\ toClose \in [Actors -> SUBSET ConnId]

\* The pool never holds more than per_peer conns of a key, although callers
\* that found it short of conns dial one after the other and drop_peer, close
\* and the filter of get change the list between a caller's two looks at it.
AtMostPerPeer == Cardinality(conns) <= PerPeer

\* No conn is leaked: a conn that is not closed is in the pool, or the caller
\* that took it out of the pool (drop_peer, close) is still about to close it.
\* A conn dialled while close runs is one the pool holds afterwards.
NoLeak == (1..dialled) \ closed \subseteq conns \cup UNION {toClose[a] : a \in Actors}

\* Every get returns: a caller waiting for the dial lock or dialing ends with
\* a conn or an error, whatever the other callers, drops and closes do.
GetReturns == \A c \in Callers : pc[c] = "wait" ~> pc[c] \in {"open", "idle"}
=============================================================================
