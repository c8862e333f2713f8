----------------------------- MODULE Transport -----------------------------
(***************************************************************************)
(* How a node is reached and talked to: the connection pool, a pack on a   *)
(* stream and the dial of a node.  They share no state, so a behaviour is  *)
(* one of them, next to a pool nobody calls, a stream that is gone and an  *)
(* endpoint that is closed.                                                *)
(***************************************************************************)
EXTENDS Pool

CONSTANTS PipeLimit, ChunkSize, BufioSize, Packs, Direct, Relay, MaxMoves, MaxLate

VARIABLES
    part,       \* which of the three runs
    buf, ended, canceled, asleep,
    pack, sent, bw, chunk, writes, sender, frame, cur, done, rerr, state, need, got, reader,
    relaysEnabled, discover, live, been, moves, late, loops, tx, cache, shut, phase, given,
    ctxOver, found, lookups, moved, slow, hinted

streamVars == <<buf, ended, canceled, asleep, pack, sent, bw, chunk, writes, sender,
                frame, cur, done, rerr, state, need, got, reader>>

Stream == INSTANCE PackStream

dialVars == <<relaysEnabled, discover, live, been, moves, late, loops, tx, cache, shut, phase, given,
              ctxOver, found, lookups, moved, slow, hinted>>

Node == INSTANCE IrohDial

AnyInit ==
    \/ part = "pool" /\ Init /\ Stream!Over /\ Node!Unbound
    \/ part = "stream" /\ Init /\ Stream!Init /\ Node!Unbound
    \/ part = "dial" /\ Init /\ Stream!Over /\ Node!Init

AnyNext ==
    \/ part = "pool" /\ Next /\ UNCHANGED <<part, streamVars, dialVars>>
    \/ part = "stream" /\ Stream!Next /\ UNCHANGED <<part, vars, dialVars>>
    \/ part = "dial" /\ Node!Next /\ UNCHANGED <<part, vars, streamVars>>

AnySpec ==
    /\ AnyInit /\ [][AnyNext]_<<part, vars, streamVars, dialVars>>
    /\ Fairness /\ Stream!Fairness /\ Node!Fairness

\* The records of a pack arrive whole and in order, and a clean end comes only
\* after every one of them (Stream!CleanEndMeansAll).
CleanEndMeansAll == Stream!CleanEndMeansAll

\* The receiver of a whole pack lets the sender finish: it resets the stream
\* only after an error or when its caller gave up.
NoReset == Stream!NoReset

\* A dial that fails had no way to the node: connect tries the direct
\* addresses, then all, then what the discovery services answer.
FailedHadNoWay == Node!FailedHadNoWay

\* Every call comes back, none waits for one that will never come: a get of
\* the pool (GetReturns), a pack that is sent and read (Stream!StreamEnds),
\* and a dial (Node!DialReturns).
CallsReturn == GetReturns /\ Stream!StreamEnds /\ Node!DialReturns
=============================================================================
