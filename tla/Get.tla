-------------------------------- MODULE Get --------------------------------
(***************************************************************************)
(* A fetch, and the contexts that end one.  They share no state here (in   *)
(* Fetcher the end of the context is a flag), so a behaviour is of one of  *)
(* them, next to the other at rest.                                        *)
(***************************************************************************)
EXTENDS Fetcher

CONSTANTS Path, Timeouts, MaxTime, MaxCancels

\* Contexts are a tree: every node is reached from the one root, and the way to
\* a node goes by the ways to those above it.
ASSUME PathAssumption ==
    /\ MaxTime \in Nat /\ MaxCancels \in Nat /\ Timeouts \subseteq Nat
    /\ \A n \in DOMAIN Path :
        /\ Path[n] \in Seq(DOMAIN Path) /\ Len(Path[n]) > 0 /\ Path[n][Len(Path[n])] = n
        /\ \A i \in DOMAIN Path[n] : Path[Path[n][i]] = SubSeq(Path[n], 1, i)
    /\ \E r \in DOMAIN Path : \A n \in DOMAIN Path : Path[n][1] = r

VARIABLES
    part,       \* which of the two runs
    clock, made, deadline, canceledAt, token, first, canceling, cancels, waiter, look, stale

ctxVars == <<clock, made, deadline, canceledAt, token, first, canceling, cancels, waiter, look,
             stale>>

Contexts == INSTANCE Ctx

AnyInit ==
    \/ part = "fetch" /\ Init /\ Contexts!Over
    \/ part = "ctx" /\ Contexts!Init /\ Waiting

AnyNext ==
    \/ part = "fetch" /\ Next /\ UNCHANGED <<part, ctxVars>>
    \/ part = "ctx" /\ Contexts!Next /\ UNCHANGED <<part, vars>>

AnySpec == AnyInit /\ [][AnyNext]_<<part, vars, ctxVars>>

\* A context that is seen to be done says why, and says what its parent says
\* (Contexts!DoneMeansErr, Contexts!ChildFollowsParent).
ContextsAgree == Contexts!DoneMeansErr /\ Contexts!ChildFollowsParent
=============================================================================
