-------------------------------- MODULE Ctx --------------------------------
(***************************************************************************)
(* Go contexts as crates/gocompat/src/ctx.rs has them: a tree of nodes,    *)
(* each with a deadline, the instant of its own cancel, a cancellation     *)
(* token that an ancestor's cancel reaches, and its first event, latched   *)
(* when somebody first looks.  No timer runs: an event that nobody has     *)
(* looked at is found later from what was recorded.                        *)
(*                                                                         *)
(* cancel() records its instant and then cancels the token, in two steps;  *)
(* a look (err) reads the clock and resolves the events in two steps.  The *)
(* OnceLocks make each of these a step of its own; the walk over a chain   *)
(* of nodes is one.                                                        *)
(***************************************************************************)
EXTENDS Naturals, Sequences, FiniteSets

CONSTANTS
    Path,      \* node -> the nodes from the root down to it
    Timeouts,  \* the durations given to with_timeout
    MaxTime,   \* bound: ticks of the clock
    MaxCancels \* bound: calls of cancel()

Nodes == DOMAIN Path
Root == CHOOSE n \in Nodes : Len(Path[n]) = 1
Parent(n) == Path[n][Len(Path[n]) - 1]
Under(n) == {m \in Nodes : \E i \in DOMAIN Path[m] : Path[m][i] = n}

Never == MaxTime + 1
NoEvent == [err |-> "none", at |-> Never]
Event(e, t) == [err |-> e, at |-> t]
NoWait == [node |-> Root, pc |-> "none"]
NoLook == [node |-> Root, now |-> Never]

VARIABLES
    clock,
    made,       \* the nodes that exist
    deadline,   \* Node.deadline
    canceledAt, \* Node.canceled_at
    token,      \* the nodes whose token is cancelled
    first,      \* Node.first
    canceling,  \* nodes whose cancel() has recorded its instant and not yet
                \* cancelled the token
    cancels,    \* calls of cancel() so far
    waiter,     \* the call of done(): its node, and "none", "waiting" or "done"
    look,       \* an err() that has read the clock
    stale       \* history: a node was latched by a look with an old clock reading

vars == <<clock, made, deadline, canceledAt, token, first, canceling, cancels, waiter, look, stale>>

Init ==
    /\ clock = 0
    /\ made = {Root}
    /\ deadline = [n \in Nodes |-> Never]
    /\ canceledAt = [n \in Nodes |-> Never]
    /\ token = {}
    /\ first = [n \in Nodes |-> NoEvent]
    /\ canceling = {}
    /\ cancels = 0
    /\ waiter = NoWait
    /\ look = NoLook
    /\ stale = FALSE

\* A tree nobody uses any more.
Over ==
    /\ clock = MaxTime
    /\ made = {Root}
    /\ deadline = [n \in Nodes |-> Never]
    /\ canceledAt = [n \in Nodes |-> IF n = Root THEN 0 ELSE Never]
    /\ token = {Root}
    /\ first = [n \in Nodes |-> IF n = Root THEN Event("canceled", 0) ELSE NoEvent]
    /\ canceling = {}
    /\ cancels = 0
    /\ waiter = NoWait
    /\ look = NoLook
    /\ stale = FALSE

-----------------------------------------------------------------------------
(***************************************************************************)
(* first_event and resolve.                                                *)
(***************************************************************************)
\* The earlier event; at the same instant the deadline wins.
Earliest(a, b) ==
    IF b.at < a.at \/ (b.at = a.at /\ b.err = "deadline") THEN b ELSE a

Resolve(n, inherited, t) ==
    LET c == IF canceledAt[n] = Never THEN inherited
             ELSE Earliest(inherited, Event("canceled", canceledAt[n]))
    IN IF deadline[n] <= t THEN Earliest(c, Event("deadline", deadline[n])) ELSE c

\* The nearest latched node on the way up from n, by its place on the path; 0
\* when there is none.
Nearest(n) ==
    LET latched == {i \in DOMAIN Path[n] : first[Path[n][i]] # NoEvent}
    IN IF latched = {} THEN 0 ELSE CHOOSE i \in latched : \A j \in latched : j <= i

\* The events of the nodes on the path to n, resolved from there down.
Events(n, t) ==
    LET down[i \in 0..Len(Path[n])] ==
            IF i <= Nearest(n) THEN (IF i = 0 THEN NoEvent ELSE first[Path[n][i]])
                               ELSE Resolve(Path[n][i], down[i - 1], t)
    IN down

\* Every node's latch after the first event of n was asked for as of t.
FirstEvent(n, t) ==
    IF first[n] # NoEvent \/ (t < deadline[n] /\ n \notin token)
    THEN first
    ELSE LET fresh == {i \in DOMAIN Path[n] : Nearest(n) < i}
             down == Events(n, t)
         IN [m \in Nodes |-> IF \E i \in fresh : Path[n][i] = m
                             THEN down[CHOOSE i \in fresh : Path[n][i] = m]
                             ELSE first[m]]

\* What err() would say now.
Err(n) == FirstEvent(n, clock)[n]

-----------------------------------------------------------------------------
Tick ==
    /\ clock < MaxTime
    /\ clock' = clock + 1
    /\ UNCHANGED <<made, deadline, canceledAt, token, first, canceling, cancels, waiter, look, stale>>

\* child: with_timeout(d) and, with d = Never, with_cancel.
Make(n, d) ==
    /\ n \notin made /\ Parent(n) \in made
    /\ made' = made \cup {n}
    /\ LET own == IF d >= Never - clock THEN Never ELSE clock + d
           p == deadline[Parent(n)]
       IN deadline' = [deadline EXCEPT ![n] = IF p < own THEN p ELSE own]
    /\ token' = IF Parent(n) \in token THEN token \cup {n} ELSE token
    /\ first' = LET f == FirstEvent(Parent(n), clock) IN
                [f EXCEPT ![n] = IF f[Parent(n)] # NoEvent THEN f[Parent(n)]
                                 ELSE IF deadline'[n] <= clock THEN Event("deadline", deadline'[n])
                                 ELSE NoEvent]
    /\ UNCHANGED <<clock, canceledAt, canceling, cancels, waiter, look, stale>>

\* cancel: the instant, unless the node has ended ...
\* Mutant: the instant is not recorded before the token is cancelled.
CancelUnrecorded(n) ==
    /\ n \in made \ canceling /\ cancels < MaxCancels
    /\ cancels' = cancels + 1
    /\ canceling' = canceling \cup {n}
    /\ UNCHANGED <<clock, made, deadline, canceledAt, token, first, waiter, look, stale>>

Cancel(n) ==
    /\ n \in made \ canceling /\ cancels < MaxCancels
    /\ cancels' = cancels + 1
    /\ canceledAt' = [canceledAt EXCEPT ![n] =
                        IF first[n] = NoEvent /\ @ = Never THEN clock ELSE @]
    /\ canceling' = canceling \cup {n}
    /\ UNCHANGED <<clock, made, deadline, token, first, waiter, look, stale>>

\* ... then the token, with those of the descendants.
CancelToken(n) ==
    /\ n \in canceling
    /\ token' = token \cup (Under(n) \cap made)
    /\ canceling' = canceling \ {n}
    /\ UNCHANGED <<clock, made, deadline, canceledAt, first, cancels, waiter, look, stale>>

\* err: the clock is read, the events are resolved.
Look(n) ==
    /\ look = NoLook /\ n \in made
    /\ look' = [node |-> n, now |-> clock]
    /\ UNCHANGED <<clock, made, deadline, canceledAt, token, first, canceling, cancels, waiter, stale>>

Observe ==
    /\ look # NoLook
    /\ first' = FirstEvent(look.node, look.now)
    /\ stale' = (stale \/ (look.now < clock /\ first' # first))
    /\ look' = NoLook
    /\ UNCHANGED <<clock, made, deadline, canceledAt, token, canceling, cancels, waiter>>

\* done: at once when the node has ended, else it waits ...
Wait(n) ==
    /\ n \in made /\ waiter = NoWait
    /\ first' = FirstEvent(n, clock)
    /\ waiter' = [node |-> n, pc |-> IF first'[n] # NoEvent THEN "done" ELSE "waiting"]
    /\ UNCHANGED <<clock, made, deadline, canceledAt, token, canceling, cancels, look, stale>>

\* ... for the token, which latches nothing, ...
WakeToken ==
    /\ waiter.pc = "waiting" /\ waiter.node \in token
    /\ waiter' = [waiter EXCEPT !.pc = "done"]
    /\ UNCHANGED <<clock, made, deadline, canceledAt, token, first, canceling, cancels, look, stale>>

\* ... or for the timer at the deadline.
WakeTimer ==
    /\ waiter.pc = "waiting" /\ deadline[waiter.node] <= clock
    /\ first' = FirstEvent(waiter.node, clock)
    /\ waiter' = [waiter EXCEPT !.pc = "done"]
    /\ UNCHANGED <<clock, made, deadline, canceledAt, token, canceling, cancels, look, stale>>

Finished == clock = MaxTime /\ cancels = MaxCancels /\ UNCHANGED vars

Next ==
    \/ Tick
    \/ \E n \in Nodes :
        \/ \E d \in Timeouts \cup {Never} : n # Root /\ Make(n, d)
        \/ Cancel(n) \/ CancelToken(n) \/ Look(n) \/ Wait(n)
    \/ Observe \/ WakeToken \/ WakeTimer
    \/ Finished

Spec == Init /\ [][Next]_vars

-----------------------------------------------------------------------------
TypeOK ==
    /\ clock \in 0..MaxTime
    /\ Root \in made /\ made \subseteq Nodes
    /\ deadline \in [Nodes -> 0..Never] /\ canceledAt \in [Nodes -> 0..Never]
    /\ token \subseteq made /\ canceling \subseteq made
    /\ \A n \in Nodes : first[n] = NoEvent \/ first[n].err \in {"canceled", "deadline"}
    /\ waiter.node \in made /\ waiter.pc \in {"none", "waiting", "done"}
    /\ cancels \in 0..MaxCancels

\* Once done() has returned, err() has an error and needs no guess, although a
\* woken waiter latches nothing and the cancel may be that of any ancestor.
DoneMeansErr ==
    /\ TypeOK
    /\ waiter.pc = "done" => Err(waiter.node) # NoEvent

BeingCanceled(n) == \E i \in DOMAIN Path[n] : Path[n][i] \in canceling

\* A child ends when its parent ends (or is told so as soon as a cancel that is
\* under way reaches its token), and a child with no deadline and no cancel of
\* its own names the cause its parent names, also when a cancel races a
\* deadline; unless one of them was latched by a look that had read the clock
\* before the deadline and found a cancel made after it.
ChildFollowsParent ==
    \A n \in made \ {Root} :
        /\ first[Parent(n)] # NoEvent => Err(n) # NoEvent \/ BeingCanceled(n)
        /\ first[n] # NoEvent /\ canceledAt[n] = Never /\ deadline[n] = deadline[Parent(n)] /\ ~stale
             => first[Parent(n)] = first[n]
=============================================================================
