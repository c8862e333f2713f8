------------------------------ MODULE Cluster ------------------------------
(***************************************************************************)
(* The client's cached view and its request helpers                        *)
(* (crates/client/src/cluster.rs): dial, adopt, call, call_retry, any_node *)
(* and the refresh tasks that call spawns in the background.               *)
(*                                                                         *)
(* A view is the triple its order is made of; the placement tables are     *)
(* replaced together with the view under the same lock and are left out.   *)
(* Each critical section of the ViewState lock is one action.  A request   *)
(* is stamped, served by the node and answered in separate steps, so the   *)
(* view may be replaced by another task in between.                        *)
(***************************************************************************)
EXTENDS Naturals, Sequences, FiniteSets

CONSTANTS
    Nodes,         \* the nodes of every view and of the ticket
    Users,         \* tasks that make requests
    Refreshers,    \* slots for tasks spawned by spawn_refresh
    AnyRetries,    \* ANY_NODE_STALE_RETRIES
    CallAttempts,  \* CALL_RETRY_ATTEMPTS
    MaxViews,      \* bound: views the cluster issues
    MaxFaults      \* bound: failed exchanges

ASSUME ClusterAssumption ==
    /\ Nodes # {} /\ IsFiniteSet(Nodes)
    /\ Users \cap Refreshers = {}
    /\ AnyRetries \in Nat /\ CallAttempts \in Nat \ {0}
    /\ MaxViews \in Nat /\ MaxFaults \in Nat

Tasks == Users \cup Refreshers
View == [inc : Nat, epoch : Nat, ver : Nat]
NoView == [inc |-> 0, epoch |-> 0]      \* Option::None, and the zero stamp
Kinds == {"none", "any", "retry", "refresh", "probe"}

\* view.rs compare: v is older than w by (incarnation, epoch).
Behind(v, w) == v.inc < w.inc \/ (v.inc = w.inc /\ v.epoch < w.epoch)
SameEpoch(v, w) == v.inc = w.inc /\ v.epoch = w.epoch

\* The order of views adopt documents: (incarnation, epoch, version).
Newer(v, w) == Behind(w, v) \/ (SameEpoch(v, w) /\ v.ver > w.ver)

\* The view the cluster was created with.
FirstView == [inc |-> 0, epoch |-> 1, ver |-> 1]

\* The members of a ticket, each once, in some order: some of the nodes.
TicketMembers ==
    {m \in UNION {[1..k -> Nodes] : k \in 1..Cardinality(Nodes)} :
        \A i, j \in DOMAIN m : m[i] = m[j] => i = j}

VARIABLES
    issued,    \* every view the cluster has had
    nodeView,  \* the view each node has
    members,   \* dial: ticket members not tried yet
    view,      \* ViewState.view
    unreach,   \* ViewState.unreach
    backoff,   \* ViewState.backoff: the nodes whose backoff is running
    pc, kind,  \* of each task: where it is, what it runs
    todo,      \* nodes still to ask, the one being asked first
    tries,     \* stale-view retries made at that node
    stamp,     \* the view the request was stamped with
    reply,     \* what the node answered
    gaveUp,    \* the last request ended in stale-view, retries exhausted
    faults     \* failed exchanges so far

taskVars == <<pc, kind, todo, tries, stamp, reply, gaveUp>>
nodeVars == <<issued, nodeView>>
vars == <<issued, nodeView, members, view, unreach, backoff, taskVars, faults>>

Nothing == [typ |-> "nothing"]

Init ==
    /\ issued = {FirstView}
    /\ nodeView = [n \in Nodes |-> FirstView]
    /\ members \in TicketMembers
    /\ view = NoView
    /\ unreach = {}
    /\ backoff = {}
    /\ pc = [t \in Tasks |-> "idle"]
    /\ kind = [t \in Tasks |-> "none"]
    /\ todo = [t \in Tasks |-> <<>>]
    /\ tries = [t \in Tasks |-> 0]
    /\ stamp = [t \in Tasks |-> NoView]
    /\ reply = [t \in Tasks |-> Nothing]
    /\ gaveUp = [t \in Tasks |-> FALSE]
    /\ faults = 0

-----------------------------------------------------------------------------
(***************************************************************************)
(* The cluster.  Every change of the view is a new version, and of some the *)
(* epoch moves too; a restored cluster takes a higher incarnation and      *)
(* starts over.  The nodes learn of the newest view at their own pace.     *)
(***************************************************************************)
Latest == CHOOSE v \in issued : \A w \in issued : ~Newer(w, v)

IssueView ==
    /\ Cardinality(issued) < MaxViews
    /\ LET v == Latest IN
       \E w \in {[v EXCEPT !.ver = @ + 1],
                 [inc |-> v.inc, epoch |-> v.epoch + 1, ver |-> v.ver + 1],
                 [FirstView EXCEPT !.inc = v.inc + 1]} : issued' = issued \cup {w}
    /\ UNCHANGED <<nodeView, members, view, unreach, backoff, taskVars, faults>>

NodeLearns(n) ==
    /\ nodeView[n] # Latest
    /\ nodeView' = [nodeView EXCEPT ![n] = Latest]
    /\ UNCHANGED <<issued, members, view, unreach, backoff, taskVars, faults>>

EpochChecked(k) == k \in {"any", "retry"}

\* checkEpoch, for the requests that carry an epoch the node checks (puts,
\* reference writes): a client behind the node gets the node's view, a client
\* ahead of it is refused.  Views, gets and negotiations are not checked.
\* A view reply also names the nodes the answering node cannot reach.
Answer(k, s, n) ==
    LET v == nodeView[n] IN
    CASE k = "refresh"                    -> [typ : {"ok"}, view : {v}, hints : SUBSET (Nodes \ {n})]
      [] EpochChecked(k) /\ Behind(s, v) -> [typ : {"stale"}, view : {v}]
      [] EpochChecked(k) /\ Behind(v, s) -> [typ : {"refused"}]
      [] OTHER                            -> [typ : {"ok"}, view : {v}, hints : {{}}]

-----------------------------------------------------------------------------
\* adopt.  Mutant: only the epoch is compared.
AdoptedByEpoch(cur, v) ==
    IF cur # NoView /\ v.epoch < cur.epoch THEN cur ELSE v

Adopted(cur, v) ==
    IF cur # NoView /\ (Behind(v, cur) \/ (SameEpoch(v, cur) /\ v.ver <= cur.ver))
    THEN cur
    ELSE v

(***************************************************************************)
(* dial: the ticket's members in order until one answers with a view.  It  *)
(* uses the pool directly: no stamp, no bookkeeping of failures.           *)
(***************************************************************************)
DialMemberFails ==
    /\ view = NoView
    /\ members # <<>>
    /\ faults < MaxFaults
    /\ faults' = faults + 1
    /\ members' = Tail(members)
    /\ UNCHANGED <<nodeVars, view, unreach, backoff, taskVars>>

\* NoBootstrap was returned; the caller dials anew, with this ticket or another.
DialAgain ==
    /\ view = NoView
    /\ members = <<>>
    /\ members' \in TicketMembers
    /\ UNCHANGED <<nodeVars, view, unreach, backoff, taskVars, faults>>

DialAdopts ==
    /\ view = NoView
    /\ members # <<>>
    /\ \E a \in Answer("refresh", NoView, Head(members)) :
        /\ view' = Adopted(view, a.view)
        /\ unreach' = a.hints
    /\ members' = <<>>
    /\ UNCHANGED <<nodeVars, backoff, taskVars, faults>>

-----------------------------------------------------------------------------
\* penalty, and preferred: every order of the nodes in which a penalty never
\* decreases.  The path classes and the position that break ties are left open.
Penalty(n) ==
    (IF n \in backoff THEN 2 ELSE 0) + (IF n \in unreach THEN 1 ELSE 0)

Preferred ==
    {o \in [1..Cardinality(Nodes) -> Nodes] :
        \A i, j \in DOMAIN o : i < j => o[i] # o[j] /\ Penalty(o[i]) <= Penalty(o[j])}

Target(t) == Head(todo[t])

\* any_node, refresh_view, call_retry and the probes of probe_hinted begin.
Begin(t, k, order) ==
    /\ pc' = [pc EXCEPT ![t] = "send"]
    /\ kind' = [kind EXCEPT ![t] = k]
    /\ todo' = [todo EXCEPT ![t] = order]
    /\ tries' = [tries EXCEPT ![t] = 0]
    /\ stamp' = [stamp EXCEPT ![t] = NoView]
    /\ reply' = [reply EXCEPT ![t] = Nothing]
    /\ gaveUp' = [gaveUp EXCEPT ![t] = FALSE]

StartAny(t) ==
    /\ view # NoView
    /\ pc[t] = "idle"
    /\ \E k \in {"any", "refresh"}, o \in Preferred : Begin(t, k, o)
    /\ UNCHANGED <<nodeVars, members, view, unreach, backoff, faults>>

StartCallRetry(t) ==
    /\ view # NoView
    /\ pc[t] = "idle"
    /\ \E n \in Nodes : Begin(t, "retry", <<n>>)
    /\ UNCHANGED <<nodeVars, members, view, unreach, backoff, faults>>

StartProbe(t) ==
    /\ pc[t] = "idle"
    /\ \E n \in unreach : Begin(t, "probe", <<n>>)
    /\ UNCHANGED <<nodeVars, members, view, unreach, backoff, faults>>

\* A spawned refresh_view gets to run.
StartRefresh(r) ==
    /\ pc[r] = "spawned"
    /\ \E o \in Preferred : Begin(r, "refresh", o)
    /\ UNCHANGED <<nodeVars, members, view, unreach, backoff, faults>>

\* call: stamp the request with the cached view and send it.
\* Mutant: only the first attempt is stamped.
SendStampedOnce(t) ==
    /\ pc[t] = "send"
    /\ stamp' = [stamp EXCEPT ![t] = IF tries[t] = 0 THEN view ELSE @]
    /\ pc' = [pc EXCEPT ![t] = "sent"]
    /\ UNCHANGED <<nodeVars, members, view, unreach, backoff, kind, todo, tries, reply, gaveUp, faults>>

Send(t) ==
    /\ pc[t] = "send"
    /\ stamp' = [stamp EXCEPT ![t] = view]
    /\ pc' = [pc EXCEPT ![t] = "sent"]
    /\ UNCHANGED <<nodeVars, members, view, unreach, backoff, kind, todo, tries, reply, gaveUp, faults>>

Serve(t) ==
    /\ pc[t] = "sent"
    /\ \E a \in Answer(kind[t], stamp[t], Target(t)) :
        reply' = [reply EXCEPT ![t] = a]
    /\ pc' = [pc EXCEPT ![t] = "replied"]
    /\ UNCHANGED <<nodeVars, members, view, unreach, backoff, kind, todo, tries, stamp, gaveUp, faults>>

\* The request is over; what the task no longer looks at is cleared.
Forget(t) ==
    /\ stamp' = [stamp EXCEPT ![t] = NoView]
    /\ reply' = [reply EXCEPT ![t] = Nothing]
    /\ tries' = [tries EXCEPT ![t] = 0]

Clear(t) ==
    /\ kind' = [kind EXCEPT ![t] = "none"]
    /\ todo' = [todo EXCEPT ![t] = <<>>]
    /\ Forget(t)

Ends(t) == pc' = [pc EXCEPT ![t] = "idle"] /\ Clear(t)

(***************************************************************************)
(* The exchange failed (unreachable, stream broken, timeout; the request   *)
(* may have been served): handle_err adds to the node's backoff, and       *)
(* any_node goes on to the next node.                                      *)
(***************************************************************************)
ExchangeFails(t) ==
    /\ pc[t] \in {"sent", "replied"}
    /\ faults < MaxFaults
    /\ faults' = faults + 1
    /\ backoff' = backoff \cup {Target(t)}
    /\ IF kind[t] \in {"any", "refresh"} /\ Len(todo[t]) > 1
       THEN /\ pc' = [pc EXCEPT ![t] = "send"]
            /\ todo' = [todo EXCEPT ![t] = Tail(@)]
            /\ Forget(t)
            /\ UNCHANGED kind
       ELSE Ends(t)
    /\ UNCHANGED <<nodeVars, members, view, unreach, gaveUp>>

\* How often a request is repeated at a node that answers stale-view.
Retries(k) == CASE k = "retry" -> CallAttempts - 1
                [] k = "probe" -> 0
                [] OTHER       -> AnyRetries

\* A remote error: handle_err adopts the view it carries and nobody is
\* penalised; stale-view is retried at the same node, any other answer stands.
RemoteError(t) ==
    /\ pc[t] = "replied"
    /\ reply[t].typ \in {"stale", "refused"}
    /\ view' = IF reply[t].typ = "stale" THEN Adopted(view, reply[t].view) ELSE view
    /\ \/ /\ reply[t].typ = "stale" /\ tries[t] < Retries(kind[t])
          /\ pc' = [pc EXCEPT ![t] = "send"]
          /\ tries' = [tries EXCEPT ![t] = @ + 1]
          /\ reply' = [reply EXCEPT ![t] = Nothing]
          /\ UNCHANGED <<stamp, kind, todo, gaveUp>>
       \/ /\ reply[t].typ = "stale" /\ tries[t] >= Retries(kind[t])
          /\ pc' = [pc EXCEPT ![t] = "idle"]
          /\ gaveUp' = [gaveUp EXCEPT ![t] = TRUE]
          /\ Forget(t)
          /\ UNCHANGED <<kind, todo>>
       \/ reply[t].typ = "refused" /\ Ends(t) /\ UNCHANGED gaveUp
    /\ UNCHANGED <<nodeVars, members, unreach, backoff, faults>>

\* A reply: ok clears what was held against the node ...
ReplyOk(t) ==
    /\ pc[t] = "replied"
    /\ reply[t].typ = "ok"
    /\ backoff' = backoff \ {Target(t)}
    /\ unreach' = unreach \ {Target(t)}
    /\ pc' = [pc EXCEPT ![t] = "check"]
    /\ UNCHANGED <<nodeVars, members, view, kind, todo, tries, stamp, reply, gaveUp, faults>>

\* ... and a reply from a newer epoch spawns a refresh (the reply of a refresh
\* too, before that refresh has adopted its view).  With every slot taken the
\* spawn is left out: that refresh is as good as one that fails.
\* Mutant: a reply of the same epoch spawns one too.
CheckEpochNotNewer(t) ==
    LET free == {r \in Refreshers : pc[r] = "idle"} IN
    /\ pc[t] = "check"
    /\ \E spawned \in IF ~Behind(reply[t].view, view) /\ free # {} THEN {{r} : r \in free} ELSE {{}} :
        pc' = [u \in Tasks |-> IF u \in spawned THEN "spawned"
                               ELSE IF u # t THEN pc[u]
                               ELSE IF kind[t] = "refresh" THEN "adopt" ELSE "idle"]
    /\ IF kind[t] = "refresh"
       THEN UNCHANGED <<kind, todo, tries, stamp, reply>>
       ELSE Clear(t)
    /\ UNCHANGED <<nodeVars, members, view, unreach, backoff, gaveUp, faults>>

CheckEpoch(t) ==
    LET free == {r \in Refreshers : pc[r] = "idle"} IN
    /\ pc[t] = "check"
    /\ \E spawned \in IF Behind(view, reply[t].view) /\ free # {} THEN {{r} : r \in free} ELSE {{}} :
        pc' = [u \in Tasks |-> IF u \in spawned THEN "spawned"
                               ELSE IF u # t THEN pc[u]
                               ELSE IF kind[t] = "refresh" THEN "adopt" ELSE "idle"]
    /\ IF kind[t] = "refresh"
       THEN UNCHANGED <<kind, todo, tries, stamp, reply>>
       ELSE Clear(t)
    /\ UNCHANGED <<nodeVars, members, view, unreach, backoff, gaveUp, faults>>

\* Mutant: only the hints of the reply are taken.
AdoptReplyHintsOnly(t) ==
    /\ pc[t] = "adopt"
    /\ pc' = [pc EXCEPT ![t] = "hint"]
    /\ UNCHANGED <<nodeVars, members, view, unreach, backoff, kind, todo, tries, stamp, reply, gaveUp,
                   faults>>

\* refresh_view, adopt_reply: the view under one lock, the hints under the
\* next, even when the view was older than the cached one.
AdoptReply(t) ==
    /\ pc[t] = "adopt"
    /\ view' = Adopted(view, reply[t].view)
    /\ pc' = [pc EXCEPT ![t] = "hint"]
    /\ UNCHANGED <<nodeVars, members, unreach, backoff, kind, todo, tries, stamp, reply, gaveUp, faults>>

ReplaceHints(t) ==
    /\ pc[t] = "hint"
    /\ unreach' = reply[t].hints
    /\ Ends(t)
    /\ UNCHANGED <<nodeVars, members, view, backoff, gaveUp, faults>>

BackoffRunsOut(n) ==
    /\ n \in backoff
    /\ backoff' = backoff \ {n}
    /\ UNCHANGED <<nodeVars, members, view, unreach, taskVars, faults>>

Start(t) == StartAny(t) \/ StartCallRetry(t) \/ StartProbe(t)
Step(t) == Send(t) \/ Serve(t) \/ RemoteError(t) \/ ReplyOk(t) \/ CheckEpoch(t)
           \/ AdoptReply(t) \/ ReplaceHints(t)

Next ==
    \/ IssueView
    \/ \E n \in Nodes : NodeLearns(n) \/ BackoffRunsOut(n)
    \/ DialMemberFails
    \/ DialAgain
    \/ DialAdopts
    \/ \E t \in Users : Start(t)
    \/ \E r \in Refreshers : StartRefresh(r)
    \/ \E t \in Tasks : Step(t) \/ ExchangeFails(t)

Spec == Init /\ [][Next]_vars

(***************************************************************************)
(* Nodes gossip, so each learns of the newest view; a task that runs goes  *)
(* on; the client keeps making requests.  Exchanges fail only MaxFaults    *)
(* times and the cluster changes only MaxViews times, so both end.         *)
(***************************************************************************)
Fairness ==
    /\ \A n \in Nodes : WF_vars(NodeLearns(n))
    /\ \A t \in Users : WF_vars(StartAny(t))
    /\ \A t \in Tasks : WF_vars(Step(t))
    /\ \A r \in Refreshers : WF_vars(StartRefresh(r))
    /\ WF_vars(DialAdopts) /\ WF_vars(DialAgain)

FairSpec == Spec /\ Fairness

-----------------------------------------------------------------------------
Reply ==
    {Nothing, [typ |-> "refused"]}
    \cup [typ : {"stale"}, view : View]
    \cup [typ : {"ok"}, view : View, hints : SUBSET Nodes]

TypeOK ==
    /\ issued \subseteq View
    /\ nodeView \in [Nodes -> View]
    /\ members \in Seq(Nodes)
    /\ view \in View \cup {NoView}
    /\ unreach \subseteq Nodes
    /\ backoff \subseteq Nodes
    /\ pc \in [Tasks -> {"idle", "spawned", "send", "sent", "replied", "check", "adopt", "hint"}]
    /\ kind \in [Tasks -> Kinds]
    /\ todo \in [Tasks -> Seq(Nodes)]
    /\ tries \in [Tasks -> Nat]
    /\ stamp \in [Tasks -> View \cup {NoView}]
    /\ reply \in [Tasks -> Reply]
    /\ gaveUp \in [Tasks -> BOOLEAN]
    /\ faults \in 0..MaxFaults

\* The cached view never goes back in (incarnation, epoch, version), however
\* the replies of concurrent calls and refreshes are ordered: adopt compares
\* and replaces under one lock.
ViewNeverGoesBack ==
    [][view # NoView /\ view' # view => Newer(view', view)]_vars

\* What the comment in any_node relies on: stale-view comes with a view and the
\* retry carries it, so a request that still ends in stale-view met a node
\* whose epoch moved once more for each attempt.
EpochsUpTo(v) == {<<w.inc, w.epoch>> : w \in {u \in issued : ~Newer(u, v)}}

StaleNeedsChurn ==
    /\ TypeOK
    /\ \A t \in Tasks : gaveUp[t] =>
        Cardinality(EpochsUpTo(nodeView[Target(t)])) > Retries(kind[t]) + 1

\* The client does not stay behind the cluster: whoever notices a newer epoch
\* (a stale-view error, an epoch in a reply) brings its view.
EpochCatchesUp == <>[](view # NoView /\ SameEpoch(view, Latest))

\* Refreshes spawn refreshes, and still die out once the cluster is quiet.
RefreshesEnd == <>[](\A r \in Refreshers : pc[r] = "idle")
=============================================================================
