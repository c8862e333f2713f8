--------------------------- MODULE ClusterProofs ---------------------------
(***************************************************************************)
(* For any nodes, tasks, retry counts and any number of views and failed   *)
(* exchanges: the cached view never goes back, and a request gives up on   *)
(* stale-view only at a node whose epoch moved once more for each attempt. *)
(***************************************************************************)
EXTENDS Cluster, FiniteSetTheorems, SequenceTheorems, TLAPS

\* Every view about is one the cluster had, and one of those is the newest.
Views ==
    /\ IsFiniteSet(issued)
    /\ \E v \in issued : \A w \in issued : ~Newer(w, v)
    /\ nodeView \in [Nodes -> issued]
    /\ view \in issued \cup {NoView}
    /\ \A t \in Tasks : reply[t].typ \in {"stale", "ok"} => reply[t].view \in issued

\* Before dial has brought a view nobody runs and nobody is suspected.
Quiet == view = NoView => unreach = {} /\ \A t \in Tasks : pc[t] = "idle"

\* A task at work has a node to ask, and looks into ok replies only; one that
\* gave up keeps the node it asked until it begins anew.
Working(t) ==
    /\ pc[t] \notin {"idle", "spawned"} \/ gaveUp[t] => todo[t] # <<>>
    /\ pc[t] \in {"check", "adopt", "hint"} => reply[t].typ = "ok"
    /\ gaveUp[t] => pc[t] \in {"idle", "spawned"}

\* How many epochs there are among the views of I that are not newer than v.
EpochsIn(I, v) == {<<w.inc, w.epoch>> : w \in {u \in I : ~Newer(u, v)}}
Epochs(I, v) == Cardinality(EpochsIn(I, v))

\* With each attempt the epoch a task has seen is a later one.
Climbs(t) ==
    /\ pc[t] = "send" => Epochs(issued, view) >= tries[t] + 1
    /\ pc[t] = "sent" => stamp[t] \in issued /\ Epochs(issued, stamp[t]) >= tries[t] + 1
    /\ pc[t] = "replied" /\ reply[t].typ = "stale" =>
        /\ Epochs(issued, reply[t].view) >= tries[t] + 2
        /\ ~Newer(reply[t].view, nodeView[Target(t)])
    /\ gaveUp[t] => Epochs(issued, nodeView[Target(t)]) > Retries(kind[t]) + 1

IInv ==
    /\ TypeOK
    /\ Views
    /\ Quiet
    /\ \A t \in Tasks : Working(t) /\ Climbs(t)

-----------------------------------------------------------------------------
\* No view is the absence of one.
LEMMA ViewIsNotNone == \A v \in View : v # NoView
<1> SUFFICES ASSUME NEW v \in View, v = NoView PROVE FALSE
    OBVIOUS
<1>1. "ver" \in DOMAIN v
    BY DEF View
<1>2. "ver" \notin DOMAIN NoView
    BY DEF NoView
<1> QED
    BY <1>1, <1>2

\* The order of views.
LEMMA NewerOrder ==
    /\ \A v, w \in View : Newer(v, w) => ~Newer(w, v)
    /\ \A u, v, w \in View : ~Newer(u, v) /\ ~Newer(v, w) => ~Newer(u, w)
    /\ \A u, v, w \in View : ~Newer(u, v) /\ Newer(w, v) => ~Newer(u, w)
    /\ \A v \in View : ~Newer(v, v)
    /\ \A v, w \in View : Behind(v, w) => Newer(w, v)
    /\ \A v, w \in View : v.inc \in Nat /\ v.epoch \in Nat /\ v.ver \in Nat
    BY DEF View, Newer, Behind, SameEpoch

\* The views that may follow a view are newer.
LEMMA NextViews ==
    ASSUME NEW v \in View
    PROVE  /\ [v EXCEPT !.ver = @ + 1] \in View
           /\ Newer([v EXCEPT !.ver = @ + 1], v)
           /\ [inc |-> v.inc, epoch |-> v.epoch + 1, ver |-> v.ver + 1] \in View
           /\ Newer([inc |-> v.inc, epoch |-> v.epoch + 1, ver |-> v.ver + 1], v)
           /\ [FirstView EXCEPT !.inc = v.inc + 1] \in View
           /\ Newer([FirstView EXCEPT !.inc = v.inc + 1], v)
<1>1. v.inc \in Nat /\ v.epoch \in Nat /\ v.ver \in Nat /\ v = [inc |-> v.inc, epoch |-> v.epoch, ver |-> v.ver]
    BY DEF View
<1>2. [v EXCEPT !.ver = @ + 1] = [inc |-> v.inc, epoch |-> v.epoch, ver |-> v.ver + 1]
    BY <1>1
<1>3. [FirstView EXCEPT !.inc = v.inc + 1] = [inc |-> v.inc + 1, epoch |-> 1, ver |-> 1]
    BY <1>1 DEF FirstView
<1> QED
    BY <1>1, <1>2, <1>3 DEF View, Newer, Behind, SameEpoch

\* adopt keeps the newer of the two views.
LEMMA AdoptedIsNewer ==
    ASSUME NEW v \in View, NEW cur \in View \cup {NoView}
    PROVE  /\ Adopted(cur, v) \in {cur, v} /\ Adopted(cur, v) \in View
           /\ cur # NoView /\ Adopted(cur, v) # cur => Newer(Adopted(cur, v), cur)
           /\ cur # NoView => ~Newer(cur, Adopted(cur, v))
           /\ ~Newer(v, Adopted(cur, v))
<1>1. CASE cur = NoView
    BY <1>1, NewerOrder DEF Adopted
<1>2. CASE cur # NoView
    BY <1>2 DEF Adopted, View, Newer, Behind, SameEpoch
<1> QED
    BY <1>1, <1>2

LEMMA LatestIsNewest ==
    ASSUME Views
    PROVE  Latest \in issued /\ \A w \in issued : ~Newer(w, Latest)
    BY DEF Views, Latest

\* The epochs up to a view are finitely many, no fewer up to a later view, one
\* more at least up to a view of a later epoch.
LEMMA EpochsCount ==
    ASSUME NEW I, IsFiniteSet(I), I \subseteq View
    PROVE  /\ \A v \in I : IsFiniteSet(EpochsIn(I, v)) /\ Epochs(I, v) \in Nat
           /\ \A v, w \in I : ~Newer(v, w) => Epochs(I, v) <= Epochs(I, w)
           /\ \A v, w \in I : Behind(v, w) => Epochs(I, v) + 1 <= Epochs(I, w)
           /\ \A v \in I : Epochs(I, v) >= 1
<1>1. ASSUME NEW v \in I
      PROVE  IsFiniteSet(EpochsIn(I, v)) /\ Epochs(I, v) \in Nat /\ <<v.inc, v.epoch>> \in EpochsIn(I, v)
  <2> DEFINE older == {u \in I : ~Newer(u, v)}
             f == [w \in older |-> <<w.inc, w.epoch>>]
  <2>1. IsFiniteSet(older)
    BY FS_Subset
  <2>2. f \in Surjection(older, EpochsIn(I, v))
    BY DEF EpochsIn, Surjection
  <2>3. IsFiniteSet(EpochsIn(I, v))
    <3> HIDE DEF f, older
    <3> QED
      BY <2>1, <2>2, FS_Surjection
  <2>4. v \in older
    BY NewerOrder
  <2> QED
    BY <2>3, <2>4, FS_CardinalityType DEF EpochsIn, Epochs
<1>2. ASSUME NEW v \in I, NEW w \in I, ~Newer(v, w)
      PROVE  EpochsIn(I, v) \subseteq EpochsIn(I, w)
  <2>1. \A u \in I : ~Newer(u, v) => ~Newer(u, w)
    BY <1>2, NewerOrder
  <2> QED
    BY <2>1 DEF EpochsIn
<1>3. ASSUME NEW v \in I, NEW w \in I, ~Newer(v, w)
      PROVE  Epochs(I, v) <= Epochs(I, w)
    BY <1>1, <1>2, <1>3, FS_Subset DEF Epochs
<1>4. ASSUME NEW v \in I, NEW w \in I, Behind(v, w)
      PROVE  Epochs(I, v) + 1 <= Epochs(I, w)
  <2> DEFINE new == <<w.inc, w.epoch>>
  <2>1. ~Newer(v, w)
    BY <1>4, NewerOrder
  <2>2. new \notin EpochsIn(I, v)
    <3> SUFFICES ASSUME NEW u \in I, ~Newer(u, v), u.inc = w.inc, u.epoch = w.epoch
                 PROVE  FALSE
      BY DEF EpochsIn
    <3> QED
      BY <1>4, NewerOrder DEF Newer, Behind
  <2>3. EpochsIn(I, v) \cup {new} \subseteq EpochsIn(I, w)
    BY <1>1, <1>2, <2>1
  <2>4. Cardinality(EpochsIn(I, v) \cup {new}) = Epochs(I, v) + 1
    BY <1>1, <2>2, FS_AddElement DEF Epochs
  <2>5. IsFiniteSet(EpochsIn(I, w))
    BY <1>1
  <2>6. Cardinality(EpochsIn(I, v) \cup {new}) <= Cardinality(EpochsIn(I, w))
    BY <2>3, <2>5, FS_Subset
  <2> QED
    BY <2>4, <2>6 DEF Epochs
<1>5. ASSUME NEW v \in I PROVE Epochs(I, v) >= 1
  <2>1. IsFiniteSet(EpochsIn(I, v)) /\ Epochs(I, v) \in Nat /\ EpochsIn(I, v) # {}
    BY <1>1
  <2>2. Epochs(I, v) # 0
    BY <2>1, FS_EmptySet DEF Epochs
  <2> QED
    BY <2>1, <2>2
<1> QED
    BY <1>1, <1>3, <1>4, <1>5

\* New views only add epochs.
LEMMA EpochsGrow ==
    ASSUME NEW I, NEW J, I \subseteq J, IsFiniteSet(J), J \subseteq View, NEW v \in I
    PROVE  Epochs(I, v) <= Epochs(J, v)
<1>1. EpochsIn(I, v) \subseteq EpochsIn(J, v)
    BY DEF EpochsIn
<1>2. IsFiniteSet(EpochsIn(J, v))
    BY EpochsCount
<1> QED
    BY <1>1, <1>2, FS_Subset DEF Epochs

\* What a node may answer.
LEMMA AnswerType ==
    ASSUME TypeOK, Views, NEW k, NEW s, NEW n \in Nodes, NEW a \in Answer(k, s, n)
    PROVE  /\ a \in Reply /\ a.typ \in {"ok", "stale", "refused"}
           /\ a.typ \in {"ok", "stale"} => a.view = nodeView[n] /\ nodeView[n] \in issued
           /\ a.typ = "ok" => a.hints \subseteq Nodes
           /\ a.typ = "stale" => Behind(s, nodeView[n])
           /\ k = "refresh" => a.typ = "ok"
<1>1. nodeView[n] \in View /\ nodeView[n] \in issued
    BY DEF TypeOK, Views
<1> QED
    BY <1>1 DEF Answer, Reply, EpochChecked

\* Orders of nodes are sequences that are not empty.
LEMMA Orders ==
    /\ \A o \in Preferred : o \in Seq(Nodes) /\ o # <<>>
    /\ \A m \in TicketMembers : m \in Seq(Nodes) /\ m # <<>>
    /\ \A s \in Seq(Nodes) : s # <<>> => Head(s) \in Nodes /\ Tail(s) \in Seq(Nodes)
    /\ \A s \in Seq(Nodes) : Len(s) > 1 => Tail(s) # <<>>
<1>1. Cardinality(Nodes) \in Nat \ {0}
    BY ClusterAssumption, FS_CardinalityType, FS_EmptySet
<1>2. ASSUME NEW n \in Nat \ {0}, NEW o \in [1..n -> Nodes]
      PROVE  o \in Seq(Nodes) /\ o # <<>>
    BY <1>2
<1>3. \A o \in Preferred : o \in Seq(Nodes) /\ o # <<>>
    BY <1>1, <1>2 DEF Preferred
<1>4. \A m \in TicketMembers : m \in Seq(Nodes) /\ m # <<>>
    BY <1>1, <1>2 DEF TicketMembers
<1>5. \A s \in Seq(Nodes) : s # <<>> => Head(s) \in Nodes /\ Tail(s) \in Seq(Nodes)
    OBVIOUS
<1>6. ASSUME NEW s \in Seq(Nodes), Len(s) > 1 PROVE Tail(s) # <<>>
  <2>1. Len(Tail(s)) = Len(s) - 1
    BY <1>6
  <2>2. Len(Tail(s)) # 0
    <3>1. Len(s) \in Nat
      OBVIOUS
    <3> DEFINE n == Len(s)
               m == Len(Tail(s))
    <3>2. n \in Nat /\ n > 1 /\ m = n - 1
      BY <1>6, <2>1, <3>1
    <3> SUFFICES m # 0
      OBVIOUS
    <3> HIDE DEF n, m
    <3> QED
      BY <3>2
  <2>3. Len(<<>>) = 0
    OBVIOUS
  <2> QED
    BY <2>2, <2>3, Zenon
<1> QED
    BY <1>3, <1>4, <1>5, <1>6

LEMMA InitIInv == Init => IInv
<1> SUFFICES ASSUME Init PROVE IInv
    OBVIOUS
<1> USE DEF Init
<1>1. FirstView \in View
    BY DEF FirstView, View
<1>2. TypeOK
  <2>1. Nothing \in Reply
    BY DEF Reply
  <2> QED
    BY <1>1, <2>1, Orders, ClusterAssumption DEF TypeOK, Kinds
<1>3. Views
    BY <1>1, NewerOrder, FS_Singleton DEF Views, Nothing
<1> QED
    BY <1>2, <1>3 DEF IInv, Quiet, Working, Climbs

-----------------------------------------------------------------------------
\* The types of what a task keeps.
TaskTypes ==
    /\ pc \in [Tasks -> {"idle", "spawned", "send", "sent", "replied", "check", "adopt", "hint"}]
    /\ kind \in [Tasks -> Kinds]
    /\ todo \in [Tasks -> Seq(Nodes)]
    /\ tries \in [Tasks -> Nat]
    /\ stamp \in [Tasks -> View \cup {NoView}]
    /\ reply \in [Tasks -> Reply]
    /\ gaveUp \in [Tasks -> BOOLEAN]

LEMMA BeginTypes ==
    ASSUME TypeOK, NEW t \in Tasks, NEW k \in Kinds, NEW order \in Seq(Nodes), Begin(t, k, order)
    PROVE  TaskTypes'
<1>1. Nothing \in Reply
    BY DEF Reply
<1> QED
    BY <1>1 DEF TypeOK, TaskTypes, Begin

LEMMA ForgetTypes ==
    ASSUME TypeOK, NEW t \in Tasks, Forget(t)
    PROVE  /\ tries' \in [Tasks -> Nat]
           /\ stamp' \in [Tasks -> View \cup {NoView}]
           /\ reply' \in [Tasks -> Reply]
<1>1. Nothing \in Reply
    BY DEF Reply
<1> QED
    BY <1>1 DEF TypeOK, Forget

LEMMA ClearTypes ==
    ASSUME TypeOK, NEW t \in Tasks, Clear(t)
    PROVE  /\ kind' \in [Tasks -> Kinds] /\ todo' \in [Tasks -> Seq(Nodes)]
           /\ tries' \in [Tasks -> Nat]
           /\ stamp' \in [Tasks -> View \cup {NoView}]
           /\ reply' \in [Tasks -> Reply]
<1>1. "none" \in Kinds /\ <<>> \in Seq(Nodes)
    BY DEF Kinds
<1> QED
    BY <1>1, ForgetTypes DEF TypeOK, Clear

\* What the fields of a reply are.
LEMMA ReplyFields ==
    ASSUME NEW a \in Reply
    PROVE  /\ a.typ \in {"stale", "ok"} => a.view \in View
           /\ a.typ = "ok" => a.hints \subseteq Nodes
    BY DEF Reply, Nothing

LEMMA RetriesCount == \A k \in Kinds : Retries(k) \in Nat
    BY ClusterAssumption DEF Retries

\* The three ways a remote error goes on: once more at the same node, given up,
\* or the answer stands.
Again(t) ==
    /\ reply[t].typ = "stale"
    /\ pc' = [pc EXCEPT ![t] = "send"]
    /\ tries' = [tries EXCEPT ![t] = @ + 1]
    /\ reply' = [reply EXCEPT ![t] = Nothing]
    /\ UNCHANGED <<stamp, kind, todo, gaveUp>>

GivesUp(t) ==
    /\ reply[t].typ = "stale" /\ tries[t] >= Retries(kind[t])
    /\ pc' = [pc EXCEPT ![t] = "idle"]
    /\ gaveUp' = [gaveUp EXCEPT ![t] = TRUE]
    /\ Forget(t)
    /\ UNCHANGED <<kind, todo>>

Stands(t) == reply[t].typ = "refused" /\ Ends(t) /\ UNCHANGED gaveUp

LEMMA RemoteErrorCases ==
    ASSUME NEW t \in Tasks, RemoteError(t)
    PROVE  /\ Again(t) \/ GivesUp(t) \/ Stands(t)
           /\ pc[t] = "replied"
           /\ view' = IF reply[t].typ = "stale" THEN Adopted(view, reply[t].view) ELSE view
           /\ UNCHANGED <<nodeVars, members, unreach, backoff, faults>>
    BY DEF RemoteError, Again, GivesUp, Stands

\* Tasks and tickets, nodes and views keep their types.
LEMMA TypeStep ==
    ASSUME IInv, [Next]_vars
    PROVE  TypeOK'
<1> USE DEF IInv, nodeVars, taskVars
<1>0. /\ Nothing \in Reply /\ Users \subseteq Tasks /\ Refreshers \subseteq Tasks
      /\ MaxFaults \in Nat
    BY ClusterAssumption DEF Reply, Tasks
<1>1. CASE IssueView
  <2>1. Latest \in View
    BY LatestIsNewest DEF TypeOK
  <2>2. /\ [Latest EXCEPT !.ver = @ + 1] \in View
        /\ [inc |-> Latest.inc, epoch |-> Latest.epoch + 1, ver |-> Latest.ver + 1] \in View
        /\ [FirstView EXCEPT !.inc = Latest.inc + 1] \in View
    BY <2>1, NextViews
  <2>3. issued' \subseteq View
    BY <1>1, <2>2 DEF IssueView, TypeOK
  <2> QED
    BY <1>1, <2>3 DEF IssueView, TypeOK
<1>2. ASSUME NEW n \in Nodes, NodeLearns(n) PROVE TypeOK'
  <2>1. Latest \in View
    BY LatestIsNewest DEF TypeOK
  <2> QED
    BY <1>2, <2>1 DEF NodeLearns, TypeOK
<1>3. ASSUME NEW n \in Nodes, BackoffRunsOut(n) PROVE TypeOK'
    BY <1>3 DEF BackoffRunsOut, TypeOK
<1>4. CASE DialMemberFails
    BY <1>0, <1>4, Orders DEF DialMemberFails, TypeOK
<1>5. CASE DialAgain
    BY <1>5, Orders DEF DialAgain, TypeOK
<1>6. CASE DialAdopts
  <2>1. Head(members) \in Nodes
    BY <1>6, Orders DEF DialAdopts, TypeOK
  <2>2. PICK a \in Answer("refresh", NoView, Head(members)) :
            view' = Adopted(view, a.view) /\ unreach' = a.hints
    BY <1>6 DEF DialAdopts
  <2>3. a.typ = "ok" /\ a.view \in View /\ a.hints \subseteq Nodes
    BY <2>1, AnswerType, ReplyFields
  <2>4. view' \in View /\ unreach' \subseteq Nodes
    BY <2>2, <2>3, AdoptedIsNewer DEF TypeOK
  <2>5. members' \in Seq(Nodes)
    BY <1>6 DEF DialAdopts
  <2> QED
    BY <1>6, <2>4, <2>5 DEF DialAdopts, TypeOK
<1>7. ASSUME NEW t \in Users, Start(t) PROVE TypeOK'
  <2>1. ASSUME NEW n \in Nodes PROVE <<n>> \in Seq(Nodes)
    OBVIOUS
  <2>2. TaskTypes'
    <3>1. \E k \in Kinds, o \in Seq(Nodes) : Begin(t, k, o)
      <4>1. CASE StartAny(t)
        BY <4>1, Orders DEF StartAny, Kinds
      <4>2. CASE StartCallRetry(t)
        BY <2>1, <4>2 DEF StartCallRetry, Kinds
      <4>3. CASE StartProbe(t)
        BY <2>1, <4>3 DEF StartProbe, Kinds, TypeOK
      <4> QED
        BY <1>7, <4>1, <4>2, <4>3 DEF Start
    <3> QED
      BY <1>0, <3>1, BeginTypes
  <2>3. UNCHANGED <<issued, nodeView, members, view, unreach, backoff, faults>>
    BY <1>7 DEF Start, StartAny, StartCallRetry, StartProbe
  <2> QED
    BY <2>2, <2>3 DEF TypeOK, TaskTypes
<1>8. ASSUME NEW r \in Refreshers, StartRefresh(r) PROVE TypeOK'
  <2>1. TaskTypes'
    BY <1>0, <1>8, Orders, BeginTypes DEF StartRefresh, Kinds
  <2> QED
    BY <1>8, <2>1 DEF TypeOK, TaskTypes, StartRefresh
<1>9. ASSUME NEW t \in Tasks, Send(t) PROVE TypeOK'
    BY <1>9 DEF Send, TypeOK
<1>10. ASSUME NEW t \in Tasks, Serve(t) PROVE TypeOK'
  <2>1. Target(t) \in Nodes
    BY <1>10, Orders DEF Serve, Working, Target, TypeOK
  <2>2. reply' \in [Tasks -> Reply]
    BY <1>10, <2>1, AnswerType DEF Serve, TypeOK
  <2> QED
    BY <1>10, <2>2 DEF Serve, TypeOK
<1>11. ASSUME NEW t \in Tasks, RemoteError(t) PROVE TypeOK'
  <2>1. view' \in View \cup {NoView}
    <3>1. reply[t].typ = "stale" => reply[t].view \in View
      BY ReplyFields DEF TypeOK
    <3> QED
      BY <1>11, <3>1, AdoptedIsNewer DEF RemoteError, TypeOK
  <2>2. UNCHANGED <<issued, nodeView, members, unreach, backoff, faults>>
    BY <1>11, RemoteErrorCases
  <2>3. TaskTypes'
    <3>1. CASE Again(t)
      BY <1>0, <3>1 DEF Again, TypeOK, TaskTypes
    <3>2. CASE GivesUp(t)
      BY <3>2, ForgetTypes DEF GivesUp, TypeOK, TaskTypes
    <3>3. CASE Stands(t)
      BY <3>3, ClearTypes DEF Stands, Ends, TypeOK, TaskTypes
    <3> QED
      BY <1>11, <3>1, <3>2, <3>3, RemoteErrorCases
  <2> QED
    BY <2>1, <2>2, <2>3 DEF TypeOK, TaskTypes
<1>12. ASSUME NEW t \in Tasks, ReplyOk(t) PROVE TypeOK'
    BY <1>12 DEF ReplyOk, TypeOK
<1>13. ASSUME NEW t \in Tasks, CheckEpoch(t) PROVE TypeOK'
  <2>1. pc' \in [Tasks -> {"idle", "spawned", "send", "sent", "replied", "check", "adopt", "hint"}]
    BY <1>13 DEF CheckEpoch, TypeOK
  <2>2. CASE kind[t] = "refresh"
    BY <1>13, <2>1, <2>2 DEF CheckEpoch, TypeOK
  <2>3. CASE kind[t] # "refresh"
    BY <1>13, <2>1, <2>3, ClearTypes DEF CheckEpoch, TypeOK
  <2> QED
    BY <2>2, <2>3
<1>14. ASSUME NEW t \in Tasks, AdoptReply(t) PROVE TypeOK'
  <2>1. reply[t].view \in View
    BY <1>14, ReplyFields DEF AdoptReply, Working, TypeOK
  <2>2. view' \in View
    BY <1>14, <2>1, AdoptedIsNewer DEF AdoptReply, TypeOK
  <2> QED
    BY <1>14, <2>2 DEF AdoptReply, TypeOK
<1>15. ASSUME NEW t \in Tasks, ReplaceHints(t) PROVE TypeOK'
  <2>1. reply[t].hints \subseteq Nodes
    BY <1>15, ReplyFields DEF ReplaceHints, Working, TypeOK
  <2> QED
    BY <1>15, <2>1, ClearTypes DEF ReplaceHints, Ends, TypeOK
<1>16. ASSUME NEW t \in Tasks, ExchangeFails(t) PROVE TypeOK'
  <2>1. Target(t) \in Nodes /\ Tail(todo[t]) \in Seq(Nodes)
    BY <1>16, Orders DEF ExchangeFails, Working, Target, TypeOK
  <2>2. faults' \in 0..MaxFaults
    BY <1>0, <1>16 DEF ExchangeFails, TypeOK
  <2>3. CASE kind[t] \in {"any", "refresh"} /\ Len(todo[t]) > 1
    BY <1>16, <2>1, <2>2, <2>3, ForgetTypes, ZenonT(30) DEF ExchangeFails, TypeOK
  <2>4. CASE ~(kind[t] \in {"any", "refresh"} /\ Len(todo[t]) > 1)
    BY <1>16, <2>1, <2>2, <2>4, ClearTypes DEF ExchangeFails, Ends, TypeOK
  <2> QED
    BY <2>3, <2>4
<1>17. CASE UNCHANGED vars
    BY <1>17 DEF vars, TypeOK
<1> QED
    BY <1>1, <1>2, <1>3, <1>4, <1>5, <1>6, <1>7, <1>8, <1>9, <1>10, <1>11, <1>12, <1>13, <1>14,
       <1>15, <1>16, <1>17 DEF Next, Step

\* The views only move on: those issued, the cached one and those of the nodes.
Grows ==
    /\ issued \subseteq issued'
    /\ view # NoView => view' # NoView /\ ~Newer(view, view') /\ (view' # view => Newer(view', view))
    /\ \A n \in Nodes : ~Newer(nodeView[n], nodeView'[n])

LEMMA ReplyViews ==
    ASSUME Views, TypeOK, reply' \in [Tasks -> Reply], issued' = issued,
           \A u \in Tasks : reply'[u] # reply[u] =>
                \/ reply'[u] = Nothing
                \/ reply'[u].typ \in {"stale", "ok"} => reply'[u].view \in issued
    PROVE  \A u \in Tasks : reply'[u].typ \in {"stale", "ok"} => reply'[u].view \in issued'
    BY DEF Views, Nothing

\* What Forget leaves of the replies.
LEMMA Forgotten ==
    ASSUME TypeOK, NEW t \in Tasks, Forget(t)
    PROVE  \A u \in Tasks : reply'[u] # reply[u] => reply'[u] = Nothing
    BY DEF Forget, TypeOK

LEMMA ViewsStep ==
    ASSUME IInv, [Next]_vars
    PROVE  Views' /\ Grows
<1> USE DEF IInv, nodeVars, taskVars
<1>0. /\ TypeOK' /\ issued \subseteq View /\ \A n \in Nodes : nodeView[n] \in View
      /\ view \in View \cup {NoView} /\ \A v \in View : ~Newer(v, v)
      /\ Users \subseteq Tasks /\ Refreshers \subseteq Tasks
    BY TypeStep, NewerOrder DEF TypeOK, Tasks
<1>1. CASE IssueView
  <2>1. Latest \in View /\ Latest \in issued
    BY LatestIsNewest DEF TypeOK
  <2>2. PICK w \in View : issued' = issued \cup {w} /\ Newer(w, Latest)
    BY <1>1, <2>1, NextViews DEF IssueView
  <2>3. \A u \in issued : ~Newer(u, w)
    BY <1>0, <2>1, <2>2, LatestIsNewest, NewerOrder
  <2>4. IsFiniteSet(issued') /\ \E v \in issued' : \A u \in issued' : ~Newer(u, v)
    BY <1>0, <2>2, <2>3, FS_AddElement DEF Views
  <2>5. UNCHANGED <<nodeView, view, reply>>
    BY <1>1 DEF IssueView
  <2> QED
    BY <1>0, <2>2, <2>4, <2>5 DEF Views, Grows
<1>2. ASSUME NEW n \in Nodes, NodeLearns(n) PROVE Views' /\ Grows
  <2>1. UNCHANGED <<issued, view, reply>> /\ nodeView' = [nodeView EXCEPT ![n] = Latest]
    BY <1>2 DEF NodeLearns
  <2>2. nodeView' \in [Nodes -> issued]
    BY <2>1, LatestIsNewest DEF Views
  <2>3. \A m \in Nodes : ~Newer(nodeView[m], nodeView'[m])
    BY <1>0, <2>1, LatestIsNewest DEF Views
  <2> QED
    BY <1>0, <2>1, <2>2, <2>3 DEF Views, Grows
<1>3. ASSUME UNCHANGED <<issued, nodeView, view>>,
             \A u \in Tasks : reply'[u] # reply[u] =>
                \/ reply'[u] = Nothing
                \/ reply'[u].typ \in {"stale", "ok"} => reply'[u].view \in issued
      PROVE  Views' /\ Grows
  <2>1. \A u \in Tasks : reply'[u].typ \in {"stale", "ok"} => reply'[u].view \in issued'
    BY <1>0, <1>3, ReplyViews DEF TypeOK
  <2> QED
    BY <1>0, <1>3, <2>1 DEF Views, Grows
<1>4. ASSUME NEW v \in issued, view' = Adopted(view, v), UNCHANGED <<issued, nodeView>>,
             \A u \in Tasks : reply'[u] # reply[u] => reply'[u] = Nothing
      PROVE  Views' /\ Grows
  <2>1. \A u \in Tasks : reply'[u].typ \in {"stale", "ok"} => reply'[u].view \in issued'
    BY <1>0, <1>4, ReplyViews DEF TypeOK
  <2>2. view' \in issued \cup {NoView}
    BY <1>0, <1>4, AdoptedIsNewer DEF Views
  <2>3. view # NoView => view' # NoView /\ ~Newer(view, view') /\ (view' # view => Newer(view', view))
    BY <1>0, <1>4, AdoptedIsNewer, ViewIsNotNone
  <2> QED
    BY <1>0, <1>4, <2>1, <2>2, <2>3 DEF Views, Grows
<1>5. CASE DialAdopts
  <2>1. Head(members) \in Nodes
    BY <1>5, Orders DEF DialAdopts, TypeOK
  <2>2. PICK a \in Answer("refresh", NoView, Head(members)) : view' = Adopted(view, a.view)
    BY <1>5 DEF DialAdopts
  <2>3. a.view \in issued
    BY <2>1, AnswerType
  <2> QED
    BY <1>4, <1>5, <2>2, <2>3 DEF DialAdopts
<1>6. ASSUME NEW t \in Users, Start(t) PROVE Views' /\ Grows
  <2>1. UNCHANGED <<issued, nodeView, view>>
    BY <1>6 DEF Start, StartAny, StartCallRetry, StartProbe
  <2>2. reply' = [reply EXCEPT ![t] = Nothing]
    BY <1>6 DEF Start, StartAny, StartCallRetry, StartProbe, Begin
  <2> QED
    BY <1>0, <1>3, <2>1, <2>2 DEF TypeOK
<1>7. ASSUME NEW r \in Refreshers, StartRefresh(r) PROVE Views' /\ Grows
    BY <1>0, <1>3, <1>7 DEF StartRefresh, Begin, TypeOK
<1>8. ASSUME NEW t \in Tasks, Send(t) \/ ReplyOk(t) PROVE Views' /\ Grows
    BY <1>3, <1>8 DEF Send, ReplyOk
<1>9. ASSUME NEW t \in Tasks, Serve(t) PROVE Views' /\ Grows
  <2>1. Target(t) \in Nodes
    BY <1>9, Orders DEF Serve, Working, Target, TypeOK
  <2>2. PICK a \in Answer(kind[t], stamp[t], Target(t)) : reply' = [reply EXCEPT ![t] = a]
    BY <1>9 DEF Serve
  <2>3. a.typ \in {"stale", "ok"} => a.view \in issued
    BY <2>1, AnswerType
  <2>4. \A u \in Tasks : reply'[u] # reply[u] => reply'[u] = a
    BY <2>2 DEF TypeOK
  <2> QED
    BY <1>3, <1>9, <2>3, <2>4 DEF Serve
<1>10. ASSUME NEW t \in Tasks, RemoteError(t) PROVE Views' /\ Grows
  <2>1. \A u \in Tasks : reply'[u] # reply[u] => reply'[u] = Nothing
    <3>1. CASE Again(t)
      BY <3>1 DEF Again, TypeOK
    <3>2. CASE GivesUp(t)
      BY <3>2, Forgotten DEF GivesUp
    <3>3. CASE Stands(t)
      BY <3>3, Forgotten DEF Stands, Ends, Clear
    <3> QED
      BY <1>10, <3>1, <3>2, <3>3, RemoteErrorCases
  <2>2. UNCHANGED <<issued, nodeView>>
    BY <1>10, RemoteErrorCases
  <2>3. CASE reply[t].typ = "stale"
    <3>1. reply[t].view \in issued /\ view' = Adopted(view, reply[t].view)
      BY <1>10, <2>3, RemoteErrorCases DEF Views
    <3> QED
      BY <1>4, <2>1, <2>2, <3>1
  <2>4. CASE reply[t].typ # "stale"
    BY <1>3, <1>10, <2>1, <2>2, <2>4, RemoteErrorCases
  <2> QED
    BY <2>3, <2>4
<1>11. ASSUME NEW t \in Tasks, CheckEpoch(t) PROVE Views' /\ Grows
  <2>1. \A u \in Tasks : reply'[u] # reply[u] => reply'[u] = Nothing
    BY <1>11, Forgotten DEF CheckEpoch, Clear
  <2> QED
    BY <1>3, <1>11, <2>1 DEF CheckEpoch
<1>12. ASSUME NEW t \in Tasks, AdoptReply(t) PROVE Views' /\ Grows
  <2>1. reply[t].view \in issued
    BY <1>12 DEF AdoptReply, Working, Views
  <2> QED
    BY <1>4, <1>12, <2>1 DEF AdoptReply
<1>13. ASSUME NEW t \in Tasks, ReplaceHints(t) PROVE Views' /\ Grows
  <2>1. \A u \in Tasks : reply'[u] # reply[u] => reply'[u] = Nothing
    BY <1>13, Forgotten DEF ReplaceHints, Ends, Clear
  <2> QED
    BY <1>3, <1>13, <2>1 DEF ReplaceHints
<1>14. ASSUME NEW t \in Tasks, ExchangeFails(t) PROVE Views' /\ Grows
  <2>1. \A u \in Tasks : reply'[u] # reply[u] => reply'[u] = Nothing
    BY <1>14, Forgotten DEF ExchangeFails, Ends, Clear
  <2> QED
    BY <1>3, <1>14, <2>1 DEF ExchangeFails
<1>15. CASE DialMemberFails \/ DialAgain \/ (\E n \in Nodes : BackoffRunsOut(n)) \/ UNCHANGED vars
    BY <1>3, <1>15 DEF DialMemberFails, DialAgain, BackoffRunsOut, vars
<1> QED
    BY <1>1, <1>2, <1>5, <1>6, <1>7, <1>8, <1>9, <1>10, <1>11, <1>12, <1>13, <1>14, <1>15
       DEF Next, Step

\* Only dial runs before there is a view.
LEMMA QuietStep ==
    ASSUME IInv, [Next]_vars
    PROVE  Quiet'
<1> SUFFICES ASSUME view' = NoView
             PROVE  unreach' = {} /\ \A t \in Tasks : pc'[t] = "idle"
    BY DEF Quiet
<1> USE DEF IInv, nodeVars, taskVars
<1>1. view = NoView /\ unreach = {} /\ \A t \in Tasks : pc[t] = "idle"
    BY ViewsStep DEF Grows, Quiet
<1>2. Users \subseteq Tasks /\ Refreshers \subseteq Tasks
    BY DEF Tasks
<1>3. ~DialAdopts
  <2> SUFFICES ASSUME DialAdopts PROVE FALSE
    OBVIOUS
  <2>1. Head(members) \in Nodes
    BY Orders DEF DialAdopts, TypeOK
  <2>2. PICK a \in Answer("refresh", NoView, Head(members)) : view' = Adopted(view, a.view)
    BY DEF DialAdopts
  <2>3. a.view \in issued
    BY <2>1, AnswerType
  <2>4. a.view \in View /\ view \in View \cup {NoView}
    BY <2>3 DEF TypeOK
  <2> QED
    BY <2>2, <2>4, AdoptedIsNewer, ViewIsNotNone
<1>4. \A t \in Tasks : ~Step(t) /\ ~ExchangeFails(t)
    BY <1>1 DEF Step, Send, Serve, RemoteError, ReplyOk, CheckEpoch, AdoptReply, ReplaceHints,
                ExchangeFails
<1>5. \A t \in Users : ~Start(t)
    BY <1>1 DEF Start, StartAny, StartCallRetry, StartProbe
<1>6. \A r \in Refreshers : ~StartRefresh(r)
    BY <1>1, <1>2 DEF StartRefresh
<1>7. CASE IssueView \/ DialMemberFails \/ DialAgain \/ UNCHANGED vars
           \/ \E n \in Nodes : NodeLearns(n) \/ BackoffRunsOut(n)
    BY <1>1, <1>7 DEF IssueView, DialMemberFails, DialAgain, NodeLearns, BackoffRunsOut, vars
<1> QED
    BY <1>3, <1>4, <1>5, <1>6, <1>7 DEF Next

\* A task that does nothing keeps what it knows (a free slot may be spawned
\* into): the views only move on.
Same(u) ==
    /\ pc'[u] = pc[u] \/ (pc[u] = "idle" /\ pc'[u] = "spawned")
    /\ kind'[u] = kind[u] /\ todo'[u] = todo[u] /\ tries'[u] = tries[u]
    /\ stamp'[u] = stamp[u] /\ reply'[u] = reply[u] /\ gaveUp'[u] = gaveUp[u]

LEMMA Kept ==
    ASSUME IInv, TypeOK', Views', Grows, NEW u \in Tasks, Same(u)
    PROVE  Working(u)' /\ Climbs(u)'
<1>1. Working(u) /\ Climbs(u)
    BY DEF IInv
<1>2. Working(u)'
    BY <1>1 DEF Working, Same
<1>3. /\ issued \subseteq issued' /\ IsFiniteSet(issued) /\ IsFiniteSet(issued') /\ issued' \subseteq View
      /\ issued \subseteq View /\ tries[u] \in Nat
    BY DEF IInv, TypeOK, Views, Grows
<1>4. ASSUME NEW v \in issued, NEW w \in issued', ~Newer(v, w)
      PROVE  Epochs(issued, v) \in Nat /\ Epochs(issued', w) \in Nat
             /\ Epochs(issued, v) <= Epochs(issued', w)
  <2>1. v \in issued'
    BY <1>3
  <2>2. Epochs(issued, v) \in Nat /\ Epochs(issued', v) \in Nat /\ Epochs(issued', w) \in Nat
    BY <1>3, <2>1, EpochsCount
  <2>3. Epochs(issued, v) <= Epochs(issued', v)
    BY <1>3, EpochsGrow
  <2>4. Epochs(issued', v) <= Epochs(issued', w)
    BY <1>3, <1>4, <2>1, EpochsCount
  <2> QED
    BY <2>2, <2>3, <2>4
<1>5. ASSUME NEW v \in issued
      PROVE  Epochs(issued, v) \in Nat /\ Epochs(issued', v) \in Nat
             /\ Epochs(issued, v) <= Epochs(issued', v)
    BY <1>3, <1>4, NewerOrder
<1>6. pc'[u] = "send" => Epochs(issued', view') >= tries'[u] + 1
  <2> SUFFICES ASSUME pc'[u] = "send" PROVE Epochs(issued', view') >= tries[u] + 1
    BY DEF Same
  <2>1. pc[u] = "send" /\ view # NoView
    BY DEF Same, IInv, Quiet
  <2>2. view \in issued /\ view' \in issued' /\ ~Newer(view, view')
    BY <2>1 DEF IInv, Views, Grows
  <2>3. Epochs(issued, view) >= tries[u] + 1
    BY <1>1, <2>1 DEF Climbs
  <2>4. /\ Epochs(issued, view) \in Nat /\ Epochs(issued', view') \in Nat
        /\ Epochs(issued, view) <= Epochs(issued', view')
    BY <1>4, <2>2
  <2> QED
    BY <1>3, <2>3, <2>4
<1>7. pc'[u] = "sent" => stamp'[u] \in issued' /\ Epochs(issued', stamp'[u]) >= tries'[u] + 1
  <2> SUFFICES ASSUME pc'[u] = "sent"
               PROVE  stamp[u] \in issued' /\ Epochs(issued', stamp[u]) >= tries[u] + 1
    BY DEF Same
  <2>1. stamp[u] \in issued /\ Epochs(issued, stamp[u]) >= tries[u] + 1
    BY <1>1 DEF Climbs, Same
  <2>2. Epochs(issued, stamp[u]) \in Nat /\ Epochs(issued', stamp[u]) \in Nat
        /\ Epochs(issued, stamp[u]) <= Epochs(issued', stamp[u])
    BY <1>5, <2>1
  <2> QED
    BY <1>3, <2>1, <2>2
<1>8. ASSUME todo[u] # <<>>
      PROVE  LET n == Target(u) IN n \in Nodes /\ Target(u)' = n /\ nodeView[n] \in issued
                /\ nodeView'[n] \in issued' /\ ~Newer(nodeView[n], nodeView'[n])
  <2>1. Target(u) \in Nodes /\ Target(u)' = Target(u)
    BY <1>8, Orders DEF Target, Same, IInv, TypeOK
  <2> QED
    BY <2>1 DEF IInv, Views, Grows
<1>9. pc'[u] = "replied" /\ reply'[u].typ = "stale" =>
        /\ Epochs(issued', reply'[u].view) >= tries'[u] + 2
        /\ ~Newer(reply'[u].view, nodeView'[Target(u)'])
  <2> SUFFICES ASSUME pc'[u] = "replied", reply[u].typ = "stale"
               PROVE  /\ Epochs(issued', reply[u].view) >= tries[u] + 2
                      /\ ~Newer(reply[u].view, nodeView'[Target(u)'])
    BY DEF Same
  <2>1. /\ pc[u] = "replied" /\ todo[u] # <<>> /\ reply[u].view \in issued
        /\ Epochs(issued, reply[u].view) >= tries[u] + 2
        /\ ~Newer(reply[u].view, nodeView[Target(u)])
    BY <1>1 DEF Climbs, Working, Same, IInv, Views
  <2>2. Epochs(issued, reply[u].view) \in Nat /\ Epochs(issued', reply[u].view) \in Nat
        /\ Epochs(issued, reply[u].view) <= Epochs(issued', reply[u].view)
    BY <1>5, <2>1
  <2>3. ~Newer(reply[u].view, nodeView'[Target(u)])
    BY <1>3, <1>8, <2>1, NewerOrder
  <2> QED
    BY <1>3, <1>8, <2>1, <2>2, <2>3
<1>10. gaveUp'[u] => Epochs(issued', nodeView'[Target(u)']) > Retries(kind'[u]) + 1
  <2> SUFFICES ASSUME gaveUp[u]
               PROVE  Epochs(issued', nodeView'[Target(u)']) > Retries(kind[u]) + 1
    BY DEF Same
  <2>1. todo[u] # <<>> /\ Epochs(issued, nodeView[Target(u)]) > Retries(kind[u]) + 1
    BY <1>1 DEF Climbs, Working
  <2>2. /\ Epochs(issued, nodeView[Target(u)]) \in Nat /\ Epochs(issued', nodeView'[Target(u)]) \in Nat
        /\ Epochs(issued, nodeView[Target(u)]) <= Epochs(issued', nodeView'[Target(u)])
    BY <1>4, <1>8, <2>1
  <2>3. Retries(kind[u]) \in Nat
    BY RetriesCount DEF IInv, TypeOK
  <2> QED
    BY <1>8, <2>1, <2>2, <2>3
<1> QED
    BY <1>2, <1>6, <1>7, <1>9, <1>10 DEF Climbs, Retries

\* A task that is done, and one about to send with a view that is new enough.
LEMMA Idles ==
    ASSUME NEW t \in Tasks, pc'[t] = "idle", ~gaveUp'[t]
    PROVE  Working(t)' /\ Climbs(t)'
    BY DEF Working, Climbs

LEMMA Sends ==
    ASSUME NEW t \in Tasks, pc'[t] = "send", ~gaveUp'[t], todo'[t] # <<>>,
           Epochs(issued', view') >= tries'[t] + 1
    PROVE  Working(t)' /\ Climbs(t)'
    BY DEF Working, Climbs

\* A first request: the view it will carry is one the cluster had.
LEMMA Begins ==
    ASSUME IInv, NEW t \in Tasks, NEW k, NEW order, Begin(t, k, order), order # <<>>,
           view # NoView, UNCHANGED <<issued, view>>
    PROVE  /\ Working(t)' /\ Climbs(t)'
           /\ \A u \in Tasks : u # t => Same(u)
<1>1. pc'[t] = "send" /\ ~gaveUp'[t] /\ todo'[t] = order /\ tries'[t] = 0
    BY DEF Begin, IInv, TypeOK
<1>2. Epochs(issued', view') >= tries'[t] + 1
  <2>1. view \in issued /\ IsFiniteSet(issued) /\ issued \subseteq View
    BY DEF IInv, Views, TypeOK
  <2>2. Epochs(issued, view) >= 1
    BY <2>1, EpochsCount
  <2> QED
    BY <1>1, <2>2
<1>3. \A u \in Tasks : u # t => Same(u)
    BY DEF Begin, Same, IInv, TypeOK
<1> QED
    BY <1>1, <1>2, <1>3, Sends

\* Forget and Clear leave the other tasks alone.
LEMMA OthersKept ==
    ASSUME IInv, NEW t \in Tasks, NEW u \in Tasks, u # t, Forget(t) \/ Clear(t)
    PROVE  /\ tries'[u] = tries[u] /\ stamp'[u] = stamp[u] /\ reply'[u] = reply[u]
           /\ Clear(t) => kind'[u] = kind[u] /\ todo'[u] = todo[u]
    BY DEF Forget, Clear, IInv, TypeOK

LEMMA TaskStep ==
    ASSUME IInv, [Next]_vars
    PROVE  \A u \in Tasks : Working(u)' /\ Climbs(u)'
<1> DEFINE Goal == \A u \in Tasks : Working(u)' /\ Climbs(u)'
<1> USE DEF nodeVars, taskVars
<1>0. TypeOK' /\ Views' /\ Grows
    BY TypeStep, ViewsStep
<1>1. \A u \in Tasks : Same(u) => Working(u)' /\ Climbs(u)'
    BY <1>0, Kept
<1>2. /\ Users \subseteq Tasks /\ Refreshers \subseteq Tasks
      /\ IsFiniteSet(issued) /\ issued \subseteq View
      /\ \A t \in Tasks : tries[t] \in Nat /\ todo[t] \in Seq(Nodes)
    BY DEF IInv, TypeOK, Views, Tasks
<1>3. \A t \in Tasks : pc[t] \notin {"idle", "spawned"} => ~gaveUp[t] /\ todo[t] # <<>> /\ view # NoView
    BY DEF IInv, Working, Quiet
<1>4. CASE UNCHANGED taskVars
    BY <1>1, <1>4 DEF Same
<1>5. ASSUME NEW t \in Users, Start(t) PROVE Goal
  <2>1. view # NoView
    BY <1>5 DEF Start, StartAny, StartCallRetry, StartProbe, IInv, Quiet
  <2>2. \E k, order : Begin(t, k, order) /\ order # <<>>
    <3>1. CASE StartAny(t)
      BY <3>1, Orders DEF StartAny
    <3>2. \A n \in Nodes : <<n>> # <<>>
      OBVIOUS
    <3>3. CASE StartCallRetry(t)
      BY <3>2, <3>3 DEF StartCallRetry
    <3>4. CASE StartProbe(t)
      BY <3>2, <3>4 DEF StartProbe, IInv, TypeOK
    <3> QED
      BY <1>5, <3>1, <3>3, <3>4 DEF Start
  <2>3. UNCHANGED <<issued, view>>
    BY <1>5 DEF Start, StartAny, StartCallRetry, StartProbe
  <2> QED
    BY <1>1, <1>2, <2>1, <2>2, <2>3, Begins
<1>6. ASSUME NEW r \in Refreshers, StartRefresh(r) PROVE Goal
  <2>1. view # NoView
    BY <1>2, <1>6 DEF StartRefresh, IInv, Quiet
  <2>2. \E k, order : Begin(r, k, order) /\ order # <<>>
    BY <1>6, Orders DEF StartRefresh
  <2> QED
    BY <1>1, <1>2, <1>6, <2>1, <2>2, Begins DEF StartRefresh
<1>7. ASSUME NEW t \in Tasks, Send(t) PROVE Goal
  <2>1. \A u \in Tasks : u # t => Same(u)
    BY <1>7 DEF Send, Same, IInv, TypeOK
  <2>2. /\ pc'[t] = "sent" /\ stamp'[t] = view /\ tries' = tries /\ todo' = todo /\ gaveUp' = gaveUp
        /\ issued' = issued /\ pc[t] = "send"
    BY <1>7 DEF Send, IInv, TypeOK
  <2>3. view \in issued /\ Epochs(issued, view) >= tries[t] + 1
    BY <1>3, <2>2 DEF IInv, Views, Climbs
  <2>4. Working(t)' /\ Climbs(t)'
    BY <1>3, <2>2, <2>3 DEF Working, Climbs
  <2> QED
    BY <1>1, <2>1, <2>4
<1>8. ASSUME NEW t \in Tasks, Serve(t) PROVE Goal
  <2>1. \A u \in Tasks : u # t => Same(u)
    BY <1>8 DEF Serve, Same, IInv, TypeOK
  <2>2. Target(t) \in Nodes /\ pc[t] = "sent"
    BY <1>2, <1>3, <1>8, Orders DEF Serve, Target
  <2>3. PICK a \in Answer(kind[t], stamp[t], Target(t)) : reply' = [reply EXCEPT ![t] = a]
    BY <1>8 DEF Serve
  <2>4. /\ pc'[t] = "replied" /\ reply'[t] = a /\ tries' = tries /\ todo' = todo /\ gaveUp' = gaveUp
        /\ issued' = issued /\ nodeView' = nodeView
    BY <1>8, <2>3 DEF Serve, IInv, TypeOK
  <2>5. ASSUME a.typ = "stale"
        PROVE  Epochs(issued, a.view) >= tries[t] + 2 /\ ~Newer(a.view, nodeView[Target(t)])
    <3>1. /\ a.view = nodeView[Target(t)] /\ Behind(stamp[t], nodeView[Target(t)])
          /\ nodeView[Target(t)] \in issued
      BY <2>2, <2>5, AnswerType DEF IInv
    <3>2. stamp[t] \in issued /\ Epochs(issued, stamp[t]) >= tries[t] + 1
      BY <2>2 DEF IInv, Climbs
    <3>3. /\ Epochs(issued, stamp[t]) \in Nat /\ Epochs(issued, a.view) \in Nat
          /\ Epochs(issued, stamp[t]) + 1 <= Epochs(issued, a.view)
      BY <1>2, <3>1, <3>2, EpochsCount
    <3>4. tries[t] \in Nat
      BY <1>2
    <3>5. ~Newer(a.view, nodeView[Target(t)])
      BY <1>2, <3>1, NewerOrder
    <3> QED
      BY <3>2, <3>3, <3>4, <3>5
  <2>6. Working(t)' /\ Climbs(t)'
    BY <1>3, <2>2, <2>4, <2>5 DEF Working, Climbs, Target
  <2> QED
    BY <1>1, <2>1, <2>6
<1>9. ASSUME NEW t \in Tasks, RemoteError(t), Again(t) PROVE Goal
  <2>1. \A u \in Tasks : u # t => Same(u)
    BY <1>9 DEF Again, Same, IInv, TypeOK
  <2>2. /\ pc[t] = "replied" /\ reply[t].typ = "stale" /\ view' = Adopted(view, reply[t].view)
        /\ issued' = issued
    BY <1>9, RemoteErrorCases DEF Again
  <2>3. /\ pc'[t] = "send" /\ tries'[t] = tries[t] + 1 /\ todo' = todo /\ gaveUp' = gaveUp
    BY <1>9 DEF Again, IInv, TypeOK
  <2>4. reply[t].view \in issued /\ Epochs(issued, reply[t].view) >= tries[t] + 2
    BY <2>2 DEF IInv, Views, Climbs
  <2>5. view' \in issued /\ ~Newer(reply[t].view, view')
    <3>1. reply[t].view \in View /\ view \in View /\ view \in issued
      BY <1>2, <1>3, <2>2, <2>4 DEF IInv, Views
    <3> QED
      BY <2>2, <2>4, <3>1, AdoptedIsNewer
  <2>6. Epochs(issued, view') >= tries[t] + 2
    <3>1. /\ Epochs(issued, reply[t].view) \in Nat /\ Epochs(issued, view') \in Nat
          /\ Epochs(issued, reply[t].view) <= Epochs(issued, view')
      BY <1>2, <2>4, <2>5, EpochsCount
    <3> QED
      BY <1>2, <2>4, <3>1
  <2>7. Epochs(issued', view') >= tries'[t] + 1
    BY <1>2, <2>2, <2>3, <2>6
  <2> QED
    BY <1>1, <1>3, <2>1, <2>2, <2>3, <2>7, Sends
<1>10. ASSUME NEW t \in Tasks, RemoteError(t), GivesUp(t) PROVE Goal
  <2>1. \A u \in Tasks : u # t => Same(u)
    BY <1>10, OthersKept DEF GivesUp, Same, IInv, TypeOK
  <2>2. /\ pc[t] = "replied" /\ reply[t].typ = "stale" /\ issued' = issued /\ nodeView' = nodeView
        /\ pc'[t] = "idle" /\ todo' = todo /\ kind' = kind /\ tries[t] >= Retries(kind[t])
    BY <1>10, RemoteErrorCases DEF GivesUp, IInv, TypeOK
  <2>3. /\ reply[t].view \in issued /\ Epochs(issued, reply[t].view) >= tries[t] + 2
        /\ ~Newer(reply[t].view, nodeView[Target(t)])
    BY <2>2 DEF IInv, Views, Climbs
  <2>4. nodeView[Target(t)] \in issued
    BY <1>2, <1>3, <2>2, Orders DEF IInv, Views, Target
  <2>5. /\ Epochs(issued, reply[t].view) \in Nat /\ Epochs(issued, nodeView[Target(t)]) \in Nat
        /\ Epochs(issued, reply[t].view) <= Epochs(issued, nodeView[Target(t)])
    BY <1>2, <2>3, <2>4, EpochsCount
  <2>6. tries[t] \in Nat /\ Retries(kind[t]) \in Nat
    BY <1>2, RetriesCount DEF IInv, TypeOK
  <2>7. Epochs(issued, nodeView[Target(t)]) > Retries(kind[t]) + 1
    BY <2>2, <2>3, <2>5, <2>6
  <2>8. Working(t)' /\ Climbs(t)'
    BY <1>3, <2>2, <2>7 DEF Working, Climbs, Target, Retries
  <2> QED
    BY <1>1, <2>1, <2>8
<1>11. ASSUME NEW t \in Tasks, pc[t] \notin {"idle", "spawned"}, Ends(t), UNCHANGED gaveUp PROVE Goal
  <2>1. \A u \in Tasks : u # t => Same(u)
    BY <1>11, OthersKept DEF Ends, Same, IInv, TypeOK
  <2>2. pc'[t] = "idle" /\ ~gaveUp'[t]
    BY <1>3, <1>11 DEF Ends, IInv, TypeOK
  <2> QED
    BY <1>1, <2>1, <2>2, Idles
<1>12. ASSUME NEW t \in Tasks, RemoteError(t), Stands(t) PROVE Goal
    BY <1>11, <1>12, RemoteErrorCases DEF Stands
<1>13. ASSUME NEW t \in Tasks, ReplaceHints(t) PROVE Goal
    BY <1>11, <1>13 DEF ReplaceHints
<1>14. ASSUME NEW t \in Tasks, ReplyOk(t) \/ AdoptReply(t) PROVE Goal
  <2>1. \A u \in Tasks : u # t => Same(u)
    BY <1>14 DEF ReplyOk, AdoptReply, Same, IInv, TypeOK
  <2>2. /\ pc[t] \in {"replied", "adopt"} /\ pc'[t] \in {"check", "hint"} /\ reply[t].typ = "ok"
        /\ UNCHANGED <<todo, gaveUp, reply>>
    BY <1>14 DEF ReplyOk, AdoptReply, IInv, TypeOK, Working
  <2>3. Working(t)' /\ Climbs(t)'
    BY <1>3, <2>2 DEF Working, Climbs
  <2> QED
    BY <1>1, <2>1, <2>3
<1>15. ASSUME NEW t \in Tasks, CheckEpoch(t) PROVE Goal
  <2>1. PICK spawned \in SUBSET {r \in Refreshers : pc[r] = "idle"} :
            pc' = [u \in Tasks |-> IF u \in spawned THEN "spawned"
                                   ELSE IF u # t THEN pc[u]
                                   ELSE IF kind[t] = "refresh" THEN "adopt" ELSE "idle"]
    BY <1>15 DEF CheckEpoch
  <2>2. pc[t] = "check" /\ gaveUp' = gaveUp
    BY <1>15 DEF CheckEpoch
  <2>3. \A u \in Tasks : u # t => Same(u)
    <3>1. CASE kind[t] = "refresh"
      BY <1>15, <2>1, <3>1 DEF CheckEpoch, Same, IInv, TypeOK
    <3>2. CASE kind[t] # "refresh"
      BY <1>15, <2>1, <3>2, OthersKept DEF CheckEpoch, Same, IInv, TypeOK
    <3> QED
      BY <3>1, <3>2
  <2>4. CASE kind[t] = "refresh"
    <3>1. pc'[t] = "adopt" /\ UNCHANGED <<todo, reply>>
      BY <1>15, <2>1, <2>2, <2>4 DEF CheckEpoch
    <3>2. Working(t)' /\ Climbs(t)'
      BY <1>3, <2>2, <3>1 DEF Working, Climbs, IInv
    <3> QED
      BY <1>1, <2>3, <3>2
  <2>5. CASE kind[t] # "refresh"
    <3>1. pc'[t] = "idle"
      BY <2>1, <2>2, <2>5
    <3> QED
      BY <1>1, <1>3, <2>2, <2>3, <3>1, Idles
  <2> QED
    BY <2>4, <2>5
<1>16. ASSUME NEW t \in Tasks, ExchangeFails(t) PROVE Goal
  <2>1. pc[t] \in {"sent", "replied"} /\ gaveUp' = gaveUp /\ UNCHANGED <<issued, view>>
    BY <1>16 DEF ExchangeFails
  <2>2. CASE kind[t] \in {"any", "refresh"} /\ Len(todo[t]) > 1
    <3>1. /\ pc' = [pc EXCEPT ![t] = "send"] /\ todo' = [todo EXCEPT ![t] = Tail(@)]
          /\ Forget(t) /\ kind' = kind
      BY <1>16, <2>2 DEF ExchangeFails
    <3>2. \A u \in Tasks : u # t => Same(u)
      BY <2>1, <3>1, OthersKept DEF Same, IInv, TypeOK
    <3>3. pc'[t] = "send" /\ todo'[t] = Tail(todo[t]) /\ tries'[t] = 0
      BY <3>1 DEF Forget, IInv, TypeOK
    <3>4. Tail(todo[t]) # <<>>
      BY <1>2, <2>2, Orders
    <3>5. view \in issued /\ view # NoView
      BY <1>3, <2>1 DEF IInv, Views
    <3>6. Epochs(issued', view') >= tries'[t] + 1
      <4>1. Epochs(issued, view) >= 1
        BY <1>2, <3>5, EpochsCount
      <4> QED
        BY <2>1, <3>3, <4>1
    <3> QED
      BY <1>1, <1>3, <2>1, <3>2, <3>3, <3>4, <3>6, Sends
  <2>3. CASE ~(kind[t] \in {"any", "refresh"} /\ Len(todo[t]) > 1)
    BY <1>11, <1>16, <2>1, <2>3 DEF ExchangeFails
  <2> QED
    BY <2>2, <2>3
<1>17. CASE IssueView \/ DialMemberFails \/ DialAgain \/ DialAdopts \/ UNCHANGED vars
            \/ \E n \in Nodes : NodeLearns(n) \/ BackoffRunsOut(n)
    BY <1>4, <1>17 DEF IssueView, DialMemberFails, DialAgain, DialAdopts, NodeLearns, BackoffRunsOut,
                      vars
<1> QED
    BY <1>5, <1>6, <1>7, <1>8, <1>9, <1>10, <1>12, <1>13, <1>14, <1>15, <1>16, <1>17, RemoteErrorCases
       DEF Next, Step

LEMMA StepIInv == IInv /\ [Next]_vars => IInv'
    BY TypeStep, ViewsStep, QuietStep, TaskStep DEF IInv

LEMMA SpecIInv == Spec => []IInv
    BY InitIInv, StepIInv, PTL DEF Spec

-----------------------------------------------------------------------------
\* adopt never takes the cached view back in (incarnation, epoch, version),
\* whatever the order in which the replies of concurrent calls and refreshes
\* come to be applied.
THEOREM ClusterViewNeverGoesBack == Spec => ViewNeverGoesBack
<1>1. IInv /\ [Next]_vars => [view # NoView /\ view' # view => Newer(view', view)]_vars
    BY ViewsStep DEF Grows
<1> QED
    BY SpecIInv, <1>1, PTL DEF Spec, ViewNeverGoesBack

\* any_node and call_retry give up on stale-view only at a node whose epoch
\* moved on once more for each attempt, for any retry counts: a stale-view
\* error brings the view that the next attempt is stamped with.
THEOREM ClusterStaleNeedsChurn == Spec => []StaleNeedsChurn
<1>1. IInv => StaleNeedsChurn
  <2>1. \A v : EpochsUpTo(v) = EpochsIn(issued, v)
    BY DEF EpochsUpTo, EpochsIn
  <2> QED
    BY <2>1 DEF IInv, StaleNeedsChurn, Climbs, Epochs
<1> QED
    BY SpecIInv, <1>1, PTL
=============================================================================
