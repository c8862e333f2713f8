--------------------------- MODULE FetcherProofs ---------------------------
(***************************************************************************)
(* For any keys, owners, views, number of workers and sizes of channels    *)
(* and batches: a key is in one place at a time, missing means that all    *)
(* owners were asked, and every step of the fetcher is one its promise     *)
(* allows.  And for any tree of contexts: one that is done says why, and   *)
(* says what its parent says.                                              *)
(***************************************************************************)
EXTENDS Get, FiniteSetTheorems, WellFoundedInduction, TLAPS

\* Workers with a batch that was not reported done.
Busy == {w \in Workers : wpc[w] \in {"stream", "stalled", "retry", "report"}}

\* Batches are counted: what was dispatched is in the job channel, at a worker
\* or in the job_done channel.
Counted ==
    /\ IsFiniteSet(jobq) /\ Cardinality(jobq) <= 1
    /\ inflight = doneq + Cardinality(jobq) + Cardinality(Busy)

\* A worker has a batch exactly while it is busy with it.
Working ==
    \A w \in Workers : IF w \in Busy THEN job[w] \in Batch
                                     ELSE job[w] = NoJob /\ got[w] = {}

\* What the tasks know of each other: `route` runs within the drains; a batch is
\* given up, and a worker leaves, only at the end; nothing is left behind a
\* dispatcher that is through.
Phases ==
    /\ routing # None => disp \in {"input", "retry"}
    /\ \A w \in Workers : /\ wpc[w] = "report" => cancelled
                          /\ wpc[w] = "exited" => disp = "over"
    /\ Cardinality(input) <= InputCap
    /\ ~inOpen => inputClosed /\ input = {}
    /\ disp = "dispatch" /\ inflight = 0 => retry = {}
    /\ disp = "over" /\ ~cancelled =>
        ~inOpen /\ inflight = 0 /\ retry = {} /\ \A o \in Owners : acc[o] = {}

\* Where a key can be: the place, whose it is, and the key as it is there.
Spot(place, whose, item) == <<place, whose, item>>

IsSpotOf(k, s) ==
    \/ s \in {Spot("unfed", "none", k), Spot("input", "none", k), Spot("lost", "none", k)}
    \/ \E x \in FetchKey :
        /\ x.key = k
        /\ \/ s \in {Spot("routing", "none", x), Spot("job", "none", x), Spot("retry", "none", x)}
           \/ \E o \in Owners : s = Spot("acc", o, x)
           \/ \E w \in Workers : s = Spot("worker", w, x)
    \/ \E f \in Fetched :
        f.key = k /\ s \in {Spot("out", "none", f), Spot("delivered", "none", f)}

\* spot says where every key is, and nothing is anywhere else.
AtFeeder(spot) ==
    \A k \in Keys : /\ k \in unfed <=> spot[k] = Spot("unfed", "none", k)
                    /\ k \in input <=> spot[k] = Spot("input", "none", k)
AtRoute(spot) ==
    \A x \in FetchKey : /\ x = routing <=> spot[x.key] = Spot("routing", "none", x)
                        /\ x \in retry <=> spot[x.key] = Spot("retry", "none", x)
AtOwners(spot) ==
    \A x \in FetchKey, o \in Owners : x \in acc[o] <=> spot[x.key] = Spot("acc", o, x)
AtJobs(spot) ==
    \A x \in FetchKey : (\E j \in jobq : x \in j.keys) <=> spot[x.key] = Spot("job", "none", x)
AtWorkers(spot) ==
    \A x \in FetchKey, w \in Workers :
        x \in Unanswered(w) <=> spot[x.key] = Spot("worker", w, x)
AtResults(spot) ==
    \A f \in Fetched : /\ f \in out <=> spot[f.key] = Spot("out", "none", f)
                       /\ f \in delivered <=> spot[f.key] = Spot("delivered", "none", f)
Located(spot) ==
    \A k \in Keys : IsSpotOf(k, spot[k]) /\ (spot[k] = Spot("lost", "none", k) => cancelled)

Tells(spot) ==
    /\ AtFeeder(spot) /\ AtRoute(spot) /\ AtOwners(spot) /\ AtJobs(spot) /\ AtWorkers(spot)
    /\ AtResults(spot) /\ Located(spot)

\* Every key is in one place.
Placed == \E spot : Tells(spot)

\* Unless its order moved, the first n owners of x's read order were asked for
\* it; and no other than o is next.
Tried(x, n) ==
    x.key \notin moved =>
        \A m \in Nat : m < n => ReadOrder(x.key, m) \subseteq asked[x.key]

Turn(x, o) ==
    /\ Tried(x, x.attempt)
    /\ x.key \notin moved => ReadOrder(x.key, x.attempt) \subseteq {o}

\* While its order stands still, a key's attempt counts the owners it was asked of.
Asked ==
    /\ routing # None => Tried(routing, routing.attempt)
    /\ \A x \in retry : Tried(x, x.attempt)
    /\ \A o \in Owners : \A x \in acc[o] : Turn(x, o)
    /\ \A j \in jobq : \A x \in j.keys : Turn(x, j.node)
    /\ \A w \in Workers : wpc[w] \in {"stream", "retry"} =>
           \A x \in job[w].keys : Tried(x, x.attempt + 1)
    /\ \A f \in out \cup delivered : ~f.found /\ f.key \notin moved => AllOwnersAsked(f.key)

-----------------------------------------------------------------------------
\* The assumptions on the constants, in the form the steps use them.
LEMMA Constants ==
    /\ Jobs \in Nat \ {0} /\ InputCap \in Nat \ {0}
    /\ "none" \notin Keys /\ None \notin FetchKey
    /\ \A v \in Views, k \in Keys : BaseOrder[v][k] \in Seq(Owners)
<1>1. Jobs \in Nat /\ Jobs # 0
    BY FetcherAssumption, FS_CardinalityType, FS_EmptySet DEF Jobs
<1>2. "none" \notin Keys /\ None \notin FetchKey
    BY FetcherAssumption DEF None, FetchKey
<1>3. \A v \in Views, k \in Keys : BaseOrder[v][k] \in Seq(Owners)
    BY FetcherAssumption DEF Views
<1> QED
    BY <1>1, <1>2, <1>3, FetcherAssumption

\* The busy workers are finite, and one more or one less counts as one.
LEMMA BusyFinite ==
    /\ IsFiniteSet(Busy) /\ Cardinality(Busy) \in Nat
    /\ \A w \in Workers : /\ w \notin Busy => Cardinality(Busy \cup {w}) = Cardinality(Busy) + 1
                          /\ w \in Busy => Cardinality(Busy \ {w}) = Cardinality(Busy) - 1
<1>1. IsFiniteSet(Busy)
    BY FetcherAssumption, FS_Subset DEF Busy
<1> QED
    BY <1>1, FS_CardinalityType, FS_AddElement, FS_RemoveElement

\* A worker that takes, keeps or gives back its batch.
LEMMA BusyStep ==
    ASSUME TypeOK, NEW w \in Workers, NEW l, wpc' = [wpc EXCEPT ![w] = l]
    PROVE  Busy' = IF l \in {"stream", "stalled", "retry", "report"} THEN Busy \cup {w} ELSE Busy \ {w}
    BY DEF Busy, TypeOK

LEMMA OutcomeType ==
    ASSUME NEW k \in Keys, NEW b \in BOOLEAN
    PROVE  [key |-> k, found |-> b] \in Fetched
    BY Zenon DEF Fetched

\* The owner a key goes to is a node.
LEMMA ReadOrderOwners ==
    ASSUME TypeOK, NEW k \in Keys, NEW n
    PROVE  ReadOrder(k, n) \subseteq Owners
<1>1. OwnersOf(k) \in Seq(Owners)
    BY Constants DEF OwnersOf, TypeOK
<1> QED
    BY <1>1 DEF ReadOrder

\* The first state of the fetcher.
LEMMA InitType == Init => TypeOK /\ Counted /\ Working
<1> SUFFICES ASSUME Init PROVE TypeOK /\ Counted /\ Working
    OBVIOUS
<1> USE DEF Init, InitAt
<1>1. 1 \in Views
    BY FetcherAssumption DEF Views
<1>2. TypeOK
  <2>1. inOpen \in BOOLEAN /\ inputClosed \in BOOLEAN /\ refreshed \in BOOLEAN
        /\ cancelled \in BOOLEAN /\ moved \subseteq Keys /\ score \in [Owners -> Scores]
    OBVIOUS
  <2>2. inflight \in 0..Jobs /\ doneq \in 0..Jobs /\ view \in Views
    BY Constants, <1>1
  <2>3. /\ acc \in [Owners -> SUBSET FetchKey]
        /\ wpc \in [Workers -> {"idle", "stream", "stalled", "retry", "report", "exited"}]
        /\ job \in [Workers -> {NoJob} \cup Batch]
        /\ got \in [Workers -> SUBSET Keys]
        /\ asked \in [Keys -> SUBSET Owners]
    OBVIOUS
  <2> QED
    BY <2>1, <2>2, <2>3 DEF TypeOK
<1>3. Busy = {}
    BY DEF Busy
<1> QED
    BY <1>2, <1>3, FS_EmptySet DEF Counted, Working

-----------------------------------------------------------------------------
LEMMA TypeStep ==
    ASSUME TypeOK, Counted, Working, [Next]_vars
    PROVE  TypeOK'
<1> USE DEF dispVars, workVars, chanVars, envVars
<1>1. CASE AddKey
    BY <1>1, Constants DEF AddKey, TypeOK
<1>2. CASE CloseInput
    BY <1>2, Constants DEF CloseInput, TypeOK
<1>3. CASE DrainInput
  <2>1. routing' \in FetchKey /\ input' \subseteq Keys
    BY <1>3 DEF DrainInput, TakeInput, TypeOK, FetchKey
  <2> QED
    BY <1>3, <2>1 DEF DrainInput, TakeInput, TypeOK
<1>4. CASE InputDrained
    BY <1>4, Constants DEF InputDrained, TypeOK
<1>5. CASE DrainRetry
    BY <1>5, Constants DEF DrainRetry, TakeRetry, TypeOK
<1>6. CASE RetryDrained
    BY <1>6, Constants DEF RetryDrained, TypeOK
<1>7. CASE RouteRefresh
  <2>1. routing' \in FetchKey
    BY <1>7 DEF RouteRefresh, TypeOK, FetchKey
  <2>2. /\ view' \in Views /\ refreshed' \in BOOLEAN
        /\ moved' \subseteq Keys /\ score' \in [Owners -> Scores]
    BY <1>7 DEF RouteRefresh, Watched, TypeOK
  <2> QED
    BY <1>7, <2>1, <2>2 DEF RouteRefresh, TypeOK
<1>8. CASE RouteMissing
  <2>1. out' \subseteq Fetched
    BY <1>8, OutcomeType DEF RouteMissing, TypeOK, FetchKey
  <2> QED
    BY <1>8, <2>1 DEF RouteMissing, TypeOK
<1>9. CASE RouteQueue
  <2>1. routing \in FetchKey /\ routing.key \in Keys
    BY <1>9 DEF RouteQueue, TypeOK, FetchKey
  <2>2. acc' \in [Owners -> SUBSET FetchKey]
    BY <1>9, <2>1, ReadOrderOwners DEF RouteQueue, TypeOK
  <2> QED
    BY <1>9, <2>2 DEF RouteQueue, TypeOK
<1>10. CASE Dispatch
    BY <1>10, Constants DEF Dispatch, TypeOK, Batch
<1>11. CASE Dispatched
    BY <1>11, Constants DEF Dispatched, TypeOK
<1>12. CASE SelectInput
  <2>1. routing' \in FetchKey /\ input' \subseteq Keys
    BY <1>12 DEF SelectInput, TakeInput, TypeOK, FetchKey
  <2> QED
    BY <1>12, <2>1 DEF SelectInput, TakeInput, TypeOK
<1>13. CASE SelectInputClosed
    BY <1>13, Constants DEF SelectInputClosed, TypeOK
<1>14. CASE SelectRetry
    BY <1>14, Constants DEF SelectRetry, TakeRetry, TypeOK
<1>15. CASE SelectDone
  <2>1. inflight' \in 0..Jobs /\ doneq' \in 0..Jobs
    BY <1>15, Constants, BusyFinite, FS_CardinalityType DEF SelectDone, TypeOK, Counted
  <2> QED
    BY <1>15, <2>1 DEF SelectDone, TypeOK
<1>16. CASE DispatcherStops
    BY <1>16, Constants DEF DispatcherStops, TypeOK
<1>17. CASE Receive
    BY <1>17, Constants DEF Receive, TypeOK
<1>18. CASE Stop
    BY <1>18, Constants DEF Stop, TypeOK
<1>19. CASE ViewChanges
    BY <1>19, Constants DEF ViewChanges, Watched, TypeOK
<1>20. CASE RankChanges
    BY <1>20, Constants DEF RankChanges, Watched, TypeOK
<1>21. ASSUME NEW w \in Workers, TakeJob(w) PROVE TypeOK'
    BY <1>21, Constants DEF TakeJob, TypeOK, Batch
<1>22. ASSUME NEW w \in Workers, EmitRecord(w) PROVE TypeOK'
  <2>1. job[w] \in Batch
    BY <1>22 DEF EmitRecord, Busy, Working
  <2>2. \A fk \in Unanswered(w) : fk.key \in Keys
    BY <2>1 DEF Unanswered, Batch, FetchKey
  <2>3. PICK fk \in Unanswered(w) : /\ got' = [got EXCEPT ![w] = @ \cup {fk.key}]
                                    /\ out' = out \cup {[key |-> fk.key, found |-> TRUE]}
    BY <1>22 DEF EmitRecord
  <2>4. [key |-> fk.key, found |-> TRUE] \in Fetched
    BY <2>2, OutcomeType
  <2>5. got' \in [Workers -> SUBSET Keys] /\ out' \subseteq Fetched
    BY <2>2, <2>3, <2>4 DEF TypeOK
  <2> QED
    BY <1>22, <2>5 DEF EmitRecord, TypeOK
<1>23. ASSUME NEW w \in Workers, OpenFails(w) PROVE TypeOK'
  <2>1. job[w] \in Batch
    BY <1>23 DEF OpenFails, Busy, Working
  <2>2. score' \in [Owners -> Scores] /\ moved' \subseteq Keys
    BY <1>23, <2>1 DEF OpenFails, Watched, TypeOK, Batch
  <2> QED
    BY <1>23, <2>2 DEF OpenFails, TypeOK
<1>24. ASSUME NEW w \in Workers, StreamBreaks(w) PROVE TypeOK'
    BY <1>24, Constants DEF StreamBreaks, TypeOK
<1>31. ASSUME NEW w \in Workers, StreamStalls(w) PROVE TypeOK'
    BY <1>31, Constants DEF StreamStalls, TypeOK
<1>25. ASSUME NEW w \in Workers, StreamEnds(w) PROVE TypeOK'
  <2>1. \A s \in Scores : s % 8 \in Scores
    BY FetcherAssumption
  <2>2. score' \in [Owners -> Scores] /\ moved' \subseteq Keys
    BY <1>25, <2>1 DEF StreamEnds, Watched, TypeOK
  <2> QED
    BY <1>25, <2>2 DEF StreamEnds, TypeOK
<1>26. ASSUME NEW w \in Workers, SendRetry(w) PROVE TypeOK'
  <2>1. job[w] \in Batch
    BY <1>26 DEF SendRetry, Busy, Working
  <2>2. PICK fk \in Unanswered(w) : /\ retry' = retry \cup {[fk EXCEPT !.attempt = @ + 1]}
                                    /\ job' = [job EXCEPT ![w].keys = @ \ {fk}]
    BY <1>26 DEF SendRetry
  <2>3. fk \in FetchKey
    BY <2>1 DEF Unanswered, Batch
  <2>4. retry' \subseteq FetchKey
    BY <2>2, <2>3 DEF TypeOK, FetchKey
  <2>5. job' \in [Workers -> {NoJob} \cup Batch]
    BY <2>1, <2>2 DEF TypeOK, Batch
  <2> QED
    BY <1>26, <2>4, <2>5 DEF SendRetry, TypeOK
<1>27. ASSUME NEW w \in Workers, ReportDone(w) PROVE TypeOK'
    BY <1>27, Constants DEF ReportDone, TypeOK
<1>28. ASSUME NEW w \in Workers, WorkerStops(w) PROVE TypeOK'
    BY <1>28, Constants DEF WorkerStops, TypeOK
<1>29. ASSUME NEW w \in Workers, WorkerExits(w) PROVE TypeOK'
    BY <1>29, Constants DEF WorkerExits, TypeOK
<1>30. CASE Finished \/ UNCHANGED vars
    BY <1>30 DEF Finished, vars, TypeOK
<1> QED
    BY <1>1, <1>2, <1>3, <1>4, <1>5, <1>6, <1>7, <1>8, <1>9, <1>10, <1>11, <1>12, <1>13, <1>14, <1>15,
       <1>16, <1>17, <1>18, <1>19, <1>20, <1>21, <1>22, <1>23, <1>24, <1>25, <1>26, <1>27, <1>28,
       <1>29, <1>30, <1>31 DEF Next, Dispatcher, Worker, Stream

\* Every step keeps the count of batches, and gives a worker a batch when it
\* becomes busy.
LEMMA CountStep ==
    ASSUME TypeOK, Counted, Working, [Next]_vars
    PROVE  Counted' /\ Working'
<1> DEFINE batches == <<wpc, job, got, jobq, doneq, inflight>>
<1> USE DEF dispVars, workVars, chanVars, envVars
<1> USE Constants, BusyFinite, FS_CardinalityType, FS_EmptySet, FS_Singleton
<1>1. ASSUME UNCHANGED batches PROVE Counted' /\ Working'
    BY <1>1 DEF Counted, Working, Busy
<1>2. CASE Dispatch
  <2>1. PICK j : jobq = {} /\ jobq' = {j}
    BY <1>2 DEF Dispatch
  <2>2. Cardinality(jobq) = 0
    BY <2>1
  <2>3. IsFiniteSet(jobq') /\ Cardinality(jobq') = 1
    BY <2>1
  <2>4. Busy' = Busy /\ inflight' = inflight + 1 /\ UNCHANGED <<job, got, doneq>>
    BY <1>2 DEF Dispatch, Busy
  <2> QED
    BY <2>2, <2>3, <2>4 DEF TypeOK, Counted, Working
<1>3. CASE SelectDone
    BY <1>3 DEF SelectDone, TypeOK, Counted, Working, Busy
<1>4. ASSUME NEW w \in Workers, TakeJob(w) PROVE Counted' /\ Working'
  <2>1. PICK j \in jobq : jobq' = jobq \ {j} /\ job' = [job EXCEPT ![w] = j]
    BY <1>4 DEF TakeJob
  <2>2. IsFiniteSet(jobq') /\ Cardinality(jobq') = Cardinality(jobq) - 1
    BY <2>1, FS_RemoveElement DEF Counted
  <2>3. w \notin Busy /\ Busy' = Busy \cup {w}
    BY <1>4 DEF TakeJob, Busy, TypeOK
  <2>4. Counted'
    BY <1>4, <2>2, <2>3 DEF TakeJob, TypeOK, Counted
  <2>5. Working'
    BY <1>4, <2>1, <2>3 DEF TakeJob, TypeOK, Working
  <2> QED
    BY <2>4, <2>5
<1>5. ASSUME NEW w \in Workers,
             EmitRecord(w) \/ OpenFails(w) \/ StreamBreaks(w) \/ StreamEnds(w)
             \/ StreamStalls(w) \/ SendRetry(w) \/ WorkerStops(w)
      PROVE  Counted' /\ Working'
  <2>1. w \in Busy /\ Busy' = Busy
    BY <1>5 DEF EmitRecord, OpenFails, StreamBreaks, StreamEnds, StreamStalls, SendRetry, WorkerStops,
       Busy, TypeOK
  <2>2. UNCHANGED <<jobq, doneq, inflight>>
    BY <1>5 DEF EmitRecord, OpenFails, StreamBreaks, StreamEnds, StreamStalls, SendRetry, WorkerStops
  <2>3. \A v \in Workers \ {w} : job'[v] = job[v] /\ got'[v] = got[v]
    BY <1>5 DEF EmitRecord, OpenFails, StreamBreaks, StreamEnds, StreamStalls, SendRetry, WorkerStops,
       TypeOK
  <2>4. job'[w] \in Batch
    BY <1>5, <2>1 DEF EmitRecord, OpenFails, StreamBreaks, StreamEnds, StreamStalls, SendRetry,
       WorkerStops,
                      TypeOK, Working, Batch
  <2> QED
    BY <2>1, <2>2, <2>3, <2>4 DEF Counted, Working
<1>6. ASSUME NEW w \in Workers, ReportDone(w) PROVE Counted' /\ Working'
  <2>1. w \in Busy /\ Busy' = Busy \ {w}
    BY <1>6 DEF ReportDone, Busy, TypeOK
  <2>2. Working'
    BY <1>6, <2>1 DEF ReportDone, TypeOK, Working
  <2> QED
    BY <1>6, <2>1, <2>2 DEF ReportDone, TypeOK, Counted
<1>7. ASSUME NEW w \in Workers, WorkerExits(w) PROVE Counted' /\ Working'
  <2>1. w \notin Busy /\ Busy' = Busy
    BY <1>7 DEF WorkerExits, Busy, TypeOK
  <2> QED
    BY <1>7, <2>1 DEF WorkerExits, TypeOK, Counted, Working
<1>8. ASSUME AddKey \/ CloseInput \/ Receive \/ Stop \/ ViewChanges \/ RankChanges \/ Finished
             \/ UNCHANGED vars
      PROVE  UNCHANGED batches
    BY <1>8 DEF AddKey, CloseInput, Receive, Stop, ViewChanges, RankChanges, Finished, vars
<1>9. ASSUME DrainInput \/ InputDrained \/ DrainRetry \/ RetryDrained \/ RouteRefresh
             \/ RouteMissing \/ RouteQueue \/ Dispatched \/ SelectInput \/ SelectInputClosed
             \/ SelectRetry \/ DispatcherStops
      PROVE  UNCHANGED batches
    BY <1>9 DEF DrainInput, TakeInput, InputDrained, DrainRetry, TakeRetry, RetryDrained,
                RouteRefresh, RouteMissing, RouteQueue, Dispatched, SelectInput,
                SelectInputClosed, SelectRetry, DispatcherStops
<1> QED
    BY <1>1, <1>2, <1>3, <1>4, <1>5, <1>6, <1>7, <1>8, <1>9 DEF Next, Dispatcher, Worker, Stream

-----------------------------------------------------------------------------
LEMMA SpotFacts ==
    /\ \A p, q, a, b, x, y : Spot(p, a, x) = Spot(q, b, y) => p = q /\ a = b /\ x = y
    /\ None \notin FetchKey
    /\ \A k \in Keys : /\ IsSpotOf(k, Spot("unfed", "none", k))
                       /\ IsSpotOf(k, Spot("input", "none", k))
                       /\ IsSpotOf(k, Spot("lost", "none", k))
    /\ \A x \in FetchKey :
        /\ x.key \in Keys
        /\ IsSpotOf(x.key, Spot("routing", "none", x))
        /\ IsSpotOf(x.key, Spot("job", "none", x))
        /\ IsSpotOf(x.key, Spot("retry", "none", x))
        /\ \A o \in Owners : IsSpotOf(x.key, Spot("acc", o, x))
        /\ \A w \in Workers : IsSpotOf(x.key, Spot("worker", w, x))
    /\ \A f \in Fetched :
        /\ f.key \in Keys
        /\ IsSpotOf(f.key, Spot("out", "none", f))
        /\ IsSpotOf(f.key, Spot("delivered", "none", f))
<1>1. (\A x \in FetchKey : x.key \in Keys) /\ (\A f \in Fetched : f.key \in Keys)
    BY DEF FetchKey, Fetched
<1>2. \A p, q, a, b, x, y : Spot(p, a, x) = Spot(q, b, y) => p = q /\ a = b /\ x = y
    BY DEF Spot
<1> QED
    BY <1>1, <1>2, Constants, Zenon DEF IsSpotOf

LEMMA InitPlaced == Init => Placed
<1> SUFFICES ASSUME Init PROVE Placed
    OBVIOUS
<1> DEFINE spot == [k \in Keys |-> Spot("unfed", "none", k)]
<1> USE DEF Init, InitAt
<1>1. AtFeeder(spot) /\ AtRoute(spot) /\ AtOwners(spot) /\ AtJobs(spot)
    BY SpotFacts DEF AtFeeder, AtRoute, AtOwners, AtJobs
<1>2. AtWorkers(spot) /\ AtResults(spot)
    BY SpotFacts DEF AtWorkers, AtResults, Unanswered, NoJob
<1>3. Located(spot)
    BY SpotFacts DEF Located
<1> QED
    BY <1>1, <1>2, <1>3 DEF Placed, Tells

\* A step that touches no place moves no key.
LEMMA StillPlaced ==
    ASSUME Placed, cancelled => cancelled',
           UNCHANGED <<unfed, input, routing, retry, acc, jobq, job, got, out, delivered>>
    PROVE  Placed'
<1>1. PICK spot : Tells(spot)
    BY DEF Placed
<1>2. Tells(spot)'
    BY <1>1 DEF Tells, AtFeeder, AtRoute, AtOwners, AtJobs, AtWorkers, AtResults, Located, Unanswered
<1> QED
    BY <1>2 DEF Placed

LEMMA DispatchBatch ==
    ASSUME Dispatch
    PROVE  \E o \in Owners : \E ks \in SUBSET acc[o] :
             /\ jobq' = {[node |-> o, keys |-> ks]}
             /\ acc' = [acc EXCEPT ![o] = @ \ ks]
    BY DEF Dispatch

\* The moves.  In each, spot tells where the keys were and new where they are.
USE SpotFacts
    DEF Tells, AtFeeder, AtRoute, AtOwners, AtJobs, AtWorkers, AtResults, Located, Unanswered,
        dispVars, workVars, chanVars, envVars

LEMMA AddKeyPlaced ==
    ASSUME TypeOK, NEW spot, Tells(spot), AddKey
    PROVE  Placed'
<1>1. PICK k \in unfed : unfed' = unfed \ {k} /\ input' = input \cup {k}
    BY DEF AddKey
<1>2. PICK new : new = [i \in Keys |-> IF i = k THEN Spot("input", "none", k) ELSE spot[i]]
    OBVIOUS
<1>3. Tells(new)'
    BY <1>1, <1>2 DEF AddKey, TypeOK
<1> QED
    BY <1>3 DEF Placed

LEMMA TakeInputPlaced ==
    ASSUME TypeOK, NEW spot, Tells(spot), NEW at, NEW k \in Keys, TakeInput(at, k)
    PROVE  Placed'
<1>1. routing = None /\ routing' = [key |-> k, attempt |-> 0] /\ routing' \in FetchKey
    BY DEF TakeInput, FetchKey
<1>2. PICK new : new = [i \in Keys |-> IF i = k THEN Spot("routing", "none", routing') ELSE spot[i]]
    OBVIOUS
<1>3. Tells(new)'
    BY <1>1, <1>2 DEF TakeInput, TypeOK
<1> QED
    BY <1>3 DEF Placed

LEMMA TakeRetryPlaced ==
    ASSUME TypeOK, NEW spot, Tells(spot), NEW at, NEW r \in retry, TakeRetry(at, r)
    PROVE  Placed'
<1>1. r \in FetchKey
    BY DEF TypeOK
<1>2. PICK new : new = [i \in Keys |-> IF i = r.key THEN Spot("routing", "none", r) ELSE spot[i]]
    OBVIOUS
<1>3. Tells(new)'
    BY <1>1, <1>2 DEF TakeRetry, TypeOK
<1> QED
    BY <1>3 DEF Placed

LEMMA RouteRefreshPlaced ==
    ASSUME TypeOK, NEW spot, Tells(spot), RouteRefresh
    PROVE  Placed'
<1>1. routing \in FetchKey /\ routing' \in FetchKey /\ routing'.key = routing.key
    BY DEF RouteRefresh, TypeOK, FetchKey
<1>2. PICK new :
        new = [i \in Keys |-> IF i = routing.key THEN Spot("routing", "none", routing') ELSE spot[i]]
    OBVIOUS
<1>3. UNCHANGED <<unfed, input, retry, acc, jobq, job, got, out, delivered, cancelled>>
    BY DEF RouteRefresh
<1>4. Tells(new)'
    BY <1>1, <1>2, <1>3
<1> QED
    BY <1>4 DEF Placed

LEMMA RouteMissingPlaced ==
    ASSUME TypeOK, NEW spot, Tells(spot), RouteMissing
    PROVE  Placed'
<1>1. routing \in FetchKey
    BY DEF RouteMissing, TypeOK
<1>2. PICK f : f = [key |-> routing.key, found |-> FALSE]
    OBVIOUS
<1>3. f \in Fetched /\ f.key = routing.key
    BY <1>1, <1>2, OutcomeType
<1>4. PICK new : new = [i \in Keys |-> IF i = f.key THEN Spot("out", "none", f) ELSE spot[i]]
    OBVIOUS
<1>5. out' = out \cup {f} /\ routing' = None
    BY <1>2 DEF RouteMissing
<1>6. Tells(new)'
    BY <1>1, <1>3, <1>4, <1>5 DEF RouteMissing
<1> QED
    BY <1>6 DEF Placed

LEMMA RouteQueuePlaced ==
    ASSUME TypeOK, NEW spot, Tells(spot), RouteQueue
    PROVE  Placed'
<1>1. routing \in FetchKey /\ routing.key \in Keys
    BY DEF RouteQueue, TypeOK
<1>2. PICK o \in Owners : acc' = [acc EXCEPT ![o] = @ \cup {routing}]
    BY <1>1, ReadOrderOwners DEF RouteQueue
<1>3. PICK new : new = [i \in Keys |-> IF i = routing.key THEN Spot("acc", o, routing) ELSE spot[i]]
    OBVIOUS
<1>4. Tells(new)'
    BY <1>1, <1>2, <1>3 DEF RouteQueue, TypeOK
<1> QED
    BY <1>4 DEF Placed

\* The given up key is lost, which only a stopped fetch does.
LEMMA DispatcherStopsPlaced ==
    ASSUME TypeOK, NEW spot, Tells(spot), DispatcherStops, routing # None
    PROVE  Placed'
<1>1. routing \in FetchKey
    BY DEF TypeOK
<1>2. PICK new :
        new = [i \in Keys |-> IF i = routing.key THEN Spot("lost", "none", i) ELSE spot[i]]
    OBVIOUS
<1>3. Tells(new)'
    BY <1>1, <1>2 DEF DispatcherStops
<1> QED
    BY <1>3 DEF Placed

LEMMA DispatchPlaced ==
    ASSUME TypeOK, NEW spot, Tells(spot), Dispatch
    PROVE  Placed'
<1>1. PICK o \in Owners : \E ks \in SUBSET acc[o] :
        /\ jobq' = {[node |-> o, keys |-> ks]}
        /\ acc' = [acc EXCEPT ![o] = @ \ ks]
    BY DispatchBatch
<1>2. PICK ks \in SUBSET acc[o] :
        /\ jobq' = {[node |-> o, keys |-> ks]}
        /\ acc' = [acc EXCEPT ![o] = @ \ ks]
    BY <1>1
<1>3. ks \subseteq FetchKey
    BY DEF TypeOK
<1>4. PICK new : new = [i \in Keys |-> IF \E x \in ks : x.key = i
                                       THEN Spot("job", "none", CHOOSE x \in ks : x.key = i)
                                       ELSE spot[i]]
    OBVIOUS
<1>5. \A x \in ks : spot[x.key] = Spot("acc", o, x)
    BY <1>3
<1>6. \A x \in ks : new[x.key] = Spot("job", "none", x)
    BY <1>3, <1>4, <1>5
<1>7. \A i \in Keys : (\A x \in ks : x.key # i) => new[i] = spot[i]
    BY <1>4
<1>8. jobq = {} /\ UNCHANGED <<unfed, input, routing, retry, job, got, out, delivered, cancelled>>
    BY DEF Dispatch
<1>9. AtOwners(new)'
    BY <1>2, <1>3, <1>5, <1>6, <1>7 DEF TypeOK
<1>10. AtJobs(new)'
    BY <1>2, <1>3, <1>5, <1>6, <1>7, <1>8
<1>11. AtFeeder(new)' /\ AtRoute(new)' /\ AtResults(new)' /\ Located(new)'
    BY <1>3, <1>5, <1>6, <1>7, <1>8
<1>12. AtWorkers(new)'
    BY <1>3, <1>5, <1>6, <1>7, <1>8
<1> QED
    BY <1>9, <1>10, <1>11, <1>12 DEF Placed

LEMMA TakeJobPlaced ==
    ASSUME TypeOK, Counted, Working, NEW spot, Tells(spot), NEW w \in Workers, TakeJob(w)
    PROVE  Placed'
<1>1. PICK j \in jobq : jobq' = jobq \ {j} /\ job' = [job EXCEPT ![w] = j]
    BY DEF TakeJob
<1>2. jobq = {j} /\ jobq' = {}
  <2>1. Cardinality(jobq \ {j}) = Cardinality(jobq) - 1 /\ IsFiniteSet(jobq \ {j})
    BY FS_RemoveElement DEF Counted
  <2>2. Cardinality(jobq \ {j}) \in Nat /\ Cardinality(jobq) \in Nat
    BY <2>1, FS_CardinalityType DEF Counted
  <2>3. jobq \ {j} = {}
    BY <2>1, <2>2, FS_EmptySet DEF Counted
  <2> QED
    BY <1>1, <2>3
<1>3. j.keys \subseteq FetchKey /\ job[w] = NoJob /\ got[w] = {} /\ got' = got
    BY <1>2 DEF TakeJob, Working, Busy, TypeOK, Batch
<1>4. PICK new : new = [i \in Keys |-> IF \E x \in j.keys : x.key = i
                                       THEN Spot("worker", w, CHOOSE x \in j.keys : x.key = i)
                                       ELSE spot[i]]
    OBVIOUS
<1>5. \A x \in j.keys : spot[x.key] = Spot("job", "none", x)
    BY <1>1, <1>3
<1>6. \A x \in j.keys : new[x.key] = Spot("worker", w, x)
    BY <1>3, <1>4, <1>5
<1>7. \A i \in Keys : (\A x \in j.keys : x.key # i) => new[i] = spot[i]
    BY <1>4
<1>8. UNCHANGED <<unfed, input, routing, retry, acc, out, delivered, cancelled>>
    BY DEF TakeJob
<1>9. AtWorkers(new)'
    BY <1>1, <1>3, <1>5, <1>6, <1>7 DEF TypeOK, NoJob
<1>10. AtJobs(new)'
    BY <1>2, <1>3, <1>5, <1>6, <1>7, <1>8
<1>11. AtFeeder(new)' /\ AtRoute(new)' /\ AtResults(new)' /\ Located(new)'
    BY <1>3, <1>5, <1>6, <1>7, <1>8
<1>12. AtOwners(new)'
    BY <1>3, <1>5, <1>6, <1>7, <1>8
<1> QED
    BY <1>9, <1>10, <1>11, <1>12 DEF Placed

LEMMA EmitRecordPlaced ==
    ASSUME TypeOK, Working, NEW spot, Tells(spot), NEW w \in Workers, EmitRecord(w)
    PROVE  Placed'
<1>1. PICK x \in Unanswered(w) :
        /\ got' = [got EXCEPT ![w] = @ \cup {x.key}]
        /\ out' = out \cup {[key |-> x.key, found |-> TRUE]}
    BY Zenon DEF EmitRecord
<1>2. job[w].keys \subseteq FetchKey
    BY DEF TypeOK, Batch, NoJob
<1>3. x \in FetchKey
    BY <1>2
<1>4. PICK f : f = [key |-> x.key, found |-> TRUE]
    OBVIOUS
<1>5. f \in Fetched /\ f.key = x.key
    BY <1>3, <1>4, OutcomeType
<1>6. PICK new : new = [i \in Keys |-> IF i = x.key THEN Spot("out", "none", f) ELSE spot[i]]
    OBVIOUS
<1>7. spot[x.key] = Spot("worker", w, x)
    BY <1>3
<1>8. UNCHANGED <<unfed, input, routing, retry, acc, jobq, job, delivered, cancelled>>
    BY DEF EmitRecord
<1>9. AtWorkers(new)'
    BY <1>1, <1>2, <1>3, <1>5, <1>6, <1>7, <1>8 DEF TypeOK
<1>10. AtFeeder(new)' /\ AtRoute(new)' /\ AtOwners(new)' /\ AtJobs(new)' /\ Located(new)'
    BY <1>3, <1>5, <1>6, <1>7, <1>8
<1>11. AtResults(new)'
  <2>1. out' = out \cup {f}
    BY <1>1, <1>4
  <2> QED
    BY <2>1, <1>3, <1>5, <1>6, <1>7, <1>8
<1> QED
    BY <1>9, <1>10, <1>11 DEF Placed

LEMMA SendRetryPlaced ==
    ASSUME TypeOK, Working, NEW spot, Tells(spot), NEW w \in Workers, SendRetry(w)
    PROVE  Placed'
<1>1. PICK x \in Unanswered(w) :
        /\ retry' = retry \cup {[x EXCEPT !.attempt = @ + 1]}
        /\ job' = [job EXCEPT ![w].keys = @ \ {x}]
    BY Zenon DEF SendRetry
<1>2. job[w] \in Batch
    BY DEF SendRetry, Working, Busy
<1>3. x \in FetchKey
    BY <1>2 DEF Batch
<1>4. PICK y : y = [x EXCEPT !.attempt = @ + 1]
    OBVIOUS
<1>5. y \in FetchKey /\ y.key = x.key
    BY <1>3, <1>4 DEF FetchKey
<1>6. PICK new : new = [i \in Keys |-> IF i = x.key THEN Spot("retry", "none", y) ELSE spot[i]]
    OBVIOUS
<1>7. spot[x.key] = Spot("worker", w, x)
    BY <1>3
<1>8. UNCHANGED <<unfed, input, routing, acc, jobq, got, out, delivered, cancelled>>
    BY DEF SendRetry
<1>9. AtWorkers(new)'
  <2>1. job'[w].keys = job[w].keys \ {x} /\ \A v \in Workers \ {w} : job'[v] = job[v]
    BY <1>1, <1>2 DEF TypeOK, Batch
  <2> QED
    BY <2>1, <1>3, <1>5, <1>6, <1>7, <1>8
<1>10. AtFeeder(new)' /\ AtResults(new)' /\ AtOwners(new)' /\ AtJobs(new)' /\ Located(new)'
    BY <1>3, <1>5, <1>6, <1>7, <1>8
<1>11. AtRoute(new)'
  <2>1. retry' = retry \cup {y}
    BY <1>1, <1>4
  <2> QED
    BY <2>1, <1>3, <1>5, <1>6, <1>7, <1>8
<1> QED
    BY <1>9, <1>10, <1>11 DEF Placed

\* A batch that is given up is lost, which only a stopped fetch does.
LEMMA ReportDonePlaced ==
    ASSUME TypeOK, Working, NEW spot, Tells(spot), NEW w \in Workers, ReportDone(w),
           wpc[w] = "report" => cancelled
    PROVE  Placed'
<1>1. PICK new : new = [i \in Keys |-> IF \E x \in Unanswered(w) : x.key = i
                                       THEN Spot("lost", "none", i) ELSE spot[i]]
    OBVIOUS
<1>2. Unanswered(w) \subseteq FetchKey
    BY DEF TypeOK, Batch, NoJob
<1>3. /\ job' = [job EXCEPT ![w] = NoJob] /\ got' = [got EXCEPT ![w] = {}]
      /\ UNCHANGED <<unfed, input, routing, retry, acc, jobq, out, delivered, cancelled>>
      /\ ~cancelled => Unanswered(w) = {}
    BY DEF ReportDone
<1>4. \A x \in Unanswered(w) : spot[x.key] = Spot("worker", w, x)
                               /\ new[x.key] = Spot("lost", "none", x.key)
    BY <1>1, <1>2
<1>5. \A i \in Keys : (\A x \in Unanswered(w) : x.key # i) => new[i] = spot[i]
    BY <1>1
<1>6. AtWorkers(new)'
    BY <1>2, <1>3, <1>4, <1>5 DEF TypeOK, NoJob
<1>7. AtFeeder(new)' /\ AtRoute(new)' /\ AtOwners(new)' /\ AtJobs(new)' /\ AtResults(new)'
    BY <1>2, <1>3, <1>4, <1>5
<1>8. Located(new)'
    BY <1>2, <1>3, <1>4, <1>5
<1> QED
    BY <1>6, <1>7, <1>8 DEF Placed

LEMMA ReceivePlaced ==
    ASSUME TypeOK, NEW spot, Tells(spot), Receive
    PROVE  Placed'
<1>1. PICK f \in out : out' = out \ {f} /\ delivered' = delivered \cup {f}
    BY DEF Receive
<1>2. f \in Fetched
    BY DEF TypeOK
<1>3. PICK new : new = [i \in Keys |-> IF i = f.key THEN Spot("delivered", "none", f) ELSE spot[i]]
    OBVIOUS
<1>4. Tells(new)'
    BY <1>1, <1>2, <1>3 DEF Receive
<1> QED
    BY <1>4 DEF Placed

HIDE SpotFacts
     DEF Tells, AtFeeder, AtRoute, AtOwners, AtJobs, AtWorkers, AtResults, Located, Unanswered,
         dispVars, workVars, chanVars, envVars

LEMMA PlacedStep ==
    ASSUME TypeOK, Counted, Working, Phases, Placed, [Next]_vars
    PROVE  Placed'
<1>1. PICK spot : Tells(spot)
    BY DEF Placed
<1> USE DEF dispVars, workVars, chanVars, envVars
<1>2. CASE AddKey
    BY <1>1, <1>2, AddKeyPlaced
<1>3. CASE DrainInput \/ SelectInput
    BY <1>1, <1>3, TakeInputPlaced DEF DrainInput, SelectInput
<1>4. CASE DrainRetry \/ SelectRetry
    BY <1>1, <1>4, TakeRetryPlaced DEF DrainRetry, SelectRetry
<1>5. CASE RouteRefresh \/ RouteMissing \/ RouteQueue
    BY <1>1, <1>5, RouteRefreshPlaced, RouteMissingPlaced, RouteQueuePlaced
<1>6. CASE Dispatch
    BY <1>1, <1>6, DispatchPlaced
<1>7. CASE DispatcherStops
  <2>1. CASE routing # None
    BY <1>1, <1>7, <2>1, DispatcherStopsPlaced
  <2>2. CASE routing = None
    BY <1>7, <2>2, StillPlaced DEF DispatcherStops
  <2> QED
    BY <2>1, <2>2
<1>8. CASE Receive
    BY <1>1, <1>8, ReceivePlaced
<1>9. ASSUME NEW w \in Workers, TakeJob(w) \/ EmitRecord(w) \/ SendRetry(w) \/ ReportDone(w)
      PROVE  Placed'
    BY <1>1, <1>9, TakeJobPlaced, EmitRecordPlaced, SendRetryPlaced, ReportDonePlaced DEF Phases
<1>10. ASSUME NEW w \in Workers, OpenFails(w) \/ StreamBreaks(w) \/ StreamEnds(w)
                                 \/ StreamStalls(w) \/ WorkerStops(w) \/ WorkerExits(w)
       PROVE  Placed'
    BY <1>10, StillPlaced DEF OpenFails, StreamBreaks, StreamEnds, StreamStalls, WorkerStops, WorkerExits
<1>11. CASE InputDrained \/ RetryDrained \/ Dispatched \/ SelectInputClosed \/ SelectDone
    BY <1>11, StillPlaced DEF InputDrained, RetryDrained, Dispatched, SelectInputClosed, SelectDone
<1>12. CASE CloseInput \/ Stop \/ ViewChanges \/ RankChanges \/ Finished \/ UNCHANGED vars
    BY <1>12, StillPlaced DEF CloseInput, Stop, ViewChanges, RankChanges, Finished, vars
<1> QED
    BY <1>2, <1>3, <1>4, <1>5, <1>6, <1>7, <1>8, <1>9, <1>10, <1>11, <1>12
       DEF Next, Dispatcher, Worker, Stream

\* Every step keeps the tasks in phase.
LEMMA PhasesStep ==
    ASSUME TypeOK, Counted, Working, Phases, [Next]_vars
    PROVE  Phases'
<1> USE DEF dispVars, workVars, chanVars, envVars
<1>1. /\ IsFiniteSet(input) /\ Cardinality(input) \in Nat
      /\ \A k \in input : Cardinality(input \ {k}) = Cardinality(input) - 1
    BY FetcherAssumption, FS_Subset, FS_CardinalityType, FS_RemoveElement DEF TypeOK
<1>2. inflight = 0 => jobq = {} /\ Busy = {}
    BY BusyFinite, FS_CardinalityType, FS_EmptySet DEF Counted, TypeOK
<1>3. CASE AddKey
  <2>1. PICK k \in unfed : input' = input \cup {k}
    BY <1>3 DEF AddKey
  <2>2. Cardinality(input') \in {Cardinality(input), Cardinality(input) + 1}
    BY <1>1, <2>1, FS_AddElement
  <2>3. Cardinality(input') <= InputCap
    BY <1>1, <1>3, <2>2, Constants DEF AddKey
  <2>4. inOpen
    BY <1>3 DEF AddKey, Phases
  <2> QED
    BY <1>3, <2>3, <2>4 DEF AddKey, Phases
<1>4. CASE CloseInput
    BY <1>4 DEF CloseInput, Phases, TypeOK
<1>5. CASE DrainInput \/ SelectInput
  <2>1. PICK k \in Keys : TakeInput("input", k) \/ TakeInput("select", k)
    BY <1>5 DEF DrainInput, SelectInput
  <2>2. Cardinality(input') <= InputCap
    BY <1>1, <2>1, Constants DEF TakeInput, Phases
  <2>3. inOpen /\ inOpen' = inOpen
    BY <2>1 DEF TakeInput
  <2>4. disp' = "input"
    BY <1>5, <2>1 DEF DrainInput, SelectInput, TakeInput
  <2> QED
    BY <2>1, <2>2, <2>3, <2>4 DEF TakeInput, Phases
<1>6. CASE DrainRetry \/ SelectRetry
    BY <1>6 DEF DrainRetry, SelectRetry, TakeRetry, Phases, TypeOK
<1>7. CASE InputDrained
  <2>1. ~inOpen' => inputClosed' /\ input' = {}
    BY <1>7 DEF InputDrained, Phases, TypeOK
  <2>2. disp' = "retry" /\ disp = "input" /\ UNCHANGED <<routing, wpc, cancelled, input>>
    BY <1>7 DEF InputDrained
  <2> QED
    BY <2>1, <2>2 DEF Phases
<1>8. CASE RetryDrained
    BY <1>8 DEF RetryDrained, Phases, TypeOK
<1>9. CASE RouteRefresh \/ RouteMissing \/ RouteQueue
    BY <1>9 DEF RouteRefresh, RouteMissing, RouteQueue, Phases, TypeOK
<1>10. CASE Dispatch
    BY <1>10 DEF Dispatch, Phases, TypeOK
<1>11. CASE Dispatched
    BY <1>11 DEF Dispatched, Idle, Phases, TypeOK
<1>12. CASE SelectInputClosed
    BY <1>12 DEF SelectInputClosed, Phases, TypeOK
<1>13. CASE SelectDone
    BY <1>13 DEF SelectDone, Phases, TypeOK
<1>14. CASE DispatcherStops
    BY <1>14 DEF DispatcherStops, Phases, TypeOK
<1>15. ASSUME NEW w \in Workers, TakeJob(w) PROVE Phases'
    BY <1>15 DEF TakeJob, Phases, TypeOK
<1>16. ASSUME NEW w \in Workers,
              EmitRecord(w) \/ OpenFails(w) \/ StreamBreaks(w) \/ StreamEnds(w) \/ StreamStalls(w)
              \/ WorkerStops(w)
       PROVE  Phases'
    BY <1>16 DEF EmitRecord, OpenFails, StreamBreaks, StreamEnds, StreamStalls, WorkerStops,
                 Phases, TypeOK
<1>17. ASSUME NEW w \in Workers, SendRetry(w) PROVE Phases'
    BY <1>2, <1>17 DEF SendRetry, Busy, Phases, TypeOK
<1>18. ASSUME NEW w \in Workers, ReportDone(w) PROVE Phases'
    BY <1>18 DEF ReportDone, Phases, TypeOK
<1>19. ASSUME NEW w \in Workers, WorkerExits(w) PROVE Phases'
    BY <1>19 DEF WorkerExits, Phases, TypeOK
<1>20. CASE Receive \/ Stop \/ ViewChanges \/ RankChanges \/ Finished \/ UNCHANGED vars
    BY <1>20 DEF Receive, Stop, ViewChanges, RankChanges, Finished, vars, Phases, TypeOK
<1> QED
    BY <1>3, <1>4, <1>5, <1>6, <1>7, <1>8, <1>9, <1>10, <1>11, <1>12, <1>13, <1>14, <1>15, <1>16,
       <1>17, <1>18, <1>19, <1>20 DEF Next, Dispatcher, Worker, Stream

\* The ranking is an order: of two owners one is ahead of the other, and of
\* whatever that one is ahead of.
LEMMA Ranking ==
    ASSUME TypeOK, NEW k \in Keys
    PROVE  /\ OwnersOf(k) \in Seq(Owners)
           /\ \A i \in DOMAIN OwnersOf(k) : /\ Ahead(k, i) \subseteq DOMAIN OwnersOf(k)
                                            /\ i \notin Ahead(k, i)
           /\ \A i, j \in DOMAIN OwnersOf(k) :
                  i # j => Ahead(k, i) \cup {i} \subseteq Ahead(k, j)
                           \/ Ahead(k, j) \cup {j} \subseteq Ahead(k, i)
<1>1. OwnersOf(k) \in Seq(Owners)
    BY Constants DEF OwnersOf, TypeOK
<1>2. /\ Replicas[view] \in Nat
      /\ \A i \in DOMAIN OwnersOf(k) : i \in Nat /\ score[OwnersOf(k)[i]] \in Nat
  <2>1. \A s \in Scores : s \in Nat
    <3>1. Scores \subseteq 0..31
      BY FetcherAssumption, Zenon
    <3> QED
      BY <3>1
  <2>2. \A i \in DOMAIN OwnersOf(k) : i \in Nat /\ OwnersOf(k)[i] \in Owners
    BY <1>1
  <2>3. Replicas[view] \in Nat
    BY FetcherAssumption DEF TypeOK
  <2> QED
    BY <2>1, <2>2, <2>3 DEF TypeOK
<1>3. \A i \in DOMAIN OwnersOf(k) : Ahead(k, i) \subseteq DOMAIN OwnersOf(k) /\ i \notin Ahead(k, i)
    BY <1>2 DEF Ahead
<1>4. \A i, j \in DOMAIN OwnersOf(k) :
        i # j => Ahead(k, i) \cup {i} \subseteq Ahead(k, j) \/ Ahead(k, j) \cup {j} \subseteq Ahead(k, i)
    BY <1>2 DEF Ahead
<1> QED
    BY <1>1, <1>3, <1>4

\* So every owner is at one place of the read order, and no two share one.
LEMMA OnePerPlace ==
    ASSUME TypeOK, NEW k \in Keys
    PROVE  /\ \A i \in DOMAIN OwnersOf(k) : \E m \in Nat :
                  m < Len(OwnersOf(k)) /\ OwnersOf(k)[i] \in ReadOrder(k, m)
           /\ \A m \in Nat : \A o \in ReadOrder(k, m) : ReadOrder(k, m) \subseteq {o}
<1> DEFINE D == DOMAIN OwnersOf(k)
<1>1. D = 1..Len(OwnersOf(k)) /\ Len(OwnersOf(k)) \in Nat
    BY Ranking
<1>2. IsFiniteSet(D) /\ Cardinality(D) = Len(OwnersOf(k))
  <2>1. /\ IsFiniteSet(1..Len(OwnersOf(k)))
        /\ Cardinality(1..Len(OwnersOf(k))) = IF 1 > Len(OwnersOf(k)) THEN 0 ELSE Len(OwnersOf(k)) - 1 + 1
    BY <1>1, FS_Interval
  <2> QED
    BY <1>1, <2>1
<1>3. \A i \in D : IsFiniteSet(Ahead(k, i)) /\ Cardinality(Ahead(k, i)) \in Nat
    BY <1>2, Ranking, FS_Subset, FS_CardinalityType
<1>4. \A i \in D : Cardinality(Ahead(k, i) \cup {i}) = Cardinality(Ahead(k, i)) + 1
    BY <1>3, Ranking, FS_AddElement
<1>5. ASSUME NEW i \in D
      PROVE  \E m \in Nat : m < Len(OwnersOf(k)) /\ OwnersOf(k)[i] \in ReadOrder(k, m)
  <2>1. Ahead(k, i) \cup {i} \subseteq D
    BY Ranking
  <2>2. Cardinality(Ahead(k, i) \cup {i}) <= Cardinality(D)
    BY <1>2, <2>1, FS_Subset
  <2>3. Cardinality(Ahead(k, i)) < Len(OwnersOf(k))
    BY <1>1, <1>2, <1>3, <1>4, <2>2
  <2> QED
    BY <1>3, <2>3 DEF ReadOrder
<1>6. ASSUME NEW i \in D, NEW j \in D, Ahead(k, i) \cup {i} \subseteq Ahead(k, j)
      PROVE  Cardinality(Ahead(k, i)) < Cardinality(Ahead(k, j))
  <2>1. Cardinality(Ahead(k, i) \cup {i}) <= Cardinality(Ahead(k, j))
    BY <1>3, <1>6, FS_Subset
  <2> QED
    BY <1>3, <1>4, <2>1
<1>7. \A i, j \in D : Cardinality(Ahead(k, i)) = Cardinality(Ahead(k, j)) => i = j
    BY <1>3, <1>6, Ranking
<1> QED
    BY <1>5, <1>7 DEF ReadOrder

\* A key whose order did not move has the owners and the order it had.
LEMMA Unmoved ==
    ASSUME TypeOK, TypeOK', [Next]_vars
    PROVE  \A k \in Keys : k \notin moved' =>
               /\ k \notin moved
               /\ OwnersOf(k)' = OwnersOf(k)
               /\ \A n : ReadOrder(k, n)' = ReadOrder(k, n)
<1> USE DEF dispVars, workVars, chanVars, envVars
<1>1. Watched \/ UNCHANGED <<view, score, moved>>
    BY DEF Next, vars, Dispatcher, Worker, Stream, AddKey, CloseInput, DrainInput, TakeInput,
           InputDrained, DrainRetry, TakeRetry, RetryDrained, RouteRefresh, RouteMissing, RouteQueue,
           Dispatch, Dispatched, SelectInput, SelectInputClosed, SelectRetry, SelectDone,
           DispatcherStops, TakeJob, EmitRecord, OpenFails, StreamBreaks, StreamEnds, StreamStalls,
           SendRetry, ReportDone, WorkerStops, WorkerExits, Receive, Stop, ViewChanges, RankChanges,
           Finished
<1>2. ASSUME NEW k \in Keys, k \notin moved', Watched
      PROVE  /\ k \notin moved
             /\ OwnersOf(k)' = OwnersOf(k)
             /\ \A n : ReadOrder(k, n)' = ReadOrder(k, n)
  <2>1. k \notin moved /\ Order(k)' = Order(k)
    BY <1>2 DEF Watched
  <2>2. OwnersOf(k)' = OwnersOf(k)
    BY <2>1 DEF Order
  <2>3. \A i \in DOMAIN OwnersOf(k) : Ahead(k, i)' = Ahead(k, i)
    BY <2>1, <2>2 DEF Order
  <2> QED
    BY <2>1, <2>2, <2>3 DEF ReadOrder
<1>3. ASSUME NEW k \in Keys, k \notin moved', UNCHANGED <<view, score, moved>>
      PROVE  /\ k \notin moved
             /\ OwnersOf(k)' = OwnersOf(k)
             /\ \A n : ReadOrder(k, n)' = ReadOrder(k, n)
    BY <1>3 DEF ReadOrder, Ahead, OwnersOf
<1> QED
    BY <1>1, <1>2, <1>3

\* What was asked stays asked.
LEMMA TriedStays ==
    ASSUME TypeOK, TypeOK', [Next]_vars, \A k \in Keys : asked[k] \subseteq asked'[k]
    PROVE  /\ \A x \in FetchKey : \A n : Tried(x, n) => Tried(x, n)'
           /\ \A x \in FetchKey : \A o : Turn(x, o) => Turn(x, o)'
           /\ \A k \in Keys : (k \notin moved => AllOwnersAsked(k))
                               => (k \notin moved => AllOwnersAsked(k))'
<1>1. \A x \in FetchKey : x.key \in Keys
    BY DEF FetchKey
<1>2. \A x \in FetchKey : \A n : Tried(x, n) => Tried(x, n)'
    BY <1>1, Unmoved DEF Tried
<1>3. \A x \in FetchKey : \A o : Turn(x, o) => Turn(x, o)'
    BY <1>1, <1>2, Unmoved DEF Turn
<1>4. \A k \in Keys : (k \notin moved => AllOwnersAsked(k)) => (k \notin moved => AllOwnersAsked(k))'
    BY Unmoved DEF AllOwnersAsked, OwnersOf
<1> QED
    BY <1>2, <1>3, <1>4

\* Every step keeps the count of owners asked.
LEMMA AskedStep ==
    ASSUME TypeOK, TypeOK', Working, Asked, [Next]_vars
    PROVE  Asked'
<1> USE DEF dispVars, workVars, chanVars, envVars
<1>2. \A k \in Keys : asked[k] \subseteq asked'[k]
    BY DEF Next, vars, Dispatcher, Worker, Stream, AddKey, CloseInput, DrainInput, TakeInput,
           InputDrained, DrainRetry, TakeRetry, RetryDrained, RouteRefresh, RouteMissing, RouteQueue,
           Dispatch, Dispatched, SelectInput, SelectInputClosed, SelectRetry, SelectDone,
           DispatcherStops, TakeJob, EmitRecord, OpenFails, StreamBreaks, StreamEnds, StreamStalls,
           SendRetry, ReportDone, WorkerStops, WorkerExits, Receive, Stop, ViewChanges, RankChanges,
           Finished, TypeOK
<1>3. /\ \A x \in FetchKey : \A n : Tried(x, n) => Tried(x, n)'
      /\ \A x \in FetchKey : \A o : Turn(x, o) => Turn(x, o)'
      /\ \A k \in Keys : (k \notin moved => AllOwnersAsked(k))
                          => (k \notin moved => AllOwnersAsked(k))'
    BY <1>2, TriedStays
<1>4. /\ \A o \in Owners : acc[o] \subseteq FetchKey
      /\ \A j \in jobq : j.keys \subseteq FetchKey
      /\ \A w \in Workers : job[w].keys \subseteq FetchKey
      /\ \A f \in out \cup delivered : f.key \in Keys
    BY DEF TypeOK, Batch, NoJob, Fetched
<1>5. ASSUME UNCHANGED <<routing, retry, acc, jobq, wpc, job, out, delivered>>
      PROVE  Asked'
    BY <1>3, <1>4, <1>5 DEF Asked, TypeOK
<1>6. \A x \in FetchKey : Tried(x, 0)'
    BY DEF Tried
<1>7. CASE DrainInput \/ SelectInput
  <2>1. routing' \in FetchKey /\ routing'.attempt = 0
    BY <1>7 DEF DrainInput, SelectInput, TakeInput, FetchKey
  <2>2. Tried(routing, routing.attempt)'
    BY <1>6, <2>1
  <2>3. UNCHANGED <<retry, acc, jobq, wpc, job, out, delivered>>
    BY <1>7 DEF DrainInput, SelectInput, TakeInput
  <2> QED
    BY <1>3, <1>4, <2>2, <2>3 DEF Asked, TypeOK
<1>8. CASE DrainRetry \/ SelectRetry
    BY <1>3, <1>4, <1>8 DEF DrainRetry, SelectRetry, TakeRetry, Asked, TypeOK
<1>9. CASE RouteRefresh
  <2>1. routing' \in FetchKey /\ routing'.attempt = 0
    BY <1>9 DEF RouteRefresh, FetchKey, TypeOK
  <2>2. Tried(routing, routing.attempt)'
    BY <1>6, <2>1
  <2>3. UNCHANGED <<retry, acc, jobq, wpc, job, out, delivered>>
    BY <1>9 DEF RouteRefresh
  <2> QED
    BY <1>3, <1>4, <2>2, <2>3 DEF Asked, TypeOK
<1>10. CASE RouteMissing
  <2>1. routing \in FetchKey /\ routing.key \in Keys /\ routing.attempt \in Nat
    BY <1>10 DEF RouteMissing, TypeOK, FetchKey
  <2>2. OwnersOf(routing.key) \in Seq(Owners)
    BY <2>1, Constants DEF OwnersOf, TypeOK
  <2>3. routing.key \notin moved => AllOwnersAsked(routing.key)
    <3> SUFFICES ASSUME routing.key \notin moved, NEW i \in DOMAIN OwnersOf(routing.key)
                 PROVE  OwnersOf(routing.key)[i] \in asked[routing.key]
      BY DEF AllOwnersAsked, OwnersOf
    <3>1. PICK m \in Nat : /\ m < Len(OwnersOf(routing.key))
                          /\ OwnersOf(routing.key)[i] \in ReadOrder(routing.key, m)
      BY <2>1, OnePerPlace
    <3>2. m < routing.attempt
      BY <1>10, <2>1, <2>2, <3>1 DEF RouteMissing
    <3> QED
      BY <1>10, <3>1, <3>2 DEF RouteMissing, Asked, Tried
  <2>4. PICK f : f = [key |-> routing.key, found |-> FALSE] /\ out' = out \cup {f}
    BY <1>10 DEF RouteMissing
  <2>5. routing' = None /\ UNCHANGED <<retry, acc, jobq, wpc, job, delivered>>
    BY <1>10 DEF RouteMissing
  <2> QED
    BY <1>3, <1>4, <2>1, <2>3, <2>4, <2>5 DEF Asked, TypeOK
<1>11. CASE RouteQueue
  <2>1. routing \in FetchKey /\ routing.key \in Keys /\ routing.attempt \in Nat
    BY <1>11 DEF RouteQueue, TypeOK, FetchKey
  <2>2. PICK o \in ReadOrder(routing.key, routing.attempt) :
          acc' = [acc EXCEPT ![o] = @ \cup {routing}]
    BY <1>11 DEF RouteQueue
  <2>3. o \in Owners /\ Turn(routing, o)
    BY <1>11, <2>1, OnePerPlace, ReadOrderOwners DEF RouteQueue, Asked, Turn
  <2>4. \A p \in Owners : acc'[p] \subseteq acc[p] \cup (IF p = o THEN {routing} ELSE {})
    BY <2>2 DEF TypeOK
  <2>5. routing' = None /\ UNCHANGED <<retry, jobq, wpc, job, out, delivered>>
    BY <1>11 DEF RouteQueue
  <2>6. \A p \in Owners : \A x \in acc'[p] : Turn(x, p)'
    BY <1>3, <1>4, <2>1, <2>3, <2>4 DEF Asked
  <2> QED
    BY <1>3, <1>4, <2>5, <2>6 DEF Asked, TypeOK
<1>12. CASE Dispatch
  <2>1. PICK o \in Owners : \E ks \in SUBSET acc[o] :
          jobq' = {[node |-> o, keys |-> ks]} /\ acc' = [acc EXCEPT ![o] = @ \ ks]
    BY <1>12, DispatchBatch
  <2>2. \A p \in Owners : acc'[p] \subseteq acc[p]
    BY <2>1 DEF TypeOK
  <2>  PICK ks \in SUBSET acc[o] : jobq' = {[node |-> o, keys |-> ks]}
    BY <2>1
  <2>3. UNCHANGED <<routing, retry, wpc, job, out, delivered>>
    BY <1>12 DEF Dispatch
  <2>4. \A j \in jobq' : \A x \in j.keys : Turn(x, j.node)'
    BY <1>3, <1>4, <2>1 DEF Asked
  <2>5. \A p \in Owners : \A x \in acc'[p] : Turn(x, p)'
    BY <1>3, <1>4, <2>2 DEF Asked
  <2> QED
    BY <1>3, <1>4, <2>3, <2>4, <2>5 DEF Asked, TypeOK
<1>13. ASSUME NEW w \in Workers, TakeJob(w) PROVE Asked'
  <2>1. PICK j \in jobq :
          /\ jobq' = jobq \ {j} /\ job' = [job EXCEPT ![w] = j]
          /\ asked' = [k \in Keys |-> IF ~cancelled /\ \E fk \in j.keys : fk.key = k
                                      THEN asked[k] \cup {j.node} ELSE asked[k]]
    BY <1>13 DEF TakeJob
  <2>2. /\ wpc' = [wpc EXCEPT ![w] = IF cancelled THEN "report" ELSE "stream"]
        /\ UNCHANGED <<routing, retry, acc, out, delivered>>
    BY <1>13 DEF TakeJob
  <2>3. ASSUME NEW x \in j.keys, ~cancelled PROVE Tried(x, x.attempt + 1)'
    <3>1. x \in FetchKey /\ x.key \in Keys /\ x.attempt \in Nat
      BY <1>4 DEF FetchKey
    <3>2. Turn(x, j.node) /\ j.node \in asked'[x.key]
      BY <2>1, <2>3, <3>1 DEF Asked
    <3>3. Turn(x, j.node)'
      BY <1>3, <3>1, <3>2
    <3>4. \A m \in Nat : m < x.attempt + 1 => m < x.attempt \/ m = x.attempt
      BY <3>1
    <3>5. ASSUME x.key \notin moved', NEW m \in Nat, m < x.attempt + 1
          PROVE  ReadOrder(x.key, m)' \subseteq asked'[x.key]
      <4>1. CASE m < x.attempt
        BY <3>3, <3>5, <4>1 DEF Turn, Tried
      <4>2. CASE m = x.attempt
        BY <3>2, <3>3, <3>5, <4>2 DEF Turn
      <4> QED
        BY <3>4, <3>5, <4>1, <4>2
    <3> QED
      BY <3>5 DEF Tried
  <2>4. \A v \in Workers : wpc'[v] \in {"stream", "retry"} =>
            \A x \in job'[v].keys : Tried(x, x.attempt + 1)'
    BY <1>3, <1>4, <2>1, <2>2, <2>3 DEF Asked, TypeOK
  <2> QED
    BY <1>3, <1>4, <2>1, <2>2, <2>4 DEF Asked, TypeOK
<1>14. ASSUME NEW w \in Workers, EmitRecord(w) PROVE Asked'
  <2>1. PICK f : f.found = TRUE /\ out' = out \cup {f}
    BY <1>14 DEF EmitRecord
  <2>2. UNCHANGED <<routing, retry, acc, jobq, wpc, job, delivered>>
    BY <1>14 DEF EmitRecord
  <2> QED
    BY <1>3, <1>4, <2>1, <2>2 DEF Asked, TypeOK
<1>15. ASSUME NEW w \in Workers, SendRetry(w) PROVE Asked'
  <2>1. PICK x \in Unanswered(w) : /\ retry' = retry \cup {[x EXCEPT !.attempt = @ + 1]}
                                   /\ job' = [job EXCEPT ![w].keys = @ \ {x}]
    BY <1>15 DEF SendRetry
  <2>2. x \in job[w].keys /\ x \in FetchKey
    BY <1>4 DEF Unanswered
  <2>3. PICK y : y = [x EXCEPT !.attempt = @ + 1]
    OBVIOUS
  <2>4. y \in FetchKey /\ y.key = x.key /\ y.attempt = x.attempt + 1 /\ retry' = retry \cup {y}
    BY <2>1, <2>2, <2>3 DEF FetchKey
  <2>8. Tried(x, x.attempt + 1)'
    BY <1>3, <1>15, <2>2 DEF SendRetry, Asked
  <2>5. Tried(y, y.attempt)'
    BY <2>4, <2>8 DEF Tried
  <2>6. UNCHANGED <<routing, acc, jobq, wpc, out, delivered>>
    BY <1>15 DEF SendRetry
  <2>7. \A v \in Workers : job'[v].keys \subseteq job[v].keys
    BY <2>1 DEF TypeOK, Batch, NoJob
  <2> QED
    BY <1>3, <1>4, <2>4, <2>5, <2>6, <2>7 DEF Asked, TypeOK
<1>16. ASSUME NEW w \in Workers, OpenFails(w) \/ StreamBreaks(w) \/ StreamEnds(w) \/ StreamStalls(w)
                                 \/ ReportDone(w) \/ WorkerStops(w) \/ WorkerExits(w)
       PROVE  Asked'
  <2>1. UNCHANGED <<routing, retry, acc, jobq, out, delivered>>
    BY <1>16 DEF OpenFails, StreamBreaks, StreamEnds, StreamStalls, ReportDone, WorkerStops, WorkerExits
  <2>2. \A v \in Workers : wpc'[v] \in {"stream", "retry"} =>
            wpc[v] \in {"stream", "retry"} /\ job'[v] = job[v]
    BY <1>16 DEF OpenFails, StreamBreaks, StreamEnds, StreamStalls, ReportDone, WorkerStops,
                 WorkerExits, TypeOK
  <2> QED
    BY <1>3, <1>4, <2>1, <2>2 DEF Asked, TypeOK
<1>17. CASE Receive
    BY <1>3, <1>4, <1>17 DEF Receive, Asked, TypeOK
<1>20. CASE AddKey \/ CloseInput \/ Stop \/ ViewChanges \/ RankChanges \/ Finished \/ UNCHANGED vars
    BY <1>5, <1>20 DEF AddKey, CloseInput, Stop, ViewChanges, RankChanges, Finished, vars
<1>21. CASE InputDrained \/ RetryDrained \/ Dispatched \/ SelectInputClosed \/ SelectDone
    BY <1>5, <1>21 DEF InputDrained, RetryDrained, Dispatched, SelectInputClosed, SelectDone
<1>22. CASE DispatcherStops
    BY <1>3, <1>4, <1>22 DEF DispatcherStops, Asked, TypeOK
<1> QED
    BY <1>7, <1>8, <1>9, <1>10, <1>11, <1>12, <1>13, <1>14, <1>15, <1>16, <1>17, <1>20,
       <1>21, <1>22 DEF Next, Dispatcher, Worker, Stream

-----------------------------------------------------------------------------
LEMMA KeysOfIs == \A S, k : k \in KeysOf(S) <=> \E x \in S : x.key = k
    BY DEF KeysOf

\* Where spot says a key is, and no other place, holds it.
LEMMA PlacesAreSpots ==
    ASSUME TypeOK, NEW spot, Tells(spot), NEW k \in Keys, NEW p \in Places(k)
    PROVE  \/ p = <<"unfed">> /\ spot[k] = Spot("unfed", "none", k)
           \/ p = <<"input">> /\ spot[k] = Spot("input", "none", k)
           \/ \E x \in FetchKey : \/ p = <<"routing">> /\ spot[k] = Spot("routing", "none", x)
                                  \/ p = <<"job">> /\ spot[k] = Spot("job", "none", x)
                                  \/ p = <<"retry">> /\ spot[k] = Spot("retry", "none", x)
           \/ \E o \in Owners, x \in FetchKey : p = <<"acc", o>> /\ spot[k] = Spot("acc", o, x)
           \/ \E w \in Workers, x \in FetchKey :
                p = <<"worker", w>> /\ spot[k] = Spot("worker", w, x)
           \/ \E f \in Fetched : \/ p = <<"out">> /\ spot[k] = Spot("out", "none", f)
                                 \/ p = <<"delivered">> /\ spot[k] = Spot("delivered", "none", f)
<1> USE KeysOfIs DEF Tells
<1>1. CASE p \in {<<"unfed">> : x \in {k} \cap unfed} \cup {<<"input">> : x \in {k} \cap input}
    BY <1>1 DEF AtFeeder
<1>2. CASE p \in {<<"routing">> : x \in {k} \cap (IF routing = None THEN {} ELSE {routing.key})}
  <2>1. p = <<"routing">> /\ routing # None /\ routing.key = k
    BY <1>2
  <2>2. routing \in FetchKey /\ spot[k] = Spot("routing", "none", routing)
    BY <2>1 DEF AtRoute, TypeOK
  <2> QED
    BY <2>1, <2>2, Zenon
<1>3. CASE p \in {<<"acc", o>> : o \in {q \in Owners : k \in KeysOf(acc[q])}}
  <2>1. PICK o \in Owners : p = <<"acc", o>> /\ k \in KeysOf(acc[o])
    BY <1>3
  <2>2. PICK x \in acc[o] : x.key = k
    BY <2>1
  <2>3. x \in FetchKey /\ spot[k] = Spot("acc", o, x)
    BY <2>2 DEF AtOwners, TypeOK
  <2> QED
    BY <2>1, <2>3
<1>4. CASE p \in {<<"job">> : j \in {i \in jobq : k \in KeysOf(i.keys)}}
  <2>1. PICK j \in jobq : p = <<"job">> /\ k \in KeysOf(j.keys)
    BY <1>4
  <2>2. PICK x \in j.keys : x.key = k
    BY <2>1
  <2>3. x \in FetchKey /\ spot[k] = Spot("job", "none", x)
    BY <2>2 DEF AtJobs, TypeOK, Batch
  <2> QED
    BY <2>1, <2>3, Zenon
<1>5. CASE p \in {<<"worker", w>> : w \in {v \in Workers : k \in KeysOf(Unanswered(v))}}
  <2>1. PICK w \in Workers : p = <<"worker", w>> /\ k \in KeysOf(Unanswered(w))
    BY <1>5
  <2>2. PICK x \in Unanswered(w) : x.key = k
    BY <2>1
  <2>3. x \in FetchKey
    BY <2>2 DEF Unanswered, TypeOK, Batch, NoJob
  <2>4. spot[k] = Spot("worker", w, x)
    BY <2>2, <2>3 DEF AtWorkers
  <2> QED
    BY <2>1, <2>3, <2>4
<1>6. CASE p \in {<<"retry">> : x \in {k} \cap KeysOf(retry)}
  <2>1. PICK x \in retry : x.key = k /\ p = <<"retry">>
    BY <1>6
  <2>2. x \in FetchKey /\ spot[k] = Spot("retry", "none", x)
    BY <2>1 DEF AtRoute, TypeOK
  <2> QED
    BY <2>1, <2>2, Zenon
<1>7. CASE p \in {<<"out">> : x \in {k} \cap KeysOf(out)}
              \cup {<<"delivered">> : x \in {k} \cap KeysOf(delivered)}
  <2>1. PICK f \in out \cup delivered :
          f.key = k /\ ((f \in out /\ p = <<"out">>) \/ (f \in delivered /\ p = <<"delivered">>))
    BY <1>7
  <2>2. f \in Fetched
    BY DEF TypeOK
  <2>3. \/ p = <<"out">> /\ spot[k] = Spot("out", "none", f)
        \/ p = <<"delivered">> /\ spot[k] = Spot("delivered", "none", f)
    BY <2>1, <2>2 DEF AtResults
  <2> QED
    BY <2>2, <2>3, Zenon
<1> QED
    BY <1>1, <1>2, <1>3, <1>4, <1>5, <1>6, <1>7 DEF Places

\* A key that is not lost is somewhere.
LEMMA SpotsArePlaces ==
    ASSUME TypeOK, NEW spot, Tells(spot), NEW k \in Keys, ~cancelled
    PROVE  Places(k) # {}
<1>1. IsSpotOf(k, spot[k]) /\ spot[k] # Spot("lost", "none", k)
    BY DEF Tells, Located
<1> USE KeysOfIs DEF Tells
<1>2. CASE spot[k] = Spot("unfed", "none", k) \/ spot[k] = Spot("input", "none", k)
  <2>1. k \in unfed \cup input
    BY <1>2 DEF AtFeeder
  <2>2. k \in unfed => <<"unfed">> \in {<<"unfed">> : x \in {k} \cap unfed}
    OBVIOUS
  <2>3. k \in input => <<"input">> \in {<<"input">> : x \in {k} \cap input}
    OBVIOUS
  <2> QED
    BY <2>1, <2>2, <2>3 DEF Places
<1>3. ASSUME NEW x \in FetchKey, x.key = k,
             spot[k] = Spot("routing", "none", x) \/ spot[k] = Spot("retry", "none", x)
      PROVE  Places(k) # {}
  <2>1. (routing # None /\ routing.key = k) \/ k \in KeysOf(retry)
    BY <1>3, Constants DEF AtRoute
  <2>2. k \in KeysOf(retry) => <<"retry">> \in {<<"retry">> : y \in {k} \cap KeysOf(retry)}
    OBVIOUS
  <2>3. routing # None /\ routing.key = k =>
            <<"routing">> \in {<<"routing">> :
                               y \in {k} \cap (IF routing = None THEN {} ELSE {routing.key})}
    OBVIOUS
  <2> QED
    BY <2>1, <2>2, <2>3 DEF Places
<1>4. ASSUME NEW x \in FetchKey, x.key = k, spot[k] = Spot("job", "none", x)
      PROVE  Places(k) # {}
  <2>1. PICK j \in jobq : x \in j.keys
    BY <1>4 DEF AtJobs
  <2>2. k \in KeysOf(j.keys)
    BY <1>4, <2>1
  <2>3. <<"job">> \in {<<"job">> : i \in {h \in jobq : k \in KeysOf(h.keys)}}
    BY <2>2
  <2> QED
    BY <2>3 DEF Places
<1>5. ASSUME NEW x \in FetchKey, x.key = k, NEW o \in Owners, spot[k] = Spot("acc", o, x)
      PROVE  Places(k) # {}
  <2>1. k \in KeysOf(acc[o])
    BY <1>5 DEF AtOwners
  <2>2. <<"acc", o>> \in {<<"acc", q>> : q \in {r \in Owners : k \in KeysOf(acc[r])}}
    BY <2>1
  <2> QED
    BY <2>2 DEF Places
<1>6. ASSUME NEW x \in FetchKey, x.key = k, NEW w \in Workers, spot[k] = Spot("worker", w, x)
      PROVE  Places(k) # {}
  <2>1. k \in KeysOf(Unanswered(w))
    BY <1>6 DEF AtWorkers
  <2>2. <<"worker", w>> \in {<<"worker", v>> : v \in {u \in Workers : k \in KeysOf(Unanswered(u))}}
    BY <2>1
  <2> QED
    BY <2>2 DEF Places
<1>7. ASSUME NEW f \in Fetched, f.key = k,
             spot[k] = Spot("out", "none", f) \/ spot[k] = Spot("delivered", "none", f)
      PROVE  Places(k) # {}
  <2>1. k \in KeysOf(out) \/ k \in KeysOf(delivered)
    BY <1>7 DEF AtResults
  <2>2. k \in KeysOf(out) => <<"out">> \in {<<"out">> : x \in {k} \cap KeysOf(out)}
    OBVIOUS
  <2>3. k \in KeysOf(delivered) =>
            <<"delivered">> \in {<<"delivered">> : x \in {k} \cap KeysOf(delivered)}
    OBVIOUS
  <2> QED
    BY <2>1, <2>2, <2>3 DEF Places
<1> QED
    BY <1>1, <1>2, <1>3, <1>4, <1>5, <1>6, <1>7 DEF IsSpotOf

LEMMA PlacedIsOnePlace == TypeOK /\ Placed => OnePlace
<1> SUFFICES ASSUME TypeOK, Placed, NEW k \in Keys
             PROVE  Cardinality(Places(k)) \in IF cancelled THEN {0, 1} ELSE {1}
    BY DEF OnePlace
<1>1. PICK spot : Tells(spot)
    BY DEF Placed
<1>2. \A p, q \in Places(k) : p = q
    BY <1>1, PlacesAreSpots, SpotFacts
<1>3. CASE Places(k) = {}
    BY <1>1, <1>3, SpotsArePlaces, FS_EmptySet
<1>4. ASSUME NEW p, p \in Places(k)
      PROVE  Cardinality(Places(k)) = 1
  <2>1. Places(k) = {p}
    BY <1>2, <1>4
  <2> QED
    BY <2>1, FS_Singleton
<1> QED
    BY <1>3, <1>4

-----------------------------------------------------------------------------
IInv == TypeOK /\ Counted /\ Working /\ Phases /\ Placed /\ Asked

LEMMA InitIInv == Init => IInv
<1> SUFFICES ASSUME Init PROVE Phases /\ Asked
    BY InitType, InitPlaced DEF IInv
<1> USE DEF Init, InitAt
<1>1. Cardinality(input) <= InputCap
    BY FS_EmptySet, Constants
<1>2. Phases
    BY <1>1 DEF Phases
<1>3. Asked
    BY DEF Asked, NoJob
<1> QED
    BY <1>2, <1>3

LEMMA StepIInv == IInv /\ [Next]_vars => IInv'
    BY TypeStep, CountStep, PhasesStep, PlacedStep, AskedStep DEF IInv

\* For any fetch: the sizes, queues and jobs of the fetcher are what its fields
\* say, in particular no more than `jobs` batches are out at a time.
THEOREM FetcherTypeOK == Spec => []TypeOK
<1>1. IInv => TypeOK
    BY DEF IInv
<1> QED
    BY <1>1, InitIInv, StepIInv, PTL DEF Spec

\* fetch.rs: every key is in one place at a time, and none is lost unless the
\* fetch was stopped.
THEOREM FetcherOnePlace == Spec => []OnePlace
<1>1. IInv => OnePlace
    BY PlacedIsOnePlace DEF IInv
<1> QED
    BY <1>1, InitIInv, StepIInv, PTL DEF Spec

\* fetch.rs, route: a key is reported missing only when every owner of its read
\* order was asked, as long as its order stood still: whatever became of other
\* keys, of the ranking of nodes or of the view.
THEOREM FetcherMissingMeansAllAsked == Spec => []MissingMeansAllAsked
<1>1. IInv => MissingMeansAllAsked
    BY DEF IInv, Asked, MissingMeansAllAsked
<1> QED
    BY <1>1, InitIInv, StepIInv, PTL DEF Spec

-----------------------------------------------------------------------------
\* The promise counts as the fetcher does.
LEMMA SameCardinality == \A S : Promise!Cardinality(S) = Cardinality(S)
    BY DEF Promise!Cardinality, Cardinality

LEMMA PromiseInit == Init => Promise!Init
<1> SUFFICES ASSUME Init PROVE Promise!Init
    OBVIOUS
<1> USE DEF Init, InitAt
<1>1. Cardinality(input) < InputCap
    BY FS_EmptySet, Constants
<1>2. Over = FALSE /\ Hung = FALSE
    BY FetcherAssumption DEF Over, Hung
<1> QED
    BY <1>1, <1>2 DEF Promise!Init

\* A key in the fetcher's hands was handed over and has no outcome yet.
LEMMA NotAnswered ==
    ASSUME TypeOK, NEW spot, Tells(spot), NEW x \in FetchKey,
           \/ spot[x.key] = Spot("routing", "none", x)
           \/ \E w : spot[x.key] = Spot("worker", w, x)
    PROVE  x.key \in (Keys \ unfed) \ Promise!Answered
<1>1. x.key \in Keys \ unfed
    BY SpotFacts DEF Tells, AtFeeder
<1>2. \A f \in out \cup delivered : f.key # x.key
    BY SpotFacts DEF Tells, AtResults, TypeOK
<1> QED
    BY <1>1, <1>2 DEF Promise!Answered

\* Once the dispatcher is through and no worker is busy, unless the fetch was
\* stopped, every key handed over has its outcome.
LEMMA OverIsAnswered ==
    ASSUME IInv, disp = "over", ~cancelled
    PROVE  inputClosed /\ Keys \ unfed \subseteq Promise!Answered
<1>1. PICK spot : Tells(spot)
    BY DEF IInv, Placed
<1>2. routing = None /\ inputClosed /\ input = {} /\ inflight = 0 /\ retry = {}
      /\ \A o \in Owners : acc[o] = {}
    BY DEF IInv, Phases, TypeOK
<1>3. jobq = {} /\ Busy = {}
    BY <1>2, BusyFinite, FS_CardinalityType, FS_EmptySet DEF IInv, Counted, TypeOK
<1>4. \A w \in Workers : Unanswered(w) = {}
    BY <1>3 DEF IInv, Working, Unanswered, NoJob
<1>5. ASSUME NEW k \in Keys \ unfed PROVE k \in Promise!Answered
  <2>1. IsSpotOf(k, spot[k]) /\ spot[k] # Spot("lost", "none", k)
    BY <1>1 DEF Tells, Located
  <2>2. spot[k] # Spot("unfed", "none", k) /\ spot[k] # Spot("input", "none", k)
    BY <1>1, <1>2 DEF Tells, AtFeeder
  <2>3. \A x \in FetchKey : x.key = k =>
            /\ spot[k] # Spot("routing", "none", x) /\ spot[k] # Spot("retry", "none", x)
            /\ spot[k] # Spot("job", "none", x)
            /\ \A o \in Owners : spot[k] # Spot("acc", o, x)
            /\ \A w \in Workers : spot[k] # Spot("worker", w, x)
    BY <1>1, <1>2, <1>3, <1>4, SpotFacts DEF Tells, AtRoute, AtJobs, AtOwners, AtWorkers
  <2>4. PICK f \in Fetched : /\ f.key = k
                            /\ \/ spot[k] = Spot("out", "none", f)
                               \/ spot[k] = Spot("delivered", "none", f)
    BY <2>1, <2>2, <2>3 DEF IsSpotOf
  <2>5. f \in out \cup delivered
    BY <1>1, <2>4 DEF Tells, AtResults
  <2> QED
    BY <2>4, <2>5 DEF Promise!Answered
<1> QED
    BY <1>2, <1>5

\* The variables of the promise, unchanged.
LEMMA PromiseStill ==
    ASSUME UNCHANGED <<unfed, inputClosed, out, delivered, cancelled>>,
           Cardinality(input') < InputCap <=> Cardinality(input) < InputCap,
           Over' <=> Over, Hung' <=> Hung
    PROVE  UNCHANGED Promise!vars
    BY DEF Promise!vars, Over, Hung

LEMMA PromiseStep == IInv /\ IInv' /\ [Next]_vars => [Promise!Next]_Promise!vars
<1> SUFFICES ASSUME IInv, IInv', [Next]_vars PROVE Promise!Next \/ UNCHANGED Promise!vars
    OBVIOUS
<1> USE DEF dispVars, workVars, chanVars, envVars
<1>1. PICK spot : Tells(spot)
    BY DEF IInv, Placed
<1>2. \E w \in Workers : TRUE
    BY FetcherAssumption
<1>14. ASSUME UNCHANGED cancelled,
              \A w \in Workers : wpc'[w] = "stalled" <=> wpc[w] = "stalled"
       PROVE  Hung' = Hung
    BY <1>14 DEF Hung
<1>3. CASE AddKey
  <2>1. PICK k \in unfed : unfed' = unfed \ {k}
    BY <1>3 DEF AddKey
  <2>2. k \in Keys \ (Keys \ unfed) /\ Keys \ unfed' = (Keys \ unfed) \cup {k}
    BY <2>1 DEF IInv, TypeOK
  <2>3. Promise!Give(k)
    BY <1>3, <1>14, <2>2 DEF AddKey, Promise!Give, Over
  <2> QED
    BY <2>2, <2>3 DEF Promise!Next
<1>4. CASE CloseInput
  <2>1. Promise!Close
    BY <1>4, <1>14 DEF CloseInput, Promise!Close, Over
  <2> QED
    BY <2>1 DEF Promise!Next
<1>5. CASE DrainInput \/ SelectInput
  <2>1. PICK k \in input : input' = input \ {k}
    BY <1>5 DEF DrainInput, SelectInput, TakeInput
  <2>2. UNCHANGED <<unfed, inputClosed, out, delivered, cancelled>>
    BY <1>5 DEF DrainInput, SelectInput, TakeInput
  <2>3. ~Over /\ ~Over' /\ Hung' = Hung
    BY <1>5, <1>14 DEF DrainInput, SelectInput, TakeInput, Over
  <2>4. Cardinality(input') < InputCap
    <3>1. IsFiniteSet(input) /\ Cardinality(input') = Cardinality(input) - 1
      BY <2>1, FetcherAssumption, FS_Subset, FS_RemoveElement DEF IInv, TypeOK
    <3> QED
      BY <3>1, FS_CardinalityType, Constants DEF IInv, Phases
  <2>5. CASE Cardinality(input) < InputCap
    BY <2>2, <2>3, <2>4, <2>5, PromiseStill
  <2>6. CASE ~(Cardinality(input) < InputCap)
    <3>1. (Cardinality(input') < InputCap) = TRUE /\ Over' = Over
      BY <2>3, <2>4 DEF Over
    <3>2. Promise!Accept
      BY <2>2, <2>3, <2>6, <3>1 DEF Promise!Accept
    <3> QED
      BY <3>2 DEF Promise!Next
  <2> QED
    BY <2>5, <2>6
<1>6. CASE RouteMissing
  <2>1. routing \in FetchKey /\ ~Over /\ ~Over'
    BY <1>6, <1>2 DEF RouteMissing, IInv, TypeOK, Phases, Over
  <2>2. spot[routing.key] = Spot("routing", "none", routing)
    BY <1>1, <2>1 DEF Tells, AtRoute
  <2>3. routing.key \in (Keys \ unfed) \ Promise!Answered
    BY <1>1, <2>1, <2>2, NotAnswered DEF IInv
  <2>4. Promise!Free
    BY <1>6, SameCardinality DEF RouteMissing, Promise!Free
  <2>5. out' = out \cup {Promise!Outcome(routing.key, FALSE)}
    BY <1>6 DEF RouteMissing, Promise!Outcome
  <2>6. UNCHANGED <<unfed, input, inputClosed, delivered, cancelled>> /\ Over' = Over
        /\ Hung' = Hung
    BY <1>6, <1>14 DEF RouteMissing, Over
  <2>7. Promise!Answer
    BY <2>1, <2>3, <2>4, <2>5, <2>6, Zenon DEF Promise!Answer
  <2> QED
    BY <2>7 DEF Promise!Next
<1>7. ASSUME NEW w \in Workers, EmitRecord(w) PROVE Promise!Next
  <2>1. PICK x \in Unanswered(w) :
          /\ job[w].node \in Holds[x.key]
          /\ out' = out \cup {[key |-> x.key, found |-> TRUE]}
    BY <1>7 DEF EmitRecord
  <2>2. x \in FetchKey
    BY DEF Unanswered, IInv, TypeOK, Batch, NoJob
  <2>3. spot[x.key] = Spot("worker", w, x)
    BY <1>1, <2>2 DEF Tells, AtWorkers
  <2>4. x.key \in (Keys \ unfed) \ Promise!Answered
    BY <1>1, <2>2, <2>3, NotAnswered DEF IInv
  <2>5. Promise!Free
    BY <1>7, SameCardinality DEF EmitRecord, Promise!Free
  <2>6. out' = out \cup {Promise!Outcome(x.key, TRUE)}
    BY <2>1 DEF Promise!Outcome
  <2>7. UNCHANGED <<unfed, input, inputClosed, delivered, cancelled>> /\ ~Over /\ Over' = Over
        /\ Hung' = Hung
    BY <1>7, <1>14 DEF EmitRecord, Over
  <2>8. x.key \in {k \in Keys : Holds[k] # {}}
    BY <2>1, <2>4
  <2>9. Promise!Answer
    BY <2>4, <2>5, <2>6, <2>7, <2>8, Zenon DEF Promise!Answer
  <2> QED
    BY <2>9 DEF Promise!Next
<1>8. CASE Receive
  <2>1. Over' = Over /\ Hung' = Hung /\ UNCHANGED <<unfed, input, inputClosed, cancelled>>
    BY <1>8, <1>14 DEF Receive, Over
  <2>2. Promise!Receive
    BY <1>8, <2>1 DEF Receive, Promise!Receive
  <2> QED
    BY <2>2 DEF Promise!Next
<1>9. CASE Stop
  <2>1. Over' = Over /\ Hung' = FALSE /\ UNCHANGED <<unfed, input, inputClosed, out, delivered>>
    BY <1>9 DEF Stop, Over, Hung
  <2>2. Promise!Stop
    BY <1>9, <2>1 DEF Stop, Promise!Stop
  <2> QED
    BY <2>2 DEF Promise!Next
<1>10. ASSUME NEW w \in Workers, WorkerExits(w) PROVE Promise!Next \/ UNCHANGED Promise!vars
  <2>1. UNCHANGED <<unfed, input, inputClosed, out, delivered, cancelled>> /\ disp = "over"
    BY <1>10 DEF WorkerExits
  <2>2. ~Over /\ Hung' = Hung
    BY <1>10, <1>14 DEF WorkerExits, Over, IInv, TypeOK
  <2>3. CASE ~Over'
    BY <2>1, <2>2, <2>3, PromiseStill
  <2>4. CASE Over'
    <3>1. Promise!MayEnd
      BY <2>1, OverIsAnswered DEF Promise!MayEnd
    <3>2. Over' = TRUE
      BY <2>4 DEF Over
    <3>3. Promise!End
      BY <2>1, <2>2, <3>1, <3>2 DEF Promise!End
    <3> QED
      BY <3>3 DEF Promise!Next
  <2> QED
    BY <2>3, <2>4
<1>11. ASSUME NEW w \in Workers,
              TakeJob(w) \/ OpenFails(w) \/ StreamBreaks(w) \/ StreamEnds(w) \/ SendRetry(w)
              \/ ReportDone(w) \/ WorkerStops(w)
       PROVE  UNCHANGED Promise!vars
  <2>1. UNCHANGED <<unfed, input, inputClosed, out, delivered, cancelled>>
    BY <1>11 DEF TakeJob, OpenFails, StreamBreaks, StreamEnds, SendRetry, ReportDone, WorkerStops
  <2>2. wpc[w] # "exited" /\ wpc'[w] # "exited"
    BY <1>11 DEF TakeJob, OpenFails, StreamBreaks, StreamEnds, SendRetry, ReportDone, WorkerStops,
                 IInv, TypeOK
  <2>3. ~Over /\ ~Over'
    BY <2>2 DEF Over
  <2>4. Hung' = Hung
    <3>1. CASE WorkerStops(w)
      BY <3>1 DEF WorkerStops, Hung
    <3>2. CASE TakeJob(w) \/ OpenFails(w) \/ StreamBreaks(w) \/ StreamEnds(w) \/ SendRetry(w)
               \/ ReportDone(w)
      BY <1>14, <2>1, <3>2 DEF TakeJob, OpenFails, StreamBreaks, StreamEnds, SendRetry, ReportDone,
                               IInv, TypeOK
    <3> QED
      BY <1>11, <3>1, <3>2
  <2> QED
    BY <2>1, <2>3, <2>4, PromiseStill
<1>15. ASSUME NEW w \in Workers, StreamStalls(w) PROVE Promise!Next \/ UNCHANGED Promise!vars
  <2>1. UNCHANGED <<unfed, input, inputClosed, out, delivered, cancelled>>
    BY <1>15 DEF StreamStalls
  <2>2. wpc[w] # "exited" /\ wpc'[w] = "stalled"
    BY <1>15 DEF StreamStalls, IInv, TypeOK
  <2>3. Over = FALSE /\ Over' = FALSE
    BY <2>2 DEF Over
  <2>4. CASE Hung \/ cancelled
    <3>1. Hung' = Hung
      BY <2>1, <2>2, <2>4 DEF Hung
    <3> QED
      BY <2>1, <2>3, <3>1, PromiseStill
  <2>5. CASE ~Hung /\ ~cancelled
    <3>1. Hung' = TRUE
      BY <2>1, <2>2, <2>5 DEF Hung
    <3>2. Promise!Hang
      BY <2>1, <2>3, <2>5, <3>1 DEF Promise!Hang
    <3> QED
      BY <3>2 DEF Promise!Next
  <2> QED
    BY <2>4, <2>5
<1>12. CASE InputDrained \/ DrainRetry \/ RetryDrained \/ RouteRefresh \/ RouteQueue \/ Dispatch
            \/ Dispatched \/ SelectInputClosed \/ SelectRetry \/ SelectDone \/ DispatcherStops
  <2>1. UNCHANGED <<unfed, input, inputClosed, out, delivered, cancelled, wpc>>
    BY <1>12 DEF InputDrained, DrainRetry, TakeRetry, RetryDrained, RouteRefresh, RouteQueue, Dispatch,
                 Dispatched, SelectInputClosed, SelectRetry, SelectDone, DispatcherStops
  <2>2. disp # "over"
    BY <1>12 DEF InputDrained, DrainRetry, TakeRetry, RetryDrained, RouteRefresh, RouteQueue, Dispatch,
                 Dispatched, SelectInputClosed, SelectRetry, SelectDone, DispatcherStops, IInv, Phases
  <2>3. \E w \in Workers : wpc[w] # "exited"
    BY <1>2, <2>2 DEF IInv, Phases
  <2>4. ~Over /\ ~Over' /\ Hung' = Hung
    BY <1>14, <2>1, <2>3 DEF Over
  <2> QED
    BY <2>1, <2>4, PromiseStill
<1>13. CASE ViewChanges \/ RankChanges \/ Finished \/ UNCHANGED vars
  <2>1. UNCHANGED <<unfed, input, inputClosed, out, delivered, cancelled, wpc, disp>>
    BY <1>13 DEF ViewChanges, RankChanges, Finished, vars
  <2>2. (Over' <=> Over) /\ Hung' = Hung
    BY <1>14, <2>1 DEF Over
  <2> QED
    BY <2>1, <2>2, PromiseStill
<1> QED
    BY <1>3, <1>4, <1>5, <1>6, <1>7, <1>8, <1>9, <1>10, <1>11, <1>12, <1>13, <1>15
       DEF Next, Dispatcher, Worker, Stream

\* fetch.rs: every step of the fetcher is one FetchPromise allows.  An outcome is
\* for a key that was handed over and has none yet, found only if an owner holds
\* it; and the results end only after a stop, or when the input is closed and
\* everything handed over is answered.
THEOREM FetcherImplementsPromise == Spec => Promise!Safe
    BY InitIInv, StepIInv, PromiseInit, PromiseStep, PTL DEF Spec, Promise!Safe

-----------------------------------------------------------------------------
(***************************************************************************)
(* Contexts.  A latch is explained by what was there when it was set: the  *)
(* invariant says of every node made which of a deadline, a cancel under   *)
(* way and a cancelled token it has on its path, and that a node and its   *)
(* parent that share a deadline agree on the event.                        *)
(***************************************************************************)

\* A set of numbers has a least one.
LEMMA Least ==
    ASSUME NEW T, T \subseteq Nat, T # {}
    PROVE  \E m \in T : \A k \in T : m <= k
<1>1. PICK m \in T : \A k \in T : ~ (<<k, m>> \in OpToRel(<, Nat))
    BY NatLessThanWellFounded, WFMin, Zenon
<1>2. \A k \in T : ~ (k < m)
    BY <1>1 DEF OpToRel
<1> QED
    BY <1>2

\* A bounded set of numbers has a greatest one.
LEMMA Greatest ==
    ASSUME NEW n \in Nat, NEW T, T \subseteq 0..n, T # {}
    PROVE  \E m \in T : \A k \in T : k <= m
<1> DEFINE U == {k \in 0..n : n - k \in T}
<1>1. \A k \in T : n - k \in U
    OBVIOUS
<1>2. U \subseteq Nat /\ U # {}
  <2>1. PICK k : k \in T
    OBVIOUS
  <2>2. n - k \in U
    BY <1>1, <2>1
  <2> QED
    BY <2>2
<1>3. PICK u \in U : \A k \in U : u <= k
    BY <1>2, Least
<1>4. n - u \in T /\ u \in 0..n
    BY <1>3
<1>5. \A k \in T : u <= n - k
    BY <1>1, <1>3
<1> HIDE DEF U
<1>6. \A k \in T : k <= n - u
    BY <1>4, <1>5
<1> QED
    BY <1>4, <1>6

\* Numbers that begin with b and of which each has its successor are all of them.
LEMMA Upward ==
    ASSUME NEW b \in Nat, NEW n \in Nat, NEW T, b \in T,
           \A k \in b..(n-1) : k \in T => k + 1 \in T
    PROVE  \A k \in b..n : k \in T
<1> SUFFICES ASSUME (b..n) \ T # {} PROVE FALSE
    OBVIOUS
<1>1. PICK m \in (b..n) \ T : \A k \in (b..n) \ T : m <= k
  <2>1. (b..n) \ T \subseteq Nat
    OBVIOUS
  <2> QED
    BY <2>1, Least
<1>2. m # b /\ m - 1 \in b..(n-1)
    OBVIOUS
<1>3. m - 1 \in T
    BY <1>1, <1>2
<1> QED
    BY <1>2, <1>3

-----------------------------------------------------------------------------
\* The nodes on the way from the root to n.
On(n) == {Path[n][i] : i \in DOMAIN Path[n]}

\* The tree: places on a path are distinct, and what is above a node is above
\* those under it.
LEMMA Tree ==
    ASSUME NEW n \in DOMAIN Path
    PROVE  /\ Len(Path[n]) \in Nat \ {0} /\ DOMAIN Path[n] = 1..Len(Path[n])
           /\ Path[n][Len(Path[n])] = n
           /\ \A i \in 1..Len(Path[n]) :
                /\ Path[n][i] \in DOMAIN Path
                /\ Len(Path[Path[n][i]]) = i
                /\ \A j \in 1..i : Path[Path[n][i]][j] = Path[n][j]
           /\ \A i, j \in 1..Len(Path[n]) : Path[n][i] = Path[n][j] => i = j
<1>1. Path[n] \in Seq(DOMAIN Path) /\ Len(Path[n]) > 0 /\ Path[n][Len(Path[n])] = n
    BY PathAssumption
<1>2. Len(Path[n]) \in Nat \ {0} /\ DOMAIN Path[n] = 1..Len(Path[n])
    BY <1>1
<1>3. ASSUME NEW i \in 1..Len(Path[n])
      PROVE  /\ Path[n][i] \in DOMAIN Path
             /\ Len(Path[Path[n][i]]) = i
             /\ \A j \in 1..i : Path[Path[n][i]][j] = Path[n][j]
  <2>1. Path[Path[n][i]] = SubSeq(Path[n], 1, i)
    BY <1>2, PathAssumption
  <2>2. Len(SubSeq(Path[n], 1, i)) = i /\ \A j \in 1..i : SubSeq(Path[n], 1, i)[j] = Path[n][j]
    BY <1>1
  <2> QED
    BY <1>1, <2>1, <2>2
<1>4. \A i, j \in 1..Len(Path[n]) : Path[n][i] = Path[n][j] => i = j
    BY <1>3
<1> QED
    BY <1>1, <1>2, <1>3, <1>4

\* The root is on every path, and the path of a parent is a path but its end.
LEMMA Roots ==
    /\ Contexts!Root \in DOMAIN Path
    /\ \A n \in DOMAIN Path :
        /\ Path[n][1] = Contexts!Root
        /\ n # Contexts!Root =>
            /\ Len(Path[n]) > 1
            /\ Contexts!Parent(n) \in DOMAIN Path /\ Contexts!Parent(n) # n
            /\ Len(Path[Contexts!Parent(n)]) = Len(Path[n]) - 1
            /\ \A j \in 1..(Len(Path[n]) - 1) : Path[Contexts!Parent(n)][j] = Path[n][j]
            /\ On(n) = On(Contexts!Parent(n)) \cup {n}
<1>1. PICK r \in DOMAIN Path : \A n \in DOMAIN Path : Path[n][1] = r
    BY PathAssumption
<1>2. Len(Path[r]) = 1
  <2>1. Path[r][1] = r /\ 1 \in 1..Len(Path[r])
    BY <1>1, Tree
  <2>2. Len(Path[Path[r][1]]) = 1
    BY <2>1, Tree
  <2> QED
    BY <2>1, <2>2
<1>3. \A n \in DOMAIN Path : Len(Path[n]) = 1 => n = r
    BY <1>1, Tree
<1>4. Contexts!Root = r
    BY <1>1, <1>2, <1>3 DEF Contexts!Root, Contexts!Nodes
<1>5. ASSUME NEW n \in DOMAIN Path, n # r
      PROVE  /\ Len(Path[n]) > 1
             /\ Contexts!Parent(n) \in DOMAIN Path /\ Contexts!Parent(n) # n
             /\ Len(Path[Contexts!Parent(n)]) = Len(Path[n]) - 1
             /\ \A j \in 1..(Len(Path[n]) - 1) : Path[Contexts!Parent(n)][j] = Path[n][j]
             /\ On(n) = On(Contexts!Parent(n)) \cup {n}
  <2> DEFINE L == Len(Path[n])  p == Path[n][L - 1]
  <2>0. Len(Path[n]) \in Nat \ {0} /\ Len(Path[n]) # 1
    BY <1>3, <1>5, Tree
  <2>1. L \in Nat /\ L > 1
    BY <2>0
  <2>2. L - 1 \in 1..L
    BY <2>1
  <2>3. p \in DOMAIN Path /\ Len(Path[p]) = L - 1 /\ \A j \in 1..(L-1) : Path[p][j] = Path[n][j]
    BY <2>2, Tree
  <2>4. p # n
    BY <2>1, <2>3
  <2>5. On(n) = On(p) \cup {n}
    <3>1. DOMAIN Path[n] = 1..L /\ DOMAIN Path[p] = 1..(L-1) /\ Path[n][L] = n
      BY <2>3, Tree
    <3>2. 1..L = (1..(L-1)) \cup {L}
      BY <2>1
    <3> HIDE DEF L, p
    <3> QED
      BY <2>3, <3>1, <3>2 DEF On
  <2> QED
    BY <2>1, <2>3, <2>4, <2>5 DEF Contexts!Parent
<1> QED
    BY <1>1, <1>4, <1>5

\* Who is on the path of one on a path.
LEMMA OnPath ==
    ASSUME NEW n \in DOMAIN Path, NEW m \in On(n)
    PROVE  /\ m \in DOMAIN Path /\ On(m) \subseteq On(n) /\ n \in On(n) /\ m \in On(m)
           /\ \E i \in 1..Len(Path[n]) : m = Path[n][i] /\ Len(Path[m]) = i
<1>1. PICK i \in 1..Len(Path[n]) : m = Path[n][i]
    BY Tree DEF On
<1>2. m \in DOMAIN Path /\ Len(Path[m]) = i /\ \A j \in 1..i : Path[m][j] = Path[n][j]
    BY <1>1, Tree
<1>3. DOMAIN Path[m] = 1..i /\ DOMAIN Path[n] = 1..Len(Path[n]) /\ Len(Path[n]) \in Nat \ {0}
      /\ Path[n][Len(Path[n])] = n /\ Path[m][i] = m
    BY <1>2, Tree
<1>4. \A j \in 1..i : j \in 1..Len(Path[n])
    BY <1>3
<1>5. On(m) \subseteq On(n)
    BY <1>2, <1>3, <1>4 DEF On
<1>6. n \in On(n) /\ m \in On(m)
    BY <1>2, <1>3 DEF On
<1> QED
    BY <1>1, <1>2, <1>5, <1>6

-----------------------------------------------------------------------------
\* The nearest latched node is the last one on the path.
LEMMA NearestIsLast ==
    ASSUME NEW n \in DOMAIN Path
    PROVE  /\ Contexts!Nearest(n) \in 0..Len(Path[n])
           /\ Contexts!Nearest(n) > 0 => first[Path[n][Contexts!Nearest(n)]] # Contexts!NoEvent
           /\ \A i \in 1..Len(Path[n]) : i > Contexts!Nearest(n) => first[Path[n][i]] = Contexts!NoEvent
<1> DEFINE latched == {i \in DOMAIN Path[n] : first[Path[n][i]] # Contexts!NoEvent}
<1>1. Len(Path[n]) \in Nat /\ DOMAIN Path[n] = 1..Len(Path[n])
    BY Tree
<1>2. latched \subseteq 0..Len(Path[n])
    BY <1>1
<1>3. CASE latched = {}
  <2>1. Contexts!Nearest(n) = 0
    BY <1>3 DEF Contexts!Nearest
  <2> QED
    BY <1>1, <1>3, <2>1
<1>4. CASE latched # {}
  <2>1. \E i \in latched : \A j \in latched : j <= i
    BY <1>1, <1>2, <1>4, Greatest
  <2>2. Contexts!Nearest(n) = CHOOSE i \in latched : \A j \in latched : j <= i
    BY <1>4 DEF Contexts!Nearest
  <2>3. Contexts!Nearest(n) \in latched /\ \A j \in latched : j <= Contexts!Nearest(n)
    BY <2>1, <2>2
  <2> QED
    BY <1>1, <1>2, <2>3
<1> QED
    BY <1>3, <1>4

\* The events from the root down, up to place k.
Downward(f, n, t, k) ==
    f = [i \in 0..k |-> IF i <= Contexts!Nearest(n)
                        THEN (IF i = 0 THEN Contexts!NoEvent ELSE first[Path[n][i]])
                        ELSE Contexts!Resolve(Path[n][i], f[i - 1], t)]

\* The events down a path are what the recursion says: it has a solution for
\* every length.
LEMMA EventsThere ==
    ASSUME NEW n \in DOMAIN Path, NEW t
    PROVE  Downward(Contexts!Events(n, t), n, t, Len(Path[n]))
<1> DEFINE L == Len(Path[n])  T == {k \in Nat : \E f : Downward(f, n, t, k)}
<1>0. L \in Nat /\ Contexts!Nearest(n) \in Nat
    BY Tree, NearestIsLast
<1>1. 0 \in T
  <2> DEFINE f == [i \in 0..0 |-> Contexts!NoEvent]
  <2>1. \A i \in 0..0 : i = 0
    OBVIOUS
  <2>2. Downward(f, n, t, 0)
    BY <1>0, <2>1 DEF Downward
  <2> QED
    BY <2>2
<1>2. ASSUME NEW k \in 0..(L-1), k \in T PROVE k + 1 \in T
  <2>1. PICK f : Downward(f, n, t, k)
    BY <1>2
  <2> DEFINE g == [i \in 0..(k+1) |->
        IF i <= k THEN f[i]
        ELSE IF i <= Contexts!Nearest(n)
             THEN (IF i = 0 THEN Contexts!NoEvent ELSE first[Path[n][i]])
             ELSE Contexts!Resolve(Path[n][i], f[i - 1], t)]
  <2>2. ASSUME NEW i \in 0..(k+1), i <= k
        PROVE  g[i] = IF i <= Contexts!Nearest(n)
                      THEN (IF i = 0 THEN Contexts!NoEvent ELSE first[Path[n][i]])
                      ELSE Contexts!Resolve(Path[n][i], g[i - 1], t)
    <3>1. i \in 0..k /\ g[i] = f[i]
      BY <2>2
    <3>2. i > Contexts!Nearest(n) => i - 1 \in 0..k /\ i - 1 \in 0..(k+1) /\ i - 1 <= k
      BY <1>0, <3>1
    <3>3. i > Contexts!Nearest(n) => g[i - 1] = f[i - 1]
      BY <3>2
    <3>4. f[i] = IF i <= Contexts!Nearest(n)
                 THEN (IF i = 0 THEN Contexts!NoEvent ELSE first[Path[n][i]])
                 ELSE Contexts!Resolve(Path[n][i], f[i - 1], t)
      BY <2>1, <3>1 DEF Downward
    <3> HIDE DEF g
    <3> QED
      BY <1>0, <3>1, <3>3, <3>4
  <2>3. ASSUME NEW i \in 0..(k+1), ~(i <= k)
        PROVE  g[i] = IF i <= Contexts!Nearest(n)
                      THEN (IF i = 0 THEN Contexts!NoEvent ELSE first[Path[n][i]])
                      ELSE Contexts!Resolve(Path[n][i], g[i - 1], t)
    <3>1. i - 1 \in 0..(k+1) /\ i - 1 <= k
      BY <2>3
    <3>2. g[i - 1] = f[i - 1]
      BY <3>1
    <3>3. g[i] = IF i <= Contexts!Nearest(n)
                 THEN (IF i = 0 THEN Contexts!NoEvent ELSE first[Path[n][i]])
                 ELSE Contexts!Resolve(Path[n][i], f[i - 1], t)
      BY <2>3
    <3> HIDE DEF g
    <3> QED
      BY <3>2, <3>3
  <2>4. Downward(g, n, t, k + 1)
    <3>1. g = [i \in 0..(k+1) |-> g[i]]
      OBVIOUS
    <3> HIDE DEF g
    <3> QED
      BY <2>2, <2>3, <3>1 DEF Downward
  <2> QED
    BY <2>4
<1>3. L \in T
  <2> HIDE DEF T, L
  <2>1. \A k \in 0..L : k \in T
    BY <1>0, <1>1, <1>2, Upward
  <2> QED
    BY <1>0, <2>1
<1>4. \E f : Downward(f, n, t, L)
    BY <1>3
<1>5. Contexts!Events(n, t) = CHOOSE f : Downward(f, n, t, L)
    BY DEF Contexts!Events, Downward
<1> QED
    BY <1>4, <1>5

\* What a latch can hold, up to now.
Latches == {Contexts!NoEvent} \cup [err : {"canceled", "deadline"}, at : 0..clock]

CtxTypes ==
    /\ clock \in 0..MaxTime
    /\ made \subseteq DOMAIN Path /\ Contexts!Root \in made
    /\ deadline \in [DOMAIN Path -> 0..Contexts!Never]
    /\ canceledAt \in [DOMAIN Path -> (0..clock) \cup {Contexts!Never}]
    /\ token \subseteq made /\ canceling \subseteq made
    /\ first \in [DOMAIN Path -> Latches]
    /\ waiter \in [node : made, pc : {"none", "waiting", "done"}]
    /\ look = Contexts!NoLook \/ look \in [node : made, now : 0..clock]
    /\ cancels \in 0..MaxCancels
    /\ stale \in BOOLEAN

\* Something that ends n as of t: a latch, a cancel or a deadline.
EndsAt(n, t) == first[n] # Contexts!NoEvent \/ canceledAt[n] # Contexts!Never \/ deadline[n] <= t

-----------------------------------------------------------------------------
\* What a node makes of the event it inherits: its deadline, when due, is not
\* later than what it says.
LEMMA ResolveSays ==
    ASSUME CtxTypes, NEW n \in DOMAIN Path, NEW e \in Latches, NEW t \in 0..clock
    PROVE  LET v == Contexts!Resolve(n, e, t) IN
           /\ v \in Latches
           /\ v # Contexts!NoEvent
                <=> e # Contexts!NoEvent \/ canceledAt[n] # Contexts!Never \/ deadline[n] <= t
           /\ deadline[n] <= t =>
                v.at < deadline[n] \/ v = Contexts!Event("deadline", deadline[n])
           /\ canceledAt[n] = Contexts!Never =>
                v = IF deadline[n] <= t
                    THEN Contexts!Earliest(e, Contexts!Event("deadline", deadline[n])) ELSE e
<1> DEFINE v == Contexts!Resolve(n, e, t)
           Ev == [err : {"canceled", "deadline"}, at : 0..clock]
           C == Contexts!Event("canceled", canceledAt[n])
           D == Contexts!Event("deadline", deadline[n])
           c == IF canceledAt[n] = Contexts!Never THEN e ELSE Contexts!Earliest(e, C)
<1>1. /\ MaxTime \in Nat /\ clock \in 0..MaxTime /\ Contexts!Never = MaxTime + 1
      /\ canceledAt[n] \in (0..clock) \cup {Contexts!Never} /\ deadline[n] \in 0..Contexts!Never
    BY PathAssumption DEF CtxTypes, Contexts!Never
<1>2. Contexts!NoEvent \notin Ev /\ Contexts!NoEvent.at = MaxTime + 1 /\ Contexts!NoEvent.err = "none"
    BY <1>1 DEF Contexts!NoEvent
<1>3. /\ canceledAt[n] # Contexts!Never => C \in Ev
      /\ deadline[n] <= t => D \in Ev
    BY <1>1 DEF Contexts!Event
<1>4. D.at = deadline[n] /\ D.err = "deadline"
    BY DEF Contexts!Event
<1>5. ASSUME NEW a \in Latches, NEW b \in Ev
      PROVE  /\ Contexts!Earliest(a, b) \in Ev
             /\ b.err = "deadline" => Contexts!Earliest(a, b) = b \/ Contexts!Earliest(a, b).at < b.at
  <2>1. a = Contexts!NoEvent \/ a \in Ev
    BY DEF Latches
  <2>2. b.at \in 0..clock /\ (a \in Ev => a.at \in 0..clock)
    OBVIOUS
  <2>3. CASE a = Contexts!NoEvent
    <3>1. b.at < a.at
      BY <1>1, <1>2, <2>2, <2>3
    <3> QED
      BY <3>1 DEF Contexts!Earliest
  <2>4. CASE a \in Ev
    BY <2>2, <2>4 DEF Contexts!Earliest
  <2> QED
    BY <2>1, <2>3, <2>4
<1>6. v = IF deadline[n] <= t THEN Contexts!Earliest(c, D) ELSE c
    BY DEF Contexts!Resolve
<1>7. c \in Latches /\ (c # Contexts!NoEvent <=> e # Contexts!NoEvent \/ canceledAt[n] # Contexts!Never)
    BY <1>2, <1>3, <1>5 DEF Latches
<1>8. deadline[n] <= t => Contexts!Earliest(c, D) \in Ev
                          /\ (Contexts!Earliest(c, D) = D \/ Contexts!Earliest(c, D).at < D.at)
    BY <1>3, <1>4, <1>5, <1>7
<1>9. canceledAt[n] = Contexts!Never => c = e
    OBVIOUS
<1>10. Ev \subseteq Latches
    BY DEF Latches
<1> HIDE DEF v, Ev, D, c
<1>11. v \in Latches
    BY <1>6, <1>7, <1>8, <1>10
<1>12. v # Contexts!NoEvent
                <=> e # Contexts!NoEvent \/ canceledAt[n] # Contexts!Never \/ deadline[n] <= t
    BY <1>2, <1>6, <1>7, <1>8
<1>13. deadline[n] <= t => v.at < deadline[n] \/ v = D
    BY <1>4, <1>6, <1>8
<1> QED
    BY <1>6, <1>9, <1>11, <1>12, <1>13 DEF v, D

\* What the resolution of a path finds, place by place.
LEMMA EventsSay ==
    ASSUME CtxTypes, NEW n \in DOMAIN Path, NEW t \in 0..clock
    PROVE  LET down == Contexts!Events(n, t)
               L == Len(Path[n])
               N == Contexts!Nearest(n)
           IN /\ down[0] = Contexts!NoEvent
              /\ \A i \in 0..L : down[i] \in Latches
              /\ \A i \in 1..L : i <= N => down[i] = first[Path[n][i]]
              /\ \A i \in 1..L : i > N => down[i] = Contexts!Resolve(Path[n][i], down[i - 1], t)
              /\ \A i \in 1..L : down[i] # Contexts!NoEvent => \E j \in 1..i : EndsAt(Path[n][j], t)
              /\ \A i \in 1..L, j \in 1..L :
                    N <= j /\ j <= i /\ down[j] # Contexts!NoEvent => down[i] # Contexts!NoEvent
<1> DEFINE down == Contexts!Events(n, t)
           L == Len(Path[n])
           N == Contexts!Nearest(n)
<1>1. L \in Nat \ {0} /\ N \in 0..L /\ N \in Nat /\ \A i \in 1..L : Path[n][i] \in DOMAIN Path
    BY Tree, NearestIsLast
<1>2. Downward(down, n, t, L)
    BY EventsThere
<1>3. \A i \in 0..L : down[i] = IF i <= N
                                THEN (IF i = 0 THEN Contexts!NoEvent ELSE first[Path[n][i]])
                                ELSE Contexts!Resolve(Path[n][i], down[i - 1], t)
    BY <1>2, Zenon DEF Downward
<1> HIDE DEF down, L, N
<1>4. down[0] = Contexts!NoEvent
    BY <1>1, <1>3
<1>5. \A i \in 1..L : i <= N => down[i] = first[Path[n][i]]
    BY <1>1, <1>3
<1>6. \A i \in 1..L : i > N => down[i] = Contexts!Resolve(Path[n][i], down[i - 1], t)
    BY <1>1, <1>3
<1>7. \A i \in 0..L : down[i] \in Latches
  <2> DEFINE T == {k \in 0..L : down[k] \in Latches}
  <2>1. \A i \in 0..L : i <= N => i \in T
    <3>1. \A i \in 1..L : first[Path[n][i]] \in Latches
      BY <1>1 DEF CtxTypes
    <3>2. Contexts!NoEvent \in Latches
      BY DEF Latches
    <3> QED
      BY <1>1, <1>4, <1>5, <3>1, <3>2
  <2>2. ASSUME NEW k \in N..(L-1), k \in T PROVE k + 1 \in T
    <3>1. k + 1 \in 1..L /\ k + 1 > N /\ (k + 1) - 1 = k /\ k + 1 \in 0..L /\ down[k] \in Latches
      BY <1>1, <2>2
    <3>2. down[k + 1] = Contexts!Resolve(Path[n][k + 1], down[k], t)
      BY <1>6, <3>1
    <3>3. down[k + 1] \in Latches
      BY <1>1, <3>1, <3>2, ResolveSays
    <3> QED
      BY <3>1, <3>3
  <2>3. N \in T
    BY <1>1, <2>1
  <2> HIDE DEF T
  <2>4. \A k \in N..L : k \in T
    BY <1>1, <2>2, <2>3, Upward
  <2>5. \A k \in 0..L : k \in T
    BY <1>1, <2>1, <2>4
  <2> QED
    BY <2>5 DEF T
<1>8. \A i \in 1..L : i > N =>
        (down[i] # Contexts!NoEvent
            <=> down[i - 1] # Contexts!NoEvent \/ canceledAt[Path[n][i]] # Contexts!Never
                \/ deadline[Path[n][i]] <= t)
  <2> SUFFICES ASSUME NEW i \in 1..L, i > N
               PROVE  down[i] # Contexts!NoEvent
                        <=> down[i - 1] # Contexts!NoEvent \/ canceledAt[Path[n][i]] # Contexts!Never
                            \/ deadline[Path[n][i]] <= t
    OBVIOUS
  <2>1. i - 1 \in 0..L
    BY <1>1
  <2>2. down[i - 1] \in Latches /\ Path[n][i] \in DOMAIN Path
    BY <1>1, <1>7, <2>1
  <2> QED
    BY <1>6, <2>2, ResolveSays
<1>9. \A i \in 1..L : down[i] # Contexts!NoEvent => \E j \in 1..i : EndsAt(Path[n][j], t)
  <2> DEFINE T == {k \in 0..L : down[k] # Contexts!NoEvent => \E j \in 1..k : EndsAt(Path[n][j], t)}
  <2>1. \A i \in 0..L : i <= N => i \in T
    BY <1>1, <1>4, <1>5 DEF EndsAt
  <2>2. ASSUME NEW k \in N..(L-1), k \in T PROVE k + 1 \in T
    <3>1. k + 1 \in 1..L /\ k + 1 > N /\ (k + 1) - 1 = k /\ k + 1 \in 0..L /\ k \in Nat
      BY <1>1, <2>2
    <3>2. down[k + 1] # Contexts!NoEvent =>
            down[k] # Contexts!NoEvent \/ canceledAt[Path[n][k + 1]] # Contexts!Never
                \/ deadline[Path[n][k + 1]] <= t
      BY <1>8, <3>1
    <3>3. \A j \in 1..k : j \in 1..(k + 1)
      BY <3>1
    <3>4. k + 1 \in 1..(k + 1)
      BY <3>1
    <3>5. down[k] # Contexts!NoEvent => \E j \in 1..k : EndsAt(Path[n][j], t)
      BY <2>2
    <3>6. down[k + 1] # Contexts!NoEvent => \E j \in 1..(k + 1) : EndsAt(Path[n][j], t)
      BY <3>2, <3>3, <3>4, <3>5 DEF EndsAt
    <3> QED
      BY <3>1, <3>6
  <2>3. N \in T
    BY <1>1, <2>1
  <2> HIDE DEF T
  <2>4. \A k \in N..L : k \in T
    BY <1>1, <2>2, <2>3, Upward
  <2>5. \A k \in 0..L : k \in T
    BY <1>1, <2>1, <2>4
  <2> QED
    BY <1>1, <2>5 DEF T
<1>10. ASSUME NEW i \in 1..L, NEW j \in 1..L, N <= j, j <= i, down[j] # Contexts!NoEvent
       PROVE  down[i] # Contexts!NoEvent
  <2> DEFINE T == {k \in 0..L : down[k] # Contexts!NoEvent}
  <2>1. j \in T /\ j \in Nat
    BY <1>1, <1>10
  <2>2. ASSUME NEW k \in j..(L-1), k \in T PROVE k + 1 \in T
    <3>1. k + 1 \in 1..L /\ k + 1 > N /\ (k + 1) - 1 = k /\ k + 1 \in 0..L
      BY <1>1, <1>10, <2>2
    <3>2. down[k + 1] # Contexts!NoEvent
      BY <1>8, <2>2, <3>1
    <3> QED
      BY <3>1, <3>2
  <2> HIDE DEF T
  <2>3. \A k \in j..L : k \in T
    BY <1>1, <2>1, <2>2, Upward
  <2>4. i \in T
    BY <1>1, <1>10, <2>3
  <2> QED
    BY <2>4 DEF T
<1> QED
    BY <1>4, <1>5, <1>6, <1>7, <1>9, <1>10 DEF down, L, N

\* Looking for the first event of n latches nodes of its path that something
\* above them or of their own has ended, and each after the one above it.
LEMMA FirstEventSays ==
    ASSUME CtxTypes, NEW n \in DOMAIN Path, NEW t \in 0..clock
    PROVE  LET f == Contexts!FirstEvent(n, t) IN
           /\ f \in [DOMAIN Path -> Latches]
           /\ \A m \in DOMAIN Path : first[m] # Contexts!NoEvent => f[m] = first[m]
           /\ n \in token \/ deadline[n] <= t =>
                ((\E x \in On(n) : EndsAt(x, t)) => f[n] # Contexts!NoEvent)
           /\ \A m \in DOMAIN Path : f[m] # first[m] =>
                /\ m \in On(n) /\ \E x \in On(m) : EndsAt(x, t)
                /\ deadline[m] <= t =>
                    f[m].at < deadline[m] \/ f[m] = Contexts!Event("deadline", deadline[m])
                /\ m # Contexts!Root =>
                    /\ deadline[Contexts!Parent(m)] <= t => f[Contexts!Parent(m)] # Contexts!NoEvent
                    /\ canceledAt[m] = Contexts!Never =>
                        f[m] = IF deadline[m] <= t
                               THEN Contexts!Earliest(f[Contexts!Parent(m)],
                                                      Contexts!Event("deadline", deadline[m]))
                               ELSE f[Contexts!Parent(m)]
<1> DEFINE f == Contexts!FirstEvent(n, t)
           P == Path[n]
           down == Contexts!Events(n, t)
           L == Len(Path[n])
           N == Contexts!Nearest(n)
<1>1. /\ L \in Nat \ {0} /\ N \in 0..L /\ DOMAIN P = 1..L /\ P[L] = n
      /\ \A i \in 1..L : P[i] \in DOMAIN Path
      /\ \A i, j \in 1..L : P[i] = P[j] => i = j
    BY Tree, NearestIsLast
<1>2. /\ N > 0 => first[P[N]] # Contexts!NoEvent
      /\ \A i \in 1..L : i > N => first[P[i]] = Contexts!NoEvent
    BY NearestIsLast
<1>3. /\ \A i \in 0..L : down[i] \in Latches
      /\ \A i \in 1..L : i <= N => down[i] = first[P[i]]
      /\ \A i \in 1..L : i > N => down[i] = Contexts!Resolve(P[i], down[i - 1], t)
      /\ \A i \in 1..L : down[i] # Contexts!NoEvent => \E j \in 1..i : EndsAt(P[j], t)
      /\ \A i \in 1..L, j \in 1..L :
            N <= j /\ j <= i /\ down[j] # Contexts!NoEvent => down[i] # Contexts!NoEvent
    BY EventsSay
<1>4. CASE first[n] # Contexts!NoEvent \/ (t < deadline[n] /\ n \notin token)
  <2>1. f = first
    BY <1>4 DEF Contexts!FirstEvent
  <2>2. first \in [DOMAIN Path -> Latches] /\ deadline[n] \in Nat /\ t \in Nat
    BY PathAssumption DEF CtxTypes, Contexts!Never
  <2>3. n \in token \/ deadline[n] <= t => first[n] # Contexts!NoEvent
    BY <1>4, <2>2
  <2> HIDE DEF f
  <2> QED
    BY <2>1, <2>2, <2>3 DEF f
<1>5. CASE ~(first[n] # Contexts!NoEvent \/ (t < deadline[n] /\ n \notin token))
  <2> DEFINE fresh == {i \in DOMAIN P : N < i}
  <2>1. f = [m \in DOMAIN Path |-> IF \E i \in fresh : P[i] = m
                                   THEN down[CHOOSE i \in fresh : P[i] = m]
                                   ELSE first[m]]
    BY <1>5 DEF Contexts!FirstEvent, Contexts!Nodes
  <2>2. fresh = {i \in 1..L : N < i}
    BY <1>1
  <2> HIDE DEF f, down, L, N, P, fresh
  <2>3. ASSUME NEW i \in fresh PROVE f[P[i]] = down[i] /\ i \in 1..L /\ i > N
    <3>1. i \in 1..L /\ i > N /\ P[i] \in DOMAIN Path
      BY <1>1, <2>2
    <3>2. \A j \in fresh : P[j] = P[i] => j = i
      BY <1>1, <2>2, <3>1
    <3>3. (CHOOSE j \in fresh : P[j] = P[i]) = i
      BY <3>2
    <3> QED
      BY <2>1, <3>1, <3>3
  <2>4. ASSUME NEW m \in DOMAIN Path, ~ \E i \in fresh : P[i] = m
        PROVE  f[m] = first[m]
    BY <2>1, <2>4
  <2>5. ASSUME NEW i \in 1..L PROVE f[P[i]] = down[i]
    <3>1. CASE i > N
      BY <2>2, <2>3, <3>1
    <3>2. CASE ~(i > N)
      <4>1. i <= N
        BY <1>1, <3>2
      <4>2. ~ \E j \in fresh : P[j] = P[i]
        BY <1>1, <2>2, <3>2
      <4> QED
        BY <1>1, <1>3, <2>4, <4>1, <4>2
    <3> QED
      BY <3>1, <3>2
  <2>6. f \in [DOMAIN Path -> Latches]
    <3>1. \A m \in DOMAIN Path : f[m] \in Latches
      <4> SUFFICES ASSUME NEW m \in DOMAIN Path PROVE f[m] \in Latches
        OBVIOUS
      <4>1. CASE \E i \in fresh : P[i] = m
        <5>1. PICK i \in fresh : P[i] = m
          BY <4>1
        <5>2. f[m] = down[i] /\ i \in 1..L
          BY <2>3, <5>1
        <5>3. i \in 0..L
          BY <1>1, <5>2
        <5> QED
          BY <1>3, <5>2, <5>3
      <4>2. CASE ~ \E i \in fresh : P[i] = m
        BY <2>4, <4>2 DEF CtxTypes
      <4> QED
        BY <4>1, <4>2
    <3> QED
      BY <2>1, <3>1
  <2>7. \A m \in DOMAIN Path : first[m] # Contexts!NoEvent => f[m] = first[m]
    BY <1>2, <2>2, <2>4
  <2>8. ASSUME NEW x \in On(n), EndsAt(x, t) PROVE f[n] # Contexts!NoEvent
    <3>1. PICK j \in 1..L : x = P[j]
      BY <1>1 DEF On, P
    <3>2. L \in 1..L /\ f[n] = down[L]
      BY <1>1, <2>5
    <3>3. CASE j <= N
      <4>1. N \in 1..L /\ N > 0 /\ N <= L /\ N <= N
        BY <1>1, <3>3
      <4>2. down[N] # Contexts!NoEvent
        BY <1>2, <1>3, <4>1
      <4> QED
        BY <1>3, <3>2, <4>1, <4>2
    <3>4. CASE ~(j <= N)
      <4>1. j > N /\ N <= j /\ j <= L /\ j - 1 \in 0..L
        BY <1>1, <3>4
      <4>2. canceledAt[P[j]] # Contexts!Never \/ deadline[P[j]] <= t
        BY <1>2, <2>8, <3>1, <4>1 DEF EndsAt
      <4>3. down[j] # Contexts!NoEvent
        BY <1>1, <1>3, <4>1, <4>2, ResolveSays
      <4> QED
        BY <1>3, <3>2, <4>1, <4>3
    <3> QED
      BY <3>3, <3>4
  <2>9. ASSUME NEW m \in DOMAIN Path, f[m] # first[m]
        PROVE  /\ m \in On(n) /\ \E x \in On(m) : EndsAt(x, t)
               /\ deadline[m] <= t =>
                    f[m].at < deadline[m] \/ f[m] = Contexts!Event("deadline", deadline[m])
               /\ m # Contexts!Root =>
                    /\ deadline[Contexts!Parent(m)] <= t => f[Contexts!Parent(m)] # Contexts!NoEvent
                    /\ canceledAt[m] = Contexts!Never =>
                        f[m] = IF deadline[m] <= t
                               THEN Contexts!Earliest(f[Contexts!Parent(m)],
                                                      Contexts!Event("deadline", deadline[m]))
                               ELSE f[Contexts!Parent(m)]
    <3>1. PICK i \in fresh : P[i] = m
      BY <2>4, <2>9
    <3>2. f[m] = down[i] /\ i \in 1..L /\ i > N /\ first[m] = Contexts!NoEvent
      BY <1>2, <2>3, <3>1
    <3>3. i - 1 \in 0..L
      BY <1>1, <3>2
    <3>4. down[i - 1] \in Latches /\ down[i] = Contexts!Resolve(m, down[i - 1], t)
      BY <1>3, <3>1, <3>2, <3>3
    <3>5. /\ deadline[m] <= t =>
                    f[m].at < deadline[m] \/ f[m] = Contexts!Event("deadline", deadline[m])
          /\ canceledAt[m] = Contexts!Never =>
                f[m] = IF deadline[m] <= t
                       THEN Contexts!Earliest(down[i - 1], Contexts!Event("deadline", deadline[m]))
                       ELSE down[i - 1]
      BY <3>2, <3>4, ResolveSays
    <3>6. m \in On(n) /\ Len(Path[m]) = i /\ DOMAIN Path[m] = 1..i /\ \A j \in 1..i : Path[m][j] = P[j]
      <4>1. m \in On(n)
        BY <1>1, <3>1, <3>2 DEF On, P
      <4>2. Len(Path[m]) = i /\ \A j \in 1..i : Path[m][j] = P[j]
        BY <3>1, <3>2, Tree DEF P, L
      <4> QED
        BY <4>1, <4>2, Tree
    <3>7. \E x \in On(m) : EndsAt(x, t)
      <4>1. PICK j \in 1..i : EndsAt(P[j], t)
        BY <1>3, <2>9, <3>2
      <4>2. P[j] \in On(m)
        BY <3>6, <4>1 DEF On
      <4> QED
        BY <4>1, <4>2
    <3>8. ASSUME m # Contexts!Root
          PROVE  /\ f[Contexts!Parent(m)] = down[i - 1]
                 /\ deadline[Contexts!Parent(m)] <= t => f[Contexts!Parent(m)] # Contexts!NoEvent
      <4>1. Len(Path[m]) = i /\ Len(Path[m]) > 1
        BY <3>6, <3>8, Roots
      <4>2. i - 1 \in 1..L /\ i - 1 \in 1..i /\ i \in Nat /\ (i - 1) - 1 \in 0..L
        BY <1>1, <3>2, <4>1
      <4>3. Contexts!Parent(m) = P[i - 1]
        BY <3>6, <4>1, <4>2 DEF Contexts!Parent
      <4>4. f[Contexts!Parent(m)] = down[i - 1]
        BY <2>5, <4>2, <4>3
      <4>5. ASSUME deadline[P[i - 1]] <= t PROVE down[i - 1] # Contexts!NoEvent
        <5>1. CASE i - 1 > N
          <6>1. down[i - 1] = Contexts!Resolve(P[i - 1], down[(i - 1) - 1], t)
                /\ down[(i - 1) - 1] \in Latches /\ P[i - 1] \in DOMAIN Path
            BY <1>1, <1>3, <4>2, <5>1
          <6> QED
            BY <4>5, <6>1, ResolveSays
        <5>2. CASE ~(i - 1 > N)
          <6>1. i - 1 = N /\ N > 0
            BY <1>1, <3>2, <4>2, <5>2
          <6>2. down[N] = first[P[N]]
            BY <1>1, <1>3, <4>2, <6>1
          <6> QED
            BY <1>2, <6>1, <6>2
        <5> QED
          BY <5>1, <5>2
      <4> QED
        BY <4>3, <4>4, <4>5
    <3> QED
      BY <3>5, <3>6, <3>7, <3>8
  <2> QED
    BY <2>6, <2>7, <2>8, <2>9 DEF f
<1> QED
    BY <1>4, <1>5

\* n has ended, or will once a cancel under way reaches its token.
Touched(n) == deadline[n] <= clock \/ n \in token \/ \E x \in On(n) : x \in canceling

\* n and its parent agree, with f for the latches: what n inherits is what its
\* parent has, and what its parent has the deadline they share does not change.
Agrees(f, n) ==
    LET p == Contexts!Parent(n) IN
    deadline[n] = deadline[p] =>
        /\ f[n] # Contexts!NoEvent /\ canceledAt[n] = Contexts!Never => f[p] = f[n]
        /\ f[p] # Contexts!NoEvent /\ f[n] = Contexts!NoEvent =>
            f[p].at < deadline[p] \/ f[p] = Contexts!Event("deadline", deadline[p])

CtxInv ==
    /\ CtxTypes
    /\ \A n \in made : On(n) \subseteq made
    /\ \A n \in made : \A x \in On(n) : deadline[n] <= deadline[x] /\ (x \in token => n \in token)
    /\ \A n \in DOMAIN Path : canceledAt[n] # Contexts!Never => n \in token \cup canceling
    /\ \A n \in canceling : canceledAt[n] # Contexts!Never \/ first[n] # Contexts!NoEvent
    /\ \A n \in token : \E x \in On(n) : canceledAt[x] # Contexts!Never \/ first[x] # Contexts!NoEvent
    /\ \A n \in made : first[n] # Contexts!NoEvent => Touched(n)
    /\ waiter.pc = "done" => first[waiter.node] # Contexts!NoEvent \/ waiter.node \in token
    /\ stale \/ \A n \in made \ {Contexts!Root} : Agrees(first, n)

-----------------------------------------------------------------------------
\* What has ended a node has touched those under it.
LEMMA EndsTouch ==
    ASSUME CtxInv, NEW n \in made, NEW x \in On(n), NEW t \in 0..clock, EndsAt(x, t)
    PROVE  Touched(n)
<1>1. x \in made /\ n \in DOMAIN Path /\ x \in DOMAIN Path
    BY DEF CtxInv, CtxTypes
<1>2. deadline[n] <= deadline[x] /\ (x \in token => n \in token)
    BY DEF CtxInv
<1>3. deadline[n] \in Nat /\ deadline[x] \in Nat /\ clock \in Nat
    BY <1>1, PathAssumption DEF CtxInv, CtxTypes, Contexts!Never
<1>4. deadline[x] <= t \/ x \in token \/ x \in canceling \/ Touched(x)
    BY <1>1 DEF CtxInv, EndsAt
<1>5. On(x) \subseteq On(n)
    BY <1>1, OnPath
<1>6. deadline[x] <= t => deadline[n] <= clock
    BY <1>2, <1>3
<1>7. deadline[x] <= clock => deadline[n] <= clock
    BY <1>2, <1>3
<1> QED
    BY <1>2, <1>4, <1>5, <1>6, <1>7 DEF Touched

\* A look for the first event keeps what is known of latches.
LEMMA LatchKeeps ==
    ASSUME CtxInv, NEW n \in made, NEW t \in 0..clock
    PROVE  LET f == Contexts!FirstEvent(n, t) IN
           /\ f \in [DOMAIN Path -> Latches]
           /\ \A m \in DOMAIN Path : first[m] # Contexts!NoEvent => f[m] = first[m]
           /\ \A m \in made : f[m] # Contexts!NoEvent => Touched(m)
           /\ \A m \in DOMAIN Path : m \notin made => f[m] = first[m]
           /\ deadline[n] <= t => f[n] # Contexts!NoEvent
           /\ t = clock /\ ~stale => \A m \in made \ {Contexts!Root} : Agrees(f, m)
<1> DEFINE f == Contexts!FirstEvent(n, t)
<1>1. CtxTypes /\ n \in DOMAIN Path /\ made \subseteq DOMAIN Path /\ On(n) \subseteq made
    BY DEF CtxInv, CtxTypes
<1>2. /\ f \in [DOMAIN Path -> Latches]
      /\ \A m \in DOMAIN Path : first[m] # Contexts!NoEvent => f[m] = first[m]
      /\ n \in token \/ deadline[n] <= t =>
           ((\E x \in On(n) : EndsAt(x, t)) => f[n] # Contexts!NoEvent)
      /\ \A m \in DOMAIN Path : f[m] # first[m] =>
            /\ m \in On(n) /\ \E x \in On(m) : EndsAt(x, t)
            /\ deadline[m] <= t =>
                f[m].at < deadline[m] \/ f[m] = Contexts!Event("deadline", deadline[m])
            /\ m # Contexts!Root =>
                /\ deadline[Contexts!Parent(m)] <= t => f[Contexts!Parent(m)] # Contexts!NoEvent
                /\ canceledAt[m] = Contexts!Never =>
                    f[m] = IF deadline[m] <= t
                           THEN Contexts!Earliest(f[Contexts!Parent(m)],
                                                  Contexts!Event("deadline", deadline[m]))
                           ELSE f[Contexts!Parent(m)]
    BY <1>1, FirstEventSays
<1> HIDE DEF f
<1>3. \A m \in made : f[m] # Contexts!NoEvent => Touched(m)
  <2> SUFFICES ASSUME NEW m \in made, f[m] # Contexts!NoEvent PROVE Touched(m)
    OBVIOUS
  <2>1. CASE f[m] = first[m]
    BY <2>1 DEF CtxInv
  <2>2. CASE f[m] # first[m]
    BY <1>1, <1>2, <2>2, EndsTouch
  <2> QED
    BY <2>1, <2>2
<1>4. \A m \in DOMAIN Path : m \notin made => f[m] = first[m]
    BY <1>1, <1>2
<1>5. deadline[n] <= t => f[n] # Contexts!NoEvent
  <2>1. n \in On(n)
    BY <1>1, Tree DEF On
  <2> QED
    BY <1>2, <2>1 DEF EndsAt
<1>6. ASSUME t = clock, ~stale, NEW m \in made \ {Contexts!Root} PROVE Agrees(f, m)
  <2> DEFINE p == Contexts!Parent(m)
             D == Contexts!Event("deadline", deadline[m])
  <2>1. p \in DOMAIN Path /\ m \in DOMAIN Path /\ Agrees(first, m)
    BY <1>1, <1>6, Roots DEF CtxInv
  <2> SUFFICES ASSUME deadline[m] = deadline[p]
               PROVE  /\ f[m] # Contexts!NoEvent /\ canceledAt[m] = Contexts!Never => f[p] = f[m]
                      /\ f[p] # Contexts!NoEvent /\ f[m] = Contexts!NoEvent =>
                           f[p].at < deadline[m] \/ f[p] = D
    BY DEF Agrees
  <2>2. /\ first[m] # Contexts!NoEvent /\ canceledAt[m] = Contexts!Never => first[p] = first[m]
        /\ first[p] # Contexts!NoEvent /\ first[m] = Contexts!NoEvent =>
             first[p].at < deadline[m] \/ first[p] = D
    BY <2>1 DEF Agrees
  <2>3. /\ deadline[m] \in Nat /\ clock \in Nat /\ MaxTime \in Nat
        /\ f[p] \in Latches /\ D.at = deadline[m] /\ D.err = "deadline"
        /\ f[p] # Contexts!NoEvent => f[p].at \in 0..clock
    <3>1. deadline[m] \in Nat /\ clock \in Nat /\ MaxTime \in Nat
      BY <1>1, <2>1, PathAssumption DEF CtxTypes, Contexts!Never
    <3>2. f[p] \in Latches
      BY <1>2, <2>1
    <3>3. D.at = deadline[m] /\ D.err = "deadline"
      BY DEF Contexts!Event
    <3>4. f[p] # Contexts!NoEvent => f[p].at \in 0..clock
      BY <3>2 DEF Latches
    <3> QED
      BY <3>1, <3>2, <3>3, <3>4
  <2>4. f[p] # first[p] => f[p].at < deadline[m] \/ f[p] = D
    <3> SUFFICES ASSUME f[p] # first[p] PROVE f[p].at < deadline[m] \/ f[p] = D
      OBVIOUS
    <3>1. first[p] = Contexts!NoEvent /\ f[p] # Contexts!NoEvent
      BY <1>2, <2>1
    <3>2. CASE deadline[m] <= t
      BY <1>2, <2>1, <3>2
    <3>3. CASE ~(deadline[m] <= t)
      BY <1>6, <2>3, <3>1, <3>3
    <3> QED
      BY <3>2, <3>3
  <2>5. ASSUME f[p] # Contexts!NoEvent, f[m] = Contexts!NoEvent
        PROVE  f[p].at < deadline[m] \/ f[p] = D
    <3>1. first[m] = Contexts!NoEvent
      BY <1>2, <2>1, <2>5
    <3> QED
      BY <2>2, <2>4, <2>5, <3>1
  <2>6. ASSUME f[m] # Contexts!NoEvent, canceledAt[m] = Contexts!Never
        PROVE  f[p] = f[m]
    <3>1. CASE f[m] = first[m]
      BY <1>2, <2>1, <2>2, <2>6, <3>1
    <3>2. CASE f[m] # first[m]
      <4>1. first[m] = Contexts!NoEvent
        BY <1>2, <2>1, <3>2
      <4>2. CASE deadline[m] <= t
        <5>1. f[p] # Contexts!NoEvent /\ f[m] = Contexts!Earliest(f[p], D)
          BY <1>2, <1>6, <2>1, <2>6, <3>2, <4>2
        <5>2. f[p].at < deadline[m] \/ f[p] = D
          BY <2>2, <2>4, <4>1, <5>1
        <5>3. f[p].at \in Nat
          BY <2>3, <5>1
        <5>4. Contexts!Earliest(f[p], D) = f[p]
          BY <2>3, <5>2, <5>3 DEF Contexts!Earliest
        <5> QED
          BY <5>1, <5>4
      <4>3. CASE ~(deadline[m] <= t)
        BY <1>2, <1>6, <2>1, <2>6, <3>2, <4>3
      <4> QED
        BY <4>2, <4>3
    <3> QED
      BY <3>1, <3>2
  <2> QED
    BY <2>5, <2>6
<1> QED
    BY <1>2, <1>3, <1>4, <1>5, <1>6 DEF f

\* A fresh tree, and one that is over, satisfy the invariant.
LEMMA CtxInvInit ==
    ASSUME Contexts!Init \/ Contexts!Over
    PROVE  CtxInv
<1>1. MaxTime \in Nat /\ MaxCancels \in Nat /\ Contexts!Never = MaxTime + 1
    BY PathAssumption DEF Contexts!Never
<1>2. Contexts!Root \in DOMAIN Path /\ Path[Contexts!Root][1] = Contexts!Root
    BY Roots
<1>3. On(Contexts!Root) = {Contexts!Root}
  <2>1. Len(Path[Contexts!Root]) = 1
    <3>1. Len(Path[Contexts!Root]) \in Nat \ {0}
      BY <1>2, Tree
    <3>2. 1 \in 1..Len(Path[Contexts!Root])
      BY <3>1
    <3>3. Len(Path[Path[Contexts!Root][1]]) = 1
      BY <1>2, <3>2, Tree
    <3> QED
      BY <1>2, <3>3
  <2>2. DOMAIN Path[Contexts!Root] = 1..1
    BY <1>2, <2>1, Tree
  <2>3. 1..1 = {1}
    OBVIOUS
  <2> QED
    BY <1>2, <2>2, <2>3 DEF On
<1>4. /\ made = {Contexts!Root} /\ clock \in 0..MaxTime /\ canceling = {} /\ cancels = 0
      /\ deadline = [n \in DOMAIN Path |-> Contexts!Never]
      /\ waiter = Contexts!NoWait /\ look = Contexts!NoLook /\ stale = FALSE
      /\ token \subseteq {Contexts!Root}
    BY <1>1 DEF Contexts!Init, Contexts!Over, Contexts!Nodes
<1>5. \/ /\ token = {} /\ canceledAt = [n \in DOMAIN Path |-> Contexts!Never]
         /\ first = [n \in DOMAIN Path |-> Contexts!NoEvent]
      \/ /\ token = {Contexts!Root}
         /\ canceledAt = [n \in DOMAIN Path |-> IF n = Contexts!Root THEN 0 ELSE Contexts!Never]
         /\ first = [n \in DOMAIN Path |-> IF n = Contexts!Root THEN Contexts!Event("canceled", 0)
                                                              ELSE Contexts!NoEvent]
    BY DEF Contexts!Init, Contexts!Over, Contexts!Nodes
<1>6. Contexts!NoEvent \in Latches /\ Contexts!Event("canceled", 0) \in Latches
    BY <1>1, <1>4 DEF Latches, Contexts!Event
<1>7. canceledAt \in [DOMAIN Path -> (0..clock) \cup {Contexts!Never}] /\ first \in [DOMAIN Path -> Latches]
  <2>1. 0 \in 0..clock
    BY <1>1, <1>4
  <2> QED
    BY <1>5, <1>6, <2>1
<1>8. waiter \in [node : made, pc : {"none", "waiting", "done"}] /\ waiter.pc = "none"
    BY <1>4 DEF Contexts!NoWait
<1>9. deadline \in [DOMAIN Path -> 0..Contexts!Never] /\ cancels \in 0..MaxCancels
    BY <1>1, <1>4
<1>10. CtxTypes
    BY <1>2, <1>4, <1>7, <1>8, <1>9 DEF CtxTypes
<1>11. \A n \in DOMAIN Path : canceledAt[n] # Contexts!Never => n \in token
    BY <1>5
<1>12. \A n \in token : \E x \in On(n) : canceledAt[x] # Contexts!Never \/ first[x] # Contexts!NoEvent
  <2>1. 0 # Contexts!Never
    BY <1>1
  <2> QED
    BY <1>2, <1>3, <1>5, <2>1
<1>13. \A n \in made : first[n] # Contexts!NoEvent => Touched(n)
    BY <1>2, <1>4, <1>5 DEF Touched
<1>14. deadline[Contexts!Root] <= deadline[Contexts!Root]
    BY <1>1, <1>2, <1>4
<1> QED
    BY <1>3, <1>4, <1>8, <1>10, <1>11, <1>12, <1>13, <1>14 DEF CtxInv

\* A step that latches what a look finds and lets the tree be.
LEMMA LatchStep ==
    ASSUME CtxInv, NEW n \in made, NEW t \in 0..clock, first' = Contexts!FirstEvent(n, t),
           UNCHANGED <<clock, made, deadline, canceledAt, token, canceling, cancels>>,
           stale' \in BOOLEAN, ~stale' => ~stale /\ (t = clock \/ first' = first),
           waiter' \in [node : made, pc : {"none", "waiting", "done"}],
           waiter'.pc = "done" => first'[waiter'.node] # Contexts!NoEvent \/ waiter'.node \in token,
           look' = Contexts!NoLook \/ look' = look
    PROVE  CtxInv'
<1>1. /\ first' \in [DOMAIN Path -> Latches]
      /\ \A m \in DOMAIN Path : first[m] # Contexts!NoEvent => first'[m] = first[m]
      /\ \A m \in made : first'[m] # Contexts!NoEvent => Touched(m)
      /\ t = clock /\ ~stale => \A m \in made \ {Contexts!Root} : Agrees(first', m)
    BY LatchKeeps
<1>2. /\ Latches' = Latches /\ (\A m : On(m)' = On(m)) /\ (\A m : Touched(m)' = Touched(m))
      /\ Contexts!Root' = Contexts!Root /\ Contexts!Never' = Contexts!Never
      /\ Contexts!NoEvent' = Contexts!NoEvent /\ Contexts!NoLook' = Contexts!NoLook
    BY DEF Latches, On, Touched, Contexts!Root, Contexts!Never, Contexts!NoEvent, Contexts!NoLook,
           Contexts!Nodes
<1>3. CtxTypes'
    BY <1>1, <1>2 DEF CtxInv, CtxTypes
<1>4. \A m \in token : On(m) \subseteq DOMAIN Path
    BY DEF CtxInv, CtxTypes
<1>5. \A m \in token : \E x \in On(m) : canceledAt[x] # Contexts!Never \/ first'[x] # Contexts!NoEvent
    BY <1>1, <1>4 DEF CtxInv
<1>6. \A m \in canceling : canceledAt[m] # Contexts!Never \/ first'[m] # Contexts!NoEvent
    BY <1>1 DEF CtxInv, CtxTypes
<1>7. stale' \/ \A m \in made \ {Contexts!Root} : Agrees(first, m)'
  <2> SUFFICES ASSUME ~stale', NEW m \in made \ {Contexts!Root} PROVE Agrees(first, m)'
    OBVIOUS
  <2>1. Agrees(first', m)
    BY <1>1 DEF CtxInv
  <2> QED
    BY <2>1 DEF Agrees, Contexts!Parent, Contexts!Event, Contexts!NoEvent, Contexts!Never
<1> QED
    BY <1>1, <1>2, <1>3, <1>5, <1>6, <1>7 DEF CtxInv

\* The clock may pass a deadline, which touches more nodes and none less.
LEMMA TickStep ==
    ASSUME CtxInv, Contexts!Tick
    PROVE  CtxInv'
<1>1. clock \in Nat /\ MaxTime \in Nat /\ clock' = clock + 1 /\ clock < MaxTime
      /\ UNCHANGED <<made, deadline, canceledAt, token, first, canceling, cancels, waiter, look, stale>>
    BY PathAssumption DEF Contexts!Tick, CtxInv, CtxTypes
<1>2. clock' \in 0..MaxTime /\ 0..clock \subseteq 0..clock'
    BY <1>1
<1>3. /\ (\A m : On(m)' = On(m))
      /\ Contexts!Root' = Contexts!Root /\ Contexts!Never' = Contexts!Never
      /\ Contexts!NoEvent' = Contexts!NoEvent /\ Contexts!NoLook' = Contexts!NoLook
    BY DEF On, Contexts!Root, Contexts!Never, Contexts!NoEvent, Contexts!NoLook,
           Contexts!Nodes
<1>4. Latches \subseteq Latches'
    BY <1>2, <1>3 DEF Latches
<1>5. CtxTypes'
  <2>1. first' \in [DOMAIN Path -> Latches']
    BY <1>1, <1>4 DEF CtxInv, CtxTypes
  <2>2. canceledAt' \in [DOMAIN Path -> (0..clock') \cup {Contexts!Never}]
    BY <1>1, <1>2 DEF CtxInv, CtxTypes
  <2>3. look' = Contexts!NoLook \/ look' \in [node : made, now : 0..clock']
    BY <1>1, <1>2 DEF CtxInv, CtxTypes
  <2> QED
    BY <1>1, <1>2, <1>3, <2>1, <2>2, <2>3 DEF CtxInv, CtxTypes
<1>6. \A m \in made : Touched(m) => Touched(m)'
  <2> SUFFICES ASSUME NEW m \in made, Touched(m) PROVE Touched(m)'
    OBVIOUS
  <2>1. deadline[m] \in Nat
    BY PathAssumption DEF CtxInv, CtxTypes, Contexts!Never
  <2>2. deadline[m] <= clock => deadline[m] <= clock'
    BY <1>1, <2>1
  <2> QED
    BY <1>1, <1>3, <2>2 DEF Touched
<1>7. \A m : Agrees(first, m)' = Agrees(first, m)
    BY <1>1 DEF Agrees, Contexts!Parent, Contexts!Event, Contexts!NoEvent, Contexts!Never
<1> QED
    BY <1>1, <1>3, <1>5, <1>6, <1>7 DEF CtxInv

\* cancel() has an instant to name, its own or what ended the node before.
LEMMA CancelStep ==
    ASSUME CtxInv, NEW n \in DOMAIN Path, Contexts!Cancel(n)
    PROVE  CtxInv'
<1>1. /\ n \in made /\ cancels < MaxCancels /\ cancels' = cancels + 1
      /\ canceledAt' = [canceledAt EXCEPT ![n] =
                        IF first[n] = Contexts!NoEvent /\ canceledAt[n] = Contexts!Never
                        THEN clock ELSE canceledAt[n]]
      /\ canceling' = canceling \cup {n}
      /\ UNCHANGED <<clock, made, deadline, token, first, waiter, look, stale>>
    BY DEF Contexts!Cancel
<1>2. /\ Latches' = Latches /\ (\A m : On(m)' = On(m))
      /\ Contexts!Root' = Contexts!Root /\ Contexts!Never' = Contexts!Never
      /\ Contexts!NoEvent' = Contexts!NoEvent /\ Contexts!NoLook' = Contexts!NoLook
    BY <1>1 DEF Latches, On, Contexts!Root, Contexts!Never, Contexts!NoEvent, Contexts!NoLook,
           Contexts!Nodes
<1>3. canceledAt \in [DOMAIN Path -> (0..clock) \cup {Contexts!Never}] /\ clock \in Nat
      /\ clock # Contexts!Never /\ clock \in 0..clock
  <2>1. /\ canceledAt \in [DOMAIN Path -> (0..clock) \cup {Contexts!Never}] /\ clock \in 0..MaxTime
        /\ MaxTime \in Nat /\ Contexts!Never = MaxTime + 1
    BY PathAssumption DEF CtxInv, CtxTypes, Contexts!Never
  <2>2. clock \in Nat /\ clock # Contexts!Never /\ clock \in 0..clock
    BY <2>1
  <2> QED
    BY <2>1, <2>2
<1>4. /\ canceledAt' \in [DOMAIN Path -> (0..clock) \cup {Contexts!Never}]
      /\ \A m \in DOMAIN Path : canceledAt[m] # Contexts!Never => canceledAt'[m] = canceledAt[m]
      /\ \A m \in DOMAIN Path : m # n => canceledAt'[m] = canceledAt[m]
      /\ canceledAt'[n] # Contexts!Never \/ first[n] # Contexts!NoEvent
    BY <1>1, <1>3
<1>5. CtxTypes'
  <2>1. cancels' \in 0..MaxCancels
    <3>1. cancels \in 0..MaxCancels /\ MaxCancels \in Nat
      BY PathAssumption DEF CtxInv, CtxTypes
    <3> QED
      BY <1>1, <3>1
  <2> QED
    BY <1>1, <1>2, <1>4, <2>1 DEF CtxInv, CtxTypes
<1>6. \A m \in token : \E x \in On(m) : canceledAt'[x] # Contexts!Never \/ first[x] # Contexts!NoEvent
  <2>1. \A m \in token : On(m) \subseteq DOMAIN Path
    BY DEF CtxInv, CtxTypes
  <2> QED
    BY <1>4, <2>1 DEF CtxInv
<1>7. \A m \in made : Touched(m) => Touched(m)'
    BY <1>1, <1>2 DEF Touched
<1>8. ASSUME NEW m \in made \ {Contexts!Root}, Agrees(first, m) PROVE Agrees(first, m)'
  <2>1. m \in DOMAIN Path
    BY DEF CtxInv, CtxTypes
  <2>2. canceledAt'[m] = Contexts!Never => canceledAt[m] = Contexts!Never
    BY <1>4, <2>1
  <2> QED
    BY <1>1, <1>8, <2>2 DEF Agrees, Contexts!Parent, Contexts!Event, Contexts!NoEvent, Contexts!Never
<1>9. \A m \in canceling' : canceledAt'[m] # Contexts!Never \/ first[m] # Contexts!NoEvent
    BY <1>1, <1>4 DEF CtxInv, CtxTypes
<1>10. \A m \in DOMAIN Path : canceledAt'[m] # Contexts!Never => m \in token \cup canceling'
    BY <1>1, <1>4 DEF CtxInv
<1> QED
    BY <1>1, <1>2, <1>5, <1>6, <1>7, <1>8, <1>9, <1>10 DEF CtxInv

\* The token reaches all that were made under n.
LEMMA CancelTokenStep ==
    ASSUME CtxInv, NEW n \in DOMAIN Path, Contexts!CancelToken(n)
    PROVE  CtxInv'
<1>1. /\ n \in canceling /\ token' = token \cup (Contexts!Under(n) \cap made)
      /\ canceling' = canceling \ {n}
      /\ UNCHANGED <<clock, made, deadline, canceledAt, first, cancels, waiter, look, stale>>
    BY DEF Contexts!CancelToken
<1>2. /\ Latches' = Latches /\ (\A m : On(m)' = On(m))
      /\ Contexts!Root' = Contexts!Root /\ Contexts!Never' = Contexts!Never
      /\ Contexts!NoEvent' = Contexts!NoEvent /\ Contexts!NoLook' = Contexts!NoLook
    BY <1>1 DEF Latches, On, Contexts!Root, Contexts!Never, Contexts!NoEvent, Contexts!NoLook,
           Contexts!Nodes
<1>3. made \subseteq DOMAIN Path /\ n \in made
    BY <1>1 DEF CtxInv, CtxTypes
<1>4. \A m \in made : m \in token' <=> m \in token \/ n \in On(m)
    BY <1>1, <1>3 DEF Contexts!Under, On, Contexts!Nodes
<1>5. token \subseteq token' /\ token' \subseteq made
    BY <1>1 DEF CtxInv, CtxTypes
<1>6. CtxTypes'
    BY <1>1, <1>2, <1>5 DEF CtxInv, CtxTypes
<1>7. \A m \in made : \A x \in On(m) : x \in token' => m \in token'
  <2> SUFFICES ASSUME NEW m \in made, NEW x \in On(m), x \in token' PROVE m \in token'
    OBVIOUS
  <2>1. On(x) \subseteq On(m) /\ x \in made
    BY <1>3, <1>5, OnPath
  <2> QED
    BY <1>4, <2>1 DEF CtxInv
<1>8. \A m \in DOMAIN Path : canceledAt[m] # Contexts!Never => m \in token' \cup canceling'
  <2>1. n \in On(n)
    BY Tree DEF On
  <2> QED
    BY <1>1, <1>3, <1>4, <1>5, <2>1 DEF CtxInv
<1>9. \A m \in token' : \E x \in On(m) : canceledAt[x] # Contexts!Never \/ first[x] # Contexts!NoEvent
    BY <1>1, <1>4, <1>5 DEF CtxInv
<1>10. \A m \in made : Touched(m) => Touched(m)'
    BY <1>1, <1>2, <1>4, <1>5 DEF Touched
<1>11. \A m : Agrees(first, m)' = Agrees(first, m)
    BY <1>1 DEF Agrees, Contexts!Parent, Contexts!Event, Contexts!NoEvent, Contexts!Never
<1> QED
    BY <1>1, <1>2, <1>5, <1>6, <1>7, <1>8, <1>9, <1>10, <1>11 DEF CtxInv

\* Steps that let the tree and its latches be.
LEMMA IdleStep ==
    ASSUME CtxInv, UNCHANGED <<clock, made, deadline, canceledAt, token, first, canceling, cancels,
                               stale>>,
           waiter' \in [node : made, pc : {"none", "waiting", "done"}],
           waiter'.pc = "done" => first[waiter'.node] # Contexts!NoEvent \/ waiter'.node \in token,
           look' = Contexts!NoLook \/ look' \in [node : made, now : 0..clock]
    PROVE  CtxInv'
<1>1. /\ Latches' = Latches /\ (\A m : On(m)' = On(m)) /\ (\A m : Touched(m)' = Touched(m))
      /\ Contexts!Root' = Contexts!Root /\ Contexts!Never' = Contexts!Never
      /\ Contexts!NoEvent' = Contexts!NoEvent /\ Contexts!NoLook' = Contexts!NoLook
    BY DEF Latches, On, Touched, Contexts!Root, Contexts!Never, Contexts!NoEvent, Contexts!NoLook,
           Contexts!Nodes
<1>2. CtxTypes'
    BY <1>1 DEF CtxInv, CtxTypes
<1>3. \A m : Agrees(first, m)' = Agrees(first, m)
    BY DEF Agrees, Contexts!Parent, Contexts!Event, Contexts!NoEvent, Contexts!Never
<1> QED
    BY <1>1, <1>2, <1>3 DEF CtxInv

\* A new node is told at once what its parent knows, and shares its deadline or
\* has an earlier one.
LEMMA MakeStep ==
    ASSUME CtxInv, NEW n \in DOMAIN Path, NEW d \in Timeouts \cup {Contexts!Never},
           n # Contexts!Root, Contexts!Make(n, d)
    PROVE  CtxInv'
<1> DEFINE p == Contexts!Parent(n)
           f == Contexts!FirstEvent(p, clock)
           own == IF d >= Contexts!Never - clock THEN Contexts!Never ELSE clock + d
           dl == IF deadline[p] < own THEN deadline[p] ELSE own
           ev == IF f[p] # Contexts!NoEvent THEN f[p]
                 ELSE IF dl <= clock THEN Contexts!Event("deadline", dl) ELSE Contexts!NoEvent
<1>1. /\ n \notin made /\ p \in made /\ made' = made \cup {n}
      /\ deadline' = [deadline EXCEPT ![n] = dl]
      /\ token' = IF p \in token THEN token \cup {n} ELSE token
      /\ UNCHANGED <<clock, canceledAt, canceling, cancels, waiter, look, stale>>
    BY DEF Contexts!Make
<1>2. /\ CtxTypes /\ p \in DOMAIN Path /\ made \subseteq DOMAIN Path /\ p # n
      /\ (\A m \in made : On(m) \subseteq made) /\ On(n) = On(p) \cup {n}
    BY <1>1, Roots DEF CtxInv, CtxTypes
<1>3. deadline'[n] = dl /\ \A m \in made : deadline'[m] = deadline[m]
    BY <1>1, <1>2 DEF CtxTypes
<1>4. first' = [f EXCEPT ![n] = ev]
  <2>1. first' = [f EXCEPT ![n] = IF f[p] # Contexts!NoEvent THEN f[p]
                                  ELSE IF deadline'[n] <= clock THEN Contexts!Event("deadline", deadline'[n])
                                  ELSE Contexts!NoEvent]
    BY DEF Contexts!Make
  <2> HIDE DEF f, dl
  <2> QED
    BY <1>3, <2>1
<1>5. /\ clock \in Nat /\ clock \in 0..clock /\ MaxTime \in Nat /\ Contexts!Never = MaxTime + 1
      /\ clock <= MaxTime /\ d \in Nat
    BY <1>2, PathAssumption DEF CtxTypes, Contexts!Never
<1>6. /\ f \in [DOMAIN Path -> Latches]
      /\ \A m \in DOMAIN Path : first[m] # Contexts!NoEvent => f[m] = first[m]
      /\ \A m \in made : f[m] # Contexts!NoEvent => Touched(m)
      /\ deadline[p] <= clock => f[p] # Contexts!NoEvent
      /\ ~stale => \A m \in made \ {Contexts!Root} : Agrees(f, m)
    BY <1>1, <1>5, LatchKeeps
<1>7. first'[n] = ev /\ \A m \in DOMAIN Path : m # n => first'[m] = f[m]
    BY <1>4, <1>6
<1>8. dl \in 0..Contexts!Never /\ dl <= deadline[p] /\ deadline[p] \in Nat
  <2>1. deadline[p] \in 0..Contexts!Never
    BY <1>2 DEF CtxTypes
  <2>2. own \in 0..Contexts!Never
    BY <1>5
  <2> QED
    BY <1>5, <2>1, <2>2
<1>9. ev \in Latches
  <2>1. f[p] \in Latches /\ Contexts!NoEvent \in Latches
    BY <1>2, <1>6 DEF Latches
  <2>2. dl <= clock => Contexts!Event("deadline", dl) \in Latches
    <3>1. dl <= clock => dl \in 0..clock
      BY <1>5, <1>8
    <3> QED
      BY <3>1 DEF Latches, Contexts!Event
  <2> QED
    BY <2>1, <2>2
<1> HIDE DEF f, own, dl, ev
<1>10. /\ Latches' = Latches /\ (\A m : On(m)' = On(m))
       /\ Contexts!Root' = Contexts!Root /\ Contexts!Never' = Contexts!Never
       /\ Contexts!NoEvent' = Contexts!NoEvent /\ Contexts!NoLook' = Contexts!NoLook
    BY <1>1 DEF Latches, On, Contexts!Root, Contexts!Never, Contexts!NoEvent, Contexts!NoLook,
           Contexts!Nodes
<1>11. CtxTypes'
  <2>1. first' \in [DOMAIN Path -> Latches]
    BY <1>4, <1>6, <1>9
  <2>2. deadline' \in [DOMAIN Path -> 0..Contexts!Never]
    BY <1>1, <1>2, <1>8 DEF CtxTypes
  <2>3. token' \subseteq made' /\ canceling' \subseteq made'
    BY <1>1, <1>2 DEF CtxTypes
  <2>4. waiter' \in [node : made', pc : {"none", "waiting", "done"}]
    BY <1>1, <1>2 DEF CtxTypes
  <2>5. look' = Contexts!NoLook \/ look' \in [node : made', now : 0..clock]
    BY <1>1, <1>2 DEF CtxTypes
  <2> QED
    BY <1>1, <1>2, <1>10, <2>1, <2>2, <2>3, <2>4, <2>5 DEF CtxTypes
<1>12. \A m \in made' : On(m) \subseteq made'
    BY <1>1, <1>2
<1>13. \A m \in made' : \A x \in On(m) : deadline'[m] <= deadline'[x] /\ (x \in token' => m \in token')
  <2> SUFFICES ASSUME NEW m \in made', NEW x \in On(m)
               PROVE  deadline'[m] <= deadline'[x] /\ (x \in token' => m \in token')
    OBVIOUS
  <2>1. \A y \in made : \A z \in On(y) : deadline[y] <= deadline[z] /\ (z \in token => y \in token)
    BY DEF CtxInv
  <2>2. \A y \in made : y \in token' <=> y \in token
    BY <1>1
  <2>3. CASE m \in made
    BY <1>2, <1>3, <2>1, <2>2, <2>3
  <2>4. CASE m = n /\ x = n
    BY <1>3, <1>5, <1>8, <2>4
  <2>5. CASE m = n /\ x # n
    <3>1. x \in On(p) /\ x \in made
      BY <1>1, <1>2, <2>5
    <3>2. deadline[p] <= deadline[x] /\ (x \in token => p \in token)
      BY <1>1, <2>1, <3>1
    <3>3. deadline[x] \in Nat
      BY <1>2, <1>5, <3>1 DEF CtxTypes
    <3>4. dl <= deadline[x]
      BY <1>5, <1>8, <3>2, <3>3
    <3> QED
      BY <1>1, <1>3, <2>2, <2>5, <3>1, <3>2, <3>4
  <2> QED
    BY <1>1, <2>3, <2>4, <2>5
<1>14. \A m \in DOMAIN Path : canceledAt[m] # Contexts!Never => m \in token' \cup canceling
    BY <1>1 DEF CtxInv
<1>15. \A m \in made : first[m] # Contexts!NoEvent => first'[m] # Contexts!NoEvent
    BY <1>1, <1>2, <1>6, <1>7
<1>16. \A m \in canceling : canceledAt[m] # Contexts!Never \/ first'[m] # Contexts!NoEvent
    BY <1>2, <1>15 DEF CtxInv, CtxTypes
<1>17. \A m \in token' : \E x \in On(m) : canceledAt[x] # Contexts!Never \/ first'[x] # Contexts!NoEvent
  <2>1. \A m \in token : \E x \in On(m) : canceledAt[x] # Contexts!Never \/ first'[x] # Contexts!NoEvent
    BY <1>2, <1>15 DEF CtxInv, CtxTypes
  <2> QED
    BY <1>1, <1>2, <2>1
<1>18. \A m \in made' : first'[m] # Contexts!NoEvent => Touched(m)'
  <2> SUFFICES ASSUME NEW m \in made', first'[m] # Contexts!NoEvent PROVE Touched(m)'
    OBVIOUS
  <2>1. CASE m \in made
    <3>1. Touched(m)
      BY <1>1, <1>2, <1>6, <1>7, <2>1
    <3> QED
      BY <1>1, <1>3, <1>10, <2>1, <3>1 DEF Touched
  <2>2. CASE m = n /\ f[p] # Contexts!NoEvent
    <3>1. Touched(p)
      BY <1>1, <1>6, <2>2
    <3>2. deadline[p] <= clock => dl <= clock
      BY <1>5, <1>8
    <3> QED
      BY <1>1, <1>2, <1>3, <1>10, <2>2, <3>1, <3>2 DEF Touched
  <2>3. CASE m = n /\ f[p] = Contexts!NoEvent
    <3>1. dl <= clock
      BY <1>7, <2>3 DEF ev
    <3> QED
      BY <1>1, <1>3, <2>3, <3>1 DEF Touched
  <2> QED
    BY <1>1, <2>1, <2>2, <2>3
<1>19. waiter'.pc = "done" => first'[waiter'.node] # Contexts!NoEvent \/ waiter'.node \in token'
  <2>1. waiter.node \in made
    BY <1>2 DEF CtxTypes
  <2> QED
    BY <1>1, <1>15, <2>1 DEF CtxInv
<1>20. ASSUME ~stale, NEW m \in made' \ {Contexts!Root} PROVE Agrees(first, m)'
  <2> DEFINE q == Contexts!Parent(m)
  <2> SUFFICES ASSUME deadline'[m] = deadline'[q]
               PROVE  /\ first'[m] # Contexts!NoEvent /\ canceledAt[m] = Contexts!Never =>
                            first'[q] = first'[m]
                      /\ first'[q] # Contexts!NoEvent /\ first'[m] = Contexts!NoEvent =>
                           first'[q].at < deadline'[q] \/ first'[q] = Contexts!Event("deadline", deadline'[q])
    BY <1>1 DEF Agrees, Contexts!Parent, Contexts!Event, Contexts!NoEvent, Contexts!Never
  <2>1. CASE m \in made
    <3>1. q \in On(m) /\ q \in DOMAIN Path
      <4>1. On(m) = On(q) \cup {m} /\ q \in DOMAIN Path
        BY <1>2, <1>20, <2>1, Roots
      <4>2. q \in On(q)
        BY <4>1, Tree DEF On
      <4> QED
        BY <4>1, <4>2
    <3>2. q \in made /\ q # n /\ m # n
      BY <1>1, <1>2, <2>1, <3>1
    <3>3. first'[m] = f[m] /\ first'[q] = f[q] /\ deadline'[m] = deadline[m] /\ deadline'[q] = deadline[q]
      BY <1>2, <1>3, <1>7, <2>1, <3>2
    <3>4. Agrees(f, m)
      BY <1>6, <1>20, <2>1
    <3> QED
      BY <3>3, <3>4 DEF Agrees
  <2>2. CASE m = n
    <3>1. first'[q] = f[p] /\ first'[m] = ev /\ deadline'[q] = deadline[p] /\ deadline'[m] = dl /\ q = p
      BY <1>1, <1>2, <1>3, <1>7, <2>2
    <3>2. f[p] # Contexts!NoEvent => ev = f[p]
      BY DEF ev
    <3>3. f[p] = Contexts!NoEvent => ev = Contexts!NoEvent
      BY <1>6, <3>1 DEF ev
    <3> QED
      BY <3>1, <3>2, <3>3
  <2> QED
    BY <1>1, <2>1, <2>2
<1> QED
    BY <1>1, <1>10, <1>11, <1>12, <1>13, <1>14, <1>16, <1>17, <1>18, <1>19, <1>20 DEF CtxInv

\* Every step of the contexts keeps the invariant.
LEMMA CtxInvNext ==
    ASSUME CtxInv, Contexts!Next
    PROVE  CtxInv'
<1>1. /\ CtxTypes /\ clock \in Nat /\ clock \in 0..clock
      /\ waiter \in [node : made, pc : {"none", "waiting", "done"}]
      /\ look = Contexts!NoLook \/ look \in [node : made, now : 0..clock]
      /\ waiter.pc = "done" => first[waiter.node] # Contexts!NoEvent \/ waiter.node \in token
  <2>1. CtxTypes /\ clock \in 0..MaxTime /\ MaxTime \in Nat
    BY PathAssumption DEF CtxInv, CtxTypes
  <2>2. clock \in Nat /\ clock \in 0..clock
    BY <2>1
  <2> QED
    BY <2>1, <2>2 DEF CtxInv, CtxTypes
<1>2. ASSUME NEW n \in DOMAIN Path, Contexts!Look(n) PROVE CtxInv'
    BY <1>1, <1>2, IdleStep DEF Contexts!Look
<1>3. ASSUME NEW n \in DOMAIN Path, Contexts!Wait(n) PROVE CtxInv'
  <2>1. waiter' \in [node : made, pc : {"none", "waiting", "done"}]
        /\ (waiter'.pc = "done" => first'[waiter'.node] # Contexts!NoEvent)
    BY <1>3 DEF Contexts!Wait
  <2>2. /\ n \in made /\ first' = Contexts!FirstEvent(n, clock)
        /\ UNCHANGED <<clock, made, deadline, canceledAt, token, canceling, cancels, look, stale>>
    BY <1>3 DEF Contexts!Wait
  <2>3. stale' \in BOOLEAN
    BY <1>1, <2>2 DEF CtxTypes
  <2> QED
    BY <1>1, <2>1, <2>2, <2>3, LatchStep
<1>4. CASE Contexts!Observe
  <2>1. look.node \in made /\ look.now \in 0..clock
    BY <1>1, <1>4 DEF Contexts!Observe
  <2>2. /\ first' = Contexts!FirstEvent(look.node, look.now)
        /\ UNCHANGED <<clock, made, deadline, canceledAt, token, canceling, cancels, waiter>>
        /\ look' = Contexts!NoLook /\ stale' = (stale \/ (look.now < clock /\ first' # first))
    BY <1>4 DEF Contexts!Observe
  <2>3. stale' \in BOOLEAN /\ (~stale' => ~stale /\ (look.now = clock \/ first' = first))
    <3>1. look.now = clock \/ look.now < clock
      BY <1>1, <2>1
    <3> QED
      BY <2>2, <3>1, Zenon
  <2>4. waiter'.pc = "done" => first'[waiter'.node] # Contexts!NoEvent \/ waiter'.node \in token
    <3>1. \A m \in DOMAIN Path : first[m] # Contexts!NoEvent => first'[m] = first[m]
      BY <2>1, <2>2, LatchKeeps
    <3>2. waiter.node \in DOMAIN Path
      BY <1>1 DEF CtxTypes
    <3> QED
      BY <1>1, <2>2, <3>1, <3>2
  <2>5. waiter' \in [node : made, pc : {"none", "waiting", "done"}]
    BY <1>1, <2>2
  <2> QED
    BY <2>1, <2>2, <2>3, <2>4, <2>5, LatchStep
<1>5. CASE Contexts!WakeToken
  <2>1. waiter' \in [node : made, pc : {"none", "waiting", "done"}] /\ waiter'.node = waiter.node
    BY <1>1, <1>5 DEF Contexts!WakeToken
  <2> QED
    BY <1>1, <1>5, <2>1, IdleStep DEF Contexts!WakeToken
<1>6. CASE Contexts!WakeTimer
  <2>1. waiter' \in [node : made, pc : {"none", "waiting", "done"}] /\ waiter'.node = waiter.node
    BY <1>1, <1>6 DEF Contexts!WakeTimer
  <2>2. /\ first' = Contexts!FirstEvent(waiter.node, clock) /\ deadline[waiter.node] <= clock
        /\ UNCHANGED <<clock, made, deadline, canceledAt, token, canceling, cancels, look, stale>>
    BY <1>6 DEF Contexts!WakeTimer
  <2>3. waiter.node \in made
    BY <1>1
  <2>4. first'[waiter.node] # Contexts!NoEvent
    BY <1>1, <2>2, <2>3, LatchKeeps
  <2>5. stale' \in BOOLEAN
    BY <1>1, <2>2 DEF CtxTypes
  <2> QED
    BY <1>1, <2>1, <2>2, <2>3, <2>4, <2>5, LatchStep
<1>7. CASE Contexts!Finished
    BY <1>1, <1>7, IdleStep DEF Contexts!Finished, Contexts!vars
<1> QED
    BY <1>2, <1>3, <1>4, <1>5, <1>6, <1>7, TickStep, MakeStep, CancelStep, CancelTokenStep
       DEF Contexts!Next, Contexts!Nodes

\* What a node knows, or could know from a parent that has ended, comes out
\* when it is asked.
LEMMA CtxInvAgrees ==
    ASSUME CtxInv
    PROVE  ContextsAgree
<1>1. CtxTypes /\ made \subseteq DOMAIN Path /\ clock \in Nat /\ clock \in 0..clock /\ MaxTime \in Nat
  <2>1. CtxTypes /\ made \subseteq DOMAIN Path /\ clock \in 0..MaxTime /\ MaxTime \in Nat
    BY PathAssumption DEF CtxInv, CtxTypes
  <2>2. clock \in Nat /\ clock \in 0..clock
    BY <2>1
  <2> QED
    BY <2>1, <2>2
<1>2. ASSUME NEW n \in made, n \in token \/ deadline[n] <= clock \/ first[n] # Contexts!NoEvent
      PROVE  Contexts!Err(n) # Contexts!NoEvent
  <2>1. n \in DOMAIN Path /\ n \in On(n)
    BY <1>1, Tree DEF On
  <2>2. /\ \A m \in DOMAIN Path : first[m] # Contexts!NoEvent => Contexts!FirstEvent(n, clock)[m] = first[m]
        /\ n \in token \/ deadline[n] <= clock =>
            ((\E x \in On(n) : EndsAt(x, clock)) => Contexts!FirstEvent(n, clock)[n] # Contexts!NoEvent)
    BY <1>1, <2>1, FirstEventSays
  <2>3. n \in token \/ deadline[n] <= clock => \E x \in On(n) : EndsAt(x, clock)
    BY <2>1 DEF CtxInv, EndsAt
  <2> QED
    BY <1>2, <2>1, <2>2, <2>3 DEF Contexts!Err
<1>3. Contexts!TypeOK
  <2>1. canceledAt \in [DOMAIN Path -> 0..Contexts!Never]
    <3>1. (0..clock) \cup {Contexts!Never} \subseteq 0..Contexts!Never
      BY <1>1 DEF CtxTypes, Contexts!Never
    <3> QED
      BY <1>1, <3>1 DEF CtxTypes
  <2>2. \A n \in DOMAIN Path : first[n] = Contexts!NoEvent \/ first[n].err \in {"canceled", "deadline"}
    BY <1>1 DEF CtxTypes, Latches
  <2> QED
    BY <1>1, <2>1, <2>2 DEF CtxTypes, Contexts!TypeOK, Contexts!Nodes
<1>4. Contexts!DoneMeansErr
  <2>1. waiter.node \in made
    BY <1>1 DEF CtxTypes
  <2> QED
    BY <1>2, <1>3, <2>1 DEF CtxInv, Contexts!DoneMeansErr
<1>5. ASSUME NEW n \in made \ {Contexts!Root}
      PROVE  /\ first[Contexts!Parent(n)] # Contexts!NoEvent =>
                  Contexts!Err(n) # Contexts!NoEvent \/ Contexts!BeingCanceled(n)
             /\ first[n] # Contexts!NoEvent /\ canceledAt[n] = Contexts!Never
                  /\ deadline[n] = deadline[Contexts!Parent(n)] /\ ~stale
                  => first[Contexts!Parent(n)] = first[n]
  <2> DEFINE p == Contexts!Parent(n)
  <2>1. n \in DOMAIN Path /\ p \in DOMAIN Path /\ On(n) = On(p) \cup {n} /\ p \in On(p)
    <3>1. n \in DOMAIN Path /\ p \in DOMAIN Path /\ On(n) = On(p) \cup {n}
      BY <1>1, <1>5, Roots
    <3>2. p \in On(p)
      BY <3>1, Tree DEF On
    <3> QED
      BY <3>1, <3>2
  <2>2. ASSUME first[p] # Contexts!NoEvent
        PROVE  Contexts!Err(n) # Contexts!NoEvent \/ Contexts!BeingCanceled(n)
    <3>1. Touched(n)
      BY <1>1, <2>1, <2>2, EndsTouch DEF EndsAt
    <3>2. (\E x \in On(n) : x \in canceling) => Contexts!BeingCanceled(n)
      BY DEF On, Contexts!BeingCanceled
    <3> QED
      BY <1>2, <3>1, <3>2 DEF Touched
  <2>3. ~stale => Agrees(first, n)
    BY <1>5 DEF CtxInv
  <2> QED
    BY <2>2, <2>3 DEF Agrees
<1> QED
    BY <1>4, <1>5 DEF ContextsAgree, Contexts!ChildFollowsParent

\* A done context has its reason, and a child says what its parent says, in every
\* tree of contexts (done, err, with_timeout and cancel of crates/gocompat/src/
\* ctx.rs): ContextsAgree always holds.
THEOREM GetContextsAgree == AnySpec => []ContextsAgree
<1>1. AnyInit => CtxInv
    BY CtxInvInit DEF AnyInit
<1>2. CtxInv /\ [AnyNext]_<<part, vars, ctxVars>> => CtxInv'
  <2> SUFFICES ASSUME CtxInv, [AnyNext]_<<part, vars, ctxVars>> PROVE CtxInv'
    OBVIOUS
  <2>1. CASE Contexts!Next
    BY <2>1, CtxInvNext
  <2>2. CASE UNCHANGED ctxVars
    <3>1. UNCHANGED <<clock, made, deadline, canceledAt, token, first, canceling, cancels, waiter,
                      look, stale>>
      BY <2>2 DEF ctxVars
    <3>2. /\ waiter \in [node : made, pc : {"none", "waiting", "done"}]
          /\ look = Contexts!NoLook \/ look \in [node : made, now : 0..clock]
          /\ waiter.pc = "done" => first[waiter.node] # Contexts!NoEvent \/ waiter.node \in token
      BY DEF CtxInv, CtxTypes
    <3> QED
      BY <3>1, <3>2, IdleStep
  <2> QED
    BY <2>1, <2>2 DEF AnyNext
<1>3. CtxInv => ContextsAgree
    BY CtxInvAgrees
<1> QED
    BY <1>1, <1>2, <1>3, PTL DEF AnySpec
=============================================================================
