--------------------------- MODULE PullTreeProofs ---------------------------
(***************************************************************************)
(* For every tree, store, set of held and of malformed objects, and every  *)
(* size of the results channel: a walk that reaches the gate has stored    *)
(* everything below the root and fetched what was missing, each object     *)
(* once, and a pull whose store failed to write does not return well.      *)
(***************************************************************************)
EXTENDS PullTree, FiniteSetTheorems, TLAPS

\* What a tree is: finitely many objects, the root and all children among them.
IsTree == IsFiniteSet(Keys) /\ Root \in Keys /\ Kids \in [Keys -> SUBSET Keys]

\* pull_tree_run has not returned.
Active == pc \in {"start", "want", "loop", "write", "close", "join", "gate"}

\* The keys whose outcome the walk has, the one in hand, and those it waits
\* for or works on: what `pending` counts.
Came == {f.key : f \in received}
InHand == IF pc \in {"write", "want"} THEN {cur} ELSE {}
Waited == queue \cup (given \ Came) \cup InHand

Types ==
    /\ store \subseteq Keys /\ first \subseteq store /\ malformed \subseteq Fragile
    /\ pc \in {"start", "want", "loop", "write", "close", "join", "gate",
               "stop", "stopping", "leaving", "returned"}
    /\ todo \subseteq Keys /\ queue \subseteq seen /\ seen \subseteq Keys
    /\ cur \in Keys \cup {None}
    /\ pending \in 0..Cardinality(Keys)
    /\ wtask \in {"recv", "write", "fail", "done"}
    /\ writing \subseteq Keys /\ batch \subseteq Keys
    /\ given \subseteq seen
    /\ chan = {} \/ \E b \in SUBSET Keys : chan = {b}

\* Each key is given once and answered once.
Outcomes ==
    /\ Came \subseteq given
    /\ \A f \in results : f.key \in given \ Came
    /\ \A f, g \in results : f.key = g.key => f = g

\* What is on its way to the store was received; the store holds nothing else
\* that it did not hold at first.
OnItsWay == batch \cup (UNION chan) \cup writing
Moves == OnItsWay \subseteq Came /\ store \subseteq first \cup Came

\* The end of the writer task.
WriterDone ==
    /\ pc \in {"start", "want", "loop", "write", "close"} => open
    /\ pc \in {"join", "gate", "stopping", "leaving", "returned"} => ~open
    /\ writing # {} => wtask = "write"
    /\ wtask = "done" => ~open /\ chan = {}
    /\ pc \in {"join", "gate"} => batch = {}
    /\ pc = "gate" => wtask = "done"

\* The walk so far: what it has seen is below the root, held or asked for; the
\* children of what it is through with are seen or to do, or the subtree was
\* complete already.
Settled(k) == Below(k) \subseteq first \cup given /\ Below(k) \cap malformed = {}

Walked ==
    /\ seen \subseteq Below(Root) /\ todo \subseteq Below(Root)
    /\ Root \in seen \cup todo
    /\ pc \notin {"start", "want"} => todo = {}
    /\ queue \cap given = {}
    /\ pc \in {"write", "want"} => cur \in Came
    /\ \A k \in seen : k \in queue \cup given \cup (first \ malformed)
    /\ \A k \in seen : \/ k \in queue \cup (given \ Came)
                       \/ pc = "write" /\ k = cur
                       \/ Kids[k] \subseteq seen \cup todo
                       \/ Settled(k)
    /\ \A k \in queue \cup given : k \notin first \/ k \in malformed
    /\ \A k \in Came : k \in malformed => pc = "write" /\ k = cur

\* While there was no error, what was received is stored or on its way.
Kept == ~err /\ res = None => Came \subseteq store \cup OnItsWay

\* An error is in its slot, or has been returned.
Errors ==
    /\ failed \/ wtask = "fail" => err \/ res # None
    /\ Active /\ pc # "join" => res = None
    /\ pc \in {"close", "join"} /\ pending > 0 => failed
    /\ pc = "gate" => ~err /\ pending = 0
    /\ pc = "join" => res \in {None, "write"}
    /\ ~Active => res # None
    /\ res = "ok" => ~failed /\ wtask = "done" /\ Complete(Root)

IInv ==
    /\ Types
    /\ Outcomes
    /\ Moves
    /\ WriterDone
    /\ Active => pending = Cardinality(Waited) /\ Walked /\ Kept
    /\ Errors

-----------------------------------------------------------------------------
\* Below(k) holds k and the children of what it holds, and is the least such.
LEMMA BelowIsLeast ==
    ASSUME IsTree, NEW k \in Keys
    PROVE  /\ k \in Below(k) /\ Below(k) \subseteq Keys
           /\ \A j \in Below(k) : Kids[j] \subseteq Below(k)
           /\ \A S \in SUBSET Keys : k \in S /\ HoldsKids(S) => Below(k) \subseteq S
<1>1. ASSUME NEW j \in Below(k), NEW i \in Kids[j] PROVE i \in Below(k)
  <2>1. j \in Keys /\ i \in Keys
    BY DEF Below, IsTree
  <2>2. ASSUME NEW S \in SUBSET Keys, k \in S, HoldsKids(S) PROVE i \in S
    BY <2>2 DEF Below, HoldsKids
  <2> QED
    BY <2>1, <2>2 DEF Below
<1> QED
    BY <1>1 DEF Below

\* What is below a key that is below k is below k.
LEMMA BelowBelow ==
    ASSUME IsTree, NEW k \in Keys, NEW j \in Below(k)
    PROVE  Below(j) \subseteq Below(k)
<1>1. j \in Keys /\ Below(k) \in SUBSET Keys /\ HoldsKids(Below(k))
    BY BelowIsLeast DEF HoldsKids
<1> QED
    BY <1>1, BelowIsLeast

LEMMA InitIInv == IsTree /\ Init => IInv
<1> SUFFICES ASSUME IsTree, Init PROVE IInv
    OBVIOUS
<1> USE DEF Init, Fetch!Init, IsTree
<1>1. Cardinality(Keys) \in Nat
    BY FS_CardinalityType
<1>2. Types /\ Outcomes /\ Moves
    BY <1>1 DEF Types, Outcomes, Moves, OnItsWay, Came
<1>3. WriterDone /\ Errors
    BY DEF WriterDone, Errors, Active, None
<1>4. pending = Cardinality(Waited)
    BY FS_EmptySet DEF Waited, InHand, Came
<1>5. Walked
    BY BelowIsLeast DEF Walked, Came
<1>6. Kept
    BY DEF Kept, Came
<1> QED
    BY <1>2, <1>3, <1>4, <1>5, <1>6 DEF IInv

-----------------------------------------------------------------------------
\* The actions, each with all it leaves unchanged.
FetchAct == Fetch!Accept \/ Fetch!Answer \/ Fetch!Hang \/ Fetch!End \/ Fetch!Stop

LEMMA NextCases ==
    ASSUME [Next]_vars
    PROVE  \/ Want
           \/ SendKey \/ SendRefused \/ Recv \/ RecvEnd \/ WriterFailed \/ CtxDone \/ LoopDone
           \/ LocalWriter \/ Gate \/ StopWriter \/ StopFetcher \/ Leave
           \/ TakeBatch \/ StoreOne \/ BatchStored \/ StoreFails \/ CancelFailed \/ WriterEnds
           \/ FetchAct /\ UNCHANGED <<walkVars, writerVars, constVars, chan, open, err>>
           \/ UNCHANGED vars
    BY DEF Next, Walk, Writer, FetcherStep, Cancel, Finished, FetchAct

\* The outcome taken from the results is the one received.
LEMMA Received ==
    ASSUME NEW f \in results, Fetch!Receive, results' = results \ {f}
    PROVE  received' = received \cup {f} /\ UNCHANGED <<given, room, closed, stopped, hung, over>>
    BY DEF Fetch!Receive

LEMMA CardKeys ==
    ASSUME IsTree
    PROVE  /\ Cardinality(Keys) \in Nat
           /\ \A S \in SUBSET Keys : Cardinality(S) \in 0..Cardinality(Keys)
           /\ \A S \in SUBSET Keys : Cardinality(S) = 0 => S = {}
<1>1. Cardinality(Keys) \in Nat
    BY FS_CardinalityType DEF IsTree
<1>2. ASSUME NEW S \in SUBSET Keys
      PROVE  IsFiniteSet(S) /\ Cardinality(S) \in Nat /\ Cardinality(S) <= Cardinality(Keys)
    BY FS_Subset, FS_CardinalityType DEF IsTree
<1> QED
    BY <1>1, <1>2, FS_EmptySet

\* What the walk waits for is among the keys it has seen.
LEMMA WaitedSeen ==
    ASSUME IsTree, IInv, Active
    PROVE  /\ Waited \subseteq seen /\ (pc \in {"write", "want"} => cur \in seen)
           /\ IsFiniteSet(Waited)
<1>1. Waited \subseteq seen /\ (pc \in {"write", "want"} => cur \in seen)
    BY DEF IInv, Types, Outcomes, Walked, Waited, InHand
<1>2. Waited \in SUBSET Keys
    BY <1>1 DEF IInv, Types
<1>3. IsFiniteSet(Waited)
    BY <1>2, FS_Subset DEF IsTree
<1> QED
    BY <1>1, <1>3

\* An outcome is received: a record goes to the batch, a missing key ends the walk.
LEMMA RecvCases ==
    ASSUME IInv, Recv
    PROVE  \E f \in results :
            /\ received' = received \cup {f} /\ results' = results \ {f}
            /\ Came' = Came \cup {f.key} /\ f.key \in given \ Came
            /\ pc = "loop" /\ pending > 0
            /\ UNCHANGED <<given, writerVars, constVars, chan, open, err, todo, seen, queue, pending>>
            /\ \/ pc' = "write" /\ cur' = f.key /\ batch' = batch \cup {f.key} /\ res' = res
               \/ pc' = "stop" /\ res' = "not found" /\ UNCHANGED <<batch, cur>>
<1>1. PICK f \in results :
        /\ Fetch!Receive /\ results' = results \ {f}
        /\ IF f.found
           THEN /\ pc' = "write" /\ cur' = f.key
                /\ batch' = batch \cup {f.key}
                /\ UNCHANGED <<res, todo, seen, queue, pending>>
           ELSE Return("not found") /\ UNCHANGED batch
    BY DEF Recv
<1>2. received' = received \cup {f} /\ given' = given
    BY <1>1, Received
<1>3. f.key \in given \ Came
    BY DEF IInv, Outcomes
<1>4. Came' = Came \cup {f.key}
    BY <1>2 DEF Came
<1>5. /\ pc = "loop" /\ pending > 0
      /\ UNCHANGED <<writerVars, constVars, chan, open, err>>
    BY DEF Recv, Looping
<1>6. /\ UNCHANGED <<todo, seen, queue, pending>>
      /\ \/ pc' = "write" /\ cur' = f.key /\ batch' = batch \cup {f.key} /\ res' = res
         \/ pc' = "stop" /\ res' = "not found" /\ UNCHANGED <<batch, cur>>
    BY <1>1 DEF Return
<1> QED
    BY <1>1, <1>2, <1>3, <1>4, <1>5, <1>6

\* pending, action by action.
LEMMA PendingStep ==
    ASSUME IsTree, IInv, [Next]_vars, Active'
    PROVE  pending' = Cardinality(Waited')
<1> USE DEF walkVars, writerVars, constVars, fetchVars
<1>1. ASSUME Active, Waited' = Waited, pending' = pending PROVE pending' = Cardinality(Waited')
    BY <1>1 DEF IInv
<1>2. CASE Want
  <2>1. Active /\ given' = given /\ Came' = Came
    BY <1>2 DEF Want, WantDone, WantSeen, WantHeld, WantMissing, Wanting, Active, Came
  <2>2. ASSUME NEW k \in todo, WantSeen(k) \/ WantHeld(k) PROVE pending' = Cardinality(Waited')
    BY <1>1, <2>1, <2>2 DEF WantSeen, WantHeld, Waited, InHand
  <2>3. ASSUME NEW k \in todo, WantMissing(k) PROVE pending' = Cardinality(Waited')
    <3>1. Waited' = Waited \cup {k}
      BY <2>1, <2>3 DEF WantMissing, Waited, InHand
    <3>2. k \notin Waited /\ IsFiniteSet(Waited)
      BY <2>1, <2>3, WaitedSeen DEF WantMissing
    <3>3. Cardinality(Waited \cup {k}) = Cardinality(Waited) + 1
      BY <3>2, FS_AddElement
    <3> QED
      BY <2>1, <2>3, <3>1, <3>3 DEF WantMissing, IInv
  <2>4. CASE WantDone /\ pc = "start"
    BY <1>1, <2>1, <2>4 DEF WantDone, Waited, InHand
  <2>5. CASE WantDone /\ pc = "want"
    <3>1. Waited' = Waited \ {cur} /\ cur \in Waited
      BY <2>1, <2>5 DEF WantDone, Waited, InHand, IInv, Walked, Outcomes
    <3>2. IsFiniteSet(Waited)
      BY <2>1, WaitedSeen
    <3>3. Cardinality(Waited \ {cur}) = Cardinality(Waited) - 1
      BY <3>1, <3>2, FS_RemoveElement
    <3> QED
      BY <2>1, <2>5, <3>1, <3>3 DEF WantDone, IInv
  <2> QED
    BY <1>2, <2>2, <2>3, <2>4, <2>5 DEF Want, WantDone, Wanting
<1>3. CASE SendKey
    BY <1>1, <1>3 DEF SendKey, Looping, Fetch!Give, Active, Waited, InHand, Came, IInv, Types, Outcomes
<1>4. CASE Recv
    BY <1>1, <1>4, RecvCases DEF Waited, InHand, Active
<1>5. CASE SendRefused \/ WriterFailed \/ LoopDone
    BY <1>1, <1>5 DEF SendRefused, Fetch!Close, WriterFailed, LoopDone, Looping, Active, Waited,
       InHand, Came
<1>6. CASE RecvEnd \/ CtxDone \/ Gate
    BY <1>6 DEF RecvEnd, CtxDone, Gate, Return, Active
<1>7. CASE StopWriter \/ StopFetcher \/ Leave
    BY <1>7 DEF StopWriter, StopFetcher, Leave, Active
<1>8. CASE LocalWriter
    BY <1>1, <1>8 DEF LocalWriter, WriteBuffers, WriteFlushes, WriteFails, CloseFlushes, CloseFails,
                      CloseReturns, Written, Return, Active, Waited, InHand, Came
<1>9. CASE TakeBatch \/ StoreOne \/ BatchStored \/ StoreFails \/ CancelFailed \/ WriterEnds \/ UNCHANGED vars
    BY <1>1, <1>9 DEF TakeBatch, StoreOne, BatchStored, StoreFails, CancelFailed, WriterEnds, vars,
                      Active, Waited, InHand, Came
<1>10. CASE FetchAct /\ UNCHANGED <<walkVars, writerVars, constVars, chan, open, err>>
    BY <1>1, <1>10 DEF FetchAct, Fetch!Accept, Fetch!Answer, Fetch!Hang, Fetch!End, Fetch!Stop, Active,
       Waited, InHand,
                       Came
<1> QED
    BY <1>2, <1>3, <1>4, <1>5, <1>6, <1>7, <1>8, <1>9, <1>10, NextCases

\* The types.
LEMMA TypesStep ==
    ASSUME IsTree, IInv, [Next]_vars
    PROVE  Types'
<1> USE DEF walkVars, writerVars, constVars, fetchVars, IInv
<1>1. CASE Want
  <2>1. CASE WantDone
    <3>1. pending' \in 0..Cardinality(Keys)
      <4>1. Active'
        BY <2>1 DEF WantDone, Active
      <4>2. Waited' \in SUBSET Keys
        BY <1>1, <2>1 DEF Want, WantDone, Waited, InHand, Came, Types
      <4> QED
        BY <4>1, <4>2, PendingStep, CardKeys
    <3> QED
      BY <1>1, <2>1, <3>1 DEF Want, WantDone, Types
  <2>2. ASSUME NEW k \in todo, WantSeen(k) \/ WantHeld(k) PROVE Types'
    BY <1>1, <2>2 DEF Want, WantSeen, WantHeld, Types, IsTree
  <2>3. ASSUME NEW k \in todo, WantMissing(k) PROVE Types'
    <3>1. pending' \in 0..Cardinality(Keys)
      <4>1. Active'
        BY <2>3 DEF WantMissing, Wanting, Active
      <4>2. Waited' \in SUBSET Keys
        <5>1. Active
          BY <2>3 DEF WantMissing, Wanting, Active
        <5>2. Waited' = Waited \cup {k} /\ k \in Keys
          BY <1>1, <2>3 DEF Want, WantMissing, Waited, InHand, Came, Types
        <5> QED
          BY <5>1, <5>2, WaitedSeen DEF Types
      <4> QED
        BY <4>1, <4>2, PendingStep, CardKeys
    <3> QED
      BY <1>1, <2>3, <3>1 DEF Want, WantMissing, Types
  <2> QED
    BY <1>1, <2>1, <2>2, <2>3 DEF Want
<1>2. CASE SendKey
    BY <1>2 DEF SendKey, Fetch!Give, Types
<1>3. CASE Recv
    BY <1>3, RecvCases DEF Types
<1>4. CASE SendRefused \/ WriterFailed \/ LoopDone \/ RecvEnd \/ CtxDone \/ Gate
    BY <1>4 DEF SendRefused, Fetch!Close, WriterFailed, LoopDone, RecvEnd, CtxDone, Gate, Return, Types
<1>5. CASE StopWriter \/ StopFetcher \/ Leave
    BY <1>5 DEF StopWriter, StopFetcher, Leave, Types
<1>6. CASE LocalWriter
  <2>1. pc = "write" => cur \in Keys
    BY WaitedSeen DEF Types, Active
  <2>2. CASE WriteBuffers \/ WriteFlushes
    BY <1>6, <2>1, <2>2 DEF LocalWriter, WriteBuffers, WriteFlushes, Written, Return, Types, IsTree
  <2>3. CASE WriteFails \/ CloseFlushes \/ CloseFails \/ CloseReturns
    BY <1>6, <2>3 DEF LocalWriter, WriteFails, CloseFlushes, CloseFails, CloseReturns, Return, Types
  <2> QED
    BY <1>6, <2>2, <2>3 DEF LocalWriter
<1>7. CASE TakeBatch \/ StoreOne \/ BatchStored \/ StoreFails \/ CancelFailed \/ WriterEnds \/ UNCHANGED vars
    BY <1>7 DEF TakeBatch, StoreOne, BatchStored, StoreFails, CancelFailed, WriterEnds, vars, Types
<1>8. CASE FetchAct /\ UNCHANGED <<walkVars, writerVars, constVars, chan, open, err>>
    BY <1>8 DEF FetchAct, Fetch!Accept, Fetch!Answer, Fetch!Hang, Fetch!End, Fetch!Stop, Types
<1> QED
    BY <1>1, <1>2, <1>3, <1>4, <1>5, <1>6, <1>7, <1>8, NextCases

\* One outcome for each key that was given.
LEMMA OutcomesStep ==
    ASSUME IInv, [Next]_vars
    PROVE  Outcomes'
<1> USE DEF walkVars, writerVars, constVars, fetchVars, IInv
<1>1. CASE UNCHANGED <<given, results, received>>
    BY <1>1 DEF Outcomes, Came
<1>2. CASE SendKey
    BY <1>2 DEF SendKey, Fetch!Give, Outcomes, Came
<1>3. CASE Recv
  <2>1. PICK f \in results : /\ results' = results \ {f} /\ Came' = Came \cup {f.key}
                             /\ f.key \in given \ Came /\ given' = given
    BY <1>3, RecvCases
  <2> QED
    BY <2>1 DEF Outcomes
<1>4. CASE Fetch!Answer
  <2>1. PICK k \in given \ Fetch!Answered, found \in BOOLEAN :
            results' = results \cup {Fetch!Outcome(k, found)} /\ given' = given /\ received' = received
    BY <1>4 DEF Fetch!Answer
  <2>2. k \notin Came /\ \A f \in results : f.key # k
    BY <2>1 DEF Fetch!Answered, Came
  <2>3. Fetch!Outcome(k, found).key = k /\ Came' = Came
    BY <2>1 DEF Fetch!Outcome, Came
  <2> QED
    BY <2>1, <2>2, <2>3 DEF Outcomes
<1>5. CASE Fetch!Accept \/ Fetch!Hang \/ Fetch!End \/ Fetch!Stop \/ SendRefused
    BY <1>1, <1>5 DEF Fetch!Accept, Fetch!Hang, Fetch!End, Fetch!Stop, SendRefused, Fetch!Close
<1>6. CASE Want \/ LocalWriter \/ UNCHANGED vars
    BY <1>1, <1>6 DEF Want, LocalWriter, vars
<1>7. CASE RecvEnd \/ WriterFailed \/ CtxDone \/ LoopDone \/ Gate \/ StopWriter \/ StopFetcher \/ Leave
    BY <1>1, <1>7 DEF RecvEnd, WriterFailed, CtxDone, LoopDone, Gate, StopWriter, StopFetcher, Leave
<1>8. CASE TakeBatch \/ StoreOne \/ BatchStored \/ StoreFails \/ CancelFailed \/ WriterEnds
    BY <1>1, <1>8 DEF TakeBatch, StoreOne, BatchStored, StoreFails, CancelFailed, WriterEnds
<1> QED
    BY <1>2, <1>3, <1>4, <1>5, <1>6, <1>7, <1>8, NextCases DEF FetchAct

\* Records move from the batch over the channel and the writer to the store.
LEMMA MovesStep ==
    ASSUME IInv, [Next]_vars
    PROVE  Moves'
<1> USE DEF walkVars, writerVars, constVars, fetchVars, IInv
<1>1. CASE UNCHANGED <<batch, chan, writing, store, first, received>>
    BY <1>1 DEF Moves, OnItsWay, Came
<1>2. CASE Recv
    BY <1>2, RecvCases DEF Moves, OnItsWay
<1>3. CASE LocalWriter
  <2>1. UNCHANGED <<store, first, writing, received>>
    BY <1>3 DEF LocalWriter
  <2>2. batch' \cup (UNION chan') \subseteq batch \cup (UNION chan)
    BY <1>3 DEF LocalWriter, WriteBuffers, WriteFlushes, WriteFails, CloseFlushes, CloseFails,
                CloseReturns
  <2> QED
    BY <2>1, <2>2 DEF Moves, OnItsWay, Came
<1>4. CASE TakeBatch \/ StoreOne \/ StoreFails
  <2>1. UNCHANGED <<batch, first, received>>
    BY <1>4 DEF TakeBatch, StoreOne, StoreFails
  <2>2. /\ (UNION chan') \cup writing' \subseteq (UNION chan) \cup writing
        /\ store' \subseteq store \cup writing
    <3>1. CASE TakeBatch
      BY <3>1 DEF TakeBatch
    <3>2. CASE StoreOne
      BY <3>2 DEF StoreOne
    <3>3. CASE StoreFails
      BY <3>3 DEF StoreFails
    <3> QED
      BY <1>4, <3>1, <3>2, <3>3
  <2> QED
    BY <2>1, <2>2 DEF Moves, OnItsWay, Came
<1>5. CASE BatchStored \/ CancelFailed \/ WriterEnds \/ UNCHANGED vars
    BY <1>1, <1>5 DEF BatchStored, CancelFailed, WriterEnds, vars
<1>6. CASE Want
    BY <1>1, <1>6 DEF Want, WantDone, WantSeen, WantHeld, WantMissing
<1>7. CASE SendKey \/ SendRefused \/ RecvEnd \/ WriterFailed \/ CtxDone \/ LoopDone \/ Gate
    BY <1>1, <1>7 DEF SendKey, SendRefused, Fetch!Give, Fetch!Close, RecvEnd, WriterFailed, CtxDone,
       LoopDone, Gate
<1>8. CASE StopWriter \/ StopFetcher \/ Leave
    BY <1>1, <1>8 DEF StopWriter, StopFetcher, Leave
<1>9. CASE FetchAct /\ UNCHANGED <<walkVars, writerVars, constVars, chan, open, err>>
    BY <1>1, <1>9 DEF FetchAct, Fetch!Accept, Fetch!Answer, Fetch!Hang, Fetch!End, Fetch!Stop
<1> QED
    BY <1>2, <1>3, <1>4, <1>5, <1>6, <1>7, <1>8, <1>9, NextCases

\* The writer ends only after the walk has dropped its channel.
LEMMA WriterDoneStep ==
    ASSUME IInv, [Next]_vars
    PROVE  WriterDone'
<1> USE DEF walkVars, writerVars, constVars, fetchVars, IInv
<1>1. CASE UNCHANGED <<pc, open, wtask, writing, batch, chan>>
    BY <1>1 DEF WriterDone
<1>2. CASE Want
    BY <1>2 DEF Want, WantDone, WantSeen, WantHeld, WantMissing, Wanting, WriterDone
<1>3. CASE SendKey \/ SendRefused
    BY <1>1, <1>3 DEF SendKey, SendRefused, Fetch!Give, Fetch!Close
<1>4. CASE Recv
    BY <1>4, RecvCases DEF WriterDone
<1>5. CASE RecvEnd \/ WriterFailed \/ CtxDone \/ LoopDone
    BY <1>5 DEF RecvEnd, WriterFailed, CtxDone, LoopDone, Looping, Return, WriterDone
<1>6. CASE Gate \/ StopWriter \/ StopFetcher \/ Leave
    BY <1>6 DEF Gate, StopWriter, StopFetcher, Leave, Return, WriterDone
<1>7. CASE LocalWriter
  <2>1. CASE WriteBuffers \/ WriteFlushes \/ WriteFails
    BY <1>7, <2>1 DEF LocalWriter, WriteBuffers, WriteFlushes, WriteFails, Written, Return, WriterDone
  <2>2. CASE CloseFlushes \/ CloseFails \/ CloseReturns
    BY <1>7, <2>2 DEF LocalWriter, CloseFlushes, CloseFails, CloseReturns, WriterDone
  <2> QED
    BY <1>7, <2>1, <2>2 DEF LocalWriter
<1>8. CASE TakeBatch \/ StoreOne \/ BatchStored \/ StoreFails \/ CancelFailed \/ WriterEnds
    BY <1>8 DEF TakeBatch, StoreOne, BatchStored, StoreFails, CancelFailed, WriterEnds, WriterDone
<1>9. CASE FetchAct /\ UNCHANGED <<walkVars, writerVars, constVars, chan, open, err>>
    BY <1>1, <1>9
<1>10. CASE UNCHANGED vars
    BY <1>1, <1>10 DEF vars
<1> QED
    BY <1>2, <1>3, <1>4, <1>5, <1>6, <1>7, <1>8, <1>9, <1>10, NextCases

\* What was received is not lost without an error.
LEMMA KeptStep ==
    ASSUME IInv, [Next]_vars, Active'
    PROVE  Kept'
<1> USE DEF walkVars, writerVars, constVars, fetchVars
<1>1. Active => Kept
    BY DEF IInv
<1>2. CASE Active /\ UNCHANGED <<received, store, batch, chan, writing, err, res>>
    BY <1>1, <1>2 DEF Kept, OnItsWay, Came
<1>3. CASE Recv
    BY <1>1, <1>3, RecvCases DEF Kept, OnItsWay, Active
<1>4. CASE Want
    BY <1>2, <1>4 DEF Want, WantDone, WantSeen, WantHeld, WantMissing, Wanting, Active
<1>5. CASE SendKey \/ SendRefused \/ WriterFailed \/ LoopDone
    BY <1>2, <1>5 DEF SendKey, SendRefused, Fetch!Give, Fetch!Close, WriterFailed, LoopDone, Looping,
       Active
<1>6. CASE RecvEnd \/ CtxDone \/ Gate \/ StopWriter \/ StopFetcher \/ Leave
    BY <1>6 DEF RecvEnd, CtxDone, Gate, StopWriter, StopFetcher, Leave, Return, Active
<1>7. CASE LocalWriter
  <2>1. Active /\ UNCHANGED <<received, store, writing>>
    BY <1>7 DEF LocalWriter, WriteBuffers, WriteFlushes, WriteFails, CloseFlushes, CloseFails,
                CloseReturns, Active
  <2>2. CASE WriteBuffers \/ WriteFlushes
    <3>1. batch \cup (UNION chan) \subseteq batch' \cup (UNION chan') /\ err' = err /\ res' = res
      BY <1>7, <2>2 DEF WriteBuffers, WriteFlushes, Written, Return, Active
    <3> QED
      BY <1>1, <2>1, <3>1 DEF Kept, OnItsWay, Came
  <2>3. CASE CloseFlushes
    <3>1. batch \cup (UNION chan) \subseteq batch' \cup (UNION chan') /\ err' = err /\ res' = res
      BY <2>3 DEF CloseFlushes
    <3> QED
      BY <1>1, <2>1, <3>1 DEF Kept, OnItsWay, Came
  <2>4. CASE WriteFails \/ CloseFails
    BY <2>4 DEF WriteFails, CloseFails, Return, Active, Kept, None
  <2>5. CASE CloseReturns
    <3>1. UNCHANGED <<res, batch, chan>> /\ ~err /\ ~err'
      BY <2>5 DEF CloseReturns, Active
    <3> QED
      BY <1>1, <2>1, <3>1 DEF Kept, OnItsWay, Came
  <2> QED
    BY <1>7, <2>2, <2>3, <2>4, <2>5 DEF LocalWriter
<1>8. CASE TakeBatch \/ StoreOne \/ StoreFails
  <2>1. Active /\ UNCHANGED <<received, batch, res>>
    BY <1>8 DEF TakeBatch, StoreOne, StoreFails, Active
  <2>2. ~err' => /\ ~err
                 /\ store \cup (UNION chan) \cup writing \subseteq store' \cup (UNION chan') \cup writing'
    <3>1. CASE TakeBatch
      <4>1. wtask = "recv" /\ writing = {}
        BY <3>1 DEF TakeBatch, IInv, WriterDone
      <4> QED
        BY <3>1, <4>1 DEF TakeBatch
    <3>2. CASE StoreOne
      BY <3>2 DEF StoreOne
    <3>3. CASE StoreFails
      BY <3>3 DEF StoreFails
    <3> QED
      BY <1>8, <3>1, <3>2, <3>3
  <2> QED
    BY <1>1, <2>1, <2>2 DEF Kept, OnItsWay, Came
<1>9. CASE BatchStored \/ CancelFailed \/ WriterEnds \/ UNCHANGED vars
    BY <1>2, <1>9 DEF BatchStored, CancelFailed, WriterEnds, vars, Active
<1>10. CASE FetchAct /\ UNCHANGED <<walkVars, writerVars, constVars, chan, open, err>>
    BY <1>2, <1>10 DEF FetchAct, Fetch!Accept, Fetch!Answer, Fetch!Hang, Fetch!End, Fetch!Stop, Active
<1> QED
    BY <1>3, <1>4, <1>5, <1>6, <1>7, <1>8, <1>9, <1>10, NextCases

\* The store only grows, and what it began with and what is malformed stay.
LEMMA StoreGrows ==
    ASSUME [Next]_vars
    PROVE  store \subseteq store' /\ first' = first /\ malformed' = malformed
<1> USE DEF walkVars, writerVars, constVars, fetchVars
<1>1. CASE StoreOne
    BY <1>1 DEF StoreOne
<1>2. CASE Want \/ LocalWriter \/ SendKey \/ SendRefused \/ Recv \/ RecvEnd \/ WriterFailed \/ CtxDone
    BY <1>2 DEF Want, LocalWriter, SendKey, SendRefused, Recv, RecvEnd, WriterFailed, CtxDone
<1>3. CASE LoopDone \/ Gate \/ StopWriter \/ StopFetcher \/ Leave
    BY <1>3 DEF LoopDone, Gate, StopWriter, StopFetcher, Leave
<1>4. CASE TakeBatch \/ BatchStored \/ StoreFails \/ CancelFailed \/ WriterEnds \/ UNCHANGED vars
    BY <1>4 DEF TakeBatch, BatchStored, StoreFails, CancelFailed, WriterEnds, vars
<1> QED
    BY <1>1, <1>2, <1>3, <1>4, NextCases

\* The errors of the writer reach the caller.
LEMMA ErrorsStep ==
    ASSUME IInv, [Next]_vars
    PROVE  Errors'
<1> USE DEF walkVars, writerVars, constVars, fetchVars, IInv
<1>0. Complete(Root) => Complete(Root)'
    BY StoreGrows DEF Complete, Below
<1>1. CASE UNCHANGED <<pc, res, pending, err, failed, wtask>>
    BY <1>0, <1>1 DEF Errors, Active
<1>2. CASE Want
    BY <1>0, <1>2 DEF Want, WantDone, WantSeen, WantHeld, WantMissing, Wanting, Errors, Active, None
<1>3. CASE SendKey \/ SendRefused
    BY <1>1, <1>3 DEF SendKey, SendRefused
<1>4. CASE Recv
  <2>1. /\ pc = "loop" /\ UNCHANGED <<pending, err, failed, wtask>>
        /\ \/ pc' = "write" /\ res' = res
           \/ pc' = "stop" /\ res' = "not found"
    BY <1>4, RecvCases
  <2> QED
    BY <1>0, <2>1 DEF Errors, Active, None
<1>5. CASE RecvEnd \/ CtxDone
    BY <1>0, <1>5 DEF RecvEnd, CtxDone, Looping, Return, Errors, Active, None
<1>6. CASE WriterFailed \/ LoopDone
    BY <1>0, <1>6 DEF WriterFailed, LoopDone, Looping, Errors, Active, None
<1>7. CASE Gate
    BY <1>0, <1>7 DEF Gate, Return, Errors, WriterDone, Active, None
<1>8. CASE StopWriter \/ StopFetcher \/ Leave
    BY <1>0, <1>8 DEF StopWriter, StopFetcher, Leave, Errors, Active
<1>9. CASE LocalWriter
  <2>1. UNCHANGED <<failed, wtask, pending>>
    BY <1>9 DEF LocalWriter, WriteBuffers, WriteFlushes, WriteFails, CloseFlushes, CloseFails,
                CloseReturns, Written, Return
  <2>2. CASE WriteBuffers \/ WriteFlushes
    BY <1>0, <2>1, <2>2 DEF WriteBuffers, WriteFlushes, Written, Return, Errors, Active, None
  <2>3. CASE WriteFails \/ CloseFails
    BY <1>0, <2>1, <2>3 DEF WriteFails, CloseFails, Return, Errors, Active, None
  <2>4. CASE CloseFlushes
    BY <1>0, <2>1, <2>4 DEF CloseFlushes, Errors, Active, None
  <2>5. CASE CloseReturns
    BY <1>0, <2>1, <2>5 DEF CloseReturns, Errors, Types, Active, None
  <2> QED
    BY <1>9, <2>2, <2>3, <2>4, <2>5 DEF LocalWriter
<1>10. CASE TakeBatch \/ StoreOne \/ BatchStored \/ StoreFails \/ CancelFailed \/ WriterEnds
    BY <1>0, <1>10 DEF TakeBatch, StoreOne, BatchStored, StoreFails, CancelFailed, WriterEnds, Errors,
                       WriterDone, Active, None
<1>11. CASE FetchAct /\ UNCHANGED <<walkVars, writerVars, constVars, chan, open, err>>
    BY <1>1, <1>11
<1>12. CASE UNCHANGED vars
    BY <1>1, <1>12 DEF vars
<1> QED
    BY <1>2, <1>3, <1>4, <1>5, <1>6, <1>7, <1>8, <1>9, <1>10, <1>11, <1>12, NextCases

\* A subtree once settled stays so.
LEMMA SettledStays ==
    ASSUME [Next]_vars, given \subseteq given', NEW k, Settled(k)
    PROVE  Settled(k)'
    BY StoreGrows DEF Settled, Below

LEMMA GivenGrows ==
    ASSUME [Next]_vars
    PROVE  given \subseteq given'
<1> USE DEF walkVars, writerVars, constVars, fetchVars
<1>1. CASE SendKey \/ SendRefused \/ Recv
    BY <1>1 DEF SendKey, SendRefused, Recv, Fetch!Give, Fetch!Close, Fetch!Receive
<1>2. CASE Want \/ LocalWriter \/ RecvEnd \/ WriterFailed \/ CtxDone \/ LoopDone \/ Gate
    BY <1>2 DEF Want, LocalWriter, RecvEnd, WriterFailed, CtxDone, LoopDone, Gate
<1>3. CASE StopWriter \/ StopFetcher \/ Leave \/ UNCHANGED vars
    BY <1>3 DEF StopWriter, StopFetcher, Leave, vars
<1>4. CASE TakeBatch \/ StoreOne \/ BatchStored \/ StoreFails \/ CancelFailed \/ WriterEnds
    BY <1>4 DEF TakeBatch, StoreOne, BatchStored, StoreFails, CancelFailed, WriterEnds
<1>5. CASE FetchAct
    BY <1>5 DEF FetchAct, Fetch!Accept, Fetch!Answer, Fetch!Hang, Fetch!End, Fetch!Stop
<1> QED
    BY <1>1, <1>2, <1>3, <1>4, <1>5, NextCases

\* The walk goes on below the root and forgets nothing.
LEMMA WalkedStep ==
    ASSUME IsTree, IInv, [Next]_vars, Active'
    PROVE  Walked'
<1> USE DEF walkVars, writerVars, constVars, fetchVars
<1>0. /\ first' = first /\ malformed' = malformed /\ first \subseteq store
      /\ \A k : Settled(k) => Settled(k)'
      /\ Below(Root)' = Below(Root) /\ Below(Root) \subseteq Keys
      /\ Active => Walked
    BY StoreGrows, GivenGrows, SettledStays, BelowIsLeast DEF Below, IInv, Types, IsTree
<1>1. \A k \in Below(Root) : Kids[k] \subseteq Below(Root)
    BY BelowIsLeast DEF IsTree
<1>2. CASE Active /\ Came' = Came /\ UNCHANGED <<seen, todo, queue, given, cur>>
           /\ (pc' # pc => {pc, pc'} \cap {"start", "want", "write"} = {})
    BY <1>0, <1>2 DEF Walked
<1>3. CASE Want
  <2>1. Active /\ Came' = Came /\ given' = given /\ cur' = cur
    BY <1>3 DEF Want, WantDone, WantSeen, WantHeld, WantMissing, Wanting, Active, Came
  <2>2. CASE WantDone
    BY <1>0, <2>1, <2>2 DEF WantDone, Wanting, Walked
  <2>3. ASSUME NEW k \in todo, WantSeen(k) PROVE Walked'
    BY <1>0, <2>1, <2>3 DEF WantSeen, Wanting, Walked
  <2>4. ASSUME NEW k \in todo, WantHeld(k) PROVE Walked'
    <3>1. k \in first /\ k \notin malformed /\ k \in Below(Root)
      BY <1>0, <2>1, <2>4 DEF WantHeld, Walked, IInv, Moves, Outcomes, Types
    <3>2. Kids[k] \subseteq seen' \cup todo' \/ Settled(k)
      <4>1. CASE Complete(k)
        BY <4>1 DEF Complete, Settled, IInv, Moves, Outcomes
      <4>2. CASE k \in Leaves
        BY <4>2 DEF Leaves
      <4>3. CASE k \notin Leaves /\ ~Complete(k)
        BY <2>4, <4>3 DEF WantHeld
      <4> QED
        BY <4>1, <4>2, <4>3
    <3>3. /\ seen' = seen \cup {k} /\ queue' = queue /\ pc' = pc /\ pc \in {"start", "want"}
          /\ todo \subseteq todo' \cup {k} /\ todo' \subseteq todo \cup Kids[k]
      BY <2>4 DEF WantHeld, Wanting
    <3> QED
      BY <1>0, <1>1, <2>1, <3>1, <3>2, <3>3 DEF Walked
  <2>5. ASSUME NEW k \in todo, WantMissing(k) PROVE Walked'
    <3>1. k \notin first \/ k \in malformed
      BY <1>0, <2>5 DEF WantMissing
    <3>2. /\ seen' = seen \cup {k} /\ queue' = queue \cup {k} /\ pc' = pc /\ pc \in {"start", "want"}
          /\ todo' = todo \ {k} /\ k \notin seen
      BY <2>5 DEF WantMissing, Wanting
    <3>3. k \notin given
      BY <3>2 DEF IInv, Types
    <3> QED
      BY <1>0, <2>1, <3>1, <3>2, <3>3 DEF Walked
  <2> QED
    BY <1>3, <2>2, <2>3, <2>4, <2>5 DEF Want
<1>4. CASE SendKey
  <2>1. PICK k \in queue : given' = given \cup {k} /\ queue' = queue \ {k} /\ Came' = Came
    BY <1>4 DEF SendKey, Fetch!Give, Came
  <2>2. UNCHANGED <<pc, seen, todo, cur>> /\ pc = "loop" /\ Active
    BY <1>4 DEF SendKey, Looping, Active
  <2>3. k \notin given /\ k \notin Came
    BY <1>0, <2>1, <2>2 DEF Walked, IInv, Outcomes
  <2> QED
    BY <1>0, <2>1, <2>2, <2>3 DEF Walked
<1>5. CASE Recv
  <2>1. PICK f \in results :
            /\ Came' = Came \cup {f.key} /\ f.key \in given \ Came /\ pc = "loop"
            /\ UNCHANGED <<given, todo, seen, queue>>
            /\ pc' = "write" /\ cur' = f.key
    BY <1>5, RecvCases DEF Active
  <2>2. Active
    BY <2>1 DEF Active
  <2> QED
    BY <1>0, <2>1, <2>2 DEF Walked
<1>6. CASE SendRefused \/ WriterFailed \/ LoopDone
    BY <1>2, <1>6 DEF SendRefused, Fetch!Close, WriterFailed, LoopDone, Looping, Active, Came
<1>7. CASE RecvEnd \/ CtxDone \/ Gate \/ StopWriter \/ StopFetcher \/ Leave
    BY <1>7 DEF RecvEnd, CtxDone, Gate, StopWriter, StopFetcher, Leave, Return, Active
<1>8. CASE LocalWriter
  <2>1. Active /\ Came' = Came /\ given' = given
    BY <1>8 DEF LocalWriter, WriteBuffers, WriteFlushes, WriteFails, CloseFlushes, CloseFails,
                CloseReturns, Active, Came
  <2>2. CASE WriteBuffers \/ WriteFlushes
    <3>1. /\ pc = "write" /\ pc' = "want" /\ cur \notin malformed /\ todo' = Kids[cur]
          /\ UNCHANGED <<cur, seen, queue>>
      BY <2>2 DEF WriteBuffers, WriteFlushes, Written, Return, Active
    <3>2. cur \in Below(Root) /\ todo = {}
      BY <1>0, <2>1, <3>1, WaitedSeen DEF Walked
    <3> QED
      BY <1>0, <1>1, <2>1, <3>1, <3>2 DEF Walked
  <2>3. CASE WriteFails
    BY <2>3 DEF WriteFails, Return, Active
  <2>4. CASE CloseFlushes \/ CloseFails \/ CloseReturns
    BY <1>2, <2>1, <2>4 DEF CloseFlushes, CloseFails, CloseReturns, Active
  <2> QED
    BY <1>8, <2>2, <2>3, <2>4 DEF LocalWriter
<1>9. CASE TakeBatch \/ StoreOne \/ BatchStored \/ StoreFails \/ CancelFailed \/ WriterEnds \/ UNCHANGED vars
    BY <1>2, <1>9 DEF TakeBatch, StoreOne, BatchStored, StoreFails, CancelFailed, WriterEnds, vars,
       Active, Came
<1>10. CASE FetchAct /\ UNCHANGED <<walkVars, writerVars, constVars, chan, open, err>>
    BY <1>2, <1>10 DEF FetchAct, Fetch!Accept, Fetch!Answer, Fetch!Hang, Fetch!End, Fetch!Stop, Active,
       Came
<1> QED
    BY <1>3, <1>4, <1>5, <1>6, <1>7, <1>8, <1>9, <1>10, NextCases

LEMMA StepIInv == IsTree /\ IInv /\ [Next]_vars => IInv'
    BY TypesStep, OutcomesStep, MovesStep, WriterDoneStep, PendingStep, WalkedStep, KeptStep, ErrorsStep
       DEF IInv

\* When the loop is through, what was seen and what was settled below it holds
\* the children of all it holds, and so is everything below the root.
LEMMA AllBelow ==
    ASSUME IsTree, IInv, pc = "gate"
    PROVE  /\ Below(Root) \subseteq first \cup given /\ Below(Root) \cap malformed = {}
           /\ given \subseteq Came /\ Came \cap malformed = {}
<1>1. Active /\ Walked /\ pending = 0 /\ pending = Cardinality(Waited)
    BY DEF IInv, Errors, Active
<1>2. Waited = {}
    <2>1. Waited \in SUBSET Keys
      BY <1>1, WaitedSeen DEF IInv, Types
    <2> QED
      BY <1>1, <2>1, CardKeys
<1>3. queue = {} /\ given \subseteq Came /\ Came \cap malformed = {} /\ todo = {} /\ Root \in seen
    BY <1>1, <1>2 DEF Waited, Walked
<1> DEFINE subtrees == {j \in Keys : \E k \in seen : Settled(k) /\ j \in Below(k)}
           all == seen \cup subtrees
<1>4. seen \subseteq Keys
    BY DEF IInv, Types
<1>5. HoldsKids(all)
  <2>1. ASSUME NEW j \in seen PROVE Kids[j] \subseteq all
    <3>1. Kids[j] \subseteq seen \/ Settled(j)
      BY <1>1, <1>3, <2>1 DEF Walked
    <3>2. Kids[j] \subseteq Below(j) /\ Below(j) \subseteq Keys
      BY <1>4, <2>1, BelowIsLeast
    <3> QED
      BY <2>1, <3>1, <3>2
  <2>2. ASSUME NEW j \in subtrees PROVE Kids[j] \subseteq all
    <3>1. PICK k \in seen : Settled(k) /\ j \in Below(k)
      BY <2>2
    <3>2. Kids[j] \subseteq Below(k) /\ Below(k) \subseteq Keys
      BY <1>4, <3>1, BelowIsLeast
    <3> QED
      BY <3>1, <3>2
  <2> QED
    BY <2>1, <2>2 DEF HoldsKids
<1>6. Below(Root) \subseteq all
  <2>1. all \in SUBSET Keys /\ Root \in all /\ Root \in Keys
    BY <1>3, <1>4 DEF IsTree
  <2> HIDE DEF all
  <2> QED
    BY <1>5, <2>1, BelowIsLeast
<1>7. \A j \in all : j \in first \cup given /\ j \notin malformed
    BY <1>1, <1>3 DEF Walked, Settled
<1> QED
    BY <1>3, <1>6, <1>7

\* At the gate everything is stored and what was given is what was missing.
LEMMA GateIsOpen ==
    ASSUME IsTree, IInv, pc = "gate"
    PROVE  Complete(Root) /\ given = Below(Root) \ first
<1>1. Active /\ Walked /\ Kept /\ ~err /\ res = None
    BY DEF IInv, Errors, Active
<1>2. chan = {} /\ writing = {} /\ batch = {}
    BY DEF IInv, WriterDone
<1>3. Came \subseteq store /\ first \subseteq store
    BY <1>1, <1>2 DEF Kept, OnItsWay, IInv, Types
<1>4. Complete(Root)
    BY <1>3, AllBelow DEF Complete
<1>5. given \cap first = {}
    BY <1>1, AllBelow DEF Walked
<1>6. given \subseteq Below(Root)
    BY <1>1 DEF Walked, IInv, Types
<1> QED
    BY <1>4, <1>5, <1>6, AllBelow

LEMMA TypesTypeOK ==
    ASSUME Types
    PROVE  TypeOK
<1>1. Cardinality(chan) <= 1
    BY FS_EmptySet, FS_Singleton DEF Types
<1> QED
    BY <1>1 DEF Types, TypeOK

LEMMA SpecIInv ==
    ASSUME IsTree
    PROVE  Spec => []IInv
<1>1. Init => IInv
    BY InitIInv
<1>2. IInv /\ [Next]_vars => IInv'
    BY StepIInv
<1> QED
    BY <1>1, <1>2, PTL DEF Spec

-----------------------------------------------------------------------------
\* The completeness check at the end of pull_tree never has to fire: when the
\* walk is through, everything below the root is in the local store, and what
\* was fetched is what was missing, each object once, for every tree, whatever
\* it shares, every store to begin with and every interleaving of the walk, the
\* writer and the fetcher.
THEOREM PullTreeGateHolds ==
    ASSUME IsTree
    PROVE  Spec => []GateHolds
<1>1. IInv => GateHolds
    BY GateIsOpen, TypesTypeOK DEF IInv, GateHolds
<1> QED
    BY <1>1, SpecIInv, PTL

\* A pull_tree that returns well has stored everything, and no write of its
\* writer task failed: the error slot is emptied only into the result.
THEOREM PullTreeFailedWriteFails ==
    ASSUME IsTree
    PROVE  Spec => []FailedWriteFails
<1>1. IInv => FailedWriteFails
    BY DEF IInv, Errors, FailedWriteFails
<1> QED
    BY <1>1, SpecIInv, PTL
=============================================================================
