-------------------------- MODULE TransportProofs --------------------------
(***************************************************************************)
(* How a node is reached and talked to.                                    *)
(*                                                                         *)
(* Pool, for any number of callers, any per_peer and any number of dials:  *)
(* the pool never holds more than per_peer conns of a key, and no conn     *)
(* leaks.                                                                  *)
(*                                                                         *)
(* IrohDial, for any direct addresses of the node and however often it     *)
(* moves: a dial that fails, though nothing disturbed it, had no way to    *)
(* the node.                                                               *)
(*                                                                         *)
(* PackStream, for any pack, any size of chunks, buffer and pipe: a reader *)
(* that takes the whole pack never resets the sender, and what it takes    *)
(* are the records that were added, all of them when the pack ends well.   *)
(***************************************************************************)
EXTENDS Transport, FiniteSetTheorems, WellFoundedInduction, TLAPS

\* The caller that dials is the one at the head of the dial lock's queue ...
DialerHoldsLock == \A c \in Callers : pc[c] = "dial" => HoldsDialLock(c)

\* ... and while it dials nobody else can add a conn, so the room it found
\* stays: the others only filter the list, or take all of it.
DialerHasRoom == \A c \in Callers : pc[c] = "dial" => Cardinality(conns) < PerPeer

\* Conns are numbered as they are pushed.
Numbered == conns \subseteq 1..dialled

\* A caller has conns left to close only inside drop_peer, so the next
\* drop_peer of that caller overwrites no unfinished one.
ClosesInDropPeer == \A c \in Callers : toClose[c] # {} => pc[c] = "closing"

IInv ==
    /\ TypeOK
    /\ ClosesInDropPeer
    /\ Numbered
    /\ AtMostPerPeer
    /\ DialerHoldsLock
    /\ DialerHasRoom
    /\ NoLeak

\* Filtering or emptying the list of conns never makes it longer.
LEMMA Shrinks ==
    ASSUME TypeOK, NEW S \in SUBSET conns
    PROVE  /\ IsFiniteSet(conns)
           /\ Cardinality(S) \in Nat
           /\ Cardinality(conns) \in Nat
           /\ Cardinality(S) <= Cardinality(conns)
<1>1. IsFiniteSet(ConnId)
    BY PoolAssumption, FS_Interval, 1 \in Int, MaxConns \in Int DEF ConnId
<1>2. IsFiniteSet(conns)
    BY <1>1, FS_Subset DEF TypeOK
<1>3. IsFiniteSet(S) /\ Cardinality(S) <= Cardinality(conns)
    BY <1>2, FS_Subset
<1> QED
    BY <1>2, <1>3, FS_CardinalityType

\* The empty pool satisfies the invariant.
LEMMA InitInv == Init => IInv
<1> SUFFICES ASSUME Init PROVE IInv
    OBVIOUS
<1>1. TypeOK
    BY PoolAssumption DEF Init, TypeOK, NoConn, Actors
<1>2. AtMostPerPeer
    BY PoolAssumption, FS_EmptySet DEF Init, AtMostPerPeer
<1>3. NoLeak
    BY DEF Init, NoLeak
<1> QED
    BY <1>1, <1>2, <1>3 DEF Init, IInv, ClosesInDropPeer, Actors, Numbered, DialerHoldsLock, DialerHasRoom

\* Every step keeps the types.
LEMMA TypeStep == TypeOK /\ Numbered /\ DialerHoldsLock /\ [Next]_vars => TypeOK'
<1> SUFFICES ASSUME TypeOK, Numbered, DialerHoldsLock, [Next]_vars PROVE TypeOK'
    OBVIOUS
<1> USE PoolAssumption DEF TypeOK, ConnId, NoConn, Actors, Live
<1>1. ASSUME NEW c \in Callers, GetPooled(c) PROVE TypeOK'
    BY <1>1 DEF GetPooled
<1>2. ASSUME NEW c \in Callers, GetRefused(c) PROVE TypeOK'
    BY <1>2 DEF GetRefused
<1>3. ASSUME NEW c \in Callers, GetQueue(c) PROVE TypeOK'
    BY <1>3 DEF GetQueue
<1>4. ASSUME NEW c \in Callers, GetGrown(c) PROVE TypeOK'
    BY <1>4 DEF GetGrown, HoldsDialLock
<1>5. ASSUME NEW c \in Callers, DialStart(c) PROVE TypeOK'
    BY <1>5 DEF DialStart
<1>6. ASSUME NEW c \in Callers, DialErr(c) PROVE TypeOK'
    BY <1>6 DEF DialErr, DialerHoldsLock, HoldsDialLock
<1>7. ASSUME NEW c \in Callers, DialOk(c) PROVE TypeOK'
    BY <1>7 DEF DialOk, DialerHoldsLock, HoldsDialLock
<1>8. ASSUME NEW c \in Callers, Use(c) PROVE TypeOK'
    BY <1>8 DEF Use, OpenStream, DropPeer, DropDone
<1>9. ASSUME NEW a \in Actors, CloseConn(a) PROVE TypeOK'
    BY <1>9 DEF CloseConn
<1>10. CASE Close
    BY <1>10 DEF Close
<1>11. CASE ConnFails
    BY <1>11 DEF ConnFails
<1>12. CASE WindowPasses
    BY <1>12 DEF WindowPasses
<1>13. CASE UNCHANGED vars
    BY <1>13 DEF vars
<1> QED
    BY <1>1, <1>2, <1>3, <1>4, <1>5, <1>6, <1>7, <1>8, <1>9, <1>10, <1>11, <1>12, <1>13
    DEF Next, Get, Dial

\* A step that keeps or filters the list of conns, and starts no dial, keeps
\* the bound and the room of a caller that is dialing.
LEMMA ShrinkStep ==
    ASSUME IInv, conns' \subseteq conns, dialled' = dialled,
           \A c \in Callers : pc'[c] = "dial" => pc[c] = "dial"
    PROVE  Numbered' /\ AtMostPerPeer' /\ DialerHasRoom'
<1>1. /\ Cardinality(conns') \in Nat
      /\ Cardinality(conns) \in Nat
      /\ Cardinality(conns') <= Cardinality(conns)
    BY Shrinks DEF IInv
<1> QED
    BY <1>1, PoolAssumption DEF IInv, Numbered, AtMostPerPeer, DialerHasRoom

\* Every step keeps the inductive invariant.
LEMMA NextInv == IInv /\ [Next]_vars => IInv'
<1> SUFFICES ASSUME IInv, [Next]_vars PROVE IInv'
    OBVIOUS
<1>t. TypeOK'
    BY TypeStep DEF IInv
<1>d. ClosesInDropPeer'
    <2> USE DEF IInv, TypeOK, ClosesInDropPeer, Actors
    <2>1. ASSUME NEW c \in Callers, Get(c) \/ Dial(c) PROVE ClosesInDropPeer'
        BY <2>1 DEF Get, Dial, GetPooled, GetRefused, GetQueue, GetGrown, DialStart, DialErr, DialOk
    <2>2. ASSUME NEW c \in Callers, Use(c) PROVE ClosesInDropPeer'
        BY <2>2 DEF Use, OpenStream, DropPeer, DropDone
    <2>3. ASSUME NEW a \in Actors, CloseConn(a) PROVE ClosesInDropPeer'
        BY <2>3 DEF CloseConn
    <2>4. CASE Close
        BY <2>4, PoolAssumption DEF Close
    <2>5. CASE ConnFails \/ WindowPasses \/ UNCHANGED vars
        BY <2>5 DEF ConnFails, WindowPasses, vars
    <2> QED
        BY <2>1, <2>2, <2>3, <2>4, <2>5 DEF Next
<1>1. ASSUME NEW c \in Callers, GetPooled(c) \/ GetRefused(c) PROVE IInv'
    <2>1. conns' = Live /\ UNCHANGED <<queue, dialled, closed, toClose>>
        BY <1>1 DEF GetPooled, GetRefused
    <2>2. \A d \in Callers : pc'[d] = "dial" => pc[d] = "dial"
        BY <1>1 DEF IInv, TypeOK, GetPooled, GetRefused
    <2>3. NoLeak'
        BY <2>1 DEF IInv, NoLeak, Live
    <2> QED
        BY <1>t, <1>d, <2>1, <2>2, <2>3, ShrinkStep DEF IInv, Live, DialerHoldsLock, HoldsDialLock
<1>2. ASSUME NEW c \in Callers, GetQueue(c) PROVE IInv'
    <2>1. conns' = Live /\ queue' = Append(queue, c) /\ UNCHANGED <<dialled, closed, toClose>>
        BY <1>2 DEF GetQueue
    <2>2. \A d \in Callers : pc'[d] = "dial" => pc[d] = "dial"
        BY <1>2 DEF IInv, TypeOK, GetQueue
    <2>3. NoLeak'
        BY <2>1 DEF IInv, NoLeak, Live
    <2>4. queue # <<>> => queue' # <<>> /\ Head(queue') = Head(queue)
        BY <2>1 DEF IInv, TypeOK
    <2> QED
        BY <1>t, <1>d, <2>1, <2>2, <2>3, <2>4, ShrinkStep DEF IInv, Live, DialerHoldsLock, HoldsDialLock
<1>3. ASSUME NEW c \in Callers, GetGrown(c) PROVE IInv'
    <2>1. \A d \in Callers : pc'[d] # "dial"
        BY <1>3 DEF IInv, TypeOK, GetGrown, DialerHoldsLock, HoldsDialLock
    <2> QED
        BY <1>t, <1>d, <1>3, <2>1
        DEF IInv, GetGrown, Numbered, AtMostPerPeer, DialerHoldsLock, DialerHasRoom, NoLeak
<1>4. ASSUME NEW c \in Callers, DialStart(c) PROVE IInv'
    <2>1. \A d \in Callers : pc'[d] = "dial" => d = c \/ pc[d] = "dial"
        BY <1>4 DEF IInv, TypeOK, DialStart
    <2> QED
        BY <1>t, <1>d, <1>4, <2>1
        DEF IInv, DialStart, Numbered, AtMostPerPeer, DialerHoldsLock, HoldsDialLock,
            DialerHasRoom, NoLeak
<1>5. ASSUME NEW c \in Callers, DialErr(c) PROVE IInv'
    <2>1. \A d \in Callers : pc'[d] # "dial"
        BY <1>5 DEF IInv, TypeOK, DialErr, DialerHoldsLock, HoldsDialLock
    <2> QED
        BY <1>t, <1>d, <1>5, <2>1
        DEF IInv, DialErr, Numbered, AtMostPerPeer, DialerHoldsLock, DialerHasRoom, NoLeak
<1>6. ASSUME NEW c \in Callers, DialOk(c) PROVE IInv'
    <2>1. \A d \in Callers : pc'[d] # "dial"
        BY <1>6 DEF IInv, TypeOK, DialOk, DialerHoldsLock, HoldsDialLock
    <2>2. dialled' = dialled + 1 /\ conns' = conns \cup {dialled'} /\ UNCHANGED <<closed, toClose>>
        BY <1>6 DEF DialOk
    <2>3. Numbered'
        BY <2>2 DEF IInv, TypeOK, Numbered
    <2>4. Cardinality(conns) < PerPeer
        BY <1>6 DEF IInv, DialOk, DialerHasRoom
    <2>5. AtMostPerPeer'
        <3>1. IsFiniteSet(conns) /\ Cardinality(conns) \in Nat
            BY Shrinks DEF IInv
        <3>2. dialled' \notin conns
            BY <2>2 DEF IInv, TypeOK, Numbered
        <3>3. Cardinality(conns') = Cardinality(conns) + 1
            BY <2>2, <3>1, <3>2, FS_AddElement
        <3> QED
            BY <2>4, <3>1, <3>3, PoolAssumption DEF AtMostPerPeer
    <2>6. NoLeak'
        BY <2>2 DEF IInv, TypeOK, NoLeak
    <2> QED
        BY <1>t, <1>d, <2>1, <2>3, <2>5, <2>6 DEF IInv, DialerHoldsLock, DialerHasRoom
<1>7. ASSUME NEW c \in Callers, OpenStream(c) \/ DropDone(c) PROVE IInv'
    <2>1. \A d \in Callers : pc'[d] = "dial" => pc[d] = "dial"
        BY <1>7 DEF IInv, TypeOK, OpenStream, DropDone
    <2>2. UNCHANGED <<conns, queue, dialled, closed, toClose>>
        BY <1>7 DEF OpenStream, DropDone
    <2> QED
        BY <1>t, <1>d, <2>1, <2>2, ShrinkStep DEF IInv, DialerHoldsLock, HoldsDialLock, NoLeak
<1>8. ASSUME NEW c \in Callers, DropPeer(c) PROVE IInv'
    <2>1. \A d \in Callers : pc'[d] = "dial" => pc[d] = "dial"
        BY <1>8 DEF IInv, TypeOK, DropPeer
    <2>2. conns' = {} /\ UNCHANGED <<queue, dialled, closed>>
        BY <1>8 DEF DropPeer
    <2>3. NoLeak'
        <3>1. toClose[c] = {} /\ toClose' = [toClose EXCEPT ![c] = conns]
            BY <1>8 DEF IInv, DropPeer, ClosesInDropPeer
        <3>2. \A a \in Actors : a # c => toClose'[a] = toClose[a]
            BY <3>1 DEF IInv, TypeOK
        <3>3. toClose'[c] = conns /\ c \in Actors
            BY <3>1 DEF IInv, TypeOK, Actors
        <3> QED
            BY <2>2, <3>1, <3>2, <3>3 DEF IInv, NoLeak
    <2> QED
        BY <1>t, <1>d, <2>1, <2>2, <2>3, ShrinkStep DEF IInv, DialerHoldsLock, HoldsDialLock
<1>9. ASSUME NEW a \in Actors, CloseConn(a) PROVE IInv'
    <2>1. UNCHANGED <<conns, queue, dialled, pc>>
        BY <1>9 DEF CloseConn
    <2>2. NoLeak'
        BY <1>9 DEF IInv, TypeOK, CloseConn, NoLeak
    <2> QED
        BY <1>t, <1>d, <2>1, <2>2, ShrinkStep DEF IInv, DialerHoldsLock, HoldsDialLock
<1>10. CASE Close
    <2>1. conns' = {} /\ UNCHANGED <<queue, dialled, closed, pc>>
        BY <1>10 DEF Close
    <2>2. NoLeak'
        BY <1>10 DEF IInv, TypeOK, Close, NoLeak, Actors
    <2> QED
        BY <1>t, <1>d, <2>1, <2>2, ShrinkStep DEF IInv, DialerHoldsLock, HoldsDialLock
<1>11. CASE ConnFails
    <2>1. UNCHANGED <<conns, queue, dialled, pc, toClose>> /\ closed \subseteq closed'
        BY <1>11 DEF ConnFails
    <2> QED
        BY <1>t, <1>d, <2>1, ShrinkStep DEF IInv, DialerHoldsLock, HoldsDialLock, NoLeak
<1>12. CASE WindowPasses \/ UNCHANGED vars
    <2>1. UNCHANGED <<conns, queue, dialled, closed, pc, toClose>>
        BY <1>12 DEF WindowPasses, vars
    <2> QED
        BY <1>t, <1>d, <2>1, ShrinkStep DEF IInv, DialerHoldsLock, HoldsDialLock, NoLeak
<1> QED
    BY <1>1, <1>2, <1>3, <1>4, <1>5, <1>6, <1>7, <1>8, <1>9, <1>10, <1>11, <1>12
    DEF Next, Get, Dial, Use

\* The inductive invariant holds in every reachable state.
LEMMA Invariant == Spec => []IInv
    BY InitInv, NextInv, PTL DEF Spec

\* Every variable of the pool keeps its type, for every value of the constants.
THEOREM TypeCorrect == Spec => []TypeOK
<1>1. IInv => TypeOK
    BY DEF IInv
<1> QED
    BY <1>1, Invariant, PTL

\* pool.rs `get`: the list of a key never grows past per_peer, whatever the
\* callers, drops, closes and failing conns.
THEOREM BoundedPool == Spec => []AtMostPerPeer
<1>1. IInv => AtMostPerPeer
    BY DEF IInv
<1> QED
    BY <1>1, Invariant, PTL

\* pool.rs `drop_peer` and `close`: a conn that leaves the pool open is closed
\* by whoever took it out; nothing else loses a live conn.
THEOREM NothingLeaks == Spec => []NoLeak
<1>1. IInv => NoLeak
    BY DEF IInv
<1> QED
    BY <1>1, Invariant, PTL

-----------------------------------------------------------------------------
(***************************************************************************)
(* IrohDial                                                                *)
(***************************************************************************)
DialTypes ==
    /\ relaysEnabled \in BOOLEAN /\ discover \in BOOLEAN
    /\ ctxOver \in BOOLEAN /\ moved \in BOOLEAN /\ slow \in BOOLEAN /\ hinted \in BOOLEAN
    /\ given \subseteq Direct \cup {Relay}
    /\ phase \in {"idle", "direct", "all", "discover", "lookup", "found", "failed"}
    /\ shut \in {"no", "closing", "yes"}

Undisturbed == ~ctxOver /\ shut = "no" /\ ~moved /\ ~slow

\* Once the phases over the given addresses are behind an undisturbed dial,
\* none of these addresses leads to the node ...
GivenTried ==
    phase \in {"discover", "lookup", "found", "failed"} /\ Undisturbed =>
        Node!Usable(given) \cap live = {}

\* ... and a cache that knew a way is dialled: until that connect is over the
\* way is among the found addresses, and nowhere else is there such a hint.
HintTried ==
    /\ hinted => phase \in {"found", "failed"}
    /\ hinted /\ phase = "found" /\ ~moved => Node!Usable(found) \cap live # {}
    /\ phase = "failed" /\ Undisturbed => ~hinted

Listening == (tx = "listening") = ("v4" \in loops)

DialInv == DialTypes /\ GivenTried /\ HintTried /\ Listening

LEMMA DialInit == Node!Init => DialInv
<1> SUFFICES ASSUME Node!Init PROVE DialInv
    OBVIOUS
<1> USE DEF Node!Init, Node!Bind
<1>1. DialTypes
    BY DEF DialTypes
<1>2. GivenTried /\ HintTried
    BY DEF GivenTried, HintTried
<1>3. Listening
    BY DEF Listening, Node!Loops
<1> QED
    BY <1>1, <1>2, <1>3 DEF DialInv

\* The network, the read loops, and the endpoint that closes.
LEMMA SurroundingsStep ==
    ASSUME DialInv,
           \/ Node!Move \/ Node!CloseDiscovery \/ Node!CloseEndpoint \/ Node!CtxEnds
           \/ \E a \in been : Node!Hear(a)
           \/ \E f \in Node!Loops : Node!ReadFails(f)
           \/ UNCHANGED Node!dialling
    PROVE  DialInv'
<1> USE DEF DialInv, DialTypes, GivenTried, HintTried, Undisturbed, Node!Usable,
            Node!nodeVars, Node!mdnsVars, Node!dialVars
<1>1. CASE Node!Move
  <2>1. DialTypes'
    BY <1>1 DEF Node!Move
  <2>2. GivenTried' /\ HintTried'
    BY <1>1 DEF Node!Move
  <2>3. Listening'
    BY <1>1 DEF Node!Move, Listening
  <2> QED
    BY <2>1, <2>2, <2>3
<1>2. CASE Node!CloseDiscovery
    BY <1>2 DEF Node!CloseDiscovery, Node!Stop, Listening
<1>3. CASE Node!CloseEndpoint
    BY <1>3 DEF Node!CloseEndpoint, Listening
<1>4. CASE Node!CtxEnds
    BY <1>4 DEF Node!CtxEnds, Listening
<1>5. ASSUME NEW a \in been, Node!Hear(a) PROVE DialInv'
    BY <1>5 DEF Node!Hear, Listening
<1>6. ASSUME NEW f \in Node!Loops, Node!ReadFails(f) PROVE DialInv'
    BY <1>6 DEF Node!ReadFails, Node!Stop, Node!Loops, Listening
<1>7. CASE UNCHANGED Node!dialling
    BY <1>7 DEF Node!dialling, Listening
<1> QED
    BY <1>1, <1>2, <1>3, <1>4, <1>5, <1>6, <1>7

\* The dial itself.
LEMMA DialStep ==
    ASSUME DialInv,
           \/ Node!Dialling
           \/ \E a \in been : Node!DnsAnswers(a)
           \/ \E addrs \in SUBSET Node!Addresses : Node!Begin(addrs)
    PROVE  DialInv'
<1> USE DEF DialInv, DialTypes, Listening, Node!nodeVars, Node!mdnsVars, Node!dialVars
<1>1. ASSUME NEW addrs \in SUBSET Node!Addresses, Node!Begin(addrs) PROVE DialInv'
    BY <1>1 DEF Node!Begin, Node!Addresses, GivenTried, HintTried, Undisturbed, Node!Usable
<1>2. CASE Node!Connected
    BY <1>2 DEF Node!Connected, GivenTried, HintTried
<1>3. CASE Node!PhaseFails
  <2>1. DialTypes' /\ Listening'
    BY <1>3 DEF Node!PhaseFails, Node!Connecting
  <2>2. GivenTried'
    BY <1>3 DEF Node!PhaseFails, Node!Connecting, Node!Targets, GivenTried, Undisturbed, Node!Usable
  <2>3. HintTried'
    BY <1>3 DEF Node!PhaseFails, Node!Connecting, Node!Targets, HintTried, Undisturbed, Node!Usable
  <2> QED
    BY <2>1, <2>2, <2>3
<1>4. CASE Node!CannotDiscover
    BY <1>4 DEF Node!CannotDiscover, Node!Fail, GivenTried, HintTried, Undisturbed, Node!Usable
<1>5. CASE Node!Discover
  <2>1. DialTypes' /\ Listening'
    BY <1>5 DEF Node!Discover, Node!TakeAnswer
  <2>2. GivenTried'
    BY <1>5 DEF Node!Discover, Node!TakeAnswer, GivenTried, Undisturbed, Node!Usable
  <2>3. HintTried'
    BY <1>5 DEF Node!Discover, Node!TakeAnswer, HintTried, Undisturbed, Node!Usable
  <2> QED
    BY <2>1, <2>2, <2>3
<1>6. CASE Node!Poll
    BY <1>6 DEF Node!Poll, Node!TakeAnswer, GivenTried, HintTried, Undisturbed, Node!Usable
<1>7. ASSUME NEW a \in been, Node!DnsAnswers(a) PROVE DialInv'
    BY <1>7 DEF Node!DnsAnswers, Node!TakeAnswer, GivenTried, HintTried, Undisturbed, Node!Usable
<1>8. CASE Node!NobodyKnows
    BY <1>8 DEF Node!NobodyKnows, Node!Fail, GivenTried, HintTried, Undisturbed, Node!Usable
<1>9. ASSUME NEW s \in {"mdns", "dns"}, Node!LookupEnds(s) PROVE DialInv'
    BY <1>9 DEF Node!LookupEnds, GivenTried, HintTried, Undisturbed, Node!Usable
<1> QED
    BY <1>1, <1>2, <1>3, <1>4, <1>5, <1>6, <1>7, <1>8, <1>9 DEF Node!Dialling

\* endpoint.rs, dial, connect_phase and discover_dial: a dial that fails with
\* its context alive, the endpoint open, the node where it was and enough time
\* for the last connect had no address of the node, neither among the ones it
\* was given nor in the announcement it found in the cache.
THEOREM DialFailedHadNoWay == Node!Spec => []FailedHadNoWay
<1>1. DialInv => FailedHadNoWay
    BY DEF DialInv, DialTypes, GivenTried, HintTried, Listening, Undisturbed, FailedHadNoWay,
       Node!FailedHadNoWay
<1>2. DialInv /\ [Node!Next]_Node!dialling => DialInv'
    BY SurroundingsStep, DialStep DEF Node!Next
<1> QED
    BY <1>1, <1>2, DialInit, PTL DEF Node!Spec

-----------------------------------------------------------------------------
(***************************************************************************)
(* PackStream                                                              *)
(***************************************************************************)
StreamAssumption ==
    /\ PipeLimit \in Nat /\ BufioSize \in Nat /\ ChunkSize \in Nat \ {0}
    /\ Packs \subseteq Seq(Nat)

\* The units that may close a pack, and those of its data.
Closing == [kind : {"dataend", "err"}, n : Nat]
Plain == [kind : {"magic", "end", "rec", "pay", "header", "data"}, n : Nat]
Units == Closing \cup Plain

StreamTypes ==
    /\ pack \in Seq(Nat) /\ sent \in 0..Len(pack)
    /\ bw \in Seq(Plain) /\ chunk \in Seq(Plain)
    /\ writes \in Seq(Seq(Units)) /\ buf \in Seq(Units) /\ frame \in Seq(Units)
    /\ ended \in BOOLEAN /\ canceled \in BOOLEAN /\ done \in BOOLEAN
    /\ rerr \in {"none", "eof", "cut", "remote"}

\* read_full has something left to read.
FrameOpen == Stream!Missing(frame) > 0

\* Nothing is written after a closing unit, and nothing is left to be read
\* behind it.
ClosesLast ==
    /\ \A i \in DOMAIN frame : frame[i] \in Closing => i = Len(frame) /\ buf = <<>> /\ writes = <<>>
    /\ \A i \in DOMAIN buf : buf[i] \in Closing => i = Len(buf) /\ writes = <<>>
    /\ \A i \in DOMAIN writes : \A j \in DOMAIN writes[i] :
            writes[i][j] \in Closing => i = Len(writes) /\ j = Len(writes[i])
    /\ done \/ rerr = "remote" => buf = <<>> /\ writes = <<>>

\* A sender that is open has written none.
OpenHasNotClosed ==
    sender = "open" =>
        /\ ~done /\ rerr # "remote"
        /\ frame \in Seq(Plain) /\ buf \in Seq(Plain) /\ writes \in Seq(Seq(Plain))

\* A sender that is through has nothing left to write; the end of the stream
\* is its end.
EndedIsThrough ==
    /\ ended <=> sender \in {"closed", "reset"}
    /\ ended => writes = <<>>
    /\ rerr \in {"eof", "cut"} => ended /\ buf = <<>>

GivenUp == state = "error" \/ reader = "abandoned"

\* A reader that does not give up cancels only a sender that has written all.
CancelIsLate ==
    /\ canceled => GivenUp \/ (writes = <<>> /\ sender # "open")
    /\ sender = "reset" => GivenUp

StreamInv ==
    StreamTypes /\ FrameOpen /\ ClosesLast /\ OpenHasNotClosed /\ EndedIsThrough /\ CancelIsLate

\* The pieces of a sequence, and two sequences put together.
LEMMA Pieces ==
    ASSUME NEW T, NEW s \in Seq(T), NEW k \in 0..Len(s)
    PROVE  /\ SubSeq(s, 1, k) \in Seq(T) /\ Len(SubSeq(s, 1, k)) = k
           /\ \A i \in 1..k : SubSeq(s, 1, k)[i] = s[i]
           /\ SubSeq(s, k + 1, Len(s)) \in Seq(T) /\ Len(SubSeq(s, k + 1, Len(s))) = Len(s) - k
           /\ \A i \in 1..(Len(s) - k) : SubSeq(s, k + 1, Len(s))[i] = s[k + i]
    OBVIOUS

LEMMA Joined ==
    ASSUME NEW T, NEW s \in Seq(T), NEW t \in Seq(T)
    PROVE  /\ s \o t \in Seq(T) /\ Len(s \o t) = Len(s) + Len(t)
           /\ \A i \in 1..Len(s) : (s \o t)[i] = s[i]
           /\ \A i \in (Len(s) + 1)..(Len(s) + Len(t)) : (s \o t)[i] = t[i - Len(s)]
    OBVIOUS

LEMMA Listed ==
    ASSUME NEW T, NEW m \in Nat, NEW f \in [1..m -> T]
    PROVE  f \in Seq(T)
    OBVIOUS

LEMMA OfTwo ==
    ASSUME NEW T, NEW x \in T, NEW y \in T
    PROVE  <<x, y>> \in Seq(T) /\ <<x, y>>[1] \in T /\ <<x, y>>[2] \in T
    OBVIOUS

LEMMA OfOne ==
    ASSUME NEW T, NEW x \in T
    PROVE  <<x>> \in Seq(T) /\ Len(<<x>>) = 1 /\ <<x>>[1] = x
    OBVIOUS

LEMMA OfNone ==
    ASSUME NEW T, NEW s \in Seq(T), Len(s) = 0
    PROVE  s = <<>>
    OBVIOUS

LEMMA Tails ==
    ASSUME NEW T, NEW s \in Seq(T), Len(s) # 0
    PROVE  /\ Tail(s) \in Seq(T) /\ Len(Tail(s)) = Len(s) - 1 /\ DOMAIN Tail(s) = 1..(Len(s) - 1)
           /\ \A i \in 1..(Len(s) - 1) : Tail(s)[i] = s[i + 1]
    OBVIOUS

LEMMA Disjoint == Closing \cap Plain = {}
    BY DEF Closing, Plain

LEMMA RecordPlain ==
    ASSUME StreamTypes, NEW i \in 1..Len(pack)
    PROVE  Stream!Record(i) \in Seq(Plain)
<1>1. pack[i] \in Nat
    BY DEF StreamTypes
<1>2. <<Stream!Unit("rec", i)>> \in Seq(Plain)
    BY DEF Plain, Stream!Unit
<1>3. [j \in 1..pack[i] |-> Stream!Unit("pay", i)] \in [1..pack[i] -> Plain]
    BY <1>1 DEF Plain, Stream!Unit
<1>4. [j \in 1..pack[i] |-> Stream!Unit("pay", i)] \in Seq(Plain)
    BY <1>1, <1>3, Listed
<1> QED
    BY <1>2, <1>4, Joined DEF Stream!Record

LEMMA BufferedWritePlain ==
    ASSUME StreamAssumption, NEW b \in Seq(Plain), NEW p \in Seq(Plain)
    PROVE  /\ Stream!BufferedWrite(b, p).out \in Seq(Plain)
           /\ Stream!BufferedWrite(b, p).stays \in Seq(Plain)
<1> DEFINE all == b \o p
<1>1. all \in Seq(Plain)
    BY Joined
<1>2. CASE Len(all) <= BufioSize
    BY <1>1, <1>2 DEF Stream!BufferedWrite
<1>3. CASE Len(all) > BufioSize
  <2>1. BufioSize \in 0..Len(all)
    BY <1>1, <1>3 DEF StreamAssumption
  <2> QED
    BY <1>1, <1>3, <2>1, Pieces DEF Stream!BufferedWrite, StreamAssumption
<1> QED
    BY <1>1, <1>2, <1>3 DEF StreamAssumption

LEMMA ChunkWritePlain ==
    ASSUME StreamAssumption, NEW c \in Seq(Plain), NEW p \in Seq(Plain)
    PROVE  /\ Stream!ChunkWrite(c, p).out \in Seq(Seq(Plain))
           /\ Stream!ChunkWrite(c, p).stays \in Seq(Plain)
<1> DEFINE all == c \o p
           n == Len(all) \div ChunkSize
           Frame(i) == Stream!TData(SubSeq(all, i * ChunkSize + 1, (i + 1) * ChunkSize))
<1>1. all \in Seq(Plain)
    BY Joined
<1>2. n \in Nat /\ n * ChunkSize \in 0..Len(all)
    BY <1>1 DEF StreamAssumption
<1>3. ASSUME NEW i \in 0..(n - 1)
      PROVE  SubSeq(all, i * ChunkSize + 1, (i + 1) * ChunkSize) \in Seq(Plain)
  <2>1. i * ChunkSize \in Nat /\ (i + 1) * ChunkSize \in Nat
    BY DEF StreamAssumption
  <2>2. (i + 1) * ChunkSize <= n * ChunkSize
    BY <1>2 DEF StreamAssumption
  <2> QED
    BY <1>1, <1>2, <2>1, <2>2
<1>4. ASSUME NEW i \in 0..(n - 1) PROVE Frame(i)[1] \in Seq(Plain) /\ Frame(i)[2] \in Seq(Plain)
  <2> DEFINE d == SubSeq(all, i * ChunkSize + 1, (i + 1) * ChunkSize)
  <2>1. d \in Seq(Plain)
    BY <1>3
  <2>2. Stream!Header("data", Len(d)) \in Seq(Plain)
    BY <2>1 DEF Stream!Header, Stream!Unit, Plain
  <2>3. Frame(i) = <<Stream!Header("data", Len(d)), d>>
    BY DEF Stream!TData
  <2> HIDE DEF d
  <2> QED
    BY <2>1, <2>2, <2>3, OfTwo
<1>5. ASSUME NEW w \in 1..(2 * n)
      PROVE  Frame((w - 1) \div 2)[1 + ((w - 1) % 2)] \in Seq(Plain)
  <2>1. (w - 1) \div 2 \in 0..(n - 1)
    BY <1>2
  <2>2. 1 + ((w - 1) % 2) \in {1, 2}
    BY <1>2
  <2> QED
    BY <2>1, <2>2, <1>4
<1>6. Stream!ChunkWrite(c, p).out = [w \in 1..(2 * n) |-> Frame((w - 1) \div 2)[1 + ((w - 1) % 2)]]
    BY DEF Stream!ChunkWrite
<1>7. Stream!ChunkWrite(c, p).out \in Seq(Seq(Plain))
  <2>1. 2 * n \in Nat
    BY <1>2
  <2>2. Stream!ChunkWrite(c, p).out \in [1..(2 * n) -> Seq(Plain)]
    BY <1>5, <1>6
  <2> QED
    BY <2>1, <2>2, Listed
<1>8. Stream!ChunkWrite(c, p).stays = SubSeq(all, n * ChunkSize + 1, Len(all))
    BY DEF Stream!ChunkWrite
<1> QED
    BY <1>1, <1>2, <1>7, <1>8, Pieces

LEMMA StreamInit ==
    ASSUME StreamAssumption, Stream!Init
    PROVE  StreamInv
<1> PICK p \in Packs : Stream!InitWith(p)
    BY DEF Stream!Init
<1> USE DEF Stream!InitWith, Stream!PipeInit
<1>1. pack \in Seq(Nat) /\ sent \in 0..Len(pack)
    BY DEF StreamAssumption
<1>2. <<>> \in Seq(Plain) /\ <<>> \in Seq(Units) /\ <<>> \in Seq(Seq(Units))
      /\ <<>> \in Seq(Seq(Plain))
    OBVIOUS
<1>3. StreamTypes
    BY <1>1, <1>2 DEF StreamTypes
<1>4. FrameOpen /\ ClosesLast /\ OpenHasNotClosed
    BY <1>2 DEF FrameOpen, Stream!Missing, ClosesLast, OpenHasNotClosed
<1>5. EndedIsThrough /\ CancelIsLate
    BY DEF EndedIsThrough, CancelIsLate
<1> QED
    BY <1>3, <1>4, <1>5 DEF StreamInv

\* What an open sender has written so far, and a list of writes that goes on
\* with no closing unit, or with one at its end.
LEMMA OpenWrites ==
    ASSUME StreamInv, sender = "open",
           pack' = pack, sent' \in 0..Len(pack), bw' \in Seq(Plain), chunk' \in Seq(Plain),
           UNCHANGED Stream!pipeVars, UNCHANGED Stream!readerVars,
           \/ sender' = "open" /\ writes' \in Seq(Seq(Plain))
           \/ /\ sender' \in {"finishing", "failing"}
              /\ \E ws \in Seq(Seq(Plain)), h \in Plain, e \in Closing : writes' = ws \o <<<<h, e>>>>
    PROVE  StreamInv'
<1> USE DEF Stream!pipeVars, Stream!readerVars
<1>1. Seq(Plain) \subseteq Seq(Units) /\ Seq(Seq(Plain)) \subseteq Seq(Seq(Units))
  <2>1. Plain \subseteq Units
    BY DEF Units
  <2>2. Seq(Plain) \subseteq Seq(Units)
    BY <2>1
  <2>3. Seq(Seq(Plain)) \subseteq Seq(Seq(Units))
    BY <2>2
  <2> QED
    BY <2>2, <2>3
<1>2. /\ frame \in Seq(Plain) /\ buf \in Seq(Plain)
      /\ \A i \in DOMAIN frame : frame[i] \notin Closing
      /\ \A i \in DOMAIN buf : buf[i] \notin Closing
      /\ ~done /\ rerr # "remote"
    BY Disjoint DEF StreamInv, OpenHasNotClosed
<1>3. EndedIsThrough' /\ CancelIsLate'
    BY DEF StreamInv, EndedIsThrough, CancelIsLate, GivenUp
<1>4. FrameOpen'
    BY DEF StreamInv, FrameOpen, Stream!Missing
<1>5. CASE sender' = "open" /\ writes' \in Seq(Seq(Plain))
  <2>1. \A i \in DOMAIN writes' : \A j \in DOMAIN writes'[i] : writes'[i][j] \notin Closing
    BY <1>5, Disjoint
  <2>2. StreamTypes'
    BY <1>1, <1>5 DEF StreamInv, StreamTypes
  <2>3. ClosesLast' /\ OpenHasNotClosed'
    BY <1>2, <1>5, <2>1 DEF ClosesLast, OpenHasNotClosed
  <2> QED
    BY <1>3, <1>4, <2>2, <2>3 DEF StreamInv
<1>6. CASE /\ sender' \in {"finishing", "failing"}
           /\ \E ws \in Seq(Seq(Plain)), h \in Plain, e \in Closing : writes' = ws \o <<<<h, e>>>>
  <2>1. PICK ws \in Seq(Seq(Plain)), h \in Plain, e \in Closing : writes' = ws \o <<<<h, e>>>>
    BY <1>6
  <2>2. <<h, e>> \in Seq(Units) /\ Len(<<h, e>>) = 2 /\ <<h, e>>[1] = h
    BY DEF Units
  <2> DEFINE he == <<h, e>>
  <2> HIDE DEF he
  <2>3. he \in Seq(Units) /\ Len(he) = 2 /\ he[1] = h
    BY <2>2 DEF he
  <2>4. <<he>> \in Seq(Seq(Units)) /\ Len(<<he>>) = 1 /\ <<he>>[1] = he
    BY <2>3
  <2>5. ws \in Seq(Seq(Units)) /\ writes' = ws \o <<he>>
    BY <1>1, <2>1 DEF he
  <2>6. /\ writes' \in Seq(Seq(Units)) /\ Len(writes') = Len(ws) + 1
        /\ \A i \in 1..Len(ws) : writes'[i] = ws[i]
        /\ writes'[Len(ws) + 1] = he
    BY <2>4, <2>5, Joined
  <2>7. ASSUME NEW i \in DOMAIN writes', NEW j \in DOMAIN writes'[i], writes'[i][j] \in Closing
        PROVE  i = Len(writes') /\ j = Len(writes'[i])
    <3>1. CASE i \in 1..Len(ws)
      <4>1. ws[i] \in Seq(Plain) /\ writes'[i] = ws[i]
        BY <2>6, <3>1
      <4> QED
        BY <2>7, <4>1, Disjoint
    <3>2. CASE i = Len(ws) + 1
      <4>1. j \in {1, 2}
        BY <2>3, <2>6, <2>7, <3>2
      <4>2. j # 1
        BY <2>3, <2>6, <2>7, <3>2, Disjoint
      <4> QED
        BY <2>3, <2>6, <3>2, <4>1, <4>2
    <3> QED
      BY <2>6, <2>7, <3>1, <3>2
  <2>8. StreamTypes'
    BY <2>6 DEF StreamInv, StreamTypes
  <2>9. ClosesLast' /\ OpenHasNotClosed'
    BY <1>2, <1>6, <2>7 DEF ClosesLast, OpenHasNotClosed
  <2> QED
    BY <1>3, <1>4, <2>8, <2>9 DEF StreamInv
<1> QED
    BY <1>5, <1>6

LEMMA SenderFills ==
    ASSUME StreamAssumption, StreamInv, Stream!AddRecord \/ Stream!Finish \/ Stream!SendErr
    PROVE  StreamInv'
<1>1. Stream!WithMagic \in Seq(Plain)
  <2>1. Stream!Magic \in Plain
    BY DEF Stream!Magic, Stream!Unit, Plain
  <2>2. <<Stream!Magic>> \in Seq(Plain) /\ bw \in Seq(Plain)
    BY <2>1 DEF StreamInv, StreamTypes
  <2> QED
    BY <2>2 DEF Stream!WithMagic
<1>2. CASE Stream!AddRecord
  <2> DEFINE b == Stream!BufferedWrite(Stream!WithMagic, Stream!Record(sent + 1))
             c == Stream!ChunkWrite(chunk, b.out)
  <2>1. sent + 1 \in 1..Len(pack)
    BY <1>2 DEF Stream!AddRecord, StreamInv, StreamTypes
  <2>2. Stream!Record(sent + 1) \in Seq(Plain)
    BY <2>1, RecordPlain DEF StreamInv
  <2>3. b.out \in Seq(Plain) /\ b.stays \in Seq(Plain)
    BY <1>1, <2>2, BufferedWritePlain
  <2>4. chunk \in Seq(Plain)
    BY DEF StreamInv, StreamTypes
  <2>5. c.out \in Seq(Seq(Plain)) /\ c.stays \in Seq(Plain)
    BY <2>3, <2>4, ChunkWritePlain
  <2>6. bw' = b.stays /\ chunk' = c.stays /\ writes' = c.out
    BY <1>2 DEF Stream!AddRecord
  <2>7. /\ sender = "open" /\ sender' = "open" /\ sent' = sent + 1 /\ pack' = pack
        /\ UNCHANGED Stream!pipeVars /\ UNCHANGED Stream!readerVars
    BY <1>2 DEF Stream!AddRecord
  <2> HIDE DEF b, c
  <2>8. bw' \in Seq(Plain) /\ chunk' \in Seq(Plain) /\ writes' \in Seq(Seq(Plain))
        /\ sent' \in 0..Len(pack)
    BY <2>1, <2>3, <2>5, <2>6, <2>7
  <2> QED
    BY <2>7, <2>8, OpenWrites
<1>3. CASE Stream!Finish
  <2> DEFINE m == Append(Stream!WithMagic, Stream!EndTag)
             c == Stream!ChunkWrite(chunk, m)
             ws == c.out \o Stream!ChunkFlush(c.stays)
  <2>1. Stream!EndTag \in Plain
    BY DEF Stream!EndTag, Stream!Unit, Plain
  <2>2. m \in Seq(Plain) /\ chunk \in Seq(Plain)
    BY <1>1, <2>1 DEF StreamInv, StreamTypes
  <2> HIDE DEF m
  <2>3. c.out \in Seq(Seq(Plain)) /\ c.stays \in Seq(Plain)
    BY <2>2, ChunkWritePlain
  <2>4. Stream!ChunkFlush(c.stays) \in Seq(Seq(Plain))
    <3> DEFINE d == c.stays
    <3>1. Stream!Header("data", Len(d)) \in Seq(Plain)
      BY <2>3 DEF Stream!Header, Stream!Unit, Plain
    <3>2. d \in Seq(Plain)
      BY <2>3
    <3> HIDE DEF d
    <3>3. <<Stream!Header("data", Len(d)), d>> \in Seq(Seq(Plain))
      BY <3>1, <3>2, OfTwo
    <3>4. Stream!ChunkFlush(d) \in Seq(Seq(Plain))
      BY <3>3 DEF Stream!ChunkFlush, Stream!TData
    <3> QED
      BY <3>4 DEF d
  <2>5. ws \in Seq(Seq(Plain))
    BY <2>3, <2>4, Joined
  <2> DEFINE h == Stream!Unit("header", 0)
             e == Stream!Unit("dataend", 0)
  <2>6. h \in Plain /\ e \in Closing
    BY DEF Stream!Unit, Plain, Closing
  <2>7. writes' = ws \o <<Stream!Header("dataend", 0)>>
    BY <1>3 DEF Stream!Finish, m
  <2>8. writes' = ws \o <<<<h, e>>>>
    BY <2>7 DEF Stream!Header
  <2>9. /\ sender = "open" /\ sender' = "finishing" /\ sent' = sent /\ pack' = pack
        /\ bw' = <<>> /\ chunk' = <<>>
        /\ UNCHANGED Stream!pipeVars /\ UNCHANGED Stream!readerVars
    BY <1>3 DEF Stream!Finish
  <2> HIDE DEF ws, h, e
  <2>10. bw' \in Seq(Plain) /\ chunk' \in Seq(Plain) /\ sent' \in 0..Len(pack)
    BY <2>9 DEF StreamInv, StreamTypes
  <2> QED
    BY <2>5, <2>6, <2>8, <2>9, <2>10, OpenWrites
<1>4. CASE Stream!SendErr
  <2> DEFINE h == Stream!Unit("header", 0)
             e == Stream!Unit("err", 0)
  <2>1. h \in Plain /\ e \in Closing
    BY DEF Stream!Unit, Plain, Closing
  <2>2. writes' = <<<<h, e>>>>
    BY <1>4 DEF Stream!SendErr, Stream!Header
  <2>3. <<>> \in Seq(Seq(Plain)) /\ writes' = <<>> \o <<<<h, e>>>>
    BY <2>2
  <2>4. /\ sender = "open" /\ sender' = "failing" /\ sent' = sent /\ pack' = pack
        /\ bw' = bw /\ chunk' = chunk
        /\ UNCHANGED Stream!pipeVars /\ UNCHANGED Stream!readerVars
    BY <1>4 DEF Stream!SendErr
  <2> HIDE DEF h, e
  <2>5. bw' \in Seq(Plain) /\ chunk' \in Seq(Plain) /\ sent' \in 0..Len(pack)
    BY <2>4 DEF StreamInv, StreamTypes
  <2> QED
    BY <2>1, <2>3, <2>4, <2>5, OpenWrites
<1> QED
    BY <1>2, <1>3, <1>4

\* In a list of writes, an element of C is the last of the last.
LastIn(C, ws) ==
    \A i \in DOMAIN ws : \A j \in DOMAIN ws[i] : ws[i][j] \in C => i = Len(ws) /\ j = Len(ws[i])

\* The first k units of the writes ws go to the buffer b, which has no C.
Passes(T, C, b, ws, k, b2, ws2) ==
    /\ b \in Seq(T) /\ \A i \in DOMAIN b : b[i] \notin C
    /\ ws \in Seq(Seq(T)) /\ ws # <<>> /\ LastIn(C, ws)
    /\ k \in 0..Len(Head(ws))
    /\ b2 = b \o SubSeq(Head(ws), 1, k)
    /\ ws2 = LET rest == SubSeq(Head(ws), k + 1, Len(Head(ws)))
             IN IF rest = <<>> THEN Tail(ws) ELSE <<rest>> \o Tail(ws)

LEMMA WritePasses ==
    ASSUME NEW T, NEW C, NEW b, NEW ws, NEW k, NEW b2, NEW ws2,
           Passes(T, C, b, ws, k, b2, ws2)
    PROVE  /\ b2 \in Seq(T) /\ ws2 \in Seq(Seq(T))
           /\ \A i \in DOMAIN b2 : b2[i] \in C => i = Len(b2) /\ ws2 = <<>>
           /\ LastIn(C, ws2)
<1>0. /\ b \in Seq(T) /\ Len(b) \in Nat /\ DOMAIN b = 1..Len(b)
      /\ ws \in Seq(Seq(T)) /\ Len(ws) \in Nat \ {0} /\ DOMAIN ws = 1..Len(ws)
    BY DEF Passes
<1>1. PICK h : h = ws[1] /\ h = Head(ws) /\ h \in Seq(T) /\ Len(h) \in Nat /\ DOMAIN h = 1..Len(h)
    BY <1>0
<1>2. k \in 0..Len(h)
    BY <1>1 DEF Passes
<1>3. PICK first : /\ first \in Seq(T) /\ first = SubSeq(h, 1, k) /\ Len(first) = k
                   /\ \A i \in 1..k : first[i] = h[i]
  <2>1. /\ SubSeq(h, 1, k) \in Seq(T) /\ Len(SubSeq(h, 1, k)) = k
        /\ \A i \in 1..k : SubSeq(h, 1, k)[i] = h[i]
    BY <1>1, <1>2, Pieces
  <2> QED
    BY <2>1, Zenon
<1>4. PICK rest : /\ rest \in Seq(T) /\ rest = SubSeq(h, k + 1, Len(h)) /\ Len(rest) = Len(h) - k
                  /\ \A i \in 1..(Len(h) - k) : rest[i] = h[k + i]
  <2>1. /\ SubSeq(h, k + 1, Len(h)) \in Seq(T) /\ Len(SubSeq(h, k + 1, Len(h))) = Len(h) - k
        /\ \A i \in 1..(Len(h) - k) : SubSeq(h, k + 1, Len(h))[i] = h[k + i]
    BY <1>1, <1>2, Pieces
  <2> QED
    BY <2>1, Zenon
<1>5. PICK tail : /\ tail \in Seq(Seq(T)) /\ tail = Tail(ws) /\ Len(tail) = Len(ws) - 1
                  /\ DOMAIN tail = 1..(Len(ws) - 1)
                  /\ \A i \in 1..(Len(ws) - 1) : tail[i] = ws[i + 1]
  <2>1. /\ Tail(ws) \in Seq(Seq(T)) /\ Len(Tail(ws)) = Len(ws) - 1
        /\ DOMAIN Tail(ws) = 1..(Len(ws) - 1)
        /\ \A i \in 1..(Len(ws) - 1) : Tail(ws)[i] = ws[i + 1]
    BY <1>0, Tails
  <2> QED
    BY <2>1, Zenon
<1>6. b2 = b \o first /\ ws2 = IF rest = <<>> THEN tail ELSE <<rest>> \o tail
    BY <1>1, <1>3, <1>4, <1>5 DEF Passes
<1>7. /\ \A i \in DOMAIN b : b[i] \notin C
      /\ \A i \in DOMAIN ws : \A j \in DOMAIN ws[i] :
            ws[i][j] \in C => i = Len(ws) /\ j = Len(ws[i])
      /\ \A j \in DOMAIN h : h[j] \in C => Len(ws) = 1 /\ j = Len(h)
  <2>1. /\ \A i \in DOMAIN b : b[i] \notin C
        /\ \A i \in DOMAIN ws : \A j \in DOMAIN ws[i] :
            ws[i][j] \in C => i = Len(ws) /\ j = Len(ws[i])
    BY DEF Passes, LastIn
  <2>2. 1 \in DOMAIN ws
    BY <1>0
  <2> QED
    BY <1>1, <2>1, <2>2
<1>8. /\ b2 \in Seq(T) /\ Len(b2) = Len(b) + k /\ DOMAIN b2 = 1..(Len(b) + k)
      /\ \A i \in 1..Len(b) : b2[i] = b[i]
      /\ \A i \in (Len(b) + 1)..(Len(b) + k) : b2[i] = first[i - Len(b)]
  <2>1. /\ b2 \in Seq(T) /\ Len(b2) = Len(b) + Len(first)
        /\ \A i \in 1..Len(b) : b2[i] = b[i]
        /\ \A i \in (Len(b) + 1)..(Len(b) + Len(first)) : b2[i] = first[i - Len(b)]
    BY <1>0, <1>3, <1>6, Joined
  <2> QED
    BY <1>3, <2>1
<1>9. ASSUME NEW i \in DOMAIN b2, b2[i] \in C
      PROVE  i = Len(b2) /\ ws2 = <<>>
  <2>1. i \in 1..(Len(b) + k)
    BY <1>8
  <2>2. i \notin 1..Len(b)
    BY <1>0, <1>7, <1>8, <1>9
  <2>3. i - Len(b) \in 1..k /\ i \in (Len(b) + 1)..(Len(b) + k)
    BY <1>0, <1>1, <1>2, <2>1, <2>2
  <2>4. h[i - Len(b)] \in C
    BY <1>3, <1>8, <1>9, <2>3
  <2>5. Len(ws) = 1 /\ i - Len(b) = Len(h)
    BY <1>1, <1>2, <1>7, <2>3, <2>4
  <2>6. k = Len(h) /\ i = Len(b2)
    BY <1>0, <1>1, <1>2, <1>8, <2>3, <2>5
  <2>7. Len(rest) = 0 /\ Len(tail) = 0
    BY <1>1, <1>4, <1>5, <2>5, <2>6
  <2>8. rest = <<>> /\ tail = <<>>
    BY <1>4, <1>5, <2>7, OfNone
  <2> QED
    BY <1>6, <2>6, <2>8
<1>10. CASE rest = <<>>
  <2>1. ws2 = tail
    BY <1>6, <1>10
  <2>2. ASSUME NEW i \in DOMAIN tail, NEW j \in DOMAIN tail[i], tail[i][j] \in C
        PROVE  i = Len(tail) /\ j = Len(tail[i])
    <3>1. i \in 1..(Len(ws) - 1)
      BY <1>5
    <3>2. i + 1 \in DOMAIN ws /\ tail[i] = ws[i + 1]
      BY <1>0, <1>5, <3>1
    <3>3. i + 1 = Len(ws) /\ j = Len(ws[i + 1])
      BY <1>7, <2>2, <3>2
    <3> QED
      BY <1>0, <1>5, <3>1, <3>2, <3>3
  <2>3. LastIn(C, ws2)
    BY <2>1, <2>2 DEF LastIn
  <2> QED
    BY <1>5, <1>8, <1>9, <2>1, <2>3
<1>11. CASE rest # <<>>
  <2>1. PICK one : one \in Seq(Seq(T)) /\ Len(one) = 1 /\ one[1] = rest /\ one = <<rest>>
    BY <1>4, OfOne, Zenon
  <2>2. ws2 = one \o tail
    BY <1>6, <1>11, <2>1
  <2>3. /\ ws2 \in Seq(Seq(T)) /\ Len(ws2) = 1 + Len(tail)
        /\ \A i \in 1..1 : ws2[i] = one[i]
        /\ \A i \in (1 + 1)..(1 + Len(tail)) : ws2[i] = tail[i - 1]
    BY <1>5, <2>1, <2>2, Joined
  <2>4. Len(ws2) = Len(ws) /\ ws2[1] = rest
    BY <1>0, <1>5, <2>1, <2>3
  <2>5. ASSUME NEW i \in 2..Len(ws) PROVE ws2[i] = ws[i]
    <3>1. i \in (1 + 1)..(1 + Len(tail)) /\ i - 1 \in 1..(Len(ws) - 1) /\ (i - 1) + 1 = i
      BY <1>0, <1>5
    <3>2. ws2[i] = tail[i - 1] /\ tail[i - 1] = ws[(i - 1) + 1]
      BY <1>5, <2>3, <3>1
    <3> QED
      BY <3>1, <3>2
  <2>6. ASSUME NEW i \in DOMAIN ws2, NEW j \in DOMAIN ws2[i], ws2[i][j] \in C
        PROVE  i = Len(ws2) /\ j = Len(ws2[i])
    <3>1. i \in 1..Len(ws)
      BY <2>3, <2>4
    <3>2. CASE i = 1
      <4>0. j \in DOMAIN rest /\ rest[j] \in C
        BY <2>4, <2>6, <3>2
      <4>1. j \in 1..Len(rest) /\ rest[j] \in C
        BY <1>4, <4>0
      <4>2. j \in 1..(Len(h) - k) /\ k + j \in DOMAIN h
        BY <1>1, <1>2, <1>4, <4>1
      <4>3. h[k + j] \in C
        BY <1>4, <4>1, <4>2
      <4>4. Len(ws) = 1 /\ k + j = Len(h)
        BY <1>7, <4>2, <4>3
      <4>5. j = Len(rest)
        BY <1>1, <1>2, <1>4, <4>2, <4>4
      <4> QED
        BY <2>4, <3>2, <4>4, <4>5
    <3>3. CASE i # 1
      <4>1. i \in 2..Len(ws)
        BY <1>0, <3>1, <3>3
      <4>2. ws2[i] = ws[i] /\ i \in DOMAIN ws
        BY <1>0, <2>5, <3>1, <4>1
      <4> QED
        BY <1>7, <2>4, <2>6, <4>2
    <3> QED
      BY <3>2, <3>3
  <2>7. LastIn(C, ws2)
    BY <2>6 DEF LastIn
  <2> QED
    BY <1>8, <1>9, <2>3, <2>7
<1> QED
    BY <1>10, <1>11

\* poll_write takes the head of what is to be written, or the first part.
LEMMA SenderWrites ==
    ASSUME StreamAssumption, StreamInv, Stream!Write
    PROVE  StreamInv'
<1> DEFINE k == Stream!Taken(Head(writes))
<1>1. /\ writes # <<>> /\ Len(buf) < PipeLimit /\ ~canceled /\ ~ended
      /\ buf' = buf \o SubSeq(Head(writes), 1, k)
      /\ writes' = LET rest == SubSeq(Head(writes), k + 1, Len(Head(writes)))
                   IN IF rest = <<>> THEN Tail(writes) ELSE <<rest>> \o Tail(writes)
      /\ UNCHANGED <<ended, canceled, pack, sent, bw, chunk, sender>>
      /\ UNCHANGED Stream!readerVars
    BY DEF Stream!Write, Stream!PollWrite, Stream!WriteBlocks, StreamAssumption, StreamInv, StreamTypes
<1>2. writes \in Seq(Seq(Units)) /\ buf \in Seq(Units) /\ Head(writes) \in Seq(Units)
    BY <1>1 DEF StreamInv, StreamTypes
<1>3. k \in 0..Len(Head(writes))
    BY <1>1, <1>2 DEF Stream!Taken, Stream!Smaller, StreamAssumption
<1> HIDE DEF k
<1>4. /\ \A i \in DOMAIN frame : frame[i] \notin Closing
      /\ \A i \in DOMAIN buf : buf[i] \notin Closing
      /\ ~done /\ rerr # "remote"
      /\ LastIn(Closing, writes)
    BY <1>1 DEF StreamInv, ClosesLast, LastIn
<1>5. /\ buf' \in Seq(Units) /\ writes' \in Seq(Seq(Units))
      /\ \A i \in DOMAIN buf' : buf'[i] \in Closing => i = Len(buf') /\ writes' = <<>>
      /\ LastIn(Closing, writes')
  <2>1. Passes(Units, Closing, buf, writes, k, buf', writes')
    BY <1>1, <1>2, <1>3, <1>4 DEF Passes
  <2> QED
    BY <2>1, WritePasses
<1>6. StreamTypes' /\ FrameOpen'
    BY <1>1, <1>5 DEF StreamInv, StreamTypes, FrameOpen, Stream!Missing, Stream!readerVars
<1>7. EndedIsThrough' /\ CancelIsLate'
    BY <1>1 DEF StreamInv, StreamTypes, EndedIsThrough, CancelIsLate, GivenUp, Stream!readerVars
<1>8. ClosesLast'
    BY <1>1, <1>4, <1>5 DEF ClosesLast, LastIn, Stream!readerVars
<1>9. OpenHasNotClosed'
  <2> SUFFICES ASSUME sender = "open" PROVE OpenHasNotClosed'
    BY <1>1 DEF OpenHasNotClosed
  <2>1. frame \in Seq(Plain) /\ buf \in Seq(Plain) /\ writes \in Seq(Seq(Plain)) /\ ~done /\ rerr # "remote"
    BY DEF StreamInv, OpenHasNotClosed
  <2>2. LastIn({}, writes) /\ \A i \in DOMAIN buf : buf[i] \notin {}
    BY DEF LastIn
  <2>3. Passes(Plain, {}, buf, writes, k, buf', writes')
    BY <1>1, <1>3, <2>1, <2>2 DEF Passes
  <2>4. buf' \in Seq(Plain) /\ writes' \in Seq(Seq(Plain))
    BY <2>3, WritePasses
  <2> QED
    BY <1>1, <2>1, <2>4 DEF OpenHasNotClosed, Stream!readerVars
<1> QED
    BY <1>6, <1>7, <1>8, <1>9 DEF StreamInv

\* The first k units of the buffer b go to the frame fr, which has no C; a C in
\* b is its last unit, and then there are no writes ws left.
Arrives(T, C, ws, fr, b, k, fr2, b2) ==
    /\ fr \in Seq(T) /\ \A i \in DOMAIN fr : fr[i] \notin C
    /\ b \in Seq(T) /\ \A i \in DOMAIN b : b[i] \in C => i = Len(b) /\ ws = <<>>
    /\ k \in 0..Len(b)
    /\ fr2 = fr \o SubSeq(b, 1, k)
    /\ b2 = SubSeq(b, k + 1, Len(b))

LEMMA ReadArrives ==
    ASSUME NEW T, NEW C, NEW ws, NEW fr, NEW b, NEW k, NEW fr2, NEW b2,
           Arrives(T, C, ws, fr, b, k, fr2, b2)
    PROVE  /\ fr2 \in Seq(T) /\ b2 \in Seq(T)
           /\ \A i \in DOMAIN fr2 : fr2[i] \in C => i = Len(fr2) /\ b2 = <<>> /\ ws = <<>>
           /\ \A i \in DOMAIN b2 : b2[i] \in C => i = Len(b2) /\ ws = <<>>
<1>0. /\ fr \in Seq(T) /\ Len(fr) \in Nat /\ DOMAIN fr = 1..Len(fr)
      /\ b \in Seq(T) /\ Len(b) \in Nat /\ DOMAIN b = 1..Len(b)
      /\ k \in 0..Len(b)
    BY DEF Arrives
<1>1. PICK first : /\ first \in Seq(T) /\ first = SubSeq(b, 1, k) /\ Len(first) = k
                   /\ \A i \in 1..k : first[i] = b[i]
  <2>1. /\ SubSeq(b, 1, k) \in Seq(T) /\ Len(SubSeq(b, 1, k)) = k
        /\ \A i \in 1..k : SubSeq(b, 1, k)[i] = b[i]
    BY <1>0, Pieces
  <2> QED
    BY <2>1, Zenon
<1>2. /\ b2 \in Seq(T) /\ Len(b2) = Len(b) - k
      /\ \A i \in 1..(Len(b) - k) : b2[i] = b[k + i]
  <2>1. /\ SubSeq(b, k + 1, Len(b)) \in Seq(T) /\ Len(SubSeq(b, k + 1, Len(b))) = Len(b) - k
        /\ \A i \in 1..(Len(b) - k) : SubSeq(b, k + 1, Len(b))[i] = b[k + i]
    BY <1>0, Pieces
  <2> QED
    BY <2>1 DEF Arrives
<1>3. /\ \A i \in DOMAIN fr : fr[i] \notin C
      /\ \A i \in DOMAIN b : b[i] \in C => i = Len(b) /\ ws = <<>>
    BY DEF Arrives
<1>4. fr2 = fr \o first
    BY <1>1 DEF Arrives
<1>5. /\ fr2 \in Seq(T) /\ Len(fr2) = Len(fr) + k /\ DOMAIN fr2 = 1..(Len(fr) + k)
      /\ \A i \in 1..Len(fr) : fr2[i] = fr[i]
      /\ \A i \in (Len(fr) + 1)..(Len(fr) + k) : fr2[i] = first[i - Len(fr)]
  <2>1. /\ fr2 \in Seq(T) /\ Len(fr2) = Len(fr) + Len(first)
        /\ \A i \in 1..Len(fr) : fr2[i] = fr[i]
        /\ \A i \in (Len(fr) + 1)..(Len(fr) + Len(first)) : fr2[i] = first[i - Len(fr)]
    BY <1>0, <1>1, <1>4, Joined
  <2> QED
    BY <1>1, <2>1
<1>6. ASSUME NEW i \in DOMAIN fr2, fr2[i] \in C PROVE i = Len(fr2) /\ b2 = <<>> /\ ws = <<>>
  <2>1. i \in 1..(Len(fr) + k)
    BY <1>5
  <2>2. i \notin 1..Len(fr)
    BY <1>0, <1>3, <1>5, <1>6
  <2>3. i - Len(fr) \in 1..k /\ i \in (Len(fr) + 1)..(Len(fr) + k)
    BY <1>0, <2>1, <2>2
  <2>4. b[i - Len(fr)] \in C /\ i - Len(fr) \in DOMAIN b
    <3>1. fr2[i] = first[i - Len(fr)]
      BY <1>5, <2>3
    <3>2. first[i - Len(fr)] = b[i - Len(fr)] /\ i - Len(fr) \in DOMAIN b
      BY <1>0, <1>1, <2>3
    <3> QED
      BY <1>6, <3>1, <3>2
  <2>5. i - Len(fr) = Len(b) /\ ws = <<>>
    BY <1>3, <2>4
  <2>6. i = Len(fr2) /\ Len(b2) = 0
    <3>0. Len(b) \in 1..k
      BY <2>3, <2>5, Zenon
    <3>1. k \in 0..Len(b) /\ Len(b) \in Nat
      BY <1>0
    <3>2. k = Len(b)
      BY <3>0, <3>1
    <3> QED
      BY <1>0, <1>2, <1>5, <2>1, <2>5, <3>2
  <2> QED
    BY <1>2, <2>5, <2>6, OfNone
<1>7. ASSUME NEW i \in DOMAIN b2, b2[i] \in C PROVE i = Len(b2) /\ ws = <<>>
  <2>1. i \in 1..(Len(b) - k)
    BY <1>2
  <2>2. b[k + i] \in C /\ k + i \in DOMAIN b
    BY <1>0, <1>2, <1>7, <2>1
  <2>3. k + i = Len(b) /\ ws = <<>>
    BY <1>3, <2>2
  <2> QED
    BY <1>0, <1>2, <2>1, <2>3
<1> QED
    BY <1>2, <1>5, <1>6, <1>7

\* fill: read_full takes what there is of the header or of the payload.
LEMMA ReaderReads ==
    ASSUME StreamAssumption, StreamInv, Stream!ReadFrame
    PROVE  StreamInv'
<1> DEFINE k == Stream!ReadTakes(Stream!Missing(frame))
           f == frame \o SubSeq(buf, 1, k)
<1>1. /\ rerr = "none" /\ ~done /\ ~canceled /\ buf # <<>>
      /\ buf' = SubSeq(buf, k + 1, Len(buf))
      /\ UNCHANGED <<ended, canceled, pack, state, reader>> /\ UNCHANGED Stream!senderVars
    BY DEF Stream!ReadFrame, Stream!Filling, Stream!PollRead
<1>2. \/ Stream!Missing(f) > 0 /\ frame' = f /\ UNCHANGED <<done, rerr>>
      \/ /\ ~(Stream!Missing(f) > 0) /\ frame' = <<>>
         /\ done' = (f[2].kind = "dataend")
         /\ rerr' = IF f[2].kind = "err" THEN "remote" ELSE "none"
    BY DEF Stream!ReadFrame
<1>3. frame \in Seq(Units) /\ buf \in Seq(Units) /\ writes \in Seq(Seq(Units))
    BY DEF StreamInv, StreamTypes
<1>4. ASSUME NEW s \in Seq(Units) PROVE Stream!Missing(s) \in Int
  <2>1. CASE Len(s) < 2
    BY <2>1 DEF Stream!Missing
  <2>2. CASE ~(Len(s) < 2)
    <3>1. s[2] \in Units
      BY <2>2
    <3>2. s[2].n \in Nat
      BY <3>1 DEF Units, Closing, Plain
    <3> QED
      BY <2>2, <3>2 DEF Stream!Missing
  <2> QED
    BY <2>1, <2>2
<1>5. k \in 0..Len(buf)
  <2>1. Stream!Missing(frame) \in Int /\ Stream!Missing(frame) > 0
    BY <1>3, <1>4 DEF StreamInv, FrameOpen
  <2> QED
    BY <1>3, <2>1 DEF Stream!ReadTakes, Stream!Smaller
<1> HIDE DEF k
<1>6. /\ \A i \in DOMAIN frame : frame[i] \notin Closing
      /\ \A i \in DOMAIN buf : buf[i] \in Closing => i = Len(buf) /\ writes = <<>>
    BY <1>1 DEF StreamInv, ClosesLast
<1>7. Arrives(Units, Closing, writes, frame, buf, k, f, buf')
    BY <1>1, <1>3, <1>5, <1>6 DEF Arrives
<1> HIDE DEF f
<1>8. /\ f \in Seq(Units) /\ buf' \in Seq(Units)
      /\ \A i \in DOMAIN f : f[i] \in Closing => i = Len(f) /\ buf' = <<>> /\ writes = <<>>
      /\ \A i \in DOMAIN buf' : buf'[i] \in Closing => i = Len(buf') /\ writes = <<>>
    BY <1>7, ReadArrives
<1>9. sender = "open" => f \in Seq(Plain) /\ buf' \in Seq(Plain)
  <2> SUFFICES ASSUME sender = "open" PROVE f \in Seq(Plain) /\ buf' \in Seq(Plain)
    OBVIOUS
  <2>1. frame \in Seq(Plain) /\ buf \in Seq(Plain)
    BY DEF StreamInv, OpenHasNotClosed
  <2>2. Arrives(Plain, {}, writes, frame, buf, k, f, buf')
    BY <1>1, <1>5, <2>1 DEF Arrives, f
  <2> QED
    BY <2>2, ReadArrives
<1>10. CASE Stream!Missing(f) > 0 /\ frame' = f /\ UNCHANGED <<done, rerr>>
  <2>1. StreamTypes'
    BY <1>1, <1>8, <1>10 DEF StreamInv, StreamTypes, Stream!senderVars
  <2>2. FrameOpen'
    BY <1>10 DEF FrameOpen, Stream!Missing
  <2>3. ClosesLast'
    BY <1>1, <1>8, <1>10 DEF StreamInv, ClosesLast, Stream!senderVars
  <2>4. OpenHasNotClosed'
    BY <1>1, <1>9, <1>10 DEF StreamInv, OpenHasNotClosed, Stream!senderVars
  <2>5. EndedIsThrough' /\ CancelIsLate'
    BY <1>1, <1>10 DEF StreamInv, EndedIsThrough, CancelIsLate, GivenUp, Stream!senderVars
  <2> QED
    BY <2>1, <2>2, <2>3, <2>4, <2>5 DEF StreamInv
<1>11. CASE /\ ~(Stream!Missing(f) > 0) /\ frame' = <<>>
            /\ done' = (f[2].kind = "dataend")
            /\ rerr' = IF f[2].kind = "err" THEN "remote" ELSE "none"
  <2>0. 2 \in DOMAIN f
    BY <1>8, <1>11 DEF Stream!Missing
  <2>1. f[2] \in Units
    BY <1>8, <2>0
  <2>2. done' \/ rerr' = "remote" => f[2] \in Closing
    BY <1>11, <2>1 DEF Units, Closing, Plain
  <2>3. StreamTypes'
    BY <1>1, <1>8, <1>11 DEF StreamInv, StreamTypes, Stream!senderVars
  <2>4. FrameOpen'
    BY <1>11 DEF FrameOpen, Stream!Missing
  <2>5. done' \/ rerr' = "remote" => buf' = <<>> /\ writes = <<>>
    BY <1>8, <2>0, <2>2
  <2>6. ClosesLast'
    BY <1>1, <1>8, <1>11, <2>5 DEF StreamInv, ClosesLast, Stream!senderVars
  <2>7. OpenHasNotClosed'
    <3>1. sender = "open" => f[2] \in Plain
      BY <1>9, <2>0
    <3>2. sender = "open" => ~done' /\ rerr' # "remote"
      BY <2>2, <3>1, Disjoint
    <3>3. frame' \in Seq(Plain)
      BY <1>11
    <3> QED
      BY <1>1, <1>9, <3>2, <3>3 DEF StreamInv, OpenHasNotClosed, Stream!senderVars
  <2>8. EndedIsThrough' /\ CancelIsLate'
    BY <1>1, <1>11 DEF StreamInv, EndedIsThrough, CancelIsLate, GivenUp, Stream!senderVars
  <2> QED
    BY <2>3, <2>4, <2>6, <2>7, <2>8 DEF StreamInv
<1> QED
    BY <1>2, <1>10, <1>11

\* The send half sleeps or is given up.
LEMMA SenderEnds ==
    ASSUME StreamInv,
           Stream!WriteSleeps \/ Stream!WriteFails \/ Stream!CloseSend \/ Stream!DropSend
    PROVE  StreamInv'
<1> USE DEF Stream!pipeVars, Stream!senderVars, Stream!readerVars
<1>1. CASE Stream!WriteSleeps
    BY <1>1 DEF Stream!WriteSleeps, Stream!PollWritePending, StreamInv, StreamTypes, FrameOpen,
                Stream!Missing, ClosesLast, OpenHasNotClosed, EndedIsThrough, CancelIsLate, GivenUp
<1>2. ASSUME /\ sender' \in {"closed", "reset"} /\ writes' = <<>> /\ ended' = TRUE
             /\ sender' = "reset" => GivenUp
             /\ UNCHANGED <<pack, sent, bw, chunk, buf, canceled>> /\ UNCHANGED Stream!readerVars
      PROVE  StreamInv'
  <2>1. writes' \in Seq(Seq(Units))
    BY <1>2
  <2>2. StreamTypes' /\ FrameOpen'
    BY <1>2, <2>1 DEF StreamInv, StreamTypes, FrameOpen, Stream!Missing
  <2>3. ClosesLast' /\ OpenHasNotClosed'
    BY <1>2 DEF StreamInv, ClosesLast, OpenHasNotClosed
  <2>4. EndedIsThrough' /\ CancelIsLate'
    BY <1>2 DEF StreamInv, EndedIsThrough, CancelIsLate, GivenUp
  <2> QED
    BY <2>2, <2>3, <2>4 DEF StreamInv
<1>3. CASE Stream!WriteFails
  <2>1. GivenUp
    BY <1>3 DEF Stream!WriteFails, Stream!WriteRefused, StreamInv, EndedIsThrough, CancelIsLate
  <2> QED
    BY <1>2, <1>3, <2>1 DEF Stream!WriteFails, Stream!CloseWrite
<1>4. CASE Stream!CloseSend
    BY <1>2, <1>4 DEF Stream!CloseSend, Stream!CloseWrite
<1>5. CASE Stream!DropSend
    BY <1>2, <1>5 DEF Stream!DropSend, Stream!CloseWrite
<1> QED
    BY <1>1, <1>3, <1>4, <1>5

\* The reader parses what it has, or is told of the end.
LEMMA ReaderParses ==
    ASSUME StreamInv,
           \/ Stream!ReadSleeps \/ Stream!ReadEof \/ Stream!ParseUnit \/ Stream!Truncated
           \/ Stream!Drain \/ Stream!DrainChunk \/ Stream!Finished \/ UNCHANGED Stream!vars
    PROVE  StreamInv'
<1> USE DEF Stream!pipeVars, Stream!senderVars, Stream!readerVars
<1>1. ASSUME UNCHANGED <<buf, ended, canceled, frame, done, pack>>, UNCHANGED Stream!senderVars,
             rerr' = rerr \/ (rerr' \in {"eof", "cut"} /\ ended /\ buf = <<>>),
             GivenUp => GivenUp'
      PROVE  StreamInv'
  <2>1. StreamTypes' /\ FrameOpen'
    BY <1>1 DEF StreamInv, StreamTypes, FrameOpen, Stream!Missing
  <2>2. ClosesLast' /\ OpenHasNotClosed'
    BY <1>1 DEF StreamInv, ClosesLast, OpenHasNotClosed
  <2>3. EndedIsThrough' /\ CancelIsLate'
    BY <1>1 DEF StreamInv, EndedIsThrough, CancelIsLate
  <2> QED
    BY <2>1, <2>2, <2>3 DEF StreamInv
<1>2. CASE Stream!ReadSleeps
    BY <1>1, <1>2 DEF Stream!ReadSleeps, Stream!PollReadPending, GivenUp
<1>3. CASE Stream!ReadEof
    BY <1>1, <1>3 DEF Stream!ReadEof, Stream!ReadsEof, GivenUp
<1>4. CASE Stream!ParseUnit
    BY <1>1, <1>4 DEF Stream!ParseUnit, Stream!Parsing, GivenUp
<1>5. CASE Stream!Truncated
    BY <1>1, <1>5 DEF Stream!Truncated, GivenUp
<1>6. CASE Stream!Drain
    BY <1>1, <1>6 DEF Stream!Drain, GivenUp
<1>7. CASE Stream!DrainChunk
    BY <1>1, <1>7 DEF Stream!DrainChunk, GivenUp
<1>8. CASE Stream!Finished \/ UNCHANGED Stream!vars
    BY <1>1, <1>8 DEF Stream!Finished, Stream!vars, GivenUp
<1> QED
    BY <1>2, <1>3, <1>4, <1>5, <1>6, <1>7, <1>8

\* The receive half is dropped, and cancels unless it is at the end: behind a
\* closing unit there is nothing left to write.
LEMMA ReaderEnds ==
    ASSUME StreamInv, Stream!DropRecv \/ Stream!Abandon
    PROVE  StreamInv'
<1> USE DEF Stream!pipeVars, Stream!senderVars
<1>1. /\ UNCHANGED <<pack, sent, bw, chunk, writes, sender, frame, done, rerr, state, ended>>
      /\ \/ UNCHANGED <<buf, canceled>>
         \/ canceled' = TRUE /\ buf' = <<>> /\ ~(ended /\ buf = <<>>)
      /\ reader' \in {"dropped", "abandoned"}
      /\ reader' = "dropped" => reader # "abandoned" /\ (state = "error" \/ done \/ rerr # "none")
    BY DEF Stream!DropRecv, Stream!Abandon, Stream!CancelUnlessAtEof, Stream!CancelRead
<1>2. rerr \in {"none", "eof", "cut", "remote"}
    BY DEF StreamInv, StreamTypes
<1>3. buf' \in Seq(Units) /\ (buf \in Seq(Plain) => buf' \in Seq(Plain))
  <2>1. <<>> \in Seq(Units) /\ <<>> \in Seq(Plain) /\ buf \in Seq(Units)
    BY DEF StreamInv, StreamTypes
  <2>2. buf' = buf \/ buf' = <<>>
    BY <1>1
  <2> QED
    BY <2>1, <2>2, Zenon
<1>4. StreamTypes' /\ FrameOpen'
    BY <1>1, <1>3 DEF StreamInv, StreamTypes, FrameOpen, Stream!Missing
<1>5. ClosesLast' /\ OpenHasNotClosed'
    BY <1>1, <1>3 DEF StreamInv, ClosesLast, OpenHasNotClosed
<1>6. EndedIsThrough'
    BY <1>1 DEF StreamInv, EndedIsThrough
<1>7. CancelIsLate'
    BY <1>1, <1>2 DEF StreamInv, ClosesLast, OpenHasNotClosed, EndedIsThrough, CancelIsLate, GivenUp
<1> QED
    BY <1>4, <1>5, <1>6, <1>7 DEF StreamInv

\* StreamInv is kept by every step.
LEMMA StreamStep ==
    ASSUME StreamAssumption, StreamInv, [Stream!Next]_Stream!vars
    PROVE  StreamInv'
    BY SenderFills, SenderWrites, ReaderReads, SenderEnds, ReaderParses, ReaderEnds
       DEF Stream!Next, Stream!Sender, Stream!Reader

\* wire/src/pack.rs, PackReader::drain, over mem.rs's streams: a reader that
\* takes a pack to its end marker and drains it never resets the sender, for
\* every pack and every size of the chunks, the buffer and the pipe: a write
\* fails only when the reader gave up or found the pack cut short.
THEOREM StreamNoReset ==
    ASSUME StreamAssumption
    PROVE  Stream!Spec => []NoReset
<1>1. StreamInv => NoReset
    BY DEF StreamInv, CancelIsLate, GivenUp, NoReset, Stream!NoReset
<1>2. StreamInv /\ [Stream!Next]_Stream!vars => StreamInv'
    BY StreamStep
<1>3. Stream!Init => StreamInv
    BY StreamInit
<1> QED
    BY <1>1, <1>2, <1>3, PTL DEF Stream!Spec

-----------------------------------------------------------------------------
(***************************************************************************)
(* What arrives is what was sent.                                          *)
(*                                                                         *)
(* PackStream keeps no history, so the invariant says that there is one:   *)
(* the pack as a stream of units (Layout) and the log of all that was      *)
(* written on the wire (Log), a frame after a frame with the next units of *)
(* the pack.  Everything the two ends hold are pieces of these: the        *)
(* sender's buffers what the log has not yet (Sending), its writes and the *)
(* pipe the end of the log, the reader's frame the part it has read of the *)
(* next frame and its chunk the units it has not parsed (Reading).         *)
(***************************************************************************)
\* A set of numbers has a least one.
LEMMA Least ==
    ASSUME NEW T, T \subseteq Nat, T # {}
    PROVE  \E m \in T : \A k \in T : m <= k
<1>1. PICK m \in T : \A k \in T : ~ (<<k, m>> \in OpToRel(<, Nat))
    BY NatLessThanWellFounded, WFMin, Zenon
<1>2. \A k \in T : ~ (k < m)
    BY <1>1 DEF OpToRel
<1> QED
    BY <1>2

\* Numbers that begin with 0 and go from each to its successor are all of them.
LEMMA Upward ==
    ASSUME NEW n \in Nat, NEW T, 0 \in T, \A k \in 0..(n-1) : k \in T => k + 1 \in T
    PROVE  \A k \in 0..n : k \in T
<1> SUFFICES ASSUME (0..n) \ T # {} PROVE FALSE
    OBVIOUS
<1>1. PICK m \in (0..n) \ T : \A k \in (0..n) \ T : m <= k
  <2>1. (0..n) \ T \subseteq Nat
    OBVIOUS
  <2> QED
    BY <2>1, Least
<1>2. m # 0 /\ m - 1 \in 0..(n-1)
    OBVIOUS
<1>3. m - 1 \in T
    BY <1>1, <1>2
<1> QED
    BY <1>2, <1>3

-----------------------------------------------------------------------------
\* The sequence s is what g has behind place o.
Lies(s, g, o) == \A i \in 1..Len(s) : s[i] = g[o + i]

\* The pack as one stream of units e, the first k records of it: record i
\* begins at place st[i].
LayoutTo(k, st, e) ==
    /\ st \in [Nat -> Nat] /\ st[1] = 2 /\ e[1] = Stream!Magic
    /\ \A i \in 1..k :
        /\ st[i + 1] = st[i] + 1 + pack[i] /\ st[i + 1] <= st[k + 1]
        /\ e[st[i]] = Stream!Unit("rec", i)
        /\ \A j \in 1..pack[i] : e[st[i] + j] = Stream!Unit("pay", i)

Layout(st, e) == LayoutTo(Len(pack), st, e) /\ e[st[Len(pack) + 1]] = Stream!EndTag

\* Places within a record are before the end of it.
LEMMA Within ==
    ASSUME NEW x \in Nat, NEW n \in Nat, NEW y \in Nat, NEW z \in Nat, y = x + 1 + n, y <= z
    PROVE  x < z /\ x # z /\ \A j \in 1..n : x + j \in Nat /\ x + j < z /\ x + j # z
    OBVIOUS

\* There is such a stream.
LEMMA PackLaidOut ==
    ASSUME pack \in Seq(Nat)
    PROVE  \E st, e : Layout(st, e)
<1> DEFINE N == Len(pack)
           T == {k \in Nat : \E st, e : LayoutTo(k, st, e) /\ st[k + 1] >= 2}
<1>0. N \in Nat /\ \A i \in 1..N : pack[i] \in Nat
    OBVIOUS
<1> HIDE DEF N
<1>1. 0 \in T
  <2> DEFINE st == [i \in Nat |-> 2]  e == [x \in Nat |-> Stream!Magic]
  <2>1. LayoutTo(0, st, e) /\ st[0 + 1] >= 2
    BY DEF LayoutTo
  <2> QED
    BY <2>1
<1>2. ASSUME NEW k \in 0..(N-1), k \in T PROVE k + 1 \in T
  <2>1. PICK st, e : LayoutTo(k, st, e) /\ st[k + 1] >= 2
    BY <1>2
  <2> DEFINE q == st[k + 1]
             p == pack[k + 1]
             st2 == [i \in Nat |-> IF i = k + 2 THEN q + 1 + p ELSE st[i]]
             e2 == [x \in Nat |-> IF x < q THEN e[x] ELSE IF x = q THEN Stream!Unit("rec", k + 1)
                                                    ELSE Stream!Unit("pay", k + 1)]
  <2>2. p \in Nat /\ q \in Nat /\ q >= 2 /\ st \in [Nat -> Nat] /\ k + 1 \in 1..N /\ k \in Nat
    <3>1. k + 1 \in 1..N /\ k \in Nat /\ k + 1 \in Nat
      BY <1>0
    <3>2. st \in [Nat -> Nat]
      BY <2>1 DEF LayoutTo
    <3> QED
      BY <1>0, <2>1, <3>1, <3>2
  <2> HIDE DEF p
  <2>3. /\ st2 \in [Nat -> Nat] /\ st2[1] = 2 /\ e2[1] = Stream!Magic
        /\ st2[k + 2] = q + 1 + p /\ \A i \in 1..(k + 1) : st2[i] = st[i]
    <3> HIDE DEF q
    <3>0. q + 1 + p \in Nat /\ 1 < q
      BY <2>2
    <3>1. k + 2 \in Nat /\ q + 1 + p \in Nat /\ k + 2 # 1 /\ 1 \in Nat /\ 1 < q
          /\ \A i \in 1..(k + 1) : i \in Nat /\ i # k + 2
      <4> HIDE DEF st2, e2, N, T
      <4>1. k \in Nat
        BY <2>2
      <4> QED
        BY <3>0, <4>1
    <3>2. st[1] = 2 /\ e[1] = Stream!Magic
      BY <2>1 DEF LayoutTo
    <3>3. e2[1] = Stream!Magic
      BY <3>1, <3>2
    <3>4. st2 \in [Nat -> Nat] /\ st2[1] = 2 /\ st2[k + 2] = q + 1 + p
      BY <2>2, <3>1, <3>2
    <3>5. \A i \in 1..(k + 1) : st2[i] = st[i]
      BY <3>1
    <3> QED
      BY <3>3, <3>4, <3>5
  <2>4. ASSUME NEW i \in 1..k
        PROVE  /\ st2[i + 1] = st2[i] + 1 + pack[i] /\ st2[i + 1] <= st2[k + 2]
               /\ e2[st2[i]] = Stream!Unit("rec", i)
               /\ \A j \in 1..pack[i] : e2[st2[i] + j] = Stream!Unit("pay", i)
    <3>1. /\ i + 1 \in 1..(k + 1) /\ i \in 1..(k + 1)
          /\ pack[i] \in Nat /\ st[i] \in Nat /\ st[i + 1] \in Nat
      <4>1. i \in 1..N /\ i \in Nat /\ i + 1 \in Nat /\ i + 1 \in 1..(k + 1) /\ i \in 1..(k + 1)
        BY <1>0, <2>2
      <4> QED
        BY <1>0, <2>2, <4>1
    <3>2. /\ st[i + 1] = st[i] + 1 + pack[i] /\ st[i + 1] <= q
          /\ e[st[i]] = Stream!Unit("rec", i)
          /\ \A j \in 1..pack[i] : e[st[i] + j] = Stream!Unit("pay", i)
      BY <2>1 DEF LayoutTo
    <3>3. st2[i] = st[i] /\ st2[i + 1] = st[i + 1]
      BY <2>3, <3>1
    <3> HIDE DEF q
    <3>4. st[i] < q /\ \A j \in 1..pack[i] : st[i] + j < q /\ st[i] + j \in Nat
      BY <2>2, <3>1, <3>2, Within
    <3>5. e2[st[i]] = e[st[i]] /\ \A j \in 1..pack[i] : e2[st[i] + j] = e[st[i] + j]
      BY <3>1, <3>4
    <3>6. st[i + 1] <= st2[k + 2]
      <4>1. q <= q + 1 + p
        BY <2>2
      <4> QED
        BY <2>2, <2>3, <3>1, <3>2, <4>1
    <3> QED
      BY <3>2, <3>3, <3>5, <3>6
  <2>5. /\ st2[k + 2] = st2[k + 1] + 1 + pack[k + 1]
        /\ e2[st2[k + 1]] = Stream!Unit("rec", k + 1)
        /\ \A j \in 1..pack[k + 1] : e2[st2[k + 1] + j] = Stream!Unit("pay", k + 1)
    <3>1. st2[k + 1] = q
      BY <2>2, <2>3
    <3> HIDE DEF q
    <3>2. \A j \in 1..p : q + j \in Nat /\ ~(q + j < q) /\ q + j # q
      BY <2>2
    <3>3. ~(q < q)
      BY <2>2
    <3>4. e2[q] = Stream!Unit("rec", k + 1) /\ \A j \in 1..p : e2[q + j] = Stream!Unit("pay", k + 1)
      BY <2>2, <3>2, <3>3
    <3> QED
      BY <2>3, <3>1, <3>4 DEF p
  <2>6. \A i \in 1..(k + 1) : i \in 1..k \/ i = k + 1
    BY <2>2
  <2>7. (k + 1) + 1 = k + 2 /\ st2[k + 2] <= st2[k + 2] /\ st2[k + 2] >= 2
    <3> HIDE DEF q, st2
    <3>1. (k + 1) + 1 = k + 2 /\ q + 1 + p <= q + 1 + p /\ q + 1 + p >= 2
      BY <2>2
    <3> QED
      BY <2>3, <3>1
  <2> HIDE DEF st2, e2, q
  <2>8. LayoutTo(k + 1, st2, e2)
    BY <2>3, <2>4, <2>5, <2>6, <2>7 DEF LayoutTo
  <2>9. k + 1 \in Nat
    BY <2>2
  <2> QED
    BY <2>7, <2>8, <2>9
<1>3. N \in T
  <2> HIDE DEF T
  <2>1. \A k \in 0..N : k \in T
    BY <1>0, <1>1, <1>2, Upward
  <2> QED
    BY <1>0, <2>1
<1>4. PICK st, e : LayoutTo(N, st, e) /\ st[N + 1] >= 2
    BY <1>3
<1> DEFINE e2 == [x \in Nat |-> IF x = st[N + 1] THEN Stream!EndTag ELSE e[x]]
<1>5. st \in [Nat -> Nat] /\ st[1] = 2 /\ st[N + 1] \in Nat
  <2>1. st \in [Nat -> Nat] /\ st[1] = 2
    BY <1>4, Zenon DEF LayoutTo
  <2>2. N + 1 \in Nat
    BY <1>0
  <2> QED
    BY <2>1, <2>2
<1>6. e2[st[N + 1]] = Stream!EndTag /\ e2[1] = Stream!Magic
    BY <1>4, <1>5 DEF LayoutTo
<1>7. ASSUME NEW i \in 1..N
      PROVE  /\ e2[st[i]] = e[st[i]]
             /\ \A j \in 1..pack[i] : e2[st[i] + j] = e[st[i] + j]
  <2>0. i \in Nat /\ i + 1 \in Nat
    OBVIOUS
  <2>1. /\ pack[i] \in Nat /\ st[i] \in Nat /\ st[i + 1] \in Nat
        /\ st[i + 1] = st[i] + 1 + pack[i] /\ st[i + 1] <= st[N + 1]
    BY <1>0, <1>4, <1>5, <2>0 DEF LayoutTo
  <2>2. st[i] # st[N + 1] /\ \A j \in 1..pack[i] : st[i] + j # st[N + 1] /\ st[i] + j \in Nat
    BY <1>5, <2>1, Within
  <2> QED
    BY <2>1, <2>2
<1> HIDE DEF e2
<1>8. Layout(st, e2)
    BY <1>4, <1>6, <1>7 DEF Layout, LayoutTo, N
<1> QED
    BY <1>8

-----------------------------------------------------------------------------
\* All that was written on the wire, z units of it: m tells what is missing of
\* a frame (0 between frames, -1 behind the first unit of a header), and a how
\* much of the pack, of which at most h units were given out, has gone by.
Log(w, m, a, z, e, h) ==
    /\ z \in Nat /\ h \in Nat /\ m[0] = 0 /\ a[0] = 0
    /\ \A x \in 0..z : m[x] \in Nat \cup {-1} /\ a[x] \in 0..h
    /\ \A x \in 1..z :
        \/ m[x - 1] = 0 /\ m[x] = -1 /\ a[x] = a[x - 1]
        \/ m[x - 1] = -1 /\ m[x] = w[x].n /\ a[x] = a[x - 1]
        \/ m[x - 1] > 0 /\ m[x] = m[x - 1] - 1 /\ a[x] = a[x - 1] + 1 /\ w[x] = e[a[x]]

\* A frame that begins at b, read to its end.
LEMMA FrameRead ==
    ASSUME NEW w, NEW m, NEW a, NEW z, NEW e, NEW h, Log(w, m, a, z, e, h),
           NEW b \in Nat, m[b] = 0, NEW n \in Nat, b + 2 + n <= z, n = w[b + 2].n
    PROVE  /\ m[b + 2 + n] = 0 /\ a[b + 2 + n] = a[b] + n
           /\ \A j \in 1..n : w[b + 2 + j] = e[a[b] + j]
<1>0. z \in Nat /\ \A x \in 0..z : m[x] \in Nat \cup {-1} /\ a[x] \in Nat
    BY DEF Log
<1>1. b \in 0..z /\ b + 1 \in 1..z /\ b + 2 \in 1..z /\ (b + 1) - 1 = b /\ (b + 2) - 1 = b + 1
    BY <1>0
<1>2. m[b + 1] = -1 /\ a[b + 1] = a[b]
    BY <1>1 DEF Log
<1>3. m[b + 2] = n /\ a[b + 2] = a[b]
    BY <1>1, <1>2 DEF Log
<1>4. a[b] \in Nat
    BY <1>0, <1>1
<1> DEFINE T == {j \in Nat : m[b + 2 + j] = n - j /\ a[b + 2 + j] = a[b] + j
                             /\ (j > 0 => w[b + 2 + j] = e[a[b] + j])}
<1>5. 0 \in T
    BY <1>3, <1>4
<1>6. ASSUME NEW j \in 0..(n-1), j \in T PROVE j + 1 \in T
  <2> DEFINE x == b + 2 + j
  <2>1. x + 1 \in 1..z /\ (x + 1) - 1 = x /\ b + 2 + (j + 1) = x + 1 /\ x \in Nat
    BY <1>0
  <2>2. m[x] = n - j /\ a[x] = a[b] + j /\ m[x] > 0
    BY <1>6
  <2> HIDE DEF x
  <2>3. m[x + 1] = m[x] - 1 /\ a[x + 1] = a[x] + 1 /\ w[x + 1] = e[a[x + 1]]
    BY <2>1, <2>2 DEF Log
  <2>4. m[x + 1] = n - (j + 1) /\ a[x + 1] = a[b] + (j + 1)
    BY <1>4, <2>2, <2>3
  <2> QED
    BY <2>1, <2>3, <2>4
<1> HIDE DEF T
<1>7. \A j \in 0..n : j \in T
    BY <1>5, <1>6, Upward
<1>8. m[b + 2 + n] = n - n /\ a[b + 2 + n] = a[b] + n
    BY <1>7 DEF T
<1> QED
    BY <1>7, <1>8 DEF T

\* A frame with the next units of the pack is put on the wire.
Grows(w, m, a, z, w2, m2, a2) == \A x \in 0..z : w2[x] = w[x] /\ m2[x] = m[x] /\ a2[x] = a[x]

NextFrame(w, m, a, z, e, h, hd, d) ==
    /\ Log(w, m, a, z, e, h) /\ m[z] = 0
    /\ Len(d) \in Nat /\ Lies(d, e, a[z]) /\ a[z] + Len(d) <= h
    /\ Len(hd) = 2 /\ hd[2].n = Len(d)

\* The log goes on with it, to the end of a frame.
LEMMA FrameWritten ==
    ASSUME NEW w, NEW m, NEW a, NEW z, NEW e, NEW h, NEW hd, NEW d,
           NextFrame(w, m, a, z, e, h, hd, d)
    PROVE  \E w2, m2, a2 :
              /\ Log(w2, m2, a2, z + 2 + Len(d), e, h) /\ Grows(w, m, a, z, w2, m2, a2)
              /\ m2[z + 2 + Len(d)] = 0 /\ a2[z + 2 + Len(d)] = a[z] + Len(d)
              /\ Lies(hd, w2, z) /\ Lies(d, w2, z + 2)
<1> DEFINE n == Len(d)
           w2 == [x \in Nat |-> IF x <= z THEN w[x] ELSE IF x = z + 1 THEN hd[1]
                                ELSE IF x = z + 2 THEN hd[2] ELSE d[x - z - 2]]
           m2 == [x \in Nat |-> IF x <= z THEN m[x] ELSE IF x = z + 1 THEN -1 ELSE n - (x - z - 2)]
           a2 == [x \in Nat |-> IF x <= z THEN a[x] ELSE IF x = z + 1 THEN a[z] ELSE a[z] + (x - z - 2)]
           z2 == z + 2 + n
<1>0. /\ z \in Nat /\ h \in Nat /\ m[0] = 0 /\ a[0] = 0 /\ n \in Nat
      /\ \A x \in 0..z : m[x] \in Nat \cup {-1} /\ a[x] \in 0..h
    BY DEF Log, NextFrame
<1>1. z2 \in Nat /\ z \in 0..z /\ a[z] \in 0..h /\ a[z] + n <= h /\ z \in Nat /\ m[z] = 0
    BY <1>0 DEF NextFrame
<1> HIDE DEF n
<1>2. Grows(w, m, a, z, w2, m2, a2)
    BY <1>0 DEF Grows
<1>3. /\ w2[z + 1] = hd[1] /\ m2[z + 1] = -1 /\ a2[z + 1] = a[z]
      /\ w2[z + 2] = hd[2] /\ m2[z + 2] = n /\ a2[z + 2] = a[z]
    BY <1>0, <1>1
<1>4. ASSUME NEW j \in 1..n
      PROVE  w2[z + 2 + j] = d[j] /\ m2[z + 2 + j] = n - j /\ a2[z + 2 + j] = a[z] + j
  <2> DEFINE x == z + 2 + j
  <2>1. x \in Nat /\ ~(x <= z) /\ x # z + 1 /\ x # z + 2 /\ x - z - 2 = j
    BY <1>0, <1>1
  <2> HIDE DEF x
  <2>2. w2[x] = d[x - z - 2] /\ m2[x] = n - (x - z - 2) /\ a2[x] = a[z] + (x - z - 2)
    BY <2>1
  <2> QED
    BY <2>1, <2>2 DEF x
<1>5. m2[z2] = 0 /\ a2[z2] = a[z] + n
    BY <1>0, <1>1, <1>3, <1>4
<1> HIDE DEF w2, m2, a2
<1>6. \A j \in 1..n : d[j] = e[a[z] + j]
    BY DEF NextFrame, Lies, n
<1>7. \A x \in 0..z2 : x \in 0..z \/ x = z + 1 \/ x = z + 2 \/ \E j \in 1..n : x = z + 2 + j
  <2> SUFFICES ASSUME NEW x \in 0..z2, x \notin 0..z, x # z + 1, x # z + 2
               PROVE  \E j \in 1..n : x = z + 2 + j
    OBVIOUS
  <2>1. x - z - 2 \in 1..n /\ x = z + 2 + (x - z - 2)
    BY <1>0
  <2> QED
    BY <2>1
<1>8. \A x \in 0..z2 : m2[x] \in Nat \cup {-1} /\ a2[x] \in 0..h
  <2>1. ASSUME NEW j \in 1..n PROVE n - j \in Nat /\ a[z] + j \in 0..h
    BY <1>0, <1>1
  <2>2. n \in Nat /\ a[z] \in 0..h
    BY <1>0, <1>1
  <2>3. \A x \in 0..z : m2[x] \in Nat \cup {-1} /\ a2[x] \in 0..h
    BY <1>0, <1>2 DEF Grows
  <2>4. /\ m2[z + 1] \in Nat \cup {-1} /\ a2[z + 1] \in 0..h
        /\ m2[z + 2] \in Nat \cup {-1} /\ a2[z + 2] \in 0..h
    BY <1>3, <2>2
  <2>5. \A j \in 1..n : m2[z + 2 + j] \in Nat \cup {-1} /\ a2[z + 2 + j] \in 0..h
    BY <1>4, <2>1
  <2> QED
    BY <1>7, <2>3, <2>4, <2>5
<1>9. ASSUME NEW x \in 1..z2
      PROVE  \/ m2[x - 1] = 0 /\ m2[x] = -1 /\ a2[x] = a2[x - 1]
             \/ m2[x - 1] = -1 /\ m2[x] = w2[x].n /\ a2[x] = a2[x - 1]
             \/ m2[x - 1] > 0 /\ m2[x] = m2[x - 1] - 1 /\ a2[x] = a2[x - 1] + 1 /\ w2[x] = e[a2[x]]
  <2>1. CASE x \in 1..z
    <3>1. x \in 0..z /\ x - 1 \in 0..z
      BY <1>0, <2>1
    <3>2. \/ m[x - 1] = 0 /\ m[x] = -1 /\ a[x] = a[x - 1]
          \/ m[x - 1] = -1 /\ m[x] = w[x].n /\ a[x] = a[x - 1]
          \/ m[x - 1] > 0 /\ m[x] = m[x - 1] - 1 /\ a[x] = a[x - 1] + 1 /\ w[x] = e[a[x]]
      BY <2>1 DEF Log, NextFrame
    <3>3. /\ w2[x] = w[x] /\ m2[x] = m[x] /\ a2[x] = a[x]
          /\ m2[x - 1] = m[x - 1] /\ a2[x - 1] = a[x - 1]
      BY <1>2, <3>1 DEF Grows
    <3> QED
      BY <3>2, <3>3
  <2>2. CASE x = z + 1
    <3>1. x - 1 = z /\ m2[z] = 0 /\ a2[z] = a[z]
      BY <1>1, <1>2, <2>2 DEF Grows
    <3> QED
      BY <1>3, <2>2, <3>1
  <2>3. CASE x = z + 2
    <3>1. x - 1 = z + 1
      BY <1>1, <2>3
    <3> QED
      BY <1>3, <2>3, <3>1 DEF n, NextFrame
  <2>4. ASSUME NEW j \in 1..n, x = z + 2 + j
        PROVE  m2[x - 1] > 0 /\ m2[x] = m2[x - 1] - 1 /\ a2[x] = a2[x - 1] + 1 /\ w2[x] = e[a2[x]]
    <3>1. m2[x] = n - j /\ a2[x] = a[z] + j /\ w2[x] = e[a2[x]]
      BY <1>4, <1>6, <2>4
    <3>2. m2[x - 1] = n - (j - 1) /\ a2[x - 1] = a[z] + (j - 1)
      <4>1. CASE j = 1
        <5>1. x - 1 = z + 2 /\ n - (j - 1) = n /\ a[z] + (j - 1) = a[z]
          BY <1>0, <1>1, <2>4, <4>1
        <5> QED
          BY <1>3, <5>1
      <4>2. CASE j # 1
        <5>1. j - 1 \in 1..n /\ x - 1 = z + 2 + (j - 1)
          BY <1>0, <1>1, <2>4, <4>2
        <5> QED
          BY <1>4, <5>1
      <4> QED
        BY <4>1, <4>2
    <3>3. n - (j - 1) > 0 /\ n - j = (n - (j - 1)) - 1 /\ a[z] + j = (a[z] + (j - 1)) + 1
      BY <1>0, <1>1
    <3> QED
      BY <3>1, <3>2, <3>3
  <2>5. x \in 0..z2 /\ (x \in 0..z => x \in 1..z)
    BY <1>0, <1>1
  <2> QED
    BY <1>7, <2>1, <2>2, <2>3, <2>4, <2>5
<1>10. m2[0] = 0 /\ a2[0] = 0
    BY <1>0, <1>2 DEF Grows
<1>11. Log(w2, m2, a2, z2, e, h)
    BY <1>0, <1>1, <1>8, <1>9, <1>10 DEF Log
<1>12. Lies(d, w2, z + 2) /\ Lies(hd, w2, z)
  <2>1. \A i \in 1..2 : i = 1 \/ i = 2
    OBVIOUS
  <2>2. Lies(hd, w2, z)
    BY <1>3, <2>1 DEF Lies, NextFrame
  <2> QED
    BY <1>4, <2>2 DEF Lies, n
<1> QED
    BY <1>2, <1>3, <1>5, <1>11, <1>12 DEF n

\* The first k of the writes ws are what the log has from b on to z; write i
\* ends at off[i].
Laid(ws, k, off, w, b, z) ==
    /\ off[0] = b /\ off[k] = z
    /\ \A i \in 0..k : off[i] \in Nat /\ off[i] <= z
    /\ \A i \in 1..k : off[i] = off[i - 1] + Len(ws[i]) /\ Lies(ws[i], w, off[i - 1])

\* The log as far as z.
SameTo(z, w, w2) == \A x \in 0..z : w2[x] = w[x]

\* What was laid out stays so when the log grows, and one more write is laid
\* out behind it.
LEMMA LaidMore ==
    ASSUME NEW ws, NEW k \in Nat, NEW off, NEW w, NEW b, NEW z \in Nat, Laid(ws, k, off, w, b, z),
           NEW w2, SameTo(z, w, w2),
           Len(ws[k + 1]) \in Nat, Lies(ws[k + 1], w2, z),
           \A i \in 1..k : Len(ws[i]) \in Nat
    PROVE  \E off2 : Laid(ws, k + 1, off2, w2, b, z + Len(ws[k + 1]))
<1> DEFINE n == Len(ws[k + 1])
           off2 == [i \in Nat |-> IF i = k + 1 THEN z + n ELSE off[i]]
<1>1. /\ off[0] = b /\ off[k] = z
      /\ \A i \in 0..k : off[i] \in Nat /\ off[i] <= z
      /\ \A i \in 1..k : off[i] = off[i - 1] + Len(ws[i]) /\ Lies(ws[i], w, off[i - 1])
    BY DEF Laid
<1>2. n \in Nat
    OBVIOUS
<1> HIDE DEF n
<1>3. /\ k + 1 \in Nat /\ (k + 1) - 1 = k /\ k \in Nat /\ k # k + 1 /\ 0 # k + 1
      /\ \A i \in 0..k : i \in Nat /\ i # k + 1
      /\ \A i \in 1..k : i \in 0..k /\ i - 1 \in 0..k
      /\ \A i \in 0..(k + 1) : i \in 0..k \/ i = k + 1
      /\ \A i \in 1..(k + 1) : i \in 1..k \/ i = k + 1
      /\ k \in 0..k /\ 0 \in 0..k
    OBVIOUS
<1>4. off2[k + 1] = z + n /\ \A i \in 0..k : off2[i] = off[i]
    BY <1>3
<1> HIDE DEF off2
<1>5. \A i \in 0..(k + 1) : off2[i] \in Nat /\ off2[i] <= z + n
  <2>1. \A i \in 0..k : off[i] <= z + n
    BY <1>1, <1>2
  <2>2. z + n \in Nat /\ z + n <= z + n
    BY <1>2
  <2> QED
    BY <1>1, <1>3, <1>4, <2>1, <2>2
<1>6. ASSUME NEW i \in 1..k PROVE Lies(ws[i], w2, off[i - 1])
  <2> SUFFICES ASSUME NEW j \in 1..Len(ws[i]) PROVE ws[i][j] = w2[off[i - 1] + j]
    BY DEF Lies
  <2>1. off[i - 1] \in Nat /\ off[i] = off[i - 1] + Len(ws[i]) /\ off[i] <= z /\ Len(ws[i]) \in Nat
    BY <1>1, <1>3
  <2>2. off[i - 1] + j \in 0..z
    BY <2>1
  <2>3. ws[i][j] = w[off[i - 1] + j]
    BY <1>1 DEF Lies
  <2> QED
    BY <2>2, <2>3 DEF SameTo
<1>7. \A i \in 1..(k + 1) : off2[i] = off2[i - 1] + Len(ws[i]) /\ Lies(ws[i], w2, off2[i - 1])
  <2>1. \A i \in 1..k : off2[i] = off2[i - 1] + Len(ws[i]) /\ Lies(ws[i], w2, off2[i - 1])
    BY <1>1, <1>3, <1>4, <1>6
  <2>2. off2[k + 1] = off2[(k + 1) - 1] + Len(ws[k + 1]) /\ Lies(ws[k + 1], w2, off2[(k + 1) - 1])
    BY <1>1, <1>3, <1>4 DEF n
  <2> QED
    BY <1>3, <2>1, <2>2
<1>8. Laid(ws, k + 1, off2, w2, b, z + n)
    BY <1>1, <1>3, <1>4, <1>5, <1>7 DEF Laid
<1> QED
    BY <1>8 DEF n

\* The two writes of one frame, behind k others.
FrameNext(ws, k, off, w, m, a, b, z, e, h) ==
    /\ k \in Nat /\ Laid(ws, k, off, w, b, z)
    /\ NextFrame(w, m, a, z, e, h, ws[k + 1], ws[k + 2])
    /\ \A i \in 1..(k + 2) : Len(ws[i]) \in Nat

\* The log goes on with both.
LEMMA FrameLaid ==
    ASSUME NEW ws, NEW k, NEW off, NEW w, NEW m, NEW a, NEW b, NEW z, NEW e, NEW h,
           FrameNext(ws, k, off, w, m, a, b, z, e, h)
    PROVE  \E w2, m2, a2, off2 :
              LET z2 == z + 2 + Len(ws[k + 2]) IN
              /\ Log(w2, m2, a2, z2, e, h) /\ Grows(w, m, a, z, w2, m2, a2)
              /\ m2[z2] = 0 /\ a2[z2] = a[z] + Len(ws[k + 2])
              /\ Laid(ws, k + 2, off2, w2, b, z2)
<1> USE DEF FrameNext
<1> DEFINE d == ws[k + 2]
           hd == ws[k + 1]
<1>1. /\ z \in Nat /\ Len(d) \in Nat /\ Len(hd) = 2
      /\ (k + 1) + 1 = k + 2 /\ z + 2 \in Nat /\ k + 1 \in Nat
      /\ \A i \in 1..k : Len(ws[i]) \in Nat
      /\ \A i \in 1..(k + 1) : Len(ws[i]) \in Nat
    BY DEF Log, NextFrame
<1>0. NextFrame(w, m, a, z, e, h, hd, d)
    OBVIOUS
<1> HIDE DEF d, hd
<1>2. PICK w2, m2, a2 :
              /\ Log(w2, m2, a2, z + 2 + Len(d), e, h) /\ Grows(w, m, a, z, w2, m2, a2)
              /\ m2[z + 2 + Len(d)] = 0 /\ a2[z + 2 + Len(d)] = a[z] + Len(d)
              /\ Lies(hd, w2, z) /\ Lies(d, w2, z + 2)
    BY <1>0, FrameWritten
<1>4. PICK off1 : Laid(ws, k + 1, off1, w2, b, z + 2)
  <2>1. SameTo(z, w, w2)
    BY <1>2 DEF Grows, SameTo
  <2>2. \E off1 : Laid(ws, k + 1, off1, w2, b, z + Len(ws[k + 1]))
    <3>1. Lies(ws[k + 1], w2, z) /\ Len(ws[k + 1]) \in Nat
      BY <1>1, <1>2 DEF hd
    <3> QED
      BY <1>1, <2>1, <3>1, LaidMore
  <2> QED
    BY <1>1, <2>2 DEF hd
<1>5. PICK off2 : Laid(ws, k + 2, off2, w2, b, (z + 2) + Len(d))
  <2>1. \E off2 : Laid(ws, (k + 1) + 1, off2, w2, b, (z + 2) + Len(ws[(k + 1) + 1]))
    <3>1. Len(ws[(k + 1) + 1]) \in Nat /\ Lies(ws[(k + 1) + 1], w2, z + 2) /\ SameTo(z + 2, w2, w2)
      BY <1>1, <1>2 DEF d, SameTo
    <3> QED
      BY <1>1, <1>4, <3>1, LaidMore
  <2> QED
    BY <1>1, <2>1 DEF d
<1>6. (z + 2) + Len(d) = z + 2 + Len(d)
    OBVIOUS
<1> QED
    BY <1>2, <1>5, <1>6 DEF d

-----------------------------------------------------------------------------
\* The frames that chunk_write makes of the units all.
Frames(ws, all, n) ==
    \A i \in 0..(n - 1) :
        /\ Len(ws[2 * i + 1]) = 2 /\ ws[2 * i + 1][2].n = ChunkSize
        /\ Len(ws[2 * i + 2]) = ChunkSize
        /\ \A j \in 1..ChunkSize : ws[2 * i + 2][j] = all[i * ChunkSize + j]

\* Every one of them is laid out, behind what was there.
Framing(w, m, a, z, e, h, all, n, ws) ==
    /\ Log(w, m, a, z, e, h) /\ m[z] = 0
    /\ Len(all) \in Nat /\ Lies(all, e, a[z]) /\ a[z] + Len(all) <= h
    /\ n \in Nat /\ n * ChunkSize <= Len(all) /\ Frames(ws, all, n)

\* The log goes on with all of them.
LEMMA FramesLaid ==
    ASSUME StreamAssumption, NEW e, NEW h, NEW w, NEW m, NEW a, NEW z, NEW all, NEW n, NEW ws,
           Framing(w, m, a, z, e, h, all, n, ws)
    PROVE  \E w2, m2, a2, z2, off :
              /\ Log(w2, m2, a2, z2, e, h) /\ Grows(w, m, a, z, w2, m2, a2) /\ z <= z2
              /\ m2[z2] = 0 /\ a2[z2] = a[z] + n * ChunkSize
              /\ Laid(ws, 2 * n, off, w2, z, z2)
<1> USE DEF Framing
<1> DEFINE C == ChunkSize
           Good(i, w2, m2, a2, z2, off) ==
              /\ Log(w2, m2, a2, z2, e, h) /\ Grows(w, m, a, z, w2, m2, a2) /\ z <= z2
              /\ m2[z2] = 0 /\ a2[z2] = a[z] + i * C
              /\ Laid(ws, 2 * i, off, w2, z, z2)
           T == {i \in Nat : \E w2, m2, a2, z2, off : Good(i, w2, m2, a2, z2, off)}
<1>0. C \in Nat /\ C # 0 /\ z \in Nat /\ a[z] \in Nat /\ h \in Nat
  <2>1. z \in Nat /\ h \in Nat /\ z \in 0..z
    BY DEF Log
  <2> QED
    BY <2>1 DEF Log, StreamAssumption
<1>1. 0 \in T
  <2> DEFINE off == [i \in Nat |-> z]
  <2>1. off[0] = z /\ 2 * 0 = 0 /\ a[z] + 0 * C = a[z] /\ z <= z
    BY <1>0
  <2>2. \A i \in 0..0 : i = 0
    OBVIOUS
  <2>3. Laid(ws, 2 * 0, off, w, z, z)
    <3> HIDE DEF off
    <3>1. Laid(ws, 0, off, w, z, z)
      BY <1>0, <2>1, <2>2 DEF Laid
    <3> QED
      BY <2>1, <3>1
  <2>4. Good(0, w, m, a, z, off)
    BY <2>1, <2>3 DEF Grows
  <2> HIDE DEF Good
  <2> QED
    BY <2>4
<1>2. ASSUME NEW i \in 0..(n - 1), i \in T PROVE i + 1 \in T
  <2>1. PICK w2, m2, a2, z2, off : Good(i, w2, m2, a2, z2, off)
    BY <1>2
  <2> DEFINE k == 2 * i
             d == ws[2 * i + 2]
  <2>2. /\ Log(w2, m2, a2, z2, e, h) /\ Grows(w, m, a, z, w2, m2, a2) /\ z <= z2 /\ z2 \in Nat
        /\ m2[z2] = 0 /\ a2[z2] = a[z] + i * C /\ Laid(ws, k, off, w2, z, z2)
    BY <2>1 DEF Log
  <2>3. /\ Len(ws[k + 1]) = 2 /\ ws[k + 1][2].n = C /\ Len(d) = C
        /\ \A j \in 1..C : d[j] = all[i * C + j]
    BY DEF Frames
  <2>4. /\ i * C \in Nat /\ (i + 1) * C = i * C + C /\ i * C + C <= n * C /\ n * C \in Nat /\ k \in Nat
    BY <1>0
  <2>5. i * C + C <= Len(all)
    BY <2>4, <1>0
  <2>6. Lies(d, e, a2[z2]) /\ a2[z2] + C <= h
    <3>1. a2[z2] + C <= h
      BY <1>0, <2>2, <2>4, <2>5
    <3>2. PICK p \in Nat : p = i * C /\ a2[z2] = a[z] + p /\ p + C <= Len(all)
      BY <2>2, <2>4, <2>5
    <3>3. a[z] \in Nat /\ C \in Nat /\ Len(all) \in Nat
      BY <1>0
    <3>4. ASSUME NEW j \in 1..C PROVE d[j] = e[a2[z2] + j]
      <4>1. p + j \in 1..Len(all) /\ a[z] + (p + j) = a2[z2] + j
        BY <3>2, <3>3
      <4>2. all[p + j] = e[a[z] + (p + j)]
        BY <4>1 DEF Lies
      <4> QED
        BY <2>3, <3>2, <4>1, <4>2
    <3> QED
      BY <2>3, <3>1, <3>4 DEF Lies
  <2>7. \A j \in 1..(k + 2) : Len(ws[j]) \in Nat
    <3> SUFFICES ASSUME NEW j \in 1..(k + 2) PROVE Len(ws[j]) \in Nat
      OBVIOUS
    <3>0. 0..i \subseteq 0..(n - 1)
      OBVIOUS
    <3>1. \A q \in 0..i : Len(ws[2 * q + 1]) = 2 /\ Len(ws[2 * q + 2]) = C
      BY <3>0 DEF Frames
    <3>2. \E q \in 0..i : j = 2 * q + 1 \/ j = 2 * q + 2
      <4>1. (j - 1) \div 2 \in 0..i /\ (j = 2 * ((j - 1) \div 2) + 1 \/ j = 2 * ((j - 1) \div 2) + 2)
        OBVIOUS
      <4> QED
        BY <4>1
    <3> QED
      BY <1>0, <3>1, <3>2
  <2>8. PICK w3, m3, a3, off3 :
            /\ Log(w3, m3, a3, z2 + 2 + C, e, h) /\ Grows(w2, m2, a2, z2, w3, m3, a3)
            /\ m3[z2 + 2 + C] = 0 /\ a3[z2 + 2 + C] = a2[z2] + C
            /\ Laid(ws, k + 2, off3, w3, z, z2 + 2 + C)
    <3> HIDE DEF k, C, Good
    <3>1. d = ws[k + 2]
      BY DEF k
    <3>2. Len(ws[k + 2]) = C /\ Lies(ws[k + 2], e, a2[z2]) /\ a2[z2] + Len(ws[k + 2]) <= h
          /\ ws[k + 1][2].n = Len(ws[k + 2])
      BY <2>3, <2>6, <3>1
    <3>3. \E w3, m3, a3, off3 :
              LET z3 == z2 + 2 + Len(ws[k + 2]) IN
              /\ Log(w3, m3, a3, z3, e, h) /\ Grows(w2, m2, a2, z2, w3, m3, a3)
              /\ m3[z3] = 0 /\ a3[z3] = a2[z2] + Len(ws[k + 2])
              /\ Laid(ws, k + 2, off3, w3, z, z3)
      <4>1. NextFrame(w2, m2, a2, z2, e, h, ws[k + 1], ws[k + 2])
        BY <1>0, <2>2, <2>3, <3>2 DEF NextFrame
      <4>2. FrameNext(ws, k, off, w2, m2, a2, z, z2, e, h)
        BY <2>2, <2>4, <2>7, <4>1 DEF FrameNext
      <4> QED
        BY <4>2, FrameLaid
    <3> QED
      BY <3>2, <3>3
  <2>9. Grows(w, m, a, z, w3, m3, a3)
    <3>1. \A x \in 0..z : x \in 0..z2
      BY <1>0, <2>2
    <3> QED
      BY <2>2, <2>8, <3>1 DEF Grows
  <2>10. a2[z2] + C = a[z] + (i + 1) * C /\ z <= z2 + 2 + C /\ k + 2 = 2 * (i + 1) /\ i + 1 \in Nat
    BY <1>0, <2>2, <2>4
  <2>11. Good(i + 1, w3, m3, a3, z2 + 2 + C, off3)
    BY <2>8, <2>9, <2>10
  <2> HIDE DEF Good
  <2> QED
    BY <2>10, <2>11
<1> HIDE DEF T
<1>3. \A i \in 0..n : i \in T
    BY <1>1, <1>2, Upward
<1>4. n \in T
    BY <1>3
<1> QED
    BY <1>4 DEF T

\* Sequences put together, and their parts, lie where their parts do.
LEMMA LiesJoined ==
    ASSUME NEW T, NEW s \in Seq(T), NEW t \in Seq(T), NEW g, NEW o \in Nat,
           Lies(s, g, o), Lies(t, g, o + Len(s))
    PROVE  Lies(s \o t, g, o) /\ s \o t \in Seq(T) /\ Len(s \o t) = Len(s) + Len(t)
<1>1. /\ s \o t \in Seq(T) /\ Len(s \o t) = Len(s) + Len(t) /\ Len(s) \in Nat /\ Len(t) \in Nat
      /\ \A i \in 1..Len(s) : (s \o t)[i] = s[i]
      /\ \A i \in (Len(s) + 1)..(Len(s) + Len(t)) : (s \o t)[i] = t[i - Len(s)]
    BY Joined
<1> DEFINE q == s \o t
<1> HIDE DEF q
<1>2. ASSUME NEW i \in 1..(Len(s) + Len(t)) PROVE (s \o t)[i] = g[o + i]
  <2>1. CASE i \in 1..Len(s)
    BY <1>1, <2>1 DEF Lies
  <2>2. CASE i \notin 1..Len(s)
    <3>1. /\ i \in (Len(s) + 1)..(Len(s) + Len(t)) /\ i - Len(s) \in 1..Len(t)
          /\ (o + Len(s)) + (i - Len(s)) = o + i
      BY <1>1, <2>2
    <3>2. t[i - Len(s)] = g[(o + Len(s)) + (i - Len(s))]
      BY <3>1 DEF Lies
    <3> QED
      BY <1>1, <3>1, <3>2
  <2> QED
    BY <2>1, <2>2
<1> QED
    BY <1>1, <1>2 DEF Lies

\* And a sequence's two pieces lie one behind the other.
LEMMA LiesParted ==
    ASSUME NEW T, NEW s \in Seq(T), NEW g, NEW o \in Nat, Lies(s, g, o), NEW k \in 0..Len(s)
    PROVE  Lies(SubSeq(s, 1, k), g, o) /\ Lies(SubSeq(s, k + 1, Len(s)), g, o + k)
<1>1. /\ Len(SubSeq(s, 1, k)) = k /\ Len(s) \in Nat
      /\ \A i \in 1..k : SubSeq(s, 1, k)[i] = s[i]
      /\ Len(SubSeq(s, k + 1, Len(s))) = Len(s) - k
      /\ \A i \in 1..(Len(s) - k) : SubSeq(s, k + 1, Len(s))[i] = s[k + i]
    BY Pieces
<1> DEFINE x == SubSeq(s, 1, k)
           y == SubSeq(s, k + 1, Len(s))
<1> HIDE DEF x, y
<1>2. /\ Len(x) = k /\ \A i \in 1..k : x[i] = s[i]
      /\ Len(y) = Len(s) - k /\ \A i \in 1..(Len(s) - k) : y[i] = s[k + i]
    BY <1>1 DEF x, y
<1>3. ASSUME NEW i \in 1..k PROVE x[i] = g[o + i]
  <2>1. i \in 1..Len(s)
    BY <1>1
  <2> QED
    BY <1>2, <2>1 DEF Lies
<1>4. ASSUME NEW i \in 1..(Len(s) - k) PROVE y[i] = g[(o + k) + i]
  <2>1. k + i \in 1..Len(s) /\ o + (k + i) = (o + k) + i
    BY <1>1
  <2> QED
    BY <1>2, <2>1 DEF Lies
<1> QED
    BY <1>2, <1>3, <1>4 DEF Lies, x, y

\* A record: its header and its payload.
LEMMA RecordIs ==
    ASSUME pack \in Seq(Nat), NEW i \in 1..Len(pack)
    PROVE  /\ Stream!Record(i) \in Seq(Plain) /\ Len(Stream!Record(i)) = 1 + pack[i] /\ pack[i] \in Nat
           /\ Stream!Record(i)[1] = Stream!Unit("rec", i)
           /\ \A j \in 1..pack[i] : Stream!Record(i)[1 + j] = Stream!Unit("pay", i)
<1> DEFINE s == <<Stream!Unit("rec", i)>>
           t == [j \in 1..pack[i] |-> Stream!Unit("pay", i)]
<1>1. pack[i] \in Nat
    OBVIOUS
<1>2. Stream!Unit("rec", i) \in Plain /\ Stream!Unit("pay", i) \in Plain
    BY DEF Plain, Stream!Unit
<1>3. s \in Seq(Plain) /\ Len(s) = 1 /\ s[1] = Stream!Unit("rec", i)
    BY <1>2, OfOne
<1>4. t \in Seq(Plain) /\ Len(t) = pack[i] /\ \A j \in 1..pack[i] : t[j] = Stream!Unit("pay", i)
  <2>1. t \in [1..pack[i] -> Plain]
    BY <1>2
  <2>2. t \in Seq(Plain)
    BY <1>1, <2>1, Listed
  <2>3. DOMAIN t = 1..pack[i]
    OBVIOUS
  <2> QED
    BY <1>1, <2>2, <2>3
<1> HIDE DEF s, t
<1>5. /\ s \o t \in Seq(Plain) /\ Len(s \o t) = Len(s) + Len(t)
      /\ \A j \in 1..Len(s) : (s \o t)[j] = s[j]
      /\ \A j \in (Len(s) + 1)..(Len(s) + Len(t)) : (s \o t)[j] = t[j - Len(s)]
    BY <1>3, <1>4, Joined
<1>6. ASSUME NEW j \in 1..pack[i] PROVE (s \o t)[1 + j] = Stream!Unit("pay", i)
  <2>1. 1 + j \in (1 + 1)..(1 + pack[i]) /\ (1 + j) - 1 = j
    BY <1>1
  <2> QED
    BY <1>3, <1>4, <1>5, <2>1
<1>7. Stream!Record(i) = s \o t
    BY DEF Stream!Record, s, t
<1> QED
    BY <1>1, <1>3, <1>4, <1>5, <1>6, <1>7

\* buffered_write gives out the first of what it has and keeps the rest.
LEMMA BufferedLies ==
    ASSUME StreamAssumption, NEW b \in Seq(Plain), NEW p \in Seq(Plain), NEW g, NEW o \in Nat,
           Lies(b \o p, g, o)
    PROVE  LET x == Stream!BufferedWrite(b, p) IN
           /\ Lies(x.out, g, o) /\ Lies(x.stays, g, o + Len(x.out))
           /\ Len(x.out) + Len(x.stays) = Len(b) + Len(p) /\ Len(x.stays) <= BufioSize
<1> DEFINE all == b \o p
           x == Stream!BufferedWrite(b, p)
           B == BufioSize
<1>1. all \in Seq(Plain) /\ Len(all) = Len(b) + Len(p) /\ Len(all) \in Nat /\ B \in Nat
    BY Joined DEF StreamAssumption
<1>2. Lies(all, g, o)
    OBVIOUS
<1>3. x = IF Len(all) <= B THEN [out |-> <<>>, stays |-> all]
          ELSE IF b = <<>> \/ Len(all) > 2 * B THEN [out |-> all, stays |-> <<>>]
          ELSE [out |-> SubSeq(all, 1, B), stays |-> SubSeq(all, B + 1, Len(all))]
    BY DEF Stream!BufferedWrite
<1> HIDE DEF all, x, B
<1>4. Len(<<>>) = 0 /\ Lies(<<>>, g, o) /\ Lies(<<>>, g, o + Len(all))
    BY DEF Lies
<1>5. CASE Len(all) <= B
  <2>1. x.out = <<>> /\ x.stays = all
    BY <1>3, <1>5
  <2>2. o + 0 = o /\ 0 + Len(all) = Len(all)
    BY <1>1
  <2> QED
    BY <1>1, <1>2, <1>4, <1>5, <2>1, <2>2 DEF x, B
<1>6. CASE ~(Len(all) <= B) /\ (b = <<>> \/ Len(all) > 2 * B)
  <2>1. x.out = all /\ x.stays = <<>>
    BY <1>3, <1>6
  <2>2. Len(all) + 0 = Len(all) /\ 0 <= B
    BY <1>1
  <2> QED
    BY <1>1, <1>2, <1>4, <2>1, <2>2 DEF x, B
<1>7. CASE ~(Len(all) <= B) /\ ~(b = <<>> \/ Len(all) > 2 * B)
  <2>1. x.out = SubSeq(all, 1, B) /\ x.stays = SubSeq(all, B + 1, Len(all))
    BY <1>3, <1>7
  <2>2. B \in 0..Len(all) /\ Len(all) - B <= B /\ B + (Len(all) - B) = Len(all)
    BY <1>1, <1>7
  <2>3. Len(x.out) = B /\ Len(x.stays) = Len(all) - B
    BY <1>1, <2>1, <2>2, Pieces
  <2>4. Lies(x.out, g, o) /\ Lies(x.stays, g, o + B)
    BY <1>1, <1>2, <2>1, <2>2, LiesParted
  <2> QED
    BY <1>1, <2>2, <2>3, <2>4 DEF x, B
<1> QED
    BY <1>5, <1>6, <1>7

\* chunk_write makes frames of all that fills one and keeps the rest.
LEMMA ChunkLies ==
    ASSUME StreamAssumption, NEW c \in Seq(Plain), NEW p \in Seq(Plain)
    PROVE  LET x == Stream!ChunkWrite(c, p)
               all == c \o p
           IN \E n \in Nat :
                /\ n * ChunkSize <= Len(all) /\ Len(x.out) = 2 * n /\ Frames(x.out, all, n)
                /\ n * ChunkSize \in 0..Len(all) /\ x.stays = SubSeq(all, n * ChunkSize + 1, Len(all))
                /\ Len(x.stays) = Len(all) - n * ChunkSize /\ Len(x.stays) < ChunkSize
<1> DEFINE all == c \o p
           x == Stream!ChunkWrite(c, p)
           C == ChunkSize
           n == Len(all) \div C
           D(i) == SubSeq(all, i * C + 1, (i + 1) * C)
           Frame(i) == Stream!TData(D(i))
<1>1. all \in Seq(Plain) /\ Len(all) \in Nat
    BY Joined
<1>2. C \in Nat /\ C # 0
    BY DEF StreamAssumption
<1>3. n \in Nat /\ n * C <= Len(all) /\ Len(all) - n * C < C /\ n * C \in Nat
    BY <1>1, <1>2
<1>4. /\ x.out = [w \in 1..(2 * n) |-> Frame((w - 1) \div 2)[1 + ((w - 1) % 2)]]
      /\ x.stays = SubSeq(all, n * C + 1, Len(all))
    BY DEF Stream!ChunkWrite
<1> HIDE DEF x, all, C, n
<1>5. ASSUME NEW i \in 0..(n - 1)
      PROVE  /\ Len(D(i)) = C /\ \A j \in 1..C : D(i)[j] = all[i * C + j]
  <2>1. /\ i * C \in Nat /\ (i + 1) * C = i * C + C /\ i * C + C <= n * C
    BY <1>2, <1>3
  <2>2. ASSUME NEW q \in Nat, NEW u \in Nat, q + C <= u, u <= Len(all) PROVE q + C <= Len(all)
    BY <1>1, <1>2, <2>2
  <2>3. i * C + C <= Len(all)
    BY <1>3, <2>1, <2>2
  <2>4. ASSUME NEW q \in Nat, q + C <= Len(all)
        PROVE  /\ Len(SubSeq(all, q + 1, q + C)) = C
               /\ \A j \in 1..C : SubSeq(all, q + 1, q + C)[j] = all[q + j]
    BY <1>1, <1>2, <2>4
  <2> DEFINE q == i * C
  <2>5. q \in Nat /\ q + C <= Len(all) /\ D(i) = SubSeq(all, q + 1, q + C)
    BY <2>1, <2>3
  <2> HIDE DEF q, D
  <2>6. Len(SubSeq(all, q + 1, q + C)) = C /\ \A j \in 1..C : SubSeq(all, q + 1, q + C)[j] = all[q + j]
    BY <2>4, <2>5, Zenon
  <2>7. Len(D(i)) = C /\ \A j \in 1..C : D(i)[j] = all[q + j]
    BY <2>5, <2>6, Zenon
  <2> QED
    BY <2>7, Zenon DEF q
<1>6. Len(x.out) = 2 * n
  <2>1. 2 * n \in Nat
    BY <1>3
  <2> QED
    BY <1>4, <2>1
<1>7. ASSUME NEW i \in 0..(n - 1)
      PROVE  x.out[2 * i + 1] = Stream!Header("data", Len(D(i))) /\ x.out[2 * i + 2] = D(i)
  <2>1. /\ 2 * i + 1 \in 1..(2 * n) /\ ((2 * i + 1) - 1) \div 2 = i /\ 1 + (((2 * i + 1) - 1) % 2) = 1
        /\ 2 * i + 2 \in 1..(2 * n) /\ ((2 * i + 2) - 1) \div 2 = i /\ 1 + (((2 * i + 2) - 1) % 2) = 2
    BY <1>3
  <2>2. x.out[2 * i + 1] = Frame(i)[1] /\ x.out[2 * i + 2] = Frame(i)[2]
    <3> HIDE DEF Frame
    <3> QED
      BY <1>4, <2>1
  <2> HIDE DEF D
  <2> QED
    BY <2>2 DEF Stream!TData
<1>8. Frames(x.out, all, n)
  <2>1. ASSUME NEW k PROVE Len(Stream!Header("data", k)) = 2 /\ Stream!Header("data", k)[2].n = k
    BY DEF Stream!Header, Stream!Unit
  <2> HIDE DEF D
  <2> QED
    BY <1>5, <1>7, <2>1 DEF Frames, C
<1>9. Len(x.stays) = Len(all) - n * C
    BY <1>1, <1>3, <1>4, Pieces
<1>10. n * C \in 0..Len(all)
    BY <1>1, <1>3
<1> QED
    BY <1>3, <1>4, <1>6, <1>8, <1>9, <1>10 DEF x, all, C

\* A frame that is a header alone, behind k other writes.
LEMMA HeaderLaid ==
    ASSUME NEW e, NEW h, NEW w, NEW m, NEW a, NEW z,
           NEW ws, NEW k \in Nat, NEW off, NEW b, Laid(ws, k, off, w, b, z),
           NextFrame(w, m, a, z, e, h, ws[k + 1], <<>>),
           \A i \in 1..(k + 1) : Len(ws[i]) \in Nat
    PROVE  \E w2, m2, a2, off2 :
              /\ Log(w2, m2, a2, z + 2, e, h) /\ Grows(w, m, a, z, w2, m2, a2)
              /\ m2[z + 2] = 0 /\ a2[z + 2] = a[z]
              /\ Laid(ws, k + 1, off2, w2, b, z + 2)
<1> DEFINE hd == ws[k + 1]
<1>0. NextFrame(w, m, a, z, e, h, hd, <<>>)
    OBVIOUS
<1>1. /\ z \in Nat /\ Len(hd) = 2 /\ Len(<<>>) = 0 /\ z \in 0..z /\ a[z] \in Nat
      /\ \A i \in 1..k : Len(ws[i]) \in Nat
  <2>1. z \in Nat /\ h \in Nat /\ z \in 0..z
    BY DEF NextFrame, Log
  <2>2. a[z] \in 0..h
    BY <2>1 DEF NextFrame, Log
  <2>3. \A i \in 1..k : i \in 1..(k + 1)
    OBVIOUS
  <2> QED
    BY <2>1, <2>2, <2>3 DEF NextFrame
<1> HIDE DEF hd
<1>2. PICK w2, m2, a2 :
              /\ Log(w2, m2, a2, z + 2 + Len(<<>>), e, h) /\ Grows(w, m, a, z, w2, m2, a2)
              /\ m2[z + 2 + Len(<<>>)] = 0 /\ a2[z + 2 + Len(<<>>)] = a[z] + Len(<<>>)
              /\ Lies(hd, w2, z) /\ Lies(<<>>, w2, z + 2)
    BY <1>0, FrameWritten
<1>3. z + 2 + Len(<<>>) = z + 2 /\ a[z] + Len(<<>>) = a[z]
    BY <1>1
<1>4. SameTo(z, w, w2)
    BY <1>2 DEF Grows, SameTo
<1>5. PICK off2 : Laid(ws, k + 1, off2, w2, b, z + Len(ws[k + 1]))
  <2>1. Lies(ws[k + 1], w2, z) /\ Len(ws[k + 1]) \in Nat
    BY <1>1, <1>2 DEF hd
  <2> QED
    BY <1>1, <1>4, <2>1, LaidMore
<1> QED
    BY <1>1, <1>2, <1>3, <1>5 DEF hd

\* Only the writes themselves count.
LEMMA LaidToo ==
    ASSUME NEW ws, NEW k \in Nat, NEW off, NEW w, NEW b, NEW z, Laid(ws, k, off, w, b, z),
           NEW ws2, \A i \in 1..k : ws2[i] = ws[i]
    PROVE  Laid(ws2, k, off, w, b, z)
    BY DEF Laid

\* A log is one of any longer part of the pack, too.
LEMMA LogRaised ==
    ASSUME NEW e, NEW h, NEW w, NEW m, NEW a, NEW z, Log(w, m, a, z, e, h), NEW h2 \in Nat, h <= h2
    PROVE  Log(w, m, a, z, e, h2)
<1>1. h \in Nat /\ \A x \in 0..h : x \in 0..h2
    BY DEF Log
<1> QED
    BY <1>1 DEF Log

\* The units c and p come next in the pack.
Behind(w, m, a, z, e, h, c, p) ==
    /\ Log(w, m, a, z, e, h) /\ m[z] = 0
    /\ Lies(c, e, a[z]) /\ Lies(p, e, a[z] + Len(c)) /\ a[z] + Len(c) + Len(p) <= h

\* The log goes on with the frames chunk_write makes.
LEMMA ChunkLaid ==
    ASSUME StreamAssumption, NEW e, NEW h, NEW w, NEW m, NEW a, NEW z,
           NEW c \in Seq(Plain), NEW p \in Seq(Plain), Behind(w, m, a, z, e, h, c, p)
    PROVE  LET x == Stream!ChunkWrite(c, p) IN
           \E w2, m2, a2, z2, off :
              /\ Log(w2, m2, a2, z2, e, h) /\ Grows(w, m, a, z, w2, m2, a2) /\ z <= z2
              /\ m2[z2] = 0 /\ Laid(x.out, Len(x.out), off, w2, z, z2)
              /\ Lies(x.stays, e, a2[z2]) /\ a2[z2] + Len(x.stays) = a[z] + Len(c) + Len(p)
              /\ Len(x.stays) < ChunkSize
<1> DEFINE all == c \o p
           x == Stream!ChunkWrite(c, p)
           C == ChunkSize
<1>0. z \in Nat /\ a[z] \in Nat /\ h \in Nat /\ C \in Nat /\ Len(c) \in Nat /\ Len(p) \in Nat
  <2>1. z \in Nat /\ h \in Nat /\ z \in 0..z
    BY DEF Behind, Log
  <2>2. a[z] \in 0..h
    BY <2>1 DEF Behind, Log
  <2> QED
    BY <2>1, <2>2 DEF StreamAssumption
<1>1. Lies(all, e, a[z]) /\ all \in Seq(Plain) /\ Len(all) = Len(c) + Len(p)
    BY <1>0, LiesJoined DEF Behind
<1>2. PICK n \in Nat :
                /\ n * C <= Len(all) /\ Len(x.out) = 2 * n /\ Frames(x.out, all, n)
                /\ n * C \in 0..Len(all) /\ x.stays = SubSeq(all, n * C + 1, Len(all))
                /\ Len(x.stays) = Len(all) - n * C /\ Len(x.stays) < C
    BY ChunkLies
<1> HIDE DEF all, x, C
<1>3. Len(all) \in Nat /\ a[z] + Len(all) <= h /\ m[z] = 0 /\ Log(w, m, a, z, e, h)
    BY <1>0, <1>1 DEF Behind
<1>4. PICK w2, m2, a2, z2, off :
              /\ Log(w2, m2, a2, z2, e, h) /\ Grows(w, m, a, z, w2, m2, a2) /\ z <= z2
              /\ m2[z2] = 0 /\ a2[z2] = a[z] + n * C
              /\ Laid(x.out, 2 * n, off, w2, z, z2)
  <2>1. Framing(w, m, a, z, e, h, all, n, x.out)
    BY <1>1, <1>2, <1>3 DEF C, Framing
  <2>2. \E w2, m2, a2, z2, off :
              /\ Log(w2, m2, a2, z2, e, h) /\ Grows(w, m, a, z, w2, m2, a2) /\ z <= z2
              /\ m2[z2] = 0 /\ a2[z2] = a[z] + n * ChunkSize
              /\ Laid(x.out, 2 * n, off, w2, z, z2)
    BY <2>1, FramesLaid
  <2> QED
    BY <2>2 DEF C
<1> DEFINE k == n * C
<1>5. k \in 0..Len(all) /\ Lies(SubSeq(all, k + 1, Len(all)), e, a[z] + k)
  <2>1. k \in 0..Len(all)
    BY <1>2
  <2> HIDE DEF k
  <2> QED
    BY <1>0, <1>1, <2>1, LiesParted
<1>6. a2[z2] + Len(x.stays) = a[z] + Len(c) + Len(p)
  <2>1. a2[z2] = a[z] + k /\ Len(x.stays) = Len(all) - k
    BY <1>2, <1>4
  <2> HIDE DEF k
  <2> QED
    BY <1>0, <1>1, <1>5, <2>1
<1>7. Lies(x.stays, e, a2[z2])
    BY <1>2, <1>4, <1>5
<1> QED
    BY <1>2, <1>4, <1>6, <1>7 DEF x, C

\* How much of the pack the sender was handed; where the reader is in it.
Out(st) == IF sent = 0 THEN 0 ELSE st[sent + 1] - 1

At(st) ==
    IF state = "magic" THEN 0
    ELSE IF state = "records" THEN st[Len(got) + 1] - 1
    ELSE st[Len(got)] + pack[Len(got)] - need

\* Of what the sender was handed, its buffers have what the log has not.
Sending(st, e, m, a, z, h) ==
    /\ h = Out(st) \/ sent = Len(pack)
    /\ sender = "open" =>
        /\ h = Out(st) /\ m[z] = 0
        /\ Lies(chunk, e, a[z]) /\ Lies(bw, e, a[z] + Len(chunk))
        /\ a[z] + Len(chunk) + Len(bw) = h

\* The reader has the log to the end of a frame at b, a part of the next, and
\* of the last data the units behind those it has parsed.
Reading(st, e, w, m, a, z, b) ==
    /\ b \in Nat /\ m[b] = 0
    /\ Lies(frame, w, b) /\ Lies(buf, w, b + Len(frame)) /\ b + Len(frame) + Len(buf) <= z
    /\ At(st) \in Nat /\ At(st) + Len(cur) = a[b] /\ Lies(cur, e, At(st))

Carriage(st, e, w, m, a, z, h, b, off) ==
    /\ Layout(st, e) /\ Log(w, m, a, z, e, h)
    /\ Sending(st, e, m, a, z, h) /\ Reading(st, e, w, m, a, z, b)
    /\ ~ended => Laid(writes, Len(writes), off, w, b + Len(frame) + Len(buf), z)

Carried ==
    Stream!Parsing => \E st, e, w, m, a, z, h, b, off : Carriage(st, e, w, m, a, z, h, b, off)

\* The sizes and the values that CleanEndMeansAll is about.
Tidy ==
    /\ cur \in Seq(Units) /\ got \in Seq(Seq(Units)) /\ need \in Nat
    /\ Len(buf) <= PipeLimit /\ asleep \subseteq {"reader", "writer"}
    /\ Len(bw) <= BufioSize /\ Len(chunk) < ChunkSize
    /\ sender \in {"open", "finishing", "failing", "closed", "reset"}
    /\ reader \in {"records", "drain", "dropped", "abandoned"}
    /\ state \in {"magic", "records", "payload", "end", "error"}
    /\ canceled => reader \in {"dropped", "abandoned"}

\* The record being read is the first part of what was sent.
Part(k) ==
    /\ need <= pack[k] /\ Len(got[k]) = 1 + pack[k] - need
    /\ \A j \in 1..Len(got[k]) : got[k][j] = Stream!Record(k)[j]

Whole ==
    /\ Len(got) <= sent
    /\ \A i \in 1..Stream!Received : got[i] = Stream!Record(i)
    /\ need > 0 => Len(got) > 0 /\ Part(Len(got))
    /\ state = "magic" => got = <<>> /\ need = 0
    /\ state = "records" => need = 0
    /\ state = "payload" => need > 0
    /\ state = "end" => need = 0 /\ Len(got) = Len(pack)

PackInv == StreamInv /\ Tidy /\ Carried /\ Whole

\* At the start nothing was written, and nothing read.
LEMMA PackInit ==
    ASSUME StreamAssumption, Stream!Init
    PROVE  PackInv
<1> PICK pk \in Packs : Stream!InitWith(pk)
    BY DEF Stream!Init
<1>0. /\ pack = pk /\ sent = 0 /\ bw = <<>> /\ chunk = <<>> /\ writes = <<>> /\ sender = "open"
      /\ frame = <<>> /\ cur = <<>> /\ state = "magic" /\ need = 0 /\ got = <<>> /\ reader = "records"
      /\ buf = <<>> /\ ended = FALSE /\ canceled = FALSE /\ asleep = {}
    BY DEF Stream!InitWith, Stream!PipeInit
<1>1. pack \in Seq(Nat) /\ Len(pack) \in Nat
    BY <1>0 DEF StreamAssumption
<1>2. StreamInv
    BY StreamInit
<1>3. Len(<<>>) = 0 /\ ChunkSize \in Nat /\ 0 < ChunkSize /\ BufioSize \in Nat /\ PipeLimit \in Nat
    BY DEF StreamAssumption
<1>4. Tidy
    BY <1>0, <1>3 DEF Tidy
<1>5. Whole
    BY <1>0, <1>1 DEF Whole, Stream!Received
<1>6. PICK st, e : Layout(st, e)
    BY <1>1, PackLaidOut
<1> DEFINE w == [x \in Nat |-> 0]
<1>7. w[0] = 0 /\ (0..0) = {0} /\ (1..0) = {}
    OBVIOUS
<1> HIDE DEF w
<1>8. Log(w, w, w, 0, e, 0)
    BY <1>7 DEF Log
<1>9. Lies(<<>>, e, 0) /\ Lies(<<>>, w, 0) /\ Laid(<<>>, 0, w, w, 0, 0)
    BY <1>3, <1>7 DEF Lies, Laid
<1>10. Sending(st, e, w, w, 0, 0)
    BY <1>0, <1>3, <1>7, <1>9 DEF Sending, Out
<1>11. Reading(st, e, w, w, w, 0, 0)
    BY <1>0, <1>3, <1>7, <1>9 DEF Reading, At
<1>12. Carriage(st, e, w, w, w, 0, 0, 0, w)
    BY <1>0, <1>3, <1>6, <1>8, <1>9, <1>10, <1>11 DEF Carriage
<1>13. Carried
    BY <1>12 DEF Carried
<1> QED
    BY <1>2, <1>4, <1>5, <1>13 DEF PackInv

\* What the reader has is not touched when the log grows.
LEMMA ReadingGrows ==
    ASSUME StreamTypes, Tidy, NEW st, NEW e, NEW w, NEW m, NEW a, NEW z \in Nat, NEW b,
           Reading(st, e, w, m, a, z, b),
           NEW w2, NEW m2, NEW a2, NEW z2 \in Nat, Grows(w, m, a, z, w2, m2, a2), z <= z2
    PROVE  Reading(st, e, w2, m2, a2, z2, b)
<1>1. /\ b \in Nat /\ Len(frame) \in Nat /\ Len(buf) \in Nat /\ b + Len(frame) + Len(buf) <= z
    BY DEF Reading, StreamTypes
<1>2. b \in 0..z /\ m2[b] = m[b] /\ a2[b] = a[b]
  <2>1. b \in 0..z
    BY <1>1
  <2> QED
    BY <2>1 DEF Grows
<1>3. Lies(frame, w2, b)
  <2>1. \A i \in 1..Len(frame) : b + i \in 0..z
    BY <1>1
  <2> QED
    BY <2>1 DEF Reading, Lies, Grows
<1>4. Lies(buf, w2, b + Len(frame))
  <2>1. \A i \in 1..Len(buf) : (b + Len(frame)) + i \in 0..z
    BY <1>1
  <2> QED
    BY <2>1 DEF Reading, Lies, Grows
<1>5. b + Len(frame) + Len(buf) <= z2
    BY <1>1
<1> QED
    BY <1>1, <1>2, <1>3, <1>4, <1>5 DEF Reading

\* The records of a pack, and where they lie in it.
LEMMA StartsAre ==
    ASSUME pack \in Seq(Nat), NEW st, NEW e, Layout(st, e)
    PROVE  \A i \in 1..(Len(pack) + 1) : st[i] \in Nat /\ st[i] >= 1
<1>0. st \in [Nat -> Nat] /\ st[1] = 2
    BY DEF Layout, LayoutTo
<1>1. Len(pack) \in Nat /\ \A k \in 1..Len(pack) : pack[k] \in Nat
    OBVIOUS
<1>2. ASSUME NEW k \in 1..Len(pack) PROVE st[k + 1] >= 1
  <2>1. st[k + 1] = st[k] + 1 + pack[k]
    BY DEF Layout, LayoutTo
  <2>2. st[k] \in Nat /\ pack[k] \in Nat
    BY <1>0, <1>1
  <2> QED
    BY <2>1, <2>2
<1>3. ASSUME NEW i \in 1..(Len(pack) + 1) PROVE st[i] \in Nat /\ st[i] >= 1
  <2>1. i = 1 \/ \E k \in 1..Len(pack) : i = k + 1
    <3>1. CASE i # 1
      <4>1. i - 1 \in 1..Len(pack) /\ i = (i - 1) + 1
        BY <1>1, <3>1
      <4> QED
        BY <4>1
    <3> QED
      BY <3>1
  <2>2. i \in Nat
    BY <1>1
  <2>3. st[i] \in Nat
    BY <1>0, <2>2
  <2>4. st[1] >= 1
    BY <1>0
  <2>5. st[i] >= 1
    BY <1>2, <2>1, <2>4, Zenon
  <2> QED
    BY <2>3, <2>5
<1> QED
    BY <1>3

\* A record lies where it starts.
LEMMA RecordLies ==
    ASSUME pack \in Seq(Nat), NEW st, NEW e, Layout(st, e), NEW i \in 1..Len(pack)
    PROVE  /\ Lies(Stream!Record(i), e, st[i] - 1) /\ st[i] - 1 \in Nat
           /\ st[i + 1] = st[i] + 1 + pack[i] /\ st[i] \in Nat /\ st[i + 1] \in Nat
<1> DEFINE R == Stream!Record(i)
           n == pack[i]
           s == st[i]
<1>1. R \in Seq(Plain) /\ Len(R) = 1 + n /\ n \in Nat /\ R[1] = Stream!Unit("rec", i)
      /\ \A j \in 1..n : R[1 + j] = Stream!Unit("pay", i)
    BY RecordIs
<1>2. s \in Nat /\ s >= 1
  <2>1. i \in 1..(Len(pack) + 1)
    OBVIOUS
  <2> QED
    BY <2>1, StartsAre
<1>3. /\ st[i + 1] = s + 1 + n /\ e[s] = Stream!Unit("rec", i)
      /\ \A j \in 1..n : e[s + j] = Stream!Unit("pay", i)
    BY DEF Layout, LayoutTo
<1> HIDE DEF R, n, s
<1>4. ASSUME NEW k \in 1..(1 + n) PROVE R[k] = e[(s - 1) + k]
  <2>1. CASE k = 1
    <3>1. (s - 1) + 1 = s
      BY <1>2
    <3> QED
      BY <1>1, <1>3, <2>1, <3>1
  <2>2. CASE k # 1
    <3>1. k - 1 \in 1..n /\ 1 + (k - 1) = k /\ (s - 1) + k = s + (k - 1)
      BY <1>1, <1>2, <2>2
    <3>2. R[1 + (k - 1)] = e[s + (k - 1)]
      BY <1>1, <1>3, <3>1
    <3> QED
      BY <3>1, <3>2
  <2> QED
    BY <2>1, <2>2
<1>5. Lies(R, e, s - 1)
    BY <1>1, <1>4 DEF Lies
<1>6. s - 1 \in Nat /\ s + 1 + n \in Nat
    BY <1>1, <1>2
<1> QED
    BY <1>2, <1>3, <1>5, <1>6 DEF R, n, s

\* A sender with nothing left to write goes on; the reader is not concerned.
LEMMA SenderGoesOn ==
    ASSUME StreamInv, Tidy, writes = <<>>, sender = "open",
           NEW st, NEW e, NEW w, NEW m, NEW a, NEW z, NEW h, NEW b, NEW off,
           Carriage(st, e, w, m, a, z, h, b, off),
           UNCHANGED Stream!pipeVars, UNCHANGED Stream!readerVars, pack' = pack,
           NEW w2, NEW m2, NEW a2, NEW z2, NEW h2, NEW off2,
           Log(w2, m2, a2, z2, e, h2), Grows(w, m, a, z, w2, m2, a2), z <= z2,
           Laid(writes', Len(writes'), off2, w2, z, z2), Sending(st, e, m2, a2, z2, h2)'
    PROVE  Carriage(st, e, w2, m2, a2, z2, h2, b, off2)'
<1> USE DEF Stream!pipeVars, Stream!readerVars
<1>1. z \in Nat /\ z2 \in Nat /\ ~ended
    BY DEF Carriage, Log, StreamInv, StreamTypes, EndedIsThrough
<1>2. Reading(st, e, w2, m2, a2, z2, b)
    BY <1>1, ReadingGrows DEF Carriage, StreamInv
<1>3. Reading(st, e, w2, m2, a2, z2, b)'
    BY <1>2 DEF Reading, At
<1>4. Layout(st, e)'
    BY DEF Carriage, Layout, LayoutTo
<1>5. b + Len(frame) + Len(buf) = z
    BY <1>1 DEF Carriage, Laid
<1>6. Laid(writes, Len(writes), off2, w2, b + Len(frame) + Len(buf), z2)'
    BY <1>5
<1> QED
    BY <1>3, <1>4, <1>6 DEF Carriage

\* ensure_magic.
LEMMA MagicLies ==
    ASSUME StreamInv, sender = "open", NEW st, NEW e, NEW w, NEW m, NEW a, NEW z, NEW h, NEW b, NEW off,
           Carriage(st, e, w, m, a, z, h, b, off)
    PROVE  /\ Stream!WithMagic \in Seq(Plain) /\ Lies(Stream!WithMagic, e, a[z] + Len(chunk))
           /\ a[z] \in Nat /\ Len(chunk) \in Nat /\ st[sent + 1] \in Nat /\ h \in Nat
           /\ a[z] + Len(chunk) + Len(Stream!WithMagic) = st[sent + 1] - 1
           /\ h <= st[sent + 1] - 1
<1>0. /\ pack \in Seq(Nat) /\ sent \in 0..Len(pack) /\ Len(pack) \in Nat
      /\ bw \in Seq(Plain) /\ chunk \in Seq(Plain) /\ Len(bw) \in Nat /\ Len(chunk) \in Nat
    BY DEF StreamInv, StreamTypes
<1>1. z \in Nat /\ h \in Nat /\ a[z] \in Nat
  <2>1. z \in Nat /\ h \in Nat /\ z \in 0..z
    BY DEF Carriage, Log
  <2>2. a[z] \in 0..h
    BY <2>1 DEF Carriage, Log
  <2> QED
    BY <2>1, <2>2
<1>2. st[sent + 1] \in Nat /\ st[1] = 2 /\ e[1] = Stream!Magic
  <2>1. sent + 1 \in 1..(Len(pack) + 1)
    BY <1>0
  <2> QED
    BY <1>0, <2>1, StartsAre DEF Carriage, Layout, LayoutTo
<1>3. /\ h = Out(st) /\ Lies(bw, e, a[z] + Len(chunk)) /\ a[z] + Len(chunk) + Len(bw) = h
    BY DEF Carriage, Sending
<1>4. CASE sent = 0
  <2>1. Stream!WithMagic = <<Stream!Magic>>
    BY <1>4 DEF Stream!WithMagic
  <2>2. Stream!Magic \in Plain
    BY DEF Stream!Magic, Stream!Unit, Plain
  <2>3. /\ Stream!WithMagic \in Seq(Plain) /\ Len(Stream!WithMagic) = 1
        /\ Stream!WithMagic[1] = Stream!Magic
    BY <2>1, <2>2, OfOne
  <2>4. h = 0 /\ a[z] = 0 /\ Len(chunk) = 0 /\ st[sent + 1] = 2
    BY <1>0, <1>1, <1>2, <1>3, <1>4 DEF Out
  <2>5. \A i \in 1..1 : i = 1
    OBVIOUS
  <2>6. Lies(Stream!WithMagic, e, 0)
    BY <1>2, <2>3, <2>5 DEF Lies
  <2> QED
    BY <1>0, <1>1, <1>2, <2>3, <2>4, <2>6
<1>5. CASE sent # 0
  <2>1. Stream!WithMagic = bw /\ h = st[sent + 1] - 1
    BY <1>3, <1>5 DEF Stream!WithMagic, Out
  <2> QED
    BY <1>0, <1>1, <1>2, <1>3, <2>1
<1> QED
    BY <1>4, <1>5

\* add_record.
LEMMA AddRecordCarries ==
    ASSUME StreamAssumption, StreamInv, Tidy, Carried, Stream!AddRecord
    PROVE  Carried' /\ Len(bw') <= BufioSize /\ Len(chunk') < ChunkSize
<1> DEFINE W == Stream!WithMagic
           R == Stream!Record(sent + 1)
           q == Stream!BufferedWrite(W, R)
           x == Stream!ChunkWrite(chunk, q.out)
<1>0. /\ sender = "open" /\ writes = <<>> /\ sent < Len(pack)
      /\ bw' = q.stays /\ chunk' = x.stays /\ writes' = x.out /\ sent' = sent + 1
      /\ UNCHANGED Stream!pipeVars /\ UNCHANGED Stream!readerVars /\ pack' = pack /\ sender' = sender
    BY DEF Stream!AddRecord
<1>1. /\ pack \in Seq(Nat) /\ sent + 1 \in 1..Len(pack) /\ chunk \in Seq(Plain) /\ sent \in Nat
    BY <1>0 DEF StreamInv, StreamTypes
<1>2. R \in Seq(Plain) /\ Len(R) = 1 + pack[sent + 1] /\ pack[sent + 1] \in Nat
    BY <1>1, RecordIs
<1>3. W \in Seq(Plain)
  <2>1. Stream!Magic \in Plain
    BY DEF Stream!Magic, Stream!Unit, Plain
  <2>2. <<Stream!Magic>> \in Seq(Plain) /\ bw \in Seq(Plain)
    BY <2>1 DEF StreamInv, StreamTypes
  <2> QED
    BY <2>2 DEF Stream!WithMagic
<1>4. q.out \in Seq(Plain) /\ q.stays \in Seq(Plain)
    BY <1>2, <1>3, BufferedWritePlain
<1>5. ASSUME NEW g, NEW o \in Nat, Lies(W, g, o), Lies(R, g, o + Len(W))
      PROVE  /\ Lies(q.out, g, o) /\ Lies(q.stays, g, o + Len(q.out))
             /\ Len(q.out) + Len(q.stays) = Len(W) + Len(R) /\ Len(q.stays) <= BufioSize
  <2>1. Lies(W \o R, g, o)
    BY <1>2, <1>3, <1>5, LiesJoined
  <2> QED
    BY <1>2, <1>3, <1>5, <2>1, BufferedLies
<1> HIDE DEF q, x, W, R
<1>6. ASSUME NEW st, NEW e, NEW w, NEW m, NEW a, NEW z, NEW h, NEW b, NEW off,
             Carriage(st, e, w, m, a, z, h, b, off)
      PROVE  \E w2, m2, a2, z2, h2, off2 : Carriage(st, e, w2, m2, a2, z2, h2, b, off2)'
  <2> DEFINE o == a[z] + Len(chunk)
  <2>0. PICK h2 : h2 = st[sent + 2] - 1
    OBVIOUS
  <2>1. /\ Lies(W, e, o) /\ a[z] \in Nat /\ Len(chunk) \in Nat /\ o \in Nat
        /\ st[sent + 1] \in Nat /\ h \in Nat /\ o + Len(W) = st[sent + 1] - 1
        /\ h <= st[sent + 1] - 1
    BY <1>0, <1>6, MagicLies DEF W
  <2>2. Lies(R, e, st[sent + 1] - 1) /\ st[sent + 2] = st[sent + 1] + 1 + pack[sent + 1]
        /\ st[sent + 1] - 1 \in Nat
    <3>1. (sent + 1) + 1 = sent + 2
      BY <1>1
    <3> QED
      BY <1>1, <1>6, <3>1, RecordLies DEF Carriage, R
  <2>3. /\ Lies(q.out, e, o) /\ Lies(q.stays, e, o + Len(q.out))
        /\ Len(q.out) + Len(q.stays) = Len(W) + Len(R)
    <3>1. o \in Nat /\ Lies(W, e, o) /\ Lies(R, e, o + Len(W))
      BY <2>1, <2>2
    <3> HIDE DEF o
    <3> QED
      BY <1>5, <3>1
  <2>4. /\ h2 \in Nat /\ h <= h2 /\ o + Len(q.out) + Len(q.stays) = h2 /\ o + Len(q.out) <= h2
        /\ Len(q.out) \in Nat
    <3>1. Len(q.out) \in Nat /\ Len(q.stays) \in Nat /\ Len(W) \in Nat
      BY <1>3, <1>4
    <3> HIDE DEF o
    <3>2. PICK s \in Nat, n \in Nat, u \in Nat, v \in Nat, y \in Nat, t \in Nat :
              /\ s = st[sent + 1] /\ n = pack[sent + 1] /\ u = Len(q.out) /\ v = Len(q.stays)
              /\ y = Len(W) /\ t = o
      BY <1>2, <2>1, <3>1, Zenon
    <3>3. t + y = s - 1 /\ h <= s - 1 /\ u + v = y + (1 + n) /\ h2 = (s + 1 + n) - 1 /\ h \in Nat
      BY <1>2, <2>0, <2>1, <2>2, <2>3, <3>2
    <3>4. h2 \in Nat /\ h <= h2 /\ t + u + v = h2 /\ t + u <= h2
      BY <3>3
    <3> QED
      BY <3>2, <3>4
  <2>5. Behind(w, m, a, z, e, h2, chunk, q.out)
    <3>1. Log(w, m, a, z, e, h2)
      BY <1>6, <2>4, LogRaised DEF Carriage
    <3> QED
      BY <1>0, <1>6, <2>3, <2>4, <3>1 DEF Behind, Carriage, Sending
  <2>6. PICK w2, m2, a2, z2, off2 :
              /\ Log(w2, m2, a2, z2, e, h2) /\ Grows(w, m, a, z, w2, m2, a2) /\ z <= z2
              /\ m2[z2] = 0 /\ Laid(x.out, Len(x.out), off2, w2, z, z2)
              /\ Lies(x.stays, e, a2[z2]) /\ a2[z2] + Len(x.stays) = a[z] + Len(chunk) + Len(q.out)
    BY <1>1, <1>4, <2>5, ChunkLaid DEF x
  <2>7. Sending(st, e, m2, a2, z2, h2)'
    <3>1. h2 = Out(st)'
      <4>1. sent' # 0 /\ sent' + 1 = sent + 2
        BY <1>0, <1>1
      <4> QED
        BY <2>0, <4>1 DEF Out
    <3>2. /\ Lies(bw', e, a2[z2] + Len(chunk')) /\ a2[z2] + Len(chunk') + Len(bw') = h2
      BY <1>0, <2>3, <2>4, <2>6
    <3> QED
      BY <1>0, <2>6, <3>1, <3>2 DEF Sending
  <2>8. Laid(writes', Len(writes'), off2, w2, z, z2)
    BY <1>0, <2>6
  <2>9. Carriage(st, e, w2, m2, a2, z2, h2, b, off2)'
    BY <1>0, <1>6, <2>6, <2>7, <2>8, SenderGoesOn
  <2> QED
    BY <2>9
<1>7. Carried'
  <2> SUFFICES ASSUME Stream!Parsing'
               PROVE  (\E st, e, w, m, a, z, h, b, off : Carriage(st, e, w, m, a, z, h, b, off))'
    BY DEF Carried
  <2>1. Stream!Parsing
    BY <1>0 DEF Stream!Parsing, Stream!readerVars
  <2>2. PICK st, e, w, m, a, z, h, b, off : Carriage(st, e, w, m, a, z, h, b, off)
    BY <2>1 DEF Carried
  <2> QED
    BY <1>6, <2>2
<1>8. Len(q.stays) <= BufioSize
  <2> DEFINE g == [i \in Nat |-> (W \o R)[i]]
  <2>1. Lies(W \o R, g, 0)
    BY <1>2, <1>3, Joined DEF Lies
  <2> HIDE DEF g
  <2> QED
    BY <1>2, <1>3, <2>1, BufferedLies DEF q
<1>9. Len(x.stays) < ChunkSize
    BY <1>1, <1>4, ChunkLies DEF x
<1> QED
    BY <1>0, <1>7, <1>8, <1>9

\* A log that grew twice has grown.
LEMMA GrowsOn ==
    ASSUME NEW w, NEW m, NEW a, NEW z \in Nat, NEW w2, NEW m2, NEW a2, NEW z2 \in Nat,
           NEW w3, NEW m3, NEW a3,
           Grows(w, m, a, z, w2, m2, a2), Grows(w2, m2, a2, z2, w3, m3, a3), z <= z2
    PROVE  Grows(w, m, a, z, w3, m3, a3)
<1>1. \A x \in 0..z : x \in 0..z2
    OBVIOUS
<1> QED
    BY <1>1 DEF Grows

\* A header that announces nothing is the last of the writes.
Ends(ws, k, off, w, m, a, b, z, e, h) ==
    /\ Log(w, m, a, z, e, h) /\ m[z] = 0 /\ Laid(ws, k, off, w, b, z)
    /\ k \in Nat /\ Len(ws) = k + 1 /\ ws \in Seq(Seq(Units))
    /\ Len(ws[k + 1]) = 2 /\ ws[k + 1][2].n = 0

\* The log ends with it.
LEMMA HeaderEnds ==
    ASSUME NEW ws, NEW k, NEW off, NEW w, NEW m, NEW a, NEW b, NEW z, NEW e, NEW h,
           Ends(ws, k, off, w, m, a, b, z, e, h)
    PROVE  \E w2, m2, a2, off2 :
              /\ Log(w2, m2, a2, z + 2, e, h) /\ Grows(w, m, a, z, w2, m2, a2) /\ z <= z + 2
              /\ Laid(ws, Len(ws), off2, w2, b, z + 2)
<1>1. z \in Nat /\ h \in Nat /\ a[z] \in 0..h /\ Len(<<>>) = 0 /\ k \in Nat
  <2>1. z \in Nat /\ h \in Nat /\ z \in 0..z
    BY DEF Ends, Log
  <2> QED
    BY <2>1 DEF Ends, Log
<1>2. NextFrame(w, m, a, z, e, h, ws[k + 1], <<>>)
  <2>1. Lies(<<>>, e, a[z]) /\ a[z] + 0 <= h
    BY <1>1 DEF Lies
  <2> QED
    BY <1>1, <2>1 DEF Ends, NextFrame
<1>3. \A i \in 1..(k + 1) : Len(ws[i]) \in Nat
    BY DEF Ends
<1>4. \E w2, m2, a2, off2 :
              /\ Log(w2, m2, a2, z + 2, e, h) /\ Grows(w, m, a, z, w2, m2, a2)
              /\ m2[z + 2] = 0 /\ a2[z + 2] = a[z]
              /\ Laid(ws, k + 1, off2, w2, b, z + 2)
    BY <1>1, <1>2, <1>3, HeaderLaid DEF Ends
<1>5. z <= z + 2 /\ Len(ws) = k + 1
    BY <1>1 DEF Ends
<1> QED
    BY <1>4, <1>5

\* A header: two units, of which the second has the length.
LEMMA HeaderIs ==
    ASSUME NEW type, NEW n
    PROVE  Len(Stream!Header(type, n)) = 2 /\ Stream!Header(type, n)[2].n = n
    BY DEF Stream!Header, Stream!Unit

\* The sender gives up: an error frame, and no more of the pack.
LEMMA SendErrCarries ==
    ASSUME StreamAssumption, StreamInv, StreamInv', Tidy, Carried, Stream!SendErr
    PROVE  Carried'
<1>0. /\ sender = "open" /\ sender' = "failing"
      /\ writes = <<>> /\ writes' = <<Stream!Header("err", 0)>>
      /\ UNCHANGED Stream!pipeVars /\ UNCHANGED Stream!readerVars /\ pack' = pack /\ sent' = sent
    BY DEF Stream!SendErr
<1> SUFFICES ASSUME Stream!Parsing'
             PROVE  (\E st, e, w, m, a, z, h, b, off : Carriage(st, e, w, m, a, z, h, b, off))'
    BY DEF Carried
<1>1. Stream!Parsing
    BY <1>0 DEF Stream!Parsing, Stream!readerVars
<1>2. PICK st, e, w, m, a, z, h, b, off : Carriage(st, e, w, m, a, z, h, b, off)
    BY <1>1 DEF Carried
<1>3. z \in Nat /\ Log(w, m, a, z, e, h) /\ m[z] = 0
    BY <1>0, <1>2 DEF Carriage, Log, Sending
<1> DEFINE o == [i \in Nat |-> z]
<1>4. o[0] = z /\ (0..0) = {0} /\ (1..0) = {} /\ z <= z
    BY <1>3
<1> HIDE DEF o
<1>5. Laid(writes', 0, o, w, z, z)
    BY <1>3, <1>4 DEF Laid
<1>6. Ends(writes', 0, o, w, m, a, z, z, e, h)
  <2>1. writes' \in Seq(Seq(Units))
    BY DEF StreamInv, StreamTypes
  <2>2. Len(writes') = 0 + 1 /\ writes'[0 + 1] = Stream!Header("err", 0)
    BY <1>0
  <2> QED
    BY <1>3, <1>5, <2>1, <2>2, HeaderIs DEF Ends
<1>7. PICK w2, m2, a2, off2 :
              /\ Log(w2, m2, a2, z + 2, e, h) /\ Grows(w, m, a, z, w2, m2, a2) /\ z <= z + 2
              /\ Laid(writes', Len(writes'), off2, w2, z, z + 2)
    BY <1>6, HeaderEnds
<1>8. Sending(st, e, m2, a2, z + 2, h)'
    BY <1>0, <1>2 DEF Carriage, Sending, Out
<1>9. Carriage(st, e, w2, m2, a2, z + 2, h, b, off2)'
    BY <1>0, <1>2, <1>7, <1>8, SenderGoesOn
<1> QED
    BY <1>9

\* The last frames: what is left of the data, if any, and the end.
LastWrites(out, stays, ws) ==
    /\ out \in Seq(Seq(Plain)) /\ stays \in Seq(Plain)
    /\ ws \in Seq(Seq(Units))
    /\ ws = (out \o Stream!ChunkFlush(stays)) \o <<Stream!Header("dataend", 0)>>

\* The log ends with them.
LEMMA LastWritesLaid ==
    ASSUME NEW out, NEW stays, NEW ws, LastWrites(out, stays, ws),
           NEW off, NEW w, NEW m, NEW a, NEW b, NEW z, NEW e, NEW h,
           Log(w, m, a, z, e, h), m[z] = 0, Laid(out, Len(out), off, w, b, z),
           Lies(stays, e, a[z]), a[z] + Len(stays) <= h
    PROVE  \E w2, m2, a2, z2, off2 :
              /\ Log(w2, m2, a2, z2, e, h) /\ Grows(w, m, a, z, w2, m2, a2) /\ z <= z2
              /\ Laid(ws, Len(ws), off2, w2, b, z2)
<1> DEFINE H == Stream!Header("dataend", 0)
           D == Stream!Header("data", Len(stays))
           k == Len(out)
<1>1. /\ out \in Seq(Seq(Plain)) /\ k \in Nat /\ Len(stays) \in Nat /\ z \in Nat
    BY DEF LastWrites, Log
<1>2. /\ Len(H) = 2 /\ H[2].n = 0 /\ Len(D) = 2 /\ D[2].n = Len(stays)
    BY HeaderIs
<1> HIDE DEF H, D
<1>3. \A i \in 1..Len(ws) : Len(ws[i]) \in Nat
    BY DEF LastWrites
<1>4. ws = (out \o Stream!ChunkFlush(stays)) \o <<H>>
    BY DEF LastWrites, H
<1>5. CASE stays = <<>>
  <2>1. Stream!ChunkFlush(stays) = <<>>
    BY <1>5 DEF Stream!ChunkFlush
  <2>2. ws = out \o <<H>>
    BY <1>1, <1>4, <2>1
  <2>3. Len(ws) = k + 1 /\ ws[k + 1] = H /\ \A i \in 1..k : ws[i] = out[i]
    BY <1>1, <2>2
  <2>4. Laid(ws, k, off, w, b, z)
    BY <1>1, <2>3, LaidToo
  <2>5. Ends(ws, k, off, w, m, a, b, z, e, h)
    BY <1>1, <1>2, <2>3, <2>4 DEF Ends, LastWrites
  <2> QED
    BY <2>5, HeaderEnds
<1>6. CASE stays # <<>>
  <2>1. Stream!ChunkFlush(stays) = <<D, stays>>
    BY <1>6 DEF Stream!ChunkFlush, Stream!TData, D
  <2>2. ws = (out \o <<D, stays>>) \o <<H>>
    BY <1>4, <2>1
  <2>3. /\ Len(ws) = k + 3 /\ ws[k + 1] = D /\ ws[k + 2] = stays /\ ws[k + 3] = H
        /\ \A i \in 1..k : ws[i] = out[i]
    BY <1>1, <2>2
  <2>4. Laid(ws, k, off, w, b, z)
    BY <1>1, <2>3, LaidToo
  <2>5. NextFrame(w, m, a, z, e, h, ws[k + 1], ws[k + 2])
    BY <1>1, <1>2, <2>3 DEF NextFrame
  <2>6. \A i \in 1..(k + 2) : Len(ws[i]) \in Nat
    <3>1. \A i \in 1..(k + 2) : i \in 1..Len(ws)
      BY <1>1, <2>3
    <3> QED
      BY <1>3, <3>1
  <2>7. PICK w2, m2, a2, off2 :
              LET z2 == z + 2 + Len(ws[k + 2]) IN
              /\ Log(w2, m2, a2, z2, e, h) /\ Grows(w, m, a, z, w2, m2, a2)
              /\ m2[z2] = 0 /\ a2[z2] = a[z] + Len(ws[k + 2])
              /\ Laid(ws, k + 2, off2, w2, b, z2)
    <3>1. FrameNext(ws, k, off, w, m, a, b, z, e, h)
      BY <1>1, <2>4, <2>5, <2>6 DEF FrameNext
    <3> HIDE DEF k
    <3> QED
      BY <3>1, FrameLaid
  <2>8. PICK z2 : z2 = z + 2 + Len(stays)
    OBVIOUS
  <2>9. /\ Log(w2, m2, a2, z2, e, h) /\ Grows(w, m, a, z, w2, m2, a2)
        /\ m2[z2] = 0 /\ Laid(ws, k + 2, off2, w2, b, z2)
    BY <2>3, <2>7, <2>8
  <2>10. k + 2 \in Nat /\ (k + 2) + 1 = k + 3 /\ z2 \in Nat /\ z <= z2
    BY <1>1, <2>8
  <2>11. Ends(ws, k + 2, off2, w2, m2, a2, b, z2, e, h)
    BY <1>2, <2>3, <2>9, <2>10 DEF Ends, LastWrites
  <2>12. PICK w3, m3, a3, off3 :
              /\ Log(w3, m3, a3, z2 + 2, e, h) /\ Grows(w2, m2, a2, z2, w3, m3, a3) /\ z2 <= z2 + 2
              /\ Laid(ws, Len(ws), off3, w3, b, z2 + 2)
    BY <2>11, HeaderEnds
  <2>13. Grows(w, m, a, z, w3, m3, a3)
    BY <1>1, <2>9, <2>10, <2>12, GrowsOn
  <2>14. z <= z2 + 2
    BY <1>1, <2>10
  <2> QED
    BY <2>12, <2>13, <2>14
<1> QED
    BY <1>5, <1>6

\* finish: the end marker, the last frames and the end of the data.
LEMMA FinishCarries ==
    ASSUME StreamAssumption, StreamInv, StreamInv', Tidy, Carried, Stream!Finish
    PROVE  Carried'
<1> DEFINE W == Stream!WithMagic
           p == Append(W, Stream!EndTag)
           x == Stream!ChunkWrite(chunk, p)
<1>0. /\ sender = "open" /\ writes = <<>> /\ sent = Len(pack) /\ sender' = "finishing"
      /\ writes' = (x.out \o Stream!ChunkFlush(x.stays)) \o <<Stream!Header("dataend", 0)>>
      /\ UNCHANGED Stream!pipeVars /\ UNCHANGED Stream!readerVars /\ pack' = pack /\ sent' = sent
    BY DEF Stream!Finish
<1> SUFFICES ASSUME Stream!Parsing'
             PROVE  (\E st, e, w, m, a, z, h, b, off : Carriage(st, e, w, m, a, z, h, b, off))'
    BY DEF Carried
<1>1. Stream!Parsing
    BY <1>0 DEF Stream!Parsing, Stream!readerVars
<1>2. PICK st, e, w, m, a, z, h, b, off : Carriage(st, e, w, m, a, z, h, b, off)
    BY <1>1 DEF Carried
<1>3. /\ W \in Seq(Plain) /\ Lies(W, e, a[z] + Len(chunk))
      /\ a[z] \in Nat /\ Len(chunk) \in Nat /\ st[sent + 1] \in Nat /\ h \in Nat
      /\ a[z] + Len(chunk) + Len(W) = st[sent + 1] - 1
      /\ h <= st[sent + 1] - 1
    BY <1>0, <1>2, MagicLies
<1>4. chunk \in Seq(Plain) /\ Stream!EndTag \in Plain /\ e[st[sent + 1]] = Stream!EndTag
    BY <1>0, <1>2 DEF StreamInv, StreamTypes, Stream!EndTag, Stream!Unit, Plain, Carriage, Layout
<1> HIDE DEF W
<1>5. /\ p \in Seq(Plain) /\ Len(p) = Len(W) + 1 /\ p[Len(W) + 1] = Stream!EndTag /\ Len(W) \in Nat
      /\ \A i \in 1..Len(W) : p[i] = W[i]
    BY <1>3, <1>4
<1> HIDE DEF p
<1>6. PICK h2 : h2 = st[sent + 1]
    OBVIOUS
<1>7. h2 \in Nat /\ h <= h2 /\ a[z] + Len(chunk) + Len(p) = h2
  <2>1. PICK t \in Nat, y \in Nat : t = a[z] + Len(chunk) /\ y = Len(W)
    BY <1>3, <1>5
  <2>2. t + y = h2 - 1 /\ h <= h2 - 1 /\ h \in Nat /\ h2 \in Nat
    BY <1>3, <1>6, <2>1
  <2>3. h <= h2 /\ t + (y + 1) = h2
    BY <2>2
  <2> QED
    BY <1>5, <2>1, <2>2, <2>3
<1>8. Lies(p, e, a[z] + Len(chunk))
  <2>1. PICK o : o = a[z] + Len(chunk) /\ o \in Nat
    BY <1>3
  <2>2. Lies(W, e, o) /\ o + (Len(W) + 1) = st[sent + 1]
    BY <1>3, <1>5, <1>6, <1>7, <2>1
  <2>3. ASSUME NEW i \in 1..(Len(W) + 1) PROVE p[i] = e[o + i]
    <3>1. i \in 1..Len(W) \/ i = Len(W) + 1
      BY <1>5
    <3> QED
      BY <1>4, <1>5, <2>2, <3>1 DEF Lies
  <2> QED
    BY <1>5, <2>1, <2>3 DEF Lies
<1>9. Behind(w, m, a, z, e, h2, chunk, p)
  <2>1. Log(w, m, a, z, e, h2)
    BY <1>2, <1>7, LogRaised DEF Carriage
  <2>2. h2 <= h2
    BY <1>7
  <2> QED
    BY <1>0, <1>2, <1>7, <1>8, <2>1, <2>2 DEF Behind, Carriage, Sending
<1>10. PICK w2, m2, a2, z2, off2 :
              /\ Log(w2, m2, a2, z2, e, h2) /\ Grows(w, m, a, z, w2, m2, a2) /\ z <= z2
              /\ m2[z2] = 0 /\ Laid(x.out, Len(x.out), off2, w2, z, z2)
              /\ Lies(x.stays, e, a2[z2]) /\ a2[z2] + Len(x.stays) = a[z] + Len(chunk) + Len(p)
    BY <1>4, <1>5, <1>9, ChunkLaid
<1>11. LastWrites(x.out, x.stays, writes')
  <2>1. x.out \in Seq(Seq(Plain)) /\ x.stays \in Seq(Plain)
    BY <1>4, <1>5, ChunkWritePlain
  <2>2. writes' \in Seq(Seq(Units))
    BY DEF StreamInv, StreamTypes
  <2> HIDE DEF x
  <2> QED
    BY <1>0, <2>1, <2>2 DEF LastWrites
<1> HIDE DEF x
<1>12. PICK w3, m3, a3, z3, off3 :
              /\ Log(w3, m3, a3, z3, e, h2) /\ Grows(w2, m2, a2, z2, w3, m3, a3) /\ z2 <= z3
              /\ Laid(writes', Len(writes'), off3, w3, z, z3)
  <2>1. a2[z2] + Len(x.stays) <= h2
    BY <1>7, <1>10
  <2> QED
    BY <1>10, <1>11, <2>1, LastWritesLaid
<1>13. z \in Nat /\ z2 \in Nat /\ z3 \in Nat
    BY <1>2, <1>10, <1>12 DEF Carriage, Log
<1>14. Grows(w, m, a, z, w3, m3, a3) /\ z <= z3
    BY <1>10, <1>12, <1>13, GrowsOn
<1>15. Sending(st, e, m3, a3, z3, h2)'
    BY <1>0 DEF Sending
<1>16. Carriage(st, e, w3, m3, a3, z3, h2, b, off3)'
    BY <1>0, <1>2, <1>12, <1>14, <1>15, SenderGoesOn
<1> QED
    BY <1>16

\* Nobody writes or reads, but the sender may be through.
LEMMA StillCarried ==
    ASSUME StreamInv, Tidy, Carried,
           UNCHANGED <<buf, pack, sent, frame, cur, state, need, got, reader>>,
           \/ UNCHANGED <<ended, writes, sender, bw, chunk>>
           \/ ended' /\ sender' # "open"
    PROVE  Carried'
<1> SUFFICES ASSUME Stream!Parsing'
             PROVE  (\E st, e, w, m, a, z, h, b, off : Carriage(st, e, w, m, a, z, h, b, off))'
    BY DEF Carried
<1>1. Stream!Parsing
    BY DEF Stream!Parsing
<1>2. PICK st, e, w, m, a, z, h, b, off : Carriage(st, e, w, m, a, z, h, b, off)
    BY <1>1 DEF Carried
<1>3. Layout(st, e)' /\ Reading(st, e, w, m, a, z, b)'
    BY <1>2 DEF Carriage, Layout, LayoutTo, Reading, At
<1>4. Sending(st, e, m, a, z, h)'
    BY <1>2 DEF Carriage, Sending, Out
<1>5. (~ended => Laid(writes, Len(writes), off, w, b + Len(frame) + Len(buf), z))'
    BY <1>2 DEF Carriage
<1>6. Carriage(st, e, w, m, a, z, h, b, off)'
    BY <1>2, <1>3, <1>4, <1>5 DEF Carriage
<1> QED
    BY <1>6

\* The first k units of the first write move from the writes to the buffer.
Queued(bf, ws, off, w, r, z) ==
    r \in Nat /\ z \in Nat /\ Lies(bf, w, r) /\ Laid(ws, Len(ws), off, w, r + Len(bf), z)

\* They stay where they are in the log.
LEMMA WriteLaid ==
    ASSUME NEW C, NEW bf, NEW ws, NEW k, NEW bf2, NEW ws2, Passes(Units, C, bf, ws, k, bf2, ws2),
           NEW off, NEW w, NEW r, NEW z, Queued(bf, ws, off, w, r, z)
    PROVE  /\ Lies(bf2, w, r) /\ r + Len(bf2) <= z
           /\ \E off2 : Laid(ws2, Len(ws2), off2, w, r + Len(bf2), z)
<1> USE DEF Queued
<1>0. /\ bf \in Seq(Units) /\ Len(bf) \in Nat /\ ws \in Seq(Seq(Units)) /\ Len(ws) \in Nat \ {0}
    BY DEF Passes
<1>1. PICK hd : hd = ws[1] /\ hd = Head(ws) /\ hd \in Seq(Units) /\ Len(hd) \in Nat /\ k \in 0..Len(hd)
    BY <1>0 DEF Passes
<1>2. PICK first : /\ first \in Seq(Units) /\ first = SubSeq(hd, 1, k) /\ Len(first) = k
  <2>1. SubSeq(hd, 1, k) \in Seq(Units) /\ Len(SubSeq(hd, 1, k)) = k
    BY <1>1, Pieces
  <2> QED
    BY <2>1, Zenon
<1>3. PICK rest : /\ rest \in Seq(Units) /\ rest = SubSeq(hd, k + 1, Len(hd)) /\ Len(rest) = Len(hd) - k
  <2>1. /\ SubSeq(hd, k + 1, Len(hd)) \in Seq(Units) /\ Len(SubSeq(hd, k + 1, Len(hd))) = Len(hd) - k
    BY <1>1, Pieces
  <2> QED
    BY <2>1, Zenon
<1>4. bf2 = bf \o first /\ ws2 = IF rest = <<>> THEN Tail(ws) ELSE <<rest>> \o Tail(ws)
    BY <1>1, <1>2, <1>3 DEF Passes
<1>5. PICK o \in Nat : o = r + Len(bf)
    BY <1>0
<1>6. /\ off[0] = o /\ off[Len(ws)] = z
      /\ \A i \in 0..Len(ws) : off[i] \in Nat /\ off[i] <= z
      /\ \A i \in 1..Len(ws) : off[i] = off[i - 1] + Len(ws[i]) /\ Lies(ws[i], w, off[i - 1])
    BY <1>5 DEF Laid
<1>7. off[1] = o + Len(hd) /\ Lies(hd, w, o) /\ off[1] <= z
  <2>1. 1 \in 1..Len(ws) /\ 1 \in 0..Len(ws) /\ 1 - 1 = 0
    BY <1>0
  <2> QED
    BY <1>1, <1>6, <2>1
<1>8. Lies(first, w, o) /\ Lies(rest, w, o + k)
    BY <1>1, <1>2, <1>3, <1>7, LiesParted
<1>9. Lies(bf2, w, r) /\ Len(bf2) = Len(bf) + k
    BY <1>0, <1>2, <1>4, <1>5, <1>8, LiesJoined
<1>10. r + Len(bf2) = o + k /\ o + k <= z /\ o + k \in Nat
  <2>1. PICK u \in Nat, v \in Nat : u = Len(bf) /\ v = Len(hd)
    BY <1>0, <1>1
  <2>2. o = r + u /\ k \in 0..v /\ o + v <= z /\ Len(bf2) = u + k
    BY <1>1, <1>5, <1>7, <1>9, <2>1
  <2>3. r + (u + k) = o + k /\ o + k <= z /\ o + k \in Nat
    BY <2>2
  <2> QED
    BY <2>2, <2>3
<1>11. PICK tl : /\ tl = Tail(ws) /\ Len(tl) = Len(ws) - 1 /\ tl \in Seq(Seq(Units))
                 /\ \A i \in 1..(Len(ws) - 1) : tl[i] = ws[i + 1]
  <2>1. /\ Tail(ws) \in Seq(Seq(Units)) /\ Len(Tail(ws)) = Len(ws) - 1
        /\ \A i \in 1..(Len(ws) - 1) : Tail(ws)[i] = ws[i + 1]
    BY <1>0, Tails
  <2> QED
    BY <2>1, Zenon
<1>12. PICK n : n = Len(ws) - 1 /\ n \in Nat
  <2>1. Len(ws) - 1 \in Nat
    BY <1>0
  <2> QED
    BY <2>1
<1>13. CASE rest = <<>>
  <2>1. ws2 = tl /\ Len(ws2) = n /\ k = Len(hd)
    <3>1. PICK v \in Nat : v = Len(hd)
      BY <1>1
    <3>2. Len(rest) = 0 /\ Len(rest) = v - k /\ k \in 0..v
      BY <1>1, <1>3, <1>13, <3>1
    <3>3. k = v
      BY <3>2
    <3> QED
      BY <1>4, <1>11, <1>12, <1>13, <3>1, <3>3
  <2> DEFINE off2 == [i \in Nat |-> off[i + 1]]
  <2>2. ASSUME NEW i \in 0..n
        PROVE off2[i] = off[i + 1] /\ off[i + 1] \in Nat /\ off[i + 1] <= z
    <3>1. i \in Nat /\ i + 1 \in 0..Len(ws)
      BY <1>0, <1>12
    <3> QED
      BY <1>6, <3>1
  <2>3. ASSUME NEW i \in 1..n
        PROVE off2[i] = off2[i - 1] + Len(tl[i]) /\ Lies(tl[i], w, off2[i - 1])
    <3>1. i \in 0..n /\ i - 1 \in 0..n /\ (i - 1) + 1 = i /\ i + 1 \in 1..Len(ws) /\ (i + 1) - 1 = i
          /\ i \in 1..(Len(ws) - 1)
      BY <1>0, <1>12
    <3>2. off2[i] = off[i + 1] /\ off2[i - 1] = off[i] /\ tl[i] = ws[i + 1]
      BY <1>11, <2>2, <3>1
    <3> HIDE DEF off2
    <3>3. off[i + 1] = off[(i + 1) - 1] + Len(ws[i + 1]) /\ Lies(ws[i + 1], w, off[(i + 1) - 1])
      BY <1>6, <3>1
    <3> QED
      BY <3>1, <3>2, <3>3
  <2>4. off2[0] = r + Len(bf2) /\ off2[n] = z
    <3>1. 0 \in 0..n /\ n \in 0..n /\ 0 + 1 = 1 /\ n + 1 = Len(ws)
      BY <1>0, <1>12
    <3>2. off2[0] = off[0 + 1] /\ off2[n] = off[n + 1]
      BY <2>2, <3>1
    <3> HIDE DEF off2
    <3> QED
      BY <1>6, <1>7, <1>10, <2>1, <3>1, <3>2
  <2> HIDE DEF off2
  <2>5. Laid(ws2, Len(ws2), off2, w, r + Len(bf2), z)
    BY <2>1, <2>2, <2>3, <2>4 DEF Laid
  <2> QED
    BY <1>9, <1>10, <2>5
<1>14. CASE rest # <<>>
  <2>1. PICK one : one \in Seq(Seq(Units)) /\ Len(one) = 1 /\ one[1] = rest /\ one = <<rest>>
    BY <1>3, OfOne, Zenon
  <2>2. ws2 = one \o tl
    BY <1>4, <1>11, <1>14, <2>1
  <2>3. /\ ws2 \in Seq(Seq(Units)) /\ Len(ws2) = Len(one) + Len(tl)
        /\ \A i \in 1..Len(one) : ws2[i] = one[i]
        /\ \A i \in (Len(one) + 1)..(Len(one) + Len(tl)) : ws2[i] = tl[i - Len(one)]
    BY <1>11, <2>1, <2>2, Joined
  <2>4. Len(ws2) = Len(ws) /\ ws2[1] = rest
    BY <1>0, <1>11, <2>1, <2>3
  <2>5. ASSUME NEW i \in 2..Len(ws) PROVE ws2[i] = ws[i]
    <3>1. i \in (1 + 1)..(1 + Len(tl)) /\ i - 1 \in 1..(Len(ws) - 1) /\ (i - 1) + 1 = i
      BY <1>0, <1>11
    <3>2. ws2[i] = tl[i - 1] /\ tl[i - 1] = ws[(i - 1) + 1]
      BY <1>11, <2>1, <2>3, <3>1
    <3> QED
      BY <3>1, <3>2
  <2> DEFINE off2 == [i \in Nat |-> IF i = 0 THEN o + k ELSE off[i]]
  <2>6. off2[0] = o + k /\ \A i \in 1..Len(ws) : off2[i] = off[i]
    <3>1. \A i \in 1..Len(ws) : i \in Nat /\ i # 0
      BY <1>0
    <3> QED
      BY <3>1
  <2> HIDE DEF off2
  <2>7. \A i \in 0..Len(ws) : off2[i] \in Nat /\ off2[i] <= z
    <3>1. \A i \in 0..Len(ws) : i = 0 \/ i \in 1..Len(ws)
      BY <1>0
    <3> QED
      BY <1>6, <1>10, <2>6, <3>1
  <2>8. ASSUME NEW i \in 1..Len(ws)
        PROVE  off2[i] = off2[i - 1] + Len(ws2[i]) /\ Lies(ws2[i], w, off2[i - 1])
    <3>1. CASE i = 1
      <4>1. 1 - 1 = 0 /\ o + Len(hd) = (o + k) + Len(rest) /\ off2[1] = off[1]
        <5>1. PICK v \in Nat : v = Len(hd)
          BY <1>1
        <5>2. Len(rest) = v - k /\ k \in 0..v
          BY <1>1, <1>3, <5>1
        <5>3. o + v = (o + k) + (v - k) /\ 1 - 1 = 0
          BY <5>2
        <5>4. off2[1] = off[1]
          BY <2>6, <3>1
        <5> QED
          BY <5>1, <5>2, <5>3, <5>4
      <4> QED
        BY <1>7, <1>8, <2>4, <2>6, <3>1, <4>1
    <3>2. CASE i # 1
      <4>1. i \in 2..Len(ws) /\ i - 1 \in 1..Len(ws)
        BY <1>0, <3>2
      <4> QED
        BY <1>6, <2>5, <2>6, <4>1
    <3> QED
      BY <3>1, <3>2
  <2>9. off2[Len(ws)] = z /\ off2[0] = r + Len(bf2)
    <3>1. Len(ws) \in 1..Len(ws)
      BY <1>0
    <3> QED
      BY <1>6, <1>10, <2>6, <3>1
  <2>10. Laid(ws2, Len(ws2), off2, w, r + Len(bf2), z)
    BY <2>4, <2>7, <2>8, <2>9 DEF Laid
  <2> QED
    BY <1>9, <1>10, <2>10
<1> QED
    BY <1>13, <1>14

\* poll_write takes the next units of the log.
LEMMA WriteCarries ==
    ASSUME StreamAssumption, StreamInv, Tidy, Carried, Stream!Write
    PROVE  Carried' /\ Len(buf') <= PipeLimit
<1> DEFINE k == Stream!Taken(Head(writes))
<1>1. /\ writes # <<>> /\ Len(buf) < PipeLimit /\ ~ended
      /\ buf' = buf \o SubSeq(Head(writes), 1, k)
      /\ writes' = LET rest == SubSeq(Head(writes), k + 1, Len(Head(writes)))
                   IN IF rest = <<>> THEN Tail(writes) ELSE <<rest>> \o Tail(writes)
      /\ UNCHANGED <<ended, canceled, pack, sent, bw, chunk, sender>>
      /\ UNCHANGED Stream!readerVars
    BY DEF Stream!Write, Stream!PollWrite, Stream!WriteBlocks, StreamAssumption, StreamInv, StreamTypes
<1>2. /\ writes \in Seq(Seq(Units)) /\ buf \in Seq(Units)
      /\ Head(writes) \in Seq(Units) /\ frame \in Seq(Units)
    BY <1>1 DEF StreamInv, StreamTypes
<1>3. k \in 0..Len(Head(writes)) /\ k <= PipeLimit - Len(buf)
    BY <1>1, <1>2 DEF Stream!Taken, Stream!Smaller, StreamAssumption
<1> HIDE DEF k
<1>4. Len(buf') <= PipeLimit
  <2>1. Len(SubSeq(Head(writes), 1, k)) = k /\ SubSeq(Head(writes), 1, k) \in Seq(Units)
    BY <1>2, <1>3, Pieces
  <2>2. Len(buf') = Len(buf) + k
    BY <1>1, <1>2, <2>1, Joined
  <2>3. Len(buf) \in Nat /\ PipeLimit \in Nat /\ k \in Nat
    BY <1>2, <1>3 DEF StreamAssumption
  <2> QED
    BY <1>3, <2>2, <2>3
<1>5. Passes(Units, Closing, buf, writes, k, buf', writes')
  <2>1. (\A i \in DOMAIN buf : buf[i] \notin Closing) /\ LastIn(Closing, writes)
    BY <1>1 DEF StreamInv, ClosesLast, LastIn
  <2> QED
    BY <1>1, <1>2, <1>3, <2>1 DEF Passes
<1>6. Carried'
  <2> SUFFICES ASSUME Stream!Parsing'
               PROVE  (\E st, e, w, m, a, z, h, b, off : Carriage(st, e, w, m, a, z, h, b, off))'
    BY DEF Carried
  <2>1. Stream!Parsing
    BY <1>1 DEF Stream!Parsing, Stream!readerVars
  <2>2. PICK st, e, w, m, a, z, h, b, off : Carriage(st, e, w, m, a, z, h, b, off)
    BY <2>1 DEF Carried
  <2>3. b \in Nat /\ z \in Nat
    BY <2>2 DEF Carriage, Reading, Log
  <2>4. PICK r : r = b + Len(frame) /\ r \in Nat
    BY <1>2, <2>3
  <2>5. Queued(buf, writes, off, w, r, z)
    BY <1>1, <2>2, <2>3, <2>4 DEF Carriage, Reading, Queued
  <2>6. PICK off2 : /\ Lies(buf', w, r) /\ r + Len(buf') <= z
                    /\ Laid(writes', Len(writes'), off2, w, r + Len(buf'), z)
    <3>1. /\ Lies(buf', w, r) /\ r + Len(buf') <= z
          /\ \E off2 : Laid(writes', Len(writes'), off2, w, r + Len(buf'), z)
      BY <1>5, <2>5, WriteLaid
    <3> QED
      BY <3>1
  <2>7. Reading(st, e, w, m, a, z, b)'
    BY <1>1, <2>2, <2>4, <2>6 DEF Carriage, Reading, At, Stream!readerVars
  <2>8. Sending(st, e, m, a, z, h)' /\ Layout(st, e)'
    BY <1>1, <2>2 DEF Carriage, Sending, Out, Layout, LayoutTo
  <2>9. Laid(writes, Len(writes), off2, w, b + Len(frame) + Len(buf), z)'
    BY <1>1, <2>4, <2>6 DEF Stream!readerVars
  <2>10. Carriage(st, e, w, m, a, z, h, b, off2)'
    BY <2>2, <2>7, <2>8, <2>9 DEF Carriage
  <2> QED
    BY <2>10
<1> QED
    BY <1>4, <1>6

\* read_full stops at the end of the frame.
LEMMA FrameIsFull ==
    ASSUME NEW s \in Seq(Units), Stream!Missing(s) > 0,
           NEW t \in Seq(Units), Len(t) <= Stream!Missing(s), ~(Stream!Missing(s \o t) > 0)
    PROVE  (s \o t)[2].n \in Nat /\ Len(s \o t) = 2 + (s \o t)[2].n
<1>1. PICK f : f = s \o t
    OBVIOUS
<1>2. /\ f \in Seq(Units) /\ Len(f) = Len(s) + Len(t) /\ \A i \in 1..Len(s) : f[i] = s[i]
    BY <1>1, Joined
<1>3. PICK u \in Nat, v \in Nat : u = Len(s) /\ v = Len(t)
    OBVIOUS
<1>4. Len(f) = u + v /\ ~(u + v < 2)
    BY <1>1, <1>2, <1>3 DEF Stream!Missing
<1>5. f[2].n \in Nat
  <2>1. f[2] \in Units
    BY <1>2, <1>3, <1>4
  <2> QED
    BY <2>1 DEF Units, Closing, Plain
<1>6. PICK n \in Nat : n = f[2].n
    BY <1>5
<1>7. ~(2 + n - (u + v) > 0)
    BY <1>1, <1>4, <1>6 DEF Stream!Missing
<1>8. u + v = 2 + n
  <2>1. CASE u < 2
    <3>1. v <= 2 - u
      BY <1>3, <2>1 DEF Stream!Missing
    <3> QED
      BY <1>4, <1>7, <2>1, <3>1
  <2>2. CASE ~(u < 2)
    <3>1. 2 \in 1..Len(s)
      BY <1>3, <2>2
    <3>2. s[2].n = n
      BY <1>2, <1>6, <3>1
    <3>3. v <= 2 + n - u
      BY <1>3, <2>2, <3>2 DEF Stream!Missing
    <3> QED
      BY <1>7, <3>3
  <2> QED
    BY <2>1, <2>2
<1> QED
    BY <1>1, <1>4, <1>5, <1>6, <1>8

\* What is read of a frame is the next of the log, and a whole frame has the
\* next of the pack.
LEMMA ReadFrameCarries ==
    ASSUME StreamAssumption, StreamInv, Tidy, Carried, Stream!ReadFrame
    PROVE  Carried' /\ cur' \in Seq(Units) /\ Len(buf') <= PipeLimit
<1> DEFINE k == Stream!ReadTakes(Stream!Missing(frame))
           t == SubSeq(buf, 1, k)
           f == frame \o t
<1>1. /\ cur = <<>> /\ buf' = SubSeq(buf, k + 1, Len(buf))
      /\ UNCHANGED <<ended, pack, state, need, got, reader>> /\ UNCHANGED Stream!senderVars
    BY DEF Stream!ReadFrame, Stream!Filling, Stream!PollRead
<1>2. \/ Stream!Missing(f) > 0 /\ frame' = f /\ cur' = cur
      \/ ~(Stream!Missing(f) > 0) /\ frame' = <<>> /\ cur' = SubSeq(f, 3, Len(f))
    BY DEF Stream!ReadFrame
<1>3. /\ frame \in Seq(Units) /\ buf \in Seq(Units) /\ Len(frame) \in Nat /\ Len(buf) \in Nat
      /\ Stream!Missing(frame) > 0 /\ PipeLimit \in Nat /\ cur \in Seq(Units) /\ Len(buf) <= PipeLimit
    BY DEF StreamInv, StreamTypes, FrameOpen, StreamAssumption, Tidy
<1>4. Stream!Missing(frame) \in Int
  <2>1. CASE Len(frame) < 2
    BY <1>3, <2>1 DEF Stream!Missing
  <2>2. CASE ~(Len(frame) < 2)
    <3>1. frame[2] \in Units
      BY <1>3, <2>2
    <3>2. frame[2].n \in Nat
      BY <3>1 DEF Units, Closing, Plain
    <3> QED
      BY <1>3, <2>2, <3>2 DEF Stream!Missing
  <2> QED
    BY <2>1, <2>2
<1>5. k \in 0..Len(buf) /\ k <= Stream!Missing(frame)
    BY <1>3, <1>4 DEF Stream!ReadTakes, Stream!Smaller
<1> HIDE DEF k
<1>6. /\ t \in Seq(Units) /\ Len(t) = k
      /\ buf' \in Seq(Units) /\ Len(buf') = Len(buf) - k
    BY <1>1, <1>3, <1>5, Pieces
<1>7. f \in Seq(Units) /\ Len(f) = Len(frame) + k
  <2> HIDE DEF t
  <2> QED
    BY <1>3, <1>6, Joined
<1>8. ~(Stream!Missing(f) > 0) => f[2].n \in Nat /\ Len(f) = 2 + f[2].n
  <2> HIDE DEF t
  <2> QED
    BY <1>3, <1>5, <1>6, FrameIsFull
<1>9. ASSUME NEW w, NEW b \in Nat, Lies(frame, w, b), Lies(buf, w, b + Len(frame))
      PROVE  Lies(f, w, b) /\ Lies(buf', w, b + Len(f))
  <2>1. PICK o : o = b + Len(frame) /\ o \in Nat
    BY <1>3
  <2>2. Lies(t, w, o) /\ Lies(buf', w, o + k)
    BY <1>1, <1>3, <1>5, <1>9, <2>1, LiesParted
  <2> HIDE DEF t
  <2>3. Lies(f, w, b)
    BY <1>3, <1>6, <1>9, <2>1, <2>2, LiesJoined
  <2>4. PICK u \in Nat : u = Len(frame)
    BY <1>3
  <2>5. o + k = b + (u + k) /\ Len(f) = u + k
    BY <1>5, <1>7, <2>1, <2>4
  <2> QED
    BY <2>2, <2>3, <2>5
<1> HIDE DEF f
<1>10. ASSUME ~(Stream!Missing(f) > 0)
       PROVE  /\ SubSeq(f, 3, Len(f)) \in Seq(Units) /\ Len(SubSeq(f, 3, Len(f))) = f[2].n
              /\ \A j \in 1..f[2].n : SubSeq(f, 3, Len(f))[j] = f[2 + j]
  <2>1. 2 \in 0..Len(f) /\ 2 + 1 = 3
    BY <1>8, <1>10
  <2>2. /\ SubSeq(f, 2 + 1, Len(f)) \in Seq(Units) /\ Len(SubSeq(f, 2 + 1, Len(f))) = Len(f) - 2
        /\ \A i \in 1..(Len(f) - 2) : SubSeq(f, 2 + 1, Len(f))[i] = f[2 + i]
    BY <1>7, <2>1, Pieces
  <2>3. Len(f) - 2 = f[2].n
    BY <1>8, <1>10
  <2> QED
    BY <2>1, <2>2, <2>3
<1>11. cur' \in Seq(Units)
    BY <1>2, <1>3, <1>10
<1>12. Len(buf') <= PipeLimit
  <2>1. Len(buf) - k <= PipeLimit
    BY <1>3, <1>5
  <2> QED
    BY <1>6, <2>1
<1>13. Carried'
  <2> SUFFICES ASSUME Stream!Parsing'
               PROVE  (\E st, e, w, m, a, z, h, b, off : Carriage(st, e, w, m, a, z, h, b, off))'
    BY DEF Carried
  <2>1. Stream!Parsing
    BY <1>1 DEF Stream!Parsing
  <2>2. PICK st, e, w, m, a, z, h, b, off : Carriage(st, e, w, m, a, z, h, b, off)
    BY <2>1 DEF Carried
  <2>3. /\ b \in Nat /\ z \in Nat /\ m[b] = 0 /\ Lies(frame, w, b) /\ Lies(buf, w, b + Len(frame))
        /\ b + Len(frame) + Len(buf) <= z
        /\ At(st) \in Nat /\ At(st) + Len(cur) = a[b] /\ Lies(cur, e, At(st))
    BY <2>2 DEF Carriage, Reading, Log
  <2>4. Lies(f, w, b) /\ Lies(buf', w, b + Len(f)) /\ At(st) = a[b] /\ At(st)' = a[b] /\ a[b] \in Nat
    <3>1. Lies(f, w, b) /\ Lies(buf', w, b + Len(f))
      BY <1>9, <2>3
    <3>2. At(st) = a[b]
      BY <1>1, <2>3
    <3>3. At(st)' = At(st)
      BY <1>1 DEF At
    <3> QED
      BY <2>3, <3>1, <3>2, <3>3
  <2>5. b + Len(f) + Len(buf') = b + Len(frame) + Len(buf)
    BY <1>3, <1>5, <1>6, <1>7, <2>3
  <2>6. Sending(st, e, m, a, z, h)' /\ Layout(st, e)'
    BY <1>1, <2>2 DEF Carriage, Sending, Out, Layout, LayoutTo, Stream!senderVars
  <2>7. ~ended' => Laid(writes', Len(writes'), off, w, b + Len(f) + Len(buf'), z)
    BY <1>1, <2>2, <2>5 DEF Carriage, Stream!senderVars
  <2>8. CASE Stream!Missing(f) > 0 /\ frame' = f /\ cur' = cur
    <3>1. Reading(st, e, w, m, a, z, b)'
      BY <2>3, <2>4, <2>5, <2>8 DEF Reading
    <3>2. Carriage(st, e, w, m, a, z, h, b, off)'
      BY <2>2, <2>6, <2>7, <2>8, <3>1 DEF Carriage
    <3> QED
      BY <3>2
  <2>9. CASE ~(Stream!Missing(f) > 0) /\ frame' = <<>> /\ cur' = SubSeq(f, 3, Len(f))
    <3>1. PICK n : n = f[2].n /\ n \in Nat
      BY <1>8, <2>9
    <3>2. Len(f) = 2 + n /\ Len(cur') = n /\ \A j \in 1..n : cur'[j] = f[2 + j]
      BY <1>8, <1>10, <2>9, <3>1
    <3>3. \A i \in 1..(2 + n) : f[i] = w[b + i]
      BY <2>4, <3>2 DEF Lies
    <3>4. n = w[b + 2].n
      BY <3>1, <3>3
    <3>5. PICK b2 : b2 = b + 2 + n /\ b2 \in Nat /\ b2 = b + Len(f) /\ b2 <= z
      <4>1. PICK u \in Nat, v \in Nat : u = Len(frame) /\ v = Len(buf)
        BY <1>3
      <4>2. b + u + v <= z /\ k \in 0..v /\ u + k = 2 + n
        BY <1>5, <1>7, <2>3, <3>2, <4>1
      <4>3. b \in Nat /\ z \in Nat /\ n \in Nat
        BY <2>3, <3>1
      <4>4. b + 2 + n <= z /\ b + 2 + n \in Nat /\ b + 2 + n = b + (2 + n)
        BY <4>2, <4>3
      <4> QED
        BY <3>2, <4>4
    <3>6. /\ m[b + 2 + n] = 0 /\ a[b + 2 + n] = a[b] + n
          /\ \A j \in 1..n : w[b + 2 + j] = e[a[b] + j]
      <4>1. Log(w, m, a, z, e, h) /\ b \in Nat /\ m[b] = 0 /\ n \in Nat /\ b + 2 + n <= z
        BY <2>2, <2>3, <3>1, <3>5 DEF Carriage
      <4> QED
        BY <3>4, <4>1, FrameRead
    <3>7. Lies(cur', e, a[b])
      <4>1. ASSUME NEW j \in 1..n PROVE cur'[j] = e[a[b] + j]
        <5>1. 2 + j \in 1..(2 + n) /\ b + (2 + j) = b + 2 + j
          <6>1. PICK c \in Nat, d \in Nat : c = b /\ d = n
            BY <2>3, <3>1
          <6>2. j \in 1..d
            BY <6>1
          <6>3. 2 + j \in 1..(2 + d) /\ c + (2 + j) = c + 2 + j
            BY <6>2
          <6> QED
            BY <6>1, <6>3
        <5>2. f[2 + j] = w[b + (2 + j)]
          BY <3>3, <5>1
        <5> QED
          BY <3>2, <3>6, <5>1, <5>2
      <4> QED
        BY <3>2, <4>1 DEF Lies
    <3>8. Len(<<>>) = 0 /\ b2 + 0 = b2 /\ Lies(<<>>, w, b2)
      BY <3>5 DEF Lies
    <3>9. b2 + 0 + Len(buf') = b + Len(f) + Len(buf') /\ b + Len(f) + Len(buf') <= z
      BY <2>3, <2>5, <3>5, <3>8
    <3>10. Reading(st, e, w, m, a, z, b2)'
      BY <2>4, <2>9, <3>2, <3>5, <3>6, <3>7, <3>8, <3>9 DEF Reading
    <3>11. (~ended => Laid(writes, Len(writes), off, w, b2 + Len(frame) + Len(buf), z))'
      BY <2>7, <2>9, <3>8, <3>9
    <3>12. Carriage(st, e, w, m, a, z, h, b2, off)'
      BY <2>2, <2>6, <3>10, <3>11 DEF Carriage
    <3> QED
      BY <3>12
  <2> QED
    BY <1>2, <2>8, <2>9
<1> QED
    BY <1>11, <1>12, <1>13

\* The unit that is parsed is the next of the pack.
LEMMA NextUnit ==
    ASSUME StreamInv, Tidy, cur # <<>>,
           NEW st, NEW e, NEW w, NEW m, NEW a, NEW z, NEW h, NEW b, NEW off,
           Carriage(st, e, w, m, a, z, h, b, off)
    PROVE  /\ At(st) \in Nat /\ h \in Nat /\ At(st) + 1 <= h
           /\ Head(cur) = e[At(st) + 1] /\ Head(cur) \in Units
           /\ Tail(cur) \in Seq(Units) /\ Lies(Tail(cur), e, At(st) + 1)
           /\ (At(st) + 1) + Len(Tail(cur)) = a[b]
<1>1. PICK p : p = At(st) /\ p \in Nat
    BY DEF Carriage, Reading
<1>2. /\ cur \in Seq(Units) /\ Len(cur) \in Nat \ {0}
    BY DEF Tidy
<1>3. p + Len(cur) = a[b] /\ Lies(cur, e, p)
    BY <1>1 DEF Carriage, Reading
<1>4. h \in Nat /\ a[b] <= h
  <2>1. /\ b \in Nat /\ z \in Nat /\ b + Len(frame) + Len(buf) <= z
        /\ Len(frame) \in Nat /\ Len(buf) \in Nat
    BY DEF Carriage, Reading, Log, StreamInv, StreamTypes
  <2>2. b \in 0..z
    BY <2>1
  <2>3. h \in Nat /\ a[b] \in 0..h
    BY <2>2 DEF Carriage, Log
  <2> QED
    BY <2>3
<1>5. /\ Tail(cur) \in Seq(Units) /\ Len(Tail(cur)) = Len(cur) - 1
      /\ \A i \in 1..(Len(cur) - 1) : Tail(cur)[i] = cur[i + 1]
    BY <1>2, Tails
<1>6. Head(cur) = cur[1] /\ cur[1] \in Units
    BY <1>2
<1>7. PICK n \in Nat : n = Len(cur) /\ n # 0
    BY <1>2
<1>8. p + 1 <= h /\ (p + 1) + (n - 1) = a[b]
  <2>1. p + n = a[b] /\ p + n <= h
    BY <1>3, <1>4, <1>7
  <2> QED
    BY <1>1, <1>4, <1>7, <2>1
<1>9. cur[1] = e[p + 1]
    BY <1>3, <1>7 DEF Lies
<1>10. Lies(Tail(cur), e, p + 1)
  <2>1. ASSUME NEW i \in 1..(n - 1) PROVE Tail(cur)[i] = e[(p + 1) + i]
    <3>1. i + 1 \in 1..n /\ p + (i + 1) = (p + 1) + i
      BY <1>1, <1>7
    <3>2. cur[i + 1] = e[p + (i + 1)]
      BY <1>3, <1>7, <3>1 DEF Lies
    <3> QED
      BY <1>5, <1>7, <3>1, <3>2
  <2> QED
    BY <1>5, <1>7, <2>1 DEF Lies
<1> QED
    BY <1>1, <1>4, <1>5, <1>6, <1>7, <1>8, <1>9, <1>10

\* Once it is parsed the reader is one unit further.
LEMMA ParsedOne ==
    ASSUME StreamInv, Tidy, cur # <<>>,
           NEW st, NEW e, NEW w, NEW m, NEW a, NEW z, NEW h, NEW b, NEW off,
           Carriage(st, e, w, m, a, z, h, b, off), cur' = Tail(cur), At(st)' = At(st) + 1,
           UNCHANGED <<Stream!pipeVars, pack, Stream!senderVars, frame>>
    PROVE  Carriage(st, e, w, m, a, z, h, b, off)'
<1>1. /\ At(st) \in Nat /\ At(st) + 1 \in Nat /\ Lies(Tail(cur), e, At(st) + 1)
      /\ (At(st) + 1) + Len(Tail(cur)) = a[b]
    BY NextUnit
<1>2. UNCHANGED <<buf, ended, pack, sent, bw, chunk, writes, sender, frame>>
    BY DEF Stream!pipeVars, Stream!senderVars
<1>3. Reading(st, e, w, m, a, z, b)'
    BY <1>1, <1>2 DEF Carriage, Reading
<1>4. Layout(st, e)' /\ Sending(st, e, m, a, z, h)'
    BY <1>2 DEF Carriage, Layout, LayoutTo, Sending, Out
<1>5. (~ended => Laid(writes, Len(writes), off, w, b + Len(frame) + Len(buf), z))'
    BY <1>2 DEF Carriage
<1> QED
    BY <1>3, <1>4, <1>5 DEF Carriage

\* Sequences of the same length and elements.
LEMMA SameSeq ==
    ASSUME NEW S, NEW T, NEW s \in Seq(S), NEW t \in Seq(T), Len(s) = Len(t),
           \A i \in 1..Len(s) : s[i] = t[i]
    PROVE  s = t
    OBVIOUS

\* A sequence with one more element, and with another one.
LEMMA Appended ==
    ASSUME NEW T, NEW s \in Seq(T), NEW x \in T
    PROVE  /\ Append(s, x) \in Seq(T) /\ Len(Append(s, x)) = Len(s) + 1
           /\ Append(s, x)[Len(s) + 1] = x /\ \A i \in 1..Len(s) : Append(s, x)[i] = s[i]
    OBVIOUS

LEMMA Replaced ==
    ASSUME NEW T, NEW s \in Seq(T), NEW x \in T, NEW k \in 1..Len(s)
    PROVE  /\ [s EXCEPT ![k] = x] \in Seq(T) /\ Len([s EXCEPT ![k] = x]) = Len(s)
           /\ [s EXCEPT ![k] = x][k] = x
           /\ \A i \in 1..Len(s) : i # k => [s EXCEPT ![k] = x][i] = s[i]
    OBVIOUS

\* What was returned stays what was sent.
LEMMA WholeStays ==
    ASSUME StreamTypes, Tidy, Whole, UNCHANGED <<got, need, pack>>, sent' \in Nat, sent <= sent',
           \/ state' = state
           \/ state' = "error"
           \/ state' = "records" /\ need = 0
           \/ state' = "end" /\ need = 0 /\ Len(got) = Len(pack)
    PROVE  Whole'
<1>1. Len(got') <= sent'
  <2>1. Len(got) \in Nat /\ sent \in Nat /\ Len(got) <= sent /\ Len(got') = Len(got)
    BY DEF Whole, Tidy, StreamTypes
  <2> QED
    BY <2>1
<1>2. ASSUME NEW i PROVE Stream!Record(i)' = Stream!Record(i)
    BY DEF Stream!Record
<1>3. Stream!Received' = Stream!Received
    BY DEF Stream!Received
<1>4. \A i \in 1..Stream!Received' : got'[i] = Stream!Record(i)'
    BY <1>2, <1>3 DEF Whole
<1>5. ASSUME NEW k, Part(k) PROVE Part(k)'
    BY <1>2, <1>5 DEF Part
<1>6. need' > 0 => Len(got') > 0 /\ Part(Len(got))'
    BY <1>5 DEF Whole
<1> QED
    BY <1>1, <1>4, <1>6 DEF Whole

Parses ==
    /\ StreamInv /\ Tidy /\ Carried /\ Whole /\ Stream!ParseUnit

\* The magic.
LEMMA ParseMagic ==
    ASSUME Parses, state = "magic"
    PROVE  /\ Carried' /\ Whole'
           /\ got' \in Seq(Seq(Units)) /\ need' \in Nat /\ state' \in {"records", "error"}
<1>1. /\ Stream!Parsing /\ cur # <<>> /\ cur' = Tail(cur) /\ need' = need /\ got' = got
      /\ state' = IF Head(cur) = Stream!Magic THEN "records" ELSE "error"
      /\ UNCHANGED <<Stream!pipeVars, pack, Stream!senderVars, frame>>
    BY DEF Parses, Stream!ParseUnit
<1>2. PICK st, e, w, m, a, z, h, b, off : Carriage(st, e, w, m, a, z, h, b, off)
    BY <1>1 DEF Parses, Carried
<1>3. got = <<>> /\ need = 0 /\ At(st) = 0
    BY DEF Parses, Whole, At
<1>4. Head(cur) = e[0 + 1]
    BY <1>1, <1>2, <1>3, NextUnit DEF Parses
<1>5. e[1] = Stream!Magic /\ st[1] = 2
    BY <1>2 DEF Carriage, Layout, LayoutTo
<1>6. state' = "records"
    BY <1>1, <1>4, <1>5
<1>7. At(st)' = At(st) + 1
  <2>1. Len(got') = 0 /\ 0 + 1 = 1 /\ 2 - 1 = 1
    BY <1>1, <1>3
  <2>2. At(st)' = st[Len(got') + 1] - 1
    BY <1>6 DEF At
  <2> QED
    BY <1>3, <1>5, <2>1, <2>2
<1>8. Carriage(st, e, w, m, a, z, h, b, off)'
    BY <1>1, <1>2, <1>7, ParsedOne DEF Parses
<1>9. Carried'
    BY <1>8 DEF Carried
<1>10. Whole'
    BY <1>1, <1>3, <1>6 DEF Parses, Whole, Stream!Received, Stream!senderVars
<1> QED
    BY <1>1, <1>6, <1>9, <1>10 DEF Parses, Tidy

\* The end marker, after the last record.
LEMMA ParseEnd ==
    ASSUME Parses, state = "records", Len(got) = Len(pack)
    PROVE  Carried' /\ Whole' /\ got' \in Seq(Seq(Units)) /\ need' \in Nat /\ state' = "end"
<1>0. Stream!EndTag.kind # "rec"
    BY DEF Stream!EndTag, Stream!Unit
<1>1. /\ Stream!Parsing /\ cur # <<>>
      /\ UNCHANGED <<Stream!pipeVars, pack, Stream!senderVars, frame>>
      /\ Head(cur) = Stream!EndTag => state' = "end" /\ need' = need /\ got' = got
    BY <1>0 DEF Parses, Stream!ParseUnit
<1>2. PICK st, e, w, m, a, z, h, b, off : Carriage(st, e, w, m, a, z, h, b, off)
    BY <1>1 DEF Parses, Carried
<1>3. need = 0 /\ At(st) = st[Len(pack) + 1] - 1
    BY DEF Parses, Whole, At
<1>4. st[Len(pack) + 1] \in Nat /\ e[st[Len(pack) + 1]] = Stream!EndTag
  <2>1. pack \in Seq(Nat) /\ Len(pack) \in Nat
    BY DEF Parses, StreamInv, StreamTypes
  <2>2. Len(pack) + 1 \in 1..(Len(pack) + 1)
    BY <2>1
  <2> QED
    BY <1>2, <2>1, <2>2, StartsAre DEF Carriage, Layout
<1>5. Head(cur) = e[At(st) + 1]
    BY <1>1, <1>2, NextUnit DEF Parses
<1>6. At(st) + 1 = st[Len(pack) + 1]
    BY <1>3, <1>4
<1>7. state' = "end" /\ need' = need /\ got' = got
    BY <1>1, <1>4, <1>5, <1>6
<1>8. Carried'
    BY <1>7 DEF Carried, Stream!Parsing
<1>9. Whole'
  <2>1. pack' = pack /\ sent' = sent /\ sent \in Nat /\ sent <= sent
    BY <1>1 DEF Parses, StreamInv, StreamTypes, Stream!senderVars
  <2> QED
    BY <1>3, <1>7, <2>1, WholeStays DEF Parses, StreamInv
<1> QED
    BY <1>7, <1>8, <1>9 DEF Parses, Tidy

\* A part that has all its units is the record.
LEMMA PartIsRecord ==
    ASSUME pack \in Seq(Nat), NEW k \in 1..Len(pack), NEW s \in Seq(Units), Len(s) = 1 + pack[k],
           \A j \in 1..Len(s) : s[j] = Stream!Record(k)[j]
    PROVE  s = Stream!Record(k)
<1>1. Stream!Record(k) \in Seq(Plain) /\ Len(Stream!Record(k)) = 1 + pack[k]
    BY RecordIs
<1> DEFINE R == Stream!Record(k)
<1> HIDE DEF R
<1>2. R \in Seq(Plain) /\ Len(R) = Len(s) /\ \A j \in 1..Len(s) : s[j] = R[j]
    BY <1>1 DEF R
<1>3. s = R
    BY <1>2, SameSeq
<1> QED
    BY <1>3 DEF R

\* The header of the next record, which was added before.
LEMMA ParseRecord ==
    ASSUME Parses, state = "records", Len(got) # Len(pack)
    PROVE  /\ Carried' /\ Whole'
           /\ got' \in Seq(Seq(Units)) /\ need' \in Nat /\ state' \in {"records", "payload"}
<1>1. /\ Stream!Parsing /\ cur # <<>> /\ cur' = Tail(cur) /\ reader' = reader
      /\ UNCHANGED <<Stream!pipeVars, pack, Stream!senderVars, frame>>
    BY DEF Parses, Stream!ParseUnit
<1>2. PICK st, e, w, m, a, z, h, b, off : Carriage(st, e, w, m, a, z, h, b, off)
    BY <1>1 DEF Parses, Carried
<1>3. /\ pack \in Seq(Nat) /\ Len(pack) \in Nat /\ sent \in 0..Len(pack) /\ got \in Seq(Seq(Units))
      /\ need = 0 /\ Len(got) <= sent /\ pack' = pack /\ sent' = sent
      /\ \A i \in 1..Len(got) : got[i] = Stream!Record(i)
    BY <1>1 DEF Parses, StreamInv, StreamTypes, Tidy, Whole, Stream!senderVars, Stream!Received
<1>4. PICK g : g = Len(got) /\ g \in Nat
    BY <1>3
<1>5. g + 1 \in 1..Len(pack) /\ (g + 1) + 1 = g + 2
    BY <1>3, <1>4
<1>6. PICK n : n = pack[g + 1] /\ n \in Nat
    BY <1>3, <1>5
<1>7. PICK s : s = st[g + 1] /\ s \in Nat /\ s - 1 \in Nat /\ st[g + 2] = s + 1 + n
  <2>1. Layout(st, e)
    BY <1>2 DEF Carriage
  <2>2. /\ st[g + 1] - 1 \in Nat /\ st[(g + 1) + 1] = st[g + 1] + 1 + pack[g + 1] /\ st[g + 1] \in Nat
    BY <1>3, <1>5, <2>1, RecordLies
  <2> QED
    BY <1>5, <1>6, <2>2
<1>8. At(st) = s - 1 /\ At(st) + 1 = s
    BY <1>4, <1>7 DEF At
<1>9. PICK u : u = Head(cur) /\ u = Stream!Unit("rec", g + 1) /\ u \in Units
  <2>1. Head(cur) = e[At(st) + 1] /\ Head(cur) \in Units
    BY <1>1, <1>2, NextUnit DEF Parses
  <2>2. e[st[g + 1]] = Stream!Unit("rec", g + 1)
    BY <1>2, <1>5 DEF Carriage, Layout, LayoutTo
  <2> QED
    BY <1>7, <1>8, <2>1, <2>2
<1>10. g + 1 <= sent
  <2> SUFFICES ASSUME g = sent PROVE FALSE
    BY <1>3, <1>4
  <2>1. h = Out(st)
    BY <1>2, <1>3, <1>4 DEF Carriage, Sending
  <2>2. At(st) + 1 <= h
    BY <1>1, <1>2, NextUnit DEF Parses
  <2>3. s <= h
    BY <1>8, <2>2
  <2>4. CASE sent = 0
    <3>1. h = 0 /\ s = 2
      <4>1. st[1] = 2
        BY <1>2 DEF Carriage, Layout, LayoutTo
      <4>2. g + 1 = 1
        BY <2>4
      <4> QED
        BY <1>7, <2>1, <2>4, <4>1, <4>2 DEF Out
    <3> QED
      BY <2>3, <3>1
  <2>5. CASE sent # 0
    <3>1. h = s - 1
      BY <1>7, <2>1, <2>5 DEF Out
    <3> QED
      BY <1>7, <2>3, <3>1
  <2> QED
    BY <2>4, <2>5
<1>11. u.kind = "rec" /\ u.n = g + 1 /\ u # Stream!EndTag
    BY <1>9 DEF Stream!Unit, Stream!EndTag
<1>12. /\ need' = n /\ state' = (IF need' = 0 THEN "records" ELSE "payload")
       /\ got' = Append(got, <<u>>)
  <2>1. /\ need' = pack[Head(cur).n] /\ state' = (IF need' = 0 THEN "records" ELSE "payload")
        /\ got' = Append(got, <<Head(cur)>>)
    BY <1>9, <1>11 DEF Parses, Stream!ParseUnit
  <2> QED
    BY <1>6, <1>9, <1>11, <2>1
<1>13. PICK one : one = <<u>> /\ one \in Seq(Units) /\ Len(one) = 1 /\ one[1] = u
    BY <1>9, OfOne, Zenon
<1>14. /\ got' \in Seq(Seq(Units)) /\ Len(got') = g + 1 /\ got'[g + 1] = one
       /\ \A i \in 1..g : got'[i] = got[i]
    BY <1>3, <1>4, <1>12, <1>13, Appended
<1>15. ASSUME NEW i PROVE Stream!Record(i)' = Stream!Record(i)
    BY <1>3 DEF Stream!Record
<1>16. Stream!Record(g + 1)[1] = u
    BY <1>3, <1>5, <1>9, RecordIs
<1>17. \A j \in 1..Len(one) : one[j] = Stream!Record(g + 1)[j]
  <2>1. \A j \in 1..1 : j = 1
    OBVIOUS
  <2> QED
    BY <1>13, <1>16, <2>1
<1>18. \A i \in 1..g : got'[i] = Stream!Record(i)'
    BY <1>3, <1>4, <1>14, <1>15
<1>19. At(st)' = At(st) + 1
  <2>1. CASE n = 0
    <3>1. state' = "records" /\ Len(got') + 1 = g + 2
      BY <1>4, <1>12, <1>14, <2>1
    <3>2. At(st)' = st[g + 2] - 1
      BY <3>1 DEF At
    <3>3. (s + 1 + n) - 1 = s
      BY <1>7, <2>1
    <3> QED
      BY <1>7, <1>8, <3>2, <3>3
  <2>2. CASE n # 0
    <3>1. state' = "payload" /\ Len(got') = g + 1 /\ need' = n /\ pack' = pack
      BY <1>3, <1>12, <1>14, <2>2
    <3>2. At(st)' = st[g + 1] + pack[g + 1] - n
      BY <3>1 DEF At
    <3>3. s + n - n = s
      BY <1>6, <1>7
    <3> QED
      BY <1>6, <1>7, <1>8, <3>2, <3>3
  <2> QED
    BY <2>1, <2>2
<1>20. Carried'
  <2>1. Carriage(st, e, w, m, a, z, h, b, off)'
    BY <1>1, <1>2, <1>19, ParsedOne DEF Parses
  <2> QED
    BY <2>1 DEF Carried
<1>21. CASE n = 0
  <2>1. need' = 0 /\ state' = "records" /\ Stream!Received' = g + 1
    BY <1>12, <1>14, <1>21 DEF Stream!Received
  <2>2. one = Stream!Record(g + 1)
    <3>1. Len(one) = 1 + pack[g + 1]
      BY <1>6, <1>13, <1>21
    <3> QED
      BY <1>3, <1>5, <1>13, <1>17, <3>1, PartIsRecord
  <2>3. ASSUME NEW i \in 1..(g + 1) PROVE got'[i] = Stream!Record(i)'
    <3>1. i \in 1..g \/ i = g + 1
      BY <1>4
    <3> QED
      BY <1>14, <1>15, <1>18, <2>2, <3>1
  <2>4. Whole'
    BY <1>3, <1>10, <1>14, <2>1, <2>3 DEF Whole
  <2> QED
    BY <1>12, <1>14, <1>20, <2>1, <2>4
<1>22. CASE n # 0
  <2>1. need' > 0 /\ state' = "payload" /\ need' = n
    BY <1>6, <1>12, <1>22
  <2>2. Stream!Received' = g
    <3>1. (g + 1) - 1 = g
      BY <1>4
    <3> QED
      BY <1>14, <2>1, <3>1 DEF Stream!Received
  <2>3. Part(g + 1)'
    <3>1. n <= n /\ 1 = 1 + n - n
      BY <1>6
    <3> QED
      BY <1>3, <1>6, <1>13, <1>14, <1>15, <1>17, <2>1, <3>1 DEF Part
  <2>4. Len(got') > 0
    BY <1>4, <1>14
  <2>5. Whole'
    <3>1. Part(Len(got))'
      BY <1>14, <2>3
    <3> QED
      BY <1>3, <1>10, <1>14, <1>18, <2>1, <2>2, <2>4, <3>1 DEF Whole
  <2> QED
    BY <1>6, <1>12, <1>14, <1>20, <2>1, <2>5
<1> QED
    BY <1>21, <1>22

\* A unit of the payload of the record that was begun.
LEMMA ParsePayload ==
    ASSUME Parses, state = "payload"
    PROVE  /\ Carried' /\ Whole'
           /\ got' \in Seq(Seq(Units)) /\ need' \in Nat /\ state' \in {"records", "payload"}
<1>1. /\ Stream!Parsing /\ cur # <<>> /\ cur' = Tail(cur) /\ reader' = reader
      /\ need' = need - 1 /\ state' = (IF need' = 0 THEN "records" ELSE "payload")
      /\ got' = [got EXCEPT ![Len(got)] = Append(@, Head(cur))]
      /\ UNCHANGED <<Stream!pipeVars, pack, Stream!senderVars, frame>>
    BY DEF Parses, Stream!ParseUnit
<1>2. PICK st, e, w, m, a, z, h, b, off : Carriage(st, e, w, m, a, z, h, b, off)
    BY <1>1 DEF Parses, Carried
<1>3. /\ pack \in Seq(Nat) /\ Len(pack) \in Nat /\ sent \in 0..Len(pack) /\ got \in Seq(Seq(Units))
      /\ need \in Nat /\ need > 0 /\ Len(got) > 0 /\ Len(got) <= sent /\ pack' = pack /\ sent' = sent
      /\ Part(Len(got)) /\ Stream!Received = Len(got) - 1
  <2>1. pack \in Seq(Nat) /\ Len(pack) \in Nat /\ sent \in 0..Len(pack)
    BY DEF Parses, StreamInv, StreamTypes
  <2>2. got \in Seq(Seq(Units)) /\ need \in Nat
    BY DEF Parses, Tidy
  <2>3. need > 0 /\ Len(got) > 0 /\ Len(got) <= sent /\ Part(Len(got))
    BY DEF Parses, Whole
  <2>4. pack' = pack /\ sent' = sent
    BY <1>1 DEF Stream!senderVars
  <2>5. Stream!Received = Len(got) - 1
    BY <2>3 DEF Stream!Received
  <2> QED
    BY <2>1, <2>2, <2>3, <2>4, <2>5
<1>4. PICK g : g = Len(got) /\ g \in Nat /\ g > 0
    BY <1>3
<1>5. g \in 1..Len(pack) /\ g \in 1..Len(got)
    BY <1>3, <1>4
<1>6. PICK n : n = pack[g] /\ n \in Nat
    BY <1>3, <1>5
<1>7. PICK s : s = st[g] /\ s \in Nat /\ s - 1 \in Nat /\ st[g + 1] = s + 1 + n
  <2>1. Layout(st, e)
    BY <1>2 DEF Carriage
  <2>2. /\ st[g] - 1 \in Nat /\ st[g + 1] = st[g] + 1 + pack[g] /\ st[g] \in Nat
    BY <1>3, <1>5, <2>1, RecordLies
  <2> QED
    BY <1>6, <2>2
<1>8. PICK q \in Nat : q = need /\ q > 0
    BY <1>3
<1>9. PICK r : r = got[g] /\ r \in Seq(Units)
    BY <1>3, <1>5
<1>10. /\ q <= n /\ Len(r) = 1 + n - q /\ \A j \in 1..Len(r) : r[j] = Stream!Record(g)[j]
    BY <1>3, <1>4, <1>6, <1>8, <1>9 DEF Part
<1>11. At(st) = s + n - q
    BY <1>4, <1>6, <1>7, <1>8 DEF At
<1>12. PICK i \in 1..n : i = 1 + n - q
  <2>1. 1 + n - q \in 1..n
    BY <1>6, <1>8, <1>10
  <2> QED
    BY <2>1
<1>13. At(st) + 1 = s + i /\ Len(r) = i /\ q - 1 \in Nat /\ 1 + n - (q - 1) = i + 1
  <2>1. n \in Nat /\ s \in Nat /\ q \in Nat /\ q > 0 /\ q <= n /\ i = 1 + n - q
    BY <1>6, <1>7, <1>8, <1>10, <1>12
  <2>2. (s + n - q) + 1 = s + i /\ q - 1 \in Nat /\ 1 + n - (q - 1) = i + 1
    BY <2>1
  <2> QED
    BY <1>10, <1>11, <1>12, <2>2
<1>14. PICK u : u = Head(cur) /\ u = Stream!Unit("pay", g) /\ u \in Units
  <2>1. Head(cur) = e[At(st) + 1] /\ Head(cur) \in Units
    BY <1>1, <1>2, NextUnit DEF Parses
  <2>2. e[st[g] + i] = Stream!Unit("pay", g)
    BY <1>2, <1>5, <1>6 DEF Carriage, Layout, LayoutTo
  <2> QED
    BY <1>7, <1>13, <2>1, <2>2
<1>15. PICK r2 : /\ r2 = Append(r, u) /\ r2 \in Seq(Units) /\ Len(r2) = i + 1 /\ r2[i + 1] = u
                 /\ \A j \in 1..i : r2[j] = r[j]
  <2>1. /\ Append(r, u) \in Seq(Units) /\ Len(Append(r, u)) = Len(r) + 1
        /\ Append(r, u)[Len(r) + 1] = u /\ \A j \in 1..Len(r) : Append(r, u)[j] = r[j]
    BY <1>9, <1>14, Appended
  <2> QED
    BY <1>13, <2>1, Zenon
<1>16. Stream!Record(g)[i + 1] = u
  <2>1. Stream!Record(g)[1 + i] = Stream!Unit("pay", g)
    BY <1>3, <1>5, <1>6, RecordIs
  <2>2. 1 + i = i + 1
    OBVIOUS
  <2> QED
    BY <1>14, <2>1, <2>2
<1>17. \A j \in 1..Len(r2) : r2[j] = Stream!Record(g)[j]
  <2>1. \A j \in 1..(i + 1) : j \in 1..i \/ j = i + 1
    OBVIOUS
  <2> QED
    BY <1>10, <1>13, <1>15, <1>16, <2>1
<1>18. /\ got' \in Seq(Seq(Units)) /\ Len(got') = g /\ got'[g] = r2
       /\ \A j \in 1..g : j # g => got'[j] = got[j]
  <2>1. got' = [got EXCEPT ![g] = r2]
    BY <1>1, <1>4, <1>9, <1>14, <1>15
  <2>2. /\ [got EXCEPT ![g] = r2] \in Seq(Seq(Units)) /\ Len([got EXCEPT ![g] = r2]) = Len(got)
        /\ [got EXCEPT ![g] = r2][g] = r2
        /\ \A j \in 1..Len(got) : j # g => [got EXCEPT ![g] = r2][j] = got[j]
    BY <1>3, <1>5, <1>15, Replaced
  <2> QED
    BY <1>4, <2>1, <2>2
<1>19. ASSUME NEW j PROVE Stream!Record(j)' = Stream!Record(j)
    BY <1>3 DEF Stream!Record
<1>20. \A j \in 1..(g - 1) : got'[j] = Stream!Record(j)'
  <2>1. \A j \in 1..(g - 1) : j \in 1..g /\ j # g
    BY <1>4
  <2>2. \A j \in 1..(g - 1) : got[j] = Stream!Record(j)
    BY <1>3, <1>4 DEF Parses, Whole
  <2> QED
    BY <1>18, <1>19, <2>1, <2>2
<1>21. At(st)' = At(st) + 1
  <2>1. CASE q = 1
    <3>1. state' = "records" /\ Len(got') = g
      BY <1>1, <1>8, <1>18, <2>1
    <3>2. At(st)' = st[g + 1] - 1
      BY <3>1 DEF At
    <3>3. (s + 1 + n) - 1 = (s + n - q) + 1
      BY <1>6, <1>7, <2>1
    <3> QED
      BY <1>7, <1>11, <3>2, <3>3
  <2>2. CASE q # 1
    <3>1. state' = "payload" /\ Len(got') = g /\ need' = q - 1 /\ pack' = pack
      BY <1>1, <1>3, <1>8, <1>18, <2>2
    <3>2. At(st)' = st[g] + pack[g] - (q - 1)
      BY <3>1 DEF At
    <3>3. s + n - (q - 1) = (s + n - q) + 1
      BY <1>6, <1>7, <1>8
    <3> QED
      BY <1>6, <1>7, <1>11, <3>2, <3>3
  <2> QED
    BY <2>1, <2>2
<1>22. Carried'
  <2>1. Carriage(st, e, w, m, a, z, h, b, off)'
    BY <1>1, <1>2, <1>21, ParsedOne DEF Parses
  <2> QED
    BY <2>1 DEF Carried
<1>23. CASE q = 1
  <2>1. need' = 0 /\ state' = "records" /\ Stream!Received' = g
    BY <1>1, <1>8, <1>18, <1>23 DEF Stream!Received
  <2>2. r2 = Stream!Record(g)
    <3>1. Len(r2) = 1 + pack[g]
      BY <1>6, <1>12, <1>15, <1>23
    <3> QED
      BY <1>3, <1>5, <1>15, <1>17, <3>1, PartIsRecord
  <2>3. ASSUME NEW j \in 1..g PROVE got'[j] = Stream!Record(j)'
    <3>1. j \in 1..(g - 1) \/ j = g
      BY <1>4
    <3> QED
      BY <1>18, <1>19, <1>20, <2>2, <3>1
  <2>4. Whole'
    BY <1>3, <1>4, <1>18, <2>1, <2>3 DEF Whole
  <2> QED
    BY <1>18, <1>22, <2>1, <2>4
<1>24. CASE q # 1
  <2>1. need' > 0 /\ state' = "payload" /\ need' = q - 1 /\ need' \in Nat
    BY <1>1, <1>8, <1>24
  <2>2. Stream!Received' = g - 1
    BY <1>18, <2>1 DEF Stream!Received
  <2>3. Part(g)'
    <3>1. q - 1 <= n /\ i + 1 = 1 + n - (q - 1)
      BY <1>6, <1>8, <1>10, <1>13
    <3> QED
      BY <1>3, <1>6, <1>15, <1>17, <1>18, <1>19, <2>1, <3>1 DEF Part
  <2>4. Whole'
    <3>1. Part(Len(got))' /\ Len(got') > 0
      BY <1>4, <1>18, <2>3
    <3> QED
      BY <1>3, <1>4, <1>18, <1>20, <2>1, <2>2, <3>1 DEF Whole
  <2> QED
    BY <1>18, <1>22, <2>1, <2>4
<1> QED
    BY <1>23, <1>24

\* A step that leaves what was returned alone.
LEMMA ReturnsNothing ==
    ASSUME StreamInv, Tidy, Whole, UNCHANGED <<got, need, pack, sent>>, state' \in {state, "error"}
    PROVE  Whole'
<1>1. sent' \in Nat /\ sent <= sent'
    BY DEF StreamInv, StreamTypes
<1> QED
    BY <1>1, WholeStays DEF StreamInv

\* add_record, finish and send_err put more in the log.
LEMMA SenderFillsWhole ==
    ASSUME StreamAssumption, PackInv, StreamInv', Stream!AddRecord \/ Stream!Finish \/ Stream!SendErr
    PROVE  Tidy' /\ Carried' /\ Whole'
<1> USE DEF PackInv
<1>1. /\ UNCHANGED <<buf, ended, canceled, asleep, pack, cur, got, need, state, reader>>
      /\ sender' \in {"open", "finishing", "failing"}
    BY DEF Stream!AddRecord, Stream!Finish, Stream!SendErr, Stream!pipeVars, Stream!readerVars
<1>2. Carried' /\ Len(bw') <= BufioSize /\ Len(chunk') < ChunkSize
  <2>1. CASE Stream!AddRecord
    BY <2>1, AddRecordCarries
  <2>2. CASE Stream!Finish
    <3>1. Len(bw') = 0 /\ Len(chunk') = 0 /\ 0 <= BufioSize /\ 0 < ChunkSize
      BY <2>2 DEF Stream!Finish, StreamAssumption
    <3> QED
      BY <2>2, <3>1, FinishCarries
  <2>3. CASE Stream!SendErr
    <3>1. UNCHANGED <<bw, chunk>>
      BY <2>3 DEF Stream!SendErr
    <3> QED
      BY <2>3, <3>1, SendErrCarries DEF Tidy
  <2> QED
    BY <2>1, <2>2, <2>3
<1>3. Tidy'
    BY <1>1, <1>2 DEF Tidy
<1>4. sent' \in Nat /\ sent <= sent'
  <2>1. sent' = sent \/ sent' = sent + 1
    BY Zenon DEF Stream!AddRecord, Stream!Finish, Stream!SendErr
  <2>2. sent \in Nat
    BY DEF StreamInv, StreamTypes
  <2> QED
    BY <2>1, <2>2
<1>5. Whole'
    BY <1>1, <1>4, WholeStays DEF StreamInv
<1> QED
    BY <1>2, <1>3, <1>5

\* A poll of write_all.
LEMMA SenderWritesWhole ==
    ASSUME StreamAssumption, PackInv, Stream!Write
    PROVE  Tidy' /\ Carried' /\ Whole'
<1> USE DEF PackInv
<1>1. /\ UNCHANGED <<canceled, pack, sent, bw, chunk, sender, cur, got, need, state, reader>>
      /\ asleep' = asleep \ {"reader"}
    BY DEF Stream!Write, Stream!PollWrite, Stream!readerVars
<1>2. Carried' /\ Len(buf') <= PipeLimit
    BY WriteCarries
<1>3. Tidy'
    BY <1>1, <1>2 DEF Tidy
<1> QED
    BY <1>1, <1>2, <1>3, ReturnsNothing

\* Somebody falls asleep, the send half ends, or the reader sees that it has.
LEMMA NothingMoves ==
    ASSUME PackInv,
           \/ Stream!WriteSleeps \/ Stream!WriteFails \/ Stream!CloseSend \/ Stream!DropSend
           \/ Stream!ReadSleeps \/ Stream!ReadEof \/ Stream!Finished \/ UNCHANGED Stream!vars
    PROVE  Tidy' /\ Carried' /\ Whole'
<1> USE DEF PackInv
<1>1. /\ UNCHANGED <<buf, canceled, pack, sent, bw, chunk, frame, cur, state, need, got, reader>>
      /\ asleep' \in {asleep, {}, asleep \cup {"writer"}, asleep \cup {"reader"}}
      /\ \/ UNCHANGED <<ended, writes, sender>>
         \/ ended' /\ sender' \in {"closed", "reset"}
  <2> USE DEF Stream!readerVars, Stream!senderVars, Stream!pipeVars, Stream!CloseWrite
  <2>1. CASE Stream!WriteSleeps
    BY <2>1 DEF Stream!WriteSleeps, Stream!PollWritePending
  <2>2. CASE Stream!WriteFails
    BY <2>2 DEF Stream!WriteFails
  <2>3. CASE Stream!CloseSend
    BY <2>3 DEF Stream!CloseSend
  <2>4. CASE Stream!DropSend
    BY <2>4 DEF Stream!DropSend
  <2>5. CASE Stream!ReadSleeps
    BY <2>5 DEF Stream!ReadSleeps, Stream!PollReadPending
  <2>6. CASE Stream!ReadEof
    BY <2>6 DEF Stream!ReadEof
  <2>7. CASE Stream!Finished \/ UNCHANGED Stream!vars
    BY <2>7 DEF Stream!Finished, Stream!vars
  <2> QED
    BY <2>1, <2>2, <2>3, <2>4, <2>5, <2>6, <2>7
<1>2. Carried'
    BY <1>1, StillCarried
<1>3. asleep' \subseteq {"reader", "writer"}
    BY <1>1 DEF Tidy
<1>4. Tidy'
    BY <1>1, <1>3 DEF Tidy
<1> QED
    BY <1>1, <1>2, <1>4, ReturnsNothing

\* A poll of read_full.
LEMMA ReaderReadsWhole ==
    ASSUME StreamAssumption, PackInv, Stream!ReadFrame
    PROVE  Tidy' /\ Carried' /\ Whole'
<1> USE DEF PackInv
<1>1. /\ UNCHANGED <<canceled, pack, sent, bw, chunk, sender, got, need, state, reader>>
      /\ asleep' = asleep \ {"writer"}
    BY DEF Stream!ReadFrame, Stream!PollRead, Stream!senderVars
<1>2. Carried' /\ cur' \in Seq(Units) /\ Len(buf') <= PipeLimit
    BY ReadFrameCarries
<1>3. Tidy'
    BY <1>1, <1>2 DEF Tidy
<1> QED
    BY <1>1, <1>2, <1>3, ReturnsNothing

\* PackRecords::next, unit by unit.
LEMMA ReaderParsesWhole ==
    ASSUME PackInv, Stream!ParseUnit
    PROVE  Tidy' /\ Carried' /\ Whole'
<1> USE DEF PackInv
<1>1. /\ UNCHANGED <<buf, canceled, asleep, bw, chunk, sender, reader>>
      /\ cur' = Tail(cur) /\ cur # <<>> /\ state \in {"magic", "records", "payload"}
    BY DEF Stream!ParseUnit, Stream!Parsing, Stream!pipeVars, Stream!senderVars
<1>2. Parses
    BY DEF Parses
<1>3. /\ Carried' /\ Whole' /\ got' \in Seq(Seq(Units)) /\ need' \in Nat
      /\ state' \in {"magic", "records", "payload", "end", "error"}
    BY <1>1, <1>2, ParseMagic, ParseEnd, ParseRecord, ParsePayload
<1>4. Tail(cur) \in Seq(Units)
    BY <1>1 DEF Tidy
<1>5. Tidy'
    BY <1>1, <1>3, <1>4 DEF Tidy
<1> QED
    BY <1>3, <1>5

\* The reader has found the pack cut short, drains it, or is dropped.
LEMMA ReaderLeaves ==
    ASSUME StreamAssumption, PackInv,
           Stream!Truncated \/ Stream!Drain \/ Stream!DrainChunk \/ Stream!DropRecv \/ Stream!Abandon
    PROVE  Tidy' /\ Carried' /\ Whole'
<1> USE DEF PackInv, Stream!pipeVars, Stream!senderVars
<1>1. /\ UNCHANGED <<pack, sent, bw, chunk, sender, need, got>>
      /\ cur' \in {cur, <<>>}
      /\ \/ UNCHANGED <<buf, canceled, asleep>> /\ (canceled => reader' = reader)
         \/ buf' = <<>> /\ asleep' = {} /\ reader' \in {"dropped", "abandoned"}
         \/ UNCHANGED <<buf, canceled, asleep>> /\ reader' \in {"dropped", "abandoned"}
      /\ state' \in {state, "error"}
      /\ reader' \in {"records", "drain", "dropped", "abandoned"}
      /\ ~Stream!Parsing'
  <2>1. CASE Stream!Truncated
    BY <2>1 DEF Stream!Truncated, Stream!Parsing
  <2>2. CASE Stream!Drain
    BY <2>2 DEF Stream!Drain, Stream!Parsing, Tidy
  <2>3. CASE Stream!DrainChunk
    BY <2>3 DEF Stream!DrainChunk, Stream!Parsing
  <2>4. CASE Stream!DropRecv
    BY <2>4 DEF Stream!DropRecv, Stream!CancelUnlessAtEof, Stream!CancelRead, Stream!Parsing
  <2>5. CASE Stream!Abandon
    BY <2>5 DEF Stream!Abandon, Stream!CancelUnlessAtEof, Stream!CancelRead, Stream!Parsing
  <2> QED
    BY <2>1, <2>2, <2>3, <2>4, <2>5
<1>2. Len(<<>>) <= PipeLimit /\ <<>> \in Seq(Units)
    BY DEF StreamAssumption
<1>3. cur' \in Seq(Units) /\ Len(buf') <= PipeLimit /\ asleep' \subseteq {"reader", "writer"}
    BY <1>1, <1>2 DEF Tidy
<1>4. Tidy'
    BY <1>1, <1>3 DEF Tidy
<1>5. Carried'
    BY <1>1 DEF Carried
<1> QED
    BY <1>1, <1>4, <1>5, ReturnsNothing

\* wire/src/pack.rs, PackSender, PackReader and PackRecords, over mem.rs's
\* streams: for every pack and every size of the chunks, the buffer and the
\* pipe, the records that next() returns are those that were added, whole and
\* in order, and the pack ends cleanly only after all of them, wherever the
\* sender is dropped, fails or is cut off.
THEOREM StreamCleanEndMeansAll ==
    ASSUME StreamAssumption
    PROVE  Stream!Spec => []CleanEndMeansAll
<1>1. PackInv => CleanEndMeansAll
  <2> SUFFICES ASSUME PackInv PROVE CleanEndMeansAll
    OBVIOUS
  <2>1. Stream!TypeOK
    BY DEF PackInv, StreamInv, StreamTypes, Tidy, Stream!TypeOK
  <2>2. Len(got) \in Nat /\ sent \in Nat /\ need \in Nat /\ Len(got) <= sent
    BY DEF PackInv, StreamInv, StreamTypes, Tidy, Whole
  <2>3. \A i \in 1..Stream!Received : i <= sent
    BY <2>2 DEF Stream!Received
  <2>4. \A i \in 1..Stream!Received : got[i] = Stream!Record(i)
    BY DEF PackInv, Whole
  <2>5. state = "end" => Stream!Received = Len(pack)
    BY <2>2 DEF PackInv, Whole, Stream!Received
  <2> QED
    BY <2>1, <2>3, <2>4, <2>5 DEF CleanEndMeansAll, Stream!CleanEndMeansAll
<1>2. PackInv /\ [Stream!Next]_Stream!vars => PackInv'
  <2> SUFFICES ASSUME PackInv, [Stream!Next]_Stream!vars PROVE PackInv'
    OBVIOUS
  <2>1. StreamInv'
    BY StreamStep DEF PackInv
  <2>2. Tidy' /\ Carried' /\ Whole'
    BY <2>1, SenderFillsWhole, SenderWritesWhole, NothingMoves,
       ReaderReadsWhole, ReaderParsesWhole, ReaderLeaves
       DEF Stream!Next, Stream!Sender, Stream!Reader
  <2> QED
    BY <2>1, <2>2 DEF PackInv
<1> QED
    BY <1>1, <1>2, PackInit, PTL DEF Stream!Spec
=============================================================================
