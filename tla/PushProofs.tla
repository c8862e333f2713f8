----------------------------- MODULE PushProofs -----------------------------
(***************************************************************************)
(* For any tree, nodes, views, replica and retry counts and any number of  *)
(* faults: a node counted as holder of an object has held it, and the      *)
(* reference is first written only after enough owners of every object     *)
(* have had it.  And, when the owners but one are enough, neither that one *)
(* coming and going nor objects taken as often as the push renegotiates    *)
(* make it fail.                                                           *)
(* And, for any nodes of a view and any numbers the hash gives them, the   *)
(* owners of a key are as many and as steady as PlacedRight says.          *)
(***************************************************************************)
EXTENDS Placing, FiniteSetTheorems, WellFoundedInduction, TLAPS

\* What a node stores now it has held.
Recorded == \A k \in Keys : Storing(k) \subseteq ever[k]

\* So did everybody an answer, a round or a put names, unless "held everywhere"
\* was read under another view.
Truthful(k) ==
    /\ nego[k].st = "asked" =>
        /\ nego[k].ans.typ = "short" => nego[k].ans.by \subseteq ever[k]
        /\ nego[k].ans.typ = "everywhere" /\ nego[k].ans.under = nego[k].under =>
            WriteSet(nego[k].under, k) \subseteq ever[k]
    /\ nego[k].st = "held" => nego[k].by \subseteq ever[k]
    /\ got[k] \subseteq ever[k]
    /\ holders[k] \subseteq ever[k]

IInv ==
    /\ TypeOK
    /\ pc = "fill" => round < Rounds - 1
    /\ Recorded
    /\ raced \/ \A k \in Keys : Truthful(k)

-----------------------------------------------------------------------------
\* The assumptions on the constants, in the form the steps use them.
LEMMA Constants ==
    /\ MinReplicas \in Nat /\ Rounds \in Nat \ {0} /\ RefAttempts \in Nat \ {0}
    /\ PutAttempts \in Nat \ {0}
    /\ DOMAIN OwnersOf \subseteq Nat /\ 1 \in DOMAIN OwnersOf
    /\ \A c \in DOMAIN OwnersOf : \A v \in 1..c : v \in DOMAIN OwnersOf
    /\ \A v \in DOMAIN OwnersOf, k \in Keys :
        /\ OwnersIn(v, k) \subseteq WriteSet(v, k) /\ WriteSet(v, k) \subseteq Nodes
        /\ OwnersOf[v][k] \subseteq Nodes /\ PendingOf[v][k] \subseteq Nodes
<1>1. DOMAIN OwnersOf = 1..Len(OwnersOf) /\ DOMAIN PendingOf = 1..Len(OwnersOf) /\ Len(OwnersOf) \in Nat
    BY PushAssumption
<1>2. \A v \in DOMAIN OwnersOf, k \in Keys : OwnersOf[v][k] \subseteq Nodes /\ PendingOf[v][k] \subseteq Nodes
    BY <1>1, PushAssumption
<1>3. DOMAIN OwnersOf \subseteq Nat /\ 1 \in DOMAIN OwnersOf
      /\ \A c \in DOMAIN OwnersOf : \A v \in 1..c : v \in DOMAIN OwnersOf
    BY <1>1, PushAssumption
<1> QED
    BY <1>2, <1>3, PushAssumption DEF OwnersIn, WriteSet

\* More holders are still enough.
LEMMA PlacedGrows ==
    ASSUME NEW v \in DOMAIN OwnersOf, NEW k \in Keys, NEW hs, NEW more, hs \subseteq more,
           Placed(v, k, hs)
    PROVE  Placed(v, k, more)
<1>1. ASSUME NEW owners, owners \subseteq Nodes, Enough(owners, hs)
      PROVE  Enough(owners, more)
  <2>1. IsFiniteSet(owners \cap more) /\ owners \cap hs \subseteq owners \cap more
    BY <1>1, PushAssumption, FS_Subset
  <2>2. /\ Cardinality(owners \cap hs) \in Nat /\ Cardinality(owners \cap more) \in Nat
        /\ Cardinality(owners \cap hs) <= Cardinality(owners \cap more)
    BY <2>1, FS_Subset, FS_CardinalityType
  <2> QED
    BY <1>1, <2>2, Constants DEF Enough
<1> QED
    BY <1>1, Constants DEF Placed

\* The answers and the stages of a negotiation, one by one.
LEMMA NegoStages ==
    ASSUME TypeOK
    PROVE  /\ \A T \in SUBSET Nodes : [st |-> "ask", tried |-> T] \in Nego
           /\ [st |-> "failed"] \in Nego
           /\ \A n \in Nodes : [st |-> "lacking", at |-> n] \in Nego
           /\ \A B \in SUBSET Nodes : [st |-> "held", by |-> B] \in Nego
           /\ \A x \in Nego : x.st \in {"ask", "failed", "asked", "lacking", "held"}
           /\ \A x \in Nego : x.st = "ask" => x.tried \subseteq Nodes
           /\ \A x \in Nego : x.st = "lacking" => x.at \in Nodes
           /\ \A x \in Nego : x.st = "held" => x.by \subseteq Nodes
           /\ \A x \in Nego : x.st = "asked" =>
                /\ x.at \in Nodes /\ x.tried \subseteq Nodes /\ x.under \in 1..cv
                /\ x.ans.typ \in {"lacks", "short", "everywhere"}
                /\ x.ans.typ = "short" => x.ans.by \subseteq Nodes
                /\ x.ans.typ = "everywhere" => x.ans.under \in 1..cv
    BY DEF Nego

LEMMA NegoGrows ==
    ASSUME TypeOK, cv \in Nat, cv' \in Nat, cv <= cv'
    PROVE  Nego \subseteq Nego'
<1>1. 1..cv \subseteq 1..cv'
    OBVIOUS
<1> QED
    BY <1>1 DEF Nego

LEMMA AskedIsNego ==
    ASSUME TypeOK, NEW p \in Nodes, NEW T \in SUBSET Nodes, NEW k \in Keys
    PROVE  [st |-> "asked", at |-> p, tried |-> T, under |-> view, ans |-> Answer(p, k)] \in Nego
<1>1. Seen(p, k) \subseteq Nodes
    BY Constants DEF Seen, TypeOK
<1>2. cv \in 1..cv
    BY Constants DEF TypeOK
<1>3. Answer(p, k) \in [typ : {"lacks"}] \cup [typ : {"short"}, by : SUBSET Nodes]
                      \cup [typ : {"everywhere"}, under : 1..cv]
    BY <1>1, <1>2 DEF Answer
<1> QED
    BY <1>3 DEF Nego, TypeOK

LEMMA InitIInv == Init => IInv
<1> SUFFICES ASSUME Init PROVE IInv
    OBVIOUS
<1> USE DEF Init
<1>1. cv \in DOMAIN OwnersOf /\ view \in 1..cv
    BY Constants
<1>2. nego \in [Keys -> Nego]
    BY DEF Nego, Unasked
<1>3. jobs \in [Nodes -> [keys : SUBSET Keys, tries : 0..(PutAttempts - 1)]]
    BY Constants DEF NoJobs, NoJob
<1>4. round \in 0..(Rounds - 1) /\ attempt \in 0..(RefAttempts - 1)
    BY Constants
<1>5. got \in [Keys -> SUBSET Nodes] /\ holders \in [Keys -> SUBSET Nodes]
      /\ ever \in [Keys -> SUBSET Nodes] /\ pins \in [Nodes -> SUBSET Keys]
    BY DEF Nobody, Storing
<1>6. TypeOK
    BY <1>1, <1>2, <1>3, <1>4, <1>5 DEF TypeOK
<1>7. Recorded
    BY DEF Recorded
<1>8. \A k \in Keys : Truthful(k)
    BY DEF Truthful, Nobody, Unasked
<1> QED
    BY <1>6, <1>7, <1>8 DEF IInv

-----------------------------------------------------------------------------
LEMMA AttemptType ==
    ASSUME TypeOK, NEW n \in Nodes, AfterAttempt(n)
    PROVE  jobs' \in [Nodes -> [keys : SUBSET Keys, tries : 0..(PutAttempts - 1)]]
<1>1. jobs[n] \in [keys : SUBSET Keys, tries : 0..(PutAttempts - 1)]
    BY DEF TypeOK
<1>2. NoJob \in [keys : SUBSET Keys, tries : 0..(PutAttempts - 1)]
    BY Constants DEF NoJob
<1>3. CASE jobs[n].tries + 1 < PutAttempts
  <2>1. jobs[n].tries + 1 \in 0..(PutAttempts - 1)
    BY <1>1, <1>3, Constants
  <2>2. jobs' = [jobs EXCEPT ![n].tries = jobs[n].tries + 1]
    BY <1>3 DEF AfterAttempt
  <2> QED
    BY <1>1, <2>1, <2>2 DEF TypeOK
<1>4. CASE ~(jobs[n].tries + 1 < PutAttempts)
    BY <1>2, <1>4 DEF AfterAttempt, TypeOK
<1> QED
    BY <1>3, <1>4

\* Batches for owners, to the direct fill.
LEMMA BatchType ==
    ASSUME NEW short \in SUBSET Keys
    PROVE  /\ ToOwners(short) \in [Nodes -> [keys : SUBSET Keys, tries : 0..(PutAttempts - 1)]]
           /\ NoJobs \in [Nodes -> [keys : SUBSET Keys, tries : 0..(PutAttempts - 1)]]
    BY Constants DEF ToOwners, NoJobs, NoJob

\* The types of the push and of the nodes.
LEMMA TypeStep ==
    ASSUME IInv, [Next]_vars
    PROVE  TypeOK'
<1> USE Constants DEF IInv, nodeVars, putVars, faultVars
<1>1. cv' = cv => Nego' = Nego
    BY DEF Nego
<1>2. CASE GoDown
    BY <1>1, <1>2, NegoStages DEF GoDown, TypeOK
<1>3. CASE ComeUp
    BY <1>1, <1>3, NegoStages DEF ComeUp, TypeOK
<1>4. CASE NextView
  <2>1. cv' \in DOMAIN OwnersOf /\ view' \in 1..cv' /\ cv \in Nat /\ cv' \in Nat /\ cv <= cv'
    BY <1>4 DEF NextView, TypeOK
  <2>2. nego' \in [Keys -> Nego']
    BY <1>4, <2>1, NegoGrows DEF NextView, TypeOK
  <2> QED
    BY <1>4, <2>1, <2>2 DEF NextView, TypeOK
<1>5. CASE Adopt
    BY <1>1, <1>5, NegoStages DEF Adopt, TypeOK
<1>6. ASSUME NEW k \in Keys, NEW where \in SUBSET Nodes, Reap(k, where) PROVE TypeOK'
    BY <1>1, <1>6, NegoStages DEF Reap, TypeOK
<1>7. ASSUME NEW k \in Keys, NEW p \in Nodes, Ask(k, p) PROVE TypeOK'
  <2>1. nego[k].tried \in SUBSET Nodes
    BY <1>7, NegoStages DEF Ask, Asking, TypeOK
  <2>2. nego' \in [Keys -> Nego']
    BY <1>1, <1>7, <2>1, AskedIsNego DEF Ask, TypeOK
  <2>3. pins' \in [Nodes -> SUBSET Keys]
    BY <1>7 DEF Ask, Pinned, TypeOK
  <2> QED
    BY <1>7, <2>2, <2>3 DEF Ask, TypeOK
<1>8. ASSUME NEW k \in Keys, NEW p \in Nodes, AskFails(k, p) PROVE TypeOK'
    BY <1>1, <1>8, NegoStages DEF AskFails, Asking, TypeOK
<1>9. ASSUME NEW k \in Keys, NoOwnerLeft(k) PROVE TypeOK'
    BY <1>1, <1>9, NegoStages DEF NoOwnerLeft, Asking, TypeOK
<1>10. ASSUME NEW k \in Keys, AskRefused(k) PROVE TypeOK'
    BY <1>1, <1>10, NegoStages DEF AskRefused, Asking, TypeOK
<1>11. ASSUME NEW k \in Keys, AnswerLost(k) PROVE TypeOK'
    BY <1>1, <1>11, NegoStages DEF AnswerLost, TypeOK
<1>12. ASSUME NEW k \in Keys, Answered(k) PROVE TypeOK'
    BY <1>1, <1>12, NegoStages DEF Answered, TypeOK
<1>13. ASSUME NEW n \in Nodes, PutStores(n) \/ \E o \in Nodes : PutNoSpace(n, o) PROVE TypeOK'
  <2>1. PICK full \in SUBSET Nodes : PutReply(n, full)
    BY <1>13 DEF PutStores, PutNoSpace
  <2> QED
    BY <1>1, <2>1, NegoStages DEF PutReply, Stored, Accepted, Forwarded, NoJob, TypeOK
<1>29. ASSUME NEW n \in Nodes, Stored(n, {}) \/ \E some \in SUBSET Accepted(n) : StoredPart(n, some)
       PROVE  /\ held' \in [Nodes -> SUBSET Keys] /\ pins' \in [Nodes -> SUBSET Keys]
              /\ ever' \in [Keys -> SUBSET Nodes]
  <2>1. CASE Stored(n, {})
    BY <2>1 DEF Stored, Accepted, TypeOK
  <2>2. ASSUME NEW some \in SUBSET Accepted(n), StoredPart(n, some)
        PROVE  /\ held' \in [Nodes -> SUBSET Keys] /\ pins' \in [Nodes -> SUBSET Keys]
               /\ ever' \in [Keys -> SUBSET Nodes]
    <3>1. some \subseteq Keys
      BY DEF Accepted, TypeOK
    <3> QED
      BY <2>2, <3>1 DEF StoredPart, TypeOK
  <2> QED
    BY <1>29, <2>1, <2>2
<1>14. ASSUME NEW n \in Nodes, PutLost(n) PROVE TypeOK'
  <2>1. /\ held' \in [Nodes -> SUBSET Keys] /\ pins' \in [Nodes -> SUBSET Keys]
        /\ ever' \in [Keys -> SUBSET Nodes]
    BY <1>14, <1>29 DEF PutLost
  <2>2. jobs' \in [Nodes -> [keys : SUBSET Keys, tries : 0..(PutAttempts - 1)]]
    BY <1>14 DEF PutLost, NoJob, TypeOK
  <2>3. UNCHANGED <<cv, view, pc, round, attempt, nego, got, rejected, holders>> /\ down' \in BOOLEAN
    BY <1>14 DEF PutLost, TypeOK
  <2> QED
    BY <1>1, <2>1, <2>2, <2>3 DEF TypeOK
<1>15. ASSUME NEW n \in Nodes, PutUnreachable(n) PROVE TypeOK'
    BY <1>1, <1>15, NegoStages DEF PutUnreachable, NoJob, TypeOK
<1>16. ASSUME NEW n \in Nodes, PutStale(n) PROVE TypeOK'
  <2>1. jobs' \in [Nodes -> [keys : SUBSET Keys, tries : 0..(PutAttempts - 1)]]
    BY <1>16, AttemptType DEF PutStale, TypeOK
  <2> QED
    BY <1>1, <1>16, <2>1 DEF PutStale, TypeOK
<1>17. ASSUME NEW n \in Nodes, PutBusy(n) PROVE TypeOK'
  <2>1. jobs' \in [Nodes -> [keys : SUBSET Keys, tries : 0..(PutAttempts - 1)]]
    BY <1>17, AttemptType DEF PutBusy, TypeOK
  <2> QED
    BY <1>1, <1>17, <2>1 DEF PutBusy, TypeOK
<1>18. ASSUME NEW n \in Nodes, PutRefused(n) PROVE TypeOK'
  <2>1. /\ held' \in [Nodes -> SUBSET Keys] /\ pins' \in [Nodes -> SUBSET Keys]
        /\ ever' \in [Keys -> SUBSET Nodes]
    BY <1>18, <1>29 DEF PutRefused
  <2>2. jobs' \in [Nodes -> [keys : SUBSET Keys, tries : 0..(PutAttempts - 1)]]
    BY <1>18 DEF PutRefused, NoJob, TypeOK
  <2>3. UNCHANGED <<cv, view, pc, round, attempt, nego, got, rejected, holders>> /\ down' \in BOOLEAN
    BY <1>18 DEF PutRefused, TypeOK
  <2> QED
    BY <1>1, <2>1, <2>2, <2>3 DEF TypeOK
<1>19. CASE Negotiated
    BY <1>1, <1>19, NegoStages DEF Negotiated, StartPut, ToPrimaries, Lacking, Unasked, Nobody, Asked,
       TypeOK
<1>20. CASE Renegotiated
    BY <1>1, <1>20, NegoStages DEF Renegotiated, StartPut, ToPrimaries, Lacking, Unasked, Nobody,
       Asked, TypeOK
<1>21. CASE PutDone
    BY <1>1, <1>21, NegoStages DEF PutDone, TypeOK
<1>22. CASE Check
  <2>1. Short \in SUBSET Keys
    BY DEF Short
  <2>2. jobs' \in [Nodes -> [keys : SUBSET Keys, tries : 0..(PutAttempts - 1)]]
    BY <1>22, <2>1, BatchType DEF Check, StartPut
  <2>3. got' \in [Keys -> SUBSET Nodes] /\ rejected' \subseteq Keys
    BY <1>22 DEF Check, StartPut, Nobody
  <2>4. pc' \in {"ref", "failed", "fill", "negotiate"} /\ (pc' = "negotiate" => round # Rounds - 1)
    BY <1>22 DEF Check
  <2>5. round' \in 0..(Rounds - 1)
    BY <1>22, <2>4 DEF Check, TypeOK
  <2> QED
    BY <1>1, <1>22, <2>2, <2>3, <2>4, <2>5 DEF Check, TypeOK
<1>23. CASE FillDone
    BY <1>1, <1>23, NegoStages DEF FillDone, Merged, TypeOK
<1>24. CASE RefPut
  <2>1. pc' \in {"done", "failed", "renegotiate"} /\ (pc' = "renegotiate" => attempt # RefAttempts - 1)
    BY <1>24 DEF RefPut
  <2>2. attempt' \in 0..(RefAttempts - 1)
    <3>1. attempt' = IF pc' = "renegotiate" THEN attempt + 1 ELSE attempt
      BY <1>24 DEF RefPut
    <3>2. attempt \in 0..(RefAttempts - 1)
      BY DEF TypeOK
    <3> QED
      BY <2>1, <3>1, <3>2
  <2>3. view' \in 1..cv
    BY <1>24 DEF RefPut, TypeOK
  <2> QED
    BY <1>1, <1>24, <2>1, <2>2, <2>3 DEF RefPut, TypeOK
<1>25. CASE RefRefused
    BY <1>1, <1>25, NegoStages DEF RefRefused, TypeOK
<1>26. CASE ReputDone
  <2>1. Short \in SUBSET Keys
    BY DEF Short
  <2>2. jobs' \in [Nodes -> [keys : SUBSET Keys, tries : 0..(PutAttempts - 1)]]
    BY <1>26, <2>1, BatchType DEF ReputDone, StartPut
  <2>3. got' \in [Keys -> SUBSET Nodes] /\ rejected' \subseteq Keys
    BY <1>26 DEF ReputDone, StartPut, Nobody
  <2> QED
    BY <1>1, <1>26, <2>2, <2>3 DEF ReputDone, TypeOK
<1>27. CASE RefillDone
    BY <1>1, <1>27, NegoStages DEF RefillDone, Merged, TypeOK
<1>28. CASE UNCHANGED vars
    BY <1>1, <1>28, NegoStages DEF vars, TypeOK
<1> QED
    BY <1>2, <1>3, <1>4, <1>5, <1>6, <1>7, <1>8, <1>9, <1>10, <1>11, <1>12, <1>13, <1>14, <1>15, <1>16,
       <1>17, <1>18, <1>19, <1>20, <1>21, <1>22, <1>23, <1>24, <1>25, <1>26, <1>27, <1>28
       DEF Next, World, Client, Missing, Put

\* What is stored is recorded, and nothing recorded is forgotten.
LEMMA RecordStep ==
    ASSUME IInv, [Next]_vars
    PROVE  Recorded' /\ \A k \in Keys : ever[k] \subseteq ever'[k]
<1> USE DEF IInv, nodeVars, putVars, faultVars
<1>1. ASSUME UNCHANGED <<held, ever>>
      PROVE  Recorded' /\ \A k \in Keys : ever[k] \subseteq ever'[k]
    BY <1>1 DEF Recorded, Storing
<1>2. ASSUME NEW k \in Keys, NEW where \in SUBSET Nodes, Reap(k, where)
      PROVE  Recorded' /\ \A i \in Keys : ever[i] \subseteq ever'[i]
    BY <1>2 DEF Reap, Recorded, Storing, TypeOK
<1>3. ASSUME ever' = [k \in Keys |-> ever[k] \cup {o \in Nodes : k \in held'[o]}]
      PROVE  Recorded' /\ \A k \in Keys : ever[k] \subseteq ever'[k]
    BY <1>3 DEF Recorded, Storing, TypeOK
<1>4. ASSUME NEW n \in Nodes,
             \/ PutStores(n) \/ \E o \in Nodes : PutNoSpace(n, o)
             \/ PutLost(n) \/ PutRefused(n)
      PROVE  ever' = [k \in Keys |-> ever[k] \cup {o \in Nodes : k \in held'[o]}]
    BY <1>4 DEF PutStores, PutNoSpace, PutReply, PutLost, PutRefused, Stored, StoredPart
<1>5. ASSUME NEW n \in Nodes, PutUnreachable(n) \/ PutStale(n) \/ PutBusy(n)
      PROVE  UNCHANGED <<held, ever>>
    BY <1>5 DEF PutUnreachable, PutStale, PutBusy
<1>6. ASSUME Missing PROVE UNCHANGED <<held, ever>>
    BY <1>6 DEF Missing, Ask, AskFails, NoOwnerLeft, AskRefused, AnswerLost, Answered
<1>7. ASSUME GoDown \/ ComeUp \/ NextView \/ Adopt \/ Negotiated \/ Renegotiated \/ PutDone \/ Check
             \/ FillDone \/ RefPut \/ RefRefused \/ ReputDone \/ RefillDone \/ UNCHANGED vars
      PROVE  UNCHANGED <<held, ever>>
    BY <1>7 DEF GoDown, ComeUp, NextView, Adopt, Negotiated, Renegotiated, PutDone, Check, FillDone,
                RefPut, RefRefused, ReputDone, RefillDone, vars
<1> QED
    BY <1>1, <1>2, <1>3, <1>4, <1>5, <1>6, <1>7 DEF Next, World, Client, Put

\* An owner that says "held everywhere", asked under the view it has, has seen
\* every node of the write set hold the object.
LEMMA EverywhereSeen ==
    ASSUME IInv, NEW k \in Keys, NEW p \in OwnersIn(view, k), view = cv,
           Answer(p, k).typ = "everywhere"
    PROVE  Seen(p, k) = WriteSet(cv, k) /\ Seen(p, k) \subseteq Storing(k)
<1> DEFINE owners == WriteSet(cv, k)
<1>1. owners \subseteq Nodes /\ p \in owners
    BY Constants DEF IInv, TypeOK
<1>2. Seen(p, k) \subseteq owners /\ Seen(p, k) \subseteq Storing(k)
    BY <1>1 DEF Seen, Storing
<1>3. IsFiniteSet(owners) /\ Cardinality(owners) \in Nat
    BY <1>1, PushAssumption, FS_Subset, FS_CardinalityType
<1>4. IsFiniteSet(Seen(p, k)) /\ Cardinality(Seen(p, k)) \in Nat
    BY <1>2, <1>3, FS_Subset, FS_CardinalityType
<1>5. Seen(p, k) # {} /\ Cardinality(Seen(p, k)) \notin 1..(Cardinality(owners) - 1)
    BY DEF Answer
<1>6. Cardinality(Seen(p, k)) # 0
    BY <1>4, <1>5, FS_EmptySet
<1>7. Cardinality(Seen(p, k)) >= Cardinality(owners)
    BY <1>3, <1>4, <1>5, <1>6
<1>8. Seen(p, k) = owners
    BY <1>2, <1>3, <1>4, <1>7, FS_Subset
<1> QED
    BY <1>2, <1>8

LEMMA EverywhereIsTrue ==
    ASSUME IInv, NEW k \in Keys, NEW p \in OwnersIn(view, k), view = cv,
           Answer(p, k).typ = "everywhere"
    PROVE  WriteSet(view, k) \subseteq ever[k]
    BY EverywhereSeen DEF IInv, Recorded

\* What is true of an object stays true while its records do not change.
LEMMA TruthKept ==
    ASSUME NEW k \in Keys, Truthful(k), ever[k] \subseteq ever'[k],
           nego'[k] = nego[k], got'[k] = got[k], holders'[k] = holders[k]
    PROVE  Truthful(k)'
    BY DEF Truthful, WriteSet

\* Only the reading of an answer sets raced, and nothing clears it.
LEMMA RacedStays ==
    ASSUME [Next]_vars, ~raced'
    PROVE  ~raced
<1> USE DEF nodeVars, putVars, faultVars
<1>1. CASE Missing
    BY <1>1 DEF Missing, Ask, AskFails, NoOwnerLeft, AskRefused, AnswerLost, Answered
<1>2. CASE Put
    BY <1>2 DEF Put, PutStores, PutNoSpace, PutReply, PutLost, PutUnreachable, PutStale, PutBusy,
       PutRefused
<1>3. CASE World
    BY <1>3 DEF World, GoDown, ComeUp, NextView, Adopt, Reap
<1>4. CASE Negotiated \/ Renegotiated \/ PutDone \/ Check
    BY <1>4 DEF Negotiated, Renegotiated, PutDone, Check
<1>5. CASE FillDone \/ RefPut \/ RefRefused \/ ReputDone \/ RefillDone \/ UNCHANGED vars
    BY <1>5 DEF FillDone, RefPut, RefRefused, ReputDone, RefillDone, vars
<1> QED
    BY <1>1, <1>2, <1>3, <1>4, <1>5 DEF Next, Client

\* The answer a node gives is true when it is asked under its own view.
LEMMA AskTruth ==
    ASSUME IInv, NEW k \in Keys, NEW p \in Nodes, Ask(k, p), NEW i \in Keys, Truthful(i)
    PROVE  Truthful(i)'
<1>1. ever' = ever /\ got' = got /\ holders' = holders /\ nego \in [Keys -> Nego]
    BY DEF Ask, putVars, IInv, TypeOK
<1>2. CASE i # k
    BY <1>1, <1>2, TruthKept DEF Ask
<1>3. CASE i = k
  <2>1. /\ nego'[k].st = "asked" /\ nego'[k].ans = Answer(p, k) /\ nego'[k].under = view
        /\ p \in OwnersIn(view, k)
    BY <1>1 DEF Ask
  <2>2. Answer(p, k).typ = "short" => Answer(p, k).by \subseteq ever[k]
    <3>1. Seen(p, k) \subseteq Storing(k)
      BY Constants DEF Seen, Storing, IInv, TypeOK
    <3>2. Answer(p, k).typ = "short" => Answer(p, k).by = Seen(p, k)
      BY DEF Answer
    <3> QED
      BY <3>1, <3>2 DEF IInv, Recorded
  <2>3. Answer(p, k).typ = "everywhere" /\ Answer(p, k).under = view => WriteSet(view, k) \subseteq ever[k]
    <3>1. Answer(p, k).typ = "everywhere" => Answer(p, k).under = cv
      BY DEF Answer
    <3> QED
      BY <2>1, <3>1, EverywhereIsTrue
  <2> QED
    BY <1>1, <1>3, <2>1, <2>2, <2>3 DEF Truthful, WriteSet
<1> QED
    BY <1>2, <1>3

\* Reading an answer under the view it was given and asked under keeps it true.
LEMMA AnsweredTruth ==
    ASSUME IInv, NEW k \in Keys, Answered(k), ~raced', NEW i \in Keys, Truthful(i)
    PROVE  Truthful(i)'
<1>1. ever' = ever /\ got' = got /\ holders' = holders /\ nego \in [Keys -> Nego]
    BY DEF Answered, putVars, IInv, TypeOK
<1>2. CASE i # k
    BY <1>1, <1>2, TruthKept DEF Answered
<1>3. CASE i = k
  <2>1. nego[k].st = "asked" /\ nego[k].ans.typ \in {"lacks", "short", "everywhere"}
    BY <1>1, NegoStages DEF Answered, IInv
  <2>2. CASE nego[k].ans.typ = "lacks"
    <3>1. nego'[k].st = "lacking"
      BY <1>1, <2>2 DEF Answered
    <3> QED
      BY <1>1, <1>3, <3>1 DEF Truthful
  <2>3. CASE nego[k].ans.typ = "short"
    <3>1. nego'[k] = [st |-> "held", by |-> nego[k].ans.by]
      BY <1>1, <2>3 DEF Answered
    <3> QED
      BY <1>1, <1>3, <2>1, <2>3, <3>1 DEF Truthful
  <2>4. CASE nego[k].ans.typ = "everywhere"
    <3>1. nego'[k] = [st |-> "held", by |-> WriteSet(view, k)]
      BY <1>1, <2>4 DEF Answered
    <3>2. nego[k].under = view /\ nego[k].ans.under = view
      BY <2>4 DEF Answered
    <3> QED
      BY <1>1, <1>3, <2>1, <2>4, <3>1, <3>2 DEF Truthful
  <2> QED
    BY <2>1, <2>2, <2>3, <2>4
<1> QED
    BY <1>2, <1>3

\* Whom a reply names has stored the object.
LEMMA PutTruth ==
    ASSUME IInv, NEW n \in Nodes, NEW full, PutReply(n, full), NEW i \in Keys, Truthful(i),
           ever[i] \subseteq ever'[i]
    PROVE  Truthful(i)'
<1>1. nego' = nego /\ holders' = holders
    BY DEF PutReply
<1>2. CASE i \notin Accepted(n)
    BY <1>1, <1>2, TruthKept DEF PutReply
<1>3. CASE i \in Accepted(n)
  <2>1. got'[i] = Forwarded(n, i, full) /\ Forwarded(n, i, full) \subseteq Nodes
    BY <1>3, Constants DEF PutReply, Forwarded, IInv, TypeOK
  <2>2. \A o \in Forwarded(n, i, full) : i \in held'[o]
    BY <1>3, <2>1 DEF PutReply, Stored
  <2>3. got'[i] \subseteq ever'[i]
    BY <2>1, <2>2 DEF PutReply, Stored
  <2> QED
    BY <1>1, <2>3 DEF Truthful, WriteSet
<1> QED
    BY <1>2, <1>3

LEMMA TruthStep ==
    ASSUME IInv, [Next]_vars
    PROVE  raced' \/ \A k \in Keys : Truthful(k)'
<1> SUFFICES ASSUME ~raced', NEW i \in Keys PROVE Truthful(i)'
    OBVIOUS
<1> USE DEF nodeVars, putVars, faultVars
<1>1. Truthful(i) /\ ever[i] \subseteq ever'[i]
    BY RacedStays, RecordStep DEF IInv
<1>2. nego \in [Keys -> Nego]
    BY DEF IInv, TypeOK
<1>3. CASE Missing
  <2>1. PICK k \in Keys : \/ \E p \in Nodes : Ask(k, p) \/ AskFails(k, p)
                          \/ NoOwnerLeft(k) \/ AskRefused(k) \/ AnswerLost(k) \/ Answered(k)
    BY <1>3 DEF Missing
  <2>2. CASE \E p \in Nodes : Ask(k, p)
    BY <1>1, <2>2, AskTruth
  <2>3. CASE Answered(k)
    BY <1>1, <2>3, AnsweredTruth
  <2>4. CASE (\E p \in Nodes : AskFails(k, p)) \/ NoOwnerLeft(k) \/ AskRefused(k) \/ AnswerLost(k)
    <3>1. /\ UNCHANGED <<ever, got, holders>>
          /\ i # k => nego'[i] = nego[i]
          /\ nego'[k].st \in {"ask", "failed"}
      BY <1>2, <2>4 DEF AskFails, NoOwnerLeft, AskRefused, AnswerLost
    <3> QED
      BY <1>1, <3>1, TruthKept DEF Truthful
  <2> QED
    BY <2>1, <2>2, <2>3, <2>4
<1>4. CASE Put
  <2>1. PICK n \in Nodes : \/ \E full : PutReply(n, full)
                           \/ PutLost(n) \/ PutUnreachable(n)
                           \/ PutStale(n) \/ PutBusy(n) \/ PutRefused(n)
    BY <1>4 DEF Put, PutStores, PutNoSpace
  <2>2. CASE \E full : PutReply(n, full)
    BY <1>1, <2>2, PutTruth
  <2>3. CASE PutLost(n) \/ PutUnreachable(n) \/ PutStale(n) \/ PutBusy(n) \/ PutRefused(n)
    BY <1>1, <2>3, TruthKept DEF PutLost, PutUnreachable, PutStale, PutBusy, PutRefused
  <2> QED
    BY <2>1, <2>2, <2>3
<1>5. CASE World
    BY <1>1, <1>5, TruthKept DEF World, GoDown, ComeUp, NextView, Adopt, Reap
<1>6. CASE Negotiated \/ Renegotiated
    BY <1>1, <1>6 DEF Negotiated, Renegotiated, StartPut, Nobody, Unasked, Truthful, WriteSet
<1>7. CASE PutDone \/ FillDone \/ RefillDone
    BY <1>1, <1>7 DEF PutDone, FillDone, RefillDone, Merged, Truthful, WriteSet
<1>8. CASE Check \/ ReputDone
    BY <1>1, <1>8 DEF Check, ReputDone, StartPut, Nobody, Truthful, WriteSet
<1>9. CASE RefPut \/ RefRefused \/ UNCHANGED vars
    BY <1>1, <1>9, TruthKept DEF RefPut, RefRefused, vars
<1> QED
    BY <1>3, <1>4, <1>5, <1>6, <1>7, <1>8, <1>9 DEF Next, Client

\* A fill is never the last round.
LEMMA FillStep ==
    ASSUME IInv, [Next]_vars
    PROVE  pc' = "fill" => round' < Rounds - 1
<1> USE DEF nodeVars, putVars, faultVars
<1>1. CASE Check
    BY <1>1 DEF Check, IInv
<1>2. CASE Missing
    BY <1>2 DEF Missing, Ask, AskFails, NoOwnerLeft, AskRefused, AnswerLost, Answered, IInv
<1>3. CASE Put
    BY <1>3 DEF Put, PutStores, PutNoSpace, PutReply, PutLost, PutUnreachable, PutStale, PutBusy,
       PutRefused, IInv
<1>4. CASE World
    BY <1>4 DEF World, GoDown, ComeUp, NextView, Adopt, Reap, IInv
<1>5. CASE Negotiated \/ Renegotiated \/ PutDone \/ FillDone
    BY <1>5 DEF Negotiated, Renegotiated, PutDone, FillDone, IInv
<1>6. CASE RefPut \/ RefRefused \/ ReputDone \/ RefillDone \/ UNCHANGED vars
    BY <1>6 DEF RefPut, RefRefused, ReputDone, RefillDone, vars, IInv
<1> QED
    BY <1>1, <1>2, <1>3, <1>4, <1>5, <1>6 DEF Next, Client

LEMMA StepIInv == IInv /\ [Next]_vars => IInv'
    BY TypeStep, RecordStep, TruthStep, FillStep DEF IInv

LEMMA SpecIInv == Spec => []IInv
    BY InitIInv, StepIInv, PTL DEF Spec

-----------------------------------------------------------------------------
\* A node that push counts as holder of an object has held it since the push
\* began, whatever went down, was reaped, was lost or was forwarded, for any
\* number of such faults and of views, unless an answer "held everywhere"
\* raced a view change.
THEOREM PushHoldersHaveHeld == Spec => []HoldersHaveHeld
<1>1. IInv => HoldersHaveHeld
    BY DEF IInv, HoldersHaveHeld, Truthful
<1> QED
    BY SpecIInv, <1>1, PTL

\* Push writes the reference for the first time only after enough owners of
\* every object, and enough of the pending ones, have had it, unless an
\* answer "held everywhere" raced a view change.
THEOREM PushAckedBeforeRef == Spec => AckedBeforeRef
<1>1. IInv /\ [Next]_vars =>
        [(pc = "check" /\ pc' = "ref") => raced \/ \A k \in Keys : Placed(view, k, ever[k])]_vars
  <2> SUFFICES ASSUME IInv, [Next]_vars, pc = "check", pc' = "ref", ~raced, NEW k \in Keys
               PROVE  Placed(view, k, ever[k])
    OBVIOUS
  <2> USE DEF nodeVars, putVars, faultVars
  <2>1. Check
    <3>1. ~Missing
      BY DEF Missing, Ask, AskFails, NoOwnerLeft, AskRefused, AnswerLost, Answered
    <3>2. ~Put
      BY DEF Put, PutStores, PutNoSpace, PutReply, PutLost, PutUnreachable, PutStale, PutBusy, PutRefused
    <3>3. ~World
      BY DEF World, GoDown, ComeUp, NextView, Adopt, Reap
    <3>4. ~Negotiated /\ ~Renegotiated /\ ~PutDone /\ ~FillDone
      BY DEF Negotiated, Renegotiated, PutDone, FillDone
    <3>5. ~RefPut /\ ~RefRefused /\ ~ReputDone /\ ~RefillDone /\ vars' # vars
      BY DEF RefPut, RefRefused, ReputDone, RefillDone, vars
    <3> QED
      BY <3>1, <3>2, <3>3, <3>4, <3>5 DEF Next, Client
  <2>2. Short = {}
    BY <2>1 DEF Check
  <2>3. Placed(view, k, holders[k]) /\ holders[k] \subseteq ever[k] /\ view \in DOMAIN OwnersOf
    BY <2>2, Constants DEF Short, IInv, Truthful, TypeOK
  <2> QED
    BY <2>3, PlacedGrows
<1> QED
    BY SpecIInv, <1>1, PTL DEF Spec, AckedBeforeRef

-----------------------------------------------------------------------------
(* One node comes and goes, or objects are taken: the push does not fail.  *)

\* The owners of an object in the first view that do not come and go, one of
\* them an owner proper; they are enough.
Rest(k) == WriteSet(1, k) \ {Flaky}
OthersSuffice ==
    \A k \in Keys : OwnersOf[1][k] \ {Flaky} # {} /\ Placed(1, k, Nodes \ {Flaky})

Counters == flaps \in Nat /\ reaps \in Nat /\ refusals \in Nat

\* The view stays the first and no node refuses anything.
Quiet == cv = 1 /\ refusals = 0

QuietNext ==
    \/ GoDown \/ ComeUp
    \/ \E k \in Keys, where \in SUBSET Nodes : Reap(k, where)
    \/ \E k \in Keys, p \in Nodes : Ask(k, p) \/ AskFails(k, p)
    \/ \E k \in Keys : NoOwnerLeft(k) \/ AnswerLost(k) \/ Answered(k)
    \/ \E n \in Nodes : PutStores(n) \/ PutLost(n) \/ PutUnreachable(n)
    \/ Negotiated \/ Renegotiated \/ PutDone \/ Check \/ FillDone
    \/ RefPut \/ ReputDone \/ RefillDone

\* A negotiation then fails at no key, since only Flaky is passed over, every
\* batch goes to a node that keeps it, and a reply names all the others.
Sure(k) ==
    /\ nego[k].st # "failed"
    /\ nego[k].st \in {"ask", "asked"} => nego[k].tried \subseteq {Flaky}
    /\ nego[k].st \in {"asked", "lacking"} => nego[k].at \in OwnersOf[1][k]
    /\ \A n \in Nodes : k \in jobs[n].keys => n \in WriteSet(1, k)
    /\ got[k] = {} \/ Rest(k) \subseteq got[k]

QuietInv ==
    /\ Counters
    /\ Quiet => rejected = {} /\ \A k \in Keys : Sure(k)

-----------------------------------------------------------------------------
\* Faults are counted up.
LEMMA CountersStep ==
    ASSUME Counters, [Next]_vars
    PROVE  /\ Counters' /\ flaps <= flaps' /\ reaps <= reaps' /\ refusals <= refusals'
           /\ whole' = whole
<1> USE DEF Counters, nodeVars, putVars, faultVars
<1>0. whole' = whole
    BY DEF Next, vars
<1>1. CASE Missing
    BY <1>0, <1>1 DEF Missing, Ask, AskFails, NoOwnerLeft, AskRefused, AnswerLost, Answered
<1>2. CASE Put
  <2>1. PICK n \in Nodes : \/ PutStores(n) \/ PutUnreachable(n) \/ PutStale(n)
                           \/ (\E o \in Nodes : PutNoSpace(n, o)) \/ PutBusy(n) \/ PutRefused(n)
                           \/ PutLost(n)
    BY <1>2 DEF Put
  <2>2. CASE PutStores(n) \/ PutUnreachable(n) \/ PutStale(n)
    BY <1>0, <2>2 DEF PutStores, PutUnreachable, PutStale
  <2>3. CASE (\E o \in Nodes : PutNoSpace(n, o)) \/ PutBusy(n) \/ PutRefused(n)
    <3>1. refusals' = refusals + 1 /\ UNCHANGED <<flaps, reaps>>
      BY <2>3 DEF PutNoSpace, PutBusy, PutRefused
    <3> QED
      BY <1>0, <3>1
  <2>4. CASE PutLost(n)
    BY <1>0, <2>4 DEF PutLost
  <2> QED
    BY <2>1, <2>2, <2>3, <2>4
<1>3. CASE World
    BY <1>0, <1>3 DEF World, GoDown, ComeUp, NextView, Adopt, Reap
<1>4. CASE Negotiated \/ Renegotiated \/ PutDone \/ Check
    BY <1>0, <1>4 DEF Negotiated, Renegotiated, PutDone, Check
<1>5. CASE FillDone \/ RefPut \/ RefRefused \/ ReputDone \/ RefillDone \/ UNCHANGED vars
    BY <1>0, <1>5 DEF FillDone, RefPut, RefRefused, ReputDone, RefillDone, vars
<1> QED
    BY <1>1, <1>2, <1>3, <1>4, <1>5 DEF Next, Client

\* A step after which the push is quiet was one of a quiet push.
LEMMA Quietly ==
    ASSUME IInv, Counters, [Next]_vars, Quiet'
    PROVE  /\ Quiet /\ view = 1 /\ cv' = cv /\ refusals' = refusals
           /\ QuietNext \/ UNCHANGED vars
<1> USE DEF nodeVars, putVars, faultVars
<1>1. cv \in Nat /\ cv >= 1 /\ view \in 1..cv /\ view' \in 1..cv' /\ cv' \in Nat
    BY Constants, TypeStep DEF IInv, TypeOK
<1>2. cv <= cv'
  <2>1. CASE World
    BY <1>1, <2>1 DEF World, GoDown, ComeUp, NextView, Adopt, Reap
  <2>2. CASE Missing
    BY <1>1, <2>2 DEF Missing, Ask, AskFails, NoOwnerLeft, AskRefused, AnswerLost, Answered
  <2>3. CASE Put
    <3>1. cv' = cv
      BY <2>3 DEF Put, PutStores, PutNoSpace, PutReply, PutLost, PutUnreachable, PutStale, PutBusy,
         PutRefused
    <3> QED
      BY <1>1, <3>1
  <2>4. CASE Negotiated \/ Renegotiated \/ PutDone \/ Check
    BY <1>1, <2>4 DEF Negotiated, Renegotiated, PutDone, Check
  <2>5. CASE FillDone \/ RefPut \/ RefRefused \/ ReputDone \/ RefillDone \/ UNCHANGED vars
    BY <1>1, <2>5 DEF FillDone, RefPut, RefRefused, ReputDone, RefillDone, vars
  <2> QED
    BY <2>1, <2>2, <2>3, <2>4, <2>5 DEF Next, Client
<1>3. refusals \in Nat /\ refusals <= refusals' /\ refusals' \in Nat
    BY CountersStep DEF Counters
<1>4. cv = 1 /\ view = 1 /\ cv' = cv /\ refusals' = refusals /\ refusals = 0
    BY <1>1, <1>2, <1>3 DEF Quiet
<1>5. ~NextView /\ ~Adopt /\ ~RefRefused
    BY <1>4 DEF NextView, Adopt, RefRefused
<1>6. \A k \in Keys : ~AskRefused(k)
    BY <1>4 DEF AskRefused
<1>7. \A n \in Nodes : ~PutStale(n) /\ ~PutBusy(n) /\ ~PutRefused(n) /\ \A o \in Nodes : ~PutNoSpace(n, o)
    BY <1>4 DEF PutStale, PutBusy, PutRefused, PutNoSpace
<1>8. QuietNext \/ UNCHANGED vars
    BY <1>5, <1>6, <1>7 DEF Next, World, Client, Missing, Put, QuietNext
<1> QED
    BY <1>4, <1>8 DEF Quiet

\* The others are enough, nobody is not; and they are always up.
LEMMA Others ==
    ASSUME OthersSuffice, NEW k \in Keys
    PROVE  /\ Rest(k) \subseteq Nodes /\ Rest(k) # {} /\ Rest(k) \subseteq WriteSet(1, k)
           /\ Flaky \notin Rest(k)
           /\ Placed(1, k, Rest(k)) /\ ~Placed(1, k, {})
           /\ \A n \in Rest(k) : Up(n) /\ Up(n)' /\ n # Flaky
           /\ ~(OwnersOf[1][k] \subseteq {Flaky})
<1>1. 1 \in DOMAIN OwnersOf /\ OwnersOf[1][k] \ {Flaky} # {} /\ Placed(1, k, Nodes \ {Flaky})
    BY Constants DEF OthersSuffice
<1>2. WriteSet(1, k) \subseteq Nodes /\ OwnersOf[1][k] \subseteq Nodes /\ PendingOf[1][k] \subseteq Nodes
    BY <1>1, Constants
<1>3. OwnersOf[1][k] \cap (Nodes \ {Flaky}) = OwnersOf[1][k] \cap Rest(k)
      /\ PendingOf[1][k] \cap (Nodes \ {Flaky}) = PendingOf[1][k] \cap Rest(k)
    BY <1>2 DEF Rest, WriteSet
<1>4. OwnersOf[1][k] \subseteq Nodes \ {Flaky} => OwnersOf[1][k] \subseteq Rest(k)
    BY DEF Rest, WriteSet
<1>5. PendingOf[1][k] \subseteq Nodes \ {Flaky} => PendingOf[1][k] \subseteq Rest(k)
    BY DEF Rest, WriteSet
<1>6. Placed(1, k, Rest(k))
    BY <1>1, <1>3, <1>4, <1>5 DEF Placed, Enough
<1>7. ~Placed(1, k, {})
  <2>1. OwnersOf[1][k] \cap {} = {} /\ Cardinality({}) = 0 /\ ~(OwnersOf[1][k] \subseteq {})
    BY <1>1, FS_EmptySet
  <2>2. MinReplicas \in Nat \ {0}
    BY PushAssumption
  <2>3. ~(0 >= MinReplicas)
    BY <2>2
  <2> QED
    BY <2>1, <2>3 DEF Placed, Enough
<1>8. \A n \in Rest(k) : Up(n) /\ Up(n)' /\ n # Flaky
    BY DEF Up, Rest
<1> QED
    BY <1>1, <1>2, <1>6, <1>7, <1>8 DEF Rest, WriteSet

\* Flaky alone is not enough for two replicas.
LEMMA OneIsShort ==
    ASSUME OthersSuffice, MinReplicas >= 2, NEW k \in Keys
    PROVE  ~Placed(1, k, {Flaky})
<1> DEFINE S == OwnersOf[1][k] \cap {Flaky}
<1>1. IsFiniteSet({Flaky}) /\ Cardinality({Flaky}) = 1
    BY FS_Singleton
<1>2. Cardinality(S) \in Nat /\ Cardinality(S) <= 1
    BY <1>1, FS_Subset, FS_CardinalityType
<1>3. MinReplicas \in Nat
    BY Constants
<1>4. ~(Cardinality(S) >= MinReplicas)
    BY <1>2, <1>3
<1>5. ~(OwnersOf[1][k] \subseteq {Flaky})
    BY Others
<1> QED
    BY <1>4, <1>5 DEF Placed, Enough

\* Whoever stores an object forwards it to all the others.
LEMMA OthersForwarded ==
    ASSUME OthersSuffice, cv = 1, NEW n \in Nodes, NEW k \in Keys
    PROVE  Rest(k) \subseteq Forwarded(n, k, {})
    BY Others DEF Forwarded

\* What is sure of an object stays so while no batch is added.
LEMMA SureKept ==
    ASSUME NEW k \in Keys, Sure(k), nego'[k] = nego[k], got'[k] = got[k],
           \A n \in Nodes : jobs'[n].keys \subseteq jobs[n].keys
    PROVE  Sure(k)'
    BY DEF Sure, Rest, WriteSet

\* It holds at first, and every step keeps it.
LEMMA QuietInvInit == Init => QuietInv
    BY DEF Init, QuietInv, Counters, Sure, Unasked, NoJobs, NoJob, Nobody

\* In a quiet push only Flaky is passed over and every batch is accepted.
LEMMA QuietInvStep ==
    ASSUME OthersSuffice, IInv, QuietInv, [Next]_vars
    PROVE  QuietInv'
<1> SUFFICES ASSUME Quiet' PROVE rejected' = {} /\ \A i \in Keys : Sure(i)'
    BY CountersStep DEF QuietInv
<1> USE DEF nodeVars, putVars, faultVars
<1>1. /\ Quiet /\ view = 1 /\ cv = 1
      /\ QuietNext \/ UNCHANGED vars
      /\ rejected = {} /\ \A i \in Keys : Sure(i)
    BY Quietly DEF QuietInv, Quiet
<1>2. nego \in [Keys -> Nego] /\ jobs \in [Nodes -> [keys : SUBSET Keys, tries : 0..(PutAttempts - 1)]]
      /\ got \in [Keys -> SUBSET Nodes]
    BY DEF IInv, TypeOK
<1>3. CASE UNCHANGED <<nego, jobs, got, rejected>>
    BY <1>1, <1>3, SureKept
<1>4. ASSUME NEW k \in Keys, UNCHANGED <<jobs, got, rejected>>, \A i \in Keys \ {k} : nego'[i] = nego[i],
             /\ nego'[k].st # "failed"
             /\ nego'[k].st \in {"ask", "asked"} => nego'[k].tried \subseteq {Flaky}
             /\ nego'[k].st \in {"asked", "lacking"} => nego'[k].at \in OwnersOf[1][k]
      PROVE  rejected' = {} /\ \A i \in Keys : Sure(i)'
  <2>1. Sure(k)'
    BY <1>1, <1>4 DEF Sure, Rest, WriteSet
  <2> QED
    BY <1>1, <1>4, <2>1, SureKept
<1>5. ASSUME NEW k \in Keys, NEW p \in Nodes, Ask(k, p)
      PROVE  rejected' = {} /\ \A i \in Keys : Sure(i)'
  <2>1. nego'[k].st = "asked" /\ nego'[k].tried = nego[k].tried /\ nego'[k].at = p
        /\ p \in OwnersOf[1][k] /\ nego[k].st = "ask"
    BY <1>1, <1>2, <1>5 DEF Ask, Asking, OwnersIn
  <2>2. nego'[k].tried \subseteq {Flaky}
    BY <1>1, <2>1 DEF Sure
  <2> QED
    BY <1>2, <1>4, <1>5, <2>1, <2>2 DEF Ask
<1>6. ASSUME NEW k \in Keys, NEW p \in Nodes, AskFails(k, p)
      PROVE  rejected' = {} /\ \A i \in Keys : Sure(i)'
  <2>1. nego'[k].st = "ask" /\ nego'[k].tried = nego[k].tried \cup {p} /\ p = Flaky /\ nego[k].st = "ask"
    BY <1>2, <1>6 DEF AskFails, Asking, Up
  <2>2. nego'[k].tried \subseteq {Flaky}
    BY <1>1, <2>1 DEF Sure
  <2> QED
    BY <1>2, <1>4, <1>6, <2>1, <2>2 DEF AskFails
<1>7. ASSUME NEW k \in Keys, AnswerLost(k)
      PROVE  rejected' = {} /\ \A i \in Keys : Sure(i)'
  <2>1. nego'[k].st = "ask" /\ nego'[k].tried = nego[k].tried \cup {nego[k].at}
        /\ nego[k].at = Flaky /\ nego[k].st = "asked"
    BY <1>2, <1>7 DEF AnswerLost, Up
  <2>2. nego'[k].tried \subseteq {Flaky}
    BY <1>1, <2>1 DEF Sure
  <2> QED
    BY <1>2, <1>4, <1>7, <2>1, <2>2 DEF AnswerLost
<1>8. ASSUME NEW k \in Keys, NoOwnerLeft(k)
      PROVE  FALSE
  <2>1. nego[k].st = "ask" /\ OwnersOf[1][k] \subseteq nego[k].tried
    BY <1>1, <1>8 DEF NoOwnerLeft, Asking, OwnersIn
  <2> QED
    BY <1>1, <2>1, Others DEF Sure
<1>9. ASSUME NEW k \in Keys, Answered(k)
      PROVE  rejected' = {} /\ \A i \in Keys : Sure(i)'
  <2>1. nego[k].st = "asked" /\ nego[k].ans.typ \in {"lacks", "short", "everywhere"}
    BY <1>2, <1>9, NegoStages DEF Answered, IInv
  <2>2. \/ nego'[k].st = "lacking" /\ nego'[k].at = nego[k].at
        \/ nego'[k].st = "held"
    BY <1>2, <1>9, <2>1 DEF Answered
  <2>3. nego[k].at \in OwnersOf[1][k]
    BY <1>1, <2>1 DEF Sure
  <2> QED
    BY <1>2, <1>4, <1>9, <2>2, <2>3 DEF Answered
<1>10. ASSUME NEW n \in Nodes, PutStores(n)
       PROVE  rejected' = {} /\ \A i \in Keys : Sure(i)'
  <2>1. Accepted(n) = jobs[n].keys
    BY <1>1, <1>2 DEF Accepted, Sure
  <2>2. rejected' = {}
    BY <1>1, <1>10, <2>1 DEF PutStores, PutReply
  <2>3. \A o \in Nodes : jobs'[o].keys \subseteq jobs[o].keys
    BY <1>2, <1>10 DEF PutStores, PutReply, NoJob
  <2>4. ASSUME NEW i \in Keys PROVE Sure(i)'
    <3>1. got'[i] = IF i \in Accepted(n) THEN Forwarded(n, i, {}) ELSE got[i]
      BY <1>10 DEF PutStores, PutReply
    <3>2. got'[i] = {} \/ Rest(i) \subseteq got'[i]
      BY <1>1, <3>1, OthersForwarded DEF Sure
    <3> QED
      BY <1>1, <1>10, <2>3, <3>2 DEF PutStores, PutReply, Sure, Rest, WriteSet
  <2> QED
    BY <2>2, <2>4
<1>11. ASSUME NEW n \in Nodes, PutLost(n) \/ PutUnreachable(n)
       PROVE  rejected' = {} /\ \A i \in Keys : Sure(i)'
  <2>1. UNCHANGED <<nego, got, rejected>> /\ jobs' = [jobs EXCEPT ![n] = NoJob]
    BY <1>11 DEF PutLost, PutUnreachable
  <2>2. \A o \in Nodes : jobs'[o].keys \subseteq jobs[o].keys
    BY <1>2, <2>1 DEF NoJob
  <2> QED
    BY <1>1, <2>1, <2>2, SureKept
<1>12. CASE Negotiated \/ Renegotiated
  <2>1. nego' = Unasked /\ jobs' = ToPrimaries /\ got' = Nobody /\ rejected' = {}
    BY <1>12 DEF Negotiated, Renegotiated, StartPut
  <2>2. ASSUME NEW i \in Keys, NEW n \in Nodes, i \in jobs'[n].keys PROVE n \in WriteSet(1, i)
    <3>1. nego[i].st = "lacking" /\ nego[i].at = n
      BY <2>1, <2>2 DEF ToPrimaries, Lacking
    <3> QED
      BY <1>1, <3>1 DEF Sure, WriteSet
  <2> QED
    BY <2>1, <2>2 DEF Sure, Unasked, Nobody, WriteSet, Rest
<1>13. CASE Check \/ ReputDone
  <2>1. UNCHANGED nego /\ got' = Nobody /\ rejected' = {} /\ jobs' \in {NoJobs, ToOwners(Short)}
    BY <1>13 DEF Check, ReputDone, StartPut
  <2>2. ASSUME NEW i \in Keys, NEW n \in Nodes, i \in jobs'[n].keys PROVE n \in WriteSet(1, i)
    BY <1>1, <2>1, <2>2 DEF NoJobs, NoJob, ToOwners
  <2> QED
    BY <1>1, <2>1, <2>2 DEF Sure, Nobody, WriteSet, Rest
<1>14. CASE GoDown \/ ComeUp \/ PutDone \/ FillDone \/ RefPut \/ RefillDone \/ UNCHANGED vars
    BY <1>3, <1>14 DEF GoDown, ComeUp, PutDone, FillDone, RefPut, RefillDone, vars
<1>15. ASSUME NEW k \in Keys, NEW where \in SUBSET Nodes, Reap(k, where)
       PROVE  rejected' = {} /\ \A i \in Keys : Sure(i)'
    BY <1>3, <1>15 DEF Reap
<1> QED
    BY <1>1, <1>5, <1>6, <1>7, <1>8, <1>9, <1>10, <1>11, <1>12, <1>13, <1>14, <1>15 DEF QuietNext

-----------------------------------------------------------------------------
\* Every object was at all its owners or nowhere, none is taken.
Calm == whole /\ Quiet /\ reaps = 0

\* Flaky may have stored an object and died before it forwarded it: then it
\* is the only one, and who asks it is told so.  Otherwise an object that is
\* anywhere is at all the others.
Named(k, S) ==
    \/ Rest(k) \subseteq S /\ Rest(k) \subseteq Storing(k)
    \/ S = {Flaky} /\ round < 2

\* The direct fill reaches the others, and after that the object is known to
\* be held by all of them.
Spread(k) ==
    /\ Storing(k) \subseteq {Flaky} \/ Rest(k) \subseteq Storing(k)
    /\ nego[k].st = "asked" /\ nego[k].ans.typ = "short" => Named(k, nego[k].ans.by)
    /\ nego[k].st = "asked" /\ nego[k].ans.typ = "everywhere" => Rest(k) \subseteq Storing(k)
    /\ nego[k].st = "held" => Named(k, nego[k].by)
    /\ got[k] # {} => Rest(k) \subseteq Storing(k)
    /\ holders[k] # {} => Named(k, holders[k])
    /\ pc # "negotiate" => nego[k].st = "ask"
    /\ pc = "fill" =>
         Rest(k) \subseteq holders[k] \/ got[k] # {} \/ \E n \in Rest(k) : k \in jobs[n].keys
    /\ round >= 2 \/ pc \in {"ref", "done"} => Rest(k) \subseteq holders[k]

FlapInv ==
    Calm => /\ pc \in {"negotiate", "put", "check", "fill", "ref", "done"}
            /\ pc = "fill" => round = 1
            /\ \A k \in Keys : Spread(k)

-----------------------------------------------------------------------------
\* Storing more, and losing no batch but Flaky's.
LEMMA SpreadKept ==
    ASSUME NEW k \in Keys, Spread(k), Storing(k) \subseteq Storing(k)',
           Storing(k)' \subseteq Storing(k) \cup {Flaky} \/ Rest(k) \subseteq Storing(k)',
           nego'[k] = nego[k], got'[k] = got[k], holders'[k] = holders[k],
           pc' = pc, round' = round,
           \A n \in Rest(k) : jobs'[n] = jobs[n]
    PROVE  Spread(k)'
<1> DEFINE S == Storing(k)  T == Storing(k)'  R == Rest(k)
<1>1. Rest(k)' = R
    BY DEF Rest, WriteSet
<1>2. (S \subseteq {Flaky} \/ R \subseteq S) /\ S \subseteq T /\ (T \subseteq S \cup {Flaky} \/ R \subseteq T)
    BY DEF Spread
<1> HIDE DEF S, T, R
<1>3. (T \subseteq {Flaky} \/ R \subseteq T) /\ (R \subseteq S => R \subseteq T)
    BY <1>2
<1>4. \A N : Named(k, N) => Named(k, N)'
    BY <1>1, <1>3 DEF Named, S, T, R
<1>5. Storing(k)' = T /\ Storing(k) = S /\ Rest(k) = R
    BY DEF S, T, R
<1>6. /\ nego[k].st = "asked" /\ nego[k].ans.typ = "short" => Named(k, nego[k].ans.by)
      /\ nego[k].st = "asked" /\ nego[k].ans.typ = "everywhere" => R \subseteq S
      /\ nego[k].st = "held" => Named(k, nego[k].by)
      /\ got[k] # {} => R \subseteq S
      /\ holders[k] # {} => Named(k, holders[k])
      /\ pc # "negotiate" => nego[k].st = "ask"
      /\ pc = "fill" => R \subseteq holders[k] \/ got[k] # {} \/ \E n \in R : k \in jobs[n].keys
      /\ round >= 2 \/ pc \in {"ref", "done"} => R \subseteq holders[k]
    BY <1>5 DEF Spread
<1>7. (\E n \in R : k \in jobs[n].keys) => \E n \in R : k \in jobs'[n].keys
    BY <1>5
<1>8. /\ nego[k].st = "asked" /\ nego[k].ans.typ = "short" => Named(k, nego[k].ans.by)'
      /\ nego[k].st = "held" => Named(k, nego[k].by)'
      /\ holders[k] # {} => Named(k, holders[k])'
    BY <1>4, <1>6 DEF Named
<1> QED
    BY <1>1, <1>3, <1>5, <1>6, <1>7, <1>8 DEF Spread

\* A put spreads what it brings to all the others.
LEMMA StoredSpreads ==
    ASSUME OthersSuffice, IInv, QuietInv, Quiet, NEW n \in Nodes, Stored(n, {}), NEW k \in Keys
    PROVE  /\ Storing(k) \subseteq Storing(k)'
           /\ k \in jobs[n].keys => Rest(k) \subseteq Storing(k)'
           /\ k \notin jobs[n].keys => Storing(k)' = Storing(k)
<1>1. cv = 1 /\ Sure(k)
    BY DEF Quiet, QuietInv
<1>2. k \in Accepted(n) <=> k \in jobs[n].keys
    BY <1>1 DEF Accepted, Sure
<1>3. held' = [o \in Nodes |-> held[o] \cup {i \in Accepted(n) : o \in Forwarded(n, i, {})}]
    BY DEF Stored
<1>4. \A o \in Nodes : k \in held'[o] <=> k \in held[o] \/ (k \in Accepted(n) /\ o \in Forwarded(n, k, {}))
    BY <1>3
<1>5. Rest(k) \subseteq Forwarded(n, k, {}) /\ Rest(k) \subseteq Nodes
    BY <1>1, Others, OthersForwarded
<1> QED
    BY <1>2, <1>4, <1>5 DEF Storing

\* Initially every object is at all its owners or nowhere.
LEMMA FlapInvInit == ASSUME OthersSuffice PROVE Init => FlapInv
<1> SUFFICES ASSUME Init, Calm, NEW k \in Keys PROVE Spread(k)
    BY DEF FlapInv, Init
<1>1. Storing(k) \in {{}, WriteSet(1, k)}
    BY DEF Init, Calm
<1>2. nego[k].st = "ask" /\ got[k] = {} /\ holders[k] = {} /\ pc = "negotiate" /\ round = 0
    BY DEF Init, Unasked, Nobody
<1> QED
    BY <1>1, <1>2 DEF Spread, Rest

\* Every step keeps it: after the fill of the second round nothing is short.
LEMMA FlapInvStep ==
    ASSUME OthersSuffice, MinReplicas >= 2, 3 <= Rounds, IInv, QuietInv, FlapInv, [Next]_vars
    PROVE  FlapInv'
<1> SUFFICES ASSUME Calm'
             PROVE  /\ pc' \in {"negotiate", "put", "check", "fill", "ref", "done"}
                    /\ pc' = "fill" => round' = 1
                    /\ \A k \in Keys : Spread(k)'
    BY DEF FlapInv
<1> USE DEF nodeVars, putVars, faultVars
<1>1. /\ Quiet /\ view = 1 /\ cv = 1 /\ Calm /\ reaps' = reaps /\ reaps = 0
      /\ QuietNext \/ UNCHANGED vars
  <2>1. /\ Quiet /\ view = 1 /\ cv' = cv
        /\ QuietNext \/ UNCHANGED vars
    BY Quietly DEF QuietInv, Calm
  <2>2. reaps \in Nat /\ reaps <= reaps' /\ reaps' = 0 /\ whole' /\ whole' = whole
    BY CountersStep DEF QuietInv, Calm, Counters
  <2>3. reaps = 0
    BY <2>2
  <2> QED
    BY <2>1, <2>2, <2>3 DEF Calm, Quiet
<1>2. /\ nego \in [Keys -> Nego] /\ jobs \in [Nodes -> [keys : SUBSET Keys, tries : 0..(PutAttempts - 1)]]
      /\ got \in [Keys -> SUBSET Nodes] /\ holders \in [Keys -> SUBSET Nodes] /\ round \in Nat
      /\ Rounds \in Nat /\ held \in [Nodes -> SUBSET Keys]
    BY Constants DEF IInv, TypeOK
<1>3. /\ pc \in {"negotiate", "put", "check", "fill", "ref", "done"}
      /\ pc = "fill" => round = 1
      /\ \A k \in Keys : Spread(k) /\ Sure(k)
      /\ rejected = {}
    BY <1>1 DEF FlapInv, QuietInv
<1>4. ASSUME UNCHANGED <<held, nego, got, holders, jobs, pc, round>>
      PROVE  FlapInv'
  <2>1. \A k \in Keys : Storing(k)' = Storing(k)
    BY <1>4 DEF Storing
  <2>2. \A k \in Keys : Spread(k)'
    BY <1>3, <1>4, <2>1, SpreadKept
  <2> QED
    BY <1>3, <1>4, <2>2 DEF FlapInv
<1>5. ASSUME NEW k \in Keys, UNCHANGED <<held, got, holders, jobs, pc, round>>, pc = "negotiate",
             \A i \in Keys \ {k} : nego'[i] = nego[i],
             /\ nego'[k].st = "asked" /\ nego'[k].ans.typ = "short" => Named(k, nego'[k].ans.by)
             /\ nego'[k].st = "asked" /\ nego'[k].ans.typ = "everywhere" => Rest(k) \subseteq Storing(k)
             /\ nego'[k].st = "held" => Named(k, nego'[k].by)
      PROVE  FlapInv'
  <2>1. \A i \in Keys : Storing(i)' = Storing(i)
    BY <1>5 DEF Storing
  <2>2. \A i \in Keys \ {k} : Spread(i)'
    BY <1>3, <1>5, <2>1, SpreadKept
  <2>3. Spread(k)'
    <3>1. Rest(k)' = Rest(k) /\ Spread(k)
      BY <1>3 DEF Rest, WriteSet
    <3> QED
      BY <1>5, <2>1, <3>1 DEF Spread, Named
  <2> QED
    BY <1>3, <1>5, <2>2, <2>3 DEF FlapInv
<1>6. CASE GoDown \/ ComeUp \/ UNCHANGED vars
  <2>1. UNCHANGED <<held, nego, got, holders, jobs, pc, round>>
    BY <1>6 DEF GoDown, ComeUp, vars
  <2> QED
    BY <1>4, <2>1 DEF FlapInv
<1>7. ASSUME NEW k \in Keys, NEW where \in SUBSET Nodes, Reap(k, where)
      PROVE  FALSE
    BY <1>1, <1>7 DEF Reap
<1>8. ASSUME NEW k \in Keys, NEW p \in Nodes, Ask(k, p)
      PROVE  FlapInv'
  <2>1. /\ UNCHANGED <<held, got, holders, jobs, pc, round>> /\ \A i \in Keys \ {k} : nego'[i] = nego[i]
        /\ pc = "negotiate" /\ p \in OwnersIn(view, k) /\ view = cv
    BY <1>1, <1>2, <1>3, <1>8 DEF Ask, Asking
  <2>2. nego'[k].st = "asked" /\ nego'[k].ans = Answer(p, k)
    BY <1>2, <1>8 DEF Ask
  <2>3. CASE k \notin held[p]
    <3>1. Seen(p, k) = {} /\ Cardinality({}) = 0
      BY <2>3, FS_EmptySet DEF Seen
    <3>2. Answer(p, k).typ = "lacks"
      BY <3>1 DEF Answer
    <3> QED
      BY <1>5, <2>1, <2>2, <3>2
  <2>4. CASE k \in held[p]
    <3>1. Answer(p, k).typ = "short" => Answer(p, k).by = Seen(p, k)
      BY DEF Answer
    <3>2. Answer(p, k).typ = "everywhere" => Rest(k) \subseteq Storing(k)
      <4>1. Answer(p, k).typ = "everywhere" => WriteSet(cv, k) \subseteq Storing(k)
        BY <2>1, EverywhereSeen
      <4> QED
        BY <1>1, <4>1 DEF Rest
    <3>3. Named(k, Seen(p, k))
      <4>1. CASE Rest(k) \subseteq Storing(k)
        <5>1. Rest(k) \subseteq Seen(p, k)
          BY <1>1, <2>4, <4>1, Others DEF Seen, Storing, Rest
        <5> QED
          BY <4>1, <5>1 DEF Named
      <4>2. CASE ~(Rest(k) \subseteq Storing(k))
        <5>1. Storing(k) \subseteq {Flaky}
          BY <1>3, <4>2 DEF Spread
        <5>2. p = Flaky /\ WriteSet(cv, k) \subseteq Nodes
          BY <1>1, <2>4, <5>1, Constants DEF Storing
        <5>3. Seen(p, k) = {Flaky}
          BY <2>4, <5>1, <5>2 DEF Seen, Storing
        <5>4. round < 2
          <6>1. round >= 2 => Rest(k) \subseteq holders[k] /\ (holders[k] # {} => Named(k, holders[k]))
            BY <1>3 DEF Spread
          <6>2. round >= 2 => Rest(k) \subseteq Storing(k)
            BY <6>1, Others DEF Named
          <6> QED
            BY <1>2, <4>2, <6>2
        <5> QED
          BY <5>3, <5>4 DEF Named
      <4> QED
        BY <4>1, <4>2
    <3> QED
      BY <1>5, <2>1, <2>2, <3>1, <3>2, <3>3
  <2> QED
    BY <2>3, <2>4
<1>9. ASSUME NEW k \in Keys, (\E p \in Nodes : AskFails(k, p)) \/ AnswerLost(k)
      PROVE  FlapInv'
  <2>1. /\ UNCHANGED <<held, got, holders, jobs, pc, round>> /\ \A i \in Keys \ {k} : nego'[i] = nego[i]
        /\ pc = "negotiate"
    BY <1>2, <1>3, <1>9 DEF AskFails, AnswerLost, Asking, Spread
  <2>2. nego'[k].st = "ask"
    BY <1>2, <1>9 DEF AskFails, AnswerLost
  <2> QED
    BY <1>5, <2>1, <2>2
<1>10. ASSUME NEW k \in Keys, NoOwnerLeft(k) PROVE FALSE
  <2>1. nego[k].st = "ask" /\ OwnersOf[1][k] \subseteq nego[k].tried
    BY <1>1, <1>10 DEF NoOwnerLeft, Asking, OwnersIn
  <2> QED
    BY <1>3, <2>1, Others DEF Sure
<1>11. ASSUME NEW k \in Keys, Answered(k)
       PROVE  FlapInv'
  <2>1. /\ UNCHANGED <<held, got, holders, jobs, pc, round>> /\ \A i \in Keys \ {k} : nego'[i] = nego[i]
        /\ pc = "negotiate"
    BY <1>2, <1>3, <1>11 DEF Answered, Spread
  <2>2. nego[k].st = "asked" /\ nego[k].ans.typ \in {"lacks", "short", "everywhere"}
    BY <1>2, <1>11, NegoStages DEF Answered, IInv
  <2>3. \/ nego'[k].st = "lacking"
        \/ nego'[k].st = "held" /\ nego[k].ans.typ = "short" /\ nego'[k].by = nego[k].ans.by
        \/ nego'[k].st = "held" /\ nego[k].ans.typ = "everywhere" /\ nego'[k].by = WriteSet(1, k)
    BY <1>1, <1>2, <1>11, <2>2 DEF Answered
  <2>4. Rest(k) \subseteq WriteSet(1, k)
    BY DEF Rest
  <2>5. /\ nego[k].ans.typ = "short" => Named(k, nego[k].ans.by)
        /\ nego[k].ans.typ = "everywhere" => Named(k, WriteSet(1, k))
    BY <1>3, <2>2, <2>4 DEF Spread, Named
  <2> QED
    BY <1>5, <2>1, <2>3, <2>5
<1>12. ASSUME NEW n \in Nodes, PutStores(n)
       PROVE  FlapInv'
  <2>1. UNCHANGED <<nego, holders, pc, round>> /\ Stored(n, {})
    BY <1>12 DEF PutStores, PutReply
  <2>2. ASSUME NEW k \in Keys, k \notin jobs[n].keys PROVE Spread(k)'
    <3>1. Storing(k)' = Storing(k)
      BY <1>1, <2>1, <2>2, StoredSpreads
    <3>2. k \notin Accepted(n) /\ got'[k] = got[k]
      BY <1>12, <2>2 DEF PutStores, PutReply, Accepted
    <3>3. \A o \in Nodes : k \in jobs[o].keys => k \in jobs'[o].keys
      BY <1>2, <1>12, <2>2 DEF PutStores, PutReply
    <3>4. Rest(k)' = Rest(k) /\ Rest(k) \subseteq Nodes
      BY Others DEF Rest, WriteSet
    <3> QED
      BY <1>3, <2>1, <3>1, <3>2, <3>3, <3>4 DEF Spread, Named
  <2>3. ASSUME NEW k \in Keys, k \in jobs[n].keys PROVE Spread(k)'
    <3>1. Rest(k) \subseteq Storing(k)'
      BY <1>1, <2>1, <2>3, StoredSpreads
    <3>2. got'[k] # {}
      <4>1. k \in Accepted(n)
        BY <1>1, <1>3, <2>3 DEF Accepted, Sure
      <4>2. got'[k] = Forwarded(n, k, {})
        BY <1>12, <4>1 DEF PutStores, PutReply
      <4> QED
        BY <4>2 DEF Forwarded
    <3>3. Rest(k)' = Rest(k)
      BY DEF Rest, WriteSet
    <3> QED
      BY <1>3, <2>1, <3>1, <3>2, <3>3 DEF Spread, Named
  <2> QED
    BY <1>3, <2>1, <2>2, <2>3 DEF FlapInv
<1>13. ASSUME NEW n \in Nodes, PutLost(n) \/ PutUnreachable(n)
       PROVE  FlapInv'
  <2>1. UNCHANGED <<nego, got, holders, pc, round>> /\ jobs' = [jobs EXCEPT ![n] = NoJob]
    BY <1>13 DEF PutLost, PutUnreachable
  <2>2. n = Flaky
    BY <1>13 DEF PutLost, PutUnreachable, Up
  <2>3. ASSUME NEW k \in Keys PROVE Spread(k)'
    <3>1. \A o \in Rest(k) : jobs'[o] = jobs[o]
      BY <1>2, <2>1, <2>2, Others DEF Rest
    <3>2. Stored(n, {}) \/ (\E some \in SUBSET Accepted(n) : StoredPart(n, some)) \/ UNCHANGED held
      BY <1>13 DEF PutLost, PutUnreachable
    <3>3. /\ Storing(k) \subseteq Storing(k)'
          /\ Storing(k)' \subseteq Storing(k) \cup {Flaky} \/ Rest(k) \subseteq Storing(k)'
      <4>1. CASE Stored(n, {})
        BY <1>1, <4>1, StoredSpreads
      <4>2. CASE UNCHANGED held
        BY <4>2 DEF Storing
      <4>3. ASSUME NEW some, StoredPart(n, some)
            PROVE  Storing(k) \subseteq Storing(k)' /\ Storing(k)' \subseteq Storing(k) \cup {Flaky}
        <5>1. /\ \A o \in Nodes : held[o] \subseteq held'[o]
              /\ \A o \in Nodes \ {Flaky} : held'[o] = held[o]
          BY <1>2, <2>2, <4>3 DEF StoredPart
        <5> QED
          BY <5>1 DEF Storing
      <4> QED
        BY <3>2, <4>1, <4>2, <4>3
    <3> QED
      BY <1>3, <2>1, <3>1, <3>3, SpreadKept
  <2> QED
    BY <1>3, <2>1, <2>3 DEF FlapInv
<1>14. CASE Negotiated
  <2>1. /\ holders' = [k \in Keys |-> IF nego[k].st = "held" THEN nego[k].by ELSE holders[k]]
        /\ got' = Nobody /\ nego' = Unasked /\ UNCHANGED <<held, round>> /\ pc = "negotiate"
    BY <1>14 DEF Negotiated, StartPut
  <2>2. pc' \in {"put", "check"}
    BY <1>3, <1>14 DEF Negotiated, Sure
  <2>3. ASSUME NEW k \in Keys PROVE Spread(k)'
    <3>1. Storing(k)' = Storing(k) /\ Rest(k)' = Rest(k) /\ Rest(k) # {}
      BY <2>1, Others DEF Storing, Rest, WriteSet
    <3>2. nego'[k].st = "ask" /\ got'[k] = {}
      BY <2>1 DEF Unasked, Nobody
    <3>3. holders'[k] = IF nego[k].st = "held" THEN nego[k].by ELSE holders[k]
      BY <2>1
    <3>4. holders'[k] # {} => (Rest(k) \subseteq holders'[k] /\ Rest(k) \subseteq Storing(k))
                               \/ (holders'[k] = {Flaky} /\ round < 2)
      BY <1>3, <3>3 DEF Spread, Named
    <3>5. round >= 2 => Rest(k) \subseteq holders'[k]
      BY <1>2, <1>3, <3>3 DEF Spread, Named
    <3>6. Storing(k) \subseteq {Flaky} \/ Rest(k) \subseteq Storing(k)
      BY <1>3 DEF Spread
    <3> QED
      BY <2>1, <2>2, <3>1, <3>2, <3>4, <3>5, <3>6 DEF Spread, Named
  <2> QED
    BY <2>2, <2>3 DEF FlapInv
<1>15. CASE PutDone
  <2>1. /\ holders' = [k \in Keys |-> IF got[k] = {} THEN holders[k] ELSE got[k]]
        /\ UNCHANGED <<held, round, nego, got, jobs>> /\ pc' = "check" /\ pc = "put"
    BY <1>3, <1>15 DEF PutDone
  <2>2. ASSUME NEW k \in Keys PROVE Spread(k)'
    <3>1. Storing(k)' = Storing(k) /\ Rest(k)' = Rest(k) /\ Rest(k) # {}
      BY <2>1, Others DEF Storing, Rest, WriteSet
    <3>2. holders'[k] = IF got[k] = {} THEN holders[k] ELSE got[k]
      BY <2>1
    <3>3. got[k] # {} => Rest(k) \subseteq got[k]
      BY <1>3 DEF Sure
    <3> QED
      BY <1>3, <2>1, <3>1, <3>2, <3>3 DEF Spread, Named
  <2> QED
    BY <2>1, <2>2 DEF FlapInv
<1>16. CASE Check
  <2>1. ASSUME NEW k \in Keys
        PROVE  /\ k \in Short <=> ~(Rest(k) \subseteq holders[k])
               /\ Rest(k) \subseteq holders[k] \/ holders[k] \subseteq {Flaky}
    <3>1. Placed(1, k, Rest(k)) /\ ~Placed(1, k, {}) /\ 1 \in DOMAIN OwnersOf
      BY Others, Constants
    <3>2. holders[k] = {} \/ holders[k] = {Flaky} \/ Rest(k) \subseteq holders[k]
      BY <1>3 DEF Spread, Named
    <3>3. ~Placed(1, k, {Flaky})
      BY OneIsShort
    <3>4. Rest(k) \subseteq holders[k] => Placed(1, k, holders[k])
      BY <3>1, PlacedGrows
    <3>5. Rest(k) # {} /\ Flaky \notin Rest(k)
      BY Others
    <3> QED
      BY <1>1, <3>1, <3>2, <3>3, <3>4, <3>5 DEF Short
  <2>2. round >= 2 => Short = {}
    <3>1. round >= 2 => \A k \in Keys : Rest(k) \subseteq holders[k]
      BY <1>3 DEF Spread
    <3> QED
      BY <2>1, <3>1 DEF Short
  <2>3. \/ pc' = "ref" /\ Short = {} /\ round' = round
        \/ pc' = "fill" /\ Short # {} /\ round = 1 /\ round' = round
        \/ pc' = "negotiate" /\ Short # {} /\ round = 0 /\ round' = 1
    <3>1. CASE Short = {}
      BY <1>16, <3>1 DEF Check
    <3>2. CASE Short # {}
      <4>1. round < 2 /\ round # Rounds - 1
        BY <1>2, <2>2, <3>2
      <4>2. CASE round = 1
        <5>1. round < Rounds - 1
          BY <1>2, <4>2
        <5>2. pc' = "fill"
          BY <1>16, <3>2, <4>1, <4>2, <5>1 DEF Check
        <5> QED
          BY <1>16, <3>2, <4>2, <5>2 DEF Check
      <4>3. CASE round # 1
        <5>1. round = 0
          BY <1>2, <4>1, <4>3
        <5>2. pc' = "negotiate"
          BY <1>16, <3>2, <4>1, <4>3 DEF Check
        <5> QED
          BY <1>16, <3>2, <5>1, <5>2 DEF Check
      <4> QED
        BY <4>2, <4>3
    <3> QED
      BY <3>1, <3>2
  <2>4. got' = Nobody /\ UNCHANGED <<held, nego, holders>> /\ (pc' = "fill" => jobs' = ToOwners(Short))
    BY <1>16 DEF Check, StartPut
  <2>5. ASSUME NEW k \in Keys PROVE Spread(k)'
    <3>1. Storing(k)' = Storing(k) /\ Rest(k)' = Rest(k) /\ Rest(k) # {} /\ Rest(k) \subseteq Nodes
          /\ Rest(k) \subseteq WriteSet(1, k)
      BY <2>4, Others DEF Storing, Rest, WriteSet
    <3>2. got'[k] = {} /\ nego'[k] = nego[k] /\ holders'[k] = holders[k]
      BY <2>4 DEF Nobody
    <3>3. pc' = "fill" => Rest(k) \subseteq holders[k] \/ \E n \in Rest(k) : k \in jobs'[n].keys
      <4>1. SUFFICES ASSUME pc' = "fill", ~(Rest(k) \subseteq holders[k])
                     PROVE  \E n \in Rest(k) : k \in jobs'[n].keys
        OBVIOUS
      <4>2. PICK n \in Rest(k) : n \notin holders[k]
        BY <4>1
      <4>3. k \in Short /\ n \in WriteSet(view, k) \ holders[k] /\ n \in Nodes
        BY <1>1, <2>1, <3>1, <4>1, <4>2
      <4>4. k \in jobs'[n].keys
        BY <2>4, <4>1, <4>3 DEF ToOwners
      <4> QED
        BY <4>4
    <3>4. round' >= 2 \/ pc' \in {"ref", "done"} => Rest(k) \subseteq holders[k]
      <4>1. pc' = "ref" => Rest(k) \subseteq holders[k]
        BY <2>1, <2>3
      <4>2. pc' # "done" /\ (round' >= 2 => round >= 2)
        BY <2>3
      <4> QED
        BY <1>3, <4>1, <4>2 DEF Spread
    <3>5. nego[k].st = "ask"
      BY <1>3, <1>16 DEF Spread, Check
    <3>6. holders[k] # {} => (Rest(k) \subseteq holders[k] /\ Rest(k) \subseteq Storing(k))
                              \/ (holders[k] = {Flaky} /\ round' < 2)
      BY <1>3, <2>3 DEF Spread, Named
    <3>7. Storing(k) \subseteq {Flaky} \/ Rest(k) \subseteq Storing(k)
      BY <1>3 DEF Spread
    <3> QED
      BY <3>1, <3>2, <3>3, <3>4, <3>5, <3>6, <3>7 DEF Spread, Named
  <2> QED
    BY <2>3, <2>5 DEF FlapInv
<1>17. CASE FillDone
  <2>1. /\ holders' = [k \in Keys |-> holders[k] \cup got[k]] /\ pc = "fill" /\ Sent
        /\ UNCHANGED <<held, nego, got, jobs>> /\ pc' = "negotiate"
    BY <1>17 DEF FillDone, Merged
  <2>2. ASSUME NEW k \in Keys PROVE Spread(k)'
    <3>1. Storing(k)' = Storing(k) /\ Rest(k)' = Rest(k) /\ Rest(k) # {} /\ Rest(k) \subseteq Nodes
      BY <2>1, Others DEF Storing, Rest, WriteSet
    <3>2. holders'[k] = holders[k] \cup got[k]
      BY <2>1
    <3>3. got[k] # {} => Rest(k) \subseteq got[k]
      BY <1>3 DEF Sure
    <3>4. Rest(k) \subseteq holders[k] \/ got[k] # {}
      BY <1>3, <2>1, <3>1 DEF Spread, Sent, Sending
    <3>5. Rest(k) \subseteq holders'[k]
      BY <3>2, <3>3, <3>4
    <3>6. Flaky \notin Rest(k)
      BY Others
    <3>7. (holders[k] # {} => Named(k, holders[k])) /\ (got[k] # {} => Rest(k) \subseteq Storing(k))
      BY <1>3 DEF Spread
    <3>8. Rest(k) \subseteq Storing(k)
      BY <3>1, <3>4, <3>6, <3>7 DEF Named
    <3>9. nego[k].st = "ask"
      BY <1>3, <2>1 DEF Spread
    <3> QED
      BY <2>1, <3>1, <3>5, <3>8, <3>9 DEF Spread, Named
  <2> QED
    BY <2>1, <2>2 DEF FlapInv
<1>18. CASE RefPut
  <2>1. pc = "ref"
    BY <1>18 DEF RefPut
  <2>2. ASSUME NEW k \in Keys PROVE Placed(cv, k, {n \in Storing(k) : Up(n)})
    <3>1. Rest(k) \subseteq Storing(k)
      <4>1. Rest(k) \subseteq holders[k] /\ (holders[k] # {} => Named(k, holders[k]))
        BY <1>3, <2>1 DEF Spread
      <4> QED
        BY <4>1, Others DEF Named
    <3>2. Rest(k) \subseteq {n \in Storing(k) : Up(n)} /\ Placed(1, k, Rest(k)) /\ 1 \in DOMAIN OwnersOf
      BY <3>1, Others, Constants
    <3> QED
      BY <1>1, <3>2, PlacedGrows
  <2>3. Complete
    BY <2>2 DEF Complete
  <2>4. pc' = "done" /\ UNCHANGED <<held, round, nego, got, holders, jobs>>
    BY <1>18, <2>3 DEF RefPut
  <2>5. ASSUME NEW k \in Keys PROVE Spread(k)'
    <3>1. Storing(k)' = Storing(k) /\ Rest(k)' = Rest(k)
      BY <2>4 DEF Storing, Rest, WriteSet
    <3> QED
      BY <1>3, <2>1, <2>4, <3>1 DEF Spread, Named
  <2> QED
    BY <2>4, <2>5 DEF FlapInv
<1>19. ~Renegotiated /\ ~ReputDone /\ ~RefillDone
    BY <1>3 DEF Renegotiated, ReputDone, RefillDone
<1> QED
    BY <1>1, <1>6, <1>7, <1>8, <1>9, <1>10, <1>11, <1>12, <1>13, <1>14, <1>15, <1>16, <1>17, <1>18, <1>19
       DEF QuietNext, FlapInv

-----------------------------------------------------------------------------
\* Flaky does not go down, and fewer objects are taken than the reference is
\* written times.
Steady == Quiet /\ flaps = 0 /\ reaps < RefAttempts

\* Who holds an object, answers, and will not lose it before the rounds end.
Firm(k) == {n \in WriteSet(1, k) : Up(n) /\ k \in held[n] /\ (Rounded \/ k \in pins[n])}

\* Every loss has had its renegotiation: none since the last one began.
Intact == Rounded => attempt = reaps

\* Whoever the push counts as holder then is one, still.
Sound(k) ==
    /\ nego[k].st = "asked" =>
        /\ nego[k].ans.typ = "short" => nego[k].ans.by \subseteq Firm(k)
        /\ nego[k].ans.typ = "everywhere" => WriteSet(1, k) \subseteq Firm(k)
    /\ nego[k].st = "held" => nego[k].by \subseteq Firm(k)
    /\ pc \in {"put", "fill", "reput", "refill"} => got[k] \subseteq Firm(k)
    /\ pc \notin {"ref", "renegotiate"} => holders[k] \subseteq Firm(k)
    /\ pc = "ref" => Placed(1, k, Firm(k))

\* What a fill sends reaches one of the others, and in the rounds after the
\* fill every object is known to be placed.
Filled(k) ==
    /\ pc \in {"fill", "refill"} =>
        Placed(1, k, holders[k]) \/ got[k] # {} \/ \E n \in Rest(k) : k \in jobs[n].keys
    /\ round >= 2 /\ pc \in {"negotiate", "put", "check"} =>
        /\ Placed(1, k, holders[k])
        /\ nego[k].st = "asked" /\ nego[k].ans.typ = "short" => Placed(1, k, nego[k].ans.by)
        /\ nego[k].st = "held" => Placed(1, k, nego[k].by)

ResentInv ==
    Steady => /\ pc # "failed"
              /\ attempt <= reaps
              /\ pc \in {"negotiate", "put", "check", "fill"} => attempt = 0
              /\ pc \in {"negotiate", "renegotiate"} \/ \A k \in Keys : nego[k].st = "ask"
              /\ pc # "done" => \A k \in Keys : (Intact => Sound(k)) /\ Filled(k)

-----------------------------------------------------------------------------
\* More that is firm, and what is sound stays sound.
LEMMA SoundKept ==
    ASSUME NEW k \in Keys, Sound(k), Firm(k) \subseteq Firm(k)', pc' = pc,
           nego'[k] = nego[k], got'[k] = got[k], holders'[k] = holders[k]
    PROVE  Sound(k)'
<1> DEFINE F == Firm(k)  G == Firm(k)'
<1>1. F \subseteq G /\ WriteSet(1, k)' = WriteSet(1, k)
    BY DEF WriteSet
<1>2. Placed(1, k, F) => Placed(1, k, G)
    BY <1>1, PlacedGrows, Constants
<1>4. /\ nego[k].st = "asked" =>
           /\ nego[k].ans.typ = "short" => nego[k].ans.by \subseteq F
           /\ nego[k].ans.typ = "everywhere" => WriteSet(1, k) \subseteq F
      /\ nego[k].st = "held" => nego[k].by \subseteq F
      /\ pc \in {"put", "fill", "reput", "refill"} => got[k] \subseteq F
      /\ pc \notin {"ref", "renegotiate"} => holders[k] \subseteq F
      /\ pc = "ref" => Placed(1, k, F)
    BY DEF Sound
<1>5. Placed(1, k, Firm(k))' <=> Placed(1, k, G)
    BY DEF Placed, Enough
<1>6. Firm(k)' = G
    OBVIOUS
<1> HIDE DEF F, G
<1> QED
    BY <1>1, <1>2, <1>4, <1>5, <1>6 DEF Sound

\* What a fill sends stays under way while no batch but Flaky's is dropped.
LEMMA FilledKept ==
    ASSUME NEW k \in Keys, Filled(k), pc' = pc, round' = round,
           nego'[k] = nego[k], got'[k] = got[k], holders'[k] = holders[k],
           \A n \in Rest(k) : jobs'[n] = jobs[n]
    PROVE  Filled(k)'
    BY DEF Filled, Rest, WriteSet, Placed, Enough

\* What is stored, kept and up only grows: so does what is firm.
LEMMA FirmGrows ==
    ASSUME NEW k \in Keys, WriteSet(1, k) \subseteq Nodes, Rounded => Rounded',
           \A n \in Nodes : Up(n) => Up(n)',
           \A n \in Nodes : k \in held[n] => k \in held'[n],
           \A n \in Nodes : k \in pins[n] => k \in pins'[n]
    PROVE  Firm(k) \subseteq Firm(k)'
    BY DEF Firm, WriteSet

\* Initially nothing is known of any object.
LEMMA ResentInvInit == ASSUME OthersSuffice PROVE Init => ResentInv
<1> SUFFICES ASSUME Init, NEW k \in Keys PROVE Sound(k) /\ Filled(k)
  <2>1. Init => /\ pc = "negotiate" /\ attempt = 0 /\ reaps = 0
    BY DEF Init
  <2> QED
    BY <2>1 DEF ResentInv
<1>1. nego[k].st = "ask" /\ got[k] = {} /\ holders[k] = {} /\ pc = "negotiate" /\ round = 0
    BY DEF Init, Unasked, Nobody
<1> QED
    BY <1>1 DEF Sound, Filled

\* Every step keeps it: a write is found incomplete only after a loss that has
\* not had its renegotiation.
LEMMA ResentInvStep ==
    ASSUME OthersSuffice, 3 <= Rounds, IInv, QuietInv, ResentInv, [Next]_vars
    PROVE  ResentInv'
<1> SUFFICES ASSUME Steady' PROVE ResentInv'
    BY DEF ResentInv
<1> USE DEF nodeVars, putVars, faultVars
<1>1. /\ Quiet /\ view = 1 /\ cv = 1 /\ cv' = 1 /\ Steady /\ flaps' = flaps /\ reaps \in Nat
      /\ QuietNext \/ UNCHANGED vars
  <2>1. /\ Quiet /\ view = 1 /\ cv' = cv
        /\ QuietNext \/ UNCHANGED vars
    BY Quietly DEF QuietInv, Steady
  <2>2. /\ reaps \in Nat /\ reaps' \in Nat /\ reaps <= reaps' /\ reaps' < RefAttempts
        /\ flaps \in Nat /\ flaps <= flaps' /\ flaps' = 0 /\ RefAttempts \in Nat
    BY CountersStep, Constants DEF QuietInv, Steady, Counters
  <2>3. reaps < RefAttempts /\ flaps = 0
    BY <2>2
  <2> QED
    BY <2>1, <2>2, <2>3 DEF Steady, Quiet
<1>2. /\ nego \in [Keys -> Nego] /\ jobs \in [Nodes -> [keys : SUBSET Keys, tries : 0..(PutAttempts - 1)]]
      /\ got \in [Keys -> SUBSET Nodes] /\ holders \in [Keys -> SUBSET Nodes] /\ round \in Nat
      /\ held \in [Nodes -> SUBSET Keys] /\ pins \in [Nodes -> SUBSET Keys]
      /\ Rounds \in Nat /\ RefAttempts \in Nat /\ attempt \in Nat
      /\ 1 \in DOMAIN OwnersOf
      /\ \A k \in Keys : WriteSet(1, k) \subseteq Nodes /\ OwnersOf[1][k] \subseteq WriteSet(1, k)
    BY Constants DEF IInv, TypeOK, OwnersIn
<1>3. /\ pc # "failed" /\ attempt <= reaps
      /\ pc \in {"negotiate", "put", "check", "fill"} => attempt = 0
      /\ pc \in {"negotiate", "renegotiate"} \/ \A k \in Keys : nego[k].st = "ask"
      /\ pc # "done" => \A k \in Keys : (Intact => Sound(k)) /\ Filled(k)
      /\ rejected = {} /\ \A k \in Keys : Sure(k)
    BY <1>1 DEF ResentInv, QuietInv
<1>4. ASSUME UNCHANGED <<nego, got, holders, jobs, pc, round, attempt, reaps>>,
             \A k \in Keys : Firm(k) \subseteq Firm(k)'
      PROVE  ResentInv'
  <2>1. Intact' = Intact
    BY <1>4 DEF Intact, Rounded
  <2>2. \A k \in Keys : Sound(k) => Sound(k)'
    BY <1>4, SoundKept
  <2>3. \A k \in Keys : Filled(k) => Filled(k)'
    BY <1>4, FilledKept
  <2> QED
    BY <1>3, <1>4, <2>1, <2>2, <2>3 DEF ResentInv
<1>5. ASSUME NEW k \in Keys, UNCHANGED <<held, down, got, holders, jobs, pc, round, attempt, reaps>>,
             pc \in {"negotiate", "renegotiate"},
             \A n \in Nodes : pins[n] \subseteq pins'[n],
             \A i \in Keys \ {k} : nego'[i] = nego[i],
             Intact => /\ nego'[k].st = "asked" =>
                            /\ nego'[k].ans.typ = "short" => nego'[k].ans.by \subseteq Firm(k)'
                            /\ nego'[k].ans.typ = "everywhere" => WriteSet(1, k) \subseteq Firm(k)'
                       /\ nego'[k].st = "held" => nego'[k].by \subseteq Firm(k)',
             round >= 2 /\ pc = "negotiate" =>
                /\ nego'[k].st = "asked" /\ nego'[k].ans.typ = "short" => Placed(1, k, nego'[k].ans.by)
                /\ nego'[k].st = "held" => Placed(1, k, nego'[k].by)
      PROVE  ResentInv'
  <2>1. Intact' = Intact
    BY <1>5 DEF Intact, Rounded
  <2>2. \A i \in Keys : Firm(i) \subseteq Firm(i)'
    BY <1>2, <1>5, FirmGrows DEF Up, Rounded
  <2>3. \A i \in Keys \ {k} : (Sound(i) => Sound(i)') /\ (Filled(i) => Filled(i)')
    BY <1>5, <2>2, SoundKept, FilledKept
  <2>4. Intact => Sound(k)'
    <3> SUFFICES ASSUME Intact PROVE Sound(k)'
      OBVIOUS
    <3>1. holders[k] \subseteq Firm(k) \/ pc = "renegotiate"
      BY <1>3, <1>5 DEF Sound
    <3>2. WriteSet(1, k)' = WriteSet(1, k)
      BY DEF WriteSet
    <3>3. holders'[k] \subseteq Firm(k)' \/ pc = "renegotiate"
      BY <1>5, <2>2, <3>1
    <3> QED
      BY <1>5, <3>2, <3>3 DEF Sound
  <2>5. Filled(k)'
    <3>1. Filled(k)
      BY <1>3, <1>5
    <3> QED
      BY <1>5, <3>1 DEF Filled, Placed, Enough
  <2> QED
    BY <1>3, <1>5, <2>1, <2>3, <2>4, <2>5 DEF ResentInv
<1>6. CASE ComeUp \/ UNCHANGED vars
  <2>1. UNCHANGED <<held, pins, nego, got, holders, jobs, pc, round, attempt, reaps>>
        /\ \A n \in Nodes : Up(n) => Up(n)'
    BY <1>6 DEF ComeUp, vars, Up
  <2>2. \A k \in Keys : Firm(k) \subseteq Firm(k)'
    BY <1>2, <2>1, FirmGrows DEF Rounded
  <2> QED
    BY <1>4, <2>1, <2>2
<1>7. ~GoDown /\ \A n \in Nodes : ~PutLost(n)
  <2>1. flaps = 0 /\ flaps' = 0
    BY <1>1 DEF Steady
  <2> QED
    BY <2>1 DEF GoDown, PutLost
<1>8. ASSUME NEW k \in Keys, NEW where \in SUBSET Nodes, Reap(k, where)
      PROVE  ResentInv'
  <2>1. UNCHANGED <<down, nego, got, holders, jobs, pc, round, attempt>> /\ reaps' = reaps + 1
    BY <1>8 DEF Reap
  <2>2. \A i \in Keys : Filled(i) => Filled(i)'
    BY <2>1, FilledKept
  <2>3. CASE Rounded
    <3>1. ~Intact'
      BY <1>2, <1>1, <1>3, <2>1, <2>3 DEF Intact, Rounded
    <3> QED
      BY <1>1, <1>2, <1>3, <2>1, <2>2, <3>1 DEF ResentInv
  <2>4. CASE ~Rounded
    <3>1. ASSUME NEW i \in Keys, NEW n \in Firm(i) PROVE n \in Firm(i)'
      <4>1. n \in WriteSet(1, i) /\ n \in Nodes /\ Up(n) /\ i \in held[n] /\ i \in pins[n]
        BY <1>2, <2>4 DEF Firm
      <4>2. i \in held'[n] /\ i \in pins'[n]
        BY <1>8, <2>4, <4>1 DEF Reap
      <4> QED
        BY <2>1, <4>1, <4>2 DEF Firm, Up, WriteSet
    <3>2. \A i \in Keys : Sound(i) => Sound(i)'
      BY <2>1, <3>1, SoundKept
    <3>3. Intact /\ attempt <= reaps'
      BY <1>1, <1>2, <1>3, <2>1, <2>4 DEF Intact
    <3> QED
      BY <1>3, <2>1, <2>2, <3>2, <3>3 DEF ResentInv
  <2> QED
    BY <2>3, <2>4
<1>9. ASSUME NEW k \in Keys, NEW p \in Nodes, Ask(k, p)
      PROVE  ResentInv'
  <2>1. /\ UNCHANGED <<held, down, got, holders, jobs, pc, round, attempt, reaps>>
        /\ pc \in {"negotiate", "renegotiate"} /\ pins' = Pinned(k, Seen(p, k))
        /\ \A i \in Keys \ {k} : nego'[i] = nego[i]
        /\ nego'[k].st = "asked" /\ nego'[k].ans = Answer(p, k)
        /\ p \in OwnersIn(view, k) /\ p \in OwnersOf[1][k] /\ Up(p)
    BY <1>1, <1>2, <1>9 DEF Ask, Asking, OwnersIn
  <2>2. \A n \in Nodes : pins[n] \subseteq pins'[n]
    BY <1>2, <2>1 DEF Pinned
  <2>3. Seen(p, k) \subseteq Firm(k)'
    <3>1. ASSUME NEW n \in Seen(p, k)
          PROVE  n \in WriteSet(1, k) /\ n \in Nodes /\ Up(n) /\ k \in held[n]
      BY <1>1, <1>2, <2>1, <3>1 DEF Seen
    <3>2. ASSUME NEW n \in Seen(p, k) PROVE k \in pins'[n]
      BY <2>1, <3>1, <3>2 DEF Pinned
    <3> QED
      BY <2>1, <3>1, <3>2 DEF Firm, Up, WriteSet
  <2>4. Answer(p, k).typ = "short" => Answer(p, k).by = Seen(p, k) /\ k \in held[p]
    <3>1. CASE Seen(p, k) = {}
      <4>1. Cardinality({}) = 0
        BY FS_EmptySet
      <4> QED
        BY <3>1, <4>1 DEF Answer
    <3>2. CASE Seen(p, k) # {}
      BY <3>2 DEF Answer, Seen
    <3> QED
      BY <3>1, <3>2
  <2>5. Answer(p, k).typ = "everywhere" => WriteSet(1, k) \subseteq Firm(k)'
    <3>1. Answer(p, k).typ = "everywhere" => Seen(p, k) = WriteSet(1, k)
      BY <1>1, <2>1, EverywhereSeen
    <3> QED
      BY <2>3, <3>1
  <2>6. ASSUME round >= 2, pc = "negotiate", k \in held[p]
        PROVE  Placed(1, k, Seen(p, k))
    <3>1. Intact
      BY <2>6 DEF Intact, Rounded
    <3>2. Placed(1, k, holders[k]) /\ holders[k] \subseteq Firm(k)
      BY <1>3, <2>6, <3>1 DEF Sound, Filled
    <3>3. Firm(k) \subseteq Seen(p, k)
      BY <1>1, <2>6 DEF Firm, Seen
    <3>4. holders[k] \subseteq Seen(p, k)
      BY <3>2, <3>3
    <3> QED
      BY <1>2, <3>2, <3>4, PlacedGrows
  <2>7. Intact => /\ nego'[k].st = "asked" =>
                       /\ nego'[k].ans.typ = "short" => nego'[k].ans.by \subseteq Firm(k)'
                       /\ nego'[k].ans.typ = "everywhere" => WriteSet(1, k) \subseteq Firm(k)'
                  /\ nego'[k].st = "held" => nego'[k].by \subseteq Firm(k)'
    BY <2>1, <2>3, <2>4, <2>5
  <2>8. round >= 2 /\ pc = "negotiate" =>
            /\ nego'[k].st = "asked" /\ nego'[k].ans.typ = "short" => Placed(1, k, nego'[k].ans.by)
            /\ nego'[k].st = "held" => Placed(1, k, nego'[k].by)
    BY <2>1, <2>4, <2>6
  <2> QED
    BY <1>5, <2>1, <2>2, <2>7, <2>8
<1>10. ASSUME NEW k \in Keys, (\E p \in Nodes : AskFails(k, p)) \/ AnswerLost(k)
       PROVE  ResentInv'
  <2>1. /\ UNCHANGED <<held, down, pins, got, holders, jobs, pc, round, attempt, reaps>>
        /\ \A i \in Keys \ {k} : nego'[i] = nego[i]
        /\ nego'[k].st = "ask"
    BY <1>2, <1>10 DEF AskFails, AnswerLost
  <2>2. pc \in {"negotiate", "renegotiate"}
    BY <1>3, <1>10 DEF AskFails, AnswerLost, Asking
  <2> QED
    BY <1>5, <2>1, <2>2
<1>11. ASSUME NEW k \in Keys, NoOwnerLeft(k) PROVE FALSE
  <2>1. nego[k].st = "ask" /\ OwnersOf[1][k] \subseteq nego[k].tried
    BY <1>1, <1>11 DEF NoOwnerLeft, Asking, OwnersIn
  <2> QED
    BY <1>3, <2>1, Others DEF Sure
<1>12. ASSUME NEW k \in Keys, Answered(k)
       PROVE  ResentInv'
  <2>1. UNCHANGED <<held, down, pins, got, holders, jobs, pc, round, attempt, reaps>>
        /\ \A i \in Keys \ {k} : nego'[i] = nego[i]
    BY <1>2, <1>12 DEF Answered
  <2>2. nego[k].st = "asked" /\ nego[k].ans.typ \in {"lacks", "short", "everywhere"}
    BY <1>2, <1>12, NegoStages DEF Answered, IInv
  <2>3. \/ nego'[k].st = "lacking"
        \/ nego'[k].st = "held" /\ nego[k].ans.typ = "short" /\ nego'[k].by = nego[k].ans.by
        \/ nego'[k].st = "held" /\ nego[k].ans.typ = "everywhere" /\ nego'[k].by = WriteSet(1, k)
    BY <1>1, <1>2, <1>12, <2>2 DEF Answered
  <2>4. pc \in {"negotiate", "renegotiate"}
    BY <1>3, <2>2
  <2>5. Firm(k)' = Firm(k)
    BY <2>1 DEF Firm, WriteSet, Up, Rounded
  <2>6. /\ Intact => /\ nego[k].ans.typ = "short" => nego[k].ans.by \subseteq Firm(k)
                     /\ nego[k].ans.typ = "everywhere" => WriteSet(1, k) \subseteq Firm(k)
        /\ round >= 2 /\ pc = "negotiate" /\ nego[k].ans.typ = "short" => Placed(1, k, nego[k].ans.by)
    BY <1>3, <2>2, <2>4 DEF Sound, Filled
  <2>7. Placed(1, k, WriteSet(1, k))
    BY <1>2, Others, PlacedGrows
  <2>8. Intact => /\ nego'[k].st # "asked"
                  /\ nego'[k].st = "held" => nego'[k].by \subseteq Firm(k)'
    BY <2>3, <2>5, <2>6
  <2>9. round >= 2 /\ pc = "negotiate" => (nego'[k].st = "held" => Placed(1, k, nego'[k].by))
    BY <2>3, <2>6, <2>7
  <2>10. nego'[k].st # "asked"
    BY <2>3
  <2> QED
    BY <1>5, <2>1, <2>4, <2>8, <2>9, <2>10
<1>13. ASSUME NEW n \in Nodes, PutStores(n)
       PROVE  ResentInv'
  <2>1. UNCHANGED <<down, nego, holders, pc, round, attempt, reaps>> /\ Up(n) /\ Stored(n, {})
    BY <1>13 DEF PutStores, PutReply
  <2>2. /\ held' = [o \in Nodes |-> held[o] \cup {k \in Accepted(n) : o \in Forwarded(n, k, {})}]
        /\ pins' = [o \in Nodes |-> pins[o] \cup {k \in Accepted(n) : o \in Forwarded(n, k, {})}]
    BY <2>1 DEF Stored
  <2>3. \A k \in Keys : Firm(k) \subseteq Firm(k)'
    <3> SUFFICES ASSUME NEW k \in Keys PROVE Firm(k) \subseteq Firm(k)'
      OBVIOUS
    <3>1. \A o \in Nodes : (k \in held[o] => k \in held'[o]) /\ (k \in pins[o] => k \in pins'[o])
      BY <2>2
    <3> QED
      BY <1>2, <2>1, <3>1, FirmGrows DEF Up, Rounded
  <2>4. ASSUME NEW k \in Accepted(n) PROVE k \in Keys /\ Forwarded(n, k, {}) \subseteq Firm(k)'
    <3>1. k \in Keys /\ n \in WriteSet(1, k)
      BY <1>1, <1>2, <2>4 DEF Accepted
    <3>2. ASSUME NEW o \in Forwarded(n, k, {})
          PROVE  o \in Nodes /\ o \in WriteSet(1, k) /\ Up(o)
      BY <1>1, <1>2, <2>1, <3>1, <3>2 DEF Forwarded
    <3>3. ASSUME NEW o \in Forwarded(n, k, {}) PROVE k \in held'[o] /\ k \in pins'[o]
      BY <2>2, <2>4, <3>2, <3>3
    <3> QED
      BY <2>1, <3>1, <3>2, <3>3 DEF Firm, Up, WriteSet
  <2>5. Accepted(n) = jobs[n].keys
    BY <1>1, <1>2, <1>3 DEF Accepted, Sure
  <2>6. Intact' = Intact
    BY <2>1 DEF Intact, Rounded
  <2>7. ASSUME NEW k \in Keys PROVE Sound(k) => Sound(k)'
    <3>1. CASE k \notin Accepted(n)
      <4>1. got'[k] = got[k]
        BY <1>13, <3>1 DEF PutStores, PutReply
      <4> QED
        BY <2>1, <2>3, <4>1, SoundKept
    <3>2. CASE k \in Accepted(n)
      <4> SUFFICES ASSUME Sound(k) PROVE Sound(k)'
        OBVIOUS
      <4>1. got'[k] \subseteq Firm(k)'
        BY <1>13, <2>4, <3>2 DEF PutStores, PutReply
      <4>2. Firm(k) \subseteq Firm(k)' /\ WriteSet(1, k)' = WriteSet(1, k)
        BY <2>3 DEF WriteSet
      <4>3. Placed(1, k, Firm(k)) => Placed(1, k, Firm(k))'
        <5>1. Placed(1, k, Firm(k)) => Placed(1, k, Firm(k)')
          BY <1>2, <4>2, PlacedGrows
        <5> QED
          BY <5>1 DEF Placed, Enough
      <4>4. /\ nego[k].st = "asked" =>
                /\ nego[k].ans.typ = "short" => nego[k].ans.by \subseteq Firm(k)
                /\ nego[k].ans.typ = "everywhere" => WriteSet(1, k) \subseteq Firm(k)
            /\ nego[k].st = "held" => nego[k].by \subseteq Firm(k)
            /\ pc \notin {"ref", "renegotiate"} => holders[k] \subseteq Firm(k)
            /\ pc = "ref" => Placed(1, k, Firm(k))
        BY DEF Sound
      <4>5. /\ nego[k].st = "asked" =>
                /\ nego[k].ans.typ = "short" => nego[k].ans.by \subseteq Firm(k)'
                /\ nego[k].ans.typ = "everywhere" => WriteSet(1, k) \subseteq Firm(k)'
            /\ nego[k].st = "held" => nego[k].by \subseteq Firm(k)'
            /\ pc \notin {"ref", "renegotiate"} => holders[k] \subseteq Firm(k)'
            /\ pc = "ref" => Placed(1, k, Firm(k))'
        BY <4>2, <4>3, <4>4
      <4> QED
        BY <2>1, <4>1, <4>2, <4>5 DEF Sound
    <3> QED
      BY <3>1, <3>2
  <2>8. ASSUME NEW k \in Keys PROVE Filled(k) => Filled(k)'
    <3>1. CASE k \notin Accepted(n)
      <4>1. got'[k] = got[k]
        BY <1>13, <3>1 DEF PutStores, PutReply
      <4>2. \A o \in Nodes : k \in jobs[o].keys => k \in jobs'[o].keys
        BY <1>2, <1>13, <2>5, <3>1 DEF PutStores, PutReply
      <4>3. Rest(k)' = Rest(k) /\ Rest(k) \subseteq Nodes
        BY Others DEF Rest, WriteSet
      <4> QED
        BY <2>1, <4>1, <4>2, <4>3 DEF Filled, Placed, Enough
    <3>2. CASE k \in Accepted(n)
      <4>1. got'[k] # {}
        BY <1>13, <3>2 DEF PutStores, PutReply, Forwarded
      <4> QED
        BY <2>1, <4>1 DEF Filled, Placed, Enough
    <3> QED
      BY <3>1, <3>2
  <2> QED
    BY <1>3, <2>1, <2>6, <2>7, <2>8 DEF ResentInv
<1>14. ASSUME NEW n \in Nodes, PutUnreachable(n)
       PROVE  ResentInv'
  <2>1. UNCHANGED <<held, pins, down, nego, got, holders, pc, round, attempt, reaps>>
        /\ jobs' = [jobs EXCEPT ![n] = NoJob] /\ n = Flaky
    BY <1>14 DEF PutUnreachable, Up
  <2>2. \A k \in Keys : Firm(k) \subseteq Firm(k)'
    BY <2>1 DEF Firm, Up, WriteSet, Rounded
  <2>3. \A k \in Keys : Sound(k) => Sound(k)'
    BY <2>1, <2>2, SoundKept
  <2>4. ASSUME NEW k \in Keys PROVE Filled(k) => Filled(k)'
    <3>1. \A o \in Rest(k) : jobs'[o] = jobs[o]
      BY <1>2, <2>1, Others DEF Rest
    <3> QED
      BY <2>1, <3>1, FilledKept
  <2>5. Intact' = Intact
    BY <2>1 DEF Intact, Rounded
  <2> QED
    BY <1>3, <2>1, <2>3, <2>4, <2>5 DEF ResentInv
<1>15. CASE Negotiated \/ Renegotiated
  <2>1. /\ \A k \in Keys : /\ nego[k].st = "held" => holders'[k] = nego[k].by
                           /\ nego[k].st # "held" =>
                               holders'[k] = {} \/ (pc = "negotiate" /\ holders'[k] = holders[k])
                           /\ nego'[k].st = "ask" /\ got'[k] = {}
        /\ UNCHANGED <<held, pins, down, round, attempt, reaps>>
        /\ pc \in {"negotiate", "renegotiate"}
    BY <1>15 DEF Negotiated, Renegotiated, StartPut, Nobody, Unasked
  <2>2. IF pc = "negotiate" THEN pc' \in {"put", "check"} ELSE pc' = "reput"
    BY <1>3, <1>15 DEF Negotiated, Renegotiated, Sure
  <2>3. pc = "negotiate" =>
            \A k \in Keys : nego[k].st # "held" => holders'[k] = holders[k]
    BY <1>15 DEF Negotiated, Renegotiated
  <2>4. Intact' = Intact
    BY <2>1, <2>2 DEF Intact, Rounded
  <2>5. ASSUME NEW k \in Keys PROVE Firm(k)' = Firm(k)
    BY <2>1, <2>2 DEF Firm, WriteSet, Up, Rounded
  <2>6. ASSUME Intact, NEW k \in Keys PROVE Sound(k)'
    <3>1. Sound(k)
      BY <1>3, <2>1, <2>6
    <3>2. holders'[k] \subseteq Firm(k)
      BY <2>1, <3>1 DEF Sound
    <3> QED
      BY <2>1, <2>2, <2>5, <3>2 DEF Sound
  <2>7. ASSUME NEW k \in Keys PROVE Filled(k)'
    <3>1. Filled(k)
      BY <1>3, <2>1
    <3>2. round >= 2 /\ pc = "negotiate" => Placed(1, k, holders'[k])
      BY <2>1, <2>3, <3>1 DEF Filled
    <3> QED
      BY <2>1, <2>2, <3>2 DEF Filled, Placed, Enough
  <2> QED
    BY <1>3, <2>1, <2>2, <2>4, <2>6, <2>7 DEF ResentInv
<1>16. CASE PutDone
  <2>1. /\ \A k \in Keys : holders'[k] = IF got[k] = {} THEN holders[k] ELSE got[k]
        /\ UNCHANGED <<held, pins, down, round, attempt, reaps, nego, got, jobs>>
        /\ pc' = "check" /\ pc = "put"
    BY <1>3, <1>16 DEF PutDone
  <2>2. ASSUME NEW k \in Keys PROVE Firm(k)' = Firm(k)
    BY <2>1 DEF Firm, WriteSet, Up, Rounded
  <2>3. ASSUME NEW k \in Keys PROVE Sound(k)' /\ Filled(k)'
    <3>1. Sound(k) /\ Filled(k) /\ nego[k].st = "ask"
      BY <1>3, <2>1 DEF Intact, Rounded
    <3>2. Sound(k)'
      BY <2>1, <2>2, <3>1 DEF Sound
    <3>3. got[k] # {} => Placed(1, k, got[k])
      BY <1>2, <1>3, Others, PlacedGrows DEF Sure
    <3>4. round >= 2 => Placed(1, k, holders'[k])
      BY <2>1, <3>1, <3>3 DEF Filled
    <3> QED
      BY <2>1, <3>1, <3>2, <3>4 DEF Filled, Placed, Enough
  <2> QED
    BY <1>3, <2>1, <2>3 DEF ResentInv
<1>17. \A k \in Keys : k \notin Short <=> Placed(1, k, holders[k])
    BY <1>1 DEF Short
<1>18. ASSUME NEW k \in Keys, jobs' = ToOwners(Short)
       PROVE  Placed(1, k, holders[k]) \/ \E n \in Rest(k) : k \in jobs'[n].keys
  <2>1. CASE k \in Short
    <3>1. ~(Rest(k) \subseteq holders[k])
      BY <1>2, <1>17, <2>1, Others, PlacedGrows
    <3>2. PICK n \in Rest(k) : n \notin holders[k]
      BY <3>1
    <3>3. n \in Nodes /\ n \in WriteSet(view, k)
      BY <1>1, Others
    <3>4. k \in jobs'[n].keys
      BY <1>18, <2>1, <3>2, <3>3 DEF ToOwners
    <3> QED
      BY <3>4
  <2> QED
    BY <1>17, <2>1
<1>19. CASE Check
  <2>1. /\ UNCHANGED <<held, pins, down, attempt, reaps, nego, holders>> /\ got' = Nobody
        /\ pc = "check" /\ (pc' = "fill" => jobs' = ToOwners(Short))
    BY <1>19 DEF Check, StartPut
  <2>2. Intact /\ \A k \in Keys : Sound(k) /\ Filled(k) /\ nego[k].st = "ask"
    BY <1>3, <2>1 DEF Intact, Rounded
  <2>3. round >= 2 => Short = {}
    BY <1>17, <2>1, <2>2 DEF Filled, Short
  <2>4. \/ pc' = "ref" /\ Short = {} /\ round' = round
        \/ pc' = "fill" /\ round' = round
        \/ pc' = "negotiate" /\ round' = 1
    <3>1. CASE Short = {}
      BY <1>19, <3>1 DEF Check
    <3>2. CASE Short # {}
      <4>1. round < 2 /\ round # Rounds - 1
        BY <1>2, <2>3, <3>2
      <4>2. CASE round = 1
        <5>1. round < Rounds - 1
          BY <1>2, <4>2
        <5>2. pc' = "fill"
          BY <1>19, <3>2, <4>1, <4>2, <5>1 DEF Check
        <5> QED
          BY <1>19, <5>2 DEF Check
      <4>3. CASE round # 1
        <5>1. round = 0
          BY <1>2, <4>1, <4>3
        <5>2. pc' = "negotiate"
          BY <1>19, <3>2, <4>1, <4>3 DEF Check
        <5> QED
          BY <1>19, <5>1, <5>2 DEF Check
      <4> QED
        BY <4>2, <4>3
    <3> QED
      BY <3>1, <3>2
  <2>5. ASSUME NEW k \in Keys PROVE Firm(k) \subseteq Firm(k)'
    BY <2>1 DEF Firm, WriteSet, Up, Rounded
  <2>6. ASSUME NEW k \in Keys PROVE Sound(k)'
    <3>1. holders[k] \subseteq Firm(k)' /\ got'[k] = {}
      BY <2>1, <2>2, <2>5 DEF Sound, Nobody
    <3>2. pc' = "ref" => Placed(1, k, Firm(k)')
      BY <1>2, <1>17, <2>4, <3>1, PlacedGrows
    <3>3. pc' = "ref" => Placed(1, k, Firm(k))'
      BY <3>2 DEF Placed, Enough
    <3> QED
      BY <2>1, <2>2, <3>1, <3>3 DEF Sound
  <2>7. ASSUME NEW k \in Keys PROVE Filled(k)'
    <3>1. pc' = "fill" => Placed(1, k, holders[k]) \/ \E n \in Rest(k) : k \in jobs'[n].keys
      BY <1>18, <2>1
    <3>2. Rest(k)' = Rest(k)
      BY DEF Rest, WriteSet
    <3> QED
      BY <2>1, <2>4, <3>1, <3>2 DEF Filled, Placed, Enough
  <2> QED
    BY <1>3, <2>1, <2>2, <2>4, <2>6, <2>7 DEF ResentInv
<1>20. ASSUME pc \in {"fill", "refill"}, Sent, NEW k \in Keys
       PROVE  /\ Placed(1, k, holders[k] \cup got[k])
              /\ Intact => holders[k] \cup got[k] \subseteq Firm(k)
  <2>1. Filled(k) /\ Rest(k) \subseteq Nodes
    BY <1>3, <1>20, Others
  <2>2. Placed(1, k, holders[k]) \/ got[k] # {}
    BY <1>20, <2>1 DEF Filled, Sent, Sending
  <2>3. Placed(1, k, holders[k] \cup got[k])
    <3>1. CASE Placed(1, k, holders[k])
      BY <1>2, <3>1, PlacedGrows
    <3>2. CASE got[k] # {}
      <4>1. Rest(k) \subseteq holders[k] \cup got[k] /\ Placed(1, k, Rest(k))
        BY <1>3, <3>2, Others DEF Sure
      <4> QED
        BY <1>2, <4>1, PlacedGrows
    <3> QED
      BY <2>2, <3>1, <3>2
  <2>4. Intact => holders[k] \cup got[k] \subseteq Firm(k)
    BY <1>3, <1>20 DEF Sound
  <2> QED
    BY <2>3, <2>4
<1>21. CASE FillDone
  <2>1. /\ UNCHANGED <<held, pins, down, attempt, reaps, nego, got, jobs>> /\ Sent
        /\ pc = "fill" /\ pc' = "negotiate"
        /\ \A k \in Keys : holders'[k] = holders[k] \cup got[k]
    BY <1>21 DEF FillDone, Merged
  <2>2. ASSUME NEW k \in Keys PROVE Sound(k)' /\ Filled(k)'
    <3>1. Placed(1, k, holders'[k]) /\ holders'[k] \subseteq Firm(k) /\ nego[k].st = "ask"
      BY <1>3, <1>20, <2>1 DEF Intact, Rounded
    <3>2. Firm(k)' = Firm(k)
      BY <2>1 DEF Firm, WriteSet, Up, Rounded
    <3> QED
      BY <2>1, <3>1, <3>2 DEF Sound, Filled, Placed, Enough
  <2> QED
    BY <1>3, <2>1, <2>2 DEF ResentInv
<1>22. CASE RefillDone
  <2>1. /\ UNCHANGED <<held, pins, down, attempt, reaps, nego, got, jobs, round>> /\ Sent
        /\ pc = "refill" /\ pc' = "ref"
    BY <1>22 DEF RefillDone
  <2>2. ASSUME NEW k \in Keys PROVE (Intact => Sound(k)') /\ Filled(k)'
    <3>1. Intact => Placed(1, k, Firm(k))
      BY <1>2, <1>20, <2>1, PlacedGrows
    <3>2. Firm(k)' = Firm(k) /\ nego[k].st = "ask"
      BY <1>3, <2>1 DEF Firm, WriteSet, Up, Rounded
    <3>3. Intact => Placed(1, k, Firm(k))'
      BY <3>1, <3>2 DEF Placed, Enough
    <3> QED
      BY <2>1, <3>2, <3>3 DEF Sound, Filled
  <2>3. Intact' = Intact
    BY <2>1 DEF Intact, Rounded
  <2> QED
    BY <1>3, <2>1, <2>2, <2>3 DEF ResentInv
<1>23. CASE ReputDone
  <2>1. /\ UNCHANGED <<held, pins, down, attempt, reaps, nego, holders, round>> /\ got' = Nobody
        /\ pc = "reput" /\ pc' = (IF Short = {} THEN "ref" ELSE "refill") /\ jobs' = ToOwners(Short)
    BY <1>23 DEF ReputDone, StartPut
  <2>2. Intact' = Intact
    BY <2>1 DEF Intact, Rounded
  <2>3. ASSUME NEW k \in Keys PROVE (Intact => Sound(k)') /\ Filled(k)'
    <3>1. Firm(k)' = Firm(k) /\ nego[k].st = "ask" /\ got'[k] = {} /\ Rest(k)' = Rest(k)
      BY <1>3, <2>1 DEF Firm, WriteSet, Up, Rounded, Nobody, Rest
    <3>2. Intact => holders[k] \subseteq Firm(k)
      BY <1>3, <2>1 DEF Sound
    <3>3. Intact /\ pc' = "ref" => Placed(1, k, Firm(k))
      BY <1>2, <1>17, <2>1, <3>2, PlacedGrows
    <3>4. Intact /\ pc' = "ref" => Placed(1, k, Firm(k))'
      BY <3>1, <3>3 DEF Placed, Enough
    <3>5. Placed(1, k, holders[k]) \/ \E n \in Rest(k) : k \in jobs'[n].keys
      BY <1>18, <2>1
    <3>6. Intact => Sound(k)'
      BY <2>1, <3>1, <3>2, <3>4 DEF Sound
    <3> QED
      BY <2>1, <3>1, <3>5, <3>6 DEF Filled, Placed, Enough
  <2> QED
    BY <1>3, <2>1, <2>2, <2>3 DEF ResentInv
<1>24. CASE RefPut
  <2>1. pc = "ref" /\ UNCHANGED <<held, pins, down, reaps, nego, holders, round, got, jobs>>
        /\ \A k \in Keys : nego'[k].st = "ask"
    BY <1>3, <1>24 DEF RefPut
  <2>2. CASE Complete
    <3>1. pc' = "done" /\ attempt' = attempt
      BY <1>24, <2>2 DEF RefPut
    <3> QED
      BY <1>3, <2>1, <3>1 DEF ResentInv
  <2>3. CASE ~Complete
    <3>1. ~Intact
      <4> SUFFICES ASSUME Intact, NEW k \in Keys PROVE Placed(cv, k, {n \in Storing(k) : Up(n)})
        BY <2>3 DEF Complete
      <4>1. Placed(1, k, Firm(k))
        BY <1>3, <2>1 DEF Sound
      <4>2. Firm(k) \subseteq {n \in Storing(k) : Up(n)}
        BY <1>2 DEF Firm, Storing
      <4> QED
        BY <1>1, <1>2, <4>1, <4>2, PlacedGrows
    <3>2. attempt < reaps /\ reaps < RefAttempts
      BY <1>1, <1>2, <1>3, <3>1 DEF Intact, Steady
    <3>3. attempt # RefAttempts - 1 /\ attempt + 1 <= reaps
      BY <1>1, <1>2, <3>2
    <3>4. pc' = "renegotiate"
      BY <1>24, <2>3, <3>3 DEF RefPut
    <3>5. attempt' = attempt + 1
      BY <1>24, <3>4 DEF RefPut
    <3>6. \A k \in Keys : Sound(k)' /\ Filled(k)'
      BY <2>1, <3>4 DEF Sound, Filled
    <3> QED
      BY <2>1, <3>3, <3>4, <3>5, <3>6 DEF ResentInv
  <2> QED
    BY <2>2, <2>3
<1> QED
    BY <1>1, <1>6, <1>7, <1>8, <1>9, <1>10, <1>11, <1>12, <1>13, <1>14, <1>15, <1>16, <1>19, <1>21,
       <1>22, <1>23, <1>24
       DEF QuietNext

-----------------------------------------------------------------------------
\* The quiet part of the push, for every behaviour.
LEMMA SpecQuietInv == ASSUME OthersSuffice PROVE Spec => []QuietInv
<1>1. IInv /\ QuietInv /\ [Next]_vars => QuietInv'
    BY QuietInvStep
<1> QED
    BY <1>1, QuietInvInit, SpecIInv, PTL DEF Spec

\* One node that goes down and comes back, dies half-way through a put with
\* records stored nowhere else, and loses replies, any number of times never
\* fails a push of objects that were at all their owners or nowhere, as long
\* as the other owners are enough, min_replicas is at least two (with one,
\* a record only that node stores is acknowledged, and the completeness gate
\* may find it gone) and there are three rounds.
THEOREM PushOneNodeMayFlap ==
    ASSUME OthersSuffice, MinReplicas >= 2, 3 <= Rounds
    PROVE  Spec => []OneNodeMayFlap
<1>1. IInv /\ QuietInv /\ FlapInv /\ [Next]_vars => FlapInv'
    BY FlapInvStep
<1>2. Init => FlapInv
    BY FlapInvInit
<1>3. FlapInv => OneNodeMayFlap
    BY DEF FlapInv, OneNodeMayFlap, Calm, Quiet
<1> QED
    BY <1>1, <1>2, <1>3, SpecIInv, SpecQuietInv, PTL DEF Spec

\* Fewer losses of objects than writes of the reference never fail a push,
\* whatever was stored before and whether or not Flaky is there from the start.
THEOREM PushReapedIsResent ==
    ASSUME OthersSuffice, 3 <= Rounds
    PROVE  Spec => []ReapedIsResent
<1>1. IInv /\ QuietInv /\ ResentInv /\ [Next]_vars => ResentInv'
    BY ResentInvStep
<1>2. Init => ResentInv
    BY ResentInvInit
<1>3. ResentInv => ReapedIsResent
    BY DEF ResentInv, ReapedIsResent, Steady, Quiet
<1> QED
    BY <1>1, <1>2, <1>3, SpecIInv, SpecQuietInv, PTL DEF Spec

-----------------------------------------------------------------------------
(***************************************************************************)
(* Where the objects go: Placement.                                        *)
(*                                                                         *)
(* Of a key's nodes with a weight, in the order of their scores, Chosen    *)
(* are the r highest among the best of each zone.  What a change of one    *)
(* node does to the chosen ones are facts about two orders that differ in  *)
(* that node.  Then the code's way to the owners leads to the chosen ones: *)
(* there is a rank, which numbers every node by how many are higher, and   *)
(* to go down the rank and take one per zone takes the chosen ones.  The   *)
(* recursive functions that Placement defines exist by induction, which is *)
(* the argument of the least counterexample here.                          *)
(***************************************************************************)
\* A strict total order on S, as a set of pairs.
Orders(gt, S) ==
    /\ \A a \in S : <<a, a>> \notin gt
    /\ \A a, b \in S : a # b => <<a, b>> \in gt \/ <<b, a>> \in gt
    /\ \A a, b, c \in S : <<a, b>> \in gt /\ <<b, c>> \in gt => <<a, c>> \in gt

Higher(S, gt, i) == {j \in S : <<j, i>> \in gt}

\* To count who is higher numbers S from 0 on.
LEMMA HigherCounts ==
    ASSUME NEW S, IsFiniteSet(S), NEW gt, Orders(gt, S)
    PROVE  LET c == [i \in S |-> Cardinality(Higher(S, gt, i))]
           IN  /\ c \in Bijection(S, 0..(Cardinality(S) - 1))
               /\ \A i, j \in S : <<i, j>> \in gt <=> c[i] < c[j]
<1> DEFINE c == [i \in S |-> Cardinality(Higher(S, gt, i))]
<1>1. \A i \in S : /\ IsFiniteSet(Higher(S, gt, i)) /\ c[i] \in Nat
                   /\ Higher(S, gt, i) \subseteq S \ {i}
  <2> TAKE i \in S
  <2>1. Higher(S, gt, i) \subseteq S \ {i}
    BY DEF Higher, Orders
  <2>2. IsFiniteSet(Higher(S, gt, i))
    BY <2>1, FS_Subset, Higher(S, gt, i) \in SUBSET S
  <2> QED
    BY <2>1, <2>2, FS_CardinalityType
<1>2. Cardinality(S) \in Nat
    BY FS_CardinalityType
<1>3. \A i \in S : c[i] \in 0..(Cardinality(S) - 1)
  <2> TAKE i \in S
  <2>1. IsFiniteSet(S \ {i}) /\ Cardinality(S \ {i}) = Cardinality(S) - 1
    BY FS_RemoveElement
  <2>2. Cardinality(Higher(S, gt, i)) <= Cardinality(S \ {i})
    BY <1>1, <2>1, FS_Subset, Higher(S, gt, i) \in SUBSET (S \ {i})
  <2> QED
    BY <1>1, <1>2, <2>1, <2>2
<1>4. \A i, j \in S : <<i, j>> \in gt => c[i] < c[j]
  <2> SUFFICES ASSUME NEW i \in S, NEW j \in S, <<i, j>> \in gt PROVE c[i] < c[j]
    OBVIOUS
  <2>1. i \notin Higher(S, gt, i)
    BY DEF Higher, Orders
  <2>2. Higher(S, gt, i) \cup {i} \in SUBSET Higher(S, gt, j)
    BY DEF Higher, Orders
  <2>3. Cardinality(Higher(S, gt, i) \cup {i}) = c[i] + 1
    BY <1>1, <2>1, FS_AddElement
  <2>4. Cardinality(Higher(S, gt, i) \cup {i}) <= Cardinality(Higher(S, gt, j))
    BY <1>1, <2>2, FS_Subset
  <2> QED
    BY <1>1, <2>3, <2>4
<1>5. \A i, j \in S : <<i, j>> \in gt <=> c[i] < c[j]
  <2> SUFFICES ASSUME NEW i \in S, NEW j \in S, c[i] < c[j] PROVE <<i, j>> \in gt
    BY <1>4
  <2>1. i # j
    BY <1>1
  <2>2. ~(<<j, i>> \in gt)
    BY <1>1, <1>4
  <2> QED
    BY <2>1, <2>2 DEF Orders
<1>6. c \in Injection(S, 0..(Cardinality(S) - 1))
  <2>0. c \in [S -> 0..(Cardinality(S) - 1)]
    BY <1>3
  <2>1. \A i, j \in S : i # j => c[i] # c[j]
    <3> HIDE DEF c
    <3>1. \A i, j \in S : i # j => c[i] < c[j] \/ c[j] < c[i]
      BY <1>4 DEF Orders
    <3> QED
      BY <1>1, <3>1
  <2> QED
    BY <2>0, <2>1 DEF Injection, IsInjective
<1>7. IsFiniteSet(0..(Cardinality(S) - 1)) /\ Cardinality(0..(Cardinality(S) - 1)) = Cardinality(S)
  <2>1. 0 \in Int /\ Cardinality(S) - 1 \in Int
    BY <1>2
  <2> QED
    BY <1>2, <2>1, FS_Interval
<1>8. c \in Surjection(S, 0..(Cardinality(S) - 1))
    BY <1>6, <1>7, FS_Injection
<1> QED
    BY <1>5, <1>6, <1>8 DEF Bijection

\* The highest of each zone, and of those the r highest.
Best(N, gt, z) == {i \in N : \A j \in N : z[j] = z[i] => j = i \/ <<i, j>> \in gt}
Chosen(N, gt, z, r) == {i \in Best(N, gt, z) : Cardinality(Higher(Best(N, gt, z), gt, i)) < r}

\* It orders every part of S.
LEMMA OrdersWithin ==
    ASSUME NEW S, NEW gt, Orders(gt, S), NEW T \in SUBSET S
    PROVE  Orders(gt, T)
BY DEF Orders

\* A set that is not empty has a highest.
LEMMA HighestThere ==
    ASSUME NEW S, IsFiniteSet(S), NEW gt, Orders(gt, S), S # {}
    PROVE  \E k \in S : \A j \in S : j = k \/ <<k, j>> \in gt
<1> DEFINE c == [i \in S |-> Cardinality(Higher(S, gt, i))]  n == Cardinality(S)
<1>1. c \in Bijection(S, 0..(n - 1)) /\ \A i, j \in S : <<i, j>> \in gt <=> c[i] < c[j]
    BY HigherCounts
<1>2. n \in Nat /\ n # 0
    BY FS_CardinalityType, FS_EmptySet
<1> HIDE DEF c, n
<1>3. c \in [S -> 0..(n - 1)] /\ \A v \in 0..(n - 1) : \E i \in S : c[i] = v
    BY <1>1 DEF Bijection, Injection, Surjection
<1>4. PICK k \in S : c[k] = 0
    BY <1>2, <1>3
<1>5. \A i, j \in S : i # j => c[i] # c[j]
    BY <1>1 DEF Bijection, Injection, IsInjective
<1>6. \A j \in S : j = k \/ <<k, j>> \in gt
    BY <1>1, <1>3, <1>4, <1>5
<1> QED
    BY <1>6

\* Every zone with a node in N has its best.
LEMMA ZoneHasBest ==
    ASSUME NEW N, IsFiniteSet(N), NEW gt, Orders(gt, N), NEW z, NEW i \in N
    PROVE  \E k \in Best(N, gt, z) : z[k] = z[i] /\ (k = i \/ <<k, i>> \in gt)
<1> DEFINE S == {j \in N : z[j] = z[i]}
<1>1. S \in SUBSET N /\ S # {}
    OBVIOUS
<1>2. IsFiniteSet(S) /\ Orders(gt, S)
    BY <1>1, FS_Subset, OrdersWithin
<1>3. PICK k \in S : \A j \in S : j = k \/ <<k, j>> \in gt
    BY <1>1, <1>2, HighestThere
<1> QED
    BY <1>3 DEF Best

\* They are some of N, in order.
LEMMA BestFinite ==
    ASSUME NEW N, IsFiniteSet(N), NEW gt, Orders(gt, N), NEW z
    PROVE  Best(N, gt, z) \subseteq N /\ IsFiniteSet(Best(N, gt, z)) /\ Orders(gt, Best(N, gt, z))
<1>1. Best(N, gt, z) \in SUBSET N
    BY DEF Best
<1> QED
    BY <1>1, FS_Subset, OrdersWithin

\* One per zone.
LEMMA BestPerZone ==
    ASSUME NEW N, IsFiniteSet(N), NEW gt, Orders(gt, N), NEW z
    PROVE  /\ \A i, j \in Best(N, gt, z) : z[i] = z[j] => i = j
           /\ IsFiniteSet({z[i] : i \in N})
           /\ Cardinality({z[i] : i \in N}) = Cardinality(Best(N, gt, z))
<1> DEFINE B == Best(N, gt, z)  Z == {z[i] : i \in N}  f == [i \in B |-> z[i]]
<1>1. \A i, j \in B : z[i] = z[j] => i = j
    BY DEF Best, Orders
<1>2. B \subseteq N /\ IsFiniteSet(B)
    BY BestFinite
<1>3. \A i \in N : \E k \in B : z[k] = z[i]
  <2> TAKE i \in N
  <2>1. PICK k \in B : z[k] = z[i] /\ (k = i \/ <<k, i>> \in gt)
    BY ZoneHasBest
  <2> QED
    BY <2>1
<1> HIDE DEF B
<1>4. f \in Bijection(B, Z)
  <2>1. f \in [B -> Z]
    BY <1>2
  <2>2. f \in Injection(B, Z)
    BY <2>1, <1>1 DEF Injection, IsInjective
  <2>3. f \in Surjection(B, Z)
    BY <2>1, <1>3 DEF Surjection
  <2> QED
    BY <2>2, <2>3 DEF Bijection
<1>5. IsFiniteSet(Z) /\ Cardinality(Z) = Cardinality(B)
    BY <1>2, <1>4, FS_Bijection DEF ExistsBijection
<1> QED
    BY <1>1, <1>5 DEF B

\* How many are chosen, and that whoever is best and is not chosen has them all
\* above it.
LEMMA ChosenAre ==
    ASSUME NEW N, IsFiniteSet(N), NEW gt, Orders(gt, N), NEW z, NEW r \in Nat
    PROVE  LET B == Best(N, gt, z)
               C == Chosen(N, gt, z, r)
           IN  /\ C \subseteq B /\ B \subseteq N /\ IsFiniteSet(C) /\ IsFiniteSet(B)
               /\ Cardinality(B) \in Nat
               /\ Cardinality(C) = IF r <= Cardinality(B) THEN r ELSE Cardinality(B)
               /\ \A k \in B : k \notin C => Cardinality(C) = r /\ \A o \in C : <<o, k>> \in gt
<1> DEFINE B == Best(N, gt, z)  C == Chosen(N, gt, z, r)  n == Cardinality(B)
           c == [i \in B |-> Cardinality(Higher(B, gt, i))]
           m == IF r <= n THEN r ELSE n
           f == [i \in C |-> c[i]]
<1>1. B \subseteq N /\ IsFiniteSet(B) /\ Orders(gt, B)
    BY BestFinite
<1>2. c \in Bijection(B, 0..(n - 1)) /\ \A i, j \in B : <<i, j>> \in gt <=> c[i] < c[j]
    BY <1>1, HigherCounts
<1>3. n \in Nat
    BY <1>1, FS_CardinalityType
<1>4. C = {i \in B : c[i] < r}
    BY DEF Chosen
<1>5. IsFiniteSet(C)
    BY <1>1, <1>4, FS_Subset, C \in SUBSET B
<1> HIDE DEF B, C, n, c
<1>6. c \in [B -> 0..(n - 1)] /\ \A v \in 0..(n - 1) : \E i \in B : c[i] = v
    BY <1>2 DEF Bijection, Injection, Surjection
<1>7. \A i, j \in B : i # j => c[i] # c[j]
    BY <1>2 DEF Bijection, Injection, IsInjective
<1>8. f \in Bijection(C, 0..(m - 1))
  <2>1. f \in [C -> 0..(m - 1)]
    BY <1>3, <1>4, <1>6
  <2>2. f \in Injection(C, 0..(m - 1))
    BY <2>1, <1>4, <1>7 DEF Injection, IsInjective
  <2>3. \A v \in 0..(m - 1) : \E i \in C : f[i] = v
    BY <1>3, <1>4, <1>6
  <2>4. f \in Surjection(C, 0..(m - 1))
    BY <2>1, <2>3 DEF Surjection
  <2> QED
    BY <2>2, <2>4 DEF Bijection
<1>9. Cardinality(C) = m
  <2>1. IsFiniteSet(0..(m - 1)) /\ Cardinality(0..(m - 1)) = m
    <3>1. m \in Nat /\ 0 \in Int /\ m - 1 \in Int
      BY <1>3
    <3> HIDE DEF m
    <3> QED
      BY <3>1, FS_Interval
  <2>2. Cardinality(0..(m - 1)) = Cardinality(C)
    BY <1>5, <1>8, FS_Bijection DEF ExistsBijection
  <2> QED
    BY <2>1, <2>2
<1>10. ASSUME NEW k \in B, k \notin C PROVE Cardinality(C) = r /\ \A o \in C : <<o, k>> \in gt
  <2>1. c[k] >= r /\ c[k] \in 0..(n - 1)
    BY <1>4, <1>6, <1>10
  <2>2. r <= n
    BY <1>3, <2>1
  <2>3. \A o \in C : c[o] < c[k] /\ o \in B
    BY <1>3, <1>4, <1>6, <2>1
  <2> QED
    BY <1>2, <1>9, <2>2, <2>3
<1>11. C \subseteq B
    BY <1>4
<1> QED
    BY <1>1, <1>3, <1>5, <1>9, <1>10, <1>11 DEF B, C, n

\* Without x, all others that were chosen are chosen.
LEMMA ChosenWithout ==
    ASSUME NEW N, IsFiniteSet(N), NEW gt, Orders(gt, N), NEW z, NEW r \in Nat, NEW x
    PROVE  Chosen(N, gt, z, r) \ {x} \subseteq Chosen(N \ {x}, gt, z, r)
<1> DEFINE M == N \ {x}  B == Best(N, gt, z)  A == Best(M, gt, z)
<1>0. IsFiniteSet(M) /\ Orders(gt, M)
    BY FS_RemoveElement, OrdersWithin
<1> SUFFICES ASSUME NEW j \in Chosen(N, gt, z, r), j # x
             PROVE  j \in Chosen(M, gt, z, r)
    OBVIOUS
<1> DEFINE H == Higher(B, gt, j)  G == Higher(A, gt, j)
           f == [k \in G |-> IF k \in B THEN k ELSE x]
<1>1. j \in B /\ Cardinality(H) < r
    BY DEF Chosen
<1>2. B \subseteq N /\ IsFiniteSet(B) /\ A \subseteq M /\ IsFiniteSet(A)
    BY <1>0, BestFinite
<1>3. j \in A
    BY <1>1, <1>2 DEF Best
<1>4. IsFiniteSet(H) /\ IsFiniteSet(G)
    BY <1>2, FS_Subset, H \in SUBSET B, G \in SUBSET A DEF Higher
<1>5. ASSUME NEW k \in G, k \notin B PROVE x \in H /\ z[x] = z[k]
  <2>1. k \in N /\ k \in A /\ <<k, j>> \in gt /\ k # x
    BY <1>2, <1>5 DEF Higher
  <2>2. PICK b \in B : z[b] = z[k] /\ (b = k \/ <<b, k>> \in gt)
    BY <2>1, ZoneHasBest
  <2>3. b # k /\ <<b, k>> \in gt
    BY <1>5, <2>2
  <2>4. b = x
    BY <1>2, <2>1, <2>2, <2>3 DEF Best, Orders
  <2>5. <<x, j>> \in gt
    BY <1>1, <1>2, <2>1, <2>2, <2>3, <2>4 DEF Orders
  <2> QED
    BY <2>2, <2>4, <2>5 DEF Higher
<1>6. f \in Injection(G, H)
  <2>1. \A k \in G : k \in B => k \in H
    BY DEF Higher
  <2>2. f \in [G -> H]
    BY <1>5, <2>1
  <2>3. \A k \in G : k \in A /\ k # x
    BY <1>2 DEF Higher
  <2>4. \A k, l \in A : z[k] = z[l] => k = l
    BY <1>0, BestPerZone
  <2>5. \A k, l \in G : f[k] = f[l] => k = l
    BY <1>5, <2>3, <2>4
  <2> QED
    BY <2>2, <2>5 DEF Injection, IsInjective
<1>7. Cardinality(G) <= Cardinality(H)
    BY <1>4, <1>6, FS_Injection
<1>8. Cardinality(G) < r
    BY <1>1, <1>4, <1>7, FS_CardinalityType
<1> QED
    BY <1>3, <1>8 DEF Chosen

\* up is gt but for x, which has come in or has risen.
Rises(x, N, gt, up) ==
    /\ \A a, b \in N \ {x} : <<a, b>> \in up <=> <<a, b>> \in gt
    /\ x \in N => \A b \in N : <<x, b>> \in gt => <<x, b>> \in up

\* The zones without x keep their best, and that of x has its own or x.
LEMMA BestAfterRise ==
    ASSUME NEW N, IsFiniteSet(N), NEW gt, Orders(gt, N), NEW z, NEW x,
           NEW up, Orders(up, N \cup {x}), Rises(x, N, gt, up)
    PROVE  LET B == Best(N, gt, z)
               A == Best(N \cup {x}, up, z)
           IN  /\ IsFiniteSet(N \cup {x}) /\ IsFiniteSet(A) /\ IsFiniteSet(B)
               /\ B \subseteq N /\ A \subseteq N \cup {x}
               /\ A \ {x} \subseteq B
               /\ \A j \in B : j # x /\ j \notin A => z[j] = z[x] /\ x \in A
               /\ x \in B => x \in A /\ B \subseteq A
               /\ \A j \in N \ {x} : Higher(A, up, j) \subseteq Higher(B, gt, j) \cup {x}
<1> DEFINE B == Best(N, gt, z)  M == N \cup {x}  A == Best(M, up, z)
<1>1. IsFiniteSet(M) /\ IsFiniteSet(A) /\ IsFiniteSet(B) /\ B \subseteq N /\ A \subseteq M
    BY FS_AddElement, BestFinite
<1>2. A \ {x} \subseteq B
  <2> SUFFICES ASSUME NEW j \in A, j # x, NEW k \in N, z[k] = z[j], k # j
               PROVE  j \in N /\ <<j, k>> \in gt
    BY <1>1 DEF Best
  <2>1. j \in N /\ <<j, k>> \in up
    BY <1>1 DEF Best
  <2>2. CASE k # x
    BY <2>1, <2>2 DEF Rises
  <2>3. CASE k = x
    <3>1. <<x, j>> \notin up
      BY <2>1, <2>3 DEF Orders
    <3>2. <<x, j>> \notin gt
      BY <2>1, <2>3, <3>1 DEF Rises
    <3> QED
      BY <2>1, <2>3, <3>2 DEF Orders
  <2> QED
    BY <2>2, <2>3
<1>3. ASSUME NEW j \in B, j # x, j \notin A PROVE z[j] = z[x] /\ x \in A
  <2>1. j \in N /\ \A k \in N \ {x} : z[k] = z[j] => k = j \/ <<j, k>> \in up
    BY <1>1, <1>3 DEF Best, Rises
  <2>2. z[x] = z[j] /\ <<j, x>> \notin up
    BY <1>3, <2>1 DEF Best
  <2>3. <<x, j>> \in up
    BY <1>3, <2>1, <2>2 DEF Orders
  <2>4. \A k \in N \ {x} : z[k] = z[x] => <<x, k>> \in up
    BY <2>1, <2>2, <2>3 DEF Orders
  <2> QED
    BY <2>2, <2>4 DEF Best
<1>4. ASSUME x \in B PROVE x \in A /\ B \subseteq A
  <2>1. x \in A
    BY <1>1, <1>4 DEF Best, Rises
  <2>2. \A j \in B : z[j] = z[x] => j = x
    BY <1>4, BestPerZone
  <2> HIDE DEF A, B
  <2>3. B \subseteq A
    BY <1>3, <2>1, <2>2
  <2> QED
    BY <2>1, <2>3
<1>5. \A j \in N \ {x} : Higher(A, up, j) \subseteq Higher(B, gt, j) \cup {x}
    BY <1>1, <1>2 DEF Higher, Rises
<1> QED
    BY <1>1, <1>2, <1>3, <1>4, <1>5

\* One more node in a set is one more to count, at most.
LEMMA SizeWithOne ==
    ASSUME NEW S, IsFiniteSet(S), NEW x
    PROVE  /\ IsFiniteSet(S \cup {x}) /\ Cardinality(S \cup {x}) \in Nat
           /\ Cardinality(S \cup {x}) <= Cardinality(S) + 1
<1>1. /\ IsFiniteSet(S \cup {x})
      /\ Cardinality(S \cup {x}) = IF x \in S THEN Cardinality(S) ELSE Cardinality(S) + 1
    BY FS_AddElement
<1>2. Cardinality(S) \in Nat
    BY FS_CardinalityType
<1> QED
    BY <1>1, <1>2

\* Who was chosen and rises displaces nobody.
LEMMA ChosenRises ==
    ASSUME NEW N, IsFiniteSet(N), NEW gt, Orders(gt, N), NEW z, NEW r \in Nat, NEW x,
           NEW up, Orders(up, N \cup {x}), Rises(x, N, gt, up), x \in Chosen(N, gt, z, r)
    PROVE  Chosen(N \cup {x}, up, z, r) = Chosen(N, gt, z, r)
<1> DEFINE B == Best(N, gt, z)  M == N \cup {x}  A == Best(M, up, z)
           C == Chosen(N, gt, z, r)  D == Chosen(M, up, z, r)
           H(i) == Higher(B, gt, i)  G(i) == Higher(A, up, i)
<1>1. /\ IsFiniteSet(M) /\ IsFiniteSet(B) /\ B \subseteq N /\ C \subseteq B
      /\ x \in B /\ Cardinality(H(x)) < r
    BY BestAfterRise DEF Chosen
<1>2. A = B /\ \A j \in N \ {x} : G(j) \subseteq H(j) \cup {x}
  <2>1. (x \in B => x \in A /\ B \subseteq A) /\ A \ {x} \subseteq B
    BY BestAfterRise
  <2>2. \A j \in N \ {x} : G(j) \subseteq H(j) \cup {x}
    BY BestAfterRise
  <2> QED
    BY <1>1, <2>1, <2>2
<1>3. \A j \in B : IsFiniteSet(H(j)) /\ Cardinality(H(j)) \in Nat
  <2> TAKE j \in B
  <2>1. H(j) \in SUBSET B
    BY DEF Higher
  <2> QED
    BY <1>1, <2>1, FS_Subset, FS_CardinalityType
<1>4. \A j \in B : IsFiniteSet(G(j)) /\ Cardinality(G(j)) \in Nat
  <2> TAKE j \in B
  <2>1. G(j) \in SUBSET B
    BY <1>2 DEF Higher
  <2> QED
    BY <1>1, <2>1, FS_Subset, FS_CardinalityType
<1>5. ASSUME NEW j \in C PROVE Cardinality(G(j)) < r
  <2>0. j \in B /\ j \in N /\ Cardinality(H(j)) < r
    BY <1>1 DEF Chosen
  <2>1. ASSUME G(j) \subseteq H(j) PROVE Cardinality(G(j)) < r
    <3>1. G(j) \in SUBSET H(j) /\ IsFiniteSet(H(j)) /\ Cardinality(H(j)) \in Nat
      BY <1>3, <2>0, <2>1
    <3>2. Cardinality(G(j)) <= Cardinality(H(j))
      BY <3>1, FS_Subset
    <3>3. Cardinality(G(j)) \in Nat
      BY <1>4, <2>0
    <3> QED
      BY <2>0, <3>1, <3>2, <3>3
  <2>2. CASE j = x
    <3>1. G(x) \subseteq H(x)
      BY <1>1, <1>2 DEF Higher, Rises, Orders
    <3> QED
      BY <2>1, <2>2, <3>1
  <2>3. CASE j # x /\ <<x, j>> \in gt
    <3>1. x \in H(j)
      BY <1>1, <2>3 DEF Higher
    <3> QED
      BY <1>2, <2>0, <2>1, <2>3, <3>1
  <2>4. CASE j # x /\ <<j, x>> \in gt
    <3>1. H(j) \cup {j} \in SUBSET H(x) /\ j \notin H(j)
      BY <1>1, <2>0, <2>4 DEF Higher, Orders
    <3>2. Cardinality(H(j) \cup {j}) = Cardinality(H(j)) + 1
      BY <1>3, <2>0, <3>1, FS_AddElement
    <3>3. Cardinality(H(j)) + 1 <= Cardinality(H(x))
      BY <1>1, <1>3, <3>1, <3>2, FS_Subset
    <3>4. IsFiniteSet(H(j) \cup {x}) /\ Cardinality(H(j) \cup {x}) <= Cardinality(H(j)) + 1
      BY <1>3, <2>0, SizeWithOne
    <3>5. Cardinality(G(j)) <= Cardinality(H(j) \cup {x})
      BY <1>2, <2>0, <2>4, <3>4, FS_Subset, G(j) \in SUBSET (H(j) \cup {x})
    <3>6. Cardinality(H(j) \cup {x}) \in Nat
      BY <3>4, FS_CardinalityType
    <3> QED
      BY <1>1, <1>3, <1>4, <2>0, <3>3, <3>4, <3>5, <3>6
  <2> QED
    BY <1>1, <2>0, <2>2, <2>3, <2>4 DEF Orders
<1>6. C \subseteq D
    BY <1>1, <1>2, <1>5 DEF Chosen
<1>7. Cardinality(C) = Cardinality(D) /\ IsFiniteSet(D)
  <2>1. Cardinality(C) = IF r <= Cardinality(B) THEN r ELSE Cardinality(B)
    BY ChosenAre
  <2>2. Cardinality(D) = (IF r <= Cardinality(A) THEN r ELSE Cardinality(A)) /\ IsFiniteSet(D)
    BY <1>1, ChosenAre
  <2> QED
    BY <1>2, <2>1, <2>2
<1> QED
    BY <1>6, <1>7, FS_Subset, C \in SUBSET D

\* Otherwise of two that were chosen one still is.
LEMMA RiseDisplacesOne ==
    ASSUME NEW N, IsFiniteSet(N), NEW gt, Orders(gt, N), NEW z, NEW r \in Nat, NEW x,
           NEW up, Orders(up, N \cup {x}), Rises(x, N, gt, up), x \notin Chosen(N, gt, z, r),
           NEW j \in Chosen(N, gt, z, r), NEW k \in Chosen(N, gt, z, r), <<j, k>> \in gt,
           j \notin Chosen(N \cup {x}, up, z, r), k \notin Chosen(N \cup {x}, up, z, r)
    PROVE  FALSE
<1> DEFINE B == Best(N, gt, z)  M == N \cup {x}  A == Best(M, up, z)
           H(i) == Higher(B, gt, i)  G(i) == Higher(A, up, i)
<1>1. /\ IsFiniteSet(A) /\ IsFiniteSet(B) /\ B \subseteq N /\ j \in B /\ k \in B
      /\ Cardinality(H(j)) < r /\ Cardinality(H(k)) < r /\ j # x /\ k # x
    BY BestAfterRise DEF Chosen
<1>2. G(j) \subseteq H(j) \cup {x} /\ G(k) \subseteq H(k) \cup {x}
  <2>1. \A l \in N \ {x} : G(l) \subseteq H(l) \cup {x}
    BY BestAfterRise
  <2> QED
    BY <1>1, <2>1
<1>3. /\ IsFiniteSet(H(j)) /\ Cardinality(H(j)) \in Nat
      /\ IsFiniteSet(H(k)) /\ Cardinality(H(k)) \in Nat
  <2>1. H(j) \in SUBSET B /\ H(k) \in SUBSET B
    BY DEF Higher
  <2> QED
    BY <1>1, <2>1, FS_Subset, FS_CardinalityType
<1>4. /\ IsFiniteSet(G(j)) /\ Cardinality(G(j)) \in Nat
      /\ IsFiniteSet(G(k)) /\ Cardinality(G(k)) \in Nat
  <2>1. G(j) \in SUBSET A /\ G(k) \in SUBSET A
    BY DEF Higher
  <2> QED
    BY <1>1, <2>1, FS_Subset, FS_CardinalityType
<1>5. j \notin A
  <2> SUFFICES ASSUME j \in A PROVE FALSE
    OBVIOUS
  <2>1. Cardinality(G(j)) >= r
    BY <1>4 DEF Chosen
  <2>2. H(j) \cup {j} \in SUBSET H(k) /\ j \notin H(j)
    BY <1>1 DEF Higher, Orders
  <2>3. Cardinality(H(j) \cup {j}) = Cardinality(H(j)) + 1
    BY <1>3, <2>2, FS_AddElement
  <2>4. Cardinality(H(j)) + 1 <= Cardinality(H(k))
    BY <1>3, <2>2, <2>3, FS_Subset
  <2>5. IsFiniteSet(H(j) \cup {x}) /\ Cardinality(H(j) \cup {x}) <= Cardinality(H(j)) + 1
    BY <1>3, SizeWithOne
  <2>6. Cardinality(G(j)) <= Cardinality(H(j) \cup {x}) /\ Cardinality(H(j) \cup {x}) \in Nat
    BY <1>2, <2>5, FS_Subset, FS_CardinalityType, G(j) \in SUBSET (H(j) \cup {x})
  <2> QED
    BY <1>1, <1>3, <1>4, <2>1, <2>4, <2>5, <2>6
<1>6. \A i \in B : i # x /\ i \notin A => z[i] = z[x] /\ x \in A
    BY BestAfterRise
<1>7. k \in A
  <2>1. j # k
    BY <1>1 DEF Orders
  <2>2. z[k] # z[j]
    BY <1>1, <2>1, BestPerZone
  <2>3. z[j] = z[x]
    BY <1>1, <1>5, <1>6
  <2> QED
    BY <1>1, <1>6, <2>2, <2>3
<1>8. Cardinality(G(k)) >= r
    BY <1>4, <1>7 DEF Chosen
<1>9. j \in H(k) /\ G(k) \subseteq (H(k) \ {j}) \cup {x}
  <2>1. j \notin G(k)
    BY <1>5 DEF Higher
  <2> QED
    BY <1>1, <1>2, <2>1 DEF Higher
<1>10. IsFiniteSet(H(k) \ {j}) /\ Cardinality(H(k) \ {j}) = Cardinality(H(k)) - 1
    BY <1>3, <1>9, FS_RemoveElement
<1>11. /\ IsFiniteSet((H(k) \ {j}) \cup {x})
       /\ Cardinality((H(k) \ {j}) \cup {x}) <= Cardinality(H(k))
  <2>1. Cardinality((H(k) \ {j}) \cup {x}) =
            IF x \in H(k) \ {j} THEN Cardinality(H(k) \ {j}) ELSE Cardinality(H(k) \ {j}) + 1
    BY <1>10, FS_AddElement
  <2>2. IsFiniteSet((H(k) \ {j}) \cup {x})
    BY <1>10, FS_AddElement
  <2> QED
    BY <1>3, <1>10, <2>1, <2>2
<1>12. Cardinality(G(k)) <= Cardinality((H(k) \ {j}) \cup {x})
    BY <1>9, <1>11, FS_Subset, G(k) \in SUBSET ((H(k) \ {j}) \cup {x})
<1>13. Cardinality((H(k) \ {j}) \cup {x}) \in Nat
    BY <1>11, FS_CardinalityType
<1> QED
    BY <1>1, <1>3, <1>4, <1>8, <1>11, <1>12, <1>13

\* So a rise displaces at most one.
LEMMA RiseDisplacesAtMostOne ==
    ASSUME NEW N, IsFiniteSet(N), NEW gt, Orders(gt, N), NEW z, NEW r \in Nat, NEW x,
           NEW up, Orders(up, N \cup {x}), Rises(x, N, gt, up)
    PROVE  Cardinality(Chosen(N, gt, z, r) \ Chosen(N \cup {x}, up, z, r)) <= 1
<1> DEFINE C == Chosen(N, gt, z, r)  D == Chosen(N \cup {x}, up, z, r)
<1>1. CASE x \in C
  <2>1. C \ D = {}
    BY <1>1, ChosenRises
  <2> QED
    BY <2>1, FS_EmptySet
<1>2. CASE x \notin C
  <2>1. \A j, k \in C \ D : j = k
    <3>1. \A j, k \in C \ D : <<j, k>> \notin gt
      BY <1>2, RiseDisplacesOne
    <3>2. C \subseteq N
      BY DEF Chosen, Best
    <3> QED
      BY <3>1, <3>2 DEF Orders
  <2>2. C \ D = {} \/ \E j : C \ D = {j}
    BY <2>1
  <2>3. Cardinality(C \ D) = 0 \/ Cardinality(C \ D) = 1
    BY <2>2, FS_EmptySet, FS_Singleton
  <2> QED
    BY <2>3
<1> QED
    BY <1>1, <1>2

-----------------------------------------------------------------------------
\* A set of numbers has a least one.
LEMMA Least ==
    ASSUME NEW T, T \subseteq Nat, T # {}
    PROVE  \E m \in T : \A k \in T : m <= k
<1>1. PICK m \in T : \A k \in T : ~ (<<k, m>> \in OpToRel(<, Nat))
    BY NatLessThanWellFounded, WFMin, Zenon
<1>2. \A k \in T : ~ (k < m)
    BY <1>1 DEF OpToRel
<1> QED
    BY <1>2

\* Numbers that begin with 0 and go from each to its successor are all of them.
LEMMA Upward ==
    ASSUME NEW n \in Nat, NEW T, 0 \in T, \A k \in 0..(n-1) : k \in T => k + 1 \in T
    PROVE  \A k \in 0..n : k \in T
<1> SUFFICES ASSUME (0..n) \ T # {} PROVE FALSE
    OBVIOUS
<1>1. PICK m \in (0..n) \ T : \A k \in (0..n) \ T : m <= k
  <2>1. (0..n) \ T \subseteq Nat
    OBVIOUS
  <2> QED
    BY <2>1, Least
<1>2. m # 0 /\ m - 1 \in 0..(n-1)
    OBVIOUS
<1>3. m - 1 \in T
    BY <1>1, <1>2
<1> QED
    BY <1>2, <1>3

\* What is computed from base in n steps.
Steps(st, n, X) == st \in [1..n -> [X -> X]]
Stepwise(f, st, n, X, base) ==
    f \in [0..n -> X] /\ f[0] = base /\ \A k \in 1..n : f[k] = st[k][f[k - 1]]

\* There is such a computation.
LEMMA StepsThere ==
    ASSUME NEW n \in Nat, NEW X, NEW base \in X, NEW st, Steps(st, n, X)
    PROVE  \E f : Stepwise(f, st, n, X, base)
<1> DEFINE Made(f, m) == f[0] = base /\ \A k \in 1..m : f[k] = st[k][f[k - 1]]
           T == {m \in 0..n : \E f \in [0..n -> X] : Made(f, m)}
<1>0. st \in [1..n -> [X -> X]]
    BY DEF Steps
<1>1. 0 \in T
  <2> DEFINE f == [k \in 0..n |-> base]
  <2>1. f \in [0..n -> X] /\ f[0] = base /\ 0 \in 0..n /\ 1..0 = {}
    OBVIOUS
  <2> HIDE DEF f
  <2> QED
    BY <2>1
<1>2. ASSUME NEW m \in 0..(n - 1), m \in T PROVE m + 1 \in T
  <2>1. PICK f \in [0..n -> X] : Made(f, m)
    BY <1>2
  <2> DEFINE g == [k \in 0..n |-> IF k = m + 1 THEN st[m + 1][f[m]] ELSE f[k]]
  <2>2. m \in 0..n /\ m + 1 \in 1..n /\ f[m] \in X
    BY <1>2
  <2>3. g \in [0..n -> X]
    BY <1>0, <2>2
  <2>4. g[0] = base /\ g[m + 1] = st[m + 1][f[m]] /\ g[m] = f[m]
    BY <2>1, <2>2
  <2>5. \A k \in 1..m : g[k] = f[k] /\ g[k - 1] = f[k - 1]
    BY <2>2
  <2> HIDE DEF g
  <2>6. \A k \in 1..m : g[k] = st[k][g[k - 1]]
    BY <2>1, <2>5
  <2>7. \A k \in 1..(m + 1) : k \in 1..m \/ k = m + 1
    BY <1>2
  <2>8. (m + 1) - 1 = m
    BY <1>2
  <2>9. Made(g, m + 1)
    BY <2>4, <2>6, <2>7, <2>8
  <2> QED
    BY <2>2, <2>3, <2>9
<1>3. n \in T
  <2> HIDE DEF T
  <2> QED
    BY <1>1, <1>2, Upward
<1> QED
    BY <1>3 DEF Stepwise

\* The entries of more up to k that out has not follow it.
Follows(f, out, more) ==
    f = [n \in 0..Len(more) |->
            IF n = 0 THEN out
            ELSE IF more[n] \in Place!ToSet(out) THEN f[n - 1] ELSE Append(f[n - 1], more[n])]

\* There is the function that defines Followed, and what it gives.
LEMMA FollowedIs ==
    ASSUME NEW X, NEW out \in Seq(X), NEW more \in Seq(X)
    PROVE  \E f \in [0..Len(more) -> Seq(X)] :
             /\ f[0] = out /\ Place!Followed(out, more) = f[Len(more)]
             /\ \A k \in 1..Len(more) :
                  f[k] = IF more[k] \in Place!ToSet(out) THEN f[k - 1] ELSE Append(f[k - 1], more[k])
<1> DEFINE n == Len(more)
           next(k, q) == IF more[k] \in Place!ToSet(out) THEN q ELSE Append(q, more[k])
           st == [k \in 1..n |-> [q \in Seq(X) |-> next(k, q)]]
<1>0. n \in Nat
    OBVIOUS
<1>1. Steps(st, n, Seq(X))
  <2>1. \A k \in 1..n : more[k] \in X
    OBVIOUS
  <2>2. \A k \in 1..n, q \in Seq(X) : next(k, q) \in Seq(X)
    BY <2>1
  <2> QED
    BY <2>2 DEF Steps
<1>2. PICK f : Stepwise(f, st, n, Seq(X), out)
  <2> HIDE DEF st, n
  <2> QED
    BY <1>0, <1>1, StepsThere
<1>3. /\ f \in [0..n -> Seq(X)] /\ f[0] = out
      /\ \A k \in 1..n : f[k] = IF more[k] \in Place!ToSet(out) THEN f[k - 1] ELSE Append(f[k - 1], more[k])
  <2>1. f \in [0..n -> Seq(X)] /\ f[0] = out /\ \A k \in 1..n : f[k] = st[k][f[k - 1]]
    BY <1>2 DEF Stepwise
  <2>2. \A k \in 1..n : k - 1 \in 0..n
    BY <1>0
  <2>3. \A k \in 1..n : f[k - 1] \in Seq(X)
    BY <2>1, <2>2
  <2>4. \A k \in 1..n, q \in Seq(X) : st[k][q] = next(k, q)
    OBVIOUS
  <2> HIDE DEF st
  <2>5. ASSUME NEW k \in 1..n PROVE f[k] = next(k, f[k - 1])
    <3>1. PICK q \in Seq(X) : q = f[k - 1]
      BY <2>3
    <3>2. f[k] = st[k][q]
      BY <2>1, <3>1, Zenon
    <3>3. st[k][q] = next(k, q)
      BY <2>4, Zenon
    <3> QED
      BY <3>1, <3>2, <3>3, Zenon
  <2> QED
    BY <2>1, <2>5, Zenon
<1> HIDE DEF n, st
<1>4. Follows(f, out, more)
  <2> DEFINE g == [k \in 0..n |-> IF k = 0 THEN out
                     ELSE IF more[k] \in Place!ToSet(out) THEN f[k - 1] ELSE Append(f[k - 1], more[k])]
  <2>1. \A k \in 0..n : g[k] = f[k]
    <3> TAKE k \in 0..n
    <3>1. k = 0 \/ k \in 1..n
      BY <1>0
    <3> QED
      BY <1>3, <3>1
  <2>2. f = [k \in 0..n |-> f[k]]
    BY <1>3
  <2>3. f = g
    BY <2>1, <2>2
  <2> QED
    BY <2>3 DEF Follows, n
<1> DEFINE h == CHOOSE g : Follows(g, out, more)
<1>5. Follows(h, out, more)
    BY <1>4
<1>6. Place!Followed(out, more) = h[n]
    BY DEF Place!Followed, Follows, n
<1> HIDE DEF h
<1>7. DOMAIN h = 0..n /\ h[0] = out
    BY <1>0, <1>5 DEF Follows, n
<1>8. \A k \in 1..n : h[k] = IF more[k] \in Place!ToSet(out) THEN h[k - 1] ELSE Append(h[k - 1], more[k])
  <2> TAKE k \in 1..n
  <2>1. k \in 0..n /\ k # 0
    BY <1>0
  <2> QED
    BY <1>5, <2>1 DEF Follows, n
<1>9. \A k \in 0..n : h[k] = f[k]
  <2> DEFINE T == {k \in 0..n : h[k] = f[k]}
  <2>1. 0 \in T
    BY <1>0, <1>3, <1>7
  <2>2. ASSUME NEW k \in 0..(n - 1), k \in T PROVE k + 1 \in T
    <3>1. k + 1 \in 1..n /\ (k + 1) - 1 = k /\ k + 1 \in 0..n
      BY <1>0
    <3>2. h[k + 1] = IF more[k + 1] \in Place!ToSet(out) THEN h[k] ELSE Append(h[k], more[k + 1])
      BY <1>8, <3>1
    <3>3. f[k + 1] = IF more[k + 1] \in Place!ToSet(out) THEN f[k] ELSE Append(f[k], more[k + 1])
      BY <1>3, <3>1
    <3> QED
      BY <2>2, <3>1, <3>2, <3>3
  <2> HIDE DEF T
  <2>3. \A k \in 0..n : k \in T
    BY <1>0, <2>1, <2>2, Upward
  <2> QED
    BY <2>3 DEF T
<1>10. Place!Followed(out, more) = f[n]
    BY <1>0, <1>6, <1>9
<1> QED
    BY <1>3, <1>10 DEF n

\* Nothing is lost or repeated, and the first stays the first.
LEMMA FollowedHas ==
    ASSUME NEW X, NEW out \in Seq(X), NEW more \in Seq(X)
    PROVE  LET all == Place!Followed(out, more)
           IN  /\ all \in Seq(X)
               /\ Place!ToSet(all) = Place!ToSet(out) \cup Place!ToSet(more)
               /\ Place!IsInjective(out) /\ Place!IsInjective(more) => Place!IsInjective(all)
               /\ out # <<>> => all # <<>> /\ all[1] = out[1]
<1> DEFINE n == Len(more)  O == Place!ToSet(out)
<1>0. n \in Nat /\ more \in [1..n -> X]
    OBVIOUS
<1>1. PICK f \in [0..n -> Seq(X)] :
        /\ f[0] = out /\ Place!Followed(out, more) = f[n]
        /\ \A k \in 1..n : f[k] = IF more[k] \in O THEN f[k - 1] ELSE Append(f[k - 1], more[k])
    BY FollowedIs
<1> HIDE DEF n, O
<1> DEFINE Upto(k) == {more[j] : j \in 1..k}
           Has(k) == Place!ToSet(f[k]) = O \cup Upto(k)
           Once(k) == Place!IsInjective(out) /\ Place!IsInjective(more) => Place!IsInjective(f[k])
           First(k) == out # <<>> => f[k] # <<>> /\ f[k][1] = out[1]
           T == {k \in 0..n : Has(k) /\ Once(k) /\ First(k)}
<1>2. 0 \in T
  <2>1. 0 \in 0..n /\ 1..0 = {}
    BY <1>0
  <2> QED
    BY <1>1, <2>1 DEF O
<1>3. ASSUME NEW k \in 0..(n - 1), k \in T PROVE k + 1 \in T
  <2>1. k + 1 \in 1..n /\ (k + 1) - 1 = k /\ k + 1 \in 0..n /\ k \in 0..n /\ k \in Nat
    BY <1>0
  <2>2. PICK q \in Seq(X) : q = f[k]
    BY <1>1, <2>1
  <2>3. PICK m \in X : m = more[k + 1]
    BY <1>0, <2>1
  <2>4. f[k + 1] = IF m \in O THEN q ELSE Append(q, m)
    BY <1>1, <2>1, <2>2, <2>3
  <2>5. Upto(k + 1) = Upto(k) \cup {m}
    <3>1. \A j \in 1..(k + 1) : j \in 1..k \/ j = k + 1
      BY <2>1
    <3>2. \A j \in 1..k : j \in 1..(k + 1)
      BY <2>1
    <3>3. k + 1 \in 1..(k + 1)
      BY <2>1
    <3> QED
      BY <2>3, <3>1, <3>2, <3>3
  <2>6. Place!ToSet(q) = O \cup Upto(k)
    BY <1>3, <2>2
  <2>7. CASE m \in O
    <3>1. Has(k + 1)
      BY <2>4, <2>5, <2>6, <2>7
    <3>2. Once(k + 1) /\ First(k + 1)
      BY <1>3, <2>2, <2>4, <2>7
    <3> QED
      BY <2>1, <3>1, <3>2
  <2>8. CASE m \notin O
    <3>1. /\ Len(q) \in Nat /\ Append(q, m) \in [1..(Len(q) + 1) -> X]
          /\ \A j \in 1..Len(q) : Append(q, m)[j] = q[j]
          /\ Append(q, m)[Len(q) + 1] = m
      <4>1. Append(q, m) \in Seq(X) /\ Len(Append(q, m)) = Len(q) + 1 /\ Len(q) \in Nat
        OBVIOUS
      <4>2. Append(q, m) \in [1..(Len(q) + 1) -> X]
        <5>1. \A s \in Seq(X) : s \in [1..Len(s) -> X]
          OBVIOUS
        <5> QED
          BY <4>1, <5>1, Zenon
      <4>3. \A j \in 1..Len(q) : Append(q, m)[j] = q[j]
        OBVIOUS
      <4>4. Append(q, m)[Len(q) + 1] = m
        OBVIOUS
      <4> QED
        BY <4>1, <4>2, <4>3, <4>4
    <3>2. \A j \in 1..(Len(q) + 1) : j \in 1..Len(q) \/ j = Len(q) + 1
      BY <3>1
    <3>3. \A j \in 1..Len(q) : j \in 1..(Len(q) + 1)
      BY <3>1
    <3>4. Len(q) + 1 \in 1..(Len(q) + 1)
      BY <3>1
    <3>5. DOMAIN Append(q, m) = 1..(Len(q) + 1) /\ DOMAIN q = 1..Len(q)
      BY <3>1
    <3>6. Place!ToSet(Append(q, m)) = Place!ToSet(q) \cup {m}
      BY <3>1, <3>2, <3>3, <3>4, <3>5 DEF Place!ToSet
    <3>7. Has(k + 1)
      BY <2>4, <2>5, <2>6, <2>8, <3>6
    <3>8. Once(k + 1)
      <4> SUFFICES ASSUME Place!IsInjective(out), Place!IsInjective(more)
                   PROVE  Place!IsInjective(Append(q, m))
        BY <2>4, <2>8
      <4>1. Place!IsInjective(q)
        BY <1>3, <2>2
      <4>2. m \notin Upto(k)
        <5>1. \A j \in 1..k : j \in 1..n /\ k + 1 \in 1..n /\ j # k + 1
          BY <1>0, <2>1
        <5>2. DOMAIN more = 1..n
          BY <1>0
        <5> QED
          BY <2>3, <5>1, <5>2 DEF Place!IsInjective
      <4>3. \A j \in 1..Len(q) : q[j] # m
        BY <2>6, <2>8, <3>5, <4>2 DEF Place!ToSet
      <4>4. \A i, j \in 1..Len(q) : q[i] = q[j] => i = j
        BY <3>5, <4>1 DEF Place!IsInjective
      <4>5. \A i, j \in 1..(Len(q) + 1) : Append(q, m)[i] = Append(q, m)[j] => i = j
        BY <3>1, <3>2, <4>3, <4>4
      <4> QED
        BY <3>5, <4>5 DEF Place!IsInjective
    <3>9. First(k + 1)
      <4> SUFFICES ASSUME out # <<>> PROVE Append(q, m) # <<>> /\ Append(q, m)[1] = out[1]
        BY <2>4, <2>8
      <4>1. q # <<>> /\ q[1] = out[1]
        BY <1>3, <2>2
      <4>2. 1 \in 1..Len(q)
        BY <4>1
      <4> QED
        BY <3>1, <4>1, <4>2
    <3> QED
      BY <2>1, <3>7, <3>8, <3>9
  <2> QED
    BY <2>7, <2>8
<1>4. n \in T
  <2> HIDE DEF T
  <2>1. \A k \in 0..n : k \in T
    BY <1>0, <1>2, <1>3, Upward
  <2> QED
    BY <1>0, <2>1
<1>5. Upto(n) = Place!ToSet(more)
    BY <1>0 DEF Place!ToSet
<1>6. f[n] \in Seq(X)
    BY <1>0, <1>1
<1> QED
    BY <1>1, <1>4, <1>5, <1>6 DEF O

\* Who ranks above whom, by weight and number.
Beats(w, L, a, b) == w[a] * L[b] > w[b] * L[a] \/ (w[a] * L[b] = w[b] * L[a] /\ a < b)
Score(w, L) == {p \in Nat \X Nat : Beats(w, L, p[1], p[2])}

\* Score as a set of pairs.
LEMMA ScoreIs ==
    ASSUME NEW w, NEW L, NEW a \in Nat, NEW b \in Nat
    PROVE  <<a, b>> \in Score(w, L) <=> Beats(w, L, a, b)
BY DEF Score

\* Of the products that RanksAbove compares.
LEMMA Products ==
    ASSUME NEW a \in Nat, NEW b \in Nat, NEW c \in Nat
    PROVE  /\ a * c \in Nat /\ a * c = c * a
           /\ a <= b => a * c <= b * c
           /\ a < b /\ c > 0 => a * c < b * c
           /\ c > 0 /\ a * c <= b * c => a <= b
           /\ c > 0 /\ a * c < b * c => a < b
<1>1. a * c \in Nat /\ b * c \in Nat /\ a * c = c * a
    OBVIOUS
<1>2. ASSUME a <= b PROVE a * c <= b * c
  <2>1. PICK d \in Nat : b = a + d
    BY <1>2, b - a \in Nat
  <2>2. b * c = a * c + d * c /\ d * c \in Nat
    BY <2>1
  <2> QED
    BY <1>1, <2>2
<1>3. ASSUME a < b, c > 0 PROVE a * c < b * c
  <2>1. PICK d \in Nat : b = a + 1 + d
    BY <1>3, b - a - 1 \in Nat
  <2>2. b * c = a * c + c + d * c /\ d * c \in Nat
    BY <2>1
  <2> QED
    BY <1>1, <1>3, <2>2
<1>4. ASSUME b < a, c > 0 PROVE b * c < a * c
  <2>1. PICK d \in Nat : a = b + 1 + d
    BY <1>4, a - b - 1 \in Nat
  <2>2. a * c = b * c + c + d * c /\ d * c \in Nat
    BY <2>1
  <2> QED
    BY <1>1, <1>4, <2>2
<1>5. a = b => a * c = b * c
    OBVIOUS
<1>6. c > 0 /\ a * c <= b * c => a <= b
    BY <1>1, <1>4
<1>7. c > 0 /\ a * c < b * c => a < b
    BY <1>1, <1>4, <1>5
<1> QED
    BY <1>1, <1>2, <1>3, <1>6, <1>7

\* w/L in descending order, then the id, is an order of the nodes with a weight.
LEMMA ScoreOrders ==
    ASSUME NEW w \in [Nat -> Nat], NEW L \in [Nat -> Nat], NEW N \in SUBSET Nat,
           \A a \in N : w[a] > 0
    PROVE  Orders(Score(w, L), N)
<1>1. \A a \in N : <<a, a>> \notin Score(w, L)
  <2> TAKE a \in N
  <2>1. PICK m \in Nat : m = w[a] * L[a]
    BY Products
  <2>2. ~(m > m \/ (m = m /\ a < a))
    OBVIOUS
  <2>3. ~Beats(w, L, a, a)
    BY <2>1, <2>2 DEF Beats
  <2> QED
    BY <2>3, ScoreIs
<1>2. \A a, b \in N : a # b => <<a, b>> \in Score(w, L) \/ <<b, a>> \in Score(w, L)
  <2> SUFFICES ASSUME NEW a \in N, NEW b \in N, a # b
               PROVE  <<a, b>> \in Score(w, L) \/ <<b, a>> \in Score(w, L)
    OBVIOUS
  <2>1. PICK m \in Nat, n \in Nat : m = w[a] * L[b] /\ n = w[b] * L[a]
    BY Products
  <2>2. (m > n \/ (m = n /\ a < b)) \/ (n > m \/ (n = m /\ b < a))
    BY <2>1
  <2>3. Beats(w, L, a, b) \/ Beats(w, L, b, a)
    BY <2>1, <2>2 DEF Beats
  <2> QED
    BY <2>3, ScoreIs
<1>3. \A a, b, c \in N : <<a, b>> \in Score(w, L) /\ <<b, c>> \in Score(w, L) => <<a, c>> \in Score(w, L)
  <2> SUFFICES ASSUME NEW a \in N, NEW b \in N, NEW c \in N,
                      <<a, b>> \in Score(w, L), <<b, c>> \in Score(w, L)
               PROVE  <<a, c>> \in Score(w, L)
    OBVIOUS
  <2>1. PICK wa \in Nat, wb \in Nat, wc \in Nat, la \in Nat, lb \in Nat, lc \in Nat :
          /\ wa = w[a] /\ wb = w[b] /\ wc = w[c] /\ la = L[a] /\ lb = L[b] /\ lc = L[c]
          /\ wa > 0 /\ wb > 0 /\ wc > 0
    OBVIOUS
  <2>2. PICK ab \in Nat, ba \in Nat, bc \in Nat, cb \in Nat, ac \in Nat, ca \in Nat :
          /\ ab = wa * lb /\ ba = wb * la /\ bc = wb * lc /\ cb = wc * lb
          /\ ac = wa * lc /\ ca = wc * la
    BY Products
  <2>3. /\ (ab > ba \/ (ab = ba /\ a < b)) /\ (bc > cb \/ (bc = cb /\ b < c))
        /\ a \in Nat /\ b \in Nat /\ c \in Nat
    <3>1. Beats(w, L, a, b) /\ Beats(w, L, b, c)
      BY ScoreIs
    <3>2. (ab > ba \/ (ab = ba /\ a < b)) /\ (bc > cb \/ (bc = cb /\ b < c))
      BY <2>1, <2>2, <3>1, Zenon DEF Beats
    <3> QED
      BY <3>2
  <2>4. ab * wc = cb * wa /\ ba * wc = ca * wb /\ bc * wa = ac * wb
    BY <2>2
  <2>5. /\ ab * wc \in Nat /\ ba * wc \in Nat /\ bc * wa \in Nat /\ ac * wb \in Nat /\ ca * wb \in Nat
        /\ cb * wa \in Nat
    BY Products
  <2>6. ba * wc <= ab * wc /\ cb * wa <= bc * wa
    BY <2>3, Products
  <2>7. (ab > ba => ba * wc < ab * wc) /\ (bc > cb => cb * wa < bc * wa)
    BY <2>1, Products
  <2>8. ca * wb <= ac * wb /\ (ab > ba \/ bc > cb => ca * wb < ac * wb)
    BY <2>4, <2>5, <2>6, <2>7
  <2>9. ca <= ac /\ (ab > ba \/ bc > cb => ca < ac)
    BY <2>1, <2>8, Products
  <2>10. ac > ca \/ (ac = ca /\ a < c)
    BY <2>3, <2>9
  <2>11. Beats(w, L, a, c)
    BY <2>1, <2>2, <2>10, Zenon DEF Beats
  <2> QED
    BY <2>3, <2>11, ScoreIs
<1> QED
    BY <1>1, <1>2, <1>3 DEF Orders

\* Members with ids of their own, and what is known by id of each.
Members(ms, Z) ==
    /\ ms \in Seq([id : Nat, weight : Nat, zone : Z])
    /\ \A i, j \in DOMAIN ms : ms[i].id = ms[j].id => i = j

Known(ms, w, z) ==
    /\ w \in [Nat -> Nat]
    /\ \A i \in DOMAIN ms : w[ms[i].id] = ms[i].weight /\ z[ms[i].id] = Place!ZoneOf(ms[i])

Heavy(ms) == {ms[i].id : i \in {i \in DOMAIN ms : ms[i].weight > 0}}

\* What members are, one by one.
LEMMA MembersHave ==
    ASSUME NEW ms, NEW Z, Members(ms, Z)
    PROVE  /\ Len(ms) \in Nat /\ DOMAIN ms = 1..Len(ms)
           /\ \A i \in 1..Len(ms) : /\ ms[i] \in [id : Nat, weight : Nat, zone : Z]
                                    /\ ms[i].id \in Nat /\ ms[i].weight \in Nat
           /\ \A i, j \in 1..Len(ms) : ms[i].id = ms[j].id => i = j
<1>1. Len(ms) \in Nat /\ DOMAIN ms = 1..Len(ms)
    BY DEF Members
<1>2. \A i \in 1..Len(ms) : ms[i] \in [id : Nat, weight : Nat, zone : Z]
  <2>1. ASSUME NEW S, NEW s \in Seq(S), NEW i \in 1..Len(s) PROVE s[i] \in S
    OBVIOUS
  <2> QED
    BY <2>1, Zenon DEF Members
<1>3. \A i \in 1..Len(ms) : ms[i].id \in Nat /\ ms[i].weight \in Nat
    BY <1>2
<1>4. \A i, j \in 1..Len(ms) : ms[i].id = ms[j].id => i = j
    BY <1>1 DEF Members
<1> QED
    BY <1>1, <1>2, <1>3, <1>4

\* The ids of the members with a weight.
LEMMA HeavyIs ==
    ASSUME NEW ms, NEW Z, Members(ms, Z), NEW w, NEW z, Known(ms, w, z)
    PROVE  /\ Heavy(ms) \in SUBSET Nat /\ IsFiniteSet(Heavy(ms)) /\ \A a \in Heavy(ms) : w[a] > 0
           /\ \A i \in 1..Len(ms) : ms[i].id \in Heavy(ms) <=> ms[i].weight > 0
<1> DEFINE n == Len(ms)  S == {i \in 1..n : ms[i].weight > 0}  f == [i \in S |-> ms[i].id]
<1>1. /\ n \in Nat /\ DOMAIN ms = 1..n
      /\ \A i \in 1..n : ms[i].id \in Nat /\ ms[i].weight \in Nat
      /\ \A i, j \in 1..n : ms[i].id = ms[j].id => i = j
    BY MembersHave
<1>2. Heavy(ms) = {ms[i].id : i \in S}
    BY <1>1 DEF Heavy
<1> HIDE DEF n
<1>3. IsFiniteSet(S)
  <2>1. S \in SUBSET Nat /\ \A i \in S : i <= n
    BY <1>1
  <2> QED
    BY <1>1, <2>1, FS_BoundedSetOfNaturals
<1>4. f \in Surjection(S, Heavy(ms))
  <2>1. f \in [S -> Heavy(ms)] /\ \A a \in Heavy(ms) : \E i \in S : f[i] = a
    BY <1>2
  <2> QED
    BY <2>1 DEF Surjection
<1>5. IsFiniteSet(Heavy(ms))
    BY <1>3, <1>4, FS_Surjection
<1>6. \A i \in 1..n : ms[i].id \in Heavy(ms) <=> ms[i].weight > 0
    BY <1>1, <1>2
<1>7. Heavy(ms) \in SUBSET Nat /\ \A a \in Heavy(ms) : w[a] > 0
  <2>1. \A i \in S : ms[i].id \in Nat /\ w[ms[i].id] > 0
    BY <1>1 DEF Known
  <2> QED
    BY <1>2, <2>1
<1> QED
    BY <1>5, <1>6, <1>7 DEF n

\* Of members with a weight one is above the other, by their scores.
LEMMA BeatsOrders ==
    ASSUME NEW w \in [Nat -> Nat], NEW L \in [Nat -> Nat], NEW N \in SUBSET Nat, \A a \in N : w[a] > 0
    PROVE  /\ \A a \in N : ~Beats(w, L, a, a)
           /\ \A a, b \in N : a # b => Beats(w, L, a, b) \/ Beats(w, L, b, a)
           /\ \A a, b, c \in N : Beats(w, L, a, b) /\ Beats(w, L, b, c) => Beats(w, L, a, c)
<1>1. Orders(Score(w, L), N)
    BY ScoreOrders
<1>2. \A a, b \in N : <<a, b>> \in Score(w, L) <=> Beats(w, L, a, b)
    BY ScoreIs
<1> QED
    BY <1>1, <1>2 DEF Orders

\* Which of two comes first, by what is known of them.
LEMMA FirstIs ==
    ASSUME NEW ms, NEW Z, Members(ms, Z), NEW w, NEW z, Known(ms, w, z), NEW L \in [Nat -> Nat],
           NEW i \in 1..Len(ms), NEW j \in 1..Len(ms)
    PROVE  Place!RanksFirst(ms, L, i, j) <=>
             \/ ms[i].weight > 0 /\ ms[j].weight = 0
             \/ ms[i].weight > 0 /\ ms[j].weight > 0 /\ Beats(w, L, ms[i].id, ms[j].id)
             \/ ms[i].weight = 0 /\ ms[j].weight = 0 /\ ms[i].id < ms[j].id
<1>1. PICK a, b : a = ms[i].id /\ b = ms[j].id
    OBVIOUS
<1>2. a \in Nat /\ b \in Nat /\ ms[i].weight \in Nat /\ ms[j].weight \in Nat
    BY <1>1, MembersHave
<1>20. w[a] = ms[i].weight /\ w[b] = ms[j].weight
  <2>1. DOMAIN ms = 1..Len(ms)
    BY MembersHave
  <2> QED
    BY <1>1, <2>1, Zenon DEF Known
<1>21. i \in Nat /\ j \in Nat
    BY MembersHave
<1>22. a = b => i = j
  <2>1. \A k, l \in 1..Len(ms) : ms[k].id = ms[l].id => k = l
    BY MembersHave
  <2> QED
    BY <1>1, <2>1, Zenon
<1>23. i < j => a # b
    BY <1>21, <1>22
<1>3. Place!RanksAbove(ms[i], ms[j], L) <=> Beats(w, L, a, b)
    BY <1>1, <1>20, Zenon DEF Place!RanksAbove, Beats
<1>4. Place!RanksAbove(ms[j], ms[i], L) <=> Beats(w, L, b, a)
    BY <1>1, <1>20, Zenon DEF Place!RanksAbove, Beats
<1>5. ASSUME ms[i].weight > 0, ms[j].weight > 0
      PROVE  Beats(w, L, a, b) \/ (~Beats(w, L, b, a) /\ i < j) <=> Beats(w, L, a, b)
  <2>1. a # b => Beats(w, L, a, b) \/ Beats(w, L, b, a)
    <3>1. {a, b} \in SUBSET Nat /\ w \in [Nat -> Nat] /\ \A c \in {a, b} : w[c] > 0
      BY <1>2, <1>5, <1>20 DEF Known
    <3> QED
      BY <3>1, BeatsOrders
  <2> QED
    BY <1>23, <2>1, Zenon
<1>7. Place!RanksFirst(ms, L, i, j) <=>
        \/ ms[i].weight > 0 /\ ms[j].weight = 0
        \/ /\ ms[i].weight > 0 <=> ms[j].weight > 0
           /\ \/ IF ms[i].weight > 0 THEN Place!RanksAbove(ms[i], ms[j], L) ELSE ms[i].id < ms[j].id
              \/ /\ ~(IF ms[j].weight > 0 THEN Place!RanksAbove(ms[j], ms[i], L) ELSE ms[j].id < ms[i].id)
                 /\ i < j
    BY Zenon DEF Place!RanksFirst
<1>9. (a < b \/ (~(b < a) /\ i < j)) <=> a < b
  <2>1. a # b => a < b \/ b < a
    BY <1>2
  <2> QED
    BY <1>23, <2>1, Zenon
<1>10. (ms[i].weight = 0 <=> ~(ms[i].weight > 0)) /\ (ms[j].weight = 0 <=> ~(ms[j].weight > 0))
  <2>1. \A m \in Nat : (m = 0 => ~(m > 0)) /\ (~(m > 0) => m = 0)
    OBVIOUS
  <2> QED
    BY <1>2, <2>1, Zenon
<1> QED
    BY <1>1, <1>3, <1>4, <1>5, <1>7, <1>9, <1>10, Zenon

First(ms, L) == {p \in (1..Len(ms)) \X (1..Len(ms)) : Place!RanksFirst(ms, L, p[1], p[2])}

\* RanksFirst orders the positions.
LEMMA FirstOrders ==
    ASSUME NEW ms, NEW Z, Members(ms, Z), NEW w, NEW z, Known(ms, w, z), NEW L \in [Nat -> Nat]
    PROVE  Orders(First(ms, L), 1..Len(ms))
<1> DEFINE n == Len(ms)  F(i, j) == Place!RanksFirst(ms, L, i, j)
           B(i, j) == Beats(w, L, ms[i].id, ms[j].id)
<1>1. /\ \A i \in 1..n : ms[i].id \in Nat /\ ms[i].weight \in Nat
      /\ \A i, j \in 1..n : ms[i].id = ms[j].id => i = j
    BY MembersHave
<1>2. \A i, j \in 1..n : F(i, j) <=>
             \/ ms[i].weight > 0 /\ ms[j].weight = 0
             \/ ms[i].weight > 0 /\ ms[j].weight > 0 /\ B(i, j)
             \/ ms[i].weight = 0 /\ ms[j].weight = 0 /\ ms[i].id < ms[j].id
    BY FirstIs
<1>3. \A i, j \in 1..n : <<i, j>> \in First(ms, L) <=> F(i, j)
    BY DEF First
<1>4. w \in [Nat -> Nat] /\ Heavy(ms) \in SUBSET Nat /\ \A a \in Heavy(ms) : w[a] > 0
  <2>1. w \in [Nat -> Nat]
    BY DEF Known
  <2> QED
    BY <2>1, HeavyIs, Zenon
<1>5. \A i \in 1..n : ms[i].weight > 0 => ms[i].id \in Heavy(ms)
    BY HeavyIs
<1>6. /\ \A a \in Heavy(ms) : ~Beats(w, L, a, a)
      /\ \A a, b \in Heavy(ms) : a # b => Beats(w, L, a, b) \/ Beats(w, L, b, a)
      /\ \A a, b, c \in Heavy(ms) : Beats(w, L, a, b) /\ Beats(w, L, b, c) => Beats(w, L, a, c)
    BY <1>4, BeatsOrders
<1>7. \A i \in 1..n : ms[i].weight > 0 => ~B(i, i)
    BY <1>5, <1>6
<1>8. \A i, j \in 1..n : ms[i].weight > 0 /\ ms[j].weight > 0 /\ i # j => B(i, j) \/ B(j, i)
    BY <1>1, <1>5, <1>6
<1>9. \A i, j, k \in 1..n :
        ms[i].weight > 0 /\ ms[j].weight > 0 /\ ms[k].weight > 0 /\ B(i, j) /\ B(j, k) => B(i, k)
  <2> SUFFICES ASSUME NEW i \in 1..n, NEW j \in 1..n, NEW k \in 1..n, ms[i].weight > 0,
                      ms[j].weight > 0, ms[k].weight > 0, B(i, j), B(j, k)
               PROVE  B(i, k)
    OBVIOUS
  <2>1. ms[i].id \in Heavy(ms) /\ ms[j].id \in Heavy(ms) /\ ms[k].id \in Heavy(ms)
    BY <1>5
  <2> QED
    BY <1>6, <2>1, Zenon
<1> HIDE DEF n, F, B
<1>10. \A i \in 1..n : ~F(i, i)
    BY <1>1, <1>2, <1>7
<1>11. \A i, j \in 1..n : i # j => F(i, j) \/ F(j, i)
    BY <1>1, <1>2, <1>8
<1>12. \A i, j, k \in 1..n : F(i, j) /\ F(j, k) => F(i, k)
    BY <1>1, <1>2, <1>9
<1> QED
    BY <1>3, <1>10, <1>11, <1>12 DEF Orders, n

\* There is a rank: the positions in the order of who comes first.
LEMMA RankIs ==
    ASSUME NEW ms, NEW Z, Members(ms, Z), NEW w, NEW z, Known(ms, w, z), NEW L \in [Nat -> Nat]
    PROVE  LET n == Len(ms)
               rank == Place!Rank(ms, L)
           IN  /\ rank \in [1..n -> 1..n]
               /\ \A i, j \in 1..n : i < j => Place!RanksFirst(ms, L, rank[i], rank[j])
               /\ \A i, j \in 1..n : rank[i] = rank[j] => i = j
               /\ \A i \in 1..n : \E j \in 1..n : rank[j] = i
<1> DEFINE n == Len(ms)  F == First(ms, L)  c == [i \in 1..n |-> Cardinality(Higher(1..n, F, i))]
           s == [k \in 1..n |-> CHOOSE i \in 1..n : c[i] = k - 1]
           Sorts(t) == \A i, j \in 1..n : i < j => Place!RanksFirst(ms, L, t[i], t[j])
           rank == Place!Rank(ms, L)
<1>1. n \in Nat /\ DOMAIN ms = 1..n
    BY MembersHave
<1>2. Orders(F, 1..n) /\ \A i, j \in 1..n : <<i, j>> \in F <=> Place!RanksFirst(ms, L, i, j)
    BY FirstOrders DEF First
<1> HIDE DEF n, F
<1>3. IsFiniteSet(1..n) /\ Cardinality(1..n) = n
    BY <1>1, FS_Interval
<1>4. c \in Bijection(1..n, 0..(n - 1)) /\ \A i, j \in 1..n : <<i, j>> \in F <=> c[i] < c[j]
  <2>1. /\ c \in Bijection(1..n, 0..(Cardinality(1..n) - 1))
        /\ \A i, j \in 1..n : <<i, j>> \in F <=> c[i] < c[j]
    BY <1>2, <1>3, HigherCounts
  <2> QED
    BY <1>3, <2>1
<1> HIDE DEF c
<1>5. \A v \in 0..(n - 1) : \E i \in 1..n : c[i] = v
    BY <1>4 DEF Bijection, Surjection
<1>6. \A k \in 1..n : s[k] \in 1..n /\ c[s[k]] = k - 1
  <2> TAKE k \in 1..n
  <2>1. k - 1 \in 0..(n - 1)
    BY <1>1
  <2>2. \E i \in 1..n : c[i] = k - 1
    BY <1>5, <2>1
  <2> QED
    BY <2>2
<1>7. s \in [1..n -> 1..n]
    BY <1>6
<1> HIDE DEF s
<1>8. Sorts(s)
  <2> SUFFICES ASSUME NEW i \in 1..n, NEW j \in 1..n, i < j
               PROVE  Place!RanksFirst(ms, L, s[i], s[j])
    OBVIOUS
  <2>1. c[s[i]] < c[s[j]] /\ s[i] \in 1..n /\ s[j] \in 1..n
    BY <1>1, <1>6
  <2>2. <<s[i], s[j]>> \in F
    BY <1>4, <2>1
  <2> QED
    BY <1>2, <2>1, <2>2
<1>9. rank = CHOOSE t \in [1..n -> 1..n] : Sorts(t)
    BY <1>1 DEF Place!Rank
<1> HIDE DEF Sorts
<1>10. rank \in [1..n -> 1..n] /\ Sorts(rank)
    BY <1>7, <1>8, <1>9
<1> HIDE DEF rank
<1>11. \A i, j \in 1..n : i < j => <<rank[i], rank[j]>> \in F
    BY <1>2, <1>10 DEF Sorts
<1>12. \A i, j \in 1..n : rank[i] = rank[j] => i = j
  <2>1. \A i \in 1..n : <<i, i>> \notin F
    BY <1>2 DEF Orders
  <2>2. \A i, j \in 1..n : i < j => rank[i] # rank[j]
    BY <1>10, <1>11, <2>1
  <2> QED
    BY <1>1, <2>2
<1>13. rank \in Injection(1..n, 1..n)
    BY <1>10, <1>12 DEF Injection, IsInjective
<1>14. rank \in Surjection(1..n, 1..n)
    BY <1>3, <1>13, FS_Injection
<1>15. \A i \in 1..n : \E j \in 1..n : rank[j] = i
    BY <1>14 DEF Surjection
<1> QED
    BY <1>10, <1>12, <1>15 DEF Sorts, n, rank

\* The members in the order of their rank.
Row(ms, L) == [j \in 1..Len(ms) |-> ms[Place!Rank(ms, L)[j]]]

Sorted(row, n, X, N, gt, z) ==
    /\ n \in Nat /\ row \in [1..n -> X]
    /\ \A a \in N : \E j \in 1..n : row[j].id = a
    /\ \A j \in 1..n : row[j].id \in N <=> row[j].weight # 0
    /\ \A j \in 1..n : z[row[j].id] = Place!ZoneOf(row[j])
    /\ \A j, k \in 1..n : row[j].id = row[k].id => j = k
    /\ \A j, k \in 1..n : j < k /\ row[k].id \in N => row[j].id \in N /\ <<row[j].id, row[k].id>> \in gt

\* The members in the order of their rank: those with a weight first, by score.
LEMMA RowIsSorted ==
    ASSUME NEW ms, NEW Z, Members(ms, Z), NEW w, NEW z, Known(ms, w, z), NEW L \in [Nat -> Nat]
    PROVE  Sorted(Row(ms, L), Len(ms), [id : Nat, weight : Nat, zone : Z], Heavy(ms), Score(w, L), z)
<1> DEFINE n == Len(ms)  rank == Place!Rank(ms, L)  X == [id : Nat, weight : Nat, zone : Z]
           row == [j \in 1..n |-> ms[rank[j]]]  N == Heavy(ms)
<1>1. /\ n \in Nat /\ DOMAIN ms = 1..n
      /\ \A i \in 1..n : ms[i] \in X /\ ms[i].id \in Nat /\ ms[i].weight \in Nat
      /\ \A i, j \in 1..n : ms[i].id = ms[j].id => i = j
    BY MembersHave
<1>2. /\ rank \in [1..n -> 1..n]
      /\ \A i, j \in 1..n : i < j => Place!RanksFirst(ms, L, rank[i], rank[j])
      /\ \A i, j \in 1..n : rank[i] = rank[j] => i = j
      /\ \A i \in 1..n : \E j \in 1..n : rank[j] = i
    BY RankIs
<1>3. \A i \in 1..n : ms[i].id \in N <=> ms[i].weight > 0
    BY HeavyIs
<1>4. \A a \in N : \E i \in 1..n : ms[i].id = a
    BY <1>1 DEF Heavy
<1>5. \A i, j \in 1..n : Place!RanksFirst(ms, L, i, j) /\ ms[j].weight > 0 =>
                           ms[i].weight > 0 /\ <<ms[i].id, ms[j].id>> \in Score(w, L)
  <2> SUFFICES ASSUME NEW i \in 1..n, NEW j \in 1..n, Place!RanksFirst(ms, L, i, j), ms[j].weight > 0
               PROVE  ms[i].weight > 0 /\ <<ms[i].id, ms[j].id>> \in Score(w, L)
    OBVIOUS
  <2>1. \/ ms[i].weight > 0 /\ ms[j].weight = 0
        \/ ms[i].weight > 0 /\ ms[j].weight > 0 /\ Beats(w, L, ms[i].id, ms[j].id)
        \/ ms[i].weight = 0 /\ ms[j].weight = 0 /\ ms[i].id < ms[j].id
    BY FirstIs
  <2>2. ms[i].weight > 0 /\ Beats(w, L, ms[i].id, ms[j].id)
    BY <1>1, <2>1
  <2> QED
    BY <1>1, <2>2, ScoreIs
<1>6. \A i \in 1..n : z[ms[i].id] = Place!ZoneOf(ms[i])
    BY <1>1 DEF Known
<1> HIDE DEF n, rank, N, X
<1>7. \A j \in 1..n : row[j] = ms[rank[j]] /\ rank[j] \in 1..n
    BY <1>2
<1>8. row \in [1..n -> X]
    BY <1>1, <1>7
<1> HIDE DEF row
<1>9. \A a \in N : \E j \in 1..n : row[j].id = a
  <2> TAKE a \in N
  <2>1. PICK i \in 1..n : ms[i].id = a
    BY <1>4
  <2>2. PICK j \in 1..n : rank[j] = i
    BY <1>2
  <2> QED
    BY <1>7, <2>1, <2>2
<1>10. \A j \in 1..n : row[j].id \in N <=> row[j].weight # 0
  <2>1. \A i \in 1..n : ms[i].id \in N <=> ms[i].weight # 0
    <3>1. \A m \in Nat : (m > 0 => m # 0) /\ (m # 0 => m > 0)
      OBVIOUS
    <3> QED
      BY <1>1, <1>3, <3>1, Zenon
  <2> QED
    BY <1>7, <2>1
<1>11. \A j \in 1..n : z[row[j].id] = Place!ZoneOf(row[j])
    BY <1>6, <1>7
<1>12. \A j, k \in 1..n : row[j].id = row[k].id => j = k
  <2> SUFFICES ASSUME NEW j \in 1..n, NEW k \in 1..n, row[j].id = row[k].id PROVE j = k
    OBVIOUS
  <2>1. ms[rank[j]].id = ms[rank[k]].id /\ rank[j] \in 1..n /\ rank[k] \in 1..n
    BY <1>7
  <2>2. rank[j] = rank[k]
    BY <1>1, <2>1
  <2> QED
    BY <1>2, <2>2
<1>13. \A j, k \in 1..n : j < k /\ row[k].id \in N =>
            row[j].id \in N /\ <<row[j].id, row[k].id>> \in Score(w, L)
  <2> SUFFICES ASSUME NEW j \in 1..n, NEW k \in 1..n, j < k, row[k].id \in N
               PROVE  row[j].id \in N /\ <<row[j].id, row[k].id>> \in Score(w, L)
    OBVIOUS
  <2>1. Place!RanksFirst(ms, L, rank[j], rank[k])
    BY <1>2
  <2>2. ms[rank[k]].weight > 0
    BY <1>3, <1>7
  <2>3. ms[rank[j]].weight > 0 /\ <<ms[rank[j]].id, ms[rank[k]].id>> \in Score(w, L)
    BY <1>5, <1>7, <2>1, <2>2
  <2> QED
    BY <1>3, <1>7, <2>3
<1>14. Sorted(row, n, X, N, Score(w, L), z)
    BY <1>1, <1>8, <1>9, <1>10, <1>11, <1>12, <1>13, Zenon DEF Sorted
<1> QED
    BY <1>14 DEF n, rank, N, X, row, Row

\* The owners are taken from the row one by one.
Takes(t, ms, rank, r) ==
    t = [n \in 0..Len(ms) |-> IF n = 0 THEN <<>> ELSE Place!Take(t[n - 1], ms[rank[n]], r)]

Taken(t, row, n, X, r) ==
    /\ t \in [0..n -> Seq(X)] /\ t[0] = <<>>
    /\ \A k \in 1..n : t[k] = Place!Take(t[k - 1], row[k], r)

IdsOf(q) == [i \in DOMAIN q |-> q[i].id]

\* There is the function that defines Owners.
LEMMA OwnersAreTaken ==
    ASSUME NEW ms, NEW X, Len(ms) \in Nat, NEW L, NEW r, Row(ms, L) \in [1..Len(ms) -> X]
    PROVE  \E t : /\ Taken(t, Row(ms, L), Len(ms), X, r)
                  /\ Place!Owners(ms, L, r) = IdsOf(t[Len(ms)])
<1>0. PICK n \in Nat : n = Len(ms)
    OBVIOUS
<1>00. PICK row \in [1..n -> X] : row = Row(ms, L)
    BY <1>0
<1> DEFINE rank == Place!Rank(ms, L)
           st == [k \in 1..n |-> [q \in Seq(X) |-> Place!Take(q, row[k], r)]]
<1>1. Steps(st, n, Seq(X))
  <2>1. \A k \in 1..n, q \in Seq(X) : Place!Take(q, row[k], r) \in Seq(X)
    BY DEF Place!Take
  <2> QED
    BY <2>1 DEF Steps
<1>2. PICK t : Stepwise(t, st, n, Seq(X), <<>>)
  <2>1. <<>> \in Seq(X)
    OBVIOUS
  <2> HIDE DEF st
  <2> QED
    BY <1>1, <2>1, StepsThere
<1>3. /\ t \in [0..n -> Seq(X)] /\ t[0] = <<>>
      /\ \A k \in 1..n : t[k] = Place!Take(t[k - 1], row[k], r)
  <2>1. t \in [0..n -> Seq(X)] /\ t[0] = <<>> /\ \A k \in 1..n : t[k] = st[k][t[k - 1]]
    BY <1>2 DEF Stepwise
  <2>2. \A k \in 1..n : k - 1 \in 0..n
    OBVIOUS
  <2>3. \A k \in 1..n : t[k - 1] \in Seq(X)
    BY <2>1, <2>2
  <2>4. \A k \in 1..n, q \in Seq(X) : st[k][q] = Place!Take(q, row[k], r)
    OBVIOUS
  <2> HIDE DEF st
  <2> QED
    BY <2>1, <2>3, <2>4
<1> HIDE DEF st
<1>4. \A k \in 1..n : row[k] = ms[rank[k]]
    BY <1>0, <1>00 DEF Row
<1> HIDE DEF rank
<1>5. Takes(t, ms, rank, r)
  <2> DEFINE g == [k \in 0..n |-> IF k = 0 THEN <<>> ELSE Place!Take(t[k - 1], ms[rank[k]], r)]
  <2>1. \A k \in 0..n : g[k] = t[k]
    <3> TAKE k \in 0..n
    <3>1. k = 0 \/ k \in 1..n
      OBVIOUS
    <3> QED
      BY <1>3, <1>4, <3>1
  <2>2. t = [k \in 0..n |-> t[k]]
    BY <1>3
  <2>3. t = g
    BY <2>1, <2>2
  <2> QED
    BY <1>0, <2>3 DEF Takes
<1> DEFINE h == CHOOSE u : Takes(u, ms, rank, r)
<1>6. Takes(h, ms, rank, r)
    BY <1>5
<1>7. Place!Owners(ms, L, r) = [i \in DOMAIN h[n] |-> h[n][i].id]
    BY <1>0 DEF Place!Owners, Takes, rank
<1> HIDE DEF h
<1>8. h[0] = <<>> /\ \A k \in 1..n : h[k] = Place!Take(h[k - 1], row[k], r)
  <2>1. h[0] = <<>>
    BY <1>0, <1>6 DEF Takes
  <2>2. ASSUME NEW k \in 1..n PROVE h[k] = Place!Take(h[k - 1], row[k], r)
    <3>1. k \in 0..n /\ k # 0
      OBVIOUS
    <3>2. h[k] = Place!Take(h[k - 1], ms[rank[k]], r)
      BY <1>0, <1>6, <3>1 DEF Takes
    <3> QED
      BY <1>4, <3>2
  <2> QED
    BY <2>1, <2>2
<1>9. \A k \in 0..n : h[k] = t[k]
  <2> DEFINE T == {k \in 0..n : h[k] = t[k]}
  <2>1. 0 \in T
    BY <1>3, <1>8
  <2>2. ASSUME NEW k \in 0..(n - 1), k \in T PROVE k + 1 \in T
    <3>1. k + 1 \in 1..n /\ (k + 1) - 1 = k /\ k + 1 \in 0..n
      OBVIOUS
    <3>2. h[k + 1] = Place!Take(h[k], row[k + 1], r)
      BY <1>8, <3>1
    <3>3. t[k + 1] = Place!Take(t[k], row[k + 1], r)
      BY <1>3, <3>1
    <3> QED
      BY <2>2, <3>1, <3>2, <3>3
  <2> HIDE DEF T
  <2>3. \A k \in 0..n : k \in T
    BY <2>1, <2>2, Upward
  <2> QED
    BY <2>3 DEF T
<1>10. n \in 0..n /\ h[n] = t[n]
    BY <1>9
<1>11. Place!Owners(ms, L, r) = IdsOf(t[n])
    BY <1>7, <1>10 DEF IdsOf
<1>12. Taken(t, row, n, X, r)
    BY <1>3 DEF Taken
<1> QED
    BY <1>0, <1>00, <1>11, <1>12

\* The ids of a sequence of members, of which none repeats.
IdsIn(q) == {q[p].id : p \in 1..Len(q)}
IdsOnce(q) == \A p, o \in 1..Len(q) : q[p].id = q[o].id => p = o

\* As many ids as entries.
LEMMA IdsCount ==
    ASSUME NEW X, NEW q \in Seq(X), IdsOnce(q)
    PROVE  IsFiniteSet(IdsIn(q)) /\ Cardinality(IdsIn(q)) = Len(q)
<1> DEFINE f == [p \in 1..Len(q) |-> q[p].id]
<1>1. Len(q) \in Nat
    OBVIOUS
<1>2. f \in Bijection(1..Len(q), IdsIn(q))
  <2>1. f \in [1..Len(q) -> IdsIn(q)]
    BY DEF IdsIn
  <2>2. f \in Injection(1..Len(q), IdsIn(q))
    BY <2>1 DEF Injection, IsInjective, IdsOnce
  <2>3. f \in Surjection(1..Len(q), IdsIn(q))
    BY <2>1 DEF Surjection, IdsIn
  <2> QED
    BY <2>2, <2>3 DEF Bijection
<1>3. IsFiniteSet(1..Len(q)) /\ Cardinality(1..Len(q)) = Len(q)
  <2>1. ASSUME NEW n \in Nat PROVE IsFiniteSet(1..n) /\ Cardinality(1..n) = n
    BY FS_Interval
  <2> QED
    BY <1>1, <2>1, Zenon
<1> QED
    BY <1>2, <1>3, FS_Bijection DEF ExistsBijection

\* In a row, who is above comes before, and, if anyone is chosen, the first is.
LEMMA RowFollows ==
    ASSUME NEW row, NEW n, NEW X, NEW N, NEW gt, NEW z, Sorted(row, n, X, N, gt, z), Orders(gt, N),
           IsFiniteSet(N), NEW r \in Nat
    PROVE  /\ \A j, k \in 1..n :
                row[j].id \in N /\ row[k].id \in N /\ <<row[j].id, row[k].id>> \in gt => j < k
           /\ Chosen(N, gt, z, r) # {} => 1 \in 1..n /\ row[1].id \in Chosen(N, gt, z, r)
<1> DEFINE id(j) == row[j].id  B == Best(N, gt, z)  C == Chosen(N, gt, z, r)
<1>1. /\ n \in Nat /\ \A a \in N : \E j \in 1..n : id(j) = a
      /\ \A j, k \in 1..n : j < k /\ id(k) \in N => id(j) \in N /\ <<id(j), id(k)>> \in gt
    BY DEF Sorted
<1> HIDE DEF id
<1>2. \A j, k \in 1..n : id(j) \in N /\ id(k) \in N /\ <<id(j), id(k)>> \in gt => j < k
  <2> SUFFICES ASSUME NEW j \in 1..n, NEW k \in 1..n, id(j) \in N, id(k) \in N, <<id(j), id(k)>> \in gt
               PROVE  j < k
    OBVIOUS
  <2>1. id(j) # id(k)
    BY DEF Orders
  <2>2. ~(k < j)
    BY <1>1 DEF Orders
  <2> QED
    BY <1>1, <2>1, <2>2
<1>3. ASSUME C # {} PROVE 1 \in 1..n /\ id(1) \in C
  <2>1. PICK o \in C : TRUE
    BY <1>3
  <2>2. C \subseteq B /\ B \subseteq N /\ IsFiniteSet(B)
    BY ChosenAre
  <2>3. PICK j \in 1..n : id(j) = o
    BY <1>1, <2>2
  <2>4. 1 \in 1..n /\ (j = 1 \/ 1 < j)
    BY <1>1
  <2>5. id(1) \in N
    BY <1>1, <2>2, <2>3, <2>4
  <2>6. \A a \in N : a = id(1) \/ <<id(1), a>> \in gt
    <3> TAKE a \in N
    <3>1. PICK k \in 1..n : id(k) = a
      BY <1>1
    <3>2. k = 1 \/ 1 < k
      BY <1>1
    <3> QED
      BY <1>1, <2>4, <3>1, <3>2
  <2>7. id(1) \in B
    BY <2>5, <2>6 DEF Best
  <2>8. Higher(B, gt, id(1)) = {}
    BY <2>2, <2>5, <2>6 DEF Higher, Orders
  <2>9. r > 0
    <3>1. Cardinality(Higher(B, gt, o)) < r
      BY DEF Chosen
    <3>2. Higher(B, gt, o) \in SUBSET B
      BY DEF Higher
    <3>3. Cardinality(Higher(B, gt, o)) \in Nat
      BY <2>2, <3>2, FS_Subset, FS_CardinalityType
    <3> QED
      BY <3>1, <3>3
  <2>10. Cardinality(Higher(B, gt, id(1))) < r
    BY <2>8, <2>9, FS_EmptySet
  <2> QED
    BY <2>4, <2>7, <2>10 DEF Chosen
<1> QED
    BY <1>2, <1>3 DEF id

\* What has been taken of the first k: those of them that are chosen.
TakenTo(q, k, row, C) ==
    /\ \A p \in 1..Len(q) : \E j \in 1..k : q[p] = row[j]
    /\ IdsIn(q) = {a \in C : \E j \in 1..k : row[j].id = a}
    /\ IdsOnce(q)
    /\ q # <<>> => q[1] = row[1]

\* The next is taken if and only if it is chosen.
LEMMA TakesChosen ==
    ASSUME NEW row, NEW n, NEW X, NEW N, NEW gt, NEW z, Sorted(row, n, X, N, gt, z), Orders(gt, N),
           IsFiniteSet(N), NEW r \in Nat, NEW k \in 0..(n - 1), NEW q \in Seq(X),
           TakenTo(q, k, row, Chosen(N, gt, z, r))
    PROVE  row[k + 1].id \in Chosen(N, gt, z, r) <=>
             ~(\/ Len(q) >= r \/ row[k + 1].weight = 0
               \/ \E p \in DOMAIN q : Place!ZoneOf(q[p]) = Place!ZoneOf(row[k + 1]))
<1> DEFINE id(j) == row[j].id  B == Best(N, gt, z)  C == Chosen(N, gt, z, r)
           m == row[k + 1]  a == id(k + 1)
           S == IdsIn(q)
<1>1. /\ n \in Nat /\ \A b \in N : \E j \in 1..n : id(j) = b
      /\ \A j \in 1..n : id(j) \in N <=> row[j].weight # 0
      /\ \A j \in 1..n : z[id(j)] = Place!ZoneOf(row[j])
      /\ \A j, l \in 1..n : id(j) = id(l) => j = l
      /\ \A j, l \in 1..n : j < l /\ id(l) \in N => id(j) \in N /\ <<id(j), id(l)>> \in gt
    BY DEF Sorted
<1>2. k + 1 \in 1..n /\ k \in Nat /\ \A j \in 1..k : j \in 1..n /\ j < k + 1
    BY <1>1
<1>3. \A j, l \in 1..n : id(j) \in N /\ id(l) \in N /\ <<id(j), id(l)>> \in gt => j < l
    BY RowFollows
<1>4. /\ C \subseteq B /\ B \subseteq N /\ IsFiniteSet(C) /\ IsFiniteSet(B)
      /\ \A b \in B : b \notin C => Cardinality(C) = r /\ \A o \in C : <<o, b>> \in gt
    BY ChosenAre
<1>5. IsFiniteSet(S) /\ Cardinality(S) = Len(q) /\ Len(q) \in Nat
  <2>1. IdsOnce(q)
    BY DEF TakenTo
  <2>2. Len(q) \in Nat
    OBVIOUS
  <2> QED
    BY <2>1, <2>2, IdsCount
<1>6. /\ S = {b \in C : \E j \in 1..k : id(j) = b}
      /\ \A p \in 1..Len(q) : \E j \in 1..k : q[p] = row[j]
      /\ DOMAIN q = 1..Len(q)
    BY DEF TakenTo
<1>7. \A p \in 1..Len(q) : q[p].id \in S /\ z[q[p].id] = Place!ZoneOf(q[p])
  <2> TAKE p \in 1..Len(q)
  <2>1. PICK j \in 1..k : q[p] = row[j]
    BY <1>6
  <2>2. z[id(j)] = Place!ZoneOf(row[j])
    BY <1>1, <1>2
  <2> QED
    BY <2>1, <2>2 DEF IdsIn
<1>8. \A b \in S : \E p \in 1..Len(q) : q[p].id = b
    BY DEF IdsIn
<1>9. z[a] = Place!ZoneOf(m) /\ (a \in N <=> m.weight # 0)
    BY <1>1, <1>2
<1> HIDE DEF id, S, B, C, m
<1>10. ASSUME a \in C
       PROVE  Len(q) < r /\ m.weight # 0 /\ \A p \in 1..Len(q) : Place!ZoneOf(q[p]) # Place!ZoneOf(m)
  <2>1. a \in B /\ a \in N /\ Cardinality(Higher(B, gt, a)) < r
    BY <1>4, <1>10 DEF Chosen, C, B
  <2>2. S \in SUBSET Higher(B, gt, a)
    BY <1>1, <1>2, <1>4, <1>6, <2>1 DEF Higher
  <2>3. IsFiniteSet(Higher(B, gt, a)) /\ Cardinality(Higher(B, gt, a)) \in Nat
    <3>1. Higher(B, gt, a) \in SUBSET B
      BY DEF Higher
    <3> QED
      BY <1>4, <3>1, FS_Subset, FS_CardinalityType
  <2>4. Cardinality(S) <= Cardinality(Higher(B, gt, a))
    BY <2>2, <2>3, FS_Subset
  <2>5. Len(q) < r
    BY <1>5, <2>1, <2>3, <2>4
  <2>6. ASSUME NEW p \in 1..Len(q), Place!ZoneOf(q[p]) = Place!ZoneOf(m) PROVE FALSE
    <3>1. q[p].id \in S /\ z[q[p].id] = z[a]
      BY <1>7, <1>9, <2>6
    <3>2. q[p].id \in B
      BY <1>4, <1>6, <3>1
    <3>3. \A i, j \in B : z[i] = z[j] => i = j
      BY BestPerZone DEF B
    <3>4. a \in S
      BY <2>1, <3>1, <3>2, <3>3
    <3>5. PICK j \in 1..k : id(j) = a
      BY <1>6, <3>4
    <3> QED
      BY <1>1, <1>2, <3>5
  <2> QED
    BY <1>9, <2>1, <2>5, <2>6
<1>11. ASSUME a \notin C, Len(q) < r, m.weight # 0,
              \A p \in 1..Len(q) : Place!ZoneOf(q[p]) # Place!ZoneOf(m)
       PROVE  FALSE
  <2>1. a \in N
    BY <1>9, <1>11
  <2>2. PICK b \in B : z[b] = z[a] /\ (b = a \/ <<b, a>> \in gt)
    BY <2>1, ZoneHasBest DEF B
  <2>3. ASSUME NEW o \in C, <<o, a>> \in gt PROVE o \in S
    <3>1. PICK j \in 1..n : id(j) = o
      BY <1>1, <1>4
    <3>2. o \in N
      BY <1>4
    <3>3. j < k + 1
      BY <1>2, <1>3, <2>1, <2>3, <3>1, <3>2
    <3>4. j \in 1..k
      BY <1>2, <3>3
    <3> QED
      BY <1>6, <3>1, <3>4
  <2>4. CASE b \in C
    <3>1. b \in S
      BY <1>11, <2>2, <2>3, <2>4
    <3>2. PICK p \in 1..Len(q) : q[p].id = b
      BY <1>8, <3>1
    <3>3. Place!ZoneOf(q[p]) = z[b]
      BY <1>7, <3>2
    <3> QED
      BY <1>9, <1>11, <2>2, <3>3
  <2>5. CASE b \notin C
    <3>1. Cardinality(C) = r /\ \A o \in C : <<o, b>> \in gt
      BY <1>4, <2>5
    <3>2. \A o \in C : <<o, a>> \in gt
      BY <1>4, <2>1, <2>2, <3>1 DEF Orders
    <3>3. C \subseteq S
      BY <2>3, <3>2
    <3>4. S = C
      BY <1>6, <3>3
    <3> QED
      BY <1>5, <1>11, <3>1, <3>4
  <2> QED
    BY <2>4, <2>5
<1>12. Len(q) >= r <=> ~(Len(q) < r)
    BY <1>5
<1> QED
    BY <1>6, <1>10, <1>11, <1>12, Zenon DEF id, C, m

\* All the way down the row, the chosen ones are taken and nobody else.
LEMMA ChosenAreTaken ==
    ASSUME NEW row, NEW n, NEW X, NEW N, NEW gt, NEW z, Sorted(row, n, X, N, gt, z), Orders(gt, N),
           IsFiniteSet(N), NEW r \in Nat, NEW t, Taken(t, row, n, X, r)
    PROVE  TakenTo(t[n], n, row, Chosen(N, gt, z, r))
<1> DEFINE C == Chosen(N, gt, z, r)  T == {k \in 0..n : TakenTo(t[k], k, row, C)}
<1>0. n \in Nat /\ row \in [1..n -> X] /\ \A j, k \in 1..n : row[j].id = row[k].id => j = k
    BY DEF Sorted
<1>00. /\ t \in [0..n -> Seq(X)] /\ t[0] = <<>>
       /\ \A k \in 1..n : t[k] = Place!Take(t[k - 1], row[k], r)
    BY DEF Taken
<1>1. 0 \in T
  <2>1. 0 \in 0..n /\ 1..0 = {} /\ Len(<<>>) = 0
    BY <1>0
  <2>2. TakenTo(<<>>, 0, row, C)
    BY <2>1 DEF TakenTo, IdsIn, IdsOnce
  <2> QED
    BY <1>00, <2>1, <2>2
<1>2. ASSUME NEW k \in 0..(n - 1), k \in T PROVE k + 1 \in T
  <2>1. k + 1 \in 1..n /\ (k + 1) - 1 = k /\ k + 1 \in 0..n /\ k \in 0..n /\ k \in Nat
    BY <1>0
  <2>2. PICK q \in Seq(X) : q = t[k]
    BY <1>00, <2>1
  <2>3. PICK m \in X : m = row[k + 1]
    BY <1>0, <2>1
  <2>4. TakenTo(q, k, row, C)
    BY <1>2, <2>2
  <2>5. t[k + 1] = Place!Take(q, m, r)
    BY <1>00, <2>1, <2>2, <2>3
  <2>6. m.id \in C <=> ~(\/ Len(q) >= r \/ m.weight = 0
                         \/ \E p \in DOMAIN q : Place!ZoneOf(q[p]) = Place!ZoneOf(m))
    BY <2>3, <2>4, TakesChosen
  <2>7. t[k + 1] = IF m.id \in C THEN Append(q, m) ELSE q
    BY <2>5, <2>6, Zenon DEF Place!Take
  <2> HIDE DEF C
  <2>8. \A j \in 1..(k + 1) : j \in 1..k \/ j = k + 1
    BY <2>1
  <2>9. \A j \in 1..k : j \in 1..(k + 1) /\ j \in 1..n /\ j # k + 1
    BY <1>0, <2>1
  <2>10. k + 1 \in 1..(k + 1)
    BY <2>1
  <2>11. CASE m.id \notin C
    <3>1. {a \in C : \E j \in 1..(k + 1) : row[j].id = a} = {a \in C : \E j \in 1..k : row[j].id = a}
      BY <2>3, <2>8, <2>9, <2>11
    <3>2. TakenTo(q, k + 1, row, C)
      BY <2>4, <2>9, <3>1 DEF TakenTo
    <3> QED
      BY <2>1, <2>7, <2>11, <3>2
  <2>12. CASE m.id \in C
    <3> DEFINE s == Append(q, m)
    <3>1. /\ Len(q) \in Nat /\ Len(s) = Len(q) + 1
          /\ \A p \in 1..Len(q) : s[p] = q[p]
          /\ s[Len(q) + 1] = m /\ s # <<>>
      OBVIOUS
    <3>2. \A p \in 1..(Len(q) + 1) : p \in 1..Len(q) \/ p = Len(q) + 1
      BY <3>1
    <3>3. \A p \in 1..Len(q) : p \in 1..(Len(q) + 1)
      BY <3>1
    <3>4. Len(q) + 1 \in 1..(Len(q) + 1)
      BY <3>1
    <3> HIDE DEF s
    <3>5. IdsIn(s) = IdsIn(q) \cup {m.id}
      BY <3>1, <3>2, <3>3, <3>4 DEF IdsIn
    <3>6. IdsIn(q) = {a \in C : \E j \in 1..k : row[j].id = a}
      BY <2>4 DEF TakenTo
    <3>7. IdsIn(s) = {a \in C : \E j \in 1..(k + 1) : row[j].id = a}
      BY <2>3, <2>8, <2>9, <2>10, <2>12, <3>5, <3>6
    <3>8. m.id \notin IdsIn(q)
      BY <1>0, <2>1, <2>3, <2>9, <3>6
    <3>9. IdsOnce(s)
      <4>1. \A p, o \in 1..Len(q) : q[p].id = q[o].id => p = o
        BY <2>4 DEF TakenTo, IdsOnce
      <4>2. \A p \in 1..Len(q) : q[p].id # m.id
        BY <3>8 DEF IdsIn
      <4> QED
        BY <3>1, <3>2, <4>1, <4>2 DEF IdsOnce
    <3>10. \A p \in 1..Len(s) : \E j \in 1..(k + 1) : s[p] = row[j]
      <4>1. \A p \in 1..Len(q) : \E j \in 1..k : q[p] = row[j]
        BY <2>4 DEF TakenTo
      <4>2. ASSUME NEW p \in 1..Len(q) PROVE \E j \in 1..(k + 1) : s[p] = row[j]
        BY <2>9, <3>1, <4>1
      <4>3. \E j \in 1..(k + 1) : s[Len(q) + 1] = row[j]
        BY <2>3, <2>10, <3>1
      <4> QED
        BY <3>1, <3>2, <4>2, <4>3
    <3>11. s[1] = row[1]
      <4>1. CASE q # <<>>
        <5>1. 1 \in 1..Len(q)
          BY <4>1
        <5> QED
          BY <2>4, <3>1, <4>1, <5>1 DEF TakenTo
      <4>2. CASE q = <<>>
        <5>1. IdsIn(q) = {} /\ Len(q) = 0
          BY <4>2 DEF IdsIn
        <5>2. 1 \in 1..n /\ row[1].id \in C
          BY <2>12, RowFollows DEF C
        <5>3. ~(1 \in 1..k)
          BY <3>6, <5>1, <5>2
        <5>4. k = 0
          BY <2>1, <5>3
        <5> QED
          BY <2>3, <3>1, <5>1, <5>4
      <4> QED
        BY <4>1, <4>2
    <3>12. TakenTo(s, k + 1, row, C)
      BY <3>7, <3>9, <3>10, <3>11 DEF TakenTo
    <3> QED
      BY <2>1, <2>7, <2>12, <3>12 DEF s
  <2> QED
    BY <2>11, <2>12
<1>3. n \in T
  <2> HIDE DEF T
  <2>1. \A k \in 0..n : k \in T
    BY <1>0, <1>1, <1>2, Upward
  <2> QED
    BY <1>0, <2>1
<1> QED
    BY <1>3

\* The owners are the chosen ones, each once; the first of them ranks first.
LEMMA OwnersAreChosen ==
    ASSUME NEW ms, NEW Z, Members(ms, Z), NEW w, NEW z, Known(ms, w, z), NEW L \in [Nat -> Nat],
           NEW r \in Nat
    PROVE  LET own == Place!Owners(ms, L, r)
               ids == Place!RankIds(ms, L)
           IN  /\ Place!ToSet(own) = Chosen(Heavy(ms), Score(w, L), z, r)
               /\ own \in Seq(Nat) /\ Place!IsInjective(own)
               /\ ids \in Seq(Nat) /\ Place!IsInjective(ids)
               /\ own # <<>> => ids # <<>> /\ own[1] = ids[1]
<1> DEFINE n == Len(ms)  X == [id : Nat, weight : Nat, zone : Z]  N == Heavy(ms)  gt == Score(w, L)
           row == Row(ms, L)  C == Chosen(N, gt, z, r)
           own == Place!Owners(ms, L, r)  ids == Place!RankIds(ms, L)
<1>1. Sorted(row, n, X, N, gt, z)
    BY RowIsSorted
<1>2. Orders(gt, N) /\ IsFiniteSet(N)
  <2>1. w \in [Nat -> Nat]
    BY DEF Known
  <2>2. N \in SUBSET Nat /\ IsFiniteSet(N) /\ \A a \in N : w[a] > 0
    BY HeavyIs
  <2> QED
    BY <2>1, <2>2, ScoreOrders
<1>3. ids = [i \in 1..n |-> row[i].id]
  <2>1. Place!Rank(ms, L) \in [1..n -> 1..n]
    BY RankIs
  <2>2. DOMAIN Place!Rank(ms, L) = 1..n
    BY <2>1
  <2> QED
    BY <2>2 DEF Place!RankIds, Row
<1>4. n \in Nat /\ row \in [1..n -> X] /\ \A j, k \in 1..n : row[j].id = row[k].id => j = k
    BY <1>1 DEF Sorted
<1>5. PICK t : Taken(t, row, n, X, r) /\ own = IdsOf(t[n])
  <2>1. Len(ms) \in Nat /\ Row(ms, L) \in [1..Len(ms) -> X]
    BY <1>4
  <2> HIDE DEF X
  <2>2. \E t : /\ Taken(t, Row(ms, L), Len(ms), X, r)
              /\ Place!Owners(ms, L, r) = IdsOf(t[Len(ms)])
    BY <2>1, OwnersAreTaken, Zenon
  <2> QED
    BY <2>2
<1> HIDE DEF n, N, gt, row, C, own, ids, X
<1>6. TakenTo(t[n], n, row, C)
    BY <1>1, <1>2, <1>5, ChosenAreTaken DEF C
<1>7. PICK q \in Seq(X) : q = t[n]
    BY <1>4, <1>5 DEF Taken
<1>8. Len(q) \in Nat /\ DOMAIN q = 1..Len(q) /\ q \in [1..Len(q) -> X]
    OBVIOUS
<1>9. own = [i \in 1..Len(q) |-> q[i].id]
    BY <1>5, <1>7, <1>8 DEF IdsOf
<1>10. \A x \in X : x.id \in Nat
    BY DEF X
<1>11. own \in [1..Len(q) -> Nat] /\ ids \in [1..n -> Nat]
    BY <1>3, <1>4, <1>8, <1>9, <1>10
<1>12. own \in Seq(Nat) /\ ids \in Seq(Nat) /\ DOMAIN own = 1..Len(q) /\ DOMAIN ids = 1..n
  <2>1. ASSUME NEW m \in Nat, NEW f \in [1..m -> Nat] PROVE f \in Seq(Nat) /\ DOMAIN f = 1..m
    OBVIOUS
  <2> QED
    BY <1>4, <1>8, <1>11, <2>1
<1>13. Place!IsInjective(ids)
    BY <1>3, <1>4, <1>12 DEF Place!IsInjective
<1>14. Place!IsInjective(own)
    BY <1>6, <1>7, <1>9, <1>12 DEF Place!IsInjective, TakenTo, IdsOnce
<1>15. Place!ToSet(own) = IdsIn(q)
    BY <1>9, <1>12 DEF Place!ToSet, IdsIn
<1>16. IdsIn(q) = C
  <2>1. IdsIn(q) = {a \in C : \E j \in 1..n : row[j].id = a}
    BY <1>6, <1>7 DEF TakenTo
  <2>2. C \subseteq N
    BY DEF C, Chosen, Best
  <2>3. \A a \in N : \E j \in 1..n : row[j].id = a
    BY <1>1 DEF Sorted
  <2> QED
    BY <2>1, <2>2, <2>3
<1>17. ASSUME own # <<>> PROVE ids # <<>> /\ own[1] = ids[1]
  <2>1. q # <<>>
    BY <1>9, <1>17
  <2>2. 1 \in 1..Len(q)
    BY <2>1
  <2>3. q[1] = row[1] /\ \E j \in 1..n : q[1] = row[j]
    BY <1>6, <1>7, <2>1, <2>2 DEF TakenTo
  <2>4. 1 \in 1..n
    BY <1>4, <2>3
  <2>5. own[1] = q[1].id
    BY <1>9, <2>2
  <2>6. ids[1] = row[1].id
    BY <1>3, <2>4
  <2>7. ids # <<>>
    <3>1. DOMAIN ids # {}
      BY <1>12, <2>4
    <3>2. DOMAIN <<>> = {}
      OBVIOUS
    <3> QED
      BY <3>1, <3>2
  <2> QED
    BY <2>3, <2>5, <2>6, <2>7
<1> QED
    BY <1>12, <1>13, <1>14, <1>15, <1>16, <1>17 DEF C, N, gt, own, ids

\* Members that have ids of their own can be known by them.
LEMMA KnownThere ==
    ASSUME NEW ms, NEW Z, Members(ms, Z)
    PROVE  \E w, z : Known(ms, w, z)
<1> DEFINE n == Len(ms)  at(a) == CHOOSE i \in 1..n : ms[i].id = a
           w == [a \in Nat |-> IF \E i \in 1..n : ms[i].id = a THEN ms[at(a)].weight ELSE 0]
           z == [a \in Nat |-> Place!ZoneOf(ms[at(a)])]
<1>1. /\ DOMAIN ms = 1..n
      /\ \A i \in 1..n : ms[i].id \in Nat /\ ms[i].weight \in Nat
      /\ \A i, j \in 1..n : ms[i].id = ms[j].id => i = j
    BY MembersHave
<1> HIDE DEF n
<1>2. \A i \in 1..n : at(ms[i].id) = i
  <2> TAKE i \in 1..n
  <2>1. at(ms[i].id) \in 1..n /\ ms[at(ms[i].id)].id = ms[i].id
    OBVIOUS
  <2> QED
    BY <1>1, <2>1
<1>3. \A a \in Nat : (\E i \in 1..n : ms[i].id = a) => at(a) \in 1..n
    OBVIOUS
<1> HIDE DEF at
<1>4. w \in [Nat -> Nat]
    BY <1>1, <1>3
<1>5. \A i \in 1..n : w[ms[i].id] = ms[i].weight /\ z[ms[i].id] = Place!ZoneOf(ms[i])
    BY <1>1, <1>2
<1> HIDE DEF w, z
<1>6. Known(ms, w, z)
    BY <1>1, <1>4, <1>5 DEF Known
<1> QED
    BY <1>6

\* Only how the members compare with each other matters.
LEMMA ChosenSame ==
    ASSUME NEW N, NEW gt, NEW up, NEW z, NEW r, \A a, b \in N : <<a, b>> \in gt <=> <<a, b>> \in up
    PROVE  Chosen(N, gt, z, r) = Chosen(N, up, z, r)
<1>1. Best(N, gt, z) = Best(N, up, z) /\ Best(N, gt, z) \subseteq N
    BY DEF Best
<1>2. \A i \in N : Higher(Best(N, gt, z), gt, i) = Higher(Best(N, gt, z), up, i)
    BY <1>1 DEF Higher
<1> QED
    BY <1>1, <1>2 DEF Chosen

\* What a concatenation has.
LEMMA Joined ==
    ASSUME NEW X, NEW a \in Seq(X), NEW b \in Seq(X)
    PROVE  /\ a \o b \in Seq(X) /\ Len(a \o b) = Len(a) + Len(b)
           /\ DOMAIN (a \o b) = 1..(Len(a) + Len(b))
           /\ \A j \in 1..(Len(a) + Len(b)) :
                (a \o b)[j] = IF j <= Len(a) THEN a[j] ELSE b[j - Len(a)]
OBVIOUS

\* A member that leaves.
LEMMA LeavesMembers ==
    ASSUME NEW ms, NEW Z, Members(ms, Z), NEW w, NEW z, Known(ms, w, z), NEW i \in 1..Len(ms)
    PROVE  LET ws == Place!Without(ms, i)
           IN  Members(ws, Z) /\ Known(ws, w, z) /\ Heavy(ws) = Heavy(ms) \ {ms[i].id}
<1> DEFINE X == [id : Nat, weight : Nat, zone : Z]  ws == Place!Without(ms, i)
           from(j) == IF j < i THEN j ELSE j + 1
<1>0. PICK n \in Nat : n = Len(ms)
    BY MembersHave
<1>1. /\ DOMAIN ms = 1..n /\ ms \in Seq(X)
      /\ \A j, k \in 1..n : ms[j].id = ms[k].id => j = k
    BY <1>0, MembersHave DEF Members
<1> HIDE DEF X
<1>2. PICK a \in Seq(X), b \in Seq(X) :
        /\ a = SubSeq(ms, 1, i - 1) /\ b = SubSeq(ms, i + 1, n) /\ Len(a) = i - 1 /\ Len(b) = n - i
        /\ \A j \in 1..(i - 1) : a[j] = ms[j]
        /\ \A j \in 1..(n - i) : b[j] = ms[j + i]
  <2>1. SubSeq(ms, 1, i - 1) \in Seq(X) /\ SubSeq(ms, i + 1, n) \in Seq(X)
    BY <1>0, <1>1
  <2>2. Len(SubSeq(ms, 1, i - 1)) = i - 1 /\ Len(SubSeq(ms, i + 1, n)) = n - i
    BY <1>0, <1>1
  <2>3. \A j \in 1..(i - 1) : SubSeq(ms, 1, i - 1)[j] = ms[j]
    BY <1>0, <1>1
  <2>4. \A j \in 1..(n - i) : SubSeq(ms, i + 1, n)[j] = ms[j + i]
    BY <1>0, <1>1
  <2> QED
    BY <2>1, <2>2, <2>3, <2>4
<1>3. ws = a \o b
    BY <1>0, <1>2 DEF Place!Without, Place!RemoveAt
<1>4. /\ ws \in Seq(X) /\ Len(ws) = n - 1 /\ DOMAIN ws = 1..(n - 1)
      /\ \A j \in 1..(n - 1) : ws[j] = IF j <= i - 1 THEN a[j] ELSE b[j - (i - 1)]
  <2> HIDE DEF ws
  <2>1. /\ ws \in Seq(X) /\ Len(ws) = Len(a) + Len(b) /\ DOMAIN ws = 1..(Len(a) + Len(b))
        /\ \A j \in 1..(Len(a) + Len(b)) : ws[j] = IF j <= Len(a) THEN a[j] ELSE b[j - Len(a)]
    BY <1>3, Joined
  <2>2. Len(a) = i - 1 /\ Len(a) + Len(b) = n - 1
    <3>1. Len(a) = i - 1 /\ Len(b) = n - i
      BY <1>2
    <3>2. (i - 1) + (n - i) = n - 1
      BY <1>0
    <3> QED
      BY <3>1, <3>2
  <2> QED
    BY <2>1, <2>2
<1> HIDE DEF ws
<1>5. \A j \in 1..(n - 1) : ws[j] = ms[from(j)]
  <2> TAKE j \in 1..(n - 1)
  <2>1. CASE j < i
    <3>1. j \in 1..(i - 1) /\ j <= i - 1
      BY <1>0, <2>1
    <3>2. ws[j] = a[j]
      BY <1>4, <3>1
    <3> QED
      BY <1>2, <2>1, <3>1, <3>2
  <2>2. CASE ~(j < i)
    <3>1. j - (i - 1) \in 1..(n - i) /\ (j - (i - 1)) + i = j + 1
      BY <1>0, <2>2
    <3>2. ws[j] = b[j - (i - 1)]
      <4>1. ~(j <= i - 1)
        BY <1>0, <2>2
      <4> QED
        BY <1>4, <4>1
    <3>3. b[j - (i - 1)] = ms[j + 1]
      BY <1>2, <3>1
    <3> QED
      BY <2>2, <3>2, <3>3
  <2> QED
    BY <2>1, <2>2
<1>6. \A j \in 1..(n - 1) : from(j) \in 1..n /\ from(j) # i
    BY <1>0
<1>7. \A j, k \in 1..(n - 1) : from(j) = from(k) => j = k
    BY <1>0
<1>8. \A k \in 1..n : k # i => \E j \in 1..(n - 1) : from(j) = k
  <2> SUFFICES ASSUME NEW k \in 1..n, k # i PROVE \E j \in 1..(n - 1) : from(j) = k
    OBVIOUS
  <2>1. CASE k < i
    BY <1>0, <2>1, k \in 1..(n - 1)
  <2>2. CASE k > i
    BY <1>0, <2>2, k - 1 \in 1..(n - 1), from(k - 1) = k
  <2> QED
    BY <1>0, <2>1, <2>2
<1> HIDE DEF from
<1>9. Members(ws, Z)
  <2>1. \A j, k \in 1..(n - 1) : ws[j].id = ws[k].id => j = k
    BY <1>1, <1>5, <1>6, <1>7
  <2> QED
    BY <1>4, <2>1 DEF Members, X
<1>10. Known(ws, w, z)
  <2>1. \A k \in 1..n : w[ms[k].id] = ms[k].weight /\ z[ms[k].id] = Place!ZoneOf(ms[k])
    BY <1>1 DEF Known
  <2>2. \A j \in 1..(n - 1) : w[ws[j].id] = ws[j].weight /\ z[ws[j].id] = Place!ZoneOf(ws[j])
    BY <1>5, <1>6, <2>1
  <2> QED
    BY <1>4, <2>2 DEF Known
<1>11. Heavy(ws) = {ws[j].id : j \in {j \in 1..(n - 1) : ws[j].weight > 0}}
    BY <1>4 DEF Heavy
<1>12. Heavy(ms) = {ms[j].id : j \in {j \in 1..n : ms[j].weight > 0}}
    BY <1>1 DEF Heavy
<1>13. Heavy(ws) \subseteq Heavy(ms) \ {ms[i].id}
  <2>1. ASSUME NEW j \in 1..(n - 1), ws[j].weight > 0 PROVE ws[j].id \in Heavy(ms) \ {ms[i].id}
    BY <1>0, <1>1, <1>5, <1>6, <1>12, <2>1
  <2> QED
    BY <1>11, <2>1
<1>14. Heavy(ms) \ {ms[i].id} \subseteq Heavy(ws)
  <2>1. ASSUME NEW k \in 1..n, ms[k].weight > 0, ms[k].id # ms[i].id PROVE ms[k].id \in Heavy(ws)
    <3>1. PICK j \in 1..(n - 1) : from(j) = k
      BY <1>8, <2>1
    <3> QED
      BY <1>5, <1>11, <2>1, <3>1
  <2> QED
    BY <1>12, <2>1
<1> QED
    BY <1>9, <1>10, <1>13, <1>14 DEF ws

\* A member that changes its weight.
LEMMA ReweighedMembers ==
    ASSUME NEW ms, NEW Z, Members(ms, Z), NEW w, NEW z, Known(ms, w, z), NEW i \in 1..Len(ms), NEW v \in Nat
    PROVE  LET rs == Place!Reweighed(ms, i, v)
           IN  /\ Members(rs, Z) /\ Known(rs, [w EXCEPT ![ms[i].id] = v], z)
               /\ Heavy(rs) = (Heavy(ms) \ {ms[i].id}) \cup (IF v > 0 THEN {ms[i].id} ELSE {})
<1> DEFINE X == [id : Nat, weight : Nat, zone : Z]  rs == Place!Reweighed(ms, i, v)
           x == ms[i].id  u == [w EXCEPT ![x] = v]
<1>0. PICK n \in Nat : n = Len(ms)
    BY MembersHave
<1>1. /\ DOMAIN ms = 1..n /\ ms \in Seq(X) /\ \A j \in 1..n : ms[j] \in X
      /\ \A j, k \in 1..n : ms[j].id = ms[k].id => j = k
    BY <1>0, MembersHave DEF Members
<1>2. rs \in Seq(X) /\ DOMAIN rs = 1..n
    BY <1>0, <1>1 DEF Place!Reweighed
<1>3. \A j \in 1..n : j # i => rs[j] = ms[j]
    BY <1>0, <1>1 DEF Place!Reweighed
<1>4. rs[i] = [ms[i] EXCEPT !.weight = v]
    BY <1>0, <1>1 DEF Place!Reweighed
<1>5. rs[i].id = ms[i].id /\ rs[i].weight = v /\ rs[i].zone = ms[i].zone
    BY <1>0, <1>1, <1>4
<1> HIDE DEF rs, X
<1>6. \A j \in 1..n : rs[j].id = ms[j].id
    BY <1>3, <1>5
<1>7. Members(rs, Z)
    BY <1>1, <1>2, <1>6 DEF Members, X
<1>8. Known(rs, u, z)
  <2>1. \A j \in 1..n : ms[j].id \in Nat /\ w[ms[j].id] = ms[j].weight /\ z[ms[j].id] = Place!ZoneOf(ms[j])
    BY <1>0, <1>1, MembersHave DEF Known
  <2>2. u \in [Nat -> Nat] /\ u[x] = v /\ \A a \in Nat : a # x => u[a] = w[a]
    BY <1>0, <2>1 DEF Known
  <2>3. Place!ZoneOf(rs[i]) = Place!ZoneOf(ms[i])
    BY <1>5 DEF Place!ZoneOf
  <2> HIDE DEF u
  <2>4. ASSUME NEW j \in 1..n PROVE u[rs[j].id] = rs[j].weight /\ z[rs[j].id] = Place!ZoneOf(rs[j])
    <3>1. CASE j = i
      BY <1>5, <2>1, <2>2, <2>3, <3>1
    <3>2. CASE j # i
      <4>1. ms[j].id # x
        BY <1>0, <1>1, <3>2
      <4> QED
        BY <1>3, <2>1, <2>2, <3>2, <4>1
    <3> QED
      BY <3>1, <3>2
  <2> QED
    BY <1>2, <2>2, <2>4 DEF Known
<1>9. Heavy(rs) = {rs[j].id : j \in {j \in 1..n : rs[j].weight > 0}}
    BY <1>2 DEF Heavy
<1>10. Heavy(ms) = {ms[j].id : j \in {j \in 1..n : ms[j].weight > 0}}
    BY <1>1 DEF Heavy
<1>11. i \in 1..n
    BY <1>0
<1>12. \A a : a \in Heavy(rs) <=> (a \in Heavy(ms) /\ a # x) \/ (a = x /\ v > 0)
  <2> TAKE a
  <2>1. ASSUME a \in Heavy(rs) PROVE (a \in Heavy(ms) /\ a # x) \/ (a = x /\ v > 0)
    <3>1. PICK j \in 1..n : rs[j].weight > 0 /\ rs[j].id = a
      BY <1>9, <2>1
    <3>2. CASE j = i
      BY <1>5, <3>1, <3>2
    <3>3. CASE j # i
      BY <1>1, <1>3, <1>10, <1>11, <3>1, <3>3
    <3> QED
      BY <3>2, <3>3
  <2>2. ASSUME a \in Heavy(ms), a # x PROVE a \in Heavy(rs)
    <3>1. PICK j \in 1..n : ms[j].weight > 0 /\ ms[j].id = a
      BY <1>10, <2>2
    <3> QED
      BY <1>3, <1>9, <2>2, <3>1
  <2>3. ASSUME a = x, v > 0 PROVE a \in Heavy(rs)
    BY <1>5, <1>9, <1>11, <2>3
  <2> QED
    BY <2>1, <2>2, <2>3
<1> QED
    BY <1>7, <1>8, <1>12 DEF rs

\* More weight only raises a node.
LEMMA MoreWeightRises ==
    ASSUME NEW w \in [Nat -> Nat], NEW L \in [Nat -> Nat], NEW N \in SUBSET Nat, NEW x \in Nat
    PROVE  Rises(x, N, Score(w, L), Score([w EXCEPT ![x] = w[x] + 1], L))
<1> DEFINE u == [w EXCEPT ![x] = w[x] + 1]
<1>1. u \in [Nat -> Nat] /\ u[x] = w[x] + 1 /\ \A a \in Nat : a # x => u[a] = w[a]
    OBVIOUS
<1> HIDE DEF u
<1>2. \A a, b \in N \ {x} : <<a, b>> \in Score(u, L) <=> <<a, b>> \in Score(w, L)
  <2> SUFFICES ASSUME NEW a \in N \ {x}, NEW b \in N \ {x}
               PROVE  <<a, b>> \in Score(u, L) <=> <<a, b>> \in Score(w, L)
    OBVIOUS
  <2>1. u[a] = w[a] /\ u[b] = w[b]
    BY <1>1
  <2>2. Beats(u, L, a, b) <=> Beats(w, L, a, b)
    BY <2>1, Zenon DEF Beats
  <2> QED
    BY <2>2, ScoreIs
<1>3. ASSUME NEW b \in N, <<x, b>> \in Score(w, L) PROVE <<x, b>> \in Score(u, L)
  <2>1. Beats(w, L, x, b)
    BY <1>3, ScoreIs
  <2>2. PICK wx \in Nat, wb \in Nat, lx \in Nat, lb \in Nat :
          wx = w[x] /\ wb = w[b] /\ lx = L[x] /\ lb = L[b]
    OBVIOUS
  <2>3. PICK m \in Nat, n \in Nat : m = wx * lb /\ n = wb * lx
    BY Products
  <2>4. m > n \/ (m = n /\ x < b)
    BY <2>1, <2>2, <2>3, Zenon DEF Beats
  <2>5. b # x
    <3>1. m = n => b # x
      BY <2>4
    <3>2. b = x => m = n
      BY <2>2, <2>3
    <3> QED
      BY <3>1, <3>2
  <2>6. u[x] * L[b] = m + lb /\ u[b] * L[x] = n
    <3>1. (wx + 1) * lb = wx * lb + lb
      OBVIOUS
    <3>2. u[x] = wx + 1 /\ u[b] = wb
      BY <1>1, <2>2, <2>5
    <3> QED
      BY <2>2, <2>3, <3>1, <3>2
  <2>7. m + lb > n \/ (m + lb = n /\ x < b)
    BY <2>4
  <2>8. Beats(u, L, x, b)
    BY <2>6, <2>7, Zenon DEF Beats
  <2> QED
    BY <2>8, ScoreIs
<1> QED
    BY <1>2, <1>3 DEF Rises, u

\* A view whose nodes have ids of their own, now and in a transition.
SoundView(v, Z) ==
    /\ Members(v.nodes, Z) /\ v.replicas \in Nat
    /\ Place!InTransition(v) => Members(v.pending.nodes, Z) /\ v.pending.replicas \in Nat

\* The owners under a view, and the node that leaves, is drained or grows.
LEMMA OwnersMove ==
    ASSUME NEW ms, NEW Z, Members(ms, Z), NEW w, NEW z, Known(ms, w, z), NEW L \in [Nat -> Nat],
           NEW r \in Nat, NEW i \in 1..Len(ms)
    PROVE  LET id == ms[i].id
               ids == Place!ToSet(Place!Owners(ms, L, r))
               left == Place!ToSet(Place!Owners(Place!Without(ms, i), L, r))
               drained == Place!ToSet(Place!Owners(Place!Reweighed(ms, i, 0), L, r))
               grown == Place!ToSet(Place!Owners(Place!Reweighed(ms, i, ms[i].weight + 1), L, r))
           IN  /\ ids \ {id} \subseteq left /\ left = drained
               /\ id \in ids => grown = ids
               /\ Cardinality(ids \ grown) <= 1
<1> DEFINE x == ms[i].id  N == Heavy(ms)  gt == Score(w, L)  C == Chosen(N, gt, z, r)
           v == ms[i].weight + 1  u0 == [w EXCEPT ![x] = 0]  u1 == [w EXCEPT ![x] = w[x] + 1]
<1>1. x \in Nat /\ ms[i].weight \in Nat /\ v \in Nat /\ v > 0
  <2>1. x \in Nat
    BY MembersHave
  <2>2. PICK m \in Nat : m = ms[i].weight
    BY MembersHave
  <2>3. v = m + 1
    BY <2>2
  <2>4. m + 1 \in Nat /\ m + 1 > 0
    OBVIOUS
  <2> HIDE DEF x, v
  <2> QED
    BY <2>1, <2>2, <2>3, <2>4, Zenon
<1>2. w \in [Nat -> Nat] /\ w[x] + 1 = v
    BY MembersHave DEF Known
<1>3. N \in SUBSET Nat /\ IsFiniteSet(N) /\ Orders(gt, N)
  <2>1. N \in SUBSET Nat /\ IsFiniteSet(N) /\ \A a \in N : w[a] > 0
    BY HeavyIs
  <2> QED
    BY <1>2, <2>1, ScoreOrders
<1>4. Place!ToSet(Place!Owners(ms, L, r)) = C
    BY OwnersAreChosen
<1>5. Place!ToSet(Place!Owners(Place!Without(ms, i), L, r)) = Chosen(N \ {x}, gt, z, r)
  <2> DEFINE ws == Place!Without(ms, i)
  <2>1. Members(ws, Z) /\ Known(ws, w, z)
    BY LeavesMembers
  <2>2. Heavy(ws) = N \ {x}
    BY LeavesMembers
  <2> HIDE DEF ws
  <2>3. Place!ToSet(Place!Owners(ws, L, r)) = Chosen(Heavy(ws), Score(w, L), z, r)
    BY <2>1, OwnersAreChosen
  <2> QED
    BY <2>2, <2>3 DEF ws
<1>6. Place!ToSet(Place!Owners(Place!Reweighed(ms, i, 0), L, r)) = Chosen(N \ {x}, Score(u0, L), z, r)
  <2> DEFINE rs == Place!Reweighed(ms, i, 0)
  <2>1. Members(rs, Z) /\ Known(rs, u0, z)
    BY ReweighedMembers, 0 \in Nat
  <2>2. Heavy(rs) = (N \ {x}) \cup (IF 0 > 0 THEN {x} ELSE {})
    BY ReweighedMembers, 0 \in Nat
  <2>3. Heavy(rs) = N \ {x}
    <3>1. ~(0 > 0)
      OBVIOUS
    <3> HIDE DEF rs, N, x
    <3>2. Heavy(rs) = (N \ {x}) \cup {}
      BY <2>2, <3>1, Zenon
    <3> QED
      BY <3>2, Zenon
  <2>4. Place!ToSet(Place!Owners(rs, L, r)) = Chosen(Heavy(rs), Score(u0, L), z, r)
    BY <2>1, OwnersAreChosen
  <2> QED
    BY <2>3, <2>4
<1>7. Chosen(N \ {x}, gt, z, r) = Chosen(N \ {x}, Score(u0, L), z, r)
  <2>1. \A a \in Nat : a # x => u0[a] = w[a]
    BY <1>2
  <2> HIDE DEF u0, x, N
  <2>2. ASSUME NEW a \in N \ {x}, NEW b \in N \ {x}
        PROVE  <<a, b>> \in gt <=> <<a, b>> \in Score(u0, L)
    <3>1. a \in Nat /\ b \in Nat /\ u0[a] = w[a] /\ u0[b] = w[b]
      BY <1>3, <2>1
    <3>2. Beats(u0, L, a, b) <=> Beats(w, L, a, b)
      BY <3>1, Zenon DEF Beats
    <3> QED
      BY <3>1, <3>2, ScoreIs
  <2> HIDE DEF gt
  <2> QED
    BY <2>2, ChosenSame
<1>8. C \ {x} \subseteq Chosen(N \ {x}, gt, z, r)
    BY <1>3, ChosenWithout
<1>9. Place!ToSet(Place!Owners(Place!Reweighed(ms, i, v), L, r)) = Chosen(N \cup {x}, Score(u1, L), z, r)
  <2> DEFINE rs == Place!Reweighed(ms, i, v)
  <2>1. Members(rs, Z) /\ Known(rs, [w EXCEPT ![x] = v], z)
    BY <1>1, ReweighedMembers
  <2>2. Heavy(rs) = (N \ {x}) \cup (IF v > 0 THEN {x} ELSE {})
    BY <1>1, ReweighedMembers
  <2>3. Heavy(rs) = N \cup {x}
    BY <1>1, <2>2
  <2>4. [w EXCEPT ![x] = v] = u1
    BY <1>2
  <2>5. Place!ToSet(Place!Owners(rs, L, r)) = Chosen(Heavy(rs), Score([w EXCEPT ![x] = v], L), z, r)
    BY <2>1, OwnersAreChosen
  <2> QED
    BY <2>3, <2>4, <2>5
<1>10. Rises(x, N, gt, Score(u1, L))
    BY <1>1, <1>2, <1>3, MoreWeightRises
<1>11. Orders(Score(u1, L), N \cup {x})
  <2>1. u1 \in [Nat -> Nat] /\ u1[x] = v /\ \A a \in Nat : a # x => u1[a] = w[a]
    BY <1>1, <1>2
  <2>2. N \in SUBSET Nat /\ \A a \in N : w[a] > 0
    BY HeavyIs
  <2> HIDE DEF u1, x, N, v
  <2>3. N \cup {x} \in SUBSET Nat /\ \A a \in N \cup {x} : u1[a] > 0
    BY <1>1, <2>1, <2>2
  <2> QED
    BY <2>1, <2>3, ScoreOrders
<1> HIDE DEF x, N, gt, v, u0, u1
<1>12. x \in C => Chosen(N \cup {x}, Score(u1, L), z, r) = C
    BY <1>3, <1>10, <1>11, ChosenRises
<1>13. Cardinality(C \ Chosen(N \cup {x}, Score(u1, L), z, r)) <= 1
    BY <1>3, <1>10, <1>11, RiseDisplacesAtMostOne
<1> HIDE DEF C
<1> QED
    BY <1>4, <1>5, <1>6, <1>7, <1>8, <1>9, <1>12, <1>13 DEF x, v

\* How many owners there are, in which zones.
LEMMA OwnersCount ==
    ASSUME NEW ms, NEW Z, Members(ms, Z), NEW w, NEW z, Known(ms, w, z), NEW L \in [Nat -> Nat],
           NEW r \in Nat
    PROVE  LET ids == Place!ToSet(Place!Owners(ms, L, r))
               zones == {Place!ZoneOf(ms[i]) : i \in {i \in DOMAIN ms : ms[i].id \in ids}}
           IN  /\ Cardinality(ids) = Place!Min({r, Cardinality(Place!WeightedZones(ms))})
               /\ Cardinality(zones) = Cardinality(ids) /\ zones \subseteq Place!WeightedZones(ms)
               /\ IsFiniteSet(ids) /\ ids \subseteq Heavy(ms)
<1> DEFINE N == Heavy(ms)  gt == Score(w, L)  C == Chosen(N, gt, z, r)  B == Best(N, gt, z)
           zones == {Place!ZoneOf(ms[i]) : i \in {i \in DOMAIN ms : ms[i].id \in C}}
<1>0. PICK n \in Nat : n = Len(ms)
    BY MembersHave
<1>1. DOMAIN ms = 1..n /\ \A i \in 1..n : z[ms[i].id] = Place!ZoneOf(ms[i])
    BY <1>0, MembersHave DEF Known
<1>2. N \in SUBSET Nat /\ IsFiniteSet(N) /\ Orders(gt, N)
  <2>1. N \in SUBSET Nat /\ IsFiniteSet(N) /\ \A a \in N : w[a] > 0
    BY HeavyIs
  <2> QED
    BY <2>1, ScoreOrders DEF Known
<1>3. Place!ToSet(Place!Owners(ms, L, r)) = C
    BY OwnersAreChosen
<1>4. N = {ms[i].id : i \in {i \in 1..n : ms[i].weight > 0}}
    BY <1>1 DEF Heavy
<1>5. Place!WeightedZones(ms) = {Place!ZoneOf(ms[i]) : i \in {i \in 1..n : ms[i].weight > 0}}
    BY <1>1 DEF Place!WeightedZones
<1> HIDE DEF N, gt
<1>6. /\ C \subseteq B /\ B \subseteq N /\ IsFiniteSet(C) /\ Cardinality(B) \in Nat
      /\ Cardinality(C) = IF r <= Cardinality(B) THEN r ELSE Cardinality(B)
    BY <1>2, ChosenAre
<1>7. /\ \A a, b \in B : z[a] = z[b] => a = b
      /\ Cardinality({z[a] : a \in N}) = Cardinality(B)
    BY <1>2, BestPerZone
<1>8. Place!WeightedZones(ms) = {z[a] : a \in N}
  <2> HIDE DEF B, C
  <2>1. ASSUME NEW i \in 1..n, ms[i].weight > 0 PROVE Place!ZoneOf(ms[i]) \in {z[a] : a \in N}
    BY <1>1, <1>4, <2>1
  <2>2. ASSUME NEW a \in N PROVE z[a] \in Place!WeightedZones(ms)
    <3>1. PICK i \in 1..n : ms[i].weight > 0 /\ ms[i].id = a
      BY <1>4
    <3> QED
      BY <1>1, <1>5, <3>1
  <2> QED
    BY <1>5, <2>1, <2>2
<1> HIDE DEF B, C
<1>9. Cardinality(C) = Place!Min({r, Cardinality(Place!WeightedZones(ms))})
  <2>1. PICK m \in Nat : m = Cardinality(B)
    BY <1>6
  <2>2. Place!Min({r, m}) = IF r <= m THEN r ELSE m
    BY DEF Place!Min
  <2> QED
    BY <1>6, <1>7, <1>8, <2>1, <2>2
<1>10. zones = {z[a] : a \in C}
  <2>1. ASSUME NEW i \in DOMAIN ms, ms[i].id \in C PROVE Place!ZoneOf(ms[i]) \in {z[a] : a \in C}
    BY <1>1, <2>1
  <2>2. ASSUME NEW a \in C PROVE z[a] \in zones
    <3>1. PICK i \in 1..n : ms[i].id = a
      BY <1>4, <1>6
    <3> QED
      BY <1>1, <3>1
  <2> QED
    BY <2>1, <2>2
<1>11. Cardinality({z[a] : a \in C}) = Cardinality(C)
  <2> DEFINE f == [a \in C |-> z[a]]
  <2>1. f \in [C -> {z[a] : a \in C}]
    OBVIOUS
  <2>2. f \in Injection(C, {z[a] : a \in C})
    BY <1>6, <1>7, <2>1 DEF Injection, IsInjective
  <2>3. f \in Surjection(C, {z[a] : a \in C})
    BY <2>1 DEF Surjection
  <2>4. f \in Bijection(C, {z[a] : a \in C})
    BY <2>2, <2>3 DEF Bijection
  <2> QED
    BY <1>6, <2>4, FS_Bijection DEF ExistsBijection
<1>12. {z[a] : a \in C} \subseteq Place!WeightedZones(ms)
    BY <1>6, <1>8
<1>13. C \subseteq N
    BY <1>6
<1> QED
    BY <1>3, <1>6, <1>9, <1>10, <1>11, <1>12, <1>13 DEF N

\* Placement counts as the theorems about finite sets do.
LEMMA SameCardinality == \A S : Place!Cardinality(S) = Cardinality(S)
BY Zenon DEF Place!Cardinality, Cardinality

\* A change that drops fewer weighted nodes than the owners leaves one of them.
LEMMA AnOwnerStays ==
    ASSUME NEW ms, NEW Z, Members(ms, Z), NEW target, NEW ids, ids \subseteq Heavy(ms), IsFiniteSet(ids),
           ids # {}, Place!ValidChange(ms, target, Cardinality(ids))
    PROVE  \E j \in DOMAIN target : target[j].id \in ids /\ target[j].weight > 0
<1> SUFFICES ASSUME \A j \in DOMAIN target : ~(target[j].id \in ids /\ target[j].weight > 0)
             PROVE  FALSE
    OBVIOUS
<1> DEFINE stays(m) == \E j \in DOMAIN target : target[j].id = m.id /\ target[j].weight > 0
           dropped == {i \in DOMAIN ms : ms[i].weight > 0 /\ ~stays(ms[i])}
           P == {i \in DOMAIN ms : ms[i].weight > 0 /\ ms[i].id \in ids}
           f == [i \in P |-> ms[i].id]
<1>0. PICK n \in Nat : n = Len(ms)
    BY MembersHave
<1>1. DOMAIN ms = 1..n
    BY <1>0, MembersHave
<1>2. ~(Cardinality(dropped) >= Cardinality(ids) /\ Cardinality(ids) > 0)
    BY SameCardinality, Zenon DEF Place!ValidChange
<1>3. P \subseteq dropped
    OBVIOUS
<1>4. IsFiniteSet(dropped)
  <2>1. dropped \in SUBSET Nat /\ \A i \in dropped : i <= n
    BY <1>0, <1>1
  <2> HIDE DEF dropped
  <2> QED
    BY <2>1, FS_BoundedSetOfNaturals
<1>5. f \in Surjection(P, ids)
  <2>1. f \in [P -> ids]
    OBVIOUS
  <2>2. ASSUME NEW a \in ids PROVE \E i \in P : f[i] = a
    <3>1. PICK i \in DOMAIN ms : ms[i].weight > 0 /\ ms[i].id = a
      BY DEF Heavy
    <3> QED
      BY <3>1
  <2> QED
    BY <2>1, <2>2 DEF Surjection
<1> HIDE DEF dropped, P, f
<1>6. IsFiniteSet(P) /\ Cardinality(P) <= Cardinality(dropped)
    BY <1>3, <1>4, FS_Subset
<1>7. Cardinality(ids) <= Cardinality(P)
    BY <1>5, <1>6, FS_Surjection
<1>8. Cardinality(ids) \in Nat /\ Cardinality(ids) # 0
    BY FS_CardinalityType, FS_EmptySet
<1>9. Cardinality(P) \in Nat /\ Cardinality(dropped) \in Nat
    BY <1>4, <1>6, FS_CardinalityType
<1> QED
    BY <1>2, <1>6, <1>7, <1>8, <1>9

\* The order of reading and the write set of a view, out of its parts.
LEMMA ReadAndWritten ==
    ASSUME NEW Z, NEW v, NEW L \in [Nat -> Nat], SoundView(v, Z)
    PROVE  LET own == Place!CurOwners(v, L)
               order == Place!ReadOrder(v, L)
               all == Place!WriteSet(v, L)
           IN  /\ own \in Seq(Nat) /\ order \in Seq(Nat)
               /\ own # <<>> => order # <<>> /\ order[1] = own[1]
               /\ Place!IsInjective(order) /\ Place!IsInjective(all)
               /\ \A id : id \in Place!ToSet(all) <=> Place!InWriteSet(v, L, id)
<1> DEFINE own == Place!CurOwners(v, L)  ids == Place!RankIds(v.nodes, L)
<1>1. /\ own \in Seq(Nat) /\ Place!IsInjective(own)
      /\ ids \in Seq(Nat) /\ Place!IsInjective(ids)
      /\ own # <<>> => ids # <<>> /\ own[1] = ids[1]
  <2>1. PICK ms, r : ms = v.nodes /\ r = v.replicas /\ Members(ms, Z) /\ r \in Nat
    BY DEF SoundView
  <2>2. own = Place!Owners(ms, L, r) /\ ids = Place!RankIds(ms, L)
    BY <2>1 DEF Place!CurOwners
  <2>3. PICK w, z : Known(ms, w, z)
    BY <2>1, KnownThere
  <2> HIDE DEF own, ids
  <2>4. Members(ms, Z) /\ r \in Nat
    BY <2>1
  <2> QED
    BY <2>2, <2>3, <2>4, OwnersAreChosen
<1>2. CASE ~Place!InTransition(v)
  <2>1. Place!ReadOrder(v, L) = ids /\ Place!WriteSet(v, L) = own
    BY <1>2 DEF Place!ReadOrder, Place!WriteSet
  <2>2. \A id : id \in Place!ToSet(own) <=> Place!InWriteSet(v, L, id)
    BY <1>2 DEF Place!InWriteSet, Place!IsOwner, Place!IsPendingOwner
  <2> HIDE DEF own, ids
  <2> QED
    BY <1>1, <2>1, <2>2 DEF own
<1>3. CASE Place!InTransition(v)
  <2> DEFINE own2 == Place!PendingOwners(v, L)  ids2 == Place!RankIds(v.pending.nodes, L)
  <2>1. /\ own2 \in Seq(Nat) /\ Place!IsInjective(own2)
        /\ ids2 \in Seq(Nat) /\ Place!IsInjective(ids2)
    <3>1. PICK ms, r : /\ ms = v.pending.nodes /\ r = v.pending.replicas
                       /\ Members(ms, Z) /\ r \in Nat
      BY <1>3 DEF SoundView
    <3>2. own2 = Place!Owners(ms, L, r) /\ ids2 = Place!RankIds(ms, L)
      BY <3>1 DEF Place!PendingOwners
    <3>3. PICK w, z : Known(ms, w, z)
      BY <3>1, KnownThere
    <3> HIDE DEF own2, ids2
    <3>4. Members(ms, Z) /\ r \in Nat
      BY <3>1
    <3> QED
      BY <3>2, <3>3, <3>4, OwnersAreChosen
  <2>2. /\ Place!ReadOrder(v, L) = Place!Followed(ids, ids2)
        /\ Place!WriteSet(v, L) = Place!Followed(own, own2)
    BY <1>3 DEF Place!ReadOrder, Place!WriteSet
  <2>3. \A id : Place!InWriteSet(v, L, id) <=> id \in Place!ToSet(own) \cup Place!ToSet(own2)
    BY <1>3 DEF Place!InWriteSet, Place!IsOwner, Place!IsPendingOwner
  <2> HIDE DEF own, ids, own2, ids2
  <2>4. /\ Place!Followed(ids, ids2) \in Seq(Nat) /\ Place!IsInjective(Place!Followed(ids, ids2))
        /\ ids # <<>> => Place!Followed(ids, ids2) # <<>> /\ Place!Followed(ids, ids2)[1] = ids[1]
    BY <1>1, <2>1, FollowedHas
  <2>5. /\ Place!IsInjective(Place!Followed(own, own2))
        /\ Place!ToSet(Place!Followed(own, own2)) = Place!ToSet(own) \cup Place!ToSet(own2)
    <3>1. /\ own \in Seq(Nat) /\ Place!IsInjective(own)
          /\ own2 \in Seq(Nat) /\ Place!IsInjective(own2)
      BY <1>1, <2>1
    <3> QED
      BY <3>1, FollowedHas
  <2> QED
    BY <1>1, <2>2, <2>3, <2>4, <2>5 DEF own
<1> QED
    BY <1>2, <1>3

\* So all that PlacedRight says holds of such a view, whatever the numbers.
LEMMA AllPlacedRight ==
    ASSUME NEW Z, NEW v, NEW L \in [Nat -> Nat], SoundView(v, Z)
    PROVE  Place!PlacedRight(v, L)
<1> DEFINE ms == v.nodes  r == v.replicas  own == Place!Owners(ms, L, r)
           ids == Place!ToSet(own)  order == Place!ReadOrder(v, L)  all == Place!WriteSet(v, L)
           zones == {Place!ZoneOf(ms[i]) : i \in {i \in DOMAIN ms : ms[i].id \in ids}}
           left(i) == Place!ToSet(Place!Owners(Place!Without(ms, i), L, r))
           drained(i) == Place!ToSet(Place!Owners(Place!Reweighed(ms, i, 0), L, r))
           grown(i) == Place!ToSet(Place!Owners(Place!Reweighed(ms, i, ms[i].weight + 1), L, r))
<1>1. Members(ms, Z) /\ r \in Nat
    BY DEF SoundView
<1>2. PICK w, z : Known(ms, w, z)
    BY <1>1, KnownThere
<1>3. own = Place!CurOwners(v, L)
    BY DEF Place!CurOwners
<1>4. /\ Cardinality(ids) = Place!Min({r, Cardinality(Place!WeightedZones(ms))})
      /\ Cardinality(zones) = Cardinality(ids) /\ zones \subseteq Place!WeightedZones(ms)
      /\ IsFiniteSet(ids) /\ ids \subseteq Heavy(ms)
  <2> HIDE DEF ms, r
  <2> QED
    BY <1>1, <1>2, OwnersCount
<1>5. ASSUME NEW i \in DOMAIN ms
      PROVE  /\ ids \ {ms[i].id} \subseteq left(i) /\ left(i) = drained(i)
             /\ ms[i].id \in ids => grown(i) = ids
             /\ Cardinality(ids \ grown(i)) <= 1
  <2> HIDE DEF ms, r
  <2>1. i \in 1..Len(ms)
    BY <1>1, MembersHave
  <2> QED
    BY <1>1, <1>2, <2>1, OwnersMove
<1>6. /\ own \in Seq(Nat) /\ order \in Seq(Nat)
      /\ own # <<>> => order # <<>> /\ order[1] = own[1]
      /\ Place!IsInjective(order) /\ Place!IsInjective(all)
      /\ \A id : id \in Place!ToSet(all) <=> Place!InWriteSet(v, L, id)
    BY <1>3, ReadAndWritten
<1>7. ids # {} => Head(order) = own[1]
  <2>1. own = <<>> => ids = {}
    BY DEF Place!ToSet
  <2> HIDE DEF own, order, ids
  <2>2. order \in Seq(Nat) /\ order # <<>> => Head(order) = order[1]
    OBVIOUS
  <2> QED
    BY <1>6, <2>1, <2>2, Zenon
<1>8. ASSUME ids # {}, Cardinality(ids) = r, Place!ValidChange(ms, v.pending.nodes, r)
      PROVE  \E j \in DOMAIN v.pending.nodes :
               v.pending.nodes[j].id \in ids /\ v.pending.nodes[j].weight > 0
  <2> HIDE DEF ms, r, ids
  <2> QED
    BY <1>1, <1>4, <1>8, AnOwnerStays
<1>9. \A i \in DOMAIN order : (order[i] \in Place!ToSet(all)) = Place!InWriteSet(v, L, order[i])
  <2>1. \A id : Place!InWriteSet(v, L, id) \in BOOLEAN
    BY DEF Place!InWriteSet
  <2>2. \A id : (id \in Place!ToSet(all)) \in BOOLEAN
    OBVIOUS
  <2> HIDE DEF order, all
  <2>3. \A id : (id \in Place!ToSet(all)) = Place!InWriteSet(v, L, id)
    BY <1>6, <2>1, <2>2, Zenon
  <2> QED
    BY <2>3, Zenon
<1> HIDE DEF ms, r, own, ids, order, all, zones
<1> QED
    BY <1>4, <1>5, <1>6, <1>7, <1>8, <1>9, SameCardinality, Zenon
    DEF Place!PlacedRight, Place!CurOwners, ms, r, own, ids, order, all, zones

(***************************************************************************)
(* PlacedRight, of Set::owners, the write_set and read_order of Placement  *)
(* and validate_change: for any number of nodes of any weights, in any     *)
(* zones, any number of replicas, and whatever numbers the hash gives the  *)
(* nodes for a key.  The only assumption is that no two nodes of a view    *)
(* have the same id.                                                       *)
(***************************************************************************)
THEOREM PushPlacedRight == AnySpec => []PlacedRight
<1> DEFINE Sampled == part = "place" => sample \in Samples
<1>1. AnyInit => Sampled
    BY DEF AnyInit
<1>2. Sampled /\ [AnyNext]_<<part, vars, sample>> => Sampled'
    BY DEF AnyNext
<1>3. Sampled => PlacedRight
  <2> SUFFICES ASSUME part = "place", sample \in Samples
               PROVE  Place!PlacedRight(sample.view, Numbers(sample))
    BY DEF PlacedRight
  <2>1. SoundView(sample.view, Zones)
    BY SamplesAssumption DEF SoundView, NodeList, Members, Place!InTransition
  <2>2. Numbers(sample) \in [Nat -> Nat]
    BY SamplesAssumption DEF Numbers
  <2> QED
    BY <2>1, <2>2, AllPlacedRight
<1> QED
    BY <1>1, <1>2, <1>3, PTL DEF AnySpec
=============================================================================
